------------------------------ MODULE MdocMan ------------------------------
(***************************************************************************)
(* Conversion of mdoc(7) to man(7): the handlers of mdoc_man.c.  The state *)
(* is kept in static variables, and nothing is saved while the children of *)
(* a node are printed: what a handler opens before them, a handler has to  *)
(* close after them.                                                       *)
(*                                                                         *)
(* The state m:                                                            *)
(*   bl      Bl_stack and Bl_stack_post up to Bl_stack_len: a sequence of  *)
(*           [w, post], w = 0 for a list with an offset, else the          *)
(*           indentation of an item; post: .RS was printed for it          *)
(*   fonts   fontqueue.tail - fontqueue.head                               *)
(*   bk, sm, split   MMAN_Bk, MMAN_Sm, MMAN_An_split and MMAN_An_nosplit   *)
(*   rs      .RS without .RE in the man(7) code printed so far             *)
(*   nf      that code is in no-fill mode                                  *)
(*   stray   no .nf or .fi was printed since a display did not switch that *)
(*           mode as the parser does (history, see Format)                 *)
(*   ret, marks, fault    as in HtmlOut                                    *)
(* Spacing and line breaks (the other bits of outflags, TPremain) are left *)
(* out.                                                                    *)
(***************************************************************************)
EXTENDS Integers, Sequences, TLC

BL_STACK_MAX == 32

Items == {"bullet", "tag"}      \* list types whose items are indented

\* man_mdoc()
man_begin ==
    [bl |-> <<>>, fonts |-> 0, bk |-> FALSE, sm |-> TRUE, split |-> "none",
     rs |-> 0, nf |-> FALSE, stray |-> FALSE, ret |-> TRUE, marks |-> 0, fault |-> FALSE]

Return0(m) == [m EXCEPT !.ret = FALSE]
Fault(m) == [m EXCEPT !.fault = TRUE]

font_push(m) == [m EXCEPT !.fonts = @ + 1]
font_pop(m) == [m EXCEPT !.fonts = IF @ > 0 THEN @ - 1 ELSE @]

\* .nf and .fi
Fill(m, nofill) == [m EXCEPT !.nf = nofill, !.stray = FALSE]

RS(m) == [m EXCEPT !.rs = @ + 1]
RE(m) == [m EXCEPT !.rs = @ - 1]
Stack(m, w) ==
    IF Len(m.bl) = BL_STACK_MAX THEN Fault(m)
    ELSE [m EXCEPT !.bl = Append(@, [w |-> w, post |-> FALSE])]
Innermost(m) == m.bl[Len(m.bl)]
Unstack(m) == [m EXCEPT !.bl = SubSeq(@, 1, Len(@) - 1)]

\* print_offs()
print_offs(m) == RS(m)

\* mid_it(): back inside an item, restore its indentation, but once only.
mid_it(m) ==
    IF m.bl = <<>> \/ Innermost(m).w = 0 \/ Innermost(m).post THEN m
    ELSE [RS(m) EXCEPT !.bl[Len(m.bl)].post = TRUE]

\* print_width()
print_width(m, n) == Stack(mid_it(m), n.wd[2] + 2)

\* In man(7), .SH goes back to fill mode, but .SS does not.
pre_sect(m, n) ==
    IF n.type = "head" /\ n.tok = "Sh" THEN Fill(m, FALSE) ELSE m
post_sect(m, n) ==
    IF n.type = "head" /\ n.tok = "Sh" /\ n.at = "AUTHORS" THEN [m EXCEPT !.split = "none"] ELSE m

pre_an(m, n) ==
    CASE n.at \in {"split", "nosplit"} -> Return0([m EXCEPT !.split = n.at])
      [] OTHER -> [m EXCEPT !.split = IF @ = "none" /\ n.sec = "AUTHORS" THEN "split" ELSE @]

pre_bd(m, n) == print_offs(IF n.at = "literal" THEN Fill(m, TRUE) ELSE m)

\* Close the display, and go back to the fill mode before it if the text
\* inside ended in the other one.  An end marker is itself inside, so that the
\* mode it finds is that of the display and not the one before it.
\* (mutant) requests at the end of the display are not considered
post_bd_own(m, n) ==
    LET q == IF n.nofill # (n.at = "literal") THEN Fill(RE(m), n.nofill) ELSE RE(m)
    IN IF n.more THEN mid_it(q) ELSE q
post_bd(m, n) ==
    LET now == IF n.last = "none" THEN n.at = "literal" ELSE n.last = "nf"
        q == IF n.nofill # now THEN Fill(RE(m), n.nofill) ELSE RE(m)
    IN IF n.more THEN mid_it(q) ELSE q

pre_bf(m, n) ==
    CASE n.type = "head" -> Return0(m)
      [] n.type = "body" -> font_push(m)
      [] OTHER -> m
post_bf(m, n) == IF n.type = "body" THEN font_pop(m) ELSE m

pre_bk(m, n) ==
    CASE n.type = "head" -> Return0(m)
      [] n.type = "body" -> [m EXCEPT !.bk = TRUE]
      [] OTHER -> m
post_bk(m, n) == IF n.type = "body" THEN [m EXCEPT !.bk = FALSE] ELSE m

\* A list with an offset is indented as a whole; its items do not add to the
\* indentation of an item around it.
pre_bl(m, n) == IF n.wd[1] = 0 THEN m ELSE Stack(print_offs(m), 0)
post_bl(m, n) ==
    LET q == IF n.wd[1] = 0 THEN m
             ELSE IF m.bl = <<>> \/ Innermost(m).w # 0 THEN Fault(m)
             ELSE Unstack(RE(m))
    IN IF n.more THEN mid_it(q) ELSE q

pre_dl(m) == print_offs(m)
post_dl(m, n) == LET q == RE(m) IN IF n.more THEN mid_it(q) ELSE q

pre_fa(m, n) == Return0(IF n.kids = "none" THEN m ELSE font_pop(font_push(m)))
pre_fn(m) == Return0(font_pop(font_push(m)))
pre_fo(m, n) ==
    CASE n.type = "head" -> IF n.kids = "none" THEN Return0(m) ELSE font_push(m)
      [] n.type = "body" -> [m EXCEPT !.marks = @ + 1]
      [] OTHER -> m
post_fo(m, n) ==
    CASE n.type = "head" -> IF n.kids = "none" THEN m ELSE font_pop(m)
      [] n.type = "body" -> [m EXCEPT !.marks = @ - 1]
      [] OTHER -> m

\* The head of an item sets up the indentation, after its body it ends.
pre_it(m, n) ==
    CASE n.type # "head" -> m
      [] n.at = "bullet" -> Return0(font_pop(font_push(print_width(m, n))))
      [] n.at = "tag" -> print_width(m, n)
      [] OTHER -> m
post_it(m, n) ==
    IF n.type # "body" \/ n.at \notin Items THEN m
    ELSE IF m.bl = <<>> THEN Fault(m)
    ELSE Unstack(IF Innermost(m).post THEN RE(m) ELSE m)

pre_nm(m, n) ==
    CASE n.type = "block" -> [m EXCEPT !.bk = TRUE]
      [] n.type \in {"head", "elem"} -> IF n.kids = "none" THEN Return0(m) ELSE font_push(m)
      [] OTHER -> m
post_nm(m, n) ==
    CASE n.type = "block" -> [m EXCEPT !.bk = FALSE]
      [] n.type \in {"head", "elem"} -> IF n.kids = "none" THEN m ELSE font_pop(m)
      [] OTHER -> m

pre_sm(m) == Return0([m EXCEPT !.sm = ~@])

\* pre_enc(), post_enc(): only the body has marks.
pre_enc(m, n) == IF n.type = "body" THEN [m EXCEPT !.marks = @ + 1] ELSE m
post_enc(m, n) == IF n.type = "body" THEN [m EXCEPT !.marks = @ - 1] ELSE m

\* mdoc_man_acts[]
Pre(m, n) ==
    CASE n.tok \in {"Sh", "Ss"} -> pre_sect(m, n)
      [] n.tok = "An" -> pre_an(m, n)
      [] n.tok = "Bd" /\ n.type = "body" -> pre_bd(m, n)
      [] n.tok = "Bf" -> pre_bf(m, n)
      [] n.tok = "Bk" -> pre_bk(m, n)
      [] n.tok = "Bl" /\ n.type = "body" -> pre_bl(m, n)
      [] n.tok \in {"D1", "Dl"} /\ n.type = "body" -> pre_dl(m)
      [] n.tok = "Fa" -> pre_fa(m, n)
      [] n.tok = "Fn" -> pre_fn(m)
      [] n.tok = "Fo" -> pre_fo(m, n)
      [] n.tok = "It" -> pre_it(m, n)
      [] n.tok = "Nm" -> pre_nm(m, n)
      [] n.tok = "Sm" -> pre_sm(m)
      [] n.tok \in {"Oo", "Op", "Ql"} -> pre_enc(m, n)
      [] n.tok \in {"Em", "%T"} -> font_push(m)
      [] n.tok \in {"Xr", "Pp"} -> Return0(m)
      [] OTHER -> m
Post(m, n) ==
    CASE n.tok = "Sh" -> post_sect(m, n)
      [] n.tok = "Bd" /\ n.type = "body" -> post_bd(m, n)
      [] n.tok = "Bf" -> post_bf(m, n)
      [] n.tok = "Bk" -> post_bk(m, n)
      [] n.tok = "Bl" /\ n.type = "body" -> post_bl(m, n)
      [] n.tok \in {"D1", "Dl"} /\ n.type = "body" -> post_dl(m, n)
      [] n.tok = "Fo" -> post_fo(m, n)
      [] n.tok = "It" -> post_it(m, n)
      [] n.tok = "Nm" -> post_nm(m, n)
      [] n.tok \in {"Oo", "Op", "Ql"} -> post_enc(m, n)
      [] n.tok \in {"Em", "%T"} -> font_pop(m)
      [] OTHER -> m

\* print_node(), before and after the children.
Enter(m, n) ==
    LET q == [m EXCEPT !.ret = TRUE] IN IF n.mark # 0 THEN q ELSE Pre(q, n)
\* (mutant) a body that was ended is ended again
LeaveTwice(m, n) == Post(m, n)
Leave(m, n) == IF n.ended THEN m ELSE Post(m, n)
\* roff_man_acts[]
Leaf(m, n) ==
    CASE n.tok = "nf" -> Fill(m, TRUE)
      [] n.tok = "fi" -> Fill(m, FALSE)
      [] OTHER -> m
===========================================================================
