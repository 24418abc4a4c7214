------------------------------ MODULE ManTerm ------------------------------
(***************************************************************************)
(* Terminal output of man(7) documents: the handlers of man_term.c, as far *)
(* as they change the layout.                                              *)
(*                                                                         *)
(* The state p is that of TermOut, with struct mtermp:                     *)
(*   lmargin, cur, sz  stack of the widths that paragraphs without a width *)
(*                     of their own use: one entry for each RS block, but  *)
(*                     not more than MaxMargins of them                    *)
(*   offset            the indentation of the RS blocks that are open      *)
(*   pardist           lines of vertical space before a paragraph          *)
(* and                                                                     *)
(*   col     text is in the output buffer and was not written yet          *)
(*   torn    the margins were changed while text was in the buffer, which  *)
(*           is then laid out as if it belonged to what follows            *)
(* The flag "ibi" is p->fontibi.                                           *)
(***************************************************************************)
EXTENDS TermOut

CONSTANT MaxMargins          \* MAXMARGINS, 64 in the source

ParWidth == 7                \* the default width of paragraphs
NameWidth == 4               \* of the name of a program and the space after it
ShrtMax == 1000              \* stands for SHRT_MAX

\* terminal_man()
man_begin ==
    [off |-> 0, rm |-> MaxMargin, fl |-> {}, trail |-> 0, col |-> FALSE, ret |-> TRUE,
     fault |-> FALSE, torn |-> FALSE, offset |-> DefIndent, pardist |-> 1,
     lmargin |-> [i \in 0..(MaxMargins - 1) |-> IF i = 0 THEN ParWidth ELSE 0],
     cur |-> 0, sz |-> 0]

\* Here, what counts is the text that was not written.
Flush(p) == [term_flushln(p) EXCEPT !.col = FALSE]
Newln(p) == [p EXCEPT !.col = FALSE]
Vspace(p) == Newln(p)
Move(p, off, rm) ==
    [p EXCEPT !.off = Unsigned(off), !.rm = Unsigned(rm),
              !.torn = @ \/ (p.col /\ <<p.off, p.rm>> # <<Unsigned(off), Unsigned(rm)>>)]
lmargin(p) == p.lmargin[p.cur]
SetMargin(p, w) == [p EXCEPT !.lmargin[p.cur] = w]

\* The width of a paragraph, which is remembered for the next ones.  A width
\* to the left of the page ends there, one that is too large is ignored.
Clip(p, w) ==
    IF w < 0 /\ -w > p.offset THEN -p.offset ELSE IF w > ShrtMax THEN DefIndent ELSE w
Sized(p, n) == IF n.w = <<>> THEN p ELSE SetMargin(p, Clip(p, n.w[1]))

\* print_bvspace()
print_bvspace(p) == Newln(p)
\* Vertical space of a number of lines, which may be none.
Pardist(p) == IF p.pardist = 0 THEN p ELSE Vspace(p)

-----------------------------------------------------------------------------
\* An example inside a hanged paragraph starts after the indentation.
pre_literal(p, parent) ==
    LET q == Newln(p)
    IN IF parent # "HP" \/ q.rm >= MaxMargin THEN q
       ELSE [Clear(Move(q, q.rm, MaxMargin), {"nobreak", "brind"}) EXCEPT !.trail = 0]

pre_PD(p, n) == [p EXCEPT !.pardist = IF n.w = <<>> THEN 1 ELSE n.w[1]]

pre_alternate(p) == term_word(p)
pre_MR(p) == term_word(p)
pre_OP(p) == term_word(p)

\* pre_in(), for an argument without a sign.
pre_in(p, n) ==
    LET off == IF n.w = <<>> THEN p.offset ELSE n.w[1]
    IN Move(Newln(p), IF off > ShrtMax THEN DefIndent ELSE off, p.rm)

pre_HP(p, n) ==
    CASE n.type = "block" -> print_bvspace(p)
      [] n.type = "head" -> Return0(p)
      [] n.type = "body" ->
           IF n.first = "none" THEN Return0(p)
           ELSE LET f == IF n.first = "nofill" THEN p
                         ELSE [Set(p, {"nobreak", "brind"}) EXCEPT !.trail = 2]
                    q == Sized(f, n)
                IN Move(q, q.offset, q.offset + lmargin(q))
post_HP(p, n) ==
    IF n.type # "body" THEN p
    ELSE [Move(Clear(Newln(p), {"nobreak", "brind"}), p.offset, MaxMargin) EXCEPT !.trail = 0]

pre_PP(p, n) ==
    CASE n.type = "block" -> print_bvspace(SetMargin(p, ParWidth))
      [] n.type = "head" -> Return0(p)
      [] OTHER -> Move(p, p.offset, p.rm)

pre_IP(p, n) ==
    LET f == IF n.type # "head" THEN p ELSE [Set(p, {"nobreak"}) EXCEPT !.trail = 1]
        q == Sized(f, n)
    IN CASE n.type = "block" -> print_bvspace(p)
         [] n.type = "head" -> Move(q, q.offset, q.offset + lmargin(q))
         [] OTHER -> Move(q, q.offset + lmargin(q), MaxMargin)
post_IP(p, n) ==
    CASE n.type = "head" ->
           [Move(Clear(Flush(p), {"nobreak"}), p.off, MaxMargin) EXCEPT !.trail = 0]
      [] n.type = "body" -> Move(Newln(p), p.offset, p.rm)
      [] OTHER -> p

pre_TP(p, n) ==
    LET f == IF n.type = "head" THEN [Set(p, {"nobreak", "brtrsp"}) EXCEPT !.trail = 1]
             ELSE [Clear(p, {"nobreak", "brtrsp"}) EXCEPT !.trail = 0]
        q == Sized(f, n)
    IN CASE n.type = "block" -> IF n.tok = "TP" THEN print_bvspace(p) ELSE p
         [] n.type = "head" -> Move(q, q.offset, q.offset + lmargin(q))
         [] OTHER -> Move(q, q.offset + lmargin(q), MaxMargin)
post_TP(p, n) ==
    CASE n.type = "head" -> Flush(p)
      [] n.type = "body" -> Move(Newln(p), p.offset, p.rm)
      [] OTHER -> p

\* pre_SH() and pre_SS(): a section and a subsection start at the default
\* indentation.  prev is the previous sibling, "empty" if it is a section of
\* the same kind without contents.
pre_SH(p, n, prev) ==
    CASE n.type = "block" ->
           LET q == [SetMargin(p, ParWidth) EXCEPT !.offset = DefIndent]
           IN IF prev \in {"start", "empty"} THEN q ELSE Pardist(q)
      [] n.type = "head" ->
           [Move(Set(p, {"nobreak", "brind", "ibi"}),
                 IF n.tok = "SH" THEN 0 ELSE (DefIndent \div 2) + 1, p.offset)
              EXCEPT !.trail = p.offset]
      [] OTHER ->
           [Move(Clear(p, {"nobreak", "brind"}), p.offset, MaxMargin) EXCEPT !.trail = 0]
post_SH(p, n) ==
    CASE n.type = "head" -> Newln(Clear(p, {"ibi"}))
      [] n.type = "body" -> Newln(p)
      [] OTHER -> p

\* n.aux is the indentation of an RS block, which pre_RS() keeps in the head.
\* (mutant) the line before the block is not ended
pre_RS_open(p, n) ==
    CASE n.type # "body" -> IF n.type = "head" THEN Return0(p) ELSE p
      [] OTHER ->
           LET aux == Clip(p, IF n.w = <<>> THEN lmargin(p) ELSE n.w[1])
               q == Move([p EXCEPT !.offset = @ + aux, !.sz = @ + 1],
                         p.offset + aux, MaxMargin)
           IN SetMargin([q EXCEPT !.cur = IF q.sz < MaxMargins THEN q.sz ELSE @], ParWidth)
pre_RS(p, n) ==
    CASE n.type = "block" -> Newln(p)
      [] n.type = "head" -> Return0(p)
      [] OTHER ->
           LET aux == Clip(p, IF n.w = <<>> THEN lmargin(p) ELSE n.w[1])
               q == Move([p EXCEPT !.offset = @ + aux, !.sz = @ + 1],
                         p.offset + aux, MaxMargin)
           IN SetMargin([q EXCEPT !.cur = IF q.sz < MaxMargins THEN q.sz ELSE @], ParWidth)
\* (mutant) the width that was given is subtracted, not the one that was used
post_RS_given(p, n) ==
    IF n.type # "body" THEN p
    ELSE LET q == [Newln(p) EXCEPT !.offset = @ - (IF n.w = <<>> THEN n.aux ELSE n.w[1]),
                                   !.sz = @ - 1]
         IN [Move(q, q.offset, q.rm) EXCEPT !.cur = IF q.sz < MaxMargins THEN q.sz ELSE @]
post_RS(p, n) ==
    IF n.type # "body" THEN p
    ELSE LET q == [Newln(p) EXCEPT !.offset = @ - n.aux, !.sz = @ - 1]
         IN [Move(q, q.offset, q.rm) EXCEPT !.cur = IF q.sz < MaxMargins THEN q.sz ELSE @]

pre_SY(p, n, prev) ==
    CASE n.type = "block" -> IF prev = "SY" THEN p ELSE print_bvspace(p)
      [] n.type = "head" ->
           Move(IF n.first = "nofill" THEN p ELSE Set(p, {"nobreak"}),
                p.offset, p.offset + NameWidth)
      [] OTHER -> Move(SetMargin(p, NameWidth), p.offset + NameWidth, MaxMargin)
\* (mutant) the name stays a field of its own
post_SY_keep(p, n) ==
    CASE n.type = "head" -> Flush(p)
      [] n.type = "body" -> Move(Newln(p), p.offset, p.rm)
      [] OTHER -> p
post_SY(p, n) ==
    CASE n.type = "head" -> Clear(Flush(p), {"nobreak"})
      [] n.type = "body" -> Move(Newln(p), p.offset, p.rm)
      [] OTHER -> p

pre_UR(p, n) == IF n.type = "head" THEN Return0(p) ELSE p
post_UR(p, n) == IF n.type = "block" THEN term_word(p) ELSE p

\* man_term_acts[]
Pre(p, n, prev, parent) ==
    CASE n.tok \in {"SH", "SS"} -> pre_SH(p, n, prev)
      [] n.tok \in {"TP", "TQ"} -> pre_TP(p, n)
      [] n.tok = "PP" -> pre_PP(p, n)
      [] n.tok = "IP" -> pre_IP(p, n)
      [] n.tok = "HP" -> pre_HP(p, n)
      [] n.tok = "RS" -> pre_RS(p, n)
      [] n.tok = "SY" -> pre_SY(p, n, prev)
      [] n.tok = "UR" -> pre_UR(p, n)
      [] n.tok = "BI" -> Return0(pre_alternate(p))
      [] n.tok = "PD" -> Return0(pre_PD(p, n))
      [] n.tok = "in" -> Return0(pre_in(p, n))
      [] n.tok = "OP" -> Return0(pre_OP(p))
      [] n.tok = "MR" -> Return0(pre_MR(p))
      [] n.tok \in {"EX", "EE"} -> Return0(pre_literal(p, parent))
      [] OTHER -> p
Post(p, n) ==
    CASE n.tok \in {"SH", "SS"} -> post_SH(p, n)
      [] n.tok \in {"TP", "TQ"} -> post_TP(p, n)
      [] n.tok = "IP" -> post_IP(p, n)
      [] n.tok = "HP" -> post_HP(p, n)
      [] n.tok = "RS" -> post_RS(p, n)
      [] n.tok = "SY" -> post_SY(p, n)
      [] n.tok = "UR" -> post_UR(p, n)
      [] OTHER -> p

\* print_man_node(), up to the children.  A line of no-fill text starts on a
\* new line, except after \c.
Begin(p, n) ==
    LET q == IF n.nofill THEN Set(IF n.line THEN Newln(p) ELSE p, {"brnever"})
             ELSE Clear(p, {"brnever"})
    IN [q EXCEPT !.ret = TRUE]
Enter(p, n, prev, parent) == Pre(p, n, prev, parent)

\* The first node in a hanged paragraph in no-fill mode is what sticks out.
Hang(p, n, parent) ==
    IF parent.tok # "HP" \/ parent.type # "body" \/ parent.count # 1 \/ ~n.nofill THEN p
    ELSE Move(Newln(p), p.rm, MaxMargin)
Leave(p, n, parent) == Hang(Post(p, n), n, parent)

\* Nodes without children.
Leaf(p, n, parent) ==
    CASE n.type = "text" -> Hang(term_word(p), n, parent)
      [] n.type \in {"eqn"} -> term_word(p)
      [] n.type = "blank" -> Vspace(p)
      [] n.type = "tbl" -> Newln(term_word(Newln(p)))
      [] n.tok = "ft" -> p
      [] OTHER -> Newln(roff_term_pre(Newln(p), n))
=============================================================================
