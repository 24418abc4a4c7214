------------------------------ MODULE TermOut ------------------------------
(***************************************************************************)
(* Terminal output: the layout state of term.c, and the handlers of        *)
(* roff_term.c that change it.  The words themselves and the spaces        *)
(* between them are left out.                                              *)
(*                                                                         *)
(* The state p is struct termp:                                            *)
(*   fonti   height of the font stack                                      *)
(*   off, rm offset and right margin of the column, in characters, as      *)
(*           unsigned numbers below SizeMod                                *)
(*   fl      the flags that last: "nobreak" stands for TERMP_NOBREAK,      *)
(*           "brind" TERMP_BRIND, "brtrsp" TERMP_BRTRSP, "hang" TERMP_HANG, *)
(*           "nopad", "prekeep", "keep", "center", "brnever", "nonospace"  *)
(*   split   TERMP_SPLIT, TERMP_NOSPLIT                                    *)
(*   trail   trailspace                                                    *)
(*   col     the output line is not empty                                  *)
(*   ret, marks, fault    as in HtmlOut                                    *)
(***************************************************************************)
EXTENDS Integers, Sequences, FiniteSets

DefIndent == 5           \* p->defindent
MaxMargin == 78          \* p->maxrmargin
SizeMod == 4096          \* stands for the range of size_t
Unsigned(i) == i % SizeMod

ItemFlags == {"nobreak", "brtrsp", "brind", "hang"}

\* print_mdoc_head() leaves this behind.
term_begin ==
    [fonti |-> 0, off |-> 0, rm |-> MaxMargin, fl |-> {}, split |-> "none",
     trail |-> 0, col |-> FALSE, ret |-> TRUE, marks |-> 0, fault |-> FALSE]

Return0(p) == [p EXCEPT !.ret = FALSE]
Fault(p) == [p EXCEPT !.fault = TRUE]
Set(p, F) == [p EXCEPT !.fl = @ \cup F]
Clear(p, F) == [p EXCEPT !.fl = @ \ F]

\* term_flushln(): the field is written; NOPAD is only good for one field.
term_flushln(p) == [p EXCEPT !.col = @ /\ "nobreak" \in p.fl, !.fl = @ \ {"nopad"}]
term_newln(p) == IF p.col THEN term_flushln(p) ELSE p
\* term_word(): a keep starts with the first word.
term_word(p) ==
    [p EXCEPT !.col = TRUE,
              !.fl = IF "prekeep" \in @ THEN @ \cup {"keep"} ELSE @]

term_fontpush(p) == [p EXCEPT !.fonti = @ + 1]
term_fontpop(p) == IF p.fonti = 0 THEN Fault(p) ELSE [p EXCEPT !.fonti = @ - 1]
term_fontpopq(p, i) == [p EXCEPT !.fonti = IF @ > i THEN i ELSE @]
\* A word in a font of its own.
Styled(p) == term_fontpop(term_word(term_fontpush(p)))

AddOffset(p, i) == [p EXCEPT !.off = Unsigned(@ + i)]

-----------------------------------------------------------------------------
\* roff_term_pre().  A break in a field with hanging indentation starts the
\* text after the field.
roff_term_pre_br(p) ==
    LET q == term_newln(p)
    IN IF "brind" \notin q.fl THEN q
       ELSE [Clear(q, {"nobreak", "brind"}) EXCEPT !.off = q.rm, !.rm = MaxMargin, !.trail = 0]
roff_term_pre_ce(p) ==
    Clear(term_flushln(term_word(Set(roff_term_pre_br(p), {"center"}))), {"center", "right"})
roff_term_pre(p, n) ==
    CASE n.tok \in {"br", "sp", "nf", "fi"} -> roff_term_pre_br(p)
      [] n.tok = "ce" -> roff_term_pre_ce(p)
      [] OTHER -> p
=============================================================================
