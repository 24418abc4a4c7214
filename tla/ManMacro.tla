----------------------------- MODULE ManMacro -----------------------------
(***************************************************************************)
(* The man(7) parser: man.c and man_macro.c, and the roff(7) requests that *)
(* add nodes to its tree.  A macro without arguments may take the next     *)
(* input line as its argument: SH, SS, TP and TQ keep the head of their    *)
(* block open (MAN_BLINE), the font macros their element (MAN_ELINE).      *)
(* Whatever comes next must either fit into these next-line scopes or      *)
(* break them, which deletes the macro that is waiting.                    *)
(*                                                                         *)
(* The state s of the parser:                                              *)
(*   path    the nodes that are open, the root first, of [tok, type, prev, *)
(*           aux]; prev is the sibling before the node, aux n->head->aux   *)
(*   at      the closed node at the parse point, or None: man->last is at  *)
(*           or else the innermost open node, and man->next accordingly    *)
(*           ROFF_NEXT_SIBLING or ROFF_NEXT_CHILD                          *)
(*   bline, eline, nofill, nonofill    MAN_BLINE, MAN_ELINE, ROFF_NOFILL   *)
(*           and ROFF_NONOFILL                                             *)
(*   ce      roffce_lines while the element roffce_node is open, else -1   *)
(*   margin  the register an-margin, as the number of indentations in it   *)
(*   fault   an assertion failed, a null pointer was followed, or the node *)
(*           at the parse point is not of the kind that is to be deleted   *)
(*                                                                         *)
(* Nodes that were closed are forgotten, so that documents of any length   *)
(* are covered.  Words, warnings and line numbers are left out, and so is  *)
(* what is in a table, except for whether there is a cell.                 *)
(***************************************************************************)
EXTENDS Integers, Sequences, SequencesExt, FiniteSets, FiniteSetsExt

CONSTANTS
  Tokens,      \* macros and requests that occur
  MaxDepth,    \* bound: nodes that are open at one time
  MaxMargin,   \* bound: indentations in an-margin
  MaxCe        \* bound: argument of ce

ASSUME ManAssumption == MaxDepth \in Nat /\ MaxMargin \in Nat /\ MaxCe \in Nat

VARIABLES man,   \* the parser
          tbl,   \* roff.tbl: no table is open, it has no cell yet, or it has cells
          loose, \* (history) TS or TE changed ROFF_NONOFILL and not the head that is open
          eof    \* the end of the input was reached

vars == <<man, tbl, loose, eof>>

-----------------------------------------------------------------------------
(* man_macros[]                                                            *)

blk_imps == {"SH", "SS", "TP", "TQ", "PP", "IP", "HP", "SY"}
blk_exps == {"RS", "UR"}
blk_closes == {"RE", "YS", "UE"}
Elements == {"TH", "B", "BI", "PD", "OP", "EX", "EE"}
Macros == blk_imps \cup blk_exps \cup blk_closes \cup Elements

MAN_BSCOPED == {"SH", "SS", "TP", "TQ"}
MAN_ESCOPED == {"B"}
MAN_NSCOPED == {"B", "PD"}
MAN_XSCOPE == Macros \ {"B", "BI", "PD", "OP"}

Paragraphs == {"PP"}                 \* MAN_LP, MAN_PP, MAN_P
noargs == {"br", "nf", "fi"}         \* roff_noarg()
onearg == {"sp", "ft", "ce"}         \* roff_onearg()
inTable == {"TH", "nf", "fi", "ft", "EQ"}   \* not taken for the text of a table

-----------------------------------------------------------------------------
(* The tree                                                                *)

None == [tok |-> "none", c |-> FALSE]
Text(c) == [tok |-> "text", c |-> c]                 \* c: it ends in \c
\* Of a closed node, the parser looks at no more than this.
Seen(tok) ==
  CASE tok \in {"SH", "SS"} -> "SH"
    [] tok \in Paragraphs -> "PP"
    [] tok \in MAN_XSCOPE \ ({"SH", "SS"} \cup Paragraphs) -> "block"
    [] tok \in MAN_NSCOPED \ MAN_ESCOPED \/ tok \notin Macros -> "request"
    [] OTHER -> "elem"
Leaf(tok) == [tok |-> Seen(tok), c |-> FALSE]
\* What was before a node matters as long as the node may be deleted.
Node(tok, type, prev) ==
  [tok |-> tok, type |-> type, aux |-> FALSE,
   prev |-> IF tok \in MAN_ESCOPED \/ (tok \in MAN_BSCOPED /\ type = "block") THEN prev ELSE None]

ManInit ==
  [path |-> <<Node("root", "root", None)>>, at |-> None, bline |-> FALSE,
   eline |-> FALSE, nofill |-> FALSE, nonofill |-> FALSE, ce |-> -1,
   margin |-> 0, fault |-> FALSE]

Fault(s) == [s EXCEPT !.fault = TRUE]
Depth(s) == Len(s.path)
Inner(s) == s.path[Depth(s)]
man_last(s) == IF s.at = None THEN Seen(Inner(s).tok) ELSE s.at.tok
Parent(s) == IF s.at = None THEN Depth(s) - 1 ELSE Depth(s)   \* of man->last

Word(s, c) == [s EXCEPT !.at = Text(c)]
Closed(s, tok) == [s EXCEPT !.at = Leaf(tok)]
Open(s, tok, type) == [s EXCEPT !.path = Append(@, Node(tok, type, s.at)), !.at = None]

\* roff_node_delete() of an open node: the parse point moves to what was
\* before the node.
roff_node_delete(s, i) ==
  IF i <= 1 THEN Fault(s)
  ELSE [s EXCEPT !.path = SubSeq(@, 1, i - 1), !.at = s.path[i].prev]

\* man_unscope() before the end of the document: close everything up to and
\* including an open node.
man_unscope(s, i) ==
  IF i < 2 \/ i > Depth(s) THEN Fault(s)
  ELSE [Closed(s, s.path[i].tok) EXCEPT !.path = SubSeq(@, 1, i - 1)]

\* Close the head i and start the body of its block.
OpenBody(s, i) ==
  IF s.path[i].type # "head" THEN Fault(s)
  ELSE [Open(man_unscope(s, i), s.path[i].tok, "body")
          EXCEPT !.path[i - 1].prev = None, !.bline = FALSE, !.nonofill = FALSE]

-----------------------------------------------------------------------------
(* Next-line scopes                                                        *)

\* man_descope(): a line was read that the open scopes were waiting for.  All
\* elements end; the head ends unless the line goes on.
man_descope(s, c) ==
  LET open == {i \in 2..Parent(s) : \A j \in i..Parent(s) : s.path[j].tok \in MAN_ESCOPED}
      e == IF s.eline /\ open # {} THEN man_unscope(s, Min(open)) ELSE s
      q == [e EXCEPT !.eline = FALSE]
  IN IF c \/ ~q.bline THEN q ELSE OpenBody(q, Parent(q))

\* The first half of man_breakscope(): delete the element that is waiting,
\* with all elements around it that are waiting, too.
BreakElement(s, tok) ==
  LET i == IF s.at = None THEN Depth(s) ELSE Parent(s)
      up == {j \in 2..i : \A k \in j..i : s.path[k].type = "elem" /\ s.path[k].tok \in MAN_ESCOPED}
  IN IF ~s.eline \/ tok \in MAN_NSCOPED THEN s
     ELSE IF s.at.tok \in {"SH", "PP", "block", "elem"} THEN Fault(s)
     ELSE [roff_node_delete(s, Min(up \cup {i})) EXCEPT !.eline = FALSE]

\* Switching the fill mode closes section headers.
BreakHeader(s, tok) ==
  IF s.bline /\ tok \in {"nf", "fi"} /\ man_last(s) = "SH"
  THEN OpenBody(s, Depth(s)) ELSE s

\* (mutant) no-fill mode stays switched off when the block is deleted
BreakBlockOnly(s, tok) ==
  IF ~s.bline \/ tok \in {"nf", "fi"} \/ (tok \in Macros /\ tok \notin MAN_XSCOPE) THEN s
  ELSE [roff_node_delete(s, Depth(s) - 1) EXCEPT !.bline = FALSE]
\* The second half: delete the block whose head is waiting.
BreakBlock(s, tok) ==
  LET i == IF s.at = None /\ Inner(s).tok \in MAN_XSCOPE THEN Depth(s) ELSE Parent(s)
  IN IF ~s.bline \/ tok \in {"nf", "fi"} \/ (tok \in Macros /\ tok \notin MAN_XSCOPE) THEN s
     ELSE IF \/ s.at.tok \in {"SH", "PP", "block"}
             \/ i < 3 \/ s.path[i].type # "head" \/ s.path[i].tok \notin MAN_BSCOPED
     THEN Fault(s)
     ELSE [roff_node_delete(s, i - 1) EXCEPT !.bline = FALSE, !.nonofill = FALSE]

\* (mutant) an element that waits is not deleted before its block
man_breakscope_block(s, tok) == BreakBlock(BreakHeader(s, tok), tok)
man_breakscope(s, tok) == BreakBlock(BreakHeader(BreakElement(s, tok), tok), tok)

-----------------------------------------------------------------------------
(* Macro handlers                                                          *)

\* rew_scope(): close the blocks that the macro tok ends.  Sections end
\* everything, subsections all but a section; the others end what is inside
\* the innermost section, subsection or explicit block.
Stops(s, tok) ==
  {i \in 1..Depth(s) :
     s.path[i].type = "block" /\
     \/ tok # "SH" /\ s.path[i].tok = "SH"
     \/ tok \notin {"SH", "SS"} /\ s.path[i].tok \in blk_exps \cup {"SS"}}
\* (mutant) only the innermost block is closed
rew_scope_one(s, tok) ==
  LET inner == {i \in (Max(Stops(s, tok) \cup {0}) + 1)..Depth(s) : s.path[i].type = "block"}
  IN IF inner = {} THEN s ELSE man_unscope(s, Max(inner))
rew_scope(s, tok) ==
  LET stop == Max(Stops(s, tok) \cup {0})
      inner == {i \in (stop + 1)..Depth(s) : s.path[i].type = "block"}
  IN IF (tok = "RS" /\ s.at = None /\ Inner(s).tok \in Paragraphs) \/ inner = {} THEN s
     ELSE man_unscope(s, Min(inner))

\* blk_imp()
blk_imp(s, tok, args) ==
  LET r == [rew_scope(s, tok) EXCEPT !.nonofill = TRUE,
                                     !.nofill = @ /\ tok \notin {"SH", "SS"}]
      h == Open(Open(r, tok, "block"), tok, "head")
      w == IF args THEN Word(h, FALSE) ELSE h
  IN IF tok \in {"TP", "TQ"} \/ (tok \in MAN_BSCOPED /\ ~args) THEN [w EXCEPT !.bline = TRUE]
     ELSE OpenBody(w, Depth(w))

\* blk_exp(): with an argument, RS adds to the register an-margin.
blk_exp(s, tok, args) ==
  LET r == IF tok = "RS" THEN rew_scope(s, tok) ELSE s
      b == Open(r, tok, "block")
      i == Depth(b)
      h == Open([b EXCEPT !.path[i].aux = args /\ tok = "RS",
                          !.margin = IF args /\ tok = "RS" THEN @ + 1 ELSE @], tok, "head")
      w == IF args THEN Word(h, FALSE) ELSE h
  IN OpenBody(w, Depth(w))

\* blk_close(): to is the argument of RE, the level to go back to, 0 without
\* one; trail says that text follows on the line.
Opener == [RE |-> "RS", YS |-> "SY", UE |-> "UR"]
blk_close(s, tok, to, trail) ==
  LET open == {i \in 2..Parent(s) : s.path[i].tok = Opener[tok] /\ s.path[i].type = "block"}
      nrew == IF to = 0 THEN 1 ELSE 1 + Cardinality(open) - to
      nn == CHOOSE i \in open : Cardinality({j \in open : j >= i}) = nrew
      aux == s.path[nn].aux
      u == [man_unscope(s, nn) EXCEPT !.margin = IF tok = "RE" /\ aux THEN @ - 1 ELSE @]
      t == IF trail THEN Word(u, FALSE) ELSE u
      p == IF man_last(s) = "PP" THEN blk_imp(t, "PP", FALSE) ELSE t
      r == rew_scope(s, "PP")
  IN IF nrew < 1 THEN s
     ELSE IF nrew > Cardinality(open) THEN IF tok = "RE" THEN Closed(r, "br") ELSE r
     ELSE IF tok = "YS" /\ p = u THEN Closed(p, "YS") ELSE p

\* in_line_eoln(): without arguments, a font macro waits for the next line;
\* else it is the line that the scopes around it were waiting for.
in_line_eoln(s, tok, args) ==
  LET q == [s EXCEPT !.nofill = (@ \/ tok = "EX") /\ tok # "EE"]
  IN IF tok \in MAN_ESCOPED /\ ~args THEN [Open(q, tok, "elem") EXCEPT !.eline = TRUE]
     ELSE IF tok \in MAN_ESCOPED THEN man_descope(Closed(q, tok), FALSE)
     ELSE Closed(q, tok)

-----------------------------------------------------------------------------
(* Input lines                                                             *)

\* High level macros, equations and tables end the mode of the ce request.
EndCe(s) ==
  IF s.ce = -1 THEN s
  ELSE IF Inner(s).tok # "ce" THEN Fault(s)
  ELSE [man_unscope(s, Depth(s)) EXCEPT !.ce = -1]

\* man_pmacro(): break what the macro does not fit into and call its handler,
\* which makes h out of Broken(s, tok); if the head of a block was waiting for
\* this line, start the body.
Broken(s, tok) == man_breakscope(EndCe(s), tok)
man_pmacro(s, tok, c, h) ==
  IF ~Broken(s, tok).bline \/ c \/ ~h.bline \/ h.eline \/ tok \in MAN_NSCOPED THEN h
  ELSE OpenBody(h, Parent(h))

\* man_ptext() for a line that is not blank; in ce mode, it is counted.
CeText(s) ==
  IF s.ce = -1 THEN s ELSE IF s.ce < 1 THEN EndCe(s) ELSE [s EXCEPT !.ce = @ - 1]
man_ptext(s, c) == man_descope(Word(CeText(s), c), c)

\* Blank lines: preserved in no-fill mode, ignored in next-line scope and
\* after headers, they cancel \c, and are vertical space elsewhere.
man_pblank(s) ==
  IF s.nofill THEN man_descope(Word(s, FALSE), FALSE)
  ELSE IF s.eline \/ s.bline \/ man_last(s) = "SH" THEN s
  ELSE IF s.at # None /\ s.at.c THEN [s EXCEPT !.at.c = FALSE]
  ELSE Closed(s, "sp")

roff_noarg(s, tok) ==
  LET b == IF s.bline \/ s.eline THEN man_breakscope(s, tok) ELSE s
  IN [Closed(b, tok) EXCEPT !.nofill = (@ \/ tok = "nf") /\ tok # "fi"]

\* roff_onearg(): ce opens an element for the lines that it centers.
roff_onearg(s, tok, lines) ==
  LET b == IF (s.bline \/ s.eline) /\ tok \in {"ce", "sp"} THEN man_breakscope(s, tok) ELSE s
      q == IF tok = "ce" THEN EndCe(b) ELSE b
  IN IF tok # "ce" \/ lines = 0 THEN Closed(q, tok)
     ELSE [Word(Open(q, tok, "elem"), FALSE) EXCEPT !.ce = lines]

\* roff_EQ(): the equation up to EN.
roff_EQ(s) == Closed(man_breakscope(EndCe(s), "EQ"), "EQ")

\* roff_addtbl() adds the row that the line made, if any.  The break is made
\* for every line of the table, those of the layout included.
roff_addtbl(s, row) ==
  LET b == man_breakscope(s, "TS") IN IF row THEN Closed(b, "TS") ELSE b

\* Tables keep no-fill mode out, whatever heads do.  A table without cells is
\* replaced by vertical space; without a table, TE clears the flag, too.
roff_TS(s) == [EndCe(s) EXCEPT !.nonofill = TRUE]
roff_TE(s) ==
  LET q == [s EXCEPT !.nonofill = FALSE]
  IN IF tbl = "empty" THEN roff_onearg(q, "sp", 0) ELSE q

\* man_endparse(): man_unscope() at the end of the document.  Macros that are
\* still waiting are deleted, the others closed.
EndWaiting(s) ==
  LET i == Depth(s)
      up == {j \in 2..i : \A k \in j..i : s.path[k].type = "elem" /\ s.path[k].tok \in MAN_ESCOPED}
  IN IF ~s.eline THEN s
     ELSE IF up = {} THEN Fault(s)
     ELSE [roff_node_delete(s, Min(up)) EXCEPT !.eline = FALSE]
man_endparse(s) ==
  LET e == EndWaiting(s)
      i == Depth(e)
      b == IF ~e.bline THEN e
           ELSE IF Inner(e).type # "head" \/ Inner(e).tok \notin MAN_BSCOPED THEN Fault(e)
           ELSE [roff_node_delete(e, i - 1) EXCEPT !.bline = FALSE]
  IN IF Depth(b) = 1 THEN b ELSE man_unscope(b, 2)

\* A line was read; in a table, most macros and some requests are text.
Line(s) == Depth(s) <= MaxDepth /\ s.margin <= MaxMargin /\ man' = s /\ UNCHANGED eof
Parsed(s) ==
  /\ Line(s) /\ UNCHANGED tbl
  /\ loose' = (loose /\ (tbl # "none" \/ (s.bline /\ ~s.nonofill)))
Use(S) == S \cap (IF tbl = "none" THEN Tokens ELSE Tokens \cap inTable)
ArgsAndC == {<<FALSE, FALSE>>, <<TRUE, FALSE>>, <<TRUE, TRUE>>}

BlkImp == \E tok \in Use(blk_imps), a \in ArgsAndC :
  Parsed(man_pmacro(man, tok, a[2], blk_imp(Broken(man, tok), tok, a[1])))
BlkExp == \E tok \in Use(blk_exps), args \in BOOLEAN :
  Parsed(man_pmacro(man, tok, FALSE, blk_exp(Broken(man, tok), tok, args)))
BlkClose == \E tok \in Use(blk_closes), trail \in BOOLEAN :
  \E to \in IF tok = "RE" THEN 0..2 ELSE {0} :
    Parsed(man_pmacro(man, tok, FALSE, blk_close(Broken(man, tok), tok, to, trail)))
InLine == \E tok \in Use(Elements), a \in ArgsAndC :
  Parsed(man_pmacro(man, tok, a[2], in_line_eoln(Broken(man, tok), tok, a[1])))
TextLine == tbl = "none" /\ \E c \in BOOLEAN : Parsed(man_ptext(man, c))
BlankLine == tbl = "none" /\ Parsed(man_pblank(man))
NoArg == \E tok \in Use(noargs) : Parsed(roff_noarg(man, tok))
OneArg == \E tok \in Use(onearg), lines \in 0..MaxCe : Parsed(roff_onearg(man, tok, lines))
EQ == "EQ" \in Tokens /\ Parsed(roff_EQ(man))
TS == "TS" \in Tokens /\ tbl = "none" /\ Line(roff_TS(man)) /\ tbl' = "empty" /\ loose' = TRUE
TableLine == tbl # "none" /\ \E row, cell \in BOOLEAN :
  /\ Line(roff_addtbl(man, row))
  /\ tbl' = IF row /\ cell THEN "filled" ELSE tbl
  /\ UNCHANGED loose
TE == "TE" \in Tokens /\ Line(roff_TE(man)) /\ tbl' = "none" /\ loose' = man'.bline
EndOfFile == man' = man_endparse(man) /\ eof' = TRUE /\ UNCHANGED <<tbl, loose>>

Init == man = ManInit /\ tbl = "none" /\ loose = FALSE /\ eof = FALSE
Next ==
  ~eof /\ (BlkImp \/ BlkExp \/ BlkClose \/ InLine \/ TextLine \/ BlankLine \/ NoArg
           \/ OneArg \/ EQ \/ TS \/ TableLine \/ TE \/ EndOfFile)
Spec == Init /\ [][Next]_vars

-----------------------------------------------------------------------------
\* The assertions of man_breakscope(), man_unscope(), man_macro() and
\* check_root() hold and no parent of the root is used: in whatever order
\* scopes are opened and broken, man->last is where the next function that
\* rewinds or deletes a scope expects it.
NoFault == ~man.fault

\* The flags agree with the tree.  A head is open if and only if MAN_BLINE is
\* set, and only font macros are open inside it; a font macro is open if and
\* only if MAN_ELINE is set.  ROFF_NONOFILL, which keeps no-fill mode out of
\* heads and tables, ends with the head also when the head is deleted, and
\* does not outlive a table; while a head is open, it is set, except that TS
\* and TE set and clear it without looking at the head (loose).  At the end
\* of the input, nothing is left open.
ScopeFlags ==
  LET heads == {i \in 1..Depth(man) : man.path[i].type = "head"}
      fonts == {i \in 1..Depth(man) : man.path[i].tok \in MAN_ESCOPED}
  IN /\ man.bline <=> heads # {}
     /\ man.eline <=> fonts # {}
     /\ man.nonofill => man.bline \/ tbl # "none" \/ eof
     /\ man.bline => man.nonofill \/ loose
     /\ \A i \in heads : i..Depth(man) \subseteq heads \cup fonts
     /\ eof => Depth(man) = 1

\* Blocks nest as man(7) wants it: sections are at the top, subsections in
\* sections, and a paragraph is in another one only inside an RS or UR block
\* that is in it, whatever was broken or closed in between.
Nested ==
  LET Is(i, toks) == man.path[i].type = "block" /\ man.path[i].tok \in toks
      pars == blk_imps \ {"SH", "SS"}
  IN \A i, j \in 2..Depth(man) :
       /\ Is(i, {"SH"}) => i = 2
       /\ Is(i, {"SS"}) => i = 2 \/ (i = 4 /\ Is(2, {"SH"}))
       /\ (i < j /\ Is(i, pars) /\ Is(j, pars)) => \E k \in i..j : Is(k, blk_exps)
=============================================================================
