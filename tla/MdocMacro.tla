------------------------------ MODULE MdocMacro ------------------------------
(***************************************************************************)
(* The macro handlers of the mdoc(7) parser: mdoc.c, mdoc_macro.c and the  *)
(* classification of arguments by mdoc_argv.c.                             *)
(*                                                                         *)
(* A handler parses its arguments and calls the handler of the first one   *)
(* that is a macro, so that one input line is a chain of handlers.  The    *)
(* stack holds one frame for each active call; every step belongs to the   *)
(* handler on top.  A line is not laid out in advance: each argument is    *)
(* chosen when it is read, and so is what follows it on the line.          *)
(*                                                                         *)
(* Each macro stands for those that the code treats alike:                 *)
(*   Ao Ac  all paired enclosures         Op  all implicit enclosures, D1  *)
(*   Bd     displays and Bf               Em  elements that may not be     *)
(*   Fl Nm  elements that may be empty        empty                        *)
(*   Xr     also In, St                   Pp  macros for a whole line      *)
(***************************************************************************)
EXTENDS MdocTree

CONSTANT
  Menus     \* kinds of documents: has is the set of macros that occur in them,
            \* depth bounds the nodes on the path when a macro is called, and
            \* calls the macros that call each other on a line

ASSUME MacroAssumption ==
  \A m \in Menus :
  /\ m.has \subseteq {"Sh", "Ss", "Nd", "Nm", "It", "Bl", "El", "Bd", "Ed",
                       "Bk", "Ek", "Fo", "Fc", "Ao", "Ac", "Eo", "Ec", "Op",
                       "Em", "Fl", "Lk", "Fn", "Ns", "Pf", "Xr", "Pp", "Ta"}
  /\ m.depth \in Nat /\ m.calls \in Nat

VARIABLES
  menu,     \* the kind of document that is parsed
  t,        \* the tree with the parse point
  stack,    \* the active handlers, the innermost one first
  rest,     \* what is left of the line: arguments, closing punctuation, none
  syn,      \* MDOC_SYNOPSIS, which any line may find changed
  freecol,  \* MDOC_FREECOL: the item was started by a line without It
  done      \* mdoc_endparse() was called

vars == <<menu, t, stack, rest, syn, freecol, done>>

Rest == {"more", "punct", "end"}

-----------------------------------------------------------------------------
(* Tables of macros                                                        *)

Parsed == {"Sh", "Ss", "Nm", "It", "Fc", "Ao", "Ac", "Eo", "Ec", "Op", "Em",
           "Fl", "Lk", "Fn", "Ns", "Pf", "Xr", "Ta", "none"}
Callable == menu.has \cap {"Nm", "Fo", "Fc", "Ao", "Ac", "Eo", "Ec", "Op", "Em",
                         "Fl", "Lk", "Fn", "Ns", "Pf", "Xr", "Ta"}
\* Macros that leave trailing punctuation to the line macro (ARGSFL_DELIM).
Delim == {"Nm", "Fc", "Ac", "Ec", "Op", "Em", "Fl", "Lk", "Fn", "Ns", "Pf",
          "Xr"}
Closers == {"El", "Ed", "Ek", "Fc", "Ac", "Ec"}

rew_alt(tok) ==
  CASE tok = "El" -> "Bl" [] tok = "Ed" -> "Bd" [] tok = "Ek" -> "Bk"
    [] tok = "Fc" -> "Fo" [] tok = "Ac" -> "Ao" [] tok = "Ec" -> "Eo"

MayBeEmpty == {"Fl", "Nm"}
MaxArgs(tok) == CASE tok = "Ns" -> 0 [] tok = "Xr" -> 2 [] OTHER -> 1
IgnDelim == {"Ns", "Pf"}

\* ctx_synopsis(): a name at the start of a SYNOPSIS line is a block.
Handler(tok, newline, synopsis) ==
  CASE tok \in {"Sh", "Ss", "Nd", "It", "Bl", "Bd", "Bk", "Fo"} -> "blk_full"
    [] tok = "Nm" -> IF synopsis /\ newline THEN "blk_full" ELSE "in_line"
    [] tok \in Closers -> "blk_exp_close"
    [] tok \in {"Ao", "Eo"} -> "blk_part_exp"
    [] tok = "Op" -> "blk_part_imp"
    [] tok \in {"Em", "Fl", "Lk", "Fn"} -> "in_line"
    [] tok \in {"Ns", "Pf", "Xr"} -> "in_line_argn"
    [] tok = "Pp" -> "in_line_eoln"
    [] tok = "Ta" -> "phrase_ta"
    [] tok = "none" -> "parse_rest"

-----------------------------------------------------------------------------
(* Calls                                                                   *)

(***************************************************************************)
(* The local variables of a handler: the nodes it points to, the number of *)
(* arguments so far (cnt, state or j in the code), whether an element is   *)
(* open and may be opened, and, for items of column lists, whether the     *)
(* last argument was a phrase and whether more text follows it.            *)
(***************************************************************************)
Frame(tok, newline, synopsis) ==
  [fn |-> Handler(tok, newline, synopsis), tok |-> tok, pc |-> "start", nl |-> newline,
   blk |-> Null, head |-> Null, body |-> Null, n |-> Null,
   cnt |-> IF tok \in {"Ns", "Pf", "Xr"} THEN -1 ELSE 0, scope |-> FALSE, mayopen |-> TRUE,
   phrase |-> FALSE, follows |-> FALSE]

Top == stack[1]
At(fn, pc) == stack # <<>> /\ Top.fn = fn /\ Top.pc = pc /\ t.err = "ok"

Ptr(new, p) == IF p = Null THEN Null ELSE new[p]

Pointers(frames) ==
  UNION {{frames[i].blk, frames[i].head, frames[i].body, frames[i].n} :
           i \in DOMAIN frames} \ {Null}

\* The step ends with the given tree and frames.
Settle(tree, frames) ==
  \E new \in {Renumber(tree, Live(tree, Pointers(frames)))} :
    /\ t' = Renamed(IF frames = <<>> THEN Forget(tree) ELSE tree,
                    new, AntiFunction(new))
    /\ stack' = [i \in DOMAIN frames |-> [frames[i] EXCEPT
                   !.blk = Ptr(new, @), !.head = Ptr(new, @),
                   !.body = Ptr(new, @), !.n = Ptr(new, @)]]
    /\ UNCHANGED menu

\* The handler on top goes on with frame f.
Continue(tree, f) == Settle(tree, <<f>> \o Tail(stack))

\* It returns to its caller.
Return(tree) ==
  Settle(tree, IF Len(stack) = 1 THEN <<>>
               ELSE <<[stack[2] EXCEPT !.pc = "after"]>>
                    \o SubSeq(stack, 3, Len(stack)))

\* It calls the handler of a macro.
Call(tree, f, tok) ==
  Settle(tree, <<Frame(tok, tree.newline, syn), f>> \o Tail(stack))

\* Only a block makes the path longer than its bound allows.
Openers == {"Nd", "Nm", "Bl", "Bd", "Bk", "Fo", "Ao", "Eo", "Op"}
Room(tok) == tok \in Openers => Depth(t, t.last) <= menu.depth

-----------------------------------------------------------------------------
(* Arguments                                                               *)

\* mdoc_args() finds nothing to parse.
AtEoln == rest = "end"
AtPunct(tok) == rest = "punct" /\ tok \in Delim

\* A word of some kind, and what follows it: a closing delimiter that only
\* closing delimiters follow is not an argument but trailing punctuation.
ReadWord(kind) ==
  /\ rest # "end"
  /\ rest = "punct" => kind = "close"
  /\ rest' \in IF kind = "close" /\ rest = "more" THEN {"more"} ELSE Rest

\* lookup(): the name of a macro, in the arguments of one that is parsed.
ReadMacro(tok, m) ==
  /\ rest = "more" /\ tok \in Parsed /\ m \in Callable
  /\ Len(stack) < menu.calls /\ Room(m)
  /\ rest' \in Rest

\* append_delims()
WithDelims(tree) == IF rest = "end" THEN tree ELSE Word(tree)
WithDelimsIf(cond, tree) == IF cond THEN WithDelims(tree) ELSE tree
RestAfter(cond) == IF cond THEN "end" ELSE rest

-----------------------------------------------------------------------------
(* Full blocks                                                             *)

(***************************************************************************)
(* blk_full(), first part: an implicit block closes the implicit blocks    *)
(* that end where it starts.  The scan stops at a block that may contain   *)
(* it.  Sections close explicit blocks, too; items only when they turn out *)
(* to belong to a list further out (blk).                                  *)
(***************************************************************************)
RECURSIVE CloseImplicit(_, _, _, _)

\* Mutant: a section may contain a section.
ContainsSection(outer, tok) ==
  outer = "Sh" \/ (tok # "Ss" /\ (outer = "Ss" \/ (tok # "It" /\ outer = "It")))

Contains(outer, tok) ==
  /\ tok # "Sh"
  /\ outer = "Sh" \/ (tok # "Ss" /\ (outer = "Ss" \/ (tok # "It" /\ outer = "It")))

RewBroken(tree, blk) == IF blk = Null THEN tree ELSE rew_pending(tree, blk)

CloseAt(tree, tok, n, blk, type, ntok) ==
  IF tree.node[n].ended
  THEN CloseImplicit(IF tree.node[n].valid THEN tree
                     ELSE SetAll(tree, {n}, "broken"),
                     tok, Parent(tree, n), blk)
  ELSE IF type # "block" THEN CloseImplicit(tree, tok, Parent(tree, n), blk)
  ELSE IF tok = "It" /\ ntok = "Bl" THEN [t |-> RewBroken(tree, blk), n |-> n]
  ELSE IF ntok \in Explicit /\ tok \in {"Sh", "Ss"}
  THEN LET a == rew_pending(tree, n)
       IN  CloseImplicit(a, tok, Parent(a, a.last), blk)
  ELSE IF ntok \in Explicit /\ tok = "It"
  THEN CloseImplicit(tree, tok, Parent(tree, n), n)
  ELSE IF ntok \in Explicit \/ Contains(ntok, tok) THEN [t |-> tree, n |-> n]
  ELSE CloseImplicit(rew_pending(RewBroken(tree, blk), n),
                     tok, Parent(tree, n), Null)

CloseImplicit(tree, tok, n, blk) ==
  IF n = Null \/ tree.err # "ok" THEN [t |-> tree, n |-> Null]
  ELSE CloseAt(tree, tok, n, blk, tree.node[n].type, tree.node[n].tok)

CloseOuter(tree, tok) ==
  IF tok \in Explicit THEN [t |-> tree, n |-> Null]
  ELSE CloseImplicit(tree, tok, tree.last, Null)

Stray(s, tok) ==
  tok = "It" /\ (s.n # Null => s.t.node[s.n].tok # "Bl")

\* A request that only breaks the output line.
Br(tree) ==
  LET a == Alloc(tree, "elem", "br") IN rew_elem(a, "br")

\* Sections without a title and items outside lists are ignored.
blk_full_skip ==
  /\ At("blk_full", "start")
  /\ \/ /\ rest = "end" /\ Top.tok \in {"Sh", "Ss"}
        /\ Return(t)
     \/ \E s \in {CloseOuter(t, Top.tok)} :
          Stray(s, Top.tok) /\ Return(Br(s.t))
  /\ UNCHANGED <<rest, syn, freecol, done>>

\* A description has an empty head.
NdBody(tree) == Alloc(rew_last(tree, tree.last), "body", "Nd")

blk_full_open ==
  /\ At("blk_full", "start")
  /\ ~(rest = "end" /\ Top.tok \in {"Sh", "Ss"})
  /\ \E s \in {CloseOuter(t, Top.tok)}, col \in BOOLEAN :
       /\ ~Stray(s, Top.tok)
       /\ col => Top.tok = "Bl"
       /\ \E a \in {Append_(s.t, "block", Top.tok, col)} :
            IF Top.tok # "Nd"
            THEN Continue(a, [Top EXCEPT !.pc = "arg", !.blk = a.last])
            ELSE \E h \in {Alloc(a, "head", "Nd")} :
                 \E b \in {NdBody(h)} :
                   Continue(b, [Top EXCEPT !.pc = "arg", !.blk = a.last,
                                           !.head = h.last, !.body = b.last])
  /\ UNCHANGED <<rest, syn, freecol, done>>

\* mdoc_args(): the arguments of items in column lists are phrases.
ByColumns(tree) ==
  LET n == Nearest(tree, tree.last, LAMBDA i : tree.node[i].tok = "Bl")
  IN  Top.tok = "It" /\ n # Null /\ tree.node[n].col

\* Opening punctuation before the head is emitted at once.
blk_full_leading ==
  /\ At("blk_full", "arg")
  /\ Top.head = Null /\ Top.tok \notin {"Bd", "Bk"} /\ ~ByColumns(t)
  /\ ReadWord("open")
  /\ Continue(Word(t), Top)
  /\ UNCHANGED <<syn, freecol, done>>

WithHead(tree, f) ==
  IF f.head # Null THEN tree ELSE Alloc(tree, "head", f.tok)
HeadOf(tree, f) == IF f.head # Null THEN f.head ELSE tree.last

blk_full_word ==
  /\ At("blk_full", "arg")
  /\ Top.tok \notin {"Bd", "Bk"} /\ ~AtPunct(Top.tok) /\ ~ByColumns(t)
  /\ \E kind \in {"none", "open", "close"} :
       /\ kind = "open" => Top.head # Null
       /\ ReadWord(kind)
  /\ \E a \in {WithHead(t, Top)} :
       Continue(Word(a), [Top EXCEPT !.head = HeadOf(a, Top),
                                     !.phrase = FALSE])
  /\ UNCHANGED <<syn, freecol, done>>

blk_full_macro ==
  /\ At("blk_full", "arg") /\ ~ByColumns(t)
  /\ \E m \in Callable :
       /\ ReadMacro(Top.tok, m)
       /\ \E a \in {WithHead(t, Top)} :
            Call(a, [Top EXCEPT !.head = HeadOf(a, Top), !.phrase = FALSE], m)
  /\ UNCHANGED <<syn, freecol, done>>

\* A phrase ends at a tab or with the line; parse_rest() parses it.
blk_full_phrase ==
  /\ At("blk_full", "arg") /\ rest # "end" /\ ByColumns(t)
  /\ \E a \in {WithHead(t, Top)}, more \in BOOLEAN :
     \E b \in {Alloc(rew_last(a, IF Top.body = Null THEN HeadOf(a, Top)
                                 ELSE Top.body), "body", "It")} :
       Call(b, [Top EXCEPT !.head = HeadOf(a, Top), !.body = b.last,
                           !.phrase = TRUE, !.follows = more], "none")
  /\ rest' \in Rest
  /\ UNCHANGED <<syn, freecol, done>>

\* Ta may have started more columns: find the last one.
LastColumn(tree, blk, body) ==
  IF tree.last # blk /\ OnPath(tree, blk, tree.last)
  THEN Path(tree, tree.last)[Depth(tree, blk) + 1] ELSE body

blk_full_phrase_end ==
  /\ At("blk_full", "after") /\ Top.phrase
  /\ Continue(t, [Top EXCEPT !.pc = "arg",
                             !.body = LastColumn(t, Top.blk, Top.body)])
  /\ rest' = IF Top.follows THEN "more" ELSE "end"
  /\ UNCHANGED <<syn, freecol, done>>

\* A tab at the end of the line starts one more column.
blk_full_tab ==
  /\ At("blk_full", "arg") /\ AtEoln /\ Top.phrase
  /\ \E a \in {Alloc(rew_last(t, Top.body), "body", Top.tok)} :
       Continue(Word(a), [Top EXCEPT !.pc = "finish", !.body = a.last])
  /\ UNCHANGED <<rest, syn, freecol, done>>

blk_full_last ==
  /\ At("blk_full", "arg")
  /\ \/ AtEoln
     \/ Top.tok \in {"Bd", "Bk"}
     \/ AtPunct(Top.tok)
  /\ Continue(t, [Top EXCEPT !.pc = "finish"])
  /\ UNCHANGED <<rest, syn, freecol, done>>

\* The label out: an item without It ends with its line.
BlkFullOut(tree, body) ==
  /\ Return(IF freecol THEN rew_last(rew_last(tree, body), Top.blk) ELSE tree)
  /\ freecol' = FALSE

AppendsDelims == Top.nl /\ Top.tok \notin {"Bd", "Bl"}

blk_full_finish ==
  /\ At("blk_full", "finish") \/ (At("blk_full", "after") /\ ~Top.phrase)
  /\ IF t.node[Top.blk].valid THEN Return(t) /\ UNCHANGED <<rest, freecol>>
     ELSE /\ rest' = RestAfter(AppendsDelims)
          /\ \E a \in {WithHead(t, Top)} :
             \E b \in {WithDelimsIf(AppendsDelims, a)} :
               IF Top.body # Null THEN BlkFullOut(b, Top.body)
               ELSE \E p \in {find_pending(b, Top.tok, HeadOf(a, Top))} :
                 IF p.pending THEN Return(p.t) /\ UNCHANGED freecol
                 ELSE \E c \in {Alloc(rew_last(p.t, HeadOf(a, Top)),
                                      "body", Top.tok)} :
                        BlkFullOut(c, c.last)
  /\ UNCHANGED <<syn, done>>

-----------------------------------------------------------------------------
(* End macros                                                              *)

(***************************************************************************)
(* blk_exp_close(): find the block to be closed.  If other blocks inside   *)
(* it are still open, they break it: an end marker is put where its        *)
(* formatting ends, and it is closed together with them.                   *)
(***************************************************************************)
RECURSIVE CloseOwn(_, _, _, _, _, _)

BreakTogether(tree, n) == SetAll(SetAll(tree, {n}, "broken"), {n}, "ended")

\* The end marker; arguments of Ec go into it.
MarkEnd(tree, tok, body, itblk) ==
  LET a == mdoc_endbody_alloc(tree, rew_alt(tok), body)
      b == IF tok = "El" THEN BreakTogether(a, itblk) ELSE a
  IN  IF tok = "Ec" THEN [b EXCEPT !.next = "child"] ELSE b

CloseOwnAt(tree, tok, body, n, later, itblk, ntok) ==
  CASE ntok = "Nm" ->
         CloseOwn(IF later # Null THEN BreakTogether(tree, n) ELSE tree,
                  tok, body, Parent(tree, n), later, itblk)
    [] ntok = "It" -> CloseOwn(tree, tok, body, Parent(tree, n), later, n)
    [] ntok = rew_alt(tok) ->
         IF later = Null \/ (tok = "El" /\ itblk = Null)
         THEN [t |-> tree, n |-> n, marked |-> FALSE]
         ELSE [t |-> MarkEnd(tree, tok, body, itblk), n |-> n, marked |-> TRUE]
    [] ntok = "Nd" ->
         CloseOwn(IF later # Null THEN BreakTogether(tree, n)
                  ELSE rew_last(tree, n),
                  tok, body, Parent(tree, n), later, itblk)
    [] OTHER ->
         CloseOwn(SetAll(break_intermediate(tree, tree.last, body), {n}, "broken"),
                  tok, body, Parent(tree, n),
                  IF later = Null THEN n ELSE later, itblk)

CloseOwn(tree, tok, body, n, later, itblk) ==
  IF n = Null \/ body = Null \/ tree.err # "ok"
  THEN [t |-> tree, n |-> Null, marked |-> FALSE]
  ELSE IF tree.node[n].ended \/ tree.node[n].type # "block"
  THEN CloseOwn(tree, tok, body, Parent(tree, n), later, itblk)
  ELSE CloseOwnAt(tree, tok, body, n, later, itblk, tree.node[n].tok)

OwnBody(tree, tok) ==
  Nearest(tree, tree.last, LAMBDA i :
    /\ ~tree.node[i].ended /\ tree.node[i].type = "body"
    /\ tree.node[i].tok = rew_alt(tok))

\* Close the own body unless that was postponed.
CloseBody(s, tok, body) ==
  IF body = Null THEN IF tok = "Ec" THEN Br(s.t) ELSE s.t
  ELSE IF s.marked THEN s.t
  ELSE IF tok = "Ec" THEN Alloc(rew_last(s.t, body), "tail", "Eo")
  ELSE rew_last(s.t, body)

blk_exp_close_start ==
  /\ At("blk_exp_close", "start")
  /\ \E body \in {OwnBody(t, Top.tok)} :
     \E s \in {CloseOwn(t, Top.tok, body, t.last, Null, Null)} :
     \E a \in {CloseBody(s, Top.tok, body)} :
       IF Top.tok \in Parsed
       THEN Continue(a, [Top EXCEPT !.pc = "arg",
                                    !.n = IF s.marked THEN s.t.last ELSE s.n])
       ELSE Return(IF s.marked \/ s.n = Null THEN a ELSE rew_pending(a, s.n))
  /\ UNCHANGED <<rest, syn, freecol, done>>

RewN(tree, n) == IF n = Null THEN tree ELSE rew_last(tree, n)

\* Only Ec takes an argument before its block is closed.
ArgsDone == Top.cnt = (IF Top.tok = "Ec" THEN 1 ELSE 0)

blk_exp_close_word ==
  /\ At("blk_exp_close", "arg") /\ ~AtPunct(Top.tok)
  /\ \E kind \in {"none", "close"} : ReadWord(kind)
  /\ Continue(Word(IF ArgsDone THEN RewN(t, Top.n) ELSE t),
              [Top EXCEPT !.cnt = Min({@ + 1, 2})])
  /\ UNCHANGED <<syn, freecol, done>>

blk_exp_close_macro ==
  /\ At("blk_exp_close", "arg")
  /\ \E m \in Callable :
       /\ ReadMacro(Top.tok, m)
       /\ Call([RewN(t, Top.n) EXCEPT !.newline = FALSE],
               [Top EXCEPT !.cnt = 0], m)
  /\ UNCHANGED <<syn, freecol, done>>

\* A macro on the same line may have broken the block again.
BreaksAgain(tree, n) ==
  LET up == tree.node[n].up
      ended == {i \in DOMAIN up : tree.node[up[i]].ended}
  IN  IF ended = {} THEN [t |-> Fault(tree, "null"), pending |-> TRUE]
      ELSE find_pending(tree, "none", up[Max(ended)])

RewUnlessPending(p, n) == IF p.pending THEN p.t ELSE rew_pending(p.t, n)

blk_exp_close_finish ==
  /\ \/ At("blk_exp_close", "arg") /\ (AtEoln \/ AtPunct(Top.tok))
     \/ At("blk_exp_close", "after")
  /\ \E a \in {IF Top.pc = "arg" /\ ArgsDone THEN RewN(t, Top.n) ELSE t} :
     \E b \in {IF Top.n = Null THEN a
               ELSE IF Top.pc = "after" /\ a.node[Top.n].broken
               THEN RewUnlessPending(BreaksAgain(a, Top.n), Top.n)
               ELSE rew_pending(a, Top.n)} :
       Return(WithDelimsIf(Top.nl, b))
  /\ rest' = RestAfter(Top.nl)
  /\ UNCHANGED <<syn, freecol, done>>

-----------------------------------------------------------------------------
(* Partial blocks                                                          *)

blk_part_imp_open ==
  /\ At("blk_part_imp", "start")
  /\ \E a \in {Alloc(t, "block", Top.tok)} :
     \E b \in {Alloc(a, "head", Top.tok)} :
       Continue(rew_last(b, b.last), [Top EXCEPT !.pc = "arg", !.blk = a.last])
  /\ UNCHANGED <<rest, syn, freecol, done>>

WithBody(tree, f) ==
  IF f.body # Null THEN tree ELSE Alloc(tree, "body", f.tok)
BodyOf(tree, f) == IF f.body # Null THEN f.body ELSE tree.last

blk_part_imp_word ==
  /\ At("blk_part_imp", "arg") /\ ~AtPunct(Top.tok)
  /\ \E kind \in {"none", "open", "close"} :
       /\ ReadWord(kind)
       /\ IF kind = "open" /\ Top.body = Null THEN Continue(Word(t), Top)
          ELSE \E a \in {WithBody(t, Top)} :
                 Continue(Word(a), [Top EXCEPT !.body = BodyOf(a, Top)])
  /\ UNCHANGED <<syn, freecol, done>>

blk_part_imp_macro ==
  /\ At("blk_part_imp", "arg")
  /\ \E m \in Callable :
       /\ ReadMacro(Top.tok, m)
       /\ \E a \in {WithBody(t, Top)} :
            Call(a, [Top EXCEPT !.body = BodyOf(a, Top)], m)
  /\ UNCHANGED <<syn, freecol, done>>

\* Close the block and move a trailing Ns out of it.
BlkPartImpClose(tree, blk, body) ==
  LET a == rew_pending(tree, blk)
  IN  IF a.node[body].ns THEN roff_node_relink(a) ELSE a

blk_part_imp_finish ==
  /\ \/ At("blk_part_imp", "arg") /\ (AtEoln \/ AtPunct(Top.tok))
     \/ At("blk_part_imp", "after")
  /\ \E a \in {WithBody(t, Top)} :
     \E p \in {find_pending(a, Top.tok, BodyOf(a, Top))} :
       IF p.pending THEN Return(p.t) /\ UNCHANGED rest
       ELSE /\ \E b \in {WithDelimsIf(Top.nl, rew_last(p.t, BodyOf(a, Top)))} :
                 Return(BlkPartImpClose(b, Top.blk, BodyOf(a, Top)))
            /\ rest' = RestAfter(Top.nl)
  /\ UNCHANGED <<syn, freecol, done>>

blk_part_exp_open ==
  /\ At("blk_part_exp", "start")
  /\ Continue(Alloc(t, "block", Top.tok), [Top EXCEPT !.pc = "arg"])
  /\ UNCHANGED <<rest, syn, freecol, done>>

\* The head is closed when the body starts; the head of Eo has one word.
\* Mutant: the head is not closed before the body is added.
HeadLeftOpen(tree, tok, head) ==
  Alloc(Alloc(tree, "head", tok), "body", tok)

HeadAndBody(tree, tok, head) ==
  LET a == Alloc(tree, "head", tok)
  IN  Alloc(rew_last(IF head THEN Word(a) ELSE a, a.last), "body", tok)

\* The body of a partial explicit block was started.
Started == Top.scope

blk_part_exp_word ==
  /\ At("blk_part_exp", "arg")
  /\ \E kind \in {"none", "open", "close"} :
       /\ ReadWord(kind)
       /\ IF Started THEN Continue(Word(t), Top)
          ELSE IF kind = "open" THEN Continue(Word(t), Top)
          ELSE IF Top.tok = "Eo"
          THEN Continue(HeadAndBody(t, "Eo", TRUE), [Top EXCEPT !.scope = TRUE])
          ELSE Continue(Word(HeadAndBody(t, Top.tok, FALSE)),
                        [Top EXCEPT !.scope = TRUE])
  /\ UNCHANGED <<syn, freecol, done>>

blk_part_exp_macro ==
  /\ At("blk_part_exp", "arg")
  /\ Top.tok = "Eo" => Started
  /\ \E m \in Callable :
       /\ ReadMacro(Top.tok, m)
       /\ Call(IF Started THEN t ELSE HeadAndBody(t, Top.tok, FALSE),
               [Top EXCEPT !.scope = TRUE], m)
  /\ UNCHANGED <<syn, freecol, done>>

blk_part_exp_finish ==
  /\ \/ At("blk_part_exp", "arg") /\ AtEoln
     \/ At("blk_part_exp", "after")
  /\ Return(WithDelimsIf(Top.nl, IF Started THEN t
                                 ELSE HeadAndBody(t, Top.tok, FALSE)))
  /\ rest' = RestAfter(Top.nl)
  /\ UNCHANGED <<syn, freecol, done>>

-----------------------------------------------------------------------------
(* Elements                                                                *)

RewElemIf(cond, tree, tok) == IF cond THEN rew_elem(tree, tok) ELSE tree

EmptyElem(tree, tok) ==
  LET a == Alloc(tree, "elem", tok) IN rew_last(a, a.last)

\* An element without words is created only if the macro allows it.
EmptyElemIf(tree) ==
  IF Top.cnt = 0 /\ Top.tok \in MayBeEmpty THEN EmptyElem(tree, Top.tok)
  ELSE tree

\* in_line(): words are put into an element.
in_line_word ==
  /\ At("in_line", "start") /\ ~AtPunct(Top.tok)
  /\ ReadWord("none")
  /\ \E a \in {IF Top.mayopen /\ ~Top.scope THEN Alloc(t, "elem", Top.tok)
               ELSE t} :
       Continue(RewElemIf(Top.tok = "Fl", Word(a), "Fl"),
                [Top EXCEPT !.scope = (@ \/ Top.mayopen) /\ Top.tok # "Fl",
                            !.cnt = IF Top.mayopen THEN 1 ELSE @])
  /\ UNCHANGED <<syn, freecol, done>>

\* Before the first word, some delimiters make an empty element.
MakesEmpty(kind) ==
  /\ kind = "close" \/ (kind = "middle" /\ Top.tok = "Fl")
  /\ Top.cnt = 0 /\ ~Top.scope /\ Top.mayopen
  /\ Top.tok \in MayBeEmpty

\* Delimiters stay outside the element and close it, except in Lk.
in_line_delim ==
  /\ At("in_line", "start") /\ ~AtPunct(Top.tok)
  /\ \E kind \in {"open", "middle", "close"} :
       /\ ReadWord(kind)
       /\ \E empty \in {MakesEmpty(kind)} :
          \E a \in {IF empty THEN Alloc(t, "elem", Top.tok) ELSE t},
             scope \in {Top.scope \/ empty} :
            Continue(Word(RewElemIf(scope /\ Top.tok # "Lk", a, Top.tok)),
                     [Top EXCEPT
                        !.scope = scope /\ Top.tok = "Lk",
                        !.cnt = IF empty THEN 1 ELSE @,
                        !.mayopen = /\ @
                                    /\ ~(empty /\ Top.tok = "Nm")
                                    /\ ~(scope /\ Top.tok = "Fn")])
  /\ UNCHANGED <<syn, freecol, done>>

in_line_macro ==
  /\ At("in_line", "start")
  /\ ~(Top.tok = "Fn" /\ Top.cnt = 0)
  /\ \E m \in Callable :
       /\ ReadMacro(Top.tok, m)
       /\ Call(EmptyElemIf(RewElemIf(Top.scope, t, Top.tok)),
               Frame(Top.tok, Top.nl, FALSE), m)
  /\ UNCHANGED <<syn, freecol, done>>

in_line_after ==
  /\ At("in_line", "after")
  /\ Return(WithDelimsIf(Top.nl, t))
  /\ rest' = RestAfter(Top.nl)
  /\ UNCHANGED <<syn, freecol, done>>

in_line_finish ==
  /\ At("in_line", "start") /\ (AtEoln \/ AtPunct(Top.tok))
  /\ \E a \in {EmptyElemIf(RewElemIf(Top.scope /\ Top.tok # "Lk", t, Top.tok))} :
       Return(RewElemIf(Top.scope /\ Top.tok = "Lk",
                        WithDelimsIf(Top.nl, a), "Lk"))
  /\ rest' = RestAfter(Top.nl)
  /\ UNCHANGED <<syn, freecol, done>>

(***************************************************************************)
(* in_line_argn(): an element with a limited number of words.  cnt is the  *)
(* variable state: the number of words, -1 before the element was opened   *)
(* and -2 after it was closed.                                             *)
(***************************************************************************)
ArgnOpens == Top.cnt = -1 /\ Top.tok # "Xr"
ArgnOpened(tree) == IF ArgnOpens THEN Alloc(tree, "elem", Top.tok) ELSE tree
ArgnState == IF ArgnOpens THEN 0 ELSE Top.cnt
ArgnClosed(tree) == RewElemIf(ArgnState = MaxArgs(Top.tok), tree, Top.tok)
ArgnStateNow == IF ArgnState = MaxArgs(Top.tok) THEN -2 ELSE ArgnState

in_line_argn_leading ==
  /\ At("in_line_argn", "start") /\ ~AtPunct(Top.tok)
  /\ Top.cnt = -1 /\ Top.tok \notin IgnDelim
  /\ ReadWord("open")
  /\ Continue(Word(t), Top)
  /\ UNCHANGED <<syn, freecol, done>>

in_line_argn_word ==
  /\ At("in_line_argn", "start") /\ ~AtPunct(Top.tok)
  /\ \E kind \in {"none", "open", "close"}, state \in {ArgnStateNow} :
       /\ ReadWord(kind)
       /\ kind = "open" => (Top.cnt # -1 \/ Top.tok \in IgnDelim)
       /\ \E a \in {ArgnClosed(ArgnOpened(t))} :
            IF kind = "none" \/ Top.tok \in IgnDelim
            THEN Continue(Word(IF state = -1 THEN Alloc(a, "elem", Top.tok) ELSE a),
                          [Top EXCEPT !.cnt = CASE state = -1 -> 1
                                                [] state >= 0 -> state + 1
                                                [] OTHER -> state])
            ELSE Continue(Word(RewElemIf(state >= 0, a, Top.tok)),
                          [Top EXCEPT !.cnt = IF state >= 0 THEN -2 ELSE state])
  /\ UNCHANGED <<syn, freecol, done>>

in_line_argn_macro ==
  /\ At("in_line_argn", "start")
  /\ ~(Top.tok = "Pf" /\ ArgnStateNow = 0)
  /\ \E m \in Callable :
       /\ ReadMacro(Top.tok, m)
       /\ Call(RewElemIf(ArgnStateNow >= 0, ArgnClosed(ArgnOpened(t)), Top.tok),
               [Top EXCEPT !.cnt = IF ArgnStateNow >= 0 THEN -2
                                   ELSE ArgnStateNow], m)
  /\ UNCHANGED <<syn, freecol, done>>

ArgnEnd(tree, state) ==
  /\ \E a \in {WithDelimsIf(state = 0 /\ Top.tok = "Pf", tree)} :
     \E b \in {RewElemIf(state >= 0, a, Top.tok)} :
       Return(IF state = 0 /\ Top.tok = "Pf" THEN b
              ELSE WithDelimsIf(Top.nl /\ state # -1, b))
  /\ rest' = RestAfter((state = 0 /\ Top.tok = "Pf") \/ (Top.nl /\ state # -1))

in_line_argn_finish ==
  /\ \/ /\ At("in_line_argn", "start") /\ (AtEoln \/ AtPunct(Top.tok))
        /\ ArgnEnd(ArgnOpened(t), ArgnState)
     \/ At("in_line_argn", "after") /\ ArgnEnd(t, Top.cnt)
  /\ UNCHANGED <<syn, freecol, done>>

\* in_line_eoln(): a paragraph ends the SYNOPSIS block of a name.
EndNameBlock(tree) ==
  LET n == IF tree.next = "sibling" THEN Parent(tree, tree.last) ELSE tree.last
  IN  IF ~syn /\ tree.node[n].tok = "Nm" THEN rew_last(tree, Parent(tree, n))
      ELSE tree

in_line_eoln ==
  /\ At("in_line_eoln", "start")
  /\ \E a \in {Alloc(EndNameBlock(t), "elem", Top.tok)} :
       Return(rew_elem(WithDelims(a), Top.tok))
  /\ rest' = "end"
  /\ UNCHANGED <<syn, freecol, done>>

-----------------------------------------------------------------------------
(* Phrases                                                                 *)

\* The list that Ta belongs to, and the outermost item body below it.
TaList(tree) ==
  Nearest(tree, tree.last, LAMBDA i :
    /\ ~tree.node[i].ended /\ tree.node[i].tok = "Bl"
    /\ tree.node[i].type # "endbody")
TaBody(tree, list) ==
  LET p == Path(tree, tree.last)
      items == {i \in Depth(tree, list) .. Len(p) :
                  /\ ~tree.node[p[i]].ended
                  /\ tree.node[p[i]].tok = "It" /\ tree.node[p[i]].type = "body"}
  IN  IF items = {} THEN Null ELSE p[Min(items)]

phrase_ta ==
  /\ At("phrase_ta", "start")
  /\ \E list \in {TaList(t)} :
       IF list = Null \/ ~t.node[list].col THEN Return(t)
       ELSE Continue(Alloc(rew_last(t, TaBody(t, list)), "body", "It"),
                     [Top EXCEPT !.fn = "parse_rest", !.tok = "none"])
  /\ UNCHANGED <<rest, syn, freecol, done>>

parse_rest ==
  /\ At("parse_rest", "start")
  /\ \/ AtEoln /\ Return(t) /\ UNCHANGED rest
     \/ /\ \E kind \in {"none", "close"} : ReadWord(kind)
        /\ Continue(Word(t), Top)
     \/ \E m \in Callable : ReadMacro("none", m) /\ Call(t, Top, m)
  /\ UNCHANGED <<syn, freecol, done>>

\* macro_or_word() appends what a macro in free text left of the line.
parse_rest_after ==
  /\ At("parse_rest", "after")
  /\ Return(WithDelims(t))
  /\ rest' = "end"
  /\ UNCHANGED <<syn, freecol, done>>

-----------------------------------------------------------------------------
(* Input lines                                                             *)

BetweenLines == stack = <<>> /\ ~done /\ t.err = "ok"

NewLine == [t EXCEPT !.newline = TRUE, !.odd = {}, !.kids = {}]

\* A column list without an open item: text and macros start one.
ListWithoutItem ==
  \/ /\ t.node[t.last].tok = "Bl" /\ t.node[t.last].type = "body"
     /\ t.node[t.last].col
  \/ /\ Parent(t, t.last) # Null
     /\ t.node[Parent(t, t.last)].tok = "Bl"
     /\ t.node[Parent(t, t.last)].col

\* mdoc_ptext(), and mdoc_pmacro() for other macros than It and El.
ImplicitItem ==
  /\ BetweenLines /\ ListWithoutItem
  /\ freecol' = TRUE
  /\ rest' \in Rest
  /\ syn' \in IF "Nm" \in menu.has THEN BOOLEAN ELSE {FALSE}
  /\ stack' = <<Frame("It", TRUE, syn')>>
  /\ t' = NewLine
  /\ UNCHANGED <<menu, done>>

\* A text line, or a blank line, which is turned into a request for space.
mdoc_ptext ==
  /\ BetweenLines /\ ~ListWithoutItem
  /\ \/ Settle(Word(NewLine), <<>>)
     \/ Settle(EmptyElem(NewLine, "sp"), <<>>)
  /\ UNCHANGED <<rest, syn, freecol, done>>

mdoc_pmacro(m) ==
  /\ BetweenLines
  /\ ~ListWithoutItem \/ m \in {"It", "El"}
  /\ Room(m)
  /\ rest' \in Rest
  /\ syn' \in IF "Nm" \in menu.has THEN BOOLEAN ELSE {FALSE}
  /\ stack' = <<Frame(m, TRUE, syn')>>
  /\ t' = NewLine
  /\ UNCHANGED <<menu, freecol, done>>

mdoc_endparse ==
  /\ BetweenLines
  /\ Settle(rew_last(t, Root), <<>>)
  /\ done' = TRUE
  /\ UNCHANGED <<rest, syn, freecol>>

Finished == done /\ UNCHANGED vars

-----------------------------------------------------------------------------
Init ==
  /\ menu \in Menus
  /\ t = TreeInit /\ stack = <<>> /\ rest = "end"
  /\ syn = FALSE /\ freecol = FALSE /\ done = FALSE

Lines == ImplicitItem \/ mdoc_ptext \/ mdoc_endparse
         \/ (\E m \in menu.has : mdoc_pmacro(m))

FullBlocks ==
  \/ blk_full_skip \/ blk_full_open \/ blk_full_leading \/ blk_full_word
  \/ blk_full_macro \/ blk_full_phrase \/ blk_full_phrase_end
  \/ blk_full_tab \/ blk_full_last \/ blk_full_finish

PartialBlocks ==
  \/ blk_part_imp_open \/ blk_part_imp_word \/ blk_part_imp_macro
  \/ blk_part_imp_finish
  \/ blk_part_exp_open \/ blk_part_exp_word \/ blk_part_exp_macro
  \/ blk_part_exp_finish

EndMacros ==
  \/ blk_exp_close_start \/ blk_exp_close_word \/ blk_exp_close_macro
  \/ blk_exp_close_finish

Elements ==
  \/ in_line_word \/ in_line_delim \/ in_line_macro \/ in_line_after
  \/ in_line_finish
  \/ in_line_argn_leading \/ in_line_argn_word \/ in_line_argn_macro
  \/ in_line_argn_finish
  \/ in_line_eoln

Phrases == phrase_ta \/ parse_rest \/ parse_rest_after

Next == Lines \/ FullBlocks \/ PartialBlocks \/ EndMacros \/ Elements
        \/ Phrases \/ Finished

Spec == Init /\ [][Next]_vars

-----------------------------------------------------------------------------
(* Properties                                                              *)

\* The nodes that are open, or closed at the parse point only.
Ancestors == Range(t.node[t.last].up)

IsBlock(i, tok) == t.node[i].type = "block" /\ t.node[i].tok = tok

\* Whatever the nesting of the macros, no handler follows a null pointer and
\* no assertion of rew_elem() or roff_node_append() fails; and what a handler
\* remembers stays a node of the kind it takes it for, while the handlers it
\* calls close, break and move nodes: after the columns of an item, the search
\* along body->next in blk_full() ends at a body.  The flag for items without
\* It is not left over for the next line, where it would make blk_full() close
\* another block at the end of its line.
NoFault ==
  /\ t.err = "ok"
  /\ stack = <<>> => ~freecol
  /\ \A k \in DOMAIN stack :
       /\ stack[k].blk # Null => t.node[stack[k].blk].type = "block"
       /\ stack[k].head # Null => t.node[stack[k].head].type = "head"
       /\ stack[k].body # Null => t.node[stack[k].body].type = "body"
       /\ stack[k].n # Null => t.node[stack[k].n].type \in {"block", "endbody"}

\* A node is not closed while it has open descendants: rew_last() and its
\* callers close the innermost nodes first, and nothing is added to a node
\* that was closed.  The exception is Ns, which blk_part_imp() moves without
\* the parse point.
OnlyLastClosed ==
  \A i \in Ancestors : t.node[i].valid => t.node[i].tok = "Ns"

\* A block is closed with one head and one body, or in columns several
\* bodies: breaking blocks with find_pending(), break_intermediate() and
\* rew_pending() never loses a part or makes one twice.  A SYNOPSIS name can
\* be closed by its own arguments, and the end of the document closes blocks
\* with a broken head, before they have a body.
BlocksWhole ==
  t.odd \subseteq IF done THEN {"Sh", "Ss", "It", "Nm"} ELSE {"Nm"}

\* When a line is done, each block or head whose end was postponed contains
\* an explicit block that is still open and marked as broken, so that the
\* rew_pending() for its end macro closes both.
PendingHasCloser ==
  BetweenLines =>
    \A i \in {j \in Ancestors : /\ t.node[j].ended /\ ~t.node[j].valid
                               /\ t.node[j].type \in {"block", "head"}} :
      \E j \in Below(t, i, t.last) :
        /\ t.node[j].type = "block" /\ t.node[j].tok \in Explicit
        /\ t.node[j].broken /\ ~t.node[j].ended

\* The tree has the normal form of mandoc(3), apart from end markers in
\* heads and with the arguments of Ec, and from the children of Ns.  Sections
\* are never nested in other blocks, not even when blocks are open or their end
\* was postponed (blk_full() closes all of them), and items are direct children
\* of the body of a list, even if they break other blocks that are open in it.
NormalForm ==
  /\ \A k \in t.kids : k \in {<<"head", "endbody">>, <<"endbody", "text">>}
                       \/ k[1] = "elem"
  /\ \A i \in Ancestors :
       /\ IsBlock(i, "Sh") => Parent(t, i) = Root
       /\ IsBlock(i, "It") =>
            t.node[Parent(t, i)].type = "body" /\ t.node[Parent(t, i)].tok = "Bl"
=============================================================================
