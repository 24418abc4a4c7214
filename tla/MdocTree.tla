------------------------------ MODULE MdocTree ------------------------------
(***************************************************************************)
(* The syntax tree as the mdoc(7) parser sees it while it is built: the    *)
(* node allocation of roff.c and mdoc.c and the rewinding functions of     *)
(* mdoc_macro.c.                                                           *)
(*                                                                         *)
(* Only nodes that can still be reached matter to the parser: those on the *)
(* path from the root to the parse point mdoc->last, and those that a      *)
(* macro handler on the C stack points to.  The others are forgotten, so   *)
(* that documents of any length are covered.                               *)
(*                                                                         *)
(* A node has                                                              *)
(*   tok, type  as in the code; "endbody" is a body with an end marker     *)
(*   up         the path from the root to its parent                       *)
(*   valid, ended, broken   NODE_VALID, NODE_ENDED, NODE_BROKEN            *)
(*   col        for parts of Bl, whether the list has type -column         *)
(*   hd, bd     for blocks, how many heads and bodies it got, at most two  *)
(*   ns         for bodies of Op, whether the last child is Ns             *)
(*                                                                         *)
(* A tree t has the nodes, the parse point (last, next), the flag          *)
(* MDOC_NEWLINE, and two histories: err, when the code would follow a null *)
(* pointer or fail an assertion, and, since the line began, odd, the       *)
(* blocks that were closed without all parts, and kids, the nodes that     *)
(* were added where mandoc(3) does not expect them.                        *)
(***************************************************************************)
EXTENDS Integers, Sequences, FiniteSetsExt, Functions

CONSTANT
  MaxNodes   \* bound: nodes that can be reached at one time

ASSUME MaxNodesAssumption == MaxNodes \in Nat \ {0}

Ids == 1 .. MaxNodes
Null == 0
Root == 1

NodeType == {"free", "root", "block", "head", "body", "endbody", "tail",
             "elem", "text"}

NewNode(tok, type, up, col) ==
  [tok |-> tok, type |-> type, up |-> up, valid |-> FALSE, ended |-> FALSE,
   broken |-> FALSE, col |-> col, hd |-> 0, bd |-> 0, ns |-> FALSE]

FreeNode == NewNode("none", "free", <<>>, FALSE)

TreeInit ==
  [node |-> [i \in Ids |-> IF i = Root THEN NewNode("none", "root", <<>>, FALSE)
                           ELSE FreeNode],
   last |-> Root, next |-> "child", newline |-> FALSE,
   err |-> "ok", odd |-> {}, kids |-> {}]

\* Macros whose blocks need an end macro.
Explicit == {"Bl", "Bd", "Bk", "Rs", "Fo", "Ao", "Eo", "Xo"}

-----------------------------------------------------------------------------
(* Paths                                                                   *)

Path(t, n) == Append(t.node[n].up, n)
Depth(t, n) == Len(t.node[n].up) + 1
Parent(t, n) == IF t.node[n].up = <<>> THEN Null
                ELSE t.node[n].up[Len(t.node[n].up)]

\* The nodes of the path to n that lie below the node a.
Below(t, a, n) ==
  {Path(t, n)[i] : i \in Depth(t, a) + 1 .. Depth(t, n)}

OnPath(t, a, n) == a \in Range(Path(t, n))

\* The nearest node on the path to n that satisfies a test, or Null.
Nearest(t, n, Test(_)) ==
  LET p == Path(t, n)
      hits == {i \in DOMAIN p : Test(p[i])}
  IN  IF hits = {} THEN Null ELSE p[Max(hits)]

Fault(t, e) == [t EXCEPT !.err = IF @ = "ok" THEN e ELSE @]

SetAll(t, ns, field) ==
  [t EXCEPT !.node = [i \in Ids |->
     IF i \notin ns THEN t.node[i]
     ELSE CASE field = "broken" -> [t.node[i] EXCEPT !.broken = TRUE]
            [] field = "ended" -> [t.node[i] EXCEPT !.ended = TRUE]
            [] field = "valid" -> [t.node[i] EXCEPT !.valid = TRUE,
                                                    !.ended = TRUE]]]

(***************************************************************************)
(* Between steps, the nodes that neither the parse point nor a pointer can *)
(* reach are forgotten, and the others renumbered: first the path to the   *)
(* parse point.                                                            *)
(***************************************************************************)
Live(t, pointers) == UNION {Range(Path(t, p)) : p \in pointers \cup {t.last}}

Renumber(t, live) ==
  LET p == Path(t, t.last)
      off == live \ Range(p)
  IN  [i \in live |->
         IF i \in off THEN Len(p) + Cardinality({j \in off : j <= i})
         ELSE Depth(t, i)]

Renamed(t, new, old) ==
  [t EXCEPT
     !.last = new[@],
     !.node = [i \in Ids |->
        IF i \notin DOMAIN old THEN FreeNode
        ELSE [t.node[old[i]] EXCEPT
                !.up = [j \in DOMAIN @ |-> new[@[j]]]]]]

\* Between lines, a closed node at the parse point is only a place.
Forget(t) ==
  IF t.node[t.last].valid /\ t.next = "sibling" /\ t.last # Root
  THEN [t EXCEPT !.node[t.last].tok = "none", !.node[t.last].type = "text",
                 !.node[t.last].broken = FALSE, !.node[t.last].col = FALSE,
                 !.node[t.last].hd = 0, !.node[t.last].bd = 0,
                 !.node[t.last].ns = FALSE, !.newline = FALSE]
  ELSE [t EXCEPT !.newline = FALSE]

-----------------------------------------------------------------------------
(* Allocation                                                              *)

\* The normal form of the tree that mandoc(3) documents.
Children(type) ==
  CASE type = "block" -> {"head", "body", "tail", "text"}
    [] type = "body" -> {"block", "elem", "text", "endbody"}
    [] type \in {"root", "head", "tail"} -> {"block", "elem", "text"}
    [] type = "elem" -> {"text"}
    [] OTHER -> {}

\* roff_node_alloc() and roff_node_append() at the given parent.
Attach(t, type, tok, col, up, parent) ==
  LET id == Min({i \in Ids : t.node[i].type = "free"})
      part == [t.node[parent] EXCEPT
                 !.hd = IF type = "head" THEN Min({@ + 1, 2}) ELSE @,
                 !.bd = IF type = "body" THEN Min({@ + 1, 2}) ELSE @,
                 !.ns = t.node[parent].type = "body"
                        /\ t.node[parent].tok = "Op" /\ tok = "Ns"]
      added == [t EXCEPT !.node[id] = NewNode(tok, type, up, col),
                         !.node[parent] = part,
                         !.last = id, !.next = "child", !.newline = FALSE,
                         !.kids = IF type \in Children(part.type) THEN @
                                  ELSE @ \cup {<<part.type, type>>}]
  IN  IF type \in {"head", "body", "tail"} /\ part.type # "block"
      THEN Fault(added, "assert") ELSE added

Append_(t, type, tok, col) ==
  LET up == IF t.next = "child" THEN Path(t, t.last) ELSE t.node[t.last].up
  IN  IF up = <<>> THEN Fault(t, "null")
      ELSE Attach(t, type, tok, col, up, up[Len(up)])

\* roff_block_alloc(), roff_head_alloc(), roff_body_alloc(), mdoc_tail_alloc()
\* and the functions for elements; normalised data is shared by a block.
Alloc(t, type, tok) ==
  Append_(t, type, tok,
          /\ type \in {"head", "body", "tail"}
          /\ t.node[IF t.next = "child" THEN t.last
                    ELSE Parent(t, t.last)].col)

\* roff_word_alloc(): a text node is complete at once.
\* Mutant: the parse point stays inside the text node.
WordOpen(t) ==
  LET a == Append_(t, "text", "none", FALSE)
  IN  SetAll(a, {a.last}, "valid")

Word(t) ==
  LET a == Append_(t, "text", "none", FALSE)
  IN  [SetAll(a, {a.last}, "valid") EXCEPT !.next = "sibling"]

\* roff_node_relink(): move a closed Ns to the parse point.  Unlike the
\* allocation functions, this leaves mdoc->next alone.
roff_node_relink(t) ==
  LET a == Append_(t, "elem", "Ns", FALSE)
  IN  [SetAll(a, {a.last}, "valid") EXCEPT !.next = t.next,
                                           !.newline = t.newline]

\* mdoc_endbody_alloc(): mark where the formatting of a body ends.
mdoc_endbody_alloc(t, tok, body) ==
  LET a == SetAll(t, {body, Parent(t, body)}, "ended")
  IN  [Append_(a, "endbody", tok, t.node[body].col) EXCEPT !.next = "sibling"]

-----------------------------------------------------------------------------
(* Rewinding                                                               *)

\* What a formatter expects of a block: one head, and one body, or in items
\* of column lists one body for each column.
Whole(node) ==
  node.hd = 1 /\ (node.bd = 1 \/ (node.tok = "It" /\ node.bd = 2))

\* rew_last(): close all nodes from the parse point up to a node.
CloseTo(t, to, ns) ==
  [SetAll(t, ns, "valid") EXCEPT
     !.last = to, !.next = "sibling",
     !.odd = @ \cup {t.node[i].tok : i \in
               {j \in ns : t.node[j].type = "block" /\ ~Whole(t.node[j])}}]

rew_last(t, to) ==
  IF to = Null THEN Fault(t, "null")
  ELSE IF t.node[to].valid THEN t
  ELSE IF ~OnPath(t, to, t.last) THEN Fault(t, "null")
  ELSE CloseTo(t, to, {to} \cup Below(t, to, t.last))

\* rew_pending(): close a block and the blocks around it that were waiting
\* for it.
RECURSIVE rew_pending(_, _)

\* Mutant: blocks that wait for a broken block are left alone.
RewParentNever(t, n) == t

RewParent(t, n) ==
  LET p == IF Parent(t, n) = Null THEN Null
           ELSE Nearest(t, Parent(t, n),
                        LAMBDA i : t.node[i].type \in {"block", "head"})
  IN  IF p # Null /\ t.node[p].ended THEN rew_pending(t, p) ELSE t

\* Mutant: closing a broken head does not start the body.
RewPendingNoBody(a, n) ==
  IF a.err # "ok" THEN a
  ELSE IF a.last # n THEN RewParent(a, a.last)
  ELSE IF a.node[n].type \in {"head", "block"} /\ a.node[n].broken
  THEN RewParent(a, n) ELSE a

RewPendingAt(a, n) ==
  IF a.err # "ok" THEN a
  ELSE IF a.last # n THEN RewParent(a, a.last)
  ELSE IF a.node[n].type \notin {"head", "block"} THEN a
  ELSE LET b == IF a.node[n].type = "head"
                THEN Alloc(a, "body", a.node[n].tok) ELSE a
       IN  IF a.node[n].broken THEN RewParent(b, n) ELSE b

rew_pending(t, n) == RewPendingAt(rew_last(t, n), n)

\* rew_elem(): close the element at the parse point, with two assertions.
rew_elem(t, tok) ==
  LET n == IF t.node[t.last].type = "elem" THEN t.last ELSE Parent(t, t.last)
  IN  IF n = Null THEN Fault(t, "null")
      ELSE IF t.node[n].type # "elem" \/ t.node[n].tok # tok
      THEN Fault(t, "assert")
      ELSE rew_last(t, n)

\* break_intermediate(): mark what is open between a node and its breaker.
break_intermediate(t, n, breaker) ==
  LET from == IF n = breaker \/ t.node[n].type \in {"block", "head", "body"}
              THEN n ELSE Parent(t, n)
  IN  IF from = Null \/ ~OnPath(t, breaker, from) THEN Fault(t, "null")
      ELSE SetAll(t, {i \in Below(t, breaker, from) : ~t.node[i].valid},
                  "broken")

\* find_pending(): if an explicit block is open below the target, closing the
\* target is left to the rew_pending() of that block.
Postpone(b, tok, target) ==
  IF b.node[target].type = "head" THEN SetAll(b, {target}, "ended")
  ELSE IF b.node[target].ended THEN b
  ELSE mdoc_endbody_alloc(b, tok, target)

find_pending(t, tok, target) ==
  LET open == {i \in IF OnPath(t, target, t.last)
                     THEN Below(t, target, t.last)
                     ELSE Range(Path(t, t.last)) :
                 /\ ~t.node[i].ended
                 /\ t.node[i].type = "block"
                 /\ t.node[i].tok \in Explicit}
  IN  IF t.node[target].valid \/ open = {} THEN [t |-> t, pending |-> FALSE]
      ELSE [t |-> Postpone(break_intermediate(t, t.last, target), tok, target),
            pending |-> TRUE]
=============================================================================
