----------------------------- MODULE RoffScope -----------------------------
(***************************************************************************)
(* The stack of pending request blocks of the roff(7) parser, roff.c: the  *)
(* conditionals .if .ie .el .while and the blocks .de .am .ig.             *)
(*                                                                         *)
(* A stack is a sequence of nodes with r->last at its end.  A node has     *)
(*   tok      the request that opened it                                   *)
(*   name     for .de and .am, the macro being defined                     *)
(*   end      for blocks, the custom end marker, or NoName                 *)
(*   rule     1 if the condition, and that of the parent, is true          *)
(*   endspan  -1: ends with a closing brace; 0: ends with an end marker;   *)
(*            n > 0: ends after n lines                                    *)
(***************************************************************************)
EXTENDS Integers, Sequences

CONSTANT
  Macros  \* names of user-defined strings and macros

NoName == "none"
ASSUME MacrosAssumption == NoName \notin Macros

CondTok == {"if", "ie", "el", "while"}
BlockTok == {"de", "am", "ig"}

Node == [tok : CondTok \cup BlockTok,
         name : Macros \cup {NoName},
         end : Macros \cup {NoName},
         rule : {0, 1},
         endspan : {-1, 0, 1, 2}]

Top(stack) == stack[Len(stack)]

\* Drop the node r->last.
roffnode_pop(stack) == SubSeq(stack, 1, Len(stack) - 1)

\* A new node inherits the rule of its parent.
roffnode_push(stack, tok, name, end) ==
  Append(stack, [tok |-> tok, name |-> name, end |-> end,
                 rule |-> IF stack = <<>> THEN 0 ELSE Top(stack).rule,
                 endspan |-> 0])

\* The nodes that stay when the current input line ends: all up to the last
\* one that does not end with this line.
Kept(stack) ==
  LET stays == {i \in DOMAIN stack : stack[i].endspan # 1}
  IN  IF stays = {} THEN 0
      ELSE CHOOSE i \in stays : \A j \in stays : j <= i

\* Pop all nodes ending at the end of the current input line; a node with a
\* longer span is one line nearer to its end.
roffnode_cleanscope(stack) ==
  LET k == Kept(stack)
      rest == SubSeq(stack, 1, k)
  IN  IF k > 0 /\ stack[k].endspan > 0
      THEN [rest EXCEPT ![k].endspan = @ - 1]
      ELSE rest

\* Whether a loop is among the nodes that "after" lacks.
LoopEnded(before, after) ==
  \E i \in Len(after) + 1 .. Len(before) : before[i].tok = "while"

\* A closing brace can end the last node.
Closable(stack) ==
  /\ stack # <<>>
  /\ Top(stack).tok \in CondTok
  /\ Top(stack).endspan = -1

\* Handle one closing brace.
roff_ccond(stack) ==
  IF Closable(stack) THEN roffnode_cleanscope(roffnode_pop(stack)) ELSE stack

\* Handle n closing braces on one line.
CloseBraces(stack, n) ==
  LET closed[k \in 0 .. n] == IF k = 0 THEN stack ELSE roff_ccond(closed[k - 1])
  IN  closed[n]
=============================================================================
