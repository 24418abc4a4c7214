----------------------------- MODULE ManProofs -----------------------------
(***************************************************************************)
(* Proofs about ManMacro, for documents of any length and blocks nested to *)
(* any depth.  NoFault, ScopeFlags and Nested are about the nodes that are *)
(* open; whether a handler keeps them depends on which chains of open      *)
(* nodes can occur with which flags and which node at the parse point.     *)
(* ManInv says that: heads are open only around font macros, font macros   *)
(* and the element of ce are innermost, and what man_breakscope() asserts  *)
(* not to be at the parse point is not there, now and after deleting.      *)
(* Everything rests on one fact: the handlers of blocks find that nothing  *)
(* is waiting (Clean).                                                     *)
(***************************************************************************)
EXTENDS ManMacro, BasicLemmas, FiniteSetTheorems

\* What may be before an open node or at the parse point: see Seen in ManMacro.
Before == [tok : {"none", "text", "SH", "PP", "block", "request", "elem"}, c : BOOLEAN]
\* One open node.
NodeRec == [tok : Macros \cup {"root", "ce"}, type : {"root", "block", "head", "body", "elem"},
            aux : BOOLEAN, prev : Before]

\* Nodes that man_breakscope() must not find at the parse point when it deletes a head.
Far == {"SH", "PP", "block"}

\* The open node i of the path p fits to its neighbours: the root is first; a block is in the
\* root or in a body and has its head or body inside; only blocks with next-line scope keep
\* their head open, and only font macros are inside it; font macros are innermost, and so
\* is the element of the ce request.
NodeOK(p, i) ==
  /\ p[i].type = "root" => i = 1
  /\ i = 1 => p[i].type = "root"
  /\ p[i].type = "block" =>
       /\ i > 1 /\ p[i - 1].type \in {"root", "body"}
       /\ i < Len(p) /\ p[i + 1].type \in {"head", "body"}
       /\ p[i].tok \in blk_imps \cup blk_exps
  /\ p[i].type \in {"head", "body"} =>
       i > 1 /\ p[i - 1].type = "block" /\ p[i - 1].tok = p[i].tok
  /\ p[i].type = "head" =>
       p[i].tok \in MAN_BSCOPED /\ \A j \in (i + 1)..Len(p) : p[j].tok = "B"
  /\ p[i].type = "elem" => p[i].tok \in {"B", "ce"}
  /\ p[i].tok = "B" => p[i].type = "elem" /\ \A j \in i..Len(p) : p[j].tok = "B"
  /\ p[i].tok = "ce" => p[i].type = "elem" /\ i = Len(p)

\* A chain of open nodes that the handlers can leave behind.
PathOK(p) == p \in Seq(NodeRec) /\ p # <<>> /\ \A i \in 1..Len(p) : NodeOK(p, i)

\* Node i is a block of one of the macros toks.
IsBlock(p, i, toks) == p[i].type = "block" /\ p[i].tok \in toks
\* Macros that start paragraphs.
pars == blk_imps \ {"SH", "SS"}
\* Nested, stated for any chain of open nodes.
NestOK(p) ==
  /\ \A i \in 1..Len(p) :
       /\ IsBlock(p, i, {"SH"}) => i = 2
       /\ IsBlock(p, i, {"SS"}) => i = 2 \/ (i = 4 /\ IsBlock(p, 2, {"SH"}))
  /\ \A i, j \in 1..Len(p) :
       i < j /\ IsBlock(p, i, pars) /\ IsBlock(p, j, pars) =>
         \E k \in i..j : IsBlock(p, k, blk_exps)

\* MAN_BLINE, MAN_ELINE and the mode of the ce request, as the chain shows them.
HasHead(p) == \E i \in 1..Len(p) : p[i].type = "head"
HasFont(p) == \E i \in 1..Len(p) : p[i].tok = "B"
HasCe(p) == \E i \in 1..Len(p) : p[i].tok = "ce"

\* While a font macro waits for its line, nothing but requests can be at the parse point;
\* while a head waits, nothing that ends heads; and as deleting a font macro moves the parse
\* point back, the same is true of what was before it.
AtOK(p, at) ==
  /\ at \in Before
  /\ HasFont(p) => at.tok \in {"none", "request"}
  /\ HasHead(p) => /\ at.tok \notin Far
                   /\ \A i \in 1..Len(p) : p[i].tok = "B" => p[i].prev.tok \notin Far

\* ROFF_NONOFILL belongs to a head or a table, and with a head it is set unless a table changed it.
NoFillOK(nonofill, head) ==
  /\ nonofill => head \/ tbl # "none"
  /\ head => nonofill \/ loose

\* The flags and roffce_lines say what is open.
FlagsOK(p, bline, eline, nonofill, ce, fault) ==
  /\ bline \in BOOLEAN /\ eline \in BOOLEAN /\ nonofill \in BOOLEAN /\ ce \in Int
  /\ bline <=> HasHead(p)
  /\ eline <=> HasFont(p)
  /\ NoFillOK(nonofill, HasHead(p))
  /\ ce = -1 <=> ~HasCe(p)
  /\ fault = FALSE

\* The state is a record of these fields.
Rec(s) == s = [path |-> s.path, at |-> s.at, bline |-> s.bline, eline |-> s.eline,
  nofill |-> s.nofill, nonofill |-> s.nonofill, ce |-> s.ce, margin |-> s.margin, fault |-> s.fault]

\* The invariant of the parser between two lines.
Good(s) ==
  /\ Rec(s) /\ PathOK(s.path) /\ NestOK(s.path) /\ AtOK(s.path, s.at)
  /\ FlagsOK(s.path, s.bline, s.eline, s.nonofill, s.ce, s.fault)

\* What man_endparse() leaves.
Finished(s) ==
  /\ Len(s.path) = 1 /\ ~HasHead(s.path) /\ ~HasFont(s.path)
  /\ s.bline = FALSE /\ s.eline = FALSE /\ s.fault = FALSE

\* The inductive invariant.  NoFault, ScopeFlags and Nested are not inductive: whether a flag
\* is right after a scope is broken depends on which nodes can be inside which.
ManInv ==
  /\ eof \in BOOLEAN /\ loose \in BOOLEAN
  /\ tbl # "none" => loose
  /\ ~eof => Good(man)
  /\ eof => Finished(man)

\* t has the flags of s.
Flags(s, t) == /\ t.bline = s.bline /\ t.eline = s.eline /\ t.nonofill = s.nonofill
  /\ t.ce = s.ce /\ t.fault = s.fault

\* The helpers of the parser, field by field: moving the parse point;
LEMMA AtIs ==
  ASSUME NEW s, Rec(s), NEW a, NEW t, t = [s EXCEPT !.at = a]
  PROVE  Rec(t) /\ t.path = s.path /\ t.at = a /\ Flags(s, t)
BY DEF Rec, Flags

\* roff_block_alloc(), roff_head_alloc(), roff_elem_alloc();
LEMMA OpenIs ==
  ASSUME NEW s, Rec(s), NEW tok, NEW type, NEW t, t = Open(s, tok, type)
  PROVE  Rec(t) /\ t.path = Append(s.path, Node(tok, type, s.at)) /\ t.at = None /\ Flags(s, t)
BY DEF Rec, Flags, Open

\* man_unscope(), when the node to close is open;
LEMMA UnscopeIs ==
  ASSUME NEW s, Rec(s), NEW i, ~(i < 2 \/ i > Depth(s)), NEW t, t = man_unscope(s, i)
  PROVE  Rec(t) /\ t.path = SubSeq(s.path, 1, i - 1) /\ t.at = Leaf(s.path[i].tok) /\ Flags(s, t)
BY DEF Rec, Flags, man_unscope, Closed

\* roff_node_delete(), when the node is not the root.
LEMMA DeleteIs ==
  ASSUME NEW s, Rec(s), NEW i, ~(i <= 1), NEW t, t = roff_node_delete(s, i)
  PROVE  Rec(t) /\ t.path = SubSeq(s.path, 1, i - 1) /\ t.at = s.path[i].prev /\ Flags(s, t)
BY DEF Rec, Flags, roff_node_delete

-----------------------------------------------------------------------------
\* From node f on, all open nodes are font macros, and none before.
FontsFrom(p, f) ==
  /\ f \in 2..Len(p) /\ \A j \in f..Len(p) : p[j].tok = "B"
  /\ \A j \in 1..(f - 1) : p[j].tok # "B"

\* A chain in which nothing waits for the next line.
Bare(p) == PathOK(p) /\ NestOK(p) /\ ~HasHead(p) /\ ~HasFont(p) /\ ~HasCe(p)

\* The chain of open nodes has a first and a last node.
LEMMA PathIs ==
  ASSUME NEW p, PathOK(p)
  PROVE  Len(p) \in Nat \ {0} /\ p \in Seq(NodeRec) /\ 1 \in 1..Len(p) /\ Len(p) \in 1..Len(p)
BY NonEmpty DEF PathOK

\* If font macros are open, they are the innermost nodes: where the loops of man_descope(),
\* man_breakscope() and man_endparse() stop.
LEMMA Fonts ==
  ASSUME NEW p, PathOK(p), HasFont(p)
  PROVE  \E f \in 2..Len(p) : FontsFrom(p, f)
<1> DEFINE S == {i \in 1..Len(p) : p[i].tok = "B"}
<1>1. S \in SUBSET Nat /\ S # {}
  BY PathIs DEF HasFont
<1>2. PICK f \in S : \A n \in S : f <= n
  BY <1>1, Least
<1>3. f \in 1..Len(p) /\ p[f].tok = "B" /\ \A j \in f..Len(p) : p[j].tok = "B"
  BY <1>2 DEF PathOK, NodeOK
<1>4. f # 1
  BY <1>3, PathIs DEF PathOK, NodeOK
<1>5. \A j \in 1..(f - 1) : p[j].tok # "B"
  BY <1>2, <1>3, PathIs
<1>6. f \in 2..Len(p)
  BY <1>3, <1>4, PathIs
<1> QED BY <1>3, <1>5, <1>6 DEF FontsFrom

\* A number that is in a set and not above any other is its minimum.
LEMMA MinIs ==
  ASSUME NEW S \in SUBSET Int, NEW m \in S, \A n \in S : m <= n
  PROVE  Min(S) = m
<1>1. \A x \in S : (\A y \in S : x <= y) => x = m
  OBVIOUS
<1> QED BY <1>1 DEF Min

\* A number that is in a set and not below any other is its maximum.
LEMMA MaxIs ==
  ASSUME NEW S \in SUBSET Int, NEW m \in S, \A n \in S : n <= m
  PROVE  Max(S) = m
<1>1. \A x \in S : (\A y \in S : x >= y) => x = m
  OBVIOUS
<1> QED BY <1>1 DEF Max

\* Closing or deleting nodes leaves the outer ones as they are.
LEMMA CutIs ==
  ASSUME NEW p, PathOK(p), NEW n \in 1..Len(p), NEW t, t = SubSeq(p, 1, n)
  PROVE  /\ t \in Seq(NodeRec) /\ t # <<>> /\ Len(t) = n /\ n \in Nat /\ Len(p) \in Nat
         /\ n <= Len(p)
         /\ \A m \in 1..n : t[m] = p[m]
<1>1. p \in Seq(NodeRec) /\ n \in 0..Len(p) /\ n \in Nat \ {0} /\ n <= Len(p) /\ Len(p) \in Nat
  BY PathIs
<1>2. Prefix(NodeRec, p, n, t)
  BY <1>1, Cut
<1>3. t \in Seq(NodeRec) /\ Len(t) = n /\ \A m \in 1..n : t[m] = p[m]
  BY <1>2 DEF Prefix
<1>4. t # <<>>
  BY <1>1, <1>3, EmptyLen
<1> QED BY <1>1, <1>3, <1>4

\* Closing inner nodes does not change how the outer blocks nest.
LEMMA NestCut ==
  ASSUME NEW p, PathOK(p), NestOK(p), NEW n \in 1..Len(p), NEW t, t = SubSeq(p, 1, n)
  PROVE  NestOK(t)
<1>2. Len(t) = n /\ n \in Nat /\ Len(p) \in Nat /\ n <= Len(p) /\ \A m \in 1..n : t[m] = p[m]
  BY CutIs
<1>3. ASSUME NEW i \in 1..Len(t), IsBlock(t, i, {"SH"}) PROVE i = 2
  BY <1>2, <1>3 DEF NestOK, IsBlock
<1>4. ASSUME NEW i \in 1..Len(t), IsBlock(t, i, {"SS"})
      PROVE  i = 2 \/ (i = 4 /\ IsBlock(t, 2, {"SH"}))
  BY <1>2, <1>4 DEF NestOK, IsBlock
<1>5. ASSUME NEW i \in 1..Len(t), NEW j \in 1..Len(t), i < j,
             IsBlock(t, i, pars), IsBlock(t, j, pars)
      PROVE  \E k \in i..j : IsBlock(t, k, blk_exps)
  <2>1. IsBlock(p, i, pars) /\ IsBlock(p, j, pars) /\ i \in 1..Len(p) /\ j \in 1..Len(p)
    BY <1>2, <1>5 DEF IsBlock
  <2>2. PICK k \in i..j : IsBlock(p, k, blk_exps)
    BY <1>5, <2>1 DEF NestOK
  <2>3. IsBlock(t, k, blk_exps)
    BY <1>2, <2>2 DEF IsBlock
  <2> QED BY <2>3
<1> QED BY <1>3, <1>4, <1>5 DEF NestOK

\* Closing inner nodes leaves a chain that is legal, unless it ends in a block without head
\* and body.
LEMMA PathCut ==
  ASSUME NEW p, PathOK(p), NEW n \in 1..Len(p), p[n].type # "block", NEW t, t = SubSeq(p, 1, n)
  PROVE  PathOK(t)
<1>2. Len(t) = n /\ n \in Nat /\ Len(p) \in Nat /\ n <= Len(p) /\ \A m \in 1..n : t[m] = p[m]
  BY CutIs
<1>3. t \in Seq(NodeRec) /\ t # <<>>
  BY CutIs
<1>4. ASSUME NEW i \in 1..Len(t) PROVE NodeOK(t, i)
  <2>1. NodeOK(p, i) /\ t[i] = p[i] /\ i \in 1..n
    BY <1>2 DEF PathOK
  <2>2. i # 1 => t[i - 1] = p[i - 1]
    BY <1>2, <2>1
  <2>3. t[i].type = "block" => i # n /\ t[i + 1] = p[i + 1]
    BY <1>2, <2>1
  <2>4. \A j \in i..Len(t) : j \in i..Len(p) /\ t[j] = p[j]
    BY <1>2, <2>1
  <2> QED BY <1>2, <2>1, <2>2, <2>3, <2>4 DEF NodeOK
<1> QED BY <1>3, <1>4 DEF PathOK

\* Closing a block with all that is in it leaves nothing waiting: no head and no font macro
\* can be outside a block.
LEMMA CutBlock ==
  ASSUME NEW p, PathOK(p), NestOK(p), NEW n \in 2..Len(p), p[n].type = "block",
         NEW t, t = SubSeq(p, 1, n - 1)
  PROVE  Bare(t)
<1>1. n - 1 \in 1..Len(p) /\ n \in 1..Len(p) /\ NodeOK(p, n) /\ n \in Nat /\ Len(p) \in Nat
  BY PathIs DEF PathOK
<1>2. p[n - 1].type # "block" /\ p[n].tok \in blk_imps \cup blk_exps
  BY <1>1 DEF NodeOK
<1>3. PathOK(t) /\ NestOK(t)
  BY <1>1, <1>2, PathCut, NestCut
<1>4. Len(t) = n - 1 /\ \A m \in 1..(n - 1) : t[m] = p[m]
  BY <1>1, CutIs
<1>5. p[n].tok # "B" /\ p[n].tok # "ce"
  BY <1>2 DEF blk_imps, blk_exps
<1>6. ASSUME NEW m \in 1..(n - 1) PROVE p[m].type # "head" /\ p[m].tok # "B" /\ p[m].tok # "ce"
  <2>1. m \in 1..Len(p) /\ NodeOK(p, m) /\ n \in m..Len(p) /\ n \in (m + 1)..Len(p) /\ m # Len(p)
    BY <1>1 DEF PathOK
  <2> QED BY <1>5, <2>1 DEF NodeOK
<1> QED BY <1>3, <1>4, <1>6 DEF Bare, HasHead, HasFont, HasCe

\* t is p without its font macros.
Unfonted(p, t) ==
  /\ PathOK(t) /\ NestOK(t) /\ ~HasFont(t) /\ ~HasCe(t) /\ ~HasCe(p)
  /\ HasHead(t) <=> HasHead(p)

\* Closing or deleting all font macros leaves the head, if one waits.
LEMMA CutFonts ==
  ASSUME NEW p, PathOK(p), NestOK(p), NEW f \in 2..Len(p), FontsFrom(p, f),
         NEW t, t = SubSeq(p, 1, f - 1)
  PROVE  Unfonted(p, t)
<1>1. f - 1 \in 1..Len(p) /\ f \in 1..Len(p) /\ NodeOK(p, f) /\ f \in Nat /\ Len(p) \in Nat
      /\ p[f].tok = "B" /\ f \in f..Len(p) /\ NodeOK(p, f - 1)
  BY PathIs DEF PathOK, FontsFrom
<1>2. p[f].type = "elem"
  BY <1>1 DEF NodeOK
<1>3. p[f - 1].type # "block"
  <2>1. (f - 1) + 1 = f
    BY <1>1
  <2> QED BY <1>1, <1>2, <2>1 DEF NodeOK
<1>4. PathOK(t) /\ NestOK(t)
  BY <1>1, <1>3, PathCut, NestCut
<1>5. Len(t) = f - 1 /\ \A m \in 1..(f - 1) : t[m] = p[m]
  BY <1>1, CutIs
<1>6. ~HasFont(t)
  BY <1>5 DEF HasFont, FontsFrom
<1>7. ASSUME NEW m \in 1..Len(p) PROVE p[m].tok # "ce"
  <2>1. NodeOK(p, m)
    BY DEF PathOK
  <2>2. CASE m \in f..Len(p)
    BY <2>2 DEF FontsFrom
  <2>3. CASE m \in 1..(f - 1)
    BY <1>1, <2>1, <2>3 DEF NodeOK
  <2> QED BY <1>1, <2>2, <2>3
<1>8. ~HasCe(p) /\ ~HasCe(t)
  BY <1>1, <1>5, <1>7 DEF HasCe
<1>9. ASSUME NEW m \in 1..Len(p), p[m].type = "head" PROVE m \in 1..(f - 1)
  <2>1. m \in f..Len(p) => p[m].tok = "B"
    BY DEF FontsFrom
  <2>2. NodeOK(p, m)
    BY DEF PathOK
  <2>3. p[m].tok # "B"
    BY <1>9, <2>2 DEF NodeOK
  <2> QED BY <1>1, <2>1, <2>3
<1>10. HasHead(t) <=> HasHead(p)
  BY <1>1, <1>5, <1>9 DEF HasHead
<1> QED BY <1>4, <1>6, <1>8, <1>10 DEF Unfonted

\* A head that waits, without font macros in it, is the innermost node, and its block the
\* one around it: what OpenBody and man_breakscope() rely on.
LEMMA HeadLast ==
  ASSUME NEW p, PathOK(p), HasHead(p), ~HasFont(p)
  PROVE  /\ p[Len(p)].type = "head" /\ Len(p) > 2 /\ p[Len(p) - 1].type = "block"
         /\ p[Len(p)].tok \in MAN_BSCOPED /\ p[Len(p) - 1].tok = p[Len(p)].tok
         /\ \A i \in 1..(Len(p) - 1) : p[i].type # "head"
<1>1. PICK m \in 1..Len(p) : p[m].type = "head"
  BY DEF HasHead
<1>2. NodeOK(p, m) /\ Len(p) \in Nat /\ m \in Nat /\ \A j \in 1..Len(p) : p[j].tok # "B"
  BY PathIs DEF PathOK, HasFont
<1>3. m = Len(p)
  <2>1. SUFFICES ASSUME m + 1 \in (m + 1)..Len(p) /\ m + 1 \in 1..Len(p) PROVE FALSE
    BY <1>2
  <2> QED BY <1>1, <1>2, <2>1 DEF NodeOK
<1>4. p[m].tok \in MAN_BSCOPED /\ m > 1 /\ p[m - 1].type = "block" /\ p[m - 1].tok = p[m].tok
  BY <1>1, <1>2 DEF NodeOK
<1>5. m > 2
  <2>1. NodeOK(p, 1)
    BY PathIs DEF PathOK
  <2>2. p[1].type = "root"
    BY <2>1 DEF NodeOK
  <2> QED BY <1>2, <1>4, <2>2
<1>6. ASSUME NEW i \in 1..(Len(p) - 1) PROVE p[i].type # "head"
  <2>1. i \in 1..Len(p) /\ NodeOK(p, i) /\ m \in (i + 1)..Len(p) /\ m \in 1..Len(p)
    BY <1>2, <1>3 DEF PathOK
  <2> QED BY <1>2, <2>1 DEF NodeOK
<1> QED BY <1>1, <1>3, <1>4, <1>5, <1>6

\* Deleting the block of the head that waits leaves nothing waiting.
LEMMA CutHead ==
  ASSUME NEW p, PathOK(p), NestOK(p), HasHead(p), ~HasFont(p), NEW t, t = SubSeq(p, 1,
         (Len(p) - 1) - 1)
  PROVE  Bare(t)
<1>1. Len(p) \in Nat /\ p[Len(p) - 1].type = "block" /\ Len(p) > 2
  BY PathIs, HeadLast
<1>2. Len(p) - 1 \in 2..Len(p)
  BY <1>1
<1> QED BY <1>1, <1>2, CutBlock

\* The element of the ce request is the innermost node, and nothing else waits.
LEMMA CeLast ==
  ASSUME NEW p, PathOK(p), HasCe(p)
  PROVE  p[Len(p)].tok = "ce" /\ Len(p) \in 2..Len(p) /\ ~HasHead(p) /\ ~HasFont(p)
<1>1. PICK m \in 1..Len(p) : p[m].tok = "ce"
  BY DEF HasCe
<1>2. Len(p) \in Nat /\ m \in Nat /\ NodeOK(p, m) /\ NodeOK(p, 1)
  BY PathIs DEF PathOK
<1>3. m = Len(p) /\ p[m].type = "elem"
  BY <1>1, <1>2 DEF NodeOK
<1>4. m # 1
  BY <1>2, <1>3 DEF NodeOK
<1>5. ASSUME NEW i \in 1..Len(p) PROVE p[i].tok # "B" /\ p[i].type # "head"
  <2>1. NodeOK(p, i) /\ m \in i..Len(p) /\ (i = m \/ m \in (i + 1)..Len(p))
    BY <1>2, <1>3 DEF PathOK
  <2> QED BY <1>1, <1>3, <2>1 DEF NodeOK
<1> QED BY <1>1, <1>2, <1>3, <1>4, <1>5 DEF HasHead, HasFont

\* Closing it leaves nothing waiting.
LEMMA CutCe ==
  ASSUME NEW p, PathOK(p), NestOK(p), HasCe(p), NEW t, t = SubSeq(p, 1, Len(p) - 1)
  PROVE  Bare(t)
<1>1. Len(p) \in Nat /\ p[Len(p)].tok = "ce" /\ Len(p) \in 2..Len(p) /\ Len(p) \in 1..Len(p)
  BY PathIs, CeLast
<1>2. Len(p) - 1 \in 1..Len(p) /\ NodeOK(p, Len(p)) /\ NodeOK(p, Len(p) - 1)
      /\ (Len(p) - 1) + 1 = Len(p)
  BY <1>1 DEF PathOK
<1>3. p[Len(p) - 1].type # "block"
  BY <1>1, <1>2 DEF NodeOK
<1>4. PathOK(t) /\ NestOK(t)
  BY <1>2, <1>3, PathCut, NestCut
<1>5. Len(t) = Len(p) - 1 /\ \A m \in 1..(Len(p) - 1) : t[m] = p[m]
  BY <1>2, CutIs
<1>6. ASSUME NEW m \in 1..(Len(p) - 1) PROVE m \in 1..Len(p) /\ p[m].tok # "ce"
  BY <1>1 DEF PathOK, NodeOK
<1>7. ~HasHead(p) /\ ~HasFont(p)
  BY CeLast
<1> QED BY <1>4, <1>5, <1>6, <1>7 DEF Bare, HasHead, HasFont, HasCe

-----------------------------------------------------------------------------
\* t is p with the node x inside.
One(p, x, t) ==
  /\ t \in Seq(NodeRec) /\ t # <<>> /\ Len(t) = Len(p) + 1 /\ Len(p) \in Nat \ {0}
  /\ t[Len(p) + 1] = x /\ \A m \in 1..Len(p) : t[m] = p[m]

\* Opening a node leaves the others as they are.
LEMMA GrowIs ==
  ASSUME NEW p, PathOK(p), NEW x \in NodeRec, NEW t, t = Append(p, x)
  PROVE  One(p, x, t)
<1>1. p \in Seq(NodeRec) /\ Len(p) \in Nat \ {0}
  BY PathIs
<1>2. Plus(NodeRec, p, x, t)
  BY <1>1, Appended
<1>3. t \in Seq(NodeRec) /\ Len(t) = Len(p) + 1 /\ t[Len(p) + 1] = x
      /\ \A m \in 1..Len(p) : t[m] = p[m]
  BY <1>2 DEF Plus
<1>4. t # <<>>
  BY <1>1, <1>3, EmptyLen
<1> QED BY <1>1, <1>3, <1>4 DEF One

\* Opening a node that is not a block does not change how blocks nest.
LEMMA NestGrow ==
  ASSUME NEW p, PathOK(p), NestOK(p), NEW x \in NodeRec, x.type # "block", NEW t, t = Append(p, x)
  PROVE  NestOK(t)
<1>1. Len(t) = Len(p) + 1 /\ Len(p) \in Nat \ {0} /\ t[Len(p) + 1] = x
      /\ \A m \in 1..Len(p) : t[m] = p[m]
  BY GrowIs DEF One
<1>2. ASSUME NEW i \in 1..Len(t), t[i].type = "block"
      PROVE  i \in 1..Len(p) /\ t[i] = p[i]
  BY <1>1, <1>2
<1>3. ASSUME NEW i \in 1..Len(t), IsBlock(t, i, {"SH"}) PROVE i = 2
  BY <1>2, <1>3 DEF NestOK, IsBlock
<1>4. ASSUME NEW i \in 1..Len(t), IsBlock(t, i, {"SS"})
      PROVE  i = 2 \/ (i = 4 /\ IsBlock(t, 2, {"SH"}))
  <2>1. i \in 1..Len(p) /\ IsBlock(p, i, {"SS"})
    BY <1>2, <1>4 DEF IsBlock
  <2>2. i = 2 \/ (i = 4 /\ IsBlock(p, 2, {"SH"}))
    BY <2>1 DEF NestOK
  <2> QED BY <1>1, <2>1, <2>2 DEF IsBlock
<1>5. ASSUME NEW i \in 1..Len(t), NEW j \in 1..Len(t), i < j,
             IsBlock(t, i, pars), IsBlock(t, j, pars)
      PROVE  \E k \in i..j : IsBlock(t, k, blk_exps)
  <2>1. IsBlock(p, i, pars) /\ IsBlock(p, j, pars) /\ i \in 1..Len(p) /\ j \in 1..Len(p)
    BY <1>2, <1>5 DEF IsBlock
  <2>2. PICK k \in i..j : IsBlock(p, k, blk_exps)
    BY <1>5, <2>1 DEF NestOK
  <2>3. IsBlock(t, k, blk_exps)
    BY <1>1, <2>1, <2>2 DEF IsBlock
  <2> QED BY <2>3
<1> QED BY <1>3, <1>4, <1>5 DEF NestOK

\* A font macro may be opened anywhere except in ce mode.
LEMMA GrowFont ==
  ASSUME NEW p, PathOK(p), NestOK(p), ~HasCe(p),
         NEW x \in NodeRec, x.tok = "B", x.type = "elem", NEW t, t = Append(p, x)
  PROVE  PathOK(t) /\ NestOK(t) /\ HasFont(t) /\ ~HasCe(t) /\ (HasHead(t) <=> HasHead(p))
<1>0. One(p, x, t)
  BY GrowIs
<1>1. t \in Seq(NodeRec) /\ t # <<>> /\ Len(t) = Len(p) + 1 /\ Len(p) \in Nat \ {0}
      /\ t[Len(p) + 1] = x
      /\ \A m \in 1..Len(p) : t[m] = p[m]
  BY <1>0 DEF One
<1>2. NestOK(t)
  BY NestGrow
<1>3. ASSUME NEW i \in 1..Len(t) PROVE NodeOK(t, i)
  <2>1. CASE i = Len(p) + 1
    <3>1. i # 1 /\ t[i] = x /\ \A j \in i..Len(t) : j = i
      BY <1>1, <2>1
    <3> QED BY <3>1 DEF NodeOK
  <2>2. CASE i \in 1..Len(p)
    <3>1. NodeOK(p, i) /\ t[i] = p[i] /\ (i # 1 => t[i - 1] = p[i - 1]) /\ p[i].tok # "ce"
      BY <1>1, <2>2 DEF PathOK, HasCe
    <3>2. p[i].type = "block" => i < Len(t) /\ t[i + 1] = p[i + 1]
      BY <1>1, <2>2, <3>1 DEF NodeOK
    <3>3. ASSUME NEW j \in i..Len(t) PROVE t[j].tok = "B" \/ (j \in i..Len(p) /\ t[j] = p[j])
      BY <1>1, <2>2
    <3>4. ASSUME NEW j \in (i + 1)..Len(t) PROVE t[j].tok = "B" \/ (j \in (i + 1)..Len(p)
          /\ t[j] = p[j])
      BY <1>1, <2>2
    <3> QED BY <3>1, <3>2, <3>3, <3>4 DEF NodeOK
  <2> QED BY <1>1, <2>1, <2>2
<1>4. HasFont(t)
  <2>1. Len(p) + 1 \in 1..Len(t)
    BY <1>1
  <2> QED BY <1>1, <2>1 DEF HasFont
<1>5. ASSUME NEW i \in 1..Len(t) PROVE i \in 1..Len(p) \/ (i = Len(p) + 1 /\ t[i] = x)
  BY <1>1
<1>6. ~HasCe(t)
  BY <1>1, <1>5 DEF HasCe
<1>7. HasHead(t) <=> HasHead(p)
  <2>1. ASSUME NEW i \in 1..Len(p) PROVE i \in 1..Len(t)
    BY <1>1
  <2> QED BY <1>1, <1>5, <2>1 DEF HasHead
<1> QED BY <1>1, <1>2, <1>3, <1>4, <1>6, <1>7 DEF PathOK

\* The ce request may open its element where nothing waits.
LEMMA GrowCe ==
  ASSUME NEW p, Bare(p),
         NEW x \in NodeRec, x.tok = "ce", x.type = "elem", NEW t, t = Append(p, x)
  PROVE  PathOK(t) /\ NestOK(t) /\ ~HasFont(t) /\ HasCe(t) /\ ~HasHead(t)
<1>0. One(p, x, t)
  BY GrowIs DEF Bare
<1>1. t \in Seq(NodeRec) /\ t # <<>> /\ Len(t) = Len(p) + 1 /\ Len(p) \in Nat \ {0}
      /\ t[Len(p) + 1] = x
      /\ \A m \in 1..Len(p) : t[m] = p[m]
  BY <1>0 DEF One
<1>2. NestOK(t)
  BY NestGrow DEF Bare
<1>3. ASSUME NEW i \in 1..Len(t) PROVE NodeOK(t, i)
  <2>1. CASE i = Len(p) + 1
    <3>1. i # 1 /\ t[i] = x /\ i = Len(t)
      BY <1>1, <2>1
    <3> QED BY <3>1 DEF NodeOK
  <2>2. CASE i \in 1..Len(p)
    <3>1. NodeOK(p, i) /\ t[i] = p[i] /\ (i # 1 => t[i - 1] = p[i - 1]) /\ p[i].tok # "ce"
          /\ p[i].tok # "B" /\ p[i].type # "head"
      BY <1>1, <2>2 DEF PathOK, HasCe, HasFont, HasHead, Bare
    <3>2. p[i].type = "block" => i < Len(t) /\ t[i + 1] = p[i + 1]
      BY <1>1, <2>2, <3>1 DEF NodeOK
    <3> QED BY <3>1, <3>2 DEF NodeOK
  <2> QED BY <1>1, <2>1, <2>2
<1>4. HasCe(t)
  <2>1. Len(p) + 1 \in 1..Len(t)
    BY <1>1
  <2> QED BY <1>1, <2>1 DEF HasCe
<1>5. ASSUME NEW i \in 1..Len(t) PROVE i \in 1..Len(p) \/ (i = Len(p) + 1 /\ t[i] = x)
  BY <1>1
<1>6. ~HasFont(t) /\ ~HasHead(t)
  BY <1>1, <1>5 DEF HasFont, HasHead, Bare
<1> QED BY <1>1, <1>2, <1>3, <1>4, <1>6 DEF PathOK

\* A block of the macro tok may be opened inside p.
Fits(p, tok) ==
  /\ tok = "SH" => Len(p) = 1
  /\ tok = "SS" => Len(p) = 1 \/ (Len(p) = 3 /\ IsBlock(p, 2, {"SH"}))
  /\ tok \in pars => \A i \in 1..Len(p) :
       IsBlock(p, i, pars) => \E k \in i..Len(p) : IsBlock(p, k, blk_exps)

\* t is p with the block x inside and in it the head or body y.
Two(p, x, y, t) ==
  /\ t \in Seq(NodeRec) /\ Len(t) = Len(p) + 2 /\ t[Len(p) + 1] = x /\ t[Len(p) + 2] = y
  /\ \A m \in 1..Len(p) : t[m] = p[m]

\* Where nothing waits, the innermost node is the root or a body.
LEMMA LastBare ==
  ASSUME NEW p, Bare(p)
  PROVE  p[Len(p)].type \in {"root", "body"} /\ \A i \in 1..Len(p) : p[i].type # "elem"
<1>1. NodeOK(p, Len(p)) /\ Len(p) \in 1..Len(p) /\ Len(p) \in Nat /\ p[Len(p)] \in NodeRec
  BY PathIs, SeqElem DEF PathOK, Bare
<1>2. p[Len(p)].type \in {"root", "block", "head", "body", "elem"}
  BY <1>1 DEF NodeRec
<1>3. \A i \in 1..Len(p) : p[i].type # "elem"
  BY DEF Bare, PathOK, NodeOK, HasFont, HasCe
<1>4. p[Len(p)].type # "head" /\ p[Len(p)].type # "block"
  BY <1>1 DEF NodeOK, Bare, HasHead
<1> QED BY <1>1, <1>2, <1>3, <1>4

\* A block that fits may be opened, and its head waits if it stays open.
LEMMA GrowBlock ==
  ASSUME NEW p, Bare(p), NEW tok \in blk_imps \cup blk_exps, Fits(p, tok),
         NEW x, x.tok = tok, x.type = "block", NEW y, y.tok = tok, y.type \in {"head", "body"},
         y.type = "head" => tok \in MAN_BSCOPED, NEW t, Two(p, x, y, t)
  PROVE  PathOK(t) /\ NestOK(t) /\ ~HasFont(t) /\ ~HasCe(t) /\ (HasHead(t) <=> y.type = "head")
<1> DEFINE n == Len(p)
<1>1. t \in Seq(NodeRec) /\ Len(t) = n + 2 /\ t[n + 1] = x /\ t[n + 2] = y /\ n \in Nat \ {0}
      /\ \A m \in 1..n : t[m] = p[m]
  BY PathIs DEF Two, Bare
<1>2. t # <<>>
  BY <1>1, EmptyLen
<1>3. tok # "B" /\ tok # "ce"
  BY DEF blk_imps, blk_exps
<1> HIDE DEF n
<1>4. ASSUME NEW i \in 1..Len(t)
      PROVE  i \in 1..n \/ (i = n + 1 /\ t[i] = x) \/ (i = n + 2 /\ t[i] = y)
  BY <1>1
<1>5. ASSUME NEW i \in 1..Len(t) PROVE NodeOK(t, i)
  <2>1. CASE i = n + 1
    <3>1. i > 1 /\ t[i] = x /\ t[i - 1] = p[n] /\ i < Len(t) /\ t[i + 1] = y
      BY <1>1, <2>1
    <3>2. p[n].type \in {"root", "body"}
      BY LastBare DEF n
    <3> QED BY <1>3, <3>1, <3>2 DEF NodeOK
  <2>2. CASE i = n + 2
    <3>1. i > 1 /\ t[i] = y /\ t[i - 1] = x /\ \A j \in (i + 1)..Len(t) : FALSE
      BY <1>1, <2>2
    <3> QED BY <1>3, <3>1 DEF NodeOK
  <2>3. CASE i \in 1..n
    <3>1. NodeOK(p, i) /\ t[i] = p[i] /\ (i # 1 => t[i - 1] = p[i - 1]) /\ p[i].tok # "ce"
          /\ p[i].tok # "B" /\ p[i].type # "head"
      BY <1>1, <2>3 DEF PathOK, HasCe, HasFont, HasHead, Bare, n
    <3>2. p[i].type = "block" => i < Len(t) /\ t[i + 1] = p[i + 1]
      BY <1>1, <2>3, <3>1 DEF NodeOK, n
    <3> QED BY <3>1, <3>2 DEF NodeOK
  <2> QED BY <1>4, <2>1, <2>2, <2>3
<1>6. NestOK(t)
  <2>1. ASSUME NEW i \in 1..Len(t), t[i].type = "block"
        PROVE  (i \in 1..n /\ t[i] = p[i]) \/ (i = n + 1 /\ t[i].tok = tok)
    BY <1>1, <1>4, <2>1
  <2>2. ASSUME NEW i \in 1..Len(t), IsBlock(t, i, {"SH"}) PROVE i = 2
    <3>1. CASE i \in 1..n /\ t[i] = p[i]
      BY <2>2, <3>1 DEF Bare, NestOK, IsBlock, n
    <3>2. CASE i = n + 1 /\ t[i].tok = tok
      <4>1. tok = "SH"
        BY <2>2, <3>2 DEF IsBlock
      <4>2. n = 1
        BY <4>1 DEF Fits, n
      <4> QED BY <3>2, <4>2
    <3> QED BY <2>1, <2>2, <3>1, <3>2 DEF IsBlock
  <2>3. ASSUME NEW i \in 1..Len(t), IsBlock(t, i, {"SS"})
        PROVE  i = 2 \/ (i = 4 /\ IsBlock(t, 2, {"SH"}))
    <3>1. CASE i \in 1..n /\ t[i] = p[i]
      <4>1. i = 2 \/ (i = 4 /\ IsBlock(p, 2, {"SH"}))
        BY <2>3, <3>1 DEF Bare, NestOK, IsBlock, n
      <4> QED BY <1>1, <3>1, <4>1 DEF IsBlock
    <3>2. CASE i = n + 1 /\ t[i].tok = tok
      <4>1. n = 1 \/ (n = 3 /\ IsBlock(p, 2, {"SH"}))
        BY <2>3, <3>2 DEF Fits, IsBlock, n
      <4> QED BY <1>1, <3>2, <4>1 DEF IsBlock
    <3> QED BY <2>1, <2>3, <3>1, <3>2 DEF IsBlock
  <2>4. ASSUME NEW i \in 1..Len(t), NEW j \in 1..Len(t), i < j,
               IsBlock(t, i, pars), IsBlock(t, j, pars)
        PROVE  \E k \in i..j : IsBlock(t, k, blk_exps)
    <3>1. i \in 1..n /\ IsBlock(p, i, pars)
      BY <1>1, <2>1, <2>4 DEF IsBlock
    <3>2. CASE j \in 1..n /\ t[j] = p[j]
      <4>1. IsBlock(p, j, pars)
        BY <2>4, <3>2 DEF IsBlock
      <4>2. PICK k \in i..j : IsBlock(p, k, blk_exps)
        BY <2>4, <3>1, <3>2, <4>1 DEF NestOK, Bare, n
      <4>3. IsBlock(t, k, blk_exps)
        BY <1>1, <3>1, <3>2, <4>2 DEF IsBlock
      <4> QED BY <4>3
    <3>3. CASE j = n + 1 /\ t[j].tok = tok
      <4>1. tok \in pars
        BY <2>4, <3>3 DEF IsBlock
      <4>2. PICK k \in i..n : IsBlock(p, k, blk_exps)
        BY <3>1, <4>1 DEF Fits, n
      <4>3. k \in i..j /\ IsBlock(t, k, blk_exps)
        BY <1>1, <3>1, <3>3, <4>2 DEF IsBlock
      <4> QED BY <4>3
    <3> QED BY <2>1, <2>4, <3>2, <3>3 DEF IsBlock
  <2> QED BY <2>2, <2>3, <2>4 DEF NestOK
<1>7. ~HasFont(t) /\ ~HasCe(t)
  BY <1>1, <1>3, <1>4 DEF HasFont, HasCe, Bare, n
<1>8. HasHead(t) <=> y.type = "head"
  <2>1. n + 2 \in 1..Len(t)
    BY <1>1
  <2> QED BY <1>1, <1>4, <2>1 DEF HasHead, Bare, n
<1> QED BY <1>1, <1>2, <1>5, <1>6, <1>7, <1>8 DEF PathOK

-----------------------------------------------------------------------------
\* Where nothing waits, blocks and bodies alternate.
LEMMA NextNode ==
  ASSUME NEW p, Bare(p), NEW i \in 1..Len(p), NEW j \in 1..Len(p), j = i + 1
  PROVE  /\ p[i].type \in {"root", "body"} => p[j].type = "block"
         /\ p[i].type = "block" => p[j].type = "body"
<1>1. NodeOK(p, i) /\ NodeOK(p, j) /\ i \in Nat /\ j - 1 = i /\ j # 1 /\ p[j] \in NodeRec
  BY SeqElem DEF Bare, PathOK
<1>2. p[j].type \in {"root", "block", "head", "body", "elem"}
  BY <1>1 DEF NodeRec
<1>3. p[j].type # "elem" /\ p[j].type # "head"
  BY LastBare DEF Bare, HasHead
<1> QED BY <1>1, <1>2, <1>3 DEF NodeOK

\* rew_scope() does not close the block i for the macro tok.
IsStop(p, i, tok) ==
  p[i].type = "block" /\
  \/ tok # "SH" /\ p[i].tok = "SH"
  \/ tok \notin {"SH", "SS"} /\ p[i].tok \in blk_exps \cup {"SS"}

\* When nothing is open inside the block where rew_scope() stops, the new block fits: a
\* section is at the top, a subsection at the top or in a section, and a paragraph is not in
\* another one without an RS or UR block between them.
LEMMA RewFits ==
  ASSUME NEW p, Bare(p), NEW tok \in blk_imps \cup {"RS"}, NEW n \in 0..Len(p),
         n # 0 => IsStop(p, n, tok), \A i \in (n + 1)..Len(p) : p[i].type # "block"
  PROVE  Fits(p, tok)
<1>1. Len(p) \in Nat \ {0} /\ 1 \in 1..Len(p) /\ PathOK(p) /\ NestOK(p)
  BY PathIs DEF Bare
<1>2. p[1].type = "root"
  BY <1>1 DEF PathOK, NodeOK
<1>3. ASSUME n = 0 PROVE Len(p) = 1
  <2> SUFFICES ASSUME Len(p) # 1 PROVE FALSE
    OBVIOUS
  <2>1. \A x \in Nat \ {0} : x # 1 => 2 \in 1..x /\ 2 \in (0 + 1)..x
    OBVIOUS
  <2>2. 2 \in 1..Len(p) /\ 2 \in (n + 1)..Len(p)
    BY <1>1, <1>3, <2>1
  <2>3. p[2].type = "block"
    BY <1>1, <1>2, <2>2, NextNode
  <2> QED BY <2>2, <2>3
<1>4. tok = "SH" => Len(p) = 1
  BY <1>3 DEF IsStop
<1>5. ASSUME tok = "SS" PROVE Len(p) = 1 \/ (Len(p) = 3 /\ IsBlock(p, 2, {"SH"}))
  <2>1. CASE n = 0
    BY <1>3, <2>1
  <2>2. CASE n # 0
    <3>1. IsBlock(p, n, {"SH"}) /\ n \in 1..Len(p)
      BY <1>1, <1>5, <2>2 DEF IsStop, IsBlock
    <3>2. n = 2
      BY <1>1, <3>1 DEF NestOK
    <3>3. p[2].type = "block" /\ 2 \in 1..Len(p) /\ NodeOK(p, 2)
      BY <1>1, <3>1, <3>2 DEF IsBlock, PathOK
    <3>4. 3 \in 1..Len(p)
      BY <1>1, <3>3 DEF NodeOK
    <3>5. p[3].type = "body"
      BY <3>3, <3>4, NextNode
    <3>6. Len(p) = 3
      <4>1. ASSUME Len(p) >= 4 PROVE FALSE
        <5>1. 4 \in 1..Len(p) /\ 4 \in (n + 1)..Len(p)
          BY <1>1, <3>2, <4>1
        <5>2. p[4].type = "block"
          BY <3>4, <3>5, <5>1, NextNode
        <5> QED BY <5>1, <5>2
      <4>2. Len(p) >= 3
        BY <3>4
      <4>3. \A x \in Nat : x >= 3 /\ ~(x >= 4) => x = 3
        OBVIOUS
      <4>4. Len(p) \in Nat
        BY <1>1
      <4> QED BY <4>1, <4>2, <4>3, <4>4, Zenon
    <3> QED BY <3>1, <3>2, <3>6
  <2> QED BY <2>1, <2>2
<1>6. ASSUME tok \in pars, NEW i \in 1..Len(p), IsBlock(p, i, pars)
      PROVE  \E k \in i..Len(p) : IsBlock(p, k, blk_exps)
  <2>1. i <= n /\ n # 0 /\ n \in Nat /\ i \in Nat /\ n \in 1..Len(p)
    BY <1>1, <1>6 DEF IsBlock
  <2>2. IsStop(p, n, tok)
    BY <2>1
  <2>3. CASE p[n].tok \in blk_exps
    <3>1. n \in i..Len(p) /\ IsBlock(p, n, blk_exps)
      BY <2>1, <2>2, <2>3 DEF IsStop, IsBlock
    <3> QED BY <3>1
  <2>4. p[i].tok # "SH" /\ p[i].tok # "SS" /\ p[i].type = "block"
    BY <1>6 DEF IsBlock, pars
  <2>5. i # 1
    BY <1>2, <2>4
  <2>6. CASE p[n].tok \in {"SH", "SS"}
    <3>1. i # n
      BY <2>4, <2>6
    <3>2. n = 2 \/ (n = 4 /\ IsBlock(p, 2, {"SH"}))
      BY <1>1, <2>1, <2>2, <2>6 DEF IsStop, IsBlock, NestOK
    <3>3. n = 4 /\ IsBlock(p, 2, {"SH"})
      BY <2>1, <2>5, <3>1, <3>2
    <3>4. i = 3
      BY <2>1, <2>4, <2>5, <3>1, <3>3 DEF IsBlock
    <3>5. 2 \in 1..Len(p) /\ 3 \in 1..Len(p)
      BY <1>1, <2>1, <3>3
    <3>6. p[3].type = "body"
      BY <3>3, <3>5, NextNode DEF IsBlock
    <3> QED BY <2>4, <3>4, <3>5, <3>6
  <2> QED BY <2>2, <2>3, <2>6 DEF IsStop
<1> QED BY <1>4, <1>5, <1>6 DEF Fits

\* An empty node has no sibling before its parse point.
LEMMA NoneIs == None \in Before /\ None.tok = "none"
BY DEF None, Before

\* A node that is closed can be at the parse point.
LEMMA LeafIs == \A tok : Leaf(tok) \in Before
BY DEF Leaf, Seen, Before

\* The chain and the parse point of a state where nothing waits.
Bared(s) == Rec(s) /\ Bare(s.path) /\ s.at \in Before

\* rew_scope() makes room for the block, in whatever blocks the macro is found.
LEMMA RewOK ==
  ASSUME NEW s, Bared(s), NEW tok \in blk_imps \cup {"RS"}, NEW t, t = rew_scope(s, tok)
  PROVE  Bared(t) /\ Fits(t.path, tok) /\ Flags(s, t)
<1> DEFINE p == s.path
           S == Stops(s, tok)
           stop == Max(S \cup {0})
           inner == {i \in (stop + 1)..Depth(s) : s.path[i].type = "block"}
<1>1. Len(p) \in Nat \ {0} /\ Bare(p) /\ PathOK(p) /\ NestOK(p) /\ Depth(s) = Len(p) /\ Rec(s)
  BY PathIs DEF Bared, Bare, Depth
<1>2. S \in SUBSET Nat /\ \A i \in S : i \in 1..Len(p) /\ IsStop(p, i, tok)
  BY <1>1 DEF Stops, IsStop
<1>3. \A i \in 1..Len(p) : IsStop(p, i, tok) => i \in S
  BY <1>1 DEF Stops, IsStop
<1>4. PICK m \in S \cup {0} : \A n \in S \cup {0} : n <= m
  <2>1. S \cup {0} \in SUBSET Nat /\ S \cup {0} # {} /\ Len(p) \in Nat
        /\ \A n \in S \cup {0} : n <= Len(p)
    BY <1>1, <1>2
  <2> HIDE DEF S
  <2> QED BY <2>1, Greatest
<1> HIDE DEF S
<1>5. stop = m /\ m \in 0..Len(p) /\ (m # 0 => IsStop(p, m, tok))
  <2>1. S \cup {0} \in SUBSET Int
    BY <1>2
  <2>2. stop = m
    BY <1>4, <2>1, MaxIs
  <2>3. m \in 0..Len(p)
    BY <1>1, <1>2
  <2>4. m # 0 => IsStop(p, m, tok)
    BY <1>2
  <2> QED BY <2>2, <2>3, <2>4
<1>6. rew_scope(s, tok) = IF (tok = "RS" /\ s.at = None
      /\ Inner(s).tok \in Paragraphs) \/ inner = {} THEN s
                          ELSE man_unscope(s, Min(inner))
  BY DEF rew_scope, S
<1> HIDE DEF stop
<1>7. ASSUME tok = "RS" \/ inner = {}, t = s PROVE Bared(t) /\ Fits(t.path, tok) /\ Flags(s, t)
  <2>1. Flags(s, t) /\ Bared(t)
    BY <1>7 DEF Flags
  <2>2. CASE tok = "RS"
    <3>1. Fits(t.path, tok)
      BY <2>2 DEF Fits, pars, blk_imps
    <3> QED BY <2>1, <3>1
  <2>3. CASE inner = {}
    <3>1. \A i \in (m + 1)..Len(p) : p[i].type # "block"
      BY <1>1, <1>5, <2>3
    <3>2. Fits(p, tok)
      BY <1>1, <1>5, <3>1, RewFits
    <3> QED BY <1>7, <2>1, <3>2
  <2> QED BY <1>7, <2>1, <2>2, <2>3
<1>8. ASSUME inner # {}, t = man_unscope(s, Min(inner)) PROVE Bared(t) /\ Fits(t.path, tok)
      /\ Flags(s, t)
  <2>1. inner \in SUBSET Nat /\ inner \in SUBSET Int
    BY <1>1, <1>5
  <2>2. PICK k \in inner : \A n \in inner : k <= n
    BY <1>8, <2>1, Least
  <2>3. Min(inner) = k
    BY <2>1, <2>2, MinIs
  <2>4. k \in (m + 1)..Len(p) /\ p[k].type = "block"
        /\ \A i \in (m + 1)..(k - 1) : p[i].type # "block"
    <3>1. k \in (m + 1)..Len(p) /\ p[k].type = "block"
      BY <1>1, <1>5
    <3>2. ASSUME NEW i \in (m + 1)..(k - 1), p[i].type = "block" PROVE FALSE
      <4>1. i \in inner /\ ~(k <= i)
        BY <1>1, <1>5, <3>1, <3>2
      <4> QED BY <2>2, <4>1
    <3> QED BY <3>1, <3>2
  <2> HIDE DEF inner
  <2>5. k # 1
    <3>1. 1 \in 1..Len(p) /\ NodeOK(p, 1)
      BY <1>1 DEF PathOK
    <3> QED BY <2>4, <3>1 DEF NodeOK
  <2>6. k \in 2..Len(p) /\ ~(k < 2 \/ k > Depth(s)) /\ k - 1 \in 1..Len(p) /\ k \in Nat
    BY <1>1, <1>5, <2>4, <2>5
  <2>7. Rec(t) /\ t.path = SubSeq(p, 1, k - 1) /\ t.at = Leaf(p[k].tok) /\ Flags(s, t)
    BY <1>1, <1>8, <2>3, <2>6, UnscopeIs
  <2>8. Bare(t.path)
    BY <1>1, <2>4, <2>6, <2>7, CutBlock
  <2>9. Bared(t)
    BY <2>7, <2>8, LeafIs DEF Bared
  <2>10. Len(t.path) = k - 1 /\ \A i \in 1..(k - 1) : t.path[i] = p[i]
    BY <1>1, <2>6, <2>7, CutIs
  <2>11. m \in 0..Len(t.path) /\ (m # 0 => IsStop(t.path, m, tok))
    BY <1>1, <1>5, <2>4, <2>6, <2>10 DEF IsStop
  <2>12. ASSUME NEW i \in (m + 1)..Len(t.path) PROVE t.path[i].type # "block"
    <3>1. i \in (m + 1)..(k - 1) /\ i \in 1..(k - 1)
      BY <1>5, <2>10
    <3> QED BY <2>4, <2>10, <3>1
  <2>13. Fits(t.path, tok)
    BY <2>8, <2>11, <2>12, RewFits
  <2> QED BY <2>7, <2>9, <2>13
<1> QED BY <1>6, <1>7, <1>8

-----------------------------------------------------------------------------
\* x is a new node; font macros remember what was before them.
IsNode(tok, type, a, x) ==
  x \in NodeRec /\ x.tok = tok /\ x.type = type /\ (tok = "B" => x.prev = a)

\* roff_node_alloc() makes a node of its macro and type.
LEMMA NodeIs ==
  ASSUME NEW tok \in Macros \cup {"root", "ce"}, NEW type \in {"root", "block", "head", "body",
         "elem"},
         NEW a \in Before, NEW x, x = Node(tok, type, a)
  PROVE  IsNode(tok, type, a, x)
<1>1. None \in Before
  BY DEF None, Before
<1> DEFINE b == IF tok \in MAN_ESCOPED \/ (tok \in MAN_BSCOPED /\ type = "block") THEN a ELSE None
<1>2. b \in Before
  BY <1>1
<1>3. tok = "B" => b = a
  BY DEF MAN_ESCOPED
<1>4. x = [tok |-> tok, type |-> type, aux |-> FALSE, prev |-> b]
  BY DEF Node
<1> HIDE DEF b
<1> QED BY <1>2, <1>3, <1>4 DEF NodeRec, IsNode

\* Forgetting what was before a block that can no longer be deleted changes nothing else.
LEMMA PrevNone ==
  ASSUME NEW x \in NodeRec, NEW y, y = [x EXCEPT !.prev = None]
  PROVE  y \in NodeRec /\ y.tok = x.tok /\ y.type = x.type
<1>1. None \in Before
  BY DEF None, Before
<1> HIDE DEF None
<1> QED BY <1>1 DEF NodeRec

\* t is s with its head closed and the body started, and with the flags of the head reset.
Bodied(s, t) ==
  LET p == s.path
      q == t.path
      n == Len(s.path)
  IN /\ Rec(t) /\ q \in Seq(NodeRec) /\ Len(q) = n
     /\ q[n].tok = p[n].tok /\ q[n].type = "body"
     /\ q[n - 1].tok = p[n - 1].tok /\ q[n - 1].type = p[n - 1].type
     /\ \A m \in 1..(n - 2) : q[m] = p[m]
     /\ t.at = None /\ t.bline = FALSE /\ t.nonofill = FALSE
     /\ t.eline = s.eline /\ t.ce = s.ce /\ t.fault = s.fault

\* Starting the body of the head that is innermost resets MAN_BLINE and ROFF_NONOFILL.
LEMMA OpenBodyIs ==
  ASSUME NEW s, Rec(s), s.path \in Seq(NodeRec), NEW n, n = Len(s.path), n > 1,
         s.path[n].type = "head", NEW t, t = OpenBody(s, n)
  PROVE  Bodied(s, t)
<1> DEFINE p == s.path
           u == man_unscope(s, n)
           v == Open(u, p[n].tok, "body")
           x == Node(p[n].tok, "body", u.at)
           y == [v.path[n - 1] EXCEPT !.prev = None]
           q == [v.path EXCEPT ![n - 1] = y]
<1>1. n \in Nat /\ n \in 1..Len(p) /\ n - 1 \in 1..Len(p) /\ p[n] \in NodeRec /\ n - 1 \in 0..Len(p)
      /\ p \in Seq(NodeRec) /\ Len(p) = n
  BY SeqElem
<1>2. Rec(u) /\ u.path = SubSeq(p, 1, n - 1) /\ u.at = Leaf(p[n].tok) /\ Flags(s, u)
  <2>1. ~(n < 2 \/ n > Depth(s))
    BY <1>1 DEF Depth
  <2> HIDE DEF u
  <2> QED BY <2>1, UnscopeIs DEF u
<1>3. Rec(v) /\ v.path = Append(u.path, x) /\ v.at = None /\ Flags(u, v)
  <2> HIDE DEF u, v
  <2> QED BY <1>2, OpenIs DEF v
<1>4. t = [v EXCEPT !.path[n - 1].prev = None, !.bline = FALSE, !.nonofill = FALSE]
  BY DEF OpenBody
<1>5. p[n].tok \in Macros \cup {"root", "ce"}
  BY <1>1 DEF NodeRec
<1>6. x \in NodeRec /\ x.tok = p[n].tok /\ x.type = "body"
  <2>1. u.at \in Before
    BY <1>2, LeafIs
  <2> HIDE DEF u, v, x
  <2>2. IsNode(p[n].tok, "body", u.at, x)
    BY <1>5, <2>1, NodeIs DEF x
  <2> QED BY <2>2 DEF IsNode
<1> HIDE DEF u, v, x
<1>7. u.path \in Seq(NodeRec) /\ Len(u.path) = n - 1 /\ \A m \in 1..(n - 1) : u.path[m] = p[m]
  <2>1. Prefix(NodeRec, p, n - 1, u.path)
    BY <1>1, <1>2, Cut
  <2> QED BY <2>1 DEF Prefix
<1>8. v.path \in Seq(NodeRec) /\ Len(v.path) = n /\ v.path[n] = x
      /\ \A m \in 1..(n - 1) : v.path[m] = p[m]
  <2>1. Plus(NodeRec, u.path, x, v.path)
    BY <1>3, <1>6, <1>7, Appended
  <2>2. (n - 1) + 1 = n
    BY <1>1
  <2> QED BY <1>7, <2>1, <2>2 DEF Plus
<1>9. y \in NodeRec /\ y.tok = p[n - 1].tok /\ y.type = p[n - 1].type
  <2>1. v.path[n - 1] \in NodeRec /\ v.path[n - 1] = p[n - 1]
    BY <1>1, <1>8, SeqElem
  <2> QED BY <2>1, PrevNone
<1>10. q \in Seq(NodeRec) /\ Len(q) = n /\ \A m \in 1..n : q[m] = IF m = n - 1 THEN y ELSE v.path[m]
  <2> HIDE DEF y, q
  <2>1. Put(NodeRec, v.path, n - 1, y, q)
    BY <1>1, <1>8, <1>9, Replaced DEF q
  <2> QED BY <1>8, <2>1 DEF Put
<1>11. t.path = q
  BY <1>3, <1>4 DEF Rec
<1>12. Rec(t) /\ t.at = None /\ t.bline = FALSE /\ t.nonofill = FALSE /\ t.eline = s.eline
       /\ t.ce = s.ce /\ t.fault = s.fault
  <2>1. t = [[v EXCEPT !.path = q] EXCEPT !.bline = FALSE, !.nonofill = FALSE]
    BY <1>3, <1>4 DEF Rec
  <2> HIDE DEF q
  <2> QED BY <1>2, <1>3, <2>1 DEF Rec, Flags
<1> HIDE DEF q, y
<1>13. /\ q[n].tok = p[n].tok /\ q[n].type = "body"
       /\ q[n - 1].tok = p[n - 1].tok /\ q[n - 1].type = p[n - 1].type
       /\ \A m \in 1..(n - 2) : q[m] = p[m]
  <2>1. q[n] = x /\ q[n - 1] = y
    BY <1>1, <1>8, <1>10
  <2>2. ASSUME NEW m \in 1..(n - 2) PROVE q[m] = p[m]
    <3>1. m \in 1..n /\ m \in 1..(n - 1) /\ m # n - 1
      BY <1>1
    <3> QED BY <1>8, <1>10, <3>1
  <2> QED BY <1>6, <1>9, <2>1, <2>2
<1> QED BY <1>10, <1>11, <1>12, <1>13 DEF Bodied

\* After that, nothing waits.
LEMMA BodyBare ==
  ASSUME NEW s, PathOK(s.path), NestOK(s.path), HasHead(s.path), ~HasFont(s.path),
         NEW t, Bodied(s, t)
  PROVE  Bare(t.path)
<1> DEFINE p == s.path
           q == t.path
           n == Len(p)
<1>1. /\ p[n].type = "head" /\ n > 2 /\ p[n - 1].type = "block"
      /\ p[n].tok \in MAN_BSCOPED /\ p[n - 1].tok = p[n].tok
      /\ \A i \in 1..(n - 1) : p[i].type # "head"
  BY HeadLast
<1>2. n \in Nat
  BY PathIs
<1>3. /\ q \in Seq(NodeRec) /\ Len(q) = n /\ q[n].tok = p[n].tok /\ q[n].type = "body"
      /\ q[n - 1].tok = p[n - 1].tok /\ q[n - 1].type = p[n - 1].type
      /\ \A m \in 1..(n - 2) : q[m] = p[m]
  BY DEF Bodied
<1> HIDE DEF n, q
<1>4. ASSUME NEW i \in 1..n PROVE q[i].tok = p[i].tok /\ (i # n => q[i].type = p[i].type)
  <2>1. i = n \/ i = n - 1 \/ i \in 1..(n - 2)
    BY <1>2
  <2> QED BY <1>3, <2>1
<1>5. ASSUME NEW i \in 1..n PROVE p[i].tok # "B" /\ p[i].tok # "ce"
  <2>1. NodeOK(p, i)
    BY DEF PathOK, n
  <2>2. p[i].tok # "B"
    BY DEF HasFont, n
  <2>3. i = n => p[i].tok # "ce"
    BY <1>1 DEF MAN_BSCOPED
  <2>4. i # n => p[i].tok # "ce"
    BY <2>1 DEF NodeOK, n
  <2> QED BY <2>2, <2>3, <2>4
<1>6. q # <<>>
  BY <1>1, <1>2, <1>3, HasLen
<1>7. ASSUME NEW i \in 1..n PROVE NodeOK(q, i)
  <2>1. NodeOK(p, i) /\ i \in Nat
    BY <1>2 DEF PathOK, n
  <2>2. CASE i = n
    <3>1. i - 1 \in 1..n /\ i - 1 # n /\ i > 1
      BY <1>1, <1>2, <2>2
    <3> QED BY <1>1, <1>3, <1>5, <2>2, <3>1 DEF NodeOK
  <2>3. CASE i # n
    <3>1. q[i].tok = p[i].tok /\ q[i].type = p[i].type /\ q[i].type # "head"
          /\ q[i].tok # "B" /\ q[i].tok # "ce"
      <4>1. i \in 1..(n - 1)
        BY <1>2, <2>3
      <4> QED BY <1>1, <1>4, <1>5, <2>3, <4>1
    <3>2. i > 1 => q[i - 1].tok = p[i - 1].tok /\ q[i - 1].type = p[i - 1].type
      <4>1. i > 1 => i - 1 \in 1..n /\ i - 1 # n
        BY <1>2
      <4> QED BY <1>4, <4>1
    <3>3. i + 1 \in 1..n /\ (q[i + 1].type = p[i + 1].type \/ q[i + 1].type = "body")
      <4>1. i + 1 \in 1..n
        BY <1>2, <2>3
      <4> QED BY <1>3, <1>4, <4>1
    <3>4. q[i].type = "root" => i = 1
      BY <2>1, <3>1 DEF NodeOK
    <3>5. i = 1 => q[i].type = "root"
      BY <2>1, <3>1 DEF NodeOK
    <3>6. q[i].type = "block" =>
             /\ i > 1 /\ q[i - 1].type \in {"root", "body"}
             /\ i < Len(q) /\ q[i + 1].type \in {"head", "body"}
             /\ q[i].tok \in blk_imps \cup blk_exps
      BY <1>2, <1>3, <2>1, <3>1, <3>2, <3>3 DEF NodeOK
    <3>7. q[i].type \in {"head", "body"} =>
             i > 1 /\ q[i - 1].type = "block" /\ q[i - 1].tok = q[i].tok
      BY <2>1, <3>1, <3>2 DEF NodeOK
    <3>8. q[i].type # "elem"
      BY <2>1, <3>1 DEF NodeOK
    <3> QED BY <3>1, <3>4, <3>5, <3>6, <3>7, <3>8 DEF NodeOK
  <2> QED BY <2>2, <2>3
<1>8. PathOK(q)
  BY <1>3, <1>6, <1>7 DEF PathOK
<1>9. ASSUME NEW i \in 1..n, NEW S PROVE IsBlock(q, i, S) <=> IsBlock(p, i, S)
  BY <1>1, <1>3, <1>4 DEF IsBlock
<1>10. NestOK(q)
  <2>1. ASSUME NEW i \in 1..n, IsBlock(q, i, {"SH"}) PROVE i = 2
    BY <1>9, <2>1 DEF NestOK, n
  <2>2. ASSUME NEW i \in 1..n, IsBlock(q, i, {"SS"})
        PROVE  i = 2 \/ (i = 4 /\ IsBlock(q, 2, {"SH"}))
    <3>1. i = 2 \/ (i = 4 /\ IsBlock(p, 2, {"SH"}))
      BY <1>9, <2>2 DEF NestOK, n
    <3>2. 2 \in 1..n
      BY <1>1, <1>2
    <3> QED BY <1>9, <3>1, <3>2
  <2>3. ASSUME NEW i \in 1..n, NEW j \in 1..n, i < j, IsBlock(q, i, pars), IsBlock(q, j, pars)
        PROVE  \E k \in i..j : IsBlock(q, k, blk_exps)
    <3>1. PICK k \in i..j : IsBlock(p, k, blk_exps)
      BY <1>9, <2>3 DEF NestOK, n
    <3>2. k \in 1..n
      BY <1>2
    <3> QED BY <1>9, <3>1, <3>2
  <2> QED BY <1>3, <2>1, <2>2, <2>3 DEF NestOK
<1>11. ~HasHead(q) /\ ~HasFont(q) /\ ~HasCe(q)
  <2>1. ASSUME NEW i \in 1..n PROVE q[i].type # "head" /\ q[i].tok # "B" /\ q[i].tok # "ce"
    <3>1. i = n \/ i \in 1..(n - 1)
      BY <1>2
    <3> QED BY <1>1, <1>3, <1>4, <1>5, <3>1
  <2> QED BY <1>3, <2>1 DEF HasHead, HasFont, HasCe
<1> QED BY <1>8, <1>10, <1>11 DEF Bare, q

-----------------------------------------------------------------------------
\* Without a head, ROFF_NONOFILL can only be set in a table.
Calm(nonofill) == nonofill \in BOOLEAN /\ (nonofill => tbl # "none")

\* No next-line scope and no ce mode: what handlers of high-level macros find.
Clean(s) ==
  /\ Bared(s) /\ s.bline = FALSE /\ s.eline = FALSE /\ Calm(s.nonofill)
  /\ s.ce = -1 /\ s.fault = FALSE

\* No head, no table: the flag is off.
LEMMA CalmOff == Calm(FALSE)
BY DEF Calm

\* Without anything waiting, all flags are off.
LEMMA BareFlags ==
  ASSUME NEW p, Bare(p), NEW nonofill, Calm(nonofill)
  PROVE  FlagsOK(p, FALSE, FALSE, nonofill, -1, FALSE)
<1>1. -1 \in Int
  OBVIOUS
<1> QED BY <1>1, Zenon DEF FlagsOK, Bare, Calm, NoFillOK

\* Without anything waiting, any node may be at the parse point.
LEMMA BareAt ==
  ASSUME NEW p, Bare(p), NEW a \in Before
  PROVE  AtOK(p, a)
BY DEF AtOK, Bare

\* A state where nothing waits is one the parser can be in.
LEMMA CleanGood ==
  ASSUME NEW s, Clean(s)
  PROVE  Good(s)
<1>1. Rec(s) /\ Bare(s.path) /\ s.at \in Before
  BY DEF Clean, Bared
<1>2. FlagsOK(s.path, FALSE, FALSE, s.nonofill, -1, FALSE)
  BY <1>1, BareFlags DEF Clean
<1>3. FlagsOK(s.path, s.bline, s.eline, s.nonofill, s.ce, s.fault)
  BY <1>2 DEF Clean
<1>4. AtOK(s.path, s.at)
  BY <1>1, BareAt
<1> QED BY <1>1, <1>3, <1>4 DEF Good, Bare

\* And when neither heads nor elements are open, nothing waits.
LEMMA GoodClean ==
  ASSUME NEW s, Good(s), ~HasHead(s.path), ~HasFont(s.path), ~HasCe(s.path)
  PROVE  Clean(s)
<1>1. s.bline = FALSE /\ s.eline = FALSE /\ Calm(s.nonofill)
  BY Zenon DEF Good, FlagsOK, NoFillOK, Calm
<1>2. s.ce = -1 /\ s.fault = FALSE
  BY DEF Good, FlagsOK
<1>3. Rec(s) /\ Bare(s.path) /\ s.at \in Before
  BY DEF Good, Bare, AtOK
<1> QED BY <1>1, <1>2, <1>3 DEF Clean, Bared

\* The parts of the invariant.
LEMMA GoodIs ==
  ASSUME NEW s, Good(s)
  PROVE  /\ Rec(s) /\ PathOK(s.path) /\ NestOK(s.path) /\ s.at \in Before
         /\ (s.bline \/ s.bline = FALSE) /\ (s.bline <=> HasHead(s.path))
         /\ (s.eline \/ s.eline = FALSE) /\ (s.eline <=> HasFont(s.path))
         /\ (s.ce = -1 <=> ~HasCe(s.path))
BY Zenon DEF Good, FlagsOK, AtOK

\* Moving the parse point alone keeps the invariant, if a legal node is there.
LEMMA Kept ==
  ASSUME NEW s, Good(s), NEW t, Rec(t), t.path = s.path, AtOK(s.path, t.at), Flags(s, t)
  PROVE  Good(t)
BY DEF Good, Flags

\* Leaving ce mode keeps the invariant and the next-line scopes.
LEMMA EndCeOK ==
  ASSUME NEW s, Good(s), NEW t, t = EndCe(s)
  PROVE  Good(t) /\ t.ce = -1 /\ t.bline = s.bline /\ t.eline = s.eline
<1>1. CASE s.ce = -1
  BY <1>1 DEF EndCe
<1>2. CASE s.ce # -1
  <2>1. Rec(s) /\ PathOK(s.path) /\ NestOK(s.path) /\ HasCe(s.path)
    BY <1>2, GoodIs
  <2>2. Inner(s).tok = "ce" /\ Len(s.path) \in 2..Len(s.path) /\ ~HasHead(s.path)
        /\ ~HasFont(s.path)
    BY <2>1, CeLast DEF Inner, Depth
  <2> DEFINE u == man_unscope(s, Depth(s))
  <2>3. t = [u EXCEPT !.ce = -1]
    BY <1>2, <2>2 DEF EndCe
  <2>4. Rec(u) /\ u.path = SubSeq(s.path, 1, Depth(s) - 1)
        /\ u.at = Leaf(s.path[Depth(s)].tok) /\ Flags(s, u)
    <3>1. ~(Depth(s) < 2 \/ Depth(s) > Depth(s))
      BY <2>1, <2>2, PathIs DEF Depth
    <3> HIDE DEF u
    <3> QED BY <2>1, <3>1, UnscopeIs DEF u
  <2> HIDE DEF u
  <2>5. Rec(t) /\ t.path = u.path /\ t.at = u.at /\ t.ce = -1 /\ t.bline = s.bline
        /\ t.eline = s.eline
        /\ t.nonofill = s.nonofill /\ t.fault = s.fault
    BY <2>3, <2>4 DEF Rec, Flags
  <2>6. Bare(t.path)
    BY <2>1, <2>4, <2>5, CutCe DEF Depth
  <2>7. s.bline = FALSE /\ s.eline = FALSE /\ Calm(s.nonofill) /\ s.fault = FALSE
    BY <2>2, Zenon DEF Good, FlagsOK, NoFillOK, Calm
  <2>8. t.at \in Before
    BY <2>4, <2>5, LeafIs
  <2>9. Clean(t)
    BY <2>5, <2>6, <2>7, <2>8 DEF Clean, Bared
  <2> QED BY <2>5, <2>9, CleanGood
<1> QED BY <1>1, <1>2

\* The first half of man_breakscope() keeps the invariant: it finds the font macro to
\* delete at the parse point and not a node that cannot be in its scope.
LEMMA BreakElementOK ==
  ASSUME NEW s, Good(s), NEW tok, NEW t, t = BreakElement(s, tok)
  PROVE  Good(t) /\ t.ce = s.ce /\ (tok \notin MAN_NSCOPED => t.eline = FALSE)
         /\ t.nonofill = s.nonofill
<1>1. /\ Rec(s) /\ PathOK(s.path) /\ NestOK(s.path) /\ (s.eline \/ s.eline = FALSE)
      /\ (s.eline <=> HasFont(s.path))
  BY GoodIs, Zenon
<1>2. CASE s.eline = FALSE \/ tok \in MAN_NSCOPED
  BY <1>2 DEF BreakElement
<1>3. CASE s.eline /\ tok \notin MAN_NSCOPED
  <2> DEFINE p == s.path
             n == Len(p)
             up == {j \in 2..n : \A k \in j..n : p[k].type = "elem" /\ p[k].tok \in MAN_ESCOPED}
  <2>1. HasFont(p)
    BY <1>1, <1>3
  <2>2. PICK f \in 2..n : FontsFrom(p, f)
    BY <1>1, <2>1, Fonts
  <2>3. n \in Nat /\ f \in Nat /\ n \in 1..n
    BY <1>1, PathIs
  <2>4. s.at.tok \in {"none", "request"}
    BY <2>1 DEF Good, AtOK
  <2>5. (IF s.at = None THEN Depth(s) ELSE Parent(s)) = n
    BY DEF Depth, Parent
  <2>6. \A k \in f..n : p[k].type = "elem" /\ p[k].tok \in MAN_ESCOPED
    <3>1. ASSUME NEW k \in f..n PROVE p[k].type = "elem" /\ p[k].tok \in MAN_ESCOPED
      <4>1. k \in 1..n /\ p[k].tok = "B" /\ NodeOK(p, k)
        BY <1>1, <2>2, <2>3 DEF FontsFrom, PathOK
      <4> QED BY <4>1 DEF NodeOK, MAN_ESCOPED
    <3> QED BY <3>1
  <2>7. up \cup {n} \in SUBSET Int /\ f \in up /\ \A j \in up \cup {n} : f <= j
    <3>1. f \in up
      BY <2>6
    <3>2. ASSUME NEW j \in up PROVE f <= j
      <4>1. j \in 2..n /\ j \in j..n /\ p[j].tok = "B"
        BY <2>3 DEF MAN_ESCOPED
      <4>2. j \in 1..(f - 1) => FALSE
        BY <2>2, <4>1 DEF FontsFrom
      <4> QED BY <2>3, <4>1, <4>2
    <3> QED BY <2>3, <3>1, <3>2
  <2>8. Min(up \cup {n}) = f
    <3> HIDE DEF up
    <3> QED BY <2>7, MinIs
  <2> DEFINE u == roff_node_delete(s, f)
  <2>9. t = [u EXCEPT !.eline = FALSE]
    BY <1>3, <2>4, <2>5, <2>8 DEF BreakElement
  <2> HIDE DEF u, up
  <2>10. Rec(u) /\ u.path = SubSeq(p, 1, f - 1) /\ u.at = p[f].prev /\ Flags(s, u)
    <3>1. ~(f <= 1)
      BY <2>3
    <3> QED BY <1>1, <3>1, DeleteIs DEF u
  <2>11. Rec(t) /\ t.path = u.path /\ t.at = u.at /\ t.ce = s.ce /\ t.bline = s.bline
         /\ t.eline = FALSE
         /\ t.nonofill = s.nonofill /\ t.fault = s.fault
    BY <2>9, <2>10 DEF Rec, Flags
  <2>12. /\ PathOK(t.path) /\ NestOK(t.path) /\ ~HasFont(t.path) /\ ~HasCe(t.path) /\ ~HasCe(p)
         /\ (HasHead(t.path) <=> HasHead(p))
    <3>1. Unfonted(p, t.path)
      BY <1>1, <2>2, <2>10, <2>11, CutFonts
    <3> QED BY <3>1 DEF Unfonted
  <2>13. AtOK(t.path, t.at)
    <3>1. f \in 1..n /\ p[f].tok = "B" /\ p[f] \in NodeRec
      <4>1. f \in 1..n /\ f \in f..n
        BY <2>3
      <4> QED BY <1>1, <2>2, <4>1, SeqElem DEF FontsFrom, PathOK
    <3>2. t.at \in Before
      BY <2>10, <2>11, <3>1 DEF NodeRec
    <3>3. HasHead(p) => p[f].prev.tok \notin Far
      BY <3>1 DEF Good, AtOK
    <3>4. \A i \in 1..Len(t.path) : t.path[i].tok # "B"
      BY <2>12 DEF HasFont
    <3> QED BY <2>10, <2>11, <2>12, <3>2, <3>3, <3>4 DEF AtOK
  <2>14. FlagsOK(t.path, t.bline, t.eline, t.nonofill, t.ce, t.fault)
    <3>1. FlagsOK(p, s.bline, s.eline, s.nonofill, s.ce, s.fault)
      BY DEF Good
    <3>2. FlagsOK(t.path, s.bline, FALSE, s.nonofill, s.ce, s.fault)
      BY <2>12, <3>1, Zenon DEF FlagsOK, NoFillOK
    <3> QED BY <2>11, <3>2
  <2> QED BY <2>11, <2>12, <2>13, <2>14 DEF Good
<1> QED BY <1>1, <1>2, <1>3

\* The line that a head was waiting for starts the body.
LEMMA OpenHead ==
  ASSUME NEW s, Good(s), s.bline, s.eline = FALSE, NEW n, n = Len(s.path), NEW t, t = OpenBody(s, n)
  PROVE  Clean(t) /\ t.ce = s.ce /\ t.nonofill = FALSE
<1>1. Rec(s) /\ PathOK(s.path) /\ NestOK(s.path) /\ HasHead(s.path) /\ ~HasFont(s.path)
  BY GoodIs, Zenon
<1>2. s.path[n].type = "head" /\ n > 1 /\ s.path \in Seq(NodeRec)
  BY <1>1, HeadLast, PathIs
<1>3. Bodied(s, t)
  BY <1>1, <1>2, OpenBodyIs
<1>4. Bare(t.path)
  BY <1>1, <1>3, BodyBare
<1>5. s.ce = -1
  BY <1>1, CeLast, GoodIs
<1>6. s.fault = FALSE
  BY DEF Good, FlagsOK
<1>7. Rec(t) /\ t.at = None /\ t.bline = FALSE /\ t.nonofill = FALSE /\ t.eline = s.eline
      /\ t.ce = s.ce /\ t.fault = s.fault
  BY <1>3 DEF Bodied
<1>8. t.at \in Before
  BY <1>7 DEF None, Before
<1> QED BY <1>4, <1>5, <1>6, <1>7, <1>8, CalmOff DEF Clean, Bared

\* ROFF_NONOFILL is as before or clear.
NotSet(s, t) == t.nonofill \in {s.nonofill, FALSE}

\* Switching the fill mode closes a section header that waits.
LEMMA BreakHeaderOK ==
  ASSUME NEW s, Good(s), NEW tok, tok \in {"nf", "fi"} => s.eline = FALSE, NEW t,
         t = BreakHeader(s, tok)
  PROVE  Good(t) /\ t.ce = s.ce /\ t.eline = s.eline
         /\ NotSet(s, t)
<1>1. CASE ~(s.bline /\ tok \in {"nf", "fi"} /\ man_last(s) = "SH")
  BY <1>1 DEF BreakHeader, NotSet
<1>2. CASE s.bline /\ tok \in {"nf", "fi"} /\ man_last(s) = "SH"
  <2>1. t = OpenBody(s, Len(s.path))
    BY <1>2 DEF BreakHeader, Depth
  <2>2. Clean(t) /\ t.ce = s.ce /\ t.nonofill = FALSE
    BY <1>2, <2>1, OpenHead
  <2>3. t.eline = FALSE
    BY <2>2 DEF Clean
  <2> QED BY <1>2, <2>2, <2>3, CleanGood DEF NotSet
<1> QED BY <1>1, <1>2

\* Macros and requests that end heads, according to man_breakscope().
Ends(tok) == tok \notin {"nf", "fi"} /\ (tok \in MAN_XSCOPE \/ tok \notin Macros)

\* They end font macros, too.
LEMMA EndsIs ==
  ASSUME NEW tok, Ends(tok)
  PROVE  tok \notin MAN_NSCOPED
BY DEF Ends, MAN_XSCOPE, MAN_NSCOPED, Macros, Elements

\* The second half of man_breakscope() keeps the invariant: when the elements are gone, the
\* head is where it is expected, and with its block MAN_BLINE and ROFF_NONOFILL go.
LEMMA BreakBlockOK ==
  ASSUME NEW s, Good(s), NEW tok, tok \notin MAN_NSCOPED => s.eline = FALSE, NEW t,
         t = BreakBlock(s, tok)
  PROVE  Good(t) /\ t.ce = s.ce /\ t.eline = s.eline /\ (Ends(tok) => t.bline = FALSE)
<1>1. CASE s.bline = FALSE
  BY <1>1 DEF BreakBlock
<1>2. CASE ~Ends(tok)
  <2>1. t = s
    BY <1>2 DEF BreakBlock, Ends
  <2> QED BY <1>2, <2>1
<1>3. CASE s.bline /\ Ends(tok)
  <2> DEFINE p == s.path
             n == Len(p)
  <2>1. s.eline = FALSE
    BY <1>3, EndsIs
  <2>2. Rec(s) /\ PathOK(p) /\ NestOK(p) /\ HasHead(p) /\ ~HasFont(p)
    BY <1>3, <2>1, GoodIs, Zenon
  <2>3. p[n].type = "head" /\ n > 2 /\ p[n].tok \in MAN_BSCOPED /\ n \in Nat
    BY <2>2, HeadLast, PathIs
  <2>4. (IF s.at = None /\ Inner(s).tok \in MAN_XSCOPE THEN Depth(s) ELSE Parent(s)) = n
    <3>1. p[n].tok \in MAN_XSCOPE
      BY <2>3 DEF MAN_BSCOPED, MAN_XSCOPE, Macros, blk_imps
    <3> QED BY <3>1 DEF Inner, Depth, Parent
  <2>5. s.at.tok \notin {"SH", "PP", "block"}
    BY <2>2 DEF Good, AtOK, Far
  <2> DEFINE u == roff_node_delete(s, n - 1)
  <2>6. t = [u EXCEPT !.bline = FALSE, !.nonofill = FALSE]
    <3>1. ~(~s.bline \/ tok \in {"nf", "fi"} \/ (tok \in Macros /\ tok \notin MAN_XSCOPE))
      BY <1>3, Zenon DEF Ends
    <3>2. ~(n < 3)
      BY <2>3
    <3> HIDE DEF u
    <3> QED BY <2>3, <2>4, <2>5, <3>1, <3>2 DEF BreakBlock, u
  <2> HIDE DEF u
  <2>7. Rec(u) /\ u.path = SubSeq(p, 1, (n - 1) - 1) /\ u.at = p[n - 1].prev /\ Flags(s, u)
    <3>1. ~(n - 1 <= 1)
      BY <2>3
    <3> QED BY <2>2, <3>1, DeleteIs DEF u
  <2>8. Rec(t) /\ t.path = u.path /\ t.at = u.at /\ t.ce = s.ce /\ t.bline = FALSE
        /\ t.eline = s.eline
         /\ t.nonofill = FALSE /\ t.fault = s.fault
    BY <2>6, <2>7 DEF Rec, Flags
  <2>9. Bare(t.path)
    BY <2>2, <2>7, <2>8, CutHead
  <2>10. s.ce = -1
    BY <2>2, CeLast, GoodIs
  <2>11. s.fault = FALSE
    BY DEF Good, FlagsOK
  <2>12. t.at \in Before
    <3>1. p[n - 1] \in NodeRec
      <4>1. n - 1 \in 1..n
        BY <2>3
      <4> QED BY <2>2, <4>1, SeqElem, PathIs
    <3> QED BY <2>7, <2>8, <3>1 DEF NodeRec
  <2>13. Clean(t)
    BY <2>1, <2>8, <2>9, <2>10, <2>11, <2>12, CalmOff DEF Clean, Bared
  <2> QED BY <2>8, <2>13, CleanGood
<1>4. s.bline \/ s.bline = FALSE
  BY GoodIs
<1> QED BY <1>1, <1>2, <1>3, <1>4

\* Deleting the block clears ROFF_NONOFILL and nothing else in the second half changes it.
LEMMA BreakBlockOff ==
  ASSUME NEW s, Rec(s), NEW tok, NEW t, t = BreakBlock(s, tok)
  PROVE  NotSet(s, t)
<1> DEFINE i == IF s.at = None /\ Inner(s).tok \in MAN_XSCOPE THEN Depth(s) ELSE Parent(s)
           u == roff_node_delete(s, i - 1)
<1>1. t = s \/ t = Fault(s) \/ t = [u EXCEPT !.bline = FALSE, !.nonofill = FALSE]
  <2> HIDE DEF u
  <2> QED BY DEF BreakBlock, u
<1>2. /\ Fault(s).nonofill = s.nonofill
      /\ [Fault(s) EXCEPT !.bline = FALSE, !.nonofill = FALSE].nonofill = FALSE
  BY DEF Fault, Rec
<1> HIDE DEF i
<1>3. [u EXCEPT !.bline = FALSE, !.nonofill = FALSE].nonofill = FALSE
  <2>1. CASE i - 1 <= 1
    <3>1. u = Fault(s)
      BY <2>1 DEF roff_node_delete
    <3> QED BY <1>2, <3>1
  <2>2. CASE ~(i - 1 <= 1)
    <3> HIDE DEF u
    <3>1. Rec(u)
      BY <2>2, DeleteIs DEF u
    <3> QED BY <3>1 DEF Rec
  <2> QED BY <2>1, <2>2
<1> QED BY <1>1, <1>2, <1>3 DEF NotSet

\* man_breakscope() keeps the invariant and ends the scopes that it must end.
LEMMA BreakscopeOK ==
  ASSUME NEW s, Good(s), NEW tok, NEW t, t = man_breakscope(s, tok)
  PROVE  Good(t) /\ t.ce = s.ce /\ (tok \notin MAN_NSCOPED => t.eline = FALSE)
         /\ (Ends(tok) => t.bline = FALSE)
<1> DEFINE u == BreakElement(s, tok)
           v == BreakHeader(u, tok)
<1>1. Good(u) /\ u.ce = s.ce /\ (tok \notin MAN_NSCOPED => u.eline = FALSE)
  <2> HIDE DEF u
  <2> QED BY BreakElementOK DEF u
<1>2. tok \in {"nf", "fi"} => tok \notin MAN_NSCOPED
  BY DEF MAN_NSCOPED
<1>3. Good(v) /\ v.ce = u.ce /\ v.eline = u.eline
  <2> HIDE DEF u, v
  <2> QED BY <1>1, <1>2, BreakHeaderOK DEF v
<1>4. t = BreakBlock(v, tok)
  BY DEF man_breakscope
<1> HIDE DEF u, v
<1>5. Good(t) /\ t.ce = v.ce /\ t.eline = v.eline /\ (Ends(tok) => t.bline = FALSE)
  <2>1. tok \notin MAN_NSCOPED => v.eline = FALSE
    BY <1>1, <1>3
  <2> QED BY <1>3, <1>4, <2>1, BreakBlockOK
<1> QED BY <1>1, <1>3, <1>5

\* man_breakscope() never sets ROFF_NONOFILL.
LEMMA BreakscopeOff ==
  ASSUME NEW s, Good(s), s.nonofill = FALSE, NEW tok, NEW t, t = man_breakscope(s, tok)
  PROVE  t.nonofill = FALSE
<1> DEFINE u == BreakElement(s, tok)
           v == BreakHeader(u, tok)
<1>1. Good(u) /\ (tok \notin MAN_NSCOPED => u.eline = FALSE) /\ u.nonofill = s.nonofill
  <2> HIDE DEF u
  <2> QED BY BreakElementOK DEF u
<1>2. tok \in {"nf", "fi"} => tok \notin MAN_NSCOPED
  BY DEF MAN_NSCOPED
<1>3. Good(v) /\ v.eline = u.eline /\ NotSet(u, v)
  <2> HIDE DEF u, v
  <2> QED BY <1>1, <1>2, BreakHeaderOK DEF v
<1>4. t = BreakBlock(v, tok)
  BY DEF man_breakscope
<1> HIDE DEF u, v
<1>5. NotSet(v, t)
  BY <1>3, <1>4, BreakBlockOff, GoodIs
<1> QED BY <1>1, <1>3, <1>5 DEF NotSet

\* So do the calls before the handler in man_pmacro().
LEMMA BrokenOK ==
  ASSUME NEW s, Good(s), NEW tok, NEW t, t = Broken(s, tok)
  PROVE  Good(t) /\ t.ce = -1 /\ (tok \notin MAN_NSCOPED => t.eline = FALSE)
         /\ (Ends(tok) => t.bline = FALSE)
<1> DEFINE u == EndCe(s)
<1>1. Good(u) /\ u.ce = -1
  <2> HIDE DEF u
  <2> QED BY EndCeOK DEF u
<1>2. t = man_breakscope(u, tok)
  BY DEF Broken
<1> HIDE DEF u
<1>3. Good(t) /\ t.ce = u.ce /\ (tok \notin MAN_NSCOPED => t.eline = FALSE)
      /\ (Ends(tok) => t.bline = FALSE)
  BY <1>1, <1>2, BreakscopeOK
<1> QED BY <1>1, <1>3

\* When the flags are off, nothing waits.
LEMMA FlagClean ==
  ASSUME NEW s, Good(s), s.bline = FALSE, s.eline = FALSE, s.ce = -1
  PROVE  Clean(s)
<1>1. ~HasHead(s.path) /\ ~HasFont(s.path) /\ ~HasCe(s.path)
  BY Zenon DEF Good, FlagsOK
<1> QED BY <1>1, GoodClean

\* The handlers of blocks find nothing waiting, whatever was open before their line.
LEMMA BrokenClean ==
  ASSUME NEW s, Good(s), NEW tok, Ends(tok), NEW t, t = Broken(s, tok)
  PROVE  Clean(t)
BY BrokenOK, EndsIs, FlagClean

\* man_descope() keeps the invariant when a word or a font macro was just added: it closes all
\* font macros and then, unless the line goes on, the head.
LEMMA DescopeOK ==
  ASSUME NEW s, Good(s), NEW a \in Before, a.tok \in {"text", "elem"}, NEW c \in BOOLEAN,
         NEW s1, Rec(s1), s1.path = s.path, s1.at = a, Flags(s, s1), NEW t, t = man_descope(s1, c)
  PROVE  Good(t)
<1> DEFINE p == s.path
           n == Len(p)
           open == {i \in 2..Parent(s1) : \A j \in i..Parent(s1) : s1.path[j].tok \in MAN_ESCOPED}
           e == IF s1.eline /\ open # {} THEN man_unscope(s1, Min(open)) ELSE s1
           q == [e EXCEPT !.eline = FALSE]
<1>1. PathOK(p) /\ NestOK(p) /\ s1.bline = s.bline /\ s1.eline = s.eline /\ s1.fault = s.fault
      /\ s1.ce = s.ce
      /\ s1.nonofill = s.nonofill
  BY GoodIs DEF Flags
<1>2. s1.at # None /\ Parent(s1) = n
  <2>1. s1.at # None
    BY DEF None
  <2> QED BY <2>1 DEF Parent, Depth
<1>3. t = IF c \/ ~q.bline THEN q ELSE OpenBody(q, Parent(q))
  BY DEF man_descope
<1>4. Good(q) /\ q.eline = FALSE /\ q.at # None
  <2>1. CASE ~HasFont(p)
    <3>1. s1.eline = FALSE
      BY <1>1, <2>1, Zenon DEF Good, FlagsOK
    <3>2. e = s1
      BY <3>1
    <3>3. q = s1
      BY <3>1, <3>2 DEF Rec
    <3> HIDE DEF q
    <3>4. AtOK(p, a)
      <4>1. a.tok \notin Far
        BY DEF Far
      <4> QED BY <2>1, <4>1 DEF AtOK, HasFont
    <3>5. Good(s1)
      BY <3>4, Kept
    <3> QED BY <1>2, <3>1, <3>3, <3>5
  <2>2. CASE HasFont(p)
    <3>1. s1.eline
      BY <1>1, <2>2, Zenon DEF Good, FlagsOK
    <3>2. PICK f \in 2..n : FontsFrom(p, f)
      BY <1>1, <2>2, Fonts
    <3>3. n \in Nat /\ f \in Nat /\ n \in 1..n
      BY <1>1, PathIs
    <3>4. open \in SUBSET Int /\ f \in open /\ \A j \in open : f <= j
      <4>1. f \in open
        BY <1>2, <3>2 DEF FontsFrom, MAN_ESCOPED
      <4>2. ASSUME NEW j \in open PROVE f <= j
        <5>1. j \in 2..n /\ j \in j..n /\ p[j].tok = "B"
          BY <1>2, <3>3 DEF MAN_ESCOPED
        <5>2. j \in 1..(f - 1) => FALSE
          BY <3>2, <5>1 DEF FontsFrom
        <5> QED BY <3>3, <5>1, <5>2
      <4> QED BY <1>2, <3>3, <4>1, <4>2
    <3> HIDE DEF open
    <3>5. Min(open) = f /\ open # {}
      BY <3>4, MinIs
    <3> DEFINE u == man_unscope(s1, f)
    <3>6. e = u
      BY <3>1, <3>5
    <3> HIDE DEF u
    <3>7. Rec(u) /\ u.path = SubSeq(p, 1, f - 1) /\ u.at = Leaf(p[f].tok) /\ Flags(s1, u)
      <4>1. ~(f < 2 \/ f > Depth(s1))
        BY <3>3 DEF Depth
      <4>2. Rec(u) /\ u.path = SubSeq(s1.path, 1, f - 1) /\ u.at = Leaf(s1.path[f].tok)
            /\ Flags(s1, u)
        BY <4>1, UnscopeIs DEF u
      <4> QED BY <4>2
    <3>8. q = [u EXCEPT !.eline = FALSE]
      BY <3>6
    <3> HIDE DEF e, q
    <3>9. Rec(q) /\ q.path = u.path /\ q.at = u.at /\ q.ce = s.ce /\ q.bline = s.bline
          /\ q.eline = FALSE
           /\ q.nonofill = s.nonofill /\ q.fault = s.fault
      BY <1>1, <3>7, <3>8 DEF Rec, Flags
    <3>10. /\ PathOK(q.path) /\ NestOK(q.path) /\ ~HasFont(q.path) /\ ~HasCe(q.path) /\ ~HasCe(p)
           /\ (HasHead(q.path) <=> HasHead(p))
      <4>1. Unfonted(p, q.path)
        BY <1>1, <3>2, <3>7, <3>9, CutFonts
      <4> QED BY <4>1 DEF Unfonted
    <3>11. q.at.tok = "elem" /\ q.at \in Before
      <4>1. p[f].tok = "B"
        BY <3>2, <3>3 DEF FontsFrom
      <4>2. Leaf("B").tok = "elem"
        BY DEF Leaf, Seen, MAN_XSCOPE, MAN_NSCOPED, MAN_ESCOPED, Paragraphs, Macros, Elements
      <4> QED BY <3>7, <3>9, <4>1, <4>2, LeafIs
    <3>12. AtOK(q.path, q.at)
      <4>1. q.at.tok \notin Far
        BY <3>11 DEF Far
      <4> QED BY <3>10, <3>11, <4>1 DEF AtOK, HasFont
    <3>13. FlagsOK(q.path, q.bline, q.eline, q.nonofill, q.ce, q.fault)
      <4>1. FlagsOK(p, s.bline, s.eline, s.nonofill, s.ce, s.fault)
        BY DEF Good
      <4>2. FlagsOK(q.path, s.bline, FALSE, s.nonofill, s.ce, s.fault)
        BY <3>10, <4>1, Zenon DEF FlagsOK, NoFillOK
      <4> QED BY <3>9, <4>2
    <3>14. q.at # None
      BY <3>11 DEF None
    <3> QED BY <3>9, <3>10, <3>12, <3>13, <3>14 DEF Good
  <2> QED BY <2>1, <2>2
<1> HIDE DEF q
<1>5. CASE c \/ ~q.bline
  BY <1>3, <1>4, <1>5
<1>6. CASE ~c /\ q.bline
  <2>1. t = OpenBody(q, Len(q.path))
    BY <1>3, <1>4, <1>6 DEF Parent, Depth
  <2>2. Clean(t)
    BY <1>4, <1>6, <2>1, OpenHead
  <2> QED BY <2>2, CleanGood
<1> QED BY <1>5, <1>6

\* A node that is opened and closed at once, and a word, change the parse point only.
LEMMA ClosedIs ==
  ASSUME NEW s, Rec(s), NEW tok, NEW t, t = Closed(s, tok)
  PROVE  Rec(t) /\ t.path = s.path /\ t.at = Leaf(tok) /\ Flags(s, t)
BY AtIs DEF Closed

\* See ClosedIs.
LEMMA WordIs ==
  ASSUME NEW s, Rec(s), NEW c, NEW t, t = Word(s, c)
  PROVE  Rec(t) /\ t.path = s.path /\ t.at = Text(c) /\ Flags(s, t)
BY AtIs DEF Word

\* A macro or request without scope keeps the invariant if nothing waits that it should have
\* broken.
LEMMA ClosedOK ==
  ASSUME NEW s, Good(s), NEW tok, NEW t, t = Closed(s, tok),
         \/ tok \notin Macros
         \/ tok \in MAN_NSCOPED \ MAN_ESCOPED
         \/ tok \notin MAN_XSCOPE /\ s.eline = FALSE
         \/ s.bline = FALSE /\ s.eline = FALSE
  PROVE  Good(t)
<1>1. Rec(t) /\ t.path = s.path /\ t.at = Leaf(tok) /\ Flags(s, t)
  BY GoodIs, ClosedIs
<1>2. t.at \in Before
  BY <1>1, LeafIs
<1>3. CASE tok \notin Macros \/ tok \in MAN_NSCOPED \ MAN_ESCOPED
  <2>1. Leaf(tok).tok = "request"
    BY <1>3 DEF Leaf, Seen, MAN_XSCOPE, MAN_NSCOPED, MAN_ESCOPED, Paragraphs, Macros, Elements,
               blk_imps
  <2>2. AtOK(s.path, t.at)
    <3>1. t.at.tok = "request" /\ "request" \notin Far
      BY <1>1, <2>1 DEF Far
    <3> QED BY <1>2, <3>1 DEF Good, AtOK
  <2> QED BY <1>1, <2>2, Kept
<1>4. CASE tok \notin MAN_XSCOPE /\ s.eline = FALSE /\ tok \in Macros
  <2>1. Leaf(tok).tok \in {"request", "elem"}
    BY <1>4 DEF Leaf, Seen, MAN_XSCOPE, MAN_NSCOPED, MAN_ESCOPED, Paragraphs, Macros, Elements,
               blk_imps
  <2>2. ~HasFont(s.path)
    BY <1>4, GoodIs
  <2>3. AtOK(s.path, t.at)
    <3>1. t.at.tok \notin Far
      BY <1>1, <2>1 DEF Far
    <3> QED BY <1>2, <2>2, <3>1 DEF Good, AtOK
  <2> QED BY <1>1, <2>3, Kept
<1>5. CASE s.bline = FALSE /\ s.eline = FALSE
  <2>1. ~HasFont(s.path) /\ ~HasHead(s.path)
    BY <1>5, GoodIs
  <2>2. AtOK(s.path, t.at)
    BY <1>2, <2>1 DEF AtOK
  <2> QED BY <1>1, <2>2, Kept
<1> QED BY <1>3, <1>4, <1>5

\* Switching the fill mode changes nothing that the invariant is about,
LEMMA FillIs ==
  ASSUME NEW s, Rec(s), NEW b, NEW t, t = [s EXCEPT !.nofill = b]
  PROVE  Rec(t) /\ t.path = s.path /\ t.at = s.at /\ Flags(s, t)
BY DEF Rec, Flags

\* and keeps it.
LEMMA FillOK ==
  ASSUME NEW s, Good(s), NEW b, NEW t, t = [s EXCEPT !.nofill = b]
  PROVE  Good(t) /\ Flags(s, t) /\ t.path = s.path
<1>1. Rec(t) /\ t.path = s.path /\ t.at = s.at /\ Flags(s, t)
  BY GoodIs, FillIs
<1>2. AtOK(s.path, t.at)
  BY <1>1 DEF Good
<1> QED BY <1>1, <1>2, Kept

\* A word can be at the parse point.
LEMMA TextIs == \A c \in BOOLEAN : Text(c) \in Before /\ Text(c).tok = "text"
BY DEF Text, Before

\* A line of text is what the open scopes were waiting for.
LEMMA WordDescope ==
  ASSUME NEW s, Good(s), NEW d \in BOOLEAN, NEW c \in BOOLEAN, NEW t, t = man_descope(Word(s, d), c)
  PROVE  Good(t)
<1> DEFINE u == Word(s, d)
<1>1. Rec(u) /\ u.path = s.path /\ u.at = Text(d) /\ Flags(s, u)
  <2> HIDE DEF u
  <2> QED BY GoodIs, WordIs DEF u
<1>2. Text(d) \in Before /\ Text(d).tok \in {"text", "elem"}
  BY TextIs
<1>3. t = man_descope(u, c)
  OBVIOUS
<1> HIDE DEF u
<1> QED BY <1>1, <1>2, <1>3, DescopeOK

\* A font macro without arguments may wait inside other font macros and heads.
LEMMA OpenFont ==
  ASSUME NEW s, Good(s), s.ce = -1, NEW t, t = [Open(s, "B", "elem") EXCEPT !.eline = TRUE]
  PROVE  Good(t)
<1> DEFINE u == Open(s, "B", "elem")
           x == Node("B", "elem", s.at)
<1>1. Rec(s) /\ PathOK(s.path) /\ NestOK(s.path) /\ s.at \in Before /\ ~HasCe(s.path)
  BY GoodIs
<1>2. Rec(u) /\ u.path = Append(s.path, x) /\ u.at = None /\ Flags(s, u)
  <2> HIDE DEF u
  <2> QED BY <1>1, OpenIs DEF u
<1>3. IsNode("B", "elem", s.at, x)
  <2>1. "B" \in Macros \cup {"root", "ce"}
    BY DEF Macros, Elements
  <2> HIDE DEF x
  <2> QED BY <1>1, <2>1, NodeIs DEF x
<1> HIDE DEF u, x
<1>4. Rec(t) /\ t.path = u.path /\ t.at = None /\ t.ce = s.ce /\ t.bline = s.bline /\ t.eline = TRUE
      /\ t.nonofill = s.nonofill /\ t.fault = s.fault
  BY <1>2 DEF Rec, Flags, u
<1>5. x \in NodeRec /\ x.tok = "B" /\ x.type = "elem" /\ x.prev = s.at
  BY <1>3 DEF IsNode
<1>6. PathOK(t.path) /\ NestOK(t.path) /\ HasFont(t.path) /\ ~HasCe(t.path)
      /\ (HasHead(t.path) <=> HasHead(s.path))
  BY <1>1, <1>2, <1>4, <1>5, GrowFont
<1>7. One(s.path, x, t.path)
  BY <1>1, <1>2, <1>4, <1>5, GrowIs
<1>8. AtOK(t.path, t.at)
  <2>1. t.at \in Before /\ t.at.tok \in {"none", "request"} /\ t.at.tok \notin Far
    BY <1>4, NoneIs DEF Far
  <2>2. ASSUME HasHead(s.path), NEW i \in 1..Len(t.path), t.path[i].tok = "B"
        PROVE  t.path[i].prev.tok \notin Far
    <3>1. (i \in 1..Len(s.path) /\ t.path[i] = s.path[i]) \/ t.path[i] = x
      BY <1>7 DEF One
    <3>2. s.at.tok \notin Far
          /\ \A j \in 1..Len(s.path) : s.path[j].tok = "B" => s.path[j].prev.tok \notin Far
      BY <2>2 DEF Good, AtOK
    <3> QED BY <1>5, <2>2, <3>1, <3>2
  <2> QED BY <1>6, <2>1, <2>2 DEF AtOK
<1>9. FlagsOK(t.path, t.bline, t.eline, t.nonofill, t.ce, t.fault)
  <2>1. FlagsOK(s.path, s.bline, s.eline, s.nonofill, s.ce, s.fault)
    BY DEF Good
  <2>2. FlagsOK(t.path, s.bline, TRUE, s.nonofill, s.ce, s.fault)
    BY <1>1, <1>6, <2>1, Zenon DEF FlagsOK, NoFillOK
  <2> QED BY <1>4, <2>2
<1> QED BY <1>4, <1>6, <1>8, <1>9 DEF Good

-----------------------------------------------------------------------------
\* The end of man_pmacro() keeps the invariant: a head that is still waiting is closed by a
\* macro that is not in next-line scope itself.
LEMMA PmacroOK ==
  ASSUME NEW s, Good(s), NEW tok, NEW c \in BOOLEAN, NEW h, Good(h),
         tok \notin MAN_NSCOPED => h.at # None,
         NEW t, t = man_pmacro(s, tok, c, h)
  PROVE  Good(t)
<1>1. CASE ~Broken(s, tok).bline \/ c \/ ~h.bline \/ h.eline \/ tok \in MAN_NSCOPED
  <2>1. t = h
    BY <1>1, Zenon DEF man_pmacro
  <2> QED BY <2>1
<1>2. CASE Broken(s, tok).bline /\ ~c /\ h.bline /\ ~h.eline /\ tok \notin MAN_NSCOPED
  <2>1. t = OpenBody(h, Parent(h))
    BY <1>2, Zenon DEF man_pmacro
  <2>2. Parent(h) = Len(h.path)
    BY <1>2 DEF Parent, Depth
  <2>3. h.eline = FALSE
    BY <1>2, GoodIs
  <2>4. Clean(t)
    BY <1>2, <2>1, <2>2, <2>3, OpenHead
  <2> QED BY <2>4, CleanGood
<1> QED BY <1>1, <1>2

\* For macros that break heads, the end of man_pmacro() does nothing.
LEMMA PmacroEnds ==
  ASSUME NEW s, Good(s), NEW tok, Ends(tok), NEW c \in BOOLEAN, NEW h, Good(h),
         NEW t, t = man_pmacro(s, tok, c, h)
  PROVE  Good(t)
<1>1. Broken(s, tok).bline = FALSE
  BY BrokenOK
<1>2. t = h
  BY <1>1 DEF man_pmacro
<1> QED BY <1>2

\* man_pmacro() with in_line_eoln(), for font macros and all other elements.
LEMMA InLineOK ==
  ASSUME NEW s, Good(s), NEW tok \in Elements, NEW args \in BOOLEAN, NEW c \in BOOLEAN,
         NEW t, t = man_pmacro(s, tok, c, in_line_eoln(Broken(s, tok), tok, args))
  PROVE  Good(t)
<1> DEFINE b == Broken(s, tok)
           q == [b EXCEPT !.nofill = (@ \/ tok = "EX") /\ tok # "EE"]
           h == in_line_eoln(b, tok, args)
<1>1. Good(b) /\ b.ce = -1 /\ (tok \notin MAN_NSCOPED => b.eline = FALSE)
      /\ (Ends(tok) => b.bline = FALSE)
  <2> HIDE DEF b
  <2> QED BY BrokenOK DEF b
<1>2. Good(q) /\ Flags(b, q)
  <2> HIDE DEF b
  <2>1. q = [b EXCEPT !.nofill = (b.nofill \/ tok = "EX") /\ tok # "EE"]
    OBVIOUS
  <2> HIDE DEF q
  <2> QED BY <1>1, <2>1, FillOK
<1>3. q.ce = -1 /\ (tok \notin MAN_NSCOPED => q.eline = FALSE) /\ (Ends(tok) => q.bline = FALSE)
  BY <1>1, <1>2 DEF Flags
<1>4. h = IF tok \in MAN_ESCOPED /\ ~args THEN [Open(q, tok, "elem") EXCEPT !.eline = TRUE]
          ELSE IF tok \in MAN_ESCOPED THEN man_descope(Closed(q, tok), FALSE)
          ELSE Closed(q, tok)
  BY DEF in_line_eoln
<1>5. t = man_pmacro(s, tok, c, h)
  OBVIOUS
<1> HIDE DEF b, q, h
<1>6. CASE tok = "B" /\ ~args
  <2>1. h = [Open(q, "B", "elem") EXCEPT !.eline = TRUE]
    BY <1>4, <1>6 DEF MAN_ESCOPED
  <2>2. Good(h)
    BY <1>2, <1>3, <2>1, OpenFont
  <2>3. tok \in MAN_NSCOPED
    BY <1>6 DEF MAN_NSCOPED
  <2> QED BY <1>5, <2>2, <2>3, PmacroOK
<1>7. CASE tok = "B" /\ args
  <2> DEFINE u == Closed(q, "B")
  <2>1. h = man_descope(u, FALSE)
    BY <1>4, <1>7 DEF MAN_ESCOPED
  <2>2. Rec(u) /\ u.path = q.path /\ u.at = Leaf("B") /\ Flags(q, u)
    <3> HIDE DEF u
    <3> QED BY <1>2, GoodIs, ClosedIs DEF u
  <2>3. Leaf("B") \in Before /\ Leaf("B").tok \in {"text", "elem"}
    <3>1. Leaf("B").tok = "elem"
      BY DEF Leaf, Seen, MAN_XSCOPE, MAN_NSCOPED, MAN_ESCOPED, Paragraphs, Macros, Elements
    <3> QED BY <3>1, LeafIs
  <2> HIDE DEF u
  <2>4. FALSE \in BOOLEAN
    OBVIOUS
  <2>5. Good(h)
    BY <1>2, <2>1, <2>2, <2>3, <2>4, DescopeOK
  <2>6. tok \in MAN_NSCOPED
    BY <1>7 DEF MAN_NSCOPED
  <2> QED BY <1>5, <2>5, <2>6, PmacroOK
<1>8. CASE tok # "B"
  <2>1. h = Closed(q, tok)
    BY <1>4, <1>8 DEF MAN_ESCOPED
  <2>2. Good(h)
    <3>1. CASE tok = "PD"
      <4>1. tok \in MAN_NSCOPED \ MAN_ESCOPED
        BY <3>1 DEF MAN_NSCOPED, MAN_ESCOPED
      <4> QED BY <1>2, <2>1, <4>1, ClosedOK
    <3>2. CASE tok \in {"BI", "OP"}
      <4>1. tok \notin MAN_XSCOPE /\ tok \notin MAN_NSCOPED
        BY <3>2 DEF MAN_XSCOPE, MAN_NSCOPED
      <4>2. q.eline = FALSE
        BY <1>3, <4>1
      <4> QED BY <1>2, <2>1, <4>1, <4>2, ClosedOK
    <3>3. CASE tok \in {"TH", "EX", "EE"}
      <4>1. Ends(tok)
        BY <3>3 DEF Ends, MAN_XSCOPE, Macros, Elements
      <4>2. q.bline = FALSE /\ q.eline = FALSE
        BY <1>3, <4>1, EndsIs
      <4> QED BY <1>2, <2>1, <4>2, ClosedOK
    <3> QED BY <1>8, <3>1, <3>2, <3>3 DEF Elements
  <2>3. h.at # None
    <3>1. h.at = Leaf(tok)
      BY <1>2, <2>1, GoodIs, ClosedIs
    <3>2. Leaf(tok).tok # "none"
      BY DEF Leaf, Seen
    <3> QED BY <3>1, <3>2, NoneIs
  <2> QED BY <1>5, <2>2, <2>3, PmacroOK
<1> QED BY <1>6, <1>7, <1>8

\* Counting a line of ce changes the counter only.
LEMMA CeIs ==
  ASSUME NEW s, Rec(s), NEW d, NEW t, t = [s EXCEPT !.ce = d]
  PROVE  Rec(t) /\ t.path = s.path /\ t.at = s.at /\ t.bline = s.bline /\ t.eline = s.eline
         /\ t.nonofill = s.nonofill /\ t.fault = s.fault /\ t.ce = d
BY DEF Rec

\* man_ptext(), in ce mode or not.
LEMMA TextOK ==
  ASSUME NEW s, Good(s), NEW c \in BOOLEAN, NEW t, t = man_ptext(s, c)
  PROVE  Good(t)
<1> DEFINE u == CeText(s)
<1>1. Good(u)
  <2>1. CASE s.ce = -1
    BY <2>1 DEF CeText
  <2>2. CASE s.ce # -1 /\ s.ce < 1
    BY <2>2, EndCeOK DEF CeText
  <2>3. CASE s.ce # -1 /\ ~(s.ce < 1)
    <3>1. u = [s EXCEPT !.ce = s.ce - 1]
      BY <2>3 DEF CeText
    <3> HIDE DEF u
    <3>2. Rec(u) /\ u.path = s.path /\ u.at = s.at /\ u.bline = s.bline /\ u.eline = s.eline
          /\ u.nonofill = s.nonofill /\ u.fault = s.fault /\ u.ce = s.ce - 1
      <4>1. Rec(s)
        BY DEF Good
      <4> QED BY <3>1, <4>1, CeIs
    <3>3. FlagsOK(s.path, s.bline, s.eline, s.nonofill, s.ce, s.fault)
      BY DEF Good
    <3>4. s.ce \in Int
      BY <3>3 DEF FlagsOK
    <3>5. HasCe(s.path) /\ s.ce - 1 # -1 /\ s.ce - 1 \in Int
      <4>1. HasCe(s.path)
        BY <2>3, GoodIs
      <4>2. s.ce - 1 # -1 /\ s.ce - 1 \in Int
        BY <2>3, <3>4
      <4> QED BY <4>1, <4>2
    <3>6. FlagsOK(s.path, s.bline, s.eline, s.nonofill, s.ce - 1, s.fault)
      BY <3>3, <3>5, Zenon DEF FlagsOK
    <3> QED BY <3>2, <3>6 DEF Good
  <2> QED BY <2>1, <2>2, <2>3
<1>2. t = man_descope(Word(u, c), c)
  BY DEF man_ptext
<1> HIDE DEF u
<1> QED BY <1>1, <1>2, WordDescope

\* man_pblank(), whatever waits.
LEMMA BlankOK ==
  ASSUME NEW s, Good(s), NEW t, t = man_pblank(s)
  PROVE  Good(t)
<1>1. CASE t = man_descope(Word(s, FALSE), FALSE)
  <2>1. FALSE \in BOOLEAN
    OBVIOUS
  <2> QED BY <1>1, <2>1, WordDescope
<1>2. CASE t = s
  BY <1>2
<1>3. CASE t = [s EXCEPT !.at.c = FALSE]
  <2> DEFINE a == [s.at EXCEPT !.c = FALSE]
  <2>1. t = [s EXCEPT !.at = a]
    BY <1>3, GoodIs DEF Rec
  <2>2. a \in Before /\ a.tok = s.at.tok
    BY GoodIs DEF Before
  <2> HIDE DEF a
  <2>3. Rec(t) /\ t.path = s.path /\ t.at = a /\ Flags(s, t)
    BY <2>1, GoodIs, AtIs
  <2>4. AtOK(s.path, t.at)
    BY <2>2, <2>3 DEF Good, AtOK
  <2> QED BY <2>3, <2>4, Kept
<1>4. CASE t = Closed(s, "sp")
  <2>1. "sp" \notin Macros
    BY DEF Macros, Elements, blk_imps, blk_exps, blk_closes
  <2> QED BY <1>4, <2>1, ClosedOK
<1> QED BY <1>1, <1>2, <1>3, <1>4 DEF man_pblank

\* roff_noarg(): nf, fi and br.
LEMMA NoArgOK ==
  ASSUME NEW s, Good(s), NEW tok \in noargs, NEW t, t = roff_noarg(s, tok)
  PROVE  Good(t)
<1> DEFINE b == IF s.bline \/ s.eline THEN man_breakscope(s, tok) ELSE s
           u == Closed(b, tok)
<1>1. Good(b)
  BY BreakscopeOK
<1>2. tok \notin Macros
  BY DEF Macros, Elements, blk_imps, blk_exps, blk_closes, noargs
<1> HIDE DEF b
<1>3. Good(u)
  BY <1>1, <1>2, ClosedOK
<1>4. t = [u EXCEPT !.nofill = (u.nofill \/ tok = "nf") /\ tok # "fi"]
  BY DEF roff_noarg, b
<1> HIDE DEF u
<1> QED BY <1>3, <1>4, FillOK

\* roff_EQ() and roff_addtbl().
LEMMA EquationOK ==
  ASSUME NEW s, Good(s), NEW t, t = roff_EQ(s)
  PROVE  Good(t)
<1>1. t = Closed(Broken(s, "EQ"), "EQ")
  BY DEF roff_EQ, Broken
<1>2. "EQ" \notin Macros
  BY DEF Macros, Elements, blk_imps, blk_exps, blk_closes
<1>3. Good(Broken(s, "EQ"))
  BY BrokenOK
<1> QED BY <1>1, <1>2, <1>3, ClosedOK

\* See EquationOK.
LEMMA TableOK ==
  ASSUME NEW s, Good(s), NEW row \in BOOLEAN, NEW t, t = roff_addtbl(s, row)
  PROVE  Good(t)
<1> DEFINE b == man_breakscope(s, "TS")
<1>1. t = IF row THEN Closed(b, "TS") ELSE b
  BY DEF roff_addtbl
<1>2. Good(b)
  BY BreakscopeOK
<1>3. "TS" \notin Macros
  BY DEF Macros, Elements, blk_imps, blk_exps, blk_closes
<1> HIDE DEF b
<1> QED BY <1>1, <1>2, <1>3, ClosedOK

\* roff_onearg(): sp, ft and ce; ce finds nothing waiting because it breaks next-line scopes.
LEMMA OneArgOK ==
  ASSUME NEW s, Good(s), NEW tok \in onearg, NEW lines \in Nat, NEW t, t = roff_onearg(s, tok,
         lines)
  PROVE  Good(t)
<1> DEFINE b == IF (s.bline \/ s.eline) /\ tok \in {"ce", "sp"} THEN man_breakscope(s, tok) ELSE s
           q == IF tok = "ce" THEN EndCe(b) ELSE b
<1>1. Good(b)
  BY BreakscopeOK
<1>2. tok = "ce" => b.bline = FALSE /\ b.eline = FALSE
  <2> SUFFICES ASSUME tok = "ce" PROVE b.bline = FALSE /\ b.eline = FALSE
    OBVIOUS
  <2>1. CASE s.bline \/ s.eline
    <3>1. b = man_breakscope(s, tok)
      BY <2>1
    <3>2. Ends(tok)
      BY DEF Ends, Macros, Elements, blk_imps, blk_exps, blk_closes
    <3> HIDE DEF b
    <3> QED BY <3>1, <3>2, EndsIs, BreakscopeOK
  <2>2. CASE ~(s.bline \/ s.eline)
    <3>1. b = s
      BY <2>2
    <3>2. s.bline = FALSE /\ s.eline = FALSE
      BY <2>2, GoodIs, Zenon
    <3> QED BY <3>1, <3>2
  <2> QED BY <2>1, <2>2
<1>3. tok \notin Macros
  BY DEF Macros, Elements, blk_imps, blk_exps, blk_closes, onearg
<1> HIDE DEF b
<1>4. Good(q) /\ (tok = "ce" => q.ce = -1 /\ q.bline = FALSE /\ q.eline = FALSE)
  BY <1>1, <1>2, EndCeOK
<1>5. t = IF tok # "ce" \/ lines = 0 THEN Closed(q, tok)
          ELSE [Word(Open(q, tok, "elem"), FALSE) EXCEPT !.ce = lines]
  BY DEF roff_onearg, b
<1> HIDE DEF q
<1>6. CASE tok # "ce" \/ lines = 0
  <2>1. t = Closed(q, tok)
    BY <1>5, <1>6
  <2> QED BY <1>3, <1>4, <2>1, ClosedOK
<1>7. CASE tok = "ce" /\ lines # 0
  <2> DEFINE x == Node("ce", "elem", q.at)
             u == Open(q, "ce", "elem")
             v == Word(u, FALSE)
  <2>1. t = [v EXCEPT !.ce = lines]
    BY <1>5, <1>7
  <2>2. Clean(q)
    BY <1>4, <1>7, FlagClean
  <2>3. Rec(q) /\ Bare(q.path) /\ q.at \in Before /\ Calm(q.nonofill) /\ q.fault = FALSE
    BY <2>2 DEF Clean, Bared
  <2>4. Rec(u) /\ u.path = Append(q.path, x) /\ u.at = None /\ Flags(q, u)
    <3> HIDE DEF u
    <3> QED BY <2>3, OpenIs DEF u
  <2>5. IsNode("ce", "elem", q.at, x)
    <3> HIDE DEF x
    <3> QED BY <2>3, NodeIs DEF x
  <2> HIDE DEF u, x
  <2>6. Rec(v) /\ v.path = u.path /\ v.at = Text(FALSE) /\ Flags(u, v)
    <3> HIDE DEF v
    <3> QED BY <2>4, WordIs DEF v
  <2> HIDE DEF v
  <2>7. Rec(t) /\ t.path = Append(q.path, x) /\ t.at = Text(FALSE) /\ t.ce = lines
        /\ t.bline = q.bline
        /\ t.eline = q.eline /\ t.nonofill = q.nonofill /\ t.fault = q.fault
    BY <2>1, <2>4, <2>6 DEF Rec, Flags
  <2>8. x \in NodeRec /\ x.tok = "ce" /\ x.type = "elem"
    BY <2>5 DEF IsNode
  <2>9. PathOK(t.path) /\ NestOK(t.path) /\ ~HasFont(t.path) /\ HasCe(t.path) /\ ~HasHead(t.path)
    BY <2>3, <2>7, <2>8, GrowCe
  <2>10. lines # -1 /\ lines \in Int
    OBVIOUS
  <2>11. FlagsOK(t.path, FALSE, FALSE, q.nonofill, lines, FALSE)
    BY <2>3, <2>9, <2>10, Zenon DEF FlagsOK, NoFillOK, Calm
  <2>12. FlagsOK(t.path, t.bline, t.eline, t.nonofill, t.ce, t.fault)
    BY <1>4, <1>7, <2>3, <2>7, <2>11
  <2>13. t.at \in Before
    BY <2>7, TextIs
  <2>14. AtOK(t.path, t.at)
    BY <2>9, <2>13 DEF AtOK
  <2> QED BY <2>7, <2>9, <2>12, <2>14 DEF Good
<1> QED BY <1>6, <1>7

-----------------------------------------------------------------------------
\* t is s with a node of the macro tok inside.
Added(s, tok, type, t) ==
  \E x \in NodeRec : x.tok = tok /\ x.type = type /\ Plus(NodeRec, s.path, x, t.path)

\* Opening a node, whatever was before it.
LEMMA AddNode ==
  ASSUME NEW s, Rec(s), s.path \in Seq(NodeRec), s.at \in Before, NEW tok \in Macros,
         NEW type \in {"block", "head"}, NEW t, t = Open(s, tok, type)
  PROVE  Rec(t) /\ t.at = None /\ Flags(s, t) /\ Added(s, tok, type, t)
<1> DEFINE x == Node(tok, type, s.at)
<1>1. Rec(t) /\ t.path = Append(s.path, x) /\ t.at = None /\ Flags(s, t)
  BY OpenIs
<1>2. IsNode(tok, type, s.at, x)
  <2> HIDE DEF x
  <2> QED BY NodeIs DEF x
<1> HIDE DEF x
<1>3. x \in NodeRec /\ x.tok = tok /\ x.type = type
  BY <1>2 DEF IsNode
<1>4. Plus(NodeRec, s.path, x, t.path)
  BY <1>1, <1>3, Appended
<1> QED BY <1>1, <1>3, <1>4 DEF Added

\* q is p with a block of the macro tok inside and its head in it.
Opened(p, tok, q) ==
  \E x, y : x.tok = tok /\ x.type = "block" /\ y.tok = tok /\ y.type = "head" /\ Two(p, x, y, q)

\* Opening a block and then its head.
LEMMA AddTwo ==
  ASSUME NEW p \in Seq(NodeRec), NEW tok, NEW x \in NodeRec, x.tok = tok, x.type = "block",
         NEW q, Plus(NodeRec, p, x, q), NEW y, y.tok = tok, y.type = "head",
         NEW t, Plus(NodeRec, q, y, t)
  PROVE  Opened(p, tok, t)
<1>1. Len(p) \in Nat /\ Len(q) = Len(p) + 1 /\ q[Len(p) + 1] = x /\ \A m \in 1..Len(p) : q[m] = p[m]
  BY DEF Plus
<1>2. t \in Seq(NodeRec) /\ Len(t) = Len(q) + 1 /\ t[Len(q) + 1] = y
      /\ \A m \in 1..Len(q) : t[m] = q[m]
  BY DEF Plus
<1>3. Len(q) + 1 = Len(p) + 2 /\ Len(p) + 1 \in 1..Len(q) /\ \A m \in 1..Len(p) : m \in 1..Len(q)
  BY <1>1
<1>4. Two(p, x, y, t)
  BY <1>1, <1>2, <1>3 DEF Two
<1> QED BY <1>4 DEF Opened

\* blk_imp() may keep the head of a block open that has next-line scope.
LEMMA HeadGood ==
  ASSUME NEW p, Bare(p), NEW tok \in MAN_BSCOPED, Fits(p, tok), NEW h, Rec(h), Opened(p, tok,
         h.path),
         h.at \in Before, h.at.tok \notin Far,
         FlagsOK(p, FALSE, h.eline, FALSE, h.ce, h.fault), h.bline = TRUE, h.nonofill = TRUE
  PROVE  Good(h)
<1>1. PICK x, y : x.tok = tok /\ x.type = "block" /\ y.tok = tok /\ y.type = "head"
      /\ Two(p, x, y, h.path)
  BY DEF Opened
<1>2. tok \in blk_imps \cup blk_exps
  BY DEF MAN_BSCOPED, blk_imps
<1>3. PathOK(h.path) /\ NestOK(h.path) /\ ~HasFont(h.path) /\ ~HasCe(h.path) /\ HasHead(h.path)
  BY <1>1, <1>2, GrowBlock
<1>4. AtOK(h.path, h.at)
  BY <1>3 DEF AtOK, HasFont
<1>5. ~HasFont(p) /\ ~HasCe(p)
  BY DEF Bare
<1>6. FlagsOK(h.path, TRUE, h.eline, TRUE, h.ce, h.fault)
  BY <1>3, <1>5, Zenon DEF FlagsOK, NoFillOK
<1>7. FlagsOK(h.path, h.bline, h.eline, h.nonofill, h.ce, h.fault)
  BY <1>6
<1> QED BY <1>3, <1>4, <1>7 DEF Good

\* When blk_imp() or blk_exp() closes the head and starts the body, nothing waits.
LEMMA BodyClean ==
  ASSUME NEW p, Bare(p), NEW tok \in blk_imps \cup blk_exps, Fits(p, tok), NEW w, Rec(w),
         Opened(p, tok, w.path),
         w.eline = FALSE, w.ce = -1, w.fault = FALSE, NEW h, h = OpenBody(w, Depth(w))
  PROVE  Clean(h)
<1>1. PICK x, y : x.tok = tok /\ x.type = "block" /\ y.tok = tok /\ y.type = "head"
      /\ Two(p, x, y, w.path)
  BY DEF Opened
<1> DEFINE n == Len(p)
           q == h.path
<1>2. n \in Nat /\ n # 0
  BY PathIs DEF Bare
<1>3. w.path \in Seq(NodeRec) /\ Len(w.path) = n + 2 /\ w.path[n + 1] = x /\ w.path[n + 2] = y
      /\ \A m \in 1..n : w.path[m] = p[m]
  BY <1>1 DEF Two
<1>4. Bodied(w, h)
  <2>1. Depth(w) = Len(w.path) /\ Depth(w) > 1 /\ w.path[Depth(w)].type = "head"
    BY <1>1, <1>2, <1>3 DEF Depth
  <2> QED BY <1>3, <2>1, OpenBodyIs
<1>5. Rec(h) /\ h.at = None /\ h.bline = FALSE /\ h.nonofill = FALSE /\ h.eline = FALSE
      /\ h.ce = -1 /\ h.fault = FALSE
  BY <1>4 DEF Bodied
<1>6. q \in Seq(NodeRec) /\ Len(q) = n + 2 /\ q[n + 2].tok = tok /\ q[n + 2].type = "body"
      /\ q[n + 1].tok = tok /\ q[n + 1].type = "block" /\ \A m \in 1..n : q[m] = p[m]
  <2>1. (n + 2) - 1 = n + 1 /\ (n + 2) - 2 = n
    BY <1>2
  <2> QED BY <1>1, <1>3, <1>4, <2>1 DEF Bodied
<1> HIDE DEF q
<1>7. Two(p, q[n + 1], q[n + 2], q)
  BY <1>6 DEF Two
<1>8. PathOK(q) /\ NestOK(q) /\ ~HasFont(q) /\ ~HasCe(q) /\ ~HasHead(q)
  <2>1. PathOK(q) /\ NestOK(q) /\ ~HasFont(q) /\ ~HasCe(q)
        /\ (HasHead(q) <=> q[n + 2].type = "head")
    BY <1>6, <1>7, GrowBlock
  <2> QED BY <1>6, <2>1
<1>9. Bare(h.path)
  BY <1>8 DEF Bare, q
<1> QED BY <1>5, <1>9, NoneIs, CalmOff DEF Clean, Bared

\* The arguments in the head are words.
LEMMA WordIf ==
  ASSUME NEW g, Rec(g), g.at = None, NEW args \in BOOLEAN, NEW w, w = IF args THEN Word(g,
         FALSE) ELSE g
  PROVE  Rec(w) /\ w.path = g.path /\ w.at \in Before /\ w.at.tok \notin Far /\ Flags(g, w)
<1>1. CASE args
  <2>1. Rec(w) /\ w.path = g.path /\ w.at = Text(FALSE) /\ Flags(g, w)
    BY <1>1, WordIs
  <2> QED BY <2>1, TextIs DEF Far
<1>2. CASE ~args
  <2>1. w = g
    BY <1>2
  <2>2. Flags(g, w)
    BY <2>1 DEF Flags
  <2> QED BY <2>1, <2>2, NoneIs DEF Far
<1> QED BY <1>1, <1>2

\* Flags that two steps keep are kept.
LEMMA FlagsTrans ==
  ASSUME NEW s, NEW t, NEW u, Flags(s, t), Flags(t, u)
  PROVE  Flags(s, u)
BY DEF Flags

\* blk_imp(): the new block nests as it must and the flags agree with the head.
LEMMA BlkImpOK ==
  ASSUME NEW s, Clean(s), NEW tok \in blk_imps, NEW args \in BOOLEAN, NEW h, h = blk_imp(s, tok,
         args)
  PROVE  Good(h) /\ (tok \notin MAN_BSCOPED => Clean(h))
<1> DEFINE r0 == rew_scope(s, tok)
           r == [r0 EXCEPT !.nonofill = TRUE, !.nofill = @ /\ tok \notin {"SH", "SS"}]
           o == Open(r, tok, "block")
           g == Open(o, tok, "head")
           w == IF args THEN Word(g, FALSE) ELSE g
<1>1. h = IF tok \in {"TP", "TQ"} \/ (tok \in MAN_BSCOPED /\ ~args) THEN [w EXCEPT !.bline = TRUE]
          ELSE OpenBody(w, Depth(w))
  BY DEF blk_imp
<1>2. Bared(s) /\ s.bline = FALSE /\ s.eline = FALSE /\ s.ce = -1 /\ s.fault = FALSE
  BY DEF Clean
<1>3. Bared(r0) /\ Fits(r0.path, tok) /\ Flags(s, r0)
  <2> HIDE DEF r0
  <2> QED BY <1>2, RewOK DEF r0
<1> HIDE DEF r0
<1>4. Rec(r0) /\ Bare(r0.path) /\ r0.at \in Before /\ r0.path \in Seq(NodeRec)
  BY <1>3, PathIs DEF Bared, Bare
<1>5. Rec(r) /\ r.path = r0.path /\ r.at = r0.at /\ r.bline = FALSE /\ r.eline = FALSE
      /\ r.nonofill = TRUE
      /\ r.ce = -1 /\ r.fault = FALSE
  <2>1. r0.bline = FALSE /\ r0.eline = FALSE /\ r0.ce = -1 /\ r0.fault = FALSE
    BY <1>2, <1>3 DEF Flags
  <2>2. r = [r0 EXCEPT !.nonofill = TRUE, !.nofill = r0.nofill /\ tok \notin {"SH", "SS"}]
    OBVIOUS
  <2> DEFINE nf == r0.nofill /\ tok \notin {"SH", "SS"}
  <2>3. r = [r0 EXCEPT !.nonofill = TRUE, !.nofill = nf]
    BY <2>2
  <2> HIDE DEF r, nf
  <2> QED BY <1>4, <2>1, <2>3 DEF Rec
<1> HIDE DEF r
<1>6. tok \in Macros
  BY DEF Macros
<1>7. Rec(o) /\ o.at = None /\ Flags(r, o) /\ Added(r, tok, "block", o)
  <2> HIDE DEF o
  <2>1. r.path \in Seq(NodeRec) /\ r.at \in Before
    BY <1>4, <1>5
  <2> QED BY <1>5, <1>6, <2>1, AddNode DEF o
<1> HIDE DEF o
<1>8. PICK x \in NodeRec : x.tok = tok /\ x.type = "block" /\ Plus(NodeRec, r.path, x, o.path)
  BY <1>7 DEF Added
<1>9. Rec(g) /\ g.at = None /\ Flags(o, g) /\ Added(o, tok, "head", g)
  <2> HIDE DEF g
  <2>1. o.path \in Seq(NodeRec) /\ o.at \in Before
    BY <1>7, <1>8, NoneIs DEF Plus
  <2> QED BY <1>6, <1>7, <2>1, AddNode DEF g
<1> HIDE DEF g
<1>10. PICK y \in NodeRec : y.tok = tok /\ y.type = "head" /\ Plus(NodeRec, o.path, y, g.path)
  BY <1>9 DEF Added
<1>11. Opened(r0.path, tok, g.path)
  <2>1. Plus(NodeRec, r0.path, x, o.path)
    BY <1>5, <1>8
  <2> QED BY <1>4, <1>8, <1>10, <2>1, AddTwo
<1>12. Rec(w) /\ w.path = g.path /\ w.at \in Before /\ w.at.tok \notin Far /\ Flags(g, w)
  <2> HIDE DEF w
  <2> QED BY <1>9, WordIf DEF w
<1> HIDE DEF w
<1>13. w.bline = FALSE /\ w.eline = FALSE /\ w.nonofill = TRUE /\ w.ce = -1 /\ w.fault = FALSE
  <2>1. Flags(r, w)
    BY <1>7, <1>9, <1>12, FlagsTrans
  <2> QED BY <1>5, <2>1 DEF Flags
<1>14. CASE tok \in {"TP", "TQ"} \/ (tok \in MAN_BSCOPED /\ ~args)
  <2>1. h = [w EXCEPT !.bline = TRUE]
    BY <1>1, <1>14
  <2>2. Rec(h) /\ h.path = w.path /\ h.at = w.at /\ h.bline = TRUE /\ h.eline = FALSE
        /\ h.nonofill = TRUE
        /\ h.ce = -1 /\ h.fault = FALSE
    BY <1>12, <1>13, <2>1 DEF Rec
  <2>3. tok \in MAN_BSCOPED
    BY <1>14 DEF MAN_BSCOPED
  <2>4. FlagsOK(r0.path, FALSE, FALSE, FALSE, -1, FALSE)
    BY <1>4, BareFlags, CalmOff
  <2>5. FlagsOK(r0.path, FALSE, h.eline, FALSE, h.ce, h.fault)
    BY <2>2, <2>4
  <2>6. Opened(r0.path, tok, h.path) /\ h.at \in Before /\ h.at.tok \notin Far
    BY <1>11, <1>12, <2>2
  <2> QED BY <1>3, <1>4, <2>2, <2>3, <2>5, <2>6, HeadGood
<1>15. CASE ~(tok \in {"TP", "TQ"} \/ (tok \in MAN_BSCOPED /\ ~args))
  <2>1. h = OpenBody(w, Depth(w))
    BY <1>1, <1>15
  <2>2. Opened(r0.path, tok, w.path)
    BY <1>11, <1>12
  <2>3. Clean(h)
    BY <1>3, <1>4, <1>12, <1>13, <2>1, <2>2, BodyClean
  <2> QED BY <2>3, CleanGood
<1> QED BY <1>14, <1>15

\* blk_exp(): the same for RS and UR, also when RS remembers that it had an argument.
LEMMA BlkExpOK ==
  ASSUME NEW s, Clean(s), NEW tok \in blk_exps, NEW args \in BOOLEAN, NEW h, h = blk_exp(s, tok,
         args)
  PROVE  Clean(h)
<1> DEFINE r == IF tok = "RS" THEN rew_scope(s, tok) ELSE s
           b == Open(r, tok, "block")
           i == Depth(b)
           a == args /\ tok = "RS"
           e == [b EXCEPT !.path[i].aux = args /\ tok = "RS",
                          !.margin = IF args /\ tok = "RS" THEN @ + 1 ELSE @]
           g == Open(e, tok, "head")
           w == IF args THEN Word(g, FALSE) ELSE g
<1>1. h = OpenBody(w, Depth(w))
  BY DEF blk_exp
<1>2. Bared(s) /\ s.bline = FALSE /\ s.eline = FALSE /\ s.ce = -1 /\ s.fault = FALSE
  BY DEF Clean
<1>3. Bared(r) /\ Flags(s, r)
  <2>1. CASE tok = "RS"
    <3>1. r = rew_scope(s, tok) /\ tok \in blk_imps \cup {"RS"}
      BY <2>1
    <3> HIDE DEF r
    <3> QED BY <1>2, <3>1, RewOK
  <2>2. CASE tok # "RS"
    <3>1. r = s
      BY <2>2
    <3> QED BY <1>2, <3>1 DEF Flags
  <2> QED BY <2>1, <2>2
<1> HIDE DEF r
<1>4. Fits(r.path, tok)
  BY DEF Fits, blk_exps, pars, blk_imps
<1>5. Rec(r) /\ Bare(r.path) /\ r.at \in Before /\ r.path \in Seq(NodeRec)
  BY <1>3, PathIs DEF Bared, Bare
<1>6. tok \in Macros
  BY DEF Macros
<1>7. Rec(b) /\ b.at = None /\ Flags(r, b) /\ Added(r, tok, "block", b)
  <2> HIDE DEF b
  <2> QED BY <1>5, <1>6, AddNode DEF b
<1> HIDE DEF b
<1>8. PICK x \in NodeRec : x.tok = tok /\ x.type = "block" /\ Plus(NodeRec, r.path, x, b.path)
  BY <1>7 DEF Added
<1> DEFINE z == [x EXCEPT !.aux = a]
           q == [b.path EXCEPT ![i] = z]
           m == IF a THEN b.margin + 1 ELSE b.margin
<1>9. z \in NodeRec /\ z.tok = tok /\ z.type = "block"
  <2>1. a \in BOOLEAN
    OBVIOUS
  <2> HIDE DEF a
  <2> QED BY <1>8, <2>1 DEF NodeRec
<1>10. i = Len(r.path) + 1 /\ i = Len(b.path) /\ b.path[i] = x /\ b.path \in Seq(NodeRec)
       /\ Len(r.path) \in Nat
  BY <1>5, <1>8 DEF Plus, Depth
<1>11. e = [b EXCEPT !.path = q, !.margin = m]
  <2>1. e = [b EXCEPT !.path = [b.path EXCEPT ![i] = [b.path[i] EXCEPT !.aux = a]], !.margin = m]
    BY <1>7 DEF Rec
  <2> QED BY <1>10, <2>1
<1> HIDE DEF e, i, a, z, m
<1>12. Plus(NodeRec, r.path, z, q)
  <2>1. i \in 1..Len(b.path)
    BY <1>10
  <2> HIDE DEF q
  <2>2. Put(NodeRec, b.path, i, z, q)
    BY <1>9, <1>10, <2>1, Replaced DEF q
  <2>3. q \in Seq(NodeRec) /\ Len(q) = Len(b.path)
        /\ \A k \in 1..Len(b.path) : q[k] = IF k = i THEN z ELSE b.path[k]
    BY <2>2 DEF Put
  <2>4. Len(b.path) = Len(r.path) + 1 /\ \A k \in 1..Len(r.path) : b.path[k] = r.path[k]
    BY <1>8 DEF Plus
  <2>5. q[Len(r.path) + 1] = z
    BY <1>10, <2>1, <2>3
  <2>6. ASSUME NEW k \in 1..Len(r.path) PROVE q[k] = r.path[k]
    <3>1. k \in 1..Len(b.path) /\ k # i
      BY <1>10
    <3> QED BY <2>3, <2>4, <3>1
  <2> QED BY <2>3, <2>4, <2>5, <2>6 DEF Plus
<1> HIDE DEF q
<1>13. Rec(e) /\ e.path = q /\ e.at = None /\ Flags(b, e)
  BY <1>7, <1>11 DEF Rec, Flags
<1>14. Rec(g) /\ g.at = None /\ Flags(e, g) /\ Added(e, tok, "head", g)
  <2> HIDE DEF g
  <2>1. e.path \in Seq(NodeRec) /\ e.at \in Before
    BY <1>12, <1>13, NoneIs DEF Plus
  <2> QED BY <1>6, <1>13, <2>1, AddNode DEF g
<1> HIDE DEF g
<1>15. PICK y \in NodeRec : y.tok = tok /\ y.type = "head" /\ Plus(NodeRec, e.path, y, g.path)
  BY <1>14 DEF Added
<1>16. Opened(r.path, tok, g.path)
  <2>1. Plus(NodeRec, q, y, g.path)
    BY <1>13, <1>15
  <2> QED BY <1>5, <1>9, <1>12, <1>15, <2>1, AddTwo
<1>17. Rec(w) /\ w.path = g.path /\ w.at \in Before /\ w.at.tok \notin Far /\ Flags(g, w)
  <2> HIDE DEF w
  <2> QED BY <1>14, WordIf DEF w
<1> HIDE DEF w
<1>18. w.eline = FALSE /\ w.ce = -1 /\ w.fault = FALSE
  <2>1. Flags(s, b) /\ Flags(b, g)
    BY <1>3, <1>7, <1>13, <1>14, FlagsTrans
  <2>2. Flags(s, w)
    BY <1>17, <2>1, FlagsTrans
  <2> QED BY <1>2, <2>2 DEF Flags
<1>19. Opened(r.path, tok, w.path)
  BY <1>16, <1>17
<1> QED BY <1>1, <1>4, <1>5, <1>17, <1>18, <1>19, BodyClean

-----------------------------------------------------------------------------
\* In a finite set of numbers, some number has exactly k that are not below it: blk_close()
\* finds the block that it has counted.
LEMMA Ranked ==
  ASSUME NEW S \in SUBSET Nat, NEW b \in Nat, \A n \in S : n <= b, NEW k \in 1..Cardinality(S)
  PROVE  \E i \in S : Cardinality({j \in S : j >= i}) = k
<1> DEFINE From(i) == {j \in S : j >= i}
           K == {m \in Nat : m \in 1..Cardinality(S) => \E i \in S : Cardinality(From(i)) = m}
<1>1. IsFiniteSet(S) /\ Cardinality(S) \in Nat
  BY FS_BoundedSetOfNaturals, FS_CardinalityType
<1>2. 0 \in K
  OBVIOUS
<1>3. ASSUME NEW m \in Nat, m \in K, m + 1 \in 1..Cardinality(S)
      PROVE  \E i \in S : Cardinality(From(i)) = m + 1
  <2>1. PICK A \in SUBSET S : Cardinality(A) = m /\ \A x \in A, y \in S : y >= x => y \in A
    <3>1. CASE m = 0
      <4>1. {} \in SUBSET S /\ Cardinality({}) = m
        BY <3>1, FS_EmptySet
      <4> QED BY <4>1
    <3>2. CASE m # 0
      <4>1. m \in 1..Cardinality(S)
        BY <1>1, <1>3, <3>2
      <4>2. PICK i \in S : Cardinality(From(i)) = m
        BY <1>3, <4>1
      <4>3. From(i) \in SUBSET S /\ \A x \in From(i), y \in S : y >= x => y \in From(i)
        OBVIOUS
      <4> HIDE DEF From
      <4> QED BY <4>2, <4>3
    <3> QED BY <3>1, <3>2
  <2>2. IsFiniteSet(A)
    BY <1>1, FS_Subset
  <2>3. S \ A # {}
    <3>1. Cardinality(A) # Cardinality(S)
      BY <1>1, <1>3, <2>1
    <3>2. A # S
      BY <3>1
    <3> QED BY <3>2
  <2>4. PICK n \in S \ A : \A x \in S \ A : x <= n
    <3>1. S \ A \in SUBSET Nat /\ \A x \in S \ A : x <= b
      OBVIOUS
    <3> QED BY <2>3, <3>1, Greatest
  <2>5. From(n) = A \cup {n}
    <3>1. ASSUME NEW j \in S, j >= n PROVE j \in A \cup {n}
      BY <2>4, <3>1
    <3>2. ASSUME NEW j \in A PROVE j \in S /\ j >= n
      <4>1. j \in Nat /\ n \in Nat /\ ~(n >= j)
        BY <2>1, <2>4
      <4> QED BY <4>1
    <3> QED BY <2>4, <3>1, <3>2
  <2> HIDE DEF From
  <2>6. Cardinality(From(n)) = m + 1
    BY <2>1, <2>2, <2>4, <2>5, FS_AddElement
  <2> QED BY <2>4, <2>6
<1>4. \A m \in Nat : m \in K => m + 1 \in K
  BY <1>3
<1> HIDE DEF K
<1>5. Nat \subseteq K
  BY <1>2, <1>4, NatSet
<1>6. k \in K /\ k \in 1..Cardinality(S)
  BY <1>1, <1>5
<1> QED BY <1>6 DEF K

\* Moving the parse point where nothing waits.
LEMMA CleanAt ==
  ASSUME NEW s, Clean(s), NEW t, Rec(t), t.path = s.path, t.at \in Before, Flags(s, t)
  PROVE  Clean(t)
BY DEF Clean, Bared, Flags

\* See CleanAt.
LEMMA CleanClosed ==
  ASSUME NEW s, Clean(s), NEW tok, NEW t, t = Closed(s, tok)
  PROVE  Clean(t)
<1>1. Rec(s)
  BY DEF Clean, Bared
<1>2. Rec(t) /\ t.path = s.path /\ t.at = Leaf(tok) /\ Flags(s, t)
  BY <1>1, ClosedIs
<1> QED BY <1>2, LeafIs, CleanAt

\* See CleanAt.
LEMMA CleanWord ==
  ASSUME NEW s, Clean(s), NEW t, t = Word(s, FALSE)
  PROVE  Clean(t)
<1>1. Rec(s)
  BY DEF Clean, Bared
<1>2. Rec(t) /\ t.path = s.path /\ t.at = Text(FALSE) /\ Flags(s, t)
  BY <1>1, WordIs
<1>3. t.at \in Before
  BY <1>2, TextIs
<1> QED BY <1>2, <1>3, CleanAt

\* blk_close() may close any block that is open, with all that is in it.
LEMMA CleanUnscope ==
  ASSUME NEW s, Clean(s), NEW i \in 2..Len(s.path), s.path[i].type = "block", NEW m, NEW t,
         t = [man_unscope(s, i) EXCEPT !.margin = m]
  PROVE  Clean(t)
<1> DEFINE u == man_unscope(s, i)
<1>1. Rec(s) /\ PathOK(s.path) /\ NestOK(s.path)
  BY DEF Clean, Bared, Bare
<1>2. Len(s.path) \in Nat
  BY <1>1, PathIs
<1>3. Rec(u) /\ u.path = SubSeq(s.path, 1, i - 1) /\ u.at = Leaf(s.path[i].tok) /\ Flags(s, u)
  <2>1. ~(i < 2 \/ i > Depth(s))
    BY <1>2 DEF Depth
  <2> HIDE DEF u
  <2> QED BY <1>1, <2>1, UnscopeIs DEF u
<1>4. t = [u EXCEPT !.margin = m]
  OBVIOUS
<1> HIDE DEF u
<1>5. Rec(t) /\ t.path = u.path /\ t.at = u.at /\ t.bline = s.bline /\ t.eline = s.eline
      /\ t.nonofill = s.nonofill /\ t.ce = s.ce /\ t.fault = s.fault
  BY <1>3, <1>4 DEF Rec, Flags
<1>6. Bare(t.path)
  BY <1>1, <1>3, <1>5, CutBlock
<1>7. t.at \in Before
  BY <1>3, <1>5, LeafIs
<1> QED BY <1>5, <1>6, <1>7 DEF Clean, Bared

\* RE, UE and YS without a block to close end paragraphs.
LEMMA CleanRew ==
  ASSUME NEW s, Clean(s), NEW t, t = rew_scope(s, "PP")
  PROVE  Clean(t)
<1>1. "PP" \in blk_imps \cup {"RS"} /\ Bared(s)
  BY DEF blk_imps, Clean
<1>2. Bared(t) /\ Flags(s, t)
  BY <1>1, RewOK
<1> QED BY <1>2 DEF Clean, Flags

\* blk_close(): the block to close exists whenever nrew is in range, for any number of open
\* blocks and any argument of RE; closing it and the paragraph after it leave nothing waiting.
LEMMA BlkCloseOK ==
  ASSUME NEW s, Clean(s), NEW tok \in blk_closes, NEW to \in Nat, NEW trail \in BOOLEAN,
         NEW h, h = blk_close(s, tok, to, trail)
  PROVE  Clean(h)
<1> DEFINE open == {i \in 2..Parent(s) : s.path[i].tok = Opener[tok] /\ s.path[i].type = "block"}
           nrew == IF to = 0 THEN 1 ELSE 1 + Cardinality(open) - to
           nn == CHOOSE i \in open : Cardinality({j \in open : j >= i}) = nrew
           aux == s.path[nn].aux
           u == [man_unscope(s, nn) EXCEPT !.margin = IF tok = "RE" /\ aux THEN @ - 1 ELSE @]
           t == IF trail THEN Word(u, FALSE) ELSE u
           p == IF man_last(s) = "PP" THEN blk_imp(t, "PP", FALSE) ELSE t
           r == rew_scope(s, "PP")
<1>1. h = IF nrew < 1 THEN s
          ELSE IF nrew > Cardinality(open) THEN IF tok = "RE" THEN Closed(r, "br") ELSE r
          ELSE IF tok = "YS" /\ p = u THEN Closed(p, "YS") ELSE p
  BY DEF blk_close
<1>2. Len(s.path) \in Nat /\ Parent(s) \in Int /\ Parent(s) <= Len(s.path)
  <2>1. Len(s.path) \in Nat
    BY PathIs DEF Clean, Bared, Bare
  <2> QED BY <2>1 DEF Parent, Depth
<1>3. open \in SUBSET Nat /\ \A i \in open : i <= Len(s.path) /\ i \in 2..Len(s.path)
      /\ s.path[i].type = "block"
  BY <1>2
<1> HIDE DEF open
<1>4. Cardinality(open) \in Nat
  BY <1>2, <1>3, FS_BoundedSetOfNaturals, FS_CardinalityType
<1>5. nrew \in Int
  BY <1>4
<1> HIDE DEF nrew
<1>6. CASE nrew < 1
  BY <1>1, <1>6
<1>7. CASE ~(nrew < 1) /\ nrew > Cardinality(open)
  <2>1. Clean(r)
    <3> HIDE DEF r
    <3> QED BY CleanRew DEF r
  <2> HIDE DEF r
  <2>2. Clean(Closed(r, "br"))
    BY <2>1, CleanClosed
  <2> QED BY <1>1, <1>7, <2>1, <2>2
<1>8. CASE ~(nrew < 1) /\ ~(nrew > Cardinality(open))
  <2>1. nrew \in 1..Cardinality(open)
    BY <1>4, <1>5, <1>8
  <2>2. \E i \in open : Cardinality({j \in open : j >= i}) = nrew
    BY <1>2, <1>3, <2>1, Ranked
  <2>3. nn \in open
    BY <2>2
  <2> HIDE DEF nn, aux
  <2>4. nn \in 2..Len(s.path) /\ s.path[nn].type = "block"
    BY <1>3, <2>3
  <2>5. Clean(u)
    <3> DEFINE v == man_unscope(s, nn)
               m == IF tok = "RE" /\ aux THEN v.margin - 1 ELSE v.margin
    <3>1. u = [man_unscope(s, nn) EXCEPT !.margin = m]
      OBVIOUS
    <3> HIDE DEF u, m
    <3> QED BY <2>4, <3>1, CleanUnscope
  <2> HIDE DEF u
  <2>6. Clean(t)
    <3>1. Clean(Word(u, FALSE))
      BY <2>5, CleanWord
    <3> QED BY <2>5, <3>1
  <2> HIDE DEF t
  <2>7. Clean(p)
    <3>1. "PP" \in blk_imps /\ "PP" \notin MAN_BSCOPED
      BY DEF blk_imps, MAN_BSCOPED
    <3>2. Clean(blk_imp(t, "PP", FALSE))
      BY <2>6, <3>1, BlkImpOK
    <3> QED BY <2>6, <3>2
  <2> HIDE DEF p
  <2>8. Clean(Closed(p, "YS"))
    BY <2>7, CleanClosed
  <2>9. h = Closed(p, "YS") \/ h = p
    BY <1>1, <1>8
  <2> QED BY <2>7, <2>8, <2>9
<1> QED BY <1>6, <1>7, <1>8

\* At the end of the document, font macros that wait are deleted like in man_breakscope().
LEMMA EndWaitingOK ==
  ASSUME NEW s, Good(s), NEW t, t = EndWaiting(s)
  PROVE  Good(t) /\ t.eline = FALSE
<1>1. s.eline \/ s.eline = FALSE
  BY GoodIs
<1>2. CASE s.eline = FALSE
  BY <1>2 DEF EndWaiting
<1>3. CASE s.eline
  <2> DEFINE p == s.path
             n == Len(p)
             up == {j \in 2..n : \A k \in j..n : p[k].type = "elem" /\ p[k].tok \in MAN_ESCOPED}
  <2>1. PathOK(p) /\ HasFont(p)
    BY <1>3, GoodIs
  <2>2. PICK f \in 2..n : FontsFrom(p, f)
    BY <2>1, Fonts
  <2>3. n \in Nat /\ n \in 1..n /\ n \in f..n /\ n \in 2..n /\ \A k \in n..n : k = n
    BY <2>1, PathIs
  <2>4. p[n].type = "elem" /\ p[n].tok \in MAN_ESCOPED
    <3>1. p[n].tok = "B" /\ NodeOK(p, n)
      BY <2>1, <2>2, <2>3 DEF FontsFrom, PathOK
    <3> QED BY <3>1 DEF NodeOK, MAN_ESCOPED
  <2>5. n \in up
    BY <2>3, <2>4
  <2>6. t = IF up = {} THEN Fault(s) ELSE [roff_node_delete(s, Min(up)) EXCEPT !.eline = FALSE]
    BY <1>3 DEF EndWaiting, Depth
  <2>7. "" \notin MAN_NSCOPED
    BY DEF MAN_NSCOPED
  <2>8. (IF s.at = None THEN Depth(s) ELSE Parent(s)) = n
    BY DEF Depth, Parent
  <2>9. s.at.tok \notin {"SH", "PP", "block", "elem"}
    BY <2>1 DEF Good, AtOK
  <2>10. BreakElement(s, "") = [roff_node_delete(s, Min(up \cup {n})) EXCEPT !.eline = FALSE]
    BY <1>3, <2>7, <2>8, <2>9 DEF BreakElement
  <2> HIDE DEF up
  <2>11. up \cup {n} = up /\ up # {}
    BY <2>5
  <2>12. t = BreakElement(s, "")
    BY <2>6, <2>10, <2>11
  <2> QED BY <2>7, <2>12, BreakElementOK
<1> QED BY <1>1, <1>2, <1>3

\* man_endparse() closes or deletes everything and asserts nothing that is false.
LEMMA EndparseOK ==
  ASSUME NEW s, Good(s), NEW t, t = man_endparse(s)
  PROVE  Finished(t)
<1> DEFINE e == EndWaiting(s)
           b == IF ~e.bline THEN e
                ELSE IF Inner(e).type # "head" \/ Inner(e).tok \notin MAN_BSCOPED THEN Fault(e)
                ELSE [roff_node_delete(e, Depth(e) - 1) EXCEPT !.bline = FALSE]
<1>1. Good(e) /\ e.eline = FALSE
  <2> HIDE DEF e
  <2> QED BY EndWaitingOK DEF e
<1>2. t = IF Depth(b) = 1 THEN b ELSE man_unscope(b, 2)
  BY DEF man_endparse
<1> HIDE DEF e
<1>3. e.fault = FALSE /\ Rec(e) /\ PathOK(e.path) /\ NestOK(e.path) /\ ~HasFont(e.path)
  <2>1. e.fault = FALSE
    BY <1>1 DEF Good, FlagsOK
  <2> QED BY <1>1, <2>1, GoodIs
<1>4. Rec(b) /\ PathOK(b.path) /\ ~HasHead(b.path) /\ ~HasFont(b.path)
      /\ b.bline = FALSE /\ b.eline = FALSE /\ b.fault = FALSE
  <2>1. CASE ~HasHead(e.path)
    <3>1. e.bline = FALSE
      BY <1>1, <2>1, GoodIs
    <3>2. b = e
      BY <3>1
    <3> QED BY <1>1, <1>3, <2>1, <3>1, <3>2
  <2>2. CASE HasHead(e.path)
    <3> DEFINE n == Len(e.path)
               u == roff_node_delete(e, n - 1)
    <3>1. e.bline
      BY <1>1, <2>2, GoodIs
    <3>2. e.path[n].type = "head" /\ n > 2 /\ e.path[n].tok \in MAN_BSCOPED /\ n \in Nat
      BY <1>3, <2>2, HeadLast, PathIs
    <3>3. b = [u EXCEPT !.bline = FALSE]
      BY <3>1, <3>2 DEF Inner, Depth
    <3>4. Rec(u) /\ u.path = SubSeq(e.path, 1, (n - 1) - 1) /\ Flags(e, u)
      <4>1. ~(n - 1 <= 1)
        BY <3>2
      <4> HIDE DEF u
      <4> QED BY <1>3, <4>1, DeleteIs DEF u
    <3> HIDE DEF u, b
    <3>5. Rec(b) /\ b.path = u.path /\ b.bline = FALSE /\ b.eline = FALSE /\ b.fault = FALSE
      BY <1>1, <1>3, <3>3, <3>4 DEF Rec, Flags
    <3>6. Bare(b.path)
      BY <1>3, <2>2, <3>4, <3>5, CutHead
    <3> QED BY <3>5, <3>6 DEF Bare
  <2> QED BY <2>1, <2>2
<1> HIDE DEF b
<1>5. Len(b.path) \in Nat \ {0}
  BY <1>4, PathIs
<1>6. CASE Depth(b) = 1
  BY <1>2, <1>4, <1>6 DEF Finished, Depth
<1>7. CASE Depth(b) # 1
  <2>1. PICK i \in Nat : i = 2
    OBVIOUS
  <2>2. ~(i < 2 \/ i > Depth(b)) /\ 1 \in 1..Len(b.path) /\ i - 1 = 1
    <3>1. \A n \in Nat \ {0} : n # 1 => ~(2 > n) /\ 1 \in 1..n
      OBVIOUS
    <3>2. ~(2 > Len(b.path)) /\ 1 \in 1..Len(b.path) /\ Depth(b) = Len(b.path)
      BY <1>5, <1>7, <3>1 DEF Depth
    <3>3. ~(i < 2) /\ i - 1 = 1
      BY <2>1
    <3> QED BY <2>1, <3>2, <3>3
  <2>3. Rec(t) /\ t.path = SubSeq(b.path, 1, i - 1) /\ Flags(b, t)
    <3>1. t = man_unscope(b, i)
      BY <1>2, <1>7, <2>1
    <3> QED BY <1>4, <2>2, <3>1, UnscopeIs
  <2>4. t.path = SubSeq(b.path, 1, 1)
    BY <2>2, <2>3
  <2>5. Len(t.path) = 1 /\ \A m \in 1..1 : t.path[m] = b.path[m]
    BY <1>4, <2>2, <2>4, CutIs
  <2>6. ~HasHead(t.path) /\ ~HasFont(t.path)
    <3>1. \A m \in 1..Len(t.path) : m \in 1..Len(b.path) /\ t.path[m] = b.path[m]
      BY <1>5, <2>5
    <3> QED BY <1>4, <3>1 DEF HasHead, HasFont
  <2> QED BY <1>4, <2>3, <2>5, <2>6 DEF Finished, Flags
<1> QED BY <1>6, <1>7

-----------------------------------------------------------------------------
\* man_alloc() starts with the root alone.
LEMMA InitOK == Init => ManInv
<1> SUFFICES ASSUME Init PROVE ManInv
  OBVIOUS
<1> DEFINE x == Node("root", "root", None)
<1>1. IsNode("root", "root", None, x)
  <2> HIDE DEF x
  <2> QED BY NodeIs, NoneIs DEF x
<1>2. tbl = "none" /\ loose = FALSE
      /\ man = [path |-> <<x>>, at |-> None, bline |-> FALSE, eline |-> FALSE, nofill |-> FALSE,
             nonofill |-> FALSE, ce |-> -1, margin |-> 0, fault |-> FALSE] /\ eof = FALSE
  BY DEF Init, ManInit
<1> HIDE DEF x
<1>3. x \in NodeRec /\ x.tok = "root" /\ x.type = "root"
  BY <1>1 DEF IsNode
<1>4. Rec(man) /\ man.path = <<x>> /\ man.at = None /\ man.bline = FALSE /\ man.eline = FALSE
      /\ man.nonofill = FALSE
      /\ man.ce = -1 /\ man.fault = FALSE
  BY <1>2 DEF Rec
<1>5. \A p : p = <<x>> => Bare(p)
  <2> SUFFICES ASSUME NEW p, p = <<x>> PROVE Bare(p)
    OBVIOUS
  <2>1. p \in Seq(NodeRec) /\ Len(p) = 1 /\ p[1] = x /\ p # <<>>
    BY <1>3
  <2>2. \A i \in 1..Len(p) : i = 1
    BY <2>1
  <2> HIDE <1>4
  <2>3. p[1].tok = "root" /\ p[1].type = "root"
    BY <1>3, <2>1
  <2>4. NodeOK(p, 1)
    BY <2>3 DEF NodeOK
  <2>5. PathOK(p)
    BY <2>1, <2>2, <2>4 DEF PathOK
  <2>6. NestOK(p)
    BY <2>2, <2>3 DEF NestOK, IsBlock
  <2> QED BY <2>2, <2>3, <2>5, <2>6 DEF Bare, HasHead, HasFont, HasCe
<1>6. Clean(man)
  BY <1>4, <1>5, NoneIs, CalmOff DEF Clean, Bared
<1>7. Good(man)
  BY <1>6, CleanGood
<1> QED BY <1>2, <1>7 DEF ManInv

\* Whether a line has arguments and whether it ends in \c.
LEMMA ArgsIs ==
  ASSUME NEW a \in ArgsAndC
  PROVE  a[1] \in BOOLEAN /\ a[2] \in BOOLEAN
<1>1. a = <<FALSE, FALSE>> \/ a = <<TRUE, FALSE>> \/ a = <<TRUE, TRUE>>
  BY DEF ArgsAndC
<1>2. CASE a = <<FALSE, FALSE>>
  BY <1>2
<1>3. CASE a = <<TRUE, FALSE>>
  BY <1>3
<1>4. CASE a = <<TRUE, TRUE>>
  BY <1>4
<1> QED BY <1>1, <1>2, <1>3, <1>4

\* When ROFF_NONOFILL is changed, all else stays as it is.
LEMMA NoFillIs ==
  ASSUME NEW s, Rec(s), NEW b, NEW t, t = [s EXCEPT !.nonofill = b]
  PROVE  /\ Rec(t) /\ t.path = s.path /\ t.at = s.at /\ t.bline = s.bline /\ t.eline = s.eline
         /\ t.nonofill = b /\ t.ce = s.ce /\ t.fault = s.fault
BY DEF Rec

\* The invariant of the parser holds in the next state if the state s that a handler leaves has
\* it and ROFF_NONOFILL fits to the head and to the table that is open then.
LEMMA Carried ==
  ASSUME NEW s, Good(s), NEW b \in BOOLEAN, man' = [s EXCEPT !.nonofill = b],
         b => s.bline \/ tbl' # "none", s.bline => b \/ loose'
  PROVE  Good(man)'
<1> DEFINE t == man'
<1>1. Rec(s) /\ PathOK(s.path) /\ NestOK(s.path) /\ AtOK(s.path, s.at)
  BY DEF Good
<1>2. FlagsOK(s.path, s.bline, s.eline, s.nonofill, s.ce, s.fault)
  BY DEF Good
<1>3. /\ Rec(t) /\ t.path = s.path /\ t.at = s.at /\ t.bline = s.bline /\ t.eline = s.eline
      /\ t.nonofill = b /\ t.ce = s.ce /\ t.fault = s.fault
  <2> HIDE DEF t
  <2> QED BY <1>1, NoFillIs DEF t
<1>4. NoFillOK(b, HasHead(s.path))'
  BY <1>2, Zenon DEF FlagsOK, NoFillOK
<1>5. FlagsOK(s.path, s.bline, s.eline, b, s.ce, s.fault)'
  BY <1>2, <1>4, Zenon DEF FlagsOK
<1>6. FlagsOK(man.path, man.bline, man.eline, man.nonofill, man.ce, man.fault)'
  BY <1>3, <1>5
<1>7. Rec(man)' /\ PathOK(man.path)' /\ NestOK(man.path)' /\ AtOK(man.path, man.at)'
  BY <1>1, <1>3
<1> QED BY <1>6, <1>7 DEF Good

\* The vertical space that replaces a table without cells leaves ROFF_NONOFILL clear.
LEMMA SpaceOK ==
  ASSUME NEW s, Good(s), s.nonofill = FALSE, NEW t, t = roff_onearg(s, "sp", 0)
  PROVE  Good(t) /\ t.nonofill = FALSE
<1> DEFINE b == IF s.bline \/ s.eline THEN man_breakscope(s, "sp") ELSE s
<1>1. Good(b) /\ b.nonofill = FALSE
  BY BreakscopeOK, BreakscopeOff
<1>2. t = Closed(b, "sp")
  BY DEF roff_onearg
<1>3. "sp" \notin Macros
  BY DEF Macros, Elements, blk_imps, blk_exps, blk_closes
<1> HIDE DEF b
<1>4. Good(t)
  BY <1>1, <1>2, <1>3, ClosedOK
<1>5. Flags(b, t)
  BY <1>1, <1>2, GoodIs, ClosedIs
<1> QED BY <1>1, <1>4, <1>5 DEF Flags

\* TE between any two lines, with or without a table.
LEMMA TEOK ==
  ASSUME ManInv, ~eof, TE
  PROVE  ManInv'
<1> DEFINE s == [man EXCEPT !.nonofill = FALSE]
<1>1. Good(man) /\ (tbl # "none" => loose) /\ loose \in BOOLEAN
  BY DEF ManInv
<1>2. man' = (IF tbl = "empty" THEN roff_onearg(s, "sp", 0) ELSE s) /\ tbl' = "none"
      /\ loose' = man'.bline /\ eof' = eof
  BY DEF TE, Line, roff_TE
<1>3. /\ Rec(s) /\ s.path = man.path /\ s.at = man.at /\ s.bline = man.bline /\ s.eline = man.eline
      /\ s.nonofill = FALSE /\ s.ce = man.ce /\ s.fault = man.fault
  <2>1. Rec(man)
    BY <1>1, GoodIs
  <2> HIDE DEF s
  <2> QED BY <2>1, NoFillIs DEF s
<1>4. CASE tbl # "empty"
  <2>1. man' = s
    BY <1>2, <1>4
  <2>2. Good(man)'
    <3>1. man.bline => loose'
      BY <1>2, <1>3, <2>1
    <3> QED BY <1>1, <2>1, <3>1, Carried
  <2>3. loose' \in BOOLEAN
    <3>1. man.bline \in BOOLEAN
      BY <1>1 DEF Good, FlagsOK
    <3> QED BY <1>2, <1>3, <2>1, <3>1
  <2> QED BY <1>2, <2>2, <2>3 DEF ManInv
<1>5. CASE tbl = "empty"
  <2> HIDE DEF s
  <2>1. FlagsOK(s.path, s.bline, s.eline, s.nonofill, s.ce, s.fault)
    <3>1. FlagsOK(man.path, man.bline, man.eline, man.nonofill, man.ce, man.fault)
      BY <1>1 DEF Good
    <3>2. loose
      BY <1>1, <1>5
    <3>3. FlagsOK(man.path, man.bline, man.eline, FALSE, man.ce, man.fault)
      BY <3>1, <3>2, Zenon DEF FlagsOK, NoFillOK
    <3> QED BY <1>3, <3>3
  <2>2. Good(s)
    BY <1>1, <1>3, <2>1 DEF Good
  <2>3. Good(man') /\ man'.nonofill = FALSE
    BY <1>2, <1>3, <1>5, <2>2, SpaceOK
  <2> DEFINE m == man'
  <2> HIDE DEF m
  <2>4. Good(m) /\ m.nonofill = FALSE /\ man' = m
    BY <2>3 DEF m
  <2>5. Rec(m) /\ m.bline \in BOOLEAN
    BY <2>4 DEF Good, FlagsOK
  <2>6. m = [m EXCEPT !.nonofill = FALSE]
    BY <2>4, <2>5 DEF Rec
  <2>7. m.bline => loose'
    BY <1>2, <2>4
  <2>8. Good(man)'
    BY <2>4, <2>6, <2>7, Carried
  <2> QED BY <1>2, <2>4, <2>5, <2>8 DEF ManInv
<1> QED BY <1>4, <1>5

\* The invariant is inductive: it holds after each line, whatever the lines before it.
LEMMA StepOK == ManInv /\ [Next]_vars => ManInv'
<1> SUFFICES ASSUME ManInv, [Next]_vars PROVE ManInv'
  OBVIOUS
<1>1. CASE UNCHANGED vars
  <2>1. man' = man /\ tbl' = tbl /\ loose' = loose /\ eof' = eof
    BY <1>1 DEF vars
  <2>2. CASE eof
    BY <2>1, <2>2 DEF ManInv
  <2>3. CASE ~eof
    <3>1. Good(man)
      BY <2>3 DEF ManInv
    <3>2. man = [man EXCEPT !.nonofill = man.nonofill] /\ man.nonofill \in BOOLEAN
      BY <3>1 DEF Good, Rec, FlagsOK
    <3>3. (man.nonofill => man.bline \/ tbl # "none") /\ (man.bline => man.nonofill \/ loose)
      BY <3>1, Zenon DEF Good, FlagsOK, NoFillOK
    <3>4. Good(man)'
      <4>1. man' = [man EXCEPT !.nonofill = man.nonofill]
        BY <2>1, <3>2
      <4>2. (man.nonofill => man.bline \/ tbl' # "none") /\ (man.bline => man.nonofill \/ loose')
        BY <2>1, <3>3
      <4> QED BY <3>1, <3>2, <4>1, <4>2, Carried
    <3> QED BY <2>1, <2>3, <3>4 DEF ManInv
  <2> QED BY <2>2, <2>3
<1>2. CASE Next
  <2>1. eof = FALSE /\ Good(man)
    BY <1>2 DEF Next, ManInv
  <2>2. ASSUME NEW s, Parsed(s), Good(s) PROVE ManInv'
    <3>1. man' = s /\ tbl' = tbl /\ eof' = eof
          /\ loose' = (loose /\ (tbl # "none" \/ (s.bline /\ ~s.nonofill)))
      BY <2>2 DEF Parsed, Line
    <3>2. s = [s EXCEPT !.nonofill = s.nonofill] /\ s.nonofill \in BOOLEAN /\ s.bline \in BOOLEAN
      BY <2>2 DEF Good, Rec, FlagsOK
    <3>3. (s.nonofill => s.bline \/ tbl # "none") /\ (s.bline => s.nonofill \/ loose)
      BY <2>2, Zenon DEF Good, FlagsOK, NoFillOK
    <3>4. Good(man)'
      <4>1. (s.nonofill => s.bline \/ tbl' # "none") /\ (s.bline => s.nonofill \/ loose')
        BY <3>1, <3>3
      <4>2. man' = [s EXCEPT !.nonofill = s.nonofill]
        BY <3>1, <3>2
      <4> QED BY <2>2, <3>2, <4>1, <4>2, Carried
    <3>5. loose \in BOOLEAN /\ (tbl # "none" => loose)
      BY DEF ManInv
    <3>6. loose' \in BOOLEAN /\ (tbl' # "none" => loose')
      BY <3>1, <3>2, <3>5
    <3> QED BY <2>1, <3>1, <3>4, <3>6 DEF ManInv
  <2>3. CASE BlkImp
    <3>1. PICK tok \in Use(blk_imps), a \in ArgsAndC :
            Parsed(man_pmacro(man, tok, a[2], blk_imp(Broken(man, tok), tok, a[1])))
      BY <2>3 DEF BlkImp
    <3>2. tok \in blk_imps /\ a[1] \in BOOLEAN /\ a[2] \in BOOLEAN
      <4>1. tok \in blk_imps
        BY DEF Use
      <4> QED BY <4>1, ArgsIs
    <3>3. Ends(tok)
      BY <3>2 DEF Ends, MAN_XSCOPE, Macros, blk_imps
    <3>4. Clean(Broken(man, tok))
      BY <2>1, <3>3, BrokenClean
    <3>5. Good(blk_imp(Broken(man, tok), tok, a[1]))
      BY <3>2, <3>4, BlkImpOK
    <3>6. Good(man_pmacro(man, tok, a[2], blk_imp(Broken(man, tok), tok, a[1])))
      BY <2>1, <3>2, <3>3, <3>5, PmacroEnds
    <3> QED BY <2>2, <3>1, <3>6
  <2>4. CASE BlkExp
    <3>1. PICK tok \in Use(blk_exps), args \in BOOLEAN :
            Parsed(man_pmacro(man, tok, FALSE, blk_exp(Broken(man, tok), tok, args)))
      BY <2>4 DEF BlkExp
    <3>2. tok \in blk_exps /\ FALSE \in BOOLEAN
      BY DEF Use
    <3>3. Ends(tok)
      BY <3>2 DEF Ends, MAN_XSCOPE, Macros, blk_exps
    <3>4. Clean(Broken(man, tok))
      BY <2>1, <3>3, BrokenClean
    <3>5. Good(blk_exp(Broken(man, tok), tok, args))
      BY <3>2, <3>4, BlkExpOK, CleanGood
    <3>6. Good(man_pmacro(man, tok, FALSE, blk_exp(Broken(man, tok), tok, args)))
      BY <2>1, <3>2, <3>3, <3>5, PmacroEnds
    <3> QED BY <2>2, <3>1, <3>6
  <2>5. CASE BlkClose
    <3>1. PICK tok \in Use(blk_closes), trail \in BOOLEAN, to \in Nat :
            Parsed(man_pmacro(man, tok, FALSE, blk_close(Broken(man, tok), tok, to, trail)))
      <4>1. PICK tok \in Use(blk_closes), trail \in BOOLEAN :
              \E to \in IF tok = "RE" THEN 0..2 ELSE {0} :
                Parsed(man_pmacro(man, tok, FALSE, blk_close(Broken(man, tok), tok, to, trail)))
        BY <2>5 DEF BlkClose
      <4>2. (IF tok = "RE" THEN 0..2 ELSE {0}) \subseteq Nat
        OBVIOUS
      <4> QED BY <4>1, <4>2, Zenon
    <3>2. tok \in blk_closes /\ FALSE \in BOOLEAN
      BY DEF Use
    <3>3. Ends(tok)
      BY <3>2 DEF Ends, MAN_XSCOPE, Macros, blk_closes
    <3>4. Clean(Broken(man, tok))
      BY <2>1, <3>3, BrokenClean
    <3>5. Good(blk_close(Broken(man, tok), tok, to, trail))
      BY <3>2, <3>4, BlkCloseOK, CleanGood
    <3>6. Good(man_pmacro(man, tok, FALSE, blk_close(Broken(man, tok), tok, to, trail)))
      BY <2>1, <3>2, <3>3, <3>5, PmacroEnds
    <3> QED BY <2>2, <3>1, <3>6
  <2>6. CASE InLine
    <3>1. PICK tok \in Use(Elements), a \in ArgsAndC :
            Parsed(man_pmacro(man, tok, a[2], in_line_eoln(Broken(man, tok), tok, a[1])))
      BY <2>6 DEF InLine
    <3>2. tok \in Elements /\ a[1] \in BOOLEAN /\ a[2] \in BOOLEAN
      <4>1. tok \in Elements
        BY DEF Use
      <4> QED BY <4>1, ArgsIs
    <3>3. Good(man_pmacro(man, tok, a[2], in_line_eoln(Broken(man, tok), tok, a[1])))
      BY <2>1, <3>2, InLineOK
    <3> QED BY <2>2, <3>1, <3>3
  <2>7. CASE TextLine
    BY <2>1, <2>2, <2>7, TextOK DEF TextLine
  <2>8. CASE BlankLine
    BY <2>1, <2>2, <2>8, BlankOK DEF BlankLine
  <2>9. CASE NoArg
    BY <2>1, <2>2, <2>9, NoArgOK DEF NoArg, Use
  <2>10. CASE OneArg
    <3>1. PICK tok \in Use(onearg), lines \in 0..MaxCe : Parsed(roff_onearg(man, tok, lines))
      BY <2>10 DEF OneArg
    <3>2. tok \in onearg /\ lines \in Nat
      BY ManAssumption DEF Use
    <3>3. Good(roff_onearg(man, tok, lines))
      BY <2>1, <3>2, OneArgOK
    <3> QED BY <2>2, <3>1, <3>3
  <2>11. CASE EQ
    BY <2>1, <2>2, <2>11, EquationOK DEF EQ
  <2>12. CASE TS
    <3> DEFINE s == EndCe(man)
    <3>1. man' = [s EXCEPT !.nonofill = TRUE] /\ tbl' = "empty" /\ loose' = TRUE /\ eof' = eof
      BY <2>12 DEF TS, Line, roff_TS
    <3>2. Good(s)
      BY <2>1, EndCeOK
    <3> HIDE DEF s
    <3>3. Good(man)'
      BY <3>1, <3>2, Carried
    <3> QED BY <2>1, <3>1, <3>3 DEF ManInv
  <2>13. CASE TableLine
    <3>1. PICK row \in BOOLEAN, cell \in BOOLEAN :
            man' = roff_addtbl(man, row) /\ tbl' = IF row /\ cell THEN "filled" ELSE tbl
      BY <2>13 DEF TableLine, Line
    <3>2. tbl # "none" /\ loose' = loose /\ eof' = eof
      BY <2>13 DEF TableLine, Line
    <3>3. loose = TRUE /\ tbl' # "none"
      BY <3>1, <3>2 DEF ManInv
    <3> DEFINE s == roff_addtbl(man, row)
    <3>4. Good(s)
      <4> HIDE DEF s
      <4> QED BY <2>1, TableOK DEF s
    <3> HIDE DEF s
    <3>5. s = [s EXCEPT !.nonofill = s.nonofill] /\ s.nonofill \in BOOLEAN
      BY <3>4 DEF Good, Rec, FlagsOK
    <3>6. man' = [s EXCEPT !.nonofill = s.nonofill]
      BY <3>1, <3>5 DEF s
    <3>7. Good(man)'
      BY <3>2, <3>3, <3>4, <3>5, <3>6, Carried
    <3> QED BY <2>1, <3>2, <3>3, <3>7 DEF ManInv
  <2>14. CASE TE
    BY <2>1, <2>14, TEOK
  <2>15. CASE EndOfFile
    <3>1. man' = man_endparse(man) /\ eof' = TRUE /\ tbl' = tbl /\ loose' = loose
      BY <2>15 DEF EndOfFile
    <3>2. Finished(man')
      BY <2>1, <3>1, EndparseOK
    <3> QED BY <3>1, <3>2 DEF ManInv
  <2> QED BY <1>2, <2>3, <2>4, <2>5, <2>6, <2>7, <2>8, <2>9, <2>10, <2>11, <2>12, <2>13,
              <2>14, <2>15 DEF Next
<1> QED BY <1>1, <1>2

\* The inductive invariant of the man(7) parser holds for documents of any length, blocks
\* nested to any depth, tables of any length, any argument of ce, and any subset of the macros.
THEOREM ManInvariant == Spec => []ManInv
BY InitOK, StepOK, PTL DEF Spec

\* The invariant says that no assertion failed.
LEMMA NoFaultIs == ManInv => NoFault
<1> SUFFICES ASSUME ManInv PROVE man.fault = FALSE
  BY DEF NoFault
<1>1. CASE eof
  BY <1>1 DEF ManInv, Finished
<1>2. CASE ~eof
  BY <1>2 DEF ManInv, Good, FlagsOK
<1> QED BY <1>1, <1>2

\* The assertions of man_breakscope(), man_unscope(), man_macro() and check_root() hold, no
\* parent of the root is used and only the kind of node is deleted that is expected, in whatever
\* order next-line scopes are opened, broken and closed.
THEOREM NoFaultHolds == Spec => []NoFault
BY ManInvariant, NoFaultIs, PTL

\* The invariant relates the flags to the chain as ScopeFlags does.
LEMMA ScopeFlagsIs == ManInv => ScopeFlags
<1> SUFFICES ASSUME ManInv PROVE ScopeFlags
  OBVIOUS
<1> DEFINE p == man.path
           heads == {i \in 1..Depth(man) : man.path[i].type = "head"}
           fonts == {i \in 1..Depth(man) : man.path[i].tok \in MAN_ESCOPED}
<1>1. HasHead(p) <=> heads # {}
  BY DEF HasHead, Depth
<1>2. HasFont(p) <=> fonts # {}
  BY DEF HasFont, Depth, MAN_ESCOPED
<1>3. CASE eof
  <2>1. Len(p) = 1 /\ ~HasHead(p) /\ ~HasFont(p) /\ man.bline = FALSE /\ man.eline = FALSE
    BY <1>3 DEF ManInv, Finished
  <2>2. Depth(man) = 1 /\ heads = {} /\ fonts = {}
    BY <1>1, <1>2, <2>1 DEF Depth
  <2>3. ~man.bline /\ ~man.eline
    BY <2>1
  <2> HIDE DEF heads, fonts
  <2>4. /\ man.bline <=> heads # {}
        /\ man.eline <=> fonts # {}
        /\ man.nonofill => man.bline \/ tbl # "none" \/ eof
        /\ man.bline => man.nonofill \/ loose
        /\ \A i \in heads : i..Depth(man) \subseteq heads \cup fonts
        /\ eof => Depth(man) = 1
    BY <1>3, <2>2, <2>3, Zenon
  <2> QED BY <2>4 DEF ScopeFlags, heads, fonts
<1>4. CASE ~eof
  <2>1. Good(man)
    BY <1>4 DEF ManInv
  <2>2. PathOK(p) /\ (man.bline <=> HasHead(p)) /\ (man.eline <=> HasFont(p))
        /\ (man.nonofill => HasHead(p) \/ tbl # "none") /\ (HasHead(p) => man.nonofill \/ loose)
    BY <2>1, Zenon DEF Good, FlagsOK, NoFillOK
  <2>3. Len(p) \in Nat
    BY <2>2, PathIs
  <2>4. ASSUME NEW i \in heads, NEW j \in i..Depth(man) PROVE j \in heads \cup fonts
    <3>1. i \in 1..Len(p) /\ p[i].type = "head" /\ NodeOK(p, i) /\ j \in 1..Len(p)
      BY <2>2, <2>3 DEF PathOK, Depth
    <3>2. CASE j = i
      BY <3>2
    <3>3. CASE j # i
      <4>1. j \in (i + 1)..Len(p)
        BY <2>3, <3>1, <3>3 DEF Depth
      <4>2. p[j].tok = "B"
        BY <3>1, <4>1 DEF NodeOK
      <4> QED BY <3>1, <4>2 DEF MAN_ESCOPED, Depth
    <3> QED BY <3>2, <3>3
  <2>5. \A i \in heads : i..Depth(man) \subseteq heads \cup fonts
    BY <2>4
  <2> HIDE DEF heads, fonts, p
  <2>6. /\ man.bline <=> heads # {}
        /\ man.eline <=> fonts # {}
        /\ man.nonofill => man.bline \/ tbl # "none" \/ eof
        /\ man.bline => man.nonofill \/ loose
        /\ \A i \in heads : i..Depth(man) \subseteq heads \cup fonts
        /\ eof => Depth(man) = 1
    BY <1>1, <1>2, <1>4, <2>2, <2>5, Zenon
  <2> QED BY <2>6 DEF ScopeFlags, heads, fonts
<1> QED BY <1>3, <1>4

\* MAN_BLINE and MAN_ELINE agree with the tree after every line and ROFF_NONOFILL with the tree
\* and the table: none of them outlives the head, element or table it belongs to, also when that
\* is deleted, ROFF_NONOFILL is set while a head is open unless TS or TE changed it, and nothing
\* is left open at the end of the input.
THEOREM ScopeFlagsHolds == Spec => []ScopeFlags
BY ManInvariant, ScopeFlagsIs, PTL

\* The invariant contains Nested.
LEMMA NestedIs == ManInv => Nested
<1> SUFFICES ASSUME ManInv PROVE Nested
  OBVIOUS
<1>1. CASE eof
  <2>1. Len(man.path) = 1
    BY <1>1 DEF ManInv, Finished
  <2>2. \A i \in 2..Depth(man) : FALSE
    BY <2>1 DEF Depth
  <2> QED BY <2>2 DEF Nested
<1>2. CASE ~eof
  <2>1. PathOK(man.path) /\ NestOK(man.path)
    BY <1>2 DEF ManInv, Good
  <2>2. Len(man.path) \in Nat
    BY <2>1, PathIs
  <2>3. ASSUME NEW i \in 2..Depth(man) PROVE i \in 1..Len(man.path)
    BY <2>2 DEF Depth
  <2>4. ASSUME NEW i \in 2..Depth(man), NEW j \in 2..Depth(man)
        PROVE  /\ IsBlock(man.path, i, {"SH"}) => i = 2
               /\ IsBlock(man.path, i, {"SS"}) => i = 2 \/ (i = 4 /\ IsBlock(man.path, 2, {"SH"}))
               /\ (i < j /\ IsBlock(man.path, i, pars) /\ IsBlock(man.path, j, pars)) =>
                    \E k \in i..j : IsBlock(man.path, k, blk_exps)
    BY <2>1, <2>3 DEF NestOK
  <2> QED BY <2>4 DEF Nested, IsBlock, pars
<1> QED BY <1>1, <1>2

\* rew_scope(), blk_imp(), blk_exp() and blk_close() nest blocks as man(7) wants it, whatever
\* was broken or closed in between.
THEOREM NestedHolds == Spec => []Nested
BY ManInvariant, NestedIs, PTL
=============================================================================
