---------------------------- MODULE MparseProofs ----------------------------
(***************************************************************************)
(* Proofs about Mparse, for documents of any lines and any length, and for *)
(* every REPARSE_LIMIT and limit on nested files.                          *)
(*                                                                         *)
(* First, what one call of roff_parseln() may do, for every state and      *)
(* every line.  There is a lemma for each handler, and each says that what *)
(* it returns is Sound.  The point of Sound is endspan, which counts the   *)
(* lines that a conditional scope lasts: a scope for which it is positive  *)
(* is only ever the innermost one.  It is 2 only between the conditional   *)
(* and the end of its line, where nothing else but the end of the line can *)
(* come.                                                                   *)
(*                                                                         *)
(* Then the main parser around it.  MparseInv has one part                 *)
(* for each of the four properties:                                        *)
(*   LoopOK  a loop that is open was seen by the invocation it is in, and  *)
(*           by no later one, hence an invocation that has seen a loop and *)
(*           finds curp->loop set finds it in its own lookaside buffer     *)
(*   Count   of macros is at most the number of macro contexts             *)
(*   Budget  since the last line of a file was read, each expansion has    *)
(*           increased reparse_count, hence what is left of ReparseLimit   *)
(*           can still be spent within ReparseLimit for each line          *)
(*   SpanOK  a scope that lasts two lines only exists while its own line   *)
(*           is being parsed                                               *)
(***************************************************************************)
EXTENDS Mparse, BasicLemmas, FiniteSetTheorems

\* All scopes last until a brace or an end marker.
Low(stack) == \A i \in 1..Len(stack) : stack[i].endspan <= 0

\* Only the innermost scope may end with a line: the next one.
Spans(stack) ==
  \A i \in 1..Len(stack) :
    stack[i].endspan > 0 => i = Len(stack) /\ stack[i].endspan = 1

\* A conditional that applies to the next line was just read: the innermost
\* scope covers the rest of this line, too.
Waiting(stack) ==
  /\ stack # <<>> /\ Top(stack).endspan = 2 /\ Top(stack).tok \in CondTok
  /\ \A i \in 1..(Len(stack) - 1) : stack[i].endspan <= 0

\* A scope on the stack r->last has the type of scopes.
LEMMA NodeElem ==
  ASSUME NEW s \in Seq(Node), NEW i \in 1..Len(s)
  PROVE  s[i] \in Node /\ s[i].endspan \in {-1, 0, 1, 2} /\ s[i].rule \in {0, 1}
<1>1. s[i] \in Node
  BY SeqElem
<1> QED BY <1>1 DEF Node

\* A scope comes one line nearer to its end.
LEMMA LessSpan ==
  ASSUME NEW z \in Node, z.endspan \in {1, 2}, NEW x, x = [z EXCEPT !.endspan = @ - 1]
  PROVE  x \in Node /\ x.endspan = z.endspan - 1
<1>1. z.endspan - 1 \in {-1, 0, 1, 2}
  OBVIOUS
<1>2. /\ z.tok \in CondTok \cup BlockTok /\ z.name \in Macros \cup {NoName}
      /\ z.end \in Macros \cup {NoName} /\ z.rule \in {0, 1}
  BY DEF Node
<1>3. x = [tok |-> z.tok, name |-> z.name, end |-> z.end, rule |-> z.rule, endspan |-> z.endspan - 1]
  BY DEF Node
<1> QED BY <1>1, <1>2, <1>3 DEF Node

\* roffnode_pop() drops the innermost scope and no other.
LEMMA PopKeeps ==
  ASSUME NEW s \in Seq(Node), s # <<>>
  PROVE  Prefix(Node, s, Len(s) - 1, roffnode_pop(s))
<1>1. Len(s) - 1 \in 0..Len(s)
  BY NonEmpty
<1> QED BY <1>1, Cut DEF roffnode_pop

\* Popping or keeping the first n scopes.
LEMMA PrefixLow ==
  ASSUME NEW s \in Seq(Node), NEW n \in 0..Len(s), NEW t, Prefix(Node, s, n, t),
         \A i \in 1..n : s[i].endspan <= 0
  PROVE  Low(t)
<1>1. Len(t) = n /\ \A m \in 1..n : t[m] = s[m]
  BY DEF Prefix
<1> QED BY <1>1 DEF Low

\* Inside the innermost scope, all scopes last until a brace or an end marker.
LEMMA PopSpans ==
  ASSUME NEW s \in Seq(Node), s # <<>>, Spans(s)
  PROVE  roffnode_pop(s) \in Seq(Node) /\ Low(roffnode_pop(s))
<1> DEFINE t == roffnode_pop(s)
<1>1. Prefix(Node, s, Len(s) - 1, t) /\ Len(s) \in Nat \ {0}
  BY PopKeeps, NonEmpty
<1>2. Len(s) - 1 \in 0..Len(s)
  BY <1>1
<1>3. ASSUME NEW i \in 1..(Len(s) - 1) PROVE s[i].endspan <= 0
  <2>1. i \in 1..Len(s) /\ i # Len(s)
    BY <1>1
  <2>2. s[i].endspan \in {-1, 0, 1, 2} /\ ~(s[i].endspan > 0)
    BY <2>1, NodeElem DEF Spans
  <2> QED BY <2>2
<1> HIDE DEF t
<1>4. t \in Seq(Node)
  BY <1>1 DEF Prefix
<1>5. Low(t)
  BY <1>1, <1>2, <1>3, PrefixLow
<1> QED BY <1>4, <1>5 DEF t

\* roffnode_cleanscope() pops the scopes that end with this line, from the innermost on.
LEMMA KeptIs ==
  ASSUME NEW s \in Seq(Node)
  PROVE  /\ Kept(s) \in 0..Len(s)
         /\ \A i \in (Kept(s) + 1)..Len(s) : s[i].endspan = 1
         /\ Kept(s) > 0 => s[Kept(s)].endspan # 1
<1> DEFINE stays == {i \in 1..Len(s) : s[i].endspan # 1}
<1>0. DOMAIN s = 1..Len(s) /\ Len(s) \in Nat
  OBVIOUS
<1>1. CASE stays = {}
  <2>1. Kept(s) = 0
    BY <1>0, <1>1 DEF Kept
  <2> QED BY <1>0, <1>1, <2>1
<1>2. CASE stays # {}
  <2>1. stays \in SUBSET Nat /\ \A n \in stays : n <= Len(s)
    BY <1>0
  <2>2. \E i \in stays : \A j \in stays : j <= i
    BY <1>0, <1>2, <2>1, Greatest
  <2>3. Kept(s) \in stays /\ \A j \in stays : j <= Kept(s)
    BY <1>0, <1>2, <2>2 DEF Kept
  <2> HIDE DEF stays
  <2>4. Kept(s) \in 1..Len(s) /\ s[Kept(s)].endspan # 1
    BY <2>3 DEF stays
  <2>5. ASSUME NEW i \in (Kept(s) + 1)..Len(s) PROVE s[i].endspan = 1
    <3>1. i \in 1..Len(s) /\ ~(i <= Kept(s))
      BY <1>0, <2>4
    <3>2. i \notin stays
      BY <2>3, <3>1
    <3> QED BY <3>1, <3>2 DEF stays
  <2> QED BY <1>0, <2>4, <2>5
<1> QED BY <1>1, <1>2

\* At the end of a line, the scopes that end with it are gone.
LEMMA CleanType ==
  ASSUME NEW s \in Seq(Node)
  PROVE  roffnode_cleanscope(s) \in Seq(Node) /\ Len(roffnode_cleanscope(s)) <= Len(s)
<1> DEFINE k == Kept(s)
           rest == SubSeq(s, 1, k)
<1>0. k \in 0..Len(s) /\ Len(s) \in Nat
  BY KeptIs
<1>1. Prefix(Node, s, k, rest)
  BY <1>0, Cut
<1>2. rest \in Seq(Node) /\ Len(rest) = k /\ \A m \in 1..k : rest[m] = s[m]
  BY <1>1 DEF Prefix
<1>3. CASE k > 0 /\ s[k].endspan > 0
  <2>1. k \in 1..Len(s) /\ k \in 1..k
    BY <1>0, <1>3
  <2>2. rest[k] \in Node /\ rest[k].endspan \in {1, 2}
    <3>1. s[k] \in Node /\ s[k].endspan \in {-1, 0, 1, 2}
      BY <2>1, NodeElem
    <3>2. rest[k] = s[k]
      BY <1>2, <2>1
    <3> HIDE DEF k, rest
    <3> QED BY <1>3, <3>1, <3>2
  <2> DEFINE x == [rest[k] EXCEPT !.endspan = @ - 1]
  <2>3. x \in Node
    BY <2>2, LessSpan
  <2>4. roffnode_cleanscope(s) = [rest EXCEPT ![k] = x]
    BY <1>3 DEF roffnode_cleanscope
  <2> HIDE DEF x, rest, k
  <2>5. Put(Node, rest, k, x, roffnode_cleanscope(s))
    BY <1>2, <2>1, <2>3, <2>4, Replaced
  <2> QED BY <1>0, <1>2, <2>5 DEF Put
<1>4. CASE ~(k > 0 /\ s[k].endspan > 0)
  <2>1. roffnode_cleanscope(s) = rest
    BY <1>4 DEF roffnode_cleanscope
  <2> QED BY <1>0, <1>2, <2>1
<1> QED BY <1>3, <1>4

\* After roffnode_cleanscope(), a scope that was to end with this line is gone.
LEMMA CleanSpans ==
  ASSUME NEW s \in Seq(Node), Spans(s)
  PROVE  Low(roffnode_cleanscope(s))
<1> DEFINE k == Kept(s)
           rest == SubSeq(s, 1, k)
<1>0. k \in 0..Len(s) /\ Len(s) \in Nat /\ (k > 0 => s[k].endspan # 1)
      /\ \A i \in (k + 1)..Len(s) : s[i].endspan = 1
  BY KeptIs
<1>1. Prefix(Node, s, k, rest)
  BY <1>0, Cut
<1> HIDE DEF k, rest
<1>2. \A i \in 1..k : s[i].endspan <= 0
  <2> SUFFICES ASSUME NEW i \in 1..k PROVE s[i].endspan <= 0
    OBVIOUS
  <2>1. i \in 1..Len(s) /\ s[i].endspan \in {-1, 0, 1, 2}
    BY <1>0, NodeElem
  <2>2. s[i].endspan > 0 => i = Len(s) /\ s[i].endspan = 1
    BY <2>1 DEF Spans
  <2>3. s[i].endspan > 0 => i = k
    BY <1>0, <2>2
  <2> QED BY <1>0, <2>1, <2>2, <2>3
<1>3. roffnode_cleanscope(s) = rest
  <2>1. ~(k > 0 /\ s[k].endspan > 0)
    BY <1>0, <1>2, NodeElem
  <2> QED BY <2>1 DEF roffnode_cleanscope, k, rest
<1> QED BY <1>0, <1>1, <1>2, <1>3, PrefixLow

\* After roffnode_cleanscope() on the line of a conditional that applies to the next
\* line, the scope ends with that next line.
LEMMA CleanWaiting ==
  ASSUME NEW s \in Seq(Node), Waiting(s)
  PROVE  LET t == roffnode_cleanscope(s)
         IN Spans(t) /\ t # <<>> /\ Top(t).endspan = 1
<1> DEFINE n == Len(s)
           k == Kept(s)
           rest == SubSeq(s, 1, n)
           x == [rest[n] EXCEPT !.endspan = @ - 1]
<1>0. n \in 1..n /\ n \in Nat \ {0}
  BY NonEmpty DEF Waiting
<1>1. k \in 0..n /\ \A i \in (k + 1)..n : s[i].endspan = 1
  BY KeptIs
<1>2. s[n].endspan = 2
  BY DEF Waiting, Top
<1>3. k = n
  <2>1. n \notin (k + 1)..n
    BY <1>1, <1>2
  <2> QED BY <1>0, <1>1, <2>1
<1>4. rest \in Seq(Node) /\ Len(rest) = n /\ \A m \in 1..n : rest[m] = s[m]
  <2>1. n \in 0..n
    BY <1>0
  <2>2. Prefix(Node, s, n, rest)
    BY <2>1, Cut
  <2> QED BY <2>2 DEF Prefix
<1>5. roffnode_cleanscope(s) = [rest EXCEPT ![n] = x]
  BY <1>0, <1>2, <1>3 DEF roffnode_cleanscope
<1>6. rest[n] = s[n] /\ s[n] \in Node
  BY <1>0, <1>4, NodeElem
<1>7. x \in Node /\ x.endspan = 1
  <2>1. rest[n] \in Node /\ rest[n].endspan \in {1, 2} /\ rest[n].endspan = 2
    BY <1>2, <1>6
  <2>2. x \in Node /\ x.endspan = rest[n].endspan - 1
    BY <2>1, LessSpan
  <2> HIDE DEF x, rest
  <2> QED BY <2>1, <2>2
<1> HIDE DEF x, rest, k
<1>8. Put(Node, rest, n, x, roffnode_cleanscope(s))
  BY <1>0, <1>4, <1>5, <1>7, Replaced
<1> DEFINE t == roffnode_cleanscope(s)
<1>9. t \in Seq(Node) /\ Len(t) = n /\ \A m \in 1..n : t[m] = IF m = n THEN x ELSE s[m]
  BY <1>4, <1>8 DEF Put
<1> HIDE DEF t
<1>10. t # <<>> /\ Top(t).endspan = 1
  BY <1>0, <1>7, <1>9, HasLen DEF Top
<1>11. Spans(t)
  <2> SUFFICES ASSUME NEW i \in 1..n, i # n PROVE ~(t[i].endspan > 0)
    BY <1>7, <1>9 DEF Spans
  <2>1. i \in 1..(n - 1) /\ t[i] = s[i]
    BY <1>0, <1>9
  <2>2. s[i].endspan <= 0 /\ s[i].endspan \in {-1, 0, 1, 2}
    BY <2>1, NodeElem DEF Waiting
  <2> QED BY <2>1, <2>2
<1> QED BY <1>10, <1>11 DEF t

\* A stack without scopes that end with a line is a special case.
LEMMA LowSpans == ASSUME NEW s \in Seq(Node), Low(s) PROVE Spans(s)
BY NodeElem DEF Low, Spans

\* A closing brace ends a scope that may contain no others.
LEMMA CloseType ==
  ASSUME NEW s \in Seq(Node)
  PROVE  /\ roff_ccond(s) \in Seq(Node)
         /\ Spans(s) => Spans(roff_ccond(s))
         /\ Low(s) => Low(roff_ccond(s))
<1>1. CASE Closable(s)
  <2> DEFINE t == roffnode_pop(s)
  <2>0. s # <<>>
    BY <1>1 DEF Closable
  <2>1. Prefix(Node, s, Len(s) - 1, t)
    BY <2>0, PopKeeps
  <2>2. t \in Seq(Node)
    BY <2>1 DEF Prefix
  <2>3. roff_ccond(s) = roffnode_cleanscope(t)
    BY <1>1 DEF roff_ccond
  <2>4. ASSUME Spans(s) PROVE Low(roff_ccond(s))
    <3>3. Low(t)
      BY <2>0, <2>4, PopSpans
    <3>4. Spans(t)
      BY <2>2, <3>3, LowSpans
    <3> QED BY <2>2, <2>3, <3>4, CleanSpans
  <2>5. roff_ccond(s) \in Seq(Node)
    BY <2>2, <2>3, CleanType
  <2> QED BY <2>4, <2>5, LowSpans
<1>2. CASE ~Closable(s)
  BY <1>2 DEF roff_ccond
<1> QED BY <1>1, <1>2

\* What holds of a stack and is kept by a closing brace holds after n of them.
LEMMA BracesKeep ==
  ASSUME NEW P, NEW s \in P, \A t \in P : roff_ccond(t) \in P, NEW n \in Nat
  PROVE  CloseBraces(s, n) \in P
<1> DEFINE Is(f, m) == f = [k \in 0..m |-> IF k = 0 THEN s ELSE roff_ccond(f[k - 1])]
           S == {m \in Nat : \E f : Is(f, m)}
<1>1. 0 \in S
  <2>1. Is([k \in 0..0 |-> s], 0)
    OBVIOUS
  <2> QED BY <2>1
<1>2. ASSUME NEW m \in Nat, m \in S PROVE m + 1 \in S
  <2>1. PICK f : Is(f, m)
    BY <1>2
  <2> DEFINE g == [k \in 0..(m + 1) |-> IF k <= m THEN f[k] ELSE roff_ccond(f[m])]
  <2>2. \A k \in 0..m : f[k] = IF k = 0 THEN s ELSE roff_ccond(f[k - 1])
    BY <2>1
  <2>3. \A k \in 0..m : g[k] = f[k]
    OBVIOUS
  <2>4. g[m + 1] = roff_ccond(f[m])
    OBVIOUS
  <2>5. ASSUME NEW k \in 0..(m + 1)
        PROVE  g[k] = IF k = 0 THEN s ELSE roff_ccond(g[k - 1])
    <3> HIDE DEF g
    <3>1. CASE k \in 0..m
      <4>1. k = 0 \/ k - 1 \in 0..m
        BY <3>1
      <4> QED BY <2>2, <2>3, <3>1, <4>1
    <3>2. CASE k = m + 1
      <4>1. k # 0 /\ k - 1 = m /\ m \in 0..m
        BY <3>2
      <4> QED BY <2>3, <2>4, <3>2, <4>1
    <3> QED BY <3>1, <3>2
  <2>6. g = [k \in 0..(m + 1) |-> g[k]]
    OBVIOUS
  <2> HIDE DEF g
  <2>7. g = [k \in 0..(m + 1) |-> IF k = 0 THEN s ELSE roff_ccond(g[k - 1])]
    BY <2>5, <2>6
  <2> QED BY <2>7
<1>3. n \in S
  BY <1>1, <1>2, NatSet
<1> DEFINE c == CHOOSE f : Is(f, n)
<1>4. Is(c, n)
  BY <1>3
<1>5. CloseBraces(s, n) = c[n]
  BY DEF CloseBraces
<1> HIDE DEF c
<1>6. \A k \in 0..n : c[k] = IF k = 0 THEN s ELSE roff_ccond(c[k - 1])
  BY <1>4
<1> HIDE DEF Is
<1> DEFINE T == {m \in Nat : m > n \/ c[m] \in P}
<1>7. 0 \in T
  BY <1>6
<1>8. ASSUME NEW m \in Nat, m \in T PROVE m + 1 \in T
  <2>1. CASE m + 1 > n
    BY <2>1
  <2>2. CASE m + 1 <= n
    <3>1. m + 1 \in 0..n /\ m + 1 # 0 /\ (m + 1) - 1 = m /\ ~(m > n)
      BY <2>2
    <3>2. c[m] \in P
      BY <1>8, <3>1
    <3>3. c[m + 1] = roff_ccond(c[m])
      BY <1>6, <3>1
    <3> QED BY <3>2, <3>3
  <2> QED BY <2>1, <2>2
<1>9. n \in T
  <2> HIDE DEF T
  <2> QED BY <1>7, <1>8, NatSet
<1> QED BY <1>5, <1>9

\* Closing braces, however many are on a line, leave the stack one that is legal between
\* two lines (the loop over \} in roff_cond_checkend()).
LEMMA Braces ==
  ASSUME NEW s \in Seq(Node), NEW n \in Nat
  PROVE  /\ CloseBraces(s, n) \in Seq(Node)
         /\ Spans(s) => Spans(CloseBraces(s, n))
         /\ Low(s) => Low(CloseBraces(s, n))
<1>1. CloseBraces(s, n) \in Seq(Node)
  <2>1. \A t \in Seq(Node) : roff_ccond(t) \in Seq(Node)
    BY CloseType
  <2> QED BY <2>1, BracesKeep
<1>2. ASSUME Spans(s) PROVE Spans(CloseBraces(s, n))
  <2> DEFINE P == {t \in Seq(Node) : Spans(t)}
  <2>1. s \in P
    BY <1>2
  <2>2. \A t \in P : roff_ccond(t) \in P
    BY CloseType
  <2> HIDE DEF P
  <2>3. CloseBraces(s, n) \in P
    BY <2>1, <2>2, BracesKeep
  <2> QED BY <2>3 DEF P
<1>3. ASSUME Low(s) PROVE Low(CloseBraces(s, n))
  <2> DEFINE P == {t \in Seq(Node) : Low(t)}
  <2>1. s \in P
    BY <1>3
  <2>2. \A t \in P : roff_ccond(t) \in P
    BY CloseType
  <2> HIDE DEF P
  <2>3. CloseBraces(s, n) \in P
    BY <2>1, <2>2, BracesKeep
  <2> QED BY <2>3 DEF P
<1> QED BY <1>1, <1>2, <1>3

-----------------------------------------------------------------------------
WLine == {ln \in Line : WellFormed(ln)}

\* No conditional on the line applies to the next line.
Free(ln) == \A i \in 1..Len(ln.heads) : ln.heads[i].scope # "next"

\* The value of a string ends where the rest of the line goes on.
Value == {v \in [def : BOOLEAN, lines : Seq(WLine), nl : BOOLEAN] :
            ~v.nl => \A i \in 1..Len(v.lines) : Free(v.lines[i])}

Trap == {t \in [n : Nat, macro : Macros \cup {NoName}] : t.n > 0 => t.macro \in Macros}

RoffState == [last : Seq(Node), rstack : Seq({0, 1}), mstack : Int,
              strtab : [Macros -> Value], it : Trap]

Result == [main : {"ign", "cont", "rerun", "reparse", "so"},
           opt : SUBSET {"append", "usercall", "userret"},
           loop : {"none", "while", "cont", "exit"}]

Kind == TextKind \cup CtlKind

\* The parts of a line have their types.
LEMMA LineIs ==
  ASSUME NEW ln \in WLine
  PROVE  /\ ln.heads \in Seq(CondHead) /\ Len(ln.heads) \in Nat /\ ln.of \in Nat /\ ln.k \in Kind
         /\ ln.arg \in Macros \cup {NoName} /\ ln.arg1 \in Macros \cup {NoName}
         /\ ln.num \in Nat /\ ln.close \in Nat /\ ln.n \in Nat /\ ln \in Line /\ WellFormed(ln)
<1>1. ln \in Line /\ WellFormed(ln)
  BY DEF WLine
<1>2. ln.heads \in Seq(CondHead)
  BY <1>1 DEF Line
<1> QED BY <1>1, <1>2 DEF Line, Kind

\* A line that is processed, or continued by another one, stays a line.
LEMMA LineChanged ==
  ASSUME NEW ln \in WLine, NEW of \in Nat, NEW close \in Nat
  PROVE  /\ [ln EXCEPT !.of = of] \in WLine /\ [ln EXCEPT !.close = close] \in WLine
         /\ [ln EXCEPT !.cont = FALSE] \in WLine
<1>1. ln \in Line /\ WellFormed(ln)
  BY DEF WLine
<1>2. /\ [ln EXCEPT !.of = of] \in Line /\ [ln EXCEPT !.close = close] \in Line
      /\ [ln EXCEPT !.cont = FALSE] \in Line
  BY <1>1 DEF Line
<1>3. WellFormed([ln EXCEPT !.of = of])
  BY <1>1 DEF WellFormed, Line
<1>4. WellFormed([ln EXCEPT !.close = close])
  BY <1>1 DEF WellFormed, Line
<1>5. WellFormed([ln EXCEPT !.cont = FALSE])
  BY <1>1 DEF WellFormed, Line
<1> QED BY <1>2, <1>3, <1>4, <1>5 DEF WLine

\* A line without conditionals is a line that the parser can meet.
LEMMA PlainLine ==
  ASSUME NEW kind \in Kind, NEW name \in Macros \cup {NoName}, NEW name1 \in Macros \cup {NoName},
         kind \in {"call", "it", "ds", "de", "am"} => name \in Macros
  PROVE  Plain(kind, name, name1) \in WLine /\ Free(Plain(kind, name, name1))
<1> DEFINE ln == Plain(kind, name, name1)
<1>1. <<>> \in Seq(CondHead) /\ Len(<<>>) = 0 /\ 1..0 = {}
  OBVIOUS
<1>2. ln \in Line
  BY <1>1 DEF Plain, Line, Kind
<1>3. ln.heads = <<>> /\ ln.k = kind /\ ln.arg = name
  BY DEF Plain
<1> HIDE DEF ln
<1>4. WellFormed(ln)
  BY <1>1, <1>3 DEF WellFormed
<1>5. Free(ln)
  BY <1>1, <1>3 DEF Free
<1> QED BY <1>2, <1>4, <1>5 DEF WLine, ln

\* So are the empty line buffer and a line of text.
LEMMA Empty == EmptyLine \in WLine /\ Free(EmptyLine) /\ TextLine \in WLine /\ Free(TextLine)
<1>1. "nil" \in Kind /\ "txt" \in Kind /\ NoName \in Macros \cup {NoName}
      /\ "nil" \notin {"call", "it", "ds", "de", "am"} /\ "txt" \notin {"call", "it", "ds", "de", "am"}
  BY DEF Kind, TextKind
<1> DEFINE p == Plain("nil", NoName, NoName)
<1>2. p \in WLine /\ Free(p) /\ TextLine \in WLine /\ Free(TextLine)
  BY <1>1, PlainLine DEF TextLine
<1>3. EmptyLine = [p EXCEPT !.n = 0]
  BY DEF EmptyLine
<1> HIDE DEF p
<1>4. p \in Line /\ WellFormed(p)
  BY <1>2 DEF WLine
<1>5. EmptyLine \in Line /\ WellFormed(EmptyLine)
  BY <1>3, <1>4 DEF Line, WellFormed
<1>6. Free(EmptyLine)
  BY <1>2, <1>3, <1>4 DEF Line, Free
<1> QED BY <1>2, <1>5, <1>6 DEF WLine

\* A line that continues the text in the buffer makes a line again (mparse_buf_r() and
\* roff_setstrn()).
LEMMA JoinLine ==
  ASSUME NEW p \in WLine, Free(p), NEW ln \in WLine
  PROVE  Join(p, ln) \in WLine
<1>1. CASE p = EmptyLine
  BY <1>1 DEF Join
<1>2. CASE p # EmptyLine
  <2> DEFINE q == [p EXCEPT !.close = @ + ln.close, !.cont = ln.cont, !.n = @ + ln.n,
                            !.k = IF @ = "nil" THEN "txt" ELSE @]
  <2>1. Join(p, ln) = q
    BY <1>2 DEF Join
  <2>2. p \in Line /\ WellFormed(p) /\ p.close + ln.close \in Nat /\ p.n + ln.n \in Nat
        /\ (IF p.k = "nil" THEN "txt" ELSE p.k) \in Kind
    BY LineIs DEF Kind, TextKind
  <2>3. ln.cont \in BOOLEAN
    BY LineIs DEF Line
  <2>4. q \in Line
    BY <2>2, <2>3 DEF Line, Kind
  <2>5. q.heads = p.heads /\ q.k = (IF p.k = "nil" THEN "txt" ELSE p.k) /\ q.arg = p.arg
    BY <2>2 DEF Line
  <2> HIDE DEF q
  <2>6. WellFormed(q)
    BY <2>2, <2>5 DEF WellFormed, Free
  <2> QED BY <2>1, <2>4, <2>6 DEF WLine
<1> QED BY <1>1, <1>2

-----------------------------------------------------------------------------
\* The state of the parser in the middle of a line.
Pending(stack, ln) == Waiting(stack) /\ ~InHeads(ln) /\ ln.k = "nil" /\ ~ln.cont

Outcome == [r : RoffState, ln : WLine, res : Result, blk : Seq(WLine)]

\* What roff_parseln() may do to the state r: out is what it returns.
Sound(st, out) ==
  /\ out \in Outcome
  /\ out.r.mstack >= st.mstack
  /\ "usercall" \in out.res.opt => out.r.mstack > st.mstack
  /\ "append" \in out.res.opt => Free(out.ln)
  /\ Spans(out.r.last) \/ (out.res.main = "rerun" /\ Pending(out.r.last, out.ln))

\* The parts of the state of the parser have their types.
LEMMA StateIs ==
  ASSUME NEW st \in RoffState
  PROVE  /\ st.last \in Seq(Node) /\ st.rstack \in Seq({0, 1}) /\ st.mstack \in Int
         /\ st.strtab \in [Macros -> Value] /\ st.it \in Trap
BY DEF RoffState

\* An assignment to r->last leaves the rest of the state alone.
LEMMA LastSet ==
  ASSUME NEW st \in RoffState, NEW s \in Seq(Node), NEW q, q = [st EXCEPT !.last = s]
  PROVE  /\ q \in RoffState /\ q.last = s
         /\ q.mstack = st.mstack /\ q.strtab = st.strtab /\ q.it = st.it
BY DEF RoffState

\* So does an assignment to a string or macro.
LEMMA StrSet ==
  ASSUME NEW st \in RoffState, NEW m, NEW v, m \in Macros => v \in Value,
         NEW q, q = [st EXCEPT !.strtab[m] = v]
  PROVE  q \in RoffState /\ q.last = st.last /\ q.mstack = st.mstack
<1>1. [st.strtab EXCEPT ![m] = v] \in [Macros -> Value]
  BY DEF RoffState
<1>2. q = [st EXCEPT !.strtab = [st.strtab EXCEPT ![m] = v]]
  BY DEF RoffState
<1> QED BY <1>1, <1>2 DEF RoffState

\* A handler that returns a line and a code is sound if its new state is.
LEMMA OutSound ==
  ASSUME NEW st \in RoffState, NEW q \in RoffState, q.mstack >= st.mstack, Spans(q.last),
         NEW ln \in WLine, NEW res \in Result, "usercall" \notin res.opt, "append" \notin res.opt
  PROVE  Sound(st, Out(q, ln, res))
<1>1. <<>> \in Seq(WLine)
  OBVIOUS
<1> QED BY <1>1 DEF Sound, Out, Outcome

\* A handler that replaces the line is sound if its new state is; a macro call must have
\* entered a macro context.
LEMMA ReparseSound ==
  ASSUME NEW st \in RoffState, NEW q \in RoffState, q.mstack >= st.mstack, Spans(q.last),
         NEW ln \in WLine, NEW blk \in Seq(WLine), NEW opt \in SUBSET {"usercall"},
         "usercall" \in opt => q.mstack > st.mstack
  PROVE  Sound(st, Reparse(q, ln, blk, opt))
<1>1. Res("reparse", opt, "none") \in Result /\ Res("reparse", opt, "none").opt = opt
  BY DEF Res, Result
<1>2. "append" \notin opt
  OBVIOUS
<1> QED BY <1>1, <1>2 DEF Sound, Reparse, Outcome

\* What is sound after a first change of the state that leaves no macro is sound before.
LEMMA SoundFrom ==
  ASSUME NEW st \in RoffState, NEW q \in RoffState, q.mstack >= st.mstack, NEW out, Sound(q, out)
  PROVE  Sound(st, out)
<1>1. st.mstack \in Int /\ q.mstack \in Int /\ out.r.mstack \in Int
  BY StateIs DEF Sound, Outcome
<1>2. out.r.mstack >= st.mstack /\ ("usercall" \in out.res.opt => out.r.mstack > st.mstack)
  BY <1>1 DEF Sound
<1> QED BY <1>2 DEF Sound

\* The return codes of libmandoc.h and their bits.
LEMMA Codes ==
  /\ IGN \in Result /\ CONT \in Result /\ APPEND \in Result
  /\ IGN.opt = {} /\ CONT.opt = {} /\ APPEND.opt = {"append"} /\ APPEND.main = "ign"
  /\ \A main \in {"ign", "cont", "rerun", "so"}, loop \in {"none", "while", "cont", "exit"} :
       Res(main, {}, loop) \in Result /\ Res(main, {}, loop).opt = {}
       /\ Res(main, {}, loop).main = main
BY DEF IGN, CONT, APPEND, Res, Result

\* Defining a macro because it was used changes neither scopes nor macro contexts.
LEMMA UsedOK ==
  ASSUME NEW st \in RoffState, NEW name
  PROVE  /\ DefineUsed(st, name) \in RoffState
         /\ DefineUsed(st, name).last = st.last /\ DefineUsed(st, name).mstack = st.mstack
<1>1. EmptyValue \in Value
  <2>1. <<>> \in Seq(WLine) /\ Len(<<>>) = 0 /\ 1..0 = {}
    OBVIOUS
  <2> QED BY <2>1 DEF EmptyValue, Value
<1>2. CASE name \in Macros /\ ~st.strtab[name].def
  BY <1>1, <1>2, StrSet DEF DefineUsed
<1>3. CASE ~(name \in Macros /\ ~st.strtab[name].def)
  BY <1>3 DEF DefineUsed
<1> QED BY <1>2, <1>3

\* Looking up the token in roff_parse() does no more than that.
LEMMA SideEffectOK ==
  ASSUME NEW st \in RoffState, NEW ln
  PROVE  /\ ParseSideEffect(st, ln) \in RoffState
         /\ ParseSideEffect(st, ln).last = st.last /\ ParseSideEffect(st, ln).mstack = st.mstack
BY UsedOK DEF ParseSideEffect

\* roff_userdef() enters a macro context before it asks for the macro to be expanded.
LEMMA UserdefSound ==
  ASSUME NEW st \in RoffState, Spans(st.last), NEW ln \in WLine, ln.k = "call"
  PROVE  Sound(st, roff_userdef(st, ln))
<1> DEFINE v == st.strtab[ln.arg]
           q == [st EXCEPT !.mstack = @ + 1]
<1>1. ln.arg \in Macros
  BY LineIs DEF WellFormed
<1>2. v \in Value
  BY <1>1, StateIs
<1>3. v.lines \in Seq(WLine) /\ (~v.nl => \A i \in 1..Len(v.lines) : Free(v.lines[i]))
  BY <1>2 DEF Value
<1>4. st.mstack \in Int
  BY StateIs
<1>5. q \in RoffState /\ q.last = st.last /\ q.mstack = st.mstack + 1
  BY <1>4 DEF RoffState
<1>u. roff_userdef(st, ln) = IF v.lines = <<>> THEN Out(st, ln, IGN)
      ELSE IF v.nl THEN Reparse(q, ln, v.lines, {"usercall"})
      ELSE Out(q, v.lines[1], APPEND)
  BY DEF roff_userdef
<1> HIDE DEF q, v
<1>6. q.mstack > st.mstack /\ q.mstack >= st.mstack /\ st.mstack >= st.mstack
  BY <1>4, <1>5
<1>7. CASE v.lines = <<>>
  BY <1>6, <1>7, <1>u, Codes, OutSound
<1>8. CASE v.lines # <<>> /\ v.nl
  <2>1. Sound(st, Reparse(q, ln, v.lines, {"usercall"}))
    BY <1>3, <1>5, <1>6, ReparseSound
  <2> QED BY <1>8, <1>u, <2>1
<1>9. CASE v.lines # <<>> /\ ~v.nl
  <2>1. 1 \in 1..Len(v.lines)
    BY <1>3, <1>9, NonEmpty
  <2>2. v.lines[1] \in WLine /\ Free(v.lines[1])
    BY <1>3, <1>9, <2>1, SeqElem
  <2>3. <<>> \in Seq(WLine)
    OBVIOUS
  <2>4. Sound(st, Out(q, v.lines[1], APPEND))
    BY <1>5, <1>6, <2>2, <2>3, Codes DEF Sound, Out, Outcome
  <2> QED BY <1>9, <1>u, <2>4
<1> QED BY <1>7, <1>8, <1>9

\* Requests that neither open nor close a scope are sound: roff_return(), roff_ds(),
\* roff_it(), roff_so().
LEMMA SimpleSound ==
  ASSUME NEW st \in RoffState, Spans(st.last), NEW ln \in WLine
  PROVE  /\ Sound(st, Out(st, ln, IGN)) /\ Sound(st, Out(st, ln, CONT)) /\ Sound(st, roff_return(st, ln))
         /\ ln.k = "ds" => Sound(st, roff_ds(st, ln))
         /\ ln.k = "it" => Sound(st, roff_it(st, ln))
         /\ Sound(st, roff_so(st, ln))
<1>1. st.mstack \in Int /\ st.mstack >= st.mstack
  BY StateIs
<1>2. Sound(st, Out(st, ln, IGN)) /\ Sound(st, Out(st, ln, CONT))
  BY <1>1, Codes, OutSound
<1>3. Sound(st, roff_return(st, ln))
  <2>1. Res("ign", {"userret"}, "none") \in Result /\ Res("ign", {"userret"}, "none").opt = {"userret"}
    BY DEF Res, Result
  <2>2. Sound(st, Out(st, ln, Res("ign", {"userret"}, "none")))
    BY <1>1, <2>1, OutSound
  <2> QED BY <1>2, <2>2 DEF roff_return
<1>4. ASSUME ln.k = "ds" PROVE Sound(st, roff_ds(st, ln))
  <2> DEFINE v == [def |-> TRUE, lines |-> <<TextLine>>, nl |-> FALSE]
             q == [st EXCEPT !.strtab[ln.arg] = v]
  <2>1. <<TextLine>> \in Seq(WLine) /\ Len(<<TextLine>>) = 1 /\ <<TextLine>>[1] = TextLine
    BY Empty
  <2>2. \A i \in 1..Len(<<TextLine>>) : Free(<<TextLine>>[i])
    <3>1. \A i \in 1..Len(<<TextLine>>) : i = 1
      BY <2>1
    <3> QED BY <2>1, <3>1, Empty
  <2>3. v \in Value
    BY <2>1, <2>2 DEF Value
  <2>4. roff_ds(st, ln) = Out(q, ln, IGN)
    BY DEF roff_ds
  <2> HIDE DEF v
  <2>5. q = [st EXCEPT !.strtab[ln.arg] = v]
    OBVIOUS
  <2> HIDE DEF q
  <2>6. \A m : q = [st EXCEPT !.strtab[m] = v] =>
                q \in RoffState /\ q.last = st.last /\ q.mstack = st.mstack
    <3> TAKE m
    <3> HAVE q = [st EXCEPT !.strtab[m] = v]
    <3>1. m \in Macros => v \in Value
      BY <2>3
    <3> QED BY <3>1, StrSet
  <2>7. q \in RoffState /\ q.last = st.last /\ q.mstack = st.mstack
    BY <2>5, <2>6
  <2> QED BY <1>1, <2>4, <2>7, Codes, OutSound
<1>5. ASSUME ln.k = "it" PROVE Sound(st, roff_it(st, ln))
  <2> DEFINE t == [n |-> ln.num, macro |-> ln.arg]
             q == [st EXCEPT !.it = t]
  <2>1. ln.arg \in Macros /\ ln.num \in Nat
    BY <1>5, LineIs DEF WellFormed
  <2>2. t \in Trap
    BY <2>1 DEF Trap
  <2> HIDE DEF t
  <2>3. q \in RoffState /\ q.last = st.last /\ q.mstack = st.mstack
    BY <2>2 DEF RoffState
  <2>4. roff_it(st, ln) = Out(q, ln, IGN)
    BY DEF roff_it, t
  <2> HIDE DEF q
  <2> QED BY <1>1, <2>3, <2>4, Codes, OutSound
<1>6. Sound(st, roff_so(st, ln))
  <2>1. SeeTheFile \in Seq(WLine)
    <3>1. "nop" \in Kind /\ "nop" \notin {"call", "it", "ds", "de", "am"} /\ NoName \in Macros \cup {NoName}
      BY DEF Kind, CtlKind
    <3>2. Plain("nop", NoName, NoName) \in WLine
      BY <3>1, PlainLine
    <3> QED BY <3>2, Empty DEF SeeTheFile
  <2>2. Sound(st, Reparse(st, ln, SeeTheFile, {}))
    BY <1>1, <2>1, ReparseSound
  <2>3. Sound(st, Out(st, ln, Res("so", {}, "none")))
    BY <1>1, Codes, OutSound
  <2> QED BY <2>2, <2>3 DEF roff_so
<1> QED BY <1>2, <1>3, <1>4, <1>5, <1>6

\* A new scope at the end of a stack of others.
LEMMA PushType ==
  ASSUME NEW s \in Seq(Node), NEW tok \in CondTok \cup BlockTok,
         NEW name \in Macros \cup {NoName}, NEW end \in Macros \cup {NoName}
  PROVE  LET t == roffnode_push(s, tok, name, end)
         IN /\ t \in Seq(Node) /\ Top(t) \in Node /\ Top(t).tok = tok /\ Top(t).endspan = 0
            /\ Low(s) => Low(t)
<1> DEFINE rule == IF s = <<>> THEN 0 ELSE Top(s).rule
           x == [tok |-> tok, name |-> name, end |-> end, rule |-> rule, endspan |-> 0]
           t == roffnode_push(s, tok, name, end)
<1>1. rule \in {0, 1}
  <2>1. CASE s = <<>>
    BY <2>1
  <2>2. CASE s # <<>>
    BY <2>2, NonEmpty, NodeElem DEF Top
  <2> QED BY <2>1, <2>2
<1>2. t = Append(s, x)
  BY DEF roffnode_push
<1> HIDE DEF rule, t
<1>3. x \in Node /\ x.endspan = 0 /\ x.tok = tok
  BY <1>1 DEF Node
<1> HIDE DEF x
<1>4. Plus(Node, s, x, t)
  BY <1>2, <1>3, Appended
<1>5. t \in Seq(Node) /\ Len(t) = Len(s) + 1 /\ t[Len(s) + 1] = x
      /\ \A m \in 1..Len(s) : t[m] = s[m]
  BY <1>4 DEF Plus
<1>6. Top(t) = x
  BY <1>5 DEF Top
<1>7. ASSUME Low(s) PROVE Low(t)
  <2> SUFFICES ASSUME NEW i \in 1..Len(t) PROVE t[i].endspan <= 0
    BY DEF Low
  <2>1. i \in 1..Len(s) \/ i = Len(s) + 1
    BY <1>5
  <2> QED BY <1>3, <1>5, <1>7, <2>1 DEF Low
<1> QED BY <1>3, <1>5, <1>6, <1>7 DEF t

\* roff_block() opens a block that lasts until its end marker.
LEMMA BlockSound ==
  ASSUME NEW st \in RoffState, Low(st.last), NEW ln \in WLine, ln.k \in BlockTok
  PROVE  Sound(st, roff_block(st, ln))
<1> DEFINE s == roffnode_push(st.last, ln.k, ln.arg, ln.arg1)
           q == [st EXCEPT !.last = s]
           p == [q EXCEPT !.strtab[ln.arg] = EmptyValue]
<1>1. s \in Seq(Node) /\ Low(s)
  BY PushType, LineIs, StateIs
<1>2. roff_block(st, ln) = Out(IF ln.k = "de" THEN p ELSE q, ln, IGN)
  BY DEF roff_block
<1> HIDE DEF s
<1>3. q \in RoffState /\ q.last = s /\ q.mstack = st.mstack
  BY <1>1, LastSet
<1> HIDE DEF q
<1>4. EmptyValue \in Value
  <2>1. <<>> \in Seq(WLine) /\ Len(<<>>) = 0 /\ 1..0 = {}
    OBVIOUS
  <2> QED BY <2>1 DEF EmptyValue, Value
<1>5. p \in RoffState /\ p.last = s /\ p.mstack = st.mstack
  <2>0. p = [q EXCEPT !.strtab[ln.arg] = EmptyValue]
    OBVIOUS
  <2> HIDE DEF p
  <2>1. p \in RoffState /\ p.last = q.last /\ p.mstack = q.mstack
    <3> DEFINE f == [q.strtab EXCEPT ![ln.arg] = EmptyValue]
    <3>1. q.strtab \in [Macros -> Value] /\ q \in RoffState
      BY <1>3, StateIs
    <3>2. f \in [Macros -> Value]
      BY <1>4, <3>1
    <3>3. p = [q EXCEPT !.strtab = f]
      BY <2>0
    <3> HIDE DEF f
    <3> QED BY <3>1, <3>2, <3>3 DEF RoffState
  <2> QED BY <1>3, <2>1
<1> HIDE DEF p
<1>6. Spans(s) /\ st.mstack \in Int /\ st.mstack >= st.mstack
  BY <1>1, LowSpans, StateIs
<1> QED BY <1>2, <1>3, <1>5, <1>6, Codes, OutSound

\* A conditional opens a scope; if it applies to the next line, nothing else is
\* on this one.
LEMMA CondSound ==
  ASSUME NEW st \in RoffState, Low(st.last), NEW ln \in WLine, InHeads(ln), NEW c \in {0, 1}
  PROVE  /\ Sound(st, roff_cond(st, ln, c))
         /\ roff_cond(st, ln, c).res.main = "rerun"
<1> DEFINE head == ln.heads[ln.of + 1]
           depth == Len(st.rstack)
           value == IF head.tok # "el" THEN c ELSE IF depth = 0 THEN 0 ELSE st.rstack[depth]
           rule == RuleOf(st.last, value)
           top == Top(roffnode_push(st.last, head.tok, NoName, NoName))
           node == [top EXCEPT !.rule = rule, !.endspan = EndSpan(head)]
           s == Append(st.last, node)
           rstack == CASE head.tok = "ie" -> Append(st.rstack, 1 - value)
                       [] head.tok = "el" /\ depth > 0 -> SubSeq(st.rstack, 1, depth - 1)
                       [] OTHER -> st.rstack
           q == [st EXCEPT !.last = s, !.rstack = rstack]
           l2 == [ln EXCEPT !.of = @ + 1]
           res == Res("rerun", {}, IF head.tok = "while" THEN "while" ELSE "none")
<1>0. roff_cond(st, ln, c) = Out(q, l2, res)
  <2>1. q = [st EXCEPT !.last = Append(@, node), !.rstack = rstack]
    BY DEF RoffState
  <2> QED BY <2>1, Zenon DEF roff_cond
<1>1. st.last \in Seq(Node) /\ st.rstack \in Seq({0, 1}) /\ st.mstack \in Int
  BY StateIs
<1>2. ln.heads \in Seq(CondHead) /\ ln.of \in Nat /\ Len(ln.heads) \in Nat /\ ln.of < Len(ln.heads)
  BY LineIs DEF InHeads
<1>3. ln.of + 1 \in 1..Len(ln.heads)
  BY <1>2
<1>4. head \in CondHead
  BY <1>2, <1>3, SeqElem
<1>5. head.tok \in CondTok /\ head.scope \in Scope
  BY <1>4 DEF CondHead
<1>6. depth \in Nat /\ value \in {0, 1}
  <2>1. depth \in Nat
    BY <1>1
  <2>2. depth # 0 => st.rstack[depth] \in {0, 1}
    <3>1. depth # 0 => depth \in 1..depth
      BY <2>1
    <3> QED BY <1>1, <3>1, SeqElem
  <2> QED BY <2>1, <2>2
<1>7. rule \in {0, 1}
  <2> HIDE DEF value
  <2> QED BY <1>6 DEF RuleOf
<1>8. top \in Node /\ top.tok = head.tok
  <2>1. head.tok \in CondTok \cup BlockTok /\ NoName \in Macros \cup {NoName}
    BY <1>5
  <2> HIDE DEF head
  <2> QED BY <1>1, <2>1, PushType
<1>9. EndSpan(head) \in {-1, 1, 2} /\ (EndSpan(head) = 2 => head.scope = "next")
  <2> HIDE DEF head
  <2> QED BY <1>5 DEF EndSpan, Scope
<1>10. node \in Node /\ node.tok = head.tok /\ node.endspan = EndSpan(head)
  <2> HIDE DEF rule, top, head
  <2> QED BY <1>7, <1>8, <1>9 DEF Node
<1> HIDE DEF node
<1>11. Plus(Node, st.last, node, s)
  BY <1>1, <1>10, Appended
<1>12. rstack \in Seq({0, 1})
  <2>1. 1 - value \in {0, 1}
    <3> HIDE DEF value
    <3> QED BY <1>6
  <2>2. Append(st.rstack, 1 - value) \in Seq({0, 1})
    <3> HIDE DEF value
    <3> QED BY <1>1, <2>1
  <2>3. depth > 0 => SubSeq(st.rstack, 1, depth - 1) \in Seq({0, 1})
    <3>1. depth > 0 => depth - 1 \in 0..Len(st.rstack)
      BY <1>6
    <3> QED BY <1>1, <3>1, Cut DEF Prefix
  <2> HIDE DEF value, depth
  <2> QED BY <1>1, <2>2, <2>3
<1> HIDE DEF s, rstack, value
<1>13. s \in Seq(Node) /\ Len(s) = Len(st.last) + 1 /\ s[Len(s)] = node /\ Len(st.last) \in Nat
       /\ \A m \in 1..Len(st.last) : s[m] = st.last[m]
  BY <1>1, <1>11 DEF Plus
<1>14. q \in RoffState /\ q.last = s /\ q.mstack = st.mstack
  BY <1>12, <1>13 DEF RoffState
<1> HIDE DEF q
<1>15. l2 \in WLine /\ l2.of = ln.of + 1 /\ l2.heads = ln.heads /\ l2.k = ln.k /\ l2.cont = ln.cont
  <2>1. ln.of + 1 \in Nat /\ ln \in Line
    BY <1>2, LineIs
  <2>2. l2 \in WLine
    BY <2>1, LineChanged
  <2> QED BY <2>1, <2>2 DEF Line
<1> HIDE DEF l2
<1>16. \A m \in 1..(Len(s) - 1) : s[m].endspan <= 0
  BY <1>13 DEF Low
<1>17. Spans(s) \/ Pending(s, l2)
  <2>1. CASE EndSpan(head) = 2
    <3>1. head.scope = "next"
      BY <1>9, <2>1
    <3>2. ln.of + 1 = Len(ln.heads) /\ ln.k = "nil" /\ ~ln.cont
      BY <1>3, <3>1, LineIs DEF WellFormed
    <3>3. ~InHeads(l2)
      BY <1>2, <1>15, <3>2 DEF InHeads
    <3>4. s # <<>>
      <4>1. Len(s) # 0
        BY <1>13
      <4> QED BY <1>13, <4>1, HasLen
    <3>5. Top(s).endspan = 2 /\ Top(s).tok \in CondTok
      BY <1>5, <1>10, <1>13, <2>1 DEF Top
    <3>6. Waiting(s)
      BY <1>16, <3>4, <3>5 DEF Waiting
    <3> QED BY <1>15, <3>2, <3>3, <3>6 DEF Pending
  <2>2. CASE EndSpan(head) # 2
    <3>1. EndSpan(head) \in {-1, 1}
      BY <1>9, <2>2
    <3>2. ASSUME NEW i \in 1..Len(s), s[i].endspan > 0 PROVE i = Len(s) /\ s[i].endspan = 1
      <4>1. CASE i = Len(s)
        BY <1>10, <1>13, <3>1, <3>2, <4>1
      <4>2. CASE i # Len(s)
        <5>1. i \in 1..(Len(s) - 1) /\ s[i].endspan \in {-1, 0, 1, 2}
          BY <1>13, <4>2, NodeElem
        <5> QED BY <1>16, <3>2, <5>1
      <4> QED BY <4>1, <4>2
    <3> QED BY <3>2 DEF Spans
  <2> QED BY <2>1, <2>2
<1>18. res \in Result /\ res.opt = {} /\ res.main = "rerun"
  BY Codes
<1> HIDE DEF res, head
<1>19. <<>> \in Seq(WLine)
  OBVIOUS
<1>20. st.mstack >= st.mstack
  BY <1>1
<1>21. Sound(st, Out(q, l2, res))
  BY <1>14, <1>15, <1>17, <1>18, <1>19, <1>20 DEF Sound, Out, Outcome
<1>22. Out(q, l2, res).res.main = "rerun"
  BY <1>18 DEF Out
<1> QED BY <1>0, <1>21, <1>22

\* The scopes that end with a line, or with a brace in it, are closed.
Checked(st, ln, ck) ==
  /\ ck.r \in RoffState /\ ck.r.mstack = st.mstack /\ ck.ln \in WLine
  /\ ck.loop \in {"none", "cont", "exit"}
  /\ Spans(st.last) => Low(ck.r.last)
  /\ Waiting(st.last) => Spans(ck.r.last)

\* roff_cond_checkend() closes the scopes that end with the line and at its braces.
LEMMA CheckendOK ==
  ASSUME NEW st \in RoffState, st.last # <<>>, NEW tok, NEW ln \in WLine, NEW discard
  PROVE  Checked(st, ln, roff_cond_checkend(st, tok, ln, discard))
<1> DEFINE ck == roff_cond_checkend(st, tok, ln, discard)
           s == roffnode_cleanscope(st.last)
           t == CloseBraces(s, ln.close)
           q == [st EXCEPT !.last = t]
           l2 == [ln EXCEPT !.close = 0]
<1>1. st.last \in Seq(Node) /\ ln.close \in Nat
  BY StateIs, LineIs
<1>2. s \in Seq(Node) /\ (Spans(st.last) => Low(s)) /\ (Waiting(st.last) => Spans(s))
  BY <1>1, CleanType, CleanSpans, CleanWaiting
<1> HIDE DEF s
<1>3. t \in Seq(Node) /\ (Spans(s) => Spans(t)) /\ (Low(s) => Low(t))
  BY <1>1, <1>2, Braces
<1>4. ck.r = q /\ ck.ln = l2 /\ ck.loop \in {"none", "cont", "exit"}
  BY DEF roff_cond_checkend, s
<1> HIDE DEF t
<1>5. q \in RoffState /\ q.last = t /\ q.mstack = st.mstack
  BY <1>3, LastSet
<1>6. l2 \in WLine
  BY LineChanged
<1> HIDE DEF q, l2, ck
<1>7. Checked(st, ln, ck)
  BY <1>2, <1>3, <1>4, <1>5, <1>6, LowSpans DEF Checked
<1> QED BY <1>7 DEF ck

\* roff_cblock() closes the block and what ends with its end marker.
LEMMA CblockSound ==
  ASSUME NEW st \in RoffState, Spans(st.last), NEW ln \in WLine
  PROVE  Sound(st, roff_cblock(st, ln))
<1>0. st.last \in Seq(Node) /\ st.mstack \in Int /\ st.mstack >= st.mstack
  BY StateIs
<1>1. CASE st.last = <<>> \/ Top(st.last).tok \notin BlockTok
  BY <1>1, SimpleSound DEF roff_cblock
<1>2. CASE ~(st.last = <<>> \/ Top(st.last).tok \notin BlockTok)
  <2> DEFINE p == roffnode_pop(st.last)
             s == roffnode_cleanscope(p)
             braced == s # <<>> /\ Top(s).endspan < 0
             rs == [st EXCEPT !.last = s]
             t == roff_cond_checkend(rs, "cblock", ln, FALSE).r.last
             u == IF braced THEN t ELSE s
             q == [st EXCEPT !.last = u]
  <2>1. roff_cblock(st, ln) = Out(q, ln, IGN)
    BY <1>2 DEF roff_cblock
  <2>2. p \in Seq(Node) /\ Spans(p)
    BY <1>0, <1>2, PopSpans, LowSpans
  <2> HIDE DEF p
  <2>3. s \in Seq(Node) /\ Low(s)
    BY <2>2, CleanType, CleanSpans
  <2>4. Spans(s)
    BY <2>3, LowSpans
  <2> HIDE DEF s
  <2>5. rs \in RoffState /\ rs.last = s
    BY <2>3, LastSet
  <2> HIDE DEF rs
  <2>6. ASSUME braced PROVE t \in Seq(Node) /\ Low(t)
    <3> DEFINE ck == roff_cond_checkend(rs, "cblock", ln, FALSE)
    <3>1. rs.last # <<>> /\ Spans(rs.last)
      BY <2>4, <2>5, <2>6
    <3>2. Checked(rs, ln, ck)
      BY <2>5, <3>1, CheckendOK, Zenon
    <3>3. ck.r \in RoffState /\ Low(ck.r.last)
      BY <3>1, <3>2 DEF Checked
    <3> QED BY <3>3, StateIs
  <2> HIDE DEF t, braced
  <2>7. u \in Seq(Node) /\ Spans(u)
    BY <2>3, <2>4, <2>6, LowSpans
  <2> HIDE DEF u
  <2>8. q \in RoffState /\ q.last = u /\ q.mstack = st.mstack
    BY <2>7, LastSet
  <2> HIDE DEF q
  <2> QED BY <1>0, <2>1, <2>7, <2>8, Codes, OutSound
<1> QED BY <1>1, <1>2

\* .break changes the rules of scopes and not how long they last.
LEMMA BreakLow ==
  ASSUME NEW s \in Seq(Node)
  PROVE  BreakLoop(s) \in Seq(Node) /\ (Low(s) => Low(BreakLoop(s)))
<1> DEFINE loops == {i \in DOMAIN s : s[i].tok = "while"}
           first == IF loops = {} THEN 1 ELSE CHOOSE i \in loops : \A j \in loops : j <= i
           t == [i \in 1..Len(s) |-> IF i >= first THEN [s[i] EXCEPT !.rule = 0] ELSE s[i]]
<1>1. BreakLoop(s) = t
  BY DEF BreakLoop
<1> HIDE DEF first
<1>2. ASSUME NEW i \in 1..Len(s) PROVE t[i] \in Node /\ t[i].endspan = s[i].endspan
  <2>1. s[i] \in Node
    BY NodeElem
  <2>2. [s[i] EXCEPT !.rule = 0] \in Node /\ [s[i] EXCEPT !.rule = 0].endspan = s[i].endspan
    BY <2>1 DEF Node
  <2> QED BY <2>1, <2>2
<1>3. t \in Seq(Node) /\ Len(t) = Len(s)
  <2>1. t \in [1..Len(s) -> Node] /\ Len(s) \in Nat
    BY <1>2
  <2> HIDE DEF t
  <2> QED BY <2>1
<1> HIDE DEF t
<1> QED BY <1>1, <1>2, <1>3 DEF Low

\* What follows the conditionals that were already processed is a line, too.
LEMMA RestLine ==
  ASSUME NEW ln \in WLine
  PROVE  [ln EXCEPT !.heads = SubSeq(@, ln.of + 1, Len(@)), !.of = 0] \in WLine
<1> DEFINE h == SubSeq(ln.heads, ln.of + 1, Len(ln.heads))
           q == [ln EXCEPT !.heads = h, !.of = 0]
<1>1. ln.heads \in Seq(CondHead) /\ Len(ln.heads) \in Nat /\ ln.of \in Nat /\ ln \in Line /\ WellFormed(ln)
  BY LineIs
<1>s. Suffix(CondHead, ln.heads, ln.of, h)
  BY <1>1, Rest
<1> HIDE DEF h
<1>2. /\ h \in Seq(CondHead)
      /\ Len(h) = IF ln.of < Len(ln.heads) THEN Len(ln.heads) - ln.of ELSE 0
  BY <1>s DEF Suffix
<1>3. \A i \in 1..Len(h) : h[i] = ln.heads[i + ln.of] /\ i + ln.of \in 1..Len(ln.heads)
  BY <1>s DEF Suffix
<1>4. q \in Line /\ q.heads = h /\ q.k = ln.k /\ q.cont = ln.cont /\ q.arg = ln.arg
  BY <1>1, <1>2 DEF Line
<1> HIDE DEF q
<1>5. ASSUME NEW i \in 1..Len(h), h[i].scope = "next"
      PROVE  i = Len(h) /\ ln.k = "nil" /\ ~ln.cont
  <2>1. i + ln.of = Len(ln.heads) /\ ln.k = "nil" /\ ~ln.cont
    BY <1>1, <1>3, <1>5 DEF WellFormed
  <2> QED BY <1>1, <1>2, <2>1
<1>6. WellFormed(q)
  BY <1>1, <1>4, <1>5 DEF WellFormed
<1>7. q \in WLine
  BY <1>4, <1>6 DEF WLine
<1> QED BY <1>7 DEF q, h

\* roff_setstrn() in append mode yields a value again.
LEMMA AppendValue ==
  ASSUME NEW v \in Value, NEW ln \in WLine
  PROVE  SetAppend(v, ln) \in Value
<1> DEFINE n == Len(v.lines)
           l == IF v.lines = <<>> \/ v.nl THEN Append(v.lines, ln)
                ELSE [v.lines EXCEPT ![n] = Join(@, ln)]
<1>1. v.lines \in Seq(WLine) /\ (~v.nl => \A i \in 1..n : Free(v.lines[i]))
  BY DEF Value
<1>2. l \in Seq(WLine)
  <2>1. CASE v.lines = <<>> \/ v.nl
    BY <1>1, <2>1
  <2>2. CASE ~(v.lines = <<>> \/ v.nl)
    <3>1. n \in 1..n
      BY <1>1, <2>2, NonEmpty
    <3>2. Free(v.lines[n]) /\ v.lines[n] \in WLine
      BY <1>1, <2>2, <3>1, SeqElem
    <3>3. Join(v.lines[n], ln) \in WLine
      BY <3>2, JoinLine
    <3> QED BY <1>1, <2>2, <3>1, <3>3
  <2> QED BY <2>1, <2>2
<1>3. SetAppend(v, ln) = [def |-> TRUE, nl |-> TRUE, lines |-> l]
  BY DEF SetAppend
<1> HIDE DEF l
<1> QED BY <1>2, <1>3 DEF Value

\* Storing a line of a macro definition changes strings only.
LEMMA StoreOK ==
  ASSUME NEW st \in RoffState, NEW ln \in WLine, NEW q, q = StoreLine(st, ln)
  PROVE  q \in RoffState /\ q.last = st.last /\ q.mstack = st.mstack
<1> DEFINE rest == [ln EXCEPT !.heads = SubSeq(@, ln.of + 1, Len(@)), !.of = 0]
           m == Top(st.last).name
           f == [st.strtab EXCEPT ![m] = SetAppend(@, rest)]
<1>1. rest \in WLine
  BY RestLine
<1>2. q = IF Top(st.last).tok = "ig" THEN st ELSE [st EXCEPT !.strtab = f]
  BY DEF StoreLine, RoffState
<1> HIDE DEF rest, m
<1>3. st.strtab \in [Macros -> Value]
  BY StateIs
<1>4. f \in [Macros -> Value]
  <2>1. m \in Macros => SetAppend(st.strtab[m], rest) \in Value
    BY <1>1, <1>3, AppendValue
  <2> QED BY <1>3, <2>1
<1> HIDE DEF f
<1> QED BY <1>2, <1>4 DEF RoffState

\* roff_block_text() is sound.
LEMMA BlockTextSound ==
  ASSUME NEW st \in RoffState, Spans(st.last), NEW ln \in WLine
  PROVE  Sound(st, roff_block_text(st, ln))
<1> DEFINE q == StoreLine(st, ln)
<1>1. q \in RoffState /\ q.last = st.last /\ q.mstack = st.mstack
  BY StoreOK
<1>2. roff_block_text(st, ln) = Out(q, ln, IGN)
  BY DEF roff_block_text
<1>3. st.mstack \in Int /\ st.mstack >= st.mstack
  BY StateIs
<1> HIDE DEF q
<1> QED BY <1>1, <1>2, <1>3, Codes, OutSound

\* roff_block_sub() is sound, at a custom end marker as well as inside the block.
LEMMA BlockSubSound ==
  ASSUME NEW st \in RoffState, st.last # <<>>, Spans(st.last), NEW ln \in WLine
  PROVE  Sound(st, roff_block_sub(st, ln))
<1> DEFINE marker == ~InHeads(ln) /\ ln.k = "call" /\ Top(st.last).end = ln.arg
           p == roffnode_pop(st.last)
           s == roffnode_cleanscope(p)
           popped == [st EXCEPT !.last = s]
           again == ln.arg1 \in Macros /\ st.strtab[ln.arg1].def
           used == DefineUsed(popped, ln.arg1)
           side == ParseSideEffect(st, ln)
           stored == StoreLine(side, ln)
           res == IF again THEN Res("rerun", {}, "none") ELSE IGN
<1>0. st.last \in Seq(Node) /\ st.mstack \in Int /\ st.mstack >= st.mstack
  BY StateIs
<1>1. roff_block_sub(st, ln) =
        IF marker THEN Out(used, ln, res)
        ELSE IF ~InHeads(ln) /\ ln.k = "cblock" THEN roff_cblock(st, ln)
        ELSE Out(stored, ln, IGN)
  <2>1. popped = [st EXCEPT !.last = roffnode_cleanscope(roffnode_pop(@))]
    OBVIOUS
  <2> QED BY <2>1, Zenon DEF roff_block_sub
<1>2. s \in Seq(Node) /\ Spans(s)
  <2>1. p \in Seq(Node) /\ Spans(p)
    BY <1>0, PopSpans, LowSpans
  <2> HIDE DEF p
  <2>2. s \in Seq(Node) /\ Low(s)
    BY <2>1, CleanType, CleanSpans
  <2> HIDE DEF s
  <2> QED BY <2>2, LowSpans
<1> HIDE DEF s
<1>3. popped \in RoffState /\ popped.last = s /\ popped.mstack = st.mstack
  BY <1>2, LastSet
<1> HIDE DEF popped
<1>4. used \in RoffState /\ used.last = popped.last /\ used.mstack = popped.mstack
  BY <1>3, UsedOK
<1>5. side \in RoffState /\ side.last = st.last /\ side.mstack = st.mstack
  BY SideEffectOK
<1> HIDE DEF used, side
<1>6. stored \in RoffState /\ stored.last = side.last /\ stored.mstack = side.mstack
  BY <1>5, StoreOK
<1>7. res \in Result /\ res.opt = {}
  BY Codes
<1> HIDE DEF stored, res, marker
<1>8. Sound(st, Out(used, ln, res))
  <2>1. used.mstack >= st.mstack /\ Spans(used.last)
    BY <1>0, <1>2, <1>3, <1>4
  <2> QED BY <1>4, <1>7, <2>1, OutSound
<1>9. Sound(st, Out(stored, ln, IGN))
  <2>1. stored.mstack >= st.mstack /\ Spans(stored.last)
    BY <1>0, <1>5, <1>6
  <2> QED BY <1>6, <2>1, Codes, OutSound
<1>10. Sound(st, roff_cblock(st, ln))
  BY CblockSound
<1> QED BY <1>1, <1>8, <1>9, <1>10

\* What roff_parse() can find: a conditional if the line has one left, a macro call, a
\* macro of the high-level parsers, or a request.
LEMMA TokenIs ==
  ASSUME NEW st, NEW ln \in WLine, NEW t, t = roff_parse(st, ln)
  PROVE  \/ t \in CondTok /\ InHeads(ln)
         \/ t = "userdef" /\ ln.k = "call"
         \/ t = "none"
         \/ t = ln.k /\ t \in CtlKind \ {"call", "mac", "dotcl", "dot"}
<1>1. CASE InHeads(ln)
  <2>1. ln.heads \in Seq(CondHead) /\ ln.of \in Nat /\ Len(ln.heads) \in Nat /\ ln.of < Len(ln.heads)
    BY <1>1, LineIs DEF InHeads
  <2>2. ln.of + 1 \in 1..Len(ln.heads)
    BY <2>1
  <2>3. ln.heads[ln.of + 1] \in CondHead
    BY <2>1, <2>2, SeqElem
  <2>4. ln.heads[ln.of + 1].tok \in CondTok
    BY <2>3 DEF CondHead
  <2> QED BY <1>1, <2>4 DEF roff_parse
<1>2. CASE ~InHeads(ln)
  <2>1. ln.k \in Kind
    BY LineIs
  <2>2. t = IF ln.k = "call" THEN IF st.strtab[ln.arg].def THEN "userdef" ELSE "none"
            ELSE IF ln.k \in {"mac", "dotcl", "dot"} \cup TextKind THEN "none" ELSE ln.k
    BY <1>2 DEF roff_parse
  <2> QED BY <2>1, <2>2 DEF Kind
<1> QED BY <1>1, <1>2

\* roff_req_or_macro() is sound for every request.
LEMMA RequestSound ==
  ASSUME NEW st \in RoffState, Low(st.last), NEW ln \in WLine, NEW c \in {0, 1},
         NEW p, NEW t, t = roff_parse(p, ln)
  PROVE  Sound(st, roff_req_or_macro(st, t, ln, c))
<1>0. Spans(st.last)
  BY StateIs, LowSpans
<1>1. CASE t \in CondTok /\ InHeads(ln)
  <2>1. roff_req_or_macro(st, t, ln, c) = roff_cond(st, ln, c)
    BY <1>1 DEF roff_req_or_macro, CondTok, BlockTok
  <2> QED BY <1>1, <2>1, CondSound
<1>2. CASE t = "userdef" /\ ln.k = "call"
  <2>1. roff_req_or_macro(st, t, ln, c) = roff_userdef(st, ln)
    BY <1>2 DEF roff_req_or_macro, CondTok, BlockTok
  <2> QED BY <1>0, <1>2, <2>1, UserdefSound
<1>3. CASE t = "none"
  <2>1. roff_req_or_macro(st, t, ln, c) = Out(st, ln, CONT)
    BY <1>3 DEF roff_req_or_macro, CondTok, BlockTok
  <2> QED BY <1>0, <2>1, SimpleSound
<1>4. CASE t = ln.k /\ t \in CtlKind \ {"call", "mac", "dotcl", "dot"}
  <2>1. CASE t \in BlockTok
    <3>1. roff_req_or_macro(st, t, ln, c) = roff_block(st, ln)
      BY <2>1 DEF roff_req_or_macro, CondTok, BlockTok
    <3> QED BY <1>4, <2>1, <3>1, BlockSound
  <2>2. CASE t = "cblock"
    <3>1. roff_req_or_macro(st, t, ln, c) = roff_cblock(st, ln)
      BY <2>2 DEF roff_req_or_macro, CondTok, BlockTok
    <3> QED BY <1>0, <3>1, CblockSound
  <2>3. CASE t \in {"return", "ds", "it", "so", "sobad", "nop", "break"}
    <3>1. roff_req_or_macro(st, t, ln, c) =
            CASE t = "return" -> roff_return(st, ln)
              [] t = "ds" -> roff_ds(st, ln)
              [] t = "it" -> roff_it(st, ln)
              [] t \in {"so", "sobad"} -> roff_so(st, ln)
              [] t \in {"nop", "break"} -> Out(st, ln, IGN)
      BY <2>3 DEF roff_req_or_macro, CondTok, BlockTok
    <3> QED BY <1>0, <1>4, <2>3, <3>1, SimpleSound
  <2> QED BY <1>4, <2>1, <2>2, <2>3 DEF CtlKind, BlockTok
<1> QED BY <1>1, <1>2, <1>3, <1>4, TokenIs

\* The loop bits of the return code are not about scopes.
LEMMA LoopChanged ==
  ASSUME NEW st, NEW out, Sound(st, out), NEW loop \in {"none", "while", "cont", "exit"}
  PROVE  Sound(st, [out EXCEPT !.res.loop = loop])
<1> DEFINE res == [out.res EXCEPT !.loop = loop]
           o == [out EXCEPT !.res = res]
<1>1. out \in Outcome
  BY DEF Sound
<1>2. out.res \in Result
  BY <1>1 DEF Outcome
<1>3. res \in Result /\ res.opt = out.res.opt /\ res.main = out.res.main
  BY <1>2 DEF Result
<1>4. [out EXCEPT !.res.loop = loop] = o
  BY <1>1, <1>2 DEF Outcome
<1> HIDE DEF res
<1>5. o \in Outcome /\ o.r = out.r /\ o.ln = out.ln /\ o.res = res
  BY <1>1, <1>3 DEF Outcome
<1> HIDE DEF o
<1>6. Sound(st, o)
  BY <1>3, <1>5 DEF Sound
<1> QED BY <1>4, <1>6

\* roff_cond_sub() is sound: a request inside a conditional is handled after the scopes
\* that end with the line were closed.
LEMMA CondSubSound ==
  ASSUME NEW st \in RoffState, st.last # <<>>, Spans(st.last), NEW ln \in WLine, NEW c \in {0, 1}
  PROVE  Sound(st, roff_cond_sub(st, ln, c))
<1> DEFINE ck == roff_cond_checkend(st, Top(st.last).tok, ln, TRUE)
           t == roff_parse(ck.r, ck.ln)
           q == ParseSideEffect(ck.r, ck.ln)
           req == roff_req_or_macro(q, t, ck.ln, c)
           loop == IF req.res.loop = "while" THEN "while" ELSE ck.loop
           b == [q EXCEPT !.last = BreakLoop(q.last)]
<1>1. ck.r \in RoffState /\ ck.r.mstack = st.mstack /\ ck.ln \in WLine /\ Low(ck.r.last)
      /\ ck.loop \in {"none", "cont", "exit"}
  <2>1. Checked(st, ln, ck)
    BY CheckendOK, Zenon
  <2> HIDE DEF ck
  <2> QED BY <2>1 DEF Checked
<1>2. roff_cond_sub(st, ln, c) =
        IF t = "break"
        THEN IF ck.loop # "none" THEN Out(q, ck.ln, Res("ign", {}, "exit"))
             ELSE IF ck.rr = 1 THEN Out(b, ck.ln, IGN) ELSE Out(q, ck.ln, IGN)
        ELSE IF ck.rr = 1 \/ t \in CondTok
        THEN [req EXCEPT !.res.loop = loop]
        ELSE Out(q, ck.ln, Res("ign", {}, ck.loop))
  BY DEF roff_cond_sub
<1> HIDE DEF ck
<1>3. q \in RoffState /\ q.last = ck.r.last /\ q.mstack = ck.r.mstack
  BY <1>1, SideEffectOK
<1> HIDE DEF q
<1>4. Low(q.last) /\ q.last \in Seq(Node) /\ st.mstack \in Int /\ q.mstack = st.mstack /\ q.mstack >= st.mstack
  BY <1>1, <1>3, StateIs
<1>5. Spans(q.last)
  BY <1>4, LowSpans
<1>6. Sound(q, req)
  BY <1>1, <1>3, <1>4, RequestSound
<1>7. Sound(st, req)
  <2> HIDE DEF req
  <2> QED BY <1>3, <1>4, <1>6, SoundFrom
<1> HIDE DEF req
<1>8. loop \in {"none", "while", "cont", "exit"}
  BY <1>1
<1> HIDE DEF loop
<1>9. Sound(st, [req EXCEPT !.res.loop = loop])
  BY <1>7, <1>8, LoopChanged
<1>10. b \in RoffState /\ b.mstack = q.mstack /\ Spans(b.last)
  <2>1. BreakLoop(q.last) \in Seq(Node) /\ Low(BreakLoop(q.last))
    BY <1>4, BreakLow
  <2>2. b \in RoffState /\ b.mstack = q.mstack /\ b.last = BreakLoop(q.last)
    BY <1>3, <2>1, LastSet
  <2> HIDE DEF b
  <2> QED BY <2>1, <2>2, LowSpans
<1> HIDE DEF b
<1>11. Sound(st, Out(b, ck.ln, IGN))
  <2>1. b.mstack >= st.mstack
    BY <1>4, <1>10
  <2> QED BY <1>1, <1>10, <2>1, Codes, OutSound
<1>12. Sound(st, Out(q, ck.ln, IGN))
  BY <1>1, <1>3, <1>4, <1>5, Codes, OutSound
<1>13. ASSUME NEW l \in {"none", "cont", "exit"} PROVE Sound(st, Out(q, ck.ln, Res("ign", {}, l)))
  BY <1>1, <1>3, <1>4, <1>5, Codes, OutSound
<1> QED BY <1>1, <1>2, <1>9, <1>11, <1>12, <1>13

\* A text line may spring the input line trap.
LEMMA TextSound ==
  ASSUME NEW st \in RoffState, Spans(st.last), NEW ln \in WLine
  PROVE  Sound(st, roff_parsetext(st, ln))
<1>0. st.mstack \in Int /\ st.mstack >= st.mstack /\ st.it \in Trap
  BY StateIs
<1>1. CASE st.it.n = 1
  <2> DEFINE q == [st EXCEPT !.it = [n |-> 0, macro |-> NoName]]
             blk == <<[ln EXCEPT !.of = 0], Plain("call", st.it.macro, NoName)>>
  <2>1. [n |-> 0, macro |-> NoName] \in Trap
    BY DEF Trap
  <2>2. q \in RoffState /\ q.last = st.last /\ q.mstack = st.mstack
    BY <2>1 DEF RoffState
  <2>3. st.it.macro \in Macros
    BY <1>0, <1>1 DEF Trap
  <2>4. Plain("call", st.it.macro, NoName) \in WLine
    <3>1. "call" \in Kind /\ st.it.macro \in Macros \cup {NoName} /\ NoName \in Macros \cup {NoName}
      BY <2>3 DEF Kind, CtlKind
    <3> QED BY <2>3, <3>1, PlainLine
  <2>5. [ln EXCEPT !.of = 0] \in WLine
    BY LineChanged
  <2>6. blk \in Seq(WLine)
    BY <2>4, <2>5
  <2>7. roff_parsetext(st, ln) = Reparse(q, ln, blk, {})
    BY <1>1 DEF roff_parsetext
  <2> HIDE DEF q, blk
  <2>8. q.mstack >= st.mstack /\ Spans(q.last)
    BY <1>0, <2>2
  <2>9. Sound(st, Reparse(q, ln, blk, {}))
    BY <2>2, <2>6, <2>8, ReparseSound
  <2> QED BY <2>7, <2>9
<1>2. CASE st.it.n # 1
  <2> DEFINE m == IF st.it.n > 1 THEN st.it.n - 1 ELSE st.it.n
             t == [st.it EXCEPT !.n = m]
             q == [st EXCEPT !.it = t]
  <2>1. st.it.n \in Nat
    BY <1>0 DEF Trap
  <2>2. m \in Nat /\ (m > 0 => st.it.n > 0)
    BY <2>1
  <2> HIDE DEF m
  <2>3. t \in Trap
    BY <1>0, <2>2 DEF Trap
  <2>4. roff_parsetext(st, ln) = Out(q, ln, CONT)
    BY <1>2 DEF roff_parsetext, m
  <2> HIDE DEF t
  <2>5. q \in RoffState /\ q.last = st.last /\ q.mstack = st.mstack
    BY <2>3 DEF RoffState
  <2> HIDE DEF q
  <2>6. q.mstack >= st.mstack /\ Spans(q.last)
    BY <1>0, <2>5
  <2> QED BY <2>4, <2>5, <2>6, Codes, OutSound
<1> QED BY <1>1, <1>2

\* Text lines are sound in every scope (roff_block_text(), roff_cond_text(),
\* roff_parsetext()).
LEMMA ParseTextSound ==
  ASSUME NEW st \in RoffState, NEW ln \in WLine, Spans(st.last) \/ Pending(st.last, ln)
  PROVE  Sound(st, ParseText(st, ln))
<1> DEFINE e == roff_cond_text(st, ln)
           p == roff_parsetext(e.r, e.ln)
<1>0. ParseText(st, ln) =
        IF st.last = <<>> THEN roff_parsetext(st, ln)
        ELSE IF Top(st.last).tok \in BlockTok THEN roff_block_text(st, ln)
        ELSE IF e.res.main = "ign" THEN e ELSE [p EXCEPT !.res.loop = e.res.loop]
  BY DEF ParseText
<1>1. st.mstack \in Int /\ st.mstack >= st.mstack
  BY StateIs
<1>2. CASE st.last = <<>>
  <2>1. Spans(st.last)
    BY <1>2 DEF Pending, Waiting
  <2> QED BY <1>0, <1>2, <2>1, TextSound
<1>3. CASE st.last # <<>> /\ Top(st.last).tok \in BlockTok
  <2>1. Top(st.last).tok \notin CondTok
    BY <1>3 DEF BlockTok, CondTok
  <2>2. Spans(st.last)
    BY <2>1 DEF Pending, Waiting
  <2> QED BY <1>0, <1>3, <2>2, BlockTextSound
<1>4. CASE st.last # <<>> /\ Top(st.last).tok \notin BlockTok
  <2> DEFINE ck == roff_cond_checkend(st, Top(st.last).tok, ln, FALSE)
             res == Res(IF ck.rr = 1 THEN "cont" ELSE "ign", {}, ck.loop)
  <2>1. ck.r \in RoffState /\ ck.r.mstack = st.mstack /\ ck.ln \in WLine
        /\ ck.loop \in {"none", "cont", "exit"}
        /\ (Spans(st.last) => Low(ck.r.last)) /\ (Waiting(st.last) => Spans(ck.r.last))
    <3>1. Checked(st, ln, ck)
      BY <1>4, CheckendOK, Zenon
    <3> HIDE DEF ck
    <3> QED BY <3>1 DEF Checked
  <2>2. e = Out(ck.r, ck.ln, res)
    BY DEF roff_cond_text
  <2> HIDE DEF e
  <2>3. Spans(ck.r.last)
    <3> HIDE DEF ck
    <3> QED BY <2>1, StateIs, LowSpans DEF Pending
  <2>4. res \in Result /\ res.opt = {}
    BY <2>1, Codes
  <2> HIDE DEF ck, res
  <2>5. Sound(st, e)
    <3>1. ck.r.mstack >= st.mstack
      BY <1>1, <2>1
    <3> QED BY <2>1, <2>2, <2>3, <2>4, <3>1, OutSound
  <2>6. e.r = ck.r /\ e.ln = ck.ln /\ e.res \in Result
    BY <2>2, <2>4 DEF Out
  <2>7. Sound(ck.r, p)
    BY <2>1, <2>3, <2>6, TextSound
  <2> HIDE DEF p
  <2>8. Sound(st, p)
    <3>1. ck.r.mstack >= st.mstack
      BY <1>1, <2>1
    <3> QED BY <2>1, <2>7, <3>1, SoundFrom
  <2>9. e.res.loop \in {"none", "while", "cont", "exit"}
    BY <2>6 DEF Result
  <2>10. Sound(st, [p EXCEPT !.res.loop = e.res.loop])
    BY <2>8, <2>9, LoopChanged
  <2> QED BY <1>0, <1>4, <2>5, <2>10
<1> QED BY <1>2, <1>3, <1>4

\* Requests and macros are sound in every scope.
LEMMA ParseCtlSound ==
  ASSUME NEW st \in RoffState, Spans(st.last), NEW ln \in WLine, NEW c \in {0, 1}
  PROVE  Sound(st, ParseCtl(st, ln, c))
<1>1. CASE ~InHeads(ln) /\ ln.k = "dot"
  BY <1>1, SimpleSound DEF ParseCtl
<1>2. CASE ~(~InHeads(ln) /\ ln.k = "dot") /\ st.last = <<>>
  <2> DEFINE q == ParseSideEffect(st, ln)
  <2>1. ParseCtl(st, ln, c) = roff_req_or_macro(q, roff_parse(st, ln), ln, c)
    BY <1>2 DEF ParseCtl
  <2>2. q \in RoffState /\ q.last = st.last /\ q.mstack = st.mstack
    BY SideEffectOK
  <2> HIDE DEF q
  <2>3. Low(q.last)
    <3>1. Len(st.last) = 0 /\ 1..0 = {}
      BY <1>2, StateIs, EmptyLen
    <3> QED BY <2>2, <3>1 DEF Low
  <2>4. Sound(q, roff_req_or_macro(q, roff_parse(st, ln), ln, c))
    BY <2>2, <2>3, RequestSound
  <2>5. q.mstack >= st.mstack
    BY <2>2, StateIs
  <2> QED BY <2>1, <2>2, <2>4, <2>5, SoundFrom
<1>3. CASE ~(~InHeads(ln) /\ ln.k = "dot") /\ st.last # <<>> /\ Top(st.last).tok \in BlockTok
  BY <1>3, BlockSubSound DEF ParseCtl
<1>4. CASE ~(~InHeads(ln) /\ ln.k = "dot") /\ st.last # <<>> /\ Top(st.last).tok \notin BlockTok
  BY <1>4, CondSubSound DEF ParseCtl
<1> QED BY <1>1, <1>2, <1>3, <1>4

\* roff_parseln() is sound for every state, every line and every value of its condition:
\* it keeps the types, never leaves a macro context itself, enters one for every macro
\* call it asks for, and between two lines only the innermost scope may end with a line,
\* the next one.
THEOREM roff_parselnSound ==
  ASSUME NEW st \in RoffState, NEW ln \in WLine, NEW c \in {0, 1},
         Spans(st.last) \/ Pending(st.last, ln)
  PROVE  Sound(st, roff_parseln(st, ln, c))
<1>1. CASE ln.cont
  <2> DEFINE l2 == [ln EXCEPT !.cont = FALSE]
  <2>1. roff_parseln(st, ln, c) = Out(st, l2, APPEND)
    BY <1>1 DEF roff_parseln
  <2>2. ln \in Line /\ Free(ln)
    BY <1>1, LineIs DEF WellFormed, Free
  <2>3. l2 \in WLine
    BY LineChanged
  <2>4. l2.heads = ln.heads
    BY <2>2 DEF Line
  <2> HIDE DEF l2
  <2>5. Free(l2)
    BY <2>2, <2>4 DEF Free
  <2>6. Spans(st.last) /\ st.mstack >= st.mstack /\ <<>> \in Seq(WLine)
    BY <1>1, StateIs DEF Pending
  <2>7. Sound(st, Out(st, l2, APPEND))
    BY <2>3, <2>5, <2>6, Codes DEF Sound, Out, Outcome
  <2> QED BY <2>1, <2>7
<1>2. CASE ~ln.cont /\ IsCtl(ln)
  <2>1. Spans(st.last)
    BY <1>2 DEF Pending, IsCtl, CtlKind
  <2> QED BY <1>2, <2>1, ParseCtlSound DEF roff_parseln
<1>3. CASE ~ln.cont /\ ~IsCtl(ln)
  BY <1>3, ParseTextSound DEF roff_parseln
<1> QED BY <1>1, <1>2, <1>3

-----------------------------------------------------------------------------
\* The local variables of an invocation of mparse_buf_r(), with their types.
FrameType ==
  [start : BOOLEAN, kind : {"file", "macro", "text", "sofail"}, blk : Seq(WLine),
   eof : BOOLEAN, look : Seq(WLine), ln : WLine,
   ph : {"fetch", "parse", "called", "leave"}, res : Result, loop : Nat \X Nat,
   inloop : BOOLEAN, result : {"cont", "ign", "userret"}]

\* A line of this invocation is being replayed.
LoopHere(n, f) == f.loop # Null => f.loop[1] = n /\ f.loop[2] \in 1..Len(f.look)

\* The invocation number n.
FrameOK(n, f) ==
  /\ f \in FrameType
  /\ f.start <=> f.kind = "file"
  /\ f.ph = "fetch" => Free(f.ln)
  /\ f.ph = "parse" => f.look # <<>>
  /\ f.ph = "called" => "append" \notin f.res.opt
  /\ LoopHere(n, f)

StackOK(fs) ==
  /\ fs \in Seq(FrameType)
  /\ \A i \in 1..Len(fs) : FrameOK(i, fs[i]) /\ (i < Len(fs) => fs[i].ph = "called")
  /\ fs # <<>> => fs[1].kind = "file"

\* curp->loop is in an invocation that knows of it, and no later one has a loop.
LoopOK(fs, cl) ==
  /\ cl \in Nat \X Nat
  /\ cl # Null =>
       /\ cl[1] \in 1..Len(fs) /\ cl[2] \in 1..Len(fs[cl[1]].look) /\ fs[cl[1]].inloop
       /\ \A i \in 1..Len(fs) : fs[i].inloop => i <= cl[1]

Count(fs, kinds) == Cardinality({i \in 1..Len(fs) : fs[i].kind \in kinds})

\* What the active invocations may cost: nr lines were read from files, and rc is
\* the reparse counter.
Budget(fs, nr, rc) ==
  /\ Count(fs, {"file"}) <= SoLimit + 1
  /\ Count(fs, {"macro", "text"}) <= ReparseLimit * nr
  /\ nr # 0 => Count(fs, {"macro", "text"}) + ReparseLimit <= ReparseLimit * nr + rc

\* Before anything was read, there is nothing to be parsed.
Unread(fs, nr) ==
  nr = 0 => Len(fs) <= 1 /\ \A i \in 1..Len(fs) : fs[i].ph \in {"fetch", "leave"}

\* The innermost scope may end with the line after the one that is being parsed.
SpanOK(f, stack) == Spans(stack) \/ (f.ph = "parse" /\ Pending(stack, f.ln))

State(fs, cl, q, nr, rc) ==
  /\ StackOK(fs) /\ LoopOK(fs, cl) /\ q \in RoffState /\ nr \in Nat /\ rc \in Nat
  /\ Budget(fs, nr, rc) /\ Unread(fs, nr)
  /\ Count(fs, {"macro"}) <= q.mstack

MparseInv ==
  /\ menu \in DOMAIN Menus
  /\ State(frames, curloop, r, nread, reparse_count)
  /\ status = "run" => frames # <<>> /\ SpanOK(Cur, r.last)

-----------------------------------------------------------------------------
\* The local variables of an invocation have their types.
LEMMA FieldsIs ==
  ASSUME NEW f \in FrameType
  PROVE  /\ f.kind \in {"file", "macro", "text", "sofail"} /\ f.blk \in Seq(WLine)
         /\ f.look \in Seq(WLine) /\ Len(f.look) \in Nat /\ f.ln \in WLine
         /\ f.ph \in {"fetch", "parse", "called", "leave"} /\ f.res \in Result
         /\ f.loop \in Nat \X Nat /\ f.result \in {"cont", "ign", "userret"}
<1>1. f.look \in Seq(WLine)
  BY DEF FrameType
<1> QED BY <1>1 DEF FrameType

\* Every invocation on the stack is as it should be.
LEMMA FrameElem ==
  ASSUME NEW fs, StackOK(fs), NEW i \in 1..Len(fs)
  PROVE  fs[i] \in FrameType /\ FrameOK(i, fs[i])
BY DEF StackOK, FrameOK

\* The invocations of some kinds are finitely many.
LEMMA CountType ==
  ASSUME NEW fs \in Seq(FrameType), NEW kinds
  PROVE  Count(fs, kinds) \in Nat /\ IsFiniteSet({i \in 1..Len(fs) : fs[i].kind \in kinds})
<1>1. Len(fs) \in Nat
  OBVIOUS
<1>2. IsFiniteSet(1..Len(fs))
  BY <1>1, FS_Interval
<1>3. IsFiniteSet({i \in 1..Len(fs) : fs[i].kind \in kinds})
  BY <1>2, FS_Subset
<1> QED BY <1>3, FS_CardinalityType DEF Count

\* The first n invocations have not changed their kinds.
SameKinds(fs, gs, n) == \A i \in 1..n : gs[i].kind = fs[i].kind

SameCount(fs, gs) == \A kinds : Count(gs, kinds) = Count(fs, kinds)

\* gs has one more invocation than fs, of the kind kind.
OneMore(fs, gs, kind) ==
  \A kinds : Count(gs, kinds) = IF kind \in kinds THEN Count(fs, kinds) + 1 ELSE Count(fs, kinds)

\* As many invocations of each kind as before.
LEMMA CountSame ==
  ASSUME NEW fs, NEW gs, Len(gs) = Len(fs), SameKinds(fs, gs, Len(fs))
  PROVE  SameCount(fs, gs)
<1> SUFFICES ASSUME NEW kinds PROVE Count(gs, kinds) = Count(fs, kinds)
  BY DEF SameCount
<1>1. {i \in 1..Len(gs) : gs[i].kind \in kinds} = {i \in 1..Len(fs) : fs[i].kind \in kinds}
  BY DEF SameKinds
<1> QED BY <1>1 DEF Count

\* One more invocation.
LEMMA CountMore ==
  ASSUME NEW fs \in Seq(FrameType), NEW gs, Len(gs) = Len(fs) + 1,
         SameKinds(fs, gs, Len(fs)), NEW kind, kind = gs[Len(gs)].kind
  PROVE  OneMore(fs, gs, kind)
<1> SUFFICES ASSUME NEW kinds
             PROVE  Count(gs, kinds) = IF kind \in kinds THEN Count(fs, kinds) + 1 ELSE Count(fs, kinds)
  BY DEF OneMore
<1> DEFINE A == {i \in 1..Len(fs) : fs[i].kind \in kinds}
           B == {i \in 1..Len(gs) : gs[i].kind \in kinds}
           n == Len(gs)
<1>0. Len(fs) \in Nat
  OBVIOUS
<1>1. IsFiniteSet(A)
  BY CountType, Zenon
<1>2. n \notin A /\ n \in 1..n
  BY <1>0
<1>3. CASE kind \in kinds
  <2>1. B = A \cup {n}
    BY <1>0, <1>3 DEF SameKinds
  <2> HIDE DEF A, B, n
  <2>2. Cardinality(B) = Cardinality(A) + 1
    BY <1>1, <1>2, <2>1, FS_AddElement
  <2> QED BY <1>3, <2>2 DEF Count, A, B, n
<1>4. CASE kind \notin kinds
  <2>1. B = A
    BY <1>0, <1>4 DEF SameKinds
  <2> HIDE DEF A, B, n
  <2> QED BY <1>4, <2>1 DEF Count, A, B, n
<1> QED BY <1>3, <1>4

-----------------------------------------------------------------------------
\* gs is fs with g as its invocation number n, the last one.
Topped(fs, gs, n, g) ==
  /\ StackOK(gs) /\ Len(gs) = n /\ gs[n] = g
  /\ \A i \in 1..(n - 1) : gs[i] = fs[i]

\* The innermost invocation goes on.
LEMMA PutTop ==
  ASSUME NEW fs, StackOK(fs), NEW n \in Nat \ {0}, n = Len(fs), NEW g, FrameOK(n, g),
         g.kind = fs[n].kind, NEW gs, gs = [fs EXCEPT ![n] = g]
  PROVE  Topped(fs, gs, n, g) /\ SameCount(fs, gs)
<1>1. fs \in Seq(FrameType) /\ n \in 1..n /\ g \in FrameType
  BY DEF StackOK, FrameOK
<1>2. Put(FrameType, fs, n, g, gs)
  BY <1>1, Replaced
<1>3. gs \in Seq(FrameType) /\ Len(gs) = n /\ \A m \in 1..n : gs[m] = IF m = n THEN g ELSE fs[m]
  BY <1>2 DEF Put
<1>4. SameKinds(fs, gs, n)
  BY <1>3 DEF SameKinds
<1>5. SameCount(fs, gs)
  BY <1>3, <1>4, CountSame
<1>6. ASSUME NEW i \in 1..Len(gs) PROVE FrameOK(i, gs[i]) /\ (i < Len(gs) => gs[i].ph = "called")
  <2>1. CASE i = n
    BY <1>3, <2>1
  <2>2. CASE i # n
    BY <1>3, <2>2 DEF StackOK
  <2> QED BY <2>1, <2>2
<1>7. gs # <<>> => gs[1].kind = "file"
  <2>1. fs # <<>>
    BY <1>1, HasLen
  <2>2. 1 \in 1..n
    BY <1>1
  <2> QED BY <1>4, <2>1, <2>2 DEF StackOK, SameKinds
<1>8. StackOK(gs)
  BY <1>3, <1>6, <1>7 DEF StackOK
<1>9. gs[n] = g /\ \A i \in 1..(n - 1) : gs[i] = fs[i]
  BY <1>1, <1>3
<1> QED BY <1>3, <1>5, <1>8, <1>9 DEF Topped

\* It starts another one.
LEMMA PushTop ==
  ASSUME NEW fs, StackOK(fs), NEW n \in Nat \ {0}, n = Len(fs), NEW g, FrameOK(n, g),
         g.kind = fs[n].kind, g.ph = "called", NEW child, FrameOK(n + 1, child),
         NEW hs, hs = [fs EXCEPT ![n] = g],
         NEW gs, gs = Append(hs, child)
  PROVE  Topped(hs, gs, n + 1, child) /\ Topped(fs, hs, n, g) /\ OneMore(fs, gs, child.kind)
<1>0. Topped(fs, hs, n, g) /\ SameCount(fs, hs)
  BY PutTop
<1>1. StackOK(hs) /\ Len(hs) = n /\ hs[n] = g
  BY <1>0 DEF Topped
<1>2. hs \in Seq(FrameType) /\ child \in FrameType
  BY <1>1 DEF StackOK, FrameOK
<1>3. Plus(FrameType, hs, child, gs)
  BY <1>2, Appended
<1>4. gs \in Seq(FrameType) /\ Len(gs) = n + 1 /\ gs[n + 1] = child /\ \A m \in 1..n : gs[m] = hs[m]
  BY <1>1, <1>3 DEF Plus
<1>5. OneMore(fs, gs, child.kind)
  <2>1. SameKinds(hs, gs, Len(hs)) /\ Len(gs) = Len(hs) + 1 /\ child.kind = gs[Len(gs)].kind
    BY <1>1, <1>4 DEF SameKinds
  <2>2. OneMore(hs, gs, child.kind)
    BY <1>2, <2>1, CountMore
  <2> QED BY <1>0, <2>2 DEF OneMore, SameCount
<1>6. ASSUME NEW i \in 1..Len(gs) PROVE FrameOK(i, gs[i]) /\ (i < Len(gs) => gs[i].ph = "called")
  <2>1. CASE i = n + 1
    BY <1>4, <2>1
  <2>2. CASE i = n
    BY <1>1, <1>4, <2>2
  <2>3. CASE i \in 1..(n - 1)
    <3>1. gs[i] = hs[i] /\ i \in 1..Len(hs) /\ i < Len(hs)
      BY <1>1, <1>4, <2>3
    <3> QED BY <1>1, <3>1 DEF StackOK
  <2> QED BY <1>4, <2>1, <2>2, <2>3
<1>7. gs # <<>> => gs[1].kind = "file"
  <2>1. hs # <<>>
    BY <1>1, <1>2, HasLen
  <2>2. 1 \in 1..n
    OBVIOUS
  <2> QED BY <1>1, <1>4, <2>1, <2>2 DEF StackOK
<1>8. StackOK(gs)
  BY <1>4, <1>6, <1>7 DEF StackOK
<1>9. \A i \in 1..((n + 1) - 1) : gs[i] = hs[i]
  BY <1>4
<1> QED BY <1>0, <1>4, <1>5, <1>8, <1>9 DEF Topped

\* It returns to its caller.
LEMMA PopTop ==
  ASSUME NEW fs, StackOK(fs), NEW n \in Nat \ {0}, n + 1 = Len(fs), NEW g, FrameOK(n, g),
         g.kind = fs[n].kind,
         NEW hs, hs = SubSeq(fs, 1, n),
         NEW gs, gs = [hs EXCEPT ![n] = g]
  PROVE  Topped(fs, gs, n, g) /\ OneMore(gs, fs, fs[n + 1].kind)
<1>1. fs \in Seq(FrameType) /\ g \in FrameType /\ n \in 0..Len(fs) /\ n \in 1..n
  BY DEF StackOK, FrameOK
<1>2. Prefix(FrameType, fs, n, hs)
  BY <1>1, Cut
<1>3. hs \in Seq(FrameType) /\ Len(hs) = n /\ \A m \in 1..n : hs[m] = fs[m]
  BY <1>2 DEF Prefix
<1>4. Put(FrameType, hs, n, g, gs)
  BY <1>1, <1>3, Replaced
<1>5. gs \in Seq(FrameType) /\ Len(gs) = n /\ \A m \in 1..n : gs[m] = IF m = n THEN g ELSE fs[m]
  BY <1>3, <1>4 DEF Put
<1>6. \A i \in 1..n : fs[i].kind = gs[i].kind
  BY <1>5
<1>7. OneMore(gs, fs, fs[n + 1].kind)
  <2>1. Len(fs) = Len(gs) + 1 /\ SameKinds(gs, fs, Len(gs)) /\ fs[n + 1].kind = fs[Len(fs)].kind
    BY <1>5, <1>6 DEF SameKinds
  <2> QED BY <1>5, <2>1, CountMore
<1>8. ASSUME NEW i \in 1..Len(gs) PROVE FrameOK(i, gs[i]) /\ (i < Len(gs) => gs[i].ph = "called")
  <2>1. CASE i = n
    BY <1>5, <2>1
  <2>2. CASE i # n
    <3>1. i \in 1..Len(fs) /\ i < Len(fs) /\ gs[i] = fs[i]
      BY <1>5, <2>2
    <3> QED BY <3>1 DEF StackOK
  <2> QED BY <2>1, <2>2
<1>9. gs # <<>> => gs[1].kind = "file"
  <2>1. Len(fs) # 0
    OBVIOUS
  <2>2. fs # <<>>
    BY <1>1, <2>1, HasLen
  <2>3. 1 \in 1..n
    OBVIOUS
  <2> QED BY <1>6, <2>2, <2>3 DEF StackOK
<1>10. StackOK(gs)
  BY <1>5, <1>8, <1>9 DEF StackOK
<1>11. gs[n] = g /\ \A i \in 1..(n - 1) : gs[i] = fs[i]
  BY <1>1, <1>5
<1> QED BY <1>5, <1>7, <1>10, <1>11 DEF Topped

-----------------------------------------------------------------------------
\* LoopOK of the stack fs with g as its last invocation, number n.
LoopAt(fs, n, g, cl) ==
  /\ cl \in Nat \X Nat
  /\ cl # Null =>
       /\ cl[1] \in 1..n
       /\ cl[1] = n => cl[2] \in 1..Len(g.look) /\ g.inloop
       /\ cl[1] # n => cl[2] \in 1..Len(fs[cl[1]].look) /\ fs[cl[1]].inloop
       /\ \A i \in 1..(n - 1) : fs[i].inloop => i <= cl[1]
       /\ g.inloop => n <= cl[1]

\* Whether curp->loop is sound only depends on the invocations that are there.
LEMMA LoopTop ==
  ASSUME NEW fs, NEW gs, NEW n \in Nat \ {0}, NEW g, Topped(fs, gs, n, g), NEW cl, LoopAt(fs, n, g, cl)
  PROVE  LoopOK(gs, cl)
<1>0. Len(gs) = n /\ gs[n] = g /\ \A i \in 1..(n - 1) : gs[i] = fs[i]
  BY DEF Topped
<1> SUFFICES ASSUME cl # Null
             PROVE  /\ cl[1] \in 1..n /\ cl[2] \in 1..Len(gs[cl[1]].look) /\ gs[cl[1]].inloop
                    /\ \A i \in 1..n : gs[i].inloop => i <= cl[1]
  BY <1>0 DEF LoopOK, LoopAt
<1>1. cl[1] \in 1..n
  BY DEF LoopAt
<1>2. cl[2] \in 1..Len(gs[cl[1]].look) /\ gs[cl[1]].inloop
  <2>1. CASE cl[1] = n
    BY <1>0, <2>1 DEF LoopAt
  <2>2. CASE cl[1] # n
    <3>1. gs[cl[1]] = fs[cl[1]]
      BY <1>0, <1>1, <2>2
    <3> QED BY <2>2, <3>1 DEF LoopAt
  <2> QED BY <2>1, <2>2
<1>3. ASSUME NEW i \in 1..n, gs[i].inloop PROVE i <= cl[1]
  <2>1. CASE i = n
    BY <1>0, <1>3, <2>1 DEF LoopAt
  <2>2. CASE i # n
    BY <1>0, <1>3, <2>2 DEF LoopAt
  <2> QED BY <2>1, <2>2
<1> QED BY <1>1, <1>2, <1>3

\* Conversely.
LEMMA LoopCur ==
  ASSUME NEW fs, NEW n \in Nat \ {0}, n = Len(fs), NEW g, g.look = fs[n].look, g.inloop = fs[n].inloop,
         NEW cl, LoopOK(fs, cl)
  PROVE  LoopAt(fs, n, g, cl)
BY DEF LoopAt, LoopOK

\* A new invocation of mparse_buf_r() has seen no loop.
LEMMA LoopPush ==
  ASSUME NEW hs, NEW gs, NEW n \in Nat \ {0}, n = Len(hs), NEW child, Topped(hs, gs, n + 1, child),
         ~child.inloop, NEW cl, LoopOK(hs, cl)
  PROVE  LoopOK(gs, cl)
<1>1. LoopAt(hs, n + 1, child, cl)
  BY DEF LoopAt, LoopOK
<1> QED BY <1>1, LoopTop

-----------------------------------------------------------------------------
\* Time passes: a line was read from a file, or the counter does not decrease.
Paid(nr, rc, nr2, rc2) == (nr2 = nr /\ rc2 >= rc) \/ (nr2 = nr + 1 /\ rc2 = 0)

\* Each line of a file pays for ReparseLimit expansions (reparse_count is reset).
LEMMA Product ==
  ASSUME NEW n \in Nat
  PROVE  /\ ReparseLimit \in Nat /\ SoLimit \in Nat
         /\ ReparseLimit * n \in Nat /\ ReparseLimit * (n + 1) = ReparseLimit * n + ReparseLimit
<1>1. ReparseLimit \in Nat /\ SoLimit \in Nat
  BY MparseAssumption
<1> QED BY <1>1

\* What the invocations cost does not grow if none of them starts another one.
LEMMA BudgetKept ==
  ASSUME NEW fs \in Seq(FrameType), NEW gs \in Seq(FrameType), NEW nr \in Nat, NEW rc \in Nat,
         NEW nr2 \in Nat, NEW rc2 \in Nat,
         Budget(fs, nr, rc), Paid(nr, rc, nr2, rc2),
         \A kinds : Count(gs, kinds) <= Count(fs, kinds)
  PROVE  Budget(gs, nr2, rc2)
<1> DEFINE a == Count(fs, {"macro", "text"})
           b == Count(gs, {"macro", "text"})
           p == ReparseLimit * nr
           p2 == ReparseLimit * nr2
<1>1. a \in Nat /\ b \in Nat /\ Count(fs, {"file"}) \in Nat /\ Count(gs, {"file"}) \in Nat
  BY CountType
<1>2. b <= a /\ Count(gs, {"file"}) <= Count(fs, {"file"})
  OBVIOUS
<1>3. p \in Nat /\ ReparseLimit \in Nat /\ SoLimit \in Nat
      /\ ReparseLimit * (nr + 1) = p + ReparseLimit
  BY Product
<1>4. (nr2 = nr => p2 = p) /\ (nr2 = nr + 1 => p2 = p + ReparseLimit)
  BY <1>3
<1>5. Count(fs, {"file"}) <= SoLimit + 1 /\ a <= p /\ (nr # 0 => a + ReparseLimit <= p + rc)
  BY DEF Budget
<1> SUFFICES Count(gs, {"file"}) <= SoLimit + 1 /\ b <= p2 /\ (nr2 # 0 => b + ReparseLimit <= p2 + rc2)
  BY DEF Budget
<1> HIDE DEF a, b, p, p2
<1>6. CASE nr2 = nr /\ rc2 >= rc
  BY <1>1, <1>2, <1>3, <1>4, <1>5, <1>6
<1>7. CASE nr2 = nr + 1 /\ rc2 = 0
  BY <1>1, <1>2, <1>3, <1>4, <1>5, <1>7
<1> QED BY <1>6, <1>7 DEF Paid

\* The stack gs with g as its innermost invocation is as it should be.
Became(gs, cl, q, nr, rc, g) == State(gs, cl, q, nr, rc) /\ gs # <<>> /\ gs[Len(gs)] = g

\* The innermost invocation g goes on.
LEMMA GoesOn ==
  ASSUME NEW fs, NEW cl, NEW q, NEW nr, NEW rc, State(fs, cl, q, nr, rc),
         NEW n \in Nat \ {0}, n = Len(fs), NEW g, FrameOK(n, g), g.kind = fs[n].kind,
         NEW gs, gs = [fs EXCEPT ![n] = g], NEW cl2, LoopAt(fs, n, g, cl2),
         NEW q2 \in RoffState, q2.mstack >= q.mstack,
         NEW nr2 \in Nat, NEW rc2 \in Nat, Paid(nr, rc, nr2, rc2),
         nr2 = 0 => g.ph \in {"fetch", "leave"}
  PROVE  Became(gs, cl2, q2, nr2, rc2, g)
<1>1. StackOK(fs) /\ nr \in Nat /\ rc \in Nat /\ q \in RoffState /\ fs \in Seq(FrameType)
  BY DEF State, StackOK
<1>2. Topped(fs, gs, n, g) /\ SameCount(fs, gs)
  BY <1>1, PutTop
<1>3. StackOK(gs) /\ Len(gs) = n /\ gs[n] = g /\ gs \in Seq(FrameType) /\ gs # <<>>
  <2>1. StackOK(gs) /\ Len(gs) = n /\ gs[n] = g /\ gs \in Seq(FrameType)
    BY <1>2 DEF Topped, StackOK
  <2> QED BY <2>1, HasLen
<1>4. LoopOK(gs, cl2)
  BY <1>2, LoopTop
<1>5. Budget(gs, nr2, rc2)
  <2>1. \A kinds : Count(gs, kinds) <= Count(fs, kinds)
    <3> TAKE kinds
    <3>1. Count(gs, kinds) = Count(fs, kinds) /\ Count(fs, kinds) \in Nat
      BY <1>1, <1>2, CountType DEF SameCount
    <3> QED BY <3>1
  <2>2. Budget(fs, nr, rc)
    BY DEF State
  <2> QED BY <1>1, <1>3, <2>1, <2>2, BudgetKept
<1>6. Unread(gs, nr2)
  <2> SUFFICES ASSUME nr2 = 0
               PROVE  Len(gs) <= 1 /\ \A i \in 1..Len(gs) : gs[i].ph \in {"fetch", "leave"}
    BY DEF Unread
  <2>1. nr = 0
    BY <1>1 DEF Paid
  <2>2. n = 1
    BY <2>1 DEF State, Unread
  <2>3. \A i \in 1..Len(gs) : i = n
    BY <1>3, <2>2
  <2> QED BY <1>3, <2>2, <2>3
<1>7. Count(gs, {"macro"}) <= q2.mstack
  <2>1. Count(gs, {"macro"}) = Count(fs, {"macro"}) /\ Count(fs, {"macro"}) \in Nat
    BY <1>1, <1>2, CountType DEF SameCount
  <2>2. Count(fs, {"macro"}) <= q.mstack /\ q.mstack \in Int /\ q2.mstack \in Int
    BY <1>1, StateIs DEF State
  <2> QED BY <2>1, <2>2
<1> QED BY <1>3, <1>4, <1>5, <1>6, <1>7 DEF State, Became

\* What a new invocation needs.
Granted(fs, q, rc, q2, rc2, kind) ==
  \/ kind = "macro" /\ q2.mstack > q.mstack /\ rc2 = rc + 1 /\ rc2 <= ReparseLimit
  \/ kind = "text" /\ rc2 = rc + 1 /\ rc2 <= ReparseLimit
  \/ kind = "file" /\ Count(fs, {"file"}) <= SoLimit /\ rc2 = rc
  \/ kind = "sofail" /\ rc2 = rc

\* An expansion that the limits in mparse_buf_r() and mparse_readfd() admit is paid for.
LEMMA BudgetSpent ==
  ASSUME NEW fs \in Seq(FrameType), NEW gs \in Seq(FrameType), NEW kind, OneMore(fs, gs, kind),
         NEW nr \in Nat \ {0}, NEW rc \in Nat, NEW rc2 \in Nat, NEW q \in RoffState, NEW q2 \in RoffState,
         Budget(fs, nr, rc), Granted(fs, q, rc, q2, rc2, kind),
         Count(fs, {"macro"}) <= q.mstack, q2.mstack >= q.mstack
  PROVE  Budget(gs, nr, rc2) /\ Count(gs, {"macro"}) <= q2.mstack
<1> DEFINE A == {"macro", "text"}
           a == Count(fs, A)
           b == Count(gs, A)
           x == Count(fs, {"file"})
           y == Count(gs, {"file"})
           u == Count(fs, {"macro"})
           v == Count(gs, {"macro"})
           p == ReparseLimit * nr
<1>1. a \in Nat /\ b \in Nat /\ x \in Nat /\ y \in Nat /\ u \in Nat /\ v \in Nat
  BY CountType
<1>2. p \in Nat /\ ReparseLimit \in Nat /\ SoLimit \in Nat
  BY Product
<1>3. /\ b = IF kind \in A THEN a + 1 ELSE a
      /\ y = IF kind \in {"file"} THEN x + 1 ELSE x
      /\ v = IF kind \in {"macro"} THEN u + 1 ELSE u
  BY DEF OneMore
<1>4. x <= SoLimit + 1 /\ a <= p /\ a + ReparseLimit <= p + rc
  BY DEF Budget
<1>5. q.mstack \in Int /\ q2.mstack \in Int /\ u <= q.mstack
  BY StateIs
<1> SUFFICES y <= SoLimit + 1 /\ b <= p /\ b + ReparseLimit <= p + rc2 /\ v <= q2.mstack
  BY DEF Budget
<1>6. (kind = "file" => x <= SoLimit)
  BY DEF Granted
<1> HIDE DEF a, b, x, y, u, v, p
<1>7. CASE kind = "macro" /\ q2.mstack > q.mstack /\ rc2 = rc + 1 /\ rc2 <= ReparseLimit
  BY <1>1, <1>2, <1>3, <1>4, <1>5, <1>7
<1>8. CASE kind = "text" /\ rc2 = rc + 1 /\ rc2 <= ReparseLimit
  BY <1>1, <1>2, <1>3, <1>4, <1>5, <1>8
<1>9. CASE kind = "file" /\ rc2 = rc
  BY <1>1, <1>2, <1>3, <1>4, <1>5, <1>6, <1>9
<1>10. CASE kind = "sofail" /\ rc2 = rc
  BY <1>1, <1>2, <1>3, <1>4, <1>5, <1>10
<1> QED BY <1>7, <1>8, <1>9, <1>10 DEF Granted

\* The innermost invocation g starts another one.
LEMMA Calls ==
  ASSUME NEW fs, NEW cl, NEW q, NEW nr, NEW rc, State(fs, cl, q, nr, rc), nr # 0,
         NEW n \in Nat \ {0}, n = Len(fs), NEW g, FrameOK(n, g), g.kind = fs[n].kind, g.ph = "called",
         NEW child, FrameOK(n + 1, child), ~child.inloop,
         NEW hs, hs = [fs EXCEPT ![n] = g], NEW gs, gs = Append(hs, child),
         NEW cl2, LoopAt(fs, n, g, cl2),
         NEW q2 \in RoffState, q2.mstack >= q.mstack, NEW rc2 \in Nat,
         Granted(fs, q, rc, q2, rc2, child.kind)
  PROVE  Became(gs, cl2, q2, nr, rc2, child)
<1>1. StackOK(fs) /\ nr \in Nat /\ rc \in Nat /\ q \in RoffState /\ fs \in Seq(FrameType)
  BY DEF State, StackOK
<1>2. Topped(hs, gs, n + 1, child) /\ Topped(fs, hs, n, g) /\ OneMore(fs, gs, child.kind)
  BY <1>1, PushTop
<1>3. StackOK(gs) /\ Len(gs) = n + 1 /\ gs[n + 1] = child /\ gs \in Seq(FrameType) /\ gs # <<>>
  <2>1. StackOK(gs) /\ Len(gs) = n + 1 /\ gs[n + 1] = child /\ gs \in Seq(FrameType)
    BY <1>2 DEF Topped, StackOK
  <2> QED BY <2>1, HasLen
<1>4. LoopOK(gs, cl2)
  <2>1. LoopOK(hs, cl2) /\ n = Len(hs)
    BY <1>2, LoopTop DEF Topped
  <2> QED BY <1>2, <2>1, LoopPush
<1>5. Budget(gs, nr, rc2) /\ Count(gs, {"macro"}) <= q2.mstack
  <2>1. Budget(fs, nr, rc) /\ Count(fs, {"macro"}) <= q.mstack /\ nr \in Nat \ {0}
    BY <1>1 DEF State
  <2> QED BY <1>1, <1>2, <1>3, <2>1, BudgetSpent
<1>6. Unread(gs, nr)
  BY DEF Unread
<1> QED BY <1>1, <1>3, <1>4, <1>5, <1>6 DEF State, Became

\* The innermost invocation returns, and its caller goes on as g.
LEMMA Returns ==
  ASSUME NEW fs, NEW cl, NEW q, NEW nr, NEW rc, State(fs, cl, q, nr, rc),
         NEW n \in Nat \ {0}, n + 1 = Len(fs), NEW g, FrameOK(n, g), g.kind = fs[n].kind,
         NEW hs, hs = SubSeq(fs, 1, n), NEW gs, gs = [hs EXCEPT ![n] = g],
         NEW cl2, LoopAt(fs, n, g, cl2),
         NEW q2 \in RoffState,
         q2.mstack = IF fs[n + 1].kind = "macro" THEN q.mstack - 1 ELSE q.mstack
  PROVE  Became(gs, cl2, q2, nr, rc, g)
<1>1. StackOK(fs) /\ nr \in Nat /\ rc \in Nat /\ q \in RoffState /\ fs \in Seq(FrameType)
  BY DEF State, StackOK
<1>2. Topped(fs, gs, n, g) /\ OneMore(gs, fs, fs[n + 1].kind)
  BY <1>1, PopTop
<1>3. StackOK(gs) /\ Len(gs) = n /\ gs[n] = g /\ gs \in Seq(FrameType) /\ gs # <<>>
  <2>1. StackOK(gs) /\ Len(gs) = n /\ gs[n] = g /\ gs \in Seq(FrameType)
    BY <1>2 DEF Topped, StackOK
  <2> QED BY <2>1, HasLen
<1>4. LoopOK(gs, cl2)
  BY <1>2, LoopTop
<1>5. Budget(gs, nr, rc)
  <2>1. \A kinds : Count(gs, kinds) <= Count(fs, kinds)
    <3> TAKE kinds
    <3>1. Count(gs, kinds) \in Nat /\ Count(fs, kinds) \in Nat
      BY <1>1, <1>3, CountType
    <3>2. Count(fs, kinds) = IF fs[n + 1].kind \in kinds THEN Count(gs, kinds) + 1 ELSE Count(gs, kinds)
      BY <1>2 DEF OneMore
    <3> QED BY <3>1, <3>2
  <2>2. Budget(fs, nr, rc)
    BY DEF State
  <2>3. Paid(nr, rc, nr, rc)
    BY <1>1 DEF Paid
  <2> QED BY <1>1, <1>3, <2>1, <2>2, <2>3, BudgetKept
<1>6. Unread(gs, nr)
  BY DEF Unread, State
<1>7. Count(gs, {"macro"}) <= q2.mstack
  <2>1. Count(fs, {"macro"}) = IF fs[n + 1].kind \in {"macro"} THEN Count(gs, {"macro"}) + 1
                               ELSE Count(gs, {"macro"})
    BY <1>2 DEF OneMore
  <2>2. Count(fs, {"macro"}) <= q.mstack /\ q.mstack \in Int /\ Count(gs, {"macro"}) \in Nat
    BY <1>1, <1>3, StateIs, CountType DEF State
  <2> QED BY <2>1, <2>2
<1> QED BY <1>1, <1>3, <1>4, <1>5, <1>6, <1>7 DEF State, Became

-----------------------------------------------------------------------------
\* g is f except for what comes next: neither the lookaside buffer nor the loop
\* that was seen changes.
Same(f, g) == g.kind = f.kind /\ g.look = f.look /\ g.inloop = f.inloop

\* An invocation decides to return some value.
LEMMA LeavesOK ==
  ASSUME NEW n, NEW f, FrameOK(n, f), NEW result \in {"cont", "ign", "userret"}, NEW g,
         g = [f EXCEPT !.ph = "leave", !.result = result]
  PROVE  FrameOK(n, g) /\ Same(f, g) /\ g.ph = "leave"
<1>1. f \in FrameType
  BY DEF FrameOK
<1>2. g \in FrameType
  BY <1>1 DEF FrameType
<1>3. Same(f, g) /\ g.ph = "leave" /\ g.start = f.start /\ g.kind = f.kind /\ g.loop = f.loop /\ g.look = f.look
  BY <1>1 DEF FrameType, Same
<1> QED BY <1>2, <1>3 DEF FrameOK, LoopHere

\* An invocation arrives at the end of its buffer.
LEMMA EndsOK ==
  ASSUME NEW n, NEW f, FrameOK(n, f), NEW g, g = [f EXCEPT !.ph = "leave"]
  PROVE  FrameOK(n, g) /\ Same(f, g) /\ g.ph = "leave"
<1>1. f \in FrameType
  BY DEF FrameOK
<1>2. g \in FrameType
  BY <1>1 DEF FrameType
<1>3. Same(f, g) /\ g.ph = "leave" /\ g.start = f.start /\ g.kind = f.kind /\ g.loop = f.loop /\ g.look = f.look
  BY <1>1 DEF FrameType, Same
<1> QED BY <1>2, <1>3 DEF FrameOK, LoopHere

\* An invocation calls itself: a return code that appends the next line never does.
LEMMA CalledOK ==
  ASSUME NEW n, NEW f, FrameOK(n, f), NEW res \in Result, "append" \notin res.opt, NEW g,
         g = [f EXCEPT !.ph = "called", !.res = res]
  PROVE  FrameOK(n, g) /\ Same(f, g) /\ g.ph = "called"
<1>1. f \in FrameType
  BY DEF FrameOK
<1>2. g \in FrameType
  BY <1>1 DEF FrameType
<1>3. Same(f, g) /\ g.ph = "called" /\ g.res = res /\ g.start = f.start /\ g.kind = f.kind
      /\ g.loop = f.loop /\ g.look = f.look
  BY <1>1 DEF FrameType, Same
<1> QED BY <1>2, <1>3 DEF FrameOK, LoopHere

\* roff_parseln() has changed the line buffer.
LEMMA LineSetOK ==
  ASSUME NEW n, NEW f, FrameOK(n, f), f.ph = "parse", NEW ln \in WLine, NEW g, g = [f EXCEPT !.ln = ln]
  PROVE  FrameOK(n, g) /\ Same(f, g) /\ g.ph = "parse" /\ g.ln = ln /\ g.start = f.start
<1>1. f \in FrameType
  BY DEF FrameOK
<1>2. g \in FrameType
  BY <1>1 DEF FrameType
<1>3. Same(f, g) /\ g.ph = "parse" /\ g.ln = ln /\ g.start = f.start /\ g.kind = f.kind
      /\ g.loop = f.loop /\ g.look = f.look
  BY <1>1 DEF FrameType, Same
<1> QED BY <1>2, <1>3 DEF FrameOK, LoopHere

\* g is a new invocation.
Fresh(n, g, kind) == FrameOK(n, g) /\ g.kind = kind /\ ~g.inloop

\* The locals at the start of mparse_buf_r().
LEMMA FreshOK ==
  ASSUME NEW n, NEW start \in BOOLEAN, NEW kind \in {"file", "macro", "text", "sofail"},
         start <=> kind = "file", NEW blk \in Seq(WLine), NEW g, g = Frame(start, kind, blk)
  PROVE  Fresh(n, g, kind)
<1>1. <<>> \in Seq(WLine) /\ EmptyLine \in WLine /\ Free(EmptyLine) /\ IGN \in Result /\ Null \in Nat \X Nat
  BY Empty, Codes DEF Null
<1> DEFINE e == (start => nread >= Input.max)
<1>2. e \in BOOLEAN
  OBVIOUS
<1>3. g = [start |-> start, kind |-> kind, blk |-> blk, eof |-> e, look |-> <<>>, ln |-> EmptyLine,
           ph |-> "fetch", res |-> IGN, loop |-> Null, inloop |-> FALSE, result |-> "cont"]
  BY DEF Frame
<1> HIDE DEF e
<1>4. g \in FrameType
  BY <1>1, <1>2, <1>3 DEF FrameType
<1>5. g.kind = kind /\ ~g.inloop /\ g.ph = "fetch" /\ g.ln = EmptyLine /\ g.loop = Null
      /\ (g.start <=> g.kind = "file")
  BY <1>3
<1> QED BY <1>1, <1>4, <1>5 DEF Fresh, FrameOK, LoopHere

\* g is f after it has read a line.
Loaded(n, f, g) ==
  /\ FrameOK(n, g) /\ g.kind = f.kind /\ g.inloop = f.inloop /\ g.ph = "parse"
  /\ Len(g.look) = Len(f.look) + 1

\* A line is read.
LEMMA LoadOK ==
  ASSUME NEW n, NEW f, FrameOK(n, f), f.ph = "fetch", NEW ln \in WLine, NEW isLast \in BOOLEAN, NEW g,
         g = Load(f, ln, isLast)
  PROVE  Loaded(n, f, g)
<1> DEFINE joined == Join(f.ln, ln)
           l == IF isLast THEN [joined EXCEPT !.cont = FALSE] ELSE joined
           look == Append(f.look, joined)
<1>1. f \in FrameType /\ f.look \in Seq(WLine) /\ f.ln \in WLine /\ Free(f.ln) /\ Len(f.look) \in Nat
  <2>1. f \in FrameType /\ Free(f.ln)
    BY DEF FrameOK
  <2> QED BY <2>1, FieldsIs
<1>2. joined \in WLine
  BY <1>1, JoinLine
<1> HIDE DEF joined
<1>3. l \in WLine
  <2>1. [joined EXCEPT !.cont = FALSE] \in WLine
    <3>1. 0 \in Nat
      OBVIOUS
    <3> QED BY <1>2, <3>1, LineChanged
  <2> QED BY <1>2, <2>1
<1>4. look \in Seq(WLine) /\ Len(look) = Len(f.look) + 1
  <2>1. Plus(WLine, f.look, joined, look)
    BY <1>1, <1>2, Appended
  <2> QED BY <2>1 DEF Plus
<1>5. g = [f EXCEPT !.look = look, !.ln = l, !.ph = "parse"]
  BY DEF Load, joined
<1> HIDE DEF l, look
<1>6. g \in FrameType
  BY <1>1, <1>3, <1>4, <1>5 DEF FrameType
<1>7. /\ g.kind = f.kind /\ g.inloop = f.inloop /\ g.ph = "parse" /\ g.look = look /\ g.loop = f.loop
      /\ g.start = f.start
  BY <1>1, <1>5 DEF FrameType
<1>8. g.look # <<>>
  <2>1. Len(g.look) # 0
    BY <1>1, <1>4, <1>7
  <2> QED BY <1>4, <1>7, <2>1, HasLen
<1>9. LoopHere(n, g)
  <2>1. LoopHere(n, f)
    BY DEF FrameOK
  <2> QED BY <1>1, <1>4, <1>7, <2>1 DEF LoopHere
<1> QED BY <1>4, <1>6, <1>7, <1>8, <1>9 DEF FrameOK, Loaded

\* The next line of a loop is replayed, or a line is to be read.
LEMMA NextOK ==
  ASSUME NEW n, n \in Nat, NEW f, FrameOK(n, f), NEW res \in Result, "append" \in res.opt => Free(f.ln),
         NEW g, g = NextLine(f, res)
  PROVE  FrameOK(n, g) /\ Same(f, g) /\ g.ph \in {"fetch", "parse"}
<1> DEFINE prefix == IF "append" \in res.opt THEN f.ln ELSE EmptyLine
           adv == IF f.loop = Null \/ res.loop # "none" THEN f.loop
                  ELSE IF f.loop[2] = Len(f.look) THEN Null
                  ELSE <<f.loop[1], f.loop[2] + 1>>
           l == Join(prefix, f.look[adv[2]])
<1>1. f \in FrameType /\ f.look \in Seq(WLine) /\ f.ln \in WLine /\ Len(f.look) \in Nat /\ f.loop \in Nat \X Nat
      /\ IGN \in Result
  <2>1. f \in FrameType
    BY DEF FrameOK
  <2> QED BY <2>1, FieldsIs, Codes
<1>2. prefix \in WLine /\ Free(prefix)
  BY <1>1, Empty
<1>3. /\ adv \in Nat \X Nat
      /\ adv # Null => adv[1] = n /\ adv[2] \in 1..Len(f.look)
  <2>1. f.loop # Null => f.loop[1] = n /\ f.loop[2] \in 1..Len(f.look)
    BY DEF FrameOK, LoopHere
  <2>2. f.loop[1] \in Nat /\ f.loop[2] \in Nat
    BY <1>1
  <2>3. CASE f.loop = Null \/ res.loop # "none"
    BY <1>1, <2>1, <2>3
  <2>4. CASE ~(f.loop = Null \/ res.loop # "none") /\ f.loop[2] = Len(f.look)
    BY <2>4 DEF Null
  <2>5. CASE ~(f.loop = Null \/ res.loop # "none") /\ f.loop[2] # Len(f.look)
    <3>1. adv = <<f.loop[1], f.loop[2] + 1>>
      BY <2>5
    <3>2. adv[1] = f.loop[1] /\ adv[2] = f.loop[2] + 1 /\ adv \in Nat \X Nat
      BY <2>2, <3>1
    <3> HIDE DEF adv
    <3> QED BY <1>1, <2>1, <2>2, <2>5, <3>2
  <2> QED BY <2>3, <2>4, <2>5
<1>4. g = IF adv = Null
          THEN [f EXCEPT !.loop = Null, !.ln = prefix, !.ph = "fetch", !.res = IGN]
          ELSE [f EXCEPT !.loop = adv, !.res = IGN, !.ln = l, !.ph = "parse"]
  BY DEF NextLine
<1> HIDE DEF prefix, adv
<1>5. CASE adv = Null
  <2>0. g = [f EXCEPT !.loop = Null, !.ln = prefix, !.ph = "fetch", !.res = IGN] /\ Null \in Nat \X Nat
    BY <1>4, <1>5 DEF Null
  <2>1. g \in FrameType
    BY <1>1, <1>2, <2>0 DEF FrameType
  <2>2. /\ Same(f, g) /\ g.ph = "fetch" /\ g.start = f.start /\ g.kind = f.kind /\ g.loop = Null
        /\ g.ln = prefix
    BY <1>1, <2>0 DEF FrameType, Same
  <2> QED BY <1>2, <2>1, <2>2 DEF FrameOK, LoopHere
<1>6. CASE adv # Null
  <2>0. g = [f EXCEPT !.loop = adv, !.res = IGN, !.ln = l, !.ph = "parse"]
    BY <1>4, <1>6
  <2>1. adv[1] = n /\ adv[2] \in 1..Len(f.look)
    BY <1>3, <1>6
  <2>2. f.look[adv[2]] \in WLine
    BY <1>1, <2>1, SeqElem
  <2>3. l \in WLine
    BY <1>2, <2>2, JoinLine
  <2> HIDE DEF l
  <2>4. g \in FrameType
    BY <1>1, <1>3, <2>0, <2>3 DEF FrameType
  <2>5. /\ Same(f, g) /\ g.ph = "parse" /\ g.start = f.start /\ g.kind = f.kind /\ g.loop = adv
        /\ g.look = f.look
    BY <1>1, <2>0 DEF FrameType, Same
  <2>6. g.look # <<>>
    <3>1. Len(f.look) # 0
      BY <1>1, <2>1
    <3> QED BY <1>1, <2>5, <3>1, HasLen
  <2>7. LoopHere(n, g)
    BY <2>1, <2>5 DEF LoopHere
  <2> QED BY <2>4, <2>5, <2>6, <2>7 DEF FrameOK
<1> QED BY <1>5, <1>6

\* The frame and the pointer after the switch over the loop bits.
Switched(f, sw) ==
  /\ FrameOK(Depth, sw[1]) /\ sw[1].kind = f.kind /\ sw[1].ph = f.ph /\ sw[1].ln = f.ln
  /\ sw[1].start = f.start /\ LoopAt(frames, Depth, sw[1], sw[2])

\* The switch over ROFF_LOOPMASK: a pointer to a lookaside line that is set points into
\* the buffer of this invocation.
LEMMA SwitchOK ==
  ASSUME Depth \in Nat \ {0}, NEW f, FrameOK(Depth, f), f.ph = "parse", LoopAt(frames, Depth, f, curloop),
         NEW loop \in {"none", "while", "cont", "exit"}, NEW sw, sw = LoopSwitch(f, loop)
  PROVE  Switched(f, sw)
<1>1. f \in FrameType /\ f.look \in Seq(WLine) /\ Len(f.look) \in Nat /\ f.loop \in Nat \X Nat
      /\ Null \in Nat \X Nat
  <2>1. f \in FrameType
    BY DEF FrameOK
  <2> QED BY <2>1, FieldsIs DEF Null
<1>2. f.look # <<>> /\ Len(f.look) \in 1..Len(f.look)
  <2>1. f.look # <<>>
    BY DEF FrameOK
  <2> QED BY <1>1, <2>1, NonEmpty
\* Whatever the loop of the frame becomes, provided it is in this frame.
<1>3. ASSUME NEW loop2 \in Nat \X Nat, loop2 # Null => loop2[1] = Depth /\ loop2[2] \in 1..Len(f.look),
             NEW b \in BOOLEAN, NEW g, g = [f EXCEPT !.loop = loop2, !.inloop = b]
      PROVE  /\ FrameOK(Depth, g) /\ g.kind = f.kind /\ g.ph = f.ph /\ g.ln = f.ln
             /\ g.start = f.start /\ g.look = f.look /\ g.inloop = b
  <2>1. g \in FrameType
    BY <1>1, <1>3 DEF FrameType
  <2>2. /\ g.kind = f.kind /\ g.ph = f.ph /\ g.ln = f.ln /\ g.start = f.start /\ g.look = f.look
        /\ g.inloop = b /\ g.loop = loop2 /\ g.res = f.res
    BY <1>1, <1>3 DEF FrameType
  <2>3. LoopHere(Depth, g)
    BY <1>3, <2>2 DEF LoopHere
  <2> QED BY <2>1, <2>2, <2>3 DEF FrameOK
<1>8. ASSUME NEW loop2 \in Nat \X Nat, loop2 # Null => loop2[1] = Depth /\ loop2[2] \in 1..Len(f.look),
             NEW g, g = [f EXCEPT !.loop = loop2]
      PROVE  /\ FrameOK(Depth, g) /\ g.kind = f.kind /\ g.ph = f.ph /\ g.ln = f.ln
             /\ g.start = f.start /\ g.look = f.look /\ g.inloop = f.inloop
  <2>1. g \in FrameType
    BY <1>1, <1>8 DEF FrameType
  <2>2. /\ g.kind = f.kind /\ g.ph = f.ph /\ g.ln = f.ln /\ g.start = f.start /\ g.look = f.look
        /\ g.inloop = f.inloop /\ g.loop = loop2 /\ g.res = f.res
    BY <1>1, <1>8 DEF FrameType
  <2>3. LoopHere(Depth, g)
    BY <1>8, <2>2 DEF LoopHere
  <2> QED BY <2>1, <2>2, <2>3 DEF FrameOK
<1>4. Switched(f, <<f, curloop>>)
  BY DEF Switched
<1>5. CASE loop = "none"
  BY <1>4, <1>5 DEF LoopSwitch
<1>6. CASE loop = "while"
  <2>1. sw = LoopStarts(f)
    BY <1>6 DEF LoopSwitch
  <2>2. CASE curloop # Null /\ f.loop = curloop
    BY <1>4, <2>1, <2>2 DEF LoopStarts
  <2>3. CASE ~(curloop # Null /\ f.loop = curloop)
    <3> DEFINE g == [f EXCEPT !.loop = Null, !.inloop = TRUE]
               cl == <<Depth, Len(f.look)>>
    <3>1. sw = <<g, cl>>
      BY <2>1, <2>3 DEF LoopStarts
    <3>2. /\ FrameOK(Depth, g) /\ g.kind = f.kind /\ g.ph = f.ph /\ g.ln = f.ln
          /\ g.start = f.start /\ g.look = f.look /\ g.inloop = TRUE
      BY <1>1, <1>3
    <3> HIDE DEF g
    <3>3. LoopAt(frames, Depth, g, cl)
      <4>1. cl \in Nat \X Nat /\ cl[1] = Depth /\ cl[2] = Len(f.look)
        BY <1>1
      <4> HIDE DEF cl
      <4>2. \A i \in 1..(Depth - 1) : i <= cl[1]
        BY <4>1
      <4>3. Depth <= cl[1] /\ cl[1] \in 1..Depth
        BY <4>1
      <4> QED BY <1>2, <3>2, <4>1, <4>2, <4>3 DEF LoopAt
    <3> HIDE DEF cl
    <3> QED BY <3>1, <3>2, <3>3 DEF Switched
  <2> QED BY <2>2, <2>3
<1>7. CASE loop \in {"cont", "exit"}
  <2>1. sw = LoopEnds(f, loop = "cont")
    BY <1>7 DEF LoopSwitch
  <2>2. CASE curloop = Null
    BY <1>4, <2>1, <2>2 DEF LoopEnds
  <2>3. CASE curloop # Null /\ ~f.inloop
    <3> DEFINE g == [f EXCEPT !.loop = Null]
    <3>1. sw = <<g, Null>>
      BY <2>1, <2>3 DEF LoopEnds
    <3>3. /\ FrameOK(Depth, g) /\ g.kind = f.kind /\ g.ph = f.ph /\ g.ln = f.ln
          /\ g.start = f.start /\ g.look = f.look /\ g.inloop = f.inloop
      BY <1>1, <1>8
    <3> HIDE DEF g
    <3>4. LoopAt(frames, Depth, g, Null)
      BY <1>1 DEF LoopAt
    <3> QED BY <3>1, <3>3, <3>4 DEF Switched
  <2>4. CASE curloop # Null /\ f.inloop
    <3>1. curloop \in Nat \X Nat /\ curloop[1] = Depth /\ curloop[2] \in 1..Len(f.look)
      <4>1. curloop \in Nat \X Nat /\ curloop[1] \in 1..Depth /\ Depth <= curloop[1]
        BY <2>4 DEF LoopAt
      <4>2. curloop[1] = Depth
        BY <4>1
      <4> QED BY <2>4, <4>1, <4>2 DEF LoopAt
    <3>2. CASE loop = "cont"
      <4> DEFINE g == [f EXCEPT !.loop = curloop]
      <4>1. sw = <<g, curloop>>
        BY <2>1, <2>4, <3>2 DEF LoopEnds
      <4>3. /\ FrameOK(Depth, g) /\ g.kind = f.kind /\ g.ph = f.ph /\ g.ln = f.ln
            /\ g.start = f.start /\ g.look = f.look /\ g.inloop = f.inloop
        BY <1>8, <3>1
      <4> HIDE DEF g
      <4>4. LoopAt(frames, Depth, g, curloop)
        BY <4>3 DEF LoopAt
      <4> QED BY <4>1, <4>3, <4>4 DEF Switched
    <3>3. CASE loop # "cont"
      <4> DEFINE g == [f EXCEPT !.loop = Null, !.inloop = FALSE]
      <4>1. sw = <<g, Null>>
        BY <2>1, <2>4, <3>3 DEF LoopEnds
      <4>2. /\ FrameOK(Depth, g) /\ g.kind = f.kind /\ g.ph = f.ph /\ g.ln = f.ln
            /\ g.start = f.start
        BY <1>1, <1>3
      <4> HIDE DEF g
      <4>3. LoopAt(frames, Depth, g, Null)
        BY <1>1 DEF LoopAt
      <4> QED BY <4>1, <4>2, <4>3 DEF Switched
    <3> QED BY <3>2, <3>3
  <2> QED BY <2>2, <2>3, <2>4
<1> QED BY <1>5, <1>6, <1>7

-----------------------------------------------------------------------------
\* What is known about the innermost invocation.
LEMMA CurIs ==
  ASSUME MparseInv, status = "run"
  PROVE  /\ State(frames, curloop, r, nread, reparse_count)
         /\ frames \in Seq(FrameType) /\ Depth \in Nat \ {0} /\ Depth = Len(frames)
         /\ Depth \in 1..Len(frames) /\ Cur = frames[Depth] /\ FrameOK(Depth, Cur) /\ Cur \in FrameType
         /\ LoopAt(frames, Depth, Cur, curloop)
         /\ r \in RoffState /\ nread \in Nat /\ reparse_count \in Nat
         /\ SpanOK(Cur, r.last)
<1>1. /\ State(frames, curloop, r, nread, reparse_count) /\ StackOK(frames) /\ LoopOK(frames, curloop)
      /\ frames \in Seq(FrameType) /\ frames # <<>> /\ SpanOK(Cur, r.last)
      /\ r \in RoffState /\ nread \in Nat /\ reparse_count \in Nat
  BY DEF MparseInv, State, StackOK
<1>2. Depth \in Nat \ {0} /\ Depth = Len(frames) /\ Depth \in 1..Len(frames) /\ Cur = frames[Depth]
  BY <1>1, NonEmpty DEF Depth, Cur
<1>3. FrameOK(Depth, Cur) /\ Cur \in FrameType
  BY <1>1, <1>2, FrameElem
<1>4. LoopAt(frames, Depth, Cur, curloop)
  BY <1>1, <1>2, LoopCur
<1> QED BY <1>1, <1>2, <1>3, <1>4

\* It has read another line.
LEMMA LoopGrow ==
  ASSUME NEW n \in Nat \ {0}, NEW f \in FrameType, LoopAt(frames, n, f, curloop),
         NEW g, Len(g.look) = Len(f.look) + 1, g.inloop = f.inloop
  PROVE  LoopAt(frames, n, g, curloop)
<1>1. Len(f.look) \in Nat
  BY FieldsIs
<1> SUFFICES ASSUME curloop # Null, curloop[1] = n PROVE curloop[2] \in 1..Len(g.look)
  BY DEF LoopAt
<1>2. curloop[2] \in 1..Len(f.look)
  BY DEF LoopAt
<1> QED BY <1>1, <1>2

\* The end of the file was seen.
LEMMA EofOK ==
  ASSUME NEW n, NEW f, FrameOK(n, f), f.ph = "parse", NEW b \in BOOLEAN, NEW g, g = [f EXCEPT !.eof = b]
  PROVE  FrameOK(n, g) /\ Same(f, g) /\ g.ph = "parse"
<1>1. f \in FrameType
  BY DEF FrameOK
<1>2. g \in FrameType
  BY <1>1 DEF FrameType
<1>3. Same(f, g) /\ g.ph = "parse" /\ g.start = f.start /\ g.kind = f.kind /\ g.loop = f.loop /\ g.look = f.look
  BY <1>1 DEF FrameType, Same
<1> QED BY <1>2, <1>3 DEF FrameOK, LoopHere

\* A line was taken from the buffer.
LEMMA BlkOK ==
  ASSUME NEW n, NEW f, FrameOK(n, f), f.ph = "parse", NEW b \in Seq(WLine), NEW g, g = [f EXCEPT !.blk = b]
  PROVE  FrameOK(n, g) /\ Same(f, g) /\ g.ph = "parse"
<1>1. f \in FrameType
  BY DEF FrameOK
<1>2. g \in FrameType
  BY <1>1 DEF FrameType
<1>3. Same(f, g) /\ g.ph = "parse" /\ g.start = f.start /\ g.kind = f.kind /\ g.loop = f.loop /\ g.look = f.look
  BY <1>1 DEF FrameType, Same
<1> QED BY <1>2, <1>3 DEF FrameOK, LoopHere

\* Only a file is being read at first.
LEMMA OnlyFile ==
  ASSUME MparseInv, status = "run", ~(Cur.start /\ Cur.ph \in {"fetch", "leave"})
  PROVE  nread # 0
<1> SUFFICES ASSUME nread = 0 PROVE FALSE
  OBVIOUS
<1>1. StackOK(frames) /\ Unread(frames, nread) /\ Depth \in 1..Len(frames) /\ Cur = frames[Depth]
      /\ FrameOK(Depth, Cur) /\ frames # <<>>
  <2>1. State(frames, curloop, r, nread, reparse_count) /\ frames # <<>>
    BY DEF MparseInv
  <2>2. StackOK(frames) /\ Unread(frames, nread)
    BY <2>1 DEF State
  <2> QED BY <2>1, <2>2, CurIs
<1>2. Cur.ph \in {"fetch", "leave"} /\ Len(frames) <= 1
  BY <1>1 DEF Unread
<1>3. Depth = 1
  BY <1>1, <1>2 DEF Depth
<1>4. Cur.kind = "file"
  BY <1>1, <1>3 DEF StackOK
<1>5. Cur.start
  BY <1>1, <1>4 DEF FrameOK
<1> QED BY <1>2, <1>5

\* The innermost invocation g goes on.
LEMMA StepOn ==
  ASSUME MparseInv, status = "run", menu' = menu, NEW g, FrameOK(Depth, g), g.kind = Cur.kind,
         frames' = [frames EXCEPT ![Depth] = g], LoopAt(frames, Depth, g, curloop'),
         r' \in RoffState, r'.mstack >= r.mstack, nread' \in Nat, reparse_count' \in Nat,
         Paid(nread, reparse_count, nread', reparse_count'),
         nread' = 0 => g.ph \in {"fetch", "leave"}, SpanOK(g, r'.last)
  PROVE  MparseInv'
<1>1. Became(frames', curloop', r', nread', reparse_count', g)
  <2>1. /\ State(frames, curloop, r, nread, reparse_count)
        /\ Depth \in Nat \ {0} /\ Depth = Len(frames) /\ Cur = frames[Depth]
    BY CurIs
  <2> QED BY <2>1, GoesOn
<1> QED BY <1>1 DEF MparseInv, Cur, Depth, Became

\* Reading a line of a file keeps the invariant: it pays for ReparseLimit expansions.
LEMMA FetchFileOK ==
  ASSUME MparseInv, FetchFile, menu' = menu
  PROVE  MparseInv'
<1>0. status = "run" /\ Cur.ph = "fetch" /\ nread' = nread + 1 /\ reparse_count' = 0
      /\ r' = r /\ curloop' = curloop
  BY DEF FetchFile, InPhase
<1>1. /\ State(frames, curloop, r, nread, reparse_count) /\ Depth \in Nat \ {0} /\ Cur = frames[Depth]
      /\ FrameOK(Depth, Cur) /\ Cur \in FrameType /\ LoopAt(frames, Depth, Cur, curloop)
      /\ r \in RoffState /\ nread \in Nat /\ SpanOK(Cur, r.last)
  BY <1>0, CurIs
<1>2. PICK ln \in IF nread < Len(Input.prologue) THEN {Input.prologue[nread + 1]} ELSE Input.lines,
           isLast \in IF nread + 1 >= Input.max THEN {TRUE}
                      ELSE IF nread < Len(Input.prologue) THEN {FALSE} ELSE BOOLEAN :
        frames' = [frames EXCEPT ![Depth] = [Load(@, ln, isLast) EXCEPT !.eof = isLast]]
  BY DEF FetchFile
<1>3. ln \in WLine
  <2>1. Input.lines \subseteq WLine /\ Input.prologue \in Seq(WLine)
    BY MparseAssumption DEF MparseInv, Input, WLine
  <2>2. CASE nread < Len(Input.prologue)
    <3>1. nread + 1 \in 1..Len(Input.prologue)
      BY <1>1, <2>1, <2>2
    <3> QED BY <1>2, <2>1, <2>2, <3>1, SeqElem
  <2>3. CASE ~(nread < Len(Input.prologue))
    BY <1>2, <2>1, <2>3
  <2> QED BY <2>2, <2>3
<1>4. isLast \in BOOLEAN
  BY <1>2
<1> DEFINE f == Load(Cur, ln, isLast)
           g == [f EXCEPT !.eof = isLast]
<1>5. Loaded(Depth, Cur, f)
  BY <1>0, <1>1, <1>3, <1>4, LoadOK
<1>6. frames' = [frames EXCEPT ![Depth] = g]
  BY <1>1, <1>2
<1> HIDE DEF f
<1>7. FrameOK(Depth, g) /\ Same(f, g) /\ g.ph = "parse"
  BY <1>4, <1>5, EofOK DEF Loaded
<1> HIDE DEF g
<1>8. g.kind = Cur.kind /\ Len(g.look) = Len(Cur.look) + 1 /\ g.inloop = Cur.inloop
  BY <1>5, <1>7 DEF Same, Loaded
<1>9. LoopAt(frames, Depth, g, curloop')
  BY <1>0, <1>1, <1>8, LoopGrow
<1>10. SpanOK(g, r'.last)
  BY <1>0, <1>1 DEF SpanOK
<1>11. r' \in RoffState /\ r'.mstack >= r.mstack
  <2>1. r.mstack \in Int
    BY <1>1, StateIs
  <2> QED BY <1>0, <1>1, <2>1
<1>12. nread' \in Nat /\ reparse_count' \in Nat /\ nread' # 0
       /\ Paid(nread, reparse_count, nread', reparse_count')
  BY <1>0, <1>1 DEF Paid
<1> QED BY <1>0, <1>6, <1>7, <1>8, <1>9, <1>10, <1>11, <1>12, StepOn

\* Reading a line of a macro or of a replacement text keeps the invariant.
LEMMA FetchTextOK ==
  ASSUME MparseInv, FetchText, menu' = menu
  PROVE  MparseInv'
<1>0. status = "run" /\ Cur.ph = "fetch" /\ nread' = nread /\ reparse_count' = reparse_count
      /\ r' = r /\ curloop' = curloop /\ ~Cur.start
  BY DEF FetchText, InPhase
<1>1. /\ State(frames, curloop, r, nread, reparse_count) /\ Depth \in Nat \ {0} /\ Cur = frames[Depth]
      /\ FrameOK(Depth, Cur) /\ Cur \in FrameType /\ LoopAt(frames, Depth, Cur, curloop)
      /\ r \in RoffState /\ nread \in Nat /\ reparse_count \in Nat /\ SpanOK(Cur, r.last)
  BY <1>0, CurIs
<1>2. Cur.blk \in Seq(WLine)
  BY <1>1, FieldsIs
<1> DEFINE g == IF Cur.blk = <<>> THEN Load(Cur, EmptyLine, TRUE)
                ELSE [Load(Cur, Head(Cur.blk), Len(Cur.blk) = 1) EXCEPT !.blk = Tail(Cur.blk)]
<1>3. frames' = [frames EXCEPT ![Depth] = g]
  BY DEF FetchText
<1>4. Loaded(Depth, Cur, g)
  <2>1. CASE Cur.blk = <<>>
    <3> DEFINE f == Load(Cur, EmptyLine, TRUE)
    <3>0. EmptyLine \in WLine /\ TRUE \in BOOLEAN
      BY Empty
    <3>1. Loaded(Depth, Cur, f)
      BY <1>0, <1>1, <3>0, LoadOK, Zenon
    <3>2. g = f
      BY <2>1
    <3> HIDE DEF f, g
    <3> QED BY <3>1, <3>2
  <2>2. CASE Cur.blk # <<>>
    <3> DEFINE b == Tail(Cur.blk)
               ln == Head(Cur.blk)
               isLast == (Len(Cur.blk) = 1)
               f == Load(Cur, ln, isLast)
    <3>0. ln \in WLine /\ b \in Seq(WLine)
      BY <1>2, <2>2
    <3>1. isLast \in BOOLEAN
      OBVIOUS
    <3>2. g = [f EXCEPT !.blk = b]
      BY <2>2
    <3> HIDE DEF isLast, ln, g, b
    <3>3. Loaded(Depth, Cur, f)
      BY <1>0, <1>1, <3>0, <3>1, LoadOK
    <3> HIDE DEF f
    <3>4. FrameOK(Depth, g) /\ Same(f, g) /\ g.ph = "parse"
      <4>1. FrameOK(Depth, f) /\ f.ph = "parse"
        BY <3>3 DEF Loaded
      <4> QED BY <3>0, <3>2, <4>1, BlkOK
    <3> QED BY <3>3, <3>4 DEF Same, Loaded
  <2> QED BY <2>1, <2>2
<1> HIDE DEF g
<1>9. LoopAt(frames, Depth, g, curloop')
  BY <1>0, <1>1, <1>4, LoopGrow DEF Loaded
<1>10. SpanOK(g, r'.last)
  BY <1>0, <1>1 DEF SpanOK
<1>11. r' \in RoffState /\ r'.mstack >= r.mstack
  <2>1. r.mstack \in Int
    BY <1>1, StateIs
  <2> QED BY <1>0, <1>1, <2>1
<1>12. nread' \in Nat /\ reparse_count' \in Nat /\ nread' # 0
       /\ Paid(nread, reparse_count, nread', reparse_count')
  <2>1. nread # 0
    BY <1>0, OnlyFile
  <2> QED BY <1>0, <1>1, <2>1 DEF Paid
<1> QED BY <1>0, <1>3, <1>4, <1>9, <1>10, <1>11, <1>12, StepOn DEF Loaded

\* The end of a buffer keeps the invariant.
LEMMA EndOfInputOK ==
  ASSUME MparseInv, EndOfInput, menu' = menu
  PROVE  MparseInv'
<1>0. status = "run" /\ Cur.ph = "fetch" /\ nread' = nread /\ reparse_count' = reparse_count
      /\ r' = r /\ curloop' = curloop
  BY DEF EndOfInput, InPhase
<1>1. /\ Depth \in Nat \ {0} /\ Cur = frames[Depth]
      /\ FrameOK(Depth, Cur) /\ Cur \in FrameType /\ LoopAt(frames, Depth, Cur, curloop)
      /\ r \in RoffState /\ nread \in Nat /\ reparse_count \in Nat /\ SpanOK(Cur, r.last)
  BY <1>0, CurIs
<1> DEFINE g == [Cur EXCEPT !.ph = "leave"]
<1>3. frames' = [frames EXCEPT ![Depth] = g]
  BY <1>1 DEF EndOfInput
<1>4. FrameOK(Depth, g) /\ Same(Cur, g) /\ g.ph = "leave"
  BY <1>1, EndsOK
<1> HIDE DEF g
<1>9. LoopAt(frames, Depth, g, curloop')
  BY <1>0, <1>1, <1>4 DEF LoopAt, Same
<1>10. SpanOK(g, r'.last)
  BY <1>0, <1>1 DEF SpanOK
<1>11. r' \in RoffState /\ r'.mstack >= r.mstack
  <2>1. r.mstack \in Int
    BY <1>1, StateIs
  <2> QED BY <1>0, <1>1, <2>1
<1>12. nread' \in Nat /\ reparse_count' \in Nat /\ Paid(nread, reparse_count, nread', reparse_count')
  BY <1>0, <1>1 DEF Paid
<1>13. g.kind = Cur.kind /\ g.ph \in {"fetch", "leave"}
  BY <1>4 DEF Same
<1> QED BY <1>0, <1>3, <1>4, <1>9, <1>10, <1>11, <1>12, <1>13, StepOn

\* What roff_parseln() returns.
LEMMA LineParsed ==
  ASSUME MparseInv, InPhase("parse"), NEW c \in {0, 1}, NEW out, out = roff_parseln(r, Cur.ln, c)
  PROVE  Sound(r, out)
<1>1. r \in RoffState /\ Cur \in FrameType /\ SpanOK(Cur, r.last)
  BY CurIs DEF InPhase
<1>2. Cur.ln \in WLine
  BY <1>1, FieldsIs
<1>3. Spans(r.last) \/ Pending(r.last, Cur.ln)
  BY <1>1 DEF SpanOK
<1> QED BY <1>1, <1>2, <1>3, roff_parselnSound

\* A failed assertion leaves everything as it was.
LEMMA AbortOK ==
  ASSUME MparseInv, Abort, menu' = menu
  PROVE  MparseInv'
<1>1. PICK c \in {0, 1} : r' = roff_parseln(r, Cur.ln, c).r
  BY DEF Abort
<1>2. InPhase("parse") /\ status' = "aborted" /\ frames' = frames /\ curloop' = curloop
      /\ reparse_count' = reparse_count /\ nread' = nread
  BY DEF Abort
<1> DEFINE out == roff_parseln(r, Cur.ln, c)
<1>3. Sound(r, out)
  BY <1>2, LineParsed
<1> HIDE DEF out
<1>4. r' \in RoffState /\ r'.mstack >= r.mstack
  BY <1>1, <1>3 DEF out, Sound, Outcome
<1>5. State(frames, curloop, r, nread, reparse_count) /\ frames \in Seq(FrameType) /\ r \in RoffState
  BY DEF MparseInv, State, StackOK
<1>6. Count(frames, {"macro"}) <= r'.mstack
  <2>1. r.mstack \in Int /\ r'.mstack \in Int /\ Count(frames, {"macro"}) \in Nat
    BY <1>4, <1>5, StateIs, CountType
  <2>2. Count(frames, {"macro"}) <= r.mstack
    BY <1>5 DEF State
  <2> QED BY <1>4, <2>1, <2>2
<1>7. State(frames', curloop', r', nread', reparse_count')
  BY <1>2, <1>4, <1>5, <1>6 DEF State
<1> QED BY <1>2, <1>7 DEF MparseInv

\* The caller goes on after the call.
LEMMA ResumeOK ==
  ASSUME NEW n, n \in Nat, NEW f, FrameOK(n, f), f.ph = "called", NEW child \in FrameType,
         NEW g, g = Resume(f, child)
  PROVE  FrameOK(n, g) /\ Same(f, g)
<1> DEFINE result == IF child.kind = "macro" /\ child.result = "userret" THEN "cont" ELSE child.result
           h == [f EXCEPT !.result = result]
           a == NextLine(f, f.res)
           b == [f EXCEPT !.ph = "leave", !.result = result]
           d == NextLine(h, f.res)
<1>1. f \in FrameType /\ f.res \in Result /\ "append" \notin f.res.opt
  <2>1. f \in FrameType /\ "append" \notin f.res.opt
    BY DEF FrameOK
  <2> QED BY <2>1, FieldsIs
<1>2. result \in {"cont", "ign", "userret"}
  BY FieldsIs
<1>3. g = a \/ g = b \/ g = d
  BY DEF Resume
<1> HIDE DEF result
<1>4. FrameOK(n, a) /\ Same(f, a)
  BY <1>1, NextOK
<1>5. FrameOK(n, b) /\ Same(f, b)
  BY <1>2, LeavesOK
<1>6. FrameOK(n, h) /\ Same(f, h)
  <2>1. h \in FrameType
    BY <1>1, <1>2 DEF FrameType
  <2>2. /\ Same(f, h) /\ h.ph = "called" /\ h.start = f.start /\ h.kind = f.kind /\ h.loop = f.loop
        /\ h.look = f.look /\ h.res = f.res
    BY <1>1 DEF FrameType, Same
  <2> HIDE DEF h
  <2> QED BY <1>1, <2>1, <2>2 DEF FrameOK, LoopHere
<1> HIDE DEF h
<1>7. FrameOK(n, d) /\ Same(h, d)
  BY <1>1, <1>6, NextOK
<1> HIDE DEF a, b, d
<1>8. Same(f, d)
  BY <1>6, <1>7 DEF Same
<1> QED BY <1>3, <1>4, <1>5, <1>7, <1>8

\* The end of mparse_buf_r() keeps the invariant: curp->loop is forgotten before the
\* lookaside buffer is freed, and a macro context is left for every macro.
LEMMA LeaveOK ==
  ASSUME MparseInv, Leave, menu' = menu
  PROVE  MparseInv'
<1>0. status = "run" /\ Cur.ph = "leave" /\ nread' = nread /\ reparse_count' = reparse_count
      /\ curloop' = (IF Cur.inloop THEN Null ELSE curloop)
      /\ r' = (IF Cur.kind \in {"macro"} THEN [r EXCEPT !.mstack = @ - 1] ELSE r)
  BY DEF Leave, LeaveWith, InPhase
<1>1. /\ State(frames, curloop, r, nread, reparse_count) /\ Depth \in Nat \ {0} /\ Depth = Len(frames)
      /\ Cur = frames[Depth] /\ frames \in Seq(FrameType)
      /\ FrameOK(Depth, Cur) /\ Cur \in FrameType /\ LoopAt(frames, Depth, Cur, curloop)
      /\ r \in RoffState /\ nread \in Nat /\ reparse_count \in Nat /\ SpanOK(Cur, r.last)
  BY <1>0, CurIs
<1>2. StackOK(frames) /\ Count(frames, {"macro"}) <= r.mstack
  BY <1>1 DEF State
<1>3. Null \in Nat \X Nat /\ curloop \in Nat \X Nat
  BY <1>1 DEF Null, LoopAt
<1>4. r' \in RoffState /\ r'.last = r.last
      /\ r'.mstack = IF Cur.kind = "macro" THEN r.mstack - 1 ELSE r.mstack
  <2>1. Cur.kind \in {"macro"} <=> Cur.kind = "macro"
    OBVIOUS
  <2>2. ASSUME NEW q, q = [r EXCEPT !.mstack = @ - 1]
        PROVE  q \in RoffState /\ q.last = r.last /\ q.mstack = r.mstack - 1
    <3>1. r.mstack \in Int /\ r.mstack - 1 \in Int
      BY <1>1, StateIs
    <3> QED BY <1>1, <2>2, <3>1 DEF RoffState
  <2>3. CASE Cur.kind = "macro"
    <3>1. r' = [r EXCEPT !.mstack = @ - 1]
      BY <1>0, <2>3
    <3> QED BY <2>2, <2>3, <3>1
  <2>4. CASE Cur.kind # "macro"
    <3>1. r' = r
      BY <1>0, <2>4
    <3> QED BY <1>1, <2>4, <3>1
  <2> QED BY <2>3, <2>4
<1>5. Spans(r'.last)
  BY <1>0, <1>1, <1>4 DEF SpanOK
<1>6. CASE Depth = 1
  <2>1. frames' = <<>> /\ status' = "done"
    BY <1>6 DEF Leave, LeaveWith
  <2>2. Cur.kind = "file"
    <3>1. frames # <<>>
      BY <1>1, HasLen
    <3> QED BY <1>1, <1>2, <1>6, <3>1 DEF StackOK
  <2>3. curloop' = Null
    <3>1. CASE curloop = Null
      BY <1>0, <3>1
    <3>2. CASE curloop # Null
      <4>1. curloop[1] = 1
        BY <1>1, <1>6, <3>2 DEF LoopAt
      <4>2. Cur.inloop
        BY <1>1, <1>6, <3>2, <4>1 DEF LoopAt
      <4> QED BY <1>0, <4>2
    <3> QED BY <3>1, <3>2
  <2> DEFINE gs == <<>>
  <2>4. gs \in Seq(FrameType) /\ Len(gs) = 0 /\ 1..0 = {}
    OBVIOUS
  <2>5. \A kinds : Count(gs, kinds) = 0
    <3> TAKE kinds
    <3>1. {i \in 1..Len(gs) : gs[i].kind \in kinds} = {}
      BY <2>4
    <3> QED BY <3>1, FS_EmptySet DEF Count
  <2>6. StackOK(gs) /\ LoopOK(gs, Null) /\ Unread(gs, nread)
    BY <1>3, <2>4 DEF StackOK, LoopOK, Unread
  <2> HIDE DEF gs
  <2>7. Budget(gs, nread, reparse_count)
    <3>1. \A kinds : Count(gs, kinds) <= Count(frames, kinds)
      <4> TAKE kinds
      <4>1. Count(frames, kinds) \in Nat
        BY <1>1, CountType
      <4> QED BY <2>5, <4>1
    <3>2. Budget(frames, nread, reparse_count) /\ Paid(nread, reparse_count, nread, reparse_count)
      BY <1>1 DEF State, Paid
    <3> QED BY <1>1, <2>4, <3>1, <3>2, BudgetKept
  <2>8. Count(gs, {"macro"}) <= r'.mstack
    <3>1. Count(frames, {"macro"}) \in Nat /\ r.mstack \in Int /\ r'.mstack = r.mstack
      BY <1>1, <1>4, <2>2, CountType, StateIs
    <3> QED BY <1>2, <2>5, <3>1
  <2>9. State(gs, Null, r', nread, reparse_count)
    BY <1>1, <1>4, <2>6, <2>7, <2>8 DEF State
  <2>10. frames' = gs
    BY <2>1 DEF gs
  <2>11. State(frames', curloop', r', nread', reparse_count')
    BY <1>0, <2>3, <2>9, <2>10
  <2> QED BY <2>1, <2>11 DEF MparseInv
<1>7. CASE Depth # 1
  <2> DEFINE n == Depth - 1
             f == frames[n]
             g == Resume(f, Cur)
             hs == SubSeq(frames, 1, n)
  <2>1. n \in Nat \ {0} /\ n + 1 = Len(frames) /\ n \in 1..Len(frames) /\ n < Len(frames) /\ n + 1 = Depth
        /\ n \in 0..Len(frames)
    BY <1>1, <1>7
  <2>2. FrameOK(n, f) /\ f.ph = "called"
    BY <1>2, <2>1 DEF StackOK
  <2>3. frames' = [hs EXCEPT ![n] = g] /\ status' = status
    <3>1. frames' = [hs EXCEPT ![n] = Resume(hs[n], Cur)] /\ status' = status
      BY <1>7 DEF Leave, LeaveWith
    <3>2. Prefix(FrameType, frames, n, hs)
      BY <1>1, <2>1, Cut
    <3>3. hs[n] = f
      BY <2>1, <3>2 DEF Prefix
    <3> QED BY <3>1, <3>3
  <2> HIDE DEF n
  <2>4. FrameOK(n, g) /\ Same(f, g)
    BY <1>1, <2>1, <2>2, ResumeOK
  <2> HIDE DEF g, hs
  <2>5. LoopAt(frames, n, g, curloop')
    <3>1. CASE Cur.inloop \/ curloop = Null
      BY <1>0, <1>3, <3>1 DEF LoopAt
    <3>2. CASE ~Cur.inloop /\ curloop # Null
      <4>1. curloop' = curloop
        BY <1>0, <3>2
      <4>2. curloop[1] \in 1..Depth /\ curloop[1] # Depth
        BY <1>1, <3>2 DEF LoopAt
      <4>3. curloop[1] \in 1..n
        BY <2>1, <4>2
      <4>4. curloop[2] \in 1..Len(frames[curloop[1]].look) /\ frames[curloop[1]].inloop
        BY <1>1, <3>2, <4>2 DEF LoopAt
      <4>5. \A i \in 1..n : frames[i].inloop => i <= curloop[1]
        <5>1. n = Depth - 1
          BY DEF n
        <5> QED BY <1>1, <3>2, <5>1 DEF LoopAt
      <4>6. g.look = frames[n].look /\ g.inloop = frames[n].inloop /\ n \in 1..n
        BY <2>1, <2>4 DEF Same
      <4>7. \A i \in 1..(n - 1) : i \in 1..n
        BY <2>1
      <4> HIDE DEF f
      <4> QED BY <1>3, <4>1, <4>3, <4>4, <4>5, <4>6, <4>7 DEF LoopAt
    <3> QED BY <3>1, <3>2
  <2>6. Became(frames', curloop', r', nread, reparse_count, g)
    <3>1. frames[n + 1].kind = Cur.kind /\ g.kind = frames[n].kind
      BY <1>1, <2>1, <2>4 DEF Same
    <3>2. hs = SubSeq(frames, 1, n)
      BY DEF hs
    <3>3. r'.mstack = IF frames[n + 1].kind = "macro" THEN r.mstack - 1 ELSE r.mstack
      BY <1>4, <3>1
    <3> HIDE DEF f
    <3> QED BY <1>1, <1>4, <2>1, <2>3, <2>4, <2>5, <3>1, <3>2, <3>3, Returns
  <2>7. SpanOK(g, r'.last)
    BY <1>5 DEF SpanOK
  <2> QED BY <1>0, <2>6, <2>7 DEF MparseInv, Became, Cur, Depth
<1> QED BY <1>6, <1>7

-----------------------------------------------------------------------------
\* After the switch over the loop bits, the innermost invocation is h.
Ready(h) ==
  /\ status = "run" /\ nread # 0 /\ FrameOK(Depth, h) /\ h.kind = Cur.kind
  /\ LoopAt(frames, Depth, h, curloop')
  /\ menu' = menu /\ nread' = nread /\ status' = status
  /\ r' \in RoffState /\ r'.mstack >= r.mstack
  /\ reparse_count' \in Nat /\ reparse_count' >= reparse_count

\* What comes next in an invocation does not matter for curp->loop.
LEMMA LoopSame ==
  ASSUME NEW fs, NEW n, NEW h, NEW g, Same(h, g), NEW cl, LoopAt(fs, n, h, cl)
  PROVE  LoopAt(fs, n, g, cl)
BY DEF LoopAt, Same

\* After the return code was processed, the innermost invocation goes on.
LEMMA Replaces ==
  ASSUME MparseInv, NEW h, Ready(h), NEW g, FrameOK(Depth, g), Same(h, g), frames' = Replace(g),
         SpanOK(g, r'.last)
  PROVE  MparseInv'
<1>1. /\ status = "run" /\ nread # 0 /\ h.kind = Cur.kind /\ LoopAt(frames, Depth, h, curloop')
      /\ menu' = menu /\ nread' = nread /\ r' \in RoffState /\ r'.mstack >= r.mstack
      /\ reparse_count' \in Nat /\ reparse_count' >= reparse_count
  BY DEF Ready
<1>2. LoopAt(frames, Depth, g, curloop')
  BY <1>1, LoopSame
<1>3. nread' \in Nat /\ nread' # 0 /\ Paid(nread, reparse_count, nread', reparse_count')
  <2>1. nread \in Nat /\ reparse_count \in Nat
    BY <1>1, CurIs
  <2> QED BY <1>1, <2>1 DEF Paid
<1>4. frames' = [frames EXCEPT ![Depth] = g] /\ g.kind = Cur.kind
  BY <1>1 DEF Replace, Same
<1> QED BY <1>1, <1>2, <1>3, <1>4, StepOn

\* After the return code was processed, a new invocation starts.
LEMMA CallsIn ==
  ASSUME MparseInv, NEW h, Ready(h), NEW res \in Result, "append" \notin res.opt,
         NEW child, FrameOK(Depth + 1, child), ~child.inloop, frames' = Call(h, res, child),
         Spans(r'.last), Granted(frames, r, reparse_count, r', reparse_count', child.kind)
  PROVE  MparseInv'
<1>1. /\ status = "run" /\ nread # 0 /\ FrameOK(Depth, h) /\ h.kind = Cur.kind
      /\ LoopAt(frames, Depth, h, curloop')
      /\ menu' = menu /\ nread' = nread /\ r' \in RoffState /\ r'.mstack >= r.mstack
      /\ reparse_count' \in Nat
  BY DEF Ready
<1> DEFINE g == [h EXCEPT !.ph = "called", !.res = res]
           hs == [frames EXCEPT ![Depth] = g]
<1>2. FrameOK(Depth, g) /\ Same(h, g) /\ g.ph = "called"
  BY <1>1, CalledOK
<1>3. frames' = Append(hs, child)
  BY DEF Call
<1> HIDE DEF g
<1>4. LoopAt(frames, Depth, g, curloop') /\ g.kind = Cur.kind
  BY <1>1, <1>2, LoopSame DEF Same
<1>5. /\ State(frames, curloop, r, nread, reparse_count)
      /\ Depth \in Nat \ {0} /\ Depth = Len(frames) /\ Cur = frames[Depth]
  BY <1>1, CurIs
<1>6. hs = [frames EXCEPT ![Depth] = g]
  OBVIOUS
<1> HIDE DEF hs
<1>7. Became(frames', curloop', r', nread, reparse_count', child)
  BY <1>1, <1>2, <1>3, <1>4, <1>5, <1>6, Calls
<1>8. SpanOK(child, r'.last)
  BY DEF SpanOK
<1> QED BY <1>1, <1>7, <1>8 DEF MparseInv, Became, Cur, Depth

\* Files and invocations that start one are the same.
LEMMA FilesIs ==
  ASSUME MparseInv
  PROVE  Cardinality({i \in DOMAIN frames : frames[i].start}) = Count(frames, {"file"})
<1>1. StackOK(frames) /\ frames \in Seq(FrameType)
  BY DEF MparseInv, State, StackOK
<1>2. DOMAIN frames = 1..Len(frames)
  BY <1>1
<1>3. \A i \in 1..Len(frames) : frames[i].start <=> frames[i].kind \in {"file"}
  <2> TAKE i \in 1..Len(frames)
  <2>1. FrameOK(i, frames[i])
    BY <1>1, FrameElem
  <2> QED BY <2>1 DEF FrameOK
<1>4. {i \in DOMAIN frames : frames[i].start} = {i \in 1..Len(frames) : frames[i].kind \in {"file"}}
  BY <1>2, <1>3
<1> QED BY <1>4 DEF Count

\* The text that replaces an .so request that fails.
LEMMA SeeLines == SeeTheFile \in Seq(WLine)
<1> DEFINE a == Plain("nop", NoName, NoName)
<1>1. a \in WLine
  <2>1. "nop" \in Kind /\ NoName \in Macros \cup {NoName} /\ "nop" \notin {"call", "it", "ds", "de", "am"}
    BY DEF Kind, CtlKind
  <2> QED BY <2>1, PlainLine
<1>2. TextLine \in WLine
  BY Empty
<1> HIDE DEF a
<1>3. <<a, TextLine, a>> \in Seq(WLine)
  BY <1>1, <1>2
<1> QED BY <1>3 DEF SeeTheFile, a

\* Including a file, or not, keeps the invariant: mparse_readfd() counts nested files.
LEMMA IncludeOK ==
  ASSUME MparseInv, NEW h, Ready(h), NEW res \in Result, "append" \notin res.opt, IncludeFile(h, res),
         reparse_count' = reparse_count, Spans(r'.last)
  PROVE  MparseInv'
<1>0. FrameOK(Depth, h) /\ Depth \in Nat
  <2>1. FrameOK(Depth, h) /\ status = "run"
    BY DEF Ready
  <2> QED BY <2>1, CurIs
<1> DEFINE files == Cardinality({i \in DOMAIN frames : frames[i].start})
           a == Frame(TRUE, "file", <<>>)
           b == Frame(FALSE, "sofail", SeeTheFile)
<1>1. \/ frames' = Replace([h EXCEPT !.ph = "leave"])
      \/ frames' = Replace(NextLine(h, res))
      \/ ~(files > SoLimit) /\ frames' = Call(h, res, a)
      \/ frames' = Call(h, res, b)
  BY DEF IncludeFile
<1>2. CASE frames' = Replace([h EXCEPT !.ph = "leave"])
  <2> DEFINE g == [h EXCEPT !.ph = "leave"]
  <2>1. FrameOK(Depth, g) /\ Same(h, g)
    BY <1>0, EndsOK
  <2>2. SpanOK(g, r'.last) /\ frames' = Replace(g)
    BY <1>2 DEF SpanOK
  <2> HIDE DEF g
  <2> QED BY <2>1, <2>2, Replaces
<1>3. CASE frames' = Replace(NextLine(h, res))
  <2> DEFINE g == NextLine(h, res)
  <2>1. FrameOK(Depth, g) /\ Same(h, g)
    BY <1>0, NextOK
  <2>2. SpanOK(g, r'.last) /\ frames' = Replace(g)
    BY <1>3 DEF SpanOK
  <2> HIDE DEF g
  <2> QED BY <2>1, <2>2, Replaces
<1>4. CASE ~(files > SoLimit) /\ frames' = Call(h, res, a)
  <2>1. Fresh(Depth + 1, a, "file")
    <3>1. <<>> \in Seq(WLine) /\ TRUE \in BOOLEAN
      OBVIOUS
    <3>2. "file" \in {"file", "macro", "text", "sofail"} /\ (TRUE <=> "file" = "file")
      OBVIOUS
    <3> QED BY <3>1, <3>2, FreshOK, Zenon
  <2>2. Count(frames, {"file"}) <= SoLimit
    <3>1. files = Count(frames, {"file"})
      BY FilesIs
    <3>2. Count(frames, {"file"}) \in Nat
      BY CountType DEF MparseInv, State, StackOK
    <3>3. SoLimit \in Nat
      BY MparseAssumption
    <3> HIDE DEF files
    <3> QED BY <1>4, <3>1, <3>2, <3>3
  <2>3. Granted(frames, r, reparse_count, r', reparse_count', a.kind)
    BY <2>1, <2>2 DEF Granted, Fresh
  <2> HIDE DEF a
  <2> QED BY <1>4, <2>1, <2>3, CallsIn DEF Fresh
<1>5. CASE frames' = Call(h, res, b)
  <2>1. Fresh(Depth + 1, b, "sofail")
    <3>1. SeeTheFile \in Seq(WLine) /\ FALSE \in BOOLEAN
      BY SeeLines
    <3>2. "sofail" \in {"file", "macro", "text", "sofail"} /\ (FALSE <=> "sofail" = "file")
      OBVIOUS
    <3> QED BY <3>1, <3>2, FreshOK, Zenon
  <2>3. Granted(frames, r, reparse_count, r', reparse_count', b.kind)
    BY <2>1 DEF Granted, Fresh
  <2> HIDE DEF b
  <2> QED BY <1>5, <2>1, <2>3, CallsIn DEF Fresh
<1> QED BY <1>1, <1>2, <1>3, <1>4, <1>5

\* What mparse_buf_r() does with the return code.
LEMMA MainOK ==
  ASSUME MparseInv, NEW h, Ready(h), h.ph = "parse",
         NEW res \in Result, NEW blk \in Seq(WLine), MainInstruction(h, res, blk),
         "append" \in res.opt => res.main = "ign" /\ Free(h.ln),
         "usercall" \in res.opt => r'.mstack > r.mstack,
         reparse_count' = IF res.main = "reparse" THEN reparse_count + 1 ELSE reparse_count,
         Spans(r'.last) \/ (res.main = "rerun" /\ Pending(r'.last, h.ln))
  PROVE  MparseInv'
<1>0. FrameOK(Depth, h) /\ Depth \in Nat
  <2>1. FrameOK(Depth, h) /\ status = "run"
    BY DEF Ready
  <2> QED BY <2>1, CurIs
<1>1. ASSUME frames' = Replace(NextLine(h, res)), Spans(r'.last) PROVE MparseInv'
  <2> DEFINE g == NextLine(h, res)
  <2>1. FrameOK(Depth, g) /\ Same(h, g)
    BY <1>0, NextOK
  <2>2. SpanOK(g, r'.last) /\ frames' = Replace(g)
    BY <1>1 DEF SpanOK
  <2> HIDE DEF g
  <2> QED BY <2>1, <2>2, Replaces
<1>2. CASE res.main = "ign"
  <2>1. frames' = Replace(NextLine(h, res)) /\ Spans(r'.last)
    BY <1>2 DEF MainInstruction
  <2> QED BY <1>1, <2>1
<1>3. CASE res.main = "cont"
  <2>1. Spans(r'.last)
    BY <1>3
  <2>2. CASE frames' = Replace(NextLine(h, res))
    BY <1>1, <2>1, <2>2
  <2>3. CASE frames' = Replace([h EXCEPT !.ph = "leave"])
    <3> DEFINE g == [h EXCEPT !.ph = "leave"]
    <3>1. FrameOK(Depth, g) /\ Same(h, g)
      BY <1>0, EndsOK
    <3>2. SpanOK(g, r'.last) /\ frames' = Replace(g)
      BY <2>1, <2>3 DEF SpanOK
    <3> HIDE DEF g
    <3> QED BY <3>1, <3>2, Replaces
  <2> QED BY <1>3, <2>2, <2>3 DEF MainInstruction
<1>4. CASE res.main = "rerun"
  <2>1. frames' = Replace(h) /\ Same(h, h) /\ SpanOK(h, r'.last)
    BY <1>4 DEF MainInstruction, Same, SpanOK
  <2> QED BY <1>0, <2>1, Replaces
<1>5. CASE res.main = "reparse"
  <2>1. Spans(r'.last) /\ reparse_count' = reparse_count + 1 /\ "append" \notin res.opt
    BY <1>5
  <2>2. CASE reparse_count + 1 > ReparseLimit
    <3> DEFINE g == [h EXCEPT !.ph = "leave", !.result = "ign"]
    <3>1. FrameOK(Depth, g) /\ Same(h, g)
      BY <1>0, LeavesOK
    <3>2. SpanOK(g, r'.last) /\ frames' = Replace(g)
      BY <1>5, <2>1, <2>2 DEF SpanOK, MainInstruction
    <3> HIDE DEF g
    <3> QED BY <3>1, <3>2, Replaces
  <2>3. CASE ~(reparse_count + 1 > ReparseLimit)
    <3> DEFINE kind == IF "usercall" \in res.opt THEN "macro" ELSE "text"
               a == Frame(FALSE, kind, blk)
    <3>1. frames' = Call(h, res, a)
      BY <1>5, <2>3 DEF MainInstruction
    <3>2. kind \in {"file", "macro", "text", "sofail"} /\ kind # "file"
      OBVIOUS
    <3>3. (FALSE <=> kind = "file") /\ FALSE \in BOOLEAN
      BY <3>2
    <3>4. reparse_count' <= ReparseLimit
      <4>1. reparse_count \in Nat /\ ReparseLimit \in Nat
        BY MparseAssumption DEF MparseInv, State
      <4> QED BY <2>1, <2>3, <4>1
    <3>5. (kind = "macro" /\ "usercall" \in res.opt) \/ kind = "text"
      OBVIOUS
    <3> HIDE DEF kind
    <3>6. Fresh(Depth + 1, a, kind)
      BY <3>2, <3>3, FreshOK, Zenon
    <3>7. Granted(frames, r, reparse_count, r', reparse_count', a.kind)
      BY <2>1, <3>4, <3>5, <3>6 DEF Granted, Fresh
    <3> HIDE DEF a
    <3> QED BY <2>1, <3>1, <3>6, <3>7, CallsIn DEF Fresh
  <2> QED BY <2>2, <2>3
<1>6. CASE res.main = "so"
  <2>1. IncludeFile(h, res) /\ "append" \notin res.opt /\ reparse_count' = reparse_count /\ Spans(r'.last)
    BY <1>6 DEF MainInstruction
  <2> QED BY <2>1, IncludeOK
<1>7. res.main \in {"ign", "cont", "rerun", "reparse", "so"}
  BY DEF Result
<1> QED BY <1>2, <1>3, <1>4, <1>5, <1>6, <1>7

\* The part of Parse after roff_parseln() has returned out.
Parsed(c, out) ==
  /\ ~AssertFails(out.res)
  /\ r' = out.r
  /\ IF "userret" \in out.res.opt /\ ~Cur.start
     THEN /\ frames' = Replace([Cur EXCEPT !.ph = "leave", !.result = "userret"])
          /\ UNCHANGED <<curloop, reparse_count>>
     ELSE /\ reparse_count' = IF out.res.main = "reparse" THEN reparse_count + 1 ELSE reparse_count
          /\ \E sw \in {LoopSwitch([Cur EXCEPT !.ln = out.ln], out.res.loop)} :
               /\ curloop' = sw[2]
               /\ MainInstruction(sw[1], out.res, out.blk)

\* One line parsed keeps the invariant.
LEMMA ParseOK ==
  ASSUME MparseInv, Parse, menu' = menu
  PROVE  MparseInv'
<1>1. PICK c \in {0, 1} : Parsed(c, roff_parseln(r, Cur.ln, c))
  BY DEF Parse, Parsed
<1>2. InPhase("parse") /\ status = "run" /\ Cur.ph = "parse" /\ nread' = nread /\ status' = status
  BY DEF Parse, InPhase
<1> DEFINE out == roff_parseln(r, Cur.ln, c)
<1>3. Sound(r, out)
  BY <1>2, LineParsed
<1>4. Parsed(c, out)
  BY <1>1
<1> HIDE DEF out
<1>5. /\ out.r \in RoffState /\ out.ln \in WLine /\ out.res \in Result /\ out.blk \in Seq(WLine)
      /\ out.r.mstack >= r.mstack /\ r' = out.r
  BY <1>3, <1>4 DEF Sound, Outcome, Parsed
<1>6. /\ FrameOK(Depth, Cur) /\ LoopAt(frames, Depth, Cur, curloop) /\ Depth \in Nat \ {0}
      /\ reparse_count \in Nat
  BY <1>2, CurIs
<1>7. nread # 0
  BY <1>2, OnlyFile
<1>8. /\ "append" \in out.res.opt => out.res.main = "ign" /\ Free(out.ln)
      /\ "usercall" \in out.res.opt => r'.mstack > r.mstack
      /\ "userret" \in out.res.opt => out.res.main = "ign"
      /\ Spans(r'.last) \/ (out.res.main = "rerun" /\ Pending(r'.last, out.ln))
  <2>1. ~AssertFails(out.res)
    BY <1>4 DEF Parsed
  <2>2. "append" \in out.res.opt => out.res.main = "ign"
    BY <2>1, Codes DEF AssertFails
  <2>3. "userret" \in out.res.opt => out.res.main = "ign"
    BY <2>1 DEF AssertFails, Res
  <2> QED BY <1>3, <1>5, <2>2, <2>3 DEF Sound
<1>9. CASE "userret" \in out.res.opt /\ ~Cur.start
  <2> DEFINE g == [Cur EXCEPT !.ph = "leave", !.result = "userret"]
  <2>1. frames' = Replace(g) /\ curloop' = curloop /\ reparse_count' = reparse_count
    BY <1>4, <1>9 DEF Parsed
  <2>2. FrameOK(Depth, g) /\ Same(Cur, g)
    BY <1>6, LeavesOK
  <2>3. SpanOK(g, r'.last)
    BY <1>8, <1>9 DEF SpanOK
  <2> HIDE DEF g
  <2>4. Ready(Cur)
    BY <1>2, <1>5, <1>6, <1>7, <2>1 DEF Ready
  <2> QED BY <2>1, <2>2, <2>3, <2>4, Replaces
<1>10. CASE ~("userret" \in out.res.opt /\ ~Cur.start)
  <2> DEFINE f == [Cur EXCEPT !.ln = out.ln]
             sw == LoopSwitch(f, out.res.loop)
             h == sw[1]
  <2>1. /\ reparse_count' = IF out.res.main = "reparse" THEN reparse_count + 1 ELSE reparse_count
        /\ curloop' = sw[2] /\ MainInstruction(sw[1], out.res, out.blk)
    BY <1>4, <1>10 DEF Parsed
  <2>2. FrameOK(Depth, f) /\ Same(Cur, f) /\ f.ph = "parse" /\ f.ln = out.ln
    BY <1>2, <1>5, <1>6, LineSetOK
  <2> HIDE DEF f
  <2>3. LoopAt(frames, Depth, f, curloop)
    BY <1>6, <2>2, LoopSame
  <2>4. out.res.loop \in {"none", "while", "cont", "exit"}
    BY <1>5 DEF Result
  <2>5. Switched(f, sw)
    BY <1>6, <2>2, <2>3, <2>4, SwitchOK
  <2> HIDE DEF sw
  <2>6. FrameOK(Depth, h) /\ h.kind = Cur.kind /\ h.ph = "parse" /\ h.ln = out.ln
        /\ LoopAt(frames, Depth, h, curloop')
    BY <2>1, <2>2, <2>5 DEF Switched, Same
  <2> HIDE DEF h
  <2>7. Ready(h)
    <3>1. reparse_count' \in Nat /\ reparse_count' >= reparse_count
      BY <1>6, <2>1
    <3> QED BY <1>2, <1>5, <1>7, <2>6, <3>1 DEF Ready
  <2>8. MainInstruction(h, out.res, out.blk)
    BY <2>1 DEF h
  <2> QED BY <1>5, <1>8, <2>1, <2>6, <2>7, <2>8, MainOK
<1> QED BY <1>9, <1>10

-----------------------------------------------------------------------------
\* The state that roff_alloc() makes.
LEMMA RoffInitOK == RoffInit \in RoffState /\ RoffInit.mstack = 0 /\ Spans(RoffInit.last)
<1>1. Undefined \in Value
  <2>1. <<>> \in Seq(WLine) /\ Len(<<>>) = 0 /\ 1..0 = {}
    OBVIOUS
  <2> QED BY <2>1 DEF Undefined, Value
<1>2. [m \in Macros |-> Undefined] \in [Macros -> Value]
  BY <1>1
<1>3. [n |-> 0, macro |-> NoName] \in Trap
  BY DEF Trap
<1>4. <<>> \in Seq(Node) /\ <<>> \in Seq({0, 1}) /\ Len(<<>>) = 0 /\ 1..0 = {}
  OBVIOUS
<1>5. RoffInit \in RoffState
  BY <1>2, <1>3, <1>4 DEF RoffInit, RoffState
<1>6. RoffInit.mstack = 0 /\ RoffInit.last = <<>>
  BY DEF RoffInit
<1>7. Spans(<<>>)
  BY <1>4 DEF Spans
<1> QED BY <1>5, <1>6, <1>7

\* The invariant holds when mparse_readfd() starts with the first file.
LEMMA InitOK ==
  ASSUME Init
  PROVE  MparseInv
<1> DEFINE g == Frame(TRUE, "file", <<>>)
<1>0. /\ menu \in DOMAIN Menus /\ r = RoffInit /\ nread = 0 /\ frames = <<g>> /\ curloop = Null
      /\ reparse_count = 0 /\ status = "run"
  BY DEF Init
<1>1. Fresh(1, g, "file") /\ g.ph = "fetch"
  <2>1. <<>> \in Seq(WLine) /\ TRUE \in BOOLEAN
    OBVIOUS
  <2>2. "file" \in {"file", "macro", "text", "sofail"} /\ (TRUE <=> "file" = "file")
    OBVIOUS
  <2>3. Fresh(1, g, "file")
    BY <2>1, <2>2, FreshOK, Zenon
  <2> QED BY <2>3 DEF Frame
<1>2. g \in FrameType /\ g.kind = "file"
  BY <1>1 DEF Fresh, FrameOK
<1> HIDE DEF g
<1>3. Len(frames) = 1 /\ frames[1] = g /\ frames \in Seq(FrameType) /\ frames # <<>>
  BY <1>0, <1>2
<1>4. \A i \in 1..Len(frames) : i = 1
  BY <1>3
<1>5. StackOK(frames)
  BY <1>1, <1>2, <1>3, <1>4 DEF StackOK, Fresh
<1>6. LoopOK(frames, curloop)
  BY <1>0 DEF LoopOK, Null
<1>7. Unread(frames, nread)
  BY <1>1, <1>3, <1>4 DEF Unread
<1>8. Count(frames, {"macro", "text"}) = 0 /\ Count(frames, {"macro"}) = 0 /\ Count(frames, {"file"}) = 1
  <2>1. \A i \in 1..Len(frames) : frames[i].kind = "file"
    BY <1>2, <1>3, <1>4
  <2>2. /\ {i \in 1..Len(frames) : frames[i].kind \in {"macro", "text"}} = {}
        /\ {i \in 1..Len(frames) : frames[i].kind \in {"macro"}} = {}
    BY <2>1
  <2>3. {i \in 1..Len(frames) : frames[i].kind \in {"file"}} = {1}
    BY <1>3, <2>1
  <2>4. Cardinality({}) = 0 /\ Cardinality({1}) = 1
    BY FS_EmptySet, FS_Singleton
  <2> QED BY <2>2, <2>3, <2>4 DEF Count
<1>9. Budget(frames, nread, reparse_count)
  <2>1. ReparseLimit * 0 \in Nat /\ SoLimit \in Nat
    <3>1. 0 \in Nat
      OBVIOUS
    <3> QED BY <3>1, Product
  <2>2. 0 <= ReparseLimit * 0
    BY <2>1
  <2> QED BY <1>0, <1>8, <2>1, <2>2 DEF Budget
<1>10. State(frames, curloop, r, nread, reparse_count)
  <2>1. Count(frames, {"macro"}) <= r.mstack /\ r \in RoffState
    BY <1>0, <1>8, RoffInitOK
  <2> QED BY <1>0, <1>5, <1>6, <1>7, <1>9, <2>1 DEF State
<1>11. SpanOK(Cur, r.last)
  BY <1>0, RoffInitOK DEF SpanOK
<1> QED BY <1>0, <1>3, <1>10, <1>11 DEF MparseInv

\* The invariant is inductive.
LEMMA NextKeeps ==
  ASSUME MparseInv, [Next]_vars
  PROVE  MparseInv'
<1>1. CASE Step
  <2>1. menu' = menu
    BY <1>1 DEF Step
  <2>2. CASE FetchFile
    BY <2>1, <2>2, FetchFileOK
  <2>3. CASE FetchText
    BY <2>1, <2>3, FetchTextOK
  <2>4. CASE EndOfInput
    BY <2>1, <2>4, EndOfInputOK
  <2>5. CASE Parse
    BY <2>1, <2>5, ParseOK
  <2>6. CASE Abort
    BY <2>1, <2>6, AbortOK
  <2>7. CASE Leave
    BY <2>1, <2>7, LeaveOK
  <2> QED BY <1>1, <2>2, <2>3, <2>4, <2>5, <2>6, <2>7 DEF Step
<1>2. CASE UNCHANGED vars
  <2>1. /\ menu' = menu /\ r' = r /\ frames' = frames /\ curloop' = curloop
        /\ reparse_count' = reparse_count /\ nread' = nread /\ status' = status
    BY <1>2 DEF vars
  <2>2. State(frames', curloop', r', nread', reparse_count')
    BY <2>1 DEF MparseInv
  <2> QED BY <2>1, <2>2 DEF MparseInv, Cur, Depth
<1> QED BY <1>1, <1>2 DEF Next, Finished

\* The inductive invariant of the main parser holds for all documents, made of any lines,
\* and for any values of REPARSE_LIMIT and of the limit on nested files.
THEOREM MparseInvariant == Spec => []MparseInv
<1>1. Init => MparseInv
  BY InitOK
<1>2. MparseInv /\ [Next]_vars => MparseInv'
  BY NextKeeps
<1> QED BY <1>1, <1>2, PTL DEF Spec

\* The invocations that StackBounded and UserretSafe count.
LEMMA ActiveIs ==
  ASSUME MparseInv, NEW kinds
  PROVE  Cardinality(Active(kinds)) = Count(frames, kinds) /\ Count(frames, kinds) \in Nat
<1>1. frames \in Seq(FrameType)
  BY DEF MparseInv, State, StackOK
<1>2. DOMAIN frames = 1..Len(frames)
  BY <1>1
<1>3. Active(kinds) = {i \in 1..Len(frames) : frames[i].kind \in kinds}
  BY <1>2 DEF Active
<1>4. Count(frames, kinds) \in Nat
  BY <1>1, CountType
<1> QED BY <1>3, <1>4 DEF Count

\* The assertion r->mstackpos >= 0 in roff_userret() holds whenever mparse_buf_r() calls
\* it after a macro, whatever macros, .return requests, loops and files do.
THEOREM UserretSafeHolds == Spec => []UserretSafe
<1>1. MparseInv => UserretSafe
  BY ActiveIs DEF MparseInv, State, UserretSafe
<1> QED BY <1>1, MparseInvariant, PTL

\* mparse_buf_r() recurses at most ReparseLimit times for each line read from a file, and
\* for at most SoLimit + 1 nested files: this is the bound that reparse_count enforces.
THEOREM StackBoundedHolds == Spec => []StackBounded
<1>1. ASSUME MparseInv PROVE StackBounded
  <2>1. Budget(frames, nread, reparse_count)
    BY <1>1 DEF MparseInv, State
  <2> QED BY <1>1, <2>1, ActiveIs DEF Budget, StackBounded
<1> QED BY <1>1, MparseInvariant, PTL

\* curp->loop and the local pointers of mparse_buf_r() never point to a lookaside buffer
\* that was freed, nor past its end.
THEOREM LoopLiveHolds == Spec => []LoopLive
<1>1. ASSUME MparseInv PROVE LoopLive
  <2>1. StackOK(frames) /\ LoopOK(frames, curloop) /\ frames \in Seq(FrameType)
    BY <1>1 DEF MparseInv, State, StackOK
  <2>2. ASSUME curloop # Null
        PROVE  curloop[1] <= Depth /\ curloop[2] <= Len(frames[curloop[1]].look) /\ frames[curloop[1]].inloop
    <3>1. curloop[1] \in 1..Len(frames) /\ frames[curloop[1]].inloop
          /\ curloop[2] \in 1..Len(frames[curloop[1]].look)
      BY <2>1, <2>2 DEF LoopOK
    <3>2. Len(frames) \in Nat /\ Len(frames[curloop[1]].look) \in Nat
      BY <2>1, <3>1, FrameElem, FieldsIs
    <3> QED BY <3>1, <3>2 DEF Depth
  <2>3. ASSUME NEW i \in DOMAIN frames, frames[i].loop # Null
        PROVE  frames[i].loop[1] = i /\ frames[i].loop[2] <= Len(frames[i].look)
    <3>1. i \in 1..Len(frames)
      BY <2>1
    <3>2. FrameOK(i, frames[i]) /\ frames[i] \in FrameType
      BY <2>1, <3>1, FrameElem
    <3>3. frames[i].loop[1] = i /\ frames[i].loop[2] \in 1..Len(frames[i].look) /\ Len(frames[i].look) \in Nat
      BY <2>3, <3>2, FieldsIs DEF FrameOK, LoopHere
    <3> QED BY <3>3
  <2> QED BY <2>2, <2>3 DEF LoopLive
<1> QED BY <1>1, MparseInvariant, PTL

\* Whenever a new line is read, at most the innermost conditional scope ends with a line,
\* and it ends with this very line: no endspan counter is ever left behind on the stack.
THEOREM SpanDisciplineHolds == Spec => []SpanDiscipline
<1>1. ASSUME MparseInv PROVE SpanDiscipline
  <2> SUFFICES ASSUME status = "run", Cur.ph = "fetch", NEW i \in DOMAIN r.last, r.last[i].endspan > 0
               PROVE  i = Len(r.last) /\ r.last[i].endspan = 1
    BY DEF SpanDiscipline
  <2>1. r \in RoffState /\ SpanOK(Cur, r.last)
    BY <1>1, CurIs
  <2>2. Spans(r.last) /\ i \in 1..Len(r.last)
    BY <2>1, StateIs DEF SpanOK
  <2> QED BY <2>2 DEF Spans
<1> QED BY <1>1, MparseInvariant, PTL
=============================================================================
