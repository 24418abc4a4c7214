---------------------------- MODULE BasicLemmas ----------------------------
(***************************************************************************)
(* Facts about numbers and sequences that the proofs about the parsers     *)
(* have in common.  The code searches rows and stacks from one end for the *)
(* first entry with some property, and the modules say so with CHOOSE:     *)
(* Least and Greatest are what such a search finds.  NatSet is induction   *)
(* on the natural numbers, stated about a set instead of a predicate.      *)
(***************************************************************************)
EXTENDS Integers, Sequences, WellFoundedInduction, TLAPS

\* A search upwards ends at the least element: any nonempty set of natural numbers
\* has one (the searches for a column in tbl_data.c).
LEMMA Least ==
  ASSUME NEW S \in SUBSET Nat, S # {}
  PROVE  \E m \in S : \A n \in S : m <= n
<1> DEFINE R == {p \in Nat \X Nat : p[1] < p[2]}
<1>1. IsWellFoundedOn(R, Nat)
  BY NatLessThanWellFounded DEF OpToRel
<1> HIDE DEF R
<1>2. PICK m \in S : \A n \in S : <<n, m>> \notin R
  BY <1>1, WFMin
<1>3. ASSUME NEW n \in S PROVE m <= n
  <2>1. <<n, m>> \in Nat \X Nat /\ <<n, m>>[1] = n /\ <<n, m>>[2] = m
    OBVIOUS
  <2>2. ~(n < m)
    BY <1>2, <2>1 DEF R
  <2> QED BY <2>2
<1> QED BY <1>3

\* A search downwards ends at the greatest element: a bounded nonempty set of
\* natural numbers has one (roffnode_cleanscope(), the data row above a cell).
LEMMA Greatest ==
  ASSUME NEW S \in SUBSET Nat, S # {}, NEW b \in Nat, \A n \in S : n <= b
  PROVE  \E m \in S : \A n \in S : n <= m
<1> DEFINE T == {k \in Nat : \A n \in S : n <= k}
<1>1. PICK m \in T : \A n \in T : m <= n
  BY Least
<1>2. m \in S
  <2> SUFFICES ASSUME m \notin S PROVE FALSE
    OBVIOUS
  <2>1. PICK n \in S : TRUE
    OBVIOUS
  <2>2. m - 1 \in T
    BY <2>1
  <2> QED BY <1>1, <2>2
<1> QED BY <1>1, <1>2

\* Induction: a set with 0 and the successors of its numbers has all of them
\* (used for the loop over the closing braces of a line in roff.c).
LEMMA NatSet ==
  ASSUME NEW S, 0 \in S, \A n \in Nat : n \in S => n + 1 \in S
  PROVE  Nat \subseteq S
<1> SUFFICES ASSUME Nat \ S # {} PROVE FALSE
  OBVIOUS
<1>1. PICK m \in Nat \ S : \A n \in Nat \ S : m <= n
  BY Least
<1>2. m - 1 \in Nat /\ m - 1 \in S /\ m = (m - 1) + 1
  BY <1>1
<1> QED BY <1>2

-----------------------------------------------------------------------------
\* The list without entries is the one of length zero: how the code's tests for a
\* null pointer to the first entry are modelled.
LEMMA EmptyLen ==
  ASSUME NEW S, NEW s \in Seq(S)
  PROVE  s = <<>> <=> Len(s) = 0
OBVIOUS

\* A list that is not empty has a last entry, such as r->last or tbl->last_span.
LEMMA NonEmpty ==
  ASSUME NEW S, NEW s \in Seq(S), s # <<>>
  PROVE  Len(s) \in 1..Len(s) /\ Len(s) \in Nat \ {0}
BY EmptyLen

\* A list with entries is not empty.
LEMMA HasLen ==
  ASSUME NEW S, NEW s \in Seq(S), Len(s) # 0
  PROVE  s # <<>>
BY EmptyLen

\* The entries of a list have the type of its entries.
LEMMA SeqElem ==
  ASSUME NEW S, NEW s \in Seq(S), NEW i \in 1..Len(s)
  PROVE  s[i] \in S
OBVIOUS

\* t is s with x in place i.
Put(S, s, i, x, t) ==
  /\ t \in Seq(S) /\ Len(t) = Len(s)
  /\ \A m \in 1..Len(s) : t[m] = IF m = i THEN x ELSE s[m]

\* An assignment to one entry of a list leaves the others alone.
LEMMA Replaced ==
  ASSUME NEW S, NEW s \in Seq(S), NEW i \in 1..Len(s), NEW x \in S, NEW t, t = [s EXCEPT ![i] = x]
  PROVE  Put(S, s, i, x, t)
BY DEF Put

\* t is s with x at its end.
Plus(S, s, x, t) ==
  /\ t \in Seq(S) /\ Len(t) = Len(s) + 1 /\ t[Len(s) + 1] = x
  /\ \A m \in 1..Len(s) : t[m] = s[m]

\* Adding an entry at the end of a list (cells, rows, scopes, invocations).
LEMMA Appended ==
  ASSUME NEW S, NEW s \in Seq(S), NEW x \in S, NEW t, t = Append(s, x)
  PROVE  Plus(S, s, x, t)
BY DEF Plus

\* t is the first n entries of s.
Prefix(S, s, n, t) ==
  /\ t \in Seq(S) /\ Len(t) = n
  /\ \A m \in 1..n : t[m] = s[m]

\* Dropping entries from the end of a list (scopes, invocations).
LEMMA Cut ==
  ASSUME NEW S, NEW s \in Seq(S), NEW n \in 0..Len(s), NEW t, t = SubSeq(s, 1, n)
  PROVE  Prefix(S, s, n, t)
<1>1. t \in Seq(S) /\ Len(t) = n
  OBVIOUS
<1>2. \A m \in 1..n : t[m] = s[m]
  OBVIOUS
<1> QED BY <1>1, <1>2 DEF Prefix

\* t is s without its first n entries.
Suffix(S, s, n, t) ==
  /\ t \in Seq(S) /\ Len(t) = IF n < Len(s) THEN Len(s) - n ELSE 0
  /\ \A m \in 1..Len(t) : m + n \in 1..Len(s) /\ t[m] = s[m + n]

\* Dropping entries from the start of a list (the processed part of a line).
LEMMA Rest ==
  ASSUME NEW S, NEW s \in Seq(S), NEW n \in Nat, NEW t, t = SubSeq(s, n + 1, Len(s))
  PROVE  Suffix(S, s, n, t)
<1>1. t \in Seq(S) /\ Len(t) = IF n < Len(s) THEN Len(s) - n ELSE 0
  OBVIOUS
<1>2. ASSUME NEW m \in 1..Len(t) PROVE m + n \in 1..Len(s)
  BY <1>1
<1>3. ASSUME NEW m \in 1..Len(t) PROVE t[m] = s[m + n]
  <2>1. n < Len(s) /\ m \in 1..(Len(s) - n)
    BY <1>1
  <2>2. t[m] = s[(n + 1) + m - 1]
    BY <2>1
  <2>3. (n + 1) + m - 1 = m + n
    BY <2>1
  <2> QED BY <2>2, <2>3
<1> QED BY <1>1, <1>2, <1>3 DEF Suffix

\* u is s followed by t.
Joined(S, s, t, u) ==
  /\ u \in Seq(S) /\ Len(u) = Len(s) + Len(t)
  /\ \A i \in 1..Len(u) : u[i] = IF i <= Len(s) THEN s[i] ELSE t[i - Len(s)]

\* Adding a list at the end of another one (the data rows of one line).
LEMMA Concat ==
  ASSUME NEW S, NEW s \in Seq(S), NEW t \in Seq(S), NEW u, u = s \o t
  PROVE  Joined(S, s, t, u)
<1>1. u \in Seq(S) /\ Len(u) = Len(s) + Len(t)
  OBVIOUS
<1>2. \A i \in 1..Len(u) : u[i] = IF i <= Len(s) THEN s[i] ELSE t[i - Len(s)]
  BY <1>1
<1> QED BY <1>1, <1>2 DEF Joined
=============================================================================
