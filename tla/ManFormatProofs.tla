-------------------------- MODULE ManFormatProofs --------------------------
(***************************************************************************)
(* Proofs about ManFormat on the terminal (man_term.c), for trees of any   *)
(* depth and any menu of macros, widths and nested RS blocks.  The walk    *)
(* has two parts that must stay in step: the path of nodes that are being  *)
(* formatted and the state of the output.  TermInv says that the path is   *)
(* one that the parser can build and that the stack of widths is as high   *)
(* as RS bodies are open; FieldsInv that the modes of a field are on only  *)
(* while the node they belong to is on the path; LinesInv that no margin   *)
(* moves under text.  MarginsInv says how large the indentation and the    *)
(* widths are in each node of the path (SumInv), and where the text of the *)
(* innermost body starts (PlaceInv).  First come the handlers: what each   *)
(* of them does to the output when its node is entered and left.  Then the *)
(* steps of the walk are said in these words (Walks), and only those are   *)
(* looked at in the proofs of the invariants.                              *)
(***************************************************************************)
EXTENDS ManFormat, BasicLemmas, FiniteSetTheorems, TLAPS

-----------------------------------------------------------------------------
\* What the head of an item can be: nothing, a tag, or a mark the item lists are told by.
ItemKinds == {"none", "tag"} \cup Marks
\* What a node remembers of the child visited last (Trace).
Siblings == {"start", "empty", "other", "SY"} \cup ItemKinds
\* What is known of the sibling to come.
Followers == {"any"} \cup ItemKinds
\* The macros that open blocks, as in roff_term_acts and man_term_acts.
BlockToks == Paragraphs \cup Sections \cup {"RS", "UR"}
\* The macros of all nodes on a path.
Toks == BlockToks \cup Elements \cup {"root"}
\* Blocks whose bodies hold no further block but .UR: paragraphs with a hanging first line.
Hanged == Items \cup {"HP", "SY"}

\* The nodes on the path from the root to the node being formatted.
NodeType ==
  [tok : Toks, type : {"root", "block", "head", "body", "elem"}, w : Seq(Int),
   arg : BOOLEAN, first : {"any", "none", "fill", "nofill"}, nofill : BOOLEAN,
   line : BOOLEAN, list : ItemKinds, before : ItemKinds, after : ItemKinds,
   count : 0..2, prev : Siblings, then : Followers, skip : BOOLEAN, aux : Int, sv : Int]

\* Macros and node types fit: only .IP, .TP, .TQ have lists, print_man_node() skips the
\* children of a head that pre_HP(), pre_PP(), pre_RS() or pre_UR() has refused,
\* and only the body of .RS saves an offset (n->aux, pre_RS()).
Good(n) ==
  /\ n.type = "root" => n.tok = "root"
  /\ n.type \in {"block", "head", "body"} => n.tok \in BlockToks
  /\ n.type = "elem" => n.tok \in Elements
  /\ n.list # "none" => n.tok \in Items
  /\ n.tok = "HP" => n.first # "any"
  /\ n.type = "block" => n.skip = FALSE
  /\ n.type = "head" /\ n.tok \in {"HP", "PP", "RS", "UR"} => n.skip = TRUE
  /\ ~(n.type = "body" /\ n.tok = "RS") => n.aux = 0

\* A block of macro tok can be a child of the node a: man_macro.c closes paragraphs
\* before paragraphs, and everything before a section.
Heir(a, tok) ==
  \/ a.type = "root" /\ tok = "SH"
  \/ /\ a.type = "body"
     /\ \/ tok = "UR" /\ a.tok # "UR"
        \/ tok = "RS" /\ a.tok \in {"PP", "RS"} \cup Sections
        \/ tok \in Paragraphs /\ a.tok \in {"RS"} \cup Sections
        \/ tok = "SS" /\ a.tok = "SH"

\* The node b can be the child of a: a block has its head and its body, in this order,
\* and elements are in heads and bodies, but not in the skipped heads.
Below(a, b) ==
  \/ b.type = "block" /\ Heir(a, b.tok)
  \/ b.type = "head" /\ a.type = "block" /\ a.tok = b.tok /\ a.count = 1
  \/ b.type = "body" /\ a.type = "block" /\ a.tok = b.tok /\ a.count = 2
  \/ b.type = "elem" /\ a.type \in {"head", "body"}
     /\ ~(a.type = "head" /\ a.tok \in {"HP", "PP", "RS", "UR"})

\* The node b can be anywhere below a: nothing but elements is in a head, and nothing
\* but elements and links is in the body of a paragraph that hangs.
Inside(a, b) ==
  /\ a.type # "elem"
  /\ a.type = "head" => b.type = "elem"
  /\ a.type = "body" /\ a.tok \in Hanged => b.type = "elem" \/ b.tok = "UR"

\* The path is one of a tree that man_macro.c can build.
PathOK(p) ==
  /\ p \in Seq(NodeType) /\ Len(p) >= 1
  /\ p[1].type = "root"
  /\ \A i \in 1..Len(p) : Good(p[i])
  /\ \A i \in 2..Len(p) : Below(p[i - 1], p[i])
  /\ \A i, j \in 1..Len(p) : i < j => Inside(p[i], p[j])

\* The node n was just allocated.
Fresh(n) ==
  /\ n \in NodeType /\ n.count = 0 /\ n.prev = "start" /\ n.aux = 0 /\ n.skip = FALSE
  /\ n.sv = 0

\* Alloc() (roff_node_alloc()): a node is allocated without children.
LEMMA AllocIs ==
  ASSUME NEW tok \in Toks, NEW type \in {"root", "block", "head", "body", "elem"},
         nf \in BOOLEAN
  PROVE  LET n == Alloc(tok, type)
         IN /\ Fresh(n) /\ n.tok = tok /\ n.type = type /\ n.w = <<>> /\ n.list = "none"
            /\ n.nofill = TRUE => nf = TRUE
<1> DEFINE n == Alloc(tok, type)
<1> DEFINE f == nf /\ ~InHead /\ tok \notin Paragraphs \cup Sections \cup {"RS"}
<1> DEFINE l == type \in {"text", "block", "elem"}
<1>1. n = [Node(tok, type) EXCEPT !.nofill = f, !.line = l]
  BY Zenon DEF Alloc
<1>2. f \in BOOLEAN /\ l \in BOOLEAN
  OBVIOUS
<1>3. f = TRUE => nf = TRUE
  BY Zenon
<1> HIDE DEF f, l, n
<1>4. n = [tok |-> tok, type |-> type, w |-> <<>>, arg |-> FALSE, first |-> "any",
           nofill |-> f, line |-> l, list |-> "none", before |-> "none", after |-> "none",
           count |-> 0, prev |-> "start", then |-> "any", skip |-> FALSE, aux |-> 0, sv |-> 0]
  BY <1>1 DEF Node
<1>5. <<>> \in Seq(Int)
  OBVIOUS
<1>6. "none" \in ItemKinds /\ 0 \in 0..2 /\ "start" \in Siblings /\ "any" \in Followers
  BY DEF ItemKinds, Siblings, Followers
<1>7. n \in NodeType
  BY <1>2, <1>4, <1>5, <1>6 DEF NodeType
<1>8. n.count = 0 /\ n.prev = "start" /\ n.aux = 0 /\ n.skip = FALSE /\ n.sv = 0
  BY <1>4
<1>9. Fresh(n)
  BY <1>7, <1>8 DEF Fresh
<1> USE DEF n
<1> QED BY <1>3, <1>4, <1>9

\* NextParts
LEMMA PartIs ==
  ASSUME Top \in NodeType, Good(Top), NEW n \in NextParts
  PROVE  /\ Top.type = "block" /\ Top.count \in {0, 1}
         /\ Fresh(n) /\ n.type = IF Top.count = 0 THEN "head" ELSE "body"
         /\ n.tok = Top.tok /\ n.list = Top.list /\ n.w = Top.w /\ n.first = Top.first
         /\ n.nofill = Top.nofill /\ n.arg = Top.arg /\ n.then = Top.then
<1>1. Top.type = "block" /\ ~(Top.count >= 2)
  BY DEF NextParts
<1>2. Top.count \in {0, 1}
  BY <1>1 DEF NodeType
<1> DEFINE ty == IF Top.count = 0 THEN "head" ELSE "body"
<1>3. n = [Top EXCEPT !.type = ty, !.line = FALSE, !.count = 0, !.prev = "start", !.sv = 0]
  BY <1>1 DEF NextParts
<1>4. ty \in {"root", "block", "head", "body", "elem"}
  OBVIOUS
<1>5. Top.skip = FALSE /\ Top.aux = 0
  BY <1>1 DEF Good
<1>6. 0 \in 0..2 /\ "start" \in Siblings
  BY DEF Siblings
<1>7. ty = IF Top.count = 0 THEN "head" ELSE "body"
  OBVIOUS
<1> HIDE DEF ty
<1>8. n \in NodeType
  <2>1. ASSUME NEW l \in BOOLEAN, NEW c \in 0..2, NEW s \in Siblings, NEW v \in Int
        PROVE  [Top EXCEPT !.type = ty, !.line = l, !.count = c, !.prev = s, !.sv = v]
                 \in NodeType
    BY <1>4 DEF NodeType
  <2>2. FALSE \in BOOLEAN /\ 0 \in Int
    OBVIOUS
  <2> QED BY <1>3, <1>6, <2>1, <2>2, Zenon
<1>9. n.type = ty /\ n.tok = Top.tok /\ n.list = Top.list /\ n.w = Top.w /\ n.first = Top.first
  BY <1>3 DEF NodeType
<1>10. n.nofill = Top.nofill /\ n.arg = Top.arg /\ n.then = Top.then
  BY <1>3 DEF NodeType
<1>11. n.count = 0 /\ n.prev = "start" /\ n.sv = 0 /\ n.skip = Top.skip /\ n.aux = Top.aux
  BY <1>3 DEF NodeType
<1>12. Fresh(n)
  BY <1>5, <1>8, <1>11 DEF Fresh
<1> QED BY <1>1, <1>2, <1>7, <1>9, <1>10, <1>12

\* ChildBlocks()
LEMMA HeirIs ==
  ASSUME NEW b \in NodeType, Good(b), NEW tok \in ChildBlocks(b)
  PROVE  Heir(b, tok) /\ tok \in BlockToks
<1>1. tok \in {"SH", "UR", "RS", "SS"} \cup Paragraphs
  BY DEF ChildBlocks
<1>2. tok \in BlockToks
  BY <1>1 DEF BlockToks, Sections
<1>3. Heir(b, tok)
  BY <1>1 DEF ChildBlocks, Heir
<1> QED BY <1>2, <1>3

\* Widths()
LEMMA WidthIs ==
  ASSUME menu \in Menus, NEW tok, NEW w \in Widths(tok)
  PROVE  w \in Seq(Int) /\ (w = <<>> \/ w \in menu.widths)
<1>1. w = <<>> \/ w \in menu.widths
  BY DEF Widths
<1>2. <<>> \in Seq(Int)
  OBVIOUS
<1> QED BY <1>1, <1>2, MenuAssumption

\* NextBlocks
LEMMA BlockIs ==
  ASSUME Top \in NodeType, Good(Top), nf \in BOOLEAN, menu \in Menus, NEW n \in NextBlocks
  PROVE  /\ Fresh(n) /\ n.type = "block"
         /\ Heir(Top, n.tok) /\ n.tok \in BlockToks /\ n.tok \in menu.has
         /\ n.w = <<>> \/ n.w \in menu.widths
         /\ n.list # "none" => n.tok \in Items
         /\ n.nofill = TRUE => nf = TRUE
         /\ n.tok = "RS" => Cardinality(Indented) < menu.rs
         /\ n.tok = "TQ" => Top.prev = "tag"
         /\ n.tok = "HP" => n.first # "any"
<1>0. PICK tok \in ChildBlocks(Top) \cap menu.has : n \in BlocksOf(tok)
  BY Zenon DEF NextBlocks
<1> DEFINE choices == [w : Widths(tok), arg : BOOLEAN, list : Kinds(tok),
                       first : UNION {Contents(tok, x) : x \in BOOLEAN},
                       after : {"none"} \cup (IF tok \in Items THEN Kinds("IP") \cup Kinds("TP")
                                             ELSE {})]
           b == IF Top.prev \in Marks \cup {"tag"} THEN Top.prev ELSE "none"
           m == Alloc(tok, "block")
<1>1. PICK c \in choices :
         n = [m EXCEPT !.w = c.w, !.arg = c.arg, !.first = c.first, !.list = c.list,
                       !.before = b, !.after = c.after]
  BY <1>0, Zenon DEF BlocksOf
<1>2. tok \in BlockToks /\ Heir(Top, tok) /\ tok \in Toks /\ tok \in menu.has
  BY <1>0, HeirIs DEF Toks
<1>3. Kinds("IP") \subseteq Marks /\ Kinds("TP") = {"tag"}
  BY DEF Kinds
<1>4. c.list \in ItemKinds /\ (c.list # "none" => tok \in Items)
  BY <1>1 DEF Kinds, ItemKinds, Items
<1>5. c.after \in ItemKinds
  BY <1>1, <1>3 DEF ItemKinds
<1>6. c.arg \in BOOLEAN /\ c.first \in {"any", "none", "fill", "nofill"}
  BY <1>1 DEF Contents
<1>7. c.w \in Seq(Int) /\ (c.w = <<>> \/ c.w \in menu.widths)
  BY <1>1, WidthIs
<1>8. b \in ItemKinds
  BY DEF ItemKinds
<1>10. n = [m EXCEPT !.w = c.w, !.arg = c.arg, !.first = c.first, !.list = c.list,
                     !.before = b, !.after = c.after]
  BY <1>1
<1>9. Fresh(m) /\ m.tok = tok /\ m.type = "block" /\ (m.nofill = TRUE => nf = TRUE)
  <2>1. "block" \in {"root", "block", "head", "body", "elem"}
    OBVIOUS
  <2> QED BY <1>2, <2>1, AllocIs, Zenon
<1>11. n.tok = "RS" => Cardinality(Indented) < menu.rs
  BY DEF NextBlocks
<1>12. n.tok = "TQ" => Top.prev = "tag"
  BY DEF NextBlocks
<1>18. n.tok = "HP" => n.first # "any"
  BY DEF NextBlocks, Contents, Sections
<1> HIDE DEF m, b, choices
<1>13. m \in NodeType
  BY <1>9 DEF Fresh
<1>14. n \in NodeType
  <2> DEFINE m1 == [m EXCEPT !.w = c.w, !.arg = c.arg, !.first = c.first]
  <2>1. m1 \in NodeType
    BY <1>6, <1>7, <1>13 DEF NodeType
  <2>2. n = [m1 EXCEPT !.list = c.list, !.before = b, !.after = c.after]
    BY <1>10
  <2> HIDE DEF m1
  <2> QED BY <1>4, <1>5, <1>8, <2>1, <2>2 DEF NodeType
<1>15. n.tok = m.tok /\ n.type = m.type /\ n.count = m.count /\ n.prev = m.prev /\ n.aux = m.aux
  BY <1>1, <1>13 DEF NodeType
<1>16. n.skip = m.skip /\ n.nofill = m.nofill /\ n.sv = m.sv /\ n.w = c.w /\ n.list = c.list
  BY <1>1, <1>13 DEF NodeType
<1>17. Fresh(n)
  BY <1>9, <1>14, <1>15, <1>16 DEF Fresh
<1> QED BY <1>2, <1>4, <1>7, <1>9, <1>11, <1>12, <1>15, <1>16, <1>17, <1>18

\* NextElems
LEMMA ElemIs ==
  ASSUME nf \in BOOLEAN, NEW n \in NextElems
  PROVE  /\ Fresh(n) /\ n.type = "elem" /\ n.tok \in Elements /\ n.tok \in menu.has
         /\ Top.type \in {"head", "body"}
         /\ n.w \in {<<>>, << 0 >>} /\ n.list = "none"
         /\ n.nofill = TRUE => nf = TRUE
         /\ Hanging => n.tok \notin {"EX", "EE"}
<1>1. Top.type \in {"head", "body"}
  BY DEF NextElems
<1>2. PICK tok \in menu.has \cap (IF Hanging THEN Elements \ {"EX", "EE"}
                                  ELSE IF Top.type = "body" THEN Elements
                                  ELSE IF Top.tok \in Sections \cup {"TP", "TQ"} THEN {"B", "in"}
                                  ELSE {}),
           w \in {<<>>, << 0 >>} : n = [Alloc(tok, "elem") EXCEPT !.w = w]
  BY <1>1 DEF NextElems
<1>3. tok \in Elements /\ tok \in menu.has
  BY <1>2 DEF Elements
<1>4. Hanging => tok \notin {"EX", "EE"}
  BY <1>2
<1>5. w \in Seq(Int)
  <2>1. <<>> \in Seq(Int) /\ << 0 >> \in Seq(Int)
    OBVIOUS
  <2> QED BY <1>2, <2>1
<1> DEFINE m == Alloc(tok, "elem")
<1>6. Fresh(m) /\ m.tok = tok /\ m.type = "elem" /\ m.list = "none"
      /\ (m.nofill = TRUE => nf = TRUE)
  <2>1. "elem" \in {"root", "block", "head", "body", "elem"}
    OBVIOUS
  <2>2. tok \in Toks
    BY <1>3 DEF Toks
  <2> QED BY <2>1, <2>2, AllocIs, Zenon
<1>7. n = [m EXCEPT !.w = w]
  BY <1>2
<1> HIDE DEF m
<1>8. m \in NodeType
  BY <1>6 DEF Fresh
<1>9. n \in NodeType
  BY <1>5, <1>7, <1>8 DEF NodeType
<1>10. n.tok = m.tok /\ n.type = m.type /\ n.count = m.count /\ n.prev = m.prev /\ n.aux = m.aux
  BY <1>7, <1>8 DEF NodeType
<1>11. n.skip = m.skip /\ n.nofill = m.nofill /\ n.sv = m.sv /\ n.w = w /\ n.list = m.list
  BY <1>7, <1>8 DEF NodeType
<1>12. Fresh(n)
  BY <1>6, <1>9, <1>10, <1>11 DEF Fresh
<1> QED BY <1>1, <1>2, <1>3, <1>4, <1>6, <1>10, <1>11, <1>12

-----------------------------------------------------------------------------
\* Visiting a child changes what a node remembers of its children only.
Like(a, b) ==
  /\ a.tok = b.tok /\ a.type = b.type /\ a.w = b.w /\ a.arg = b.arg /\ a.first = b.first
  /\ a.nofill = b.nofill /\ a.list = b.list /\ a.skip = b.skip /\ a.aux = b.aux

\* q is the path p, and a child of its last node was visited.
Seen(p, q, r) ==
  /\ q \in Seq(NodeType) /\ Len(q) = Len(p)
  /\ \A i \in 1..(Len(p) - 1) : q[i] = p[i]
  /\ Like(q[Len(p)], p[Len(p)])
  /\ q[Len(p)].count = IF p[Len(p)].count < 2 THEN p[Len(p)].count + 1 ELSE 2
  /\ q[Len(p)].prev = r

\* Trace()
LEMMA TraceIs ==
  ASSUME NEW n, n.list \in ItemKinds
  PROVE  Trace(n) \in Siblings
BY DEF Trace, Siblings

\* Visited()
LEMMA VisitedIs ==
  ASSUME path \in Seq(NodeType), Len(path) >= 1, NEW n, Trace(n) \in Siblings
  PROVE  Seen(path, Visited(n), Trace(n))
<1> DEFINE k == Len(path)
           c == IF Top.count < 2 THEN Top.count + 1 ELSE 2
           z == [Top EXCEPT !.count = c, !.prev = Trace(n), !.then = "any"]
<1>1. k \in Nat /\ k >= 1 /\ Top = path[k] /\ Top \in NodeType
  BY SeqElem DEF Top
<1>2. c \in 0..2
  BY <1>1 DEF NodeType
<1>3. "any" \in Followers
  BY DEF Followers
<1>4. c = IF Top.count < 2 THEN Top.count + 1 ELSE 2
  OBVIOUS
<1>5. Visited(n) = [path EXCEPT ![k] = z]
  BY DEF Visited, Top
<1>6. z = [Top EXCEPT !.count = c, !.prev = Trace(n), !.then = "any"]
  OBVIOUS
<1> HIDE DEF z, c, k
<1>7. z \in NodeType
  BY <1>1, <1>2, <1>3, <1>6 DEF NodeType
<1>8. z.count = c /\ z.prev = Trace(n) /\ Like(z, Top)
  BY <1>1, <1>6 DEF NodeType, Like
<1>9. k \in 1..Len(path)
  BY <1>1 DEF k
<1>10. Put(NodeType, path, k, z, Visited(n))
  BY <1>5, <1>7, <1>9, Replaced
<1>11. k = Len(path) /\ Top = path[k]
  BY <1>1 DEF k
<1>12. \A i \in 1..(k - 1) : Visited(n)[i] = path[i]
  BY <1>1, <1>10, <1>11 DEF Put
<1>13. Visited(n)[k] = z /\ Visited(n) \in Seq(NodeType) /\ Len(Visited(n)) = k
  BY <1>1, <1>10, <1>11 DEF Put
<1> QED BY <1>4, <1>8, <1>11, <1>12, <1>13 DEF Seen

\* Being Good does not depend on the children a node remembers.
LEMMA GoodLike ==
  ASSUME NEW a, NEW b, Like(a, b), Good(b)
  PROVE  Good(a)
BY DEF Like, Good

\* Nor does being Below another node.
LEMMA BelowLike ==
  ASSUME NEW a, NEW b, NEW c, Like(b, c), Below(a, c)
  PROVE  Below(a, b)
BY DEF Like, Below

\* Nor does being Inside another node.
LEMMA InsideLike ==
  ASSUME NEW a, NEW b, NEW c, NEW d, Like(a, c), Like(b, d), Inside(c, d)
  PROVE  Inside(a, b)
BY DEF Like, Inside

\* A node is like itself.
LEMMA LikeSelf ==
  ASSUME NEW a
  PROVE  Like(a, a)
BY DEF Like

\* q is the start of the path p, whose last node may remember other children.
Start(p, q) ==
  /\ q \in Seq(NodeType) /\ Len(q) \in 1..Len(p)
  /\ \A i \in 1..(Len(q) - 1) : q[i] = p[i]
  /\ Like(q[Len(q)], p[Len(q)])

\* The path to a parent, after a child was left, is a path of the tree.
LEMMA PathStart ==
  ASSUME NEW p, NEW q, PathOK(p), Start(p, q)
  PROVE  PathOK(q)
<1>1. Len(q) \in Nat /\ Len(p) \in Nat /\ Len(q) >= 1 /\ Len(q) <= Len(p)
  BY DEF PathOK, Start
<1>2. \A i \in 1..Len(q) : Like(q[i], p[i]) /\ i \in 1..Len(p)
  <2> TAKE i \in 1..Len(q)
  <2>1. CASE i = Len(q)
    BY <1>1, <2>1 DEF Start
  <2>2. CASE i # Len(q)
    BY <1>1, <2>2, LikeSelf DEF Start
  <2> QED BY <2>1, <2>2
<1>3. q[1].type = "root"
  BY <1>1, <1>2 DEF PathOK, Like
<1>4. \A i \in 1..Len(q) : Good(q[i])
  BY <1>2, GoodLike DEF PathOK
<1>5. ASSUME NEW i \in 2..Len(q)
      PROVE  Below(q[i - 1], q[i])
  <2>1. i - 1 \in 1..(Len(q) - 1) /\ i \in 1..Len(q) /\ i \in 2..Len(p)
    BY <1>1
  <2>2. q[i - 1] = p[i - 1] /\ Below(p[i - 1], p[i])
    BY <2>1 DEF Start, PathOK
  <2> QED BY <1>2, <2>1, <2>2, BelowLike
<1>6. ASSUME NEW i \in 1..Len(q), NEW j \in 1..Len(q), i < j
      PROVE  Inside(q[i], q[j])
  BY <1>2, <1>6, InsideLike DEF PathOK
<1> QED BY <1>1, <1>3, <1>4, <1>5, <1>6 DEF PathOK, Start

\* The path to a child is a path of the tree (the recursion of print_man_node()).
LEMMA PathMore ==
  ASSUME NEW q, PathOK(q), NEW x \in NodeType, Good(x), Below(q[Len(q)], x),
         NEW r, r = Append(q, x)
  PROVE  PathOK(r) /\ Plus(NodeType, q, x, r)
<1>1. Plus(NodeType, q, x, r)
  BY Appended DEF PathOK
<1> DEFINE k == Len(q)
<1>2. k \in Nat /\ k >= 1 /\ Len(r) = k + 1 /\ r[k + 1] = x
  BY <1>1 DEF Plus, PathOK
<1>3. \A i \in 1..k : r[i] = q[i]
  BY <1>1 DEF Plus
<1>4. \A i \in 1..Len(r) : Good(r[i])
  <2> TAKE i \in 1..Len(r)
  <2>1. CASE i = k + 1
    BY <1>2, <2>1
  <2>2. CASE i # k + 1
    BY <1>2, <1>3, <2>2 DEF PathOK
  <2> QED BY <2>1, <2>2
<1>5. \A i \in 2..Len(r) : Below(r[i - 1], r[i])
  <2> TAKE i \in 2..Len(r)
  <2>1. CASE i = k + 1
    BY <1>2, <1>3, <2>1
  <2>2. CASE i # k + 1
    <3>1. i \in 2..k /\ i - 1 \in 1..k /\ i \in 1..k
      BY <1>2, <2>2
    <3> QED BY <1>3, <3>1 DEF PathOK
  <2> QED BY <2>1, <2>2
<1>6. \A i \in 1..k : Inside(q[i], x)
  <2>1. Inside(q[k], x)
    BY DEF Below, Heir, Inside, Hanged, Sections, Items, Paragraphs
  <2> TAKE i \in 1..k
  <2>2. CASE i = k
    BY <2>1, <2>2
  <2>3. CASE i # k
    <3>1. Inside(q[i], q[k])
      BY <1>2, <2>3 DEF PathOK
    <3>2. Good(q[k])
      BY <1>2 DEF PathOK
    <3>3. q[i].type = "head" => x.type = "elem"
      BY <3>1 DEF Inside, Below, Heir
    <3>4. q[k].tok = "UR" => x.type = "elem" \/ x.tok = "UR"
      BY <3>2 DEF Below, Heir, Good, Sections
    <3>5. q[k].type # "elem"
      BY <2>1 DEF Inside
    <3> QED BY <3>1, <3>3, <3>4, <3>5 DEF Inside
  <2> QED BY <2>2, <2>3
<1>7. \A i, j \in 1..Len(r) : i < j => Inside(r[i], r[j])
  <2> TAKE i, j \in 1..Len(r)
  <2> HAVE i < j
  <2>1. CASE j = k + 1
    BY <1>2, <1>3, <1>6, <2>1
  <2>2. CASE j # k + 1
    BY <1>2, <1>3, <2>2 DEF PathOK
  <2> QED BY <2>1, <2>2
<1>8. r[1].type = "root"
  BY <1>2, <1>3 DEF PathOK
<1> QED BY <1>1, <1>2, <1>4, <1>5, <1>7, <1>8 DEF PathOK, Plus

-----------------------------------------------------------------------------
\* The flags of struct termp that the man(7) formatter uses.
Flags == Term!ItemFlags \cup
         {"ibi", "nopad", "prekeep", "keep", "center", "right", "brnever"}

\* The state of the terminal formatter: struct termp and struct mtermp.
TermType ==
  [off : Nat, rm : Nat, fl : SUBSET Flags, trail : Int, col : BOOLEAN, ret : BOOLEAN,
   fault : BOOLEAN, torn : BOOLEAN, offset : Int, pardist : Int,
   lmargin : [0..(MaxMargins - 1) -> Int], cur : 0..(MaxMargins - 1), sz : Int]

\* The modes of a field, and whether it is in a section header.
Modes(p) == p.fl \cap (Term!ItemFlags \cup {"ibi"})

\* The field is printed with the same modes and the same trailing space.
SameField(p, q) == Modes(q) = Modes(p) /\ q.trail = p.trail
\* The margins of the current column (tcol->offset, tcol->rmargin) stay.
SamePlace(p, q) == q.off = p.off /\ q.rm = p.rm
\* The stack of widths (mt->lmargin, lmargincur, lmarginsz) and mt->offset stay.
SameStack(p, q) ==
  q.offset = p.offset /\ q.lmargin = p.lmargin /\ q.cur = p.cur /\ q.sz = p.sz
\* The output line stays as it is.
SameLine(p, q) == q.col = p.col /\ q.torn = p.torn
\* The distance of paragraphs (mt->pardist) stays.
SameRest(p, q) == q.pardist = p.pardist

\* The margins move; that is wrong if text is in the buffer.
Moved(p, q, o, r) ==
  q.off = o % 4096 /\ q.rm = r % 4096 /\ q.col = p.col /\ (p.col = FALSE => q.torn = p.torn)

\* An assignment to tcol->offset and tcol->rmargin, which are of type size_t.
LEMMA MoveIs ==
  ASSUME NEW p \in TermType, NEW o \in Int, NEW r \in Int, NEW q, q = Term!Move(p, o, r)
  PROVE  /\ q \in TermType /\ Moved(p, q, o, r) /\ q.ret = p.ret
         /\ SameField(p, q) /\ SameStack(p, q) /\ SameRest(p, q)
<1> DEFINE a == o % 4096
           b == r % 4096
           t == p.torn \/ (p.col /\ <<p.off, p.rm>> # <<a, b>>)
<1>1. a \in Nat /\ b \in Nat
  OBVIOUS
<1>2. q = [p EXCEPT !.off = a, !.rm = b, !.torn = t]
  <2> DEFINE moved(x, y) ==
               [p EXCEPT !.off = x, !.rm = y,
                         !.torn = p.torn \/ (p.col /\ <<p.off, p.rm>> # <<x, y>>)]
  <2>1. Term!Unsigned(o) = a /\ Term!Unsigned(r) = b
    BY DEF Term!Unsigned, Term!SizeMod
  <2>2. q = moved(Term!Unsigned(o), Term!Unsigned(r))
    BY Zenon DEF Term!Move
  <2>3. q = moved(a, b)
    <3> HIDE DEF moved, a, b
    <3> QED BY <2>1, <2>2
  <2> HIDE DEF a, b
  <2> QED BY <2>3, Zenon
<1>3. p.torn \in BOOLEAN /\ p.col \in BOOLEAN
  BY DEF TermType
<1>4. t \in BOOLEAN
  OBVIOUS
<1>5. p.col = FALSE => t = p.torn
  <2> SUFFICES ASSUME p.col = FALSE PROVE t = p.torn
    BY Zenon
  <2>1. p.torn = TRUE \/ p.torn = FALSE
    BY <1>3
  <2>2. CASE p.torn = TRUE
    BY <2>2, Zenon
  <2>3. CASE p.torn = FALSE
    <3>1. ~p.torn /\ ~p.col
      BY <2>3, Zenon
    <3>2. ~t
      BY <3>1
    <3>3. t = FALSE
      BY <3>2, Zenon
    <3> QED BY <2>3, <3>3, Zenon
  <2> QED BY <2>1, <2>2, <2>3, Zenon
<1>6. a = o % 4096 /\ b = r % 4096
  OBVIOUS
<1> HIDE DEF t, a, b
<1>7. q \in TermType
  BY <1>1, <1>2, <1>4 DEF TermType
<1>8. q.off = a /\ q.rm = b /\ q.torn = t
  BY <1>2 DEF TermType
<1>9. q.fl = p.fl /\ q.trail = p.trail /\ q.col = p.col /\ q.ret = p.ret
  BY <1>2 DEF TermType
<1>10. SameStack(p, q) /\ SameRest(p, q)
  BY <1>2 DEF TermType, SameStack, SameRest
<1>11. SameField(p, q)
  BY <1>9 DEF SameField, Modes
<1>12. p.col = FALSE => q.torn = p.torn
  BY <1>5, <1>8
<1> QED BY <1>6, <1>7, <1>8, <1>9, <1>10, <1>11, <1>12 DEF Moved

\* An assignment to the output line.
LEMMA LineIs ==
  ASSUME NEW p \in TermType, NEW c \in BOOLEAN, NEW q, q = [p EXCEPT !.col = c]
  PROVE  /\ q \in TermType /\ q.col = c /\ q.torn = p.torn /\ q.fl = p.fl /\ q.ret = p.ret
         /\ SameField(p, q) /\ SamePlace(p, q) /\ SameStack(p, q) /\ SameRest(p, q)
BY DEF TermType, SameField, Modes, SamePlace, SameStack, SameRest

\* An assignment to the flags.
LEMMA FlagsAre ==
  ASSUME NEW p \in TermType, NEW f \in SUBSET Flags, NEW q, q = [p EXCEPT !.fl = f]
  PROVE  /\ q \in TermType /\ q.fl = f /\ q.trail = p.trail /\ q.ret = p.ret
         /\ SamePlace(p, q) /\ SameStack(p, q) /\ SameRest(p, q) /\ SameLine(p, q)
BY DEF TermType, SamePlace, SameStack, SameRest, SameLine

\* An assignment to trailspace.
LEMMA TrailIs ==
  ASSUME NEW p \in TermType, NEW t \in Int, NEW q, q = [p EXCEPT !.trail = t]
  PROVE  /\ q \in TermType /\ q.trail = t /\ Modes(q) = Modes(p) /\ q.ret = p.ret
         /\ SamePlace(p, q) /\ SameStack(p, q) /\ SameRest(p, q) /\ SameLine(p, q)
BY DEF TermType, Modes, SamePlace, SameStack, SameRest, SameLine

\* The return value of a handler.
LEMMA RetIs ==
  ASSUME NEW p \in TermType, NEW r \in BOOLEAN, NEW q, q = [p EXCEPT !.ret = r]
  PROVE  /\ q \in TermType /\ q.ret = r /\ SameField(p, q)
         /\ SamePlace(p, q) /\ SameStack(p, q) /\ SameRest(p, q) /\ SameLine(p, q)
BY DEF TermType, SameField, Modes, SamePlace, SameStack, SameRest, SameLine

\* The text is written, and the modes stay as they are.
Written(p, q) ==
  /\ q.col = FALSE /\ q.torn = p.torn /\ q.ret = p.ret
  /\ SameField(p, q) /\ SamePlace(p, q) /\ SameStack(p, q) /\ SameRest(p, q)

\* term_newln() completes the line.
LEMMA NewlnIs ==
  ASSUME NEW p \in TermType, NEW q, q = Term!Newln(p)
  PROVE  q \in TermType /\ Written(p, q)
<1>1. q = [p EXCEPT !.col = FALSE] /\ FALSE \in BOOLEAN
  BY DEF Term!Newln
<1> QED BY <1>1, LineIs DEF Written

\* term_flushln(), then term_newln(): complete the field, then the line.
LEMMA FlushIs ==
  ASSUME NEW p \in TermType, NEW q, q = Term!Flush(p)
  PROVE  q \in TermType /\ Written(p, q)
<1> DEFINE c == p.col /\ "nobreak" \in p.fl
           f == p.fl \ {"nopad"}
           p1 == [p EXCEPT !.col = c]
           p2 == [p1 EXCEPT !.fl = f]
<1>0. FALSE \in BOOLEAN
  OBVIOUS
<1>1. c \in BOOLEAN
  OBVIOUS
<1>2. f \in SUBSET Flags
  BY DEF TermType
<1>3. q = [p2 EXCEPT !.col = FALSE]
  BY DEF Term!Flush, Term!term_flushln
<1>4. f \cap (Term!ItemFlags \cup {"ibi"}) = Modes(p)
  BY DEF Modes, Term!ItemFlags
<1> HIDE DEF c, f
<1>5. p1 \in TermType /\ SamePlace(p, p1) /\ SameStack(p, p1) /\ SameRest(p, p1)
      /\ p1.trail = p.trail /\ p1.torn = p.torn /\ p1.ret = p.ret
  BY <1>1, LineIs DEF SameField
<1> HIDE DEF p1
<1>6. p2 \in TermType /\ p2.fl = f /\ p2.trail = p1.trail /\ p2.ret = p1.ret
      /\ SamePlace(p1, p2) /\ SameStack(p1, p2) /\ SameRest(p1, p2) /\ SameLine(p1, p2)
  BY <1>2, <1>5, FlagsAre
<1> HIDE DEF p2
<1>7. q \in TermType /\ q.col = FALSE /\ q.torn = p2.torn /\ q.fl = p2.fl /\ q.ret = p2.ret
      /\ SameField(p2, q) /\ SamePlace(p2, q) /\ SameStack(p2, q) /\ SameRest(p2, q)
  <2>1. p2 \in TermType
    BY <1>6
  <2> QED BY <1>0, <1>3, <2>1, LineIs
<1>8. SameField(p, q)
  BY <1>4, <1>5, <1>6, <1>7 DEF SameField, Modes
<1>9. SamePlace(p, q) /\ SameStack(p, q) /\ SameRest(p, q)
  BY <1>5, <1>6, <1>7 DEF SamePlace, SameStack, SameRest
<1> QED BY <1>5, <1>6, <1>7, <1>8, <1>9 DEF Written, SameLine

\* term_word(): a word is in the output buffer.
LEMMA WordIs ==
  ASSUME NEW p \in TermType, NEW q, q = Term!term_word(p)
  PROVE  /\ q \in TermType /\ q.col = TRUE /\ q.torn = p.torn /\ q.ret = p.ret
         /\ SameField(p, q) /\ SamePlace(p, q) /\ SameStack(p, q) /\ SameRest(p, q)
<1> DEFINE f == IF "prekeep" \in p.fl THEN p.fl \cup {"keep"} ELSE p.fl
           p1 == [p EXCEPT !.col = TRUE]
<1>1. TRUE \in BOOLEAN
  OBVIOUS
<1>2. f \in SUBSET Flags
  BY DEF TermType, Flags
<1>3. q = [p1 EXCEPT !.fl = f]
  BY DEF Term!term_word
<1>4. f \cap (Term!ItemFlags \cup {"ibi"}) = Modes(p)
  BY DEF Modes, Term!ItemFlags
<1> HIDE DEF f
<1>5. /\ p1 \in TermType /\ p1.col = TRUE /\ p1.torn = p.torn /\ p1.ret = p.ret
      /\ SameField(p, p1) /\ SamePlace(p, p1) /\ SameStack(p, p1) /\ SameRest(p, p1)
  BY <1>1, LineIs
<1> HIDE DEF p1
<1>6. /\ q \in TermType /\ q.fl = f /\ q.trail = p1.trail /\ q.ret = p1.ret
      /\ SamePlace(p1, q) /\ SameStack(p1, q) /\ SameRest(p1, q) /\ SameLine(p1, q)
  BY <1>2, <1>3, <1>5, FlagsAre
<1>7. SameField(p, q)
  BY <1>4, <1>5, <1>6 DEF SameField, Modes
<1>8. SamePlace(p, q) /\ SameStack(p, q) /\ SameRest(p, q)
  BY <1>5, <1>6 DEF SamePlace, SameStack, SameRest
<1> QED BY <1>5, <1>6, <1>7, <1>8 DEF SameLine

\* Setting and clearing modes of the field.
LEMMA SetIs ==
  ASSUME NEW p \in TermType, NEW F \in SUBSET Flags, NEW q, q = Term!Set(p, F)
  PROVE  /\ q \in TermType /\ q.trail = p.trail /\ q.ret = p.ret
         /\ Modes(q) = Modes(p) \cup (F \cap (Term!ItemFlags \cup {"ibi"}))
         /\ SamePlace(p, q) /\ SameStack(p, q) /\ SameRest(p, q) /\ SameLine(p, q)
<1>1. q = [p EXCEPT !.fl = p.fl \cup F]
  BY DEF Term!Set
<1>2. p.fl \cup F \in SUBSET Flags
  BY DEF TermType
<1>3. /\ q \in TermType /\ q.fl = p.fl \cup F /\ q.trail = p.trail /\ q.ret = p.ret
      /\ SamePlace(p, q) /\ SameStack(p, q) /\ SameRest(p, q) /\ SameLine(p, q)
  BY <1>1, <1>2, FlagsAre
<1>4. Modes(q) = Modes(p) \cup (F \cap (Term!ItemFlags \cup {"ibi"}))
  BY <1>3 DEF Modes
<1> QED BY <1>3, <1>4

\* p->flags &= ~F: modes of the field are switched off.
LEMMA ClearIs ==
  ASSUME NEW p \in TermType, NEW F, NEW q, q = Term!Clear(p, F)
  PROVE  /\ q \in TermType /\ q.trail = p.trail /\ q.ret = p.ret
         /\ Modes(q) = Modes(p) \ F
         /\ SamePlace(p, q) /\ SameStack(p, q) /\ SameRest(p, q) /\ SameLine(p, q)
<1>1. q = [p EXCEPT !.fl = p.fl \ F]
  BY DEF Term!Clear
<1>2. p.fl \ F \in SUBSET Flags
  BY DEF TermType
<1>3. /\ q \in TermType /\ q.fl = p.fl \ F /\ q.trail = p.trail /\ q.ret = p.ret
      /\ SamePlace(p, q) /\ SameStack(p, q) /\ SameRest(p, q) /\ SameLine(p, q)
  BY <1>1, <1>2, FlagsAre
<1>4. Modes(q) = Modes(p) \ F
  BY <1>3 DEF Modes
<1> QED BY <1>3, <1>4

\* The entry of the stack of widths becomes w.
Widened(p, q, w) ==
  /\ q.lmargin = [p.lmargin EXCEPT ![p.cur] = w]
  /\ q.offset = p.offset /\ q.cur = p.cur /\ q.sz = p.sz

\* mt->lmargin[mt->lmargincur] = w (pre_HP(), pre_IP(), pre_TP(), pre_SY()).
LEMMA MarginIs ==
  ASSUME NEW p \in TermType, NEW w \in Int, NEW q, q = Term!SetMargin(p, w)
  PROVE  /\ q \in TermType /\ Widened(p, q, w) /\ q.ret = p.ret
         /\ SameField(p, q) /\ SamePlace(p, q) /\ SameRest(p, q) /\ SameLine(p, q)
<1> DEFINE l == [p.lmargin EXCEPT ![p.cur] = w]
<1>1. q = [p EXCEPT !.lmargin = l]
  BY DEF Term!SetMargin
<1>2. l \in [0..(MaxMargins - 1) -> Int]
  BY DEF TermType
<1>3. l = [p.lmargin EXCEPT ![p.cur] = w]
  OBVIOUS
<1> HIDE DEF l
<1>4. q \in TermType
  BY <1>1, <1>2 DEF TermType
<1>5. q.lmargin = l /\ q.offset = p.offset /\ q.cur = p.cur /\ q.sz = p.sz /\ q.ret = p.ret
  BY <1>1 DEF TermType
<1>6. SameField(p, q) /\ SamePlace(p, q) /\ SameRest(p, q) /\ SameLine(p, q)
  BY <1>1 DEF TermType, SameField, Modes, SamePlace, SameRest, SameLine
<1> QED BY <1>3, <1>4, <1>5, <1>6 DEF Widened

\* The width of a paragraph: its own, or that of the paragraph before.
Width(p, n) == IF n.w = <<>> THEN p.lmargin[p.cur] ELSE Term!Clip(p, n.w[1])

\* The width of a paragraph is an int.
LEMMA WidthInt ==
  ASSUME NEW p \in TermType, NEW n, n.w \in Seq(Int)
  PROVE  Width(p, n) \in Int
<1>1. p.lmargin[p.cur] \in Int /\ p.offset \in Int
  BY DEF TermType
<1>2. CASE n.w = <<>>
  BY <1>1, <1>2 DEF Width
<1>3. CASE n.w # <<>>
  <2>1. 1 \in 1..Len(n.w)
    BY <1>3, NonEmpty
  <2>2. n.w[1] \in Int
    BY <2>1, SeqElem
  <2> QED BY <1>1, <1>3, <2>2 DEF Width, Term!Clip, Term!DefIndent
<1> QED BY <1>2, <1>3

\* a2width() and the assignment to mt->lmargin[] in pre_HP(), pre_IP() and pre_TP().
LEMMA SizedIs ==
  ASSUME NEW p \in TermType, NEW n, n.w \in Seq(Int), NEW q, q = Term!Sized(p, n)
  PROVE  /\ q \in TermType /\ Widened(p, q, Width(p, n)) /\ q.ret = p.ret
         /\ SameField(p, q) /\ SamePlace(p, q) /\ SameRest(p, q) /\ SameLine(p, q)
<1>1. Width(p, n) \in Int
  BY WidthInt
<1>2. CASE n.w = <<>>
  <2>1. q = p /\ Width(p, n) = p.lmargin[p.cur]
    BY <1>2 DEF Term!Sized, Width
  <2>2. p.lmargin = [p.lmargin EXCEPT ![p.cur] = p.lmargin[p.cur]]
    BY DEF TermType
  <2> QED BY <2>1, <2>2 DEF Widened, SameField, SamePlace, SameRest, SameLine
<1>3. CASE n.w # <<>>
  <2>1. q = Term!SetMargin(p, Width(p, n))
    BY <1>3 DEF Term!Sized, Width
  <2> QED BY <1>1, <2>1, MarginIs
<1> QED BY <1>2, <1>3

-----------------------------------------------------------------------------
\* The start of print_man_node(): a new line, and TERMP_BRNEVER without filling.
LEMMA BeginIs ==
  ASSUME NEW p \in TermType, NEW n, NEW q, q = Term!Begin(p, n)
  PROVE  /\ q \in TermType /\ q.ret = TRUE /\ q.torn = p.torn
         /\ q.col = p.col \/ q.col = FALSE
         /\ SameField(p, q) /\ SamePlace(p, q) /\ SameStack(p, q) /\ SameRest(p, q)
<1>0. TRUE \in BOOLEAN
  OBVIOUS
<1> DEFINE m == IF n.line THEN Term!Newln(p) ELSE p
           r == IF n.nofill THEN Term!Set(m, {"brnever"}) ELSE Term!Clear(p, {"brnever"})
<1>1. q = [r EXCEPT !.ret = TRUE]
  BY DEF Term!Begin
<1>2. /\ m \in TermType /\ m.torn = p.torn
      /\ m.col = p.col \/ m.col = FALSE
      /\ SameField(p, m) /\ SamePlace(p, m) /\ SameStack(p, m) /\ SameRest(p, m)
  <2>1. CASE n.line
    <3>1. m = Term!Newln(p)
      BY <2>1
    <3> QED BY <3>1, NewlnIs DEF Written
  <2>2. CASE ~n.line
    <3>1. m = p
      BY <2>2
    <3> QED BY <3>1 DEF SameField, SamePlace, SameStack, SameRest
  <2> QED BY <2>1, <2>2
<1>3. {"brnever"} \in SUBSET Flags /\ {"brnever"} \cap (Term!ItemFlags \cup {"ibi"}) = {}
  BY DEF Flags, Term!ItemFlags
<1>4. /\ r \in TermType /\ r.torn = p.torn
      /\ r.col = p.col \/ r.col = FALSE
      /\ SameField(p, r) /\ SamePlace(p, r) /\ SameStack(p, r) /\ SameRest(p, r)
  <2>1. CASE n.nofill
    <3>1. r = Term!Set(m, {"brnever"})
      BY <2>1
    <3> HIDE DEF m, r
    <3>2. m \in TermType
      BY <1>2
    <3>3. /\ r \in TermType /\ r.trail = m.trail
          /\ Modes(r) = Modes(m) \cup ({"brnever"} \cap (Term!ItemFlags \cup {"ibi"}))
          /\ SamePlace(m, r) /\ SameStack(m, r) /\ SameRest(m, r) /\ SameLine(m, r)
      BY <1>3, <3>1, <3>2, SetIs
    <3>4. Modes(r) = Modes(m)
      BY <1>3, <3>3
    <3>5. SameField(p, r)
      BY <1>2, <3>3, <3>4 DEF SameField
    <3>6. SamePlace(p, r) /\ SameStack(p, r) /\ SameRest(p, r)
      BY <1>2, <3>3 DEF SamePlace, SameStack, SameRest
    <3>7. r.torn = p.torn /\ r.col = m.col
      BY <1>2, <3>3 DEF SameLine
    <3> QED BY <1>2, <3>3, <3>5, <3>6, <3>7
  <2>2. CASE ~n.nofill
    <3>1. r = Term!Clear(p, {"brnever"})
      BY <2>2
    <3> HIDE DEF m, r
    <3>3. /\ r \in TermType /\ r.trail = p.trail /\ Modes(r) = Modes(p) \ {"brnever"}
          /\ SamePlace(p, r) /\ SameStack(p, r) /\ SameRest(p, r) /\ SameLine(p, r)
      BY <3>1, ClearIs
    <3>4. Modes(r) = Modes(p)
      BY <1>3, <3>3 DEF Modes
    <3> QED BY <3>3, <3>4 DEF SameField, SameLine
  <2> QED BY <2>1, <2>2
<1> HIDE DEF m, r
<1>5. r \in TermType
  BY <1>4
<1>6. /\ q \in TermType /\ q.ret = TRUE /\ SameField(r, q)
      /\ SamePlace(r, q) /\ SameStack(r, q) /\ SameRest(r, q) /\ SameLine(r, q)
  BY <1>0, <1>1, <1>5, RetIs
<1>7. SameField(p, q) /\ SamePlace(p, q) /\ SameStack(p, q) /\ SameRest(p, q)
  BY <1>4, <1>6 DEF SameField, SamePlace, SameStack, SameRest
<1> QED BY <1>4, <1>6, <1>7 DEF SameLine

\* The modes of f are those of a field that starts or ends in p.
Switched(p, f) ==
  /\ f \in TermType /\ f.ret = p.ret
  /\ SamePlace(p, f) /\ SameStack(p, f) /\ SameRest(p, f) /\ SameLine(p, f)

\* Switching the modes of the field before the width is read does not change the width.
LEMMA FieldWidth ==
  ASSUME NEW p \in TermType, NEW f, Switched(p, f), NEW n, n.w \in Seq(Int),
         NEW s, s = Term!Sized(f, n)
  PROVE  s.offset = p.offset /\ Term!lmargin(s) = Width(p, n)
<1>1. f \in TermType /\ Width(p, n) = Width(f, n) /\ Width(p, n) \in Int
  BY WidthInt DEF Switched, Width, SameStack, Term!Clip
<1>2. s \in TermType /\ Widened(f, s, Width(f, n))
  BY <1>1, SizedIs
<1>3. Widened(p, s, Width(p, n))
  BY <1>1, <1>2 DEF Switched, SameStack, Widened
<1>4. s.lmargin[s.cur] = Width(p, n)
  BY <1>3 DEF Widened, TermType
<1> QED BY <1>3, <1>4 DEF Widened, Term!lmargin

\* q is p with the modes of f, the width of n, and these margins.
Fielded(p, f, n, q, o, r) ==
  /\ q \in TermType /\ Widened(p, q, Width(p, n)) /\ q.ret = p.ret
  /\ SameField(f, q) /\ SameRest(p, q) /\ Moved(p, q, o, r)

\* The field gets the width of n: its text starts at the indentation, or after the width.
LEMMA FieldIs ==
  ASSUME NEW p \in TermType, NEW f, Switched(p, f), NEW n, n.w \in Seq(Int),
         NEW s, s = Term!Sized(f, n), NEW q,
         NEW o \in Int, NEW r \in Int,
         q = Term!Move(s, o, r)
  PROVE  Fielded(p, f, n, q, o, r)
<1>1. f \in TermType /\ Width(p, n) = Width(f, n) /\ Width(p, n) \in Int
  BY WidthInt DEF Switched, Width, SameStack, Term!Clip
<1>2. /\ s \in TermType /\ Widened(f, s, Width(f, n)) /\ s.ret = f.ret
      /\ SameField(f, s) /\ SamePlace(f, s) /\ SameRest(f, s) /\ SameLine(f, s)
  BY <1>1, SizedIs
<1>5. s \in TermType
  BY <1>2
<1>6. /\ q \in TermType /\ Moved(s, q, o, r) /\ q.ret = s.ret
      /\ SameField(s, q) /\ SameStack(s, q) /\ SameRest(s, q)
  BY <1>5, MoveIs
<1>7. SameField(f, q) /\ SameRest(p, q) /\ q.ret = p.ret
  BY <1>2, <1>6 DEF Switched, SameField, SameRest
<1>8. s.col = p.col /\ s.torn = p.torn
  BY <1>2 DEF Switched, SameLine
<1>9. Moved(p, q, o, r)
  BY <1>6, <1>8 DEF Moved
<1>10. Widened(p, s, Width(p, n)) /\ Widened(p, q, Width(p, n))
  BY <1>1, <1>2, <1>6 DEF Switched, SameStack, Widened
<1> QED BY <1>6, <1>7, <1>9, <1>10 DEF Fielded

\* Doing nothing switches no mode.
LEMMA SwitchedSelf ==
  ASSUME NEW p \in TermType
  PROVE  Switched(p, p)
BY DEF Switched, SamePlace, SameStack, SameRest, SameLine

\* Modes are set, and the space after the field.
LEMMA SetTrail ==
  ASSUME NEW p \in TermType, NEW F \in SUBSET Flags, NEW t \in Int,
         NEW f, f = [Term!Set(p, F) EXCEPT !.trail = t]
  PROVE  /\ Switched(p, f) /\ f.trail = t
         /\ Modes(f) = Modes(p) \cup (F \cap (Term!ItemFlags \cup {"ibi"}))
<1> DEFINE g == Term!Set(p, F)
<1>1. /\ g \in TermType /\ g.trail = p.trail /\ g.ret = p.ret
      /\ Modes(g) = Modes(p) \cup (F \cap (Term!ItemFlags \cup {"ibi"}))
      /\ SamePlace(p, g) /\ SameStack(p, g) /\ SameRest(p, g) /\ SameLine(p, g)
  BY SetIs
<1>2. f = [g EXCEPT !.trail = t]
  OBVIOUS
<1> HIDE DEF g
<1>3. g \in TermType
  BY <1>1
<1>4. /\ f \in TermType /\ f.trail = t /\ Modes(f) = Modes(g) /\ f.ret = g.ret
      /\ SamePlace(g, f) /\ SameStack(g, f) /\ SameRest(g, f) /\ SameLine(g, f)
  BY <1>2, <1>3, TrailIs
<1> QED BY <1>1, <1>4 DEF Switched, SamePlace, SameStack, SameRest, SameLine

\* Modes of the field go, and p->trailspace is set.
LEMMA ClearTrail ==
  ASSUME NEW p \in TermType, NEW F, NEW t \in Int,
         NEW f, f = [Term!Clear(p, F) EXCEPT !.trail = t]
  PROVE  Switched(p, f) /\ f.trail = t /\ Modes(f) = Modes(p) \ F
<1> DEFINE g == Term!Clear(p, F)
<1>1. /\ g \in TermType /\ g.trail = p.trail /\ g.ret = p.ret
      /\ Modes(g) = Modes(p) \ F
      /\ SamePlace(p, g) /\ SameStack(p, g) /\ SameRest(p, g) /\ SameLine(p, g)
  BY ClearIs
<1>2. f = [g EXCEPT !.trail = t]
  OBVIOUS
<1> HIDE DEF g
<1>3. g \in TermType
  BY <1>1
<1>4. /\ f \in TermType /\ f.trail = t /\ Modes(f) = Modes(g) /\ f.ret = g.ret
      /\ SamePlace(g, f) /\ SameStack(g, f) /\ SameRest(g, f) /\ SameLine(g, f)
  BY <1>2, <1>3, TrailIs
<1> QED BY <1>1, <1>4 DEF Switched, SamePlace, SameStack, SameRest, SameLine

-----------------------------------------------------------------------------
\* Blocks: what was printed before them is written, if they are not UR.
BlockStep(p, q, n, prev) ==
  /\ q \in TermType /\ q.ret = p.ret /\ q.torn = p.torn
  /\ SameField(p, q) /\ SamePlace(p, q) /\ SameRest(p, q)
  /\ q.cur = p.cur /\ q.sz = p.sz
  /\ q.col = p.col \/ q.col = FALSE
  /\ n.tok \in {"TP", "IP", "HP", "PP", "RS"} => q.col = FALSE
  /\ n.tok = "SY" /\ prev # "SY" => q.col = FALSE
  /\ n.tok \in Sections /\ prev \notin {"start", "empty"} /\ p.pardist # 0 => q.col = FALSE
  /\ q.offset = IF n.tok \in Sections THEN 5 ELSE p.offset
  /\ q.lmargin = IF n.tok \in Sections \cup {"PP"} THEN [p.lmargin EXCEPT ![p.cur] = 7]
                 ELSE p.lmargin

\* The handlers of .IP, .TP, .HP, .RS, .SY, .UR entered for a block.
LEMMA BlockPlain ==
  ASSUME NEW p \in TermType, NEW n, n.type = "block", NEW prev, NEW parent,
         n.tok \in BlockToks \ (Sections \cup {"PP"}),
         NEW q, q = Term!Pre(p, n, prev, parent)
  PROVE  BlockStep(p, q, n, prev)
<1>1. /\ q = p \/ q = Term!Newln(p)
      /\ n.tok \in {"TP", "IP", "HP", "PP", "RS"} => q = Term!Newln(p)
      /\ n.tok = "SY" /\ prev # "SY" => q = Term!Newln(p)
  <2>1. CASE n.tok \in {"TP", "TQ"}
    BY <2>1 DEF Term!Pre, Term!pre_TP, Term!print_bvspace
  <2>2. CASE n.tok = "IP"
    BY <2>2 DEF Term!Pre, Term!pre_IP, Term!print_bvspace
  <2>3. CASE n.tok = "HP"
    BY <2>3 DEF Term!Pre, Term!pre_HP, Term!print_bvspace
  <2>4. CASE n.tok = "RS"
    BY <2>4 DEF Term!Pre, Term!pre_RS
  <2>5. CASE n.tok = "SY"
    BY <2>5 DEF Term!Pre, Term!pre_SY, Term!print_bvspace
  <2>6. CASE n.tok = "UR"
    BY <2>6 DEF Term!Pre, Term!pre_UR
  <2> QED BY <2>1, <2>2, <2>3, <2>4, <2>5, <2>6 DEF BlockToks, Paragraphs, Items, Sections
<1>2. CASE q = p
  <2>1. SameField(p, q) /\ SamePlace(p, q) /\ SameRest(p, q)
    BY <1>2 DEF SameField, SamePlace, SameRest
  <2>2. n.tok \in {"TP", "IP", "HP", "PP", "RS"} => q.col = FALSE
    BY <1>1, NewlnIs DEF Written
  <2>3. n.tok = "SY" /\ prev # "SY" => q.col = FALSE
    BY <1>1, NewlnIs DEF Written
  <2>4. n.tok \notin Sections \cup {"PP"}
    OBVIOUS
  <2> QED BY <1>2, <2>1, <2>2, <2>3, <2>4 DEF BlockStep
<1>3. CASE q = Term!Newln(p)
  <2>1. q \in TermType /\ Written(p, q)
    BY <1>3, NewlnIs
  <2>4. n.tok \notin Sections \cup {"PP"}
    OBVIOUS
  <2> QED BY <2>1, <2>4 DEF Written, BlockStep, SameStack
<1> QED BY <1>1, <1>2, <1>3

\* pre_PP() for a block: mt->lmargin is reset to the default.
LEMMA BlockPP ==
  ASSUME NEW p \in TermType, NEW n, n.type = "block", NEW prev, NEW parent, n.tok = "PP",
         NEW q, q = Term!Pre(p, n, prev, parent)
  PROVE  BlockStep(p, q, n, prev)
<1> DEFINE m == Term!SetMargin(p, 7)
<1>1. q = Term!Newln(m)
  BY DEF Term!Pre, Term!pre_PP, Term!print_bvspace, Term!ParWidth
<1>2. /\ m \in TermType /\ Widened(p, m, 7) /\ m.ret = p.ret
      /\ SameField(p, m) /\ SamePlace(p, m) /\ SameRest(p, m) /\ SameLine(p, m)
  BY MarginIs
<1> HIDE DEF m
<1>3. m \in TermType
  BY <1>2
<1>4. q \in TermType /\ Written(m, q)
  BY <1>1, <1>3, NewlnIs
<1>5. SameField(p, q) /\ SamePlace(p, q) /\ SameRest(p, q)
  BY <1>2, <1>4 DEF Written, SameField, SamePlace, SameRest
<1>6. q.cur = p.cur /\ q.sz = p.sz /\ q.offset = p.offset
      /\ q.lmargin = [p.lmargin EXCEPT ![p.cur] = 7]
  BY <1>2, <1>4 DEF Written, Widened, SameStack
<1>7. q.col = FALSE /\ q.torn = p.torn /\ q.ret = p.ret
  BY <1>2, <1>4 DEF Written, SameLine
<1>8. n.tok \notin Sections
  BY DEF Sections
<1> QED BY <1>4, <1>5, <1>6, <1>7, <1>8 DEF BlockStep

\* mt->offset = i.
LEMMA OffsetIs ==
  ASSUME NEW p \in TermType, NEW i \in Int, NEW q, q = [p EXCEPT !.offset = i]
  PROVE  /\ q \in TermType /\ q.offset = i /\ q.lmargin = p.lmargin /\ q.cur = p.cur
         /\ q.sz = p.sz /\ q.ret = p.ret
         /\ SameField(p, q) /\ SamePlace(p, q) /\ SameRest(p, q) /\ SameLine(p, q)
BY DEF TermType, SameField, Modes, SamePlace, SameRest, SameLine

\* pre_SH() and pre_SS() for a block reset the margins.
LEMMA BlockSection ==
  ASSUME NEW p \in TermType, NEW n, n.type = "block", NEW prev, NEW parent, n.tok \in Sections,
         NEW q, q = Term!Pre(p, n, prev, parent)
  PROVE  BlockStep(p, q, n, prev)
<1> DEFINE m == Term!SetMargin(p, 7)
           r == [m EXCEPT !.offset = 5]
<1>1. /\ q = r \/ q = Term!Newln(r)
      /\ prev \notin {"start", "empty"} /\ r.pardist # 0 => q = Term!Newln(r)
  BY DEF Term!Pre, Term!pre_SH, Term!Pardist, Term!Vspace, Term!ParWidth, Term!DefIndent, Sections
<1>2. /\ m \in TermType /\ Widened(p, m, 7) /\ m.ret = p.ret
      /\ SameField(p, m) /\ SamePlace(p, m) /\ SameRest(p, m) /\ SameLine(p, m)
  BY MarginIs
<1>3. r = [m EXCEPT !.offset = 5]
  OBVIOUS
<1> HIDE DEF m, r
<1>4. m \in TermType
  BY <1>2
<1>5. /\ r \in TermType /\ r.offset = 5 /\ r.lmargin = m.lmargin /\ r.cur = m.cur
      /\ r.sz = m.sz /\ r.ret = m.ret
      /\ SameField(m, r) /\ SamePlace(m, r) /\ SameRest(m, r) /\ SameLine(m, r)
  <2>1. 5 \in Int
    OBVIOUS
  <2> QED BY <1>3, <1>4, <2>1, OffsetIs
<1>6. r \in TermType
  BY <1>5
<1>7. /\ SameField(p, r) /\ SamePlace(p, r) /\ SameRest(p, r) /\ SameLine(p, r)
      /\ r.cur = p.cur /\ r.sz = p.sz /\ r.ret = p.ret
      /\ r.lmargin = [p.lmargin EXCEPT ![p.cur] = 7]
  BY <1>2, <1>5 DEF Widened, SameField, SamePlace, SameRest, SameLine
<1>8. n.tok \notin {"TP", "IP", "HP", "PP", "RS", "SY"}
  BY DEF Sections
<1>9. CASE q = r
  <2>1. prev \notin {"start", "empty"} /\ p.pardist # 0 => q.col = FALSE
    BY <1>1, <1>6, <1>7, NewlnIs DEF Written, SameRest
  <2> QED BY <1>5, <1>7, <1>8, <1>9, <2>1 DEF BlockStep, SameLine
<1>10. CASE q = Term!Newln(r)
  <2>1. q \in TermType /\ Written(r, q)
    BY <1>6, <1>10, NewlnIs
  <2>2. SameField(p, q) /\ SamePlace(p, q) /\ SameRest(p, q)
    BY <1>7, <2>1 DEF Written, SameField, SamePlace, SameRest
  <2>3. q.col = FALSE /\ q.torn = p.torn /\ q.ret = p.ret /\ q.cur = p.cur /\ q.sz = p.sz
        /\ q.offset = 5 /\ q.lmargin = [p.lmargin EXCEPT ![p.cur] = 7]
    BY <1>5, <1>7, <2>1 DEF Written, SameStack, SameLine
  <2> QED BY <1>8, <2>1, <2>2, <2>3 DEF BlockStep
<1> QED BY <1>1, <1>9, <1>10

\* Entering a block, for every macro.
LEMMA BlockIsEntered ==
  ASSUME NEW p \in TermType, NEW n, n.type = "block", NEW prev, NEW parent, n.tok \in BlockToks,
         NEW q, q = Term!Pre(p, n, prev, parent)
  PROVE  BlockStep(p, q, n, prev)
BY BlockPlain, BlockPP, BlockSection

-----------------------------------------------------------------------------
\* Heads of items: a field as wide as the width of the paragraph.
LEMMA HeadItem ==
  ASSUME NEW p \in TermType, NEW n, n.w \in Seq(Int), n.type = "head", n.tok \in Items,
         NEW prev, NEW parent, NEW q, q = Term!Pre(p, n, prev, parent)
  PROVE  /\ q \in TermType /\ q.ret = p.ret /\ SameRest(p, q)
         /\ Widened(p, q, Width(p, n)) /\ Moved(p, q, p.offset, p.offset + Width(p, n))
         /\ q.trail = 1
         /\ Modes(q) = Modes(p) \cup (IF n.tok = "IP" THEN {"nobreak"} ELSE {"nobreak", "brtrsp"})
<1> DEFINE F == IF n.tok = "IP" THEN {"nobreak"} ELSE {"nobreak", "brtrsp"}
           t == 1
           f == [Term!Set(p, F) EXCEPT !.trail = t]
           s == Term!Sized(f, n)
           o == p.offset
           r == p.offset + Width(p, n)
<1>1. q = Term!Move(s, s.offset, s.offset + Term!lmargin(s))
  <2>1. CASE n.tok \in {"TP", "TQ"}
    BY <2>1 DEF Term!Pre, Term!pre_TP
  <2>2. CASE n.tok = "IP"
    BY <2>2 DEF Term!Pre, Term!pre_IP
  <2> QED BY <2>1, <2>2 DEF Items
<1>2. F \in SUBSET Flags /\ F \cap (Term!ItemFlags \cup {"ibi"}) = F
  BY DEF Flags, Term!ItemFlags
<1>3. F = IF n.tok = "IP" THEN {"nobreak"} ELSE {"nobreak", "brtrsp"}
  OBVIOUS
<1>4. t \in Int /\ t = 1
  OBVIOUS
<1>5. f = [Term!Set(p, F) EXCEPT !.trail = t]
  OBVIOUS
<1>6. s = Term!Sized(f, n) /\ o = p.offset /\ r = p.offset + Width(p, n)
      /\ o \in Int /\ r \in Int
  BY WidthInt DEF TermType
<1> HIDE DEF F, t, f, s, o, r
<1>7. /\ Switched(p, f) /\ f.trail = t
      /\ Modes(f) = Modes(p) \cup (F \cap (Term!ItemFlags \cup {"ibi"}))
  <2>1. F \in SUBSET Flags
    BY <1>2
  <2>2. t \in Int
    BY <1>4
  <2>3. Switched(p, f)
    BY <1>5, <2>1, <2>2, SetTrail
  <2>4. f.trail = t
    BY <1>5, <2>1, <2>2, SetTrail
  <2>5. Modes(f) = Modes(p) \cup (F \cap (Term!ItemFlags \cup {"ibi"}))
    BY <1>5, <2>1, <2>2, SetTrail
  <2> QED BY <2>3, <2>4, <2>5
<1>8. s.offset = p.offset /\ Term!lmargin(s) = Width(p, n)
  <2>1. Switched(p, f) /\ s = Term!Sized(f, n)
    BY <1>6, <1>7
  <2> QED BY <2>1, FieldWidth
<1>9. q = Term!Move(s, o, r)
  BY <1>1, <1>6, <1>8
<1>10. Fielded(p, f, n, q, o, r)
  <2>1. Switched(p, f) /\ s = Term!Sized(f, n)
    BY <1>6, <1>7
  <2>2. o \in Int /\ r \in Int
    BY <1>6
  <2> QED BY <1>9, <2>1, <2>2, FieldIs
<1>11. q.trail = 1 /\ Modes(q) = Modes(p) \cup F
  BY <1>2, <1>4, <1>7, <1>10 DEF Fielded, SameField
<1> QED BY <1>3, <1>6, <1>10, <1>11 DEF Fielded

\* The head of SY: a field as wide as a name.
LEMMA HeadSY ==
  ASSUME NEW p \in TermType, NEW n, n.type = "head", n.tok = "SY",
         NEW prev, NEW parent, NEW q, q = Term!Pre(p, n, prev, parent)
  PROVE  /\ q \in TermType /\ q.ret = p.ret /\ SameRest(p, q) /\ SameStack(p, q)
         /\ Moved(p, q, p.offset, p.offset + 4)
         /\ q.trail = p.trail /\ Modes(q) \subseteq Modes(p) \cup {"nobreak"}
<1> DEFINE f == IF n.first = "nofill" THEN p ELSE Term!Set(p, {"nobreak"})
           o == p.offset
           r == p.offset + 4
<1>1. q = Term!Move(f, o, r)
  BY DEF Term!Pre, Term!pre_SY, Term!NameWidth
<1>2. {"nobreak"} \in SUBSET Flags
  BY DEF Flags, Term!ItemFlags
<1>3. Switched(p, f) /\ f.trail = p.trail /\ Modes(f) \subseteq Modes(p) \cup {"nobreak"}
  <2>1. CASE n.first = "nofill"
    BY <2>1, SwitchedSelf
  <2>2. CASE n.first # "nofill"
    <3>1. f = Term!Set(p, {"nobreak"})
      BY <2>2
    <3> HIDE DEF f
    <3>2. /\ f \in TermType /\ f.trail = p.trail /\ f.ret = p.ret
          /\ Modes(f) = Modes(p) \cup ({"nobreak"} \cap (Term!ItemFlags \cup {"ibi"}))
          /\ SamePlace(p, f) /\ SameStack(p, f) /\ SameRest(p, f) /\ SameLine(p, f)
      BY <1>2, <3>1, SetIs
    <3>3. Modes(f) \subseteq Modes(p) \cup {"nobreak"}
      BY <3>2
    <3> QED BY <3>2, <3>3 DEF Switched
  <2> QED BY <2>1, <2>2
<1>4. o \in Int /\ r \in Int /\ o = p.offset /\ r = p.offset + 4
  BY DEF TermType
<1> HIDE DEF f, o, r
<1>5. f \in TermType
  BY <1>3 DEF Switched
<1>6. /\ q \in TermType /\ Moved(f, q, o, r) /\ q.ret = f.ret
      /\ SameField(f, q) /\ SameStack(f, q) /\ SameRest(f, q)
  BY <1>1, <1>4, <1>5, MoveIs
<1>7. Moved(p, q, o, r) /\ q.ret = p.ret /\ SameRest(p, q) /\ SameStack(p, q)
  BY <1>3, <1>6 DEF Switched, Moved, SameRest, SameStack, SameLine
<1>8. q.trail = p.trail /\ Modes(q) \subseteq Modes(p) \cup {"nobreak"}
  BY <1>3, <1>6 DEF SameField
<1> QED BY <1>4, <1>6, <1>7, <1>8

\* The header of a section.
LEMMA HeadSection ==
  ASSUME NEW p \in TermType, NEW n, n.type = "head", n.tok \in Sections,
         NEW prev, NEW parent, NEW q, q = Term!Pre(p, n, prev, parent)
  PROVE  /\ q \in TermType /\ q.ret = p.ret /\ SameRest(p, q) /\ SameStack(p, q)
         /\ Moved(p, q, IF n.tok = "SH" THEN 0 ELSE 3, p.offset)
         /\ Modes(q) = Modes(p) \cup {"nobreak", "brind", "ibi"}
<1> DEFINE F == {"nobreak", "brind", "ibi"}
           f == Term!Set(p, F)
           o == IF n.tok = "SH" THEN 0 ELSE (5 \div 2) + 1
           r == p.offset
           m == Term!Move(f, o, r)
<1>1. q = [m EXCEPT !.trail = r]
  BY DEF Term!Pre, Term!pre_SH, Term!DefIndent, Sections
<1>2. F \in SUBSET Flags /\ F \cap (Term!ItemFlags \cup {"ibi"}) = {"nobreak", "brind", "ibi"}
  BY DEF Flags, Term!ItemFlags
<1>3. r \in Int /\ r = p.offset /\ o \in Int /\ o = (IF n.tok = "SH" THEN 0 ELSE 3)
  BY DEF TermType
<1>4. f = Term!Set(p, F) /\ m = Term!Move(f, o, r)
  OBVIOUS
<1> HIDE DEF F, f, o, r, m
<1>5. /\ f \in TermType /\ f.ret = p.ret
      /\ Modes(f) = Modes(p) \cup (F \cap (Term!ItemFlags \cup {"ibi"}))
      /\ SameStack(p, f) /\ SameRest(p, f) /\ SameLine(p, f)
  BY <1>2, <1>4, SetIs
<1>6. f \in TermType
  BY <1>5
<1>7. /\ m \in TermType /\ Moved(f, m, o, r) /\ m.ret = f.ret
      /\ SameField(f, m) /\ SameStack(f, m) /\ SameRest(f, m)
  BY <1>3, <1>4, <1>6, MoveIs
<1>8. m \in TermType
  BY <1>7
<1>9. /\ q \in TermType /\ Modes(q) = Modes(m) /\ q.ret = m.ret
      /\ SamePlace(m, q) /\ SameStack(m, q) /\ SameRest(m, q) /\ SameLine(m, q)
  BY <1>1, <1>3, <1>8, TrailIs
<1>10. Modes(q) = Modes(p) \cup {"nobreak", "brind", "ibi"}
  BY <1>2, <1>5, <1>7, <1>9 DEF SameField
<1>11. Moved(p, q, o, r)
  BY <1>5, <1>7, <1>9 DEF Moved, SameLine, SamePlace
<1>12. q.ret = p.ret /\ SameRest(p, q) /\ SameStack(p, q)
  BY <1>5, <1>7, <1>9 DEF SameRest, SameStack
<1> QED BY <1>3, <1>9, <1>10, <1>11, <1>12

\* The other heads are not printed.
LEMMA HeadSkipped ==
  ASSUME NEW p \in TermType, NEW n, n.type = "head", n.tok \in {"HP", "PP", "RS", "UR"},
         NEW prev, NEW parent, NEW q, q = Term!Pre(p, n, prev, parent)
  PROVE  /\ q \in TermType /\ q.ret = FALSE /\ SameField(p, q)
         /\ SamePlace(p, q) /\ SameStack(p, q) /\ SameRest(p, q) /\ SameLine(p, q)
<1>1. q = [p EXCEPT !.ret = FALSE]
  <2>1. CASE n.tok = "HP"
    BY <2>1 DEF Term!Pre, Term!pre_HP, Term!Return0
  <2>2. CASE n.tok = "PP"
    BY <2>2 DEF Term!Pre, Term!pre_PP, Term!Return0
  <2>3. CASE n.tok = "RS"
    BY <2>3 DEF Term!Pre, Term!pre_RS, Term!Return0
  <2>4. CASE n.tok = "UR"
    BY <2>4 DEF Term!Pre, Term!pre_UR, Term!Return0
  <2> QED BY <2>1, <2>2, <2>3, <2>4
<1>2. FALSE \in BOOLEAN
  OBVIOUS
<1> QED BY <1>1, <1>2, RetIs

-----------------------------------------------------------------------------
\* The body of TP and TQ: the field ends, text follows at the width.
LEMMA BodyTP ==
  ASSUME NEW p \in TermType, NEW n, n.w \in Seq(Int), n.type = "body", n.tok \in {"TP", "TQ"},
         NEW prev, NEW parent, NEW q, q = Term!Pre(p, n, prev, parent)
  PROVE  /\ q \in TermType /\ q.ret = p.ret /\ SameRest(p, q)
         /\ Widened(p, q, Width(p, n)) /\ Moved(p, q, p.offset + Width(p, n), 78)
         /\ q.trail = 0 /\ Modes(q) = Modes(p) \ {"nobreak", "brtrsp"}
<1> DEFINE F == {"nobreak", "brtrsp"}
           t == 0
           f == [Term!Clear(p, F) EXCEPT !.trail = t]
           s == Term!Sized(f, n)
           o == p.offset + Width(p, n)
           r == 78
<1>1. q = Term!Move(s, s.offset + Term!lmargin(s), 78)
  BY DEF Term!Pre, Term!pre_TP, Term!MaxMargin
<1>2. F = {"nobreak", "brtrsp"} /\ t \in Int /\ t = 0
  OBVIOUS
<1>3. f = [Term!Clear(p, F) EXCEPT !.trail = t]
  OBVIOUS
<1>4. s = Term!Sized(f, n) /\ o = p.offset + Width(p, n) /\ r = 78 /\ o \in Int /\ r \in Int
  BY WidthInt DEF TermType
<1> HIDE DEF F, t, f, s, o, r
<1>5. Switched(p, f) /\ f.trail = t /\ Modes(f) = Modes(p) \ F
  <2>1. t \in Int
    BY <1>2
  <2>2. Switched(p, f)
    BY <1>3, <2>1, ClearTrail
  <2>3. f.trail = t
    BY <1>3, <2>1, ClearTrail
  <2>4. Modes(f) = Modes(p) \ F
    BY <1>3, <2>1, ClearTrail
  <2> QED BY <2>2, <2>3, <2>4
<1>6. s.offset = p.offset /\ Term!lmargin(s) = Width(p, n)
  BY <1>4, <1>5, FieldWidth
<1>7. q = Term!Move(s, o, r)
  BY <1>1, <1>4, <1>6
<1>8. Fielded(p, f, n, q, o, r)
  <2>1. Switched(p, f) /\ s = Term!Sized(f, n)
    BY <1>4, <1>5
  <2>2. o \in Int /\ r \in Int
    BY <1>4
  <2> QED BY <1>7, <2>1, <2>2, FieldIs
<1>9. q.trail = 0 /\ Modes(q) = Modes(p) \ {"nobreak", "brtrsp"}
  BY <1>2, <1>5, <1>8 DEF Fielded, SameField
<1> QED BY <1>4, <1>8, <1>9 DEF Fielded

\* The body of IP: text follows at the width.
LEMMA BodyIP ==
  ASSUME NEW p \in TermType, NEW n, n.w \in Seq(Int), n.type = "body", n.tok = "IP",
         NEW prev, NEW parent, NEW q, q = Term!Pre(p, n, prev, parent)
  PROVE  /\ q \in TermType /\ q.ret = p.ret /\ SameRest(p, q)
         /\ Widened(p, q, Width(p, n)) /\ Moved(p, q, p.offset + Width(p, n), 78)
         /\ SameField(p, q)
<1> DEFINE s == Term!Sized(p, n)
           o == p.offset + Width(p, n)
           r == 78
<1>1. q = Term!Move(s, s.offset + Term!lmargin(s), 78)
  BY DEF Term!Pre, Term!pre_IP, Term!MaxMargin
<1>4. s = Term!Sized(p, n) /\ o = p.offset + Width(p, n) /\ r = 78 /\ o \in Int /\ r \in Int
  BY WidthInt DEF TermType
<1> HIDE DEF s, o, r
<1>5. Switched(p, p)
  BY SwitchedSelf
<1>6. s.offset = p.offset /\ Term!lmargin(s) = Width(p, n)
  BY <1>4, <1>5, FieldWidth
<1>7. q = Term!Move(s, o, r)
  BY <1>1, <1>4, <1>6
<1>8. Fielded(p, p, n, q, o, r)
  <2>1. s = Term!Sized(p, n)
    BY <1>4
  <2>2. o \in Int /\ r \in Int
    BY <1>4
  <2> QED BY <1>5, <1>7, <2>1, <2>2, FieldIs
<1> QED BY <1>4, <1>8 DEF Fielded

\* The body of HP: a field, after which text is indented; in no-fill mode, only its width.
LEMMA BodyHP ==
  ASSUME NEW p \in TermType, NEW n, n.w \in Seq(Int), n.type = "body", n.tok = "HP",
         n.first # "none",
         NEW prev, NEW parent, NEW q, q = Term!Pre(p, n, prev, parent)
  PROVE  /\ q \in TermType /\ q.ret = p.ret /\ SameRest(p, q)
         /\ Widened(p, q, Width(p, n)) /\ Moved(p, q, p.offset, p.offset + Width(p, n))
         /\ \/ n.first = "nofill" /\ SameField(p, q)
            \/ n.first # "nofill" /\ q.trail = 2 /\ Modes(q) = Modes(p) \cup {"nobreak", "brind"}
<1> DEFINE F == {"nobreak", "brind"}
           t == 2
           f == IF n.first = "nofill" THEN p ELSE [Term!Set(p, F) EXCEPT !.trail = t]
           s == Term!Sized(f, n)
           o == p.offset
           r == p.offset + Width(p, n)
<1>1. q = Term!Move(s, s.offset, s.offset + Term!lmargin(s))
  BY DEF Term!Pre, Term!pre_HP
<1>2. F \in SUBSET Flags /\ F \cap (Term!ItemFlags \cup {"ibi"}) = F /\ F = {"nobreak", "brind"}
  BY DEF Flags, Term!ItemFlags
<1>3. t \in Int /\ t = 2
  OBVIOUS
<1>4. f = IF n.first = "nofill" THEN p ELSE [Term!Set(p, F) EXCEPT !.trail = t]
  OBVIOUS
<1>5. s = Term!Sized(f, n) /\ o = p.offset /\ r = p.offset + Width(p, n)
      /\ o \in Int /\ r \in Int
  BY WidthInt DEF TermType
<1> HIDE DEF F, t, f, s, o, r
<1>6. /\ Switched(p, f)
      /\ \/ n.first = "nofill" /\ SameField(p, f)
         \/ n.first # "nofill" /\ f.trail = 2 /\ Modes(f) = Modes(p) \cup F
  <2>1. CASE n.first = "nofill"
    <3>1. f = p
      BY <1>4, <2>1
    <3>2. Switched(p, f)
      BY <3>1, SwitchedSelf
    <3>3. SameField(p, f)
      BY <3>1 DEF SameField
    <3> QED BY <2>1, <3>2, <3>3, Zenon
  <2>2. CASE n.first # "nofill"
    <3>1. f = [Term!Set(p, F) EXCEPT !.trail = t] /\ F \in SUBSET Flags /\ t \in Int
      BY <1>2, <1>3, <1>4, <2>2
    <3>2. Switched(p, f)
      BY <3>1, SetTrail
    <3>3. f.trail = t
      BY <3>1, SetTrail
    <3>4. Modes(f) = Modes(p) \cup (F \cap (Term!ItemFlags \cup {"ibi"}))
      BY <3>1, SetTrail
    <3> QED BY <1>2, <1>3, <2>2, <3>2, <3>3, <3>4
  <2> QED BY <2>1, <2>2
<1>7. s.offset = p.offset /\ Term!lmargin(s) = Width(p, n)
  <2>1. Switched(p, f) /\ s = Term!Sized(f, n)
    BY <1>5, <1>6
  <2> QED BY <2>1, FieldWidth
<1>8. q = Term!Move(s, o, r)
  BY <1>1, <1>5, <1>7
<1>9. Fielded(p, f, n, q, o, r)
  <2>1. Switched(p, f) /\ s = Term!Sized(f, n)
    BY <1>5, <1>6
  <2>2. o \in Int /\ r \in Int
    BY <1>5
  <2> QED BY <1>8, <2>1, <2>2, FieldIs
<1>10. \/ n.first = "nofill" /\ SameField(p, q)
       \/ n.first # "nofill" /\ q.trail = 2 /\ Modes(q) = Modes(p) \cup {"nobreak", "brind"}
  BY <1>2, <1>6, <1>9 DEF Fielded, SameField
<1> QED BY <1>5, <1>9, <1>10 DEF Fielded

\* The body of HP without contents is not printed.
LEMMA BodyHPNone ==
  ASSUME NEW p \in TermType, NEW n, n.type = "body", n.tok = "HP", n.first = "none",
         NEW prev, NEW parent, NEW q, q = Term!Pre(p, n, prev, parent)
  PROVE  /\ q \in TermType /\ q.ret = FALSE /\ SameField(p, q)
         /\ SamePlace(p, q) /\ SameStack(p, q) /\ SameRest(p, q) /\ SameLine(p, q)
<1>1. q = [p EXCEPT !.ret = FALSE]
  BY DEF Term!Pre, Term!pre_HP, Term!Return0
<1>2. FALSE \in BOOLEAN
  OBVIOUS
<1> QED BY <1>1, <1>2, RetIs

\* The body of PP.
LEMMA BodyPP ==
  ASSUME NEW p \in TermType, NEW n, n.type = "body", n.tok = "PP",
         NEW prev, NEW parent, NEW q, q = Term!Pre(p, n, prev, parent)
  PROVE  /\ q \in TermType /\ q.ret = p.ret /\ SameRest(p, q) /\ SameStack(p, q)
         /\ SameField(p, q) /\ Moved(p, q, p.offset, p.rm)
<1>1. q = Term!Move(p, p.offset, p.rm)
  BY DEF Term!Pre, Term!pre_PP
<1>2. p.offset \in Int /\ p.rm \in Int
  BY DEF TermType
<1> QED BY <1>1, <1>2, MoveIs

\* The body of SY: text follows after the name.
LEMMA BodySY ==
  ASSUME NEW p \in TermType, NEW n, n.type = "body", n.tok = "SY",
         NEW prev, NEW parent, NEW q, q = Term!Pre(p, n, prev, parent)
  PROVE  /\ q \in TermType /\ q.ret = p.ret /\ SameRest(p, q) /\ Widened(p, q, 4)
         /\ SameField(p, q) /\ Moved(p, q, p.offset + 4, 78)
<1> DEFINE m == Term!SetMargin(p, 4)
           o == p.offset + 4
           r == 78
<1>1. q = Term!Move(m, o, r)
  BY DEF Term!Pre, Term!pre_SY, Term!NameWidth, Term!MaxMargin
<1>2. o \in Int /\ r \in Int /\ o = p.offset + 4 /\ r = 78
  BY DEF TermType
<1>3. /\ m \in TermType /\ Widened(p, m, 4) /\ m.ret = p.ret
      /\ SameField(p, m) /\ SamePlace(p, m) /\ SameRest(p, m) /\ SameLine(p, m)
  BY MarginIs
<1> HIDE DEF m, o, r
<1>4. m \in TermType
  BY <1>3
<1>5. /\ q \in TermType /\ Moved(m, q, o, r) /\ q.ret = m.ret
      /\ SameField(m, q) /\ SameStack(m, q) /\ SameRest(m, q)
  BY <1>1, <1>2, <1>4, MoveIs
<1>6. Widened(p, q, 4)
  BY <1>3, <1>5 DEF Widened, SameStack
<1>7. Moved(p, q, o, r)
  BY <1>3, <1>5 DEF Moved, SameLine
<1>8. SameField(p, q) /\ SameRest(p, q) /\ q.ret = p.ret
  BY <1>3, <1>5 DEF SameField, SameRest
<1> QED BY <1>2, <1>5, <1>6, <1>7, <1>8

\* The body of a section: the header ends, text follows at the indentation.
LEMMA BodySection ==
  ASSUME NEW p \in TermType, NEW n, n.type = "body", n.tok \in Sections,
         NEW prev, NEW parent, NEW q, q = Term!Pre(p, n, prev, parent)
  PROVE  /\ q \in TermType /\ q.ret = p.ret /\ SameRest(p, q) /\ SameStack(p, q)
         /\ Moved(p, q, p.offset, 78)
         /\ q.trail = 0 /\ Modes(q) = Modes(p) \ {"nobreak", "brind"}
<1> DEFINE F == {"nobreak", "brind"}
           f == Term!Clear(p, F)
           o == p.offset
           r == 78
           t == 0
           m == Term!Move(f, o, r)
<1>1. q = [m EXCEPT !.trail = t]
  BY DEF Term!Pre, Term!pre_SH, Term!MaxMargin, Sections
<1>2. F = {"nobreak", "brind"} /\ t = 0 /\ t \in Int
  OBVIOUS
<1>3. r = 78 /\ o = p.offset /\ o \in Int /\ r \in Int
  BY DEF TermType
<1>4. f = Term!Clear(p, F) /\ m = Term!Move(f, o, r)
  OBVIOUS
<1> HIDE DEF F, f, o, r, m, t
<1>5. /\ f \in TermType /\ f.ret = p.ret /\ Modes(f) = Modes(p) \ F
      /\ SameStack(p, f) /\ SameRest(p, f) /\ SameLine(p, f)
  BY <1>4, ClearIs
<1>6. f \in TermType
  BY <1>5
<1>7. /\ m \in TermType /\ Moved(f, m, o, r) /\ m.ret = f.ret
      /\ SameField(f, m) /\ SameStack(f, m) /\ SameRest(f, m)
  BY <1>3, <1>4, <1>6, MoveIs
<1>8. m \in TermType
  BY <1>7
<1>9. /\ q \in TermType /\ Modes(q) = Modes(m) /\ q.ret = m.ret /\ q.trail = t
      /\ SamePlace(m, q) /\ SameStack(m, q) /\ SameRest(m, q) /\ SameLine(m, q)
  BY <1>1, <1>2, <1>8, TrailIs
<1>10. Modes(q) = Modes(p) \ {"nobreak", "brind"}
  BY <1>2, <1>5, <1>7, <1>9 DEF SameField
<1>11. Moved(p, q, o, r)
  BY <1>5, <1>7, <1>9 DEF Moved, SameLine, SamePlace
<1>12. q.ret = p.ret /\ SameRest(p, q) /\ SameStack(p, q)
  BY <1>5, <1>7, <1>9 DEF SameRest, SameStack
<1> QED BY <1>2, <1>3, <1>9, <1>10, <1>11, <1>12

\* The parts of UR are not laid out.
LEMMA BodyUR ==
  ASSUME NEW p, NEW n, n.type = "body", n.tok = "UR",
         NEW prev, NEW parent, NEW q, q = Term!Pre(p, n, prev, parent)
  PROVE  q = p
BY DEF Term!Pre, Term!pre_UR

\* The body of RS: the indentation grows, and a default width is pushed.
Pushed(p, q, a) ==
  /\ q.offset = p.offset + a /\ q.sz = p.sz + 1
  /\ q.cur = IF p.sz + 1 < MaxMargins THEN p.sz + 1 ELSE p.cur
  /\ q.lmargin = [p.lmargin EXCEPT ![q.cur] = 7]

\* pre_RS() for a body: the offset grows by the width, and the width of the inner
\* paragraphs starts at the default again.
LEMMA BodyRS ==
  ASSUME NEW p \in TermType, NEW n, n.w \in Seq(Int), n.type = "body", n.tok = "RS", p.sz >= 0,
         NEW prev, NEW parent, NEW q, q = Term!Pre(p, n, prev, parent)
  PROVE  /\ q \in TermType /\ q.ret = p.ret /\ SameRest(p, q) /\ SameField(p, q)
         /\ Pushed(p, q, q.offset - p.offset)
         /\ q.offset = p.offset + Term!Clip(p, IF n.w = <<>> THEN p.lmargin[p.cur] ELSE n.w[1])
         /\ Moved(p, q, q.offset, 78)
<1> DEFINE v == IF n.w = <<>> THEN p.lmargin[p.cur] ELSE n.w[1]
           a == Term!Clip(p, v)
           o == p.offset + a
           z == p.sz + 1
           r == 78
           f == [p EXCEPT !.offset = o, !.sz = z]
           m == Term!Move(f, o, r)
           c == IF m.sz < MaxMargins THEN m.sz ELSE m.cur
           d == [m EXCEPT !.cur = c]
<1>1. q = Term!SetMargin(d, 7)
  BY DEF Term!Pre, Term!pre_RS, Term!ParWidth, Term!lmargin, Term!MaxMargin
<1>2. v \in Int /\ a \in Int /\ o \in Int /\ z \in Int
  <2>1. p.offset \in Int /\ p.sz \in Int /\ p.lmargin[p.cur] \in Int
    BY DEF TermType
  <2>2. v \in Int
    <3>1. CASE n.w # <<>>
      <4>1. 1 \in 1..Len(n.w)
        BY <3>1, NonEmpty
      <4> QED BY <3>1, <4>1, SeqElem
    <3> QED BY <2>1, <3>1
  <2> HIDE DEF v
  <2>3. a \in Int
    BY <2>1, <2>2 DEF Term!Clip, Term!DefIndent
  <2> QED BY <2>1, <2>2, <2>3
<1>3. o = p.offset + Term!Clip(p, IF n.w = <<>> THEN p.lmargin[p.cur] ELSE n.w[1])
  OBVIOUS
<1>4. z = p.sz + 1 /\ z >= 0 /\ r = 78 /\ r \in Int /\ o = p.offset + (o - p.offset)
  BY <1>2 DEF TermType
<1>5. f = [p EXCEPT !.offset = o, !.sz = z] /\ m = Term!Move(f, o, r)
      /\ c = (IF m.sz < MaxMargins THEN m.sz ELSE m.cur)
      /\ d = [m EXCEPT !.cur = c]
  OBVIOUS
<1> HIDE DEF v, a, o, z, r, f, m, c, d
<1>6. f \in TermType /\ f.offset = o /\ f.sz = z /\ f.ret = p.ret /\ f.cur = p.cur
      /\ f.lmargin = p.lmargin
  BY <1>2, <1>5 DEF TermType
<1>7. SameField(p, f) /\ SamePlace(p, f) /\ SameRest(p, f) /\ SameLine(p, f)
  BY <1>5 DEF TermType, SameField, Modes, SamePlace, SameRest, SameLine
<1>8. /\ m \in TermType /\ Moved(f, m, o, r) /\ m.ret = f.ret
      /\ SameField(f, m) /\ SameStack(f, m) /\ SameRest(f, m)
  <2>1. f \in TermType
    BY <1>6
  <2>2. o \in Int
    BY <1>2
  <2>3. r \in Int
    BY <1>4
  <2>4. m = Term!Move(f, o, r)
    BY <1>5
  <2> QED BY <2>1, <2>2, <2>3, <2>4, MoveIs
<1>9. m \in TermType /\ m.sz = z /\ m.cur = p.cur /\ m.cur \in 0..(MaxMargins - 1)
  BY <1>6, <1>8 DEF SameStack, TermType
<1>10. c \in 0..(MaxMargins - 1) /\ c = (IF z < MaxMargins THEN z ELSE p.cur)
  BY <1>2, <1>4, <1>5, <1>9, FormatAssumption
<1>11. d \in TermType /\ d.cur = c /\ d.offset = m.offset /\ d.lmargin = m.lmargin
       /\ d.sz = m.sz /\ d.ret = m.ret
  BY <1>5, <1>9, <1>10 DEF TermType
<1>12. SameField(m, d) /\ SamePlace(m, d) /\ SameRest(m, d) /\ SameLine(m, d)
  BY <1>5, <1>9 DEF TermType, SameField, Modes, SamePlace, SameRest, SameLine
<1>13. /\ q \in TermType /\ Widened(d, q, 7) /\ q.ret = d.ret
       /\ SameField(d, q) /\ SamePlace(d, q) /\ SameRest(d, q) /\ SameLine(d, q)
  <2>1. d \in TermType
    BY <1>11
  <2>2. 7 \in Int
    OBVIOUS
  <2> QED BY <1>1, <2>1, <2>2, MarginIs
<1>14. q.offset = o /\ q.sz = z /\ q.cur = c /\ q.lmargin = [p.lmargin EXCEPT ![c] = 7]
  BY <1>6, <1>8, <1>11, <1>13 DEF Widened, SameStack
<1>15. Pushed(p, q, q.offset - p.offset)
  BY <1>4, <1>10, <1>14 DEF Pushed
<1>16. SameField(p, q) /\ SameRest(p, q) /\ q.ret = p.ret
  BY <1>6, <1>7, <1>8, <1>11, <1>12, <1>13 DEF SameField, SameRest
<1>17. Moved(p, q, o, r)
  BY <1>7, <1>8, <1>12, <1>13 DEF Moved, SameLine, SamePlace
<1> QED BY <1>3, <1>4, <1>13, <1>14, <1>15, <1>16, <1>17

-----------------------------------------------------------------------------
\* Text was written before the margins moved to o and r.
Shifted(p, q, o, r) ==
  /\ q \in TermType /\ q.ret = p.ret /\ q.torn = p.torn /\ q.col = FALSE
  /\ q.off = o % 4096 /\ q.rm = r % 4096
  /\ SameStack(p, q) /\ SameRest(p, q)

\* The margins move after the end of the line.
LEMMA NewlnMove ==
  ASSUME NEW p \in TermType, NEW o \in Int, NEW r \in Int,
         NEW q, q = Term!Move(Term!Newln(p), o, r)
  PROVE  Shifted(p, q, o, r) /\ SameField(p, q)
<1> DEFINE m == Term!Newln(p)
<1>1. m \in TermType /\ Written(p, m)
  BY NewlnIs
<1>2. q = Term!Move(m, o, r)
  OBVIOUS
<1> HIDE DEF m
<1>3. m \in TermType
  BY <1>1
<1>4. /\ q \in TermType /\ Moved(m, q, o, r) /\ q.ret = m.ret
      /\ SameField(m, q) /\ SameStack(m, q) /\ SameRest(m, q)
  BY <1>2, <1>3, MoveIs
<1>5. SameField(p, q) /\ SameStack(p, q) /\ SameRest(p, q)
  BY <1>1, <1>4 DEF Written, SameField, SameStack, SameRest
<1> QED BY <1>1, <1>4, <1>5 DEF Shifted, Moved, Written

\* The same with a field that ends there.
LEMMA EndField ==
  ASSUME NEW p \in TermType, NEW o \in Int, NEW r \in Int, NEW F, NEW q,
         q = [Term!Move(Term!Clear(Term!Newln(p), F), o, r) EXCEPT !.trail = 0]
  PROVE  Shifted(p, q, o, r) /\ q.trail = 0 /\ Modes(q) = Modes(p) \ F
<1> DEFINE m == Term!Newln(p)
           c == Term!Clear(m, F)
           v == Term!Move(c, o, r)
           t == 0
<1>1. m \in TermType /\ Written(p, m)
  BY NewlnIs
<1>2. q = [v EXCEPT !.trail = t] /\ t = 0 /\ t \in Int
  OBVIOUS
<1>3. v = Term!Move(c, o, r) /\ c = Term!Clear(m, F)
  OBVIOUS
<1> HIDE DEF m, c, v, t
<1>4. m \in TermType
  BY <1>1
<1>5. /\ c \in TermType /\ c.trail = m.trail /\ c.ret = m.ret /\ Modes(c) = Modes(m) \ F
      /\ SamePlace(m, c) /\ SameStack(m, c) /\ SameRest(m, c) /\ SameLine(m, c)
  BY <1>3, <1>4, ClearIs
<1>6. c \in TermType
  BY <1>5
<1>7. /\ v \in TermType /\ Moved(c, v, o, r) /\ v.ret = c.ret
      /\ SameField(c, v) /\ SameStack(c, v) /\ SameRest(c, v)
  BY <1>3, <1>6, MoveIs
<1>8. v \in TermType
  BY <1>7
<1>9. /\ q \in TermType /\ q.trail = t /\ Modes(q) = Modes(v) /\ q.ret = v.ret
      /\ SamePlace(v, q) /\ SameStack(v, q) /\ SameRest(v, q) /\ SameLine(v, q)
  <2>1. t \in Int
    BY <1>2
  <2>2. q = [v EXCEPT !.trail = t]
    BY <1>2
  <2> QED BY <1>8, <2>1, <2>2, TrailIs
<1>10. SameStack(p, q) /\ SameRest(p, q) /\ q.ret = p.ret
  BY <1>1, <1>5, <1>7, <1>9 DEF Written, SameStack, SameRest
<1>11. q.torn = p.torn /\ q.col = FALSE /\ q.off = o % 4096 /\ q.rm = r % 4096
  BY <1>1, <1>5, <1>7, <1>9 DEF Written, Moved, SameLine, SamePlace
<1>12. q.trail = 0
  BY <1>2, <1>9
<1>13. Modes(q) = Modes(p) \ F
  BY <1>1, <1>5, <1>7, <1>9 DEF Written, SameField
<1> QED BY <1>9, <1>10, <1>11, <1>12, <1>13 DEF Shifted

-----------------------------------------------------------------------------
\* print_man_node(): what sticks out of a hanged paragraph in no-fill mode.
Sticks(n, parent) ==
  parent.tok = "HP" /\ parent.type = "body" /\ parent.count = 1 /\ n.nofill = TRUE

\* The end of print_man_node(): in a hanged paragraph an unfilled line stays in the field.
LEMMA HangIs ==
  ASSUME NEW p \in TermType, NEW n, n.nofill \in BOOLEAN, NEW parent,
         NEW q, q = Term!Hang(p, n, parent)
  PROVE  IF Sticks(n, parent) THEN Shifted(p, q, p.rm, 78) /\ SameField(p, q) ELSE q = p
<1>1. CASE Sticks(n, parent)
  <2> DEFINE r == 78
  <2>1. n.nofill
    BY <1>1 DEF Sticks
  <2>2. q = Term!Move(Term!Newln(p), p.rm, r)
    BY <1>1, <2>1 DEF Sticks, Term!Hang, Term!MaxMargin
  <2>3. p.rm \in Int /\ r \in Int /\ r = 78
    BY DEF TermType
  <2> HIDE DEF r
  <2>4. Shifted(p, q, p.rm, r) /\ SameField(p, q)
    BY <2>2, <2>3, NewlnMove
  <2> QED BY <1>1, <2>3, <2>4
<1>2. CASE ~Sticks(n, parent)
  <2>1. parent.tok # "HP" \/ parent.type # "body" \/ parent.count # 1 \/ ~n.nofill
    <3>1. n.nofill => n.nofill = TRUE
      OBVIOUS
    <3> QED BY <1>2, <3>1 DEF Sticks
  <2>2. q = p
    BY <2>1, Zenon DEF Term!Hang
  <2> QED BY <1>2, <2>2
<1> QED BY <1>1, <1>2

-----------------------------------------------------------------------------
\* Elements: an example ends the field of a hanged paragraph it is in.
ElemPlain(p, q) == SameField(p, q) /\ SamePlace(p, q)
\* pre_in() moves the left margin: to 0, by 5 or back to mt->offset.
ElemMoves(p, q) ==
  /\ SameField(p, q) /\ q.rm = p.rm % 4096
  /\ q.off \in {0, 5, p.offset % 4096}
  /\ q.off = p.offset % 4096 => p.offset <= 1000 \/ q.off \in {0, 5}
\* pre_literal() in an .HP paragraph ends the field.
ElemEnds(p, q) ==
  /\ Modes(q) = Modes(p) \ {"nobreak", "brind"} /\ q.trail = 0
  /\ p.rm < 78 /\ q.off = p.rm % 4096 /\ q.rm = 78
\* What an element does when it is entered: print_man_node() and its pre handler.
ElemStep(p, q, n, parent) ==
  /\ q \in TermType /\ q.torn = p.torn /\ SameStack(p, q)
  /\ n.tok # "PD" => SameRest(p, q)
  /\ \/ ElemPlain(p, q)
     \/ n.tok = "in" /\ ElemMoves(p, q)
     \/ n.tok \in {"EX", "EE"} /\ parent = "HP" /\ ElemEnds(p, q)

\* Nothing changes when nothing is done.
LEMMA SameIs ==
  ASSUME NEW p
  PROVE  SameField(p, p) /\ SamePlace(p, p) /\ SameStack(p, p) /\ SameRest(p, p) /\ SameLine(p, p)
BY DEF SameField, SamePlace, SameStack, SameRest, SameLine

\* The return value of a handler does not touch what it did.
LEMMA Returns ==
  ASSUME NEW p \in TermType, NEW n, NEW parent, NEW m, ElemStep(p, m, n, parent),
         NEW q, q = Term!Return0(m)
  PROVE  ElemStep(p, q, n, parent)
<1>1. m \in TermType /\ FALSE \in BOOLEAN /\ q = [m EXCEPT !.ret = FALSE]
  BY DEF ElemStep, Term!Return0
<1>2. /\ q \in TermType /\ SameField(m, q)
      /\ SamePlace(m, q) /\ SameStack(m, q) /\ SameRest(m, q) /\ SameLine(m, q)
  BY <1>1, RetIs
<1>3. q.torn = p.torn /\ SameStack(p, q)
  BY <1>2 DEF ElemStep, SameLine, SameStack
<1>4. n.tok # "PD" => SameRest(p, q)
  BY <1>2 DEF ElemStep, SameRest
<1>5. q.off = m.off /\ q.rm = m.rm /\ q.trail = m.trail /\ Modes(q) = Modes(m)
  BY <1>2 DEF SamePlace, SameField
<1>6. CASE ElemPlain(p, m)
  <2>1. ElemPlain(p, q)
    BY <1>5, <1>6 DEF ElemPlain, SameField, SamePlace
  <2> QED BY <1>2, <1>3, <1>4, <2>1 DEF ElemStep
<1>7. CASE n.tok = "in" /\ ElemMoves(p, m)
  <2>1. ElemMoves(p, q)
    BY <1>5, <1>7 DEF ElemMoves, SameField
  <2> QED BY <1>2, <1>3, <1>4, <1>7, <2>1 DEF ElemStep
<1>8. CASE n.tok \in {"EX", "EE"} /\ parent = "HP" /\ ElemEnds(p, m)
  <2>1. ElemEnds(p, q)
    BY <1>5, <1>8 DEF ElemEnds
  <2> QED BY <1>2, <1>3, <1>4, <1>8, <2>1 DEF ElemStep
<1>9. \/ ElemPlain(p, m)
      \/ n.tok = "in" /\ ElemMoves(p, m)
      \/ n.tok \in {"EX", "EE"} /\ parent = "HP" /\ ElemEnds(p, m)
  BY DEF ElemStep
<1> QED BY <1>6, <1>7, <1>8, <1>9

\* Elements that just print their arguments.
LEMMA ElemWord ==
  ASSUME NEW p \in TermType, NEW n, NEW parent, NEW q, q = Term!term_word(p)
  PROVE  ElemStep(p, q, n, parent)
<1>1. /\ q \in TermType /\ q.torn = p.torn
      /\ SameField(p, q) /\ SamePlace(p, q) /\ SameStack(p, q) /\ SameRest(p, q)
  BY WordIs
<1> QED BY <1>1 DEF ElemStep, ElemPlain

\* pre_PD() sets the distance of paragraphs, nothing else.
LEMMA ElemPD ==
  ASSUME NEW p \in TermType, NEW n, n.w \in Seq(Int), n.tok = "PD", NEW parent,
         NEW q, q = Term!pre_PD(p, n)
  PROVE  ElemStep(p, q, n, parent)
<1> DEFINE d == IF n.w = <<>> THEN 1 ELSE n.w[1]
<1>1. q = [p EXCEPT !.pardist = d]
  BY DEF Term!pre_PD
<1>2. d \in Int
  <2>1. CASE n.w # <<>>
    <3>1. 1 \in 1..Len(n.w)
      BY <2>1, NonEmpty
    <3> QED BY <2>1, <3>1, SeqElem
  <2> QED BY <2>1
<1> HIDE DEF d
<1>3. q \in TermType
  BY <1>1, <1>2 DEF TermType
<1>4. q.torn = p.torn /\ SameStack(p, q)
  BY <1>1 DEF TermType, SameStack
<1>5. SameField(p, q) /\ SamePlace(p, q)
  BY <1>1 DEF TermType, SameField, Modes, SamePlace
<1> QED BY <1>3, <1>4, <1>5 DEF ElemStep, ElemPlain

\* pre_in() moves the left margin, and nothing else.
LEMMA ElemIn ==
  ASSUME NEW p \in TermType, NEW n, n.w \in {<<>>, << 0 >>}, n.tok = "in", NEW parent,
         NEW q, q = Term!pre_in(p, n)
  PROVE  ElemStep(p, q, n, parent)
<1> DEFINE x == IF n.w = <<>> THEN p.offset ELSE n.w[1]
           o == IF x > 1000 THEN 5 ELSE x
           r == p.rm
<1>1. q = Term!Move(Term!Newln(p), o, r)
  BY DEF Term!pre_in, Term!ShrtMax, Term!DefIndent
<1>2. p.offset \in Int /\ r \in Int /\ r = p.rm
  BY DEF TermType
<1>3. x = p.offset \/ x = 0
  <2>1. << 0 >> # <<>> /\ << 0 >>[1] = 0
    OBVIOUS
  <2> QED BY <2>1
<1>4. o \in Int /\ (o = 5 \/ o = 0 \/ (o = p.offset /\ p.offset <= 1000))
  BY <1>2, <1>3
<1> HIDE DEF x, o, r
<1>5. Shifted(p, q, o, r) /\ SameField(p, q)
  <2>1. o \in Int
    BY <1>4
  <2>2. r \in Int
    BY <1>2
  <2> QED BY <1>1, <2>1, <2>2, NewlnMove
<1>6. q.off = o % 4096 /\ q.rm = p.rm % 4096
  BY <1>2, <1>5 DEF Shifted
<1>7. q.off \in {0, 5, p.offset % 4096}
  BY <1>4, <1>6
<1>8. q.off = p.offset % 4096 => p.offset <= 1000 \/ q.off \in {0, 5}
  BY <1>4, <1>6
<1>9. q \in TermType /\ q.torn = p.torn /\ SameStack(p, q) /\ SameRest(p, q)
  BY <1>5 DEF Shifted
<1>10. ElemMoves(p, q)
  BY <1>5, <1>6, <1>7, <1>8 DEF ElemMoves
<1> QED BY <1>9, <1>10 DEF ElemStep

\* pre_literal() completes the line, and the field if the parent is .HP.
LEMMA ElemLiteral ==
  ASSUME NEW p \in TermType, NEW n, n.tok \in {"EX", "EE"}, NEW parent,
         NEW q, q = Term!pre_literal(p, parent)
  PROVE  ElemStep(p, q, n, parent)
<1> DEFINE m == Term!Newln(p)
<1>1. m \in TermType /\ Written(p, m)
  BY NewlnIs
<1>2. CASE parent # "HP" \/ m.rm >= 78
  <2>1. q = m
    BY <1>2 DEF Term!pre_literal, Term!MaxMargin
  <2> QED BY <1>1, <2>1 DEF Written, ElemStep, ElemPlain
<1>3. CASE ~(parent # "HP" \/ m.rm >= 78)
  <2> DEFINE F == {"nobreak", "brind"}
             o == m.rm
             r == 78
             t == 0
             v == Term!Move(m, o, r)
             c == Term!Clear(v, F)
  <2>1. q = [c EXCEPT !.trail = t]
    BY <1>3 DEF Term!pre_literal, Term!MaxMargin
  <2>2. v = Term!Move(Term!Newln(p), o, r) /\ c = Term!Clear(v, F)
    OBVIOUS
  <2>3. F = {"nobreak", "brind"} /\ o = p.rm /\ o = m.rm /\ r = 78 /\ t = 0
    BY <1>1 DEF Written, SamePlace
  <2>4. o \in Int /\ r \in Int /\ t \in Int
    BY <2>3 DEF TermType
  <2> HIDE DEF m, F, o, r, t, v, c
  <2>5. Shifted(p, v, o, r) /\ SameField(p, v)
    <3>1. v = Term!Move(Term!Newln(p), o, r)
      BY <2>2
    <3>2. o \in Int
      BY <2>4
    <3>3. r \in Int
      BY <2>4
    <3> QED BY <3>1, <3>2, <3>3, NewlnMove
  <2>6. v \in TermType
    BY <2>5 DEF Shifted
  <2>7. /\ c \in TermType /\ c.trail = v.trail /\ c.ret = v.ret /\ Modes(c) = Modes(v) \ F
        /\ SamePlace(v, c) /\ SameStack(v, c) /\ SameRest(v, c) /\ SameLine(v, c)
    BY <2>2, <2>6, ClearIs
  <2>8. c \in TermType
    BY <2>7
  <2>9. /\ q \in TermType /\ q.trail = t /\ Modes(q) = Modes(c) /\ q.ret = c.ret
        /\ SamePlace(c, q) /\ SameStack(c, q) /\ SameRest(c, q) /\ SameLine(c, q)
    BY <2>1, <2>4, <2>8, TrailIs
  <2>10. q.torn = p.torn /\ SameStack(p, q) /\ SameRest(p, q)
    BY <2>5, <2>7, <2>9 DEF Shifted, SameStack, SameRest, SameLine
  <2>11. Modes(q) = Modes(p) \ {"nobreak", "brind"} /\ q.trail = 0
    BY <2>3, <2>5, <2>7, <2>9 DEF SameField
  <2>12. q.off = p.rm % 4096 /\ q.rm = 78
    <3>1. q.off = o % 4096 /\ q.rm = r % 4096
      BY <2>5, <2>7, <2>9 DEF Shifted, SamePlace
    <3> QED BY <2>3, <3>1
  <2>13. parent = "HP"
    BY <1>3
  <2>14. p.rm < 78
    BY <1>3, <2>3, <2>4
  <2> QED BY <2>9, <2>10, <2>11, <2>12, <2>13, <2>14 DEF ElemStep, ElemEnds
<1> QED BY <1>2, <1>3

\* Entering an element, for every macro.
LEMMA ElemIsEntered ==
  ASSUME NEW p \in TermType, NEW n, n.type = "elem", n.tok \in Elements, n.w \in {<<>>, << 0 >>},
         n.w \in Seq(Int),
         NEW prev, NEW parent, NEW q, q = Term!Pre(p, n, prev, parent)
  PROVE  ElemStep(p, q, n, parent)
<1>1. CASE n.tok = "B"
  <2>1. q = p
    BY <1>1 DEF Term!Pre
  <2> QED BY <2>1, SameIs DEF ElemStep, ElemPlain
<1>2. CASE n.tok \in {"BI", "OP", "MR"}
  <2> DEFINE m == Term!term_word(p)
  <2>1. q = Term!Return0(m)
    BY <1>2 DEF Term!Pre, Term!pre_alternate, Term!pre_OP, Term!pre_MR
  <2>2. ElemStep(p, m, n, parent)
    BY ElemWord
  <2> QED BY <2>1, <2>2, Returns
<1>3. CASE n.tok = "PD"
  <2> DEFINE m == Term!pre_PD(p, n)
  <2>1. q = Term!Return0(m)
    BY <1>3 DEF Term!Pre
  <2>2. ElemStep(p, m, n, parent)
    BY <1>3, ElemPD
  <2> QED BY <2>1, <2>2, Returns
<1>4. CASE n.tok = "in"
  <2> DEFINE m == Term!pre_in(p, n)
  <2>1. q = Term!Return0(m)
    BY <1>4 DEF Term!Pre
  <2>2. ElemStep(p, m, n, parent)
    BY <1>4, ElemIn
  <2> QED BY <2>1, <2>2, Returns
<1>5. CASE n.tok \in {"EX", "EE"}
  <2> DEFINE m == Term!pre_literal(p, parent)
  <2>1. q = Term!Return0(m)
    BY <1>5 DEF Term!Pre
  <2>2. ElemStep(p, m, n, parent)
    BY <1>5, ElemLiteral
  <2> QED BY <2>1, <2>2, Returns
<1> QED BY <1>1, <1>2, <1>3, <1>4, <1>5 DEF Elements

-----------------------------------------------------------------------------
\* A break in a hanged paragraph ends its field, and text goes on after its width.
BreakEnds(p, q) ==
  /\ "brind" \in Modes(p)
  /\ Modes(q) = Modes(p) \ {"nobreak", "brind"} /\ q.trail = 0
  /\ q.off = p.rm /\ q.rm = 78
\* What .br and .sp do (roff_term_pre_br()).
BreakStep(p, q) ==
  /\ q \in TermType /\ q.torn = p.torn /\ q.col = FALSE /\ SameStack(p, q) /\ SameRest(p, q)
  /\ ElemPlain(p, q) \/ BreakEnds(p, q)

\* roff_term_pre_br(): .br ends the field that hangs.
LEMMA BreakIs ==
  ASSUME NEW p \in TermType, p.col = FALSE, NEW q, q = Term!roff_term_pre_br(p)
  PROVE  BreakStep(p, q)
<1>1. Term!term_newln(p) = p
  BY DEF Term!term_newln
<1>2. CASE "brind" \notin p.fl
  <2>1. q = p
    BY <1>1, <1>2 DEF Term!roff_term_pre_br
  <2> QED BY <2>1, SameIs DEF BreakStep, ElemPlain
<1>3. CASE "brind" \in p.fl
  <2> DEFINE F == {"nobreak", "brind"}
             c == Term!Clear(p, F)
             r == 78
             t == 0
  <2>1. q = [c EXCEPT !.off = p.rm, !.rm = r, !.trail = t]
    BY <1>1, <1>3 DEF Term!roff_term_pre_br, Term!MaxMargin
  <2>2. r \in Nat /\ t \in Int /\ r = 78 /\ t = 0 /\ F = {"nobreak", "brind"}
    OBVIOUS
  <2>3. c = Term!Clear(p, F)
    OBVIOUS
  <2> HIDE DEF F, c, r, t
  <2>4. /\ c \in TermType /\ c.trail = p.trail /\ c.ret = p.ret /\ Modes(c) = Modes(p) \ F
        /\ SamePlace(p, c) /\ SameStack(p, c) /\ SameRest(p, c) /\ SameLine(p, c)
    BY <2>3, ClearIs
  <2>5. p.rm \in Nat /\ c \in TermType
    BY <2>4 DEF TermType
  <2>6. q \in TermType /\ q.off = p.rm /\ q.rm = r /\ q.trail = t /\ q.fl = c.fl
    BY <2>1, <2>2, <2>5 DEF TermType
  <2>7. SameStack(c, q) /\ SameRest(c, q) /\ SameLine(c, q)
    BY <2>1, <2>5 DEF TermType, SameStack, SameRest, SameLine
  <2>8. SameStack(p, q) /\ SameRest(p, q) /\ q.torn = p.torn /\ q.col = FALSE
    BY <2>4, <2>7 DEF SameStack, SameRest, SameLine
  <2>9. Modes(q) = Modes(p) \ {"nobreak", "brind"}
    BY <2>2, <2>4, <2>6 DEF Modes
  <2>11. "brind" \in Modes(p)
    BY <1>3 DEF Modes, Term!ItemFlags
  <2>10. BreakEnds(p, q)
    BY <2>2, <2>6, <2>9, <2>11 DEF BreakEnds
  <2> QED BY <2>6, <2>8, <2>10 DEF BreakStep
<1> QED BY <1>2, <1>3

\* term_flushln(): the text is written, the line may go on.
LEMMA FlushlnIs ==
  ASSUME NEW p \in TermType, NEW q, q = Term!term_flushln(p)
  PROVE  /\ q \in TermType /\ q.torn = p.torn /\ q.ret = p.ret
         /\ SameField(p, q) /\ SamePlace(p, q) /\ SameStack(p, q) /\ SameRest(p, q)
<1> DEFINE c == p.col /\ "nobreak" \in p.fl
           f == p.fl \ {"nopad"}
           m == [p EXCEPT !.col = c]
<1>1. c \in BOOLEAN
  OBVIOUS
<1>2. f \in SUBSET Flags
  BY DEF TermType
<1>3. q = [m EXCEPT !.fl = f]
  BY DEF Term!term_flushln
<1>4. f \cap (Term!ItemFlags \cup {"ibi"}) = Modes(p)
  BY DEF Modes, Term!ItemFlags
<1> HIDE DEF c, f
<1>5. m \in TermType /\ SamePlace(p, m) /\ SameStack(p, m) /\ SameRest(p, m)
      /\ m.trail = p.trail /\ m.torn = p.torn /\ m.ret = p.ret
  BY <1>1, LineIs DEF SameField
<1> HIDE DEF m
<1>6. q \in TermType /\ q.fl = f /\ q.trail = m.trail /\ q.ret = m.ret
      /\ SamePlace(m, q) /\ SameStack(m, q) /\ SameRest(m, q) /\ SameLine(m, q)
  BY <1>2, <1>3, <1>5, FlagsAre
<1>7. SameField(p, q)
  BY <1>4, <1>5, <1>6 DEF SameField, Modes
<1>8. SamePlace(p, q) /\ SameStack(p, q) /\ SameRest(p, q)
  BY <1>5, <1>6 DEF SamePlace, SameStack, SameRest
<1> QED BY <1>5, <1>6, <1>7, <1>8 DEF SameLine

\* Steps that only change the text.
Plainly(p, q) ==
  /\ q \in TermType /\ q.torn = p.torn
  /\ SameField(p, q) /\ SamePlace(p, q) /\ SameStack(p, q) /\ SameRest(p, q)

\* Two requests that change neither field nor margins do not change them together.
LEMMA PlainlyTwice ==
  ASSUME NEW p, NEW m, NEW q, Plainly(p, m), Plainly(m, q)
  PROVE  Plainly(p, q)
BY DEF Plainly, SameField, SamePlace, SameStack, SameRest

\* term_newln() is one of these,
LEMMA PlainNewln ==
  ASSUME NEW p \in TermType, NEW q, q = Term!Newln(p)
  PROVE  Plainly(p, q) /\ q.col = FALSE
BY NewlnIs DEF Written, Plainly

\* and term_word(),
LEMMA PlainWord ==
  ASSUME NEW p \in TermType, NEW q, q = Term!term_word(p)
  PROVE  Plainly(p, q)
BY WordIs DEF Plainly

\* and term_flushln(),
LEMMA PlainFlush ==
  ASSUME NEW p \in TermType, NEW q, q = Term!term_flushln(p)
  PROVE  Plainly(p, q)
BY FlushlnIs DEF Plainly

\* and switching centering on,
LEMMA PlainSet ==
  ASSUME NEW p \in TermType, NEW q, q = Term!Set(p, {"center"})
  PROVE  Plainly(p, q)
<1> DEFINE F == {"center"}
<1>1. F \in SUBSET Flags /\ F \cap (Term!ItemFlags \cup {"ibi"}) = {}
  BY DEF Flags, Term!ItemFlags
<1>2. q = Term!Set(p, F)
  OBVIOUS
<1> HIDE DEF F
<1>3. /\ q \in TermType /\ q.trail = p.trail /\ q.ret = p.ret
      /\ Modes(q) = Modes(p) \cup (F \cap (Term!ItemFlags \cup {"ibi"}))
      /\ SamePlace(p, q) /\ SameStack(p, q) /\ SameRest(p, q) /\ SameLine(p, q)
  <2>1. F \in SUBSET Flags
    BY <1>1
  <2> QED BY <1>2, <2>1, SetIs
<1>4. Modes(q) = Modes(p)
  BY <1>1, <1>3
<1> QED BY <1>3, <1>4 DEF Plainly, SameField, SameLine

\* and switching it off (roff_term_pre_ce()),
LEMMA PlainClear ==
  ASSUME NEW p \in TermType, NEW q, q = Term!Clear(p, {"center", "right"})
  PROVE  Plainly(p, q)
<1>1. /\ q \in TermType /\ q.trail = p.trail /\ q.ret = p.ret
      /\ Modes(q) = Modes(p) \ {"center", "right"}
      /\ SamePlace(p, q) /\ SameStack(p, q) /\ SameRest(p, q) /\ SameLine(p, q)
  BY ClearIs
<1>2. Modes(q) = Modes(p)
  BY <1>1 DEF Modes, Term!ItemFlags
<1> QED BY <1>1, <1>2 DEF Plainly, SameField, SameLine

\* and doing nothing.
LEMMA PlainSelf ==
  ASSUME NEW p \in TermType
  PROVE  Plainly(p, p)
BY SameIs DEF Plainly

\* The fields of a break step, after other steps.
LEMMA BreakThen ==
  ASSUME NEW p, NEW m, NEW q, BreakStep(p, m), Plainly(m, q)
  PROVE  Plainly(p, q) \/ (BreakEnds(p, q) /\ q \in TermType /\ q.torn = p.torn
                           /\ SameStack(p, q) /\ SameRest(p, q))
<1>1. q \in TermType /\ q.torn = p.torn
  BY DEF BreakStep, Plainly
<1>2. SameStack(p, q) /\ SameRest(p, q)
  BY DEF BreakStep, Plainly, SameStack, SameRest
<1>3. CASE ElemPlain(p, m)
  BY <1>1, <1>2, <1>3 DEF ElemPlain, Plainly, SameField, SamePlace
<1>4. CASE BreakEnds(p, m)
  <2>1. BreakEnds(p, q)
    BY <1>4 DEF BreakEnds, Plainly, SameField, SamePlace
  <2> QED BY <1>1, <1>2, <2>1
<1> QED BY <1>3, <1>4 DEF BreakStep

\* The leaf n is printed: nothing moves, or a hanged paragraph goes on after its field.
LeafStep(p, q, n, parent) ==
  /\ q \in TermType /\ q.torn = p.torn /\ SameStack(p, q) /\ SameRest(p, q)
  /\ \/ ElemPlain(p, q)
     \/ BreakEnds(p, q)
     \/ Sticks(n, parent) /\ SameField(p, q) /\ q.off = p.rm % 4096 /\ q.rm = 78

\* A break, then something plain, is what a leaf may do.
LEMMA BreakLeaf ==
  ASSUME NEW p \in TermType, NEW n, NEW parent, NEW m, BreakStep(Term!Newln(p), m),
         NEW q, Plainly(m, q)
  PROVE  LeafStep(p, q, n, parent)
<1> DEFINE l == Term!Newln(p)
<1>1. l \in TermType /\ Written(p, l)
  BY NewlnIs
<1>2. l.fl = p.fl
  BY DEF Term!Newln, TermType
<1>3. BreakStep(l, m)
  OBVIOUS
<1> HIDE DEF l
<1>4. Plainly(l, q) \/ (BreakEnds(l, q) /\ q \in TermType /\ q.torn = l.torn
                        /\ SameStack(l, q) /\ SameRest(l, q))
  BY <1>3, BreakThen
<1>5. CASE Plainly(l, q)
  BY <1>1, <1>5 DEF Written, Plainly, LeafStep, ElemPlain, SameField, SamePlace, SameStack, SameRest
<1>6. CASE BreakEnds(l, q) /\ q \in TermType /\ q.torn = l.torn
           /\ SameStack(l, q) /\ SameRest(l, q)
  <2>1. BreakEnds(p, q)
    BY <1>1, <1>2, <1>6 DEF Written, BreakEnds, SameField, SamePlace
  <2>2. SameStack(p, q) /\ SameRest(p, q) /\ q.torn = p.torn
    BY <1>1, <1>6 DEF Written, SameStack, SameRest
  <2> QED BY <1>6, <2>1, <2>2 DEF LeafStep
<1> QED BY <1>4, <1>5, <1>6

\* So is something plain alone.
LEMMA PlainLeaf ==
  ASSUME NEW p, NEW n, NEW parent, NEW q, Plainly(p, q)
  PROVE  LeafStep(p, q, n, parent)
BY DEF LeafStep, ElemPlain, Plainly

-----------------------------------------------------------------------------
\* NextLeaves
\* A node without children was allocated.
LeafShape(m, tok, type) ==
  /\ m.tok = tok /\ m.type = type /\ m.list = "none" /\ m.nofill \in BOOLEAN
  /\ m.nofill = TRUE => nf = TRUE
  /\ DOMAIN m = DOMAIN Node(tok, type)

\* A leaf is allocated with the macro and the type asked for.
LEMMA AllocLeaf ==
  ASSUME nf \in BOOLEAN, NEW tok, NEW type, NEW m, m = Alloc(tok, type)
  PROVE  LeafShape(m, tok, type)
<1> DEFINE f == nf /\ ~InHead /\ tok \notin Paragraphs \cup Sections \cup {"RS"}
           l == type \in {"text", "block", "elem"}
<1>1. m = [Node(tok, type) EXCEPT !.nofill = f, !.line = l]
  BY Zenon DEF Alloc
<1>2. f \in BOOLEAN
  OBVIOUS
<1>3. f = TRUE => nf = TRUE
  BY Zenon
<1> HIDE DEF f, l
<1>4. m.tok = tok /\ m.type = type /\ m.list = "none" /\ m.nofill = f
  BY <1>1 DEF Node
<1>5. DOMAIN m = DOMAIN Node(tok, type)
  BY <1>1
<1> QED BY <1>2, <1>3, <1>4, <1>5 DEF LeafShape

\* NextLeaves: text, equations, tables and roff requests in heads, bodies and elements.
LEMMA LeafIs ==
  ASSUME nf \in BOOLEAN, NEW n \in NextLeaves
  PROVE  /\ n.list = "none" /\ n.tok \in Leaves
         /\ n.type = (IF n.tok \in Requests THEN "elem" ELSE n.tok)
         /\ n.nofill \in BOOLEAN /\ (n.nofill = TRUE => nf = TRUE)
         /\ Top.type \in {"elem", "head", "body"}
<1>2. CASE Top.type = "elem" \/ Top.type = "head"
  <2>1. n = Alloc("text", "text")
    BY <1>2 DEF NextLeaves
  <2>5. LeafShape(n, "text", "text")
    BY <2>1, AllocLeaf
  <2>2. n.tok = "text" /\ n.type = "text" /\ n.list = "none" /\ n.nofill \in BOOLEAN
    BY <2>1, <2>5 DEF LeafShape
  <2>3. n.nofill = TRUE => nf = TRUE
    BY <2>1, <2>5 DEF LeafShape
  <2>4. "text" \in Leaves /\ "text" \notin Requests
    BY DEF Leaves, Requests
  <2> QED BY <1>2, <2>2, <2>3, <2>4
<1>3. CASE Top.type = "body"
  <2>1. PICK tok \in {"text"} \cup
                     {l \in menu.has \cap Leaves :
                        /\ Top.tok \in {"PP", "SH", "SS"} /\ Top.count = 0 => l \notin {"br", "sp"}
                        /\ l = "blank" => nf} :
               n = [Alloc(tok, IF tok \in Requests THEN "elem" ELSE tok) EXCEPT
                      !.nofill = @ /\ tok # "tbl"]
    BY <1>3 DEF NextLeaves
  <2>2. tok \in Leaves
    BY <2>1 DEF Leaves
  <2> DEFINE type == IF tok \in Requests THEN "elem" ELSE tok
             m == Alloc(tok, type)
             f == m.nofill /\ tok # "tbl"
  <2>3. /\ m.tok = tok /\ m.type = type /\ m.list = "none" /\ m.nofill \in BOOLEAN
        /\ m.nofill = TRUE => nf = TRUE
        /\ DOMAIN m = DOMAIN Node(tok, type)
    <3>1. m = Alloc(tok, type)
      OBVIOUS
    <3> HIDE DEF m, type
    <3>2. LeafShape(m, tok, type)
      BY <3>1, AllocLeaf
    <3> QED BY <3>2 DEF LeafShape
  <2>4. f \in BOOLEAN /\ (f = TRUE => nf = TRUE)
    <3> HIDE DEF m
    <3>1. f \in BOOLEAN
      OBVIOUS
    <3>2. f = TRUE => m.nofill = TRUE
      BY <2>3
    <3> QED BY <2>3, <3>1, <3>2
  <2>5. n = [m EXCEPT !.nofill = f]
    BY <2>1
  <2>6. /\ "nofill" \in DOMAIN Node(tok, type)
        /\ {"tok", "type", "list"} \subseteq DOMAIN Node(tok, type)
    BY DEF Node
  <2>7. type = IF tok \in Requests THEN "elem" ELSE tok
    OBVIOUS
  <2> HIDE DEF m, f, type
  <2>8. n.tok = tok /\ n.type = type /\ n.list = "none" /\ n.nofill = f
    BY <2>3, <2>5, <2>6
  <2> QED BY <1>3, <2>2, <2>4, <2>7, <2>8
<1>4. CASE Top.type \notin {"elem", "head", "body"}
  BY <1>4 DEF NextLeaves
<1> QED BY <1>2, <1>3, <1>4

\* A leaf is remembered as something other than a paragraph.
LEMMA LeafTrace ==
  ASSUME nf \in BOOLEAN, NEW n \in NextLeaves
  PROVE  Trace(n) = "other"
<1>1. n.list = "none" /\ n.tok \in Leaves
  BY LeafIs
<1>2. n.tok # "SY" /\ n.tok \notin Sections
  BY <1>1 DEF Leaves, Requests, Sections
<1> QED BY <1>1, <1>2 DEF Trace

\* print_man_node(), for the nodes without children.
LEMMA LeafIsPrinted ==
  ASSUME NEW p \in TermType, NEW n, NEW parent, n.nofill \in BOOLEAN, n.tok \in Leaves,
         n.type = (IF n.tok \in Requests THEN "elem" ELSE n.tok),
         NEW q, q = Term!Leaf(p, n, parent)
  PROVE  LeafStep(p, q, n, parent)
<1>1. CASE n.tok = "text"
  <2> DEFINE m == Term!term_word(p)
  <2>1. n.type = "text"
    BY <1>1 DEF Requests
  <2>2. q = Term!Hang(m, n, parent)
    BY <2>1 DEF Term!Leaf
  <2>3. Plainly(p, m)
    BY PlainWord
  <2> HIDE DEF m
  <2>4. m \in TermType
    BY <2>3 DEF Plainly
  <2>5. IF Sticks(n, parent) THEN Shifted(m, q, m.rm, 78) /\ SameField(m, q) ELSE q = m
    BY <2>2, <2>4, HangIs
  <2>6. CASE Sticks(n, parent)
    <3>1. q.off = p.rm % 4096 /\ q.rm = 78
      BY <2>3, <2>5, <2>6 DEF Plainly, SamePlace, Shifted
    <3>2. SameField(p, q) /\ SameStack(p, q) /\ SameRest(p, q)
      BY <2>3, <2>5, <2>6 DEF Plainly, SameField, SameStack, SameRest, Shifted
    <3>3. q \in TermType /\ q.torn = p.torn
      BY <2>3, <2>5, <2>6 DEF Plainly, Shifted
    <3> QED BY <2>6, <3>1, <3>2, <3>3 DEF LeafStep
  <2>7. CASE ~Sticks(n, parent)
    BY <2>3, <2>5, <2>7, PlainLeaf
  <2> QED BY <2>6, <2>7
<1>2. CASE n.tok = "eqn"
  <2>1. n.type = "eqn"
    BY <1>2 DEF Requests
  <2>2. q = Term!term_word(p)
    BY <2>1 DEF Term!Leaf
  <2> QED BY <2>2, PlainWord, PlainLeaf
<1>3. CASE n.tok = "blank"
  <2>1. n.type = "blank"
    BY <1>3 DEF Requests
  <2>2. q = Term!Newln(p)
    BY <2>1 DEF Term!Leaf, Term!Vspace
  <2> QED BY <2>2, PlainNewln, PlainLeaf
<1>4. CASE n.tok = "tbl"
  <2> DEFINE a == Term!Newln(p)
             b == Term!term_word(a)
  <2>1. n.type = "tbl"
    BY <1>4 DEF Requests
  <2>2. q = Term!Newln(b)
    BY <2>1 DEF Term!Leaf
  <2>3. Plainly(p, a)
    BY PlainNewln
  <2>4. a \in TermType /\ b = Term!term_word(a)
    BY <2>3 DEF Plainly
  <2> HIDE DEF a, b
  <2>5. Plainly(a, b)
    BY <2>4, PlainWord
  <2>6. b \in TermType
    BY <2>5 DEF Plainly
  <2>7. Plainly(b, q)
    BY <2>2, <2>6, PlainNewln
  <2>8. Plainly(p, q)
    BY <2>3, <2>5, <2>7, PlainlyTwice
  <2> QED BY <2>8, PlainLeaf
<1>5. CASE n.tok = "ft"
  <2>1. n.type = "elem"
    BY <1>5 DEF Requests
  <2>2. q = p
    BY <1>5, <2>1 DEF Term!Leaf
  <2> QED BY <2>2, PlainSelf, PlainLeaf
<1>6. CASE n.tok \in {"br", "sp", "nf", "fi"}
  <2> DEFINE l == Term!Newln(p)
             m == Term!roff_term_pre_br(l)
  <2>1. n.type = "elem"
    BY <1>6 DEF Requests
  <2>2. q = Term!Newln(m)
    BY <1>6, <2>1 DEF Term!Leaf, Term!roff_term_pre
  <2>3. l \in TermType /\ l.col = FALSE
    BY PlainNewln DEF Plainly
  <2>4. BreakStep(l, m)
    BY <2>3, BreakIs
  <2>5. m \in TermType
    BY <2>4 DEF BreakStep
  <2>6. Plainly(m, q)
    BY <2>2, <2>5, PlainNewln
  <2> QED BY <2>4, <2>6, BreakLeaf
<1>7. CASE n.tok = "ce"
  <2> DEFINE l == Term!Newln(p)
             m == Term!roff_term_pre_br(l)
             a == Term!Set(m, {"center"})
             b == Term!term_word(a)
             c == Term!term_flushln(b)
             d == Term!Clear(c, {"center", "right"})
  <2>1. n.type = "elem"
    BY <1>7 DEF Requests
  <2>2. q = Term!Newln(d)
    BY <1>7, <2>1 DEF Term!Leaf, Term!roff_term_pre, Term!roff_term_pre_ce
  <2>3. l \in TermType /\ l.col = FALSE
    BY PlainNewln DEF Plainly
  <2>4. BreakStep(l, m)
    BY <2>3, BreakIs
  <2> HIDE DEF m
  <2>5. m \in TermType
    BY <2>4 DEF BreakStep
  <2>6. Plainly(m, a)
    BY <2>5, PlainSet
  <2> HIDE DEF a
  <2>7. a \in TermType
    BY <2>6 DEF Plainly
  <2>8. Plainly(a, b)
    BY <2>7, PlainWord
  <2> HIDE DEF b
  <2>9. b \in TermType
    BY <2>8 DEF Plainly
  <2>10. Plainly(b, c)
    BY <2>9, PlainFlush
  <2> HIDE DEF c
  <2>11. c \in TermType
    BY <2>10 DEF Plainly
  <2>12. Plainly(c, d)
    BY <2>11, PlainClear
  <2> HIDE DEF d
  <2>13. d \in TermType
    BY <2>12 DEF Plainly
  <2>14. Plainly(d, q)
    BY <2>2, <2>13, PlainNewln
  <2>15. Plainly(m, b)
    BY <2>6, <2>8, PlainlyTwice
  <2>16. Plainly(b, d)
    BY <2>10, <2>12, PlainlyTwice
  <2>17. Plainly(b, q)
    BY <2>14, <2>16, PlainlyTwice
  <2>18. Plainly(m, q)
    BY <2>15, <2>17, PlainlyTwice
  <2> QED BY <2>4, <2>18, BreakLeaf
<1> QED BY <1>1, <1>2, <1>3, <1>4, <1>5, <1>6, <1>7 DEF Leaves, Requests

-----------------------------------------------------------------------------
\* The handlers after the children of heads.
LEMMA HeadTP ==
  ASSUME NEW p \in TermType, NEW n, n.type = "head", n.tok \in {"TP", "TQ"},
         NEW q, q = Term!Post(p, n)
  PROVE  q \in TermType /\ Written(p, q)
<1>1. q = Term!Flush(p)
  BY DEF Term!Post, Term!post_TP
<1> QED BY <1>1, FlushIs

\* post_IP() for a head completes the tag.
LEMMA HeadIP ==
  ASSUME NEW p \in TermType, NEW n, n.type = "head", n.tok = "IP",
         NEW q, q = Term!Post(p, n)
  PROVE  Shifted(p, q, p.off, 78) /\ q.trail = 0 /\ Modes(q) = Modes(p) \ {"nobreak"}
<1> DEFINE F == {"nobreak"}
           o == p.off
           r == 78
           t == 0
           m == Term!Flush(p)
           c == Term!Clear(m, F)
           v == Term!Move(c, o, r)
<1>1. q = [v EXCEPT !.trail = t]
  BY DEF Term!Post, Term!post_IP, Term!MaxMargin
<1>2. m \in TermType /\ Written(p, m)
  BY FlushIs
<1>3. o \in Int /\ o = p.off
  BY DEF TermType
<1>4. r \in Int /\ r = 78
  OBVIOUS
<1>5. t \in Int /\ t = 0
  OBVIOUS
<1>6. v = Term!Move(c, o, r) /\ c = Term!Clear(m, F) /\ F = {"nobreak"}
  OBVIOUS
<1> HIDE DEF m, c, v, t, F, o, r
<1>7. m \in TermType
  BY <1>2
<1>8. /\ c \in TermType /\ c.trail = m.trail /\ c.ret = m.ret /\ Modes(c) = Modes(m) \ F
      /\ SamePlace(m, c) /\ SameStack(m, c) /\ SameRest(m, c) /\ SameLine(m, c)
  BY <1>6, <1>7, ClearIs
<1>9. c \in TermType
  BY <1>8
<1>10. /\ v \in TermType /\ Moved(c, v, o, r) /\ v.ret = c.ret
       /\ SameField(c, v) /\ SameStack(c, v) /\ SameRest(c, v)
  <2>1. o \in Int
    BY <1>3
  <2>2. r \in Int
    BY <1>4
  <2>3. v = Term!Move(c, o, r)
    BY <1>6
  <2> QED BY <1>9, <2>1, <2>2, <2>3, MoveIs
<1>11. v \in TermType
  BY <1>10
<1>12. /\ q \in TermType /\ q.trail = t /\ Modes(q) = Modes(v) /\ q.ret = v.ret
       /\ SamePlace(v, q) /\ SameStack(v, q) /\ SameRest(v, q) /\ SameLine(v, q)
  <2>1. t \in Int
    BY <1>5
  <2> QED BY <1>1, <1>11, <2>1, TrailIs
<1>13. SameStack(p, q) /\ SameRest(p, q) /\ q.ret = p.ret
  BY <1>2, <1>8, <1>10, <1>12 DEF Written, SameStack, SameRest
<1>14. q.torn = p.torn /\ q.col = FALSE /\ q.off = o % 4096 /\ q.rm = r % 4096
  BY <1>2, <1>8, <1>10, <1>12 DEF Written, Moved, SameLine, SamePlace
<1>15. Modes(q) = Modes(p) \ F
  BY <1>2, <1>8, <1>10, <1>12 DEF Written, SameField
<1>16. Shifted(p, q, o, r)
  BY <1>12, <1>13, <1>14 DEF Shifted
<1>17. q.trail = 0
  BY <1>5, <1>12
<1> QED BY <1>3, <1>4, <1>6, <1>15, <1>16, <1>17

\* post_SY() for a head ends TERMP_NOBREAK only.
LEMMA HeadSYPost ==
  ASSUME NEW p \in TermType, NEW n, n.type = "head", n.tok = "SY",
         NEW q, q = Term!Post(p, n)
  PROVE  /\ q \in TermType /\ q.torn = p.torn /\ q.col = FALSE /\ q.trail = p.trail
         /\ Modes(q) = Modes(p) \ {"nobreak"}
         /\ SamePlace(p, q) /\ SameStack(p, q) /\ SameRest(p, q)
<1> DEFINE m == Term!Flush(p)
<1>1. q = Term!Clear(m, {"nobreak"})
  BY DEF Term!Post, Term!post_SY
<1>2. m \in TermType /\ Written(p, m)
  BY FlushIs
<1> HIDE DEF m
<1>3. m \in TermType
  BY <1>2
<1>4. /\ q \in TermType /\ q.trail = m.trail /\ q.ret = m.ret
      /\ Modes(q) = Modes(m) \ {"nobreak"}
      /\ SamePlace(m, q) /\ SameStack(m, q) /\ SameRest(m, q) /\ SameLine(m, q)
  BY <1>1, <1>3, ClearIs
<1>5. SamePlace(p, q) /\ SameStack(p, q) /\ SameRest(p, q)
  BY <1>2, <1>4 DEF Written, SamePlace, SameStack, SameRest
<1> QED BY <1>2, <1>4, <1>5 DEF Written, SameField, SameLine

\* post_SH() for a head ends the font and completes the line.
LEMMA HeadSectionPost ==
  ASSUME NEW p \in TermType, NEW n, n.type = "head", n.tok \in Sections,
         NEW q, q = Term!Post(p, n)
  PROVE  /\ q \in TermType /\ q.torn = p.torn /\ q.col = FALSE /\ q.trail = p.trail
         /\ Modes(q) = Modes(p) \ {"ibi"}
         /\ SamePlace(p, q) /\ SameStack(p, q) /\ SameRest(p, q)
<1> DEFINE m == Term!Clear(p, {"ibi"})
<1>1. q = Term!Newln(m)
  BY DEF Term!Post, Term!post_SH, Sections
<1>2. /\ m \in TermType /\ m.trail = p.trail /\ m.ret = p.ret
      /\ Modes(m) = Modes(p) \ {"ibi"}
      /\ SamePlace(p, m) /\ SameStack(p, m) /\ SameRest(p, m) /\ SameLine(p, m)
  BY ClearIs
<1> HIDE DEF m
<1>3. m \in TermType
  BY <1>2
<1>4. q \in TermType /\ Written(m, q)
  BY <1>1, <1>3, NewlnIs
<1>5. SamePlace(p, q) /\ SameStack(p, q) /\ SameRest(p, q)
  BY <1>2, <1>4 DEF Written, SamePlace, SameStack, SameRest
<1> QED BY <1>2, <1>4, <1>5 DEF Written, SameField, SameLine

\* Nothing follows the heads that are not printed, the bodies of PP and UR, blocks
\* other than UR and elements.
LEMMA NoPost ==
  ASSUME NEW p, NEW n,
         \/ n.type = "head" /\ n.tok \in {"HP", "PP", "RS", "UR"}
         \/ n.type = "body" /\ n.tok \in {"PP", "UR"}
         \/ n.type = "block" /\ n.tok \in BlockToks \ {"UR"}
         \/ n.type = "elem" /\ n.tok \in Elements
  PROVE  Term!Post(p, n) = p
<1>1. CASE n.type = "head" /\ n.tok \in {"HP", "PP", "RS", "UR"}
  BY <1>1 DEF Term!Post, Term!post_HP, Term!post_RS, Term!post_UR
<1>2. CASE n.type = "body" /\ n.tok \in {"PP", "UR"}
  BY <1>2 DEF Term!Post, Term!post_UR
<1>3. CASE n.type = "block" /\ n.tok \in BlockToks \ {"UR"}
  <2>1. CASE n.tok \in Sections
    BY <1>3, <2>1 DEF Term!Post, Term!post_SH, Sections
  <2>2. CASE n.tok \in {"TP", "TQ"}
    BY <1>3, <2>2 DEF Term!Post, Term!post_TP
  <2>3. CASE n.tok \in {"IP", "HP", "PP"}
    BY <1>3, <2>3 DEF Term!Post, Term!post_IP, Term!post_HP
  <2>4. CASE n.tok \in {"RS", "SY"}
    BY <1>3, <2>4 DEF Term!Post, Term!post_RS, Term!post_SY
  <2> QED BY <1>3, <2>1, <2>2, <2>3, <2>4 DEF BlockToks, Paragraphs, Items
<1>4. CASE n.type = "elem" /\ n.tok \in Elements
  BY <1>4 DEF Term!Post, Elements
<1> QED BY <1>1, <1>2, <1>3, <1>4

-----------------------------------------------------------------------------
\* The handlers after bodies.
LEMMA BodyItemPost ==
  ASSUME NEW p \in TermType, NEW n, n.type = "body", n.tok \in Items \cup {"SY"},
         NEW q, q = Term!Post(p, n)
  PROVE  Shifted(p, q, p.offset, p.rm) /\ SameField(p, q)
<1>1. q = Term!Move(Term!Newln(p), p.offset, p.rm)
  <2>1. CASE n.tok \in {"TP", "TQ"}
    BY <2>1 DEF Term!Post, Term!post_TP
  <2>2. CASE n.tok = "IP"
    BY <2>2 DEF Term!Post, Term!post_IP
  <2>3. CASE n.tok = "SY"
    BY <2>3 DEF Term!Post, Term!post_SY
  <2> QED BY <2>1, <2>2, <2>3 DEF Items
<1>2. p.offset \in Int /\ p.rm \in Int
  BY DEF TermType
<1> QED BY <1>1, <1>2, NewlnMove

\* post_HP() for a body ends the field.
LEMMA BodyHPPost ==
  ASSUME NEW p \in TermType, NEW n, n.type = "body", n.tok = "HP",
         NEW q, q = Term!Post(p, n)
  PROVE  /\ Shifted(p, q, p.offset, 78) /\ q.trail = 0
         /\ Modes(q) = Modes(p) \ {"nobreak", "brind"}
<1> DEFINE F == {"nobreak", "brind"}
           o == p.offset
           r == 78
           m == Term!Newln(p)
<1>1. q = [Term!Move(Term!Clear(m, F), o, r) EXCEPT !.trail = 0]
  BY DEF Term!Post, Term!post_HP, Term!MaxMargin
<1>2. o \in Int /\ o = p.offset
  BY DEF TermType
<1>3. r \in Int /\ r = 78
  OBVIOUS
<1>4. F = {"nobreak", "brind"}
  OBVIOUS
<1> HIDE DEF F, o, r
<1>5. /\ Shifted(p, q, o, r) /\ q.trail = 0 /\ Modes(q) = Modes(p) \ F
  <2>1. o \in Int
    BY <1>2
  <2>2. r \in Int
    BY <1>3
  <2>3. q = [Term!Move(Term!Clear(Term!Newln(p), F), o, r) EXCEPT !.trail = 0]
    BY <1>1
  <2>4. Shifted(p, q, o, r)
    BY <2>1, <2>2, <2>3, EndField
  <2>5. q.trail = 0
    BY <2>1, <2>2, <2>3, EndField
  <2>6. Modes(q) = Modes(p) \ F
    BY <2>1, <2>2, <2>3, EndField
  <2> QED BY <2>4, <2>5, <2>6
<1> QED BY <1>2, <1>3, <1>4, <1>5

\* post_SH() and post_SS() for a body complete the line.
LEMMA BodySectionPost ==
  ASSUME NEW p \in TermType, NEW n, n.type = "body", n.tok \in Sections,
         NEW q, q = Term!Post(p, n)
  PROVE  q \in TermType /\ Written(p, q)
<1>1. q = Term!Newln(p)
  BY DEF Term!Post, Term!post_SH, Sections
<1> QED BY <1>1, NewlnIs

\* The body of RS: the indentation that was added is subtracted again.
Popped(p, q, a) ==
  /\ q.offset = p.offset - a /\ q.sz = p.sz - 1 /\ q.lmargin = p.lmargin
  /\ q.cur = IF p.sz - 1 < MaxMargins THEN p.sz - 1 ELSE p.cur

\* What post_RS() leaves behind: the offset is as it was before pre_RS().
RSLeft(p, q, a) ==
  /\ q \in TermType /\ q.torn = p.torn /\ q.col = FALSE
  /\ SameField(p, q) /\ SameRest(p, q) /\ Popped(p, q, a)
  /\ q.off = (p.offset - a) % 4096 /\ q.rm = p.rm % 4096

\* post_RS() for a body: n->aux is subtracted from mt->offset again.
LEMMA BodyRSPost ==
  ASSUME NEW p \in TermType, p.sz >= 1, NEW n, n.type = "body", n.tok = "RS", n.aux \in Int,
         NEW q, q = Term!Post(p, n)
  PROVE  RSLeft(p, q, n.aux)
<1> DEFINE o == p.offset - n.aux
           z == p.sz - 1
           r == p.rm
           l == Term!Newln(p)
           f == [l EXCEPT !.offset = o, !.sz = z]
           m == Term!Move(f, o, r)
           c == IF z < MaxMargins THEN z ELSE p.cur
<1>1. l \in TermType /\ Written(p, l)
  BY NewlnIs
<1>2. o \in Int /\ z \in Int /\ r \in Int /\ p.cur \in 0..(MaxMargins - 1)
  BY DEF TermType
<1>3. l.offset = p.offset /\ l.sz = p.sz /\ l.rm = p.rm /\ l.cur = p.cur
  BY <1>1 DEF Written, SameStack, SamePlace
<1>4. f = [l EXCEPT !.offset = l.offset - n.aux, !.sz = l.sz - 1]
  BY <1>3
<1>5. f.offset = o /\ f.rm = r /\ f.sz = z /\ f.cur = p.cur
  BY <1>1, <1>3 DEF TermType
<1>6. m = Term!Move(f, f.offset, f.rm)
  BY <1>5
<1>7. /\ f \in TermType /\ f.lmargin = l.lmargin /\ f.ret = l.ret
      /\ SameField(l, f) /\ SamePlace(l, f) /\ SameRest(l, f) /\ SameLine(l, f)
  <2>1. f = [l EXCEPT !.offset = o, !.sz = z]
    OBVIOUS
  <2> HIDE DEF f, l, o, z
  <2>2. f \in TermType /\ f.lmargin = l.lmargin /\ f.ret = l.ret
    BY <1>1, <1>2, <2>1 DEF TermType
  <2> QED BY <1>1, <2>1, <2>2 DEF TermType, SameField, Modes, SamePlace, SameRest, SameLine
<1>8. /\ m \in TermType /\ Moved(f, m, o, r) /\ m.ret = f.ret
      /\ SameField(f, m) /\ SameStack(f, m) /\ SameRest(f, m)
  <2>1. f \in TermType
    BY <1>7
  <2>2. m = Term!Move(f, o, r)
    OBVIOUS
  <2>3. o \in Int
    BY <1>2
  <2>4. r \in Int
    BY <1>2
  <2> HIDE DEF f, m, o, r
  <2> QED BY <2>1, <2>2, <2>3, <2>4, MoveIs
<1>9. m.sz = z /\ m.cur = p.cur /\ m.offset = o /\ m.lmargin = p.lmargin
  BY <1>1, <1>5, <1>7, <1>8 DEF SameStack, Written
<1>10. c \in 0..(MaxMargins - 1)
  BY <1>2, FormatAssumption DEF TermType
<1>11. q = [m EXCEPT !.cur = c]
  <2> DEFINE g == [Term!Newln(p) EXCEPT !.offset = @ - n.aux, !.sz = @ - 1]
  <2>0. g = f
    BY <1>3
  <2>5. q = [Term!Move(g, g.offset, g.rm) EXCEPT !.cur = IF g.sz < MaxMargins THEN g.sz ELSE @]
    BY DEF Term!Post, Term!post_RS
  <2> HIDE DEF f, g
  <2>1. q = [Term!Move(f, f.offset, f.rm) EXCEPT !.cur = IF f.sz < MaxMargins THEN f.sz ELSE @]
    BY <2>0, <2>5
  <2>2. q = [m EXCEPT !.cur = IF f.sz < MaxMargins THEN f.sz ELSE @]
    BY <1>6, <2>1
  <2>3. q = [m EXCEPT !.cur = IF z < MaxMargins THEN z ELSE m.cur]
    BY <1>5, <2>2
  <2> QED BY <1>9, <2>3
<1>12. c = IF p.sz - 1 < MaxMargins THEN p.sz - 1 ELSE p.cur
  OBVIOUS
<1>13. o = p.offset - n.aux /\ z = p.sz - 1 /\ r = p.rm
  OBVIOUS
<1> HIDE DEF o, z, r, l, f, m, c
<1>14. m \in TermType
  BY <1>8
<1>15. /\ q \in TermType /\ q.cur = c /\ q.offset = m.offset /\ q.lmargin = m.lmargin
       /\ q.sz = m.sz
  BY <1>10, <1>11, <1>14 DEF TermType
<1>16. SameField(m, q) /\ SamePlace(m, q) /\ SameRest(m, q) /\ SameLine(m, q)
  BY <1>11, <1>14 DEF TermType, SameField, Modes, SamePlace, SameRest, SameLine
<1>17. Popped(p, q, n.aux)
  BY <1>9, <1>12, <1>13, <1>15 DEF Popped
<1>18. SameField(p, q) /\ SameRest(p, q)
  BY <1>1, <1>7, <1>8, <1>16 DEF Written, SameField, SameRest
<1>19. q.torn = p.torn /\ q.col = FALSE
  BY <1>1, <1>7, <1>8, <1>16 DEF Written, SameLine, Moved
<1>20. q.off = o % 4096 /\ q.rm = r % 4096
  BY <1>8, <1>16 DEF Moved, SamePlace
<1>21. q.off = (p.offset - n.aux) % 4096 /\ q.rm = p.rm % 4096
  BY <1>13, <1>20
<1> QED BY <1>15, <1>17, <1>18, <1>19, <1>21 DEF RSLeft

\* After UR, the address is printed.
LEMMA BlockURPost ==
  ASSUME NEW p \in TermType, NEW n, n.type = "block", n.tok = "UR",
         NEW q, q = Term!Post(p, n)
  PROVE  Plainly(p, q)
<1>1. q = Term!term_word(p)
  BY DEF Term!Post, Term!post_UR
<1> QED BY <1>1, PlainWord

-----------------------------------------------------------------------------
\* q is p, except that some text may have been written.
Alike(p, q) ==
  /\ q \in TermType /\ q.torn = p.torn /\ (p.col = FALSE => q.col = FALSE)
  /\ SameField(p, q) /\ SamePlace(p, q) /\ SameStack(p, q) /\ SameRest(p, q)

\* If there is no text in the buffer, all is well with the margins.
Calm(p, q) == p.col = FALSE => q.col = FALSE /\ q.torn = p.torn

\* The start and the end of print_man_node() do not change the widths.
LEMMA AlikeWidth ==
  ASSUME NEW p, NEW q, Alike(p, q), NEW n
  PROVE  Width(q, n) = Width(p, n)
BY DEF Alike, SameStack, Width, Term!Clip

\* A handler that is calm is calm within print_man_node().
LEMMA CalmAlike ==
  ASSUME NEW p, NEW b, NEW o, NEW q, Alike(p, b), Calm(b, o), Alike(o, q)
  PROVE  Calm(p, q)
BY DEF Alike, Calm

\* Moving the margins of an empty line disturbs nothing.
LEMMA CalmMoved ==
  ASSUME NEW p, NEW q, NEW o, NEW r, Moved(p, q, o, r)
  PROVE  Calm(p, q)
BY DEF Moved, Calm

\* The start of print_man_node() keeps field, margins and stack,
LEMMA BeginAlike ==
  ASSUME NEW p \in TermType, NEW n, NEW q, q = Term!Begin(p, n)
  PROVE  Alike(p, q) /\ q.ret = TRUE
<1>1. /\ q \in TermType /\ q.ret = TRUE /\ q.torn = p.torn
      /\ q.col = p.col \/ q.col = FALSE
      /\ SameField(p, q) /\ SamePlace(p, q) /\ SameStack(p, q) /\ SameRest(p, q)
  BY BeginIs
<1> QED BY <1>1 DEF Alike

\* and so does forgetting the return value.
LEMMA SettleAlike ==
  ASSUME NEW p \in TermType, NEW q, q = [p EXCEPT !.ret = TRUE]
  PROVE  Alike(p, q) /\ q.ret = TRUE
<1>1. TRUE \in BOOLEAN
  OBVIOUS
<1>2. /\ q \in TermType /\ q.ret = TRUE /\ SameField(p, q)
      /\ SamePlace(p, q) /\ SameStack(p, q) /\ SameRest(p, q) /\ SameLine(p, q)
  BY <1>1, RetIs
<1> QED BY <1>2 DEF Alike, SameLine

-----------------------------------------------------------------------------
\* What happens when the block n starts.
BlockRel(p, q, n, prev) ==
  /\ q \in TermType /\ q.torn = p.torn
  /\ SameField(p, q) /\ SamePlace(p, q) /\ SameRest(p, q)
  /\ q.cur = p.cur /\ q.sz = p.sz
  /\ p.col = FALSE => q.col = FALSE
  /\ n.tok \in {"TP", "IP", "HP", "PP", "RS"} => q.col = FALSE
  /\ n.tok = "SY" /\ prev # "SY" => q.col = FALSE
  /\ n.tok \in Sections /\ prev \notin {"start", "empty"} /\ p.pardist # 0 => q.col = FALSE
  /\ q.offset = IF n.tok \in Sections THEN 5 ELSE p.offset
  /\ q.lmargin = IF n.tok \in Sections \cup {"PP"} THEN [p.lmargin EXCEPT ![p.cur] = 7]
                 ELSE p.lmargin

\* print_man_node() entering a block: out is p before, o after the handler, q at the end.
BlockGoes(p, o, q, n, prev) ==
  BlockRel(p, q, n, prev) /\ o.ret = TRUE /\ o \in TermType /\ o.offset = q.offset

\* print_man_node() entering a block, all of it.
LEMMA BlockRuns ==
  ASSUME NEW p \in TermType, NEW n \in NodeType, n.type = "block", n.tok \in BlockToks,
         NEW prev, NEW parent,
         NEW b, b = Term!Begin(p, n), NEW o, o = Term!Pre(b, n, prev, parent),
         NEW q, q = [o EXCEPT !.ret = TRUE]
  PROVE  BlockGoes(p, o, q, n, prev)
<1>1. Alike(p, b) /\ b.ret = TRUE
  BY BeginAlike
<1>2. b \in TermType
  BY <1>1 DEF Alike
<1>3. BlockStep(b, o, n, prev)
  BY <1>2, BlockIsEntered
<1>4. o \in TermType
  BY <1>3 DEF BlockStep
<1>5. Alike(o, q)
  BY <1>4, SettleAlike
<1>6. q \in TermType /\ q.torn = p.torn
  BY <1>1, <1>3, <1>5 DEF Alike, BlockStep
<1>7. SameField(p, q) /\ SamePlace(p, q) /\ SameRest(p, q)
  BY <1>1, <1>3, <1>5 DEF Alike, BlockStep, SameField, SamePlace, SameRest
<1>8. p.col = FALSE => q.col = FALSE
  BY <1>1, <1>3, <1>5 DEF Alike, BlockStep
<1>9. o.col = FALSE => q.col = FALSE
  BY <1>5 DEF Alike
<1>10. n.tok \in {"TP", "IP", "HP", "PP", "RS"} => q.col = FALSE
  BY <1>3, <1>9 DEF BlockStep
<1>11. n.tok = "SY" /\ prev # "SY" => q.col = FALSE
  BY <1>3, <1>9 DEF BlockStep
<1>12. n.tok \in Sections /\ prev \notin {"start", "empty"} /\ p.pardist # 0 => q.col = FALSE
  BY <1>1, <1>3, <1>9 DEF BlockStep, Alike, SameRest
<1>13. q.cur = p.cur /\ q.sz = p.sz
  BY <1>1, <1>3, <1>5 DEF Alike, BlockStep, SameStack
<1>14. q.offset = IF n.tok \in Sections THEN 5 ELSE p.offset
  BY <1>1, <1>3, <1>5 DEF Alike, BlockStep, SameStack
<1>15. q.lmargin = IF n.tok \in Sections \cup {"PP"} THEN [p.lmargin EXCEPT ![p.cur] = 7]
                   ELSE p.lmargin
  BY <1>1, <1>3, <1>5 DEF Alike, BlockStep, SameStack
<1>16. o.ret = TRUE
  BY <1>1, <1>3 DEF BlockStep
<1>17. o.offset = q.offset
  BY <1>5 DEF Alike, SameStack
<1> QED BY <1>4, <1>17, <1>6, <1>7, <1>8, <1>10, <1>11, <1>12, <1>13, <1>14, <1>15, <1>16
     DEF BlockRel, BlockGoes

-----------------------------------------------------------------------------
\* What happens when the head n starts.
Skipped == {"HP", "PP", "RS", "UR"}
\* The modes a head sets: pre_IP(), pre_TP(), pre_SY(), pre_SH().
HeadModes(p, q, n) ==
  /\ n.tok \in {"TP", "TQ"} => q.trail = 1 /\ Modes(q) = Modes(p) \cup {"nobreak", "brtrsp"}
  /\ n.tok = "IP" => q.trail = 1 /\ Modes(q) = Modes(p) \cup {"nobreak"}
  /\ n.tok = "SY" => q.trail = p.trail /\ Modes(q) \subseteq Modes(p) \cup {"nobreak"}
  /\ n.tok \in Sections => Modes(q) = Modes(p) \cup {"nobreak", "brind", "ibi"}
  /\ n.tok \in Skipped => SameField(p, q)
\* The margins a head is printed in.
HeadPlace(p, q, n) ==
  /\ n.tok \in Items => q.off = p.offset % 4096 /\ q.rm = (p.offset + Width(p, n)) % 4096
  /\ n.tok = "SY" => q.off = p.offset % 4096 /\ q.rm = (p.offset + 4) % 4096
  /\ n.tok \in Sections => q.off \in {0, 3} /\ q.rm = p.offset % 4096
  /\ n.tok \in Skipped => SamePlace(p, q)
\* The width that is set in a head: that of the items.
HeadStack(p, q, n) ==
  IF n.tok \in Items THEN Widened(p, q, Width(p, n)) ELSE SameStack(p, q)
\* What entering a head does.
HeadRel(p, q, n) ==
  /\ q \in TermType /\ SameRest(p, q) /\ Calm(p, q)
  /\ n.tok = "UR" => q.torn = p.torn
  /\ HeadModes(p, q, n) /\ HeadPlace(p, q, n) /\ HeadStack(p, q, n)

\* It does so with the start and the end of print_man_node() too.
LEMMA HeadAlike ==
  ASSUME NEW p, NEW b, NEW o, NEW q, NEW n, Alike(p, b), HeadRel(b, o, n), Alike(o, q)
  PROVE  HeadRel(p, q, n)
<1>1. q \in TermType /\ SameRest(p, q)
  BY DEF HeadRel, Alike, SameRest
<1>2. Calm(p, q) /\ (n.tok = "UR" => q.torn = p.torn)
  BY CalmAlike DEF HeadRel, Alike
<1>3. SameField(p, b) /\ SameField(o, q)
  BY DEF Alike
<1>4. HeadModes(p, q, n)
  BY <1>3 DEF HeadRel, HeadModes, SameField
<1>5. Width(b, n) = Width(p, n)
  BY AlikeWidth
<1>6. b.offset = p.offset /\ q.off = o.off /\ q.rm = o.rm /\ SamePlace(p, b)
  BY DEF Alike, SamePlace, SameStack
<1>7. HeadPlace(p, q, n)
  BY <1>5, <1>6 DEF HeadRel, HeadPlace, SamePlace
<1>8. HeadStack(p, q, n)
  BY <1>5 DEF HeadRel, HeadStack, Alike, SameStack, Widened
<1> QED BY <1>1, <1>2, <1>4, <1>7, <1>8 DEF HeadRel

\* Entering a head, for every macro: the heads of .HP, .PP, .RS, .UR are skipped.
LEMMA HeadIsEntered ==
  ASSUME NEW p \in TermType, NEW n \in NodeType, n.type = "head", n.tok \in BlockToks,
         NEW prev, NEW parent, NEW q, q = Term!Pre(p, n, prev, parent)
  PROVE  HeadRel(p, q, n) /\ (n.tok \in Skipped => q.ret = FALSE)
<1>0. n.w \in Seq(Int)
  BY DEF NodeType
<1>1. CASE n.tok \in Items
  <2>0. n.tok \notin Sections \cup {"SY"} \cup Skipped
    BY <1>1 DEF Items, Sections, Skipped
  <2>1. /\ q \in TermType /\ q.ret = p.ret /\ SameRest(p, q)
        /\ Widened(p, q, Width(p, n)) /\ Moved(p, q, p.offset, p.offset + Width(p, n))
        /\ q.trail = 1
        /\ Modes(q) = Modes(p) \cup (IF n.tok = "IP" THEN {"nobreak"} ELSE {"nobreak", "brtrsp"})
    BY <1>0, <1>1, HeadItem
  <2>2. HeadModes(p, q, n)
    BY <1>1, <2>0, <2>1 DEF HeadModes
  <2>3. HeadPlace(p, q, n)
    BY <2>0, <2>1 DEF HeadPlace, Moved
  <2>4. HeadStack(p, q, n)
    BY <1>1, <2>1 DEF HeadStack
  <2> QED BY <1>1, <2>0, <2>1, <2>2, <2>3, <2>4, CalmMoved DEF HeadRel, Items, Sections
<1>2. CASE n.tok = "SY"
  <2>0. n.tok \notin Sections \cup Items \cup Skipped
    BY <1>2 DEF Items, Sections, Skipped
  <2>1. /\ q \in TermType /\ q.ret = p.ret /\ SameRest(p, q) /\ SameStack(p, q)
        /\ Moved(p, q, p.offset, p.offset + 4)
        /\ q.trail = p.trail /\ Modes(q) \subseteq Modes(p) \cup {"nobreak"}
    BY <1>2, HeadSY
  <2>2. HeadModes(p, q, n)
    BY <1>2, <2>0, <2>1 DEF HeadModes
  <2>3. HeadPlace(p, q, n)
    BY <2>0, <2>1 DEF HeadPlace, Moved
  <2>4. HeadStack(p, q, n)
    BY <2>0, <2>1 DEF HeadStack
  <2> QED BY <1>2, <2>0, <2>1, <2>2, <2>3, <2>4, CalmMoved DEF HeadRel
<1>3. CASE n.tok \in Sections
  <2>0. n.tok \notin Items \cup {"SY"} \cup Skipped
    BY <1>3 DEF Items, Sections, Skipped
  <2>1. /\ q \in TermType /\ q.ret = p.ret /\ SameRest(p, q) /\ SameStack(p, q)
        /\ Moved(p, q, IF n.tok = "SH" THEN 0 ELSE 3, p.offset)
        /\ Modes(q) = Modes(p) \cup {"nobreak", "brind", "ibi"}
    BY <1>3, HeadSection
  <2>2. HeadModes(p, q, n)
    BY <1>3, <2>0, <2>1 DEF HeadModes, Items
  <2>3. HeadPlace(p, q, n)
    <3>1. q.off \in {0, 3} /\ q.rm = p.offset % 4096
      BY <2>1 DEF Moved
    <3> QED BY <2>0, <3>1 DEF HeadPlace
  <2>4. HeadStack(p, q, n)
    BY <2>0, <2>1 DEF HeadStack
  <2> QED BY <1>3, <2>0, <2>1, <2>2, <2>3, <2>4, CalmMoved DEF HeadRel, Items, Sections
<1>4. CASE n.tok \in Skipped
  <2>0. n.tok \notin Items \cup {"SY"} \cup Sections
    BY <1>4 DEF Items, Sections, Skipped
  <2>1. /\ q \in TermType /\ q.ret = FALSE /\ SameField(p, q)
        /\ SamePlace(p, q) /\ SameStack(p, q) /\ SameRest(p, q) /\ SameLine(p, q)
    BY <1>4, HeadSkipped DEF Skipped
  <2>2. HeadModes(p, q, n)
    BY <2>0, <2>1 DEF HeadModes, Items
  <2>3. HeadPlace(p, q, n)
    BY <2>0, <2>1 DEF HeadPlace
  <2>4. HeadStack(p, q, n)
    BY <2>0, <2>1 DEF HeadStack
  <2>5. Calm(p, q)
    BY <2>1 DEF Calm, SameLine
  <2>6. q.torn = p.torn
    BY <2>1 DEF SameLine
  <2> QED BY <2>6, <2>1, <2>2, <2>3, <2>4, <2>5 DEF HeadRel
<1> QED BY <1>1, <1>2, <1>3, <1>4 DEF BlockToks, Paragraphs, Skipped

\* print_man_node() entering a head; o is the state after the handler.
HeadGoes(p, o, q, n) ==
  /\ HeadRel(p, q, n) /\ o \in TermType /\ o.offset = p.offset
  /\ n.tok \in Skipped => o.ret = FALSE

\* print_man_node() entering a head, all of it.
LEMMA HeadRuns ==
  ASSUME NEW p \in TermType, NEW n \in NodeType, n.type = "head", n.tok \in BlockToks,
         NEW prev, NEW parent,
         NEW b, b = Term!Begin(p, n), NEW o, o = Term!Pre(b, n, prev, parent),
         NEW q, q = [o EXCEPT !.ret = TRUE]
  PROVE  HeadGoes(p, o, q, n)
<1>1. Alike(p, b) /\ b.ret = TRUE
  BY BeginAlike
<1>2. b \in TermType
  BY <1>1 DEF Alike
<1>3. HeadRel(b, o, n) /\ (n.tok \in Skipped => o.ret = FALSE)
  BY <1>2, HeadIsEntered
<1>4. o \in TermType
  BY <1>3 DEF HeadRel
<1>5. Alike(o, q)
  BY <1>4, SettleAlike
<1>6. o.offset = p.offset
  BY <1>1, <1>3 DEF HeadRel, HeadStack, Widened, Alike, SameStack
<1>7. HeadRel(p, q, n)
  BY <1>1, <1>3, <1>5, HeadAlike
<1> QED BY <1>3, <1>4, <1>6, <1>7 DEF HeadGoes

-----------------------------------------------------------------------------
\* What happens when the body n starts.
BodyModes(p, q, n) ==
  /\ n.tok \in {"TP", "TQ"} => q.trail = 0 /\ Modes(q) = Modes(p) \ {"nobreak", "brtrsp"}
  /\ n.tok \in Sections => q.trail = 0 /\ Modes(q) = Modes(p) \ {"nobreak", "brind"}
  /\ n.tok = "HP" => \/ SameField(p, q)
                     \/ q.trail = 2 /\ Modes(q) = Modes(p) \cup {"nobreak", "brind"}
  /\ n.tok = "HP" /\ n.first = "nofill" => SameField(p, q)
  /\ n.tok \in {"IP", "PP", "RS", "SY", "UR"} => SameField(p, q)
\* The margins a body is printed in.
BodyPlace(p, q, n) ==
  /\ n.tok \in Items => q.off = (p.offset + Width(p, n)) % 4096 /\ q.rm = 78
  /\ n.tok = "HP" =>
       IF n.first = "none" THEN SamePlace(p, q)
       ELSE q.off = p.offset % 4096 /\ q.rm = (p.offset + Width(p, n)) % 4096
  /\ n.tok = "PP" => q.off = p.offset % 4096 /\ q.rm = p.rm % 4096
  /\ n.tok = "SY" => q.off = (p.offset + 4) % 4096 /\ q.rm = 78
  /\ n.tok \in Sections => q.off = p.offset % 4096 /\ q.rm = 78
  /\ n.tok = "RS" => q.off = q.offset % 4096 /\ q.rm = 78
  /\ n.tok = "UR" => SamePlace(p, q)
\* The width or the offset that is set in a body.
BodyStack(p, q, n) ==
  CASE n.tok \in Items -> Widened(p, q, Width(p, n))
    [] n.tok = "HP" -> IF n.first = "none" THEN SameStack(p, q) ELSE Widened(p, q, Width(p, n))
    [] n.tok = "SY" -> Widened(p, q, 4)
    [] n.tok = "RS" ->
         /\ Pushed(p, q, q.offset - p.offset)
         /\ q.offset = p.offset + Term!Clip(p, IF n.w = <<>> THEN p.lmargin[p.cur] ELSE n.w[1])
    [] OTHER -> SameStack(p, q)
\* What entering a body does.
BodyRel(p, q, n) ==
  /\ q \in TermType /\ SameRest(p, q) /\ Calm(p, q)
  /\ n.tok = "UR" => q.torn = p.torn
  /\ BodyModes(p, q, n) /\ BodyPlace(p, q, n) /\ BodyStack(p, q, n)

\* It does so with the start and the end of print_man_node() too.
LEMMA BodyAlike ==
  ASSUME NEW p, NEW b, NEW o, NEW q, NEW n, Alike(p, b), BodyRel(b, o, n), Alike(o, q)
  PROVE  BodyRel(p, q, n)
<1>1. q \in TermType /\ SameRest(p, q)
  BY DEF BodyRel, Alike, SameRest
<1>2. Calm(p, q) /\ (n.tok = "UR" => q.torn = p.torn)
  BY CalmAlike DEF BodyRel, Alike
<1>3. SameField(p, b) /\ SameField(o, q)
  BY DEF Alike
<1>4. BodyModes(p, q, n)
  BY <1>3 DEF BodyRel, BodyModes, SameField
<1>5. Width(b, n) = Width(p, n)
  BY AlikeWidth
<1>6. b.offset = p.offset /\ q.off = o.off /\ q.rm = o.rm /\ SamePlace(p, b) /\ q.offset = o.offset
  BY DEF Alike, SamePlace, SameStack
<1>7. BodyPlace(p, q, n)
  BY <1>5, <1>6 DEF BodyRel, BodyPlace, SamePlace
<1>8. SameStack(p, b) /\ SameStack(o, q) /\ BodyStack(b, o, n)
  BY DEF BodyRel, Alike
<1>9. BodyStack(p, q, n)
  <2>1. CASE n.tok = "RS"
    <3>1. n.tok \notin Items
      BY <2>1 DEF Items
    <3>2. Pushed(b, o, o.offset - b.offset)
          /\ o.offset = b.offset + Term!Clip(b, IF n.w = <<>> THEN b.lmargin[b.cur] ELSE n.w[1])
      BY <1>8, <2>1, <3>1 DEF BodyStack
    <3>3. Pushed(p, q, q.offset - p.offset)
      BY <1>8, <3>2 DEF Pushed, SameStack
    <3>4. q.offset = p.offset + Term!Clip(p, IF n.w = <<>> THEN p.lmargin[p.cur] ELSE n.w[1])
      BY <1>8, <3>2 DEF SameStack, Term!Clip
    <3> QED BY <2>1, <3>1, <3>3, <3>4 DEF BodyStack
  <2>2. CASE n.tok # "RS"
    BY <1>5, <1>8, <2>2 DEF BodyStack, SameStack, Widened
  <2> QED BY <2>1, <2>2
<1> QED BY <1>1, <1>2, <1>4, <1>7, <1>9 DEF BodyRel

\* Entering a body, for every macro.
LEMMA BodyIsEntered ==
  ASSUME NEW p \in TermType, p.sz >= 0, NEW n \in NodeType, n.type = "body", n.tok \in BlockToks,
         NEW prev, NEW parent, NEW q, q = Term!Pre(p, n, prev, parent)
  PROVE  BodyRel(p, q, n)
<1>0. n.w \in Seq(Int)
  BY DEF NodeType
<1>1. CASE n.tok \in {"TP", "TQ"}
  <2>0. n.tok \in Items /\ n.tok \notin Sections
    BY <1>1 DEF Items, Sections
  <2>1. /\ q \in TermType /\ q.ret = p.ret /\ SameRest(p, q)
        /\ Widened(p, q, Width(p, n)) /\ Moved(p, q, p.offset + Width(p, n), 78)
        /\ q.trail = 0 /\ Modes(q) = Modes(p) \ {"nobreak", "brtrsp"}
    BY <1>0, <1>1, BodyTP
  <2>2. BodyModes(p, q, n)
    BY <1>1, <2>0, <2>1 DEF BodyModes
  <2>3. BodyPlace(p, q, n)
    BY <1>1, <2>0, <2>1 DEF BodyPlace, Moved
  <2>4. BodyStack(p, q, n)
    BY <1>1, <2>0, <2>1 DEF BodyStack
  <2> QED BY <1>1, <2>1, <2>2, <2>3, <2>4, CalmMoved DEF BodyRel, Items, Sections
<1>2. CASE n.tok = "IP"
  <2>0. n.tok \in Items /\ n.tok \notin Sections
    BY <1>2 DEF Items, Sections
  <2>1. /\ q \in TermType /\ q.ret = p.ret /\ SameRest(p, q)
        /\ Widened(p, q, Width(p, n)) /\ Moved(p, q, p.offset + Width(p, n), 78)
        /\ SameField(p, q)
    BY <1>0, <1>2, BodyIP
  <2>2. BodyModes(p, q, n)
    BY <1>2, <2>0, <2>1 DEF BodyModes
  <2>3. BodyPlace(p, q, n)
    BY <1>2, <2>0, <2>1 DEF BodyPlace, Moved
  <2>4. BodyStack(p, q, n)
    BY <1>2, <2>0, <2>1 DEF BodyStack
  <2> QED BY <1>2, <2>1, <2>2, <2>3, <2>4, CalmMoved DEF BodyRel
<1>3. CASE n.tok = "HP" /\ n.first # "none"
  <2>0. n.tok \notin Items /\ n.tok \notin Sections
    BY <1>3 DEF Items, Sections
  <2>1. /\ q \in TermType /\ q.ret = p.ret /\ SameRest(p, q)
        /\ Widened(p, q, Width(p, n)) /\ Moved(p, q, p.offset, p.offset + Width(p, n))
        /\ \/ n.first = "nofill" /\ SameField(p, q)
           \/ n.first # "nofill" /\ q.trail = 2 /\ Modes(q) = Modes(p) \cup {"nobreak", "brind"}
    BY <1>0, <1>3, BodyHP
  <2>2. BodyModes(p, q, n)
    BY <1>3, <2>0, <2>1 DEF BodyModes
  <2>3. BodyPlace(p, q, n)
    BY <1>3, <2>0, <2>1 DEF BodyPlace, Moved
  <2>4. BodyStack(p, q, n)
    BY <1>3, <2>0, <2>1 DEF BodyStack
  <2> QED BY <1>3, <2>1, <2>2, <2>3, <2>4, CalmMoved DEF BodyRel
<1>4. CASE n.tok = "HP" /\ n.first = "none"
  <2>0. n.tok \notin Items /\ n.tok \notin Sections
    BY <1>4 DEF Items, Sections
  <2>1. /\ q \in TermType /\ q.ret = FALSE /\ SameField(p, q)
        /\ SamePlace(p, q) /\ SameStack(p, q) /\ SameRest(p, q) /\ SameLine(p, q)
    BY <1>4, BodyHPNone
  <2>2. BodyModes(p, q, n)
    BY <1>4, <2>0, <2>1 DEF BodyModes
  <2>3. BodyPlace(p, q, n)
    BY <1>4, <2>0, <2>1 DEF BodyPlace
  <2>4. BodyStack(p, q, n)
    BY <1>4, <2>0, <2>1 DEF BodyStack
  <2>5. Calm(p, q)
    BY <2>1 DEF Calm, SameLine
  <2> QED BY <1>4, <2>1, <2>2, <2>3, <2>4, <2>5 DEF BodyRel
<1>5. CASE n.tok = "PP"
  <2>0. n.tok \notin Items /\ n.tok \notin Sections
    BY <1>5 DEF Items, Sections
  <2>1. /\ q \in TermType /\ q.ret = p.ret /\ SameRest(p, q) /\ SameStack(p, q)
        /\ SameField(p, q) /\ Moved(p, q, p.offset, p.rm)
    BY <1>5, BodyPP
  <2>2. BodyModes(p, q, n)
    BY <1>5, <2>0, <2>1 DEF BodyModes
  <2>3. BodyPlace(p, q, n)
    BY <1>5, <2>0, <2>1 DEF BodyPlace, Moved
  <2>4. BodyStack(p, q, n)
    BY <1>5, <2>0, <2>1 DEF BodyStack
  <2> QED BY <1>5, <2>1, <2>2, <2>3, <2>4, CalmMoved DEF BodyRel
<1>6. CASE n.tok = "SY"
  <2>0. n.tok \notin Items /\ n.tok \notin Sections
    BY <1>6 DEF Items, Sections
  <2>1. /\ q \in TermType /\ q.ret = p.ret /\ SameRest(p, q) /\ Widened(p, q, 4)
        /\ SameField(p, q) /\ Moved(p, q, p.offset + 4, 78)
    BY <1>6, BodySY
  <2>2. BodyModes(p, q, n)
    BY <1>6, <2>0, <2>1 DEF BodyModes
  <2>3. BodyPlace(p, q, n)
    BY <1>6, <2>0, <2>1 DEF BodyPlace, Moved
  <2>4. BodyStack(p, q, n)
    BY <1>6, <2>0, <2>1 DEF BodyStack
  <2> QED BY <1>6, <2>1, <2>2, <2>3, <2>4, CalmMoved DEF BodyRel
<1>7. CASE n.tok \in Sections
  <2>0. n.tok \notin Items /\ n.tok \notin {"TP", "TQ", "IP", "PP", "RS", "SY", "UR", "HP"}
    BY <1>7 DEF Items, Sections
  <2>1. /\ q \in TermType /\ q.ret = p.ret /\ SameRest(p, q) /\ SameStack(p, q)
        /\ Moved(p, q, p.offset, 78)
        /\ q.trail = 0 /\ Modes(q) = Modes(p) \ {"nobreak", "brind"}
    BY <1>7, BodySection
  <2>2. BodyModes(p, q, n)
    BY <1>7, <2>0, <2>1 DEF BodyModes
  <2>3. BodyPlace(p, q, n)
    BY <1>7, <2>0, <2>1 DEF BodyPlace, Moved
  <2>4. BodyStack(p, q, n)
    BY <1>7, <2>0, <2>1 DEF BodyStack
  <2> QED BY <1>7, <2>1, <2>2, <2>3, <2>4, CalmMoved DEF BodyRel, Items, Sections
<1>8. CASE n.tok = "UR"
  <2>0. n.tok \notin Items /\ n.tok \notin Sections
    BY <1>8 DEF Items, Sections
  <2>1. q = p
    BY <1>8, BodyUR
  <2>2. BodyModes(p, q, n)
    BY <1>8, <2>0, <2>1 DEF BodyModes, SameField
  <2>3. BodyPlace(p, q, n)
    BY <1>8, <2>0, <2>1 DEF BodyPlace, SamePlace
  <2>4. BodyStack(p, q, n)
    BY <1>8, <2>0, <2>1 DEF BodyStack, SameStack
  <2>5. Calm(p, q) /\ SameRest(p, q) /\ q \in TermType /\ q.torn = p.torn
    BY <2>1 DEF Calm, SameRest
  <2> QED BY <1>8, <2>2, <2>3, <2>4, <2>5 DEF BodyRel
<1>9. CASE n.tok = "RS"
  <2>0. n.tok \notin Items /\ n.tok \notin Sections
    BY <1>9 DEF Items, Sections
  <2>1. /\ q \in TermType /\ q.ret = p.ret /\ SameRest(p, q) /\ SameField(p, q)
        /\ Pushed(p, q, q.offset - p.offset)
        /\ q.offset = p.offset + Term!Clip(p, IF n.w = <<>> THEN p.lmargin[p.cur] ELSE n.w[1])
        /\ Moved(p, q, q.offset, 78)
    BY <1>0, <1>9, BodyRS
  <2>2. BodyModes(p, q, n)
    BY <1>9, <2>0, <2>1 DEF BodyModes
  <2>3. BodyPlace(p, q, n)
    BY <1>9, <2>0, <2>1 DEF BodyPlace, Moved
  <2>4. BodyStack(p, q, n)
    BY <1>9, <2>0, <2>1 DEF BodyStack
  <2> QED BY <1>9, <2>1, <2>2, <2>3, <2>4, CalmMoved DEF BodyRel
<1> QED BY <1>1, <1>2, <1>3, <1>4, <1>5, <1>6, <1>7, <1>8, <1>9 DEF BlockToks, Paragraphs, Items

\* print_man_node() entering a body, all of it.
LEMMA BodyRuns ==
  ASSUME NEW p \in TermType, p.sz >= 0, NEW n \in NodeType, n.type = "body", n.tok \in BlockToks,
         NEW prev, NEW parent,
         NEW b, b = Term!Begin(p, n), NEW o, o = Term!Pre(b, n, prev, parent),
         NEW q, q = [o EXCEPT !.ret = TRUE]
  PROVE  BodyRel(p, q, n) /\ o \in TermType /\ o.offset = q.offset
<1>1. Alike(p, b) /\ b.ret = TRUE
  BY BeginAlike
<1>2. b \in TermType /\ b.sz >= 0
  BY <1>1 DEF Alike, SameStack
<1>3. BodyRel(b, o, n)
  BY <1>2, BodyIsEntered
<1>4. o \in TermType
  BY <1>3 DEF BodyRel
<1>5. Alike(o, q)
  BY <1>4, SettleAlike
<1>6. o.offset = q.offset
  BY <1>5 DEF Alike, SameStack
<1> QED BY <1>1, <1>3, <1>4, <1>5, <1>6, BodyAlike

-----------------------------------------------------------------------------
\* Ending the field is the same within print_man_node(),
LEMMA EndsAlike ==
  ASSUME NEW p, NEW b, NEW o, NEW q, SameField(p, b), SamePlace(p, b), SameField(o, q),
         SamePlace(o, q), ElemEnds(b, o)
  PROVE  ElemEnds(p, q)
<1>1. Modes(b) = Modes(p) /\ Modes(q) = Modes(o) /\ q.trail = o.trail
  BY DEF SameField
<1>2. b.rm = p.rm /\ q.off = o.off /\ q.rm = o.rm
  BY DEF SamePlace
<1>3. Modes(o) = Modes(b) \ {"nobreak", "brind"}
  BY DEF ElemEnds
<1>4. o.trail = 0 /\ b.rm < 78 /\ o.off = b.rm % 4096 /\ o.rm = 78
  BY DEF ElemEnds
<1>5. Modes(q) = Modes(p) \ {"nobreak", "brind"}
  BY <1>1, <1>3
<1>6. q.off = p.rm % 4096
  BY <1>2, <1>4
<1> QED BY <1>1, <1>2, <1>4, <1>5, <1>6 DEF ElemEnds

\* What happens when the element n starts, and in a node without children.
LEMMA ElemRuns ==
  ASSUME NEW p \in TermType, NEW n \in NodeType, n.type = "elem", n.tok \in Elements,
         n.w \in {<<>>, << 0 >>}, NEW prev, NEW parent,
         NEW b, b = Term!Begin(p, n), NEW o, o = Term!Pre(b, n, prev, parent),
         NEW q, q = [o EXCEPT !.ret = TRUE]
  PROVE  ElemStep(p, q, n, parent) /\ o \in TermType
<1>0. n.w \in Seq(Int)
  BY DEF NodeType
<1>1. Alike(p, b)
  BY BeginAlike
<1>2. b \in TermType
  BY <1>1 DEF Alike
<1>3. ElemStep(b, o, n, parent)
  BY <1>0, <1>2, ElemIsEntered
<1>4. o \in TermType
  BY <1>3 DEF ElemStep
<1>5. Alike(o, q)
  BY <1>4, SettleAlike
<1>6. q \in TermType /\ q.torn = p.torn /\ SameStack(p, q)
  BY <1>1, <1>3, <1>5 DEF Alike, ElemStep, SameStack
<1>7. n.tok # "PD" => SameRest(p, q)
  BY <1>1, <1>3, <1>5 DEF Alike, ElemStep, SameRest
<1>8. SameField(p, b) /\ SamePlace(p, b) /\ SameField(o, q) /\ SamePlace(o, q)
      /\ b.offset = p.offset
  BY <1>1, <1>5 DEF Alike, SameStack
<1>9. ElemPlain(b, o) => ElemPlain(p, q)
  BY <1>8 DEF ElemPlain, SameField, SamePlace
<1>10. ElemMoves(b, o) => ElemMoves(p, q)
  BY <1>8 DEF ElemMoves, SameField, SamePlace
<1>11. ElemEnds(b, o) => ElemEnds(p, q)
  BY <1>8, EndsAlike
<1>12. \/ ElemPlain(b, o)
       \/ n.tok = "in" /\ ElemMoves(b, o)
       \/ n.tok \in {"EX", "EE"} /\ parent = "HP" /\ ElemEnds(b, o)
  BY <1>3 DEF ElemStep
<1> QED BY <1>4, <1>6, <1>7, <1>9, <1>10, <1>11, <1>12 DEF ElemStep

\* and so is a break.
LEMMA BreakAlike ==
  ASSUME NEW p, NEW b, NEW o, NEW q, SameField(p, b), SamePlace(p, b), SameField(o, q),
         SamePlace(o, q), BreakEnds(b, o)
  PROVE  BreakEnds(p, q)
<1>1. Modes(b) = Modes(p) /\ Modes(q) = Modes(o) /\ q.trail = o.trail
  BY DEF SameField
<1>2. b.rm = p.rm /\ q.off = o.off /\ q.rm = o.rm
  BY DEF SamePlace
<1>3. Modes(o) = Modes(b) \ {"nobreak", "brind"} /\ "brind" \in Modes(b)
  BY DEF BreakEnds
<1>4. o.trail = 0 /\ o.off = b.rm /\ o.rm = 78
  BY DEF BreakEnds
<1>5. Modes(q) = Modes(p) \ {"nobreak", "brind"}
  BY <1>1, <1>3
<1> QED BY <1>1, <1>2, <1>3, <1>4, <1>5 DEF BreakEnds

\* print_man_node() for a leaf, all of it.
LEMMA LeafRuns ==
  ASSUME NEW p \in TermType, NEW n, n.nofill \in BOOLEAN, n.tok \in Leaves,
         n.type = (IF n.tok \in Requests THEN "elem" ELSE n.tok), NEW parent,
         NEW b, b = Term!Begin(p, n), NEW o, o = Term!Leaf(b, n, parent),
         NEW q, q = [o EXCEPT !.ret = TRUE]
  PROVE  LeafStep(p, q, n, parent)
<1>1. Alike(p, b)
  BY BeginAlike
<1>2. b \in TermType
  BY <1>1 DEF Alike
<1>3. LeafStep(b, o, n, parent)
  BY <1>2, LeafIsPrinted
<1>4. o \in TermType
  BY <1>3 DEF LeafStep
<1>5. Alike(o, q)
  BY <1>4, SettleAlike
<1>6. q \in TermType /\ q.torn = p.torn /\ SameStack(p, q) /\ SameRest(p, q)
  BY <1>1, <1>3, <1>5 DEF Alike, LeafStep, SameStack, SameRest
<1>7. SameField(p, b) /\ SamePlace(p, b) /\ SameField(o, q) /\ SamePlace(o, q)
  BY <1>1, <1>5 DEF Alike
<1>8. CASE ElemPlain(b, o)
  <2>1. ElemPlain(p, q)
    BY <1>7, <1>8 DEF ElemPlain, SameField, SamePlace
  <2> QED BY <1>6, <2>1 DEF LeafStep
<1>9. CASE BreakEnds(b, o)
  <2>1. BreakEnds(p, q)
    BY <1>7, <1>9, BreakAlike
  <2> QED BY <1>6, <2>1 DEF LeafStep
<1>10. CASE Sticks(n, parent) /\ SameField(b, o) /\ o.off = b.rm % 4096 /\ o.rm = 78
  <2>1. SameField(p, q)
    BY <1>7, <1>10 DEF SameField
  <2>2. b.rm = p.rm /\ q.off = o.off /\ q.rm = o.rm
    BY <1>7 DEF SamePlace
  <2>3. q.off = p.rm % 4096 /\ q.rm = 78
    BY <1>10, <2>2
  <2> QED BY <1>6, <1>10, <2>1, <2>3 DEF LeafStep
<1> QED BY <1>3, <1>8, <1>9, <1>10 DEF LeafStep

-----------------------------------------------------------------------------
\* What happens when the head n was printed.
HeadOutModes(p, q, n) ==
  /\ n.tok \in {"TP", "TQ"} \cup Skipped => SameField(p, q)
  /\ n.tok = "IP" => q.trail = 0 /\ Modes(q) = Modes(p) \ {"nobreak"}
  /\ n.tok = "SY" => q.trail = p.trail /\ Modes(q) = Modes(p) \ {"nobreak"}
  /\ n.tok \in Sections => q.trail = p.trail /\ Modes(q) = Modes(p) \ {"ibi"}
\* The margins after a head.
HeadOutPlace(p, q, n) ==
  IF n.tok = "IP" THEN q.off = p.off % 4096 /\ q.rm = 78 ELSE SamePlace(p, q)
\* What leaving a head does.
HeadOut(p, q, n) ==
  /\ q \in TermType /\ q.torn = p.torn /\ SameStack(p, q) /\ SameRest(p, q)
  /\ HeadOutModes(p, q, n) /\ HeadOutPlace(p, q, n)
  /\ (n.tok \in Skipped => p.col = FALSE) => q.col = FALSE

\* It does so with the end of print_man_node() too.
LEMMA HeadOutAlike ==
  ASSUME NEW p, NEW o, NEW q, NEW n, HeadOut(p, o, n), Alike(o, q)
  PROVE  HeadOut(p, q, n)
<1>1. q \in TermType /\ q.torn = p.torn /\ SameStack(p, q) /\ SameRest(p, q)
  BY DEF HeadOut, Alike, SameStack, SameRest
<1>2. HeadOutModes(p, q, n)
  BY DEF HeadOut, HeadOutModes, Alike, SameField
<1>3. HeadOutPlace(p, q, n)
  BY DEF HeadOut, HeadOutPlace, Alike, SamePlace
<1>4. (n.tok \in Skipped => p.col = FALSE) => q.col = FALSE
  BY DEF HeadOut, Alike
<1> QED BY <1>1, <1>2, <1>3, <1>4 DEF HeadOut

\* Leaving a head, for every macro.
LEMMA HeadIsLeft ==
  ASSUME NEW p \in TermType, NEW n, n.type = "head", n.tok \in BlockToks,
         NEW q, q = Term!Post(p, n)
  PROVE  HeadOut(p, q, n)
<1>1. CASE n.tok \in {"TP", "TQ"}
  <2>0. n.tok \notin Skipped \cup Sections \cup {"IP", "SY"}
    BY <1>1 DEF Skipped, Sections
  <2>1. q \in TermType /\ Written(p, q)
    BY <1>1, HeadTP
  <2> QED BY <2>0, <2>1 DEF HeadOut, HeadOutModes, HeadOutPlace, Written
<1>2. CASE n.tok = "IP"
  <2>0. n.tok \notin Skipped \cup Sections \cup {"TP", "TQ", "SY"}
    BY <1>2 DEF Skipped, Sections
  <2>1. Shifted(p, q, p.off, 78) /\ q.trail = 0 /\ Modes(q) = Modes(p) \ {"nobreak"}
    BY <1>2, HeadIP
  <2>2. HeadOutModes(p, q, n)
    BY <2>0, <2>1 DEF HeadOutModes
  <2>3. HeadOutPlace(p, q, n)
    BY <1>2, <2>1 DEF HeadOutPlace, Shifted
  <2> QED BY <2>0, <2>1, <2>2, <2>3 DEF HeadOut, Shifted
<1>3. CASE n.tok = "SY"
  <2>0. n.tok \notin Skipped \cup Sections \cup {"TP", "TQ", "IP"}
    BY <1>3 DEF Skipped, Sections
  <2>1. /\ q \in TermType /\ q.torn = p.torn /\ q.col = FALSE /\ q.trail = p.trail
        /\ Modes(q) = Modes(p) \ {"nobreak"}
        /\ SamePlace(p, q) /\ SameStack(p, q) /\ SameRest(p, q)
    BY <1>3, HeadSYPost
  <2>2. HeadOutModes(p, q, n)
    BY <2>0, <2>1 DEF HeadOutModes
  <2> QED BY <2>0, <2>1, <2>2 DEF HeadOut, HeadOutPlace
<1>4. CASE n.tok \in Sections
  <2>0. n.tok \notin Skipped \cup {"TP", "TQ", "IP", "SY"}
    BY <1>4 DEF Skipped, Sections
  <2>1. /\ q \in TermType /\ q.torn = p.torn /\ q.col = FALSE /\ q.trail = p.trail
        /\ Modes(q) = Modes(p) \ {"ibi"}
        /\ SamePlace(p, q) /\ SameStack(p, q) /\ SameRest(p, q)
    BY <1>4, HeadSectionPost
  <2>2. HeadOutModes(p, q, n)
    BY <2>0, <2>1 DEF HeadOutModes
  <2> QED BY <2>0, <2>1, <2>2 DEF HeadOut, HeadOutPlace
<1>5. CASE n.tok \in Skipped
  <2>0. n.tok \notin Sections \cup {"TP", "TQ", "IP", "SY"}
    BY <1>5 DEF Skipped, Sections
  <2>1. q = p
    BY <1>5, NoPost DEF Skipped
  <2> QED BY <1>5, <2>0, <2>1, SameIs DEF HeadOut, HeadOutModes, HeadOutPlace
<1> QED BY <1>1, <1>2, <1>3, <1>4, <1>5 DEF BlockToks, Paragraphs, Items, Skipped

\* What happens when the body n was printed.
BodyOutModes(p, q, n) ==
  IF n.tok = "HP" THEN q.trail = 0 /\ Modes(q) = Modes(p) \ {"nobreak", "brind"}
  ELSE SameField(p, q)
\* The margins after a body.
BodyOutPlace(p, q, n) ==
  /\ n.tok \in Items \cup {"SY"} => q.off = p.offset % 4096 /\ q.rm = p.rm % 4096
  /\ n.tok = "HP" => q.off = p.offset % 4096 /\ q.rm = 78
  /\ n.tok = "RS" => q.off = (p.offset - n.aux) % 4096 /\ q.rm = p.rm % 4096
  /\ n.tok \in {"PP", "UR"} \cup Sections => SamePlace(p, q)
\* The body of .RS takes its offset from the stack, no other body touches it.
BodyOutStack(p, q, n) == IF n.tok = "RS" THEN Popped(p, q, n.aux) ELSE SameStack(p, q)
\* What leaving a body does.
BodyOut(p, q, n) ==
  /\ q \in TermType /\ q.torn = p.torn /\ SameRest(p, q)
  /\ BodyOutModes(p, q, n) /\ BodyOutPlace(p, q, n) /\ BodyOutStack(p, q, n)
  /\ (n.tok \in {"PP", "UR"} => p.col = FALSE) => q.col = FALSE

\* It does so with the end of print_man_node() too.
LEMMA BodyOutAlike ==
  ASSUME NEW p, NEW o, NEW q, NEW n, BodyOut(p, o, n), Alike(o, q)
  PROVE  BodyOut(p, q, n)
<1>1. q \in TermType /\ q.torn = p.torn /\ SameRest(p, q)
  BY DEF BodyOut, Alike, SameRest
<1>2. BodyOutModes(p, q, n)
  BY DEF BodyOut, BodyOutModes, Alike, SameField
<1>3. BodyOutPlace(p, q, n)
  BY DEF BodyOut, BodyOutPlace, Alike, SamePlace
<1>4. (n.tok \in {"PP", "UR"} => p.col = FALSE) => q.col = FALSE
  BY DEF BodyOut, Alike
<1>5. BodyOutStack(p, q, n)
  BY DEF BodyOut, BodyOutStack, Alike, SameStack, Popped
<1> QED BY <1>1, <1>2, <1>3, <1>4, <1>5 DEF BodyOut

\* Leaving a body, for every macro.
LEMMA BodyIsLeft ==
  ASSUME NEW p \in TermType, NEW n, n.type = "body", n.tok \in BlockToks, n.aux \in Int,
         n.tok = "RS" => p.sz >= 1,
         NEW q, q = Term!Post(p, n)
  PROVE  BodyOut(p, q, n)
<1>1. CASE n.tok \in Items \cup {"SY"}
  <2>0. n.tok \notin {"PP", "UR", "HP", "RS"} \cup Sections
    BY <1>1 DEF Items, Sections
  <2>1. Shifted(p, q, p.offset, p.rm) /\ SameField(p, q)
    BY <1>1, BodyItemPost
  <2>2. BodyOutModes(p, q, n)
    BY <2>0, <2>1 DEF BodyOutModes
  <2>3. BodyOutPlace(p, q, n)
    BY <2>0, <2>1 DEF BodyOutPlace, Shifted
  <2> QED BY <2>0, <2>1, <2>2, <2>3 DEF BodyOut, BodyOutStack, Shifted
<1>2. CASE n.tok = "HP"
  <2>0. n.tok \notin {"PP", "UR", "RS", "SY"} \cup Sections \cup Items
    BY <1>2 DEF Items, Sections
  <2>1. /\ Shifted(p, q, p.offset, 78) /\ q.trail = 0
        /\ Modes(q) = Modes(p) \ {"nobreak", "brind"}
    BY <1>2, BodyHPPost
  <2>2. BodyOutModes(p, q, n)
    BY <1>2, <2>1 DEF BodyOutModes
  <2>3. BodyOutPlace(p, q, n)
    BY <2>0, <2>1 DEF BodyOutPlace, Shifted
  <2> QED BY <2>0, <2>1, <2>2, <2>3 DEF BodyOut, BodyOutStack, Shifted
<1>3. CASE n.tok \in Sections
  <2>0. n.tok \notin {"PP", "UR", "HP", "RS", "SY"} \cup Items
    BY <1>3 DEF Items, Sections
  <2>1. q \in TermType /\ Written(p, q)
    BY <1>3, BodySectionPost
  <2>2. BodyOutModes(p, q, n)
    BY <2>0, <2>1 DEF BodyOutModes, Written
  <2>3. BodyOutPlace(p, q, n)
    BY <2>0, <2>1 DEF BodyOutPlace, Written
  <2> QED BY <2>0, <2>1, <2>2, <2>3 DEF BodyOut, BodyOutStack, Written
<1>4. CASE n.tok = "RS"
  <2>0. n.tok \notin {"PP", "UR", "HP", "SY"} \cup Items \cup Sections
    BY <1>4 DEF Items, Sections
  <2>1. RSLeft(p, q, n.aux)
    <3>1. p.sz >= 1
      BY <1>4
    <3> QED BY <1>4, <3>1, BodyRSPost
  <2>2. BodyOutModes(p, q, n)
    BY <2>0, <2>1 DEF BodyOutModes, RSLeft
  <2>3. BodyOutPlace(p, q, n)
    BY <2>0, <2>1 DEF BodyOutPlace, RSLeft
  <2>4. BodyOutStack(p, q, n)
    BY <1>4, <2>1 DEF BodyOutStack, RSLeft
  <2> QED BY <2>0, <2>1, <2>2, <2>3, <2>4 DEF BodyOut, RSLeft
<1>5. CASE n.tok \in {"PP", "UR"}
  <2>0. n.tok \notin {"RS", "HP", "SY"} \cup Items \cup Sections
    BY <1>5 DEF Items, Sections
  <2>1. q = p
    BY <1>5, NoPost
  <2>2. BodyOutModes(p, q, n)
    BY <2>0, <2>1, SameIs DEF BodyOutModes
  <2>3. BodyOutPlace(p, q, n)
    BY <2>0, <2>1, SameIs DEF BodyOutPlace
  <2> QED BY <1>5, <2>0, <2>1, <2>2, <2>3, SameIs DEF BodyOut, BodyOutStack
<1> QED BY <1>1, <1>2, <1>3, <1>4, <1>5 DEF BlockToks, Paragraphs, Items

\* What happens when a block or an element n was printed.
RestOut(p, q, n, parent) ==
  /\ q \in TermType /\ q.torn = p.torn /\ SameStack(p, q) /\ SameRest(p, q) /\ SameField(p, q)
  /\ SamePlace(p, q) \/ (Sticks(n, parent) /\ q.off = p.rm % 4096 /\ q.rm = 78)
  /\ n.type = "block" /\ n.tok # "UR" /\ p.col = FALSE => q.col = FALSE

\* Leaving a block or an element, which have no post handlers but that of .UR.
LEMMA RestIsLeft ==
  ASSUME NEW p \in TermType, NEW n, n.nofill \in BOOLEAN, NEW parent,
         \/ n.type = "block" /\ n.tok \in BlockToks
         \/ n.type = "elem" /\ n.tok \in Elements,
         NEW o, o = Term!Leave(p, n, parent),
         NEW q, q = [o EXCEPT !.ret = TRUE]
  PROVE  RestOut(p, q, n, parent)
<1> DEFINE m == Term!Post(p, n)
<1>1. o = Term!Hang(m, n, parent)
  BY DEF Term!Leave
<1>2. Plainly(p, m) /\ (n.type = "block" /\ n.tok # "UR" => m = p)
  <2>1. CASE n.type = "block" /\ n.tok = "UR"
    BY <2>1, BlockURPost
  <2>2. CASE ~(n.type = "block" /\ n.tok = "UR")
    <3>1. m = p
      BY <2>2, NoPost
    <3> QED BY <3>1, PlainSelf
  <2> QED BY <2>1, <2>2
<1> HIDE DEF m
<1>3. m \in TermType
  BY <1>2 DEF Plainly
<1>4. IF Sticks(n, parent) THEN Shifted(m, o, m.rm, 78) /\ SameField(m, o) ELSE o = m
  BY <1>1, <1>3, HangIs
<1>5. /\ o \in TermType /\ o.torn = p.torn /\ SameStack(p, o) /\ SameRest(p, o) /\ SameField(p, o)
  <2>1. CASE Sticks(n, parent)
    BY <1>2, <1>4, <2>1 DEF Plainly, Shifted, SameStack, SameRest, SameField
  <2>2. CASE ~Sticks(n, parent)
    BY <1>2, <1>4, <2>2 DEF Plainly
  <2> QED BY <2>1, <2>2
<1>6. SamePlace(p, o) \/ (Sticks(n, parent) /\ o.off = p.rm % 4096 /\ o.rm = 78)
  <2>1. CASE Sticks(n, parent)
    BY <1>2, <1>4, <2>1 DEF Plainly, Shifted, SamePlace
  <2>2. CASE ~Sticks(n, parent)
    BY <1>2, <1>4, <2>2 DEF Plainly
  <2> QED BY <2>1, <2>2
<1>7. n.type = "block" /\ n.tok # "UR" /\ p.col = FALSE => o.col = FALSE
  <2>1. CASE Sticks(n, parent)
    BY <1>4, <2>1 DEF Shifted
  <2>2. CASE ~Sticks(n, parent)
    BY <1>2, <1>4, <2>2
  <2> QED BY <2>1, <2>2
<1>8. o \in TermType
  BY <1>5
<1>9. Alike(o, q)
  BY <1>8, SettleAlike
<1>10. /\ q \in TermType /\ q.torn = p.torn /\ SameStack(p, q) /\ SameRest(p, q)
       /\ SameField(p, q)
  BY <1>5, <1>9 DEF Alike, SameStack, SameRest, SameField
<1>11. SamePlace(p, q) \/ (Sticks(n, parent) /\ q.off = p.rm % 4096 /\ q.rm = 78)
  BY <1>6, <1>9 DEF Alike, SamePlace
<1>12. n.type = "block" /\ n.tok # "UR" /\ p.col = FALSE => q.col = FALSE
  BY <1>7, <1>9 DEF Alike
<1> QED BY <1>10, <1>11, <1>12 DEF RestOut

\* Leaving a head or a body, all of print_man_node() after the children.
LEMMA PartsAreLeft ==
  ASSUME NEW p \in TermType, NEW n, n.nofill \in BOOLEAN, n.type \in {"head", "body"},
         n.tok \in BlockToks, n.aux \in Int, n.tok = "RS" /\ n.type = "body" => p.sz >= 1,
         NEW parent, parent.type = "block",
         NEW o, o = Term!Leave(p, n, parent),
         NEW q, q = [o EXCEPT !.ret = TRUE]
  PROVE  IF n.type = "head" THEN HeadOut(p, q, n) ELSE BodyOut(p, q, n)
<1> DEFINE m == Term!Post(p, n)
<1>1. o = Term!Hang(m, n, parent)
  BY DEF Term!Leave
<1>2. ~Sticks(n, parent)
  BY DEF Sticks
<1>3. CASE n.type = "head"
  <2>1. HeadOut(p, m, n)
    BY <1>3, HeadIsLeft
  <2> HIDE DEF m
  <2>2. m \in TermType
    BY <2>1 DEF HeadOut
  <2>3. o = m
    BY <1>1, <1>2, <2>2, HangIs
  <2>4. Alike(m, q)
    BY <2>2, <2>3, SettleAlike
  <2> QED BY <1>3, <2>1, <2>4, HeadOutAlike
<1>4. CASE n.type = "body"
  <2>1. BodyOut(p, m, n)
    BY <1>4, BodyIsLeft
  <2> HIDE DEF m
  <2>2. m \in TermType
    BY <2>1 DEF BodyOut
  <2>3. o = m
    BY <1>1, <1>2, <2>2, HangIs
  <2>4. Alike(m, q)
    BY <2>2, <2>3, SettleAlike
  <2> QED BY <1>4, <2>1, <2>4, BodyOutAlike
<1> QED BY <1>3, <1>4

-----------------------------------------------------------------------------
\* The RS blocks that are open in the path p.
Nested(p) == {i \in 1..Len(p) : p[i].tok = "RS" /\ p[i].type = "body"}

\* The walk of the terminal formatter: the tree, and the stack of widths is as high as
\* blocks are open.
TermInv ==
  /\ menu \in Menus /\ nf \in BOOLEAN
  /\ fmt = "term" =>
       PathOK(path) /\ out \in TermType /\ out.sz = Cardinality(Nested(path))

\* The bodies of .RS on a path are finitely many.
LEMMA NestedIs ==
  ASSUME NEW p \in Seq(NodeType)
  PROVE  IsFiniteSet(Nested(p)) /\ Cardinality(Nested(p)) \in Nat /\ Nested(p) \subseteq 1..Len(p)
<1>1. Nested(p) \subseteq 1..Len(p)
  BY DEF Nested
<1>2. IsFiniteSet(1..Len(p))
  BY FS_Interval
<1> QED BY <1>1, <1>2, FS_Subset, FS_CardinalityType

\* The path with its last node seen in another state.
LEMMA NestedStart ==
  ASSUME NEW p, NEW q, PathOK(p), Start(p, q), Len(q) = Len(p)
  PROVE  Nested(q) = Nested(p)
<1>1. Len(p) \in Nat
  BY DEF PathOK
<1>2. \A i \in 1..Len(p) : q[i].tok = p[i].tok /\ q[i].type = p[i].type
  <2> TAKE i \in 1..Len(p)
  <2>1. CASE i = Len(p)
    BY <2>1 DEF Start, Like
  <2>2. CASE i # Len(p)
    BY <1>1, <2>2 DEF Start
  <2> QED BY <2>1, <2>2
<1> QED BY <1>2 DEF Nested

\* Entering the body of .RS adds one to them,
LEMMA NestedMore ==
  ASSUME NEW q \in Seq(NodeType), NEW x \in NodeType, NEW r, Plus(NodeType, q, x, r)
  PROVE  /\ Nested(r) = IF x.tok = "RS" /\ x.type = "body" THEN Nested(q) \cup {Len(q) + 1}
                        ELSE Nested(q)
         /\ Cardinality(Nested(r)) = Cardinality(Nested(q)) +
                                     IF x.tok = "RS" /\ x.type = "body" THEN 1 ELSE 0
<1>1. Len(q) \in Nat /\ Len(r) = Len(q) + 1 /\ r[Len(q) + 1] = x
  BY DEF Plus
<1>2. \A i \in 1..Len(q) : r[i] = q[i]
  BY DEF Plus
<1>3. 1..Len(r) = 1..Len(q) \cup {Len(q) + 1}
  BY <1>1
<1>4. Nested(r) = IF x.tok = "RS" /\ x.type = "body" THEN Nested(q) \cup {Len(q) + 1}
                  ELSE Nested(q)
  <2>1. CASE x.tok = "RS" /\ x.type = "body"
    BY <1>1, <1>2, <1>3, <2>1 DEF Nested
  <2>2. CASE ~(x.tok = "RS" /\ x.type = "body")
    BY <1>1, <1>2, <1>3, <2>2 DEF Nested
  <2> QED BY <2>1, <2>2
<1>5. IsFiniteSet(Nested(q)) /\ Cardinality(Nested(q)) \in Nat /\ Nested(q) \subseteq 1..Len(q)
  BY NestedIs
<1>6. Len(q) + 1 \notin Nested(q)
  BY <1>1, <1>5
<1>7. Cardinality(Nested(q) \cup {Len(q) + 1}) = Cardinality(Nested(q)) + 1
  BY <1>5, <1>6, FS_AddElement
<1> QED BY <1>4, <1>5, <1>7

\* q is p without its last node.
Shorter(p, q) ==
  /\ q \in Seq(NodeType) /\ Len(q) = Len(p) - 1
  /\ \A i \in 1..(Len(p) - 1) : q[i] = p[i]

\* and leaving it takes that one away.
LEMMA NestedLess ==
  ASSUME NEW p \in Seq(NodeType), Len(p) >= 2, NEW q, Shorter(p, q)
  PROVE  Cardinality(Nested(p)) = Cardinality(Nested(q)) +
                                  IF p[Len(p)].tok = "RS" /\ p[Len(p)].type = "body" THEN 1 ELSE 0
<1>1. Len(p) \in Nat /\ p[Len(p)] \in NodeType
  <2>1. Len(p) \in 1..Len(p)
    OBVIOUS
  <2> QED BY <2>1, SeqElem
<1>2. Plus(NodeType, q, p[Len(p)], p)
  BY <1>1 DEF Shorter, Plus
<1>3. q \in Seq(NodeType)
  BY DEF Shorter
<1> QED BY <1>1, <1>2, <1>3, NestedMore

-----------------------------------------------------------------------------
\* The steps on the terminal, with what the handlers are called with.
Begun(n, b, o, x) ==
  /\ b = Term!Begin(out, n) /\ o = Term!Pre(b, n, Top.prev, Top.tok)
  /\ out' = [o EXCEPT !.ret = TRUE]
  /\ path' = Append(Visited(n), x)
  /\ x = [n EXCEPT !.skip = ~o.ret, !.sv = 0,
                   !.aux = IF n.tok = "RS" THEN o.offset - out.offset ELSE 0]

\* EnterNode, for the terminal.
LEMMA EnterIs ==
  ASSUME fmt = "term", EnterNode
  PROVE  /\ CanHaveMore /\ fmt' = "term" /\ menu' = menu
         /\ \E n \in NextParts \cup NextBlocks \cup NextElems :
              /\ Fits(n) /\ nf' = (IF n.type \in {"block", "elem"} THEN FillAfter(n) ELSE nf)
              /\ \E b, o, x : Begun(n, b, o, x)
<1>1. PICK n \in NextParts \cup NextBlocks \cup NextElems :
         /\ Fits(n)
         /\ nf' = IF n.type \in {"block", "elem"} THEN FillAfter(n) ELSE nf
         /\ \E b \in {Prepared(n)} : \E o \in {Entered(b, n)} :
              /\ out' = Settle(o)
              /\ path' = Append(Relink(Visited(n), o),
                                [n EXCEPT !.skip = ~o.ret,
                                          !.sv = IF fmt = "html" THEN Len(b.tags) ELSE 0,
                                          !.aux = IF fmt = "term" /\ n.tok = "RS"
                                                  THEN o.offset - out.offset ELSE 0])
  BY DEF EnterNode
<1> DEFINE b == Term!Begin(out, n)
           o == Term!Pre(b, n, Top.prev, Top.tok)
           x == [n EXCEPT !.skip = ~o.ret, !.sv = 0,
                          !.aux = IF n.tok = "RS" THEN o.offset - out.offset ELSE 0]
<1>2. Prepared(n) = b /\ Entered(b, n) = o
  BY DEF Prepared, Entered, Term!Enter
<1>3. Settle(o) = [o EXCEPT !.ret = TRUE] /\ Relink(Visited(n), o) = Visited(n)
  BY DEF Settle, Relink
<1> HIDE DEF b, o
<1>4. out' = [o EXCEPT !.ret = TRUE] /\ path' = Append(Visited(n), x)
  BY <1>1, <1>2, <1>3
<1>5. Begun(n, b, o, x)
  BY <1>4 DEF Begun, b, o
<1>6. CanHaveMore /\ fmt' = "term" /\ menu' = menu
  BY DEF EnterNode
<1> HIDE DEF x
<1> QED BY <1>1, <1>5, <1>6

\* VisitLeaf, for the terminal.
LEMMA LeafStepIs ==
  ASSUME fmt = "term", VisitLeaf
  PROVE  /\ CanHaveMore /\ fmt' = "term" /\ menu' = menu
         /\ \E n \in NextLeaves :
              /\ Fits(n) /\ nf' = FillAfter(n)
              /\ out' = [Term!Leaf(Term!Begin(out, n), n, Visited(n)[Len(path)])
                            EXCEPT !.ret = TRUE]
              /\ path' = Visited(n)
BY DEF VisitLeaf, Prepared, Printed, Settle, Relink

\* LeaveNode, for the terminal.
LEMMA LeaveIs ==
  ASSUME fmt = "term", LeaveNode
  PROVE  /\ CanLeave /\ fmt' = "term" /\ menu' = menu /\ nf' = nf
         /\ out' = [Term!Leave(out, Top, path[Len(path) - 1]) EXCEPT !.ret = TRUE]
         /\ path' = [Front(path)
                       EXCEPT ![Len(Front(path))] = Returned(Front(path)[Len(Front(path))])]
BY DEF LeaveNode, Left, Settle, Relink

\* The path of the node that is left, whose parent remembers it.
LEMMA LeavePath ==
  ASSUME PathOK(path), Len(path) >= 2,
         path' = [Front(path) EXCEPT ![Len(Front(path))] = Returned(Front(path)[Len(Front(path))])]
  PROVE  /\ Start(path, path') /\ Len(path') = Len(path) - 1
         /\ path'[Len(path')].count = path[Len(path) - 1].count
         /\ path'[Len(path')].prev =
              IF Top.type = "body" /\ Top.tok \in Sections /\ Top.count = 0 THEN "empty"
              ELSE IF Top.type = "block" /\ Top.tok \in Sections THEN Trace(Top)
              ELSE path[Len(path) - 1].prev
<1> DEFINE k == Len(path) - 1
           f == Front(path)
           a == path[k]
           z == Returned(a)
<1>1. path \in Seq(NodeType) /\ Len(path) \in Nat /\ k \in Nat /\ k >= 1 /\ k \in 0..Len(path)
      /\ k \in 1..Len(path)
  BY DEF PathOK
<1>2. f = SubSeq(path, 1, k)
  BY DEF Front
<1> HIDE DEF f
<1>3. Prefix(NodeType, path, k, f)
  BY <1>1, <1>2, Cut
<1>4. Len(f) = k /\ f \in Seq(NodeType) /\ \A m \in 1..k : f[m] = path[m]
  BY <1>3 DEF Prefix
<1>5. f[k] = a
  BY <1>1, <1>4
<1>6. path' = [f EXCEPT ![k] = z]
  BY <1>4, <1>5 DEF f
<1>7. a \in NodeType /\ Top \in NodeType /\ Good(Top)
  <2>1. Len(path) \in 1..Len(path)
    BY <1>1
  <2> QED BY <1>1, <2>1, SeqElem DEF Top, PathOK
<1> DEFINE th == IF Top.type = "block" /\ Top.list # "none" THEN Top.after ELSE "any"
           pv == IF Top.type = "body" /\ Top.tok \in Sections /\ Top.count = 0 THEN "empty"
                 ELSE IF Top.type = "block" /\ Top.tok \in Sections THEN Trace(Top)
                 ELSE a.prev
<1>8. z = [a EXCEPT !.then = th, !.prev = pv]
  BY DEF Returned
<1>9. th \in Followers /\ pv \in Siblings
  <2>1. Trace(Top) \in Siblings
    BY <1>7, TraceIs DEF NodeType
  <2>2. "any" \in Followers /\ "empty" \in Siblings
    BY DEF Followers, Siblings
  <2>3. Top.after \in Followers
    BY <1>7 DEF NodeType, Followers
  <2>4. a.prev \in Siblings
    BY <1>7 DEF NodeType
  <2> QED BY <2>1, <2>2, <2>3, <2>4
<1>10. pv = IF Top.type = "body" /\ Top.tok \in Sections /\ Top.count = 0 THEN "empty"
            ELSE IF Top.type = "block" /\ Top.tok \in Sections THEN Trace(Top)
            ELSE path[Len(path) - 1].prev
  OBVIOUS
<1>11. k = Len(path) - 1 /\ a = path[k]
  OBVIOUS
<1> HIDE DEF th, pv, z, k, a
<1>12. z \in NodeType /\ Like(z, a) /\ z.count = a.count /\ z.prev = pv
  <2>1. z \in NodeType
    BY <1>7, <1>8, <1>9 DEF NodeType
  <2>2. Like(z, a) /\ z.count = a.count /\ z.prev = pv
    BY <1>7, <1>8 DEF NodeType, Like
  <2> QED BY <2>1, <2>2
<1>13. Put(NodeType, f, k, z, path')
  <2>1. k \in 1..Len(f)
    BY <1>1, <1>4
  <2> QED BY <1>4, <1>6, <1>12, <2>1, Replaced
<1>14. path' \in Seq(NodeType) /\ Len(path') = k /\ path'[k] = z
  BY <1>1, <1>4, <1>13 DEF Put
<1>15. \A i \in 1..(k - 1) : path'[i] = path[i]
  BY <1>1, <1>4, <1>13 DEF Put
<1>16. Start(path, path')
  BY <1>1, <1>11, <1>12, <1>14, <1>15 DEF Start
<1> QED BY <1>10, <1>11, <1>12, <1>14, <1>16

-----------------------------------------------------------------------------
\* The node x is n, as it is remembered while it is visited.
Kept(n, x) ==
  /\ x.tok = n.tok /\ x.type = n.type /\ x.w = n.w /\ x.first = n.first /\ x.list = n.list
  /\ x.nofill = n.nofill /\ x.count = 0 /\ x.prev = "start"

\* The node as it is put on the path: its pre handler has said what it returned.
Entry(n, r, a) == [n EXCEPT !.skip = r, !.sv = 0, !.aux = a]

\* That is a node of the type, and only what the handler said is changed.
LEMMA NodeIs ==
  ASSUME NEW n, Fresh(n), NEW r \in BOOLEAN, NEW a \in Int, NEW x, x = Entry(n, r, a)
  PROVE  x \in NodeType /\ Kept(n, x) /\ x.skip = r /\ x.aux = a
<1>1. n \in NodeType /\ n.count = 0 /\ n.prev = "start"
  BY DEF Fresh
<1>2. x \in NodeType
  <2>1. ASSUME NEW v \in Int PROVE [n EXCEPT !.skip = r, !.sv = v, !.aux = a] \in NodeType
    BY <1>1 DEF NodeType, Entry
  <2>2. 0 \in Int
    OBVIOUS
  <2> QED BY <2>1, <2>2 DEF Entry
<1>3. x.skip = r /\ x.aux = a /\ x.count = 0 /\ x.prev = "start"
  BY <1>1 DEF NodeType, Entry
<1>4. x.tok = n.tok /\ x.type = n.type /\ x.w = n.w /\ x.first = n.first /\ x.list = n.list
      /\ x.nofill = n.nofill
  BY <1>1 DEF NodeType, Entry
<1> QED BY <1>2, <1>3, <1>4 DEF Kept

\* r is the path p with x entered below its last node, which remembers t.
Grown(p, r, x, t) ==
  /\ Len(p) \in Nat /\ Len(p) >= 1 /\ Len(r) = Len(p) + 1 /\ r[Len(r)] = x
  /\ \A i \in 1..(Len(p) - 1) : r[i] = p[i]
  /\ Like(r[Len(p)], p[Len(p)]) /\ r[Len(p)].prev = t
  /\ r[Len(p)].count = IF p[Len(p)].count < 2 THEN p[Len(p)].count + 1 ELSE 2

\* What is known of the tree in which the node is entered.
LEMMA GrowIs ==
  ASSUME PathOK(path), NEW n, Trace(n) \in Siblings, NEW x \in NodeType, Good(x),
         Below([Top EXCEPT !.count = IF Top.count < 2 THEN Top.count + 1 ELSE 2], x),
         path' = Append(Visited(n), x)
  PROVE  /\ PathOK(path') /\ Grown(path, path', x, Trace(n))
         /\ Cardinality(Nested(path')) = Cardinality(Nested(path)) +
              IF x.tok = "RS" /\ x.type = "body" THEN 1 ELSE 0
<1> DEFINE q == Visited(n)
           k == Len(path)
<1>1. path \in Seq(NodeType) /\ k \in Nat /\ k >= 1 /\ k \in 1..k /\ Top = path[k]
      /\ Top \in NodeType
  <2>1. path \in Seq(NodeType) /\ k \in Nat /\ k >= 1 /\ k \in 1..k /\ Top = path[k]
    BY DEF PathOK, Top
  <2> QED BY <2>1, SeqElem
<1>2. Seen(path, q, Trace(n))
  BY <1>1, VisitedIs
<1>3. path' = Append(q, x)
  OBVIOUS
<1> HIDE DEF q
<1>4. Start(path, q) /\ Len(q) = k
  BY <1>1, <1>2 DEF Seen, Start
<1>5. PathOK(q)
  BY <1>4, PathStart
<1>6. Below(q[k], x)
  <2> DEFINE z == [Top EXCEPT !.count = IF Top.count < 2 THEN Top.count + 1 ELSE 2]
  <2>1. z.tok = Top.tok /\ z.type = Top.type
        /\ z.count = IF Top.count < 2 THEN Top.count + 1 ELSE 2
    BY <1>1 DEF NodeType
  <2>2. Below(z, x)
    OBVIOUS
  <2> HIDE DEF z
  <2>3. q[k].tok = Top.tok /\ q[k].type = Top.type /\ q[k].count = z.count
    BY <1>1, <1>2, <2>1 DEF Seen, Like
  <2> QED BY <2>1, <2>2, <2>3 DEF Below, Heir
<1>7. PathOK(path') /\ Plus(NodeType, q, x, path')
  BY <1>3, <1>4, <1>5, <1>6, PathMore
<1>8. Len(path') = k + 1 /\ path'[k + 1] = x
  BY <1>4, <1>7 DEF Plus
<1>9. \A i \in 1..k : path'[i] = q[i]
  BY <1>4, <1>7 DEF Plus
<1>10. \A i \in 1..(k - 1) : path'[i] = path[i]
  <2> TAKE i \in 1..(k - 1)
  <2>1. i \in 1..k
    BY <1>1
  <2>2. q[i] = path[i]
    BY <1>2 DEF Seen
  <2> QED BY <1>9, <2>1, <2>2
<1>11. Like(path'[k], Top) /\ path'[k].prev = Trace(n)
       /\ path'[k].count = IF Top.count < 2 THEN Top.count + 1 ELSE 2
  BY <1>1, <1>2, <1>9 DEF Seen
<1>12. Grown(path, path', x, Trace(n))
  BY <1>1, <1>8, <1>10, <1>11 DEF Grown
<1>13. Nested(q) = Nested(path)
  BY <1>4, NestedStart
<1>14. q \in Seq(NodeType)
  BY <1>5 DEF PathOK
<1>15. Cardinality(Nested(path')) = Cardinality(Nested(q)) +
         IF x.tok = "RS" /\ x.type = "body" THEN 1 ELSE 0
  BY <1>7, <1>14, NestedMore
<1> QED BY <1>7, <1>12, <1>13, <1>15

\* The node on top of the path.
LEMMA TopIs ==
  ASSUME PathOK(path)
  PROVE  /\ Top = path[Len(path)] /\ Top \in NodeType /\ Good(Top)
         /\ Len(path) \in Nat /\ Len(path) >= 1
<1>1. path \in Seq(NodeType) /\ Len(path) \in Nat /\ Len(path) >= 1 /\ Len(path) \in 1..Len(path)
  BY DEF PathOK
<1> QED BY <1>1, SeqElem DEF Top, PathOK

\* An own entry of n.skip, !.sv and !.aux.
LEMMA BegunIs ==
  ASSUME NEW n, Fresh(n), NEW b, NEW o, o.ret \in BOOLEAN, o.offset \in Int, out.offset \in Int,
         NEW x, Begun(n, b, o, x)
  PROVE  /\ x \in NodeType /\ Kept(n, x) /\ x.skip = ~o.ret
         /\ x.aux = IF n.tok = "RS" THEN o.offset - out.offset ELSE 0
<1> DEFINE r == ~o.ret
           a == IF n.tok = "RS" THEN o.offset - out.offset ELSE 0
<1>1. r \in BOOLEAN /\ a \in Int
  OBVIOUS
<1>2. x = Entry(n, r, a)
  BY DEF Begun, Entry
<1> HIDE DEF r, a
<1>3. x \in NodeType /\ Kept(n, x) /\ x.skip = r /\ x.aux = a
  BY <1>1, <1>2, NodeIs
<1> QED BY <1>3 DEF r, a

\* The tree and the stack of widths after a node was entered.
LEMMA TreeGrows ==
  ASSUME TermInv, fmt = "term", NEW n, Fresh(n), NEW b, NEW o, o \in TermType,
         NEW x, Begun(n, b, o, x), Good(x),
         Below([Top EXCEPT !.count = IF Top.count < 2 THEN Top.count + 1 ELSE 2], n),
         out' \in TermType,
         out'.sz = out.sz + IF n.tok = "RS" /\ n.type = "body" THEN 1 ELSE 0
  PROVE  /\ PathOK(path') /\ Grown(path, path', x, Trace(n)) /\ Kept(n, x)
         /\ out'.sz = Cardinality(Nested(path'))
<1>1. PathOK(path) /\ out \in TermType /\ out.sz = Cardinality(Nested(path))
  BY DEF TermInv
<1>2. o.ret \in BOOLEAN /\ o.offset \in Int /\ out.offset \in Int
  BY <1>1 DEF TermType
<1>3. x \in NodeType /\ Kept(n, x)
  BY <1>2, BegunIs
<1>4. Trace(n) \in Siblings
  BY TraceIs DEF Fresh, NodeType
<1> DEFINE z == [Top EXCEPT !.count = IF Top.count < 2 THEN Top.count + 1 ELSE 2]
<1>5. Below(z, n)
  OBVIOUS
<1> HIDE DEF z
<1>6. Below(z, x)
  BY <1>3, <1>5 DEF Kept, Below
<1>7. path' = Append(Visited(n), x)
  BY DEF Begun
<1>8. PathOK(path') /\ Grown(path, path', x, Trace(n))
      /\ Cardinality(Nested(path')) = Cardinality(Nested(path)) +
           IF x.tok = "RS" /\ x.type = "body" THEN 1 ELSE 0
  BY <1>1, <1>3, <1>4, <1>6, <1>7, GrowIs DEF z
<1>9. x.tok = n.tok /\ x.type = n.type
  BY <1>3 DEF Kept
<1> QED BY <1>1, <1>3, <1>8, <1>9

-----------------------------------------------------------------------------
\* The node n was entered, and is remembered as x.
Grows(n, x) ==
  /\ PathOK(path') /\ Grown(path, path', x, Trace(n)) /\ Kept(n, x)
  /\ out'.sz = Cardinality(Nested(path'))

\* A step that enters the block n, which is x on the path.
BlockStarts(n, x) ==
  /\ n.type = "block" /\ n.tok \in BlockToks /\ Heir(Top, n.tok) /\ n.tok \in menu.has
  /\ n.w = <<>> \/ n.w \in menu.widths
  /\ n.list # "none" => n.tok \in Items
  /\ n.tok = "TQ" => Top.prev = "tag"
  /\ n.tok = "RS" => Cardinality(Indented) < menu.rs
  /\ n.prev = "start"
  /\ BlockRel(out, out', n, Top.prev) /\ Grows(n, x) /\ x.aux = 0
\* A step that enters a head or a body, which takes over the arguments of its block.
PartStarts(n, x, type, count) ==
  /\ Top.type = "block" /\ Top.count = count /\ n.type = type
  /\ n.tok = Top.tok /\ n.tok \in BlockToks /\ n.w = Top.w /\ n.first = Top.first
  /\ n.nofill = Top.nofill /\ n.w \in Seq(Int)
  /\ n.list # "none" => n.tok \in Items
  /\ n.prev = "start" /\ Grows(n, x)
  /\ x.aux = IF n.tok = "RS" /\ type = "body" THEN out'.offset - out.offset ELSE 0
\* A step that enters a head.
HeadStarts(n, x) == PartStarts(n, x, "head", 0) /\ HeadRel(out, out', n)
\* A step that enters a body.
BodyStarts(n, x) == PartStarts(n, x, "body", 1) /\ BodyRel(out, out', n)
\* A step that enters an element.
ElemStarts(n, x) ==
  /\ n.type = "elem" /\ n.tok \in Elements /\ n.tok \in menu.has /\ n.list = "none"
  /\ Top.type \in {"head", "body"} /\ ~(Top.type = "head" /\ Top.tok \in Skipped)
  /\ n.nofill = TRUE => nf = TRUE
  /\ Hanging => n.tok \notin {"EX", "EE"}
  /\ n.prev = "start" /\ n.w \in {<<>>, << 0 >>}
  /\ ElemStep(out, out', n, Top.tok) /\ Grows(n, x) /\ x.aux = 0

\* nf is a switch.
LEMMA FillIs ==
  ASSUME nf \in BOOLEAN, NEW n
  PROVE  FillAfter(n) \in BOOLEAN
BY DEF FillAfter

\* EnterNode with a block is such a step,
LEMMA BlockEntered ==
  ASSUME TermInv, fmt = "term", NEW n \in NextBlocks, NEW b, NEW o, NEW x, Begun(n, b, o, x)
  PROVE  BlockStarts(n, x)
<1>1. PathOK(path) /\ out \in TermType /\ menu \in Menus /\ nf \in BOOLEAN
  BY DEF TermInv
<1>2. Top \in NodeType /\ Good(Top)
  BY <1>1, TopIs
<1>3. /\ Fresh(n) /\ n.type = "block"
      /\ Heir(Top, n.tok) /\ n.tok \in BlockToks /\ n.tok \in menu.has
      /\ n.w = <<>> \/ n.w \in menu.widths
      /\ n.list # "none" => n.tok \in Items
      /\ n.tok = "RS" => Cardinality(Indented) < menu.rs
      /\ n.tok = "TQ" => Top.prev = "tag"
      /\ n.tok = "HP" => n.first # "any"
  BY <1>1, <1>2, BlockIs
<1>4. n \in NodeType /\ n.prev = "start"
  BY <1>3 DEF Fresh
<1>5. b = Term!Begin(out, n) /\ o = Term!Pre(b, n, Top.prev, Top.tok)
      /\ out' = [o EXCEPT !.ret = TRUE]
  BY DEF Begun
<1>6. BlockRel(out, out', n, Top.prev) /\ o.ret = TRUE /\ o \in TermType
      /\ o.offset = out'.offset
  <2>1. BlockGoes(out, o, out', n, Top.prev)
    BY <1>1, <1>3, <1>4, <1>5, BlockRuns
  <2> QED BY <2>1 DEF BlockGoes
<1>7. out' \in TermType /\ out'.sz = out.sz /\ (n.tok = "RS" => out'.offset = out.offset)
  BY <1>6 DEF BlockRel, Sections
<1>8. o.ret \in BOOLEAN /\ o.offset \in Int /\ out.offset \in Int /\ out.sz \in Int
  BY <1>1, <1>6 DEF TermType
<1>9. x \in NodeType /\ Kept(n, x) /\ x.skip = ~o.ret
      /\ x.aux = IF n.tok = "RS" THEN o.offset - out.offset ELSE 0
  BY <1>3, <1>8, BegunIs
<1>10. x.aux = 0
  BY <1>6, <1>7, <1>8, <1>9
<1>11. x.skip = FALSE
  BY <1>6, <1>9
<1>12. Good(x)
  BY <1>3, <1>9, <1>10, <1>11 DEF Good, Kept
<1>13. Below([Top EXCEPT !.count = IF Top.count < 2 THEN Top.count + 1 ELSE 2], n)
  BY <1>2, <1>3 DEF Below, Heir, NodeType
<1>14. out'.sz = out.sz + IF n.tok = "RS" /\ n.type = "body" THEN 1 ELSE 0
  BY <1>3, <1>7, <1>8
<1>15. Grows(n, x)
  BY <1>3, <1>6, <1>7, <1>12, <1>13, <1>14, TreeGrows DEF Grows
<1> QED BY <1>3, <1>4, <1>6, <1>10, <1>15 DEF BlockStarts

\* with a head,
LEMMA HeadEntered ==
  ASSUME TermInv, fmt = "term", NEW n \in NextParts, Top.count = 0, NEW b, NEW o, NEW x,
         Begun(n, b, o, x)
  PROVE  HeadStarts(n, x)
<1>1. PathOK(path) /\ out \in TermType
  BY DEF TermInv
<1>2. Top \in NodeType /\ Good(Top)
  BY <1>1, TopIs
<1>3. /\ Top.type = "block" /\ Top.count \in {0, 1}
      /\ Fresh(n) /\ n.type = IF Top.count = 0 THEN "head" ELSE "body"
      /\ n.tok = Top.tok /\ n.list = Top.list /\ n.w = Top.w /\ n.first = Top.first
      /\ n.nofill = Top.nofill
  BY <1>2, PartIs
<1>4. n \in NodeType /\ n.prev = "start" /\ n.type = "head" /\ n.w \in Seq(Int)
  BY <1>3 DEF Fresh, NodeType
<1>5. n.tok \in BlockToks /\ (n.list # "none" => n.tok \in Items)
      /\ (n.tok = "HP" => n.first # "any")
  BY <1>2, <1>3 DEF Good
<1>6. b = Term!Begin(out, n) /\ o = Term!Pre(b, n, Top.prev, Top.tok)
      /\ out' = [o EXCEPT !.ret = TRUE]
  BY DEF Begun
<1>7. HeadRel(out, out', n) /\ (n.tok \in Skipped => o.ret = FALSE)
      /\ o \in TermType /\ o.offset = out.offset
  <2>1. HeadGoes(out, o, out', n)
    BY <1>1, <1>4, <1>5, <1>6, HeadRuns
  <2> QED BY <2>1 DEF HeadGoes
<1>8. out' \in TermType /\ out'.sz = out.sz
  BY <1>7 DEF HeadRel, HeadStack, SameStack, Widened
<1>9. o.ret \in BOOLEAN /\ o.offset \in Int /\ out.offset \in Int /\ out.sz \in Int
  BY <1>1, <1>7 DEF TermType
<1>10. x \in NodeType /\ Kept(n, x) /\ x.skip = ~o.ret
       /\ x.aux = IF n.tok = "RS" THEN o.offset - out.offset ELSE 0
  BY <1>3, <1>9, BegunIs
<1>11. x.aux = 0
  BY <1>7, <1>9, <1>10
<1>12. n.tok \in Skipped => x.skip = TRUE
  BY <1>7, <1>10
<1>13. Good(x)
  BY <1>4, <1>5, <1>10, <1>11, <1>12 DEF Good, Kept, Skipped
<1>14. Below([Top EXCEPT !.count = IF Top.count < 2 THEN Top.count + 1 ELSE 2], n)
  BY <1>2, <1>3, <1>4 DEF Below, NodeType
<1>15. out'.sz = out.sz + IF n.tok = "RS" /\ n.type = "body" THEN 1 ELSE 0
  BY <1>4, <1>8, <1>9
<1>16. Grows(n, x)
  BY <1>3, <1>7, <1>8, <1>13, <1>14, <1>15, TreeGrows DEF Grows
<1>17. PartStarts(n, x, "head", 0)
  BY <1>3, <1>4, <1>5, <1>11, <1>16 DEF PartStarts
<1> QED BY <1>7, <1>17 DEF HeadStarts

\* with a body,
LEMMA BodyEntered ==
  ASSUME TermInv, fmt = "term", NEW n \in NextParts, Top.count # 0, NEW b, NEW o, NEW x,
         Begun(n, b, o, x)
  PROVE  BodyStarts(n, x)
<1>1. PathOK(path) /\ out \in TermType /\ out.sz = Cardinality(Nested(path))
  BY DEF TermInv
<1>2. Top \in NodeType /\ Good(Top)
  BY <1>1, TopIs
<1>3. /\ Top.type = "block" /\ Top.count \in {0, 1}
      /\ Fresh(n) /\ n.type = IF Top.count = 0 THEN "head" ELSE "body"
      /\ n.tok = Top.tok /\ n.list = Top.list /\ n.w = Top.w /\ n.first = Top.first
      /\ n.nofill = Top.nofill
  BY <1>2, PartIs
<1>4. n \in NodeType /\ n.prev = "start" /\ n.type = "body" /\ n.w \in Seq(Int)
      /\ Top.count = 1
  BY <1>3 DEF Fresh, NodeType
<1>5. n.tok \in BlockToks /\ (n.list # "none" => n.tok \in Items)
      /\ (n.tok = "HP" => n.first # "any")
  BY <1>2, <1>3 DEF Good
<1>6. b = Term!Begin(out, n) /\ o = Term!Pre(b, n, Top.prev, Top.tok)
      /\ out' = [o EXCEPT !.ret = TRUE]
  BY DEF Begun
<1>s. out.sz >= 0
  <2>1. path \in Seq(NodeType)
    BY <1>1 DEF PathOK
  <2>2. Cardinality(Nested(path)) \in Nat
    BY <2>1, NestedIs
  <2> QED BY <1>1, <2>2
<1>7. BodyRel(out, out', n) /\ o \in TermType /\ o.offset = out'.offset
  BY <1>1, <1>4, <1>5, <1>6, <1>s, BodyRuns
<1>8. out' \in TermType /\ out'.sz = out.sz + IF n.tok = "RS" THEN 1 ELSE 0
  <2>1. out' \in TermType /\ BodyStack(out, out', n)
    BY <1>7 DEF BodyRel
  <2>2. out.sz \in Int
    BY <1>1 DEF TermType
  <2>3. CASE n.tok = "RS"
    <3>1. n.tok \notin Items
      BY <2>3 DEF Items
    <3> QED BY <2>1, <2>3, <3>1 DEF BodyStack, Pushed
  <2>4. CASE n.tok # "RS"
    <3>1. out'.sz = out.sz
      BY <2>1, <2>4 DEF BodyStack, Widened, SameStack
    <3> QED BY <2>1, <2>2, <2>4, <3>1
  <2> QED BY <2>3, <2>4
<1>9. o.ret \in BOOLEAN /\ o.offset \in Int /\ out.offset \in Int /\ out.sz \in Int
  BY <1>1, <1>7 DEF TermType
<1>10. x \in NodeType /\ Kept(n, x) /\ x.skip = ~o.ret
       /\ x.aux = IF n.tok = "RS" THEN o.offset - out.offset ELSE 0
  BY <1>3, <1>9, BegunIs
<1>11. x.aux = IF n.tok = "RS" THEN out'.offset - out.offset ELSE 0
  BY <1>7, <1>10
<1>13. Good(x)
  BY <1>4, <1>5, <1>10, <1>11 DEF Good, Kept
<1>14. Below([Top EXCEPT !.count = IF Top.count < 2 THEN Top.count + 1 ELSE 2], n)
  BY <1>2, <1>3, <1>4 DEF Below, NodeType
<1>15. out'.sz = out.sz + IF n.tok = "RS" /\ n.type = "body" THEN 1 ELSE 0
  BY <1>4, <1>8, <1>9
<1>16. Grows(n, x)
  BY <1>3, <1>7, <1>8, <1>13, <1>14, <1>15, TreeGrows DEF Grows
<1>17. PartStarts(n, x, "body", 1)
  BY <1>3, <1>4, <1>5, <1>11, <1>16 DEF PartStarts
<1> QED BY <1>7, <1>17 DEF BodyStarts

\* and with an element.
LEMMA ElemEntered ==
  ASSUME TermInv, fmt = "term", CanHaveMore, NEW n \in NextElems, NEW b, NEW o, NEW x,
         Begun(n, b, o, x)
  PROVE  ElemStarts(n, x)
<1>1. PathOK(path) /\ out \in TermType /\ menu \in Menus /\ nf \in BOOLEAN
  BY DEF TermInv
<1>2. Top \in NodeType /\ Good(Top)
  BY <1>1, TopIs
<1>3. /\ Fresh(n) /\ n.type = "elem" /\ n.tok \in Elements /\ n.tok \in menu.has
      /\ Top.type \in {"head", "body"}
      /\ n.w \in {<<>>, << 0 >>} /\ n.list = "none"
      /\ n.nofill = TRUE => nf = TRUE
      /\ Hanging => n.tok \notin {"EX", "EE"}
  BY <1>1, ElemIs
<1>4. n \in NodeType /\ n.prev = "start"
  BY <1>3 DEF Fresh
<1>5. ~(Top.type = "head" /\ Top.tok \in Skipped)
  <2>1. ~Top.skip
    BY DEF CanHaveMore
  <2>2. Top.type = "head" /\ Top.tok \in Skipped => Top.skip = TRUE
    BY <1>2 DEF Good, Skipped
  <2> QED BY <2>1, <2>2
<1>6. b = Term!Begin(out, n) /\ o = Term!Pre(b, n, Top.prev, Top.tok)
      /\ out' = [o EXCEPT !.ret = TRUE]
  BY DEF Begun
<1>7. ElemStep(out, out', n, Top.tok) /\ o \in TermType
  BY <1>1, <1>3, <1>4, <1>6, ElemRuns
<1>8. out' \in TermType /\ out'.sz = out.sz
  BY <1>7 DEF ElemStep, SameStack
<1>9. o.ret \in BOOLEAN /\ o.offset \in Int /\ out.offset \in Int /\ out.sz \in Int
  BY <1>1, <1>7 DEF TermType
<1>10. x \in NodeType /\ Kept(n, x) /\ x.skip = ~o.ret
       /\ x.aux = IF n.tok = "RS" THEN o.offset - out.offset ELSE 0
  BY <1>3, <1>9, BegunIs
<1>11. x.aux = 0
  BY <1>3, <1>10 DEF Elements
<1>13. Good(x)
  BY <1>3, <1>10, <1>11 DEF Good, Kept, Elements
<1>14. Below([Top EXCEPT !.count = IF Top.count < 2 THEN Top.count + 1 ELSE 2], n)
  BY <1>2, <1>3, <1>5 DEF Below, NodeType, Skipped
<1>15. out'.sz = out.sz + IF n.tok = "RS" /\ n.type = "body" THEN 1 ELSE 0
  BY <1>3, <1>8, <1>9
<1>16. Grows(n, x)
  BY <1>3, <1>7, <1>8, <1>13, <1>14, <1>15, TreeGrows DEF Grows
<1> QED BY <1>3, <1>4, <1>5, <1>7, <1>11, <1>16 DEF ElemStarts

-----------------------------------------------------------------------------
\* A step that formats a leaf: the path stays.
LeafShown(n) ==
  /\ n.tok \in Leaves /\ n.type = (IF n.tok \in Requests THEN "elem" ELSE n.tok)
  /\ n.nofill \in BOOLEAN /\ (n.nofill = TRUE => nf = TRUE)
  /\ Top.type \in {"elem", "head", "body"} /\ ~(Top.type = "head" /\ Top.tok \in Skipped)
  /\ LeafStep(out, out', n, path'[Len(path)])
  /\ PathOK(path') /\ Seen(path, path', "other") /\ out'.sz = Cardinality(Nested(path'))

\* VisitLeaf is such a step.
LEMMA LeafPrinted ==
  ASSUME TermInv, fmt = "term", CanHaveMore, NEW n \in NextLeaves,
         out' = [Term!Leaf(Term!Begin(out, n), n, Visited(n)[Len(path)]) EXCEPT !.ret = TRUE],
         path' = Visited(n)
  PROVE  LeafShown(n)
<1>1. PathOK(path) /\ out \in TermType /\ out.sz = Cardinality(Nested(path)) /\ nf \in BOOLEAN
  BY DEF TermInv
<1>2. Top \in NodeType /\ Good(Top) /\ Len(path) \in Nat /\ Len(path) >= 1
      /\ path \in Seq(NodeType)
  BY <1>1, TopIs DEF PathOK
<1>3. /\ n.list = "none" /\ n.tok \in Leaves
      /\ n.type = (IF n.tok \in Requests THEN "elem" ELSE n.tok)
      /\ n.nofill \in BOOLEAN /\ (n.nofill = TRUE => nf = TRUE)
      /\ Top.type \in {"elem", "head", "body"}
  BY <1>1, LeafIs
<1>4. ~(Top.type = "head" /\ Top.tok \in Skipped)
  <2>1. ~Top.skip
    BY DEF CanHaveMore
  <2>2. Top.type = "head" /\ Top.tok \in Skipped => Top.skip = TRUE
    BY <1>2 DEF Good, Skipped
  <2> QED BY <2>1, <2>2
<1>5. Trace(n) = "other" /\ "other" \in Siblings
  BY <1>1, LeafTrace DEF Siblings
<1>6. Seen(path, path', "other")
  BY <1>2, <1>5, VisitedIs
<1>7. Start(path, path') /\ Len(path') = Len(path)
  BY <1>2, <1>6 DEF Seen, Start
<1>8. PathOK(path') /\ Nested(path') = Nested(path)
  BY <1>1, <1>7, PathStart, NestedStart
<1> DEFINE b == Term!Begin(out, n)
           parent == Visited(n)[Len(path)]
           o == Term!Leaf(b, n, parent)
<1>9. out' = [o EXCEPT !.ret = TRUE]
  OBVIOUS
<1>10. parent = path'[Len(path)]
  OBVIOUS
<1> HIDE DEF parent
<1>11. LeafStep(out, out', n, parent)
  BY <1>1, <1>3, <1>9, LeafRuns
<1>12. LeafStep(out, out', n, path'[Len(path)])
  BY <1>10, <1>11
<1>13. out'.sz = out.sz
  BY <1>11 DEF LeafStep, SameStack
<1> QED BY <1>1, <1>3, <1>4, <1>6, <1>8, <1>12, <1>13 DEF LeafShown

-----------------------------------------------------------------------------
\* The path when its last node, which is no RS block, was left, and when it is one.
LEMMA NestedEnd ==
  ASSUME PathOK(path), Len(path) >= 2, Start(path, path'), Len(path') = Len(path) - 1
  PROVE  Cardinality(Nested(path)) = Cardinality(Nested(path')) +
                                     IF Top.tok = "RS" /\ Top.type = "body" THEN 1 ELSE 0
<1> DEFINE k == Len(path) - 1
           f == SubSeq(path, 1, k)
<1>1. path \in Seq(NodeType) /\ Len(path) \in Nat /\ k \in Nat /\ k >= 1 /\ k \in 0..Len(path)
      /\ k \in 1..k
  BY DEF PathOK
<1>2. f = SubSeq(path, 1, k)
  OBVIOUS
<1> HIDE DEF f
<1>3. Prefix(NodeType, path, k, f)
  BY <1>1, <1>2, Cut
<1>4. Len(f) = k /\ f \in Seq(NodeType) /\ \A m \in 1..k : f[m] = path[m]
  BY <1>3 DEF Prefix
<1>5. Shorter(path, f)
  BY <1>4 DEF Shorter
<1>6. Start(path, f)
  <2>1. Like(f[k], path[k])
    BY <1>1, <1>4, LikeSelf
  <2>2. \A i \in 1..(k - 1) : f[i] = path[i]
    BY <1>1, <1>4
  <2> QED BY <1>1, <1>4, <2>1, <2>2 DEF Start
<1>7. PathOK(f)
  BY <1>6, PathStart
<1>8. Start(f, path')
  <2>1. \A i \in 1..(k - 1) : path'[i] = f[i]
    <3> TAKE i \in 1..(k - 1)
    <3>1. i \in 1..k /\ path'[i] = path[i]
      BY <1>1 DEF Start
    <3> QED BY <1>4, <3>1
  <2>2. Like(path'[k], f[k])
    BY <1>1, <1>4 DEF Start
  <2> QED BY <1>1, <1>4, <2>1, <2>2 DEF Start
<1>9. Nested(path') = Nested(f)
  BY <1>4, <1>7, <1>8, NestedStart
<1>10. Cardinality(Nested(path)) = Cardinality(Nested(f)) +
         IF path[Len(path)].tok = "RS" /\ path[Len(path)].type = "body" THEN 1 ELSE 0
  BY <1>1, <1>5, NestedLess
<1> QED BY <1>9, <1>10 DEF Top

\* A step that leaves a node: its parent is the end of the path.
Ends ==
  /\ Len(path) \in Nat /\ Len(path) >= 2 /\ Start(path, path') /\ Len(path') = Len(path) - 1
  /\ PathOK(path') /\ out'.sz = Cardinality(Nested(path'))
  /\ path'[Len(path')].count = path[Len(path) - 1].count
\* The node that is left is a head or a body.
PartEnds(type, count) ==
  LET a == path'[Len(path')]
  IN /\ Top.type = type /\ Top.tok \in BlockToks
     /\ a.type = "block" /\ a.tok = Top.tok /\ a.count = count
\* A step that leaves a head.
HeadEnds == Ends /\ PartEnds("head", 1) /\ HeadOut(out, out', Top)
\* A step that leaves a body.
BodyEnds == Ends /\ PartEnds("body", 2) /\ BodyOut(out, out', Top)
\* A step that leaves a block or an element.
RestEnds ==
  LET a == path'[Len(path')]
  IN /\ Ends /\ RestOut(out, out', Top, path[Len(path) - 1])
     /\ \/ Top.type = "block" /\ Top.tok \in BlockToks /\ Top.count = 2 /\ Heir(a, Top.tok)
        \/ Top.type = "elem" /\ Top.tok \in Elements /\ a.type \in {"head", "body"}
           /\ ~(a.type = "head" /\ a.tok \in Skipped)
     /\ a.prev = IF Top.type = "block" /\ Top.tok \in Sections THEN Trace(Top)
                 ELSE path[Len(path) - 1].prev

\* LeaveNode is one of these steps.
LEMMA NodeLeft ==
  ASSUME TermInv, fmt = "term", CanLeave,
         out' = [Term!Leave(out, Top, path[Len(path) - 1]) EXCEPT !.ret = TRUE],
         path' = [Front(path) EXCEPT ![Len(Front(path))] = Returned(Front(path)[Len(Front(path))])]
  PROVE  HeadEnds \/ BodyEnds \/ RestEnds
<1> DEFINE k == Len(path) - 1
           parent == path[k]
           a == path'[Len(path')]
<1>1. PathOK(path) /\ out \in TermType /\ out.sz = Cardinality(Nested(path)) /\ out.sz \in Int
  BY DEF TermInv, TermType
<1>2. Top = path[Len(path)] /\ Top \in NodeType /\ Good(Top) /\ Len(path) \in Nat /\ Len(path) >= 1
      /\ path \in Seq(NodeType)
  BY <1>1, TopIs DEF PathOK
<1>3. Len(path) >= 2 /\ k \in Nat /\ k >= 1 /\ k = Len(path) - 1 /\ k \in 1..Len(path)
  BY <1>2 DEF CanLeave
<1>4. /\ Start(path, path') /\ Len(path') = Len(path) - 1
      /\ path'[Len(path')].count = path[Len(path) - 1].count
      /\ path'[Len(path')].prev =
           IF Top.type = "body" /\ Top.tok \in Sections /\ Top.count = 0 THEN "empty"
           ELSE IF Top.type = "block" /\ Top.tok \in Sections THEN Trace(Top)
           ELSE path[Len(path) - 1].prev
  BY <1>1, <1>3, LeavePath
<1>5. PathOK(path')
  BY <1>1, <1>4, PathStart
<1>6. Cardinality(Nested(path)) = Cardinality(Nested(path')) +
                                  IF Top.tok = "RS" /\ Top.type = "body" THEN 1 ELSE 0
  BY <1>1, <1>3, <1>4, NestedEnd
<1>7. Cardinality(Nested(path')) \in Nat
  BY <1>5, NestedIs DEF PathOK
<1>8. Below(parent, Top)
  <2>1. Len(path) \in 2..Len(path)
    BY <1>2, <1>3
  <2> QED BY <1>1, <1>2, <2>1 DEF PathOK
<1>9. a.tok = parent.tok /\ a.type = parent.type /\ a.count = parent.count
  <2>1. Like(a, path[Len(path')])
    BY <1>4 DEF Start
  <2> QED BY <1>3, <1>4, <2>1 DEF Like
<1>10. out' = [Term!Leave(out, Top, parent) EXCEPT !.ret = TRUE]
  OBVIOUS
<1>11. Top.nofill \in BOOLEAN /\ Top.aux \in Int
  BY <1>2 DEF NodeType
<1> HIDE DEF parent, a
<1>12. CASE Top.type \in {"head", "body"}
  <2>1. Top.tok \in BlockToks /\ parent.type = "block" /\ parent.tok = Top.tok
        /\ parent.count = IF Top.type = "head" THEN 1 ELSE 2
    BY <1>2, <1>8, <1>12 DEF Good, Below
  <2>2. Top.tok = "RS" /\ Top.type = "body" => out.sz >= 1
    BY <1>1, <1>6, <1>7
  <2>3. IF Top.type = "head" THEN HeadOut(out, out', Top) ELSE BodyOut(out, out', Top)
    BY <1>1, <1>10, <1>11, <1>12, <2>1, <2>2, PartsAreLeft
  <2>4. out'.sz = Cardinality(Nested(path'))
    <3>1. CASE Top.type = "head"
      <4>1. out'.sz = out.sz
        BY <2>3, <3>1 DEF HeadOut, SameStack
      <4> QED BY <1>1, <1>6, <1>7, <3>1, <4>1
    <3>2. CASE Top.type = "body" /\ Top.tok = "RS"
      <4>1. out'.sz = out.sz - 1
        BY <2>3, <3>2 DEF BodyOut, BodyOutStack, Popped
      <4> QED BY <1>1, <1>6, <1>7, <3>2, <4>1
    <3>3. CASE Top.type = "body" /\ Top.tok # "RS"
      <4>1. out'.sz = out.sz
        BY <2>3, <3>3 DEF BodyOut, BodyOutStack, SameStack
      <4> QED BY <1>1, <1>6, <1>7, <3>3, <4>1
    <3> QED BY <1>12, <3>1, <3>2, <3>3
  <2>5. Ends
    BY <1>2, <1>3, <1>4, <1>5, <2>4 DEF Ends
  <2>6. CASE Top.type = "head"
    <3>1. PartEnds("head", 1)
      BY <1>9, <2>1, <2>6 DEF PartEnds, a
    <3> QED BY <2>3, <2>5, <2>6, <3>1 DEF HeadEnds
  <2>7. CASE Top.type = "body"
    <3>1. PartEnds("body", 2)
      BY <1>9, <2>1, <2>7 DEF PartEnds, a
    <3> QED BY <2>3, <2>5, <2>7, <3>1 DEF BodyEnds
  <2> QED BY <1>12, <2>6, <2>7
<1>13. CASE Top.type \in {"block", "elem"}
  <2>1. Top.type = "block" => Top.tok \in BlockToks /\ Heir(parent, Top.tok) /\ Top.skip = FALSE
    BY <1>2, <1>8 DEF Good, Below
  <2>2. Top.type = "elem" => Top.tok \in Elements /\ parent.type \in {"head", "body"}
                             /\ ~(parent.type = "head" /\ parent.tok \in Skipped)
    BY <1>2, <1>8 DEF Good, Below, Skipped
  <2>3. Top.type = "block" => Top.count = 2
    BY <2>1 DEF CanLeave
  <2>4. RestOut(out, out', Top, parent)
    BY <1>1, <1>10, <1>11, <1>13, <2>1, <2>2, RestIsLeft
  <2>5. out'.sz = Cardinality(Nested(path'))
    <3>1. out'.sz = out.sz
      BY <2>4 DEF RestOut, SameStack
    <3> QED BY <1>1, <1>6, <1>7, <1>13, <3>1
  <2>6. Ends
    BY <1>2, <1>3, <1>4, <1>5, <2>5 DEF Ends
  <2>7. a.prev = IF Top.type = "block" /\ Top.tok \in Sections THEN Trace(Top) ELSE parent.prev
    BY <1>4, <1>13 DEF a, parent
  <2>8. Heir(parent, Top.tok) => Heir(a, Top.tok)
    BY <1>9 DEF Heir
  <2>9. \/ Top.type = "block" /\ Top.tok \in BlockToks /\ Top.count = 2 /\ Heir(a, Top.tok)
        \/ Top.type = "elem" /\ Top.tok \in Elements /\ a.type \in {"head", "body"}
           /\ ~(a.type = "head" /\ a.tok \in Skipped)
    BY <1>9, <1>13, <2>1, <2>2, <2>3, <2>8
  <2> QED BY <2>4, <2>6, <2>7, <2>9 DEF RestEnds, a, parent
<1> QED BY <1>8, <1>12, <1>13 DEF Below

-----------------------------------------------------------------------------
\* The steps of the walk on the terminal.
Walks ==
  \/ CanHaveMore /\ \E n, x : Fits(n) /\ BlockStarts(n, x)
  \/ \E n, x : HeadStarts(n, x)
  \/ \E n, x : BodyStarts(n, x)
  \/ CanHaveMore /\ \E n, x : Fits(n) /\ ElemStarts(n, x)
  \/ CanHaveMore /\ \E n : Fits(n) /\ LeafShown(n)
  \/ HeadEnds
  \/ BodyEnds
  \/ RestEnds

\* Every step of the terminal formatter is one of these steps.
LEMMA WalkIs ==
  ASSUME TermInv, fmt = "term", Next
  PROVE  Walks /\ fmt' = "term" /\ menu' = menu /\ nf' \in BOOLEAN
<1>1. nf \in BOOLEAN
  BY DEF TermInv
<1>2. CASE EnterNode
  <2>1. /\ CanHaveMore /\ fmt' = "term" /\ menu' = menu
        /\ \E n \in NextParts \cup NextBlocks \cup NextElems :
              /\ Fits(n) /\ nf' = (IF n.type \in {"block", "elem"} THEN FillAfter(n) ELSE nf)
              /\ \E b, o, x : Begun(n, b, o, x)
    BY <1>2, EnterIs
  <2>2. PICK n \in NextParts \cup NextBlocks \cup NextElems :
           /\ Fits(n) /\ nf' = (IF n.type \in {"block", "elem"} THEN FillAfter(n) ELSE nf)
           /\ \E b, o, x : Begun(n, b, o, x)
    BY <2>1
  <2>3. PICK b, o, x : Begun(n, b, o, x)
    BY <2>2
  <2>4. nf' \in BOOLEAN
    BY <1>1, <2>2, FillIs
  <2>5. CASE n \in NextBlocks
    <3>1. BlockStarts(n, x)
      BY <2>3, <2>5, BlockEntered
    <3> QED BY <2>1, <2>2, <2>4, <3>1 DEF Walks
  <2>6. CASE n \in NextParts /\ Top.count = 0
    <3>1. HeadStarts(n, x)
      BY <2>3, <2>6, HeadEntered
    <3> QED BY <2>1, <2>4, <3>1 DEF Walks
  <2>7. CASE n \in NextParts /\ Top.count # 0
    <3>1. BodyStarts(n, x)
      BY <2>3, <2>7, BodyEntered
    <3> QED BY <2>1, <2>4, <3>1 DEF Walks
  <2>8. CASE n \in NextElems
    <3>1. ElemStarts(n, x)
      BY <2>1, <2>3, <2>8, ElemEntered
    <3> QED BY <2>1, <2>2, <2>4, <3>1 DEF Walks
  <2> QED BY <2>2, <2>5, <2>6, <2>7, <2>8
<1>3. CASE VisitLeaf
  <2>1. /\ CanHaveMore /\ fmt' = "term" /\ menu' = menu
        /\ \E n \in NextLeaves :
              /\ Fits(n) /\ nf' = FillAfter(n)
              /\ out' = [Term!Leaf(Term!Begin(out, n), n, Visited(n)[Len(path)])
                            EXCEPT !.ret = TRUE]
              /\ path' = Visited(n)
    BY <1>3, LeafStepIs
  <2>2. PICK n \in NextLeaves :
           /\ Fits(n) /\ nf' = FillAfter(n)
           /\ out' = [Term!Leaf(Term!Begin(out, n), n, Visited(n)[Len(path)]) EXCEPT !.ret = TRUE]
           /\ path' = Visited(n)
    BY <2>1
  <2>3. nf' \in BOOLEAN
    BY <1>1, <2>2, FillIs
  <2>4. LeafShown(n)
    BY <2>1, <2>2, LeafPrinted
  <2> QED BY <2>1, <2>2, <2>3, <2>4 DEF Walks
<1>4. CASE LeaveNode
  <2>1. /\ CanLeave /\ fmt' = "term" /\ menu' = menu /\ nf' = nf
        /\ out' = [Term!Leave(out, Top, path[Len(path) - 1]) EXCEPT !.ret = TRUE]
        /\ path' = [Front(path)
                      EXCEPT ![Len(Front(path))] = Returned(Front(path)[Len(Front(path))])]
    BY <1>4, LeaveIs
  <2>2. HeadEnds \/ BodyEnds \/ RestEnds
    BY <2>1, NodeLeft
  <2> QED BY <1>1, <2>1, <2>2 DEF Walks
<1> QED BY <1>2, <1>3, <1>4 DEF Next

\* The path stays one of a tree, the state well-typed, and mt->lmarginsz counts the
\* bodies of .RS around the node.
LEMMA WalkKeeps ==
  ASSUME Walks
  PROVE  PathOK(path') /\ out' \in TermType /\ out'.sz = Cardinality(Nested(path'))
<1>1. ASSUME NEW n, NEW x, BlockStarts(n, x)
      PROVE  PathOK(path') /\ out' \in TermType /\ out'.sz = Cardinality(Nested(path'))
  BY <1>1 DEF BlockStarts, Grows, BlockRel
<1>2. ASSUME NEW n, NEW x, HeadStarts(n, x)
      PROVE  PathOK(path') /\ out' \in TermType /\ out'.sz = Cardinality(Nested(path'))
  BY <1>2 DEF HeadStarts, PartStarts, Grows, HeadRel
<1>3. ASSUME NEW n, NEW x, BodyStarts(n, x)
      PROVE  PathOK(path') /\ out' \in TermType /\ out'.sz = Cardinality(Nested(path'))
  BY <1>3 DEF BodyStarts, PartStarts, Grows, BodyRel
<1>4. ASSUME NEW n, NEW x, ElemStarts(n, x)
      PROVE  PathOK(path') /\ out' \in TermType /\ out'.sz = Cardinality(Nested(path'))
  BY <1>4 DEF ElemStarts, Grows, ElemStep
<1>5. ASSUME NEW n, LeafShown(n)
      PROVE  PathOK(path') /\ out' \in TermType /\ out'.sz = Cardinality(Nested(path'))
  BY <1>5 DEF LeafShown, LeafStep
<1>6. CASE HeadEnds \/ BodyEnds \/ RestEnds
  BY <1>6 DEF HeadEnds, BodyEnds, RestEnds, Ends, HeadOut, BodyOut, RestOut
<1> QED BY <1>1, <1>2, <1>3, <1>4, <1>5, <1>6 DEF Walks

-----------------------------------------------------------------------------
\* The modes that a node sets for its field.
Allowed(tok) ==
  CASE tok \in {"TP", "TQ"} -> {"nobreak", "brtrsp"}
    [] tok \in {"IP", "SY"} -> {"nobreak"}
    [] OTHER -> {"nobreak", "brind"}
\* The node p[i] can own the field: a head that is printed in a field of its own, the
\* body of .HP, and the block of .TP, .TQ, .SH and .SS between its head and its body,
\* since post_TP() and post_SH() leave the modes to the pre handler of the body.
Open(p, i) ==
  \/ p[i].type = "head" /\ p[i].tok \in Items \cup {"SY"} \cup Sections
  \/ p[i].type = "body" /\ p[i].tok = "HP"
  \/ /\ i = Len(p) /\ p[i].type = "block" /\ p[i].count = 1
     /\ p[i].tok \in {"TP", "TQ"} \cup Sections
\* The modes of the field alone; the font of section headers has an invariant of its own.
FieldModes(o) == Modes(o) \ {"ibi"}
\* No field is open: no mode is set and there is no trailing space.
Closed(o) == FieldModes(o) = {} /\ o.trail = 0
\* The modes that are set are those of the handler of the node p[i].
FieldOf(p, o, i) ==
  /\ i \in 1..Len(p) /\ Open(p, i) /\ FieldModes(o) \subseteq Allowed(p[i].tok)
  /\ p[i].tok = "SY" => o.trail = 0
\* The inductive form of Fields: a mode is set only while the node it belongs to is on
\* the path (what post_IP(), post_TP(), post_HP(), post_SY(), post_SH() must undo).
FieldInv(p, o) == Closed(o) \/ \E i \in 1..Len(p) : FieldOf(p, o, i)

\* No more modes are set.
Less(o, q) == FieldModes(q) \subseteq FieldModes(o) /\ (q.trail = o.trail \/ q.trail = 0)

\* Leaving the field alone adds nothing to it.
LEMMA LessSame ==
  ASSUME NEW o, NEW q, SameField(o, q)
  PROVE  Less(o, q)
BY DEF SameField, Less, FieldModes

\* Switching modes off adds nothing either.
LEMMA LessEnds ==
  ASSUME NEW o, NEW q, NEW F, Modes(q) = Modes(o) \ F, q.trail = 0
  PROVE  Less(o, q)
BY DEF Less, FieldModes

\* A closed field to which nothing is added stays closed.
LEMMA LessClosed ==
  ASSUME NEW o, NEW q, Less(o, q), Closed(o)
  PROVE  Closed(q)
BY DEF Less, Closed

\* A field that is open stays open.
LEMMA FieldStays ==
  ASSUME NEW p, NEW o, NEW i, FieldOf(p, o, i), p[i].type # "block",
         NEW r, i \in 1..Len(r), r[i].tok = p[i].tok, r[i].type = p[i].type,
         NEW q, Less(o, q)
  PROVE  FieldInv(r, q)
<1>1. Open(r, i)
  BY DEF FieldOf, Open
<1>2. FieldModes(q) \subseteq Allowed(r[i].tok)
  BY DEF FieldOf, Less
<1>3. r[i].tok = "SY" => q.trail = 0
  BY DEF FieldOf, Less
<1> QED BY <1>1, <1>2, <1>3 DEF FieldInv, FieldOf

\* Where the field is that is open.
LEMMA FieldWhere ==
  ASSUME NEW p, PathOK(p), NEW o, NEW i, FieldOf(p, o, i), NEW z, z = p[Len(p)]
  PROVE  \/ i = Len(p)
         \/ /\ i < Len(p) /\ p[i].type = "head" /\ z.type = "elem"
         \/ /\ i < Len(p) /\ p[i].type = "body" /\ p[i].tok = "HP"
            /\ z.type = "elem" \/ z.tok = "UR"
<1>1. Len(p) \in Nat /\ Len(p) >= 1 /\ i \in 1..Len(p) /\ Len(p) \in 1..Len(p)
  BY DEF PathOK, FieldOf
<1>2. CASE i = Len(p)
  BY <1>2
<1>3. CASE i # Len(p)
  <2>1. i < Len(p)
    BY <1>1, <1>3
  <2>2. Inside(p[i], z)
    BY <1>1, <2>1 DEF PathOK
  <2>3. p[i].type = "head" \/ (p[i].type = "body" /\ p[i].tok = "HP")
    BY <1>3 DEF FieldOf, Open
  <2> QED BY <2>1, <2>2, <2>3 DEF Inside, Hanged
<1> QED BY <1>2, <1>3

\* The nodes that were there when a node is entered.
LEMMA GrownSame ==
  ASSUME NEW p, NEW r, NEW x, NEW t, Grown(p, r, x, t)
  PROVE  \A i \in 1..Len(p) : i \in 1..Len(r) /\ r[i].tok = p[i].tok /\ r[i].type = p[i].type
<1> TAKE i \in 1..Len(p)
<1>1. Len(p) \in Nat /\ Len(r) = Len(p) + 1
  BY DEF Grown
<1>2. CASE i = Len(p)
  BY <1>1, <1>2 DEF Grown, Like
<1>3. CASE i # Len(p)
  <2>1. i \in 1..(Len(p) - 1)
    BY <1>1, <1>3
  <2> QED BY <1>1, <2>1 DEF Grown
<1> QED BY <1>2, <1>3

\* Entering a block preserves FieldInv: the field that may be open stays with its node.
LEMMA FieldBlock ==
  ASSUME PathOK(path), FieldInv(path, out), NEW n, NEW x, BlockStarts(n, x)
  PROVE  FieldInv(path', out')
<1>1. SameField(out, out') /\ Heir(Top, n.tok)
  BY DEF BlockStarts, BlockRel
<1>2. Less(out, out')
  BY <1>1, LessSame
<1>3. \A i \in 1..Len(path) : /\ i \in 1..Len(path')
                              /\ path'[i].tok = path[i].tok /\ path'[i].type = path[i].type
  BY GrownSame DEF BlockStarts, Grows
<1>4. CASE Closed(out)
  BY <1>2, <1>4, LessClosed DEF FieldInv
<1>5. CASE \E i \in 1..Len(path) : FieldOf(path, out, i)
  <2>1. PICK i \in 1..Len(path) : FieldOf(path, out, i)
    BY <1>5
  <2>2. \/ i = Len(path)
        \/ /\ i < Len(path) /\ path[i].type = "head" /\ Top.type = "elem"
        \/ /\ i < Len(path) /\ path[i].type = "body" /\ path[i].tok = "HP"
           /\ Top.type = "elem" \/ Top.tok = "UR"
    BY <2>1, FieldWhere DEF Top
  <2>3. Top.type \in {"root", "body"}
    BY <1>1 DEF Heir
  <2>4. path[i].type # "block"
    BY <2>2, <2>3 DEF Top
  <2> QED BY <1>2, <1>3, <2>1, <2>4, FieldStays
<1> QED BY <1>4, <1>5 DEF FieldInv

\* Parts of blocks start where no field is open, except those of UR.
LEMMA FieldParts ==
  ASSUME PathOK(path), NEW i, FieldOf(path, out, i), Top.type = "block"
  PROVE  \/ /\ i = Len(path) /\ Top.count = 1 /\ Top.tok \in {"TP", "TQ"} \cup Sections
            /\ FieldModes(out) \subseteq Allowed(Top.tok)
         \/ path[i].type = "body" /\ Top.tok = "UR"
<1>1. \/ i = Len(path)
      \/ /\ i < Len(path) /\ path[i].type = "head" /\ Top.type = "elem"
      \/ /\ i < Len(path) /\ path[i].type = "body" /\ path[i].tok = "HP"
         /\ Top.type = "elem" \/ Top.tok = "UR"
  BY FieldWhere DEF Top
<1>2. CASE i = Len(path)
  BY <1>2 DEF FieldOf, Open, Top
<1>3. CASE i < Len(path)
  BY <1>1, <1>3
<1> QED BY <1>1, <1>2, <1>3

\* Entering a head preserves FieldInv: the head owns the field it opens.
LEMMA FieldHead ==
  ASSUME PathOK(path), FieldInv(path, out), NEW n, NEW x, HeadStarts(n, x)
  PROVE  FieldInv(path', out')
<1>1. /\ Top.type = "block" /\ Top.count = 0 /\ n.type = "head" /\ n.tok = Top.tok
      /\ n.tok \in BlockToks
  BY DEF HeadStarts, PartStarts
<1>2. HeadModes(out, out', n)
  BY DEF HeadStarts, HeadRel
<1>g. Grown(path, path', x, Trace(n))
  BY DEF HeadStarts, PartStarts, Grows
<1>3. \A i \in 1..Len(path) : /\ i \in 1..Len(path')
                              /\ path'[i].tok = path[i].tok /\ path'[i].type = path[i].type
  BY <1>g, GrownSame
<1>4. x.tok = n.tok /\ x.type = "head" /\ Len(path') \in 1..Len(path') /\ path'[Len(path')] = x
  BY <1>1, <1>g DEF HeadStarts, PartStarts, Grows, Kept, Grown
<1>5. CASE n.tok \in Skipped
  <2>1. Less(out, out')
    BY <1>2, <1>5, LessSame DEF HeadModes
  <2>2. CASE Closed(out)
    BY <2>1, <2>2, LessClosed DEF FieldInv
  <2>3. CASE \E i \in 1..Len(path) : FieldOf(path, out, i)
    <3>1. PICK i \in 1..Len(path) : FieldOf(path, out, i)
      BY <2>3
    <3>2. path[i].type # "block"
      BY <1>1, <3>1, FieldParts
    <3> QED BY <1>3, <2>1, <3>1, <3>2, FieldStays
  <2> QED BY <2>2, <2>3 DEF FieldInv
<1>6. CASE n.tok \notin Skipped
  <2>1. Closed(out)
    <3>1. ASSUME NEW i, FieldOf(path, out, i) PROVE FALSE
      BY <1>1, <1>6, <3>1, FieldParts DEF Skipped
    <3> QED BY <3>1 DEF FieldInv
  <2>2. n.tok \in Items \cup {"SY"} \cup Sections
    BY <1>1, <1>6 DEF BlockToks, Paragraphs, Skipped
  <2>3. FieldModes(out') \subseteq Allowed(n.tok)
    <3>1. FieldModes(out) = {}
      BY <2>1 DEF Closed
    <3>2. CASE n.tok \in {"TP", "TQ"}
      BY <1>2, <3>1, <3>2 DEF HeadModes, FieldModes, Allowed
    <3>3. CASE n.tok \in {"IP", "SY"}
      BY <1>2, <3>1, <3>3 DEF HeadModes, FieldModes, Allowed
    <3>4. CASE n.tok \in Sections
      BY <1>2, <3>1, <3>4 DEF HeadModes, FieldModes, Allowed, Sections
    <3> QED BY <2>2, <3>2, <3>3, <3>4 DEF Items
  <2>4. n.tok = "SY" => out'.trail = 0
    BY <1>2, <2>1 DEF HeadModes, Closed
  <2>5. Open(path', Len(path'))
    BY <1>4, <2>2 DEF Open
  <2>6. FieldOf(path', out', Len(path'))
    BY <1>4, <2>3, <2>4, <2>5 DEF FieldOf
  <2> QED BY <1>4, <2>6 DEF FieldInv
<1> QED BY <1>5, <1>6

\* Entering a body preserves FieldInv: the body of .TP and .SH ends the field of its head.
LEMMA FieldBody ==
  ASSUME PathOK(path), FieldInv(path, out), NEW n, NEW x, BodyStarts(n, x)
  PROVE  FieldInv(path', out')
<1>1. /\ Top.type = "block" /\ Top.count = 1 /\ n.type = "body" /\ n.tok = Top.tok
      /\ n.tok \in BlockToks
  BY DEF BodyStarts, PartStarts
<1>2. BodyModes(out, out', n)
  BY DEF BodyStarts, BodyRel
<1>g. Grown(path, path', x, Trace(n))
  BY DEF BodyStarts, PartStarts, Grows
<1>3. \A i \in 1..Len(path) : /\ i \in 1..Len(path')
                              /\ path'[i].tok = path[i].tok /\ path'[i].type = path[i].type
  BY <1>g, GrownSame
<1>4. x.tok = n.tok /\ x.type = "body" /\ Len(path') \in 1..Len(path') /\ path'[Len(path')] = x
  BY <1>1, <1>g DEF BodyStarts, PartStarts, Grows, Kept, Grown
<1>5. CASE n.tok = "UR"
  <2>1. Less(out, out')
    BY <1>2, <1>5, LessSame DEF BodyModes
  <2>2. CASE Closed(out)
    BY <2>1, <2>2, LessClosed DEF FieldInv
  <2>3. CASE \E i \in 1..Len(path) : FieldOf(path, out, i)
    <3>1. PICK i \in 1..Len(path) : FieldOf(path, out, i)
      BY <2>3
    <3>2. path[i].type # "block"
      BY <1>1, <1>5, <3>1, FieldParts DEF Sections
    <3> QED BY <1>3, <2>1, <3>1, <3>2, FieldStays
  <2> QED BY <2>2, <2>3 DEF FieldInv
<1>6. CASE n.tok \in {"TP", "TQ"} \cup Sections
  <2>1. FieldModes(out) \subseteq Allowed(n.tok)
    <3>1. CASE Closed(out)
      BY <3>1 DEF Closed
    <3>2. CASE \E i \in 1..Len(path) : FieldOf(path, out, i)
      <4>1. PICK i \in 1..Len(path) : FieldOf(path, out, i)
        BY <3>2
      <4>2. n.tok # "UR"
        BY <1>6 DEF Sections
      <4> QED BY <1>1, <4>1, <4>2, FieldParts
    <3> QED BY <3>1, <3>2 DEF FieldInv
  <2>2. CASE n.tok \in {"TP", "TQ"}
    BY <1>2, <2>1, <2>2 DEF BodyModes, FieldModes, Allowed, Closed, FieldInv
  <2>3. CASE n.tok \in Sections
    BY <1>2, <2>1, <2>3 DEF BodyModes, FieldModes, Allowed, Closed, FieldInv, Sections
  <2> QED BY <1>6, <2>2, <2>3
<1>7. CASE n.tok \notin {"TP", "TQ", "UR"} \cup Sections
  <2>1. Closed(out)
    <3>1. ASSUME NEW i, FieldOf(path, out, i) PROVE FALSE
      BY <1>1, <1>7, <3>1, FieldParts
    <3> QED BY <3>1 DEF FieldInv
  <2>2. CASE SameField(out, out')
    <3>1. Less(out, out')
      BY <2>2, LessSame
    <3> QED BY <2>1, <3>1, LessClosed DEF FieldInv
  <2>3. CASE n.tok = "HP" /\ Modes(out') = Modes(out) \cup {"nobreak", "brind"}
    <3>1. FieldModes(out') \subseteq Allowed(x.tok)
      BY <1>4, <2>1, <2>3 DEF Closed, FieldModes, Allowed
    <3>2. Open(path', Len(path')) /\ x.tok # "SY"
      BY <1>4, <2>3 DEF Open
    <3> QED BY <1>4, <3>1, <3>2 DEF FieldInv, FieldOf
  <2>4. n.tok \in {"IP", "PP", "RS", "SY", "HP"}
    BY <1>1, <1>7 DEF BlockToks, Paragraphs, Items
  <2> QED BY <1>2, <2>2, <2>3, <2>4 DEF BodyModes
<1> QED BY <1>5, <1>6, <1>7

\* Where there may be text, fields stay open or are closed.
LEMMA FieldInside ==
  ASSUME PathOK(path), FieldInv(path, out), Top.type # "block",
         \A i \in 1..Len(path) : /\ i \in 1..Len(path')
                                 /\ path'[i].tok = path[i].tok /\ path'[i].type = path[i].type,
         Less(out, out')
  PROVE  FieldInv(path', out')
<1>1. CASE Closed(out)
  BY <1>1, LessClosed DEF FieldInv
<1>2. CASE \E i \in 1..Len(path) : FieldOf(path, out, i)
  <2>1. PICK i \in 1..Len(path) : FieldOf(path, out, i)
    BY <1>2
  <2>2. path[i].type # "block"
    BY <2>1 DEF FieldOf, Open, Top
  <2> QED BY <2>1, <2>2, FieldStays
<1> QED BY <1>1, <1>2 DEF FieldInv

\* Entering an element preserves FieldInv: .EX and .EE may end the field of .HP.
LEMMA FieldElem ==
  ASSUME PathOK(path), FieldInv(path, out), NEW n, NEW x, ElemStarts(n, x)
  PROVE  FieldInv(path', out')
<1>1. \A i \in 1..Len(path) : /\ i \in 1..Len(path')
                              /\ path'[i].tok = path[i].tok /\ path'[i].type = path[i].type
  BY GrownSame DEF ElemStarts, Grows
<1>2. \/ SameField(out, out')
      \/ Modes(out') = Modes(out) \ {"nobreak", "brind"} /\ out'.trail = 0
  BY DEF ElemStarts, ElemStep, ElemPlain, ElemMoves, ElemEnds
<1>3. Less(out, out')
  BY <1>2, LessSame, LessEnds
<1>4. Top.type # "block"
  BY DEF ElemStarts
<1> QED BY <1>1, <1>3, <1>4, FieldInside

\* The nodes are the same when one of their children was visited.
LEMMA SeenSame ==
  ASSUME NEW p, PathOK(p), NEW r, NEW t, Seen(p, r, t)
  PROVE  \A i \in 1..Len(p) : i \in 1..Len(r) /\ r[i].tok = p[i].tok /\ r[i].type = p[i].type
<1> TAKE i \in 1..Len(p)
<1>1. Len(p) \in Nat /\ Len(r) = Len(p)
  BY DEF Seen, PathOK
<1>2. CASE i = Len(p)
  BY <1>1, <1>2 DEF Seen, Like
<1>3. CASE i # Len(p)
  <2>1. i \in 1..(Len(p) - 1)
    BY <1>1, <1>3
  <2> QED BY <1>1, <2>1 DEF Seen
<1> QED BY <1>2, <1>3

\* Formatting a leaf preserves FieldInv: .br and .sp may end the field that hangs.
LEMMA FieldLeaf ==
  ASSUME PathOK(path), FieldInv(path, out), NEW n, LeafShown(n)
  PROVE  FieldInv(path', out')
<1>1. \A i \in 1..Len(path) : /\ i \in 1..Len(path')
                              /\ path'[i].tok = path[i].tok /\ path'[i].type = path[i].type
  BY SeenSame DEF LeafShown
<1>2. \/ SameField(out, out')
      \/ Modes(out') = Modes(out) \ {"nobreak", "brind"} /\ out'.trail = 0
  BY DEF LeafShown, LeafStep, ElemPlain, BreakEnds
<1>3. Less(out, out')
  BY <1>2, LessSame, LessEnds
<1>4. Top.type # "block"
  BY DEF LeafShown
<1> QED BY <1>1, <1>3, <1>4, FieldInside

\* The nodes that are still there after one was left.
LEMMA EndsSame ==
  ASSUME PathOK(path), Ends
  PROVE  \A i \in 1..(Len(path) - 1) :
           i \in 1..Len(path') /\ path'[i].tok = path[i].tok /\ path'[i].type = path[i].type
<1> TAKE i \in 1..(Len(path) - 1)
<1>1. Len(path) \in Nat /\ Len(path') = Len(path) - 1 /\ Start(path, path')
  BY DEF Ends
<1>2. CASE i = Len(path')
  BY <1>1, <1>2 DEF Start, Like
<1>3. CASE i # Len(path')
  <2>1. i \in 1..(Len(path') - 1)
    BY <1>1, <1>3
  <2> QED BY <1>1, <2>1 DEF Start
<1> QED BY <1>2, <1>3

\* A field that is left open by a node around the one that is left.
LEMMA FieldBefore ==
  ASSUME PathOK(path), Ends, NEW i, FieldOf(path, out, i), i # Len(path), Less(out, out')
  PROVE  FieldInv(path', out')
<1>1. Len(path) \in Nat /\ i \in 1..(Len(path) - 1)
  BY DEF Ends, FieldOf
<1>2. i \in 1..Len(path') /\ path'[i].tok = path[i].tok /\ path'[i].type = path[i].type
  BY <1>1, EndsSame
<1>3. path[i].type # "block"
  BY DEF FieldOf, Open
<1> QED BY <1>2, <1>3, FieldStays

\* Leaving a head preserves FieldInv: the post handler ends the field, or leaves it to
\* the block for the body.
LEMMA FieldHeadEnd ==
  ASSUME PathOK(path), FieldInv(path, out), HeadEnds
  PROVE  FieldInv(path', out')
<1> DEFINE k == Len(path')
           a == path'[k]
<1>1. /\ Ends /\ Top.type = "head" /\ Top.tok \in BlockToks
      /\ a.type = "block" /\ a.tok = Top.tok /\ a.count = 1 /\ k \in 1..k
  BY DEF HeadEnds, PartEnds, Ends, PathOK
<1>2. HeadOutModes(out, out', Top)
  BY DEF HeadEnds, HeadOut
<1> HIDE DEF k, a
<1>3. FieldModes(out') \subseteq FieldModes(out)
  BY <1>1, <1>2 DEF HeadOutModes, FieldModes, SameField, BlockToks, Paragraphs, Items, Skipped
<1>4. out'.trail = out.trail \/ out'.trail = 0
  BY <1>1, <1>2 DEF HeadOutModes, SameField, BlockToks, Paragraphs, Items, Skipped
<1>5. Less(out, out')
  BY <1>3, <1>4 DEF Less
<1>6. CASE Closed(out)
  BY <1>5, <1>6, LessClosed DEF FieldInv
<1>7. CASE \E i \in 1..Len(path) : FieldOf(path, out, i)
  <2>1. PICK i \in 1..Len(path) : FieldOf(path, out, i)
    BY <1>7
  <2>2. CASE i # Len(path)
    BY <1>1, <1>5, <2>1, <2>2, FieldBefore
  <2>3. CASE i = Len(path)
    <3>1. /\ Top.tok \in Items \cup {"SY"} \cup Sections
          /\ FieldModes(out) \subseteq Allowed(Top.tok) /\ (Top.tok = "SY" => out.trail = 0)
      BY <1>1, <2>1, <2>3 DEF FieldOf, Open, Top
    <3>2. CASE Top.tok = "IP"
      BY <1>2, <3>1, <3>2 DEF HeadOutModes, FieldModes, Allowed, Closed, FieldInv
    <3>3. CASE Top.tok = "SY"
      BY <1>2, <3>1, <3>3 DEF HeadOutModes, FieldModes, Allowed, Closed, FieldInv
    <3>4. CASE Top.tok \in {"TP", "TQ"} \cup Sections
      <4>1. Open(path', k)
        BY <1>1, <3>4 DEF Open, k, a
      <4>2. FieldModes(out') \subseteq Allowed(a.tok) /\ a.tok # "SY"
        BY <1>1, <1>3, <3>1, <3>4 DEF Sections
      <4>3. FieldOf(path', out', k)
        BY <1>1, <4>1, <4>2 DEF FieldOf, a, k
      <4> QED BY <1>1, <4>3 DEF FieldInv, k
    <3> QED BY <3>1, <3>2, <3>3, <3>4 DEF Items
  <2> QED BY <2>2, <2>3
<1> QED BY <1>6, <1>7 DEF FieldInv

\* Leaving a body preserves FieldInv.
LEMMA FieldBodyEnd ==
  ASSUME PathOK(path), FieldInv(path, out), BodyEnds
  PROVE  FieldInv(path', out')
<1>1. Ends /\ Top.type = "body"
  BY DEF BodyEnds, PartEnds
<1>2. BodyOutModes(out, out', Top)
  BY DEF BodyEnds, BodyOut
<1>3. Less(out, out')
  BY <1>2, LessSame, LessEnds DEF BodyOutModes
<1>4. CASE Closed(out)
  BY <1>3, <1>4, LessClosed DEF FieldInv
<1>5. CASE \E i \in 1..Len(path) : FieldOf(path, out, i)
  <2>1. PICK i \in 1..Len(path) : FieldOf(path, out, i)
    BY <1>5
  <2>2. CASE i # Len(path)
    BY <1>1, <1>3, <2>1, <2>2, FieldBefore
  <2>3. CASE i = Len(path)
    <3>1. Top.tok = "HP" /\ FieldModes(out) \subseteq {"nobreak", "brind"}
      BY <1>1, <2>1, <2>3 DEF FieldOf, Open, Top, Allowed
    <3>2. out'.trail = 0 /\ Modes(out') = Modes(out) \ {"nobreak", "brind"}
      BY <1>2, <3>1 DEF BodyOutModes
    <3> QED BY <3>1, <3>2 DEF FieldModes, Closed, FieldInv
  <2> QED BY <2>2, <2>3
<1> QED BY <1>4, <1>5 DEF FieldInv

\* Leaving a block or an element preserves FieldInv: a block has been through its body.
LEMMA FieldRestEnd ==
  ASSUME PathOK(path), FieldInv(path, out), RestEnds
  PROVE  FieldInv(path', out')
<1>1. Ends /\ SameField(out, out')
  BY DEF RestEnds, RestOut
<1>2. Less(out, out')
  BY <1>1, LessSame
<1>3. Top.type = "elem" \/ (Top.type = "block" /\ Top.count = 2)
  BY DEF RestEnds
<1>4. CASE Closed(out)
  BY <1>2, <1>4, LessClosed DEF FieldInv
<1>5. CASE \E i \in 1..Len(path) : FieldOf(path, out, i)
  <2>1. PICK i \in 1..Len(path) : FieldOf(path, out, i)
    BY <1>5
  <2>2. i # Len(path)
    BY <1>3, <2>1 DEF FieldOf, Open, Top
  <2> QED BY <1>1, <1>2, <2>1, <2>2, FieldBefore
<1> QED BY <1>4, <1>5 DEF FieldInv

\* Every step of the formatter preserves FieldInv.
LEMMA FieldStep ==
  ASSUME PathOK(path), FieldInv(path, out), Walks
  PROVE  FieldInv(path', out')
BY FieldBlock, FieldHead, FieldBody, FieldElem, FieldLeaf, FieldHeadEnd, FieldBodyEnd,
   FieldRestEnd DEF Walks

-----------------------------------------------------------------------------
\* Bold italic, the font of section headers.
FontInv(p, o) ==
  "ibi" \in Modes(o) => \E i \in 1..Len(p) : p[i].type = "head" /\ p[i].tok \in Sections

\* No step but the start of a header starts it.
LEMMA FontStays ==
  ASSUME NEW p, NEW o, FontInv(p, o), NEW r, NEW q,
         "ibi" \in Modes(q) => "ibi" \in Modes(o),
         \A i \in 1..Len(p) :
           p[i].type = "head" /\ p[i].tok \in Sections =>
             i \in 1..Len(r) /\ r[i].tok = p[i].tok /\ r[i].type = p[i].type
  PROVE  FontInv(r, q)
BY DEF FontInv

\* Every step of the formatter preserves FontInv.
LEMMA FontStep ==
  ASSUME PathOK(path), FontInv(path, out), Walks
  PROVE  FontInv(path', out')
<1>1. ASSUME NEW n, NEW x, BlockStarts(n, x)
      PROVE  FontInv(path', out')
  <2>1. \A i \in 1..Len(path) : /\ i \in 1..Len(path')
                                /\ path'[i].tok = path[i].tok /\ path'[i].type = path[i].type
    BY <1>1, GrownSame DEF BlockStarts, Grows
  <2>2. Modes(out') = Modes(out)
    BY <1>1 DEF BlockStarts, BlockRel, SameField
  <2> QED BY <2>1, <2>2, FontStays
<1>2. ASSUME NEW n, NEW x, HeadStarts(n, x)
      PROVE  FontInv(path', out')
  <2>1. \A i \in 1..Len(path) : /\ i \in 1..Len(path')
                                /\ path'[i].tok = path[i].tok /\ path'[i].type = path[i].type
    BY <1>2, GrownSame DEF HeadStarts, PartStarts, Grows
  <2>2. HeadModes(out, out', n) /\ n.tok \in BlockToks /\ Grown(path, path', x, Trace(n))
        /\ x.tok = n.tok /\ x.type = "head"
    BY <1>2 DEF HeadStarts, HeadRel, PartStarts, Grows, Kept
  <2>3. CASE n.tok \in Sections
    <3>1. Len(path') \in 1..Len(path') /\ path'[Len(path')] = x
      BY <2>2 DEF Grown
    <3> QED BY <2>2, <2>3, <3>1 DEF FontInv
  <2>4. CASE n.tok \notin Sections
    <3>1. "ibi" \in Modes(out') => "ibi" \in Modes(out)
      BY <2>2, <2>4 DEF HeadModes, SameField, BlockToks, Paragraphs, Items, Skipped
    <3> QED BY <2>1, <3>1, FontStays
  <2> QED BY <2>3, <2>4
<1>3. ASSUME NEW n, NEW x, BodyStarts(n, x)
      PROVE  FontInv(path', out')
  <2>1. \A i \in 1..Len(path) : /\ i \in 1..Len(path')
                                /\ path'[i].tok = path[i].tok /\ path'[i].type = path[i].type
    BY <1>3, GrownSame DEF BodyStarts, PartStarts, Grows
  <2>2. BodyModes(out, out', n) /\ n.tok \in BlockToks
    BY <1>3 DEF BodyStarts, BodyRel, PartStarts
  <2>3. "ibi" \in Modes(out') => "ibi" \in Modes(out)
    BY <2>2 DEF BodyModes, SameField, BlockToks, Paragraphs, Items
  <2> QED BY <2>1, <2>3, FontStays
<1>4. ASSUME NEW n, NEW x, ElemStarts(n, x)
      PROVE  FontInv(path', out')
  <2>1. \A i \in 1..Len(path) : /\ i \in 1..Len(path')
                                /\ path'[i].tok = path[i].tok /\ path'[i].type = path[i].type
    BY <1>4, GrownSame DEF ElemStarts, Grows
  <2>2. "ibi" \in Modes(out') => "ibi" \in Modes(out)
    BY <1>4 DEF ElemStarts, ElemStep, ElemPlain, ElemMoves, ElemEnds, SameField
  <2> QED BY <2>1, <2>2, FontStays
<1>5. ASSUME NEW n, LeafShown(n)
      PROVE  FontInv(path', out')
  <2>1. \A i \in 1..Len(path) : /\ i \in 1..Len(path')
                                /\ path'[i].tok = path[i].tok /\ path'[i].type = path[i].type
    BY <1>5, SeenSame DEF LeafShown
  <2>2. "ibi" \in Modes(out') => "ibi" \in Modes(out)
    BY <1>5 DEF LeafShown, LeafStep, ElemPlain, BreakEnds, SameField
  <2> QED BY <2>1, <2>2, FontStays
<1>6. CASE HeadEnds
  <2>1. HeadOutModes(out, out', Top) /\ Top.tok \in BlockToks /\ Top.type = "head" /\ Ends
    BY <1>6 DEF HeadEnds, HeadOut, PartEnds
  <2>2. CASE Top.tok \in Sections
    BY <2>1, <2>2 DEF HeadOutModes, FontInv
  <2>3. CASE Top.tok \notin Sections
    <3>1. "ibi" \in Modes(out') => "ibi" \in Modes(out)
      BY <2>1, <2>3 DEF HeadOutModes, SameField, BlockToks, Paragraphs, Items, Skipped
    <3>2. \A i \in 1..Len(path) :
            path[i].type = "head" /\ path[i].tok \in Sections =>
              i \in 1..Len(path') /\ path'[i].tok = path[i].tok /\ path'[i].type = path[i].type
      <4> TAKE i \in 1..Len(path)
      <4> HAVE path[i].type = "head" /\ path[i].tok \in Sections
      <4>1. i # Len(path)
        BY <2>3 DEF Top
      <4>2. i \in 1..(Len(path) - 1)
        BY <2>1, <4>1 DEF Ends
      <4> QED BY <2>1, <4>2, EndsSame
    <3> QED BY <3>1, <3>2, FontStays
  <2> QED BY <2>2, <2>3
<1>7. CASE BodyEnds \/ RestEnds
  <2>1. Ends /\ Top.type # "head"
    BY <1>7 DEF BodyEnds, RestEnds, PartEnds
  <2>2. "ibi" \in Modes(out') => "ibi" \in Modes(out)
    BY <1>7 DEF BodyEnds, BodyOut, BodyOutModes, RestEnds, RestOut, SameField
  <2>3. \A i \in 1..Len(path) :
          path[i].type = "head" /\ path[i].tok \in Sections =>
            i \in 1..Len(path') /\ path'[i].tok = path[i].tok /\ path'[i].type = path[i].type
    <3> TAKE i \in 1..Len(path)
    <3> HAVE path[i].type = "head" /\ path[i].tok \in Sections
    <3>1. i # Len(path)
      BY <2>1 DEF Top
    <3>2. i \in 1..(Len(path) - 1)
      BY <2>1, <3>1 DEF Ends
    <3> QED BY <2>1, <3>2, EndsSame
  <2> QED BY <2>2, <2>3, FontStays
<1> QED BY <1>1, <1>2, <1>3, <1>4, <1>5, <1>6, <1>7 DEF Walks

-----------------------------------------------------------------------------
\* Nodes where nothing is in the output buffer.
Whole(n) ==
  \/ n.type = "root"
  \/ n.type = "block" /\ n.tok # "UR" /\ ~(n.tok = "PP" /\ n.count = 2)
  \/ n.type = "head" /\ n.tok \in {"HP", "PP", "RS"}
  \/ n.type = "body" /\ n.prev \in {"tag", "SY", "empty"}
  \/ n.type = "body" /\ n.tok # "UR" /\ n.prev = "start"
\* While a child is visited its parent remembers it: a tagged item or .SY only if the
\* child is one (the previous sibling that pre_SY(), pre_SS() and .TQ look at).
PrevInv(p) ==
  \A i \in 1..(Len(p) - 1) : p[i].type \in {"root", "body"} =>
     /\ p[i].prev \notin {"start", "empty"}
     /\ p[i].prev \in {"tag", "SY"} => p[i + 1].type = "block" /\ p[i + 1].tok \in Items \cup {"SY"}
\* The inductive form of LinesWhole: no margin has moved under text, and the line is
\* complete where the next handler moves the margins without a new line.
LineInv(p, o) ==
  /\ o.torn = FALSE
  /\ o.pardist = 0 => "PD" \in menu.has
  /\ Whole(p[Len(p)]) => o.col = FALSE

\* What a node remembers while a child is visited.
LEMMA TraceEntered ==
  ASSUME NEW n, n.prev = "start", n.list # "none" => n.tok \in Items
  PROVE  /\ n.list \in ItemKinds => Trace(n) \notin {"start", "empty"}
         /\ Trace(n) \in {"tag", "SY"} => n.tok \in Items \cup {"SY"}
BY DEF Trace, ItemKinds, Marks

\* Entering a node preserves PrevInv if it is remembered as the parent's child.
LEMMA PrevGrows ==
  ASSUME PathOK(path), PrevInv(path), NEW x, NEW t, Grown(path, path', x, t),
         Top.type \in {"root", "body"} =>
           t \notin {"start", "empty"} /\
           (t \in {"tag", "SY"} => x.type = "block" /\ x.tok \in Items \cup {"SY"})
  PROVE  PrevInv(path')
<1> DEFINE k == Len(path)
<1>1. k \in Nat /\ k >= 1 /\ Len(path') = k + 1 /\ path'[k + 1] = x
      /\ \A i \in 1..(k - 1) : path'[i] = path[i]
  BY DEF Grown
<1>2. path'[k].type = Top.type /\ path'[k].prev = t
  BY DEF Grown, Like, Top
<1>3. path'[k].tok = path[k].tok /\ path'[k].type = path[k].type
  BY DEF Grown, Like
<1> HIDE DEF k
<1> SUFFICES ASSUME NEW i \in 1..k, path'[i].type \in {"root", "body"}
             PROVE  /\ path'[i].prev \notin {"start", "empty"}
                    /\ path'[i].prev \in {"tag", "SY"} =>
                         path'[i + 1].type = "block" /\ path'[i + 1].tok \in Items \cup {"SY"}
  BY <1>1 DEF PrevInv
<1>4. CASE i = k
  BY <1>1, <1>2, <1>4
<1>5. CASE i # k
  <2>1. i \in 1..(k - 1) /\ i + 1 \in 1..k
    BY <1>1, <1>5
  <2>2. path'[i] = path[i]
    BY <1>1, <2>1
  <2>3. path'[i + 1].tok = path[i + 1].tok /\ path'[i + 1].type = path[i + 1].type
    <3>1. CASE i + 1 = k
      BY <1>3, <3>1
    <3>2. CASE i + 1 # k
      <4>1. i + 1 \in 1..(k - 1)
        BY <1>1, <2>1, <3>2
      <4> QED BY <1>1, <4>1
    <3> QED BY <3>1, <3>2
  <2>4. path[i].prev \notin {"start", "empty"}
        /\ (path[i].prev \in {"tag", "SY"} =>
              path[i + 1].type = "block" /\ path[i + 1].tok \in Items \cup {"SY"})
    BY <2>1, <2>2 DEF PrevInv, k
  <2> QED BY <2>2, <2>3, <2>4
<1> QED BY <1>4, <1>5

\* The siblings that were visited do not matter for the nodes above.
LEMMA PrevStarts ==
  ASSUME NEW p, PathOK(p), PrevInv(p), NEW r, Start(p, r)
  PROVE  PrevInv(r)
<1> DEFINE k == Len(r)
<1>1. k \in Nat /\ k >= 1 /\ Len(p) \in Nat /\ k <= Len(p)
      /\ \A i \in 1..(k - 1) : r[i] = p[i]
  BY DEF Start, PathOK
<1>3. r[k].tok = p[k].tok /\ r[k].type = p[k].type
  BY DEF Start, Like
<1> HIDE DEF k
<1> SUFFICES ASSUME NEW i \in 1..(k - 1), r[i].type \in {"root", "body"}
             PROVE  /\ r[i].prev \notin {"start", "empty"}
                    /\ r[i].prev \in {"tag", "SY"} =>
                         r[i + 1].type = "block" /\ r[i + 1].tok \in Items \cup {"SY"}
  BY DEF PrevInv, k
<1>4. i \in 1..(Len(p) - 1) /\ i + 1 \in 1..k /\ r[i] = p[i]
  BY <1>1
<1>5. r[i + 1].tok = p[i + 1].tok /\ r[i + 1].type = p[i + 1].type
  <2>1. CASE i + 1 = k
    BY <1>3, <2>1
  <2>2. CASE i + 1 # k
    <3>1. i + 1 \in 1..(k - 1)
      BY <1>1, <1>4, <2>2
    <3> QED BY <1>1, <3>1
  <2> QED BY <2>1, <2>2
<1>6. p[i].prev \notin {"start", "empty"}
      /\ (p[i].prev \in {"tag", "SY"} =>
            p[i + 1].type = "block" /\ p[i + 1].tok \in Items \cup {"SY"})
  BY <1>4 DEF PrevInv
<1> QED BY <1>4, <1>5, <1>6

\* Every step of the formatter preserves PrevInv.
LEMMA PrevStep ==
  ASSUME PathOK(path), PrevInv(path), Walks
  PROVE  PrevInv(path')
<1>1. ASSUME NEW n, NEW x, BlockStarts(n, x)
      PROVE  PrevInv(path')
  <2>1. Grown(path, path', x, Trace(n)) /\ x.tok = n.tok /\ x.type = n.type /\ n.type = "block"
        /\ x \in NodeType /\ n.list = x.list /\ n.prev = "start"
        /\ (n.list # "none" => n.tok \in Items)
    <3>1. Grown(path, path', x, Trace(n)) /\ Kept(n, x) /\ PathOK(path')
      BY <1>1 DEF BlockStarts, Grows
    <3>2. x \in NodeType
      <4>1. Len(path') \in 1..Len(path') /\ path'[Len(path')] = x
        BY <3>1 DEF Grown
      <4> QED BY <3>1, <4>1, SeqElem DEF PathOK
    <3> QED BY <1>1, <3>1, <3>2 DEF BlockStarts, Kept
  <2>2. n.list \in ItemKinds
    BY <2>1 DEF NodeType
  <2>3. Trace(n) \notin {"start", "empty"}
        /\ (Trace(n) \in {"tag", "SY"} => n.tok \in Items \cup {"SY"})
    BY <2>1, <2>2, TraceEntered
  <2> QED BY <2>1, <2>3, PrevGrows
<1>2. ASSUME NEW n, NEW x, HeadStarts(n, x) \/ BodyStarts(n, x)
      PROVE  PrevInv(path')
  <2>1. Grown(path, path', x, Trace(n)) /\ Top.type = "block"
    BY <1>2 DEF HeadStarts, BodyStarts, PartStarts, Grows
  <2> QED BY <2>1, PrevGrows
<1>3. ASSUME NEW n, NEW x, ElemStarts(n, x)
      PROVE  PrevInv(path')
  <2>1. Grown(path, path', x, Trace(n)) /\ n.list = "none" /\ n.tok \in Elements
    BY <1>3 DEF ElemStarts, Grows
  <2>2. Trace(n) = "other"
    BY <2>1 DEF Trace, Elements, Sections
  <2> QED BY <2>1, <2>2, PrevGrows
<1>4. ASSUME NEW n, LeafShown(n)
      PROVE  PrevInv(path')
  <2>1. Start(path, path')
    BY <1>4 DEF LeafShown, Seen, Start, PathOK
  <2> QED BY <2>1, PrevStarts
<1>5. CASE HeadEnds \/ BodyEnds \/ RestEnds
  <2>1. Start(path, path')
    BY <1>5 DEF HeadEnds, BodyEnds, RestEnds, Ends
  <2> QED BY <2>1, PrevStarts
<1> QED BY <1>1, <1>2, <1>3, <1>4, <1>5 DEF Walks

-----------------------------------------------------------------------------
\* Blocks start on a new line.
LEMMA LineBlock ==
  ASSUME LineInv(path, out), ~({"PD", "SS"} \subseteq menu.has), NEW n, NEW x,
         BlockStarts(n, x), menu' = menu
  PROVE  LineInv(path', out')
<1>1. BlockRel(out, out', n, Top.prev) /\ Heir(Top, n.tok) /\ n.tok \in BlockToks
      /\ (n.tok = "TQ" => Top.prev = "tag") /\ n.tok \in menu.has
  BY DEF BlockStarts
<1>2. Grown(path, path', x, Trace(n)) /\ x.tok = n.tok /\ x.type = "block" /\ x.count = 0
  BY DEF BlockStarts, Grows, Kept
<1>3. Whole(Top) => out.col = FALSE
  BY DEF LineInv, Top
<1>4. out.torn = FALSE /\ (out.pardist = 0 => "PD" \in menu.has)
  BY DEF LineInv
<1>5. out'.torn = FALSE /\ (out'.pardist = 0 => "PD" \in menu.has)
  BY <1>1, <1>4 DEF BlockRel, SameRest
<1>6. out.col = FALSE => out'.col = FALSE
  BY <1>1 DEF BlockRel
<1>7. n.tok # "UR" => out'.col = FALSE
  <2>1. CASE n.tok \in {"TP", "IP", "HP", "PP", "RS"}
    BY <1>1, <2>1 DEF BlockRel
  <2>2. CASE n.tok = "TQ"
    <3>1. Top.type = "body" /\ Top.prev = "tag"
      BY <1>1, <2>2 DEF Heir
    <3>2. Whole(Top)
      BY <3>1 DEF Whole
    <3> QED BY <1>3, <1>6, <3>2
  <2>3. CASE n.tok = "SY"
    <3>1. CASE Top.prev = "SY"
      <4>1. Top.type = "body"
        BY <1>1, <2>3 DEF Heir
      <4>2. Whole(Top)
        BY <3>1, <4>1 DEF Whole
      <4> QED BY <1>3, <1>6, <4>2
    <3>2. CASE Top.prev # "SY"
      BY <1>1, <2>3, <3>2 DEF BlockRel
    <3> QED BY <3>1, <3>2
  <2>4. CASE n.tok \in Sections
    <3>1. Top.type = "root" \/ (Top.type = "body" /\ Top.tok = "SH" /\ n.tok = "SS")
      BY <1>1, <2>4 DEF Heir, Sections, Paragraphs, Items
    <3>2. CASE Top.type = "root"
      <4>1. Whole(Top)
        BY <3>2 DEF Whole
      <4> QED BY <1>3, <1>6, <4>1
    <3>3. CASE Top.type = "body" /\ Top.tok = "SH" /\ n.tok = "SS"
      <4>1. CASE Top.prev \in {"start", "empty"}
        <5>1. Whole(Top)
          BY <3>3, <4>1 DEF Whole
        <5> QED BY <1>3, <1>6, <5>1
      <4>2. CASE Top.prev \notin {"start", "empty"}
        <5>1. out.pardist # 0
          BY <1>1, <1>4, <3>3
        <5> QED BY <1>1, <2>4, <4>2, <5>1 DEF BlockRel
      <4> QED BY <4>1, <4>2
    <3> QED BY <3>1, <3>2, <3>3
  <2> QED BY <1>1, <2>1, <2>2, <2>3, <2>4 DEF BlockToks, Paragraphs, Items
<1>8. path'[Len(path')] = x
  BY <1>2 DEF Grown
<1>9. Whole(x) => out'.col = FALSE
  BY <1>2, <1>7 DEF Whole
<1> QED BY <1>5, <1>8, <1>9 DEF LineInv

\* Heads and bodies start on a new line, except those of UR.
LEMMA LinePart ==
  ASSUME LineInv(path, out), NEW n, NEW x, HeadStarts(n, x) \/ BodyStarts(n, x), menu' = menu
  PROVE  LineInv(path', out')
<1>1. /\ Top.type = "block" /\ Top.count \in {0, 1} /\ n.tok = Top.tok
      /\ SameRest(out, out') /\ Calm(out, out') /\ (n.tok = "UR" => out'.torn = out.torn)
  BY DEF HeadStarts, BodyStarts, PartStarts, HeadRel, BodyRel
<1>2. Grown(path, path', x, Trace(n)) /\ x.tok = n.tok /\ x.prev = "start"
      /\ x.type \in {"head", "body"}
  BY DEF HeadStarts, BodyStarts, PartStarts, Grows, Kept
<1>3. Whole(Top) => out.col = FALSE
  BY DEF LineInv, Top
<1>4. out.torn = FALSE /\ (out.pardist = 0 => "PD" \in menu.has)
  BY DEF LineInv
<1>5. out'.pardist = 0 => "PD" \in menu.has
  BY <1>1, <1>4 DEF SameRest
<1>6. path'[Len(path')] = x
  BY <1>2 DEF Grown
<1>7. CASE n.tok = "UR"
  <2>1. ~Whole(x)
    BY <1>2, <1>7 DEF Whole
  <2>2. out'.torn = FALSE
    BY <1>1, <1>4, <1>7
  <2> QED BY <1>5, <1>6, <2>1, <2>2 DEF LineInv
<1>8. CASE n.tok # "UR"
  <2>1. Whole(Top)
    BY <1>1, <1>8 DEF Whole
  <2>2. out'.col = FALSE /\ out'.torn = FALSE
    BY <1>1, <1>3, <1>4, <2>1 DEF Calm
  <2> QED BY <1>5, <1>6, <2>2 DEF LineInv
<1> QED BY <1>7, <1>8

\* Entering an element and formatting a leaf preserve LineInv.
LEMMA LineInside ==
  ASSUME PathOK(path), LineInv(path, out), menu' = menu, NEW n,
         (\E x : ElemStarts(n, x)) \/ LeafShown(n)
  PROVE  LineInv(path', out')
<1>1. out.torn = FALSE /\ (out.pardist = 0 => "PD" \in menu.has)
  BY DEF LineInv
<1>2. ASSUME NEW x, ElemStarts(n, x)
      PROVE  LineInv(path', out')
  <2>1. path'[Len(path')] = x /\ x.type = "elem"
    BY <1>2 DEF ElemStarts, Grows, Grown, Kept
  <2>2. ~Whole(x)
    BY <2>1 DEF Whole
  <2>3. ElemStep(out, out', n, Top.tok) /\ n.tok \in menu.has
    BY <1>2 DEF ElemStarts
  <2>4. out'.torn = FALSE /\ (out'.pardist = 0 => "PD" \in menu.has)
    BY <1>1, <2>3 DEF ElemStep, SameRest
  <2> QED BY <2>1, <2>2, <2>4 DEF LineInv
<1>3. CASE LeafShown(n)
  <2>1. /\ LeafStep(out, out', n, path'[Len(path)]) /\ Seen(path, path', "other")
        /\ Top.type \in {"elem", "head", "body"} /\ ~(Top.type = "head" /\ Top.tok \in Skipped)
    BY <1>3 DEF LeafShown
  <2>2. path'[Len(path')].prev = "other" /\ path'[Len(path')].type = Top.type
        /\ path'[Len(path')].tok = Top.tok
    BY <2>1 DEF Seen, Like, Top
  <2>3. ~Whole(path'[Len(path')])
    BY <2>1, <2>2 DEF Whole, Skipped
  <2>4. out'.torn = FALSE /\ (out'.pardist = 0 => "PD" \in menu.has)
    BY <1>1, <2>1 DEF LeafStep, SameRest
  <2> QED BY <2>3, <2>4 DEF LineInv
<1> QED BY <1>2, <1>3

\* Leaving a head or a body preserves LineInv: the post handler completes the line.
LEMMA LinePartEnd ==
  ASSUME LineInv(path, out), HeadEnds \/ BodyEnds, menu' = menu
  PROVE  LineInv(path', out')
<1> DEFINE a == path'[Len(path')]
<1>1. out.torn = FALSE /\ (out.pardist = 0 => "PD" \in menu.has)
  BY DEF LineInv
<1>2. Whole(Top) => out.col = FALSE
  BY DEF LineInv, Top
<1>3. a.type = "block" /\ a.tok = Top.tok /\ Top.tok \in BlockToks
  BY DEF HeadEnds, BodyEnds, PartEnds
<1>4. out'.torn = FALSE /\ (out'.pardist = 0 => "PD" \in menu.has)
  BY <1>1 DEF HeadEnds, BodyEnds, HeadOut, BodyOut, SameRest
<1>5. CASE HeadEnds
  <2>1. Top.type = "head" /\ HeadOut(out, out', Top)
    BY <1>5 DEF HeadEnds, PartEnds
  <2>2. Top.tok \in {"HP", "PP", "RS"} => Whole(Top)
    BY <2>1 DEF Whole
  <2>3. Top.tok # "UR" => out'.col = FALSE
    BY <1>2, <2>1, <2>2 DEF HeadOut, Skipped
  <2>4. Whole(a) => out'.col = FALSE
    BY <1>3, <2>3 DEF Whole
  <2> QED BY <1>4, <2>4 DEF LineInv
<1>6. CASE BodyEnds
  <2>1. BodyOut(out, out', Top) /\ a.count = 2
    BY <1>6 DEF BodyEnds, PartEnds
  <2>2. Top.tok \notin {"PP", "UR"} => out'.col = FALSE
    BY <2>1 DEF BodyOut
  <2>3. Whole(a) => out'.col = FALSE
    BY <1>3, <2>1, <2>2 DEF Whole
  <2> QED BY <1>4, <2>3 DEF LineInv
<1> QED BY <1>5, <1>6

\* Leaving a block or an element preserves LineInv.
LEMMA LineRestEnd ==
  ASSUME PathOK(path), PrevInv(path), LineInv(path, out), RestEnds, menu' = menu
  PROVE  LineInv(path', out')
<1> DEFINE a == path'[Len(path')]
           parent == path[Len(path) - 1]
<1>1. out.torn = FALSE /\ (out.pardist = 0 => "PD" \in menu.has)
  BY DEF LineInv
<1>2. Whole(Top) => out.col = FALSE
  BY DEF LineInv, Top
<1>3. RestOut(out, out', Top, parent) /\ Ends
      /\ a.prev = IF Top.type = "block" /\ Top.tok \in Sections THEN Trace(Top) ELSE parent.prev
  BY DEF RestEnds
<1>4. \/ Top.type = "block" /\ Top.tok \in BlockToks /\ Top.count = 2 /\ Heir(a, Top.tok)
      \/ Top.type = "elem" /\ Top.tok \in Elements /\ a.type \in {"head", "body"}
         /\ ~(a.type = "head" /\ a.tok \in Skipped)
  BY DEF RestEnds
<1>5. out'.torn = FALSE /\ (out'.pardist = 0 => "PD" \in menu.has)
  BY <1>1, <1>3 DEF RestOut, SameRest
<1>6. a.type = parent.type /\ a.tok = parent.tok
  <2>1. Like(a, path[Len(path')]) /\ Len(path') = Len(path) - 1
    BY <1>3 DEF Ends, Start
  <2> QED BY <2>1 DEF Like
<1>7. parent.type \in {"root", "body"} =>
         /\ parent.prev \notin {"start", "empty"}
         /\ parent.prev \in {"tag", "SY"} => Top.type = "block" /\ Top.tok \in Items \cup {"SY"}
  <2>1. Len(path) - 1 \in 1..(Len(path) - 1) /\ (Len(path) - 1) + 1 = Len(path)
    BY <1>3 DEF Ends
  <2> QED BY <2>1 DEF PrevInv, Top
<1> HIDE DEF a, parent
<1>8. Whole(Top) /\ Top.type = "block" /\ Top.tok # "UR" => out'.col = FALSE
  BY <1>2, <1>3 DEF RestOut
<1>9. Whole(a) => out'.col = FALSE
  <2>1. CASE Top.type = "elem"
    <3>1. a.prev = parent.prev /\ a.type \in {"head", "body"}
          /\ ~(a.type = "head" /\ a.tok \in Skipped)
      BY <1>3, <1>4, <2>1
    <3>2. ~Whole(a)
      BY <1>6, <1>7, <2>1, <3>1 DEF Whole, Skipped
    <3> QED BY <3>2
  <2>2. CASE Top.type = "block" /\ Top.tok \in Sections
    <3>1. Whole(Top) /\ Top.tok # "UR"
      BY <2>2 DEF Whole, Sections
    <3> QED BY <1>8, <2>2, <3>1
  <2>3. CASE Top.type = "block" /\ Top.tok \notin Sections
    <3>1. a.prev = parent.prev /\ a.type = "body"
      BY <1>3, <1>4, <2>3 DEF Heir, Sections
    <3>2. Whole(a) => Top.tok \in Items \cup {"SY"}
      BY <1>6, <1>7, <3>1 DEF Whole
    <3>3. Top.tok \in Items \cup {"SY"} => Whole(Top) /\ Top.tok # "UR"
      BY <2>3 DEF Whole, Items
    <3> QED BY <1>8, <2>3, <3>2, <3>3
  <2> QED BY <1>4, <2>1, <2>2, <2>3
<1> QED BY <1>5, <1>9 DEF LineInv, a

\* Every step of the formatter preserves LineInv.
LEMMA LineStep ==
  ASSUME PathOK(path), PrevInv(path), LineInv(path, out), ~({"PD", "SS"} \subseteq menu.has),
         Walks, menu' = menu
  PROVE  LineInv(path', out')
BY LineBlock, LinePart, LineInside, LinePartEnd, LineRestEnd DEF Walks

-----------------------------------------------------------------------------
\* The inductive invariant of the walk on the terminal.
FieldsInv == fmt = "term" => FieldInv(path, out) /\ FontInv(path, out)
\* Both invariants about lines.  With .PD and .SS in one page a line can be torn (README, 4).
LinesInv ==
  fmt = "term" =>
    PrevInv(path) /\ (~({"PD", "SS"} \subseteq menu.has) => LineInv(path, out))

\* The walk starts at the root (terminal_man()).
LEMMA RootIs ==
  ASSUME Init
  PROVE  PathOK(path) /\ Len(path) = 1 /\ path[1].type = "root" /\ path[1].prev = "start"
<1>1. path = <<Node("root", "root")>>
  BY DEF Init
<1> DEFINE r == Node("root", "root")
<1>2. r = [tok |-> "root", type |-> "root", w |-> <<>>, arg |-> FALSE, first |-> "any",
           nofill |-> FALSE, line |-> FALSE, list |-> "none", before |-> "none", after |-> "none",
           count |-> 0, prev |-> "start", then |-> "any", skip |-> FALSE, aux |-> 0, sv |-> 0]
  BY DEF Node
<1>3. <<>> \in Seq(Int)
  OBVIOUS
<1>4. "none" \in ItemKinds /\ 0 \in 0..2 /\ "start" \in Siblings /\ "any" \in Followers
  BY DEF ItemKinds, Siblings, Followers
<1>5. "root" \in Toks
  BY DEF Toks
<1>f. FALSE \in BOOLEAN /\ 0 \in Int
  OBVIOUS
<1> HIDE DEF r
<1>6. r \in NodeType
  BY <1>2, <1>3, <1>4, <1>5, <1>f DEF NodeType
<1>7. Good(r) /\ r.type = "root" /\ r.prev = "start"
  BY <1>2 DEF Good
<1>8. path \in Seq(NodeType) /\ Len(path) = 1 /\ path[1] = r
  BY <1>1, <1>6 DEF r
<1>9. \A i \in 1..Len(path) : Good(path[i])
  BY <1>7, <1>8
<1>10. \A i \in 2..Len(path) : Below(path[i - 1], path[i])
  BY <1>8
<1>11. \A i, j \in 1..Len(path) : i < j => Inside(path[i], path[j])
  BY <1>8
<1> QED BY <1>7, <1>8, <1>9, <1>10, <1>11 DEF PathOK

\* terminal_man() starts at the left margin of the page, with the default indentation.
LEMMA BeginsAs ==
  ASSUME Init, fmt = "term"
  PROVE  /\ out \in TermType /\ Modes(out) = {} /\ out.trail = 0 /\ out.col = FALSE
         /\ out.torn = FALSE /\ out.pardist = 1 /\ out.sz = 0
<1>1. out = Term!man_begin
  BY DEF Init
<1> DEFINE l == [i \in 0..(MaxMargins - 1) |-> IF i = 0 THEN 7 ELSE 0]
<1>2. l \in [0..(MaxMargins - 1) -> Int]
  OBVIOUS
<1>3. l = [i \in 0..(MaxMargins - 1) |-> IF i = 0 THEN Term!ParWidth ELSE 0]
  BY DEF Term!ParWidth
<1> HIDE DEF l
<1>4. out = [off |-> 0, rm |-> 78, fl |-> {}, trail |-> 0, col |-> FALSE, ret |-> TRUE,
             fault |-> FALSE, torn |-> FALSE, offset |-> 5, pardist |-> 1,
             lmargin |-> l, cur |-> 0, sz |-> 0]
  BY <1>1, <1>3 DEF Term!man_begin, Term!MaxMargin, Term!DefIndent
<1>5. 0 \in 0..(MaxMargins - 1)
  BY FormatAssumption
<1>6. {} \in SUBSET Flags /\ FALSE \in BOOLEAN /\ TRUE \in BOOLEAN
  OBVIOUS
<1>7. out \in TermType
  BY <1>2, <1>4, <1>5, <1>6 DEF TermType
<1>8. out.fl = {} /\ out.trail = 0 /\ out.pardist = 1 /\ out.sz = 0
  BY <1>4
<1>9. out.col = FALSE /\ out.torn = FALSE
  BY <1>4
<1>10. Modes(out) = {}
  BY <1>8 DEF Modes
<1> QED BY <1>7, <1>8, <1>9, <1>10

\* All invariants hold when the walk starts.
LEMMA InitHolds ==
  ASSUME Init
  PROVE  TermInv /\ FieldsInv /\ LinesInv
<1>1. PathOK(path) /\ Len(path) = 1 /\ path[1].type = "root" /\ path[1].prev = "start"
  BY RootIs
<1>2. menu \in Menus /\ nf \in BOOLEAN
  BY DEF Init
<1>3. ASSUME fmt = "term" PROVE
         /\ out \in TermType /\ Modes(out) = {} /\ out.trail = 0 /\ out.col = FALSE
         /\ out.torn = FALSE /\ out.pardist = 1 /\ out.sz = 0
  BY <1>3, BeginsAs
<1>4. Cardinality(Nested(path)) = 0
  <2>1. Nested(path) = {}
    BY <1>1 DEF Nested
  <2> QED BY <2>1, FS_EmptySet
<1>5. TermInv
  BY <1>1, <1>2, <1>3, <1>4 DEF TermInv
<1>6. FieldsInv
  BY <1>3 DEF FieldsInv, FieldInv, FontInv, Closed, FieldModes
<1>7. PrevInv(path)
  BY <1>1 DEF PrevInv
<1>8. ASSUME fmt = "term" PROVE LineInv(path, out)
  <2>1. out.torn = FALSE
    BY <1>3, <1>8
  <2>2. out.col = FALSE
    BY <1>3, <1>8
  <2>3. out.pardist = 1
    BY <1>3, <1>8
  <2>4. out.pardist # 0
    BY <2>3
  <2> QED BY <2>1, <2>2, <2>4 DEF LineInv
<1>9. LinesInv
  BY <1>7, <1>8 DEF LinesInv
<1> QED BY <1>5, <1>6, <1>9

\* No step changes the format, and what is read does not depend on it.
LEMMA StepKeeps ==
  ASSUME nf \in BOOLEAN, Next
  PROVE  fmt' = fmt /\ menu' = menu /\ nf' \in BOOLEAN
<1>1. fmt' = fmt /\ menu' = menu
  BY DEF Next, EnterNode, VisitLeaf, LeaveNode
<1>2. CASE EnterNode
  <2>1. PICK n : nf' = IF n.type \in {"block", "elem"} THEN FillAfter(n) ELSE nf
    BY <1>2 DEF EnterNode
  <2> QED BY <1>1, <2>1, FillIs
<1>3. CASE VisitLeaf
  <2>1. PICK n : nf' = FillAfter(n)
    BY <1>3 DEF VisitLeaf
  <2> QED BY <1>1, <2>1, FillIs
<1>4. CASE LeaveNode
  BY <1>1, <1>4 DEF LeaveNode
<1> QED BY <1>2, <1>3, <1>4 DEF Next

\* All invariants are preserved by every step.
LEMMA StepHolds ==
  ASSUME TermInv, FieldsInv, LinesInv, [Next]_vars
  PROVE  TermInv' /\ FieldsInv' /\ LinesInv'
<1>1. CASE Next
  <2>1. fmt' = fmt /\ menu' = menu /\ nf' \in BOOLEAN
    BY <1>1, StepKeeps DEF TermInv
  <2>2. CASE fmt = "term"
    <3>1. Walks
      BY <1>1, <2>2, WalkIs
    <3>2. PathOK(path) /\ FieldInv(path, out) /\ FontInv(path, out) /\ PrevInv(path)
      BY <2>2 DEF TermInv, FieldsInv, LinesInv
    <3>3. PathOK(path') /\ out' \in TermType /\ out'.sz = Cardinality(Nested(path'))
      BY <3>1, WalkKeeps
    <3>4. FieldInv(path', out')
      BY <3>1, <3>2, FieldStep
    <3>5. FontInv(path', out')
      BY <3>1, <3>2, FontStep
    <3>6. PrevInv(path')
      BY <3>1, <3>2, PrevStep
    <3>7. ~({"PD", "SS"} \subseteq menu.has) => LineInv(path', out')
      BY <2>1, <2>2, <3>1, <3>2, LineStep DEF LinesInv
    <3>8. TermInv'
      BY <2>1, <3>3 DEF TermInv
    <3>9. FieldsInv'
      BY <3>4, <3>5 DEF FieldsInv
    <3>10. LinesInv'
      BY <2>1, <3>6, <3>7 DEF LinesInv, LineInv
    <3> QED BY <3>8, <3>9, <3>10
  <2>3. CASE fmt # "term"
    BY <2>1, <2>3 DEF TermInv, FieldsInv, LinesInv
  <2> QED BY <2>2, <2>3
<1>2. CASE UNCHANGED vars
  BY <1>2 DEF vars, TermInv, FieldsInv, LinesInv, Nested, LineInv
<1> QED BY <1>1, <1>2

-----------------------------------------------------------------------------
\* A bound of the widths that a page may use.
Most(m) ==
  CHOOSE w \in 0..Term!ShrtMax : Within(m, w) /\ Term!DefIndent + (m.rs + 1) * w < Term!ShrtMax

\* What MenuAssumption says of a menu.
Modest(m, most) ==
  /\ m.rs \in Nat /\ most \in Nat /\ most >= 7 /\ 5 + (m.rs + 1) * most < 1000
  /\ \A w \in m.widths : w \in Seq(Int) /\ Len(w) = 1 /\ (w[1] <= most \/ w[1] > 1000)

\* Such a bound exists by assumption.
LEMMA MostIs ==
  ASSUME NEW m \in Menus
  PROVE  Modest(m, Most(m))
<1>1. \E w \in 0..Term!ShrtMax :
         Within(m, w) /\ Term!DefIndent + (m.rs + 1) * w < Term!ShrtMax
  BY MenuAssumption
<1>2. /\ Most(m) \in 0..Term!ShrtMax
      /\ Within(m, Most(m)) /\ Term!DefIndent + (m.rs + 1) * Most(m) < Term!ShrtMax
  BY <1>1 DEF Most
<1>3. m.rs \in Nat /\ \A w \in m.widths : w \in Seq(Int) /\ Len(w) = 1
  BY MenuAssumption
<1>4. Term!ShrtMax = 1000 /\ Term!DefIndent = 5 /\ Term!ParWidth = 7
  BY DEF Term!ShrtMax, Term!DefIndent, Term!ParWidth
<1>5. Most(m) \in Nat /\ Most(m) >= 7 /\ \A w \in m.widths : w[1] <= Most(m) \/ w[1] > 1000
  BY <1>2, <1>4 DEF Within
<1>6. 5 + (m.rs + 1) * Most(m) < 1000
  BY <1>2, <1>4
<1> QED BY <1>3, <1>5, <1>6 DEF Modest

\* One for the body of .RS.
Rise(n) == IF n.tok = "RS" /\ n.type = "body" THEN 1 ELSE 0
\* t[i] is the indentation in the node p[i], and h[i] the number of .RS bodies up to there.
Totals(p, t, h) ==
  /\ t \in [Nat -> Int] /\ h \in [Nat -> Nat] /\ t[0] = 5 /\ h[0] = 0
  /\ \A i \in 1..Len(p) : t[i] = t[i - 1] + p[i].aux /\ h[i] = h[i - 1] + Rise(p[i])
\* No indentation is negative, and none exceeds what the open .RS bodies can add.
Bounded(k, t, h) ==
  \A i \in 0..k : h[i] <= menu.rs /\ 0 <= t[i] /\ t[i] <= 5 + h[i] * Most(menu)
\* Only the body of .RS changes the indentation.
Ordered(k, t, h) ==
  \A i, j \in 0..k : (i <= j => h[i] <= h[j]) /\ (h[i] = h[j] => t[i] = t[j])
\* What can be said of the node n when z bodies of .RS are open around it.
Placeable(n, z) ==
  /\ n.type = "block" => n.w = <<>> \/ n.w \in menu.widths
  /\ n.type = "block" /\ n.tok = "RS" => z < menu.rs
  /\ n.tok \in Sections \cup {"root"} => z = 0
\* The indentation in each node of the path.
Sums(p, t, h) ==
  /\ Totals(p, t, h) /\ Bounded(Len(p), t, h) /\ Ordered(Len(p), t, h)
  /\ \A i \in 1..Len(p) : Placeable(p[i], h[i])

\* Visiting a child does not change what a node adds to the indentation.
LEMMA RiseLike ==
  ASSUME NEW a, NEW b, Like(a, b)
  PROVE  Rise(a) = Rise(b) /\ a.aux = b.aux /\ \A z : Placeable(b, z) => Placeable(a, z)
BY DEF Like, Rise, Placeable

\* The sums of a part of the path are those of the path.
LEMMA SumsPart ==
  ASSUME NEW p, NEW t, NEW h, Sums(p, t, h), Len(p) \in Nat, NEW r, Len(r) \in Nat,
         Len(r) <= Len(p), \A i \in 1..Len(r) : Like(r[i], p[i])
  PROVE  Sums(r, t, h)
<1>1. \A i \in 1..Len(r) : i \in 1..Len(p) /\ Rise(r[i]) = Rise(p[i]) /\ r[i].aux = p[i].aux
                           /\ (Placeable(p[i], h[i]) => Placeable(r[i], h[i]))
  BY RiseLike
<1>2. Totals(r, t, h)
  BY <1>1 DEF Sums, Totals
<1>3. Bounded(Len(r), t, h)
  BY DEF Sums, Bounded
<1>4. Ordered(Len(r), t, h)
  BY DEF Sums, Ordered
<1> QED BY <1>1, <1>2, <1>3, <1>4 DEF Sums

\* The sums of a path with one more node.
Next1(t, k, v) == [t EXCEPT ![k] = v]

\* A node is added to the path.
LEMMA SumsPlus ==
  ASSUME NEW p, NEW t, NEW h, Sums(p, t, h), NEW k \in Nat, Len(p) = k,
         NEW r, Len(r) = k + 1, \A i \in 1..k : Like(r[i], p[i]),
         NEW a, a = r[k + 1].aux, NEW d, d = Rise(r[k + 1]), a \in Int,
         h[k] + d <= menu.rs, 0 <= t[k] + a, t[k] + a <= 5 + (h[k] + d) * Most(menu),
         d = 0 => a = 0, Placeable(r[k + 1], h[k] + d), menu.rs \in Nat,
         NEW u, u = Next1(t, k + 1, t[k] + a), NEW g, g = Next1(h, k + 1, h[k] + d)
  PROVE  /\ Sums(r, u, g) /\ u[k + 1] = t[k] + a /\ g[k + 1] = h[k] + d
         /\ \A i \in 0..k : u[i] = t[i] /\ g[i] = h[i]
<1>1. t \in [Nat -> Int] /\ h \in [Nat -> Nat] /\ t[0] = 5 /\ h[0] = 0
  BY DEF Sums, Totals
<1>2. d \in {0, 1}
  BY DEF Rise
<1>3. t[k] \in Int /\ h[k] \in Nat /\ t[k] + a \in Int /\ h[k] + d \in Nat
  <2>1. t[k] \in Int /\ h[k] \in Nat
    BY <1>1
  <2> QED BY <1>2, <2>1
<1>4. u \in [Nat -> Int] /\ g \in [Nat -> Nat]
  BY <1>1, <1>3 DEF Next1
<1>5. u[k + 1] = t[k] + a /\ g[k + 1] = h[k] + d /\ \A i \in 0..k : u[i] = t[i] /\ g[i] = h[i]
  BY <1>1, <1>3 DEF Next1
<1>6. Totals(r, u, g)
  <2>1. \A i \in 1..(k + 1) : u[i] = u[i - 1] + r[i].aux /\ g[i] = g[i - 1] + Rise(r[i])
    <3> TAKE i \in 1..(k + 1)
    <3>1. CASE i = k + 1
      <4>1. i - 1 = k /\ k \in 0..k
        BY <3>1
      <4> QED BY <1>5, <3>1, <4>1
    <3>2. CASE i # k + 1
      <4>1. i \in 1..k /\ i \in 0..k /\ i - 1 \in 0..k
        BY <3>2
      <4>2. Rise(r[i]) = Rise(p[i]) /\ r[i].aux = p[i].aux
        BY <4>1, RiseLike
      <4>3. t[i] = t[i - 1] + p[i].aux /\ h[i] = h[i - 1] + Rise(p[i])
        BY <4>1 DEF Sums, Totals
      <4> QED BY <1>5, <4>1, <4>2, <4>3
    <3> QED BY <3>1, <3>2
  <2>2. u[0] = 5 /\ g[0] = 0
    <3>1. 0 \in 0..k
      OBVIOUS
    <3> QED BY <1>1, <1>5, <3>1
  <2> QED BY <1>4, <2>1, <2>2 DEF Totals
<1>7. Bounded(k + 1, u, g)
  <2> SUFFICES ASSUME NEW i \in 0..(k + 1)
               PROVE  g[i] <= menu.rs /\ 0 <= u[i] /\ u[i] <= 5 + g[i] * Most(menu)
    BY DEF Bounded
  <2>1. CASE i = k + 1
    BY <1>5, <2>1
  <2>2. CASE i # k + 1
    <3>1. i \in 0..k
      BY <2>2
    <3> QED BY <1>5, <3>1 DEF Sums, Bounded
  <2> QED BY <2>1, <2>2
<1>8. Ordered(k + 1, u, g)
  <2> SUFFICES ASSUME NEW i \in 0..(k + 1), NEW j \in 0..(k + 1)
               PROVE  (i <= j => g[i] <= g[j]) /\ (g[i] = g[j] => u[i] = u[j])
    BY DEF Ordered
  <2>1. \A x, y \in 0..k : (x <= y => h[x] <= h[y]) /\ (h[x] = h[y] => t[x] = t[y])
    BY DEF Sums, Ordered
  <2>2. k \in 0..k /\ \A x \in 0..k : h[x] \in Nat /\ h[x] <= h[k]
    <3>1. k \in 0..k
      OBVIOUS
    <3>2. \A x \in 0..k : x \in Nat /\ x <= k
      OBVIOUS
    <3>3. \A x \in 0..k : h[x] <= h[k]
      BY <2>1, <3>1, <3>2
    <3>4. \A x \in 0..k : h[x] \in Nat
      BY <1>1, <3>2
    <3> QED BY <3>1, <3>3, <3>4
  <2>3. \A x \in 0..k : g[x] <= g[k + 1] /\ (g[x] = g[k + 1] => u[x] = u[k + 1])
    <3> TAKE x \in 0..k
    <3>1. g[x] = h[x] /\ u[x] = t[x] /\ g[k + 1] = h[k] + d /\ u[k + 1] = t[k] + a
      BY <1>5
    <3>2. h[x] \in Nat /\ h[x] <= h[k] /\ (h[x] = h[k] => t[x] = t[k])
      BY <2>1, <2>2
    <3>3. CASE d = 0
      <4>1. a = 0
        BY <3>3
      <4> QED BY <1>3, <3>1, <3>2, <3>3, <4>1
    <3>4. CASE d = 1
      BY <1>3, <3>1, <3>2, <3>4
    <3> QED BY <1>2, <3>3, <3>4
  <2>4. CASE i \in 0..k /\ j \in 0..k
    BY <1>5, <2>1, <2>4
  <2>5. CASE i = k + 1 /\ j \in 0..k
    BY <2>3, <2>5
  <2>6. CASE j = k + 1 /\ i \in 0..k
    BY <2>3, <2>6
  <2>7. CASE i = k + 1 /\ j = k + 1
    BY <1>3, <1>5, <2>7
  <2> QED BY <2>4, <2>5, <2>6, <2>7
<1>9. \A i \in 1..(k + 1) : Placeable(r[i], g[i])
  <2> TAKE i \in 1..(k + 1)
  <2>1. CASE i = k + 1
    BY <1>5, <2>1
  <2>2. CASE i # k + 1
    <3>1. i \in 1..k /\ i \in 0..k
      BY <2>2
    <3>2. Placeable(p[i], h[i])
      BY <3>1 DEF Sums
    <3> QED BY <1>5, <3>1, <3>2, RiseLike
  <2> QED BY <2>1, <2>2
<1> QED BY <1>5, <1>6, <1>7, <1>8, <1>9 DEF Sums

-----------------------------------------------------------------------------
\* The entry of the stack of widths in use when z bodies of .RS are open (pre_RS()).
Cap(z) == IF z < MaxMargins THEN z ELSE MaxMargins - 1
\* The widths are not ignored ones; that in use by any node on the path fits on the page.
Fit(l, t, h, k) ==
  /\ \A i \in 0..(MaxMargins - 1) : l[i] <= Most(menu)
  /\ (\A w \in menu.widths : w[1] >= 0) => \A i \in 0..(MaxMargins - 1) : l[i] >= 0
  /\ menu.rs < MaxMargins => \A i \in 0..k : l[h[i]] >= -t[i]
\* mt->offset is the indentation of the k-th node of the path, and the stack of widths is
\* as high as .RS bodies are open.
Stack(o, t, h, k) ==
  /\ o.offset = t[k] /\ o.sz = h[k] /\ o.cur = Cap(h[k])
  /\ Fit(o.lmargin, t, h, k)

\* The stack of a state with the same stack.
LEMMA StackSame ==
  ASSUME NEW o, NEW q, SameStack(o, q), NEW t, NEW h, NEW k, Stack(o, t, h, k)
  PROVE  Stack(q, t, h, k)
BY DEF Stack, SameStack

\* A node that does not change the indentation is added.
LEMMA StackMore ==
  ASSUME NEW o, NEW t, NEW h, NEW k \in Nat, Stack(o, t, h, k), NEW u, NEW g,
         u[k + 1] = t[k], g[k + 1] = h[k], \A i \in 0..k : u[i] = t[i] /\ g[i] = h[i]
  PROVE  Stack(o, u, g, k + 1)
<1>1. menu.rs < MaxMargins => \A i \in 0..(k + 1) : o.lmargin[g[i]] >= -u[i]
  <2> SUFFICES ASSUME menu.rs < MaxMargins, NEW i \in 0..(k + 1)
               PROVE  o.lmargin[g[i]] >= -u[i]
    OBVIOUS
  <2>1. \E j \in 0..k : g[i] = h[j] /\ u[i] = t[j]
    <3>1. CASE i = k + 1
      <4>1. k \in 0..k
        OBVIOUS
      <4> QED BY <3>1, <4>1
    <3>2. CASE i # k + 1
      <4>1. i \in 0..k
        BY <3>2
      <4> QED BY <4>1
    <3> QED BY <3>1, <3>2
  <2> QED BY <2>1 DEF Stack, Fit
<1> QED BY <1>1 DEF Stack, Fit

\* The last node, which did not change the indentation, is left.
LEMMA StackLess ==
  ASSUME NEW o, NEW t, NEW h, NEW k \in Nat, k >= 1, Stack(o, t, h, k),
         t[k] = t[k - 1], h[k] = h[k - 1]
  PROVE  Stack(o, t, h, k - 1)
<1>1. \A i \in 0..(k - 1) : i \in 0..k
  OBVIOUS
<1> QED BY <1>1 DEF Stack, Fit

\* The width in use changes.
LEMMA StackWide ==
  ASSUME NEW o \in TermType, NEW t, NEW h, NEW k \in Nat, Stack(o, t, h, k),
         t \in [Nat -> Int], h \in [Nat -> Nat], Bounded(k, t, h), Ordered(k, t, h),
         NEW q, NEW w \in Int, Widened(o, q, w), w <= Most(menu), menu.rs \in Nat,
         menu.rs < MaxMargins => w >= -t[k],
         (\A v \in menu.widths : v[1] >= 0) => w >= 0
  PROVE  Stack(q, t, h, k)
<1> DEFINE l == o.lmargin
           m == q.lmargin
<1>1. l \in [0..(MaxMargins - 1) -> Int] /\ o.cur \in 0..(MaxMargins - 1)
  BY DEF TermType
<1>2. m = [l EXCEPT ![o.cur] = w]
  BY DEF Widened
<1>3. q.offset = t[k] /\ q.sz = h[k] /\ q.cur = Cap(h[k]) /\ o.cur = Cap(h[k])
  BY DEF Widened, Stack
<1>4. Fit(l, t, h, k)
  BY DEF Stack
<1> HIDE DEF l, m
<1>5. \A i \in 0..(MaxMargins - 1) : m[i] = l[i] \/ m[i] = w
  BY <1>1, <1>2
<1>6. \A i \in 0..(MaxMargins - 1) : m[i] <= Most(menu)
  BY <1>4, <1>5 DEF Fit
<1>7. (\A v \in menu.widths : v[1] >= 0) => \A i \in 0..(MaxMargins - 1) : m[i] >= 0
  <2> HAVE \A v \in menu.widths : v[1] >= 0
  <2>1. \A i \in 0..(MaxMargins - 1) : l[i] >= 0
    BY <1>4 DEF Fit
  <2> QED BY <1>5, <2>1
<1>8. menu.rs < MaxMargins => \A i \in 0..k : m[h[i]] >= -t[i]
  <2> SUFFICES ASSUME menu.rs < MaxMargins, NEW i \in 0..k PROVE m[h[i]] >= -t[i]
    OBVIOUS
  <2>1. k \in 0..k /\ h[i] \in Nat /\ h[k] \in Nat /\ MaxMargins \in Nat
    BY FormatAssumption
  <2>2. h[i] <= menu.rs /\ h[k] <= menu.rs
    BY <2>1 DEF Bounded
  <2>3. h[i] \in 0..(MaxMargins - 1) /\ h[k] \in 0..(MaxMargins - 1) /\ h[k] < MaxMargins
    BY <2>1, <2>2
  <2>4. o.cur = h[k]
    BY <1>3, <2>3 DEF Cap
  <2>5. CASE h[i] = h[k]
    <3>1. t[i] = t[k]
      BY <2>1, <2>5 DEF Ordered
    <3>2. m[h[i]] = w
      BY <1>1, <1>2, <2>3, <2>4, <2>5
    <3> QED BY <3>1, <3>2
  <2>6. CASE h[i] # h[k]
    <3>1. m[h[i]] = l[h[i]]
      BY <1>1, <1>2, <2>3, <2>4, <2>6
    <3>2. l[h[i]] >= -t[i]
      BY <1>4 DEF Fit
    <3> QED BY <3>1, <3>2
  <2> QED BY <2>5, <2>6
<1>9. Fit(m, t, h, k)
  BY <1>6, <1>7, <1>8 DEF Fit
<1> QED BY <1>3, <1>9 DEF Stack, m

\* The body of .RS is entered.
Pushing(o, t, h, k, q, a, u, g) ==
  /\ Stack(o, t, h, k) /\ t \in [Nat -> Int] /\ h \in [Nat -> Nat]
  /\ Bounded(k, t, h) /\ Ordered(k, t, h)
  /\ Pushed(o, q, a) /\ a >= -t[k] /\ h[k] < menu.rs
  /\ u[k + 1] = t[k] + a /\ g[k + 1] = h[k] + 1
  /\ \A i \in 0..k : u[i] = t[i] /\ g[i] = h[i]

\* pre_RS(): the width the new block starts with is pushed, and shared beyond MAXMARGINS.
LEMMA StackPush ==
  ASSUME menu \in Menus, NEW o \in TermType, NEW t, NEW h, NEW k \in Nat, NEW q,
         NEW a \in Int, NEW u, NEW g, Pushing(o, t, h, k, q, a, u, g)
  PROVE  Stack(q, u, g, k + 1)
<1> DEFINE l == o.lmargin
           m == q.lmargin
           c == Cap(h[k] + 1)
<1>0. Stack(o, t, h, k) /\ t \in [Nat -> Int] /\ h \in [Nat -> Nat]
      /\ Bounded(k, t, h) /\ Ordered(k, t, h)
      /\ Pushed(o, q, a) /\ a >= -t[k] /\ h[k] < menu.rs
      /\ u[k + 1] = t[k] + a /\ g[k + 1] = h[k] + 1
      /\ \A i \in 0..k : u[i] = t[i] /\ g[i] = h[i]
  BY DEF Pushing
<1> USE <1>0
<1>1. l \in [0..(MaxMargins - 1) -> Int] /\ o.cur \in 0..(MaxMargins - 1)
  BY DEF TermType
<1>2. menu.rs \in Nat /\ Most(menu) \in Nat /\ Most(menu) >= 7
  <2>1. Modest(menu, Most(menu))
    BY MostIs
  <2> QED BY <2>1 DEF Modest
<1>3. k \in 0..k /\ h[k] \in Nat /\ t[k] \in Int /\ MaxMargins \in Nat /\ MaxMargins >= 1
  BY FormatAssumption
<1>4. o.offset = t[k] /\ o.sz = h[k] /\ o.cur = Cap(h[k])
  BY DEF Stack
<1>5. q.offset = u[k + 1] /\ q.sz = g[k + 1] /\ q.cur = c
  <2>1. q.offset = t[k] + a /\ q.sz = h[k] + 1
    BY <1>4 DEF Pushed
  <2>2. q.cur = IF h[k] + 1 < MaxMargins THEN h[k] + 1 ELSE Cap(h[k])
    BY <1>4 DEF Pushed
  <2>3. q.cur = c
    BY <1>3, <2>2 DEF Cap
  <2> QED BY <2>1, <2>3
<1>6. m = [l EXCEPT ![c] = 7] /\ c \in 0..(MaxMargins - 1)
  BY <1>3, <1>5 DEF Pushed, Cap
<1>7. Fit(l, t, h, k)
  BY DEF Stack
<1>8. menu.rs < MaxMargins => c = h[k] + 1
  BY <1>2, <1>3 DEF Cap
<1> HIDE DEF l, m, c
<1>9. \A i \in 0..(MaxMargins - 1) : m[i] = IF i = c THEN 7 ELSE l[i]
  BY <1>1, <1>6
<1>10. \A i \in 0..(MaxMargins - 1) : m[i] <= Most(menu)
  BY <1>2, <1>7, <1>9 DEF Fit
<1>11. (\A v \in menu.widths : v[1] >= 0) => \A i \in 0..(MaxMargins - 1) : m[i] >= 0
  <2> HAVE \A v \in menu.widths : v[1] >= 0
  <2>1. \A i \in 0..(MaxMargins - 1) : l[i] >= 0
    BY <1>7 DEF Fit
  <2> QED BY <1>9, <2>1
<1>12. menu.rs < MaxMargins => \A i \in 0..(k + 1) : m[g[i]] >= -u[i]
  <2> SUFFICES ASSUME menu.rs < MaxMargins, NEW i \in 0..(k + 1) PROVE m[g[i]] >= -u[i]
    OBVIOUS
  <2>1. CASE i = k + 1
    <3>1. g[i] = c /\ u[i] = t[k] + a
      BY <1>8, <2>1
    <3>2. m[c] = 7
      BY <1>6, <1>9
    <3> QED BY <1>3, <3>1, <3>2
  <2>2. CASE i # k + 1
    <3>1. i \in 0..k /\ g[i] = h[i] /\ u[i] = t[i]
      BY <2>2
    <3>2. h[i] \in Nat /\ t[i] \in Int /\ h[i] <= menu.rs /\ 0 <= t[i]
      BY <3>1 DEF Bounded
    <3>3. h[i] \in 0..(MaxMargins - 1)
      BY <1>2, <1>3, <3>2
    <3>4. l[h[i]] >= -t[i]
      BY <1>7, <3>1 DEF Fit
    <3>5. m[h[i]] = 7 \/ m[h[i]] = l[h[i]]
      BY <1>9, <3>3
    <3> QED BY <3>1, <3>2, <3>4, <3>5
  <2> QED BY <2>1, <2>2
<1>13. Fit(m, u, g, k + 1)
  BY <1>10, <1>11, <1>12 DEF Fit
<1> QED BY <1>5, <1>13 DEF Stack, m, c

\* The body of .RS is left.
LEMMA StackPop ==
  ASSUME NEW o, NEW t, NEW h, NEW k \in Nat, k >= 1, Stack(o, t, h, k),
         t \in [Nat -> Int], h \in [Nat -> Nat], NEW q, NEW a \in Int, Popped(o, q, a),
         t[k] = t[k - 1] + a, h[k] = h[k - 1] + 1
  PROVE  Stack(q, t, h, k - 1)
<1>1. k - 1 \in Nat /\ h[k - 1] \in Nat /\ t[k - 1] \in Int /\ MaxMargins \in Nat /\ MaxMargins >= 1
  BY FormatAssumption
<1>2. o.offset = t[k - 1] + a /\ o.sz = h[k - 1] + 1 /\ o.cur = Cap(h[k - 1] + 1)
  BY DEF Stack
<1>3. q.offset = t[k - 1] /\ q.sz = h[k - 1]
  BY <1>1, <1>2 DEF Popped
<1>4. q.cur = IF h[k - 1] < MaxMargins THEN h[k - 1] ELSE Cap(h[k - 1] + 1)
  BY <1>1, <1>2 DEF Popped
<1>5. q.cur = Cap(h[k - 1])
  BY <1>1, <1>4 DEF Cap
<1>6. \A i \in 0..(k - 1) : i \in 0..k
  OBVIOUS
<1>7. Fit(q.lmargin, t, h, k - 1)
  BY <1>6 DEF Popped, Stack, Fit
<1> QED BY <1>3, <1>5, <1>7 DEF Stack

-----------------------------------------------------------------------------
\* The inductive form of the first part of Margins.
SumInv(p, o) == \E t, h : Sums(p, t, h) /\ Stack(o, t, h, Len(p))

\* The indentation and the widths are small; that in use fits if the stack is Steady.
Room(o) ==
  /\ o.offset \in Nat /\ o.offset <= 5 + menu.rs * Most(menu)
  /\ \A i \in 0..(MaxMargins - 1) : o.lmargin[i] <= Most(menu)
  /\ (\A w \in menu.widths : w[1] >= 0) => \A i \in 0..(MaxMargins - 1) : o.lmargin[i] >= 0
  /\ menu.rs < MaxMargins => o.lmargin[o.cur] >= -o.offset

\* The sums are functions, and so on.
LEMMA SumsAre ==
  ASSUME NEW p, NEW t, NEW h, Sums(p, t, h), Len(p) \in Nat
  PROVE  /\ t \in [Nat -> Int] /\ h \in [Nat -> Nat]
         /\ Bounded(Len(p), t, h) /\ Ordered(Len(p), t, h)
BY DEF Sums, Totals

\* What the invariant says of the node being formatted.
LEMMA RoomIs ==
  ASSUME menu \in Menus, NEW p, Len(p) \in Nat, NEW o \in TermType, SumInv(p, o)
  PROVE  Room(o)
<1> DEFINE k == Len(p)
<1>1. PICK t, h : Sums(p, t, h) /\ Stack(o, t, h, k)
  BY DEF SumInv
<1>2. t \in [Nat -> Int] /\ h \in [Nat -> Nat] /\ Bounded(k, t, h)
  BY <1>1, SumsAre
<1>3. k \in 0..k /\ h[k] \in Nat /\ t[k] \in Int /\ MaxMargins \in Nat
  BY <1>2, FormatAssumption
<1>4. h[k] <= menu.rs /\ 0 <= t[k] /\ t[k] <= 5 + h[k] * Most(menu)
  BY <1>2, <1>3 DEF Bounded
<1>5. Modest(menu, Most(menu))
  BY MostIs
<1>6. menu.rs \in Nat /\ Most(menu) \in Nat
  BY <1>5 DEF Modest
<1>7. h[k] * Most(menu) <= menu.rs * Most(menu)
  <2>1. ASSUME NEW a \in Nat, NEW b \in Nat, NEW c \in Nat, a <= b PROVE a * c <= b * c
    BY <2>1
  <2> QED BY <1>3, <1>4, <1>6, <2>1
<1>8. h[k] * Most(menu) \in Int /\ menu.rs * Most(menu) \in Int
  BY <1>3, <1>6
<1>9. o.offset = t[k] /\ o.sz = h[k] /\ o.cur = Cap(h[k]) /\ Fit(o.lmargin, t, h, k)
  BY <1>1 DEF Stack
<1>10. o.offset \in Nat /\ o.offset <= 5 + menu.rs * Most(menu)
  BY <1>3, <1>4, <1>7, <1>8, <1>9
<1>11. menu.rs < MaxMargins => o.lmargin[o.cur] >= -o.offset
  <2> HAVE menu.rs < MaxMargins
  <2>1. h[k] < MaxMargins
    BY <1>3, <1>4, <1>6
  <2>2. o.cur = h[k]
    BY <1>9, <2>1 DEF Cap
  <2> QED BY <1>3, <1>9, <2>2 DEF Fit
<1> QED BY <1>9, <1>10, <1>11 DEF Room, Fit

\* A width that Clip() lets through.
LEMMA ClipFits ==
  ASSUME NEW o, o.offset \in Nat, NEW most \in Nat, most >= 7, NEW w \in Int,
         w <= most \/ w > 1000
  PROVE  /\ Term!Clip(o, w) \in Int /\ Term!Clip(o, w) <= most /\ Term!Clip(o, w) >= -o.offset
         /\ w >= 0 => Term!Clip(o, w) >= 0
<1>1. Term!ShrtMax = 1000 /\ Term!DefIndent = 5
  BY DEF Term!ShrtMax, Term!DefIndent
<1>2. Term!Clip(o, w) = IF w < 0 /\ -w > o.offset THEN -o.offset ELSE IF w > 1000 THEN 5 ELSE w
  BY <1>1 DEF Term!Clip
<1>3. CASE w < 0 /\ -w > o.offset
  BY <1>2, <1>3
<1>4. CASE ~(w < 0 /\ -w > o.offset) /\ w > 1000
  BY <1>2, <1>4
<1>5. CASE ~(w < 0 /\ -w > o.offset) /\ ~(w > 1000)
  BY <1>2, <1>5
<1> QED BY <1>3, <1>4, <1>5

\* A width fits.
Fitting(o, w) ==
  /\ w \in Int /\ w <= Most(menu) /\ (menu.rs < MaxMargins => w >= -o.offset)
  /\ (\A v \in menu.widths : v[1] >= 0) => w >= 0

\* The width of a paragraph fits.
LEMMA WidthFits ==
  ASSUME menu \in Menus, NEW o \in TermType, Room(o), NEW n,
         n.w = <<>> \/ n.w \in menu.widths
  PROVE  Fitting(o, Width(o, n))
<1>1. Modest(menu, Most(menu))
  BY MostIs
<1>2. Most(menu) \in Nat /\ Most(menu) >= 7
      /\ \A w \in menu.widths : w \in Seq(Int) /\ Len(w) = 1 /\ (w[1] <= Most(menu) \/ w[1] > 1000)
  BY <1>1 DEF Modest
<1>3. CASE n.w = <<>>
  <2>1. Width(o, n) = o.lmargin[o.cur]
    BY <1>3 DEF Width
  <2>2. o.cur \in 0..(MaxMargins - 1) /\ o.lmargin[o.cur] \in Int
    BY DEF TermType
  <2> QED BY <2>1, <2>2 DEF Room, Fitting
<1>4. CASE n.w # <<>>
  <2>1. Width(o, n) = Term!Clip(o, n.w[1]) /\ n.w \in menu.widths
    BY <1>4 DEF Width
  <2>2. n.w[1] \in Int /\ (n.w[1] <= Most(menu) \/ n.w[1] > 1000)
    <3>1. n.w \in Seq(Int) /\ 1 \in 1..Len(n.w)
      BY <1>2, <2>1
    <3> QED BY <1>2, <2>1, <3>1, SeqElem
  <2>3. o.offset \in Nat
    BY DEF Room
  <2> DEFINE v == n.w[1]
             most == Most(menu)
             c == Term!Clip(o, v)
  <2>4. v \in Int /\ (v <= most \/ v > 1000) /\ most \in Nat /\ most >= 7 /\ o.offset \in Nat
    BY <1>2, <2>2, <2>3
  <2>5. c = Term!Clip(o, v) /\ Width(o, n) = c
    BY <2>1
  <2>6. (\A x \in menu.widths : x[1] >= 0) => v >= 0
    BY <2>1
  <2>7. most = Most(menu)
    OBVIOUS
  <2> HIDE DEF v, most, c
  <2>8. /\ c \in Int /\ c <= most /\ c >= -o.offset
        /\ v >= 0 => c >= 0
    BY <2>4, <2>5, ClipFits
  <2> QED BY <2>5, <2>6, <2>7, <2>8 DEF Fitting
<1> QED BY <1>3, <1>4

-----------------------------------------------------------------------------
\* The stack stays.
LEMMA SumSame ==
  ASSUME NEW p, NEW o, SumInv(p, o), NEW q, SameStack(o, q)
  PROVE  SumInv(p, q)
BY StackSame DEF SumInv

\* The width in use changes.
LEMMA SumWide ==
  ASSUME menu \in Menus, NEW p, Len(p) \in Nat, NEW o \in TermType, SumInv(p, o),
         NEW q, NEW w, Widened(o, q, w), Fitting(o, w)
  PROVE  SumInv(p, q)
<1> DEFINE k == Len(p)
<1>1. PICK t, h : Sums(p, t, h) /\ Stack(o, t, h, k)
  BY DEF SumInv
<1>2. t \in [Nat -> Int] /\ h \in [Nat -> Nat] /\ Bounded(k, t, h) /\ Ordered(k, t, h)
  BY <1>1, SumsAre
<1>3. Modest(menu, Most(menu))
  BY MostIs
<1>4. menu.rs \in Nat
  BY <1>3 DEF Modest
<1>5. w \in Int /\ w <= Most(menu) /\ (menu.rs < MaxMargins => w >= -t[k])
      /\ ((\A v \in menu.widths : v[1] >= 0) => w >= 0)
  BY <1>1 DEF Fitting, Stack
<1> HIDE DEF k
<1>6. k \in Nat
  BY DEF k
<1>7. Stack(q, t, h, k)
  BY <1>1, <1>2, <1>4, <1>5, <1>6, StackWide
<1> QED BY <1>1, <1>7 DEF SumInv, k

\* Nodes remember other children.
LEMMA SumLike ==
  ASSUME NEW p, Len(p) \in Nat, NEW o, SumInv(p, o), NEW r, Len(r) = Len(p),
         \A i \in 1..Len(p) : Like(r[i], p[i])
  PROVE  SumInv(r, o)
<1>1. PICK t, h : Sums(p, t, h) /\ Stack(o, t, h, Len(p))
  BY DEF SumInv
<1>2. Sums(r, t, h)
  BY <1>1, SumsPart
<1> QED BY <1>1, <1>2 DEF SumInv

\* A node is entered that does not change the indentation.
LEMMA SumEnter ==
  ASSUME menu \in Menus, NEW p, NEW k \in Nat, Len(p) = k, NEW o, SumInv(p, o),
         NEW r, Len(r) = k + 1, \A i \in 1..k : Like(r[i], p[i]),
         r[k + 1].aux = 0, Rise(r[k + 1]) = 0, Placeable(r[k + 1], o.sz)
  PROVE  SumInv(r, o)
<1>1. PICK t, h : Sums(p, t, h) /\ Stack(o, t, h, k)
  BY DEF SumInv
<1>2. t \in [Nat -> Int] /\ h \in [Nat -> Nat] /\ Bounded(k, t, h)
  BY <1>1, SumsAre
<1>3. k \in 0..k /\ h[k] \in Nat /\ t[k] \in Int
  BY <1>2
<1>4. h[k] <= menu.rs /\ 0 <= t[k] /\ t[k] <= 5 + h[k] * Most(menu)
  BY <1>2, <1>3 DEF Bounded
<1>5. Modest(menu, Most(menu))
  BY MostIs
<1>6. menu.rs \in Nat
  BY <1>5 DEF Modest
<1> DEFINE a == 0
           d == 0
           u == Next1(t, k + 1, t[k] + a)
           g == Next1(h, k + 1, h[k] + d)
<1>7. h[k] + d = h[k] /\ t[k] + a = t[k] /\ a = 0 /\ d = 0 /\ a \in Int
  BY <1>3
<1>8. Placeable(r[k + 1], h[k])
  BY <1>1 DEF Stack
<1>9. a = r[k + 1].aux /\ d = Rise(r[k + 1])
  OBVIOUS
<1>10. u = Next1(t, k + 1, t[k] + a) /\ g = Next1(h, k + 1, h[k] + d)
  OBVIOUS
<1> HIDE DEF a, d, u, g
<1>11. /\ Sums(r, u, g) /\ u[k + 1] = t[k] + a /\ g[k + 1] = h[k] + d
       /\ \A i \in 0..k : u[i] = t[i] /\ g[i] = h[i]
  BY <1>1, <1>4, <1>6, <1>7, <1>8, <1>9, <1>10, SumsPlus
<1>12. Stack(o, u, g, k + 1)
  BY <1>1, <1>7, <1>11, StackMore
<1> QED BY <1>11, <1>12 DEF SumInv

\* The body of .RS is entered.
LEMMA SumPush ==
  ASSUME menu \in Menus, NEW p, NEW k \in Nat, k >= 1, Len(p) = k,
         NEW o \in TermType, SumInv(p, o),
         NEW r, Len(r) = k + 1, \A i \in 1..k : Like(r[i], p[i]),
         NEW a \in Int, r[k + 1].aux = a, Rise(r[k + 1]) = 1, NEW q, Pushed(o, q, a),
         a <= Most(menu), a >= -o.offset, p[k].type = "block", p[k].tok = "RS"
  PROVE  SumInv(r, q)
<1>1. PICK t, h : Sums(p, t, h) /\ Stack(o, t, h, k)
  BY DEF SumInv
<1>2. t \in [Nat -> Int] /\ h \in [Nat -> Nat] /\ Bounded(k, t, h) /\ Ordered(k, t, h)
  BY <1>1, SumsAre
<1>3. k \in 0..k /\ h[k] \in Nat /\ t[k] \in Int /\ k \in 1..k
  BY <1>2
<1>4. 0 <= t[k] /\ t[k] <= 5 + h[k] * Most(menu)
  BY <1>2, <1>3 DEF Bounded
<1>5. Modest(menu, Most(menu))
  BY MostIs
<1>6. menu.rs \in Nat /\ Most(menu) \in Nat
  BY <1>5 DEF Modest
<1>7. h[k] < menu.rs
  <2>1. Placeable(p[k], h[k])
    BY <1>1, <1>3 DEF Sums
  <2> QED BY <2>1 DEF Placeable
<1>8. o.offset = t[k]
  BY <1>1 DEF Stack
<1> DEFINE d == 1
           u == Next1(t, k + 1, t[k] + a)
           g == Next1(h, k + 1, h[k] + d)
<1>9. t[k] + a <= 5 + (h[k] + 1) * Most(menu)
  <2>1. ASSUME NEW x \in Nat, NEW y \in Nat PROVE (x + 1) * y = x * y + y /\ x * y \in Int
    OBVIOUS
  <2>2. (h[k] + 1) * Most(menu) = h[k] * Most(menu) + Most(menu) /\ h[k] * Most(menu) \in Int
    BY <1>3, <1>6, <2>1
  <2>3. (h[k] + 1) * Most(menu) \in Int
    BY <1>3, <1>6
  <2>4. ASSUME NEW x \in Int, NEW y \in Int, NEW z \in Int, NEW v \in Int, NEW w \in Int,
               x <= 5 + y, v = y + z, w <= z
        PROVE  x + w <= 5 + v
    BY <2>4
  <2> DEFINE y == h[k] * Most(menu)
             v == (h[k] + 1) * Most(menu)
             x == t[k]
             z == Most(menu)
  <2>5. x \in Int /\ y \in Int /\ z \in Int /\ v \in Int /\ x <= 5 + y /\ v = y + z /\ a <= z
    BY <1>3, <1>4, <1>6, <2>2, <2>3
  <2> HIDE DEF x, y, z, v
  <2>6. x + a <= 5 + v
    BY <2>4, <2>5
  <2> QED BY <2>6 DEF x, v
<1>10. Placeable(r[k + 1], h[k] + d)
  <2>1. r[k + 1].tok = "RS" /\ r[k + 1].type = "body"
    BY DEF Rise
  <2> QED BY <2>1 DEF Placeable, Sections
<1>11. d = Rise(r[k + 1]) /\ d # 0 /\ h[k] + d <= menu.rs /\ 0 <= t[k] + a
  BY <1>3, <1>6, <1>7, <1>8
<1>12. u = Next1(t, k + 1, t[k] + a) /\ g = Next1(h, k + 1, h[k] + d) /\ d = 1
  OBVIOUS
<1> HIDE DEF d, u, g
<1>13. t[k] + a <= 5 + (h[k] + d) * Most(menu) /\ a = r[k + 1].aux
  BY <1>9, <1>12
<1>14. /\ Sums(r, u, g) /\ u[k + 1] = t[k] + a /\ g[k + 1] = h[k] + d
       /\ \A i \in 0..k : u[i] = t[i] /\ g[i] = h[i]
  BY <1>1, <1>6, <1>10, <1>11, <1>12, <1>13, SumsPlus
<1>15. a >= -t[k] /\ g[k + 1] = h[k] + 1
  BY <1>8, <1>12, <1>14
<1>16. Stack(q, u, g, k + 1)
  <2>1. u[k + 1] = t[k] + a /\ \A i \in 0..k : u[i] = t[i] /\ g[i] = h[i]
    BY <1>14
  <2>2. Stack(o, t, h, k)
    BY <1>1
  <2>3. Pushing(o, t, h, k, q, a, u, g)
    BY <1>2, <1>7, <1>15, <2>1, <2>2 DEF Pushing
  <2> QED BY <2>3, StackPush
<1> QED BY <1>14, <1>16 DEF SumInv

\* A node is left that did not change the indentation, or the body of .RS.
LEMMA SumLeave ==
  ASSUME NEW p, NEW k \in Nat, k >= 1, Len(p) = k, NEW o, SumInv(p, o),
         NEW r, Len(r) = k - 1, \A i \in 1..(k - 1) : Like(r[i], p[i]), NEW q, p[k].aux \in Int,
         IF Rise(p[k]) = 1 THEN Popped(o, q, p[k].aux) ELSE SameStack(o, q) /\ p[k].aux = 0
  PROVE  SumInv(r, q)
<1>1. PICK t, h : Sums(p, t, h) /\ Stack(o, t, h, k)
  BY DEF SumInv
<1>2. t \in [Nat -> Int] /\ h \in [Nat -> Nat]
  BY <1>1, SumsAre
<1>3. k \in 1..k /\ k - 1 \in Nat /\ t[k - 1] \in Int /\ h[k - 1] \in Nat
  <2>1. k \in 1..k /\ k - 1 \in Nat
    OBVIOUS
  <2> QED BY <1>2, <2>1
<1>4. t[k] = t[k - 1] + p[k].aux /\ h[k] = h[k - 1] + Rise(p[k])
  BY <1>1, <1>3 DEF Sums, Totals
<1>5. Sums(r, t, h)
  BY <1>1, <1>3, SumsPart
<1>6. CASE Rise(p[k]) = 1
  <2>1. Stack(q, t, h, k - 1)
    BY <1>1, <1>2, <1>4, <1>6, StackPop
  <2> QED BY <1>5, <2>1 DEF SumInv
<1>7. CASE Rise(p[k]) # 1
  <2>1. Rise(p[k]) = 0
    BY <1>7 DEF Rise
  <2>2. t[k] = t[k - 1] /\ h[k] = h[k - 1] /\ SameStack(o, q)
    BY <1>3, <1>4, <1>7, <2>1
  <2>3. Stack(o, t, h, k - 1)
    BY <1>1, <2>2, StackLess
  <2>4. Stack(q, t, h, k - 1)
    BY <2>2, <2>3, StackSame
  <2> QED BY <1>5, <2>4 DEF SumInv
<1> QED BY <1>6, <1>7

-----------------------------------------------------------------------------
\* What is known of the node being formatted.
LEMMA TopPlace ==
  ASSUME NEW p, Len(p) \in Nat, Len(p) >= 1, NEW o, SumInv(p, o)
  PROVE  Placeable(p[Len(p)], o.sz) /\ (o.sz = 0 => o.offset = 5)
<1> DEFINE k == Len(p)
<1>1. PICK t, h : Sums(p, t, h) /\ Stack(o, t, h, k)
  BY DEF SumInv
<1>2. k \in 1..k /\ k \in 0..k /\ 0 \in 0..k
  OBVIOUS
<1>3. Placeable(p[k], h[k]) /\ t[0] = 5 /\ h[0] = 0 /\ Ordered(k, t, h)
  BY <1>1, <1>2 DEF Sums, Totals
<1>4. h[k] = 0 => t[k] = 5
  BY <1>2, <1>3 DEF Ordered
<1>5. o.sz = h[k] /\ o.offset = t[k]
  BY <1>1 DEF Stack
<1> QED BY <1>3, <1>4, <1>5

\* The default widths fit.
LEMMA SmallFits ==
  ASSUME menu \in Menus, NEW o \in TermType, Room(o), NEW w \in {4, 7}
  PROVE  Fitting(o, w)
<1>1. Modest(menu, Most(menu))
  BY MostIs
<1>2. Most(menu) \in Nat /\ Most(menu) >= 7
  BY <1>1 DEF Modest
<1>3. o.offset \in Nat
  BY DEF Room
<1> QED BY <1>2, <1>3 DEF Fitting

\* What is above a node that is entered.
LEMMA GrownLike ==
  ASSUME NEW p, NEW r, NEW x, NEW t, Grown(p, r, x, t)
  PROVE  /\ Len(p) \in Nat /\ Len(p) >= 1 /\ Len(r) = Len(p) + 1 /\ r[Len(p) + 1] = x
         /\ \A i \in 1..Len(p) : Like(r[i], p[i])
<1>1. ASSUME NEW i \in 1..Len(p) PROVE Like(r[i], p[i])
  <2>1. CASE i = Len(p)
    BY <2>1 DEF Grown
  <2>2. CASE i # Len(p)
    <3>1. i \in 1..(Len(p) - 1)
      BY <2>2 DEF Grown
    <3>2. r[i] = p[i]
      BY <3>1 DEF Grown
    <3> QED BY <3>2, LikeSelf
  <2> QED BY <2>1, <2>2
<1> QED BY <1>1 DEF Grown

\* A node is entered that does not change the indentation.
LEMMA SumGrown ==
  ASSUME menu \in Menus, NEW p, NEW o, SumInv(p, o), NEW r, NEW x, NEW t, Grown(p, r, x, t),
         x.aux = 0, Rise(x) = 0, Placeable(x, o.sz)
  PROVE  SumInv(r, o)
<1> DEFINE k == Len(p)
<1>1. k \in Nat /\ Len(p) = k /\ Len(r) = k + 1 /\ r[k + 1] = x /\ \A i \in 1..k : Like(r[i], p[i])
  BY GrownLike
<1> HIDE DEF k
<1> QED BY <1>1, SumEnter

-----------------------------------------------------------------------------
\* A block is entered: pre_HP(), pre_IP(), pre_PP(), pre_TP(), pre_SH(), pre_SS(), pre_SY()
\* set the width in use, and the block of .RS moves nothing.
LEMMA SumBlock ==
  ASSUME menu \in Menus, PathOK(path), out \in TermType, out.sz = Cardinality(Nested(path)),
         SumInv(path, out), NEW n, NEW x, BlockStarts(n, x)
  PROVE  SumInv(path', out')
<1>1. Top = path[Len(path)] /\ Good(Top) /\ Len(path) \in Nat /\ Len(path) >= 1
  BY TopIs
<1>2. Placeable(Top, out.sz) /\ (out.sz = 0 => out.offset = 5)
  BY <1>1, TopPlace
<1>3. /\ BlockRel(out, out', n, Top.prev) /\ Heir(Top, n.tok) /\ n.tok \in BlockToks
      /\ n.type = "block" /\ (n.w = <<>> \/ n.w \in menu.widths)
      /\ n.tok = "RS" => Cardinality(Indented) < menu.rs
  BY DEF BlockStarts
<1>4. Grown(path, path', x, Trace(n)) /\ x.tok = n.tok /\ x.type = n.type /\ x.w = n.w /\ x.aux = 0
  BY DEF BlockStarts, Grows, Kept
<1>5. n.tok \in Sections => out.sz = 0
  <2> HAVE n.tok \in Sections
  <2>1. Top.type = "root" \/ Top.tok \in Sections
    BY <1>3 DEF Heir, Sections, Paragraphs, Items
  <2>2. Top.tok \in Sections \cup {"root"}
    BY <1>1, <2>1 DEF Good
  <2> QED BY <1>2, <2>2 DEF Placeable
<1>6. Indented = Nested(path)
  BY DEF Indented, Nested
<1>7. n.tok # "root"
  BY <1>3 DEF BlockToks, Paragraphs, Items, Sections
<1>8. Placeable(x, out.sz) /\ Rise(x) = 0
  BY <1>3, <1>4, <1>5, <1>6, <1>7 DEF Placeable, Rise
<1>9. out'.sz = out.sz
  BY <1>3 DEF BlockRel
<1>10. SumInv(path, out')
  <2>1. Room(out)
    BY <1>1, RoomIs
  <2>2. CASE n.tok \in Sections \cup {"PP"}
    <3>1. out'.offset = out.offset
      BY <1>2, <1>3, <1>5, <2>2 DEF BlockRel, Sections
    <3>2. Widened(out, out', 7)
      BY <1>3, <2>2, <3>1 DEF BlockRel, Widened
    <3>3. Fitting(out, 7)
      BY <2>1, SmallFits
    <3> QED BY <1>1, <3>2, <3>3, SumWide
  <2>3. CASE n.tok \notin Sections \cup {"PP"}
    <3>1. SameStack(out, out')
      BY <1>3, <2>3 DEF BlockRel, SameStack
    <3> QED BY <3>1, SumSame
  <2> QED BY <2>2, <2>3
<1> QED BY <1>4, <1>8, <1>9, <1>10, SumGrown

\* What is known of a head or body that is entered.
LEMMA PartFits ==
  ASSUME menu \in Menus, PathOK(path), out \in TermType, SumInv(path, out), NEW n, NEW x,
         NEW type \in {"head", "body"}, NEW count, PartStarts(n, x, type, count)
  PROVE  /\ Room(out) /\ Fitting(out, Width(out, n)) /\ (n.w = <<>> \/ n.w \in menu.widths)
         /\ Placeable(x, out.sz)
<1>1. Top = path[Len(path)] /\ Good(Top) /\ Len(path) \in Nat /\ Len(path) >= 1
  BY TopIs
<1>2. Placeable(Top, out.sz)
  BY <1>1, TopPlace
<1>3. Top.type = "block" /\ n.w = Top.w /\ n.tok = Top.tok /\ n.type = type
  BY DEF PartStarts
<1>4. x.tok = n.tok /\ x.type = n.type
  BY DEF PartStarts, Grows, Kept
<1>5. n.w = <<>> \/ n.w \in menu.widths
  BY <1>2, <1>3 DEF Placeable
<1>6. Room(out)
  BY <1>1, RoomIs
<1>7. Fitting(out, Width(out, n))
  BY <1>5, <1>6, WidthFits
<1>8. Placeable(x, out.sz)
  BY <1>2, <1>3, <1>4 DEF Placeable
<1> QED BY <1>5, <1>6, <1>7, <1>8

\* A head is entered: its width is set again (pre_IP(), pre_TP()).
LEMMA SumHead ==
  ASSUME menu \in Menus, PathOK(path), out \in TermType, SumInv(path, out), NEW n, NEW x,
         HeadStarts(n, x)
  PROVE  SumInv(path', out')
<1>1. PartStarts(n, x, "head", 0) /\ HeadRel(out, out', n)
  BY DEF HeadStarts
<1>2. Room(out) /\ Fitting(out, Width(out, n)) /\ Placeable(x, out.sz)
  BY <1>1, PartFits
<1>3. Grown(path, path', x, Trace(n)) /\ x.type = "head" /\ x.aux = 0 /\ Rise(x) = 0
  BY <1>1 DEF PartStarts, Grows, Kept, Rise
<1>4. HeadStack(out, out', n)
  BY <1>1 DEF HeadRel
<1>5. Len(path) \in Nat
  BY TopIs
<1>6. SumInv(path, out') /\ out'.sz = out.sz
  <2>1. CASE n.tok \in Items
    <3>1. Widened(out, out', Width(out, n))
      BY <1>4, <2>1 DEF HeadStack
    <3>2. SumInv(path, out')
      BY <1>2, <1>5, <3>1, SumWide
    <3> QED BY <3>1, <3>2 DEF Widened
  <2>2. CASE n.tok \notin Items
    <3>1. SameStack(out, out')
      BY <1>4, <2>2 DEF HeadStack
    <3> QED BY <3>1, SumSame DEF SameStack
  <2> QED BY <2>1, <2>2
<1> QED BY <1>2, <1>3, <1>6, SumGrown

\* The body of .RS is moved by a width that fits.
LEMMA RisesFit ==
  ASSUME menu \in Menus, NEW o \in TermType, Room(o), NEW n, n.w = <<>> \/ n.w \in menu.widths,
         NEW a, a = Term!Clip(o, IF n.w = <<>> THEN o.lmargin[o.cur] ELSE n.w[1])
  PROVE  a \in Int /\ a <= Most(menu) /\ a >= -o.offset
<1> DEFINE v == IF n.w = <<>> THEN o.lmargin[o.cur] ELSE n.w[1]
           most == Most(menu)
<1>1. Modest(menu, most)
  BY MostIs
<1>2. most \in Nat /\ most >= 7
      /\ \A w \in menu.widths : w \in Seq(Int) /\ Len(w) = 1 /\ (w[1] <= most \/ w[1] > 1000)
  BY <1>1 DEF Modest
<1>3. v \in Int /\ (v <= most \/ v > 1000)
  <2>1. CASE n.w = <<>>
    <3>1. o.cur \in 0..(MaxMargins - 1) /\ o.lmargin[o.cur] \in Int
      BY DEF TermType
    <3>2. o.lmargin[o.cur] <= most
      BY <3>1 DEF Room
    <3> QED BY <2>1, <3>1, <3>2
  <2>2. CASE n.w # <<>>
    <3>1. n.w \in menu.widths /\ n.w \in Seq(Int) /\ 1 \in 1..Len(n.w)
      BY <1>2, <2>2
    <3>2. n.w[1] \in Int
      BY <3>1, SeqElem
    <3> QED BY <1>2, <2>2, <3>1, <3>2
  <2> QED BY <2>1, <2>2
<1>4. o.offset \in Nat /\ a = Term!Clip(o, v)
  BY DEF Room
<1>5. most = Most(menu)
  OBVIOUS
<1> HIDE DEF v, most
<1>6. Term!Clip(o, v) \in Int /\ Term!Clip(o, v) <= most /\ Term!Clip(o, v) >= -o.offset
  BY <1>2, <1>3, <1>4, ClipFits
<1> QED BY <1>4, <1>5, <1>6

\* A body is entered: that of .RS pushes a width (pre_RS()).
LEMMA SumBody ==
  ASSUME menu \in Menus, PathOK(path), out \in TermType, SumInv(path, out), NEW n, NEW x,
         BodyStarts(n, x)
  PROVE  SumInv(path', out')
<1>1. PartStarts(n, x, "body", 1) /\ BodyRel(out, out', n)
  BY DEF BodyStarts
<1>2. Room(out) /\ Fitting(out, Width(out, n)) /\ Placeable(x, out.sz)
      /\ (n.w = <<>> \/ n.w \in menu.widths)
  BY <1>1, PartFits
<1>3. Grown(path, path', x, Trace(n)) /\ x.type = "body" /\ x.tok = n.tok
      /\ x.aux = IF n.tok = "RS" THEN out'.offset - out.offset ELSE 0
  BY <1>1 DEF PartStarts, Grows, Kept
<1>4. BodyStack(out, out', n) /\ n.tok \in BlockToks
  BY <1>1 DEF BodyRel, PartStarts
<1>5. Len(path) \in Nat /\ Len(path) >= 1 /\ Top = path[Len(path)]
  BY TopIs
<1>6. ASSUME SumInv(path, out'), out'.sz = out.sz, n.tok # "RS" PROVE SumInv(path', out')
  <2>1. x.aux = 0 /\ Rise(x) = 0 /\ Placeable(x, out'.sz)
    BY <1>2, <1>3, <1>6 DEF Rise
  <2> QED BY <1>3, <1>6, <2>1, SumGrown
<1>7. ASSUME NEW w, Widened(out, out', w), Fitting(out, w), n.tok # "RS"
      PROVE  SumInv(path', out')
  <2>1. SumInv(path, out')
    BY <1>5, <1>7, SumWide
  <2> QED BY <1>6, <1>7, <2>1 DEF Widened
<1>8. ASSUME SameStack(out, out'), n.tok # "RS" PROVE SumInv(path', out')
  <2>1. SumInv(path, out')
    BY <1>8, SumSame
  <2> QED BY <1>6, <1>8, <2>1 DEF SameStack
<1>9. CASE n.tok \in Items
  <2>1. Widened(out, out', Width(out, n)) /\ n.tok # "RS"
    BY <1>4, <1>9 DEF BodyStack, Items
  <2> QED BY <1>2, <1>7, <2>1
<1>10. CASE n.tok = "HP"
  <2>1. n.tok \notin Items /\ n.tok # "RS"
    BY <1>10 DEF Items
  <2>2. IF n.first = "none" THEN SameStack(out, out') ELSE Widened(out, out', Width(out, n))
    BY <1>4, <1>10, <2>1 DEF BodyStack
  <2> QED BY <1>2, <1>7, <1>8, <2>1, <2>2
<1>11. CASE n.tok = "SY"
  <2>1. n.tok \notin Items /\ n.tok \notin {"HP", "RS"}
    BY <1>11 DEF Items
  <2>2. Widened(out, out', 4) /\ Fitting(out, 4)
    BY <1>2, <1>4, <1>11, <2>1, SmallFits DEF BodyStack
  <2> QED BY <1>7, <2>1, <2>2
<1>12. CASE n.tok = "RS"
  <2> DEFINE a == out'.offset - out.offset
             b == Term!Clip(out, IF n.w = <<>> THEN out.lmargin[out.cur] ELSE n.w[1])
             k == Len(path)
  <2>1. n.tok \notin Items
    BY <1>12 DEF Items
  <2>2. Pushed(out, out', a) /\ out'.offset = out.offset + b
    BY <1>4, <1>12, <2>1 DEF BodyStack
  <2>3. b \in Int /\ b <= Most(menu) /\ b >= -out.offset
    BY <1>2, RisesFit
  <2>4. a = b
    <3>1. out.offset \in Int
      BY DEF TermType
    <3> HIDE DEF b
    <3> QED BY <2>2, <2>3, <3>1
  <2>5. x.aux = a /\ Rise(x) = 1 /\ Top.type = "block" /\ Top.tok = "RS"
    BY <1>1, <1>3, <1>12 DEF Rise, PartStarts
  <2>6. k \in Nat /\ Len(path) = k /\ Len(path') = k + 1 /\ path'[k + 1] = x
        /\ \A i \in 1..k : Like(path'[i], path[i])
    BY <1>3, GrownLike
  <2>7. k >= 1 /\ path[k].type = "block" /\ path[k].tok = "RS"
    BY <1>5, <2>5
  <2> HIDE DEF a, b, k
  <2> QED BY <2>2, <2>3, <2>4, <2>5, <2>6, <2>7, SumPush
<1>13. CASE n.tok \in {"PP", "UR"} \cup Sections
  <2>1. n.tok \notin Items /\ n.tok \notin {"HP", "SY", "RS"}
    BY <1>13 DEF Items, Sections
  <2>2. SameStack(out, out')
    BY <1>4, <2>1 DEF BodyStack
  <2> QED BY <1>8, <2>1, <2>2
<1> QED BY <1>4, <1>9, <1>10, <1>11, <1>12, <1>13 DEF BlockToks, Paragraphs

\* An element is entered: pre_alternate(), pre_in() and so on do not touch the stack.
LEMMA SumElem ==
  ASSUME menu \in Menus, SumInv(path, out), NEW n, NEW x, ElemStarts(n, x)
  PROVE  SumInv(path', out')
<1>1. Grown(path, path', x, Trace(n)) /\ x.type = "elem" /\ x.tok = n.tok /\ n.tok \in Elements
      /\ x.aux = 0 /\ SameStack(out, out')
  BY DEF ElemStarts, Grows, Kept, ElemStep
<1>2. SumInv(path, out')
  BY <1>1, SumSame
<1>3. x.tok \notin Sections \cup {"root"}
  BY <1>1 DEF Elements, Sections
<1>4. Rise(x) = 0 /\ Placeable(x, out'.sz)
  BY <1>1, <1>3 DEF Rise, Placeable
<1> QED BY <1>1, <1>2, <1>4, SumGrown

\* A leaf is printed, or leaves the stack alone like pre_PD().
LEMMA SumLeaf ==
  ASSUME PathOK(path), SumInv(path, out), NEW n, LeafShown(n)
  PROVE  SumInv(path', out')
<1>1. Seen(path, path', "other") /\ SameStack(out, out') /\ Len(path) \in Nat /\ Len(path) >= 1
  BY TopIs DEF LeafShown, LeafStep
<1>2. SumInv(path, out')
  BY <1>1, SumSame
<1>3. ASSUME NEW i \in 1..Len(path) PROVE Like(path'[i], path[i])
  <2>1. CASE i = Len(path)
    BY <1>1, <2>1 DEF Seen
  <2>2. CASE i # Len(path)
    <3>1. i \in 1..(Len(path) - 1)
      BY <1>1, <2>2
    <3>2. path'[i] = path[i]
      BY <1>1, <3>1 DEF Seen
    <3> QED BY <3>2, LikeSelf
  <2> QED BY <2>1, <2>2
<1>4. Len(path') = Len(path)
  BY <1>1 DEF Seen
<1> QED BY <1>1, <1>2, <1>3, <1>4, SumLike

\* A node is left: the body of .RS pops a width (post_RS()).
LEMMA SumEnds ==
  ASSUME PathOK(path), SumInv(path, out), HeadEnds \/ BodyEnds \/ RestEnds
  PROVE  SumInv(path', out')
<1> DEFINE k == Len(path)
<1>1. /\ k \in Nat /\ k >= 2 /\ Len(path') = k - 1 /\ Start(path, path')
      /\ Top = path[k] /\ Top \in NodeType /\ Good(Top)
  BY TopIs DEF HeadEnds, BodyEnds, RestEnds, Ends
<1>2. ASSUME NEW i \in 1..(k - 1) PROVE Like(path'[i], path[i])
  <2>1. CASE i = k - 1
    BY <1>1, <2>1 DEF Start
  <2>2. CASE i # k - 1
    <3>1. i \in 1..(Len(path') - 1)
      BY <1>1, <2>2
    <3>2. path'[i] = path[i]
      BY <1>1, <3>1 DEF Start
    <3> QED BY <3>2, LikeSelf
  <2> QED BY <2>1, <2>2
<1>3. IF Rise(Top) = 1 THEN Popped(out, out', Top.aux) ELSE SameStack(out, out') /\ Top.aux = 0
  <2>1. CASE HeadEnds \/ RestEnds
    <3>1. Top.type # "body"
      BY <2>1 DEF HeadEnds, PartEnds, RestEnds
    <3>2. SameStack(out, out')
      BY <2>1 DEF HeadEnds, RestEnds, HeadOut, RestOut
    <3> QED BY <1>1, <3>1, <3>2 DEF Rise, Good
  <2>2. CASE BodyEnds
    <3>1. Top.type = "body" /\ BodyOutStack(out, out', Top)
      BY <2>2 DEF BodyEnds, PartEnds, BodyOut
    <3> QED BY <1>1, <3>1 DEF Rise, Good, BodyOutStack
  <2> QED BY <2>1, <2>2
<1>4. path[k].aux \in Int
  BY <1>1 DEF NodeType
<1>5. Top = path[k] /\ k \in Nat /\ k >= 1 /\ Len(path) = k /\ Len(path') = k - 1
  BY <1>1
<1> HIDE DEF k
<1>6. IF Rise(path[k]) = 1 THEN Popped(out, out', path[k].aux)
      ELSE SameStack(out, out') /\ path[k].aux = 0
  BY <1>3, <1>5
<1> QED BY <1>2, <1>4, <1>5, <1>6, SumLeave

\* The first part of Margins survives every step of the walk.
LEMMA SumStep ==
  ASSUME TermInv, fmt = "term", SumInv(path, out), Walks
  PROVE  SumInv(path', out')
<1>1. menu \in Menus /\ PathOK(path) /\ out \in TermType /\ out.sz = Cardinality(Nested(path))
  BY DEF TermInv
<1> QED BY <1>1, SumBlock, SumHead, SumBody, SumElem, SumLeaf, SumEnds DEF Walks

-----------------------------------------------------------------------------
\* terminal_man() starts with one width and the default indentation.
LEMMA SumInit ==
  ASSUME Init, fmt = "term"
  PROVE  SumInv(path, out)
<1> DEFINE t == [i \in Nat |-> 5]
           h == [i \in Nat |-> 0]
<1>1. PathOK(path) /\ Len(path) = 1 /\ path[1].type = "root"
  BY RootIs
<1>2. Good(path[1])
  BY <1>1 DEF PathOK
<1>3. path[1].tok = "root" /\ path[1].aux = 0
  BY <1>1, <1>2 DEF Good
<1>4. menu \in Menus
  BY DEF Init
<1>5. Modest(menu, Most(menu))
  BY <1>4, MostIs
<1>6. menu.rs \in Nat /\ Most(menu) \in Nat /\ Most(menu) >= 7
  BY <1>5 DEF Modest
<1>7. t \in [Nat -> Int] /\ h \in [Nat -> Nat] /\ \A i \in Nat : t[i] = 5 /\ h[i] = 0
  OBVIOUS
<1> HIDE DEF t, h
<1>8. Rise(path[1]) = 0 /\ Placeable(path[1], 0)
  BY <1>1, <1>3 DEF Rise, Placeable
<1>9. Totals(path, t, h)
  BY <1>1, <1>3, <1>7, <1>8 DEF Totals
<1>10. Bounded(1, t, h)
  <2> SUFFICES ASSUME NEW i \in 0..1
               PROVE  h[i] <= menu.rs /\ 0 <= t[i] /\ t[i] <= 5 + h[i] * Most(menu)
    BY DEF Bounded
  <2>1. h[i] = 0 /\ t[i] = 5
    BY <1>7
  <2>2. 0 * Most(menu) = 0
    BY <1>6
  <2> QED BY <1>6, <2>1, <2>2
<1>11. Ordered(1, t, h)
  BY <1>7 DEF Ordered
<1>12. Sums(path, t, h)
  <2>1. \A i \in 1..Len(path) : Placeable(path[i], h[i])
    BY <1>1, <1>7, <1>8
  <2> QED BY <1>1, <1>9, <1>10, <1>11, <2>1 DEF Sums
<1>13. out = Term!man_begin
  BY DEF Init
<1>14. out.offset = 5 /\ out.sz = 0 /\ out.cur = 0
       /\ out.lmargin = [i \in 0..(MaxMargins - 1) |-> IF i = 0 THEN 7 ELSE 0]
  BY <1>13 DEF Term!man_begin, Term!DefIndent, Term!ParWidth
<1>15. MaxMargins \in Nat /\ MaxMargins >= 1 /\ Cap(0) = 0
  BY FormatAssumption DEF Cap
<1>16. \A i \in 0..(MaxMargins - 1) : out.lmargin[i] \in {0, 7}
  BY <1>14
<1>17. Fit(out.lmargin, t, h, 1)
  <2>1. \A i \in 0..(MaxMargins - 1) : out.lmargin[i] <= Most(menu) /\ out.lmargin[i] >= 0
    BY <1>6, <1>16
  <2>2. menu.rs < MaxMargins => \A i \in 0..1 : out.lmargin[h[i]] >= -t[i]
    <3>1. \A i \in 0..1 : h[i] = 0 /\ t[i] = 5
      BY <1>7
    <3>2. out.lmargin[0] >= 0 /\ out.lmargin[0] \in {0, 7}
      BY <1>15, <1>16, <2>1
    <3> QED BY <3>1, <3>2
  <2> QED BY <2>1, <2>2 DEF Fit
<1>18. Stack(out, t, h, 1)
  BY <1>7, <1>14, <1>15, <1>17 DEF Stack
<1> QED BY <1>1, <1>12, <1>18 DEF SumInv

-----------------------------------------------------------------------------
\* A margin that is far from where it would wrap around.
Small(v) == v \in Nat /\ v < 1000
\* Neither margin of the column has wrapped around.
Near(o) == Small(o.off) /\ Small(o.rm)

\* A small margin is not changed by the width of the type (see module TermOut).
LEMMA ModIs ==
  ASSUME NEW v, Small(v)
  PROVE  v % 4096 = v /\ Small(v % 4096)
<1>1. v \in Nat /\ v < 1000
  BY DEF Small
<1>2. v % 4096 = v
  BY <1>1
<1> QED BY <1>2

\* The constants that margins are set to.
LEMMA NumbersSmall == Small(0) /\ Small(3) /\ Small(5) /\ Small(78)
BY DEF Small

\* The sum of two numbers whose bounds are small together.
LEMMA SumSmall ==
  ASSUME NEW a, NEW w, NEW c, NEW b, a \in Nat, a <= 5 + b, b \in Int, c \in Nat,
         5 + (b + c) < 1000, w \in Int, w <= c, w >= -a
  PROVE  Small(a + w) /\ Small(a)
<1>1. a + w \in Nat /\ a + w < 1000
  OBVIOUS
<1>2. a < 1000
  OBVIOUS
<1> QED BY <1>1, <1>2 DEF Small

\* The sums of the indentation and a width.
LEMMA RoomSmall ==
  ASSUME menu \in Menus, NEW o \in TermType, Room(o)
  PROVE  /\ Small(o.offset)
         /\ \A w \in Int : w <= Most(menu) /\ w >= -o.offset => Small(o.offset + w)
<1> DEFINE a == o.offset
           b == menu.rs * Most(menu)
           c == Most(menu)
<1>1. Modest(menu, Most(menu))
  BY MostIs
<1>2. menu.rs \in Nat /\ Most(menu) \in Nat /\ 5 + (menu.rs + 1) * Most(menu) < 1000
  BY <1>1 DEF Modest
<1>3. ASSUME NEW x \in Nat, NEW y \in Nat PROVE (x + 1) * y = x * y + y /\ x * y \in Int
  OBVIOUS
<1>4. (menu.rs + 1) * Most(menu) = b + c /\ b \in Int /\ c \in Nat
  BY <1>2, <1>3
<1>5. a \in Nat /\ a <= 5 + b
  BY DEF Room
<1>6. 5 + (b + c) < 1000
  BY <1>2, <1>4
<1>7. c = Most(menu) /\ a = o.offset
  OBVIOUS
<1> HIDE DEF a, b, c
<1>8. ASSUME NEW w, w \in Int, w <= c, w >= -a PROVE Small(a + w)
  BY <1>4, <1>5, <1>6, <1>8, SumSmall, Zenon
<1>9. Small(a)
  <2>1. 0 \in Int /\ 0 <= c /\ 0 >= -a
    BY <1>4, <1>5
  <2> QED BY <1>4, <1>5, <1>6, <2>1, SumSmall, Zenon
<1> QED BY <1>7, <1>8, <1>9

\* The indentation and the indentation after a width that fits are margins.
LEMMA FitSmall ==
  ASSUME menu \in Menus, NEW o \in TermType, Room(o), Steady, NEW w, Fitting(o, w)
  PROVE  /\ o.offset % 4096 = o.offset /\ Small(o.offset)
         /\ (o.offset + w) % 4096 = o.offset + w /\ Small(o.offset + w)
<1>1. Small(o.offset)
      /\ \A v \in Int : v <= Most(menu) /\ v >= -o.offset => Small(o.offset + v)
  BY RoomSmall
<1>2. w \in Int /\ w <= Most(menu)
  BY DEF Fitting
<1>3. w >= -o.offset
  <2>1. CASE menu.rs < MaxMargins
    BY <2>1 DEF Fitting
  <2>2. CASE \A v \in menu.widths : v[1] >= 0
    <3>1. w >= 0
      BY <2>2 DEF Fitting
    <3>2. o.offset \in Nat
      BY DEF Room
    <3> QED BY <1>2, <3>1, <3>2
  <2> QED BY <2>1, <2>2 DEF Steady
<1>4. Small(o.offset + w)
  BY <1>1, <1>2, <1>3
<1> QED BY <1>1, <1>4, ModIs

\* Margins that are moved to where one was do not change by that.
LEMMA NearSmall ==
  ASSUME NEW o, Near(o)
  PROVE  /\ Small(o.off % 4096) /\ Small(o.rm % 4096)
         /\ o.off % 4096 = o.off /\ o.rm % 4096 = o.rm
BY ModIs DEF Near

\* What PartFits gives for the places of heads and bodies.
LEMMA PartSmall ==
  ASSUME menu \in Menus, PathOK(path), out \in TermType, SumInv(path, out), Steady,
         NEW n, NEW x, NEW type \in {"head", "body"}, NEW count, PartStarts(n, x, type, count)
  PROVE  /\ Small(out.offset % 4096) /\ out.offset % 4096 = out.offset
         /\ Small((out.offset + Width(out, n)) % 4096) /\ Small((out.offset + 4) % 4096)
         /\ (out.offset + Width(out, n)) % 4096 = out.offset + Width(out, n)
         /\ (out.offset + 4) % 4096 = out.offset + 4
<1>1. Room(out) /\ Fitting(out, Width(out, n))
  BY PartFits
<1>2. Fitting(out, 4)
  BY <1>1, SmallFits
<1>3. /\ out.offset % 4096 = out.offset /\ Small(out.offset)
      /\ (out.offset + Width(out, n)) % 4096 = out.offset + Width(out, n)
      /\ Small(out.offset + Width(out, n))
  BY <1>1, FitSmall
<1>4. (out.offset + 4) % 4096 = out.offset + 4 /\ Small(out.offset + 4)
  BY <1>1, <1>2, FitSmall
<1> QED BY <1>3, <1>4

\* The margins of the field of a head: pre_IP(), pre_TP(), pre_SS(), pre_SY().
LEMMA NearHead ==
  ASSUME menu \in Menus, PathOK(path), out \in TermType, SumInv(path, out), Steady, Near(out),
         NEW n, NEW x, HeadStarts(n, x)
  PROVE  Near(out')
<1>1. PartStarts(n, x, "head", 0) /\ HeadPlace(out, out', n) /\ n.tok \in BlockToks
  BY DEF HeadStarts, HeadRel, PartStarts
<1>2. Small(out.offset % 4096) /\ Small((out.offset + Width(out, n)) % 4096)
      /\ Small((out.offset + 4) % 4096)
  BY <1>1, PartSmall
<1>3. CASE n.tok \in Items
  BY <1>1, <1>2, <1>3 DEF HeadPlace, Near
<1>4. CASE n.tok = "SY"
  BY <1>1, <1>2, <1>4 DEF HeadPlace, Near
<1>5. CASE n.tok \in Sections
  <2>1. out'.off \in {0, 3} /\ out'.rm = out.offset % 4096
    BY <1>1, <1>5 DEF HeadPlace
  <2>2. Small(out'.off)
    BY <2>1, NumbersSmall
  <2> QED BY <1>2, <2>1, <2>2 DEF Near
<1>6. CASE n.tok \in Skipped
  BY <1>1, <1>6 DEF HeadPlace, Near, SamePlace
<1> QED BY <1>1, <1>3, <1>4, <1>5, <1>6 DEF BlockToks, Paragraphs, Skipped

\* The margins of a body: pre_HP(), pre_IP(), pre_RS(), pre_TP(), pre_SH(), pre_SY().
LEMMA NearBody ==
  ASSUME menu \in Menus, PathOK(path), out \in TermType, SumInv(path, out), Steady, Near(out),
         NEW n, NEW x, BodyStarts(n, x), out' \in TermType, Room(out')
  PROVE  Near(out')
<1>1. PartStarts(n, x, "body", 1) /\ BodyPlace(out, out', n) /\ n.tok \in BlockToks
  BY DEF BodyStarts, BodyRel, PartStarts
<1>2. Small(out.offset % 4096) /\ Small((out.offset + Width(out, n)) % 4096)
      /\ Small((out.offset + 4) % 4096) /\ Small(78)
  BY <1>1, PartSmall, NumbersSmall
<1>3. Small(out.rm % 4096)
  BY NearSmall
<1>5. Small(out'.offset % 4096)
  <2>1. Small(out'.offset)
    BY RoomSmall
  <2> QED BY <2>1, ModIs
<1>6. CASE n.tok \in Items
  BY <1>1, <1>2, <1>6 DEF BodyPlace, Near
<1>7. CASE n.tok = "HP"
  <2>1. CASE n.first = "none"
    BY <1>1, <1>7, <2>1 DEF BodyPlace, Near, SamePlace
  <2>2. CASE n.first # "none"
    BY <1>1, <1>2, <1>7, <2>2 DEF BodyPlace, Near
  <2> QED BY <2>1, <2>2
<1>8. CASE n.tok = "PP"
  BY <1>1, <1>2, <1>3, <1>8 DEF BodyPlace, Near
<1>9. CASE n.tok = "SY"
  BY <1>1, <1>2, <1>9 DEF BodyPlace, Near
<1>10. CASE n.tok \in Sections
  BY <1>1, <1>2, <1>10 DEF BodyPlace, Near
<1>11. CASE n.tok = "RS"
  BY <1>1, <1>2, <1>5, <1>11 DEF BodyPlace, Near
<1>12. CASE n.tok = "UR"
  BY <1>1, <1>12 DEF BodyPlace, Near, SamePlace
<1> QED BY <1>1, <1>6, <1>7, <1>8, <1>9, <1>10, <1>11, <1>12 DEF BlockToks, Paragraphs

\* The margins inside a body: pre_in() takes no width out of range, and a line break
\* in a hanged paragraph moves to where the width ends.
LEMMA NearInside ==
  ASSUME menu \in Menus, out \in TermType, Room(out), Near(out), NEW n,
         (\E x : ElemStarts(n, x)) \/ LeafShown(n)
  PROVE  Near(out')
<1>1. Small(out.rm % 4096) /\ Small(out.off) /\ Small(out.rm) /\ Small(78)
  BY NearSmall, NumbersSmall DEF Near
<1>2. Small(out.offset % 4096)
  <2>1. Small(out.offset)
    BY RoomSmall
  <2> QED BY <2>1, ModIs
<1>3. ElemPlain(out, out') => Near(out')
  BY DEF ElemPlain, SamePlace, Near
<1>4. ASSUME NEW x, ElemStarts(n, x) PROVE Near(out')
  <2>1. ElemPlain(out, out') \/ ElemMoves(out, out') \/ ElemEnds(out, out')
    BY <1>4 DEF ElemStarts, ElemStep
  <2>2. CASE ElemMoves(out, out')
    <3>1. out'.rm = out.rm % 4096 /\ out'.off \in {0, 5, out.offset % 4096}
      BY <2>2 DEF ElemMoves
    <3>2. out'.off = 0 \/ out'.off = 5 \/ out'.off = out.offset % 4096
      BY <3>1
    <3>3. Small(out'.off)
      BY <1>2, <3>2, NumbersSmall
    <3> QED BY <1>1, <3>1, <3>3 DEF Near
  <2>3. CASE ElemEnds(out, out')
    BY <1>1, <2>3 DEF ElemEnds, Near
  <2> QED BY <1>3, <2>1, <2>2, <2>3
<1>5. CASE LeafShown(n)
  <2>1. ElemPlain(out, out') \/ BreakEnds(out, out')
        \/ (out'.off = out.rm % 4096 /\ out'.rm = 78)
    BY <1>5 DEF LeafShown, LeafStep
  <2>2. CASE BreakEnds(out, out')
    BY <1>1, <2>2 DEF BreakEnds, Near
  <2>3. CASE out'.off = out.rm % 4096 /\ out'.rm = 78
    BY <1>1, <2>3 DEF Near
  <2> QED BY <1>3, <2>1, <2>2, <2>3
<1> QED BY <1>4, <1>5

\* The margins after a node: post_IP(), post_HP(), post_RS(), post_TP(), post_SH(), post_SS().
LEMMA NearEnd ==
  ASSUME menu \in Menus, PathOK(path), out \in TermType, Room(out), Near(out),
         out' \in TermType, Room(out'), HeadEnds \/ BodyEnds \/ RestEnds
  PROVE  Near(out')
<1>1. Small(out.rm % 4096) /\ Small(out.off % 4096) /\ Small(out.off) /\ Small(out.rm) /\ Small(78)
  BY NearSmall, NumbersSmall DEF Near
<1>2. Small(out.offset % 4096) /\ Small(out'.offset % 4096)
  <2>1. Small(out.offset)
    BY RoomSmall
  <2>2. Small(out'.offset)
    BY RoomSmall
  <2> QED BY <2>1, <2>2, ModIs
<1>3. SamePlace(out, out') => Near(out')
  BY DEF SamePlace, Near
<1>4. CASE HeadEnds
  <2>1. HeadOutPlace(out, out', Top)
    BY <1>4 DEF HeadEnds, HeadOut
  <2>2. CASE Top.tok = "IP"
    BY <1>1, <2>1, <2>2 DEF HeadOutPlace, Near
  <2>3. CASE Top.tok # "IP"
    BY <1>3, <2>1, <2>3 DEF HeadOutPlace
  <2> QED BY <2>2, <2>3
<1>5. CASE BodyEnds
  <2>1. BodyOutPlace(out, out', Top) /\ BodyOutStack(out, out', Top) /\ Top.tok \in BlockToks
    BY <1>5 DEF BodyEnds, BodyOut, PartEnds
  <2>2. CASE Top.tok \in Items \cup {"SY"}
    BY <1>1, <1>2, <2>1, <2>2 DEF BodyOutPlace, Near
  <2>3. CASE Top.tok = "HP"
    BY <1>1, <1>2, <2>1, <2>3 DEF BodyOutPlace, Near
  <2>4. CASE Top.tok = "RS"
    <3>1. out'.offset = out.offset - Top.aux
      BY <2>1, <2>4 DEF BodyOutStack, Popped
    <3>2. out'.off = (out.offset - Top.aux) % 4096 /\ out'.rm = out.rm % 4096
      BY <2>1, <2>4 DEF BodyOutPlace
    <3> QED BY <1>1, <1>2, <3>1, <3>2 DEF Near
  <2>5. CASE Top.tok \in {"PP", "UR"} \cup Sections
    BY <1>3, <2>1, <2>5 DEF BodyOutPlace
  <2> QED BY <2>1, <2>2, <2>3, <2>4, <2>5 DEF BlockToks, Paragraphs
<1>6. CASE RestEnds
  <2>1. SamePlace(out, out') \/ (out'.off = out.rm % 4096 /\ out'.rm = 78)
    BY <1>6 DEF RestEnds, RestOut
  <2>2. CASE out'.off = out.rm % 4096 /\ out'.rm = 78
    BY <1>1, <2>2 DEF Near
  <2> QED BY <1>3, <2>1, <2>2
<1> QED BY <1>4, <1>5, <1>6

\* No margin wraps around in a step if the stack is Steady.
LEMMA NearStep ==
  ASSUME menu \in Menus, menu' = menu, PathOK(path), out \in TermType, SumInv(path, out), Steady,
         Near(out), PathOK(path'), out' \in TermType, SumInv(path', out'), Walks
  PROVE  Near(out')
<1>1. Len(path) \in Nat /\ Len(path') \in Nat
  BY DEF PathOK
<1>2. Room(out) /\ Room(out')
  BY <1>1, RoomIs
<1>3. ASSUME NEW n, NEW x, BlockStarts(n, x) PROVE Near(out')
  BY <1>3 DEF BlockStarts, BlockRel, SamePlace, Near
<1>4. ASSUME NEW n, NEW x, HeadStarts(n, x) PROVE Near(out')
  BY <1>4, NearHead
<1>5. ASSUME NEW n, NEW x, BodyStarts(n, x) PROVE Near(out')
  BY <1>2, <1>5, NearBody
<1>6. ASSUME NEW n, NEW x, ElemStarts(n, x) PROVE Near(out')
  BY <1>2, <1>6, NearInside
<1>7. ASSUME NEW n, LeafShown(n) PROVE Near(out')
  BY <1>2, <1>7, NearInside
<1>8. CASE HeadEnds \/ BodyEnds \/ RestEnds
  BY <1>2, <1>8, NearEnd
<1> QED BY <1>3, <1>4, <1>5, <1>6, <1>7, <1>8 DEF Walks

-----------------------------------------------------------------------------
\* Nodes that do not move the margins of the body they are in.
Through(n) == n.tok = "UR" \/ n.type = "elem"
\* The body that decides where the text starts.
Host(p, i) ==
  /\ i \in 1..Len(p) /\ p[i].type = "body" /\ p[i].tok # "UR"
  /\ \A j \in (i + 1)..Len(p) : Through(p[j])

\* A hanged paragraph: before its first line ended, and after that.
Early(o) == o.off = o.offset /\ o.rm = o.offset + o.lmargin[o.cur]
Late(o) == o.off = o.offset + o.lmargin[o.cur] /\ o.rm = 78 /\ "brind" \notin Modes(o)
\* In a hanged paragraph with children, it depends on what the first one was.
HangInv(p, o, i) ==
  IF p[i].first = "none" THEN o.off = o.offset /\ i = Len(p)
  ELSE /\ Early(o) \/ Late(o)
       /\ p[i].first \in {"fill", "nofill"}
       /\ p[i].first = "nofill" =>
            /\ "brind" \notin Modes(o)
            /\ p[i].count = 0 \/ (p[i].count = 1 /\ i < Len(p)) => Early(o)
       /\ p[i].first = "fill" /\ i < Len(p) /\ p[i].count = 1 => p[i + 1].nofill = FALSE

\* Where text starts in the body p[i].
Placed(p, o, i) ==
  CASE p[i].tok \in Items \cup {"SY"} -> o.off = o.offset + o.lmargin[o.cur]
    [] p[i].tok = "HP" -> HangInv(p, o, i)
    [] OTHER -> o.off = o.offset

\* Nodes that are visited when the margin is where the indentation is.
Ready(n) ==
  \/ n.type = "block" /\ n.tok # "UR" /\ n.count = 2
  \/ n.tok = "HP" /\ n.type \in {"block", "head"}

\* The inductive form of the last part of Margins.
PlaceInv(p, o) ==
  /\ \A i \in 1..Len(p) : Host(p, i) => Placed(p, o, i)
  /\ Ready(p[Len(p)]) => o.off = o.offset

\* There is one such body at most.
LEMMA OneHost ==
  ASSUME NEW p, Len(p) \in Nat, NEW i, NEW j, Host(p, i), Host(p, j)
  PROVE  i = j
<1>1. i \in 1..Len(p) /\ j \in 1..Len(p)
  BY DEF Host
<1>2. ~(i < j)
  <2> SUFFICES ASSUME i < j PROVE FALSE
    OBVIOUS
  <2>1. j \in (i + 1)..Len(p)
    BY <1>1
  <2> QED BY <2>1 DEF Host, Through
<1>3. ~(j < i)
  <2> SUFFICES ASSUME j < i PROVE FALSE
    OBVIOUS
  <2>1. i \in (j + 1)..Len(p)
    BY <1>1
  <2> QED BY <2>1 DEF Host, Through
<1> QED BY <1>1, <1>2, <1>3

\* It is one if it is the last node.
LEMMA TopHosts ==
  ASSUME NEW p, Len(p) \in Nat, Len(p) >= 1, p[Len(p)].type = "body", p[Len(p)].tok # "UR"
  PROVE  Host(p, Len(p))
<1>1. (Len(p) + 1)..Len(p) = {}
  OBVIOUS
<1>2. Len(p) \in 1..Len(p)
  OBVIOUS
<1> QED BY <1>1, <1>2 DEF Host

\* Nothing but UR and elements is below it.
LEMMA HostAbove ==
  ASSUME NEW p, Len(p) \in Nat, NEW i, Host(p, i), NEW k \in 1..Len(p), ~Through(p[k])
  PROVE  k <= i
<1>1. i \in 1..Len(p)
  BY DEF Host
<1>2. CASE k <= i
  BY <1>2
<1>3. CASE ~(k <= i)
  <2>1. k \in (i + 1)..Len(p)
    BY <1>1, <1>3
  <2> QED BY <2>1 DEF Host
<1> QED BY <1>2, <1>3

\* It was one before such nodes were entered or left.
LEMMA HostKept ==
  ASSUME NEW p, NEW r, Len(p) \in Nat, Len(r) \in Nat, NEW i, Host(r, i), i <= Len(p),
         \A j \in 1..Len(p) : j <= Len(r) => r[j].tok = p[j].tok /\ r[j].type = p[j].type,
         \A j \in (Len(r) + 1)..Len(p) : Through(p[j])
  PROVE  Host(p, i)
<1>1. i \in 1..Len(r) /\ i \in 1..Len(p)
  BY DEF Host
<1>2. p[i].type = "body" /\ p[i].tok # "UR"
  BY <1>1 DEF Host
<1>3. ASSUME NEW j \in (i + 1)..Len(p) PROVE Through(p[j])
  <2>1. CASE j <= Len(r)
    <3>1. j \in (i + 1)..Len(r) /\ j \in 1..Len(p)
      BY <1>1, <2>1
    <3>2. Through(r[j])
      BY <3>1 DEF Host
    <3> QED BY <2>1, <3>1, <3>2 DEF Through
  <2>2. CASE ~(j <= Len(r))
    <3>1. j \in (Len(r) + 1)..Len(p)
      BY <1>1, <2>2
    <3> QED BY <3>1
  <2> QED BY <2>1, <2>2
<1> QED BY <1>1, <1>2, <1>3 DEF Host

\* The places that depend on the body and its first child only.
SameKind(a, b) == a.tok = b.tok /\ a.first = b.first /\ a.count = b.count

\* Nothing moves.
LEMMA PlacedStays ==
  ASSUME NEW p, Len(p) \in Nat, NEW o, NEW i \in Nat, Placed(p, o, i), i < Len(p),
         NEW r, Len(r) \in Nat, SameKind(r[i], p[i]),
         i < Len(r) => r[i + 1].nofill = p[i + 1].nofill,
         NEW q, SameField(o, q), SamePlace(o, q), SameStack(o, q)
  PROVE  Placed(r, q, i)
<1>1. CASE p[i].tok = "HP"
  <2>1. HangInv(p, o, i) /\ p[i].tok \notin Items \cup {"SY"}
    BY <1>1 DEF Placed, Items
  <2>2. p[i].first # "none"
    BY <2>1 DEF HangInv
  <2>3. (Early(o) => Early(q)) /\ (Late(o) => Late(q))
    BY DEF Early, Late, SameField, SamePlace, SameStack
  <2>4. HangInv(r, q, i)
    BY <2>1, <2>2, <2>3 DEF HangInv, SameKind, SameField
  <2> QED BY <1>1, <2>1, <2>4 DEF Placed, SameKind
<1>2. CASE p[i].tok # "HP"
  BY <1>2 DEF Placed, SameKind, SamePlace, SameStack
<1> QED BY <1>1, <1>2

\* The flag NODE_NOFILL of the first child is that which was announced.
Announced(a, f) ==
  a.count = 0 /\ a.first # "any" => a.first = (IF f THEN "nofill" ELSE "fill")

\* A child is entered, and nothing moves.
LEMMA PlacedEnters ==
  ASSUME NEW p, NEW k \in Nat, Len(p) = k, k >= 1, NEW o, Placed(p, o, k), p[k].first # "none",
         p[k].count \in 0..2, NEW r, Len(r) = k + 1, r[k].tok = p[k].tok, r[k].first = p[k].first,
         r[k].count = (IF p[k].count < 2 THEN p[k].count + 1 ELSE 2),
         r[k + 1].nofill \in BOOLEAN, Announced(p[k], r[k + 1].nofill),
         NEW q, SameField(o, q), SamePlace(o, q), SameStack(o, q)
  PROVE  Placed(r, q, k)
<1>1. CASE p[k].tok = "HP"
  <2>1. HangInv(p, o, k) /\ p[k].tok \notin Items \cup {"SY"}
    BY <1>1 DEF Placed, Items
  <2>2. (Early(o) => Early(q)) /\ (Late(o) => Late(q))
    BY DEF Early, Late, SameField, SamePlace, SameStack
  <2>3. r[k].count # 0 /\ (r[k].count = 1 => p[k].count = 0)
    OBVIOUS
  <2>4. (Early(q) \/ Late(q)) /\ r[k].first \in {"fill", "nofill"}
    BY <2>1, <2>2 DEF HangInv
  <2>5. r[k].first = "nofill" => "brind" \notin Modes(q) /\ (r[k].count = 1 => Early(q))
    BY <2>1, <2>2, <2>3 DEF HangInv, SameField
  <2>6. r[k].first = "fill" /\ r[k].count = 1 => r[k + 1].nofill = FALSE
    BY <2>3 DEF Announced
  <2>7. HangInv(r, q, k)
    BY <2>3, <2>4, <2>5, <2>6 DEF HangInv
  <2> QED BY <1>1, <2>1, <2>7 DEF Placed
<1>2. CASE p[k].tok # "HP"
  BY <1>2 DEF Placed, SamePlace, SameStack
<1> QED BY <1>1, <1>2

\* A leaf is printed or a child is left, and nothing moves.
LEMMA PlacedTop ==
  ASSUME NEW p, NEW i, NEW o, Placed(p, o, i), p[i].first # "none",
         NEW r, Len(r) = i, i \in Nat, r[i].tok = p[i].tok, r[i].first = p[i].first,
         r[i].count = 0 => p[i].count = 0,
         NEW q, SameField(o, q), SamePlace(o, q), SameStack(o, q)
  PROVE  Placed(r, q, i)
<1>1. CASE p[i].tok = "HP"
  <2>1. HangInv(p, o, i) /\ p[i].tok \notin Items \cup {"SY"}
    BY <1>1 DEF Placed, Items
  <2>2. (Early(o) => Early(q)) /\ (Late(o) => Late(q))
    BY DEF Early, Late, SameField, SamePlace, SameStack
  <2>3. HangInv(r, q, i)
    BY <2>1, <2>2 DEF HangInv, SameField
  <2> QED BY <1>1, <2>1, <2>3 DEF Placed
<1>2. CASE p[i].tok # "HP"
  BY <1>2 DEF Placed, SamePlace, SameStack
<1> QED BY <1>1, <1>2

\* The first line of a hanged paragraph ends.
LEMMA PlacedLate ==
  ASSUME NEW o, Early(o), NEW q, q.off = o.rm, q.rm = 78, SameStack(o, q),
         "brind" \notin Modes(q), NEW r, NEW i, r[i].tok = "HP",
         r[i].first \in {"fill", "nofill"},
         r[i].first = "nofill" => ~(r[i].count = 0 \/ (r[i].count = 1 /\ i < Len(r))),
         r[i].first = "fill" /\ i < Len(r) /\ r[i].count = 1 => r[i + 1].nofill = FALSE
  PROVE  Placed(r, q, i)
<1>1. Late(q)
  BY DEF Early, Late, SameStack
<1>2. HangInv(r, q, i)
  BY <1>1 DEF HangInv
<1> QED BY <1>2 DEF Placed, Items

-----------------------------------------------------------------------------
\* The body that decides where text starts after a node was entered that is none.
LEMMA PlaceGrown ==
  ASSUME PathOK(path), PlaceInv(path, out), PathOK(path'), NEW x, NEW t,
         Grown(path, path', x, t), x.type = "body" => x.tok = "UR",
         Top.type = "body" => Top.first # "none" /\ Announced(Top, x.nofill),
         SameField(out, out'), SamePlace(out, out'), SameStack(out, out')
  PROVE  \A i \in 1..Len(path') : Host(path', i) => Placed(path', out', i)
<1> DEFINE k == Len(path)
<1>1. Top = path[k] /\ Top \in NodeType /\ k \in Nat /\ k >= 1
  BY TopIs
<1>2. /\ Len(path') = k + 1 /\ path'[k + 1] = x
      /\ \A j \in 1..(k - 1) : path'[j] = path[j]
      /\ Like(path'[k], path[k])
      /\ path'[k].count = IF path[k].count < 2 THEN path[k].count + 1 ELSE 2
  BY DEF Grown
<1>3. x \in NodeType
  <2>1. path' \in Seq(NodeType) /\ k + 1 \in 1..Len(path')
    BY <1>1, <1>2 DEF PathOK
  <2> QED BY <1>2, <2>1, SeqElem
<1>4. \A j \in 1..k : path'[j].tok = path[j].tok /\ path'[j].type = path[j].type
  <2> TAKE j \in 1..k
  <2>1. CASE j = k
    BY <1>2, <2>1 DEF Like
  <2>2. CASE j # k
    <3>1. j \in 1..(k - 1)
      BY <1>1, <2>2
    <3> QED BY <1>2, <3>1
  <2> QED BY <2>1, <2>2
<1> SUFFICES ASSUME NEW i \in 1..Len(path'), Host(path', i) PROVE Placed(path', out', i)
  OBVIOUS
<1>5. i # k + 1
  BY <1>2 DEF Host
<1>6. i \in 1..k /\ i \in Nat
  BY <1>1, <1>2, <1>5
<1>7. Host(path, i)
  <2>1. (Len(path') + 1)..Len(path) = {}
    BY <1>1, <1>2
  <2>2. \A j \in 1..Len(path) : path'[j].tok = path[j].tok /\ path'[j].type = path[j].type
    BY <1>4
  <2>3. Len(path) \in Nat /\ Len(path') \in Nat /\ i <= Len(path)
    BY <1>1, <1>2, <1>6
  <2> QED BY <2>1, <2>2, <2>3, HostKept
<1>8. Placed(path, out, i)
  BY <1>6, <1>7 DEF PlaceInv
<1>9. CASE i = k
  <2>1. Top.type = "body"
    BY <1>1, <1>7, <1>9 DEF Host
  <2>2. path[k].first # "none" /\ Announced(path[k], path'[k + 1].nofill)
    BY <1>1, <1>2, <2>1
  <2>3. path[k].count \in 0..2 /\ path'[k + 1].nofill \in BOOLEAN
    BY <1>1, <1>2, <1>3 DEF NodeType
  <2>4. path'[k].tok = path[k].tok /\ path'[k].first = path[k].first
    BY <1>2 DEF Like
  <2>5. k \in Nat /\ Len(path) = k /\ k >= 1 /\ Placed(path, out, k)
    BY <1>1, <1>8, <1>9
  <2>6. Placed(path', out', k)
    BY <1>2, <2>2, <2>3, <2>4, <2>5, PlacedEnters
  <2> QED BY <1>9, <2>6
<1>10. CASE i # k
  <2>1. i \in 1..(k - 1) /\ i < Len(path) /\ i + 1 \in 1..k
    BY <1>1, <1>6, <1>10
  <2>2. SameKind(path'[i], path[i])
    BY <1>2, <2>1 DEF SameKind
  <2>3. path'[i + 1].nofill = path[i + 1].nofill
    <3>1. CASE i + 1 = k
      BY <1>2, <3>1 DEF Like
    <3>2. CASE i + 1 # k
      <4>1. i + 1 \in 1..(k - 1)
        BY <1>1, <2>1, <3>2
      <4> QED BY <1>2, <4>1
    <3> QED BY <3>1, <3>2
  <2>4. Len(path) \in Nat /\ Len(path') \in Nat /\ i \in Nat
    BY <1>1, <1>2, <1>6
  <2> QED BY <1>8, <2>1, <2>2, <2>3, <2>4, PlacedStays
<1> QED BY <1>9, <1>10

\* The nodes above the one that is left are still there.
LEMMA ShrunkIs ==
  ASSUME PathOK(path), Ends
  PROVE  /\ Len(path) \in Nat /\ Len(path') \in Nat /\ Len(path') = Len(path) - 1
         /\ Len(path') >= 1 /\ Top = path[Len(path)]
         /\ \A j \in 1..Len(path') : /\ path'[j].tok = path[j].tok
                                     /\ path'[j].type = path[j].type
                                     /\ path'[j].nofill = path[j].nofill
                                     /\ SameKind(path'[j], path[j])
<1>1. /\ Len(path) \in Nat /\ Len(path) >= 2 /\ Start(path, path') /\ Len(path') = Len(path) - 1
      /\ path'[Len(path')].count = path[Len(path) - 1].count
  BY DEF Ends
<1>2. Top = path[Len(path)]
  BY DEF Top
<1> SUFFICES ASSUME NEW j \in 1..Len(path')
             PROVE  /\ path'[j].tok = path[j].tok
                    /\ path'[j].type = path[j].type
                    /\ path'[j].nofill = path[j].nofill
                    /\ SameKind(path'[j], path[j])
  BY <1>1, <1>2
<1>3. CASE j = Len(path')
  <2>1. Like(path'[j], path[j]) /\ path'[j].count = path[j].count
    BY <1>1, <1>3 DEF Start
  <2> QED BY <2>1 DEF Like, SameKind
<1>4. CASE j # Len(path')
  <2>1. j \in 1..(Len(path') - 1)
    BY <1>1, <1>4
  <2>2. path'[j] = path[j]
    BY <1>1, <2>1 DEF Start
  <2> QED BY <2>2 DEF SameKind
<1> QED BY <1>3, <1>4

\* What decided before UR or an element was left still does.
LEMMA ShrunkHost ==
  ASSUME PathOK(path), Ends, Through(Top), NEW i, Host(path', i)
  PROVE  Host(path, i) /\ i \in Nat /\ i < Len(path) /\ i <= Len(path')
<1>1. /\ Len(path) \in Nat /\ Len(path') \in Nat /\ Len(path') = Len(path) - 1
      /\ Top = path[Len(path)]
      /\ \A j \in 1..Len(path') : path'[j].tok = path[j].tok /\ path'[j].type = path[j].type
  BY ShrunkIs
<1>2. i \in 1..Len(path')
  BY DEF Host
<1>3. \A j \in (Len(path') + 1)..Len(path) : Through(path[j])
  <2>1. \A j \in (Len(path') + 1)..Len(path) : j = Len(path)
    BY <1>1
  <2> QED BY <1>1, <2>1
<1>4. \A j \in 1..Len(path) :
        j <= Len(path') => path'[j].tok = path[j].tok /\ path'[j].type = path[j].type
  <2> SUFFICES ASSUME NEW j \in 1..Len(path), j <= Len(path')
               PROVE  path'[j].tok = path[j].tok /\ path'[j].type = path[j].type
    OBVIOUS
  <2>1. j \in 1..Len(path')
    BY <1>1
  <2> QED BY <1>1, <2>1
<1>5. i \in Nat /\ i < Len(path) /\ i <= Len(path') /\ i <= Len(path)
  BY <1>1, <1>2
<1>6. Host(path, i)
  BY <1>1, <1>3, <1>4, <1>5, HostKept
<1> QED BY <1>5, <1>6

\* It is the same after UR or an element was left.
LEMMA PlaceShrunk ==
  ASSUME PathOK(path), PlaceInv(path, out), Ends, Through(Top),
         SameField(out, out'), SamePlace(out, out'), SameStack(out, out')
  PROVE  \A i \in 1..Len(path') : Host(path', i) => Placed(path', out', i)
<1> SUFFICES ASSUME NEW i \in 1..Len(path'), Host(path', i) PROVE Placed(path', out', i)
  OBVIOUS
<1>1. /\ Len(path) \in Nat /\ Len(path') \in Nat /\ Len(path') = Len(path) - 1
      /\ \A j \in 1..Len(path') : /\ path'[j].nofill = path[j].nofill
                                  /\ SameKind(path'[j], path[j])
  BY ShrunkIs
<1>2. Host(path, i) /\ i \in Nat /\ i < Len(path)
  BY ShrunkHost
<1>3. Placed(path, out, i)
  BY <1>2 DEF PlaceInv, Host
<1>4. i < Len(path') => path'[i + 1].nofill = path[i + 1].nofill
  <2> HAVE i < Len(path')
  <2>1. i + 1 \in 1..Len(path')
    BY <1>1
  <2> QED BY <1>1, <2>1
<1>5. SameKind(path'[i], path[i])
  BY <1>1
<1> QED BY <1>1, <1>2, <1>3, <1>4, <1>5, PlacedStays

\* The nodes after a leaf was printed.
LEMMA SeenIs ==
  ASSUME PathOK(path), NEW t, Seen(path, path', t)
  PROVE  /\ Len(path) \in Nat /\ Len(path) >= 1 /\ Len(path') = Len(path)
         /\ path[Len(path)].count \in 0..2 /\ Top = path[Len(path)]
         /\ path'[Len(path)].count = IF path[Len(path)].count < 2 THEN path[Len(path)].count + 1
                                     ELSE 2
         /\ \A j \in 1..Len(path) : /\ path'[j].tok = path[j].tok
                                    /\ path'[j].type = path[j].type
                                    /\ path'[j].first = path[j].first
                                    /\ path'[j].nofill = path[j].nofill
                                    /\ j < Len(path) => path'[j] = path[j]
<1>1. Top = path[Len(path)] /\ Top \in NodeType /\ Len(path) \in Nat /\ Len(path) >= 1
  BY TopIs
<1>2. path[Len(path)].count \in 0..2
  BY <1>1 DEF NodeType
<1>3. ASSUME NEW j \in 1..Len(path)
      PROVE  /\ path'[j].tok = path[j].tok /\ path'[j].type = path[j].type
             /\ path'[j].first = path[j].first /\ path'[j].nofill = path[j].nofill
             /\ j < Len(path) => path'[j] = path[j]
  <2>1. CASE j = Len(path)
    BY <1>1, <2>1 DEF Seen, Like
  <2>2. CASE j # Len(path)
    <3>1. j \in 1..(Len(path) - 1)
      BY <1>1, <2>2
    <3>2. path'[j] = path[j]
      BY <3>1 DEF Seen
    <3> QED BY <3>2
  <2> QED BY <2>1, <2>2
<1> QED BY <1>1, <1>2, <1>3 DEF Seen

\* What decided before a leaf was printed still does.
LEMMA SeenHost ==
  ASSUME PathOK(path), NEW t, Seen(path, path', t), NEW i, Host(path', i)
  PROVE  Host(path, i) /\ i \in 1..Len(path) /\ i \in Nat
<1>1. /\ Len(path) \in Nat /\ Len(path') = Len(path)
      /\ \A j \in 1..Len(path) : path'[j].tok = path[j].tok /\ path'[j].type = path[j].type
  BY SeenIs
<1>2. i \in 1..Len(path) /\ i \in Nat /\ i <= Len(path)
  BY <1>1 DEF Host
<1>3. (Len(path') + 1)..Len(path) = {}
  BY <1>1
<1>4. Host(path, i)
  BY <1>1, <1>2, <1>3, HostKept
<1> QED BY <1>2, <1>4

\* It is the same after a leaf was printed and nothing moved.
LEMMA PlaceSeen ==
  ASSUME PathOK(path), PlaceInv(path, out), NEW t, Seen(path, path', t),
         Top.type = "body" => Top.first # "none",
         SameField(out, out'), SamePlace(out, out'), SameStack(out, out')
  PROVE  \A i \in 1..Len(path') : Host(path', i) => Placed(path', out', i)
<1> SUFFICES ASSUME NEW i \in 1..Len(path'), Host(path', i) PROVE Placed(path', out', i)
  OBVIOUS
<1>1. /\ Len(path) \in Nat /\ Len(path) >= 1 /\ Len(path') = Len(path)
      /\ path[Len(path)].count \in 0..2 /\ Top = path[Len(path)]
      /\ path'[Len(path)].count = IF path[Len(path)].count < 2 THEN path[Len(path)].count + 1
                                  ELSE 2
      /\ \A j \in 1..Len(path) : /\ path'[j].tok = path[j].tok
                                 /\ path'[j].type = path[j].type
                                 /\ path'[j].first = path[j].first
                                 /\ path'[j].nofill = path[j].nofill
                                 /\ j < Len(path) => path'[j] = path[j]
  BY SeenIs
<1>2. Host(path, i) /\ i \in 1..Len(path) /\ i \in Nat
  BY SeenHost
<1>3. Placed(path, out, i)
  BY <1>2 DEF PlaceInv
<1>4. CASE i = Len(path)
  <2>1. path[i].first # "none"
    BY <1>1, <1>2, <1>4 DEF Host
  <2>2. path'[i].count # 0
    BY <1>1, <1>4
  <2>3. path'[i].tok = path[i].tok /\ path'[i].first = path[i].first /\ Len(path') = i
    BY <1>1, <1>2, <1>4
  <2> QED BY <1>2, <1>3, <2>1, <2>2, <2>3, PlacedTop
<1>5. CASE i # Len(path)
  <2>1. i < Len(path) /\ i + 1 \in 1..Len(path)
    BY <1>1, <1>2, <1>5
  <2>2. SameKind(path'[i], path[i])
    BY <1>1, <1>2, <2>1 DEF SameKind
  <2>3. path'[i + 1].nofill = path[i + 1].nofill
    BY <1>1, <2>1
  <2> QED BY <1>1, <1>2, <1>3, <2>1, <2>2, <2>3, PlacedStays
<1> QED BY <1>4, <1>5

-----------------------------------------------------------------------------
\* What Fits() says of the first child of a body.
LEMMA FitsIs ==
  ASSUME NEW n, Fits(n), CanHaveMore
  PROVE  Top.type = "body" => Top.first # "none" /\ Announced(Top, n.nofill)
BY DEF Fits, CanHaveMore, Announced

\* The body that is being visited.
LEMMA TopPlaced ==
  ASSUME PathOK(path), PlaceInv(path, out), Top.type = "body", Top.tok # "UR"
  PROVE  Host(path, Len(path)) /\ Placed(path, out, Len(path))
<1>1. Top = path[Len(path)] /\ Len(path) \in Nat /\ Len(path) >= 1
  BY TopIs
<1>2. Host(path, Len(path)) /\ Len(path) \in 1..Len(path)
  BY <1>1, TopHosts
<1> QED BY <1>2 DEF PlaceInv

\* The paragraph or section around paragraphs and RS.
LEMMA TopPlain ==
  ASSUME PathOK(path), PlaceInv(path, out), Top.type = "body",
         Top.tok \in {"PP", "RS"} \cup Sections
  PROVE  out.off = out.offset
<1>1. Top = path[Len(path)]
  BY TopIs
<1>2. Placed(path, out, Len(path))
  <2>1. Top.tok # "UR"
    BY DEF Sections
  <2> QED BY <2>1, TopPlaced
<1>3. path[Len(path)].tok \notin Items \cup {"SY"} /\ path[Len(path)].tok # "HP"
  BY <1>1 DEF Items, Sections
<1> QED BY <1>2, <1>3 DEF Placed

\* Nothing but the last node is a body that could decide, if it is a block, or
\* the body of one.
LEMMA GrownHost ==
  ASSUME NEW r, Len(r) \in Nat, Len(r) >= 1, ~Through(r[Len(r)]), NEW i, Host(r, i)
  PROVE  i = Len(r)
<1>1. Len(r) \in 1..Len(r) /\ i \in 1..Len(r)
  BY DEF Host
<1>2. Len(r) <= i
  BY <1>1, HostAbove
<1> QED BY <1>1, <1>2

\* A block is entered.
LEMMA PlaceBlock ==
  ASSUME PathOK(path), PlaceInv(path, out), CanHaveMore, NEW n, NEW x, Fits(n), BlockStarts(n, x)
  PROVE  PlaceInv(path', out')
<1>1. /\ BlockRel(out, out', n, Top.prev) /\ Heir(Top, n.tok) /\ n.tok \in BlockToks
      /\ n.type = "block"
  BY DEF BlockStarts
<1>2. /\ PathOK(path') /\ Grown(path, path', x, Trace(n)) /\ x.tok = n.tok /\ x.type = n.type
      /\ x.nofill = n.nofill /\ x.count = 0
  BY DEF BlockStarts, Grows, Kept
<1>3. Len(path') \in Nat /\ Len(path') >= 1 /\ path'[Len(path')] = x
  BY <1>2 DEF Grown
<1>4. CASE n.tok = "UR"
  <2>1. SameField(out, out') /\ SamePlace(out, out') /\ SameStack(out, out')
    BY <1>1, <1>4 DEF BlockRel, SameStack, Sections
  <2>2. x.type # "body"
    BY <1>1, <1>2
  <2>3. Top.type = "body" => Top.first # "none" /\ Announced(Top, x.nofill)
    BY <1>2, FitsIs
  <2>4. \A i \in 1..Len(path') : Host(path', i) => Placed(path', out', i)
    BY <1>2, <2>1, <2>2, <2>3, PlaceGrown
  <2>5. ~Ready(path'[Len(path')])
    BY <1>2, <1>3, <1>4 DEF Ready
  <2> QED BY <2>4, <2>5 DEF PlaceInv
<1>5. CASE n.tok # "UR"
  <2>1. ~Through(path'[Len(path')]) /\ path'[Len(path')].type # "body"
    BY <1>1, <1>2, <1>3, <1>5 DEF Through
  <2>2. \A i \in 1..Len(path') : ~Host(path', i)
    <3> SUFFICES ASSUME NEW i \in 1..Len(path'), Host(path', i) PROVE FALSE
      OBVIOUS
    <3>1. i = Len(path')
      BY <1>3, <2>1, GrownHost
    <3> QED BY <2>1, <3>1 DEF Host
  <2>3. ASSUME Ready(path'[Len(path')]) PROVE out'.off = out'.offset
    <3>1. n.tok = "HP"
      BY <1>2, <1>3, <2>3 DEF Ready
    <3>2. Top.type = "body" /\ Top.tok \in {"RS"} \cup Sections
      BY <1>1, <3>1 DEF Heir, Sections
    <3>3. out.off = out.offset
      BY <3>2, TopPlain
    <3>4. out'.off = out.off /\ out'.offset = out.offset
      BY <1>1, <3>1 DEF BlockRel, SamePlace, Sections
    <3> QED BY <3>3, <3>4
  <2> QED BY <2>2, <2>3 DEF PlaceInv
<1> QED BY <1>4, <1>5

\* A head is entered.
LEMMA PlaceHead ==
  ASSUME PathOK(path), PlaceInv(path, out), NEW n, NEW x, HeadStarts(n, x)
  PROVE  PlaceInv(path', out')
<1>1. /\ Top.type = "block" /\ n.tok = Top.tok /\ n.type = "head" /\ HeadRel(out, out', n)
  BY DEF HeadStarts, PartStarts
<1>2. /\ PathOK(path') /\ Grown(path, path', x, Trace(n)) /\ x.tok = n.tok /\ x.type = n.type
  BY DEF HeadStarts, PartStarts, Grows, Kept
<1>3. Len(path') \in Nat /\ Len(path') >= 1 /\ path'[Len(path')] = x
  BY <1>2 DEF Grown
<1>4. CASE n.tok = "UR"
  <2>1. SameField(out, out') /\ SamePlace(out, out') /\ SameStack(out, out')
    BY <1>1, <1>4 DEF HeadRel, HeadModes, HeadPlace, HeadStack, Skipped, Items
  <2>2. x.type # "body"
    BY <1>1, <1>2
  <2>3. Top.type # "body"
    BY <1>1
  <2>4. \A i \in 1..Len(path') : Host(path', i) => Placed(path', out', i)
    BY <1>2, <2>1, <2>2, <2>3, PlaceGrown
  <2>5. ~Ready(path'[Len(path')])
    BY <1>1, <1>2, <1>3, <1>4 DEF Ready
  <2> QED BY <2>4, <2>5 DEF PlaceInv
<1>5. CASE n.tok # "UR"
  <2>1. ~Through(path'[Len(path')]) /\ path'[Len(path')].type # "body"
    BY <1>1, <1>2, <1>3, <1>5 DEF Through
  <2>2. \A i \in 1..Len(path') : ~Host(path', i)
    <3> SUFFICES ASSUME NEW i \in 1..Len(path'), Host(path', i) PROVE FALSE
      OBVIOUS
    <3>1. i = Len(path')
      BY <1>3, <2>1, GrownHost
    <3> QED BY <2>1, <3>1 DEF Host
  <2>3. ASSUME Ready(path'[Len(path')]) PROVE out'.off = out'.offset
    <3>1. n.tok = "HP"
      BY <1>1, <1>2, <1>3, <2>3 DEF Ready
    <3>2. Ready(Top) /\ Top = path[Len(path)]
      BY <1>1, <3>1, TopIs DEF Ready
    <3>3. out.off = out.offset
      BY <3>2 DEF PlaceInv
    <3>4. out'.off = out.off /\ out'.offset = out.offset
      BY <1>1, <3>1 DEF HeadRel, HeadPlace, HeadStack, Skipped, Items, SamePlace, SameStack
    <3> QED BY <3>3, <3>4
  <2> QED BY <2>2, <2>3 DEF PlaceInv
<1> QED BY <1>4, <1>5

\* No mode of a field is set when a hanged paragraph starts.
LEMMA HangCloses ==
  ASSUME PathOK(path), FieldInv(path, out), Top.type = "block", Top.tok = "HP"
  PROVE  "brind" \notin Modes(out)
<1>1. ASSUME NEW i \in 1..Len(path), FieldOf(path, out, i) PROVE FALSE
  <2>1. Top.tok \in {"TP", "TQ"} \cup Sections \/ Top.tok = "UR"
    BY <1>1, FieldParts
  <2> QED BY <2>1 DEF Sections
<1>2. Closed(out)
  BY <1>1 DEF FieldInv
<1>3. FieldModes(out) = {}
  BY <1>2 DEF Closed
<1> QED BY <1>3 DEF FieldModes

\* The margin at the start of a body, after the width w.
LEMMA WideStart ==
  ASSUME NEW o \in TermType, NEW q, NEW w, Widened(o, q, w)
  PROVE  q.offset = o.offset /\ q.lmargin[q.cur] = w
<1>1. o.lmargin \in [0..(MaxMargins - 1) -> Int] /\ o.cur \in 0..(MaxMargins - 1)
  BY DEF TermType
<1> QED BY <1>1 DEF Widened

\* A body is entered: its text starts at the indentation, after the width in items.
LEMMA PlaceBody ==
  ASSUME menu \in Menus, PathOK(path), out \in TermType, SumInv(path, out), Steady,
         FieldInv(path, out), PlaceInv(path, out), NEW n, NEW x, BodyStarts(n, x),
         Small(out'.offset)
  PROVE  PlaceInv(path', out')
<1>1. /\ Top.type = "block" /\ n.tok = Top.tok /\ n.type = "body" /\ n.tok \in BlockToks
      /\ PartStarts(n, x, "body", 1) /\ BodyRel(out, out', n)
  BY DEF BodyStarts, PartStarts
<1>2. /\ PathOK(path') /\ Grown(path, path', x, Trace(n)) /\ x.tok = n.tok /\ x.type = n.type
      /\ x.count = 0 /\ x.first = n.first
  BY DEF BodyStarts, PartStarts, Grows, Kept
<1>3. Len(path') \in Nat /\ Len(path') >= 1 /\ path'[Len(path')] = x
  BY <1>2 DEF Grown
<1>4. ~Ready(path'[Len(path')])
  BY <1>1, <1>2, <1>3 DEF Ready
<1>5. CASE n.tok = "UR"
  <2>1. SameField(out, out') /\ SamePlace(out, out') /\ SameStack(out, out')
    BY <1>1, <1>5 DEF BodyRel, BodyModes, BodyPlace, BodyStack, Items
  <2>2. x.tok = "UR" /\ Top.type # "body"
    BY <1>1, <1>2, <1>5
  <2>3. \A i \in 1..Len(path') : Host(path', i) => Placed(path', out', i)
    BY <1>2, <2>1, <2>2, PlaceGrown
  <2> QED BY <1>4, <2>3 DEF PlaceInv
<1>6. CASE n.tok # "UR"
  <2> DEFINE k == Len(path')
  <2>1. ~Through(path'[k])
    BY <1>1, <1>2, <1>3, <1>6 DEF Through
  <2>2. \A i \in 1..Len(path') : Host(path', i) => i = k
    BY <1>3, <2>1, GrownHost
  <2>3. /\ out.offset % 4096 = out.offset
        /\ (out.offset + Width(out, n)) % 4096 = out.offset + Width(out, n)
        /\ (out.offset + 4) % 4096 = out.offset + 4
    BY <1>1, PartSmall
  <2>4. BodyPlace(out, out', n) /\ BodyStack(out, out', n) /\ BodyModes(out, out', n)
    BY <1>1 DEF BodyRel
  <2>5. Placed(path', out', k)
    <3>1. CASE n.tok \in Items
      <4> DEFINE w == Width(out, n)
      <4>1. (out.offset + w) % 4096 = out.offset + w
        BY <2>3
      <4>2. w = Width(out, n)
        OBVIOUS
      <4> HIDE DEF w
      <4>3. out'.off = (out.offset + w) % 4096
        BY <2>4, <3>1, <4>2 DEF BodyPlace
      <4>4. Widened(out, out', w)
        BY <2>4, <3>1, <4>2 DEF BodyStack, Items
      <4>5. out'.offset = out.offset /\ out'.lmargin[out'.cur] = w
        BY <4>4, WideStart
      <4>6. out'.off = out'.offset + out'.lmargin[out'.cur]
        BY <4>1, <4>3, <4>5
      <4>7. path'[k].tok \in Items \cup {"SY"}
        BY <1>2, <1>3, <3>1
      <4> QED BY <4>6, <4>7 DEF Placed, Items
    <3>2. CASE n.tok = "SY"
      <4>1. out'.off = out.offset + 4 /\ Widened(out, out', 4)
        BY <2>3, <2>4, <3>2 DEF BodyPlace, BodyStack, Items
      <4>2. out'.offset = out.offset /\ out'.lmargin[out'.cur] = 4
        BY <4>1, WideStart
      <4> QED BY <1>2, <1>3, <3>2, <4>1, <4>2 DEF Placed
    <3>3. CASE n.tok \in {"PP"} \cup Sections
      <4>1. out'.off = out.offset /\ out'.offset = out.offset
        BY <2>3, <2>4, <3>3 DEF BodyPlace, BodyStack, Items, Sections, SameStack
      <4>2. n.tok \notin Items \cup {"SY"} /\ n.tok # "HP"
        BY <3>3 DEF Items, Sections
      <4> QED BY <1>2, <1>3, <4>1, <4>2 DEF Placed
    <3>4. CASE n.tok = "RS"
      <4>1. out'.off = out'.offset % 4096
        BY <2>4, <3>4 DEF BodyPlace
      <4>2. out'.offset % 4096 = out'.offset
        BY ModIs
      <4>3. n.tok \notin Items \cup {"SY"} /\ n.tok # "HP"
        BY <3>4 DEF Items
      <4> QED BY <1>2, <1>3, <4>1, <4>2, <4>3 DEF Placed
    <3>5. CASE n.tok = "HP"
      <4>1. n.tok \notin Items \cup {"SY"}
        BY <3>5 DEF Items
      <4>2. CASE n.first = "none"
        <5>1. SamePlace(out, out') /\ SameStack(out, out')
          BY <2>4, <3>5, <4>1, <4>2 DEF BodyPlace, BodyStack
        <5>2. out.off = out.offset
          <6>1. Ready(path[Len(path)])
            BY <1>1, <3>5, TopIs DEF Ready
          <6> QED BY <6>1 DEF PlaceInv
        <5>3. out'.off = out'.offset
          BY <5>1, <5>2 DEF SamePlace, SameStack
        <5>4. HangInv(path', out', k)
          BY <1>2, <1>3, <4>2, <5>3 DEF HangInv
        <5> QED BY <1>2, <1>3, <3>5, <4>1, <5>4 DEF Placed
      <4>3. CASE n.first # "none"
        <5>1. /\ out'.off = out.offset /\ out'.rm = out.offset + Width(out, n)
              /\ Widened(out, out', Width(out, n))
          BY <2>3, <2>4, <3>5, <4>1, <4>3 DEF BodyPlace, BodyStack
        <5>2. out'.offset = out.offset /\ out'.lmargin[out'.cur] = Width(out, n)
          BY <5>1, WideStart
        <5>3. Early(out')
          BY <5>1, <5>2 DEF Early
        <5>4. x.first \in {"fill", "nofill"}
          <6>1. k \in 1..Len(path')
            BY <1>3
          <6>2. x \in NodeType /\ Good(x)
            BY <1>2, <1>3, <6>1, SeqElem DEF PathOK
          <6>3. x.first # "any"
            BY <1>2, <3>5, <6>2 DEF Good
          <6> QED BY <1>2, <4>3, <6>2, <6>3 DEF NodeType
        <5>5. x.first = "nofill" => "brind" \notin Modes(out')
          <6>1. "brind" \notin Modes(out)
            BY <1>1, <3>5, HangCloses
          <6>2. n.first = "nofill" => SameField(out, out')
            BY <2>4, <3>5 DEF BodyModes
          <6> QED BY <1>2, <6>1, <6>2 DEF SameField
        <5>6. HangInv(path', out', k)
          BY <1>2, <1>3, <4>3, <5>3, <5>4, <5>5 DEF HangInv
        <5> QED BY <1>2, <1>3, <3>5, <4>1, <5>6 DEF Placed
      <4> QED BY <4>2, <4>3
    <3> QED BY <1>1, <1>6, <3>1, <3>2, <3>3, <3>4, <3>5 DEF BlockToks, Paragraphs
  <2> QED BY <1>4, <2>2, <2>5 DEF PlaceInv
<1> QED BY <1>5, <1>6

-----------------------------------------------------------------------------
\* The first line of a hanged paragraph ends where its width ends.
LEMMA PlaceElem ==
  ASSUME nf \in BOOLEAN, PathOK(path), out \in TermType, Near(out), PlaceInv(path, out),
         "in" \notin menu.has, CanHaveMore, NEW n, NEW x, Fits(n), ElemStarts(n, x)
  PROVE  PlaceInv(path', out')
<1> DEFINE k == Len(path)
<1>1. /\ n.type = "elem" /\ n.tok \in Elements /\ n.tok \in menu.has
      /\ Top.type \in {"head", "body"} /\ ~(Top.type = "head" /\ Top.tok \in Skipped)
      /\ (n.nofill = TRUE => nf = TRUE) /\ (Hanging => n.tok \notin {"EX", "EE"})
      /\ ElemStep(out, out', n, Top.tok)
  BY DEF ElemStarts
<1>2. /\ PathOK(path') /\ Grown(path, path', x, Trace(n)) /\ x.tok = n.tok /\ x.type = n.type
      /\ x.nofill = n.nofill
  BY DEF ElemStarts, Grows, Kept
<1>3. Len(path') = k + 1 /\ path'[k + 1] = x /\ Like(path'[k], path[k])
      /\ path'[k].count = (IF path[k].count < 2 THEN path[k].count + 1 ELSE 2)
  BY <1>2 DEF Grown
<1>4. Top = path[k] /\ Top \in NodeType /\ Good(Top) /\ k \in Nat /\ k >= 1
  BY TopIs
<1>5. ~Ready(path'[Len(path')])
  <2>1. x.type = "elem"
    BY <1>1, <1>2
  <2> QED BY <1>3, <2>1 DEF Ready
<1>6. Top.type = "body" => Top.first # "none" /\ Announced(Top, x.nofill)
  BY <1>2, FitsIs
<1>7. n.tok # "in"
  BY <1>1
<1>8. CASE ElemPlain(out, out')
  <2>1. SameField(out, out') /\ SamePlace(out, out') /\ SameStack(out, out')
    BY <1>1, <1>8 DEF ElemPlain, ElemStep
  <2>2. x.type # "body"
    BY <1>1, <1>2
  <2>3. \A i \in 1..Len(path') : Host(path', i) => Placed(path', out', i)
    BY <1>2, <1>6, <2>1, <2>2, PlaceGrown
  <2> QED BY <1>5, <2>3 DEF PlaceInv
<1>9. CASE n.tok \in {"EX", "EE"} /\ Top.tok = "HP" /\ ElemEnds(out, out')
  <2>1. Top.type = "body" /\ Top.tok # "UR"
    BY <1>1, <1>9 DEF Skipped
  <2>2. Host(path, k) /\ Placed(path, out, k)
    BY <2>1, TopPlaced
  <2>3. HangInv(path, out, k)
    BY <1>4, <1>9, <2>2 DEF Placed, Items
  <2>4. Early(out) \/ Late(out)
    BY <1>4, <1>6, <2>1, <2>3 DEF HangInv
  <2>5. ~Late(out)
    BY <1>9 DEF Late, ElemEnds
  <2>6. out'.off = out.rm
    <3>1. out'.off = out.rm % 4096
      BY <1>9 DEF ElemEnds
    <3> QED BY <3>1, NearSmall
  <2>7. out'.rm = 78 /\ "brind" \notin Modes(out') /\ SameStack(out, out')
    BY <1>1, <1>9 DEF ElemEnds, ElemStep
  <2>8. path'[k].tok = "HP" /\ path'[k].first = path[k].first
    BY <1>3, <1>4, <1>9 DEF Like
  <2>9. path[k].first \in {"fill", "nofill"}
    BY <1>4, <1>6, <2>1, <2>3 DEF HangInv
  <2>10. path[k].count \in 0..2
    BY <1>4 DEF NodeType
  <2>11. path[k].first = "nofill" => path[k].count # 0
    <3> SUFFICES ASSUME path[k].first = "nofill", path[k].count = 0 PROVE FALSE
      OBVIOUS
    <3>1. x.nofill
      BY <1>4, <1>6, <2>1 DEF Announced
    <3>2. x.nofill = TRUE
      <4>1. k + 1 \in 1..Len(path')
        BY <1>3, <1>4
      <4>2. x \in NodeType
        BY <1>2, <1>3, <4>1, SeqElem DEF PathOK
      <4> QED BY <3>1, <4>2 DEF NodeType
    <3>3. nf = TRUE
      BY <1>1, <1>2, <3>2
    <3>4. Hanging
      BY <1>4, <1>9, <2>1, <3>3 DEF Hanging
    <3> QED BY <1>1, <1>9, <3>4
  <2>12. path'[k].first = "nofill" => path'[k].count = 2
    BY <1>3, <2>8, <2>10, <2>11
  <2>13. path'[k].first = "fill" /\ path'[k].count = 1 => path'[k + 1].nofill = FALSE
    <3> HAVE path'[k].first = "fill" /\ path'[k].count = 1
    <3>1. path[k].count = 0
      BY <1>3, <2>10
    <3>2. ~x.nofill
      BY <1>4, <1>6, <2>1, <2>8, <3>1 DEF Announced
    <3>3. k + 1 \in 1..Len(path')
      BY <1>3, <1>4
    <3>4. x \in NodeType
      BY <1>2, <1>3, <3>3, SeqElem DEF PathOK
    <3> QED BY <1>3, <3>2, <3>4 DEF NodeType
  <2>14. Placed(path', out', k)
    <3>1. Early(out)
      BY <2>4, <2>5
    <3>2. path'[k].first \in {"fill", "nofill"}
      BY <2>8, <2>9
    <3>3. path'[k].first = "nofill" =>
             ~(path'[k].count = 0 \/ (path'[k].count = 1 /\ k < Len(path')))
      BY <2>12
    <3> QED BY <2>6, <2>7, <2>8, <2>13, <3>1, <3>2, <3>3, PlacedLate
  <2>15. \A i \in 1..Len(path') : Host(path', i) => i = k
    <3> SUFFICES ASSUME NEW i \in 1..Len(path'), Host(path', i) PROVE i = k
      OBVIOUS
    <3>1. path'[k].type = "body" /\ path'[k].tok # "UR" /\ k \in 1..Len(path')
      BY <1>3, <1>4, <2>1 DEF Like
    <3>2. k <= i
      <4>1. ~Through(path'[k])
        BY <3>1 DEF Through
      <4>2. Len(path') \in Nat
        BY <1>3, <1>4
      <4> QED BY <3>1, <4>1, <4>2, HostAbove
    <3>3. i # k + 1
      BY <1>1, <1>2, <1>3 DEF Host
    <3> QED BY <1>3, <1>4, <3>2, <3>3
  <2> QED BY <1>5, <2>14, <2>15 DEF PlaceInv
<1> QED BY <1>1, <1>7, <1>8, <1>9 DEF ElemStep

\* The field with an indentation after its first line is that of the paragraph.
LEMMA BreakHost ==
  ASSUME PathOK(path), FieldInv(path, out), "brind" \in Modes(out), Top.type # "block",
         NEW i, Host(path, i)
  PROVE  path[i].tok = "HP"
<1> DEFINE k == Len(path)
<1>1. Top = path[k] /\ k \in Nat /\ k >= 1 /\ i \in 1..k
  BY TopIs DEF Host
<1>2. "brind" \in FieldModes(out)
  BY DEF FieldModes
<1>3. PICK j \in 1..k : FieldOf(path, out, j)
  BY <1>2 DEF FieldInv, Closed
<1>4. Open(path, j) /\ "brind" \in Allowed(path[j].tok)
  BY <1>2, <1>3 DEF FieldOf
<1>5. path[j].tok \notin Items \cup {"SY"}
  BY <1>4 DEF Allowed, Items
<1>6. \/ path[j].type = "head" /\ path[j].tok \in Sections
      \/ path[j].type = "body" /\ path[j].tok = "HP"
  BY <1>1, <1>4, <1>5 DEF Open
<1>7. ~Through(path[j])
  BY <1>6 DEF Through, Sections
<1>8. j <= i
  BY <1>1, <1>3, <1>7, HostAbove
<1>9. CASE i = j
  BY <1>6, <1>9 DEF Host
<1>10. CASE i # j
  <2>1. j < i
    BY <1>1, <1>3, <1>8, <1>10
  <2>2. Inside(path[j], path[i])
    BY <1>1, <1>3, <2>1 DEF PathOK
  <2>3. path[i].type = "body" /\ path[i].tok # "UR"
    BY DEF Host
  <2> QED BY <1>6, <2>2, <2>3 DEF Inside, Hanged
<1> QED BY <1>9, <1>10

\* A break ends the first line of a hanged paragraph.
LEMMA PlaceBreak ==
  ASSUME PathOK(path), out \in TermType, PlaceInv(path, out), FieldInv(path, out),
         Top.type # "block", Top.type = "body" => Top.first # "none",
         NEW t, Seen(path, path', t), BreakEnds(out, out'), SameStack(out, out')
  PROVE  \A i \in 1..Len(path') : Host(path', i) => Placed(path', out', i)
<1> SUFFICES ASSUME NEW i \in 1..Len(path'), Host(path', i) PROVE Placed(path', out', i)
  OBVIOUS
<1>1. /\ Len(path) \in Nat /\ Len(path) >= 1 /\ Len(path') = Len(path) /\ Top = path[Len(path)]
      /\ \A j \in 1..Len(path) : /\ path'[j].tok = path[j].tok
                                 /\ path'[j].type = path[j].type
                                 /\ path'[j].first = path[j].first
                                 /\ path'[j].nofill = path[j].nofill
                                 /\ j < Len(path) => path'[j] = path[j]
  BY SeenIs
<1>2. Host(path, i) /\ i \in 1..Len(path) /\ i \in Nat
  BY SeenHost
<1>3. "brind" \in Modes(out) /\ out'.off = out.rm /\ out'.rm = 78 /\ "brind" \notin Modes(out')
  BY DEF BreakEnds
<1>4. path[i].tok = "HP"
  BY <1>2, <1>3, BreakHost
<1>5. HangInv(path, out, i)
  BY <1>2, <1>4 DEF PlaceInv, Placed, Items
<1>6. path[i].first # "none"
  <2> SUFFICES ASSUME path[i].first = "none" PROVE FALSE
    OBVIOUS
  <2>1. i = Len(path)
    BY <1>5 DEF HangInv
  <2> QED BY <1>1, <1>2, <2>1 DEF Host
<1>7. Early(out) /\ path[i].first = "fill"
      /\ (i < Len(path) /\ path[i].count = 1 => path[i + 1].nofill = FALSE)
  BY <1>3, <1>5, <1>6 DEF HangInv, Late
<1>8. path'[i].tok = "HP" /\ path'[i].first = "fill"
  BY <1>1, <1>2, <1>4, <1>7
<1>9. i < Len(path') /\ path'[i].count = 1 => path'[i + 1].nofill = FALSE
  <2> HAVE i < Len(path') /\ path'[i].count = 1
  <2>1. i < Len(path) /\ path[i].count = 1 /\ i + 1 \in 1..Len(path)
    BY <1>1, <1>2
  <2> QED BY <1>1, <1>7, <2>1
<1> QED BY <1>3, <1>7, <1>8, <1>9, PlacedLate

\* The first line in no-fill mode sticks out.
LEMMA PlaceSticks ==
  ASSUME PathOK(path), PlaceInv(path, out), NEW n, Fits(n), CanHaveMore,
         NEW t, Seen(path, path', t), Sticks(n, path'[Len(path)]),
         SameField(out, out'), SameStack(out, out'), out'.off = out.rm, out'.rm = 78
  PROVE  \A i \in 1..Len(path') : Host(path', i) => Placed(path', out', i)
<1> DEFINE k == Len(path)
<1> SUFFICES ASSUME NEW i \in 1..Len(path'), Host(path', i) PROVE Placed(path', out', i)
  OBVIOUS
<1>1. /\ k \in Nat /\ k >= 1 /\ Len(path') = k /\ Top = path[k] /\ path[k].count \in 0..2
      /\ path'[k].count = IF path[k].count < 2 THEN path[k].count + 1 ELSE 2
      /\ path'[k].tok = path[k].tok /\ path'[k].type = path[k].type
      /\ path'[k].first = path[k].first
  <2>1. k \in Nat /\ k >= 1
    BY SeenIs
  <2>2. k \in 1..k
    BY <2>1
  <2> QED BY <2>2, SeenIs
<1>2. Host(path, i) /\ i \in 1..k
  BY SeenHost
<1>3. path[k].tok = "HP" /\ path[k].type = "body" /\ path'[k].count = 1 /\ n.nofill = TRUE
  BY <1>1 DEF Sticks
<1>4. path[k].count = 0
  BY <1>1, <1>3
<1>5. Host(path, k) /\ Placed(path, out, k)
  BY <1>1, <1>3, TopPlaced
<1>6. i = k
  BY <1>1, <1>2, <1>5, OneHost
<1>7. HangInv(path, out, k)
  BY <1>3, <1>5 DEF Placed, Items
<1>8. path[k].first # "none" /\ Announced(path[k], n.nofill)
  BY <1>1, <1>3, FitsIs
<1>9. path[k].first \in {"fill", "nofill"}
  BY <1>7, <1>8 DEF HangInv
<1>10. path[k].first = "nofill"
  BY <1>3, <1>4, <1>8, <1>9 DEF Announced
<1>11. Early(out) /\ "brind" \notin Modes(out)
  BY <1>4, <1>7, <1>10 DEF HangInv
<1>12. "brind" \notin Modes(out')
  BY <1>11 DEF SameField
<1>13. Placed(path', out', k)
  <2>1. path'[k].tok = "HP" /\ path'[k].first = "nofill"
    BY <1>1, <1>3, <1>10
  <2>2. ~(path'[k].count = 0 \/ (path'[k].count = 1 /\ k < Len(path')))
    BY <1>1, <1>3
  <2> QED BY <1>11, <1>12, <2>1, <2>2, PlacedLate
<1> QED BY <1>6, <1>13

\* A leaf is printed.
LEMMA PlaceLeaf ==
  ASSUME PathOK(path), out \in TermType, Near(out), PlaceInv(path, out), FieldInv(path, out),
         CanHaveMore, NEW n, Fits(n), LeafShown(n)
  PROVE  PlaceInv(path', out')
<1>1. /\ Top.type \in {"elem", "head", "body"} /\ ~(Top.type = "head" /\ Top.tok \in Skipped)
      /\ LeafStep(out, out', n, path'[Len(path)])
      /\ PathOK(path') /\ Seen(path, path', "other")
  BY DEF LeafShown
<1>2. Top = path[Len(path)] /\ Len(path) \in 1..Len(path) /\ Len(path') = Len(path)
  <2>1. Len(path) \in Nat /\ Len(path) >= 1 /\ Top = path[Len(path)] /\ Len(path') = Len(path)
    BY <1>1, SeenIs
  <2> QED BY <2>1
<1>3. path'[Len(path)].tok = Top.tok /\ path'[Len(path)].type = Top.type
  BY <1>1, <1>2, SeenIs
<1>4. ~Ready(path'[Len(path')])
  BY <1>1, <1>2, <1>3 DEF Ready, Skipped
<1>5. Top.type = "body" => Top.first # "none"
  BY DEF CanHaveMore
<1>6. \/ ElemPlain(out, out') \/ BreakEnds(out, out')
      \/ Sticks(n, path'[Len(path)]) /\ SameField(out, out') /\ out'.off = out.rm % 4096
         /\ out'.rm = 78
  BY <1>1 DEF LeafStep
<1>7. SameStack(out, out')
  BY <1>1 DEF LeafStep
<1>8. CASE ElemPlain(out, out')
  <2>1. SameField(out, out') /\ SamePlace(out, out')
    BY <1>8 DEF ElemPlain
  <2>2. \A i \in 1..Len(path') : Host(path', i) => Placed(path', out', i)
    BY <1>1, <1>5, <1>7, <2>1, PlaceSeen
  <2> QED BY <1>4, <2>2 DEF PlaceInv
<1>9. CASE BreakEnds(out, out')
  <2>1. Top.type # "block"
    BY <1>1
  <2>2. \A i \in 1..Len(path') : Host(path', i) => Placed(path', out', i)
    BY <1>1, <1>5, <1>7, <1>9, <2>1, PlaceBreak
  <2> QED BY <1>4, <2>2 DEF PlaceInv
<1>10. CASE Sticks(n, path'[Len(path)]) /\ SameField(out, out') /\ out'.off = out.rm % 4096
            /\ out'.rm = 78
  <2>1. out'.off = out.rm
    BY <1>10, NearSmall
  <2>2. \A i \in 1..Len(path') : Host(path', i) => Placed(path', out', i)
    BY <1>1, <1>7, <1>10, <2>1, PlaceSticks
  <2> QED BY <1>4, <2>2 DEF PlaceInv
<1> QED BY <1>6, <1>8, <1>9, <1>10

-----------------------------------------------------------------------------
\* A block that is not UR is no place for text.
LEMMA NoHost ==
  ASSUME NEW r, Len(r) \in Nat, Len(r) >= 1, r[Len(r)].type \in {"block", "head", "root"},
         r[Len(r)].tok # "UR"
  PROVE  \A i \in 1..Len(r) : ~Host(r, i)
<1> SUFFICES ASSUME NEW i \in 1..Len(r), Host(r, i) PROVE FALSE
  OBVIOUS
<1>1. ~Through(r[Len(r)])
  BY DEF Through
<1>2. i = Len(r)
  BY <1>1, GrownHost
<1> QED BY <1>2 DEF Host

\* A head is left.
LEMMA PlaceHeadEnd ==
  ASSUME PathOK(path), PlaceInv(path, out), HeadEnds
  PROVE  PlaceInv(path', out')
<1> DEFINE a == path'[Len(path')]
<1>1. /\ Ends /\ HeadOut(out, out', Top) /\ Top.type = "head"
      /\ a.type = "block" /\ a.tok = Top.tok /\ a.count = 1
  BY DEF HeadEnds, PartEnds
<1>2. Len(path') \in Nat /\ Len(path') >= 1 /\ Top = path[Len(path)]
  BY <1>1, ShrunkIs
<1>3. HeadOutModes(out, out', Top) /\ HeadOutPlace(out, out', Top) /\ SameStack(out, out')
  BY <1>1 DEF HeadOut
<1>4. ASSUME Ready(a) PROVE out'.off = out'.offset
  <2>1. Top.tok = "HP"
    BY <1>1, <1>4 DEF Ready
  <2>2. Ready(path[Len(path)])
    BY <1>1, <1>2, <2>1 DEF Ready
  <2>3. SamePlace(out, out')
    BY <1>3, <2>1 DEF HeadOutPlace
  <2> QED BY <1>3, <2>2, <2>3 DEF PlaceInv, SamePlace, SameStack
<1>5. CASE Top.tok = "UR"
  <2>1. SameField(out, out') /\ SamePlace(out, out')
    BY <1>3, <1>5 DEF HeadOutModes, HeadOutPlace, Skipped
  <2>2. Through(Top)
    BY <1>5 DEF Through
  <2>3. \A i \in 1..Len(path') : Host(path', i) => Placed(path', out', i)
    BY <1>1, <1>3, <2>1, <2>2, PlaceShrunk
  <2> QED BY <1>4, <2>3 DEF PlaceInv
<1>6. CASE Top.tok # "UR"
  <2>1. \A i \in 1..Len(path') : ~Host(path', i)
    BY <1>1, <1>2, <1>6, NoHost
  <2> QED BY <1>4, <2>1 DEF PlaceInv
<1> QED BY <1>5, <1>6

\* Where the text was that ends with the body.
LEMMA BodyOff ==
  ASSUME PathOK(path), PlaceInv(path, out), BodyEnds, Small(out.offset), Small(out'.offset),
         Top.tok # "UR"
  PROVE  out'.off = out'.offset
<1>1. /\ BodyOut(out, out', Top) /\ Top.type = "body" /\ Top.tok \in BlockToks
  BY DEF BodyEnds, PartEnds
<1>2. BodyOutPlace(out, out', Top) /\ BodyOutStack(out, out', Top)
  BY <1>1 DEF BodyOut
<1>3. CASE Top.tok \in Items \cup {"SY", "HP"}
  <2>1. out'.off = out.offset % 4096
    BY <1>2, <1>3 DEF BodyOutPlace
  <2>2. out.offset % 4096 = out.offset
    BY ModIs
  <2>3. out'.offset = out.offset
    BY <1>2, <1>3 DEF BodyOutStack, SameStack, Items
  <2> QED BY <2>1, <2>2, <2>3
<1>4. CASE Top.tok = "RS"
  <2>1. out'.off = (out.offset - Top.aux) % 4096
    BY <1>2, <1>4 DEF BodyOutPlace
  <2>2. out'.offset = out.offset - Top.aux
    BY <1>2, <1>4 DEF BodyOutStack, Popped
  <2>3. out'.offset % 4096 = out'.offset
    BY ModIs
  <2> QED BY <2>1, <2>2, <2>3
<1>5. CASE Top.tok \in {"PP"} \cup Sections
  <2>1. out.off = out.offset
    BY <1>1, <1>5, TopPlain
  <2>2. SamePlace(out, out') /\ SameStack(out, out')
    BY <1>2, <1>5 DEF BodyOutPlace, BodyOutStack, Sections
  <2> QED BY <2>1, <2>2 DEF SamePlace, SameStack
<1> QED BY <1>1, <1>3, <1>4, <1>5 DEF BlockToks, Paragraphs

\* A body is left: the margins are back for the block around it (post_RS(), post_IP()).
LEMMA PlaceBodyEnd ==
  ASSUME PathOK(path), PlaceInv(path, out), BodyEnds, Small(out.offset), Small(out'.offset)
  PROVE  PlaceInv(path', out')
<1> DEFINE a == path'[Len(path')]
<1>1. /\ Ends /\ BodyOut(out, out', Top) /\ Top.type = "body"
      /\ a.type = "block" /\ a.tok = Top.tok
  BY DEF BodyEnds, PartEnds
<1>2. Len(path') \in Nat /\ Len(path') >= 1 /\ Top = path[Len(path)]
  BY <1>1, ShrunkIs
<1>3. CASE Top.tok = "UR"
  <2>1. BodyOutModes(out, out', Top) /\ BodyOutPlace(out, out', Top)
        /\ BodyOutStack(out, out', Top)
    BY <1>1 DEF BodyOut
  <2>2. SameField(out, out') /\ SamePlace(out, out') /\ SameStack(out, out')
    BY <1>3, <2>1 DEF BodyOutModes, BodyOutPlace, BodyOutStack
  <2>3. Through(Top)
    BY <1>3 DEF Through
  <2>4. \A i \in 1..Len(path') : Host(path', i) => Placed(path', out', i)
    BY <1>1, <2>2, <2>3, PlaceShrunk
  <2>5. ~Ready(a)
    BY <1>1, <1>3 DEF Ready
  <2> QED BY <2>4, <2>5 DEF PlaceInv
<1>4. CASE Top.tok # "UR"
  <2>1. \A i \in 1..Len(path') : ~Host(path', i)
    BY <1>1, <1>2, <1>4, NoHost
  <2>2. out'.off = out'.offset
    BY <1>4, BodyOff
  <2> QED BY <2>1, <2>2 DEF PlaceInv
<1> QED BY <1>3, <1>4

\* The first line in no-fill mode, an element or UR, sticks out.
LEMMA PlaceStuck ==
  ASSUME PathOK(path), PlaceInv(path, out), Ends, Through(Top),
         Sticks(Top, path[Len(path) - 1]), SameField(out, out'), SameStack(out, out'),
         out'.off = out.rm, out'.rm = 78
  PROVE  \A i \in 1..Len(path') : Host(path', i) => Placed(path', out', i)
<1> DEFINE k == Len(path')
<1> SUFFICES ASSUME NEW i \in 1..Len(path'), Host(path', i) PROVE Placed(path', out', i)
  OBVIOUS
<1>1. /\ k \in Nat /\ Len(path) \in Nat /\ k = Len(path) - 1 /\ k >= 1 /\ Top = path[Len(path)]
      /\ path'[k].tok = path[k].tok /\ path'[k].type = path[k].type
      /\ SameKind(path'[k], path[k])
  <2>1. k \in Nat /\ Len(path) \in Nat /\ k = Len(path) - 1 /\ k >= 1 /\ Top = path[Len(path)]
    BY ShrunkIs
  <2>2. k \in 1..Len(path')
    BY <2>1
  <2> QED BY <2>1, <2>2, ShrunkIs
<1>2. path[k].tok = "HP" /\ path[k].type = "body" /\ path[k].count = 1 /\ Top.nofill = TRUE
  BY <1>1 DEF Sticks
<1>3. Host(path, k)
  <2>1. \A j \in (k + 1)..Len(path) : j = Len(path)
    BY <1>1
  <2>2. k \in 1..Len(path)
    BY <1>1
  <2> QED BY <1>1, <1>2, <2>1, <2>2 DEF Host
<1>4. Host(path, i)
  BY ShrunkHost
<1>5. i = k
  BY <1>1, <1>3, <1>4, OneHost
<1>6. HangInv(path, out, k)
  <2>1. Placed(path, out, k)
    BY <1>1, <1>3 DEF PlaceInv, Host
  <2> QED BY <1>2, <2>1 DEF Placed, Items
<1>7. k # Len(path) /\ k < Len(path) /\ path[k + 1] = Top
  BY <1>1
<1>8. path[k].first \in {"fill", "nofill"} /\ path[k].first # "fill"
  BY <1>2, <1>6, <1>7 DEF HangInv
<1>9. Early(out) /\ "brind" \notin Modes(out)
  BY <1>2, <1>6, <1>7, <1>8 DEF HangInv
<1>10. "brind" \notin Modes(out')
  BY <1>9 DEF SameField
<1>11. Placed(path', out', k)
  <2>1. path'[k].tok = "HP" /\ path'[k].first = "nofill" /\ path'[k].count = 1
    BY <1>1, <1>2, <1>8 DEF SameKind
  <2>2. ~(path'[k].count = 0 \/ (path'[k].count = 1 /\ k < Len(path')))
    BY <1>1, <2>1
  <2> QED BY <1>9, <1>10, <2>1, <2>2, PlacedLate
<1> QED BY <1>5, <1>11

\* A block or an element is left.
LEMMA PlaceRestEnd ==
  ASSUME PathOK(path), PlaceInv(path, out), Near(out), RestEnds
  PROVE  PlaceInv(path', out')
<1> DEFINE a == path'[Len(path')]
           b == path[Len(path) - 1]
<1>1. /\ Ends /\ RestOut(out, out', Top, b)
      /\ \/ Top.type = "block" /\ Top.tok \in BlockToks /\ Top.count = 2 /\ Heir(a, Top.tok)
         \/ Top.type = "elem" /\ Top.tok \in Elements /\ a.type \in {"head", "body"}
            /\ ~(a.type = "head" /\ a.tok \in Skipped)
  BY DEF RestEnds
<1>2. Len(path') \in Nat /\ Len(path') >= 1 /\ Top = path[Len(path)] /\ a.tok = b.tok
  <2>1. Len(path') \in Nat /\ Len(path') >= 1 /\ Top = path[Len(path)]
        /\ Len(path') = Len(path) - 1
    BY <1>1, ShrunkIs
  <2>2. Len(path') \in 1..Len(path')
    BY <2>1
  <2> QED BY <1>1, <2>1, <2>2, ShrunkIs
<1>3. /\ SameStack(out, out') /\ SameField(out, out')
      /\ SamePlace(out, out') \/ (Sticks(Top, b) /\ out'.off = out.rm % 4096 /\ out'.rm = 78)
  BY <1>1 DEF RestOut
<1>4. ~Ready(a)
  BY <1>1 DEF Ready, Heir, Skipped
<1>5. CASE Through(Top)
  <2>1. CASE SamePlace(out, out')
    <3>1. \A i \in 1..Len(path') : Host(path', i) => Placed(path', out', i)
      BY <1>1, <1>3, <1>5, <2>1, PlaceShrunk
    <3> QED BY <1>4, <3>1 DEF PlaceInv
  <2>2. CASE Sticks(Top, b) /\ out'.off = out.rm % 4096 /\ out'.rm = 78
    <3>1. out'.off = out.rm
      BY <2>2, NearSmall
    <3>2. \A i \in 1..Len(path') : Host(path', i) => Placed(path', out', i)
      BY <1>1, <1>3, <1>5, <2>2, <3>1, PlaceStuck
    <3> QED BY <1>4, <3>2 DEF PlaceInv
  <2> QED BY <1>3, <2>1, <2>2
<1>6. CASE ~Through(Top)
  <2>1. Top.type = "block" /\ Top.count = 2 /\ Heir(a, Top.tok) /\ Top.tok # "UR"
        /\ Top.tok \in BlockToks
    BY <1>1, <1>6 DEF Through
  <2>2. a.type = "root" \/ (a.type = "body" /\ a.tok \in {"PP", "RS"} \cup Sections)
    BY <2>1 DEF Heir, Sections
  <2>3. out.off = out.offset
    <3>1. Ready(path[Len(path)])
      BY <1>2, <2>1 DEF Ready
    <3> QED BY <3>1 DEF PlaceInv
  <2>4. ASSUME NEW i \in 1..Len(path'), Host(path', i) PROVE Placed(path', out', i)
    <3>1. Len(path') \in 1..Len(path') /\ i \in 1..Len(path')
      BY <1>2
    <3>2. ~Through(a)
      <4>1. CASE a.type = "root"
        <5>1. Good(a)
          BY <1>1, <3>1 DEF Ends, PathOK
        <5> QED BY <4>1, <5>1 DEF Through, Good
      <4>2. CASE a.type = "body" /\ a.tok \in {"PP", "RS"} \cup Sections
        BY <4>2 DEF Through, Sections
      <4> QED BY <2>2, <4>1, <4>2
    <3>3. i = Len(path')
      BY <1>2, <2>4, <3>2, GrownHost
    <3>4. a.type = "body" /\ a.tok \in {"PP", "RS"} \cup Sections
      BY <2>2, <2>4, <3>3 DEF Host
    <3>5. SamePlace(out, out')
      <4>1. b.tok # "HP"
        BY <1>2, <3>4 DEF Sections
      <4> QED BY <1>3, <4>1 DEF Sticks
    <3>6. out'.off = out'.offset
      BY <1>3, <2>3, <3>5 DEF SamePlace, SameStack
    <3>7. path'[i].tok \notin Items \cup {"SY"} /\ path'[i].tok # "HP"
      BY <3>3, <3>4 DEF Items, Sections
    <3> QED BY <3>6, <3>7 DEF Placed
  <2> QED BY <1>4, <2>4 DEF PlaceInv
<1> QED BY <1>5, <1>6

\* The last part of Margins survives every step of the walk, if no .in moves the margins.
LEMMA PlaceStep ==
  ASSUME menu \in Menus, menu' = menu, nf \in BOOLEAN, PathOK(path), out \in TermType,
         SumInv(path, out), Steady, Near(out), FieldInv(path, out), PlaceInv(path, out),
         "in" \notin menu.has, PathOK(path'), out' \in TermType, SumInv(path', out'), Walks
  PROVE  PlaceInv(path', out')
<1>1. Small(out.offset) /\ Small(out'.offset)
  <2>1. Len(path) \in Nat /\ Len(path') \in Nat
    BY DEF PathOK
  <2>2. Room(out) /\ Room(out')
    BY <2>1, RoomIs
  <2> QED BY <2>2, RoomSmall
<1>2. ASSUME CanHaveMore, NEW n, NEW x, Fits(n), BlockStarts(n, x) PROVE PlaceInv(path', out')
  BY <1>2, PlaceBlock
<1>3. ASSUME NEW n, NEW x, HeadStarts(n, x) PROVE PlaceInv(path', out')
  BY <1>3, PlaceHead
<1>4. ASSUME NEW n, NEW x, BodyStarts(n, x) PROVE PlaceInv(path', out')
  BY <1>1, <1>4, PlaceBody
<1>5. ASSUME CanHaveMore, NEW n, NEW x, Fits(n), ElemStarts(n, x) PROVE PlaceInv(path', out')
  BY <1>5, PlaceElem
<1>6. ASSUME CanHaveMore, NEW n, Fits(n), LeafShown(n) PROVE PlaceInv(path', out')
  BY <1>6, PlaceLeaf
<1>7. CASE HeadEnds
  BY <1>7, PlaceHeadEnd
<1>8. CASE BodyEnds
  BY <1>1, <1>8, PlaceBodyEnd
<1>9. CASE RestEnds
  BY <1>9, PlaceRestEnd
<1> QED BY <1>2, <1>3, <1>4, <1>5, <1>6, <1>7, <1>8, <1>9 DEF Walks

\* terminal_man() starts with the margins of the page.
LEMMA PlaceInit ==
  ASSUME Init, fmt = "term"
  PROVE  Near(out) /\ PlaceInv(path, out)
<1>1. PathOK(path) /\ Len(path) = 1 /\ path[1].type = "root"
  BY RootIs
<1>2. Good(path[1])
  BY <1>1 DEF PathOK
<1>3. path[1].tok = "root"
  BY <1>1, <1>2 DEF Good
<1>7. Len(path) \in Nat /\ Len(path) >= 1 /\ path[Len(path)].type = "root" /\ path[Len(path)].tok # "UR"
  BY <1>1, <1>3
<1>4. \A i \in 1..Len(path) : ~Host(path, i)
  BY <1>1, <1>7, NoHost
<1>5. ~Ready(path[Len(path)])
  BY <1>1, <1>3 DEF Ready
<1>6. Near(out)
  BY DEF Init, Term!man_begin, Term!MaxMargin, Term!DefIndent, Near, Small
<1> QED BY <1>4, <1>5, <1>6 DEF PlaceInv

-----------------------------------------------------------------------------
\* Margins without its names: the sums exist, and in a Steady state what follows from them.
MarginsInv ==
  fmt = "term" =>
    /\ SumInv(path, out)
    /\ Steady => Near(out) /\ ("in" \notin menu.has => PlaceInv(path, out))

\* The sums that SumInv speaks of are the indentation in each node of the path.
LEMMA IndentationIs ==
  ASSUME NEW p, Len(p) \in Nat, NEW t, NEW h, Totals(p, t, h)
  PROVE  Indentation(p)[Len(p)] = t[Len(p)]
<1> DEFINE k == Len(p)
           F(s) == [i \in 0..k |-> IF i = 0 THEN Term!DefIndent ELSE s[i - 1] + p[i].aux]
           b == [i \in 0..k |-> t[i]]
           sum == Indentation(p)
<1>1. sum = CHOOSE s : s = F(s)
  BY DEF Indentation
<1>2. /\ t[0] = Term!DefIndent
      /\ \A i \in 1..k : t[i] = t[i - 1] + p[i].aux
  BY DEF Totals, Term!DefIndent
<1>3. b = F(b)
  <2>1. ASSUME NEW i \in 0..k PROVE b[i] = F(b)[i]
    <3>1. CASE i = 0
      BY <3>1, <1>2
    <3>2. CASE i # 0
      <4>1. i \in 1..k /\ i - 1 \in 0..k
        BY <3>2
      <4> QED BY <4>1, <1>2, <3>2
    <3> QED BY <3>1, <3>2
  <2> QED BY <2>1
<1>4. sum = F(sum)
  <2>1. \E s : s = F(s)
    BY <1>3
  <2> HIDE DEF F
  <2> QED BY <1>1, <2>1
<1>5. /\ sum[0] = Term!DefIndent
      /\ \A i \in 1..k : sum[i] = sum[i - 1] + p[i].aux
  <2> HIDE DEF sum
  <2> QED BY <1>4
<1> HIDE DEF sum
<1> DEFINE S == {n \in Nat : n <= k => sum[n] = t[n]}
<1>6. 0 \in S
  BY <1>2, <1>5
<1>7. ASSUME NEW n \in Nat, n \in S PROVE n + 1 \in S
  <2>1. CASE n + 1 <= k
    <3>1. n + 1 \in 1..k /\ (n + 1) - 1 = n /\ n <= k
      BY <2>1
    <3> QED BY <3>1, <1>2, <1>5, <1>7
  <2>2. CASE ~(n + 1 <= k)
    BY <2>2
  <2> QED BY <2>1, <2>2
<1>8. Nat \subseteq S
  <2> HIDE DEF S
  <2> QED BY <1>6, <1>7, NatSet
<1>9. k \in S
  BY <1>8
<1> QED BY <1>9 DEF sum

\* It holds at the start.
LEMMA MarginsInit ==
  ASSUME Init
  PROVE  MarginsInv
<1> SUFFICES ASSUME fmt = "term" PROVE MarginsInv
  BY DEF MarginsInv
<1>1. SumInv(path, out)
  BY SumInit
<1>2. Near(out) /\ PlaceInv(path, out)
  BY PlaceInit
<1> QED BY <1>1, <1>2 DEF MarginsInv

\* The menu does not change, so that the invariant can speak of the one before the step.
LEMMA SumNext ==
  ASSUME menu' = menu, SumInv(path', out')
  PROVE  SumInv(path, out)'
<1>1. PICK t, h : Sums(path', t, h) /\ Stack(out', t, h, Len(path'))
  BY DEF SumInv
<1>2. Most(menu)' = Most(menu)
  OBVIOUS
<1>3. Bounded(Len(path'), t, h) => Bounded(Len(path), t, h)'
  BY <1>2 DEF Bounded
<1>4. ASSUME NEW n, NEW z PROVE Placeable(n, z)' <=> Placeable(n, z)
  BY DEF Placeable
<1>5. Sums(path, t, h)'
  BY <1>1, <1>3, <1>4 DEF Sums
<1>6. Stack(out, t, h, Len(path))'
  BY <1>1, <1>2 DEF Stack, Fit
<1> QED BY <1>5, <1>6 DEF SumInv

\* No step breaks it.
LEMMA MarginsStep ==
  ASSUME TermInv, FieldsInv, MarginsInv, [Next]_vars
  PROVE  MarginsInv'
<1>1. CASE UNCHANGED vars
  <2>1. fmt' = fmt /\ path' = path /\ out' = out /\ menu' = menu
    BY <1>1 DEF vars
  <2> SUFFICES ASSUME fmt' = "term" PROVE MarginsInv'
    BY DEF MarginsInv
  <2>2. SumInv(path, out) /\ (Steady => Near(out) /\ ("in" \notin menu.has => PlaceInv(path, out)))
    BY <2>1 DEF MarginsInv
  <2>3. SumInv(path, out)'
    BY <2>1, <2>2, SumNext
  <2>4. /\ Near(out)' <=> Near(out)
        /\ PlaceInv(path, out)' <=> PlaceInv(path, out)
        /\ Steady' <=> Steady
    <3>1. Near(out)' <=> Near(out)
      BY <2>1
    <3>2. PlaceInv(path, out)' <=> PlaceInv(path, out)
      BY <2>1
    <3>3. Steady' <=> Steady
      BY <2>1 DEF Steady
    <3> QED BY <3>1, <3>2, <3>3
  <2> QED BY <2>1, <2>2, <2>3, <2>4 DEF MarginsInv
<1>2. CASE Next
  <2>1. nf \in BOOLEAN /\ fmt' = fmt
    BY <1>2, StepKeeps DEF TermInv
  <2> SUFFICES ASSUME fmt = "term" PROVE MarginsInv'
    BY <2>1 DEF MarginsInv
  <2>2. Walks /\ menu' = menu
    BY <1>2, WalkIs
  <2>3. PathOK(path') /\ out' \in TermType
    BY <2>2, WalkKeeps
  <2>4. menu \in Menus /\ PathOK(path) /\ out \in TermType
    BY DEF TermInv
  <2>5. SumInv(path, out) /\ (Steady => Near(out) /\ ("in" \notin menu.has => PlaceInv(path, out)))
    BY DEF MarginsInv
  <2>6. FieldInv(path, out)
    BY DEF FieldsInv
  <2>7. SumInv(path', out')
    BY <2>2, <2>5, SumStep
  <2>8. Steady' <=> Steady
    BY <2>2 DEF Steady
  <2>9. ASSUME Steady PROVE Near(out')
    BY <2>2, <2>3, <2>4, <2>5, <2>7, <2>9, NearStep
  <2>10. ASSUME Steady, "in" \notin menu.has PROVE PlaceInv(path', out')
    BY <2>1, <2>2, <2>3, <2>4, <2>5, <2>6, <2>7, <2>10, PlaceStep
  <2>11. SumInv(path, out)'
    BY <2>2, <2>7, SumNext
  <2> QED BY <2>2, <2>8, <2>9, <2>10, <2>11 DEF MarginsInv
<1> QED BY <1>1, <1>2

\* Where the text of a body starts.
LEMMA PlacedIs ==
  ASSUME PathOK(path), out \in TermType, Small(out.off), PlaceInv(path, out), Top.type = "body"
  PROVE  out.off \in CASE Top.tok \in Items \cup {"SY"} -> {out.offset + out.lmargin[out.cur]}
                       [] Top.tok = "HP" -> {out.offset, out.offset + out.lmargin[out.cur]}
                       [] Top.tok = "UR" -> Nat
                       [] OTHER -> {out.offset}
<1> DEFINE P == Placed(path, out, Len(path))
           w == out.offset + out.lmargin[out.cur]
<1>1. Top = path[Len(path)]
  BY DEF Top
<1>2. Top.tok # "UR" => P
  BY TopPlaced
<1>3. CASE Top.tok \in Items \cup {"SY"}
  <2>1. Top.tok # "HP" /\ Top.tok # "UR"
    BY <1>3 DEF Items
  <2>2. out.off = w
    BY <1>1, <1>2, <1>3, <2>1 DEF Placed, Items
  <2> QED BY <1>3, <2>1, <2>2
<1>4. CASE Top.tok = "HP"
  <2>1. ~(Top.tok \in Items \cup {"SY"}) /\ Top.tok # "UR"
    BY <1>4 DEF Items
  <2>2. HangInv(path, out, Len(path))
    BY <1>1, <1>2, <1>4, <2>1 DEF Placed, Items
  <2>3. out.off \in {out.offset, w}
    BY <2>2 DEF HangInv, Early, Late
  <2> QED BY <1>4, <2>1, <2>3
<1>5. CASE Top.tok = "UR"
  <2>1. ~(Top.tok \in Items \cup {"SY"}) /\ Top.tok # "HP"
    BY <1>5 DEF Items
  <2>2. out.off \in Nat
    BY DEF Small
  <2> QED BY <1>5, <2>1, <2>2
<1>6. CASE ~(Top.tok \in Items \cup {"SY"}) /\ Top.tok # "HP" /\ Top.tok # "UR"
  <2>1. out.off = out.offset
    BY <1>1, <1>2, <1>6 DEF Placed, Items
  <2> QED BY <1>6, <2>1
<1> QED BY <1>3, <1>4, <1>5, <1>6

\* The property follows.
LEMMA MarginsIs ==
  ASSUME TermInv, MarginsInv
  PROVE  Margins
<1> SUFFICES ASSUME fmt = "term" PROVE Margins
  BY DEF Margins
<1>1. menu \in Menus /\ PathOK(path) /\ out \in TermType /\ out.sz = Cardinality(Nested(path))
  BY DEF TermInv
<1>2. SumInv(path, out) /\ (Steady => Near(out) /\ ("in" \notin menu.has => PlaceInv(path, out)))
  BY DEF MarginsInv
<1>3. Len(path) \in Nat
  BY <1>1 DEF PathOK
<1>4. PICK t, h : Sums(path, t, h) /\ Stack(out, t, h, Len(path))
  BY <1>2 DEF SumInv
<1>5. out.offset = Indentation(path)[Len(path)]
  BY <1>3, <1>4, IndentationIs DEF Sums, Stack
<1>6. Room(out)
  BY <1>1, <1>2, <1>3, RoomIs
<1>7. out.offset \in Nat
  BY <1>6 DEF Room
<1>8. out.sz = Cardinality(Indented)
  BY <1>1 DEF Nested, Indented
<1>9. out.cur = Cap(out.sz)
  BY <1>4 DEF Stack
<1>10. out.cur \in 0..(MaxMargins - 1)
  BY <1>1 DEF TermType
<1>11. ASSUME Steady PROVE out.lmargin[out.cur] >= -out.offset
  <2>1. out.lmargin[out.cur] \in Int
    BY <1>1, <1>10 DEF TermType
  <2> QED BY <1>6, <1>7, <1>10, <1>11, <2>1 DEF Room, Steady
<1>12. ASSUME Steady PROVE Small(out.off) /\ Small(out.rm) /\ out.off < Term!ShrtMax /\ out.rm < Term!ShrtMax
  BY <1>2, <1>12 DEF Near, Small, Term!ShrtMax
<1>13. ASSUME Steady, Top.type = "body", "in" \notin menu.has
       PROVE  out.off \in CASE Top.tok \in Items \cup {"SY"} -> {out.offset + out.lmargin[out.cur]}
                       [] Top.tok = "HP" -> {out.offset, out.offset + out.lmargin[out.cur]}
                       [] Top.tok = "UR" -> Nat
                       [] OTHER -> {out.offset}
  BY <1>1, <1>2, <1>12, <1>13, PlacedIs
<1>14. out.offset >= 0 /\ out.cur = IF out.sz < MaxMargins THEN out.sz ELSE MaxMargins - 1
  BY <1>7, <1>9 DEF Cap
<1> QED BY <1>5, <1>8, <1>11, <1>12, <1>13, <1>14 DEF Margins

\* The invariant of the walk over a tree of any depth.
THEOREM WalkInvariant == Spec => [](TermInv /\ FieldsInv /\ LinesInv)
<1>1. Init => TermInv /\ FieldsInv /\ LinesInv
  BY InitHolds
<1>2. TermInv /\ FieldsInv /\ LinesInv /\ [Next]_vars => (TermInv /\ FieldsInv /\ LinesInv)'
  BY StepHolds
<1> QED BY <1>1, <1>2, PTL DEF Spec

\* The path is always one of a tree man_macro.c can build, the output has its type, and
\* mt->lmarginsz is the number of RS bodies around the node: pre_RS() and post_RS() pair.
THEOREM TypesOK == Spec => []TermInv
BY WalkInvariant, PTL

\* What the handlers set for a field, TERMP_NOBREAK, TERMP_BRIND, TERMP_BRTRSP and
\* p->trailspace, is on only in a head that is printed in a field of its own, before the
\* body of its block and in .HP, and bold italic only in a section header: every way out
\* of a field ends it, at any depth.
THEOREM FieldsEnd == Spec => []Fields
<1>1. Spec => [](TermInv /\ FieldsInv /\ LinesInv)
  BY WalkInvariant
<1>2. FieldsInv => Fields
  <2> SUFFICES ASSUME FieldsInv, fmt = "term" PROVE Fields
    BY DEF Fields
  <2> DEFINE InField(T) == {i \in 1..Len(path) : path[i].tok \in T /\
                           (path[i].type = "head" \/ (i = Len(path) /\ path[i].type = "block"))}
             hang == {i \in 1..Len(path) : path[i].tok = "HP" /\ path[i].type = "body"}
  <2>1. ASSUME out.fl \cap Term!ItemFlags # {} \/ out.trail # 0 PROVE
        InField(Items \cup {"SY"} \cup Sections) \cup hang # {}
    <3>1. ~Closed(out)
      BY <2>1 DEF Closed, FieldModes, Modes, Term!ItemFlags
    <3>2. PICK i \in 1..Len(path) : FieldOf(path, out, i)
      BY <3>1 DEF FieldsInv, FieldInv
    <3> QED BY <3>2 DEF FieldOf, Open, Items
  <2>2. ASSUME "ibi" \in out.fl PROVE
        InField(Sections) # {}
    <3>1. "ibi" \in Modes(out)
      BY <2>2 DEF Modes
    <3> QED BY <3>1 DEF FieldsInv, FontInv
  <2> QED BY <2>1, <2>2 DEF Fields
<1> QED BY <1>1, <1>2, PTL

\* The handlers move the margins on an empty line only, unless a page has both .PD, which
\* can take the vertical space away that ends a line, and .SS, which relies on it.
THEOREM LinesEnd == Spec => []LinesWhole
<1>1. Spec => [](TermInv /\ FieldsInv /\ LinesInv)
  BY WalkInvariant
<1>2. LinesInv => LinesWhole
  BY DEF LinesInv, LineInv, LinesWhole
<1> QED BY <1>1, <1>2, PTL

\* The indentation is the sum of what the open RS bodies added, the stack of widths is where
\* it was when the block started, also beyond MAXMARGINS, text starts where the innermost
\* body has it, and no margin wraps around: pre_RS(), post_RS() and the handlers of the
\* paragraphs undo what they did, in trees of any depth.
THEOREM MarginsHold == Spec => []Margins
<1>1. Init => TermInv /\ FieldsInv /\ LinesInv /\ MarginsInv
  BY InitHolds, MarginsInit
<1>2. TermInv /\ FieldsInv /\ LinesInv /\ MarginsInv /\ [Next]_vars
        => (TermInv /\ FieldsInv /\ LinesInv /\ MarginsInv)'
  BY StepHolds, MarginsStep
<1>3. TermInv /\ MarginsInv => Margins
  BY MarginsIs
<1> QED BY <1>1, <1>2, <1>3, PTL DEF Spec
============================================================================
