--------------------------- MODULE MdocDocument ---------------------------
(***************************************************************************)
(* The syntax tree of an mdoc(7) document as the formatters meet it.  All *)
(* of them walk the tree in the same order: print_mdoc_node() handles a   *)
(* node, then its children, then the node again.  A document is not laid  *)
(* out in advance: what comes next is chosen when the walk gets there, so *)
(* the documents may be of any length, and only the depth is bounded.     *)
(*                                                                         *)
(* path is the chain of nodes that are being visited.  A node has          *)
(*   tok, type, at   macro, kind of node, and argument (list, display or   *)
(*                   section type; items have the type of their list)      *)
(*   wd              <<offset, width>> of a list or display in characters, *)
(*                   0 if not given; items have that of their list         *)
(*   nofill, line    NODE_NOFILL and NODE_LINE                             *)
(*   sec, syn        section it is in, and NODE_SYNPRETTY                  *)
(*   mark            not 0 in an end marker: the position in path of the   *)
(*                   body that it ends, n->body                            *)
(*   href            NODE_ID and NODE_HREF: the target of a link to itself *)
(*   kids            "none", "text" (text only) or "any": its children     *)
(*   full            in blocks and heads: the body is not empty            *)
(*   more            another node follows it                               *)
(* and while it is visited                                                 *)
(*   part, prev      number of parts visited, tok of the last child        *)
(*   last            fill mode after the last child, "none" without one    *)
(*   then            what may follow: "any", "rows" (of the same table),   *)
(*                   "more" (at least one node) or "end"                   *)
(*   skip            the handler returned 0: children are not visited      *)
(*   ended           NODE_ENDED                                            *)
(*   over            the end of its body was marked: after the child that  *)
(*                   contains the mark, nothing follows                    *)
(*   sv              what the formatter remembers for the node             *)
(***************************************************************************)
EXTENDS Integers, Sequences, FiniteSets, SequencesExt

CONSTANTS Menus,       \* kinds of documents: has is the set of macros, requests,
                       \* arguments and node kinds that occur together, depth
                       \* the bound on the length of path
          Widths,      \* <<offset, width>> of lists and displays
          Marked       \* blocks that may be closed while another is open inside

ASSUME DocAssumption == \A m \in Menus : m.depth \in Nat

VARIABLES menu,        \* what occurs in this document, a member of Menus
          path,        \* nodes being visited, outermost first
          nf           \* ROFF_NOFILL, the fill mode of the parser

\* Whether the fill mode also changes inside blocks other than sections and
\* displays, and what cannot be in no-fill text follows it.
Refill == "refill" \in menu.has

\* Macros by the shape of their part of the tree.
Sections == {"Sh", "Ss"}
FullExplicit == {"Bd", "Bl", "Bf", "Bk"}
PartExplicit == {"Oo", "Eo", "Xo", "Fo", "Rs"}
PartImplicit == {"Ql", "Op", "D1", "Dl"}
Explicit == FullExplicit \cup PartExplicit
Blocks == Sections \cup Explicit \cup PartImplicit \cup {"It", "Nd", "Nm"}
Requests == {"nf", "fi", "br", "sp", "ft", "ce"}
Quotes == {"Oo", "Op", "Ql"}

Node(tok, type, at, nofill) ==
    [tok |-> tok, type |-> type, at |-> at, wd |-> <<0, 0>>, nofill |-> nofill,
     line |-> FALSE, sec |-> "none", syn |-> FALSE, mark |-> 0, href |-> FALSE, kids |-> "any",
     full |-> TRUE, more |-> FALSE, part |-> 0, prev |-> "none", last |-> "none", then |-> "any",
     skip |-> FALSE, ended |-> FALSE, over |-> FALSE, sv |-> <<>>]

Top == path[Len(path)]
Within(tok, type) == \E i \in 1..Len(path) : path[i].tok = tok /\ path[i].type = type
Section == IF Len(path) > 1 THEN path[2].at ELSE "none"   \* n->sec

\* The input line of a partial implicit block or of a head goes on: only
\* callable macros follow, and nothing that starts a line.
OnLine ==
    \/ Top.type \in {"head", "elem"}
    \/ \E i \in 1..Len(path) :
          path[i].tok \in PartImplicit /\ path[i].type = "body" /\ ~path[i].over
Callable == {"Oo", "Eo", "Xo", "Fo", "Op", "Ql"}

\* roff_node_alloc(): a node gets the flags of the parser.
Alloc(tok, type, at) ==
    LET sec == IF tok = "Sh" THEN at ELSE Section
    IN [Node(tok, type, at, nf) EXCEPT !.sec = sec, !.syn = sec = "SYNOPSIS", !.line = ~OnLine]

\* The parts of a block in their order.  The items of a column list have one
\* body for each column.
Parts(n) ==
    IF n.tok = "It" /\ n.at = "column" THEN <<"head", "body", "body">>
    ELSE IF n.tok = "Eo" THEN <<"head", "body", "tail">>
    ELSE <<"head", "body">>

Lists == {"bullet", "tag", "column", "diag"}
Displays == {"filled", "literal", "centered"}
Titles == {"SYNOPSIS", "SEE ALSO", "AUTHORS", "other"}

\* Attributes that a macro may have.
Arguments(tok) ==
    CASE tok = "Bl" -> Lists \cap menu.has
      [] tok = "Bd" -> {d \in Displays \cap menu.has : d # "literal" /\ nf => Refill}
      [] tok = "Sh" -> Titles \cap menu.has
      [] tok = "Nm" -> {"", "words"} \cap ({""} \cup menu.has)
      [] OTHER -> {""}
\* post_bl_norm(): the default width of a list, and lists without one.
post_bl_norm(at, w) ==
    IF at \in {"column", "diag"} THEN <<w[1], 0>>
    ELSE IF at = "bullet" /\ w[2] = 0 THEN <<w[1], 2>> ELSE w
Sizes(tok) == IF tok \in {"Bl", "Bd"} THEN Widths ELSE {<<0, 0>>}

HeadWords == {"Sh", "Ss", "It", "Nm", "Fo", "Eo"}   \* heads that hold text

\* The blocks that may follow inside a node.  Sections close everything else;
\* a list holds items only; the head of an item may hold Xo.
ChildBlocks(n) ==
    CASE n.type = "root" -> {"Sh"}
      [] n.type = "body" /\ n.tok = "Bl" -> {"It"}
      [] n.type = "head" /\ n.tok = "It" /\ n.at \notin {"bullet", "column"} -> {"Xo"}
      [] n.type # "body" \/ n.tok \in {"Rs", "Fo", "Nd"} -> {}
      [] OnLine \/ n.tok = "Nm" -> Callable
      [] n.tok = "Sh" -> Blocks \ ({"Sh", "It"} \cup (IF n.syn THEN {} ELSE {"Nm"})
                                   \cup (IF nf /\ ~Refill THEN {"Ss"} ELSE {}))
      [] OTHER -> Blocks \ (Sections \cup {"It", "Nm", "Nd"})

ChildElems(n) ==
    CASE n.type # "body" \/ n.tok = "Bl" -> {}
      [] n.tok = "Rs" -> {"%T"}
      [] n.tok = "Fo" -> {"Fa"}
      [] OnLine -> {"Em", "Fa", "Fn", "Xr", "An"}
      [] OTHER -> {"Em", "Fa", "Fn", "Xr", "An", "Pp", "Sm"} \cup
                  (IF Refill \/ n.tok \in Sections \cup {"Bd"} THEN Requests
                   ELSE Requests \ {"nf", "fi"})

(***************************************************************************)
(* The nodes that may be visited next below the node Top.                  *)
(***************************************************************************)
NextParts ==
    IF Top.type # "block" \/ Top.part >= Len(Parts(Top)) THEN {}
    ELSE LET type == Parts(Top)[Top.part + 1]
         IN {[Alloc(Top.tok, type, Top.at) EXCEPT
                 !.line = FALSE, !.wd = Top.wd, !.full = Top.full,
                 !.href = Top.tok \in Sections /\ type = "head",
                 !.more = Top.more \/ (type = "body" /\ Top.part + 1 < Len(Parts(Top))),
                 !.nofill = @ /\ ~(Top.tok = "Ss" /\ type = "head"),
                 !.kids = IF type = "head"
                          THEN IF Top.tok \in HeadWords THEN "any" ELSE "none"
                          ELSE IF Top.full THEN "any" ELSE "none"]}

NextBlocks ==
    UNION {{[Alloc(tok, "block", IF tok = "It" THEN Top.at ELSE a) EXCEPT
                 !.wd = IF tok = "It" THEN Top.wd ELSE post_bl_norm(a, w),
                 !.nofill = @ /\ tok \notin Sections,
                 !.full = f, !.more = m] :
              a \in Arguments(tok), w \in Sizes(tok),
              f \in IF tok \in {"It", "Nm", "Eo", "Bd", "Bl"} THEN BOOLEAN ELSE {TRUE},
              m \in IF tok \in {"Bd", "Bl", "D1", "Dl"} THEN BOOLEAN ELSE {FALSE}} :
             tok \in ChildBlocks(Top) \cap menu.has}

NextElems ==
    UNION {{[Alloc(tok, "elem", a) EXCEPT
               !.href = r,
               !.kids = IF tok \in {"Em", "Fa", "Fn", "Xr", "%T"} \/ (tok = "An" /\ a = "")
                        THEN "text" ELSE "none"] :
               a \in IF tok = "An" THEN {"", "split", "nosplit"} ELSE {""},
               r \in IF tok = "Em" THEN BOOLEAN ELSE {FALSE}} :
             tok \in ChildElems(Top) \cap menu.has}

\* Text, and in a body also equations and tables.
NextText ==
    IF Top.type \notin {"body", "head", "elem", "tail"} \/ Top.tok = "Bl" \/ Within("Rs", "body")
    THEN {}
    ELSE {Alloc("text", "text", "")}
         \cup IF Top.type # "body" \/ OnLine THEN {}
              ELSE {[Alloc(k, k, "") EXCEPT !.nofill = @ /\ k # "tbl"] :
                      k \in ({"eqn"} \cup IF nf /\ ~Refill THEN {} ELSE {"tbl"}) \cap menu.has}

\* The end of an enclosing body, marked inside the innermost explicit block, or
\* in an item of that block.  Only Oc and Fc may come in the middle of a line.
\* Partial implicit blocks end with their input line, the inner ones first.
\* The end of a list ends the item it is in; lists that end in the head of an
\* item are left out, and so are those that end in a column but the last.
NextMarks ==
    IF \/ Top.type = "body" /\ Top.tok \in Explicit \ {"Bl"}
       \/ Top.tok = "It" /\ Top.type \in {"head", "body"} /\ Top.kids # "none"
    THEN
         {[Alloc(path[i].tok, "body", path[i].at) EXCEPT
             !.mark = i, !.kids = "none", !.wd = path[i].wd] :
            i \in {j \in 1..(Len(path) - 1) :
                     /\ path[j].type = "body" /\ ~path[j].over
                     /\ path[j].tok \in Marked
                     /\ OnLine => path[j].tok \in {"Oo", "Fo"} \cup PartImplicit
                     /\ \E k \in (j + 1)..Len(path) :
                           path[k].type = "block" /\ path[k].tok \notin {"It", "Nm", "Nd"}
                     /\ path[j].tok = "Bl" => path[j + 2].type = "body" /\ ~path[j + 2].more
                     /\ \A k \in (j + 1)..Len(path) :
                           /\ path[k].tok # path[j].tok
                           /\ path[j].tok \in PartImplicit /\ path[k].tok \in PartImplicit
                              /\ path[k].type = "body" => path[k].over}}
    ELSE {}

\* What nothing can follow in once the end of body i was marked: besides that
\* body, the item that ends with its list, and synopsis blocks in between.
Broken(i) ==
    {j \in i..Len(path) : j = i \/ path[j].tok = "Nm" \/ (path[i].tok = "Bl" /\ j \in {i + 1, i + 2})}

\* The head of Nm has one word, or at least two; others have one or more.
Words(n) == IF n.tok = "Nm" /\ n.type = "head" /\ n.at = "words" THEN 2 ELSE 1
Full(n) == n.tok = "Nm" /\ n.type = "head" /\ n.at = "" /\ n.part = 1
CanHaveMore ==
    ~Top.skip /\ ~Top.over /\ Top.kids # "none" /\ Top.then # "end" /\ ~Full(Top)
CanLeave ==
    /\ Len(path) > 1 /\ Top.then \notin {"rows", "more"}
    /\ \/ Top.skip \/ Top.kids = "none" \/ Top.over
       \/ /\ Top.part >= Words(Top)
          /\ Top.type = "block" => Top.part >= Len(Parts(Top))
===========================================================================
