----------------------------- MODULE ManFormat -----------------------------
(***************************************************************************)
(* The formatters of man(7) documents.  As in module Format, the walk over *)
(* the syntax tree is what happens, and the tree is chosen as the walk     *)
(* goes on; only its depth is bounded.  It is a tree as the parser (module *)
(* ManMacro) builds it and man_validate() leaves it: paragraphs without    *)
(* contents were deleted, and so was a paragraph or a break right after a  *)
(* section header.                                                         *)
(*                                                                         *)
(* path is the chain of nodes that are being visited.  A node has          *)
(*   tok, type       macro and kind of node                                *)
(*   w               <<>>, or the width or other number it was given       *)
(*   arg             the head of the block has children                    *)
(*   first           in blocks, heads and bodies: "none" if the body is    *)
(*                   empty, else "fill" or "nofill", the flag NODE_NOFILL  *)
(*                   of its first child                                    *)
(*   nofill, line    NODE_NOFILL and NODE_LINE                             *)
(*   list            of TP, TQ and IP, the kind of item, else "none"       *)
(*   before, after   the kind of the sibling before and after it           *)
(* and while it is visited                                                 *)
(*   count           children visited, not more than 2                     *)
(*   prev            the last of them                                      *)
(*   then            kind of item that follows in it, "any" if open        *)
(*   skip            the handler returned 0: children are not visited      *)
(*   aux             in the body of RS, the indentation it added           *)
(*   sv              the tag that is innermost when the node is left       *)
(***************************************************************************)
EXTENDS Integers, Sequences, FiniteSets, SequencesExt

CONSTANTS Menus,        \* kinds of documents: has is the set of macros that
                        \* occur together, depth the bound on the length of path,
                        \* rs the bound on nested RS blocks, widths the widths
          Formats,      \* the formatters to examine, of "html" and "term"
          MaxTags,      \* bound on the stack of HTML elements: closed paragraphs
                        \* that are referenced pile up on it
          MaxMargins    \* MAXMARGINS, 64 in the source

ASSUME FormatAssumption ==
    Formats \subseteq {"html", "term"} /\ MaxMargins \in Nat \ {0} /\ MaxTags \in Nat

VARIABLES menu, path, nf,     \* as in module MdocDocument
          fmt,                \* the output format
          out                 \* the state of its formatter

vars == <<menu, path, nf, fmt, out>>

Html == INSTANCE ManHtml
Term == INSTANCE ManTerm

\* The largest of the widths in the menu m that are not ignored, and of the
\* default width, is not more than most.
Within(m, most) ==
    most >= Term!ParWidth /\ \A w \in m.widths : w[1] <= most \/ w[1] > Term!ShrtMax

\* Widths are one number each, and the widths of the blocks that may be open
\* together do not add up to the largest number: size_t is wide enough.
ASSUME MenuAssumption ==
    \A m \in Menus :
      /\ m.rs \in Nat
      /\ \A w \in m.widths : w \in Seq(Int) /\ Len(w) = 1
      /\ \E most \in 0..Term!ShrtMax :
            Within(m, most) /\ Term!DefIndent + (m.rs + 1) * most < Term!ShrtMax

Items == {"TP", "TQ", "IP"}
Paragraphs == Items \cup {"PP", "HP", "SY"}
Sections == {"SH", "SS"}
Requests == {"nf", "fi", "br", "sp", "ft", "ce"}
Elements == {"B", "BI", "OP", "MR", "PD", "in", "EX", "EE"}
Leaves == Requests \cup {"text", "blank", "eqn", "tbl"}

Node(tok, type) ==
    [tok |-> tok, type |-> type, w |-> <<>>, arg |-> FALSE, first |-> "any", nofill |-> FALSE,
     line |-> FALSE, list |-> "none", before |-> "none", after |-> "none", count |-> 0,
     prev |-> "start", then |-> "any", skip |-> FALSE, aux |-> 0, sv |-> 0]

Top == path[Len(path)]
InHead == \E i \in 1..Len(path) : path[i].type = "head" /\ path[i].tok # "UR"   \* ROFF_NONOFILL
Indented == {i \in 1..Len(path) : path[i].tok = "RS" /\ path[i].type = "body"}

\* Blocks and their heads and bodies are never in no-fill mode, except UR.
Alloc(tok, type) ==
    [Node(tok, type) EXCEPT
        !.nofill = nf /\ ~InHead /\ tok \notin Paragraphs \cup Sections \cup {"RS"},
        !.line = type \in {"text", "block", "elem"}]

\* Kinds of items: TP and TQ, and IP by the mark in its head.
Marks == {" ", "*", "-"}
Kinds(tok) ==
    CASE tok \in {"TP", "TQ"} -> {"tag"}
      [] tok = "IP" -> Marks \cap menu.has
      [] OTHER -> {"none"}

\* check_par(), post_IP(): paragraphs without contents are deleted.
Contents(tok, arg) ==
    LET any == {"none", IF nf THEN "nofill" ELSE "fill"}
    IN CASE tok \in Sections -> {"any"}
         [] tok = "PP" -> (any \ {"none"}) \cup (IF "RS" \in menu.has THEN {"fill"} ELSE {})
         [] tok = "RS" -> {"any"}
         [] tok = "IP" /\ ~arg -> any \ {"none"}
         [] OTHER -> any

\* HTML output does not look at widths.
Widths(tok) ==
    IF tok \in {"IP", "HP", "TP", "TQ", "RS"} /\ fmt = "term" THEN {<<>>} \cup menu.widths
    ELSE {<<>>}
Args(tok, w) ==
    CASE tok = "IP" -> {w # <<>>, TRUE}
      [] tok = "UR" -> BOOLEAN
      [] OTHER -> {TRUE}

\* The blocks that may start in the body b.  Sections end everything else,
\* paragraphs end paragraphs; RS may come right after PP.  Blocks inside UR are
\* left out: they lose the indentation of what is around them, and in HTML a
\* null pointer is followed if they are in no-fill mode.
ChildBlocks(b) ==
    IF b.type = "root" THEN {"SH"}
    ELSE IF b.type # "body" \/ b.tok = "UR" THEN {}
    ELSE {"UR"} \cup (IF b.tok = "PP" /\ b.count = 0 THEN {"RS"} ELSE {})
                \cup (IF b.tok \in Sections \cup {"RS"} THEN Paragraphs \cup {"RS"} ELSE {})
                \cup (IF b.tok = "SH" THEN {"SS"} ELSE {})

\* Blocks of one kind: what they contain, and the item that follows.
BlocksOf(tok) ==
    LET choices == [w : Widths(tok), arg : BOOLEAN, list : Kinds(tok),
                    first : UNION {Contents(tok, x) : x \in BOOLEAN},
                    after : {"none"} \cup (IF tok \in Items THEN Kinds("IP") \cup Kinds("TP")
                                          ELSE {})]
        before == IF Top.prev \in Marks \cup {"tag"} THEN Top.prev ELSE "none"
    IN {[Alloc(tok, "block") EXCEPT !.w = c.w, !.arg = c.arg, !.first = c.first,
                                    !.list = c.list, !.before = before, !.after = c.after] :
          c \in choices}

NextBlocks ==
    {n \in UNION {BlocksOf(tok) : tok \in ChildBlocks(Top) \cap menu.has} :
       /\ n.arg \in Args(n.tok, n.w) /\ n.first \in Contents(n.tok, n.arg)
       /\ n.list \in Marks \ {" "} => n.arg
       /\ n.tok = "RS" => Cardinality(Indented) < menu.rs
       \* TQ adds a head to a tagged paragraph; elsewhere see LinesWhole
       /\ n.tok = "TQ" => Top.prev = "tag"
       \* post_SH(): no paragraph right after a section header
       /\ n.tok = "PP" => ~(Top.tok \in Sections /\ Top.count = 0)}

NextParts ==
    IF Top.type # "block" \/ Top.count >= 2 THEN {}
    ELSE {[Top EXCEPT !.type = IF Top.count = 0 THEN "head" ELSE "body",
                      !.line = FALSE, !.count = 0, !.prev = "start", !.sv = 0]}

\* Text in heads: that of PP, HP and RS is no text.  In the body of a
\* paragraph and of a section, a break does not come first.  A hanged paragraph
\* that starts with EX or EE in no-fill mode is left out: the indentation is
\* then added twice.
Hanging == Top.tok = "HP" /\ Top.type = "body" /\ Top.count = 0 /\ nf
NextElems ==
    IF Top.type \notin {"head", "body"} THEN {}
    ELSE {n \in {[Alloc(tok, "elem") EXCEPT !.w = w] :
             tok \in menu.has \cap (IF Hanging THEN Elements \ {"EX", "EE"}
                                    ELSE IF Top.type = "body" THEN Elements
                                    ELSE IF Top.tok \in Sections \cup {"TP", "TQ"} THEN {"B", "in"}
                                    ELSE {}),
             w \in {<<>>, <<0>>}} : n.w = <<>> \/ n.tok \in {"PD", "in"}}
NextLeaves ==
    CASE Top.type = "elem" -> IF Top.tok = "B" THEN {Alloc("text", "text")} ELSE {}
      [] Top.type = "head" -> {Alloc("text", "text")}
      [] Top.type = "body" ->
           {[Alloc(tok, IF tok \in Requests THEN "elem" ELSE tok) EXCEPT
               !.nofill = @ /\ tok # "tbl"] :
              tok \in {"text"} \cup
                      {l \in menu.has \cap Leaves :
                         /\ Top.tok \in {"PP", "SH", "SS"} /\ Top.count = 0 => l \notin {"br", "sp"}
                         /\ l = "blank" => nf}}
      [] OTHER -> {}

\* The first child of a body and the item that was announced.
Fits(n) ==
    /\ Top.type = "body" /\ Top.count = 0 /\ Top.first # "any" =>
         Top.first = (IF n.nofill THEN "nofill" ELSE "fill")
    /\ Top.type = "head" /\ Top.tok = "IP" => Top.count = 0
    /\ Top.then # "any" => n.list = Top.then

CanHaveMore ==
    /\ ~Top.skip
    /\ fmt = "html" /\ Top.type = "body" /\ Top.count > 0 => Len(out.tags) < MaxTags
    /\ Top.type = "body" => Top.first # "none"
    /\ Top.type = "head" => Top.arg
CanLeave ==
    /\ Len(path) > 1
    /\ Top.then \in {"any", "none"}
    /\ \/ Top.skip
       \/ Top.type = "block" /\ Top.count = 2
       \/ Top.type = "body" /\ (Top.first \in {"any", "none"} \/ Top.count > 0)
       \/ Top.type = "head" /\ (~Top.arg \/ Top.count > 0)
       \/ Top.type = "elem" /\ (Top.count > 0 \/ Top.tok # "B")

-----------------------------------------------------------------------------
Init ==
    /\ menu \in Menus
    /\ path = <<Node("root", "root")>>
    /\ nf = FALSE
    /\ fmt \in Formats
    /\ out = IF fmt = "html"
             THEN Html!print_otag(Html!print_otag(Html!print_otag(Html!html_alloc("no"), "html"),
                                                  "body"), "main")
             ELSE Term!man_begin

Prepared(n) == IF fmt = "html" THEN Html!Begin(out, n) ELSE Term!Begin(out, n)
Entered(b, n) ==
    IF fmt = "html" THEN Html!Enter(b, n) ELSE Term!Enter(b, n, Top.prev, Top.tok)
Printed(b, n, parent) ==
    IF fmt = "html" THEN Html!Leaf(b, n) ELSE Term!Leaf(b, n, parent)
Left(parent) ==
    IF fmt = "html" THEN Html!Leave(out, Top, Top.sv) ELSE Term!Leave(out, Top, parent)

\* Pointers to HTML elements that left the stack are lost: 0.
Relink(p, o) ==
    IF fmt # "html" THEN p
    ELSE [i \in 1..Len(p) |-> [p[i] EXCEPT !.sv = IF @ <= o.low THEN @ ELSE 0]]
Settle(o) == IF fmt = "html" THEN [o EXCEPT !.low = 0, !.ret = TRUE] ELSE [o EXCEPT !.ret = TRUE]

\* How the formatters see a node that was visited, among the children of Top.
\* A section is "empty" if there is nothing in its body.
Trace(n) ==
    CASE n.list # "none" -> n.list
      [] n.tok = "SY" -> "SY"
      [] n.tok \in Sections -> IF n.prev = "empty" THEN "empty" ELSE "other"
      [] OTHER -> "other"
Visited(n) ==
    LET seen == [Top EXCEPT !.count = IF Top.count < 2 THEN Top.count + 1 ELSE 2,
                            !.prev = Trace(n), !.then = "any"]
    IN [path EXCEPT ![Len(path)] = seen]

FillAfter(n) ==
    CASE n.tok \in {"nf", "EX"} -> TRUE
      [] n.tok \in {"fi", "EE"} \cup Sections -> FALSE
      [] OTHER -> nf

EnterNode ==
    /\ CanHaveMore /\ Len(path) < menu.depth
    /\ \E n \in NextParts \cup NextBlocks \cup NextElems :
         /\ Fits(n)
         /\ nf' = IF n.type \in {"block", "elem"} THEN FillAfter(n) ELSE nf
         /\ \E b \in {Prepared(n)} : \E o \in {Entered(b, n)} :
              /\ out' = Settle(o)
              /\ path' = Append(Relink(Visited(n), o),
                                [n EXCEPT !.skip = ~o.ret,
                                          !.sv = IF fmt = "html" THEN Len(b.tags) ELSE 0,
                                          !.aux = IF fmt = "term" /\ n.tok = "RS"
                                                  THEN o.offset - out.offset ELSE 0])
    /\ UNCHANGED <<menu, fmt>>

VisitLeaf ==
    /\ CanHaveMore
    /\ \E n \in NextLeaves :
         /\ Fits(n)
         /\ nf' = FillAfter(n)
         /\ \E o \in {Printed(Prepared(n), n, Visited(n)[Len(path)])} :
              /\ out' = Settle(o)
              /\ path' = Relink(Visited(n), o)
    /\ UNCHANGED <<menu, fmt>>

\* What the parent remembers of the node that is left.
Returned(parent) ==
    [parent EXCEPT !.then = IF Top.type = "block" /\ Top.list # "none" THEN Top.after ELSE "any",
                   !.prev = IF Top.type = "body" /\ Top.tok \in Sections /\ Top.count = 0
                            THEN "empty"
                            ELSE IF Top.type = "block" /\ Top.tok \in Sections THEN Trace(Top)
                            ELSE parent.prev]

LeaveNode ==
    /\ CanLeave
    /\ \E o \in {Left(path[Len(path) - 1])} :
       \E p \in {Relink(Front(path), o)} :
         /\ out' = Settle(o)
         /\ path' = [p EXCEPT ![Len(p)] = Returned(p[Len(p)])]
    /\ UNCHANGED <<menu, nf, fmt>>

Next == EnterNode \/ VisitLeaf \/ LeaveNode
Spec == Init /\ [][Next]_vars

-----------------------------------------------------------------------------
\* In HTML, no assertion fails and no null pointer is followed.  The element
\* that a node started in is still on the stack when the node is left.  A list
\* is open if one of its items is being printed, or the next item of the same
\* list comes next, and only then; items are directly inside lists, and text
\* is not directly inside a list or a table.
HtmlLists ==
    fmt = "html" =>
      LET Tag(i) == out.tags[i].tag
          open == {i \in Html!OpenTags(out) : Tag(i) \in {"dl", "ul"}}
          items == {i \in 1..Len(path) : path[i].type = "block" /\ path[i].list # "none"}
          goon == {i \in 1..Len(path) : Html!list_continues(path[i].prev, path[i].then) # "no"}
      IN /\ ~out.fault /\ ~out.stray
         /\ \A i \in 2..Len(path) : path[i].sv # 0 \/ Html!Unhandled(path[i])
         /\ Cardinality(open) = Cardinality(items) + Cardinality(goon)
         /\ \A i \in Html!OpenTags(out) :
               /\ Tag(i) \in {"dt", "dd"} => i - 1 \in open /\ Tag(i - 1) = "dl"
               /\ Tag(i) = "li" => i - 1 \in open /\ Tag(i - 1) = "ul"

\* The indentation in each node of the path p: what the RS blocks added.
Indentation(p) ==
    LET sum[i \in 0..Len(p)] == IF i = 0 THEN Term!DefIndent ELSE sum[i - 1] + p[i].aux
    IN sum

\* Beyond MaxMargins nested RS blocks, the last entry of the stack of widths is
\* shared: a negative width that an inner block left there can be too much for
\* the blocks around it (see README.md).
Steady == menu.rs < MaxMargins \/ \A w \in menu.widths : w[1] >= 0

\* On the terminal, the indentation is the sum of what the open RS blocks
\* added, whatever was clipped or taken from the stack of widths, and that
\* stack is where it was when the block started, also beyond its limit.  Text
\* starts at the indentation, in items after the width of the item, and
\* neither margin ever drops below zero, which would wrap around.
Margins ==
    fmt = "term" =>
      LET width == out.lmargin[out.cur]
      IN /\ out.offset = Indentation(path)[Len(path)] /\ out.offset >= 0
         /\ out.sz = Cardinality(Indented)
         /\ out.cur = IF out.sz < MaxMargins THEN out.sz ELSE MaxMargins - 1
         /\ Steady =>
              /\ width >= -out.offset
              /\ out.off < Term!ShrtMax /\ out.rm < Term!ShrtMax
              /\ Top.type = "body" /\ "in" \notin menu.has =>
                   out.off \in CASE Top.tok \in Items \cup {"SY"} -> {out.offset + width}
                                 [] Top.tok = "HP" -> {out.offset, out.offset + width}
                                 [] Top.tok = "UR" -> Nat
                                 [] OTHER -> {out.offset}

\* On the terminal, the modes of a field end with it: fields are the heads of
\* sections, items and synopses, up to the start of the body, and hanged
\* paragraphs.  Bold italic is only for section headers.
Fields ==
    fmt = "term" =>
      LET InField(T) == {i \in 1..Len(path) : path[i].tok \in T /\
                           (path[i].type = "head" \/ (i = Len(path) /\ path[i].type = "block"))}
          hang == {i \in 1..Len(path) : path[i].tok = "HP" /\ path[i].type = "body"}
      IN /\ (out.fl \cap Term!ItemFlags # {} \/ out.trail # 0) =>
              InField(Items \cup {"SY"} \cup Sections) \cup hang # {}
         /\ "ibi" \in out.fl => InField(Sections) # {}

\* On the terminal, what was printed before a block is on an output line
\* before that block: margins never move while text waits in the buffer.
\* Where print_bvspace() prints nothing, nothing else ends the line: TQ must
\* come after TP, and PD must not be used together with SS (see README.md).
LinesWhole == fmt = "term" /\ ~({"PD", "SS"} \subseteq menu.has) => ~out.torn
=============================================================================
