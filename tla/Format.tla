------------------------------ MODULE Format ------------------------------
(***************************************************************************)
(* The formatters of mdoc(7) documents.  Each of them walks the syntax     *)
(* tree (module MdocDocument) with a function of its own, calls a handler  *)
(* before the children of each node and another one after them, and keeps  *)
(* track of what it opened.  fmt is the formatter that was chosen on the   *)
(* command line, out its state: that of HtmlOut and MdocHtml, of MdocTerm, *)
(* of MdocMan, or of MdocMarkdown.                                         *)
(*                                                                         *)
(* A body may be closed while a block inside it is open.  The parser then  *)
(* puts an end marker into the inner block, and all formatters run the     *)
(* handler that closes the body there, and not at the end of the body.     *)
(***************************************************************************)
EXTENDS MdocDocument

CONSTANTS Formats,     \* the formatters to examine
          MaxTags,     \* bound on the number of HTML elements on the stack
          MaxLists     \* bound on list_blocks, which displays that end inside
                       \* an item leave too large

ASSUME FormatAssumption ==
    /\ Formats \subseteq {"html", "term", "man", "markdown"}
    /\ MaxTags \in Nat /\ MaxLists \in Nat

VARIABLES fmt,         \* the output format
          out          \* the state of its formatter

vars == <<menu, path, nf, fmt, out>>

Html == INSTANCE MdocHtml
Term == INSTANCE MdocTerm
Man == INSTANCE MdocMan
Markdown == INSTANCE MdocMarkdown

\* html_mdoc(): the elements around the text.
HtmlBegin(toc) ==
    Html!print_otag(Html!print_otag(Html!print_otag(Html!html_alloc(toc), "html"), "body"), "main")

Init ==
    /\ menu \in Menus
    /\ path = <<Node("root", "root", "", FALSE)>>
    /\ nf = FALSE
    /\ fmt \in Formats
    /\ out = CASE fmt = "html" -> HtmlBegin("no")
               [] fmt = "term" -> Term!term_begin
               [] fmt = "man" -> Man!man_begin
               [] fmt = "markdown" -> Markdown!md_begin

\* The step of a formatter before the children of n: b is the state after the
\* common part, what is kept for the node is taken from it.
Prepared(n) ==
    CASE fmt = "html" -> Html!Begin(out, n)
      [] fmt = "term" -> Term!Begin(out, n)
      [] OTHER -> out
\* What the man(7) output does not follow: a filled display in no-fill text, the
\* end of a display where its end marker or the beginning of its last child has
\* another fill mode than the text around it or the end of that child.
Fills(n) == n.tok = "Bd" /\ n.type = "body" /\ n.mark = 0 /\ n.at # "literal" /\ n.nofill
Strays(n) ==
    /\ n.tok = "Bd" /\ n.type = "body" /\ ~n.ended
    /\ IF n.mark # 0 THEN n.nofill # path[n.mark].nofill
       ELSE nf # (IF n.last = "none" THEN n.at = "literal" ELSE n.last = "nf")
Entered(b, n) ==
    CASE fmt = "html" -> Html!Enter(b, n, Top.prev, Top.tok)
      [] fmt = "term" -> Term!Enter(b, n, Top.prev, Top.tok)
      [] fmt = "man" -> [Man!Enter(b, n) EXCEPT !.stray = @ \/ Fills(n)]
      [] fmt = "markdown" -> Markdown!Enter(b, n)
Kept(b) ==
    CASE fmt = "html" -> <<Len(b.tags)>>
      [] fmt = "term" -> Term!Save(b)
      [] OTHER -> <<>>
\* Blocks that put a prefix before lines of markdown: md_pre_It(), md_pre_D1(),
\* md_pre_Dl(), md_pre_Bl().  That of an item of an enumeration starts with its head.
Prefixed(i) ==
    LET n == path[i]
    IN CASE n.tok \in {"Bd", "D1", "Dl"} -> n.type = "body"
         [] n.tok = "Bl" -> n.type = "body" /\ n.at = "column"
         [] n.tok = "It" /\ n.at = "tag" -> n.type = "body"
         [] n.tok = "It" /\ n.at = "bullet" ->
              n.type = "block" /\ (n.part = 1 \/ (n.part > 1 /\ i < Len(path)))
         [] OTHER -> FALSE
Crosses(mark) ==
    /\ Prefixed(mark)
    /\ \E i \in (mark + 1)..Len(path) : Prefixed(i) /\ path[i].mark = 0 /\ ~path[i].ended

\* The step after them; an end marker takes the fonts of the body it ends.
Left(n, parent) ==
    CASE fmt = "html" -> Html!Leave(out, n, parent, n.sv[1])
      [] fmt = "term" -> Term!Leave(out, n, parent, n.sv,
                                    IF n.mark = 0 THEN n.sv[3] ELSE path[n.mark].sv[3])
      [] fmt = "man" -> [Man!Leave(out, n) EXCEPT !.stray = @ \/ Strays(n)]
      [] fmt = "markdown" ->
             [Markdown!Leave(out, n) EXCEPT !.crossed = @ \/ (n.mark # 0 /\ Crosses(n.mark))]
\* Nodes without children; last says that no row of the same table follows.
Printed(b, n, last) ==
    CASE fmt = "html" -> Html!Leaf(b, n, last)
      [] fmt = "term" -> Term!Leaf(b, n)
      [] fmt = "man" -> Man!Leaf(b, n)
      [] OTHER -> b

\* Pointers to HTML elements that left the stack are lost: 0.  print_stagq()
\* then closes all elements, and the next node follows a null pointer.  A walk is
\* over when an assertion has failed, or when such a pointer will be.
Relink(p, o) ==
    IF fmt # "html" THEN p
    ELSE [i \in 1..Len(p) |->
            [p[i] EXCEPT !.sv = IF @ = <<>> \/ @[1] <= o.low THEN @ ELSE <<0>>]]
Settle(o) == IF fmt = "html" THEN [o EXCEPT !.low = 0, !.ret = TRUE] ELSE [o EXCEPT !.ret = TRUE]

Visited(p, n, then) ==
    [p EXCEPT ![Len(p)] =
        [@ EXCEPT !.part = IF @ = 0 \/ Top.type = "block" \/ Words(Top) > @ THEN @ + 1 ELSE @,
                  !.prev = IF Top.syn THEN n.tok ELSE IF Top.sec = "SEE ALSO" THEN "any" ELSE @,
                  !.last = IF Top.tok # "Bd" THEN @
                           ELSE IF n.tok \in {"nf", "fi"} THEN n.tok
                           ELSE IF n.nofill THEN "nf" ELSE "fi",
                  !.then = then]]

\* The fill mode of the parser after a node, or inside it.
FillAfter(n) ==
    CASE n.tok = "Bd" /\ n.type = "body" ->
             IF n.mark # 0 THEN path[n.mark].nofill ELSE n.at = "literal"
      [] n.tok = "nf" -> TRUE
      [] n.tok \in {"fi", "Sh"} -> FALSE
      [] OTHER -> nf

Lost == out.fault \/ (fmt = "html" /\ \E i \in 2..Len(path) : path[i].sv = <<0>>)
Room ==
    /\ fmt = "html" => Len(out.tags) < MaxTags
    /\ fmt = "markdown" => out.list < MaxLists

EnterNode ==
    /\ ~Lost /\ CanHaveMore /\ Top.then # "rows" /\ Len(path) < menu.depth
    /\ Room
    /\ \E n \in NextParts \cup NextBlocks \cup NextElems \cup NextMarks :
         /\ n.tok \notin Requests
         /\ nf' = FillAfter(n)
         /\ \E b \in {Prepared(n)} : \E o \in {Entered(b, n)} :
            \E p \in {Relink(Visited(path, n, "any"), o)} :
              /\ out' = Settle(o)
              /\ path' = Append([i \in 1..Len(p) |->
                                   IF n.mark # 0 /\ i \in Broken(n.mark)
                                   THEN [p[i] EXCEPT !.over = TRUE] ELSE p[i]],
                                [n EXCEPT !.skip = ~o.ret, !.sv = Kept(b)])
    /\ UNCHANGED <<menu, fmt>>

VisitLeaf ==
    /\ ~Lost /\ CanHaveMore /\ Room
    /\ \E n \in NextText \cup {m \in NextElems : m.tok \in Requests}, last \in BOOLEAN :
         /\ n.type # "tbl" => last /\ Top.then # "rows"
         /\ nf' = FillAfter(n)
         /\ \E b \in {Prepared(n)} : \E o \in {Printed(b, n, last)} :
              /\ out' = Settle(o)
              /\ path' = Relink(Visited(path, n, IF last THEN "any" ELSE "rows"), o)
    /\ UNCHANGED <<menu, fmt>>

LeaveNode ==
    /\ ~Lost /\ CanLeave
    /\ nf' = IF Top.tok = "Bd" /\ Top.type = "body" /\ Top.mark = 0 /\ ~Top.over
             THEN Top.nofill ELSE nf
    /\ \E o \in {Left(Top, path[Len(path) - 1].tok)} :
       \E p \in {Relink(Front(path), o)} :
         /\ out' = Settle(o)
         /\ path' = IF Top.mark # 0 THEN [p EXCEPT ![Top.mark].ended = TRUE]
                    ELSE IF Top.type = "block" /\ Top.tok \in {"Bd", "Bl", "D1", "Dl"}
                    THEN [p EXCEPT ![Len(p)].then = IF Top.more THEN "more" ELSE "end"]
                    ELSE p
    /\ UNCHANGED <<menu, fmt>>

Next == EnterNode \/ VisitLeaf \/ LeaveNode
Spec == Init /\ [][Next]_vars

-----------------------------------------------------------------------------
\* Nodes of the path that are being printed and were not ended by a mark.
Alive == {i \in 1..Len(path) : path[i].mark = 0 /\ ~path[i].ended}
Bodies(T) == {i \in Alive : path[i].tok \in T /\ path[i].type = "body"}

\* What the handlers are known to get wrong, by the document it takes.
\* A block that was opened in the line of Ql, and goes on after it, contains
\* something that closes a paragraph: html_close_paragraph() closes the code
\* element of Ql as well, and what is above it is lost.
QlGoesOn ==
    fmt = "html" /\ \E i \in 1..Len(path) :
      path[i].tok = "Ql" /\ path[i].type = "body" /\ path[i].over
\* A name block in the SYNOPSIS follows a function: synopsis_pre() opens a
\* paragraph, and mdoc_nm_pre() puts its table into it.
NmAfterFunction ==
    /\ fmt = "html" /\ Top.tok = "Nm" /\ Top.type = "block" /\ Top.syn
    /\ Html!TopTag(out) = "p"
\* A list with an offset ends inside an item that has an entry on Bl_stack.
ListEndsInItem ==
    fmt = "man" /\ \E i \in 1..(Len(path) - 2) :
      /\ path[i].tok = "Bl" /\ path[i].type = "body" /\ path[i].ended /\ path[i].wd[1] # 0
      /\ path[i + 2].at \in Man!Items

\* No assertion of a formatter fails and no null pointer is followed: flow
\* content is not put into phrasing content (print_otag()), the stacks of
\* fonts, lists, tables and line prefixes are never popped when they are
\* empty (term_fontpop(), post_it(), post_bl(), html_tblopen(), md_stack()).
\* In HTML, the element that was innermost before a node was handled is still
\* on the stack after its children, whatever they closed in the meantime, so
\* that print_stagq() meets it and closes exactly what the node opened.
\* The three documents above are the only ones for which this does not hold, up
\* to the depth examined: more than 32 lists in each other overrun Bl_stack.
NoFault == Lost => QlGoesOn \/ NmAfterFunction \/ ListEndsInItem

\* Every opening bracket or quotation mark of an enclosure gets its closing
\* one, and only one: at the end marker if the enclosure was closed inside
\* another block, else at the end of its body (NODE_ENDED).
MarksBalanced == out.marks = Cardinality(Bodies(Quotes \cup {"Fo"}))

\* Items whose indentation is set up: from the head on, until the body ends.
ItemsOf(L) ==
    {i \in Alive : /\ path[i].tok = "It" /\ path[i].type = "block" /\ path[i].at \in L
                   /\ path[i].part = 1 \/ (path[i].part > 1 /\ i < Len(path))}

\* In man(7) output, Bl_stack has one entry for each open item and each open
\* list with an offset, the .RS macros that are open in the output are those
\* of the open displays and lists and of the items whose indentation was
\* restored after a display or a list inside them (mid_it()), and text is in
\* the fill mode that it has in the document: pre_bd() and post_bd() switch it
\* with the display, except where it strays (Fills, Strays), and then only until
\* something else asks for a mode.
ManNesting ==
    fmt = "man" /\ ~Lost =>
      LET in == {i \in Bodies({"Bl"}) : path[i].wd[1] # 0}
      IN /\ Len(out.bl) = Cardinality(in) + Cardinality(ItemsOf(Man!Items))
         /\ out.rs = Cardinality(in) + Cardinality(Bodies({"Bd", "D1", "Dl"}))
                     + Cardinality({i \in 1..Len(out.bl) : out.bl[i].post})
         /\ Top.type = "body" /\ Top.mark = 0 => out.nf = nf \/ out.stray

\* In markdown output, there is a prefix for each of the displays, lists and
\* items a line is in, and the counters that tell code blocks from quotations,
\* which choose the syntax of the next one, count what is open.  The prefixes
\* are those of the blocks in their order, and there is no quotation in a code
\* block nor the other way round, unless a display ended inside another block:
\* its end marker pops the prefix of the inner one.
MarkdownBlocks ==
    fmt = "markdown" =>
      LET owners == {i \in Alive : Prefixed(i)}
          quoted == {i \in owners : ~(path[i].tok = "It" /\ path[i].at = "bullet")}
          inline == Bodies({"Ql"})
          prefix(i) == out.stack[Cardinality({j \in owners : j <= i})]
          code == {i \in quoted : prefix(i) = "t"}
          Quoting(n) == n.tok \in {"D1", "It"} \/ (n.tok = "Bd" /\ n.at # "literal")
      IN /\ Len(out.stack) = Cardinality(owners)
         /\ out.code + out.quote = Cardinality(quoted) + Cardinality(inline)
         /\ ~out.crossed =>
              /\ \A i \in owners \ quoted : prefix(i) = "t"
              /\ \A i, j \in quoted : prefix(i) = prefix(j)
              /\ \A i \in quoted : (\A j \in quoted : i <= j) /\ inline = {}
                                    => (i \in code <=> ~Quoting(path[i]))
              /\ out.code = Cardinality(code) + Cardinality(inline)
              /\ out.list \in 0..Cardinality(owners \ quoted)
              /\ quoted = {} => out.list = 0

\* Which nodes may have set a mode of the terminal formatter.
Fields == {i \in Alive : \/ path[i].tok = "It" /\ path[i].type = "head"
                         \/ path[i].tok = "It" /\ path[i].at = "column" /\ path[i].type = "body"
                         \/ path[i].tok = "Nm" /\ path[i].type = "head"}
Keeps == Bodies({"Bk"}) \cup {i \in Alive : path[i].tok = "Nm" /\ path[i].type = "block"}
Fonts == {i \in Alive : \/ path[i].type = "elem" /\ path[i].tok \in {"Em", "Fa", "%T"}
                        \/ path[i].type = "head" /\ path[i].tok \in {"Sh", "Ss", "Fo", "Nm", "It"}
                        \/ path[i].type = "body" /\ path[i].tok = "Bf"}

\* On the terminal, a mode ends with the node that set it: output fields with
\* the items and names they are for, keeps with Bk and Nm, centering with its
\* display, and fonts with their node, also when an end marker comes first.
\* Indentation never drops below zero, which would wrap around, except in items
\* of a list whose offset and width are both negative: each alone is limited to
\* the indentation in termp_it_pre(), but not their sum.
TermModes ==
    fmt = "term" =>
      /\ out.fl \cap Term!ItemFlags # {} => Fields # {}
      /\ out.fl \cap {"keep", "prekeep"} # {} => Keeps # {}
      /\ "center" \in out.fl => {i \in Bodies({"Bd"}) : path[i].at = "centered"} # {}
      /\ out.fonti <= Cardinality(Fonts)
      /\ \/ out.off <= Term!MaxMargin
         \/ \E i \in 1..Len(path) :
              path[i].tok = "It" /\ path[i].wd[1] < 0 /\ path[i].wd[2] < 0
===========================================================================
