------------------------------ MODULE HtmlOut ------------------------------
(***************************************************************************)
(* HTML output: html.c, and the handlers of mdoc_html.c, roff_html.c,      *)
(* tbl_html.c and eqn_html.c.                                              *)
(*                                                                         *)
(* The state h is struct html:                                             *)
(*   tags    the stack h->tag, innermost last, of [tag, ref, closed].  A   *)
(*           pointer to a struct tag is its position.  A tag that is still *)
(*           referenced (ref) stays on the stack after it was closed.      *)
(*   low     least length of the stack in this step: pointers to higher    *)
(*           positions that are older than the step lead off the stack     *)
(*   tblt    the open table, or 0; cols: its layout is known               *)
(*   keep    HTML_KEEP and HTML_PREKEEP; split: HTML_SPLIT, HTML_NOSPLIT   *)
(*   nonospace HTML_NONOSPACE                                              *)
(*   toc     "no", "due" or "done": HTML_TOC and HTML_TOCDONE              *)
(*   ret     what the handler that ran last returned                       *)
(*   stray   text was put into an element that cannot hold text            *)
(*   marks   opening minus closing quotation marks and brackets printed    *)
(*   fault   an assertion failed or a null pointer was followed            *)
(***************************************************************************)
EXTENDS Naturals, Sequences, FiniteSets, FiniteSetsExt

\* htmltags[]: what is phrasing content, what holds phrasing content, and
\* what has no end tag.
InPhrase == {"a", "cite", "code", "i", "b", "span", "var", "br", "hr", "mark", "math"}
ToPhrase == {"h2", "h3", "p", "pre", "a", "b", "cite", "code", "i", "span", "var"}
NoStack == {"br", "hr", "meta", "link"}
NoText == {"ul", "dl", "table", "tr", "body", "html", "none"}

html_alloc(toc) ==
    [tags |-> <<>>, low |-> 0, tblt |-> 0, cols |-> FALSE, keep |-> {},
     split |-> "none", nonospace |-> FALSE, toc |-> toc, ret |-> TRUE,
     stray |-> FALSE, marks |-> 0, fault |-> FALSE]

Last_(s) == s[Len(s)]
TopTag(h) == IF h.tags = <<>> THEN "NULL" ELSE Last_(h.tags).tag
Fault(h) == [h EXCEPT !.fault = TRUE]
Return0(h) == [h EXCEPT !.ret = FALSE]

\* The innermost element that is still open in the output.
OpenTags(h) == {i \in 1..Len(h.tags) : ~h.tags[i].closed}
Innermost(h) == IF OpenTags(h) = {} THEN "none" ELSE h.tags[Max(OpenTags(h))].tag

\* print_ctag(), for a set of tags from the innermost to the outermost: the
\* tag is closed once; unless it is referenced, it and whatever is above it
\* leave the stack.
print_ctag(h, S) ==
    LET free == {i \in S : h.tags[i].ref = 0}
        len == IF free = {} THEN Len(h.tags) ELSE Min(free) - 1
    IN [h EXCEPT
          !.tags = [i \in 1..len |-> IF i \in S THEN [@[i] EXCEPT !.closed = TRUE]
                                     ELSE @[i]],
          !.low = IF len < @ THEN len ELSE @,
          !.tblt = IF @ \in S THEN 0 ELSE @]

\* print_tagq(): close everything up to and including a tag; 0 stands for a
\* pointer that is not met, and everything is closed.
print_tagq(h, until) == print_ctag(h, {i \in 1..Len(h.tags) : i >= until})

\* print_stagq(): close everything above a tag, but not a paragraph directly
\* inside it.
print_stagq(h, suntil) ==
    LET stop == IF /\ suntil \in 1..(Len(h.tags) - 1)
                   /\ h.tags[suntil + 1].tag \in {"p", "pre"}
                THEN suntil + 1 ELSE suntil
    IN print_ctag(h, {i \in 1..Len(h.tags) : i > stop})

\* html_close_paragraph(): close phrasing elements and what holds them.
html_close_paragraph(h) ==
    LET up == {i \in 1..Len(h.tags) :
                 \A j \in (i + 1)..Len(h.tags) : h.tags[j].tag \in InPhrase}
    IN IF \A i \in 1..Len(h.tags) : h.tags[i].tag \in InPhrase THEN Fault(h)
       ELSE print_ctag(h, {i \in up : h.tags[i].tag \in InPhrase \cup ToPhrase})

Push(h, tag) ==
    IF tag \in NoStack THEN h
    ELSE [h EXCEPT !.tags = Append(@, [tag |-> tag, ref |-> 0, closed |-> FALSE])]

\* print_otag(): flow content may not be put into phrasing content, and
\* phrasing content in a section is wrapped into a paragraph.
print_otag(h, tag) ==
    IF tag \notin InPhrase
    THEN IF Innermost(h) \in ToPhrase THEN Fault(h) ELSE Push(h, tag)
    ELSE IF tag \in ToPhrase /\ TopTag(h) = "NULL" THEN Fault(h)
    ELSE IF tag \in ToPhrase /\ TopTag(h) = "section" THEN Push(Push(h, "p"), tag)
    ELSE Push(h, tag)

\* print_otag_id(): with a link to itself around or inside.  textonly says
\* that the children of the node are text.
print_otag_id(h, tag, n) ==
    IF ~n.href THEN print_otag(h, tag)
    ELSE IF tag \in InPhrase THEN print_otag(print_otag(h, "a"), tag)
    ELSE IF n.kids = "text" \/ (n.kids = "any" /\ tag \in ToPhrase)
         THEN print_otag(print_otag(h, tag), "a")
         ELSE print_otag(h, tag)

\* print_tagged_text(): text in a section is wrapped into a paragraph; fonts
\* and links are opened and closed around it.
print_text(h) ==
    LET w == IF TopTag(h) = "section" THEN print_otag(h, "p") ELSE h
    IN IF TopTag(h) = "NULL" THEN Fault(h)
       ELSE [w EXCEPT !.stray = @ \/ Innermost(w) \in NoText,
                      !.keep = IF "pre" \in @ THEN @ \cup {"keep"} ELSE @]

Enclosed(h, tag) ==           \* an element with text in it
    LET o == print_otag(h, tag)
    IN print_tagq(print_text(o), Len(o.tags))

\* html_fillmode(): a pre element anywhere on the stack is no-fill mode.
Pres(h) == {i \in 1..Len(h.tags) : h.tags[i].tag = "pre"}
html_fillmode(h, want) ==
    IF (Pres(h) # {}) = want THEN h
    ELSE IF want THEN print_otag(html_close_paragraph(h), "pre")
    ELSE print_tagq(h, Max(Pres(h)))

-----------------------------------------------------------------------------
(* What print_mdoc_node() and print_man_node() do around the handlers: the  *)
(* innermost tag is referenced until the children were printed, and what   *)
(* is above it is closed then.                                             *)

\* (mutant) elements are freed while nodes refer to them
RefNone(h, d) == h
Ref(h, d) ==                   \* reference the innermost tag, or drop it
    IF h.tags = <<>> THEN Fault(h)
    ELSE [h EXCEPT !.tags[Len(h.tags)].ref = @ + d]

Finish(h, t) ==
    LET d == IF t = 0 THEN h ELSE [h EXCEPT !.tags[t].ref = @ - 1]
    IN print_stagq([d EXCEPT !.low = Len(d.tags)], t)

-----------------------------------------------------------------------------
(* roff_html.c, tbl_html.c, eqn_html.c *)

roff_html_pre(h, n) ==
    CASE n.tok = "sp" /\ Pres(h) = {} -> print_otag(html_close_paragraph(h), "p")
      [] n.tok = "ce" -> print_text(h)
      [] OTHER -> h

\* print_tbl(): one row, in a table that is opened by the first row and
\* closed by the last one.
html_tblopen(h) ==
    LET o == print_otag(html_close_paragraph(h), "table")
    IN IF h.tblt # 0 THEN Fault(h) ELSE [o EXCEPT !.tblt = Len(o.tags), !.cols = TRUE]
print_tblclose(h) ==
    IF h.tblt = 0 THEN Fault(h) ELSE [print_tagq(h, h.tblt) EXCEPT !.tblt = 0]
print_tbl(h, last) ==
    LET o == IF h.tblt = 0 THEN html_tblopen(h) ELSE h
        r == print_otag(o, "tr")
        c == print_text(print_otag(r, "td"))
        e == [print_tagq(c, Len(r.tags)) EXCEPT !.nonospace = FALSE]
    IN IF o.fault \/ r.fault THEN Fault(o)
       ELSE IF last THEN print_tblclose([e EXCEPT !.cols = FALSE]) ELSE e

\* print_eqn(): boxes are elements around their contents; one is enough here.
print_eqn(h) ==
    LET m == print_otag(h, "math")
        b == print_text(print_otag(m, "mrow"))
    IN [print_tagq(b, Len(m.tags)) EXCEPT !.nonospace = FALSE]
=============================================================================
