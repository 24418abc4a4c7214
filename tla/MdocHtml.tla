----------------------------- MODULE MdocHtml -----------------------------
(***************************************************************************)
(* The handlers of mdoc_html.c.  A pre handler runs before the children of *)
(* a node and says in ret whether they are to be printed, a post handler   *)
(* after them.  prev is the macro of the previous sibling.                 *)
(* Spacing is left out; what matters is which elements are opened.         *)
(***************************************************************************)
EXTENDS HtmlOut, TLC

synopsis_pre(h, n, prev) ==
    IF ~n.syn \/ prev = "none" THEN h
    ELSE IF prev = n.tok /\ n.tok \notin {"Fo", "Ft", "Fn"} THEN h
    ELSE IF prev \in {"Fd", "Fn", "Fo", "In", "Vt"} \/ (prev = "Ft" /\ n.tok \notin {"Fn", "Fo"})
    THEN print_otag(html_close_paragraph(h), "p")
    ELSE h

\* The section header.  With a table of contents, the first section after
\* the SYNOPSIS starts with it if two sections with names of their own follow.
mdoc_sh_pre(h, n) ==
    CASE n.type = "block" ->
           LET c == html_close_paragraph(h)
               d == [c EXCEPT !.toc = "done"]
               nav == print_otag(d, "nav")
               ul == print_otag(Enclosed(nav, "h2"), "ul")
               li == Enclosed(print_otag(ul, "li"), "a")
           IN IF c.toc # "due" \/ n.at = "SYNOPSIS" THEN print_otag(c, "section")
              ELSE IF n.at # "custom" THEN d
              ELSE print_otag(print_tagq(li, Len(nav.tags)), "section")
      [] n.type = "head" -> print_otag_id(h, "h2", n)
      [] OTHER -> [h EXCEPT !.split = IF n.at = "AUTHORS" THEN "none" ELSE @]

mdoc_ss_pre(h, n) ==
    CASE n.type = "block" -> print_otag(html_close_paragraph(h), "section")
      [] n.type = "head" -> print_otag_id(h, "h3", n)
      [] OTHER -> h

mdoc_nd_pre(h, n) ==
    CASE n.type = "block" -> h
      [] n.type = "head" -> Return0(h)
      [] OTHER -> print_otag(print_text(h), "span")

mdoc_nm_pre(h, n, prev) ==
    CASE n.type = "block" ->
           print_otag(print_otag(synopsis_pre(html_close_paragraph(h), n, prev), "table"), "tr")
      [] n.type = "head" -> print_otag(print_otag(h, "td"), "code")
      [] n.type = "elem" -> print_otag(h, "code")
      [] OTHER -> print_otag(h, "td")

mdoc_xr_pre(h, n) ==
    Return0(IF n.kids = "none" THEN h ELSE print_text(print_otag(h, "a")))

\* Items: which elements depends on the list the item is in.
mdoc_it_pre(h, n) ==
    CASE n.at = "bullet" ->
           (CASE n.type = "head" -> Return0(h)
              [] n.type = "body" -> print_otag_id(h, "li", n)
              [] OTHER -> h)
      [] n.at \in {"tag", "diag"} ->
           (CASE n.type = "head" -> print_otag_id(h, "dt", n)
              [] n.type = "body" -> IF n.at = "tag" /\ n.kids = "none"
                                    THEN print_text(print_otag(h, "dd"))
                                    ELSE print_otag(h, "dd")
              [] OTHER -> h)
      [] n.at = "column" ->
           (CASE n.type = "head" -> h
              [] n.type = "body" -> print_otag(h, "td")
              [] OTHER -> print_otag_id(h, "tr", n))

mdoc_bl_pre(h, n) ==
    CASE n.type = "block" ->
           LET c == html_close_paragraph(h)
           IN (CASE n.at = "bullet" -> print_otag_id(c, "ul", n)
                 [] n.at = "diag" -> print_otag_id(c, "dl", n)
                 [] n.at = "tag" -> print_otag_id(print_otag(c, "div"), "dl", n)
                 [] n.at = "column" -> print_otag_id(c, "table", n))
      [] n.type = "head" -> Return0(h)
      [] OTHER -> h

mdoc_d1_pre(h, n) ==
    CASE n.type = "block" -> html_close_paragraph(h)
      [] n.type = "head" -> Return0(h)
      [] OTHER -> LET d == print_otag_id(h, "div", n)
                  IN IF n.tok = "Dl" THEN print_otag(d, "code") ELSE d

mdoc_bd_pre(h, n) ==
    CASE n.type = "block" -> html_close_paragraph(h)
      [] n.type = "head" -> Return0(h)
      [] OTHER -> print_otag_id(h, "div", n)

mdoc_an_pre(h, n) ==
    CASE n.at \in {"split", "nosplit"} -> Return0([h EXCEPT !.split = n.at])
      [] OTHER -> print_otag([h EXCEPT !.split = IF @ = "none" /\ n.sec = "AUTHORS" THEN "split" ELSE @],
                             "span")

\* Arguments of Fo print themselves.
mdoc_fa_pre(h, n, parent) ==
    IF parent # "Fo" THEN print_otag(h, "var")
    ELSE Return0(IF n.kids = "none" THEN h ELSE Enclosed(h, "var"))

mdoc_fn_pre(h, n, prev) ==
    LET c == print_otag_id(synopsis_pre(h, n, prev), "code", n)
        k == print_tagq(print_text(c), Len(c.tags))
    IN Return0(print_text(Enclosed(print_text(k), "var")))

mdoc_sm_pre(h) == Return0([h EXCEPT !.nonospace = ~@])

mdoc_pp_pre(h, n) ==
    Return0(IF n.nofill THEN h ELSE print_otag(html_close_paragraph(h), "p"))

mdoc_fo_pre(h, n, prev) ==
    CASE n.type = "block" -> synopsis_pre(h, n, prev)
      [] n.type = "head" -> Return0(IF n.kids = "none" THEN h ELSE Enclosed(h, "code"))
      [] OTHER -> [print_text(h) EXCEPT !.marks = @ + 1]
mdoc_fo_post(h, n) ==
    IF n.type # "body" THEN h ELSE [print_text(h) EXCEPT !.marks = @ - 1]

mdoc_bf_pre(h, n) ==
    CASE n.type = "block" -> html_close_paragraph(h)
      [] n.type = "head" -> Return0(h)
      [] OTHER -> print_otag(h, "div")

mdoc_rs_pre(h, n) ==
    CASE n.type = "block" -> IF n.sec = "SEE ALSO" THEN html_close_paragraph(h) ELSE h
      [] n.type = "head" -> Return0(h)
      [] OTHER -> print_otag(IF n.sec = "SEE ALSO" THEN print_otag(h, "p") ELSE h, "span")

mdoc__x_pre(h) == print_otag(print_text(h), "cite")
mdoc__x_post(h, parent) == IF parent = "Rs" THEN print_text(h) ELSE h

mdoc_bk_pre(h, n) ==
    CASE n.type = "block" -> h
      [] n.type = "head" -> Return0(h)
      [] OTHER -> [h EXCEPT !.keep = @ \cup {"pre"}]
mdoc_bk_post(h, n) == IF n.type = "body" THEN [h EXCEPT !.keep = {}] ELSE h

\* Enclosures print a mark before and one after their body.  Only Ql opens
\* an element: the others may contain blocks.
mdoc_quote_pre(h, n) ==
    IF n.type # "body" THEN h
    ELSE LET q == [print_text(h) EXCEPT !.marks = @ + 1]
         IN IF n.tok = "Ql" THEN print_otag(q, "code") ELSE q
mdoc_quote_post(h, n) ==
    IF n.type # "body" THEN h ELSE [print_text(h) EXCEPT !.marks = @ - 1]

\* Eo prints no marks of its own, but text if it is empty.
mdoc_eo_pre(h, n) == IF n.type = "body" /\ n.kids = "none" THEN print_text(h) ELSE h

Phrase == [Em |-> "i", Ar |-> "var", Sx |-> "a", Sy |-> "b", Va |-> "var", Pa |-> "span",
           Lb |-> "span", Fl |-> "code", Cm |-> "code", No |-> "span", St |-> "span"]

\* mdoc_html_acts[].
Pre(h, n, prev, parent) ==
    CASE n.tok = "Sh" -> mdoc_sh_pre(h, n)
      [] n.tok = "Ss" -> mdoc_ss_pre(h, n)
      [] n.tok = "Nd" -> mdoc_nd_pre(h, n)
      [] n.tok = "Nm" -> mdoc_nm_pre(h, n, prev)
      [] n.tok = "Xr" -> mdoc_xr_pre(h, n)
      [] n.tok = "It" -> mdoc_it_pre(h, n)
      [] n.tok = "Bl" -> mdoc_bl_pre(h, n)
      [] n.tok \in {"D1", "Dl"} -> mdoc_d1_pre(h, n)
      [] n.tok = "Bd" -> mdoc_bd_pre(h, n)
      [] n.tok = "An" -> mdoc_an_pre(h, n)
      [] n.tok = "Fa" -> mdoc_fa_pre(h, n, parent)
      [] n.tok = "Fn" -> mdoc_fn_pre(h, n, prev)
      [] n.tok = "Sm" -> mdoc_sm_pre(h)
      [] n.tok = "Pp" -> mdoc_pp_pre(h, n)
      [] n.tok = "Fo" -> mdoc_fo_pre(h, n, prev)
      [] n.tok = "Bf" -> mdoc_bf_pre(h, n)
      [] n.tok = "Rs" -> mdoc_rs_pre(h, n)
      [] n.tok = "%T" -> mdoc__x_pre(h)
      [] n.tok = "Bk" -> mdoc_bk_pre(h, n)
      [] n.tok = "Eo" -> mdoc_eo_pre(h, n)
      [] n.tok \in {"Oo", "Op", "Ql"} -> mdoc_quote_pre(h, n)
      [] n.tok \in DOMAIN Phrase -> print_otag_id(h, Phrase[n.tok], n)
      [] OTHER -> h

Post(h, n, parent) ==
    CASE n.tok = "Fo" -> mdoc_fo_post(h, n)
      [] n.tok = "%T" -> mdoc__x_post(h, parent)
      [] n.tok = "Bk" -> mdoc_bk_post(h, n)
      [] n.tok \in {"Oo", "Op", "Ql"} -> mdoc_quote_post(h, n)
      [] OTHER -> h

\* print_mdoc_node(), up to the children.  The caller keeps the position of
\* the innermost tag, Len(h.tags) after the fill mode and a table were seen to.
Begin(h, n) ==
    LET f == html_fillmode([h EXCEPT !.low = Len(h.tags), !.ret = TRUE], n.nofill)
    IN IF n.type \in {"text", "eqn", "tbl"} \/ f.tblt = 0 THEN f ELSE print_tblclose(f)

Enter(b, n, prev, parent) ==
    LET p == IF n.mark # 0 THEN Ref(b, 1) ELSE Pre(Ref(b, 1), n, prev, parent)
    IN [p EXCEPT !.keep = IF "keep" \in @ /\ n.line THEN {"pre"} ELSE @]

\* print_mdoc_node(), after the children; t is the position kept.
Leave(h, n, parent, t) ==
    IF n.ended THEN Finish(h, t) ELSE Post(Finish(h, t), n, parent)

\* Nodes without children.
Leaf(b, n, last) ==
    CASE n.type = "text" -> Finish(print_text(Ref(b, 1)), Len(b.tags))
      [] n.type = "eqn" -> Finish(print_eqn(Ref(b, 1)), Len(b.tags))
      [] n.type = "tbl" -> print_tbl(b, last)
      [] OTHER -> Finish(roff_html_pre(Ref(b, 1), n), Len(b.tags))
===========================================================================
