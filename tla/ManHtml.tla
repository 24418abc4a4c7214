------------------------------ MODULE ManHtml ------------------------------
(***************************************************************************)
(* HTML output of man(7) documents: the handlers of man_html.c.  Paragraphs *)
(* with a tag are the items of a list; there is no macro for the list, so  *)
(* the formatter looks at the siblings of an item: the list is opened by   *)
(* the first item and stays open when the item is left, until the last one *)
(* closes it.                                                              *)
(*                                                                         *)
(* n.list is the kind of item, n.after and n.before those of the siblings  *)
(* after and before the block, "none" if there is none or no item.         *)
(***************************************************************************)
EXTENDS HtmlOut, TLC

\* list_continues(): TP and TQ go together, and IP with the same mark; " " is
\* any text that is not a list mark.
list_continues(a, b) ==
    IF a = "none" \/ a # b THEN "no" ELSE IF a = "tag" THEN " " ELSE a

\* What kind of list the item n is in.
ListType(n) ==
    LET back == list_continues(n.before, n.list)
        on == list_continues(n.list, n.after)
    IN IF back # "no" THEN back ELSE IF on # "no" THEN on ELSE " "

man_SH_pre(h, n) ==
    CASE n.type = "block" -> print_otag(html_close_paragraph(h), "section")
      [] n.type = "head" ->
           print_otag_id(h, IF n.tok = "SH" THEN "h2" ELSE "h3", [href |-> TRUE, kids |-> "any"])
      [] OTHER -> h

man_alt_pre(h) == Enclosed(Enclosed(h, "b"), "i")

man_PP_pre(h, n) ==
    CASE n.type = "block" -> html_close_paragraph(h)
      [] n.type = "head" -> Return0(h)
      [] OTHER -> IF n.first = "fill" THEN print_otag(h, "p") ELSE h

man_IP_pre(h, n) ==
    LET type == ListType(n)
    IN CASE n.type = "block" ->
              LET c == html_close_paragraph(h)
              IN IF list_continues(n.before, n.list) # "no" THEN c
                 ELSE print_otag(c, IF type = " " THEN "dl" ELSE "ul")
         [] n.type = "head" ->
              IF type # " " THEN Return0(h)
              ELSE print_otag_id(h, "dt", [href |-> n.list # "none", kids |-> IF n.tok = "IP" THEN "text" ELSE "any"])
         [] OTHER -> print_otag(h, IF type = " " THEN "dd" ELSE "li")

man_MR_pre(h) == Enclosed(h, "a")
man_OP_pre(h) ==
    LET t == print_otag(print_text(h), "span")
        b == print_stagq(Enclosed(t, "b"), Len(t.tags))
        i == print_stagq(Enclosed(b, "i"), Len(t.tags))
    IN print_text(i)
man_in_pre(h) == print_otag(h, "br")

man_RS_pre(h, n) ==
    CASE n.type = "block" -> html_close_paragraph(h)
      [] n.type = "head" -> Return0(h)
      [] OTHER -> print_otag(h, "div")

man_SY_pre(h, n) ==
    CASE n.type = "block" -> print_otag(print_otag(html_close_paragraph(h), "table"), "tr")
      [] n.type = "head" -> print_otag(print_otag(h, "td"), "code")
      [] OTHER -> print_otag(h, "td")

\* man_UR_pre() prints the children of the body, or else of the head, itself:
\* the handler does not run for the head and the body.
man_UR_pre(h, n) == IF n.arg THEN print_otag(h, "a") ELSE h
Unhandled(n) == n.tok = "UR" /\ n.type # "block"

\* man_html_acts[]
Pre(h, n) ==
    CASE n.tok \in {"SH", "SS"} -> man_SH_pre(h, n)
      [] n.tok \in {"TP", "TQ", "IP"} -> man_IP_pre(h, n)
      [] n.tok \in {"PP", "HP"} -> man_PP_pre(h, n)
      [] n.tok = "RS" -> man_RS_pre(h, n)
      [] n.tok = "SY" -> man_SY_pre(h, n)
      [] n.tok = "UR" -> man_UR_pre(h, n)
      [] n.tok = "B" -> print_otag(h, "b")
      [] n.tok = "BI" -> Return0(man_alt_pre(h))
      [] n.tok = "OP" -> Return0(man_OP_pre(h))
      [] n.tok = "MR" -> Return0(man_MR_pre(h))
      [] n.tok = "in" -> Return0(man_in_pre(h))
      [] n.tok = "PD" -> Return0(h)
      [] OTHER -> h

\* print_man_node(), up to the children; then t is the innermost tag.
Begin(h, n) ==
    LET f == html_fillmode([h EXCEPT !.low = Len(h.tags), !.ret = TRUE], n.nofill)
    IN IF Unhandled(n) THEN [h EXCEPT !.low = Len(h.tags), !.ret = n.type = "body" \/ n.first = "none"]
       ELSE IF n.type \in {"text", "blank", "eqn", "tbl"} \/ f.tblt = 0 THEN f
       ELSE print_tblclose(f)
Enter(b, n) ==
    IF Unhandled(n) THEN b ELSE Pre(Ref(b, 1), n)

\* print_man_node(), after the children: the last item closes its list, the
\* others only what is in it.
\* (mutant) the list is closed with each of its items
EndItem_each(h, n) ==
    LET t == Max({i \in 1..Len(h.tags) : h.tags[i].tag \in {"dl", "ul"}}) IN print_tagq(h, t)
EndItem(h, n) ==
    LET lists == {i \in 1..Len(h.tags) : h.tags[i].tag \in {"dl", "ul"}}
    IN IF lists = {} THEN Fault(h)
       ELSE IF list_continues(n.list, n.after) = "no" THEN print_tagq(h, Max(lists))
       ELSE print_stagq(h, Max(lists))
Leave(h, n, t) ==
    LET d == IF t = 0 THEN h ELSE [h EXCEPT !.tags[t].ref = @ - 1]
        l == [d EXCEPT !.low = Len(d.tags)]
    IN IF Unhandled(n) THEN [h EXCEPT !.low = Len(h.tags)]
       ELSE IF n.type = "block" /\ n.list # "none" THEN EndItem(l, n) ELSE print_stagq(l, t)

\* Nodes without children.
Leaf(b, n) ==
    CASE n.type = "text" -> Finish(print_text(Ref(b, 1)), Len(b.tags))
      [] n.type = "blank" -> b
      [] n.type = "eqn" -> Finish(print_eqn(Ref(b, 1)), Len(b.tags))
      [] n.type = "tbl" -> print_tbl(b, TRUE)
      [] OTHER -> Finish(roff_html_pre(Ref(b, 1), n), Len(b.tags))
=============================================================================
