--------------------------- MODULE MdocMarkdown ---------------------------
(***************************************************************************)
(* Markdown output: the handlers of mdoc_markdown.c.  The state k is kept  *)
(* in static variables:                                                    *)
(*   stack   md_stack(): the prefix of each line, a sequence of "t" (a tab *)
(*           of a code block or list item) and "q" ('>' of a quotation)    *)
(*   code, quote, list   code_blocks, quote_blocks, list_blocks            *)
(*   fonts   "*", "**" and "`" printed and not closed                      *)
(*   bk, sm, split   MD_Bk, MD_Sm, MD_An_split and MD_An_nosplit           *)
(*   crossed a block with a prefix was ended inside another one (history)  *)
(*   ret, marks, fault    as in HtmlOut                                    *)
(* Spacing, line breaks and the escaping of characters are left out.       *)
(***************************************************************************)
EXTENDS Integers, Sequences, TLC

\* markdown_mdoc()
md_begin ==
    [stack |-> <<>>, code |-> 0, quote |-> 0, list |-> 0, fonts |-> 0, bk |-> FALSE,
     sm |-> TRUE, split |-> "none", crossed |-> FALSE, ret |-> TRUE, marks |-> 0, fault |-> FALSE]

Return0(k) == [k EXCEPT !.ret = FALSE]

md_push(k, c) == [k EXCEPT !.stack = Append(@, c)]
md_pop(k) ==
    IF k.stack = <<>> THEN [k EXCEPT !.fault = TRUE]
    ELSE [k EXCEPT !.stack = SubSeq(@, 1, Len(@) - 1)]

\* "*", "**", "`" around the children of a node; text in "`" is code.
md_pre_raw(k, backquote) ==
    [k EXCEPT !.fonts = @ + 1, !.code = IF backquote THEN @ + 1 ELSE @]
md_post_raw(k, backquote) ==
    [k EXCEPT !.fonts = @ - 1, !.code = IF backquote THEN @ - 1 ELSE @]

md_pre_word(k) == [k EXCEPT !.marks = @ + 1]
md_post_word(k) == [k EXCEPT !.marks = @ - 1]

md_pre_An(k, n) ==
    CASE n.at \in {"split", "nosplit"} -> Return0([k EXCEPT !.split = n.at])
      [] OTHER -> [k EXCEPT !.split = IF @ = "none" /\ n.sec = "AUTHORS" THEN "split" ELSE @]

md_pre_Bk(k, n) ==
    CASE n.type = "head" -> Return0(k)
      [] n.type = "body" -> [k EXCEPT !.bk = TRUE]
      [] OTHER -> k
md_post_Bk(k, n) == IF n.type = "body" THEN [k EXCEPT !.bk = FALSE] ELSE k

\* A quotation does not work inside a code block, and the other way round:
\* nest another one of the kind that is open.
md_pre_D1(k) ==
    IF k.code > 0 THEN [md_push(k, "t") EXCEPT !.code = @ + 1]
    ELSE [md_push(k, "q") EXCEPT !.quote = @ + 1]
md_post_D1(k) ==
    LET q == md_pop(k)
    IN IF q.code > 0 THEN [q EXCEPT !.code = @ - 1] ELSE [q EXCEPT !.quote = @ - 1]
md_pre_Dl(k) ==
    IF k.quote > 0 THEN [md_push(k, "q") EXCEPT !.quote = @ + 1]
    ELSE [md_push(k, "t") EXCEPT !.code = @ + 1]
md_pre_Bd(k, n) == IF n.at = "literal" THEN md_pre_Dl(k) ELSE md_pre_D1(k)

md_pre_Bl(k, n) == IF n.at = "column" THEN md_pre_Dl(k) ELSE k
md_post_Bl(k, n) == IF n.at = "column" THEN md_post_D1(k) ELSE k

md_pre_Fa(k) == Return0(md_post_raw(md_pre_raw(k, FALSE), FALSE))
md_pre_Fn(k) == Return0(md_post_raw(md_pre_raw(k, FALSE), FALSE))
md_pre_Fo(k, n) ==
    CASE n.type = "head" -> IF n.kids = "none" THEN Return0(k) ELSE md_pre_raw(k, FALSE)
      [] n.type = "body" -> [k EXCEPT !.marks = @ + 1]
      [] OTHER -> k
md_post_Fo(k, n) ==
    CASE n.type = "head" -> IF n.kids = "none" THEN k ELSE md_post_raw(k, FALSE)
      [] n.type = "body" -> [k EXCEPT !.marks = @ - 1]
      [] OTHER -> k

\* Items of enumerating lists are indented by a tab from their head on; those
\* of tagged lists are quotations.
InBlock(k) == k.code > 0 \/ k.quote > 0
\* (mutant) items outside of code blocks and quotations are counted, too
md_pre_It_all(k, n) ==
    CASE n.type = "head" /\ n.at = "bullet" -> Return0([md_push(k, "t") EXCEPT !.list = @ + 1])
      [] n.type = "head" /\ n.at = "column" -> Return0(k)
      [] n.type = "body" /\ n.at = "tag" -> md_pre_D1(k)
      [] OTHER -> k
md_pre_It(k, n) ==
    CASE n.type = "head" /\ n.at = "bullet" ->
           Return0([md_push(k, "t") EXCEPT !.list = IF InBlock(k) THEN @ + 1 ELSE @])
      [] n.type = "head" /\ n.at = "column" -> Return0(k)
      [] n.type = "body" /\ n.at = "tag" -> md_pre_D1(k)
      [] OTHER -> k
md_post_It(k, n) ==
    CASE n.type = "body" /\ n.at = "bullet" ->
           [md_pop(k) EXCEPT !.list = IF InBlock(k) THEN @ - 1 ELSE @]
      [] n.type = "body" /\ n.at = "tag" -> md_post_D1(k)
      [] OTHER -> k

md_pre_Nm(k, n) ==
    CASE n.type = "block" -> [k EXCEPT !.bk = TRUE]
      [] n.type = "head" -> md_pre_raw(k, FALSE)
      [] OTHER -> k
md_post_Nm(k, n) ==
    CASE n.type = "block" -> [k EXCEPT !.bk = FALSE]
      [] n.type = "head" -> md_post_raw(k, FALSE)
      [] OTHER -> k

md_pre_Sh(k, n) ==
    IF n.type = "block" /\ n.at = "AUTHORS" THEN [k EXCEPT !.split = "none"] ELSE k
md_pre_Sm(k) == Return0([k EXCEPT !.sm = ~@])

\* md_acts[]
Pre(k, n) ==
    CASE n.tok = "Sh" -> md_pre_Sh(k, n)
      [] n.tok = "D1" /\ n.type = "body" -> md_pre_D1(k)
      [] n.tok = "Dl" /\ n.type = "body" -> md_pre_Dl(k)
      [] n.tok = "Bd" /\ n.type = "body" -> md_pre_Bd(k, n)
      [] n.tok = "Bl" /\ n.type = "body" -> md_pre_Bl(k, n)
      [] n.tok = "It" -> md_pre_It(k, n)
      [] n.tok = "An" -> md_pre_An(k, n)
      [] n.tok = "Fa" -> md_pre_Fa(k)
      [] n.tok = "Fn" -> md_pre_Fn(k)
      [] n.tok = "Fo" -> md_pre_Fo(k, n)
      [] n.tok = "Nm" -> md_pre_Nm(k, n)
      [] n.tok \in {"Em", "%T"} -> md_pre_raw(k, FALSE)
      [] n.tok = "Ql" /\ n.type = "body" -> md_pre_word(md_pre_raw(k, TRUE))
      [] n.tok \in {"Oo", "Op"} /\ n.type = "body" -> md_pre_word(k)
      [] n.tok = "Sm" -> md_pre_Sm(k)
      [] n.tok = "Bk" -> md_pre_Bk(k, n)
      [] n.tok \in {"Pp", "Xr"} -> Return0(k)
      [] OTHER -> k
Post(k, n) ==
    CASE n.tok \in {"D1", "Dl", "Bd"} /\ n.type = "body" -> md_post_D1(k)
      [] n.tok = "Bl" /\ n.type = "body" -> md_post_Bl(k, n)
      [] n.tok = "It" -> md_post_It(k, n)
      [] n.tok = "Fo" -> md_post_Fo(k, n)
      [] n.tok = "Nm" -> md_post_Nm(k, n)
      [] n.tok \in {"Em", "%T"} -> md_post_raw(k, FALSE)
      [] n.tok = "Ql" /\ n.type = "body" -> md_post_word(md_post_raw(k, TRUE))
      [] n.tok \in {"Oo", "Op"} /\ n.type = "body" -> md_post_word(k)
      [] n.tok = "Bk" -> md_post_Bk(k, n)
      [] OTHER -> k

\* md_node(), before and after the children.
Enter(k, n) ==
    LET q == [k EXCEPT !.ret = TRUE] IN IF n.mark # 0 THEN q ELSE Pre(q, n)
Leave(k, n) == IF n.ended THEN k ELSE Post(k, n)
===========================================================================
