----------------------------- MODULE MdocTerm -----------------------------
(***************************************************************************)
(* Terminal output of mdoc(7) documents: the handlers of mdoc_term.c, as   *)
(* far as they change the layout (module TermOut).  prev is the macro of   *)
(* the previous sibling.                                                   *)
(***************************************************************************)
EXTENDS TermOut, TLC

synopsis_pre(p, n, prev) == IF n.syn /\ prev # "none" THEN term_newln(p) ELSE p

\* Items.  The head is a field of a certain width that the body is put next
\* to; bw is <<offset, width>> of the list, "last" says that no column follows.
ItemWidth(p, n) ==
    LET default == CASE n.at = "tag" -> 8
                     [] n.at = "column" -> 10 [] OTHER -> 0
        w == n.wd[2] + 2
    IN IF n.at = "column" \/ n.wd[2] = 0 THEN default
       ELSE IF w < 0 /\ -w > p.off THEN -p.off ELSE w
ItemOffset(p, n) ==
    IF n.wd[1] < 0 /\ -n.wd[1] > p.off THEN -p.off ELSE n.wd[1]

ItemFlagsOf(p, n) ==
    CASE n.at = "bullet" /\ n.type = "head" ->
           [Set(p, {"nobreak", "hang"}) EXCEPT !.trail = 1]
      [] n.at = "bullet" -> IF ItemWidth(p, n) <= 2 THEN Set(p, {"nopad"}) ELSE p
      [] n.at = "tag" /\ n.type = "head" ->
           [Set(p, {"nobreak", "brtrsp", "brind"} \cup IF n.full THEN {} ELSE {"hang"})
              EXCEPT !.trail = 2]
      [] n.at = "diag" /\ n.type = "head" ->
           [Set(p, {"nobreak", "brind"}) EXCEPT !.trail = 1]
      [] n.at = "column" /\ n.type = "body" ->
           IF n.more THEN [Set(p, {"nobreak"}) EXCEPT !.trail = 1]
           ELSE [Clear(p, {"nobreak"}) EXCEPT !.trail = 0]
      [] OTHER -> p

\* The right margin of a head is where the body starts.
ItemMargins(p, n, width, offset) ==
    LET q == AddOffset(p, offset)
    IN CASE n.at \in {"bullet", "tag"} ->
              IF n.type = "head" THEN [q EXCEPT !.rm = Unsigned(q.off + width)]
              ELSE AddOffset(q, width)
         [] n.at = "column" ->
              [q EXCEPT !.rm = IF n.type = "body" /\ ~n.more THEN MaxMargin
                               ELSE Unsigned(q.off + width)]
         [] OTHER -> q

termp_it_pre(p, n) ==
    IF n.type = "block" THEN term_newln(p)
    ELSE LET w == IF n.at = "diag" /\ n.type = "body" THEN term_word(p) ELSE p
             f == IF n.at = "diag" /\ n.type = "head" THEN term_fontpush(w) ELSE w
             m == ItemMargins(ItemFlagsOf(f, n), n, ItemWidth(p, n), ItemOffset(p, n))
         IN IF n.type # "head" \/ n.at \in {"tag", "diag"} THEN m
            ELSE Return0(IF n.at = "bullet" THEN Styled(m) ELSE m)

\* (mutant) the hanging indentation is not reset
termp_it_post_hang(p, n) ==
    IF n.type = "block" THEN p
    ELSE [Clear(term_newln(p), ItemFlags \ {"hang"}) EXCEPT !.trail = 0]
termp_it_post(p, n) ==
    IF n.type = "block" THEN p
    ELSE LET q == CASE n.at = "diag" -> IF n.type = "body" THEN term_newln(p) ELSE p
                    [] n.at = "column" -> IF n.type = "body" THEN term_flushln(p) ELSE p
                    [] OTHER -> term_newln(p)
         IN [Clear(q, ItemFlags) EXCEPT !.trail = 0]

\* The name in the SYNOPSIS: the head is a field, the body hangs after it.
termp_nm_pre(p, n, prev) ==
    CASE n.type = "block" -> Set(p, {"prekeep"})
      [] n.type = "body" -> IF n.kids = "none" THEN Return0(p) ELSE AddOffset(p, 4)
      [] OTHER ->
           LET q == synopsis_pre(p, n, prev)
           IN IF n.kids = "none" THEN Return0(p)
              ELSE term_fontpush(IF ~n.full THEN q
                     ELSE [Set(q, {"nobreak", "brind"} \cup IF n.at = "words" THEN {"hang"} ELSE {})
                             EXCEPT !.trail = 1, !.rm = Unsigned(q.off + 4)])
termp_nm_post(p, n) ==
    CASE n.type = "block" -> Clear(p, {"keep", "prekeep"})
      [] n.type = "head" ->
           IF ~n.full THEN p
           ELSE [Clear(term_flushln(p), {"nobreak", "brind", "hang"}) EXCEPT !.trail = 0]
      [] n.type = "body" -> IF n.kids = "none" THEN p ELSE term_flushln(p)
      [] OTHER -> p

termp_an_pre(p, n) ==
    CASE n.at \in {"split", "nosplit"} -> Return0([p EXCEPT !.split = n.at])
      [] p.split = "split" -> term_newln(p)
      [] OTHER -> [p EXCEPT !.split = IF @ = "none" /\ n.sec = "AUTHORS" THEN "split" ELSE @]

termp_rs_pre(p, n, prev) ==
    IF n.sec = "SEE ALSO" /\ n.type = "block" /\ prev # "none" THEN term_newln(p) ELSE p
termp_nd_pre(p, n) == IF n.type = "body" THEN term_word(p) ELSE p

termp_bl_pre(p, n) ==
    CASE n.type = "block" -> term_newln(p)
      [] n.type = "head" -> Return0(p)
      [] OTHER -> p
termp_bl_post(p, n) == IF n.type = "block" THEN term_newln(p) ELSE p

termp_xr_pre(p, n) == Return0(IF n.kids = "none" THEN p ELSE term_word(p))

termp_sh_pre(p, n) ==
    CASE n.type = "block" -> term_newln(p)
      [] n.type = "head" -> term_fontpush(p)
      [] OTHER -> [p EXCEPT !.off = DefIndent,
                            !.split = IF n.sec = "AUTHORS" THEN "none" ELSE @]
termp_sh_post(p, n) ==
    CASE n.type = "head" -> term_newln(p)
      [] n.type = "body" -> [term_newln(p) EXCEPT !.off = 0]
      [] OTHER -> p
termp_ss_pre(p, n) ==
    CASE n.type = "block" -> term_newln(p)
      [] n.type = "head" -> term_fontpush([p EXCEPT !.off = 3])
      [] OTHER -> [p EXCEPT !.off = DefIndent]
termp_ss_post(p, n) == IF n.type = "block" THEN p ELSE term_newln(p)

termp_d1_pre(p, n) ==
    IF n.type # "block" THEN p ELSE AddOffset(term_newln(p), DefIndent + 1)

\* In the SYNOPSIS, the name of a function is a field of its own.
FunctionField(p) ==
    Set(Clear(term_flushln(Styled(Set([p EXCEPT !.rm = Unsigned(p.off + 4)],
                                      {"nobreak", "brind", "hang"}))),
              {"nobreak", "brind", "hang"}), {"nopad"})
termp_fn_pre(p, n, prev) ==
    LET q == synopsis_pre(p, n, prev)
        f == IF n.syn THEN [FunctionField(q) EXCEPT !.off = Unsigned(q.off + 4), !.rm = q.rm]
             ELSE Styled(q)
        e == term_word(Styled(term_word(f)))
    IN Return0(IF n.syn THEN term_flushln(e) ELSE e)
termp_fa_pre(p, n, parent) ==
    IF parent # "Fo" THEN term_fontpush(p)
    ELSE Return0(IF n.kids = "none" THEN p ELSE Styled(p))
termp_fo_pre(p, n, prev) ==
    CASE n.type = "block" -> synopsis_pre(p, n, prev)
      [] n.type = "body" ->
           LET q == IF n.syn
                    THEN [FunctionField(p) EXCEPT !.off = Unsigned(p.off + 4), !.rm = p.rm]
                    ELSE term_word(p)
           IN [q EXCEPT !.marks = @ + 1]
      [] OTHER -> term_fontpush(p)
termp_fo_post(p, n) ==
    IF n.type # "body" THEN p
    ELSE LET q == [term_word(p) EXCEPT !.marks = @ - 1]
         IN IF n.syn THEN term_flushln(q) ELSE q

termp_bd_pre(p, n) ==
    CASE n.type = "block" -> term_newln(p)
      [] n.type = "head" -> Return0(p)
      [] OTHER ->
           LET q == IF n.wd[1] < 0 /\ -n.wd[1] > p.off THEN [p EXCEPT !.off = 0]
                    ELSE AddOffset(p, n.wd[1])
           IN IF n.at = "centered" THEN Set(q, {"center"}) ELSE q
termp_bd_post(p, n) ==
    IF n.type # "body" THEN p
    ELSE Clear(term_newln(p), {"brnever"} \cup IF n.at = "centered" THEN {"center"} ELSE {})

termp_pp_pre(p) == Return0(term_newln(p))

termp_quote_pre(p, n) ==
    IF n.type # "body" THEN p ELSE [term_word(p) EXCEPT !.marks = @ + 1]
termp_quote_post(p, n) ==
    IF n.type # "body" THEN p ELSE [term_word(p) EXCEPT !.marks = @ - 1]
termp_eo_pre(p, n) == IF n.type = "body" /\ n.kids = "none" THEN term_word(p) ELSE p

termp_bf_pre(p, n) ==
    CASE n.type = "head" -> Return0(p)
      [] n.type = "body" -> term_fontpush(p)
      [] OTHER -> p

termp_sm_pre(p) ==
    Return0([p EXCEPT !.fl = IF "nonospace" \in @ THEN @ \ {"nonospace"}
                             ELSE @ \cup {"nonospace"}])

termp_bk_pre(p, n) ==
    CASE n.type = "head" -> Return0(p)
      [] n.type = "body" -> Set(p, {"prekeep"})
      [] OTHER -> p
termp_bk_post(p, n) == IF n.type = "body" THEN Clear(p, {"keep", "prekeep"}) ELSE p

termp__t_pre(p) == term_fontpush(p)
termp____post(p, parent) == IF parent = "Rs" THEN term_word(p) ELSE p

\* mdoc_term_acts[].
Pre(p, n, prev, parent) ==
    CASE n.tok = "It" -> termp_it_pre(p, n)
      [] n.tok = "Nm" -> termp_nm_pre(p, n, prev)
      [] n.tok = "An" -> termp_an_pre(p, n)
      [] n.tok = "Rs" -> termp_rs_pre(p, n, prev)
      [] n.tok = "Nd" -> termp_nd_pre(p, n)
      [] n.tok = "Bl" -> termp_bl_pre(p, n)
      [] n.tok = "Xr" -> termp_xr_pre(p, n)
      [] n.tok = "Sh" -> termp_sh_pre(p, n)
      [] n.tok = "Ss" -> termp_ss_pre(p, n)
      [] n.tok \in {"D1", "Dl"} -> termp_d1_pre(p, n)
      [] n.tok = "Fn" -> termp_fn_pre(p, n, prev)
      [] n.tok = "Fa" -> termp_fa_pre(p, n, parent)
      [] n.tok = "Fo" -> termp_fo_pre(p, n, prev)
      [] n.tok = "Bd" -> termp_bd_pre(p, n)
      [] n.tok = "Pp" -> termp_pp_pre(p)
      [] n.tok \in {"Oo", "Op", "Ql"} -> termp_quote_pre(p, n)
      [] n.tok = "Eo" -> termp_eo_pre(p, n)
      [] n.tok = "Bf" -> termp_bf_pre(p, n)
      [] n.tok = "Sm" -> termp_sm_pre(p)
      [] n.tok = "Bk" -> termp_bk_pre(p, n)
      [] n.tok = "%T" -> termp__t_pre(p)
      [] n.tok = "Em" -> term_fontpush(p)
      [] OTHER -> p

Post(p, n, parent) ==
    CASE n.tok = "It" -> termp_it_post(p, n)
      [] n.tok = "Nm" -> termp_nm_post(p, n)
      [] n.tok = "Bl" -> termp_bl_post(p, n)
      [] n.tok = "Sh" -> termp_sh_post(p, n)
      [] n.tok = "Ss" -> termp_ss_post(p, n)
      [] n.tok \in {"D1", "Dl"} -> termp_bl_post(p, n)
      [] n.tok = "Fo" -> termp_fo_post(p, n)
      [] n.tok = "Bd" -> termp_bd_post(p, n)
      [] n.tok \in {"Oo", "Op", "Ql"} -> termp_quote_post(p, n)
      [] n.tok = "Bk" -> termp_bk_post(p, n)
      [] n.tok = "%T" -> termp____post(p, parent)
      [] OTHER -> p

\* print_mdoc_node(), up to the children.
Begin(p, n) ==
    LET q == IF n.nofill THEN Set(IF n.line THEN term_newln(p) ELSE p, {"brnever"})
             ELSE Clear(p, {"brnever"})
    IN [q EXCEPT !.ret = TRUE]
Save(p) == <<p.off, p.rm, p.fonti>>
Enter(p, n, prev, parent) ==
    LET q == IF "keep" \in p.fl /\ n.line THEN Set(Clear(p, {"keep"}), {"prekeep"}) ELSE p
    IN IF n.mark # 0 THEN q ELSE Pre(q, n, prev, parent)

\* print_mdoc_node(), after the children.  s is what was saved; the fonts are
\* those of the body if n is an end marker.
Leave(p, n, parent, s, font) ==
    LET f == term_fontpopq(p, font)
        e == IF n.ended THEN f ELSE Post(f, n, parent)
    IN [e EXCEPT !.off = s[1], !.rm = s[2]]

Leaf(p, n) ==
    LET q == IF "keep" \in p.fl /\ n.line THEN Set(Clear(p, {"keep"}), {"prekeep"}) ELSE p
    IN CASE n.type \in {"text", "eqn"} -> [term_fontpopq(term_word(q), p.fonti) EXCEPT !.rm = p.rm]
         [] n.type = "tbl" -> term_newln(term_word(term_newln(q)))
         [] OTHER -> roff_term_pre(q, n)
===========================================================================
