----------------------------- MODULE Mansearch ------------------------------
(***************************************************************************)
(* What apropos(1) and man(1) look up (mansearch.c, dbm.c, and fs_search() *)
(* in main.c): the compilation of a search expression, its evaluation on a *)
(* database, and the search for a manual by its name, which falls back to  *)
(* the file system when the database does not help.                        *)
(***************************************************************************)
EXTENDS Makewhatis, FiniteSets, FiniteSetsExt

\* A word of the command line: an operator, a parenthesis, a term (key and
\* value), or a term whose regular expression cannot be compiled.
Word(t) == [t |-> t, key |-> "", val |-> ""]
TermWord(key, val) == [t |-> "term", key |-> key, val |-> val]

\* Expressions: type, terms' key and value, list of children.
NULL == [type |-> "null", key |-> "", val |-> "", list |-> <<>>]
Term(w) == [type |-> "term", key |-> w.key, val |-> w.val, list |-> <<>>]
Node(type, list) == [type |-> type, key |-> "", val |-> "", list |-> list]

\* Every function returns the expression and the next word: [e, i].
RECURSIVE exprcomp(_, _), comp_words(_, _, _, _), and_words(_, _, _)

exprterm(argv, i) ==
    CASE argv[i].t = "(" ->
            LET r == exprcomp(argv, i + 1)
            IN  [r EXCEPT !.i = IF @ <= Len(argv) THEN @ + 1 ELSE @]
      [] argv[i].t = "bad" -> [e |-> NULL, i |-> i + 1]
      [] OTHER -> [e |-> Term(argv[i]), i |-> i + 1]

\* Variation: words without an operator between them are joined by "-a".
and_words_all(argv, i, s) ==
    IF i > Len(argv) \/ argv[i].t \in {")", "-o"} THEN [s |-> s, i |-> i]
    ELSE IF argv[i].t = "-a"
         THEN and_words(argv, i + 1, [s EXCEPT !.need = TRUE])
    ELSE LET r == exprterm(argv, i)
         IN  and_words(argv, r.i,
                 [parent |-> s.list # <<>>,
                  list |-> IF r.e = NULL THEN s.list ELSE Append(s.list, r.e),
                  need |-> s.list = <<>> /\ r.e = NULL])

\* s.list: the terms linked so far; s.need: an operand is needed.
and_words(argv, i, s) ==
    IF i > Len(argv) \/ argv[i].t \in {")", "-o"} THEN [s |-> s, i |-> i]
    ELSE IF argv[i].t = "-a"
         THEN and_words(argv, i + 1, [s EXCEPT !.need = TRUE])
    ELSE IF ~s.need THEN [s |-> s, i |-> i]
    ELSE LET r == exprterm(argv, i)
         IN  and_words(argv, r.i,
                 [parent |-> s.list # <<>>,
                  list |-> IF r.e = NULL THEN s.list ELSE Append(s.list, r.e),
                  need |-> s.list = <<>> /\ r.e = NULL])

expr_and(argv, i) ==
    LET r == and_words(argv, i, [parent |-> FALSE, list |-> <<>>, need |-> TRUE])
    IN  [e |-> IF r.s.parent THEN Node("and", r.s.list)
               ELSE IF r.s.list = <<>> THEN NULL ELSE r.s.list[1],
         i |-> r.i]

\* s.parent: there is an OR node; s.list: its children, or the only child;
\* s.child: where the last child went: nowhere, into the list, or to a
\* place the parent does not refer to.
comp_words(argv, i, nested, s) ==
    IF i > Len(argv) \/ (argv[i].t = ")" /\ nested) THEN [s |-> s, i |-> i]
    ELSE IF argv[i].t \in {")", "-o"} THEN comp_words(argv, i + 1, nested, s)
    ELSE LET r == expr_and(argv, i)
             none == r.e = NULL
         IN  comp_words(argv, r.i, nested,
               CASE s.child = "null" /\ ~s.parent ->
                      [s EXCEPT !.list = IF none THEN <<>> ELSE <<r.e>>,
                                !.child = IF none THEN "null" ELSE "linked"]
                 [] s.child = "null" /\ s.parent ->
                      [s EXCEPT !.child = IF none THEN "null" ELSE "loose"]
                 [] s.child = "linked" ->
                      [parent |-> TRUE,
                       list |-> IF none THEN s.list ELSE Append(s.list, r.e),
                       child |-> IF none THEN "null" ELSE "linked"]
                 [] s.child = "loose" ->
                      [s EXCEPT !.child = IF none THEN "null" ELSE "loose"])

exprcomp(argv, i) ==
    LET r == comp_words(argv, i, i > 1,
                        [parent |-> FALSE, list |-> <<>>, child |-> "null"])
    IN  [e |-> IF r.s.parent THEN Node("or", r.s.list)
               ELSE IF r.s.list = <<>> THEN NULL ELSE r.s.list[1],
         i |-> r.i]

-----------------------------------------------------------------------------
(* Evaluation.  A result table maps page numbers to the bits of the name   *)
(* that matched.  Matching a value is equality of model values.            *)

NoResults == [n \in {} |-> {}]

\* Numerical value of a set of mask bits.
Quality(bits) == FoldSet(LAMBDA b, n : b + n, 0, bits)

page_match(disk, key, val) ==
    CASE key = "Nm" -> {n \in DOMAIN disk.pages :
                           val \in DOMAIN disk.pages[n].names}
      [] key = "Nd" -> {n \in DOMAIN disk.pages : disk.pages[n].desc = val}
      [] key = "sec" -> {n \in DOMAIN disk.pages : val \in disk.pages[n].sect}
      [] key = "arch" -> {n \in DOMAIN disk.pages : val \in disk.pages[n].arch}
      [] key = "Xr" -> {disk.macros[val][j] : j \in DOMAIN disk.macros[val]}

match_bits(disk, key, val, n) ==
    IF key = "Nm" THEN disk.pages[n].names[val] ELSE {}

manmerge_term(e, disk, htab) ==
    LET found == page_match(disk, e.key, e.val)
    IN  [n \in DOMAIN htab \cup found |->
            (IF n \in DOMAIN htab THEN htab[n] ELSE {}) \cup
            (IF n \in found THEN match_bits(disk, e.key, e.val, n) ELSE {})]

RECURSIVE manmerge(_, _, _)

\* Pages in both tables, with the entries of the smaller one.
intersect(hand, h2) ==
    LET h1 == IF Cardinality(DOMAIN h2) < Cardinality(DOMAIN hand)
              THEN h2 ELSE hand
    IN  [n \in DOMAIN hand \cap DOMAIN h2 |-> h1[n]]

manmerge_and(list, disk, htab) ==
    LET hand == FoldLeft(LAMBDA h, e : intersect(h, manmerge(e, disk, NoResults)),
                         manmerge(list[1], disk, NoResults), Tail(list))
    IN  [n \in DOMAIN htab \cup DOMAIN hand |->
            IF n \in DOMAIN htab THEN htab[n] ELSE hand[n]]

manmerge(e, disk, htab) ==
    CASE e.type = "term" -> manmerge_term(e, disk, htab)
      [] e.type = "or" ->
            FoldLeft(LAMBDA h, child : manmerge(child, disk, h), htab, e.list)
      [] e.type = "and" -> manmerge_and(e.list, disk, htab)

\* lstmatch(): no filter, or a page for all architectures, always matches.
lstmatch(want, have) == want = "" \/ have = {} \/ want \in have

\* Variation: files are not looked at.
mansearch_blind(disk, tree, e, search) ==
    LET htab == manmerge(e, disk, NoResults)
    IN  {n \in DOMAIN htab :
            /\ lstmatch(search.sec, disk.pages[n].sect)
            /\ lstmatch(search.arch, disk.pages[n].arch)
            /\ search.mode = "name" => Quality(htab[n]) > Quality(NAME_SYN)}

\* Numbers of the pages that match.  Pages of which the first file cannot
\* be read are skipped; a search for a name ignores SYNOPSIS names.
mansearch(disk, tree, e, search) ==
    LET htab == manmerge(e, disk, NoResults)
    IN  {n \in DOMAIN htab :
            /\ lstmatch(search.sec, disk.pages[n].sect)
            /\ lstmatch(search.arch, disk.pages[n].arch)
            /\ search.mode = "name" => Quality(htab[n]) > Quality(NAME_SYN)
            /\ tree[Head(disk.pages[n].files)] \in Inodes}

\* Priority of the section of the first file of a page, low values first.
sec_prio(sec) == [s \in {"1", "2", "3", "4", "5", "6", "7", "8", "9"} |->
    <<1, 4, 5, 8, 6, 3, 7, 2, 9>>[CHOOSE i \in 1..9 : ToString(i) = s]][sec]

\* man(1) shows the page in the best section, and among several of these
\* one with the best name, because manpage_compare() sorts by quality.
best_match(disk, name, found) ==
    LET prio(n) == sec_prio(Attr[Head(disk.pages[n].files)].dsec)
        quality(n) == Quality(disk.pages[n].names[name])
    IN  {n \in found : \A m \in found :
            \/ prio(n) < prio(m)
            \/ prio(n) = prio(m) /\ quality(m) <= quality(n)}

-----------------------------------------------------------------------------
(* The search of man(1) for a name.                                        *)

\* The files fs_lookup() tries for a section, in the order of preference.
fs_lookup(tree, sec, arch, name) ==
    LET here(P(_)) == {p \in Paths : tree[p] \in Inodes /\ Attr[p].name = name
                                     /\ Attr[p].dsec = sec /\ P(p)}
        source == here(LAMBDA p : Attr[p].dform = "man" /\ Attr[p].arch = ""
                                  /\ Attr[p].fsec = sec)
        cat == here(LAMBDA p : Attr[p].dform = "cat" /\ Attr[p].fform = "cat"
                               /\ Attr[p].arch = "")
        machine == here(LAMBDA p : Attr[p].dform = "man" /\ arch # ""
                                   /\ Attr[p].arch = arch /\ Attr[p].fsec = sec)
        glob == here(LAMBDA p : Attr[p].dform = "man" /\ Attr[p].arch = "")
    IN  IF source # {} THEN source
        ELSE IF cat # {} THEN cat
        ELSE IF machine # {} THEN machine ELSE glob

\* The first section that has the name.
fs_search(tree, arch, name, sections) ==
    FoldLeft(LAMBDA found, sec : IF found # {} THEN found
                                 ELSE fs_lookup(tree, sec, arch, name),
             {}, sections)

\* The files man(1) may show for a name: from the database if there is one
\* and it has the name, and otherwise from the file system.
man(disk, tree, arch, name, sections) ==
    LET e == [type |-> "term", key |-> "Nm", val |-> name, list |-> <<>>]
        found == mansearch(disk, tree, e,
                           [mode |-> "name", sec |-> "", arch |-> arch])
    IN  IF found # {}
        THEN {Head(disk.pages[n].files) : n \in best_match(disk, name, found)}
        ELSE fs_search(tree, arch, name, sections)
=============================================================================
