----------------------------- MODULE Makewhatis -----------------------------
(***************************************************************************)
(* What makewhatis(8) computes (mandocdb.c, dba.c, dba_array.c,            *)
(* dba_read.c): the tables of links and pages built from the files of a    *)
(* manual page tree, and the database built from the tables.               *)
(*                                                                         *)
(* A file name ("path") is a model value or string with the attributes the *)
(* program derives from it; a file object ("inode") has a document as its  *)
(* content.  A symbolic link inside the tree is treated by the program     *)
(* like a hard link, so both are a path that shares an inode.              *)
(***************************************************************************)
EXTENDS Naturals, Sequences, SequencesExt

CONSTANTS
    PathOrder,  \* all paths, in the order of strcmp(3)
    Attr,       \* of each path: name, dform, fform, dsec, fsec, arch, source
    Doc,        \* of each inode: the document it contains
    Keys        \* values of the Xr macro, the one macro table kept

Paths == {PathOrder[i] : i \in DOMAIN PathOrder}
Inodes == DOMAIN Doc

\* .so requests name sources.  mlinks_undupe() frees the links to formatted
\* pages without taking them out of the table mlinks, where the destination of
\* a .so request is looked up: with one of them, freed memory would be used.
ASSUME SoAssumption ==
    \A i \in Inodes : Doc[i].kind = "so" /\ Doc[i].dest \in Paths =>
        Attr[Doc[i].dest].dform # "cat"

\* Mask bits of names.  The first title also gets the bit NAME_FIRST.
NAME_SYN == {1}
NAME_FIRST == {4}
NAME_TITLE == {2, 4}
NAME_HEAD == {8}
NAME_FILE == {16}
NAME_MASK == {1, 2, 4, 8, 16}

EmptyFunction == [x \in {} |-> {}]

\* The function f, with the set s added to its value for x.
Add(f, x, s) ==
    [y \in DOMAIN f \cup {x} |->
        (IF y \in DOMAIN f THEN f[y] ELSE {}) \cup (IF y = x THEN s ELSE {})]

-----------------------------------------------------------------------------
(* The tables of links and pages.  A page is identified by its inode.      *)

EmptyTables ==
    [order |-> <<>>,            \* the list of pages, mpage_head first
     links |-> EmptyFunction,   \* mpage->mlinks
     owner |-> EmptyFunction,   \* mlink->mpage, for all of the mlinks table
     done |-> EmptyFunction]    \* mpage->dba, as the number of the page

\* Enter path p with inode i into the tables, at the heads of both lists.
mlink_add(t, p, i) ==
    [t EXCEPT
        !.order = IF i \in DOMAIN t.links THEN @ ELSE <<i>> \o @,
        !.links = [j \in DOMAIN @ \cup {i} |->
                      IF j # i THEN @[j]
                      ELSE IF i \in DOMAIN @ THEN <<p>> \o @[i] ELSE <<p>>],
        !.owner = [q \in DOMAIN @ \cup {p} |-> IF q = p THEN i ELSE @[q]]]

\* Add the given paths, as far as they exist.
scan(tree, ps) ==
    FoldLeft(LAMBDA t, p : mlink_add(t, p, tree[p]), EmptyTables,
             SelectSeq(ps, LAMBDA p : tree[p] \in Inodes))

\* A scan of the whole tree, in reverse order, to get lists in order.
treescan(tree, use_all) ==
    scan(tree, SelectSeq(Reverse(PathOrder),
                         LAMBDA p : use_all \/ Attr[p].dform # "none"))

\* Unless use_all, drop formatted pages of which the source exists.
mlinks_undupe(t, i, use_all) ==
    SelectSeq(t.links[i],
              LAMBDA p : use_all \/ Attr[p].dform # "cat"
                                 \/ Attr[p].source \notin DOMAIN t.owner)

-----------------------------------------------------------------------------
(* Names and keys of one page, from its document.                          *)

NoKeys == [names |-> EmptyFunction, keys |-> {}, mask |-> NAME_MASK,
           head |-> FALSE, desc |-> ""]

\* Add a name; only one name of the page gets NAME_FIRST.
putname(k, name, v) ==
    [k EXCEPT !.names = Add(@, name, v \cap k.mask),
              !.mask = IF NAME_FIRST \subseteq v THEN @ \ NAME_FIRST ELSE @]

\* Nm in the NAME section and in the head of a SYNOPSIS block;
\* the first one that agrees with the title of the page is marked.
parse_Nm(k, item, title) ==
    LET k1 == IF item.sec = "NAME" THEN putname(k, item.arg, NAME_TITLE)
              ELSE IF item.sec = "SYNOPSIS" THEN putname(k, item.arg, NAME_SYN)
              ELSE k
    IN  IF k.head \/ item.arg # title THEN k1
        ELSE [putname(k1, item.arg, NAME_HEAD) EXCEPT !.head = TRUE]

parse_item(k, item, title) ==
    CASE item.mac = "Nm" -> parse_Nm(k, item, title)
      [] item.mac = "Nd" -> [k EXCEPT !.desc = item.arg]
      [] item.mac = "Xr" -> [k EXCEPT !.keys = @ \cup {item.arg}]

\* parse_mdoc() walks the whole document, parse_man() the NAME section.
parse_doc(d) ==
    FoldLeft(LAMBDA k, item : parse_item(k, item, d.title), NoKeys, d.items)

-----------------------------------------------------------------------------
(* The database in memory: pages, some of them marked as deleted, and for  *)
(* each key the pages that have it.                                        *)

dba_new == [pages |-> <<>>, gone |-> {}, macros |-> [k \in Keys |-> <<>>]]

\* Page independent of the architecture: the entry is the NULL pointer.
MI == {}

\* The parts of dba_page_add() for architectures and for files.
add_arch(have, arch) ==
    IF have = MI \/ arch = "" THEN MI ELSE have \cup {arch}
add_file(have, p) ==
    IF Contains(have, p) THEN have ELSE Append(have, p)

dbadd_mlink(page, p) ==
    [page EXCEPT !.names = Add(@, Attr[p].name, NAME_FILE),
                 !.sect = @ \cup ({Attr[p].dsec, Attr[p].fsec} \ {""}),
                 !.arch = add_arch(@, Attr[p].arch),
                 !.files = add_file(@, p)]

\* The new page for links ps, with names and keys k and section and
\* architecture h.  An architecture in the document wins over the directory.
dba_page(ps, k, h) ==
    LET arch == IF h.arch = "" THEN Attr[Head(ps)].arch ELSE h.arch
        page == [names |-> EmptyFunction,
                 sect |-> {h.sec} \ {""},
                 arch |-> IF arch = "" THEN MI ELSE {arch},
                 desc |-> IF k.desc = "" THEN Attr[Head(ps)].name ELSE k.desc,
                 files |-> <<Head(ps)>>]
        linked == FoldLeft(dbadd_mlink, page, ps)
    IN  [linked EXCEPT !.names =
            [n \in DOMAIN @ \cup DOMAIN k.names |->
                (IF n \in DOMAIN @ THEN @[n] ELSE {}) \cup
                (IF n \in DOMAIN k.names THEN k.names[n] ELSE {})]]

dbadd(dba, page, k) ==
    [dba EXCEPT !.pages = Append(@, page),
                !.macros = [m \in Keys |-> IF m \in k.keys
                              THEN Append(@[m], Len(dba.pages) + 1)
                              ELSE @[m]]]

\* Delete the pages that have one of the files in the mlinks table.
dbprune(dba, t) ==
    [dba EXCEPT !.gone = @ \cup
        {i \in DOMAIN dba.pages :
            \E j \in DOMAIN dba.pages[i].files :
                dba.pages[i].files[j] \in DOMAIN t.owner}]

-----------------------------------------------------------------------------
(* One turn of the loop of mpages_merge(), for the page with inode i.      *)

\* Variation: the database is not told about the links.
move_links_only(s, i, ps, dest) ==
    LET t == s.t
        target == t.owner[dest]
        list == t.links[target] \o ps
    IN  [s EXCEPT
            !.t.owner = [p \in DOMAIN @ |->
                            IF Contains(ps, p) THEN target ELSE @[p]],
            !.t.links = [j \in DOMAIN @ |->
                            IF j = i THEN <<>>
                            ELSE IF j = target THEN list ELSE @[j]]]

\* All links of i become links of the page that dest belongs to, in the
\* list after dest, and in the database if that page is there already.
\* The list of page i is emptied last, even if it is the same page.
move_links(s, i, ps, dest) ==
    LET t == s.t
        target == t.owner[dest]
        at == IF \E n \in DOMAIN t.links[target] : t.links[target][n] = dest
              THEN SelectInSeq(t.links[target], LAMBDA p : p = dest) ELSE 0
        list == SubSeq(t.links[target], 1, at) \o ps \o
                SubSeq(t.links[target], at + 1, Len(t.links[target]))
    IN  [s EXCEPT
            !.t.owner = [p \in DOMAIN @ |->
                            IF Contains(ps, p) THEN target ELSE @[p]],
            !.t.links = [j \in DOMAIN @ |->
                            IF j = i THEN <<>>
                            ELSE IF j = target /\ at # 0 THEN list ELSE @[j]],
            !.dba.pages = [n \in DOMAIN @ |->
                IF target \in DOMAIN t.done /\ t.done[target] = n
                THEN FoldLeft(dbadd_mlink, @[n], ps) ELSE @[n]]]

\* A new page; documents that are not parsed have link names only.
add_page(s, i, ps, d) ==
    LET parsed == Attr[Head(ps)].dform # "cat" \/ Attr[Head(ps)].fform # "cat"
        manual == parsed /\ d.kind \in {"mdoc", "man"}
        k == IF manual THEN parse_doc(d)
             ELSE IF d.kind = "so" /\ parsed THEN NoKeys
             ELSE [NoKeys EXCEPT !.desc = d.text]
        named == FoldLeft(LAMBDA a, p : putname(a, Attr[p].name, NAME_FILE),
                          k, ps)
        head == IF manual
                THEN [sec |-> d.sec,
                      arch |-> IF d.kind = "mdoc" THEN d.arch
                               ELSE Attr[Head(ps)].arch]
                ELSE [sec |-> Attr[Head(ps)].dsec, arch |-> Attr[Head(ps)].arch]
    IN  [s EXCEPT
            !.dba = dbadd(@, dba_page(ps, named, head), named),
            !.t.links[i] = ps,
            !.t.done = [j \in DOMAIN @ \cup {i} |->
                           IF j = i THEN Len(s.dba.pages) + 1 ELSE @[j]]]

\* s is the database together with the tables; the file is opened now,
\* which fails if it has been removed since the scan.
mpage_merge(s, i, use_all, tree) ==
    LET ps == mlinks_undupe(s.t, i, use_all)
        d == Doc[tree[Head(ps)]]
        parsed == Attr[Head(ps)].dform # "cat" \/ Attr[Head(ps)].fform # "cat"
    IN  IF ps = <<>> THEN [s EXCEPT !.t.links[i] = <<>>]
        ELSE IF tree[Head(ps)] \notin Inodes THEN [s EXCEPT !.t.links[i] = ps]
        ELSE IF parsed /\ d.kind = "so" /\ d.dest \in DOMAIN s.t.owner
             THEN move_links(s, i, ps, d.dest)
        ELSE add_page(s, i, ps, d)

-----------------------------------------------------------------------------
(* The database on disk: the pages that are not deleted, renumbered.       *)

NoDatabase == [pages |-> <<>>, macros |-> [k \in Keys |-> <<>>]]

Live(dba) == SelectSeq([i \in DOMAIN dba.pages |-> i],
                       LAMBDA i : i \notin dba.gone)

\* Variation: pages keep their numbers.
getpos_old(dba, i) == IF i \in dba.gone THEN 0 ELSE i

\* Position of a page in the file, 0 for one that is not written.
getpos(dba, i) ==
    IF i \in dba.gone THEN 0 ELSE SelectInSeq(Live(dba), LAMBDA j : j = i)

dba_pages_write(dba) ==
    [n \in DOMAIN Live(dba) |-> dba.pages[Live(dba)[n]]]

dba_macro_write(dba, k) ==
    SelectSeq([n \in DOMAIN dba.macros[k] |-> getpos(dba, dba.macros[k][n])],
              LAMBDA pos : pos # 0)

dba_write(dba) ==
    [pages |-> dba_pages_write(dba),
     macros |-> [k \in Keys |-> dba_macro_write(dba, k)]]

dba_read(disk) ==
    [pages |-> disk.pages, gone |-> {}, macros |-> disk.macros]
=============================================================================
