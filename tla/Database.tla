------------------------------ MODULE Database ------------------------------
(***************************************************************************)
(* Manual page trees, makewhatis(8), and the programs that read the        *)
(* database: makewhatis(8) builds or updates the database of a tree while  *)
(* files are being installed and removed, with the algorithms of           *)
(* Makewhatis and the file replacement of Dbfile; man(1) and apropos(1)    *)
(* search what they find there, see Mansearch.                             *)
(***************************************************************************)
EXTENDS Mansearch, Dbfile

CONSTANTS
    Installable,    \* of each path: the inodes that may be installed there
    FirstTrees,     \* trees to start with
    MaxRuns,        \* bound on the number of runs of makewhatis(8)
    MaxChanges,     \* bound on the number of changes to the tree
    ArgLists        \* lists of file arguments to try

NoInode == 0

VARIABLES
    tree,           \* the inode of each path, or NoInode
    run,            \* the state of makewhatis(8) before dbwrite()
    runs, changes   \* numbers of runs and of changes so far

vars == <<dbvars, tree, run, runs, changes>>

\* phase: "none", "scan" or "merge"; op; file arguments; use_all;
\* s: database and tables; rest: pages still to be merged;
\* before: the database that was read; steady: the tree has not changed
\* since the scan.
Idle == [phase |-> "none", op |-> "default", args |-> <<>>, use_all |-> FALSE,
         s |-> [dba |-> dba_new, t |-> EmptyTables], rest |-> <<>>,
         before |-> NoDatabase, steady |-> TRUE]

Init ==
    /\ DbInit
    /\ tree \in FirstTrees
    /\ run = [w \in Writers |-> Idle]
    /\ runs = 0
    /\ changes = 0

-----------------------------------------------------------------------------

\* A file is installed, or replaced by another one, or removed; before the
\* first run of makewhatis(8), that is covered by the choice of first trees.
Change(p, i) ==
    /\ runs > 0
    /\ changes < MaxChanges
    /\ i # tree[p]
    /\ changes' = changes + 1
    /\ tree' = [tree EXCEPT ![p] = i]
    /\ run' = [w \in Writers |-> [run[w] EXCEPT !.steady = FALSE]]
    /\ UNCHANGED <<dbvars, runs>>

\* makewhatis dir, makewhatis -a dir, makewhatis -d dir file ...,
\* makewhatis -u dir file ...
Start(w, op, args, use_all) ==
    /\ runs < MaxRuns
    /\ run[w].phase = "none"
    /\ pc[w] = "idle"
    /\ runs' = runs + 1
    /\ run' = [run EXCEPT ![w] = [Idle EXCEPT !.phase = "scan", !.op = op,
                                     !.args = args, !.use_all = use_all]]
    /\ UNCHANGED <<dbvars, tree, changes>>

\* dbm_open() finds a complete database.
Readable == db # None /\ file[db].kind = "whole"

\* The command line has been carried out up to mpages_merge().
Loaded(w, dba, t, op, use_all, before) ==
    run' = [run EXCEPT ![w] =
        [@ EXCEPT !.phase = "merge", !.op = op,
                  !.args = IF op = "default" THEN <<>> ELSE @,
                  !.use_all = use_all,
                  !.s = [dba |-> dba, t |-> t],
                  !.rest = IF op = "delete" THEN <<>> ELSE t.order,
                  !.before = before, !.steady = TRUE]]

\* Build a database from scratch, or recreate a missing or corrupt one.
ScanTree(w) ==
    /\ run[w].phase = "scan"
    /\ run[w].op = "default" \/ ~Readable
    /\ Loaded(w, dba_new, treescan(tree, run[w].use_all), "default",
              run[w].use_all, NoDatabase)
    /\ UNCHANGED <<dbvars, tree, runs, changes>>

\* Read the database and forget the pages of the files on the command line.
ReadDatabase(w) ==
    /\ run[w].phase = "scan"
    /\ run[w].op # "default"
    /\ Readable
    /\ \E t \in {scan(tree, run[w].args)} :
          Loaded(w, dbprune(dba_read(file[db].val), t), t, run[w].op, TRUE,
                 file[db].val)
    /\ UNCHANGED <<dbvars, tree, runs, changes>>

\* mpages_merge() comes to the next page.
Merge(w) ==
    /\ run[w].phase = "merge"
    /\ run[w].rest # <<>>
    /\ run' = [run EXCEPT ![w] =
                  [@ EXCEPT !.s = mpage_merge(@, Head(run[w].rest),
                                              run[w].use_all, tree),
                            !.rest = Tail(@)]]
    /\ UNCHANGED <<dbvars, tree, runs, changes>>

\* The database is complete: dbwrite() is called.
Write(w) ==
    /\ run[w].phase = "merge"
    /\ run[w].rest = <<>>
    /\ Begin(w, dba_write(run[w].s.dba))
    /\ run' = [run EXCEPT ![w] = Idle]
    /\ UNCHANGED <<tree, runs, changes>>

\* makewhatis(8) is killed before it begins to write.
Kill(w) ==
    /\ run[w].phase # "none"
    /\ run' = [run EXCEPT ![w] = Idle]
    /\ UNCHANGED <<dbvars, tree, runs, changes>>

Next ==
    \/ \E p \in Paths : \E i \in Installable[p] \cup {NoInode} : Change(p, i)
    \/ \E w \in Writers :
          \/ \E use_all \in BOOLEAN : Start(w, "default", <<>>, use_all)
          \/ \E op \in {"update", "delete"}, args \in ArgLists :
                Start(w, op, args, FALSE)
          \/ ScanTree(w)
          \/ ReadDatabase(w)
          \/ Merge(w)
          \/ Write(w)
          \/ Kill(w)
          \/ (WriteStep(w) \/ Die(w)) /\ UNCHANGED <<tree, run, runs, changes>>
    \/ (Map \/ Unmap) /\ UNCHANGED <<tree, run, runs, changes>>

Spec == Init /\ [][Next]_vars

-----------------------------------------------------------------------------
(* Properties.                                                             *)

Files(page) == {page.files[j] : j \in DOMAIN page.files}

\* The inode that holds the text of path p among the paths ps of the tree,
\* following .so requests, or NoInode if they lead round in a circle.
Text(p, ps) ==
    LET so(q) == /\ Doc[tree[q]].kind = "so"
                 /\ ~(Attr[q].dform = "cat" /\ Attr[q].fform = "cat")
                 /\ Doc[tree[q]].dest \in ps
        step(q) == IF so(q) THEN Doc[tree[q]].dest ELSE q
        last == FoldLeft(LAMBDA q, n : step(q), p,
                         [n \in 1..Cardinality(Paths) |-> n])
    IN  IF so(last) THEN NoInode ELSE tree[last]

\* What a run has to put into the database for the paths it has scanned:
\* one page for each text, with all the files that lead to it.
Classes(ps, use_all) ==
    LET kept == {p \in ps : use_all \/ Attr[p].dform # "cat"
                                    \/ Attr[p].source \notin ps}
    IN  {{p \in kept : Text(p, ps) = i} : i \in {Text(p, ps) : p \in kept}
                                                \ {NoInode}}

(***************************************************************************)
(* mpages_merge() gets the pages right, whatever the order in which hard   *)
(* links and chains of .so files are met: if the tree is left alone during *)
(* the run, the new database has exactly one page for each text among the  *)
(* scanned files, listing all files that lead to it by links or .so        *)
(* requests, and those pages of the old database that are to be kept;      *)
(* makewhatis -u removes pages only.  Kept is a page none of whose files   *)
(* was named as an argument, but also, against makewhatis(8), one of which *)
(* only files were named that do not exist any more: filescan() gives up   *)
(* on them, so a removed file cannot be removed from the database.         *)
(***************************************************************************)
BuildExact ==
    \A w \in Writers :
        LET r == run[w]
            named == {r.args[j] : j \in DOMAIN r.args}
            scanned == {p \in (IF r.op = "default" THEN Paths ELSE named) :
                          /\ tree[p] \in Inodes
                          /\ r.use_all \/ Attr[p].dform # "none"}
            pages == dba_write(r.s.dba).pages
            old == {Files(r.before.pages[n]) : n \in DOMAIN r.before.pages}
        IN  r.phase = "merge" /\ r.rest = <<>> /\ r.steady =>
              /\ {Files(pages[n]) : n \in DOMAIN pages} =
                    {f \in old : f \cap scanned = {}} \cup
                    (IF r.op = "delete" THEN {} ELSE Classes(scanned, r.use_all))
              /\ \A n \in DOMAIN pages : \A p \in Files(pages[n]) :
                    Attr[p].name \in DOMAIN pages[n].names

\* The keys of the document with this description.
KeysOf(desc) ==
    UNION {{d.items[j].arg : j \in {j \in DOMAIN d.items :
                                        d.items[j].mac = "Xr"}} :
              d \in {Doc[i] : i \in {i \in Inodes :
                        /\ Doc[i].kind \in {"mdoc", "man"}
                        /\ \E j \in DOMAIN Doc[i].items :
                              Doc[i].items[j] = [mac |-> "Nd", sec |-> "NAME",
                                                 arg |-> desc]}}}

(***************************************************************************)
(* A database stays consistent through any sequence of updates with dba.c: *)
(* no file belongs to two pages, and although deleting pages renumbers the *)
(* others, the macro tables lead from a key to exactly the pages whose     *)
(* document has it, once each.                                             *)
(***************************************************************************)
DatabaseSound ==
    \A i \in Ids : file[i].kind = "whole" =>
        LET pages == file[i].val.pages
            macros == file[i].val.macros
        IN  /\ \A m, n \in DOMAIN pages :
                  m # n => Files(pages[m]) \cap Files(pages[n]) = {}
            /\ \A k \in Keys :
                  /\ {macros[k][j] : j \in DOMAIN macros[k]} =
                        {n \in DOMAIN pages : k \in KeysOf(pages[n].desc)}
                  /\ IsInjective(macros[k])

-----------------------------------------------------------------------------
(* Queries: expressions as trees, and how a user may write them.           *)

CONSTANTS
    QueryTerms,     \* terms of queries, as words
    Sections        \* the sections fs_search() goes through, in order

Leaf(w) == [op |-> "term", w |-> w]
Join(op, a, b) == [op |-> op, a |-> a, b |-> b]
Queries ==
    UNION {{Leaf(u), Join("and", Leaf(u), Leaf(v)), Join("or", Leaf(u), Leaf(v)),
            Join("or", Leaf(u), Join("and", Leaf(v), Leaf(w))),
            Join("or", Join("and", Leaf(u), Leaf(v)), Leaf(w)),
            Join("and", Leaf(u), Join("or", Leaf(v), Leaf(w))),
            Join("and", Join("or", Leaf(u), Leaf(v)), Leaf(w))} :
        <<u, v, w>> \in {q \in QueryTerms \X QueryTerms \X QueryTerms :
                            q[1] # q[2] /\ q[2] # q[3] /\ q[1] # q[3]}}

RECURSIVE Words(_, _), Holds(_, _, _)

\* The words of a query; "-a" binds more strongly than "-o", and "-o" can
\* be left out.
Words(q, omit) ==
    LET or == IF omit THEN <<>> ELSE <<Word("-o")>>
        group(x) == IF x.op = "or"
                    THEN <<Word("(")>> \o Words(x, omit) \o <<Word(")")>>
                    ELSE Words(x, omit)
    IN  CASE q.op = "term" -> <<q.w>>
          [] q.op = "and" -> group(q.a) \o <<Word("-a")>> \o group(q.b)
          [] q.op = "or" -> Words(q.a, omit) \o or \o Words(q.b, omit)

\* What a query means for page n.
Holds(q, disk, n) ==
    CASE q.op = "term" -> n \in page_match(disk, q.w.key, q.w.val)
      [] q.op = "and" -> Holds(q.a, disk, n) /\ Holds(q.b, disk, n)
      [] q.op = "or" -> Holds(q.a, disk, n) \/ Holds(q.b, disk, n)

Compiled == [q \in Queries, omit \in BOOLEAN |->
                exprcomp(Words(q, omit), 1).e]

\* Other ways to write the words ws of a query, which draw warnings: operators
\* repeated, or in front or behind, parentheses not opened, not closed or empty,
\* and a bad regular expression as the first operand of an operator.
Twice(ws) == FoldLeft(LAMBDA s, w : s \o (IF w.t \in {"-a", "-o"} THEN <<w, w>> ELSE <<w>>),
                      <<>>, ws)
Spellings(ws) ==
    LET op == {Word("-a"), Word("-o")}
        empty == <<Word("("), Word(")")>>
    IN  {Twice(ws), ws \o <<Word(")")>>, <<Word(")")>> \o ws, empty \o ws}
        \cup {<<o>> \o ws : o \in op} \cup {ws \o <<o>> : o \in op}
        \cup {<<Word("bad"), o>> \o ws : o \in op}
        \cup (IF Last(ws).t = ")" THEN {Front(ws)} ELSE {})
Tolerant == \A q \in Queries, omit \in BOOLEAN :
    \A ws \in Spellings(Words(q, omit)) : exprcomp(ws, 1).e = Compiled[q, omit]

Quiet == \A w \in Writers : run[w].phase = "none" /\ pc[w] = "idle"

(***************************************************************************)
(* apropos(1) shows what was asked for: exprcomp() and manmerge() find, in *)
(* the database a reader has mapped, exactly the pages for which the       *)
(* expression holds, leaving out those whose file is gone; superfluous and *)
(* missing words that can be ignored, as the warnings say, do not change   *)
(* what is found.  Not so in the middle of a list joined by "-o": there, a *)
(* bad regular expression or "( )" makes exprcomp() lose what follows.     *)
(***************************************************************************)
SearchExact ==
    /\ Tolerant
    /\ map # None /\ map = db /\ Quiet =>
           LET disk == file[map].val
           IN  \A q \in Queries, omit \in BOOLEAN :
                 mansearch(disk, tree, Compiled[q, omit],
                           [mode |-> "expr", sec |-> "", arch |-> ""]) =
                   {n \in DOMAIN disk.pages :
                       /\ Holds(q, disk, n)
                       /\ tree[Head(disk.pages[n].files)] \in Inodes}

\* The database man(1) would use.
Usable == IF Readable THEN file[db].val ELSE NoDatabase

\* Files fs_search() is able to find by their names.
Findable(p) == Attr[p].dform # "none" /\ Attr[p].arch = ""

(***************************************************************************)
(* man(1) copes with a missing or outdated database, whichever call failed *)
(* when it was replaced: a search for the name of an installed manual page *)
(* shows something, so that no page is hidden, and the files it shows      *)
(* exist.  Pages in directories for one architecture are left out.         *)
(***************************************************************************)
ManFinds ==
    Quiet =>
      \A p \in Paths : Findable(p) /\ tree[p] \in Inodes =>
        LET shown == man(Usable, tree, "", Attr[p].name, Sections)
        IN  shown # {} /\ \A f \in shown : tree[f] \in Inodes
=============================================================================
