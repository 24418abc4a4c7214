------------------------------- MODULE Dbfile -------------------------------
(***************************************************************************)
(* The database file of one manual page tree.  makewhatis(8) replaces it   *)
(* by writing "mandoc.db~" and renaming that file (dbwrite() in            *)
(* mandocdb.c, dba_write() in dba.c); man(1) and apropos(1) map it into    *)
(* memory (dbm_map() in dbm_map.c).  The two names and the file objects    *)
(* behind them are kept apart, because a renamed or unlinked file lives on *)
(* as long as some process has it open, and because two processes that     *)
(* open "mandoc.db~" for writing get the same object.                      *)
(***************************************************************************)
EXTENDS Naturals

CONSTANTS
    Writers,    \* processes running makewhatis(8)
    Values,     \* the databases that can be written
    NoPages,    \* the one of them that has no pages
    Ids,        \* file objects
    None        \* no file object

ASSUME IdsAssumption == None \notin Ids
ASSUME NoPagesAssumption == NoPages \in Values

VARIABLES
    file,       \* contents of the file objects
    db,         \* the object called MANDOC_DB
    tmp,        \* the object called MANDOC_DB "~"
    map,        \* the object the reader has mapped
    pc,         \* where each writer is in dbwrite()
    fd,         \* the object each writer has open
    new,        \* the database each writer has in memory
    mix         \* "yes": another process has the same object open

dbvars == <<file, db, tmp, map, pc, fd, new, mix>>

\* "partial": truncated and not yet written completely;
\* "mixed": output of two processes on top of each other.
Contents == [kind : {"partial", "mixed", "whole"}, val : Values]

Blank == [kind |-> "partial", val |-> NoPages]

DbTypeOK ==
    /\ file \in [Ids -> Contents]
    /\ db \in Ids \cup {None}
    /\ tmp \in Ids \cup {None}
    /\ map \in Ids \cup {None}
    /\ pc \in [Writers -> {"idle", "open", "write", "rename", "compare"}]
    /\ fd \in [Writers -> Ids \cup {None}]
    /\ new \in [Writers -> Values]
    /\ mix \in [Writers -> {"no", "yes"}]

DbInit ==
    /\ file = [i \in Ids |-> Blank]
    /\ db = None
    /\ tmp = None
    /\ map = None
    /\ pc = [w \in Writers |-> "idle"]
    /\ fd = [w \in Writers |-> None]
    /\ new = [w \in Writers |-> NoPages]
    /\ mix = [w \in Writers |-> "no"]

-----------------------------------------------------------------------------

\* An object no name, no mapping and no open file refers to.
Unused(i) ==
    i # db /\ i # tmp /\ i # map /\ \A w \in Writers : fd[w] # i

\* The kernel frees the objects that have become unused.
Reclaim == file' = [i \in Ids |-> IF Unused(i)' THEN Blank ELSE file[i]]

\* dbwrite() is called with database v.
Begin(w, v) ==
    /\ pc[w] = "idle"
    /\ pc' = [pc EXCEPT ![w] = "open"]
    /\ new' = [new EXCEPT ![w] = v]
    /\ UNCHANGED <<file, db, tmp, map, fd, mix>>

\* The process is gone or done with the database.
Leave(w) ==
    /\ pc' = [pc EXCEPT ![w] = "idle"]
    /\ fd' = [fd EXCEPT ![w] = None]
    /\ new' = [new EXCEPT ![w] = NoPages]
    /\ mix' = [mix EXCEPT ![w] = "no"]

\* Do not write empty databases, and delete an existing one,
\* unless that fails, which is only reported.
UnlinkEmpty(w) ==
    /\ pc[w] = "open"
    /\ new[w] = NoPages
    /\ db' \in {None, db}
    /\ Leave(w)
    /\ UNCHANGED <<tmp, map>>
    /\ Reclaim

\* Variation: a database that exists is written in place.
OpenInPlace(w) ==
    /\ pc[w] = "open"
    /\ new[w] # NoPages
    /\ \E i \in Ids :
          /\ IF db # None THEN i = db ELSE Unused(i)
          /\ tmp' = i
          /\ file' = [file EXCEPT ![i] = Blank]
          /\ fd' = [fd EXCEPT ![w] = i]
    /\ pc' = [pc EXCEPT ![w] = "write"]
    /\ UNCHANGED <<db, map, new, mix>>

\* fopen("mandoc.db~", "w"): creates the file or truncates the one there.
OpenTmp(w) ==
    /\ pc[w] = "open"
    /\ new[w] # NoPages
    /\ \E i \in Ids :
          /\ IF tmp # None THEN i = tmp ELSE Unused(i)
          /\ tmp' = i
          /\ file' = [file EXCEPT ![i] = Blank]
          /\ fd' = [fd EXCEPT ![w] = i]
          /\ mix' = [v \in Writers |->
                        IF \E u \in Writers : u # w /\ fd[u] = i
                                              /\ v \in {u, w}
                        THEN "yes" ELSE mix[v]]
    /\ pc' = [pc EXCEPT ![w] = "write"]
    /\ UNCHANGED <<db, map, new>>

\* fopen(3) fails, usually because the directory cannot be written.
OpenFails(w) ==
    /\ pc[w] = "open"
    /\ new[w] # NoPages
    /\ pc' = [pc EXCEPT ![w] = "compare"]
    /\ UNCHANGED <<file, db, tmp, map, fd, new, mix>>

\* A finished file, or what two processes writing the same file produce.
Written(w, c) ==
    \/ c = [kind |-> "whole", val |-> new[w]]
    \/ mix[w] = "yes" /\ c = [kind |-> "mixed", val |-> NoPages]

\* dba_write() completes the file and dba_close() flushes it.
CloseTmp(w) ==
    /\ pc[w] = "write"
    /\ \E c \in {[kind |-> "whole", val |-> new[w]],
                 [kind |-> "mixed", val |-> NoPages]} :
          /\ Written(w, c)
          /\ file' = [file EXCEPT ![fd[w]] = c]
    /\ fd' = [fd EXCEPT ![w] = None]
    /\ pc' = [pc EXCEPT ![w] = "rename"]
    /\ UNCHANGED <<db, tmp, map, new, mix>>

\* fclose(3) fails: dba_write() unlinks the name and reports the error.
CloseFails(w) ==
    /\ pc[w] = "write"
    /\ fd' = [fd EXCEPT ![w] = None]
    /\ tmp' = None
    /\ pc' = [pc EXCEPT ![w] = "compare"]
    /\ UNCHANGED <<db, map, new, mix>>
    /\ Reclaim

\* Atomically move the file into place.
Rename(w) ==
    /\ pc[w] = "rename"
    /\ tmp # None
    /\ db' = tmp
    /\ tmp' = None
    /\ Leave(w)
    /\ UNCHANGED map
    /\ Reclaim

\* rename(2) fails, for example because the file is gone.
RenameFails(w) ==
    /\ pc[w] = "rename"
    /\ tmp' = None
    /\ Leave(w)
    /\ UNCHANGED <<db, map>>
    /\ Reclaim

\* The new database, written to a private directory below /tmp, is
\* compared with the old one; only the exit status depends on the result.
Compare(w) ==
    /\ pc[w] = "compare"
    /\ Leave(w)
    /\ UNCHANGED <<file, db, tmp, map>>

\* The process is killed, or one of the dba_*_write() functions calls
\* err(3); files stay as they are.
Die(w) ==
    /\ pc[w] # "idle"
    /\ Leave(w)
    /\ UNCHANGED <<db, tmp, map>>
    /\ Reclaim

\* dbm_map() verifies both magic numbers and the size of the file,
\* so it opens nothing but a complete database.
Map ==
    /\ map = None
    /\ db # None
    /\ file[db].kind = "whole"
    /\ map' = db
    /\ UNCHANGED <<file, db, tmp, pc, fd, new, mix>>

\* dbm_unmap()
Unmap ==
    /\ map # None
    /\ map' = None
    /\ UNCHANGED <<db, tmp, pc, fd, new, mix>>
    /\ Reclaim

\* The steps of dbwrite() after it has been called.
WriteStep(w) ==
    \/ UnlinkEmpty(w)
    \/ OpenTmp(w)
    \/ OpenFails(w)
    \/ CloseTmp(w)
    \/ CloseFails(w)
    \/ Rename(w)
    \/ RenameFails(w)
    \/ Compare(w)

DbNext ==
    \/ \E w \in Writers : \E v \in Values : Begin(w, v)
    \/ \E w \in Writers : WriteStep(w) \/ Die(w)
    \/ Map
    \/ Unmap

DbSpec == DbInit /\ [][DbNext]_dbvars

-----------------------------------------------------------------------------

Whole(i) == i = None \/ file[i].kind = "whole"

(***************************************************************************)
(* dbwrite() builds the database in a temporary file and moves it into     *)
(* place atomically: whatever MANDOC_DB names is a complete database at    *)
(* all times, after any failure and any crash, and a database that a       *)
(* reader has mapped stays complete under its feet.                        *)
(***************************************************************************)
WholeDatabase == Whole(db) /\ Whole(map)
=============================================================================
