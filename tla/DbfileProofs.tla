---------------------------- MODULE DbfileProofs ----------------------------
(***************************************************************************)
(* A single makewhatis(8) process at a time keeps the database file whole, *)
(* whatever fails and whenever it dies.  Two of them do not: see the       *)
(* run database_race.                                                      *)
(***************************************************************************)
EXTENDS Dbfile, TLAPS

\* The object called MANDOC_DB "~" is neither installed nor mapped.
Apart == tmp # None => tmp # db /\ tmp # map

\* A writer writes to the object called MANDOC_DB "~" and shares it with
\* nobody, and what it is about to rename is complete.
Progress ==
    \A w \in Writers :
        /\ mix[w] = "no"
        /\ fd[w] # None <=> pc[w] = "write"
        /\ pc[w] = "write" => fd[w] = tmp
        /\ pc[w] = "rename" /\ tmp # None => file[tmp].kind = "whole"

\* WholeDatabase alone is not inductive: Rename needs Progress, and
\* OpenTmp and CloseTmp need Apart.
DbInv == DbTypeOK /\ WholeDatabase /\ Apart /\ Progress

OneWriter == \A v, w \in Writers : v = w

LEMMA DbInitEstablishes == DbInit => DbInv
  BY IdsAssumption, NoPagesAssumption
  DEF DbInit, DbInv, DbTypeOK, Contents, Blank, WholeDatabase, Whole, Apart, Progress

\* Freeing unused objects leaves alone what a name or a reader refers to.
LEMMA ReclaimKeeps ==
  ASSUME DbTypeOK, Reclaim
  PROVE  /\ file' \in [Ids -> Contents]
         /\ \A i \in Ids : i \in {db', tmp', map'} => file'[i] = file[i]
  BY NoPagesAssumption DEF DbTypeOK, Reclaim, Unused, Contents, Blank

LEMMA OpenTmpPreserves ==
  ASSUME DbInv, OneWriter, NEW w \in Writers, OpenTmp(w)
  PROVE  DbInv'
<1> USE DEF DbInv, OpenTmp
<1>1. PICK i \in Ids :
          /\ IF tmp # None THEN i = tmp ELSE Unused(i)
          /\ tmp' = i
          /\ file' = [file EXCEPT ![i] = Blank]
          /\ fd' = [fd EXCEPT ![w] = i]
          /\ mix' = [v \in Writers |->
                        IF \E u \in Writers : u # w /\ fd[u] = i
                                              /\ v \in {u, w}
                        THEN "yes" ELSE mix[v]]
  OBVIOUS
<1>2. i # None /\ i # db /\ i # map
  BY <1>1, IdsAssumption DEF Apart, Unused
<1>3. \A v \in Writers : mix'[v] = "no"
  BY <1>1 DEF OneWriter, Progress
<1>4. DbTypeOK'
  BY <1>1, <1>3, NoPagesAssumption DEF DbTypeOK, Contents, Blank
<1>5. WholeDatabase'
  BY <1>1, <1>2 DEF WholeDatabase, Whole, DbTypeOK
<1>6. Apart'
  BY <1>1, <1>2 DEF Apart
<1>7. Progress'
  BY <1>1, <1>2, <1>3 DEF Progress, OneWriter, DbTypeOK
<1> QED BY <1>4, <1>5, <1>6, <1>7

LEMMA CloseTmpPreserves ==
  ASSUME DbInv, OneWriter, NEW w \in Writers, CloseTmp(w)
  PROVE  DbInv'
<1> USE DEF DbInv, CloseTmp
<1>1. file' = [file EXCEPT ![fd[w]] = [kind |-> "whole", val |-> new[w]]]
  BY DEF Progress, Written
<1>2. fd[w] \in Ids /\ fd[w] = tmp /\ fd[w] # db /\ fd[w] # map
  BY DEF Progress, Apart, DbTypeOK
<1>3. DbTypeOK'
  BY <1>1, <1>2 DEF DbTypeOK, Contents
<1>4. WholeDatabase' /\ Apart'
  BY <1>1, <1>2 DEF WholeDatabase, Whole, DbTypeOK, Apart
<1>5. Progress'
  BY <1>1, <1>2 DEF Progress, OneWriter, DbTypeOK
<1> QED BY <1>3, <1>4, <1>5

LEMMA OtherStepsPreserve ==
  ASSUME DbInv, OneWriter, NEW w \in Writers,
         \/ \E v \in Values : Begin(w, v)
         \/ UnlinkEmpty(w) \/ OpenFails(w) \/ CloseFails(w)
         \/ Rename(w) \/ RenameFails(w) \/ Compare(w) \/ Die(w)
  PROVE  DbInv'
<1> USE DEF DbInv
<1>1. CASE \E v \in Values : Begin(w, v)
  BY <1>1 DEF Begin, DbTypeOK, WholeDatabase, Whole, Apart, Progress
<1>2. CASE UnlinkEmpty(w)
  BY <1>2, NoPagesAssumption, ReclaimKeeps
  DEF UnlinkEmpty, Leave, DbTypeOK, WholeDatabase, Whole, Apart, Progress
<1>3. CASE OpenFails(w)
  BY <1>3 DEF OpenFails, DbTypeOK, WholeDatabase, Whole, Apart, Progress
<1>4. CASE CloseFails(w)
  BY <1>4, ReclaimKeeps DEF CloseFails, DbTypeOK, WholeDatabase, Whole, Apart, Progress,
              OneWriter
<1>5. CASE Rename(w)
  BY <1>5, NoPagesAssumption, ReclaimKeeps
  DEF Rename, Leave, DbTypeOK, WholeDatabase, Whole, Apart, Progress, OneWriter
<1>6. CASE RenameFails(w)
  BY <1>6, NoPagesAssumption, ReclaimKeeps
  DEF RenameFails, Leave, DbTypeOK, WholeDatabase, Whole, Apart, Progress,
      OneWriter
<1>7. CASE Compare(w)
  BY <1>7, NoPagesAssumption
  DEF Compare, Leave, DbTypeOK, WholeDatabase, Whole, Apart, Progress
<1>8. CASE Die(w)
  BY <1>8, NoPagesAssumption, ReclaimKeeps
  DEF Die, Leave, DbTypeOK, WholeDatabase, Whole, Apart, Progress
<1> QED BY <1>1, <1>2, <1>3, <1>4, <1>5, <1>6, <1>7, <1>8

LEMMA ReaderPreserves ==
  ASSUME DbInv, Map \/ Unmap
  PROVE  DbInv'
<1> USE DEF DbInv
<1>1. CASE Map
  BY <1>1 DEF Map, DbTypeOK, WholeDatabase, Whole, Apart, Progress
<1>2. CASE Unmap
  BY <1>2, ReclaimKeeps DEF Unmap, DbTypeOK, WholeDatabase, Whole, Apart, Progress
<1> QED BY <1>1, <1>2

(***************************************************************************)
(* With one makewhatis(8) process at a time, what MANDOC_DB names, and     *)
(* what a reader has mapped, is a complete database in every state: no     *)
(* failure of open, write, close, rename or unlink and no crash of         *)
(* dbwrite() leaves a partial file there, for any databases, any number of *)
(* updates and any number of file objects.                                 *)
(***************************************************************************)
THEOREM DatabaseStaysWhole ==
  ASSUME OneWriter
  PROVE  DbSpec => []WholeDatabase
<1>1. DbInit => DbInv
  BY DbInitEstablishes
<1>2. DbInv /\ [DbNext]_dbvars => DbInv'
  <2> SUFFICES ASSUME DbInv, [DbNext]_dbvars PROVE DbInv'
    OBVIOUS
  <2>1. CASE UNCHANGED dbvars
    BY <2>1 DEF dbvars, DbInv, DbTypeOK, WholeDatabase, Whole, Apart, Progress
  <2>2. CASE \E w \in Writers : \E v \in Values : Begin(w, v)
    BY <2>2, OtherStepsPreserve
  <2>3. CASE \E w \in Writers : WriteStep(w) \/ Die(w)
    BY <2>3, OtherStepsPreserve, OpenTmpPreserves, CloseTmpPreserves
    DEF WriteStep
  <2>4. CASE Map \/ Unmap
    BY <2>4, ReaderPreserves
  <2> QED BY <2>1, <2>2, <2>3, <2>4 DEF DbNext
<1>3. DbInv => WholeDatabase
  BY DEF DbInv
<1> QED BY <1>1, <1>2, <1>3, PTL DEF DbSpec
=============================================================================
