---------------------------- MODULE PagerProofs ----------------------------
(***************************************************************************)
(* Proofs about Pager, for every number of manual pages and for output to  *)
(* temporary files and to files of the user alike.                         *)
(***************************************************************************)
EXTENDS Pager, TLAPS

Setup == {"start", "i_sig", "i_ofn", "i_tfn", "i_dup", "i_fail"}
Formatting == {"pledge", "args", "file", "close"}
Living == {"forked", "run", "stop"}

\* Which temporary files can exist at which step of man.
Disk ==
  /\ ofile = "tmp" => ofn = "tmp"
  /\ tfile = "tmp" => tfn = "tmp"
  /\ pc \in {"start", "i_sig", "i_ofn"} => ofile = "none"
  /\ pc \in {"start", "i_sig", "i_ofn", "i_tfn"} => tfile = "none"
  /\ pc = "i_tfn" => (ofile = "tmp" <=> outname = "tmp")
  /\ pc = "i_dup" => (ofile = "tmp" <=> outname = "tmp") /\ (tfile = "tmp" <=> tagname = "tmp")
  /\ pc = "u_tfn" => ofile = "none"
  /\ pc \in {"i_fail", "f_drop", "end"} => ofile = "none" /\ tfile = "none"
  /\ pc \in Formatting /\ tagfiles = "NULL" => ofile = "none" /\ tfile = "none"
  /\ pc \in Formatting /\ tagfiles = "set" =>
       (ofile = "tmp" <=> outname = "tmp") /\ (tfile = "tmp" <=> tagname = "tmp")
  /\ pc \in Setup => tagfiles = "NULL"
  /\ ret = "i_fail" /\ pc \in {"u_get", "u_set", "u_ofn", "u_tfn"} => tagfiles = "NULL"
  /\ st = "dead" => pc \in {"end", "lost"}

\* What man knows of the pager.
Paging ==
  /\ pager_pid = "pager" => child # "none"
  /\ pc \in Setup \cup Formatting \cup {"f_drop", "r_init", "r_fork"} => child = "none"
  /\ pc \in Setup \cup Formatting \cup {"f_drop", "r_init", "r_fork", "lost"} =>
       pager_pid = "none"
  /\ pc \in {"r_setpgid", "r_first", "r_record"} => pager_pid = "none" /\ child # "none"
  /\ pc \in {"r_get", "r_kill"} /\ pager_pid = "none" => child = "none"
  /\ pc \in {"r_back", "r_give", "r_cont", "r_wait"} => pager_pid = "pager"
  /\ ret # "die" /\ pc \in {"u_get", "u_set", "u_ofn", "u_tfn", "end"} => child \in {"none", "ended"}
  /\ child = "none" /\ ret # "die" /\ pc \in {"r_init", "r_get", "r_kill", "r_fork"} =>
       ofile = "tmp" /\ tfile = "tmp" /\ ofd = "closed" /\ tfs = "closed"
  /\ child \in Living /\ ret # "die" => ofile = "tmp" /\ tfile = "tmp"
  /\ ret = "die" => pc \in {"u_get", "u_set", "u_ofn", "u_tfn", "end"}
  /\ ret \in {"i_fail", "f_drop"} /\ pc \in {"u_get", "u_set", "u_ofn", "u_tfn"} =>
       child = "none" /\ pager_pid = "none"

\* Who may have the terminal.
Terminal ==
  /\ pc \in {"r_get", "r_back", "r_kill", "r_fork", "r_setpgid", "r_first",
             "r_record", "r_give", "r_cont", "r_wait", "u_set"} => tcpgid # "unset"
  /\ child # "none" => tcpgid # "unset"
  /\ tty = "pager" => pager_pid = "pager" \/ pc \in {"r_record", "lost"} \/ ret = "die"
  /\ pc \in {"u_ofn", "u_tfn", "end"} /\ pager_pid = "pager" => tty # "pager"

\* The inductive invariant.
IInv == TypeOK /\ Disk /\ Paging /\ Terminal

-----------------------------------------------------------------------------
USE PagerAssumption

\* The initial states satisfy the invariant.
LEMMA InitEstablishes == Init => IInv
  BY DEF Init, IInv, TypeOK, Disk, Paging, Terminal, Setup, Formatting, Living

\* Every step of man preserves the invariant.
LEMMA ManPreserves ==
  ASSUME IInv, ManStep
  PROVE  IInv'
<1> USE DEF IInv, TypeOK, Disk, Paging, Terminal, Setup, Formatting, Living, At, Goto,
            Unlink, Exit, conf, tmp, fds, pager, jobs
<1>1. CASE UnlinkGet
  BY <1>1 DEF UnlinkGet
<1>2. CASE UnlinkSet
  BY <1>2 DEF UnlinkSet
<1>3. CASE UnlinkOutput
  BY <1>3 DEF UnlinkOutput
<1>4. CASE UnlinkTags
  BY <1>4 DEF UnlinkTags
<1>5. CASE FindPager
  BY <1>5 DEF FindPager
<1>6. CASE InitSignals
  BY <1>6 DEF InitSignals
<1>7. CASE CreateOutput
  BY <1>7 DEF CreateOutput
<1>8. CASE CreateTags
  BY <1>8 DEF CreateTags
<1>9. CASE Redirect
  BY <1>9 DEF Redirect
<1>10. CASE InitFails
  BY <1>10 DEF InitFails
<1>11. CASE Pledge
  BY <1>11 DEF Pledge, Abandon
<1>12. CASE Arguments
  BY <1>12 DEF Arguments, Abandon
<1>13. CASE File
  BY <1>13 DEF File
<1>14. CASE WriteError
  BY <1>14 DEF WriteError
<1>15. CASE DropFiles
  BY <1>15 DEF DropFiles
<1>16. CASE Close
  BY <1>16 DEF Close
<1>17. CASE RunPager
  BY <1>17 DEF RunPager
<1>18. CASE GetForeground
  BY <1>18 DEF GetForeground
<1>19. CASE TakeBack
  BY <1>19 DEF TakeBack
<1>20. CASE StopJob
  BY <1>20 DEF StopJob
<1>21. CASE Fork
  BY <1>21 DEF Fork, Abandon
<1>22. CASE SetPgid
  BY <1>22 DEF SetPgid
<1>23. CASE GiveFirst
  BY <1>23 DEF GiveFirst
<1>24. CASE RecordPager
  BY <1>24 DEF RecordPager, Abandon
<1>25. CASE Give
  BY <1>25 DEF Give
<1>26. CASE Continue
  BY <1>26 DEF Continue
<1>27. CASE Wait
  BY <1>27 DEF Wait
<1> QED
  BY <1>1, <1>2, <1>3, <1>4, <1>5, <1>6, <1>7, <1>8, <1>9, <1>10, <1>11, <1>12, <1>13, <1>14,
     <1>15, <1>16, <1>17, <1>18, <1>19, <1>20, <1>21, <1>22, <1>23, <1>24, <1>25, <1>26, <1>27 DEF ManStep

\* Every step of the pager, the user and the shell preserves the invariant.
LEMMA OthersPreserve ==
  ASSUME IInv, Next, ~ManStep
  PROVE  IInv'
<1> USE DEF IInv, TypeOK, Disk, Paging, Terminal, Setup, Formatting, Living,
            Unlink, Exit, conf, tmp, fds, pager, jobs
<1>1. CASE Exec
  BY <1>1 DEF Exec
<1>2. CASE ChildKilled
  BY <1>2 DEF ChildKilled
<1>3. CASE PagerStops
  BY <1>3 DEF PagerStops
<1>4. CASE PagerEnds
  BY <1>4 DEF PagerEnds
<1>5. CASE tag_signal
  BY <1>5 DEF tag_signal
<1>6. CASE UserStops
  BY <1>6 DEF UserStops
<1>7. CASE ShellPrompts
  BY <1>7 DEF ShellPrompts
<1>8. CASE ShellFg
  BY <1>8 DEF ShellFg
<1>9. CASE ShellBg
  BY <1>9 DEF ShellBg
<1>10. CASE ShellOther
  BY <1>10 DEF ShellOther
<1> QED
  BY <1>1, <1>2, <1>3, <1>4, <1>5, <1>6, <1>7, <1>8, <1>9, <1>10 DEF Next

\* The invariant holds in every state, with any order of system calls of man,
\* commands to the shell, keys and signals.
THEOREM Invariance == Spec => []IInv
<1>1. Init => IInv
  BY InitEstablishes
<1>2. IInv /\ [Next]_vars => IInv'
  <2> SUFFICES ASSUME IInv, [Next]_vars PROVE IInv'
    OBVIOUS
  <2>1. CASE ManStep
    BY <2>1, ManPreserves
  <2>2. CASE Next /\ ~ManStep
    BY <2>2, OthersPreserve
  <2>3. CASE UNCHANGED vars
    BY <2>3 DEF vars, IInv, TypeOK, Disk, Paging, Terminal, Setup, Formatting, Living
  <2> QED
    BY <2>1, <2>2, <2>3
<1> QED
  BY <1>1, <1>2, PTL DEF Spec

\* Temporary files do not survive man, except if pledge(2), unveil(2) or fork(2)
\* fails or man ends with a usage message, where term_tag_unlink() is not called.
THEOREM TempFilesRemoved == Spec => []TempFiles
<1>1. IInv => TempFiles
  BY DEF IInv, TypeOK, Disk, TempFiles
<1> QED
  BY <1>1, Invariance, PTL

\* The pager finds both files, complete, as long as nobody was killed.
THEOREM PagerFindsFiles == Spec => []PagerHasFiles
<1>1. IInv => PagerHasFiles
  BY DEF IInv, TypeOK, Disk, Paging, Setup, Formatting, Living, PagerHasFiles
<1> QED
  BY <1>1, Invariance, PTL

\* The terminal does not stay with the process group of a pager that ended.
THEOREM TerminalReturns == Spec => []TerminalGivenBack
<1>1. IInv => TerminalGivenBack
  BY DEF IInv, TypeOK, Disk, Paging, Terminal, Setup, Formatting, Living, TerminalGivenBack
<1> QED
  BY <1>1, Invariance, PTL
=============================================================================
