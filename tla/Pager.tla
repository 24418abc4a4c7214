------------------------------- MODULE Pager -------------------------------
(***************************************************************************)
(* man(1) with a pager: the main program (main.c) from the choice of the   *)
(* pager to the end, and the temporary files it passes to the pager        *)
(* (term_tag.c).  The formatted pages go to a file in /tmp, the tags to    *)
(* another one; afterwards, man gives the terminal to the pager, stops     *)
(* and continues together with it, takes the terminal back when the pager  *)
(* has ended, and deletes the files.                                       *)
(*                                                                         *)
(* Four actors run: man, the pager, the interactive shell that started     *)
(* man, and the user, who types ^Z, ^C, fg and bg and sends signals at any *)
(* time.  man is one step per system call that another actor can notice.   *)
(* The process groups are "shell", "job" (man and the script that runs     *)
(* it, if any), "pager" and "other", an unrelated job of the shell.        *)
(***************************************************************************)
EXTENDS Naturals

CONSTANTS MaxFiles,   \* bound: manual pages to format
          Names       \* where the output goes: "tmp" or a file "user" of the user

ASSUME PagerAssumption == MaxFiles \in Nat /\ Names \subseteq {"tmp", "user"}

VARIABLES
  pc,        \* the next step of man
  ret,       \* where term_tag_unlink() returns to
  st,        \* man is "run"ning, "stop"ped or "dead"
  files,     \* manual pages that remain to be formatted
  ressz,     \* manual pages that were found
  outname, tagname,    \* conf.output.outfilename and tagfilename; "tmp": NULL
  tagfiles,  \* outst.tag_files: "NULL" or "set"
  ofn, tfn,  \* tag_files.ofn and tfn: "none", "tmp", "user"
  ofile, tfile,        \* the files in /tmp: "none" or "tmp"
  ofd, tfs,  \* the saved standard output and the tag file: "open" or "closed"
  tcpgid,    \* tag_files.tcpgid, "unset" for -1
  pager_pid, \* tag_files.pager_pid: "none" or "pager"
  signum,    \* the signal that stopped the pager
  tty,       \* the foreground process group of the terminal
  parent,    \* man was started by the "shell" or by a "script"
  shell,     \* the shell "wait"s for the job or shows a "prompt"
  child,     \* the pager: "none", "forked", "run", "stop" or "ended"
  cgrp,      \* its process group
  csig, news \* the signal that stopped it, waitpid(2) has not told yet

conf == <<ressz, outname, tagname, parent>>
tmp == <<ofn, tfn, ofile, tfile>>
fds == <<ofd, tfs>>
pager == <<child, cgrp, csig, news>>
jobs == <<st, shell>>
vars == <<pc, ret, st, files, ressz, outname, tagname, tagfiles, ofn, tfn, ofile,
          tfile, ofd, tfs, tcpgid, pager_pid, signum, tty, parent, shell,
          child, cgrp, csig, news>>

Init ==
  /\ pc = "start" /\ ret = "exit" /\ st = "run"
  /\ files \in 0..MaxFiles /\ ressz = files
  /\ outname \in Names /\ tagname \in Names
  /\ tagfiles = "NULL" /\ ofn = "none" /\ tfn = "none" /\ ofile = "none" /\ tfile = "none"
  /\ ofd = "closed" /\ tfs = "closed" /\ tcpgid = "unset" /\ pager_pid = "none"
  /\ signum = "SIGSTOP" /\ parent \in {"shell", "script"}
  /\ \E fg \in BOOLEAN : /\ tty = IF fg THEN "job" ELSE "shell"
                         /\ shell = IF fg THEN "wait" ELSE "prompt"
  /\ child = "none" /\ cgrp = "job" /\ csig = "SIGTSTP" /\ news = FALSE

At(l) == st = "run" /\ pc = l
Goto(l) == pc' = l
Unlink(r) == pc' = "u_get" /\ ret' = r
Exit == st' = "dead" /\ pc' = "end"
\* exit(3), or return from main(), without term_tag_unlink()
Abandon == st' = "dead" /\ pc' = "lost"

-----------------------------------------------------------------------------
(* term_tag_unlink()                                                       *)

\* (mutant) only the own process group is looked for
UnlinkGetOwn ==
  /\ At("u_get")
  /\ Goto(IF tcpgid # "unset" /\ tty = "job" THEN "u_set" ELSE "u_ofn")
  /\ UNCHANGED <<ret, st, files, conf, tagfiles, tmp, fds, tcpgid, pager_pid, signum, tty, shell, pager>>
\* Who has the terminal?  Take it only if nobody else is using it.
UnlinkGet ==
  /\ At("u_get")
  /\ Goto(IF /\ tcpgid # "unset"
             /\ \/ tty = pager_pid \/ tty = "job"
                \/ tty = "pager" /\ child = "ended"
          THEN "u_set" ELSE "u_ofn")
  /\ UNCHANGED <<ret, st, files, conf, tagfiles, tmp, fds, tcpgid, pager_pid, signum, tty, shell, pager>>

UnlinkSet ==
  /\ At("u_set")
  /\ tty' = tcpgid /\ Goto("u_ofn")
  /\ UNCHANGED <<ret, jobs, files, conf, tagfiles, tmp, fds, tcpgid, pager_pid, signum, pager>>

UnlinkOutput ==
  /\ At("u_ofn")
  /\ Goto("u_tfn")
  /\ ofile' = IF ofn = "tmp" THEN "none" ELSE ofile
  /\ ofn' = IF ofn = "tmp" THEN "none" ELSE ofn
  /\ UNCHANGED <<ret, jobs, files, conf, tagfiles, tfn, tfile, fds, tcpgid, pager_pid, signum, tty, pager>>

\* (mutant) the tag file is forgotten
UnlinkTagsNot ==
  /\ At("u_tfn")
  /\ IF ret \in {"exit", "die"} THEN Exit ELSE Goto(ret) /\ st' = st
  /\ UNCHANGED <<ret, shell, files, conf, tagfiles, tmp, fds, tcpgid, pager_pid, signum, tty, pager>>
UnlinkTags ==
  /\ At("u_tfn")
  /\ tfile' = IF tfn = "tmp" THEN "none" ELSE tfile
  /\ tfn' = IF tfn = "tmp" THEN "none" ELSE tfn
  /\ IF ret \in {"exit", "die"} THEN Exit ELSE Goto(ret) /\ st' = st
  /\ UNCHANGED <<ret, shell, files, conf, tagfiles, ofn, ofile, fds, tcpgid, pager_pid, signum, tty, pager>>

-----------------------------------------------------------------------------
(* main(), unveil_pager() and term_tag_init()                              *)

\* unveil_pager() and unveil(2) of what is needed: each may fail.
FindPager ==
  /\ At("start")
  /\ \/ Goto("i_sig") /\ st' = st
     \/ Exit
  /\ UNCHANGED <<ret, shell, files, conf, tagfiles, tmp, fds, tcpgid, pager_pid, signum, tty, pager>>

\* The signal handlers, and a copy of standard output.
InitSignals ==
  /\ At("i_sig")
  /\ \/ Goto("i_ofn") /\ ofd' = "open" /\ ret' = ret
     \/ Unlink("i_fail") /\ UNCHANGED ofd
  /\ UNCHANGED <<jobs, files, conf, tagfiles, tmp, tfs, tcpgid, pager_pid, signum, tty, pager>>

CreateOutput ==
  /\ At("i_ofn")
  /\ ofn' = outname
  /\ \/ Goto("i_tfn") /\ ofile' = (IF outname = "tmp" THEN "tmp" ELSE "none") /\ ret' = ret
     \/ Unlink("i_fail") /\ UNCHANGED ofile
  /\ UNCHANGED <<jobs, files, conf, tagfiles, tfn, tfile, fds, tcpgid, pager_pid, signum, tty, pager>>

CreateTags ==
  /\ At("i_tfn")
  /\ tfn' = tagname
  /\ \/ Goto("i_dup") /\ tfile' = (IF tagname = "tmp" THEN "tmp" ELSE "none") /\ ret' = ret
     \/ Unlink("i_fail") /\ UNCHANGED tfile
  /\ UNCHANGED <<jobs, files, conf, tagfiles, ofn, ofile, fds, tcpgid, pager_pid, signum, tty, pager>>

\* fdopen(3) of the tag file, dup2(2) of the output file to standard output
Redirect ==
  /\ At("i_dup")
  /\ \/ Goto("pledge") /\ tfs' = "open" /\ tagfiles' = "set" /\ ret' = ret
     \/ Unlink("i_fail") /\ tfs' \in {"open", "closed"} /\ UNCHANGED tagfiles
  /\ UNCHANGED <<jobs, files, conf, tmp, ofd, tcpgid, pager_pid, signum, tty, pager>>

InitFails ==
  /\ At("i_fail")
  /\ Goto("pledge") /\ ofd' = "closed"
  /\ UNCHANGED <<ret, jobs, files, conf, tagfiles, tmp, tfs, tcpgid, pager_pid, signum, tty, pager>>

\* pledge(2), or the last unveil(2): if it fails, main() returns at once.
Pledge ==
  /\ At("pledge")
  /\ (Goto("args") /\ st' = st) \/ Abandon
  /\ UNCHANGED <<ret, shell, files, conf, tagfiles, tmp, fds, tcpgid, pager_pid, signum, tty, pager>>

\* The names or the search expression: usage() if there are none, or if the
\* expression is bad.  Pages that are not found are in the choice of files.
Arguments ==
  /\ At("args")
  /\ (Goto("file") /\ st' = st) \/ Abandon
  /\ UNCHANGED <<ret, shell, files, conf, tagfiles, tmp, fds, tcpgid, pager_pid, signum, tty, pager>>

-----------------------------------------------------------------------------
(* The loop of main() over the manual pages                                *)

\* process_onefile(): with -Wstop, a warning ends the loop.
File ==
  /\ At("file") /\ files > 0
  /\ files' = files - 1
  /\ Goto("file") \/ Goto("close")
  /\ UNCHANGED <<ret, jobs, conf, tagfiles, tmp, fds, tcpgid, pager_pid, signum, tty, pager>>

\* A page cannot be written: give up the files and with them the pager.
WriteError ==
  /\ At("file") /\ files > 0
  /\ files' = files - 1
  /\ IF tagfiles = "set" THEN Unlink("f_drop") ELSE Goto("file") /\ ret' = ret
  /\ UNCHANGED <<jobs, conf, tagfiles, tmp, fds, tcpgid, pager_pid, signum, tty, pager>>

\* (mutant) the pager is still started
DropFilesNot ==
  /\ At("f_drop")
  /\ Goto("file")
  /\ UNCHANGED <<ret, jobs, files, conf, tagfiles, tmp, fds, tcpgid, pager_pid, signum, tty, pager>>
DropFiles ==
  /\ At("f_drop")
  /\ Goto("file") /\ tagfiles' = "NULL"
  /\ UNCHANGED <<ret, jobs, files, conf, tmp, fds, tcpgid, pager_pid, signum, tty, pager>>

\* The end of the loop, and term_tag_close(), which can fail.
Close ==
  /\ At("close") \/ (At("file") /\ files = 0)
  /\ IF tagfiles = "set"
     THEN /\ ofd' = "closed" /\ tfs' = "closed" /\ st' = st
          /\ \/ Unlink("exit")
             \/ outname = "tmp" /\ tagname = "tmp" /\ ressz > 0 /\ Goto("r_init") /\ ret' = ret
     ELSE Exit /\ UNCHANGED <<ret, fds>>
  /\ UNCHANGED <<shell, files, conf, tagfiles, tmp, tcpgid, pager_pid, signum, tty, pager>>

-----------------------------------------------------------------------------
(* run_pager() and spawn_pager()                                           *)

RunPager ==
  /\ At("r_init")
  /\ tcpgid' = IF parent = "shell" THEN "shell" ELSE "job"
  /\ signum' = "SIGSTOP" /\ Goto("r_get")
  /\ UNCHANGED <<ret, jobs, files, conf, tagfiles, tmp, fds, pager_pid, tty, pager>>

\* Stop here until moved to the foreground.
GetForeground ==
  /\ At("r_get")
  /\ tcpgid' = IF tty \in {"job", pager_pid} THEN tcpgid ELSE tty
  /\ Goto(IF tty = "job" THEN IF pager_pid = "none" THEN "r_fork" ELSE "r_give"
          ELSE IF tty = pager_pid THEN "r_back" ELSE "r_kill")
  /\ UNCHANGED <<ret, jobs, files, conf, tagfiles, tmp, fds, pager_pid, signum, tty, pager>>

TakeBack ==
  /\ At("r_back")
  /\ tty' = "job"
  /\ Goto(IF signum = "SIGTTIN" THEN "r_get" ELSE "r_kill")
  /\ UNCHANGED <<ret, jobs, files, conf, tagfiles, tmp, fds, tcpgid, pager_pid, signum, pager>>

StopJob ==
  /\ At("r_kill")
  /\ st' = "stop" /\ Goto("r_get")
  /\ UNCHANGED <<ret, shell, files, conf, tagfiles, tmp, fds, tcpgid, pager_pid, signum, tty, pager>>

\* fork(2); if it fails, man calls exit(3) at once.
Fork ==
  /\ At("r_fork")
  /\ \/ child' = "forked" /\ Goto("r_setpgid") /\ st' = st
     \/ Abandon /\ UNCHANGED child
  /\ UNCHANGED <<ret, shell, files, conf, tagfiles, tmp, fds, tcpgid, pager_pid, signum, tty, cgrp, csig, news>>

SetPgid ==
  /\ At("r_setpgid")
  /\ cgrp' = "pager" /\ Goto("r_first")
  /\ UNCHANGED <<ret, jobs, files, conf, tagfiles, tmp, fds, tcpgid, pager_pid, signum, tty, child, csig, news>>

GiveFirst ==
  /\ At("r_first")
  /\ tty' = "pager" /\ Goto("r_record")
  /\ UNCHANGED <<ret, jobs, files, conf, tagfiles, tmp, fds, tcpgid, pager_pid, signum, pager>>

\* pledge(2) comes first and may fail.
RecordPager ==
  /\ At("r_record")
  /\ \/ pager_pid' = "pager" /\ Goto("r_wait") /\ st' = st
     \/ Abandon /\ UNCHANGED pager_pid
  /\ UNCHANGED <<ret, shell, files, conf, tagfiles, tmp, fds, tcpgid, signum, tty, pager>>

Give ==
  /\ At("r_give")
  /\ tty' = "pager" /\ Goto("r_cont")
  /\ UNCHANGED <<ret, jobs, files, conf, tagfiles, tmp, fds, tcpgid, pager_pid, signum, pager>>

\* (mutant) the pager gets the terminal but is not continued
ContinueNot ==
  /\ At("r_cont")
  /\ Goto("r_wait")
  /\ UNCHANGED <<ret, jobs, files, conf, tagfiles, tmp, fds, tcpgid, pager_pid, signum, tty, pager>>
Continue ==
  /\ At("r_cont")
  /\ Goto("r_wait")
  /\ child' = IF child = "stop" THEN "run" ELSE child
  /\ news' = FALSE
  /\ UNCHANGED <<ret, jobs, files, conf, tagfiles, tmp, fds, tcpgid, pager_pid, signum, tty, cgrp, csig>>

\* Wait for the pager to stop or exit.
Wait ==
  /\ At("r_wait")
  /\ \/ child = "ended" /\ Unlink("exit") /\ UNCHANGED <<signum, news>>
     \/ child = "stop" /\ news /\ news' = FALSE /\ signum' = csig /\ Goto("r_get") /\ ret' = ret
  /\ UNCHANGED <<jobs, files, conf, tagfiles, tmp, fds, tcpgid, pager_pid, tty, child, cgrp, csig>>

ManStep ==
  \/ UnlinkGet \/ UnlinkSet \/ UnlinkOutput \/ UnlinkTags
  \/ FindPager \/ InitSignals \/ CreateOutput \/ CreateTags \/ Redirect \/ InitFails
  \/ Pledge \/ Arguments
  \/ File \/ WriteError \/ DropFiles \/ Close
  \/ RunPager \/ GetForeground \/ TakeBack \/ StopJob
  \/ Fork \/ SetPgid \/ GiveFirst \/ RecordPager \/ Give \/ Continue \/ Wait

-----------------------------------------------------------------------------
(* The pager                                                               *)

\* The child polls until it has the terminal, and becomes the pager or fails.
Exec ==
  /\ child = "forked" /\ tty = "pager"
  /\ child' \in {"run", "ended"}
  /\ UNCHANGED <<pc, ret, jobs, files, conf, tagfiles, tmp, fds, tcpgid, pager_pid, signum, tty, cgrp, csig, news>>

\* Until then, it has the signal handlers and the file names of man.
ChildKilled ==
  /\ child = "forked"
  /\ child' = "ended"
  /\ tty' = IF tty = cgrp THEN tcpgid ELSE tty
  /\ ofile' = (IF ofn = "tmp" THEN "none" ELSE ofile)
  /\ tfile' = (IF tfn = "tmp" THEN "none" ELSE tfile)
  /\ UNCHANGED <<pc, ret, jobs, files, conf, tagfiles, ofn, tfn, fds, tcpgid, pager_pid, signum, cgrp, csig, news>>

\* ^Z, and reading from a terminal that belongs to somebody else
PagerStops ==
  /\ child = "run" /\ st # "dead"
  /\ child' = "stop" /\ news' = TRUE
  /\ csig' = IF tty = "pager" THEN "SIGTSTP" ELSE "SIGTTIN"
  /\ UNCHANGED <<pc, ret, jobs, files, conf, tagfiles, tmp, fds, tcpgid, pager_pid, signum, tty, cgrp>>

PagerEnds ==
  /\ child \in {"run", "stop"}
  /\ child' = "ended"
  /\ UNCHANGED <<pc, ret, jobs, files, conf, tagfiles, tmp, fds, tcpgid, pager_pid, signum, tty, cgrp, csig, news>>

-----------------------------------------------------------------------------
(* The user and the shell                                                  *)

\* SIGHUP, SIGINT, SIGTERM: tag_signal() cleans up with all signals blocked.
tag_signal ==
  /\ st = "run" /\ ret # "die"
  /\ IF pc \in {"start", "i_sig"} THEN Exit /\ ret' = ret ELSE Unlink("die") /\ st' = st
  /\ UNCHANGED <<shell, files, conf, tagfiles, tmp, fds, tcpgid, pager_pid, signum, tty, pager>>

\* ^Z while man has the terminal
UserStops ==
  /\ st = "run" /\ ret # "die" /\ tty = "job"
  /\ st' = "stop"
  /\ UNCHANGED <<pc, ret, shell, files, conf, tagfiles, tmp, fds, tcpgid, pager_pid, signum, tty, pager>>

\* The job in the foreground has stopped or ended.
ShellPrompts ==
  /\ shell = "wait" /\ (st = "stop" \/ (st = "dead" /\ parent = "shell"))
  /\ shell' = "prompt" /\ tty' = "shell"
  /\ UNCHANGED <<pc, ret, st, files, conf, tagfiles, tmp, fds, tcpgid, pager_pid, signum, pager>>

ShellFg ==
  /\ shell = "prompt" /\ tty = "shell" /\ st # "dead"
  /\ shell' = "wait" /\ tty' = "job" /\ st' = "run"
  /\ UNCHANGED <<pc, ret, files, conf, tagfiles, tmp, fds, tcpgid, pager_pid, signum, pager>>

ShellBg ==
  /\ shell = "prompt" /\ tty = "shell" /\ st = "stop"
  /\ st' = "run"
  /\ UNCHANGED <<pc, ret, shell, files, conf, tagfiles, tmp, fds, tcpgid, pager_pid, signum, tty, pager>>

\* Another job in the foreground
ShellOther ==
  /\ shell = "prompt" /\ tty \in {"shell", "other"}
  /\ tty' = IF tty = "shell" THEN "other" ELSE "shell"
  /\ UNCHANGED <<pc, ret, jobs, files, conf, tagfiles, tmp, fds, tcpgid, pager_pid, signum, pager>>

Next ==
  \/ ManStep
  \/ Exec \/ ChildKilled \/ PagerStops \/ PagerEnds
  \/ tag_signal \/ UserStops \/ ShellPrompts \/ ShellFg \/ ShellBg \/ ShellOther

\* man and its child proceed unless they are stopped; nobody has to type.
Spec == Init /\ [][Next]_vars /\ WF_vars(ManStep) /\ WF_vars(Exec)

-----------------------------------------------------------------------------
\* The type of the variables
TypeOK ==
  /\ pc \in {"start", "i_sig", "i_ofn", "i_tfn", "i_dup", "i_fail", "pledge", "args", "file", "f_drop",
             "close", "r_init", "r_get", "r_back", "r_kill", "r_fork", "r_setpgid",
             "r_first", "r_record", "r_give", "r_cont", "r_wait", "u_get", "u_set",
             "u_ofn", "u_tfn", "end", "lost"}
  /\ ret \in {"exit", "die", "i_fail", "f_drop"}
  /\ st \in {"run", "stop", "dead"} /\ files \in Nat /\ ressz \in Nat
  /\ outname \in {"tmp", "user"} /\ tagname \in {"tmp", "user"}
  /\ ofn \in {"none", "tmp", "user"} /\ tfn \in {"none", "tmp", "user"}
  /\ ofile \in {"none", "tmp"} /\ tfile \in {"none", "tmp"}
  /\ ofd \in {"open", "closed"} /\ tfs \in {"open", "closed"}
  /\ tagfiles \in {"NULL", "set"} /\ pager_pid \in {"none", "pager"}
  /\ tty \in {"shell", "job", "pager", "other"}
  /\ tcpgid \in {"unset", "shell", "job", "other"}
  /\ shell \in {"wait", "prompt"}
  /\ child \in {"none", "forked", "run", "stop", "ended"} /\ cgrp \in {"job", "pager"}

\* The temporary files are gone when man is, also if a signal that it catches
\* ends it while it creates or deletes them, except where the code leaves without
\* term_tag_unlink() (Abandon): when pledge(2), unveil(2) or fork(2) fails, when
\* man has no arguments, and when a search expression is missing or bad.
TempFiles == st = "dead" /\ pc # "lost" => ofile = "none" /\ tfile = "none"

\* The pager is only started on files that are complete: both are closed,
\* and they exist as long as it runs unless man or its child was killed.
PagerHasFiles ==
  /\ pc = "r_fork" => ofd = "closed" /\ tfs = "closed"
  /\ child \in {"forked", "run", "stop"} /\ ret # "die" => ofile = "tmp" /\ tfile = "tmp"

\* When man and the pager are gone, the terminal is not left to the process
\* group of the pager, except if man was killed, or pledge(2) failed, before it
\* noted the process ID of the pager.
TerminalGivenBack == st = "dead" /\ child = "ended" /\ pager_pid = "pager" => tty # "pager"

\* When the pager has stopped, man stops, too, or continues it: neither waits
\* for the other for ever.
StopTogether == (child = "stop" /\ st = "run") ~> (child # "stop" \/ st # "run")
=============================================================================
