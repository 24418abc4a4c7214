------------------------------ MODULE Mandocd ------------------------------
(***************************************************************************)
(* mandocd(8), mandocd.c: the child that catman(8) forks.  It receives one *)
(* message per manual page, acknowledges it at once, and only then formats *)
(* the page with the descriptors that came with the message.               *)
(*                                                                         *)
(* mpc names the system call mandocd performs next.  Formatting one page   *)
(* (parsers, formatter, and the resets that follow it) is one step here.   *)
(***************************************************************************)
EXTENDS CatmanKernel

VARIABLES
  mpc,        \* the call that mandocd is about to perform
  accepted,   \* messages received
  formatted,  \* pages formatted completely
  mstatus     \* exit status, -1 while alive, 2 when killed by a signal

mandocdVars == <<mpc, accepted, formatted, mstatus>>

MandocdPC == {"none", "child", "exec", "recv", "ack", "dup", "process",
              "restore", "ended"}

MandocdTypeOK ==
  /\ mpc \in MandocdPC
  /\ accepted \in Nat
  /\ formatted \in Nat
  /\ mstatus \in {-1, 0, 1, 2}

MandocdInit ==
  /\ mpc = "none"
  /\ accepted = 0
  /\ formatted = 0
  /\ mstatus = -1

\* However mandocd ends, it drops its descriptors and catman gets SIGCHLD.
End(st) ==
  /\ mpc' = "ended"
  /\ mstatus' = st
  /\ DropDescriptors("mandocd")
  /\ sigchld' = 1

-----------------------------------------------------------------------------
(* The child branch of main() in catman.c and run_mandocd()                *)

\* fork(2) returns in the child.
Forked ==
  /\ mpc = "none"
  /\ "mandocd" \in held1
  /\ mpc' = "child"
  /\ UNCHANGED <<kernelVars, accepted, formatted, mstatus>>

\* Mutant: close(srv_fds[0]) forgotten in the child.
CloseClientEndForgotten ==
  /\ mpc = "child"
  /\ mpc' = "exec"
  /\ UNCHANGED <<kernelVars, accepted, formatted, mstatus>>

\* The child closes catman's end, so that it can see catman go away.
CloseClientEnd ==
  /\ mpc = "child"
  /\ mpc' = "exec"
  /\ held0' = held0 \ {"mandocd"}
  /\ toClient' = IF held0' = {} THEN 0 ELSE toClient
  /\ UNCHANGED <<held1, toServer, sigchld, accepted, formatted, mstatus>>

\* execlp(3) and the startup of mandocd up to its main loop.
Exec ==
  /\ mpc = "exec"
  /\ mpc' = "recv"
  /\ UNCHANGED <<kernelVars, accepted, formatted, mstatus>>

\* execlp(3) fails, or mandocd rejects its arguments, or dup(2) of a
\* standard descriptor fails.
ExecFails ==
  /\ mpc = "exec"
  /\ End(1)
  /\ UNCHANGED <<accepted, formatted>>

-----------------------------------------------------------------------------
(* read_fds()                                                              *)

Recv ==
  /\ mpc = "recv"
  /\ toServer > 0
  /\ toServer' = toServer - 1
  /\ accepted' = accepted + 1
  /\ mpc' = "ack"
  /\ UNCHANGED <<held0, held1, toClient, sigchld, formatted, mstatus>>

\* recvmsg(2) returns zero: catman is gone, and that is success.
RecvEof ==
  /\ mpc = "recv"
  /\ toServer = 0
  /\ ClientEndClosed
  /\ End(0)
  /\ UNCHANGED <<accepted, formatted>>

RecvFails ==
  /\ mpc = "recv"
  /\ End(1)
  /\ UNCHANGED <<accepted, formatted>>

\* The acknowledgement precedes every look at the control message.
Ack ==
  /\ mpc = "ack"
  /\ ~ClientEndClosed
  /\ toClient' = toClient + 1
  /\ mpc' = "dup"
  /\ UNCHANGED <<held0, held1, toServer, sigchld, accepted, formatted,
                 mstatus>>

\* send(2) fails; SIGPIPE is ignored, so EPIPE is an ordinary failure.
AckFails ==
  /\ mpc = "ack"
  /\ End(1)
  /\ UNCHANGED <<accepted, formatted>>

-----------------------------------------------------------------------------
(* The loop in main()                                                      *)

\* The control message is valid and dup2(2) installs the descriptors.
Dup ==
  /\ mpc = "dup"
  /\ mpc' = "process"
  /\ UNCHANGED <<kernelVars, accepted, formatted, mstatus>>

\* Mutant: state = -1 forgotten, so that the failure looks like success.
DupFailsSilently ==
  /\ mpc = "dup"
  /\ End(0)
  /\ UNCHANGED <<accepted, formatted>>

\* The control message is missing or invalid, or dup2(2) fails.
DupFails ==
  /\ mpc = "dup"
  /\ End(1)
  /\ UNCHANGED <<accepted, formatted>>

\* process(), mparse_reset(), html_reset() and fflush(3).
process ==
  /\ mpc = "process"
  /\ formatted' = formatted + 1
  /\ mpc' = "restore"
  /\ UNCHANGED <<kernelVars, accepted, mstatus>>

Restore ==
  /\ mpc = "restore"
  /\ mpc' = "recv"
  /\ UNCHANGED <<kernelVars, accepted, formatted, mstatus>>

RestoreFails ==
  /\ mpc = "restore"
  /\ End(1)
  /\ UNCHANGED <<accepted, formatted>>

\* A signal or a failed assertion kills mandocd.
Killed ==
  /\ mpc \notin {"none", "ended"}
  /\ End(2)
  /\ UNCHANGED <<accepted, formatted>>

\* The steps of a process that is scheduled; each call has an outcome here
\* unless it blocks.
MandocdStep ==
  \/ Forked \/ CloseClientEnd \/ Exec \/ ExecFails
  \/ Recv \/ RecvEof \/ Ack \/ AckFails
  \/ Dup \/ DupFails \/ process \/ Restore \/ RestoreFails

\* What can end mandocd even while it is blocked in recvmsg(2).
MandocdFault == RecvFails \/ Killed
=============================================================================
