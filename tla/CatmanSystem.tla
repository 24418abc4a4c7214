---------------------------- MODULE CatmanSystem ----------------------------
(***************************************************************************)
(* catman(8) and mandocd(8) running side by side: every interleaving of    *)
(* their system calls, failures of those calls, signals sent to catman and *)
(* the death of mandocd at any point.                                      *)
(***************************************************************************)
EXTENDS Catman, Mandocd

vars == <<kernelVars, catmanVars, mandocdVars>>

Init == KernelInit /\ CatmanInit /\ MandocdInit

CatmanNext == CatmanStep /\ UNCHANGED mandocdVars
SignalNext == CatmanSignal /\ UNCHANGED mandocdVars
MandocdNext == MandocdStep /\ UNCHANGED catmanVars
FaultNext == MandocdFault /\ UNCHANGED catmanVars

\* Both processes are gone, or fork(2) never created the second one.
Terminated ==
  /\ cpc = "exited"
  /\ mpc = "ended" \/ held1 = {}
  /\ UNCHANGED vars

Next == CatmanNext \/ SignalNext \/ MandocdNext \/ FaultNext \/ Terminated

Spec == Init /\ [][Next]_vars

\* The scheduler runs both processes, a pending signal is delivered, and
\* formatting one page ends.  Nobody has to kill or to interrupt anything,
\* and recvmsg(2) may block forever.
FairSpec ==
  /\ Spec
  /\ WF_vars(CatmanNext)
  /\ WF_vars(ChildSignal /\ UNCHANGED mandocdVars)
  /\ WF_vars(MandocdNext)

-----------------------------------------------------------------------------
(* Safety                                                                  *)

\* Type correctness of the socket and of both processes.
TypeOK == KernelTypeOK /\ CatmanTypeOK /\ MandocdTypeOK

Unacked == IF mpc = "ack" THEN 1 ELSE 0

\* No message and no acknowledgement is lost, duplicated or counted twice:
\* while mandocd lives, every message that process_tree() counted as sent is
\* in the socket or was received, and every message it still counts as in
\* flight is in the socket, about to be acknowledged, on its way back, or
\* already in decr.  After the death of mandocd inflight can only be larger.
Conservation ==
  /\ accepted + toServer <= goodfiles
  /\ mpc # "ended" => accepted + toServer = goodfiles
  /\ cpc = "drain" => decr + toClient <= inflight
  /\ inflight >= 0 /\ fatal = 0 /\ ~(cpc = "drain" /\ ServerEndClosed)
       => goodfiles - accepted + Unacked + toClient + decr <= inflight

\* process_tree() never lets more than max_inflight messages wait for their
\* acknowledgement, so the descriptors in flight stay bounded too.
WindowBounded ==
  /\ inflight <= MaxInflight
  /\ cpc \in {"entry", "send"} => inflight < MaxInflight
  /\ toServer <= MaxInflight

\* assert(inflight >= decr) in process_tree() never fails.
AssertDecr == cpc = "drain" => inflight >= decr

\* When mandocd exits with status zero, no page that catman handed over was
\* left unformatted, whatever happened to catman.
ServerExitZero == mstatus = 0 => formatted = goodfiles

-----------------------------------------------------------------------------
(* Refinement and liveness                                                 *)

Batch == INSTANCE BatchWindow WITH
  Window <- MaxInflight,
  submitted <- goodfiles,
  taken <- accepted,
  outcome <- IF status = -1 THEN "running"
             ELSE IF status = 0 THEN "success" ELSE "failure"

\* catman keeps its promise: the window holds for every page it submits, and
\* it exits with status zero only after mandocd has accepted all of them.
ImplementsBatch == Batch!Spec

\* catman ends: neither process waits forever for the other one.
CatmanEnds == <>(cpc = "exited")

\* mandocd never outlives catman forever: it sees the end of the file once
\* both copies of catman's end are closed.
MandocdFollows == cpc = "exited" ~> (mpc = "ended" \/ held1 = {})
=============================================================================
