---------------------------- MODULE BatchWindow ----------------------------
(***************************************************************************)
(* What catman(8) promises, without processes and sockets: pages are       *)
(* submitted one by one to a formatter, never more than Window of them     *)
(* before the formatter accepted them, and the batch succeeds only if the  *)
(* formatter has accepted every page submitted.                            *)
(***************************************************************************)
EXTENDS Integers

CONSTANT Window

VARIABLES submitted, taken, outcome

vars == <<submitted, taken, outcome>>

Init ==
  /\ submitted = 0
  /\ taken = 0
  /\ outcome = "running"

Submit ==
  /\ outcome = "running"
  /\ submitted - taken < Window
  /\ submitted' = submitted + 1
  /\ UNCHANGED <<taken, outcome>>

\* The formatter may go on for a while after the batch has failed.
Take ==
  /\ taken < submitted
  /\ taken' = taken + 1
  /\ UNCHANGED <<submitted, outcome>>

Succeed ==
  /\ outcome = "running"
  /\ taken = submitted
  /\ outcome' = "success"
  /\ UNCHANGED <<submitted, taken>>

Fail ==
  /\ outcome = "running"
  /\ outcome' = "failure"
  /\ UNCHANGED <<submitted, taken>>

Next == Submit \/ Take \/ Succeed \/ Fail

Spec == Init /\ [][Next]_vars
=============================================================================
