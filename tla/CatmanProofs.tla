---------------------------- MODULE CatmanProofs ----------------------------
(***************************************************************************)
(* Proofs about CatmanSystem, for every window size and every number of    *)
(* directory entries.                                                      *)
(***************************************************************************)
EXTENDS CatmanSystem, TLAPS

Alive == mpc \notin {"none", "ended"}

\* Who holds which end of the socket.
Descriptors ==
  /\ cpc = "fork" => held0 = {} /\ held1 = {} /\ mpc = "none"
  /\ cpc = "close" => "catman" \in held1
  /\ cpc \notin {"fork", "close"} => "catman" \notin held1
  /\ cpc \notin {"fork", "exited"} => "catman" \in held0
  /\ Alive => "mandocd" \in held1
  /\ mpc = "none" /\ cpc \notin {"fork", "exited"} => "mandocd" \in held1
  /\ mpc \notin {"none", "child"} => "mandocd" \notin held0
  /\ mpc = "ended" => "mandocd" \notin held1

\* What catman knows at each of its calls.
CatmanLocal ==
  /\ cpc \in {"fork", "close", "setup"} => inflight = 0 /\ fatal = 0
  /\ cpc \in {"wait", "drain"} => inflight >= MaxInflight
  /\ cpc \in {"wait", "drain", "entry", "send"} => fatal = 0
  /\ cpc = "drain" => decr >= 1
  /\ cpc # "drain" => decr = 0
  /\ inflight = -1 => cpc \in {"post", "final", "exited"}
  /\ cpc # "exited" => status = -1
  /\ cpc = "exited" => status \in {0, 1}
  /\ status = 0 => inflight = 0 /\ fatal = 0

\* What mandocd knows at each of its calls.
MandocdLocal ==
  /\ mpc \in {"none", "child", "exec", "recv", "restore"}
       => formatted = accepted
  /\ mpc \in {"ack", "dup", "process"} => formatted + 1 = accepted
  /\ mpc # "ended" => mstatus = -1
  /\ mstatus = 0 => cpc = "exited"

\* The inductive invariant.
IInv ==
  /\ TypeOK
  /\ Descriptors
  /\ CatmanLocal
  /\ MandocdLocal
  /\ Conservation
  /\ WindowBounded
  /\ ServerExitZero

-----------------------------------------------------------------------------
USE MaxInflightAssumption, MaxEntriesAssumption

\* The initial state satisfies the invariant.
LEMMA InitEstablishes == Init => IInv
  BY DEF Init, KernelInit, CatmanInit, MandocdInit, IInv, TypeOK,
         KernelTypeOK, CatmanTypeOK, MandocdTypeOK, CatmanPC, MandocdPC,
         Process, Descriptors, Alive, CatmanLocal, MandocdLocal,
         Conservation, Unacked, WindowBounded, ServerExitZero,
         ServerEndClosed

\* Every call of catman preserves the invariant.
LEMMA CatmanPreserves ==
  ASSUME IInv, CatmanNext
  PROVE  IInv'
<1> USE DEF IInv, TypeOK, KernelTypeOK, CatmanTypeOK, MandocdTypeOK,
            CatmanPC, MandocdPC, Process, Descriptors, Alive, CatmanLocal,
            MandocdLocal, Conservation, Unacked, WindowBounded,
            ServerExitZero, ServerEndClosed, ClientEndClosed, kernelVars,
            mandocdVars, Exit, DropDescriptors
<1> UNCHANGED mandocdVars
  BY DEF CatmanNext
<1>1. CASE Fork
  BY <1>1 DEF Fork
<1>2. CASE CloseServerEnd
  BY <1>2 DEF CloseServerEnd
<1>3. CASE Setup
  BY <1>3 DEF Setup
<1>4. CASE StartupFails
  BY <1>4 DEF StartupFails
<1>5. CASE FtsRead
  BY <1>5 DEF FtsRead, FtsReadWhen
<1>6. CASE FtsEnd
  BY <1>6 DEF FtsEnd
<1>7. CASE LoopStops
  BY <1>7 DEF LoopStops
<1>8. CASE WaitRecv
  BY <1>8 DEF WaitRecv
<1>9. CASE WaitReset
  BY <1>9 DEF WaitReset
<1>10. CASE DrainByte
  BY <1>10 DEF DrainByte
<1>11. CASE DrainAgain
  BY <1>11 DEF DrainAgain
<1>12. CASE DrainClosed
  BY <1>12 DEF DrainClosed
<1>13. CASE EntrySkipped
  BY <1>13 DEF EntrySkipped
<1>14. CASE EntryOpened
  BY <1>14 DEF EntryOpened
<1>15. CASE Send
  BY <1>15 DEF Send
<1>16. CASE SendFails
  BY <1>16 DEF SendFails
<1>17. CASE PostLoop
  BY <1>17 DEF PostLoop
<1>18. CASE FinalRecv
  BY <1>18 DEF FinalRecv
<1>19. CASE FinalClosed
  BY <1>19 DEF FinalClosed
<1>20. CASE Finish
  BY <1>20 DEF Finish
<1>21. QED
  BY <1>1, <1>2, <1>3, <1>4, <1>5, <1>6, <1>7, <1>8, <1>9, <1>10, <1>11,
     <1>12, <1>13, <1>14, <1>15, <1>16, <1>17, <1>18, <1>19, <1>20
  DEF CatmanNext, CatmanStep

\* A signal, whenever it arrives, preserves the invariant.
LEMMA SignalPreserves ==
  ASSUME IInv, SignalNext
  PROVE  IInv'
<1> USE DEF IInv, TypeOK, KernelTypeOK, CatmanTypeOK, MandocdTypeOK,
            CatmanPC, MandocdPC, Process, Descriptors, Alive, CatmanLocal,
            MandocdLocal, Conservation, Unacked, WindowBounded,
            ServerExitZero, ServerEndClosed, mandocdVars, Interrupted,
            signal_handler
<1> UNCHANGED mandocdVars
  BY DEF SignalNext
<1>1. CASE UserSignal
  BY <1>1 DEF UserSignal
<1>2. CASE ChildSignal
  BY <1>2 DEF ChildSignal
<1>3. QED
  BY <1>1, <1>2 DEF SignalNext, CatmanSignal

\* Every call of mandocd, and its death, preserves the invariant.
LEMMA MandocdPreserves ==
  ASSUME IInv, MandocdNext \/ FaultNext
  PROVE  IInv'
<1> USE DEF IInv, TypeOK, KernelTypeOK, CatmanTypeOK, MandocdTypeOK,
            CatmanPC, MandocdPC, Process, Descriptors, Alive, CatmanLocal,
            MandocdLocal, Conservation, Unacked, WindowBounded,
            ServerExitZero, ServerEndClosed, ClientEndClosed, kernelVars,
            catmanVars, End, DropDescriptors
<1> UNCHANGED catmanVars
  BY DEF MandocdNext, FaultNext
<1>1. CASE Forked
  BY <1>1 DEF Forked
<1>2. CASE CloseClientEnd
  BY <1>2 DEF CloseClientEnd
<1>3. CASE Exec
  BY <1>3 DEF Exec
<1>4. CASE ExecFails
  BY <1>4 DEF ExecFails
<1>5. CASE Recv
  BY <1>5 DEF Recv
<1>6. CASE RecvEof
  BY <1>6 DEF RecvEof
<1>7. CASE Ack
  BY <1>7 DEF Ack
<1>8. CASE AckFails
  BY <1>8 DEF AckFails
<1>9. CASE Dup
  BY <1>9 DEF Dup
<1>10. CASE DupFails
  BY <1>10 DEF DupFails
<1>11. CASE process
  BY <1>11 DEF process
<1>12. CASE Restore
  BY <1>12 DEF Restore
<1>13. CASE RestoreFails
  BY <1>13 DEF RestoreFails
<1>14. CASE RecvFails
  BY <1>14 DEF RecvFails
<1>15. CASE Killed
  BY <1>15 DEF Killed
<1>16. QED
  BY <1>1, <1>2, <1>3, <1>4, <1>5, <1>6, <1>7, <1>8, <1>9, <1>10, <1>11,
     <1>12, <1>13, <1>14, <1>15
  DEF MandocdNext, FaultNext, MandocdStep, MandocdFault

\* The invariant holds in every reachable state.
THEOREM Invariance == Spec => []IInv
<1>1. Init => IInv
  BY InitEstablishes
<1>2. IInv /\ [Next]_vars => IInv'
  <2> SUFFICES ASSUME IInv, [Next]_vars PROVE IInv'
    OBVIOUS
  <2>1. CASE CatmanNext
    BY <2>1, CatmanPreserves
  <2>2. CASE SignalNext
    BY <2>2, SignalPreserves
  <2>3. CASE MandocdNext \/ FaultNext
    BY <2>3, MandocdPreserves
  <2>4. CASE UNCHANGED vars
    BY <2>4 DEF vars, kernelVars, catmanVars, mandocdVars, IInv, TypeOK,
       KernelTypeOK, CatmanTypeOK, MandocdTypeOK, Descriptors, Alive,
       CatmanLocal, MandocdLocal, Conservation, Unacked, WindowBounded,
       ServerExitZero, ServerEndClosed
  <2>5. QED
    BY <2>1, <2>2, <2>3, <2>4 DEF Next, Terminated
<1>3. QED
  BY <1>1, <1>2, PTL DEF Spec

\* The socket and the variables of both processes keep their types; inflight
\* in particular is never less than -1.
THEOREM TypeCorrect == Spec => []TypeOK
<1>1. IInv => TypeOK
  BY DEF IInv
<1>2. QED
  BY <1>1, Invariance, PTL

\* No message and no acknowledgement is lost or counted twice, for every
\* window size.
THEOREM ConservationHolds == Spec => []Conservation
<1>1. IInv => Conservation
  BY DEF IInv
<1>2. QED
  BY <1>1, Invariance, PTL

\* The window of process_tree() is respected, for every window size.
THEOREM WindowHolds == Spec => []WindowBounded
<1>1. IInv => WindowBounded
  BY DEF IInv
<1>2. QED
  BY <1>1, Invariance, PTL

\* assert(inflight >= decr) in process_tree() never fails.
THEOREM AssertionHolds == Spec => []AssertDecr
<1>1. IInv => AssertDecr
  BY DEF IInv, TypeOK, KernelTypeOK, CatmanTypeOK, Conservation, AssertDecr
<1>2. QED
  BY <1>1, Invariance, PTL

\* Status zero of mandocd means that every page handed over was formatted.
THEOREM ServerExitZeroHolds == Spec => []ServerExitZero
<1>1. IInv => ServerExitZero
  BY DEF IInv
<1>2. QED
  BY <1>1, Invariance, PTL

-----------------------------------------------------------------------------
(* Refinement                                                              *)

\* Every step of the two processes is a step of the abstract batch, or
\* changes nothing that the batch shows.
LEMMA StepRefines ==
  ASSUME IInv, [Next]_vars
  PROVE  [Batch!Next]_(Batch!vars)
<1> USE DEF Batch!Next, Batch!vars, Batch!Submit, Batch!Take, Batch!Succeed,
            Batch!Fail, kernelVars, catmanVars, mandocdVars
<1>1. CASE CatmanNext
  <2> USE <1>1 DEF CatmanNext
  <2>1. CASE Send
    BY <2>1 DEF Send, IInv, TypeOK, KernelTypeOK, CatmanTypeOK,
       MandocdTypeOK, Conservation, Unacked, CatmanLocal, WindowBounded,
       ServerEndClosed
  <2>2. CASE Finish
    BY <2>2 DEF Finish, Exit, DropDescriptors, IInv, TypeOK, KernelTypeOK,
       CatmanTypeOK, MandocdTypeOK, Conservation, Unacked, CatmanLocal
  <2>3. CASE StartupFails
    BY <2>3 DEF StartupFails, Exit, IInv, CatmanLocal
  <2>4. CASE CatmanStep /\ UNCHANGED <<goodfiles, status>>
    BY <2>4
  <2>5. QED
    BY <2>1, <2>2, <2>3, <2>4 DEF CatmanStep, Fork, CloseServerEnd, Setup,
       FtsRead, FtsReadWhen, FtsEnd, LoopStops, WaitRecv, WaitReset,
       DrainByte, DrainAgain, DrainClosed, EntrySkipped, EntryOpened,
       SendFails, PostLoop, FinalRecv, FinalClosed
<1>2. CASE SignalNext
  BY <1>2 DEF SignalNext, CatmanSignal, UserSignal, ChildSignal,
     signal_handler
<1>3. CASE MandocdNext \/ FaultNext
  <2> USE <1>3 DEF MandocdNext, FaultNext
  <2>1. CASE Recv
    BY <2>1 DEF Recv, IInv, TypeOK, KernelTypeOK, CatmanTypeOK,
       MandocdTypeOK, Conservation
  <2>2. CASE UNCHANGED accepted
    BY <2>2
  <2>3. QED
    BY <2>1, <2>2 DEF MandocdStep, MandocdFault, Forked, CloseClientEnd,
       Exec, ExecFails, RecvEof, RecvFails, Ack, AckFails, Dup, DupFails,
       process, Restore, RestoreFails, Killed
<1>4. CASE UNCHANGED vars
  BY <1>4 DEF vars
<1>5. QED
  BY <1>1, <1>2, <1>3, <1>4 DEF Next, Terminated

\* catman and mandocd together implement the abstract batch: the window is
\* respected and status zero means that every page was accepted.
THEOREM Refinement == Spec => ImplementsBatch
<1>1. Init => Batch!Init
  BY DEF Init, CatmanInit, MandocdInit, Batch!Init
<1>2. IInv /\ [Next]_vars => [Batch!Next]_(Batch!vars)
  BY StepRefines
<1>3. QED
  BY <1>1, <1>2, Invariance, PTL DEF Spec, ImplementsBatch, Batch!Spec
=============================================================================
