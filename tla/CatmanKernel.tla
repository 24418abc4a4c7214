---------------------------- MODULE CatmanKernel ----------------------------
(***************************************************************************)
(* What the operating system keeps between catman(8) and mandocd(8): the   *)
(* UNIX domain socketpair(2) that carries one message per manual page in   *)
(* one direction and one acknowledgement byte per message in the other,    *)
(* and the SIGCHLD that the death of mandocd raises in catman.             *)
(*                                                                         *)
(* All messages look alike (one dummy byte and three descriptors) and both *)
(* directions are first-in first-out, so each is a counter: the k-th       *)
(* message received is the k-th one sent.                                  *)
(***************************************************************************)
EXTENDS Integers

Process == {"catman", "mandocd"}

VARIABLES
  held0,     \* processes with srv_fds[0], catman's end, open
  held1,     \* processes with srv_fds[1], mandocd's end, open
  toServer,  \* messages in the socket that mandocd has not received yet
  toClient,  \* acknowledgement bytes that catman has not received yet
  sigchld    \* 1 when SIGCHLD is pending for catman

kernelVars == <<held0, held1, toServer, toClient, sigchld>>

KernelTypeOK ==
  /\ held0 \in SUBSET Process
  /\ held1 \in SUBSET Process
  /\ toServer \in Nat
  /\ toClient \in Nat
  /\ sigchld \in {0, 1}

\* socketpair(2) has not been called yet.
KernelInit ==
  /\ held0 = {}
  /\ held1 = {}
  /\ toServer = 0
  /\ toClient = 0
  /\ sigchld = 0

\* A reader of an end sees the end of the file, and a writer EPIPE, when no
\* process holds the opposite end any more.
ServerEndClosed == held1 = {}
ClientEndClosed == held0 = {}

\* A process that ends drops its descriptors; what is queued for an end that
\* nobody holds any more is discarded.
DropDescriptors(p) ==
  /\ held0' = held0 \ {p}
  /\ held1' = held1 \ {p}
  /\ toClient' = IF held0' = {} THEN 0 ELSE toClient
  /\ toServer' = IF held1' = {} THEN 0 ELSE toServer
=============================================================================
