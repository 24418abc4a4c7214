------------------------------- MODULE Catman -------------------------------
(***************************************************************************)
(* catman(8), catman.c: walk a source tree, open every regular file and    *)
(* its output file, and pass the descriptors to a mandocd(8) child over a  *)
(* socket, with at most MaxInflight messages not yet acknowledged.         *)
(*                                                                         *)
(* cpc names the system call catman performs next; every action is one     *)
(* call together with the code up to the following call.  A call that      *)
(* fails with EAGAIN is retried after a nanosleep(2) and changes nothing.  *)
(***************************************************************************)
EXTENDS CatmanKernel

CONSTANTS
  MaxInflight,  \* max_inflight in process_tree(), 16 in the source
  MaxEntries    \* bound: entries that fts_read(3) returns before the end

ASSUME MaxInflightAssumption == MaxInflight \in Nat \ {0}
ASSUME MaxEntriesAssumption == MaxEntries \in Nat

VARIABLES
  cpc,         \* the call that catman is about to perform
  inflight,    \* messages sent and not acknowledged, -1 after a failure
  decr,        \* acknowledgements collected by the draining loop
  fatal,       \* 1 when fatal != 0
  got_signal,  \* 1 when got_signal != 0
  entries,     \* entries returned by fts_read(3)
  goodfiles,   \* messages sent
  status       \* exit status, -1 while catman is running

catmanVars == <<cpc, inflight, decr, fatal, got_signal, entries, goodfiles,
                status>>

CatmanPC == {"fork", "close", "setup", "read", "wait", "drain", "entry",
             "send", "post", "final", "exited"}

CatmanTypeOK ==
  /\ cpc \in CatmanPC
  /\ inflight \in Nat \cup {-1}
  /\ decr \in Nat
  /\ fatal \in {0, 1}
  /\ got_signal \in {0, 1}
  /\ entries \in Nat
  /\ goodfiles \in Nat
  /\ status \in {-1, 0, 1}

CatmanInit ==
  /\ cpc = "fork"
  /\ inflight = 0
  /\ decr = 0
  /\ fatal = 0
  /\ got_signal = 0
  /\ entries = 0
  /\ goodfiles = 0
  /\ status = -1

Exit(st) ==
  /\ cpc' = "exited"
  /\ status' = st
  /\ DropDescriptors("catman")

-----------------------------------------------------------------------------
(* main()                                                                  *)

\* socketpair(2) and fork(2): both processes hold both ends.
Fork ==
  /\ cpc = "fork"
  /\ cpc' = "close"
  /\ held0' = Process
  /\ held1' = Process
  /\ UNCHANGED <<toServer, toClient, sigchld, inflight, decr, fatal,
                 got_signal, entries, goodfiles, status>>

\* Mutant: close(srv_fds[1]) forgotten in the parent.
CloseServerEndForgotten ==
  /\ cpc = "close"
  /\ cpc' = "setup"
  /\ UNCHANGED <<kernelVars, inflight, decr, fatal, got_signal, entries,
                 goodfiles, status>>

\* The parent closes mandocd's end, so that it can see mandocd go away.
CloseServerEnd ==
  /\ cpc = "close"
  /\ cpc' = "setup"
  /\ held1' = held1 \ {"catman"}
  /\ UNCHANGED <<held0, toServer, toClient, sigchld, inflight, decr, fatal,
                 got_signal, entries, goodfiles, status>>

\* Opening or creating dstdir, chdir(2) to srcdir and fts_open(3).
Setup ==
  /\ cpc = "setup"
  /\ cpc' = "read"
  /\ UNCHANGED <<kernelVars, inflight, decr, fatal, got_signal, entries,
                 goodfiles, status>>

\* socketpair(2), fork(2), opening or creating dstdir, chdir(2) or
\* fts_open(3) failed.
StartupFails ==
  /\ cpc \in {"fork", "setup"}
  /\ Exit(1)
  /\ UNCHANGED <<sigchld, inflight, decr, fatal, got_signal, entries,
                 goodfiles>>

-----------------------------------------------------------------------------
(* process_tree(): the loop over the file hierarchy                        *)

\* What the code does after reading an entry, for a condition on the window.
FtsReadWhen(full) ==
  /\ cpc = "read"
  /\ fatal = 0
  /\ got_signal = 0
  /\ entries < MaxEntries
  /\ entries' = entries + 1
  /\ cpc' = IF full THEN "wait" ELSE "entry"
  /\ UNCHANGED <<kernelVars, inflight, decr, fatal, got_signal, goodfiles,
                 status>>

\* Mutants: one message too many; acknowledgements awaited for every entry.
FtsReadOffByOne == FtsReadWhen(inflight > MaxInflight)
FtsReadAlwaysWaits == FtsReadWhen(TRUE)

\* The loop condition holds and fts_read(3) returns another entry.
FtsRead == FtsReadWhen(inflight >= MaxInflight)

\* fts_read(3) returns NULL, at the end with errno = 0 or after an error.
FtsEnd ==
  /\ cpc = "read"
  /\ fatal = 0
  /\ got_signal = 0
  /\ cpc' = "post"
  /\ fatal' \in {0, 1}
  /\ UNCHANGED <<kernelVars, inflight, decr, got_signal, entries, goodfiles,
                 status>>

\* The loop condition fails.
LoopStops ==
  /\ cpc = "read"
  /\ fatal = 1 \/ got_signal = 1
  /\ cpc' = "post"
  /\ UNCHANGED <<kernelVars, inflight, decr, fatal, got_signal, entries,
                 goodfiles, status>>

\* The blocking recv(2) taken when the window is full.  A return value of
\* zero, the end of the file, counts as one acknowledgement here; the
\* draining loop below then meets the end of the file again.
WaitRecv ==
  /\ cpc = "wait"
  /\ \/ toClient > 0 /\ toClient' = toClient - 1
     \/ toClient = 0 /\ ServerEndClosed /\ UNCHANGED toClient
  /\ decr' = 1
  /\ cpc' = "drain"
  /\ UNCHANGED <<held0, held1, toServer, sigchld, inflight, fatal, got_signal,
                 entries, goodfiles, status>>

\* The blocking recv(2) fails because the peer reset the connection.
WaitReset ==
  /\ cpc = "wait"
  /\ toClient = 0
  /\ ServerEndClosed
  /\ fatal' = 1
  /\ cpc' = "post"
  /\ UNCHANGED <<kernelVars, inflight, decr, got_signal, entries, goodfiles,
                 status>>

\* The non-blocking recv(2) of the draining loop returns a byte.
DrainByte ==
  /\ cpc = "drain"
  /\ toClient > 0
  /\ toClient' = toClient - 1
  /\ decr' = decr + 1
  /\ UNCHANGED <<held0, held1, toServer, sigchld, cpc, inflight, fatal,
                 got_signal, entries, goodfiles, status>>

\* The draining loop ends with EAGAIN, and the entry is processed.
DrainAgain ==
  /\ cpc = "drain"
  /\ toClient = 0
  /\ ~ServerEndClosed
  /\ inflight' = inflight - decr
  /\ decr' = 0
  /\ cpc' = "entry"
  /\ UNCHANGED <<kernelVars, fatal, got_signal, entries, goodfiles, status>>

\* The draining loop ends with the end of the file (inflight becomes -1) or
\* with ECONNRESET; both abort the iteration.
DrainClosed ==
  /\ cpc = "drain"
  /\ toClient = 0
  /\ ServerEndClosed
  /\ inflight' \in {-1, inflight - decr}
  /\ decr' = 0
  /\ fatal' = 1
  /\ cpc' = "post"
  /\ UNCHANGED <<kernelVars, got_signal, entries, goodfiles, status>>

\* A directory, an entry that is neither a file nor a directory, an entry
\* fts(3) could not read, or a file that process_manpage() cannot open for
\* reading or writing: reported, counted, and not sent.
EntrySkipped ==
  /\ cpc = "entry"
  /\ cpc' = "read"
  /\ UNCHANGED <<kernelVars, inflight, decr, fatal, got_signal, entries,
                 goodfiles, status>>

\* A regular file whose input and output files process_manpage() opened.
EntryOpened ==
  /\ cpc = "entry"
  /\ cpc' = "send"
  /\ UNCHANGED <<kernelVars, inflight, decr, fatal, got_signal, entries,
                 goodfiles, status>>

\* sock_fd_write() succeeds; process_manpage() closes its two descriptors.
Send ==
  /\ cpc = "send"
  /\ ~ServerEndClosed
  /\ toServer' = toServer + 1
  /\ goodfiles' = goodfiles + 1
  /\ inflight' = inflight + 1
  /\ cpc' = "read"
  /\ UNCHANGED <<held0, held1, toClient, sigchld, decr, fatal, got_signal,
                 entries, status>>

\* Mutant: a failed sendmsg(2) is counted as a message in flight.
SendFailsCounted ==
  /\ cpc = "send"
  /\ got_signal' = IF ServerEndClosed THEN 1 ELSE got_signal
  /\ fatal' = 1
  /\ goodfiles' = goodfiles + 1
  /\ inflight' = inflight + 1
  /\ cpc' = "read"
  /\ UNCHANGED <<kernelVars, decr, entries, status>>

\* sendmsg(2) fails with EPIPE, which also raises SIGPIPE, or for lack of
\* descriptors or memory.
SendFails ==
  /\ cpc = "send"
  /\ got_signal' = IF ServerEndClosed THEN 1 ELSE got_signal
  /\ fatal' = 1
  /\ cpc' = "read"
  /\ UNCHANGED <<kernelVars, inflight, decr, entries, goodfiles, status>>

-----------------------------------------------------------------------------
(* process_tree(): after the loop                                          *)

PostLoop ==
  /\ cpc = "post"
  /\ IF got_signal = 1
     THEN inflight' = -1 /\ fatal' = 1
     ELSE UNCHANGED <<inflight, fatal>>
  /\ cpc' = "final"
  /\ UNCHANGED <<kernelVars, decr, got_signal, entries, goodfiles, status>>

FinalRecv ==
  /\ cpc = "final"
  /\ inflight > 0
  /\ toClient > 0
  /\ toClient' = toClient - 1
  /\ inflight' = inflight - 1
  /\ UNCHANGED <<held0, held1, toServer, sigchld, cpc, decr, fatal,
                 got_signal, entries, goodfiles, status>>

\* Mutant: the final loop takes the end of the file for the end of the work.
FinalClosedIgnored ==
  /\ cpc = "final"
  /\ inflight > 0
  /\ toClient = 0
  /\ ServerEndClosed
  /\ inflight' = 0
  /\ UNCHANGED <<kernelVars, cpc, decr, fatal, got_signal, entries, goodfiles,
                 status>>

\* End of the file or ECONNRESET while waiting for acknowledgements.
FinalClosed ==
  /\ cpc = "final"
  /\ inflight > 0
  /\ toClient = 0
  /\ ServerEndClosed
  /\ inflight' = -1
  /\ UNCHANGED <<kernelVars, cpc, decr, fatal, got_signal, entries, goodfiles,
                 status>>

\* The value process_tree() returns becomes the exit status of main().
Finish ==
  /\ cpc = "final"
  /\ inflight <= 0
  /\ Exit(IF fatal = 1 \/ inflight = -1 THEN 1 ELSE 0)
  /\ UNCHANGED <<sigchld, inflight, decr, fatal, got_signal, entries,
                 goodfiles>>

-----------------------------------------------------------------------------
(* signal_handler()                                                        *)

\* What else a signal does: a recv(2) that is blocked fails with EINTR.  A
\* signal that arrives just before the call only sets got_signal.
Interrupted ==
  /\ toClient = 0
  /\ ~ServerEndClosed
  /\ \/ /\ cpc = "wait"
        /\ fatal' = 1
        /\ cpc' = "post"
        /\ UNCHANGED inflight
     \/ /\ cpc = "final"
        /\ inflight > 0
        /\ inflight' = -1
        /\ UNCHANGED <<cpc, fatal>>

signal_handler ==
  /\ cpc # "exited"
  /\ got_signal' = 1
  /\ Interrupted \/ UNCHANGED <<cpc, inflight, fatal>>
  /\ UNCHANGED <<held0, held1, toServer, toClient, decr, entries, goodfiles,
                 status>>

\* SIGHUP, SIGINT or SIGTERM from outside.
UserSignal ==
  /\ got_signal = 0
  /\ signal_handler
  /\ UNCHANGED sigchld

\* The SIGCHLD that the end of mandocd raised.
ChildSignal ==
  /\ sigchld = 1
  /\ sigchld' = 0
  /\ signal_handler

CatmanStep ==
  \/ Fork \/ CloseServerEnd \/ Setup \/ StartupFails
  \/ FtsRead \/ FtsEnd \/ LoopStops
  \/ WaitRecv \/ WaitReset
  \/ DrainByte \/ DrainAgain \/ DrainClosed
  \/ EntrySkipped \/ EntryOpened \/ Send \/ SendFails
  \/ PostLoop \/ FinalRecv \/ FinalClosed \/ Finish

CatmanSignal == UserSignal \/ ChildSignal
=============================================================================
