------------------------------- MODULE Mparse -------------------------------
(***************************************************************************)
(* The main parser, read.c: mparse_readfd() and the recursive function     *)
(* mparse_buf_r(), which splits input into lines, calls roff_parseln() on  *)
(* each and acts on the return code: hand the line to the high-level       *)
(* parser, rerun, recurse into a macro or an included file, or iterate a   *)
(* .while loop by replaying lines from a lookaside buffer.                 *)
(*                                                                         *)
(* frames is the call stack of mparse_buf_r(), innermost invocation last.  *)
(* A frame has                                                             *)
(*   start   TRUE for a file, FALSE for text that replaced a line          *)
(*   kind    "file", "macro" (its caller saw ROFF_USERCALL) or "text"      *)
(*   blk     the lines of the buffer that were not read yet; those of a    *)
(*           file are chosen when they are read                            *)
(*   eof     for a file, whether the last line has been read               *)
(*   look    the lookaside buffer, all lines read in this invocation       *)
(*   ln      the line buffer                                               *)
(*   ph      what comes next: "fetch" a line, "parse" the line buffer,     *)
(*           wait until the inner call returns ("called"), or "leave"      *)
(*   res     the return code that started the inner call                   *)
(*   loop    the lookaside line being replayed, or Null                    *)
(*   inloop  saw .while on this level                                      *)
(*   result  the value to be returned                                      *)
(* A pointer to a lookaside line is a pair of frame number and index.      *)
(***************************************************************************)
EXTENDS Roff, FiniteSets

CONSTANTS
  Menus,         \* kinds of input, by name: lines is the set of input lines that
                 \* files are made of, prologue the lines the main file starts
                 \* with, max bounds the lines read from all files together, and
                 \* quick is MPARSE_QUICK: the high-level parser may stop early
  MaxTrue,       \* bound: loop conditions that evaluate to true
  ReparseLimit,  \* REPARSE_LIMIT, 1000 in the source
  SoLimit,       \* nested files in mparse_readfd(), 64 in the source
  MparseSo       \* MPARSE_SO: follow .so even on the last line

ASSUME MparseAssumption ==
  /\ \A m \in DOMAIN Menus :
       /\ Menus[m].lines \subseteq {ln \in Line : WellFormed(ln)}
       /\ Menus[m].prologue \in Seq({ln \in Line : WellFormed(ln)})
       /\ Menus[m].max \in Nat /\ Menus[m].quick \in BOOLEAN
  /\ MaxTrue \in Nat
  /\ ReparseLimit \in Nat /\ SoLimit \in Nat
  /\ MparseSo \in BOOLEAN

VARIABLES
  menu,           \* the kind of input
  r,              \* the roff parser
  frames,         \* the invocations of mparse_buf_r()
  curloop,        \* curp->loop, the open .while request line, or Null
  reparse_count,  \* curp->reparse_count
  nread,          \* lines read from files
  ntrue,          \* loop conditions that were true
  status          \* "run", "done", or "aborted" by a failed assertion

vars == <<menu, r, frames, curloop, reparse_count, nread, ntrue, status>>

Null == <<0, 0>>

Input == Menus[menu]

Frame(start, kind, blk) ==
  [start |-> start, kind |-> kind, blk |-> blk,
   eof |-> start => nread >= Input.max, look |-> <<>>, ln |-> EmptyLine,
   ph |-> "fetch", res |-> IGN, loop |-> Null, inloop |-> FALSE,
   result |-> "cont"]

Init ==
  /\ menu \in DOMAIN Menus
  /\ r = RoffInit
  /\ nread = 0
  /\ frames = <<Frame(TRUE, "file", <<>>)>>
  /\ curloop = Null
  /\ reparse_count = 0
  /\ ntrue = 0
  /\ status = "run"

Depth == Len(frames)
Cur == frames[Depth]
InPhase(ph) == status = "run" /\ Cur.ph = ph

-----------------------------------------------------------------------------
(* Reading a line                                                          *)

\* Put a line behind what is left in the line buffer and keep a copy in the
\* lookaside buffer.  At the end of the buffer, no line can be appended.
Load(f, ln, isLast) ==
  LET joined == Join(f.ln, ln)
  IN  [f EXCEPT !.look = Append(@, joined),
                !.ln = IF isLast THEN [joined EXCEPT !.cont = FALSE]
                       ELSE joined,
                !.ph = "parse"]

\* The next line of a file.
FetchFile ==
  /\ InPhase("fetch")
  /\ Cur.start
  /\ ~Cur.eof
  /\ \E ln \in IF nread < Len(Input.prologue) THEN {Input.prologue[nread + 1]}
               ELSE Input.lines,
        isLast \in IF nread + 1 >= Input.max THEN {TRUE}
                   ELSE IF nread < Len(Input.prologue) THEN {FALSE} ELSE BOOLEAN :
       frames' = [frames EXCEPT ![Depth] =
                    [Load(@, ln, isLast) EXCEPT !.eof = isLast]]
  /\ nread' = nread + 1
  /\ reparse_count' = 0
  /\ UNCHANGED <<r, curloop, ntrue, status>>

\* Mutant: reparse_count is reset by every line, not only by those of files.
FetchTextResets ==
  /\ InPhase("fetch")
  /\ ~Cur.start
  /\ Cur.blk # <<>> \/ Cur.ln # EmptyLine
  /\ frames' = [frames EXCEPT ![Depth] =
       IF Cur.blk = <<>> THEN Load(Cur, EmptyLine, TRUE)
       ELSE [Load(Cur, Head(Cur.blk), Len(Cur.blk) = 1) EXCEPT
               !.blk = Tail(Cur.blk)]]
  /\ reparse_count' = 0
  /\ UNCHANGED <<r, curloop, nread, ntrue, status>>

\* The next line of a macro or of a replacement text, or what is left in the
\* line buffer at its end.
FetchText ==
  /\ InPhase("fetch")
  /\ ~Cur.start
  /\ Cur.blk # <<>> \/ Cur.ln # EmptyLine
  /\ frames' = [frames EXCEPT ![Depth] =
       IF Cur.blk = <<>> THEN Load(Cur, EmptyLine, TRUE)
       ELSE [Load(Cur, Head(Cur.blk), Len(Cur.blk) = 1) EXCEPT
               !.blk = Tail(Cur.blk)]]
  /\ UNCHANGED <<r, curloop, reparse_count, nread, ntrue, status>>

\* The end of the buffer.
EndOfInput ==
  /\ InPhase("fetch")
  /\ IF Cur.start THEN Cur.eof ELSE Cur.blk = <<>> /\ Cur.ln = EmptyLine
  /\ frames' = [frames EXCEPT ![Depth].ph = "leave"]
  /\ UNCHANGED <<r, curloop, reparse_count, nread, ntrue, status>>

-----------------------------------------------------------------------------
(* Processing the return code of roff_parseln()                            *)

\* The assertions on the options in mparse_buf_r().
AssertFails(res) ==
  \/ "append" \in res.opt /\ res # APPEND
  \/ "usercall" \in res.opt /\ res.main # "reparse"
  \/ "userret" \in res.opt /\ res # Res("ign", {"userret"}, "none")

\* Effects of the loop bits on a frame and on curp->loop: the start of a loop,
\* and its end, which iterates it or leaves it.
LoopStarts(f) ==
  IF curloop # Null /\ f.loop = curloop THEN <<f, curloop>>
  ELSE <<[f EXCEPT !.loop = Null, !.inloop = TRUE], <<Depth, Len(f.look)>>>>

LoopEnds(f, iterate) ==
  CASE curloop = Null -> <<f, curloop>>
    [] curloop # Null /\ ~f.inloop -> <<[f EXCEPT !.loop = Null], Null>>
    [] curloop # Null /\ f.inloop ->
         IF iterate THEN <<[f EXCEPT !.loop = curloop], curloop>>
         ELSE <<[f EXCEPT !.loop = Null, !.inloop = FALSE], Null>>

\* Mutant: the end of a loop always iterates it.
LoopSwitchNeverExits(f, loop) ==
  CASE loop = "none" -> <<f, curloop>>
    [] loop = "while" -> LoopStarts(f)
    [] loop \in {"cont", "exit"} -> LoopEnds(f, TRUE)

\* The switch over ROFF_LOOPMASK.
LoopSwitch(f, loop) ==
  CASE loop = "none" -> <<f, curloop>>
    [] loop = "while" -> LoopStarts(f)
    [] loop \in {"cont", "exit"} -> LoopEnds(f, loop = "cont")

\* Start the next input line: replay a line of the current loop, or fetch.
NextLine(f, res) ==
  LET prefix == IF "append" \in res.opt THEN f.ln ELSE EmptyLine
      advanced == IF f.loop = Null \/ res.loop # "none" THEN f.loop
                  ELSE IF f.loop[2] = Len(f.look) THEN Null
                  ELSE <<f.loop[1], f.loop[2] + 1>>
  IN  IF advanced = Null
      THEN [f EXCEPT !.loop = Null, !.ln = prefix, !.ph = "fetch",
                     !.res = IGN]
      ELSE [f EXCEPT !.loop = advanced, !.res = IGN,
                     !.ln = Join(prefix, f.look[advanced[2]]),
                     !.ph = "parse"]

\* The caller waits for an inner invocation.
Call(f, res, child) ==
  Append([frames EXCEPT ![Depth] = [f EXCEPT !.ph = "called", !.res = res]],
         child)

Replace(f) == [frames EXCEPT ![Depth] = f]

\* Whether the condition on the line is one of a loop.
LoopCondition(ln) == InHeads(ln) /\ ln.heads[ln.of + 1].tok = "while"

\* An assertion fails.
Abort ==
  /\ InPhase("parse")
  /\ \E c \in {0, 1} : \E out \in {roff_parseln(r, Cur.ln, c)} :
       /\ AssertFails(out.res)
       /\ r' = out.r
  /\ status' = "aborted"
  /\ UNCHANGED <<frames, curloop, reparse_count, nread, ntrue>>

\* The file named by .so: the last line of a file may leave it to the caller
\* of the parser; otherwise it is read, or cannot be opened.
IncludeFile(f, res) ==
  LET files == Cardinality({i \in DOMAIN frames : frames[i].start})
      last == IF Cur.start THEN Cur.eof ELSE Cur.blk = <<>>
  IN  \/ /\ ~MparseSo /\ last
         /\ frames' = Replace([f EXCEPT !.ph = "leave"])
      \/ /\ MparseSo \/ ~last
         /\ IF files > SoLimit
            THEN frames' = Replace(NextLine(f, res))
            ELSE frames' = Call(f, res, Frame(TRUE, "file", <<>>))
      \/ /\ MparseSo \/ ~last
         /\ frames' = Call(f, res, Frame(FALSE, "sofail", SeeTheFile))

\* The main instruction: ignore the line, give it to the high-level parser,
\* rerun, recurse, or include a file.
MainInstruction(f, res, blk) ==
  CASE res.main = "ign" -> frames' = Replace(NextLine(f, res))
    [] res.main = "cont" ->
         \/ frames' = Replace(NextLine(f, res))
         \/ Input.quick /\ frames' = Replace([f EXCEPT !.ph = "leave"])
    [] res.main = "rerun" -> frames' = Replace(f)
    [] res.main = "reparse" ->
         IF reparse_count + 1 > ReparseLimit
         THEN frames' = Replace([f EXCEPT !.ph = "leave", !.result = "ign"])
         ELSE frames' = Call(f, res, Frame(FALSE,
                IF "usercall" \in res.opt THEN "macro" ELSE "text", blk))
    [] res.main = "so" -> IncludeFile(f, res)

\* One call of roff_parseln(), with c the value of the condition on the line,
\* and what mparse_buf_r() does with its return code.
Parse ==
  /\ InPhase("parse")
  /\ \E c \in {0, 1} : \E out \in {roff_parseln(r, Cur.ln, c)} :
       /\ ~AssertFails(out.res)
       /\ LoopCondition(Cur.ln) => c = 0 \/ ntrue < MaxTrue
       /\ ntrue' = IF LoopCondition(Cur.ln) /\ c = 1 THEN ntrue + 1 ELSE ntrue
       /\ r' = out.r
       /\ IF "userret" \in out.res.opt /\ ~Cur.start
          THEN /\ frames' = Replace([Cur EXCEPT !.ph = "leave",
                                                !.result = "userret"])
               /\ UNCHANGED <<curloop, reparse_count>>
          ELSE /\ reparse_count' = IF out.res.main = "reparse"
                                   THEN reparse_count + 1 ELSE reparse_count
               /\ \E sw \in {LoopSwitch([Cur EXCEPT !.ln = out.ln],
                                         out.res.loop)} :
                    /\ curloop' = sw[2]
                    /\ MainInstruction(sw[1], out.res, out.blk)
  /\ UNCHANGED <<nread, status>>

-----------------------------------------------------------------------------
(* Returning from mparse_buf_r()                                           *)

\* What the caller does with the value an inner invocation returns.
Resume(f, child) ==
  LET result == IF child.kind = "macro" /\ child.result = "userret"
                THEN "cont" ELSE child.result
  IN  IF child.kind \in {"file", "sofail"} THEN NextLine(f, f.res)
      ELSE IF ~f.start /\ result # "cont"
      THEN [f EXCEPT !.ph = "leave", !.result = result]
      ELSE NextLine([f EXCEPT !.result = result], f.res)

\* The end of an invocation, given curp->loop and the kinds of invocations
\* after which roff_userret() is called.
LeaveWith(loop, kinds) ==
  /\ InPhase("leave")
  /\ curloop' = loop
  /\ r' = IF Cur.kind \in kinds THEN [r EXCEPT !.mstack = @ - 1] ELSE r
  /\ IF Depth = 1
     THEN /\ frames' = <<>>
          /\ status' = "done"
     ELSE /\ frames' = [SubSeq(frames, 1, Depth - 1) EXCEPT ![Depth - 1] =
                          Resume(@, Cur)]
          /\ UNCHANGED status
  /\ UNCHANGED <<reparse_count, nread, ntrue>>

\* Mutants: curp->loop survives its lookaside buffer; every replacement text
\* is taken for a macro.
LeaveKeepsLoop == LeaveWith(curloop, {"macro"})
LeaveAlwaysReturns ==
  LeaveWith(IF Cur.inloop THEN Null ELSE curloop, {"macro", "text"})

\* An open loop is given up at the end of the input it started in.
Leave == LeaveWith(IF Cur.inloop THEN Null ELSE curloop, {"macro"})

Finished == status # "run" /\ UNCHANGED vars

Step ==
  /\ FetchFile \/ FetchText \/ EndOfInput \/ Parse \/ Abort \/ Leave
  /\ UNCHANGED menu

Next == Step \/ Finished

Spec == Init /\ [][Next]_vars

\* A single thread that never blocks takes steps until it has finished: weak
\* fairness of Step, whose enabling condition is status = "run".
FairSpec ==
  /\ Spec
  /\ []<>(status # "run") \/ []<><<TRUE>>_vars

-----------------------------------------------------------------------------
(* Safety                                                                  *)

\* A pointer to a lookaside line refers to a frame that is still there and
\* will forget curp->loop before its lookaside buffer is freed.
LoopLive ==
  /\ curloop # Null =>
       /\ curloop[1] <= Depth
       /\ curloop[2] <= Len(frames[curloop[1]].look)
       /\ frames[curloop[1]].inloop
  /\ \A i \in DOMAIN frames : frames[i].loop # Null =>
       /\ frames[i].loop[1] = i
       /\ frames[i].loop[2] <= Len(frames[i].look)

\* The invocations of the given kinds that have not returned.
Active(kinds) == {i \in DOMAIN frames : frames[i].kind \in kinds}

\* assert(r->mstackpos >= 0) in roff_userret() holds for every macro that is
\* still being executed.
UserretSafe == Cardinality(Active({"macro"})) <= r.mstack

\* The interpreter stack is finite: each line read from a file accounts for at
\* most ReparseLimit macros and replacement texts that are active, and files
\* include each other at most SoLimit deep.
StackBounded ==
  /\ Cardinality(Active({"macro", "text"})) <= ReparseLimit * nread
  /\ Cardinality(Active({"file"})) <= SoLimit + 1

\* The limit on the expansion of nested user-defined macros that mandoc(1)
\* documents: on behalf of each file being read, at most ReparseLimit macros and
\* replacement texts are active.
RecursionLimited ==
  Cardinality(Active({"macro", "text"})) <= ReparseLimit * Cardinality(Active({"file"}))

\* Between two lines, a scope that ends with a line is the innermost one and
\* ends with the very next line.
SpanDiscipline ==
  status = "run" /\ Cur.ph = "fetch" =>
    \A i \in DOMAIN r.last :
      r.last[i].endspan > 0 => i = Len(r.last) /\ r.last[i].endspan = 1

\* The assertions on the return code of roff_parseln() in mparse_buf_r().
AssertsHold == status # "aborted"

-----------------------------------------------------------------------------
(* Liveness                                                                *)

\* If loop conditions become false eventually and the input is finite, the
\* parser ends, however macros call each other and themselves.
ParseEnds == <>(status # "run")
=============================================================================
