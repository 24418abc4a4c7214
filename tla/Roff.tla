-------------------------------- MODULE Roff --------------------------------
(***************************************************************************)
(* The roff(7) preprocessor, roff.c: what roff_parseln() does with one     *)
(* input line.  It is a function of the parser state r, the line ln, and   *)
(* the value c of the condition on the line, and yields the new state, the *)
(* remaining line, and the return code that read.c acts upon.              *)
(*                                                                         *)
(* A line is a sequence of conditional requests (heads), each followed by  *)
(* what it applies to, and then a text, a request or a macro (k):          *)
(*   of     how many of the heads have been processed (the offset *offs)   *)
(*   k      "txt" and "nil" (empty) text; "cl" text of closing braces      *)
(*          only; "dot" the empty request; "dotcl" a closing brace after   *)
(*          the control character; "mac" a high-level macro; "call" a user *)
(*          defined macro; "cblock" the end marker .. of a block; "nop" a  *)
(*          request without effect on the state modelled here; "sobad" an  *)
(*          .so with a path that is refused; and the requests of the same  *)
(*          name                                                           *)
(*   arg    the macro defined, appended to, or called                      *)
(*   arg1   the argument of a macro call, or the end marker of a block     *)
(*   num    the number of lines of an .it request                          *)
(*   close  how many closing braces the line contains                      *)
(*   cont   whether the line ends with a backslash                         *)
(*   n      how many input lines were joined to form it                    *)
(*                                                                         *)
(* Tables, equations, number registers and escape sequences are left out.  *)
(***************************************************************************)
EXTENDS RoffScope

TextKind == {"txt", "nil", "cl"}
CtlKind == {"dot", "dotcl", "mac", "call", "cblock", "nop", "break", "return",
            "so", "sobad", "it", "ds", "de", "am", "ig"}
Scope == {"brace", "line", "next"}

CondHead == [tok : CondTok, scope : Scope]

Line == [heads : Seq(CondHead), of : Nat, k : TextKind \cup CtlKind,
         arg : Macros \cup {NoName}, arg1 : Macros \cup {NoName},
         num : Nat, close : Nat, cont : BOOLEAN, n : Nat]

\* What the parser finds on a line: requests and calls have their argument, and
\* the scope of a conditional is the next line only if nothing follows it on
\* this one, which is not continued either.
WellFormed(ln) ==
  /\ ln.k \in {"call", "it", "ds", "de", "am"} => ln.arg \in Macros
  /\ \A i \in 1 .. Len(ln.heads) : ln.heads[i].scope = "next" =>
       i = Len(ln.heads) /\ ln.k = "nil" /\ ~ln.cont

\* A line of the given kind without conditionals.
Plain(kind, name, name1) ==
  [heads |-> <<>>, of |-> 0, k |-> kind, arg |-> name, arg1 |-> name1,
   num |-> 1, close |-> 0, cont |-> FALSE, n |-> 1]

EmptyLine == [Plain("nil", NoName, NoName) EXCEPT !.n = 0]
TextLine == Plain("txt", NoName, NoName)

\* Whether the unprocessed part of a line starts with a control character.
InHeads(ln) == ln.of < Len(ln.heads)
IsCtl(ln) == InHeads(ln) \/ ln.k \in CtlKind

\* A line appended to the text already in the line buffer.  Whatever it is,
\* it continues the text, request or macro in front of it.
Join(prefix, ln) ==
  IF prefix = EmptyLine THEN ln
  ELSE [prefix EXCEPT !.close = @ + ln.close, !.cont = ln.cont,
                      !.n = @ + ln.n,
                      !.k = IF @ = "nil" THEN "txt" ELSE @]

\* The return codes of libmandoc.h.
Res(main, opt, loop) == [main |-> main, opt |-> opt, loop |-> loop]
IGN == Res("ign", {}, "none")
CONT == Res("cont", {}, "none")
APPEND == Res("ign", {"append"}, "none")

\* The value of a user-defined string (nl = FALSE) or macro: a string that
\* ends in a newline character is a macro.
Undefined == [def |-> FALSE, lines |-> <<>>, nl |-> FALSE]
EmptyValue == [def |-> TRUE, lines |-> <<>>, nl |-> FALSE]

\* The state right after roff_alloc() or roff_reset().
RoffInit ==
  [last |-> <<>>, rstack |-> <<>>, mstack |-> 0,
   strtab |-> [m \in Macros |-> Undefined],
   it |-> [n |-> 0, macro |-> NoName]]

\* What a handler returns; blk is the input that REPARSE replaces the line by.
Out(r, ln, res) == [r |-> r, ln |-> ln, res |-> res, blk |-> <<>>]
Reparse(r, ln, blk, opt) ==
  [r |-> r, ln |-> ln, res |-> Res("reparse", opt, "none"), blk |-> blk]

-----------------------------------------------------------------------------
(* Names, strings and macros                                               *)

\* roff_setstrn() in multiline append mode: the new line starts after the
\* last newline character of the existing value.
SetAppend(v, ln) ==
  [def |-> TRUE, nl |-> TRUE,
   lines |-> IF v.lines = <<>> \/ v.nl THEN Append(v.lines, ln)
             ELSE [v.lines EXCEPT ![Len(v.lines)] = Join(@, ln)]]

\* roff_parse(): the token of the request or macro on the line.
roff_parse(r, ln) ==
  IF InHeads(ln) THEN ln.heads[ln.of + 1].tok
  ELSE IF ln.k = "call" THEN IF r.strtab[ln.arg].def THEN "userdef" ELSE "none"
  ELSE IF ln.k \in {"mac", "dotcl", "dot"} \cup TextKind THEN "none"
  ELSE ln.k

\* Using an undefined macro defines it to be empty.
DefineUsed(r, name) ==
  IF name \in Macros /\ ~r.strtab[name].def
  THEN [r EXCEPT !.strtab[name] = EmptyValue]
  ELSE r

ParseSideEffect(r, ln) ==
  IF ~InHeads(ln) /\ ln.k = "call" THEN DefineUsed(r, ln.arg) ELSE r

\* roff_userdef(): a new macro context; the line is replaced by the value.
roff_userdef(r, ln) ==
  LET v == r.strtab[ln.arg]
      entered == [r EXCEPT !.mstack = @ + 1]
  IN  IF v.lines = <<>> THEN Out(r, ln, IGN)
      ELSE IF v.nl THEN Reparse(entered, ln, v.lines, {"usercall"})
      ELSE Out(entered, v.lines[1], APPEND)

\* roff_return()
roff_return(r, ln) ==
  Out(r, ln, IF r.mstack > 0 THEN Res("ign", {"userret"}, "none") ELSE IGN)

\* roff_ds()
roff_ds(r, ln) ==
  Out([r EXCEPT !.strtab[ln.arg] =
         [def |-> TRUE, lines |-> <<TextLine>>, nl |-> FALSE]], ln, IGN)

\* roff_it()
roff_it(r, ln) ==
  Out([r EXCEPT !.it = [n |-> ln.num, macro |-> ln.arg]], ln, IGN)

\* roff_so(): a path that leads out of the tree is replaced by a text.
SeeTheFile == <<Plain("nop", NoName, NoName), TextLine,
                Plain("nop", NoName, NoName)>>
roff_so(r, ln) ==
  IF ln.k = "sobad" THEN Reparse(r, ln, SeeTheFile, {})
  ELSE Out(r, ln, Res("so", {}, "none"))

-----------------------------------------------------------------------------
(* Conditionals                                                            *)

\* If the parent has false as its rule, then so do we.
RuleOf(stack, value) ==
  IF stack # <<>> /\ Top(stack).rule = 0 THEN 0 ELSE value

\* Mutant: the line with the conditional itself is not counted.
EndSpanTooLong(head) ==
  CASE head.scope = "brace" -> -1
    [] head.scope = "line" -> 1
    [] head.scope = "next" -> IF head.tok = "while" THEN 1 ELSE 3

\* How many lines the scope of a conditional spans.
EndSpan(head) ==
  CASE head.scope = "brace" -> -1
    [] head.scope = "line" -> 1
    [] head.scope = "next" -> IF head.tok = "while" THEN 1 ELSE 2

\* roff_cond(): an .el takes the value that the last .ie left in rstack.
roff_cond(r, ln, c) ==
  LET head == ln.heads[ln.of + 1]
      depth == Len(r.rstack)
      value == IF head.tok # "el" THEN c
               ELSE IF depth = 0 THEN 0 ELSE r.rstack[depth]
      rule == RuleOf(r.last, value)
      node == [Top(roffnode_push(r.last, head.tok, NoName, NoName))
                 EXCEPT !.rule = rule, !.endspan = EndSpan(head)]
      rstack == CASE head.tok = "ie" -> Append(r.rstack, 1 - value)
                  [] head.tok = "el" /\ depth > 0 ->
                       SubSeq(r.rstack, 1, depth - 1)
                  [] OTHER -> r.rstack
  IN  Out([r EXCEPT !.last = Append(@, node), !.rstack = rstack],
          [ln EXCEPT !.of = @ + 1],
          Res("rerun", {}, IF head.tok = "while" THEN "while" ELSE "none"))

\* roff_cond_checkend(): nodes that end with this line, and the closing
\* braces in it.  "discard" is set if arguments following a brace are dropped.
\* rr is the rule of the innermost node, or 0 if the line is to be dropped.
roff_cond_checkend(r, tok, ln, discard) ==
  LET rule == Top(r.last).rule
      last == CloseBraces(roffnode_cleanscope(r.last), ln.close)
      leading == /\ ~InHeads(ln)
                 /\ ln.k \in {"cl", "dotcl"}
                 /\ discard \/ ln.close = 1
  IN  [r |-> [r EXCEPT !.last = last],
       ln |-> [ln EXCEPT !.close = 0],
       rr |-> IF leading THEN 0 ELSE rule,
       loop |-> IF tok # "while" \/ ~LoopEnded(r.last, last) THEN "none"
                ELSE IF rule = 1 THEN "cont" ELSE "exit"]

\* A .break request clears the rules up to the innermost loop.
BreakLoop(stack) ==
  LET loops == {i \in DOMAIN stack : stack[i].tok = "while"}
      first == IF loops = {} THEN 1
               ELSE CHOOSE i \in loops : \A j \in loops : j <= i
  IN  [i \in DOMAIN stack |->
         IF i >= first THEN [stack[i] EXCEPT !.rule = 0] ELSE stack[i]]

\* roff_cond_text()
roff_cond_text(r, ln) ==
  LET ck == roff_cond_checkend(r, Top(r.last).tok, ln, FALSE)
  IN  Out(ck.r, ck.ln,
          Res(IF ck.rr = 1 THEN "cont" ELSE "ign", {}, ck.loop))

-----------------------------------------------------------------------------
(* Blocks                                                                  *)

\* roff_block(): begin a macro definition or an ignored block.
roff_block(r, ln) ==
  LET pushed == [r EXCEPT !.last = roffnode_push(@, ln.k, ln.arg, ln.arg1)]
  IN  Out(IF ln.k = "de" THEN [pushed EXCEPT !.strtab[ln.arg] = EmptyValue]
          ELSE pushed, ln, IGN)

\* roff_cblock(): end a block with the standard end marker.  The value of
\* roff_cond_checkend() is not used here.
roff_cblock(r, ln) ==
  LET last == roffnode_cleanscope(roffnode_pop(r.last))
      braced == last # <<>> /\ Top(last).endspan < 0
  IN  IF r.last = <<>> \/ Top(r.last).tok \notin BlockTok
      THEN Out(r, ln, IGN)
      ELSE Out([r EXCEPT !.last = IF braced
                  THEN roff_cond_checkend([r EXCEPT !.last = last], "cblock",
                                          ln, FALSE).r.last
                  ELSE last], ln, IGN)

\* Append a line to the macro being defined; .ig discards it.
StoreLine(r, ln) ==
  LET rest == [ln EXCEPT !.heads = SubSeq(@, ln.of + 1, Len(@)), !.of = 0]
  IN  IF Top(r.last).tok = "ig" THEN r
      ELSE [r EXCEPT !.strtab[Top(r.last).name] = SetAppend(@, rest)]

roff_block_text(r, ln) == Out(StoreLine(r, ln), ln, IGN)

\* roff_block_sub(): after a custom end marker, the code looks at the first
\* argument of the marker to decide whether to interpret the line once more.
roff_block_sub(r, ln) ==
  LET marker == ~InHeads(ln) /\ ln.k = "call" /\ Top(r.last).end = ln.arg
      popped == [r EXCEPT !.last = roffnode_cleanscope(roffnode_pop(@))]
      again == ln.arg1 \in Macros /\ r.strtab[ln.arg1].def
      used == DefineUsed(popped, ln.arg1)
  IN  IF marker
      THEN Out(used, ln, IF again THEN Res("rerun", {}, "none") ELSE IGN)
      ELSE IF ~InHeads(ln) /\ ln.k = "cblock" THEN roff_cblock(r, ln)
      ELSE Out(StoreLine(ParseSideEffect(r, ln), ln), ln, IGN)

-----------------------------------------------------------------------------
(* Dispatch                                                                *)

\* roff_req_or_macro(): a new request or macro, with token t.
roff_req_or_macro(r, t, ln, c) ==
  CASE t = "none" -> Out(r, ln, CONT)
    [] t = "userdef" -> roff_userdef(r, ln)
    [] t \in CondTok -> roff_cond(r, ln, c)
    [] t \in BlockTok -> roff_block(r, ln)
    [] t = "cblock" -> roff_cblock(r, ln)
    [] t = "return" -> roff_return(r, ln)
    [] t = "ds" -> roff_ds(r, ln)
    [] t = "it" -> roff_it(r, ln)
    [] t \in {"so", "sobad"} -> roff_so(r, ln)
    [] t \in {"nop", "break"} -> Out(r, ln, IGN)

\* roff_cond_sub(): a request or macro line in conditional scope.  Those
\* that change the structure are handled even if the condition is false.
roff_cond_sub(r, ln, c) ==
  LET ck == roff_cond_checkend(r, Top(r.last).tok, ln, TRUE)
      t == roff_parse(ck.r, ck.ln)
      q == ParseSideEffect(ck.r, ck.ln)
      req == roff_req_or_macro(q, t, ck.ln, c)
      loop == IF req.res.loop = "while" THEN "while" ELSE ck.loop
  IN  IF t = "break"
      THEN IF ck.loop # "none" THEN Out(q, ck.ln, Res("ign", {}, "exit"))
           ELSE IF ck.rr = 1
           THEN Out([q EXCEPT !.last = BreakLoop(@)], ck.ln, IGN)
           ELSE Out(q, ck.ln, IGN)
      ELSE IF ck.rr = 1 \/ t \in CondTok
      THEN [req EXCEPT !.res.loop = loop]
      ELSE Out(q, ck.ln, Res("ign", {}, ck.loop))

\* roff_parsetext(): a text line that is not inside any block springs the
\* input line trap; the whole line buffer is then parsed again.
roff_parsetext(r, ln) ==
  IF r.it.n = 1
  THEN Reparse([r EXCEPT !.it = [n |-> 0, macro |-> NoName]], ln,
               <<[ln EXCEPT !.of = 0],
                 Plain("call", r.it.macro, NoName)>>, {})
  ELSE Out([r EXCEPT !.it.n = IF @ > 1 THEN @ - 1 ELSE @], ln, CONT)

\* A text line: first the filter of the open scope, then the text itself.
ParseText(r, ln) ==
  LET e == roff_cond_text(r, ln)
      p == roff_parsetext(e.r, e.ln)
  IN  IF r.last = <<>> THEN roff_parsetext(r, ln)
      ELSE IF Top(r.last).tok \in BlockTok THEN roff_block_text(r, ln)
      ELSE IF e.res.main = "ign" THEN e
      ELSE [p EXCEPT !.res.loop = e.res.loop]

\* A request or macro line: the open scope sees it first.
ParseCtl(r, ln, c) ==
  IF ~InHeads(ln) /\ ln.k = "dot" THEN Out(r, ln, IGN)
  ELSE IF r.last = <<>>
  THEN roff_req_or_macro(ParseSideEffect(r, ln), roff_parse(r, ln), ln, c)
  ELSE IF Top(r.last).tok \in BlockTok THEN roff_block_sub(r, ln)
  ELSE roff_cond_sub(r, ln, c)

\* roff_parseln(): line continuation precedes everything else.
roff_parseln(r, ln, c) ==
  IF ln.cont THEN Out(r, [ln EXCEPT !.cont = FALSE], APPEND)
  ELSE IF IsCtl(ln) THEN ParseCtl(r, ln, c)
  ELSE ParseText(r, ln)
=============================================================================
