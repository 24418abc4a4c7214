------------------------------ MODULE MCMparse ------------------------------
(***************************************************************************)
(* Input lines for TLC to build small documents from.                      *)
(***************************************************************************)
EXTENDS Mparse

H(tok, scope) == [tok |-> tok, scope |-> scope]

\* A line with the given conditionals in front of a body.
Cond(heads, ln) == [ln EXCEPT !.heads = heads]

Nil == Plain("nil", NoName, NoName)
Req(kind) == Plain(kind, NoName, NoName)
Closing(ln, count) == [ln EXCEPT !.close = count]

\* Conditionals and loops, with every kind of scope, the closing brace on a
\* text line and on a line of its own, and loops that span files.
LoopLines ==
  {Closing(TextLine, 1),
   Closing(Req("dotcl"), 1),
   [TextLine EXCEPT !.cont = TRUE],
   Req("so"),
   Cond(<<H("if", "line")>>, Req("break")),
   Cond(<<H("if", "brace")>>, Nil),
   Cond(<<H("if", "next")>>, Nil),
   Cond(<<H("while", "brace")>>, Nil),
   Cond(<<H("while", "line")>>, TextLine)}

\* Macros that call themselves, loop, return and are redefined while they are
\* executed, and input line traps.  The first line is .de x.
MacroLines ==
  {TextLine,
   Req("cblock"),
   Closing(Req("cblock"), 1),
   Req("return"),
   Req("sobad"),
   Req("mac"),
   Req("dot"),
   Plain("call", "x", NoName),
   Plain("it", "x", NoName),
   Plain("ds", "x", NoName),
   Plain("am", "x", NoName),
   Plain("ig", NoName, "x"),
   Cond(<<H("while", "line")>>, Plain("call", "x", NoName)),
   Cond(<<H("while", "brace")>>, Nil),
   Cond(<<H("ie", "line")>>, Plain("call", "x", NoName)),
   Cond(<<H("el", "line")>>, Req("return"))}

MacroPrologue == <<Plain("de", "x", NoName)>>

\* A string that is called in a loop.
StringLines ==
  {TextLine,
   Plain("ds", "x", NoName),
   Cond(<<H("while", "line")>>, Plain("call", "x", NoName))}

\* A macro that includes a file and then calls itself.
NestedPrologue ==
  <<Plain("de", "x", NoName), Req("so"), Plain("call", "x", NoName), Req("cblock"),
    Plain("call", "x", NoName)>>
NestedLines == {TextLine, Req("so"), Plain("call", "x", NoName), Plain("am", "x", NoName)}

MCMenus ==
  [loops |-> [lines |-> LoopLines, prologue |-> <<>>, max |-> 4, quick |-> FALSE],
   macros |-> [lines |-> MacroLines, prologue |-> MacroPrologue, max |-> 5,
               quick |-> TRUE],
   nested |-> [lines |-> NestedLines, prologue |-> NestedPrologue, max |-> 9,
               quick |-> FALSE]]

StringMenus ==
  [strings |-> [lines |-> StringLines, prologue |-> <<>>, max |-> 4, quick |-> FALSE]]

RecursionMenus ==
  [nested |-> [lines |-> {TextLine}, prologue |-> NestedPrologue, max |-> 7,
               quick |-> FALSE]]
=============================================================================
