# A TLA+ development for mandoc

mandoc is a formatter for manual pages in the mdoc(7) and man(7) languages,
together with the roff(7) subset, the tbl(7) and eqn(7) preprocessors, the
man(1), apropos(1) and whatis(1) front ends, a database of manual pages, and
a pair of programs, catman(8) and mandocd(8), that format whole trees of
pages.  This directory models the parts whose correctness depends on the order
of events: processes that share a socket, a terminal or a file, parsers that
keep scopes, buffers and limits over many input lines, and formatters that
switch modes on and off while they walk a tree.

Paths below are relative to the repository, `src/` in `PROJECT.json`.

## 1. Inventory

| Component | State kept | Operations | Interacts with | What makes it correct |
|---|---|---|---|---|
| catman.c | messages in flight, acknowledgements collected, fatal flag, got_signal | walk the tree, open files, pass descriptors, collect acknowledgements, wait at the end | mandocd over a socketpair, SIGCHLD, SIGPIPE | window bounded, no message lost or counted twice, status zero only if all pages were accepted, termination |
| mandocd.c | saved descriptors, state of the loop | receive, acknowledge, format, restore | catman; the parsers and formatters | exit zero only if all received pages were formatted; ends when catman ends |
| read.c | stack of input buffers, lookaside buffers, current loop, reparse counter | fetch a line, call roff, act on the return code, recurse into macros and files | roff.c (return codes), mdoc.c and man.c | no dangling loop pointer, bounded recursion, termination, asserted codes |
| roff.c | stack of open conditionals and blocks, stack of .ie results, macro contexts, strings, registers, current table and equation | one handler per request; text and sub handlers of open scopes | read.c, tbl.c, eqn.c, the syntax tree | rules of nested conditionals, spans of scopes, balanced macro contexts |
| roff_escape.c, preconv.c, chars.c | none | parse an escape, decode input, look up characters | roff.c, formatters | pure functions |
| mdoc_macro.c, mdoc_argv.c, mdoc.c | syntax tree position, flags, open and broken blocks | one handler per macro class, rewinding | roff.c, mdoc_validate.c | every block is closed once, broken blocks end in the right place |
| man_macro.c, man.c | syntax tree position, next-line scopes | macro handlers, breaking and rewinding of scopes | roff.c, man_validate.c | scopes close in order, flags agree with the tree |
| mdoc_validate.c, mdoc_state.c, man_validate.c, roff_validate.c | nodes, section state | normalise and check finished nodes | parsers, tag.c | lists and sections normalised as the formatters expect |
| tbl.c, tbl_layout.c, tbl_data.c | part of the table, layout rows, data rows | read options, layout and data lines | roff.c, formatters | each data cell has a layout cell and columns of its own |
| eqn*.c | box tree, definitions, input position | parse boxes and definitions | roff.c, formatters | boxes nest, expansion is limited |
| term*.c, mdoc_term.c, man_term.c, out.c | modes, fonts, offsets, margins, fields | fill and flush lines | syntax tree | modes and margins end with the node that set them |
| html.c, mdoc_html.c, man_html.c | stack of open elements with references, fill mode | open and close elements | syntax tree | elements nest and are found again; lists contain items |
| mdoc_man.c, mdoc_markdown.c, tree.c | stack of lists, stack of line prefixes, counters | walk a finished tree | syntax tree | what is opened in the output is closed |
| tag.c, term_tag.c, mandoc_xr.c | tag table with priorities, temporary files | add, remove, write | validators, pager | the best tag wins; files are removed |
| main.c, manpath.c, mandoc_msg.c | output state, pager and tag files, error level | read options, loop over files, run the pager | everything, the terminal | the terminal is given back, nobody waits for ever |
| mandocdb.c, dba*.c | tables of links and pages, on-disk arrays | scan, merge, prune, write | file system | the database describes the tree; the file is replaced atomically |
| mansearch.c, dbm*.c | mapped database | compile and evaluate expressions, look up names | file system | a search finds what matches; man finds what is installed |
| cgi.c | one request | answer it | mansearch.c, formatters | stateless |
| soelim.c, demandoc.c | none | filter | | stateless |
| compat_*.c and data tables | | | | code of other projects, and data |

### What is hard to test here

* catman and mandocd run concurrently, either can die between any two system
  calls, and signals arrive between them.  Tests only see the usual schedule.
* man, the pager, the shell and the user share one terminal.  Each may be
  stopped, continued or killed between any two calls of another one.
* makewhatis(8) updates a database that others are reading, of a tree that is
  being changed, with pages that are links or .so files of each other.
* mparse_buf_r() is recursive, keeps pointers into buffers owned by other
  invocations, and acts on return codes that are the union of what several
  handlers returned.  The interesting inputs combine loops, macros, included
  files, early returns and limits.
* Scopes of conditionals end at the end of a line, of the next line, or at a
  brace, and lines are seen several times (rerun, reparse, replay).
* mdoc(7) blocks may be closed in any order.  A block that ends while another
  one inside it is open is only marked, and closed when the inner one ends, by
  a handler that may run many lines later.  man(7) macros wait for the next
  line, which may delete them.
* Formatters run a handler before and after the children of each node, and
  rely on the children to leave modes, stacks and open elements as they were.
  End markers run the second handler early, in the middle of other blocks.

`PROJECT.json` lists these hazards with their lines and the properties that
cover them.

## 2. Modules

| Module | Models | Kind |
|---|---|---|
| `CatmanKernel` | socketpair, descriptors, SIGCHLD (external) | shared variables |
| `Catman` | catman.c | process |
| `Mandocd` | mandocd.c, and the child branch of catman.c | process |
| `BatchWindow` | what catman promises | abstract specification |
| `CatmanSystem` | both processes together, properties, refinement mapping | composition |
| `CatmanProofs` | theorems about `CatmanSystem` | proofs |
| `RoffScope` | the stack of open conditionals and blocks, roff.c | operators |
| `Roff` | roff_parseln() and the request handlers | operators |
| `Mparse` | mparse_buf_r(), read.c, with the roff parser as its state | state machine |
| `MCMparse` | input lines for the runs of `Mparse` | model checking |
| `BasicLemmas` | numbers and sequences: searches, induction | lemmas |
| `MparseProofs` | what one call of roff_parseln() may do; theorems about `Mparse` | proofs |
| `MdocTree` | the syntax tree under construction, roff.c and mdoc.c; rewinding, mdoc_macro.c | operators |
| `MdocMacro` | the macro handlers, mdoc_macro.c, mdoc_argv.c, mdoc.c | state machine |
| `MCMdoc` | the macros that are examined together | model checking |
| `ManMacro` | man.c, man_macro.c, and the roff requests that add nodes | state machine |
| `ManProofs` | theorems about `ManMacro` | proofs |
| `Tbl` | tbl.c, tbl_layout.c, tbl_data.c | state machine |
| `MCTbl` | kinds of tables | model checking |
| `TblProofs` | theorems about `Tbl` | proofs |
| `MdocDocument` | mdoc(7) syntax trees as validation leaves them, and the walk over them | state machine, without a formatter |
| `HtmlOut`, `MdocHtml` | html.c, roff_html.c, print_tbl(), print_eqn(); mdoc_html.c | operators |
| `TermOut`, `MdocTerm` | term.c, roff_term.c; mdoc_term.c | operators |
| `MdocMan`, `MdocMarkdown` | mdoc_man.c; mdoc_markdown.c | operators |
| `Format` | the walk with the formatters, properties | composition |
| `MCFormat` | macros that are examined together | model checking |
| `ManHtml`, `ManTerm` | man_html.c; man_term.c | operators |
| `ManFormat` | the walk over man(7) trees with the formatters, properties | composition |
| `MCManFormat` | macros that are examined together | model checking |
| `ManFormatProofs` | theorems about `ManFormat` on the terminal | proofs |
| `Pager` | main.c from the choice of the pager on, term_tag.c; the pager, shell and user | processes |
| `PagerProofs` | theorems about `Pager` | proofs |
| `Dbfile` | dbwrite(), dba_write(), dbm_map(): the database file | processes |
| `DbfileProofs` | theorem about `Dbfile` | proofs |
| `Makewhatis` | what mandocdb.c and dba*.c compute | operators |
| `Mansearch` | what mansearch.c, dbm.c and fs_search() compute | operators |
| `Database` | tree, makewhatis, file and searches together, reference definitions | composition |
| `MCDatabase` | a small tree | model checking |

### catman and mandocd

Each process has a program counter (`cpc`, `mpc`) that names the system call
it performs next; an action is one call and the code up to the next one.  So
all interleavings at the level of system calls are explored.  Messages carry
the same dummy byte and three descriptors and the socket is first-in
first-out, so each direction is a counter.  `held0` and `held1` say which
process still has which end open: that decides whether a read sees the end of
the file or blocks.  A process that ends drops its descriptors; what is queued
for an end that nobody holds is lost.

Every call may fail where the code has a branch for it.  EAGAIN is a retry
without effect and is not a step.  A signal sets `got_signal`; if catman is
blocked in recv(2) it may also fail with EINTR, since the handler is installed
without SA_RESTART.  mandocd may be killed at any point.

### read.c and roff.c

`Mparse` makes the recursion of mparse_buf_r() explicit: `frames` is the stack
of its invocations, with the local variables that matter.  `Roff` is the
function from a parser state and a line to a new state, the rest of the line,
and a return code, as roff_parseln() computes it, and is called once per
`Parse` step.  What the code keeps in one integer, a record with three fields
holds: the main instruction, the options, and the loop bits.

A line is abstracted to what the control flow tells apart: the conditional
requests it begins with and their scopes, the kind of the rest, the macro
names, the number of closing braces, and whether it is continued.  Conditions
are chosen freely for each evaluation, since registers and strings are not
modelled.  Files consist of lines from one of the sets in `Menus`, chosen
when they are read: a run covers all documents up to its bound.  Whether an .so
target can be opened is a free choice as well.

Not in the model of roff.c: equations, escape sequences, registers, .rn and
.als, .cc and .ec, .shift, .nop, .ps and similar.  The lines of tables are in
`Tbl`, and what TS and TE do to the man(7) parser is in `ManMacro`.

### The mdoc parser

A handler of mdoc_macro.c reads its arguments and calls the handler of the
first one that is a macro, so the active calls are a chain.  `stack` holds a
frame for each, with the local variables that matter: pointers to the block,
head and body of the call, the counters, and the flag nl.  One action is one
iteration of the loop in a handler, or what comes before or after the loop.
Lines are not laid out in advance: whether the next argument is a word, a
delimiter or a macro, and whether more follows, is chosen when it is read
(`rest`).  `syn` is MDOC_SYNOPSIS; the nS register may switch it for any line.

`MdocTree` keeps the nodes on the path from the root to the parse point
mdoc->last, and those that a frame points to.  Other nodes are never looked at
again, except the last child of a body by blk_part_imp() (`ns`), and whether a
block has its parts (`hd`, `bd`), which the properties need.  After each step
the nodes are renumbered.  So the runs cover documents of any length; only the
depth of nesting is bounded.

The 120 macros fall into eight handlers; each macro of the model stands for
those that the code treats alike (see the head of `MdocMacro`).  Not in the
model: which words are joined, the spacing and sentence flags, fill mode,
keeps, quick mode, transparent macros, `-diag` lists, and the quoting flags
of phrases, which only decide whether a word is looked up as a macro.

### The man parser

`man` holds the chain of open nodes, the closed node at the parse point, and
the flags of the parser; an action is one input line.  Closed nodes are
forgotten, so documents may be of any length.  A next-line scope is an open
head (MAN_BLINE) or an open font macro (MAN_ELINE); man_breakscope() deletes
it, man_descope() completes it, rew_scope() closes blocks.  A rewind that
walks off the tree, or a deletion of something else than the code takes
man->last for, sets `fault`.

`tbl` is the table that is open, if any, and whether it has cells: TS and TE
set and clear ROFF_NONOFILL, the flag that also keeps no-fill mode out of heads,
in a table most macros are text (roff.c:1945), each of its lines breaks the
scopes that wait for text, and a TE that ends a table without cells becomes a
`.sp` request.  `loose` remembers that the flag was changed by TS or TE and no
longer says anything about the head that is open.

### Tables

Inside a table, lines are read cell by cell: `Cell`, `Comma` and `LayoutEnds`
are the steps of tbl_layout(), `ReadData`, `getdata` and `CdataText` those of
tbl_data(), getdata() and tbl_cdata().  What a line contains is chosen while it
is read.  A cell that continues a cell above it searches the rows above
(`Extended`) and changes that row; the string that the search looks at may be
NULL, which ends the program (`fault = "string"`, see section 4).

### The formatters

All formatters walk the tree in the same way: a handler before the children of
a node, the children, another handler.  `path` is the chain of nodes being
visited, and the walk chooses the next child when it gets there
(`MdocDocument`, and the first part of `ManFormat`), so that only the depth of
documents is bounded.  Which children are possible follows the parsers and
validation: items in lists, parts of blocks, an end marker inside a block that
outlives the one that it was opened in.  `out` is the state of the formatter,
and an action is one handler: `EnterNode`, `VisitLeaf` and `LeaveNode`.

The state of a formatter is what handlers leave behind for other handlers:
the stack of elements in HTML, where a closed element stays on the stack while
a pointer to it exists; flags, font stack, offset and margins on the terminal;
Bl_stack and the macros that are open in man output; the stack of line
prefixes and its counters in markdown.  Words and the spaces between them are
left out, apart from quotation marks and brackets, which are counted.

### The pager

man has a program counter that names its next system call, and the pager,
shell and user act at any time.  The shell notices that its job has stopped,
puts it into the foreground or background, or runs another one; ^Z and ^C reach
the foreground process group; signals arrive at any step of man and run
tag_signal(), which is modelled with its own calls.  `ret` is where
term_tag_unlink() returns to, because three paths call it.  Where main() or
spawn_pager() leaves without calling it after term_tag_init(), `Abandon` leads
to `pc = "lost"`: a failure of pledge(2), unveil(2) or fork(2), man without
arguments, and a search expression that is missing or cannot be compiled.
Signals that man does not catch (SIGQUIT, SIGKILL) and the exits of the
allocation wrappers when memory is exhausted are left out.

### The database

`Dbfile` distinguishes names from file objects, because a file that is
replaced lives on while a reader has it mapped, and because two writers that
open the same name share an object.  Every call of dbwrite() may fail, and a
writer may die between any two of them.  `Makewhatis` is the computation
between reading the tree and writing: links, duplicates, .so files, pages,
names with their mask bits, keywords, and pruning of an old database.
`Mansearch` is the parser of search expressions, their evaluation, and the
lookup of man(1), with its fallback to the file system.  `Database` lets files
be installed and removed between and during runs of makewhatis, and states
what the results should be independently of the algorithms.

## 3. Runs

| Run | Config | Question | Result |
|---|---|---|---|
| catman | `CatmanSystem.cfg` | do the two processes keep the promise, and end? | passes |
| mparse | `Mparse.cfg` | conditionals, loops and files; macros, traps, redefinition, early return | passes |
| mdoc | `Mdoc.cfg` | sections, names, displays, enclosures, lists and columns that break each other | passes |
| man | `Man.cfg` | next-line scopes, blocks and requests that break each other | passes |
| tbl | `Tbl.cfg` | layouts, spans, text blocks and restarts | passes |
| format | `Format.cfg` | four formatters of mdoc(7) documents | passes |
| man_format | `ManFormat.cfg` | two formatters of man(7) documents | passes |
| pager | `Pager.cfg` | man, pager, shell and user | passes |
| database | `Database.cfg` | building, replacing and searching the database | passes |
| mparse_assert | `MparseAssert.cfg` | do the assertions on return codes hold? | violated |
| mparse_recursion | `MparseRecursion.cfg` | is the expansion of nested macros limited per file? | violated |
| database_race | `DatabaseRace.cfg` | is the replacement atomic with two writers? | violated |

### What the properties say

* `Conservation`: while mandocd lives, what catman sent is in the socket or
  was received; what catman counts as in flight covers all that is in the
  socket, being acknowledged, on its way back, or collected.
* `WindowBounded`: never more than max_inflight unacknowledged messages.
* `AssertDecr`: `assert(inflight >= decr)`.
* `ServerExitZero`: mandocd exits with zero only after formatting all it was
  sent.  (Messages are acknowledged before formatting, so catman itself
  cannot know this.)
* `ImplementsBatch`: the system implements `BatchWindow`; in particular, exit
  status zero of catman means that mandocd accepted every page.
* `CatmanEnds`, `MandocdFollows`: both processes end.
* `LoopLive`: pointers to lookaside lines refer to live buffers of invocations
  that will clear curp->loop before freeing them.
* `SpanDiscipline`: between lines, a scope that ends with a line is the
  innermost one, and ends with the next line.
* `UserretSafe`: each active macro has a context for roff_userret() to pop.
* `StackBounded`: each line read from a file accounts for at most ReparseLimit
  active macros and replacement texts, and files nest at most SoLimit + 1 deep.
  So recursion is bounded, but by the number of lines read.
* `RecursionLimited`: what mandoc(1) documents, a limit for each file being
  read.  It is violated (section 4).
* `ParseEnds`: the parser ends, if loop conditions do become false.
* `NoFault` of `MdocMacro`: no handler follows a null pointer, walks off the
  tree, fails an assertion on the types of nodes, or finds the flag for items
  without It left over from another line.
* `OnlyLastClosed`: nodes are closed from the inside, and nothing is added to a
  closed node, apart from the moved Ns of section 4.
* `BlocksWhole`: a block is closed with one head and one body, or in columns
  several bodies.  Exceptions, both real: a SYNOPSIS name that its own argument
  closes has no body, and the end of the document closes broken heads.
* `PendingHasCloser`: when a line is done, each block or head whose end was
  postponed contains an explicit block that is open and marked as broken, so
  the end macro of that block will close both.
* `NormalForm`: the parent and child types of mandoc(3), with the exceptions
  of section 4; sections are children of the root, items of the body of a
  list, whatever was open or postponed when they came.
* `NoFault`, `ScopeFlags`, `Nested` of `ManMacro`: assertions hold; MAN_BLINE and
  MAN_ELINE say which scopes are open, and nothing is open at the end; the
  tree nests as man(7) describes.  ROFF_NONOFILL ends with the head or table that
  it is for, and is set while a head is open unless TS or TE has changed it.
* `CellsPlaced`: each data cell, with the columns it spans, lies in columns
  that exist in its layout row and that no other cell of its row has.
* `RowsWhole`: each data row has a layout row with cells and is in the syntax
  tree when its line was read; a text block belongs to a cell.
* `NoFault` of `Format`: no assertion of the four formatters fails and no stack
  is popped when empty, and each HTML handler finds the element it started in.
  Three kinds of documents do fail (section 4); the run includes them, and the
  property names them as the only exceptions: what follows a block that began in
  a Ql and goes on after it (`QlGoesOn`), a SYNOPSIS name after a function
  (`NmAfterFunction`), and a list with an offset that ends inside an item
  (`ListEndsInItem`).  A walk stops where one of them fails.
* `MarksBalanced`: brackets and quotation marks are closed exactly once, also
  if the enclosure is closed inside another block.
* `ManNesting`: in man output, Bl_stack, the RS macros and the fill mode are
  those of the open lists, items and displays.  The fill mode may differ from
  the one of the document after a filled display in no-fill text (`Fills`) and
  after displays whose end post_bd() takes for something else (`Strays`), until
  something asks for a mode again.
* `MarkdownBlocks`: each open block that has a prefix has one on the stack, in
  their order, and the counters are right.  When a display was ended inside
  another block (`Crosses`), only the numbers are still right: the end marker has
  popped the prefix of the inner block.
* `TermModes`: flags, fonts and offsets of the terminal end with the node that
  set them, and offsets do not wrap around, except in items of lists whose offset
  and width are both negative.
* `HtmlLists`: in HTML of man(7) pages, lists are open while one of their items
  is printed or follows, and items are in lists.
* `Margins`: the offset is the sum of the open RS blocks, and the stack of
  widths returns to where it was, also beyond MAXMARGINS.
* `Fields`: modes of fields end with heads and hanged paragraphs.
* `LinesWhole`: margins do not move while text waits in the output buffer.
* `TempFiles`: temporary files do not survive man, except by the exits listed
  in section 2.
* `PagerHasFiles`: the pager gets complete files that exist while it runs.
* `TerminalGivenBack`: when man and the pager are gone, so is the pager's hold
  on the terminal, if man has lived to note the pager's process ID.
* `StopTogether`: man does not run for ever while the pager is stopped.
* `WholeDatabase`: what the name mandoc.db refers to, and what a reader has
  mapped, is a complete database.
* `BuildExact`: a full build describes exactly the files, names and keywords
  of the tree; an update describes what the old database and the tree imply.
  What it implies includes that a file which was removed and is then named with
  -u or -d keeps its page (section 4).
* `DatabaseSound`: pages do not share files, and keyword tables refer to
  exactly the pages that have the keyword.
* `SearchExact`: compiled expressions find exactly the pages for which the
  expression holds by its recursive definition.  Operators that are repeated or
  have no operand, parentheses that are not opened, not closed or empty, and bad
  regular expressions in front change nothing (`Tolerant`).  In the middle of a
  list joined by -o, bad regular expressions and empty parentheses lose what
  follows them; these are left out.
* `ManFinds`: man shows only files that exist, and shows something for every
  installed page that is not in a directory for one architecture, however old
  the database is.

### Bounds

* `MaxInflight = 3` (16 in the source) and `MaxEntries = 6`: the window fills,
  is drained by one, by several and completely, and fills again.
* `Menus` of `Mparse`: up to four lines of conditionals and loops, five of
  macros, or nine of a macro that includes a file and calls itself, counted
  over all files; this suffices for a loop in a loop, a loop
  that starts in one file and ends in another, a macro that contains a loop
  and calls itself, and a trap in a loop.
* `MaxTrue` bounds how often loop conditions are true: the code itself does
  not limit loops, so this is the assumption that the document's loops end.
* `ReparseLimit` is 2 (1000 in the source), `SoLimit` is 1 (64), so that
  the limits are reached.  `RecursionMenus` consists of a macro that includes a
  file and calls itself, called from a document.
* `Menus` of `MdocMacro`, `Format` and `ManFormat`: sets of macros that are
  examined together, and the depth of the tree.  Macros are together when
  their handlers touch the same state.  With depth 3 of `MdocMacro`, a section
  contains an enclosure that contains another block; with 5, an item is open
  in a list in a section while an enclosure in it breaks the list.  With depth
  8 to 11 of `Format`, two lists or displays are in each other with an
  enclosure or font between them.  In the menu with `refill`, fill mode also
  changes inside enclosures and functions, and goes back to filling in no-fill
  text; it is a menu of its own because of its size.
* `Marked` of `Format` are the blocks that end inside other ones: enclosures,
  functions, fonts, keeps, displays and lists.  Lists that end in the head of
  an item or in a column but the last are left out.  `Widths` are offset and width
  of lists and displays: none, an offset to the left with a width to the right,
  and both negative.
* `MaxTags` bounds the stack of HTML elements, and `MaxLists = 3` the counter
  list_blocks of markdown, which a display that ends inside an item leaves too
  large.  More than 32 lists in each other, which overrun Bl_stack, are beyond
  the depth of the run.  `MaxMargins = 3` stands for MAXMARGINS (64) with up to
  four nested RS blocks.
* `MaxDepth = 7` of `ManMacro`, two nodes for each block: three blocks in each
  other, such as a paragraph in an RS block in a section, with an open head, or
  two blocks and a font macro in the head of the inner one.  The theorems are about
  any depth.  `Tokens` has one macro of each kind that the handlers tell apart.
* `Kinds` of `Tbl`: three columns and two layout rows with two data rows, or
  one column with four data rows, so that layouts are reused, restarted,
  extended by data, and searched upwards over several rows.
* `MaxFiles = 2` of `Pager`: none, some or all pages fail to be opened.
* `Database`: five names, six documents, two runs of makewhatis and one change
  of the tree between or during them; three file objects suffice for the old
  and the new file and one that is still mapped.  Symmetry in the file objects
  is sound because nothing depends on their names.  The destination of an .so
  request is never a formatted page (`SoAssumption`, section 4).
* Deadlock is checked in the runs catman, mparse and mdoc, where terminated
  states stutter explicitly.  The others may stop: the end of a document or
  of a table bounded in size, a dead process, or no more runs of makewhatis.

### Fairness

Both processes of the catman system are scheduled (weak fairness of the steps
that a system call can always take when it does not block), and a pending
signal is delivered.  mandocd's being killed and the failure of recvmsg(2) are
not fair.  The parser is one thread that never blocks, so it takes steps until
it has finished.  man and the child that it forked take steps unless they are
stopped or wait; the pager, the shell and the user need not do anything.

## 4. Divergences between code and documentation

Those marked with a run are shown by it; all were reproduced with the mandoc
binary where that is possible.

1. *Assertions on return codes* (read.c:295 and 301, run mparse_assert, `AssertsHold`).  In a
   single-line loop with a user-defined string as its body, `.while c .x`, or
   with `.return` inside a macro, the loop bits are combined with ROFF_APPEND
   or ROFF_USERRET, and the assertion fails.
2. *The limit on nested macros* (read.c:177 and 364, run mparse_recursion,
   `RecursionLimited`).  With .so being followed, a macro that includes a file
   and calls itself is not stopped, because reading a line of any file resets
   reparse_count; mandoc ends with a segmentation fault when the stack is used
   up.  The run shows the limit exceeded with one included line.  An earlier
   form of `StackBounded` stated the documented limit and held in the run for
   want of such a document; the attempt to prove it showed the case.
3. *Two writers* (mandocdb.c:2247, run database_race).  All makewhatis
   processes write the same file mandoc.db~ before renaming it.

Further observations in the parsers, without runs of their own:

* `.if 0 .if 1 text` prints the text (roff.c:2747): the outer node is popped
  before the inner request is handled.
* roff(7) says the end macro of .de is evaluated after ending the definition;
  the code examines the word after it (roff.c:2321).
* After `.Sh Ao` and `.Op a Ac Ns`, what follows becomes children of the moved
  Ns (mdoc_macro.c:1315), although mandoc(3) allows only text there.  The
  argument of an Ec that breaks a block is a child of the end marker
  (mdoc_macro.c:656), which mandoc(3) says has none.
* mandoc(3) allows punctuation after the HEAD of a block only, but leading
  punctuation of a full block precedes it; a trailing Ns in an enclosure that
  Ta closes moves into the next column; several braces on one line that close a
  conditional and a loop around it lose the end of the loop; continuation
  lines in a loop body are seen twice when replayed; a string called as a
  macro leaves a macro context behind.
* mparse_reset() loses the operating system given with -W and the macro set for
  the second file (read.c:694).
* man(7): `.TP`, `.B foo\c`, `bar` does not do what the comment at man.c:238
  says; `.SH`, `.PD`, `.nf` does not close the header; `.TP`, `text\c`, `.PP`
  deletes the text; the register an-margin is not reduced when RS is closed by
  a section or by `RE` with an argument.  TS sets ROFF_NONOFILL and TE clears it, also
  without a table, whether or not the head of a block needs it (roff.c:3479 and
  3338): after `.nf`, `.TP`, `.TE`, the text of the head is in no-fill mode.
  "TS breaks TS" cannot be reported, because roff_req_or_macro() ignores a
  TS in a table (roff.c:1945).
* tbl(7): a text block without text has no string, and a cell that continues
  it, `T{`, `T}`, `\^` in one column, crashes (tbl_data.c:126).  A cell below
  a horizontal span extends the cell to the right of the span, so that HTML
  has a rowspan that overlaps other cells (tbl_data.c:120).  A vertical line at
  the beginning of a later row brings back the vertical space before a table
  that starts with a horizontal line, although the comment at tbl_layout.c:237
  excludes that.  After T&, layout rows that were not used yet come first.

In the formatters:

* HTML: `.Sh SYNOPSIS`, `.Fn foo void`, `.Nm` fails the assertion at html.c:650,
  because synopsis_pre() opens a paragraph just before the table of the Nm
  block; `.Ql foo Oo bar`, `.Pp`, `text`, `.Oc` and a man(7) UR with blocks in
  no-fill mode follow a null pointer; a filled display in a literal one, and
  tables, Fn and Rs in no-fill mode, put blocks into <pre>; `.Oo foo`, `.Pp`,
  `bar`, `.Oc`, `baz` and man(7) `.sp`, `.nf`, `.fi` after text put text directly
  into a section; html_fillmode() counts elements that are closed but still
  referenced; with -O toc and less than two sections of its own, a page has no
  section elements after SYNOPSIS.  `.EE foo` prints its argument in HTML only.
* Terminal: a negative width and offset of a list wrap around; .po keeps its
  last value from one page to the next; the end marker of an Oo pops the font
  of an inner Bf; the comment in termp_it_post() that nobody else changes its
  flags is untrue.  man(7): `.PD 0`, `text`, `.SS sub`, and TQ after text, print
  the header on the same line, because vertical space is what ends it; beyond
  64 nested RS blocks all share one slot, so that a negative width in an inner
  one is still there when post_RS() has moved the offset back (man_term.c:818),
  and the next `.IP` without a width makes the offset plus the width negative,
  which wraps around; UR with paragraphs loses the
  indentation; in no-fill mode, `.HP 4`, `.EX` starts text at the right margin.
* man output: an Oo that contains the El of its list, if that has an offset,
  fails the assertion at mdoc_man.c:1131; more than 32 nested lists overrun
  Bl_stack; a literal display that ends inside an Oo is not followed by `.fi`,
  because its end marker has the mode of the display; a filled display in
  no-fill text is not preceded by `.fi`; and a display whose last child changes
  the mode is followed by the wrong request or none, because post_bd()
  looks at the mode at the beginning of that child (mdoc_man.c:996).
* markdown: a display that ends inside another block pops the prefix of that
  block; if that is an item of an enumeration, list_blocks stays too large
  (mdoc_markdown.c:1264 and 1304), so that later displays are printed as if
  they were in a list.

In the other programs:

* man: `-O outfilename=/tmp/man.foo` deletes the user's file; temporary files
  are left behind by man without a name (main.c:565), by apropos -a with a bad or
  missing expression (main.c:657), and when pledge(2), the last
  unveil(2) or fork(2) fails (main.c:502, 508, 1486 and 1500); if man is killed
  between fork(2) and
  tcsetpgrp(3), its child polls for ever; ^Z and bg between tcgetpgrp(3) and
  tcsetpgrp(3) let man give away the terminal from the background (comments at
  main.c:1396 and 1410).
* makewhatis: `-d dir man1/a.1` with an .so file removes another page
  (makewhatis.8:101); naming a file twice fails the assertion at
  mandocdb.c:1016; circles of .so files lose all their pages; two processes
  share a temporary file; a database that cannot be removed leaves exit status
  zero.  A file that was removed cannot be removed from the database: `-u` and
  `-d` give up on it when lstat(2) fails (mandocdb.c:812), and its page stays,
  although makewhatis.8:128 says that the named files are removed.
  mlinks_undupe() frees the link to a formatted page of which there is a
  source (mandocdb.c:1106) but leaves it in the table `mlinks`, where the lookup
  of a .so destination (mandocdb.c:1214) or of another source (mandocdb.c:1098)
  may find it.  makewhatis.8:172 says that the databases are corrupt after an
  operating system error, which has not been so since they are written to
  a temporary file.  apropos: a regular expression that cannot be compiled
  loses the term after it, unless it comes first; only the first file of a page
  is checked for existence.
* catman: a signal received after the main loop does not make it fail unless
  it interrupts recv(2), although catman.8 says the message always appears.

## 5. Proofs

`CatmanProofs` proves, for every window size and every number of entries:

* `TypeCorrect`, `ConservationHolds`, `WindowHolds`, `AssertionHolds`,
  `ServerExitZeroHolds`: the type invariant and the invariants of the run;
* `Refinement`: `Spec => Batch!Spec`.

Assumptions: `MaxInflight` is a positive natural number and `MaxEntries` a
natural number.

The invariants are not inductive.  `IInv` adds `Descriptors` (which process
can hold which end at which point of its program), and what the local
variables of both processes are at each program counter (`CatmanLocal`,
`MandocdLocal`).  They are needed because, for example, `AssertDecr` follows
only from counting what is on its way back, and that count is only right while
the descriptors say that nothing was discarded.  One lemma per group of
actions shows that a step preserves `IInv`; `StepRefines` shows that a step
under `IInv` is a step of the abstract specification or leaves it unchanged.

`PagerProofs` proves `TempFilesRemoved`, `PagerFindsFiles` and
`TerminalReturns` for every number of pages, with the exits without
term_tag_unlink() as the only exception to the first (section 2).  Its `IInv` says, for each
program counter, which files exist and which of their names are recorded, who
owns the terminal, and in which state the pager can be; without it, a signal
between creating a file and recording its name could not be excluded.  One
lemma covers the steps of man, another one those of the pager, shell and user.

`DbfileProofs` proves `DatabaseStaysWhole` for every set of databases, file
objects and updates, from the assumption `OneWriter`, without which
`database_race` shows it to be false.  `DbInv` adds that the object being
written is apart from the ones that are named mandoc.db or mapped, and how far
each writer is; the lemmas go through opening, closing, the other calls, and
readers.

`BasicLemmas` holds what the proofs about the parsers have in common: the
searches in the code find the first entry of a row or stack with some
property, which the modules write with CHOOSE; `Least` and `Greatest` say that
there is one.  They follow from the well-foundedness of < on the natural
numbers, and so does `NatSet`, induction stated about a set of numbers.  It
takes the place of the induction theorems of the library, which take an
operator, for instance where several braces on a line close several scopes.

`TblProofs` proves `CellsPlacedHolds` and `RowsWholeHolds` for tables with any
number of rows, columns and lines, for every set `Kinds`.  Neither property is
inductive.  `TblInv` consists of

* `Layout`: a layout row without cells is the last one, and exists only while
  the layout is being read, so that data are never read with it;
* `Cells`: each data cell is on a layout cell that is not a spanner, all columns
  that it spans are spanners, and each cell is to the right of the columns of
  the one before it.  That cells of one row do not overlap follows only
  from their order, and only spanners can be skipped;
* `InRow`, `Reading`: the layout row being extended, the data row being read and
  the cell that a text block belongs to exist, and when a line is done, all
  rows are in the syntax tree.

The lemmas go through the actions; those about `getdata` and `Extended` need the
facts about searches.

The first part of `MparseProofs` is about one call of roff_parseln(), for every stack of scopes,
every line that is `WellFormed`, and every outcome of conditions.  Each handler
has a lemma saying that what it returns is `Sound`; `roff_parselnSound` puts
them together.  The interesting part is endspan, the number of lines that a
scope still lasts: it is positive for the innermost scope only.  It is 2 after
a conditional that applies to the next line, until the end of its own line,
where roffnode_cleanscope() brings it to 1 (`Waiting`).  That
nothing else comes in between is what `WellFormed` says: roff_cond() chooses
this scope only if nothing follows on the line (roff.c:2757).

The second part proves `LoopLiveHolds`, `UserretSafeHolds`, `StackBoundedHolds` and
`SpanDisciplineHolds`, for documents of any length made of any such lines,
every `ReparseLimit`, `SoLimit`, `MaxTrue` and set of macros, with and without
MPARSE_SO.  `MparseInv` has a part for each:

* `LoopOK`: a loop that is open was seen by the invocation that owns it and by
  no later one.  Without this, an invocation that ends could leave curp->loop
  pointing into the buffer it frees.
* the number of frames that execute a macro, `Count`, is at most the number of
  macro contexts.  Strings called as macros leave contexts behind (section 4),
  so that equality does not hold.
* `Budget`: an expansion increases reparse_count, and only a line of a file
  resets it, so what is active now, together with what reparse_count still
  permits, is at most ReparseLimit for each line read.
* `SpanOK`: a scope that lasts two lines exists only while its own line is being
  parsed, by the innermost invocation.

One lemma per action; `Parse` uses nothing of roff.c but `roff_parselnSound`.
`ManProofs` proves `NoFaultHolds`, `ScopeFlagsHolds` and `NestedHolds` for man(7)
documents of any length, blocks nested to any depth, any argument of ce, and
every set `Tokens`.  None of the three is inductive: whether a handler finds the
node that it closes or deletes depends on what can be open around it.  `ManInv`
says which chains of open nodes occur, with which flags:

* `NodeOK`: a block is in the root or in a body and has its head or body in it;
  only blocks with next-line scope keep their head open, with nothing but font
  macros in it; font macros are innermost, and so is the element of ce.
* `AtOK`: while a font macro or a head is waiting, nothing is at the parse point
  that man_breakscope() asserts not to be there.  Deleting a font macro moves
  the parse point back, so the same is said of what was before each of them.
* `FlagsOK`: MAN_BLINE, MAN_ELINE and roffce_lines say what is open; `NoFillOK` says
  which heads and tables ROFF_NONOFILL is for, with `loose` for what TS and TE
  have changed while a head is open.
* `NestOK`: blocks nest as man(7) describes.

Each helper has a lemma on what it does to the chain: closing a block leaves
nothing waiting (`CutBlock`), deleting font macros leaves the head (`CutFonts`),
and after rew_scope() the new block fits (`RewFits`).  `BrokenClean` is the fact
the handlers of blocks rest on: when they are called, nothing is waiting.
`Ranked` shows that blk_close() finds the block it has counted, for any number of
open blocks.

`ManFormatProofs` proves `FieldsEnd`, `LinesEnd` and `MarginsHold` for the terminal
formatter of man(7), for trees of any depth, any menu of macros, any widths and any number of
nested RS blocks; `MenuAssumption` only says that what a path can add up to is
below SHRT_MAX.  The properties are not inductive, because a handler is right or
wrong depending on what surrounds its node, so `WalkInvariant` has three parts:

* `TermInv`: the path is one that the parser can build (`PathOK`: which node can be
  below which, nothing but elements in heads, nothing but links in paragraphs
  that hang), and mt->lmarginsz is the number of RS bodies on it.  The latter
  needs that post_RS() runs for each pre_RS() that was not refused.
* `FieldsInv`: modes of a field are only set while a node that owns them is on the
  path, and then only those of its macro (`FieldOf`).  For `.TP`, `.SH` and `.SS` that
  includes the block between head and body, where the post handler of the head
  has left them to the pre handler of the body.
* `LinesInv`: besides `LinesWhole`, the output line is empty at each node where the
  next handler moves the margins without ending the line first (`Whole`).  That
  rests on what pre_SY(), pre_SS() and `.TQ` find out about the previous sibling, so
  it needs `PrevInv`: a node remembers a tagged item or `.SY` only after one.

`MarginsHold` rests on `WalkInvariant` and on `MarginsInv`, which has three parts more:

* `SumInv`: there are sums over the path, the indentation t[i] in its i-th node and
  the number h[i] of RS bodies up to there, and mt->offset, mt->lmarginsz and
  mt->lmargincur are what they are in the last node.  No t[i] is negative, since
  pre_RS() clips, and none exceeds what h[i] blocks of .RS can add; while no entry of
  the stack is shared, entry h[i] is one that t[i] can stand.  The latter is about
  all nodes on the path and not only the last one, because post_RS() brings back
  the entry of an outer block.  `IndentationIs` shows that t is `Indentation`.
* `Near`: both margins are below 1000, so that none has wrapped around.
* `PlaceInv`: where text starts in the innermost body other than that of .UR (`Host`),
  also while elements and links in it are being formatted.  That of .HP moves when
  its first line ends: `HangInv` says when that has not happened yet.  Heads and
  the ends of blocks need that the margin is back at the indentation (`Ready`).

The last two need `Steady`, as `Margins` does, and `PlaceInv` that no .in moves the
margins by itself.

The first half of the module says what each handler does to modes, margins,
the stack of widths and the output line; `Walks` then is the next-state relation
in these words, and the invariants are proved from it.

TLC checked `TblInv`, `MparseInv`, `ManInv` and `WalkInvariant` on the instances of
the runs before they were proved; of `MarginsInv`, it checked `Margins` only, since
`SumInv` says that functions on all natural numbers exist.

Model-checked only:

* the liveness properties `CatmanEnds`, `MandocdFollows`, `ParseEnds` and
  `StopTogether`, since fairness and ENABLED are beyond the prover;
* `BuildExact`, `DatabaseSound`, `SearchExact` and `ManFinds`, because what
  `Makewhatis` and `Mansearch` compute is written with RECURSIVE operators, in
  whose presence the prover has no SMT backend, and comparing them with the
  reference definitions is induction over data;
* `MdocMacro`, whose rewinding operators are RECURSIVE as well;
* `Format`, and `HtmlLists` of `ManFormat`: their invariants relate the state of a
  formatter to the whole path of open nodes, and would need an inductive
  invariant with a case for each of the macros in each of the formatters.

## 6. Plan

1. *Formatters*: the parts of `Format` that concern one stack, such as the reference
   counts of `HtmlOut`, and `TermModes` in the way of `MarginsHold`.
2. *Several files, one parser* (`MainLoop`): mparse_reset(), the options that
   must survive it, output state between files, error levels.
3. *Tags* (`Tag`): priorities of tag entries, and the names that the formatters
   and the tag file use for them.
4. *Equations* (`Eqn`): nesting of boxes and the limit on expansion.

## 7. Not modelled, and why

* Byte level code: preconv.c, chars.c, roff_escape.c, formatting of PostScript,
  the wording of messages.  Their correctness is that of tables and
  conversions of single strings.
* Layout: the width of words, tab stops, column widths of tables, the placing
  of equations.
* cgi.c, soelim.c, demandoc.c, tree.c: no state that outlives one input.
* Validation that only warns, and the tables of standard names.
* compat_*.c: code of other projects.
* The components of the plan above, until they are modelled.
