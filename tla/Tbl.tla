-------------------------------- MODULE Tbl --------------------------------
(***************************************************************************)
(* The tbl(7) parser: tbl.c, tbl_layout.c and tbl_data.c, and the requests *)
(* and lines of roff.c that reach it.  A table consists of layout rows and *)
(* of data rows (spans).  Each data row is read with one layout row, the   *)
(* last one being used again and again; T& appends more layout rows.       *)
(* Reading data may add cells to a layout row, and cells that continue a   *)
(* cell above them change rows that were read before.                      *)
(*                                                                         *)
(* A line is read cell by cell, and what the next cell is, and whether     *)
(* there is one, is chosen when it is read: the model covers all lines.    *)
(* A layout row is the sequence of its keys: "l" stands for all keys with  *)
(* text.  A data row has the layout row it belongs to, and its cells dat:  *)
(*   col      the number of the layout cell dat->layout in its row         *)
(*   string   "NULL", "up" for \^, or "text"                               *)
(*   hspans, vspans                                                        *)
(* Options, modifiers, fonts, rules around cells and warnings are left     *)
(* out.  The formatters take rows from the syntax tree: shown of them are  *)
(* there.                                                                  *)
(***************************************************************************)
EXTENDS Naturals, Sequences

CONSTANT Kinds         \* the kinds of tables: the keys and strings in them, and
                       \* bounds on their columns, layout rows and data rows

ASSUME TblAssumption ==
    \A k \in Kinds : /\ k.keys \subseteq {"l", "s", "^", "_"}
                     /\ k.strings \subseteq {"text", "up", "T{"}
                     /\ k.cols \in Nat /\ k.rows \in Nat /\ k.spans \in Nat

VARIABLES kind,        \* what occurs in this document
          part,        \* tbl->part, "none" outside of tables
          rows, cols,  \* the layout, and tbl->opts.cols
          spans,       \* the data rows
          shown,       \* how many of them the syntax tree has: current_span
          line,        \* "start", or inside a line of "layout" or of "data"
          rp,          \* inside a line of layout, rp # NULL
          fault        \* "", "pointer" or "string" after a null pointer was used

vars == <<kind, part, rows, cols, spans, shown, line, rp, fault>>

Init ==
    /\ kind \in Kinds
    /\ part = "none" /\ rows = <<>> /\ cols = 0 /\ spans = <<>> /\ shown = 0
    /\ line = "start" /\ rp = FALSE /\ fault = ""

Last(s) == s[Len(s)]

-----------------------------------------------------------------------------
(* Requests of roff.c                                                      *)

AtRequest == line = "start" /\ fault = "" /\ UNCHANGED <<kind, line, rp, fault>>

\* roff_TS(), tbl_alloc(); inside a table, roff_req_or_macro() ignores it.
TS ==
    /\ AtRequest /\ part = "none" /\ part' = "OPTS"
    /\ rows' = <<>> /\ cols' = 0 /\ spans' = <<>> /\ shown' = 0

\* roff_TE(), or roff_endparse() at the end of the document; roff_endtbl() and
\* tbl_end() only warn about a text block or a table that is not complete.
TE ==
    /\ AtRequest /\ part # "none" /\ part' = "none"
    /\ rows' = <<>> /\ cols' = 0 /\ spans' = <<>> /\ shown' = 0

\* roff_T_(), tbl_restart(): also in the middle of a text block.
T_ ==
    /\ AtRequest /\ part # "none" /\ part' = "LAYOUT"
    /\ UNCHANGED <<rows, cols, spans, shown>>

\* roff_addtbl() after each line: the rows tbl_span() has not yet returned.
roff_addtbl(sp) == Len(sp)

EndLine(sp) == line' = "start" /\ rp' = FALSE /\ shown' = roff_addtbl(sp)

-----------------------------------------------------------------------------
(* tbl_layout.c                                                            *)

\* tbl_read(): after a line with options, or instead of it, comes the layout.
ReadLayout ==
    /\ line = "start" /\ fault = "" /\ part \in {"OPTS", "LAYOUT"}
    /\ part' = "LAYOUT" /\ line' = "layout" /\ rp' = FALSE
    /\ UNCHANGED <<kind, rows, cols, spans, shown, fault>>

\* The row of the next cell: a new one, unless the last one has no cells.
NewRow ==
    IF rp \/ (rows # <<>> /\ Last(rows) = <<>>) THEN rows ELSE Append(rows, <<>>)

\* cell(): a spanner next to a horizontal line continues that line.
Key(row, key) ==
    IF key = "s" /\ row # <<>> /\ Last(row) = "_" THEN "_" ELSE key

\* A cell specification: tbl_layout(), cell() and cell_alloc().
Cell(key) ==
    /\ line = "layout"
    /\ LET r == NewRow
           n == Len(r)
           k == Len(r[n]) + 1
       IN /\ n <= kind.rows /\ k <= kind.cols
          /\ rows' = [r EXCEPT ![n] = Append(@, Key(@, key))]
          /\ cols' = IF cols < k THEN k ELSE cols
    /\ rp' = TRUE
    /\ UNCHANGED <<kind, part, spans, shown, line, fault>>

\* cell() returns without a cell after vertical lines at the end of the row.
NoCell ==
    /\ line = "layout" /\ rows' = NewRow /\ Len(rows') <= kind.rows /\ rp' = TRUE
    /\ UNCHANGED <<kind, part, cols, spans, shown, line, fault>>

\* A comma: the next row.
Comma ==
    /\ line = "layout" /\ rp /\ Last(rows) # <<>> /\ rp' = FALSE
    /\ UNCHANGED <<kind, part, rows, cols, spans, shown, line, fault>>

LayoutEndsLine ==
    /\ line = "layout" /\ EndLine(spans)
    /\ UNCHANGED <<kind, part, rows, cols, spans, fault>>

\* The full stop that ends the layout: without cells, one column is assumed;
\* else the last row is dropped if it is empty.
Dot_keep(r) == IF r = <<>> \/ r[1] = <<>> THEN <<<<"l">>>> ELSE r
Dot(r) ==
    CASE r = <<>> \/ r[1] = <<>> -> <<<<"l">>>>
      [] OTHER -> IF Last(r) = <<>> THEN SubSeq(r, 1, Len(r) - 1) ELSE r

LayoutEnds ==
    /\ line = "layout" /\ part' = "DATA" /\ rows' = Dot(rows)
    /\ cols' = IF cols = 0 THEN 1 ELSE cols
    /\ EndLine(spans)
    /\ UNCHANGED <<kind, spans, fault>>

-----------------------------------------------------------------------------
(* tbl_data.c                                                              *)

newspan(r) == [layout |-> r, data |-> TRUE, dat |-> <<>>]

\* The layout row for the next line: the one after that of the last data row.
NextLayout ==
    LET D == {i \in 1..Len(spans) : spans[i].data}
    IN IF D = {} THEN 1
       ELSE LET l == spans[CHOOSE i \in D : \A j \in D : j <= i].layout
            IN IF l < Len(rows) THEN l + 1 ELSE l

AtData == line = "start" /\ fault = "" /\ part = "DATA"

\* tbl_data(): a line that is a horizontal rule.
Rule ==
    /\ AtData /\ Len(spans) < kind.spans
    /\ IF rows = <<>> THEN fault' = "pointer" /\ UNCHANGED <<spans, shown>>
       ELSE /\ spans' = Append(spans, [newspan(NextLayout) EXCEPT !.data = FALSE])
            /\ shown' = roff_addtbl(spans') /\ UNCHANGED fault
    /\ UNCHANGED <<kind, part, rows, cols, line, rp>>

\* Layout rows that consist of horizontal lines get an empty data row, and the
\* line is read with the next one, which is row.
OnlyRules(r) ==
    Len(rows[r]) >= cols /\ \A k \in 1..Len(rows[r]) : rows[r][k] = "_"
Accepting(row) ==
    /\ row \in NextLayout..Len(rows)
    /\ \A r \in NextLayout..(row - 1) : OnlyRules(r)
    /\ row = Len(rows) \/ ~OnlyRules(row)

ReadData(row) ==
    /\ AtData /\ Len(spans) + (row + 1 - NextLayout) <= kind.spans
    /\ Accepting(row)
    /\ spans' = spans \o [i \in 1..(row + 1 - NextLayout) |-> newspan(NextLayout + i - 1)]
    /\ line' = "data"
    /\ UNCHANGED <<kind, part, rows, cols, shown, rp, fault>>

\* tbl_cdata(): another line of a text block, "T}" at the end of a line, and
\* "T}" followed by more cells.
CdataText(string) ==
    /\ line = "start" /\ fault = "" /\ part = "CDATA"
    /\ LET n == Len(spans)
           d == spans[n].dat
       IN IF d = <<>> THEN fault' = "pointer" /\ UNCHANGED spans
          ELSE /\ spans' = [spans EXCEPT ![n].dat[Len(d)].string =
                              IF @ = "NULL" THEN string ELSE "text"]
               /\ UNCHANGED fault
    /\ UNCHANGED <<kind, part, rows, cols, shown, line, rp>>
CdataEnds(more) ==
    /\ line = "start" /\ fault = "" /\ part = "CDATA" /\ part' = "DATA"
    /\ line' = IF more THEN "data" ELSE "start"
    /\ UNCHANGED <<kind, rows, cols, spans, shown, rp, fault>>

\* getdata(): the first layout cell from k on that is not a spanner, or the
\* first position behind the row.
SkipSpanners(row, k) ==
    CHOOSE j \in k..(Len(row) + 1) :
      /\ \A i \in k..(j - 1) : row[i] = "s"
      /\ j = Len(row) + 1 \/ row[j] # "s"

\* Spanners to the right of layout cell k.
Hspans(row, k) == SkipSpanners(row, k + 1) - (k + 1)

\* The cell of data row i that is above column k: 0 if the row is too short.
Above(i, k) ==
    LET d == spans[i].dat
        C == {j \in 1..Len(d) : d[j].col >= k}
    IN IF C = {} THEN 0 ELSE CHOOSE j \in C : \A m \in C : j <= m

\* It does not continue a cell of the rows above it in turn.
Stops(i, k) ==
    \/ Above(i, k) = 0
    \/ LET d == spans[i].dat[Above(i, k)]
       IN rows[spans[i].layout][d.col] # "^" /\ d.string # "up"

\* The row where the search for the cell to extend ends, 0 if it finds none.
Extended(k) ==
    LET S == {i \in 1..(Len(spans) - 1) : Stops(i, k)}
    IN IF S = {} THEN 0 ELSE CHOOSE i \in S : \A m \in S : m <= i

\* The data rows above, after the cell in column k continued one of theirs.
Vspans(k) ==
    LET i == Extended(k)
    IN IF i = 0 \/ Above(i, k) = 0 THEN spans
       ELSE [spans EXCEPT ![i].dat[Above(i, k)].vspans = @ + 1]

\* A column for the next cell: in the row, or a new one at its end if another
\* row has that many columns; 0 to discard the rest of the line.
Column_wide(row, k) == IF k <= Len(row) \/ Len(row) <= cols THEN k ELSE 0
Column(row, k) == IF k <= Len(row) \/ Len(row) < cols THEN k ELSE 0

\* One cell of the line; T{ leaves the string NULL and starts a text block.
\* When a tab follows T{, it is taken for another cell, which is empty; any
\* cell may follow T}, also when the text block has no text.
getdata(string) ==
    LET n == Len(spans)
        sp == spans[n]
        row == rows[sp.layout]
        k == Column(row, SkipSpanners(row, IF sp.dat = <<>> THEN 1
                                           ELSE Last(sp.dat).col + 1))
        ext == IF k > Len(row) THEN Append(row, "l") ELSE row
        up == k # 0 /\ (string = "up" \/ ext[k] = "^")
        from == IF up THEN Extended(k) ELSE 0
        null == from # 0 /\ Above(from, k) # 0
                /\ spans[from].dat[Above(from, k)].string = "NULL"
        new == [col |-> k, string |-> IF string = "T{" THEN "NULL" ELSE string,
                hspans |-> Hspans(ext, k), vspans |-> 0]
    IN /\ line = "data"
       /\ part = "CDATA" /\ Last(sp.dat).string = "NULL" => string = "text"
       /\ UNCHANGED <<kind, cols, rp>>
       /\ CASE row = <<>> \/ null ->
                 /\ fault' = IF null THEN "string" ELSE "pointer"
                 /\ line' = "start" /\ UNCHANGED <<part, rows, spans, shown>>
            [] row # <<>> /\ k = 0 ->
                 /\ line' = "start" /\ shown' = roff_addtbl(spans)
                 /\ UNCHANGED <<part, rows, spans, fault>>
            [] OTHER ->
                 /\ rows' = [rows EXCEPT ![sp.layout] = ext]
                 /\ spans' = [(IF up THEN Vspans(k) ELSE spans)
                              EXCEPT ![n].dat = Append(@, new)]
                 /\ part' = IF string = "T{" THEN "CDATA" ELSE part
                 /\ UNCHANGED <<shown, line, fault>>

DataEndsLine ==
    /\ line = "data" /\ EndLine(spans)
    /\ UNCHANGED <<kind, part, rows, cols, spans, fault>>

Next ==
    \/ TS \/ TE \/ T_
    \/ ReadLayout \/ NoCell \/ Comma \/ LayoutEndsLine \/ LayoutEnds
    \/ \E key \in kind.keys : Cell(key)
    \/ Rule
    \/ \E row \in 1..kind.rows : ReadData(row)
    \/ \E string \in kind.strings : getdata(string)
    \/ \E string \in kind.strings \ {"T{"} : CdataText(string)
    \/ \E more \in BOOLEAN : CdataEnds(more)
    \/ DataEndsLine

Spec == Init /\ [][Next]_vars

-----------------------------------------------------------------------------
\* The formatters find a column for each data cell, and for the columns it
\* spans: cells of a row lie side by side, and all in the columns that
\* tblcalc() allocates.  Layout rows are only extended, so this remains so.
CellsPlaced ==
    /\ \A r \in 1..Len(rows) : Len(rows[r]) <= cols
    /\ \A i \in 1..Len(spans) :
         LET d == spans[i].dat
         IN \A j \in 1..Len(d) :
              /\ d[j].col + d[j].hspans <= Len(rows[spans[i].layout])
              /\ j > 1 => d[j].col > d[j - 1].col + d[j - 1].hspans
              /\ rows[spans[i].layout][d[j].col] # "s"

\* Between lines, the syntax tree has all data rows that were read, each of
\* which has its layout row, and the layout and the text block that the next
\* line belongs to exist.  No null pointer is followed on the way, except for
\* the string of an empty text block (see README.md).
RowsWhole ==
    /\ fault # "pointer"
    /\ line = "start" /\ fault = "" => shown = Len(spans)
    /\ \A i \in 1..Len(spans) : spans[i].layout \in 1..Len(rows)
    /\ part = "CDATA" => spans # <<>> /\ Last(spans).data /\ Last(spans).dat # <<>>
    /\ part \in {"DATA", "CDATA"} => rows # <<>>
=============================================================================
