----------------------------- MODULE TblProofs -----------------------------
(***************************************************************************)
(* Proofs about Tbl, for tables of any size.  The properties that the      *)
(* formatters rely on say nothing about layout rows without cells, nor     *)
(* about the row that is being read; TblInv adds that a layout row without *)
(* cells is the last one and only exists while the layout is read, that    *)
(* each cell is followed by the spanners it spans and by no other, and     *)
(* that the row and the text block that the next cell belongs to exist.    *)
(***************************************************************************)
EXTENDS Tbl, BasicLemmas

Key4 == {"l", "s", "^", "_"}
CellRec == [col : Nat, string : {"NULL", "up", "text"}, hspans : Nat, vspans : Nat]
SpanRec == [layout : Nat, data : BOOLEAN, dat : Seq(CellRec)]

TypeOK ==
  /\ kind \in Kinds
  /\ part \in {"none", "OPTS", "LAYOUT", "DATA", "CDATA"}
  /\ rows \in Seq(Seq(Key4)) /\ cols \in Nat
  /\ spans \in Seq(SpanRec) /\ shown \in Nat
  /\ line \in {"start", "layout", "data"}
  /\ fault \in {"", "pointer", "string"}

\* A layout row without cells is the last one, while the layout is read.
Layout ==
  /\ \A r \in 1..Len(rows) :
       /\ Len(rows[r]) <= cols
       /\ rows[r] = <<>> => r = Len(rows) /\ part = "LAYOUT"
  /\ line = "layout" => part = "LAYOUT"
  /\ part \in {"DATA", "CDATA"} => rows # <<>>

\* A row is being extended.
InRow == rp \in BOOLEAN /\ (rp => line = "layout" /\ rows # <<>>)

\* A cell is on a layout cell of its own, with all that it spans.
CellOK(row, c) ==
  /\ c.col \in 1..Len(row) /\ c.col + c.hspans <= Len(row)
  /\ row[c.col] # "s"
  /\ \A i \in (c.col + 1)..(c.col + c.hspans) : row[i] = "s"

DatOK(row, d) ==
  \A j \in 1..Len(d) :
    /\ CellOK(row, d[j])
    /\ j > 1 => d[j].col > d[j - 1].col + d[j - 1].hspans

SpanOK(rs, sp) ==
  sp.layout \in 1..Len(rs) /\ rs[sp.layout] # <<>> /\ DatOK(rs[sp.layout], sp.dat)

Cells == \A i \in 1..Len(spans) : SpanOK(rows, spans[i])

Reading ==
  /\ line = "data" => part \in {"DATA", "CDATA"} /\ spans # <<>> /\ Last(spans).data
  /\ part = "CDATA" => spans # <<>> /\ Last(spans).data /\ Last(spans).dat # <<>>
  /\ fault # "pointer"
  /\ line = "start" /\ fault = "" => shown = Len(spans)

TblInv == TypeOK /\ InRow /\ Layout /\ Cells /\ Reading

-----------------------------------------------------------------------------

\* The inductive invariant implies what the formatters rely on: every data cell of the
\* parser has its columns, and every data row its layout row.
LEMMA InvImplies == TblInv => CellsPlaced /\ RowsWhole
<1> SUFFICES ASSUME TblInv PROVE CellsPlaced /\ RowsWhole
  OBVIOUS
<1>1. CellsPlaced
  BY DEF TblInv, Layout, Cells, SpanOK, DatOK, CellOK, CellsPlaced
<1>2. RowsWhole
  BY DEF TblInv, Layout, Cells, SpanOK, Reading, RowsWhole
<1> QED BY <1>1, <1>2

\* Cells stay where they are when getdata() adds a cell to the end of their layout row.
LEMMA DatGrows ==
  ASSUME NEW row \in Seq(Key4), NEW row2 \in Seq(Key4), NEW d \in Seq(CellRec),
         Len(row) <= Len(row2), \A i \in 1..Len(row) : row2[i] = row[i],
         DatOK(row, d)
  PROVE  DatOK(row2, d)
<1> SUFFICES ASSUME NEW j \in 1..Len(d) PROVE CellOK(row2, d[j])
  BY DEF DatOK
<1>1. d[j] \in CellRec /\ CellOK(row, d[j])
  BY DEF DatOK
<1>2. d[j].col \in Nat /\ d[j].hspans \in Nat
  BY <1>1 DEF CellRec
<1>3. /\ d[j].col \in 1..Len(row) /\ d[j].col + d[j].hspans <= Len(row)
      /\ row[d[j].col] # "s"
      /\ \A i \in (d[j].col + 1)..(d[j].col + d[j].hspans) : row[i] = "s"
  BY <1>1 DEF CellOK
<1>4. Len(row) \in Nat /\ Len(row2) \in Nat
  OBVIOUS
<1>5. d[j].col \in 1..Len(row2) /\ d[j].col + d[j].hspans <= Len(row2) /\ row2[d[j].col] # "s"
  BY <1>2, <1>3, <1>4
<1>6. ASSUME NEW i \in (d[j].col + 1)..(d[j].col + d[j].hspans) PROVE row2[i] = "s"
  <2>1. i \in 1..Len(row)
    BY <1>2, <1>3, <1>4
  <2> QED BY <1>3, <2>1
<1> QED BY <1>5, <1>6 DEF CellOK

\* What reading the layout may do to rows that have cells.
Grown(rs, rs2) ==
  \A r \in 1..Len(rs) : rs[r] # <<>> =>
    /\ r \in 1..Len(rs2)
    /\ Len(rs[r]) <= Len(rs2[r]) /\ \A i \in 1..Len(rs[r]) : rs2[r][i] = rs[r][i]

\* A data row stays in its layout row when layout rows are added or extended.
LEMMA SpanGrows ==
  ASSUME NEW rs \in Seq(Seq(Key4)), NEW rs2 \in Seq(Seq(Key4)), Grown(rs, rs2),
         NEW sp \in SpanRec, SpanOK(rs, sp)
  PROVE  SpanOK(rs2, sp)
<1> DEFINE r == sp.layout
<1>1. r \in 1..Len(rs) /\ rs[r] # <<>> /\ DatOK(rs[r], sp.dat) /\ sp.dat \in Seq(CellRec)
  BY DEF SpanOK, SpanRec
<1>2. r \in 1..Len(rs2) /\ rs2[r] \in Seq(Key4) /\ rs[r] \in Seq(Key4) /\ Len(rs[r]) <= Len(rs2[r])
      /\ \A i \in 1..Len(rs[r]) : rs2[r][i] = rs[r][i]
  BY <1>1 DEF Grown
<1>3. DatOK(rs2[r], sp.dat)
  BY <1>1, <1>2, DatGrows
<1>4. rs2[r] # <<>>
  <2>1. Len(rs[r]) # 0 /\ Len(rs[r]) \in Nat /\ Len(rs2[r]) \in Nat
    BY <1>1, <1>2, EmptyLen
  <2> QED BY <1>2, <2>1, EmptyLen
<1> QED BY <1>2, <1>3, <1>4 DEF SpanOK

\* The loop of getdata() over spanners finds a layout cell or the end of the row.
LEMMA Skip ==
  ASSUME NEW row \in Seq(Key4), NEW k \in 1..(Len(row) + 1)
  PROVE  LET j == SkipSpanners(row, k)
         IN /\ j \in k..(Len(row) + 1)
            /\ \A i \in k..(j - 1) : row[i] = "s"
            /\ j = Len(row) + 1 \/ row[j] # "s"
<1> DEFINE S == {j \in k..(Len(row) + 1) : j = Len(row) + 1 \/ row[j] # "s"}
<1>1. S \in SUBSET Nat /\ S # {}
  OBVIOUS
<1>2. PICK m \in S : \A n \in S : m <= n
  BY <1>1, Least
<1>3. \A i \in k..(m - 1) : row[i] = "s"
  BY <1>2
<1>4. \E j \in k..(Len(row) + 1) :
        (\A i \in k..(j - 1) : row[i] = "s") /\ (j = Len(row) + 1 \/ row[j] # "s")
  BY <1>2, <1>3
<1> QED BY <1>4 DEF SkipSpanners

\* Spans that differ in strings and vertical spans only.
SameCells(sp, sp2) ==
  /\ sp2.layout = sp.layout /\ sp2.data = sp.data /\ Len(sp2.dat) = Len(sp.dat)
  /\ \A j \in 1..Len(sp.dat) : sp2.dat[j].col = sp.dat[j].col /\ sp2.dat[j].hspans = sp.dat[j].hspans

\* Only the places of cells matter: getdata() may count a vertical span in a row above,
\* and tbl_cdata() may extend a string.
LEMMA SameCellsOK ==
  ASSUME NEW rs, NEW sp \in SpanRec, NEW sp2 \in SpanRec, SameCells(sp, sp2), SpanOK(rs, sp)
  PROVE  SpanOK(rs, sp2)
<1>1. DatOK(rs[sp.layout], sp2.dat)
  <2> SUFFICES ASSUME NEW j \in 1..Len(sp2.dat)
               PROVE  /\ CellOK(rs[sp.layout], sp2.dat[j])
                      /\ j > 1 => sp2.dat[j].col > sp2.dat[j - 1].col + sp2.dat[j - 1].hspans
    BY DEF DatOK
  <2>1. j \in 1..Len(sp.dat) /\ (j > 1 => j - 1 \in 1..Len(sp.dat))
    BY DEF SameCells, SpanRec
  <2>2. CellOK(rs[sp.layout], sp.dat[j])
        /\ (j > 1 => sp.dat[j].col > sp.dat[j - 1].col + sp.dat[j - 1].hspans)
    BY <2>1 DEF SpanOK, DatOK
  <2> QED BY <2>1, <2>2 DEF SameCells, CellOK
<1> QED BY <1>1 DEF SpanOK, SameCells

Alike(s, t) ==
  t \in Seq(SpanRec) /\ Len(t) = Len(s) /\ \A m \in 1..Len(s) : SameCells(s[m], t[m])

\* A data row of the list has the type of data rows (tbl->first_span and its successors).
LEMMA SpanElem ==
  ASSUME NEW s \in Seq(SpanRec), NEW i \in 1..Len(s)
  PROVE  s[i] \in SpanRec /\ s[i].dat \in Seq(CellRec) /\ s[i].layout \in Nat /\ Len(s[i].dat) \in Nat
<1>1. s[i] \in SpanRec
  BY SeqElem
<1>2. s[i].dat \in Seq(CellRec) /\ s[i].layout \in Nat
  BY <1>1 DEF SpanRec
<1> QED BY <1>1, <1>2

\* The cell of row i that getdata() finds above column k is a cell of that row, or none.
LEMMA AboveType ==
  ASSUME spans \in Seq(SpanRec), NEW i \in 1..Len(spans), NEW k \in Nat
  PROVE  Above(i, k) \in 0..Len(spans[i].dat)
<1> DEFINE d == spans[i].dat
           C == {j \in 1..Len(d) : d[j].col >= k}
<1>1. Len(d) \in Nat
  BY SpanElem
<1>2. CASE C = {}
  BY <1>1, <1>2 DEF Above
<1>3. CASE C # {}
  <2>1. C \in SUBSET Nat
    BY <1>1
  <2>2. \E j \in C : \A m \in C : j <= m
    BY <1>3, <2>1, Least
  <2>3. Above(i, k) \in C
    BY <1>3, <2>2 DEF Above
  <2> QED BY <1>1, <2>3
<1> QED BY <1>2, <1>3

\* The row where getdata() ends its search upwards is above the current one, or none.
LEMMA ExtendedType ==
  ASSUME spans \in Seq(SpanRec), spans # <<>>, NEW k \in Nat
  PROVE  Extended(k) \in 0..(Len(spans) - 1)
<1> DEFINE S == {i \in 1..(Len(spans) - 1) : Stops(i, k)}
<1>1. Len(spans) \in Nat /\ Len(spans) # 0
  BY EmptyLen
<1>2. CASE S = {}
  BY <1>1, <1>2 DEF Extended
<1>3. CASE S # {}
  <2>1. S \in SUBSET Nat /\ \A n \in S : n <= Len(spans)
    BY <1>1
  <2>2. \E j \in S : \A m \in S : m <= j
    BY <1>1, <1>3, <2>1, Greatest
  <2>3. Extended(k) \in S
    BY <1>3, <2>2 DEF Extended
  <2> QED BY <1>1, <2>3
<1> QED BY <1>2, <1>3

\* Replacing the cell at i, j by one in the same place.
LEMMA CellReplaced ==
  ASSUME NEW s \in Seq(SpanRec), NEW i \in 1..Len(s), NEW j \in 1..Len(s[i].dat), NEW c \in CellRec,
         c.col = s[i].dat[j].col, c.hspans = s[i].dat[j].hspans,
         NEW d, d = [s[i].dat EXCEPT ![j] = c],
         NEW sp, sp = [s[i] EXCEPT !.dat = d],
         NEW t, t = [s EXCEPT ![i] = sp]
  PROVE  Alike(s, t) /\ \A m \in 1..Len(s) : m # i => t[m] = s[m]
<1>1. s[i] \in SpanRec /\ s[i].dat \in Seq(CellRec)
  BY SpanElem
<1>2. d \in Seq(CellRec) /\ Len(d) = Len(s[i].dat)
  BY <1>1
<1>3. \A m \in 1..Len(d) : d[m].col = s[i].dat[m].col /\ d[m].hspans = s[i].dat[m].hspans
  BY <1>1, <1>2
<1>4. sp \in SpanRec
  BY <1>1, <1>2 DEF SpanRec
<1>5. sp.layout = s[i].layout /\ sp.data = s[i].data /\ sp.dat = d
  BY <1>1 DEF SpanRec
<1>6. SameCells(s[i], sp)
  BY <1>2, <1>3, <1>5 DEF SameCells
<1>7. t \in Seq(SpanRec) /\ Len(t) = Len(s)
  BY <1>4
<1>8. \A m \in 1..Len(s) : t[m] = IF m = i THEN sp ELSE s[m]
  OBVIOUS
<1>9. \A m \in 1..Len(s) : SameCells(s[m], t[m]) /\ (m # i => t[m] = s[m])
  BY <1>6, <1>8 DEF SameCells
<1> QED BY <1>7, <1>9 DEF Alike

\* A cell that continues one above it changes nothing but its vertical span.
LEMMA VspansKeeps ==
  ASSUME spans \in Seq(SpanRec), spans # <<>>, NEW k \in Nat
  PROVE  Alike(spans, Vspans(k)) /\ Vspans(k)[Len(spans)] = spans[Len(spans)]
<1> DEFINE i == Extended(k)
           j == Above(i, k)
<1>1. CASE i = 0 \/ j = 0
  <2>1. Vspans(k) = spans
    BY <1>1 DEF Vspans
  <2>2. \A m \in 1..Len(spans) : SameCells(spans[m], spans[m])
    BY DEF SameCells
  <2> QED BY <2>1, <2>2 DEF Alike
<1>2. CASE i # 0 /\ j # 0
  <2>0. Len(spans) \in Nat
    OBVIOUS
  <2>1. i \in 0..(Len(spans) - 1)
    BY ExtendedType
  <2>2. i \in 1..Len(spans) /\ i # Len(spans)
    BY <1>2, <2>0, <2>1
  <2>3. j \in 0..Len(spans[i].dat) /\ Len(spans[i].dat) \in Nat
    BY <2>2, AboveType, SpanElem
  <2>4. j \in 1..Len(spans[i].dat)
    BY <1>2, <2>3
  <2> DEFINE c == [spans[i].dat[j] EXCEPT !.vspans = @ + 1]
             d == [spans[i].dat EXCEPT ![j] = c]
             sp == [spans[i] EXCEPT !.dat = d]
             t == [spans EXCEPT ![i] = sp]
  <2>5. spans[i].dat[j] \in CellRec
    BY <2>2, <2>4, SpanElem, SeqElem
  <2>6. c \in CellRec /\ c.col = spans[i].dat[j].col /\ c.hspans = spans[i].dat[j].hspans
    BY <2>5 DEF CellRec
  <2>7. Vspans(k) = t
    BY <1>2 DEF Vspans
  <2> HIDE DEF c, i, j
  <2>d. d = [spans[i].dat EXCEPT ![j] = c]
    OBVIOUS
  <2> HIDE DEF d
  <2>s. sp = [spans[i] EXCEPT !.dat = d]
    OBVIOUS
  <2> HIDE DEF sp
  <2>t. t = [spans EXCEPT ![i] = sp]
    OBVIOUS
  <2> HIDE DEF t
  <2>a. i \in 1..Len(spans) /\ j \in 1..Len(spans[i].dat)
    BY <2>2, <2>4
  <2>b. c \in CellRec /\ c.col = spans[i].dat[j].col /\ c.hspans = spans[i].dat[j].hspans
    BY <2>6
  <2>8. Alike(spans, t)
    BY <2>a, <2>b, <2>d, <2>s, <2>t, CellReplaced
  <2>e. \A m \in 1..Len(spans) : m # i => t[m] = spans[m]
    BY <2>a, <2>t
  <2>9. Len(spans) \in 1..Len(spans)
    BY <2>0, EmptyLen
  <2> QED BY <2>2, <2>7, <2>8, <2>9, <2>e
<1> QED BY <1>1, <1>2

-----------------------------------------------------------------------------
\* The parts of the invariant that the cells are in.
LEMMA CellsGrow ==
  ASSUME TblInv, rows' \in Seq(Seq(Key4)), Grown(rows, rows'), spans' = spans
  PROVE  Cells'
<1> SUFFICES ASSUME NEW i \in 1..Len(spans) PROVE SpanOK(rows', spans[i])
  BY DEF Cells
<1>1. rows \in Seq(Seq(Key4)) /\ spans \in Seq(SpanRec) /\ SpanOK(rows, spans[i])
  BY DEF TblInv, TypeOK, Cells
<1>2. spans[i] \in SpanRec
  BY <1>1, SpanElem
<1> QED BY <1>1, <1>2, SpanGrows

\* tbl_alloc() starts with neither layout rows nor data rows.
LEMMA NoRows ==
  /\ <<>> \in Seq(Seq(Key4)) /\ <<>> \in Seq(SpanRec)
  /\ Len(<<>>) = 0 /\ 1..0 = {}
OBVIOUS

\* Before any table, the invariant of the parser holds.
LEMMA InitOK == Init => TblInv
<1> SUFFICES ASSUME Init PROVE TblInv
  OBVIOUS
<1>1. TypeOK
  BY NoRows DEF Init, TypeOK
<1>2. InRow /\ Layout /\ Cells /\ Reading
  BY NoRows, Zenon DEF Init, InRow, Layout, Cells, Reading
<1> QED BY <1>1, <1>2 DEF TblInv

\* The types of the two lists, from the invariant of the parser.
LEMMA Types ==
  ASSUME TblInv
  PROVE  /\ rows \in Seq(Seq(Key4)) /\ spans \in Seq(SpanRec) /\ cols \in Nat
         /\ Len(rows) \in Nat /\ Len(spans) \in Nat
<1>1. rows \in Seq(Seq(Key4)) /\ spans \in Seq(SpanRec) /\ cols \in Nat
  BY DEF TblInv, TypeOK
<1> QED BY <1>1

\* TS, TE and T& keep the invariant: T& may come at any place, also in a text block.
LEMMA RequestOK ==
  ASSUME TblInv, TS \/ TE \/ T_
  PROVE  TblInv'
<1>0. rp = FALSE /\ rp' = rp /\ line = "start" /\ line' = line
  <2>1. line = "start" /\ line' = line /\ rp' = rp
    BY DEF TS, TE, T_, AtRequest
  <2>2. line # "layout"
    BY <2>1
  <2> QED BY <2>1, <2>2, Zenon DEF TblInv, InRow
<1>1. InRow'
  BY <1>0, Zenon DEF InRow
<1>2. CASE TS \/ TE
  <2>1. /\ part' \in {"OPTS", "none"} /\ rows' = <<>> /\ cols' = 0 /\ spans' = <<>> /\ shown' = 0
        /\ kind' = kind /\ fault' = fault /\ fault = ""
    BY <1>2 DEF TS, TE, AtRequest
  <2>2. kind \in Kinds
    BY DEF TblInv, TypeOK
  <2>3. TypeOK'
    BY <1>0, <2>1, <2>2, NoRows DEF TypeOK
  <2>4. Layout' /\ Cells'
    BY <1>0, <2>1, NoRows DEF Layout, Cells
  <2>5. Reading'
    BY <1>0, <2>1, NoRows DEF Reading
  <2> QED BY <1>1, <2>3, <2>4, <2>5 DEF TblInv
<1>3. CASE T_
  <2>1. TypeOK'
    BY <1>3 DEF TblInv, T_, AtRequest, TypeOK
  <2>2. Layout' /\ Cells' /\ Reading'
    BY <1>3 DEF TblInv, T_, AtRequest, Layout, Cells, Reading
  <2> QED BY <1>1, <2>1, <2>2 DEF TblInv
<1> QED BY <1>2, <1>3

\* The steps of tbl_read(), tbl_layout() and tbl_cdata() that only start or end a line
\* keep the invariant.
LEMMA LinesOK ==
  ASSUME TblInv, \/ ReadLayout \/ Comma \/ LayoutEndsLine \/ DataEndsLine
                 \/ \E more \in BOOLEAN : CdataEnds(more)
  PROVE  TblInv'
<1> USE DEF ReadLayout, Comma, LayoutEndsLine, DataEndsLine, CdataEnds, EndLine, roff_addtbl
<1>1. Len(spans) \in Nat
  BY Types
<1>2. TypeOK'
  BY <1>1 DEF TblInv, TypeOK
<1>3. InRow'
  <2>1. rp' = FALSE \/ (rp' = rp /\ line = "start")
    OBVIOUS
  <2>2. line = "start" => rp = FALSE
    <3>1. line = "start" => line # "layout"
      OBVIOUS
    <3> QED BY <3>1, Zenon DEF TblInv, InRow
  <2>3. rp' = FALSE
    BY <2>1, <2>2
  <2> QED BY <2>3, Zenon DEF InRow
<1>4. Layout'
  BY DEF TblInv, Layout
<1>5. Cells'
  BY DEF TblInv, Cells
<1>6. Reading'
  BY DEF TblInv, Layout, Reading
<1> QED BY <1>2, <1>3, <1>4, <1>5, <1>6 DEF TblInv

\* The row that the next cell goes to is the last one, and the others have cells.
LEMMA NewRowLast ==
  ASSUME TblInv, line = "layout"
  PROVE  /\ NewRow \in Seq(Seq(Key4)) /\ Len(NewRow) \in Nat \ {0} /\ Len(rows) <= Len(NewRow)
         /\ \A i \in 1..Len(rows) : NewRow[i] = rows[i]
         /\ \A i \in 1..Len(NewRow) : /\ NewRow[i] = <<>> => i = Len(NewRow)
                                      /\ Len(NewRow[i]) <= cols
<1>1. rows \in Seq(Seq(Key4)) /\ cols \in Nat /\ Len(rows) \in Nat
  BY Types
<1>2. \A i \in 1..Len(rows) : (rows[i] = <<>> => i = Len(rows)) /\ Len(rows[i]) <= cols
  BY DEF TblInv, Layout
<1>3. rp => rows # <<>>
  BY Zenon DEF TblInv, InRow
<1>4. rows # <<>> <=> Len(rows) # 0
  BY <1>1, EmptyLen
<1>5. CASE rp \/ (rows # <<>> /\ Last(rows) = <<>>)
  <2>1. NewRow = rows
    BY <1>5, Zenon DEF NewRow
  <2>2. rows # <<>>
    BY <1>3, <1>5
  <2> QED BY <1>1, <1>2, <1>4, <2>1, <2>2
<1>6. CASE ~(rp \/ (rows # <<>> /\ Last(rows) = <<>>))
  <2>1. NewRow = Append(rows, <<>>)
    BY <1>6, Zenon DEF NewRow
  <2>2. NewRow \in Seq(Seq(Key4)) /\ Len(NewRow) = Len(rows) + 1 /\ NewRow[Len(rows) + 1] = <<>>
        /\ \A i \in 1..Len(rows) : NewRow[i] = rows[i]
    BY <1>1, <2>1
  <2>3. \A i \in 1..Len(rows) : rows[i] # <<>>
    <3> SUFFICES ASSUME NEW i \in 1..Len(rows), rows[i] = <<>> PROVE FALSE
      OBVIOUS
    <3>1. i = Len(rows) /\ rows # <<>>
      BY <1>1, <1>2, <1>4
    <3> QED BY <1>6, <3>1, Zenon DEF Last
  <2>4. \A i \in 1..Len(NewRow) : i \in 1..Len(rows) \/ i = Len(rows) + 1
    BY <1>1, <2>2
  <2>5. Len(NewRow[Len(rows) + 1]) = 0
    BY <2>2, NoRows
  <2>6. ASSUME NEW i \in 1..Len(NewRow)
        PROVE  (NewRow[i] = <<>> => i = Len(NewRow)) /\ Len(NewRow[i]) <= cols
    <3>1. CASE i \in 1..Len(rows)
      BY <1>2, <2>2, <2>3, <3>1
    <3>2. CASE i = Len(rows) + 1
      BY <1>1, <2>2, <2>5, <3>2
    <3> QED BY <2>4, <3>1, <3>2
  <2> QED BY <1>1, <2>2, <2>6
<1> QED BY <1>5, <1>6

\* Reading a line of the layout: what all its steps keep.
LEMMA LayoutGrows ==
  ASSUME TblInv, line = "layout", rows' \in Seq(Seq(Key4)), rows' # <<>>, cols' \in Nat,
         Grown(rows, rows'), rp' = TRUE, UNCHANGED <<kind, part, spans, shown, line, fault>>,
         \A i \in 1..Len(rows') : (rows'[i] = <<>> => i = Len(rows')) /\ Len(rows'[i]) <= cols'
  PROVE  TblInv'
<1>1. TypeOK'
  BY DEF TblInv, TypeOK
<1>2. InRow'
  BY Zenon DEF InRow
<1>3. part = "LAYOUT"
  BY DEF TblInv, Layout
<1>4. Layout'
  BY <1>3 DEF Layout
<1>5. Cells'
  BY CellsGrow
<1>6. Reading'
  BY DEF TblInv, Reading
<1> QED BY <1>1, <1>2, <1>4, <1>5, <1>6 DEF TblInv

\* When cell() finds vertical lines only, the row without cells is the last one.
LEMMA NoCellOK ==
  ASSUME TblInv, NoCell
  PROVE  TblInv'
<1>1. line = "layout" /\ rows' = NewRow /\ rp' = TRUE /\ cols' = cols
      /\ UNCHANGED <<kind, part, spans, shown, line, fault>>
  BY DEF NoCell
<1>2. /\ rows' \in Seq(Seq(Key4)) /\ Len(rows') \in Nat \ {0} /\ Len(rows) <= Len(rows')
      /\ \A i \in 1..Len(rows) : rows'[i] = rows[i]
      /\ \A i \in 1..Len(rows') : (rows'[i] = <<>> => i = Len(rows')) /\ Len(rows'[i]) <= cols'
  BY <1>1, NewRowLast
<1>3. rows \in Seq(Seq(Key4)) /\ Len(rows) \in Nat /\ cols' \in Nat
  BY <1>1, Types
<1>4. rows' # <<>>
  BY <1>2, EmptyLen
<1>5. Grown(rows, rows')
  <2> SUFFICES ASSUME NEW r \in 1..Len(rows)
               PROVE  r \in 1..Len(rows') /\ rows'[r] = rows[r] /\ Len(rows[r]) \in Nat
    BY DEF Grown
  <2>1. rows[r] \in Seq(Key4)
    BY <1>3, SeqElem
  <2> QED BY <1>2, <1>3, <2>1
<1> QED BY <1>1, <1>2, <1>3, <1>4, <1>5, LayoutGrows

\* cell_alloc() adds a cell to the last layout row and keeps the number of columns an
\* upper bound of all rows.
LEMMA CellAdded ==
  ASSUME TblInv, NEW key \in kind.keys, Cell(key)
  PROVE  TblInv'
<1> DEFINE r == NewRow
           n == Len(NewRow)
           row == NewRow[Len(NewRow)]
           new == Append(row, Key(row, key))
<1>1. line = "layout" /\ rows' = [r EXCEPT ![n] = new] /\ rp' = TRUE
      /\ cols' = (IF cols < Len(row) + 1 THEN Len(row) + 1 ELSE cols)
      /\ UNCHANGED <<kind, part, spans, shown, line, fault>>
  BY DEF Cell
<1>2. kind \in Kinds
  BY DEF TblInv, TypeOK
<1>3. key \in Key4
  BY <1>2, TblAssumption DEF Key4
<1>4. /\ r \in Seq(Seq(Key4)) /\ n \in Nat \ {0} /\ Len(rows) <= n
      /\ \A i \in 1..Len(rows) : r[i] = rows[i]
      /\ \A i \in 1..n : (r[i] = <<>> => i = n) /\ Len(r[i]) <= cols
  BY <1>1, NewRowLast
<1> HIDE DEF r, n
<1>5. rows \in Seq(Seq(Key4)) /\ Len(rows) \in Nat /\ cols \in Nat
  BY Types
<1>6. row \in Seq(Key4) /\ Len(row) \in Nat /\ row = r[n] /\ Len(r) = n
  <2>1. n \in 1..n /\ row = r[n] /\ Len(r) = n
    BY <1>4 DEF r, n
  <2>2. r[n] \in Seq(Key4)
    BY <1>4, <2>1, SeqElem
  <2> QED BY <2>1, <2>2
<1> HIDE DEF row
<1>7. Key(row, key) \in Key4
  BY <1>3 DEF Key, Key4
<1>8. new \in Seq(Key4) /\ Len(new) = Len(row) + 1 /\ \A i \in 1..Len(row) : new[i] = row[i]
  BY <1>6, <1>7
<1> HIDE DEF new
<1>9. rows' \in Seq(Seq(Key4)) /\ Len(rows') = n /\ rows'[n] = new
      /\ \A i \in 1..n : i # n => rows'[i] = r[i]
  BY <1>1, <1>4, <1>6, <1>8
<1>10. rows' # <<>>
  BY <1>4, <1>9, EmptyLen
<1>11. cols' \in Nat /\ cols <= cols' /\ Len(new) <= cols'
  BY <1>1, <1>5, <1>6, <1>8
<1>12. Grown(rows, rows')
  <2> SUFFICES ASSUME NEW i \in 1..Len(rows)
               PROVE  /\ i \in 1..n /\ Len(rows[i]) <= Len(rows'[i])
                      /\ \A m \in 1..Len(rows[i]) : rows'[i][m] = rows[i][m]
    BY <1>9 DEF Grown
  <2>1. i \in 1..n /\ rows[i] = r[i] /\ rows[i] \in Seq(Key4)
    BY <1>4, <1>5, SeqElem
  <2>2. CASE i = n
    BY <2>1, <2>2, <1>6, <1>8, <1>9
  <2>3. CASE i # n
    BY <2>1, <2>3, <1>9
  <2> QED BY <2>2, <2>3
<1>13. ASSUME NEW i \in 1..n
       PROVE  (rows'[i] = <<>> => i = n) /\ Len(rows'[i]) <= cols'
  <2>1. r[i] \in Seq(Key4) /\ Len(r[i]) \in Nat /\ Len(r[i]) <= cols /\ (r[i] = <<>> => i = n)
    <3>1. r[i] \in Seq(Key4)
      BY <1>4, <1>6, SeqElem
    <3> QED BY <3>1, <1>4
  <2> QED BY <2>1, <1>5, <1>9, <1>11
<1> QED BY <1>1, <1>5, <1>9, <1>10, <1>11, <1>12, <1>13, LayoutGrows

\* Without cells, there are no data rows yet.
LEMMA NoCells ==
  ASSUME TblInv, rows = <<>> \/ rows[1] = <<>>
  PROVE  spans = <<>>
<1>1. rows \in Seq(Seq(Key4)) /\ spans \in Seq(SpanRec) /\ Len(rows) \in Nat /\ Len(spans) \in Nat
  BY Types
<1> SUFFICES ASSUME spans # <<>> PROVE FALSE
  OBVIOUS
<1>2. 1 \in 1..Len(spans)
  BY <1>1, EmptyLen
<1>3. spans[1].layout \in 1..Len(rows) /\ rows[spans[1].layout] # <<>>
  BY <1>2 DEF TblInv, Cells, SpanOK
<1>4. Len(rows) # 0 /\ rows # <<>>
  BY <1>1, <1>3, EmptyLen
<1>5. 1 \in 1..Len(rows) /\ rows[1] = <<>>
  BY <1>1, <1>4
<1>6. Len(rows) = 1
  BY <1>5 DEF TblInv, Layout
<1> QED BY <1>3, <1>5, <1>6

\* The full stop after the layout leaves no layout row without cells and does not drop
\* a row that some data row uses.
LEMMA LayoutEndsOK ==
  ASSUME TblInv, LayoutEnds
  PROVE  TblInv'
<1>1. /\ line = "layout" /\ part' = "DATA" /\ rows' = Dot(rows) /\ line' = "start" /\ rp' = FALSE
      /\ shown' = Len(spans) /\ spans' = spans /\ fault' = fault /\ kind' = kind
      /\ cols' = (IF cols = 0 THEN 1 ELSE cols)
  BY DEF LayoutEnds, EndLine, roff_addtbl
<1>2. rows \in Seq(Seq(Key4)) /\ Len(rows) \in Nat /\ cols \in Nat /\ Len(spans) \in Nat
  BY Types
<1>3. cols' \in Nat /\ cols <= cols' /\ 1 <= cols'
  BY <1>1, <1>2
<1>4. \A i \in 1..Len(rows) : (rows[i] = <<>> => i = Len(rows)) /\ Len(rows[i]) <= cols
  BY DEF TblInv, Layout
<1>5. /\ rows' \in Seq(Seq(Key4)) /\ rows' # <<>> /\ Cells'
      /\ \A i \in 1..Len(rows') : rows'[i] # <<>> /\ Len(rows'[i]) <= cols'
  <2>1. CASE rows = <<>> \/ rows[1] = <<>>
    <3>1. rows' = <<<<"l">>>>
      BY <1>1, <2>1 DEF Dot
    <3>2. spans = <<>>
      BY <2>1, NoCells
    <3>3. Cells'
      BY <1>1, <3>2, NoRows DEF Cells
    <3>4. <<"l">> \in Seq(Key4) /\ Len(<<"l">>) = 1 /\ <<"l">> # <<>>
      BY DEF Key4
    <3>5. rows' \in Seq(Seq(Key4)) /\ Len(rows') = 1 /\ rows'[1] = <<"l">>
      BY <3>1, <3>4
    <3>6. rows' # <<>>
      BY <3>5, EmptyLen
    <3>7. \A i \in 1..Len(rows') : rows'[i] # <<>> /\ Len(rows'[i]) <= cols'
      <4>1. \A i \in 1..Len(rows') : i = 1
        BY <3>5
      <4> QED BY <1>3, <3>4, <3>5, <4>1
    <3> QED BY <3>3, <3>5, <3>6, <3>7
  <2>2. CASE rows # <<>> /\ rows[1] # <<>>
    <3>0. Len(rows) # 0
      BY <1>2, <2>2, EmptyLen
    <3>1. CASE Last(rows) = <<>>
      <4>1. rows' = SubSeq(rows, 1, Len(rows) - 1)
        BY <1>1, <2>2, <3>1 DEF Dot
      <4>2. Len(rows) > 1
        BY <1>2, <2>2, <3>0, <3>1 DEF Last
      <4>3. rows' \in Seq(Seq(Key4)) /\ Len(rows') = Len(rows) - 1
            /\ \A i \in 1..(Len(rows) - 1) : rows'[i] = rows[i]
        BY <1>2, <4>1, <4>2
      <4>4. rows' # <<>>
        BY <1>2, <4>2, <4>3, EmptyLen
      <4>5. Grown(rows, rows')
        <5> SUFFICES ASSUME NEW r \in 1..Len(rows), rows[r] # <<>>
                     PROVE  r \in 1..Len(rows') /\ rows'[r] = rows[r] /\ Len(rows[r]) \in Nat
          BY DEF Grown
        <5>1. r # Len(rows)
          BY <3>1 DEF Last
        <5>2. rows[r] \in Seq(Key4)
          BY <1>2, SeqElem
        <5> QED BY <1>2, <4>3, <5>1, <5>2
      <4>6. Cells'
        BY <1>1, <4>3, <4>5, CellsGrow
      <4>7. ASSUME NEW i \in 1..Len(rows') PROVE rows'[i] # <<>> /\ Len(rows'[i]) <= cols'
        <5>1. i \in 1..Len(rows) /\ i # Len(rows) /\ rows'[i] = rows[i] /\ Len(rows[i]) <= cols
          BY <1>2, <1>4, <4>3
        <5>2. rows[i] \in Seq(Key4)
          BY <1>2, <5>1, SeqElem
        <5> QED BY <1>2, <1>3, <1>4, <5>1, <5>2
      <4> QED BY <4>3, <4>4, <4>6, <4>7
    <3>2. CASE Last(rows) # <<>>
      <4>1. rows' = rows
        BY <1>1, <2>2, <3>2 DEF Dot
      <4>2. Cells'
        BY <1>1, <4>1 DEF TblInv, Cells
      <4>3. ASSUME NEW i \in 1..Len(rows) PROVE rows[i] # <<>> /\ Len(rows[i]) <= cols'
        <5>1. rows[i] \in Seq(Key4) /\ Len(rows[i]) <= cols /\ (rows[i] = <<>> => i = Len(rows))
          BY <1>2, <1>4, SeqElem
        <5>2. Len(rows[i]) \in Nat
          BY <5>1
        <5> QED BY <1>2, <1>3, <3>2, <5>1, <5>2 DEF Last
      <4> QED BY <1>2, <2>2, <4>1, <4>2, <4>3
    <3> QED BY <3>1, <3>2
  <2> QED BY <2>1, <2>2
<1>6. kind \in Kinds /\ spans \in Seq(SpanRec) /\ fault \in {"", "pointer", "string"}
  BY DEF TblInv, TypeOK
<1>7. TypeOK'
  BY <1>1, <1>2, <1>3, <1>5, <1>6 DEF TypeOK
<1>8. InRow'
  BY <1>1, Zenon DEF InRow
<1>9. Layout'
  BY <1>1, <1>5 DEF Layout
<1>10. Reading'
  BY <1>1 DEF TblInv, Reading
<1> QED BY <1>5, <1>7, <1>8, <1>9, <1>10 DEF TblInv

\* While data is read, there are layout rows, and all of them have cells.
LEMMA AtDataRows ==
  ASSUME TblInv, AtData
  PROVE  /\ rows # <<>> /\ rp = FALSE /\ Len(rows) \in Nat \ {0}
         /\ \A r \in 1..Len(rows) : rows[r] # <<>>
<1>1. line = "start" /\ part = "DATA"
  BY DEF AtData
<1>2. line # "layout"
  BY <1>1
<1>3. rp = FALSE
  BY <1>2, Zenon DEF TblInv, InRow
<1>4. rows # <<>> /\ \A r \in 1..Len(rows) : rows[r] # <<>>
  BY <1>1 DEF TblInv, Layout
<1>5. rows \in Seq(Seq(Key4)) /\ Len(rows) \in Nat
  BY Types
<1> QED BY <1>3, <1>4, <1>5, EmptyLen

\* There is a layout row for each line of data.
LEMMA NextLayoutExists ==
  ASSUME TblInv, AtData
  PROVE  NextLayout \in 1..Len(rows)
<1> DEFINE D == {i \in 1..Len(spans) : spans[i].data}
<1>1. Len(rows) \in Nat \ {0} /\ Len(spans) \in Nat
  BY AtDataRows, Types
<1>2. CASE D = {}
  BY <1>1, <1>2 DEF NextLayout
<1>3. CASE D # {}
  <2> DEFINE m == CHOOSE i \in D : \A j \in D : j <= i
             l == spans[m].layout
  <2>1. D \in SUBSET Nat /\ \A n \in D : n <= Len(spans)
    BY <1>1
  <2>2. \E i \in D : \A j \in D : j <= i
    BY <1>1, <1>3, <2>1, Greatest
  <2>3. m \in D
    BY <2>2
  <2> HIDE DEF m
  <2>4. l \in 1..Len(rows)
    BY <2>3 DEF TblInv, Cells, SpanOK
  <2>5. NextLayout = IF l < Len(rows) THEN l + 1 ELSE l
    BY <1>3 DEF NextLayout, m
  <2> HIDE DEF l
  <2> QED BY <1>1, <2>4, <2>5
<1> QED BY <1>2, <1>3

\* newspan() makes a data row without cells that belongs to its layout row.
LEMMA NewSpan ==
  ASSUME TblInv, AtData, NEW r \in 1..Len(rows)
  PROVE  /\ newspan(r) \in SpanRec /\ [newspan(r) EXCEPT !.data = FALSE] \in SpanRec
         /\ SpanOK(rows, newspan(r)) /\ SpanOK(rows, [newspan(r) EXCEPT !.data = FALSE])
<1>1. Len(rows) \in Nat /\ rows[r] # <<>>
  BY AtDataRows
<1>2. r \in Nat /\ <<>> \in Seq(CellRec) /\ Len(<<>>) = 0
  BY <1>1
<1>3. newspan(r).layout = r /\ newspan(r).dat = <<>>
  BY DEF newspan
<1>4. DatOK(rows[r], <<>>)
  BY <1>2 DEF DatOK
<1>5. newspan(r) \in SpanRec /\ [newspan(r) EXCEPT !.data = FALSE] \in SpanRec
  BY <1>2 DEF newspan, SpanRec
<1>6. /\ [newspan(r) EXCEPT !.data = FALSE].layout = r
      /\ [newspan(r) EXCEPT !.data = FALSE].dat = <<>>
  BY DEF newspan
<1> QED BY <1>1, <1>3, <1>4, <1>5, <1>6 DEF SpanOK

\* A horizontal rule among the data has a layout row: tbl_data() follows no null pointer.
LEMMA RuleOK ==
  ASSUME TblInv, Rule
  PROVE  TblInv'
<1> DEFINE sp == [newspan(NextLayout) EXCEPT !.data = FALSE]
<1>1. AtData
  BY DEF Rule
<1>2. rows # <<>> /\ rp = FALSE /\ NextLayout \in 1..Len(rows)
  BY <1>1, AtDataRows, NextLayoutExists
<1>3. /\ spans' = Append(spans, sp) /\ shown' = Len(spans') /\ UNCHANGED <<kind, part, rows, cols, line, rp, fault>>
  BY <1>2 DEF Rule, roff_addtbl
<1>4. sp \in SpanRec /\ SpanOK(rows, sp)
  BY <1>1, <1>2, NewSpan
<1> HIDE DEF sp
<1>5. spans \in Seq(SpanRec) /\ Len(spans) \in Nat
  BY Types
<1>6. spans' \in Seq(SpanRec) /\ Len(spans') = Len(spans) + 1 /\ spans'[Len(spans) + 1] = sp
      /\ \A i \in 1..Len(spans) : spans'[i] = spans[i]
  BY <1>3, <1>4, <1>5
<1>7. Cells'
  <2> SUFFICES ASSUME NEW i \in 1..Len(spans') PROVE SpanOK(rows, spans'[i])
    BY <1>3 DEF Cells
  <2>1. i \in 1..Len(spans) \/ i = Len(spans) + 1
    BY <1>5, <1>6
  <2>2. CASE i \in 1..Len(spans)
    BY <1>6, <2>2 DEF TblInv, Cells
  <2>3. CASE i = Len(spans) + 1
    BY <1>4, <1>6, <2>3
  <2> QED BY <2>1, <2>2, <2>3
<1>8. shown' \in Nat
  BY <1>3, <1>5, <1>6
<1>9. TypeOK'
  BY <1>3, <1>6, <1>8 DEF TblInv, TypeOK
<1>10. InRow'
  BY <1>2, <1>3, Zenon DEF InRow
<1>11. Layout'
  BY <1>3 DEF TblInv, Layout
<1>12. Reading'
  BY <1>1, <1>3 DEF TblInv, Reading, AtData
<1> QED BY <1>7, <1>9, <1>10, <1>11, <1>12 DEF TblInv

\* tbl_data() adds rows for the layout rows of rules that it skips, and one for the line.
LEMMA ReadDataOK ==
  ASSUME TblInv, NEW row \in Nat, ReadData(row)
  PROVE  TblInv'
<1> DEFINE n == NextLayout
           m == row + 1 - NextLayout
           new == [i \in 1..(row + 1 - NextLayout) |-> newspan(NextLayout + i - 1)]
<1>1. AtData /\ spans' = spans \o new /\ line' = "data" /\ row \in n..Len(rows)
      /\ UNCHANGED <<kind, part, rows, cols, shown, rp, fault>>
  BY DEF ReadData, Accepting
<1>2. rows # <<>> /\ rp = FALSE /\ n \in 1..Len(rows) /\ Len(rows) \in Nat
  BY <1>1, AtDataRows, NextLayoutExists
<1> HIDE DEF n
<1>3. m \in Nat \ {0}
  BY <1>1, <1>2 DEF n
<1>4. spans \in Seq(SpanRec) /\ Len(spans) \in Nat
  BY Types
<1>5. ASSUME NEW i \in 1..m
      PROVE  /\ new[i] = newspan(n + i - 1) /\ new[i] \in SpanRec /\ SpanOK(rows, new[i])
             /\ new[i].data
  <2>1. n + i - 1 \in 1..Len(rows)
    BY <1>1, <1>2, <1>3 DEF n
  <2>2. new[i] = newspan(n + i - 1)
    BY DEF n
  <2>3. newspan(n + i - 1) \in SpanRec /\ SpanOK(rows, newspan(n + i - 1))
    BY <1>1, <2>1, NewSpan
  <2>4. newspan(n + i - 1).data
    BY DEF newspan
  <2> HIDE DEF new
  <2> QED BY <2>2, <2>3, <2>4
<1>6. new \in Seq(SpanRec) /\ Len(new) = m
  <2>1. new \in [1..m -> SpanRec]
    BY <1>5
  <2> HIDE DEF new, m
  <2> QED BY <1>3, <2>1
<1> HIDE DEF new, m
<1>7. spans' \in Seq(SpanRec) /\ Len(spans') = Len(spans) + m
      /\ \A i \in 1..Len(spans') :
           spans'[i] = IF i <= Len(spans) THEN spans[i] ELSE new[i - Len(spans)]
  <2>1. new \in Seq(SpanRec) /\ Len(new) = m /\ spans' = spans \o new /\ m \in Nat
    BY <1>1, <1>3, <1>6
  <2>2. Joined(SpanRec, spans, new, spans')
    BY <1>4, <2>1, Concat
  <2> QED BY <2>1, <2>2 DEF Joined
<1>8. ASSUME NEW i \in 1..Len(spans'), i > Len(spans)
      PROVE  spans'[i] = new[i - Len(spans)] /\ i - Len(spans) \in 1..m
  BY <1>3, <1>4, <1>7, <1>8
<1>9. Cells'
  <2> SUFFICES ASSUME NEW i \in 1..Len(spans') PROVE SpanOK(rows, spans'[i])
    BY <1>1 DEF Cells
  <2>1. CASE i <= Len(spans)
    <3>1. i \in 1..Len(spans) /\ spans'[i] = spans[i]
      BY <1>4, <1>7, <2>1
    <3> QED BY <3>1 DEF TblInv, Cells
  <2>2. CASE i > Len(spans)
    BY <1>5, <1>8, <2>2
  <2>3. i \in Nat
    BY <1>3, <1>4, <1>7
  <2> QED BY <1>4, <2>1, <2>2, <2>3
<1>10. spans' # <<>> /\ Last(spans').data
  <2>1. Len(spans') \in 1..Len(spans') /\ Len(spans') > Len(spans)
    BY <1>3, <1>4, <1>7
  <2>2. spans' # <<>>
    BY <2>1, <1>3, <1>4, <1>7, EmptyLen
  <2> QED BY <1>5, <1>8, <2>1, <2>2 DEF Last
<1>11. TypeOK'
  BY <1>1, <1>7 DEF TblInv, TypeOK
<1>12. InRow'
  BY <1>1, <1>2, Zenon DEF InRow
<1>13. Layout'
  BY <1>1 DEF TblInv, Layout, AtData
<1>14. Reading'
  BY <1>1, <1>10 DEF TblInv, Reading, AtData
<1> QED BY <1>9, <1>11, <1>12, <1>13, <1>14 DEF TblInv

\* Rows that differ in strings and vertical spans only are as well placed as before.
LEMMA AlikeCells ==
  ASSUME TblInv, NEW t, Alike(spans, t)
  PROVE  \A i \in 1..Len(t) : SpanOK(rows, t[i])
<1> SUFFICES ASSUME NEW i \in 1..Len(t) PROVE SpanOK(rows, t[i])
  OBVIOUS
<1>1. t \in Seq(SpanRec) /\ i \in 1..Len(spans) /\ SameCells(spans[i], t[i])
  BY DEF Alike
<1>2. spans \in Seq(SpanRec) /\ SpanOK(rows, spans[i])
  BY <1>1 DEF TblInv, TypeOK, Cells
<1>3. spans[i] \in SpanRec /\ t[i] \in SpanRec
  BY <1>1, <1>2, SpanElem
<1> QED BY <1>1, <1>2, <1>3, SameCellsOK

\* tbl_cdata() finds the cell that a line of a text block belongs to.
LEMMA CdataTextOK ==
  ASSUME TblInv, NEW string \in kind.strings \ {"T{"}, CdataText(string)
  PROVE  TblInv'
<1> DEFINE n == Len(spans)
           old == spans[n].dat
           m == Len(old)
           c == [old[m] EXCEPT !.string = IF @ = "NULL" THEN string ELSE "text"]
           d == [old EXCEPT ![m] = c]
           sp == [spans[n] EXCEPT !.dat = d]
<1>1. line = "start" /\ fault = "" /\ part = "CDATA"
      /\ UNCHANGED <<kind, part, rows, cols, shown, line, rp>>
  BY DEF CdataText
<1>2. spans # <<>> /\ Last(spans).data /\ Last(spans).dat # <<>>
  BY <1>1 DEF TblInv, Reading
<1>3. old # <<>>
  BY <1>2 DEF Last
<1>4. fault' = fault /\ spans' = [spans EXCEPT ![n] = sp]
  BY <1>3 DEF CdataText
<1>5. spans \in Seq(SpanRec) /\ n \in 1..n /\ n # 0
  <2>1. spans \in Seq(SpanRec) /\ n \in Nat
    BY Types
  <2> QED BY <1>2, <2>1, NonEmpty
<1>6. old \in Seq(CellRec) /\ m \in Nat
  BY <1>5, SpanElem
<1>7. m \in 1..m /\ m # 0
  BY <1>3, <1>6, NonEmpty
<1>8. old[m] \in CellRec
  BY <1>6, <1>7, SeqElem
<1>9. kind \in Kinds
  BY DEF TblInv, TypeOK
<1>10. string \in {"text", "up"}
  BY <1>9, TblAssumption
<1>11. c \in CellRec /\ c.col = old[m].col /\ c.hspans = old[m].hspans
  BY <1>8, <1>10 DEF CellRec
<1> HIDE DEF c
<1>12. d = [old EXCEPT ![m] = c]
  OBVIOUS
<1> HIDE DEF d
<1>13. sp = [spans[n] EXCEPT !.dat = d]
  OBVIOUS
<1> HIDE DEF sp
<1>14. Alike(spans, spans')
  BY <1>4, <1>5, <1>7, <1>11, <1>12, <1>13, CellReplaced
<1>15. spans' \in Seq(SpanRec) /\ Len(spans') = n /\ SameCells(spans[n], spans'[n])
  BY <1>5, <1>14 DEF Alike
<1>16. Cells'
  BY <1>1, <1>14, AlikeCells DEF Cells
<1>17. TypeOK'
  BY <1>1, <1>4, <1>15 DEF TblInv, TypeOK
<1>18. rp = FALSE
  <2>1. line # "layout"
    BY <1>1
  <2> QED BY <2>1, Zenon DEF TblInv, InRow
<1>19. InRow'
  BY <1>1, <1>18, Zenon DEF InRow
<1>20. Layout'
  BY <1>1 DEF TblInv, Layout
<1>21. spans' # <<>> /\ Last(spans').data /\ Last(spans').dat # <<>>
  <2>1. spans' # <<>>
    <3>1. Len(spans') # 0
      BY <1>5, <1>15
    <3> QED BY <1>15, <3>1, HasLen
  <2>2. spans'[n].dat \in Seq(CellRec) /\ Len(spans'[n].dat) = m
    BY <1>5, <1>15, SpanElem DEF SameCells
  <2>3. spans'[n].dat # <<>>
    BY <1>7, <2>2, HasLen
  <2>4. spans'[n].data
    BY <1>2, <1>15 DEF SameCells, Last
  <2> QED BY <1>15, <2>1, <2>3, <2>4 DEF Last
<1>22. Reading'
  <2>1. shown = Len(spans)
    BY <1>1 DEF TblInv, Reading
  <2> QED BY <1>1, <1>4, <1>15, <1>21, <2>1 DEF Reading
<1> QED BY <1>16, <1>17, <1>19, <1>20, <1>22 DEF TblInv

-----------------------------------------------------------------------------
\* The row after a cell was put into column k.
Ext(row, k) == IF k > Len(row) THEN Append(row, "l") ELSE row

\* The first column after the cells of d.
From(d) == IF d = <<>> THEN 1 ELSE Last(d).col + 1

\* The column that getdata() finds is behind the last cell and what it spans.
LEMMA ColumnFree ==
  ASSUME NEW row \in Seq(Key4), NEW d \in Seq(CellRec), DatOK(row, d),
         NEW k, k = SkipSpanners(row, From(d))
  PROVE  /\ k \in 1..(Len(row) + 1)
         /\ k <= Len(row) => row[k] # "s"
         /\ d # <<>> => k > Last(d).col + Last(d).hspans
<1>0. Len(row) \in Nat /\ Len(d) \in Nat
  OBVIOUS
<1>1. CASE d = <<>>
  <2>1. k = SkipSpanners(row, 1) /\ 1 \in 1..(Len(row) + 1)
    BY <1>0, <1>1 DEF From
  <2>2. k \in 1..(Len(row) + 1) /\ (k = Len(row) + 1 \/ row[k] # "s")
    BY <2>1, Skip
  <2> QED BY <1>0, <1>1, <2>2
<1>2. CASE d # <<>>
  <2> DEFINE c == Last(d)
  <2>1. Len(d) \in 1..Len(d)
    BY <1>0, <1>2, EmptyLen
  <2>2. c \in CellRec /\ CellOK(row, c)
    BY <2>1, SeqElem DEF DatOK, Last
  <2>3. k = SkipSpanners(row, c.col + 1)
    BY <1>2 DEF From
  <2> HIDE DEF c
  <2>4. c.col \in Nat /\ c.hspans \in Nat
    BY <2>2 DEF CellRec
  <2>5. c.col \in 1..Len(row) /\ c.col + c.hspans <= Len(row)
        /\ \A i \in (c.col + 1)..(c.col + c.hspans) : row[i] = "s"
    BY <2>2 DEF CellOK
  <2>6. c.col + 1 \in 1..(Len(row) + 1)
    BY <1>0, <2>4, <2>5
  <2>7. k \in (c.col + 1)..(Len(row) + 1) /\ (k = Len(row) + 1 \/ row[k] # "s")
    BY <2>3, <2>6, Skip
  <2>8. k \notin (c.col + 1)..(c.col + c.hspans)
    BY <1>0, <2>4, <2>5, <2>7
  <2>9. k > c.col + c.hspans
    BY <1>0, <2>4, <2>7, <2>8
  <2> QED BY <1>0, <2>4, <2>7, <2>9 DEF c
<1> QED BY <1>1, <1>2

\* The new cell fits into the row, with the spanners to its right.
LEMMA CellFits ==
  ASSUME NEW row \in Seq(Key4), NEW k \in 1..Len(row), row[k] # "s",
         NEW c \in CellRec, c.col = k, c.hspans = Hspans(row, k)
  PROVE  CellOK(row, c)
<1> DEFINE j == SkipSpanners(row, k + 1)
<1>0. Len(row) \in Nat
  OBVIOUS
<1>1. k + 1 \in 1..(Len(row) + 1)
  BY <1>0
<1>2. j \in (k + 1)..(Len(row) + 1) /\ \A i \in (k + 1)..(j - 1) : row[i] = "s"
  BY <1>1, Skip
<1>3. c.hspans = j - (k + 1)
  BY DEF Hspans
<1> HIDE DEF j
<1>4. k + c.hspans = j - 1
  BY <1>0, <1>2, <1>3
<1> QED BY <1>0, <1>2, <1>4 DEF CellOK

\* A cell to the right of all others can be added to a data row.
LEMMA DatAppended ==
  ASSUME NEW row \in Seq(Key4), NEW d \in Seq(CellRec), DatOK(row, d), NEW c \in CellRec,
         CellOK(row, c), d # <<>> => c.col > Last(d).col + Last(d).hspans
  PROVE  DatOK(row, Append(d, c))
<1> DEFINE e == Append(d, c)
<1>1. Len(e) = Len(d) + 1 /\ e[Len(d) + 1] = c /\ \A j \in 1..Len(d) : e[j] = d[j]
  OBVIOUS
<1>2. Len(d) \in Nat
  OBVIOUS
<1> HIDE DEF e
<1> SUFFICES ASSUME NEW j \in 1..Len(e)
             PROVE  CellOK(row, e[j]) /\ (j > 1 => e[j].col > e[j - 1].col + e[j - 1].hspans)
  BY DEF DatOK, e
<1>3. CASE j \in 1..Len(d)
  <2>1. j > 1 => j - 1 \in 1..Len(d)
    BY <1>2, <1>3
  <2> QED BY <1>1, <1>3, <2>1 DEF DatOK
<1>4. CASE j = Len(d) + 1
  <2>1. j > 1 => d # <<>> /\ j - 1 = Len(d) /\ Len(d) \in 1..Len(d)
    BY <1>2, <1>4, EmptyLen
  <2> QED BY <1>1, <1>4, <2>1 DEF Last
<1> QED BY <1>1, <1>2, <1>3, <1>4

\* The steps of getdata() that store a cell: the layout row grows to ext, and the
\* data row gets the new cell.
LEMMA CellStored ==
  ASSUME TblInv, spans # <<>>,
         NEW k, NEW ext, NEW S, NEW c \in CellRec,
         LET sp == Last(spans)
             row == rows[sp.layout]
         IN /\ k = SkipSpanners(row, From(sp.dat))
            /\ k <= Len(row) \/ Len(row) < cols
            /\ ext = Ext(row, k)
            /\ rows' = [rows EXCEPT ![sp.layout] = ext],
         Alike(spans, S), S[Len(spans)] = spans[Len(spans)],
         c.col = k, c.hspans = Hspans(ext, k),
         spans' = [S EXCEPT ![Len(spans)].dat = Append(@, c)]
  PROVE  /\ rows' \in Seq(Seq(Key4)) /\ spans' \in Seq(SpanRec) /\ Cells'
         /\ Len(rows') = Len(rows) /\ Len(spans') = Len(spans) /\ Len(spans) # 0
         /\ \A r \in 1..Len(rows) : /\ Len(rows'[r]) <= cols
                                    /\ rows'[r] = <<>> => rows[r] = <<>>
         /\ Last(spans').data = Last(spans).data /\ Last(spans').dat # <<>>
<1> DEFINE n == Len(spans)
           sp == spans[n]
           l == sp.layout
           row == rows[l]
           d == sp.dat
           e == Append(d, c)
           sp2 == [S[n] EXCEPT !.dat = e]
<1>1. /\ k = SkipSpanners(row, From(d)) /\ (k <= Len(row) \/ Len(row) < cols) /\ ext = Ext(row, k)
      /\ rows' = [rows EXCEPT ![l] = ext]
  BY DEF Last
<1>2. rows \in Seq(Seq(Key4)) /\ spans \in Seq(SpanRec) /\ cols \in Nat /\ Len(rows) \in Nat
  BY Types
<1>3. n \in 1..n /\ n \in Nat \ {0}
  BY <1>2, NonEmpty
<1>4. sp \in SpanRec /\ d \in Seq(CellRec) /\ l \in Nat
  BY <1>2, <1>3, SpanElem
<1>5. l \in 1..Len(rows) /\ row # <<>> /\ DatOK(row, d)
  BY <1>3 DEF TblInv, Cells, SpanOK
<1>6. row \in Seq(Key4) /\ Len(row) <= cols
  BY <1>2, <1>5, SeqElem DEF TblInv, Layout
<1>7. S \in Seq(SpanRec) /\ Len(S) = n /\ S[n] = sp /\ \A i \in 1..n : SpanOK(rows, S[i])
  <2>1. S \in Seq(SpanRec) /\ Len(S) = n
    BY DEF Alike
  <2> QED BY <2>1, AlikeCells
<1>8. spans' = [S EXCEPT ![n] = sp2]
  BY <1>7
<1> HIDE DEF row, d, l, sp
<1>9. k \in 1..(Len(row) + 1) /\ (k <= Len(row) => row[k] # "s")
      /\ (d # <<>> => k > Last(d).col + Last(d).hspans)
  BY <1>1, <1>4, <1>5, <1>6, ColumnFree
<1>10. Len(row) \in Nat
  BY <1>6
<1>11. ext \in Seq(Key4) /\ Len(row) <= Len(ext) /\ Len(ext) <= cols /\ k \in 1..Len(ext) /\ ext[k] # "s"
       /\ \A i \in 1..Len(row) : ext[i] = row[i]
  <2>1. CASE k <= Len(row)
    <3>1. ext = row
      BY <1>1, <1>9, <1>10, <2>1 DEF Ext
    <3> QED BY <1>6, <1>9, <1>10, <2>1, <3>1
  <2>2. CASE ~(k <= Len(row))
    <3>1. k = Len(row) + 1 /\ Len(row) < cols /\ ext = Append(row, "l")
      BY <1>1, <1>9, <1>10, <2>2 DEF Ext
    <3>2. "l" \in Key4 /\ "l" # "s"
      BY DEF Key4
    <3>3. ext \in Seq(Key4) /\ Len(ext) = Len(row) + 1 /\ ext[Len(row) + 1] = "l"
          /\ \A i \in 1..Len(row) : ext[i] = row[i]
      <4>1. Plus(Key4, row, "l", ext)
        BY <1>6, <3>1, <3>2, Appended
      <4> QED BY <4>1 DEF Plus
    <3> QED BY <1>2, <1>10, <3>1, <3>2, <3>3
  <2> QED BY <2>1, <2>2
<1>12. rows' \in Seq(Seq(Key4)) /\ Len(rows') = Len(rows)
       /\ \A r \in 1..Len(rows) : rows'[r] = IF r = l THEN ext ELSE rows[r]
  <2>1. Put(Seq(Key4), rows, l, ext, rows')
    BY <1>1, <1>2, <1>5, <1>11, Replaced
  <2> QED BY <2>1 DEF Put
<1>13. Grown(rows, rows')
  <2> SUFFICES ASSUME NEW r \in 1..Len(rows)
               PROVE  /\ r \in 1..Len(rows') /\ Len(rows[r]) <= Len(rows'[r])
                      /\ \A i \in 1..Len(rows[r]) : rows'[r][i] = rows[r][i]
    BY DEF Grown
  <2>1. CASE r = l
    BY <1>11, <1>12, <2>1 DEF row
  <2>2. CASE r # l
    <3>1. rows[r] \in Seq(Key4) /\ rows'[r] = rows[r]
      BY <1>2, <1>12, <2>2, SeqElem
    <3> QED BY <1>12, <3>1
  <2> QED BY <2>1, <2>2
<1>14. e \in Seq(CellRec) /\ Len(e) = Len(d) + 1 /\ Len(d) \in Nat
  BY <1>4
<1>15. DatOK(ext, e)
  <2>1. DatOK(ext, d)
    BY <1>4, <1>5, <1>6, <1>11, DatGrows
  <2>2. CellOK(ext, c)
    BY <1>11, CellFits
  <2>3. d # <<>> => c.col > Last(d).col + Last(d).hspans
    BY <1>9
  <2> QED BY <1>4, <1>11, <2>1, <2>2, <2>3, DatAppended
<1> HIDE DEF e
<1>16. sp2 \in SpanRec /\ sp2.layout = l /\ sp2.dat = e /\ sp2.data = sp.data
  BY <1>4, <1>7, <1>14 DEF SpanRec, l
<1> HIDE DEF sp2
<1>17. spans' \in Seq(SpanRec) /\ Len(spans') = n
       /\ \A i \in 1..n : spans'[i] = IF i = n THEN sp2 ELSE S[i]
  <2>1. Put(SpanRec, S, n, sp2, spans')
    BY <1>3, <1>7, <1>8, <1>16, Replaced
  <2> QED BY <1>7, <2>1 DEF Put
<1>18. Cells'
  <2> SUFFICES ASSUME NEW i \in 1..n PROVE SpanOK(rows', spans'[i])
    BY <1>17 DEF Cells
  <2>1. CASE i = n
    <3>1. ext # <<>>
      <4>1. Len(row) # 0
        BY <1>5, <1>6, NonEmpty
      <4>2. Len(ext) # 0
        BY <1>10, <1>11, <4>1
      <4> QED BY <1>11, <4>2, HasLen
    <3>2. rows'[l] = ext /\ l \in 1..Len(rows')
      BY <1>5, <1>12
    <3> QED BY <1>15, <1>16, <1>17, <2>1, <3>1, <3>2 DEF SpanOK
  <2>2. CASE i # n
    <3>1. spans'[i] = S[i] /\ S[i] \in SpanRec /\ SpanOK(rows, S[i])
      BY <1>7, <1>17, <2>2, SpanElem
    <3> QED BY <1>2, <1>12, <1>13, <3>1, SpanGrows
  <2> QED BY <2>1, <2>2
<1>19. ASSUME NEW r \in 1..Len(rows)
       PROVE  Len(rows'[r]) <= cols /\ (rows'[r] = <<>> => rows[r] = <<>>)
  <2>1. CASE r = l
    <3>1. ext # <<>>
      <4>1. Len(ext) # 0
        BY <1>11
      <4> QED BY <1>11, <4>1, HasLen
    <3> QED BY <1>11, <1>12, <2>1, <3>1
  <2>2. CASE r # l
    BY <1>12, <2>2 DEF TblInv, Layout
  <2> QED BY <2>1, <2>2
<1>20. e # <<>>
  <2>1. Len(e) # 0
    BY <1>14
  <2> QED BY <1>14, <2>1, HasLen
<1>21. Last(spans').data = Last(spans).data /\ Last(spans').dat # <<>>
  <2>1. Last(spans') = sp2 /\ Last(spans) = sp
    BY <1>3, <1>17 DEF Last, sp
  <2> QED BY <1>16, <1>20, <2>1
<1> QED BY <1>3, <1>12, <1>17, <1>18, <1>19, <1>21

\* getdata() keeps the invariant: it places the cell on a layout cell of its own, adds
\* one if the row is too short, or discards the rest of the line.
LEMMA getdataOK ==
  ASSUME TblInv, NEW string \in kind.strings, getdata(string)
  PROVE  TblInv'
<1> DEFINE n == Len(spans)
           sp == spans[n]
           row == rows[sp.layout]
           s0 == SkipSpanners(row, From(sp.dat))
           k == Column(row, s0)
           ext == Ext(row, k)
           up == k # 0 /\ (string = "up" \/ ext[k] = "^")
           from == IF up THEN Extended(k) ELSE 0
           null == from # 0 /\ Above(from, k) # 0
                   /\ spans[from].dat[Above(from, k)].string = "NULL"
           new == [col |-> k, string |-> IF string = "T{" THEN "NULL" ELSE string,
                   hspans |-> Hspans(ext, k), vspans |-> 0]
           S == IF up THEN Vspans(k) ELSE spans
<1>1. /\ line = "data" /\ UNCHANGED <<kind, cols, rp>>
      /\ CASE row = <<>> \/ null ->
                /\ fault' = IF null THEN "string" ELSE "pointer"
                /\ line' = "start" /\ UNCHANGED <<part, rows, spans, shown>>
           [] row # <<>> /\ k = 0 ->
                /\ line' = "start" /\ shown' = n
                /\ UNCHANGED <<part, rows, spans, fault>>
           [] OTHER ->
                /\ rows' = [rows EXCEPT ![sp.layout] = ext]
                /\ spans' = [S EXCEPT ![n].dat = Append(@, new)]
                /\ part' = IF string = "T{" THEN "CDATA" ELSE part
                /\ UNCHANGED <<shown, line, fault>>
  BY DEF getdata, From, Ext, roff_addtbl
<1>2. part \in {"DATA", "CDATA"} /\ spans # <<>> /\ Last(spans).data
  BY <1>1 DEF TblInv, Reading
<1>3. rows \in Seq(Seq(Key4)) /\ spans \in Seq(SpanRec) /\ Len(rows) \in Nat /\ n \in Nat
  BY Types
<1>4. n \in 1..n
  BY <1>2, <1>3, NonEmpty
<1>5. row # <<>>
  BY <1>4 DEF TblInv, Cells, SpanOK
<1>6. rp = FALSE
  <2>1. line # "layout"
    BY <1>1
  <2> QED BY <2>1, Zenon DEF TblInv, InRow
<1>7. InRow'
  BY <1>1, <1>6, Zenon DEF InRow
<1>n. null => k # 0
  <2> HIDE DEF k
  <2> QED OBVIOUS
<1> HIDE DEF null
<1>8. CASE null
  <2>1. fault' = "string" /\ line' = "start" /\ UNCHANGED <<kind, cols, part, rows, spans, shown>>
    <3> HIDE DEF k, row, S, new, ext
    <3> QED BY <1>1, <1>5, <1>8, <1>n
  <2>2. TypeOK'
    BY <2>1 DEF TblInv, TypeOK
  <2>3. Layout' /\ Cells'
    BY <2>1 DEF TblInv, Layout, Cells
  <2>4. Reading'
    BY <2>1 DEF TblInv, Reading
  <2> QED BY <1>7, <2>2, <2>3, <2>4 DEF TblInv
<1>9. CASE ~null /\ k = 0
  <2>1. line' = "start" /\ shown' = n /\ UNCHANGED <<kind, cols, part, rows, spans, fault>>
    BY <1>1, <1>5, <1>9
  <2>2. TypeOK'
    BY <1>3, <2>1 DEF TblInv, TypeOK
  <2>3. Layout' /\ Cells'
    BY <2>1 DEF TblInv, Layout, Cells
  <2>4. Reading'
    BY <2>1 DEF TblInv, Reading
  <2> QED BY <1>7, <2>2, <2>3, <2>4 DEF TblInv
<1>10. CASE ~null /\ k # 0
  <2>1. /\ rows' = [rows EXCEPT ![sp.layout] = ext]
        /\ spans' = [S EXCEPT ![n].dat = Append(@, new)]
        /\ part' = (IF string = "T{" THEN "CDATA" ELSE part)
        /\ UNCHANGED <<kind, cols, shown, line, fault>>
    BY <1>1, <1>5, <1>10
  <2>2. k = s0 /\ (k <= Len(row) \/ Len(row) < cols)
    <3> HIDE DEF s0, row
    <3> QED BY <1>10 DEF Column
  <2>3. sp \in SpanRec /\ sp.dat \in Seq(CellRec) /\ sp.layout \in 1..Len(rows)
        /\ DatOK(row, sp.dat) /\ row \in Seq(Key4)
    <3>1. sp \in SpanRec /\ sp.dat \in Seq(CellRec)
      BY <1>3, <1>4, SpanElem
    <3>2. sp.layout \in 1..Len(rows) /\ DatOK(row, sp.dat)
      BY <1>4 DEF TblInv, Cells, SpanOK
    <3> QED BY <1>3, <3>1, <3>2, SeqElem
  <2> HIDE DEF k
  <2>4. k \in 1..(Len(row) + 1) /\ Len(row) \in Nat /\ (k <= Len(row) => row[k] # "s")
    <3> HIDE DEF row, sp
    <3> QED BY <2>2, <2>3, ColumnFree
  <2>5. k \in Nat
    BY <2>4
  <2>6. Alike(spans, S) /\ S[n] = spans[n]
    <3>1. CASE up
      BY <1>2, <1>3, <2>5, <3>1, VspansKeeps
    <3>2. CASE ~up
      <4>1. S = spans
        BY <3>2
      <4>2. \A m \in 1..Len(spans) : SameCells(spans[m], spans[m])
        BY DEF SameCells
      <4> HIDE DEF S
      <4> QED BY <1>3, <4>1, <4>2 DEF Alike
    <3> QED BY <3>1, <3>2
  <2>7. Hspans(ext, k) \in Nat
    <3>1. ext \in Seq(Key4) /\ k \in 1..Len(ext)
      <4>1. CASE k > Len(row)
        <5>1. ext = Append(row, "l") /\ "l" \in Key4
          BY <4>1 DEF Ext, Key4
        <5>2. Plus(Key4, row, "l", ext)
          BY <2>3, <5>1, Appended
        <5> HIDE DEF ext, row
        <5> QED BY <2>4, <5>2 DEF Plus
      <4>2. CASE ~(k > Len(row))
        <5>1. ext = row
          BY <4>2 DEF Ext
        <5> HIDE DEF ext, row
        <5> QED BY <2>3, <2>4, <4>2, <5>1
      <4> QED BY <4>1, <4>2
    <3> HIDE DEF ext
    <3>2. Len(ext) \in Nat /\ k + 1 \in 1..(Len(ext) + 1)
      BY <3>1
    <3>3. SkipSpanners(ext, k + 1) \in (k + 1)..(Len(ext) + 1)
      BY <3>1, <3>2, Skip
    <3> QED BY <2>5, <3>2, <3>3 DEF Hspans
  <2>8. new \in CellRec /\ new.col = k /\ new.hspans = Hspans(ext, k)
    <3>1. kind \in Kinds
      BY DEF TblInv, TypeOK
    <3>2. string \in {"text", "up", "T{"}
      BY <3>1, TblAssumption
    <3>3. (IF string = "T{" THEN "NULL" ELSE string) \in {"NULL", "up", "text"}
      BY <3>2
    <3> HIDE DEF ext
    <3> QED BY <2>5, <2>7, <3>3 DEF CellRec
  <2>9. ext = Ext(row, k)
    OBVIOUS
  <2> HIDE DEF ext, new, S
  <2>10. LET p == Last(spans)
             q == rows[p.layout]
         IN /\ k = SkipSpanners(q, From(p.dat))
            /\ k <= Len(q) \/ Len(q) < cols
            /\ ext = Ext(q, k)
            /\ rows' = [rows EXCEPT ![p.layout] = ext]
    BY <2>1, <2>2, <2>9 DEF Last
  <2>11. /\ rows' \in Seq(Seq(Key4)) /\ spans' \in Seq(SpanRec) /\ Cells'
         /\ Len(rows') = Len(rows) /\ Len(spans') = Len(spans) /\ Len(spans) # 0
         /\ \A r \in 1..Len(rows) : /\ Len(rows'[r]) <= cols
                                    /\ rows'[r] = <<>> => rows[r] = <<>>
         /\ Last(spans').data = Last(spans).data /\ Last(spans').dat # <<>>
    BY <1>2, <2>1, <2>6, <2>8, <2>10, CellStored
  <2>12. TypeOK'
    BY <1>2, <2>1, <2>11 DEF TblInv, TypeOK
  <2>13. Layout'
    <3>1. part' \in {"DATA", "CDATA"} /\ line' = "data"
      BY <1>1, <1>2, <2>1
    <3>2. \A r \in 1..Len(rows) : rows[r] # <<>>
      BY <1>2 DEF TblInv, Layout
    <3>3. rows' # <<>>
      <4>1. Len(rows) # 0
        BY <1>3, <2>3
      <4> QED BY <2>11, <4>1, HasLen
    <3> QED BY <2>1, <2>11, <3>1, <3>2, <3>3 DEF Layout
  <2>14. Reading'
    <3>1. part' \in {"DATA", "CDATA"} /\ line' = "data"
      BY <1>1, <1>2, <2>1
    <3>2. spans' # <<>>
      BY <2>11, HasLen
    <3>3. fault' # "pointer"
      BY <2>1 DEF TblInv, Reading
    <3> QED BY <1>2, <2>11, <3>1, <3>2, <3>3 DEF Reading
  <2> QED BY <1>7, <2>11, <2>12, <2>13, <2>14 DEF TblInv
<1> QED BY <1>8, <1>9, <1>10

-----------------------------------------------------------------------------
\* The invariant only depends on the variables of the parser.
LEMMA StutterOK == ASSUME TblInv, UNCHANGED vars PROVE TblInv'
BY DEF TblInv, vars, TypeOK, InRow, Layout, Cells, Reading

\* The invariant is inductive: no line of a table, in any order, violates it.
LEMMA StepOK == TblInv /\ [Next]_vars => TblInv'
<1> SUFFICES ASSUME TblInv, [Next]_vars PROVE TblInv'
  OBVIOUS
<1>1. CASE TS \/ TE \/ T_
  BY <1>1, RequestOK
<1>2. CASE ReadLayout \/ Comma \/ LayoutEndsLine \/ DataEndsLine \/ \E more \in BOOLEAN : CdataEnds(more)
  BY <1>2, LinesOK
<1>3. CASE NoCell
  BY <1>3, NoCellOK
<1>4. CASE LayoutEnds
  BY <1>4, LayoutEndsOK
<1>5. CASE \E key \in kind.keys : Cell(key)
  BY <1>5, CellAdded
<1>6. CASE Rule
  BY <1>6, RuleOK
<1>7. CASE \E row \in 1..kind.rows : ReadData(row)
  <2>1. PICK row \in 1..kind.rows : ReadData(row)
    BY <1>7
  <2>2. kind \in Kinds
    BY DEF TblInv, TypeOK
  <2>3. kind.rows \in Nat
    BY <2>2, TblAssumption
  <2>4. row \in Nat
    BY <2>3
  <2> QED BY <2>1, <2>4, ReadDataOK
<1>8. CASE \E string \in kind.strings : getdata(string)
  BY <1>8, getdataOK
<1>9. CASE \E string \in kind.strings \ {"T{"} : CdataText(string)
  BY <1>9, CdataTextOK
<1>10. CASE UNCHANGED vars
  BY <1>10, StutterOK
<1> QED BY <1>1, <1>2, <1>3, <1>4, <1>5, <1>6, <1>7, <1>8, <1>9, <1>10 DEF Next

\* The inductive invariant of the tbl(7) parser holds for tables of any size, whatever
\* lines they consist of and whatever getdata() added to the layout on the way.
THEOREM TblInvariant == Spec => []TblInv
<1>1. Init => TblInv
  BY InitOK
<1>2. TblInv /\ [Next]_vars => TblInv'
  BY StepOK
<1> QED BY <1>1, <1>2, PTL DEF Spec

\* Every data cell that getdata() made lies in the columns of its layout row, to the right
\* of the cell before it and not on a spanner, in tables of any size.
THEOREM CellsPlacedHolds == Spec => []CellsPlaced
<1>1. TblInv => CellsPlaced
  BY InvImplies
<1> QED BY <1>1, TblInvariant, PTL

\* After each line, every data row is in the syntax tree and has its layout row, and
\* tbl_data(), tbl_cdata() and getdata() follow no null pointer to a row or cell.
THEOREM RowsWholeHolds == Spec => []RowsWhole
<1>1. TblInv => RowsWhole
  BY InvImplies
<1> QED BY <1>1, TblInvariant, PTL
=============================================================================
