--------------------------- MODULE RowMergerProofs ---------------------------
(***************************************************************************)
(* Proofs about the row merger.  Whatever chunks and markers a server      *)
(* sends, in whatever order, the merger keeps its types, the scan order,   *)
(* the accounting of split values and the shape of rows, and puts a split  *)
(* value together exactly as it was sent.  Of a server that keeps the      *)
(* chunk protocol it refuses nothing, and rebuilds the rows as they were   *)
(* sent.  The invariant of that half says where the merger is while the    *)
(* server is between rows, within a row and within a value: the cells sent *)
(* are the active row's, but for the last one as long as it is split.      *)
(***************************************************************************)
EXTENDS RowEncoding, SharedLemmas

-----------------------------------------------------------------------------
(* Where a cell goes.                                                      *)

ColumnsOK(columns) ==
  /\ UniqueColumns(columns)
  /\ \A c \in DOMAIN columns : columns[c].cells # <<>>

FamiliesOK(families) ==
  /\ UniqueFamilies(families)
  /\ \A f \in DOMAIN families : families[f].columns # <<>> /\ ColumnsOK(families[f].columns)

\* Adding a cell keeps the columns of a family well formed.
LEMMA AddToColumnsOK ==
  ASSUME NEW columns \in Seq(Column), ColumnsOK(columns),
         NEW qualifier \in Qualifiers, NEW cell \in Cell
  PROVE  /\ AddToColumns(columns, qualifier, cell) \in Seq(Column)
         /\ AddToColumns(columns, qualifier, cell) # <<>>
         /\ ColumnsOK(AddToColumns(columns, qualifier, cell))
<1> DEFINE added == AddToColumns(columns, qualifier, cell)
           new == [qualifier |-> qualifier, cells |-> <<cell>>]
           Goal == added \in Seq(Column) /\ added # <<>> /\ ColumnsOK(added)
<1>1. ASSUME NEW i \in DOMAIN columns, columns[i].qualifier = qualifier,
             added = [columns EXCEPT ![i] = [columns[i] EXCEPT !.cells = Append(columns[i].cells, cell)]]
      PROVE  Goal
  <2> DEFINE grown == [columns[i] EXCEPT !.cells = Append(columns[i].cells, cell)]
  <2>1. columns[i] \in Column
    OBVIOUS
  <2>2. grown \in Column /\ grown.qualifier = qualifier /\ grown.cells # <<>>
    <3>1. columns[i].cells \in Seq(Cell)
      BY <2>1 DEF Column
    <3>2. Append(columns[i].cells, cell) \in Seq(Cell) /\ Append(columns[i].cells, cell) # <<>>
      BY <3>1, AppendProperties
    <3> QED BY <1>1, <2>1, <3>2 DEF Column
  <2>3. added = [columns EXCEPT ![i] = grown]
    BY <1>1
  <2> HIDE DEF grown, added
  <2>4. added \in Seq(Column) /\ Len(added) = Len(columns) /\ DOMAIN added = DOMAIN columns
    BY <2>2, <2>3
  <2>5. \A j \in DOMAIN columns : added[j] = IF j = i THEN grown ELSE columns[j]
    BY <2>3
  <2>6. UniqueColumns(added)
    BY <1>1, <2>2, <2>4, <2>5 DEF UniqueColumns, ColumnsOK
  <2>7. \A c \in DOMAIN added : added[c].cells # <<>>
    BY <2>2, <2>4, <2>5 DEF ColumnsOK
  <2>8. added # <<>>
    BY <2>4
  <2> QED BY <2>4, <2>6, <2>7, <2>8 DEF ColumnsOK
<1>2. ASSUME \A i \in DOMAIN columns : columns[i].qualifier # qualifier,
             added = Append(columns, new)
      PROVE  Goal
  <2>1. new \in Column /\ new.qualifier = qualifier /\ new.cells # <<>>
    BY DEF Column
  <2> HIDE DEF new, added
  <2>2. /\ added \in Seq(Column) /\ added # <<>> /\ Len(added) = Len(columns) + 1
        /\ \A j \in 1..Len(columns) : added[j] = columns[j]
        /\ added[Len(columns) + 1] = new
    BY <1>2, <2>1, AppendProperties
  <2>3. UniqueColumns(added)
    BY <1>2, <2>1, <2>2 DEF UniqueColumns, ColumnsOK
  <2>4. \A c \in DOMAIN added : added[c].cells # <<>>
    BY <2>1, <2>2 DEF ColumnsOK
  <2> QED BY <2>2, <2>3, <2>4 DEF ColumnsOK
<1> QED BY <1>1, <1>2, AddToColumnsCases

\* Adding a cell keeps the families of a row well formed and leaves it with
\* at least one cell.
LEMMA AddCellOK ==
  ASSUME NEW families \in Seq(Family), FamiliesOK(families),
         NEW family \in Families, NEW qualifier \in Qualifiers, NEW cell \in Cell
  PROVE  /\ AddCell(families, family, qualifier, cell) \in Seq(Family)
         /\ AddCell(families, family, qualifier, cell) # <<>>
         /\ FamiliesOK(AddCell(families, family, qualifier, cell))
<1> DEFINE added == AddCell(families, family, qualifier, cell)
           new == [name |-> family, columns |-> AddToColumns(<<>>, qualifier, cell)]
           Goal == added \in Seq(Family) /\ added # <<>> /\ FamiliesOK(added)
           FamilyOK(f) == f.columns # <<>> /\ ColumnsOK(f.columns)
<1>1. ASSUME NEW i \in DOMAIN families, families[i].name = family,
             added = Grown(families, i, qualifier, cell)
      PROVE  Goal
  <2> DEFINE grown == [families[i] EXCEPT !.columns = AddToColumns(families[i].columns, qualifier, cell)]
  <2>1. families[i] \in Family
    OBVIOUS
  <2>2. grown \in Family /\ grown.name = family /\ FamilyOK(grown)
    <3>1. families[i].columns \in Seq(Column) /\ ColumnsOK(families[i].columns)
      BY <2>1 DEF Family, FamiliesOK
    <3>2. /\ AddToColumns(families[i].columns, qualifier, cell) \in Seq(Column)
          /\ AddToColumns(families[i].columns, qualifier, cell) # <<>>
          /\ ColumnsOK(AddToColumns(families[i].columns, qualifier, cell))
      BY <3>1, AddToColumnsOK
    <3> QED BY <1>1, <2>1, <3>2 DEF Family
  <2>3. added = [families EXCEPT ![i] = grown]
    BY <1>1 DEF Grown
  <2> HIDE DEF grown, added
  <2>4. added \in Seq(Family) /\ Len(added) = Len(families) /\ DOMAIN added = DOMAIN families
    BY <2>2, <2>3
  <2>5. \A j \in DOMAIN families : added[j] = IF j = i THEN grown ELSE families[j]
    BY <2>3
  <2>6. UniqueFamilies(added)
    BY <1>1, <2>2, <2>4, <2>5 DEF UniqueFamilies, FamiliesOK
  <2>7. \A f \in DOMAIN added : added[f].columns # <<>> /\ ColumnsOK(added[f].columns)
    BY <2>2, <2>4, <2>5 DEF FamiliesOK
  <2>8. added # <<>>
    BY <2>4
  <2> QED BY <2>4, <2>6, <2>7, <2>8 DEF FamiliesOK
<1>2. ASSUME \A i \in DOMAIN families : families[i].name # family,
             added = Extended(families, family, qualifier, cell)
      PROVE  Goal
  <2>1. new \in Family /\ new.name = family /\ FamilyOK(new)
    <3>1. <<>> \in Seq(Column) /\ ColumnsOK(<<>>)
      BY DEF ColumnsOK, UniqueColumns
    <3>2. /\ AddToColumns(<<>>, qualifier, cell) \in Seq(Column)
          /\ AddToColumns(<<>>, qualifier, cell) # <<>>
          /\ ColumnsOK(AddToColumns(<<>>, qualifier, cell))
      BY <3>1, AddToColumnsOK
    <3> QED BY <3>2 DEF Family
  <2>a. added = Append(families, new)
    BY <1>2 DEF Extended
  <2> HIDE DEF new, added
  <2>2. /\ added \in Seq(Family) /\ added # <<>> /\ Len(added) = Len(families) + 1
        /\ \A j \in 1..Len(families) : added[j] = families[j]
        /\ added[Len(families) + 1] = new
    BY <2>a, <2>1, AppendProperties
  <2>3. UniqueFamilies(added)
    BY <1>2, <2>1, <2>2 DEF UniqueFamilies, FamiliesOK
  <2>4. \A f \in DOMAIN added : added[f].columns # <<>> /\ ColumnsOK(added[f].columns)
    BY <2>1, <2>2 DEF FamiliesOK
  <2> QED BY <2>2, <2>3, <2>4 DEF FamiliesOK
<1> QED BY <1>1, <1>2, AddCellCases

-----------------------------------------------------------------------------
(* The inductive invariant, as a predicate of the merger and of what a     *)
(* call on it gives.                                                       *)

Accounting(m) ==
  /\ Len(m.value) + m.remaining_value_bytes = m.expected_value_size
  /\ m.value # <<>>

Clean(m) ==
  /\ m.row = EmptyRow /\ m.meta = NoMeta /\ m.value = NoValue
  /\ m.expected_value_size = 0 /\ m.remaining_value_bytes = 0

\* Inside a row: its key is ahead of every row and marker before it.
Active(m) ==
  /\ m.row.key \in Keys /\ m.family \in Families /\ m.qualifier \in Qualifiers
  /\ ~OutOfOrder(m, m.row.key)
  /\ FamiliesOK(m.row.families)

MergerOK(m) ==
  /\ m \in MergerType
  /\ m.state = "NewRow" => Clean(m)
  /\ m.state # "NewRow" => Active(m)
  /\ m.state = "CellValue" => Accounting(m)

RowOK(row) == row \in Row /\ row.families # <<>> /\ FamiliesOK(row.families)

\* A call leaves a good merger and hands out nothing, or one good row that is
\* ahead of everything before it and is now the last complete one.
OutcomeOK(m, outcome) ==
  /\ MergerOK(outcome.merger)
  /\ outcome.issue \in Issues \cup {"None"}
  /\ \/ outcome.row = {} /\ outcome.merger.last_complete_key = m.last_complete_key
     \/ \E row \in Row :
          /\ outcome.row = {row} /\ RowOK(row)
          /\ outcome.merger.last_complete_key = row.key
          /\ ~OutOfOrder(m, row.key)

\* No key of a chunk stands for the empty key or for "no key yet".
LEMMA KeysAreKeys == \A k \in Keys : k \in Nat /\ k # EmptyKey /\ k # NoKey
BY KeysAssumption DEF Key, EmptyKey, NoKey

\* The cleared fields have their types.
LEMMA EmptyTypes == EmptyRow \in ActiveRow /\ NoValue \in Seq(Bytes) /\ NoMeta \in Metas
BY ValuesAssumption DEF EmptyRow, ActiveRow, NoValue

\* clear_cell resets the cell under construction and nothing else.
LEMMA ClearCellFields ==
  ASSUME NEW m \in MergerType
  PROVE  LET c == ClearCell(m)
         IN  /\ c \in MergerType
             /\ c.meta = NoMeta /\ c.value = NoValue
             /\ c.expected_value_size = 0 /\ c.remaining_value_bytes = 0
             /\ c.reversed = m.reversed /\ c.state = m.state /\ c.row = m.row
             /\ c.last_complete_key = m.last_complete_key
             /\ c.family = m.family /\ c.qualifier = m.qualifier
BY EmptyTypes DEF ClearCell, MergerType

\* Dropping the active row leaves nothing of it.
LEMMA ClearActiveRowOK ==
  ASSUME NEW m \in MergerType
  PROVE  MergerOK(ClearActiveRow(m)) /\ ClearActiveRow(m).last_complete_key = m.last_complete_key
<1> DEFINE d == ClearCell(m)
           c == ClearActiveRow(m)
<1>1. /\ d \in MergerType /\ d.meta = NoMeta /\ d.value = NoValue
      /\ d.expected_value_size = 0 /\ d.remaining_value_bytes = 0
      /\ d.last_complete_key = m.last_complete_key
  BY ClearCellFields
<1>2. c = [d EXCEPT !.row = EmptyRow, !.family = NoName, !.qualifier = NoName, !.state = "NewRow"]
  BY DEF ClearActiveRow
<1> HIDE DEF c, d
<1>3. c \in MergerType
  BY <1>1, <1>2, EmptyTypes DEF MergerType
<1>4. Clean(c) /\ c.state = "NewRow" /\ c.last_complete_key = m.last_complete_key
  BY <1>1, <1>2 DEF Clean, MergerType
<1> QED BY <1>3, <1>4 DEF MergerOK, c

\* A rejected call may leave the merger as any good merger.
LEMMA RejectOK ==
  ASSUME NEW m, MergerOK(m), NEW issue \in Issues
  PROVE  OutcomeOK(m, Reject(m, issue))
BY DEF OutcomeOK, Reject

\* A reset chunk inside a row drops the row, or is refused if it carries data.
LEMMA ResetRowOK ==
  ASSUME NEW m, MergerOK(m), NEW chunk
  PROVE  OutcomeOK(m, ResetRow(m, chunk))
<1>1. CASE HasData(chunk)
  BY <1>1, RejectOK DEF ResetRow, Issues
<1>2. CASE ~HasData(chunk)
  <2>1. MergerOK(ClearActiveRow(m)) /\ ClearActiveRow(m).last_complete_key = m.last_complete_key
    BY ClearActiveRowOK DEF MergerOK
  <2> QED BY <1>2, <2>1 DEF ResetRow, Accept, OutcomeOK
<1> QED BY <1>1, <1>2

\* The cell joins the row, which goes on or is complete.
LEMMA EndCellOK ==
  ASSUME NEW m \in MergerType, Active(m), NEW chunk
  PROVE  OutcomeOK(m, EndCell(m, chunk))
<1> DEFINE cell == [meta |-> m.meta, value |-> m.value]
           families == AddCell(m.row.families, m.family, m.qualifier, cell)
           row == [key |-> m.row.key, families |-> families]
           f == FinishCell(m)
<1>1. families \in Seq(Family) /\ families # <<>> /\ FamiliesOK(families)
  <2>1. cell \in Cell /\ m.row.families \in Seq(Family)
    BY DEF Cell, MergerType, ActiveRow
  <2> QED BY <2>1, AddCellOK DEF Active
<1>2. f = [m EXCEPT !.row = row, !.value = NoValue]
  <2>1. m.row \in ActiveRow /\ "row" \in DOMAIN m
    BY DEF MergerType
  <2>2. [m.row EXCEPT !.families = families] = row
    <3> HIDE DEF families
    <3> QED BY <2>1 DEF ActiveRow
  <2>3. f = [m EXCEPT !.row = [m.row EXCEPT !.families = families], !.value = NoValue]
    BY <2>1 DEF FinishCell
  <2> QED BY <2>2, <2>3
<1>3. /\ row \in ActiveRow /\ row.key = m.row.key /\ row.families = families
      /\ row \in Row /\ RowOK(row)
  <2> HIDE DEF families
  <2> QED BY <1>1 DEF Active, ActiveRow, Row, RowOK
<1> HIDE DEF families, row, f
<1>4. /\ f \in MergerType /\ f.row = row /\ f.family = m.family /\ f.qualifier = m.qualifier
      /\ f.last_complete_key = m.last_complete_key /\ f.reversed = m.reversed
  BY <1>2, <1>3, EmptyTypes DEF MergerType
<1>5. CASE chunk.row_status = "Commit"
  <2> DEFINE d == ClearCell(f)
             c == [d EXCEPT !.row = EmptyRow, !.last_complete_key = f.row.key, !.state = "NewRow"]
  <2>1. EndCell(m, chunk) = [merger |-> c, row |-> {f.row}, issue |-> "None"]
    BY <1>5 DEF EndCell, CommitRow, f
  <2>2. /\ d \in MergerType /\ d.meta = NoMeta /\ d.value = NoValue
        /\ d.expected_value_size = 0 /\ d.remaining_value_bytes = 0
    BY <1>4, ClearCellFields
  <2>3. f.row.key \in Keys /\ f.row = row
    BY <1>3, <1>4 DEF Active
  <2> HIDE DEF d
  <2>4. c \in MergerType
    BY <2>2, <2>3, EmptyTypes DEF MergerType
  <2>5. Clean(c) /\ c.state = "NewRow" /\ c.last_complete_key = row.key
    BY <2>2, <2>3 DEF Clean, MergerType
  <2> HIDE DEF c
  <2>6. MergerOK(c)
    BY <2>4, <2>5 DEF MergerOK
  <2>7. ~OutOfOrder(m, row.key)
    BY <1>3 DEF Active
  <2> QED BY <1>3, <2>1, <2>3, <2>5, <2>6, <2>7 DEF OutcomeOK
<1>6. CASE chunk.row_status # "Commit"
  <2> DEFINE c == [f EXCEPT !.state = "NewCell"]
  <2>1. EndCell(m, chunk) = [merger |-> c, row |-> {}, issue |-> "None"]
    BY <1>6 DEF EndCell, Accept, f
  <2>2. /\ c \in MergerType /\ c.state = "NewCell"
        /\ c.last_complete_key = m.last_complete_key /\ c.reversed = m.reversed
        /\ c.row = row /\ c.family = m.family /\ c.qualifier = m.qualifier
    BY <1>4 DEF MergerType
  <2> HIDE DEF c
  <2>3. Active(c)
    BY <1>3, <2>2 DEF Active, OutOfOrder, RowOK
  <2> QED BY <2>1, <2>2, <2>3 DEF OutcomeOK, MergerOK
<1> QED BY <1>5, <1>6

\* The fields of a chunk, one by one.
LEMMA ChunkFields ==
  ASSUME NEW chunk \in Chunk
  PROVE  /\ chunk.row_key \in Keys \cup {EmptyKey} /\ chunk.family_name \in Families \cup {NoName}
         /\ chunk.qualifier \in Qualifiers \cup {NoName} /\ chunk.meta \in Metas
         /\ chunk.value \in Seq(Bytes) /\ Len(chunk.value) \in Nat /\ chunk.value_size \in Int
<1>1. chunk.value \in Values /\ chunk.value_size \in Sizes
  BY DEF Chunk
<1>2. chunk.value \in Seq(Bytes) /\ chunk.value_size \in Int
  BY <1>1, ValuesAssumption
<1> QED BY <1>2 DEF Chunk

\* A chunk that starts a cell inside a row.
LEMMA StartCellOK ==
  ASSUME NEW m \in MergerType, Active(m), m.state = "NewCell", NEW chunk \in Chunk
  PROVE  OutcomeOK(m, StartCell(m, chunk))
<1> DEFINE issue == StartCellIssue(m, chunk)
           family == IF chunk.family_name # NoName THEN chunk.family_name ELSE m.family
           qualifier == IF chunk.qualifier # NoName THEN chunk.qualifier ELSE m.qualifier
           cell == [m EXCEPT !.family = family, !.qualifier = qualifier,
                             !.meta = chunk.meta, !.value = chunk.value]
           split == [cell EXCEPT !.expected_value_size = chunk.value_size,
                                 !.remaining_value_bytes = chunk.value_size - Len(chunk.value),
                                 !.state = "CellValue"]
<1>1. MergerOK(m)
  BY DEF MergerOK
<1>2. StartCell(m, chunk) = IF chunk.row_status = "Reset" THEN ResetRow(m, chunk)
                            ELSE IF issue # "None" THEN Reject(m, issue)
                            ELSE IF chunk.value_size > 0 THEN Accept(split)
                            ELSE EndCell(cell, chunk)
  BY DEF StartCell, MergerType
<1>3. issue \in Issues \cup {"None"}
  BY DEF StartCellIssue, Issues
<1>4. issue = "None" /\ chunk.value_size > 0 => chunk.value # <<>> /\ Len(chunk.value) <= chunk.value_size
  BY ChunkFields DEF StartCellIssue
<1>5. family \in Families /\ qualifier \in Qualifiers
  BY ChunkFields DEF Active
<1> HIDE DEF issue, family, qualifier
<1>6. /\ cell \in MergerType /\ cell.family = family /\ cell.qualifier = qualifier
      /\ cell.row = m.row /\ cell.reversed = m.reversed
      /\ cell.last_complete_key = m.last_complete_key /\ cell.value = chunk.value
  BY <1>5, ChunkFields DEF MergerType
<1>7. Active(cell)
  BY <1>5, <1>6 DEF Active, OutOfOrder
<1>8. CASE chunk.row_status = "Reset"
  BY <1>1, <1>2, <1>8, ResetRowOK
<1>9. CASE chunk.row_status # "Reset" /\ issue # "None"
  BY <1>1, <1>2, <1>3, <1>9, RejectOK
<1>10. CASE chunk.row_status # "Reset" /\ issue = "None" /\ chunk.value_size > 0
  <2> DEFINE remaining == chunk.value_size - Len(chunk.value)
  <2>1. /\ chunk.value_size \in Nat /\ remaining \in Nat
        /\ Len(chunk.value) + remaining = chunk.value_size /\ chunk.value # <<>>
    BY <1>4, <1>10, ChunkFields
  <2>2. split = [cell EXCEPT !.expected_value_size = chunk.value_size,
                             !.remaining_value_bytes = remaining, !.state = "CellValue"]
    OBVIOUS
  <2> HIDE DEF remaining, cell, split
  <2>3. /\ split \in MergerType /\ split.state = "CellValue"
        /\ split.expected_value_size = chunk.value_size /\ split.remaining_value_bytes = remaining
        /\ split.value = cell.value /\ split.row = cell.row /\ split.family = cell.family
        /\ split.qualifier = cell.qualifier /\ split.reversed = cell.reversed
        /\ split.last_complete_key = cell.last_complete_key
    BY <1>6, <2>1, <2>2 DEF MergerType
  <2>4. Active(split)
    BY <1>7, <2>3 DEF Active, OutOfOrder
  <2>5. Accounting(split)
    BY <1>6, <2>1, <2>3 DEF Accounting
  <2>6. MergerOK(split)
    BY <2>3, <2>4, <2>5 DEF MergerOK
  <2>7. StartCell(m, chunk) = Accept(split)
    BY <1>2, <1>10
  <2> QED BY <1>6, <2>3, <2>6, <2>7 DEF OutcomeOK, Accept
<1>11. CASE chunk.row_status # "Reset" /\ issue = "None" /\ ~(chunk.value_size > 0)
  <2> HIDE DEF cell
  <2>1. OutcomeOK(cell, EndCell(cell, chunk))
    BY <1>6, <1>7, EndCellOK
  <2>2. StartCell(m, chunk) = EndCell(cell, chunk)
    BY <1>2, <1>11
  <2> QED BY <1>6, <2>1, <2>2 DEF OutcomeOK, OutOfOrder
<1> QED BY <1>8, <1>9, <1>10, <1>11

\* A chunk that starts a row.
LEMMA StartRowOK ==
  ASSUME NEW m, MergerOK(m), m.state = "NewRow", NEW chunk \in Chunk
  PROVE  OutcomeOK(m, StartRow(m, chunk))
<1> DEFINE issue == StartRowIssue(m, chunk)
           row == [key |-> chunk.row_key, families |-> <<>>]
           n == [m EXCEPT !.row = row, !.family = chunk.family_name,
                          !.qualifier = chunk.qualifier, !.state = "NewCell"]
<1>1. StartRow(m, chunk) = IF issue # "None" THEN Reject(m, issue) ELSE StartCell(n, chunk)
  BY DEF StartRow
<1>2. issue \in Issues \cup {"None"}
  BY DEF StartRowIssue, Issues
<1>3. CASE issue # "None"
  BY <1>1, <1>2, <1>3, RejectOK
<1>4. CASE issue = "None"
  <2>1. /\ chunk.row_key \in Keys /\ chunk.family_name \in Families /\ chunk.qualifier \in Qualifiers
        /\ ~OutOfOrder(m, chunk.row_key)
    BY <1>4, ChunkFields DEF StartRowIssue
  <2>2. row \in ActiveRow /\ row.key = chunk.row_key /\ FamiliesOK(row.families)
    BY <2>1 DEF ActiveRow, FamiliesOK, UniqueFamilies
  <2> HIDE DEF row
  <2>3. /\ n \in MergerType /\ n.state = "NewCell" /\ n.row = row /\ n.family = chunk.family_name
        /\ n.qualifier = chunk.qualifier /\ n.reversed = m.reversed
        /\ n.last_complete_key = m.last_complete_key
    BY <2>1, <2>2 DEF MergerOK, MergerType
  <2> HIDE DEF n
  <2>4. Active(n)
    BY <2>1, <2>2, <2>3 DEF Active, OutOfOrder
  <2>5. OutcomeOK(n, StartCell(n, chunk))
    BY <2>3, <2>4, StartCellOK
  <2> QED BY <1>1, <1>4, <2>3, <2>5 DEF OutcomeOK, OutOfOrder
<1> QED BY <1>3, <1>4

\* The bytes of a chunk join the bytes received.
LEMMA GrowValue ==
  ASSUME NEW S, NEW a \in Seq(S), NEW b \in Seq(S), a # <<>>
  PROVE  a \o b \in Seq(S) /\ Len(a \o b) = Len(a) + Len(b) /\ a \o b # <<>>
<1>1. a \o b \in Seq(S) /\ Len(a \o b) = Len(a) + Len(b)
  OBVIOUS
<1>2. Len(a) # 0 /\ Len(a) \in Nat /\ Len(b) \in Nat
  BY EmptySeq
<1>3. Len(a \o b) # 0
  BY <1>1, <1>2
<1> QED BY <1>1, <1>3, EmptySeq

\* What one chunk brings is no longer outstanding; the sum stays.
LEMMA SplitSum ==
  ASSUME NEW have \in Nat, NEW len \in Nat, NEW left \in Nat, len <= left
  PROVE  left - len \in Nat /\ (have + len) + (left - len) = have + left
OBVIOUS

\* A chunk that continues a split value.
LEMMA ContinueCellOK ==
  ASSUME NEW m, MergerOK(m), m.state = "CellValue", NEW chunk \in Chunk
  PROVE  OutcomeOK(m, ContinueCell(m, chunk))
<1> DEFINE issue == ContinueCellIssue(m, chunk)
           value == m.value \o chunk.value
           remaining == m.remaining_value_bytes - Len(chunk.value)
           cell == [m EXCEPT !.value = value, !.remaining_value_bytes = remaining]
<1>1. /\ m \in MergerType /\ Active(m) /\ Accounting(m)
      /\ m.value \in Seq(Bytes) /\ m.remaining_value_bytes \in Nat
  BY DEF MergerOK, MergerType
<1>2. ContinueCell(m, chunk) = IF chunk.row_status = "Reset" THEN ResetRow(m, chunk)
                               ELSE IF issue # "None" THEN Reject(m, issue)
                               ELSE IF chunk.value_size > 0 THEN Accept(cell)
                               ELSE EndCell(cell, chunk)
  BY DEF ContinueCell
<1>3. issue \in Issues \cup {"None"}
  BY DEF ContinueCellIssue, Issues
<1>4. CASE chunk.row_status = "Reset"
  BY <1>2, <1>4, ResetRowOK
<1>5. CASE chunk.row_status # "Reset" /\ issue # "None"
  BY <1>2, <1>3, <1>5, RejectOK
<1>6. CASE chunk.row_status # "Reset" /\ issue = "None"
  <2>1. Len(chunk.value) <= m.remaining_value_bytes
    BY <1>1, <1>6, ChunkFields DEF ContinueCellIssue
  <2>2. /\ value \in Seq(Bytes) /\ Len(value) = Len(m.value) + Len(chunk.value)
        /\ remaining \in Nat /\ Len(value) + remaining = m.expected_value_size /\ value # <<>>
    <3>1. chunk.value \in Seq(Bytes) /\ Len(chunk.value) \in Nat
      BY ChunkFields
    <3>2. m.value # <<>> /\ Len(m.value) + m.remaining_value_bytes = m.expected_value_size
      BY <1>1 DEF Accounting
    <3>3. value \in Seq(Bytes) /\ Len(value) = Len(m.value) + Len(chunk.value) /\ value # <<>>
      BY <1>1, <3>1, <3>2, GrowValue
    <3>4. Len(m.value) \in Nat
      BY <1>1
    <3> HIDE DEF value
    <3>5. remaining \in Nat /\ Len(value) + remaining = m.expected_value_size
      <4>1. remaining \in Nat /\ (Len(m.value) + Len(chunk.value)) + remaining
              = Len(m.value) + m.remaining_value_bytes
        BY <1>1, <2>1, <3>1, <3>4, SplitSum
      <4> QED BY <3>2, <3>3, <4>1
    <3> QED BY <3>3, <3>5
  <2> HIDE DEF value, remaining
  <2>3. /\ cell \in MergerType /\ cell.value = value /\ cell.remaining_value_bytes = remaining
        /\ cell.state = m.state /\ cell.expected_value_size = m.expected_value_size
        /\ cell.row = m.row /\ cell.family = m.family /\ cell.qualifier = m.qualifier
        /\ cell.reversed = m.reversed /\ cell.last_complete_key = m.last_complete_key
    BY <1>1, <2>2 DEF MergerType
  <2> HIDE DEF cell, issue
  <2>4. Active(cell)
    BY <1>1, <2>3 DEF Active, OutOfOrder
  <2>5. CASE chunk.value_size > 0
    <3>1. Accounting(cell)
      BY <2>2, <2>3 DEF Accounting
    <3>2. MergerOK(cell)
      BY <2>3, <2>4, <3>1 DEF MergerOK
    <3>3. ContinueCell(m, chunk) = Accept(cell)
      BY <1>2, <1>6, <2>5
    <3> QED BY <2>3, <3>2, <3>3 DEF OutcomeOK, Accept
  <2>6. CASE ~(chunk.value_size > 0)
    <3>1. OutcomeOK(cell, EndCell(cell, chunk))
      BY <2>3, <2>4, EndCellOK
    <3>2. ContinueCell(m, chunk) = EndCell(cell, chunk)
      BY <1>2, <1>6, <2>6
    <3> QED BY <2>3, <3>1, <3>2 DEF OutcomeOK, OutOfOrder
  <2> QED BY <2>5, <2>6
<1> QED BY <1>4, <1>5, <1>6

\* Any chunk in any state.
LEMMA PushChunkOK ==
  ASSUME NEW m, MergerOK(m), NEW chunk \in Chunk
  PROVE  OutcomeOK(m, PushChunk(m, chunk))
<1>1. m.state \in {"NewRow", "NewCell", "CellValue"}
  BY DEF MergerOK, MergerType
<1>2. CASE m.state = "NewRow"
  BY <1>2, StartRowOK DEF PushChunk
<1>3. CASE m.state = "NewCell"
  BY <1>3, StartCellOK DEF PushChunk, MergerOK
<1>4. CASE m.state = "CellValue"
  BY <1>4, ContinueCellOK DEF PushChunk
<1> QED BY <1>1, <1>2, <1>3, <1>4

\* A scan marker between rows, in order, becomes the last complete key.
LEMMA ScanMarkerOK ==
  ASSUME NEW m, MergerOK(m), NEW key \in Keys
  PROVE  LET outcome == ScanMarker(m, key)
         IN  /\ MergerOK(outcome.merger) /\ outcome.row = {}
             /\ outcome.issue \in Issues \cup {"None"}
             /\ IF outcome.issue = "None"
                  THEN outcome.merger.last_complete_key = key /\ ~OutOfOrder(m, key)
                  ELSE outcome.merger.last_complete_key = m.last_complete_key
<1> DEFINE c == [m EXCEPT !.last_complete_key = key]
<1>1. CASE m.state # "NewRow" \/ OutOfOrder(m, key)
  BY <1>1 DEF ScanMarker, Reject, Issues
<1>2. CASE m.state = "NewRow" /\ ~OutOfOrder(m, key)
  <2>1. /\ c \in MergerType /\ c.state = "NewRow" /\ c.last_complete_key = key /\ c.row = m.row
        /\ c.meta = m.meta /\ c.value = m.value /\ c.expected_value_size = m.expected_value_size
        /\ c.remaining_value_bytes = m.remaining_value_bytes
    BY <1>2 DEF MergerOK, MergerType
  <2>2. ScanMarker(m, key) = Accept(c)
    BY <1>2 DEF ScanMarker
  <2> HIDE DEF c
  <2>3. MergerOK(c)
    BY <1>2, <2>1 DEF MergerOK, Clean
  <2> QED BY <1>2, <2>1, <2>2, <2>3 DEF Accept
<1> QED BY <1>1, <1>2

-----------------------------------------------------------------------------
\* The merger's last complete key is the last key scanned.
LastScanned ==
  merger.last_complete_key = IF scanned = <<>> THEN NoKey ELSE scanned[Len(scanned)]

ResultOK ==
  /\ result \in [row : SUBSET Row, issue : Issues \cup {"None"}]
  /\ \A row \in result.row : RowOK(row)

\* ScanOrdered is inductive only together with what links the history to the
\* merger: its last key, and the order of the row under construction.
Inv ==
  /\ MergerOK(merger) /\ ResultOK
  /\ scanned \in Seq(Keys) /\ live \in BOOLEAN
  /\ LastScanned /\ ScanOrdered

\* A key that is not out of order extends the scan.
LEMMA ScanExtends ==
  ASSUME Inv, NEW key \in Keys, ~OutOfOrder(merger, key)
  PROVE  LET s == Append(scanned, key)
         IN  /\ s \in Seq(Keys) /\ s # <<>> /\ s[Len(s)] = key
             /\ \A i, j \in DOMAIN s : i < j => Beyond(s[j], s[i], Reversed)
<1> DEFINE s == Append(scanned, key)
<1>1. /\ scanned \in Seq(Keys) /\ s \in Seq(Keys) /\ s # <<>> /\ Len(s) = Len(scanned) + 1
      /\ s[Len(scanned) + 1] = key /\ \A i \in 1..Len(scanned) : s[i] = scanned[i]
  BY AppendProperties DEF Inv
<1>2. merger.reversed = Reversed
  BY DEF Inv, MergerOK, MergerType
<1>3. ASSUME NEW i \in 1..Len(scanned) PROVE Beyond(key, scanned[i], Reversed)
  <2> DEFINE last == scanned[Len(scanned)]
  <2>1. Len(scanned) \in Nat /\ Len(scanned) \in 1..Len(scanned) /\ scanned # <<>>
    BY <1>1
  <2>2. last \in Keys /\ scanned[i] \in Keys /\ last \in Nat /\ scanned[i] \in Nat /\ key \in Nat
    BY <1>1, <2>1, KeysAreKeys
  <2>3. merger.last_complete_key = last /\ last # NoKey
    BY <2>1, <2>2, KeysAreKeys DEF Inv, LastScanned
  <2>4. Beyond(key, last, Reversed)
    BY <1>2, <2>3 DEF OutOfOrder
  <2>5. i < Len(scanned) => Beyond(last, scanned[i], Reversed)
    BY <1>1, <2>1 DEF Inv, ScanOrdered
  <2>6. i = Len(scanned) \/ i < Len(scanned)
    BY <2>1
  <2> QED BY <2>2, <2>4, <2>5, <2>6, KeysAssumption DEF Beyond
<1>4. ASSUME NEW i \in DOMAIN s, NEW j \in DOMAIN s, i < j PROVE Beyond(s[j], s[i], Reversed)
  <2>1. i \in 1..Len(scanned) /\ (j \in 1..Len(scanned) \/ j = Len(scanned) + 1)
    BY <1>1, <1>4
  <2>2. CASE j \in 1..Len(scanned)
    BY <1>1, <1>4, <2>1, <2>2 DEF Inv, ScanOrdered
  <2>3. CASE j = Len(scanned) + 1
    BY <1>1, <1>3, <2>1, <2>3
  <2> QED BY <2>1, <2>2, <2>3
<1> QED BY <1>1, <1>4

\* A new merger satisfies the invariant.
LEMMA InvInit == Init => Inv
<1> SUFFICES ASSUME Init PROVE Inv
  OBVIOUS
<1>1. merger = NewMerger(Reversed)
  BY DEF Init
<1>2. /\ merger \in MergerType /\ merger.state = "NewRow" /\ Clean(merger)
      /\ merger.last_complete_key = NoKey
  BY <1>1, EmptyTypes DEF NewMerger, MergerType, Clean
<1>3. ResultOK
  BY DEF Init, ResultOK, NothingReturned
<1> QED BY <1>2, <1>3 DEF Init, Inv, MergerOK, LastScanned, ScanOrdered

\* A call of push that leaves a good merger keeps the invariant.
LEMMA ReceiveKeepsInv ==
  ASSUME Inv, NEW chunk, OutcomeOK(merger, PushChunk(merger, chunk)), Receive(chunk)
  PROVE  Inv'
<1> DEFINE outcome == PushChunk(merger, chunk)
<1>1. OutcomeOK(merger, outcome)
  OBVIOUS
<1>2. /\ merger' = outcome.merger /\ result' = [row |-> outcome.row, issue |-> outcome.issue]
      /\ live' \in BOOLEAN
  BY DEF Receive, Apply, Returned
<1> HIDE DEF outcome
<1>3. result'.row = outcome.row /\ result'.issue = outcome.issue
  BY <1>2
<1>4. ResultOK' /\ MergerOK(merger)' /\ (live \in BOOLEAN)'
  BY <1>1, <1>2, <1>3 DEF OutcomeOK, ResultOK
<1>5. CASE outcome.row = {} /\ outcome.merger.last_complete_key = merger.last_complete_key
  <2>1. scanned' = scanned /\ merger'.last_complete_key = merger.last_complete_key
    BY <1>2, <1>3, <1>5 DEF Receive
  <2> QED BY <1>4, <2>1 DEF Inv, LastScanned, ScanOrdered
<1>6. ASSUME NEW row \in Row, outcome.row = {row}, outcome.merger.last_complete_key = row.key,
             ~OutOfOrder(merger, row.key)
      PROVE  Inv'
  <2>1. scanned' = Append(scanned, row.key) /\ merger'.last_complete_key = row.key
    BY <1>2, <1>3, <1>6 DEF Receive
  <2>2. row.key \in Keys
    BY DEF Row
  <2>3. /\ scanned' \in Seq(Keys) /\ scanned' # <<>> /\ scanned'[Len(scanned')] = row.key
        /\ \A i, j \in DOMAIN scanned' : i < j => Beyond(scanned'[j], scanned'[i], Reversed)
    BY <1>6, <2>1, <2>2, ScanExtends
  <2> QED BY <1>4, <2>1, <2>3 DEF Inv, LastScanned, ScanOrdered
<1> QED BY <1>1, <1>5, <1>6 DEF OutcomeOK

\* Every chunk, marker, broken stream and end of stream keeps the invariant.
LEMMA InvStep == Inv /\ [Next]_vars => Inv'
<1> SUFFICES ASSUME Inv, [Next]_vars PROVE Inv'
  OBVIOUS
<1>1. ASSUME NEW chunk \in Chunk, Receive(chunk) PROVE Inv'
  <2>1. OutcomeOK(merger, PushChunk(merger, chunk))
    BY PushChunkOK DEF Inv
  <2> QED BY <1>1, <2>1, ReceiveKeepsInv
<1>2. ASSUME NEW key \in Keys, Mark(key) PROVE Inv'
  <2> DEFINE outcome == ScanMarker(merger, key)
  <2>1. /\ MergerOK(outcome.merger) /\ outcome.row = {} /\ outcome.issue \in Issues \cup {"None"}
        /\ IF outcome.issue = "None"
             THEN outcome.merger.last_complete_key = key /\ ~OutOfOrder(merger, key)
             ELSE outcome.merger.last_complete_key = merger.last_complete_key
    BY ScanMarkerOK DEF Inv
  <2>2. /\ merger' = outcome.merger /\ result' = [row |-> outcome.row, issue |-> outcome.issue]
        /\ live' \in BOOLEAN
    BY <1>2 DEF Mark, Apply, Returned
  <2> HIDE DEF outcome
  <2>3. result'.row = {} /\ result'.issue = outcome.issue
    BY <2>1, <2>2
  <2>4. ResultOK' /\ MergerOK(merger)' /\ (live \in BOOLEAN)'
    BY <2>1, <2>2, <2>3 DEF ResultOK
  <2>5. CASE outcome.issue # "None"
    <3>1. scanned' = scanned /\ merger'.last_complete_key = merger.last_complete_key
      BY <1>2, <2>1, <2>2, <2>3, <2>5 DEF Mark
    <3> QED BY <2>4, <3>1 DEF Inv, LastScanned, ScanOrdered
  <2>6. CASE outcome.issue = "None"
    <3>1. scanned' = Append(scanned, key) /\ merger'.last_complete_key = key
      BY <1>2, <2>1, <2>2, <2>3, <2>6 DEF Mark
    <3>2. /\ scanned' \in Seq(Keys) /\ scanned' # <<>> /\ scanned'[Len(scanned')] = key
          /\ \A i, j \in DOMAIN scanned' : i < j => Beyond(scanned'[j], scanned'[i], Reversed)
      BY <2>1, <2>6, <3>1, ScanExtends
    <3> QED BY <2>4, <3>1, <3>2 DEF Inv, LastScanned, ScanOrdered
  <2> QED BY <2>5, <2>6
<1>3. CASE Discard
  <2>1. MergerOK(merger)' /\ merger'.last_complete_key = merger.last_complete_key
    BY <1>3, ClearActiveRowOK DEF Discard, DiscardPartial, Inv, MergerOK
  <2>2. ResultOK'
    BY <1>3 DEF Discard, NothingReturned, ResultOK
  <2> QED BY <1>3, <2>1, <2>2 DEF Discard, Inv, LastScanned, ScanOrdered
<1>4. CASE Finish
  <2>1. ResultOK'
    BY <1>4 DEF Finish, FinishStream, Accept, Reject, Returned, ResultOK, Issues
  <2> QED BY <1>4, <2>1 DEF Finish, Inv, LastScanned, ScanOrdered
<1>5. CASE UNCHANGED vars
  BY <1>5 DEF vars, Inv, ResultOK, LastScanned, ScanOrdered
<1> QED BY <1>1, <1>2, <1>3, <1>4, <1>5 DEF Next, Push

\* The invariant holds in every behaviour.
LEMMA InvAlways == Spec => []Inv
BY InvInit, InvStep, PTL DEF Spec

-----------------------------------------------------------------------------
(* Where the cells of a split value end up.                                *)

\* CellsOf, for the columns of one family.
ColumnCells(columns, qualifier) ==
  [c \in DOMAIN columns |-> IF columns[c].qualifier # qualifier THEN <<>> ELSE columns[c].cells]
CellsIn(columns, qualifier) == FlattenSeq(ColumnCells(columns, qualifier))

\* The cells of a qualifier are those of its one column, if it has one.
LEMMA CellsInIs ==
  ASSUME NEW columns \in Seq(Column), UniqueColumns(columns), NEW qualifier
  PROVE  /\ \A k \in DOMAIN columns :
              columns[k].qualifier = qualifier => CellsIn(columns, qualifier) = columns[k].cells
         /\ (\A k \in DOMAIN columns : columns[k].qualifier # qualifier)
              => CellsIn(columns, qualifier) = <<>>
         /\ CellsIn(columns, qualifier) \in Seq(Cell)
<1> DEFINE P == ColumnCells(columns, qualifier)
<1>1. \A c \in DOMAIN columns : columns[c].cells \in Seq(Cell)
  <2>1. \A c \in DOMAIN columns : columns[c] \in Column
    OBVIOUS
  <2> QED BY <2>1 DEF Column
<1>2. /\ P \in Seq(Seq(Cell)) /\ Len(P) = Len(columns) /\ DOMAIN columns = 1..Len(P)
      /\ \A c \in 1..Len(P) :
           P[c] = IF columns[c].qualifier # qualifier THEN <<>> ELSE columns[c].cells
  <2>1. \A c \in DOMAIN columns :
          (IF columns[c].qualifier # qualifier THEN <<>> ELSE columns[c].cells) \in Seq(Cell)
    BY <1>1
  <2>2. DOMAIN columns = 1..Len(columns) /\ Len(columns) \in Nat
    OBVIOUS
  <2>3. P \in [1..Len(columns) -> Seq(Cell)]
    BY <2>1, <2>2 DEF ColumnCells
  <2> QED BY <2>2, <2>3 DEF ColumnCells
<1> HIDE DEF P
<1>3. ASSUME NEW k \in DOMAIN columns, columns[k].qualifier = qualifier
      PROVE  FlattenSeq(P) = columns[k].cells
  <2>1. \A b \in 1..Len(P) : b # k => P[b] = <<>>
    BY <1>2, <1>3 DEF UniqueColumns
  <2>2. FlattenSeq(P) = P[k]
    BY <1>2, <2>1, FlattenOne
  <2> QED BY <1>2, <1>3, <2>2
<1>4. ASSUME \A k \in DOMAIN columns : columns[k].qualifier # qualifier
      PROVE  FlattenSeq(P) = <<>>
  <2>1. \A b \in 1..Len(P) : P[b] = <<>>
    BY <1>2, <1>4
  <2> QED BY <1>2, <2>1, FlattenNone
<1>5. FlattenSeq(P) \in Seq(Cell)
  <2>1. CASE \E k \in DOMAIN columns : columns[k].qualifier = qualifier
    BY <1>1, <1>3, <2>1
  <2>2. CASE \A k \in DOMAIN columns : columns[k].qualifier # qualifier
    <3>1. FlattenSeq(P) = <<>> /\ <<>> \in Seq(Cell)
      BY <1>4, <2>2
    <3> QED BY <3>1
  <2> QED BY <2>1, <2>2
<1> QED BY <1>3, <1>4, <1>5 DEF CellsIn, P

\* The new cell comes last in its column, whether the column is new or not.
LEMMA CellsInAdded ==
  ASSUME NEW columns \in Seq(Column), ColumnsOK(columns),
         NEW qualifier \in Qualifiers, NEW cell \in Cell
  PROVE  CellsIn(AddToColumns(columns, qualifier, cell), qualifier)
           = Append(CellsIn(columns, qualifier), cell)
<1> DEFINE added == AddToColumns(columns, qualifier, cell)
           new == [qualifier |-> qualifier, cells |-> <<cell>>]
<1>1. added \in Seq(Column) /\ UniqueColumns(added) /\ UniqueColumns(columns)
  BY AddToColumnsOK DEF ColumnsOK
<1>2. ASSUME NEW i \in DOMAIN columns, columns[i].qualifier = qualifier,
             added = [columns EXCEPT ![i] = [columns[i] EXCEPT !.cells = Append(columns[i].cells, cell)]]
      PROVE  CellsIn(added, qualifier) = Append(CellsIn(columns, qualifier), cell)
  <2> DEFINE grown == [columns[i] EXCEPT !.cells = Append(columns[i].cells, cell)]
  <2>1. columns[i] \in Column
    OBVIOUS
  <2>2. grown.qualifier = qualifier /\ grown.cells = Append(columns[i].cells, cell)
    BY <1>2, <2>1 DEF Column
  <2>3. i \in DOMAIN added /\ added[i] = grown
    BY <1>2
  <2> HIDE DEF added, grown
  <2>4. CellsIn(added, qualifier) = grown.cells
    BY <1>1, <2>2, <2>3, CellsInIs
  <2>5. CellsIn(columns, qualifier) = columns[i].cells
    BY <1>1, <1>2, CellsInIs
  <2> QED BY <2>2, <2>4, <2>5
<1>3. ASSUME \A i \in DOMAIN columns : columns[i].qualifier # qualifier, added = Append(columns, new)
      PROVE  CellsIn(added, qualifier) = Append(CellsIn(columns, qualifier), cell)
  <2>1. new.qualifier = qualifier /\ new.cells = <<cell>>
    OBVIOUS
  <2> HIDE DEF new
  <2>2. Len(columns) + 1 \in DOMAIN added /\ added[Len(columns) + 1] = new
    BY <1>3
  <2> HIDE DEF added
  <2>3. CellsIn(added, qualifier) = <<cell>>
    BY <1>1, <2>1, <2>2, CellsInIs
  <2>4. CellsIn(columns, qualifier) = <<>>
    BY <1>1, <1>3, CellsInIs
  <2>5. Append(<<>>, cell) = <<cell>>
    OBVIOUS
  <2> QED BY <2>3, <2>4, <2>5
<1> HIDE DEF added, new
<1>4. \/ \E i \in DOMAIN columns :
           /\ columns[i].qualifier = qualifier
           /\ added = [columns EXCEPT ![i] = [columns[i] EXCEPT !.cells = Append(columns[i].cells, cell)]]
      \/ (\A i \in DOMAIN columns : columns[i].qualifier # qualifier) /\ added = Append(columns, new)
  BY AddToColumnsCases DEF added, new
<1>5. CellsIn(added, qualifier) = Append(CellsIn(columns, qualifier), cell)
  BY <1>2, <1>3, <1>4
<1> QED BY <1>5 DEF added

\* The cells of a family and qualifier are those of its one family, if it has
\* one.
LEMMA CellsOfIs ==
  ASSUME NEW row, row.families \in Seq(Family), FamiliesOK(row.families), NEW family, NEW qualifier
  PROVE  /\ \A k \in DOMAIN row.families : row.families[k].name = family
              => CellsOf(row, family, qualifier) = CellsIn(row.families[k].columns, qualifier)
         /\ (\A k \in DOMAIN row.families : row.families[k].name # family)
              => CellsOf(row, family, qualifier) = <<>>
         /\ CellsOf(row, family, qualifier) \in Seq(Cell)
<1> DEFINE fams == row.families
           In(f) == CellsIn(fams[f].columns, qualifier)
           P == [f \in DOMAIN fams |-> IF fams[f].name # family THEN <<>> ELSE In(f)]
<1>1. CellsOf(row, family, qualifier) = FlattenSeq(P)
  BY DEF CellsOf, CellsIn, ColumnCells
<1>2. \A f \in DOMAIN fams : In(f) \in Seq(Cell)
  <2> TAKE f \in DOMAIN fams
  <2>1. fams[f] \in Family
    OBVIOUS
  <2>2. fams[f].columns \in Seq(Column) /\ UniqueColumns(fams[f].columns)
    BY <2>1 DEF Family, FamiliesOK, ColumnsOK
  <2> QED BY <2>2, CellsInIs
<1> HIDE DEF In
<1>3. /\ P \in Seq(Seq(Cell)) /\ Len(P) = Len(fams) /\ DOMAIN fams = 1..Len(P)
      /\ \A f \in 1..Len(P) : P[f] = IF fams[f].name # family THEN <<>> ELSE In(f)
  <2>1. DOMAIN fams = 1..Len(fams) /\ Len(fams) \in Nat
    OBVIOUS
  <2>2. \A f \in DOMAIN fams : (IF fams[f].name # family THEN <<>> ELSE In(f)) \in Seq(Cell)
    BY <1>2
  <2>3. P \in [1..Len(fams) -> Seq(Cell)]
    BY <2>1, <2>2
  <2> QED BY <2>1, <2>3
<1> HIDE DEF P
<1>4. ASSUME NEW k \in DOMAIN fams, fams[k].name = family
      PROVE  FlattenSeq(P) = In(k)
  <2>1. \A b \in 1..Len(P) : b # k => P[b] = <<>>
    BY <1>3, <1>4 DEF FamiliesOK, UniqueFamilies
  <2>2. FlattenSeq(P) = P[k]
    BY <1>3, <2>1, FlattenOne
  <2> QED BY <1>3, <1>4, <2>2
<1>5. ASSUME \A k \in DOMAIN fams : fams[k].name # family
      PROVE  FlattenSeq(P) = <<>>
  <2>1. \A b \in 1..Len(P) : P[b] = <<>>
    BY <1>3, <1>5
  <2> QED BY <1>3, <2>1, FlattenNone
<1>6. FlattenSeq(P) \in Seq(Cell)
  <2>1. CASE \E k \in DOMAIN fams : fams[k].name = family
    BY <1>2, <1>4, <2>1
  <2>2. CASE \A k \in DOMAIN fams : fams[k].name # family
    <3>1. FlattenSeq(P) = <<>> /\ <<>> \in Seq(Cell)
      BY <1>5, <2>2
    <3> QED BY <3>1
  <2> QED BY <2>1, <2>2
<1> QED BY <1>1, <1>4, <1>5, <1>6 DEF In

\* The new cell comes last in its family and column.
LEMMA CellsOfAdded ==
  ASSUME NEW row, row.families \in Seq(Family), FamiliesOK(row.families),
         NEW family \in Families, NEW qualifier \in Qualifiers, NEW cell \in Cell,
         NEW grown, grown.families = AddCell(row.families, family, qualifier, cell)
  PROVE  CellsOf(grown, family, qualifier) = Append(CellsOf(row, family, qualifier), cell)
<1> DEFINE before == row.families
           after == grown.families
           In(families, i) == CellsIn(families[i].columns, qualifier)
           Goal == CellsOf(grown, family, qualifier) = Append(CellsOf(row, family, qualifier), cell)
<1>1. after \in Seq(Family) /\ FamiliesOK(after)
  BY AddCellOK
<1>2. \/ \E i \in DOMAIN before :
           before[i].name = family /\ after = Grown(before, i, qualifier, cell)
      \/ /\ \A i \in DOMAIN before : before[i].name # family
         /\ after = Extended(before, family, qualifier, cell)
  BY AddCellCases
<1>3. ASSUME NEW i \in DOMAIN before, before[i].name = family,
             after = Grown(before, i, qualifier, cell)
      PROVE  Goal
  <2> DEFINE columns == before[i].columns
             f == [before[i] EXCEPT !.columns = AddToColumns(columns, qualifier, cell)]
  <2>1. before[i] \in Family /\ ColumnsOK(columns)
    BY DEF FamiliesOK
  <2>2. columns \in Seq(Column)
    BY <2>1 DEF Family
  <2>3. f.name = family /\ f.columns = AddToColumns(columns, qualifier, cell)
    BY <1>3, <2>1 DEF Family
  <2>4. i \in DOMAIN after /\ after[i] = f
    BY <1>3 DEF Grown
  <2> HIDE DEF f
  <2>5. CellsOf(grown, family, qualifier) = CellsIn(AddToColumns(columns, qualifier, cell), qualifier)
    BY <1>1, <2>3, <2>4, CellsOfIs
  <2>6. CellsOf(row, family, qualifier) = CellsIn(columns, qualifier)
    BY <1>3, CellsOfIs
  <2> QED BY <2>1, <2>2, <2>5, <2>6, CellsInAdded
<1>4. ASSUME \A i \in DOMAIN before : before[i].name # family,
             after = Extended(before, family, qualifier, cell)
      PROVE  Goal
  <2> DEFINE f == [name |-> family, columns |-> AddToColumns(<<>>, qualifier, cell)]
  <2>1. f.name = family /\ f.columns = AddToColumns(<<>>, qualifier, cell)
    OBVIOUS
  <2>2. after = Append(before, f)
    BY <1>4 DEF Extended
  <2> HIDE DEF f
  <2>3. Len(before) + 1 \in DOMAIN after /\ after[Len(before) + 1] = f
    BY <2>2
  <2>4. CellsOf(grown, family, qualifier) = CellsIn(AddToColumns(<<>>, qualifier, cell), qualifier)
    BY <1>1, <2>1, <2>3, CellsOfIs
  <2>5. CellsOf(row, family, qualifier) = <<>>
    BY <1>4, CellsOfIs
  <2>6. <<>> \in Seq(Column) /\ ColumnsOK(<<>>) /\ UniqueColumns(<<>>)
    BY DEF ColumnsOK, UniqueColumns
  <2>7. CellsIn(<<>>, qualifier) = <<>>
    <3> DEFINE none == <<>>
    <3>1. \A k \in DOMAIN none : none[k].qualifier # qualifier
      OBVIOUS
    <3>2. none \in Seq(Column) /\ UniqueColumns(none)
      BY <2>6
    <3> HIDE DEF none
    <3>3. CellsIn(none, qualifier) = <<>>
      BY <3>1, <3>2, CellsInIs
    <3> QED BY <3>3 DEF none
  <2> QED BY <2>4, <2>5, <2>6, <2>7, CellsInAdded
<1> HIDE DEF Goal
<1>5. Goal
  BY <1>2, <1>3, <1>4
<1> QED BY <1>5 DEF Goal

\* end_cell adds the cell under construction to the row, which is handed out or
\* goes on.
LEMMA EndCellAdds ==
  ASSUME NEW m \in MergerType, Active(m), NEW chunk
  PROVE  \E row \in EndCell(m, chunk).row \cup {EndCell(m, chunk).merger.row} :
           /\ row.key = m.row.key
           /\ CellsOf(row, m.family, m.qualifier)
                = Append(CellsOf(m.row, m.family, m.qualifier), [meta |-> m.meta, value |-> m.value])
<1> DEFINE cell == [meta |-> m.meta, value |-> m.value]
           families == AddCell(m.row.families, m.family, m.qualifier, cell)
           row == [key |-> m.row.key, families |-> families]
           f == FinishCell(m)
<1>1. m.row \in ActiveRow /\ m.row.families \in Seq(Family) /\ cell \in Cell
  BY DEF Cell, MergerType, ActiveRow
<1> HIDE DEF cell
<1>2. f.row = row
  <2>1. [m.row EXCEPT !.families = families] = row
    <3> HIDE DEF families
    <3> QED BY <1>1 DEF ActiveRow
  <2>2. f = [m EXCEPT !.row = [m.row EXCEPT !.families = families], !.value = NoValue]
    BY DEF FinishCell, MergerType, cell
  <2> HIDE DEF families, row, f
  <2>3. f = [m EXCEPT !.row = row, !.value = NoValue]
    BY <2>1, <2>2
  <2> QED BY <2>3 DEF MergerType
<1>3. row.key = m.row.key /\ row.families = families
  OBVIOUS
<1> HIDE DEF families, row, f
<1>4. CellsOf(row, m.family, m.qualifier) = Append(CellsOf(m.row, m.family, m.qualifier), cell)
  BY <1>1, <1>3, CellsOfAdded DEF Active, families
<1>5. CASE chunk.row_status = "Commit"
  <2>1. EndCell(m, chunk).row = {row}
    BY <1>2, <1>5 DEF EndCell, CommitRow, f
  <2> QED BY <1>3, <1>4, <2>1 DEF cell
<1>6. CASE chunk.row_status # "Commit"
  <2>1. EndCell(m, chunk).merger = [f EXCEPT !.state = "NewCell"]
    BY <1>6 DEF EndCell, Accept, f
  <2>2. [f EXCEPT !.state = "NewCell"].row = f.row
    OBVIOUS
  <2> QED BY <1>2, <1>3, <1>4, <2>1, <2>2 DEF cell
<1> QED BY <1>5, <1>6

\* What SplitValueExact promises of a finished split value.
SplitFinished(m, outcome) ==
  \E row \in outcome.row \cup {outcome.merger.row} :
    LET before == CellsOf(m.row, m.family, m.qualifier)
        after == CellsOf(row, m.family, m.qualifier)
    IN  /\ row.key = m.row.key
        /\ after = Append(before, Last(after))
        /\ Last(after).meta = m.meta
        /\ Len(Last(after).value) = m.expected_value_size
        /\ IsPrefix(m.value, Last(after).value)

\* A chunk inside a split value is refused, drops the row, continues the value
\* or ends it with exactly the announced bytes.
LEMMA ContinueCellExact ==
  ASSUME NEW m, MergerOK(m), m.state = "CellValue", NEW chunk \in Chunk,
         ContinueCell(m, chunk).merger.state # "CellValue"
  PROVE  \/ ContinueCell(m, chunk).merger.row = EmptyRow /\ ContinueCell(m, chunk).row = {}
         \/ SplitFinished(m, ContinueCell(m, chunk))
<1> DEFINE issue == ContinueCellIssue(m, chunk)
           value == m.value \o chunk.value
           remaining == m.remaining_value_bytes - Len(chunk.value)
           cell == [m EXCEPT !.value = value, !.remaining_value_bytes = remaining]
           outcome == ContinueCell(m, chunk)
<1>1. /\ m \in MergerType /\ Active(m) /\ Accounting(m)
      /\ m.value \in Seq(Bytes) /\ m.remaining_value_bytes \in Nat
  BY DEF MergerOK, MergerType
<1>2. outcome = IF chunk.row_status = "Reset" THEN ResetRow(m, chunk)
                ELSE IF issue # "None" THEN Reject(m, issue)
                ELSE IF chunk.value_size > 0 THEN Accept(cell)
                ELSE EndCell(cell, chunk)
  BY DEF ContinueCell
<1>3. outcome.merger.state # "CellValue"
  OBVIOUS
<1>4. CASE chunk.row_status = "Reset"
  <2>1. outcome = ResetRow(m, chunk)
    BY <1>2, <1>4
  <2> HIDE DEF outcome
  <2>2. outcome = Accept(ClearActiveRow(m))
    BY <1>3, <2>1 DEF ResetRow, Reject
  <2>3. ClearActiveRow(m).row = EmptyRow
    BY <1>1 DEF ClearActiveRow, ClearCell, MergerType
  <2>4. outcome.merger.row = EmptyRow /\ outcome.row = {}
    BY <2>2, <2>3 DEF Accept
  <2> QED BY <2>4 DEF outcome
<1>5. CASE chunk.row_status # "Reset"
  <2>1. issue = "None"
    BY <1>2, <1>3, <1>5 DEF Reject
  <2>2. cell.state = "CellValue"
    BY <1>1 DEF MergerType
  <2>3. ~(chunk.value_size > 0) /\ outcome = EndCell(cell, chunk)
    <3> HIDE DEF cell, issue, outcome
    <3> QED BY <1>2, <1>3, <1>5, <2>1, <2>2 DEF Accept
  <2>4. chunk.value \in Seq(Bytes) /\ Len(chunk.value) = m.remaining_value_bytes
    <3>1. chunk.value_size \in Int /\ chunk.value \in Seq(Bytes)
      BY ChunkFields
    <3>2. chunk.value_size = 0
      BY <2>1, <2>3, <3>1 DEF ContinueCellIssue
    <3> QED BY <2>1, <3>1, <3>2 DEF ContinueCellIssue
  <2>5. /\ value \in Seq(Bytes) /\ Len(value) = m.expected_value_size
        /\ IsPrefix(m.value, value)
    <3>1. Len(m.value) + m.remaining_value_bytes = m.expected_value_size
      BY <1>1 DEF Accounting
    <3>2. /\ value \in Seq(Bytes) /\ Len(value) = Len(m.value) + Len(chunk.value)
          /\ \A i \in 1..Len(m.value) : value[i] = m.value[i]
      <4> DEFINE a == m.value
                 b == chunk.value
      <4>1. a \in Seq(Bytes) /\ b \in Seq(Bytes)
        BY <1>1, <2>4
      <4> HIDE DEF a, b
      <4>2. a \o b \in Seq(Bytes) /\ Len(a \o b) = Len(a) + Len(b) /\ \A i \in 1..Len(a) : (a \o b)[i] = a[i]
        BY <4>1
      <4> QED BY <4>2 DEF a, b
    <3> HIDE DEF value
    <3>3. IsPrefix(m.value, value)
      BY <1>1, <2>4, <3>2 DEF IsPrefix
    <3> QED BY <2>4, <3>1, <3>2, <3>3
  <2>6. remaining = 0
    BY <1>1, <2>4
  <2> HIDE DEF value, remaining
  <2>7. /\ cell \in MergerType /\ cell.value = value
        /\ cell.meta = m.meta /\ cell.row = m.row /\ cell.family = m.family
        /\ cell.qualifier = m.qualifier /\ cell.reversed = m.reversed
        /\ cell.last_complete_key = m.last_complete_key
    BY <1>1, <2>5, <2>6 DEF MergerType
  <2> HIDE DEF cell, issue, outcome
  <2>8. Active(cell)
    BY <1>1, <2>7 DEF Active, OutOfOrder
  <2> DEFINE new == [meta |-> m.meta, value |-> value]
             before == CellsOf(m.row, m.family, m.qualifier)
  <2>9. PICK row \in outcome.row \cup {outcome.merger.row} :
          /\ row.key = m.row.key
          /\ CellsOf(row, m.family, m.qualifier) = Append(before, new)
    BY <2>3, <2>7, <2>8, EndCellAdds
  <2>10. before \in Seq(Cell) /\ new.meta = m.meta /\ new.value = value
    <3>1. m.row.families \in Seq(Family) /\ FamiliesOK(m.row.families)
      BY <1>1 DEF MergerType, ActiveRow, Active
    <3> QED BY <3>1, CellsOfIs
  <2> HIDE DEF new, before
  <2>11. Last(Append(before, new)) = new
    BY <2>10 DEF Last
  <2>12. SplitFinished(m, outcome)
    BY <2>5, <2>9, <2>10, <2>11 DEF SplitFinished, before
  <2> QED BY <2>12 DEF outcome
<1> QED BY <1>4, <1>5

-----------------------------------------------------------------------------
(* The theorems hold for every set of keys, names and values, in both      *)
(* directions, and for every stream of chunks and markers.                 *)

\* The fields of RowMerger keep their types; above all the subtraction from
\* remaining_value_bytes in continue_cell never goes below zero.
THEOREM MergerTyped == Spec => []TypeOK
<1>1. Inv => TypeOK
  BY DEF Inv, MergerOK, ResultOK, TypeOK
<1> QED BY <1>1, InvAlways, PTL

\* validate_order lets rows and markers pass strictly in the direction of the
\* scan, across resets, broken streams and resumed ones.
THEOREM ScansInOrder == Spec => []ScanOrdered
<1>1. Inv => ScanOrdered
  BY DEF Inv
<1> QED BY <1>1, InvAlways, PTL

\* In start_cell and continue_cell the bytes received and the bytes outstanding
\* of a split value add up to the announced size.
THEOREM SplitsAccounted == Spec => []SplitAccounting
<1>1. Inv => SplitAccounting
  BY DEF Inv, MergerOK, Accounting, SplitAccounting
<1> QED BY <1>1, InvAlways, PTL

\* commit_row and clear_active_row leave nothing for the next row.
THEOREM RowsIsolated == Spec => []NothingLeftBetweenRows
<1>1. Inv => NothingLeftBetweenRows
  BY DEF Inv, MergerOK, Clean, NothingLeftBetweenRows
<1> QED BY <1>1, InvAlways, PTL

\* finish_cell groups cells so that a row names a family once, a qualifier once
\* per family, and has no empty family or column.
THEOREM RowsAreWellFormed == Spec => []RowsWellFormed
<1>1. Inv => RowsWellFormed
  BY KeysAreKeys DEF Inv, ResultOK, RowsWellFormed, RowOK, Row, FamiliesOK, ColumnsOK
<1> QED BY <1>1, InvAlways, PTL

\* start_cell, continue_cell and finish_cell put a split value together as it
\* was sent, in the column where it was started; nothing else ends one but
\* dropping its row.
THEOREM SplitValuesAreExact == Spec => SplitValueExact
<1> DEFINE Exact ==
             merger.state = "CellValue" /\ merger'.state # "CellValue" =>
               \/ merger'.row = EmptyRow /\ result'.row = {}
               \/ SplitFinished(merger, [merger |-> merger', row |-> result'.row])
<1>1. ASSUME Inv, [Next]_vars PROVE Exact
  <2> SUFFICES ASSUME merger.state = "CellValue", merger'.state # "CellValue" PROVE Exact
    OBVIOUS
  <2>1. MergerOK(merger) /\ merger \in MergerType
    BY <1>1 DEF Inv, MergerOK
  <2>2. ASSUME NEW chunk \in Chunk, Receive(chunk) PROVE Exact
    <3> DEFINE outcome == ContinueCell(merger, chunk)
    <3>1. PushChunk(merger, chunk) = outcome
      BY DEF PushChunk
    <3>2. merger' = outcome.merger /\ result'.row = outcome.row
      BY <2>2, <3>1 DEF Receive, Apply, Returned
    <3>3. \/ outcome.merger.row = EmptyRow /\ outcome.row = {}
          \/ SplitFinished(merger, outcome)
      BY <2>1, <3>2, ContinueCellExact
    <3> HIDE DEF outcome
    <3> QED BY <3>2, <3>3 DEF SplitFinished
  <2>3. ASSUME NEW key \in Keys, Mark(key) PROVE Exact
    <3>1. merger' = merger
      BY <2>3 DEF Mark, Apply, ScanMarker, Reject
    <3> QED BY <3>1
  <2>4. CASE Discard
    <3>1. merger' = ClearActiveRow(merger) /\ result'.row = {}
      BY <2>4 DEF Discard, DiscardPartial, NothingReturned
    <3>2. ClearActiveRow(merger).row = EmptyRow
      BY <2>1 DEF ClearActiveRow, ClearCell, MergerType
    <3> QED BY <3>1, <3>2
  <2>5. CASE Finish \/ UNCHANGED vars
    BY <2>5 DEF Finish, vars
  <2> QED BY <1>1, <2>2, <2>3, <2>4, <2>5 DEF Next, Push
<1>2. Exact <=>
        (merger.state = "CellValue" /\ merger'.state # "CellValue" =>
           \/ merger'.row = EmptyRow /\ result'.row = {}
           \/ \E row \in result'.row \cup {merger'.row} :
                LET before == CellsOf(merger.row, merger.family, merger.qualifier)
                    after == CellsOf(row, merger.family, merger.qualifier)
                IN  /\ row.key = merger.row.key
                    /\ after = Append(before, Last(after))
                    /\ Last(after).meta = merger.meta
                    /\ Len(Last(after).value) = merger.expected_value_size
                    /\ IsPrefix(merger.value, Last(after).value))
  BY DEF SplitFinished
<1> QED BY <1>1, <1>2, InvAlways, PTL DEF Spec, SplitValueExact

-----------------------------------------------------------------------------
(* The server's side: cells sent, and what of them a row has.              *)

\* A cell that was sent has names and a content.
LEMMA SentCellFields ==
  ASSUME NEW cell \in SentCell
  PROVE  /\ cell.family \in Families /\ cell.qualifier \in Qualifiers /\ cell.meta \in Metas
         /\ cell.value \in CellValues /\ cell.value \in Seq(Bytes) /\ Content(cell) \in Cell
<1>1. /\ cell.family \in Families /\ cell.qualifier \in Qualifiers /\ cell.meta \in Metas
      /\ cell.value \in CellValues
  BY DEF SentCell
<1>2. cell.value \in Seq(Bytes)
  BY <1>1, EncodingAssumption
<1> QED BY <1>1, <1>2 DEF Content, Cell

\* A cell that is sent comes last of those of its family and qualifier.
LEMMA SentToAppended ==
  ASSUME NEW cells \in Seq(SentCell), NEW cell \in SentCell, NEW family, NEW qualifier
  PROVE  /\ SentTo(cells, family, qualifier) \in Seq(Cell)
         /\ SentTo(Append(cells, cell), family, qualifier)
              = IF IsOf(cell, family, qualifier) THEN Append(SentTo(cells, family, qualifier), Content(cell))
                ELSE SentTo(cells, family, qualifier)
<1>1. \A c \in SentCell : Content(c) \in Cell
  BY SentCellFields
<1> HIDE DEF SentCell, Cell
<1> QED BY <1>1, SentToAppend

\* Adding a cell to the columns of a family leaves other qualifiers alone.
LEMMA CellsInOthers ==
  ASSUME NEW columns \in Seq(Column), ColumnsOK(columns),
         NEW qualifier \in Qualifiers, NEW cell \in Cell, NEW other, other # qualifier
  PROVE  CellsIn(AddToColumns(columns, qualifier, cell), other) = CellsIn(columns, other)
<1> DEFINE added == AddToColumns(columns, qualifier, cell)
           new == [qualifier |-> qualifier, cells |-> <<cell>>]
           Same == CellsIn(added, other) = CellsIn(columns, other)
<1>1. added \in Seq(Column) /\ UniqueColumns(added) /\ UniqueColumns(columns)
  BY AddToColumnsOK DEF ColumnsOK
<1>2. ASSUME Len(columns) <= Len(added),
             \A k \in 1..Len(columns) : added[k].qualifier = columns[k].qualifier
                                       /\ (columns[k].qualifier = other => added[k] = columns[k]),
             \A k \in 1..Len(added) : k > Len(columns) => added[k].qualifier # other
      PROVE  Same
  <2> HIDE DEF added
  <2>0. DOMAIN columns = 1..Len(columns) /\ DOMAIN added = 1..Len(added) /\ Len(columns) \in Nat /\ Len(added) \in Nat
    BY <1>1
  <2>1. CASE \E k \in DOMAIN columns : columns[k].qualifier = other
    <3>1. PICK k \in 1..Len(columns) : columns[k].qualifier = other
      BY <2>0, <2>1
    <3>2. k \in DOMAIN added /\ added[k] = columns[k] /\ k \in DOMAIN columns
      BY <1>2, <2>0, <3>1
    <3>3. CellsIn(columns, other) = columns[k].cells
      BY <1>1, <3>1, <3>2, CellsInIs
    <3>4. CellsIn(added, other) = added[k].cells
      BY <1>1, <3>1, <3>2, CellsInIs
    <3> QED BY <3>2, <3>3, <3>4
  <2>2. CASE \A k \in DOMAIN columns : columns[k].qualifier # other
    <3>1. \A k \in DOMAIN added : added[k].qualifier # other
      BY <1>2, <2>0, <2>2
    <3>2. CellsIn(columns, other) = <<>>
      BY <1>1, <2>2, CellsInIs
    <3>3. CellsIn(added, other) = <<>>
      BY <1>1, <3>1, CellsInIs
    <3> QED BY <3>2, <3>3
  <2> QED BY <2>1, <2>2
<1>3. ASSUME NEW i \in DOMAIN columns, columns[i].qualifier = qualifier,
             added = [columns EXCEPT ![i] = [columns[i] EXCEPT !.cells = Append(columns[i].cells, cell)]]
      PROVE  Same
  <2> DEFINE grown == [columns[i] EXCEPT !.cells = Append(columns[i].cells, cell)]
  <2>1. columns[i] \in Column
    OBVIOUS
  <2>2. grown.qualifier = qualifier
    BY <1>3, <2>1 DEF Column
  <2>3. added = [columns EXCEPT ![i] = grown]
    BY <1>3
  <2> HIDE DEF grown, added
  <2>4. Len(added) = Len(columns) /\ \A k \in 1..Len(columns) : added[k] = IF k = i THEN grown ELSE columns[k]
    BY <2>3
  <2> HIDE DEF Same
  <2>5. Len(columns) \in Nat /\ Len(added) \in Nat
    BY <1>1
  <2> QED BY <1>2, <1>3, <2>2, <2>4, <2>5
<1>4. ASSUME added = Append(columns, new) PROVE Same
  <2>1. new.qualifier = qualifier
    OBVIOUS
  <2> HIDE DEF new, added
  <2>2. /\ Len(added) = Len(columns) + 1 /\ added[Len(columns) + 1] = new /\ Len(columns) \in Nat
        /\ \A k \in 1..Len(columns) : added[k] = columns[k]
    BY <1>4
  <2>3. \A k \in 1..Len(added) : k > Len(columns) => k = Len(columns) + 1
    BY <2>2
  <2> HIDE DEF Same
  <2> QED BY <1>2, <2>1, <2>2, <2>3
<1> HIDE DEF Same, new
<1>5. \/ \E i \in DOMAIN columns :
           /\ columns[i].qualifier = qualifier
           /\ added = [columns EXCEPT ![i] = [columns[i] EXCEPT !.cells = Append(columns[i].cells, cell)]]
      \/ added = Append(columns, new)
  BY AddToColumnsCases DEF new
<1>6. Same
  <2> HIDE DEF added
  <2> QED BY <1>3, <1>4, <1>5
<1> QED BY <1>6 DEF Same

\* Adding a cell to a row leaves every other family and qualifier alone.
LEMMA CellsOfOthers ==
  ASSUME NEW row, row.families \in Seq(Family), FamiliesOK(row.families),
         NEW family \in Families, NEW qualifier \in Qualifiers, NEW cell \in Cell,
         NEW grown, grown.families = AddCell(row.families, family, qualifier, cell),
         NEW f, NEW q, f # family \/ q # qualifier
  PROVE  CellsOf(grown, f, q) = CellsOf(row, f, q)
<1> DEFINE before == row.families
           after == grown.families
           Goal == CellsOf(grown, f, q) = CellsOf(row, f, q)
<1>1. after \in Seq(Family) /\ FamiliesOK(after)
  BY AddCellOK
<1>2. \/ \E i \in DOMAIN before :
           before[i].name = family /\ after = Grown(before, i, qualifier, cell)
      \/ /\ \A i \in DOMAIN before : before[i].name # family
         /\ after = Extended(before, family, qualifier, cell)
  BY AddCellCases
<1>a. \A k \in DOMAIN before : before[k].name = f => CellsOf(row, f, q) = CellsIn(before[k].columns, q)
  BY CellsOfIs
<1>b. (\A k \in DOMAIN before : before[k].name # f) => CellsOf(row, f, q) = <<>>
  BY CellsOfIs
<1>c. \A k \in DOMAIN after : after[k].name = f => CellsOf(grown, f, q) = CellsIn(after[k].columns, q)
  BY <1>1, CellsOfIs
<1>d. (\A k \in DOMAIN after : after[k].name # f) => CellsOf(grown, f, q) = <<>>
  BY <1>1, CellsOfIs
<1>e. before \in Seq(Family) /\ FamiliesOK(before)
  OBVIOUS
<1> HIDE DEF before, after
<1>3. ASSUME NEW i \in DOMAIN before, before[i].name = family, after = Grown(before, i, qualifier, cell)
      PROVE  Goal
  <2> DEFINE columns == before[i].columns
             more == AddToColumns(columns, qualifier, cell)
             grew == [before[i] EXCEPT !.columns = more]
  <2>1. before[i] \in Family
    BY <1>e
  <2>2. columns \in Seq(Column) /\ ColumnsOK(columns)
    BY <1>e, <2>1 DEF Family, FamiliesOK
  <2>3. grew.name = family /\ grew.columns = more
    BY <1>3, <2>1 DEF Family
  <2>4. after = [before EXCEPT ![i] = grew]
    BY <1>3 DEF Grown
  <2> HIDE DEF grew, more
  <2>5. /\ DOMAIN after = DOMAIN before /\ after[i] = grew
        /\ \A k \in DOMAIN before : k # i => after[k] = before[k]
    BY <1>e, <2>4
  <2>6. \A k \in DOMAIN before : after[k].name = before[k].name
    BY <1>3, <2>3, <2>5
  <2>7. ASSUME NEW k \in DOMAIN before, before[k].name = f PROVE Goal
    <3>1. CASE k # i
      BY <1>a, <1>c, <2>5, <2>7, <3>1
    <3>2. CASE k = i
      <4>1. f = family /\ q # qualifier
        BY <1>3, <2>7, <3>2
      <4>2. CellsIn(more, q) = CellsIn(columns, q)
        BY <2>2, <4>1, CellsInOthers DEF more
      <4>3. CellsOf(grown, f, q) = CellsIn(more, q)
        BY <1>c, <2>3, <2>5, <2>6, <2>7, <3>2
      <4>4. CellsOf(row, f, q) = CellsIn(columns, q)
        BY <1>a, <2>7, <3>2
      <4> QED BY <4>2, <4>3, <4>4
    <3> QED BY <3>1, <3>2
  <2>8. CASE \A k \in DOMAIN before : before[k].name # f
    BY <1>b, <1>d, <2>5, <2>6, <2>8
  <2> QED BY <2>7, <2>8
<1>4. ASSUME \A i \in DOMAIN before : before[i].name # family,
             after = Extended(before, family, qualifier, cell)
      PROVE  Goal
  <2> DEFINE more == AddToColumns(<<>>, qualifier, cell)
             new == [name |-> family, columns |-> more]
             m == Len(before) + 1
  <2>1. after = Append(before, new)
    BY <1>4 DEF Extended
  <2>2. new.name = family /\ new.columns = more
    OBVIOUS
  <2> HIDE DEF new
  <2>3. /\ DOMAIN before = 1..Len(before) /\ DOMAIN after = 1..m /\ after[m] = new
        /\ \A k \in DOMAIN before : k \in DOMAIN after /\ after[k] = before[k]
        /\ \A k \in DOMAIN after : k = m \/ k \in DOMAIN before
        /\ m \in DOMAIN after
    BY <1>e, <2>1
  <2> HIDE DEF m
  <2>4. ASSUME NEW k \in DOMAIN before, before[k].name = f PROVE Goal
    <3>1. k \in DOMAIN after /\ after[k] = before[k]
      BY <2>3
    <3> QED BY <1>a, <1>c, <2>4, <3>1
  <2>5. CASE \A k \in DOMAIN before : before[k].name # f
    <3>1. CellsOf(row, f, q) = <<>>
      BY <1>b, <2>5
    <3>2. CASE f = family
      <4> DEFINE none == <<>>
      <4>1. none \in Seq(Column) /\ ColumnsOK(none) /\ UniqueColumns(none)
        BY DEF ColumnsOK, UniqueColumns
      <4>2. \A k \in DOMAIN none : none[k].qualifier # q
        OBVIOUS
      <4>3. more = AddToColumns(none, qualifier, cell)
        OBVIOUS
      <4> HIDE DEF none, more
      <4>4. CellsIn(none, q) = <<>>
        BY <4>1, <4>2, CellsInIs
      <4>5. CellsIn(more, q) = CellsIn(none, q)
        BY <3>2, <4>1, <4>3, CellsInOthers
      <4>6. CellsOf(grown, f, q) = CellsIn(more, q)
        BY <1>c, <2>2, <2>3, <3>2
      <4> QED BY <3>1, <4>4, <4>5, <4>6
    <3>3. CASE f # family
      <4>1. \A k \in DOMAIN after : after[k].name # f
        BY <2>2, <2>3, <2>5, <3>3
      <4> QED BY <1>d, <3>1, <4>1
    <3> QED BY <3>2, <3>3
  <2> QED BY <2>4, <2>5
<1> HIDE DEF Goal
<1>5. Goal
  BY <1>2, <1>3, <1>4 DEF before, after
<1> QED BY <1>5 DEF Goal

\* A row has, family by family and column by column, the cells sent, and no
\* family more.
Rebuilt(row, cells) ==
  /\ \A family \in Families, qualifier \in Qualifiers :
       CellsOf(row, family, qualifier) = SentTo(cells, family, qualifier)
  /\ \A i \in DOMAIN row.families : \E j \in DOMAIN cells : cells[j].family = row.families[i].name
  /\ \A j \in DOMAIN cells : \E i \in DOMAIN row.families : row.families[i].name = cells[j].family

\* A row without families has all of no cells.
LEMMA RebuiltEmpty ==
  ASSUME NEW row, row.families = <<>>
  PROVE  Rebuilt(row, <<>>)
<1>1. ASSUME NEW family, NEW qualifier PROVE CellsOf(row, family, qualifier) = <<>>
  <2> DEFINE none == row.families
  <2>1. row.families \in Seq(Family) /\ FamiliesOK(row.families) /\ \A k \in DOMAIN none : none[k].name # family
    BY DEF FamiliesOK, UniqueFamilies
  <2> QED BY <2>1, CellsOfIs
<1>2. ASSUME NEW family, NEW qualifier PROVE SentTo(<<>>, family, qualifier) = <<>>
  BY DEF SentTo, FlattenSeq
<1> QED BY <1>1, <1>2 DEF Rebuilt

\* finish_cell keeps a row equal to the cells sent.
LEMMA RebuiltAdd ==
  ASSUME NEW row, row.families \in Seq(Family), FamiliesOK(row.families),
         NEW cells \in Seq(SentCell), Rebuilt(row, cells), NEW cell \in SentCell,
         NEW grown, grown.families = AddCell(row.families, cell.family, cell.qualifier, Content(cell))
  PROVE  Rebuilt(grown, Append(cells, cell))
<1> DEFINE all == Append(cells, cell)
           before == row.families
           after == grown.families
           n == Len(cells) + 1
<1>1. cell.family \in Families /\ cell.qualifier \in Qualifiers /\ Content(cell) \in Cell
  BY SentCellFields
<1>2. ASSUME NEW f \in Families, NEW q \in Qualifiers
      PROVE  CellsOf(grown, f, q) = SentTo(all, f, q)
  <2>1. CellsOf(row, f, q) = SentTo(cells, f, q)
    BY DEF Rebuilt
  <2>s. SentTo(all, f, q) = IF IsOf(cell, f, q) THEN Append(SentTo(cells, f, q), Content(cell))
                            ELSE SentTo(cells, f, q)
    BY SentToAppended
  <2>2. CASE IsOf(cell, f, q)
    <3>1. cell.family = f /\ cell.qualifier = q
      BY <2>2 DEF IsOf
    <3>2. CellsOf(grown, f, q) = Append(CellsOf(row, f, q), Content(cell))
      BY <1>1, <3>1, CellsOfAdded
    <3>3. SentTo(all, f, q) = Append(SentTo(cells, f, q), Content(cell))
      BY <2>2, <2>s
    <3> QED BY <2>1, <3>2, <3>3
  <2>3. CASE ~IsOf(cell, f, q)
    <3>1. f # cell.family \/ q # cell.qualifier
      BY <2>3 DEF IsOf
    <3>2. CellsOf(grown, f, q) = CellsOf(row, f, q)
      BY <1>1, <3>1, CellsOfOthers
    <3>3. SentTo(all, f, q) = SentTo(cells, f, q)
      BY <2>3, <2>s
    <3> QED BY <2>1, <3>2, <3>3
  <2> QED BY <2>2, <2>3
<1>3. /\ DOMAIN all = 1..n /\ DOMAIN cells = 1..Len(cells) /\ n \in DOMAIN all /\ all[n] = cell
      /\ \A j \in DOMAIN cells : j \in DOMAIN all /\ all[j] = cells[j]
      /\ \A j \in DOMAIN all : j = n \/ j \in DOMAIN cells
  OBVIOUS
<1>4. /\ \A i \in DOMAIN before : \E j \in DOMAIN cells : cells[j].family = before[i].name
      /\ \A j \in DOMAIN cells : \E i \in DOMAIN before : before[i].name = cells[j].family
  BY DEF Rebuilt
<1>5. /\ \A i \in DOMAIN before : i \in DOMAIN after /\ after[i].name = before[i].name
      /\ \A i \in DOMAIN after : i \in DOMAIN before \/ after[i].name = cell.family
      /\ \E i \in DOMAIN after : after[i].name = cell.family
  <2>1. \/ \E i \in DOMAIN before :
             before[i].name = cell.family /\ after = Grown(before, i, cell.qualifier, Content(cell))
        \/ after = Extended(before, cell.family, cell.qualifier, Content(cell))
    BY AddCellCases
  <2>a. before \in Seq(Family)
    OBVIOUS
  <2> HIDE DEF before, after
  <2>2. ASSUME NEW i \in DOMAIN before, before[i].name = cell.family,
               after = Grown(before, i, cell.qualifier, Content(cell))
        PROVE  /\ \A k \in DOMAIN before : k \in DOMAIN after /\ after[k].name = before[k].name
               /\ DOMAIN after = DOMAIN before
    <3> DEFINE grew == [before[i] EXCEPT !.columns = AddToColumns(before[i].columns, cell.qualifier, Content(cell))]
    <3>1. before[i] \in Family
      BY <2>a
    <3>2. grew.name = before[i].name
      BY <3>1 DEF Family
    <3>3. after = [before EXCEPT ![i] = grew]
      BY <2>2 DEF Grown
    <3> HIDE DEF grew
    <3> QED BY <2>a, <3>2, <3>3
  <2>3. ASSUME after = Extended(before, cell.family, cell.qualifier, Content(cell))
        PROVE  /\ \A k \in DOMAIN before : k \in DOMAIN after /\ after[k] = before[k]
               /\ \A k \in DOMAIN after : k \in DOMAIN before \/ after[k].name = cell.family
               /\ \E k \in DOMAIN after : after[k].name = cell.family
    <3> DEFINE new == [name |-> cell.family, columns |-> AddToColumns(<<>>, cell.qualifier, Content(cell))]
               m == Len(before) + 1
    <3>1. after = Append(before, new) /\ new.name = cell.family
      BY <2>3 DEF Extended
    <3> HIDE DEF new
    <3>2. /\ after[m] = new /\ m \in DOMAIN after
          /\ \A k \in DOMAIN before : k \in DOMAIN after /\ after[k] = before[k]
          /\ \A k \in DOMAIN after : k = m \/ k \in DOMAIN before
      BY <2>a, <3>1
    <3> QED BY <3>1, <3>2
  <2> QED BY <2>1, <2>2, <2>3
<1> HIDE DEF all, before, after, n
<1>6. \A i \in DOMAIN after : \E j \in DOMAIN all : all[j].family = after[i].name
  <2> TAKE i \in DOMAIN after
  <2>1. CASE i \in DOMAIN before
    <3>1. PICK j \in DOMAIN cells : cells[j].family = before[i].name
      BY <1>4, <2>1
    <3> QED BY <1>3, <1>5, <2>1, <3>1
  <2>2. CASE after[i].name = cell.family
    BY <1>3, <2>2
  <2> QED BY <1>5, <2>1, <2>2
<1>7. \A j \in DOMAIN all : \E i \in DOMAIN after : after[i].name = all[j].family
  <2> TAKE j \in DOMAIN all
  <2>1. CASE j = n
    BY <1>3, <1>5, <2>1
  <2>2. CASE j \in DOMAIN cells
    <3>1. PICK i \in DOMAIN before : before[i].name = cells[j].family
      BY <1>4, <2>2
    <3> QED BY <1>3, <1>5, <2>2, <3>1
  <2> QED BY <1>3, <2>1, <2>2
<1> QED BY <1>2, <1>6, <1>7 DEF Rebuilt, all, after

\* The last element of a sequence and the ones before it.
LEMMA AppendEnds ==
  ASSUME NEW S, NEW s \in Seq(S), NEW e \in S
  PROVE  Last(Append(s, e)) = e /\ Front(Append(s, e)) = s /\ Append(s, e) # <<>>
<1> DEFINE a == Append(s, e)
<1>1. a \in Seq(S) /\ Len(a) = Len(s) + 1 /\ a[Len(a)] = e /\ \A i \in 1..Len(s) : a[i] = s[i]
  OBVIOUS
<1>2. Front(a) = SubSeq(a, 1, Len(a) - 1) /\ Last(a) = a[Len(a)]
  BY DEF Front, Last
<1> HIDE DEF a
<1>3. Len(s) \in Nat /\ Len(a) - 1 = Len(s)
  BY <1>1
<1>4. SubSeq(a, 1, Len(s)) = s
  <2> DEFINE f == SubSeq(a, 1, Len(s))
  <2>1. f \in Seq(S) /\ Len(f) = Len(s) /\ \A i \in 1..Len(s) : f[i] = a[i]
    BY <1>1, <1>3
  <2> HIDE DEF f
  <2>2. f = s
    BY <1>1, <2>1, SeqEqual
  <2> QED BY <2>2 DEF f
<1>5. a # <<>>
  BY <1>1, <1>3
<1> QED BY <1>1, <1>2, <1>3, <1>4, <1>5 DEF a

\* A sequence is its last element after the ones before it.
LEMMA FrontLast ==
  ASSUME NEW S, NEW s \in Seq(S), s # <<>>
  PROVE  Front(s) \in Seq(S) /\ Last(s) \in S /\ Append(Front(s), Last(s)) = s
<1> DEFINE n == Len(s)
           f == SubSeq(s, 1, n - 1)
<1>1. n \in Nat /\ n # 0
  BY EmptySeq
<1>2. f \in Seq(S) /\ Len(f) = n - 1 /\ \A i \in 1..(n - 1) : f[i] = s[i]
  <2> DEFINE m == n - 1
  <2>1. m \in Nat /\ m \in Int /\ 1 \in Int /\ \A i \in 1..m : s[i] \in S
    BY <1>1
  <2> HIDE DEF m
  <2>2. /\ SubSeq(s, 1, m) \in Seq(S)
        /\ Len(SubSeq(s, 1, m)) = IF 1 <= m THEN m - 1 + 1 ELSE 0
        /\ \A i \in 1..(m - 1 + 1) : SubSeq(s, 1, m)[i] = s[1 + i - 1]
    BY <2>1, SubSeqProperties
  <2>3. (IF 1 <= m THEN m - 1 + 1 ELSE 0) = m /\ m - 1 + 1 = m /\ \A i \in 1..m : 1 + i - 1 = i
    BY <2>1
  <2>4. f = SubSeq(s, 1, m)
    BY DEF m
  <2> HIDE DEF f
  <2>5. f \in Seq(S) /\ Len(f) = m /\ \A i \in 1..m : f[i] = s[i]
    BY <2>2, <2>3, <2>4
  <2> QED BY <2>5 DEF m
<1>3. Front(s) = f /\ Last(s) = s[n] /\ s[n] \in S
  BY <1>1 DEF Front, Last
<1> HIDE DEF f, n
<1>4. Append(f, s[n]) = s
  <2> DEFINE a == Append(f, s[n])
  <2>1. a \in Seq(S) /\ Len(a) = n /\ \A i \in 1..n : a[i] = IF i = n THEN s[n] ELSE f[i]
    BY <1>1, <1>2, <1>3
  <2> HIDE DEF a
  <2>2. \A i \in 1..n : a[i] = s[i]
    BY <1>1, <1>2, <2>1
  <2>3. a = s
    BY <2>1, <2>2, SeqEqual DEF n
  <2> QED BY <2>3 DEF a
<1> QED BY <1>2, <1>3, <1>4

\* The pieces of a value, put together in order, are the value.
LEMMA Pieces ==
  ASSUME NEW S, NEW v \in Seq(S), NEW from \in 0..Len(v), NEW to \in from..Len(v)
  PROVE  /\ SubSeq(v, from + 1, to) \in Seq(S) /\ Len(SubSeq(v, from + 1, to)) = to - from
         /\ SubSeq(v, 1, from) \o SubSeq(v, from + 1, to) = SubSeq(v, 1, to)
         /\ SubSeq(v, 1, Len(v)) = v
<1> DEFINE a == SubSeq(v, 1, from)
           b == SubSeq(v, from + 1, to)
           c == SubSeq(v, 1, to)
<1>1. from \in Nat /\ to \in Nat /\ Len(v) \in Nat /\ from <= to /\ to <= Len(v)
  OBVIOUS
<1>2. a \in Seq(S) /\ Len(a) = from /\ \A i \in 1..from : a[i] = v[i]
  BY <1>1
<1>3. b \in Seq(S) /\ Len(b) = to - from /\ \A i \in 1..(to - from) : b[i] = v[from + i]
  <2> DEFINE m == from + 1
  <2>1. m \in Int /\ to \in Int /\ \A i \in m..to : v[i] \in S
    BY <1>1
  <2> HIDE DEF m
  <2>2. /\ SubSeq(v, m, to) \in Seq(S)
        /\ Len(SubSeq(v, m, to)) = IF m <= to THEN to - m + 1 ELSE 0
        /\ \A i \in 1..(to - m + 1) : SubSeq(v, m, to)[i] = v[m + i - 1]
    BY <2>1, SubSeqProperties
  <2>3. (IF m <= to THEN to - m + 1 ELSE 0) = to - from /\ to - m + 1 = to - from
    BY <1>1 DEF m
  <2>4. \A i \in 1..(to - from) : m + i - 1 = from + i
    BY <1>1 DEF m
  <2>5. b = SubSeq(v, m, to)
    BY DEF m
  <2> HIDE DEF b
  <2> QED BY <2>2, <2>3, <2>4, <2>5
<1>4. c \in Seq(S) /\ Len(c) = to /\ \A i \in 1..to : c[i] = v[i]
  BY <1>1
<1> HIDE DEF a, b, c
<1>5. a \o b = c
  <2> DEFINE d == a \o b
  <2>1. /\ d \in Seq(S) /\ Len(d) = to
        /\ \A i \in 1..to : d[i] = IF i <= from THEN a[i] ELSE b[i - from]
    BY <1>1, <1>2, <1>3
  <2> HIDE DEF d
  <2>2. ASSUME NEW i \in 1..to PROVE d[i] = c[i]
    <3>1. CASE i <= from
      BY <1>1, <1>2, <1>4, <2>1, <3>1
    <3>2. CASE ~(i <= from)
      <4>1. i - from \in 1..(to - from) /\ from + (i - from) = i
        BY <1>1, <3>2
      <4> QED BY <1>3, <1>4, <2>1, <3>2, <4>1
    <3> QED BY <3>1, <3>2
  <2>3. d = c
    BY <1>4, <2>1, <2>2, SeqEqual
  <2> QED BY <2>3 DEF d
<1>6. SubSeq(v, 1, Len(v)) = v
  <2> DEFINE w == SubSeq(v, 1, Len(v))
  <2>1. w \in Seq(S) /\ Len(w) = Len(v) /\ \A i \in 1..Len(v) : w[i] = v[i]
    BY <1>1
  <2> HIDE DEF w
  <2>2. w = v
    BY <2>1, SeqEqual
  <2> QED BY <2>2 DEF w
<1> QED BY <1>3, <1>5, <1>6 DEF a, b, c

-----------------------------------------------------------------------------
(* Where the merger is when the server has sent these cells of a row with  *)
(* key k, and o bytes of the last one.                                     *)

Building(m, k, cells) ==
  m.row.key = k /\ m.family = Last(cells).family /\ m.qualifier = Last(cells).qualifier

WholeCells(m, k, cells) == m.state = "NewCell" /\ Building(m, k, cells) /\ Rebuilt(m.row, cells)

PartialCell(m, k, cells, o) ==
  LET cell == Last(cells)
  IN  /\ m.state = "CellValue" /\ Building(m, k, cells) /\ Rebuilt(m.row, Front(cells))
      /\ m.meta = cell.meta /\ o \in 1..Len(cell.value)
      /\ m.value = SubSeq(cell.value, 1, o) /\ m.expected_value_size = Len(cell.value)

RowOut(m, row, k, cells) ==
  m.state = "NewRow" /\ m.last_complete_key = k /\ row.key = k /\ Rebuilt(row, cells)

Progress(m, rows, k, cells, o) ==
  \/ rows = {} /\ o = Complete /\ WholeCells(m, k, cells)
  \/ rows = {} /\ o # Complete /\ PartialCell(m, k, cells, o)
  \/ o = Complete /\ \E row \in rows : rows = {row} /\ RowOut(m, row, k, cells)

Accepted(outcome, k, cells, o) ==
  outcome.issue = "None" /\ Progress(outcome.merger, outcome.row, k, cells, o)

\* A chunk with the bytes of a value between two offsets.
IsPiece(chunk, value, from, to, o) ==
  /\ chunk.value = SubSeq(value, from + 1, to)
  /\ chunk.row_status \in {"None", "Commit"}
  /\ \/ to = Len(value) /\ chunk.value_size = 0 /\ o = Complete
     \/ from < to /\ chunk.value_size = Len(value) /\ chunk.row_status = "None" /\ o = to

\* The cell under construction joins the row, which goes on or is handed out.
LEMMA EndCellAccepted ==
  ASSUME NEW m \in MergerType, Active(m), NEW k, m.row.key = k,
         NEW cells \in Seq(SentCell), Rebuilt(m.row, cells), NEW cell \in SentCell,
         m.family = cell.family, m.qualifier = cell.qualifier,
         m.meta = cell.meta, m.value = cell.value, NEW chunk
  PROVE  Accepted(EndCell(m, chunk), k, Append(cells, cell), Complete)
<1> DEFINE content == [meta |-> m.meta, value |-> m.value]
           families == AddCell(m.row.families, m.family, m.qualifier, content)
           row == [key |-> m.row.key, families |-> families]
           f == FinishCell(m)
           all == Append(cells, cell)
<1>1. m.row \in ActiveRow /\ m.row.families \in Seq(Family) /\ FamiliesOK(m.row.families)
  BY DEF MergerType, ActiveRow, Active
<1>2. content = Content(cell) /\ content \in Cell
  <2>1. content = Content(cell)
    BY DEF Content
  <2> QED BY <2>1, SentCellFields
<1> HIDE DEF content
<1>3. families \in Seq(Family) /\ row \in ActiveRow /\ row.key = k /\ row.families = families
  <2>1. families \in Seq(Family)
    BY <1>1, <1>2, AddCellOK DEF Active
  <2> HIDE DEF families
  <2> QED BY <1>1, <2>1 DEF ActiveRow
<1>4. f = [m EXCEPT !.row = row, !.value = NoValue]
  <2>1. [m.row EXCEPT !.families = families] = row
    <3> HIDE DEF families
    <3> QED BY <1>1 DEF ActiveRow
  <2>2. f = [m EXCEPT !.row = [m.row EXCEPT !.families = families], !.value = NoValue]
    BY DEF FinishCell, MergerType, content
  <2> HIDE DEF families, row, f
  <2> QED BY <2>1, <2>2
<1>5. Rebuilt(row, all)
  <2>1. row.families = AddCell(m.row.families, cell.family, cell.qualifier, Content(cell))
    BY <1>2, <1>3
  <2> HIDE DEF families, row
  <2> QED BY <1>1, <2>1, RebuiltAdd
<1>6. Last(all) = cell
  BY AppendEnds
<1> HIDE DEF families, row, f, all
<1>7. f \in MergerType /\ f.row = row /\ f.family = m.family /\ f.qualifier = m.qualifier
  BY <1>3, <1>4, EmptyTypes DEF MergerType
<1>8. CASE chunk.row_status = "Commit"
  <2> DEFINE d == ClearCell(f)
             c == [d EXCEPT !.row = EmptyRow, !.last_complete_key = f.row.key, !.state = "NewRow"]
  <2>1. EndCell(m, chunk) = [merger |-> c, row |-> {f.row}, issue |-> "None"]
    BY <1>8 DEF EndCell, CommitRow, f
  <2>2. d \in MergerType
    BY <1>7, ClearCellFields
  <2>3. f.row.key = k /\ k \in Keys
    BY <1>3, <1>7 DEF Active
  <2> HIDE DEF d
  <2>4. c.state = "NewRow" /\ c.last_complete_key = k
    BY <2>2, <2>3 DEF MergerType
  <2> HIDE DEF c
  <2>5. RowOut(c, row, k, all)
    BY <1>3, <1>5, <2>4 DEF RowOut
  <2> DEFINE outcome == EndCell(m, chunk)
  <2>6. outcome.merger = c /\ outcome.row = {row} /\ outcome.issue = "None"
    BY <1>7, <2>1
  <2> HIDE DEF outcome
  <2>7. Accepted(outcome, k, all, Complete)
    BY <2>5, <2>6 DEF Accepted, Progress
  <2> QED BY <2>7 DEF outcome, all
<1>9. CASE chunk.row_status # "Commit"
  <2> DEFINE c == [f EXCEPT !.state = "NewCell"]
  <2>1. EndCell(m, chunk) = [merger |-> c, row |-> {}, issue |-> "None"]
    BY <1>9 DEF EndCell, Accept, f
  <2>2. c.state = "NewCell" /\ c.row = row /\ c.family = cell.family /\ c.qualifier = cell.qualifier
    BY <1>7 DEF MergerType
  <2> HIDE DEF c
  <2>3. WholeCells(c, k, all)
    BY <1>3, <1>5, <1>6, <2>2 DEF WholeCells, Building
  <2> DEFINE outcome == EndCell(m, chunk)
  <2>4. outcome.merger = c /\ outcome.row = {} /\ outcome.issue = "None"
    BY <2>1
  <2> HIDE DEF outcome
  <2>5. Accepted(outcome, k, all, Complete)
    BY <2>3, <2>4 DEF Accepted, Progress
  <2> QED BY <2>5 DEF outcome, all
<1> QED BY <1>8, <1>9

\* What the first chunk of a cell says of it, to a merger inside its row.
Begins(m, chunk, k, cell) ==
  /\ chunk.row_key \in {k, EmptyKey} /\ chunk.meta = cell.meta
  /\ chunk.family_name = cell.family \/ (chunk.family_name = NoName /\ m.family = cell.family)
  /\ chunk.qualifier = cell.qualifier
       \/ (chunk.family_name = NoName /\ chunk.qualifier = NoName /\ m.qualifier = cell.qualifier)

\* The first chunk of a cell is taken inside its row.
LEMMA StartCellAccepted ==
  ASSUME NEW m \in MergerType, Active(m), m.state = "NewCell", NEW k, m.row.key = k,
         NEW cells \in Seq(SentCell), Rebuilt(m.row, cells), NEW cell \in SentCell,
         NEW chunk \in Chunk, Begins(m, chunk, k, cell),
         NEW to \in 0..Len(cell.value), NEW o, IsPiece(chunk, cell.value, 0, to, o)
  PROVE  Accepted(StartCell(m, chunk), k, Append(cells, cell), o)
<1> DEFINE issue == StartCellIssue(m, chunk)
           family == IF chunk.family_name # NoName THEN chunk.family_name ELSE m.family
           qualifier == IF chunk.qualifier # NoName THEN chunk.qualifier ELSE m.qualifier
           new == [m EXCEPT !.family = family, !.qualifier = qualifier,
                            !.meta = chunk.meta, !.value = chunk.value]
           split == [new EXCEPT !.expected_value_size = chunk.value_size,
                                !.remaining_value_bytes = chunk.value_size - Len(chunk.value),
                                !.state = "CellValue"]
           all == Append(cells, cell)
<1>1. StartCell(m, chunk) = IF chunk.row_status = "Reset" THEN ResetRow(m, chunk)
                            ELSE IF issue # "None" THEN Reject(m, issue)
                            ELSE IF chunk.value_size > 0 THEN Accept(split)
                            ELSE EndCell(new, chunk)
  BY DEF StartCell, MergerType
<1>2. /\ cell.family \in Families /\ cell.qualifier \in Qualifiers /\ cell.value \in Seq(Bytes)
      /\ cell.family # NoName /\ cell.qualifier # NoName
  BY SentCellFields, NamesAssumption
<1>3. /\ family = cell.family /\ qualifier = cell.qualifier /\ chunk.meta = cell.meta
      /\ ~(chunk.family_name # NoName /\ chunk.qualifier = NoName)
  BY <1>2 DEF Begins
<1>4. /\ chunk.value = SubSeq(cell.value, 1, to) /\ Len(chunk.value) = to /\ chunk.value \in Seq(Bytes)
      /\ SubSeq(cell.value, 1, Len(cell.value)) = cell.value
  <2> DEFINE v == cell.value
  <2>1. v \in Seq(Bytes) /\ 0 \in 0..Len(v) /\ to \in 0..Len(v) /\ Len(v) \in Nat /\ to \in Nat
    BY <1>2
  <2>2. chunk.value = SubSeq(v, 0 + 1, to)
    BY DEF IsPiece
  <2> HIDE DEF v
  <2>3. /\ SubSeq(v, 0 + 1, to) \in Seq(Bytes) /\ Len(SubSeq(v, 0 + 1, to)) = to - 0
        /\ SubSeq(v, 1, Len(v)) = v
    BY <2>1, Pieces
  <2>4. 0 + 1 = 1 /\ to - 0 = to
    BY <2>1
  <2> QED BY <2>2, <2>3, <2>4 DEF v
<1>5. Len(cell.value) \in Nat /\ to \in Nat /\ to <= Len(cell.value)
  BY <1>2
<1>6. /\ chunk.row_status # "Reset"
      /\ \/ chunk.value_size = 0 /\ o = Complete /\ to = Len(cell.value)
         \/ /\ 0 < to /\ chunk.value_size = Len(cell.value) /\ 0 < chunk.value_size
            /\ chunk.row_status = "None" /\ o = to
  <2> DEFINE v == cell.value
  <2>1. /\ chunk.row_status \in {"None", "Commit"}
        /\ \/ to = Len(v) /\ chunk.value_size = 0 /\ o = Complete
           \/ 0 < to /\ chunk.value_size = Len(v) /\ chunk.row_status = "None" /\ o = to
    BY DEF IsPiece
  <2>2. to \in Nat /\ Len(v) \in Nat /\ to <= Len(v)
    BY <1>5
  <2>3. chunk.row_status # "Reset"
    BY <2>1
  <2> HIDE DEF v
  <2>4. 0 < to => 0 < Len(v)
    BY <2>2
  <2>5. \/ chunk.value_size = 0 /\ o = Complete /\ to = Len(v)
        \/ /\ 0 < to /\ chunk.value_size = Len(v) /\ 0 < chunk.value_size
           /\ chunk.row_status = "None" /\ o = to
    BY <2>1, <2>4
  <2> QED BY <2>3, <2>5 DEF v
<1>7. issue = "None"
  <2>1. chunk.row_key \in {EmptyKey, m.row.key}
    BY DEF Begins
  <2>2. chunk.value_size # 0 => chunk.value # <<>>
    <3>1. chunk.value_size # 0 => Len(chunk.value) > 0
      BY <1>4, <1>6
    <3> QED BY <1>4, <3>1
  <2>3. chunk.value_size # 0 =>
          ~(chunk.value_size < 0) /\ chunk.row_status # "Commit" /\ ~(Len(chunk.value) > chunk.value_size)
    BY <1>4, <1>5, <1>6
  <2>4. ~(chunk.value_size < 0)
    BY <1>5, <1>6
  <2> QED BY <1>3, <2>1, <2>2, <2>3, <2>4 DEF StartCellIssue
<1> HIDE DEF issue, family, qualifier
<1>8. /\ new \in MergerType /\ new.family = cell.family /\ new.qualifier = cell.qualifier
      /\ new.row = m.row /\ new.reversed = m.reversed /\ new.meta = cell.meta
      /\ new.last_complete_key = m.last_complete_key /\ new.value = chunk.value
  BY <1>2, <1>3, <1>4, ChunkFields DEF MergerType
<1>9. Active(new)
  BY <1>2, <1>8 DEF Active, OutOfOrder
<1>10. CASE chunk.value_size = 0
  <2>1. StartCell(m, chunk) = EndCell(new, chunk)
    BY <1>1, <1>6, <1>7, <1>10
  <2> HIDE DEF new
  <2>2. new.value = cell.value /\ o = Complete
    BY <1>4, <1>6, <1>8, <1>10
  <2>3. Accepted(EndCell(new, chunk), k, Append(cells, cell), Complete)
    BY <1>8, <1>9, <2>2, EndCellAccepted
  <2> QED BY <2>1, <2>2, <2>3
<1>11. CASE chunk.value_size # 0
  <2>1. StartCell(m, chunk) = Accept(split)
    BY <1>1, <1>5, <1>6, <1>7, <1>11
  <2> DEFINE remaining == chunk.value_size - Len(chunk.value)
  <2>2. split = [new EXCEPT !.expected_value_size = chunk.value_size,
                            !.remaining_value_bytes = remaining, !.state = "CellValue"]
    OBVIOUS
  <2>3. Last(all) = cell /\ Front(all) = cells
    BY AppendEnds
  <2> HIDE DEF remaining, new, split, all
  <2>4. /\ split.state = "CellValue" /\ split.row = m.row /\ split.family = cell.family
        /\ split.qualifier = cell.qualifier /\ split.meta = cell.meta /\ split.value = chunk.value
        /\ split.expected_value_size = chunk.value_size
    BY <1>8, <2>2 DEF MergerType
  <2>5. PartialCell(split, k, all, o)
    <3>1. o = to /\ o \in 1..Len(cell.value) /\ chunk.value_size = Len(cell.value)
      BY <1>5, <1>6, <1>11
    <3> QED BY <1>4, <2>3, <2>4, <3>1 DEF PartialCell, Building
  <2>6. o # Complete
    BY <1>5, <1>6, <1>11 DEF Complete
  <2>7. Accepted(Accept(split), k, all, o)
    BY <2>5, <2>6 DEF Accepted, Accept, Progress
  <2> QED BY <2>1, <2>7 DEF all
<1> QED BY <1>10, <1>11

\* The first chunk of a row is taken between rows, if its key is ahead.
LEMMA StartRowAccepted ==
  ASSUME NEW m, MergerOK(m), m.state = "NewRow", NEW k \in Keys, ~OutOfOrder(m, k),
         NEW cells, cells = <<>>, NEW cell \in SentCell, NEW chunk \in Chunk,
         chunk.row_key = k, chunk.family_name = cell.family, chunk.qualifier = cell.qualifier,
         chunk.meta = cell.meta,
         NEW to \in 0..Len(cell.value), NEW o, IsPiece(chunk, cell.value, 0, to, o)
  PROVE  Accepted(StartRow(m, chunk), k, Append(cells, cell), o)
<1> DEFINE issue == StartRowIssue(m, chunk)
           row == [key |-> chunk.row_key, families |-> <<>>]
           n == [m EXCEPT !.row = row, !.family = chunk.family_name,
                          !.qualifier = chunk.qualifier, !.state = "NewCell"]
<1>1. StartRow(m, chunk) = IF issue # "None" THEN Reject(m, issue) ELSE StartCell(n, chunk)
  BY DEF StartRow
<1>2. /\ cell.family \in Families /\ cell.qualifier \in Qualifiers /\ k # EmptyKey
      /\ cell.family # NoName /\ cell.qualifier # NoName
  BY SentCellFields, NamesAssumption, KeysAreKeys
<1>3. chunk.row_status # "Reset"
  BY DEF IsPiece
<1>4. issue = "None"
  BY <1>2, <1>3 DEF StartRowIssue
<1>5. row \in ActiveRow /\ row.key = k /\ row.families = <<>> /\ FamiliesOK(row.families)
  BY DEF ActiveRow, FamiliesOK, UniqueFamilies
<1>6. cells \in Seq(SentCell)
  OBVIOUS
<1>7. Rebuilt(row, cells)
  BY <1>5, RebuiltEmpty
<1> HIDE DEF row
<1>8. /\ n \in MergerType /\ n.state = "NewCell" /\ n.row = row /\ n.family = cell.family
      /\ n.qualifier = cell.qualifier /\ n.reversed = m.reversed
      /\ n.last_complete_key = m.last_complete_key
  BY <1>2, <1>5 DEF MergerOK, MergerType
<1> HIDE DEF n, issue
<1>9. Active(n)
  BY <1>2, <1>5, <1>8 DEF Active, OutOfOrder
<1>10. Begins(n, chunk, k, cell)
  BY DEF Begins
<1>11. Accepted(StartCell(n, chunk), k, Append(cells, cell), o)
  BY <1>5, <1>6, <1>7, <1>8, <1>9, <1>10, StartCellAccepted
<1> QED BY <1>1, <1>4, <1>11

\* A further chunk of a split value is taken.
LEMMA ContinueAccepted ==
  ASSUME NEW m, MergerOK(m), NEW k, NEW cells \in Seq(SentCell), cells # <<>>,
         NEW from, PartialCell(m, k, cells, from), NEW chunk \in Chunk, ~HasMetadata(chunk),
         NEW to \in from..Len(Last(cells).value), NEW o, IsPiece(chunk, Last(cells).value, from, to, o)
  PROVE  Accepted(ContinueCell(m, chunk), k, cells, o)
<1> DEFINE issue == ContinueCellIssue(m, chunk)
           value == m.value \o chunk.value
           remaining == m.remaining_value_bytes - Len(chunk.value)
           new == [m EXCEPT !.value = value, !.remaining_value_bytes = remaining]
           cell == Last(cells)
           v == cell.value
           size == Len(v)
<1>1. ContinueCell(m, chunk) = IF chunk.row_status = "Reset" THEN ResetRow(m, chunk)
                               ELSE IF issue # "None" THEN Reject(m, issue)
                               ELSE IF chunk.value_size > 0 THEN Accept(new)
                               ELSE EndCell(new, chunk)
  BY DEF ContinueCell
<1>2. Front(cells) \in Seq(SentCell) /\ cell \in SentCell /\ Append(Front(cells), cell) = cells
  BY FrontLast
<1>3. /\ m.state = "CellValue" /\ Building(m, k, cells) /\ Rebuilt(m.row, Front(cells))
      /\ m.meta = cell.meta /\ from \in 1..size
      /\ m.value = SubSeq(v, 1, from) /\ m.expected_value_size = size
  BY DEF PartialCell
<1>4. m \in MergerType /\ Active(m) /\ Len(m.value) + m.remaining_value_bytes = m.expected_value_size
      /\ m.remaining_value_bytes \in Nat
  BY <1>3 DEF MergerOK, Accounting, MergerType
<1> HIDE DEF cell
<1>5. v \in Seq(Bytes) /\ size \in Nat
  BY <1>2, SentCellFields
<1>6. IsPiece(chunk, v, from, to, o) /\ to \in from..size
  BY DEF cell
<1> HIDE DEF v
<1>7. /\ Len(m.value) = from /\ Len(chunk.value) = to - from
      /\ value = SubSeq(v, 1, to) /\ SubSeq(v, 1, size) = v /\ value \in Seq(Bytes)
  <2>1. from \in 0..Len(v) /\ to \in from..Len(v) /\ 0 \in 0..Len(v) /\ from \in 0..Len(v) /\ to \in 0..Len(v)
    BY <1>3, <1>5, <1>6
  <2>2. chunk.value = SubSeq(v, from + 1, to)
    BY <1>6 DEF IsPiece
  <2>3. /\ Len(SubSeq(v, from + 1, to)) = to - from
        /\ SubSeq(v, 1, from) \o SubSeq(v, from + 1, to) = SubSeq(v, 1, to) /\ SubSeq(v, 1, Len(v)) = v
    BY <1>5, <2>1, Pieces
  <2>4. \A n \in 0..Len(v) : SubSeq(v, 1, n) \in Seq(Bytes) /\ Len(SubSeq(v, 1, n)) = n
    BY <1>5
  <2> QED BY <1>3, <2>1, <2>2, <2>3, <2>4
<1>8. from \in Nat /\ to \in Nat /\ from <= to /\ to <= size /\ m.remaining_value_bytes = size - from
  BY <1>3, <1>4, <1>5, <1>6, <1>7
<1> HIDE DEF value
<1>9. remaining = size - to
  BY <1>5, <1>7, <1>8
<1>10. /\ chunk.row_status # "Reset"
       /\ \/ chunk.value_size = 0 /\ o = Complete /\ to = size
          \/ /\ chunk.value_size = size /\ 0 < size /\ chunk.row_status = "None" /\ o = to /\ from < to
  <2>1. /\ chunk.row_status \in {"None", "Commit"}
        /\ \/ to = size /\ chunk.value_size = 0 /\ o = Complete
           \/ from < to /\ chunk.value_size = size /\ chunk.row_status = "None" /\ o = to
    BY <1>6 DEF IsPiece
  <2>2. chunk.row_status # "Reset"
    BY <2>1
  <2>3. from < to => 0 < size
    BY <1>5, <1>8
  <2> QED BY <2>1, <2>2, <2>3
<1> HIDE DEF size
<1>11. issue = "None"
  <2>1. ~(chunk.value_size < 0) /\ ~(Len(chunk.value) > m.remaining_value_bytes)
    BY <1>5, <1>7, <1>8, <1>10
  <2>2. chunk.value_size = 0 => Len(chunk.value) = m.remaining_value_bytes
    BY <1>5, <1>7, <1>8, <1>10
  <2>3. chunk.value_size # 0 => chunk.value_size = m.expected_value_size /\ chunk.row_status # "Commit"
    BY <1>3, <1>10
  <2> QED BY <2>1, <2>2, <2>3 DEF ContinueCellIssue
<1> HIDE DEF remaining, issue
<1>12. /\ new \in MergerType /\ new.value = value /\ new.state = m.state
       /\ new.expected_value_size = m.expected_value_size /\ new.row = m.row /\ new.meta = m.meta
       /\ new.family = m.family /\ new.qualifier = m.qualifier
       /\ new.reversed = m.reversed /\ new.last_complete_key = m.last_complete_key
  <2>1. remaining \in Nat
    BY <1>5, <1>8, <1>9
  <2> QED BY <1>4, <1>7, <2>1 DEF MergerType
<1> HIDE DEF new
<1>13. Active(new)
  BY <1>4, <1>12 DEF Active, OutOfOrder
<1>14. CASE chunk.value_size = 0
  <2>1. ContinueCell(m, chunk) = EndCell(new, chunk)
    BY <1>1, <1>10, <1>11, <1>14
  <2>2. new.value = v /\ o = Complete
    BY <1>5, <1>7, <1>10, <1>12, <1>14
  <2>3. /\ new.row.key = k /\ new.family = cell.family /\ new.qualifier = cell.qualifier
        /\ new.meta = cell.meta /\ new.value = cell.value
    BY <1>3, <1>12, <2>2 DEF Building, cell, v
  <2>4. Accepted(EndCell(new, chunk), k, Append(Front(cells), cell), Complete)
    BY <1>2, <1>3, <1>12, <1>13, <2>3, EndCellAccepted
  <2> QED BY <1>2, <2>1, <2>2, <2>4
<1>15. CASE chunk.value_size # 0
  <2>1. ContinueCell(m, chunk) = Accept(new)
    BY <1>1, <1>5, <1>10, <1>11, <1>15
  <2>2. o = to /\ o \in 1..size /\ o # Complete
    BY <1>5, <1>8, <1>10, <1>15 DEF Complete
  <2>3. PartialCell(new, k, cells, o)
    BY <1>3, <1>7, <1>12, <2>2 DEF PartialCell, Building, cell, v, size
  <2>4. Accepted(Accept(new), k, cells, o)
    BY <2>2, <2>3 DEF Accepted, Accept, Progress
  <2> QED BY <2>1, <2>4
<1> QED BY <1>14, <1>15

-----------------------------------------------------------------------------
(* A server that keeps the protocol, and the merger.                       *)

\* Wherever the server may start a row, the merger is behind.
StartsAhead == \A k \in Keys : MayStart(k) => ~OutOfOrder(merger, k)

\* NeverRejects and RowRebuilt are inductive together with where the merger is
\* while the server is between rows, within a row, and within a value.
EncodingInv ==
  /\ Inv /\ NeverRejects
  /\ sending \in Keys \cup {NoKey} /\ sent \in Seq(SentCell) /\ resets \in Nat
  /\ sent = <<>> => merger.state = "NewRow" /\ result.row = {} /\ offset = Complete /\ StartsAhead
  /\ sent # <<>> => sending \in Keys /\ Progress(merger, result.row, sending, sent, offset)

\* A chunk without the bytes of a value.
Header ==
  [row_key : Keys \cup {EmptyKey}, family_name : Families \cup {NoName},
   qualifier : Qualifiers \cup {NoName}, meta : Metas, value : {<<>>},
   value_size : {0}, row_status : {"None"}]

\* SendPiece gives the merger a chunk with the bytes between two offsets.
LEMMA PieceSent ==
  ASSUME NEW header \in Header, NEW value \in CellValues,
         NEW from \in 0..Len(value), NEW to \in from..Len(value),
         SendPiece(header, value, from, to)
  PROVE  \E chunk \in Chunk :
           /\ Receive(chunk) /\ IsPiece(chunk, value, from, to, offset')
           /\ chunk.row_key = header.row_key /\ chunk.family_name = header.family_name
           /\ chunk.qualifier = header.qualifier /\ chunk.meta = header.meta
<1> DEFINE bytes == SubSeq(value, from + 1, to)
           piece == [header EXCEPT !.value = bytes]
           size == Len(value)
           SameNames(chunk) == /\ chunk.row_key = header.row_key /\ chunk.family_name = header.family_name
                               /\ chunk.qualifier = header.qualifier /\ chunk.meta = header.meta
<1>1. bytes \in Values /\ size \in Sizes /\ 0 \in Sizes
  <2>1. value \in Seq(Bytes) /\ to \in 0..Len(value)
    <3>1. value \in Seq(Bytes)
      BY EncodingAssumption
    <3> QED BY <3>1
  <2> QED BY <2>1, EncodingAssumption
<1>2. \/ /\ to = Len(value) /\ offset' = Complete
         /\ \E status \in {"None", "Commit"} : Receive([piece EXCEPT !.row_status = status])
      \/ to > from /\ offset' = to /\ Receive([piece EXCEPT !.value_size = size])
  BY DEF SendPiece
<1>w. bytes = SubSeq(value, from + 1, to)
  OBVIOUS
<1> HIDE DEF bytes, size
<1>3. /\ piece \in Chunk /\ SameNames(piece) /\ piece.value = bytes /\ piece.value_size = 0
      /\ piece.row_status = "None"
  BY <1>1 DEF Header, Chunk
<1> HIDE DEF piece
<1>4. ASSUME to = Len(value), offset' = Complete, NEW status \in {"None", "Commit"},
             Receive([piece EXCEPT !.row_status = status])
      PROVE  \E chunk \in Chunk : Receive(chunk) /\ IsPiece(chunk, value, from, to, offset') /\ SameNames(chunk)
  <2> DEFINE chunk == [piece EXCEPT !.row_status = status]
  <2>1. /\ chunk \in Chunk /\ SameNames(chunk) /\ chunk.value = bytes /\ chunk.value_size = 0
        /\ chunk.row_status = status
    BY <1>3 DEF Chunk
  <2>2. Receive(chunk)
    BY <1>4
  <2> HIDE DEF chunk
  <2>3. IsPiece(chunk, value, from, to, offset')
    BY <1>4, <1>w, <2>1 DEF IsPiece
  <2> QED BY <2>1, <2>2, <2>3
<1>5. ASSUME to > from, offset' = to, Receive([piece EXCEPT !.value_size = size])
      PROVE  \E chunk \in Chunk : Receive(chunk) /\ IsPiece(chunk, value, from, to, offset') /\ SameNames(chunk)
  <2> DEFINE chunk == [piece EXCEPT !.value_size = size]
  <2>1. /\ chunk \in Chunk /\ SameNames(chunk) /\ chunk.value = bytes /\ chunk.value_size = size
        /\ chunk.row_status = "None"
    BY <1>1, <1>3 DEF Chunk
  <2>2. Receive(chunk)
    BY <1>5
  <2> HIDE DEF chunk
  <2>3. IsPiece(chunk, value, from, to, offset')
    BY <1>5, <1>w, <2>1 DEF IsPiece, size
  <2> QED BY <2>1, <2>2, <2>3
<1> QED BY <1>2, <1>4, <1>5

\* A chunk the merger accepts keeps the invariant.
LEMMA AcceptedStep ==
  ASSUME Inv, NEW chunk \in Chunk, Receive(chunk),
         sending' \in Keys, sent' \in Seq(SentCell), sent' # <<>>, resets' \in Nat,
         Accepted(PushChunk(merger, chunk), sending', sent', offset')
  PROVE  EncodingInv'
<1> DEFINE outcome == PushChunk(merger, chunk)
<1>1. OutcomeOK(merger, outcome)
  BY PushChunkOK DEF Inv
<1>2. Inv'
  BY <1>1, ReceiveKeepsInv
<1>3. merger' = outcome.merger /\ result' = [row |-> outcome.row, issue |-> outcome.issue]
  BY DEF Receive, Apply, Returned
<1>4. Accepted(outcome, sending', sent', offset')
  OBVIOUS
<1> HIDE DEF outcome
<1>5. result'.row = outcome.row /\ result'.issue = "None"
  BY <1>3, <1>4 DEF Accepted
<1> QED BY <1>2, <1>3, <1>4, <1>5 DEF EncodingInv, NeverRejects, Accepted

\* Within a row that is not out the merger is within that row.
LEMMA WithinRow ==
  ASSUME EncodingInv, sent # <<>>, result.row = {}
  PROVE  /\ sending \in Keys /\ MergerOK(merger) /\ merger.row.key = sending /\ Active(merger)
         /\ IF offset = Complete THEN WholeCells(merger, sending, sent)
            ELSE PartialCell(merger, sending, sent, offset)
<1>1. sending \in Keys /\ Progress(merger, result.row, sending, sent, offset) /\ MergerOK(merger)
  BY DEF EncodingInv, Inv
<1>2. IF offset = Complete THEN WholeCells(merger, sending, sent)
      ELSE PartialCell(merger, sending, sent, offset)
  BY <1>1 DEF Progress
<1>3. merger.row.key = sending /\ merger.state # "NewRow"
  BY <1>2 DEF WholeCells, PartialCell, Building
<1> QED BY <1>1, <1>2, <1>3 DEF MergerOK

\* The first chunk of a cell is taken.
LEMMA SendCellStep ==
  ASSUME EncodingInv, NEW k \in Keys, NEW cell \in SentCell, SendCell(k, cell)
  PROVE  EncodingInv'
<1>1. /\ offset = Complete /\ result.row = {} /\ sending' = k /\ sent' = Append(sent, cell)
      /\ IF sent = <<>> THEN MayStart(k) ELSE k = sending
  BY DEF SendCell
<1>2. resets' \in Nat /\ sent \in Seq(SentCell) /\ Inv /\ MergerOK(merger)
  BY DEF SendCell, EncodingInv, Inv
<1>3. sent' \in Seq(SentCell) /\ sent' # <<>>
  BY <1>1, <1>2, AppendEnds
<1>4. PICK names \in NamesOf(cell), rowKey \in KeysOf(k), to \in 0..Len(cell.value) :
        SendPiece([EmptyChunk EXCEPT !.row_key = rowKey, !.family_name = names[1],
                                     !.qualifier = names[2], !.meta = cell.meta],
                  cell.value, 0, to)
  BY DEF SendCell
<1>5. /\ cell.family \in Families /\ cell.qualifier \in Qualifiers /\ cell.meta \in Metas
      /\ cell.value \in CellValues /\ cell.value \in Seq(Bytes)
  BY SentCellFields
<1> DEFINE family == names[1]
           qualifier == names[2]
           previous == Last(sent)
<1>6. /\ rowKey \in {k, EmptyKey}
      /\ family = cell.family \/ (family = NoName /\ sent # <<>> /\ previous.family = cell.family)
      /\ \/ qualifier = cell.qualifier
         \/ /\ family = NoName /\ qualifier = NoName /\ sent # <<>>
            /\ previous.qualifier = cell.qualifier
  <2>1. rowKey \in {k, EmptyKey}
    BY DEF KeysOf
  <2>2. \/ names = <<cell.family, cell.qualifier>>
        \/ sent # <<>> /\ previous.family = cell.family /\ names = <<NoName, cell.qualifier>>
        \/ /\ sent # <<>> /\ previous.family = cell.family /\ previous.qualifier = cell.qualifier
           /\ names = <<NoName, NoName>>
    BY DEF NamesOf
  <2> QED BY <2>1, <2>2
<1>7. sent = <<>> => rowKey = k
  BY DEF KeysOf
<1> HIDE DEF family, qualifier
<1> DEFINE header == [EmptyChunk EXCEPT !.row_key = rowKey, !.family_name = family,
                                        !.qualifier = qualifier, !.meta = cell.meta]
<1>8. SendPiece(header, cell.value, 0, to)
  BY <1>4 DEF family, qualifier
<1>9. header \in Header /\ header.row_key = rowKey /\ header.family_name = family
      /\ header.qualifier = qualifier /\ header.meta = cell.meta
  <2>1. rowKey \in Keys \cup {EmptyKey} /\ family \in Families \cup {NoName}
        /\ qualifier \in Qualifiers \cup {NoName}
    BY <1>5, <1>6
  <2> QED BY <1>5, <2>1 DEF Header, EmptyChunk
<1> HIDE DEF header
<1>10. 0 \in 0..Len(cell.value) /\ Len(cell.value) \in Nat
  BY <1>5
<1>11. PICK chunk \in Chunk :
         /\ Receive(chunk) /\ IsPiece(chunk, cell.value, 0, to, offset')
         /\ chunk.row_key = rowKey /\ chunk.family_name = family
         /\ chunk.qualifier = qualifier /\ chunk.meta = cell.meta
  BY <1>5, <1>8, <1>9, <1>10, PieceSent
<1>12. CASE sent = <<>>
  <2>1. merger.state = "NewRow" /\ ~OutOfOrder(merger, k)
    BY <1>1, <1>12 DEF EncodingInv, StartsAhead
  <2>2. chunk.row_key = k /\ chunk.family_name = cell.family /\ chunk.qualifier = cell.qualifier
    BY <1>6, <1>7, <1>11, <1>12
  <2>3. Accepted(StartRow(merger, chunk), k, Append(sent, cell), offset')
    BY <1>2, <1>11, <1>12, <2>1, <2>2, StartRowAccepted
  <2>4. PushChunk(merger, chunk) = StartRow(merger, chunk)
    BY <2>1 DEF PushChunk
  <2> QED BY <1>1, <1>2, <1>3, <1>11, <2>3, <2>4, AcceptedStep
<1>13. CASE sent # <<>>
  <2>1. /\ k = sending /\ Active(merger) /\ merger.row.key = k /\ WholeCells(merger, k, sent)
    BY <1>1, <1>13, WithinRow
  <2>2. /\ merger.state = "NewCell" /\ Rebuilt(merger.row, sent) /\ merger \in MergerType
        /\ merger.family = previous.family /\ merger.qualifier = previous.qualifier
    BY <1>2, <2>1 DEF WholeCells, Building, MergerOK
  <2>3. Begins(merger, chunk, k, cell)
    BY <1>6, <1>11, <2>2 DEF Begins
  <2>4. Accepted(StartCell(merger, chunk), k, Append(sent, cell), offset')
    BY <1>2, <1>11, <2>1, <2>2, <2>3, StartCellAccepted
  <2>5. PushChunk(merger, chunk) = StartCell(merger, chunk)
    BY <2>2 DEF PushChunk
  <2> QED BY <1>1, <1>2, <1>3, <1>11, <2>4, <2>5, AcceptedStep
<1> QED BY <1>12, <1>13

\* A further chunk of a split value is taken.
LEMMA ContinueValueStep ==
  ASSUME EncodingInv, ContinueValue
  PROVE  EncodingInv'
<1>1. /\ offset # Complete /\ sending' = sending /\ sent' = sent /\ resets' = resets
      /\ \E to \in offset..Len(Last(sent).value) : SendPiece(EmptyChunk, Last(sent).value, offset, to)
  BY DEF ContinueValue
<1>2. /\ sent # <<>> /\ sent \in Seq(SentCell) /\ resets \in Nat /\ Inv /\ MergerOK(merger)
      /\ sending \in Keys /\ result.row = {}
  BY <1>1 DEF EncodingInv, Inv, Progress
<1>3. PartialCell(merger, sending, sent, offset)
  BY <1>1, <1>2, WithinRow
<1> DEFINE value == Last(sent).value
<1>4. merger.state = "CellValue" /\ offset \in 1..Len(value)
  BY <1>3 DEF PartialCell
<1>5. value \in CellValues /\ value \in Seq(Bytes)
  <2>1. Last(sent) \in SentCell
    BY <1>2, FrontLast
  <2> QED BY <2>1, SentCellFields
<1>6. PICK to \in offset..Len(value) : SendPiece(EmptyChunk, value, offset, to)
  BY <1>1
<1> HIDE DEF value
<1>7. offset \in 0..Len(value)
  BY <1>4, <1>5
<1>8. /\ EmptyChunk \in Header /\ EmptyChunk.row_key = EmptyKey /\ EmptyChunk.family_name = NoName
      /\ EmptyChunk.qualifier = NoName /\ EmptyChunk.meta = NoMeta
  BY ValuesAssumption DEF EmptyChunk, Header
<1>9. PICK chunk \in Chunk :
        /\ Receive(chunk) /\ IsPiece(chunk, value, offset, to, offset')
        /\ chunk.row_key = EmptyKey /\ chunk.family_name = NoName
        /\ chunk.qualifier = NoName /\ chunk.meta = NoMeta
  BY <1>5, <1>6, <1>7, <1>8, PieceSent
<1>10. ~HasMetadata(chunk)
  BY <1>9 DEF HasMetadata
<1>11. Accepted(ContinueCell(merger, chunk), sending, sent, offset')
  BY <1>2, <1>3, <1>9, <1>10, ContinueAccepted DEF value
<1>12. PushChunk(merger, chunk) = ContinueCell(merger, chunk)
  BY <1>4 DEF PushChunk
<1> QED BY <1>1, <1>2, <1>9, <1>11, <1>12, AcceptedStep

\* What lies beyond a key that is ahead of the merger is ahead of it too.
LEMMA FartherAhead ==
  ASSUME NEW m \in MergerType, NEW j \in Keys, ~OutOfOrder(m, j), NEW k \in Keys, Beyond(k, j, Reversed)
  PROVE  ~OutOfOrder(m, k)
<1>1. m.reversed = Reversed /\ m.last_complete_key \in Keys \cup {NoKey} /\ Reversed \in BOOLEAN
  BY KeysAssumption DEF MergerType
<1>2. k \in Nat /\ j \in Nat /\ (m.last_complete_key # NoKey => m.last_complete_key \in Nat)
  BY <1>1, KeysAreKeys
<1> QED BY <1>1, <1>2 DEF OutOfOrder, Beyond

\* After a row was given up the server may begin it again or go on.
LEMMA GivenUp ==
  ASSUME EncodingInv, GiveUp, Inv', merger' = ClearActiveRow(merger), result' = NothingReturned
  PROVE  EncodingInv'
<1>1. /\ sending' = sending /\ sent' = <<>> /\ offset' = Complete /\ resets' = resets + 1
      /\ sent # <<>> /\ result.row = {} /\ resets \in Nat
  BY DEF GiveUp, EncodingInv
<1>2. sending \in Keys /\ MergerOK(merger) /\ merger.row.key = sending /\ Active(merger)
  BY <1>1, WithinRow
<1>3. /\ merger \in MergerType /\ merger.reversed = Reversed /\ ~OutOfOrder(merger, sending)
  BY <1>2 DEF MergerOK, MergerType, Active
<1>4. /\ merger'.state = "NewRow" /\ merger'.last_complete_key = merger.last_complete_key
      /\ merger'.reversed = merger.reversed
  <2>1. ClearCell(merger) \in MergerType
        /\ ClearCell(merger).last_complete_key = merger.last_complete_key
        /\ ClearCell(merger).reversed = merger.reversed
    BY <1>3, ClearCellFields
  <2> QED BY <2>1 DEF ClearActiveRow, MergerType
<1>5. ASSUME NEW k \in Keys, MayStart(k)' PROVE ~OutOfOrder(merger', k)
  <2>1. Beyond(k, sending, Reversed) \/ k = sending
    BY <1>1, <1>2, <1>5, KeysAreKeys DEF MayStart
  <2>2. ~OutOfOrder(merger, k)
    BY <1>2, <1>3, <2>1, FartherAhead
  <2> QED BY <1>4, <2>2 DEF OutOfOrder
<1>6. result'.row = {} /\ result'.issue = "None"
  BY DEF NothingReturned
<1>7. sent' \in Seq(SentCell)
  BY <1>1
<1> QED BY <1>1, <1>2, <1>4, <1>5, <1>6, <1>7 DEF EncodingInv, NeverRejects, StartsAhead

\* A reset chunk is taken wherever the server gives a row up.
LEMMA ResetStep ==
  ASSUME EncodingInv, Reset
  PROVE  EncodingInv'
<1> DEFINE chunk == [EmptyChunk EXCEPT !.row_status = "Reset"]
<1>1. GiveUp /\ Receive(chunk)
  BY DEF Reset
<1>2. ~HasData(chunk) /\ chunk.row_status = "Reset"
  BY DEF EmptyChunk, HasData, HasMetadata
<1> HIDE DEF chunk
<1>3. Inv /\ MergerOK(merger) /\ merger.state \in {"NewCell", "CellValue"}
  <2>1. sent # <<>> /\ result.row = {}
    BY <1>1 DEF GiveUp
  <2> QED BY <2>1, WithinRow DEF EncodingInv, WholeCells, PartialCell
<1>4. PushChunk(merger, chunk) = ResetRow(merger, chunk)
  BY <1>2, <1>3 DEF PushChunk, StartCell, ContinueCell
<1>5. ResetRow(merger, chunk) = Accept(ClearActiveRow(merger))
  BY <1>2 DEF ResetRow
<1>6. Inv'
  BY <1>1, <1>3, <1>4, ResetRowOK, ReceiveKeepsInv
<1>7. merger' = ClearActiveRow(merger) /\ result' = NothingReturned
  BY <1>1, <1>4, <1>5 DEF Receive, Apply, Returned, Accept, NothingReturned
<1> QED BY <1>1, <1>6, <1>7, GivenUp

\* A stream that breaks inside a row leaves nothing of it.
LEMMA BreakOffStep ==
  ASSUME EncodingInv, BreakOff
  PROVE  EncodingInv'
<1>1. GiveUp /\ Discard
  BY DEF BreakOff
<1>2. Inv /\ merger.state # "NewRow"
  <2>1. sent # <<>> /\ result.row = {}
    BY <1>1 DEF GiveUp
  <2> QED BY <2>1, WithinRow DEF EncodingInv, WholeCells, PartialCell
<1>3. Inv'
  BY <1>1, <1>2, InvStep DEF Next
<1>4. merger' = ClearActiveRow(merger) /\ result' = NothingReturned
  BY <1>1, <1>2 DEF Discard, DiscardPartial
<1> QED BY <1>1, <1>3, <1>4, GivenUp

\* After a row the server goes on behind it.
LEMMA NextRowStep ==
  ASSUME EncodingInv, NextRow
  PROVE  EncodingInv'
<1>1. /\ result.row # {} /\ result' = NothingReturned /\ sent' = <<>> /\ resets' = 0
      /\ merger' = merger /\ scanned' = scanned /\ live' = live
      /\ sending' = sending /\ offset' = offset
  BY DEF NextRow
<1>2. sent # <<>>
  BY <1>1 DEF EncodingInv
<1>3. sending \in Keys /\ Progress(merger, result.row, sending, sent, offset)
  BY <1>2 DEF EncodingInv
<1>4. merger.state = "NewRow" /\ merger.last_complete_key = sending /\ offset = Complete
  BY <1>1, <1>3 DEF Progress, RowOut
<1>5. Inv /\ merger.reversed = Reversed
  BY DEF EncodingInv, Inv, MergerOK, MergerType
<1>6. result'.row = {} /\ result'.issue = "None"
  BY <1>1 DEF NothingReturned
<1>7. Inv'
  <2>1. ResultOK'
    BY <1>1 DEF NothingReturned, ResultOK
  <2> QED BY <1>1, <1>5, <2>1 DEF Inv, LastScanned, ScanOrdered
<1>8. ASSUME NEW k \in Keys, MayStart(k)' PROVE ~OutOfOrder(merger', k)
  <2>1. Beyond(k, sending, Reversed)
    BY <1>1, <1>3, <1>8, KeysAreKeys DEF MayStart
  <2> QED BY <1>1, <1>4, <1>5, <2>1 DEF OutOfOrder
<1>9. sent' \in Seq(SentCell) /\ 0 \in Nat
  BY <1>1
<1> QED BY <1>1, <1>3, <1>4, <1>6, <1>7, <1>8, <1>9 DEF EncodingInv, NeverRejects, StartsAhead

\* A scan marker between rows is taken.
LEMMA ScanToStep ==
  ASSUME EncodingInv, NEW key \in Keys, ScanTo(key)
  PROVE  EncodingInv'
<1>1. /\ sent = <<>> /\ MayStart(key) /\ Mark(key) /\ sending' = key /\ resets' = 0
      /\ sent' = sent /\ offset' = offset
  BY DEF ScanTo
<1>2. /\ Inv /\ merger.state = "NewRow" /\ offset = Complete /\ ~OutOfOrder(merger, key)
      /\ merger \in MergerType
  BY <1>1 DEF EncodingInv, StartsAhead, Inv, MergerOK
<1>3. Inv'
  BY <1>1, <1>2, InvStep DEF Next
<1> DEFINE marked == [merger EXCEPT !.last_complete_key = key]
<1>4. ScanMarker(merger, key) = Accept(marked)
  BY <1>2 DEF ScanMarker
<1>5. /\ marked.state = "NewRow" /\ marked.last_complete_key = key /\ marked.reversed = Reversed
  BY <1>2 DEF MergerType
<1> HIDE DEF marked
<1>6. merger' = marked /\ result'.row = {} /\ result'.issue = "None"
  BY <1>1, <1>4 DEF Mark, Apply, Returned, Accept
<1>7. ASSUME NEW k \in Keys, MayStart(k)' PROVE ~OutOfOrder(merger', k)
  <2>1. Beyond(k, key, Reversed)
    BY <1>1, <1>7, KeysAreKeys DEF MayStart
  <2> QED BY <1>5, <1>6, <2>1 DEF OutOfOrder
<1>8. sent' = <<>> /\ sent' \in Seq(SentCell) /\ 0 \in Nat
  BY <1>1
<1> QED BY <1>1, <1>2, <1>3, <1>5, <1>6, <1>7, <1>8 DEF EncodingInv, NeverRejects, StartsAhead

\* The stream may end between rows.
LEMMA EndStreamStep ==
  ASSUME EncodingInv, EndStream
  PROVE  EncodingInv'
<1>1. /\ sent = <<>> /\ Finish /\ sending' = sending /\ sent' = sent /\ offset' = offset
      /\ resets' = resets
  BY DEF EndStream
<1>2. Inv /\ merger.state = "NewRow" /\ merger' = merger
  BY <1>1 DEF EncodingInv, Finish
<1>3. Inv'
  BY <1>1, <1>2, InvStep DEF Next
<1>4. result'.row = {} /\ result'.issue = "None"
  BY <1>1, <1>2 DEF Finish, FinishStream, Accept, Returned
<1>5. StartsAhead'
  BY <1>1, <1>2 DEF EncodingInv, StartsAhead, MayStart
<1> QED BY <1>1, <1>2, <1>3, <1>4, <1>5 DEF EncodingInv, NeverRejects

\* The server and the merger begin between rows.
LEMMA EncodingInvInit == EncodingInit => EncodingInv
<1> SUFFICES ASSUME EncodingInit PROVE EncodingInv
  OBVIOUS
<1>1. Init /\ sending = NoKey /\ sent = <<>> /\ offset = Complete /\ resets = 0
  BY DEF EncodingInit
<1>2. Inv /\ merger = NewMerger(Reversed) /\ result = NothingReturned
  BY <1>1, InvInit DEF Init
<1>3. result.row = {} /\ result.issue = "None" /\ merger.state = "NewRow"
      /\ merger.last_complete_key = NoKey
  BY <1>2 DEF NothingReturned, NewMerger
<1>4. sent \in Seq(SentCell) /\ resets \in Nat
  BY <1>1
<1> QED BY <1>1, <1>2, <1>3, <1>4 DEF EncodingInv, NeverRejects, StartsAhead, OutOfOrder

\* Every step of a server that keeps the protocol keeps the invariant.
LEMMA EncodingInvStep == EncodingInv /\ [EncodingNext]_encodingVars => EncodingInv'
<1> SUFFICES ASSUME EncodingInv, [EncodingNext]_encodingVars PROVE EncodingInv'
  OBVIOUS
<1>1. ASSUME NEW k \in Keys, NEW cell \in SentCell, SendCell(k, cell) PROVE EncodingInv'
  BY <1>1, SendCellStep
<1>2. CASE ContinueValue
  BY <1>2, ContinueValueStep
<1>3. CASE Reset
  BY <1>3, ResetStep
<1>4. CASE BreakOff
  BY <1>4, BreakOffStep
<1>5. CASE NextRow
  BY <1>5, NextRowStep
<1>6. ASSUME NEW k \in Keys, ScanTo(k) PROVE EncodingInv'
  BY <1>6, ScanToStep
<1>7. CASE EndStream
  BY <1>7, EndStreamStep
<1>8. CASE UNCHANGED encodingVars
  <2>1. UNCHANGED vars /\ UNCHANGED <<merger, result, sending, sent, offset, resets>>
    BY <1>8 DEF encodingVars, vars
  <2>2. Inv'
    BY <2>1, InvStep DEF EncodingInv
  <2> QED BY <2>1, <2>2 DEF EncodingInv, NeverRejects, StartsAhead, MayStart
<1> QED BY <1>1, <1>2, <1>3, <1>4, <1>5, <1>6, <1>7, <1>8 DEF EncodingNext

\* The invariant holds in every behaviour of such a server and the merger.
LEMMA EncodingInvAlways == EncodingSpec => []EncodingInv
BY EncodingInvInit, EncodingInvStep, PTL DEF EncodingSpec

\* In a row that names a family and a qualifier once, the first column with
\* these names is the only one.
LEMMA MergedIs ==
  ASSUME NEW row, row.families \in Seq(Family), FamiliesOK(row.families), NEW family, NEW qualifier
  PROVE  Merged(row, family, qualifier) = CellsOf(row, family, qualifier)
<1> DEFINE fams == row.families
           I == {i \in 1..Len(fams) : fams[i].name = family}
           f == SelectInSeq(fams, LAMBDA x : x.name = family)
           columns == fams[f].columns
           J == {i \in 1..Len(columns) : columns[i].qualifier = qualifier}
           c == SelectInSeq(columns, LAMBDA x : x.qualifier = qualifier)
<1>1. Merged(row, family, qualifier)
        = IF f = 0 THEN <<>> ELSE IF c = 0 THEN <<>> ELSE columns[c].cells
  BY DEF Merged
<1>2. f = IF I # {} THEN Min(I) ELSE 0
  BY DEF SelectInSeq
<1>3. c = IF J # {} THEN Min(J) ELSE 0
  BY DEF SelectInSeq
<1>4. I \in SUBSET Nat /\ \A i \in I : i # 0 /\ i \in DOMAIN fams /\ fams[i].name = family
  OBVIOUS
<1>5. \A i \in DOMAIN fams : i \in I \/ fams[i].name # family
  OBVIOUS
<1> HIDE DEF f, c
<1>6. CASE I = {}
  <2>1. f = 0 /\ \A i \in DOMAIN fams : fams[i].name # family
    BY <1>2, <1>5, <1>6
  <2> QED BY <1>1, <2>1, CellsOfIs
<1>7. CASE I # {}
  <2>1. f \in I
    <3> HIDE DEF I
    <3> QED BY <1>2, <1>4, <1>7, MinIsLeast
  <2>2. f # 0 /\ f \in DOMAIN fams /\ fams[f].name = family
    BY <1>4, <2>1
  <2>3. CellsOf(row, family, qualifier) = CellsIn(columns, qualifier)
    BY <2>2, CellsOfIs
  <2>4. columns \in Seq(Column) /\ UniqueColumns(columns)
    <3>1. fams[f] \in Family
      BY <2>2
    <3> QED BY <2>2, <3>1 DEF Family, FamiliesOK, ColumnsOK
  <2> HIDE DEF columns
  <2>5. J \in SUBSET Nat /\ \A i \in J : i # 0 /\ i \in DOMAIN columns /\ columns[i].qualifier = qualifier
    BY <2>4
  <2>6. \A i \in DOMAIN columns : i \in J \/ columns[i].qualifier # qualifier
    BY <2>4
  <2>7. CASE J = {}
    <3>1. c = 0 /\ \A i \in DOMAIN columns : columns[i].qualifier # qualifier
      BY <1>3, <2>6, <2>7
    <3>2. CellsIn(columns, qualifier) = <<>>
      BY <2>4, <3>1, CellsInIs
    <3> QED BY <1>1, <2>2, <2>3, <3>1, <3>2
  <2>8. CASE J # {}
    <3>1. c \in J
      <4> HIDE DEF J
      <4> QED BY <1>3, <2>5, <2>8, MinIsLeast
    <3>2. c # 0 /\ c \in DOMAIN columns /\ columns[c].qualifier = qualifier
      BY <2>5, <3>1
    <3>3. CellsIn(columns, qualifier) = columns[c].cells
      BY <2>4, <3>2, CellsInIs
    <3> QED BY <1>1, <2>2, <2>3, <3>2, <3>3
  <2> QED BY <2>7, <2>8
<1> QED BY <1>6, <1>7

\* A rebuilt row has as many families as the cells sent.
LEMMA FamiliesCounted ==
  ASSUME NEW row, row.families \in Seq(Family), UniqueFamilies(row.families),
         NEW cells \in Seq(SentCell), Rebuilt(row, cells)
  PROVE  Len(row.families) = Cardinality({cell.family : cell \in ToSet(cells)})
<1> DEFINE fams == row.families
           names == {cell.family : cell \in ToSet(cells)}
           n == Len(fams)
           f == [i \in 1..n |-> fams[i].name]
<1>1. n \in Nat /\ DOMAIN fams = 1..n
  OBVIOUS
<1>2. /\ \A i \in 1..n : \E j \in DOMAIN cells : cells[j].family = fams[i].name
      /\ \A j \in DOMAIN cells : \E i \in 1..n : fams[i].name = cells[j].family
  BY <1>1 DEF Rebuilt
<1>3. \A x : x \in names <=> \E j \in DOMAIN cells : x = cells[j].family
  BY DEF ToSet
<1> HIDE DEF names
<1>4. \A i, j \in 1..n : f[i] = f[j] => i = j
  BY <1>1 DEF UniqueFamilies
<1>5. f \in [1..n -> names] /\ \A x \in names : \E i \in 1..n : f[i] = x
  <2>1. \A i \in 1..n : f[i] \in names
    BY <1>2, <1>3
  <2>2. ASSUME NEW x \in names PROVE \E i \in 1..n : f[i] = x
    <3>1. PICK j \in DOMAIN cells : x = cells[j].family
      BY <1>3
    <3>2. PICK i \in 1..n : fams[i].name = cells[j].family
      BY <1>2
    <3> QED BY <3>1, <3>2
  <2> QED BY <2>1, <2>2
<1> HIDE DEF n, f
<1>6. f \in Bijection(1..n, names)
  BY <1>4, <1>5 DEF Bijection, Injection, Surjection, IsInjective
<1>7. ExistsBijection(1..n, names)
  BY <1>6 DEF ExistsBijection
<1>8. Cardinality(names) = n
  BY <1>1, <1>7, FS_CountingElements
<1> QED BY <1>8 DEF n, names

\* A row the merger hands out is the one that was sent.
LEMMA EncodingInvRebuilds == EncodingInv => RowRebuilt
<1> SUFFICES ASSUME EncodingInv, NEW row \in result.row
             PROVE  /\ row.key = sending
                    /\ \A family \in Families, qualifier \in Qualifiers :
                         Merged(row, family, qualifier) = SentTo(sent, family, qualifier)
                    /\ sent # <<>>
                    /\ Len(row.families) = Cardinality({cell.family : cell \in ToSet(sent)})
  BY DEF RowRebuilt
<1>1. sent # <<>> /\ sent \in Seq(SentCell)
  BY DEF EncodingInv
<1>2. Progress(merger, result.row, sending, sent, offset)
  BY <1>1 DEF EncodingInv
<1>3. RowOut(merger, row, sending, sent)
  BY <1>2 DEF Progress
<1>4. row.key = sending /\ Rebuilt(row, sent)
  BY <1>3 DEF RowOut
<1>5. row.families \in Seq(Family) /\ FamiliesOK(row.families) /\ UniqueFamilies(row.families)
  BY DEF EncodingInv, Inv, ResultOK, RowOK, Row, FamiliesOK
<1>6. ASSUME NEW family \in Families, NEW qualifier \in Qualifiers
      PROVE  Merged(row, family, qualifier) = SentTo(sent, family, qualifier)
  BY <1>4, <1>5, MergedIs DEF Rebuilt
<1> QED BY <1>1, <1>4, <1>5, <1>6, FamiliesCounted

\* push_chunk, scan_marker, discard_partial and finish refuse nothing of a
\* server that keeps the chunk protocol.
THEOREM ProtocolIsAccepted == EncodingSpec => []NeverRejects
<1>1. EncodingInv => NeverRejects
  BY DEF EncodingInv
<1> QED BY <1>1, EncodingInvAlways, PTL

\* start_row, start_cell, continue_cell, finish_cell and commit_row rebuild the
\* row that was sent, whatever was reset or broken off before.
THEOREM RowsAreRebuilt == EncodingSpec => []RowRebuilt
BY EncodingInvRebuilds, EncodingInvAlways, PTL
=============================================================================
