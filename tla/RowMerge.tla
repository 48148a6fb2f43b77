------------------------------- MODULE RowMerge -------------------------------
(***************************************************************************)
(* The row merger of merge.rs: it rebuilds rows from the CellChunks of a   *)
(* ReadRows stream and refuses a chunk that breaks the chunk protocol.     *)
(* This module holds the merger's methods as operators on its state;       *)
(* RowMerger runs them against every chunk, ReadRows against a server.     *)
(*                                                                         *)
(* The timestamp and the labels of a cell always travel together and are   *)
(* only compared with "absent": they are one number `meta`, 0 for          *)
(* timestamp 0 and no labels.                                              *)
(***************************************************************************)
EXTENDS RowRanges, SequencesExt

\* Rust's None for a chunk's family or qualifier, and the cleared field.
NoName == "none"
NoMeta == 0
NoValue == <<>>

EmptyRow == [key |-> EmptyKey, families |-> <<>>]

\* RowMerger::new
NewMerger(reversed) ==
  [reversed |-> reversed, state |-> "NewRow", last_complete_key |-> NoKey,
   row |-> EmptyRow, family |-> NoName, qualifier |-> NoName, meta |-> NoMeta,
   value |-> NoValue, expected_value_size |-> 0, remaining_value_bytes |-> 0]

\* What a call returns: Err(issue), Ok(None) or Ok(Some(row)).  An issue ends
\* the read and drops the merger, so what the failed call left in it is moot.
Reject(m, issue) == [merger |-> m, row |-> {}, issue |-> issue]
Accept(m) == [merger |-> m, row |-> {}, issue |-> "None"]

-----------------------------------------------------------------------------
ClearCell(m) ==
  [m EXCEPT !.meta = NoMeta, !.value = NoValue,
            !.expected_value_size = 0, !.remaining_value_bytes = 0]

\* Faulty variant: the cells of the abandoned row stay.
ClearCellOnly(m) == [ClearCell(m) EXCEPT !.state = "NewRow"]

ClearActiveRow(m) ==
  [ClearCell(m) EXCEPT !.row = EmptyRow, !.family = NoName, !.qualifier = NoName,
                       !.state = "NewRow"]

\* Faulty variant: a key may come twice.
BehindLast(m, key) ==
  m.last_complete_key # NoKey /\ Beyond(m.last_complete_key, key, m.reversed)

OutOfOrder(m, key) ==
  m.last_complete_key # NoKey /\ ~Beyond(key, m.last_complete_key, m.reversed)

HasMetadata(chunk) ==
  \/ chunk.row_key # EmptyKey
  \/ chunk.family_name # NoName
  \/ chunk.qualifier # NoName
  \/ chunk.meta # NoMeta

HasData(chunk) == HasMetadata(chunk) \/ chunk.value # <<>> \/ chunk.value_size # 0

\* A reset inside a row drops what the row has so far.
ResetRow(m, chunk) ==
  IF HasData(chunk) THEN Reject(m, "ResetWithData") ELSE Accept(ClearActiveRow(m))

-----------------------------------------------------------------------------
\* The first element of s that passes Test, changed by Op; if there is none,
\* `new` goes to the end.
FindOrPush(s, Test(_), Op(_), new) ==
  LET i == SelectInSeq(s, Test)
  IN  IF i # 0 THEN [s EXCEPT ![i] = Op(@)] ELSE Append(s, new)

\* Faulty variant: every cell opens a column of its own.
AddColumn(columns, qualifier, cell) ==
  Append(columns, [qualifier |-> qualifier, cells |-> <<cell>>])

\* Cells are grouped by family and qualifier, in the order they first came.
AddToColumns(columns, qualifier, cell) ==
  LET HasQualifier(c) == c.qualifier = qualifier
      PushCell(c) == [c EXCEPT !.cells = Append(@, cell)]
  IN  FindOrPush(columns, HasQualifier, PushCell, [qualifier |-> qualifier, cells |-> <<cell>>])

AddCell(families, family, qualifier, cell) ==
  LET HasFamily(f) == f.name = family
      PushColumn(f) == [f EXCEPT !.columns = AddToColumns(@, qualifier, cell)]
  IN  FindOrPush(families, HasFamily, PushColumn,
                 [name |-> family, columns |-> AddToColumns(<<>>, qualifier, cell)])

\* Of cells in order of arrival, the contents of those of a family and qualifier.
SentTo(cells, family, qualifier) ==
  FlattenSeq([i \in DOMAIN cells |->
    IF cells[i].family = family /\ cells[i].qualifier = qualifier
      THEN <<[meta |-> cells[i].meta, value |-> cells[i].value]>> ELSE <<>>])

FinishCell(m) ==
  [m EXCEPT !.row.families = AddCell(@, m.family, m.qualifier, [meta |-> m.meta, value |-> m.value]),
            !.value = NoValue]

\* Faulty variant: the merger is not set back to expect a new row.
CommitInsideRow(m) ==
  [merger |-> [ClearCell(m) EXCEPT !.row = EmptyRow, !.last_complete_key = m.row.key],
   row |-> {m.row}, issue |-> "None"]

CommitRow(m) ==
  [merger |-> [ClearCell(m) EXCEPT !.row = EmptyRow, !.last_complete_key = m.row.key, !.state = "NewRow"],
   row |-> {m.row}, issue |-> "None"]

\* The cell is complete; its chunk may also complete the row.
EndCell(m, chunk) ==
  IF chunk.row_status = "Commit"
    THEN CommitRow(FinishCell(m))
    ELSE Accept([FinishCell(m) EXCEPT !.state = "NewCell"])

-----------------------------------------------------------------------------
\* Faulty variant: the announced size of a split value is not checked.
StartCellUnchecked(m, chunk) ==
  IF chunk.row_key \notin {EmptyKey, m.row.key} THEN "RowKeyChanged"
  ELSE IF chunk.family_name # NoName /\ chunk.qualifier = NoName THEN "FamilyWithoutQualifier"
  ELSE "None"

\* The checks of start_cell, in the order of the code.
StartCellIssue(m, chunk) ==
  IF chunk.row_key \notin {EmptyKey, m.row.key} THEN "RowKeyChanged"
  ELSE IF chunk.family_name # NoName /\ chunk.qualifier = NoName THEN "FamilyWithoutQualifier"
  ELSE IF chunk.value_size < 0 THEN "NegativeValueSize"
  ELSE IF chunk.value_size = 0 THEN "None"
  ELSE IF chunk.value = <<>> THEN "SplitValueMissingData"
  ELSE IF chunk.row_status = "Commit" THEN "CommitBeforeCellComplete"
  ELSE IF Len(chunk.value) > chunk.value_size THEN "SplitValueTooLarge"
  ELSE "None"

\* A missing family or qualifier means the one of the cell before.
StartCell(m, chunk) ==
  LET issue == StartCellIssue(m, chunk)
      cell == [m EXCEPT !.family = IF chunk.family_name # NoName THEN chunk.family_name ELSE @,
                        !.qualifier = IF chunk.qualifier # NoName THEN chunk.qualifier ELSE @,
                        !.meta = chunk.meta,
                        !.value = chunk.value]
  IN  IF chunk.row_status = "Reset" THEN ResetRow(m, chunk)
      ELSE IF issue # "None" THEN Reject(m, issue)
      ELSE IF chunk.value_size > 0
        THEN Accept([cell EXCEPT !.expected_value_size = chunk.value_size,
                                 !.remaining_value_bytes = chunk.value_size - Len(chunk.value),
                                 !.state = "CellValue"])
        ELSE EndCell(cell, chunk)

StartRowIssue(m, chunk) ==
  IF chunk.row_status = "Reset" THEN "ResetBetweenRows"
  ELSE IF chunk.row_key = EmptyKey THEN "MissingRowKey"
  ELSE IF chunk.family_name = NoName THEN "MissingFamily"
  ELSE IF chunk.qualifier = NoName THEN "MissingQualifier"
  ELSE IF OutOfOrder(m, chunk.row_key) THEN "OutOfOrderRowKey"
  ELSE "None"

StartRow(m, chunk) ==
  LET issue == StartRowIssue(m, chunk)
  IN  IF issue # "None" THEN Reject(m, issue)
      ELSE StartCell([m EXCEPT !.row = [key |-> chunk.row_key, families |-> <<>>],
                               !.family = chunk.family_name,
                               !.qualifier = chunk.qualifier,
                               !.state = "NewCell"], chunk)

\* Faulty variant: a split value may end short of its announced size.
ContinueCellLoose(m, chunk) ==
  IF HasMetadata(chunk) THEN "CellMetadataOnContinuation"
  ELSE IF chunk.value_size < 0 THEN "NegativeValueSize"
  ELSE IF Len(chunk.value) > m.remaining_value_bytes THEN "SplitValueTooLarge"
  ELSE "None"

\* value_size = 0 marks the last chunk of a split value.
ContinueCellIssue(m, chunk) ==
  IF HasMetadata(chunk) THEN "CellMetadataOnContinuation"
  ELSE IF chunk.value_size < 0 THEN "NegativeValueSize"
  ELSE IF Len(chunk.value) > m.remaining_value_bytes THEN "SplitValueTooLarge"
  ELSE IF chunk.value_size = 0
    THEN IF Len(chunk.value) # m.remaining_value_bytes THEN "SplitValueWrongSize" ELSE "None"
  ELSE IF chunk.value_size # m.expected_value_size THEN "SplitValueSizeChanged"
  ELSE IF chunk.row_status = "Commit" THEN "CommitBeforeCellComplete"
  ELSE "None"

ContinueCell(m, chunk) ==
  LET issue == ContinueCellIssue(m, chunk)
      cell == [m EXCEPT !.value = @ \o chunk.value,
                        !.remaining_value_bytes = @ - Len(chunk.value)]
  IN  IF chunk.row_status = "Reset" THEN ResetRow(m, chunk)
      ELSE IF issue # "None" THEN Reject(m, issue)
      ELSE IF chunk.value_size > 0 THEN Accept(cell)
      ELSE EndCell(cell, chunk)

-----------------------------------------------------------------------------
(* The methods read.rs calls.                                              *)

PushChunk(m, chunk) ==
  CASE m.state = "NewRow" -> StartRow(m, chunk)
    [] m.state = "NewCell" -> StartCell(m, chunk)
    [] m.state = "CellValue" -> ContinueCell(m, chunk)

\* Faulty variant: the marker is checked but not remembered.
ScanMarkerForgotten(m, key) ==
  IF m.state # "NewRow" THEN Reject(m, "ScanMarkerDuringRow")
  ELSE IF OutOfOrder(m, key) THEN Reject(m, "OutOfOrderRowKey")
  ELSE Accept(m)

ScanMarker(m, key) ==
  IF m.state # "NewRow" THEN Reject(m, "ScanMarkerDuringRow")
  ELSE IF OutOfOrder(m, key) THEN Reject(m, "OutOfOrderRowKey")
  ELSE Accept([m EXCEPT !.last_complete_key = key])

\* Faulty variant: the partial row of a broken stream stays.
KeepPartial(m) == m

DiscardPartial(m) == IF m.state # "NewRow" THEN ClearActiveRow(m) ELSE m

FinishStream(m) == IF m.state = "NewRow" THEN Accept(m) ELSE Reject(m, "IncompleteRow")
=============================================================================
