------------------------------- MODULE RowMerger -------------------------------
(***************************************************************************)
(* The row merger driven by an arbitrary stream: any chunk may come at any *)
(* time, a scan marker too, the stream may break and be resumed, and it    *)
(* may end.  What the merger promises here it promises of every server.    *)
(***************************************************************************)
EXTENDS RowMerge

CONSTANTS
  Keys,        \* nonempty row keys of chunks and markers
  Families,    \* family names
  Qualifiers,  \* column qualifiers
  Metas,       \* timestamps and labels of cells, NoMeta included
  Bytes,       \* bytes of values
  Values,      \* values of single chunks, the empty one included
  Sizes,       \* values of the value_size field, any i32
  MaxCells,    \* bound of the model: cells in one row
  Reversed     \* the query's direction

ASSUME KeysAssumption == Keys \subseteq Key \ {EmptyKey} /\ Reversed \in BOOLEAN
ASSUME NamesAssumption == NoName \notin Families \cup Qualifiers
ASSUME ValuesAssumption == 
  /\ NoMeta \in Metas /\ Values \subseteq Seq(Bytes) /\ Sizes \subseteq Int /\ MaxCells \in Nat

VARIABLES
  merger,    \* the RowMerger
  result,    \* what its last call returned
  scanned,   \* history: the keys of the rows and markers accepted so far
  live       \* the operation still uses the merger

vars == <<merger, result, scanned, live>>

Chunk ==
  [row_key : Keys \cup {EmptyKey}, family_name : Families \cup {NoName},
   qualifier : Qualifiers \cup {NoName}, meta : Metas, value : Values,
   value_size : Sizes, row_status : {"None", "Reset", "Commit"}]

Cell == [meta : Metas, value : Seq(Bytes)]
Column == [qualifier : Qualifiers, cells : Seq(Cell)]
Family == [name : Families, columns : Seq(Column)]
Row == [key : Keys, families : Seq(Family)]

Issues ==
  {"ResetBetweenRows", "MissingRowKey", "MissingFamily", "MissingQualifier", "OutOfOrderRowKey",
   "ResetWithData", "RowKeyChanged", "FamilyWithoutQualifier", "NegativeValueSize",
   "SplitValueMissingData", "CommitBeforeCellComplete", "SplitValueTooLarge",
   "CellMetadataOnContinuation", "SplitValueWrongSize", "SplitValueSizeChanged",
   "ScanMarkerDuringRow", "IncompleteRow"}

Returned(outcome) == [row |-> outcome.row, issue |-> outcome.issue]
NothingReturned == [row |-> {}, issue |-> "None"]

Init ==
  /\ merger = NewMerger(Reversed)
  /\ result = NothingReturned
  /\ scanned = <<>>
  /\ live = TRUE

\* The merger's new state and what the call returned; an issue ends the read.
Apply(outcome) ==
  /\ merger' = outcome.merger
  /\ result' = Returned(outcome)
  /\ live' = (outcome.issue = "None")

CellCount(row) ==
  Cardinality({t \in (1..MaxCells) \X (1..MaxCells) \X (1..MaxCells) :
                 /\ t[1] \in DOMAIN row.families
                 /\ t[2] \in DOMAIN row.families[t[1]].columns
                 /\ t[3] \in DOMAIN row.families[t[1]].columns[t[2]].cells})

\* A chunk arrives; a row that is handed out joins the history.
Receive(chunk) ==
  /\ live
  /\ Apply(PushChunk(merger, chunk))
  /\ scanned' = IF result'.row = {} THEN scanned 
                ELSE Append(scanned, (CHOOSE row \in result'.row : TRUE).key)

\* Rows of up to MaxCells cells.
Push == CellCount(merger.row) < MaxCells /\ \E chunk \in Chunk : Receive(chunk)

Mark(key) ==
  /\ live
  /\ Apply(ScanMarker(merger, key))
  /\ scanned' = IF result'.issue = "None" THEN Append(scanned, key) ELSE scanned

\* The stream broke: the partial row goes, and chunks of a new stream follow.
Discard ==
  /\ live
  /\ merger' = DiscardPartial(merger)
  /\ result' = NothingReturned
  /\ UNCHANGED <<scanned, live>>

Finish ==
  /\ live
  /\ result' = Returned(FinishStream(merger))
  /\ live' = FALSE
  /\ UNCHANGED <<merger, scanned>>

Next ==
  \/ Push
  \/ \E key \in Keys : Mark(key)
  \/ Discard
  \/ Finish

Spec == Init /\ [][Next]_vars

-----------------------------------------------------------------------------
ActiveRow == [key : Keys \cup {EmptyKey}, families : Seq(Family)]

MergerType ==
  [reversed : {Reversed}, state : {"NewRow", "NewCell", "CellValue"},
   last_complete_key : Keys \cup {NoKey}, row : ActiveRow,
   family : Families \cup {NoName}, qualifier : Qualifiers \cup {NoName},
   meta : Metas, value : Seq(Bytes),
   expected_value_size : Nat, remaining_value_bytes : Nat]

\* The fields of RowMerger hold values of their Rust types; the two sizes are
\* usize, so that `remaining_value_bytes -= len` must never underflow.
TypeOK ==
  /\ merger \in MergerType
  /\ result \in [row : SUBSET Row, issue : Issues \cup {"None"}]
  /\ scanned \in Seq(Keys)
  /\ live \in BOOLEAN

\* Rows and scan markers pass strictly in the direction of the query, across
\* resets, broken streams and markers: no row comes twice or out of order.
ScanOrdered ==
  \A i, j \in DOMAIN scanned : i < j => Beyond(scanned[j], scanned[i], Reversed)

\* Inside a split value the bytes received and the bytes outstanding always add
\* up to the size the first chunk announced.
SplitAccounting ==
  merger.state = "CellValue" =>
    /\ Len(merger.value) + merger.remaining_value_bytes = merger.expected_value_size
    /\ merger.value # <<>>

\* Between rows nothing of an earlier row is left, however that row ended
\* (committed, reset, broken off): no cell can leak into the next row.
NothingLeftBetweenRows ==
  merger.state = "NewRow" =>
    /\ merger.row = EmptyRow /\ merger.meta = NoMeta /\ merger.value = NoValue
    /\ merger.expected_value_size = 0 /\ merger.remaining_value_bytes = 0

UniqueFamilies(families) ==
  \A i, j \in DOMAIN families : families[i].name = families[j].name => i = j
UniqueColumns(columns) ==
  \A i, j \in DOMAIN columns : columns[i].qualifier = columns[j].qualifier => i = j

\* A row handed out has a key and at least one cell, names each family once and
\* each qualifier once per family, and leaves no family or column empty.
RowsWellFormed ==
  \A row \in result.row :
    /\ row.key # EmptyKey /\ row.families # <<>>
    /\ UniqueFamilies(row.families)
    /\ \A f \in DOMAIN row.families :
         /\ row.families[f].columns # <<>>
         /\ UniqueColumns(row.families[f].columns)
         /\ \A c \in DOMAIN row.families[f].columns : row.families[f].columns[c].cells # <<>>

\* The cells of a family and qualifier, in order of arrival.
CellsOf(row, family, qualifier) ==
  FlattenSeq([f \in DOMAIN row.families |->
    IF row.families[f].name # family THEN <<>>
    ELSE FlattenSeq([c \in DOMAIN row.families[f].columns |->
           IF row.families[f].columns[c].qualifier # qualifier THEN <<>>
           ELSE row.families[f].columns[c].cells])])

\* A step that completes a split value adds one cell, in the column where the
\* value was started, that extends the bytes received and has exactly the
\* announced size; a step that drops the value adds nothing to any row.
SplitValueExact ==
  [][merger.state = "CellValue" /\ merger'.state # "CellValue" =>
       \/ merger'.row = EmptyRow /\ result'.row = {}
       \/ \E row \in result'.row \cup {merger'.row} :
            LET before == CellsOf(merger.row, merger.family, merger.qualifier)
                after == CellsOf(row, merger.family, merger.qualifier)
            IN  /\ row.key = merger.row.key
                /\ after = Append(before, Last(after))
                /\ Last(after).meta = merger.meta
                /\ Len(Last(after).value) = merger.expected_value_size
                /\ IsPrefix(merger.value, Last(after).value)]_vars
=============================================================================
