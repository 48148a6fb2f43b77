------------------------------ MODULE RowMapping ------------------------------
(***************************************************************************)
(* The row decoder of mapping.rs: how a complete row, as the merger builds *)
(* it, is searched for a column and how its bytes become a value.          *)
(*                                                                         *)
(* What a value's bytes can be decoded as is all that is kept of them: the *)
(* constants are the sets of values the decoders accept.  Qualifiers are   *)
(* numbers, ordered like the byte strings they stand for.                  *)
(*                                                                         *)
(* The library's binary search promises nothing for columns out of order,  *)
(* so a lookup has a set of possible outcomes, and so has what rests on it *)
(***************************************************************************)
EXTENDS RowMerge

CONSTANTS
  Utf8Values,     \* values that are UTF-8 text
  NumberValues,   \* values whose text from_str accepts for the target
  JsonValues,     \* values serde_json accepts for the target
  CustomValues    \* values the caller's own decoder accepts

ASSUME NumbersAreText == NumberValues \subseteq Utf8Values

RowMappingIssue == {"MissingFamily", "MissingColumn", "MissingCell", "InvalidValue"}

\* Result of a call: Ok, or an issue.  `at` is where the bytes are: the row key
\* or, by its timestamp, a cell of the column that was asked for.
AtRowKey == -1
Nowhere == -2
Ok(at, value) == [issue |-> "None", at |-> at, value |-> value]
Fail(issue, at) == [issue |-> issue, at |-> at, value |-> "absent"]
Absent == Ok(Nowhere, "absent")

-----------------------------------------------------------------------------
(* Values.                                                                 *)

\* Bytes and Vec<u8> take anything; text types need UTF-8 and then from_str.
FromCellValue(type, value) ==
  CASE type = "Bytes"  -> TRUE
    [] type = "String" -> value \in Utf8Values
    [] type = "Number" -> value \in NumberValues

\* The three ways to decode: FromCellValue, FromJsonValue, a caller's function.
Decodes(decoder, type, value) ==
  CASE decoder = "Plain" -> FromCellValue(type, value)
    [] decoder = "Json"  -> value \in JsonValues
    [] decoder = "With"  -> value \in CustomValues

DecodeCell(cell, decoder, type) ==
  IF Decodes(decoder, type, cell.value) THEN Ok(cell.meta, cell.value)
  ELSE Fail("InvalidValue", cell.meta)

\* row_key, row_key_json, row_key_with
RowKey(row, decoder, type) ==
  IF Decodes(decoder, type, row.key) THEN Ok(AtRowKey, row.key) ELSE Fail("InvalidValue", AtRowKey)

-----------------------------------------------------------------------------
(* Columns.                                                                *)

\* binary_search_by: some equal element, if there is one and the columns are in
\* order; out of order it may also find nothing.  0 is Err.
BinarySearch(columns, qualifier) ==
  LET hits == {i \in DOMAIN columns : columns[i].qualifier = qualifier}
      inOrder == \A i, j \in DOMAIN columns : i < j => columns[i].qualifier < columns[j].qualifier
  IN  IF inOrder /\ hits # {} THEN hits ELSE hits \cup {0}

\* Faulty variant: the binary search has the last word.
FindColumnSorted(columns, qualifier) == BinarySearch(columns, qualifier)

\* Columns are in the order the server sent them, so a miss is searched again
\* from the front.
FindColumn(columns, qualifier) ==
  LET HasQualifier(column) == column.qualifier = qualifier
  IN  {IF hit # 0 THEN hit ELSE SelectInSeq(columns, HasQualifier) : hit \in BinarySearch(columns, qualifier)}

\* The cells of a column, or why there is none.
Column(issue, cells) == [issue |-> issue, cells |-> cells]

RequiredColumn(row, family, qualifier) ==
  LET HasName(f) == f.name = family
      f == SelectInSeq(row.families, HasName)
  IN  IF f = 0 THEN {Column("MissingFamily", <<>>)}
      ELSE LET columns == row.families[f].columns
           IN  {IF c = 0 THEN Column("MissingColumn", <<>>) ELSE Column("None", columns[c].cells) :
                  c \in FindColumn(columns, qualifier)}

\* cells()
Cells(row, family, qualifier) ==
  {IF column.issue = "None" /\ column.cells = <<>> THEN Column("MissingCell", <<>>) ELSE column :
     column \in RequiredColumn(row, family, qualifier)}

\* Faulty variant: the last version sent, which is the oldest.
OldestCell(row, family, qualifier) ==
  {IF column.issue = "None" THEN Column("None", <<Last(column.cells)>>) ELSE column :
     column \in Cells(row, family, qualifier)}

\* The latest version is the first one; it stands in a column of one cell.
LatestCell(row, family, qualifier) ==
  {IF column.issue = "None" THEN Column("None", <<column.cells[1]>>) ELSE column :
     column \in Cells(row, family, qualifier)}

\* A sparse column: missing at whatever level is just absent.
OptionalLatestCell(row, family, qualifier) ==
  {column.cells : column \in LatestCell(row, family, qualifier)}

-----------------------------------------------------------------------------
(* Decoding a column.                                                      *)

\* required, required_json, required_with
Required(row, family, qualifier, decoder, type) ==
  {IF latest.issue # "None" THEN Fail(latest.issue, Nowhere) ELSE DecodeCell(latest.cells[1], decoder, type) :
     latest \in LatestCell(row, family, qualifier)}

\* optional, optional_json, optional_with: a cell that is there must decode.
Optional(row, family, qualifier, decoder, type) ==
  {IF cells = <<>> THEN Absent ELSE DecodeCell(cells[1], decoder, type) :
     cells \in OptionalLatestCell(row, family, qualifier)}

\* versions(): every version in order, or the first that does not decode.
Versions(row, family, qualifier, type) ==
  {IF column.issue # "None" THEN <<Fail(column.issue, Nowhere)>>
   ELSE LET decoded == [i \in DOMAIN column.cells |-> DecodeCell(column.cells[i], "Plain", type)]
            Failed(result) == result.issue # "None"
            first == SelectInSeq(decoded, Failed)
        IN  IF first = 0 THEN decoded ELSE <<decoded[first]>> :
     column \in Cells(row, family, qualifier)}
=============================================================================
