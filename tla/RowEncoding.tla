----------------------------- MODULE RowEncoding -----------------------------
(***************************************************************************)
(* The row merger fed by a server that keeps the chunk protocol.  The      *)
(* server sends a row cell by cell: the first cell names its key, family   *)
(* and qualifier, a later one may leave out what it shares with the cell   *)
(* before; a value may be split; the row may be reset, or its stream may   *)
(* break, and it is sent again; between rows the server may report how far *)
(* it has scanned.  RowMerger says what the merger refuses; this module    *)
(* that it refuses nothing it should take, and rebuilds what was sent.     *)
(***************************************************************************)
EXTENDS RowMerger

CONSTANTS
  CellValues,  \* the values of cells, sequences of bytes
  MaxResets    \* bound of the model: times a row is given up

ASSUME EncodingAssumption ==
  /\ MaxResets \in Nat /\ 0 \in Sizes
  /\ \A value \in CellValues :
       /\ value \in Seq(Bytes) /\ Len(value) \in Sizes
       /\ \A from, to \in 0..Len(value) : SubSeq(value, from + 1, to) \in Values

VARIABLES
  sending,  \* key of the row the server is at, NoKey before the first one
  sent,     \* cells of that row the server has begun so far
  offset,   \* bytes of the last cell sent, or Complete
  resets    \* times that row has been given up so far

encodingVars == <<vars, sending, sent, offset, resets>>

Complete == -1

SentCell == [family : Families, qualifier : Qualifiers, meta : Metas, value : CellValues]

EncodingInit ==
  /\ Init
  /\ sending = NoKey /\ sent = <<>> /\ offset = Complete /\ resets = 0

\* Names a cell may carry: all it needs, or none it shares with the cell before.
NamesOf(cell) ==
  LET previous == Last(sent)
      both == {<<cell.family, cell.qualifier>>}
  IN  IF sent = <<>> \/ previous.family # cell.family THEN both
      ELSE both \cup {<<NoName, cell.qualifier>>}
                \cup (IF previous.qualifier = cell.qualifier THEN {<<NoName, NoName>>} ELSE {})

\* The first chunk of a row must name its key, the others may.
KeysOf(k) == IF sent = <<>> THEN {k} ELSE {k, EmptyKey}

EmptyChunk ==
  [row_key |-> EmptyKey, family_name |-> NoName, qualifier |-> NoName, meta |-> NoMeta,
   value |-> <<>>, value_size |-> 0, row_status |-> "None"]

\* The bytes of a value between two offsets.  A chunk that is not the last of
\* its value announces the size; the last one may complete the row as well.
SendPiece(chunk, value, from, to) ==
  LET piece == [chunk EXCEPT !.value = SubSeq(value, from + 1, to)]
  IN  \/ /\ to = Len(value) /\ offset' = Complete
         /\ \E status \in {"None", "Commit"} : Receive([piece EXCEPT !.row_status = status])
      \/ /\ to > from /\ offset' = to
         /\ Receive([piece EXCEPT !.value_size = Len(value)])

\* Rows go in the direction of the query; one that was given up may come again.
MayStart(k) ==
  sending = NoKey \/ Beyond(k, sending, Reversed) \/ (k = sending /\ resets > 0)

\* The first chunk of a cell.
SendCell(k, cell) ==
  /\ offset = Complete /\ result.row = {} /\ Len(sent) < MaxCells
  /\ IF sent = <<>> THEN MayStart(k) ELSE k = sending
  /\ \E names \in NamesOf(cell), rowKey \in KeysOf(k), to \in 0..Len(cell.value) :
       SendPiece([EmptyChunk EXCEPT !.row_key = rowKey, !.family_name = names[1],
                                    !.qualifier = names[2], !.meta = cell.meta],
                 cell.value, 0, to)
  /\ sending' = k
  /\ sent' = Append(sent, cell)
  /\ resets' = IF k = sending THEN resets ELSE 0

\* A further chunk of a split value.
ContinueValue ==
  /\ offset # Complete
  /\ LET value == Last(sent).value
     IN  \E to \in offset..Len(value) : SendPiece(EmptyChunk, value, offset, to)
  /\ UNCHANGED <<sending, sent, resets>>

GiveUp ==
  /\ sent # <<>> /\ result.row = {} /\ resets < MaxResets
  /\ sent' = <<>> /\ offset' = Complete /\ resets' = resets + 1
  /\ UNCHANGED sending

Reset == GiveUp /\ Receive([EmptyChunk EXCEPT !.row_status = "Reset"])

\* The stream breaks inside a row; the next stream starts the row afresh.
BreakOff == GiveUp /\ Discard

\* The row is out; the server turns to the next one.
NextRow ==
  /\ result.row # {}
  /\ result' = NothingReturned
  /\ sent' = <<>> /\ resets' = 0
  /\ UNCHANGED <<merger, scanned, live, sending, offset>>

\* A scan marker: everything up to k was scanned and is not in the result.
ScanTo(k) ==
  /\ sent = <<>> /\ MayStart(k)
  /\ Mark(k)
  /\ sending' = k /\ resets' = 0
  /\ UNCHANGED <<sent, offset>>

EndStream == sent = <<>> /\ Finish /\ UNCHANGED <<sending, sent, offset, resets>>

EncodingNext ==
  \/ \E k \in Keys, cell \in SentCell : SendCell(k, cell)
  \/ ContinueValue
  \/ Reset
  \/ BreakOff
  \/ NextRow
  \/ \E k \in Keys : ScanTo(k)
  \/ EndStream

EncodingSpec == EncodingInit /\ [][EncodingNext]_encodingVars

-----------------------------------------------------------------------------
\* A stream that keeps the protocol is never rejected, wherever its values are
\* split, whatever names it leaves out, however often a row is given up and
\* wherever the stream ends between rows.
NeverRejects == result.issue = "None"

\* The cells a merged row has for a family and qualifier: of its columns with
\* these names the first, which lookups by name find.
Merged(row, family, qualifier) ==
  LET f == SelectInSeq(row.families, LAMBDA x : x.name = family)
      c == SelectInSeq(row.families[f].columns, LAMBDA x : x.qualifier = qualifier)
  IN  IF f = 0 THEN <<>> ELSE IF c = 0 THEN <<>> ELSE row.families[f].columns[c].cells

\* A merged row has the key and, family by family and column by column, exactly
\* the cells of the row that was sent, in order and with whole values; nothing
\* of an attempt that was given up is in it.
RowRebuilt ==
  \A row \in result.row :
    /\ row.key = sending
    /\ \A family \in Families, qualifier \in Qualifiers :
         Merged(row, family, qualifier) = SentTo(sent, family, qualifier)
    /\ sent # <<>> /\ Len(row.families) = Cardinality({cell.family : cell \in ToSet(sent)})
=============================================================================
