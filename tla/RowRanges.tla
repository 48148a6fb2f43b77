------------------------------ MODULE RowRanges ------------------------------
(***************************************************************************)
(* The row selection of a ReadRows request and how it is trimmed when a    *)
(* broken stream is resumed (query.rs, and resume_request of read.rs).     *)
(*                                                                         *)
(* A row key is a natural number standing for a byte string.  Only the     *)
(* lexicographic order of keys is used, and any finite set of byte strings *)
(* maps to the naturals with its order kept; the empty string is the least *)
(* byte string, so it is the number 0.                                     *)
(***************************************************************************)
EXTENDS Integers

Key == Nat
EmptyKey == 0

\* Rust's None where the code has an Option of a key.
NoKey == -1

-----------------------------------------------------------------------------
(* The public query: RowBound, RowRange and Query.                         *)

RowBound == [kind : {"Unbounded"}, key : {EmptyKey}]
            \cup [kind : {"Inclusive", "Exclusive"}, key : Key]
RowRange == [start : RowBound, end : RowBound]

\* The query Query::new makes: the whole table, no limit, ascending.
\* limit = 0 is Rust's None; the setter refuses a limit of zero.
NewQuery == [row_keys |-> {}, row_ranges |-> {}, limit |-> 0, reversed |-> FALSE]

\* Query::validate accepts the query.  The length a key must not exceed is
\* abstracted to a set of keys that are too long for the API.
ValidQuery(query, tooLong) ==
  LET KeysOf(bound) == IF bound.kind = "Unbounded" THEN {} ELSE {bound.key}
  IN  /\ EmptyKey \notin query.row_keys
      /\ query.row_keys \cap tooLong = {}
      /\ \A r \in query.row_ranges : (KeysOf(r.start) \cup KeysOf(r.end)) \cap tooLong = {}

-----------------------------------------------------------------------------
(* The request sent to the server.  `rows` is an optional RowSet: {} for   *)
(* None, {rs} for Some(rs).  The order of the two vectors of a RowSet does *)
(* not matter to the server, so they are sets.                             *)

ProtoBound == [kind : {"None"}, key : {EmptyKey}]
              \cup [kind : {"Closed", "Open"}, key : Key]
ProtoRange == [start_key : ProtoBound, end_key : ProtoBound]
RowSet == [row_keys : SUBSET Key, row_ranges : SUBSET ProtoRange]

\* The fields of a ReadRowsRequest that read.rs reads and writes.
Requests == [rows : SUBSET RowSet, rows_limit : Nat, reversed : BOOLEAN]

NoBound == [kind |-> "None", key |-> EmptyKey]
Open(key) == [kind |-> "Open", key |-> key]

ProtoBoundOf(bound) ==
  [kind |-> CASE bound.kind = "Unbounded" -> "None"
              [] bound.kind = "Inclusive" -> "Closed"
              [] bound.kind = "Exclusive" -> "Open",
   key |-> bound.key]

ProtoRowRange(range) ==
  [start_key |-> ProtoBoundOf(range.start), end_key |-> ProtoBoundOf(range.end)]

IntoRequest(query) ==
  [rows |-> IF query.row_keys = {} /\ query.row_ranges = {}
              THEN {}
              ELSE {[row_keys |-> query.row_keys,
                     row_ranges |-> {ProtoRowRange(r) : r \in query.row_ranges}]},
   rows_limit |-> query.limit,
   reversed |-> query.reversed]

-----------------------------------------------------------------------------
(* Trimming: the part of a request that is left once the scan has passed   *)
(* `progress`.  A bound that is absent lies beyond every key on its side.  *)

\* Faulty variants: a start equal to the key is not trimmed; an absent end
\* counts as passed.
StartBefore(start, key) == start.kind = "None" \/ start.key < key
EndAbsentOrBefore(end, key) == end.kind = "None" \/ end.key <= key

StartAtOrBefore(start, key) == start.kind = "None" \/ start.key <= key
StartAtOrAfter(start, key) == start.kind # "None" /\ start.key >= key
EndAtOrBefore(end, key) == end.kind # "None" /\ end.key <= key
EndAtOrAfter(end, key) == end.kind = "None" \/ end.key >= key

\* An optional range: {} when nothing of the range is left.
TrimRange(range, progress, reversed) ==
  IF reversed
    THEN IF StartAtOrAfter(range.start_key, progress) THEN {}
         ELSE IF EndAtOrAfter(range.end_key, progress)
                THEN {[range EXCEPT !.end_key = Open(progress)]}
                ELSE {range}
    ELSE IF EndAtOrBefore(range.end_key, progress) THEN {}
         ELSE IF StartAtOrBefore(range.start_key, progress)
                THEN {[range EXCEPT !.start_key = Open(progress)]}
                ELSE {range}

\* key comes strictly after `than` in the order the rows are returned.
Beyond(key, than, reversed) == IF reversed THEN key < than ELSE key > than

TrimRowSet(rows, progress, reversed) ==
  LET left == [row_keys |-> {k \in rows.row_keys : Beyond(k, progress, reversed)},
               row_ranges |-> UNION {TrimRange(r, progress, reversed) : r \in rows.row_ranges}]
  IN  IF left.row_keys = {} /\ left.row_ranges = {} THEN {} ELSE {left}

\* The row set the code substitutes for an absent one: one range, no bounds.
WholeTable == [row_keys |-> {}, row_ranges |-> {[start_key |-> NoBound, end_key |-> NoBound]}]

\* Faulty variant: the limit is reached one row late.
LimitExceeded(original, rowsReturned) ==
  original.rows_limit > 0 /\ rowsReturned > original.rows_limit

LimitReached(original, rowsReturned) ==
  original.rows_limit > 0 /\ rowsReturned >= original.rows_limit

\* An optional request: {} when nothing is left to read.
ResumeRequest(original, progress, rowsReturned) ==
  LET limited == [original EXCEPT !.rows_limit =
                    IF original.rows_limit > 0 THEN original.rows_limit - rowsReturned ELSE 0]
      rows == IF original.rows = {} THEN {WholeTable} ELSE original.rows
      trimmed == UNION {TrimRowSet(rs, progress, original.reversed) : rs \in rows}
  IN  IF LimitReached(original, rowsReturned) THEN {}
      ELSE IF progress = NoKey THEN {limited}
      ELSE {[limited EXCEPT !.rows = {rs}] : rs \in trimmed}

-----------------------------------------------------------------------------
(* What the server reads for a request.  The repository states the meaning *)
(* of an empty bound: it leaves that side of the range unbounded.          *)

AfterStart(start, key) ==
  \/ start.kind = "None" \/ start.key = EmptyKey
  \/ start.kind = "Closed" /\ key >= start.key
  \/ start.kind = "Open" /\ key > start.key

BeforeEnd(end, key) ==
  \/ end.kind = "None" \/ end.key = EmptyKey
  \/ end.kind = "Closed" /\ key <= end.key
  \/ end.kind = "Open" /\ key < end.key

InRange(range, key) == AfterStart(range.start_key, key) /\ BeforeEnd(range.end_key, key)

InRowSet(rows, key) ==
  key \in rows.row_keys \/ \E r \in rows.row_ranges : InRange(r, key)

\* The keys (never empty) a request selects.
Selects(request, key) == request.rows = {} \/ \E rs \in request.rows : InRowSet(rs, key)
=============================================================================
