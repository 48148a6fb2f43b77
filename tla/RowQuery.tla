------------------------------- MODULE RowQuery -------------------------------
(***************************************************************************)
(* A caller builds a Query, the client turns it into a ReadRowsRequest and *)
(* later, after a broken stream, into the request that reads what is left. *)
(***************************************************************************)
EXTENDS RowRanges, FiniteSets

CONSTANTS
  Keys,          \* the nonempty row keys the model uses
  StartKeys,     \* the keys a caller may write in a lower bound
  EndKeys,       \* the keys a caller may write in an upper bound
  TooLong,       \* the keys longer than MAX_ROW_KEY_BYTES
  Limits,        \* the limits a caller may ask for, zero included
  MaxLimit,      \* the largest limit the API can represent, i64::MAX
  MaxKeys,       \* bounds of the model: exact keys in one query,
  MaxRanges      \* and ranges

ASSUME KeysAssumption == Keys \subseteq Key \ {EmptyKey} /\ TooLong \subseteq Key
ASSUME BoundKeysAssumption == StartKeys \subseteq Key /\ EndKeys \subseteq Key
ASSUME LimitsAssumption == Limits \subseteq Nat /\ MaxLimit \in Nat /\ MaxKeys \in Nat /\ MaxRanges \in Nat

VARIABLES
  query,         \* the Query under construction
  original,      \* {} or {the request made of it}
  rejected,      \* a builder or Query::validate refused the query
  progress,      \* last key returned or scanned when the stream broke
  returned,      \* rows returned by then
  resumed        \* {} or the result of resume_request, itself optional

vars == <<query, original, rejected, progress, returned, resumed>>

Bounds(keys) == {[kind |-> "Unbounded", key |-> EmptyKey]}
                \cup [kind : {"Inclusive", "Exclusive"}, key : keys]
Ranges == [start : Bounds(StartKeys), end : Bounds(EndKeys)]

Init ==
  /\ query = NewQuery
  /\ original = {} /\ resumed = {}
  /\ rejected = FALSE
  /\ progress = NoKey /\ returned = 0

Building == original = {} /\ ~rejected

AddRowKey(key) ==
  /\ Building
  /\ Cardinality(query.row_keys) < MaxKeys
  /\ query' = [query EXCEPT !.row_keys = @ \cup {key}]
  /\ UNCHANGED <<original, rejected, progress, returned, resumed>>

AddRowRange(range) ==
  /\ Building
  /\ Cardinality(query.row_ranges) < MaxRanges
  /\ query' = [query EXCEPT !.row_ranges = @ \cup {range}]
  /\ UNCHANGED <<original, rejected, progress, returned, resumed>>

\* Query::limit consumes the query when it refuses the limit.
SetLimit(limit) ==
  /\ Building
  /\ IF limit = 0 \/ limit > MaxLimit
       THEN rejected' = TRUE /\ UNCHANGED query
       ELSE query' = [query EXCEPT !.limit = limit] /\ UNCHANGED rejected
  /\ UNCHANGED <<original, progress, returned, resumed>>

SetReversed ==
  /\ Building
  /\ query' = [query EXCEPT !.reversed = TRUE]
  /\ UNCHANGED <<original, rejected, progress, returned, resumed>>

Submit ==
  /\ Building
  /\ IF ValidQuery(query, TooLong)
       THEN original' = {IntoRequest(query)} /\ UNCHANGED rejected
       ELSE rejected' = TRUE /\ UNCHANGED original
  /\ UNCHANGED <<query, progress, returned, resumed>>

\* The stream broke after `rows` rows; `key` is the last key it passed.
Resume(key, rows) ==
  /\ original # {} /\ resumed = {}
  /\ key = NoKey => rows = 0
  /\ progress' = key /\ returned' = rows
  /\ \E request \in original : resumed' = {ResumeRequest(request, key, rows)}
  /\ UNCHANGED <<query, original, rejected>>

Next ==
  \/ \E k \in Keys \cup {EmptyKey} : AddRowKey(k)
  \/ \E r \in Ranges : AddRowRange(r)
  \/ \E n \in Limits : SetLimit(n)
  \/ SetReversed
  \/ Submit
  \/ \E k \in Keys \cup {NoKey}, n \in Limits : Resume(k, n)

Spec == Init /\ [][Next]_vars

-----------------------------------------------------------------------------
\* resume_request reads exactly what is left: for a request that the row limit
\* has not ended, a key is selected by the resumed request just when the
\* original selects it and it lies beyond the progress.  No row is read twice
\* and none is skipped, whatever ranges overlap, touch or enclose the progress.
ResumeExact ==
  \A option \in resumed, o \in original, key \in Keys :
    ~LimitReached(o, returned) =>
      ((\E r \in option : Selects(r, key))
         <=> (Selects(o, key) /\ (progress # NoKey => Beyond(key, progress, o.reversed))))

\* The resumed request asks for exactly the rows still owed under the caller's
\* limit, never for zero, which the API reads as "no limit"; and a limit that
\* has been reached ends the operation instead of sending a request.
ResumeLimit ==
  \A option \in resumed, o \in original :
    /\ LimitReached(o, returned) => option = {}
    /\ \A r \in option :
         IF o.rows_limit = 0 THEN r.rows_limit = 0
         ELSE r.rows_limit > 0 /\ r.rows_limit + returned = o.rows_limit
=============================================================================
