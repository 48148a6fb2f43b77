------------------------------- MODULE Mutation -------------------------------
(***************************************************************************)
(* The mutations of mutation.rs: the constructors of one change, the row   *)
(* mutation that collects changes for one key, and the rule that says      *)
(* whether an entry may be sent again.  Below them the row they change, as *)
(* far as the repository relies on it: what each change does to the cells, *)
(* and how a token makes the service apply an entry once.                  *)
(*                                                                         *)
(* A name is a model value; the sets of names that are too long or hold a  *)
(* character the code refuses are constants.  One tick of the wall clock   *)
(* is a millisecond.                                                       *)
(***************************************************************************)
EXTENDS Retry, SequencesExt

CONSTANTS
  LongNames,        \* family names and table ids longer than the API allows
  BadNames,         \* family names and table ids with a refused character
  LongKeys,         \* row keys longer than MAX_ROW_KEY_BYTES
  MaxMutations,     \* MAX_MUTATIONS_PER_ENTRY
  MaxMicros,        \* i64::MAX, for timestamps in microseconds and for seconds
  TokenWindow       \* how long the service remembers a token, in ticks

ASSUME LimitsAssumption == MaxMutations \in Nat \ {0} /\ MaxMicros \in Nat /\ TokenWindow \in Nat

\* The operations of a change; "None" is a protobuf message that holds none.
Operations ==
  {"SetCell", "DeleteFromColumn", "DeleteFromFamily", "DeleteFromRow", "AddToCell", "MergeToCell"}

EmptyName == ""
ServerTime == -1
NoMicros == -2

MutationIssue ==
  {"EmptyTableId", "TableIdTooLong", "TableIdContainsSlash", "EmptyRowKey", "RowKeyTooLong",
   "EmptyFamilyName", "FamilyNameTooLong", "InvalidFamilyName", "NegativeTimestamp",
   "TimestampNotMillisecondAligned", "InvalidTimestampRange", "MissingOperation",
   "EmptyRowMutation", "TooManyMutations", "IdempotencyTokenTooShort", "ClockBeforeUnixEpoch",
   "ClockOutOfRange"}

-----------------------------------------------------------------------------
(* Validation.                                                             *)

TableIdIssue(table) ==
  IF table = EmptyName THEN "EmptyTableId"
  ELSE IF table \in LongNames THEN "TableIdTooLong"
  ELSE IF table \in BadNames THEN "TableIdContainsSlash"
  ELSE "None"

RowKeyIssue(key) ==
  IF key = EmptyName THEN "EmptyRowKey" ELSE IF key \in LongKeys THEN "RowKeyTooLong" ELSE "None"

FamilyNameIssue(family) ==
  IF family = EmptyName THEN "EmptyFamilyName"
  ELSE IF family \in LongNames THEN "FamilyNameTooLong"
  ELSE IF family \in BadNames THEN "InvalidFamilyName"
  ELSE "None"

TimestampIssue(micros) ==
  IF micros < 0 THEN "NegativeTimestamp"
  ELSE IF micros % 1000 # 0 THEN "TimestampNotMillisecondAligned"
  ELSE "None"

\* A wall clock before the epoch reads as a negative number of milliseconds.
ClockIssue(millis) ==
  IF millis < 0 THEN "ClockBeforeUnixEpoch"
  ELSE IF millis * 1000 > MaxMicros THEN "ClockOutOfRange"
  ELSE "None"

-----------------------------------------------------------------------------
(* The constructors.  Each returns an issue and the mutation it made.      *)

Change(op, family, qualifier, from, to, value) ==
  [op |-> op, family |-> family, qualifier |-> qualifier, from |-> from, to |-> to, value |-> value]
NoChange == Change("None", EmptyName, EmptyName, NoMicros, NoMicros, 0)

Built(issue, change) == [issue |-> issue, change |-> IF issue = "None" THEN change ELSE NoChange]

\* The timestamp of a cell stands in `from`.
SetCellAt(family, qualifier, micros, value) ==
  Built(FirstIssue(<<FamilyNameIssue(family), TimestampIssue(micros)>>),
        Change("SetCell", family, qualifier, micros, NoMicros, value))

SetCell(family, qualifier, millis, value) ==
  IF ClockIssue(millis) # "None" THEN Built(ClockIssue(millis), NoChange)
  ELSE SetCellAt(family, qualifier, millis * 1000, value)

SetCellAtServerTime(family, qualifier, value) ==
  Built(FamilyNameIssue(family), Change("SetCell", family, qualifier, ServerTime, NoMicros, value))

\* No time range: every version.
DeleteCells(family, qualifier) ==
  Built(FamilyNameIssue(family), Change("DeleteFromColumn", family, qualifier, NoMicros, NoMicros, 0))

DeleteCellsInRange(family, qualifier, start, end) ==
  Built(FirstIssue(<<FamilyNameIssue(family), TimestampIssue(start), TimestampIssue(end),
                     IF start >= end THEN "InvalidTimestampRange" ELSE "None">>),
        Change("DeleteFromColumn", family, qualifier, start, end, 0))

DeleteFamily(family) ==
  Built(FamilyNameIssue(family), Change("DeleteFromFamily", family, EmptyName, NoMicros, NoMicros, 0))

DeleteRow == Built("None", Change("DeleteFromRow", EmptyName, EmptyName, NoMicros, NoMicros, 0))

\* Whatever operation the protobuf message holds is taken as it is.
FromProto(change) ==
  Built(IF change.op = "None" THEN "MissingOperation" ELSE "None", change)

-----------------------------------------------------------------------------
(* RowMutation.  `token` is {} or {the time its token was added}: tokens   *)
(* themselves are unique to an entry.                                      *)

NewRow(key) == [row_key |-> key, mutations |-> <<>>, token |-> {}]

AddMutation(row, change) == [row EXCEPT !.mutations = Append(@, change)]

\* Faulty variant: one change too many is taken.
TooManyLate(row) == Len(row.mutations) > MaxMutations

TooMany(row) == Len(row.mutations) = MaxMutations

\* The time beside a token is kept in seconds, which overflow later.
TokenIssue(length, millis) ==
  IF length < 8 THEN "IdempotencyTokenTooShort"
  ELSE IF millis < 0 THEN "ClockBeforeUnixEpoch"
  ELSE IF millis \div 1000 > MaxMicros THEN "ClockOutOfRange"
  ELSE "None"

\* Faulty variant: an aggregate counts as safe.
AggregateRetrySafe(change, hasIdempotency) ==
  change.op \in {"SetCell", "AddToCell", "MergeToCell"} => change.from # ServerTime

\* Mutation::is_retry_safe
ChangeRetrySafe(change, hasIdempotency) ==
  CASE change.op = "SetCell" -> change.from # ServerTime
    [] change.op \in {"DeleteFromColumn", "DeleteFromFamily", "DeleteFromRow"} -> TRUE
    [] change.op \in {"AddToCell", "MergeToCell"} -> hasIdempotency
    [] change.op = "None" -> FALSE

\* RowMutation::is_retry_safe
RowRetrySafe(row) ==
  \A i \in DOMAIN row.mutations : ChangeRetrySafe(row.mutations[i], row.token # {})

-----------------------------------------------------------------------------
(* The row in the table, as the code relies on it: a set of versions, one  *)
(* for each column and timestamp, and the time at which the token of the   *)
(* entry under study was applied, {} when it has not been.                 *)

Overlaps(version, change) ==
  /\ version.family = change.family /\ version.qualifier = change.qualifier
  /\ change.from = NoMicros \/ (version.at >= change.from /\ version.at < change.to)

\* An aggregate cell holds a sum; it is its own column and timestamp.
ApplyChange(versions, change, millis) ==
  LET at == IF change.from = ServerTime THEN millis * 1000 ELSE change.from
      same == {v \in versions : v.family = change.family /\ v.qualifier = change.qualifier /\ v.at = at}
      sum == change.value + (IF same = {} THEN 0 ELSE (CHOOSE v \in same : TRUE).value)
      Holding(value) == {[family |-> change.family, qualifier |-> change.qualifier, at |-> at, value |-> value]}
  IN  CASE change.op = "SetCell" -> (versions \ same) \cup Holding(change.value)
        [] change.op = "DeleteFromColumn" -> {v \in versions : ~Overlaps(v, change)}
        [] change.op = "DeleteFromFamily" -> {v \in versions : v.family # change.family}
        [] change.op = "DeleteFromRow" -> {}
        [] change.op \in {"AddToCell", "MergeToCell"} -> (versions \ same) \cup Holding(sum)

\* The versions after the changes, applied one after the other.
ApplyChanges(versions, changes, millis) ==
  LET applied[n \in 0..Len(changes)] ==
        IF n = 0 THEN versions ELSE ApplyChange(applied[n - 1], changes[n], millis)
  IN  applied[Len(changes)]

\* The changes of an entry are applied in order and at once.  An entry with a
\* token is applied if the token is recent and the service does not remember
\* it; it remembers a token for TokenWindow ticks.
ApplyEntry(stored, row, millis) ==
  LET late == \E start \in row.token : millis > start + TokenWindow
      known == \E at \in stored.applied : millis <= at + TokenWindow
  IN  IF row.token # {} /\ (late \/ known) THEN stored
      ELSE [versions |-> ApplyChanges(stored.versions, row.mutations, millis),
            applied |-> IF row.token = {} THEN {} ELSE {millis}]
=============================================================================
