-------------------------- MODULE BulkMutationProofs --------------------------
(***************************************************************************)
(* Proofs about BulkMutation: whatever a caller builds, the requests of a  *)
(* bulk mutation hold each entry once and in order, and an entry that may  *)
(* be sent again changes nothing when it is.                               *)
(***************************************************************************)
EXTENDS BulkMutation, SharedLemmas

-----------------------------------------------------------------------------
(* What the constructors make.                                             *)

\* What FirstIssue returns is one of the issues it was given.
LEMMA FirstIssueIn ==
  ASSUME NEW checks, DOMAIN checks \in SUBSET Nat, NEW issues,
         \A i \in DOMAIN checks : checks[i] \in issues \cup {"None"}
  PROVE  FirstIssue(checks) \in issues \cup {"None"}
<1> DEFINE failing == {i \in DOMAIN checks : checks[i] # "None"}
<1>1. failing # {} => Min(failing) \in failing
  <2>1. failing \in SUBSET Nat
    OBVIOUS
  <2> HIDE DEF failing
  <2> QED BY <2>1, MinIsLeast
<1>2. FirstIssue(checks) = IF failing = {} THEN "None" ELSE checks[Min(failing)]
  BY DEF FirstIssue
<1> QED BY <1>1, <1>2

\* The checks of names, timestamps and the clock name issues of MutationIssue.
LEMMA CheckIssues ==
  /\ \A name : TableIdIssue(name) \in MutationIssue \cup {"None"}
  /\ \A name : RowKeyIssue(name) \in MutationIssue \cup {"None"}
  /\ \A name : FamilyNameIssue(name) \in MutationIssue \cup {"None"}
  /\ \A micros : TimestampIssue(micros) \in MutationIssue \cup {"None"}
  /\ \A millis : ClockIssue(millis) \in MutationIssue \cup {"None"}
  /\ \A length, millis : TokenIssue(length, millis) \in MutationIssue \cup {"None"}
BY DEF TableIdIssue, RowKeyIssue, FamilyNameIssue, TimestampIssue, ClockIssue, TokenIssue, MutationIssue

\* A constructor refuses with an issue of its enum, or makes a change with an
\* operation.
Proper(built) ==
  /\ built.issue \in MutationIssue \cup {"None"}
  /\ built.issue = "None" => built.change.op \in Operations

\* Built keeps to that if its issue and its change do.
LEMMA BuiltProper ==
  ASSUME NEW i \in MutationIssue \cup {"None"}, NEW change, i = "None" => change.op \in Operations
  PROVE  Proper(Built(i, change))
BY DEF Proper, Built

\* The operation of a change is the one it was made with.
LEMMA ChangeOp ==
  ASSUME NEW op, NEW family, NEW qualifier, NEW from, NEW to, NEW value
  PROVE  Change(op, family, qualifier, from, to, value).op = op
BY DEF Change

\* Every constructor keeps to it.
LEMMA ConstructorsProper ==
  ASSUME NEW family, NEW qualifier, NEW value
  PROVE  /\ \A micros : Proper(SetCellAt(family, qualifier, micros, value))
         /\ \A millis : Proper(SetCell(family, qualifier, millis, value))
         /\ Proper(SetCellAtServerTime(family, qualifier, value))
         /\ Proper(DeleteCells(family, qualifier))
         /\ \A start, end : Proper(DeleteCellsInRange(family, qualifier, start, end))
         /\ Proper(DeleteFamily(family)) /\ Proper(DeleteRow)
         /\ \A change \in Protos : Proper(FromProto(change))
<1>1. \A micros : Proper(SetCellAt(family, qualifier, micros, value))
  <2> TAKE micros
  <2> DEFINE checks == <<FamilyNameIssue(family), TimestampIssue(micros)>>
             change == Change("SetCell", family, qualifier, micros, NoMicros, value)
  <2>1. DOMAIN checks = 1..2 /\ checks[1] = FamilyNameIssue(family) /\ checks[2] = TimestampIssue(micros)
    OBVIOUS
  <2>2. change.op = "SetCell"
    BY ChangeOp
  <2>3. SetCellAt(family, qualifier, micros, value) = Built(FirstIssue(checks), change)
    BY DEF SetCellAt
  <2> HIDE DEF checks, change
  <2>4. FirstIssue(checks) \in MutationIssue \cup {"None"}
    <3>1. \A i \in DOMAIN checks : checks[i] \in MutationIssue \cup {"None"}
      BY <2>1, CheckIssues
    <3> QED BY <2>1, <3>1, FirstIssueIn
  <2>5. change.op \in Operations
    BY <2>2 DEF Operations
  <2> QED BY <2>3, <2>4, <2>5, BuiltProper
<1>2. \A millis : Proper(SetCell(family, qualifier, millis, value))
  <2> TAKE millis
  <2>1. CASE ClockIssue(millis) # "None"
    <3>1. SetCell(family, qualifier, millis, value) = Built(ClockIssue(millis), NoChange)
      BY <2>1 DEF SetCell
    <3> QED BY <2>1, <3>1, CheckIssues, BuiltProper
  <2>2. CASE ClockIssue(millis) = "None"
    BY <1>1, <2>2 DEF SetCell
  <2> QED BY <2>1, <2>2
<1>3. Proper(SetCellAtServerTime(family, qualifier, value)) /\ Proper(DeleteCells(family, qualifier))
      /\ Proper(DeleteFamily(family))
  <2>1. /\ Change("SetCell", family, qualifier, ServerTime, NoMicros, value).op \in Operations
        /\ Change("DeleteFromColumn", family, qualifier, NoMicros, NoMicros, 0).op \in Operations
        /\ Change("DeleteFromFamily", family, EmptyName, NoMicros, NoMicros, 0).op \in Operations
    BY ChangeOp DEF Operations
  <2> QED BY <2>1, CheckIssues, BuiltProper DEF SetCellAtServerTime, DeleteCells, DeleteFamily
<1>4. \A start, end : Proper(DeleteCellsInRange(family, qualifier, start, end))
  <2> TAKE start, end
  <2> DEFINE order == IF start >= end THEN "InvalidTimestampRange" ELSE "None"
             checks == <<FamilyNameIssue(family), TimestampIssue(start), TimestampIssue(end), order>>
             change == Change("DeleteFromColumn", family, qualifier, start, end, 0)
  <2>1. /\ DOMAIN checks = 1..4 /\ checks[1] = FamilyNameIssue(family) /\ checks[2] = TimestampIssue(start)
        /\ checks[3] = TimestampIssue(end) /\ checks[4] = order
    OBVIOUS
  <2>2. change.op = "DeleteFromColumn"
    BY ChangeOp
  <2>3. DeleteCellsInRange(family, qualifier, start, end) = Built(FirstIssue(checks), change)
    BY DEF DeleteCellsInRange
  <2>4. order \in MutationIssue \cup {"None"}
    BY DEF MutationIssue
  <2> HIDE DEF order, checks, change
  <2>5. FirstIssue(checks) \in MutationIssue \cup {"None"}
    <3>1. \A i \in DOMAIN checks : checks[i] \in MutationIssue \cup {"None"}
      BY <2>1, <2>4, CheckIssues
    <3> QED BY <2>1, <3>1, FirstIssueIn
  <2>6. change.op \in Operations
    BY <2>2 DEF Operations
  <2> QED BY <2>3, <2>5, <2>6, BuiltProper
<1>5. Proper(DeleteRow)
  <2>1. Change("DeleteFromRow", EmptyName, EmptyName, NoMicros, NoMicros, 0).op \in Operations
    BY ChangeOp DEF Operations
  <2> QED BY <2>1, BuiltProper DEF DeleteRow
<1>6. \A change \in Protos : Proper(FromProto(change))
  <2> TAKE change \in Protos
  <2> DEFINE i == IF change.op = "None" THEN "MissingOperation" ELSE "None"
  <2>1. i \in MutationIssue \cup {"None"} /\ (i = "None" => change.op \in Operations)
    BY CallsAssumption DEF MutationIssue
  <2>2. FromProto(change) = Built(i, change)
    BY DEF FromProto
  <2> HIDE DEF i
  <2> QED BY <2>1, <2>2, BuiltProper
<1> QED BY <1>1, <1>2, <1>3, <1>4, <1>5, <1>6

-----------------------------------------------------------------------------
(* What a caller builds.                                                   *)

\* A sequence, of whatever elements.
IsSeq(s) == \E S : s \in Seq(S)

\* Appending keeps a sequence one.
LEMMA AppendAny ==
  ASSUME NEW s, IsSeq(s), NEW x
  PROVE  /\ IsSeq(Append(s, x)) /\ Len(s) \in Nat /\ Len(Append(s, x)) = Len(s) + 1
         /\ \A i \in DOMAIN Append(s, x) :
              (i \in DOMAIN s /\ Append(s, x)[i] = s[i]) \/ Append(s, x)[i] = x
<1>1. PICK S : s \in Seq(S)
  BY DEF IsSeq
<1> DEFINE T == S \cup {x}
<1>2. s \in Seq(T) /\ x \in T
  <2>1. s \in [1..Len(s) -> S] /\ Len(s) \in Nat
    BY <1>1, LenProperties
  <2>2. s \in [1..Len(s) -> T]
    BY <2>1
  <2> HIDE DEF T
  <2>3. s \in Seq(T)
    BY <2>1, <2>2, SeqDef
  <2> QED BY <2>3 DEF T
<1> HIDE DEF T
<1>3. Append(s, x) \in Seq(T) /\ Len(s) \in Nat /\ Len(Append(s, x)) = Len(s) + 1
      /\ DOMAIN s = 1..Len(s) /\ DOMAIN Append(s, x) = 1..(Len(s) + 1)
      /\ (\A i \in 1..Len(s) : Append(s, x)[i] = s[i]) /\ Append(s, x)[Len(s) + 1] = x
  BY <1>2
<1>4. \A i \in 1..(Len(s) + 1) : i \in 1..Len(s) \/ i = Len(s) + 1
  BY <1>3
<1> QED BY <1>3, <1>4 DEF IsSeq

\* A row mutation collects changes with an operation, not too many, and may
\* hold a token.
RowOk(r) ==
  /\ DOMAIN r = {"row_key", "mutations", "token"}
  /\ IsSeq(r.mutations) /\ Len(r.mutations) <= MaxMutations
  /\ \A i \in DOMAIN r.mutations : r.mutations[i].op \in Operations
  /\ r.token \subseteq Clocks

\* The inductive invariant.
Inv ==
  /\ table \subseteq Tables
  /\ issue \in MutationIssue \cup {"None"}
  /\ \A r \in row : RowOk(r)
  /\ IsSeq(bulk) /\ \A i \in DOMAIN bulk : RowOk(bulk[i]) /\ bulk[i].mutations # <<>>
  /\ outcome.issue \in BulkMutationPolicyIssue \cup {"None"}

\* The empty sequence is one.
LEMMA EmptyIsSeq == IsSeq(<<>>) /\ Len(<<>>) = 0 /\ DOMAIN <<>> = {}
<1>1. <<>> \in Seq({})
  BY EmptySeq
<1> QED BY <1>1 DEF IsSeq

\* A new row mutation, and one with another change, keep to that.
LEMMA RowsOk ==
  /\ \A key : RowOk(NewRow(key))
  /\ \A r, change : RowOk(r) /\ ~TooMany(r) /\ change.op \in Operations => RowOk(AddMutation(r, change))
<1>1. ASSUME NEW key PROVE RowOk(NewRow(key))
  <2> DEFINE r == NewRow(key)
  <2>1. DOMAIN r = {"row_key", "mutations", "token"} /\ r.mutations = <<>> /\ r.token = {}
    BY DEF NewRow
  <2> HIDE DEF r
  <2>2. RowOk(r)
    BY <2>1, EmptyIsSeq, LimitsAssumption DEF RowOk
  <2> QED BY <2>2 DEF r
<1>2. ASSUME NEW r, NEW change, RowOk(r), ~TooMany(r), change.op \in Operations
      PROVE  RowOk(AddMutation(r, change))
  <2> DEFINE s == Append(r.mutations, change)
             q == AddMutation(r, change)
  <2>1. q = [r EXCEPT !.mutations = s]
    BY DEF AddMutation
  <2> HIDE DEF s, q
  <2>2. DOMAIN q = {"row_key", "mutations", "token"} /\ q.mutations = s /\ q.token = r.token
    BY <1>2, <2>1 DEF RowOk
  <2>3. IsSeq(s) /\ Len(r.mutations) \in Nat /\ Len(s) = Len(r.mutations) + 1
        /\ \A i \in DOMAIN s : (i \in DOMAIN r.mutations /\ s[i] = r.mutations[i]) \/ s[i] = change
    BY <1>2, AppendAny DEF RowOk, s
  <2>4. Len(s) <= MaxMutations
    BY <1>2, <2>3, LimitsAssumption DEF RowOk, TooMany
  <2>5. \A i \in DOMAIN s : s[i].op \in Operations
    BY <1>2, <2>3 DEF RowOk
  <2>6. RowOk(q)
    BY <1>2, <2>2, <2>3, <2>4, <2>5 DEF RowOk
  <2> QED BY <2>6 DEF q
<1> QED BY <1>1, <1>2

\* A refused call keeps the invariant.
LEMMA RefuseInv ==
  ASSUME Inv, NEW reason \in MutationIssue, Refuse(reason)
  PROVE  Inv'
<1>1. table' = {} /\ bulk' = <<>> /\ row' = {} /\ issue' = reason /\ outcome' = outcome
  BY DEF Refuse
<1> QED BY <1>1, EmptyIsSeq DEF Inv

\* So does a call that adds one change.
LEMMA MutateInv ==
  ASSUME Inv, NEW built, Proper(built), Mutate(built)
  PROVE  Inv'
<1>1. PICK r \in row :
        IF built.issue # "None" THEN Refuse(built.issue)
        ELSE IF TooMany(r) THEN Refuse("TooManyMutations")
        ELSE row' = {AddMutation(r, built.change)} /\ issue' = "None" /\ UNCHANGED <<table, bulk, outcome>>
  BY DEF Mutate
<1>2. CASE built.issue # "None"
  BY <1>1, <1>2, RefuseInv DEF Proper
<1>3. CASE built.issue = "None" /\ TooMany(r)
  BY <1>1, <1>3, RefuseInv DEF MutationIssue
<1>4. CASE built.issue = "None" /\ ~TooMany(r)
  <2>1. RowOk(AddMutation(r, built.change))
    BY <1>4, RowsOk DEF Inv, Proper
  <2> QED BY <1>1, <1>4, <2>1 DEF Inv
<1> QED BY <1>2, <1>3, <1>4

\* The issues of the options.
LEMMA OptionsIssues ==
  ASSUME NEW options
  PROVE  OptionsIssue(options) \in BulkMutationPolicyIssue \cup {"None"}
<1>1. PolicyIssue(options.retry, options.deadlines) \in PolicyIssues \cup {"None"}
  <2> DEFINE retry == options.retry
             deadlines == options.deadlines
             checks == <<Check(retry.max_attempts > 0, "ZeroMaxAttempts"),
               Check(retry.initial_backoff > 0, "ZeroInitialBackoff"),
               Check(retry.max_backoff > 0, "ZeroMaxBackoff"),
               Check(retry.max_backoff >= retry.initial_backoff, "MaxBackoffTooSmall"),
               Check(retry.multiplier >= 1, "InvalidBackoffMultiplier"),
               Check(deadlines.operation_timeout > 0, "ZeroOperationTimeout"),
               Check(deadlines.attempt_timeout > 0, "ZeroAttemptTimeout")>>
  <2>1. PolicyIssue(options.retry, options.deadlines) = FirstIssue(checks)
    BY DEF PolicyIssue
  <2>2. \A i \in DOMAIN checks : checks[i] \in PolicyIssues \cup {"None"}
    BY DEF Check, PolicyIssues
  <2>3. DOMAIN checks \in SUBSET Nat
    OBVIOUS
  <2> HIDE DEF checks
  <2> QED BY <2>1, <2>2, <2>3, FirstIssueIn
<1> DEFINE checks == <<PolicyIssue(options.retry, options.deadlines),
               Check(options.batch.max_entries_per_request > 0, "ZeroEntriesPerRequest"),
               Check(options.batch.max_request_bytes > 0, "ZeroRequestBytes"),
               Check(options.batch.max_in_flight_requests > 0, "ZeroInFlightRequests")>>
<1>2. OptionsIssue(options) = FirstIssue(checks) /\ DOMAIN checks \in SUBSET Nat
  BY DEF OptionsIssue
<1>3. \A i \in DOMAIN checks : checks[i] \in BulkMutationPolicyIssue \cup {"None"}
  BY <1>1 DEF Check, BulkMutationPolicyIssue
<1> HIDE DEF checks
<1> QED BY <1>2, <1>3, FirstIssueIn

\* Every call keeps the invariant.
LEMMA BulkStep == Inv /\ [Next]_vars => Inv'
<1> SUFFICES ASSUME Inv, [Next]_vars PROVE Inv'
  OBVIOUS
<1>1. ASSUME NEW name \in Tables, NewBulk(name) PROVE Inv'
  <2>1. CASE TableIdIssue(name) # "None"
    BY <1>1, <2>1, CheckIssues, RefuseInv DEF NewBulk
  <2>2. CASE TableIdIssue(name) = "None"
    BY <1>1, <2>2 DEF NewBulk, Inv
  <2> QED BY <2>1, <2>2
<1>2. ASSUME NEW key \in RowKeys, BeginRow(key) PROVE Inv'
  <2>1. CASE RowKeyIssue(key) # "None"
    BY <1>2, <2>1, CheckIssues, RefuseInv DEF BeginRow
  <2>2. CASE RowKeyIssue(key) = "None"
    BY <1>2, <2>2, RowsOk DEF BeginRow, Inv
  <2> QED BY <2>1, <2>2
<1>3. ASSUME NEW built, Mutate(built), Proper(built) PROVE Inv'
  BY <1>3, MutateInv
<1>4. ASSUME NEW length \in TokenLengths, NEW millis \in Clocks, WithIdempotencyToken(length, millis)
      PROVE  Inv'
  <2>1. PICK r \in row :
          IF TokenIssue(length, millis) # "None" THEN Refuse(TokenIssue(length, millis))
          ELSE row' = {[r EXCEPT !.token = {millis}]} /\ issue' = "None" /\ UNCHANGED <<table, bulk, outcome>>
    BY <1>4 DEF WithIdempotencyToken
  <2>2. CASE TokenIssue(length, millis) # "None"
    BY <2>1, <2>2, CheckIssues, RefuseInv
  <2>3. CASE TokenIssue(length, millis) = "None"
    <3> DEFINE token == {millis}
               q == [r EXCEPT !.token = token]
    <3>1. row' = {q} /\ issue' = "None" /\ UNCHANGED <<table, bulk, outcome>>
      BY <2>1, <2>3
    <3>2. RowOk(r) /\ token \subseteq Clocks
      BY DEF Inv
    <3> HIDE DEF token
    <3>3. DOMAIN q = {"row_key", "mutations", "token"} /\ q.mutations = r.mutations /\ q.token = token
      BY <3>2 DEF RowOk
    <3> HIDE DEF q
    <3>4. RowOk(q)
      BY <3>2, <3>3 DEF RowOk
    <3> QED BY <3>1, <3>4 DEF Inv
  <2> QED BY <2>2, <2>3
<1>5. CASE Push
  <2>1. PICK r \in row :
          /\ issue' = IF r.mutations = <<>> THEN "EmptyRowMutation" ELSE "None"
          /\ bulk' = IF issue' = "None" THEN Append(bulk, r) ELSE bulk
          /\ row' = {} /\ UNCHANGED <<table, outcome>>
    BY <1>5 DEF Push
  <2>2. CASE r.mutations = <<>>
    BY <2>1, <2>2 DEF Inv, MutationIssue
  <2>3. CASE r.mutations # <<>>
    <3>1. bulk' = Append(bulk, r) /\ issue' = "None"
      BY <2>1, <2>3
    <3>2. IsSeq(bulk) /\ RowOk(r)
      BY DEF Inv
    <3> DEFINE s == Append(bulk, r)
    <3>3. IsSeq(s) /\ \A i \in DOMAIN s : (i \in DOMAIN bulk /\ s[i] = bulk[i]) \/ s[i] = r
      BY <3>2, AppendAny
    <3> HIDE DEF s
    <3>4. \A i \in DOMAIN s : RowOk(s[i]) /\ s[i].mutations # <<>>
      BY <2>3, <3>2, <3>3 DEF Inv
    <3>5. bulk' = s
      BY <3>1 DEF s
    <3> QED BY <2>1, <3>1, <3>3, <3>4, <3>5 DEF Inv
  <2> QED BY <2>2, <2>3
<1>6. ASSUME NEW options \in Options, Execute(options) PROVE Inv'
  <2>1. table' = {} /\ bulk' = <<>> /\ issue' = "None" /\ row' = row
    BY <1>6 DEF Execute
  <2>2. outcome'.issue \in {OptionsIssue(options), "None", "DeadlineTooLarge"}
    BY <1>6 DEF Execute, NotExecuted
  <2>3. outcome'.issue \in BulkMutationPolicyIssue \cup {"None"}
    BY <2>2, OptionsIssues DEF BulkMutationPolicyIssue
  <2> QED BY <2>1, <2>3, EmptyIsSeq DEF Inv
<1>7. CASE UNCHANGED vars
  BY <1>7 DEF vars, Inv
<1>8. ASSUME NEW family \in Families, NEW qualifier \in Qualifiers,
             \/ \E millis \in Clocks : Mutate(SetCell(family, qualifier, millis, 1))
             \/ \E micros \in Timestamps : Mutate(SetCellAt(family, qualifier, micros, 2))
             \/ Mutate(SetCellAtServerTime(family, qualifier, 1))
             \/ Mutate(DeleteCells(family, qualifier))
             \/ \E start, end \in Timestamps : Mutate(DeleteCellsInRange(family, qualifier, start, end))
             \/ Mutate(DeleteFamily(family))
      PROVE  Inv'
  BY <1>3, <1>8, ConstructorsProper
<1>9. ASSUME Mutate(DeleteRow) \/ \E change \in Protos : Mutate(FromProto(change)) PROVE Inv'
  BY <1>3, <1>9, ConstructorsProper
<1> QED BY <1>1, <1>2, <1>4, <1>5, <1>6, <1>7, <1>8, <1>9 DEF Next

\* Every reachable state of the builders satisfies the invariant.
THEOREM BulkInvariant == Spec => []Inv
<1>1. Init => Inv
  <2> SUFFICES ASSUME Init PROVE Inv
    OBVIOUS
  <2>1. table = {} /\ bulk = <<>> /\ row = {} /\ issue = "None" /\ outcome.issue = "None"
    BY DEF Init, NotExecuted
  <2> QED BY <2>1, EmptyIsSeq DEF Inv
<1> QED BY <1>1, BulkStep, PTL DEF Spec

\* Every variable of a bulk mutation under construction keeps its type.
THEOREM BuildersKeepTypes == Spec => []TypeOK
<1>1. Inv => TypeOK
  <2> SUFFICES ASSUME Inv PROVE TypeOK
    OBVIOUS
  <2>1. ASSUME NEW i \in DOMAIN bulk PROVE Len(bulk[i].mutations) \in 1..MaxMutations
    <3>1. RowOk(bulk[i]) /\ bulk[i].mutations # <<>>
      BY DEF Inv
    <3>2. PICK S : bulk[i].mutations \in Seq(S)
      BY <3>1 DEF RowOk, IsSeq
    <3>3. Len(bulk[i].mutations) \in Nat /\ Len(bulk[i].mutations) # 0
      BY <3>1, <3>2, EmptySeq, LenProperties
    <3> QED BY <3>1, <3>3, LimitsAssumption DEF RowOk
  <2> QED BY <2>1 DEF TypeOK, Inv, RowOk
<1> QED BY <1>1, BulkInvariant, PTL

\* The requests of a bulk mutation hold every entry once, in the caller's order,
\* whatever the limits and the sizes of the entries.
THEOREM RequestsHoldEachEntry == Spec => []SplitKeepsEntries
<1>1. Inv => SplitKeepsEntries
  <2> SUFFICES ASSUME Inv PROVE SplitKeepsEntries
    OBVIOUS
  <2> DEFINE entries == PendingEntries(bulk)
             entry == [i \in DOMAIN bulk |->
                         [bytes |-> EntryBytes(bulk[i]), mutations |-> Len(bulk[i].mutations),
                          retry_safe |-> RowRetrySafe(bulk[i])]]
  <2>1. Len(bulk) \in Nat /\ DOMAIN bulk = 1..Len(bulk)
    <3>1. PICK S : bulk \in Seq(S)
      BY DEF Inv, IsSeq
    <3> QED BY <3>1, LenProperties
  <2>2. entries = entry
    BY DEF PendingEntries
  <2>3. entries \in Seq({entries[i] : i \in DOMAIN bulk}) /\ Len(entries) = Len(bulk)
    <3> DEFINE S == {entries[i] : i \in DOMAIN bulk}
    <3>1. DOMAIN entry = DOMAIN bulk /\ entry = [i \in DOMAIN bulk |-> entry[i]]
      OBVIOUS
    <3> HIDE DEF entry, entries
    <3>2. entries \in [1..Len(bulk) -> S]
      BY <2>1, <2>2, <3>1
    <3> HIDE DEF S
    <3>3. entries \in Seq(S)
      BY <2>1, <3>2, SeqDef
    <3>4. Len(entries) = Len(bulk)
      BY <2>1, <3>2, <3>3, LenProperties
    <3> QED BY <3>3, <3>4 DEF S
  <2> HIDE DEF entries, entry
  <2>4. FlattenSeq(Split(entries, BaseSize, Requested)) = InOrder(Len(bulk))
    BY <2>1, <2>3, SplitFlattens
  <2>5. InOrder(Len(bulk)) = [i \in DOMAIN bulk |-> i]
    BY <2>1 DEF InOrder
  <2> QED BY <2>4, <2>5 DEF SplitKeepsEntries, Batches, entries
<1> QED BY <1>1, BulkInvariant, PTL

-----------------------------------------------------------------------------
(* Sums and varints: functions that recur on numbers.                      *)

\* A function that begins somewhere and goes on step by step.
Recursion(f, N, S, start, step) ==
  f \in [0..N -> S] /\ f[0] = start /\ \A n \in 1..N : f[n] = step[n][f[n - 1]]

\* There is one, wherever it begins and whatever the steps.
LEMMA RecursionExists ==
  ASSUME NEW N, NEW S, NEW start, NEW step, N \in Nat, start \in S, step \in [1..N -> [S -> S]]
  PROVE  \E f : Recursion(f, N, S, start, step)
<1> DEFINE Recurs(f, M) == /\ f \in [0..M -> S] /\ f[0] = start
                           /\ \A n \in 1..M : f[n] = step[n][f[n - 1]]
           Good == {M \in 0..N : \E f : Recurs(f, M)}
<1>1. 0 \in Good
  <2> DEFINE f == [n \in 0..0 |-> start]
  <2>1. f \in [0..0 -> S] /\ f[0] = start /\ 1..0 = {}
    OBVIOUS
  <2> HIDE DEF f
  <2>2. Recurs(f, 0)
    BY <2>1
  <2> QED BY <2>2
<1>2. ASSUME NEW M \in 0..N, M \in Good, M < N PROVE M + 1 \in Good
  <2>1. PICK f : Recurs(f, M)
    BY <1>2
  <2> DEFINE last == step[M + 1][f[M]]
             h == [n \in 0..(M + 1) |-> IF n = M + 1 THEN last ELSE f[n]]
  <2>2. f[M] \in S /\ M + 1 \in 1..N /\ last \in S
    BY <1>2, <2>1
  <2>3. /\ h \in [0..(M + 1) -> S] /\ h[0] = start /\ h[M + 1] = last
        /\ \A n \in 0..M : h[n] = f[n]
    <3> HIDE DEF last
    <3> QED BY <2>1, <2>2
  <2> HIDE DEF h
  <2>4. ASSUME NEW n \in 1..(M + 1) PROVE h[n] = step[n][h[n - 1]]
    <3>1. CASE n = M + 1
      <4>1. n - 1 = M /\ h[M] = f[M]
        BY <2>3, <3>1
      <4> QED BY <2>3, <3>1, <4>1
    <3>2. CASE n \in 1..M
      <4>1. n - 1 \in 0..M /\ n \in 0..M
        BY <3>2
      <4>2. f[n] = step[n][f[n - 1]]
        BY <2>1, <3>2
      <4> QED BY <2>3, <4>1, <4>2
    <3> QED BY <3>1, <3>2
  <2>5. Recurs(h, M + 1) /\ M + 1 \in 0..N
    BY <1>2, <2>3, <2>4
  <2> QED BY <2>5
<1>3. \A M \in 0..N : M \in Good
  <2> HIDE DEF Good
  <2> QED BY <1>1, <1>2, UpTo
<1> QED BY <1>3 DEF Recursion

\* The sums of the first numbers of a sequence, and Total among them.
LEMMA TotalIs ==
  ASSUME NEW s \in Seq(Nat)
  PROVE  \E total \in [0..Len(s) -> Nat] :
           /\ total[0] = 0 /\ \A n \in 1..Len(s) : total[n] = total[n - 1] + s[n]
           /\ Total(s) = total[Len(s)]
<1> DEFINE N == Len(s)
           Totalling(f) == f = [n \in 0..N |-> IF n = 0 THEN 0 ELSE f[n - 1] + s[n]]
           step == [n \in 1..N |-> [x \in Nat |-> x + s[n]]]
           total == CHOOSE f : Totalling(f)
<1>1. N \in Nat /\ \A n \in 1..N : s[n] \in Nat
  OBVIOUS
<1>2. step \in [1..N -> [Nat -> Nat]] /\ \A n \in 1..N, x \in Nat : step[n][x] = x + s[n]
  BY <1>1
<1>w. Total(s) = total[N]
  BY DEF Total
<1> HIDE DEF N, step
<1>3. PICK f \in [0..N -> Nat] : f[0] = 0 /\ \A n \in 1..N : f[n] = step[n][f[n - 1]]
  <2> DEFINE S == Nat
             start == 0
  <2>1. start \in S /\ step \in [1..N -> [S -> S]]
    BY <1>2
  <2> HIDE DEF S, start
  <2>2. N \in Nat
    BY <1>1
  <2>3. \E f : Recursion(f, N, S, start, step)
    BY ONLY <2>1, <2>2, RecursionExists
  <2> QED BY <2>3 DEF S, start, Recursion
<1>4. \A n \in 1..N : n - 1 \in 0..N /\ f[n] = f[n - 1] + s[n]
  <2> TAKE n \in 1..N
  <2>1. n - 1 \in 0..N
    BY <1>1
  <2>2. f[n - 1] \in Nat
    BY <2>1
  <2> QED BY <1>2, <1>3, <2>1, <2>2
<1>5. Totalling(f)
  <2>1. \A n \in 0..N : f[n] = IF n = 0 THEN 0 ELSE f[n - 1] + s[n]
    <3> TAKE n \in 0..N
    <3>1. CASE n = 0
      BY <1>3, <3>1
    <3>2. CASE n # 0
      <4>1. n \in 1..N
        BY <1>1, <3>2
      <4> QED BY <1>4, <3>2, <4>1
    <3> QED BY <3>1, <3>2
  <2>2. f = [n \in 0..N |-> f[n]]
    OBVIOUS
  <2> QED BY <2>1, <2>2
<1>6. Totalling(total)
  <2> HIDE DEF Totalling
  <2> QED BY <1>5
<1> HIDE DEF total
<1>7. total[0] = 0 /\ \A n \in 1..N : total[n] = total[n - 1] + s[n]
  <2>1. \A n \in 0..N : total[n] = IF n = 0 THEN 0 ELSE total[n - 1] + s[n]
    BY <1>6
  <2>2. 0 \in 0..N /\ \A n \in 1..N : n \in 0..N /\ n # 0
    BY <1>1
  <2> QED BY <2>1, <2>2
<1>8. total \in [0..N -> Nat]
  <2> DEFINE Good == {n \in 0..N : total[n] \in Nat}
  <2>1. 0 \in Good
    BY <1>1, <1>7
  <2>2. ASSUME NEW n \in 0..N, n \in Good, n < N PROVE n + 1 \in Good
    <3> DEFINE m == n + 1
    <3>1. m \in 1..N /\ m \in 0..N /\ m - 1 = n /\ total[n] \in Nat
      BY <1>1, <2>2
    <3> HIDE DEF m
    <3>2. total[m] = total[m - 1] + s[m] /\ s[m] \in Nat
      BY ONLY <1>1, <1>7, <3>1
    <3>3. total[m] \in Nat
      BY ONLY <3>1, <3>2
    <3> QED BY <3>1, <3>3 DEF m
  <2>3. \A n \in 0..N : n \in Good
    <3> HIDE DEF Good
    <3> QED BY <1>1, <2>1, <2>2, UpTo
  <2>4. \A n \in 0..N : total[n] \in Nat
    BY <2>3
  <2>5. \E f2 : total = [n \in 0..N |-> f2[n]]
    <3>1. total = [n \in 0..N |-> IF n = 0 THEN 0 ELSE total[n - 1] + s[n]]
      BY <1>6
    <3>2. total = [n \in 0..N |-> total[n]]
      BY <3>1
    <3> QED BY <3>2
  <2> QED BY <2>4, <2>5
<1> QED BY <1>7, <1>8, <1>w DEF N

\* A sequence with one more number has that much more.
LEMMA TotalAppend ==
  ASSUME NEW s \in Seq(Nat), NEW x \in Nat
  PROVE  Total(s) \in Nat /\ Total(Append(s, x)) = Total(s) + x
<1> DEFINE t == Append(s, x)
           N == Len(s)
<1>1. /\ t \in Seq(Nat) /\ Len(t) = N + 1 /\ t[N + 1] = x /\ N \in Nat
      /\ \A n \in 1..N : t[n] = s[n] /\ s[n] \in Nat
  OBVIOUS
<1>2. PICK f \in [0..N -> Nat] : /\ f[0] = 0 /\ \A n \in 1..N : f[n] = f[n - 1] + s[n]
                                 /\ Total(s) = f[N]
  BY TotalIs
<1> HIDE DEF t, N
<1>3. PICK g \in [0..Len(t) -> Nat] : /\ g[0] = 0 /\ \A n \in 1..Len(t) : g[n] = g[n - 1] + t[n]
                                      /\ Total(t) = g[Len(t)]
  BY <1>1, TotalIs
<1> DEFINE Good == {n \in 0..N : g[n] = f[n]}
<1>4. 0 \in Good
  BY <1>1, <1>2, <1>3
<1>5. ASSUME NEW n \in 0..N, n \in Good, n < N PROVE n + 1 \in Good
  <2>1. n + 1 \in 1..N /\ n + 1 \in 1..Len(t) /\ n + 1 \in 0..N /\ n + 1 - 1 = n
    BY <1>1, <1>5
  <2> DEFINE m == n + 1
  <2>2. m \in 1..N /\ m \in 1..Len(t) /\ m \in 0..N /\ m - 1 = n
    BY <2>1
  <2> HIDE DEF m
  <2>3. f[m] = f[m - 1] + s[m]
    BY <1>2, <2>2
  <2>4. g[m] = g[m - 1] + t[m]
    BY <1>3, <2>2
  <2>5. t[m] = s[m]
    BY <1>1, <2>2
  <2>6. m \in Good
    BY <1>5, <2>2, <2>3, <2>4, <2>5
  <2> QED BY <2>6 DEF m
<1>6. g[N] = f[N] /\ f[N] \in Nat
  <2>1. \A n \in 0..N : n \in Good
    <3> HIDE DEF Good
    <3> QED BY <1>1, <1>4, <1>5, UpTo
  <2> QED BY <1>1, <2>1
<1>7. g[N + 1] = g[N] + t[N + 1]
  <2> DEFINE m == N + 1
  <2>1. m \in 1..Len(t) /\ m - 1 = N
    BY <1>1
  <2> HIDE DEF m
  <2>2. g[m] = g[m - 1] + t[m]
    BY <1>3, <2>1
  <2> QED BY <2>1, <2>2 DEF m
<1>8. Total(t) = f[N] + x
  BY <1>1, <1>3, <1>6, <1>7
<1> QED BY <1>2, <1>6, <1>8 DEF t

\* What the entries of a batch weigh together.
Weigh(weight, batch) == Total([k \in DOMAIN batch |-> weight[batch[k]]])

\* An empty batch weighs nothing, and an entry more adds its weight.
LEMMA WeighAppend ==
  ASSUME NEW I, NEW weight \in [I -> Nat], NEW batch \in Seq(I), NEW i \in I
  PROVE  /\ Weigh(weight, <<>>) = 0 /\ Weigh(weight, batch) \in Nat
         /\ Weigh(weight, Append(batch, i)) = Weigh(weight, batch) + weight[i]
<1> DEFINE Weights(b) == [k \in DOMAIN b |-> weight[b[k]]]
           longer == Append(batch, i)
           w == Weights(batch)
           x == weight[i]
<1>1. ASSUME NEW b \in Seq(I)
      PROVE  /\ Weights(b) \in Seq(Nat) /\ Len(Weights(b)) = Len(b)
             /\ \A k \in 1..Len(b) : Weights(b)[k] = weight[b[k]]
  <2>1. Len(b) \in Nat /\ DOMAIN b = 1..Len(b) /\ \A k \in 1..Len(b) : b[k] \in I
    OBVIOUS
  <2>2. Weights(b) \in [1..Len(b) -> Nat] /\ \A k \in 1..Len(b) : Weights(b)[k] = weight[b[k]]
    BY <2>1
  <2> HIDE DEF Weights
  <2>3. Weights(b) \in Seq(Nat)
    BY <2>1, <2>2, SeqDef
  <2>4. Len(Weights(b)) = Len(b)
    BY <2>1, <2>2, <2>3, LenProperties
  <2> QED BY <2>2, <2>3, <2>4
<1>2. /\ longer \in Seq(I) /\ Len(longer) = Len(batch) + 1 /\ longer[Len(batch) + 1] = i
      /\ Len(batch) \in Nat /\ \A k \in 1..Len(batch) : longer[k] = batch[k]
  OBVIOUS
<1>3. x \in Nat
  OBVIOUS
<1>4. Weigh(weight, batch) = Total(w) /\ Weigh(weight, longer) = Total(Weights(longer))
  BY DEF Weigh
<1>5. Weigh(weight, <<>>) = 0
  <2> DEFINE none == <<>>
  <2>1. none \in Seq(I) /\ Len(none) = 0 /\ Weigh(weight, none) = Total(Weights(none))
    BY DEF Weigh
  <2> HIDE DEF none, Weights
  <2>2. Weights(none) \in Seq(Nat) /\ Len(Weights(none)) = 0
    BY <1>1, <2>1
  <2>3. Total(Weights(none)) = 0
    BY <2>2, TotalIs
  <2> QED BY <2>1, <2>3 DEF none
<1> HIDE DEF longer, Weights, x
<1>6. w \in Seq(Nat) /\ Len(w) = Len(batch) /\ \A k \in 1..Len(batch) : w[k] = weight[batch[k]]
  BY <1>1
<1>7. /\ Weights(longer) \in Seq(Nat) /\ Len(Weights(longer)) = Len(batch) + 1
      /\ \A k \in 1..(Len(batch) + 1) : Weights(longer)[k] = weight[longer[k]]
  BY <1>1, <1>2
<1> HIDE DEF w
<1>8. /\ Append(w, x) \in Seq(Nat) /\ Len(Append(w, x)) = Len(batch) + 1
      /\ Append(w, x)[Len(batch) + 1] = x /\ \A k \in 1..Len(batch) : Append(w, x)[k] = w[k]
  BY <1>3, <1>6
<1>9. Weights(longer) = Append(w, x)
  <2>1. ASSUME NEW k \in 1..(Len(batch) + 1) PROVE Weights(longer)[k] = Append(w, x)[k]
    <3>1. Weights(longer)[k] = weight[longer[k]]
      BY <1>7
    <3>2. CASE k = Len(batch) + 1
      <4>1. longer[k] = i /\ Append(w, x)[k] = x
        BY <1>2, <1>8, <3>2
      <4> QED BY <3>1, <4>1 DEF x
    <3>3. CASE k \in 1..Len(batch)
      <4>1. longer[k] = batch[k] /\ Append(w, x)[k] = w[k] /\ w[k] = weight[batch[k]]
        BY <1>2, <1>6, <1>8, <3>3
      <4> QED BY <3>1, <4>1
    <3>4. k = Len(batch) + 1 \/ k \in 1..Len(batch)
      BY <1>2
    <3> QED BY <3>2, <3>3, <3>4
  <2> QED BY <1>7, <1>8, <2>1, SeqEqual
<1>10. Total(w) \in Nat /\ Total(Append(w, x)) = Total(w) + x
  BY <1>3, <1>6, TotalAppend
<1> QED BY <1>4, <1>5, <1>9, <1>10 DEF longer, x

\* The sizes of the numbers up to a bound, as the loop counts them, and
\* VarintSize among them.
LEMMA VarintIs ==
  ASSUME NEW number \in Nat
  PROVE  \E size : /\ \A v \in 0..number : size[v] = IF v < 128 THEN 1 ELSE 1 + size[v \div 128]
                   /\ VarintSize(number) = size[number]
<1> DEFINE Turn(g, v) == IF v < 128 THEN 1 ELSE 1 + g[v \div 128]
           Sizing(g, N) == g = [v \in 0..N |-> Turn(g, v)]
           Good == {N \in 0..number : \E g : Sizing(g, N)}
<1>1. \A v \in Nat : v >= 128 => v \div 128 \in 0..(v - 1)
  OBVIOUS
<1>2. 0 \in Good
  <2> DEFINE g == [v \in 0..0 |-> 1]
  <2>1. g = [v \in 0..0 |-> Turn(g, v)]
    OBVIOUS
  <2> HIDE DEF g
  <2>2. Sizing(g, 0)
    BY <2>1
  <2> QED BY <2>2
<1>3. ASSUME NEW N \in 0..number, N \in Good, N < number PROVE N + 1 \in Good
  <2>1. PICK g : Sizing(g, N)
    BY <1>3
  <2> DEFINE h == [v \in 0..(N + 1) |-> IF v = N + 1 THEN Turn(g, N + 1) ELSE g[v]]
  <2>2. h = [v \in 0..(N + 1) |-> h[v]] /\ h[N + 1] = Turn(g, N + 1) /\ \A v \in 0..N : h[v] = g[v]
    OBVIOUS
  <2> HIDE DEF h
  <2>3. ASSUME NEW v \in 0..(N + 1) PROVE h[v] = Turn(h, v)
    <3>1. v >= 128 => v \div 128 \in 0..N
      <4>1. v >= 128 => v \div 128 \in 0..(v - 1)
        BY <1>1
      <4> QED BY <4>1
    <3>2. v >= 128 => h[v \div 128] = g[v \div 128]
      BY <2>2, <3>1
    <3>3. h[v] = Turn(g, v)
      <4>1. CASE v = N + 1
        BY <2>2, <4>1
      <4>2. CASE v \in 0..N
        <5>1. g[v] = Turn(g, v)
          BY <2>1, <4>2
        <5> QED BY <2>2, <4>2, <5>1
      <4> QED BY <4>1, <4>2
    <3> QED BY <3>2, <3>3
  <2>4. N + 1 \in 0..number
    BY <1>3
  <2>5. h = [v \in 0..(N + 1) |-> Turn(h, v)]
    <3> HIDE DEF Turn
    <3> QED BY <2>2, <2>3
  <2>6. Sizing(h, N + 1)
    BY <2>5
  <2> HIDE DEF Sizing
  <2> QED BY <2>4, <2>6
<1> DEFINE size == CHOOSE g : Sizing(g, number)
<1>4. Sizing(size, number)
  <2>1. \A N \in 0..number : N \in Good
    <3> HIDE DEF Good
    <3> QED BY <1>2, <1>3, UpTo
  <2>2. \E g : Sizing(g, number)
    BY <2>1
  <2> HIDE DEF Sizing
  <2> QED BY <2>2
<1>5. VarintSize(number) = size[number]
  BY DEF VarintSize
<1> HIDE DEF size
<1>6. \A v \in 0..number : size[v] = Turn(size, v)
  BY <1>4
<1> QED BY <1>5, <1>6

\* The powers of 128 up to a number, by which Groups chooses.
Powers(power, number) ==
  /\ power \in [0..(number + 1) -> Nat] /\ power[0] = 1
  /\ \A g \in 1..(number + 1) : power[g] = 128 * power[g - 1]

\* Groups has room for a number, and no group more than that takes.
Room(g, power, number) ==
  g \in 1..(number + 1) /\ number < power[g] /\ (g > 1 => number >= power[g - 1])

\* Groups chooses a size with room for the number.
LEMMA GroupsAre ==
  ASSUME NEW number \in Nat
  PROVE  \E power : /\ Powers(power, number)
                    /\ Groups(number) = CHOOSE g \in 1..(number + 1) : Room(g, power, number)
<1> DEFINE N == number + 1
           Powering(f) == f = [g \in 0..N |-> IF g = 0 THEN 1 ELSE 128 * f[g - 1]]
           step == [n \in 1..N |-> [x \in Nat |-> 128 * x]]
           power == CHOOSE f : Powering(f)
<1>1. N \in Nat
  OBVIOUS
<1>2. step \in [1..N -> [Nat -> Nat]] /\ \A n \in 1..N, x \in Nat : step[n][x] = 128 * x
  BY <1>1
<1>3. Groups(number) = CHOOSE g \in 1..N : number < power[g] /\ (g > 1 => number >= power[g - 1])
  BY DEF Groups
<1> HIDE DEF N, step
<1>4. PICK f \in [0..N -> Nat] : f[0] = 1 /\ \A n \in 1..N : f[n] = step[n][f[n - 1]]
  <2> DEFINE S == Nat
             start == 1
  <2>1. start \in S /\ step \in [1..N -> [S -> S]]
    BY <1>2
  <2> HIDE DEF S, start
  <2>2. N \in Nat
    BY <1>1
  <2>3. \E f : Recursion(f, N, S, start, step)
    BY ONLY <2>1, <2>2, RecursionExists
  <2> QED BY <2>3 DEF S, start, Recursion
<1>5. \A n \in 1..N : n - 1 \in 0..N /\ f[n] = 128 * f[n - 1]
  <2> TAKE n \in 1..N
  <2>1. n - 1 \in 0..N
    BY <1>1
  <2>2. f[n - 1] \in Nat
    BY <2>1
  <2> QED BY <1>2, <1>4, <2>1, <2>2
<1>6. Powering(f)
  <2>1. ASSUME NEW n \in 0..N PROVE f[n] = IF n = 0 THEN 1 ELSE 128 * f[n - 1]
    <3>1. CASE n = 0
      BY <1>4, <3>1
    <3>2. CASE n # 0
      <4>1. n \in 1..N
        BY <1>1, <3>2
      <4> QED BY <1>5, <3>2, <4>1
    <3> QED BY <3>1, <3>2
  <2>2. f = [n \in 0..N |-> f[n]]
    OBVIOUS
  <2> QED BY <2>1, <2>2
<1>7. Powering(power)
  <2> HIDE DEF Powering
  <2> QED BY <1>6
<1> HIDE DEF power
<1>8. power[0] = 1 /\ \A n \in 1..N : power[n] = 128 * power[n - 1]
  <2>1. \A n \in 0..N : power[n] = IF n = 0 THEN 1 ELSE 128 * power[n - 1]
    BY <1>7
  <2>2. 0 \in 0..N /\ \A n \in 1..N : n \in 0..N /\ n # 0
    BY <1>1
  <2> QED BY <2>1, <2>2
<1>9. power \in [0..N -> Nat]
  <2> DEFINE Good == {n \in 0..N : power[n] \in Nat}
  <2>1. 0 \in Good
    BY <1>1, <1>8
  <2>2. ASSUME NEW n \in 0..N, n \in Good, n < N PROVE n + 1 \in Good
    <3>1. n + 1 \in 1..N /\ n + 1 \in 0..N /\ n + 1 - 1 = n
      BY <1>1, <2>2
    <3>2. power[n + 1] = 128 * power[n]
      BY <1>8, <3>1
    <3> QED BY <2>2, <3>1, <3>2
  <2>3. \A n \in 0..N : n \in Good
    <3> HIDE DEF Good
    <3> QED BY <1>1, <2>1, <2>2, UpTo
  <2>4. power = [n \in 0..N |-> power[n]]
    <3>1. power = [n \in 0..N |-> IF n = 0 THEN 1 ELSE 128 * power[n - 1]]
      BY <1>7
    <3> QED BY <3>1
  <2> QED BY <2>3, <2>4
<1>10. (CHOOSE g \in 1..N : number < power[g] /\ (g > 1 => number >= power[g - 1]))
       = CHOOSE g \in 1..N : Room(g, power, number)
  <2>1. \A g \in 1..N : (number < power[g] /\ (g > 1 => number >= power[g - 1])) <=> Room(g, power, number)
    BY DEF Room, N
  <2> QED BY <2>1
<1>11. Powers(power, number)
  BY <1>8, <1>9 DEF Powers, N
<1> QED BY <1>3, <1>10, <1>11 DEF N

\* There is one size only with room for a number.
LEMMA RoomIsUnique ==
  ASSUME NEW number \in Nat, NEW power, Powers(power, number),
         NEW g, NEW h, Room(g, power, number), Room(h, power, number)
  PROVE  g = h
<1> DEFINE N == number + 1
<1>1. N \in Nat /\ power \in [0..N -> Nat]
  BY DEF Powers
<1>2. ASSUME NEW n \in 0..N, n < N PROVE n + 1 \in 0..N /\ power[n] \in Nat /\ power[n] <= power[n + 1]
  <2>1. n + 1 \in 1..N /\ n + 1 - 1 = n
    BY <1>1, <1>2
  <2>2. power[n + 1] = 128 * power[n] /\ power[n] \in Nat
    BY <1>1, <2>1 DEF Powers
  <2> QED BY <2>1, <2>2
<1>3. \A m \in 0..N : \A n \in 0..m : power[n] <= power[m]
  <2> DEFINE Good == {m \in 0..N : \A n \in 0..m : power[n] <= power[m]}
  <2>1. 0 \in Good
    BY <1>1
  <2>2. ASSUME NEW m \in 0..N, m \in Good, m < N PROVE m + 1 \in Good
    <3>1. m + 1 \in 0..N /\ power[m] <= power[m + 1]
      BY <1>2, <2>2
    <3>2. ASSUME NEW n \in 0..(m + 1) PROVE power[n] <= power[m + 1]
      <4>1. n \in 0..N /\ power[n] \in Nat /\ power[m] \in Nat /\ power[m + 1] \in Nat
        BY <1>1, <3>1
      <4>2. CASE n = m + 1
        BY <4>1, <4>2
      <4>3. CASE n \in 0..m
        BY <2>2, <3>1, <4>1, <4>3
      <4> QED BY <4>2, <4>3
    <3> QED BY <3>1, <3>2
  <2>3. \A m \in 0..N : m \in Good
    <3> HIDE DEF Good
    <3> QED BY <1>1, <2>1, <2>2, UpTo
  <2> QED BY <2>3
<1>4. ASSUME NEW a, NEW b, Room(a, power, number), Room(b, power, number), a < b PROVE FALSE
  <2>1. a \in 1..N /\ b \in 1..N /\ number < power[a] /\ number >= power[b - 1]
    BY <1>4 DEF Room
  <2>2. b - 1 \in 0..N /\ a \in 0..(b - 1) /\ a \in 0..N
    BY <1>4, <2>1
  <2>3. power[a] <= power[b - 1] /\ power[a] \in Nat /\ power[b - 1] \in Nat
    BY <1>1, <1>3, <2>2
  <2> QED BY <2>1, <2>3
<1>5. g \in Nat /\ h \in Nat
  BY DEF Room
<1> QED BY <1>4, <1>5

\* The loop counts as many bytes as the wire format has groups, for every number.
LEMMA VarintIsGroups ==
  ASSUME NEW number \in Nat
  PROVE  VarintSize(number) \in Nat /\ VarintSize(number) = Groups(number)
<1>1. PICK size : /\ \A v \in 0..number : size[v] = IF v < 128 THEN 1 ELSE 1 + size[v \div 128]
                  /\ VarintSize(number) = size[number]
  BY VarintIs
<1>2. PICK power : /\ Powers(power, number)
                   /\ Groups(number) = CHOOSE g \in 1..(number + 1) : Room(g, power, number)
  BY GroupsAre
<1> DEFINE Right(v) == /\ size[v] \in 1..(v + 1) /\ v < power[size[v]]
                       /\ size[v] > 1 => v >= power[size[v] - 1]
           Good == {m \in 0..number : \A v \in 0..m : Right(v)}
<1>3. ASSUME NEW v \in 0..number, v < 128 PROVE Right(v)
  <2>1. size[v] = 1
    BY <1>1, <1>3
  <2>2. power[1] = 128
    <3>1. 1 \in 1..(number + 1)
      OBVIOUS
    <3>2. power[1] = 128 * power[1 - 1] /\ power[0] = 1
      BY <1>2, <3>1 DEF Powers
    <3> QED BY <3>2
  <2> QED BY <1>3, <2>1, <2>2
<1>4. ASSUME NEW v \in 0..number, v >= 128, \A u \in 0..(v - 1) : Right(u) PROVE Right(v)
  <2> DEFINE u == v \div 128
             s == size[u]
  <2>1. u \in 0..(v - 1) /\ u >= 1 /\ 128 * u <= v /\ v < 128 * (u + 1)
    BY <1>4
  <2>2. size[v] = 1 + s
    BY <1>1, <1>4
  <2> HIDE DEF u
  <2>3. s \in 1..(u + 1) /\ u < power[s] /\ (s > 1 => u >= power[s - 1])
    BY <1>4, <2>1
  <2> HIDE DEF s
  <2>4. s + 1 \in 1..(number + 1) /\ s \in 1..(number + 1) /\ s \in 0..(number + 1) /\ s - 1 \in 0..(number + 1)
    BY <2>1, <2>3
  <2>5. /\ power[s] \in Nat /\ power[s - 1] \in Nat
        /\ power[s + 1] = 128 * power[s] /\ power[s] = 128 * power[s - 1] /\ power[0] = 1
    <3>1. s + 1 - 1 = s
      BY <2>3
    <3> QED BY <1>2, <2>4, <3>1 DEF Powers
  <2>6. size[v] \in 1..(v + 1) /\ size[v] > 1 /\ size[v] - 1 = s
    BY <2>1, <2>2, <2>3
  <2>7. v < power[s + 1]
    BY <2>1, <2>3, <2>5
  <2>8. v >= power[s]
    <3>1. CASE s = 1
      BY <1>4, <2>5, <3>1
    <3>2. CASE s > 1
      BY <2>1, <2>3, <2>5, <3>2
    <3> QED BY <2>3, <3>1, <3>2
  <2>9. s + 1 = size[v]
    BY <2>2, <2>3
  <2> QED BY <2>6, <2>7, <2>8, <2>9
<1> HIDE DEF Right
<1>5. 0 \in Good
  <2>1. \A v \in 0..0 : v \in 0..number /\ v < 128
    OBVIOUS
  <2> QED BY <1>3, <2>1
<1>6. ASSUME NEW m \in 0..number, m \in Good, m < number PROVE m + 1 \in Good
  <2>1. m + 1 \in 0..number /\ m + 1 - 1 = m
    BY <1>6
  <2>2. \A u \in 0..m : Right(u)
    BY <1>6
  <2>3. Right(m + 1)
    <3>1. CASE m + 1 < 128
      BY <1>3, <2>1, <3>1
    <3>2. CASE m + 1 >= 128
      BY <1>4, <2>1, <2>2, <3>2
    <3> QED BY <3>1, <3>2
  <2>4. \A v \in 0..(m + 1) : v \in 0..m \/ v = m + 1
    OBVIOUS
  <2> QED BY <2>1, <2>2, <2>3, <2>4
<1>7. Right(number)
  <2>1. \A m \in 0..number : m \in Good
    <3> HIDE DEF Good
    <3> QED BY <1>5, <1>6, UpTo
  <2>2. number \in Good /\ number \in 0..number
    BY <2>1
  <2> QED BY <2>2
<1> DEFINE g == Groups(number)
<1>8. Room(size[number], power, number) /\ size[number] \in 1..(number + 1)
  BY <1>7 DEF Right, Room
<1>9. Room(g, power, number)
  BY <1>2, <1>8
<1>10. size[number] = g
  BY <1>2, <1>8, <1>9, RoomIsUnique
<1> QED BY <1>1, <1>8, <1>10

-----------------------------------------------------------------------------
(* Requests within their limits.                                           *)

\* A batch keeps all limits, counted from its entries.
Within(batch, bytes, counts, base, policy) ==
  /\ Len(batch) <= policy.max_entries_per_request
  /\ Weigh(counts, batch) <= policy.max_mutations
  /\ base + Weigh(bytes, batch) <= policy.max_request_bytes

\* A batch that may be sent: one entry, or several within the limits.
Allowed(batch, bytes, counts, base, policy) ==
  Len(batch) = 1 \/ (Len(batch) > 1 /\ Within(batch, bytes, counts, base, policy))

\* Every batch may be sent, and could not have taken one entry more.
Packed(batches, bytes, counts, base, policy) ==
  /\ \A b \in 1..Len(batches) : Allowed(batches[b], bytes, counts, base, policy)
  /\ \A b \in 1..(Len(batches) - 1) :
       ~Within(Append(batches[b], batches[b + 1][1]), bytes, counts, base, policy)

\* The weights of entries, as split_batches and a limit count them.
Weighed(entries, bytes, counts) ==
  /\ bytes \in [1..Len(entries) -> Nat] /\ counts \in [1..Len(entries) -> Nat]
  /\ \A i \in 1..Len(entries) : /\ bytes[i] = RepeatedMessageSize(entries[i].bytes)
                                /\ counts[i] = entries[i].mutations

\* The batch being filled keeps count of what it holds.
Counting(current, entries, bytes, counts, base) ==
  /\ current.entries \in Seq(1..Len(entries))
  /\ current.bytes = base + Weigh(bytes, current.entries)
  /\ current.mutations = Weigh(counts, current.entries)

\* Adding an entry keeps count.
LEMMA AddEntryCounts ==
  ASSUME NEW entries, NEW bytes, NEW counts, Weighed(entries, bytes, counts), NEW base \in Nat,
         NEW current, Counting(current, entries, bytes, counts, base), NEW i \in 1..Len(entries)
  PROVE  /\ Counting(AddEntry(current, entries[i], i), entries, bytes, counts, base)
         /\ AddEntry(current, entries[i], i).entries = Append(current.entries, i)
<1> DEFINE I == 1..Len(entries)
           e == current.entries
           added == AddEntry(current, entries[i], i)
<1>1. bytes \in [I -> Nat] /\ counts \in [I -> Nat]
      /\ bytes[i] = RepeatedMessageSize(entries[i].bytes) /\ counts[i] = entries[i].mutations
  BY DEF Weighed
<1>2. e \in Seq(I) /\ current.bytes = base + Weigh(bytes, e) /\ current.mutations = Weigh(counts, e)
  BY DEF Counting
<1>3. /\ added.entries = Append(e, i)
      /\ added.bytes = current.bytes + bytes[i]
      /\ added.mutations = current.mutations + counts[i]
  BY <1>1 DEF AddEntry
<1>w. i \in I
  OBVIOUS
<1> HIDE DEF I, e, added
<1>4. /\ Weigh(bytes, e) \in Nat /\ Weigh(bytes, Append(e, i)) = Weigh(bytes, e) + bytes[i]
      /\ Weigh(counts, e) \in Nat /\ Weigh(counts, Append(e, i)) = Weigh(counts, e) + counts[i]
  BY <1>1, <1>2, <1>w, WeighAppend
<1>5. bytes[i] \in Nat /\ counts[i] \in Nat /\ Append(e, i) \in Seq(I)
  BY <1>1, <1>2, <1>w
<1>6. /\ added.entries \in Seq(I) /\ added.bytes = base + Weigh(bytes, added.entries)
      /\ added.mutations = Weigh(counts, added.entries)
  BY <1>2, <1>3, <1>4, <1>5
<1> QED BY <1>3, <1>6 DEF Counting, I, added, e

\* A batch that is not full takes one more entry within the limits, and one that
\* is full cannot.
LEMMA TargetIsLimit ==
  ASSUME NEW entries, NEW bytes, NEW counts, Weighed(entries, bytes, counts), NEW base \in Nat,
         NEW policy, policy.max_entries_per_request \in Nat \ {0},
         policy.max_mutations \in Nat, policy.max_request_bytes \in Nat,
         NEW current, Counting(current, entries, bytes, counts, base),
         current.entries # <<>>, Allowed(current.entries, bytes, counts, base, policy),
         NEW i \in 1..Len(entries)
  PROVE  ExceedsTarget(current, entries[i], policy)
           <=> ~Within(Append(current.entries, i), bytes, counts, base, policy)
<1> DEFINE I == 1..Len(entries)
           e == current.entries
<1>1. bytes \in [I -> Nat] /\ counts \in [I -> Nat]
      /\ bytes[i] = RepeatedMessageSize(entries[i].bytes) /\ counts[i] = entries[i].mutations
  BY DEF Weighed
<1>2. e \in Seq(I) /\ current.bytes = base + Weigh(bytes, e) /\ current.mutations = Weigh(counts, e)
  BY DEF Counting
<1>w. i \in I
  OBVIOUS
<1>3. ExceedsTarget(current, entries[i], policy)
        <=> \/ Len(e) = policy.max_entries_per_request
            \/ current.mutations + counts[i] > policy.max_mutations
            \/ current.bytes + bytes[i] > policy.max_request_bytes
  BY <1>1 DEF ExceedsTarget
<1> HIDE DEF I
<1>4. /\ Weigh(bytes, e) \in Nat /\ Weigh(bytes, Append(e, i)) = Weigh(bytes, e) + bytes[i]
      /\ Weigh(counts, e) \in Nat /\ Weigh(counts, Append(e, i)) = Weigh(counts, e) + counts[i]
  <2> HIDE DEF e
  <2> QED BY ONLY <1>1, <1>2, <1>w, WeighAppend
<1>5. bytes[i] \in Nat /\ counts[i] \in Nat /\ Len(e) \in Nat /\ Len(Append(e, i)) = Len(e) + 1
  BY <1>1, <1>2, <1>w
<1> DEFINE n == Len(e)
           m == policy.max_entries_per_request
           wb == Weigh(bytes, e)
           wc == Weigh(counts, e)
           b == bytes[i]
           c == counts[i]
           maxC == policy.max_mutations
           maxB == policy.max_request_bytes
           longer == Append(e, i)
<1>6. n <= m
  <2>1. n = 1 \/ n <= m
    BY DEF Allowed, Within
  <2>2. n \in Nat /\ m \in Nat \ {0}
    BY <1>5
  <2> HIDE DEF n, m
  <2> QED BY ONLY <2>1, <2>2
<1>7. Within(longer, bytes, counts, base, policy)
        <=> Len(longer) <= m /\ Weigh(counts, longer) <= maxC /\ base + Weigh(bytes, longer) <= maxB
  BY DEF Within
<1>8. /\ n \in Nat /\ m \in Nat /\ wb \in Nat /\ wc \in Nat /\ b \in Nat /\ c \in Nat
      /\ maxC \in Nat /\ maxB \in Nat /\ base \in Nat
      /\ Len(longer) = n + 1 /\ Weigh(counts, longer) = wc + c /\ Weigh(bytes, longer) = wb + b
      /\ current.bytes = base + wb /\ current.mutations = wc
  BY <1>2, <1>4, <1>5
<1>9. ExceedsTarget(current, entries[i], policy)
        <=> n = m \/ current.mutations + c > maxC \/ current.bytes + b > maxB
  BY <1>3
<1> HIDE DEF e, n, m, wb, wc, b, c, maxC, maxB, longer
<1>10. Within(longer, bytes, counts, base, policy)
         <=> n + 1 <= m /\ wc + c <= maxC /\ base + (wb + b) <= maxB
  BY ONLY <1>7, <1>8
<1>11. ExceedsTarget(current, entries[i], policy) <=> ~Within(longer, bytes, counts, base, policy)
  BY ONLY <1>6, <1>8, <1>9, <1>10
<1> QED BY <1>11 DEF e, longer

\* The batches so far are packed, with the one being filled as the last.
Packing(acc, entries, bytes, counts, base, policy) ==
  /\ DOMAIN acc = {"batches", "current"}
  /\ acc.batches \in Seq(Seq(1..Len(entries)))
  /\ Counting(acc.current, entries, bytes, counts, base)
  /\ IF acc.current.entries = <<>> THEN acc.batches = <<>>
     ELSE Packed(Append(acc.batches, acc.current.entries), bytes, counts, base, policy)

\* Batches that are packed stay so with one entry more: at the end of the last
\* batch when it fits there, and otherwise in a batch of its own.
LEMMA PackedGrows ==
  ASSUME NEW I, NEW B \in Seq(Seq(I)), NEW e \in Seq(I), e # <<>>, NEW i \in I,
         NEW bytes, NEW counts, NEW base, NEW policy,
         Packed(Append(B, e), bytes, counts, base, policy)
  PROVE  /\ Within(Append(e, i), bytes, counts, base, policy)
              => Packed(Append(B, Append(e, i)), bytes, counts, base, policy)
         /\ ~Within(Append(e, i), bytes, counts, base, policy)
              => Packed(Append(Append(B, e), <<i>>), bytes, counts, base, policy)
<1> DEFINE Fine(b) == Allowed(b, bytes, counts, base, policy)
           Full(b, j) == ~Within(Append(b, j), bytes, counts, base, policy)
           N == Len(B)
           P == Append(B, e)
           longer == Append(e, i)
           one == <<i>>
           J == Append(B, longer)
           Q == Append(P, one)
<1>1. /\ N \in Nat /\ Len(P) = N + 1 /\ P[N + 1] = e /\ \A b \in 1..N : P[b] = B[b]
      /\ P \in Seq(Seq(I))
  OBVIOUS
<1>2. /\ longer \in Seq(I) /\ Len(longer) = Len(e) + 1 /\ Len(e) \in Nat \ {0} /\ longer[1] = e[1]
  <2>1. Len(e) \in Nat /\ Len(e) # 0
    BY EmptySeq
  <2>2. 1 \in 1..Len(e)
    BY <2>1
  <2> QED BY <2>1, <2>2
<1>3. one \in Seq(I) /\ Len(one) = 1 /\ one[1] = i
  OBVIOUS
<1>4. (\A b \in 1..Len(P) : Fine(P[b])) /\ \A b \in 1..(Len(P) - 1) : Full(P[b], P[b + 1][1])
  BY DEF Packed
<1> HIDE DEF longer, one
<1>5. Len(J) = N + 1 /\ J[N + 1] = longer /\ \A b \in 1..N : J[b] = B[b]
  BY <1>1, <1>2
<1>6. Len(Q) = N + 2 /\ Q[N + 2] = one /\ \A b \in 1..(N + 1) : Q[b] = P[b]
  <2> HIDE DEF P
  <2>1. Len(Q) = Len(P) + 1 /\ Q[Len(P) + 1] = one /\ \A b \in 1..Len(P) : Q[b] = P[b]
    BY <1>1, <1>3
  <2>2. N + 1 + 1 = N + 2
    BY <1>1
  <2> QED BY <1>1, <2>1, <2>2
<1> HIDE DEF P, J, Q, N, Fine, Full
<1>7. ASSUME Within(longer, bytes, counts, base, policy)
      PROVE  Packed(J, bytes, counts, base, policy)
  <2>1. Fine(longer)
    BY <1>2, <1>7 DEF Fine, Allowed
  <2>2. ASSUME NEW b \in 1..Len(J) PROVE Fine(J[b])
    <3>1. CASE b = N + 1
      BY <1>5, <2>1, <3>1
    <3>2. CASE b \in 1..N
      BY <1>1, <1>4, <1>5, <3>2
    <3> QED BY <1>1, <1>5, <3>1, <3>2
  <2>3. ASSUME NEW b \in 1..(Len(J) - 1) PROVE Full(J[b], J[b + 1][1])
    <3>1. b \in 1..N /\ b \in 1..(Len(P) - 1)
      BY <1>1, <1>5
    <3>2. Full(P[b], P[b + 1][1]) /\ J[b] = P[b]
      BY <1>1, <1>4, <1>5, <3>1
    <3>3. J[b + 1][1] = P[b + 1][1]
      <4>1. CASE b = N
        BY <1>1, <1>2, <1>5, <4>1
      <4>2. CASE b + 1 \in 1..N
        BY <1>1, <1>5, <4>2
      <4> QED BY <1>1, <3>1, <4>1, <4>2
    <3> QED BY <3>2, <3>3
  <2> QED BY <2>2, <2>3 DEF Packed, Fine, Full
<1>8. ASSUME ~Within(longer, bytes, counts, base, policy)
      PROVE  Packed(Q, bytes, counts, base, policy)
  <2>1. Full(e, i)
    BY <1>8 DEF Full, longer
  <2>2. ASSUME NEW b \in 1..Len(Q) PROVE Fine(Q[b])
    <3>1. CASE b = N + 2
      BY <1>3, <1>6, <3>1 DEF Fine, Allowed
    <3>2. CASE b \in 1..(N + 1)
      BY <1>1, <1>4, <1>6, <3>2
    <3> QED BY <1>1, <1>6, <3>1, <3>2
  <2>3. ASSUME NEW b \in 1..(Len(Q) - 1) PROVE Full(Q[b], Q[b + 1][1])
    <3>1. CASE b = N + 1
      <4>1. Q[b] = e /\ b + 1 = N + 2
        BY <1>1, <1>6, <3>1
      <4>2. Q[b + 1][1] = i
        BY <1>3, <1>6, <4>1
      <4> QED BY <2>1, <4>1, <4>2
    <3>2. CASE b \in 1..N
      <4>1. b \in 1..(Len(P) - 1) /\ b \in 1..(N + 1) /\ b + 1 \in 1..(N + 1)
        BY <1>1, <3>2
      <4>2. Full(P[b], P[b + 1][1])
        BY <1>4, <4>1
      <4> QED BY <1>6, <4>1, <4>2
    <3> QED BY <1>1, <1>6, <3>1, <3>2
  <2> QED BY <2>2, <2>3 DEF Packed, Fine, Full
<1> QED BY <1>7, <1>8 DEF J, Q, P, longer, one

\* Each turn of the loop keeps the batches packed.
LEMMA PlaceEntryPacks ==
  ASSUME NEW entries, NEW bytes, NEW counts, Weighed(entries, bytes, counts), NEW base \in Nat,
         NEW policy, policy.max_entries_per_request \in Nat \ {0},
         policy.max_mutations \in Nat, policy.max_request_bytes \in Nat,
         NEW acc, Packing(acc, entries, bytes, counts, base, policy), NEW i \in 1..Len(entries)
  PROVE  Packing(PlaceEntry(acc, entries[i], i, base, policy), entries, bytes, counts, base, policy)
<1> DEFINE I == 1..Len(entries)
           B == acc.batches
           current == acc.current
           e == current.entries
           empty == NoBatch(base)
           fresh == AddEntry(empty, entries[i], i)
           grown == AddEntry(current, entries[i], i)
           next == PlaceEntry(acc, entries[i], i, base, policy)
           Fine(P) == Packed(P, bytes, counts, base, policy)
<1>1. /\ DOMAIN acc = {"batches", "current"} /\ B \in Seq(Seq(I))
      /\ Counting(current, entries, bytes, counts, base) /\ e \in Seq(I)
      /\ IF e = <<>> THEN B = <<>> ELSE Fine(Append(B, e))
  BY DEF Packing, Counting
<1>2. Counting(empty, entries, bytes, counts, base) /\ empty.entries = <<>>
  <2> DEFINE none == <<>>
  <2>1. empty.entries = none /\ empty.bytes = base /\ empty.mutations = 0
    BY DEF NoBatch
  <2>2. none \in Seq(I) /\ bytes \in [I -> Nat] /\ counts \in [I -> Nat] /\ i \in I
    BY DEF Weighed
  <2>3. Weigh(bytes, <<>>) = 0 /\ Weigh(counts, <<>>) = 0
    <3> HIDE DEF I
    <3> QED BY <2>2, WeighAppend
  <2>4. empty.bytes = base + Weigh(bytes, none) /\ empty.mutations = Weigh(counts, none)
    BY <2>1, <2>3
  <2> HIDE DEF none, empty
  <2>5. Counting(empty, entries, bytes, counts, base)
    BY <2>1, <2>2, <2>4 DEF Counting
  <2> QED BY <2>1, <2>5 DEF none
<1>3. /\ Counting(grown, entries, bytes, counts, base) /\ grown.entries = Append(e, i)
      /\ Counting(fresh, entries, bytes, counts, base) /\ fresh.entries = <<i>>
  <2>1. Counting(grown, entries, bytes, counts, base) /\ grown.entries = Append(e, i)
    <3> HIDE DEF current
    <3>1. Counting(grown, entries, bytes, counts, base) /\ grown.entries = Append(current.entries, i)
      BY ONLY <1>1, Weighed(entries, bytes, counts), base \in Nat, i \in 1..Len(entries), AddEntryCounts
    <3> QED BY <3>1
  <2> HIDE DEF empty
  <2>2. Counting(fresh, entries, bytes, counts, base) /\ fresh.entries = Append(empty.entries, i)
    BY ONLY <1>2, Weighed(entries, bytes, counts), base \in Nat, i \in 1..Len(entries), AddEntryCounts
  <2>3. Append(<<>>, i) = <<i>>
    OBVIOUS
  <2> QED BY <1>2, <2>1, <2>2, <2>3
<1>4. IF ExceedsTarget(current, entries[i], policy)
        THEN next = [batches |-> Append(B, e), current |-> fresh]
        ELSE next = [acc EXCEPT !.current = grown]
  BY DEF PlaceEntry
<1> HIDE DEF fresh, grown, empty, next, current, B, e, Fine
<1>5. CASE ExceedsTarget(current, entries[i], policy)
  <2>1. e # <<>>
    BY <1>5 DEF ExceedsTarget, e
  <2>2. Fine(Append(B, e))
    BY <1>1, <2>1
  <2>3. Allowed(e, bytes, counts, base, policy)
    <3>1. Append(B, e)[Len(B) + 1] = e /\ Len(B) + 1 \in 1..Len(Append(B, e))
      BY <1>1
    <3> QED BY <2>2, <3>1 DEF Fine, Packed
  <2>4. ~Within(Append(e, i), bytes, counts, base, policy)
    BY <1>1, <1>5, <2>1, <2>3, TargetIsLimit DEF e
  <2>5. Fine(Append(Append(B, e), <<i>>))
    BY <1>1, <2>1, <2>2, <2>4, PackedGrows DEF Fine
  <2>6. /\ DOMAIN next = {"batches", "current"} /\ next.batches = Append(B, e)
        /\ next.current = fresh
    BY <1>4, <1>5
  <2>7. next.batches \in Seq(Seq(I)) /\ <<i>> # <<>>
    BY <1>1, <2>6
  <2>8. Packing(next, entries, bytes, counts, base, policy)
    BY <1>3, <2>5, <2>6, <2>7 DEF Packing, Fine
  <2> QED BY <2>8 DEF next
<1>6. CASE ~ExceedsTarget(current, entries[i], policy)
  <2>1. /\ DOMAIN next = {"batches", "current"} /\ next.batches = B /\ next.current = grown
    BY <1>1, <1>4, <1>6 DEF B
  <2>2. Append(e, i) # <<>>
    <3>1. Append(e, i) \in Seq(I) /\ Len(Append(e, i)) = Len(e) + 1 /\ Len(e) \in Nat
      BY <1>1
    <3>2. Len(<<>>) = 0
      OBVIOUS
    <3> QED BY <3>1, <3>2
  <2>3. Fine(Append(B, Append(e, i)))
    <3>1. CASE e = <<>>
      <4> DEFINE one == <<i>>
                 P == Append(B, Append(e, i))
      <4>1. B = <<>> /\ Append(e, i) = one /\ Len(one) = 1
        BY <1>1, <3>1
      <4>2. Len(P) = 1 /\ P[1] = one
        BY <4>1
      <4> HIDE DEF one, P
      <4>3. Fine(P)
        BY <4>1, <4>2 DEF Fine, Packed, Allowed
      <4> QED BY <4>3 DEF P
    <3>2. CASE e # <<>>
      <4>1. Fine(Append(B, e))
        BY <1>1, <3>2
      <4>2. Allowed(e, bytes, counts, base, policy)
        <5>1. Append(B, e)[Len(B) + 1] = e /\ Len(B) + 1 \in 1..Len(Append(B, e))
          BY <1>1
        <5> QED BY <4>1, <5>1 DEF Fine, Packed
      <4>3. Within(Append(e, i), bytes, counts, base, policy)
        BY <1>1, <1>6, <3>2, <4>2, TargetIsLimit DEF e
      <4> QED BY <1>1, <3>2, <4>1, <4>3, PackedGrows DEF Fine
    <3> QED BY <3>1, <3>2
  <2>4. Packing(next, entries, bytes, counts, base, policy)
    BY <1>1, <1>3, <2>1, <2>2, <2>3 DEF Packing, Fine
  <2> QED BY <2>4 DEF next
<1> QED BY <1>5, <1>6

\* However the entries weigh, their batches are packed.
LEMMA SplitIsPacked ==
  ASSUME NEW entries, Len(entries) \in Nat, NEW bytes, NEW counts, Weighed(entries, bytes, counts),
         NEW base \in Nat, NEW policy, policy.max_entries_per_request \in Nat \ {0},
         policy.max_mutations \in Nat, policy.max_request_bytes \in Nat
  PROVE  Packed(Split(entries, base, policy), bytes, counts, base, policy)
<1> DEFINE N == Len(entries)
           I == 1..N
           Right(acc) == Packing(acc, entries, bytes, counts, base, policy)
<1>1. PICK fill : /\ Filling(fill, entries, base, policy)
                  /\ FillBatches(entries, base, policy) = fill[N]
  BY FillBatchesIs
<1>2. Right(fill[0])
  <2> DEFINE none == <<>>
             empty == NoBatch(base)
  <2>1. fill[0] = [batches |-> none, current |-> empty]
    BY <1>1 DEF Filling
  <2>2. empty.entries = none /\ empty.bytes = base /\ empty.mutations = 0
    BY DEF NoBatch
  <2>3. none \in Seq(I) /\ none \in Seq(Seq(I))
    OBVIOUS
  <2>4. Weigh(bytes, none) = 0 /\ Weigh(counts, none) = 0
    <3>1. Weigh(bytes, none) = Total([k \in DOMAIN none |-> bytes[none[k]]])
          /\ Weigh(counts, none) = Total([k \in DOMAIN none |-> counts[none[k]]])
      BY DEF Weigh
    <3>2. [k \in DOMAIN none |-> bytes[none[k]]] = <<>> /\ [k \in DOMAIN none |-> counts[none[k]]] = <<>>
      OBVIOUS
    <3>3. Total(<<>>) = 0
      <4>1. none \in Seq(Nat) /\ Len(none) = 0
        OBVIOUS
      <4> QED BY <4>1, TotalIs
    <3> QED BY <3>1, <3>2, <3>3
  <2>w. Len(entries) = N
    OBVIOUS
  <2> HIDE DEF none, empty, N
  <2>5. Counting(empty, entries, bytes, counts, base)
    BY <2>2, <2>3, <2>4, <2>w DEF Counting
  <2>6. DOMAIN fill[0] = {"batches", "current"} /\ fill[0].batches = none /\ fill[0].current = empty
    BY <2>1
  <2> QED BY <2>2, <2>3, <2>5, <2>6, <2>w DEF Packing, none
<1>3. ASSUME NEW n \in 0..N, Right(fill[n]), n < N PROVE Right(fill[n + 1])
  <2>1. n + 1 \in 0..N /\ n + 1 # 0 /\ n + 1 - 1 = n /\ n + 1 \in 1..Len(entries)
    BY <1>3
  <2>2. fill[n + 1] = PlaceEntry(fill[n], entries[n + 1], n + 1, base, policy)
    BY <1>1, <2>1 DEF Filling
  <2> QED BY <1>3, <2>1, <2>2, PlaceEntryPacks
<1>4. Right(fill[N])
  <2> DEFINE Good == {n \in 0..N : Right(fill[n])}
  <2> HIDE DEF Right
  <2>1. 0 \in Good
    BY <1>2
  <2>2. \A n \in 0..N : n \in Good /\ n < N => n + 1 \in Good
    BY <1>3
  <2>3. \A n \in 0..N : n \in Good
    <3> HIDE DEF Good
    <3> QED BY <2>1, <2>2, UpTo
  <2> QED BY <2>3
<1> DEFINE last == fill[N]
           P == Split(entries, base, policy)
<1>5. P = IF last.current.entries = <<>> THEN last.batches ELSE Append(last.batches, last.current.entries)
  BY <1>1 DEF Split
<1> HIDE DEF last, P
<1>6. CASE last.current.entries = <<>>
  <2>1. P = <<>>
    BY <1>4, <1>5, <1>6 DEF Packing, last
  <2>2. Len(P) = 0
    BY <2>1
  <2> QED BY <2>2 DEF Packed, P
<1>7. CASE last.current.entries # <<>>
  BY <1>4, <1>5, <1>7 DEF Packing, last, P
<1> QED BY <1>6, <1>7

\* The length of an entry is a number, and so is that of its changes.
LEMMA EntryBytesCount ==
  ASSUME NEW r, RowOk(r)
  PROVE  EntryBytes(r) \in Nat /\ Len(r.mutations) \in Nat
<1> DEFINE changes == r.mutations
           lengths == [m \in DOMAIN changes |-> BytesOf[changes[m].op]]
<1>1. PICK S : changes \in Seq(S)
  BY DEF RowOk, IsSeq
<1>2. Len(changes) \in Nat /\ DOMAIN changes = 1..Len(changes)
  BY <1>1, LenProperties
<1>3. \A m \in DOMAIN changes : BytesOf[changes[m].op] \in Nat
  BY SizesAssumption DEF RowOk
<1>4. EntryBytes(r) = KeyBytes + (IF r.token = {} THEN 0 ELSE TokenBytes) + Total(lengths)
  BY DEF EntryBytes
<1> HIDE DEF changes
<1>5. lengths \in [1..Len(changes) -> Nat]
  BY <1>2, <1>3
<1> HIDE DEF lengths
<1>6. lengths \in Seq(Nat)
  BY <1>2, <1>5, SeqDef
<1>7. Total(lengths) \in Nat
  BY <1>6, TotalAppend
<1> QED BY <1>2, <1>4, <1>7, SizesAssumption DEF changes

\* Each request keeps its limits, counted from the wire format, or is one entry;
\* and the first entry of the next one would not have fitted in.  So split_batches
\* neither overruns a limit nor cuts a request short, whatever the entries are
\* and the limits a caller asks for.
THEOREM LimitsAreKept == Spec => []RequestsWithinLimits
<1>1. Inv => RequestsWithinLimits
  <2> SUFFICES ASSUME Inv PROVE RequestsWithinLimits
    OBVIOUS
  <2> DEFINE N == Len(bulk)
             I == 1..N
             entries == PendingEntries(bulk)
             P == Batches
             length == [i \in DOMAIN bulk |-> EntryBytes(bulk[i])]
             bytes == [i \in I |-> RepeatedMessageSize(length[i])]
             counts == [i \in I |-> Len(bulk[i].mutations)]
  <2>1. N \in Nat /\ DOMAIN bulk = I
    <3>1. PICK S : bulk \in Seq(S)
      BY DEF Inv, IsSeq
    <3> QED BY <3>1, LenProperties
  <2>2. ASSUME NEW i \in I
        PROVE  /\ length[i] = EntryBytes(bulk[i]) /\ length[i] \in Nat
               /\ RepeatedMessageSize(length[i]) = 1 + Groups(length[i]) + length[i]
               /\ RepeatedMessageSize(length[i]) \in Nat /\ Len(bulk[i].mutations) \in Nat
    <3>1. RowOk(bulk[i])
      BY <2>1 DEF Inv
    <3>2. EntryBytes(bulk[i]) \in Nat /\ Len(bulk[i].mutations) \in Nat
      BY <3>1, EntryBytesCount
    <3>3. length[i] = EntryBytes(bulk[i])
      BY <2>1
    <3> HIDE DEF length
    <3>4. VarintSize(length[i]) \in Nat /\ VarintSize(length[i]) = Groups(length[i])
      BY <3>2, <3>3, VarintIsGroups
    <3> QED BY <3>2, <3>3, <3>4 DEF RepeatedMessageSize
  <2>3. /\ Len(entries) = N
        /\ \A i \in I : entries[i].bytes = length[i] /\ entries[i].mutations = Len(bulk[i].mutations)
    <3> DEFINE Entry(i) == [bytes |-> EntryBytes(bulk[i]), mutations |-> Len(bulk[i].mutations),
                            retry_safe |-> RowRetrySafe(bulk[i])]
               S == {Entry(i) : i \in DOMAIN bulk}
    <3>1. entries = [i \in DOMAIN bulk |-> Entry(i)]
      BY DEF PendingEntries
    <3>2. \A i \in I : Entry(i).bytes = length[i] /\ Entry(i).mutations = Len(bulk[i].mutations)
      BY <2>1
    <3> HIDE DEF Entry, entries, length, N
    <3>3. entries \in [1..N -> S] /\ \A i \in I : entries[i] = Entry(i)
      BY <2>1, <3>1
    <3> HIDE DEF S
    <3>4. entries \in Seq(S)
      BY <2>1, <3>3, SeqDef
    <3>5. Len(entries) = N
      BY <2>1, <3>3, <3>4, LenProperties
    <3> QED BY <3>2, <3>3, <3>5
  <2>4. bytes \in [I -> Nat] /\ counts \in [I -> Nat]
    <3> HIDE DEF length
    <3> QED BY <2>2
  <2>w. P = Split(entries, BaseSize, Requested)
    BY DEF Batches
  <2>5. ASSUME NEW batch \in Seq(I)
        PROVE  Fits(batch) <=> Within(batch, bytes, counts, BaseSize, Requested)
    <3>1. DOMAIN batch \in SUBSET Nat /\ \A k \in DOMAIN batch : batch[k] \in I
      OBVIOUS
    <3> HIDE DEF I
    <3>2. [k \in DOMAIN batch |-> 1 + Groups(length[batch[k]]) + length[batch[k]]]
          = [k \in DOMAIN batch |-> bytes[batch[k]]]
      <4> HIDE DEF length
      <4> QED BY <2>2, <3>1
    <3>3. [k \in DOMAIN batch |-> Len(bulk[batch[k]].mutations)] = [k \in DOMAIN batch |-> counts[batch[k]]]
      BY <3>1
    <3>4. EncodedLength(batch) = BaseSize + Total([k \in DOMAIN batch |-> 1 + Groups(length[batch[k]]) + length[batch[k]]])
      BY DEF EncodedLength
    <3>5. EncodedLength(batch) = BaseSize + Weigh(bytes, batch)
      <4> HIDE DEF length, bytes
      <4> QED BY <3>2, <3>4 DEF Weigh
    <3>6. Total([k \in DOMAIN batch |-> Len(bulk[batch[k]].mutations)]) = Weigh(counts, batch)
      <4> HIDE DEF counts
      <4> QED BY <3>3 DEF Weigh
    <3> HIDE DEF length, bytes, counts
    <3> QED BY <3>5, <3>6 DEF Fits, Within
  <2> HIDE DEF length, bytes, counts, entries, P, N
  <2>6. Weighed(entries, bytes, counts)
    BY <2>3, <2>4 DEF Weighed, bytes, counts
  <2>7. Packed(P, bytes, counts, BaseSize, Requested)
    BY <2>1, <2>3, <2>6, <2>w, PolicyAssumption, SizesAssumption, SplitIsPacked
  <2>8. P \in Seq(Seq(I)) /\ \A b \in DOMAIN P : P[b] # <<>>
    BY <2>1, <2>3, <2>w, SplitDeals
  <2>9. Len(P) \in Nat /\ DOMAIN P = 1..Len(P)
    BY <2>8
  <2>10. ASSUME NEW b \in DOMAIN P PROVE Len(P[b]) = 1 \/ (Len(P[b]) > 1 /\ Fits(P[b]))
    <3>1. P[b] \in Seq(I)
      BY <2>8
    <3>2. Allowed(P[b], bytes, counts, BaseSize, Requested)
      BY <2>7, <2>9 DEF Packed
    <3> QED BY <2>5, <3>1, <3>2 DEF Allowed
  <2>11. ASSUME NEW b \in 1..(Len(P) - 1) PROVE ~Fits(Append(P[b], P[b + 1][1]))
    <3> DEFINE s == P[b]
               t == P[b + 1]
               batch == Append(s, t[1])
    <3>1. b \in DOMAIN P /\ b + 1 \in DOMAIN P
      BY <2>9
    <3>2. s \in Seq(I) /\ t \in Seq(I) /\ t # <<>>
      BY <2>8, <3>1
    <3>3. ~Within(batch, bytes, counts, BaseSize, Requested)
      BY <2>7 DEF Packed
    <3> HIDE DEF s, t
    <3>4. t[1] \in I
      <4> HIDE DEF I
      <4>1. Len(t) \in Nat /\ Len(t) # 0
        BY ONLY <3>2, EmptySeq
      <4>2. 1 \in 1..Len(t)
        BY ONLY <4>1
      <4> QED BY ONLY <3>2, <4>2, ElementOfSeq
    <3>5. batch \in Seq(I)
      BY <3>2, <3>4
    <3> HIDE DEF batch
    <3>6. ~Fits(batch)
      BY <2>5, <3>3, <3>5
    <3> QED BY <3>6 DEF batch, s, t
  <2> QED BY <2>10, <2>11 DEF RequestsWithinLimits, P
<1> QED BY <1>1, BulkInvariant, PTL

-----------------------------------------------------------------------------
(* A second application of an entry.                                       *)

\* The versions after each change of an entry.
Applying(applied, versions, changes, millis) ==
  applied = [n \in 0..Len(changes) |->
               IF n = 0 THEN versions ELSE ApplyChange(applied[n - 1], changes[n], millis)]

\* There are versions after each change.
LEMMA ApplyingExists ==
  ASSUME NEW versions, NEW changes, Len(changes) \in Nat, NEW millis
  PROVE  \E applied : Applying(applied, versions, changes, millis)
<1> DEFINE Turn(g, n) == IF n = 0 THEN versions ELSE ApplyChange(g[n - 1], changes[n], millis)
           So(N) == \E g : g = [n \in 0..N |-> Turn(g, n)]
           Good == {N \in 0..Len(changes) : So(N)}
<1>1. So(0)
  <2> DEFINE g == [n \in 0..0 |-> versions]
  <2>1. g = [n \in 0..0 |-> Turn(g, n)]
    OBVIOUS
  <2> QED BY <2>1
<1>2. ASSUME NEW N \in 0..Len(changes), So(N), N < Len(changes) PROVE So(N + 1)
  <2>1. PICK g : g = [n \in 0..N |-> Turn(g, n)]
    BY <1>2
  <2> DEFINE h == [n \in 0..(N + 1) |-> IF n = N + 1 THEN ApplyChange(g[N], changes[N + 1], millis) ELSE g[n]]
  <2>2. \A n \in 0..(N + 1) : h[n] = Turn(h, n)
    <3>1. ASSUME NEW n \in 0..N PROVE h[n] = Turn(h, n)
      <4>1. h[n] = Turn(g, n)
        BY <2>1
      <4>2. CASE n = 0
        BY <4>1, <4>2
      <4>3. CASE n # 0
        <5>1. n - 1 \in 0..N /\ h[n - 1] = g[n - 1]
          BY <4>3
        <5> QED BY <4>1, <4>3, <5>1
      <4> QED BY <4>2, <4>3
    <3>2. h[N + 1] = Turn(h, N + 1)
      <4>1. h[N] = g[N] /\ N + 1 # 0 /\ N + 1 - 1 = N
        OBVIOUS
      <4> QED BY <4>1
    <3> QED BY <3>1, <3>2, SMTT(30)
  <2>3. h = [n \in 0..(N + 1) |-> Turn(h, n)]
    <3>1. h = [n \in 0..(N + 1) |-> h[n]]
      OBVIOUS
    <3> HIDE DEF h
    <3> QED BY <2>2, <3>1
  <2> HIDE DEF h
  <2> QED BY <2>3
<1>3. \A N \in 0..Len(changes) : N \in Good
  <2>1. 0 \in Good
    BY <1>1
  <2>2. ASSUME NEW N \in 0..Len(changes), N \in Good, N < Len(changes) PROVE N + 1 \in Good
    <3>1. So(N + 1)
      BY <1>2, <2>2
    <3>2. N + 1 \in 0..Len(changes)
      BY <2>2
    <3> HIDE DEF So
    <3> QED BY <3>1, <3>2
  <2> HIDE DEF Good
  <2> QED BY <2>1, <2>2, UpTo
<1>4. So(Len(changes))
  BY <1>3
<1> QED BY <1>4 DEF Applying

\* ApplyChanges returns the versions after the last change.
LEMMA ApplyChangesIs ==
  ASSUME NEW versions, NEW changes, Len(changes) \in Nat, NEW millis
  PROVE  \E applied : /\ applied[0] = versions
                      /\ \A n \in 1..Len(changes) :
                           applied[n] = ApplyChange(applied[n - 1], changes[n], millis)
                      /\ ApplyChanges(versions, changes, millis) = applied[Len(changes)]
<1> DEFINE applied == CHOOSE g : Applying(g, versions, changes, millis)
<1>1. Applying(applied, versions, changes, millis)
  BY ApplyingExists
<1>2. ApplyChanges(versions, changes, millis) = applied[Len(changes)]
  BY DEF ApplyChanges, Applying
<1> HIDE DEF applied
<1>3. applied[0] = versions /\ \A n \in 1..Len(changes) :
        applied[n] = ApplyChange(applied[n - 1], changes[n], millis)
  BY <1>1 DEF Applying
<1> QED BY <1>2, <1>3

\* A change that is safe without a token decides alone, and always alike, of the
\* versions it touches, and leaves the others.
LEMMA SafeChange ==
  ASSUME NEW change, change.op \in Operations, ChangeRetrySafe(change, FALSE),
         NEW X, NEW Y, NEW first, NEW second, NEW v
  PROVE  \/ v \in ApplyChange(X, change, first) <=> v \in ApplyChange(Y, change, second)
         \/ /\ v \in ApplyChange(X, change, first) <=> v \in X
            /\ v \in ApplyChange(Y, change, second) <=> v \in Y
<1>1. CASE change.op = "SetCell"
  <2> DEFINE h == [family |-> change.family, qualifier |-> change.qualifier, at |-> change.from, value |-> change.value]
             Touched(w) == w.family = change.family /\ w.qualifier = change.qualifier /\ w.at = change.from
  <2>1. change.from # ServerTime
    BY <1>1 DEF ChangeRetrySafe
  <2>2. \A Z, millis : ApplyChange(Z, change, millis) = (Z \ {w \in Z : Touched(w)}) \cup {h}
    BY <1>1, <2>1 DEF ApplyChange
  <2> HIDE DEF h, Touched
  <2> QED BY <2>2
<1>2. CASE change.op = "DeleteFromColumn"
  <2>1. \A Z, millis : ApplyChange(Z, change, millis) = {w \in Z : ~Overlaps(w, change)}
    BY <1>2 DEF ApplyChange
  <2> QED BY <2>1
<1>3. CASE change.op = "DeleteFromFamily"
  <2>1. \A Z, millis : ApplyChange(Z, change, millis) = {w \in Z : w.family # change.family}
    BY <1>3 DEF ApplyChange
  <2> QED BY <2>1
<1>4. CASE change.op = "DeleteFromRow"
  <2>1. \A Z, millis : ApplyChange(Z, change, millis) = {}
    BY <1>4 DEF ApplyChange
  <2> QED BY <2>1
<1>5. CASE change.op \in {"AddToCell", "MergeToCell"}
  BY <1>5 DEF ChangeRetrySafe
<1> QED BY <1>1, <1>2, <1>3, <1>4, <1>5 DEF Operations

\* Changes that are safe without a token change nothing the second time: a
\* version ends as the last change that touches it decides, or was never touched.
LEMMA SafeTwice ==
  ASSUME NEW changes, Len(changes) \in Nat, NEW versions, NEW first, NEW second,
         \A n \in 1..Len(changes) : changes[n].op \in Operations /\ ChangeRetrySafe(changes[n], FALSE),
         NEW once, once = ApplyChanges(versions, changes, first)
  PROVE  \A v : v \in ApplyChanges(once, changes, second) <=> v \in once
<1> DEFINE N == Len(changes)
<1>1. PICK x : /\ x[0] = versions
               /\ \A n \in 1..N : x[n] = ApplyChange(x[n - 1], changes[n], first)
               /\ once = x[N]
  BY ApplyChangesIs
<1>2. PICK y : /\ y[0] = once
               /\ \A n \in 1..N : y[n] = ApplyChange(y[n - 1], changes[n], second)
               /\ ApplyChanges(once, changes, second) = y[N]
  BY ApplyChangesIs
<1> SUFFICES ASSUME NEW v PROVE v \in y[N] <=> v \in x[N]
  BY <1>1, <1>2
<1> DEFINE So(n) == \/ v \in x[n] <=> v \in y[n]
                    \/ (v \in x[n] <=> v \in x[0]) /\ (v \in y[n] <=> v \in y[0])
           Good == {n \in 0..N : So(n)}
<1>3. So(0)
  OBVIOUS
<1>4. ASSUME NEW n \in 0..N, So(n), n < N PROVE So(n + 1)
  <2> DEFINE m == n + 1
  <2>1. m \in 1..N /\ m - 1 = n
    BY <1>4
  <2> HIDE DEF m
  <2>2. x[m] = ApplyChange(x[n], changes[m], first) /\ y[m] = ApplyChange(y[n], changes[m], second)
    BY <1>1, <1>2, <2>1
  <2>3. \/ v \in x[m] <=> v \in y[m]
        \/ (v \in x[m] <=> v \in x[n]) /\ (v \in y[m] <=> v \in y[n])
    <3> DEFINE change == changes[m]
               X == x[n]
               Y == y[n]
    <3>1. change.op \in Operations /\ ChangeRetrySafe(change, FALSE)
      BY <2>1
    <3> HIDE DEF change, X, Y
    <3>2. \/ v \in ApplyChange(X, change, first) <=> v \in ApplyChange(Y, change, second)
          \/ /\ v \in ApplyChange(X, change, first) <=> v \in X
             /\ v \in ApplyChange(Y, change, second) <=> v \in Y
      BY <3>1, SafeChange
    <3>3. x[m] = ApplyChange(X, change, first) /\ y[m] = ApplyChange(Y, change, second)
      BY <2>2 DEF X, Y, change
    <3> QED BY <3>2, <3>3 DEF X, Y
  <2>4. So(m)
    BY <1>4, <2>3
  <2> QED BY <2>4 DEF m
<1>5. \A n \in 0..N : n \in Good
  <2>1. 0 \in Good
    BY <1>3
  <2>2. ASSUME NEW n \in 0..N, n \in Good, n < N PROVE n + 1 \in Good
    <3>1. So(n + 1)
      BY <1>4, <2>2
    <3>2. n + 1 \in 0..N
      BY <2>2
    <3> HIDE DEF So
    <3> QED BY <3>1, <3>2
  <2> HIDE DEF Good
  <2> QED BY <2>1, <2>2, UpTo
<1>6. So(N)
  BY <1>5
<1> QED BY <1>1, <1>2, <1>6

\* An entry with a token is applied once: after the first time the service
\* remembers it as long as the token is recent.
LEMMA TokenOnce ==
  ASSUME NEW r, r.token # {}, r.token \subseteq Int, NEW stored, DOMAIN stored = {"versions", "applied"},
         stored.applied = {}, NEW first \in Int, NEW second \in Int, second >= first,
         \A start \in r.token : first >= start, NEW once, once = ApplyEntry(stored, r, first)
  PROVE  ApplyEntry(once, r, second) = once
<1>1. PICK start \in r.token : TRUE
  OBVIOUS
<1>2. CASE \E s \in r.token : first > s + TokenWindow
  <2>1. \E s \in r.token : second > s + TokenWindow
    <3>1. PICK s \in r.token : first > s + TokenWindow
      BY <1>2
    <3>2. second > s + TokenWindow
      BY <3>1, LimitsAssumption
    <3> QED BY <3>2
  <2> QED BY <2>1 DEF ApplyEntry
<1>3. CASE ~ \E s \in r.token : first > s + TokenWindow
  <2>1. once.applied = {first}
    BY <1>3 DEF ApplyEntry
  <2>2. CASE \E s \in r.token : second > s + TokenWindow
    BY <2>2 DEF ApplyEntry
  <2>3. CASE ~ \E s \in r.token : second > s + TokenWindow
    <3>1. second <= start + TokenWindow
      BY <2>3, LimitsAssumption
    <3>2. second <= first + TokenWindow
      BY <3>1, LimitsAssumption
    <3>3. \E at \in once.applied : second <= at + TokenWindow
      BY <2>1, <3>2
    <3> QED BY <3>3 DEF ApplyEntry
  <2> QED BY <2>2, <2>3
<1> QED BY <1>2, <1>3

\* An entry that is_retry_safe calls safe can be applied a second time, at any
\* later time and whatever the row held, and changes nothing.
THEOREM ReplayIsHarmless == Spec => []ReplayHarmless
<1>1. Inv => ReplayHarmless
  <2> SUFFICES ASSUME Inv, NEW r \in row, RowRetrySafe(r), NEW versions \in Rows,
                      NEW first \in Clocks, NEW second \in Clocks, second >= first,
                      \A start \in r.token : first >= start,
                      NEW stored, stored = [versions |-> versions, applied |-> {}],
                      NEW once, once = ApplyEntry(stored, r, first)
               PROVE  ApplyEntry(once, r, second).versions = once.versions
    BY DEF ReplayHarmless
  <2>1. RowOk(r) /\ r.token \subseteq Int /\ first \in Int /\ second \in Int
    BY CallsAssumption DEF Inv, RowOk
  <2>2. CASE r.token # {}
    <3>1. DOMAIN stored = {"versions", "applied"} /\ stored.applied = {}
      OBVIOUS
    <3> QED BY <2>1, <2>2, <3>1, TokenOnce
  <2>3. CASE r.token = {}
    <3> DEFINE changes == r.mutations
    <3>1. once.versions = ApplyChanges(versions, changes, first)
      BY <2>3 DEF ApplyEntry
    <3>2. ApplyEntry(once, r, second).versions = ApplyChanges(once.versions, changes, second)
      BY <2>3 DEF ApplyEntry
    <3>3. Len(changes) \in Nat /\ DOMAIN changes = 1..Len(changes)
      <4>1. PICK S : changes \in Seq(S)
        BY <2>1 DEF RowOk, IsSeq
      <4> QED BY <4>1, LenProperties
    <3>4. \A n \in 1..Len(changes) : changes[n].op \in Operations /\ ChangeRetrySafe(changes[n], FALSE)
      <4>1. (r.token # {}) = FALSE
        BY <2>3
      <4>2. \A n \in DOMAIN changes : ChangeRetrySafe(changes[n], FALSE)
        BY <4>1 DEF RowRetrySafe
      <4> QED BY <2>1, <3>3, <4>2 DEF RowOk
    <3> HIDE DEF changes
    <3> DEFINE w == once.versions
               z == ApplyChanges(w, changes, second)
    <3>5. \A v : v \in z <=> v \in w
      BY <3>1, <3>3, <3>4, SafeTwice
    <3> QED BY <3>2, <3>5
  <2> QED BY <2>2, <2>3
<1> QED BY <1>1, BulkInvariant, PTL
=============================================================================
