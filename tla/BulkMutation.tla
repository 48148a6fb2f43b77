----------------------------- MODULE BulkMutation -----------------------------
(***************************************************************************)
(* A caller builds a BulkMutation row by row (mutation.rs) and executes it *)
(* (the first half of execute in write.rs): the options are checked and    *)
(* the entries split into MutateRows requests, which MutateRows sends.     *)
(*                                                                         *)
(* A builder that refuses a call has consumed what was built, and a caller *)
(* hands the error on with `?`, which drops the rest; it may begin again.  *)
(***************************************************************************)
EXTENDS Mutation, SplitBatches

CONSTANTS
  Tables, RowKeys, Families, Qualifiers,   \* names a caller may use, refused ones included
  Timestamps,   \* timestamps a caller may give, in microseconds
  Clocks,       \* readings of the wall clock, in milliseconds
  TokenLengths, \* lengths of the tokens a caller may give
  Protos,       \* changes a caller may wrap
  Options,      \* the BulkMutationOptions a caller may use
  Requested,    \* the BatchPolicy the splits are compared with
  BytesOf,      \* what a change adds to the encoded length of its entry, by operation
  KeyBytes, TokenBytes,   \* what the key and a token add
  BaseSize,     \* encoded length of a request without entries
  Rows,         \* the rows a table may hold before a write, as sets of versions
  MaxChanges    \* bound of the model: changes in one bulk mutation

ASSUME PolicyAssumption ==
  /\ Requested.max_entries_per_request \in Nat \ {0} /\ Requested.max_request_bytes \in Nat \ {0}
  /\ Requested.max_mutations \in Nat /\ Requested.max_mutations >= MaxMutations
ASSUME SizesAssumption ==
  KeyBytes \in Nat /\ TokenBytes \in Nat /\ BaseSize \in Nat /\ BytesOf \in [Operations -> Nat]
ASSUME CallsAssumption ==
  Clocks \subseteq Int /\ \A change \in Protos : change.op \in Operations \cup {"None"}

VARIABLES
  table,     \* table id of the bulk mutation, {} before it is made
  bulk,      \* its entries
  row,       \* {} or the RowMutation under construction
  issue,     \* what the last call refused, "None" if it did not
  outcome    \* what execute has made of the bulk mutation

vars == <<table, bulk, row, issue, outcome>>

NotExecuted == [kind |-> "None", issue |-> "None", batches |-> <<>>]

Init ==
  /\ table = {} /\ bulk = <<>> /\ row = {}
  /\ issue = "None" /\ outcome = NotExecuted

Changes == FoldSet(LAMBDA r, sum : sum + Len(r.mutations), 0, row)
           + FoldLeft(LAMBDA sum, entry : sum + Len(entry.mutations), 0, bulk)

Refuse(reason) ==
  /\ issue' = reason
  /\ table' = {} /\ bulk' = <<>> /\ row' = {}
  /\ UNCHANGED outcome

NewBulk(name) ==
  /\ table = {} /\ outcome = NotExecuted
  /\ IF TableIdIssue(name) # "None" THEN Refuse(TableIdIssue(name))
     ELSE table' = {name} /\ issue' = "None" /\ UNCHANGED <<bulk, row, outcome>>

BeginRow(key) ==
  /\ table # {} /\ row = {} /\ Changes < MaxChanges
  /\ IF RowKeyIssue(key) # "None" THEN Refuse(RowKeyIssue(key))
     ELSE row' = {NewRow(key)} /\ issue' = "None" /\ UNCHANGED <<table, bulk, outcome>>

\* A constructor and RowMutation::mutation, as a caller chains them.
Mutate(built) ==
  \E r \in row :
    /\ Changes < MaxChanges
    /\ IF built.issue # "None" THEN Refuse(built.issue)
       ELSE IF TooMany(r) THEN Refuse("TooManyMutations")
       ELSE row' = {AddMutation(r, built.change)} /\ issue' = "None" /\ UNCHANGED <<table, bulk, outcome>>

WithIdempotencyToken(length, millis) ==
  \E r \in row :
    /\ r.token = {}
    /\ IF TokenIssue(length, millis) # "None" THEN Refuse(TokenIssue(length, millis))
       ELSE row' = {[r EXCEPT !.token = {millis}]} /\ issue' = "None" /\ UNCHANGED <<table, bulk, outcome>>

\* push takes the row in any case and leaves the entries before it.
Push ==
  \E r \in row :
    /\ issue' = IF r.mutations = <<>> THEN "EmptyRowMutation" ELSE "None"
    /\ bulk' = IF issue' = "None" THEN Append(bulk, r) ELSE bulk
    /\ row' = {}
    /\ UNCHANGED <<table, outcome>>

-----------------------------------------------------------------------------
BulkMutationPolicyIssue ==
  PolicyIssues \cup {"ZeroEntriesPerRequest", "ZeroRequestBytes", "ZeroInFlightRequests",
                     "DeadlineTooLarge"}

\* validate_options, and the deadline that must fit the clock of the runtime.
OptionsIssue(options) ==
  FirstIssue(<<PolicyIssue(options.retry, options.deadlines),
               Check(options.batch.max_entries_per_request > 0, "ZeroEntriesPerRequest"),
               Check(options.batch.max_request_bytes > 0, "ZeroRequestBytes"),
               Check(options.batch.max_in_flight_requests > 0, "ZeroInFlightRequests")>>)

\* The sum of a sequence of numbers.
Total(numbers) ==
  LET total[n \in 0..Len(numbers)] == IF n = 0 THEN 0 ELSE total[n - 1] + numbers[n]
  IN  total[Len(numbers)]

\* The encoded length of an entry, as its key, changes and token add up.
EntryBytes(entry) ==
  KeyBytes + (IF entry.token = {} THEN 0 ELSE TokenBytes)
  + Total([m \in DOMAIN entry.mutations |-> BytesOf[entry.mutations[m].op]])

\* PendingEntry of each entry, with what the split looks at.
PendingEntries(entries) ==
  [i \in DOMAIN entries |-> [bytes |-> EntryBytes(entries[i]), mutations |-> Len(entries[i].mutations),
                             retry_safe |-> RowRetrySafe(entries[i])]]

\* execute takes the bulk mutation.  One without entries succeeds at once.
Execute(options) ==
  LET refused == OptionsIssue(options)
  IN  /\ table # {} /\ row = {}
      /\ outcome' = IF refused # "None" THEN [NotExecuted EXCEPT !.kind = "Refused", !.issue = refused]
                    ELSE IF bulk = <<>> THEN [NotExecuted EXCEPT !.kind = "NothingToDo"]
                    ELSE IF ~options.deadlines.representable
                      THEN [NotExecuted EXCEPT !.kind = "Refused", !.issue = "DeadlineTooLarge"]
                    ELSE [kind |-> "Started", issue |-> "None",
                          batches |-> Split(PendingEntries(bulk), BaseSize, options.batch)]
      /\ table' = {} /\ bulk' = <<>>
      /\ issue' = "None" /\ UNCHANGED row

Next ==
  \/ \E name \in Tables : NewBulk(name)
  \/ \E key \in RowKeys : BeginRow(key)
  \/ \E family \in Families, qualifier \in Qualifiers :
       \/ \E millis \in Clocks : Mutate(SetCell(family, qualifier, millis, 1))
       \/ \E micros \in Timestamps : Mutate(SetCellAt(family, qualifier, micros, 2))
       \/ Mutate(SetCellAtServerTime(family, qualifier, 1))
       \/ Mutate(DeleteCells(family, qualifier))
       \/ \E start, end \in Timestamps : Mutate(DeleteCellsInRange(family, qualifier, start, end))
       \/ Mutate(DeleteFamily(family))
  \/ Mutate(DeleteRow)
  \/ \E change \in Protos : Mutate(FromProto(change))
  \/ \E length \in TokenLengths, millis \in Clocks : WithIdempotencyToken(length, millis)
  \/ Push
  \/ \E options \in Options : Execute(options)

Spec == Init /\ [][Next]_vars

-----------------------------------------------------------------------------
\* Every variable holds a value of its type; an error names an issue of its enum.
TypeOK ==
  /\ table \subseteq Tables
  /\ issue \in MutationIssue \cup {"None"}
  /\ \A r \in row : Len(r.mutations) <= MaxMutations
  /\ \A i \in DOMAIN bulk : Len(bulk[i].mutations) \in 1..MaxMutations
  /\ outcome.issue \in BulkMutationPolicyIssue \cup {"None"}

Batches == Split(PendingEntries(bulk), BaseSize, Requested)

\* The groups of seven bits that a number takes on the wire: as few as have
\* room for it.
Groups(number) ==
  LET power[g \in 0..(number + 1)] == IF g = 0 THEN 1 ELSE 128 * power[g - 1]
  IN  CHOOSE g \in 1..(number + 1) : number < power[g] /\ (g > 1 => number >= power[g - 1])

\* The length of the encoded request, from the wire format: for each entry a
\* tag, the groups of its length, and its bytes.
EncodedLength(batch) ==
  LET length == [i \in DOMAIN bulk |-> EntryBytes(bulk[i])]
  IN  BaseSize + Total([k \in DOMAIN batch |-> 1 + Groups(length[batch[k]]) + length[batch[k]]])

Fits(batch) ==
  /\ Len(batch) <= Requested.max_entries_per_request
  /\ Total([k \in DOMAIN batch |-> Len(bulk[batch[k]].mutations)]) <= Requested.max_mutations
  /\ EncodedLength(batch) <= Requested.max_request_bytes

\* Every entry is in exactly one request, and requests keep the caller's order.
SplitKeepsEntries == FlattenSeq(Batches) = [i \in DOMAIN bulk |-> i]

\* Each request keeps all three limits as the server would count them, unless it
\* is one entry that alone is larger than the byte target; none is empty, and
\* none is cut short: the first entry of the next one would not have fit.
RequestsWithinLimits ==
  /\ \A b \in DOMAIN Batches : Len(Batches[b]) = 1 \/ (Len(Batches[b]) > 1 /\ Fits(Batches[b]))
  /\ \A b \in 1..(Len(Batches) - 1) : ~Fits(Append(Batches[b], Batches[b + 1][1]))

\* An entry that is_retry_safe calls safe can be sent again at any later time:
\* whatever the row held, applying the entry a second time changes nothing,
\* also when its token has expired in between.  The service's clock is taken to
\* have passed the time at which the client dated the token.
ReplayHarmless ==
  \A r \in row : RowRetrySafe(r) =>
    \A versions \in Rows, first, second \in {t \in Clocks : t >= 0} :
      (second >= first /\ \A start \in r.token : first >= start) =>
        LET once == ApplyEntry([versions |-> versions, applied |-> {}], r, first)
        IN  ApplyEntry(once, r, second).versions = once.versions
=============================================================================
