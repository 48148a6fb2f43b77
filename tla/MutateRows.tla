------------------------------ MODULE MutateRows ------------------------------
(***************************************************************************)
(* One bulk mutation (write.rs): its entries are split into batches that   *)
(* run concurrently, each sending its unresolved entries again while that  *)
(* is safe and useful.  Interleaved are the batches, the server's answers  *)
(* to each, the caller that may drop the operation, and the clock.         *)
(***************************************************************************)
EXTENDS SplitBatches, Retry

CONSTANTS
  Entries,       \* the entries of the operation, as SplitBatches has them
  BaseSize,      \* encoded length of a request without entries
  Policy,        \* BatchPolicy, with the API's mutation limit
  RetryPolicy,   \* RetryPolicy of the options
  Deadlines,     \* DeadlinePolicy of the options
  Failures       \* the failure statuses the service may give: [code, info],
                 \* where info is the delay its RetryInfo asks for

ASSUME EntriesAssumption ==
  Entries \in Seq([bytes : Nat, mutations : Nat, retry_safe : BOOLEAN]) \ {<<>>}
ASSUME PolicyAssumption ==
  /\ ValidPolicies(RetryPolicy, Deadlines)
  /\ RetryPolicy.max_attempts \in Nat /\ RetryPolicy.max_backoff \in Nat
  /\ \A n \in 0..RetryPolicy.max_attempts : RetryPolicy.initial_backoff * RetryPolicy.multiplier ^ n \in Nat
  /\ Deadlines.operation_timeout \in Nat /\ Deadlines.attempt_timeout \in Nat
  /\ Policy.max_entries_per_request > 0 /\ Policy.max_request_bytes > 0
  /\ Policy.max_in_flight_requests > 0
ASSUME FailuresAssumption ==
  \A status \in Failures : status.code \notin {"Ok", "None"} /\ status.info \in Nat

VARIABLES
  now,            \* ticks since the operation started
  pc,             \* per batch: where its BatchOperation waits
  pending,        \* per batch: entries to send, in order
  current,        \* per batch: entries of the running attempt, in order
  seen,           \* per batch: results of the running attempt by local index
  deadline, wake, \* per batch: attempt deadline, end of the backoff sleep
  rpc_attempts,   \* per batch: attempts so far
  successful,     \* per batch: entries confirmed
  attempts,       \* per entry: attempts that included it
  answer,         \* history, per entry: the last status learned for it
  failures,       \* the MutationFailures collected so far
  telemetry,      \* attempts, retries, open attempts, finish of the operation
  result          \* what the caller has got

vars == <<now, pc, pending, current, seen, deadline, wake, rpc_attempts, successful,
          attempts, answer, failures, telemetry, result>>

Batches == Split(Entries, BaseSize, Policy)
BatchIds == DOMAIN Batches
Indexes == DOMAIN Entries
Deadline == Deadlines.operation_timeout

OkStatus == [code |-> "Ok", info |-> 0]
NoStatus == [code |-> "None", info |-> 0]
Expired == [code |-> "DeadlineExceeded", info |-> 0]

Init ==
  /\ now = 0
  /\ pc = [b \in BatchIds |-> "Waiting"]
  /\ pending = Batches
  /\ current = [b \in BatchIds |-> <<>>]
  /\ seen = [b \in BatchIds |-> <<>>]
  /\ deadline = [b \in BatchIds |-> 0] /\ wake = [b \in BatchIds |-> 0]
  /\ rpc_attempts = [b \in BatchIds |-> 0] /\ successful = [b \in BatchIds |-> 0]
  /\ attempts = [i \in Indexes |-> 0]
  /\ answer = [i \in Indexes |-> NoStatus]
  /\ failures = {}
  /\ telemetry = [attempts |-> 0, retries |-> 0, open |-> {}, finished |-> <<>>]
  /\ result = "Pending"

Running == result = "Pending"
InFlight == {b \in BatchIds : pc[b] \in {"Calling", "Reading", "Backoff"}}

Failure(index, cause, code) ==
  [index |-> index, attempts |-> attempts[index], cause |-> cause, code |-> code]

\* Faulty variant: entries left at the deadline are dropped in silence.
NoDeadlineFailures(left) == {}

\* fail_pending_deadline, for the entries left in a batch.
DeadlineFailures(left) ==
  {Failure(index, "DeadlineExceeded", "DeadlineExceeded") : index \in ToSet(left)}

\* The sum over the batches, added up one by one.
Total(count) ==
  LET total[n \in 0..Len(count)] == IF n = 0 THEN 0 ELSE total[n - 1] + count[n]
  IN  total[Len(count)]

-----------------------------------------------------------------------------
(* One turn of the loop of BatchOperation::run.                            *)

\* Its first part: send what is pending, unless the deadline has passed.
BeginAttempt(b) ==
  \/ /\ now >= Deadline
     /\ failures' = failures \cup DeadlineFailures(pending[b])
     /\ pending' = [pending EXCEPT ![b] = <<>>]
     /\ pc' = [pc EXCEPT ![b] = "Done"]
     /\ UNCHANGED <<current, deadline, rpc_attempts, attempts, telemetry>>
  \/ /\ now < Deadline
     /\ rpc_attempts' = [rpc_attempts EXCEPT ![b] = @ + 1]
     /\ attempts' = [i \in Indexes |-> attempts[i] + (IF i \in ToSet(pending[b]) THEN 1 ELSE 0)]
     /\ current' = [current EXCEPT ![b] = pending[b]]
     /\ pending' = [pending EXCEPT ![b] = <<>>]
     /\ deadline' = [deadline EXCEPT ![b] = Min({now + Deadlines.attempt_timeout, Deadline})]
     /\ telemetry' = [telemetry EXCEPT !.attempts = @ + 1, !.open = @ \cup {b}]
     /\ pc' = [pc EXCEPT ![b] = "Calling"]
     /\ UNCHANGED failures

\* Faulty variants: no end of attempts, one attempt too few, no regard for
\* whether a replay is safe.
CanRetryForever(index, status) == Entries[index].retry_safe /\ IsMutateRetryable(status.code)
CanRetryOneLess(index, status) ==
  /\ Entries[index].retry_safe
  /\ IsMutateRetryable(status.code)
  /\ attempts[index] + 1 < RetryPolicy.max_attempts
CanRetryUnsafe(index, status) ==
  /\ IsMutateRetryable(status.code)
  /\ attempts[index] < RetryPolicy.max_attempts

\* Faulty variant: positions in a retry are read as positions in the batch.
BatchEntryAt(b, k) == Batches[b][k]

\* original_index of the entry at local index k of the running attempt.
EntryAt(b, k) == current[b][k]

\* classify_status: an entry is sent again when that is safe and useful.
CanRetry(index, status) ==
  /\ Entries[index].retry_safe
  /\ IsMutateRetryable(status.code)
  /\ attempts[index] < RetryPolicy.max_attempts

\* The elements of s at the given positions, pushed in order.
Kept(s, positions) ==
  LET kept[n \in 0..Len(s)] ==
        IF n = 0 THEN <<>>
        ELSE IF n \in positions THEN Append(kept[n - 1], s[n]) ELSE kept[n - 1]
  IN  kept[Len(s)]

\* Its second part: the attempt is over.  verdict[k] is what became of the
\* entry at local index k: a status and where it came from.
EndAttempt(b, verdict) ==
  LET locals == DOMAIN current[b]
      sentEntries == [k \in locals |-> EntryAt(b, k)]
      confirmed == {k \in locals : verdict[k].status = OkStatus}
      retried == {k \in locals : /\ verdict[k].cause \in {"EntryStatus", "RpcStatus"}
                                 /\ verdict[k].status # OkStatus
                                 /\ CanRetry(sentEntries[k], verdict[k].status)}
      failed == {Failure(sentEntries[k], verdict[k].cause, verdict[k].status.code) :
                   k \in locals \ (confirmed \cup retried)}
      left == Kept(sentEntries, retried)
      failedAttempt == Max({attempts[index] : index \in ToSet(left)})
      retryInfo == Max({verdict[k].status.info : k \in retried})
      finished == [telemetry EXCEPT !.open = @ \ {b}]
  IN  /\ successful' = [successful EXCEPT ![b] = @ + Cardinality(confirmed)]
      /\ answer' = [i \in Indexes |-> IF \E k \in locals : current[b][k] = i
                                        THEN verdict[CHOOSE k \in locals : current[b][k] = i].status
                                        ELSE answer[i]]
      /\ current' = [current EXCEPT ![b] = <<>>]
      /\ seen' = [seen EXCEPT ![b] = <<>>]
      /\ deadline' = [deadline EXCEPT ![b] = 0]
      /\ \/ /\ left = <<>>
            /\ failures' = failures \cup failed
            /\ telemetry' = finished
            /\ pc' = [pc EXCEPT ![b] = "Done"]
            /\ UNCHANGED <<pending, wake>>
         \/ /\ left # <<>>
            /\ \E delay \in RetryDelays(RetryPolicy, failedAttempt, retryInfo) :
                 \/ /\ delay >= Deadline - now
                    /\ failures' = failures \cup failed \cup DeadlineFailures(left)
                    /\ telemetry' = finished
                    /\ pc' = [pc EXCEPT ![b] = "Done"]
                    /\ UNCHANGED <<pending, wake>>
                 \/ /\ delay < Deadline - now
                    /\ failures' = failures \cup failed
                    /\ pending' = [pending EXCEPT ![b] = left]
                    /\ telemetry' = [finished EXCEPT !.retries = @ + 1]
                    /\ wake' = [wake EXCEPT ![b] = now + delay]
                    /\ pc' = [pc EXCEPT ![b] = "Backoff"]
      /\ UNCHANGED <<now, rpc_attempts, attempts, result>>

\* Every entry of the attempt ends the same way.
ForAll(b, cause, status) == [k \in DOMAIN current[b] |-> [cause |-> cause, status |-> status]]

-----------------------------------------------------------------------------
\* buffer_unordered starts the batches in order, a bounded number at a time.
StartBatch(b) ==
  /\ Running /\ pc[b] = "Waiting"
  /\ \A earlier \in 1..(b - 1) : pc[earlier] # "Waiting"
  /\ Cardinality(InFlight) < Policy.max_in_flight_requests
  /\ BeginAttempt(b)
  /\ UNCHANGED <<now, seen, wake, successful, answer, result>>

WakeBatch(b) ==
  /\ Running /\ pc[b] = "Backoff" /\ now >= wake[b]
  /\ BeginAttempt(b)
  /\ UNCHANGED <<now, seen, wake, successful, answer, result>>

CallAccepted(b) ==
  /\ Running /\ pc[b] = "Calling"
  /\ pc' = [pc EXCEPT ![b] = "Reading"]
  /\ seen' = [seen EXCEPT ![b] = [k \in DOMAIN current[b] |-> NoStatus]]
  /\ UNCHANGED <<now, pending, current, deadline, wake, rpc_attempts, successful, attempts,
                 answer, failures, telemetry, result>>

CallFails(b, status) ==
  /\ Running /\ pc[b] = "Calling"
  /\ EndAttempt(b, ForAll(b, "RpcStatus", status))

\* Faulty variant: the call is awaited without a timeout.
CallNeverTimesOut(b) == FALSE

CallTimesOut(b) ==
  /\ Running /\ pc[b] = "Calling" /\ now >= deadline[b]
  /\ EndAttempt(b, ForAll(b, "RpcStatus", Expired))

\* One entry of a response.  An index that is negative, too large or repeated
\* spoils the whole attempt.  The code counts indexes from zero.
ReadResult(b, index, status) ==
  /\ Running /\ pc[b] = "Reading"
  /\ IF index + 1 \in DOMAIN current[b] /\ seen[b][index + 1] = NoStatus
       THEN /\ seen' = [seen EXCEPT ![b][index + 1] = status]
            /\ UNCHANGED <<now, pc, pending, current, deadline, wake, rpc_attempts, successful,
                           attempts, answer, failures, telemetry, result>>
       ELSE EndAttempt(b, ForAll(b, "InvalidResponse", [code |-> "Unknown", info |-> 0]))

\* The stream is over.  An entry with a result keeps it, whatever ended the
\* stream; the others share the failure, or are missing when there was none.
ConsumeStream(b, end) ==
  EndAttempt(b, [k \in DOMAIN current[b] |->
    IF seen[b][k] # NoStatus THEN [cause |-> "EntryStatus", status |-> seen[b][k]]
    ELSE IF end # OkStatus THEN [cause |-> "RpcStatus", status |-> end]
    ELSE [cause |-> "InvalidResponse", status |-> [code |-> "Unknown", info |-> 0]]])

StreamEnds(b, status) ==
  /\ Running /\ pc[b] = "Reading"
  /\ ConsumeStream(b, status)

StreamTimesOut(b) ==
  /\ Running /\ pc[b] = "Reading" /\ now >= deadline[b]
  /\ ConsumeStream(b, Expired)

\* mutation_failures_code: the code of the first failure by index.
FailureCode(all) ==
  (CHOOSE f \in all : \A g \in all : f.index <= g.index).code

\* All batches are done: execute adds them up and returns.
Finish ==
  LET confirmed == Total(successful)
      code == IF failures = {} THEN "Ok" ELSE FailureCode(failures)
  IN  /\ Running /\ \A b \in BatchIds : pc[b] = "Done"
      /\ result' = IF failures = {} THEN "Ok" ELSE "BulkMutation"
      /\ telemetry' = [telemetry EXCEPT !.finished = Append(@,
           [code |-> code, successful |-> confirmed, failed |-> Cardinality(failures)])]
      /\ UNCHANGED <<now, pc, pending, current, seen, deadline, wake, rpc_attempts, successful,
                     attempts, answer, failures>>

\* The caller drops the future before it is ready; the trackers' Drop reports
\* the open attempts and the operation as cancelled.
DropExecute ==
  /\ Running /\ \E b \in BatchIds : pc[b] # "Done"
  /\ result' = "Dropped"
  /\ telemetry' = [telemetry EXCEPT !.open = {}, !.finished = Append(@,
       [code |-> "Cancelled", successful |-> 0, failed |-> 0])]
  /\ UNCHANGED <<now, pc, pending, current, seen, deadline, wake, rpc_attempts, successful,
                 attempts, answer, failures>>

\* Past the operation's deadline every comparison with the clock has settled.
Tick ==
  /\ Running /\ now < Deadline
  /\ now' = now + 1
  /\ UNCHANGED <<pc, pending, current, seen, deadline, wake, rpc_attempts, successful, attempts,
                 answer, failures, telemetry, result>>

Next ==
  \/ \E b \in BatchIds :
       \/ StartBatch(b) \/ WakeBatch(b)
       \/ CallAccepted(b) \/ CallTimesOut(b) \/ StreamTimesOut(b)
       \/ \E status \in Failures : CallFails(b, status)
       \/ \E status \in Failures \cup {OkStatus} :
            \/ StreamEnds(b, status)
            \/ \E index \in -1..Len(current[b]) : ReadResult(b, index, status)
  \/ Finish \/ DropExecute \/ Tick

Spec == Init /\ [][Next]_vars

\* The batches and the clock run; nothing is assumed of the server.
FairSpec ==
  /\ Spec
  /\ WF_vars(Tick) /\ WF_vars(Finish)
  /\ \A b \in BatchIds :
       WF_vars(StartBatch(b) \/ WakeBatch(b) \/ CallTimesOut(b) \/ StreamTimesOut(b))

-----------------------------------------------------------------------------
\* Every variable holds a value of its type.
TypeOK ==
  /\ now \in 0..Deadline
  /\ pc \in [BatchIds -> {"Waiting", "Calling", "Reading", "Backoff", "Done"}]
  /\ \A b \in BatchIds : ToSet(pending[b]) \cup ToSet(current[b]) \subseteq ToSet(Batches[b])
  /\ \A b \in BatchIds : seen[b] \in Seq(Failures \cup {OkStatus, NoStatus})
  /\ deadline \in [BatchIds -> 0..Deadline] /\ wake \in [BatchIds -> 0..Deadline]
  /\ rpc_attempts \in [BatchIds -> 0..RetryPolicy.max_attempts]
  /\ attempts \in [Indexes -> 0..RetryPolicy.max_attempts]
  /\ \A f \in failures : f.index \in Indexes
       /\ f.cause \in {"EntryStatus", "RpcStatus", "DeadlineExceeded", "InvalidResponse"}
  /\ result \in {"Pending", "Ok", "BulkMutation", "Dropped"}

FailedIn(b) == {f \in failures : f.index \in ToSet(Batches[b])}

\* At every moment each entry of a batch is in one place only: still to send, in
\* the running attempt, confirmed, or failed; none is lost or counted twice
\* across partial retries (run, consume_stream, fail_pending_deadline).
EntriesAccountedOnce ==
  \A b \in BatchIds :
    /\ Len(pending[b]) + Len(current[b]) + successful[b] + Cardinality(FailedIn(b)) = Len(Batches[b])
    /\ \A f \in FailedIn(b) : f.index \notin ToSet(pending[b]) \cup ToSet(current[b])
    /\ \A f, g \in FailedIn(b) : f.index = g.index => f = g

\* An operation that returns reports as failed exactly the entries the server
\* has not confirmed, by their index in the caller's bulk mutation, although
\* the server answers with positions in a shrinking retry request.
ReportsMatchAnswers ==
  result \in {"Ok", "BulkMutation"} =>
    {f.index : f \in failures} = {i \in Indexes : answer[i] # OkStatus}

\* A send is justified: the deadline is ahead and the entry is not confirmed; a
\* second send is of a retry-safe entry whose last status was transient and
\* whose attempts are not used up.
SendsJustified ==
  [][\A i \in Indexes : attempts'[i] # attempts[i] =>
       /\ now < Deadline /\ attempts'[i] = attempts[i] + 1
       /\ answer[i] # OkStatus
       /\ attempts[i] > 0 => /\ Entries[i].retry_safe
                             /\ IsMutateRetryable(answer[i].code)
                             /\ attempts[i] < RetryPolicy.max_attempts]_vars

\* The client does not give up early: a retry-safe entry that fails with a
\* transient status has used all its attempts.
RetriesExhausted ==
  \A f \in failures :
    (f.cause \in {"EntryStatus", "RpcStatus"} /\ Entries[f.index].retry_safe /\ IsMutateRetryable(f.code))
      => f.attempts = RetryPolicy.max_attempts

\* Observers see each attempt and the operation end once, also when the future
\* is dropped; what a returning operation reports adds up: every attempt, every
\* entry, and Ok exactly when nothing failed.
TelemetryAddsUp ==
  /\ Len(telemetry.finished) = (IF Running THEN 0 ELSE 1)
  /\ telemetry.open = (IF Running THEN {b \in BatchIds : pc[b] \in {"Calling", "Reading"}} ELSE {})
  /\ telemetry.attempts = Total(rpc_attempts)
  /\ result \in {"Ok", "BulkMutation"} =>
       LET report == telemetry.finished[1]
       IN  /\ report.successful + report.failed = Len(Entries)
           /\ report.code = "Ok" <=> report.successful = Len(Entries)

\* A bulk mutation returns even if the server never answers a single call.
MutateTerminates == <>(result # "Pending")

-----------------------------------------------------------------------------
\* MutationFailureCause::retry_safe
CauseRetrySafe(failure) ==
  failure.cause \in {"EntryStatus", "RpcStatus"} /\ Entries[failure.index].retry_safe

\* "Returns whether replaying the entry is idempotent."
RetrySafetyReported ==
  \A f \in failures : CauseRetrySafe(f) = Entries[f.index].retry_safe
=============================================================================
