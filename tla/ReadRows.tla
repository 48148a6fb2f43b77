------------------------------- MODULE ReadRows -------------------------------
(***************************************************************************)
(* One ReadRows operation (read.rs): it opens a stream, merges chunks into *)
(* rows, hands the rows to the caller through a bounded channel, and after *)
(* a transient failure resumes behind the last key it has passed.          *)
(*                                                                         *)
(* Four parties interleave: the operation (first inside the future that    *)
(* `start` returns, then as a spawned task), the server, the caller that   *)
(* takes rows or drops the stream, and the clock.  Code between two awaits *)
(* is one step.  A message is received when the operation polls it, so     *)
(* what a broken stream loses in flight was never sent.                    *)
(***************************************************************************)
EXTENDS RowMerge, Retry, Telemetry

CONSTANTS
  Table,         \* keys of the rows the server holds that pass the filter
  ScanKeys,      \* keys the server may name in a scan marker
  Queries,       \* the requests made of the queries a caller may run
  RetryPolicy,   \* the caller's RetryPolicy
  Deadlines,     \* the caller's DeadlinePolicy
  StreamBuffer,  \* capacity of the row channel, STREAM_BUFFER in the code
  Codes,         \* status codes the service may fail with
  RetryInfos,    \* delays the service may ask for, zero for none
  MaxResets      \* how often the server resets a row within one attempt

ASSUME TableAssumption ==
  /\ IsFiniteSet(Table) /\ Table \subseteq Key \ {EmptyKey}
  /\ ScanKeys \subseteq Key \ {EmptyKey}
\* A request has at most one row set, an Option in the code.
ASSUME QueriesAssumption ==
  Queries \subseteq Requests /\ \A o \in Queries : \A rs1, rs2 \in o.rows : rs1 = rs2
ASSUME PolicyAssumption ==
  /\ ValidPolicies(RetryPolicy, Deadlines)
  /\ RetryPolicy.max_attempts \in Nat
  /\ Deadlines.operation_timeout \in Nat /\ Deadlines.attempt_timeout \in Nat
ASSUME CodesAssumption == "Ok" \notin Codes
ASSUME BoundsAssumption ==
  StreamBuffer \in Nat \ {0} /\ RetryInfos \subseteq Nat /\ MaxResets \in Nat

VARIABLES
  original,       \* the first request of the operation
  now,            \* ticks since the operation started
  pc,             \* where the operation waits
  attempts, rows_returned, progress, merger,   \* fields of ReadOperation
  active,         \* ActiveAttempt: its deadline, its rows, rows before the response
  wake,           \* when the backoff sleep ends
  server,         \* the server's side of the current stream
  outgoing,       \* the item the operation is sending
  sent, taken,    \* items put in the channel so far, and how many were taken
  receiver,       \* the caller still holds the RowStream
  result,         \* what `start` has returned
  telemetry       \* the operation's trackers

scan == <<rows_returned, progress, merger>>
rpc == <<active, server>>
channel == <<sent, taken, receiver>>
vars == <<original, now, pc, attempts, scan, rpc, wake, outgoing, channel, result, telemetry>>

NoAttempt == [deadline |-> 0, rows |-> 0, before |-> 0]
NoStream == [request |-> {}, last |-> NoKey, half |-> FALSE, left |-> 0, resets |-> 0]

RowItem(row) == [row |-> {row}, error |-> "None"]
ErrorItem(error) == [row |-> {}, error |-> error]
NoItem == [row |-> {}, error |-> "None"]

Spawned == result = "Stream"
Deadline == Deadlines.operation_timeout

-----------------------------------------------------------------------------
(* The server.  It returns the rows a request selects, in the direction of *)
(* the query, up to the limit; a row comes whole or as a split value; it   *)
(* may reset a row it has begun, and between rows name a key it has        *)
(* scanned without finding a row to return.                                *)

\* The one-cell row the server holds under a key.
ServerRow(key) ==
  [key |-> key,
   families |-> <<[name |-> "f", columns |-> <<[qualifier |-> "q",
                   cells |-> <<[meta |-> 1, value |-> <<key, key>>]>>]>>]>>]

RowChunk(key, value, size, status) ==
  [row_key |-> key, family_name |-> "f", qualifier |-> "q", meta |-> 1,
   value |-> value, value_size |-> size, row_status |-> status]
PlainChunk(value, status) ==
  [row_key |-> EmptyKey, family_name |-> NoName, qualifier |-> NoName, meta |-> NoMeta,
   value |-> value, value_size |-> 0, row_status |-> status]

Opened(request) == [request |-> {request}, last |-> NoKey, half |-> FALSE,
                    left |-> request.rows_limit, resets |-> 0]

\* Rows of the request the stream has still to return, the limit aside.
Unsent(s) ==
  {k \in Table : \A r \in s.request :
     Selects(r, k) /\ (s.last # NoKey => Beyond(k, s.last, r.reversed))}

\* A request with a limit of zero has none.
LimitLeft(s) == \A r \in s.request : r.rows_limit > 0 => s.left > 0
HasNext(s) == Unsent(s) # {} /\ LimitLeft(s)
NextKey(s) ==
  CHOOSE k \in Unsent(s) : \A r \in s.request : \A j \in Unsent(s) \ {k} : Beyond(j, k, r.reversed)

\* The chunks that may come next, each with the stream after it.
ServerChunks(s) ==
  LET key == NextKey(s)
      rowSent == [s EXCEPT !.last = key, !.half = FALSE, !.left = IF @ > 0 THEN @ - 1 ELSE 0]
  IN  CASE ~HasNext(s) -> {}
        [] HasNext(s) /\ ~s.half ->
             {[chunk |-> RowChunk(key, <<key, key>>, 0, "Commit"), after |-> rowSent],
              [chunk |-> RowChunk(key, <<key>>, 2, "None"), after |-> [s EXCEPT !.half = TRUE]]}
        [] HasNext(s) /\ s.half ->
             {[chunk |-> PlainChunk(<<key>>, "Commit"), after |-> rowSent]}
             \cup (IF s.resets < MaxResets
                     THEN {[chunk |-> PlainChunk(<<>>, "Reset"),
                            after |-> [s EXCEPT !.half = FALSE, !.resets = @ + 1]]}
                     ELSE {})

\* The keys a response may mark as scanned.
ServerMarkers(s) ==
  IF s.half THEN {}
  ELSE {k \in ScanKeys \ Table : \A r \in s.request :
          /\ Selects(r, k)
          /\ s.last # NoKey => Beyond(k, s.last, r.reversed)
          /\ \A j \in Unsent(s) : Beyond(j, k, r.reversed)}

-----------------------------------------------------------------------------
Init ==
  /\ original \in Queries
  /\ now = 0 /\ pc = "Idle"
  /\ attempts = 0 /\ rows_returned = 0 /\ progress = NoKey
  /\ merger = NewMerger(original.reversed)
  /\ active = NoAttempt /\ server = NoStream
  /\ wake = 0 /\ outgoing = NoItem
  /\ sent = <<>> /\ taken = 0 /\ receiver = TRUE
  /\ result = "Pending"
  /\ telemetry = NewOperation

\* An item in the channel that nobody has taken keeps its slot.
HasCapacity == Len(sent) - taken < StreamBuffer

\* The attempt is over and its stream is dropped.
DropStream == active' = NoAttempt /\ server' = NoStream

\* The operation is over and nothing is left to send.
Stop(t) ==
  /\ pc' = "Done"
  /\ telemetry' = t
  /\ UNCHANGED <<wake, outgoing, result>>

\* open, or the merger, returned an error: it goes to the caller as the last
\* item of the stream, or as what `start` returns when there is no stream yet.
Fail(t, error) ==
  /\ telemetry' = t
  /\ IF Spawned
       THEN pc' = "Terminating" /\ outgoing' = ErrorItem(error) /\ UNCHANGED result
       ELSE pc' = "Done" /\ result' = error /\ UNCHANGED outgoing
  /\ UNCHANGED wake

\* The second half of the loop of open: send the request for what is left.
BeginAttempt ==
  LET request == ResumeRequest(original, progress, rows_returned)
      timeout == Min({Deadlines.attempt_timeout, Deadline - now})
  IN  \/ /\ request = {}
         /\ Stop(FinishOperation(telemetry, "Ok", rows_returned))
         /\ UNCHANGED <<attempts, rpc>>
      \/ /\ request # {} /\ now >= Deadline
         /\ Fail(FinishOperation(telemetry, "DeadlineExceeded", rows_returned), "ReadDeadlineExceeded")
         /\ UNCHANGED <<attempts, rpc>>
      \/ /\ request # {} /\ now < Deadline
         /\ attempts' = attempts + 1
         /\ active' = [NoAttempt EXCEPT !.deadline = now + timeout]
         /\ \E r \in request : server' = Opened(r)
         /\ telemetry' = StartAttempt(telemetry)
         /\ pc' = "Connecting"
         /\ UNCHANGED <<wake, outgoing, result>>

\* Faulty variant: neither the attempts nor the deadline are counted.
ReopenAlways(t, code, retryInfo) ==
  \/ ~IsRetryable(code) /\ Fail(FinishOperation(t, code, rows_returned), "ReadRows")
  \/ /\ IsRetryable(code)
     /\ \E delay \in RetryDelays(RetryPolicy, attempts, retryInfo) : wake' = now + delay
     /\ telemetry' = ScheduleRetry(t)
     /\ pc' = "Backoff"
     /\ UNCHANGED <<outgoing, result>>

\* The first half: a failed attempt ends the operation or schedules a retry.
\* t is the telemetry once the attempt is finished.
Reopen(t, code, retryInfo) ==
  LET expired == FinishOperation(t, "DeadlineExceeded", rows_returned)
      retryable == IsRetryable(code) /\ attempts < RetryPolicy.max_attempts
  IN  \/ now >= Deadline /\ Fail(expired, "ReadDeadlineExceeded")
      \/ /\ now < Deadline /\ ~retryable
         /\ Fail(FinishOperation(t, code, rows_returned), "ReadRows")
      \/ /\ now < Deadline /\ retryable
         /\ \E delay \in RetryDelays(RetryPolicy, attempts, retryInfo) :
              \/ delay >= Deadline - now /\ Fail(expired, "ReadDeadlineExceeded")
              \/ /\ delay < Deadline - now
                 /\ telemetry' = ScheduleRetry(t)
                 /\ wake' = now + delay
                 /\ pc' = "Backoff"
                 /\ UNCHANGED <<outgoing, result>>

-----------------------------------------------------------------------------
(* Opening a stream.                                                       *)

Start ==
  /\ pc = "Idle"
  /\ BeginAttempt
  /\ UNCHANGED <<original, now, scan, channel>>

Wake ==
  /\ pc = "Backoff" /\ now >= wake
  /\ BeginAttempt
  /\ UNCHANGED <<original, now, scan, channel>>

\* The first stream that opens is handed to the caller and the task spawned.
Connected ==
  /\ pc = "Connecting"
  /\ pc' = "Streaming" /\ result' = "Stream"
  /\ UNCHANGED <<original, now, attempts, scan, rpc, wake, outgoing, channel, telemetry>>

ConnectFails(code, retryInfo) ==
  /\ pc = "Connecting"
  /\ Reopen(FinishAttempt(telemetry, code, 0), code, retryInfo)
  /\ DropStream
  /\ UNCHANGED <<original, now, attempts, scan, channel>>

\* Faulty variant: the call is awaited without a timeout.
ConnectNeverTimesOut == FALSE

ConnectTimesOut ==
  /\ pc = "Connecting" /\ now >= active.deadline
  /\ Reopen(FinishAttempt(telemetry, "DeadlineExceeded", 0), "DeadlineExceeded", 0)
  /\ DropStream
  /\ UNCHANGED <<original, now, attempts, scan, channel>>

-----------------------------------------------------------------------------
(* Reading the stream.                                                     *)

\* A response whose chunks break the protocol ends the operation.
Invalid(t) ==
  /\ Fail(FinishOperation(FinishAttempt(t, "Unknown", active.rows), "Unknown", rows_returned'),
          "InvalidReadRowsResponse")
  /\ DropStream

\* A response arrives; its scan marker, if it has one, is taken first.
ReceiveMarker(key) ==
  LET outcome == ScanMarker(merger, key)
      responded == FirstResponse(telemetry)
  IN  /\ pc = "Streaming"
      /\ rows_returned' = rows_returned
      /\ merger' = outcome.merger
      /\ IF outcome.issue # "None"
           THEN Invalid(responded) /\ UNCHANGED progress
           ELSE /\ pc' = "Handling" /\ telemetry' = responded
                /\ progress' = key
                /\ active' = [active EXCEPT !.before = rows_returned]
                /\ server' = [server EXCEPT !.last = key]
                /\ UNCHANGED <<wake, outgoing, result>>
      /\ UNCHANGED <<original, now, attempts, channel>>

\* Chunk `next` is pushed; t and a are the trackers and the attempt by then.
HandleChunk(next, t, a) ==
  LET outcome == PushChunk(merger, next.chunk)
  IN  /\ merger' = outcome.merger
      /\ \/ /\ outcome.issue # "None"
            /\ rows_returned' = rows_returned
            /\ Invalid(t)
            /\ UNCHANGED progress
         \/ /\ outcome.issue = "None" /\ outcome.row = {}
            /\ pc' = "Handling"
            /\ telemetry' = t /\ active' = a /\ server' = next.after
            /\ UNCHANGED <<rows_returned, progress, outgoing, wake, result>>
         \/ \E row \in outcome.row :
              /\ rows_returned' = rows_returned + 1
              /\ progress' = row.key
              /\ outgoing' = RowItem(row)
              /\ pc' = "Sending"
              /\ telemetry' = t /\ active' = a /\ server' = next.after
              /\ UNCHANGED <<wake, result>>
      /\ UNCHANGED <<original, now, attempts, channel>>

\* A response without a marker arrives and its first chunk is handled.
ReceiveChunk ==
  /\ pc = "Streaming"
  /\ \E next \in ServerChunks(server) :
       HandleChunk(next, FirstResponse(telemetry), [active EXCEPT !.before = rows_returned])

\* The response in hand has a further chunk.
NextChunk ==
  /\ pc = "Handling"
  /\ \E next \in ServerChunks(server) : HandleChunk(next, telemetry, active)

\* send(row).await: it waits for a free slot, with no deadline of its own.
SendRow ==
  /\ pc = "Sending" /\ receiver /\ HasCapacity
  /\ sent' = Append(sent, outgoing)
  /\ outgoing' = NoItem
  /\ pc' = "Handling"
  /\ UNCHANGED <<original, now, attempts, scan, rpc, wake, taken, receiver, result, telemetry>>

SendFails ==
  /\ pc = "Sending" /\ ~receiver
  /\ outgoing' = NoItem
  /\ pc' = "Done"
  /\ telemetry' = FinishOperation(FinishAttempt(telemetry, "Cancelled", active.rows),
                                  "Cancelled", rows_returned)
  /\ DropStream
  /\ UNCHANGED <<original, now, attempts, scan, wake, channel, result>>

\* The response is used up: its rows are counted and the limit is checked.
EndResponse ==
  LET rows == active.rows + (rows_returned - active.before)
  IN  /\ pc = "Handling"
      /\ IF LimitReached(original, rows_returned)
           THEN /\ Stop(FinishOperation(FinishAttempt(telemetry, "Ok", rows), "Ok", rows_returned))
                /\ DropStream
           ELSE /\ pc' = "Streaming"
                /\ active' = [active EXCEPT !.rows = rows, !.before = 0]
                /\ UNCHANGED <<server, wake, outgoing, result, telemetry>>
      /\ UNCHANGED <<original, now, attempts, scan, channel>>

\* The server has returned everything and closes the stream with OK.
StreamEnds ==
  LET t == FinishAttempt(telemetry, "Ok", active.rows)
  IN  /\ pc = "Streaming" /\ ~HasNext(server)
      /\ IF FinishStream(merger).issue # "None"
           THEN Fail(FinishOperation(t, "Unknown", rows_returned), "InvalidReadRowsResponse")
           ELSE Stop(FinishOperation(t, "Ok", rows_returned))
      /\ DropStream
      /\ UNCHANGED <<original, now, attempts, scan, channel>>

StreamFails(code, retryInfo) ==
  /\ pc = "Streaming"
  /\ Reopen(FinishAttempt(telemetry, code, active.rows), code, retryInfo)
  /\ merger' = DiscardPartial(merger)
  /\ DropStream
  /\ UNCHANGED <<original, now, attempts, rows_returned, progress, channel>>

\* timeout_at polls the stream before the clock, so a message that is there is
\* still received after the deadline.
StreamTimesOut ==
  /\ pc = "Streaming" /\ now >= active.deadline
  /\ Reopen(FinishAttempt(telemetry, "DeadlineExceeded", active.rows), "DeadlineExceeded", 0)
  /\ merger' = DiscardPartial(merger)
  /\ DropStream
  /\ UNCHANGED <<original, now, attempts, rows_returned, progress, channel>>

SendTerminal ==
  /\ pc = "Terminating"
  /\ \/ receiver /\ HasCapacity /\ sent' = Append(sent, outgoing)
     \/ ~receiver /\ UNCHANGED sent
  /\ outgoing' = NoItem
  /\ pc' = "Done"
  /\ UNCHANGED <<original, now, attempts, scan, rpc, wake, taken, receiver, result, telemetry>>

-----------------------------------------------------------------------------
(* The caller and the clock.                                               *)

\* Faulty variant: a backoff or a call in progress is not interrupted.
CancelStreaming ==
  /\ pc = "Streaming" /\ ~receiver
  /\ Stop(FinishOperation(FinishAttempt(telemetry, "Cancelled", active.rows),
                          "Cancelled", rows_returned))
  /\ DropStream
  /\ UNCHANGED <<original, now, attempts, scan, channel>>

\* The task notices a dropped stream at each await but the sends.
Cancel ==
  /\ pc \in {"Connecting", "Backoff", "Streaming"} /\ Spawned /\ ~receiver
  /\ Stop(FinishOperation(FinishAttempt(telemetry, "Cancelled", active.rows),
                          "Cancelled", rows_returned))
  /\ DropStream
  /\ UNCHANGED <<original, now, attempts, scan, channel>>

\* The caller drops the future of `start`; the trackers' Drop reports it.
DropStart ==
  /\ pc \in {"Connecting", "Backoff"} /\ ~Spawned
  /\ pc' = "Done" /\ result' = "Dropped"
  /\ telemetry' = DropTrackers(telemetry)
  /\ DropStream
  /\ UNCHANGED <<original, now, attempts, scan, wake, outgoing, channel>>

Take ==
  /\ receiver /\ taken < Len(sent)
  /\ taken' = taken + 1
  /\ UNCHANGED <<original, now, pc, attempts, scan, rpc, wake, outgoing, sent, receiver, result, telemetry>>

DropStreamHandle ==
  /\ Spawned /\ receiver
  /\ receiver' = FALSE
  /\ UNCHANGED <<original, now, pc, attempts, scan, rpc, wake, outgoing, sent, taken, result, telemetry>>

\* Past the operation's deadline every comparison with the clock has settled.
Tick ==
  /\ now < Deadline /\ pc \notin {"Idle", "Done"}
  /\ now' = now + 1
  /\ UNCHANGED <<original, pc, attempts, scan, rpc, wake, outgoing, channel, result, telemetry>>

Operation ==
  \/ Start \/ Wake \/ Connected
  \/ \E code \in Codes, info \in RetryInfos : ConnectFails(code, info) \/ StreamFails(code, info)
  \/ ConnectTimesOut \/ StreamTimesOut
  \/ \E key \in ServerMarkers(server) : ReceiveMarker(key)
  \/ ReceiveChunk \/ NextChunk \/ EndResponse \/ StreamEnds
  \/ SendRow \/ SendFails \/ SendTerminal
  \/ Cancel

Next == Operation \/ DropStart \/ Take \/ DropStreamHandle \/ Tick

Spec == Init /\ [][Next]_vars

\* The task is polled whenever one of its own steps can run.  Nothing is
\* assumed of the server: it may stay silent for ever.
Client ==
  \/ Start \/ Wake \/ ConnectTimesOut \/ StreamTimesOut \/ EndResponse
  \/ SendRow \/ SendFails \/ SendTerminal \/ Cancel
ClientSpec == Spec /\ WF_vars(Client)

\* A caller that keeps taking items, and a clock that runs.
ConsumerFairness == WF_vars(Tick) /\ WF_vars(Take)

-----------------------------------------------------------------------------
\* What a caller should see of request o: the selected rows in the direction of
\* the query, up to its limit, each with the content the server holds.
Selected(o) == {k \in Table : Selects(o, k)}
Before(o, k) == {j \in Selected(o) : Beyond(k, j, o.reversed)}
NthKey(o, n) == CHOOSE k \in Selected(o) : Cardinality(Before(o, k)) = n - 1
RowCount(o) ==
  IF o.rows_limit = 0 \/ Cardinality(Selected(o)) < o.rows_limit
    THEN Cardinality(Selected(o)) ELSE o.rows_limit
FirstItems(o, count) == [n \in 1..count |-> RowItem(ServerRow(NthKey(o, n)))]
ExpectedItems == FirstItems(original, RowCount(original))

\* The items before the error, if there is one: it can only be the last item.
RowsOf(items) == IF items # <<>> /\ Last(items).error # "None" THEN Front(items) ELSE items
RowsSent == RowsOf(sent)

\* Whatever fails and is resumed, the rows in the stream are a prefix of what
\* the query selects: none skipped, repeated, reordered, past the limit, or put
\* together from pieces of two attempts (run, handle_response, open).
RowsExact == IsPrefix(RowsSent, ExpectedItems)

\* A stream that ends without an error item has delivered every row of the
\* query; nothing is lost in silence.
CompleteUnlessError ==
  (pc = "Done" /\ Spawned /\ receiver /\ RowsSent = sent) => sent = ExpectedItems

StreamStatus ==
  CASE pc # "Done" -> "Open"
    [] pc = "Done" /\ ~Spawned -> IF result = "Dropped" THEN "Abandoned" ELSE "Failed"
    [] pc = "Done" /\ Spawned ->
         IF RowsSent # sent THEN "Failed"
         ELSE IF telemetry.finished[1].code = "Ok" THEN "Complete" ELSE "Abandoned"

Promised == INSTANCE RowStream
              WITH expected <- ExpectedItems, delivered <- RowsSent, status <- StreamStatus

\* The operation implements the abstract row stream: retries, resumption,
\* buffering and deadlines stay invisible, the stream ends once, an error is
\* its last item, and it completes only when every row is in it.
ImplementsRowStream == Promised!Spec

\* A server that follows the protocol is never accused of breaking it, also when
\* a stream broke inside a row and the next one starts that row again.
HonestServerAccepted ==
  \A item \in ToSet(sent) \cup {outgoing} : item.error # "InvalidReadRowsResponse"

\* The key a retry resumes behind is the key the merger orders against, and the
\* rows counted against the limit are the rows sent or being sent.
ProgressConsistent ==
  /\ progress = merger.last_complete_key
  /\ receiver => rows_returned = Len(RowsSent) + (IF pc = "Sending" THEN 1 ELSE 0)

\* An attempt starts only before the operation's deadline, within the attempt
\* budget, with its own deadline inside the operation's, and after a first
\* failure only behind a transient code.
AttemptsBounded ==
  [][attempts' # attempts =>
       /\ attempts' = attempts + 1 /\ attempts' <= RetryPolicy.max_attempts
       /\ now < Deadline /\ active'.deadline \in (now + 1)..Deadline
       /\ \A i \in DOMAIN telemetry.ended : IsRetryable(telemetry.ended[i].code)]_vars

\* Observers see every attempt and the operation finish exactly once, attempts
\* before the operation, on every path: errors, cancellation, dropped futures.
\* The code reported says Ok just when the stream ends without an error.
TelemetryBalanced ==
  LET over == pc \in {"Terminating", "Done"}
  IN  /\ telemetry.active <=> pc \in {"Connecting", "Streaming", "Handling", "Sending"}
      /\ Len(telemetry.ended) = attempts - (IF telemetry.active THEN 1 ELSE 0)
      /\ Len(telemetry.finished) = (IF over THEN 1 ELSE 0)
      /\ over => telemetry.finished[1].attempts = attempts
      /\ (pc = "Done" /\ Spawned /\ receiver) =>
           (telemetry.finished[1].code = "Ok" <=> RowsSent = sent)

\* Dropping the stream ends the operation, wherever it waits and whatever the
\* server does; neither the clock nor the server is needed for it, and no further
\* row either (run, open: sender.closed()).
DropEndsOperation == (Spawned /\ ~receiver) ~> (pc = "Done")

\* With a caller that keeps taking rows, a read ends even if the server never
\* answers: by the deadlines, or by running out of attempts.
ReadTerminates == ConsumerFairness => <>(pc = "Done")

-----------------------------------------------------------------------------
(* What the documentation of OperationFinished says.                       *)

\* OperationFinished.retries: "Extra RPC attempts after initial requests."
RetriesAreExtraAttempts ==
  \A i \in DOMAIN telemetry.finished :
    telemetry.finished[i].retries = telemetry.finished[i].attempts - 1
=============================================================================
