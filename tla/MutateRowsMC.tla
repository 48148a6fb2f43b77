----------------------------- MODULE MutateRowsMC -----------------------------
(* Small instances of MutateRows for TLC.                                  *)
EXTENDS MutateRows

Entry(safe) == [bytes |-> 10, mutations |-> 1, retry_safe |-> safe]
\* A batch whose second entry alone may be retried, so that its place in the
\* retry differs from its place in the batch, and a batch of one more entry.
MCEntries == <<Entry(FALSE), Entry(TRUE), Entry(TRUE)>>
MCPolicy == [max_entries_per_request |-> 2, max_request_bytes |-> 100, max_mutations |-> 10,
             max_in_flight_requests |-> 2]
\* One request at a time: the second batch waits for the first.
MCPolicySerial == [MCPolicy EXCEPT !.max_in_flight_requests = 1]
\* All entries in one batch, which may be retried twice.
MCPolicyOne == [MCPolicy EXCEPT !.max_entries_per_request = 3]
MCRetry == [max_attempts |-> 2, initial_backoff |-> 1, max_backoff |-> 1, multiplier |-> 1, jitter |-> "Full"]
MCRetryThree == [MCRetry EXCEPT !.max_attempts = 3]
MCDeadlines == [operation_timeout |-> 2, attempt_timeout |-> 1]
MCDeadlinesThree == [MCDeadlines EXCEPT !.operation_timeout = 3]
MCFailures == {[code |-> "Unavailable", info |-> 0], [code |-> "Internal", info |-> 0]}
\* The service may also ask for a delay.
MCFailuresInfo == MCFailures \cup {[code |-> "Unavailable", info |-> 1]}
=============================================================================
