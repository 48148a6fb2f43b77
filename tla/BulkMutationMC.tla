---------------------------- MODULE BulkMutationMC ----------------------------
(* An instance of BulkMutation.  The lengths of the changes put entries on   *)
(* both sides of the one-to-two byte boundary of a varint, and requests on   *)
(* both sides of the byte target.                                            *)
EXTENDS BulkMutation

MCBytesOf == [SetCell |-> 62, DeleteFromColumn |-> 63, DeleteFromFamily |-> 120,
              DeleteFromRow |-> 4, AddToCell |-> 121, MergeToCell |-> 303]

MCRequested == [max_entries_per_request |-> 2, max_request_bytes |-> 201, max_mutations |-> 3,
                max_in_flight_requests |-> 1]

MCTimestamps == {-1, 1000, 1001, 2000}
MCClocks == {-1, 1, 3, 6}

MCProtos ==
  {NoChange, Change("SetCell", "f", "q", ServerTime, NoMicros, 1),
   Change("AddToCell", "g", "s", 0, NoMicros, 1), Change("MergeToCell", "g", "s", 0, NoMicros, 1)}

Retries == [max_attempts |-> 2, initial_backoff |-> 1, max_backoff |-> 2, multiplier |-> 1, jitter |-> "Full"]
Timeouts == [operation_timeout |-> 2, attempt_timeout |-> 1, representable |-> TRUE]
Good == [retry |-> Retries, deadlines |-> Timeouts, batch |-> MCRequested]
MCOptions ==
  {Good, [Good EXCEPT !.retry.max_attempts = 0], [Good EXCEPT !.retry.initial_backoff = 0],
   [Good EXCEPT !.retry.max_backoff = 0], [Good EXCEPT !.retry.initial_backoff = 3],
   [Good EXCEPT !.retry.multiplier = 0], [Good EXCEPT !.deadlines.operation_timeout = 0],
   [Good EXCEPT !.deadlines.attempt_timeout = 0], [Good EXCEPT !.deadlines.representable = FALSE],
   [Good EXCEPT !.batch.max_entries_per_request = 0], [Good EXCEPT !.batch.max_request_bytes = 0],
   [Good EXCEPT !.batch.max_in_flight_requests = 0]}

\* Versions a row may already hold: at a timestamp a change names and at
\* another one, and the aggregate.
Version(family, qualifier, at) == [family |-> family, qualifier |-> qualifier, at |-> at, value |-> 7]
MCRows == {{}, {Version("f", "q", 1000), Version("f", "q", 2000), Version("g", "s", 0)}}
=============================================================================
