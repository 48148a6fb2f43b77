------------------------------ MODULE ReadRowsMC ------------------------------
(* Small instances of ReadRows for TLC.                                    *)
EXTENDS ReadRows

Closed(key) == [kind |-> "Closed", key |-> key]
Request(keys, ranges, limit, rev) ==
  [rows |-> IF keys = {} /\ ranges = {} THEN {} ELSE {[row_keys |-> keys, row_ranges |-> ranges]},
   rows_limit |-> limit, reversed |-> rev]
From(start, end) == [start_key |-> start, end_key |-> end]

\* The whole table, up to a limit and without, and overlapping keys and ranges;
\* with a limit and without one in both directions.
MCQueries ==
  {Request({}, {}, 2, rev) : rev \in BOOLEAN}
  \cup {Request({}, {}, 0, FALSE), Request({1, 3}, {From(Open(1), Closed(3))}, 0, TRUE)}
MCOneQuery == {Request({}, {}, 0, FALSE)}
\* A range whose upper bound is the empty key, which leaves it open.
MCEmptyEnd == {Request({}, {From(Closed(1), Open(EmptyKey))}, 0, FALSE)}

MCRetry == [max_attempts |-> 3, initial_backoff |-> 1, max_backoff |-> 2, multiplier |-> 2, jitter |-> "Full"]
MCRetryTwo == [MCRetry EXCEPT !.max_attempts = 2, !.jitter = "None"]
MCDeadlines == [operation_timeout |-> 4, attempt_timeout |-> 2]
=============================================================================
