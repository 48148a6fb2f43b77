------------------------------ MODULE Telemetry ------------------------------
(***************************************************************************)
(* The trackers of telemetry.rs for one operation with one attempt at a    *)
(* time.  Spans, metrics and elapsed times are left out; what remains is   *)
(* the stream of events an observer counts on: which attempts and which    *)
(* operation finished, once each, with which code and counts.              *)
(***************************************************************************)
EXTENDS Integers, Sequences

\* Telemetry::operation.  `active` says that an AttemptTracker is unfinished,
\* `ended` and `finished` list the AttemptFinished and OperationFinished events.
NewOperation ==
  [attempts |-> 0, retries |-> 0, active |-> FALSE, responded |-> FALSE,
   ended |-> <<>>, finished |-> <<>>]

StartAttempt(t) ==
  [t EXCEPT !.attempts = @ + 1, !.active = TRUE, !.responded = FALSE]

FirstResponse(t) == [t EXCEPT !.responded = TRUE]

ScheduleRetry(t) == [t EXCEPT !.retries = @ + 1]

\* AttemptTracker::finish; a second call does nothing.
FinishAttempt(t, code, rows) ==
  IF ~t.active THEN t
  ELSE [t EXCEPT !.active = FALSE, !.responded = FALSE,
                 !.ended = Append(@, [code |-> code, rows |-> rows])]

\* OperationTracker::finish; a second call does nothing.
FinishOperation(t, code, rows) ==
  IF t.finished # <<>> THEN t
  ELSE [t EXCEPT !.finished = Append(@, [code |-> code, attempts |-> t.attempts,
                                         retries |-> t.retries, rows |-> rows])]

\* Faulty variant: the attempt is forgotten.
DropOperationOnly(t) == FinishOperation(t, "Cancelled", 0)

\* Trackers dropped unfinished report Cancelled and empty counts.
DropTrackers(t) == FinishOperation(FinishAttempt(t, "Cancelled", 0), "Cancelled", 0)
=============================================================================
