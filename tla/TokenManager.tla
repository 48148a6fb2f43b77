----------------------------- MODULE TokenManager -----------------------------
(***************************************************************************)
(* The access token shared by the clones of a client (auth.rs) and the     *)
(* part of Client::connect that owns it.  One task refreshes the token     *)
(* shortly before it expires; every request reads it.  Times are kept as   *)
(* what is left of them, so that the clock needs no bound.                 *)
(***************************************************************************)
EXTENDS Integers

CONSTANTS
  Margin,        \* REFRESH_MARGIN
  RetryDelay,    \* REFRESH_RETRY_DELAY
  Lifetimes,     \* what a token may have left when the source returns it
  MaxHandles,    \* bound on the clones of the client and its raw clients
  MaxLatency,    \* a healthy source answers within this time ...
  MaxFailures    \* ... and fails at most so often in a row

ASSUME TimesAssumption ==
  /\ Margin \in Nat /\ RetryDelay \in Nat /\ Lifetimes \subseteq Nat
  /\ MaxHandles \in Nat \ {0} /\ MaxLatency \in Nat /\ MaxFailures \in Nat
\* The margin covers the failures a healthy source may have.
ASSUME MarginAssumption ==
  MaxFailures * (MaxLatency + RetryDelay) + MaxLatency < Margin

VARIABLES
  connect,    \* how far Client::connect is
  handles,    \* strong references to the TokenManager
  task,       \* where the refresh task waits
  left,       \* what the current token has left; 0 when expired
  timer,      \* what the task's sleep has left
  elapsed,    \* how long the call to the source has taken
  failures,   \* refreshes failed in a row
  healthy     \* whether the source keeps its bounds in this behaviour

vars == <<connect, handles, task, left, timer, elapsed, failures, healthy>>

Running == task \in {"Sleeping", "Fetching", "Retrying"}

\* duration_since(..).unwrap_or(Duration::ZERO)
Saturating(n) == IF n > 0 THEN n ELSE 0

\* Faulty variant: no margin.
RefreshAtExpiry(life) == life

\* The top of refresh_loop: how long to sleep for a token with `life` left.
RefreshIn(life) == Saturating(life - Margin)

\* authorization(): what a request gets.
Authorization == IF left = 0 THEN "Unauthenticated" ELSE "Bearer"

\* A healthy source returns tokens that outlive the margin.
Usable(life) == healthy => life > Margin

Init ==
  /\ connect = "Token" /\ handles = 0 /\ task = "None"
  /\ left = 0 /\ timer = 0 /\ elapsed = 0 /\ failures = 0
  /\ healthy \in BOOLEAN

\* TokenManager::start: the first token is required, then the task is spawned.
StartOk(life) ==
  /\ connect = "Token" /\ Usable(life)
  /\ connect' = "Channel" /\ handles' = 1
  /\ task' = "Sleeping" /\ left' = life /\ timer' = RefreshIn(life)
  /\ UNCHANGED <<elapsed, failures, healthy>>

StartFails ==
  /\ connect = "Token"
  /\ connect' = "Failed"
  /\ UNCHANGED <<handles, task, left, timer, elapsed, failures, healthy>>

ChannelConnects ==
  /\ connect = "Channel"
  /\ connect' = "Ready"
  /\ UNCHANGED <<handles, task, left, timer, elapsed, failures, healthy>>

\* Faulty variant: the task is left running.
ReleaseOnly ==
  /\ handles > 0
  /\ handles' = handles - 1
  /\ UNCHANGED <<task, left, timer, elapsed, failures, healthy>>

\* Dropping a reference; the last one runs TokenManager::drop, which aborts
\* the task at the await where it is.
Release ==
  /\ handles > 0
  /\ handles' = handles - 1
  /\ task' = IF handles = 1 THEN "Aborted" ELSE task
  /\ UNCHANGED <<left, timer, elapsed, failures, healthy>>

\* Connecting the channel fails, or the caller drops the future of connect.
ChannelFails ==
  /\ connect = "Channel"
  /\ connect' = "Failed"
  /\ Release

CloneClient ==
  /\ connect = "Ready" /\ handles \in 1..(MaxHandles - 1)
  /\ handles' = handles + 1
  /\ UNCHANGED <<connect, task, left, timer, elapsed, failures, healthy>>

DropClient ==
  /\ connect = "Ready"
  /\ Release
  /\ UNCHANGED connect

-----------------------------------------------------------------------------
(* refresh_loop.                                                           *)

Wake ==
  /\ task = "Sleeping" /\ timer = 0
  /\ task' = "Fetching" /\ elapsed' = 0
  /\ UNCHANGED <<connect, handles, left, timer, failures, healthy>>

FetchOk(life) ==
  /\ task = "Fetching" /\ Usable(life)
  /\ task' = "Sleeping" /\ left' = life /\ timer' = RefreshIn(life)
  /\ elapsed' = 0 /\ failures' = 0
  /\ UNCHANGED <<connect, handles, healthy>>

\* The source fails, or its token makes no valid header.  The old token stays.
FetchFails ==
  /\ task = "Fetching" /\ (healthy => failures < MaxFailures)
  /\ task' = "Retrying" /\ timer' = RetryDelay
  /\ elapsed' = 0
  /\ failures' = IF failures < MaxFailures THEN failures + 1 ELSE failures
  /\ UNCHANGED <<connect, handles, left, healthy>>

\* Faulty variant: the loop is not entered again after a failure.
RetryNever == FALSE /\ UNCHANGED vars

\* After the pause the loop computes the sleep from the old token again.
RetryWakes ==
  /\ task = "Retrying" /\ timer = 0
  /\ task' = "Sleeping" /\ timer' = RefreshIn(left)
  /\ UNCHANGED <<connect, handles, left, elapsed, failures, healthy>>

\* Time passes.  With a healthy source and a scheduler that keeps up, not while
\* a timer is due or the source late.
Tick ==
  /\ Running
  /\ healthy => IF task = "Fetching" THEN elapsed < MaxLatency ELSE timer > 0
  /\ left' = Saturating(left - 1) /\ timer' = Saturating(timer - 1)
  /\ elapsed' = IF task = "Fetching" /\ elapsed < MaxLatency THEN elapsed + 1 ELSE elapsed
  /\ UNCHANGED <<connect, handles, task, failures, healthy>>

Next ==
  \/ \E life \in Lifetimes : StartOk(life) \/ FetchOk(life)
  \/ StartFails \/ ChannelConnects \/ ChannelFails \/ CloneClient \/ DropClient
  \/ Wake \/ FetchFails \/ RetryWakes \/ Tick

Spec == Init /\ [][Next]_vars

\* The task is polled when its timer fires, the clock runs, the source answers
\* every call and does not fail for ever.
FairSpec ==
  /\ Spec
  /\ WF_vars(Wake) /\ WF_vars(RetryWakes) /\ WF_vars(Tick)
  /\ SF_vars(\E life \in Lifetimes \ {0} : FetchOk(life))

-----------------------------------------------------------------------------
\* Every variable holds a value of its type; sleeps are never negative.
TypeOK ==
  /\ connect \in {"Token", "Channel", "Ready", "Failed"}
  /\ handles \in 0..MaxHandles
  /\ task \in {"None", "Sleeping", "Fetching", "Retrying", "Aborted"}
  /\ left \in Nat /\ timer \in Nat
  /\ elapsed \in 0..MaxLatency /\ failures \in 0..MaxFailures
  /\ healthy \in BOOLEAN

\* The refresh task lives as long as someone holds the manager, and no longer:
\* also when connecting the channel fails after it was spawned (Drop).
RefreshOwned == Running <=> handles > 0

\* While the source keeps its bounds, no request is ever refused for want of a
\* token: REFRESH_MARGIN is enough for every slow or failed refresh they allow,
\* each followed by REFRESH_RETRY_DELAY (refresh_loop, authorization).
AlwaysAuthorized == (healthy /\ handles > 0) => Authorization = "Bearer"

\* However long an outage lasts and whatever tokens come, a client whose source
\* answers again gets a token again (refresh_loop).
Recovers == [](handles > 0 => <>(Authorization = "Bearer" \/ handles = 0))
=============================================================================
