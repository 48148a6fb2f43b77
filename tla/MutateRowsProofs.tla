--------------------------- MODULE MutateRowsProofs ---------------------------
(***************************************************************************)
(* Proofs about MutateRows: however the batches interleave and whatever    *)
(* the server answers, every entry is accounted for exactly once, resends  *)
(* are justified, and what the operation reports adds up.                  *)
(***************************************************************************)
EXTENDS MutateRows, SharedLemmas

-----------------------------------------------------------------------------
(* The inductive invariant.                                                *)

Statuses == Failures \cup {OkStatus, NoStatus, Expired, [code |-> "Unknown", info |-> 0]}

\* Entries the server has confirmed, and entries reported as failed.
Confirmed == {i \in Indexes : answer[i] = OkStatus}
FailedIndexes == {f.index : f \in failures}

Typed ==
  /\ now \in 0..Deadline
  /\ pc \in [BatchIds -> {"Waiting", "Calling", "Reading", "Backoff", "Done"}]
  /\ pending \in [BatchIds -> Seq(Indexes)] /\ current \in [BatchIds -> Seq(Indexes)]
  /\ seen \in [BatchIds -> Seq(Failures \cup {OkStatus, NoStatus})]
  /\ deadline \in [BatchIds -> 0..Deadline] /\ wake \in [BatchIds -> 0..Deadline]
  /\ rpc_attempts \in [BatchIds -> 0..RetryPolicy.max_attempts]
  /\ successful \in [BatchIds -> Nat]
  /\ attempts \in [Indexes -> 0..RetryPolicy.max_attempts]
  /\ answer \in [Indexes -> Statuses]
  /\ result \in {"Pending", "Ok", "BulkMutation", "Dropped"}

\* Where a batch waits says which of its queues holds entries; a batch holds
\* entries of its own only, each once.
Queues ==
  \A b \in BatchIds :
    /\ IsInjective(pending[b]) /\ IsInjective(current[b])
    /\ ToSet(pending[b]) \subseteq ToSet(Batches[b]) /\ ToSet(current[b]) \subseteq ToSet(Batches[b])
    /\ pc[b] \in {"Waiting", "Backoff", "Done"} => current[b] = <<>>
    /\ pc[b] \in {"Calling", "Reading", "Done"} => pending[b] = <<>>
    /\ pc[b] = "Reading" => Len(seen[b]) = Len(current[b])

\* Every entry of a batch is in one place: in a queue, confirmed, or failed.
Placed ==
  \A b \in BatchIds : \A i \in ToSet(Batches[b]) :
    /\ i \in ToSet(pending[b]) \/ i \in ToSet(current[b]) \/ i \in Confirmed \/ i \in FailedIndexes
    /\ i \in ToSet(pending[b]) \/ i \in ToSet(current[b]) => i \notin Confirmed /\ i \notin FailedIndexes
    /\ ~(i \in Confirmed /\ i \in FailedIndexes)

\* Confirmed entries are counted, by batch.
Counted == \A b \in BatchIds : successful[b] = Cardinality(Confirmed \cap ToSet(Batches[b]))

\* A failure is of one entry, with the attempts it took; one with a transient
\* status came after the last attempt, or may not be replayed.
FailureOf(f, i) ==
  /\ f.index = i /\ i \in Indexes /\ f.code # "Ok"
  /\ f.cause \in {"EntryStatus", "RpcStatus", "DeadlineExceeded", "InvalidResponse"}
  /\ (f.cause \in {"EntryStatus", "RpcStatus"} /\ Entries[i].retry_safe /\ IsMutateRetryable(f.code))
       => f.attempts = RetryPolicy.max_attempts

\* No entry has failed twice.
Failed ==
  /\ IsFiniteSet(failures)
  /\ \A f \in failures : FailureOf(f, f.index)
  /\ \A f, g \in failures : f.index = g.index => f = g

\* What an entry in a queue has been through.
Tried ==
  \A b \in BatchIds :
    /\ pc[b] = "Waiting" => rpc_attempts[b] = 0
    /\ pc[b] = "Backoff" => rpc_attempts[b] < RetryPolicy.max_attempts
    /\ \A i \in ToSet(pending[b]) :
         /\ attempts[i] = rpc_attempts[b]
         /\ pc[b] = "Backoff" => Entries[i].retry_safe /\ IsMutateRetryable(answer[i].code)
    /\ \A i \in ToSet(current[b]) : attempts[i] = rpc_attempts[b]
    /\ pc[b] \in {"Calling", "Reading"} => rpc_attempts[b] > 0

\* The trackers have seen what happened; a report is made once.
Reported ==
  /\ DOMAIN telemetry = {"attempts", "retries", "open", "finished"}
  /\ telemetry.attempts = Total(rpc_attempts)
  /\ telemetry.open = (IF Running THEN {b \in BatchIds : pc[b] \in {"Calling", "Reading"}} ELSE {})
  /\ Running => telemetry.finished = <<>>
  /\ ~Running => \E report :
       /\ telemetry.finished = <<report>>
       /\ result \in {"Ok", "BulkMutation"} =>
            /\ \A b \in BatchIds : pc[b] = "Done"
            /\ report.successful = Total(successful) /\ report.failed = Cardinality(failures)
            /\ report.code = "Ok" <=> failures = {}

Inv == Typed /\ Queues /\ Placed /\ Counted /\ Failed /\ Tried /\ Reported

-----------------------------------------------------------------------------
(* The batches.                                                            *)

\* Batches are nonempty sequences of indexes, and deal each entry once.
LEMMA BatchFacts ==
  /\ Indexes = 1..Len(Entries) /\ Len(Entries) \in Nat /\ Len(Entries) > 0
  /\ BatchIds = 1..Len(Batches) /\ Len(Batches) \in Nat /\ Batches \in [BatchIds -> Seq(Indexes)]
  /\ \A b \in BatchIds : Batches[b] \in Seq(Indexes) /\ Batches[b] # <<>> /\ IsInjective(Batches[b])
  /\ \A i \in Indexes : \E b \in BatchIds : i \in ToSet(Batches[b])
  /\ \A b, c \in BatchIds : \A i : i \in ToSet(Batches[b]) /\ i \in ToSet(Batches[c]) => b = c
<1>1. Indexes = 1..Len(Entries) /\ Len(Entries) \in Nat /\ Len(Entries) > 0
  <2>1. Entries \in Seq([bytes : Nat, mutations : Nat, retry_safe : BOOLEAN]) /\ Entries # <<>>
    BY EntriesAssumption
  <2> QED BY <2>1, EmptySeq, LenProperties DEF Indexes
<1> DEFINE P == Batches
<1>2. P = Split(Entries, BaseSize, Policy)
  BY DEF Batches
<1> HIDE DEF P
<1>3. /\ P \in Seq(Seq(1..Len(Entries)))
      /\ \A b \in DOMAIN P : P[b] # <<>> /\ IsInjective(P[b])
      /\ \A i \in 1..Len(Entries) : \E b \in DOMAIN P : i \in ToSet(P[b])
      /\ \A b, c \in DOMAIN P : \A i : i \in ToSet(P[b]) /\ i \in ToSet(P[c]) => b = c
  BY <1>1, <1>2, SplitDeals
<1>4. DOMAIN P = BatchIds
  BY DEF P, BatchIds
<1>5. BatchIds = 1..Len(P) /\ Len(P) \in Nat /\ P \in [BatchIds -> Seq(Indexes)]
  <2>1. P \in Seq(Seq(Indexes))
    BY <1>1, <1>3
  <2> QED BY <1>4, <2>1, LenProperties
<1>6. \A b \in BatchIds : P[b] \in Seq(Indexes) /\ P[b] # <<>> /\ IsInjective(P[b])
  BY <1>3, <1>4, <1>5
<1> QED BY <1>1, <1>3, <1>4, <1>5, <1>6 DEF P

\* The elements of a sequence are the values it takes.
LEMMA ToSetIs ==
  ASSUME NEW s
  PROVE  /\ \A k \in DOMAIN s : s[k] \in ToSet(s)
         /\ \A i \in ToSet(s) : \E k \in DOMAIN s : s[k] = i
BY DEF ToSet

\* An injective sequence takes as many values at some positions as there are
\* positions.
LEMMA InjectiveCount ==
  ASSUME NEW S, NEW s \in Seq(S), IsInjective(s), NEW P \in SUBSET DOMAIN s,
         NEW T, T = {s[k] : k \in P}
  PROVE  IsFiniteSet(P) /\ IsFiniteSet(T) /\ Cardinality(T) = Cardinality(P)
<1>1. IsFiniteSet(DOMAIN s)
  <2>1. DOMAIN s = 1..Len(s) /\ Len(s) \in Nat
    BY LenProperties
  <2> QED BY <2>1, FS_Interval
<1>2. IsFiniteSet(P)
  BY <1>1, FS_Subset
<1> DEFINE f == [k \in P |-> s[k]]
<1>3. f \in Bijection(P, T)
  BY DEF Bijection, Injection, Surjection, IsInjective
<1>4. ExistsBijection(P, T)
  BY <1>3 DEF ExistsBijection
<1> QED BY <1>2, <1>4, FS_Bijection

\* The same, as a formula to instantiate.
LEMMA InjectiveCard ==
  \A S : \A s \in Seq(S) : \A P \in SUBSET DOMAIN s : IsInjective(s) =>
    IsFiniteSet(P) /\ \A T : T = {s[k] : k \in P} => Cardinality(T) = Cardinality(P)
<1> SUFFICES ASSUME NEW S, NEW s \in Seq(S), NEW P \in SUBSET DOMAIN s, IsInjective(s)
             PROVE  IsFiniteSet(P) /\ \A T : T = {s[k] : k \in P} => Cardinality(T) = Cardinality(P)
  OBVIOUS
<1>1. ASSUME NEW T, T = {s[k] : k \in P} PROVE IsFiniteSet(P) /\ Cardinality(T) = Cardinality(P)
  <2>1. IsFiniteSet(P)
    BY InjectiveCount
  <2> DEFINE f == [k \in P |-> s[k]]
  <2>2. f \in Bijection(P, T)
    BY <1>1 DEF Bijection, Injection, Surjection, IsInjective
  <2>3. ExistsBijection(P, T)
    BY <2>2 DEF ExistsBijection
  <2> QED BY <2>1, <2>3, FS_Bijection
<1> QED BY <1>1, Zenon

\* The elements of an injective sequence are as many as it is long.
LEMMA InjectiveLen ==
  ASSUME NEW S, NEW s \in Seq(S), IsInjective(s)
  PROVE  IsFiniteSet(ToSet(s)) /\ Cardinality(ToSet(s)) = Len(s)
<1>1. DOMAIN s = 1..Len(s) /\ Len(s) \in Nat
  BY LenProperties
<1>2. Cardinality(DOMAIN s) = Len(s)
  <2>1. 1 \in Int /\ Len(s) \in Int
    BY <1>1
  <2>2. Cardinality(1..Len(s)) = IF 1 > Len(s) THEN 0 ELSE Len(s) - 1 + 1
    BY <2>1, FS_Interval
  <2> QED BY <1>1, <2>2
<1>3. ToSet(s) = {s[k] : k \in DOMAIN s}
  BY DEF ToSet
<1> QED BY <1>2, <1>3, InjectiveCount

\* Kept pushes the chosen elements, each once.
LEMMA KeptElements ==
  ASSUME NEW S, NEW s \in Seq(S), IsInjective(s), NEW positions \in SUBSET DOMAIN s,
         NEW left, left = Kept(s, positions)
  PROVE  left \in Seq(S) /\ IsInjective(left) /\ ToSet(left) = {s[k] : k \in positions}
<1> DEFINE L == Len(s)
           Turn(g, n) == IF n = 0 THEN <<>>
                         ELSE IF n \in positions THEN Append(g[n - 1], s[n]) ELSE g[n - 1]
           So(N) == \E g : g = [n \in 0..N |-> Turn(g, n)]
           kept == CHOOSE g : g = [n \in 0..L |-> Turn(g, n)]
<1>1. L \in Nat /\ DOMAIN s = 1..L
  BY LenProperties
<1> HIDE DEF L
<1>2. So(L)
  <2>1. So(0)
    <3> DEFINE g == [n \in 0..0 |-> <<>>]
    <3>1. g = [n \in 0..0 |-> Turn(g, n)]
      OBVIOUS
    <3> QED BY <3>1
  <2>2. ASSUME NEW N \in 0..L, So(N), N < L PROVE So(N + 1)
    <3>1. PICK g : g = [n \in 0..N |-> Turn(g, n)]
      BY <2>2
    <3> DEFINE M == N + 1
               new == IF M \in positions THEN Append(g[N], s[M]) ELSE g[N]
    <3>2. M \in Nat /\ M # 0 /\ M - 1 = N /\ \A n \in 0..M : n = M \/ n \in 0..N
      OBVIOUS
    <3> HIDE DEF M, new
    <3> DEFINE h == [n \in 0..M |-> IF n = M THEN new ELSE g[n]]
    <3>3. \A n \in 0..N : n \in 0..M /\ n # M /\ h[n] = g[n]
      BY DEF M
    <3>4. \A n \in 0..M : h[n] = Turn(h, n)
      <4>1. ASSUME NEW n \in 0..N PROVE h[n] = Turn(h, n)
        <5>1. h[n] = Turn(g, n)
          BY <3>1, <3>3
        <5>2. n # 0 => n - 1 \in 0..N
          OBVIOUS
        <5> QED BY <3>3, <5>1, <5>2
      <4>2. h[M] = Turn(h, M)
        <5>1. h[M] = new /\ h[N] = g[N]
          BY <3>2, <3>3
        <5> HIDE DEF h
        <5> QED BY <3>2, <5>1 DEF new
      <4> QED BY <3>2, <4>1, <4>2
    <3>5. h = [n \in 0..M |-> Turn(h, n)]
      <4>1. h = [n \in 0..M |-> h[n]]
        OBVIOUS
      <4> HIDE DEF h
      <4> QED BY <3>4, <4>1
    <3> HIDE DEF h
    <3> QED BY <3>5 DEF M
  <2> DEFINE Good == {N \in 0..L : So(N)}
  <2> HIDE DEF So
  <2>3. 0 \in Good
    BY <1>1, <2>1
  <2>4. \A N \in 0..L : N \in Good /\ N < L => N + 1 \in Good
    BY <1>1, <2>2
  <2>5. \A N \in 0..L : N \in Good
    <3> HIDE DEF Good
    <3> QED BY <1>1, <2>3, <2>4, UpTo
  <2> QED BY <1>1, <2>5
<1>3. kept = [n \in 0..L |-> Turn(kept, n)]
  BY <1>2
<1>4. left = kept[L]
  BY DEF Kept, L
<1> HIDE DEF kept
<1> DEFINE Right(t, n) == /\ t \in Seq(S) /\ IsInjective(t)
                          /\ ToSet(t) = {s[k] : k \in {j \in positions : j <= n}}
           Good == {n \in 0..L : Right(kept[n], n)}
<1>5. Right(kept[0], 0)
  <2>1. kept[0] = <<>>
    BY <1>1, <1>3
  <2>2. ToSet(<<>>) = {} /\ IsInjective(<<>>)
    BY DEF ToSet, IsInjective
  <2>3. \A j \in positions : ~(j <= 0)
    BY <1>1
  <2> QED BY <2>1, <2>2, <2>3
<1>6. ASSUME NEW N \in 0..L, Right(kept[N], N), N < L PROVE Right(kept[N + 1], N + 1)
  <2> DEFINE M == N + 1
             t == kept[N]
             u == kept[M]
             e == s[M]
  <2>1. M \in 0..L /\ M # 0 /\ M - 1 = N /\ M \in 1..L
    BY <1>1, <1>6
  <2>2. u = IF M \in positions THEN Append(t, e) ELSE t
    <3> HIDE DEF M
    <3> QED BY <1>3, <2>1
  <2>3. \A j \in positions : j <= M <=> (j <= N \/ j = M)
    BY <1>1, <2>1
  <2>4. t \in Seq(S) /\ IsInjective(t) /\ ToSet(t) = {s[k] : k \in {j \in positions : j <= N}} /\ e \in S
    BY <1>1, <1>6, <2>1
  <2>5. CASE M \notin positions
    <3>1. {j \in positions : j <= M} = {j \in positions : j <= N}
      BY <2>3, <2>5
    <3>2. Right(u, M)
      <4> HIDE DEF M, t, u, e
      <4> QED BY <2>2, <2>4, <2>5, <3>1
    <3> QED BY <3>2
  <2>6. CASE M \in positions
    <3>1. {j \in positions : j <= M} = {j \in positions : j <= N} \cup {M}
      BY <2>3, <2>6
    <3>2. e \notin ToSet(t)
      <4>1. ASSUME NEW k \in positions, k <= N PROVE s[k] # e
        <5>1. k \in DOMAIN s /\ M \in DOMAIN s /\ k # M
          BY <1>1, <2>1, <4>1
        <5> QED BY <5>1 DEF IsInjective
      <4> HIDE DEF M, t, e
      <4> QED BY <2>4, <4>1
    <3> HIDE DEF M, t, u, e
    <3>3. u \in Seq(S) /\ Len(u) = Len(t) + 1 /\ u[Len(t) + 1] = e /\ (\A k \in 1..Len(t) : u[k] = t[k])
          /\ Len(t) \in Nat /\ DOMAIN t = 1..Len(t) /\ DOMAIN u = 1..(Len(t) + 1)
      BY <2>2, <2>4, <2>6
    <3>4. \A x, y \in DOMAIN u : u[x] = u[y] => x = y
      <4>1. \A k \in 1..Len(t) : u[k] # e
        BY <3>2, <3>3, ToSetIs
      <4>2. \A x, y \in 1..Len(t) : u[x] = u[y] => x = y
        BY <2>4, <3>3 DEF IsInjective
      <4>3. \A x \in DOMAIN u : x \in 1..Len(t) \/ x = Len(t) + 1
        BY <3>3
      <4> QED BY <3>3, <4>1, <4>2, <4>3
    <3>5. ToSet(u) = ToSet(t) \cup {e}
      <4>1. ASSUME NEW k \in DOMAIN u PROVE u[k] \in ToSet(t) \cup {e}
        <5>1. k \in 1..Len(t) \/ k = Len(t) + 1
          BY <3>3
        <5> QED BY <3>3, <5>1, ToSetIs
      <4>2. ASSUME NEW k \in DOMAIN t PROVE t[k] \in ToSet(u)
        <5>1. k \in DOMAIN u /\ u[k] = t[k]
          BY <3>3
        <5> QED BY <5>1, ToSetIs
      <4>3. e \in ToSet(u)
        <5>1. Len(t) + 1 \in DOMAIN u
          BY <3>3
        <5> QED BY <3>3, <5>1, ToSetIs
      <4> QED BY <4>1, <4>2, <4>3 DEF ToSet
    <3>6. ToSet(u) = {s[k] : k \in {j \in positions : j <= M}}
      BY <2>4, <3>1, <3>5 DEF e
    <3>7. Right(u, M)
      BY <3>3, <3>4, <3>6 DEF IsInjective
    <3> QED BY <3>7 DEF u, M
  <2> QED BY <2>5, <2>6
<1>7. L \in Good
  <2> HIDE DEF Right
  <2>1. 0 \in Good
    BY <1>1, <1>5
  <2>2. \A n \in 0..L : n \in Good /\ n < L => n + 1 \in Good
    BY <1>1, <1>6
  <2>3. \A n \in 0..L : n \in Good
    <3> HIDE DEF Good
    <3> QED BY <1>1, <2>1, <2>2, UpTo
  <2> QED BY <1>1, <2>3
<1>8. {j \in positions : j <= L} = positions
  BY <1>1
<1> QED BY <1>4, <1>7, <1>8

-----------------------------------------------------------------------------
(* Sums over the batches.                                                  *)

\* Total adds up one by one.
LEMMA TotalIs ==
  ASSUME NEW L \in Nat, NEW count \in [1..L -> Nat]
  PROVE  \E total \in [0..L -> Nat] :
           /\ total[0] = 0 /\ Total(count) = total[L]
           /\ \A n \in 1..L : total[n] = total[n - 1] + count[n]
<1> DEFINE Turn(g, n) == IF n = 0 THEN 0 ELSE g[n - 1] + count[n]
           So(N) == \E g : g = [n \in 0..N |-> Turn(g, n)]
           total == CHOOSE g : g = [n \in 0..L |-> Turn(g, n)]
<1>1. Len(count) = L
  <2>1. count \in Seq(Nat)
    BY SeqDef
  <2> QED BY <2>1, LenProperties
<1>2. So(L)
  <2>1. So(0)
    <3> DEFINE g == [n \in 0..0 |-> 0]
    <3>1. g = [n \in 0..0 |-> Turn(g, n)]
      OBVIOUS
    <3> QED BY <3>1
  <2>2. ASSUME NEW N \in 0..L, So(N), N < L PROVE So(N + 1)
    <3>1. PICK g : g = [n \in 0..N |-> Turn(g, n)]
      BY <2>2
    <3> DEFINE M == N + 1
               new == g[N] + count[M]
    <3>2. M \in Nat /\ M # 0 /\ M - 1 = N /\ \A n \in 0..M : n = M \/ n \in 0..N
      OBVIOUS
    <3> HIDE DEF M, new
    <3> DEFINE h == [n \in 0..M |-> IF n = M THEN new ELSE g[n]]
    <3>3. \A n \in 0..N : n \in 0..M /\ n # M /\ h[n] = g[n]
      BY DEF M
    <3>4. \A n \in 0..M : h[n] = Turn(h, n)
      <4>1. ASSUME NEW n \in 0..N PROVE h[n] = Turn(h, n)
        <5>1. h[n] = Turn(g, n)
          BY <3>1, <3>3
        <5>2. n # 0 => n - 1 \in 0..N
          OBVIOUS
        <5> QED BY <3>3, <5>1, <5>2
      <4>2. h[M] = Turn(h, M)
        <5>1. h[M] = new /\ h[N] = g[N]
          BY <3>2, <3>3
        <5> HIDE DEF h
        <5> QED BY <3>2, <5>1 DEF new
      <4> QED BY <3>2, <4>1, <4>2
    <3>5. h = [n \in 0..M |-> Turn(h, n)]
      <4>1. h = [n \in 0..M |-> h[n]]
        OBVIOUS
      <4> HIDE DEF h
      <4> QED BY <3>4, <4>1
    <3> HIDE DEF h
    <3> QED BY <3>5 DEF M
  <2> DEFINE Good == {N \in 0..L : So(N)}
  <2> HIDE DEF So
  <2>3. 0 \in Good
    BY <2>1
  <2>4. \A N \in 0..L : N \in Good /\ N < L => N + 1 \in Good
    BY <2>2
  <2>5. \A N \in 0..L : N \in Good
    <3> HIDE DEF Good
    <3> QED BY <2>3, <2>4, UpTo
  <2> QED BY <2>5
<1>3. total = [n \in 0..L |-> Turn(total, n)]
  BY <1>2
<1>4. Total(count) = total[L]
  BY <1>1 DEF Total
<1> HIDE DEF total
<1>5. total[0] = 0 /\ \A n \in 1..L : total[n] = total[n - 1] + count[n]
  BY <1>3
<1>6. \A n \in 0..L : total[n] \in Nat
  <2> DEFINE Good == {n \in 0..L : total[n] \in Nat}
  <2>1. 0 \in Good
    BY <1>5
  <2>2. ASSUME NEW n \in 0..L, n \in Good, n < L PROVE n + 1 \in Good
    <3>1. n + 1 \in 1..L /\ n + 1 - 1 = n
      BY <2>2
    <3>2. total[n + 1] = total[n] + count[n + 1] /\ count[n + 1] \in Nat
      BY <1>5, <3>1
    <3> QED BY <2>2, <3>1, <3>2
  <2>3. \A n \in 0..L : n \in Good
    <3> HIDE DEF Good
    <3> QED BY <2>1, <2>2, UpTo
  <2> QED BY <2>3
<1>7. total \in [0..L -> Nat]
  BY <1>3, <1>6
<1> QED BY <1>4, <1>5, <1>7

\* Nothing counted adds up to nothing.
LEMMA TotalZero ==
  ASSUME NEW L \in Nat, NEW count \in [1..L -> Nat], \A b \in 1..L : count[b] = 0
  PROVE  Total(count) = 0
<1>1. PICK total \in [0..L -> Nat] :
        /\ total[0] = 0 /\ Total(count) = total[L]
        /\ \A n \in 1..L : total[n] = total[n - 1] + count[n]
  BY TotalIs
<1> DEFINE Good == {n \in 0..L : total[n] = 0}
<1>2. 0 \in Good
  BY <1>1
<1>3. ASSUME NEW n \in 0..L, n \in Good, n < L PROVE n + 1 \in Good
  <2>1. n + 1 \in 1..L /\ n + 1 - 1 = n
    BY <1>3
  <2>2. total[n + 1] = total[n] + count[n + 1]
    BY <1>1, <2>1
  <2> QED BY <1>3, <2>1, <2>2
<1>4. \A n \in 0..L : n \in Good
  <2> HIDE DEF Good
  <2> QED BY <1>2, <1>3, UpTo
<1> QED BY <1>1, <1>4

\* One more in one batch is one more in total.
LEMMA TotalOneMore ==
  ASSUME NEW L \in Nat, NEW count \in [1..L -> Nat], NEW more \in [1..L -> Nat], NEW c \in 1..L,
         more[c] = count[c] + 1, \A b \in 1..L : b # c => more[b] = count[b]
  PROVE  Total(more) = Total(count) + 1
<1>1. PICK total \in [0..L -> Nat] :
        /\ total[0] = 0 /\ Total(count) = total[L]
        /\ \A n \in 1..L : total[n] = total[n - 1] + count[n]
  BY TotalIs
<1>2. PICK sum \in [0..L -> Nat] :
        /\ sum[0] = 0 /\ Total(more) = sum[L]
        /\ \A n \in 1..L : sum[n] = sum[n - 1] + more[n]
  BY TotalIs
<1> DEFINE Good == {n \in 0..L : sum[n] = IF n < c THEN total[n] ELSE total[n] + 1}
<1>3. 0 \in Good
  BY <1>1, <1>2
<1>4. ASSUME NEW n \in 0..L, n \in Good, n < L PROVE n + 1 \in Good
  <2> DEFINE m == n + 1
  <2>1. m \in 1..L /\ m - 1 = n /\ m \in 0..L
    BY <1>4
  <2>2. n < c <=> m <= c
    OBVIOUS
  <2> HIDE DEF m
  <2>3. sum[m] = sum[n] + more[m] /\ total[m] = total[n] + count[m]
    BY <1>1, <1>2, <2>1
  <2>4. sum[n] \in Nat /\ total[n] \in Nat /\ more[m] \in Nat /\ count[m] \in Nat
    BY <1>1, <1>2, <2>1
  <2>5. sum[n] = IF n < c THEN total[n] ELSE total[n] + 1
    BY <1>4
  <2>6. CASE m = c
    <3>1. n < c /\ ~(m < c) /\ more[m] = count[m] + 1
      BY <2>2, <2>6
    <3> QED BY <2>1, <2>3, <2>4, <2>5, <3>1, SMTT(30) DEF m
  <2>7. CASE m # c
    <3>1. more[m] = count[m] /\ (n < c <=> m < c)
      BY <2>1, <2>2, <2>7, SMTT(30)
    <3>2. sum[m] = IF m < c THEN total[m] ELSE total[m] + 1
      <4>1. CASE n < c
        BY <2>3, <2>4, <2>5, <3>1, <4>1
      <4>2. CASE ~(n < c)
        <5>1. sum[n] = total[n] + 1 /\ ~(m < c)
          BY <2>5, <3>1, <4>2
        <5>2. \A x, y, z \in Nat : (x + 1) + y = z => z = (x + y) + 1
          OBVIOUS
        <5>3. sum[m] = (total[n] + 1) + count[m] /\ sum[m] \in Nat
          BY <2>1, <2>3, <3>1, <5>1
        <5>4. sum[m] = total[m] + 1
          <6> DEFINE x == total[n]
                     y == count[m]
                     z == sum[m]
          <6>1. x \in Nat /\ y \in Nat /\ z \in Nat /\ (x + 1) + y = z /\ total[m] = x + y
            BY <2>3, <2>4, <5>3
          <6> HIDE DEF x, y, z
          <6>2. z = (x + y) + 1
            BY <5>2, <6>1
          <6> QED BY <6>1, <6>2 DEF z
        <5> QED BY <5>1, <5>4
      <4> QED BY <4>1, <4>2
    <3> QED BY <2>1, <3>2 DEF m
  <2> QED BY <2>6, <2>7
<1>5. \A n \in 0..L : n \in Good
  <2> HIDE DEF Good
  <2> QED BY <1>3, <1>4, UpTo
<1> QED BY <1>1, <1>2, <1>5

\* The sizes of disjoint parts add up to the size of the whole.
LEMMA TotalOfParts ==
  ASSUME NEW L \in Nat, NEW U, IsFiniteSet(U), NEW part \in [1..L -> SUBSET U],
         \A b, c \in 1..L : b # c => part[b] \cap part[c] = {},
         NEW count \in [1..L -> Nat], \A b \in 1..L : count[b] = Cardinality(part[b]),
         \A x \in U : \E b \in 1..L : x \in part[b]
  PROVE  Total(count) = Cardinality(U)
<1>1. PICK total \in [0..L -> Nat] :
        /\ total[0] = 0 /\ Total(count) = total[L]
        /\ \A n \in 1..L : total[n] = total[n - 1] + count[n]
  BY TotalIs
<1> DEFINE First(n) == {x \in U : \E b \in 1..n : x \in part[b]}
           Good == {n \in 0..L : total[n] = Cardinality(First(n))}
<1>2. 0 \in Good
  <2>1. First(0) = {}
    OBVIOUS
  <2>2. 0 \in 0..L /\ Cardinality({}) = 0
    BY FS_EmptySet
  <2> HIDE DEF First
  <2> QED BY <1>1, <2>1, <2>2
<1>3. ASSUME NEW n \in 0..L, n \in Good, n < L PROVE n + 1 \in Good
  <2> DEFINE m == n + 1
  <2>1. m \in 1..L /\ m - 1 = n /\ m \in 0..L /\ 1..n \subseteq 1..L /\ m \notin 1..n
        /\ \A b : b \in 1..m <=> (b \in 1..n \/ b = m)
    BY <1>3
  <2> HIDE DEF m
  <2>2. First(m) = First(n) \cup part[m]
    BY <2>1
  <2>3. First(n) \cap part[m] = {}
    BY <2>1
  <2>4. IsFiniteSet(First(n)) /\ IsFiniteSet(part[m])
    <3>1. First(n) \in SUBSET U /\ part[m] \in SUBSET U
      BY <2>1
    <3> HIDE DEF First
    <3> QED BY <3>1, FS_Subset
  <2>5. total[n] = Cardinality(First(n))
    BY <1>3
  <2> HIDE DEF First
  <2>6. Cardinality(First(m)) = Cardinality(First(n)) + Cardinality(part[m])
    <3>1. Cardinality(First(n)) \in Nat /\ Cardinality(part[m]) \in Nat /\ Cardinality({}) = 0
      BY <2>4, FS_CardinalityType, FS_EmptySet
    <3>2. Cardinality(First(n) \cup part[m]) = Cardinality(First(n)) + Cardinality(part[m]) - Cardinality(First(n) \cap part[m])
      BY <2>4, FS_Union
    <3>3. Cardinality(First(n) \cap part[m]) = 0 /\ Cardinality(First(m)) = Cardinality(First(n) \cup part[m])
      BY <2>2, <2>3, <3>1
    <3> QED BY <3>1, <3>2, <3>3
  <2>7. total[m] = total[n] + Cardinality(part[m])
    BY <1>1, <2>1
  <2>8. total[m] = Cardinality(First(m))
    BY <2>5, <2>6, <2>7
  <2> QED BY <2>1, <2>8 DEF m
<1>4. \A n \in 0..L : n \in Good
  <2> HIDE DEF Good
  <2> QED BY <1>2, <1>3, UpTo
<1>5. First(L) = U /\ L \in 0..L
  OBVIOUS
<1> HIDE DEF First
<1> QED BY <1>1, <1>4, <1>5

-----------------------------------------------------------------------------
(* What a step of a batch does to the places of its entries.               *)

\* The statuses of the model differ in their codes.
LEMMA StatusCodes ==
  /\ OkStatus.code = "Ok" /\ NoStatus.code = "None" /\ Expired.code = "DeadlineExceeded"
  /\ OkStatus.info = 0 /\ NoStatus.info = 0 /\ Expired.info = 0
  /\ \A status \in Failures : status.code \notin {"Ok", "None"} /\ status.info \in Nat
  /\ NoStatus # OkStatus /\ Expired # OkStatus /\ Expired # NoStatus
  /\ \A status \in Failures : status # OkStatus /\ status # NoStatus
<1>1. /\ OkStatus.code = "Ok" /\ NoStatus.code = "None" /\ Expired.code = "DeadlineExceeded"
      /\ OkStatus.info = 0 /\ NoStatus.info = 0 /\ Expired.info = 0
  BY DEF OkStatus, NoStatus, Expired
<1>2. \A status \in Failures : status.code \notin {"Ok", "None"} /\ status.info \in Nat
  BY FailuresAssumption
<1> QED BY <1>1, <1>2

\* New failures, one for each of some entries that have not failed yet.
LEMMA FailedGrows ==
  ASSUME Failed, NEW c \in Seq(Indexes), IsInjective(c), NEW K \in SUBSET DOMAIN c, NEW h,
         \A k \in K : c[k] \notin FailedIndexes,
         \A k \in K : FailureOf(h[k], c[k]),
         failures' = failures \cup {h[k] : k \in K}
  PROVE  Failed' /\ FailedIndexes' = FailedIndexes \cup {c[k] : k \in K}
<1> DEFINE N == {h[k] : k \in K}
<1>1. IsFiniteSet(N)
  <2>1. IsFiniteSet(K)
    BY InjectiveCount
  <2> DEFINE f == [k \in K |-> h[k]]
  <2>2. f \in Surjection(K, N)
    BY DEF Surjection
  <2> HIDE DEF f, N
  <2> QED BY <2>1, <2>2, FS_Surjection
<1>2. \A k \in K : c[k] \in Indexes
  BY LenProperties
<1>3. \A f \in failures' : f \in failures \/ \E k \in K : f = h[k]
  OBVIOUS
<1>4. IsFiniteSet(failures')
  <2>1. IsFiniteSet(failures)
    BY DEF Failed
  <2> HIDE DEF N
  <2>2. failures' = failures \cup N
    BY DEF N
  <2>3. IsFiniteSet(failures \cup N)
    BY <1>1, <2>1, FS_Union
  <2> QED BY <2>2, <2>3
<1>5. ASSUME NEW f \in failures' PROVE FailureOf(f, f.index)
  <2>1. CASE f \in failures
    BY <2>1 DEF Failed
  <2>2. CASE \E k \in K : f = h[k]
    <3>1. PICK k \in K : f = h[k]
      BY <2>2
    <3>2. FailureOf(f, c[k]) /\ f.index = c[k]
      BY <3>1 DEF FailureOf
    <3> QED BY <3>2
  <2> QED BY <1>3, <2>1, <2>2
<1>6. ASSUME NEW f \in failures', NEW g \in failures', f.index = g.index PROVE f = g
  <2>1. \A e \in failures : e.index \in FailedIndexes
    BY DEF FailedIndexes
  <2>2. CASE f \in failures /\ g \in failures
    BY <1>6, <2>2 DEF Failed
  <2>3. CASE f \in failures /\ \E k \in K : g = h[k]
    BY <1>6, <2>1, <2>3 DEF FailureOf
  <2>4. CASE g \in failures /\ \E k \in K : f = h[k]
    BY <1>6, <2>1, <2>4 DEF FailureOf
  <2>5. CASE (\E k \in K : f = h[k]) /\ (\E k \in K : g = h[k])
    <3>1. PICK j \in K : f = h[j]
      BY <2>5
    <3>2. PICK k \in K : g = h[k]
      BY <2>5
    <3>3. c[j] = c[k]
      BY <1>6, <3>1, <3>2 DEF FailureOf
    <3>4. j = k
      BY <3>3 DEF IsInjective
    <3> QED BY <3>1, <3>2, <3>4
  <2> QED BY <1>3, <2>2, <2>3, <2>4, <2>5
<1>7. Failed'
  <2>1. (\A f \in failures : FailureOf(f, f.index))'
    BY <1>5
  <2>2. (\A f, g \in failures : f.index = g.index => f = g)'
    BY <1>6
  <2> QED BY <1>4, <2>1, <2>2 DEF Failed
<1>8. FailedIndexes' = FailedIndexes \cup {c[k] : k \in K}
  <2>1. \A k \in K : h[k] \in failures' /\ h[k].index = c[k]
    BY DEF FailureOf
  <2>2. \A f \in failures' : f.index \in FailedIndexes \cup {c[k] : k \in K}
    BY <1>3, <2>1 DEF FailedIndexes
  <2>3. \A f \in failures : f \in failures'
    OBVIOUS
  <2>4. FailedIndexes' = {f.index : f \in failures'}
    BY DEF FailedIndexes
  <2> QED BY <2>1, <2>2, <2>3, <2>4 DEF FailedIndexes
<1> QED BY <1>7, <1>8

\* The queues of a batch hold indexes of the batch, and are finite.
LEMMA BatchFinite ==
  ASSUME NEW b \in BatchIds
  PROVE  /\ IsFiniteSet(ToSet(Batches[b])) /\ Cardinality(ToSet(Batches[b])) = Len(Batches[b])
         /\ ToSet(Batches[b]) \subseteq Indexes
<1>1. Batches[b] \in Seq(Indexes) /\ IsInjective(Batches[b])
  BY BatchFacts
<1>2. ToSet(Batches[b]) \subseteq Indexes
  BY <1>1, LenProperties DEF ToSet
<1> QED BY <1>1, <1>2, InjectiveLen

\* A step moves the entries in the queues of b to new queues, to the confirmed
\* and to the failed ones.
MovedTo(b, Q, C, F) ==
  /\ \A c \in BatchIds : c # b =>
       pending'[c] = pending[c] /\ current'[c] = current[c] /\ successful'[c] = successful[c]
  /\ \A i : i \in ToSet(pending'[b]) \/ i \in ToSet(current'[b]) <=> i \in Q
  /\ Confirmed' = Confirmed \cup C /\ FailedIndexes' = FailedIndexes \cup F
  /\ \A i : i \in ToSet(pending[b]) \/ i \in ToSet(current[b]) <=> i \in Q \/ i \in C \/ i \in F
  /\ Q \cap C = {} /\ Q \cap F = {} /\ C \cap F = {}
  /\ successful'[b] = successful[b] + Cardinality(C)

\* After such a step each entry still has one place, and the count is right.
LEMMA Moves ==
  ASSUME Queues, Placed, Counted, NEW b \in BatchIds, NEW Q, NEW C, NEW F, MovedTo(b, Q, C, F)
  PROVE  Placed' /\ Counted'
<1> USE DEF MovedTo
<1>1. \A i : i \in Q \/ i \in C \/ i \in F => i \in ToSet(Batches[b]) /\ i \notin Confirmed /\ i \notin FailedIndexes
  BY DEF Queues, Placed
<1>2. \A c \in BatchIds : \A i \in ToSet(Batches[c]) : i \in ToSet(Batches[b]) => c = b
  BY BatchFacts
<1>3. ASSUME NEW c \in BatchIds, NEW i \in ToSet(Batches[c])
      PROVE  /\ i \in ToSet(pending'[c]) \/ i \in ToSet(current'[c]) \/ i \in Confirmed' \/ i \in FailedIndexes'
             /\ i \in ToSet(pending'[c]) \/ i \in ToSet(current'[c]) => i \notin Confirmed' /\ i \notin FailedIndexes'
             /\ ~(i \in Confirmed' /\ i \in FailedIndexes')
  <2>1. /\ i \in ToSet(pending[c]) \/ i \in ToSet(current[c]) \/ i \in Confirmed \/ i \in FailedIndexes
        /\ i \in ToSet(pending[c]) \/ i \in ToSet(current[c]) => i \notin Confirmed /\ i \notin FailedIndexes
        /\ ~(i \in Confirmed /\ i \in FailedIndexes)
    BY DEF Placed
  <2>2. CASE c = b
    BY <1>1, <2>1, <2>2
  <2>3. CASE c # b
    <3>1. i \notin Q /\ i \notin C /\ i \notin F
      BY <1>1, <1>2, <2>3
    <3> QED BY <2>1, <2>3, <3>1
  <2> QED BY <2>2, <2>3
<1>4. Placed'
  BY <1>3 DEF Placed
<1>5. ASSUME NEW c \in BatchIds PROVE successful'[c] = Cardinality(Confirmed' \cap ToSet(Batches[c]))
  <2>1. successful[c] = Cardinality(Confirmed \cap ToSet(Batches[c]))
    BY DEF Counted
  <2>2. CASE c = b
    <3> DEFINE D == Confirmed \cap ToSet(Batches[b])
    <3>1. Confirmed' \cap ToSet(Batches[b]) = D \cup C /\ D \cap C = {}
      BY <1>1
    <3>2. IsFiniteSet(D) /\ IsFiniteSet(C)
      <4>1. D \in SUBSET ToSet(Batches[b]) /\ C \in SUBSET ToSet(Batches[b])
        BY <1>1
      <4> HIDE DEF D
      <4> QED BY <4>1, BatchFinite, FS_Subset
    <3> HIDE DEF D
    <3>3. Cardinality(D \cup C) = Cardinality(D) + Cardinality(C) - Cardinality(D \cap C)
      BY <3>2, FS_Union
    <3>4. Cardinality(D \cap C) = 0 /\ Cardinality(D) \in Nat /\ Cardinality(C) \in Nat
      BY <3>1, <3>2, FS_EmptySet, FS_CardinalityType
    <3>5. Cardinality(D \cup C) = Cardinality(D) + Cardinality(C)
      BY <3>3, <3>4
    <3>6. successful[b] = Cardinality(D)
      BY <2>1, <2>2 DEF D
    <3> QED BY <2>2, <3>1, <3>5, <3>6
  <2>3. CASE c # b
    <3>1. Confirmed' \cap ToSet(Batches[c]) = Confirmed \cap ToSet(Batches[c])
      BY <1>1, <1>2, <2>3
    <3> QED BY <2>1, <2>3, <3>1
  <2> QED BY <2>2, <2>3
<1>6. Counted'
  BY <1>5 DEF Counted
<1> QED BY <1>4, <1>6

-----------------------------------------------------------------------------
(* The initial state.                                                      *)

\* The policies of a running operation allow an attempt.
LEMMA PolicyFacts ==
  /\ RetryPolicy.max_attempts \in Nat /\ RetryPolicy.max_attempts > 0
  /\ Deadline \in Nat /\ Deadline > 0
  /\ Deadlines.attempt_timeout \in Nat /\ Deadlines.attempt_timeout > 0
<1>1. /\ RetryPolicy.max_attempts > 0 /\ Deadlines.operation_timeout > 0
      /\ Deadlines.attempt_timeout > 0
  BY PolicyAssumption, ValidPoliciesUsable
<1>2. /\ RetryPolicy.max_attempts \in Nat /\ Deadlines.operation_timeout \in Nat
      /\ Deadlines.attempt_timeout \in Nat
  BY PolicyAssumption
<1> QED BY <1>1, <1>2 DEF Deadline

\* Before the first attempt everything is pending.
LEMMA InitInv == Init => Inv
<1> SUFFICES ASSUME Init PROVE Inv
  OBVIOUS
<1>1. ToSet(<<>>) = {} /\ IsInjective(<<>>)
  BY DEF ToSet, IsInjective
<1>2. \A S : <<>> \in Seq(S)
  BY EmptySeq
<1>3. Typed
  <2>1. now \in 0..Deadline /\ 0 \in 0..Deadline /\ 0 \in 0..RetryPolicy.max_attempts /\ 0 \in Nat
    BY PolicyFacts DEF Init
  <2>2. pending \in [BatchIds -> Seq(Indexes)]
    BY BatchFacts DEF Init
  <2>3. current \in [BatchIds -> Seq(Indexes)] /\ seen \in [BatchIds -> Seq(Failures \cup {OkStatus, NoStatus})]
    BY <1>2 DEF Init
  <2>4. answer \in [Indexes -> Statuses]
    BY DEF Init, Statuses
  <2>5. /\ pc \in [BatchIds -> {"Waiting", "Calling", "Reading", "Backoff", "Done"}]
        /\ deadline \in [BatchIds -> 0..Deadline] /\ wake \in [BatchIds -> 0..Deadline]
        /\ rpc_attempts \in [BatchIds -> 0..RetryPolicy.max_attempts]
        /\ successful \in [BatchIds -> Nat] /\ attempts \in [Indexes -> 0..RetryPolicy.max_attempts]
    BY <2>1 DEF Init
  <2>6. result \in {"Pending", "Ok", "BulkMutation", "Dropped"}
    BY DEF Init
  <2> QED BY <2>1, <2>2, <2>3, <2>4, <2>5, <2>6 DEF Typed
<1>4. ASSUME NEW b \in BatchIds
      PROVE  /\ pending[b] = Batches[b] /\ current[b] = <<>> /\ pc[b] = "Waiting"
             /\ rpc_attempts[b] = 0 /\ successful[b] = 0
  BY DEF Init
<1>5. Queues
  BY <1>1, <1>4, BatchFacts DEF Queues
<1>6. Confirmed = {} /\ FailedIndexes = {}
  BY StatusCodes DEF Init, Confirmed, FailedIndexes
<1>7. Placed
  BY <1>4, <1>6 DEF Placed
<1>8. Counted
  BY <1>4, <1>6, FS_EmptySet DEF Counted
<1>9. Failed
  BY FS_EmptySet DEF Failed, Init
<1>10. Tried
  <2>1. \A b \in BatchIds : \A i \in ToSet(pending[b]) : attempts[i] = 0
    BY <1>4, BatchFinite DEF Init
  <2> QED BY <1>1, <1>4, <2>1 DEF Tried
<1>11. Reported
  <2>1. Total(rpc_attempts) = 0
    <3>1. rpc_attempts \in [1..Len(Batches) -> Nat] /\ \A b \in 1..Len(Batches) : rpc_attempts[b] = 0
      BY <1>4, BatchFacts DEF Init
    <3> QED BY <3>1, BatchFacts, TotalZero
  <2>2. Running /\ {b \in BatchIds : pc[b] \in {"Calling", "Reading"}} = {}
    BY <1>4 DEF Running, Init
  <2>3. /\ DOMAIN telemetry = {"attempts", "retries", "open", "finished"}
        /\ telemetry.attempts = 0 /\ telemetry.open = {} /\ telemetry.finished = <<>>
    BY DEF Init
  <2> QED BY <2>1, <2>2, <2>3 DEF Reported
<1> QED BY <1>3, <1>5, <1>7, <1>8, <1>9, <1>10, <1>11 DEF Inv

-----------------------------------------------------------------------------
(* Steps that move no entry.                                               *)

\* A step that moves no entry leaves the places of the entries as they are.
LEMMA SamePlaces ==
  ASSUME Placed, Counted, Failed, UNCHANGED <<pending, current, successful, answer, failures>>
  PROVE  Placed' /\ Counted' /\ Failed'
<1>1. Confirmed' = Confirmed /\ FailedIndexes' = FailedIndexes
  BY DEF Confirmed, FailedIndexes
<1>2. Placed'
  BY <1>1 DEF Placed
<1>3. Counted'
  BY <1>1 DEF Counted
<1>4. Failed'
  BY DEF Failed
<1> QED BY <1>2, <1>3, <1>4

\* The clock ticks up to the deadline.
LEMMA TickInv == Inv /\ Tick => Inv'
<1> SUFFICES ASSUME Inv, Tick PROVE Inv'
  OBVIOUS
<1>1. Placed' /\ Counted' /\ Failed'
  BY SamePlaces DEF Inv, Tick
<1>2. now' \in 0..Deadline
  BY PolicyFacts DEF Tick, Inv, Typed
<1>3. Typed'
  BY <1>2 DEF Typed, Tick, Inv
<1>4. Queues' /\ Tried'
  BY DEF Queues, Tried, Tick, Inv
<1>5. Reported'
  BY DEF Reported, Running, Tick, Inv
<1> QED BY <1>1, <1>3, <1>4, <1>5 DEF Inv

\* A call is accepted: the stream has no result yet.
LEMMA CallAcceptedInv ==
  ASSUME Inv, NEW b \in BatchIds, CallAccepted(b)
  PROVE  Inv'
<1>1. Placed' /\ Counted' /\ Failed'
  BY SamePlaces DEF Inv, CallAccepted
<1>2. pc[b] = "Calling" /\ Running /\ UNCHANGED result
  BY DEF CallAccepted
<1>3. /\ pc' = [pc EXCEPT ![b] = "Reading"]
      /\ pc \in [BatchIds -> {"Waiting", "Calling", "Reading", "Backoff", "Done"}]
  BY DEF CallAccepted, Inv, Typed
<1>4. pc'[b] = "Reading" /\ \A c \in BatchIds : c # b => pc'[c] = pc[c]
  BY <1>3
<1> DEFINE none == [k \in DOMAIN current[b] |-> NoStatus]
<1>5. /\ none \in Seq(Failures \cup {OkStatus, NoStatus}) /\ Len(none) = Len(current[b])
  <2>1. current[b] \in Seq(Indexes)
    BY DEF Inv, Typed
  <2>2. Len(current[b]) \in Nat /\ DOMAIN current[b] = 1..Len(current[b])
    BY <2>1, LenProperties
  <2>3. none \in [1..Len(current[b]) -> Failures \cup {OkStatus, NoStatus}]
    BY <2>2
  <2> HIDE DEF none
  <2>4. none \in Seq(Failures \cup {OkStatus, NoStatus})
    BY <2>2, <2>3, SeqDef
  <2> QED BY <2>2, <2>3, <2>4, LenProperties
<1>6. seen' = [seen EXCEPT ![b] = none] /\ seen \in [BatchIds -> Seq(Failures \cup {OkStatus, NoStatus})]
  BY DEF CallAccepted, Inv, Typed
<1> HIDE DEF none
<1>7. seen'[b] = none /\ \A c \in BatchIds : c # b => seen'[c] = seen[c]
  BY <1>6
<1>8. Typed'
  <2>1. seen' \in [BatchIds -> Seq(Failures \cup {OkStatus, NoStatus})]
    BY <1>5, <1>6
  <2>2. pc' \in [BatchIds -> {"Waiting", "Calling", "Reading", "Backoff", "Done"}]
    BY <1>3
  <2> QED BY <2>1, <2>2 DEF Typed, CallAccepted, Inv
<1>9. Queues'
  <2>1. UNCHANGED <<pending, current>>
    BY DEF CallAccepted
  <2>2. \A c \in BatchIds : (IsInjective(pending[c]) /\ IsInjective(current[c]))'
    BY <2>1 DEF Queues, Inv
  <2> QED BY <1>2, <1>4, <1>5, <1>7, <2>1 DEF Queues, Inv
<1>10. Tried'
  BY <1>2, <1>4 DEF Tried, CallAccepted, Inv
<1>11. Reported'
  <2>1. {c \in BatchIds : pc'[c] \in {"Calling", "Reading"}} = {c \in BatchIds : pc[c] \in {"Calling", "Reading"}}
    BY <1>2, <1>4
  <2>2. UNCHANGED <<telemetry, rpc_attempts, result>> /\ result = "Pending"
    BY <1>2 DEF CallAccepted, Running
  <2> QED BY <2>1, <2>2 DEF Reported, Running, Inv
<1> QED BY <1>1, <1>8, <1>9, <1>10, <1>11 DEF Inv

\* A result for an entry that has none is kept.
LEMMA ResultKept ==
  ASSUME Inv, NEW b \in BatchIds, NEW k \in DOMAIN current[b], NEW status \in Failures \cup {OkStatus},
         Running, pc[b] = "Reading",
         seen' = [seen EXCEPT ![b][k] = status],
         UNCHANGED <<now, pc, pending, current, deadline, wake, rpc_attempts, successful,
                     attempts, answer, failures, telemetry, result>>
  PROVE  Inv'
<1>1. Placed' /\ Counted' /\ Failed'
  BY SamePlaces DEF Inv
<1> DEFINE S == Failures \cup {OkStatus, NoStatus}
           s == seen[b]
           t == [s EXCEPT ![k] = status]
<1>2. s \in Seq(S) /\ status \in S /\ Len(s) = Len(current[b]) /\ seen \in [BatchIds -> Seq(S)]
  BY DEF Inv, Typed, Queues
<1>3. seen' = [seen EXCEPT ![b] = t]
  OBVIOUS
<1>4. k \in 1..Len(s)
  <2>1. current[b] \in Seq(Indexes)
    BY DEF Inv, Typed
  <2>2. DOMAIN current[b] = 1..Len(current[b])
    BY <2>1, LenProperties
  <2> QED BY <1>2, <2>2
<1> HIDE DEF S, s
<1>5. t \in Seq(S) /\ Len(t) = Len(s)
  BY <1>2, <1>4, ExceptSeq
<1> HIDE DEF t
<1>6. seen' \in [BatchIds -> Seq(S)]
  BY <1>2, <1>3, <1>5
<1>7. seen'[b] = t /\ \A c \in BatchIds : c # b => seen'[c] = seen[c]
  BY <1>2, <1>3
<1>8. Typed'
  BY <1>6 DEF Typed, Inv, S
<1>9. Queues'
  BY <1>2, <1>5, <1>7 DEF Queues, Inv
<1>10. Tried' /\ Reported'
  BY DEF Tried, Reported, Running, Inv
<1> QED BY <1>1, <1>8, <1>9, <1>10 DEF Inv

\* The caller drops the future: the open attempts and the operation are
\* reported as cancelled.
LEMMA DropInv == Inv /\ DropExecute => Inv'
<1> SUFFICES ASSUME Inv, DropExecute PROVE Inv'
  OBVIOUS
<1>1. Placed' /\ Counted' /\ Failed'
  BY SamePlaces DEF Inv, DropExecute
<1>2. Typed'
  BY DEF Typed, DropExecute, Inv
<1>3. Queues' /\ Tried'
  BY DEF Queues, Tried, DropExecute, Inv
<1>4. Reported'
  <2> DEFINE report == [code |-> "Cancelled", successful |-> 0, failed |-> 0]
             none == {}
  <2>1. telemetry.finished = <<>> /\ result' = "Dropped" /\ ~Running'
    BY DEF DropExecute, Inv, Reported, Running
  <2>2. telemetry' = [telemetry EXCEPT !.open = none, !.finished = Append(@, report)]
    BY DEF DropExecute
  <2>3. DOMAIN telemetry = {"attempts", "retries", "open", "finished"} /\ telemetry.attempts = Total(rpc_attempts)
    BY DEF Inv, Reported
  <2> HIDE DEF report, none
  <2>4. /\ DOMAIN telemetry' = {"attempts", "retries", "open", "finished"}
        /\ telemetry'.attempts = telemetry.attempts /\ telemetry'.open = none
        /\ telemetry'.finished = Append(telemetry.finished, report)
    BY <2>2, <2>3
  <2>5. Append(<<>>, report) = <<report>>
    OBVIOUS
  <2>6. Total(rpc_attempts)' = Total(rpc_attempts)
    BY DEF DropExecute
  <2>7. telemetry'.finished = <<report>> /\ telemetry'.open = {}
    BY <2>1, <2>4, <2>5 DEF none
  <2> QED BY <2>1, <2>3, <2>4, <2>6, <2>7 DEF Reported
<1> QED BY <1>1, <1>2, <1>3, <1>4 DEF Inv

\* All batches are done: the sums are reported, Ok only if nothing failed.
LEMMA FinishInv == Inv /\ Finish => Inv'
<1> SUFFICES ASSUME Inv, Finish PROVE Inv'
  OBVIOUS
<1> DEFINE code == IF failures = {} THEN "Ok" ELSE FailureCode(failures)
           report == [code |-> code, successful |-> Total(successful), failed |-> Cardinality(failures)]
<1>1. /\ Running /\ \A b \in BatchIds : pc[b] = "Done"
      /\ result' = IF failures = {} THEN "Ok" ELSE "BulkMutation"
      /\ telemetry' = [telemetry EXCEPT !.finished = Append(@, report)]
      /\ UNCHANGED <<now, pc, pending, current, seen, deadline, wake, rpc_attempts, successful,
                     attempts, answer, failures>>
  BY DEF Finish
<1>2. code = "Ok" <=> failures = {}
  <2>1. CASE failures = {}
    BY <2>1
  <2>2. CASE failures # {}
    <3>1. \A f \in failures : f.index \in Nat /\ f.code # "Ok"
      BY BatchFacts DEF Inv, Failed, FailureOf
    <3>2. FailedIndexes \in SUBSET Nat /\ FailedIndexes # {}
      BY <2>2, <3>1 DEF FailedIndexes
    <3>3. PICK i \in FailedIndexes : \A j \in FailedIndexes : i <= j
      BY <3>2, MinIsLeast
    <3>4. \E f \in failures : \A g \in failures : f.index <= g.index
      BY <3>3 DEF FailedIndexes
    <3> DEFINE first == CHOOSE f \in failures : \A g \in failures : f.index <= g.index
    <3>5. first \in failures
      BY <3>4
    <3>6. FailureCode(failures) = first.code
      BY DEF FailureCode
    <3> HIDE DEF first
    <3> QED BY <2>2, <3>1, <3>5, <3>6
  <2> QED BY <2>1, <2>2
<1>3. Placed' /\ Counted' /\ Failed'
  BY <1>1, SamePlaces DEF Inv
<1>4. result' \in {"Pending", "Ok", "BulkMutation", "Dropped"} /\ result' # "Pending"
  BY <1>1
<1>5. Typed'
  BY <1>1, <1>4 DEF Typed, Inv
<1>6. Queues' /\ Tried'
  BY <1>1 DEF Queues, Tried, Inv
<1>7. Reported'
  <2>1. /\ DOMAIN telemetry = {"attempts", "retries", "open", "finished"}
        /\ telemetry.attempts = Total(rpc_attempts) /\ telemetry.finished = <<>>
        /\ telemetry.open = {b \in BatchIds : pc[b] \in {"Calling", "Reading"}}
    BY <1>1 DEF Inv, Reported
  <2>2. telemetry.open = {}
    BY <1>1, <2>1
  <2>3. report.successful = Total(successful) /\ report.failed = Cardinality(failures) /\ report.code = code
    OBVIOUS
  <2> HIDE DEF report, code
  <2>4. /\ DOMAIN telemetry' = {"attempts", "retries", "open", "finished"}
        /\ telemetry'.attempts = telemetry.attempts /\ telemetry'.open = telemetry.open
        /\ telemetry'.finished = Append(telemetry.finished, report)
    BY <1>1, <2>1
  <2>5. Append(<<>>, report) = <<report>>
    OBVIOUS
  <2>6. telemetry'.finished = <<report>>
    BY <2>1, <2>4, <2>5
  <2>7. Total(rpc_attempts)' = Total(rpc_attempts) /\ Total(successful)' = Total(successful)
    BY <1>1
  <2>8. Cardinality(failures)' = Cardinality(failures) /\ (failures = {})' = (failures = {})
    BY <1>1
  <2>9. ~Running'
    BY <1>4 DEF Running
  <2>10. \A b \in BatchIds : pc'[b] = "Done"
    BY <1>1
  <2>11. /\ report.successful = Total(successful)' /\ report.failed = Cardinality(failures)'
         /\ report.code = "Ok" <=> (failures = {})'
    BY <1>2, <2>3, <2>7, <2>8
  <2> QED BY <2>1, <2>2, <2>4, <2>6, <2>7, <2>9, <2>10, <2>11 DEF Reported
<1> QED BY <1>3, <1>5, <1>6, <1>7 DEF Inv

-----------------------------------------------------------------------------
(* The beginning of an attempt.                                            *)

\* At the deadline the entries left in a batch fail.
LEMMA BeginLateInv ==
  ASSUME Inv, NEW b \in BatchIds, Running, pc[b] \in {"Waiting", "Backoff"},
         failures' = failures \cup DeadlineFailures(pending[b]),
         pending' = [pending EXCEPT ![b] = <<>>],
         pc' = [pc EXCEPT ![b] = "Done"],
         UNCHANGED <<now, current, seen, deadline, wake, rpc_attempts, successful, attempts,
                     answer, telemetry, result>>
  PROVE  Inv'
<1> DEFINE c == pending[b]
           h == [k \in DOMAIN c |-> Failure(c[k], "DeadlineExceeded", "DeadlineExceeded")]
<1>1. /\ c \in Seq(Indexes) /\ IsInjective(c) /\ current[b] = <<>>
      /\ pending \in [BatchIds -> Seq(Indexes)]
      /\ pc \in [BatchIds -> {"Waiting", "Calling", "Reading", "Backoff", "Done"}]
  BY DEF Inv, Typed, Queues
<1>2. ToSet(<<>>) = {} /\ IsInjective(<<>>)
  BY DEF ToSet, IsInjective
<1>3. failures' = failures \cup {h[k] : k \in DOMAIN c}
  <2>1. DeadlineFailures(c) = {h[k] : k \in DOMAIN c}
    BY DEF DeadlineFailures, ToSet
  <2> QED BY <2>1
<1>4. \A k \in DOMAIN c : c[k] \in ToSet(Batches[b]) /\ c[k] \notin FailedIndexes
  <2>1. \A i \in ToSet(pending[b]) : i \in ToSet(Batches[b]) /\ i \notin FailedIndexes
    BY DEF Inv, Queues, Placed
  <2> QED BY <2>1, ToSetIs
<1>5. \A k \in DOMAIN c : FailureOf(h[k], c[k])
  <2>1. \A k \in DOMAIN c : /\ h[k].index = c[k] /\ h[k].code = "DeadlineExceeded"
                             /\ h[k].cause = "DeadlineExceeded" /\ c[k] \in Indexes
    BY <1>1, LenProperties DEF Failure
  <2> HIDE DEF h
  <2> QED BY <2>1 DEF FailureOf
<1> HIDE DEF h
<1>6. Failed' /\ FailedIndexes' = FailedIndexes \cup {c[k] : k \in DOMAIN c}
  <2>1. Failed
    BY DEF Inv
  <2> HIDE DEF c
  <2> QED BY <1>1, <1>3, <1>4, <1>5, <2>1, FailedGrows
<1>7. /\ pending'[b] = <<>> /\ pc'[b] = "Done"
      /\ \A d \in BatchIds : d # b => pending'[d] = pending[d] /\ pc'[d] = pc[d]
  BY <1>1
<1>8. Placed' /\ Counted'
  <2> DEFINE none == {}
  <2>1. Confirmed' = Confirmed \cup none
    BY DEF Confirmed
  <2>2. FailedIndexes' = FailedIndexes \cup ToSet(c)
    BY <1>6 DEF ToSet
  <2>3. \A i : i \in ToSet(pending'[b]) \/ i \in ToSet(current'[b]) <=> i \in none
    BY <1>1, <1>2, <1>7
  <2>4. \A i : i \in ToSet(pending[b]) \/ i \in ToSet(current[b]) <=> i \in none \/ i \in none \/ i \in ToSet(c)
    BY <1>1, <1>2
  <2>5. successful'[b] = successful[b] + Cardinality(none)
    <3>1. successful[b] \in Nat
      BY DEF Inv, Typed
    <3> QED BY <3>1, FS_EmptySet
  <2>6. none \cap none = {} /\ none \cap ToSet(c) = {}
    OBVIOUS
  <2>7. \A d \in BatchIds : d # b =>
          pending'[d] = pending[d] /\ current'[d] = current[d] /\ successful'[d] = successful[d]
    BY <1>7
  <2> HIDE DEF none, c
  <2>8. MovedTo(b, none, none, ToSet(c))
    BY <2>1, <2>2, <2>3, <2>4, <2>5, <2>6, <2>7 DEF MovedTo
  <2> QED BY <2>8, Moves DEF Inv
<1>9. Typed'
  <2>1. pending' \in [BatchIds -> Seq(Indexes)]
    BY <1>1, EmptySeq
  <2>2. pc' \in [BatchIds -> {"Waiting", "Calling", "Reading", "Backoff", "Done"}]
    BY <1>1
  <2> QED BY <2>1, <2>2 DEF Typed, Inv
<1>10. Queues'
  BY <1>1, <1>2, <1>7 DEF Queues, Inv
<1>11. Tried'
  BY <1>1, <1>2, <1>7 DEF Tried, Inv
<1>12. Reported'
  <2>1. {d \in BatchIds : pc'[d] \in {"Calling", "Reading"}} = {d \in BatchIds : pc[d] \in {"Calling", "Reading"}}
    BY <1>7
  <2>2. result = "Pending" /\ result' = "Pending"
    BY DEF Running
  <2> QED BY <2>1, <2>2 DEF Reported, Running, Inv
<1> QED BY <1>6, <1>8, <1>9, <1>10, <1>11, <1>12 DEF Inv

\* Before the deadline the pending entries are sent, which counts as an attempt
\* of each.
LEMMA BeginSendInv ==
  ASSUME Inv, NEW b \in BatchIds, Running, pc[b] \in {"Waiting", "Backoff"}, now < Deadline,
         rpc_attempts' = [rpc_attempts EXCEPT ![b] = @ + 1],
         attempts' = [i \in Indexes |-> attempts[i] + (IF i \in ToSet(pending[b]) THEN 1 ELSE 0)],
         current' = [current EXCEPT ![b] = pending[b]],
         pending' = [pending EXCEPT ![b] = <<>>],
         deadline' = [deadline EXCEPT ![b] = Min({now + Deadlines.attempt_timeout, Deadline})],
         telemetry' = [telemetry EXCEPT !.attempts = @ + 1, !.open = @ \cup {b}],
         pc' = [pc EXCEPT ![b] = "Calling"],
         UNCHANGED <<now, seen, wake, successful, answer, failures, result>>
  PROVE  Inv'
<1> DEFINE c == pending[b]
<1>1. /\ c \in Seq(Indexes) /\ IsInjective(c) /\ current[b] = <<>> /\ ToSet(c) \subseteq ToSet(Batches[b])
      /\ pending \in [BatchIds -> Seq(Indexes)] /\ current \in [BatchIds -> Seq(Indexes)]
      /\ pc \in [BatchIds -> {"Waiting", "Calling", "Reading", "Backoff", "Done"}]
  BY DEF Inv, Typed, Queues
<1>2. ToSet(<<>>) = {} /\ IsInjective(<<>>) /\ <<>> \in Seq(Indexes)
  BY EmptySeq DEF ToSet, IsInjective
<1>3. /\ pending'[b] = <<>> /\ pc'[b] = "Calling" /\ current'[b] = c
      /\ \A d \in BatchIds : d # b => pending'[d] = pending[d] /\ pc'[d] = pc[d] /\ current'[d] = current[d]
  BY <1>1
<1>4. Failed' /\ Confirmed' = Confirmed /\ FailedIndexes' = FailedIndexes
  BY DEF Failed, Inv, Confirmed, FailedIndexes
<1>5. Placed' /\ Counted'
  <2> DEFINE none == {}
             Q == ToSet(c)
             C == none
             F == none
  <2>1. Confirmed' = Confirmed \cup C /\ FailedIndexes' = FailedIndexes \cup F
    BY <1>4
  <2>2. \A i : i \in ToSet(pending'[b]) \/ i \in ToSet(current'[b]) <=> i \in Q
    BY <1>2, <1>3
  <2>3. \A i : i \in ToSet(pending[b]) \/ i \in ToSet(current[b]) <=> i \in Q \/ i \in C \/ i \in F
    BY <1>1, <1>2
  <2>4. successful'[b] = successful[b] + Cardinality(C)
    <3>1. successful[b] \in Nat
      BY DEF Inv, Typed
    <3> QED BY <3>1, FS_EmptySet
  <2>5. Q \cap C = {} /\ Q \cap F = {} /\ C \cap F = {}
    OBVIOUS
  <2>6. \A d \in BatchIds : d # b =>
          pending'[d] = pending[d] /\ current'[d] = current[d] /\ successful'[d] = successful[d]
    BY <1>3
  <2>7. Queues /\ Placed /\ Counted
    BY DEF Inv
  <2> HIDE DEF Q, C, F
  <2>8. MovedTo(b, Q, C, F)
    BY <2>1, <2>2, <2>3, <2>4, <2>5, <2>6 DEF MovedTo
  <2> QED BY <2>7, <2>8, Moves
<1>6. /\ rpc_attempts \in [BatchIds -> 0..RetryPolicy.max_attempts]
      /\ rpc_attempts[b] \in Nat /\ rpc_attempts[b] < RetryPolicy.max_attempts
      /\ \A i \in ToSet(c) : attempts[i] = rpc_attempts[b]
  <2>1. rpc_attempts \in [BatchIds -> 0..RetryPolicy.max_attempts]
    BY DEF Inv, Typed
  <2>2. \A i \in ToSet(c) : attempts[i] = rpc_attempts[b]
    BY DEF Inv, Tried
  <2>3. rpc_attempts[b] < RetryPolicy.max_attempts
    BY PolicyFacts DEF Inv, Tried
  <2> QED BY <2>1, <2>2, <2>3, PolicyFacts
<1>7. /\ rpc_attempts' \in [BatchIds -> 0..RetryPolicy.max_attempts]
      /\ rpc_attempts'[b] = rpc_attempts[b] + 1
      /\ \A d \in BatchIds : d # b => rpc_attempts'[d] = rpc_attempts[d]
  BY <1>6, PolicyFacts
<1>8. /\ \A i \in ToSet(c) : i \in Indexes /\ attempts'[i] = rpc_attempts[b] + 1
      /\ \A i \in Indexes : i \notin ToSet(c) => attempts'[i] = attempts[i]
  <2>1. ToSet(c) \subseteq Indexes
    BY <1>1, BatchFinite
  <2>2. ASSUME NEW i \in ToSet(c) PROVE attempts'[i] = rpc_attempts[b] + 1
    BY <1>6, <2>1, <2>2
  <2>3. ASSUME NEW i \in Indexes, i \notin ToSet(c) PROVE attempts'[i] = attempts[i]
    <3>1. attempts'[i] = attempts[i] + 0 /\ attempts[i] \in 0..RetryPolicy.max_attempts
      BY <2>3 DEF Inv, Typed
    <3> QED BY <3>1
  <2> QED BY <2>1, <2>2, <2>3
<1>9. Typed'
  <2>1. attempts' \in [Indexes -> 0..RetryPolicy.max_attempts]
    <3>1. \A i \in Indexes : attempts'[i] \in 0..RetryPolicy.max_attempts
      <4> TAKE i \in Indexes
      <4>1. CASE i \in ToSet(c)
        BY <1>6, <1>8, <4>1, PolicyFacts
      <4>2. CASE i \notin ToSet(c)
        BY <1>8, <4>2 DEF Inv, Typed
      <4> QED BY <4>1, <4>2
    <3>2. attempts' = [i \in Indexes |-> attempts'[i]]
      OBVIOUS
    <3> QED BY <3>1, <3>2
  <2>2. pending' \in [BatchIds -> Seq(Indexes)] /\ current' \in [BatchIds -> Seq(Indexes)]
    BY <1>1, <1>2
  <2>3. deadline' \in [BatchIds -> 0..Deadline]
    <3> DEFINE D == {now + Deadlines.attempt_timeout, Deadline}
    <3>1. D \in SUBSET Nat /\ Deadline \in D
      BY PolicyFacts DEF Inv, Typed
    <3> HIDE DEF D
    <3>2. Min(D) \in D /\ Min(D) <= Deadline
      BY <3>1, MinIsLeast
    <3>3. Min(D) \in 0..Deadline
      BY <3>1, <3>2, PolicyFacts
    <3> QED BY <3>3 DEF D, Inv, Typed
  <2>4. pc' \in [BatchIds -> {"Waiting", "Calling", "Reading", "Backoff", "Done"}]
    BY <1>1
  <2> QED BY <1>7, <2>1, <2>2, <2>3, <2>4 DEF Typed, Inv
<1>10. Queues'
  <2>1. \A d \in BatchIds : IsInjective(pending'[d]) /\ IsInjective(current'[d])
    BY <1>1, <1>2, <1>3 DEF Queues, Inv
  <2>2. UNCHANGED seen
    OBVIOUS
  <2> HIDE DEF c
  <2> QED BY <1>1, <1>2, <1>3, <2>1, <2>2 DEF Queues, Inv
<1>11. Tried'
  <2>1. ASSUME NEW d \in BatchIds, d # b, NEW i, i \in ToSet(pending[d]) \/ i \in ToSet(current[d])
        PROVE  attempts'[i] = attempts[i]
    <3>1. i \in ToSet(Batches[d])
      BY <2>1 DEF Inv, Queues
    <3>2. i \notin ToSet(c) /\ i \in Indexes
      BY <1>1, <2>1, <3>1, BatchFacts, BatchFinite
    <3> QED BY <1>8, <3>2
  <2>2. ASSUME NEW d \in BatchIds
        PROVE  /\ pc'[d] = "Waiting" => rpc_attempts'[d] = 0
               /\ pc'[d] = "Backoff" => rpc_attempts'[d] < RetryPolicy.max_attempts
               /\ \A i \in ToSet(pending'[d]) :
                    /\ attempts'[i] = rpc_attempts'[d]
                    /\ pc'[d] = "Backoff" => Entries[i].retry_safe /\ IsMutateRetryable(answer'[i].code)
               /\ \A i \in ToSet(current'[d]) : attempts'[i] = rpc_attempts'[d]
               /\ pc'[d] \in {"Calling", "Reading"} => rpc_attempts'[d] > 0
    <3>1. CASE d = b
      <4>1. rpc_attempts[b] + 1 > 0
        BY <1>6
      <4> QED BY <1>2, <1>3, <1>7, <1>8, <3>1, <4>1
    <3>2. CASE d # b
      <4>1. pending'[d] = pending[d] /\ current'[d] = current[d] /\ pc'[d] = pc[d] /\ rpc_attempts'[d] = rpc_attempts[d]
        BY <1>3, <1>7, <3>2
      <4>2. answer' = answer
        OBVIOUS
      <4>3. /\ pc[d] = "Waiting" => rpc_attempts[d] = 0
            /\ pc[d] = "Backoff" => rpc_attempts[d] < RetryPolicy.max_attempts
            /\ \A i \in ToSet(pending[d]) :
                 /\ attempts[i] = rpc_attempts[d]
                 /\ pc[d] = "Backoff" => Entries[i].retry_safe /\ IsMutateRetryable(answer[i].code)
            /\ \A i \in ToSet(current[d]) : attempts[i] = rpc_attempts[d]
            /\ pc[d] \in {"Calling", "Reading"} => rpc_attempts[d] > 0
        BY DEF Inv, Tried
      <4>4. \A i : i \in ToSet(pending[d]) \/ i \in ToSet(current[d]) => attempts'[i] = attempts[i]
        BY <2>1, <3>2
      <4> QED BY <4>1, <4>2, <4>3, <4>4
    <3> QED BY <3>1, <3>2
  <2> QED BY <2>2 DEF Tried
<1>12. Reported'
  <2> DEFINE n == telemetry.attempts + 1
             o == telemetry.open \cup {b}
  <2>1. /\ DOMAIN telemetry = {"attempts", "retries", "open", "finished"}
        /\ telemetry.attempts = Total(rpc_attempts) /\ telemetry.finished = <<>>
        /\ telemetry.open = {d \in BatchIds : pc[d] \in {"Calling", "Reading"}}
    BY DEF Inv, Reported
  <2>2. telemetry' = [telemetry EXCEPT !.attempts = n, !.open = o]
    OBVIOUS
  <2>3. o = {d \in BatchIds : pc'[d] \in {"Calling", "Reading"}}
    BY <1>3, <2>1
  <2>4. n = Total(rpc_attempts')
    <3> DEFINE before == rpc_attempts
               after == rpc_attempts'
               L == Len(Batches)
    <3>1. before \in [1..L -> Nat] /\ after \in [1..L -> Nat] /\ b \in 1..L /\ L \in Nat
      BY <1>6, <1>7, BatchFacts
    <3>2. \A d \in 1..L : d # b => after[d] = before[d]
      BY <1>7, BatchFacts
    <3>3. after[b] = before[b] + 1
      BY <1>7
    <3> HIDE DEF before, after, L
    <3>4. Total(after) = Total(before) + 1
      BY <3>1, <3>2, <3>3, TotalOneMore
    <3> QED BY <2>1, <3>4 DEF before, after
  <2> HIDE DEF n, o
  <2>5. /\ DOMAIN telemetry' = {"attempts", "retries", "open", "finished"}
        /\ telemetry'.attempts = n /\ telemetry'.open = o /\ telemetry'.finished = telemetry.finished
    BY <2>1, <2>2
  <2>6. Running'
    BY DEF Running
  <2>7. Total(rpc_attempts)' = Total(rpc_attempts')
    OBVIOUS
  <2> QED BY <2>1, <2>3, <2>4, <2>5, <2>6, <2>7 DEF Reported
<1> QED BY <1>4, <1>5, <1>9, <1>10, <1>11, <1>12 DEF Inv

-----------------------------------------------------------------------------
(* The end of an attempt.                                                  *)

\* A backoff is a number of ticks.
LEMMA DelayIsNat ==
  ASSUME NEW n \in 1..RetryPolicy.max_attempts, NEW info \in Nat,
         NEW delay \in RetryDelays(RetryPolicy, n, info)
  PROVE  delay \in Nat
<1> DEFINE exponent == Max({n - 1, 0})
           capped == Min({RetryPolicy.initial_backoff * RetryPolicy.multiplier ^ exponent, RetryPolicy.max_backoff})
<1>1. \A x, y \in Nat : Max({x, y}) \in {x, y}
  <2> TAKE x, y \in Nat
  <2>1. \E m \in {x, y} : \A o \in {x, y} : m >= o
    OBVIOUS
  <2> QED BY <2>1 DEF Max
<1>2. \A x, y \in Nat : Min({x, y}) \in {x, y}
  <2> TAKE x, y \in Nat
  <2>1. {x, y} \in SUBSET Nat /\ {x, y} # {}
    OBVIOUS
  <2> QED BY <2>1, MinIsLeast
<1>3. exponent \in 0..RetryPolicy.max_attempts
  <2>1. exponent \in {n - 1, 0}
    BY <1>1
  <2> QED BY <2>1, PolicyFacts
<1>4. capped \in Nat
  <2> HIDE DEF exponent
  <2> DEFINE x == RetryPolicy.initial_backoff * RetryPolicy.multiplier ^ exponent
  <2>1. x \in Nat /\ RetryPolicy.max_backoff \in Nat
    BY <1>3, PolicyAssumption
  <2> HIDE DEF x
  <2>2. Min({x, RetryPolicy.max_backoff}) \in Nat
    BY <1>2, <2>1
  <2> QED BY <2>2 DEF x
<1>5. \A d \in Backoff(RetryPolicy, n) : d \in Nat
  <2>1. Backoff(RetryPolicy, n) = IF RetryPolicy.jitter = "Full" THEN 0..capped ELSE {capped}
    BY DEF Backoff
  <2> HIDE DEF capped
  <2> QED BY <1>4, <2>1
<1>6. PICK d \in Backoff(RetryPolicy, n) : delay = Max({d, info})
  BY DEF RetryDelays
<1> QED BY <1>1, <1>5, <1>6

\* The greatest of some numbers, taken at finitely many positions, is a number.
LEMMA GreatestIsNat ==
  ASSUME NEW K, IsFiniteSet(K), K # {}, NEW v, \A k \in K : v[k] \in Nat, NEW N, N = {v[k] : k \in K}
  PROVE  Max(N) \in Nat
<1> DEFINE f == [k \in K |-> v[k]]
<1>1. f \in Surjection(K, N)
  BY DEF Surjection
<1>2. N \in SUBSET Nat /\ N # {}
  OBVIOUS
<1> HIDE DEF f
<1>3. IsFiniteSet(N)
  BY <1>1, FS_Surjection
<1>4. PICK x \in N : \A y \in N : y <= x
  BY <1>2, <1>3, GreatestExists
<1>5. \A y \in N : x >= y
  BY <1>2, <1>4
<1>6. Max(N) \in N
  BY <1>5 DEF Max
<1> QED BY <1>2, <1>6

\* The statuses a verdict may give an entry.
VerdictOn(c, verdict) ==
  \A k \in DOMAIN c :
    /\ verdict[k].cause \in {"EntryStatus", "RpcStatus", "InvalidResponse"}
    /\ verdict[k].status \in Statuses /\ verdict[k].status.info \in Nat
    /\ verdict[k].status # OkStatus => verdict[k].status.code # "Ok"

\* The positions confirmed by a verdict, and the last statuses after it.
ConfirmedAt(c, verdict) == {k \in DOMAIN c : verdict[k].status = OkStatus}
Answered(old, c, verdict) ==
  [i \in Indexes |-> IF \E k \in DOMAIN c : c[k] = i
                       THEN verdict[CHOOSE k \in DOMAIN c : c[k] = i].status
                       ELSE old[i]]

\* A queue holds the entries at the given positions.
Holds(queue, c, positions) == ToSet(queue) = {c[k] : k \in positions}

\* The entries of an attempt that ends are confirmed, failed, or pending again.
LEMMA EndMoves ==
  ASSUME Inv, NEW b \in BatchIds, pc[b] \in {"Calling", "Reading"}, NEW c, c = current[b],
         NEW verdict, VerdictOn(c, verdict),
         NEW good, good = ConfirmedAt(c, verdict), NEW K \in SUBSET (DOMAIN c \ good), NEW h,
         \A k \in K : FailureOf(h[k], c[k]),
         failures' = failures \cup {h[k] : k \in K},
         successful' = [successful EXCEPT ![b] = @ + Cardinality(good)],
         answer' = Answered(answer, c, verdict),
         current' = [current EXCEPT ![b] = <<>>],
         \A d \in BatchIds : d # b => pending'[d] = pending[d],
         Holds(pending'[b], c, DOMAIN c \ (good \cup K))
  PROVE  /\ Failed' /\ Placed' /\ Counted'
         /\ answer' \in [Indexes -> Statuses] /\ successful' \in [BatchIds -> Nat]
         /\ \A k \in DOMAIN c : answer'[c[k]] = verdict[k].status
         /\ \A i \in Indexes : i \notin ToSet(c) => answer'[i] = answer[i]
<1>1. /\ c \in Seq(Indexes) /\ IsInjective(c) /\ ToSet(c) \subseteq ToSet(Batches[b]) /\ pending[b] = <<>>
      /\ current \in [BatchIds -> Seq(Indexes)]
  BY DEF Inv, Typed, Queues
<1>2. ToSet(<<>>) = {}
  BY DEF ToSet
<1>3. \A k \in DOMAIN c : c[k] \in ToSet(c) /\ c[k] \in Indexes
  BY <1>1, ToSetIs, LenProperties
<1>4. /\ \A j, k \in DOMAIN c : c[j] = c[k] => j = k
      /\ good \in SUBSET DOMAIN c /\ K \in SUBSET DOMAIN c
      /\ \A k \in K : k \notin good
  BY <1>1 DEF IsInjective, ConfirmedAt
<1>5. \A k \in DOMAIN c : answer'[c[k]] = verdict[k].status
  <2> TAKE k \in DOMAIN c
  <2> DEFINE j == CHOOSE j \in DOMAIN c : c[j] = c[k]
  <2>1. j \in DOMAIN c /\ c[j] = c[k]
    OBVIOUS
  <2>2. j = k
    <3> HIDE DEF j
    <3> QED BY <1>4, <2>1
  <2>3. answer'[c[k]] = verdict[j].status
    BY <1>3 DEF Answered
  <2> QED BY <2>2, <2>3
<1>6. \A i \in Indexes : i \notin ToSet(c) => answer'[i] = answer[i]
  BY ToSetIs DEF Answered
<1>7. answer' \in [Indexes -> Statuses]
  <2>1. \A i \in Indexes : answer'[i] \in Statuses
    <3> TAKE i \in Indexes
    <3>1. CASE i \in ToSet(c)
      <4>1. PICK k \in DOMAIN c : c[k] = i
        BY <3>1, ToSetIs
      <4> QED BY <1>5, <4>1 DEF VerdictOn
    <3>2. CASE i \notin ToSet(c)
      BY <1>6, <3>2 DEF Inv, Typed
    <3> QED BY <3>1, <3>2
  <2>2. answer' = [i \in Indexes |-> answer'[i]]
    BY DEF Answered
  <2> QED BY <2>1, <2>2
<1>8. \A i \in ToSet(c) : i \notin Confirmed /\ i \notin FailedIndexes
  BY <1>1 DEF Inv, Placed
<1>9. Failed' /\ FailedIndexes' = FailedIndexes \cup {c[k] : k \in K}
  <2>1. Failed /\ K \in SUBSET DOMAIN c /\ \A k \in K : c[k] \notin FailedIndexes
    BY <1>3, <1>8 DEF Inv
  <2> QED BY <1>1, <2>1, FailedGrows
<1> DEFINE Q == {c[k] : k \in DOMAIN c \ (good \cup K)}
           C == {c[k] : k \in good}
           F == {c[k] : k \in K}
<1>10. Confirmed' = Confirmed \cup C
  <2>1. Confirmed' = {i \in Indexes : answer'[i] = OkStatus}
    BY DEF Confirmed
  <2>2. ASSUME NEW i \in Indexes PROVE answer'[i] = OkStatus <=> i \in Confirmed \cup C
    <3>1. CASE i \in ToSet(c)
      <4>1. PICK k \in DOMAIN c : c[k] = i
        BY <3>1, ToSetIs
      <4>2. i \in C <=> k \in good
        BY <1>4, <4>1
      <4>3. answer'[i] = verdict[k].status
        BY <1>5, <4>1
      <4>4. k \in good <=> verdict[k].status = OkStatus
        BY <4>1 DEF ConfirmedAt
      <4>5. i \notin Confirmed
        BY <1>8, <3>1
      <4> HIDE DEF C
      <4> QED BY <4>2, <4>3, <4>4, <4>5
    <3>2. CASE i \notin ToSet(c)
      <4>1. i \notin C
        BY <1>3, <1>4, <3>2
      <4>2. answer'[i] = answer[i]
        BY <1>6, <3>2
      <4> HIDE DEF C
      <4> QED BY <4>1, <4>2 DEF Confirmed
    <3> QED BY <3>1, <3>2
  <2>3. C \subseteq Indexes /\ Confirmed \subseteq Indexes
    BY <1>3, <1>4 DEF Confirmed
  <2> HIDE DEF C
  <2>4. \A i : i \in Confirmed' <=> i \in Confirmed \cup C
    <3> HIDE DEF Confirmed
    <3> QED BY <2>1, <2>2, <2>3
  <2> QED BY <2>4
<1>11. Cardinality(C) = Cardinality(good) /\ Cardinality(good) \in Nat
  <2>1. good \in SUBSET DOMAIN c
    BY DEF ConfirmedAt
  <2>2. IsFiniteSet(good) /\ Cardinality(C) = Cardinality(good)
    <3>1. C = {c[k] : k \in good}
      OBVIOUS
    <3>2. c \in Seq(Indexes) /\ IsInjective(c)
      BY <1>1
    <3> HIDE DEF C
    <3> QED BY <2>1, <3>1, <3>2, InjectiveCard
  <2> QED BY <2>2, FS_CardinalityType
<1>12. /\ successful \in [BatchIds -> Nat] /\ successful'[b] = successful[b] + Cardinality(good)
       /\ \A d \in BatchIds : d # b => successful'[d] = successful[d]
  BY DEF Inv, Typed
<1>13. successful' \in [BatchIds -> Nat]
  BY <1>11, <1>12
<1>14. Placed' /\ Counted'
  <2>1. \A d \in BatchIds : d # b =>
          pending'[d] = pending[d] /\ current'[d] = current[d] /\ successful'[d] = successful[d]
    BY <1>1, <1>12
  <2>2. current'[b] = <<>>
    BY <1>1
  <2>3. \A i : i \in ToSet(pending'[b]) \/ i \in ToSet(current'[b]) <=> i \in Q
    <3> HIDE DEF Q
    <3>1. ToSet(pending'[b]) = Q
      BY DEF Q, Holds
    <3> QED BY <1>2, <2>2, <3>1
  <2>4. \A i : i \in ToSet(pending[b]) \/ i \in ToSet(current[b]) <=> i \in Q \/ i \in C \/ i \in F
    <3>1. \A i : i \in ToSet(c) <=> i \in Q \/ i \in C \/ i \in F
      <4>1. ASSUME NEW i \in ToSet(c) PROVE i \in Q \/ i \in C \/ i \in F
        <5>1. PICK k \in DOMAIN c : c[k] = i
          BY ToSetIs
        <5> QED BY <5>1
      <4>2. ASSUME NEW i, i \in Q \/ i \in C \/ i \in F PROVE i \in ToSet(c)
        BY <1>3, <1>4, <4>2
      <4> QED BY <4>1, <4>2
    <3>2. ToSet(pending[b]) = {} /\ ToSet(current[b]) = ToSet(c)
      BY <1>1, <1>2
    <3> HIDE DEF Q, C, F
    <3> QED BY <3>1, <3>2
  <2>5. Q \cap C = {} /\ Q \cap F = {} /\ C \cap F = {}
    BY <1>4
  <2>6. FailedIndexes' = FailedIndexes \cup F /\ successful'[b] = successful[b] + Cardinality(C)
    BY <1>9, <1>11, <1>12
  <2>7. Queues /\ Placed /\ Counted
    BY DEF Inv
  <2> HIDE DEF Q, C, F
  <2>8. MovedTo(b, Q, C, F)
    BY <1>10, <2>1, <2>3, <2>4, <2>5, <2>6 DEF MovedTo
  <2> QED BY <2>7, <2>8, Moves
<1> QED BY <1>5, <1>6, <1>7, <1>9, <1>13, <1>14

\* The positions whose entries are sent again.
RetriedAt(b, c, verdict) ==
  {k \in DOMAIN c : /\ verdict[k].cause \in {"EntryStatus", "RpcStatus"}
                    /\ verdict[k].status # OkStatus
                    /\ CanRetry(c[k], verdict[k].status)}

\* The failure of the entry at a position, if the batch gives up now.
FailureAt(c, verdict, again, k) ==
  IF k \in again THEN Failure(c[k], "DeadlineExceeded", "DeadlineExceeded")
  ELSE Failure(c[k], verdict[k].cause, verdict[k].status.code)

\* A batch that is done, or that waits for its next attempt.
GivesUp(b, c, verdict, again, good) ==
  /\ failures' = failures \cup {FailureAt(c, verdict, again, k) : k \in DOMAIN c \ good}
  /\ telemetry' = [telemetry EXCEPT !.open = @ \ {b}]
  /\ pc' = [pc EXCEPT ![b] = "Done"]
  /\ UNCHANGED <<pending, wake>>
Retries(b, c, verdict, again, good, left) ==
  /\ left # <<>>
  /\ failures' = failures \cup {FailureAt(c, verdict, again, k) : k \in DOMAIN c \ (good \cup again)}
  /\ pending' = [pending EXCEPT ![b] = left]
  /\ telemetry' = [telemetry EXCEPT !.open = @ \ {b}, !.retries = @ + 1]
  /\ \E delay \in Nat : now + delay < Deadline /\ wake' = [wake EXCEPT ![b] = now + delay]
  /\ pc' = [pc EXCEPT ![b] = "Backoff"]

\* What EndAttempt does, with its two outcomes.
LEMMA EndAttemptEffect ==
  ASSUME Inv, NEW b \in BatchIds, pc[b] \in {"Calling", "Reading"}, NEW c, c = current[b],
         NEW verdict, VerdictOn(c, verdict), EndAttempt(b, verdict),
         NEW good, good = ConfirmedAt(c, verdict), NEW again, again = RetriedAt(b, c, verdict),
         NEW left, left = Kept(c, again)
  PROVE  /\ successful' = [successful EXCEPT ![b] = @ + Cardinality(good)]
         /\ answer' = Answered(answer, c, verdict)
         /\ current' = [current EXCEPT ![b] = <<>>] /\ seen' = [seen EXCEPT ![b] = <<>>]
         /\ deadline' = [deadline EXCEPT ![b] = 0]
         /\ UNCHANGED <<now, rpc_attempts, attempts, result>>
         /\ GivesUp(b, c, verdict, again, good) \/ Retries(b, c, verdict, again, good, left)
<1> DEFINE sent == [k \in DOMAIN current[b] |-> EntryAt(b, k)]
<1>1. c \in Seq(Indexes) /\ IsInjective(c) /\ now \in 0..Deadline
  BY DEF Inv, Typed, Queues
<1>2. sent = c
  <2>1. c = [k \in DOMAIN c |-> c[k]]
    BY <1>1, LenProperties
  <2> QED BY <2>1 DEF EntryAt
<1>3. again \in SUBSET DOMAIN c /\ good \in SUBSET DOMAIN c /\ good \cap again = {}
  BY DEF RetriedAt, ConfirmedAt
<1>4. left \in Seq(Indexes) /\ IsInjective(left) /\ ToSet(left) = {c[k] : k \in again}
  BY <1>1, <1>3, KeptElements
<1> DEFINE good0 == {k \in DOMAIN current[b] : verdict[k].status = OkStatus}
           again0 == {k \in DOMAIN current[b] :
                        /\ verdict[k].cause \in {"EntryStatus", "RpcStatus"}
                        /\ verdict[k].status # OkStatus
                        /\ CanRetry(sent[k], verdict[k].status)}
           left0 == Kept(sent, again0)
           failed == {Failure(sent[k], verdict[k].cause, verdict[k].status.code) :
                        k \in DOMAIN current[b] \ (good0 \cup again0)}
           failedAttempt == Max({attempts[index] : index \in ToSet(left0)})
           retryInfo == Max({verdict[k].status.info : k \in again0})
           finished == [telemetry EXCEPT !.open = @ \ {b}]
           answered == [i \in Indexes |-> IF \E k \in DOMAIN current[b] : current[b][k] = i
                           THEN verdict[CHOOSE k \in DOMAIN current[b] : current[b][k] = i].status
                           ELSE answer[i]]
<1>5. /\ successful' = [successful EXCEPT ![b] = @ + Cardinality(good0)]
      /\ answer' = answered
      /\ current' = [current EXCEPT ![b] = <<>>] /\ seen' = [seen EXCEPT ![b] = <<>>]
      /\ deadline' = [deadline EXCEPT ![b] = 0]
      /\ UNCHANGED <<now, rpc_attempts, attempts, result>>
      /\ \/ /\ left0 = <<>>
            /\ failures' = failures \cup failed
            /\ telemetry' = finished
            /\ pc' = [pc EXCEPT ![b] = "Done"]
            /\ UNCHANGED <<pending, wake>>
         \/ /\ left0 # <<>>
            /\ \E delay \in RetryDelays(RetryPolicy, failedAttempt, retryInfo) :
                 \/ /\ delay >= Deadline - now
                    /\ failures' = failures \cup failed \cup DeadlineFailures(left0)
                    /\ telemetry' = finished
                    /\ pc' = [pc EXCEPT ![b] = "Done"]
                    /\ UNCHANGED <<pending, wake>>
                 \/ /\ delay < Deadline - now
                    /\ failures' = failures \cup failed
                    /\ pending' = [pending EXCEPT ![b] = left0]
                    /\ telemetry' = [finished EXCEPT !.retries = @ + 1]
                    /\ wake' = [wake EXCEPT ![b] = now + delay]
                    /\ pc' = [pc EXCEPT ![b] = "Backoff"]
  BY Zenon DEF EndAttempt
<1>6. good0 = good /\ answered = Answered(answer, c, verdict)
  BY DEF ConfirmedAt, Answered
<1>7. again0 = again
  BY <1>2 DEF RetriedAt
<1>8. left0 = left
  <2> HIDE DEF sent, again0
  <2> QED BY <1>2, <1>7
<1> DEFINE lost == DOMAIN c \ (good \cup again)
<1>9. failed = {FailureAt(c, verdict, again, k) : k \in lost}
  <2>1. DOMAIN current[b] \ (good0 \cup again0) = lost
    <3> HIDE DEF good0, again0
    <3> QED BY <1>6, <1>7
  <2>2. \A k \in lost : FailureAt(c, verdict, again, k) = Failure(sent[k], verdict[k].cause, verdict[k].status.code)
    <3> HIDE DEF sent
    <3> QED BY <1>2 DEF FailureAt
  <2> HIDE DEF lost, sent, good0, again0
  <2> QED BY <2>1, <2>2
<1>10. DeadlineFailures(left) = {FailureAt(c, verdict, again, k) : k \in again}
  <2>1. DeadlineFailures(left) = {Failure(i, "DeadlineExceeded", "DeadlineExceeded") : i \in {c[k] : k \in again}}
    BY <1>4 DEF DeadlineFailures
  <2>2. \A k \in again : FailureAt(c, verdict, again, k) = Failure(c[k], "DeadlineExceeded", "DeadlineExceeded")
    BY DEF FailureAt
  <2> QED BY <2>1, <2>2
<1>11. failed \cup DeadlineFailures(left) = {FailureAt(c, verdict, again, k) : k \in DOMAIN c \ good}
  <2>1. \A k : k \in DOMAIN c \ good <=> k \in lost \/ k \in again
    BY <1>3
  <2> HIDE DEF failed, lost
  <2> QED BY <1>9, <1>10, <2>1
<1>12. left = <<>> => DeadlineFailures(left) = {}
  BY DEF DeadlineFailures, ToSet
<1>13. failedAttempt = rpc_attempts[b] \/ left = <<>>
  <2>1. SUFFICES ASSUME left # <<>> PROVE Max({attempts[index] : index \in ToSet(left)}) = rpc_attempts[b]
    <3> HIDE DEF left0
    <3> QED BY <1>8
  <2>2. \A i \in ToSet(left) : attempts[i] = rpc_attempts[b]
    <3>1. \A k \in again : c[k] \in ToSet(current[b])
      BY <1>3, ToSetIs
    <3> QED BY <1>4, <3>1 DEF Inv, Tried
  <2>3. \E i : i \in ToSet(left)
    <3>1. Len(left) \in Nat \ {0} /\ DOMAIN left = 1..Len(left)
      BY <1>4, <2>1, EmptySeq, LenProperties
    <3>2. 1 \in DOMAIN left
      BY <3>1
    <3> QED BY <3>2, ToSetIs
  <2>4. {attempts[index] : index \in ToSet(left)} = {rpc_attempts[b]}
    BY <2>2, <2>3
  <2>5. rpc_attempts[b] \in Nat
    BY PolicyFacts DEF Inv, Typed
  <2>6. Max({rpc_attempts[b]}) = rpc_attempts[b]
    BY <2>5 DEF Max
  <2> QED BY <2>4, <2>6
<1>14. retryInfo \in Nat \/ left = <<>>
  <2>1. SUFFICES ASSUME left # <<>> PROVE Max({verdict[k].status.info : k \in again}) \in Nat
    <3> HIDE DEF again0
    <3> QED BY <1>7
  <2> DEFINE v == [k \in again |-> verdict[k].status.info]
  <2>2. \A k \in again : v[k] \in Nat
    BY <1>3 DEF VerdictOn
  <2>3. {verdict[k].status.info : k \in again} = {v[k] : k \in again}
    OBVIOUS
  <2>4. IsFiniteSet(again)
    BY <1>1, <1>3, InjectiveCard
  <2>5. again # {}
    <3>1. Len(left) \in Nat \ {0} /\ DOMAIN left = 1..Len(left)
      BY <1>4, <2>1, EmptySeq, LenProperties
    <3>2. 1 \in DOMAIN left
      BY <3>1
    <3>3. left[1] \in ToSet(left)
      BY <3>2, ToSetIs
    <3> QED BY <1>4, <3>3
  <2> HIDE DEF v
  <2> DEFINE N == {v[k] : k \in again}
  <2>6. N = {v[k] : k \in again}
    OBVIOUS
  <2> HIDE DEF N
  <2>7. Max(N) \in Nat
    BY ONLY <2>2, <2>4, <2>5, <2>6, GreatestIsNat
  <2> QED BY <2>3, <2>6, <2>7
<1> HIDE DEF good0, again0, left0, failed, failedAttempt, retryInfo, finished, answered, sent, lost
<1>15. CASE /\ left0 = <<>>
            /\ failures' = failures \cup failed
            /\ telemetry' = finished
            /\ pc' = [pc EXCEPT ![b] = "Done"]
            /\ UNCHANGED <<pending, wake>>
  <2>1. failures' = failures \cup {FailureAt(c, verdict, again, k) : k \in DOMAIN c \ good}
    <3>1. failed \cup DeadlineFailures(left) = failed
      BY <1>8, <1>12, <1>15
    <3> QED BY <1>11, <1>15, <3>1
  <2>2. GivesUp(b, c, verdict, again, good)
    BY <1>15, <2>1 DEF GivesUp, finished
  <2> QED BY <1>5, <1>6, <2>2
<1>16. CASE /\ left0 # <<>>
            /\ \E delay \in RetryDelays(RetryPolicy, failedAttempt, retryInfo) :
                 \/ /\ delay >= Deadline - now
                    /\ failures' = failures \cup failed \cup DeadlineFailures(left0)
                    /\ telemetry' = finished
                    /\ pc' = [pc EXCEPT ![b] = "Done"]
                    /\ UNCHANGED <<pending, wake>>
                 \/ /\ delay < Deadline - now
                    /\ failures' = failures \cup failed
                    /\ pending' = [pending EXCEPT ![b] = left0]
                    /\ telemetry' = [finished EXCEPT !.retries = @ + 1]
                    /\ wake' = [wake EXCEPT ![b] = now + delay]
                    /\ pc' = [pc EXCEPT ![b] = "Backoff"]
  <2>1. left # <<>>
    BY <1>8, <1>16
  <2>2. PICK delay \in RetryDelays(RetryPolicy, failedAttempt, retryInfo) :
                 \/ /\ delay >= Deadline - now
                    /\ failures' = failures \cup failed \cup DeadlineFailures(left0)
                    /\ telemetry' = finished
                    /\ pc' = [pc EXCEPT ![b] = "Done"]
                    /\ UNCHANGED <<pending, wake>>
                 \/ /\ delay < Deadline - now
                    /\ failures' = failures \cup failed
                    /\ pending' = [pending EXCEPT ![b] = left0]
                    /\ telemetry' = [finished EXCEPT !.retries = @ + 1]
                    /\ wake' = [wake EXCEPT ![b] = now + delay]
                    /\ pc' = [pc EXCEPT ![b] = "Backoff"]
    BY <1>16
  <2>3. delay \in Nat
    <3>1. failedAttempt \in 1..RetryPolicy.max_attempts /\ retryInfo \in Nat
      BY <1>13, <1>14, <2>1, PolicyFacts DEF Inv, Typed, Tried
    <3> QED BY <3>1, DelayIsNat
  <2>4. CASE /\ delay >= Deadline - now
             /\ failures' = failures \cup failed \cup DeadlineFailures(left0)
             /\ telemetry' = finished
             /\ pc' = [pc EXCEPT ![b] = "Done"]
             /\ UNCHANGED <<pending, wake>>
    <3>1. failures' = failures \cup {FailureAt(c, verdict, again, k) : k \in DOMAIN c \ good}
      <4>1. failures' = failures \cup (failed \cup DeadlineFailures(left))
        BY <1>8, <2>4
      <4> QED BY <1>11, <4>1
    <3>2. GivesUp(b, c, verdict, again, good)
      BY <2>4, <3>1 DEF GivesUp, finished
    <3> QED BY <1>5, <1>6, <3>2
  <2>5. CASE /\ delay < Deadline - now
             /\ failures' = failures \cup failed
             /\ pending' = [pending EXCEPT ![b] = left0]
             /\ telemetry' = [finished EXCEPT !.retries = @ + 1]
             /\ wake' = [wake EXCEPT ![b] = now + delay]
             /\ pc' = [pc EXCEPT ![b] = "Backoff"]
    <3>1. failures' = failures \cup {FailureAt(c, verdict, again, k) : k \in lost}
      BY <1>9, <2>5
    <3>2. now + delay < Deadline
      BY <1>1, <2>3, <2>5, PolicyFacts
    <3>3. telemetry' = [telemetry EXCEPT !.open = @ \ {b}, !.retries = @ + 1]
      <4>1. DOMAIN telemetry = {"attempts", "retries", "open", "finished"}
        BY DEF Inv, Reported
      <4> DEFINE o == telemetry.open \ {b}
      <4>2. finished = [telemetry EXCEPT !.open = o] /\ telemetry' = [finished EXCEPT !.retries = @ + 1]
        BY <2>5 DEF finished
      <4> HIDE DEF o
      <4>3. telemetry' = [telemetry EXCEPT !.open = o, !.retries = @ + 1]
        BY <4>1, <4>2
      <4> QED BY <4>3 DEF o
    <3>4. pending' = [pending EXCEPT ![b] = left]
      BY <1>8, <2>5
    <3>5. Retries(b, c, verdict, again, good, left)
      BY <2>1, <2>3, <2>5, <3>1, <3>2, <3>3, <3>4 DEF Retries, lost
    <3> QED BY <1>5, <1>6, <3>5
  <2> QED BY <2>2, <2>4, <2>5
<1> QED BY <1>5, <1>15, <1>16

\* An entry that is not confirmed fails with what became of it.
LEMMA FailureIs ==
  ASSUME Inv, NEW b \in BatchIds, NEW c, c = current[b], NEW verdict, VerdictOn(c, verdict),
         NEW again, again = RetriedAt(b, c, verdict), NEW k \in DOMAIN c, k \notin ConfirmedAt(c, verdict)
  PROVE  FailureOf(FailureAt(c, verdict, again, k), c[k])
<1>1. c[k] \in Indexes /\ attempts[c[k]] \in 0..RetryPolicy.max_attempts
  BY LenProperties, ElementOfSeq DEF Inv, Typed
<1>2. CASE k \in again
  BY <1>1, <1>2 DEF FailureAt, Failure, FailureOf
<1>3. CASE k \notin again
  <2> DEFINE f == FailureAt(c, verdict, again, k)
  <2>1. /\ f.index = c[k] /\ f.cause = verdict[k].cause /\ f.code = verdict[k].status.code
        /\ f.attempts = attempts[c[k]]
    BY <1>3 DEF FailureAt, Failure
  <2>2. verdict[k].status # OkStatus /\ verdict[k].status.code # "Ok"
        /\ verdict[k].cause \in {"EntryStatus", "RpcStatus", "InvalidResponse"}
    BY DEF ConfirmedAt, VerdictOn
  <2>3. ASSUME verdict[k].cause \in {"EntryStatus", "RpcStatus"}, Entries[c[k]].retry_safe,
               IsMutateRetryable(verdict[k].status.code)
        PROVE  attempts[c[k]] = RetryPolicy.max_attempts
    <3>1. ~ (attempts[c[k]] < RetryPolicy.max_attempts)
      BY <1>3, <2>2, <2>3 DEF RetriedAt, CanRetry
    <3> QED BY <1>1, <3>1, PolicyFacts
  <2> HIDE DEF f
  <2> QED BY <1>1, <2>1, <2>2, <2>3 DEF FailureOf, f
<1> QED BY <1>2, <1>3

\* An attempt that ends keeps the invariant.
LEMMA EndAttemptInv ==
  ASSUME Inv, NEW b \in BatchIds, Running, pc[b] \in {"Calling", "Reading"},
         NEW verdict, VerdictOn(current[b], verdict), EndAttempt(b, verdict)
  PROVE  Inv'
<1> DEFINE c == current[b]
           good == ConfirmedAt(c, verdict)
           again == RetriedAt(b, c, verdict)
           left == Kept(c, again)
           h == [k \in DOMAIN c |-> FailureAt(c, verdict, again, k)]
<1>1. c = current[b] /\ good = ConfirmedAt(c, verdict) /\ again = RetriedAt(b, c, verdict)
      /\ left = Kept(c, again) /\ VerdictOn(c, verdict)
  OBVIOUS
<1>2. /\ c \in Seq(Indexes) /\ IsInjective(c) /\ pending[b] = <<>> /\ ToSet(c) \subseteq ToSet(Batches[b])
      /\ pending \in [BatchIds -> Seq(Indexes)] /\ current \in [BatchIds -> Seq(Indexes)]
      /\ seen \in [BatchIds -> Seq(Failures \cup {OkStatus, NoStatus})]
      /\ deadline \in [BatchIds -> 0..Deadline] /\ wake \in [BatchIds -> 0..Deadline]
      /\ pc \in [BatchIds -> {"Waiting", "Calling", "Reading", "Backoff", "Done"}]
  BY DEF Inv, Typed, Queues
<1>3. again \in SUBSET DOMAIN c /\ good \in SUBSET DOMAIN c /\ good \cap again = {}
  BY DEF RetriedAt, ConfirmedAt
<1>4. left \in Seq(Indexes) /\ IsInjective(left) /\ ToSet(left) = {c[k] : k \in again}
  BY <1>2, <1>3, KeptElements
<1>5. \A k \in DOMAIN c \ good : FailureOf(h[k], c[k])
  BY FailureIs
<1>6. \A k \in DOMAIN c : h[k] = FailureAt(c, verdict, again, k)
  OBVIOUS
<1> HIDE DEF c, good, again, left, h
<1>7. /\ successful' = [successful EXCEPT ![b] = @ + Cardinality(good)]
      /\ answer' = Answered(answer, c, verdict)
      /\ current' = [current EXCEPT ![b] = <<>>] /\ seen' = [seen EXCEPT ![b] = <<>>]
      /\ deadline' = [deadline EXCEPT ![b] = 0]
      /\ UNCHANGED <<now, rpc_attempts, attempts, result>>
      /\ GivesUp(b, c, verdict, again, good) \/ Retries(b, c, verdict, again, good, left)
  BY <1>1, EndAttemptEffect
<1>8. ToSet(<<>>) = {} /\ IsInjective(<<>>) /\ <<>> \in Seq(Indexes)
      /\ <<>> \in Seq(Failures \cup {OkStatus, NoStatus})
  BY EmptySeq DEF ToSet, IsInjective
<1>9. Running'
  BY <1>7 DEF Running
<1>10. current'[b] = <<>> /\ \A d \in BatchIds : d # b => current'[d] = current[d] /\ seen'[d] = seen[d]
  BY <1>2, <1>7
<1>11. /\ current' \in [BatchIds -> Seq(Indexes)] /\ deadline' \in [BatchIds -> 0..Deadline]
       /\ seen' \in [BatchIds -> Seq(Failures \cup {OkStatus, NoStatus})]
  BY <1>2, <1>7, <1>8, PolicyFacts
<1>12. /\ DOMAIN telemetry = {"attempts", "retries", "open", "finished"}
       /\ telemetry.attempts = Total(rpc_attempts) /\ telemetry.finished = <<>>
       /\ telemetry.open = {d \in BatchIds : pc[d] \in {"Calling", "Reading"}}
  BY DEF Inv, Reported
<1>13. ASSUME NEW d \in BatchIds, d # b
       PROVE  /\ pc[d] = "Waiting" => rpc_attempts'[d] = 0
              /\ pc[d] = "Backoff" => rpc_attempts'[d] < RetryPolicy.max_attempts
              /\ \A i \in ToSet(pending[d]) :
                   /\ attempts'[i] = rpc_attempts'[d] /\ i \in Indexes /\ i \notin ToSet(c)
                   /\ pc[d] = "Backoff" => Entries[i].retry_safe /\ IsMutateRetryable(answer[i].code)
              /\ \A i \in ToSet(current[d]) : attempts'[i] = rpc_attempts'[d]
              /\ pc[d] \in {"Calling", "Reading"} => rpc_attempts'[d] > 0
  <2>1. \A i \in ToSet(pending[d]) : i \in Indexes /\ i \notin ToSet(c)
    <3>1. ToSet(pending[d]) \subseteq ToSet(Batches[d])
      BY DEF Inv, Queues
    <3> QED BY <1>2, <1>13, <3>1, BatchFacts, BatchFinite
  <2>2. UNCHANGED <<rpc_attempts, attempts>>
    BY <1>7
  <2> QED BY <2>1, <2>2 DEF Inv, Tried
<1>14. CASE GivesUp(b, c, verdict, again, good)
  <2> DEFINE K == DOMAIN c \ good
  <2>1. /\ failures' = failures \cup {FailureAt(c, verdict, again, k) : k \in K}
        /\ telemetry' = [telemetry EXCEPT !.open = @ \ {b}]
        /\ pc' = [pc EXCEPT ![b] = "Done"] /\ UNCHANGED <<pending, wake>>
    BY <1>14 DEF GivesUp
  <2>2. failures' = failures \cup {h[k] : k \in K}
    <3>1. {FailureAt(c, verdict, again, k) : k \in K} = {h[k] : k \in K}
      BY <1>6
    <3> QED BY <2>1, <3>1
  <2>3. Holds(pending'[b], c, DOMAIN c \ (good \cup K))
    <3>1. DOMAIN c \ (good \cup K) = {}
      OBVIOUS
    <3> QED BY <1>2, <1>8, <2>1, <3>1 DEF Holds
  <2>4. K \in SUBSET (DOMAIN c \ good) /\ \A k \in K : FailureOf(h[k], c[k])
    BY <1>5
  <2> HIDE DEF K
  <2>5. \A d \in BatchIds : d # b => pending'[d] = pending[d]
    BY <2>1
  <2>6. /\ Failed' /\ Placed' /\ Counted'
        /\ answer' \in [Indexes -> Statuses] /\ successful' \in [BatchIds -> Nat]
        /\ \A i \in Indexes : i \notin ToSet(c) => answer'[i] = answer[i]
    <3>1. /\ successful' = [successful EXCEPT ![b] = @ + Cardinality(good)]
          /\ answer' = Answered(answer, c, verdict)
          /\ current' = [current EXCEPT ![b] = <<>>]
      BY <1>7
    <3>2. c = current[b] /\ good = ConfirmedAt(c, verdict) /\ VerdictOn(c, verdict)
      BY <1>1
    <3>3. Inv /\ b \in BatchIds /\ pc[b] \in {"Calling", "Reading"}
      OBVIOUS
    <3>4. Failed' /\ Placed' /\ Counted'
      BY ONLY <2>2, <2>3, <2>4, <2>5, <3>1, <3>2, <3>3, EndMoves
    <3>5. answer' \in [Indexes -> Statuses] /\ successful' \in [BatchIds -> Nat]
      BY ONLY <2>2, <2>3, <2>4, <2>5, <3>1, <3>2, <3>3, EndMoves
    <3>6. \A i \in Indexes : i \notin ToSet(c) => answer'[i] = answer[i]
      BY ONLY <2>2, <2>3, <2>4, <2>5, <3>1, <3>2, <3>3, EndMoves
    <3> QED BY <3>4, <3>5, <3>6
  <2>7. pc'[b] = "Done" /\ \A d \in BatchIds : d # b => pc'[d] = pc[d]
    BY <1>2, <2>1
  <2>8. Typed'
    <3>1. pc' \in [BatchIds -> {"Waiting", "Calling", "Reading", "Backoff", "Done"}]
      BY <1>2, <2>1
    <3> QED BY <1>7, <1>11, <2>1, <2>6, <3>1 DEF Inv, Typed
  <2>9. Queues'
    BY <1>2, <1>8, <1>10, <2>1, <2>7 DEF Inv, Queues
  <2>10. Tried'
    <3>1. ASSUME NEW d \in BatchIds
          PROVE  /\ pc'[d] = "Waiting" => rpc_attempts'[d] = 0
                 /\ pc'[d] = "Backoff" => rpc_attempts'[d] < RetryPolicy.max_attempts
                 /\ \A i \in ToSet(pending'[d]) :
                      /\ attempts'[i] = rpc_attempts'[d]
                      /\ pc'[d] = "Backoff" => Entries[i].retry_safe /\ IsMutateRetryable(answer'[i].code)
                 /\ \A i \in ToSet(current'[d]) : attempts'[i] = rpc_attempts'[d]
                 /\ pc'[d] \in {"Calling", "Reading"} => rpc_attempts'[d] > 0
      <4>1. CASE d = b
        BY <1>2, <1>8, <1>10, <2>1, <2>7, <4>1
      <4>2. CASE d # b
        <5>1. pending'[d] = pending[d] /\ current'[d] = current[d] /\ pc'[d] = pc[d]
          BY <1>10, <2>5, <2>7, <4>2
        <5> QED BY <1>13, <2>6, <4>2, <5>1
      <4> QED BY <4>1, <4>2
    <3> QED BY <3>1 DEF Tried
  <2>11. Reported'
    <3> DEFINE o == telemetry.open \ {b}
    <3>1. telemetry' = [telemetry EXCEPT !.open = o]
      BY <2>1
    <3>2. o = {d \in BatchIds : pc'[d] \in {"Calling", "Reading"}}
      BY <1>12, <2>7
    <3> HIDE DEF o
    <3>3. /\ DOMAIN telemetry' = {"attempts", "retries", "open", "finished"} /\ telemetry'.open = o
          /\ telemetry'.attempts = telemetry.attempts /\ telemetry'.finished = telemetry.finished
      BY <1>12, <3>1
    <3>4. rpc_attempts' = rpc_attempts
      BY <1>7
    <3>5. Total(rpc_attempts)' = Total(rpc_attempts)
      BY <3>4
    <3> QED BY <1>9, <1>12, <3>2, <3>3, <3>5 DEF Reported
  <2> QED BY <2>6, <2>8, <2>9, <2>10, <2>11 DEF Inv
<1>15. CASE Retries(b, c, verdict, again, good, left)
  <2> DEFINE K == DOMAIN c \ (good \cup again)
  <2>1. /\ failures' = failures \cup {FailureAt(c, verdict, again, k) : k \in K}
        /\ telemetry' = [telemetry EXCEPT !.open = @ \ {b}, !.retries = @ + 1]
        /\ pc' = [pc EXCEPT ![b] = "Backoff"] /\ pending' = [pending EXCEPT ![b] = left]
        /\ left # <<>>
    BY <1>15 DEF Retries
  <2>2. failures' = failures \cup {h[k] : k \in K}
    <3>1. {FailureAt(c, verdict, again, k) : k \in K} = {h[k] : k \in K}
      BY <1>6
    <3> QED BY <2>1, <3>1
  <2>3. Holds(pending'[b], c, DOMAIN c \ (good \cup K))
    <3>1. DOMAIN c \ (good \cup K) = again
      BY <1>3
    <3>2. pending'[b] = left
      BY <1>2, <2>1
    <3> HIDE DEF K
    <3> QED BY <1>4, <3>1, <3>2 DEF Holds
  <2>4. K \in SUBSET (DOMAIN c \ good) /\ \A k \in K : FailureOf(h[k], c[k])
    BY <1>5
  <2> HIDE DEF K
  <2>5. pending'[b] = left /\ \A d \in BatchIds : d # b => pending'[d] = pending[d]
    BY <1>2, <2>1
  <2>6. /\ Failed' /\ Placed' /\ Counted'
        /\ answer' \in [Indexes -> Statuses] /\ successful' \in [BatchIds -> Nat]
        /\ \A k \in DOMAIN c : answer'[c[k]] = verdict[k].status
        /\ \A i \in Indexes : i \notin ToSet(c) => answer'[i] = answer[i]
    <3>1. /\ successful' = [successful EXCEPT ![b] = @ + Cardinality(good)]
          /\ answer' = Answered(answer, c, verdict)
          /\ current' = [current EXCEPT ![b] = <<>>]
      BY <1>7
    <3>2. \A d \in BatchIds : d # b => pending'[d] = pending[d]
      BY <2>5
    <3>3. c = current[b] /\ good = ConfirmedAt(c, verdict) /\ VerdictOn(c, verdict)
      BY <1>1
    <3>4. Inv /\ b \in BatchIds /\ pc[b] \in {"Calling", "Reading"}
      OBVIOUS
    <3>5. Failed' /\ Placed' /\ Counted'
      BY ONLY <2>2, <2>3, <2>4, <3>1, <3>2, <3>3, <3>4, EndMoves
    <3>6. answer' \in [Indexes -> Statuses] /\ successful' \in [BatchIds -> Nat]
      BY ONLY <2>2, <2>3, <2>4, <3>1, <3>2, <3>3, <3>4, EndMoves
    <3>7. ASSUME NEW k \in DOMAIN c PROVE answer'[c[k]] = verdict[k].status
      <4>1. c[k] \in Indexes /\ \A m \in DOMAIN c : c[m] = c[k] => m = k
        BY <1>2, LenProperties, ElementOfSeq DEF IsInjective
      <4> DEFINE i == c[k]
      <4>2. k = CHOOSE m \in DOMAIN c : c[m] = i
        BY <4>1
      <4>3. answer'[i] = IF \E m \in DOMAIN c : c[m] = i
                          THEN verdict[CHOOSE m \in DOMAIN c : c[m] = i].status ELSE answer[i]
        BY <3>1, <4>1 DEF Answered
      <4> QED BY <4>2, <4>3
    <3>8. \A i \in Indexes : i \notin ToSet(c) => answer'[i] = answer[i]
      BY ONLY <2>2, <2>3, <2>4, <3>1, <3>2, <3>3, <3>4, EndMoves
    <3> QED BY <3>5, <3>6, <3>7, <3>8
  <2>7. pc'[b] = "Backoff" /\ \A d \in BatchIds : d # b => pc'[d] = pc[d]
    BY <1>2, <2>1
  <2>8. Typed'
    <3>1. pc' \in [BatchIds -> {"Waiting", "Calling", "Reading", "Backoff", "Done"}]
      BY <1>2, <2>1
    <3>2. wake' \in [BatchIds -> 0..Deadline]
      <4>1. PICK delay \in Nat : now + delay < Deadline /\ wake' = [wake EXCEPT ![b] = now + delay]
        BY <1>15 DEF Retries
      <4>2. now \in 0..Deadline
        BY DEF Inv, Typed
      <4> DEFINE w == now + delay
      <4>3. w \in 0..Deadline
        BY <4>1, <4>2, PolicyFacts
      <4>4. wake' = [wake EXCEPT ![b] = w]
        BY <4>1
      <4> HIDE DEF w
      <4> QED BY <1>2, <4>3, <4>4
    <3>3. pending' \in [BatchIds -> Seq(Indexes)]
      BY <1>2, <1>4, <2>1
    <3> QED BY <1>7, <1>11, <2>6, <3>1, <3>2, <3>3 DEF Inv, Typed
  <2>9. ToSet(left) \subseteq ToSet(c)
    BY <1>3, <1>4, ToSetIs
  <2>10. Queues'
    BY <1>2, <1>4, <1>8, <1>10, <2>5, <2>7, <2>9 DEF Inv, Queues
  <2>11. /\ \A i \in ToSet(left) : /\ attempts'[i] = rpc_attempts'[b]
                                   /\ Entries[i].retry_safe /\ IsMutateRetryable(answer'[i].code)
         /\ rpc_attempts'[b] < RetryPolicy.max_attempts
    <3>1. \A i \in ToSet(left) : attempts[i] = rpc_attempts[b]
      BY <1>1, <2>9 DEF Inv, Tried
    <3>2. \A k \in again : CanRetry(c[k], verdict[k].status) /\ k \in DOMAIN c
      BY DEF again, RetriedAt
    <3>3. \A i \in ToSet(left) : /\ Entries[i].retry_safe /\ IsMutateRetryable(answer'[i].code)
                                 /\ attempts[i] < RetryPolicy.max_attempts
      BY <1>4, <2>6, <3>2 DEF CanRetry
    <3>4. \E i : i \in ToSet(left)
      <4>1. Len(left) \in Nat \ {0} /\ DOMAIN left = 1..Len(left)
        BY <1>4, <2>1, EmptySeq, LenProperties
      <4>2. 1 \in DOMAIN left
        BY <4>1
      <4> QED BY <4>2, ToSetIs
    <3>5. UNCHANGED <<rpc_attempts, attempts>>
      BY <1>7
    <3> QED BY <3>1, <3>3, <3>4, <3>5
  <2>12. Tried'
    <3>1. ASSUME NEW d \in BatchIds
          PROVE  /\ pc'[d] = "Waiting" => rpc_attempts'[d] = 0
                 /\ pc'[d] = "Backoff" => rpc_attempts'[d] < RetryPolicy.max_attempts
                 /\ \A i \in ToSet(pending'[d]) :
                      /\ attempts'[i] = rpc_attempts'[d]
                      /\ pc'[d] = "Backoff" => Entries[i].retry_safe /\ IsMutateRetryable(answer'[i].code)
                 /\ \A i \in ToSet(current'[d]) : attempts'[i] = rpc_attempts'[d]
                 /\ pc'[d] \in {"Calling", "Reading"} => rpc_attempts'[d] > 0
      <4>1. CASE d = b
        BY <1>8, <1>10, <2>5, <2>7, <2>11, <4>1
      <4>2. CASE d # b
        <5>1. pending'[d] = pending[d] /\ current'[d] = current[d] /\ pc'[d] = pc[d]
          BY <1>10, <2>5, <2>7, <4>2
        <5> QED BY <1>13, <2>6, <4>2, <5>1
      <4> QED BY <4>1, <4>2
    <3> QED BY <3>1 DEF Tried
  <2>13. Reported'
    <3> DEFINE o == telemetry.open \ {b}
               r == telemetry.retries + 1
    <3>1. telemetry' = [telemetry EXCEPT !.open = o, !.retries = r]
      BY <2>1
    <3>2. o = {d \in BatchIds : pc'[d] \in {"Calling", "Reading"}}
      BY <1>12, <2>7
    <3> HIDE DEF o, r
    <3>3. /\ DOMAIN telemetry' = {"attempts", "retries", "open", "finished"} /\ telemetry'.open = o
          /\ telemetry'.attempts = telemetry.attempts /\ telemetry'.finished = telemetry.finished
      BY <1>12, <3>1
    <3>4. rpc_attempts' = rpc_attempts
      BY <1>7
    <3>5. Total(rpc_attempts)' = Total(rpc_attempts)
      BY <3>4
    <3> QED BY <1>9, <1>12, <3>2, <3>3, <3>5 DEF Reported
  <2> QED BY <2>6, <2>8, <2>10, <2>12, <2>13 DEF Inv
<1> QED BY <1>7, <1>14, <1>15

-----------------------------------------------------------------------------
(* Every step.                                                             *)

\* A verdict that gives every entry of the attempt the same failure.
LEMMA SharedVerdict ==
  ASSUME NEW b \in BatchIds, NEW cause \in {"EntryStatus", "RpcStatus", "InvalidResponse"},
         NEW status \in Statuses, status.info \in Nat, status.code # "Ok"
  PROVE  VerdictOn(current[b], ForAll(b, cause, status))
BY DEF VerdictOn, ForAll

\* The statuses that verdicts are made of.
LEMMA FailureStatuses ==
  /\ Expired \in Statuses /\ Expired.info \in Nat /\ Expired.code # "Ok"
  /\ [code |-> "Unknown", info |-> 0] \in Statuses
  /\ \A status \in Failures : status \in Statuses /\ status.info \in Nat /\ status.code # "Ok"
  /\ OkStatus \in Statuses /\ OkStatus.info \in Nat
BY StatusCodes DEF Statuses

\* A turn of a batch's loop either gives up its entries or sends them.
LEMMA BeginAttemptInv ==
  ASSUME Inv, NEW b \in BatchIds, Running, pc[b] \in {"Waiting", "Backoff"}, BeginAttempt(b),
         UNCHANGED <<now, seen, wake, successful, answer, result>>
  PROVE  Inv'
<1>1. CASE now >= Deadline
  <2>1. /\ failures' = failures \cup DeadlineFailures(pending[b])
        /\ pending' = [pending EXCEPT ![b] = <<>>]
        /\ pc' = [pc EXCEPT ![b] = "Done"]
        /\ UNCHANGED <<current, deadline, rpc_attempts, attempts, telemetry>>
    BY <1>1, PolicyFacts DEF BeginAttempt, Inv, Typed
  <2> QED BY <2>1, BeginLateInv
<1>2. CASE now < Deadline
  <2>1. /\ rpc_attempts' = [rpc_attempts EXCEPT ![b] = @ + 1]
        /\ attempts' = [i \in Indexes |-> attempts[i] + (IF i \in ToSet(pending[b]) THEN 1 ELSE 0)]
        /\ current' = [current EXCEPT ![b] = pending[b]]
        /\ pending' = [pending EXCEPT ![b] = <<>>]
        /\ deadline' = [deadline EXCEPT ![b] = Min({now + Deadlines.attempt_timeout, Deadline})]
        /\ telemetry' = [telemetry EXCEPT !.attempts = @ + 1, !.open = @ \cup {b}]
        /\ pc' = [pc EXCEPT ![b] = "Calling"]
        /\ UNCHANGED failures
    <3>1. ~ (now >= Deadline)
      BY <1>2, PolicyFacts DEF Inv, Typed
    <3> QED BY <3>1, Zenon DEF BeginAttempt
  <2> QED BY <1>2, <2>1, BeginSendInv
<1>3. now >= Deadline \/ now < Deadline
  BY PolicyFacts DEF Inv, Typed
<1> QED BY <1>1, <1>2, <1>3

\* The end of a stream gives every entry its verdict.
LEMMA StreamVerdict ==
  ASSUME Inv, NEW b \in BatchIds, Running, pc[b] = "Reading",
         NEW end, end \in Failures \cup {OkStatus, Expired}, ConsumeStream(b, end)
  PROVE  Inv'
<1> DEFINE unknown == [code |-> "Unknown", info |-> 0]
           verdict == [k \in DOMAIN current[b] |->
    IF seen[b][k] # NoStatus THEN [cause |-> "EntryStatus", status |-> seen[b][k]]
    ELSE IF end # OkStatus THEN [cause |-> "RpcStatus", status |-> end]
    ELSE [cause |-> "InvalidResponse", status |-> [code |-> "Unknown", info |-> 0]]]
<1>1. EndAttempt(b, verdict)
  BY DEF ConsumeStream
<1>2. ASSUME NEW k \in DOMAIN current[b]
      PROVE  /\ verdict[k].cause \in {"EntryStatus", "RpcStatus", "InvalidResponse"}
             /\ verdict[k].status \in Statuses /\ verdict[k].status.info \in Nat
             /\ verdict[k].status # OkStatus => verdict[k].status.code # "Ok"
  <2>1. seen[b][k] \in Failures \cup {OkStatus, NoStatus}
    <3>1. /\ seen[b] \in Seq(Failures \cup {OkStatus, NoStatus}) /\ current[b] \in Seq(Indexes)
          /\ Len(seen[b]) = Len(current[b])
      BY DEF Inv, Typed, Queues
    <3>2. k \in 1..Len(seen[b])
      BY <3>1, LenProperties
    <3> QED BY <3>1, <3>2, ElementOfSeq
  <2>2. CASE seen[b][k] # NoStatus
    <3>1. verdict[k].cause = "EntryStatus" /\ verdict[k].status = seen[b][k]
      BY <2>2
    <3> HIDE DEF verdict
    <3> QED BY <2>1, <2>2, <3>1, FailureStatuses
  <2>3. CASE seen[b][k] = NoStatus /\ end # OkStatus
    <3>1. verdict[k].cause = "RpcStatus" /\ verdict[k].status = end
      BY <2>3
    <3> HIDE DEF verdict
    <3> QED BY <2>3, <3>1, FailureStatuses
  <2>4. CASE seen[b][k] = NoStatus /\ end = OkStatus
    <3>1. verdict[k].cause = "InvalidResponse" /\ verdict[k].status = unknown
      BY <2>4
    <3>2. unknown \in Statuses /\ unknown.info \in Nat /\ unknown.code # "Ok"
      BY FailureStatuses
    <3> HIDE DEF verdict, unknown
    <3> QED BY <3>1, <3>2
  <2> QED BY <2>2, <2>3, <2>4
<1> HIDE DEF verdict
<1>3. VerdictOn(current[b], verdict)
  BY <1>2 DEF VerdictOn
<1> QED BY <1>1, <1>3, EndAttemptInv

\* Every step keeps the invariant.
LEMMA NextInv == Inv /\ [Next]_vars => Inv'
<1> SUFFICES ASSUME Inv, [Next]_vars PROVE Inv'
  OBVIOUS
<1>1. ASSUME NEW b \in BatchIds, StartBatch(b) PROVE Inv'
  <2>1. Running /\ pc[b] \in {"Waiting", "Backoff"} /\ BeginAttempt(b)
        /\ UNCHANGED <<now, seen, wake, successful, answer, result>>
    BY <1>1 DEF StartBatch
  <2> QED BY <2>1, BeginAttemptInv
<1>2. ASSUME NEW b \in BatchIds, WakeBatch(b) PROVE Inv'
  <2>1. Running /\ pc[b] \in {"Waiting", "Backoff"} /\ BeginAttempt(b)
        /\ UNCHANGED <<now, seen, wake, successful, answer, result>>
    BY <1>2 DEF WakeBatch
  <2> QED BY <2>1, BeginAttemptInv
<1>3. ASSUME NEW b \in BatchIds, CallAccepted(b) PROVE Inv'
  BY <1>3, CallAcceptedInv
<1>4. ASSUME NEW b \in BatchIds, CallTimesOut(b) PROVE Inv'
  <2>1. Running /\ pc[b] \in {"Calling", "Reading"} /\ EndAttempt(b, ForAll(b, "RpcStatus", Expired))
    BY <1>4 DEF CallTimesOut
  <2>2. VerdictOn(current[b], ForAll(b, "RpcStatus", Expired))
    BY FailureStatuses, SharedVerdict
  <2> QED BY <2>1, <2>2, EndAttemptInv
<1>5. ASSUME NEW b \in BatchIds, NEW status \in Failures, CallFails(b, status) PROVE Inv'
  <2>1. Running /\ pc[b] \in {"Calling", "Reading"} /\ EndAttempt(b, ForAll(b, "RpcStatus", status))
    BY <1>5 DEF CallFails
  <2>2. VerdictOn(current[b], ForAll(b, "RpcStatus", status))
    BY FailureStatuses, SharedVerdict
  <2> QED BY <2>1, <2>2, EndAttemptInv
<1>6. ASSUME NEW b \in BatchIds, StreamTimesOut(b) PROVE Inv'
  BY <1>6, StreamVerdict DEF StreamTimesOut
<1>7. ASSUME NEW b \in BatchIds, NEW status \in Failures \cup {OkStatus}, StreamEnds(b, status) PROVE Inv'
  BY <1>7, StreamVerdict DEF StreamEnds
<1>8. ASSUME NEW b \in BatchIds, NEW status \in Failures \cup {OkStatus},
             NEW index \in -1..Len(current[b]), ReadResult(b, index, status)
      PROVE  Inv'
  <2> DEFINE k == index + 1
             unknown == [code |-> "Unknown", info |-> 0]
  <2>1. CASE k \in DOMAIN current[b] /\ seen[b][k] = NoStatus
    <3>1. /\ seen' = [seen EXCEPT ![b][k] = status] /\ Running /\ pc[b] = "Reading"
          /\ UNCHANGED <<now, pc, pending, current, deadline, wake, rpc_attempts, successful,
                         attempts, answer, failures, telemetry, result>>
      BY <1>8, <2>1, Zenon DEF ReadResult
    <3> HIDE DEF k
    <3> QED BY <2>1, <3>1, ResultKept
  <2>2. CASE ~(k \in DOMAIN current[b] /\ seen[b][k] = NoStatus)
    <3>1. Running /\ pc[b] \in {"Calling", "Reading"} /\ EndAttempt(b, ForAll(b, "InvalidResponse", unknown))
      BY <1>8, <2>2 DEF ReadResult
    <3>2. unknown \in Statuses /\ unknown.info \in Nat /\ unknown.code # "Ok"
      BY FailureStatuses
    <3> HIDE DEF k, unknown
    <3>3. VerdictOn(current[b], ForAll(b, "InvalidResponse", unknown))
      BY <3>2, SharedVerdict
    <3> QED BY <3>1, <3>3, EndAttemptInv
  <2> QED BY <2>1, <2>2
<1>9. CASE UNCHANGED vars
  <2>1. UNCHANGED <<now, pc, pending, current, seen, deadline, wake, rpc_attempts, successful,
                    attempts, answer, failures, telemetry, result>>
    BY <1>9 DEF vars
  <2>2. Typed' /\ Queues' /\ Tried'
    BY <2>1 DEF Inv, Typed, Queues, Tried
  <2>3. Placed' /\ Counted' /\ Failed'
    BY <2>1, SamePlaces DEF Inv
  <2>4. Total(rpc_attempts)' = Total(rpc_attempts) /\ Total(successful)' = Total(successful)
    BY <2>1
  <2>5. Reported'
    BY <2>1, <2>4 DEF Inv, Reported, Running
  <2> QED BY <2>2, <2>3, <2>5 DEF Inv
<1> QED BY <1>1, <1>2, <1>3, <1>4, <1>5, <1>6, <1>7, <1>8, <1>9, FinishInv, DropInv, TickInv DEF Next

\* Every reachable state of a bulk mutation satisfies the invariant, for any
\* entries, any limits and any answers of the service.
THEOREM MutateInvariant == Spec => []Inv
<1>1. Init => Inv
  BY InitInv
<1>2. Inv /\ [Next]_vars => Inv'
  BY NextInv
<1> QED BY <1>1, <1>2, PTL DEF Spec

-----------------------------------------------------------------------------
(* What the invariant says.                                                *)

\* Every variable of a bulk mutation keeps its type.
THEOREM TypesAreKept == Spec => []TypeOK
<1>1. Inv => TypeOK
  <2> SUFFICES ASSUME Inv PROVE TypeOK
    OBVIOUS
  <2>1. \A b \in BatchIds : ToSet(pending[b]) \cup ToSet(current[b]) \subseteq ToSet(Batches[b])
    BY DEF Inv, Queues
  <2>2. \A f \in failures : f.index \in Indexes
          /\ f.cause \in {"EntryStatus", "RpcStatus", "DeadlineExceeded", "InvalidResponse"}
    BY DEF Inv, Failed, FailureOf
  <2>3. \A b \in BatchIds : seen[b] \in Seq(Failures \cup {OkStatus, NoStatus})
    BY DEF Inv, Typed
  <2> QED BY <2>1, <2>2, <2>3 DEF TypeOK, Inv, Typed
<1> QED BY <1>1, MutateInvariant, PTL

\* A set in three parts.
InParts(B, Q, C, F) ==
  /\ Q \in SUBSET B /\ C \in SUBSET B /\ F \in SUBSET B
  /\ Q \cap C = {} /\ Q \cap F = {} /\ C \cap F = {}
  /\ \A i \in B : i \in Q \/ i \in C \/ i \in F

\* It has as many elements as its parts together.
LEMMA ThreeParts ==
  ASSUME NEW B, IsFiniteSet(B), NEW Q, NEW C, NEW F, InParts(B, Q, C, F)
  PROVE  /\ Cardinality(Q) \in Nat /\ Cardinality(C) \in Nat /\ Cardinality(F) \in Nat
         /\ Cardinality(B) = Cardinality(Q) + Cardinality(C) + Cardinality(F)
<1>1. IsFiniteSet(Q) /\ IsFiniteSet(C) /\ IsFiniteSet(F)
  BY FS_Subset DEF InParts
<1>2. Cardinality(Q) \in Nat /\ Cardinality(C) \in Nat /\ Cardinality(F) \in Nat
  BY <1>1, FS_CardinalityType
<1> DEFINE U == Q \cup C
<1>3. IsFiniteSet(U) /\ Cardinality(U) = Cardinality(Q) + Cardinality(C) - Cardinality(Q \cap C)
  BY <1>1, FS_Union
<1>4. U \cap F = {} /\ B = U \cup F /\ Q \cap C = {}
  BY DEF InParts
<1> HIDE DEF U
<1>5. Cardinality(U \cup F) = Cardinality(U) + Cardinality(F) - Cardinality(U \cap F)
  BY <1>1, <1>3, FS_Union
<1>6. Cardinality(Q \cap C) = 0 /\ Cardinality(U \cap F) = 0
  BY <1>4, FS_EmptySet
<1> QED BY <1>2, <1>3, <1>4, <1>5, <1>6

\* The entries that failures are of.
AreOf(N, G) == \A n : n \in N <=> \E f \in G : f.index = n

\* Failures are as many as the entries they are of.
LEMMA FailuresCount ==
  ASSUME Failed, NEW G \in SUBSET failures, NEW N, AreOf(N, G)
  PROVE  IsFiniteSet(G) /\ IsFiniteSet(N) /\ Cardinality(N) = Cardinality(G)
<1>1. IsFiniteSet(G)
  BY FS_Subset DEF Failed
<1> DEFINE h == [f \in G |-> f.index]
<1>2. \A f, g \in G : f.index = g.index => f = g
  BY DEF Failed
<1>3. h \in Bijection(G, N)
  <2>1. h \in [G -> N] /\ \A n \in N : \E f \in G : h[f] = n
    BY DEF AreOf
  <2>2. \A f, g \in G : h[f] = h[g] => f = g
    BY <1>2
  <2> HIDE DEF h
  <2>3. h \in Injection(G, N)
    BY ONLY <2>1, <2>2 DEF Injection, IsInjective
  <2>4. h \in Surjection(G, N)
    BY ONLY <2>1 DEF Surjection
  <2> QED BY ONLY <2>3, <2>4 DEF Bijection
<1>4. ExistsBijection(G, N)
  BY <1>3 DEF ExistsBijection
<1> QED BY <1>1, <1>4, FS_Bijection

\* Each entry of a batch is at every moment in one place only: to send, in the
\* running attempt, confirmed, or failed, whatever part of it the retries take.
THEOREM EntriesAreAccountedOnce == Spec => []EntriesAccountedOnce
<1>1. Inv => EntriesAccountedOnce
  <2> SUFFICES ASSUME Inv, NEW b \in BatchIds
               PROVE  /\ Len(pending[b]) + Len(current[b]) + successful[b] + Cardinality(FailedIn(b))
                           = Len(Batches[b])
                      /\ \A f \in FailedIn(b) : f.index \notin ToSet(pending[b]) \cup ToSet(current[b])
                      /\ \A f, g \in FailedIn(b) : f.index = g.index => f = g
    BY DEF EntriesAccountedOnce
  <2> DEFINE B == ToSet(Batches[b])
             P == ToSet(pending[b])
             R == ToSet(current[b])
             Q == P \cup R
             C == Confirmed \cap B
             F == FailedIndexes \cap B
  <2>1. /\ pending[b] \in Seq(Indexes) /\ current[b] \in Seq(Indexes)
        /\ IsInjective(pending[b]) /\ IsInjective(current[b])
        /\ P \subseteq B /\ R \subseteq B
        /\ pending[b] = <<>> \/ current[b] = <<>>
    <3>1. pc[b] \in {"Waiting", "Calling", "Reading", "Backoff", "Done"}
      BY DEF Inv, Typed
    <3> QED BY <3>1 DEF Inv, Typed, Queues
  <2>2. IsFiniteSet(P) /\ Cardinality(P) = Len(pending[b]) /\ IsFiniteSet(R) /\ Cardinality(R) = Len(current[b])
    BY <2>1, InjectiveLen
  <2>3. Cardinality(Q) = Len(pending[b]) + Len(current[b])
    <3>1. P \cap R = {}
      BY <2>1 DEF ToSet
    <3>2. Cardinality(Q) = Cardinality(P) + Cardinality(R) - Cardinality(P \cap R)
      BY <2>2, FS_Union
    <3>3. Len(pending[b]) \in Nat /\ Len(current[b]) \in Nat
      BY <2>1, LenProperties
    <3> HIDE DEF P, R, Q
    <3>4. Cardinality(P \cap R) = 0
      BY <3>1, FS_EmptySet
    <3> QED BY <2>2, <3>2, <3>3, <3>4
  <2>4. IsFiniteSet(B) /\ Cardinality(B) = Len(Batches[b])
    BY BatchFinite
  <2>5. \A i \in B : /\ i \in Q \/ i \in C \/ i \in F
                     /\ i \in Q => i \notin Confirmed /\ i \notin FailedIndexes
                     /\ ~(i \in C /\ i \in F)
    BY DEF Inv, Placed
  <2>6. successful[b] = Cardinality(C)
    BY DEF Inv, Counted
  <2>7. Cardinality(FailedIn(b)) = Cardinality(F)
    <3>1. F = {f.index : f \in FailedIn(b)}
      BY DEF FailedIndexes, FailedIn
    <3>2. FailedIn(b) \in SUBSET failures
      BY DEF FailedIn
    <3> DEFINE G == FailedIn(b)
    <3>3. AreOf(F, G) /\ G \in SUBSET failures
      BY <3>1, <3>2 DEF AreOf
    <3> HIDE DEF F, G
    <3>4. Failed
      BY DEF Inv
    <3>5. Cardinality(F) = Cardinality(G)
      BY <3>3, <3>4, FailuresCount
    <3> QED BY <3>5 DEF G
  <2>8. Q \in SUBSET B /\ C \in SUBSET B /\ F \in SUBSET B
    BY <2>1
  <2>9. \A f \in FailedIn(b) : f.index \notin P \cup R
    <3>1. \A f \in FailedIn(b) : f.index \in B /\ f.index \in FailedIndexes
      BY DEF FailedIn, FailedIndexes
    <3> HIDE DEF B, P, R
    <3> QED BY <2>5, <3>1 DEF Q
  <2>10. \A f, g \in FailedIn(b) : f.index = g.index => f = g
    BY DEF FailedIn, Inv, Failed
  <2>11. Q \cap C = {} /\ Q \cap F = {} /\ C \cap F = {}
    BY <2>5, <2>8
  <2> HIDE DEF B, Q, C, F
  <2>12. /\ Cardinality(Q) \in Nat /\ Cardinality(C) \in Nat /\ Cardinality(F) \in Nat
         /\ Cardinality(B) = Cardinality(Q) + Cardinality(C) + Cardinality(F)
    <3>1. \A i \in B : i \in Q \/ i \in C \/ i \in F
      BY <2>5
    <3>2. InParts(B, Q, C, F)
      BY <2>8, <2>11, <3>1 DEF InParts
    <3> QED BY ONLY <2>4, <3>2, ThreeParts
  <2> QED BY <2>3, <2>4, <2>6, <2>7, <2>9, <2>10, <2>12
<1> QED BY <1>1, MutateInvariant, PTL

\* Once all batches are done, an entry has failed exactly if it is not confirmed.
LEMMA DoneMeansSettled ==
  ASSUME Inv, \A b \in BatchIds : pc[b] = "Done"
  PROVE  \A i \in Indexes : i \in FailedIndexes <=> i \notin Confirmed
<1> TAKE i \in Indexes
<1>1. PICK b \in BatchIds : i \in ToSet(Batches[b])
  BY BatchFacts
<1>2. pending[b] = <<>> /\ current[b] = <<>>
  BY DEF Inv, Queues
<1>3. i \notin ToSet(pending[b]) /\ i \notin ToSet(current[b])
  BY <1>2 DEF ToSet
<1> QED BY <1>1, <1>3 DEF Inv, Placed

\* An operation that returns has reported as failed exactly the entries that the
\* service has not confirmed, by their index in the caller's bulk mutation.
THEOREM ReportsAreExact == Spec => []ReportsMatchAnswers
<1>1. Inv => ReportsMatchAnswers
  <2> SUFFICES ASSUME Inv, result \in {"Ok", "BulkMutation"}
               PROVE  {f.index : f \in failures} = {i \in Indexes : answer[i] # OkStatus}
    BY DEF ReportsMatchAnswers
  <2>1. \A b \in BatchIds : pc[b] = "Done"
    BY DEF Inv, Reported, Running
  <2>2. \A i \in Indexes : i \in FailedIndexes <=> i \notin Confirmed
    BY <2>1, DoneMeansSettled
  <2>3. FailedIndexes \subseteq Indexes
    BY DEF FailedIndexes, Inv, Failed, FailureOf
  <2>4. FailedIndexes = {i \in Indexes : answer[i] # OkStatus}
    BY <2>2, <2>3 DEF Confirmed
  <2> QED BY <2>4 DEF FailedIndexes
<1> QED BY <1>1, MutateInvariant, PTL

\* The client does not give up early on an entry that it may send again.
THEOREM RetriesAreExhausted == Spec => []RetriesExhausted
<1>1. Inv => RetriesExhausted
  BY DEF Inv, Failed, FailureOf, RetriesExhausted
<1> QED BY <1>1, MutateInvariant, PTL

\* When all batches are done, confirmed and failed entries add up to all entries.
LEMMA DoneAddsUp ==
  ASSUME Inv, \A b \in BatchIds : pc[b] = "Done"
  PROVE  /\ Total(successful) \in Nat /\ Cardinality(failures) \in Nat
         /\ Total(successful) + Cardinality(failures) = Len(Entries)
         /\ Cardinality(failures) = 0 <=> failures = {}
<1> DEFINE B == Indexes
           C == Confirmed
           F == FailedIndexes
           none == {}
           L == Len(Batches)
           part == [b \in 1..L |-> C \cap ToSet(Batches[b])]
           count == successful
<1>1. IsFiniteSet(B) /\ Cardinality(B) = Len(Entries) /\ Len(Entries) \in Nat
  <2>1. Indexes = 1..Len(Entries) /\ Len(Entries) \in Nat /\ Len(Entries) > 0
    BY BatchFacts
  <2>2. IsFiniteSet(1..Len(Entries))
        /\ Cardinality(1..Len(Entries)) = IF 1 > Len(Entries) THEN 0 ELSE Len(Entries) - 1 + 1
    BY <2>1, FS_Interval
  <2> QED BY <2>1, <2>2
<1>2. \A i \in B : i \in F <=> i \notin C
  BY DoneMeansSettled
<1>3. C \in SUBSET B /\ F \in SUBSET B
  BY DEF Confirmed, FailedIndexes, Inv, Failed, FailureOf
<1>4. IsFiniteSet(C)
  BY <1>1, <1>3, FS_Subset
<1>5. Cardinality(F) = Cardinality(failures) /\ IsFiniteSet(failures)
  <2> DEFINE G == failures
  <2>1. AreOf(F, G) /\ G \in SUBSET failures
    BY DEF AreOf, FailedIndexes
  <2>2. Failed
    BY DEF Inv
  <2> HIDE DEF F, G
  <2>3. Cardinality(F) = Cardinality(G) /\ IsFiniteSet(G)
    BY <2>1, <2>2, FailuresCount
  <2> QED BY <2>3 DEF G
<1>6. Total(count) = Cardinality(C)
  <2>1. BatchIds = 1..L /\ L \in Nat
    BY BatchFacts
  <2>2. part \in [1..L -> SUBSET C]
    OBVIOUS
  <2>3. count \in [1..L -> Nat]
    BY <2>1 DEF Inv, Typed
  <2>4. \A b \in 1..L : count[b] = Cardinality(part[b])
    BY <2>1 DEF Inv, Counted
  <2>5. \A b, c \in 1..L : b # c => part[b] \cap part[c] = {}
    BY <2>1, BatchFacts
  <2>6. \A x \in C : \E b \in 1..L : x \in part[b]
    BY <1>3, <2>1, BatchFacts
  <2> HIDE DEF part, count, C, L
  <2> QED BY ONLY <1>4, <2>1, <2>2, <2>3, <2>4, <2>5, <2>6, TotalOfParts
<1>7. InParts(B, none, C, F)
  BY <1>2, <1>3 DEF InParts
<1>8. Cardinality(none) = 0
  BY FS_EmptySet
<1> HIDE DEF B, none, C, F
<1>9. /\ Cardinality(none) \in Nat /\ Cardinality(C) \in Nat /\ Cardinality(F) \in Nat
      /\ Cardinality(B) = Cardinality(none) + Cardinality(C) + Cardinality(F)
  BY <1>1, <1>7, ThreeParts
<1>10. Cardinality(failures) = 0 <=> failures = {}
  BY <1>5, FS_EmptySet
<1> QED BY <1>1, <1>5, <1>6, <1>8, <1>9, <1>10

\* Observers see each attempt and the operation end once, and what a returning
\* operation reports adds up to all attempts and all entries.
THEOREM TelemetryAlwaysAddsUp == Spec => []TelemetryAddsUp
<1>1. Inv => TelemetryAddsUp
  <2> SUFFICES ASSUME Inv PROVE TelemetryAddsUp
    OBVIOUS
  <2>1. telemetry.attempts = Total(rpc_attempts)
        /\ telemetry.open = (IF Running THEN {b \in BatchIds : pc[b] \in {"Calling", "Reading"}} ELSE {})
    BY DEF Inv, Reported
  <2>2. CASE Running
    <3>1. Len(telemetry.finished) = 0
      BY <2>2 DEF Inv, Reported
    <3>2. result \notin {"Ok", "BulkMutation"}
      BY <2>2 DEF Running
    <3> QED BY <2>1, <2>2, <3>1, <3>2 DEF TelemetryAddsUp
  <2>3. CASE ~Running
    <3>1. PICK report :
            /\ telemetry.finished = <<report>>
            /\ result \in {"Ok", "BulkMutation"} =>
                 /\ \A b \in BatchIds : pc[b] = "Done"
                 /\ report.successful = Total(successful) /\ report.failed = Cardinality(failures)
                 /\ report.code = "Ok" <=> failures = {}
      BY <2>3 DEF Inv, Reported
    <3>2. Len(telemetry.finished) = 1 /\ telemetry.finished[1] = report
      BY <3>1
    <3>3. ASSUME result \in {"Ok", "BulkMutation"}
          PROVE  /\ report.successful + report.failed = Len(Entries)
                 /\ report.code = "Ok" <=> report.successful = Len(Entries)
      <4>1. /\ report.successful = Total(successful) /\ report.failed = Cardinality(failures)
            /\ report.code = "Ok" <=> failures = {}
        BY <3>1, <3>3
      <4>2. /\ Total(successful) \in Nat /\ Cardinality(failures) \in Nat
            /\ Total(successful) + Cardinality(failures) = Len(Entries)
            /\ Cardinality(failures) = 0 <=> failures = {}
        BY <3>1, <3>3, DoneAddsUp
      <4>3. Total(successful) = Len(Entries) <=> Cardinality(failures) = 0
        BY <4>2
      <4> QED BY <4>1, <4>2, <4>3
    <3> QED BY <2>1, <2>3, <3>2, <3>3 DEF TelemetryAddsUp
  <2> QED BY <2>2, <2>3
<1> QED BY <1>1, MutateInvariant, PTL

-----------------------------------------------------------------------------
(* What a step may never do.                                               *)

\* SendsJustified, of one step and one entry.
Justified(i) ==
  attempts'[i] # attempts[i] =>
    /\ now < Deadline /\ attempts'[i] = attempts[i] + 1
    /\ answer[i] # OkStatus
    /\ attempts[i] > 0 => /\ Entries[i].retry_safe
                          /\ IsMutateRetryable(answer[i].code)
                          /\ attempts[i] < RetryPolicy.max_attempts

\* An attempt that begins sends justified entries only.
LEMMA BeginJustified ==
  ASSUME Inv, NEW b \in BatchIds, pc[b] \in {"Waiting", "Backoff"}, BeginAttempt(b), NEW i \in Indexes
  PROVE  Justified(i)
<1>1. attempts[i] \in Nat /\ now \in 0..Deadline
  BY PolicyFacts DEF Inv, Typed
<1>2. CASE UNCHANGED attempts
  BY <1>2 DEF Justified
<1>3. CASE /\ now < Deadline
           /\ attempts' = [k \in Indexes |-> attempts[k] + (IF k \in ToSet(pending[b]) THEN 1 ELSE 0)]
  <2>1. CASE i \notin ToSet(pending[b])
    <3>1. attempts'[i] = attempts[i] + 0
      BY <1>3, <2>1
    <3> QED BY <1>1, <3>1 DEF Justified
  <2>2. CASE i \in ToSet(pending[b])
    <3>1. attempts'[i] = attempts[i] + 1
      BY <1>3, <2>2
    <3>2. answer[i] # OkStatus
      <4>1. i \in ToSet(Batches[b])
        BY <2>2 DEF Inv, Queues
      <4>2. i \notin Confirmed
        BY <2>2, <4>1 DEF Inv, Placed
      <4> QED BY <4>2 DEF Confirmed
    <3>3. /\ attempts[i] = rpc_attempts[b]
          /\ pc[b] = "Waiting" => rpc_attempts[b] = 0
          /\ pc[b] = "Backoff" => rpc_attempts[b] < RetryPolicy.max_attempts
                               /\ Entries[i].retry_safe /\ IsMutateRetryable(answer[i].code)
      BY <2>2 DEF Inv, Tried
    <3>4. attempts[i] > 0 => pc[b] = "Backoff"
      BY <1>1, <3>3
    <3> QED BY <1>3, <3>1, <3>2, <3>3, <3>4 DEF Justified
  <2> QED BY <2>1, <2>2
<1> QED BY <1>2, <1>3 DEF BeginAttempt

\* Other steps send nothing.
LEMMA EndSendsNothing ==
  ASSUME NEW b, NEW verdict, EndAttempt(b, verdict)
  PROVE  UNCHANGED attempts
BY DEF EndAttempt

\* Every step sends justified entries only.
LEMMA NextJustified ==
  ASSUME Inv, [Next]_vars, NEW i \in Indexes
  PROVE  Justified(i)
<1>1. ASSUME NEW b \in BatchIds, StartBatch(b) \/ WakeBatch(b) PROVE Justified(i)
  <2>1. pc[b] \in {"Waiting", "Backoff"} /\ BeginAttempt(b)
    BY <1>1 DEF StartBatch, WakeBatch
  <2> QED BY <2>1, BeginJustified
<1>2. ASSUME NEW b \in BatchIds, CallAccepted(b) \/ CallTimesOut(b) \/ StreamTimesOut(b)
      PROVE  UNCHANGED attempts
  BY <1>2, EndSendsNothing DEF CallAccepted, CallTimesOut, StreamTimesOut, ConsumeStream
<1>3. ASSUME NEW b \in BatchIds, NEW status \in Failures, CallFails(b, status) PROVE UNCHANGED attempts
  BY <1>3, EndSendsNothing DEF CallFails
<1>4. ASSUME NEW b \in BatchIds, NEW status, StreamEnds(b, status) PROVE UNCHANGED attempts
  BY <1>4, EndSendsNothing DEF StreamEnds, ConsumeStream
<1>5. ASSUME NEW b \in BatchIds, NEW status, NEW index, ReadResult(b, index, status)
      PROVE  UNCHANGED attempts
  BY <1>5, EndSendsNothing DEF ReadResult
<1>6. Finish \/ DropExecute \/ Tick \/ UNCHANGED vars => UNCHANGED attempts
  BY DEF Finish, DropExecute, Tick, vars
<1>7. UNCHANGED attempts => Justified(i)
  BY DEF Justified
<1> QED BY <1>1, <1>2, <1>3, <1>4, <1>5, <1>6, <1>7 DEF Next

\* An entry is sent only while the deadline is ahead and it is not confirmed;
\* sent again only if that is safe, useful and within its attempts.
THEOREM SendsAreJustified == Spec => SendsJustified
<1>1. Inv /\ [Next]_vars =>
        [\A i \in Indexes : attempts'[i] # attempts[i] =>
           /\ now < Deadline /\ attempts'[i] = attempts[i] + 1
           /\ answer[i] # OkStatus
           /\ attempts[i] > 0 => /\ Entries[i].retry_safe
                                 /\ IsMutateRetryable(answer[i].code)
                                 /\ attempts[i] < RetryPolicy.max_attempts]_vars
  BY NextJustified DEF Justified
<1> QED BY <1>1, MutateInvariant, PTL DEF Spec, SendsJustified
=============================================================================
