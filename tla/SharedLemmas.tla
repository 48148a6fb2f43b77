----------------------------- MODULE SharedLemmas -----------------------------
(***************************************************************************)
(* Lemmas that several proofs rest on: least and greatest elements, checks *)
(* in order, counting up to a bound, how a request is trimmed, where the   *)
(* cells of a row go, and how a bulk mutation is split.                    *)
(***************************************************************************)
EXTENDS RowMerge, Retry, SplitBatches, FiniteSetTheorems, SequenceTheorems, WellFoundedInduction, TLAPS

-----------------------------------------------------------------------------
(* Least and greatest elements.                                            *)

\* A nonempty set of naturals has a least element, which Min picks.
LEMMA MinIsLeast ==
  ASSUME NEW I \in SUBSET Nat, I # {}
  PROVE  Min(I) \in I /\ \A y \in I : Min(I) <= y
<1>1. PICK x \in I : \A y \in I : ~(<<y, x>> \in OpToRel(<, Nat))
  BY WFMin, NatLessThanWellFounded
<1>2. \A y \in I : ~(y < x)
  BY <1>1 DEF OpToRel
<1>3. \A y \in I : x <= y
  BY <1>2
<1> QED BY <1>3 DEF Min

\* A finite nonempty set of naturals has a greatest element.
LEMMA GreatestExists ==
  ASSUME NEW S \in SUBSET Nat, IsFiniteSet(S), S # {}
  PROVE  \E x \in S : \A y \in S : y <= x
<1> DEFINE HasGreatest(T) == \E x \in T : \A y \in T : y <= x
           Bad == {n \in Nat : \E T \in SUBSET S : T # {} /\ Cardinality(T) = n /\ ~HasGreatest(T)}
<1>1. SUFFICES ASSUME ~HasGreatest(S) PROVE FALSE
  OBVIOUS
<1>2. Bad # {} /\ Bad \in SUBSET Nat
  BY <1>1, FS_CardinalityType
<1>3. PICK n \in Bad : \A m \in Bad : n <= m
  <2> HIDE DEF Bad
  <2> QED BY <1>2, MinIsLeast
<1>4. PICK T \in SUBSET S : T # {} /\ Cardinality(T) = n /\ ~HasGreatest(T)
  OBVIOUS
<1>5. PICK x \in T : TRUE
  BY <1>4
<1>6. IsFiniteSet(T) /\ IsFiniteSet(T \ {x}) /\ Cardinality(T \ {x}) = n - 1
  BY <1>4, FS_Subset, FS_RemoveElement
<1>7. n - 1 \in Nat /\ n - 1 \notin Bad
  <2>1. Cardinality(T \ {x}) \in Nat
    BY <1>6, FS_CardinalityType
  <2> QED BY <1>3, <1>6, <2>1
<1>8. T \ {x} # {} => HasGreatest(T \ {x})
  BY <1>6, <1>7
<1>9. CASE T \ {x} = {}
  BY <1>4, <1>9
<1>10. CASE T \ {x} # {}
  <2>1. PICK y \in T \ {x} : \A z \in T \ {x} : z <= y
    BY <1>8, <1>10
  <2>2. x \in Nat /\ y \in Nat /\ \A z \in T : z \in Nat
    OBVIOUS
  <2>3. CASE x <= y
    BY <1>4, <2>1, <2>3
  <2>4. CASE y <= x
    BY <1>4, <2>1, <2>2, <2>4
  <2> QED BY <2>2, <2>3, <2>4
<1> QED BY <1>9, <1>10

-----------------------------------------------------------------------------
(* Validation.                                                             *)

\* A list of checks passes only if every check does.
LEMMA AllChecksPass ==
  ASSUME NEW checks, DOMAIN checks \in SUBSET Nat, FirstIssue(checks) = "None"
  PROVE  \A i \in DOMAIN checks : checks[i] = "None"
<1> DEFINE failing == {i \in DOMAIN checks : checks[i] # "None"}
<1>1. failing # {} => Min(failing) \in failing
  <2>1. failing \in SUBSET Nat
    OBVIOUS
  <2> HIDE DEF failing
  <2> QED BY <2>1, MinIsLeast
<1>2. FirstIssue(checks) = IF failing = {} THEN "None" ELSE checks[Min(failing)]
  BY DEF FirstIssue
<1> QED BY <1>1, <1>2

\* validate_policies accepts only policies that allow an attempt, and whose
\* timeouts leave it time.
LEMMA ValidPoliciesUsable ==
  ASSUME NEW retry, NEW deadlines, ValidPolicies(retry, deadlines)
  PROVE  retry.max_attempts > 0 /\ deadlines.operation_timeout > 0 /\ deadlines.attempt_timeout > 0
<1> DEFINE checks ==
             <<Check(retry.max_attempts > 0, "ZeroMaxAttempts"),
               Check(retry.initial_backoff > 0, "ZeroInitialBackoff"),
               Check(retry.max_backoff > 0, "ZeroMaxBackoff"),
               Check(retry.max_backoff >= retry.initial_backoff, "MaxBackoffTooSmall"),
               Check(retry.multiplier >= 1, "InvalidBackoffMultiplier"),
               Check(deadlines.operation_timeout > 0, "ZeroOperationTimeout"),
               Check(deadlines.attempt_timeout > 0, "ZeroAttemptTimeout")>>
<1>1. FirstIssue(checks) = "None"
  BY DEF ValidPolicies, PolicyIssue
<1>2. DOMAIN checks = 1..7
  OBVIOUS
<1>3. /\ checks[1] = Check(retry.max_attempts > 0, "ZeroMaxAttempts")
      /\ checks[6] = Check(deadlines.operation_timeout > 0, "ZeroOperationTimeout")
      /\ checks[7] = Check(deadlines.attempt_timeout > 0, "ZeroAttemptTimeout")
  OBVIOUS
<1> HIDE DEF checks
<1>4. \A i \in 1..7 : checks[i] = "None"
  BY <1>1, <1>2, AllChecksPass
<1>5. checks[1] = "None" /\ checks[6] = "None" /\ checks[7] = "None"
  BY <1>4
<1> QED BY <1>3, <1>5 DEF Check

-----------------------------------------------------------------------------
(* What trimming does, from one range up to a request.                     *)

\* Of a request whose caller ends no range there, no range does.
NonEmptyEnd(range) == range.end_key.kind = "None" \/ range.end_key.key # EmptyKey

\* trim_range keeps exactly the keys of the range beyond the progress, in both
\* directions, for a range whose upper bound is not the empty key.
LEMMA TrimRangeExact ==
  ASSUME NEW range \in ProtoRange, NonEmptyEnd(range),
         NEW p \in Key \ {EmptyKey}, NEW k \in Key \ {EmptyKey}, NEW rev \in BOOLEAN
  PROVE  (\E r \in TrimRange(range, p, rev) : InRange(r, k))
            <=> InRange(range, k) /\ Beyond(k, p, rev)
<1> USE DEF Key, EmptyKey, ProtoRange, ProtoBound
<1>1. CASE rev
  <2>1. CASE StartAtOrAfter(range.start_key, p)
    BY <1>1, <2>1 DEF TrimRange, StartAtOrAfter, InRange, AfterStart, Beyond
  <2>2. CASE ~StartAtOrAfter(range.start_key, p) /\ EndAtOrAfter(range.end_key, p)
    <3> DEFINE t == [range EXCEPT !.end_key = Open(p)]
    <3>1. TrimRange(range, p, rev) = {t}
      BY <1>1, <2>2 DEF TrimRange
    <3>2. t.start_key = range.start_key /\ t.end_key = Open(p)
      OBVIOUS
    <3>3. InRange(t, k) <=> AfterStart(range.start_key, k) /\ k < p
      BY <3>2 DEF InRange, BeforeEnd, Open
    <3>4. k < p => BeforeEnd(range.end_key, k)
      BY <2>2 DEF EndAtOrAfter, BeforeEnd
    <3> QED BY <1>1, <3>1, <3>3, <3>4 DEF InRange, Beyond
  <2>3. CASE ~StartAtOrAfter(range.start_key, p) /\ ~EndAtOrAfter(range.end_key, p)
    BY <1>1, <2>3 DEF TrimRange, EndAtOrAfter, InRange, BeforeEnd, Beyond, NonEmptyEnd
  <2> QED BY <2>1, <2>2, <2>3
<1>2. CASE ~rev
  <2>1. CASE EndAtOrBefore(range.end_key, p)
    BY <1>2, <2>1 DEF TrimRange, EndAtOrBefore, InRange, BeforeEnd, Beyond, NonEmptyEnd
  <2>2. CASE ~EndAtOrBefore(range.end_key, p) /\ StartAtOrBefore(range.start_key, p)
    <3> DEFINE t == [range EXCEPT !.start_key = Open(p)]
    <3>1. TrimRange(range, p, rev) = {t}
      BY <1>2, <2>2 DEF TrimRange
    <3>2. t.start_key = Open(p) /\ t.end_key = range.end_key
      OBVIOUS
    <3>3. InRange(t, k) <=> k > p /\ BeforeEnd(range.end_key, k)
      BY <3>2 DEF InRange, AfterStart, Open
    <3>4. k > p => AfterStart(range.start_key, k)
      BY <2>2 DEF StartAtOrBefore, AfterStart
    <3> QED BY <1>2, <3>1, <3>3, <3>4 DEF InRange, Beyond
  <2>3. CASE ~EndAtOrBefore(range.end_key, p) /\ ~StartAtOrBefore(range.start_key, p)
    BY <1>2, <2>3 DEF TrimRange, StartAtOrBefore, InRange, AfterStart, Beyond
  <2> QED BY <2>1, <2>2, <2>3
<1> QED BY <1>1, <1>2

\* trim_row_set keeps exactly the selected keys beyond the progress, and is
\* None only when nothing is selected beyond it.
LEMMA TrimRowSetExact ==
  ASSUME NEW rows \in RowSet, \A r \in rows.row_ranges : NonEmptyEnd(r),
         NEW p \in Key \ {EmptyKey}, NEW k \in Key \ {EmptyKey}, NEW rev \in BOOLEAN
  PROVE  (\E rs \in TrimRowSet(rows, p, rev) : InRowSet(rs, k))
            <=> InRowSet(rows, k) /\ Beyond(k, p, rev)
<1> DEFINE keys == {x \in rows.row_keys : Beyond(x, p, rev)}
           ranges == UNION {TrimRange(r, p, rev) : r \in rows.row_ranges}
           left == [row_keys |-> keys, row_ranges |-> ranges]
<1>1. (\E rs \in TrimRowSet(rows, p, rev) : InRowSet(rs, k)) <=> InRowSet(left, k)
  BY DEF TrimRowSet, InRowSet
<1>2. k \in keys <=> k \in rows.row_keys /\ Beyond(k, p, rev)
  OBVIOUS
<1>3. (\E r \in ranges : InRange(r, k))
        <=> \E r \in rows.row_ranges : \E t \in TrimRange(r, p, rev) : InRange(t, k)
  OBVIOUS
<1>4. \A r \in rows.row_ranges :
        (\E t \in TrimRange(r, p, rev) : InRange(t, k)) <=> InRange(r, k) /\ Beyond(k, p, rev)
  <2> TAKE r \in rows.row_ranges
  <2> r \in ProtoRange /\ NonEmptyEnd(r)
    BY DEF RowSet
  <2> QED BY TrimRangeExact
<1>5. InRowSet(left, k) <=> k \in keys \/ \E r \in ranges : InRange(r, k)
  BY DEF InRowSet
<1> HIDE DEF keys, ranges, left
<1> QED BY <1>1, <1>2, <1>3, <1>4, <1>5 DEF InRowSet

\* resume_request, unless the limit ends the read, selects exactly the keys of
\* the original request beyond the progress.
LEMMA ResumeRequestExact ==
  ASSUME NEW o \in Requests, \A rs \in o.rows : \A r \in rs.row_ranges : NonEmptyEnd(r),
         NEW p \in Key \ {EmptyKey}, NEW k \in Key \ {EmptyKey}, NEW n \in Nat,
         ~LimitReached(o, n)
  PROVE  (\E r \in ResumeRequest(o, p, n) : Selects(r, k))
            <=> Selects(o, k) /\ Beyond(k, p, o.reversed)
<1> DEFINE rows == IF o.rows = {} THEN {WholeTable} ELSE o.rows
           trimmed == UNION {TrimRowSet(rs, p, o.reversed) : rs \in rows}
           limited == [o EXCEPT !.rows_limit = IF o.rows_limit > 0 THEN o.rows_limit - n ELSE 0]
<1>1. o.reversed \in BOOLEAN
  BY DEF Requests
<1>2. \A rs \in rows : rs \in RowSet /\ \A r \in rs.row_ranges : NonEmptyEnd(r)
  <2>1. CASE o.rows = {}
    BY <2>1 DEF WholeTable, RowSet, ProtoRange, ProtoBound, NoBound, NonEmptyEnd
  <2>2. CASE o.rows # {}
    BY <2>2 DEF Requests
  <2> QED BY <2>1, <2>2
<1>3. Selects(o, k) <=> \E rs \in rows : InRowSet(rs, k)
  <2>1. CASE o.rows = {}
    BY <2>1 DEF Selects, WholeTable, InRowSet, InRange, AfterStart, BeforeEnd, NoBound
  <2>2. CASE o.rows # {}
    BY <2>2 DEF Selects
  <2> QED BY <2>1, <2>2
<1>4. (\E rs \in trimmed : InRowSet(rs, k)) <=> Selects(o, k) /\ Beyond(k, p, o.reversed)
  <2>1. \A rs \in rows : (\E t \in TrimRowSet(rs, p, o.reversed) : InRowSet(t, k))
                            <=> InRowSet(rs, k) /\ Beyond(k, p, o.reversed)
    BY <1>1, <1>2, TrimRowSetExact
  <2>2. (\E rs \in trimmed : InRowSet(rs, k))
          <=> \E rs \in rows : \E t \in TrimRowSet(rs, p, o.reversed) : InRowSet(t, k)
    OBVIOUS
  <2> HIDE DEF rows, trimmed
  <2> QED BY <1>3, <2>1, <2>2
<1>5. ResumeRequest(o, p, n) = {[limited EXCEPT !.rows = {rs}] : rs \in trimmed}
  <2>1. p # NoKey
    BY DEF Key, NoKey
  <2> QED BY <2>1 DEF ResumeRequest
<1>6. \A rs \in trimmed : Selects([limited EXCEPT !.rows = {rs}], k) <=> InRowSet(rs, k)
  <2> TAKE rs \in trimmed
  <2>1. [limited EXCEPT !.rows = {rs}].rows = {rs}
    BY DEF Requests
  <2> HIDE DEF trimmed, limited
  <2> QED BY <2>1 DEF Selects
<1> HIDE DEF trimmed, limited
<1> QED BY <1>4, <1>5, <1>6

\* A resumed request carries the rows still owed under the limit as its own
\* limit, never zero where there is a limit, and the direction stays.
LEMMA ResumeRequestLimit ==
  ASSUME NEW o \in Requests, NEW p, NEW n \in Nat, ~LimitReached(o, n),
         NEW r \in ResumeRequest(o, p, n)
  PROVE  /\ r.reversed = o.reversed /\ r.rows_limit \in Nat
         /\ IF o.rows_limit = 0 THEN r.rows_limit = 0
            ELSE r.rows_limit > 0 /\ r.rows_limit + n = o.rows_limit
<1> DEFINE owed == IF o.rows_limit > 0 THEN o.rows_limit - n ELSE 0
           limited == [o EXCEPT !.rows_limit = owed]
<1>1. /\ limited.rows_limit = owed /\ limited.reversed = o.reversed
      /\ \A rows : /\ [limited EXCEPT !.rows = rows].rows_limit = owed
                    /\ [limited EXCEPT !.rows = rows].reversed = o.reversed
  BY DEF Requests
<1>2. r = limited \/ \E rows : r = [limited EXCEPT !.rows = rows]
  BY DEF ResumeRequest
<1>3. r.rows_limit = owed /\ r.reversed = o.reversed
  <2> HIDE DEF limited, owed
  <2> QED BY <1>1, <1>2
<1>4. owed \in Nat /\ IF o.rows_limit = 0 THEN owed = 0 ELSE owed > 0 /\ owed + n = o.rows_limit
  BY DEF LimitReached, Requests
<1> HIDE DEF owed, limited
<1> QED BY <1>3, <1>4

\* resume_request makes at most one request of a request with one row set.
LEMMA ResumeRequestUnique ==
  ASSUME NEW o \in Requests, \A rs1, rs2 \in o.rows : rs1 = rs2, NEW p, NEW n \in Nat,
         NEW r1 \in ResumeRequest(o, p, n), NEW r2 \in ResumeRequest(o, p, n)
  PROVE  r1 = r2
<1> DEFINE rows == IF o.rows = {} THEN {WholeTable} ELSE o.rows
           trimmed == UNION {TrimRowSet(rs, p, o.reversed) : rs \in rows}
           limited == [o EXCEPT !.rows_limit = IF o.rows_limit > 0 THEN o.rows_limit - n ELSE 0]
<1>1. \A rs1, rs2 \in rows : rs1 = rs2
  OBVIOUS
<1>2. \A rs : \A t1, t2 \in TrimRowSet(rs, p, o.reversed) : t1 = t2
  BY DEF TrimRowSet
<1>3. \A t1, t2 \in trimmed : t1 = t2
  <2> HIDE DEF rows
  <2> QED BY <1>1, <1>2
<1>4. \/ r1 = limited /\ r2 = limited
      \/ /\ \E rs \in trimmed : r1 = [limited EXCEPT !.rows = {rs}]
         /\ \E rs \in trimmed : r2 = [limited EXCEPT !.rows = {rs}]
  BY DEF ResumeRequest
<1> HIDE DEF trimmed, limited, rows
<1> QED BY <1>3, <1>4

-----------------------------------------------------------------------------
(* Induction up to a bound.                                                *)

\* Induction up to a bound, for a set of numbers.
LEMMA UpTo ==
  ASSUME NEW N \in Nat, NEW S, 0 \in S, \A n \in 0..N : n \in S /\ n < N => n + 1 \in S
  PROVE  \A n \in 0..N : n \in S
<1> DEFINE Bad == {n \in 0..N : n \notin S}
<1>1. SUFFICES ASSUME Bad # {} PROVE FALSE
  OBVIOUS
<1>2. PICK m \in Bad : \A n \in Bad : m <= n
  <2>1. Bad \in SUBSET Nat
    OBVIOUS
  <2> HIDE DEF Bad
  <2> QED BY <1>1, <2>1, MinIsLeast
<1>3. m # 0 /\ m - 1 \in 0..N /\ m - 1 \notin Bad
  BY <1>2
<1>4. m - 1 \in S
  BY <1>3
<1> QED BY <1>2, <1>3, <1>4

-----------------------------------------------------------------------------
(* Flattening.                                                             *)

\* FlattenSeq is whatever sums up the sequences one after the other.
LEMMA FlattenIs ==
  ASSUME NEW P, Len(P) \in Nat \ {0}, NEW F,
         \A b \in 1..Len(P) : F[b] = IF b = 1 THEN P[b] ELSE F[b - 1] \o P[b]
  PROVE  FlattenSeq(P) = F[Len(P)]
<1> DEFINE Turn(g, b) == IF b = 1 THEN P[b] ELSE g[b - 1] \o P[b]
           Flattening(g) == g = [b \in 1..Len(P) |-> Turn(g, b)]
           flatten == CHOOSE g : Flattening(g)
<1>1. Flattening(flatten)
  <2> DEFINE g == [b \in 1..Len(P) |-> F[b]]
  <2>1. \A b \in 1..Len(P) : g[b] = Turn(g, b)
    <3> TAKE b \in 1..Len(P)
    <3>1. b # 1 => b - 1 \in 1..Len(P)
      OBVIOUS
    <3> QED BY <3>1
  <2>2. g = [b \in 1..Len(P) |-> g[b]]
    OBVIOUS
  <2> HIDE DEF g
  <2>3. Flattening(g)
    BY <2>1, <2>2
  <2> HIDE DEF Flattening
  <2> QED BY <2>3
<1>2. FlattenSeq(P) = flatten[Len(P)]
  BY DEF FlattenSeq
<1> HIDE DEF flatten
<1>3. \A b \in 1..Len(P) : flatten[b] = Turn(flatten, b)
  BY <1>1
<1> DEFINE Good == {b \in 0..Len(P) : b > 0 => flatten[b] = F[b]}
<1>4. 0 \in Good
  OBVIOUS
<1>5. ASSUME NEW b \in 0..Len(P), b \in Good, b < Len(P) PROVE b + 1 \in Good
  <2> DEFINE c == b + 1
  <2>1. c \in 1..Len(P) /\ c \in 0..Len(P) /\ c - 1 = b /\ (b = 0 <=> c = 1)
    BY <1>5
  <2> HIDE DEF c
  <2>2. flatten[c] = Turn(flatten, c) /\ F[c] = Turn(F, c)
    BY <1>3, <2>1
  <2>3. b # 0 => flatten[b] = F[b]
    BY <1>5
  <2>4. flatten[c] = F[c]
    BY <2>1, <2>2, <2>3
  <2> QED BY <2>1, <2>4 DEF c
<1>6. Len(P) \in Good
  <2> HIDE DEF Good
  <2>1. \A b \in 0..Len(P) : b \in Good
    BY <1>4, <1>5, UpTo
  <2> QED BY <2>1
<1> QED BY <1>2, <1>6

\* Of sequences that are all empty but one, that one is left.
LEMMA FlattenOne ==
  ASSUME NEW S, NEW P \in Seq(Seq(S)), NEW k \in 1..Len(P),
         \A b \in 1..Len(P) : b # k => P[b] = <<>>
  PROVE  FlattenSeq(P) = P[k]
<1> DEFINE F == [b \in 1..Len(P) |-> IF b < k THEN <<>> ELSE P[k]]
<1>1. Len(P) \in Nat \ {0} /\ P[k] \in Seq(S)
  OBVIOUS
<1>2. P[k] \o <<>> = P[k] /\ <<>> \o P[k] = P[k] /\ <<>> \o <<>> = <<>>
  BY <1>1, ConcatEmptySeq
<1>3. ASSUME NEW b \in 1..Len(P) PROVE F[b] = IF b = 1 THEN P[b] ELSE F[b - 1] \o P[b]
  <2>1. F[b] = IF b < k THEN <<>> ELSE P[k]
    OBVIOUS
  <2>2. b # 1 => F[b - 1] = IF b - 1 < k THEN <<>> ELSE P[k]
    <3>1. b # 1 => b - 1 \in 1..Len(P)
      OBVIOUS
    <3> QED BY <3>1
  <2> HIDE DEF F
  <2>3. CASE b < k
    <3>1. b - 1 < k /\ P[b] = <<>>
      BY <2>3
    <3> QED BY <1>2, <2>1, <2>2, <2>3, <3>1
  <2>4. CASE b = k
    <3>1. b - 1 < k /\ ~(b < k)
      BY <2>4
    <3> QED BY <1>2, <2>1, <2>2, <2>4, <3>1
  <2>5. CASE b > k
    <3>1. ~(b - 1 < k) /\ ~(b < k) /\ b # 1 /\ P[b] = <<>>
      BY <2>5
    <3> QED BY <1>2, <2>1, <2>2, <3>1
  <2> QED BY <2>3, <2>4, <2>5
<1>4. F[Len(P)] = P[k]
  BY <1>1
<1> HIDE DEF F
<1>5. FlattenSeq(P) = F[Len(P)]
  BY <1>1, <1>3, FlattenIs
<1> QED BY <1>4, <1>5

\* Of empty sequences, nothing is left.
LEMMA FlattenNone ==
  ASSUME NEW S, NEW P \in Seq(Seq(S)), \A b \in 1..Len(P) : P[b] = <<>>
  PROVE  FlattenSeq(P) = <<>>
<1>1. CASE Len(P) = 0
  <2>1. P = <<>>
    BY <1>1, EmptySeq
  <2> QED BY <1>1, <2>1 DEF FlattenSeq
<1>2. CASE Len(P) # 0
  <2>1. 1 \in 1..Len(P)
    BY <1>2
  <2>2. FlattenSeq(P) = P[1]
    BY <2>1, FlattenOne
  <2> QED BY <2>1, <2>2
<1> QED BY <1>1, <1>2

\* Any sequences can be summed up one after the other.
LEMMA FlatteningExists ==
  ASSUME NEW S, NEW P \in Seq(Seq(S))
  PROVE  \E F : /\ \A b \in 1..Len(P) : F[b] = IF b = 1 THEN P[b] ELSE F[b - 1] \o P[b]
                /\ \A b \in 1..Len(P) : F[b] \in Seq(S)
<1> DEFINE Sums(g, N) == \A b \in 1..N : /\ g[b] = IF b = 1 THEN P[b] ELSE g[b - 1] \o P[b]
                                         /\ g[b] \in Seq(S)
           Good == {N \in 0..Len(P) : \E g : Sums(g, N)}
<1>1. 0 \in Good
  OBVIOUS
<1>2. ASSUME NEW N \in 0..Len(P), N \in Good, N < Len(P) PROVE N + 1 \in Good
  <2>1. PICK g : Sums(g, N)
    BY <1>2
  <2> DEFINE m == N + 1
             h == [b \in 1..m |-> IF b = m THEN (IF m = 1 THEN P[m] ELSE g[N] \o P[m]) ELSE g[b]]
  <2>2. m \in 0..Len(P) /\ m \in 1..Len(P) /\ m - 1 = N /\ (m # 1 => N \in 1..N) /\ P[m] \in Seq(S)
    BY <1>2
  <2>3. ASSUME NEW b \in 1..m, b # m
        PROVE  h[b] = (IF b = 1 THEN P[b] ELSE h[b - 1] \o P[b]) /\ h[b] \in Seq(S)
    <3>1. b \in 1..N /\ h[b] = g[b] /\ (b # 1 => h[b - 1] = g[b - 1])
      BY <2>3
    <3> HIDE DEF h, m
    <3> QED BY <2>1, <3>1
  <2>4. h[m] = (IF m = 1 THEN P[m] ELSE h[m - 1] \o P[m]) /\ h[m] \in Seq(S)
    <3>1. h[m] = IF m = 1 THEN P[m] ELSE g[N] \o P[m]
      BY <2>2
    <3>2. m # 1 => h[m - 1] = g[N]
      BY <2>2
    <3>3. m # 1 => g[N] \in Seq(S)
      BY <2>1, <2>2
    <3> HIDE DEF h, m
    <3>4. m # 1 => g[N] \o P[m] \in Seq(S)
      BY <2>2, <3>3
    <3> QED BY <2>2, <3>1, <3>2, <3>4
  <2>5. Sums(h, m)
    <3> HIDE DEF h, m
    <3> QED BY <2>3, <2>4
  <2>6. m \in Good
    <3> HIDE DEF h, m, Sums
    <3> QED BY <2>2, <2>5
  <2> QED BY <2>6
<1>3. Len(P) \in Good
  <2>1. Len(P) \in Nat
    OBVIOUS
  <2> HIDE DEF Good
  <2>2. \A N \in 0..Len(P) : N \in Good
    BY <1>1, <1>2, <2>1, UpTo
  <2> QED BY <2>1, <2>2
<1> QED BY <1>3

\* One more sequence comes at the end of what is flattened.
LEMMA FlattenAppend ==
  ASSUME NEW S, NEW P \in Seq(Seq(S)), NEW s \in Seq(S)
  PROVE  FlattenSeq(Append(P, s)) = FlattenSeq(P) \o s /\ FlattenSeq(P) \in Seq(S)
<1> DEFINE Q == Append(P, s)
           n == Len(P)
<1>1. /\ n \in Nat /\ Q \in Seq(Seq(S)) /\ Len(Q) = n + 1 /\ Q[n + 1] = s
      /\ \A b \in 1..n : Q[b] = P[b]
  OBVIOUS
<1>2. PICK F : /\ \A b \in 1..Len(Q) : F[b] = IF b = 1 THEN Q[b] ELSE F[b - 1] \o Q[b]
               /\ \A b \in 1..Len(Q) : F[b] \in Seq(S)
  BY <1>1, FlatteningExists
<1>3. FlattenSeq(Q) = F[n + 1]
  <2>1. Len(Q) \in Nat \ {0}
    BY <1>1
  <2> HIDE DEF Q
  <2>2. FlattenSeq(Q) = F[Len(Q)]
    BY <1>2, <2>1, FlattenIs
  <2> QED BY <1>1, <2>2
<1>4. CASE n = 0
  <2>1. P = <<>> /\ FlattenSeq(P) = <<>>
    <3>1. P = <<>>
      BY <1>4, EmptySeq
    <3> QED BY <1>4, <3>1 DEF FlattenSeq
  <2>2. F[1] = s
    BY <1>1, <1>2, <1>4
  <2>3. <<>> \o s = s /\ <<>> \in Seq(S)
    BY ConcatEmptySeq
  <2>4. (n + 1) = 1
    BY <1>4
  <2> HIDE DEF Q, n
  <2> QED BY <1>3, <2>1, <2>2, <2>3, <2>4 DEF Q
<1>5. CASE n # 0
  <2> HIDE DEF Q
  <2>1. n \in 1..Len(Q) /\ n + 1 \in 1..Len(Q) /\ n + 1 # 1 /\ (n + 1) - 1 = n
    BY <1>1, <1>5
  <2>2. F[n + 1] = F[n] \o s /\ F[n] \in Seq(S)
    <3>1. F[n + 1] = F[(n + 1) - 1] \o Q[n + 1]
      BY <1>2, <2>1
    <3> QED BY <1>1, <1>2, <2>1, <3>1
  <2>3. FlattenSeq(P) = F[n]
    <3>1. \A b \in 1..Len(P) : F[b] = IF b = 1 THEN P[b] ELSE F[b - 1] \o P[b]
      BY <1>1, <1>2
    <3>2. Len(P) \in Nat \ {0}
      BY <1>1, <1>5
    <3>3. FlattenSeq(P) = F[Len(P)]
      BY <3>1, <3>2, FlattenIs
    <3> QED BY <3>3
  <2> QED BY <1>3, <2>2, <2>3 DEF Q
<1> QED BY <1>1, <1>4, <1>5

-----------------------------------------------------------------------------
(* Where the cells of a row go.                                            *)

\* A cell goes to the column with its qualifier, or to a new last column when
\* there is none.
LEMMA AddToColumnsCases ==
  ASSUME NEW S, NEW columns \in Seq(S), NEW qualifier, NEW cell
  PROVE  \/ \E i \in DOMAIN columns :
              /\ columns[i].qualifier = qualifier
              /\ AddToColumns(columns, qualifier, cell)
                   = [columns EXCEPT ![i] = [columns[i] EXCEPT !.cells = Append(columns[i].cells, cell)]]
         \/ /\ \A i \in DOMAIN columns : columns[i].qualifier # qualifier
            /\ AddToColumns(columns, qualifier, cell)
                 = Append(columns, [qualifier |-> qualifier, cells |-> <<cell>>])
<1> DEFINE I == {i \in 1..Len(columns) : columns[i].qualifier = qualifier}
<1>1. CASE I # {}
  <2>1. I \in SUBSET Nat /\ \A i \in I : i \in DOMAIN columns /\ columns[i].qualifier = qualifier
    OBVIOUS
  <2>2. PICK k \in I : k = Min(I)
    <3> HIDE DEF I
    <3> QED BY <1>1, <2>1, MinIsLeast
  <2>3. k # 0 /\ AddToColumns(columns, qualifier, cell)
          = [columns EXCEPT ![k] = [columns[k] EXCEPT !.cells = Append(columns[k].cells, cell)]]
    BY <1>1, <2>2 DEF AddToColumns, FindOrPush, SelectInSeq
  <2> QED BY <2>1, <2>3
<1>2. CASE I = {}
  <2>1. \A i \in DOMAIN columns : columns[i].qualifier # qualifier
    BY <1>2
  <2>2. SelectInSeq(columns, LAMBDA c : c.qualifier = qualifier) = 0
    BY <1>2 DEF SelectInSeq
  <2>3. AddToColumns(columns, qualifier, cell) = Append(columns, [qualifier |-> qualifier, cells |-> <<cell>>])
    BY <2>2 DEF AddToColumns, FindOrPush
  <2> QED BY <2>1, <2>3
<1> QED BY <1>1, <1>2

\* The families after a cell went to the i-th, or to a new last one.
Grown(families, i, qualifier, cell) ==
  [families EXCEPT ![i] = [families[i] EXCEPT !.columns =
     AddToColumns(families[i].columns, qualifier, cell)]]
Extended(families, family, qualifier, cell) ==
  Append(families, [name |-> family, columns |-> AddToColumns(<<>>, qualifier, cell)])

\* The same one level up: a cell goes to its family, or to a new last family.
LEMMA AddCellCases ==
  ASSUME NEW S, NEW families \in Seq(S), NEW family, NEW qualifier, NEW cell
  PROVE  \/ \E i \in DOMAIN families :
              /\ families[i].name = family
              /\ AddCell(families, family, qualifier, cell) = Grown(families, i, qualifier, cell)
         \/ /\ \A i \in DOMAIN families : families[i].name # family
            /\ AddCell(families, family, qualifier, cell) = Extended(families, family, qualifier, cell)
<1> DEFINE I == {i \in 1..Len(families) : families[i].name = family}
<1>1. CASE I # {}
  <2>1. I \in SUBSET Nat /\ \A i \in I : i \in DOMAIN families /\ families[i].name = family
    OBVIOUS
  <2>2. PICK k \in I : k = Min(I)
    <3> HIDE DEF I
    <3> QED BY <1>1, <2>1, MinIsLeast
  <2>3. k # 0 /\ AddCell(families, family, qualifier, cell) = Grown(families, k, qualifier, cell)
    BY <1>1, <2>2 DEF Grown, AddCell, FindOrPush, SelectInSeq
  <2> QED BY <2>1, <2>3
<1>2. CASE I = {}
  <2>1. \A i \in DOMAIN families : families[i].name # family
    BY <1>2
  <2>2. SelectInSeq(families, LAMBDA f : f.name = family) = 0
    BY <1>2 DEF SelectInSeq
  <2>3. AddCell(families, family, qualifier, cell) = Extended(families, family, qualifier, cell)
    BY <2>2 DEF Extended, AddCell, FindOrPush
  <2> QED BY <2>1, <2>3
<1> QED BY <1>1, <1>2

\* What a row keeps of a cell that was sent, and where the cell belongs.
Content(cell) == [meta |-> cell.meta, value |-> cell.value]
IsOf(cell, family, qualifier) == cell.family = family /\ cell.qualifier = qualifier

\* A cell appended to the cells sent belongs to its family and qualifier alone.
LEMMA SentToAppend ==
  ASSUME NEW S, NEW T, \A c \in S : Content(c) \in T,
         NEW cells \in Seq(S), NEW cell \in S, NEW family, NEW qualifier
  PROVE  /\ SentTo(cells, family, qualifier) \in Seq(T)
         /\ SentTo(Append(cells, cell), family, qualifier)
              = IF IsOf(cell, family, qualifier) THEN Append(SentTo(cells, family, qualifier), Content(cell))
                ELSE SentTo(cells, family, qualifier)
<1> DEFINE Part(c) == IF IsOf(c, family, qualifier) THEN <<Content(c)>> ELSE <<>>
           n == Len(cells)
           all == Append(cells, cell)
           P == [i \in DOMAIN cells |-> Part(cells[i])]
           Q == [i \in DOMAIN all |-> Part(all[i])]
<1>1. /\ SentTo(cells, family, qualifier) = FlattenSeq(P)
      /\ SentTo(all, family, qualifier) = FlattenSeq(Q)
  BY DEF SentTo, IsOf, Content
<1>2. \A c \in S : Part(c) \in Seq(T)
  <2> TAKE c \in S
  <2>1. Content(c) \in T
    OBVIOUS
  <2> QED BY <2>1
<1>3. /\ all \in Seq(S) /\ Len(all) = n + 1 /\ n \in Nat /\ DOMAIN cells = 1..n /\ DOMAIN all = 1..(n + 1)
      /\ \A i \in 1..n : all[i] = cells[i] /\ cells[i] \in S
      /\ all[n + 1] = cell
  OBVIOUS
<1>4. Part(cell) \in Seq(T)
  BY <1>2
<1> HIDE DEF Part, n, all
<1>5. P \in Seq(Seq(T)) /\ Len(P) = n /\ \A i \in 1..n : P[i] = Part(cells[i])
  <2>1. P \in [1..n -> Seq(T)]
    BY <1>2, <1>3
  <2> QED BY <1>3, <2>1
<1>6. Q = Append(P, Part(cell))
  <2>1. /\ Q \in Seq(Seq(T)) /\ Len(Q) = n + 1
        /\ \A i \in 1..(n + 1) : Q[i] = IF i = n + 1 THEN Part(cell) ELSE Part(cells[i])
    <3>1. \A i \in 1..(n + 1) : all[i] \in S
      BY <1>3
    <3>2. Q \in [1..(n + 1) -> Seq(T)]
      BY <1>2, <1>3, <3>1
    <3>3. \A i \in 1..(n + 1) : Q[i] = IF i = n + 1 THEN Part(cell) ELSE Part(cells[i])
      <4> TAKE i \in 1..(n + 1)
      <4>1. i = n + 1 \/ i \in 1..n
        BY <1>3
      <4> QED BY <1>3, <4>1
    <3> QED BY <1>3, <3>2, <3>3
  <2> DEFINE A == Append(P, Part(cell))
  <2>2. /\ A \in Seq(Seq(T)) /\ Len(A) = n + 1
        /\ \A i \in 1..(n + 1) : A[i] = IF i = n + 1 THEN Part(cell) ELSE Part(cells[i])
    <3> HIDE DEF P
    <3> QED BY <1>3, <1>4, <1>5
  <2> HIDE DEF Q, A
  <2>3. Q = A
    BY <2>1, <2>2, SeqEqual
  <2> QED BY <2>3 DEF A
<1> HIDE DEF P, Q
<1>7. FlattenSeq(Q) = FlattenSeq(P) \o Part(cell) /\ FlattenSeq(P) \in Seq(T)
  BY <1>4, <1>5, <1>6, FlattenAppend
<1>8. FlattenSeq(P) \o <<>> = FlattenSeq(P) /\ \A c : FlattenSeq(P) \o <<c>> = Append(FlattenSeq(P), c)
  BY <1>7
<1> QED BY <1>1, <1>7, <1>8 DEF Part, all

-----------------------------------------------------------------------------
(* How a bulk mutation is split.                                           *)

\* The loop of split_batches, as the state after each entry.
Filling(fill, entries, base, policy) ==
  fill = [n \in 0..Len(entries) |->
            IF n = 0 THEN [batches |-> <<>>, current |-> NoBatch(base)]
            ELSE PlaceEntry(fill[n - 1], entries[n], n, base, policy)]

\* The loop has a state after each entry.
LEMMA FillingExists ==
  ASSUME NEW entries, Len(entries) \in Nat, NEW base, NEW policy
  PROVE  \E fill : Filling(fill, entries, base, policy)
<1> DEFINE start == [batches |-> <<>>, current |-> NoBatch(base)]
           Turn(g, n) == IF n = 0 THEN start ELSE PlaceEntry(g[n - 1], entries[n], n, base, policy)
           So(N) == \E g : g = [n \in 0..N |-> Turn(g, n)]
           Good == {N \in 0..Len(entries) : So(N)}
<1> HIDE DEF start
<1>1. So(0)
  <2> DEFINE g == [n \in 0..0 |-> start]
  <2>1. g = [n \in 0..0 |-> Turn(g, n)]
    OBVIOUS
  <2> QED BY <2>1
<1>2. ASSUME NEW N \in 0..Len(entries), So(N), N < Len(entries) PROVE So(N + 1)
  <2>1. PICK g : g = [n \in 0..N |-> Turn(g, n)]
    BY <1>2
  <2> DEFINE h == [n \in 0..(N + 1) |-> IF n = N + 1 THEN PlaceEntry(g[N], entries[N + 1], N + 1, base, policy) ELSE g[n]]
  <2>2. \A n \in 0..(N + 1) : h[n] = Turn(h, n)
    <3>1. ASSUME NEW n \in 0..N PROVE h[n] = Turn(h, n)
      <4>1. h[n] = Turn(g, n)
        BY <2>1
      <4>2. CASE n = 0
        BY <4>1, <4>2
      <4>3. CASE n # 0
        <5>1. n - 1 \in 0..N /\ h[n - 1] = g[n - 1]
          BY <4>3
        <5> QED BY <4>1, <4>3, <5>1
      <4> QED BY <4>2, <4>3
    <3>2. h[N + 1] = Turn(h, N + 1)
      <4>1. h[N] = g[N] /\ N + 1 # 0 /\ N + 1 - 1 = N
        OBVIOUS
      <4> QED BY <4>1
    <3> QED BY <3>1, <3>2
  <2>3. h = [n \in 0..(N + 1) |-> Turn(h, n)]
    <3>1. h = [n \in 0..(N + 1) |-> h[n]]
      OBVIOUS
    <3> HIDE DEF h
    <3> QED BY <2>2, <3>1
  <2> HIDE DEF h
  <2> QED BY <2>3
<1>3. \A N \in 0..Len(entries) : N \in Good
  <2>1. 0 \in Good
    BY <1>1
  <2>2. ASSUME NEW N \in 0..Len(entries), N \in Good, N < Len(entries) PROVE N + 1 \in Good
    <3>1. So(N + 1)
      BY <1>2, <2>2
    <3>2. N + 1 \in 0..Len(entries)
      BY <2>2
    <3> HIDE DEF So
    <3> QED BY <3>1, <3>2
  <2> HIDE DEF Good
  <2> QED BY <2>1, <2>2, UpTo
<1>4. So(Len(entries))
  BY <1>3
<1> QED BY <1>4 DEF Filling, start

\* What FillBatches returns is the state after the last entry.
LEMMA FillBatchesIs ==
  ASSUME NEW entries, Len(entries) \in Nat, NEW base, NEW policy
  PROVE  \E fill : /\ Filling(fill, entries, base, policy)
                   /\ FillBatches(entries, base, policy) = fill[Len(entries)]
<1> DEFINE fill == CHOOSE g : Filling(g, entries, base, policy)
<1>1. Filling(fill, entries, base, policy)
  BY FillingExists
<1>2. FillBatches(entries, base, policy) = fill[Len(entries)]
  BY DEF FillBatches, Filling
<1> HIDE DEF fill
<1> QED BY <1>1, <1>2

\* The batches are the entries 1 to n in order, cut into nonempty runs.
Cuts(cut, batches, n) ==
  /\ cut \in [0..Len(batches) -> 0..n]
  /\ cut[0] = 0 /\ cut[Len(batches)] = n
  /\ \A b \in 1..Len(batches) :
       /\ cut[b - 1] < cut[b] /\ Len(batches[b]) = cut[b] - cut[b - 1]
       /\ \A k \in 1..Len(batches[b]) : batches[b][k] = cut[b - 1] + k

\* An entry that begins a batch keeps the runs.
LEMMA CutsBegin ==
  ASSUME NEW n \in Nat, NEW P \in Seq(Seq(Nat)), NEW cut, Cuts(cut, P, n)
  PROVE  \E c : Cuts(c, Append(P, <<n + 1>>), n + 1)
<1> DEFINE one == <<n + 1>>
           Q == Append(P, one)
           c == [j \in 0..(Len(P) + 1) |-> IF j = Len(P) + 1 THEN n + 1 ELSE cut[j]]
<1>1. /\ Len(P) \in Nat /\ Len(Q) = Len(P) + 1 /\ Q[Len(P) + 1] = one
      /\ \A b \in 1..Len(P) : Q[b] = P[b]
  OBVIOUS
<1>2. Len(one) = 1 /\ one[1] = n + 1
  OBVIOUS
<1>3. /\ c \in [0..(Len(P) + 1) -> 0..(n + 1)] /\ c[Len(P) + 1] = n + 1
      /\ \A j \in 0..Len(P) : c[j] = cut[j]
  BY <1>1 DEF Cuts
<1> HIDE DEF Q, c, one
<1>4. ASSUME NEW b \in 1..Len(Q)
      PROVE  /\ c[b - 1] < c[b] /\ Len(Q[b]) = c[b] - c[b - 1]
             /\ \A k \in 1..Len(Q[b]) : Q[b][k] = c[b - 1] + k
  <2>1. CASE b = Len(P) + 1
    <3>1. c[b - 1] = n /\ c[b] = n + 1
      BY <1>1, <1>3, <2>1 DEF Cuts
    <3>2. Q[b] = one
      BY <1>1, <2>1
    <3>3. Len(Q[b]) = 1 /\ Q[b][1] = n + 1
      BY <1>2, <3>2
    <3>4. \A k \in 1..1 : k = 1
      OBVIOUS
    <3>5. \A k \in 1..Len(Q[b]) : Q[b][k] = n + k
      BY <3>3, <3>4
    <3> QED BY <3>1, <3>3, <3>5
  <2>2. CASE b \in 1..Len(P)
    <3>1. b - 1 \in 0..Len(P) /\ b \in 0..Len(P)
      BY <1>1, <2>2
    <3>2. c[b - 1] = cut[b - 1] /\ c[b] = cut[b] /\ Q[b] = P[b]
      BY <1>1, <1>3, <2>2, <3>1
    <3> QED BY <2>2, <3>2 DEF Cuts
  <2> QED BY <1>1, <2>1, <2>2
<1>5. c[0] = 0 /\ c[Len(Q)] = n + 1
  BY <1>1, <1>3 DEF Cuts
<1>6. Cuts(c, Q, n + 1)
  BY <1>1, <1>3, <1>4, <1>5 DEF Cuts
<1> QED BY <1>6 DEF Q, one

\* So does an entry that joins the last batch.
LEMMA CutsJoin ==
  ASSUME NEW n \in Nat, NEW B \in Seq(Seq(Nat)), NEW e \in Seq(Nat), NEW cut, Cuts(cut, Append(B, e), n)
  PROVE  \E c : Cuts(c, Append(B, Append(e, n + 1)), n + 1)
<1> DEFINE P == Append(B, e)
           f == Append(e, n + 1)
           Q == Append(B, f)
           L == Len(B) + 1
           c == [j \in 0..L |-> IF j = L THEN n + 1 ELSE cut[j]]
<1>1. /\ Len(B) \in Nat /\ L \in Nat /\ L - 1 = Len(B) /\ Len(P) = L /\ Len(Q) = L /\ P[L] = e /\ Q[L] = f
      /\ \A b \in 1..Len(B) : Q[b] = B[b] /\ P[b] = B[b]
  OBVIOUS
<1>2. Len(e) \in Nat /\ Len(f) = Len(e) + 1 /\ f[Len(e) + 1] = n + 1 /\ \A k \in 1..Len(e) : f[k] = e[k]
  OBVIOUS
<1>3. Cuts(cut, P, n)
  OBVIOUS
<1> HIDE DEF P, f, Q
<1>4. /\ cut \in [0..L -> 0..n] /\ cut[0] = 0 /\ cut[L] = n
      /\ \A b \in 1..L :
           /\ cut[b - 1] < cut[b] /\ Len(P[b]) = cut[b] - cut[b - 1]
           /\ \A k \in 1..Len(P[b]) : P[b][k] = cut[b - 1] + k
  BY <1>1, <1>3 DEF Cuts
<1>5. /\ c \in [0..L -> 0..(n + 1)] /\ c[L] = n + 1
      /\ \A j \in 0..Len(B) : c[j] = cut[j]
  BY <1>1, <1>4
<1> HIDE DEF c, L
<1>6. ASSUME NEW b \in 1..L
      PROVE  /\ c[b - 1] < c[b] /\ Len(Q[b]) = c[b] - c[b - 1]
             /\ \A k \in 1..Len(Q[b]) : Q[b][k] = c[b - 1] + k
  <2>1. CASE b = L
    <3>1. c[b - 1] = cut[L - 1] /\ c[b] = n + 1
      BY <1>1, <1>5, <2>1
    <3>2. Q[b] = f
      BY <1>1, <2>1
    <3>3. L \in 1..L /\ L - 1 \in 0..L
      BY <1>1
    <3>4. /\ cut[L - 1] \in 0..n /\ cut[L - 1] < n /\ Len(P[L]) = n - cut[L - 1]
          /\ \A k \in 1..Len(P[L]) : P[L][k] = cut[L - 1] + k
      BY <1>4, <3>3
    <3>5. Len(e) = n - cut[L - 1] /\ \A k \in 1..Len(e) : e[k] = cut[L - 1] + k
      BY <1>1, <3>4
    <3>6. \A k \in 1..Len(f) : f[k] = cut[L - 1] + k
      <4> TAKE k \in 1..Len(f)
      <4>1. CASE k = Len(e) + 1
        <5> DEFINE lo == cut[L - 1]
                   m == Len(e)
        <5>1. lo \in 0..n /\ m = n - lo /\ k = m + 1 /\ f[k] = n + 1
          BY <1>2, <3>4, <3>5, <4>1
        <5> HIDE DEF lo, m
        <5>2. f[k] = lo + k
          BY ONLY <5>1, n \in Nat
        <5> QED BY <5>2 DEF lo
      <4>2. CASE k \in 1..Len(e)
        BY <1>2, <3>5, <4>2
      <4> QED BY <1>2, <4>1, <4>2
    <3>7. cut[L - 1] \in Nat /\ cut[L - 1] < n + 1 /\ Len(f) = (n + 1) - cut[L - 1]
      <4> DEFINE lo == cut[L - 1]
      <4>1. lo \in 0..n /\ lo < n /\ Len(e) = n - lo /\ Len(f) = Len(e) + 1
        BY <1>2, <3>4, <3>5
      <4> HIDE DEF lo
      <4>2. lo \in Nat /\ lo < n + 1 /\ Len(f) = (n + 1) - lo
        BY ONLY <4>1, n \in Nat
      <4> QED BY <4>2 DEF lo
    <3>8. c[b - 1] < c[b] /\ Len(Q[b]) = c[b] - c[b - 1]
      BY ONLY <3>1, <3>2, <3>7
    <3>9. \A k \in 1..Len(Q[b]) : Q[b][k] = c[b - 1] + k
      BY ONLY <3>1, <3>2, <3>6
    <3> QED BY <3>8, <3>9
  <2>2. CASE b \in 1..Len(B)
    <3>1. b - 1 \in 0..Len(B) /\ b \in 0..Len(B)
      BY <1>1, <2>2
    <3>2. c[b - 1] = cut[b - 1] /\ c[b] = cut[b] /\ Q[b] = P[b]
      BY <1>1, <1>5, <2>2, <3>1
    <3> QED BY <1>4, <3>2
  <2> QED BY <1>1, <2>1, <2>2
<1>7. c[0] = 0
  BY <1>1, <1>4, <1>5
<1>8. Cuts(c, Q, n + 1)
  BY <1>1, <1>5, <1>6, <1>7 DEF Cuts
<1> QED BY <1>8 DEF Q, f

\* split_batches cuts the entries into nonempty runs, in order.
LEMMA SplitIsCut ==
  ASSUME NEW entries, Len(entries) \in Nat, NEW base, NEW policy
  PROVE  /\ Split(entries, base, policy) \in Seq(Seq(Nat))
         /\ \E cut : Cuts(cut, Split(entries, base, policy), Len(entries))
<1> DEFINE Pieces(acc) == IF acc.current.entries = <<>> THEN acc.batches
                          ELSE Append(acc.batches, acc.current.entries)
           Right(acc, n) == /\ DOMAIN acc = {"batches", "current"}
                            /\ acc.batches \in Seq(Seq(Nat)) /\ acc.current.entries \in Seq(Nat)
                            /\ n = 0 => acc.current.entries = <<>>
                            /\ n > 0 => acc.current.entries # <<>>
                            /\ \E cut : Cuts(cut, Pieces(acc), n)
<1>1. PICK fill : /\ Filling(fill, entries, base, policy)
                  /\ FillBatches(entries, base, policy) = fill[Len(entries)]
  BY FillBatchesIs
<1>2. Right(fill[0], 0)
  <2>1. fill[0] = [batches |-> <<>>, current |-> NoBatch(base)]
    BY <1>1 DEF Filling
  <2>2. NoBatch(base).entries = <<>>
    BY DEF NoBatch
  <2>3. <<>> \in Seq(Seq(Nat)) /\ <<>> \in Seq(Nat)
    OBVIOUS
  <2>4. Cuts([j \in 0..0 |-> 0], <<>>, 0)
    BY DEF Cuts
  <2>5. DOMAIN fill[0] = {"batches", "current"} /\ fill[0].batches = <<>> /\ fill[0].current.entries = <<>>
    BY <2>1, <2>2
  <2>6. Pieces(fill[0]) = <<>>
    BY <2>5
  <2> QED BY <2>3, <2>4, <2>5, <2>6
<1>3. ASSUME NEW n \in 0..Len(entries), Right(fill[n], n), n < Len(entries)
      PROVE  Right(fill[n + 1], n + 1)
  <2> DEFINE acc == fill[n]
             next == fill[n + 1]
             B == acc.batches
             e == acc.current.entries
  <2>1. next = PlaceEntry(acc, entries[n + 1], n + 1, base, policy)
    <3>1. n + 1 \in 0..Len(entries) /\ n + 1 # 0 /\ n + 1 - 1 = n
      BY <1>3
    <3> QED BY <1>1, <3>1 DEF Filling
  <2>2. PICK cut : Cuts(cut, Pieces(acc), n)
    BY <1>3
  <2>3. \A c : AddEntry(c, entries[n + 1], n + 1).entries = Append(c.entries, n + 1)
    BY DEF AddEntry
  <2>4. NoBatch(base).entries = <<>> /\ Append(<<>>, n + 1) = <<n + 1>>
    BY DEF NoBatch
  <2>5. B \in Seq(Seq(Nat)) /\ e \in Seq(Nat) /\ n + 1 \in Nat /\ n \in Nat
    BY <1>3
  <2>6. CASE ExceedsTarget(acc.current, entries[n + 1], policy)
    <3>1. e # <<>> /\ Pieces(acc) = Append(B, e)
      BY <2>6 DEF ExceedsTarget
    <3>2. /\ DOMAIN next = {"batches", "current"}
          /\ next.batches = Append(B, e) /\ next.current.entries = <<n + 1>>
      <4> DEFINE added == AddEntry(NoBatch(base), entries[n + 1], n + 1)
      <4>1. next = [batches |-> Append(B, e), current |-> added]
        BY <2>1, <2>6 DEF PlaceEntry
      <4>2. added.entries = <<n + 1>>
        BY <2>3, <2>4
      <4> HIDE DEF added
      <4> QED BY <4>1, <4>2
    <3>3. Append(B, e) \in Seq(Seq(Nat)) /\ <<n + 1>> \in Seq(Nat) /\ <<n + 1>> # <<>>
      BY <2>5
    <3>4. \E c : Cuts(c, Append(Append(B, e), <<n + 1>>), n + 1)
      <4>1. Cuts(cut, Append(B, e), n)
        BY <2>2, <3>1
      <4> HIDE DEF Pieces, acc, e, B
      <4> QED BY <2>5, <3>3, <4>1, CutsBegin
    <3>5. Pieces(next) = Append(Append(B, e), <<n + 1>>)
      BY <3>2, <3>3
    <3> HIDE DEF Pieces, acc, next, e, B
    <3>6. Right(next, n + 1)
      BY <2>5, <3>2, <3>3, <3>4, <3>5
    <3> QED BY <3>6 DEF next, Pieces
  <2>7. CASE ~ExceedsTarget(acc.current, entries[n + 1], policy)
    <3>1. /\ DOMAIN next = {"batches", "current"}
          /\ next.batches = B /\ next.current.entries = Append(e, n + 1)
      <4> DEFINE added == AddEntry(acc.current, entries[n + 1], n + 1)
      <4>1. next = [acc EXCEPT !.current = added]
        BY <2>1, <2>7 DEF PlaceEntry
      <4>2. added.entries = Append(e, n + 1)
        BY <2>3
      <4>3. DOMAIN acc = {"batches", "current"}
        BY <1>3
      <4> HIDE DEF added, acc, next, Pieces
      <4> QED BY <4>1, <4>2, <4>3
    <3>2. Append(e, n + 1) \in Seq(Nat) /\ Append(e, n + 1) # <<>>
      <4> HIDE DEF e
      <4> QED BY <2>5, AppendProperties
    <3>3. Pieces(next) = Append(B, Append(e, n + 1))
      BY <3>1, <3>2
    <3>4. \E c : Cuts(c, Append(B, Append(e, n + 1)), n + 1)
      <4>1. CASE e = <<>>
        <5>1. Cuts(cut, B, n)
          BY <2>2, <4>1
        <5>2. Append(e, n + 1) = <<n + 1>>
          BY <4>1, <2>4
        <5> HIDE DEF Pieces, acc, e, B
        <5> QED BY <2>5, <5>1, <5>2, CutsBegin
      <4>2. CASE e # <<>>
        <5>1. Cuts(cut, Append(B, e), n)
          BY <2>2, <4>2
        <5> HIDE DEF Pieces, acc, e, B
        <5> QED BY <2>5, <5>1, CutsJoin
      <4> QED BY <4>1, <4>2
    <3> HIDE DEF Pieces, acc, next, e, B
    <3>5. Right(next, n + 1)
      BY <2>5, <3>1, <3>2, <3>3, <3>4
    <3> QED BY <3>5 DEF next, Pieces
  <2> QED BY <2>6, <2>7
<1>4. Right(fill[Len(entries)], Len(entries))
  <2> DEFINE Good == {n \in 0..Len(entries) : Right(fill[n], n)}
  <2> HIDE DEF Right
  <2>1. 0 \in Good
    BY <1>2
  <2>2. \A n \in 0..Len(entries) : n \in Good /\ n < Len(entries) => n + 1 \in Good
    BY <1>3
  <2>3. \A n \in 0..Len(entries) : n \in Good
    <3> HIDE DEF Good
    <3> QED BY <2>1, <2>2, UpTo
  <2> QED BY <2>3
<1>5. Split(entries, base, policy) = Pieces(fill[Len(entries)])
  BY <1>1 DEF Split
<1>6. Pieces(fill[Len(entries)]) \in Seq(Seq(Nat))
  BY <1>4
<1> QED BY <1>4, <1>5, <1>6

\* The runs never go back.
LEMMA CutsRise ==
  ASSUME NEW n \in Nat, NEW P \in Seq(Seq(Nat)), NEW cut, Cuts(cut, P, n)
  PROVE  \A c \in 0..Len(P) : \A b \in 0..c : cut[b] <= cut[c]
<1> DEFINE Good == {c \in 0..Len(P) : \A b \in 0..c : cut[b] <= cut[c]}
<1>1. Len(P) \in Nat /\ \A b \in 0..Len(P) : cut[b] \in Nat
  <2>1. cut \in [0..Len(P) -> 0..n]
    BY DEF Cuts
  <2> QED BY <2>1
<1>2. 0 \in Good
  BY <1>1
<1>3. ASSUME NEW c \in 0..Len(P), c \in Good, c < Len(P) PROVE c + 1 \in Good
  <2>1. c + 1 \in 1..Len(P) /\ c + 1 \in 0..Len(P) /\ c + 1 - 1 = c
    BY <1>1, <1>3
  <2>2. cut[c] < cut[c + 1]
    BY <2>1 DEF Cuts
  <2>3. \A b \in 0..(c + 1) : cut[b] <= cut[c + 1]
    <3> TAKE b \in 0..(c + 1)
    <3>1. CASE b = c + 1
      BY <1>1, <2>1, <3>1
    <3>2. CASE b \in 0..c
      <4>1. cut[b] <= cut[c] /\ b \in 0..Len(P)
        BY <1>3, <3>2
      <4>2. cut[b] \in Nat /\ cut[c] \in Nat /\ cut[c + 1] \in Nat
        BY <1>1, <2>1, <4>1
      <4> QED BY <2>2, <4>1, <4>2
    <3> QED BY <3>1, <3>2
  <2> QED BY <2>1, <2>3
<1>4. \A c \in 0..Len(P) : c \in Good
  <2> HIDE DEF Good
  <2> QED BY <1>1, <1>2, <1>3, UpTo
<1> QED BY <1>4

\* Every entry is in exactly one batch, once; no batch is empty.
LEMMA SplitDeals ==
  ASSUME NEW entries, Len(entries) \in Nat, NEW base, NEW policy,
         NEW P, P = Split(entries, base, policy)
  PROVE  /\ P \in Seq(Seq(1..Len(entries)))
         /\ \A b \in DOMAIN P : P[b] # <<>> /\ IsInjective(P[b])
         /\ \A i \in 1..Len(entries) : \E b \in DOMAIN P : i \in ToSet(P[b])
         /\ \A b, c \in DOMAIN P : \A i : i \in ToSet(P[b]) /\ i \in ToSet(P[c]) => b = c
<1> DEFINE n == Len(entries)
<1>1. P \in Seq(Seq(Nat)) /\ \E cut : Cuts(cut, P, n)
  BY SplitIsCut
<1>2. PICK cut : Cuts(cut, P, n)
  BY <1>1
<1> HIDE DEF n
<1>3. n \in Nat /\ Len(P) \in Nat /\ DOMAIN P = 1..Len(P) /\ \A b \in 0..Len(P) : cut[b] \in 0..n
  <2>1. cut \in [0..Len(P) -> 0..n]
    BY <1>2 DEF Cuts
  <2>2. n \in Nat
    BY DEF n
  <2>3. P \in Seq(Seq(Nat))
    BY <1>1
  <2>4. Len(P) \in Nat /\ DOMAIN P = 1..Len(P)
    BY <2>3
  <2> QED BY <2>1, <2>2, <2>4
<1>4. ASSUME NEW b \in DOMAIN P
      PROVE  /\ b \in 1..Len(P) /\ b - 1 \in 0..Len(P) /\ b \in 0..Len(P)
             /\ cut[b - 1] < cut[b] /\ Len(P[b]) = cut[b] - cut[b - 1] /\ DOMAIN P[b] = 1..Len(P[b])
             /\ P[b] \in Seq(Nat)
             /\ \A k \in DOMAIN P[b] : P[b][k] = cut[b - 1] + k
  <2>1. b \in 1..Len(P) /\ b - 1 \in 0..Len(P) /\ b \in 0..Len(P)
    BY <1>3
  <2>2. P[b] \in Seq(Nat) /\ DOMAIN P[b] = 1..Len(P[b])
    BY <1>1, <2>1
  <2> QED BY <1>2, <2>1, <2>2 DEF Cuts
<1>5. ASSUME NEW b \in DOMAIN P, NEW i
      PROVE  i \in ToSet(P[b]) <=> i \in Nat /\ cut[b - 1] < i /\ i <= cut[b]
  <2>1. cut[b - 1] \in Nat /\ cut[b] \in Nat
    BY <1>3, <1>4
  <2>2. ASSUME i \in ToSet(P[b]) PROVE i \in Nat /\ cut[b - 1] < i /\ i <= cut[b]
    <3>1. PICK k \in DOMAIN P[b] : i = P[b][k]
      BY <2>2 DEF ToSet
    <3>2. k \in 1..(cut[b] - cut[b - 1]) /\ i = cut[b - 1] + k
      BY <1>4, <3>1
    <3> QED BY <2>1, <3>2
  <2>3. ASSUME i \in Nat, cut[b - 1] < i, i <= cut[b] PROVE i \in ToSet(P[b])
    <3>1. i - cut[b - 1] \in 1..(cut[b] - cut[b - 1])
      BY <2>1, <2>3
    <3>2. i - cut[b - 1] \in DOMAIN P[b] /\ P[b][i - cut[b - 1]] = cut[b - 1] + (i - cut[b - 1])
      BY <1>4, <3>1
    <3>3. P[b][i - cut[b - 1]] = i
      BY <2>1, <2>3, <3>2
    <3> QED BY <3>2, <3>3 DEF ToSet
  <2> QED BY <2>2, <2>3
<1>6. ASSUME NEW b \in DOMAIN P
      PROVE  P[b] \in Seq(1..n) /\ P[b] # <<>> /\ IsInjective(P[b])
  <2>1. cut[b - 1] \in Nat /\ cut[b] \in 0..n
    BY <1>3, <1>4
  <2> DEFINE s == P[b]
             lo == cut[b - 1]
             hi == cut[b]
  <2>2. /\ s \in Seq(Nat) /\ lo < hi /\ Len(s) = hi - lo /\ DOMAIN s = 1..Len(s)
        /\ \A k \in DOMAIN s : s[k] = lo + k
    BY <1>4
  <2> HIDE DEF s, lo, hi
  <2>5. lo \in Nat /\ hi \in 0..n
    BY <2>1 DEF lo, hi
  <2>7. \A k \in 1..Len(s) : s[k] \in 1..n
    <3> TAKE k \in 1..Len(s)
    <3>1. s[k] = lo + k /\ k \in 1..(hi - lo)
      BY <2>2
    <3> QED BY <1>3, <2>5, <3>1
  <2>8. s \in Seq(1..n)
    <3>1. Len(s) \in Nat /\ s = [k \in 1..Len(s) |-> s[k]]
      BY <2>2
    <3>2. s \in [1..Len(s) -> 1..n]
      BY <2>7, <3>1
    <3> QED BY <3>1, <3>2, SeqDef
  <2>9. \A x, y \in DOMAIN s : s[x] = s[y] => x = y
    <3> TAKE x, y \in DOMAIN s
    <3>1. s[x] = lo + x /\ s[y] = lo + y /\ x \in Nat /\ y \in Nat
      BY <2>2
    <3> QED BY <2>5, <3>1
  <2>10. s # <<>>
    BY <2>2, <2>5
  <2>3. P[b] \in Seq(1..n)
    BY <2>8 DEF s
  <2>4. \A x, y \in DOMAIN P[b] : P[b][x] = P[b][y] => x = y
    BY <2>9 DEF s
  <2>6. P[b] # <<>>
    BY <2>10 DEF s
  <2> QED BY <2>3, <2>4, <2>6 DEF IsInjective
<1>7. P \in Seq(Seq(1..n))
  <2>1. P \in Seq(Seq(Nat))
    BY <1>1
  <2>2. P = [b \in 1..Len(P) |-> P[b]]
    BY <2>1
  <2>3. P \in [1..Len(P) -> Seq(1..n)]
    BY <1>3, <1>6, <2>2
  <2> QED BY <1>3, <2>3, SeqDef
<1>8. ASSUME NEW i \in 1..n PROVE \E b \in DOMAIN P : i \in ToSet(P[b])
  <2> DEFINE reach == {b \in 0..Len(P) : i <= cut[b]}
  <2>1. Len(P) \in reach /\ reach \in SUBSET Nat
    BY <1>2, <1>3 DEF Cuts
  <2>2. PICK b \in reach : \A c \in reach : b <= c
    <3> HIDE DEF reach
    <3> QED BY <2>1, MinIsLeast
  <2>3. b # 0
    BY <1>2, <2>2 DEF Cuts
  <2>4. b \in DOMAIN P /\ b - 1 \in 0..Len(P)
    BY <1>3, <2>3
  <2>5. b - 1 \notin reach
    BY <1>3, <2>2
  <2>6. cut[b - 1] < i /\ i <= cut[b] /\ i \in Nat
    BY <1>3, <2>2, <2>4, <2>5
  <2> QED BY <1>5, <2>4, <2>6
<1>9. ASSUME NEW b \in DOMAIN P, NEW c \in DOMAIN P, NEW i, i \in ToSet(P[b]), i \in ToSet(P[c]), b < c
      PROVE  FALSE
  <2>1. b \in 0..(c - 1) /\ c - 1 \in 0..Len(P)
    BY <1>3, <1>9
  <2>2. cut[b] <= cut[c - 1]
    BY <1>1, <1>2, <1>3, <2>1, CutsRise
  <2>3. i \in Nat /\ i <= cut[b] /\ cut[c - 1] < i
    BY <1>5, <1>9
  <2>4. cut[b] \in Nat /\ cut[c - 1] \in Nat
    BY <1>3, <2>1
  <2> QED BY <2>2, <2>3, <2>4
<1>10. \A b, c \in DOMAIN P : \A i : i \in ToSet(P[b]) /\ i \in ToSet(P[c]) => b = c
  BY <1>3, <1>9
<1> QED BY <1>6, <1>7, <1>8, <1>10 DEF n

\* The indexes 1 to n, in order.
InOrder(n) == [i \in 1..n |-> i]

\* A run appended to the indexes before it.
LEMMA InOrderConcat ==
  ASSUME NEW m \in Nat, NEW n \in Nat, m <= n, NEW s \in Seq(Nat), Len(s) = n - m,
         \A k \in 1..Len(s) : s[k] = m + k
  PROVE  InOrder(m) \o s = InOrder(n)
<1> DEFINE lhs == InOrder(m) \o s
           rhs == InOrder(n)
<1>1. /\ InOrder(m) \in Seq(Nat) /\ Len(InOrder(m)) = m /\ \A i \in 1..m : InOrder(m)[i] = i
      /\ rhs \in Seq(Nat) /\ Len(rhs) = n /\ \A i \in 1..n : rhs[i] = i
  <2>1. \A j \in Nat : InOrder(j) \in [1..j -> Nat] /\ \A i \in 1..j : InOrder(j)[i] = i
    BY DEF InOrder
  <2>2. \A j \in Nat : InOrder(j) \in Seq(Nat)
    BY <2>1, SeqDef
  <2>3. \A j \in Nat : Len(InOrder(j)) = j
    BY <2>1, <2>2, LenProperties
  <2> QED BY <2>1, <2>2, <2>3
<1>2. /\ lhs \in Seq(Nat) /\ Len(lhs) = n
      /\ \A i \in 1..n : lhs[i] = IF i <= m THEN InOrder(m)[i] ELSE s[i - m]
  <2>1. Len(InOrder(m)) + Len(s) = n
    BY <1>1
  <2> DEFINE head == InOrder(m)
  <2>2. head \in Seq(Nat) /\ s \in Seq(Nat) /\ Len(head) = m
    BY <1>1
  <2> HIDE DEF head
  <2>3. /\ head \o s \in Seq(Nat) /\ Len(head \o s) = Len(head) + Len(s)
        /\ \A i \in 1..(Len(head) + Len(s)) :
             (head \o s)[i] = IF i <= Len(head) THEN head[i] ELSE s[i - Len(head)]
    BY <2>2, ConcatProperties
  <2> QED BY <2>1, <2>2, <2>3 DEF head
<1>3. \A i \in 1..n : lhs[i] = rhs[i]
  <2> TAKE i \in 1..n
  <2>1. CASE i <= m
    BY <1>1, <1>2, <2>1
  <2>2. CASE ~(i <= m)
    <3> DEFINE k == i - m
    <3>1. k \in 1..Len(s) /\ m + k = i
      BY <2>2
    <3>2. lhs[i] = s[k]
      BY <1>2, <2>2
    <3> HIDE DEF k
    <3>3. s[k] = m + k
      BY <3>1
    <3> QED BY <1>1, <3>1, <3>2, <3>3
  <2> QED BY <2>1, <2>2
<1> HIDE DEF lhs, rhs
<1>4. lhs = rhs
  BY <1>1, <1>2, <1>3, SeqEqual
<1> QED BY <1>4 DEF lhs, rhs

\* The batches one after the other are the entries in the caller's order.
LEMMA SplitFlattens ==
  ASSUME NEW entries, Len(entries) \in Nat, NEW base, NEW policy
  PROVE  FlattenSeq(Split(entries, base, policy)) = InOrder(Len(entries))
<1> DEFINE n == Len(entries)
           P == Split(entries, base, policy)
<1>1. P \in Seq(Seq(Nat)) /\ \E cut : Cuts(cut, P, n)
  BY SplitIsCut
<1>2. PICK cut : Cuts(cut, P, n)
  BY <1>1
<1> HIDE DEF P, n
<1>3. n \in Nat /\ Len(P) \in Nat /\ DOMAIN P = 1..Len(P) /\ P \in Seq(Seq(Nat)) /\ \A b \in 0..Len(P) : cut[b] \in Nat
  <2>1. cut \in [0..Len(P) -> 0..n] /\ n \in Nat
    BY <1>2 DEF Cuts, n
  <2>2. P \in Seq(Seq(Nat))
    BY <1>1
  <2>3. Len(P) \in Nat /\ DOMAIN P = 1..Len(P)
    BY <2>2
  <2> QED BY <2>1, <2>2, <2>3
<1>4. CASE Len(P) = 0
  <2>1. n = 0
    BY <1>2, <1>4 DEF Cuts
  <2>2. P = <<>>
    BY <1>3, <1>4, EmptySeq
  <2>3. InOrder(0) = <<>>
    BY DEF InOrder
  <2>4. FlattenSeq(P) = P
    BY <1>4 DEF FlattenSeq
  <2> QED BY <2>1, <2>2, <2>3, <2>4 DEF P, n
<1>5. CASE Len(P) # 0
  <2> DEFINE F == [b \in 1..Len(P) |-> InOrder(cut[b])]
  <2>1. ASSUME NEW b \in 1..Len(P)
        PROVE  /\ InOrder(cut[b - 1]) \o P[b] = InOrder(cut[b])
               /\ b = 1 => P[b] = InOrder(cut[b])
    <3>1. b - 1 \in 0..Len(P) /\ b \in 0..Len(P) /\ P[b] \in Seq(Nat)
      BY <1>3
    <3>2. /\ cut[b - 1] < cut[b] /\ Len(P[b]) = cut[b] - cut[b - 1]
          /\ \A k \in 1..Len(P[b]) : P[b][k] = cut[b - 1] + k
      BY <1>2 DEF Cuts
    <3>3. cut[b - 1] \in Nat /\ cut[b] \in Nat /\ cut[b - 1] <= cut[b]
      BY <1>3, <3>1, <3>2
    <3>4. InOrder(cut[b - 1]) \o P[b] = InOrder(cut[b])
      BY <3>1, <3>2, <3>3, InOrderConcat
    <3>5. ASSUME b = 1 PROVE P[b] = InOrder(cut[b])
      <4>1. cut[b - 1] = 0
        BY <1>2, <3>5 DEF Cuts
      <4>2. InOrder(0) = <<>>
        BY DEF InOrder
      <4>3. <<>> \o P[b] = P[b]
        BY <3>1, ConcatEmptySeq
      <4> QED BY <3>4, <4>1, <4>2, <4>3
    <3> QED BY <3>4, <3>5
  <2>2. ASSUME NEW b \in 1..Len(P) PROVE F[b] = IF b = 1 THEN P[b] ELSE F[b - 1] \o P[b]
    <3>1. CASE b = 1
      BY <2>1, <3>1
    <3>2. CASE b # 1
      <4>1. b - 1 \in 1..Len(P)
        BY <1>3, <3>2
      <4> QED BY <2>1, <3>2, <4>1
    <3> QED BY <3>1, <3>2
  <2>3. F[Len(P)] = InOrder(cut[Len(P)])
    BY <1>3, <1>5
  <2> HIDE DEF F
  <2>4. FlattenSeq(P) = F[Len(P)]
    BY <1>3, <1>5, <2>2, FlattenIs
  <2>5. cut[Len(P)] = n
    BY <1>2 DEF Cuts
  <2> QED BY <2>3, <2>4, <2>5 DEF P, n
<1> QED BY <1>4, <1>5
=============================================================================
