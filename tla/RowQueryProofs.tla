---------------------------- MODULE RowQueryProofs ----------------------------
(***************************************************************************)
(* Proofs that a query reads the rows it asks for and that a resumed read  *)
(* neither skips nor repeats one, for every set of keys, every query and   *)
(* every progress.                                                         *)
(***************************************************************************)
EXTENDS PrefixQuery, SharedLemmas

\* The ranges a caller can ask for: no end at the empty key unless one was
\* written.
AskedRanges ==
  {r \in RowRange : EmptyKey \in EndKeys \/ r.end.kind = "Unbounded" \/ r.end.key # EmptyKey}

\* The queries a caller can build here.
QueryType ==
  [row_keys : SUBSET Key, row_ranges : SUBSET AskedRanges, limit : Nat, reversed : BOOLEAN]

\* Of a query whose caller ends no range there, no range of the request does.
EndAsAsked(range) == EmptyKey \notin EndKeys => NonEmptyEnd(range)

-----------------------------------------------------------------------------
(* The inductive invariant.  ResumeExact speaks of resumed requests alone; *)
(* to be preserved it needs where they came from: a request made from the  *)
(* caller's ranges, none of which ends at the empty key, and the progress  *)
(* and row count it was resumed with.                                      *)

OriginalInv ==
  /\ \A o1, o2 \in original : o1 = o2
  /\ \A o \in original : o \in Requests
  /\ \A o \in original : \A rs \in o.rows : \A r \in rs.row_ranges : EndAsAsked(r)

ResumedInv ==
  /\ original = {} => resumed = {}
  /\ \A option \in resumed : \A o \in original : option = ResumeRequest(o, progress, returned)

Inv ==
  /\ query \in QueryType
  /\ progress \in Keys \cup {NoKey}
  /\ returned \in Nat
  /\ OriginalInv
  /\ ResumedInv

\* Query::into_request makes a well-typed request with the caller's bounds.
LEMMA IntoRequestType ==
  ASSUME NEW q \in QueryType
  PROVE  /\ IntoRequest(q) \in Requests
         /\ \A rs \in IntoRequest(q).rows : \A r \in rs.row_ranges : EndAsAsked(r)
<1> DEFINE ranges == {ProtoRowRange(r) : r \in q.row_ranges}
<1>1. \A r \in q.row_ranges : ProtoRowRange(r) \in ProtoRange /\ EndAsAsked(ProtoRowRange(r))
  <2> TAKE r \in q.row_ranges
  <2>1. /\ r.start \in RowBound /\ r.end \in RowBound
        /\ EmptyKey \in EndKeys \/ r.end.kind = "Unbounded" \/ r.end.key # EmptyKey
    BY DEF QueryType, AskedRanges, RowRange
  <2>2. \A b \in RowBound :
          /\ ProtoBoundOf(b) \in ProtoBound
          /\ ProtoBoundOf(b).key = b.key /\ (b.kind = "Unbounded" => ProtoBoundOf(b).kind = "None")
    BY DEF RowBound, ProtoBoundOf, ProtoBound, Key, EmptyKey
  <2>3. /\ ProtoRowRange(r).start_key = ProtoBoundOf(r.start)
        /\ ProtoRowRange(r).end_key = ProtoBoundOf(r.end)
    BY DEF ProtoRowRange
  <2>4. ProtoRowRange(r) \in ProtoRange
    BY <2>1, <2>2 DEF ProtoRowRange, ProtoRange
  <2> QED BY <2>1, <2>2, <2>3, <2>4 DEF EndAsAsked, NonEmptyEnd
<1>2. q.row_keys \in SUBSET Key /\ q.limit \in Nat /\ q.reversed \in BOOLEAN
  BY DEF QueryType
<1>3. ranges \subseteq ProtoRange /\ \A r \in ranges : EndAsAsked(r)
  BY <1>1
<1> HIDE DEF ranges
<1>4. [row_keys |-> q.row_keys, row_ranges |-> ranges] \in RowSet
  BY <1>2, <1>3 DEF RowSet
<1>5. IntoRequest(q) =
        [rows |-> IF q.row_keys = {} /\ q.row_ranges = {} THEN {}
                  ELSE {[row_keys |-> q.row_keys, row_ranges |-> ranges]},
         rows_limit |-> q.limit, reversed |-> q.reversed]
  BY DEF IntoRequest, ranges
<1> QED BY <1>2, <1>3, <1>4, <1>5 DEF Requests

\* The ranges a caller writes bound by bound are ranges it can ask for.
LEMMA WrittenRanges == Ranges \subseteq AskedRanges
<1> SUFFICES ASSUME NEW r \in Ranges PROVE r \in AskedRanges
  OBVIOUS
<1>1. r = [start |-> r.start, end |-> r.end] /\ r.start \in Bounds(StartKeys) /\ r.end \in Bounds(EndKeys)
  BY DEF Ranges
<1>2. \A keys \in SUBSET Key : \A b \in Bounds(keys) :
        b \in RowBound /\ (b.kind = "Unbounded" \/ b.key \in keys)
  BY DEF Bounds, RowBound
<1>3. r.start \in RowBound /\ r.end \in RowBound /\ (r.end.kind = "Unbounded" \/ r.end.key \in EndKeys)
  BY <1>1, <1>2, BoundKeysAssumption
<1> QED BY <1>1, <1>3 DEF AskedRanges, RowRange

\* Adding a range keeps the invariant.
LEMMA AddRangeInv ==
  ASSUME Inv, NEW range \in AskedRanges, AddRowRange(range)
  PROVE  Inv'
<1>1. query' \in QueryType
  BY DEF AddRowRange, QueryType, Inv
<1> QED BY <1>1 DEF AddRowRange, Inv, OriginalInv, ResumedInv

\* Every step keeps the invariant; the two that matter are Submit, which makes
\* the request, and Resume, which trims it.
LEMMA InvStep ==
  ASSUME Inv, [Next]_vars
  PROVE  Inv'
<1> USE DEF Inv, OriginalInv, ResumedInv
<1>1. CASE UNCHANGED vars
  BY <1>1 DEF vars
<1>2. ASSUME NEW key \in Keys \cup {EmptyKey}, AddRowKey(key) PROVE Inv'
  <2>1. query' \in QueryType
    <3>1. key \in Key
      BY KeysAssumption DEF Key, EmptyKey
    <3> QED BY <1>2, <3>1 DEF AddRowKey, QueryType
  <2> QED BY <1>2, <2>1 DEF AddRowKey
<1>3. ASSUME NEW range \in Ranges, AddRowRange(range) PROVE Inv'
  BY <1>3, WrittenRanges, AddRangeInv
<1>4. ASSUME NEW limit \in Limits, SetLimit(limit) PROVE Inv'
  <2>1. query' \in QueryType
    BY <1>4, LimitsAssumption DEF SetLimit, QueryType
  <2> QED BY <1>4, <2>1 DEF SetLimit
<1>5. CASE SetReversed
  <2>1. query' \in QueryType
    BY <1>5 DEF SetReversed, QueryType
  <2> QED BY <1>5, <2>1 DEF SetReversed
<1>6. CASE Submit
  <2>1. original' = original \/ original' = {IntoRequest(query)}
    BY <1>6 DEF Submit
  <2>2. OriginalInv'
    BY <2>1, IntoRequestType
  <2>3. resumed' = {}
    BY <1>6 DEF Submit, Building
  <2> QED BY <1>6, <2>2, <2>3 DEF Submit
<1>7. ASSUME NEW key \in Keys \cup {NoKey}, NEW rows \in Limits, Resume(key, rows) PROVE Inv'
  <2>1. PICK request \in original : resumed' = {ResumeRequest(request, key, rows)}
    BY <1>7 DEF Resume
  <2> QED BY <1>7, <2>1, LimitsAssumption DEF Resume
<1> QED BY <1>1, <1>2, <1>3, <1>4, <1>5, <1>6, <1>7 DEF Next

\* What the invariant says of a resumed request.
LEMMA InvExact ==
  ASSUME EmptyKey \notin EndKeys, Inv
  PROVE  ResumeExact
<1> SUFFICES ASSUME NEW option \in resumed, NEW o \in original, NEW key \in Keys,
                    ~LimitReached(o, returned)
             PROVE  (\E r \in option : Selects(r, key))
                       <=> (Selects(o, key) /\ (progress # NoKey => Beyond(key, progress, o.reversed)))
  BY DEF ResumeExact
<1>1. option = ResumeRequest(o, progress, returned) /\ o \in Requests /\ returned \in Nat
  BY DEF Inv, OriginalInv, ResumedInv
<1>2. CASE progress = NoKey
  <2> DEFINE limited == [o EXCEPT !.rows_limit =
                           IF o.rows_limit > 0 THEN o.rows_limit - returned ELSE 0]
  <2>1. option = {limited}
    BY <1>1, <1>2 DEF ResumeRequest
  <2>2. limited.rows = o.rows
    BY <1>1 DEF Requests
  <2> HIDE DEF limited
  <2> QED BY <1>2, <2>1, <2>2 DEF Selects
<1>3. CASE progress # NoKey
  <2>1. progress \in Key \ {EmptyKey} /\ key \in Key \ {EmptyKey}
    BY <1>3, KeysAssumption DEF Inv
  <2>2. \A rs \in o.rows : \A r \in rs.row_ranges : NonEmptyEnd(r)
    BY DEF Inv, OriginalInv, EndAsAsked
  <2> QED BY <1>1, <1>3, <2>1, <2>2, ResumeRequestExact
<1> QED BY <1>2, <1>3

\* A resumed request changes the limit of the original in one way.
LEMMA InvLimit ==
  ASSUME Inv
  PROVE  ResumeLimit
<1> SUFFICES ASSUME NEW option \in resumed, NEW o \in original
             PROVE  /\ LimitReached(o, returned) => option = {}
                    /\ \A r \in option :
                         IF o.rows_limit = 0 THEN r.rows_limit = 0
                         ELSE r.rows_limit > 0 /\ r.rows_limit + returned = o.rows_limit
  BY DEF ResumeLimit
<1>1. option = ResumeRequest(o, progress, returned) /\ o \in Requests /\ returned \in Nat
  BY DEF Inv, OriginalInv, ResumedInv
<1> DEFINE owed == IF o.rows_limit > 0 THEN o.rows_limit - returned ELSE 0
           limited == [o EXCEPT !.rows_limit = owed]
<1>2. limited.rows_limit = owed /\ \A rows : [limited EXCEPT !.rows = rows].rows_limit = owed
  BY <1>1 DEF Requests
<1>3. LimitReached(o, returned) => option = {}
  BY <1>1 DEF ResumeRequest
<1>4. \A r \in option : r.rows_limit = owed
  <2> TAKE r \in option
  <2>1. r = limited \/ \E rows : r = [limited EXCEPT !.rows = rows]
    BY <1>1 DEF ResumeRequest
  <2> HIDE DEF limited, owed
  <2> QED BY <1>2, <2>1
<1>5. ~LimitReached(o, returned) =>
        IF o.rows_limit = 0 THEN owed = 0 ELSE owed > 0 /\ owed + returned = o.rows_limit
  BY <1>1 DEF LimitReached, Requests
<1> HIDE DEF owed, limited
<1> QED BY <1>3, <1>4, <1>5

\* The invariant holds before anything was asked.
LEMMA InvInit ==
  ASSUME Init
  PROVE  Inv
BY DEF Init, Inv, OriginalInv, ResumedInv, QueryType, NewQuery, EmptyKey

\* The invariant holds of every query and every resumption.
LEMMA InvAlways == Spec => []Inv
<1>1. Init => Inv
  BY InvInit
<1>2. Inv /\ [Next]_vars => Inv'
  BY InvStep
<1> QED BY <1>1, <1>2, PTL DEF Spec

\* A resumed request asks for exactly the rows still owed under the caller's
\* limit and never for zero, which would mean all of them; a limit that is
\* reached sends no request (resume_request).
THEOREM ResumeKeepsLimit == Spec => []ResumeLimit
<1>1. Inv => ResumeLimit
  BY InvLimit
<1> QED BY <1>1, InvAlways, PTL

\* A read resumed after any progress, of any query whose ranges do not end at
\* the empty key, selects exactly the keys of the original query that lie
\* beyond the progress (resume_request, trim_row_set, trim_range).
THEOREM ResumeIsExact ==
  ASSUME EmptyKey \notin EndKeys
  PROVE  Spec => []ResumeExact
<1>1. Inv => ResumeExact
  BY InvExact
<1> QED BY <1>1, InvAlways, PTL

-----------------------------------------------------------------------------
(* The order of byte strings.                                              *)

Byte == 0..MaxByte

\* Two strings have the same first n bytes.
Agree(s, t, n) == \A j \in 1..n : s[j] = t[j]

\* s is below t, and i is the first place where that shows: s ends before it or
\* has the smaller byte there.
Below(s, t, i) ==
  /\ i \in 1..Len(t) /\ i <= Len(s) + 1
  /\ Agree(s, t, i - 1)
  /\ i <= Len(s) => s[i] < t[i]

\* Strings are sequences of bytes of bounded length.
LEMMA StringFacts ==
  /\ \A s \in Strings :
       /\ s \in Seq(Byte) /\ Len(s) \in Nat /\ Len(s) <= MaxLength /\ DOMAIN s = 1..Len(s)
       /\ \A i \in 1..Len(s) : s[i] \in Nat /\ s[i] <= MaxByte
  /\ \A s \in Seq(Byte) : Len(s) <= MaxLength => s \in Strings
<1>1. ASSUME NEW s \in Strings
      PROVE  /\ s \in Seq(Byte) /\ Len(s) \in Nat /\ Len(s) <= MaxLength /\ DOMAIN s = 1..Len(s)
             /\ \A i \in 1..Len(s) : s[i] \in Nat /\ s[i] <= MaxByte
  <2>1. PICK n \in 0..MaxLength : s \in [1..n -> Byte]
    BY DEF Strings, Byte
  <2>2. n \in Nat /\ n <= MaxLength
    BY BytesAssumption
  <2>3. s \in Seq(Byte) /\ Len(s) = n
    BY <2>1, <2>2, SeqDef, LenProperties
  <2> QED BY <2>1, <2>2, <2>3, BytesAssumption DEF Byte
<1>2. ASSUME NEW s \in Seq(Byte), Len(s) <= MaxLength PROVE s \in Strings
  <2>1. Len(s) \in Nat /\ s \in [1..Len(s) -> Byte]
    BY LenProperties
  <2>2. Len(s) \in 0..MaxLength
    BY <1>2, <2>1, BytesAssumption
  <2> QED BY <2>1, <2>2 DEF Strings, Byte
<1> QED BY <1>1, <1>2

\* Beginnings of two strings are the same when their bytes are.
LEMMA SubSeqAgree ==
  ASSUME NEW s \in Seq(Byte), NEW t \in Seq(Byte), NEW n \in Nat, n <= Len(s), n <= Len(t)
  PROVE  SubSeq(s, 1, n) = SubSeq(t, 1, n) <=> Agree(s, t, n)
<1>1. ASSUME NEW u \in Seq(Byte), n <= Len(u)
      PROVE  /\ SubSeq(u, 1, n) \in Seq(Byte) /\ Len(SubSeq(u, 1, n)) = n
             /\ \A i \in 1..n : SubSeq(u, 1, n)[i] = u[i]
  <2>1. \A i \in 1..n : u[i] \in Byte
    BY <1>1
  <2> QED BY <2>1, SubSeqProperties
<1> DEFINE a == SubSeq(s, 1, n)
           b == SubSeq(t, 1, n)
<1>2. /\ a \in Seq(Byte) /\ b \in Seq(Byte) /\ Len(a) = n /\ Len(b) = n
      /\ \A i \in 1..n : a[i] = s[i] /\ b[i] = t[i]
  BY <1>1
<1> HIDE DEF a, b
<1>3. (\A i \in 1..n : a[i] = b[i]) => a = b
  BY <1>2, SeqEqual
<1>4. a = b <=> Agree(s, t, n)
  BY <1>2, <1>3 DEF Agree
<1> QED BY <1>4 DEF a, b

\* A prefix is a beginning.
LEMMA PrefixIs ==
  ASSUME NEW s \in Strings, NEW t \in Strings
  PROVE  /\ IsPrefix(s, t) <=> Len(s) <= Len(t) /\ Agree(s, t, Len(s))
         /\ Len(s) = Len(t) /\ Agree(s, t, Len(s)) => s = t
<1>1. /\ s \in Seq(Byte) /\ t \in Seq(Byte) /\ Len(s) \in Nat /\ Len(t) \in Nat
  BY StringFacts
<1>2. IsPrefix(s, t) <=> Len(s) <= Len(t) /\ Agree(s, t, Len(s))
  BY <1>1, SubSeqAgree DEF IsPrefix
<1>3. Len(s) = Len(t) /\ Agree(s, t, Len(s)) => s = t
  BY <1>1, SeqEqual DEF Agree
<1> QED BY <1>2, <1>3

\* One string is less than another when it is below it at some place.
LEMMA LessIs ==
  ASSUME NEW s \in Strings, NEW t \in Strings
  PROVE  Less(s, t) <=> \E i \in Nat : Below(s, t, i)
<1>1. /\ s \in Seq(Byte) /\ t \in Seq(Byte) /\ Len(s) \in Nat /\ Len(t) \in Nat
      /\ DOMAIN s = 1..Len(s) /\ DOMAIN t = 1..Len(t)
  BY StringFacts
<1>2. ASSUME IsStrictPrefix(s, t) PROVE Below(s, t, Len(s) + 1)
  <2>1. Len(s) <= Len(t) /\ Agree(s, t, Len(s)) /\ s # t
    BY <1>2, PrefixIs DEF IsStrictPrefix
  <2>2. Len(s) # Len(t)
    BY <2>1, PrefixIs
  <2> DEFINE m == Len(s)
             n == Len(t)
  <2>3. m \in Nat /\ n \in Nat /\ m <= n /\ m # n
    BY <1>1, <2>1, <2>2
  <2> HIDE DEF m, n
  <2>4. m + 1 - 1 = m /\ m + 1 \in 1..n /\ m + 1 <= m + 1 /\ ~(m + 1 <= m)
    BY <2>3
  <2>5. Agree(s, t, m + 1 - 1)
    BY <2>1, <2>4 DEF m
  <2>6. Below(s, t, m + 1)
    BY <2>4, <2>5 DEF Below, m, n
  <2> QED BY <2>6 DEF m
<1>3. ASSUME NEW i \in DOMAIN s \cap DOMAIN t
      PROVE  SubSeq(s, 1, i - 1) = SubSeq(t, 1, i - 1) <=> Agree(s, t, i - 1)
  <2>1. i - 1 \in Nat /\ i - 1 <= Len(s) /\ i - 1 <= Len(t)
    BY <1>1
  <2> QED BY <1>1, <2>1, SubSeqAgree
<1>4. ASSUME NEW i \in DOMAIN s \cap DOMAIN t, SubSeq(s, 1, i - 1) = SubSeq(t, 1, i - 1), s[i] < t[i]
      PROVE  i \in Nat /\ Below(s, t, i)
  <2>1. i \in 1..Len(s) /\ i \in 1..Len(t) /\ i \in Nat /\ i <= Len(s) + 1
    BY <1>1
  <2> QED BY <1>3, <1>4, <2>1 DEF Below
<1>5. ASSUME NEW i \in Nat, Below(s, t, i) PROVE Less(s, t)
  <2>1. CASE i <= Len(s)
    <3>1. i \in DOMAIN s \cap DOMAIN t /\ Agree(s, t, i - 1) /\ s[i] < t[i]
      BY <1>1, <1>5, <2>1 DEF Below
    <3> QED BY <1>3, <3>1 DEF Less
  <2>2. CASE ~(i <= Len(s))
    <3>1. i = Len(s) + 1 /\ i - 1 = Len(s) /\ Len(s) < Len(t)
      BY <1>1, <1>5, <2>2 DEF Below
    <3>2. Agree(s, t, Len(s))
      BY <1>5, <3>1 DEF Below
    <3>3. IsPrefix(s, t) /\ s # t
      BY <1>1, <3>1, <3>2, PrefixIs
    <3> QED BY <3>3 DEF Less, IsStrictPrefix
  <2> QED BY <2>1, <2>2
<1>6. Len(s) + 1 \in Nat
  BY <1>1
<1> QED BY <1>2, <1>4, <1>5, <1>6 DEF Less

\* The order is strict and total.
LEMMA LessIsOrder ==
  /\ \A s \in Strings : ~Less(s, s)
  /\ \A s, t, u \in Strings : Less(s, t) /\ Less(t, u) => Less(s, u)
  /\ \A s, t \in Strings : s = t \/ Less(s, t) \/ Less(t, s)
<1>1. ASSUME NEW s \in Strings, Less(s, s) PROVE FALSE
  <2>1. PICK i \in Nat : Below(s, s, i)
    BY <1>1, LessIs
  <2>2. s[i] \in Nat /\ s[i] < s[i]
    BY <2>1, StringFacts DEF Below
  <2> QED BY <2>2
<1>2. ASSUME NEW s \in Strings, NEW t \in Strings, NEW u \in Strings, Less(s, t), Less(t, u)
      PROVE  Less(s, u)
  <2>1. /\ Len(s) \in Nat /\ Len(t) \in Nat /\ Len(u) \in Nat
        /\ \A i \in 1..Len(s) : s[i] \in Nat
        /\ \A i \in 1..Len(t) : t[i] \in Nat
        /\ \A i \in 1..Len(u) : u[i] \in Nat
    BY StringFacts
  <2>2. PICK i \in Nat : Below(s, t, i)
    BY <1>2, LessIs
  <2>3. PICK j \in Nat : Below(t, u, j)
    BY <1>2, LessIs
  <2>4. CASE i < j
    <3>1. Below(s, u, i)
      BY <2>1, <2>2, <2>3, <2>4 DEF Below, Agree
    <3> QED BY <3>1, LessIs
  <2>5. CASE i = j
    <3>1. Below(s, u, i)
      BY <2>1, <2>2, <2>3, <2>5 DEF Below, Agree
    <3> QED BY <3>1, LessIs
  <2>6. CASE i > j
    <3>1. Below(s, u, j)
      BY <2>1, <2>2, <2>3, <2>6 DEF Below, Agree
    <3> QED BY <3>1, LessIs
  <2> QED BY <2>4, <2>5, <2>6
<1>3. ASSUME NEW s \in Strings, NEW t \in Strings, s # t PROVE Less(s, t) \/ Less(t, s)
  <2>1. /\ Len(s) \in Nat /\ Len(t) \in Nat
        /\ \A i \in 1..Len(s) : s[i] \in Nat
        /\ \A i \in 1..Len(t) : t[i] \in Nat
    BY StringFacts
  <2> DEFINE D == {i \in Nat \ {0} : i > Len(s) \/ i > Len(t) \/ s[i] # t[i]}
  <2>2. Len(s) + 1 \in D
    BY <2>1
  <2>3. PICK i \in D : \A j \in D : i <= j
    <3>1. D \in SUBSET Nat
      OBVIOUS
    <3> HIDE DEF D
    <3> QED BY <2>2, <3>1, MinIsLeast
  <2>4. i \in Nat /\ i > 0 /\ \A j \in 1..(i - 1) : j <= Len(s) /\ j <= Len(t) /\ s[j] = t[j]
    BY <2>1, <2>3
  <2>5. i <= Len(s) + 1 /\ i <= Len(t) + 1
    BY <2>1, <2>4
  <2>6. Agree(s, t, i - 1) /\ Agree(t, s, i - 1)
    BY <2>4 DEF Agree
  <2>7. CASE i > Len(s) /\ i > Len(t)
    <3>1. i - 1 = Len(s) /\ Len(s) = Len(t)
      BY <2>1, <2>4, <2>5, <2>7
    <3> QED BY <1>3, <2>6, <3>1, PrefixIs
  <2>8. CASE i <= Len(t) /\ (i <= Len(s) => s[i] < t[i])
    <3>1. Below(s, t, i)
      BY <2>1, <2>4, <2>5, <2>6, <2>8 DEF Below
    <3> QED BY <2>4, <3>1, LessIs
  <2>9. CASE i <= Len(s) /\ (i <= Len(t) => t[i] < s[i])
    <3>1. Below(t, s, i)
      BY <2>1, <2>4, <2>5, <2>6, <2>9 DEF Below
    <3> QED BY <2>4, <3>1, LessIs
  <2>10. i <= Len(s) /\ i <= Len(t) => s[i] < t[i] \/ t[i] < s[i]
    <3>1. i \in D
      OBVIOUS
    <3> QED BY <2>1, <2>4, <3>1
  <2> QED BY <2>1, <2>4, <2>7, <2>8, <2>9, <2>10
<1> QED BY <1>1, <1>2, <1>3

\* There are finitely many strings.
LEMMA StringsFinite == IsFiniteSet(Strings)
<1> DEFINE Good == {n \in 0..MaxLength : IsFiniteSet([1..n -> Byte])}
<1>1. IsFiniteSet(Byte)
  BY BytesAssumption, FS_Interval DEF Byte
<1>2. 0 \in Good
  <2>1. [1..0 -> Byte] \subseteq {<<>>}
    OBVIOUS
  <2>2. IsFiniteSet({<<>>})
    BY FS_Singleton
  <2>3. IsFiniteSet([1..0 -> Byte])
    BY <2>1, <2>2, FS_Subset
  <2> QED BY <2>3, BytesAssumption
<1>3. ASSUME NEW n \in 0..MaxLength, n \in Good, n < MaxLength PROVE n + 1 \in Good
  <2> DEFINE S == [1..n -> Byte]
             T == [1..(n + 1) -> Byte]
             extend == [pair \in S \X Byte |-> [i \in 1..(n + 1) |-> IF i = n + 1 THEN pair[2] ELSE pair[1][i]]]
  <2>1. IsFiniteSet(S \X Byte)
    <3>1. IsFiniteSet(S)
      BY <1>3
    <3> HIDE DEF S
    <3> QED BY <1>1, <3>1, FS_Product
  <2>2. extend \in [S \X Byte -> T]
    <3> SUFFICES ASSUME NEW pair \in S \X Byte
                 PROVE  [i \in 1..(n + 1) |-> IF i = n + 1 THEN pair[2] ELSE pair[1][i]] \in T
      OBVIOUS
    <3>1. pair[1] \in S /\ pair[2] \in Byte
      OBVIOUS
    <3> QED BY <3>1, BytesAssumption
  <2>3. ASSUME NEW t \in T PROVE \E pair \in S \X Byte : extend[pair] = t
    <3> DEFINE s == [i \in 1..n |-> t[i]]
               pair == <<s, t[n + 1]>>
    <3>1. s \in S /\ t[n + 1] \in Byte
      BY BytesAssumption
    <3>2. pair \in S \X Byte /\ pair[1] = s /\ pair[2] = t[n + 1]
      <4> HIDE DEF s, S
      <4> QED BY <3>1
    <3>3. extend[pair] = [i \in 1..(n + 1) |-> IF i = n + 1 THEN pair[2] ELSE pair[1][i]]
      <4> HIDE DEF pair, s, S
      <4> QED BY <3>2
    <3>4. [i \in 1..(n + 1) |-> IF i = n + 1 THEN t[n + 1] ELSE s[i]] = t
      <4>1. t \in T /\ n + 1 \in Nat
        BY BytesAssumption
      <4>2. \A i \in 1..(n + 1) : i # n + 1 => i \in 1..n
        BY BytesAssumption
      <4> QED BY <4>1, <4>2
    <3>5. extend[pair] = t
      <4> HIDE DEF extend, s
      <4> QED BY <3>2, <3>3, <3>4
    <3> QED BY <3>2, <3>5
  <2> HIDE DEF extend
  <2>4. extend \in Surjection(S \X Byte, T)
    BY <2>2, <2>3 DEF Surjection
  <2>5. IsFiniteSet(T)
    BY <2>1, <2>4, FS_Surjection
  <2> QED BY <1>3, <2>5, BytesAssumption
<1>4. \A n \in 0..MaxLength : n \in Good
  <2> HIDE DEF Good
  <2> QED BY <1>2, <1>3, BytesAssumption, UpTo
<1> DEFINE lengths == 0..MaxLength
           all == {[1..n -> Byte] : n \in lengths}
           by == [n \in lengths |-> [1..n -> Byte]]
<1>5. IsFiniteSet(lengths)
  BY BytesAssumption, FS_Interval
<1>6. by \in Surjection(lengths, all)
  <2> HIDE DEF lengths
  <2> QED BY DEF Surjection
<1>7. \A S \in all : IsFiniteSet(S)
  BY <1>4
<1>8. IsFiniteSet(all)
  <2> HIDE DEF lengths, all, by
  <2> QED BY <1>5, <1>6, FS_Surjection
<1>9. Strings = UNION all
  BY DEF Strings, Byte
<1> HIDE DEF all
<1> QED BY <1>7, <1>8, <1>9, FS_UNION

\* The numbering keeps the order: into the naturals, 0 for the empty string.
LEMMA NumberKeepsOrder ==
  /\ \A s \in Strings : Number[s] \in Nat
  /\ \A s, t \in Strings : Less(s, t) <=> Number[s] < Number[t]
  /\ \A s \in Strings : s = <<>> <=> Number[s] = 0
<1> DEFINE Lower(s) == {t \in Strings : Less(t, s)}
<1>1. \A s \in Strings : /\ Number[s] = Cardinality(Lower(s)) /\ IsFiniteSet(Lower(s))
                          /\ Cardinality(Lower(s)) \in Nat
  <2> TAKE s \in Strings
  <2>1. Lower(s) \in SUBSET Strings
    OBVIOUS
  <2>2. Number[s] = Cardinality(Lower(s))
    BY DEF Number
  <2> HIDE DEF Lower
  <2>3. IsFiniteSet(Lower(s)) /\ Cardinality(Lower(s)) \in Nat
    BY <2>1, StringsFinite, FS_Subset, FS_CardinalityType
  <2> QED BY <2>2, <2>3
<1>2. ASSUME NEW s \in Strings, NEW t \in Strings, Less(s, t) PROVE Number[s] < Number[t]
  <2>1. Lower(s) \in SUBSET Lower(t) /\ s \in Lower(t) /\ s \notin Lower(s)
    BY <1>2, LessIsOrder
  <2>2. /\ IsFiniteSet(Lower(t)) /\ Cardinality(Lower(s)) \in Nat /\ Cardinality(Lower(t)) \in Nat
        /\ Number[s] = Cardinality(Lower(s)) /\ Number[t] = Cardinality(Lower(t))
    BY <1>1
  <2> DEFINE a == Lower(s)
             b == Lower(t)
  <2>3. a \in SUBSET b /\ a # b /\ IsFiniteSet(b) /\ Cardinality(a) \in Nat /\ Cardinality(b) \in Nat
    BY <2>1, <2>2
  <2> HIDE DEF a, b
  <2>4. Cardinality(a) <= Cardinality(b) /\ Cardinality(a) # Cardinality(b)
    BY <2>3, FS_Subset
  <2>5. Cardinality(a) < Cardinality(b)
    BY <2>3, <2>4
  <2> QED BY <2>2, <2>5 DEF a, b
<1>3. \A s \in Strings : Number[s] \in Nat
  BY <1>1
<1> HIDE DEF Lower
<1>4. ASSUME NEW s \in Strings, NEW t \in Strings, Number[s] < Number[t] PROVE Less(s, t)
  <2>1. Number[s] \in Nat /\ Number[t] \in Nat
    BY <1>3
  <2>2. s # t /\ ~(Number[t] < Number[s])
    BY <1>4, <2>1
  <2> QED BY <1>2, <2>2, LessIsOrder
<1> DEFINE none == <<>>
<1>5. none \in Strings /\ Len(none) = 0
  <2>1. none \in Seq(Byte) /\ Len(none) = 0
    OBVIOUS
  <2>2. \A s \in Seq(Byte) : Len(s) <= MaxLength => s \in Strings
    BY StringFacts
  <2>3. MaxLength \in Nat
    BY BytesAssumption
  <2> HIDE DEF none
  <2>4. Len(none) <= MaxLength
    BY ONLY <2>1, <2>3
  <2> QED BY ONLY <2>1, <2>2, <2>4
<1> HIDE DEF none
<1>6. Number[none] = 0
  <2>1. \A t \in Strings : ~Less(t, none)
    BY <1>5, LessIs DEF Below
  <2>2. Lower(none) = {}
    BY <2>1 DEF Lower
  <2> QED BY <1>1, <1>5, <2>2, FS_EmptySet
<1>7. ASSUME NEW s \in Strings, s # none PROVE Number[s] # 0
  <2>1. Less(none, s) \/ Less(s, none)
    BY <1>5, <1>7, LessIsOrder
  <2>2. ~Less(s, none)
    BY <1>5, LessIs DEF Below
  <2>3. Number[none] < Number[s]
    BY <1>2, <1>5, <2>1, <2>2
  <2> QED BY <1>3, <1>6, <2>3
<1> QED BY <1>2, <1>3, <1>4, <1>6, <1>7 DEF none

-----------------------------------------------------------------------------
(* Prefixes.                                                               *)

\* q is p with its byte k raised and the rest dropped, all of it largest bytes.
Raises(q, p, k) ==
  /\ k \in 1..Len(p) /\ Len(q) = k
  /\ Agree(q, p, k - 1) /\ p[k] < MaxByte /\ q[k] = p[k] + 1
  /\ \A i \in 1..Len(p) : i > k => p[i] = MaxByte

\* prefix_successor raises the last byte that can be, and returns nothing when
\* no byte can be.
LEMMA SuccessorIs ==
  ASSUME NEW p \in Strings
  PROVE  \/ PrefixSuccessor(p) = {} /\ \A i \in 1..Len(p) : p[i] = MaxByte
         \/ \E q \in Strings, k \in Nat : PrefixSuccessor(p) = {q} /\ Raises(q, p, k)
<1> DEFINE raisable == {i \in DOMAIN p : p[i] # MaxByte}
           k == Max(raisable)
           front == SubSeq(p, 1, k - 1)
           q == Append(front, p[k] + 1)
<1>1. PrefixSuccessor(p) = IF raisable = {} THEN {} ELSE {q}
  BY DEF PrefixSuccessor
<1>2. /\ p \in Seq(Byte) /\ Len(p) \in Nat /\ Len(p) <= MaxLength /\ DOMAIN p = 1..Len(p)
      /\ \A i \in 1..Len(p) : p[i] \in Nat /\ p[i] <= MaxByte
  BY StringFacts
<1>3. CASE raisable = {}
  <2>1. \A i \in 1..Len(p) : p[i] = MaxByte
    BY <1>2, <1>3
  <2> QED BY <1>1, <1>3, <2>1
<1>4. CASE raisable # {}
  <2>1. raisable \in SUBSET Nat /\ raisable \in SUBSET (1..Len(p)) /\ IsFiniteSet(1..Len(p))
    <3>1. 1..Len(p) \in SUBSET Nat /\ IsFiniteSet(1..Len(p))
      BY <1>2, FS_Interval
    <3>2. raisable \in SUBSET (1..Len(p))
      BY <1>2
    <3> QED BY <3>1, <3>2
  <2>2. \E x \in raisable : \A y \in raisable : y <= x
    <3> HIDE DEF raisable
    <3> QED BY <1>4, <2>1, FS_Subset, GreatestExists
  <2>3. k \in raisable /\ \A y \in raisable : k >= y
    <3>1. \E x \in raisable : \A y \in raisable : x >= y
      <4> HIDE DEF raisable
      <4> QED BY <2>1, <2>2
    <3> HIDE DEF raisable
    <3> QED BY <3>1 DEF Max
  <2> HIDE DEF k
  <2>4. /\ k \in 1..Len(p) /\ k \in Nat /\ p[k] < MaxByte /\ p[k] + 1 \in Byte
        /\ \A i \in 1..Len(p) : i > k => p[i] = MaxByte
    <3>1. k \in 1..Len(p) /\ p[k] # MaxByte /\ \A i \in 1..Len(p) : i > k => p[i] = MaxByte
      BY <1>2, <2>3
    <3> QED BY <1>2, <3>1, BytesAssumption DEF Byte
  <2> HIDE DEF raisable
  <2>5. front \in Seq(Byte) /\ Len(front) = k - 1 /\ \A i \in 1..(k - 1) : front[i] = p[i]
    <3> DEFINE n == k - 1
    <3>1. n \in Nat /\ n <= Len(p)
      BY <1>2, <2>4
    <3>2. \A i \in 1..n : p[i] \in Byte
      BY <1>2, <3>1, BytesAssumption DEF Byte
    <3> HIDE DEF n
    <3>3. SubSeq(p, 1, n) \in Seq(Byte) /\ Len(SubSeq(p, 1, n)) = n
          /\ \A i \in 1..n : SubSeq(p, 1, n)[i] = p[i]
      BY <1>2, <3>1, <3>2, SubSeqProperties
    <3> QED BY <3>3 DEF n
  <2> HIDE DEF front
  <2>6. /\ q \in Seq(Byte) /\ Len(q) = k /\ q[k] = p[k] + 1
        /\ \A i \in 1..(k - 1) : q[i] = p[i]
    <3> DEFINE e == p[k] + 1
    <3>1. e \in Byte /\ front \in Seq(Byte) /\ k \in Nat /\ Len(front) = k - 1
      BY <2>4, <2>5
    <3> HIDE DEF e
    <3> DEFINE r == Append(front, e)
    <3>2. r \in Seq(Byte) /\ Len(r) = Len(front) + 1 /\ r[Len(front) + 1] = e
          /\ \A i \in 1..Len(front) : r[i] = front[i]
      BY <3>1, AppendProperties
    <3> HIDE DEF r
    <3>3. Len(r) = k /\ r[k] = e /\ \A i \in 1..(k - 1) : r[i] = p[i]
      BY <2>5, <3>1, <3>2
    <3> QED BY <3>2, <3>3 DEF r, e
  <2> HIDE DEF q
  <2>7. q \in Strings
    <3>1. Len(q) <= MaxLength
      BY <1>2, <2>4, <2>6, BytesAssumption
    <3>2. \A t \in Seq(Byte) : Len(t) <= MaxLength => t \in Strings
      BY StringFacts
    <3> QED BY ONLY <2>6, <3>1, <3>2
  <2>8. Raises(q, p, k)
    BY <2>4, <2>6 DEF Raises, Agree
  <2> QED BY <1>1, <1>4, <2>4, <2>7, <2>8
<1> QED BY <1>3, <1>4

\* The strings that start with a prefix are those from the prefix up to its
\* successor.
LEMMA PrefixBetween ==
  ASSUME NEW p \in Strings, NEW s \in Strings
  PROVE  IsPrefix(p, s) <=> ~Less(s, p) /\ \A q \in PrefixSuccessor(p) : Less(s, q)
<1>1. /\ Len(p) \in Nat /\ Len(s) \in Nat
      /\ \A i \in 1..Len(p) : p[i] \in Nat /\ p[i] <= MaxByte
      /\ \A i \in 1..Len(s) : s[i] \in Nat /\ s[i] <= MaxByte
  BY StringFacts
<1>2. ASSUME IsPrefix(p, s) PROVE ~Less(s, p) /\ \A q \in PrefixSuccessor(p) : Less(s, q)
  <2>1. Len(p) <= Len(s) /\ Agree(p, s, Len(p))
    BY <1>2, PrefixIs
  <2>2. ASSUME NEW i \in Nat, Below(s, p, i) PROVE FALSE
    BY <1>1, <2>1, <2>2 DEF Below, Agree
  <2>3. ASSUME NEW q \in PrefixSuccessor(p) PROVE Less(s, q)
    <3>1. PICK k \in Nat : q \in Strings /\ Raises(q, p, k)
      BY <2>3, SuccessorIs
    <3>2. Below(s, q, k)
      BY <1>1, <2>1, <3>1 DEF Below, Agree, Raises
    <3> QED BY <3>1, <3>2, LessIs
  <2> QED BY <2>2, <2>3, LessIs
<1>3. ASSUME ~Less(s, p), \A q \in PrefixSuccessor(p) : Less(s, q), ~IsPrefix(p, s) PROVE FALSE
  <2>1. s # p
    BY <1>1, <1>3, PrefixIs DEF Agree
  <2>2. PICK i \in Nat : Below(p, s, i)
    BY <1>3, <2>1, LessIsOrder, LessIs
  <2>3. i <= Len(p)
    <3>1. i # Len(p) + 1
      BY <1>1, <1>3, <2>2, PrefixIs DEF Below
    <3> QED BY <1>1, <2>2, <3>1 DEF Below
  <2>4. i \in 1..Len(p) /\ i \in 1..Len(s) /\ p[i] < s[i] /\ Agree(p, s, i - 1) /\ p[i] # MaxByte
    BY <1>1, <2>2, <2>3 DEF Below
  <2>5. PICK q \in Strings, k \in Nat : PrefixSuccessor(p) = {q} /\ Raises(q, p, k)
    BY <2>4, SuccessorIs
  <2>6. k \in 1..Len(p) /\ i <= k /\ Len(q) = k
    BY <2>4, <2>5 DEF Raises
  <2>7. ~Less(q, s) /\ q # s
    BY <1>3, <2>5, LessIsOrder
  <2>8. CASE i < k
    <3>1. Below(q, s, i)
      BY <1>1, <2>4, <2>5, <2>6, <2>8 DEF Below, Agree, Raises
    <3> QED BY <2>7, <3>1, LessIs
  <2>9. CASE i = k /\ p[k] + 1 < s[k]
    <3>1. Below(q, s, k)
      BY <1>1, <2>4, <2>5, <2>6, <2>9 DEF Below, Agree, Raises
    <3> QED BY <2>7, <3>1, LessIs
  <2>10. CASE i = k /\ p[k] + 1 = s[k]
    <3>1. Len(q) <= Len(s) /\ Agree(q, s, Len(q))
      BY <1>1, <2>4, <2>5, <2>6, <2>10 DEF Agree, Raises
    <3>2. IsStrictPrefix(q, s)
      BY <2>7, <3>1, PrefixIs DEF IsStrictPrefix
    <3> QED BY <2>7, <3>2 DEF Less
  <2> QED BY <1>1, <2>4, <2>6, <2>8, <2>9, <2>10
<1> QED BY <1>2, <1>3

\* The range of a prefix holds the keys that start with it, and is one a caller
\* can ask for.
LEMMA PrefixRangeIs ==
  ASSUME NEW p \in Strings
  PROVE  /\ PrefixRange(p) \in AskedRanges
         /\ \A s \in Strings : Holds(PrefixRange(p), Number[s]) <=> IsPrefix(p, s)
<1> DEFINE range == PrefixRange(p)
<1>1. Number[p] \in Nat /\ \A s \in Strings : Number[s] \in Nat
  BY NumberKeepsOrder
<1>2. ASSUME NEW s \in Strings PROVE Number[s] >= Number[p] <=> ~Less(s, p)
  BY <1>1, NumberKeepsOrder
<1>3. CASE PrefixSuccessor(p) = {}
  <2>1. range = [start |-> [kind |-> "Inclusive", key |-> Number[p]],
                 end |-> [kind |-> "Unbounded", key |-> EmptyKey]]
    BY <1>3 DEF PrefixRange
  <2> DEFINE n == Number[p]
  <2>2. n \in Key
    BY <1>1 DEF Key
  <2>3. range \in AskedRanges /\ \A m \in Nat : Holds(range, m) <=> m >= n
    <3> HIDE DEF n
    <3>1. /\ range.start.kind = "Inclusive" /\ range.start.key = n /\ range.end.kind = "Unbounded"
          /\ range.start \in RowBound /\ range.end \in RowBound
          /\ range = [start |-> range.start, end |-> range.end]
      BY <2>1, <2>2 DEF RowBound, n
    <3> HIDE DEF range
    <3> QED BY <3>1 DEF AskedRanges, RowRange, Holds
  <2> HIDE DEF range
  <2>4. \A s \in Strings : Holds(range, Number[s]) <=> IsPrefix(p, s)
    BY <1>1, <1>2, <1>3, <2>3, PrefixBetween
  <2> QED BY <2>3, <2>4 DEF range
<1>4. ASSUME NEW q \in Strings, NEW k \in Nat, PrefixSuccessor(p) = {q}, Raises(q, p, k)
      PROVE  /\ range \in AskedRanges
             /\ \A s \in Strings : Holds(range, Number[s]) <=> IsPrefix(p, s)
  <2>1. range = [start |-> [kind |-> "Inclusive", key |-> Number[p]],
                 end |-> [kind |-> "Exclusive", key |-> Number[q]]]
    BY <1>4 DEF PrefixRange
  <2> DEFINE n == Number[p]
             e == Number[q]
  <2>2. n \in Key /\ e \in Key
    BY <1>1 DEF Key
  <2>3. e # EmptyKey
    <3>1. Len(q) # 0
      BY <1>4 DEF Raises
    <3>2. q # <<>>
      BY <3>1
    <3> QED BY <3>2, NumberKeepsOrder DEF EmptyKey
  <2>4. range \in AskedRanges /\ \A m \in Nat : Holds(range, m) <=> m >= n /\ m < e
    <3> HIDE DEF n, e
    <3>1. /\ range.start.kind = "Inclusive" /\ range.start.key = n
          /\ range.end.kind = "Exclusive" /\ range.end.key = e
          /\ range.start \in RowBound /\ range.end \in RowBound
          /\ range = [start |-> range.start, end |-> range.end]
      BY <2>1, <2>2 DEF RowBound, n, e
    <3> HIDE DEF range
    <3> QED BY <2>3, <3>1 DEF AskedRanges, RowRange, Holds
  <2> HIDE DEF range
  <2>5. \A s \in Strings : Holds(range, Number[s]) <=> IsPrefix(p, s)
    <3> TAKE s \in Strings
    <3>1. Number[s] < e <=> Less(s, q)
      BY NumberKeepsOrder
    <3>2. IsPrefix(p, s) <=> ~Less(s, p) /\ Less(s, q)
      BY <1>4, PrefixBetween
    <3> QED BY <1>1, <1>2, <2>4, <3>1, <3>2
  <2> QED BY <2>4, <2>5
<1> QED BY <1>3, <1>4, SuccessorIs

\* The server reads a range as the caller wrote it, unless it ends at the empty
\* key.
LEMMA RangeRead ==
  ASSUME EmptyKey \notin EndKeys, NEW r \in AskedRanges, NEW n \in Nat, n # EmptyKey
  PROVE  InRange(ProtoRowRange(r), n) <=> Holds(r, n)
<1>1. /\ r.start \in RowBound /\ r.end \in RowBound
      /\ r.end.kind = "Unbounded" \/ r.end.key # EmptyKey
  BY DEF AskedRanges, RowRange
<1>2. /\ ProtoRowRange(r).start_key = ProtoBoundOf(r.start)
      /\ ProtoRowRange(r).end_key = ProtoBoundOf(r.end)
  BY DEF ProtoRowRange
<1>3. ASSUME NEW b \in RowBound
      PROVE  /\ b.key \in Nat /\ ProtoBoundOf(b).key = b.key
             /\ \/ b.kind = "Unbounded" /\ ProtoBoundOf(b).kind = "None"
                \/ b.kind = "Inclusive" /\ ProtoBoundOf(b).kind = "Closed"
                \/ b.kind = "Exclusive" /\ ProtoBoundOf(b).kind = "Open"
  BY DEF RowBound, ProtoBoundOf, Key, EmptyKey
<1> DEFINE b == r.start
           e == r.end
           start == ProtoBoundOf(b)
           end == ProtoBoundOf(e)
           After == b.kind = "Unbounded" \/ (b.kind = "Inclusive" /\ n >= b.key) \/ (b.kind = "Exclusive" /\ n > b.key)
           Before == e.kind = "Unbounded" \/ (e.kind = "Inclusive" /\ n <= e.key) \/ (e.kind = "Exclusive" /\ n < e.key)
<1>4. /\ b.kind \in {"Unbounded", "Inclusive", "Exclusive"} /\ e.kind \in {"Unbounded", "Inclusive", "Exclusive"}
      /\ b.key \in Nat /\ e.key \in Nat /\ start.key = b.key /\ end.key = e.key
      /\ b.kind = "Unbounded" <=> start.kind = "None"
      /\ b.kind = "Inclusive" <=> start.kind = "Closed"
      /\ b.kind = "Exclusive" <=> start.kind = "Open"
      /\ e.kind = "Unbounded" <=> end.kind = "None"
      /\ e.kind = "Inclusive" <=> end.kind = "Closed"
      /\ e.kind = "Exclusive" <=> end.kind = "Open"
      /\ e.kind = "Unbounded" \/ e.key # EmptyKey
  BY <1>1, <1>3
<1>5. Holds(r, n) <=> After /\ Before
  <2> HIDE DEF start, end
  <2> QED BY <1>4 DEF Holds
<1>6. InRange(ProtoRowRange(r), n) <=> AfterStart(start, n) /\ BeforeEnd(end, n)
  BY <1>2 DEF InRange
<1> HIDE DEF b, e, start, end
<1>7. AfterStart(start, n) <=> After
  BY <1>4 DEF AfterStart, EmptyKey
<1>8. BeforeEnd(end, n) <=> Before
  BY <1>4 DEF BeforeEnd, EmptyKey
<1> QED BY <1>5, <1>6, <1>7, <1>8

-----------------------------------------------------------------------------
(* Queries with prefixes.                                                  *)

\* What the prefixes have to do with the query, and the request with both.
PrefixInv ==
  /\ Inv
  /\ prefixes \in SUBSET Strings
  /\ \A p \in prefixes : PrefixRange(p) \in query.row_ranges
  /\ \A o \in original : o = IntoRequest(query)

\* A step adds ranges only, and only before the request, which is of the query.
QueryMoves ==
  /\ query.row_ranges \subseteq query'.row_ranges
  /\ query' = query \/ original' = {}
  /\ original' = original \/ original' = {IntoRequest(query')}

\* Every step of a query with prefixes keeps that.
LEMMA PrefixInvStep ==
  ASSUME PrefixInv, [PrefixNext]_prefixVars
  PROVE  PrefixInv'
<1>1. CASE UNCHANGED prefixVars
  <2>1. UNCHANGED vars /\ UNCHANGED prefixes
    BY <1>1 DEF prefixVars
  <2>2. Inv'
    BY <2>1, InvStep DEF PrefixInv
  <2> QED BY <2>1, <2>2 DEF PrefixInv, vars
<1>2. CASE Next /\ UNCHANGED prefixes
  <2>1. Inv'
    BY <1>2, InvStep DEF PrefixInv
  <2>2. QueryMoves
    <3> USE DEF PrefixInv, Inv, QueryType, Building, QueryMoves
    <3>1. ASSUME NEW key, AddRowKey(key) PROVE QueryMoves
      BY <3>1 DEF AddRowKey
    <3>2. ASSUME NEW range, AddRowRange(range) PROVE QueryMoves
      BY <3>2 DEF AddRowRange
    <3>3. ASSUME NEW limit, SetLimit(limit) PROVE QueryMoves
      BY <3>3 DEF SetLimit
    <3>4. CASE SetReversed
      BY <3>4 DEF SetReversed
    <3>5. CASE Submit
      BY <3>5 DEF Submit
    <3>6. ASSUME NEW key, NEW rows, Resume(key, rows) PROVE QueryMoves
      BY <3>6 DEF Resume
    <3> QED BY <1>2, <3>1, <3>2, <3>3, <3>4, <3>5, <3>6 DEF Next
  <2> QED BY <1>2, <2>1, <2>2 DEF PrefixInv, QueryMoves
<1>3. ASSUME NEW p \in Strings, AddPrefix(p) PROVE PrefixInv'
  <2>1. AddRowRange(PrefixRange(p)) /\ prefixes' = prefixes \cup {p}
    BY <1>3 DEF AddPrefix
  <2>2. Inv'
    BY <2>1, PrefixRangeIs, AddRangeInv DEF PrefixInv
  <2>3. query'.row_ranges = query.row_ranges \cup {PrefixRange(p)} /\ original' = {}
    BY <2>1 DEF AddRowRange, Building, PrefixInv, Inv, QueryType
  <2> QED BY <2>1, <2>2, <2>3 DEF PrefixInv
<1> QED BY <1>1, <1>2, <1>3 DEF PrefixNext

\* It holds of every query with prefixes.
LEMMA PrefixInvAlways == PrefixSpec => []PrefixInv
<1>1. PrefixInit => PrefixInv
  <2> SUFFICES ASSUME PrefixInit PROVE PrefixInv
    OBVIOUS
  <2>1. Inv /\ prefixes = {} /\ original = {}
    BY InvInit DEF PrefixInit, Init
  <2> QED BY <2>1 DEF PrefixInv
<1>2. PrefixInv /\ [PrefixNext]_prefixVars => PrefixInv'
  BY PrefixInvStep
<1> QED BY <1>1, <1>2, PTL DEF PrefixSpec

\* What it says of a request.
LEMMA PrefixInvExact ==
  ASSUME EmptyKey \notin EndKeys, PrefixInv
  PROVE  SelectsWhatWasAsked
<1> DEFINE asked == query.row_ranges
           whole == query.row_keys = {} /\ asked = {}
           byPrefix == {PrefixRange(p) : p \in prefixes}
<1> SUFFICES ASSUME NEW o \in original, NEW s \in Strings \ {<<>>}
             PROVE  Selects(o, Number[s]) <=>
                      \/ whole
                      \/ Number[s] \in query.row_keys
                      \/ \E r \in asked \ byPrefix : Holds(r, Number[s])
                      \/ \E p \in prefixes : IsPrefix(p, s)
  BY DEF SelectsWhatWasAsked
<1> DEFINE n == Number[s]
<1>1. n \in Nat /\ n # EmptyKey
  BY NumberKeepsOrder DEF EmptyKey
<1>2. \A p \in prefixes : Holds(PrefixRange(p), n) <=> IsPrefix(p, s)
  BY PrefixRangeIs DEF PrefixInv
<1> HIDE DEF n
<1>3. byPrefix \subseteq asked
  BY DEF PrefixInv
<1>4. asked \in SUBSET AskedRanges
  BY DEF PrefixInv, Inv, QueryType
<1>5. \A r \in asked : InRange(ProtoRowRange(r), n) <=> Holds(r, n)
  BY <1>1, <1>4, RangeRead
<1> DEFINE ranges == {ProtoRowRange(r) : r \in asked}
           rs == [row_keys |-> query.row_keys, row_ranges |-> ranges]
<1>6. o.rows = IF whole THEN {} ELSE {rs}
  <2>1. o = [rows |-> IF whole THEN {} ELSE {rs}, rows_limit |-> query.limit, reversed |-> query.reversed]
    BY DEF PrefixInv, IntoRequest
  <2> HIDE DEF whole, rs
  <2> QED BY <2>1
<1>7. Selects(o, n) <=> \/ whole \/ n \in query.row_keys
                        \/ \E r \in asked : InRange(ProtoRowRange(r), n)
  <2>1. rs.row_keys = query.row_keys /\ rs.row_ranges = ranges
    OBVIOUS
  <2>2. InRowSet(rs, n) <=> n \in query.row_keys \/ \E r \in ranges : InRange(r, n)
    <3> HIDE DEF rs, ranges
    <3> QED BY <2>1 DEF InRowSet
  <2>3. (\E r \in ranges : InRange(r, n)) <=> \E r \in asked : InRange(ProtoRowRange(r), n)
    OBVIOUS
  <2> HIDE DEF whole, rs, ranges
  <2>4. Selects(o, n) <=> whole \/ InRowSet(rs, n)
    BY <1>6 DEF Selects
  <2> QED BY <2>2, <2>3, <2>4
<1>8. (\E r \in asked : Holds(r, n)) <=>
        (\E r \in asked \ byPrefix : Holds(r, n)) \/ (\E p \in prefixes : Holds(PrefixRange(p), n))
  BY <1>3
<1> QED BY <1>2, <1>5, <1>7, <1>8 DEF n

\* The request made of a query selects exactly the rows asked for, by key, by
\* range or by prefix, for every alphabet and length of keys, if no range ends
\* at the empty key (prefix_successor, RowRange::prefix, into_request).
THEOREM PrefixesAreExact ==
  ASSUME EmptyKey \notin EndKeys
  PROVE  PrefixSpec => []SelectsWhatWasAsked
<1>1. PrefixInv => SelectsWhatWasAsked
  BY PrefixInvExact
<1> QED BY <1>1, PrefixInvAlways, PTL

\* A query with prefixes is resumed as exactly as one without, and its limit is
\* kept as well (resume_request).
THEOREM PrefixesResumeExactly ==
  ASSUME EmptyKey \notin EndKeys
  PROVE  PrefixSpec => [](ResumeExact /\ ResumeLimit)
<1>1. PrefixInv => ResumeExact /\ ResumeLimit
  BY InvExact, InvLimit DEF PrefixInv
<1> QED BY <1>1, PrefixInvAlways, PTL
=============================================================================
