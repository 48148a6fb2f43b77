----------------------------- MODULE PrefixQuery -----------------------------
(***************************************************************************)
(* Queries with prefixes (RowRange::prefix).  Here the row keys of         *)
(* RowQuery are told apart as byte strings: all strings of a few bytes,    *)
(* numbered in lexicographic order from the empty string, which is 0.      *)
(***************************************************************************)
EXTENDS RowQuery, SequencesExt

CONSTANTS
  MaxByte,      \* u8::MAX
  MaxLength     \* bound of the model: bytes in a key

ASSUME BytesAssumption == MaxByte \in Nat /\ MaxLength \in Nat

VARIABLE prefixes   \* the prefixes the caller has added

prefixVars == <<vars, prefixes>>

Strings == UNION {[1..n -> 0..MaxByte] : n \in 0..MaxLength}

\* The order of byte strings: a proper prefix comes first.
Less(s, t) ==
  \/ IsStrictPrefix(s, t)
  \/ \E i \in DOMAIN s \cap DOMAIN t : SubSeq(s, 1, i - 1) = SubSeq(t, 1, i - 1) /\ s[i] < t[i]

Number == [s \in Strings |-> Cardinality({t \in Strings : Less(t, s)})]

-----------------------------------------------------------------------------
\* Faulty variant: only the last byte is looked at.
LastByteSuccessor(prefix) ==
  IF prefix = <<>> \/ Last(prefix) = MaxByte THEN {} ELSE {Append(Front(prefix), Last(prefix) + 1)}

\* The least string above all that start with the prefix: its last byte that is
\* not the largest is raised and the rest dropped.  {} when there is none.
PrefixSuccessor(prefix) ==
  LET raisable == {i \in DOMAIN prefix : prefix[i] # MaxByte}
      index == Max(raisable)
  IN  IF raisable = {} THEN {} ELSE {Append(SubSeq(prefix, 1, index - 1), prefix[index] + 1)}

PrefixRange(prefix) ==
  LET successor == PrefixSuccessor(prefix)
      Exclusive(s) == [kind |-> "Exclusive", key |-> Number[s]]
  IN  [start |-> [kind |-> "Inclusive", key |-> Number[prefix]],
       end |-> IF successor = {} THEN [kind |-> "Unbounded", key |-> EmptyKey]
               ELSE Exclusive(CHOOSE s \in successor : TRUE)]

AddPrefix(prefix) ==
  /\ AddRowRange(PrefixRange(prefix))
  /\ prefixes' = prefixes \cup {prefix}

PrefixInit == Init /\ prefixes = {}

PrefixNext ==
  \/ Next /\ UNCHANGED prefixes
  \/ \E prefix \in Strings : AddPrefix(prefix)

PrefixSpec == PrefixInit /\ [][PrefixNext]_prefixVars

-----------------------------------------------------------------------------
\* Whether a range the caller wrote holds a key.
Holds(range, key) ==
  /\ CASE range.start.kind = "Unbounded" -> TRUE
       [] range.start.kind = "Inclusive" -> key >= range.start.key
       [] range.start.kind = "Exclusive" -> key > range.start.key
  /\ CASE range.end.kind = "Unbounded" -> TRUE
       [] range.end.kind = "Inclusive" -> key <= range.end.key
       [] range.end.kind = "Exclusive" -> key < range.end.key

\* The request selects exactly the rows the caller asked for: the whole table
\* when nothing was added, else the exact keys, the keys inside the ranges and,
\* byte by byte, the keys that start with a prefix, also where the prefix ends
\* in bytes that cannot be raised (prefix_successor, into_request).
SelectsWhatWasAsked ==
  \A request \in original, s \in Strings \ {<<>>} :
    LET ranges == query.row_ranges \ {PrefixRange(p) : p \in prefixes}
    IN  Selects(request, Number[s]) <=>
          \/ query.row_keys = {} /\ query.row_ranges = {}
          \/ Number[s] \in query.row_keys
          \/ \E range \in ranges : Holds(range, Number[s])
          \/ \E p \in prefixes : IsPrefix(p, s)
=============================================================================
