----------------------------- MODULE SplitBatches -----------------------------
(***************************************************************************)
(* How write.rs splits the entries of a bulk mutation into MutateRows      *)
(* requests.  An entry is its encoded length, the number of its mutations  *)
(* and whether it may be replayed.                                         *)
(***************************************************************************)
EXTENDS Integers, SequencesExt

\* Bytes of a varint: the loop shifts seven bits out at a time.
VarintSize(value) ==
  LET size[v \in 0..value] == IF v < 128 THEN 1 ELSE 1 + size[v \div 128]
  IN  size[value]

\* Faulty variant: the field tag is not counted.
RepeatedMessageUntagged(length) == VarintSize(length) + length

\* An embedded message: field tag, length, content.
RepeatedMessageSize(length) == 1 + VarintSize(length) + length

NoBatch(base) == [entries |-> <<>>, bytes |-> base, mutations |-> 0]

\* The entry does not fit into the batch being filled.  A batch that is still
\* empty takes any entry.
ExceedsTarget(current, entry, policy) ==
  /\ current.entries # <<>>
  /\ \/ Len(current.entries) = policy.max_entries_per_request
     \/ current.mutations + entry.mutations > policy.max_mutations
     \/ current.bytes + RepeatedMessageSize(entry.bytes) > policy.max_request_bytes

AddEntry(current, entry, index) ==
  [entries |-> Append(current.entries, index),
   bytes |-> current.bytes + RepeatedMessageSize(entry.bytes),
   mutations |-> current.mutations + entry.mutations]

\* One turn of the loop: the entry goes into the batch being filled, or ends it
\* and begins the next one.
PlaceEntry(acc, entry, index, base, policy) ==
  IF ExceedsTarget(acc.current, entry, policy)
    THEN [batches |-> Append(acc.batches, acc.current.entries),
          current |-> AddEntry(NoBatch(base), entry, index)]
    ELSE [acc EXCEPT !.current = AddEntry(@, entry, index)]

\* The loop over the entries: full batches, and the one being filled.
FillBatches(entries, base, policy) ==
  LET fill[n \in 0..Len(entries)] ==
        IF n = 0 THEN [batches |-> <<>>, current |-> NoBatch(base)]
        ELSE PlaceEntry(fill[n - 1], entries[n], n, base, policy)
  IN  fill[Len(entries)]

\* Faulty variant: the batch being filled at the end is forgotten.
SplitWithoutRest(entries, base, policy) == FillBatches(entries, base, policy).batches

\* The batches, each a sequence of indexes into `entries`.  base is the encoded
\* length of a request without entries.
Split(entries, base, policy) ==
  LET last == FillBatches(entries, base, policy)
  IN  IF last.current.entries = <<>> THEN last.batches
      ELSE Append(last.batches, last.current.entries)
=============================================================================
