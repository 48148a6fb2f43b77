------------------------------ MODULE RowStream ------------------------------
(***************************************************************************)
(* What a read promises its caller, with attempts, chunks, buffers and     *)
(* deadlines left out: the expected items come one by one, in order, and   *)
(* the stream ends once.  It may fail or be abandoned at any time, but it  *)
(* completes only when everything has come.                                *)
(***************************************************************************)
EXTENDS Sequences, Naturals

VARIABLES expected, delivered, status

vars == <<expected, delivered, status>>

Init == delivered = <<>> /\ status = "Open"

Deliver ==
  /\ status = "Open" /\ Len(delivered) < Len(expected)
  /\ delivered' = Append(delivered, expected[Len(delivered) + 1])
  /\ UNCHANGED <<expected, status>>

Complete ==
  /\ status = "Open" /\ delivered = expected
  /\ status' = "Complete"
  /\ UNCHANGED <<expected, delivered>>

Stop ==
  /\ status = "Open"
  /\ status' \in {"Failed", "Abandoned"}
  /\ UNCHANGED <<expected, delivered>>

Next == Deliver \/ Complete \/ Stop

Spec == Init /\ [][Next]_vars
=============================================================================
