----------------------------- MODULE RowMergerMC -----------------------------
(* Small instances of RowMerger for TLC.                                   *)
EXTENDS RowMerger

MCFamilies == {"f", "g"}
MCQualifiers == {"q", "r"}
MCBytes == {1}
MCValues == {<<>>, <<1>>, <<1, 1>>}
MCSizes == {-1, 0, 1, 2}
=============================================================================
