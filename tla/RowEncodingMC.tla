---------------------------- MODULE RowEncodingMC ----------------------------
(* A small instance of RowEncoding for TLC.                                *)
EXTENDS RowEncoding

MCBytes == {1, 2}
MCValues == {<<>>, <<1>>, <<2>>, <<1, 2>>}
MCCellValues == {<<>>, <<1, 2>>}
=============================================================================
