------------------------------ MODULE ClientMC ------------------------------
(* A small instance of Client for TLC.                                     *)
EXTENDS Client

MCNames == {Text(FALSE, "", FALSE, "name"), Text(TRUE, "", FALSE, "name"), Text(TRUE, "", FALSE, "")}
Complete ==
  [RawDefault EXCEPT !.project_id = Text(FALSE, "", FALSE, "name"), !.instance_id = Text(FALSE, "", FALSE, "name")]
\* An environment with an emulator and one with two values that are refused.
MCRaw == {[Complete EXCEPT !.emulator_host = {Text(FALSE, "", FALSE, "name")}],
          [Complete EXCEPT !.request_timeout = 0, !.channel_pool_size = 0]}
=============================================================================
