--------------------------- MODULE MCArclSnapshot ---------------------------
(* Constants of the run of ArclSnapshot. *)
EXTENDS ArclSnapshot

SessionRequests ==
  {"status", "pause", "resume", "run", "advance", "reset", "save", "load"}
=============================================================================
