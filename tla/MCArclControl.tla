--------------------------- MODULE MCArclControl ---------------------------
(* Constants of the runs of ArclControl. *)
EXTENDS ArclControl

SessionRequests ==
  {"status", "pause", "resume", "run", "advance", "reset", "save", "load"}
HangRequests == {"resume", "run"}
WindowRequests == {"status", "pause", "resume", "run", "reset"}
=============================================================================
