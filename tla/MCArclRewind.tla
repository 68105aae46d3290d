---------------------------- MODULE MCArclRewind ----------------------------
(* Constants of the runs of ArclRewind. *)
EXTENDS ArclRewind

HistoryRequests == {"run", "save", "load", "enable", "disable", "rewind"}
JumpRequests == {"run", "reset", "enable", "disable", "rewind"}
=============================================================================
