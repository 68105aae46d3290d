--------------------------- MODULE MCWatchpoint ---------------------------
(* Constants of the runs of Watchpoint. *)
EXTENDS Watchpoint

Several ==
  {[type |-> "exec", address |-> 1, length |-> 1],
   [type |-> "write", address |-> 0, length |-> 2],
   [type |-> "read", address |-> 0, length |-> 1]}
One == {[type |-> "write", address |-> 0, length |-> 2]}
=============================================================================
