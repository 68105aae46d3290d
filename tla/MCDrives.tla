------------------------------ MODULE MCDrives ------------------------------
(* Constants of the run of Drives. *)
EXTENDS Drives
CONSTANTS b, c
MCSectors == {b, c}
MCProtected == {c}
=============================================================================
