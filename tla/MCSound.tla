------------------------------ MODULE MCSound ------------------------------
(***************************************************************************)
(* The two halves of the sound: what is written to the chip, and what      *)
(* comes out of it.  They share no state, so the run takes one or the      *)
(* other.                                                                  *)
(***************************************************************************)
EXTENDS OpmShadow, PcmRing

VARIABLE half

SoundInit == Init /\ PcmInit /\ half \in {"chip", "samples"}

SoundNext ==
  \/ half = "chip" /\ Next /\ UNCHANGED <<pcmVars, half>>
  \/ half = "samples" /\ PcmNext /\ UNCHANGED <<vars, half>>

SoundSpec == SoundInit /\ [][SoundNext]_<<vars, pcmVars, half>>
=============================================================================
