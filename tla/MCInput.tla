------------------------------ MODULE MCInput ------------------------------
(* Constants of the run of Input: the key 0, which has two rows in the      *)
(* table, with the shift key and the joypad's L2.                           *)
EXTENDS Input
CONSTANTS zero, lshift, l2, ZERO, UNDERSCORE, SH, digit, sign, tilde

MCKeys == <<zero, lshift, l2>>
MCKeyTable == <<[key |-> zero, code |-> ZERO],
                [key |-> zero, code |-> UNDERSCORE],
                [key |-> lshift, code |-> SH]>>
MCBase == [c \in {digit, sign} |-> zero]
=============================================================================
