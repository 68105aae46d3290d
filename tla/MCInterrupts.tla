---------------------------- MODULE MCInterrupts ----------------------------
(* Constants of the run of Interrupts: a timer before the keyboard, and     *)
(* saved states with and without a key interrupt pending.                   *)
EXTENDS Interrupts
CONSTANTS k1, k2

State(pending, key) ==
  [ier |-> Source, ipr |-> pending, imr |-> Source, isr |-> {},
   in_service |-> FALSE, mask |-> 0, device |-> FALSE, last_key |-> key]

MCLoadable ==
  {State({}, NoKey), State({Kbd}, k1), State(Source, k2),
   [State({}, k1) EXCEPT !.isr = {Kbd}, !.in_service = TRUE, !.mask = 6,
                         !.device = TRUE]}
=============================================================================
