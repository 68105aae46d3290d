----------------------------- MODULE ArclRewind -----------------------------
(***************************************************************************)
(* The rewind ring of ArclControl as the undo history it stands for        *)
(* (src/windows/arcl_control.c:24-56, 91-114, 233-348).                    *)
(***************************************************************************)
EXTENDS ArclControl, Sequences

\* The labels still in the ring, oldest first.
History ==
  [i \in 1..ring.count |-> ring.slot[RingIndex(ring, ring.count - i + 1)].frame]

\* The ring implements the undo stack: the arithmetic on rewind_next and
\* rewind_count loses, repeats and reorders nothing, also when captures fail
\* and when the ring wraps round.
Undo == INSTANCE UndoHistory WITH
          position <- frame, history <- History,
          MaxPosition <- MaxFrame, MaxLength <- Depth
UndoSpec == Undo!Spec

\* "newer history beyond that point" is discarded: entries rise with time and
\* none lies ahead of the machine.
Ordered ==
  /\ \A i, j \in DOMAIN History : i < j => History[i] < History[j]
  /\ \A i \in DOMAIN History : History[i] <= frame

\* The order is lost in one way only, by moving the machine behind the ring's
\* back: a reset or a loaded state.
Jumping == \E o \in {"reset", "load"} : At("mcp", "body", o)
OrderLostOnlyByJump == [][Ordered /\ ~Ordered' => Jumping]_vars

\* A rewind request that succeeds goes back, or stays, and gets the newest
\* entries it asked to drop out of the ring; one that fails moves nothing.
RewindGoesBack ==
  [][At("mcp", "body", "rewind") /\ reply' # reply =>
       IF reply'.ok
       THEN ring'.count = ring.count - call["mcp"].arg
            /\ (Ordered => frame' <= frame /\ Ordered')
       ELSE UNCHANGED <<frame, machine, ring>>]_vars
=============================================================================
