---------------------------- MODULE UndoHistory ----------------------------
(***************************************************************************)
(* What arcl_rewind promises (the tool's text in src/windows/main.c:336-   *)
(* 343): a bounded history of positions, oldest dropped first, in which    *)
(* going back k entries restores the k-th newest and discards it with all  *)
(* newer ones, like an undo stack.                                         *)
(***************************************************************************)
EXTENDS Naturals, Sequences

CONSTANTS MaxPosition, MaxLength

VARIABLES position, history

Position == 0..MaxPosition

\* The newest MaxLength entries.
Newest(h) ==
  IF Len(h) > MaxLength THEN SubSeq(h, Len(h) - MaxLength + 1, Len(h)) ELSE h

Init == position = 0 /\ history = << >>

\* The machine goes one step on, up to the bound; the new position may be
\* recorded.
Advance ==
  /\ position' = IF position < MaxPosition THEN position + 1 ELSE position
  /\ history' \in {history, Newest(Append(history, position'))}

\* Back to the k-th newest entry, which is used up.
Undo ==
  \E k \in 1..Len(history) :
    /\ position' = history[Len(history) - k + 1]
    /\ history' = SubSeq(history, 1, Len(history) - k)

\* A reset or a loaded state moves the machine and leaves the history.
Jump == position' \in Position /\ UNCHANGED history

\* Enabling or disabling starts an empty history.
Forget == history' = << >> /\ UNCHANGED position

Next == Advance \/ Undo \/ Jump \/ Forget

Spec == Init /\ [][Next]_<<position, history>>
=============================================================================
