----------------------------- MODULE OpmShadow -----------------------------
(***************************************************************************)
(* The OPM write shadow (src/windows/arcl_opm.c): the sound chip cannot be *)
(* read back, so a hook in its write path (fmgen/fmg_wrap.cpp) keeps what  *)
(* was last written, the frame of each channel's last key-on write, and a  *)
(* ring of the newest key-on events.  x68k_opm (src/windows/arcl_l3.c)     *)
(* reads the three in three critical sections and takes no other lock, so  *)
(* the worker can run frames between them.                                 *)
(*                                                                         *)
(* Resets and loaded states change the chip and the frame counter, never   *)
(* the shadow.  One thread is inside the core at a time: CoreExclusive of  *)
(* ArclControl.                                                            *)
(***************************************************************************)
EXTENDS Integers, Sequences

CONSTANTS
  Channel,   \* the chip's channels
  Mask,      \* slot masks of a key-on write, 0 for key off
  Tone,      \* the other registers
  Value,     \* what is written to them, 0 after a reset
  LogMax,    \* ARCL_OPM_EVENT_LOG_MAX
  MaxFrame,  \* bound: frames run
  MaxEvent   \* bound: key-on events

Frame == 0..MaxFrame
Event == [frame : Frame, channel : Channel, mask : Mask]
Chip  == [key : [Channel -> Mask], regs : [Tone -> Value]]
Core  == {"nobody", "run", "worker"}

ASSUME OpmAssumption ==
  /\ LogMax \in Nat \ {0}
  /\ MaxFrame \in Nat
  /\ MaxEvent \in Nat
  /\ 0 \in Mask
  /\ 0 \in Value
  /\ Channel # {} /\ Channel \cap Tone = {}

VARIABLES
  regs,          \* g_regs
  key_on,        \* g_key_on
  key_on_frame,  \* g_key_on_frame
  event_log,     \* g_event_log
  event_count,   \* g_event_count
  current_frame, \* g_current_frame
  frame,         \* control->frame
  core,          \* who is inside a frame
  chip,          \* what the chip was last told; with CSM it ignores key-ons
  saved,         \* a saved state
  reader,        \* the request in progress, and its reply
  history,       \* every key-on event since the start
  fresh          \* channels and registers written since the last jump

shadowVars == <<regs, key_on, key_on_frame, event_log, event_count>>
ghostVars  == <<history, fresh>>
vars == <<shadowVars, current_frame, frame, core, chip, saved, reader,
          ghostVars>>

Silent  == [key |-> [c \in Channel |-> 0], regs |-> [r \in Tone |-> 0]]
Nothing == [frame |-> 0, channel |-> CHOOSE c \in Channel : TRUE, mask |-> 0]
Idle    == [stage |-> 0, key_on |-> [c \in Channel |-> 0],
            frames |-> [c \in Channel |-> 0], events |-> << >>]

Init ==
  /\ regs = Silent.regs
  /\ key_on = Silent.key
  /\ key_on_frame = [c \in Channel |-> 0]
  /\ event_log = [i \in 0..LogMax-1 |-> Nothing]
  /\ event_count = 0
  /\ current_frame = 0
  /\ frame = 0
  /\ core = "nobody"
  /\ chip = Silent
  /\ saved = [chip |-> Silent, frame |-> 0]
  /\ reader = Idle
  /\ history = << >>
  /\ fresh = {}

-----------------------------------------------------------------------------
(* A frame: the hint, then the guest's writes, then the count.             *)

\* Mutant: the frames are counted by the hook, not by the control.
FrameBeginCounts(who) ==
  /\ core = "nobody"
  /\ who = "run" => reader.stage = 0
  /\ frame < MaxFrame /\ current_frame < MaxFrame
  /\ core' = who
  /\ current_frame' = current_frame + 1
  /\ UNCHANGED <<shadowVars, frame, chip, saved, reader, ghostVars>>

\* The number the frame will have; the MCP thread runs frames between
\* requests only, the worker at any time.
FrameBegin(who) ==
  /\ core = "nobody"
  /\ who = "run" => reader.stage = 0
  /\ frame < MaxFrame
  /\ core' = who
  /\ current_frame' = frame + 1
  /\ UNCHANGED <<shadowVars, frame, chip, saved, reader, ghostVars>>

FrameEnd ==
  /\ core # "nobody"
  /\ core' = "nobody"
  /\ frame' = frame + 1
  /\ UNCHANGED <<shadowVars, current_frame, chip, saved, reader, ghostVars>>

WriteTone(r, v) ==
  /\ core # "nobody"
  /\ regs' = [regs EXCEPT ![r] = v]
  /\ chip' = [chip EXCEPT !.regs[r] = v]
  /\ fresh' = fresh \cup {r}
  /\ UNCHANGED <<key_on, key_on_frame, event_log, event_count, current_frame,
                 frame, core, saved, reader, history>>

\* Mutants: the frame is kept of key-ons only; a key-off leaves the mask.
StampOnly(e) == [key_on_frame EXCEPT ![e.channel] =
                   IF e.mask # 0 THEN e.frame ELSE @]
KeyedOnly(e) == [key_on EXCEPT ![e.channel] = IF e.mask # 0 THEN e.mask ELSE @]

LogIndex(n) == n % LogMax
Stamped(e)  == [key_on_frame EXCEPT ![e.channel] = e.frame]
Keyed(e)    == [key_on EXCEPT ![e.channel] = e.mask]

\* Register 0x08 sets the mask of one channel.
WriteKey(c, m) ==
  /\ core # "nobody"
  /\ event_count < MaxEvent
  /\ LET e == [frame |-> current_frame, channel |-> c, mask |-> m] IN
       /\ key_on' = Keyed(e)
       /\ key_on_frame' = Stamped(e)
       /\ event_log' = [event_log EXCEPT ![LogIndex(event_count)] = e]
       /\ history' = Append(history, e)
  /\ event_count' = event_count + 1
  /\ chip' = [chip EXCEPT !.key[c] = m]
  /\ fresh' = fresh \cup {c}
  /\ UNCHANGED <<regs, current_frame, frame, core, saved, reader>>

-----------------------------------------------------------------------------
(* Requests that change the chip without a write.                          *)

Between == core = "nobody" /\ reader.stage = 0

Save ==
  /\ Between
  /\ saved' = [chip |-> chip, frame |-> frame]
  /\ UNCHANGED <<shadowVars, current_frame, frame, core, chip, reader,
                 ghostVars>>

Jump(c, f) ==
  /\ Between
  /\ chip' = c
  /\ frame' = f
  /\ fresh' = {}
  /\ UNCHANGED <<shadowVars, current_frame, core, saved, reader, history>>

Load  == Jump(saved.chip, saved.frame)
Reset == Jump(Silent, 0)

-----------------------------------------------------------------------------
(* x68k_opm.                                                               *)

\* Mutant: the oldest entry is looked for at the write position, full or not.
EventsFromWrite ==
  LET n == IF event_count < LogMax THEN event_count ELSE LogMax
  IN  [i \in 1..n |-> event_log[LogIndex(event_count + i - 1)]]

\* The newest events, oldest first.
Events ==
  LET n == IF event_count < LogMax THEN event_count ELSE LogMax
  IN  [i \in 1..n |-> event_log[LogIndex(event_count - n + i - 1)]]

\* Mutant: the events are read first.
SectionsSwapped(s) == CASE s = 0 -> "events" [] s = 1 -> "keys" [] OTHER -> "frames"

\* The three critical sections of a request, in order.
Sections(s) == CASE s = 0 -> "keys" [] s = 1 -> "frames" [] OTHER -> "events"

Read ==
  /\ core # "run"
  /\ reader.stage \in 0..2
  /\ reader' =
       LET r == [reader EXCEPT !.stage = @ + 1]
       IN  CASE Sections(reader.stage) = "keys" -> [r EXCEPT !.key_on = key_on]
             [] Sections(reader.stage) = "frames" ->
                  [r EXCEPT !.frames = key_on_frame]
             [] OTHER -> [r EXCEPT !.events = Events]
  /\ UNCHANGED <<shadowVars, current_frame, frame, core, chip, saved,
                 ghostVars>>

Reply ==
  /\ reader.stage = 3
  /\ reader' = Idle
  /\ UNCHANGED <<shadowVars, current_frame, frame, core, chip, saved,
                 ghostVars>>

-----------------------------------------------------------------------------
Next ==
  \/ \E who \in {"run", "worker"} : FrameBegin(who)
  \/ FrameEnd
  \/ \E r \in Tone, v \in Value : WriteTone(r, v)
  \/ \E c \in Channel, m \in Mask : WriteKey(c, m)
  \/ Save \/ Load \/ Reset
  \/ Read \/ Reply

Spec == Init /\ [][Next]_vars

-----------------------------------------------------------------------------
(* Correctness                                                             *)

TypeOK ==
  /\ regs \in [Tone -> Value]
  /\ key_on \in [Channel -> Mask]
  /\ key_on_frame \in [Channel -> Frame]
  /\ event_log \in [0..LogMax-1 -> Event]
  /\ event_count \in 0..MaxEvent
  /\ current_frame \in Frame
  /\ frame \in Frame
  /\ core \in Core
  /\ chip \in Chip
  /\ saved \in [chip : Chip, frame : Frame]
  /\ reader \in [stage : 0..3, key_on : [Channel -> Mask],
                 frames : [Channel -> Frame], events : Seq(Event)]
  /\ history \in Seq(Event)
  /\ fresh \subseteq Channel \cup Tone

\* The newest part of the first n events that fits into the log.
Newest(n) ==
  LET size == IF n < LogMax THEN n ELSE LogMax
  IN  [i \in 1..size |-> history[n - size + i]]

\* The log gives the newest events in the order they happened, none lost and
\* none twice, before and after it wraps, and across resets and loads.
LogIsNewest == Events = Newest(Len(history))

\* The events of a channel among the first n, and the last of them.
Of(c, n)     == {i \in 1..n : history[i].channel = c}
IsLast(i, S) == i \in S /\ \A j \in S : j <= i
KeysAfter(n, keys) ==
  \A c \in Channel :
    \/ Of(c, n) = {} /\ keys[c] = 0
    \/ \E i \in 1..n : IsLast(i, Of(c, n)) /\ keys[c] = history[i].mask
FramesAfter(n, frames) ==
  \A c \in Channel :
    \/ Of(c, n) = {} /\ frames[c] = 0
    \/ \E i \in 1..n : IsLast(i, Of(c, n)) /\ frames[c] = history[i].frame

\* What is shown of a channel agrees with its last event in the log's history:
\* mask and frame are of one write, key-offs included.
KeyIsLastEvent ==
  KeysAfter(Len(history), key_on) /\ FramesAfter(Len(history), key_on_frame)

\* The three parts of a reply may belong to three moments, but each is whole
\* and they follow each other: an event that explains a mask or a frame in the
\* reply is in the reply's log, or older than all of it.
RepliesInOrder ==
  reader.stage = 3 =>
    \E k, l, m \in 0..Len(history) :
      /\ k <= l /\ l <= m
      /\ KeysAfter(k, reader.key_on)
      /\ FramesAfter(l, reader.frames)
      /\ reader.events = Newest(m)

\* An event is stamped with the number its frame has when it is done, however
\* the frame counter was moved before by a reset or a load.
EventCarriesItsFrame ==
  [][Len(history') > Len(history) =>
       history'[Len(history')].frame = frame + 1]_vars

\* After a reset or a load the shadow is wrong until the guest writes again:
\* what was written since is right, register by register, and nothing else.
RewrittenIsRight ==
  /\ \A c \in Channel \cap fresh : key_on[c] = chip.key[c]
  /\ \A r \in Tone \cap fresh : regs[r] = chip.regs[r]
=============================================================================
