---------------------------- MODULE SoundProofs ----------------------------
(***************************************************************************)
(* Theorems about the two halves of the sound: OpmShadow, for every number *)
(* of channels and registers, every size of the log and every number of    *)
(* frames and events; PcmRing, for every size of the ring and of the       *)
(* batch, every rate that makes less than a ring in a line, and any number *)
(* of samples.                                                             *)
(***************************************************************************)
EXTENDS MCSound, SequenceTheorems, TLAPS

-----------------------------------------------------------------------------
(* The chip: the inductive invariant of OpmShadow.                         *)

\* While somebody is inside, the hint is the number of the frame being run.
HintIsFrame == core # "nobody" => current_frame = frame + 1

\* The newest LogMax events are in the log, each at its place.
LogHolds ==
  /\ event_count = Len(history)
  /\ \A i \in 1..event_count :
       i > event_count - LogMax => event_log[LogIndex(i - 1)] = history[i]

\* The parts of a reply read so far belong to moments that follow each other.
RepliesSoFar ==
  \E k, l, m \in 0..Len(history) :
    /\ k <= l /\ l <= m
    /\ reader.stage >= 1 => KeysAfter(k, reader.key_on)
    /\ reader.stage >= 2 => FramesAfter(l, reader.frames)
    /\ reader.stage >= 3 => reader.events = Newest(m)

Sound ==
  /\ HintIsFrame
  /\ LogHolds
  /\ KeyIsLastEvent
  /\ RewrittenIsRight
  /\ RepliesSoFar

-----------------------------------------------------------------------------
(* Places in the ring.                                                     *)

LEMMA IndexRange ==
  ASSUME NEW n \in Nat
  PROVE  LogIndex(n) \in 0..LogMax-1
BY OpmAssumption DEF LogIndex

LEMMA DivMod ==
  ASSUME NEW a \in Int, NEW d \in Int, d > 0
  PROVE  /\ a = (a \div d) * d + (a % d)
         /\ a \div d \in Int
BY SMTT(60)

LEMMA Multiple ==
  ASSUME NEW k \in Int, NEW d \in Int, d > 0, k * d > 0
  PROVE  k * d >= d
<1>1. k > 0
  OBVIOUS
<1> QED
  BY <1>1

\* Two events less than a round apart have places of their own.
LEMMA PlacesDiffer ==
  ASSUME NEW a \in Nat, NEW b \in Nat, a < b, b - a < LogMax
  PROVE  LogIndex(a) # LogIndex(b)
<1> DEFINE k == (b \div LogMax) - (a \div LogMax)
<1>1. LogMax \in Int /\ LogMax > 0
  BY OpmAssumption
<1> SUFFICES ASSUME a % LogMax = b % LogMax PROVE FALSE
  BY DEF LogIndex
<1>2. /\ a = (a \div LogMax) * LogMax + (a % LogMax)
      /\ b = (b \div LogMax) * LogMax + (b % LogMax)
      /\ k \in Int
  BY <1>1, DivMod
<1>3. b - a = k * LogMax
  BY <1>1, <1>2, DivMod
<1> HIDE DEF k
<1>4. k * LogMax > 0
  BY <1>3
<1>5. k * LogMax >= LogMax
  BY <1>1, <1>2, <1>4, Multiple
<1> QED
  BY <1>1, <1>3, <1>5

-----------------------------------------------------------------------------
(* What the log gives.                                                     *)

LEMMA EventsAreNewest ==
  ASSUME TypeOK, LogHolds
  PROVE  LogIsNewest
<1> DEFINE n == IF event_count < LogMax THEN event_count ELSE LogMax
<1>1. event_count \in Nat /\ LogMax \in Nat /\ event_count = Len(history)
  BY OpmAssumption DEF TypeOK, LogHolds
<1>2. n \in Nat /\ n <= event_count /\ n <= LogMax
  BY <1>1
<1>3. ASSUME NEW i \in 1..n
      PROVE  event_log[LogIndex(event_count - n + i - 1)]
               = history[event_count - n + i]
  <2> HIDE DEF n
  <2> DEFINE j == event_count - n + i
  <2>1. j \in 1..event_count /\ j > event_count - LogMax
    BY <1>1, <1>2
  <2> HIDE DEF j
  <2>2. event_log[LogIndex(j - 1)] = history[j]
    BY <2>1 DEF LogHolds
  <2> QED
    BY <1>1, <1>2, <2>2 DEF j, LogIndex
<1>4. Events = [i \in 1..n |-> event_log[LogIndex(event_count - n + i - 1)]]
  BY DEF Events
<1>5. Newest(Len(history)) = [i \in 1..n |-> history[event_count - n + i]]
  BY <1>1 DEF Newest
<1> QED
  BY <1>3, <1>4, <1>5 DEF LogIsNewest

-----------------------------------------------------------------------------
(* A new event.                                                            *)

\* What was true of the first events stays true when one is added.
LEMMA PrefixStays ==
  ASSUME NEW e \in Event, history \in Seq(Event),
         history' = Append(history, e)
  PROVE  /\ history' \in Seq(Event)
         /\ Len(history') = Len(history) + 1
         /\ history'[Len(history) + 1] = e
         /\ \A i \in 1..Len(history) : history'[i] = history[i]
OBVIOUS

LEMMA NewestStays ==
  ASSUME NEW n \in 0..Len(history), history \in Seq(Event),
         \A i \in 1..n : history'[i] = history[i]
  PROVE  Newest(n)' = Newest(n)
<1> DEFINE size == IF n < LogMax THEN n ELSE LogMax
<1>1. size \in 0..n /\ n \in Nat
  BY OpmAssumption
<1>2. \A i \in 1..size : history'[n - size + i] = history[n - size + i]
  <2> HIDE DEF size
  <2> TAKE i \in 1..size
  <2>1. n - size + i \in 1..n
    BY <1>1
  <2> QED
    BY <2>1
<1>3. Newest(n) = [i \in 1..size |-> history[n - size + i]]
  BY DEF Newest
<1>4. Newest(n)' = [i \in 1..size |-> history'[n - size + i]]
  BY DEF Newest
<1> HIDE DEF size
<1> QED
  BY <1>2, <1>3, <1>4

\* The parts already read are of a beginning of the history.
LEMMA RepliesStay ==
  ASSUME TypeOK, RepliesSoFar, UNCHANGED reader, UNCHANGED history
           \/ \E e \in Event : history' = Append(history, e)
  PROVE  RepliesSoFar'
<1>1. history \in Seq(Event)
  BY DEF TypeOK
<1>2. /\ Len(history') >= Len(history)
      /\ Len(history') \in Nat
      /\ \A i \in 1..Len(history) : history'[i] = history[i]
  BY <1>1, PrefixStays
<1>3. PICK k \in 0..Len(history), l \in 0..Len(history),
           m \in 0..Len(history) :
        /\ k <= l /\ l <= m
        /\ reader.stage >= 1 => KeysAfter(k, reader.key_on)
        /\ reader.stage >= 2 => FramesAfter(l, reader.frames)
        /\ reader.stage >= 3 => reader.events = Newest(m)
  BY DEF RepliesSoFar
<1>4. Len(history) \in Nat
  BY <1>1
<1>5. /\ k \in 0..Len(history') /\ l \in 0..Len(history')
      /\ m \in 0..Len(history')
  BY <1>2, <1>4
<1>6. /\ reader'.stage >= 1 => KeysAfter(k, reader.key_on)'
      /\ reader'.stage >= 2 => FramesAfter(l, reader.frames)'
      /\ reader'.stage >= 3 => reader'.events = Newest(m)'
  <2>1. /\ \A i \in 1..k : history'[i] = history[i]
        /\ \A i \in 1..l : history'[i] = history[i]
        /\ \A i \in 1..m : history'[i] = history[i]
    BY <1>2, <1>4
  <2>2. Newest(m)' = Newest(m)
    BY <1>1, <1>4, <2>1, NewestStays
  <2>3. KeysAfter(k, reader.key_on) => KeysAfter(k, reader.key_on)'
    <3>1. \A c \in Channel : Of(c, k)' = Of(c, k)
      BY <1>4, <2>1 DEF Of
    <3> QED
      BY <2>1, <3>1 DEF KeysAfter, IsLast
  <2>4. FramesAfter(l, reader.frames) => FramesAfter(l, reader.frames)'
    <3>1. \A c \in Channel : Of(c, l)' = Of(c, l)
      BY <1>4, <2>1 DEF Of
    <3> QED
      BY <2>1, <3>1 DEF FramesAfter, IsLast
  <2> QED
    BY <1>3, <2>2, <2>3, <2>4
<1> QED
  BY <1>3, <1>5, <1>6 DEF RepliesSoFar

-----------------------------------------------------------------------------
(* Types.                                                                  *)

LEMMA NothingType == Nothing \in Event /\ Silent \in Chip
<1>1. (CHOOSE c \in Channel : TRUE) \in Channel
  BY OpmAssumption
<1>2. 0 \in Frame /\ 0 \in Mask /\ 0 \in Value
  BY OpmAssumption DEF Frame
<1>3. Nothing \in Event
  BY <1>1, <1>2 DEF Nothing, Event
<1>4. Silent \in Chip
  BY <1>2 DEF Silent, Chip
<1> QED
  BY <1>3, <1>4

LEMMA InitTypes == Init => TypeOK
<1> SUFFICES ASSUME Init PROVE TypeOK
  OBVIOUS
<1> USE DEF Init
<1>1. regs \in [Tone -> Value] /\ key_on \in [Channel -> Mask]
      /\ key_on_frame \in [Channel -> Frame]
  BY OpmAssumption DEF Silent, Frame
<1>2. event_log \in [0..LogMax-1 -> Event]
  BY NothingType
<1>3. event_count \in 0..MaxEvent /\ current_frame \in Frame /\ frame \in Frame
  BY OpmAssumption DEF Frame
<1>4. saved \in [chip : Chip, frame : Frame] /\ chip \in Chip
  BY NothingType, OpmAssumption DEF Frame
<1>5. reader \in [stage : 0..3, key_on : [Channel -> Mask],
                 frames : [Channel -> Frame], events : Seq(Event)]
  BY OpmAssumption DEF Idle, Frame
<1>6. core \in Core /\ history \in Seq(Event)
  BY DEF Core
<1> QED
  BY <1>1, <1>2, <1>3, <1>4, <1>5, <1>6 DEF TypeOK

LEMMA EventsType ==
  ASSUME TypeOK
  PROVE  Events \in Seq(Event)
<1> DEFINE n == IF event_count < LogMax THEN event_count ELSE LogMax
<1>1. n \in Nat /\ n <= event_count /\ event_count \in Nat
  BY OpmAssumption DEF TypeOK
<1>2. Events = [i \in 1..n |-> event_log[LogIndex(event_count - n + i - 1)]]
  BY DEF Events
<1> HIDE DEF n
<1>3. ASSUME NEW i \in 1..n
      PROVE  event_log[LogIndex(event_count - n + i - 1)] \in Event
  <2>1. event_count - n + i - 1 \in Nat
    BY <1>1
  <2>2. LogIndex(event_count - n + i - 1) \in 0..LogMax-1
    BY <2>1, IndexRange
  <2> QED
    BY <2>2 DEF TypeOK
<1>4. Events \in [1..n -> Event]
  BY <1>2, <1>3
<1> QED
  BY <1>1, <1>4

LEMMA TypesFrame ==
  ASSUME TypeOK, HintIsFrame, (\E w \in {"run", "worker"} : FrameBegin(w)) \/ FrameEnd
  PROVE  TypeOK' /\ HintIsFrame'
<1>1. UNCHANGED shadowVars /\ UNCHANGED <<chip, saved, reader, ghostVars>>
  BY DEF FrameBegin, FrameEnd
<1>2. CASE \E w \in {"run", "worker"} : FrameBegin(w)
  <2>1. /\ frame \in Nat /\ frame < MaxFrame /\ frame' = frame
        /\ current_frame' = frame + 1 /\ core' \in Core
    BY <1>2 DEF FrameBegin, TypeOK, Frame, Core
  <2> QED
    BY <1>1, <2>1, OpmAssumption
       DEF TypeOK, HintIsFrame, Frame, shadowVars, ghostVars
<1>3. CASE FrameEnd
  <2>1. /\ frame' = frame + 1 /\ current_frame = frame + 1
        /\ current_frame' = current_frame /\ core' = "nobody"
    BY <1>3 DEF FrameEnd, HintIsFrame
  <2> QED
    BY <1>1, <2>1 DEF TypeOK, HintIsFrame, Core, shadowVars, ghostVars
<1> QED
  BY <1>2, <1>3

LEMMA TypesWrite ==
  ASSUME TypeOK, HintIsFrame,
         \/ \E r \in Tone, v \in Value : WriteTone(r, v)
         \/ \E c \in Channel, m \in Mask : WriteKey(c, m)
  PROVE  TypeOK' /\ HintIsFrame'
<1>1. CASE \E r \in Tone, v \in Value : WriteTone(r, v)
  <2>1. PICK r \in Tone, v \in Value : WriteTone(r, v)
    BY <1>1
  <2>2. regs' \in [Tone -> Value] /\ chip' \in Chip
        /\ fresh' \subseteq Channel \cup Tone
    BY <2>1 DEF WriteTone, TypeOK, Chip
  <2> QED
    BY <2>1, <2>2 DEF WriteTone, TypeOK, HintIsFrame
<1>2. CASE \E c \in Channel, m \in Mask : WriteKey(c, m)
  <2>1. PICK c \in Channel, m \in Mask : WriteKey(c, m)
    BY <1>2
  <2> DEFINE e == [frame |-> current_frame, channel |-> c, mask |-> m]
  <2>2. e \in Event
    BY DEF TypeOK, Event
  <2>3. /\ key_on' \in [Channel -> Mask]
        /\ key_on_frame' \in [Channel -> Frame]
        /\ chip' \in Chip
        /\ fresh' \subseteq Channel \cup Tone
    BY <2>1 DEF WriteKey, TypeOK, Chip, Keyed, Stamped
  <2>4. event_log' \in [0..LogMax-1 -> Event] /\ history' \in Seq(Event)
    <3>1. /\ event_log' = [event_log EXCEPT ![LogIndex(event_count)] = e]
          /\ history' = Append(history, e)
      BY <2>1 DEF WriteKey
    <3> HIDE DEF e
    <3>2. event_log \in [0..LogMax-1 -> Event] /\ history \in Seq(Event)
      BY DEF TypeOK
    <3>3. event_log' \in [0..LogMax-1 -> Event]
      BY <2>2, <3>1, <3>2
    <3>4. history' \in Seq(Event)
      BY <2>2, <3>1, <3>2
    <3> QED
      BY <3>3, <3>4
  <2>5. event_count' \in 0..MaxEvent
    BY <2>1, OpmAssumption DEF WriteKey, TypeOK
  <2> QED
    BY <2>1, <2>3, <2>4, <2>5 DEF WriteKey, TypeOK, HintIsFrame
<1> QED
  BY <1>1, <1>2

LEMMA TypesRequest ==
  ASSUME TypeOK, HintIsFrame, Save \/ Load \/ Reset \/ Read \/ Reply
  PROVE  TypeOK' /\ HintIsFrame'
<1>1. CASE Save
  <2>1. saved' \in [chip : Chip, frame : Frame]
    BY <1>1 DEF Save, TypeOK
  <2> QED
    BY <1>1, <2>1 DEF Save, TypeOK, HintIsFrame, shadowVars, ghostVars
<1>2. CASE Load \/ Reset
  <2>1. /\ chip' \in Chip /\ frame' \in Frame /\ fresh' = {}
        /\ core = "nobody"
        /\ UNCHANGED <<shadowVars, current_frame, core, saved, reader, history>>
    BY <1>2, NothingType, OpmAssumption
       DEF Load, Reset, Jump, Between, TypeOK, Frame
  <2> QED
    BY <2>1 DEF TypeOK, HintIsFrame, shadowVars
<1>3. CASE Read \/ Reply
  <2>1. UNCHANGED <<shadowVars, current_frame, frame, core, chip, saved,
                    ghostVars>>
    BY <1>3 DEF Read, Reply
  <2>2. reader' \in [stage : 0..3, key_on : [Channel -> Mask],
                    frames : [Channel -> Frame], events : Seq(Event)]
    <3>1. CASE Read
      <4>1. \/ reader' = [reader EXCEPT !.stage = @ + 1, !.key_on = key_on]
            \/ reader' = [reader EXCEPT !.stage = @ + 1,
                                      !.frames = key_on_frame]
            \/ reader' = [reader EXCEPT !.stage = @ + 1, !.events = Events]
        BY <3>1 DEF Read, TypeOK
      <4>2. reader.stage + 1 \in 0..3
        BY <3>1 DEF Read
      <4> QED
        BY <4>1, <4>2, EventsType DEF TypeOK
    <3>2. CASE Reply
      BY <3>2, OpmAssumption DEF Reply, Idle, Frame
    <3> QED
      BY <1>3, <3>1, <3>2
  <2> QED
    BY <2>1, <2>2 DEF TypeOK, HintIsFrame, shadowVars, ghostVars
<1> QED
  BY <1>1, <1>2, <1>3

-----------------------------------------------------------------------------
(* The steps.                                                              *)

LEMMA InitSound == Init => Sound
<1> SUFFICES ASSUME Init PROVE Sound
  OBVIOUS
<1>1. history = << >> /\ event_count = 0 /\ core = "nobody" /\ fresh = {}
      /\ reader.stage = 0
  BY DEF Init, Idle
<1>2. HintIsFrame /\ RewrittenIsRight /\ LogHolds
  BY <1>1 DEF HintIsFrame, RewrittenIsRight, LogHolds
<1>3. KeyIsLastEvent
  <2>1. \A c \in Channel : Of(c, Len(history)) = {}
    BY <1>1 DEF Of
  <2> QED
    BY <2>1 DEF Init, Silent, KeyIsLastEvent, KeysAfter, FramesAfter
<1>4. RepliesSoFar
  <2>1. 0 \in 0..Len(history)
    BY <1>1
  <2> QED
    BY <1>1, <2>1 DEF RepliesSoFar
<1> QED
  BY <1>2, <1>3, <1>4 DEF Sound

\* Without an event the log and what is shown of the channels stay.
LEMMA NoEvent ==
  ASSUME Sound,
         UNCHANGED <<key_on, key_on_frame, event_log, event_count, history>>
  PROVE  LogHolds' /\ KeyIsLastEvent'
BY DEF Sound, LogHolds, KeyIsLastEvent, KeysAfter, FramesAfter, Of, IsLast,
       LogIndex

LEMMA EventLogged ==
  ASSUME TypeOK, LogHolds, NEW c \in Channel, NEW m \in Mask, WriteKey(c, m)
  PROVE  LogHolds'
<1> DEFINE e == [frame |-> current_frame, channel |-> c, mask |-> m]
<1>1. /\ event_log' = [event_log EXCEPT ![LogIndex(event_count)] = e]
      /\ history' = Append(history, e)
      /\ event_count' = event_count + 1
  BY DEF WriteKey
<1>2. e \in Event
  BY DEF TypeOK, Event
<1> HIDE DEF e
<1>3. /\ Len(history') = Len(history) + 1
      /\ history'[Len(history) + 1] = e
      /\ \A i \in 1..Len(history) : history'[i] = history[i]
  BY <1>1, <1>2, PrefixStays DEF TypeOK
<1>4. event_count \in Nat /\ event_count = Len(history) /\ LogMax \in Nat
      /\ event_log \in [0..LogMax-1 -> Event]
  BY OpmAssumption DEF TypeOK, LogHolds
<1>5. ASSUME NEW i \in 1..event_count', i > event_count' - LogMax
      PROVE  event_log'[LogIndex(i - 1)] = history'[i]
  <2>1. CASE i = event_count + 1
    <3>1. i - 1 = event_count /\ LogIndex(event_count) \in 0..LogMax-1
      BY <1>4, <2>1, IndexRange
    <3>2. LogIndex(i - 1) = LogIndex(event_count)
      BY <3>1
    <3> QED
      BY <1>1, <1>3, <1>4, <2>1, <3>1, <3>2
  <2>2. CASE i # event_count + 1
    <3>1. /\ i \in 1..event_count /\ i > event_count - LogMax
          /\ i - 1 \in Nat /\ i - 1 < event_count
          /\ event_count - (i - 1) < LogMax
      BY <1>1, <1>4, <1>5, <2>2
    <3>2. LogIndex(i - 1) # LogIndex(event_count)
      BY <1>4, <3>1, PlacesDiffer
    <3>3. LogIndex(i - 1) \in 0..LogMax-1
      BY <3>1, IndexRange
    <3>4. event_log[LogIndex(i - 1)] = history[i]
      BY <3>1 DEF LogHolds
    <3> QED
      BY <1>1, <1>3, <1>4, <3>1, <3>2, <3>3, <3>4
  <2> QED
    BY <2>1, <2>2
<1>6. event_count' = Len(history')
  BY <1>1, <1>3, <1>4
<1>7. \A i \in 1..event_count' : i > event_count' - LogMax =>
        event_log'[LogIndex(i - 1)'] = history'[i]
  BY <1>5 DEF LogIndex
<1> QED
  BY <1>6, <1>7 DEF LogHolds

LEMMA EventShown ==
  ASSUME TypeOK, KeyIsLastEvent,
         NEW c \in Channel, NEW m \in Mask, WriteKey(c, m)
  PROVE  KeyIsLastEvent'
<1> DEFINE e == [frame |-> current_frame, channel |-> c, mask |-> m]
           n == Len(history)
<1>1. /\ history' = Append(history, e)
      /\ key_on' = [key_on EXCEPT ![c] = m]
      /\ key_on_frame' = [key_on_frame EXCEPT ![c] = current_frame]
  BY DEF WriteKey, Keyed, Stamped
<1>2. e \in Event /\ n \in Nat
  BY DEF TypeOK, Event
<1>3. e.channel = c /\ e.mask = m /\ e.frame = current_frame
  OBVIOUS
<1> HIDE DEF e
<1>4. /\ Len(history') = n + 1
      /\ history'[n + 1] = e
      /\ \A i \in 1..n : history'[i] = history[i]
  BY <1>1, <1>2, PrefixStays DEF TypeOK
<1> HIDE DEF n
<1>5. ASSUME NEW d \in Channel
      PROVE  Of(d, Len(history))' = {i \in 1..n+1 : history'[i].channel = d}
  BY <1>4 DEF Of
<1> DEFINE Seen(d) == {i \in 1..n+1 : history'[i].channel = d}
<1>6. ASSUME NEW d \in Channel
      PROVE  \/ Seen(d) = {} /\ key_on'[d] = 0 /\ key_on_frame'[d] = 0
             \/ \E i \in 1..n+1 : /\ IsLast(i, Seen(d))
                                  /\ key_on'[d] = history'[i].mask
                                  /\ key_on_frame'[d] = history'[i].frame
  <2>1. CASE d = c
    <3>1. n + 1 \in Seen(d) /\ IsLast(n + 1, Seen(d)) /\ n + 1 \in 1..n+1
      BY <1>2, <1>3, <1>4, <2>1 DEF IsLast
    <3>2. key_on'[d] = m /\ key_on_frame'[d] = current_frame
      BY <1>1, <2>1 DEF TypeOK
    <3> QED
      BY <1>3, <1>4, <3>1, <3>2
  <2>2. CASE d # c
    <3>1. Seen(d) = Of(d, n)
      BY <1>2, <1>3, <1>4, <2>2 DEF Of
    <3>2. key_on'[d] = key_on[d] /\ key_on_frame'[d] = key_on_frame[d]
      BY <1>1, <2>2 DEF TypeOK
    <3>3. \/ Of(d, n) = {} /\ key_on[d] = 0 /\ key_on_frame[d] = 0
          \/ \E i \in 1..n : /\ IsLast(i, Of(d, n))
                             /\ key_on[d] = history[i].mask
                             /\ key_on_frame[d] = history[i].frame
      <4>1. ASSUME NEW i \in 1..n, NEW j \in 1..n,
                   IsLast(i, Of(d, n)), IsLast(j, Of(d, n))
            PROVE  i = j
        BY <1>2, <4>1 DEF IsLast
      <4> QED
        BY <4>1 DEF KeyIsLastEvent, KeysAfter, FramesAfter, IsLast, n
    <3> HIDE DEF Seen
    <3>4. CASE Of(d, n) = {} /\ key_on[d] = 0 /\ key_on_frame[d] = 0
      BY <3>1, <3>2, <3>4
    <3>5. CASE \E i \in 1..n : /\ IsLast(i, Of(d, n))
                             /\ key_on[d] = history[i].mask
                             /\ key_on_frame[d] = history[i].frame
      BY <1>2, <1>4, <3>1, <3>2, <3>5
    <3> QED
      BY <3>3, <3>4, <3>5
  <2> QED
    BY <2>1, <2>2
<1>7. \A d \in Channel : Of(d, Len(history))' = Seen(d)
  BY <1>5
<1> HIDE DEF Seen
<1>8. ASSUME NEW d \in Channel
      PROVE  \/ Of(d, Len(history))' = {}
                /\ key_on'[d] = 0 /\ key_on_frame'[d] = 0
             \/ \E i \in 1..Len(history') :
                  /\ IsLast(i, Of(d, Len(history))')
                  /\ key_on'[d] = history'[i].mask
                  /\ key_on_frame'[d] = history'[i].frame
  BY <1>4, <1>6, <1>7
<1> QED
  BY <1>8 DEF KeyIsLastEvent, KeysAfter, FramesAfter, IsLast

LEMMA StepFrame ==
  ASSUME TypeOK, Sound,
         (\E w \in {"run", "worker"} : FrameBegin(w)) \/ FrameEnd
  PROVE  TypeOK' /\ Sound'
<1>1. UNCHANGED shadowVars /\ UNCHANGED <<chip, saved, reader, ghostVars>>
  BY DEF FrameBegin, FrameEnd
<1>2. TypeOK' /\ HintIsFrame'
  BY TypesFrame DEF Sound
<1>3. LogHolds' /\ KeyIsLastEvent'
  BY <1>1, NoEvent DEF shadowVars, ghostVars
<1>4. RepliesSoFar'
  BY <1>1, RepliesStay DEF Sound, ghostVars
<1>5. RewrittenIsRight'
  BY <1>1 DEF Sound, RewrittenIsRight, shadowVars, ghostVars
<1> QED
  BY <1>2, <1>3, <1>4, <1>5 DEF Sound

LEMMA StepTone ==
  ASSUME TypeOK, Sound, \E r \in Tone, v \in Value : WriteTone(r, v)
  PROVE  TypeOK' /\ Sound'
<1>1. PICK r \in Tone, v \in Value : WriteTone(r, v)
  OBVIOUS
<1>2. TypeOK' /\ HintIsFrame'
  BY TypesWrite DEF Sound
<1>3. /\ regs' = [regs EXCEPT ![r] = v]
      /\ chip' = [chip EXCEPT !.regs[r] = v]
      /\ fresh' = fresh \cup {r}
      /\ UNCHANGED <<key_on, key_on_frame, event_log, event_count, reader,
                     history>>
  BY <1>1 DEF WriteTone
<1>4. LogHolds' /\ KeyIsLastEvent'
  BY <1>3, NoEvent
<1>5. RepliesSoFar'
  BY <1>3, RepliesStay DEF Sound
<1>6. RewrittenIsRight'
  BY <1>3, OpmAssumption DEF Sound, RewrittenIsRight, TypeOK, Chip
<1> QED
  BY <1>2, <1>4, <1>5, <1>6 DEF Sound

LEMMA StepKey ==
  ASSUME TypeOK, Sound, \E c \in Channel, m \in Mask : WriteKey(c, m)
  PROVE  TypeOK' /\ Sound'
<1>1. PICK c \in Channel, m \in Mask : WriteKey(c, m)
  OBVIOUS
<1>2. TypeOK' /\ HintIsFrame'
  BY TypesWrite DEF Sound
<1>3. LogHolds' /\ KeyIsLastEvent'
  BY <1>1, EventLogged, EventShown DEF Sound
<1>4. RepliesSoFar'
  <2> DEFINE e == [frame |-> current_frame, channel |-> c, mask |-> m]
  <2>1. e \in Event
    BY DEF TypeOK, Event
  <2>2. history' = Append(history, e) /\ UNCHANGED reader
    BY <1>1 DEF WriteKey
  <2> HIDE DEF e
  <2> QED
    BY <2>1, <2>2, RepliesStay DEF Sound
<1>5. RewrittenIsRight'
  <2>1. /\ key_on' = [key_on EXCEPT ![c] = m]
        /\ chip' = [chip EXCEPT !.key[c] = m]
        /\ fresh' = fresh \cup {c}
        /\ regs' = regs
    BY <1>1 DEF WriteKey, Keyed
  <2> QED
    BY <2>1, OpmAssumption DEF Sound, RewrittenIsRight, TypeOK, Chip
<1> QED
  BY <1>2, <1>3, <1>4, <1>5 DEF Sound

LEMMA StepState ==
  ASSUME TypeOK, Sound, Save \/ Load \/ Reset
  PROVE  TypeOK' /\ Sound'
<1>1. /\ UNCHANGED <<shadowVars, history, reader>>
      /\ fresh' = {} \/ (fresh' = fresh /\ chip' = chip)
  BY DEF Save, Load, Reset, Jump, ghostVars
<1>2. TypeOK' /\ HintIsFrame'
  BY TypesRequest DEF Sound
<1>3. LogHolds' /\ KeyIsLastEvent'
  BY <1>1, NoEvent DEF shadowVars
<1>4. RepliesSoFar'
  BY <1>1, RepliesStay DEF Sound
<1>5. RewrittenIsRight'
  BY <1>1 DEF Sound, RewrittenIsRight, shadowVars
<1> QED
  BY <1>2, <1>3, <1>4, <1>5 DEF Sound

LEMMA ReadPart ==
  ASSUME TypeOK, Read
  PROVE  /\ reader.stage \in 0..2 /\ reader'.stage = reader.stage + 1
         /\ reader.stage = 0 => reader'.key_on = key_on
         /\ reader.stage = 1 => /\ reader'.key_on = reader.key_on
                               /\ reader'.frames = key_on_frame
         /\ reader.stage = 2 => /\ reader'.key_on = reader.key_on
                               /\ reader'.frames = reader.frames
                               /\ reader'.events = Events
<1>1. reader \in [stage : 0..3, key_on : [Channel -> Mask],
                 frames : [Channel -> Frame], events : Seq(Event)]
  BY DEF TypeOK
<1>2. reader.stage \in 0..2
  BY DEF Read
<1>3. CASE reader.stage = 0
  <2>1. Sections(0) = "keys"
    BY DEF Sections
  <2>2. reader' = [reader EXCEPT !.stage = @ + 1, !.key_on = key_on]
    BY <1>3, <2>1 DEF Read
  <2> QED
    BY <1>1, <1>3, <2>2
<1>4. CASE reader.stage = 1
  <2>1. Sections(1) = "frames"
    BY DEF Sections
  <2>2. reader' = [reader EXCEPT !.stage = @ + 1, !.frames = key_on_frame]
    BY <1>4, <2>1 DEF Read
  <2> QED
    BY <1>1, <1>4, <2>2
<1>5. CASE reader.stage = 2
  <2>1. Sections(2) = "events"
    BY DEF Sections
  <2>2. reader' = [reader EXCEPT !.stage = @ + 1, !.events = Events]
    BY <1>5, <2>1 DEF Read
  <2> QED
    BY <1>1, <1>5, <2>2
<1> QED
  BY <1>2, <1>3, <1>4, <1>5

\* A part read now is of the whole history, which is where the later parts
\* cannot be older.
LEMMA StepReply ==
  ASSUME TypeOK, Sound, Read \/ Reply
  PROVE  TypeOK' /\ Sound'
<1>1. UNCHANGED <<shadowVars, chip, ghostVars>>
  BY DEF Read, Reply
<1>2. TypeOK' /\ HintIsFrame'
  BY TypesRequest DEF Sound
<1>3. LogHolds' /\ KeyIsLastEvent'
  BY <1>1, NoEvent DEF Sound, shadowVars, ghostVars
<1>4. RewrittenIsRight'
  BY <1>1 DEF Sound, RewrittenIsRight, shadowVars, ghostVars
<1> DEFINE n == Len(history)
<1>5. n \in Nat /\ history' = history
  BY <1>1 DEF TypeOK, ghostVars
<1>6. /\ KeysAfter(n, key_on)
      /\ FramesAfter(n, key_on_frame)
      /\ Events = Newest(n)
  BY EventsAreNewest DEF Sound, KeyIsLastEvent, LogIsNewest
<1>7. PICK k \in 0..n, l \in 0..n, m \in 0..n :
        /\ k <= l /\ l <= m
        /\ reader.stage >= 1 => KeysAfter(k, reader.key_on)
        /\ reader.stage >= 2 => FramesAfter(l, reader.frames)
        /\ reader.stage >= 3 => reader.events = Newest(m)
  BY DEF Sound, RepliesSoFar
<1> HIDE DEF n
<1>8. \E a, b, c \in 0..n :
        /\ a <= b /\ b <= c
        /\ reader'.stage >= 1 => KeysAfter(a, reader'.key_on)
        /\ reader'.stage >= 2 => FramesAfter(b, reader'.frames)
        /\ reader'.stage >= 3 => reader'.events = Newest(c)
  <2>1. CASE Reply
    <3>1. reader'.stage = 0 /\ 0 \in 0..n
      BY <1>5, <2>1 DEF Reply, Idle
    <3> QED
      BY <3>1
  <2>2. CASE Read /\ reader.stage = 0
    <3>1. reader'.stage = 1 /\ reader'.key_on = key_on
      BY <2>2, ReadPart
    <3>2. n \in 0..n
      BY <1>5
    <3> QED
      BY <1>6, <3>1, <3>2
  <2>3. CASE Read /\ reader.stage = 1
    <3>1. /\ reader'.stage = 2 /\ reader'.key_on = reader.key_on
          /\ reader'.frames = key_on_frame
      BY <2>3, ReadPart
    <3>2. n \in 0..n /\ k <= n
      BY <1>5
    <3>3. KeysAfter(k, reader'.key_on) /\ FramesAfter(n, reader'.frames)
      BY <1>6, <1>7, <2>3, <3>1
    <3> QED
      BY <3>1, <3>2, <3>3
  <2>4. CASE Read /\ reader.stage = 2
    <3>1. /\ reader'.stage = 3 /\ reader'.key_on = reader.key_on
          /\ reader'.frames = reader.frames /\ reader'.events = Events
      BY <2>4, ReadPart
    <3>2. n \in 0..n /\ l <= n
      BY <1>5
    <3>3. /\ KeysAfter(k, reader'.key_on)
          /\ FramesAfter(l, reader'.frames)
          /\ reader'.events = Newest(n)
      BY <1>6, <1>7, <2>4, <3>1
    <3> QED
      BY <1>7, <3>1, <3>2, <3>3
  <2> QED
    BY <2>1, <2>2, <2>3, <2>4, ReadPart
<1>9. RepliesSoFar'
  <2>1. PICK a \in 0..n, b \in 0..n, c \in 0..n :
          /\ a <= b /\ b <= c
          /\ reader'.stage >= 1 => KeysAfter(a, reader'.key_on)
          /\ reader'.stage >= 2 => FramesAfter(b, reader'.frames)
          /\ reader'.stage >= 3 => reader'.events = Newest(c)
    BY <1>8
  <2>2. KeysAfter(a, reader'.key_on) => KeysAfter(a, reader.key_on)'
    BY <1>5 DEF KeysAfter, Of, IsLast
  <2>3. FramesAfter(b, reader'.frames) => FramesAfter(b, reader.frames)'
    BY <1>5 DEF FramesAfter, Of, IsLast
  <2>4. Newest(c) = Newest(c)'
    BY <1>5 DEF Newest
  <2>5. n = Len(history')
    BY <1>5 DEF n
  <2> QED
    BY <2>1, <2>2, <2>3, <2>4, <2>5 DEF RepliesSoFar
<1> QED
  BY <1>2, <1>3, <1>4, <1>9 DEF Sound

-----------------------------------------------------------------------------
(* The theorems.                                                           *)

\* Every state is well typed and sound: the invariant is inductive.
THEOREM OpmInvariant == Spec => [](TypeOK /\ Sound)
<1>1. Init => TypeOK /\ Sound
  BY InitTypes, InitSound
<1>2. TypeOK /\ Sound /\ [Next]_vars => (TypeOK /\ Sound)'
  <2> SUFFICES ASSUME TypeOK, Sound, [Next]_vars PROVE TypeOK' /\ Sound'
    OBVIOUS
  <2>1. CASE (\E w \in {"run", "worker"} : FrameBegin(w)) \/ FrameEnd
    BY <2>1, StepFrame
  <2>2. CASE \E r \in Tone, v \in Value : WriteTone(r, v)
    BY <2>2, StepTone
  <2>3. CASE \E c \in Channel, m \in Mask : WriteKey(c, m)
    BY <2>3, StepKey
  <2>4. CASE Save \/ Load \/ Reset
    BY <2>4, StepState
  <2>5. CASE Read \/ Reply
    BY <2>5, StepReply
  <2>6. CASE UNCHANGED vars
    <3>1. UNCHANGED shadowVars /\ UNCHANGED <<chip, reader, ghostVars>>
          /\ UNCHANGED <<current_frame, frame, core, saved>>
      BY <2>6 DEF vars
    <3>2. TypeOK' /\ HintIsFrame' /\ RewrittenIsRight'
      BY <3>1 DEF Sound, TypeOK, HintIsFrame, RewrittenIsRight, shadowVars,
                  ghostVars
    <3>3. LogHolds' /\ KeyIsLastEvent'
      BY <3>1, NoEvent DEF shadowVars, ghostVars
    <3>4. RepliesSoFar'
      BY <3>1, RepliesStay DEF Sound, ghostVars
    <3> QED
      BY <3>2, <3>3, <3>4 DEF Sound
  <2> QED
    BY <2>1, <2>2, <2>3, <2>4, <2>5, <2>6 DEF Next
<1> QED
  BY <1>1, <1>2, PTL DEF Spec

\* The type invariant alone.
THEOREM OpmTypes == Spec => []TypeOK
BY OpmInvariant, PTL

\* The ring gives the newest events in order, for a log of any size that wraps
\* any number of times.
THEOREM LogGivesNewest == Spec => []LogIsNewest
<1>1. TypeOK /\ Sound => LogIsNewest
  BY EventsAreNewest DEF Sound
<1> QED
  BY <1>1, OpmInvariant, PTL

\* A channel's mask and frame are of the same, last event.
THEOREM KeysAreLastEvents == Spec => []KeyIsLastEvent
<1>1. Sound => KeyIsLastEvent
  BY DEF Sound
<1> QED
  BY <1>1, OpmInvariant, PTL

\* A reply's three parts are whole and follow each other, however many frames
\* the worker runs between the critical sections.
THEOREM RepliesAreInOrder == Spec => []RepliesInOrder
<1>1. Sound => RepliesInOrder
  BY DEF Sound, RepliesSoFar, RepliesInOrder
<1> QED
  BY <1>1, OpmInvariant, PTL

\* What the guest wrote since the last reset or load is shown as it is.
THEOREM RewrittenIsShown == Spec => []RewrittenIsRight
<1>1. Sound => RewrittenIsRight
  BY DEF Sound
<1> QED
  BY <1>1, OpmInvariant, PTL

LEMMA StampedAtOnce ==
  ASSUME TypeOK, Sound, [Next]_vars, Len(history') > Len(history)
  PROVE  history'[Len(history')].frame = frame + 1
<1>1. history' # history
  BY DEF TypeOK
<1>2. PICK c \in Channel, m \in Mask : WriteKey(c, m)
  BY <1>1 DEF Next, FrameBegin, FrameEnd, WriteTone, Save, Load, Reset, Jump,
              Read, Reply, vars, ghostVars
<1> DEFINE e == [frame |-> current_frame, channel |-> c, mask |-> m]
<1>3. /\ history' = Append(history, e)
      /\ current_frame = frame + 1
  BY <1>2 DEF WriteKey, Sound, HintIsFrame
<1>4. e \in Event /\ e.frame = current_frame
  BY DEF TypeOK, Event
<1> HIDE DEF e
<1>5. history'[Len(history')] = e
  BY <1>3, <1>4, PrefixStays DEF TypeOK
<1> QED
  BY <1>3, <1>4, <1>5

\* Every event is stamped with the number its frame has when it is done.
THEOREM EventsCarryTheirFrame == Spec => EventCarriesItsFrame
<1>1. TypeOK /\ Sound /\ [Next]_vars =>
        (Len(history') > Len(history) =>
           history'[Len(history')].frame = frame + 1)
  BY StampedAtOnce
<1> QED
  BY <1>1, OpmInvariant, PTL DEF Spec, EventCarriesItsFrame

-----------------------------------------------------------------------------
(* The samples: the inductive invariant of PcmRing.                        *)

Ring == [rp : 0..Size, wp : Cell, pcm : [Cell -> Nat], made : Nat]

Clip == [buf : BOOLEAN, active : BOOLEAN, data : Seq(Nat),
         truncated : BOOLEAN]

PcmTypeOK ==
  /\ snd \in Ring
  /\ pre \in 0..Unit-1
  /\ batch \in Seq(Nat)
  /\ clip \in Clip
  /\ stopped \in [said : BOOLEAN, data : Seq(Nat), truncated : BOOLEAN]
  /\ heard \in Nat
  /\ lost \in Nat
  /\ played \in Seq(Nat)

\* What waits in the ring is the newest samples in order.
HoldsNewest(r) ==
  \A k \in 0..Avail(r)-1 : r.pcm[Behind(r, k)] = r.made - Avail(r) + 1 + k

\* The last sample handed over is older than what waits.
BatchIsOlder ==
  batch # << >> => /\ batch[Len(batch)] \in Nat
                   /\ batch[Len(batch)] <= snd.made - Avail(snd)

\* Nothing is recorded without a buffer or after a stop.
Recorder ==
  /\ clip.active => clip.buf
  /\ stopped.said => ~clip.active

PcmInv ==
  /\ PcmTypeOK
  /\ RingIsWhole
  /\ BatchIsOlder
  /\ Recorder
  /\ ClipIsPrefix

-----------------------------------------------------------------------------
(* A line's share of the samples.                                          *)

LEMMA QuotientFits ==
  ASSUME NEW x \in Nat, NEW u \in Nat \ {0}, NEW s \in Nat, x < u * s
  PROVE  x \div u \in Nat /\ x \div u < s /\ x % u \in 0..u-1
<1>1. /\ x = (x \div u) * u + (x % u)
      /\ x \div u \in Int
      /\ x % u \in 0..u-1
  BY SMTT(60)
<1> DEFINE q == x \div u
<1> HIDE DEF q
<1>2. q \in Int /\ q * u <= x /\ x < q * u + u
  BY <1>1 DEF q
<1>3. q >= 0
  <2>1. ASSUME q < 0 PROVE FALSE
    <3>1. q + 1 <= 0
      BY <1>2, <2>1
    <3>2. (q + 1) * u <= 0
      BY <1>2, <3>1
    <3>3. (q + 1) * u = q * u + u
      BY <1>2
    <3> QED
      BY <1>2, <3>2, <3>3
  <2> QED
    BY <1>2, <2>1
<1>4. q < s
  <2>1. ASSUME q >= s PROVE FALSE
    <3>1. q - s \in Nat
      BY <1>2, <2>1
    <3>2. (q - s) * u >= 0
      BY <3>1
    <3>3. (q - s) * u = q * u - u * s
      BY <1>2
    <3> QED
      BY <1>2, <3>2, <3>3
  <2> QED
    BY <1>2, <2>1
<1> QED
  BY <1>1, <1>2, <1>3, <1>4 DEF q

LEMMA LineFits ==
  ASSUME PcmTypeOK, NEW c \in Clock
  PROVE  /\ (pre + Rate * c) \div Unit \in Nat
         /\ (pre + Rate * c) \div Unit < Size
         /\ (pre + Rate * c) % Unit \in 0..Unit-1
<1>1. /\ c \in Nat /\ Rate \in Nat /\ Unit \in Nat \ {0} /\ Size \in Nat
      /\ Unit + Rate * c < Unit * Size
      /\ pre \in 0..Unit-1
  BY PcmAssumption DEF PcmTypeOK
<1>2. Rate * c \in Nat
  BY <1>1
<1>3. Unit * Size \in Nat
  BY <1>1
<1>4. pre + Rate * c \in Nat /\ pre + Rate * c < Unit * Size
  BY <1>1, <1>2, <1>3
<1> DEFINE x == pre + Rate * c
<1> HIDE DEF x
<1>5. x \in Nat /\ x < Unit * Size
  BY <1>4 DEF x
<1>6. x \div Unit \in Nat /\ x \div Unit < Size /\ x % Unit \in 0..Unit-1
  BY <1>1, <1>5, QuotientFits
<1> QED
  BY <1>6 DEF x

-----------------------------------------------------------------------------
(* Sending samples to the ring.                                            *)

LEMMA Sizes ==
  /\ Size \in Nat /\ 1 <= Size
  /\ \A len \in Batches : len \in Nat /\ 1 <= len /\ len < Size
BY PcmAssumption


LEMMA AvailRange ==
  ASSUME NEW r \in Ring
  PROVE  Avail(r) \in 0..Size
BY Sizes DEF Ring, Cell, Avail

LEMMA SentFields ==
  ASSUME NEW r \in Ring, NEW n \in Nat, n < Size
  PROVE  /\ Sent(r, n) \in Ring
         /\ Sent(r, n).rp = r.rp
         /\ Sent(r, n).wp = IF r.wp + n >= Size THEN r.wp + n - Size
                            ELSE r.wp + n
         /\ Sent(r, n).made = r.made + n
         /\ \A i \in Cell : Sent(r, n).pcm[i] = IF Ahead(r, i) < n
                                                THEN r.made + 1 + Ahead(r, i)
                                                ELSE r.pcm[i]
<1>1. /\ r.rp \in 0..Size /\ r.wp \in Cell /\ r.pcm \in [Cell -> Nat]
      /\ r.made \in Nat
  BY DEF Ring
<1>2. \A i \in Cell : Ahead(r, i) \in Nat
  BY <1>1, Sizes DEF Cell, Ahead
<1> DEFINE p == [i \in Cell |-> IF Ahead(r, i) < n THEN r.made + 1 + Ahead(r, i)
                                ELSE r.pcm[i]]
           w == IF r.wp + n >= Size THEN r.wp + n - Size ELSE r.wp + n
<1>3. p \in [Cell -> Nat]
  BY <1>1, <1>2
<1>4. w \in Cell
  BY <1>1, Sizes DEF Cell
<1>5. r.made + n \in Nat
  BY <1>1
<1>6. Sent(r, n) = [r EXCEPT !.pcm = p, !.wp = w, !.made = r.made + n]
  BY DEF Sent
<1>7. \A i \in Cell : p[i] = IF Ahead(r, i) < n THEN r.made + 1 + Ahead(r, i)
                             ELSE r.pcm[i]
  OBVIOUS
<1> HIDE DEF p, w
<1>8. /\ Sent(r, n) \in Ring /\ Sent(r, n).rp = r.rp /\ Sent(r, n).wp = w
      /\ Sent(r, n).made = r.made + n /\ Sent(r, n).pcm = p
  BY <1>1, <1>3, <1>4, <1>5, <1>6 DEF Ring
<1> QED
  BY <1>7, <1>8 DEF w

LEMMA SentWhole ==
  ASSUME NEW r \in Ring, NEW n \in Nat, n < Size, HoldsNewest(r)
  PROVE  /\ HoldsNewest(Sent(r, n))
         /\ Avail(Sent(r, n)) = IF Avail(r) + n >= Size
                                THEN Avail(r) + n - Size ELSE Avail(r) + n
<1> DEFINE s == Sent(r, n)
           a == Avail(r)
<1>1. /\ r.rp \in 0..Size /\ r.wp \in 0..Size-1 /\ r.made \in Nat
      /\ Size \in Nat /\ a \in 0..Size
  BY AvailRange, Sizes DEF Ring, Cell
<1>2. /\ s.rp = r.rp
      /\ s.wp = IF r.wp + n >= Size THEN r.wp + n - Size ELSE r.wp + n
      /\ s.made = r.made + n
      /\ \A i \in 0..Size-1 : s.pcm[i] = IF Ahead(r, i) < n
                                         THEN r.made + 1 + Ahead(r, i)
                                         ELSE r.pcm[i]
  BY SentFields DEF Cell
<1> HIDE DEF s
<1>3. Avail(s) = IF a + n >= Size THEN a + n - Size ELSE a + n
  BY <1>1, <1>2 DEF Avail
<1>4. ASSUME NEW k \in 0..Avail(s)-1
      PROVE  s.pcm[Behind(s, k)] = s.made - Avail(s) + 1 + k
  <2>1. k \in Int /\ 0 <= k /\ k < Avail(s) /\ Avail(s) \in 0..Size
    BY <1>1, <1>3
  <2>2. /\ Behind(s, k) = Behind(r, k)
        /\ Behind(r, k) \in 0..Size-1
    BY <1>1, <1>2, <2>1, <1>3 DEF Behind
  <2>3. CASE a + n >= Size
    <3>1. Ahead(r, Behind(r, k)) = Size - a + k
      BY <1>1, <1>2, <1>3, <2>1, <2>3 DEF Behind, Ahead, Avail
    <3> QED
      BY <1>1, <1>2, <1>3, <2>1, <2>2, <2>3, <3>1
  <2>4. CASE a + n < Size /\ k >= a
    <3>1. Ahead(r, Behind(r, k)) = k - a
      BY <1>1, <1>2, <1>3, <2>1, <2>4 DEF Behind, Ahead, Avail
    <3> QED
      BY <1>1, <1>2, <1>3, <2>1, <2>2, <2>4, <3>1
  <2>5. CASE a + n < Size /\ k < a
    <3>1. Ahead(r, Behind(r, k)) = Size - a + k
      BY <1>1, <1>2, <1>3, <2>1, <2>5 DEF Behind, Ahead, Avail
    <3>2. r.pcm[Behind(r, k)] = r.made - a + 1 + k
      BY <1>1, <2>1, <2>5 DEF HoldsNewest
    <3> QED
      BY <1>1, <1>2, <1>3, <2>1, <2>2, <2>5, <3>1, <3>2
  <2> QED
    BY <1>1, <2>1, <2>3, <2>4, <2>5
<1> QED
  BY <1>3, <1>4 DEF HoldsNewest, s

-----------------------------------------------------------------------------
(* Taking a batch.                                                         *)

\* Making up for what is missing leaves it whole; the ring does not fill.
LEMMA ToppedWhole ==
  ASSUME NEW len \in Batches, NEW r \in Ring, NEW n \in Int, n <= len,
         HoldsNewest(r),
         n > 0 => Avail(r) + n < Size
  PROVE  /\ Topped(r, n) \in Ring
         /\ HoldsNewest(Topped(r, n))
         /\ Topped(r, n).rp = r.rp
         /\ Avail(Topped(r, n)) = IF n > 0 THEN Avail(r) + n ELSE Avail(r)
         /\ Topped(r, n).made = IF n > 0 THEN r.made + n ELSE r.made
         /\ n > 0 => Topped(r, n) = Sent(r, n)
         /\ n <= 0 => Topped(r, n) = r
<1>1. CASE n > 0
  <2>1. n \in Nat /\ n < Size /\ Topped(r, n) = Sent(r, n)
    BY <1>1, Sizes DEF Topped
  <2> QED
    <3>1. Avail(r) + n < Size /\ Avail(r) \in Int
      BY <1>1, AvailRange, Sizes
    <3>2. Avail(Sent(r, n)) = Avail(r) + n /\ HoldsNewest(Sent(r, n))
      BY <2>1, <3>1, SentWhole, Sizes
    <3>3. Sent(r, n) \in Ring /\ Sent(r, n).rp = r.rp
          /\ Sent(r, n).made = r.made + n
      BY <2>1, SentFields
    <3> QED
      BY <1>1, <2>1, <3>2, <3>3
<1>2. CASE n <= 0
  <2>1. Topped(r, n) = r
    BY <1>2 DEF Topped
  <2> QED
    BY <1>2, <2>1 DEF Ring
<1> QED
  BY <1>1, <1>2

\* Positions of the ring: how far the second is ahead, and the one so far on.
Gap(p, q) == IF p <= q THEN q - p ELSE Size - p + q
After(p, k) == IF p + k < Size THEN p + k ELSE p + k - Size

LEMMA MovedDistance ==
  ASSUME NEW len \in Batches,
         NEW p \in 0..Size, NEW q \in 0..Size-1, NEW pp \in 0..Size,
         Gap(p, q) >= len,
         pp = p + len \/ pp = p + len - Size,
         p <= q => pp = p + len
  PROVE  /\ Gap(pp, q) = Gap(p, q) - len
         /\ \A k \in 0..Gap(p, q)-len-1 :
              After(pp, k) = After(p, k + len)
<1>1. Gap(pp, q) = Gap(p, q) - len
  BY Sizes DEF Gap
<1>2. ASSUME NEW k \in 0..Gap(p, q)-len-1
      PROVE  After(pp, k) = After(p, k + len)
  BY <1>2, Sizes DEF Gap, After
<1> QED
  BY <1>1, <1>2

LEMMA BatchPlaces ==
  ASSUME NEW len \in Batches, NEW p \in 0..Size, NEW k \in 1..len
  PROVE  /\ After(p, k - 1) = IF k <= Size - p THEN p + k - 1
                             ELSE k - (Size - p) - 1
         /\ After(p, k - 1) \in Cell
BY Sizes DEF After, Cell

LEMMA BatchLen ==
  ASSUME NEW len \in Batches, NEW f \in [1..len -> Nat]
  PROVE  f \in Seq(Nat) /\ Len(f) = len
BY Sizes

\* A batch is the oldest samples that waited, made up to its size.
TakesOldest(r, t, len) ==
  /\ t.ring \in Ring
  /\ HoldsNewest(t.ring)
  /\ t.ring.made >= r.made
  /\ t.ring.made - Avail(t.ring) = r.made - Avail(r) + len
  /\ t.out \in Seq(Nat)
  /\ Len(t.out) = len
  /\ \A k \in 1..len : t.out[k] = r.made - Avail(r) + k

\* The read position moved over samples that were there.
LEMMA ReadMoves ==
  ASSUME NEW len \in Batches, NEW r \in Ring, HoldsNewest(r), NEW rp \in 0..Size, NEW t,
         t.ring = [r EXCEPT !.rp = rp],
         Avail(r) >= len,
         rp = r.rp + len \/ rp = r.rp + len - Size,
         r.rp <= r.wp => rp = r.rp + len,
         t.out \in Seq(Nat), Len(t.out) = len,
         \A k \in 1..len : t.out[k] = r.pcm[Behind(r, k - 1)]
  PROVE  TakesOldest(r, t, len)
<1> DEFINE s == t.ring
           a == Avail(r)
<1>1. /\ r.rp \in 0..Size /\ r.wp \in 0..Size-1 /\ r.made \in Nat
      /\ Size \in Nat /\ len \in Nat /\ 1 <= len /\ len < Size
      /\ a \in 0..Size
  BY AvailRange, Sizes DEF Ring, Cell
<1>2. /\ s \in Ring /\ s.rp = rp /\ s.wp = r.wp /\ s.pcm = r.pcm
      /\ s.made = r.made
  BY DEF Ring
<1>3. a = Gap(r.rp, r.wp) /\ a >= len /\ a = Avail(r)
  BY DEF Avail, Gap
<1>4. /\ r.rp <= r.wp => rp = r.rp + len
      /\ rp = r.rp + len \/ rp = r.rp + len - Size
  OBVIOUS
<1> HIDE DEF s, a
<1>5. Avail(s) = Gap(rp, r.wp)
  BY <1>2 DEF Avail, Gap
<1>6. /\ Gap(rp, r.wp) = Gap(r.rp, r.wp) - len
      /\ \A k \in 0..Gap(r.rp, r.wp)-len-1 :
           After(rp, k) = After(r.rp, k + len)
  <2>1. Gap(r.rp, r.wp) >= len
    BY <1>3
  <2>2. r.rp \in 0..Size /\ r.wp \in 0..Size-1
    BY <1>1
  <2> QED
    BY <1>4, <2>1, <2>2, MovedDistance
<1>7. Avail(s) = a - len
  BY <1>3, <1>5, <1>6
<1>8. ASSUME NEW k \in 0..Avail(s)-1
      PROVE  s.pcm[Behind(s, k)] = s.made - Avail(s) + 1 + k
  <2>1. k + len \in 0..a-1
    BY <1>1, <1>7
  <2>2. Behind(s, k) = After(rp, k)
    BY <1>2 DEF Behind, After
  <2>3. Behind(r, k + len) = After(r.rp, k + len)
    BY DEF Behind, After
  <2>4. Behind(s, k) = Behind(r, k + len)
    BY <1>3, <1>6, <1>7, <2>2, <2>3
  <2>5. r.pcm[Behind(r, k + len)] = r.made - a + 1 + (k + len)
    BY <1>3, <2>1 DEF HoldsNewest
  <2> QED
    BY <1>1, <1>2, <1>7, <2>1, <2>4, <2>5
<1>9. ASSUME NEW k \in 1..len
      PROVE  t.out[k] = r.made - Avail(r) + k
  <2>1. k - 1 \in 0..Avail(r)-1
    BY <1>1, <1>3
  <2>2. r.pcm[Behind(r, k - 1)] = r.made - Avail(r) + 1 + (k - 1)
    BY <2>1 DEF HoldsNewest
  <2> QED
    BY <1>1, <1>3, <2>2
<1>10. s.made - Avail(s) = r.made - Avail(r) + len /\ s.made >= r.made
  BY <1>1, <1>2, <1>3, <1>7
<1>11. s \in Ring /\ HoldsNewest(s) /\ t.ring = s
  BY <1>2, <1>8 DEF HoldsNewest, s
<1> QED
  BY <1>9, <1>10, <1>11 DEF TakesOldest

\* Samples added behind change nothing about which are the oldest.
LEMMA OldestStays ==
  ASSUME NEW len \in Batches, NEW r \in Ring, NEW s \in Ring, NEW t, TakesOldest(s, t, len),
         s.made >= r.made, s.made - Avail(s) = r.made - Avail(r)
  PROVE  TakesOldest(r, t, len)
<1>1. /\ r.made \in Nat /\ s.made \in Nat /\ t.ring \in Ring
      /\ t.ring.made \in Nat
  BY DEF TakesOldest, Ring
<1>2. t.ring.made >= r.made
  BY <1>1 DEF TakesOldest
<1> QED
  BY <1>1, <1>2 DEF TakesOldest

LEMMA RoundTakesOldest ==
  ASSUME NEW len \in Batches, NEW r \in Ring, HoldsNewest(r), r.rp > r.wp
  PROVE  TakesOldest(r, TakenRound(r, len), len)
<1> DEFINE lena == Size - r.rp
           n == (len - lena) - r.wp
           s == IF lena >= len THEN r ELSE Topped(r, n)
           rp == IF lena >= len THEN r.rp + len ELSE len - lena
           out == [k \in 1..len |-> s.pcm[IF k <= lena THEN r.rp + k - 1
                                          ELSE k - lena - 1]]
           t == TakenRound(r, len)
<1>1. /\ r.rp \in 0..Size /\ r.wp \in 0..Size-1 /\ r.made \in Nat
      /\ Size \in Nat /\ len \in Nat /\ 1 <= len /\ len < Size
      /\ lena \in 0..Size /\ n \in Int
      /\ Avail(r) = lena + r.wp
  BY Sizes DEF Ring, Cell, Avail
<1>2. n <= len /\ (n > 0 => Avail(r) + n = len)
  BY <1>1
<1>3. /\ s \in Ring /\ HoldsNewest(s) /\ s.rp = r.rp
      /\ s.made >= r.made /\ s.made - Avail(s) = r.made - Avail(r)
      /\ Avail(s) >= len /\ s.made \in Nat /\ Avail(s) \in Int
      /\ s.rp > s.wp
  <2>1. CASE lena >= len
    BY <1>1, <2>1
  <2>2. CASE lena < len
    <3>1. s = Topped(r, n)
      BY <1>1, <2>2
    <3> HIDE DEF s
    <3>2. CASE n > 0
      <4>1. Avail(r) + n < Size
        BY <1>1, <1>2, <3>2
      <4>2. /\ s \in Ring /\ HoldsNewest(s) /\ s.rp = r.rp
            /\ Avail(s) = Avail(r) + n /\ s.made = r.made + n
            /\ s = Sent(r, n)
        BY <1>1, <1>2, <3>1, <3>2, <4>1, ToppedWhole
      <4>3. n \in Nat /\ n < Size
        BY <1>1, <1>2, <3>2
      <4>4. s.wp = IF r.wp + n >= Size THEN r.wp + n - Size ELSE r.wp + n
        BY <4>2, <4>3, SentFields
      <4> QED
        BY <1>1, <1>2, <2>2, <3>2, <4>2, <4>3, <4>4
    <3>3. CASE n <= 0
      <4>1. s = r
        BY <3>1, <3>3, <1>1 DEF Topped
      <4> QED
        BY <1>1, <2>2, <3>3, <4>1
    <3> QED
      BY <1>1, <3>2, <3>3
  <2> QED
    BY <1>1, <2>1, <2>2
<1>4. t.out = out /\ t.ring = [s EXCEPT !.rp = rp]
  BY DEF TakenRound
<1> HIDE DEF s, t
<1>5. s.pcm \in [Cell -> Nat]
  BY <1>3 DEF Ring
<1>6. \A k \in 1..len :
        /\ Behind(s, k - 1) = IF k <= lena THEN r.rp + k - 1
                              ELSE k - lena - 1
        /\ Behind(s, k - 1) \in Cell
  <2> TAKE k \in 1..len
  <2>1. Behind(s, k - 1) = After(r.rp, k - 1)
    BY <1>3 DEF Behind, After
  <2> QED
    <3>1. r.rp \in 0..Size
      BY <1>1
    <3>2. /\ After(r.rp, k - 1) = IF k <= Size - r.rp THEN r.rp + k - 1
                                  ELSE k - (Size - r.rp) - 1
          /\ After(r.rp, k - 1) \in Cell
      BY <3>1, BatchPlaces
    <3> QED
      BY <2>1, <3>2
<1>7. \A k \in 1..len : out[k] = s.pcm[Behind(s, k - 1)] /\ out[k] \in Nat
  <2> TAKE k \in 1..len
  <2>1. out[k] = s.pcm[Behind(s, k - 1)] /\ Behind(s, k - 1) \in Cell
    BY <1>6
  <2> QED
    BY <1>5, <2>1
<1>8. out \in Seq(Nat) /\ Len(out) = len
  <2>1. out \in [1..len -> Nat]
    BY <1>7
  <2> HIDE DEF out
  <2> QED
    BY <2>1, BatchLen
<1> HIDE DEF out
<1>9. /\ rp \in 0..Size
      /\ rp = s.rp + len \/ rp = s.rp + len - Size
      /\ s.rp <= s.wp => rp = s.rp + len
  <2>1. s.wp \in 0..Size-1 /\ s.rp = r.rp /\ s.rp > s.wp
    BY <1>3 DEF Ring, Cell
  <2>2. CASE lena >= len
    BY <1>1, <2>1, <2>2
  <2>3. CASE lena < len
    BY <1>1, <2>1, <2>3
  <2> QED
    BY <1>1, <2>2, <2>3
<1> HIDE DEF rp
<1>10. /\ t.out \in Seq(Nat) /\ Len(t.out) = len
       /\ \A k \in 1..len : t.out[k] = s.pcm[Behind(s, k - 1)]
  BY <1>4, <1>7, <1>8
<1>11. TakesOldest(s, t, len)
  <2>1. t.ring = [s EXCEPT !.rp = rp] /\ s \in Ring /\ HoldsNewest(s)
        /\ Avail(s) >= len
    BY <1>3, <1>4
  <2> QED
    BY <1>9, <1>10, <2>1, ReadMoves
<1> QED
  BY <1>3, <1>11, OldestStays DEF t

LEMMA TakenOldest ==
  ASSUME NEW len \in Batches, NEW r \in Ring, HoldsNewest(r)
  PROVE  TakesOldest(r, Taken(r, len), len)
<1>1. CASE r.rp > r.wp
  BY <1>1, RoundTakesOldest DEF Taken
<1>2. CASE r.rp <= r.wp
  <2> DEFINE n == len - Avail(r)
             s == Topped(r, n)
  <2>1. /\ r.rp \in 0..Size /\ r.wp \in 0..Size-1 /\ r.made \in Nat
        /\ Size \in Nat /\ len \in Nat /\ 1 <= len /\ len < Size
        /\ Avail(r) \in 0..Size /\ n \in Int
    BY AvailRange, Sizes DEF Ring, Cell
  <2>2. n <= len /\ (n > 0 => Avail(r) + n < Size)
    BY <2>1
  <2>3. /\ s \in Ring /\ HoldsNewest(s) /\ s.rp = r.rp
        /\ s.made >= r.made /\ s.made - Avail(s) = r.made - Avail(r)
        /\ Avail(s) >= len /\ s.made \in Nat /\ Avail(s) \in Int
    <3>1. /\ s \in Ring /\ HoldsNewest(s) /\ s.rp = r.rp
          /\ Avail(s) = IF n > 0 THEN Avail(r) + n ELSE Avail(r)
          /\ s.made = IF n > 0 THEN r.made + n ELSE r.made
      BY <2>1, <2>2, ToppedWhole
    <3> HIDE DEF s
    <3> QED
      BY <2>1, <3>1
  <2>4. Taken(r, len) = IF s.rp > s.wp THEN TakenRound(s, len)
                   ELSE [out |-> [k \in 1..len |-> s.pcm[s.rp + k - 1]],
                         ring |-> [s EXCEPT !.rp = @ + len]]
    BY <1>2, <2>1 DEF Taken
  <2> HIDE DEF s
  <2>5. TakesOldest(s, Taken(r, len), len)
    <3>1. CASE s.rp > s.wp
      BY <2>3, <2>4, <3>1, RoundTakesOldest
    <3>2. CASE s.rp <= s.wp
      <4> DEFINE t == Taken(r, len)
                 out == [k \in 1..len |-> s.pcm[s.rp + k - 1]]
                 rp == s.rp + len
      <4>1. /\ s.rp \in 0..Size /\ s.wp \in 0..Size-1
            /\ s.pcm \in [Cell -> Nat]
        BY <2>3 DEF Ring, Cell
      <4>2. s.wp - s.rp >= len
        BY <2>3, <3>2 DEF Avail
      <4>3. ASSUME NEW k \in 1..len
            PROVE  Behind(s, k - 1) = s.rp + k - 1 /\ s.rp + k - 1 \in Cell
        <5>1. k <= Size - s.rp
          BY <2>1, <4>1, <4>2
        <5>2. Behind(s, k - 1) = After(s.rp, k - 1)
          BY DEF Behind, After
        <5> QED
          BY <4>1, <5>1, <5>2, BatchPlaces
      <4>4. t.out = out /\ t.ring = [s EXCEPT !.rp = rp]
        BY <2>1, <2>4, <3>2, <4>1
      <4>5. \A k \in 1..len : out[k] = s.pcm[Behind(s, k - 1)]
        BY <4>3
      <4>6. out \in Seq(Nat) /\ Len(out) = len
        <5>1. out \in [1..len -> Nat]
          BY <4>1, <4>3
        <5> HIDE DEF out
        <5> QED
          BY <5>1, BatchLen
      <4>7. rp \in 0..Size
        BY <2>1, <4>1, <4>2
      <4> HIDE DEF out, t
      <4>8. /\ t.out \in Seq(Nat) /\ Len(t.out) = len
            /\ \A k \in 1..len : t.out[k] = s.pcm[Behind(s, k - 1)]
        BY <4>4, <4>5, <4>6
      <4>9. TakesOldest(s, t, len)
        BY <2>3, <4>4, <4>7, <4>8, ReadMoves DEF rp
      <4> QED
        BY <4>9 DEF t
    <3> QED
      BY <2>3, <3>1, <3>2 DEF Ring, Cell
  <2> QED
    BY <2>3, <2>5, OldestStays
<1> QED
  BY <1>1, <1>2, Sizes DEF Ring, Cell

-----------------------------------------------------------------------------
(* The recorder.                                                           *)

\* The prefix of a recording of any length, by its places.
IsPrefix(data, all, size) ==
  /\ data \in Seq(Nat)
  /\ Len(data) = size
  /\ \A i \in 1..size : data[i] = all[i]

LEMMA Concatenated ==
  ASSUME NEW s \in Seq(Nat), NEW t \in Seq(Nat), NEW m, NEW n,
         Len(s) = m, Len(t) = n
  PROVE  /\ s \o t \in Seq(Nat)
         /\ Len(s \o t) = m + n
         /\ \A i \in 1..m+n : (s \o t)[i] = IF i <= m THEN s[i] ELSE t[i - m]
BY ConcatProperties

LEMMA PrefixIsSubSeq ==
  ASSUME NEW all \in Seq(Nat), NEW size \in 0..Len(all), NEW data
  PROVE  data = SubSeq(all, 1, size) <=> IsPrefix(data, all, size)
<1>1. Len(all) \in Nat /\ \A i \in 1..size : all[i] \in Nat
  BY LenProperties, ElementOfSeq
<1> DEFINE sub == SubSeq(all, 1, size)
<1>2. /\ sub \in Seq(Nat)
      /\ Len(sub) = IF 1 <= size THEN size - 1 + 1 ELSE 0
      /\ \A i \in 1..size-1+1 : sub[i] = all[1 + i - 1]
  BY <1>1, SubSeqProperties
<1> HIDE DEF sub
<1>3. IsPrefix(sub, all, size)
  <2>1. Len(sub) = size /\ size \in Int
    BY <1>1, <1>2
  <2>2. ASSUME NEW i \in 1..size PROVE sub[i] = all[i]
    <3>1. i \in 1..size-1+1 /\ 1 + i - 1 = i
      BY <2>1
    <3> QED
      BY <1>2, <3>1
  <2> QED
    BY <1>2, <2>1, <2>2 DEF IsPrefix
<1>4. ASSUME IsPrefix(data, all, size) PROVE data = sub
  <2>1. /\ data \in Seq(Nat) /\ sub \in Seq(Nat) /\ Len(data) = Len(sub)
        /\ \A i \in 1..Len(data) : data[i] = sub[i]
    BY <1>3, <1>4 DEF IsPrefix
  <2> QED
    BY <2>1, SeqEqual
<1> QED
  BY <1>3, <1>4 DEF sub

\* What ClipIsPrefix says of a clip with a buffer.
Holds(c, all) ==
  LET size == IF Len(all) < Cap THEN Len(all) ELSE Cap
  IN  c.data = SubSeq(all, 1, size) /\ (c.truncated <=> Len(all) > Cap)

\* A recording goes on with the batch, as far as there is room.
LEMMA RecordedPrefix ==
  ASSUME NEW len \in Batches, NEW b \in Seq(Nat), Len(b) = len,
         NEW all \in Seq(Nat), NEW c \in Clip, c.active, Holds(c, all)
  PROVE  /\ all \o b \in Seq(Nat)
         /\ Recorded(c, b) \in Clip
         /\ Recorded(c, b).buf = c.buf
         /\ Recorded(c, b).active
         /\ Holds(Recorded(c, b), all \o b)
<1> DEFINE d == Recorded(c, b)
           now == all \o b
           old == IF Len(all) < Cap THEN Len(all) ELSE Cap
           size == IF Len(now) < Cap THEN Len(now) ELSE Cap
           room == Cap - Len(c.data)
           part == SubSeq(b, 1, room)
<1>1. Cap \in Nat /\ Len(all) \in Nat /\ len \in Nat /\ len >= 1
  BY PcmAssumption, Sizes, LenProperties
<1>2. /\ now \in Seq(Nat)
      /\ Len(now) = Len(all) + len
      /\ \A i \in 1..Len(all)+len :
           now[i] = IF i <= Len(all) THEN all[i] ELSE b[i - Len(all)]
  BY ConcatProperties
<1> HIDE DEF now
<1>3. IsPrefix(c.data, all, old)
  <2>1. old \in 0..Len(all)
    BY <1>1
  <2>2. c.data = SubSeq(all, 1, old)
    BY DEF Holds
  <2> HIDE DEF old
  <2> QED
    BY <2>1, <2>2, PrefixIsSubSeq
<1>4. /\ c.data \in Seq(Nat) /\ Len(c.data) = old /\ room = Cap - old
      /\ old \in 0..Cap /\ old <= Len(all)
      /\ \A i \in 1..old : c.data[i] = all[i]
  BY <1>1, <1>3 DEF IsPrefix
<1>5. c.truncated <=> Len(all) > Cap
  BY DEF Holds
<1>6. size \in 0..Len(now)
  BY <1>1, <1>2
<1>7. /\ old = IF Len(all) < Cap THEN Len(all) ELSE Cap
      /\ size = IF Len(all) + len < Cap THEN Len(all) + len ELSE Cap
      /\ room = Cap - old
  BY <1>2, <1>4
<1>8. Len(c.data) = old /\ c.data \in Seq(Nat)
  BY <1>4
<1> HIDE DEF old, size
<1>9. CASE len <= room
  <2>1. d = [c EXCEPT !.data = @ \o b]
    BY <1>9 DEF Recorded
  <2> HIDE DEF room, d
  <2>2. old = Len(all) /\ size = old + len /\ ~(Len(now) > Cap)
        /\ ~(Len(all) > Cap)
    <3>1. Len(now) = Len(all) + len
      BY <1>2
    <3> HIDE DEF room
    <3> QED
      BY <1>1, <1>7, <1>9, <3>1
  <2>3. /\ c.data \o b \in Seq(Nat)
        /\ Len(c.data \o b) = old + len
        /\ \A i \in 1..old+len :
             (c.data \o b)[i] = IF i <= old THEN c.data[i] ELSE b[i - old]
    <3>1. c.data \in Seq(Nat) /\ Len(c.data) = old
      BY <1>8
    <3> DEFINE x == c.data
    <3> HIDE DEF x
    <3>2. x \in Seq(Nat) /\ Len(x) = old
      BY <3>1 DEF x
    <3>3. /\ x \o b \in Seq(Nat)
          /\ Len(x \o b) = old + len
          /\ \A i \in 1..old+len :
               (x \o b)[i] = IF i <= old THEN x[i] ELSE b[i - old]
      BY <3>2, Concatenated
    <3> QED
      BY <3>3 DEF x
  <2> DEFINE e == c.data \o b
  <2> HIDE DEF e
  <2>4. IsPrefix(e, now, size)
    <3>1. ASSUME NEW i \in 1..size PROVE e[i] = now[i]
      <4>1. /\ i \in 1..old+len /\ i \in 1..Len(all)+len
            /\ old = Len(all) /\ old \in Nat /\ i \in Int
        BY <1>1, <2>2
      <4>2. e[i] = IF i <= old THEN c.data[i] ELSE b[i - old]
        BY <2>3, <4>1 DEF e
      <4>3. now[i] = IF i <= old THEN all[i] ELSE b[i - old]
        BY <1>2, <4>1
      <4>4. i <= old => c.data[i] = all[i]
        BY <1>4, <4>1
      <4> QED
        BY <4>2, <4>3, <4>4
    <3> QED
      BY <2>2, <2>3, <3>1 DEF IsPrefix, e
  <2>5. e = SubSeq(now, 1, size)
    BY <1>2, <1>6, <2>4, PrefixIsSubSeq
  <2>6. /\ d.data = e /\ d \in Clip /\ d.buf = c.buf /\ d.active = c.active
        /\ d.truncated = c.truncated
    BY <2>1, <2>3 DEF Clip, e
  <2> QED
    BY <1>2, <1>5, <2>2, <2>5, <2>6 DEF Holds, size, now, d
<1>10. CASE ~(len <= room)
  <2>1. d = [c EXCEPT !.data = @ \o part, !.truncated = TRUE]
    BY <1>10 DEF Recorded
  <2> HIDE DEF d
  <2>2. size = Cap /\ room \in 0..len /\ old + room = Cap /\ Len(now) > Cap
        /\ (room > 0 => old = Len(all))
    <3>1. Len(now) = Len(all) + len
      BY <1>2
    <3> HIDE DEF room
    <3> QED
      BY <1>1, <1>7, <1>10, <3>1
  <2>3. IsPrefix(part, b, room)
    <3>1. room \in 0..Len(b)
      BY <2>2
    <3> HIDE DEF room
    <3> QED
      BY <3>1, PrefixIsSubSeq
  <2> HIDE DEF room, part
  <2>4. /\ part \in Seq(Nat) /\ Len(part) = room
        /\ \A i \in 1..room : part[i] = b[i]
    BY <2>3 DEF IsPrefix
  <2>5. /\ c.data \o part \in Seq(Nat)
        /\ Len(c.data \o part) = old + room
        /\ \A i \in 1..old+room :
             (c.data \o part)[i] = IF i <= old THEN c.data[i]
                                   ELSE part[i - old]
    <3>1. c.data \in Seq(Nat) /\ Len(c.data) = old
      BY <1>8
    <3> DEFINE x == c.data
    <3> HIDE DEF x
    <3>2. /\ x \in Seq(Nat) /\ Len(x) = old
          /\ part \in Seq(Nat) /\ Len(part) = room
      BY <2>4, <3>1 DEF x
    <3>3. /\ x \o part \in Seq(Nat)
          /\ Len(x \o part) = old + room
          /\ \A i \in 1..old+room :
               (x \o part)[i] = IF i <= old THEN x[i] ELSE part[i - old]
      BY <3>2, Concatenated
    <3> QED
      BY <3>3 DEF x
  <2> DEFINE e == c.data \o part
  <2> HIDE DEF e
  <2>6. IsPrefix(e, now, size)
    <3>1. ASSUME NEW i \in 1..size PROVE e[i] = now[i]
      <4> i \in 1..Cap /\ old \in Nat /\ room \in Nat
        BY <1>4, <2>2
      <4>1. CASE i <= old
        <5>1. i \in 1..old /\ i \in 1..old+room /\ i <= Len(all)
              /\ i \in 1..Len(all)+len
          BY <1>1, <1>4, <2>2, <4>1
        <5>2. e[i] = c.data[i]
          BY <2>5, <4>1, <5>1 DEF e
        <5>3. now[i] = all[i]
          BY <1>2, <5>1
        <5> QED
          BY <1>4, <5>1, <5>2, <5>3
      <4>2. CASE i > old
        <5>1. i - old \in 1..room /\ old = Len(all)
          BY <1>1, <1>4, <2>2, <4>2
        <5>2. e[i] = part[i - old]
          <6>1. i \in 1..old+room /\ ~(i <= old)
            BY <2>2, <4>2
          <6> QED
            BY <2>5, <6>1 DEF e
        <5>3. part[i - old] = b[i - old]
          BY <2>4, <5>1
        <5>4. now[i] = b[i - old]
          BY <1>1, <1>2, <1>4, <2>2, <4>2, <5>1
        <5> QED
          BY <5>2, <5>3, <5>4
      <4> QED
        BY <4>1, <4>2
    <3> QED
      BY <2>2, <2>5, <3>1 DEF IsPrefix, e
  <2>7. e = SubSeq(now, 1, size)
    BY <1>2, <1>6, <2>6, PrefixIsSubSeq
  <2>8. /\ d.data = e /\ d \in Clip /\ d.buf = c.buf /\ d.active = c.active
        /\ d.truncated = TRUE
    BY <2>1, <2>5 DEF Clip, e
  <2> QED
    BY <1>2, <2>2, <2>7, <2>8 DEF Holds, size, now, d
<1> QED
  BY <1>9, <1>10

-----------------------------------------------------------------------------
(* Every step keeps the invariant.                                         *)

LEMMA PcmInitial ==
  ASSUME PcmInit
  PROVE  PcmInv
<1>1. /\ snd = [rp |-> 0, wp |-> 0, pcm |-> [i \in Cell |-> 0], made |-> 0]
      /\ pre = 0 /\ batch = << >> /\ heard = 0 /\ lost = 0 /\ played = << >>
      /\ clip = [buf |-> FALSE, active |-> FALSE, data |-> << >>,
                 truncated |-> FALSE]
      /\ stopped = [said |-> FALSE, data |-> << >>, truncated |-> FALSE]
  BY DEF PcmInit, NoStop
<1>2. << >> \in Seq(Nat)
  OBVIOUS
<1>3. 0 \in Cell /\ 0 \in 0..Size /\ [i \in Cell |-> 0] \in [Cell -> Nat]
  BY Sizes DEF Cell
<1>4. snd \in Ring /\ Avail(snd) = 0
  BY <1>1, <1>3 DEF Ring, Avail
<1>5. PcmTypeOK
  BY <1>1, <1>2, <1>4, PcmAssumption DEF PcmTypeOK, Clip
<1>6. RingIsWhole
  BY <1>1, <1>4 DEF RingIsWhole
<1>7. BatchIsOlder /\ Recorder /\ ClipIsPrefix
  BY <1>1 DEF BatchIsOlder, Recorder, ClipIsPrefix
<1> QED
  BY <1>5, <1>6, <1>7 DEF PcmInv

\* The clip and what was heard since its start, and nothing else.
LEMMA RecorderStays ==
  ASSUME Recorder, ClipIsPrefix,
         UNCHANGED <<clip, stopped, played>>
  PROVE  Recorder' /\ ClipIsPrefix'
BY DEF Recorder, ClipIsPrefix

LEMMA LineStep ==
  ASSUME PcmInv, NEW c \in Clock, Line(c)
  PROVE  PcmInv'
<1> DEFINE n == (pre + Rate * c) \div Unit
           a == Avail(snd)
<1>1. /\ n \in Nat /\ n < Size /\ pre' \in 0..Unit-1
  BY LineFits DEF PcmInv, Line
<1>2. /\ snd' = Topped(snd, n)
      /\ lost' = IF Avail(snd) + n >= Size THEN lost + Size ELSE lost
      /\ UNCHANGED <<batch, clip, stopped, heard, played>>
  BY DEF Line
<1> HIDE DEF n
<1>3. /\ snd \in Ring /\ HoldsNewest(snd) /\ a \in 0..Size /\ Size \in Nat
      /\ snd.made \in Nat /\ heard \in Nat /\ lost \in Nat
      /\ snd.made = heard + lost + a
  BY AvailRange, Sizes DEF PcmInv, PcmTypeOK, RingIsWhole, HoldsNewest, Ring
<1>4. /\ snd' \in Ring /\ HoldsNewest(snd')
      /\ Avail(snd') = IF a + n >= Size THEN a + n - Size ELSE a + n
      /\ snd'.made = snd.made + n
  <2>1. CASE n > 0
    <3>1. snd' = Sent(snd, n)
      BY <1>2, <2>1 DEF Topped
    <3> HIDE DEF a
    <3>2. /\ Sent(snd, n) \in Ring /\ Sent(snd, n).made = snd.made + n
      BY <1>1, <1>3, SentFields
    <3>3. /\ HoldsNewest(Sent(snd, n))
          /\ Avail(Sent(snd, n)) = IF a + n >= Size
                                   THEN a + n - Size ELSE a + n
      BY <1>1, <1>3, SentWhole DEF a
    <3> QED
      BY <3>1, <3>2, <3>3
  <2>2. CASE n = 0
    <3>1. snd' = snd
      BY <1>2, <2>2 DEF Topped
    <3>2. a < Size
      BY <1>3, Sizes DEF Avail, Ring, Cell
    <3> QED
      BY <1>3, <2>2, <3>1, <3>2
  <2> QED
    BY <1>1, <2>1, <2>2
<1>5. snd'.made = heard' + lost' + Avail(snd')
  BY <1>1, <1>2, <1>3, <1>4
<1>6. RingIsWhole'
  BY <1>4, <1>5 DEF RingIsWhole, HoldsNewest, Avail, Behind
<1>7. PcmTypeOK'
  <2>1. lost' \in Nat
    BY <1>2, <1>3
  <2>2. /\ batch' \in Seq(Nat) /\ clip' \in Clip /\ played' \in Seq(Nat)
        /\ stopped' \in [said : BOOLEAN, data : Seq(Nat), truncated : BOOLEAN]
        /\ heard' \in Nat
    BY <1>2 DEF PcmInv, PcmTypeOK
  <2> QED
    BY <1>1, <1>4, <2>1, <2>2 DEF PcmTypeOK
<1>8. BatchIsOlder'
  <2>1. snd'.made - Avail(snd') >= snd.made - a
    BY <1>1, <1>3, <1>4
  <2> DEFINE last == batch[Len(batch)]
  <2>2. batch # << >> => last \in Nat /\ last <= snd.made - a
    BY DEF PcmInv, BatchIsOlder
  <2> HIDE DEF a, last
  <2>3. snd'.made \in Nat /\ Avail(snd') \in Int /\ a \in Int
    BY <1>1, <1>3, <1>4
  <2>4. batch # << >> => last <= snd'.made - Avail(snd')
    BY <1>3, <2>1, <2>2, <2>3
  <2> QED
    BY <1>2, <2>2, <2>4 DEF BatchIsOlder, Avail, last
<1>9. Recorder' /\ ClipIsPrefix'
  BY <1>2, RecorderStays DEF PcmInv
<1> QED
  BY <1>6, <1>7, <1>8, <1>9 DEF PcmInv

\* A batch as it is handed over.
LEMMA BatchTaken ==
  ASSUME PcmInv, NEW len \in Batches, FrameDone(len)
  PROVE  /\ TakesOldest(snd, Taken(snd, len), len)
         /\ snd' = Taken(snd, len).ring
         /\ batch' = Taken(snd, len).out
<1>1. snd \in Ring /\ HoldsNewest(snd)
  BY DEF PcmInv, PcmTypeOK, RingIsWhole, HoldsNewest
<1>2. TakesOldest(snd, Taken(snd, len), len)
  BY <1>1, TakenOldest
<1> QED
  BY <1>2 DEF FrameDone

\* What leaves the ring by a batch is what was heard more.
LEMMA BatchSum ==
  ASSUME NEW m0 \in Int, NEW m1 \in Int, NEW a0 \in Int, NEW a1 \in Int,
         NEW h \in Int, NEW l \in Int, NEW n \in Int,
         m1 - a1 = m0 - a0 + n, m0 = h + l + a0
  PROVE  m1 = h + n + l + a1
<1>1. m1 = m0 - a0 + n + a1
  OBVIOUS
<1> QED
  BY <1>1

LEMMA FrameRing ==
  ASSUME PcmInv, NEW len \in Batches, FrameDone(len)
  PROVE  RingIsWhole' /\ BatchIsOlder' /\ snd' \in Ring /\ batch' \in Seq(Nat)
<1>1. /\ snd \in Ring /\ snd.made \in Nat /\ heard \in Nat /\ lost \in Nat
      /\ Avail(snd) \in Int /\ snd.made = heard + lost + Avail(snd)
      /\ len \in Nat /\ 1 <= len
  BY AvailRange, Sizes DEF PcmInv, PcmTypeOK, RingIsWhole, Ring
<1>2. /\ snd' \in Ring /\ HoldsNewest(snd')
      /\ snd'.made - Avail(snd') = snd.made - Avail(snd) + len
      /\ batch' \in Seq(Nat) /\ Len(batch') = len
      /\ \A k \in 1..len : batch'[k] = snd.made - Avail(snd) + k
  BY BatchTaken DEF TakesOldest
<1>3. snd'.made \in Nat /\ Avail(snd') \in Int
  BY <1>2, AvailRange DEF Ring
<1>4. heard' = heard + len /\ lost' = lost
  BY DEF FrameDone
<1>5. snd'.made = heard' + lost' + Avail(snd')
  <2>1. /\ snd.made \in Int /\ snd'.made \in Int /\ heard \in Int
        /\ lost \in Int /\ len \in Int
    BY <1>1, <1>3
  <2>2. /\ Avail(snd) \in Int /\ Avail(snd') \in Int
        /\ snd.made = heard + lost + Avail(snd)
    BY <1>1, <1>3
  <2>3. snd'.made - Avail(snd') = snd.made - Avail(snd) + len
    BY <1>2
  <2> DEFINE m0 == snd.made
             m1 == snd'.made
             a0 == Avail(snd)
             a1 == Avail(snd')
  <2>4. /\ m0 \in Int /\ m1 \in Int /\ a0 \in Int /\ a1 \in Int
        /\ m1 - a1 = m0 - a0 + len /\ m0 = heard + lost + a0
    BY <2>1, <2>2, <2>3
  <2>5. m1 = heard + len + lost + a1
    <3> HIDE DEF m0, m1, a0, a1
    <3> QED
      BY <2>1, <2>4, BatchSum
  <2> QED
    BY <1>4, <2>5
<1>6. RingIsWhole'
  BY <1>2, <1>5 DEF RingIsWhole, HoldsNewest
<1>7. batch'[len] \in Nat /\ batch'[len] <= snd'.made - Avail(snd')
  <2>1. len \in 1..len
    BY <1>1
  <2>2. batch'[len] = snd.made - Avail(snd) + len
    BY <1>2, <2>1
  <2>3. batch'[len] \in Nat
    BY <1>1, <1>2
  <2>4. batch'[len] = snd'.made - Avail(snd')
    BY <1>2, <2>2
  <2> QED
    BY <1>3, <2>3, <2>4
<1>8. BatchIsOlder'
  BY <1>2, <1>7 DEF BatchIsOlder
<1> QED
  BY <1>2, <1>6, <1>8

LEMMA FrameRecorder ==
  ASSUME PcmInv, NEW len \in Batches, FrameDone(len)
  PROVE  Recorder' /\ ClipIsPrefix' /\ clip' \in Clip /\ played' \in Seq(Nat)
<1> DEFINE b == Taken(snd, len).out
<1>1. b \in Seq(Nat) /\ Len(b) = len
  BY BatchTaken DEF TakesOldest
<1>2. /\ clip' = Recorded(clip, b)
      /\ played' = IF clip.active THEN played \o b ELSE played
      /\ stopped' = stopped
  BY DEF FrameDone
<1> HIDE DEF b
<1>3. clip \in Clip /\ played \in Seq(Nat)
  BY DEF PcmInv, PcmTypeOK
<1>4. CASE ~clip.active
  <2>1. clip' = clip /\ played' = played
    BY <1>2, <1>4 DEF Recorded
  <2> QED
    BY <1>2, <1>3, <2>1, RecorderStays DEF PcmInv
<1>5. CASE clip.active
  <2>1. clip.buf /\ ~stopped.said
    BY <1>5 DEF PcmInv, Recorder
  <2>2. Holds(clip, played)
    BY <2>1 DEF PcmInv, ClipIsPrefix, Holds
  <2>3. played' = played \o b
    BY <1>2, <1>5
  <2>4. /\ played \o b \in Seq(Nat)
        /\ Recorded(clip, b) \in Clip
        /\ Recorded(clip, b).buf = clip.buf
        /\ Recorded(clip, b).active
        /\ Holds(Recorded(clip, b), played \o b)
    BY <1>1, <1>3, <1>5, <2>2, RecordedPrefix
  <2>5. /\ played' \in Seq(Nat) /\ clip' \in Clip
        /\ clip'.buf /\ Holds(clip', played')
    BY <1>2, <2>1, <2>3, <2>4
  <2> QED
    BY <1>2, <2>1, <2>5 DEF Recorder, ClipIsPrefix, Holds
<1> QED
  BY <1>4, <1>5

LEMMA FrameDoneStep ==
  ASSUME PcmInv, NEW len \in Batches, FrameDone(len)
  PROVE  PcmInv'
<1>1. RingIsWhole' /\ BatchIsOlder' /\ snd' \in Ring /\ batch' \in Seq(Nat)
  BY FrameRing
<1>2. Recorder' /\ ClipIsPrefix' /\ clip' \in Clip /\ played' \in Seq(Nat)
  BY FrameRecorder
<1>3. PcmTypeOK'
  BY <1>1, <1>2, Sizes DEF PcmInv, PcmTypeOK, FrameDone
<1> QED
  BY <1>1, <1>2, <1>3 DEF PcmInv

LEMMA RingStays ==
  ASSUME RingIsWhole, BatchIsOlder,
         UNCHANGED <<snd, batch, heard, lost>>
  PROVE  RingIsWhole' /\ BatchIsOlder'
BY DEF RingIsWhole, BatchIsOlder, Avail, Behind

LEMMA LoadFractionStep ==
  ASSUME PcmInv, LoadFraction
  PROVE  PcmInv'
<1>1. RingIsWhole' /\ BatchIsOlder'
  BY RingStays DEF PcmInv, LoadFraction
<1>2. Recorder' /\ ClipIsPrefix'
  BY RecorderStays DEF PcmInv, LoadFraction
<1>3. PcmTypeOK'
  BY DEF PcmInv, PcmTypeOK, LoadFraction
<1> QED
  BY <1>1, <1>2, <1>3 DEF PcmInv

LEMMA RecordStartStep ==
  ASSUME PcmInv, RecordStart
  PROVE  PcmInv'
<1>1. RingIsWhole' /\ BatchIsOlder'
  BY RingStays DEF PcmInv, RecordStart
<1>2. PICK have \in BOOLEAN :
        clip' = [buf |-> have, active |-> have, data |-> << >>,
                 truncated |-> FALSE]
  BY DEF RecordStart
<1>3. /\ played' = << >>
      /\ stopped' = [said |-> FALSE, data |-> << >>, truncated |-> FALSE]
  BY DEF RecordStart, NoStop
<1>4. << >> \in Seq(Nat)
  OBVIOUS
<1>5. PcmTypeOK'
  BY <1>2, <1>3, <1>4 DEF PcmInv, PcmTypeOK, Clip, RecordStart
<1>6. Recorder'
  BY <1>2, <1>3 DEF Recorder
<1>7. ClipIsPrefix'
  <2>1. Len(played') = 0 /\ SubSeq(played', 1, 0) = << >>
    BY <1>3, <1>4, EmptySeq, SubSeqEmpty
  <2>2. ~(0 > Cap) /\ (IF 0 < Cap THEN 0 ELSE Cap) = 0
    BY PcmAssumption
  <2> QED
    BY <1>2, <1>3, <2>1, <2>2 DEF ClipIsPrefix
<1> QED
  BY <1>1, <1>5, <1>6, <1>7 DEF PcmInv

LEMMA RecordStopStep ==
  ASSUME PcmInv, RecordStop
  PROVE  PcmInv'
<1>1. RingIsWhole' /\ BatchIsOlder'
  BY RingStays DEF PcmInv, RecordStop
<1>2. /\ clip' = [clip EXCEPT !.active = FALSE]
      /\ stopped' = [said |-> TRUE, data |-> clip.data,
                     truncated |-> clip.truncated]
      /\ played' = played
  BY DEF RecordStop
<1>3. clip \in Clip
  BY DEF PcmInv, PcmTypeOK
<1>4. /\ clip' \in Clip /\ ~clip'.active /\ clip'.buf = clip.buf
      /\ clip'.data = clip.data /\ clip'.truncated = clip.truncated
  BY <1>2, <1>3 DEF Clip
<1>5. stopped' \in [said : BOOLEAN, data : Seq(Nat), truncated : BOOLEAN]
  BY <1>2, <1>3 DEF Clip
<1>6. PcmTypeOK'
  BY <1>4, <1>5 DEF PcmInv, PcmTypeOK, RecordStop
<1>7. Recorder' /\ ClipIsPrefix'
  BY <1>2, <1>4 DEF PcmInv, Recorder, ClipIsPrefix
<1> QED
  BY <1>1, <1>6, <1>7 DEF PcmInv

LEMMA PcmStep ==
  ASSUME PcmInv, [PcmNext]_pcmVars
  PROVE  PcmInv'
<1>1. ASSUME NEW c \in Clock, Line(c) PROVE PcmInv'
  BY <1>1, LineStep
<1>2. ASSUME NEW len \in Batches, FrameDone(len) PROVE PcmInv'
  BY <1>2, FrameDoneStep
<1>3. CASE LoadFraction
  BY <1>3, LoadFractionStep
<1>4. CASE RecordStart
  BY <1>4, RecordStartStep
<1>5. CASE RecordStop
  BY <1>5, RecordStopStep
<1>6. CASE UNCHANGED pcmVars
  <2>1. RingIsWhole' /\ BatchIsOlder'
    BY <1>6, RingStays DEF PcmInv, pcmVars
  <2>2. Recorder' /\ ClipIsPrefix'
    BY <1>6, RecorderStays DEF PcmInv, pcmVars
  <2> QED
    BY <1>6, <2>1, <2>2 DEF PcmInv, PcmTypeOK, pcmVars
<1> QED
  BY <1>1, <1>2, <1>3, <1>4, <1>5, <1>6 DEF PcmNext

LEMMA PcmInvariant == PcmSpec => []PcmInv
<1>1. PcmInit => PcmInv
  BY PcmInitial
<1>2. PcmInv /\ [PcmNext]_pcmVars => PcmInv'
  BY PcmStep
<1> QED
  BY <1>1, <1>2, PTL DEF PcmSpec

-----------------------------------------------------------------------------
(* Theorems.                                                               *)

\* Positions, counters, batches and recordings stay well typed.
THEOREM PcmTypes == PcmSpec => []PcmTypeOK
<1>1. PcmInv => PcmTypeOK
  BY DEF PcmInv
<1> QED
  BY <1>1, PcmInvariant, PTL

\* The ring holds the newest samples in order and accounts for every sample,
\* for a ring, a batch and a rate of any size.
THEOREM RingStaysWhole == PcmSpec => []RingIsWhole
<1>1. PcmInv => RingIsWhole
  BY DEF PcmInv
<1> QED
  BY <1>1, PcmInvariant, PTL

\* A recording is a prefix of what was played since its start.
THEOREM ClipsArePrefixes == PcmSpec => []ClipIsPrefix
<1>1. PcmInv => ClipIsPrefix
  BY DEF PcmInv
<1> QED
  BY <1>1, PcmInvariant, PTL

LEMMA NextBatchFollows ==
  ASSUME PcmInv, [PcmNext]_pcmVars, batch' # batch
  PROVE  /\ \A k \in 1..Len(batch')-1 : batch'[k + 1] = batch'[k] + 1
         /\ batch # << >> => batch'[1] > batch[Len(batch)]
<1>1. PICK len \in Batches : FrameDone(len)
  BY DEF PcmNext, pcmVars, Line, LoadFraction, RecordStart, RecordStop
<1> DEFINE base == snd.made - Avail(snd)
           last == batch[Len(batch)]
<1>2. Len(batch') = len /\ \A k \in 1..len : batch'[k] = base + k
  BY <1>1, BatchTaken DEF TakesOldest
<1>3. base \in Int
  <2>1. snd \in Ring
    BY DEF PcmInv, PcmTypeOK
  <2>2. snd.made \in Int /\ Avail(snd) \in Int
    BY <2>1, AvailRange, Sizes DEF Ring
  <2> QED
    BY <2>2
<1>4. batch # << >> => last <= base /\ last \in Nat
  BY DEF PcmInv, BatchIsOlder
<1> HIDE DEF base, last
<1>5. ASSUME NEW k \in 1..len-1
      PROVE  batch'[k + 1] = batch'[k] + 1
  BY <1>2, <1>3, Sizes
<1>6. batch'[1] = base + 1
  BY <1>2, Sizes
<1>7. batch # << >> => batch'[1] > last
  BY <1>3, <1>4, <1>6
<1> QED
  BY <1>2, <1>5, <1>7 DEF last

\* Batches are runs of samples that follow each other, whether they were made
\* ahead, made up or left over.
THEOREM BatchesAreInOrder == PcmSpec => BatchInOrder
<1>1. PcmInv /\ [PcmNext]_pcmVars =>
        (batch' # batch =>
           /\ \A k \in 1..Len(batch')-1 : batch'[k + 1] = batch'[k] + 1
           /\ batch # << >> => batch'[1] > batch[Len(batch)])
  BY NextBatchFollows
<1> QED
  BY <1>1, PcmInvariant, PTL DEF PcmSpec, BatchInOrder

-----------------------------------------------------------------------------
(* The halves together.                                                    *)

\* What is proved of the halves holds where either may take the next step.
THEOREM HalvesAreIndependent == SoundSpec => Spec /\ PcmSpec
<1>1. SoundInit => Init /\ PcmInit
  BY DEF SoundInit
<1>2. [SoundNext]_<<vars, pcmVars, half>> => [Next]_vars /\ [PcmNext]_pcmVars
  BY DEF SoundNext
<1> QED
  BY <1>1, <1>2, PTL DEF SoundSpec, Spec, PcmSpec
=============================================================================
