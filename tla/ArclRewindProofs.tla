-------------------------- MODULE ArclRewindProofs --------------------------
(***************************************************************************)
(* The rewind ring implements the undo history, for every depth, interval, *)
(* number of frames and client.                                            *)
(*                                                                         *)
(* The k-th newest entry of a ring is the slot RingIndex(r, k).  A capture *)
(* moves every entry one place down and puts itself in place 1; a rewind   *)
(* of k entries moves every entry k places up.  That is all the arithmetic *)
(* modulo Depth has to give; the rest is about sequences.                  *)
(***************************************************************************)
EXTENDS ArclRewind, ArclControlProofs

LEMMA ModInside ==
  ASSUME NEW d \in Nat \ {0}, NEW a \in 0..(d - 1)
  PROVE  a % d = a
OBVIOUS

LEMMA ModOnce ==
  ASSUME NEW d \in Nat \ {0}, NEW a \in 0..(d - 1)
  PROVE  (a + d) % d = a
OBVIOUS

\* Where the k-th newest entry lies.
LEMMA RingIndexValue ==
  ASSUME NEW r \in Ring, NEW k \in 0..Depth
  PROVE  RingIndex(r, k) = IF k <= r.next THEN r.next - k
                           ELSE r.next - k + Depth
<1>1. Depth \in Nat \ {0} /\ r.next \in 0..Depth-1
  BY BoundAssumption, RingFields
<1>2. CASE k <= r.next
  <2>1. r.next - k \in 0..Depth-1
    BY <1>1, <1>2
  <2> QED
    BY <1>1, <1>2, <2>1, ModOnce DEF RingIndex
<1>3. CASE ~(k <= r.next)
  <2>1. r.next - k + Depth \in 0..Depth-1
    BY <1>1, <1>3
  <2> QED
    BY <1>1, <1>3, <2>1, ModInside DEF RingIndex
<1> QED
  BY <1>2, <1>3

\* The write position after a capture.
LEMMA NextValue ==
  ASSUME NEW n \in 0..Depth-1
  PROVE  (n + 1) % Depth = IF n = Depth - 1 THEN 0 ELSE n + 1
<1>1. Depth \in Nat \ {0}
  BY BoundAssumption
<1>2. CASE n = Depth - 1
  <2>1. 0 \in 0..Depth-1 /\ n + 1 = 0 + Depth
    BY <1>1, <1>2
  <2> QED
    BY <1>1, <1>2, <2>1, ModOnce
<1>3. CASE n # Depth - 1
  <2>1. n + 1 \in 0..Depth-1
    BY <1>1, <1>3
  <2> QED
    BY <1>1, <1>3, <2>1, ModInside
<1> QED
  BY <1>2, <1>3

\* A capture pushes.
LEMMA CapturedEntries ==
  ASSUME NEW r \in Ring, NEW f \in 0..MaxFrame, NEW m \in Machine,
         r.enabled /\ f % r.interval = 0
  PROVE  LET q == Captured(r, f, m) IN
         /\ q \in Ring
         /\ q.count = IF r.count < Depth THEN r.count + 1 ELSE r.count
         /\ q.slot[RingIndex(q, 1)] = Snap(f, m)
         /\ \A k \in 1..Depth-1 :
              q.slot[RingIndex(q, k + 1)] = r.slot[RingIndex(r, k)]
<1> DEFINE q == Captured(r, f, m)
<1>1. Depth \in Nat \ {0}
  BY BoundAssumption
<1>2. r.next \in 0..Depth-1 /\ r.slot \in [0..Depth-1 -> Snapshot \cup {NULL}]
      /\ r.count \in 0..Depth
  BY RingFields
<1>3. q \in Ring
  BY CapturedType
<1>4. /\ q.count = IF r.count < Depth THEN r.count + 1 ELSE r.count
      /\ q.next = (r.next + 1) % Depth
      /\ q.slot = [r.slot EXCEPT ![r.next] = Snap(f, m)]
  BY DEF Captured, Ring
<1>5. q.next = IF r.next = Depth - 1 THEN 0 ELSE r.next + 1
  BY <1>2, <1>4, NextValue
<1>6. RingIndex(q, 1) = r.next
  <2>1. 1 \in 0..Depth
    BY <1>1
  <2>2. RingIndex(q, 1) = IF 1 <= q.next THEN q.next - 1 ELSE q.next - 1 + Depth
    BY <1>3, <2>1, RingIndexValue
  <2> HIDE DEF q
  <2> QED
    BY <1>1, <1>2, <1>5, <2>2
<1>7. ASSUME NEW k \in 1..Depth-1
      PROVE  /\ RingIndex(q, k + 1) = RingIndex(r, k)
             /\ RingIndex(r, k) \in (0..Depth-1) \ {r.next}
  <2>1. k \in 0..Depth /\ k + 1 \in 0..Depth
    BY <1>1
  <2>2. RingIndex(q, k + 1) = IF k + 1 <= q.next THEN q.next - (k + 1)
                              ELSE q.next - (k + 1) + Depth
    BY <1>3, <2>1, RingIndexValue
  <2>3. RingIndex(r, k) = IF k <= r.next THEN r.next - k ELSE r.next - k + Depth
    BY <2>1, RingIndexValue
  <2>4. RingIndex(q, k + 1) = RingIndex(r, k)
    <3> HIDE DEF q
    <3>1. CASE r.next = Depth - 1
      BY <1>1, <1>2, <1>5, <2>2, <2>3, <3>1
    <3>2. CASE r.next # Depth - 1
      BY <1>1, <1>2, <1>5, <2>2, <2>3, <3>2
    <3> QED
      BY <3>1, <3>2
  <2>5. RingIndex(r, k) \in (0..Depth-1) \ {r.next}
    <3> HIDE DEF q
    <3>1. CASE k <= r.next
      BY <1>1, <1>2, <2>3, <3>1
    <3>2. CASE ~(k <= r.next)
      BY <1>1, <1>2, <2>3, <3>2
    <3> QED
      BY <3>1, <3>2
  <2> QED
    BY <2>4, <2>5
<1> HIDE DEF q
<1>8. q.slot[RingIndex(q, 1)] = Snap(f, m)
  BY <1>2, <1>4, <1>6
<1>9. \A k \in 1..Depth-1 :
        q.slot[RingIndex(q, k + 1)] = r.slot[RingIndex(r, k)]
  BY <1>2, <1>4, <1>7
<1> QED
  BY <1>3, <1>4, <1>8, <1>9 DEF q

\* A rewind pops.
LEMMA RewoundEntries ==
  ASSUME NEW r \in Ring, NEW s \in 1..r.count
  PROVE  LET q == Rewound(r, s) IN
         /\ q \in Ring
         /\ q.count = r.count - s
         /\ \A k \in 1..q.count :
              q.slot[RingIndex(q, k)] = r.slot[RingIndex(r, k + s)]
<1> DEFINE q == Rewound(r, s)
<1>1. Depth \in Nat \ {0} /\ r.next \in 0..Depth-1 /\ r.count \in 0..Depth
  BY BoundAssumption, RingFields
<1>2. q \in Ring
  BY RewoundType
<1>3. q.count = r.count - s /\ q.next = RingIndex(r, s) /\ q.slot = r.slot
  BY DEF Rewound, Ring
<1>4. q.next = IF s <= r.next THEN r.next - s ELSE r.next - s + Depth
  BY <1>1, <1>3, RingIndexValue
<1>5. ASSUME NEW k \in 1..q.count
      PROVE  RingIndex(q, k) = RingIndex(r, k + s)
  <2>1. k \in 0..Depth /\ k + s \in 0..Depth
    BY <1>1, <1>3
  <2>2. RingIndex(q, k) = IF k <= q.next THEN q.next - k
                          ELSE q.next - k + Depth
    BY <1>2, <2>1, RingIndexValue
  <2>3. RingIndex(r, k + s) = IF k + s <= r.next THEN r.next - (k + s)
                              ELSE r.next - (k + s) + Depth
    BY <2>1, RingIndexValue
  <2> HIDE DEF q
  <2> QED
    BY <1>1, <1>3, <1>4, <2>1, <2>2, <2>3
<1> QED
  BY <1>2, <1>3, <1>5

-----------------------------------------------------------------------------
(* The ring as a sequence.                                                  *)

\* What is counted is there: a capture that fails is not counted.
RingFilled ==
  \A k \in 1..ring.count : ring.slot[RingIndex(ring, k)] # NULL

LEMMA FunctionIsSequence ==
  ASSUME NEW S, NEW n \in Nat, NEW f \in [1..n -> S]
  PROVE  f \in Seq(S) /\ Len(f) = n
OBVIOUS

LEMMA SequenceIsFunction ==
  ASSUME NEW S, NEW q \in Seq(S)
  PROVE  q = [i \in 1..Len(q) |-> q[i]]
OBVIOUS

LEMMA ElementOfSequence ==
  ASSUME NEW S, NEW q \in Seq(S), NEW i \in 1..Len(q)
  PROVE  q[i] \in S
OBVIOUS

LEMMA HistoryIsSequence ==
  ASSUME TypeOK, RingFilled
  PROVE  /\ History \in Seq(0..MaxFrame)
         /\ Len(History) = ring.count
         /\ ring.count \in 0..Depth
         /\ \A i \in 1..ring.count :
              History[i] = ring.slot[RingIndex(ring, ring.count - i + 1)].frame
<1>1. Depth \in Nat \ {0} /\ ring \in Ring /\ ring.count \in 0..Depth
  BY BoundAssumption, RingFields DEF TypeOK
<1>2. ASSUME NEW i \in 1..ring.count
      PROVE  ring.slot[RingIndex(ring, ring.count - i + 1)].frame
               \in 0..MaxFrame
  <2>1. ring.count - i + 1 \in 1..ring.count /\ ring.count - i + 1 \in Nat
    BY <1>1
  <2>2. RingIndex(ring, ring.count - i + 1) \in 0..Depth-1
    BY <1>1, <2>1, RingIndexType
  <2>3. ring.slot[RingIndex(ring, ring.count - i + 1)] \in Snapshot
    BY <1>1, <2>1, <2>2, RingFields DEF RingFilled
  <2> QED
    BY <2>3 DEF Snapshot
<1>3. History \in [1..ring.count -> 0..MaxFrame]
  BY <1>2 DEF History
<1>4. History \in Seq(0..MaxFrame) /\ Len(History) = ring.count
  <2> DEFINE h == History
  <2>1. ring.count \in Nat
    BY <1>1
  <2>2. h \in [1..ring.count -> 0..MaxFrame]
    BY <1>3
  <2> HIDE DEF h
  <2>3. h \in Seq(0..MaxFrame) /\ Len(h) = ring.count
    BY <2>1, <2>2, FunctionIsSequence
  <2> QED
    BY <2>3 DEF h
<1>5. \A i \in 1..ring.count :
        History[i] = ring.slot[RingIndex(ring, ring.count - i + 1)].frame
  BY DEF History
<1> QED
  BY <1>1, <1>4, <1>5

\* A capture appends the frame number and drops the oldest entry of a full
\* ring.
LEMMA CaptureAppends ==
  ASSUME TypeOK, RingFilled, frame' \in 0..MaxFrame, machine' \in Machine,
         ring.enabled /\ frame' % ring.interval = 0,
         ring' = Captured(ring, frame', machine')
  PROVE  /\ RingFilled'
         /\ History' = Undo!Newest(Append(History, frame'))
<1> DEFINE n == ring.count
<1>1. Depth \in Nat \ {0} /\ ring \in Ring /\ n \in 0..Depth
  BY BoundAssumption, RingFields DEF TypeOK
<1>2. /\ ring'.count = IF n < Depth THEN n + 1 ELSE n
      /\ ring'.slot[RingIndex(ring', 1)] = Snap(frame', machine')
      /\ \A k \in 1..Depth-1 :
           ring'.slot[RingIndex(ring', k + 1)] = ring.slot[RingIndex(ring, k)]
  BY <1>1, CapturedEntries
<1>3. RingFilled'
  <2> SUFFICES ASSUME NEW k \in 1..ring'.count
               PROVE  ring'.slot[RingIndex(ring', k)] # NULL
    BY DEF RingFilled, RingIndex
  <2>1. CASE k = 1
    <3>1. Snap(frame', machine') \in Snapshot
      BY SnapType
    <3> QED
      BY <1>2, <2>1, <3>1, WorkerAssumption
  <2>2. CASE k # 1
    <3>1. k - 1 \in 1..Depth-1 /\ k - 1 \in 1..n /\ (k - 1) + 1 = k
      BY <1>1, <1>2, <2>2
    <3> QED
      BY <1>2, <3>1 DEF RingFilled
  <2> QED
    BY <2>1, <2>2
<1>4. /\ History \in Seq(0..MaxFrame) /\ Len(History) = n
      /\ \A i \in 1..n :
           History[i] = ring.slot[RingIndex(ring, n - i + 1)].frame
  BY HistoryIsSequence
<1>5. History' = [i \in 1..ring'.count |->
                    ring'.slot[RingIndex(ring', ring'.count - i + 1)].frame]
  BY DEF History, RingIndex
<1>6. ring'.slot[RingIndex(ring', 1)].frame = frame'
  BY <1>2 DEF Snap
<1> HIDE DEF n
<1>7. CASE n < Depth
  <2>1. Undo!Newest(Append(History, frame')) = Append(History, frame')
    BY <1>1, <1>4, <1>7 DEF Undo!Newest
  <2>2. ASSUME NEW i \in 1..n + 1
        PROVE  ring'.slot[RingIndex(ring', (n + 1) - i + 1)].frame
                 = Append(History, frame')[i]
    <3>1. CASE i = n + 1
      <4>1. (n + 1) - i + 1 = 1
        BY <1>1, <3>1
      <4> QED
        BY <1>1, <1>4, <1>6, <3>1, <4>1
    <3>2. CASE i # n + 1
      <4>1. /\ n - i + 1 \in 1..Depth-1
            /\ (n + 1) - i + 1 = (n - i + 1) + 1
            /\ i \in 1..n
        BY <1>1, <1>7, <3>2
      <4>2. ring'.slot[RingIndex(ring', (n + 1) - i + 1)].frame
              = ring.slot[RingIndex(ring, n - i + 1)].frame
        BY <1>2, <4>1
      <4>3. Append(History, frame')[i] = History[i]
        BY <1>1, <1>4, <4>1
      <4> QED
        BY <1>4, <4>1, <4>2, <4>3
    <3> QED
      BY <3>1, <3>2
  <2>3. ring'.count = n + 1
    BY <1>2, <1>7 DEF n
  <2>4. Append(History, frame')
          = [i \in 1..n + 1 |-> Append(History, frame')[i]]
    <3>1. Append(History, frame') \in Seq(0..MaxFrame)
          /\ Len(Append(History, frame')) = n + 1
      BY <1>4
    <3> QED
      BY <3>1, SequenceIsFunction
  <2>5. History' = [i \in 1..n + 1 |-> Append(History, frame')[i]]
    BY <1>5, <2>2, <2>3
  <2> QED
    BY <1>3, <2>1, <2>4, <2>5
<1>8. CASE n = Depth
  <2> DEFINE new == Append(History, frame')
  <2>1. new \in Seq(0..MaxFrame) /\ Len(new) = Depth + 1
    BY <1>1, <1>4, <1>8
  <2>2. Undo!Newest(new) = SubSeq(new, 2, Depth + 1)
    <3>1. Len(new) - Depth + 1 = 2
      BY <1>1, <2>1
    <3> HIDE DEF new
    <3> QED
      BY <1>1, <2>1, <3>1 DEF Undo!Newest
  <2>3. ASSUME NEW i \in 1..Depth
        PROVE  ring'.slot[RingIndex(ring', Depth - i + 1)].frame = new[i + 1]
    <3>1. CASE i = Depth
      <4>1. Depth - i + 1 = 1 /\ i + 1 = Len(History) + 1
        BY <1>1, <1>4, <1>8, <3>1
      <4>2. new[i + 1] = frame'
        BY <1>1, <1>4, <4>1
      <4> QED
        BY <1>6, <4>1, <4>2
    <3>2. CASE i # Depth
      <4>1. /\ Depth - i \in 1..Depth-1
            /\ Depth - i + 1 = (Depth - i) + 1
            /\ i + 1 \in 1..n
            /\ n - (i + 1) + 1 = Depth - i
        BY <1>1, <1>8, <3>2
      <4>2. ring'.slot[RingIndex(ring', Depth - i + 1)].frame
              = ring.slot[RingIndex(ring, Depth - i)].frame
        BY <1>2, <4>1
      <4>3. new[i + 1] = History[i + 1]
        BY <1>1, <1>4, <4>1
      <4>4. History[i + 1] = ring.slot[RingIndex(ring, n - (i + 1) + 1)].frame
        BY <1>4, <4>1
      <4> QED
        BY <4>1, <4>2, <4>3, <4>4
    <3> QED
      BY <3>1, <3>2
  <2>4. ring'.count = Depth
    BY <1>1, <1>2, <1>8 DEF n
  <2>5. History' = [i \in 1..Depth |-> new[i + 1]]
    BY <1>5, <2>3, <2>4
  <2>6. SubSeq(new, 2, Depth + 1) = [i \in 1..Depth |-> new[i + 1]]
    <3> HIDE DEF new
    <3> QED
      BY <1>1, <2>1
  <2> QED
    BY <1>3, <2>2, <2>5, <2>6
<1> QED
  BY <1>1, <1>3, <1>7, <1>8

\* A rewind restores the entry it counts back to and keeps those before it.
LEMMA RewindUndoes ==
  ASSUME TypeOK, RingFilled, NEW s \in 1..ring.count,
         ring' = Rewound(ring, s)
  PROVE  /\ RingFilled'
         /\ ring.slot[RingIndex(ring, s)].frame = History[ring.count - s + 1]
         /\ History' = SubSeq(History, 1, ring.count - s)
<1> DEFINE n == ring.count
<1>1. Depth \in Nat \ {0} /\ ring \in Ring /\ n \in 0..Depth
  BY BoundAssumption, RingFields DEF TypeOK
<1>2. /\ ring'.count = n - s
      /\ \A k \in 1..ring'.count :
           ring'.slot[RingIndex(ring', k)] = ring.slot[RingIndex(ring, k + s)]
  BY <1>1, RewoundEntries
<1>3. /\ History \in Seq(0..MaxFrame) /\ Len(History) = n
      /\ \A i \in 1..n :
           History[i] = ring.slot[RingIndex(ring, n - i + 1)].frame
  BY HistoryIsSequence
<1>4. RingFilled'
  <2> SUFFICES ASSUME NEW k \in 1..ring'.count
               PROVE  ring'.slot[RingIndex(ring', k)] # NULL
    BY DEF RingFilled, RingIndex
  <2>1. k + s \in 1..n
    BY <1>1, <1>2
  <2> QED
    BY <1>2, <2>1 DEF RingFilled
<1>5. ring.slot[RingIndex(ring, s)].frame = History[n - s + 1]
  <2>1. n - s + 1 \in 1..n /\ n - (n - s + 1) + 1 = s
    BY <1>1
  <2> QED
    BY <1>3, <2>1
<1>6. History' = [i \in 1..n - s |->
                    ring'.slot[RingIndex(ring', (n - s) - i + 1)].frame]
  BY <1>2 DEF History, RingIndex
<1> HIDE DEF n
<1>7. ASSUME NEW i \in 1..n - s
      PROVE  ring'.slot[RingIndex(ring', (n - s) - i + 1)].frame = History[i]
  <2>1. /\ (n - s) - i + 1 \in 1..n - s
        /\ ((n - s) - i + 1) + s = n - i + 1
        /\ i \in 1..n
    BY <1>1 DEF n
  <2> QED
    BY <1>2, <1>3, <2>1
<1>8. SubSeq(History, 1, n - s) = [i \in 1..n - s |-> History[i]]
  BY <1>1, <1>3 DEF n
<1> QED
  BY <1>4, <1>5, <1>6, <1>7, <1>8 DEF n

-----------------------------------------------------------------------------
(* The steps of the execution control, seen from the ring.                  *)

RewindInv == TypeOK /\ RingFilled

LEMMA RewindInvInit == Init => RewindInv
<1> SUFFICES ASSUME Init PROVE RingFilled
  BY TypeInit DEF RewindInv
<1> QED
  BY DEF Init, RingFilled

\* What a step does to the frame counter and the ring: one of five things.
LEMMA RingSteps ==
  ASSUME TypeOK, [Next]_vars
  PROVE  \/ AdvanceFrame
         \/ UNCHANGED ring /\ frame' \in 0..MaxFrame
         \/ Rewind
         \/ RewindEnable
         \/ RewindDisable
<1>1. CASE UNCHANGED <<frame, ring>>
  BY <1>1 DEF TypeOK
<1>2. CASE Reset \/ LoadState
  BY <1>2, TypeNext DEF TypeOK, Reset, LoadState, histVars
<1> QED
  BY <1>1, <1>2
  DEF Next, McpStep, GuiStep, WorkerStep, Finished, vars, Accept, Reject,
      EndOfInput, PauseEnter, Join, Report, Resume, RunEnter, FrameStep,
      RunLeave, SaveState, GuiF5, GuiExit, GuiJoined, Shutdown, WorkerCheck,
      WorkerFrame, emuVars, histVars

LEMMA RingUnchanged ==
  ASSUME RingFilled, UNCHANGED ring
  PROVE  RingFilled' /\ History' = History
BY DEF RingFilled, History, RingIndex

LEMMA RingForgotten ==
  ASSUME TypeOK, RewindEnable \/ RewindDisable
  PROVE  RingFilled' /\ History' = << >> /\ UNCHANGED frame
<1>1. ring'.count = 0
  BY DEF RewindEnable, RewindDisable, Enabled, Disabled, TypeOK, Ring
<1>2. History' = [i \in 1..0 |->
                    ring'.slot[RingIndex(ring', 0 - i + 1)].frame]
  BY <1>1 DEF History, RingIndex
<1>3. History' = << >>
  BY <1>2
<1> QED
  BY <1>1, <1>3 DEF RingFilled, RewindEnable, RewindDisable, emuVars

LEMMA AdvanceAdvances ==
  ASSUME TypeOK, RingFilled, AdvanceFrame
  PROVE  RingFilled' /\ Undo!Advance
<1>1. /\ frame' \in 0..MaxFrame /\ machine' \in Machine
      /\ frame' = IF frame < MaxFrame THEN frame + 1 ELSE frame
  BY TickType, ExecutedType DEF AdvanceFrame, TypeOK, Tick
<1>2. CASE UNCHANGED ring
  BY <1>1, <1>2, RingUnchanged DEF Undo!Advance
<1>3. CASE ring' = Captured(ring, frame', machine') /\ ring' # ring
  <2>1. ring.enabled /\ frame' % ring.interval = 0
    BY <1>3 DEF Captured
  <2>2. RingFilled' /\ History' = Undo!Newest(Append(History, frame'))
    BY <1>1, <1>3, <2>1, CaptureAppends
  <2> QED
    BY <1>1, <2>2 DEF Undo!Advance
<1> QED
  BY <1>2, <1>3 DEF AdvanceFrame

LEMMA RewindStep ==
  ASSUME TypeOK, RingFilled, Rewind
  PROVE  /\ RingFilled'
         /\ \/ /\ call["mcp"].arg \in 1..Len(History)
               /\ frame' = History[Len(History) - call["mcp"].arg + 1]
               /\ History' = SubSeq(History, 1,
                               Len(History) - call["mcp"].arg)
               /\ ring'.count = ring.count - call["mcp"].arg
               /\ reply'.ok
            \/ /\ UNCHANGED <<emuVars, ring>>
               /\ ~reply'.ok
<1> DEFINE s == call["mcp"].arg
<1>1. Len(History) = ring.count
  BY HistoryIsSequence
<1>2. CASE /\ s \in 1..ring.count
           /\ Restore(ring.slot[RingIndex(ring, s)])
           /\ ring' = Rewound(ring, s)
           /\ Succeed(resuming)
  <2>1. /\ RingFilled'
        /\ ring.slot[RingIndex(ring, s)].frame = History[ring.count - s + 1]
        /\ History' = SubSeq(History, 1, ring.count - s)
    BY <1>2, RewindUndoes
  <2>2. ring'.count = ring.count - s
    BY <1>2 DEF Rewound, TypeOK, Ring
  <2> QED
    BY <1>1, <1>2, <2>1, <2>2 DEF Restore, Succeed
<1>3. CASE UNCHANGED <<emuVars, ring>> /\ Fail("rewind")
  BY <1>3, RingUnchanged DEF Fail
<1> QED
  BY <1>2, <1>3 DEF Rewind

LEMMA RewindInvNext == RewindInv /\ [Next]_vars => RewindInv'
<1> SUFFICES ASSUME TypeOK, RingFilled, [Next]_vars PROVE RingFilled'
  BY TypeNext DEF RewindInv
<1> QED
  BY RingSteps, AdvanceAdvances, RewindStep, RingForgotten, RingUnchanged

LEMMA UndoInit == Init => Undo!Init
<1> SUFFICES ASSUME Init PROVE frame = 0 /\ History = << >>
  BY DEF Undo!Init
<1>1. ring.count = 0
  BY DEF Init
<1>2. History = [i \in 1..0 |-> ring.slot[RingIndex(ring, 0 - i + 1)].frame]
  BY <1>1 DEF History
<1> QED
  BY <1>2 DEF Init

LEMMA UndoNext ==
  RewindInv /\ [Next]_vars => [Undo!Next]_<<frame, History>>
<1> SUFFICES ASSUME TypeOK, RingFilled, [Next]_vars
             PROVE  Undo!Next \/ UNCHANGED <<frame, History>>
  BY DEF RewindInv
<1>1. CASE AdvanceFrame
  BY <1>1, AdvanceAdvances DEF Undo!Next
<1>2. CASE UNCHANGED ring /\ frame' \in 0..MaxFrame
  BY <1>2, RingUnchanged DEF Undo!Next, Undo!Jump, Undo!Position
<1>3. CASE Rewind
  <2>1. CASE UNCHANGED <<emuVars, ring>>
    BY <2>1, RingUnchanged DEF emuVars
  <2>2. CASE ~UNCHANGED <<emuVars, ring>>
    BY <1>3, <2>2, RewindStep DEF Undo!Next, Undo!Undo
  <2> QED
    BY <2>1, <2>2
<1>4. CASE RewindEnable \/ RewindDisable
  BY <1>4, RingForgotten DEF Undo!Next, Undo!Forget
<1> QED
  BY <1>1, <1>2, <1>3, <1>4, RingSteps

LEMMA RewindInvAlways == Spec => []RewindInv
BY RewindInvInit, RewindInvNext, PTL DEF Spec

\* The ring is an undo stack of bounded length: through captures that fail,
\* wrap-arounds, jumps, re-enabling and rewinds it loses, repeats and reorders
\* nothing, for every depth, interval and client, with a window and without.
THEOREM RingImplementsUndo == Spec => UndoSpec
<1>1. Spec => Undo!Init
  BY UndoInit DEF Spec
<1> QED
  BY <1>1, RewindInvAlways, UndoNext, PTL DEF Spec, UndoSpec, Undo!Spec

\* A rewind that succeeds drops what it was asked to drop and does not go
\* forward in an ordered ring; one that fails moves nothing.
THEOREM RewindsGoBack == Spec => RewindGoesBack
<1>1. RewindInv /\ [Next]_vars =>
        [At("mcp", "body", "rewind") /\ reply' # reply =>
           IF reply'.ok
           THEN ring'.count = ring.count - call["mcp"].arg
                /\ (Ordered => frame' <= frame /\ Ordered')
           ELSE UNCHANGED <<frame, machine, ring>>]_vars
  <2> SUFFICES ASSUME TypeOK, RingFilled, [Next]_vars,
                      At("mcp", "body", "rewind"), reply' # reply
               PROVE  IF reply'.ok
                      THEN ring'.count = ring.count - call["mcp"].arg
                           /\ (Ordered => frame' <= frame /\ Ordered')
                      ELSE UNCHANGED <<frame, machine, ring>>
    BY DEF RewindInv
  <2> DEFINE s == call["mcp"].arg
             n == Len(History)
  <2>1. Rewind
    BY DEF At, Next, McpStep, GuiStep, WorkerStep, Finished, vars, Accept,
           Reject, EndOfInput, PauseEnter, Join, Report, Resume, RunEnter,
           FrameStep, RunLeave, Reset, SaveState, LoadState, RewindEnable,
           RewindDisable, GuiF5, GuiExit, GuiJoined, Shutdown, WorkerCheck,
           WorkerFrame, Ctl, callVars
  <2>2. CASE UNCHANGED <<emuVars, ring>> /\ ~reply'.ok
    BY <2>2 DEF emuVars
  <2>3. CASE /\ s \in 1..n /\ frame' = History[n - s + 1]
             /\ History' = SubSeq(History, 1, n - s)
             /\ ring'.count = ring.count - s
             /\ reply'.ok
    <3>1. History \in Seq(0..MaxFrame) /\ n \in Nat
      BY HistoryIsSequence
    <3>2. n - s + 1 \in 1..n /\ n - s \in 0..n /\ DOMAIN History = 1..n
      BY <2>3, <3>1
    <3>3. /\ DOMAIN History' = 1..n - s
          /\ \A i \in 1..n - s : History'[i] = History[i]
      BY <2>3, <3>1, <3>2
    <3>4. ASSUME Ordered PROVE frame' <= frame /\ Ordered'
      <4>1. frame' <= frame
        BY <2>3, <3>2, <3>4 DEF Ordered
      <4>2. \A i \in 1..n - s : i \in 1..n /\ i < n - s + 1
        BY <3>1, <3>2
      <4>3. \A i, j \in 1..n - s : i < j => History'[i] < History'[j]
        BY <3>2, <3>3, <3>4, <4>2 DEF Ordered
      <4>4. \A i \in 1..n - s : History'[i] <= frame'
        <5> SUFFICES ASSUME NEW i \in 1..n - s
                     PROVE  History'[i] <= frame'
          OBVIOUS
        <5>1. History[i] < History[n - s + 1]
          BY <3>2, <3>4, <4>2 DEF Ordered
        <5>2. History[i] \in 0..MaxFrame /\ History[n - s + 1] \in 0..MaxFrame
          <6>1. i \in 1..n
            BY <4>2
          <6>2. \A j \in 1..n : History[j] \in 0..MaxFrame
            BY <3>1, ElementOfSequence
          <6> QED
            BY <3>2, <6>1, <6>2
        <5>3. History'[i] = History[i] /\ frame' = History[n - s + 1]
          BY <2>3, <3>3
        <5> HIDE DEF n, s
        <5> QED
          BY <5>1, <5>2, <5>3
      <4> QED
        BY <3>3, <4>1, <4>3, <4>4 DEF Ordered
    <3> QED
      BY <2>3, <3>4
  <2> QED
    BY <2>1, <2>2, <2>3, RewindStep
<1> QED
  BY <1>1, RewindInvAlways, PTL DEF Spec, RewindGoesBack

-----------------------------------------------------------------------------
(* The order of the entries.                                                *)

\* OrderLostOnlyByJump is about sequences only: these are the two that a step
\* can leave.
Rising(h, f) ==
  /\ \A i, j \in DOMAIN h : i < j => h[i] < h[j]
  /\ \A i \in DOMAIN h : h[i] <= f

LEMMA RisingAppended ==
  ASSUME NEW h \in Seq(Nat), NEW f \in Nat, NEW g \in Nat, f < g, Rising(h, f)
  PROVE  Rising(Append(h, g), g)
<1> DEFINE k == Append(h, g)
           n == Len(h)
<1>1. /\ n \in Nat /\ DOMAIN h = 1..n /\ DOMAIN k = 1..n + 1
      /\ k[n + 1] = g /\ \A i \in 1..n : k[i] = h[i] /\ h[i] \in Nat
  BY ElementOfSequence
<1> HIDE DEF k, n
<1>2. ASSUME NEW i \in 1..n + 1, NEW j \in 1..n + 1, i < j
      PROVE  k[i] < k[j]
  <2>1. i \in 1..n /\ k[i] = h[i] /\ h[i] \in Nat /\ h[i] <= f
    <3>1. i \in 1..n
      BY <1>1, <1>2
    <3>2. k[i] = h[i] /\ h[i] \in Nat
      BY <1>1, <3>1
    <3>3. h[i] <= f
      BY <1>1, <3>1 DEF Rising
    <3> QED
      BY <3>1, <3>2, <3>3
  <2>2. CASE j = n + 1
    BY <1>1, <2>1, <2>2
  <2>3. CASE j # n + 1
    <3>1. j \in 1..n
      BY <1>1, <2>3
    <3> QED
      BY <1>1, <1>2, <2>1, <3>1 DEF Rising
  <2> QED
    BY <2>2, <2>3
<1>3. ASSUME NEW i \in 1..n + 1
      PROVE  k[i] <= g
  <2>1. CASE i = n + 1
    BY <1>1, <2>1
  <2>2. CASE i # n + 1
    <3>1. i \in 1..n
      BY <1>1, <2>2
    <3>2. k[i] = h[i] /\ h[i] \in Nat /\ h[i] <= f
      BY <1>1, <3>1 DEF Rising
    <3> QED
      BY <3>2
  <2> QED
    BY <2>1, <2>2
<1> QED
  BY <1>1, <1>2, <1>3 DEF Rising, k

LEMMA RisingPart ==
  ASSUME NEW h \in Seq(Nat), NEW f \in Nat, Rising(h, f),
         NEW m \in 1..Len(h)
  PROVE  Rising(SubSeq(h, m, Len(h)), f)
<1> DEFINE n == Len(h)
           k == SubSeq(h, m, n)
<1>1. n \in Nat /\ DOMAIN h = 1..n
  OBVIOUS
<1>2. k = [i \in 1..n - m + 1 |-> h[i + m - 1]]
  BY <1>1
<1>3. /\ DOMAIN k = 1..n - m + 1
      /\ \A i \in 1..n - m + 1 :
           k[i] = h[i + m - 1] /\ i \in Int /\ i + m - 1 \in 1..n
  <2> HIDE DEF n, k
  <2> QED
    BY <1>1, <1>2
<1> HIDE DEF k
<1>4. ASSUME NEW i \in DOMAIN k, NEW j \in DOMAIN k, i < j
      PROVE  k[i] < k[j]
  <2>1. i + m - 1 < j + m - 1
    BY <1>3, <1>4
  <2> QED
    BY <1>1, <1>3, <2>1 DEF Rising
<1>5. \A i \in DOMAIN k : k[i] <= f
  BY <1>1, <1>3 DEF Rising
<1> QED
  BY <1>4, <1>5 DEF Rising, k

\* A step that is no jump leaves the ring's order as it was: a capture files
\* a later frame than all before it, also when it drops the oldest.
LEMMA OrderKept ==
  ASSUME TypeOK, RingFilled, [Next]_vars, Ordered, ~Jumping
  PROVE  Ordered'
<1>1. /\ History \in Seq(Nat) /\ frame \in Nat
      /\ Rising(History, frame)
      /\ MaxFrame \in Nat /\ Depth \in Nat \ {0}
  <2>1. History \in Seq(0..MaxFrame) /\ frame \in 0..MaxFrame /\ MaxFrame \in Nat
    BY HistoryIsSequence, BoundAssumption DEF TypeOK
  <2>2. History \in Seq(Nat)
    <3> DEFINE h == History
    <3> HIDE DEF h
    <3>1. \A m \in Nat : h \in Seq(0..m) => h \in Seq(Nat)
      OBVIOUS
    <3> QED
      BY <2>1, <3>1 DEF h
  <2> QED
    BY <2>1, <2>2, BoundAssumption DEF Ordered, Rising
<1>2. SUFFICES Rising(History', frame')
  BY DEF Ordered, Rising
<1>3. CASE UNCHANGED <<frame, ring>>
  BY <1>1, <1>3, RingUnchanged
<1>4. CASE AdvanceFrame
  <2>1. CASE UNCHANGED ring
    <3>1. frame' \in Nat /\ frame' >= frame
      BY <1>1, <1>4 DEF AdvanceFrame, Tick
    <3>2. History' = History
      BY <2>1, RingUnchanged
    <3>3. \A i \in DOMAIN History : History[i] \in Nat
      BY <1>1, ElementOfSequence
    <3> QED
      BY <1>1, <3>1, <3>2, <3>3 DEF Rising
  <2>2. CASE ~UNCHANGED ring
    <3> DEFINE k == Append(History, frame')
    <3>1. /\ frame < MaxFrame /\ frame' = frame + 1 /\ frame' \in 0..MaxFrame
          /\ machine' \in Machine
          /\ ring' = Captured(ring, frame', machine')
      BY <1>1, <1>4, <2>2, ExecutedType DEF AdvanceFrame, Tick, TypeOK
    <3>2. ring.enabled /\ frame' % ring.interval = 0
      BY <2>2, <3>1 DEF Captured
    <3>3. History' = Undo!Newest(k)
      BY <3>1, <3>2, CaptureAppends
    <3>4. k \in Seq(Nat) /\ Rising(k, frame') /\ frame' \in Nat
      BY <1>1, <3>1, RisingAppended
    <3> HIDE DEF k
    <3>5. CASE History' = k
      BY <3>4, <3>5
    <3>6. CASE /\ Len(k) > Depth
               /\ History' = SubSeq(k, Len(k) - Depth + 1, Len(k))
      <4>1. Len(k) - Depth + 1 \in 1..Len(k)
        <5>1. Len(k) \in Nat
          BY <3>4
        <5> QED
          BY <1>1, <3>6, <5>1
      <4> QED
        BY <3>4, <3>6, <4>1, RisingPart
    <3> QED
      BY <3>3, <3>5, <3>6 DEF Undo!Newest
  <2> QED
    BY <2>1, <2>2
<1>5. CASE Rewind
  <2>1. CASE UNCHANGED <<emuVars, ring>>
    BY <1>1, <2>1, RingUnchanged DEF emuVars
  <2>2. CASE ~UNCHANGED <<emuVars, ring>>
    <3> DEFINE n == Len(History)
               s == call["mcp"].arg
    <3>1. /\ s \in 1..n /\ frame' = History[n - s + 1]
          /\ History' = SubSeq(History, 1, n - s)
      BY <1>5, <2>2, RewindStep
    <3>2. n \in Nat /\ n - s \in 0..n /\ n - s + 1 \in 1..n
      <4>1. n \in Nat
        BY <1>1
      <4> HIDE DEF n, s
      <4> QED
        BY <3>1, <4>1
    <3>3. Rising(SubSeq(History, 1, n - s), History[n - s + 1])
      <4> DEFINE h == History
                 k == SubSeq(h, 1, n - s)
      <4>1. /\ DOMAIN k = 1..n - s /\ DOMAIN h = 1..n
            /\ \A i \in 1..n - s : k[i] = h[i]
        BY <1>1, <3>2
      <4>2. \A i \in 1..n - s : i \in 1..n /\ i < n - s + 1
        BY <3>2
      <4> HIDE DEF k, h
      <4>3. Rising(h, frame) /\ \A i \in 1..n : h[i] \in Nat
        BY <1>1, ElementOfSequence DEF h
      <4>4. \A i, j \in 1..n - s : i < j => k[i] < k[j]
        BY <4>1, <4>2, <4>3 DEF Rising
      <4>5. \A i \in 1..n - s : k[i] <= h[n - s + 1]
        <5> SUFFICES ASSUME NEW i \in 1..n - s
                     PROVE  k[i] <= h[n - s + 1]
          OBVIOUS
        <5>1. k[i] = h[i] /\ i \in 1..n /\ i < n - s + 1
          BY <4>1, <4>2
        <5>2. h[i] < h[n - s + 1]
          BY <3>2, <4>1, <4>3, <5>1 DEF Rising
        <5> QED
          BY <3>2, <4>3, <5>1, <5>2
      <4> QED
        BY <4>1, <4>4, <4>5 DEF Rising, h, k
    <3> QED
      BY <3>1, <3>3
  <2> QED
    BY <2>1, <2>2
<1>6. CASE RewindEnable \/ RewindDisable
  BY <1>6, RingForgotten DEF Rising
<1>7. ~Reset /\ ~LoadState
  BY DEF Jumping, Reset, LoadState
<1> QED
  BY <1>3, <1>4, <1>5, <1>6, <1>7
  DEF Next, McpStep, GuiStep, WorkerStep, Finished, vars, Accept, Reject,
      EndOfInput, PauseEnter, Join, Report, Resume, RunEnter, FrameStep,
      RunLeave, SaveState, GuiF5, GuiExit, GuiJoined, Shutdown, WorkerCheck,
      WorkerFrame, emuVars, histVars

\* The ring's order is lost in one way only, a reset or a loaded state, for
\* every capacity, interval and client, with a window and without: neither a
\* capture, also into a full ring or beside a worker, nor a rewind or a failed
\* one puts a label behind a later one or ahead of the machine.
THEOREM OrderIsKept == Spec => OrderLostOnlyByJump
<1>1. RewindInv /\ [Next]_vars => [Ordered /\ ~Ordered' => Jumping]_vars
  BY OrderKept DEF RewindInv
<1> QED
  BY <1>1, RewindInvAlways, PTL DEF Spec, OrderLostOnlyByJump
=============================================================================
