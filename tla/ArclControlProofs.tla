------------------------- MODULE ArclControlProofs -------------------------
(***************************************************************************)
(* Theorems about ArclControl, for every set of workers, every ring depth, *)
(* every bound and every client.                                           *)
(***************************************************************************)
EXTENDS ArclControl, TLAPS


-----------------------------------------------------------------------------
(* The operators on frames and on the ring stay within their types.        *)

\* A remainder lies below its divisor.
LEMMA ModRange ==
  ASSUME NEW a \in Int, NEW d \in Nat \ {0}
  PROVE  a % d \in 0..(d - 1)
OBVIOUS

LEMMA TickType ==
  ASSUME NEW n \in 0..MaxFrame
  PROVE  Tick(n) \in 0..MaxFrame
BY BoundAssumption DEF Tick

LEMMA SnapType ==
  ASSUME NEW f \in 0..MaxFrame, NEW m \in Machine
  PROVE  Snap(f, m) \in Snapshot
BY DEF Snap, Snapshot

LEMMA ExecutedType ==
  ASSUME NEW m \in Machine, NEW p \in BOOLEAN
  PROVE  Executed(m, p) \in Machine
BY BoundAssumption DEF Executed, Machine, Booted, Tick

LEMMA RingIndexType ==
  ASSUME NEW r \in Ring, NEW k \in Nat
  PROVE  RingIndex(r, k) \in 0..Depth-1
<1>1. Depth \in Nat \ {0}
  BY BoundAssumption
<1>2. r.next \in 0..Depth-1
  BY BoundAssumption DEF Ring
<1>3. r.next - k + Depth \in Int
  BY <1>1, <1>2
<1> QED
  BY <1>1, <1>3, ModRange DEF RingIndex

LEMMA RingFields ==
  ASSUME NEW r \in Ring
  PROVE  /\ r.enabled \in BOOLEAN
         /\ r.interval \in Intervals \cup {0}
         /\ r.slot \in [0..Depth-1 -> Snapshot \cup {NULL}]
         /\ r.count \in 0..Depth
         /\ r.next \in 0..Depth-1
BY DEF Ring

\* Every operation on the ring yields a ring.
LEMMA CapturedType ==
  ASSUME NEW r \in Ring, NEW f \in 0..MaxFrame, NEW m \in Machine
  PROVE  Captured(r, f, m) \in Ring
<1>1. (r.next + 1) % Depth \in 0..Depth-1
  <2>1. Depth \in Nat \ {0}
    BY BoundAssumption
  <2>2. r.next + 1 \in Int
    BY BoundAssumption, RingFields
  <2> QED
    BY <2>1, <2>2, ModRange
<1>2. (IF r.count < Depth THEN r.count + 1 ELSE r.count) \in 0..Depth
  BY BoundAssumption, RingFields
<1>3. [r.slot EXCEPT ![r.next] = Snap(f, m)]
        \in [0..Depth-1 -> Snapshot \cup {NULL}]
  BY SnapType, RingFields
<1> QED
  BY <1>1, <1>2, <1>3 DEF Captured, Ring

LEMMA RewoundType ==
  ASSUME NEW r \in Ring, NEW k \in 1..r.count
  PROVE  Rewound(r, k) \in Ring
<1>1. RingIndex(r, k) \in 0..Depth-1
  BY RingIndexType, BoundAssumption, RingFields
<1>2. r.count - k \in 0..Depth
  BY BoundAssumption, RingFields
<1> QED
  BY <1>1, <1>2 DEF Rewound, Ring

LEMMA EnabledType ==
  ASSUME NEW r \in Ring, NEW i \in Intervals
  PROVE  Enabled(r, i) \in Ring
<1>1. 0 \in 0..Depth /\ 0 \in 0..Depth-1
  BY BoundAssumption
<1> QED
  BY <1>1 DEF Enabled, Ring

LEMMA DisabledType ==
  ASSUME NEW r \in Ring
  PROVE  Disabled(r) \in Ring
<1>1. 0 \in 0..Depth /\ 0 \in 0..Depth-1
  BY BoundAssumption
<1> QED
  BY <1>1 DEF Disabled, Ring

\* A frame keeps the machine and the ring well typed.
LEMMA AdvanceType ==
  ASSUME TypeOK, AdvanceFrame
  PROVE  /\ frame' \in 0..MaxFrame
         /\ machine' \in Machine
         /\ primed' \in BOOLEAN
         /\ ring' \in Ring
<1>1. frame' \in 0..MaxFrame
  BY TickType DEF TypeOK, AdvanceFrame
<1>2. machine' \in Machine
  BY ExecutedType DEF TypeOK, AdvanceFrame
<1> QED
  BY <1>1, <1>2, CapturedType DEF TypeOK, AdvanceFrame

\* So does bringing back a saved state.
LEMMA RestoreType ==
  ASSUME TypeOK, NEW snap \in Snapshot, Restore(snap)
  PROVE  frame' \in 0..MaxFrame /\ machine' \in Machine /\ primed' \in BOOLEAN
BY DEF TypeOK, Restore, Snapshot

-----------------------------------------------------------------------------
(* The type invariant.                                                     *)

\* A thread without arguments to pass, and one that does nothing, make a call.
LEMMA PlainCallType ==
  ASSUME NEW o \in {"idle", "shutdown", "pause", "resume"}
  PROVE  [op |-> o, arg |-> 0] \in Call
<1>1. 0 \in Arg /\ o \in Op
  BY BoundAssumption DEF Arg, Op, Request
<1>2. 0 \in Valid(o)
  BY DEF Valid
<1> QED
  BY <1>1, <1>2 DEF Call

LEMMA NobodyType == Nobody \in Call
BY PlainCallType DEF Nobody

LEMMA TypeInit == Init => TypeOK
<1> SUFFICES ASSUME Init PROVE TypeOK
  OBVIOUS
<1>1. 0 \in 0..MaxFrame /\ 0 \in 0..MaxRun /\ 0 \in 0..Depth /\ 0 \in 0..Depth-1
  BY BoundAssumption
<1>2. ring \in Ring
  BY <1>1 DEF Init, Ring
<1>3. machine \in Machine
  BY <1>1 DEF Init, Machine
<1>4. call \in [Ctl -> Call]
  BY NobodyType DEF Init
<1> QED
  BY <1>1, <1>2, <1>3, <1>4 DEF Init, TypeOK, Pc

\* What the program counters, the calls and the replies are assigned.
LEMMA GotoType ==
  ASSUME TypeOK, NEW t \in Ctl, NEW l \in Pc, Goto(t, l)
  PROVE  pc' \in [Ctl -> Pc]
BY DEF TypeOK, Goto

LEMMA ReturnType ==
  ASSUME TypeOK, NEW t \in Ctl, Return(t)
  PROVE  pc' \in [Ctl -> Pc] /\ call' \in [Ctl -> Call]
BY NobodyType DEF TypeOK, Return, Goto, Pc

LEMMA SucceedType ==
  ASSUME TypeOK, NEW running \in BOOLEAN, frame' \in 0..MaxFrame,
         Succeed(running)
  PROVE  reply' \in Reply
<1>1. call["mcp"].op \in Op
  BY DEF TypeOK, Ctl, Call
<1> QED
  BY <1>1 DEF Succeed, Reply

LEMMA FailType ==
  ASSUME NEW o \in Op, Fail(o)
  PROVE  reply' \in Reply
<1>1. 0 \in 0..MaxFrame
  BY BoundAssumption
<1> QED
  BY <1>1 DEF Fail, Reply

LEMMA ValidType ==
  ASSUME NEW o \in Request
  PROVE  Valid(o) \subseteq Arg
BY BoundAssumption DEF Valid, Arg, Request

LEMMA TypeNext == TypeOK /\ [Next]_vars => TypeOK'
<1> SUFFICES ASSUME TypeOK, [Next]_vars PROVE TypeOK'
  OBVIOUS
<1> USE DEF TypeOK, vars, workVars, emuVars, histVars, callVars, lifeVars
<1>m. "mcp" \in Ctl /\ "gui" \in Ctl
  BY DEF Ctl
<1>p. /\ {"idle", "pause", "join", "body", "frames", "report"} \subseteq Pc
      /\ {"stopGui", "done", "gone"} \subseteq Pc
  BY DEF Pc
<1>o. Request \subseteq Op /\ "shutdown" \in Op
  BY DEF Op
<1>r. {"pause", "resume", "run", "save", "load", "enable", "rewind"} \subseteq Request
  BY DEF Request
<1>1. CASE Accept
  <2>1. PICK o \in Requests, a \in Arg :
          /\ a \in Valid(o)
          /\ call' = [call EXCEPT !["mcp"] = [op |-> o, arg |-> a]]
          /\ Goto("mcp", IF PausingOp(o) THEN "pause" ELSE "body")
    BY <1>1, ValidType, BoundAssumption DEF Accept
  <2>2. [op |-> o, arg |-> a] \in Call
    BY <2>1, <1>o, BoundAssumption DEF Call
  <2>3. call' \in [Ctl -> Call]
    BY <2>1, <2>2
  <2>4. pc' \in [Ctl -> Pc]
    BY <2>1, <1>m, <1>p, GotoType
  <2> QED
    BY <1>1, <2>3, <2>4 DEF Accept
<1>2. CASE Reject
  <2>1. reply' \in Reply
    BY <1>2, <1>o, <1>r, FailType DEF Reject
  <2> QED
    BY <1>2, <2>1 DEF Reject
<1>3. CASE EndOfInput
  <2>1. pc' \in [Ctl -> Pc]
    BY <1>3, <1>m, <1>p, GotoType DEF EndOfInput
  <2> QED
    BY <1>3, <2>1 DEF EndOfInput
<1>4. ASSUME NEW t \in Ctl, PauseEnter(t) PROVE TypeOK'
  <2>1. pc' \in [Ctl -> Pc]
    BY <1>4, <1>p, GotoType DEF PauseEnter
  <2> QED
    BY <1>4, <2>1 DEF PauseEnter
<1>5. ASSUME NEW t \in Ctl, Join(t) PROVE TypeOK'
  <2>1. pc' \in [Ctl -> Pc]
    BY <1>5, <1>p, GotoType DEF Join
  <2> QED
    BY <1>5, <2>1 DEF Join
<1>6. ASSUME NEW t \in Ctl, Report(t) PROVE TypeOK'
  <2>1. reply' \in Reply \cup {NULL}
    BY <1>6, SucceedType DEF Report
  <2> QED
    BY <1>6, <2>1, ReturnType DEF Report
<1>7. ASSUME NEW t \in Ctl, Resume(t) PROVE TypeOK'
  <2>1. reply' \in Reply \cup {NULL}
    BY <1>7, <1>o, <1>r, SucceedType, FailType DEF Resume
  <2> QED
    BY <1>7, <2>1, ReturnType DEF Resume
<1>8. CASE RunEnter
  <2>1. pc' \in [Ctl -> Pc]
    BY <1>8, <1>m, <1>p, GotoType DEF RunEnter
  <2>2. call["mcp"].arg \in 0..MaxRun
    BY <1>8, <1>m, BoundAssumption DEF RunEnter, Call, Valid
  <2> QED
    BY <1>8, <2>1, <2>2 DEF RunEnter
<1>9. CASE FrameStep
  <2>1. left' \in 0..MaxRun
    BY <1>9, BoundAssumption DEF FrameStep
  <2> QED
    BY <1>9, <2>1, AdvanceType DEF FrameStep
<1>10. CASE RunLeave
  <2>1. CASE call["mcp"].op = "run"
    BY <1>10, <2>1, <1>m, ReturnType, SucceedType DEF RunLeave
  <2>2. CASE call["mcp"].op # "run"
    BY <1>10, <2>2, <1>m, <1>p, GotoType DEF RunLeave
  <2> QED
    BY <2>1, <2>2
<1>11. CASE Reset
  <2>1. frame' \in 0..MaxFrame /\ machine' \in Machine
    BY <1>11, BoundAssumption DEF Reset, Booted, Machine
  <2> QED
    BY <1>11, <2>1, <1>m, ReturnType, SucceedType DEF Reset
<1>12. CASE SaveState
  <2>1. reply' \in Reply
    BY <1>12, <1>o, <1>r, SucceedType, FailType DEF SaveState
  <2>2. saves' \in [Slot -> Snapshot \cup {NULL}]
    <3>1. call["mcp"].arg \in Slot
      BY <1>12, <1>m DEF SaveState, At, Call, Valid
    <3>2. Snap(frame, machine) \in Snapshot
      BY SnapType
    <3> QED
      BY <1>12, <3>1, <3>2 DEF SaveState
  <2> QED
    BY <1>12, <2>1, <2>2, <1>m, ReturnType DEF SaveState
<1>13. CASE LoadState
  <2>1. /\ frame' \in 0..MaxFrame /\ machine' \in Machine
        /\ primed' \in BOOLEAN /\ reply' \in Reply
    <3>1. CASE saves[call["mcp"].arg] \in Snapshot /\ Restore(saves[call["mcp"].arg])
               /\ Succeed(FALSE)
      BY <3>1, RestoreType, SucceedType
    <3>2. CASE UNCHANGED emuVars /\ Fail("load")
      BY <3>2, <1>o, <1>r, FailType
    <3>3. call["mcp"].arg \in Slot
      BY <1>13, <1>m DEF LoadState, At, Call, Valid
    <3>4. saves[call["mcp"].arg] \in Snapshot \cup {NULL}
      BY <3>3
    <3> QED
      BY <1>13, <3>1, <3>2, <3>4 DEF LoadState
  <2> QED
    BY <1>13, <2>1, <1>m, ReturnType DEF LoadState
<1>14. CASE RewindEnable
  <2>1. ring' \in Ring
    <3>1. call["mcp"].arg \in Intervals
      BY <1>14, <1>m DEF RewindEnable, At, Call, Valid
    <3> QED
      BY <1>14, <3>1, EnabledType DEF RewindEnable
  <2> QED
    BY <1>14, <2>1, <1>m, ReturnType, SucceedType DEF RewindEnable
<1>15. CASE RewindDisable
  <2>1. ring' \in Ring
    BY <1>15, DisabledType DEF RewindDisable
  <2> QED
    BY <1>15, <2>1, <1>m, ReturnType, SucceedType DEF RewindDisable
<1>16. CASE Rewind
  <2> DEFINE steps == call["mcp"].arg
             snap == ring.slot[RingIndex(ring, steps)]
  <2>1. /\ frame' \in 0..MaxFrame /\ machine' \in Machine
        /\ primed' \in BOOLEAN /\ ring' \in Ring /\ reply' \in Reply
    <3>1. CASE /\ steps \in 1..ring.count /\ snap # NULL /\ Restore(snap)
               /\ ring' = Rewound(ring, steps) /\ Succeed(resuming)
      <4>1. RingIndex(ring, steps) \in 0..Depth-1
        <5>1. ring.count \in Nat
          BY RingFields, BoundAssumption
        <5>2. steps \in Nat
          BY <3>1, <5>1
        <5> QED
          BY <5>2, RingIndexType
      <4>2. snap \in Snapshot
        BY <3>1, <4>1, RingFields
      <4> QED
        BY <3>1, <4>2, RestoreType, RewoundType, SucceedType
    <3>2. CASE UNCHANGED <<emuVars, ring>> /\ Fail("rewind")
      BY <3>2, <1>o, <1>r, FailType
    <3> QED
      BY <1>16, <3>1, <3>2 DEF Rewind
  <2> QED
    BY <1>16, <2>1, <1>m, ReturnType DEF Rewind
<1>17. ASSUME NEW w \in Worker, WorkerCheck(w) PROVE TypeOK'
  BY <1>17 DEF WorkerCheck
<1>18. ASSUME NEW w \in Worker, WorkerFrame(w) PROVE TypeOK'
  BY <1>18, AdvanceType DEF WorkerFrame
<1>19. CASE GuiF5
  <2>1. pc' \in [Ctl -> Pc]
    BY <1>19, <1>m, <1>p, GotoType DEF GuiF5
  <2> QED
    BY <1>19, <2>1, PlainCallType DEF GuiF5
<1>20. CASE GuiExit
  <2>1. pc' \in [Ctl -> Pc]
    BY <1>20, <1>m, <1>p, GotoType DEF GuiExit
  <2> QED
    BY <1>20, <2>1 DEF GuiExit
<1>21. CASE GuiJoined
  <2>1. pc' \in [Ctl -> Pc]
    BY <1>21, <1>m, <1>p, GotoType DEF GuiJoined
  <2> QED
    BY <1>21, <2>1, PlainCallType DEF GuiJoined
<1>22. CASE Shutdown
  <2>1. pc' \in [Ctl -> Pc]
    BY <1>22, <1>m, <1>p, GotoType DEF Shutdown
  <2> QED
    BY <1>22, <2>1 DEF Shutdown
<1>23. CASE UNCHANGED vars
  BY <1>23
<1> QED
  BY <1>1, <1>2, <1>3, <1>4, <1>5, <1>6, <1>7, <1>8, <1>9, <1>10, <1>11, <1>12,
     <1>13, <1>14, <1>15, <1>16, <1>17, <1>18, <1>19, <1>20, <1>21, <1>22, <1>23
  DEF Next, McpStep, GuiStep, WorkerStep, Finished, Ctl

\* Every variable keeps its type, whatever the threads do.
THEOREM TypeCorrect == Spec => []TypeOK
BY TypeInit, TypeNext, PTL DEF Spec

-----------------------------------------------------------------------------
(* Who runs the core and who owns the workers.  HandleOwned is not inductive *)
(* alone: that a new thread is nobody's needs the handles in use to denote   *)
(* threads that exist; that a taken handle is not overwritten needs it to be *)
(* held only while waiting; that nothing is touched after the shutdown needs *)
(* the order in which the session ends.                                      *)

HandleInUse ==
  /\ resumeThread # NULL => worker[resumeThread] # "none"
  /\ \A t \in Ctl : joining[t] # NULL =>
        worker[joining[t]] # "none" /\ pc[t] = "join"

Ending ==
  /\ call["mcp"].op = "shutdown" =>
       /\ pc["gui"] = "gone"
       /\ pc["mcp"] \in {"pause", "join", "body", "done"}
       /\ pc["mcp"] # "pause" => ~resuming
  /\ pc["mcp"] = "done" => call["mcp"].op = "shutdown"
  /\ freed => pc["mcp"] = "done"

Safe ==
  /\ CoreExclusive
  /\ lock # "gui"
  /\ HandleOwned
  /\ HandleInUse
  /\ PausedIsStill
  /\ Ending

LEMMA SafeInit == Init => Safe
BY WorkerAssumption
   DEF Init, Safe, CoreExclusive, HandleOwned, HandleInUse, PausedIsStill,
       Ending, Ctl, Nobody

LEMMA SafeNext == TypeOK /\ Safe /\ [Next]_vars => Safe'
<1> SUFFICES ASSUME TypeOK, Safe, [Next]_vars PROVE Safe'
  OBVIOUS
<1> USE WorkerAssumption
    DEF Safe, CoreExclusive, HandleOwned, HandleInUse, PausedIsStill, Ending,
        Ctl, vars, workVars, emuVars, histVars, callVars, lifeVars
<1>t. /\ lock \in {"free", "mcp", "gui"} \cup Worker
      /\ resuming \in BOOLEAN
      /\ resumeThread \in Worker \cup {NULL}
      /\ worker \in [Worker -> {"none", "top", "frame", "exited"}]
      /\ pc \in [Ctl -> Pc]
      /\ call \in [Ctl -> Call]
      /\ joining \in [Ctl -> Worker \cup {NULL}]
  BY DEF TypeOK
<1>1. CASE Accept
  BY <1>1, <1>t, BoundAssumption DEF Accept, Goto, Request
<1>2. CASE Reject
  BY <1>2, <1>t DEF Reject
<1>3. CASE EndOfInput
  BY <1>3, <1>t DEF EndOfInput, Goto
<1>4. ASSUME NEW t \in Ctl, PauseEnter(t) PROVE Safe'
  BY <1>4, <1>t DEF PauseEnter, Goto
<1>5. ASSUME NEW t \in Ctl, Join(t) PROVE Safe'
  BY <1>5, <1>t DEF Join, Goto
<1>6. ASSUME NEW t \in Ctl, Report(t) PROVE Safe'
  BY <1>6, <1>t DEF Report, Return, Goto, Nobody
<1>7. ASSUME NEW t \in Ctl, Resume(t) PROVE Safe'
  <2> USE <1>7, <1>t DEF Return, Goto, Nobody
  <2>0. /\ pc[t] = "body" /\ call[t].op = "resume"
        /\ pc' = [pc EXCEPT ![t] = "idle"]
        /\ call' = [call EXCEPT ![t] = [op |-> "idle", arg |-> 0]]
        /\ UNCHANGED <<lock, joining, freed>>
    BY DEF Resume, At
  <2>1. CASE UNCHANGED <<resuming, resumeThread, worker>>
    BY <2>0, <2>1
  <2>2. CASE ~resuming /\ resuming' /\ \E w \in Worker :
                /\ worker[w] = "none"
                /\ worker' = [worker EXCEPT ![w] = "top"]
                /\ resumeThread' = w
    <3>1. PICK w \in Worker : /\ worker[w] = "none"
                              /\ worker' = [worker EXCEPT ![w] = "top"]
                              /\ resumeThread' = w
      BY <2>2
    <3>2. resumeThread = NULL
      BY <2>2
    <3>3. \A u \in Ctl : joining[u] # w
      BY <3>1
    <3>4. CoreExclusive' /\ PausedIsStill' /\ (lock # "gui")'
      BY <2>0, <2>2, <3>1
    <3>5. HandleOwned'
      BY <2>0, <2>2, <3>1, <3>2, <3>3
    <3>6. HandleInUse'
      BY <2>0, <3>1
    <3>7. Ending'
      BY <2>0, <3>1
    <3> QED
      BY <3>4, <3>5, <3>6, <3>7
  <2> QED
    BY <2>1, <2>2 DEF Resume
<1>8. CASE RunEnter
  BY <1>8, <1>t DEF RunEnter, Goto
<1>9. CASE FrameStep
  BY <1>9, <1>t DEF FrameStep
<1>10. CASE RunLeave
  BY <1>10, <1>t DEF RunLeave, Return, Goto, Nobody
<1>11. CASE Reset
  BY <1>11, <1>t DEF Reset, Return, Goto, Nobody, At
<1>12. CASE SaveState
  BY <1>12, <1>t DEF SaveState, Return, Goto, Nobody, At
<1>13. CASE LoadState
  BY <1>13, <1>t DEF LoadState, Return, Goto, Nobody, At
<1>14. CASE RewindEnable
  BY <1>14, <1>t DEF RewindEnable, Return, Goto, Nobody, At
<1>15. CASE RewindDisable
  BY <1>15, <1>t DEF RewindDisable, Return, Goto, Nobody, At
<1>16. CASE Rewind
  BY <1>16, <1>t DEF Rewind, Return, Goto, Nobody, At
<1>17. ASSUME NEW w \in Worker, WorkerCheck(w) PROVE Safe'
  BY <1>17, <1>t DEF WorkerCheck
<1>18. ASSUME NEW w \in Worker, WorkerFrame(w) PROVE Safe'
  BY <1>18, <1>t DEF WorkerFrame
<1>19. CASE GuiF5
  BY <1>19, <1>t DEF GuiF5, Goto
<1>20. CASE GuiExit
  BY <1>20, <1>t DEF GuiExit, Goto
<1>21. CASE GuiJoined
  BY <1>21, <1>t DEF GuiJoined, Goto
<1>22. CASE Shutdown
  BY <1>22, <1>t DEF Shutdown, Goto, At
<1>23. CASE UNCHANGED vars
  BY <1>23
<1> QED
  BY <1>1, <1>2, <1>3, <1>4, <1>5, <1>6, <1>7, <1>8, <1>9, <1>10, <1>11, <1>12,
     <1>13, <1>14, <1>15, <1>16, <1>17, <1>18, <1>19, <1>20, <1>21, <1>22, <1>23
  DEF Next, McpStep, GuiStep, WorkerStep, Finished

LEMMA SafeQuiet == TypeOK /\ Safe => FreedIsQuiet
<1> SUFFICES ASSUME TypeOK, Safe, freed PROVE FreedIsQuiet
  BY DEF FreedIsQuiet
<1>1. pc["mcp"] = "done" /\ pc["gui"] = "gone" /\ ~resuming
  BY DEF Safe, Ending
<1>2. \A w \in Worker : worker[w] = "none"
  BY <1>1, WorkerAssumption
  DEF Safe, HandleOwned, HandleInUse, Ctl
<1> QED
  BY <1>1, <1>2 DEF Safe, CoreExclusive, TypeOK, FreedIsQuiet

LEMMA SafeAlways == Spec => [](TypeOK /\ Safe)
<1>1. Init => TypeOK /\ Safe
  BY TypeInit, SafeInit
<1>2. TypeOK /\ Safe /\ [Next]_vars => (TypeOK /\ Safe)'
  BY TypeNext, SafeNext
<1> QED
  BY <1>1, <1>2, PTL DEF Spec

\* Two threads are never inside the core, with or without a window.
THEOREM CoreIsExclusive == Spec => []CoreExclusive
<1>1. TypeOK /\ Safe => CoreExclusive
  BY DEF Safe
<1> QED
  BY <1>1, SafeAlways, PTL

\* No worker is leaked and no handle is waited for twice.
THEOREM HandlesAreOwned == Spec => []HandleOwned
<1>1. TypeOK /\ Safe => HandleOwned
  BY DEF Safe
<1> QED
  BY <1>1, SafeAlways, PTL

\* No frame runs while the machine is paused.
THEOREM PausedMachineIsStill == Spec => []PausedIsStill
<1>1. TypeOK /\ Safe => PausedIsStill
  BY DEF Safe
<1> QED
  BY <1>1, SafeAlways, PTL

\* The control structure is not used after it is freed.
THEOREM NoUseAfterShutdown == Spec => []FreedIsQuiet
BY SafeQuiet, SafeAlways, PTL

-----------------------------------------------------------------------------
(* Frame labels.  Before the first frame everything is at frame 0: the frame *)
(* that the core spends on its initialization is lost at most once.          *)

Unstarted ==
  ~primed => /\ frame = 0
             /\ \A s \in Slot : saves[s] # NULL => saves[s].frame = 0
             /\ \A i \in 0..Depth-1 : ring.slot[i] = NULL

Labelled == FrameIsPosition /\ Unstarted

LEMMA LabelInit == Init => Labelled
<1> SUFFICES ASSUME Init PROVE Labelled
  OBVIOUS
<1>1. Depth \in Nat \ {0}
  BY BoundAssumption
<1> QED
  BY <1>1 DEF Init, Labelled, FrameIsPosition, Unstarted, LabelFits, Snap

\* A frame keeps the label with the machine, in the ring as well.
LEMMA LabelAdvance ==
  ASSUME TypeOK, Labelled, AdvanceFrame, UNCHANGED saves
  PROVE  Labelled'
<1>1. LabelFits(Snap(frame, machine))'
  BY BoundAssumption
  DEF TypeOK, Labelled, FrameIsPosition, Unstarted, LabelFits, Snap,
      AdvanceFrame, Executed, Booted, Tick, Machine
<1>2. \A i \in 0..Depth-1 : ring'.slot[i] # NULL =>
         ring'.slot[i] = ring.slot[i] \/ ring'.slot[i] = Snap(frame', machine')
  <2>1. CASE ring' = Captured(ring, frame', machine')
    BY <2>1, RingFields DEF Captured, TypeOK, Ring
  <2>2. CASE ring' = ring
    BY <2>2
  <2> QED
    BY <2>1, <2>2 DEF AdvanceFrame
<1>3. FrameIsPosition'
  BY <1>1, <1>2 DEF Labelled, FrameIsPosition, LabelFits, Snap
<1>4. Unstarted'
  BY DEF Unstarted, AdvanceFrame
<1> QED
  BY <1>3, <1>4 DEF Labelled

\* Restoring a labelled state restores the label.
LEMMA LabelRestore ==
  ASSUME Labelled, NEW snap, LabelFits(snap), ~primed => snap.frame = 0,
         Restore(snap), UNCHANGED saves, ring'.slot = ring.slot
  PROVE  Labelled'
BY DEF Labelled, FrameIsPosition, Unstarted, LabelFits, Snap, Restore

LEMMA LabelNext == TypeOK /\ Labelled /\ [Next]_vars => Labelled'
<1> SUFFICES ASSUME TypeOK, Labelled, [Next]_vars PROVE Labelled'
  OBVIOUS
<1> USE DEF emuVars, histVars
<1>m. "mcp" \in Ctl
  BY DEF Ctl
<1>1. CASE UNCHANGED <<emuVars, histVars>>
  BY <1>1 DEF Labelled, FrameIsPosition, Unstarted, LabelFits, Snap
<1>2. CASE AdvanceFrame /\ UNCHANGED saves
  BY <1>2, LabelAdvance
<1>3. CASE Reset
  BY <1>3 DEF Reset, Labelled, FrameIsPosition, Unstarted, LabelFits, Snap, Booted
<1>4. CASE SaveState
  <2>1. call["mcp"].arg \in Slot
    BY <1>4, <1>m DEF SaveState, At, TypeOK, Call, Valid
  <2>2. CASE saves' = [saves EXCEPT ![call["mcp"].arg] = Snap(frame, machine)]
             /\ UNCHANGED <<emuVars, ring>>
    BY <2>1, <2>2
    DEF TypeOK, Labelled, FrameIsPosition, Unstarted, LabelFits, Snap
  <2> QED
    BY <1>1, <1>4, <2>2 DEF SaveState
<1>5. CASE LoadState
  <2>1. call["mcp"].arg \in Slot
    BY <1>5, <1>m DEF LoadState, At, TypeOK, Call, Valid
  <2>2. CASE saves[call["mcp"].arg] # NULL /\ Restore(saves[call["mcp"].arg])
             /\ UNCHANGED histVars
    BY <2>1, <2>2, LabelRestore DEF Labelled, FrameIsPosition, Unstarted
  <2> QED
    BY <1>1, <1>5, <2>2 DEF LoadState
<1>6. CASE RewindEnable
  <2>1. ring'.slot = ring.slot
    BY <1>6 DEF RewindEnable, Enabled, TypeOK, Ring
  <2> QED
    BY <1>6, <2>1
    DEF RewindEnable, Labelled, FrameIsPosition, Unstarted, LabelFits, Snap
<1>7. CASE RewindDisable
  <2>1. \A i \in 0..Depth-1 : ring'.slot[i] = NULL
    BY <1>7 DEF RewindDisable, Disabled, TypeOK, Ring
  <2> QED
    BY <1>7, <2>1
    DEF RewindDisable, Labelled, FrameIsPosition, Unstarted, LabelFits, Snap
<1>8. CASE Rewind
  <2> DEFINE steps == call["mcp"].arg
             i == RingIndex(ring, steps)
  <2>1. CASE /\ steps \in 1..ring.count /\ ring.slot[i] # NULL
             /\ Restore(ring.slot[i]) /\ ring' = Rewound(ring, steps)
             /\ UNCHANGED saves
    <3>1. ring.count \in Nat
      BY RingFields, BoundAssumption DEF TypeOK
    <3>2. i \in 0..Depth-1
      BY <2>1, <3>1, RingIndexType DEF TypeOK
    <3>3. ring'.slot = ring.slot
      BY <2>1 DEF Rewound, TypeOK, Ring
    <3>4. LabelFits(ring.slot[i]) /\ primed
      BY <2>1, <3>2 DEF Labelled, FrameIsPosition, Unstarted, TypeOK
    <3> QED
      BY <2>1, <3>3, <3>4, LabelRestore
  <2> QED
    BY <1>1, <1>8, <2>1 DEF Rewind
<1> QED
  BY <1>1, <1>2, <1>3, <1>4, <1>5, <1>6, <1>7, <1>8
  DEF Next, McpStep, GuiStep, WorkerStep, Finished, vars, Accept, Reject,
      EndOfInput, PauseEnter, Join, Report, Resume, RunEnter, FrameStep,
      RunLeave, GuiF5, GuiExit, GuiJoined, Shutdown, WorkerCheck, WorkerFrame

\* The frame number tells the machine's position to within the one frame the
\* core initializes in, live and in every state that is kept.
THEOREM LabelsFit == Spec => []FrameIsPosition
<1>1. Init => TypeOK /\ Labelled
  BY TypeInit, LabelInit
<1>2. TypeOK /\ Labelled /\ [Next]_vars => (TypeOK /\ Labelled)'
  BY TypeNext, LabelNext
<1>3. TypeOK /\ Labelled => FrameIsPosition
  BY DEF Labelled
<1> QED
  BY <1>1, <1>2, <1>3, PTL DEF Spec

-----------------------------------------------------------------------------
(* Without a window nobody can resume behind the MCP thread's back: from     *)
(* pause_and_join to the reply the machine stays paused.                     *)

HeadlessPaused ==
  /\ pc["gui"] = "gone"
  /\ pc["mcp"] \in {"frames", "report"} => PausingOp(call["mcp"].op)
  /\ (pc["mcp"] \in {"join", "body", "frames", "report"}
        /\ PausingOp(call["mcp"].op)) => ~resuming
  /\ (pc["mcp"] = "idle" /\ reply # NULL /\ reply.ok /\ PausingOp(reply.op)) =>
        ~resuming /\ ~reply.running

LEMMA HeadlessInit == ~Window /\ Init => HeadlessPaused /\ NoSpeedWrap
BY DEF Init, HeadlessPaused, NoSpeedWrap, Ctl

LEMMA HeadlessNext ==
  TypeOK /\ Safe /\ HeadlessPaused /\ [Next]_vars => HeadlessPaused'
<1> SUFFICES ASSUME TypeOK, Safe, HeadlessPaused, [Next]_vars
             PROVE HeadlessPaused'
  OBVIOUS
<1> USE DEF HeadlessPaused, Ctl, vars, workVars, emuVars, histVars, callVars,
            lifeVars
<1>t. pc \in [Ctl -> Pc] /\ call \in [Ctl -> Call] /\ resuming \in BOOLEAN
  BY DEF TypeOK
<1>g. pc["gui"] = "gone" /\ "mcp" # "gui"
  OBVIOUS
<1>1. CASE Accept
  BY <1>1, <1>t DEF Accept, Goto
<1>2. CASE Reject
  BY <1>2, <1>t DEF Reject, Fail
<1>3. CASE EndOfInput
  BY <1>3, <1>t DEF EndOfInput, Goto
<1>4. ASSUME NEW t \in Ctl, PauseEnter(t) PROVE HeadlessPaused'
  BY <1>4, <1>t DEF PauseEnter, Goto
<1>5. ASSUME NEW t \in Ctl, Join(t) PROVE HeadlessPaused'
  BY <1>5, <1>t DEF Join, Goto
<1>6. ASSUME NEW t \in Ctl, Report(t) PROVE HeadlessPaused'
  <2>1. t = "mcp" /\ pc' = [pc EXCEPT !["mcp"] = "idle"]
        /\ reply' = [op |-> call["mcp"].op, ok |-> TRUE, running |-> resuming,
                     frame |-> frame']
        /\ UNCHANGED resuming
        /\ pc["mcp"] \in {"body", "report"}
    BY <1>6, <1>t, WorkerAssumption DEF Report, Return, Goto, Succeed
  <2> QED
    BY <2>1, <1>t, <1>g
<1>7. ASSUME NEW t \in Ctl, Resume(t) PROVE HeadlessPaused'
  BY <1>7, <1>t DEF Resume, Return, Goto, At, Succeed, Fail, PausingOp
<1>8. CASE RunEnter
  BY <1>8, <1>t DEF RunEnter, Goto, PausingOp
<1>9. CASE FrameStep
  BY <1>9, <1>t DEF FrameStep
<1>10. CASE RunLeave
  BY <1>10, <1>t DEF RunLeave, Return, Goto, Succeed
<1>11. CASE Reset
  BY <1>11, <1>t DEF Reset, Return, Goto, Succeed, At, PausingOp
<1>12. CASE SaveState
  BY <1>12, <1>t DEF SaveState, Return, Goto, Succeed, Fail, At, PausingOp
<1>13. CASE LoadState
  BY <1>13, <1>t DEF LoadState, Return, Goto, Succeed, Fail, At, PausingOp
<1>14. CASE RewindEnable
  BY <1>14, <1>t DEF RewindEnable, Return, Goto, Succeed, At, PausingOp
<1>15. CASE RewindDisable
  BY <1>15, <1>t DEF RewindDisable, Return, Goto, Succeed, At, PausingOp
<1>16. CASE Rewind
  BY <1>16, <1>t DEF Rewind, Return, Goto, Succeed, Fail, At, PausingOp
<1>17. ASSUME NEW w \in Worker, WorkerCheck(w) PROVE HeadlessPaused'
  BY <1>17, <1>t DEF WorkerCheck
<1>18. ASSUME NEW w \in Worker, WorkerFrame(w) PROVE HeadlessPaused'
  BY <1>18, <1>t DEF WorkerFrame
<1>19. CASE GuiF5 \/ GuiExit
  BY <1>19 DEF GuiF5, GuiExit
<1>20. CASE GuiJoined
  BY <1>20, <1>t DEF GuiJoined, Goto
<1>21. CASE Shutdown
  BY <1>21, <1>t DEF Shutdown, Goto
<1>22. CASE UNCHANGED vars
  BY <1>22
<1> QED
  BY <1>1, <1>2, <1>3, <1>4, <1>5, <1>6, <1>7, <1>8, <1>9, <1>10, <1>11, <1>12,
     <1>13, <1>14, <1>15, <1>16, <1>17, <1>18, <1>19, <1>20, <1>21, <1>22
  DEF Next, McpStep, GuiStep, WorkerStep, Finished

\* Only reset, load_state and rewind move the frame counter backwards, and
\* they run while no session does.
LEMMA SpeedNext ==
  TypeOK /\ HeadlessPaused /\ NoSpeedWrap /\ [Next]_vars => NoSpeedWrap'
<1> SUFFICES ASSUME TypeOK, HeadlessPaused, NoSpeedWrap, [Next]_vars
             PROVE NoSpeedWrap'
  OBVIOUS
<1> USE DEF NoSpeedWrap, vars, workVars, emuVars
<1>t. frame \in 0..MaxFrame /\ speedStart \in 0..MaxFrame /\ resuming \in BOOLEAN
  BY DEF TypeOK
<1>1. CASE AdvanceFrame /\ UNCHANGED <<resuming, speedStart>>
  <2>1. frame' >= frame
    BY <1>1, <1>t, BoundAssumption DEF AdvanceFrame, Tick
  <2> QED
    BY <1>1, <2>1, <1>t, BoundAssumption DEF AdvanceFrame, Tick
<1>2. CASE UNCHANGED <<frame, resuming, speedStart>>
  BY <1>2
<1>3. CASE \E o \in {"reset", "load", "rewind"} :
             At("mcp", "body", o) /\ UNCHANGED resuming
  BY <1>3 DEF At, HeadlessPaused, PausingOp
<1>4. ASSUME NEW t \in Ctl, PauseEnter(t) PROVE NoSpeedWrap'
  BY <1>4 DEF PauseEnter
<1>5. ASSUME NEW t \in Ctl, Resume(t) PROVE NoSpeedWrap'
  <2>1. CASE UNCHANGED <<frame, resuming, speedStart>>
    BY <2>1
  <2>2. CASE UNCHANGED frame /\ speedStart' = frame
    <3>1. frame \in Int
      BY <1>t, BoundAssumption
    <3> QED
      BY <2>2, <3>1
  <2> QED
    BY <1>5, <2>1, <2>2 DEF Resume
<1> QED
  BY <1>1, <1>2, <1>3, <1>4, <1>5
  DEF Next, McpStep, GuiStep, WorkerStep, Finished, Accept, Reject, EndOfInput,
      Join, Report, RunEnter, FrameStep, RunLeave, Reset, SaveState, LoadState,
      RewindEnable, RewindDisable, Rewind, GuiF5, GuiExit, GuiJoined, Shutdown,
      WorkerCheck, WorkerFrame, Ctl, histVars, callVars, lifeVars

HeadlessInv == TypeOK /\ Safe /\ HeadlessPaused /\ NoSpeedWrap

LEMMA HeadlessAlways ==
  ASSUME ~Window
  PROVE  Spec => []HeadlessInv
<1>1. Init => HeadlessInv
  BY TypeInit, SafeInit, HeadlessInit DEF HeadlessInv
<1>2. HeadlessInv /\ [Next]_vars => HeadlessInv'
  BY TypeNext, SafeNext, HeadlessNext, SpeedNext DEF HeadlessInv
<1> QED
  BY <1>1, <1>2, PTL DEF Spec

LEMMA PausedWhenAnswered == HeadlessInv => SynchronouslyPaused
<1> SUFFICES ASSUME HeadlessInv, reply # NULL, pc["mcp"] = "idle", reply.ok,
                    PausingOp(reply.op)
             PROVE  ~resuming /\ Live = {} /\ ~reply.running
  BY DEF SynchronouslyPaused
<1>1. ~resuming /\ ~reply.running /\ pc["gui"] = "gone"
  BY DEF HeadlessInv, HeadlessPaused
<1>2. \A w \in Worker : worker[w] = "none"
  BY <1>1, WorkerAssumption
  DEF HeadlessInv, Safe, HandleOwned, HandleInUse, Ctl
<1> QED
  BY <1>1, <1>2 DEF Live

\* Without a window, a reply to a pausing request finds no session and no
\* worker left.
THEOREM HeadlessRepliesPaused ==
  ASSUME ~Window
  PROVE  Spec => []SynchronouslyPaused
BY PausedWhenAnswered, HeadlessAlways, PTL

\* Without a window, the speed of a session is never taken of a negative
\* number of frames.
THEOREM HeadlessSpeedIsSane ==
  ASSUME ~Window
  PROVE  Spec => []NoSpeedWrap
<1>1. HeadlessInv => NoSpeedWrap
  BY DEF HeadlessInv
<1> QED
  BY <1>1, HeadlessAlways, PTL

LEMMA TruthfulStep ==
  HeadlessInv /\ [Next]_vars =>
    [(reply' # reply /\ reply' # NULL /\ reply'.ok) =>
       reply'.frame = frame' /\ reply'.running = resuming']_vars
<1> SUFFICES ASSUME HeadlessInv, [Next]_vars,
                    reply' # reply, reply' # NULL, reply'.ok
             PROVE  reply'.frame = frame' /\ reply'.running = resuming'
  OBVIOUS
<1>i. /\ TypeOK
      /\ (pc["mcp"] = "body" /\ PausingOp(call["mcp"].op)) => ~resuming
  BY DEF HeadlessInv, HeadlessPaused
<1>t. resuming \in BOOLEAN
  BY <1>i DEF TypeOK
<1>1. CASE UNCHANGED resuming /\ Succeed(resuming)
  BY <1>1 DEF Succeed
<1>2. CASE ~resuming /\ UNCHANGED resuming /\ Succeed(FALSE)
  BY <1>2, <1>t DEF Succeed
<1>3. CASE resuming' = TRUE /\ Succeed(TRUE)
  BY <1>3 DEF Succeed
<1>4. CASE \E o \in Op : Fail(o)
  BY <1>4 DEF Fail
<1>5. CASE SaveState \/ LoadState
  <2>1. ~resuming /\ UNCHANGED resuming
    BY <1>5, <1>i DEF SaveState, LoadState, At, PausingOp, workVars
  <2> QED
    BY <1>2, <1>4, <1>5, <2>1 DEF SaveState, LoadState, Op, Request
<1>6. ASSUME NEW t \in Ctl, Resume(t) PROVE reply'.frame = frame' /\ reply'.running = resuming'
  BY <1>3, <1>4, <1>6, <1>t DEF Resume, Op, Request
<1>7. ASSUME NEW t \in Ctl, Report(t) PROVE reply'.frame = frame' /\ reply'.running = resuming'
  BY <1>1, <1>7 DEF Report, workVars
<1>8. CASE Rewind \/ Reset \/ RewindEnable \/ RewindDisable \/ RunLeave \/ Reject
  BY <1>1, <1>4, <1>8, BoundAssumption
  DEF Rewind, Reset, RewindEnable, RewindDisable, RunLeave, Reject, workVars,
      Op, Request
<1> QED
  BY <1>5, <1>6, <1>7, <1>8
  DEF Next, McpStep, GuiStep, WorkerStep, Finished, Accept, EndOfInput,
      PauseEnter, Join, RunEnter, FrameStep, GuiF5, GuiExit, GuiJoined,
      Shutdown, WorkerCheck, WorkerFrame, Ctl, vars, callVars

\* Without a window, every reply tells the frame and the state of its moment.
THEOREM HeadlessRepliesTruthful ==
  ASSUME ~Window
  PROVE  Spec => ReplyTruthful
BY TruthfulStep, HeadlessAlways, PTL DEF Spec, ReplyTruthful
=============================================================================
