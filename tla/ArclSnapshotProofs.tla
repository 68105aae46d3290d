------------------------- MODULE ArclSnapshotProofs -------------------------
(***************************************************************************)
(* Theorems about ArclSnapshot without a window, for every table size,     *)
(* every set of names and every client.                                    *)
(*                                                                         *)
(* The handler works outside the control's critical sections.  What makes  *)
(* it safe is that its thread has paused the machine and nobody else can   *)
(* resume it, so the invariants of the execution control without a window  *)
(* carry over, and every step that the control takes while the handler is  *)
(* at work leaves the machine and its histories alone.                     *)
(***************************************************************************)
EXTENDS ArclSnapshot, ArclControlProofs

SnapTypeOK ==
  /\ snaps \in [Entries -> Entry]
  /\ tool \in Tool \cup {NULL}

\* Where the handler is tells where the machine is: not moved since it was
\* read, and equal to the blob on the way from the blob to the label.
ToolAtWork ==
  tool # NULL =>
    /\ pc["mcp"] \in {"pause", "join", "body", "frames", "report"}
    /\ call["mcp"].op = "advance"
    /\ tool.stage # "core" => pc["mcp"] = "report"
    /\ tool.action = "restore" =>
         snaps[tool.entry].in_use /\ tool.stage # "copy"
    /\ tool.stage = "copy" => machine = tool.seen
    /\ tool.stage = "label" => machine = snaps[tool.entry].machine

Halfway(a) == tool # NULL /\ tool.stage = "label" /\ tool.action = a

\* An entry is exempt between its blob and its label, the machine between the
\* blob it was given and the frame number.
EntriesFit ==
  \A e \in Entries :
    snaps[e].in_use /\ ~(Halfway("create") /\ tool.entry = e) =>
      /\ LabelFits(Snap(snaps[e].frame, snaps[e].machine))
      /\ ~primed => snaps[e].frame = 0

HistoryFits ==
  /\ \A s \in Slot : saves[s] # NULL => LabelFits(saves[s])
  /\ \A i \in 0..Depth-1 : ring.slot[i] # NULL => LabelFits(ring.slot[i])

MachineFits ==
  /\ HistoryFits
  /\ Unstarted
  /\ ~Halfway("restore") => LabelFits(Snap(frame, machine))

SnapInv ==
  /\ HeadlessInv
  /\ SnapTypeOK
  /\ ToolAtWork
  /\ EntriesFit
  /\ MachineFits
  /\ \A e \in Entries : ~snaps[e].torn

LEMMA MachineIsLabelled ==
  ASSUME MachineFits, ~Halfway("restore")
  PROVE  Labelled
BY DEF MachineFits, HistoryFits, Labelled, FrameIsPosition

LEMMA EmptyType == Empty \in Entry /\ Empty.machine \in Machine
BY BoundAssumption DEF Empty, Entry, Machine

LEMMA SnapInvInit == ~Window /\ SnapInit => SnapInv
<1> SUFFICES ASSUME ~Window, SnapInit PROVE SnapInv
  OBVIOUS
<1>1. HeadlessInv
  BY TypeInit, SafeInit, HeadlessInit DEF SnapInit, HeadlessInv
<1>2. Labelled
  BY LabelInit DEF SnapInit
<1>3. \A e \in Entries : snaps[e] = Empty
  BY DEF SnapInit
<1>4. SnapTypeOK
  BY EmptyType DEF SnapInit, SnapTypeOK
<1>5. EntriesFit /\ ToolAtWork /\ \A e \in Entries : ~snaps[e].torn
  BY <1>3 DEF SnapInit, EntriesFit, ToolAtWork, Empty
<1> QED
  BY <1>1, <1>2, <1>4, <1>5
  DEF SnapInv, MachineFits, HistoryFits, Labelled, FrameIsPosition

-----------------------------------------------------------------------------
(* The execution control, while the handler is somewhere in the middle.     *)

\* The core's first retro_run() is behind it for good.
LEMMA PrimedStays ==
  ASSUME TypeOK, [Next]_vars
  PROVE  primed => primed'
BY DEF TypeOK, Next, McpStep, GuiStep, WorkerStep, Finished, vars, Accept,
       Reject, EndOfInput, PauseEnter, Join, Report, Resume, RunEnter,
       FrameStep, RunLeave, Reset, SaveState, LoadState, RewindEnable,
       RewindDisable, Rewind, GuiF5, GuiExit, GuiJoined, Shutdown,
       WorkerCheck, WorkerFrame, AdvanceFrame, Restore, emuVars

\* Between run_frames and the reply no worker is inside a frame.
LEMMA NobodyInFrame ==
  ASSUME HeadlessInv, pc["mcp"] = "report"
  PROVE  \A w \in Worker : worker[w] # "frame"
BY DEF HeadlessInv, HeadlessPaused, Safe, PausedIsStill

\* And nothing that the control does then moves the machine.
LEMMA HandlerIsAlone ==
  ASSUME HeadlessInv, pc["mcp"] = "report", [Next]_vars
  PROVE  UNCHANGED <<emuVars, histVars>>
<1>1. \A w \in Worker : ~WorkerFrame(w)
  BY NobodyInFrame DEF WorkerFrame
<1> QED
  BY <1>1
  DEF Next, McpStep, GuiStep, WorkerStep, Finished, vars, Accept, Reject,
      EndOfInput, PauseEnter, Join, Report, Resume, RunEnter, FrameStep,
      RunLeave, Reset, SaveState, LoadState, RewindEnable, RewindDisable,
      Rewind, GuiF5, GuiExit, GuiJoined, Shutdown, WorkerCheck, At

\* The call that precedes the handler runs its course.
LEMMA CallRunsItsCourse ==
  ASSUME HeadlessInv, [Next]_vars, call["mcp"].op = "advance",
         pc["mcp"] \in {"pause", "join", "body", "frames", "report"},
         pc'["mcp"] # "idle"
  PROVE  /\ call'["mcp"].op = "advance"
         /\ pc'["mcp"] \in {"pause", "join", "body", "frames", "report"}
         /\ pc["mcp"] = "report" => pc'["mcp"] = "report"
<1>t. /\ pc \in [Ctl -> Pc] /\ call \in [Ctl -> Call]
      /\ "mcp" \in Ctl /\ "gui" \in Ctl /\ "mcp" # "gui"
  BY DEF HeadlessInv, TypeOK, Ctl
<1> USE <1>t DEF callVars
<1>1. ASSUME NEW t \in Ctl, PauseEnter(t) \/ Join(t) \/ Report(t) \/ Resume(t)
      PROVE  /\ call'["mcp"].op = "advance"
             /\ pc'["mcp"] \in {"pause", "join", "body", "frames", "report"}
             /\ pc["mcp"] = "report" => pc'["mcp"] = "report"
  BY <1>1 DEF PauseEnter, Join, Report, Resume, Goto, Return, At
<1>2. CASE RunEnter \/ FrameStep \/ RunLeave
  BY <1>2 DEF RunEnter, FrameStep, RunLeave, Goto, Return
<1>3. CASE GuiF5 \/ GuiExit
  BY <1>3 DEF GuiF5, GuiExit, HeadlessInv, HeadlessPaused
<1>4. CASE UNCHANGED <<pc, call>>
  BY <1>4
<1> QED
  BY <1>1, <1>2, <1>3, <1>4
  DEF Next, McpStep, GuiStep, WorkerStep, Finished, vars, Accept, Reject,
      EndOfInput, Reset, SaveState, LoadState, RewindEnable, RewindDisable,
      Rewind, GuiJoined, Shutdown, WorkerCheck, WorkerFrame, At

LEMMA HeadlessControl ==
  ASSUME HeadlessInv, [Next]_vars
  PROVE  HeadlessInv'
BY TypeNext, SafeNext, HeadlessNext, SpeedNext DEF HeadlessInv

LEMMA ControlKeeps ==
  ASSUME SnapInv, Control(Next)
  PROVE  SnapInv'
<1> USE DEF SnapInv
<1>1. /\ [Next]_vars
      /\ UNCHANGED snaps
      /\ tool' = tool \/ tool' = NULL
      /\ tool' # NULL => pc'["mcp"] # "idle"
      /\ (tool # NULL /\ tool.stage # "status" /\ pc["mcp"] = "report") =>
            pc'["mcp"] = "report"
  BY DEF Control, Handling
<1>2. HeadlessInv'
  BY <1>1, HeadlessControl
<1>3. SnapTypeOK'
  BY <1>1 DEF SnapTypeOK
<1>4. ASSUME tool' # NULL PROVE ToolAtWork'
  <2>1. tool' = tool /\ tool # NULL
    BY <1>1, <1>4
  <2>2. /\ call'["mcp"].op = "advance"
        /\ pc'["mcp"] \in {"pause", "join", "body", "frames", "report"}
        /\ pc["mcp"] = "report" => pc'["mcp"] = "report"
    BY <1>1, <2>1, CallRunsItsCourse DEF ToolAtWork
  <2>3. tool.stage # "core" => UNCHANGED <<emuVars, histVars>>
    BY <1>1, <2>1, HandlerIsAlone DEF ToolAtWork
  <2> QED
    BY <1>1, <2>1, <2>2, <2>3 DEF ToolAtWork, emuVars
<1>5. ToolAtWork'
  BY <1>4 DEF ToolAtWork
<1>6. primed => primed'
  BY <1>1, PrimedStays DEF HeadlessInv
<1>7. Halfway("create") => Halfway("create")' /\ tool' = tool
  <2> SUFFICES ASSUME Halfway("create") PROVE tool' = tool
    BY DEF Halfway
  <2>1. pc["mcp"] = "report" /\ tool # NULL /\ tool.stage = "label"
    BY DEF Halfway, ToolAtWork
  <2>2. pc'["mcp"] = "report"
    BY <1>1, <2>1
  <2> QED
    BY <2>2 DEF Control
<1>8. EntriesFit'
  BY <1>1, <1>6, <1>7 DEF EntriesFit, Halfway, LabelFits, Snap
<1>9. MachineFits'
  <2>1. CASE Halfway("restore")
    <3>1. pc["mcp"] = "report" /\ tool # NULL /\ tool.stage = "label"
      BY <2>1 DEF Halfway, ToolAtWork
    <3>2. tool' = tool
      BY <1>1, <3>1 DEF Control
    <3>3. UNCHANGED <<emuVars, histVars>>
      BY <1>1, <3>1, HandlerIsAlone
    <3> QED
      BY <2>1, <3>2, <3>3
      DEF MachineFits, HistoryFits, Unstarted, Halfway, LabelFits, emuVars,
          histVars
  <2>2. CASE ~Halfway("restore")
    <3>1. Labelled'
      BY <1>1, <2>2, MachineIsLabelled, LabelNext DEF HeadlessInv
    <3> QED
      BY <3>1 DEF MachineFits, HistoryFits, Labelled, FrameIsPosition
  <2> QED
    BY <2>1, <2>2
<1>10. \A e \in Entries : ~snaps'[e].torn
  BY <1>1
<1> QED
  BY <1>2, <1>3, <1>5, <1>8, <1>9, <1>10

-----------------------------------------------------------------------------
(* The requests of the snapshot tools.  To the control, taking up create,   *)
(* restore or delete is a request like any other.                           *)

\* The MCP thread, idle, takes up a call.
TakesUp(o, l) ==
  /\ pc["mcp"] = "idle"
  /\ call' = [call EXCEPT !["mcp"] = [op |-> o, arg |-> 0]]
  /\ Goto("mcp", l)
  /\ reply' = NULL
  /\ UNCHANGED <<lock, workVars, emuVars, histVars, left, lifeVars>>

LEMMA TakesUpKeeps ==
  ASSUME HeadlessInv,
         TakesUp("advance", "pause") \/ TakesUp("status", "body")
  PROVE  HeadlessInv'
<1> USE DEF HeadlessInv, TakesUp, workVars, emuVars, histVars, lifeVars
<1>t. /\ pc \in [Ctl -> Pc] /\ call \in [Ctl -> Call]
      /\ "mcp" \in Ctl /\ "gui" \in Ctl /\ "mcp" # "gui"
  BY DEF TypeOK, Ctl
<1>1. \A o \in {"advance", "status"} : [op |-> o, arg |-> 0] \in Call
  BY BoundAssumption DEF Call, Op, Request, Arg, Valid
<1>2. call' \in [Ctl -> Call] /\ pc' \in [Ctl -> Pc]
  BY <1>1, <1>t DEF Goto, Pc
<1>3. TypeOK'
  BY <1>2 DEF TypeOK
<1>4. Safe'
  BY <1>t, WorkerAssumption
  DEF Safe, CoreExclusive, HandleOwned, HandleInUse, PausedIsStill, Ending,
      Goto
<1>5. HeadlessPaused' /\ NoSpeedWrap'
  BY <1>t DEF HeadlessPaused, NoSpeedWrap, Goto, PausingOp
<1> QED
  BY <1>3, <1>4, <1>5

LEMMA PlaceType ==
  ASSUME NEW n \in Name, NEW e \in Place(n) \cup Named(n)
  PROVE  e \in Entries
BY DEF Place, Named, Unused

LEMMA BeginKeeps ==
  ASSUME SnapInv, pc["mcp"] = "idle",
         NEW a \in {"create", "restore"}, NEW n \in Name, NEW e \in Entries,
         a = "restore" => snaps[e].in_use,
         Begin(a, n, e)
  PROVE  SnapInv'
<1> USE DEF SnapInv, Begin, emuVars, histVars
<1>1. HeadlessInv'
  BY TakesUpKeeps DEF TakesUp
<1>2. tool' \in Tool /\ SnapTypeOK'
  BY EmptyType DEF SnapTypeOK, Tool, Stage
<1>3. tool = NULL /\ tool' # NULL
  BY <1>2, SnapshotAssumption DEF ToolAtWork
<1>4. ToolAtWork'
  <2>1. pc' = [pc EXCEPT !["mcp"] = "pause"] /\ pc \in [Ctl -> Pc]
        /\ call \in [Ctl -> Call] /\ "mcp" \in Ctl
    BY DEF HeadlessInv, TypeOK, Goto, Ctl
  <2> QED
    BY <2>1 DEF ToolAtWork
<1>5. ~Halfway("create")' /\ ~Halfway("create")
      /\ ~Halfway("restore")' /\ ~Halfway("restore")
  BY <1>3 DEF Halfway
<1>6. EntriesFit'
  BY <1>5 DEF EntriesFit, LabelFits, Snap
<1>7. MachineFits'
  BY <1>5 DEF MachineFits, HistoryFits, Unstarted, LabelFits, Snap
<1> QED
  BY <1>1, <1>2, <1>4, <1>6, <1>7

\* Steps after which the handler is not there, the machine where it was.
LEMMA AwayKeeps ==
  ASSUME SnapInv, HeadlessInv', tool' = NULL, UNCHANGED <<emuVars, histVars>>,
         ~Halfway("restore"), ~Halfway("create"),
         \A e \in Entries : snaps'[e] \in {snaps[e], Empty},
         SnapTypeOK'
  PROVE  SnapInv'
<1> USE DEF SnapInv, emuVars, histVars
<1>1. EntriesFit'
  BY DEF EntriesFit, LabelFits, Snap, Empty
<1>2. MachineFits'
  BY DEF MachineFits, HistoryFits, Unstarted, LabelFits, Snap
<1> QED
  BY <1>1, <1>2 DEF ToolAtWork, Empty

LEMMA RequestKeeps ==
  ASSUME SnapInv, Create \/ RestoreNamed \/ Refuse \/ Delete
  PROVE  SnapInv'
<1>1. CASE Create
  BY <1>1, BeginKeeps, PlaceType DEF Create
<1>2. CASE RestoreNamed
  BY <1>2, BeginKeeps, PlaceType DEF RestoreNamed, Named
<1> USE DEF SnapInv
<1>3. CASE Refuse \/ Delete
  <2>1. tool = NULL /\ tool' = NULL
    BY <1>3 DEF Refuse, Delete, ToolAtWork
  <2>2. ~Halfway("restore") /\ ~Halfway("create")
    BY <2>1 DEF Halfway
  <2>3. UNCHANGED <<emuVars, histVars>>
    BY <1>3 DEF Refuse, Delete
  <2>4. snaps' \in [Entries -> Entry]
        /\ \A e \in Entries : snaps'[e] \in {snaps[e], Empty}
    BY <1>3, EmptyType DEF Refuse, Delete, SnapTypeOK, Named
  <2>5. HeadlessInv'
    <3>1. CASE Delete
      BY <3>1, TakesUpKeeps DEF Delete, TakesUp
    <3>2. CASE Refuse
      <4>1. TypeOK'
        BY <3>2, FailType
        DEF Refuse, HeadlessInv, TypeOK, workVars, emuVars, histVars, lifeVars,
            Op, Request
      <4>2. Safe'
        BY <3>2
        DEF Refuse, HeadlessInv, Safe, CoreExclusive, HandleOwned, HandleInUse,
            PausedIsStill, Ending, workVars, lifeVars
      <4>3. HeadlessPaused' /\ NoSpeedWrap'
        BY <3>2
        DEF Refuse, HeadlessInv, HeadlessPaused, NoSpeedWrap, Fail, workVars,
            emuVars
      <4> QED
        BY <4>1, <4>2, <4>3 DEF HeadlessInv
    <3> QED
      BY <1>3, <3>1, <3>2
  <2> QED
    BY <2>1, <2>2, <2>3, <2>4, <2>5, AwayKeeps DEF SnapTypeOK
<1> QED
  BY <1>1, <1>2, <1>3

-----------------------------------------------------------------------------
(* The handler's own steps.                                                *)

\* Reading the core and writing the table leave the control as it is.
LEMMA ControlUntouched ==
  ASSUME HeadlessInv, UNCHANGED vars
  PROVE  HeadlessInv' /\ UNCHANGED <<pc, call, emuVars, histVars>>
<1>1. [Next]_vars
  OBVIOUS
<1> QED
  BY <1>1, HeadlessControl DEF vars, callVars

LEMMA CreateStepKeeps ==
  ASSUME SnapInv, SerializeBegin \/ Serialize \/ Label
  PROVE  SnapInv'
<1> USE DEF SnapInv, emuVars, histVars
<1>1. HeadlessInv' /\ UNCHANGED <<pc, call, emuVars, histVars>>
  BY ControlUntouched DEF SerializeBegin, Serialize, Label
<1>2. /\ tool \in Tool /\ tool # NULL
      /\ pc["mcp"] = "report" /\ call["mcp"].op = "advance"
      /\ tool.action = "create"
      /\ tool.entry \in Entries /\ tool.name \in Name
      /\ tool.seen \in Machine
  BY DEF SerializeBegin, Serialize, Label, Handling, SnapTypeOK, ToolAtWork,
         Tool
<1>3. \A w \in Worker : worker[w] # "frame"
  BY <1>2, NobodyInFrame
<1>4. machine \in Machine /\ frame \in 0..MaxFrame
  BY DEF HeadlessInv, TypeOK
<1>5. snaps \in [Entries -> Entry]
  BY DEF SnapTypeOK
<1>6. ~Halfway("restore")
  BY <1>2 DEF Halfway
<1>7. LabelFits(Snap(frame, machine)) /\ (~primed => frame = 0)
  BY <1>6 DEF MachineFits, Unstarted
<1>8. CASE SerializeBegin
  <2>1. tool' = [tool EXCEPT !.stage = "copy", !.seen = machine] /\ snaps' = snaps
        /\ tool.stage = "core"
    BY <1>8 DEF SerializeBegin, Handling
  <2>2. tool' \in Tool /\ tool'.stage = "copy" /\ tool'.action = "create"
        /\ tool'.seen = machine /\ tool' # NULL
    BY <1>2, <1>4, <2>1, SnapshotAssumption DEF Tool, Stage
  <2>3. ~Halfway("create") /\ ~Halfway("create")' /\ ~Halfway("restore")'
    BY <2>1, <2>2 DEF Halfway
  <2>4. SnapTypeOK' /\ ToolAtWork'
    BY <1>1, <1>2, <1>5, <2>1, <2>2 DEF SnapTypeOK, ToolAtWork
  <2>5. EntriesFit'
    BY <1>1, <2>1, <2>3 DEF EntriesFit, LabelFits, Snap
  <2>6. MachineFits'
    BY <1>1, <1>6 DEF MachineFits, HistoryFits, Unstarted, LabelFits, Snap
  <2> QED
    BY <1>1, <2>1, <2>4, <2>5, <2>6
<1>9. CASE Serialize
  <2>1. /\ tool' = [tool EXCEPT !.stage = "label", !.seen = Empty.machine]
        /\ tool.stage = "copy"
        /\ machine = tool.seen
        /\ snaps' = [snaps EXCEPT ![tool.entry].machine = tool.seen,
                       ![tool.entry].torn = FALSE]
    BY <1>2, <1>3, <1>9 DEF Serialize, Handling, ToolAtWork
  <2>2. /\ tool' \in Tool /\ tool' # NULL
        /\ tool'.stage = "label" /\ tool'.action = "create"
        /\ tool'.entry = tool.entry
    BY <1>2, <2>1, EmptyType, SnapshotAssumption DEF Tool, Stage
  <2>3. Halfway("create")' /\ ~Halfway("create") /\ ~Halfway("restore")'
    BY <2>1, <2>2 DEF Halfway
  <2>4. /\ snaps' \in [Entries -> Entry]
        /\ snaps'[tool.entry].machine = machine
        /\ ~snaps'[tool.entry].torn
        /\ \A e \in Entries \ {tool.entry} : snaps'[e] = snaps[e]
    BY <1>2, <1>5, <2>1 DEF Entry
  <2>5. SnapTypeOK' /\ ToolAtWork'
    BY <1>1, <1>2, <2>2, <2>4 DEF SnapTypeOK, ToolAtWork
  <2>6. EntriesFit'
    BY <1>1, <2>2, <2>3, <2>4 DEF EntriesFit, LabelFits, Snap
  <2>7. MachineFits'
    BY <1>1, <1>6 DEF MachineFits, HistoryFits, Unstarted, LabelFits, Snap
  <2> QED
    BY <1>1, <2>4, <2>5, <2>6, <2>7
<1>10. CASE Label
  <2>1. /\ tool' = [tool EXCEPT !.stage = "status"]
        /\ tool.stage = "label"
        /\ snaps' = [snaps EXCEPT ![tool.entry].name = tool.name,
                       ![tool.entry].in_use = TRUE,
                       ![tool.entry].frame = frame]
    BY <1>10 DEF Label, Handling, Step
  <2>2. /\ tool' \in Tool /\ tool' # NULL
        /\ tool'.stage = "status" /\ tool'.action = "create"
    BY <1>2, <2>1, SnapshotAssumption DEF Tool, Stage
  <2>3. ~Halfway("create")' /\ ~Halfway("restore")'
    BY <2>2 DEF Halfway
  <2>4. /\ snaps' \in [Entries -> Entry]
        /\ snaps'[tool.entry].machine = machine
        /\ snaps'[tool.entry].frame = frame
        /\ \A e \in Entries : snaps'[e].torn = snaps[e].torn
        /\ \A e \in Entries \ {tool.entry} : snaps'[e] = snaps[e]
    BY <1>2, <1>4, <1>5, <2>1 DEF Entry, ToolAtWork
  <2>5. SnapTypeOK' /\ ToolAtWork'
    BY <1>1, <1>2, <2>2, <2>4 DEF SnapTypeOK, ToolAtWork
  <2>6. EntriesFit'
    <3> SUFFICES ASSUME NEW e \in Entries, snaps'[e].in_use
                 PROVE  /\ LabelFits(Snap(snaps'[e].frame, snaps'[e].machine))
                        /\ ~primed' => snaps'[e].frame = 0
      BY DEF EntriesFit, LabelFits, Snap
    <3>1. CASE e = tool.entry
      BY <1>1, <1>7, <2>4, <3>1
    <3>2. CASE e # tool.entry
      BY <1>1, <2>4, <3>2 DEF EntriesFit
    <3> QED
      BY <3>1, <3>2
  <2>7. MachineFits'
    BY <1>1, <1>6 DEF MachineFits, HistoryFits, Unstarted, LabelFits, Snap
  <2> QED
    BY <1>1, <2>4, <2>5, <2>6, <2>7
<1> QED
  BY <1>8, <1>9, <1>10

LEMMA SerializeFailsKeeps ==
  ASSUME SnapInv, SerializeFails
  PROVE  SnapInv'
<1> USE DEF SnapInv, SerializeFails
<1>1. /\ pc["mcp"] = "report" /\ tool.stage = "copy"
      /\ "mcp" \in Ctl /\ "gui" \in Ctl /\ "mcp" # "gui"
      /\ pc \in [Ctl -> Pc] /\ call \in [Ctl -> Call]
  BY DEF Handling, Ctl, HeadlessInv, TypeOK
<1>2. /\ pc' = [pc EXCEPT !["mcp"] = "idle"]
      /\ call' = [call EXCEPT !["mcp"] = Nobody]
      /\ reply' # NULL /\ ~reply'.ok
  BY FailType, WorkerAssumption DEF Return, Goto, Fail, Op, Request
<1>3. TypeOK'
  <2>1. pc' \in [Ctl -> Pc] /\ call' \in [Ctl -> Call] /\ reply' \in Reply
    BY <1>1, ReturnType, FailType DEF HeadlessInv, Op, Request
  <2> QED
    BY <2>1 DEF HeadlessInv, TypeOK, workVars, emuVars, histVars, lifeVars
<1>4. Safe'
  BY <1>1, <1>2, WorkerAssumption
  DEF HeadlessInv, Safe, CoreExclusive, HandleOwned, HandleInUse,
      PausedIsStill, Ending, workVars, lifeVars, Nobody
<1>5. HeadlessPaused' /\ NoSpeedWrap'
  BY <1>1, <1>2
  DEF HeadlessInv, HeadlessPaused, NoSpeedWrap, workVars, emuVars
<1>6. HeadlessInv'
  BY <1>3, <1>4, <1>5 DEF HeadlessInv
<1>7. SnapTypeOK'
  BY DEF SnapTypeOK
<1> QED
  BY <1>1, <1>6, <1>7, AwayKeeps DEF Halfway

\* Writing the core and the frame number while the machine is paused.
LEMMA MovedKeeps ==
  ASSUME HeadlessInv, pc["mcp"] = "report",
         machine' \in Machine, frame' \in 0..MaxFrame,
         UNCHANGED <<lock, workVars, primed, histVars, callVars, lifeVars>>
  PROVE  HeadlessInv'
<1> USE DEF HeadlessInv, workVars, histVars, callVars, lifeVars
<1>1. TypeOK'
  BY DEF TypeOK
<1>2. Safe'
  BY DEF Safe, CoreExclusive, HandleOwned, HandleInUse, PausedIsStill, Ending
<1>3. HeadlessPaused'
  BY DEF HeadlessPaused
<1>4. NoSpeedWrap'
  BY DEF HeadlessPaused, NoSpeedWrap
<1> QED
  BY <1>1, <1>2, <1>3, <1>4

LEMMA RestoreStepKeeps ==
  ASSUME SnapInv, Unserialize \/ SetFrame
  PROVE  SnapInv'
<1> USE DEF SnapInv
<1>1. /\ tool \in Tool /\ tool # NULL
      /\ pc["mcp"] = "report" /\ call["mcp"].op = "advance"
      /\ tool.action = "restore"
      /\ tool.entry \in Entries
      /\ snaps[tool.entry].in_use
  BY DEF Unserialize, SetFrame, Handling, SnapTypeOK, ToolAtWork, Tool
<1>2. snaps[tool.entry] \in Entry
  BY <1>1 DEF SnapTypeOK
<1>3. snaps' = snaps /\ primed' = primed /\ UNCHANGED <<saves, ring>>
      /\ pc' = pc /\ call' = call
  BY DEF Unserialize, SetFrame, histVars, callVars
<1>4. ~Halfway("create")
  BY <1>1 DEF Halfway
<1>5. /\ LabelFits(Snap(snaps[tool.entry].frame, snaps[tool.entry].machine))
      /\ ~primed => snaps[tool.entry].frame = 0
  BY <1>1, <1>4 DEF EntriesFit
<1>6. machine \in Machine /\ frame \in 0..MaxFrame
  BY DEF HeadlessInv, TypeOK
<1>7. HeadlessInv'
  BY <1>1, <1>2, <1>6, MovedKeeps DEF Unserialize, SetFrame, Entry
<1>8. HistoryFits'
  BY <1>3 DEF MachineFits, HistoryFits, LabelFits
<1>9. CASE Unserialize
  <2>1. tool' = [tool EXCEPT !.stage = "label"] /\ frame' = frame
        /\ machine' = snaps[tool.entry].machine
    BY <1>9 DEF Unserialize, Step
  <2>2. /\ tool' \in Tool /\ tool' # NULL /\ tool'.stage = "label"
        /\ tool'.action = "restore" /\ tool'.entry = tool.entry
    BY <1>1, <2>1, SnapshotAssumption DEF Tool, Stage
  <2>3. Halfway("restore")' /\ ~Halfway("create")'
    BY <2>2 DEF Halfway
  <2>4. SnapTypeOK' /\ ToolAtWork'
    BY <1>1, <1>3, <2>1, <2>2 DEF SnapTypeOK, ToolAtWork
  <2>5. EntriesFit'
    BY <1>3, <1>4 DEF EntriesFit, LabelFits, Snap
  <2>6. MachineFits'
    BY <1>3, <1>8, <2>1, <2>3 DEF MachineFits, Unstarted
  <2> QED
    BY <1>3, <1>7, <2>4, <2>5, <2>6
<1>10. CASE SetFrame
  <2>1. /\ tool' = [tool EXCEPT !.stage = "status"]
        /\ frame' = snaps[tool.entry].frame
        /\ machine' = machine /\ machine = snaps[tool.entry].machine
    BY <1>10 DEF SetFrame, Step, Handling, ToolAtWork
  <2>2. /\ tool' \in Tool /\ tool' # NULL /\ tool'.stage = "status"
        /\ tool'.action = "restore" /\ tool'.entry = tool.entry
    BY <1>1, <2>1, SnapshotAssumption DEF Tool, Stage
  <2>3. ~Halfway("restore")' /\ ~Halfway("create")'
    BY <2>2 DEF Halfway
  <2>4. SnapTypeOK' /\ ToolAtWork'
    BY <1>1, <1>3, <2>1, <2>2 DEF SnapTypeOK, ToolAtWork
  <2>5. EntriesFit'
    BY <1>3, <1>4 DEF EntriesFit, LabelFits, Snap
  <2>6. MachineFits'
    BY <1>3, <1>5, <1>8, <2>1 DEF MachineFits, Unstarted, LabelFits, Snap
  <2> QED
    BY <1>3, <1>7, <2>4, <2>5, <2>6
<1> QED
  BY <1>9, <1>10

-----------------------------------------------------------------------------
LEMMA SnapInvNext == SnapInv /\ [SnapNext]_snapVars => SnapInv'
<1> SUFFICES ASSUME SnapInv, [SnapNext]_snapVars PROVE SnapInv'
  OBVIOUS
<1>1. CASE Create \/ RestoreNamed \/ Refuse \/ Delete
  BY <1>1, RequestKeeps
<1>2. CASE SerializeBegin \/ Serialize \/ Label
  BY <1>2, CreateStepKeeps
<1>3. CASE SerializeFails
  BY <1>3, SerializeFailsKeeps
<1>4. CASE Unserialize \/ SetFrame
  BY <1>4, RestoreStepKeeps
<1>5. CASE Control(Next)
  BY <1>5, ControlKeeps
<1>6. CASE UNCHANGED snapVars
  <2>1. UNCHANGED vars /\ snaps' = snaps /\ tool' = tool
    BY <1>6 DEF snapVars
  <2>2. HeadlessInv' /\ UNCHANGED <<pc, call, emuVars, histVars>>
    BY <2>1, ControlUntouched DEF SnapInv
  <2> QED
    BY <2>1, <2>2
    DEF SnapInv, SnapTypeOK, ToolAtWork, EntriesFit, MachineFits, HistoryFits,
        Unstarted, Halfway, LabelFits, Snap, emuVars, histVars
<1> QED
  BY <1>1, <1>2, <1>3, <1>4, <1>5, <1>6 DEF SnapNext, HandlerStep

LEMMA SnapInvAlways ==
  ASSUME ~Window
  PROVE  SnapSpec => []SnapInv
<1>1. SnapInit => SnapInv
  BY SnapInvInit
<1> QED
  BY <1>1, SnapInvNext, PTL DEF SnapSpec

\* The variables of the control, the table and the handler keep their types
\* while requests, frames and snapshots interleave.
THEOREM SnapshotTypes ==
  ASSUME ~Window
  PROVE  SnapSpec => [](TypeOK /\ SnapTypeOK)
<1>1. SnapInv => TypeOK /\ SnapTypeOK
  BY DEF SnapInv, HeadlessInv
<1> QED
  BY <1>1, SnapInvAlways, PTL

\* Without a window a snapshot is the machine at one moment: nothing runs
\* between the two ends of its serialization.
THEOREM SnapshotsAreWhole ==
  ASSUME ~Window
  PROVE  SnapSpec => []SnapshotsWhole
<1>1. SnapInv => SnapshotsWhole
  BY DEF SnapInv, SnapshotsWhole
<1> QED
  BY <1>1, SnapInvAlways, PTL

\* Without a window every snapshot that can be restored carries the label of
\* its blob, through failed creations and repeated ones, and the machine's
\* frame number fits except between the two steps of a restore.
THEOREM SnapshotLabelsFit ==
  ASSUME ~Window
  PROVE  SnapSpec => []SnapshotsFit
<1>1. SnapInv => SnapshotsFit
  <2> SUFFICES ASSUME SnapInv PROVE SnapshotsFit
    OBVIOUS
  <2>1. \A e \in Entries :
          snaps[e].in_use /\ ~(Handling("label") /\ tool.entry = e)
            => LabelFits(Snap(snaps[e].frame, snaps[e].machine))
    BY DEF SnapInv, EntriesFit, Halfway, ToolAtWork, Handling
  <2>2. ASSUME tool = NULL \/ tool.stage # "label" \/ tool.action = "create"
        PROVE  FrameIsPosition
    BY <2>2, MachineIsLabelled DEF SnapInv, Halfway, Labelled
  <2> QED
    BY <2>1, <2>2 DEF SnapshotsFit
<1> QED
  BY <1>1, SnapInvAlways, PTL

\* The reply to a pausing request, of a snapshot tool or of another, finds no
\* session and no worker, whatever was taken and restored before it.
THEOREM SnapshotRepliesPaused ==
  ASSUME ~Window
  PROVE  SnapSpec => []SynchronouslyPaused
<1>1. SnapInv => SynchronouslyPaused
  BY PausedWhenAnswered DEF SnapInv
<1> QED
  BY <1>1, SnapInvAlways, PTL

\* Restoring a snapshot while a session runs is impossible, so the frame
\* counter does not fall behind the start of one.
THEOREM SnapshotSpeedIsSane ==
  ASSUME ~Window
  PROVE  SnapSpec => []NoSpeedWrap
<1>1. SnapInv => NoSpeedWrap
  BY DEF SnapInv, HeadlessInv
<1> QED
  BY <1>1, SnapInvAlways, PTL

\* Every reply tells the frame and the state of its moment: also that of a
\* snapshot tool, which reads them after its handler is through.
THEOREM SnapshotRepliesTruthful ==
  ASSUME ~Window
  PROVE  SnapSpec => ReplyTruthful
<1>1. SnapInv /\ [SnapNext]_snapVars =>
        [(reply' # reply /\ reply' # NULL /\ reply'.ok) =>
           reply'.frame = frame' /\ reply'.running = resuming']_vars
  <2> SUFFICES ASSUME SnapInv, [SnapNext]_snapVars,
                      reply' # reply, reply' # NULL, reply'.ok
               PROVE  reply'.frame = frame' /\ reply'.running = resuming'
    OBVIOUS
  <2>1. CASE Control(Next)
    <3>1. HeadlessInv /\ [Next]_vars
      BY <2>1 DEF SnapInv, Control
    <3>2. vars' # vars
      BY DEF vars, callVars
    <3> QED
      BY <3>1, <3>2, TruthfulStep
  <2>2. CASE \E o \in Op : Fail(o)
    BY <2>2 DEF Fail
  <2>3. CASE Create \/ RestoreNamed \/ Delete
    BY <2>3 DEF Create, RestoreNamed, Delete, Begin
  <2>4. CASE Refuse \/ SerializeFails
    BY <2>2, <2>4 DEF Refuse, SerializeFails, Op, Request
  <2>5. CASE UNCHANGED callVars
    BY <2>5 DEF callVars
  <2> QED
    BY <2>1, <2>3, <2>4, <2>5
    DEF SnapNext, HandlerStep, SerializeBegin, Serialize, Label, Unserialize,
        SetFrame, snapVars, vars
<1> QED
  BY <1>1, SnapInvAlways, PTL DEF SnapSpec, ReplyTruthful
=============================================================================
