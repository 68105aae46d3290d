---------------------------- MODULE ArclControl ----------------------------
(***************************************************************************)
(* The execution control of the ARCL frontend (src/windows/arcl_control.c) *)
(* with the threads that call it (src/windows/main.c).                     *)
(*                                                                         *)
(* Two control threads share one arcl_control_t: "mcp", which answers the  *)
(* requests read from stdin, and "gui", whose F5 key pauses or resumes.    *)
(* arcl_resume creates a worker thread that runs one frame of the machine  *)
(* at a time while `resuming` is set.  One CRITICAL_SECTION guards the     *)
(* structure; a step of this specification is one critical section, or one *)
(* frame of a section that runs several.                                   *)
(*                                                                         *)
(* The machine is abstracted to whether it was booted and how many frames  *)
(* it executed since; a saved state is that pair with its frame label.     *)
(***************************************************************************)
EXTENDS Integers

CONSTANTS
  Worker,      \* identities of the threads CreateThread can hand out
  NULL,        \* no handle, no saved state, no reply
  Window,      \* TRUE: the GUI thread runs; FALSE: --no-window
  Requests,    \* the requests the MCP client sends
  MaxFrame,    \* bound: frame counters stop here
  MaxRun,      \* bound: the largest `frames` of a request
  Intervals,   \* the rewind intervals requested
  Depth,       \* ARCL_REWIND_MAX_DEPTH
  Slot         \* save-state slots

Ctl     == {"mcp", "gui"}
Request == {"status", "speed", "pause", "resume", "run", "advance", "reset",
            "save", "load", "enable", "disable", "rewind"}
Op      == Request \cup {"shutdown", "idle"}
Pc      == {"idle", "pause", "join", "body", "frames", "report", "stopGui",
            "done", "gone"}

Machine  == [booted : BOOLEAN, guest : 0..MaxFrame]
Snapshot == [frame : 0..MaxFrame, machine : Machine]
Ring     == [enabled : BOOLEAN, interval : Intervals \cup {0},
             slot : [0..Depth-1 -> Snapshot \cup {NULL}],
             count : 0..Depth, next : 0..Depth-1]
Arg      == 0..MaxRun \cup 0..(Depth + 1) \cup Intervals \cup Slot
Reply    == [op : Op, ok : BOOLEAN, running : BOOLEAN, frame : 0..MaxFrame]

ASSUME WorkerAssumption ==
  /\ Worker \cap {"free", "mcp", "gui", NULL} = {}
  /\ NULL \notin {"free", "mcp", "gui"}
  /\ NULL \notin Snapshot
  /\ NULL \notin Reply
ASSUME BoundAssumption ==
  /\ Window \in BOOLEAN
  /\ Requests \subseteq Request
  /\ MaxFrame \in Nat
  /\ MaxRun \in Nat \ {0}
  /\ Intervals \subseteq Nat \ {0}
  /\ Depth \in Nat \ {0}
  /\ Slot \subseteq Nat

VARIABLES
  lock,          \* owner of control->lock
  resuming,      \* control->resuming
  resumeThread,  \* control->resume_thread
  speedStart,    \* control->speed_start_frame
  frame,         \* control->frame
  saves,         \* control->saves
  ring,          \* control->rewind_*
  machine,       \* the emulated machine
  primed,        \* g_core_primed, and the core's !firstcall
  worker,        \* where each worker thread is
  pc,            \* where each control thread is
  call,          \* the operation each control thread performs
  joining,       \* the handle each control thread took to wait for
  left,          \* frames the request still has to run
  reply,         \* the last reply of the MCP thread
  guiStop,       \* gui.stop
  freed          \* arcl_control_shutdown freed the structure

workVars == <<resuming, resumeThread, speedStart, worker, joining>>
emuVars  == <<frame, machine, primed>>
histVars == <<saves, ring>>
callVars == <<pc, call, left, reply>>
lifeVars == <<guiStop, freed>>
vars     == <<lock, workVars, emuVars, histVars, callVars, lifeVars>>

Live   == {w \in Worker : worker[w] \in {"top", "frame"}}
Nobody == [op |-> "idle", arg |-> 0]

Init ==
  /\ lock = "free"
  /\ resuming = FALSE
  /\ resumeThread = NULL
  /\ speedStart = 0
  /\ frame = 0
  /\ saves = [s \in Slot |-> NULL]
  /\ ring = [enabled |-> FALSE, interval |-> 0,
             slot |-> [i \in 0..Depth-1 |-> NULL], count |-> 0, next |-> 0]
  /\ machine = [booted |-> FALSE, guest |-> 0]
  /\ primed = FALSE
  /\ worker = [w \in Worker |-> "none"]
  /\ pc = [t \in Ctl |-> IF t = "mcp" \/ Window THEN "idle" ELSE "gone"]
  /\ call = [t \in Ctl |-> Nobody]
  /\ joining = [t \in Ctl |-> NULL]
  /\ left = 0
  /\ reply = NULL
  /\ guiStop = FALSE
  /\ freed = FALSE

-----------------------------------------------------------------------------
(* Frames and the states saved along the way.                              *)

Tick(n) == IF n < MaxFrame THEN n + 1 ELSE n

Snap(f, m) == [frame |-> f, machine |-> m]

\* The core spends the first retro_run() on pre_main() and executes nothing.
Booted == [booted |-> TRUE, guest |-> 0]
Executed(m, p) == IF p THEN [m EXCEPT !.guest = Tick(@)] ELSE Booted

\* The ring slot written `back` captures ago.
RingIndex(r, back) == (r.next - back + Depth) % Depth

\* Mutant: the label is read before the counter is incremented.
CapturedEarly(r, f, m) ==
  IF r.enabled /\ f % r.interval = 0
  THEN [r EXCEPT !.slot[r.next] = Snap(f - 1, m),
                 !.next = (r.next + 1) % Depth,
                 !.count = IF @ < Depth THEN @ + 1 ELSE @]
  ELSE r

Captured(r, f, m) ==
  IF r.enabled /\ f % r.interval = 0
  THEN [r EXCEPT !.slot[r.next] = Snap(f, m),
                 !.next = (r.next + 1) % Depth,
                 !.count = IF @ < Depth THEN @ + 1 ELSE @]
  ELSE r

\* Mutants: the write position is not taken back; only one entry is.
RewoundKeepsNext(r, steps) == [r EXCEPT !.count = @ - steps]
RewoundDropsOne(r, steps) ==
  [r EXCEPT !.count = @ - 1, !.next = RingIndex(r, steps)]

Rewound(r, steps) ==
  [r EXCEPT !.count = @ - steps, !.next = RingIndex(r, steps)]

Enabled(r, i) ==
  [r EXCEPT !.enabled = TRUE, !.interval = i, !.count = 0, !.next = 0]

Disabled(r) ==
  [r EXCEPT !.enabled = FALSE, !.slot = [i \in 0..Depth-1 |-> NULL],
            !.count = 0, !.next = 0]

\* One frame.  A capture that cannot allocate its buffer is dropped.
\* Bound: where the counter stops, all are.
AdvanceFrame ==
  /\ frame' = Tick(frame)
  /\ machine' = Executed(machine, primed)
  /\ primed' = TRUE
  /\ \/ frame < MaxFrame /\ ring' = Captured(ring, frame', machine')
     \/ ring' = ring

\* A state blob and its label come back together.
Restore(snap) ==
  /\ frame' = snap.frame
  /\ machine' = snap.machine
  /\ UNCHANGED primed

-----------------------------------------------------------------------------
(* The MCP thread takes one request at a time.                             *)

Goto(t, l) == pc' = [pc EXCEPT ![t] = l]
Return(t) ==
  /\ Goto(t, "idle")
  /\ call' = [call EXCEPT ![t] = Nobody]
At(t, l, o) == pc[t] = l /\ call[t].op = o

Succeed(running) ==
  reply' = [op |-> call["mcp"].op, ok |-> TRUE, running |-> running,
            frame |-> frame']
Fail(o) ==
  reply' = [op |-> o, ok |-> FALSE, running |-> FALSE, frame |-> 0]

\* Mutants: a handler forgets pause_and_join.
PausesButLoad(o) ==
  o \in {"pause", "run", "advance", "reset", "save", "rewind", "shutdown"}
PausesButReset(o) ==
  o \in {"pause", "run", "advance", "save", "load", "rewind", "shutdown"}

\* The operations that start with pause_and_join.
PausingOp(o) ==
  o \in {"pause", "run", "advance", "reset", "save", "load", "rewind",
         "shutdown"}

\* The arguments that pass validation; a rewind is validated after the pause.
Valid(o) ==
  CASE o = "run" -> 1..MaxRun
    [] o = "advance" -> 0..MaxRun
    [] o = "rewind" -> 0..(Depth + 1)
    [] o = "enable" -> Intervals
    [] o \in {"save", "load"} -> Slot
    [] OTHER -> {0}

Call == {c \in [op : Op, arg : Arg] : c.arg \in Valid(c.op)}

\* Bound: no request runs past MaxFrame.
WithinBound(o, a) == o \in {"run", "advance"} => frame + a <= MaxFrame

Accept ==
  /\ pc["mcp"] = "idle"
  /\ \E o \in Requests : \E a \in Valid(o) :
       /\ WithinBound(o, a)
       /\ call' = [call EXCEPT !["mcp"] = [op |-> o, arg |-> a]]
       /\ Goto("mcp", IF PausingOp(o) THEN "pause" ELSE "body")
  /\ reply' = NULL
  /\ UNCHANGED <<lock, workVars, emuVars, histVars, left, lifeVars>>

\* An argument out of range is answered before anything is touched.
Reject ==
  /\ pc["mcp"] = "idle"
  /\ \E o \in Requests \cap {"run", "save", "load", "enable"} : Fail(o)
  /\ UNCHANGED <<lock, workVars, emuVars, histVars, pc, call, left, lifeVars>>

\* Mutants: `resuming` is left set; the handle is left in place; the section
\* is entered without the lock.
PauseEnterGoesOn(t) ==
  /\ pc[t] = "pause"
  /\ lock = "free"
  /\ joining' = [joining EXCEPT ![t] = resumeThread]
  /\ resumeThread' = NULL
  /\ Goto(t, "join")
  /\ UNCHANGED <<lock, resuming, speedStart, worker, emuVars, histVars, call,
                 left, reply, lifeVars>>
PauseEnterKeepsHandle(t) ==
  /\ pc[t] = "pause"
  /\ lock = "free"
  /\ resuming' = FALSE
  /\ joining' = [joining EXCEPT ![t] = resumeThread]
  /\ Goto(t, "join")
  /\ UNCHANGED <<lock, resumeThread, speedStart, worker, emuVars, histVars,
                 call, left, reply, lifeVars>>
PauseEnterUnlocked(t) ==
  /\ pc[t] = "pause"
  /\ resuming' = FALSE
  /\ joining' = [joining EXCEPT ![t] = resumeThread]
  /\ resumeThread' = NULL
  /\ Goto(t, "join")
  /\ UNCHANGED <<lock, speedStart, worker, emuVars, histVars, call, left,
                 reply, lifeVars>>

\* pause_and_join, first half: stop the session, take its handle.
PauseEnter(t) ==
  /\ pc[t] = "pause"
  /\ lock = "free"
  /\ resuming' = FALSE
  /\ joining' = [joining EXCEPT ![t] = resumeThread]
  /\ resumeThread' = NULL
  /\ Goto(t, "join")
  /\ UNCHANGED <<lock, speedStart, worker, emuVars, histVars, call, left,
                 reply, lifeVars>>

\* Mutant: the handle is dropped without a wait.
JoinAtOnce(t) ==
  /\ pc[t] = "join"
  /\ joining' = [joining EXCEPT ![t] = NULL]
  /\ Goto(t, "body")
  /\ UNCHANGED <<lock, resuming, resumeThread, speedStart, worker, emuVars,
                 histVars, call, left, reply, lifeVars>>

\* Second half: wait for that thread outside the lock and close the handle.
Join(t) ==
  /\ pc[t] = "join"
  /\ joining[t] # NULL => worker[joining[t]] = "exited"
  /\ worker' = [w \in Worker |-> IF w = joining[t] THEN "none" ELSE worker[w]]
  /\ joining' = [joining EXCEPT ![t] = NULL]
  /\ Goto(t, "body")
  /\ UNCHANGED <<lock, resuming, resumeThread, speedStart, emuVars, histVars,
                 call, left, reply, lifeVars>>

\* write_state, append_status and get_speed: read under the lock, and answer.
Report(t) ==
  /\ \/ pc[t] = "body" /\ call[t].op \in {"status", "speed", "pause"}
     \/ pc[t] = "report"
  /\ lock = "free"
  /\ Return(t)
  /\ UNCHANGED <<lock, workVars, emuVars, histVars, left, lifeVars>>
  /\ IF t = "mcp" THEN Succeed(resuming) ELSE UNCHANGED reply

\* CreateThread may fail; a thread it returns starts at the top of its loop.
Resume(t) ==
  /\ At(t, "body", "resume")
  /\ lock = "free"
  /\ Return(t)
  /\ UNCHANGED <<lock, joining, emuVars, histVars, left, lifeVars>>
  /\ \/ /\ resuming
        /\ UNCHANGED <<resuming, resumeThread, speedStart, worker>>
        /\ IF t = "mcp" THEN Succeed(TRUE) ELSE UNCHANGED reply
     \/ /\ ~resuming
        /\ \E w \in Worker :
             /\ worker[w] = "none"
             /\ worker' = [worker EXCEPT ![w] = "top"]
             /\ resumeThread' = w
        /\ resuming' = TRUE
        /\ speedStart' = frame
        /\ IF t = "mcp" THEN Succeed(TRUE) ELSE UNCHANGED reply
     \/ /\ ~resuming
        /\ speedStart' = frame
        /\ UNCHANGED <<resuming, resumeThread, worker>>
        /\ IF t = "mcp" THEN Fail("resume") ELSE UNCHANGED reply

-----------------------------------------------------------------------------
(* Requests that move the machine; the MCP thread has called pause_and_join. *)

RunEnter ==
  /\ pc["mcp"] = "body"
  /\ call["mcp"].op \in {"run", "advance"}
  /\ lock = "free"
  /\ lock' = "mcp"
  /\ left' = call["mcp"].arg
  /\ Goto("mcp", "frames")
  /\ UNCHANGED <<workVars, emuVars, histVars, call, reply, lifeVars>>

\* Mutant: the loop runs once more (i <= frames).
FrameStepOnceMore ==
  /\ pc["mcp"] = "frames"
  /\ left >= 0
  /\ AdvanceFrame
  /\ left' = left - 1
  /\ UNCHANGED <<lock, workVars, saves, pc, call, reply, lifeVars>>

\* arcl_run may stop early, at a breakpoint or at a console match.
FrameStep ==
  /\ pc["mcp"] = "frames"
  /\ left > 0
  /\ AdvanceFrame
  /\ \/ left' = left - 1
     \/ call["mcp"].op = "run" /\ left' = 0
  /\ UNCHANGED <<lock, workVars, saves, pc, call, reply, lifeVars>>

\* arcl_run answers under the lock; run_frames returns to a caller that
\* reads the status in a critical section of its own.
RunLeave ==
  /\ pc["mcp"] = "frames"
  /\ left = 0
  /\ lock' = "free"
  /\ UNCHANGED <<workVars, emuVars, histVars, left, lifeVars>>
  /\ IF call["mcp"].op = "run"
     THEN Return("mcp") /\ Succeed(resuming)
     ELSE Goto("mcp", "report") /\ UNCHANGED <<call, reply>>

Reset ==
  /\ At("mcp", "body", "reset")
  /\ lock = "free"
  /\ frame' = 0
  /\ machine' = Booted
  /\ primed' = TRUE
  /\ Succeed(resuming)
  /\ Return("mcp")
  /\ UNCHANGED <<lock, workVars, histVars, left, lifeVars>>

\* Serializing fails only for want of memory and leaves the slot as it was.
SaveState ==
  /\ At("mcp", "body", "save")
  /\ lock = "free"
  /\ \/ saves' = [saves EXCEPT ![call["mcp"].arg] = Snap(frame, machine)]
        /\ UNCHANGED frame /\ Succeed(FALSE)
     \/ UNCHANGED <<saves, frame>> /\ Fail("save")
  /\ Return("mcp")
  /\ UNCHANGED <<lock, workVars, machine, primed, ring, left, lifeVars>>

\* The reply says "paused" without looking.
LoadState ==
  /\ At("mcp", "body", "load")
  /\ lock = "free"
  /\ LET save == saves[call["mcp"].arg] IN
       \/ save # NULL /\ Restore(save) /\ Succeed(FALSE)
       \/ save = NULL /\ UNCHANGED emuVars /\ Fail("load")
  /\ Return("mcp")
  /\ UNCHANGED <<lock, workVars, histVars, left, lifeVars>>

RewindEnable ==
  /\ At("mcp", "body", "enable")
  /\ lock = "free"
  /\ ring' = Enabled(ring, call["mcp"].arg)
  /\ UNCHANGED <<lock, workVars, emuVars, saves, left, lifeVars>>
  /\ Succeed(resuming)
  /\ Return("mcp")

RewindDisable ==
  /\ At("mcp", "body", "disable")
  /\ lock = "free"
  /\ ring' = Disabled(ring)
  /\ UNCHANGED <<lock, workVars, emuVars, saves, left, lifeVars>>
  /\ Succeed(resuming)
  /\ Return("mcp")

\* A slot without a state cannot be restored and leaves the ring alone.
Rewind ==
  /\ At("mcp", "body", "rewind")
  /\ lock = "free"
  /\ LET steps == call["mcp"].arg
         snap == ring.slot[RingIndex(ring, steps)]
     IN  \/ /\ steps \in 1..ring.count
            /\ snap # NULL
            /\ Restore(snap)
            /\ ring' = Rewound(ring, steps)
            /\ Succeed(resuming)
         \/ /\ steps \notin 1..ring.count \/ snap = NULL
            /\ UNCHANGED <<emuVars, ring>>
            /\ Fail("rewind")
  /\ Return("mcp")
  /\ UNCHANGED <<lock, workVars, saves, left, lifeVars>>

-----------------------------------------------------------------------------
(* The resume worker.                                                      *)

\* Mutants: the worker runs its frame outside the lock; it goes round its
\* loop again instead of leaving it.
WorkerCheckUnlocked(w) ==
  /\ worker[w] = "top"
  /\ lock = "free"
  /\ worker' = [worker EXCEPT ![w] = IF resuming THEN "frame" ELSE "exited"]
  /\ UNCHANGED <<lock, resuming, resumeThread, speedStart, joining, emuVars,
                 histVars, callVars, lifeVars>>
WorkerCheckStays(w) ==
  /\ worker[w] = "top"
  /\ lock = "free"
  /\ worker' = [worker EXCEPT ![w] = IF resuming THEN "frame" ELSE "top"]
  /\ lock' = IF resuming THEN w ELSE lock
  /\ UNCHANGED <<resuming, resumeThread, speedStart, joining, emuVars,
                 histVars, callVars, lifeVars>>

\* Top of the loop: exit if the session was stopped, else run a frame.
WorkerCheck(w) ==
  /\ worker[w] = "top"
  /\ lock = "free"
  /\ worker' = [worker EXCEPT ![w] = IF resuming THEN "frame" ELSE "exited"]
  /\ lock' = IF resuming THEN w ELSE lock
  /\ UNCHANGED <<resuming, resumeThread, speedStart, joining, emuVars,
                 histVars, callVars, lifeVars>>

WorkerFrame(w) ==
  /\ worker[w] = "frame"
  /\ AdvanceFrame
  /\ worker' = [worker EXCEPT ![w] = "top"]
  /\ lock' = "free"
  /\ UNCHANGED <<resuming, resumeThread, speedStart, joining, saves,
                 callVars, lifeVars>>

-----------------------------------------------------------------------------
(* The GUI thread, and the end of the session.                             *)

\* F5 reads the status in one critical section and acts on it in another.
GuiF5 ==
  /\ pc["gui"] = "idle"
  /\ lock = "free"
  /\ call' = [call EXCEPT !["gui"] =
                [op |-> IF resuming THEN "pause" ELSE "resume", arg |-> 0]]
  /\ Goto("gui", IF resuming THEN "pause" ELSE "body")
  /\ UNCHANGED <<lock, workVars, emuVars, histVars, left, reply, lifeVars>>

GuiExit ==
  /\ pc["gui"] = "idle"
  /\ guiStop
  /\ Goto("gui", "gone")
  /\ UNCHANGED <<lock, workVars, emuVars, histVars, call, left, reply,
                 lifeVars>>

EndOfInput ==
  /\ pc["mcp"] = "idle"
  /\ guiStop' = TRUE
  /\ Goto("mcp", "stopGui")
  /\ UNCHANGED <<lock, workVars, emuVars, histVars, call, left, reply, freed>>

\* Mutant: the GUI thread is told to stop and not waited for.
GuiNotJoined ==
  /\ pc["mcp"] = "stopGui"
  /\ call' = [call EXCEPT !["mcp"] = [op |-> "shutdown", arg |-> 0]]
  /\ Goto("mcp", "pause")
  /\ UNCHANGED <<lock, workVars, emuVars, histVars, left, reply, lifeVars>>

\* run_mcp_mode waits for the GUI thread, then shuts the control down.
GuiJoined ==
  /\ pc["mcp"] = "stopGui"
  /\ pc["gui"] = "gone"
  /\ call' = [call EXCEPT !["mcp"] = [op |-> "shutdown", arg |-> 0]]
  /\ Goto("mcp", "pause")
  /\ UNCHANGED <<lock, workVars, emuVars, histVars, left, reply, lifeVars>>

Shutdown ==
  /\ At("mcp", "body", "shutdown")
  /\ freed' = TRUE
  /\ Goto("mcp", "done")
  /\ UNCHANGED <<lock, workVars, emuVars, histVars, call, left, reply,
                 guiStop>>

Finished == pc["mcp"] = "done" /\ UNCHANGED vars

-----------------------------------------------------------------------------
McpStep ==
  \/ PauseEnter("mcp") \/ Join("mcp") \/ Report("mcp") \/ Resume("mcp")
  \/ RunEnter \/ FrameStep \/ RunLeave \/ Reset \/ SaveState \/ LoadState
  \/ RewindEnable \/ RewindDisable \/ Rewind \/ GuiJoined \/ Shutdown

GuiStep ==
  \/ PauseEnter("gui") \/ Join("gui") \/ Report("gui") \/ Resume("gui")
  \/ GuiExit

WorkerStep(w) == WorkerCheck(w) \/ WorkerFrame(w)

Next ==
  \/ Accept \/ Reject \/ EndOfInput \/ McpStep
  \/ GuiF5 \/ GuiStep
  \/ \E w \in Worker : WorkerStep(w)
  \/ Finished

Spec == Init /\ [][Next]_vars

\* A thread that started something goes on with it.  Every holder of the lock
\* releases it, and the worker sleeps outside it after each frame, so a
\* waiting thread gets it at last.  Nobody has to send a request, press F5 or
\* close stdin.
Fairness ==
  /\ SF_vars(McpStep)
  /\ SF_vars(GuiStep)
  /\ \A w \in Worker : SF_vars(WorkerStep(w))

FairSpec == Spec /\ Fairness

-----------------------------------------------------------------------------
(* Correctness                                                             *)

TypeOK ==
  /\ lock \in {"free", "mcp", "gui"} \cup Worker
  /\ resuming \in BOOLEAN
  /\ resumeThread \in Worker \cup {NULL}
  /\ speedStart \in 0..MaxFrame
  /\ frame \in 0..MaxFrame
  /\ saves \in [Slot -> Snapshot \cup {NULL}]
  /\ ring \in Ring
  /\ machine \in Machine
  /\ primed \in BOOLEAN
  /\ worker \in [Worker -> {"none", "top", "frame", "exited"}]
  /\ pc \in [Ctl -> Pc]
  /\ call \in [Ctl -> Call]
  /\ joining \in [Ctl -> Worker \cup {NULL}]
  /\ left \in 0..MaxRun
  /\ reply \in Reply \cup {NULL}
  /\ guiStop \in BOOLEAN
  /\ freed \in BOOLEAN

\* The core is never entered by two threads: only the owner of control->lock
\* runs frames, as the comment at arcl_control.h:83 requires.
CoreExclusive ==
  /\ \A w \in Worker : worker[w] = "frame" <=> lock = w
  /\ pc["mcp"] = "frames" <=> lock = "mcp"

\* No thread is leaked: a worker that exists is either the session's, or some
\* thread holds its handle and will wait for it; and no handle has two owners.
HandleOwned ==
  /\ resuming <=> resumeThread # NULL
  /\ \A w \in Worker : worker[w] # "none" =>
        w = resumeThread \/ \E t \in Ctl : joining[t] = w
  /\ \A t \in Ctl : joining[t] # NULL =>
        joining[t] # resumeThread /\ \A u \in Ctl \ {t} : joining[u] # joining[t]

\* Paused means still: with the session stopped no worker is inside a frame,
\* even before pause_and_join has waited for it.
PausedIsStill == ~resuming => \A w \in Worker : worker[w] # "frame"

\* Nothing touches the control structure once shutdown freed it: no worker
\* exists, the GUI thread is gone, the MCP thread is done.
FreedIsQuiet ==
  freed => /\ pc["gui"] = "gone" /\ pc["mcp"] = "done"
           /\ lock = "free"
           /\ \A w \in Worker : worker[w] = "none"

\* A frame label tells where the machine is, in the live machine and in every
\* state kept in a slot or in the ring: it is the number of frames executed,
\* or one more if the core's first retro_run() was counted as a frame.
LabelFits(snap) == snap.frame - snap.machine.guest \in {0, 1}
FrameIsPosition ==
  /\ LabelFits(Snap(frame, machine))
  /\ \A s \in Slot : saves[s] # NULL => LabelFits(saves[s])
  /\ \A i \in 0..Depth-1 : ring.slot[i] # NULL => LabelFits(ring.slot[i])

\* Without a window: a request that pauses leaves, when its reply is out, no
\* session and no worker, and its reply says so.
SynchronouslyPaused ==
  (reply # NULL /\ pc["mcp"] = "idle") =>
    (reply.ok /\ PausingOp(reply.op) =>
       ~resuming /\ Live = {} /\ ~reply.running)

\* Without a window: get_speed and pause_and_join never subtract a start frame
\* that lies ahead of the frame counter (the difference is unsigned).
NoSpeedWrap == resuming => speedStart <= frame

\* Without a window: a reply tells the state at the moment it is given, the
\* replies of save and load, which say "paused" unseen, included.
ReplyTruthful ==
  [][(reply' # reply /\ reply' # NULL /\ reply'.ok) =>
        reply'.frame = frame' /\ reply'.running = resuming']_vars

\* A frame that is counted is a frame that was executed: "every retro_run()
\* call executes exactly one frame, unconditionally" (frontend_core.c:546).
CountedIsExecuted ==
  [][(pc["mcp"] = "frames" /\ frame' # frame) =>
        machine'.guest = machine.guest + 1]_vars

\* Every request, and the end of the session, is answered: the MCP thread
\* never waits for ever.
Answered == (pc["mcp"] # "idle") ~> (pc["mcp"] \in {"idle", "done"})

\* arcl_run "always return[s] paused and synchronously"
\* (arcl_common_spec.en.md:126): at the least, it returns.
RunReturns == (call["mcp"].op = "run") ~> (pc["mcp"] = "idle")

\* Once nobody resumes any more, every worker leaves its loop.
WorkersDrain == (<>[]~resuming) => <>[](Live = {})
=============================================================================
