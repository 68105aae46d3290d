---------------------------- MODULE ArclSnapshot ----------------------------
(***************************************************************************)
(* Named snapshots (src/windows/arcl_l4.c) on top of the execution control.*)
(*                                                                         *)
(* arcl_save_state does its work in one critical section.  arcl_snapshot   *)
(* does not: it calls arcl_control_run_frames(0), which pauses and takes   *)
(* and releases control->lock once, and then reads or writes the core with *)
(* no lock, and moves the label in a critical section of its own.  The     *)
(* request "advance" with no frames stands for the call; `tool` is what    *)
(* the handler does after it.  The table itself is the MCP thread's alone. *)
(*                                                                         *)
(* The size of a state is constant, so a buffer is allocated once for each *)
(* entry and only a new entry can fail to get one.                         *)
(***************************************************************************)
EXTENDS ArclControl

CONSTANTS
  Name,         \* the names the client gives
  MaxSnapshot   \* ARCL_SNAPSHOT_MAX

Entries == 0..MaxSnapshot-1
Stage   == {"core", "copy", "label", "status"}
\* A blob is torn if the machine moved while it was read.
Entry   == [in_use : BOOLEAN, name : Name \cup {NULL}, frame : 0..MaxFrame,
            machine : Machine, torn : BOOLEAN]
Tool    == [action : {"create", "restore"}, name : Name, entry : Entries,
            stage : Stage, seen : Machine]

ASSUME SnapshotAssumption ==
  /\ MaxSnapshot \in Nat \ {0}
  /\ NULL \notin Name
  /\ NULL \notin Tool

VARIABLES
  snaps,   \* l4->slots
  tool     \* the create or restore the MCP thread performs

snapVars == <<vars, snaps, tool>>

Empty == [in_use |-> FALSE, name |-> NULL, frame |-> 0,
          machine |-> [booted |-> FALSE, guest |-> 0], torn |-> FALSE]

SnapInit == Init /\ snaps = [e \in Entries |-> Empty] /\ tool = NULL

Named(n) == {e \in Entries : snaps[e].in_use /\ snaps[e].name = n}
Unused   == {e \in Entries : ~snaps[e].in_use}

\* The handler has the MCP thread, between run_frames and the reply.
Handling(s) == pc["mcp"] = "report" /\ tool # NULL /\ tool.stage = s
Step(s)     == tool' = [tool EXCEPT !.stage = s]

-----------------------------------------------------------------------------
(* The requests.                                                           *)

\* The entry of that name, or else the first that is free.
Place(n) ==
  IF Named(n) # {} THEN Named(n)
  ELSE {e \in Unused : \A f \in Unused : e <= f}

\* Mutant: the handler goes to work without run_frames(0).
BeginAtOnce(action, n, e) ==
  /\ tool' = [action |-> action, name |-> n, entry |-> e, stage |-> "core",
              seen |-> Empty.machine]
  /\ call' = [call EXCEPT !["mcp"] = [op |-> "advance", arg |-> 0]]
  /\ Goto("mcp", "report")
  /\ reply' = NULL
  /\ UNCHANGED <<lock, workVars, emuVars, histVars, left, lifeVars, snaps>>

\* run_frames(0), then the handler.
Begin(action, n, e) ==
  /\ tool' = [action |-> action, name |-> n, entry |-> e, stage |-> "core",
              seen |-> Empty.machine]
  /\ call' = [call EXCEPT !["mcp"] = [op |-> "advance", arg |-> 0]]
  /\ Goto("mcp", "pause")
  /\ reply' = NULL
  /\ UNCHANGED <<lock, workVars, emuVars, histVars, left, lifeVars, snaps>>

Create ==
  /\ pc["mcp"] = "idle"
  /\ \E n \in Name : \E e \in Place(n) : Begin("create", n, e)

RestoreNamed ==
  /\ pc["mcp"] = "idle"
  /\ \E n \in Name : \E e \in Named(n) : Begin("restore", n, e)

\* No entry of that name, or none free: answered before anything is touched.
Refuse ==
  /\ pc["mcp"] = "idle"
  /\ \E n \in Name : Named(n) = {} /\ Fail("advance")
  /\ UNCHANGED <<lock, workVars, emuVars, histVars, pc, call, left, lifeVars,
                 snaps, tool>>

\* Delete does not pause; the reply reads the status under the lock.
Delete ==
  /\ pc["mcp"] = "idle"
  /\ \E n \in Name : \E e \in Named(n) :
       snaps' = [snaps EXCEPT ![e] = Empty]
  /\ call' = [call EXCEPT !["mcp"] = [op |-> "status", arg |-> 0]]
  /\ Goto("mcp", "body")
  /\ reply' = NULL
  /\ UNCHANGED <<lock, workVars, emuVars, histVars, left, lifeVars, tool>>

-----------------------------------------------------------------------------
(* Create: read the core, then its frame number.                           *)

SerializeBegin ==
  /\ Handling("core")
  /\ tool.action = "create"
  /\ tool' = [tool EXCEPT !.stage = "copy", !.seen = machine]
  /\ UNCHANGED <<vars, snaps>>

\* The blob goes into the entry before the entry gets its name and label.
Serialize ==
  /\ Handling("copy")
  /\ snaps' = [snaps EXCEPT ![tool.entry].machine = tool.seen,
                 ![tool.entry].torn =
                    \/ machine # tool.seen
                    \/ \E w \in Worker : worker[w] = "frame"]
  /\ tool' = [tool EXCEPT !.stage = "label", !.seen = Empty.machine]
  /\ UNCHANGED vars

\* No memory for the buffer of the entry or of the core: nothing was written.
SerializeFails ==
  /\ Handling("copy")
  /\ Fail("advance")
  /\ Return("mcp")
  /\ tool' = NULL
  /\ UNCHANGED <<lock, workVars, emuVars, histVars, left, lifeVars, snaps>>

\* Mutant: an entry that exists keeps its label.
LabelOnce ==
  /\ Handling("label")
  /\ tool.action = "create"
  /\ lock = "free"
  /\ snaps' = [snaps EXCEPT ![tool.entry].name = tool.name,
                 ![tool.entry].in_use = TRUE,
                 ![tool.entry].frame =
                    IF snaps[tool.entry].in_use THEN @ ELSE frame]
  /\ Step("status")
  /\ UNCHANGED vars

Label ==
  /\ Handling("label")
  /\ tool.action = "create"
  /\ lock = "free"
  /\ snaps' = [snaps EXCEPT ![tool.entry].name = tool.name,
                 ![tool.entry].in_use = TRUE,
                 ![tool.entry].frame = frame]
  /\ Step("status")
  /\ UNCHANGED vars

-----------------------------------------------------------------------------
(* Restore: write the core, then its frame number.  A blob that this       *)
(* process wrote is always accepted.                                       *)

Unserialize ==
  /\ Handling("core")
  /\ tool.action = "restore"
  /\ machine' = snaps[tool.entry].machine
  /\ Step("label")
  /\ UNCHANGED <<lock, workVars, frame, primed, histVars, callVars, lifeVars,
                 snaps>>

SetFrame ==
  /\ Handling("label")
  /\ tool.action = "restore"
  /\ lock = "free"
  /\ frame' = snaps[tool.entry].frame
  /\ Step("status")
  /\ UNCHANGED <<lock, workVars, machine, primed, histVars, callVars,
                 lifeVars, snaps>>

-----------------------------------------------------------------------------
\* The execution control goes on, except that the MCP thread does not answer
\* before the handler is through.
Control(A) ==
  /\ A
  /\ (tool # NULL /\ ~Handling("status") /\ pc["mcp"] = "report") =>
        pc'["mcp"] = "report"
  /\ tool' = IF pc'["mcp"] = "idle" THEN NULL ELSE tool
  /\ UNCHANGED snaps

HandlerStep ==
  \/ SerializeBegin \/ Serialize \/ SerializeFails \/ Label
  \/ Unserialize \/ SetFrame

SnapNext ==
  \/ Create \/ RestoreNamed \/ Refuse \/ Delete
  \/ HandlerStep
  \/ Control(Next)

SnapSpec == SnapInit /\ [][SnapNext]_snapVars

\* As Fairness of ArclControl; the MCP thread also goes on with its handler.
SnapFairSpec ==
  /\ SnapSpec
  /\ SF_snapVars(HandlerStep \/ Control(McpStep))
  /\ SF_snapVars(Control(GuiStep))
  /\ \A w \in Worker : SF_snapVars(Control(WorkerStep(w)))

-----------------------------------------------------------------------------
(* Correctness                                                             *)

\* Without a window: every snapshot a client can restore carries the label of
\* its blob, whatever its entry held before, through creations that fail half
\* way, and whenever the machine is not between its blob and its label, so do
\* the machine, the numbered slots and the ring.
SnapshotsFit ==
  /\ \A e \in Entries : snaps[e].in_use /\ ~(Handling("label") /\ tool.entry = e)
       => LabelFits(Snap(snaps[e].frame, snaps[e].machine))
  /\ tool = NULL \/ tool.stage # "label" \/ tool.action = "create"
       => FrameIsPosition

\* "ensure paused, consistent state" (arcl_l4.c:126): a snapshot in use is the
\* machine at one moment.  Without a window it is; F5 at the window takes no
\* part in run_frames and may resume a worker after it.
SnapshotsWhole == \A e \in Entries : snaps[e].in_use => ~snaps[e].torn
=============================================================================
