---------------------------- MODULE Watchpoint ----------------------------
(***************************************************************************)
(* Breakpoints and watchpoints (src/windows/arcl_watchpoint.c): a table    *)
(* that arcl_breakpoint edits (src/windows/arcl_l2.c), a hook on every bus *)
(* access (x68k/mem_wrap.c) that latches the first hit, and arcl_run's     *)
(* poll of that latch at the end of a frame (src/windows/arcl_control.c).  *)
(*                                                                         *)
(* The hook looks at the count of active entries without the table's lock  *)
(* and takes the lock only if there are some, so a bus access is two       *)
(* steps, and the MCP thread edits the table between them while the worker *)
(* runs a frame.  Only one thread is inside the core at a time:            *)
(* CoreExclusive of ArclControl.                                           *)
(***************************************************************************)
EXTENDS Integers, FiniteSets

CONSTANTS
  NULL,         \* no hit latched, no bus access in progress
  MaxWatch,     \* ARCL_WATCH_MAX
  Bus,          \* number of bus addresses, 2^24 in the code
  Word,         \* number of addresses a request can name, 2^32 in the code
  MaxLength,    \* the largest range of a request, Bus in the code
  Breakpoints,  \* the entries the client asks for
  MaxId,        \* bound: ids given out
  MaxFrame,     \* bound: frames run
  MaxRun        \* bound: the largest `frames` of a request

Slots  == 0..MaxWatch-1
Type   == {"exec", "read", "write", "access"}
Entry  == [type : Type, address : 0..Word-1, length : 0..MaxLength]
Watch  == [in_use : BOOLEAN, id : 0..MaxId, entry : Entry]
Access == [addr : 0..Bus-1, pc : 0..Bus-1, isWrite : BOOLEAN]
Hit    == [type : Type, pc : 0..Bus-1, addr : 0..Bus-1, isWrite : BOOLEAN,
           frame : 0..MaxFrame]
Holder == {"nobody", "run", "worker", "tool"}

ASSUME NullAssumption == NULL \notin Access /\ NULL \notin Hit
ASSUME SizeAssumption ==
  /\ MaxWatch \in Nat \ {0}
  /\ Bus \in Nat \ {0}
  /\ MaxLength \in Nat
  /\ Word \in Nat
  /\ Bus + MaxLength <= Word
  /\ Breakpoints \subseteq {e \in Entry : e.length > 0}
  /\ MaxId \in Nat
  /\ MaxFrame \in Nat
  /\ MaxRun \in Nat

VARIABLES
  watches,     \* g_watches
  next_id,     \* g_next_id
  active,      \* g_watch_active_count
  hit,         \* g_hit_*, with the frame it was latched in
  core,        \* who is inside the core, holding control->lock
  access,      \* the bus access that has passed the look at the count
  resuming,    \* control->resuming
  frame,       \* control->frame
  left,        \* frames arcl_run still has to run
  until_break, \* its argument
  fired        \* an active entry was touched in the current frame of a run

tableVars == <<watches, next_id, active>>
runVars   == <<left, until_break>>
vars == <<tableVars, hit, core, access, resuming, frame, runVars, fired>>

Unused  == [in_use |-> FALSE, id |-> 0,
            entry |-> [type |-> "exec", address |-> 0, length |-> 0]]

Init ==
  /\ watches = [i \in Slots |-> Unused]
  /\ next_id = 1
  /\ active = 0
  /\ hit = NULL
  /\ core = "nobody"
  /\ access = NULL
  /\ resuming = FALSE
  /\ frame = 0
  /\ left = 0
  /\ until_break = FALSE
  /\ fired = FALSE

InUse == {i \in Slots : watches[i].in_use}
First(i, S) == i \in S /\ \A j \in S : i <= j

\* The MCP thread runs its tools while it is not itself inside the core.
McpFree == core \in {"nobody", "worker"}

-----------------------------------------------------------------------------
(* arcl_breakpoint: each is one critical section on the table's lock.      *)

\* The first slot not in use takes the entry.
Place(e) ==
  \E i \in Slots :
    /\ First(i, Slots \ InUse)
    /\ watches' = [watches EXCEPT ![i] =
                     [in_use |-> TRUE, id |-> next_id, entry |-> e]]

\* Mutants: the count, or the id, is not advanced.
AddUncounted(e) ==
  /\ McpFree
  /\ next_id <= MaxId
  /\ Place(e)
  /\ next_id' = next_id + 1
  /\ UNCHANGED <<active, hit, core, access, resuming, frame, runVars, fired>>
AddKeepsId(e) ==
  /\ McpFree
  /\ next_id <= MaxId
  /\ Place(e)
  /\ active' = active + 1
  /\ UNCHANGED <<next_id, hit, core, access, resuming, frame, runVars, fired>>

\* A full table refuses the entry and changes nothing.
Add(e) ==
  /\ McpFree
  /\ next_id <= MaxId
  /\ Place(e)
  /\ next_id' = next_id + 1
  /\ active' = active + 1
  /\ UNCHANGED <<hit, core, access, resuming, frame, runVars, fired>>

\* Mutant: the count goes down although no entry has the id.
RemoveAny(id) ==
  /\ McpFree
  /\ watches' = [i \in Slots |-> [watches[i] EXCEPT
                   !.in_use = @ /\ watches[i].id # id]]
  /\ active' = active - 1
  /\ UNCHANGED <<next_id, hit, core, access, resuming, frame, runVars, fired>>

\* Only in_use is cleared: the rest of the slot keeps its last entry.
Remove(id) ==
  /\ McpFree
  /\ \E i \in InUse :
       /\ watches[i].id = id
       /\ watches' = [watches EXCEPT ![i].in_use = FALSE]
  /\ active' = active - 1
  /\ UNCHANGED <<next_id, hit, core, access, resuming, frame, runVars, fired>>

\* Mutant: the count is left.
ClearKeepsCount ==
  /\ McpFree
  /\ watches' = [i \in Slots |-> Unused]
  /\ UNCHANGED <<next_id, active, hit, core, access, resuming, frame, runVars,
                 fired>>

\* The latched hit is left.
Clear ==
  /\ McpFree
  /\ watches' = [i \in Slots |-> Unused]
  /\ active' = 0
  /\ UNCHANGED <<next_id, hit, core, access, resuming, frame, runVars, fired>>

-----------------------------------------------------------------------------
(* The hook.                                                               *)

\* uint32_t arithmetic.
Covers(e, a) == a >= e.address /\ a < (e.address + e.length) % Word

Direction(t, isWrite) == t = "access" \/ t = (IF isWrite THEN "write" ELSE "read")

\* Mutant: slots that are not in use are compared too.
MatchesUnused(w, x) ==
  \/ w.entry.type = "exec" /\ Covers(w.entry, x.pc)
  \/ Direction(w.entry.type, x.isWrite) /\ Covers(w.entry, x.addr)

Matches(w, x) ==
  /\ w.in_use
  /\ \/ w.entry.type = "exec" /\ Covers(w.entry, x.pc)
     \/ Direction(w.entry.type, x.isWrite) /\ Covers(w.entry, x.addr)

Matching(x) == {i \in Slots : Matches(watches[i], x)}

\* The frame a hit belongs to; debugger reads and writes fall between frames.
Now == IF core = "tool" THEN frame ELSE frame + 1

Recorded(t, x) ==
  IF t = "exec"
  THEN [type |-> t, pc |-> x.pc, addr |-> x.pc, isWrite |-> FALSE, frame |-> Now]
  ELSE [type |-> t, pc |-> x.pc, addr |-> x.addr, isWrite |-> x.isWrite,
        frame |-> Now]

\* A bus access looks at the count; with no active entry that is all.
Touch ==
  /\ core # "nobody"
  /\ access = NULL
  /\ \E a \in 0..Word-1, pc \in 0..Bus-1, isWrite \in BOOLEAN :
       LET x == [addr |-> a % Bus, pc |-> pc, isWrite |-> isWrite] IN
       /\ access' = IF active = 0 THEN NULL ELSE x
       /\ fired' = (fired \/ (core = "run" /\ Matching(x) # {}))
  /\ UNCHANGED <<tableVars, hit, core, resuming, frame, runVars>>

\* Mutant: a later hit replaces the pending one.
CheckOverwrites ==
  /\ access # NULL
  /\ \/ Matching(access) = {} /\ UNCHANGED hit
     \/ \E i \in Slots :
          /\ First(i, Matching(access))
          /\ hit' = Recorded(watches[i].entry.type, access)
  /\ access' = NULL
  /\ UNCHANGED <<tableVars, core, resuming, frame, runVars, fired>>

\* Under the table's lock: the first matching entry, if no hit is pending.
Check ==
  /\ access # NULL
  /\ \/ (hit # NULL \/ Matching(access) = {}) /\ UNCHANGED hit
     \/ /\ hit = NULL
        /\ \E i \in Slots :
             /\ First(i, Matching(access))
             /\ hit' = Recorded(watches[i].entry.type, access)
  /\ access' = NULL
  /\ UNCHANGED <<tableVars, core, resuming, frame, runVars, fired>>

-----------------------------------------------------------------------------
(* Who runs the core.                                                      *)

\* arcl_run: pause_and_join, then frames under the lock.
RunEnter ==
  /\ core = "nobody"
  /\ \E n \in 1..MaxRun, ub \in BOOLEAN :
       /\ frame + n <= MaxFrame
       /\ left' = n
       /\ until_break' = ub
  /\ core' = "run"
  /\ resuming' = FALSE
  /\ fired' = FALSE
  /\ UNCHANGED <<tableVars, hit, access, frame>>

\* The end of a frame of arcl_run; the latch is polled, and taken, only for
\* until_break.
RunFrame ==
  /\ core = "run"
  /\ access = NULL
  /\ frame' = frame + 1
  /\ fired' = FALSE
  /\ IF until_break /\ hit # NULL
     THEN left' = 0 /\ hit' = NULL
     ELSE left' = left - 1 /\ UNCHANGED hit
  /\ core' = IF left' = 0 THEN "nobody" ELSE "run"
  /\ UNCHANGED <<tableVars, access, resuming, until_break>>

\* arcl_resume and arcl_pause, from either thread.
Resume ==
  /\ resuming' = TRUE
  /\ UNCHANGED <<tableVars, hit, core, access, frame, runVars, fired>>
Pause ==
  /\ resuming' = FALSE
  /\ UNCHANGED <<tableVars, hit, core, access, frame, runVars, fired>>

WorkerEnter ==
  /\ core = "nobody"
  /\ resuming
  /\ frame < MaxFrame
  /\ core' = "worker"
  /\ UNCHANGED <<tableVars, hit, access, resuming, frame, runVars, fired>>

\* The worker never polls.
WorkerFrame ==
  /\ core = "worker"
  /\ access = NULL
  /\ frame' = frame + 1
  /\ core' = "nobody"
  /\ UNCHANGED <<tableVars, hit, access, resuming, runVars, fired>>

\* read_mem, write_mem, stack and disasm go through the same bus functions.
ToolEnter ==
  /\ core = "nobody"
  /\ core' = "tool"
  /\ UNCHANGED <<tableVars, hit, access, resuming, frame, runVars, fired>>
ToolLeave ==
  /\ core = "tool"
  /\ access = NULL
  /\ core' = "nobody"
  /\ UNCHANGED <<tableVars, hit, access, resuming, frame, runVars, fired>>

-----------------------------------------------------------------------------
Edit == \/ \E e \in Breakpoints : Add(e)
        \/ \E id \in 1..MaxId : Remove(id)
        \/ Clear

Hook == Touch \/ Check

Control == RunEnter \/ RunFrame \/ Resume \/ Pause \/ WorkerEnter
           \/ WorkerFrame \/ ToolEnter \/ ToolLeave

Next == Edit \/ Hook \/ Control

Spec == Init /\ [][Next]_vars

-----------------------------------------------------------------------------
(* Correctness                                                             *)

TypeOK ==
  /\ watches \in [Slots -> Watch]
  /\ next_id \in 1..MaxId+1
  /\ active \in 0..MaxWatch
  /\ hit \in Hit \cup {NULL}
  /\ core \in Holder
  /\ access \in Access \cup {NULL}
  /\ resuming \in BOOLEAN
  /\ frame \in 0..MaxFrame
  /\ left \in 0..MaxRun
  /\ until_break \in BOOLEAN
  /\ fired \in BOOLEAN

\* The count that the hook trusts without the lock is the number of entries in
\* use: were it ever too low, breakpoints would silently stop working.
ActiveIsCount == active = Cardinality(InUse)

\* An id names one breakpoint, also after slots were reused: arcl_breakpoint's
\* remove cannot hit the wrong entry, and the next id is above all of them.
IdsUnique ==
  /\ \A i \in InUse : watches[i].id < next_id
  /\ \A i, j \in InUse : watches[i].id = watches[j].id => i = j

\* The pending hit is the oldest one: it stays as it is until a run with
\* until_break takes it at the end of a frame.
OldestHitKept ==
  [][hit # NULL /\ hit' # hit =>
       hit' = NULL /\ core = "run" /\ until_break /\ frame' = frame + 1]_vars

\* What is latched was watched at that moment, though the table may have
\* changed since the hook looked at the count: an entry then in use, of the
\* hit's type, covers the address.
HitWasWatched ==
  [][hit = NULL /\ hit' # NULL =>
       \E i \in Slots :
         /\ watches[i].in_use
         /\ watches[i].entry.type = hit'.type
         /\ hit'.addr >= watches[i].entry.address
         /\ hit'.addr < watches[i].entry.address + watches[i].entry.length]_vars

\* A run with until_break stops at the end of the first frame in which an
\* active entry was touched, and takes the hit with it.
StopsWhereFired ==
  [][core = "run" /\ until_break /\ fired /\ frame' # frame =>
       core' = "nobody" /\ hit' = NULL]_vars

\* "Returns 1 if a watchpoint or exec breakpoint fired during that frame"
\* (arcl_watchpoint.h:57-59): a run stops for a hit of the frame it just ran.
StopIsFresh ==
  [][hit # NULL /\ hit' = NULL => hit.frame = frame']_vars
=============================================================================
