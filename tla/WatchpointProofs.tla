-------------------------- MODULE WatchpointProofs --------------------------
(***************************************************************************)
(* Theorems about Watchpoint, for every size of the table, of the address  *)
(* space and of the client's breakpoints.                                  *)
(***************************************************************************)
EXTENDS Watchpoint, FiniteSetTheorems, TLAPS

-----------------------------------------------------------------------------
(* The inductive invariant.                                                *)

\* A run has frames left, and a bus access belongs to somebody in the core.
Busy ==
  /\ core = "run" => left > 0
  /\ access # NULL => core # "nobody"

\* A touch of an active entry is in the latch, or about to be: within a run
\* nobody edits the table, and the count is not zero.
Seen ==
  core = "run" /\ fired =>
    hit # NULL \/ (access # NULL /\ Matching(access) # {})

Sound == ActiveIsCount /\ IdsUnique /\ Busy /\ Seen

-----------------------------------------------------------------------------
(* The entries in use.                                                     *)

LEMMA InUseFinite ==
  /\ IsFiniteSet(InUse)
  /\ Cardinality(InUse) \in 0..MaxWatch
<1>1. IsFiniteSet(Slots) /\ Cardinality(Slots) = MaxWatch
  BY FS_Interval, SizeAssumption DEF Slots
<1>2. InUse \in SUBSET Slots
  BY DEF InUse
<1>3. IsFiniteSet(InUse) /\ Cardinality(InUse) <= MaxWatch
  BY <1>1, <1>2, FS_Subset
<1>4. Cardinality(InUse) \in Nat
  BY <1>3, FS_CardinalityType
<1> QED
  BY <1>3, <1>4, SizeAssumption

\* A slot that is free leaves room in the count.
LEMMA RoomLeft ==
  ASSUME NEW i \in Slots, i \notin InUse
  PROVE  Cardinality(InUse) < MaxWatch
<1>1. IsFiniteSet(Slots) /\ Cardinality(Slots) = MaxWatch
  BY FS_Interval, SizeAssumption DEF Slots
<1>2. InUse \in SUBSET Slots /\ InUse # Slots
  BY DEF InUse
<1>3. Cardinality(InUse) <= MaxWatch /\ Cardinality(InUse) # MaxWatch
  BY <1>1, <1>2, FS_Subset
<1> QED
  BY <1>3, InUseFinite, SizeAssumption

LEMMA PlaceUses ==
  ASSUME TypeOK, NEW e \in Entry, next_id <= MaxId, Place(e)
  PROVE  /\ watches' \in [Slots -> Watch]
         /\ \E i \in Slots \ InUse :
              /\ InUse' = InUse \cup {i}
              /\ watches' = [watches EXCEPT ![i] =
                   [in_use |-> TRUE, id |-> next_id, entry |-> e]]
<1>1. PICK i \in Slots :
        /\ i \in Slots \ InUse
        /\ watches' = [watches EXCEPT ![i] =
             [in_use |-> TRUE, id |-> next_id, entry |-> e]]
  BY DEF Place, First
<1>2. [in_use |-> TRUE, id |-> next_id, entry |-> e] \in Watch
  BY SizeAssumption DEF TypeOK, Watch
<1>3. watches' \in [Slots -> Watch]
  BY <1>1, <1>2 DEF TypeOK
<1>4. InUse' = InUse \cup {i}
  BY <1>1 DEF InUse, TypeOK
<1> QED
  BY <1>1, <1>3, <1>4

LEMMA RemoveFrees ==
  ASSUME TypeOK, NEW id \in 1..MaxId, Remove(id)
  PROVE  /\ watches' \in [Slots -> Watch]
         /\ \E i \in InUse :
              /\ InUse' = InUse \ {i}
              /\ watches' = [watches EXCEPT ![i].in_use = FALSE]
<1>1. PICK i \in InUse : watches' = [watches EXCEPT ![i].in_use = FALSE]
  BY DEF Remove
<1>2. i \in Slots /\ watches \in [Slots -> Watch]
  BY DEF InUse, TypeOK
<1>3. watches' \in [Slots -> Watch]
  BY <1>1, <1>2 DEF Watch
<1>4. InUse' = InUse \ {i}
  BY <1>1, <1>2 DEF InUse, Watch
<1> QED
  BY <1>1, <1>3, <1>4

LEMMA ClearFrees ==
  ASSUME Clear
  PROVE  watches' \in [Slots -> Watch] /\ InUse' = {}
<1>1. Unused \in Watch
  BY SizeAssumption DEF Unused, Watch, Entry, Type
<1> QED
  BY <1>1 DEF Clear, InUse, Unused

-----------------------------------------------------------------------------
(* Types.                                                                  *)

LEMMA ModRange ==
  ASSUME NEW a \in Nat, NEW d \in Nat \ {0}
  PROVE  a % d \in 0..d-1
OBVIOUS

LEMMA RecordedType ==
  ASSUME NEW t \in Type, NEW x \in Access, Now \in 0..MaxFrame
  PROVE  Recorded(t, x) \in Hit /\ Recorded(t, x) # NULL
<1>1. Recorded(t, x) \in Hit
  BY DEF Recorded, Hit, Access
<1> QED
  BY <1>1, NullAssumption

\* Whoever runs a frame was let in below the bound.
Bounded ==
  /\ core = "run" => frame + left <= MaxFrame
  /\ core = "worker" => frame < MaxFrame

LEMMA TypeInit == Init => TypeOK /\ Sound /\ Bounded
<1> SUFFICES ASSUME Init PROVE TypeOK /\ Sound /\ Bounded
  OBVIOUS
<1> USE DEF Init
<1>1. Unused \in Watch
  BY SizeAssumption DEF Unused, Watch, Entry, Type
<1>2. TypeOK
  <2>1. watches \in [Slots -> Watch]
    BY <1>1
  <2>2. next_id \in 1..MaxId+1 /\ active \in 0..MaxWatch
    BY SizeAssumption
  <2>3. frame \in 0..MaxFrame /\ left \in 0..MaxRun
    BY SizeAssumption
  <2> QED
    BY <2>1, <2>2, <2>3 DEF TypeOK, Holder
<1>3. InUse = {}
  BY DEF InUse, Unused
<1>4. ActiveIsCount
  BY <1>3, FS_EmptySet DEF ActiveIsCount
<1>5. IdsUnique /\ Busy /\ Seen /\ Bounded
  BY <1>3 DEF IdsUnique, Busy, Seen, Bounded
<1> QED
  BY <1>2, <1>4, <1>5 DEF Sound

LEMMA NextCases ==
  ASSUME TypeOK, [Next]_vars
  PROVE  \/ \E e \in Entry : Add(e)
         \/ \E id \in 1..MaxId : Remove(id)
         \/ Clear \/ Touch \/ Check
         \/ RunEnter \/ RunFrame \/ Resume \/ Pause \/ WorkerEnter
         \/ WorkerFrame \/ ToolEnter \/ ToolLeave
         \/ UNCHANGED vars
BY SizeAssumption DEF Next, Edit, Hook, Control

LEMMA TypeNext ==
  TypeOK /\ Sound /\ Bounded /\ [Next]_vars => TypeOK' /\ Bounded'
<1> SUFFICES ASSUME TypeOK, Sound, Bounded, [Next]_vars
             PROVE  TypeOK' /\ Bounded'
  OBVIOUS
<1> USE DEF TypeOK, Bounded
<1>1. ASSUME NEW e \in Entry, Add(e) PROVE TypeOK' /\ Bounded'
  <2>1. watches' \in [Slots -> Watch] /\ \E i \in Slots : i \notin InUse
    BY <1>1, PlaceUses DEF Add
  <2>2. active' \in 0..MaxWatch
    BY <1>1, <2>1, RoomLeft, InUseFinite, SizeAssumption
    DEF Add, Sound, ActiveIsCount
  <2>3. next_id' \in 1..MaxId+1
    BY <1>1, SizeAssumption DEF Add
  <2> QED
    BY <1>1, <2>1, <2>2, <2>3 DEF Add, runVars
<1>2. ASSUME NEW id \in 1..MaxId, Remove(id) PROVE TypeOK' /\ Bounded'
  <2>1. watches' \in [Slots -> Watch] /\ InUse # {}
    BY <1>2, RemoveFrees
  <2>2. Cardinality(InUse) # 0
    BY <2>1, InUseFinite, FS_EmptySet
  <2>3. active' \in 0..MaxWatch
    BY <1>2, <2>2, InUseFinite, SizeAssumption
    DEF Remove, Sound, ActiveIsCount
  <2> QED
    BY <1>2, <2>1, <2>3 DEF Remove, runVars
<1>3. CASE Clear
  BY <1>3, ClearFrees, SizeAssumption DEF Clear, runVars
<1>4. CASE Touch
  <2>1. access' \in Access \cup {NULL} /\ fired' \in BOOLEAN
    <3>1. PICK a \in 0..Word-1, pc \in 0..Bus-1, isWrite \in BOOLEAN :
            /\ access' \in {NULL, [addr |-> a % Bus, pc |-> pc, isWrite |-> isWrite]}
            /\ fired' \in BOOLEAN
      BY <1>4 DEF Touch
    <3>2. a % Bus \in 0..Bus-1
      BY SizeAssumption, ModRange
    <3> QED
      BY <3>1, <3>2 DEF Access
  <2> QED
    BY <1>4, <2>1 DEF Touch, tableVars, runVars
<1>5. CASE Check
  <2>1. hit' \in Hit \cup {NULL}
    <3>1. CASE UNCHANGED hit
      BY <3>1
    <3>2. ASSUME NEW i \in Slots, hit' = Recorded(watches[i].entry.type, access)
          PROVE  hit' \in Hit
      <4>1. watches[i].entry.type \in Type
        BY DEF Watch, Entry
      <4>2. access \in Access
        BY <1>5 DEF Check
      <4>3. Now \in 0..MaxFrame
        BY <1>5, SizeAssumption DEF Now, Check, Sound, Busy, Holder
      <4> QED
        BY <3>2, <4>1, <4>2, <4>3, RecordedType
    <3> QED
      BY <1>5, <3>1, <3>2 DEF Check
  <2> QED
    BY <1>5, <2>1 DEF Check, tableVars, runVars
<1>6. CASE RunEnter
  <2>1. /\ left' \in 1..MaxRun
        /\ until_break' \in BOOLEAN
        /\ frame' + left' <= MaxFrame
    BY <1>6 DEF RunEnter
  <2>2. left' \in 0..MaxRun
    BY <2>1, SizeAssumption
  <2> QED
    BY <1>6, <2>1, <2>2 DEF RunEnter, tableVars, Holder
<1>7. CASE RunFrame
  <2>1. left' \in 0..MaxRun /\ (left' = 0 \/ left' = left - 1)
    BY <1>7, SizeAssumption DEF RunFrame, Sound, Busy
  <2>2. hit' \in Hit \cup {NULL}
    BY <1>7 DEF RunFrame
  <2>3. frame' \in 0..MaxFrame /\ frame' = frame + 1
    BY <1>7, SizeAssumption DEF RunFrame, Sound, Busy
  <2>4. core' \in Holder /\ core' # "worker" /\ (core' = "run" => left' # 0)
    BY <1>7 DEF RunFrame, Holder
  <2>5. core' = "run" => frame' + left' <= MaxFrame
    <3>1. frame + left <= MaxFrame /\ frame \in Int /\ left \in Int
      BY <1>7, SizeAssumption DEF RunFrame
    <3>2. core' = "run" => left' = left - 1
      BY <2>1, <2>4
    <3> QED
      BY <2>3, <3>1, <3>2, SizeAssumption
  <2>6. fired' \in BOOLEAN /\ UNCHANGED <<tableVars, access, resuming, until_break>>
    BY <1>7 DEF RunFrame
  <2> QED
    BY <2>1, <2>2, <2>3, <2>4, <2>5, <2>6 DEF tableVars
<1>8. CASE Resume \/ Pause
  BY <1>8 DEF Resume, Pause, tableVars, runVars
<1>9. CASE WorkerEnter
  BY <1>9 DEF WorkerEnter, tableVars, runVars, Holder
<1>10. CASE WorkerFrame
  BY <1>10, SizeAssumption DEF WorkerFrame, tableVars, runVars, Holder
<1>11. CASE ToolEnter \/ ToolLeave
  BY <1>11 DEF ToolEnter, ToolLeave, tableVars, runVars, Holder
<1>12. CASE UNCHANGED vars
  BY <1>12 DEF vars, tableVars, runVars
<1> QED
  BY <1>1, <1>2, <1>3, <1>4, <1>5, <1>6, <1>7, <1>8, <1>9, <1>10, <1>11,
     <1>12, NextCases

-----------------------------------------------------------------------------
(* The inductive step.                                                     *)

LEMMA CountNext ==
  TypeOK /\ Sound /\ [Next]_vars => ActiveIsCount'
<1> SUFFICES ASSUME TypeOK, Sound, [Next]_vars PROVE ActiveIsCount'
  OBVIOUS
<1>c. active = Cardinality(InUse) /\ IsFiniteSet(InUse)
  BY InUseFinite DEF Sound, ActiveIsCount
<1>1. ASSUME NEW e \in Entry, Add(e) PROVE ActiveIsCount'
  <2>1. PICK i \in Slots \ InUse : InUse' = InUse \cup {i}
    BY <1>1, PlaceUses DEF Add
  <2>2. Cardinality(InUse') = Cardinality(InUse) + 1
    BY <1>c, <2>1, FS_AddElement
  <2> QED
    BY <1>1, <1>c, <2>2 DEF Add, ActiveIsCount
<1>2. ASSUME NEW id \in 1..MaxId, Remove(id) PROVE ActiveIsCount'
  <2>1. PICK i \in InUse : InUse' = InUse \ {i}
    BY <1>2, RemoveFrees
  <2>2. Cardinality(InUse') = Cardinality(InUse) - 1
    BY <1>c, <2>1, FS_RemoveElement
  <2> QED
    BY <1>2, <1>c, <2>2 DEF Remove, ActiveIsCount
<1>3. CASE Clear
  BY <1>3, ClearFrees, FS_EmptySet DEF Clear, ActiveIsCount
<1>4. CASE UNCHANGED <<watches, active>>
  BY <1>4, <1>c DEF ActiveIsCount, InUse
<1> QED
  BY <1>1, <1>2, <1>3, <1>4, NextCases
  DEF Touch, Check, RunEnter, RunFrame, Resume, Pause, WorkerEnter,
      WorkerFrame, ToolEnter, ToolLeave, vars, tableVars

LEMMA IdsNext ==
  TypeOK /\ Sound /\ [Next]_vars => IdsUnique'
<1> SUFFICES ASSUME TypeOK, Sound, [Next]_vars PROVE IdsUnique'
  OBVIOUS
<1>u. /\ \A i \in InUse : watches[i].id < next_id
      /\ \A i, j \in InUse : watches[i].id = watches[j].id => i = j
  BY DEF Sound, IdsUnique
<1>t. /\ watches \in [Slots -> Watch]
      /\ next_id \in Nat
      /\ InUse \subseteq Slots
      /\ \A i \in Slots : watches[i].id \in Nat
  BY SizeAssumption DEF TypeOK, InUse, Watch
<1>1. ASSUME NEW e \in Entry, Add(e) PROVE IdsUnique'
  <2>1. PICK i \in Slots \ InUse :
          /\ InUse' = InUse \cup {i}
          /\ watches' = [watches EXCEPT ![i] =
               [in_use |-> TRUE, id |-> next_id, entry |-> e]]
    BY <1>1, PlaceUses DEF Add
  <2>2. watches'[i].id = next_id /\ \A j \in InUse : watches'[j] = watches[j]
    BY <1>t, <2>1
  <2>3. next_id' = next_id + 1
    BY <1>1 DEF Add
  <2>4. \A j \in InUse' : watches'[j].id < next_id'
    BY <1>u, <1>t, <2>1, <2>2, <2>3
  <2>5. \A j, k \in InUse' : watches'[j].id = watches'[k].id => j = k
    BY <1>u, <1>t, <2>1, <2>2
  <2> QED
    BY <2>4, <2>5 DEF IdsUnique
<1>2. ASSUME NEW id \in 1..MaxId, Remove(id) PROVE IdsUnique'
  <2>1. PICK i \in InUse :
          /\ InUse' = InUse \ {i}
          /\ watches' = [watches EXCEPT ![i].in_use = FALSE]
    BY <1>2, RemoveFrees
  <2>2. \A j \in InUse' : watches'[j] = watches[j]
    BY <1>t, <2>1
  <2> QED
    BY <1>2, <1>u, <2>1, <2>2 DEF Remove, IdsUnique
<1>3. CASE Clear
  BY <1>3, ClearFrees DEF IdsUnique
<1>4. CASE UNCHANGED <<watches, next_id>>
  BY <1>4, <1>u DEF IdsUnique, InUse
<1> QED
  BY <1>1, <1>2, <1>3, <1>4, NextCases
  DEF Touch, Check, RunEnter, RunFrame, Resume, Pause, WorkerEnter,
      WorkerFrame, ToolEnter, ToolLeave, vars, tableVars

LEMMA BusyNext ==
  TypeOK /\ Sound /\ [Next]_vars => Busy'
<1> SUFFICES ASSUME TypeOK, Sound, [Next]_vars PROVE Busy'
  OBVIOUS
<1> USE DEF Busy
<1>b. Busy
  BY DEF Sound
<1>1. CASE UNCHANGED <<core, left, access>>
  BY <1>1, <1>b
<1>2. CASE Touch \/ Check
  BY <1>2, <1>b DEF Touch, Check, runVars
<1>3. CASE RunEnter
  <2>1. left' > 0 /\ access' = NULL
    BY <1>3, <1>b DEF RunEnter
  <2> QED
    BY <2>1
<1>4. CASE RunFrame
  <2>1. access' = NULL /\ (core' = "run" => left' # 0)
    BY <1>4 DEF RunFrame
  <2>2. left' = 0 \/ left' = left - 1
    BY <1>4 DEF RunFrame
  <2>3. left \in Nat /\ left > 0
    BY <1>4, <1>b, SizeAssumption DEF RunFrame, TypeOK
  <2> QED
    BY <2>1, <2>2, <2>3
<1>5. CASE WorkerEnter \/ WorkerFrame \/ ToolEnter \/ ToolLeave
  BY <1>5, <1>b DEF WorkerEnter, WorkerFrame, ToolEnter, ToolLeave
<1> QED
  BY <1>1, <1>2, <1>3, <1>4, <1>5, NextCases
  DEF Add, Remove, Clear, Resume, Pause, runVars, vars

LEMMA SeenNext ==
  TypeOK /\ Sound /\ Bounded /\ [Next]_vars => Seen'
<1> SUFFICES ASSUME TypeOK, Sound, Bounded, [Next]_vars, core' = "run", fired'
             PROVE  hit' # NULL \/ (access' # NULL /\ Matching(access)' # {})
  BY DEF Seen
<1>s. Seen
  BY DEF Sound
<1>1. CASE Touch
  <2>1. PICK a \in 0..Word-1, pc \in 0..Bus-1, isWrite \in BOOLEAN :
          LET x == [addr |-> a % Bus, pc |-> pc, isWrite |-> isWrite] IN
          /\ access' = IF active = 0 THEN NULL ELSE x
          /\ fired' = (fired \/ (core = "run" /\ Matching(x) # {}))
    BY <1>1 DEF Touch
  <2> DEFINE x == [addr |-> a % Bus, pc |-> pc, isWrite |-> isWrite]
  <2>2. core = "run" /\ access = NULL /\ UNCHANGED <<watches, hit>>
    BY <1>1 DEF Touch, tableVars
  <2>3. CASE fired
    BY <1>s, <2>2, <2>3 DEF Seen
  <2>4. CASE Matching(x) # {}
    <3>1. InUse # {}
      BY <2>4 DEF Matching, Matches, InUse
    <3>2. active # 0
      BY <3>1, InUseFinite, FS_EmptySet DEF Sound, ActiveIsCount
    <3>3. access' = x
      BY <2>1, <3>2
    <3>4. x # NULL
      <4>1. a % Bus \in 0..Bus-1
        BY SizeAssumption, ModRange
      <4> QED
        BY <4>1, NullAssumption DEF Access
    <3>5. Matching(access)' = Matching(x)
      BY <2>2, <3>3 DEF Matching
    <3> QED
      BY <2>4, <3>3, <3>4, <3>5
  <2> QED
    BY <2>1, <2>3, <2>4
<1>2. CASE Check
  <2>1. core = "run" /\ fired /\ access # NULL
    BY <1>2 DEF Check
  <2>2. CASE UNCHANGED hit /\ hit # NULL
    BY <2>2
  <2>3. CASE Matching(access) = {} /\ UNCHANGED hit
    BY <1>s, <2>1, <2>3 DEF Seen
  <2>4. ASSUME NEW i \in Slots, hit' = Recorded(watches[i].entry.type, access)
        PROVE  hit' # NULL
    <3>1. watches[i].entry.type \in Type /\ access \in Access /\ Now \in 0..MaxFrame
      <4>1. watches[i].entry.type \in Type
        BY DEF TypeOK, Watch, Entry
      <4>2. access \in Access
        BY <2>1 DEF TypeOK
      <4>3. Now \in 0..MaxFrame
        BY <2>1, SizeAssumption DEF Now, Sound, Busy, Bounded, TypeOK
      <4> QED
        BY <4>1, <4>2, <4>3
    <3> QED
      BY <2>4, <3>1, RecordedType
  <2> QED
    BY <1>2, <2>2, <2>3, <2>4 DEF Check
<1>3. CASE UNCHANGED <<watches, hit, core, access, fired>>
  BY <1>3, <1>s DEF Seen, Matching
<1>4. CASE McpFree /\ UNCHANGED core
  BY <1>4 DEF McpFree
<1> QED
  BY <1>1, <1>2, <1>3, <1>4, NextCases
  DEF Add, Remove, Clear, RunEnter, RunFrame, Resume, Pause, WorkerEnter,
      WorkerFrame, ToolEnter, ToolLeave, vars, tableVars

LEMMA Invariance == Spec => [](TypeOK /\ Sound /\ Bounded)
<1>1. Init => TypeOK /\ Sound /\ Bounded
  BY TypeInit
<1>2. TypeOK /\ Sound /\ Bounded /\ [Next]_vars => (TypeOK /\ Sound /\ Bounded)'
  BY TypeNext, CountNext, IdsNext, BusyNext, SeenNext DEF Sound
<1> QED
  BY <1>1, <1>2, PTL DEF Spec

-----------------------------------------------------------------------------
(* The theorems.                                                           *)

\* Every reachable state is well typed.
THEOREM WatchTypes == Spec => []TypeOK
BY Invariance, PTL

\* The unlocked look at the count is never misled about an idle table.
THEOREM CountIsExact == Spec => []ActiveIsCount
<1>1. TypeOK /\ Sound /\ Bounded => ActiveIsCount
  BY DEF Sound
<1> QED
  BY <1>1, Invariance, PTL

\* A breakpoint id names one entry.
THEOREM IdsNameOne == Spec => []IdsUnique
<1>1. TypeOK /\ Sound /\ Bounded => IdsUnique
  BY DEF Sound
<1> QED
  BY <1>1, Invariance, PTL

\* No breakpoint is missed: a run that was asked to stops in the frame in
\* which an active entry was touched.
THEOREM NoBreakIsMissed == Spec => StopsWhereFired
<1>1. TypeOK /\ Sound /\ Bounded /\ [Next]_vars =>
        [core = "run" /\ until_break /\ fired /\ frame' # frame =>
           core' = "nobody" /\ hit' = NULL]_vars
  <2> SUFFICES ASSUME TypeOK, Sound, Bounded, [Next]_vars,
                      core = "run", until_break, fired, frame' # frame
               PROVE  core' = "nobody" /\ hit' = NULL
    OBVIOUS
  <2>1. RunFrame
    BY NextCases
    DEF Add, Remove, Clear, Touch, Check, RunEnter, Resume, Pause,
        WorkerEnter, WorkerFrame, ToolEnter, ToolLeave, vars
  <2>2. hit # NULL
    BY <2>1 DEF RunFrame, Sound, Seen
  <2> QED
    BY <2>1, <2>2 DEF RunFrame
<1> QED
  BY <1>1, Invariance, PTL DEF Spec, StopsWhereFired

\* The pending hit is the first one and is taken only by a run that asked.
THEOREM FirstHitIsKept == Spec => OldestHitKept
<1>1. TypeOK /\ [Next]_vars =>
        [hit # NULL /\ hit' # hit =>
           hit' = NULL /\ core = "run" /\ until_break /\ frame' = frame + 1]_vars
  <2> SUFFICES ASSUME TypeOK, [Next]_vars, hit # NULL, hit' # hit
               PROVE  hit' = NULL /\ core = "run" /\ until_break
                      /\ frame' = frame + 1
    OBVIOUS
  <2>1. RunFrame
    BY NextCases
    DEF Add, Remove, Clear, Touch, Check, RunEnter, Resume, Pause,
        WorkerEnter, WorkerFrame, ToolEnter, ToolLeave, vars
  <2> QED
    BY <2>1 DEF RunFrame
<1> QED
  BY <1>1, WatchTypes, PTL DEF Spec, OldestHitKept

\* What is latched is covered by an entry that is in use at that moment.
THEOREM HitsWereWatched == Spec => HitWasWatched
<1>1. TypeOK /\ [Next]_vars =>
        [hit = NULL /\ hit' # NULL =>
           \E i \in Slots :
             /\ watches[i].in_use
             /\ watches[i].entry.type = hit'.type
             /\ hit'.addr >= watches[i].entry.address
             /\ hit'.addr < watches[i].entry.address
                            + watches[i].entry.length]_vars
  <2> SUFFICES ASSUME TypeOK, [Next]_vars, hit = NULL, hit' # NULL
               PROVE  \E i \in Slots :
                        /\ watches[i].in_use
                        /\ watches[i].entry.type = hit'.type
                        /\ hit'.addr >= watches[i].entry.address
                        /\ hit'.addr < watches[i].entry.address
                                       + watches[i].entry.length
    OBVIOUS
  <2>1. Check
    BY NextCases
    DEF Add, Remove, Clear, Touch, RunFrame, RunEnter, Resume, Pause,
        WorkerEnter, WorkerFrame, ToolEnter, ToolLeave, vars
  <2>2. PICK i \in Slots :
          /\ Matches(watches[i], access)
          /\ hit' = Recorded(watches[i].entry.type, access)
    BY <2>1 DEF Check, First, Matching
  <2>3. Covers(watches[i].entry, hit'.addr) /\ hit'.type = watches[i].entry.type
    BY <2>2 DEF Recorded, Matches, Direction
  <2>4. (watches[i].entry.address + watches[i].entry.length) % Word
          <= watches[i].entry.address + watches[i].entry.length
    <3>1. /\ watches[i].entry.address \in Nat
          /\ watches[i].entry.length \in Nat
          /\ Word \in Nat \ {0}
      BY SizeAssumption DEF TypeOK, Watch, Entry
    <3> QED
      BY <3>1
  <2>5. hit'.addr \in Int
    <3>1. access \in Access
      BY <2>1 DEF Check, TypeOK
    <3> QED
      BY <2>2, <3>1, SizeAssumption DEF Recorded, Access
  <2> QED
    <3>1. /\ watches[i].entry.address \in Int
          /\ watches[i].entry.length \in Int
          /\ (watches[i].entry.address + watches[i].entry.length) % Word \in Int
      BY SizeAssumption DEF TypeOK, Watch, Entry
    <3> QED
      BY <2>2, <2>3, <2>4, <2>5, <3>1 DEF Covers, Matches
<1> QED
  BY <1>1, WatchTypes, PTL DEF Spec, HitWasWatched
=============================================================================
