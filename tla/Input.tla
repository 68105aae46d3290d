------------------------------- MODULE Input -------------------------------
(***************************************************************************)
(* Keyboard, mouse and joypad: the L0 tools (src/windows/arcl_l0.c), the   *)
(* input state of the frontend (frontend_core.c) and its sampling in       *)
(* retro_run (libretro.c).                                                 *)
(*                                                                         *)
(* A tool sets keys one by one, each under the frontend's lock, and runs   *)
(* frames with run_frames, which pauses a session first.  Until then a     *)
(* worker may sample the keys, one by one, at the end of its frames.  What *)
(* the guest hears are the edges between two samples.                      *)
(*                                                                         *)
(* The keys include the joypad's L2, which the core takes for F12.         *)
(* COMPOSE, which would make the core look at another table, is no key     *)
(* the tools or the window can press.                                      *)
(***************************************************************************)
EXTENDS Integers, Sequences

CONSTANTS
  Keys,       \* the keys, in the order of their numbers
  KeyTable,   \* the core's table: rows of a key and the code it sends; a key
              \* may have no row, or two as 0 has, a code may be two keys'
  LShift, L2, \* two of the keys
  Shift,      \* the code of the shift keys
  Char,       \* characters
  Base,       \* the key of each character that char_to_retrok knows
  Shifted,    \* the characters typed with shift
  Motion,     \* what a mouse is moved by
  MaxText,    \* bound: characters of a text
  MaxStep,    \* PX68K_MAX_MACRO_STEPS
  MaxTotal,   \* PX68K_MAX_MACRO_TOTAL_FRAMES
  MaxMove     \* bound: motion not yet delivered

Key   == {Keys[i] : i \in 1..Len(Keys)}
Rows  == 1..Len(KeyTable)
Code  == {KeyTable[i].code : i \in Rows}
Known == DOMAIN Base
Text  == UNION {[1..n -> Char] : n \in 1..MaxText}

\* The shift key has a row, F12 has none, and no character is a shift key's.
ASSUME InputAssumption ==
  /\ Keys \in Seq(Key)
  /\ KeyTable \in Seq([key : Key, code : Code])
  /\ {LShift, L2} \subseteq Key
  /\ \E i \in Rows : KeyTable[i] = [key |-> LShift, code |-> Shift]
  /\ \A i \in Rows : KeyTable[i].key # L2
  /\ \A i \in Rows : KeyTable[i].key = LShift => KeyTable[i].code = Shift
  /\ Known \subseteq Char
  /\ \A c \in Known :
       /\ Base[c] \in Key \ {LShift, L2}
       /\ \A i \in Rows : KeyTable[i].key = Base[c] => KeyTable[i].code # Shift
  /\ Shifted \subseteq Char
  /\ Motion \subseteq Int
  /\ {MaxText, MaxStep, MaxTotal, MaxMove} \subseteq Nat

VARIABLES
  keys,      \* g_keys and g_joypad
  pending,   \* g_mouse_pending_dx
  frame_dx,  \* g_mouse_frame_dx
  running,   \* a worker runs frames
  stage,     \* where a frame is
  next,      \* the key to sample next
  sampled,   \* Core_Key_State, as far as sampled
  old,       \* Core_old_Key_State
  menu,      \* menu_mode is not menu_out
  call,      \* the request of the MCP thread
  guest,     \* codes the guest takes for held, and what it heard of a type
  stale,     \* held codes a loaded state brought along
  owed       \* motion asked for and neither delivered nor cleared

frameVars == <<stage, next, sampled, old, menu>>
vars == <<keys, pending, frame_dx, running, frameVars, call, guest,
          stale, owed>>

NoKeys == [k \in Key |-> FALSE]
Held   == {k \in Key : keys[k]}
Idle   == [op |-> "none", macro |-> FALSE, count |-> 0, used |-> 0,
           text |-> << >>, rest |-> << >>, todo |-> << >>, left |-> 0,
           ok |-> TRUE, before |-> NoKeys]

Init ==
  /\ keys = NoKeys
  /\ pending = 0
  /\ frame_dx = 0
  /\ running = FALSE
  /\ stage = "none"
  /\ next = 1
  /\ sampled = NoKeys
  /\ old = NoKeys
  /\ menu = FALSE
  /\ call = Idle
  /\ guest = [down |-> {}, heard |-> << >>]
  /\ stale = {}
  /\ owed = 0

-----------------------------------------------------------------------------
(* What the handlers do, as calls of the frontend and of run_frames.       *)

Set(k, b)    == [do |-> "key", key |-> k, down |-> b]
Run(n)       == [do |-> "run", frames |-> n]
Move(d)      == [do |-> "move", dx |-> d]
Clear        == [do |-> "clear"]
Tap(k, n)    == <<Set(k, TRUE), Run(n), Set(k, FALSE)>>

\* Mutant: shift and the key go down together.
KeystrokesAtOnce(c) ==
  IF c \in Shifted
  THEN <<Set(LShift, TRUE)>> \o Tap(Base[c], 1) \o <<Set(LShift, FALSE), Run(1)>>
  ELSE Tap(Base[c], 1) \o <<Run(1)>>

\* Shift a frame ahead of the key, both released together, and a gap frame.
Keystrokes(c) ==
  IF c \in Shifted
  THEN <<Set(LShift, TRUE), Run(1)>> \o Tap(Base[c], 1)
         \o <<Set(LShift, FALSE), Run(1)>>
  ELSE Tap(Base[c], 1) \o <<Run(1)>>

Does(op, todo) == [op |-> op, text |-> << >>, todo |-> todo, ok |-> TRUE]
Fails(op)      == [op |-> op, text |-> << >>, todo |-> << >>, ok |-> FALSE]

\* Mutant: the characters are looked up as they are typed.
TypeAsItGoes(t) ==
  LET n == CHOOSE i \in 0..Len(t) :
             /\ \A j \in 1..i : t[j] \in Known
             /\ i < Len(t) => t[i+1] \notin Known
  IN  [op |-> "type", text |-> SubSeq(t, 1, n), todo |-> << >>,
       ok |-> n = Len(t)]

\* Every character is looked up before the first is typed.
Type(t) ==
  IF \A i \in 1..Len(t) : t[i] \in Known
  THEN [op |-> "type", text |-> t, todo |-> << >>, ok |-> TRUE]
  ELSE Fails("type")

\* The requests; one that only reads changes nothing.
Handlers ==
  {Does("key", <<Set(k, b)>>) : k \in Key, b \in BOOLEAN}
  \cup {Does("key", Tap(k, 1)) : k \in Key}
  \cup {Does("mouse", <<Move(d)>>) :
          d \in {e \in Motion : pending + e \in -MaxMove..MaxMove}}
  \cup {Does("clear", <<Clear>>), Fails("key")}
  \cup {Type(t) : t \in Text}

-----------------------------------------------------------------------------
(* The MCP thread.                                                         *)

AllUp == Held = {} /\ sampled = NoKeys /\ old = NoKeys /\ guest.down = {}

Start(h) ==
  /\ call' = [call EXCEPT !.op = h.op, !.rest = h.text, !.todo = h.todo,
                !.text = IF AllUp THEN h.text ELSE << >>,
                !.ok = h.ok, !.before = IF h.ok THEN NoKeys ELSE keys,
                !.count = IF call.macro THEN @ + 1 ELSE 0]
  /\ guest' = [guest EXCEPT !.heard = << >>]
  /\ UNCHANGED <<keys, pending, frame_dx, running, frameVars, stale,
                 owed>>

Through == call.todo = << >> /\ call.rest = << >> /\ call.left = 0

Request ==
  /\ call.op = "none"
  /\ running \/ stage = "none"
  /\ \E h \in Handlers : Start(h)

Macro ==
  /\ call.op = "none"
  /\ running \/ stage = "none"
  /\ call' = [Idle EXCEPT !.op = "macro", !.macro = TRUE]
  /\ UNCHANGED <<keys, pending, frame_dx, running, frameVars, guest,
                 stale, owed>>

\* The next step of a macro is looked at when the last one is done; one step
\* too many ends it, an invalid one is its last.
MacroStep ==
  /\ call.macro
  /\ Through
  /\ call.ok
  /\ call.count < MaxStep
  /\ \E h \in Handlers : Start(h)

\* Only the run steps have a budget.
MacroRun ==
  /\ call.macro
  /\ Through
  /\ call.ok
  /\ call.count < MaxStep
  /\ call' = IF call.used < MaxTotal
             THEN [call EXCEPT !.op = "run", !.count = @ + 1, !.text = << >>,
                     !.used = @ + 1, !.todo = <<Run(1)>>]
             ELSE [call EXCEPT !.op = "run", !.count = @ + 1, !.text = << >>,
                     !.ok = FALSE, !.before = keys]
  /\ guest' = [guest EXCEPT !.heard = << >>]
  /\ UNCHANGED <<keys, pending, frame_dx, running, frameVars, stale,
                 owed>>

NextChar ==
  /\ call.rest # << >>
  /\ call.todo = << >>
  /\ call.left = 0
  /\ call' = [call EXCEPT !.todo = Keystrokes(Head(call.rest)),
                !.rest = Tail(@)]
  /\ UNCHANGED <<keys, pending, frame_dx, running, frameVars, guest,
                 stale, owed>>

Doing(what) ==
  call.left = 0 /\ call.todo # << >> /\ Head(call.todo).do = what
Done == call' = [call EXCEPT !.todo = Tail(@)]

SetKey ==
  /\ Doing("key")
  /\ keys' = [keys EXCEPT ![Head(call.todo).key] = Head(call.todo).down]
  /\ Done
  /\ UNCHANGED <<pending, frame_dx, running, frameVars, guest, stale,
                 owed>>

MoveMouse ==
  /\ Doing("move")
  /\ LET d == Head(call.todo).dx IN
       /\ pending' = pending + d
       /\ owed' = owed + d
  /\ Done
  /\ UNCHANGED <<keys, frame_dx, running, frameVars, guest, stale>>

ClearInput ==
  /\ Doing("clear")
  /\ keys' = NoKeys
  /\ pending' = 0
  /\ owed' = owed - pending
  /\ Done
  /\ UNCHANGED <<frame_dx, running, frameVars, guest, stale>>

\* The worker is asked to stop and waited for.
RunFrames ==
  /\ Doing("run")
  /\ stage = "none"
  /\ running' = FALSE
  /\ call' = [call EXCEPT !.todo = Tail(@), !.left = Head(call.todo).frames]
  /\ UNCHANGED <<keys, pending, frame_dx, frameVars, guest, stale,
                 owed>>

Reply ==
  /\ call.op # "none"
  /\ Through
  /\ call' = Idle
  /\ guest' = [guest EXCEPT !.heard = << >>]
  /\ UNCHANGED <<keys, pending, frame_dx, running, frameVars, stale,
                 owed>>

-----------------------------------------------------------------------------
(* A frame, of the MCP thread or of the worker.                            *)

\* Mutant: the pending motion stays.
PollKeeps ==
  /\ stage = "none"
  /\ running \/ call.left > 0
  /\ stage' = "polled"
  /\ frame_dx' = pending
  /\ UNCHANGED <<keys, pending, running, next, sampled, old, menu, call,
                 guest, stale, owed>>

\* The motion asked for is that of this frame now.
Poll ==
  /\ stage = "none"
  /\ running \/ call.left > 0
  /\ stage' = "polled"
  /\ frame_dx' = pending
  /\ pending' = 0
  /\ UNCHANGED <<keys, running, next, sampled, old, menu, call, guest,
                 stale, owed>>

\* The guest has run, unless the menu is open; the mouse is moved.
MouseEvent ==
  /\ stage = "polled"
  /\ stage' = "sampling"
  /\ owed' = owed - frame_dx
  /\ UNCHANGED <<keys, pending, frame_dx, running, next, sampled, old, menu,
                 call, guest, stale>>

Sample ==
  /\ stage = "sampling"
  /\ next <= Len(Keys)
  /\ sampled' = [sampled EXCEPT ![Keys[next]] = keys[Keys[next]]]
  /\ next' = next + 1
  /\ UNCHANGED <<keys, pending, frame_dx, running, stage, old, menu, call,
                 guest, stale, owed>>

Edge(k) == sampled[k] # old[k]

\* KeyDown or KeyUp of one row of the table.
Hear(g, row) ==
  IF ~Edge(row.key) THEN g
  ELSE [down  |-> IF sampled[row.key] THEN g.down \cup {row.code}
                  ELSE g.down \ {row.code},
        heard |-> IF sampled[row.key] /\ row.code # Shift /\ call.text # << >>
                  THEN Append(g.heard, <<row.code, Shift \in g.down>>)
                  ELSE g.heard]

\* What the guest knows after the first i rows.
Walked[i \in 0..Len(KeyTable)] ==
  IF i = 0 THEN guest ELSE Hear(Walked[i-1], KeyTable[i])

\* Mutant: no key is looked at while the menu is open.
TranslateInGuest == IF menu THEN guest ELSE Walked[Len(KeyTable)]

\* handle_retrok, in the table's order.
Translate == Walked[Len(KeyTable)]

\* F12 toggles the menu when it goes down; the sample becomes the old one.
FrameEnd ==
  /\ next > Len(Keys)
  /\ stage' = "none"
  /\ next' = 1
  /\ guest' = Translate
  /\ stale' = stale \ {KeyTable[i].code : i \in {j \in Rows : Edge(KeyTable[j].key)}}
  /\ menu' = (menu # (Edge(L2) /\ sampled[L2]))
  /\ old' = sampled
  /\ sampled' = NoKeys
  /\ call' = [call EXCEPT !.left = IF running THEN @ ELSE @ - 1]
  /\ UNCHANGED <<keys, pending, frame_dx, running, owed>>

-----------------------------------------------------------------------------
(* Requests of the other layers.                                           *)

Between == call.op = "none" /\ stage = "none"

Resume ==
  /\ Between
  /\ running' = TRUE
  /\ UNCHANGED <<keys, pending, frame_dx, frameVars, call, guest, stale,
                 owed>>

\* A loaded or reset guest remembers other keys; the frontend and the core's
\* old sample do not change.  Of a saved state it matters which codes were
\* held then: it may have been any.
Jump(down) ==
  /\ Between
  /\ running' = FALSE
  /\ guest' = [guest EXCEPT !.down = down]
  /\ stale' = down
  /\ UNCHANGED <<keys, pending, frame_dx, frameVars, call, owed>>

Load  == \E down \in SUBSET Code : Jump(down)
Reset == Jump({})

-----------------------------------------------------------------------------
Next ==
  \/ Request \/ Macro \/ MacroStep \/ MacroRun \/ NextChar
  \/ SetKey \/ MoveMouse \/ ClearInput \/ RunFrames \/ Reply
  \/ Poll \/ MouseEvent \/ Sample \/ FrameEnd
  \/ Resume \/ Load \/ Reset

Spec == Init /\ [][Next]_vars

-----------------------------------------------------------------------------
(* Correctness                                                             *)

\* The codes of a key's rows, with or without shift.
Sends(k, shifted) ==
  LET upTo[i \in 0..Len(KeyTable)] ==
        IF i = 0 THEN << >>
        ELSE IF KeyTable[i].key = k
        THEN Append(upTo[i-1], <<KeyTable[i].code, shifted>>)
        ELSE upTo[i-1]
  IN  upTo[Len(KeyTable)]

\* The same for the characters of a text.
Spelled(t) ==
  LET upTo[n \in 0..Len(t)] ==
        IF n = 0 THEN << >>
        ELSE upTo[n-1] \o Sends(Base[t[n]], t[n] \in Shifted)
  IN  upTo[Len(t)]

\* A text that is typed with every key up, in the frontend, in the samples and
\* in the guest, is what the guest hears, character by character, repeats and
\* shifts included, also if a session was running.
TypedArrives ==
  call.text # << >> /\ call.ok /\ Through => guest.heard = Spelled(call.text)

\* The guest never takes a code for held whose keys the last sample had up,
\* menu or not, unless a loaded state brought it along.
NoStuckKey ==
  \A c \in guest.down \ stale :
    \E i \in Rows : KeyTable[i].code = c /\ old[KeyTable[i].key]

\* Motion is delivered once: what was asked for and not cleared has been
\* delivered, is the frame's, or waits for the next.
MouseConserved == owed = pending + (IF stage = "polled" THEN frame_dx ELSE 0)

\* A request or a macro step that fails leaves every key as it found it, types
\* nothing and does not stop a session.
FailsUntouched ==
  ~call.ok /\ Through =>
    keys = call.before /\ (guest.heard = << >> \/ running)
=============================================================================
