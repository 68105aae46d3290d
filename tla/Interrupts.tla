----------------------------- MODULE Interrupts -----------------------------
(***************************************************************************)
(* Interrupts of the machine: the request lines (x68k/irqh.c), the MFP     *)
(* with its sources (x68k/mfp.c) and the keyboard's ring and latch         *)
(* (libretro/keyboard.c), as the guest sees them.                          *)
(*                                                                         *)
(* All of it happens on the thread that runs the frame.  A saved state     *)
(* holds the lines, the MFP, the latched key and the CPU, but neither the  *)
(* ring nor whether the latched key has been read.                         *)
(*                                                                         *)
(* An MFP source is the number MFP_Int gets, 0 the first in priority.  The *)
(* devices that share level 1 are one here.                                *)
(***************************************************************************)
EXTENDS Integers, Sequences

CONSTANTS
  Source,    \* MFP sources
  Kbd,       \* the keyboard's, 3
  Code,      \* key codes
  NoKey,     \* 0, nothing latched
  RingSize,  \* KeyBufSize
  Loadable   \* bound: the saved states

Level == {1, 6}
Mask  == {0, 1, 6, 7}
Saved == [ier : SUBSET Source, ipr : SUBSET Source, imr : SUBSET Source,
          isr : SUBSET Source, in_service : BOOLEAN, mask : Mask,
          device : BOOLEAN, last_key : Code \cup {NoKey}]

ASSUME InterruptsAssumption ==
  /\ Source \subseteq 0..15
  /\ Kbd \in Source
  /\ NoKey \notin Code
  /\ RingSize \in Nat \ {0, 1}
  /\ Loadable \subseteq Saved
  /\ \A s \in Loadable : s.ipr \subseteq s.ier

VARIABLES
  requested,   \* IRQH_IRQ
  line,        \* C68K.IRQLine
  mask,        \* C68K.flag_I
  ier, ipr, imr, isr, \* the MFP's registers, A and B as one set
  in_service,  \* VR bit 3: accepted sources wait for the guest's end
  ring,        \* KeyBuf from KeyBufRP to KeyBufWP
  key_flag,    \* KeyIntFlag
  last_key,    \* LastKey
  owing,       \* codes put into the ring and not read
  taken,       \* the key interrupt was accepted and the key not read yet
  forgone      \* the guest, or a loaded state, dropped the key interrupt

irqVars == <<requested, line>>
mfpVars == <<ier, ipr, imr, isr, in_service>>
keyVars == <<ring, key_flag, last_key, owing, taken, forgone>>
vars == <<irqVars, mask, mfpVars, keyVars>>

Highest(req) ==
  IF \A l \in Level : ~req[l] THEN 0
  ELSE CHOOSE l \in Level : req[l] /\ \A k \in Level : req[k] => k <= l

\* What MFP_Init enables and unmasks: 0x18 and 0x3e.
FirstEnabled == Source \cap ({3, 4} \cup 10..14)

Init ==
  /\ requested = [l \in Level |-> FALSE]
  /\ line = 0
  /\ mask = 7
  /\ ier = FirstEnabled
  /\ ipr = {}
  /\ imr = FirstEnabled
  /\ isr = {}
  /\ in_service = FALSE
  /\ ring = << >>
  /\ key_flag = FALSE
  /\ last_key = NoKey
  /\ owing = << >>
  /\ taken = FALSE
  /\ forgone = FALSE

-----------------------------------------------------------------------------
(* The request lines.                                                      *)

\* IRQH_Int and IRQH_IRQCallBack: the level is set or cleared, the CPU is
\* offered the highest that is left.
Offer(req) == requested' = req /\ line' = Highest(req)

Eligible(p, m, s) == (p \cap m) \ s

\* Mutant: nothing is withdrawn.
RecheckNever == Offer([requested EXCEPT ![6] =
                         @ \/ Eligible(ipr', imr', isr') # {}])

\* MFP_RecheckInt, and the end of MFP_IntCallback: level 6 is asked for again
\* while a source is pending, unmasked and not in service.
Recheck == Offer([requested EXCEPT ![6] = Eligible(ipr', imr', isr') # {}])

\* MFP_Int: a source that is not enabled is dropped.
MfpInt(s) ==
  /\ ipr' = IF s \in ier THEN ipr \cup {s} ELSE ipr
  /\ IF s \in (ier \cap imr) \ isr
     THEN Offer([requested EXCEPT ![6] = TRUE])
     ELSE UNCHANGED irqVars

\* Timers, the raster and the CRTC.
Interrupt ==
  /\ \E s \in Source \ {Kbd} : MfpInt(s)
  /\ UNCHANGED <<mask, ier, imr, isr, in_service, keyVars>>

\* A disk controller or a drive.
DeviceInterrupt ==
  /\ Offer([requested EXCEPT ![1] = TRUE])
  /\ UNCHANGED <<mask, mfpVars, keyVars>>

-----------------------------------------------------------------------------
(* The CPU and the guest.                                                  *)

\* CHECK_INT and my_irqh_callback.
AcceptDevice ==
  /\ line = 1
  /\ line > mask
  /\ Offer([requested EXCEPT ![1] = FALSE])
  /\ mask' = 1
  /\ UNCHANGED <<mfpVars, keyVars>>

\* The eligible source of the highest priority.
First(s) ==
  /\ s \in Eligible(ipr, imr, isr)
  /\ \A r \in Eligible(ipr, imr, isr) : s <= r

AcceptMfp ==
  /\ line = 6
  /\ line > mask
  /\ \E s \in Source :
       /\ First(s)
       /\ ipr' = ipr \ {s}
       /\ isr' = IF in_service THEN isr \cup {s} ELSE isr
       /\ taken' = (taken \/ (s = Kbd /\ key_flag))
  /\ UNCHANGED <<ier, imr, in_service, ring, key_flag, last_key, owing,
                 forgone>>
  /\ Recheck
  /\ mask' = 6

SetMask ==
  /\ mask' \in Mask
  /\ UNCHANGED <<irqVars, mfpVars, keyVars>>

\* The guest writes the MFP's registers.  A source it disables is no longer
\* pending; it can only clear bits of IPR and ISR.
WriteIER ==
  /\ ier' \in SUBSET Source
  /\ ipr' = ipr \cap ier'
  /\ UNCHANGED <<mask, imr, isr, in_service>>

WriteIPR ==
  /\ ipr' \in SUBSET ipr
  /\ UNCHANGED <<mask, ier, imr, isr, in_service>>

WriteISR ==
  /\ isr' \in SUBSET isr
  /\ UNCHANGED <<mask, ier, ipr, imr, in_service>>

WriteIMR ==
  /\ imr' \in SUBSET Source
  /\ UNCHANGED <<mask, ier, ipr, isr, in_service>>

Write ==
  /\ WriteIER \/ WriteIPR \/ WriteISR \/ WriteIMR
  /\ Recheck
  /\ forgone' = (forgone \/ (key_flag /\ Kbd \in ipr \ ipr'))
  /\ UNCHANGED <<ring, key_flag, last_key, owing, taken>>

WriteVR ==
  /\ in_service' \in BOOLEAN
  /\ UNCHANGED <<irqVars, mask, ier, ipr, imr, isr, keyVars>>

-----------------------------------------------------------------------------
(* The keyboard.                                                           *)

\* send_keycode: a full ring drops the code.
SendKey ==
  /\ \E c \in Code :
       IF Len(ring) < RingSize - 1
       THEN ring' = Append(ring, c) /\ owing' = Append(owing, c)
       ELSE UNCHANGED <<ring, owing>>
  /\ UNCHANGED <<irqVars, mask, mfpVars, key_flag, last_key, taken, forgone>>

\* Mutant: the flag is not looked at.
KeyboardIntAlways ==
  /\ ring # << >>
  /\ last_key' = Head(ring)
  /\ ring' = Tail(ring)
  /\ key_flag' = TRUE
  /\ MfpInt(Kbd)
  /\ forgone' = (forgone \/ Kbd \notin ier)
  /\ UNCHANGED <<mask, ier, imr, isr, in_service, owing, taken>>

\* Keyboard_Int, four times a frame: the next code is latched when the last
\* has been read.
KeyboardInt ==
  /\ ring # << >>
  /\ ~key_flag
  /\ last_key' = Head(ring)
  /\ ring' = Tail(ring)
  /\ key_flag' = TRUE
  /\ MfpInt(Kbd)
  /\ forgone' = (Kbd \notin ier)
  /\ UNCHANGED <<mask, ier, imr, isr, in_service, owing, taken>>

\* Keyboard_Int with an empty ring.
KeyboardIdle ==
  /\ ring = << >>
  /\ ~key_flag
  /\ last_key' = NoKey
  /\ UNCHANGED <<irqVars, mask, mfpVars, ring, key_flag, owing, taken,
                 forgone>>

\* The guest reads UDR, in its handler or by polling.
ReadUDR ==
  /\ key_flag' = FALSE
  /\ owing' = IF key_flag THEN Tail(owing) ELSE owing
  /\ taken' = FALSE
  /\ forgone' = FALSE
  /\ UNCHANGED <<irqVars, mask, mfpVars, ring, last_key>>

-----------------------------------------------------------------------------
(* Requests of the other layers.                                           *)

Latched(flag, key) == IF flag THEN <<key>> ELSE << >>

\* The lines, the MFP, the CPU and the latched key are those of an earlier
\* moment, when they fitted each other.  The ring and the flag stay.
Load ==
  /\ \E s \in Loadable :
       /\ ier' = s.ier
       /\ ipr' = s.ipr
       /\ imr' = s.imr
       /\ isr' = s.isr
       /\ in_service' = s.in_service
       /\ mask' = s.mask
       /\ last_key' = s.last_key
       /\ Offer([l \in Level |-> IF l = 1 THEN s.device
                                ELSE Eligible(s.ipr, s.imr, s.isr) # {}])
  /\ owing' = Latched(key_flag, last_key') \o ring
  /\ taken' = FALSE
  /\ forgone' = key_flag
  /\ UNCHANGED <<ring, key_flag>>

\* Mutant: Keyboard_Init is not called.
NoKeyboardInit == UNCHANGED <<ring, key_flag, owing>>

\* Keyboard_Init; what was latched stays, unread.
KeyboardInit == ring' = << >> /\ key_flag' = FALSE /\ owing' = << >>

\* WinX68k_Reset: C68k_Reset, MFP_Init, IRQH_Init and Keyboard_Init.
Reset ==
  /\ requested' = [l \in Level |-> FALSE]
  /\ line' = 0
  /\ mask' = 7
  /\ ier' = FirstEnabled
  /\ ipr' = {}
  /\ imr' = FirstEnabled
  /\ isr' = {}
  /\ in_service' = FALSE
  /\ KeyboardInit
  /\ taken' = FALSE
  /\ forgone' = FALSE
  /\ UNCHANGED last_key

-----------------------------------------------------------------------------
Next ==
  \/ Interrupt \/ DeviceInterrupt \/ AcceptDevice \/ AcceptMfp
  \/ SetMask \/ Write \/ WriteVR
  \/ SendKey \/ KeyboardInt \/ KeyboardIdle \/ ReadUDR
  \/ Load \/ Reset

Spec == Init /\ [][Next]_vars

-----------------------------------------------------------------------------
(* Correctness                                                             *)

TypeOK ==
  /\ requested \in [Level -> BOOLEAN]
  /\ line \in Level \cup {0}
  /\ mask \in Mask
  /\ ier \in SUBSET Source /\ ipr \in SUBSET Source
  /\ imr \in SUBSET Source /\ isr \in SUBSET Source
  /\ in_service \in BOOLEAN
  /\ ring \in Seq(Code) /\ Len(ring) < RingSize
  /\ key_flag \in BOOLEAN
  /\ last_key \in Code \cup {NoKey}
  /\ owing \in Seq(Code \cup {NoKey})
  /\ taken \in BOOLEAN /\ forgone \in BOOLEAN

\* No interrupt is forgotten and none comes without a cause: the CPU is offered
\* the highest request, and level 6 is requested exactly while a source of the
\* MFP is enabled, pending, unmasked and not in service ("MFP Int w/o Request",
\* mfp.c:58, is never reached).
LineIsPending ==
  /\ line = Highest(requested)
  /\ requested[6] <=> Eligible(ipr, imr, isr) # {}
  /\ ipr \subseteq ier

\* Between jumps the guest reads every code the ring took, in order, none
\* twice, also if it polls or has the interrupt masked for a time.
KeysInOrder == owing = Latched(key_flag, last_key) \o ring

\* The keyboard waits for the guest only while its interrupt is pending or
\* accepted, or was dropped: by a guest that had it disabled or cleared it, or
\* by a loaded state.
KeyboardNotStuck == key_flag => Kbd \in ipr \/ taken \/ forgone
=============================================================================
