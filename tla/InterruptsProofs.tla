-------------------------- MODULE InterruptsProofs --------------------------
(***************************************************************************)
(* Theorems about Interrupts, for every set of sources and codes, every    *)
(* size of the ring and every set of saved states.                         *)
(***************************************************************************)
EXTENDS Interrupts, SequenceTheorems, TLAPS

-----------------------------------------------------------------------------
(* The lines.                                                              *)

LEMMA HighestType ==
  ASSUME NEW req \in [Level -> BOOLEAN]
  PROVE  Highest(req) \in Level \cup {0}
<1>1. CASE \A l \in Level : ~req[l]
  BY <1>1 DEF Highest
<1>2. CASE ~ \A l \in Level : ~req[l]
  <2>1. \E l \in Level : req[l] /\ \A k \in Level : req[k] => k <= l
    BY <1>2 DEF Level
  <2> QED
    BY <1>2, <2>1 DEF Highest
<1> QED
  BY <1>1, <1>2

LEMMA OfferType ==
  ASSUME NEW req \in [Level -> BOOLEAN], Offer(req)
  PROVE  /\ requested' \in [Level -> BOOLEAN]
         /\ line' \in Level \cup {0}
         /\ line' = Highest(requested')
BY HighestType DEF Offer

\* The two lines apart: what the CPU is offered, and what level 6 stands for.
LEMMA RecheckTells ==
  ASSUME requested \in [Level -> BOOLEAN], Recheck
  PROVE  /\ requested' \in [Level -> BOOLEAN]
         /\ line' \in Level \cup {0}
         /\ line' = Highest(requested')
         /\ requested'[6] <=> Eligible(ipr', imr', isr') # {}
<1> DEFINE req == [requested EXCEPT ![6] = Eligible(ipr', imr', isr') # {}]
<1>1. req \in [Level -> BOOLEAN] /\ Offer(req)
  BY DEF Recheck
<1>2. req[6] <=> Eligible(ipr', imr', isr') # {}
  BY DEF Level
<1>3. requested' = req
  BY <1>1 DEF Offer
<1> HIDE DEF req
<1> QED
  BY <1>1, <1>2, <1>3, OfferType

LEMMA MfpIntTells ==
  ASSUME requested \in [Level -> BOOLEAN], line \in Level \cup {0},
         ipr \in SUBSET Source, ier \in SUBSET Source, LineIsPending,
         NEW s \in Source, MfpInt(s), imr' = imr, isr' = isr
  PROVE  /\ requested' \in [Level -> BOOLEAN]
         /\ line' \in Level \cup {0}
         /\ line' = Highest(requested')
         /\ requested'[6] <=> Eligible(ipr', imr', isr') # {}
         /\ ipr' \in SUBSET ier
         /\ ipr \subseteq ipr'
         /\ s \in ier => s \in ipr'
<1>1. /\ ipr' = IF s \in ier THEN ipr \cup {s} ELSE ipr
      /\ ipr \subseteq ier
  BY DEF MfpInt, LineIsPending
<1>2. ipr' \in SUBSET ier /\ ipr \subseteq ipr' /\ (s \in ier => s \in ipr')
  BY <1>1
<1>3. CASE s \in (ier \cap imr) \ isr
  <2>1. Offer([requested EXCEPT ![6] = TRUE])
    BY <1>3 DEF MfpInt
  <2>2. [requested EXCEPT ![6] = TRUE] \in [Level -> BOOLEAN]
    OBVIOUS
  <2>3. requested' = [requested EXCEPT ![6] = TRUE]
    BY <2>1 DEF Offer
  <2>4. requested'[6]
    BY <2>3 DEF Level
  <2>5. s \in Eligible(ipr', imr', isr')
    BY <1>1, <1>3 DEF Eligible
  <2> QED
    BY <1>2, <2>1, <2>2, <2>4, <2>5, OfferType
<1>4. CASE s \notin (ier \cap imr) \ isr
  <2>1. UNCHANGED irqVars
    BY <1>4 DEF MfpInt
  <2>2. Eligible(ipr', imr', isr') = Eligible(ipr, imr, isr)
    BY <1>1, <1>4 DEF Eligible
  <2> QED
    BY <1>2, <2>1, <2>2 DEF irqVars, LineIsPending
<1> QED
  BY <1>3, <1>4

-----------------------------------------------------------------------------
(* The ring.                                                               *)

LEMMA LatchedType ==
  ASSUME NEW flag \in BOOLEAN, NEW k \in Code \cup {NoKey}, NEW r \in Seq(Code)
  PROVE  Latched(flag, k) \o r \in Seq(Code \cup {NoKey})
<1>1. r \in Seq(Code \cup {NoKey})
  OBVIOUS
<1>2. Latched(flag, k) \in Seq(Code \cup {NoKey})
  <2>1. CASE flag
    BY <2>1 DEF Latched
  <2>2. CASE ~flag
    BY <2>2 DEF Latched
  <2> QED
    BY <2>1, <2>2
<1> QED
  BY <1>1, <1>2

LEMMA NothingLatched ==
  ASSUME NEW k, NEW r \in Seq(Code)
  PROVE  Latched(FALSE, k) \o r = r
BY DEF Latched

\* Reading takes the latched code, and nothing of the ring.
LEMMA ReadTakesLatched ==
  ASSUME NEW k, NEW r \in Seq(Code)
  PROVE  Tail(Latched(TRUE, k) \o r) = r
<1>1. Latched(TRUE, k) = <<k>>
  BY DEF Latched
<1> DEFINE s == <<k>> \o r
<1>2. Len(s) = Len(r) + 1 /\ \A i \in 1..Len(r) : s[i + 1] = r[i]
  OBVIOUS
<1>3. s \in Seq(Code \cup {k})
  OBVIOUS
<1>4. Tail(s) \in Seq(Code \cup {k}) /\ Len(Tail(s)) = Len(r)
  BY <1>2, <1>3
<1>5. \A i \in 1..Len(r) : Tail(s)[i] = r[i]
  BY <1>2, <1>3, <1>4
<1>6. r \in Seq(Code \cup {k})
  OBVIOUS
<1> HIDE DEF s
<1>7. Tail(s) = r
  BY <1>4, <1>5, <1>6, SeqEqual
<1> QED
  BY <1>1, <1>7 DEF s

\* Latching moves the ring's first code, and changes no order.
LEMMA LatchKeepsOrder ==
  ASSUME NEW r \in Seq(Code), r # << >>
  PROVE  Latched(TRUE, Head(r)) \o Tail(r) = r
<1>1. Latched(TRUE, Head(r)) = <<Head(r)>>
  BY DEF Latched
<1>2. Head(r) \in Code /\ Tail(r) \in Seq(Code)
  OBVIOUS
<1> DEFINE s == <<Head(r)>> \o Tail(r)
<1>3. s \in Seq(Code) /\ Len(s) = Len(r)
  BY <1>2
<1>4. \A i \in 1..Len(r) : s[i] = r[i]
  BY <1>2, <1>3
<1> HIDE DEF s
<1>5. s = r
  BY <1>3, <1>4, SeqEqual
<1> QED
  BY <1>1, <1>5 DEF s

LEMMA SentIsLast ==
  ASSUME NEW flag \in BOOLEAN, NEW k \in Code \cup {NoKey},
         NEW r \in Seq(Code), NEW c \in Code
  PROVE  Append(Latched(flag, k) \o r, c) = Latched(flag, k) \o Append(r, c)
<1> DEFINE S == Code \cup {NoKey}
           l == Latched(flag, k)
           a == Append(l \o r, c)
           b == l \o Append(r, c)
<1>1. l \in Seq(S) /\ r \in Seq(S) /\ c \in S
  <2>1. CASE flag
    BY <2>1 DEF Latched
  <2>2. CASE ~flag
    BY <2>2 DEF Latched
  <2> QED
    BY <2>1, <2>2
<1> HIDE DEF l, S
<1>2. a \in Seq(S) /\ b \in Seq(S) /\ Len(a) = Len(b)
  BY <1>1
<1>3. \A i \in 1..Len(a) : a[i] = b[i]
  BY <1>1, <1>2
<1> HIDE DEF a, b
<1>4. a = b
  BY <1>2, <1>3, SeqEqual
<1> QED
  BY <1>4 DEF a, b, l

-----------------------------------------------------------------------------
(* The inductive invariant: the three properties need each other only for  *)
(* the types of what they speak about.                                     *)

Sound == LineIsPending /\ KeysInOrder /\ KeyboardNotStuck

LEMMA SpecialSources ==
  Kbd \in Source /\ FirstEnabled \in SUBSET Source
BY InterruptsAssumption DEF FirstEnabled

LEMMA InitSound == Init => TypeOK /\ Sound
<1> SUFFICES ASSUME Init PROVE TypeOK /\ Sound
  OBVIOUS
<1> USE DEF Init
<1>1. TypeOK
  <2>1. << >> \in Seq(Code) /\ Len(<< >>) < RingSize
    BY InterruptsAssumption
  <2>2. << >> \in Seq(Code \cup {NoKey})
    OBVIOUS
  <2> QED
    BY <2>1, <2>2, SpecialSources DEF TypeOK, Mask, Level
<1>2. LineIsPending
  BY DEF LineIsPending, Highest, Level, Eligible
<1>3. KeysInOrder
  <2>1. << >> \in Seq(Code)
    OBVIOUS
  <2> QED
    BY <2>1, NothingLatched DEF KeysInOrder
<1> QED
  BY <1>1, <1>2, <1>3 DEF Sound, KeyboardNotStuck

\* What a step leaves alone keeps its type: the parts of TypeOK.
LineType == requested \in [Level -> BOOLEAN] /\ line \in Level \cup {0}
MfpType ==
  /\ ier \in SUBSET Source /\ ipr \in SUBSET Source
  /\ imr \in SUBSET Source /\ isr \in SUBSET Source
  /\ in_service \in BOOLEAN
KeyType ==
  /\ ring \in Seq(Code) /\ Len(ring) < RingSize
  /\ key_flag \in BOOLEAN
  /\ last_key \in Code \cup {NoKey}
  /\ owing \in Seq(Code \cup {NoKey})
  /\ taken \in BOOLEAN /\ forgone \in BOOLEAN

LEMMA Parts == TypeOK <=> LineType /\ MfpType /\ mask \in Mask /\ KeyType
BY DEF TypeOK, LineType, MfpType, KeyType

-----------------------------------------------------------------------------
(* The steps that leave the keyboard's variables alone.                    *)

LEMMA KeysUnmoved ==
  ASSUME KeyType, Sound, UNCHANGED keyVars, Kbd \in ipr => Kbd \in ipr'
  PROVE  KeyType' /\ KeysInOrder' /\ KeyboardNotStuck'
BY DEF KeyType, Sound, keyVars, KeysInOrder, KeyboardNotStuck, Latched

LEMMA LinesUnmoved ==
  ASSUME LineType, MfpType, LineIsPending, UNCHANGED irqVars,
         UNCHANGED <<ier, ipr, imr, isr>>, in_service' \in BOOLEAN
  PROVE  LineType' /\ MfpType' /\ LineIsPending'
BY DEF LineType, MfpType, LineIsPending, irqVars, Eligible, Highest

LEMMA StepInterrupt == TypeOK /\ Sound /\ Interrupt => TypeOK' /\ Sound'
<1> SUFFICES ASSUME TypeOK, Sound, Interrupt PROVE TypeOK' /\ Sound'
  OBVIOUS
<1>1. PICK s \in Source : MfpInt(s)
  BY DEF Interrupt
<1>2. UNCHANGED <<mask, ier, imr, isr, in_service, keyVars>>
  BY DEF Interrupt
<1>3. LineType /\ MfpType /\ mask \in Mask /\ KeyType
  BY Parts
<1>4. LineType' /\ MfpType' /\ LineIsPending' /\ ipr \subseteq ipr'
  BY <1>1, <1>2, <1>3, MfpIntTells
     DEF LineType, MfpType, LineIsPending, Sound
<1>5. KeyType' /\ KeysInOrder' /\ KeyboardNotStuck'
  BY <1>2, <1>3, <1>4, KeysUnmoved
<1>6. mask' \in Mask
  BY <1>2, <1>3
<1> QED
  BY <1>4, <1>5, <1>6 DEF TypeOK, LineType, MfpType, KeyType, Sound

LEMMA StepDevice == TypeOK /\ Sound /\ DeviceInterrupt => TypeOK' /\ Sound'
<1> SUFFICES ASSUME TypeOK, Sound, DeviceInterrupt PROVE TypeOK' /\ Sound'
  OBVIOUS
<1>1. LineType /\ MfpType /\ mask \in Mask /\ KeyType
  BY Parts
<1>2. /\ Offer([requested EXCEPT ![1] = TRUE])
      /\ UNCHANGED <<mask, mfpVars, keyVars>>
  BY DEF DeviceInterrupt
<1>3. LineType' /\ line' = Highest(requested') /\ requested'[6] = requested[6]
  <2>1. [requested EXCEPT ![1] = TRUE] \in [Level -> BOOLEAN]
    BY <1>1 DEF LineType
  <2>2. requested' = [requested EXCEPT ![1] = TRUE]
    BY <1>2 DEF Offer
  <2>3. requested'[6] = requested[6]
    BY <1>1, <2>2 DEF LineType, Level
  <2> QED
    BY <1>2, <2>1, <2>3, OfferType DEF LineType
<1>4. MfpType' /\ LineIsPending'
  BY <1>1, <1>2, <1>3 DEF MfpType, mfpVars, LineIsPending, Sound, Eligible
<1>5. KeyType' /\ KeysInOrder' /\ KeyboardNotStuck' /\ mask' \in Mask
  BY <1>1, <1>2, KeysUnmoved DEF mfpVars
<1> QED
  BY <1>3, <1>4, <1>5 DEF TypeOK, LineType, MfpType, KeyType, Sound

LEMMA StepAcceptDevice ==
  TypeOK /\ Sound /\ AcceptDevice => TypeOK' /\ Sound'
<1> SUFFICES ASSUME TypeOK, Sound, AcceptDevice PROVE TypeOK' /\ Sound'
  OBVIOUS
<1>1. LineType /\ MfpType /\ mask \in Mask /\ KeyType
  BY Parts
<1>2. /\ Offer([requested EXCEPT ![1] = FALSE])
      /\ mask' = 1
      /\ UNCHANGED <<mfpVars, keyVars>>
  BY DEF AcceptDevice
<1>3. LineType' /\ line' = Highest(requested') /\ requested'[6] = requested[6]
  <2>1. [requested EXCEPT ![1] = FALSE] \in [Level -> BOOLEAN]
    BY <1>1 DEF LineType
  <2>2. requested' = [requested EXCEPT ![1] = FALSE]
    BY <1>2 DEF Offer
  <2>3. requested'[6] = requested[6]
    BY <1>1, <2>2 DEF LineType, Level
  <2> QED
    BY <1>2, <2>1, <2>3, OfferType DEF LineType
<1>4. MfpType' /\ LineIsPending'
  BY <1>1, <1>2, <1>3 DEF MfpType, mfpVars, LineIsPending, Sound, Eligible
<1>5. KeyType' /\ KeysInOrder' /\ KeyboardNotStuck' /\ mask' \in Mask
  BY <1>1, <1>2, KeysUnmoved DEF mfpVars, Mask
<1> QED
  BY <1>3, <1>4, <1>5 DEF TypeOK, LineType, MfpType, KeyType, Sound

\* An accepted key interrupt is remembered until the guest reads the key.
LEMMA StepAcceptMfp == TypeOK /\ Sound /\ AcceptMfp => TypeOK' /\ Sound'
<1> SUFFICES ASSUME TypeOK, Sound, AcceptMfp PROVE TypeOK' /\ Sound'
  OBVIOUS
<1>1. LineType /\ MfpType /\ mask \in Mask /\ KeyType
  BY Parts
<1>2. /\ UNCHANGED <<ier, imr, in_service, ring, key_flag, last_key, owing,
                     forgone>>
      /\ Recheck
      /\ mask' = 6
  BY DEF AcceptMfp
<1>3. PICK s \in Source :
        /\ First(s)
        /\ ipr' = ipr \ {s}
        /\ isr' = IF in_service THEN isr \cup {s} ELSE isr
        /\ taken' = (taken \/ (s = Kbd /\ key_flag))
  BY DEF AcceptMfp
<1>4. LineType' /\ line' = Highest(requested')
      /\ (requested'[6] <=> Eligible(ipr', imr', isr') # {})
  BY <1>1, <1>2, RecheckTells DEF LineType
<1>5. MfpType' /\ ipr' \subseteq ier'
  BY <1>1, <1>2, <1>3 DEF MfpType, Sound, LineIsPending
<1>6. KeyType' /\ KeysInOrder'
  BY <1>1, <1>2, <1>3 DEF KeyType, KeysInOrder, Sound, Latched
<1>7. KeyboardNotStuck'
  BY <1>1, <1>2, <1>3 DEF KeyType, KeyboardNotStuck, Sound
<1>8. mask' \in Mask
  BY <1>2 DEF Mask
<1> QED
  BY <1>4, <1>5, <1>6, <1>7, <1>8
     DEF TypeOK, LineType, MfpType, KeyType, Sound, LineIsPending

LEMMA StepWrite == TypeOK /\ Sound /\ Write => TypeOK' /\ Sound'
<1> SUFFICES ASSUME TypeOK, Sound, Write PROVE TypeOK' /\ Sound'
  OBVIOUS
<1>1. LineType /\ MfpType /\ mask \in Mask /\ KeyType
  BY Parts
<1>2. /\ Recheck
      /\ forgone' = (forgone \/ (key_flag /\ Kbd \in ipr \ ipr'))
      /\ UNCHANGED <<ring, key_flag, last_key, owing, taken>>
  BY DEF Write
<1>3. LineType' /\ line' = Highest(requested')
      /\ (requested'[6] <=> Eligible(ipr', imr', isr') # {})
  BY <1>1, <1>2, RecheckTells DEF LineType
<1>4. MfpType' /\ ipr' \subseteq ier' /\ mask' = mask
  BY <1>1 DEF MfpType, Sound, LineIsPending, Write,
              WriteIER, WriteIPR, WriteISR, WriteIMR
<1>5. KeyType' /\ KeysInOrder'
  BY <1>1, <1>2 DEF KeyType, KeysInOrder, Sound, Latched
<1>6. KeyboardNotStuck'
  BY <1>1, <1>2 DEF KeyType, KeyboardNotStuck, Sound
<1> QED
  BY <1>1, <1>3, <1>4, <1>5, <1>6
     DEF TypeOK, LineType, MfpType, KeyType, Sound, LineIsPending

LEMMA StepGuest ==
  TypeOK /\ Sound /\ (SetMask \/ WriteVR) => TypeOK' /\ Sound'
<1> SUFFICES ASSUME TypeOK, Sound, SetMask \/ WriteVR PROVE TypeOK' /\ Sound'
  OBVIOUS
<1>1. LineType /\ MfpType /\ mask \in Mask /\ KeyType
  BY Parts
<1>2. /\ UNCHANGED irqVars
      /\ UNCHANGED <<ier, ipr, imr, isr>>
      /\ in_service' \in BOOLEAN
      /\ mask' \in Mask
      /\ UNCHANGED keyVars
  BY <1>1 DEF SetMask, WriteVR, mfpVars, MfpType
<1>3. LineType' /\ MfpType' /\ LineIsPending'
  BY <1>1, <1>2, LinesUnmoved DEF Sound
<1>4. KeyType' /\ KeysInOrder' /\ KeyboardNotStuck'
  BY <1>1, <1>2, KeysUnmoved
<1> QED
  BY <1>2, <1>3, <1>4 DEF TypeOK, LineType, MfpType, KeyType, Sound

-----------------------------------------------------------------------------
(* The keyboard's steps.                                                   *)

LEMMA StepSend == TypeOK /\ Sound /\ SendKey => TypeOK' /\ Sound'
<1> SUFFICES ASSUME TypeOK, Sound, SendKey PROVE TypeOK' /\ Sound'
  OBVIOUS
<1>1. LineType /\ MfpType /\ mask \in Mask /\ KeyType
  BY Parts
<1>2. UNCHANGED <<irqVars, mask, mfpVars, key_flag, last_key, taken, forgone>>
  BY DEF SendKey
<1>3. LineType' /\ MfpType' /\ LineIsPending' /\ mask' \in Mask
  BY <1>1, <1>2, LinesUnmoved DEF Sound, mfpVars, MfpType
<1>4. KeyboardNotStuck'
  BY <1>2 DEF Sound, KeyboardNotStuck, mfpVars
<1>5. PICK c \in Code :
        IF Len(ring) < RingSize - 1
        THEN ring' = Append(ring, c) /\ owing' = Append(owing, c)
        ELSE UNCHANGED <<ring, owing>>
  BY DEF SendKey
<1>6. KeyType' /\ KeysInOrder'
  <2>1. CASE Len(ring) < RingSize - 1
    <3>1. ring' = Append(ring, c) /\ owing' = Append(owing, c)
      BY <1>5, <2>1
    <3>2. ring' \in Seq(Code) /\ Len(ring') = Len(ring) + 1
      BY <1>1, <3>1 DEF KeyType
    <3>3. c \in Code \cup {NoKey} /\ owing' \in Seq(Code \cup {NoKey})
      BY <1>1, <3>1 DEF KeyType
    <3>4. owing' = Latched(key_flag, last_key) \o ring'
      BY <1>1, <3>1, SentIsLast DEF KeyType, Sound, KeysInOrder
    <3> QED
      BY <1>1, <1>2, <2>1, <3>2, <3>3, <3>4, InterruptsAssumption
         DEF KeyType, KeysInOrder
  <2>2. CASE ~(Len(ring) < RingSize - 1)
    BY <1>1, <1>2, <1>5, <2>2 DEF KeyType, KeysInOrder, Sound
  <2> QED
    BY <2>1, <2>2
<1> QED
  BY <1>3, <1>4, <1>6 DEF TypeOK, LineType, MfpType, KeyType, Sound

LEMMA StepKeyboardInt == TypeOK /\ Sound /\ KeyboardInt => TypeOK' /\ Sound'
<1> SUFFICES ASSUME TypeOK, Sound, KeyboardInt PROVE TypeOK' /\ Sound'
  OBVIOUS
<1>1. LineType /\ MfpType /\ mask \in Mask /\ KeyType
  BY Parts
<1>2. /\ ring # << >>
      /\ ~key_flag
      /\ last_key' = Head(ring)
      /\ ring' = Tail(ring)
      /\ key_flag' = TRUE
      /\ MfpInt(Kbd)
      /\ forgone' = (Kbd \notin ier)
      /\ UNCHANGED <<mask, ier, imr, isr, in_service, owing, taken>>
  BY DEF KeyboardInt
<1>3. LineType' /\ MfpType' /\ LineIsPending' /\ (Kbd \in ier => Kbd \in ipr')
  BY <1>1, <1>2, MfpIntTells, SpecialSources
     DEF LineType, MfpType, LineIsPending, Sound
<1>4. KeyType'
  <2>1. Head(ring) \in Code /\ Tail(ring) \in Seq(Code)
        /\ Len(Tail(ring)) = Len(ring) - 1
    BY <1>1, <1>2 DEF KeyType
  <2>2. Len(ring) \in Nat /\ RingSize \in Nat
    BY <1>1, InterruptsAssumption DEF KeyType
  <2> QED
    BY <1>1, <1>2, <2>1, <2>2 DEF KeyType
<1>5. KeysInOrder'
  <2>1. owing = ring
    BY <1>1, <1>2, NothingLatched DEF KeyType, Sound, KeysInOrder
  <2>2. Latched(TRUE, Head(ring)) \o Tail(ring) = ring
    BY <1>1, <1>2, LatchKeepsOrder DEF KeyType
  <2> QED
    BY <1>2, <2>1, <2>2 DEF KeysInOrder
<1>6. KeyboardNotStuck'
  BY <1>2, <1>3 DEF KeyboardNotStuck
<1> QED
  BY <1>1, <1>2, <1>3, <1>4, <1>5, <1>6
     DEF TypeOK, LineType, MfpType, KeyType, Sound

LEMMA StepIdle == TypeOK /\ Sound /\ KeyboardIdle => TypeOK' /\ Sound'
<1> SUFFICES ASSUME TypeOK, Sound, KeyboardIdle PROVE TypeOK' /\ Sound'
  OBVIOUS
<1>1. LineType /\ MfpType /\ mask \in Mask /\ KeyType
  BY Parts
<1>2. /\ ~key_flag
      /\ last_key' = NoKey
      /\ UNCHANGED <<irqVars, mask, mfpVars, ring, key_flag, owing, taken,
                     forgone>>
  BY DEF KeyboardIdle
<1>3. LineType' /\ MfpType' /\ LineIsPending' /\ mask' \in Mask
  BY <1>1, <1>2, LinesUnmoved DEF Sound, mfpVars, MfpType
<1>4. KeyType' /\ KeyboardNotStuck'
  BY <1>1, <1>2 DEF KeyType, KeyboardNotStuck
<1>5. KeysInOrder'
  BY <1>1, <1>2 DEF KeyType, Sound, KeysInOrder, Latched
<1> QED
  BY <1>3, <1>4, <1>5 DEF TypeOK, LineType, MfpType, KeyType, Sound

LEMMA StepRead == TypeOK /\ Sound /\ ReadUDR => TypeOK' /\ Sound'
<1> SUFFICES ASSUME TypeOK, Sound, ReadUDR PROVE TypeOK' /\ Sound'
  OBVIOUS
<1>1. LineType /\ MfpType /\ mask \in Mask /\ KeyType
  BY Parts
<1>2. /\ key_flag' = FALSE
      /\ owing' = IF key_flag THEN Tail(owing) ELSE owing
      /\ taken' = FALSE
      /\ forgone' = FALSE
      /\ UNCHANGED <<irqVars, mask, mfpVars, ring, last_key>>
  BY DEF ReadUDR
<1>3. LineType' /\ MfpType' /\ LineIsPending' /\ mask' \in Mask
  BY <1>1, <1>2, LinesUnmoved DEF Sound, mfpVars, MfpType
<1>4. owing' = ring
  <2>1. CASE key_flag
    BY <1>1, <1>2, <2>1, ReadTakesLatched DEF KeyType, Sound, KeysInOrder
  <2>2. CASE ~key_flag
    BY <1>1, <1>2, <2>2, NothingLatched DEF KeyType, Sound, KeysInOrder
  <2> QED
    BY <2>1, <2>2
<1>5. KeysInOrder'
  BY <1>1, <1>2, <1>4, NothingLatched DEF KeyType, KeysInOrder
<1>6. KeyType' /\ KeyboardNotStuck'
  <2>1. ring \in Seq(Code \cup {NoKey})
    BY <1>1 DEF KeyType
  <2> QED
    BY <1>1, <1>2, <1>4, <2>1 DEF KeyType, KeyboardNotStuck
<1> QED
  BY <1>3, <1>5, <1>6 DEF TypeOK, LineType, MfpType, KeyType, Sound

\* A loaded state brings its own lines and MFP; what is owed to the guest is
\* counted anew, from the ring and the flag that stay.
LEMMA StepLoad == TypeOK /\ Sound /\ Load => TypeOK' /\ Sound'
<1> SUFFICES ASSUME TypeOK, Sound, Load PROVE TypeOK' /\ Sound'
  OBVIOUS
<1>1. LineType /\ MfpType /\ mask \in Mask /\ KeyType
  BY Parts
<1>2. PICK s \in Loadable :
        /\ ier' = s.ier
        /\ ipr' = s.ipr
        /\ imr' = s.imr
        /\ isr' = s.isr
        /\ in_service' = s.in_service
        /\ mask' = s.mask
        /\ last_key' = s.last_key
        /\ Offer([l \in Level |-> IF l = 1 THEN s.device
                                 ELSE Eligible(s.ipr, s.imr, s.isr) # {}])
  BY DEF Load
<1>3. /\ owing' = Latched(key_flag, last_key') \o ring
      /\ taken' = FALSE
      /\ forgone' = key_flag
      /\ UNCHANGED <<ring, key_flag>>
  BY DEF Load
<1>4. s \in Saved /\ s.ipr \subseteq s.ier
  BY InterruptsAssumption
<1>5. /\ MfpType' /\ mask' \in Mask /\ ipr' \subseteq ier'
      /\ last_key' \in Code \cup {NoKey}
  BY <1>2, <1>4 DEF MfpType, Saved
<1>6. LineType' /\ LineIsPending'
  <2> DEFINE req == [l \in Level |-> IF l = 1 THEN s.device
                                   ELSE Eligible(s.ipr, s.imr, s.isr) # {}]
  <2>1. req \in [Level -> BOOLEAN]
    BY <1>4 DEF Saved
  <2>2. req[6] <=> Eligible(ipr', imr', isr') # {}
    <3>1. 6 \in Level /\ 6 # 1
      BY DEF Level
    <3>2. req[6] = (Eligible(s.ipr, s.imr, s.isr) # {})
      BY <3>1
    <3>3. Eligible(s.ipr, s.imr, s.isr) = Eligible(ipr', imr', isr')
      BY <1>2 DEF Eligible
    <3> QED
      BY <3>2, <3>3
  <2>3. Offer(req)
    BY <1>2
  <2> HIDE DEF req
  <2>4. requested' = req
    BY <2>3 DEF Offer
  <2> QED
    BY <1>5, <2>1, <2>2, <2>3, <2>4, OfferType DEF LineType, LineIsPending
<1>7. KeysInOrder' /\ KeyboardNotStuck'
  BY <1>3 DEF KeysInOrder, KeyboardNotStuck
<1>8. KeyType'
  <2>1. Latched(key_flag, last_key') \o ring \in Seq(Code \cup {NoKey})
    BY <1>1, <1>5, LatchedType DEF KeyType
  <2> QED
    BY <1>1, <1>3, <1>5, <2>1 DEF KeyType
<1> QED
  BY <1>5, <1>6, <1>7, <1>8 DEF TypeOK, LineType, MfpType, KeyType, Sound

LEMMA StepReset == TypeOK /\ Sound /\ Reset => TypeOK' /\ Sound'
<1> SUFFICES ASSUME TypeOK, Sound, Reset PROVE TypeOK' /\ Sound'
  OBVIOUS
<1>1. last_key' \in Code \cup {NoKey}
  BY DEF Reset, TypeOK
<1>2. /\ requested' = [l \in Level |-> FALSE] /\ line' = 0 /\ mask' = 7
      /\ ier' = FirstEnabled /\ ipr' = {} /\ imr' = FirstEnabled
      /\ isr' = {} /\ in_service' = FALSE
      /\ ring' = << >> /\ key_flag' = FALSE /\ owing' = << >>
      /\ taken' = FALSE /\ forgone' = FALSE
  BY DEF Reset, KeyboardInit
<1>3. TypeOK'
  <2>1. << >> \in Seq(Code) /\ Len(<< >>) < RingSize
        /\ << >> \in Seq(Code \cup {NoKey})
    BY InterruptsAssumption
  <2> QED
    BY <1>1, <1>2, <2>1, SpecialSources DEF TypeOK, Mask, Level
<1>4. LineIsPending'
  BY <1>2 DEF LineIsPending, Highest, Level, Eligible
<1>5. KeysInOrder'
  <2>1. << >> \in Seq(Code)
    OBVIOUS
  <2> QED
    BY <1>2, <2>1, NothingLatched DEF KeysInOrder
<1>6. KeyboardNotStuck'
  BY <1>2 DEF KeyboardNotStuck
<1> QED
  BY <1>3, <1>4, <1>5, <1>6 DEF Sound

-----------------------------------------------------------------------------
(* The theorems.                                                           *)

\* Every state is well typed and sound: the invariant is inductive.
THEOREM InterruptsInvariant == Spec => [](TypeOK /\ Sound)
<1>1. Init => TypeOK /\ Sound
  BY InitSound
<1>2. TypeOK /\ Sound /\ [Next]_vars => (TypeOK /\ Sound)'
  <2> SUFFICES ASSUME TypeOK, Sound, [Next]_vars PROVE TypeOK' /\ Sound'
    OBVIOUS
  <2>1. CASE Interrupt
    BY <2>1, StepInterrupt
  <2>2. CASE DeviceInterrupt
    BY <2>2, StepDevice
  <2>3. CASE AcceptDevice
    BY <2>3, StepAcceptDevice
  <2>4. CASE AcceptMfp
    BY <2>4, StepAcceptMfp
  <2>5. CASE SetMask \/ WriteVR
    BY <2>5, StepGuest
  <2>6. CASE Write
    BY <2>6, StepWrite
  <2>7. CASE SendKey
    BY <2>7, StepSend
  <2>8. CASE KeyboardInt
    BY <2>8, StepKeyboardInt
  <2>9. CASE KeyboardIdle
    BY <2>9, StepIdle
  <2>10. CASE ReadUDR
    BY <2>10, StepRead
  <2>11. CASE Load
    BY <2>11, StepLoad
  <2>12. CASE Reset
    BY <2>12, StepReset
  <2>13. CASE UNCHANGED vars
    <3>1. UNCHANGED irqVars /\ UNCHANGED mask /\ UNCHANGED mfpVars
          /\ UNCHANGED keyVars
      BY <2>13 DEF vars
    <3>2. LineType /\ MfpType /\ mask \in Mask /\ KeyType
      BY Parts
    <3>3. LineType' /\ MfpType' /\ LineIsPending'
      BY <3>1, <3>2, LinesUnmoved DEF Sound, mfpVars, MfpType
    <3>4. KeyType' /\ KeysInOrder' /\ KeyboardNotStuck'
      BY <3>1, <3>2, KeysUnmoved DEF mfpVars
    <3> QED
      BY <3>1, <3>2, <3>3, <3>4
         DEF TypeOK, LineType, MfpType, KeyType, Sound
  <2> QED
    BY <2>1, <2>2, <2>3, <2>4, <2>5, <2>6, <2>7, <2>8, <2>9, <2>10, <2>11,
       <2>12, <2>13 DEF Next
<1> QED
  BY <1>1, <1>2, PTL DEF Spec

\* The type invariant alone.
THEOREM InterruptsTypes == Spec => []TypeOK
BY InterruptsInvariant, PTL

\* Whatever the guest writes to the MFP and whatever state is loaded, no
\* interrupt is forgotten and the CPU takes none that has no source.
THEOREM InterruptsArrive == Spec => []LineIsPending
<1>1. Sound => LineIsPending
  BY DEF Sound
<1> QED
  BY <1>1, InterruptsInvariant, PTL

\* The guest reads the ring's codes in order, each once, with a ring of any
\* size.
THEOREM KeysArriveInOrder == Spec => []KeysInOrder
<1>1. Sound => KeysInOrder
  BY DEF Sound
<1> QED
  BY <1>1, InterruptsInvariant, PTL

\* A latched key is never left with nobody who will read it, unless the guest
\* or a load gave its interrupt up.
THEOREM KeyboardGoesOn == Spec => []KeyboardNotStuck
<1>1. Sound => KeyboardNotStuck
  BY DEF Sound
<1> QED
  BY <1>1, InterruptsInvariant, PTL
=============================================================================
