---------------------------- MODULE InputProofs ----------------------------
(***************************************************************************)
(* Theorems about Input, for every keyboard, table of rows and characters, *)
(* every text, macro and motion.                                           *)
(*                                                                         *)
(* The walk over the table and the spelling of a text are recursive: what  *)
(* they come to is shown by induction, in the form the provers can use,    *)
(* that a set with 0 and with every successor is the whole interval.       *)
(***************************************************************************)
EXTENDS Input, WellFoundedInduction, SequenceTheorems, TLAPS

-----------------------------------------------------------------------------
(* Induction, and recursion over an interval.                               *)

LEMMA LeastNumber ==
  ASSUME NEW T \in SUBSET Nat, T # {}
  PROVE  \E n \in T : \A m \in T : n <= m
<1> DEFINE R == OpToRel(<, Nat)
<1>1. IsWellFoundedOn(R, Nat)
  BY NatLessThanWellFounded
<1>2. \A m, n \in Nat : m < n => <<m, n>> \in R
  BY DEF OpToRel
<1> HIDE DEF R
<1>3. PICK n \in T : \A m \in T : ~(<<m, n>> \in R)
  BY <1>1, WFMin
<1>4. ASSUME NEW m \in T PROVE n <= m
  <2>1. m \in Nat /\ n \in Nat
    OBVIOUS
  <2>2. ~(m < n)
    BY <1>2, <1>3, <2>1
  <2> QED
    BY <2>1, <2>2
<1> QED
  BY <1>4

LEMMA Stepping ==
  ASSUME NEW n \in Nat, NEW T, 0 \in T, \A i \in 1..n : i - 1 \in T => i \in T
  PROVE  0..n \subseteq T
<1> DEFINE U == (0..n) \ T
<1>1. SUFFICES ASSUME U # {} PROVE FALSE
  OBVIOUS
<1>2. U \in SUBSET Nat
  OBVIOUS
<1>3. PICK i \in U : \A j \in U : i <= j
  <2> HIDE DEF U
  <2> QED
    BY <1>1, <1>2, LeastNumber
<1>4. i \in 1..n /\ i - 1 \in 0..n /\ i - 1 \notin U
  BY <1>3
<1> QED
  BY <1>4

\* A function that is given step by step exists.
Steps(n, D)          == [1..n -> [D -> D]]
Follows(w, n, D, a, F) ==
  /\ w \in [0..n -> D]
  /\ w[0] = a
  /\ \A i \in 1..n : w[i] = F[i][w[i-1]]

LEMMA StepsExist ==
  ASSUME NEW n \in Nat, NEW D, NEW a \in D, NEW F \in Steps(n, D)
  PROVE  \E w : Follows(w, n, D, a, F)
<1> USE DEF Steps
<1> DEFINE P(m) == \E w \in [0..m -> D] :
                     w[0] = a /\ \A i \in 1..m : w[i] = F[i][w[i-1]]
           T == {m \in 0..n : P(m)}
<1>1. 0 \in T
  <2> DEFINE w == [i \in 0..0 |-> a]
  <2>1. w \in [0..0 -> D] /\ w[0] = a /\ \A i \in 1..0 : w[i] = F[i][w[i-1]]
    OBVIOUS
  <2>2. P(0)
    BY <2>1
  <2> HIDE DEF P
  <2> QED
    BY <2>2
<1>2. ASSUME NEW m \in 1..n, m - 1 \in T PROVE m \in T
  <2>1. PICK v \in [0..m-1 -> D] :
          v[0] = a /\ \A i \in 1..m-1 : v[i] = F[i][v[i-1]]
    BY <1>2
  <2> DEFINE w == [i \in 0..m |-> IF i = m THEN F[m][v[m-1]] ELSE v[i]]
  <2>2. \A i \in 0..m-1 : w[i] = v[i] /\ w[i] \in D
    OBVIOUS
  <2>3. m - 1 \in 0..m-1 /\ 0 \in 0..m-1
    OBVIOUS
  <2>4. w[m] = F[m][w[m-1]] /\ w[m] \in D
    BY <2>2, <2>3
  <2>5. w \in [0..m -> D]
    OBVIOUS
  <2> HIDE DEF w
  <2>6. ASSUME NEW i \in 1..m PROVE w[i] = F[i][w[i-1]]
    <3>1. CASE i = m
      BY <2>4, <3>1
    <3>2. CASE i # m
      <4>1. i \in 1..m-1 /\ i \in 0..m-1 /\ i - 1 \in 0..m-1
        BY <3>2
      <4> QED
        BY <2>1, <2>2, <4>1
    <3> QED
      BY <3>1, <3>2
  <2>7. P(m)
    BY <2>1, <2>2, <2>3, <2>5, <2>6
  <2> HIDE DEF P
  <2> QED
    BY <2>7
<1> HIDE DEF P
<1>3. n \in T
  <2>1. \A i \in 1..n : i - 1 \in T => i \in T
    BY <1>2
  <2> HIDE DEF T
  <2>2. 0..n \subseteq T
    BY <1>1, <2>1, Stepping
  <2> QED
    BY <2>2
<1> QED
  BY <1>3 DEF P, Follows

-----------------------------------------------------------------------------
(* Types.                                                                   *)

Op == {"none", "macro", "key", "mouse", "clear", "type", "run"}

Doings ==
  [do : {"key"}, key : Key, down : BOOLEAN] \cup [do : {"run"}, frames : Nat]
    \cup [do : {"move"}, dx : Int] \cup [do : {"clear"}]

Guest == [down : SUBSET Code, heard : Seq(Code \X BOOLEAN)]

Calls ==
  [op : Op, macro : BOOLEAN, count : Nat, used : Nat, text : Seq(Known),
   rest : Seq(Known), todo : Seq(Doings), left : Nat, ok : BOOLEAN,
   before : [Key -> BOOLEAN]]

\* A frame that is begun is the worker's or has been asked for; a frame that
\* has not come to the samples has none.
Framing ==
  /\ stage # "none" /\ ~running => call.left > 0
  /\ stage # "sampling" => next = 1 /\ sampled = NoKeys

InputTypeOK ==
  /\ keys \in [Key -> BOOLEAN]
  /\ sampled \in [Key -> BOOLEAN]
  /\ old \in [Key -> BOOLEAN]
  /\ pending \in Int
  /\ frame_dx \in Int
  /\ owed \in Int
  /\ running \in BOOLEAN
  /\ menu \in BOOLEAN
  /\ stage \in {"none", "polled", "sampling"}
  /\ next \in 1..Len(Keys)+1
  /\ guest \in Guest
  /\ stale \in SUBSET Code
  /\ call \in Calls
  /\ Framing

LEMMA TableTypes ==
  /\ Len(Keys) \in Nat \ {0}
  /\ Len(KeyTable) \in Nat
  /\ \A i \in 1..Len(Keys) : Keys[i] \in Key
  /\ \A k \in Key : \E i \in 1..Len(Keys) : Keys[i] = k
  /\ \A i \in Rows : KeyTable[i].key \in Key /\ KeyTable[i].code \in Code
  /\ LShift \in Key /\ L2 \in Key /\ Shift \in Code
<1>1. Len(Keys) \in Nat /\ Len(KeyTable) \in Nat
  BY InputAssumption
<1>2. \A k \in Key : \E i \in 1..Len(Keys) : Keys[i] = k
  BY DEF Key
<1>3. Len(Keys) # 0
  BY <1>1, <1>2, InputAssumption
<1>4. \A i \in Rows : KeyTable[i] \in [key : Key, code : Code]
  BY <1>1, InputAssumption, ElementOfSeq DEF Rows
<1>5. Shift \in Code
  BY <1>4, InputAssumption
<1> QED
  BY <1>1, <1>2, <1>3, <1>4, <1>5, InputAssumption DEF Key

\* What the walk over the table does, row by row.
LEMMA HearType ==
  ASSUME InputTypeOK, NEW g \in Guest, NEW i \in Rows
  PROVE  Hear(g, KeyTable[i]) \in Guest
<1>1. KeyTable[i].code \in Code /\ KeyTable[i].key \in Key
  BY TableTypes
<1> DEFINE row == KeyTable[i]
<1> HIDE DEF row
<1>2. row.code \in Code /\ row.key \in Key
  BY <1>1 DEF row
<1>3. /\ g.down \cup {row.code} \in SUBSET Code
      /\ g.down \ {row.code} \in SUBSET Code
      /\ g.heard \in Seq(Code \X BOOLEAN)
  BY <1>2 DEF Guest
<1>4. Append(g.heard, <<row.code, Shift \in g.down>>) \in Seq(Code \X BOOLEAN)
  <2> DEFINE b == Shift \in g.down
  <2>1. b \in BOOLEAN
    OBVIOUS
  <2> HIDE DEF b
  <2>2. <<row.code, b>> \in Code \X BOOLEAN
    BY <1>2, <2>1
  <2> QED
    BY <1>3, <2>2 DEF b
<1>5. Hear(g, row) \in Guest
  BY <1>3, <1>4 DEF Hear, Guest
<1> QED
  BY <1>5 DEF row

LEMMA WalkedSteps ==
  ASSUME InputTypeOK
  PROVE  /\ Walked \in [0..Len(KeyTable) -> Guest]
         /\ Walked[0] = guest
         /\ \A i \in Rows : Walked[i] = Hear(Walked[i-1], KeyTable[i])
<1> DEFINE n == Len(KeyTable)
           F == [i \in 1..n |-> [g \in Guest |-> Hear(g, KeyTable[i])]]
<1>1. n \in Nat /\ guest \in Guest
  BY TableTypes DEF InputTypeOK
<1>2. F \in Steps(n, Guest)
  BY HearType DEF Rows, Steps
<1> HIDE DEF n
<1>3. PICK w : /\ w \in [0..n -> Guest] /\ w[0] = guest
               /\ \A i \in 1..n : w[i] = F[i][w[i-1]]
  <2> HIDE DEF F
  <2>1. \E w : Follows(w, n, Guest, guest, F)
    BY <1>1, <1>2, StepsExist
  <2> QED
    BY <2>1 DEF Follows
<1>4. ASSUME NEW i \in 1..n
      PROVE  w[i-1] \in Guest /\ w[i] = Hear(w[i-1], KeyTable[i])
  <2>1. i - 1 \in 0..n
    BY <1>1
  <2>2. w[i-1] \in Guest
    BY <1>3, <2>1
  <2>3. F[i][w[i-1]] = Hear(w[i-1], KeyTable[i])
    BY <2>2
  <2> QED
    BY <1>3, <2>2, <2>3
<1>5. w = [i \in 0..n |-> IF i = 0 THEN guest ELSE Hear(w[i-1], KeyTable[i])]
  <2>1. \A i \in 0..n : i # 0 => i \in 1..n
    BY <1>1
  <2> QED
    BY <1>3, <1>4, <2>1
<1>6. Walked = [i \in 0..n |-> IF i = 0 THEN guest
                               ELSE Hear(Walked[i-1], KeyTable[i])]
  BY <1>5 DEF Walked, n
<1>7. ASSUME NEW i \in 0..n PROVE Walked[i] = w[i]
  <2> DEFINE T == {j \in 0..n : Walked[j] = w[j]}
  <2>1. 0 \in T
    BY <1>1, <1>3, <1>6
  <2>2. \A j \in 1..n : j - 1 \in T => j \in T
    BY <1>1, <1>4, <1>6
  <2>3. 0..n \subseteq T
    <3> HIDE DEF T
    <3> QED
      BY <1>1, <2>1, <2>2, Stepping
  <2> QED
    BY <2>3
<1>8. Walked \in [0..n -> Guest]
  BY <1>3, <1>6, <1>7
<1> QED
  BY <1>1, <1>3, <1>6, <1>8 DEF n, Rows

LEMMA TranslateType ==
  ASSUME InputTypeOK
  PROVE  Translate \in Guest
<1>1. Len(KeyTable) \in 0..Len(KeyTable)
  BY TableTypes
<1> QED
  BY <1>1, WalkedSteps DEF Translate

\* The walk hears nothing that nobody types.
LEMMA WalkUnheard ==
  ASSUME InputTypeOK, call.text = << >>
  PROVE  Translate.heard = guest.heard
<1> DEFINE n == Len(KeyTable)
           T == {i \in 0..n : Walked[i].heard = guest.heard}
<1>1. n \in Nat
  BY TableTypes
<1>2. 0 \in T
  BY <1>1, WalkedSteps
<1>3. ASSUME NEW i \in 1..n, i - 1 \in T PROVE i \in T
  <2>1. Walked[i] = Hear(Walked[i-1], KeyTable[i])
    BY <1>1, WalkedSteps DEF Rows
  <2>2. Walked[i].heard = Walked[i-1].heard
    BY <2>1 DEF Hear
  <2> QED
    BY <1>3, <2>2
<1> HIDE DEF T
<1>4. 0..n \subseteq T
  BY <1>1, <1>2, <1>3, Stepping
<1> QED
  BY <1>1, <1>4 DEF T, Translate

\* A code is down after the walk if one of its rows went down, or if it was
\* before and none of its rows had an edge.
LEMMA WalkDown ==
  ASSUME InputTypeOK, NEW c \in Translate.down
  PROVE  \/ \E i \in Rows : /\ KeyTable[i].code = c
                            /\ sampled[KeyTable[i].key]
         \/ /\ c \in guest.down
            /\ \A i \in Rows : KeyTable[i].code = c => ~Edge(KeyTable[i].key)
<1> DEFINE n == Len(KeyTable)
           Fell(i) == \E j \in 1..i : /\ KeyTable[j].code = c
                                      /\ sampled[KeyTable[j].key]
           Kept(i) == /\ c \in guest.down
                      /\ \A j \in 1..i : KeyTable[j].code = c =>
                           ~Edge(KeyTable[j].key)
           T == {i \in 0..n : c \in Walked[i].down => Fell(i) \/ Kept(i)}
<1>1. n \in Nat
  BY TableTypes
<1>2. 0 \in T
  BY <1>1, WalkedSteps
<1>3. ASSUME NEW i \in 1..n, i - 1 \in T PROVE i \in T
  <2>1. Walked[i] = Hear(Walked[i-1], KeyTable[i])
    BY <1>1, WalkedSteps DEF Rows
  <2>2. SUFFICES ASSUME c \in Walked[i].down PROVE Fell(i) \/ Kept(i)
    OBVIOUS
  <2>3. \A j \in 1..i-1 : j \in 1..i
    OBVIOUS
  <2>4. \A j \in 1..i : j = i \/ j \in 1..i-1
    OBVIOUS
  <2>5. i \in 1..i
    OBVIOUS
  <2> DEFINE row == KeyTable[i]
             g == Walked[i-1]
  <2> HIDE DEF row, g
  <2>6. c \in Hear(g, row).down
    BY <2>1, <2>2 DEF row, g
  <2>7. CASE ~Edge(row.key)
    <3>1. c \in g.down
      BY <2>6, <2>7 DEF Hear
    <3>2. Fell(i-1) \/ Kept(i-1)
      BY <1>3, <3>1 DEF g
    <3>3. Fell(i-1) => Fell(i)
      BY <2>3
    <3>4. Kept(i-1) => Kept(i)
      BY <2>4, <2>7 DEF row
    <3> QED
      BY <3>2, <3>3, <3>4
  <2>8. CASE Edge(row.key) /\ sampled[row.key] /\ row.code = c
    BY <2>5, <2>8 DEF row
  <2>9. CASE Edge(row.key) /\ row.code # c
    <3>1. c \in g.down
      BY <2>6, <2>9 DEF Hear
    <3>2. Fell(i-1) \/ Kept(i-1)
      BY <1>3, <3>1 DEF g
    <3>3. Fell(i-1) => Fell(i)
      BY <2>3
    <3>4. Kept(i-1) => Kept(i)
      BY <2>4, <2>9 DEF row
    <3> QED
      BY <3>2, <3>3, <3>4
  <2>10. CASE Edge(row.key) /\ ~sampled[row.key] /\ row.code = c
    BY <2>6, <2>10 DEF Hear
  <2> QED
    BY <2>7, <2>8, <2>9, <2>10
<1>4. 0..n \subseteq T
  <2> HIDE DEF T
  <2> QED
    BY <1>1, <1>2, <1>3, Stepping
<1>5. Fell(n) \/ Kept(n)
  BY <1>1, <1>4 DEF Translate
<1> QED
  BY <1>5 DEF Rows

-----------------------------------------------------------------------------
(* The requests.                                                            *)

Handler ==
  [op : Op \ {"none"}, text : Seq(Known), todo : Seq(Doings), ok : BOOLEAN]

LEMMA DoingTypes ==
  /\ \A k \in Key, b \in BOOLEAN : Set(k, b) \in Doings
  /\ \A n \in Nat : Run(n) \in Doings
  /\ \A d \in Int : Move(d) \in Doings
  /\ Clear \in Doings
BY DEF Set, Run, Move, Clear, Doings

LEMMA TupleTypes ==
  ASSUME NEW S, NEW a \in S, NEW b \in S, NEW c \in S
  PROVE  /\ <<a>> \in Seq(S)
         /\ <<a, b>> \in Seq(S)
         /\ <<a, b, c>> \in Seq(S)
OBVIOUS

LEMMA TapType ==
  ASSUME NEW k \in Key, NEW n \in Nat
  PROVE  Tap(k, n) \in Seq(Doings)
<1>1. Set(k, TRUE) \in Doings /\ Run(n) \in Doings /\ Set(k, FALSE) \in Doings
  BY DoingTypes
<1> QED
  BY <1>1, TupleTypes DEF Tap

LEMMA KeystrokesType ==
  ASSUME NEW c \in Known
  PROVE  Keystrokes(c) \in Seq(Doings)
<1>1. Base[c] \in Key /\ LShift \in Key
  BY InputAssumption
<1>2. Tap(Base[c], 1) \in Seq(Doings)
  BY <1>1, TapType
<1>3. /\ Set(LShift, TRUE) \in Doings /\ Set(LShift, FALSE) \in Doings
      /\ Run(1) \in Doings
  BY <1>1, DoingTypes
<1>4. /\ <<Set(LShift, TRUE), Run(1)>> \in Seq(Doings)
      /\ <<Set(LShift, FALSE), Run(1)>> \in Seq(Doings)
      /\ <<Run(1)>> \in Seq(Doings)
  BY <1>3, TupleTypes
<1> QED
  BY <1>2, <1>4, ConcatProperties DEF Keystrokes

LEMMA HandlerTypes ==
  ASSUME InputTypeOK, NEW h \in Handlers
  PROVE  /\ h \in Handler
         /\ h.text # << >> => h.ok /\ h.todo = << >>
         /\ ~h.ok => h.text = << >> /\ h.todo = << >>
<1>1. CASE \E k \in Key, b \in BOOLEAN : h = Does("key", <<Set(k, b)>>)
  <2>1. PICK k \in Key, b \in BOOLEAN : h = Does("key", <<Set(k, b)>>)
    BY <1>1
  <2>2. <<Set(k, b)>> \in Seq(Doings)
    BY DoingTypes
  <2> QED
    BY <2>1, <2>2 DEF Does, Handler, Op
<1>2. CASE \E k \in Key : h = Does("key", Tap(k, 1))
  <2>1. PICK k \in Key : h = Does("key", Tap(k, 1))
    BY <1>2
  <2>2. Tap(k, 1) \in Seq(Doings)
    BY TapType
  <2> QED
    BY <2>1, <2>2 DEF Does, Handler, Op
<1>3. CASE \E d \in Motion : h = Does("mouse", <<Move(d)>>)
  <2>1. PICK d \in Motion : h = Does("mouse", <<Move(d)>>)
    BY <1>3
  <2>2. <<Move(d)>> \in Seq(Doings)
    BY DoingTypes, InputAssumption
  <2> QED
    BY <2>1, <2>2 DEF Does, Handler, Op
<1>4. CASE h = Does("clear", <<Clear>>)
  <2>1. <<Clear>> \in Seq(Doings)
    BY DoingTypes
  <2> QED
    BY <1>4, <2>1 DEF Does, Handler, Op
<1>5. CASE h = Fails("key")
  BY <1>5 DEF Fails, Handler, Op
<1>6. CASE \E t \in Text : h = Type(t)
  <2>1. PICK t \in Text : h = Type(t)
    BY <1>6
  <2>2. PICK n \in 1..MaxText : t \in [1..n -> Char]
    BY <2>1 DEF Text
  <2>3. CASE \A i \in 1..Len(t) : t[i] \in Known
    <3>1. n \in Nat /\ t \in Seq(Char) /\ Len(t) = n
      BY <2>2, InputAssumption
    <3>2. t \in [1..n -> Known]
      BY <2>2, <2>3, <3>1
    <3>3. t \in Seq(Known)
      BY <3>1, <3>2
    <3> QED
      BY <2>1, <2>3, <3>3 DEF Type, Handler, Op
  <2>4. CASE ~(\A i \in 1..Len(t) : t[i] \in Known)
    BY <2>1, <2>4 DEF Type, Fails, Handler, Op
  <2> QED
    BY <2>3, <2>4
<1> QED
  BY <1>1, <1>2, <1>3, <1>4, <1>5, <1>6 DEF Handlers

-----------------------------------------------------------------------------
(* The first invariant.                                                     *)

\* A request that has failed has nothing left to do, and has done nothing.
Failing ==
  ~call.ok =>
    /\ call.text = << >> /\ call.todo = << >> /\ call.rest = << >>
    /\ call.left = 0
    /\ keys = call.before

\* Between two requests nothing is remembered of the last; without a text
\* nothing is heard.
Fresh ==
  /\ call.op = "none" => call = Idle
  /\ call.text = << >> => guest.heard = << >>

Basic ==
  /\ InputTypeOK
  /\ MouseConserved
  /\ NoStuckKey
  /\ Failing
  /\ Fresh

LEMMA NoKeysType == NoKeys \in [Key -> BOOLEAN]
BY DEF NoKeys

LEMMA IdleType == Idle \in Calls
<1>1. << >> \in Seq(Known) /\ << >> \in Seq(Doings)
  OBVIOUS
<1> QED
  BY <1>1, NoKeysType DEF Idle, Calls, Op

\* What was heard is forgotten, what is down is not.
LEMMA GuestCleared ==
  ASSUME NEW g \in Guest
  PROVE  [g EXCEPT !.heard = << >>] \in Guest
<1>1. << >> \in Seq(Code \X BOOLEAN)
  <2> DEFINE S == Code \X BOOLEAN
  <2> HIDE DEF S
  <2>1. << >> \in Seq(S)
    OBVIOUS
  <2> QED
    BY <2>1 DEF S
<1> QED
  BY <1>1 DEF Guest

LEMMA BasicInit == Init => Basic
<1> SUFFICES ASSUME Init PROVE Basic
  OBVIOUS
<1>1. guest \in Guest
  <2> DEFINE S == Code \X BOOLEAN
  <2> HIDE DEF S
  <2>1. << >> \in Seq(S)
    OBVIOUS
  <2> QED
    BY <2>1 DEF Init, Guest, S
<1>2. next \in 1..Len(Keys)+1
  BY TableTypes DEF Init
<1>3. InputTypeOK
  <2>1. call \in Calls
    BY IdleType DEF Init
  <2>2. Framing
    BY DEF Init, Framing
  <2>3. /\ keys \in [Key -> BOOLEAN] /\ sampled \in [Key -> BOOLEAN]
        /\ old \in [Key -> BOOLEAN]
    BY NoKeysType DEF Init
  <2>4. /\ pending \in Int /\ frame_dx \in Int /\ owed \in Int
        /\ stale \in SUBSET Code /\ stage \in {"none", "polled", "sampling"}
    BY SMT DEF Init
  <2>5. running \in BOOLEAN /\ menu \in BOOLEAN
    BY Zenon DEF Init
  <2> QED
    BY <1>1, <1>2, <2>1, <2>2, <2>3, <2>4, <2>5 DEF InputTypeOK
<1>4. MouseConserved
  BY DEF Init, MouseConserved
<1>5. NoStuckKey
  BY DEF Init, NoStuckKey
<1>6. Failing /\ Fresh
  BY DEF Init, Failing, Fresh, Idle
<1> QED
  BY <1>3, <1>4, <1>5, <1>6 DEF Basic

\* What a step that leaves the frames alone has to show.
Outside == UNCHANGED <<stage, next, sampled, old, menu, stale>>

LEMMA BasicOutside ==
  ASSUME Basic, Outside,
         call' \in Calls, guest' \in Guest, keys' \in [Key -> BOOLEAN],
         pending' \in Int, owed' \in Int, owed' - owed = pending' - pending,
         UNCHANGED frame_dx, running' \in BOOLEAN,
         stage # "none" /\ ~running' => call'.left > 0,
         guest'.down = guest.down,
         Failing', Fresh'
  PROVE  Basic'
<1>1. InputTypeOK'
  BY DEF Basic, InputTypeOK, Framing, Outside, NoKeys
<1>2. MouseConserved'
  <2> DEFINE f == IF stage = "polled" THEN frame_dx ELSE 0
  <2>1. pending \in Int /\ owed \in Int /\ f \in Int /\ owed = pending + f
    BY DEF Basic, InputTypeOK, MouseConserved
  <2>2. f' = f
    BY DEF Outside
  <2> HIDE DEF f
  <2>3. \A a, b, c, d \in Int : a = b + f /\ c - a = d - b => c = d + f
    BY <2>1
  <2>4. owed' = pending' + f
    BY <2>1, <2>3
  <2> QED
    BY <2>2, <2>4 DEF MouseConserved, f
<1>3. NoStuckKey'
  BY DEF Basic, NoStuckKey, Outside, Rows
<1> QED
  BY <1>1, <1>2, <1>3 DEF Basic

LEMMA StartBasic ==
  ASSUME Basic, NEW h \in Handlers, Start(h), call.left = 0,
         running \/ stage = "none"
  PROVE  Basic'
<1>1. /\ h \in Handler
      /\ h.text # << >> => h.ok /\ h.todo = << >>
      /\ ~h.ok => h.text = << >> /\ h.todo = << >>
  BY HandlerTypes DEF Basic
<1>2. call \in Calls /\ guest \in Guest /\ keys \in [Key -> BOOLEAN]
  BY DEF Basic, InputTypeOK
<1>3. /\ UNCHANGED <<keys, pending, frame_dx, running, owed>>
      /\ Outside
  BY DEF Start, frameVars, Outside
<1>4. call' \in Calls
  <2> DEFINE t == IF AllUp THEN h.text ELSE << >>
             b == IF h.ok THEN NoKeys ELSE keys
             m == IF call.macro THEN call.count + 1 ELSE 0
  <2>1. t \in Seq(Known) /\ b \in [Key -> BOOLEAN] /\ m \in Nat
    BY <1>1, <1>2, NoKeysType DEF Handler, Calls
  <2>2. call' = [call EXCEPT !.op = h.op, !.rest = h.text, !.todo = h.todo,
                   !.text = t, !.ok = h.ok, !.before = b, !.count = m]
    BY DEF Start
  <2> HIDE DEF t, b, m
  <2> QED
    BY <1>1, <1>2, <2>1, <2>2 DEF Handler, Calls
<1>5. guest' \in Guest /\ guest'.down = guest.down /\ guest'.heard = << >>
  BY <1>2, GuestCleared DEF Start, Guest
<1>6. /\ call'.ok = h.ok /\ call'.rest = h.text /\ call'.todo = h.todo
      /\ call'.left = 0 /\ call'.op = h.op
      /\ h.text = << >> => call'.text = << >>
      /\ ~h.ok => call'.before = keys
  BY <1>2 DEF Start, Calls
<1>7. Failing'
  BY <1>1, <1>3, <1>6 DEF Failing
<1>8. Fresh'
  BY <1>1, <1>5, <1>6 DEF Fresh, Handler
<1> QED
  BY <1>2, <1>3, <1>4, <1>5, <1>6, <1>7, <1>8, BasicOutside
  DEF Basic, InputTypeOK, Outside

LEMMA RequestBasic ==
  ASSUME Basic, Request
  PROVE  Basic'
<1>1. call.left = 0
  BY DEF Basic, Fresh, Request, Idle
<1>2. PICK h \in Handlers : Start(h)
  BY DEF Request
<1> QED
  BY <1>1, <1>2, StartBasic DEF Request

LEMMA MacroStepBasic ==
  ASSUME Basic, MacroStep
  PROVE  Basic'
<1>1. call.left = 0 /\ (running \/ stage = "none")
  BY DEF Basic, InputTypeOK, Framing, MacroStep, Through
<1>2. PICK h \in Handlers : Start(h)
  BY DEF MacroStep
<1> QED
  BY <1>1, <1>2, StartBasic

LEMMA MacroBasic ==
  ASSUME Basic, Macro
  PROVE  Basic'
<1>1. call' \in Calls /\ call'.op = "macro" /\ call'.ok /\ call'.left = 0
  BY IdleType DEF Macro, Calls, Op, Idle
<1>2. call.text = << >> /\ guest.heard = << >>
  BY DEF Macro, Basic, Fresh, Idle
<1>3. Failing' /\ Fresh'
  BY <1>1, <1>2 DEF Failing, Fresh, Macro
<1> QED
  BY <1>1, <1>3, BasicOutside
  DEF Basic, InputTypeOK, Macro, frameVars, Outside

LEMMA MacroRunBasic ==
  ASSUME Basic, MacroRun
  PROVE  Basic'
<1>1. call \in Calls /\ guest \in Guest /\ keys \in [Key -> BOOLEAN]
  BY DEF Basic, InputTypeOK
<1>2. /\ call.left = 0 /\ call.rest = << >> /\ call.todo = << >> /\ call.ok
      /\ running \/ stage = "none"
  BY DEF Basic, InputTypeOK, Framing, MacroRun, Through
<1>3. <<Run(1)>> \in Seq(Doings) /\ << >> \in Seq(Known)
  BY DoingTypes
<1>4. /\ call' \in Calls /\ call'.op = "run" /\ call'.left = 0
      /\ call'.text = << >>
  <2>1. call.count + 1 \in Nat /\ call.used + 1 \in Nat
    BY <1>1 DEF Calls
  <2>2. CASE call.used < MaxTotal
    <3>1. call' = [call EXCEPT !.op = "run", !.count = @ + 1, !.text = << >>,
                     !.used = @ + 1, !.todo = <<Run(1)>>]
      BY <2>2 DEF MacroRun
    <3> QED
      BY <1>1, <1>2, <1>3, <2>1, <3>1 DEF Calls, Op
  <2>3. CASE ~(call.used < MaxTotal)
    <3>1. call' = [call EXCEPT !.op = "run", !.count = @ + 1, !.text = << >>,
                     !.ok = FALSE, !.before = keys]
      BY <2>3 DEF MacroRun
    <3> QED
      BY <1>1, <1>2, <1>3, <2>1, <3>1 DEF Calls, Op
  <2> QED
    BY <2>2, <2>3
<1>5. ~call'.ok => call'.rest = << >> /\ call'.todo = << >> /\ call'.before = keys
  BY <1>1, <1>2 DEF MacroRun, Calls
<1>6. guest' \in Guest /\ guest'.down = guest.down /\ guest'.heard = << >>
  BY <1>1, GuestCleared DEF MacroRun, Guest
<1>7. Failing' /\ Fresh'
  BY <1>4, <1>5, <1>6 DEF Failing, Fresh, MacroRun
<1> QED
  BY <1>1, <1>2, <1>4, <1>6, <1>7, BasicOutside
  DEF Basic, InputTypeOK, MacroRun, frameVars, Outside

LEMMA NextCharBasic ==
  ASSUME Basic, NextChar
  PROVE  Basic'
<1>1. call \in Calls /\ guest \in Guest
  BY DEF Basic, InputTypeOK
<1>2. Head(call.rest) \in Known /\ Tail(call.rest) \in Seq(Known)
  BY <1>1 DEF NextChar, Calls
<1>3. Keystrokes(Head(call.rest)) \in Seq(Doings)
  BY <1>2, KeystrokesType
<1>4. /\ call' \in Calls /\ call'.left = call.left /\ call'.op = call.op
      /\ call'.text = call.text /\ call'.ok = call.ok
  BY <1>1, <1>2, <1>3 DEF NextChar, Calls
<1>5. call.ok /\ call.op # "none"
  BY DEF Basic, Failing, Fresh, Idle, NextChar
<1>6. Failing' /\ Fresh'
  BY <1>4, <1>5 DEF Basic, Failing, Fresh, NextChar
<1> QED
  BY <1>1, <1>4, <1>6, BasicOutside
  DEF Basic, InputTypeOK, Framing, NextChar, frameVars, Outside

LEMMA DoingBasic ==
  ASSUME Basic, NEW what, Doing(what)
  PROVE  /\ call.left = 0 /\ call.todo # << >>
         /\ Head(call.todo) \in Doings /\ Tail(call.todo) \in Seq(Doings)
         /\ Head(call.todo).do = what
         /\ call.ok /\ call.op # "none"
<1>1. call.todo \in Seq(Doings) /\ call.todo # << >> /\ call.left = 0
  BY DEF Basic, InputTypeOK, Calls, Doing
<1>2. Head(call.todo) \in Doings /\ Tail(call.todo) \in Seq(Doings)
  BY <1>1
<1>3. call.ok /\ call.op # "none"
  BY <1>1 DEF Basic, Failing, Fresh, Idle
<1> QED
  BY <1>1, <1>2, <1>3 DEF Doing

LEMMA DoneBasic ==
  ASSUME Basic, NEW what, Doing(what), Done
  PROVE  /\ call' \in Calls
         /\ UNCHANGED <<call.left, call.op, call.text, call.rest, call.ok,
                        call.macro, call.before>>
         /\ call'.todo = Tail(call.todo)
<1>1. call \in Calls /\ Tail(call.todo) \in Seq(Doings)
  BY DoingBasic DEF Basic, InputTypeOK
<1> QED
  BY <1>1 DEF Done, Calls

LEMMA SetKeyBasic ==
  ASSUME Basic, SetKey
  PROVE  Basic'
<1>1. Doing("key") /\ Done
  BY DEF SetKey
<1>2. /\ Head(call.todo) \in Doings /\ Head(call.todo).do = "key"
      /\ call.ok /\ call.op # "none" /\ call.left = 0
  BY <1>1, DoingBasic
<1>3. /\ call' \in Calls /\ call'.ok /\ call'.op # "none"
      /\ call'.left = call.left /\ call'.text = call.text
  BY <1>1, <1>2, DoneBasic
<1>4. keys' \in [Key -> BOOLEAN]
  <2>1. Head(call.todo).key \in Key /\ Head(call.todo).down \in BOOLEAN
    BY <1>2 DEF Doings
  <2> QED
    BY <2>1 DEF SetKey, Basic, InputTypeOK
<1>5. Failing' /\ Fresh'
  BY <1>3 DEF Failing, Fresh, Basic, SetKey
<1> QED
  BY <1>3, <1>4, <1>5, BasicOutside
  DEF Basic, InputTypeOK, Framing, SetKey, frameVars, Outside

LEMMA MoveMouseBasic ==
  ASSUME Basic, MoveMouse
  PROVE  Basic'
<1>1. Doing("move") /\ Done
  BY DEF MoveMouse
<1>2. /\ Head(call.todo) \in Doings /\ Head(call.todo).do = "move"
      /\ call.ok /\ call.op # "none" /\ call.left = 0
  BY <1>1, DoingBasic
<1>3. /\ call' \in Calls /\ call'.ok /\ call'.op # "none"
      /\ call'.left = call.left /\ call'.text = call.text
  BY <1>1, <1>2, DoneBasic
<1>4. /\ pending' \in Int /\ owed' \in Int
      /\ owed' - owed = pending' - pending
  <2>1. Head(call.todo).dx \in Int
    BY <1>2 DEF Doings
  <2>2. /\ pending' = pending + Head(call.todo).dx
        /\ owed' = owed + Head(call.todo).dx
    BY DEF MoveMouse
  <2>3. pending \in Int /\ owed \in Int
    BY DEF Basic, InputTypeOK
  <2> DEFINE d == Head(call.todo).dx
  <2> HIDE DEF d
  <2>4. d \in Int /\ pending' = pending + d /\ owed' = owed + d
    BY <2>1, <2>2 DEF d
  <2> QED
    BY <2>3, <2>4
<1>5. Failing' /\ Fresh'
  BY <1>3 DEF Failing, Fresh, Basic, MoveMouse
<1> QED
  BY <1>3, <1>4, <1>5, BasicOutside
  DEF Basic, InputTypeOK, Framing, MoveMouse, frameVars, Outside

LEMMA ClearInputBasic ==
  ASSUME Basic, ClearInput
  PROVE  Basic'
<1>1. Doing("clear") /\ Done
  BY DEF ClearInput
<1>2. call.ok /\ call.op # "none" /\ call.left = 0
  BY <1>1, DoingBasic
<1>3. /\ call' \in Calls /\ call'.ok /\ call'.op # "none"
      /\ call'.left = call.left /\ call'.text = call.text
  BY <1>1, <1>2, DoneBasic
<1>4. /\ pending' \in Int /\ owed' \in Int
      /\ owed' - owed = pending' - pending
  BY DEF ClearInput, Basic, InputTypeOK
<1>5. Failing' /\ Fresh'
  BY <1>3 DEF Failing, Fresh, Basic, ClearInput
<1> QED
  BY <1>3, <1>4, <1>5, NoKeysType, BasicOutside
  DEF Basic, InputTypeOK, Framing, ClearInput, frameVars, Outside

LEMMA RunFramesBasic ==
  ASSUME Basic, RunFrames
  PROVE  Basic'
<1>1. Doing("run") /\ stage = "none"
  BY DEF RunFrames
<1>2. /\ Head(call.todo) \in Doings /\ Head(call.todo).do = "run"
      /\ Tail(call.todo) \in Seq(Doings)
      /\ call.ok /\ call.op # "none"
  BY <1>1, DoingBasic
<1>3. Head(call.todo).frames \in Nat
  BY <1>2 DEF Doings
<1>4. /\ call' \in Calls /\ call'.ok /\ call'.op # "none"
      /\ call'.text = call.text
  BY <1>2, <1>3 DEF RunFrames, Basic, InputTypeOK, Calls
<1>5. Failing' /\ Fresh'
  BY <1>4 DEF Failing, Fresh, Basic, RunFrames
<1>6. /\ Outside /\ UNCHANGED <<keys, pending, owed, frame_dx, guest>>
      /\ running' \in BOOLEAN
  BY DEF RunFrames, frameVars, Outside
<1>7. /\ keys' \in [Key -> BOOLEAN] /\ guest' \in Guest
      /\ pending' \in Int /\ owed' \in Int
      /\ owed' - owed = pending' - pending
  BY <1>6 DEF Basic, InputTypeOK
<1> QED
  BY <1>1, <1>4, <1>5, <1>6, <1>7, BasicOutside

LEMMA ReplyBasic ==
  ASSUME Basic, Reply
  PROVE  Basic'
<1>1. call' = Idle /\ call' \in Calls /\ call'.ok
  BY IdleType DEF Reply, Idle
<1>2. guest' \in Guest /\ guest'.down = guest.down /\ guest'.heard = << >>
  BY GuestCleared DEF Reply, Basic, InputTypeOK, Guest
<1>3. Failing' /\ Fresh'
  BY <1>1, <1>2 DEF Failing, Fresh, Idle, NoKeys
<1>4. running \/ stage = "none"
  BY DEF Reply, Through, Basic, InputTypeOK, Framing
<1> QED
  BY <1>1, <1>2, <1>3, <1>4, BasicOutside
  DEF Basic, InputTypeOK, Reply, frameVars, Outside

\* A frame that has come to its last key is the sampling of the worker, or of
\* a frame that has been asked for.
LEMMA LastKey ==
  ASSUME Basic, next > Len(Keys)
  PROVE  stage = "sampling" /\ (~running => call.left > 0)
<1>1. Len(Keys) \in Nat \ {0}
  BY TableTypes
<1> QED
  BY <1>1 DEF Basic, InputTypeOK, Framing

LEMMA PollBasic ==
  ASSUME Basic, Poll
  PROVE  Basic'
<1>1. InputTypeOK'
  BY DEF Poll, Basic, InputTypeOK, Framing, NoKeys
<1>2. MouseConserved'
  <2>1. owed = pending + 0 /\ pending \in Int /\ owed \in Int
    BY DEF Poll, Basic, InputTypeOK, MouseConserved
  <2>2. owed' = owed /\ pending' = 0 /\ frame_dx' = pending /\ stage' = "polled"
    BY DEF Poll
  <2> QED
    BY <2>1, <2>2 DEF MouseConserved
<1>3. NoStuckKey' /\ Failing' /\ Fresh'
  BY DEF Poll, Basic, NoStuckKey, Failing, Fresh, Rows, Idle, NoKeys
<1> QED
  BY <1>1, <1>2, <1>3 DEF Basic

LEMMA MouseEventBasic ==
  ASSUME Basic, MouseEvent
  PROVE  Basic'
<1>1. /\ owed = pending + frame_dx /\ pending \in Int /\ owed \in Int
      /\ frame_dx \in Int
  BY DEF MouseEvent, Basic, InputTypeOK, MouseConserved
<1>2. /\ owed' = owed - frame_dx /\ pending' = pending /\ stage' = "sampling"
  BY DEF MouseEvent
<1>3. owed' \in Int /\ owed' = pending'
  BY <1>1, <1>2
<1>4. InputTypeOK'
  BY <1>2, <1>3 DEF MouseEvent, Basic, InputTypeOK, Framing
<1>5. MouseConserved'
  BY <1>1, <1>2, <1>3 DEF MouseConserved
<1>6. NoStuckKey' /\ Failing' /\ Fresh'
  BY DEF MouseEvent, Basic, NoStuckKey, Failing, Fresh, Rows, Idle, NoKeys
<1> QED
  BY <1>4, <1>5, <1>6 DEF Basic

LEMMA SampleBasic ==
  ASSUME Basic, Sample
  PROVE  Basic'
<1>1. next \in 1..Len(Keys) /\ Len(Keys) \in Nat /\ Keys[next] \in Key
  <2>1. Len(Keys) \in Nat /\ \A i \in 1..Len(Keys) : Keys[i] \in Key
    BY TableTypes
  <2>2. next \in 1..Len(Keys)
    BY <2>1 DEF Sample, Basic, InputTypeOK
  <2> QED
    BY <2>1, <2>2
<1>2. next' \in 1..Len(Keys)+1
  BY <1>1 DEF Sample
<1>3. sampled' \in [Key -> BOOLEAN]
  <2> DEFINE k == Keys[next]
  <2> HIDE DEF k
  <2>1. k \in Key /\ keys[k] \in BOOLEAN /\ sampled' = [sampled EXCEPT ![k] = keys[k]]
    BY <1>1 DEF Sample, Basic, InputTypeOK, k
  <2> QED
    BY <2>1 DEF Basic, InputTypeOK
<1>4. InputTypeOK'
  BY <1>2, <1>3 DEF Sample, Basic, InputTypeOK, Framing
<1>5. MouseConserved'
  BY DEF Sample, Basic, MouseConserved
<1>6. NoStuckKey' /\ Failing' /\ Fresh'
  BY DEF Sample, Basic, NoStuckKey, Failing, Fresh, Rows, Idle, NoKeys
<1> QED
  BY <1>4, <1>5, <1>6 DEF Basic

LEMMA FrameEndBasic ==
  ASSUME Basic, FrameEnd
  PROVE  Basic'
<1>1. InputTypeOK /\ call \in Calls
  BY DEF Basic, InputTypeOK
<1>2. stage = "sampling" /\ (~running => call.left > 0)
  BY LastKey DEF FrameEnd
<1>3. /\ call' \in Calls
      /\ running => call' = call
      /\ UNCHANGED <<call.op, call.text, call.rest, call.todo, call.ok,
                     call.before>>
  <2>1. CASE running
    <3>1. call' = [call EXCEPT !.left = call.left]
      BY <2>1 DEF FrameEnd
    <3> QED
      BY <1>1, <3>1 DEF Calls
  <2>2. CASE ~running
    <3>1. call' = [call EXCEPT !.left = call.left - 1]
      BY <2>2 DEF FrameEnd
    <3>2. call.left - 1 \in Nat
      BY <1>1, <1>2, <2>2 DEF Calls
    <3> QED
      BY <1>1, <2>2, <3>1, <3>2 DEF Calls
  <2> QED
    BY <2>1, <2>2
<1>4. InputTypeOK'
  <2>1. guest' \in Guest
    BY <1>1, TranslateType DEF FrameEnd
  <2>2. menu' \in BOOLEAN
    BY DEF FrameEnd
  <2>3. next' \in 1..Len(Keys)+1 /\ stage' \in {"none", "polled", "sampling"}
    BY TableTypes DEF FrameEnd
  <2>4. old' \in [Key -> BOOLEAN] /\ sampled' \in [Key -> BOOLEAN]
    BY NoKeysType DEF FrameEnd, Basic, InputTypeOK
  <2>5. stale' \in SUBSET Code
    BY DEF FrameEnd, Basic, InputTypeOK
  <2>6. Framing'
    BY DEF FrameEnd, Framing, NoKeys
  <2>7. UNCHANGED <<keys, pending, frame_dx, running, owed>>
    BY DEF FrameEnd
  <2> QED
    BY <1>1, <1>3, <2>1, <2>2, <2>3, <2>4, <2>5, <2>6, <2>7 DEF InputTypeOK
<1>5. MouseConserved'
  BY <1>2 DEF FrameEnd, Basic, MouseConserved
<1>6. NoStuckKey'
  <2>1. SUFFICES ASSUME NEW c \in guest'.down, c \notin stale'
                 PROVE  \E i \in Rows : KeyTable[i].code = c /\ old'[KeyTable[i].key]
    BY DEF NoStuckKey, Rows
  <2>2. c \in Translate.down /\ old' = sampled
    BY <2>1 DEF FrameEnd
  <2>3. CASE \E i \in Rows : KeyTable[i].code = c /\ sampled[KeyTable[i].key]
    BY <2>2, <2>3
  <2>4. CASE /\ c \in guest.down
             /\ \A i \in Rows : KeyTable[i].code = c => ~Edge(KeyTable[i].key)
    <3>1. c \notin stale
      BY <2>1, <2>4 DEF FrameEnd
    <3>2. PICK i \in Rows : KeyTable[i].code = c /\ old[KeyTable[i].key]
      BY <2>4, <3>1 DEF Basic, NoStuckKey
    <3>3. sampled[KeyTable[i].key] = old[KeyTable[i].key]
      BY <2>4, <3>2 DEF Edge
    <3> QED
      BY <2>2, <3>2, <3>3
  <2> QED
    BY <1>1, <2>2, <2>3, <2>4, WalkDown
<1>7. Failing'
  BY <1>2, <1>3 DEF FrameEnd, Basic, Failing
<1>8. Fresh'
  <2>1. call'.op = "none" => call' = Idle
    BY <1>2, <1>3 DEF Basic, Fresh, Idle
  <2>2. call'.text = << >> => guest'.heard = << >>
    BY <1>1, <1>3, WalkUnheard DEF FrameEnd, Basic, Fresh
  <2> QED
    BY <2>1, <2>2 DEF Fresh, Idle, NoKeys
<1> QED
  BY <1>4, <1>5, <1>6, <1>7, <1>8 DEF Basic

LEMMA ResumeBasic ==
  ASSUME Basic, Resume
  PROVE  Basic'
<1>1. InputTypeOK'
  BY DEF Resume, frameVars, Basic, InputTypeOK, Framing, NoKeys
<1>2. MouseConserved' /\ NoStuckKey'
  BY DEF Resume, frameVars, Basic, MouseConserved, NoStuckKey, Rows
<1>3. Failing' /\ Fresh'
  BY DEF Resume, Basic, Failing, Fresh, Idle, NoKeys
<1> QED
  BY <1>1, <1>2, <1>3 DEF Basic

LEMMA JumpBasic ==
  ASSUME Basic, NEW down \in SUBSET Code, Jump(down)
  PROVE  Basic'
<1>1. guest' \in Guest /\ guest'.down = down /\ guest'.heard = guest.heard
  BY DEF Jump, Basic, InputTypeOK, Guest
<1>2. InputTypeOK'
  BY <1>1 DEF Jump, Between, frameVars, Basic, InputTypeOK, Framing, NoKeys
<1>3. MouseConserved'
  BY DEF Jump, frameVars, Basic, MouseConserved
<1>4. NoStuckKey'
  BY <1>1 DEF Jump, NoStuckKey
<1>5. Failing' /\ Fresh'
  BY <1>1 DEF Jump, Basic, Failing, Fresh, Idle, NoKeys
<1> QED
  BY <1>2, <1>3, <1>4, <1>5 DEF Basic

LEMMA BasicNext == Basic /\ [Next]_vars => Basic'
<1> SUFFICES ASSUME Basic, [Next]_vars PROVE Basic'
  OBVIOUS
<1>1. CASE Request
  BY <1>1, RequestBasic
<1>2. CASE Macro
  BY <1>2, MacroBasic
<1>3. CASE MacroStep
  BY <1>3, MacroStepBasic
<1>4. CASE MacroRun
  BY <1>4, MacroRunBasic
<1>5. CASE NextChar
  BY <1>5, NextCharBasic
<1>6. CASE SetKey
  BY <1>6, SetKeyBasic
<1>7. CASE MoveMouse
  BY <1>7, MoveMouseBasic
<1>8. CASE ClearInput
  BY <1>8, ClearInputBasic
<1>9. CASE RunFrames
  BY <1>9, RunFramesBasic
<1>10. CASE Reply
  BY <1>10, ReplyBasic
<1>11. CASE Poll
  BY <1>11, PollBasic
<1>12. CASE MouseEvent
  BY <1>12, MouseEventBasic
<1>13. CASE Sample
  BY <1>13, SampleBasic
<1>14. CASE FrameEnd
  BY <1>14, FrameEndBasic
<1>15. CASE Resume
  BY <1>15, ResumeBasic
<1>16. CASE Load
  BY <1>16, JumpBasic DEF Load
<1>17. CASE Reset
  BY <1>17, JumpBasic DEF Reset
<1>18. CASE UNCHANGED vars
  <2>1. UNCHANGED <<keys, pending, frame_dx, running, stage, next, sampled, old,
                    menu, call, guest, stale, owed>>
    BY <1>18 DEF vars, frameVars
  <2>2. InputTypeOK'
    BY <2>1 DEF Basic, InputTypeOK, Framing, NoKeys
  <2>3. MouseConserved' /\ NoStuckKey'
    BY <2>1 DEF Basic, MouseConserved, NoStuckKey, Rows
  <2>4. Failing' /\ Fresh'
    BY <2>1 DEF Basic, Failing, Fresh, Idle, NoKeys
  <2> QED
    BY <2>2, <2>3, <2>4 DEF Basic
<1> QED
  BY <1>1, <1>2, <1>3, <1>4, <1>5, <1>6, <1>7, <1>8, <1>9, <1>10, <1>11, <1>12,
     <1>13, <1>14, <1>15, <1>16, <1>17, <1>18 DEF Next

LEMMA BasicAlways == Spec => []Basic
BY BasicInit, BasicNext, PTL DEF Spec

\* Type correctness; a frame that is begun is a worker's or has been asked for
\* (px68k_core_run_frames counts what it was asked for).
THEOREM InputTypes == Spec => []InputTypeOK
<1>1. Basic => InputTypeOK
  BY DEF Basic
<1> QED
  BY <1>1, BasicAlways, PTL

\* Motion is delivered once, whatever is asked for, cleared or taken up by a
\* frame meanwhile (frontend_core.c, input_poll_cb).
THEOREM MotionIsConserved == Spec => []MouseConserved
<1>1. Basic => MouseConserved
  BY DEF Basic
<1> QED
  BY <1>1, BasicAlways, PTL

\* No code stays down in the guest when its keys are up, for every table, codes
\* shared by keys and keys with two rows included, with the menu open or not
\* (libretro.c, handle_retrok).
THEOREM NoKeySticks == Spec => []NoStuckKey
<1>1. Basic => NoStuckKey
  BY DEF Basic
<1> QED
  BY <1>1, BasicAlways, PTL

\* A request that fails, alone or as the step of a macro, has not touched the
\* keys and has typed nothing (arcl_l0.c looks at all of it first).
THEOREM FailureLeavesInput == Spec => []FailsUntouched
<1>1. Basic => FailsUntouched
  BY DEF Basic, Failing, Fresh, FailsUntouched
<1> QED
  BY <1>1, BasicAlways, PTL

-----------------------------------------------------------------------------
(* What a key sends and what a text spells, row by row and character by      *)
(* character.                                                               *)

Sent == Seq(Code \X BOOLEAN)

LEMMA SendsSteps ==
  ASSUME NEW k, NEW b \in BOOLEAN
  PROVE  \E w \in [0..Len(KeyTable) -> Sent] :
           /\ w[0] = << >>
           /\ \A i \in Rows : w[i] = IF KeyTable[i].key = k
                                     THEN Append(w[i-1], <<KeyTable[i].code, b>>)
                                     ELSE w[i-1]
           /\ Sends(k, b) = w[Len(KeyTable)]
<1> DEFINE n == Len(KeyTable)
           More(s, i) == IF KeyTable[i].key = k
                         THEN Append(s, <<KeyTable[i].code, b>>) ELSE s
           F == [i \in 1..n |-> [s \in Sent |-> More(s, i)]]
           G(f) == [i \in 0..n |-> IF i = 0 THEN << >> ELSE More(f[i-1], i)]
           up == CHOOSE f : f = G(f)
<1>1. n \in Nat
  BY TableTypes
<1>2. ASSUME NEW i \in 1..n, NEW s \in Sent PROVE More(s, i) \in Sent
  <2>1. KeyTable[i].code \in Code
    BY TableTypes DEF Rows
  <2> DEFINE x == <<KeyTable[i].code, b>>
             S == Code \X BOOLEAN
  <2>2. x \in S
    BY <2>1
  <2> HIDE DEF x, S
  <2>3. s \in Seq(S)
    BY DEF Sent, S
  <2>4. Append(s, x) \in Seq(S)
    BY <2>2, <2>3
  <2> QED
    BY <2>3, <2>4 DEF Sent, S, x
<1>3. << >> \in Sent
  <2> DEFINE S == Code \X BOOLEAN
  <2> HIDE DEF S
  <2>1. << >> \in Seq(S)
    OBVIOUS
  <2> QED
    BY <2>1 DEF Sent, S
<1>4. F \in Steps(n, Sent)
  <2> HIDE DEF More
  <2> QED
    BY <1>2 DEF Steps
<1>5. PICK w : /\ w \in [0..n -> Sent] /\ w[0] = << >>
               /\ \A i \in 1..n : w[i] = F[i][w[i-1]]
  <2> HIDE DEF F, n
  <2>1. \E w : Follows(w, n, Sent, << >>, F)
    BY <1>1, <1>3, <1>4, StepsExist
  <2> QED
    BY <2>1 DEF Follows
<1>6. ASSUME NEW i \in 1..n PROVE w[i] = More(w[i-1], i)
  <2>1. w[i-1] \in Sent
    BY <1>1, <1>5
  <2> HIDE DEF More
  <2> QED
    BY <1>5, <2>1
<1>7. w = G(w)
  <2>1. \A i \in 0..n : i # 0 => i \in 1..n
    BY <1>1
  <2> HIDE DEF More
  <2> QED
    BY <1>5, <1>6, <2>1
<1>8. up = G(up)
  BY <1>7
<1>9. Sends(k, b) = up[n]
  BY DEF Sends
<1>10. up[n] = w[n]
  <2> DEFINE T == {j \in 0..n : up[j] = w[j]}
  <2> HIDE DEF up, More
  <2>1. 0 \in T
    BY <1>1, <1>5, <1>8
  <2>2. \A j \in 1..n : j - 1 \in T => j \in T
    BY <1>1, <1>6, <1>8
  <2>3. 0..n \subseteq T
    <3> HIDE DEF T
    <3> QED
      BY <1>1, <2>1, <2>2, Stepping
  <2> QED
    BY <1>1, <2>3
<1> QED
  BY <1>5, <1>6, <1>9, <1>10 DEF Rows

LEMMA SendsType ==
  ASSUME NEW k, NEW b \in BOOLEAN
  PROVE  Sends(k, b) \in Sent
<1>1. Len(KeyTable) \in 0..Len(KeyTable)
  BY TableTypes
<1> QED
  BY <1>1, SendsSteps

LEMMA SentConcat ==
  ASSUME NEW s \in Sent, NEW u \in Sent
  PROVE  s \o u \in Sent
<1> DEFINE S == Code \X BOOLEAN
<1> HIDE DEF S
<1>1. s \in Seq(S) /\ u \in Seq(S)
  BY DEF Sent, S
<1>2. s \o u \in Seq(S)
  BY <1>1
<1> QED
  BY <1>2 DEF Sent, S

LEMMA NothingSent == << >> \in Sent
<1> DEFINE S == Code \X BOOLEAN
<1> HIDE DEF S
<1>1. << >> \in Seq(S)
  OBVIOUS
<1> QED
  BY <1>1 DEF Sent, S

\* What the i-th character of a text sends.
Stroke(t, i) == Sends(Base[t[i]], t[i] \in Shifted)

LEMMA SpelledSteps ==
  ASSUME NEW t \in Seq(Known)
  PROVE  \E w \in [0..Len(t) -> Sent] :
           /\ w[0] = << >>
           /\ \A i \in 1..Len(t) : w[i] = w[i-1] \o Stroke(t, i)
           /\ Spelled(t) = w[Len(t)]
<1> DEFINE n == Len(t)
           More(s, i) == s \o Stroke(t, i)
           F == [i \in 1..n |-> [s \in Sent |-> More(s, i)]]
           G(f) == [i \in 0..n |-> IF i = 0 THEN << >> ELSE More(f[i-1], i)]
           up == CHOOSE f : f = G(f)
<1>1. n \in Nat
  OBVIOUS
<1>2. ASSUME NEW i \in 1..n, NEW s \in Sent PROVE More(s, i) \in Sent
  <2> DEFINE b == t[i] \in Shifted
  <2>1. b \in BOOLEAN
    OBVIOUS
  <2> HIDE DEF b
  <2>2. Sends(Base[t[i]], b) \in Sent
    BY <2>1, SendsType
  <2> QED
    BY <2>2, SentConcat DEF Stroke, b
<1>4. F \in Steps(n, Sent)
  <2> HIDE DEF More
  <2> QED
    BY <1>2 DEF Steps
<1>5. PICK w : /\ w \in [0..n -> Sent] /\ w[0] = << >>
               /\ \A i \in 1..n : w[i] = F[i][w[i-1]]
  <2> HIDE DEF F, n
  <2>1. \E w : Follows(w, n, Sent, << >>, F)
    BY <1>1, <1>4, NothingSent, StepsExist
  <2> QED
    BY <2>1 DEF Follows
<1>6. ASSUME NEW i \in 1..n PROVE w[i] = More(w[i-1], i)
  <2>1. w[i-1] \in Sent
    BY <1>1, <1>5
  <2> HIDE DEF More
  <2> QED
    BY <1>5, <2>1
<1>7. w = G(w)
  <2>1. \A i \in 0..n : i # 0 => i \in 1..n
    BY <1>1
  <2> HIDE DEF More
  <2> QED
    BY <1>5, <1>6, <2>1
<1>8. up = G(up)
  BY <1>7
<1>9. Spelled(t) = up[n]
  BY DEF Spelled, Stroke
<1>10. up[n] = w[n]
  <2> DEFINE T == {j \in 0..n : up[j] = w[j]}
  <2> HIDE DEF up, More
  <2>1. 0 \in T
    BY <1>1, <1>5, <1>8
  <2>2. \A j \in 1..n : j - 1 \in T => j \in T
    BY <1>1, <1>6, <1>8
  <2>3. 0..n \subseteq T
    <3> HIDE DEF T
    <3> QED
      BY <1>1, <2>1, <2>2, Stepping
  <2> QED
    BY <1>1, <2>3
<1> QED
  BY <1>5, <1>6, <1>9, <1>10

LEMMA SpelledNothing == Spelled(<< >>) = << >>
<1>1. << >> \in Seq(Known) /\ Len(<< >>) = 0
  OBVIOUS
<1> QED
  BY <1>1, SpelledSteps

\* A character more is spelled after those before it.
LEMMA SpelledMore ==
  ASSUME NEW t \in Seq(Known), NEW n \in 1..Len(t)
  PROVE  Spelled(SubSeq(t, 1, n)) = Spelled(SubSeq(t, 1, n-1)) \o Stroke(t, n)
<1> DEFINE s == SubSeq(t, 1, n)
           r == SubSeq(t, 1, n-1)
<1>1. /\ n \in Nat /\ n - 1 \in Nat
      /\ s \in Seq(Known) /\ Len(s) = n /\ \A i \in 1..n : s[i] = t[i]
      /\ r \in Seq(Known) /\ Len(r) = n - 1 /\ \A i \in 1..n-1 : r[i] = t[i]
  <2>1. 1..n \subseteq 1..Len(t) /\ 1..n-1 \subseteq 1..Len(t)
    OBVIOUS
  <2> QED
    BY <2>1
<1> HIDE DEF s, r
<1>2. PICK w \in [0..n -> Sent] :
        /\ w[0] = << >>
        /\ \A i \in 1..n : w[i] = w[i-1] \o Stroke(s, i)
        /\ Spelled(s) = w[n]
  BY <1>1, SpelledSteps
<1>3. PICK v \in [0..n-1 -> Sent] :
        /\ v[0] = << >>
        /\ \A i \in 1..n-1 : v[i] = v[i-1] \o Stroke(r, i)
        /\ Spelled(r) = v[n-1]
  BY <1>1, SpelledSteps
<1>4. /\ \A i \in 1..n : Stroke(s, i) = Stroke(t, i)
      /\ \A i \in 1..n-1 : Stroke(r, i) = Stroke(t, i)
  BY <1>1 DEF Stroke
<1>5. v[n-1] = w[n-1]
  <2> DEFINE T == {j \in 0..n-1 : v[j] = w[j]}
  <2>1. 0 \in T
    BY <1>1, <1>2, <1>3
  <2>2. ASSUME NEW j \in 1..n-1, j - 1 \in T PROVE j \in T
    <3>1. j \in 1..n
      OBVIOUS
    <3>2. v[j] = v[j-1] \o Stroke(t, j) /\ w[j] = w[j-1] \o Stroke(t, j)
      BY <1>2, <1>3, <1>4, <3>1
    <3>3. v[j-1] = w[j-1]
      BY <2>2
    <3>4. v[j] = w[j]
      BY <3>2, <3>3
    <3>5. j \in 0..n-1
      BY <1>1
    <3> QED
      BY <3>4, <3>5
  <2> HIDE DEF T
  <2>3. 0..n-1 \subseteq T
    BY <1>1, <2>1, <2>2, Stepping
  <2>4. n - 1 \in T
    BY <1>1, <2>3
  <2> QED
    BY <2>4 DEF T
<1>6. Spelled(s) = w[n-1] \o Stroke(t, n)
  <2>1. n \in 1..n
    BY <1>1
  <2> QED
    BY <1>2, <1>4, <2>1
<1> QED
  BY <1>3, <1>5, <1>6 DEF s, r

-----------------------------------------------------------------------------
(* What the walk over the table does of one key pressed, and of all released.*)

\* Exactly these keys are down; the codes of their rows.
Exactly(f, X) == f \in [Key -> BOOLEAN] /\ \A k \in Key : f[k] <=> k \in X
Codes(X)      == {KeyTable[i].code : i \in {j \in Rows : KeyTable[j].key \in X}}

LEMMA WalkSame ==
  ASSUME InputTypeOK, \A k \in Key : ~Edge(k)
  PROVE  Translate = guest
<1> DEFINE n == Len(KeyTable)
           T == {i \in 0..n : Walked[i] = guest}
<1>1. n \in Nat
  BY TableTypes
<1>2. 0 \in T
  BY <1>1, WalkedSteps
<1>3. ASSUME NEW i \in 1..n, i - 1 \in T PROVE i \in T
  <2>1. Walked[i] = Hear(Walked[i-1], KeyTable[i])
    BY <1>1, WalkedSteps DEF Rows
  <2>2. Walked[i] = Walked[i-1]
    BY <2>1, TableTypes DEF Hear, Rows
  <2> QED
    BY <1>3, <2>2
<1> HIDE DEF T
<1>4. 0..n \subseteq T
  BY <1>1, <1>2, <1>3, Stepping
<1> QED
  BY <1>1, <1>4 DEF T, Translate

\* One key more than before: k, with the keys X held.
Pressed(X, k) ==
  /\ X \subseteq Key /\ k \in Key \ X
  /\ Exactly(old, X) /\ Exactly(sampled, X \cup {k})
  /\ guest.down = Codes(X)

LEMMA PressedEdges ==
  ASSUME NEW X, NEW k, Pressed(X, k), NEW i \in Rows
  PROVE  /\ Edge(KeyTable[i].key) <=> KeyTable[i].key = k
         /\ KeyTable[i].key = k => sampled[KeyTable[i].key]
<1>1. KeyTable[i].key \in Key
  BY TableTypes
<1> QED
  BY <1>1 DEF Pressed, Edge, Exactly

LEMMA PressedDown ==
  ASSUME InputTypeOK, NEW X, NEW k, Pressed(X, k)
  PROVE  Translate.down = Codes(X \cup {k})
<1> DEFINE n == Len(KeyTable)
           C(i) == {KeyTable[j].code : j \in {m \in 1..i : KeyTable[m].key = k}}
           T == {i \in 0..n : Walked[i].down = guest.down \cup C(i)}
<1>1. n \in Nat
  BY TableTypes
<1>2. 0 \in T
  <2>1. C(0) = {}
    OBVIOUS
  <2> QED
    BY <1>1, <2>1, WalkedSteps
<1>3. ASSUME NEW i \in 1..n, i - 1 \in T PROVE i \in T
  <2>1. Walked[i] = Hear(Walked[i-1], KeyTable[i])
    BY <1>1, WalkedSteps DEF Rows
  <2>2. i \in Rows
    BY DEF Rows
  <2>3. \A j \in 1..i : j = i \/ j \in 1..i-1
    OBVIOUS
  <2>4. \A j \in 1..i-1 : j \in 1..i
    OBVIOUS
  <2>5. i \in 1..i
    OBVIOUS
  <2>6. CASE KeyTable[i].key = k
    <3>1. Walked[i].down = Walked[i-1].down \cup {KeyTable[i].code}
      BY <2>1, <2>2, <2>6, PressedEdges DEF Hear
    <3>2. C(i) = C(i-1) \cup {KeyTable[i].code}
      BY <2>3, <2>4, <2>5, <2>6
    <3>3. Walked[i-1].down = guest.down \cup C(i-1)
      BY <1>3
    <3> HIDE DEF C
    <3> QED
      BY <1>1, <3>1, <3>2, <3>3
  <2>7. CASE KeyTable[i].key # k
    <3>1. Walked[i].down = Walked[i-1].down
      BY <2>1, <2>2, <2>7, PressedEdges DEF Hear
    <3>2. C(i) = C(i-1)
      BY <2>3, <2>4, <2>7
    <3>3. Walked[i-1].down = guest.down \cup C(i-1)
      BY <1>3
    <3> HIDE DEF C
    <3> QED
      BY <1>1, <3>1, <3>2, <3>3
  <2> QED
    BY <2>6, <2>7
<1>4. 0..n \subseteq T
  <2> HIDE DEF T
  <2> QED
    BY <1>1, <1>2, <1>3, Stepping
<1>5. Translate.down = guest.down \cup C(n)
  <2> HIDE DEF C
  <2>1. n \in T
    BY <1>1, <1>4
  <2> QED
    BY <2>1 DEF Translate
<1>6. Codes(X) \cup C(n) = Codes(X \cup {k})
  BY DEF Codes, Rows
<1> QED
  BY <1>5, <1>6 DEF Pressed

\* Shift is not heard.
LEMMA ShiftUnheard ==
  ASSUME InputTypeOK, NEW X, Pressed(X, LShift)
  PROVE  Translate.heard = guest.heard
<1> DEFINE n == Len(KeyTable)
           T == {i \in 0..n : Walked[i].heard = guest.heard}
<1>1. n \in Nat
  BY TableTypes
<1>2. 0 \in T
  BY <1>1, WalkedSteps
<1>3. ASSUME NEW i \in 1..n, i - 1 \in T PROVE i \in T
  <2>1. i \in Rows /\ Walked[i] = Hear(Walked[i-1], KeyTable[i])
    BY <1>1, WalkedSteps DEF Rows
  <2>2. Edge(KeyTable[i].key) => KeyTable[i].code = Shift
    BY <2>1, PressedEdges, InputAssumption
  <2>3. Walked[i].heard = Walked[i-1].heard
    BY <2>1, <2>2 DEF Hear
  <2> QED
    BY <1>3, <2>3
<1> HIDE DEF T
<1>4. 0..n \subseteq T
  BY <1>1, <1>2, <1>3, Stepping
<1> QED
  BY <1>1, <1>4 DEF T, Translate

\* Another key is heard as often as it has rows, shifted if shift was held.
LEMMA KeyHeard ==
  ASSUME InputTypeOK, call.text # << >>, NEW X, NEW k, Pressed(X, k),
         \A i \in Rows : KeyTable[i].key = k => KeyTable[i].code # Shift,
         NEW b \in BOOLEAN, b <=> Shift \in guest.down
  PROVE  Translate.heard = guest.heard \o Sends(k, b)
<1> DEFINE n == Len(KeyTable)
<1>1. n \in Nat
  BY TableTypes
<1>2. PICK w \in [0..n -> Sent] :
        /\ w[0] = << >>
        /\ \A i \in Rows : w[i] = IF KeyTable[i].key = k
                                  THEN Append(w[i-1], <<KeyTable[i].code, b>>)
                                  ELSE w[i-1]
        /\ Sends(k, b) = w[n]
  BY SendsSteps
<1> DEFINE Q(i) == /\ Walked[i].heard = guest.heard \o w[i]
                   /\ Shift \in Walked[i].down <=> b
           T == {i \in 0..n : Q(i)}
<1>3. guest.heard \in Sent
  BY DEF InputTypeOK, Guest, Sent
<1>4. 0 \in T
  <2>1. guest.heard \o << >> = guest.heard
    <3> DEFINE S == Code \X BOOLEAN
               h == guest.heard
    <3> HIDE DEF S, h
    <3>1. h \in Seq(S)
      BY <1>3 DEF Sent, S, h
    <3>2. h \o << >> = h
      BY <3>1
    <3> QED
      BY <3>2 DEF h
  <2>2. Walked[0].heard = guest.heard \o w[0]
    BY <1>2, <2>1, WalkedSteps
  <2>3. Shift \in Walked[0].down <=> b
    BY WalkedSteps
  <2>4. Q(0)
    BY <2>2, <2>3
  <2> HIDE DEF Q
  <2> QED
    BY <1>1, <2>4
<1>5. ASSUME NEW i \in 1..n, i - 1 \in T PROVE i \in T
  <2>1. i \in Rows /\ Walked[i] = Hear(Walked[i-1], KeyTable[i])
    BY <1>1, WalkedSteps DEF Rows
  <2>2. /\ Walked[i-1].heard = guest.heard \o w[i-1]
        /\ Shift \in Walked[i-1].down <=> b
        /\ w[i-1] \in Sent
    BY <1>1, <1>2, <1>5
  <2>3. CASE KeyTable[i].key = k
    <3>1. Edge(KeyTable[i].key) /\ sampled[KeyTable[i].key] /\ KeyTable[i].code # Shift
      BY <2>1, <2>3, PressedEdges
    <3> DEFINE a == Shift \in Walked[i-1].down
    <3>2. Walked[i].heard = Append(Walked[i-1].heard, <<KeyTable[i].code, a>>)
      BY <2>1, <3>1 DEF Hear
    <3>3. a = b
      BY <2>2
    <3> HIDE DEF a
    <3>4. Walked[i].heard = Append(guest.heard \o w[i-1], <<KeyTable[i].code, b>>)
      BY <2>2, <3>2, <3>3
    <3>5. w[i] = Append(w[i-1], <<KeyTable[i].code, b>>)
      BY <1>2, <2>1, <2>3
    <3>6. Append(guest.heard \o w[i-1], <<KeyTable[i].code, b>>) = guest.heard \o w[i]
      <4> DEFINE S == Code \X BOOLEAN
                 h == guest.heard
                 x == <<KeyTable[i].code, b>>
                 v == w[i-1]
      <4>1. x \in S
        BY <2>1, TableTypes
      <4>2. h \in Seq(S) /\ v \in Seq(S)
        BY <1>3, <2>2 DEF Sent
      <4> HIDE DEF S, h, x, v
      <4>3. /\ Append(h \o v, x) = (h \o v) \o <<x>>
            /\ Append(v, x) = v \o <<x>>
            /\ <<x>> \in Seq(S)
        BY <4>1, <4>2
      <4>4. (h \o v) \o <<x>> = h \o (v \o <<x>>)
        BY <4>2, <4>3, ConcatAssociative
      <4> QED
        BY <3>5, <4>3, <4>4 DEF h, x, v
    <3>7. Shift \in Walked[i].down <=> b
      BY <2>1, <2>2, <3>1 DEF Hear
    <3>8. Q(i)
      BY <3>4, <3>6, <3>7
    <3> HIDE DEF Q
    <3> QED
      BY <1>1, <3>8
  <2>4. CASE KeyTable[i].key # k
    <3>1. ~Edge(KeyTable[i].key)
      BY <2>1, <2>4, PressedEdges
    <3>2. Walked[i] = Walked[i-1]
      BY <2>1, <3>1 DEF Hear
    <3>3. w[i] = w[i-1]
      BY <1>2, <2>1, <2>4
    <3>4. Q(i)
      BY <2>2, <3>2, <3>3
    <3> HIDE DEF Q
    <3> QED
      BY <1>1, <3>4
  <2> QED
    BY <2>3, <2>4
<1>6. 0..n \subseteq T
  <2> HIDE DEF T
  <2> QED
    BY <1>1, <1>4, <1>5, Stepping
<1>7. n \in T
  BY <1>1, <1>6
<1> QED
  BY <1>2, <1>7 DEF Translate

\* Keys that go up are not heard, and nothing stays down.
LEMMA WalkReleased ==
  ASSUME InputTypeOK, NEW X, Exactly(old, X), Exactly(sampled, {}),
         guest.down = Codes(X)
  PROVE  Translate.down = {} /\ Translate.heard = guest.heard
<1> DEFINE n == Len(KeyTable)
           T == {i \in 0..n : Walked[i].heard = guest.heard}
<1>1. n \in Nat
  BY TableTypes
<1>2. ASSUME NEW i \in Rows PROVE KeyTable[i].key \in Key /\ ~sampled[KeyTable[i].key]
  BY TableTypes DEF Exactly
<1>3. Translate.heard = guest.heard
  <2>1. 0 \in T
    BY <1>1, WalkedSteps
  <2>2. ASSUME NEW i \in 1..n, i - 1 \in T PROVE i \in T
    <3>1. i \in Rows /\ Walked[i] = Hear(Walked[i-1], KeyTable[i])
      BY <1>1, WalkedSteps DEF Rows
    <3>2. Walked[i].heard = Walked[i-1].heard
      BY <1>2, <3>1 DEF Hear
    <3> QED
      BY <2>2, <3>2
  <2> HIDE DEF T
  <2>3. 0..n \subseteq T
    BY <1>1, <2>1, <2>2, Stepping
  <2> QED
    BY <1>1, <2>3 DEF T, Translate
<1>4. ASSUME NEW c \in Translate.down PROVE FALSE
  <2>1. /\ c \in guest.down
        /\ \A i \in Rows : KeyTable[i].code = c => ~Edge(KeyTable[i].key)
    BY <1>2, <1>4, WalkDown
  <2>2. PICK i \in Rows : KeyTable[i].code = c /\ old[KeyTable[i].key]
    BY <1>2, <2>1 DEF Codes, Exactly
  <2> QED
    BY <1>2, <2>1, <2>2 DEF Edge
<1> QED
  BY <1>3, <1>4

-----------------------------------------------------------------------------
(* The keystrokes of a character.                                           *)

\* The keys that are down when the first p of a character's keystrokes are
\* done, and those that the last of their frames has seen.
Strokes(c) == IF c \in Shifted THEN 7 ELSE 4

Down(c, p) ==
  IF c \in Shifted
  THEN IF p \in {3, 4} THEN {LShift, Base[c]}
       ELSE IF p \in {1, 2, 5} THEN {LShift} ELSE {}
  ELSE IF p \in {1, 2} THEN {Base[c]} ELSE {}

Seen(c, p) ==
  IF c \in Shifted
  THEN IF p \in {4, 5, 6} THEN {LShift, Base[c]}
       ELSE IF p \in {2, 3} THEN {LShift} ELSE {}
  ELSE IF p \in {2, 3} THEN {Base[c]} ELSE {}

LEMMA TwoThreeTwo ==
  ASSUME NEW S, NEW a \in S, NEW r \in S, NEW x \in S, NEW y \in S, NEW z \in S,
         NEW s, s = (<<a, r>> \o <<x, r, y>>) \o <<z, r>>
  PROVE  /\ Len(s) = 7
         /\ s[1] = a /\ s[2] = r /\ s[3] = x /\ s[4] = r
         /\ s[5] = y /\ s[6] = z /\ s[7] = r
<1>1. /\ <<a, r>> \in Seq(S) /\ <<x, r, y>> \in Seq(S) /\ <<z, r>> \in Seq(S)
      /\ Len(<<a, r>>) = 2 /\ Len(<<x, r, y>>) = 3 /\ Len(<<z, r>>) = 2
      /\ <<a, r>>[1] = a /\ <<a, r>>[2] = r
      /\ <<x, r, y>>[1] = x /\ <<x, r, y>>[2] = r /\ <<x, r, y>>[3] = y
      /\ <<z, r>>[1] = z /\ <<z, r>>[2] = r
  OBVIOUS
<1> DEFINE u == <<a, r>>
           v == <<x, r, y>>
           w == <<z, r>>
           m == u \o v
<1> HIDE DEF u, v, w
<1>2. m \in Seq(S) /\ Len(m) = 5
  BY <1>1, ConcatProperties DEF u, v
<1>3. m[1] = a /\ m[2] = r /\ m[3] = x /\ m[4] = r /\ m[5] = y
  <2>1. \A i \in 1..5 : m[i] = IF i <= 2 THEN u[i] ELSE v[i-2]
    BY <1>1, ConcatProperties DEF u, v
  <2> HIDE DEF m
  <2>2. m[1] = u[1] /\ m[2] = u[2] /\ m[3] = v[1] /\ m[4] = v[2] /\ m[5] = v[3]
    BY <2>1
  <2> QED
    BY <1>1, <2>2 DEF u, v
<1> HIDE DEF m
<1>4. s = m \o w
  BY DEF m, u, v, w
<1>5. Len(s) = 7 /\ \A i \in 1..7 : s[i] = IF i <= 5 THEN m[i] ELSE w[i-5]
  <2>1. w \in Seq(S) /\ Len(w) = 2
    BY <1>1 DEF w
  <2>2. /\ Len(m \o w) = Len(m) + Len(w)
        /\ \A i \in 1..Len(m) + Len(w) :
             (m \o w)[i] = IF i <= Len(m) THEN m[i] ELSE w[i - Len(m)]
    BY <1>2, <2>1, ConcatProperties, Zenon
  <2> DEFINE q == m \o w
  <2> HIDE DEF q
  <2>3. /\ Len(q) = Len(m) + Len(w)
        /\ \A i \in 1..Len(m) + Len(w) : q[i] = IF i <= Len(m) THEN m[i] ELSE w[i - Len(m)]
    BY <2>2 DEF q
  <2>4. Len(q) = 7 /\ \A i \in 1..7 : q[i] = IF i <= 5 THEN m[i] ELSE w[i-5]
    BY <1>2, <2>1, <2>3
  <2>5. q = s
    BY <1>4 DEF q
  <2> QED
    BY <2>4, <2>5
<1>6. /\ s[1] = m[1] /\ s[2] = m[2] /\ s[3] = m[3] /\ s[4] = m[4]
      /\ s[5] = m[5] /\ s[6] = w[1] /\ s[7] = w[2]
  BY <1>5
<1> QED
  BY <1>1, <1>3, <1>5, <1>6 DEF w

LEMMA ThreeOne ==
  ASSUME NEW S, NEW r \in S, NEW x \in S, NEW y \in S,
         NEW s, s = <<x, r, y>> \o <<r>>
  PROVE  /\ Len(s) = 4
         /\ s[1] = x /\ s[2] = r /\ s[3] = y /\ s[4] = r
<1>1. /\ <<x, r, y>> \in Seq(S) /\ <<r>> \in Seq(S)
      /\ Len(<<x, r, y>>) = 3 /\ Len(<<r>>) = 1 /\ <<r>>[1] = r
      /\ <<x, r, y>>[1] = x /\ <<x, r, y>>[2] = r /\ <<x, r, y>>[3] = y
  OBVIOUS
<1> DEFINE v == <<x, r, y>>
           w == <<r>>
<1> HIDE DEF v, w
<1>2. s = v \o w
  BY DEF v, w
<1>3. Len(s) = 4 /\ \A i \in 1..4 : s[i] = IF i <= 3 THEN v[i] ELSE w[i-3]
  BY <1>1, <1>2, ConcatProperties DEF v, w
<1>4. s[1] = v[1] /\ s[2] = v[2] /\ s[3] = v[3] /\ s[4] = w[1]
  BY <1>3
<1> QED
  BY <1>1, <1>3, <1>4 DEF v, w

LEMMA StrokeAt ==
  ASSUME NEW c \in Known
  PROVE  /\ Len(Keystrokes(c)) = Strokes(c)
         /\ c \in Shifted =>
              /\ Keystrokes(c)[1] = Set(LShift, TRUE)
              /\ Keystrokes(c)[2] = Run(1)
              /\ Keystrokes(c)[3] = Set(Base[c], TRUE)
              /\ Keystrokes(c)[4] = Run(1)
              /\ Keystrokes(c)[5] = Set(Base[c], FALSE)
              /\ Keystrokes(c)[6] = Set(LShift, FALSE)
              /\ Keystrokes(c)[7] = Run(1)
         /\ c \notin Shifted =>
              /\ Keystrokes(c)[1] = Set(Base[c], TRUE)
              /\ Keystrokes(c)[2] = Run(1)
              /\ Keystrokes(c)[3] = Set(Base[c], FALSE)
              /\ Keystrokes(c)[4] = Run(1)
<1> DEFINE a == Set(LShift, TRUE)
           r == Run(1)
           x == Set(Base[c], TRUE)
           y == Set(Base[c], FALSE)
           z == Set(LShift, FALSE)
<1>0. a \in Doings /\ r \in Doings /\ x \in Doings /\ y \in Doings /\ z \in Doings
  BY DoingTypes, InputAssumption
<1>1. CASE c \in Shifted
  <2>1. Keystrokes(c) = (<<a, r>> \o <<x, r, y>>) \o <<z, r>>
    BY <1>1 DEF Keystrokes, Tap
  <2> HIDE DEF a, r, x, y, z
  <2>2. /\ Len(Keystrokes(c)) = 7
        /\ Keystrokes(c)[1] = a /\ Keystrokes(c)[2] = r /\ Keystrokes(c)[3] = x
        /\ Keystrokes(c)[4] = r /\ Keystrokes(c)[5] = y /\ Keystrokes(c)[6] = z
        /\ Keystrokes(c)[7] = r
    BY <1>0, <2>1, TwoThreeTwo
  <2> QED
    BY <1>1, <2>2 DEF Strokes, a, r, x, y, z
<1>2. CASE c \notin Shifted
  <2>1. Keystrokes(c) = <<x, r, y>> \o <<r>>
    BY <1>2 DEF Keystrokes, Tap
  <2> HIDE DEF a, r, x, y, z
  <2>2. /\ Len(Keystrokes(c)) = 4
        /\ Keystrokes(c)[1] = x /\ Keystrokes(c)[2] = r /\ Keystrokes(c)[3] = y
        /\ Keystrokes(c)[4] = r
    BY <1>0, <2>1, ThreeOne
  <2> QED
    BY <1>2, <2>2 DEF Strokes, a, r, x, y, z
<1> QED
  BY <1>1, <1>2

LEMMA StrokeKinds ==
  ASSUME NEW c \in Known, NEW p \in 1..Strokes(c)
  PROVE  /\ Keystrokes(c)[p].do \in {"key", "run"}
         /\ Keystrokes(c)[p].do = "run" <=>
              p \in (IF c \in Shifted THEN {2, 4, 7} ELSE {2, 4})
         /\ Keystrokes(c)[p].do = "run" =>
              Keystrokes(c)[p].frames = 1 /\ Keystrokes(c)[p] = Run(1)
<1>1. \A k \in Key, b \in BOOLEAN : Set(k, b).do = "key"
  BY DEF Set
<1>2. Run(1).do = "run" /\ Run(1).frames = 1
  BY DEF Run
<1>3. LShift \in Key /\ Base[c] \in Key
  BY InputAssumption
<1>4. CASE c \in Shifted
  <2>1. p \in {1, 2, 3, 4, 5, 6, 7}
    BY <1>4 DEF Strokes
  <2> DEFINE st == Keystrokes(c)[p]
  <2>2. CASE p \in {2, 4, 7}
    <3>1. st = Run(1)
      <4>1. CASE p = 2
        BY <1>4, <4>1, StrokeAt
      <4>2. CASE p = 4
        BY <1>4, <4>2, StrokeAt
      <4>3. CASE p = 7
        BY <1>4, <4>3, StrokeAt
      <4> QED
        BY <2>2, <4>1, <4>2, <4>3
    <3> QED
      BY <1>2, <1>4, <2>2, <3>1
  <2>3. CASE p \in {1, 3, 5, 6}
    <3>1. st.do = "key"
      <4>1. CASE p = 1
        <5>1. st = Set(LShift, TRUE)
          BY <1>4, <4>1, StrokeAt
        <5> QED
          BY <1>1, <1>3, <5>1
      <4>2. CASE p = 3
        <5>1. st = Set(Base[c], TRUE)
          BY <1>4, <4>2, StrokeAt
        <5> QED
          BY <1>1, <1>3, <5>1
      <4>3. CASE p = 5
        <5>1. st = Set(Base[c], FALSE)
          BY <1>4, <4>3, StrokeAt
        <5> QED
          BY <1>1, <1>3, <5>1
      <4>4. CASE p = 6
        <5>1. st = Set(LShift, FALSE)
          BY <1>4, <4>4, StrokeAt
        <5> QED
          BY <1>1, <1>3, <5>1
      <4> QED
        BY <2>3, <4>1, <4>2, <4>3, <4>4
    <3> QED
      BY <1>4, <2>3, <3>1
  <2> QED
    BY <2>1, <2>2, <2>3
<1>5. CASE c \notin Shifted
  <2>1. p \in {1, 2, 3, 4}
    BY <1>5 DEF Strokes
  <2> DEFINE st == Keystrokes(c)[p]
  <2>2. CASE p \in {2, 4}
    <3>1. st = Run(1)
      <4>1. CASE p = 2
        BY <1>5, <4>1, StrokeAt
      <4>2. CASE p = 4
        BY <1>5, <4>2, StrokeAt
      <4> QED
        BY <2>2, <4>1, <4>2
    <3> QED
      BY <1>2, <1>5, <2>2, <3>1
  <2>3. CASE p \in {1, 3}
    <3>1. st.do = "key"
      <4>1. CASE p = 1
        <5>1. st = Set(Base[c], TRUE)
          BY <1>5, <4>1, StrokeAt
        <5> QED
          BY <1>1, <1>3, <5>1
      <4>2. CASE p = 3
        <5>1. st = Set(Base[c], FALSE)
          BY <1>5, <4>2, StrokeAt
        <5> QED
          BY <1>1, <1>3, <5>1
      <4> QED
        BY <2>3, <4>1, <4>2
    <3> QED
      BY <1>5, <2>3, <3>1
  <2> QED
    BY <2>1, <2>2, <2>3
<1> QED
  BY <1>4, <1>5

\* A key of the keystrokes is one that changes, and changes nothing of what
\* has been seen; a frame sees the keys that are down.
LEMMA KeyStroke ==
  ASSUME NEW c \in Known, NEW p \in 0..Strokes(c)-1,
         Keystrokes(c)[p+1].do = "key"
  PROVE  /\ p # 1 /\ p + 1 # Strokes(c)
         /\ Keystrokes(c)[p+1].key \in Key
         /\ p = 0 => Keystrokes(c)[p+1].down
         /\ Down(c, p+1) =
              IF Keystrokes(c)[p+1].down
              THEN Down(c, p) \cup {Keystrokes(c)[p+1].key}
              ELSE Down(c, p) \ {Keystrokes(c)[p+1].key}
         /\ Seen(c, p+1) = Seen(c, p)
<1>1. LShift \in Key /\ Base[c] \in Key /\ Base[c] # LShift
  BY InputAssumption
<1>3. CASE c \in Shifted
  <2>1. p \in {0, 2, 4, 5}
    BY <1>3, StrokeKinds DEF Strokes
  <2>2. CASE p = 0
    <3>0. p + 1 = 1
      BY <2>2
    <3>1. Keystrokes(c)[p+1] = Set(LShift, TRUE)
      BY <1>3, <3>0, <2>2, StrokeAt
    <3>2. Down(c, p) = {} /\ Down(c, p+1) = {LShift} /\ {} \cup {LShift} = {LShift}
      BY <1>3, <2>2 DEF Down
    <3>3. /\ Keystrokes(c)[p+1].key = LShift
          /\ Keystrokes(c)[p+1].down = TRUE
      BY <3>1 DEF Set
    <3>4. p # 1 /\ p + 1 # Strokes(c) /\ Seen(c, p+1) = Seen(c, p)
      BY <1>3, <2>2, <3>0 DEF Seen, Strokes
    <3> QED
      BY <1>1, <2>2, <3>2, <3>3, <3>4
  <2>3. CASE p = 2
    <3>0. p + 1 = 3
      BY <2>3
    <3>1. Keystrokes(c)[p+1] = Set(Base[c], TRUE)
      BY <1>3, <3>0, <2>3, StrokeAt
    <3>2. Down(c, p) = {LShift} /\ Down(c, p+1) = {LShift} \cup {Base[c]}
      BY <1>3, <2>3 DEF Down
    <3>3. /\ Keystrokes(c)[p+1].key = Base[c]
          /\ Keystrokes(c)[p+1].down = TRUE
      BY <3>1 DEF Set
    <3>4. p # 1 /\ p + 1 # Strokes(c) /\ Seen(c, p+1) = Seen(c, p)
      BY <1>3, <2>3, <3>0 DEF Seen, Strokes
    <3> QED
      BY <1>1, <2>3, <3>2, <3>3, <3>4
  <2>4. CASE p = 4
    <3>0. p + 1 = 5
      BY <2>4
    <3>1. Keystrokes(c)[p+1] = Set(Base[c], FALSE)
      BY <1>3, <3>0, <2>4, StrokeAt
    <3>2. /\ Down(c, p) = {LShift, Base[c]} /\ Down(c, p+1) = {LShift}
          /\ {LShift, Base[c]} \ {Base[c]} = {LShift}
      BY <1>1, <1>3, <2>4 DEF Down
    <3>3. /\ Keystrokes(c)[p+1].key = Base[c]
          /\ Keystrokes(c)[p+1].down = FALSE
      BY <3>1 DEF Set
    <3>4. p # 1 /\ p + 1 # Strokes(c) /\ Seen(c, p+1) = Seen(c, p)
      BY <1>3, <2>4, <3>0 DEF Seen, Strokes
    <3> QED
      BY <1>1, <2>4, <3>2, <3>3, <3>4
  <2>5. CASE p = 5
    <3>0. p + 1 = 6
      BY <2>5
    <3>1. Keystrokes(c)[p+1] = Set(LShift, FALSE)
      BY <1>3, <3>0, <2>5, StrokeAt
    <3>2. /\ Down(c, p) = {LShift} /\ Down(c, p+1) = {}
          /\ {LShift} \ {LShift} = {}
      BY <1>1, <1>3, <2>5 DEF Down
    <3>3. /\ Keystrokes(c)[p+1].key = LShift
          /\ Keystrokes(c)[p+1].down = FALSE
      BY <3>1 DEF Set
    <3>4. p # 1 /\ p + 1 # Strokes(c) /\ Seen(c, p+1) = Seen(c, p)
      BY <1>3, <2>5, <3>0 DEF Seen, Strokes
    <3> QED
      BY <1>1, <2>5, <3>2, <3>3, <3>4
  <2> QED
    BY <2>1, <2>2, <2>3, <2>4, <2>5
<1>4. CASE c \notin Shifted
  <2>1. p \in {0, 2}
    BY <1>4, StrokeKinds DEF Strokes
  <2>2. CASE p = 0
    <3>0. p + 1 = 1
      BY <2>2
    <3>1. Keystrokes(c)[p+1] = Set(Base[c], TRUE)
      BY <1>4, <3>0, <2>2, StrokeAt
    <3>2. Down(c, p) = {} /\ Down(c, p+1) = {Base[c]} /\ {} \cup {Base[c]} = {Base[c]}
      BY <1>4, <2>2 DEF Down
    <3>3. /\ Keystrokes(c)[p+1].key = Base[c]
          /\ Keystrokes(c)[p+1].down = TRUE
      BY <3>1 DEF Set
    <3>4. p # 1 /\ p + 1 # Strokes(c) /\ Seen(c, p+1) = Seen(c, p)
      BY <1>4, <2>2, <3>0 DEF Seen, Strokes
    <3> QED
      BY <1>1, <2>2, <3>2, <3>3, <3>4
  <2>3. CASE p = 2
    <3>0. p + 1 = 3
      BY <2>3
    <3>1. Keystrokes(c)[p+1] = Set(Base[c], FALSE)
      BY <1>4, <3>0, <2>3, StrokeAt
    <3>2. /\ Down(c, p) = {Base[c]} /\ Down(c, p+1) = {}
          /\ {Base[c]} \ {Base[c]} = {}
      BY <1>1, <1>4, <2>3 DEF Down
    <3>3. /\ Keystrokes(c)[p+1].key = Base[c]
          /\ Keystrokes(c)[p+1].down = FALSE
      BY <3>1 DEF Set
    <3>4. p # 1 /\ p + 1 # Strokes(c) /\ Seen(c, p+1) = Seen(c, p)
      BY <1>4, <2>3, <3>0 DEF Seen, Strokes
    <3> QED
      BY <1>1, <2>3, <3>2, <3>3, <3>4
  <2> QED
    BY <2>1, <2>2, <2>3
<1> QED
  BY <1>3, <1>4

LEMMA FrameStroke ==
  ASSUME NEW c \in Known, NEW p \in 0..Strokes(c)-1,
         Keystrokes(c)[p+1].do = "run"
  PROVE  /\ p # 0
         /\ Down(c, p+1) = Down(c, p)
         /\ Seen(c, p+1) = Down(c, p+1)
<1>1. CASE c \in Shifted
  <2>1. p \in {1, 3, 6}
    BY <1>1, StrokeKinds DEF Strokes
  <2> QED
    BY <1>1, <2>1 DEF Down, Seen
<1>2. CASE c \notin Shifted
  <2>1. p \in {1, 3}
    BY <1>2, StrokeKinds DEF Strokes
  <2> QED
    BY <1>2, <2>1 DEF Down, Seen
<1> QED
  BY <1>1, <1>2

-----------------------------------------------------------------------------
(* A text that is typed: the second invariant.                              *)

\* How many characters are begun, and the last of them.
Begun   == Len(call.text) - Len(call.rest)
Current == call.text[Begun]

\* The keystrokes that frames have been run for.
Framed(p) == p - call.left

\* The last sample saw what it should, or the worker has seen the first key
\* before it was stopped.
OldIs(c, p) ==
  \/ Exactly(old, Seen(c, Framed(p)))
  \/ Framed(p) = 1 /\ Exactly(old, Down(c, 1))

\* A character has been heard when its key has been seen.
HeardIs(c, p) ==
  guest.heard =
    Spelled(SubSeq(call.text, 1, IF old[Base[c]] \/ Framed(p) = Strokes(c)
                                 THEN Begun ELSE Begun - 1))

\* A sample takes the keys that are down; the worker's loses none it had.
Sampling ==
  /\ \A k \in Key : sampled[k] => keys[k]
  /\ \A j \in 1..next-1 :
       IF running THEN old[Keys[j]] => sampled[Keys[j]]
       ELSE keys[Keys[j]] => sampled[Keys[j]]

Todo(c, p) ==
  /\ Len(call.todo) = Strokes(c) - p
  /\ \A i \in 1..Len(call.todo) : call.todo[i] = Keystrokes(c)[p + i]

\* The first p keystrokes of a character are done.
Striking(c, p) ==
  /\ Todo(c, p)
  /\ call.left \in {0, 1}
  /\ call.left = 1 => p \in 2..Strokes(c) /\ Keystrokes(c)[p].do = "run"
  /\ running => p \in {0, 1}
  /\ Exactly(keys, Down(c, p))
  /\ OldIs(c, p)
  /\ HeardIs(c, p)
  /\ guest.down = Codes({k \in Key : old[k]})
  /\ Sampling

\* No character is begun.
Waiting ==
  /\ call.todo = << >> /\ call.left = 0
  /\ Exactly(keys, {}) /\ Exactly(sampled, {}) /\ Exactly(old, {})
  /\ guest.down = {} /\ guest.heard = << >>

Typing ==
  call.text # << >> =>
    /\ call.ok
    /\ Begun \in 0..Len(call.text)
    /\ call.rest = SubSeq(call.text, Begun + 1, Len(call.text))
    /\ Begun = 0 => Waiting
    /\ Begun # 0 => \E c \in Known : /\ c = Current
                                    /\ \E p \in 0..Strokes(c) : Striking(c, p)

\* What a frame can find: no edge, shift going down, the key going down, with
\* shift held if the character needs it, or all going up.
Edges(c, X, Y) ==
  \/ X = Y
  \/ X = {} /\ Y = {LShift}
  \/ X = (IF c \in Shifted THEN {LShift} ELSE {}) /\ Y = X \cup {Base[c]}
  \/ Base[c] \in X /\ Y = {}

LEMMA FrameHeard ==
  ASSUME InputTypeOK, call.text # << >>,
         NEW n \in 1..Len(call.text), NEW c \in Known, call.text[n] = c,
         NEW X \in SUBSET Key, NEW Y \in SUBSET Key, Edges(c, X, Y),
         Exactly(old, X), Exactly(sampled, Y), guest.down = Codes(X),
         guest.heard = Spelled(SubSeq(call.text, 1,
                                      IF Base[c] \in X THEN n ELSE n - 1))
  PROVE  /\ Translate.down = Codes(Y)
         /\ Translate.heard =
              Spelled(SubSeq(call.text, 1,
                IF Base[c] \in Y \/ (Base[c] \in X /\ Y = {}) THEN n ELSE n - 1))
<1>1. /\ LShift \in Key /\ Base[c] \in Key /\ Base[c] # LShift
      /\ \A i \in Rows : KeyTable[i].key = Base[c] => KeyTable[i].code # Shift
  BY InputAssumption
<1>2. Codes({}) = {}
  BY DEF Codes
<1>3. CASE X = Y
  <2>1. \A k \in Key : ~Edge(k)
    BY <1>3 DEF Exactly, Edge
  <2>2. Translate = guest
    BY <2>1, WalkSame
  <2> QED
    BY <1>3, <2>2
<1>4. CASE X = {} /\ Y = {LShift}
  <2>1. Pressed(X, LShift) /\ X \cup {LShift} = Y
    BY <1>1, <1>4 DEF Pressed
  <2>2. Translate.down = Codes(Y) /\ Translate.heard = guest.heard
    BY <2>1, PressedDown, ShiftUnheard
  <2>3. Base[c] \notin X /\ Base[c] \notin Y
    BY <1>1, <1>4
  <2> QED
    BY <2>2, <2>3
<1>5. CASE X = (IF c \in Shifted THEN {LShift} ELSE {}) /\ Y = X \cup {Base[c]}
  <2>1. Base[c] \notin X /\ Base[c] \in Y
    BY <1>1, <1>5
  <2>2. Pressed(X, Base[c])
    BY <1>1, <1>5, <2>1 DEF Pressed
  <2> DEFINE b == c \in Shifted
  <2>3. b \in BOOLEAN
    OBVIOUS
  <2>4. b <=> Shift \in guest.down
    <3>1. CASE c \in Shifted
      <4>1. PICK i \in Rows : KeyTable[i] = [key |-> LShift, code |-> Shift]
        BY InputAssumption
      <4> QED
        BY <1>5, <3>1, <4>1 DEF Codes
    <3>2. CASE c \notin Shifted
      BY <1>2, <1>5, <3>2
    <3> QED
      BY <3>1, <3>2
  <2> HIDE DEF b
  <2>5. Translate.down = Codes(Y)
    BY <1>5, <2>2, PressedDown
  <2>6. Translate.heard = guest.heard \o Sends(Base[c], b)
    BY <1>1, <2>2, <2>3, <2>4, KeyHeard
  <2>7. call.text \in Seq(Known)
    BY DEF InputTypeOK, Calls
  <2>8. Stroke(call.text, n) = Sends(Base[c], b)
    BY DEF Stroke, b
  <2>9. Spelled(SubSeq(call.text, 1, n)) =
          Spelled(SubSeq(call.text, 1, n-1)) \o Sends(Base[c], b)
    BY <2>7, <2>8, SpelledMore
  <2> QED
    BY <2>1, <2>5, <2>6, <2>9
<1>6. CASE Base[c] \in X /\ Y = {}
  <2>1. Translate.down = {} /\ Translate.heard = guest.heard
    BY <1>6, WalkReleased
  <2> QED
    BY <1>2, <1>6, <2>1
<1> QED
  BY <1>3, <1>4, <1>5, <1>6 DEF Edges

LEMMA TypingNothing ==
  ASSUME call'.text = << >>
  PROVE  Typing'
BY DEF Typing

LEMMA StartTyping ==
  ASSUME Basic, NEW h \in Handlers, Start(h), call.left = 0
  PROVE  Typing'
<1>1. /\ h \in Handler
      /\ h.text # << >> => h.ok /\ h.todo = << >>
  BY HandlerTypes DEF Basic
<1>2. call \in Calls /\ guest \in Guest
  BY DEF Basic, InputTypeOK
<1>3. SUFFICES ASSUME call'.text # << >> PROVE Typing'
  BY DEF Typing
<1>4. AllUp /\ h.text # << >>
  BY <1>2, <1>3 DEF Start, Calls
<1>5. /\ call'.text = h.text /\ call'.rest = h.text /\ call'.todo = << >>
      /\ call'.ok /\ call'.left = 0
  BY <1>1, <1>2, <1>4 DEF Start, Calls
<1>6. h.text \in Seq(Known)
  BY <1>1 DEF Handler
<1>7. Begun' = 0 /\ Begun' \in 0..Len(call'.text)
  BY <1>5, <1>6 DEF Begun
<1>8. call'.rest = SubSeq(call'.text, Begun' + 1, Len(call'.text))
  BY <1>5, <1>6, <1>7
<1>9. Waiting'
  <2>1. /\ keys' = keys /\ sampled' = sampled /\ old' = old
        /\ guest'.down = guest.down /\ guest'.heard = << >>
    BY <1>2 DEF Start, frameVars, Guest
  <2>2. Exactly(keys, {}) /\ Exactly(sampled, {}) /\ Exactly(old, {})
    BY <1>4 DEF AllUp, Held, Exactly, NoKeys, Basic, InputTypeOK
  <2> QED
    BY <1>4, <1>5, <2>1, <2>2 DEF Waiting, AllUp
<1> QED
  BY <1>5, <1>7, <1>8, <1>9 DEF Typing

LEMMA NextCharTyping ==
  ASSUME Basic, Typing, NextChar
  PROVE  Typing'
<1> DEFINE t == call.text
           n == Begun + 1
<1>1. SUFFICES ASSUME t # << >> PROVE Typing'
  BY DEF Typing, NextChar, Basic, InputTypeOK, Calls
<1>2. /\ call \in Calls /\ t \in Seq(Known) /\ Len(t) \in Nat
      /\ Begun \in 0..Len(t) /\ call.ok
      /\ call.rest = SubSeq(t, n, Len(t)) /\ call.rest # << >>
      /\ call.left = 0 /\ call.todo = << >>
  <2>1. call \in Calls
    BY DEF Basic, InputTypeOK
  <2>2. t \in Seq(Known) /\ Len(t) \in Nat
    BY <2>1 DEF Calls
  <2>3. call.rest # << >> /\ call.left = 0 /\ call.todo = << >>
    BY DEF NextChar
  <2>4. call.ok /\ Begun \in 0..Len(t) /\ call.rest = SubSeq(t, n, Len(t))
    BY <1>1 DEF Typing
  <2> QED
    BY <2>1, <2>2, <2>3, <2>4
<1>3. n \in 1..Len(t) /\ n - 1 = Begun
  <2>1. CASE Begun = Len(t)
    BY <1>2, <2>1
  <2> QED
    BY <1>2, <2>1
<1>4. /\ Head(call.rest) = t[n]
      /\ Tail(call.rest) = SubSeq(t, n + 1, Len(t))
  <2> HIDE DEF t, n
  <2> QED
    BY <1>2, <1>3
<1>5. /\ call'.text = t /\ call'.left = 0 /\ call'.ok
      /\ call'.todo = Keystrokes(t[n])
      /\ call'.rest = SubSeq(t, n + 1, Len(t))
  BY <1>2, <1>4 DEF NextChar, Calls
<1>6. Begun' = n
  <2>1. Len(call'.rest) = Len(t) - n
    <3> HIDE DEF t, n
    <3> QED
      BY <1>2, <1>3, <1>5
  <2>2. Begun' = Len(t) - Len(call'.rest)
    BY <1>5 DEF Begun
  <2>3. n \in Int /\ Len(t) \in Int
    BY <1>2, <1>3
  <2> HIDE DEF t, n
  <2> QED
    BY <2>1, <2>2, <2>3
<1>7. /\ Exactly(keys, {}) /\ Exactly(old, {}) /\ Sampling
      /\ guest.down = {} /\ guest.heard = Spelled(SubSeq(t, 1, n - 1))
  <2>1. CASE Begun = 0
    <3>1. Waiting
      BY <1>1, <2>1 DEF Typing
    <3>2. SubSeq(t, 1, n - 1) = << >>
      BY <1>2, <2>1
    <3>3. ASSUME NEW j \in 1..next-1 PROVE Keys[j] \in Key
      BY <3>3, TableTypes DEF Basic, InputTypeOK
    <3>4. Sampling
      BY <3>1, <3>3 DEF Waiting, Sampling, Exactly
    <3> QED
      BY <3>1, <3>2, <3>4, SpelledNothing DEF Waiting
  <2>2. CASE Begun # 0
    <3>0. PICK c \in Known : \E p \in 0..Strokes(c) : Striking(c, p)
      BY <1>1, <2>2 DEF Typing
    <3>1. PICK p \in 0..Strokes(c) : Striking(c, p)
      BY <3>0
    <3>2. p = Strokes(c) /\ Framed(p) = Strokes(c)
      BY <1>2, <3>1 DEF Striking, Todo, Framed, Strokes
    <3>3. Down(c, p) = {} /\ Seen(c, p) = {} /\ Strokes(c) # 1
      BY <3>2 DEF Down, Seen, Strokes
    <3>4. Exactly(keys, {}) /\ Exactly(old, {})
      BY <3>1, <3>2, <3>3 DEF Striking, OldIs
    <3>5. guest.down = {}
      BY <3>1, <3>4 DEF Striking, Exactly, Codes
    <3>6. guest.heard = Spelled(SubSeq(t, 1, Begun))
      BY <3>1, <3>2 DEF Striking, HeardIs
    <3> QED
      BY <1>3, <3>1, <3>4, <3>5, <3>6 DEF Striking
  <2> QED
    BY <2>1, <2>2
<1>8. PICK c \in Known : c = t[n]
  BY <1>2, <1>3
<1>9. Striking(c, 0)'
  <2>1. Down(c, 0) = {} /\ Seen(c, 0) = {} /\ Strokes(c) # 0 /\ Strokes(c) \in Nat
    BY DEF Down, Seen, Strokes
  <2>2. Todo(c, 0)'
    <3>1. call'.todo = Keystrokes(c) /\ Len(Keystrokes(c)) = Strokes(c)
      BY <1>5, <1>8, StrokeAt
    <3>2. Len(call'.todo) = Strokes(c) - 0
      BY <2>1, <3>1
    <3>3. \A i \in 1..Len(call'.todo) : i = 0 + i
      BY <2>1, <3>1
    <3>4. \A i \in 1..Len(call'.todo) : call'.todo[i] = Keystrokes(c)[0 + i]
      BY <3>1, <3>3
    <3> QED
      BY <3>2, <3>4 DEF Todo
  <2>3. UNCHANGED <<keys, old, sampled, next, running, guest>>
    BY DEF NextChar, frameVars
  <2>4. Framed(0)' = 0
    BY <1>5 DEF Framed
  <2>5. OldIs(c, 0)'
    BY <1>7, <2>1, <2>3, <2>4 DEF OldIs
  <2>6. ~old[Base[c]]
    BY <1>7, InputAssumption DEF Exactly
  <2>7. HeardIs(c, 0)'
    BY <1>5, <1>6, <1>7, <2>1, <2>3, <2>4, <2>6 DEF HeardIs
  <2>8. guest.down = Codes({k \in Key : old[k]})
    BY <1>7 DEF Exactly, Codes
  <2>9. Sampling'
    BY <1>7, <2>3 DEF Sampling
  <2>10. guest'.down = Codes({k \in Key : old'[k]})
    BY <2>3, <2>8
  <2>11. Exactly(keys', Down(c, 0)')
    BY <1>7, <2>1, <2>3
  <2> QED
    BY <1>5, <2>2, <2>5, <2>7, <2>9, <2>10, <2>11 DEF Striking
<1>10. Current' = c
  BY <1>5, <1>6, <1>8 DEF Current
<1>11. \E p \in 0..Strokes(c) : Striking(c, p)'
  BY <1>9 DEF Strokes
<1>12. \E d \in Known : /\ d = Current'
                        /\ \E p \in 0..Strokes(d) : Striking(d, p)'
  BY <1>10, <1>11
<1>13. Begun' \in 0..Len(call'.text) /\ Begun' # 0
  BY <1>3, <1>5, <1>6
<1>14. call'.rest = SubSeq(call'.text, Begun' + 1, Len(call'.text))
  BY <1>5, <1>6
<1> QED
  BY <1>5, <1>12, <1>13, <1>14 DEF Typing

\* Where the keystrokes are, while one of them is done.
LEMMA AtStroke ==
  ASSUME Basic, Typing, call.text # << >>, NEW what, Doing(what)
  PROVE  /\ Begun # 0
         /\ \E c \in Known :
              /\ c = Current
              /\ \E p \in 0..Strokes(c)-1 :
                   /\ Striking(c, p)
                   /\ Head(call.todo) = Keystrokes(c)[p+1]
                   /\ Keystrokes(c)[p+1].do = what
<1>1. /\ call.todo # << >> /\ call.todo \in Seq(Doings) /\ Head(call.todo).do = what
  BY DEF Doing, Basic, InputTypeOK, Calls
<1>2. Begun # 0
  BY <1>1 DEF Typing, Waiting
<1>3. PICK c \in Known : c = Current /\ \E p \in 0..Strokes(c) : Striking(c, p)
  BY <1>2 DEF Typing
<1>4. PICK p \in 0..Strokes(c) : Striking(c, p)
  BY <1>3
<1>5. Strokes(c) \in Nat
  BY DEF Strokes
<1>6. Len(call.todo) > 0 /\ Head(call.todo) = call.todo[1]
  BY <1>1
<1>7. p \in 0..Strokes(c)-1
  BY <1>4, <1>5, <1>6 DEF Striking, Todo
<1>8. call.todo[1] = Keystrokes(c)[p+1]
  BY <1>1, <1>4, <1>6 DEF Striking, Todo
<1> QED
  BY <1>1, <1>2, <1>3, <1>4, <1>6, <1>7, <1>8

LEMMA TodoNext ==
  ASSUME Basic, NEW c \in Known, NEW p \in 0..Strokes(c)-1, Todo(c, p),
         call'.todo = Tail(call.todo)
  PROVE  Todo(c, p + 1)'
<1>1. call.todo \in Seq(Doings) /\ Strokes(c) \in Nat
  BY DEF Basic, InputTypeOK, Calls, Strokes
<1> DEFINE q == call.todo
           r == call'.todo
<1>2. /\ Len(q) = Strokes(c) - p
      /\ \A i \in 1..Len(q) : q[i] = Keystrokes(c)[p + i]
  BY DEF Todo
<1>3. q \in Seq(Doings) /\ q # << >> /\ r = Tail(q)
  BY <1>1, <1>2
<1> HIDE DEF q, r
<1>4. Len(r) = Len(q) - 1 /\ \A i \in 1..Len(r) : r[i] = q[i+1]
  BY <1>3
<1>5. Len(r) = Strokes(c) - (p + 1)
  BY <1>1, <1>2, <1>4
<1>6. ASSUME NEW i \in 1..Len(r) PROVE r[i] = Keystrokes(c)[(p + 1) + i]
  <2>1. i + 1 \in 1..Len(q) /\ p + (i + 1) = (p + 1) + i
    BY <1>1, <1>2, <1>4, <1>5
  <2>2. q[i+1] = Keystrokes(c)[p + (i + 1)]
    BY <1>2, <2>1
  <2> QED
    BY <1>4, <2>1, <2>2
<1> QED
  BY <1>5, <1>6 DEF Todo, r

\* The text and the characters begun stay; so does the character.
LEMMA TypingKept ==
  ASSUME Typing, call.text # << >>,
         UNCHANGED <<call.text, call.rest, call.ok>>,
         Begun # 0, NEW c \in Known, c = Current,
         \E p \in 0..Strokes(c) : Striking(c, p)'
  PROVE  Typing'
<1>1. Begun' = Begun /\ Current' = c
  BY DEF Begun, Current
<1>2. \E d \in Known : d = Current' /\ \E p \in 0..Strokes(d) : Striking(d, p)'
  BY <1>1
<1> QED
  BY <1>1, <1>2 DEF Typing

LEMMA SetKeyTyping ==
  ASSUME Basic, Typing, SetKey
  PROVE  Typing'
<1>1. Doing("key") /\ Done
  BY DEF SetKey
<1>2. /\ UNCHANGED <<call.left, call.text, call.rest, call.ok>>
      /\ call'.todo = Tail(call.todo) /\ call.left = 0
  BY <1>1, DoneBasic, DoingBasic
<1>3. SUFFICES ASSUME call.text # << >> PROVE Typing'
  BY <1>2 DEF Typing
<1>4. PICK c \in Known :
        /\ c = Current /\ Begun # 0
        /\ \E p \in 0..Strokes(c)-1 :
             /\ Striking(c, p)
             /\ Head(call.todo) = Keystrokes(c)[p+1]
             /\ Keystrokes(c)[p+1].do = "key"
  BY <1>1, <1>3, AtStroke
<1>5. PICK p \in 0..Strokes(c)-1 :
        /\ Striking(c, p)
        /\ Head(call.todo) = Keystrokes(c)[p+1]
        /\ Keystrokes(c)[p+1].do = "key"
  BY <1>4
<1> DEFINE k == Keystrokes(c)[p+1].key
           b == Keystrokes(c)[p+1].down
<1>6. /\ p # 1 /\ p + 1 # Strokes(c) /\ k \in Key
      /\ p = 0 => b
      /\ Down(c, p+1) = IF b THEN Down(c, p) \cup {k} ELSE Down(c, p) \ {k}
      /\ Seen(c, p+1) = Seen(c, p)
  BY <1>5, KeyStroke
<1>7. keys' = [keys EXCEPT ![k] = b] /\ keys' \in [Key -> BOOLEAN]
  <2>1. keys' = [keys EXCEPT ![k] = b]
    BY <1>5 DEF SetKey
  <2>2. Basic'
    BY SetKeyBasic
  <2> QED
    BY <2>1, <2>2 DEF Basic, InputTypeOK
<1>8. b \in BOOLEAN /\ keys \in [Key -> BOOLEAN]
  <2>1. Head(call.todo) \in Doings /\ Head(call.todo).do = "key"
    BY <1>1, DoingBasic
  <2> QED
    BY <1>5, <2>1 DEF Doings, Basic, InputTypeOK
<1> HIDE DEF k, b
<1>9. UNCHANGED <<old, sampled, next, running, stage, guest>>
  BY DEF SetKey, frameVars
<1>10. Strokes(c) \in Nat /\ p + 1 \in 0..Strokes(c) /\ p \in Nat
  BY DEF Strokes
<1>11. Framed(p) = p /\ Framed(p + 1)' = p + 1
  BY <1>2, <1>10 DEF Framed
<1>12. Striking(c, p + 1)'
  <2>1. Todo(c, p + 1)'
    BY <1>2, <1>5, TodoNext DEF Striking
  <2>2. call'.left = 0
    BY <1>2
  <2>3. running => p = 0
    BY <1>5, <1>6 DEF Striking
  <2>4. Exactly(keys', Down(c, p + 1))
    <3>1. Exactly(keys, Down(c, p))
      BY <1>5 DEF Striking
    <3>2. ASSUME NEW m \in Key PROVE keys'[m] <=> m \in Down(c, p + 1)
      <4>1. keys[m] <=> m \in Down(c, p)
        BY <3>1 DEF Exactly
      <4>2. CASE m = k
        BY <1>6, <1>7, <1>8, <4>2
      <4>3. CASE m # k
        BY <1>6, <1>7, <1>8, <4>1, <4>3
      <4> QED
        BY <4>2, <4>3
    <3> QED
      BY <1>7, <3>2 DEF Exactly
  <2>5. OldIs(c, p + 1)'
    <3>1. Exactly(old, Seen(c, p))
      BY <1>5, <1>6, <1>11 DEF Striking, OldIs
    <3> QED
      BY <1>6, <1>9, <1>11, <3>1 DEF OldIs
  <2>6. HeardIs(c, p + 1)'
    <3>1. Begun' = Begun
      BY <1>2 DEF Begun
    <3>2. Framed(p) # Strokes(c) /\ Framed(p + 1)' # Strokes(c)
      BY <1>6, <1>10, <1>11
    <3> QED
      BY <1>2, <1>5, <1>9, <3>1, <3>2 DEF Striking, HeardIs
  <2>7. guest'.down = Codes({m \in Key : old'[m]})
    BY <1>5, <1>9 DEF Striking
  <2>8. Sampling'
    <3>1. CASE running
      <4>1. \A m \in Key : keys[m] => keys'[m]
        BY <1>6, <1>7, <1>8, <2>3, <3>1
      <4> QED
        BY <1>5, <1>9, <3>1, <4>1 DEF Striking, Sampling
    <3>2. CASE ~running
      <4>1. stage = "none"
        BY <1>2, <3>2 DEF Basic, InputTypeOK, Framing
      <4>2. next = 1 /\ \A m \in Key : ~sampled[m]
        BY <4>1 DEF Basic, InputTypeOK, Framing, NoKeys
      <4> QED
        BY <1>9, <4>2 DEF Sampling
    <3> QED
      BY <3>1, <3>2
  <2> QED
    BY <1>9, <2>1, <2>2, <2>3, <2>4, <2>5, <2>6, <2>7, <2>8 DEF Striking
<1> QED
  BY <1>2, <1>3, <1>4, <1>10, <1>12, TypingKept

LEMMA RunFramesTyping ==
  ASSUME Basic, Typing, RunFrames
  PROVE  Typing'
<1>1. Doing("run") /\ stage = "none"
  BY DEF RunFrames
<1>2. /\ UNCHANGED <<call.text, call.rest, call.ok>>
      /\ call'.todo = Tail(call.todo) /\ call.left = 0
      /\ call'.left = Head(call.todo).frames
  BY <1>1, DoingBasic DEF RunFrames, Basic, InputTypeOK, Calls
<1>3. SUFFICES ASSUME call.text # << >> PROVE Typing'
  BY <1>2 DEF Typing
<1>4. PICK c \in Known :
        /\ c = Current /\ Begun # 0
        /\ \E p \in 0..Strokes(c)-1 :
             /\ Striking(c, p)
             /\ Head(call.todo) = Keystrokes(c)[p+1]
             /\ Keystrokes(c)[p+1].do = "run"
  BY <1>1, <1>3, AtStroke
<1>5. PICK p \in 0..Strokes(c)-1 :
        /\ Striking(c, p)
        /\ Head(call.todo) = Keystrokes(c)[p+1]
        /\ Keystrokes(c)[p+1].do = "run"
  BY <1>4
<1>6. Strokes(c) \in Nat /\ p + 1 \in 1..Strokes(c) /\ p \in Nat
  BY DEF Strokes
<1>7. p # 0 /\ Down(c, p + 1) = Down(c, p)
  BY <1>5, FrameStroke
<1>8. call'.left = 1
  BY <1>2, <1>5, <1>6, StrokeKinds
<1>9. UNCHANGED <<keys, old, sampled, next, guest>> /\ running' = FALSE
  BY DEF RunFrames, frameVars
<1>10. Framed(p) = p /\ Framed(p + 1)' = p
  BY <1>2, <1>6, <1>8 DEF Framed
<1>11. Striking(c, p + 1)'
  <2>1. Todo(c, p + 1)'
    BY <1>2, <1>5, TodoNext DEF Striking
  <2>2. p + 1 \in 2..Strokes(c)
    BY <1>6, <1>7
  <2>3. Exactly(keys', Down(c, p + 1))
    BY <1>5, <1>7, <1>9 DEF Striking
  <2>4. OldIs(c, p + 1)'
    BY <1>5, <1>9, <1>10 DEF Striking, OldIs
  <2>5. HeardIs(c, p + 1)'
    <3>1. Begun' = Begun
      BY <1>2 DEF Begun
    <3> QED
      BY <1>2, <1>5, <1>9, <1>10, <3>1 DEF Striking, HeardIs
  <2>6. guest'.down = Codes({m \in Key : old'[m]})
    BY <1>5, <1>9 DEF Striking
  <2>7. Sampling'
    <3>1. next = 1 /\ \A m \in Key : ~sampled[m]
      BY <1>1 DEF Basic, InputTypeOK, Framing, NoKeys
    <3> QED
      BY <1>9, <3>1 DEF Sampling
  <2> QED
    BY <1>5, <1>8, <1>9, <2>1, <2>2, <2>3, <2>4, <2>5, <2>6, <2>7 DEF Striking
<1>12. \E q \in 0..Strokes(c) : Striking(c, q)'
  BY <1>6, <1>11
<1> QED
  BY <1>2, <1>3, <1>4, <1>12, TypingKept

\* The mouse and a clear are no keystrokes.
LEMMA NoStroke ==
  ASSUME Basic, Typing, NEW what \in {"move", "clear"}, Doing(what), Done
  PROVE  Typing'
<1>1. call'.text = call.text
  BY DoneBasic
<1>2. CASE call.text = << >>
  BY <1>1, <1>2 DEF Typing
<1>3. CASE call.text # << >>
  <2>1. PICK c \in Known :
          \E p \in 0..Strokes(c)-1 : Keystrokes(c)[p+1].do = what
    BY <1>3, AtStroke
  <2>2. PICK p \in 0..Strokes(c)-1 : Keystrokes(c)[p+1].do = what
    BY <2>1
  <2>3. p + 1 \in 1..Strokes(c)
    BY DEF Strokes
  <2> QED
    BY <2>2, <2>3, StrokeKinds
<1> QED
  BY <1>2, <1>3

LEMMA TypingSame ==
  ASSUME Typing, UNCHANGED <<keys, sampled, old, next, running, call, guest>>
  PROVE  Typing'
<1>1. CASE call.text = << >>
  BY <1>1 DEF Typing
<1>2. CASE call.text # << >> /\ Begun = 0
  <2>1. Waiting /\ Begun' = 0
    BY <1>2 DEF Typing, Begun
  <2>2. Waiting'
    BY <2>1 DEF Waiting
  <2> QED
    BY <1>2, <2>1, <2>2 DEF Typing
<1>3. CASE call.text # << >> /\ Begun # 0
  <2>1. PICK c \in Known : c = Current /\ \E p \in 0..Strokes(c) : Striking(c, p)
    BY <1>3 DEF Typing
  <2>2. PICK p \in 0..Strokes(c) : Striking(c, p)
    BY <2>1
  <2>3. Begun' = Begun /\ Framed(p)' = Framed(p)
    BY DEF Begun, Framed
  <2>4. Todo(c, p)' /\ Sampling'
    BY <2>2 DEF Striking, Todo, Sampling
  <2>5. OldIs(c, p)' /\ HeardIs(c, p)'
    BY <2>2, <2>3 DEF Striking, OldIs, HeardIs
  <2>6. guest'.down = Codes({k \in Key : old'[k]})
    BY <2>2 DEF Striking
  <2>7. Striking(c, p)'
    BY <2>2, <2>4, <2>5, <2>6 DEF Striking
  <2> QED
    BY <1>3, <2>1, <2>7, TypingKept
<1> QED
  BY <1>1, <1>2, <1>3

LEMMA SampleTyping ==
  ASSUME Basic, Typing, Sample
  PROVE  Typing'
<1> DEFINE k == Keys[next]
<1>1. /\ UNCHANGED <<keys, old, running, call, guest>>
      /\ sampled' = [sampled EXCEPT ![k] = keys[k]] /\ next' = next + 1
  BY DEF Sample
<1>2. /\ k \in Key /\ next \in 1..Len(Keys) /\ Len(Keys) \in Nat
      /\ \A j \in 1..Len(Keys) : Keys[j] \in Key
  <2>1. Len(Keys) \in Nat /\ \A j \in 1..Len(Keys) : Keys[j] \in Key
    BY TableTypes
  <2>2. next \in 1..Len(Keys)
    BY <2>1 DEF Sample, Basic, InputTypeOK
  <2> QED
    BY <2>1, <2>2
<1>3. sampled \in [Key -> BOOLEAN] /\ keys \in [Key -> BOOLEAN]
  BY DEF Basic, InputTypeOK
<1>4. /\ sampled'[k] = keys[k]
      /\ \A m \in Key : m # k => sampled'[m] = sampled[m]
  BY <1>1, <1>2, <1>3
<1>5. sampled' \in [Key -> BOOLEAN]
  BY SampleBasic DEF Basic, InputTypeOK
<1>6. CASE call.text = << >>
  BY <1>1, <1>6 DEF Typing
<1>7. CASE call.text # << >> /\ Begun = 0
  <2>1. Waiting /\ Begun' = 0
    BY <1>1, <1>7 DEF Typing, Begun
  <2>2. \A m \in Key : ~sampled'[m]
    BY <1>2, <1>4, <2>1 DEF Waiting, Exactly
  <2>3. Waiting'
    BY <1>1, <1>5, <2>1, <2>2 DEF Waiting, Exactly
  <2> QED
    BY <1>1, <1>7, <2>1, <2>3 DEF Typing
<1>8. CASE call.text # << >> /\ Begun # 0
  <2>1. PICK c \in Known : c = Current /\ \E p \in 0..Strokes(c) : Striking(c, p)
    BY <1>8 DEF Typing
  <2>2. PICK p \in 0..Strokes(c) : Striking(c, p)
    BY <2>1
  <2>3. Begun' = Begun /\ Framed(p)' = Framed(p)
    BY <1>1 DEF Begun, Framed
  <2>4. Todo(c, p)'
    BY <1>1, <2>2 DEF Striking, Todo
  <2>5. OldIs(c, p)' /\ HeardIs(c, p)'
    BY <1>1, <2>2, <2>3 DEF Striking, OldIs, HeardIs
  <2>6. guest'.down = Codes({m \in Key : old'[m]})
    BY <1>1, <2>2 DEF Striking
  <2>7. Sampling'
    <3>1. Sampling
      BY <2>2 DEF Striking
    <3>2. ASSUME NEW m \in Key PROVE sampled'[m] => keys'[m]
      <4>1. CASE m = k
        BY <1>1, <1>4, <4>1
      <4>2. CASE m # k
        BY <1>1, <1>4, <3>1, <4>2 DEF Sampling
      <4> QED
        BY <4>1, <4>2
    <3>3. old[k] => keys[k] \/ ~running
      <4>1. CASE running
        <5>1. p \in {0, 1} /\ call.left = 0 /\ p \in Int
          BY <2>2, <4>1 DEF Striking
        <5>2. Framed(p) = p
          BY <5>1 DEF Framed
        <5>3. Exactly(keys, Down(c, p)) /\ OldIs(c, p)
          BY <2>2 DEF Striking
        <5>4. Seen(c, 0) = {} /\ Seen(c, 1) = {}
          BY DEF Seen
        <5> QED
          BY <1>2, <5>1, <5>2, <5>3, <5>4 DEF OldIs, Exactly
      <4> QED
        BY <4>1
    <3>4. ASSUME NEW j \in 1..next'-1
          PROVE  IF running' THEN old'[Keys[j]] => sampled'[Keys[j]]
                 ELSE keys'[Keys[j]] => sampled'[Keys[j]]
      <4>1. j \in 1..Len(Keys) /\ (Keys[j] = k \/ j \in 1..next-1)
        BY <1>1, <1>2
      <4>2. Keys[j] \in Key
        BY <1>2, <4>1
      <4>3. CASE Keys[j] = k
        BY <1>1, <1>4, <3>3, <4>3
      <4>4. CASE Keys[j] # k
        <5>1. sampled'[Keys[j]] = sampled[Keys[j]] /\ j \in 1..next-1
          BY <1>4, <4>1, <4>2, <4>4
        <5> QED
          BY <1>1, <3>1, <5>1 DEF Sampling
      <4> QED
        BY <4>3, <4>4
    <3> QED
      BY <3>2, <3>4 DEF Sampling
  <2>8. Striking(c, p)'
    BY <1>1, <2>2, <2>4, <2>5, <2>6, <2>7 DEF Striking
  <2> QED
    BY <1>1, <1>8, <2>1, <2>8, TypingKept
<1> QED
  BY <1>6, <1>7, <1>8

\* The edges a frame finds that has been asked for, and one of the worker.
LEMMA EdgesAsked ==
  ASSUME NEW c \in Known, NEW p \in 2..Strokes(c), Keystrokes(c)[p].do = "run",
         NEW X, X = Seen(c, p-1) \/ (p - 1 = 1 /\ X = Down(c, 1)),
         NEW Y, Y = Down(c, p)
  PROVE  /\ Edges(c, X, Y)
         /\ Y = Seen(c, p)
         /\ Base[c] \in Y \/ (Base[c] \in X /\ Y = {}) <=>
              Base[c] \in Y \/ p = Strokes(c)
<1>1. LShift \in Key /\ Base[c] \in Key /\ Base[c] # LShift
  BY InputAssumption
<1>2. CASE c \in Shifted
  <2>1. p \in {2, 4, 7}
    BY <1>2, StrokeKinds DEF Strokes
  <2>2. CASE p = 2
    BY <1>1, <1>2, <2>2 DEF Edges, Seen, Down, Strokes
  <2>3. CASE p = 4
    <3>1. X = {LShift} /\ Y = {LShift, Base[c]} /\ Seen(c, p) = {LShift, Base[c]}
      BY <1>2, <2>3 DEF Seen, Down
    <3>2. {LShift, Base[c]} = {LShift} \cup {Base[c]}
      OBVIOUS
    <3> QED
      BY <1>2, <2>3, <3>1, <3>2 DEF Edges
  <2>4. CASE p = 7
    <3>1. X = {LShift, Base[c]} /\ Y = {} /\ Seen(c, p) = {} /\ Strokes(c) = p
      BY <1>2, <2>4 DEF Seen, Down, Strokes
    <3> QED
      BY <3>1 DEF Edges
  <2> QED
    BY <2>1, <2>2, <2>3, <2>4
<1>3. CASE c \notin Shifted
  <2>1. p \in {2, 4}
    BY <1>3, StrokeKinds DEF Strokes
  <2>2. CASE p = 2
    <3>1. Y = {Base[c]} /\ Seen(c, p) = {Base[c]} /\ X \in {{}, {Base[c]}}
      BY <1>3, <2>2 DEF Seen, Down
    <3>2. {} \cup {Base[c]} = {Base[c]}
      OBVIOUS
    <3> QED
      BY <1>3, <3>1, <3>2 DEF Edges
  <2>3. CASE p = 4
    <3>1. X = {Base[c]} /\ Y = {} /\ Seen(c, p) = {} /\ Strokes(c) = p
      BY <1>3, <2>3 DEF Seen, Down, Strokes
    <3> QED
      BY <3>1 DEF Edges
  <2> QED
    BY <2>1, <2>2, <2>3
<1> QED
  BY <1>2, <1>3

LEMMA EdgesWorker ==
  ASSUME NEW c \in Known, NEW p \in {0, 1},
         NEW X, X = {} \/ (p = 1 /\ X = Down(c, 1)),
         NEW Y, X \subseteq Y, Y \subseteq Down(c, p)
  PROVE  /\ Edges(c, X, Y)
         /\ Y = {} \/ (p = 1 /\ Y = Down(c, 1))
         /\ Base[c] \in Y \/ (Base[c] \in X /\ Y = {}) <=> Base[c] \in Y
<1>1. CASE p = 0
  <2>1. Down(c, p) = {}
    BY <1>1 DEF Down
  <2>2. X = {} /\ Y = {}
    BY <1>1, <2>1
  <2> QED
    BY <2>2 DEF Edges
<1>2. CASE p = 1
  <2> DEFINE f == IF c \in Shifted THEN LShift ELSE Base[c]
  <2>1. Down(c, 1) = {f}
    BY DEF Down
  <2>2. Y = {} \/ Y = {f}
    BY <1>2, <2>1
  <2>3. X = Y \/ (X = {} /\ Y = {f})
    BY <2>1, <2>2
  <2>4. {} \cup {Base[c]} = {Base[c]}
    OBVIOUS
  <2>5. Edges(c, X, Y)
    <3>1. CASE X = Y
      BY <3>1 DEF Edges
    <3>2. CASE X = {} /\ Y = {f} /\ c \in Shifted
      BY <3>2 DEF Edges
    <3>3. CASE X = {} /\ Y = {f} /\ c \notin Shifted
      BY <2>4, <3>3 DEF Edges
    <3> QED
      BY <2>3, <3>1, <3>2, <3>3
  <2> QED
    BY <1>2, <2>1, <2>2, <2>3, <2>5
<1> QED
  BY <1>1, <1>2

LEMMA DownKeys ==
  ASSUME NEW c \in Known, NEW p
  PROVE  Down(c, p) \subseteq Key /\ Seen(c, p) \subseteq Key
BY InputAssumption DEF Down, Seen

LEMMA FrameEndTyping ==
  ASSUME Basic, Typing, FrameEnd
  PROVE  Typing'
<1> DEFINE X == {k \in Key : old[k]}
           Y == {k \in Key : sampled[k]}
<1>1. InputTypeOK /\ call \in Calls
  BY DEF Basic, InputTypeOK
<1>2. /\ Exactly(old, X) /\ Exactly(sampled, Y)
      /\ X \in SUBSET Key /\ Y \in SUBSET Key
  BY <1>1 DEF InputTypeOK, Exactly
<1>3. ASSUME NEW Z \in SUBSET Key
      PROVE  /\ Exactly(old, Z) => X = Z
             /\ Exactly(sampled, Z) => Y = Z
             /\ Y = Z => Exactly(sampled, Z)
  BY <1>2 DEF Exactly
<1>4. /\ UNCHANGED <<keys, running>> /\ guest' = Translate
      /\ old' = sampled /\ sampled' = NoKeys /\ next' = 1
  BY DEF FrameEnd
<1>5. ~running => call.left > 0
  BY LastKey DEF FrameEnd
<1>6. /\ UNCHANGED <<call.text, call.rest, call.todo, call.ok>>
      /\ call'.left = IF running THEN call.left ELSE call.left - 1
  BY <1>1 DEF FrameEnd, Calls
<1>7. ASSUME NEW k \in Key PROVE \E j \in 1..next-1 : Keys[j] = k
  <2>1. PICK j \in 1..Len(Keys) : Keys[j] = k
    BY TableTypes
  <2>2. j \in 1..next-1
    BY <1>1, TableTypes DEF FrameEnd, InputTypeOK
  <2> QED
    BY <2>1, <2>2
<1>8. Sampling'
  BY <1>4 DEF Sampling, NoKeys
<1>9. CASE call.text = << >>
  BY <1>6, <1>9 DEF Typing
<1>10. CASE call.text # << >> /\ Begun = 0
  <2>1. Waiting /\ Begun' = 0
    BY <1>6, <1>10 DEF Typing, Begun
  <2>2. \A k \in Key : ~Edge(k)
    BY <2>1 DEF Waiting, Exactly, Edge
  <2>3. guest' = guest
    BY <1>1, <1>4, <2>2, WalkSame
  <2>4. Exactly(NoKeys, {})
    BY DEF Exactly, NoKeys
  <2>5. call'.left = 0
    BY <1>5, <1>6, <2>1 DEF Waiting
  <2>6. Waiting'
    BY <1>4, <1>6, <2>1, <2>3, <2>4, <2>5 DEF Waiting
  <2> QED
    BY <1>6, <1>10, <2>1, <2>6 DEF Typing
<1>11. CASE call.text # << >> /\ Begun # 0
  <2>1. PICK c \in Known : c = Current /\ \E p \in 0..Strokes(c) : Striking(c, p)
    BY <1>11 DEF Typing
  <2>2. PICK p \in 0..Strokes(c) : Striking(c, p)
    BY <2>1
  <2>3. Strokes(c) \in {4, 7} /\ p \in Nat /\ call.left \in {0, 1}
    BY <2>2 DEF Strokes, Striking
  <2>4. Begun' = Begun /\ Begun \in 1..Len(call.text) /\ call.text[Begun] = c
    <3>1. Begun' = Begun
      BY <1>6 DEF Begun
    <3>2. Begun \in 1..Len(call.text)
      BY <1>11 DEF Typing
    <3> QED
      BY <2>1, <3>1, <3>2 DEF Current
  <2>5. Base[c] \in Key
    BY InputAssumption
  <2>6. guest.down = Codes(X)
    BY <2>2 DEF Striking
  <2>7. Framed(p) # Strokes(c) /\ Framed(p)' = p
    <3>1. CASE running
      BY <1>4, <1>6, <2>2, <2>3, <3>1 DEF Striking, Framed
    <3>2. CASE ~running
      <4>1. call.left = 1 /\ call'.left = 0
        BY <1>5, <1>6, <2>3, <3>2
      <4> QED
        BY <2>3, <4>1 DEF Framed
    <3> QED
      BY <3>1, <3>2
  <2>8. guest.heard =
          Spelled(SubSeq(call.text, 1, IF Base[c] \in X THEN Begun ELSE Begun - 1))
    <3>1. old[Base[c]] <=> Base[c] \in X
      BY <2>5
    <3> QED
      BY <2>2, <2>7, <3>1 DEF Striking, HeardIs
  <2>9. /\ Edges(c, X, Y)
        /\ Y = Seen(c, p) \/ (p = 1 /\ Y = Down(c, 1))
        /\ Base[c] \in Y \/ (Base[c] \in X /\ Y = {}) <=>
             Base[c] \in Y \/ p = Strokes(c)
    <3>1. Exactly(keys, Down(c, p)) /\ Sampling /\ OldIs(c, p)
      BY <2>2 DEF Striking
    <3>2. CASE running
      <4>1. p \in {0, 1} /\ call.left = 0
        BY <2>2, <2>3, <3>2 DEF Striking
      <4>2. Framed(p) = p /\ Seen(c, p) = {}
        BY <4>1 DEF Framed, Seen
      <4>3. X = {} \/ (p = 1 /\ X = Down(c, 1))
        BY <1>3, <3>1, <4>2, DownKeys DEF OldIs
      <4>4. Y \subseteq Down(c, p)
        BY <3>1 DEF Sampling, Exactly
      <4>5. X \subseteq Y
        BY <1>7, <3>1, <3>2 DEF Sampling
      <4>6. p # Strokes(c)
        BY <2>3, <4>1
      <4> HIDE DEF X, Y
      <4> QED
        BY <4>1, <4>2, <4>3, <4>4, <4>5, <4>6, EdgesWorker
    <3>3. CASE ~running
      <4>1. call.left = 1
        BY <1>5, <2>3, <3>3
      <4>2. /\ p \in 2..Strokes(c) /\ Keystrokes(c)[p].do = "run"
            /\ Framed(p) = p - 1
        BY <2>2, <4>1 DEF Striking, Framed
      <4>3. X = Seen(c, p-1) \/ (p - 1 = 1 /\ X = Down(c, 1))
        BY <1>3, <3>1, <4>2, DownKeys DEF OldIs
      <4>4. Y = Down(c, p)
        <5>1. \A k \in Key : sampled[k] => k \in Down(c, p)
          BY <3>1 DEF Sampling, Exactly
        <5>2. \A k \in Key : k \in Down(c, p) => sampled[k]
          BY <1>7, <3>1, <3>3 DEF Sampling, Exactly
        <5>3. Down(c, p) \subseteq Key
          BY DownKeys
        <5> QED
          BY <5>1, <5>2, <5>3
      <4> HIDE DEF X, Y
      <4> QED
        BY <4>2, <4>3, <4>4, EdgesAsked
    <3> QED
      BY <3>2, <3>3
  <2>10. /\ Translate.down = Codes(Y)
         /\ Translate.heard =
              Spelled(SubSeq(call.text, 1,
                IF Base[c] \in Y \/ (Base[c] \in X /\ Y = {})
                THEN Begun ELSE Begun - 1))
    <3> DEFINE n == Begun
    <3>1. n \in 1..Len(call.text) /\ call.text[n] = c
      BY <2>4
    <3>2. guest.heard =
            Spelled(SubSeq(call.text, 1, IF Base[c] \in X THEN n ELSE n - 1))
      BY <2>8
    <3> HIDE DEF X, Y, n
    <3>3. /\ Translate.down = Codes(Y)
          /\ Translate.heard =
               Spelled(SubSeq(call.text, 1,
                 IF Base[c] \in Y \/ (Base[c] \in X /\ Y = {}) THEN n ELSE n - 1))
      BY <1>1, <1>2, <1>11, <2>6, <2>9, <3>1, <3>2, FrameHeard
    <3> QED
      BY <3>3 DEF n
  <2>11. OldIs(c, p)'
    <3>1. Exactly(sampled, Seen(c, p)) \/ (p = 1 /\ Exactly(sampled, Down(c, 1)))
      BY <1>2, <2>9
    <3> QED
      BY <1>4, <2>7, <3>1 DEF OldIs
  <2>12. HeardIs(c, p)'
    <3>1. Base[c] \in Y <=> old'[Base[c]]
      BY <1>4, <2>5
    <3>2. guest'.heard =
            Spelled(SubSeq(call.text, 1, IF old'[Base[c]] \/ p = Strokes(c)
                                         THEN Begun ELSE Begun - 1))
      BY <1>4, <2>9, <2>10, <3>1
    <3> QED
      BY <1>6, <2>4, <2>7, <3>2 DEF HeardIs
  <2>13. guest'.down = Codes({k \in Key : old'[k]})
    BY <1>4, <2>10
  <2>14. Todo(c, p)'
    BY <1>6, <2>2 DEF Striking, Todo
  <2>15. call'.left \in {0, 1} /\ (call'.left = 1 => call.left = 1)
    BY <1>5, <1>6, <2>3
  <2>16. Striking(c, p)'
    BY <1>4, <1>8, <2>2, <2>11, <2>12, <2>13, <2>14, <2>15 DEF Striking
  <2> QED
    BY <1>6, <1>11, <2>1, <2>16, TypingKept
<1> QED
  BY <1>9, <1>10, <1>11

Invariant == Basic /\ Typing

LEMMA InvariantInit == Init => Invariant
<1>1. Init => Typing
  BY DEF Init, Idle, Typing
<1> QED
  BY <1>1, BasicInit DEF Invariant

LEMMA InvariantNext == Invariant /\ [Next]_vars => Invariant'
<1> SUFFICES ASSUME Basic, Typing, [Next]_vars PROVE Typing'
  BY BasicNext DEF Invariant
<1>1. CASE Request
  <2>1. call.left = 0
    BY <1>1 DEF Basic, Fresh, Request, Idle
  <2> QED
    BY <1>1, <2>1, StartTyping DEF Request
<1>2. CASE Macro
  BY <1>2, TypingNothing DEF Macro, Idle
<1>3. CASE MacroStep
  BY <1>3, StartTyping DEF MacroStep, Through
<1>4. CASE MacroRun
  <2>1. call'.text = << >>
    BY <1>4 DEF MacroRun, Basic, InputTypeOK, Calls
  <2> QED
    BY <2>1, TypingNothing
<1>5. CASE NextChar
  BY <1>5, NextCharTyping
<1>6. CASE SetKey
  BY <1>6, SetKeyTyping
<1>7. CASE MoveMouse
  BY <1>7, NoStroke DEF MoveMouse
<1>8. CASE ClearInput
  BY <1>8, NoStroke DEF ClearInput
<1>9. CASE RunFrames
  BY <1>9, RunFramesTyping
<1>10. CASE Reply
  BY <1>10, TypingNothing DEF Reply, Idle
<1>11. CASE Poll
  BY <1>11, TypingSame DEF Poll
<1>12. CASE MouseEvent
  BY <1>12, TypingSame DEF MouseEvent
<1>13. CASE Sample
  BY <1>13, SampleTyping
<1>14. CASE FrameEnd
  BY <1>14, FrameEndTyping
<1>15. CASE Resume \/ Load \/ Reset
  <2>1. call' = call /\ call.op = "none"
    BY <1>15 DEF Resume, Load, Reset, Jump, Between
  <2>2. call'.text = << >>
    BY <2>1 DEF Basic, Fresh, Idle
  <2> QED
    BY <2>2, TypingNothing
<1>16. CASE UNCHANGED vars
  BY <1>16, TypingSame DEF vars, frameVars
<1> QED
  BY <1>1, <1>2, <1>3, <1>4, <1>5, <1>6, <1>7, <1>8, <1>9, <1>10, <1>11, <1>12,
     <1>13, <1>14, <1>15, <1>16 DEF Next

LEMMA TypingArrives == Basic /\ Typing => TypedArrives
<1> SUFFICES ASSUME Basic, Typing, call.text # << >>, Through
             PROVE  guest.heard = Spelled(call.text)
  BY DEF TypedArrives
<1>1. /\ call.text \in Seq(Known) /\ Len(call.text) \in Nat
      /\ Len(call.text) # 0 /\ call.todo = << >> /\ call.left = 0
  BY DEF Basic, InputTypeOK, Calls, Through
<1>2. Begun = Len(call.text)
  BY <1>1 DEF Begun, Through
<1>3. PICK c \in Known : \E p \in 0..Strokes(c) : Striking(c, p)
  BY <1>1, <1>2 DEF Typing
<1>4. PICK p \in 0..Strokes(c) : Striking(c, p)
  BY <1>3
<1>5. Framed(p) = Strokes(c)
  BY <1>1, <1>4 DEF Striking, Todo, Framed, Strokes
<1>6. guest.heard = Spelled(SubSeq(call.text, 1, Begun))
  BY <1>4, <1>5 DEF Striking, HeardIs
<1>7. SubSeq(call.text, 1, Len(call.text)) = call.text
  BY <1>1
<1> QED
  BY <1>2, <1>6, <1>7

\* A text that is typed with every key up is what the guest hears, for every
\* text, every keyboard and every table, whatever a session's worker sampled
\* before the first frame paused it (arcl_l0.c, arcl_type; libretro.c,
\* handle_retrok).
THEOREM TextArrives == Spec => []TypedArrives
<1>1. Invariant => TypedArrives
  BY TypingArrives DEF Invariant
<1> QED
  BY <1>1, InvariantInit, InvariantNext, PTL DEF Spec
=============================================================================
