------------------------------- MODULE PcmRing -------------------------------
(***************************************************************************)
(* The way of the sound: the ring the core fills line by line and empties  *)
(* frame by frame (px68k-libretro/libretro/dswin.c), and the recorder of   *)
(* arcl_audio_record behind it (src/windows/frontend_core.c).              *)
(*                                                                         *)
(* The core makes as many samples as the guest's clock gives and the       *)
(* frontend takes the same number each frame; what is missing is made on   *)
(* the spot, what is left over stays in the ring.  The core's option to    *)
(* discard it is never set by this frontend.                               *)
(*                                                                         *)
(* A sample, which is a left and a right value, stands for its number in   *)
(* the order they were made; 0 is the silence the ring starts with.        *)
(***************************************************************************)
EXTENDS Integers, Sequences

CONSTANTS
  Size,      \* samples in pcmbuffer
  Batches,   \* what soundbuf_size may be: one for each video mode
  Rate,      \* the sample rate, over the clock of DSound_Send0: Rate / Unit
  Unit,      \* 10000000
  Clock,     \* clocks of a line
  Cap,       \* PX68K_AUDIO_CAP_FRAMES
  MaxSample  \* bound: samples made

ASSUME PcmAssumption ==
  /\ Size \in Nat \ {0}
  /\ Batches \subseteq 1..Size-1
  /\ Rate \in Nat
  /\ Unit \in Nat \ {0}
  /\ Clock \subseteq Nat
  \* a line makes less than the ring holds
  /\ \A c \in Clock : Unit + Rate * c < Unit * Size
  /\ Cap \in Nat
  /\ MaxSample \in Nat

VARIABLES
  snd,       \* rp, wp: pbrp, pbwp; pcm: pcmbuffer; made: samples made
  pre,       \* snd_precounter
  batch,     \* soundbuf as it was handed over
  clip,      \* g_audio_*
  stopped,   \* what the last stop answered
  heard,     \* samples handed over
  lost,      \* samples overwritten before they were
  played     \* handed over since the recorder was started

pcmVars == <<snd, pre, batch, clip, stopped, heard, lost, played>>

Cell == 0..Size-1
NoStop == [said |-> FALSE, data |-> << >>, truncated |-> FALSE]

PcmInit ==
  /\ snd = [rp |-> 0, wp |-> 0, pcm |-> [i \in Cell |-> 0], made |-> 0]
  /\ pre = 0
  /\ batch = << >>
  /\ clip = [buf |-> FALSE, active |-> FALSE, data |-> << >>,
             truncated |-> FALSE]
  /\ stopped = NoStop
  /\ heard = 0
  /\ lost = 0
  /\ played = << >>

-----------------------------------------------------------------------------
(* The ring.                                                               *)

\* What is between the positions; equal positions mean none.
Avail(r) == IF r.rp <= r.wp THEN r.wp - r.rp ELSE Size - r.rp + r.wp

\* Places after the write position, round the end.
Ahead(r, i) == IF r.wp <= i THEN i - r.wp ELSE i - r.wp + Size

\* sound_send, for less than the ring holds.
Sent(r, n) ==
  [r EXCEPT !.pcm = [i \in Cell |-> IF Ahead(r, i) < n
                                    THEN r.made + 1 + Ahead(r, i) ELSE @[i]],
            !.wp = IF @ + n >= Size THEN @ + n - Size ELSE @ + n,
            !.made = @ + n]

\* raudio_callback makes up for what is missing.
Topped(r, n) == IF n > 0 THEN Sent(r, n) ELSE r

\* Mutants: the read position goes to the start of the ring, not behind what
\* was taken from there; the start of the ring is taken to hold enough.
TakenTwice(r, len) ==
  LET lena == Size - r.rp
      s == IF lena >= len THEN r ELSE Topped(r, (len - lena) - r.wp)
  IN  [out |-> [k \in 1..len |-> s.pcm[IF k <= lena THEN r.rp + k - 1
                                        ELSE k - lena - 1]],
       ring |-> [s EXCEPT !.rp = IF lena >= len THEN @ + len ELSE 0]]

TakenShort(r, len) ==
  LET lena == Size - r.rp IN
  [out |-> [k \in 1..len |-> r.pcm[IF k <= lena THEN r.rp + k - 1
                                     ELSE k - lena - 1]],
   ring |-> [r EXCEPT !.rp = IF lena >= len THEN @ + len ELSE len - lena]]

\* The read position is ahead: the end of the ring first, then its start.
TakenRound(r, len) ==
  LET lena == Size - r.rp
      s == IF lena >= len THEN r ELSE Topped(r, (len - lena) - r.wp)
  IN  [out |-> [k \in 1..len |-> s.pcm[IF k <= lena THEN r.rp + k - 1
                                        ELSE k - lena - 1]],
       ring |-> [s EXCEPT !.rp = IF lena >= len THEN @ + len ELSE len - lena]]

\* In one piece, unless making up for the rest went round the end.
Taken(r, len) ==
  IF r.rp > r.wp THEN TakenRound(r, len)
  ELSE LET s == Topped(r, len - Avail(r)) IN
       IF s.rp > s.wp THEN TakenRound(s, len)
       ELSE [out |-> [k \in 1..len |-> s.pcm[s.rp + k - 1]],
             ring |-> [s EXCEPT !.rp = @ + len]]

-----------------------------------------------------------------------------
(* The core's side: the lines of a frame, and its end.                     *)

\* DSound_Send0.  A ring that is full, or over full, is taken for one that
\* has the newest samples only.
Line(c) ==
  LET n == (pre + Rate * c) \div Unit IN
  /\ snd.made + n <= MaxSample
  /\ snd' = Topped(snd, n)
  /\ pre' = (pre + Rate * c) % Unit
  /\ lost' = IF Avail(snd) + n >= Size THEN lost + Size ELSE lost
  /\ UNCHANGED <<batch, clip, stopped, heard, played>>

\* Mutant: a batch that does not fit is not recorded at all.
RecordedWhole(c, b) ==
  IF ~c.active THEN c
  ELSE IF Len(c.data) + Len(b) <= Cap THEN [c EXCEPT !.data = @ \o b]
  ELSE [c EXCEPT !.truncated = TRUE]

\* core_audio_sample_batch: as much as there is room for.
Recorded(c, b) ==
  LET room == Cap - Len(c.data) IN
  IF ~c.active THEN c
  ELSE IF Len(b) <= room THEN [c EXCEPT !.data = @ \o b]
  ELSE [c EXCEPT !.data = @ \o SubSeq(b, 1, room), !.truncated = TRUE]

\* The end of retro_run; with the menu open it comes without lines.  The size
\* of the batch changes when the guest changes the mode.
FrameDone(len) ==
  /\ snd.made + len <= MaxSample
  /\ LET t == Taken(snd, len) IN
       /\ snd' = t.ring
       /\ batch' = t.out
       /\ clip' = Recorded(clip, t.out)
       /\ played' = IF clip.active THEN played \o t.out ELSE played
  /\ heard' = heard + len
  /\ UNCHANGED <<pre, stopped, lost>>

\* A loaded state brings its fraction of a sample; the ring is the process's.
LoadFraction ==
  /\ pre' \in 0..Unit-1
  /\ UNCHANGED <<snd, batch, clip, stopped, heard, lost, played>>

-----------------------------------------------------------------------------
(* arcl_audio_record, at any time between two batches.                     *)

\* Only the first start allocates, and may fail to.
RecordStart ==
  /\ \E have \in IF clip.buf THEN {TRUE} ELSE BOOLEAN :
       clip' = [buf |-> have, active |-> have, data |-> << >>,
                truncated |-> FALSE]
  /\ played' = << >>
  /\ stopped' = NoStop
  /\ UNCHANGED <<snd, pre, batch, heard, lost>>

\* The clip stays, and the next stop gives it again.
RecordStop ==
  /\ clip' = [clip EXCEPT !.active = FALSE]
  /\ stopped' = [said |-> TRUE, data |-> clip.data,
                 truncated |-> clip.truncated]
  /\ UNCHANGED <<snd, pre, batch, heard, lost, played>>

PcmNext ==
  \/ \E c \in Clock : Line(c)
  \/ \E len \in Batches : FrameDone(len)
  \/ LoadFraction
  \/ RecordStart \/ RecordStop

PcmSpec == PcmInit /\ [][PcmNext]_pcmVars

-----------------------------------------------------------------------------
(* Correctness                                                             *)

\* The cell k places behind the read position.
Behind(r, k) == IF r.rp + k < Size THEN r.rp + k ELSE r.rp + k - Size

\* The ring holds the newest samples in order, and every sample made was
\* handed over, or waits, or went down with a whole ring when the backlog
\* reached its size: none is skipped or repeated otherwise, wherever the two
\* positions meet the end of the ring.
RingIsWhole ==
  /\ \A k \in 0..Avail(snd)-1 :
       snd.pcm[Behind(snd, k)] = snd.made - Avail(snd) + 1 + k
  /\ snd.made = heard + lost + Avail(snd)

\* A batch is one run of samples and comes after the one before: frames made
\* ahead, made up and left over follow each other.
BatchInOrder ==
  [][batch' # batch =>
       /\ \A k \in 1..Len(batch')-1 : batch'[k + 1] = batch'[k] + 1
       /\ batch # << >> => batch'[1] > batch[Len(batch)]]_pcmVars

\* A recording is what was played since its start up to its length, and says
\* that it was cut if there was more; so does every answer to stop.
ClipIsPrefix ==
  LET size == IF Len(played) < Cap THEN Len(played) ELSE Cap IN
  /\ clip.buf =>
       /\ clip.data = SubSeq(played, 1, size)
       /\ clip.truncated <=> Len(played) > Cap
  /\ stopped.said =>
       stopped.data = clip.data /\ stopped.truncated = clip.truncated
=============================================================================
