---------------------------- MODULE DrivesProofs ----------------------------
(***************************************************************************)
(* Theorems about Drives, for every set of disks of every format, every    *)
(* length of the list and every number of writes.                          *)
(***************************************************************************)
EXTENDS Drives, TLAPS

-----------------------------------------------------------------------------
(* The inductive invariant.                                                *)

\* Only an empty list has no disk in its tray, and then nothing was inserted.
TrayKnown ==
  /\ index <= total_images
  /\ index = total_images => total_images = 0
  /\ total_images = 0 => drive.type = "none" /\ saved.drive.type = "none"

\* How far a request has come.
Progress ==
  /\ call.stage # "idle" /\ ~running => ~in_frame
  /\ call.stage \notin {"idle", "done"} => call.ok
  /\ call.op = "eject" => call.path = NoFile
  /\ call.op = "insert" => call.path \in Path
  /\ call.stage \in {"list", "insert"} =>
       drive.type = "none" /\ call.op = "insert"
  /\ call.stage = "insert" => selected = call.path /\ total_images > 0

Named(k) == img[k] # NoImage /\ img[k].file \in Disk

\* An image that no loaded state has contradicted is the drive's; it differs
\* from its file only if it can be written back, and not at all once it has
\* been, unless the guest wrote again.
Clean ==
  \A k \in Kind : Named(k) =>
    /\ KindOf(img[k].file) = k
    /\ k \notin overlaid =>
         /\ drive.type = k
         /\ drive.read_only => img[k].data = file[img[k].file]
         /\ call.stage = "drop" =>
              raced \/ img[k].data = file[img[k].file]
                    \/ img[k].file \in HostReadOnly

\* Another disk than the one accessed last is not ready before the third frame.
Waiting ==
  \A k \in Kind :
    /\ last # NoFile
    /\ drive.type = k
    /\ img[k] # NoImage
    /\ img[k].file \in Disk
    /\ img[k].file # last
    => waited + drive.delay >= 3

Sound == TrayKnown /\ Progress /\ Clean /\ Waiting

-----------------------------------------------------------------------------
(* The image formats.                                                      *)

LEMMA KindOfType == \A p \in Path : KindOf(p) \in Kind
BY DEF KindOf, Kind

\* What a file holds after a write-back, and what is left alone.
LEMMA WrittenBackTells ==
  ASSUME TypeOK, NEW k \in Kind
  PROVE  /\ WrittenBack(img[k]) \in [Disk -> Version]
         /\ \A d \in Disk :
              ~(Named(k) /\ img[k].file = d) =>
                WrittenBack(img[k])[d] = file[d]
         /\ Named(k) /\ drive.read_only =>
              WrittenBack(img[k])[img[k].file] = file[img[k].file]
         /\ Named(k) /\ ~drive.read_only /\ img[k].file \notin HostReadOnly =>
              WrittenBack(img[k])[img[k].file] = img[k].data
<1>1. img[k] \in Image \cup {NoImage} /\ file \in [Disk -> Version]
  BY DEF TypeOK
<1>2. CASE img[k] = NoImage
  BY <1>1, <1>2 DEF WrittenBack, Named
<1>3. CASE img[k] # NoImage
  <2>1. img[k] \in Image
    BY <1>1, <1>3
  <2>2. img[k].data \in Version
    BY <2>1 DEF Image
  <2> QED
    BY <1>1, <1>3, <2>2 DEF WrittenBack, Named
<1> QED
  BY <1>2, <1>3

\* An inserted disk: the drive holds it, as it is in its file.
LEMMA SetFDTells ==
  ASSUME TypeOK, drive.type = "none", NEW p \in Path, SetFD(p)
  PROVE  /\ img' \in [Kind -> Image \cup {NoImage}]
         /\ drive' \in Kept
         /\ p \in Disk => /\ drive'.type = KindOf(p)
                          /\ drive'.delay = 3
                          /\ img'[KindOf(p)] = [file |-> p, data |-> file[p]]
         /\ p \in Missing => /\ drive'.type = "none"
                             /\ \A k \in Kind : img'[k] # img[k] =>
                                  img'[k] = [file |-> NoFile, data |-> 0]
         /\ \A k \in Kind : k # KindOf(p) => img'[k] = img[k]
<1>1. KindOf(p) \in Kind /\ img \in [Kind -> Image \cup {NoImage}]
      /\ drive \in Kept /\ file \in [Disk -> Version]
  BY KindOfType DEF TypeOK
<1>2. CASE p \in Missing
  <2>1. [file |-> NoFile, data |-> 0] \in Image
    BY DrivesAssumption DEF Image, Version
  <2>2. p \notin Disk
    BY <1>2, DrivesAssumption
  <2>3. drive' = [drive EXCEPT !.read_only = TRUE]
    BY <1>2 DEF SetFD
  <2>4. img' = img
        \/ (img' = [img EXCEPT ![KindOf(p)] = [file |-> NoFile, data |-> 0]])
    BY <1>2 DEF SetFD
  <2>5. drive' \in Kept /\ drive'.type = "none"
    BY <1>1, <2>3 DEF Kept
  <2> QED
    BY <1>1, <2>1, <2>2, <2>4, <2>5
<1>3. CASE p \notin Missing
  <2>1. p \in Disk
    BY <1>3 DEF Path
  <2>2. Fresh(p) = [file |-> p, data |-> file[p]] /\ Fresh(p) \in Image
    BY <1>1, <2>1 DEF Fresh, Image
  <2>3. /\ img' = [img EXCEPT ![KindOf(p)] = Fresh(p)]
        /\ drive' = [type |-> KindOf(p), read_only |-> p \in Protected,
                     delay |-> 3]
    BY <1>3 DEF SetFD
  <2>4. drive' \in Kept /\ drive'.type = KindOf(p) /\ drive'.delay = 3
    BY <1>1, <2>3 DEF Kept
  <2> QED
    BY <1>1, <1>3, <2>2, <2>3, <2>4
<1> QED
  BY <1>2, <1>3

\* A drive that lets its image go.
LEMMA DroppedTells ==
  ASSUME TypeOK,
         img' = [k \in Kind |-> IF k = drive.type THEN NoImage ELSE img[k]],
         drive' = [Empty EXCEPT !.delay = drive.delay]
  PROVE  /\ img' \in [Kind -> Image \cup {NoImage}]
         /\ drive' \in Kept
         /\ drive'.type = "none" /\ drive'.delay = drive.delay
         /\ drive.type \in Kind => img'[drive.type] = NoImage
         /\ \A k \in Kind : k # drive.type => img'[k] = img[k]
BY DEF TypeOK, Kept, Empty

-----------------------------------------------------------------------------
(* Steps that leave the disk alone.                                        *)

LEMMA CleanStays ==
  ASSUME Clean, UNCHANGED <<img, file, overlaid>>,
         drive'.type = drive.type, drive'.read_only = drive.read_only,
         call'.stage # "drop" \/ UNCHANGED <<call, raced>>
  PROVE  Clean'
BY DEF Clean, Named

LEMMA WaitingStays ==
  ASSUME Waiting, UNCHANGED <<drive, img, last, waited>>
  PROVE  Waiting'
BY DEF Waiting

LEMMA InitSound == Init => TypeOK /\ Sound
<1> SUFFICES ASSUME Init PROVE TypeOK /\ Sound
  OBVIOUS
<1> USE DEF Init
<1>1. Idle \in Call /\ file \in [Disk -> Version]
  BY DrivesAssumption DEF Idle, Call, Version
<1>2. /\ drive \in Kept /\ img \in [Kind -> Image \cup {NoImage}]
      /\ Inside(drive.type, img) \in Disk \cup {NoFile}
      /\ selected \in Path \cup {NoFile} /\ total_images \in {0, 2}
      /\ total_images = 0 => drive.type = "none"
      /\ \A k \in Kind : Named(k) =>
           /\ KindOf(img[k].file) = k
           /\ drive.type = k
           /\ img[k].data = file[img[k].file]
  <2>1. CASE /\ total_images = 0
             /\ selected = NoFile
             /\ drive = Empty
             /\ img = [k \in Kind |-> NoImage]
    BY <2>1 DEF Kept, Empty, Inside, Named
  <2>2. CASE \E d, e \in Disk :
               /\ total_images = 2
               /\ selected = d
               /\ drive = [type |-> KindOf(e), read_only |-> e \in Protected,
                           delay |-> 3]
               /\ img = [k \in Kind |-> IF k = KindOf(e)
                           THEN [file |-> e, data |-> 0] ELSE NoImage]
    <3>1. PICK d \in Disk, e \in Disk :
            /\ total_images = 2
            /\ selected = d
            /\ drive = [type |-> KindOf(e), read_only |-> e \in Protected,
                        delay |-> 3]
            /\ img = [k \in Kind |-> IF k = KindOf(e)
                        THEN [file |-> e, data |-> 0] ELSE NoImage]
      BY <2>2
    <3>2. KindOf(e) \in Kind /\ KindOf(e) # "none"
      BY KindOfType DEF Path, Kind
    <3>3. [file |-> e, data |-> 0] \in Image
      BY DrivesAssumption DEF Image, Version
    <3>4. drive \in Kept /\ img \in [Kind -> Image \cup {NoImage}]
      BY <3>1, <3>2, <3>3 DEF Kept
    <3>5. img[KindOf(e)] = [file |-> e, data |-> 0] /\ drive.type = KindOf(e)
          /\ \A k \in Kind : k # KindOf(e) => img[k] = NoImage
      BY <3>1, <3>2
    <3>6. file[e] = 0
      OBVIOUS
    <3> QED
      BY <3>1, <3>2, <3>3, <3>4, <3>5, <3>6, DrivesAssumption
         DEF Inside, Named, Path
  <2> QED
    BY <2>1, <2>2
<1>3. TypeOK
  <2>1. saved \in [drive : Kept, inside : Disk \cup {NoFile}]
    BY <1>2
  <2>2. /\ total_images \in Nat /\ index \in Nat /\ writes \in Version
        /\ waited \in 0..3 /\ last \in Disk \cup {NoFile}
    BY <1>2, DrivesAssumption DEF Version
  <2>3. /\ running \in BOOLEAN /\ in_frame \in BOOLEAN
        /\ force_ready \in BOOLEAN /\ raced \in BOOLEAN
        /\ overlaid \subseteq Kind /\ call \in Call
    BY <1>1
  <2>4. file \in [Disk -> Version]
    BY <1>1
  <2> HIDE DEF Init
  <2> QED
    BY <1>2, <2>1, <2>2, <2>3, <2>4 DEF TypeOK
<1>4. TrayKnown
  BY <1>2 DEF TrayKnown
<1>5. Progress
  BY DEF Progress, Idle
<1>6. Clean /\ Waiting
  BY <1>2 DEF Clean, Waiting, Idle
<1> QED
  BY <1>3, <1>4, <1>5, <1>6 DEF Sound

LEMMA StepRequest == TypeOK /\ Sound /\ Request => TypeOK' /\ Sound'
<1> SUFFICES ASSUME TypeOK, Sound, Request PROVE TypeOK' /\ Sound'
  OBVIOUS
<1>1. UNCHANGED <<listVars, drive, img, file, writes, saved, running, in_frame,
                  guestVars, overlaid>>
  BY DEF Request
<1>2. /\ call' \in Call /\ call'.stage = "tray" /\ call'.ok
      /\ call'.op = "eject" => call'.path = NoFile
      /\ call'.op = "insert" => call'.path \in Path
      /\ raced' = FALSE
      /\ ~running' => ~in_frame'
  <2>1. CASE \E p \in Path :
          call' = [op |-> "insert", path |-> p, stage |-> "tray", ok |-> TRUE]
    <3>1. call' \in Call
      BY <2>1 DEF Call
    <3> QED
      BY <1>1, <2>1, <3>1 DEF Request
  <2>2. CASE call' = [op |-> "eject", path |-> NoFile, stage |-> "tray",
                      ok |-> TRUE]
    <3>1. call' \in Call
      BY <2>2 DEF Call
    <3> QED
      BY <1>1, <2>2, <3>1 DEF Request
  <2> QED
    BY <2>1, <2>2 DEF Request
<1>3. TypeOK' /\ TrayKnown'
  BY <1>1, <1>2 DEF TypeOK, TrayKnown, Sound, listVars, guestVars
<1>4. Progress'
  BY <1>2 DEF Progress
<1>5. Clean' /\ Waiting'
  BY <1>1, <1>2, CleanStays, WaitingStays DEF Sound, guestVars
<1> QED
  BY <1>3, <1>4, <1>5 DEF Sound

\* The steps of a request that leave the drive alone.
LEMMA StepStage ==
  TypeOK /\ Sound /\ (TrayStays \/ ListFull \/ Reply) => TypeOK' /\ Sound'
<1> SUFFICES ASSUME TypeOK, Sound, TrayStays \/ ListFull \/ Reply
             PROVE  TypeOK' /\ Sound'
  OBVIOUS
<1>1. UNCHANGED <<listVars, drive, img, file, writes, saved, running, in_frame,
                  guestVars, overlaid, raced>>
  BY DEF TrayStays, ListFull, Reply
<1>2. Idle \in Call
  BY DEF Idle, Call
<1>3. /\ call' \in Call /\ call'.stage # "drop"
      /\ call'.stage \in {"idle", "list", "done"}
      /\ call.stage # "idle"
      /\ call' = Idle \/ (call'.op = call.op /\ call'.path = call.path)
      /\ call'.stage # "done" => call'.ok
      /\ call'.stage = "list" => drive.type = "none" /\ call.op = "insert"
  <2>1. CASE TrayStays
    <3>1. /\ call' = [call EXCEPT !.stage = AfterEject]
          /\ call.stage = "tray" /\ NoneInTray
      BY <2>1 DEF TrayStays, Keep
    <3>2. drive.type = "none" /\ call.ok
      BY <3>1 DEF Sound, TrayKnown, NoneInTray, Progress
    <3> QED
      BY <3>1, <3>2 DEF AfterEject, TypeOK, Call
  <2>2. CASE ListFull
    BY <2>2 DEF ListFull, TypeOK, Call
  <2>3. CASE Reply
    BY <1>2, <2>3 DEF Reply, Idle
  <2> QED
    BY <2>1, <2>2, <2>3
<1>4. TypeOK' /\ TrayKnown'
  BY <1>1, <1>3 DEF TypeOK, TrayKnown, Sound, listVars, guestVars
<1>5. Progress'
  BY <1>1, <1>3 DEF Progress, Sound, Idle
<1>6. Clean' /\ Waiting'
  BY <1>1, <1>3, CleanStays, WaitingStays DEF Sound, guestVars
<1> QED
  BY <1>4, <1>5, <1>6 DEF Sound

LEMMA StepList == TypeOK /\ Sound /\ List => TypeOK' /\ Sound'
<1> SUFFICES ASSUME TypeOK, Sound, List PROVE TypeOK' /\ Sound'
  OBVIOUS
<1>1. /\ call.stage = "list"
      /\ total_images' = total_images + 1
      /\ index' = total_images
      /\ selected' = call.path
      /\ call' = [call EXCEPT !.stage = "insert"]
      /\ UNCHANGED <<drive, img, file, writes, saved, running, in_frame,
                     guestVars, overlaid, raced>>
  BY DEF List, Keep
<1>2. drive.type = "none" /\ call.op = "insert" /\ call.path \in Path /\ call.ok
  BY <1>1 DEF Sound, Progress
<1>3. /\ call' \in Call /\ call'.stage = "insert" /\ call'.op = call.op
      /\ call'.path = call.path /\ call'.ok = call.ok
  BY <1>1 DEF TypeOK, Call
<1>4. TypeOK' /\ TrayKnown'
  BY <1>1, <1>2, <1>3 DEF TypeOK, TrayKnown, guestVars
<1>5. Progress'
  BY <1>1, <1>2, <1>3 DEF Progress, Sound, TypeOK
<1>6. Clean' /\ Waiting'
  BY <1>1, <1>3, CleanStays, WaitingStays DEF Sound, guestVars
<1> QED
  BY <1>4, <1>5, <1>6 DEF Sound

\* The file of the drive's image takes what was written, if it may.
LEMMA StepWriteBack == TypeOK /\ Sound /\ WriteBack => TypeOK' /\ Sound'
<1> SUFFICES ASSUME TypeOK, Sound, WriteBack PROVE TypeOK' /\ Sound'
  OBVIOUS
<1>1. /\ call.stage = "tray"
      /\ file' = IF drive.type = "none" THEN file
                 ELSE WrittenBack(img[drive.type])
      /\ call' = [call EXCEPT !.stage = "drop"]
      /\ UNCHANGED <<listVars, drive, img, writes, saved, running, in_frame,
                     guestVars, overlaid, raced>>
  BY DEF WriteBack, Keep
<1>2. call' \in Call /\ call'.stage = "drop" /\ call'.op = call.op
      /\ call'.path = call.path /\ call'.ok = call.ok
  BY <1>1 DEF TypeOK, Call
<1>3. drive.type \in Kind \cup {"none"}
  BY DEF TypeOK, Kept
<1>4. file' \in [Disk -> Version]
  BY <1>1, <1>3, WrittenBackTells DEF TypeOK
<1>5. TypeOK' /\ TrayKnown'
  BY <1>1, <1>2, <1>4 DEF TypeOK, TrayKnown, Sound, listVars, guestVars
<1>6. Progress'
  BY <1>1, <1>2 DEF Progress, Sound
<1>7. Clean'
  <2> SUFFICES ASSUME NEW k \in Kind, Named(k), k \notin overlaid
               PROVE  /\ drive.type = k
                      /\ drive.read_only => img[k].data = file'[img[k].file]
                      /\ \/ img[k].data = file'[img[k].file]
                         \/ img[k].file \in HostReadOnly
    BY <1>1 DEF Clean, Sound, Named
  <2>1. /\ drive.type = k
        /\ drive.read_only => img[k].data = file[img[k].file]
    BY DEF Clean, Sound
  <2>2. file' = WrittenBack(img[k])
    BY <1>1, <2>1 DEF Kind
  <2>3. CASE drive.read_only
    BY <2>1, <2>2, <2>3, WrittenBackTells
  <2>4. CASE ~drive.read_only
    BY <2>1, <2>2, <2>4, WrittenBackTells
  <2> QED
    BY <2>1, <2>3, <2>4
<1>8. Waiting'
  BY <1>1, WaitingStays DEF Sound, guestVars
<1> QED
  BY <1>5, <1>6, <1>7, <1>8 DEF Sound

\* An image that is gone is no longer the drive's; the others were overlaid.
LEMMA CleanDropped ==
  ASSUME TypeOK, Clean,
         img' = [k \in Kind |-> IF k = drive.type THEN NoImage ELSE img[k]],
         drive' = [Empty EXCEPT !.delay = drive.delay],
         overlaid' = overlaid \ {drive.type}
  PROVE  Clean' /\ Waiting'
<1>1. /\ drive'.type = "none"
      /\ drive.type \in Kind => img'[drive.type] = NoImage
      /\ \A k \in Kind : k # drive.type => img'[k] = img[k]
  BY DroppedTells
<1>2. \A k \in Kind : img'[k] # NoImage =>
        k # drive.type /\ img'[k] = img[k]
  BY <1>1
<1>3. \A k \in Kind : Named(k)' => KindOf(img'[k].file) = k /\ k \in overlaid'
  BY <1>2 DEF Clean, Named
<1>4. Clean'
  BY <1>3 DEF Clean
<1>5. Waiting'
  BY <1>1 DEF Waiting, Kind
<1> QED
  BY <1>4, <1>5

LEMMA StepDrop == TypeOK /\ Sound /\ Drop => TypeOK' /\ Sound'
<1> SUFFICES ASSUME TypeOK, Sound, Drop PROVE TypeOK' /\ Sound'
  OBVIOUS
<1>1. /\ call.stage = "drop"
      /\ img' = [k \in Kind |-> IF k = drive.type THEN NoImage ELSE img[k]]
      /\ drive' = [Empty EXCEPT !.delay = drive.delay]
      /\ overlaid' = overlaid \ {drive.type}
      /\ call' = [call EXCEPT !.stage = AfterEject]
      /\ UNCHANGED <<listVars, file, writes, saved, running, in_frame,
                     guestVars, raced>>
  BY DEF Drop, Keep
<1>2. /\ call' \in Call /\ call'.stage = AfterEject /\ call'.op = call.op
      /\ call'.path = call.path /\ call'.ok = call.ok
  BY <1>1 DEF TypeOK, Call, AfterEject
<1>3. /\ img' \in [Kind -> Image \cup {NoImage}] /\ drive' \in Kept
      /\ drive'.type = "none"
  BY <1>1, DroppedTells
<1>4. TypeOK' /\ TrayKnown'
  BY <1>1, <1>2, <1>3 DEF TypeOK, TrayKnown, Sound, listVars, guestVars
<1>5. Progress'
  BY <1>1, <1>2, <1>3 DEF Progress, Sound, AfterEject
<1>6. Clean' /\ Waiting'
  BY <1>1, CleanDropped DEF Sound
<1> QED
  BY <1>4, <1>5, <1>6 DEF Sound

LEMMA StepGuestEject == TypeOK /\ Sound /\ GuestEject => TypeOK' /\ Sound'
<1> SUFFICES ASSUME TypeOK, Sound, GuestEject PROVE TypeOK' /\ Sound'
  OBVIOUS
<1>1. /\ img' = [k \in Kind |-> IF k = drive.type THEN NoImage ELSE img[k]]
      /\ drive' = [Empty EXCEPT !.delay = drive.delay]
      /\ overlaid' = overlaid \ {drive.type}
      /\ file' = IF drive.type = "none" THEN file
                 ELSE WrittenBack(img[drive.type])
      /\ UNCHANGED <<listVars, writes, saved, call, running, in_frame,
                     guestVars, raced>>
  BY DEF GuestEject, EjectFD
<1>2. drive.type \in Kind \cup {"none"}
  BY DEF TypeOK, Kept
<1>3. file' \in [Disk -> Version]
  BY <1>1, <1>2, WrittenBackTells DEF TypeOK
<1>4. /\ img' \in [Kind -> Image \cup {NoImage}] /\ drive' \in Kept
      /\ drive'.type = "none"
  BY <1>1, DroppedTells
<1>5. TypeOK' /\ TrayKnown'
  BY <1>1, <1>3, <1>4 DEF TypeOK, TrayKnown, Sound, listVars, guestVars
<1>6. Progress'
  BY <1>1, <1>4 DEF Progress, Sound, listVars
<1>7. Clean' /\ Waiting'
  BY <1>1, CleanDropped DEF Sound
<1> QED
  BY <1>5, <1>6, <1>7 DEF Sound

LEMMA StepInsert == TypeOK /\ Sound /\ Insert => TypeOK' /\ Sound'
<1> SUFFICES ASSUME TypeOK, Sound, Insert PROVE TypeOK' /\ Sound'
  OBVIOUS
<1>1. /\ call.stage = "insert"
      /\ SetFD(selected)
      /\ call' = [call EXCEPT !.stage = "done"]
      /\ overlaid' = overlaid \ {k \in Kind : img'[k] # img[k]}
      /\ UNCHANGED <<listVars, file, writes, saved, running, in_frame,
                     guestVars, raced>>
  BY DEF Insert, Keep
<1>2. /\ call' \in Call /\ call'.stage = "done" /\ call'.op = call.op
      /\ call'.path = call.path /\ call'.ok = call.ok
  BY <1>1 DEF TypeOK, Call
<1>3. /\ drive.type = "none" /\ selected \in Path /\ selected = call.path
      /\ total_images > 0
  BY <1>1 DEF Sound, Progress
<1> DEFINE p == selected
<1>4. /\ img' \in [Kind -> Image \cup {NoImage}]
      /\ drive' \in Kept
      /\ p \in Disk => /\ drive'.type = KindOf(p)
                       /\ drive'.delay = 3
                       /\ img'[KindOf(p)] = [file |-> p, data |-> file[p]]
      /\ p \in Missing => /\ drive'.type = "none"
                          /\ \A k \in Kind : img'[k] # img[k] =>
                               img'[k] = [file |-> NoFile, data |-> 0]
      /\ \A k \in Kind : k # KindOf(p) => img'[k] = img[k]
  BY <1>1, <1>3, SetFDTells
<1>5. TypeOK' /\ TrayKnown'
  BY <1>1, <1>2, <1>3, <1>4 DEF TypeOK, TrayKnown, Sound, listVars, guestVars
<1>6. Progress'
  BY <1>1, <1>2, <1>3 DEF Progress, Sound, listVars
<1>7. Clean'
  <2> SUFFICES ASSUME NEW k \in Kind, Named(k)'
               PROVE  /\ KindOf(img'[k].file) = k
                      /\ k \notin overlaid' =>
                           /\ drive'.type = k
                           /\ img'[k].data = file[img'[k].file]
    BY <1>1, <1>2 DEF Clean
  <2>1. CASE img'[k] = img[k]
    <3>1. Named(k)
      BY <2>1 DEF Named
    <3>2. KindOf(img[k].file) = k /\ k \in overlaid
      BY <1>3, <3>1 DEF Sound, Clean, Kind
    <3> QED
      BY <1>1, <2>1, <3>2
  <2>2. CASE img'[k] # img[k]
    <3>1. k = KindOf(p)
      BY <1>4, <2>2
    <3>2. p \notin Missing
      BY <1>4, <2>2, DrivesAssumption DEF Named, Path
    <3>3. p \in Disk
      BY <1>3, <3>2 DEF Path
    <3> QED
      BY <1>4, <3>1, <3>3
  <2> QED
    BY <2>1, <2>2
<1>8. Waiting'
  <2>1. CASE p \in Disk
    BY <1>1, <1>4, <2>1 DEF Waiting, TypeOK, guestVars
  <2>2. CASE p \in Missing
    BY <1>4, <2>2 DEF Waiting, Kind
  <2> QED
    BY <1>3, <2>1, <2>2 DEF Path
<1> QED
  BY <1>5, <1>6, <1>7, <1>8 DEF Sound

\* Steps that change neither the disk nor the request.
LEMMA StepQuiet ==
  TypeOK /\ Sound /\ (FrameBegin \/ ForceReady \/ Resume \/ Save)
    => TypeOK' /\ Sound'
<1> SUFFICES ASSUME TypeOK, Sound,
                    FrameBegin \/ ForceReady \/ Resume \/ Save
             PROVE  TypeOK' /\ Sound'
  OBVIOUS
<1>1. /\ UNCHANGED <<listVars, drive, img, file, writes, call, last, waited,
                     overlaid, raced>>
      /\ running' \in BOOLEAN /\ in_frame' \in BOOLEAN
      /\ force_ready' \in BOOLEAN
      /\ call'.stage # "idle" /\ ~running' => ~in_frame'
  BY DEF FrameBegin, ForceReady, Resume, Save, Between, guestVars, TypeOK,
         Sound, Progress
<1>2. /\ saved' \in [drive : Kept, inside : Disk \cup {NoFile}]
      /\ total_images = 0 => saved'.drive.type = "none"
  <2>1. CASE Save
    <3>1. /\ saved' = [drive |-> drive, inside |-> Inside(drive.type, img)]
          /\ drive \in Kept
      BY <2>1 DEF Save, TypeOK
    <3>2. Inside(drive.type, img) \in Disk \cup {NoFile}
      <4>1. CASE drive.type \in Kind
        <5>1. img[drive.type] \in Image \cup {NoImage}
          BY <4>1 DEF TypeOK
        <5> QED
          BY <5>1 DEF Inside, Image
      <4>2. CASE drive.type = "none"
        BY <4>2 DEF Inside
      <4> QED
        BY <3>1, <4>1, <4>2 DEF Kept
    <3> QED
      BY <3>1, <3>2 DEF Sound, TrayKnown
  <2>2. CASE ~Save
    BY <2>2 DEF FrameBegin, ForceReady, Resume, TypeOK, Sound, TrayKnown
  <2> QED
    BY <2>1, <2>2
<1>3. TypeOK' /\ TrayKnown'
  BY <1>1, <1>2 DEF TypeOK, TrayKnown, Sound, listVars
<1>4. Progress'
  BY <1>1 DEF Progress, Sound, listVars
<1>5. Clean' /\ Waiting'
  BY <1>1, CleanStays, WaitingStays DEF Sound
<1> QED
  BY <1>3, <1>4, <1>5 DEF Sound

LEMMA StepFrameEnd == TypeOK /\ Sound /\ FrameEnd => TypeOK' /\ Sound'
<1> SUFFICES ASSUME TypeOK, Sound, FrameEnd PROVE TypeOK' /\ Sound'
  OBVIOUS
<1>1. /\ in_frame' = FALSE
      /\ drive' = [drive EXCEPT !.delay = IF @ = 0 THEN 0 ELSE @ - 1]
      /\ waited' = IF Ready \/ waited = 3 THEN waited ELSE waited + 1
      /\ UNCHANGED <<listVars, img, file, writes, saved, call, running,
                     force_ready, last, overlaid, raced>>
  BY DEF FrameEnd
<1>2. /\ drive' \in Kept /\ drive'.type = drive.type
      /\ drive'.read_only = drive.read_only
      /\ drive'.delay = IF drive.delay = 0 THEN 0 ELSE drive.delay - 1
      /\ drive.delay \in 0..3
  BY <1>1 DEF TypeOK, Kept
<1>3. waited \in 0..3 /\ waited' \in 0..3
  BY <1>1 DEF TypeOK
<1>4. TypeOK' /\ TrayKnown'
  BY <1>1, <1>2, <1>3 DEF TypeOK, TrayKnown, Sound, listVars
<1>5. Progress'
  BY <1>1, <1>2 DEF Progress, Sound, listVars
<1>6. Clean'
  BY <1>1, <1>2, CleanStays DEF Sound
<1>7. Waiting'
  <2> SUFFICES ASSUME NEW k \in Kind, last # NoFile, drive.type = k,
                      img[k] # NoImage, img[k].file \in Disk,
                      img[k].file # last
               PROVE  waited' + drive'.delay >= 3
    BY <1>1, <1>2 DEF Waiting
  <2>1. waited + drive.delay >= 3
    BY DEF Sound, Waiting
  <2>2. drive.type # "none"
    BY DEF Kind
  <2> QED
    BY <1>1, <1>2, <1>3, <2>1, <2>2 DEF Ready
<1> QED
  BY <1>4, <1>5, <1>6, <1>7 DEF Sound

\* A guest that reaches an image has accessed it last.
LEMMA StepAccess ==
  TypeOK /\ Sound /\ (GuestRead \/ GuestWrite) => TypeOK' /\ Sound'
<1> SUFFICES ASSUME TypeOK, Sound, GuestRead \/ GuestWrite
             PROVE  TypeOK' /\ Sound'
  OBVIOUS
<1>1. /\ waited' = 0
      /\ UNCHANGED <<listVars, drive, file, saved, call, running, in_frame,
                     force_ready, overlaid>>
  BY DEF GuestRead, GuestWrite
<1>2. PICK k \in Kind :
        /\ Reaches(k)
        /\ last' = img[k].file
        /\ \/ UNCHANGED <<img, writes, raced>>
           \/ /\ writes < MaxWrite /\ writes' = writes + 1
              /\ ~drive.read_only
              /\ img' = [img EXCEPT ![k].data = writes + 1]
              /\ raced' = (raced \/ Racing)
  BY DEF GuestRead, GuestWrite
<1>3. drive.type = k /\ img[k] \in Image
  BY <1>2 DEF Reaches, TypeOK
<1>4. /\ writes' \in Version /\ raced' \in BOOLEAN
      /\ img' \in [Kind -> Image \cup {NoImage}]
      /\ img'[k] # NoImage /\ img'[k].file = img[k].file
      /\ \A j \in Kind : j # k => img'[j] = img[j]
  <2>1. CASE UNCHANGED <<img, writes, raced>>
    BY <1>2, <2>1 DEF TypeOK, Reaches
  <2>2. CASE /\ writes < MaxWrite /\ writes' = writes + 1
             /\ img' = [img EXCEPT ![k].data = writes + 1]
             /\ raced' = (raced \/ Racing)
    <3>1. writes + 1 \in Version
      BY <2>2, DrivesAssumption DEF TypeOK, Version
    <3>2. [img[k] EXCEPT !.data = writes + 1]
            = [file |-> img[k].file, data |-> writes + 1]
      BY <1>3 DEF Image
    <3>3. [file |-> img[k].file, data |-> writes + 1] \in Image
      BY <1>3, <3>1 DEF Image
    <3>4. /\ img' = [img EXCEPT ![k] =
                      [file |-> img[k].file, data |-> writes + 1]]
          /\ img \in [Kind -> Image \cup {NoImage}]
      BY <2>2, <3>2 DEF TypeOK
    <3>5. [file |-> img[k].file, data |-> writes + 1] # NoImage
      BY <3>3, DrivesAssumption
    <3> QED
      BY <2>2, <3>1, <3>3, <3>4, <3>5 DEF TypeOK
  <2> QED
    BY <1>2, <2>1, <2>2
<1>5. last' \in Disk \cup {NoFile}
  BY <1>2, <1>3 DEF Image
<1>6. TypeOK' /\ TrayKnown'
  BY <1>1, <1>4, <1>5 DEF TypeOK, TrayKnown, Sound, listVars
<1>7. Progress'
  BY <1>1 DEF Progress, Sound, listVars
<1>8. Clean'
  <2>1. CASE UNCHANGED <<img, writes, raced>>
    BY <1>1, <2>1, CleanStays DEF Sound
  <2>2. CASE ~drive.read_only /\ raced' = (raced \/ Racing)
    <3> SUFFICES ASSUME NEW j \in Kind, Named(j)'
                 PROVE  /\ KindOf(img'[j].file) = j
                        /\ j \notin overlaid =>
                             /\ drive.type = j
                             /\ call.stage = "drop" =>
                                  raced' \/ img'[j].data = file[img'[j].file]
                                         \/ img'[j].file \in HostReadOnly
      BY <1>1, <2>2 DEF Clean
    <3>1. Named(j) /\ img'[j].file = img[j].file
      BY <1>2, <1>4 DEF Named, Reaches
    <3>2. call.stage = "drop" => raced'
      BY <2>2 DEF Racing
    <3> QED
      BY <3>1, <3>2 DEF Sound, Clean
  <2> QED
    BY <1>2, <2>1, <2>2
<1>9. Waiting'
  BY <1>1, <1>2, <1>3, <1>4 DEF Waiting
<1> QED
  BY <1>6, <1>7, <1>8, <1>9 DEF Sound

\* A loaded state speaks of another disk, or leaves everything as it was.
LEMMA StepLoad == TypeOK /\ Sound /\ Load => TypeOK' /\ Sound'
<1> SUFFICES ASSUME TypeOK, Sound, Load PROVE TypeOK' /\ Sound'
  OBVIOUS
<1>1. /\ call.stage = "idle"
      /\ ~in_frame
      /\ running' = FALSE
      /\ drive' = saved.drive
      /\ last' = NoFile
      /\ waited' = 0
      /\ UNCHANGED <<listVars, img, file, writes, saved, call, in_frame,
                     force_ready, raced>>
  BY DEF Load, Between
<1>2. \/ /\ drive'.type = drive.type /\ drive'.read_only = drive.read_only
         /\ overlaid' = overlaid
      \/ overlaid' = {k \in Kind : img[k] # NoImage}
  BY <1>1 DEF Load
<1>3. TypeOK' /\ TrayKnown'
  <2>1. drive' \in Kept /\ overlaid' \subseteq Kind
    BY <1>1, <1>2 DEF TypeOK
  <2>2. last' \in Disk \cup {NoFile} /\ waited' \in 0..3 /\ running' \in BOOLEAN
    <3>1. last' = NoFile /\ waited' = 0 /\ running' = FALSE
      BY <1>1
    <3>2. running' \in BOOLEAN
      BY <3>1, Zenon
    <3> QED
      BY <3>1, <3>2
  <2>3. TypeOK'
    BY <1>1, <2>1, <2>2 DEF TypeOK, listVars
  <2>4. TrayKnown'
    BY <1>1 DEF TrayKnown, Sound, listVars
  <2> QED
    BY <2>3, <2>4
<1>4. Progress' /\ Waiting'
  BY <1>1 DEF Progress, Waiting, Sound
<1>5. Clean'
  <2>1. CASE overlaid' = {k \in Kind : img[k] # NoImage}
    BY <1>1, <2>1 DEF Clean, Sound, Named
  <2>2. CASE /\ drive'.type = drive.type /\ drive'.read_only = drive.read_only
             /\ overlaid' = overlaid
    BY <1>1, <2>2, CleanStays DEF Sound
  <2> QED
    BY <1>2, <2>1, <2>2
<1> QED
  BY <1>3, <1>4, <1>5 DEF Sound

LEMMA StepStutter == TypeOK /\ Sound /\ UNCHANGED vars => TypeOK' /\ Sound'
<1> SUFFICES ASSUME TypeOK, Sound, UNCHANGED vars PROVE TypeOK' /\ Sound'
  OBVIOUS
<1>1. UNCHANGED <<listVars, drive, img, file, writes, saved, call, running,
                  in_frame, guestVars, overlaid, raced>>
  BY DEF vars
<1>2. TypeOK' /\ TrayKnown' /\ Progress'
  BY <1>1 DEF TypeOK, TrayKnown, Progress, Sound, listVars, guestVars
<1>3. Clean' /\ Waiting'
  BY <1>1, CleanStays, WaitingStays DEF Sound, guestVars
<1> QED
  BY <1>2, <1>3 DEF Sound

LEMMA NextSound == TypeOK /\ Sound /\ [Next]_vars => TypeOK' /\ Sound'
<1> SUFFICES ASSUME TypeOK, Sound, [Next]_vars PROVE TypeOK' /\ Sound'
  OBVIOUS
<1>1. CASE Request
  BY <1>1, StepRequest
<1>2. CASE TrayStays \/ ListFull \/ Reply
  BY <1>2, StepStage
<1>3. CASE WriteBack
  BY <1>3, StepWriteBack
<1>4. CASE Drop
  BY <1>4, StepDrop
<1>5. CASE List
  BY <1>5, StepList
<1>6. CASE Insert
  BY <1>6, StepInsert
<1>7. CASE FrameBegin \/ ForceReady \/ Resume \/ Save
  BY <1>7, StepQuiet
<1>8. CASE FrameEnd
  BY <1>8, StepFrameEnd
<1>9. CASE GuestRead \/ GuestWrite
  BY <1>9, StepAccess
<1>10. CASE GuestEject
  BY <1>10, StepGuestEject
<1>11. CASE Load
  BY <1>11, StepLoad
<1>12. CASE UNCHANGED vars
  BY <1>12, StepStutter
<1> QED
  BY <1>1, <1>2, <1>3, <1>4, <1>5, <1>6, <1>7, <1>8, <1>9, <1>10, <1>11,
     <1>12 DEF Next

-----------------------------------------------------------------------------
(* What a step may do to an image, a reply and the guest's accesses.       *)

\* Only three steps let an image go.
LEMMA WhoLets ==
  ASSUME TypeOK, [Next]_vars, NEW k \in Kind, Leaves(k)
  PROVE  Insert \/ Drop \/ GuestEject
BY DEF Next, Leaves, Request, TrayStays, WriteBack, ListFull, List, Reply,
       FrameBegin, FrameEnd, GuestRead, GuestWrite, ForceReady, Resume, Save,
       Load, vars, TypeOK, Version

LEMMA LeavesSaved ==
  ASSUME TypeOK, Sound, [Next]_vars, NEW k \in Kind, Leaves(k),
         img[k].file \in Disk
  PROVE  \/ file'[img[k].file] = img[k].data
         \/ raced \/ k \in overlaid \/ img[k].file \in HostReadOnly
<1> SUFFICES ASSUME k \notin overlaid
             PROVE  \/ file'[img[k].file] = img[k].data
                    \/ raced \/ img[k].file \in HostReadOnly
  OBVIOUS
<1>1. Named(k)
  BY DEF Leaves, Named
<1>2. /\ drive.type = k
      /\ drive.read_only => img[k].data = file[img[k].file]
      /\ call.stage = "drop" =>
           raced \/ img[k].data = file[img[k].file]
                 \/ img[k].file \in HostReadOnly
  BY <1>1 DEF Sound, Clean
<1>3. CASE Insert
  <2>1. drive.type = "none"
    BY <1>3 DEF Insert, Sound, Progress
  <2> QED
    BY <1>2, <2>1 DEF Kind
<1>4. CASE Drop
  BY <1>2, <1>4 DEF Drop
<1>5. CASE GuestEject
  <2>1. file' = WrittenBack(img[k])
    BY <1>2, <1>5 DEF GuestEject, EjectFD, Kind
  <2>2. CASE drive.read_only
    BY <1>1, <1>2, <2>1, <2>2, WrittenBackTells
  <2>3. CASE ~drive.read_only
    BY <1>1, <1>2, <2>1, <2>3, WrittenBackTells
  <2> QED
    BY <2>2, <2>3
<1> QED
  BY <1>3, <1>4, <1>5, WhoLets

LEMMA AccessWaits ==
  ASSUME TypeOK, Sound, [Next]_vars, NoFile \notin {last, last'},
         last' # last
  PROVE  waited = 3 \/ force_ready
<1>1. GuestRead \/ GuestWrite
  BY DEF Next, Request, TrayStays, WriteBack, Drop, ListFull, List, Insert,
         Reply, FrameBegin, FrameEnd, GuestEject, ForceReady, Resume, Save,
         Load, vars, guestVars
<1>2. PICK k \in Kind : Reaches(k) /\ last' = img[k].file
  BY <1>1 DEF GuestRead, GuestWrite
<1>3. /\ drive.type = k /\ img[k] # NoImage /\ img[k].file \in Disk
      /\ drive.delay = 0 \/ force_ready
  BY <1>2 DEF Reaches, Ready, TypeOK, Image
<1>4. waited + drive.delay >= 3
  BY <1>2, <1>3 DEF Sound, Waiting
<1> QED
  BY <1>3, <1>4 DEF TypeOK

LEMMA StepTells ==
  ASSUME TypeOK, Sound, RepliesTell, [Next]_vars
  PROVE  RepliesTell'
<1> SUFFICES ASSUME call'.stage = "done", ~running'
             PROVE  /\ ~call'.ok => total_images' >= MaxDisks
                    /\ IF call'.ok /\ call'.path \in Disk
                       THEN Holds(call.path)'
                       ELSE drive'.type = "none"
  BY DEF RepliesTell
<1>1. NoFile \notin Disk
  BY DrivesAssumption DEF Path
<1>2. call.stage # "idle" => ~running /\ ~in_frame
  BY DEF Next, Request, TrayStays, WriteBack, Drop, ListFull, List, Insert,
         Reply, FrameBegin, FrameEnd, GuestRead, GuestWrite, GuestEject,
         ForceReady, Resume, Save, Load, Between, vars, Sound, Progress
<1>3. CASE TrayStays
  <2>1. /\ call.op = "eject" /\ call'.path = call.path /\ call'.ok
        /\ drive'.type = drive.type /\ drive.type = "none"
    BY <1>3 DEF TrayStays, Keep, AfterEject, NoneInTray, TypeOK, Call, Sound,
                TrayKnown, Progress
  <2> QED
    BY <1>1, <2>1 DEF Sound, Progress
<1>4. CASE Drop
  <2>1. call.op = "eject" /\ call'.path = call.path /\ call'.ok
    BY <1>4 DEF Drop, Keep, AfterEject, TypeOK, Call, Sound, Progress
  <2>2. drive'.type = "none"
    BY <1>4 DEF Drop, Empty
  <2> QED
    BY <1>1, <2>1, <2>2 DEF Sound, Progress
<1>5. CASE ListFull
  <2>1. ~call'.ok /\ total_images' >= MaxDisks
    BY <1>5 DEF ListFull, TypeOK, Call, listVars
  <2>2. drive'.type = "none"
    BY <1>5 DEF ListFull, Sound, Progress
  <2> QED
    BY <2>1, <2>2
<1>6. CASE Insert
  <2>1. /\ call'.path = call.path /\ call'.ok = call.ok /\ call.ok
        /\ selected = call.path /\ drive.type = "none" /\ selected \in Path
        /\ SetFD(selected)
    BY <1>6 DEF Insert, Keep, TypeOK, Call, Sound, Progress
  <2>2. CASE call.path \in Disk
    <3>1. /\ drive'.type = KindOf(call.path)
          /\ img'[KindOf(call.path)]
               = [file |-> call.path, data |-> file[call.path]]
      BY <2>1, <2>2, SetFDTells
    <3>2. [file |-> call.path, data |-> file[call.path]] \in Image
      BY <2>2 DEF TypeOK, Image
    <3>3. [file |-> call.path, data |-> file[call.path]] # NoImage
      BY <3>2, DrivesAssumption
    <3>4. Holds(call.path)'
      BY <2>1, <3>1, <3>3 DEF Holds, KindOf
    <3> QED
      BY <2>1, <2>2, <3>4
  <2>3. CASE call.path \notin Disk
    <3>1. drive'.type = "none"
      BY <2>1, <2>3, SetFDTells DEF Path
    <3> QED
      BY <2>1, <2>3, <3>1
  <2> QED
    BY <2>2, <2>3
<1>7. CASE UNCHANGED vars
  <2>1. /\ UNCHANGED <<call, drive, img, running>>
        /\ total_images' = total_images
    BY <1>7 DEF vars, listVars
  <2> QED
    BY <2>1 DEF RepliesTell, Holds, KindOf
<1>8. CASE Request \/ WriteBack \/ List \/ Reply
  BY <1>8 DEF Request, WriteBack, List, Reply, Keep, Idle, TypeOK, Call
<1>9. CASE \/ FrameBegin \/ FrameEnd \/ GuestRead \/ GuestWrite
           \/ GuestEject \/ ForceReady \/ Resume \/ Save \/ Load
  <2>1. call.stage = "done"
    BY <1>9 DEF FrameBegin, FrameEnd, GuestRead, GuestWrite, GuestEject,
                ForceReady, Resume, Save, Load
  <2>2. ~running /\ ~in_frame
    BY <1>2, <2>1
  <2> QED
    BY <1>9, <2>1, <2>2 DEF FrameBegin, FrameEnd, GuestRead, GuestWrite,
                GuestEject, ForceReady, Resume, Save, Load, Between
<1> QED
  BY <1>3, <1>4, <1>5, <1>6, <1>7, <1>8, <1>9 DEF Next

-----------------------------------------------------------------------------
(* The theorems.                                                           *)

\* Every state is well typed and sound: the invariant is inductive.
THEOREM DrivesInvariant == Spec => [](TypeOK /\ Sound)
BY InitSound, NextSound, PTL DEF Spec

\* The type invariant alone.
THEOREM DrivesTypes == Spec => []TypeOK
BY DrivesInvariant, PTL

\* While no worker runs, a reply tells what is in the drive, for a list of any
\* length.
THEOREM RepliesTellDrive == Spec => []RepliesTell
<1>1. Init => RepliesTell
  BY DEF Init, Idle, RepliesTell
<1>2. TypeOK /\ Sound /\ RepliesTell /\ [Next]_vars => RepliesTell'
  BY StepTells
<1> QED
  BY <1>1, <1>2, DrivesInvariant, PTL DEF Spec

\* No image leaves memory unsaved, but for the named exceptions.
THEOREM WritesAreSaved == Spec => WritesSaved
<1>1. TypeOK /\ Sound /\ [Next]_vars =>
        (\A k \in Kind : Leaves(k) /\ img[k].file \in Disk =>
           \/ file'[img[k].file] = img[k].data
           \/ raced \/ k \in overlaid \/ img[k].file \in HostReadOnly)
  BY LeavesSaved
<1> QED
  BY <1>1, DrivesInvariant, PTL DEF Spec, WritesSaved

\* A change of disks is always visible to a guest that respects the ready line.
THEOREM SwapsAreSeen == Spec => SwapIsSeen
<1>1. TypeOK /\ Sound /\ [Next]_vars =>
        (NoFile \notin {last, last'} /\ last' # last =>
           waited = 3 \/ force_ready)
  BY AccessWaits
<1> QED
  BY <1>1, DrivesInvariant, PTL DEF Spec, SwapIsSeen
=============================================================================
