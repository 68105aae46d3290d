------------------------------- MODULE Drives -------------------------------
(***************************************************************************)
(* Floppy drive B: arcl_mount (src/windows/arcl_l1.c, frontend_core.c), the *)
(* disk-control interface of libretro.c, the drive unit (x68k/fdd.c) and   *)
(* the image formats (x68k/disk_xdf.c, disk_d88.c, disk_dim.c).            *)
(*                                                                         *)
(* An image is read into memory when it is inserted and written back when  *)
(* it leaves the drive.  arcl_mount takes no lock: a worker may run frames *)
(* between its steps.  A saved state holds what the drive knows of its     *)
(* disk, not the image.                                                    *)
(***************************************************************************)
EXTENDS Integers

CONSTANTS
  Disk,          \* image files
  Missing,       \* paths that cannot be opened
  Sectors,       \* the disks in D88 format; XDF and DIM keep one buffer
  Protected,     \* D88 disks whose header says read-only
  HostReadOnly,  \* files the host lets us read only: file_open opens those too
  NoFile,        \* an empty file name, and no path selected
  NoImage,       \* nothing in memory
  MaxDisks,      \* MAX_DISKS
  MaxWrite       \* bound: writes of the guest

Path    == Disk \cup Missing
Kind    == {"buffer", "sectors"}
Version == 0..MaxWrite
Image   == [file : Disk \cup {NoFile}, data : Version]
Kept    == [type : Kind \cup {"none"}, read_only : BOOLEAN, delay : 0..3]
Call    == [op : {"insert", "eject"}, path : Path \cup {NoFile},
            stage : {"idle", "tray", "drop", "list", "insert", "done"},
            ok : BOOLEAN]

ASSUME DrivesAssumption ==
  /\ Sectors \subseteq Path
  /\ Protected \subseteq Disk \cap Sectors
  /\ HostReadOnly \subseteq Disk
  /\ Disk \cap Missing = {}
  /\ NoFile \notin Path
  /\ NoImage \notin Image
  /\ MaxDisks \in Nat
  /\ MaxWrite \in Nat

VARIABLES
  total_images,  \* disk.total_images, only ever counted up
  index,         \* disk.index
  selected,      \* disk.path[disk.index]
  drive,         \* fdd.Types, ROnly and SetDelay of the drive
  img,           \* the image each format has in memory, by kind
  file,          \* the files: the last write that is in them
  writes,        \* writes of the guest so far
  saved,         \* the drive's part of a saved state, and its file then
  call,          \* the request of the MCP thread
  running,       \* a session: a worker runs frames
  in_frame,      \* somebody is inside a frame
  force_ready,   \* fdc.ready
  last,          \* the file the guest accessed last
  waited,        \* ends of frames with the drive not ready since, up to 3
  overlaid,      \* the images in memory a loaded state did not speak of
  raced          \* the guest touched the disk while it was being ejected

listVars  == <<total_images, index, selected>>
guestVars == <<force_ready, last, waited>>
vars == <<listVars, drive, img, file, writes, saved, call, running, in_frame,
          guestVars, overlaid, raced>>

KindOf(p)   == IF p \in Sectors THEN "sectors" ELSE "buffer"
Empty       == [type |-> "none", read_only |-> FALSE, delay |-> 0]
Idle        == [op |-> "eject", path |-> NoFile, stage |-> "idle",
                ok |-> TRUE]
Fresh(d)    == [file |-> d, data |-> file[d]]
Ready       == drive.type # "none" /\ drive.delay = 0

\* The file of the image the drive would use.
Inside(k, i) == IF k = "none" \/ i[k] = NoImage THEN NoFile ELSE i[k].file

\* One disk on the command line goes to the other drive; a playlist selects
\* its first entry and puts the second into this drive.
Init ==
  /\ \/ /\ total_images = 0
        /\ selected = NoFile
        /\ drive = Empty
        /\ img = [k \in Kind |-> NoImage]
     \/ \E d, e \in Disk :
          /\ total_images = 2
          /\ selected = d
          /\ drive = [type |-> KindOf(e), read_only |-> e \in Protected,
                      delay |-> 3]
          /\ img = [k \in Kind |-> IF k = KindOf(e)
                                   THEN [file |-> e, data |-> 0] ELSE NoImage]
  /\ index = 0
  /\ file = [d \in Disk |-> 0]
  /\ writes = 0
  /\ saved = [drive |-> drive, inside |-> Inside(drive.type, img)]
  /\ call = Idle
  /\ running = FALSE
  /\ in_frame = FALSE
  /\ force_ready = FALSE
  /\ last = NoFile
  /\ waited = 0
  /\ overlaid = {}
  /\ raced = FALSE

-----------------------------------------------------------------------------
(* The image formats.                                                      *)

\* Mutant: a read-only drive is written back, another is not.
WrittenBackSwapped(i) ==
  IF i = NoImage THEN file
  ELSE IF drive.read_only /\ i.file \in Disk \ HostReadOnly
       THEN [file EXCEPT ![i.file] = i.data] ELSE file

\* XDF_Eject, D88_Eject, DIM_Eject: the image goes back to its file unless the
\* drive is read-only or the file cannot be opened or written.
WrittenBack(i) ==
  IF i = NoImage THEN file
  ELSE IF ~drive.read_only /\ i.file \in Disk \ HostReadOnly
       THEN [file EXCEPT ![i.file] = i.data] ELSE file

\* FDD_EjectFD in one step: the format the drive's type names writes back and
\* frees its image; a drive of no type has nothing to write.
EjectFD ==
  /\ file' = IF drive.type = "none" THEN file ELSE WrittenBack(img[drive.type])
  /\ img' = [k \in Kind |-> IF k = drive.type THEN NoImage ELSE img[k]]
  /\ drive' = [Empty EXCEPT !.delay = drive.delay]
  /\ overlaid' = overlaid \ {drive.type}

\* Mutant: the guest is not given time to see the change.
SetFDAtOnce(p) ==
  LET k == KindOf(p) IN
    IF p \in Missing
    THEN /\ img' = img
         /\ drive' = [drive EXCEPT !.read_only = TRUE]
    ELSE /\ img' = [img EXCEPT ![k] = Fresh(p)]
         /\ drive' = [type |-> k, read_only |-> p \in Protected, delay |-> 1]

\* FDD_SetFD after its own eject: a file that does not open leaves the drive
\* empty and read-only, and a nameless buffer behind.
SetFD(p) ==
  LET k == KindOf(p) IN
    IF p \in Missing
    THEN /\ img' = IF k = "buffer"
                   THEN [img EXCEPT ![k] = [file |-> NoFile, data |-> 0]]
                   ELSE img
         /\ drive' = [drive EXCEPT !.read_only = TRUE]
    ELSE /\ img' = [img EXCEPT ![k] = Fresh(p)]
         /\ drive' = [type |-> k, read_only |-> p \in Protected, delay |-> 3]

-----------------------------------------------------------------------------
(* arcl_mount, between frames or while a worker runs them.                 *)

Keep(stage) == call' = [call EXCEPT !.stage = stage]

Request ==
  /\ call.stage = "idle"
  /\ running \/ ~in_frame
  /\ \/ \E p \in Path :
          call' = [op |-> "insert", path |-> p, stage |-> "tray", ok |-> TRUE]
     \/ call' = [op |-> "eject", path |-> NoFile, stage |-> "tray", ok |-> TRUE]
  /\ raced' = FALSE
  /\ UNCHANGED <<listVars, drive, img, file, writes, saved, running, in_frame,
                 guestVars, overlaid>>

AfterEject == IF call.op = "insert" THEN "list" ELSE "done"

\* "No disk in tray": set_eject_state does nothing while no image is listed.
NoneInTray == index = total_images

TrayStays ==
  /\ call.stage = "tray"
  /\ NoneInTray
  /\ Keep(AfterEject)
  /\ UNCHANGED <<listVars, drive, img, file, writes, saved, running, in_frame,
                 guestVars, overlaid, raced>>

\* The eject of a drive with an image: it is written back first, ...
WriteBack ==
  /\ call.stage = "tray"
  /\ ~NoneInTray
  /\ file' = IF drive.type = "none" THEN file ELSE WrittenBack(img[drive.type])
  /\ Keep("drop")
  /\ UNCHANGED <<listVars, drive, img, writes, saved, running, in_frame,
                 guestVars, overlaid, raced>>

\* ... then freed, and the drive is empty.
Drop ==
  /\ call.stage = "drop"
  /\ img' = [k \in Kind |-> IF k = drive.type THEN NoImage ELSE img[k]]
  /\ drive' = [Empty EXCEPT !.delay = drive.delay]
  /\ overlaid' = overlaid \ {drive.type}
  /\ Keep(AfterEject)
  /\ UNCHANGED <<listVars, file, writes, saved, running, in_frame, guestVars,
                 raced>>

\* The list has no room: an error, and the tray stays open.
ListFull ==
  /\ call.stage = "list"
  /\ total_images >= MaxDisks
  /\ call' = [call EXCEPT !.stage = "done", !.ok = FALSE]
  /\ UNCHANGED <<listVars, drive, img, file, writes, saved, running, in_frame,
                 guestVars, overlaid, raced>>

\* Mutant: the old index stays selected.
ListKeepsIndex ==
  /\ call.stage = "list"
  /\ total_images < MaxDisks
  /\ total_images' = total_images + 1
  /\ index' = index
  /\ selected' = IF total_images = 0 THEN call.path ELSE selected
  /\ Keep("insert")
  /\ UNCHANGED <<drive, img, file, writes, saved, running, in_frame, guestVars,
                 overlaid, raced>>

\* add_image_index, replace_image_index, set_image_index.
List ==
  /\ call.stage = "list"
  /\ total_images < MaxDisks
  /\ total_images' = total_images + 1
  /\ index' = total_images
  /\ selected' = call.path
  /\ Keep("insert")
  /\ UNCHANGED <<drive, img, file, writes, saved, running, in_frame, guestVars,
                 overlaid, raced>>

\* The tray closes with the selected image, openable or not.
Insert ==
  /\ call.stage = "insert"
  /\ SetFD(selected)
  /\ Keep("done")
  /\ overlaid' = overlaid \ {k \in Kind : img'[k] # img[k]}
  /\ UNCHANGED <<listVars, file, writes, saved, running, in_frame, guestVars,
                 raced>>

Reply ==
  /\ call.stage = "done"
  /\ call' = Idle
  /\ UNCHANGED <<listVars, drive, img, file, writes, saved, running, in_frame,
                 guestVars, overlaid, raced>>

-----------------------------------------------------------------------------
(* Frames and what the guest does in them.                                 *)

FrameBegin ==
  /\ ~in_frame
  /\ running \/ call.stage = "idle"
  /\ in_frame' = TRUE
  /\ UNCHANGED <<listVars, drive, img, file, writes, saved, call, running,
                 guestVars, overlaid, raced>>

\* FDD_SetFDInt: a change counts down until the drive is ready.
FrameEnd ==
  /\ in_frame
  /\ in_frame' = FALSE
  /\ drive' = [drive EXCEPT !.delay = IF @ = 0 THEN 0 ELSE @ - 1]
  /\ waited' = IF Ready \/ waited = 3 THEN waited ELSE waited + 1
  /\ UNCHANGED <<listVars, img, file, writes, saved, call, running,
                 force_ready, last, overlaid, raced>>

\* A command of the floppy controller reaches an image when the drive is ready
\* or the ready line is forced.
Reaches(k) == drive.type = k /\ img[k] # NoImage /\ (Ready \/ force_ready)

Racing == call.stage = "drop"

GuestRead ==
  /\ in_frame
  /\ \E k \in Kind : Reaches(k) /\ last' = img[k].file
  /\ waited' = 0
  /\ UNCHANGED <<listVars, drive, img, file, writes, saved, call, running,
                 in_frame, force_ready, overlaid, raced>>

GuestWrite ==
  /\ in_frame
  /\ writes < MaxWrite
  /\ ~drive.read_only
  /\ writes' = writes + 1
  /\ \E k \in Kind :
       /\ Reaches(k)
       /\ img' = [img EXCEPT ![k].data = writes + 1]
       /\ last' = img[k].file
  /\ waited' = 0
  /\ raced' = (raced \/ Racing)
  /\ UNCHANGED <<listVars, drive, file, saved, call, running, in_frame,
                 force_ready, overlaid>>

\* The drive-control register: the guest ejects by itself; the list and its
\* tray flag do not hear of it.  (Both ejecting at once would free the image
\* twice, which has no defined outcome and is left out.)
GuestEject ==
  /\ in_frame
  /\ ~Racing
  /\ EjectFD
  /\ UNCHANGED <<listVars, writes, saved, call, running, in_frame, guestVars,
                 raced>>

ForceReady ==
  /\ in_frame
  /\ force_ready' = ~force_ready
  /\ UNCHANGED <<listVars, drive, img, file, writes, saved, call, running,
                 in_frame, last, waited, overlaid, raced>>

-----------------------------------------------------------------------------
(* Requests of the other layers: they run between requests and frames.     *)

Between == call.stage = "idle" /\ ~in_frame

Resume ==
  /\ Between
  /\ running' = TRUE
  /\ UNCHANGED <<listVars, drive, img, file, writes, saved, call, in_frame,
                 guestVars, overlaid, raced>>

Save ==
  /\ Between
  /\ running' = FALSE
  /\ saved' = [drive |-> drive, inside |-> Inside(drive.type, img)]
  /\ UNCHANGED <<listVars, drive, img, file, writes, call, in_frame, guestVars,
                 overlaid, raced>>

\* FDD_StateAction: what the drive knows is set back, the images stay.
Load ==
  /\ Between
  /\ running' = FALSE
  /\ drive' = saved.drive
  /\ overlaid' = IF saved.drive.type = drive.type
                    /\ saved.drive.read_only = drive.read_only
                    /\ saved.inside = Inside(drive.type, img)
                 THEN overlaid ELSE {k \in Kind : img[k] # NoImage}
  /\ last' = NoFile
  /\ waited' = 0
  /\ UNCHANGED <<listVars, img, file, writes, saved, call, in_frame,
                 force_ready, raced>>

-----------------------------------------------------------------------------
Next ==
  \/ Request \/ TrayStays \/ WriteBack \/ Drop \/ ListFull \/ List \/ Insert
  \/ Reply
  \/ FrameBegin \/ FrameEnd \/ GuestRead \/ GuestWrite \/ GuestEject
  \/ ForceReady
  \/ Resume \/ Save \/ Load

Spec == Init /\ [][Next]_vars

-----------------------------------------------------------------------------
(* Correctness                                                             *)

TypeOK ==
  /\ total_images \in Nat
  /\ index \in Nat
  /\ selected \in Path \cup {NoFile}
  /\ drive \in Kept
  /\ img \in [Kind -> Image \cup {NoImage}]
  /\ file \in [Disk -> Version]
  /\ writes \in Version
  /\ saved \in [drive : Kept, inside : Disk \cup {NoFile}]
  /\ call \in Call
  /\ running \in BOOLEAN /\ in_frame \in BOOLEAN
  /\ force_ready \in BOOLEAN /\ raced \in BOOLEAN
  /\ overlaid \subseteq Kind
  /\ last \in Disk \cup {NoFile}
  /\ waited \in 0..3

\* What the guest wrote to a disk is in its file when the image leaves memory,
\* however it leaves.  Exceptions: the worker wrote between the write-back and
\* the release of an eject; a loaded state spoke of another disk; the host
\* lets the file be read only, which nothing tells the guest.
Leaves(k) == img[k] # NoImage /\ img'[k] # img[k] /\ writes' = writes
WritesSaved ==
  [][\A k \in Kind : Leaves(k) /\ img[k].file \in Disk =>
       \/ file'[img[k].file] = img[k].data
       \/ raced \/ k \in overlaid \/ img[k].file \in HostReadOnly]_vars

\* A reply tells the drive, while no worker runs: after an eject it is empty,
\* after an insert it holds that disk if the file could be opened and is empty
\* if not, also when an error was reported; and only a full list is an error.
Holds(d) ==
  /\ drive.type = KindOf(d)
  /\ img[KindOf(d)] # NoImage
  /\ img[KindOf(d)].file = d
RepliesTell ==
  call.stage = "done" /\ ~running =>
    /\ ~call.ok => total_images >= MaxDisks
    /\ IF call.ok /\ call.path \in Disk
       THEN Holds(call.path)
       ELSE drive.type = "none"

\* The guest never comes from one disk to another without a time in which the
\* drive was not ready, to the end of a third frame, unless it forces the ready
\* line.  A loaded guest remembers no access.
SwapIsSeen ==
  [][NoFile \notin {last, last'} /\ last' # last =>
       waited = 3 \/ force_ready]_vars
=============================================================================
