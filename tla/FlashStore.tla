----------------------------- MODULE FlashStore -----------------------------
(***************************************************************************)
(* The flash image of src/fat16/vfs.c: two slots, each a header and an     *)
(* image of the whole file system, and the copy of it in memory.  mount    *)
(* chooses a slot, flush writes the other one and reads it back.           *)
(*                                                                         *)
(* An image is an opaque value, its CRC is the image itself (two images    *)
(* with one CRC are taken not to occur) and a slot cut off in the middle   *)
(* of a write has the new header and a body that no CRC matches: the       *)
(* header is the first sector written and is written whole.  A crash is    *)
(* that of the process: what fwrite handed over stays.  Nothing in the     *)
(* code asks for more (there is no fsync), so a loss of power is outside   *)
(* of what it can promise.                                                 *)
(***************************************************************************)
EXTENDS Naturals

CONSTANTS
  Images,       \* the contents that the file system may have
  BlankImage,   \* the file system of vfs_init: no entry, no cluster in use
  MaxSequence   \* bound on vfs.sequence (64 bits in the code)

VARIABLES
  slots,     \* the flash: its two slots
  image,     \* vfs.fat, vfs.root and vfs.data
  dirty, active, sequence,
  mounted,   \* vfs.flash # NULL
  phase,     \* idle, writing (inside flush's fwrite), blocked, down
  acked,     \* history: the image of the last flush that wrote one and
             \* returned success
  offered    \* history: the images of the flushes begun since

fvars == <<slots, image, dirty, active, sequence, mounted, phase, acked, offered>>

Torn == "torn"                     \* a body, or a CRC, that matches nothing
ASSUME FlashAssumption ==
  /\ BlankImage \in Images /\ Torn \notin Images
  /\ MaxSequence \in Nat /\ MaxSequence > 0
Slot == [magic: BOOLEAN, sequence: 0..MaxSequence,
         crc: Images \union {Torn}, body: Images \union {Torn}]

FTypeOK ==
  /\ slots \in [{0, 1} -> Slot]
  /\ image \in Images
  /\ dirty \in BOOLEAN /\ mounted \in BOOLEAN
  /\ active \in {0, 1}
  /\ sequence \in 0..MaxSequence
  /\ phase \in {"idle", "writing", "blocked", "down"}
  /\ acked \in Images
  /\ offered \subseteq Images

-----------------------------------------------------------------------------
(* Choosing a slot. *)

CrcMatches(i) == slots[i].body # Torn /\ slots[i].crc = slots[i].body

SelectedMutant ==                  \* the older of two images
  IF slots[0].magic /\ (~slots[1].magic \/ slots[0].sequence < slots[1].sequence)
  THEN 0 ELSE 1
Selected ==
  CASE slots[0].magic /\ slots[1].magic ->
         IF slots[0].sequence > slots[1].sequence THEN 0 ELSE 1
    [] slots[0].magic /\ ~slots[1].magic -> 0
    [] OTHER -> 1

NoMagic == ~slots[0].magic /\ ~slots[1].magic

(* The slot whose image is loaded; meant for flashes that have one. *)
Loaded == IF CrcMatches(Selected) THEN Selected ELSE 1 - Selected
Mountable == ~NoMagic /\ CrcMatches(Loaded)

-----------------------------------------------------------------------------
vfs_init ==
  /\ phase = "idle"
  /\ image' = BlankImage
  /\ dirty' = FALSE /\ active' = 0 /\ sequence' = 0
  /\ mounted' = FALSE
  /\ UNCHANGED <<slots, phase, acked, offered>>

vfs_mount ==
  /\ phase = "idle"
  /\ mounted' = TRUE
  /\ Mountable
  /\ image' = slots[Loaded].body
  /\ active' = Loaded
  /\ sequence' = slots[Loaded].sequence
  /\ dirty' = FALSE
  /\ UNCHANGED <<slots, phase, acked, offered>>

(* With nothing to load vfs_mount calls vfs_init, which locks the mutex     *)
(* that vfs_mount holds: the calling thread and all later ones wait.        *)
vfs_mount_fresh ==
  /\ phase = "idle"
  /\ ~Mountable
  /\ mounted' = TRUE
  /\ phase' = "blocked"
  /\ UNCHANGED <<slots, image, dirty, active, sequence, acked, offered>>

(* Any operation that changes a file or a directory (Fat16) and succeeds. *)
Change(i) ==
  /\ phase = "idle"
  /\ image' = i
  /\ dirty' = TRUE
  /\ UNCHANGED <<slots, active, sequence, mounted, phase, acked, offered>>

(* A vfs_write that fails with ENOSPC or EIO has linked clusters before and *)
(* does not say so: what it has changed is written only by a flush after a  *)
(* later change, and lost where a mount comes before that.                  *)
FailedWrite(i) ==
  /\ phase = "idle"
  /\ image' = i
  /\ UNCHANGED <<slots, dirty, active, sequence, mounted, phase, acked, offered>>

-----------------------------------------------------------------------------
(* vfs_flush, from its fwrite on; it returns 0 at once when nothing is      *)
(* dirty or nothing is mounted: that success acknowledges no image.         *)
vfs_flush ==
  /\ phase = "idle"
  /\ dirty /\ mounted
  /\ sequence < MaxSequence
  /\ sequence' = sequence + 1
  /\ phase' = "writing"
  /\ offered' = offered \union {image}
  /\ UNCHANGED <<slots, image, dirty, active, mounted, acked>>

InactiveMutant == active           \* the image in use is overwritten
Inactive == 1 - active
Whole == [magic |-> TRUE, sequence |-> sequence, crc |-> image, body |-> image]
Cut == [Whole EXCEPT !.body = Torn]

(* Everything is written and reads back with the right CRC. *)
FlushVerified ==
  /\ phase = "writing"
  /\ slots' = [slots EXCEPT ![Inactive] = Whole]
  /\ active' = Inactive
  /\ dirty' = FALSE
  /\ phase' = "idle"
  /\ acked' = image
  /\ offered' = {}
  /\ UNCHANGED <<image, sequence, mounted>>

(* fwrite is short, or what is read back has another CRC: -1 with EIO.  The *)
(* slot was not reached, was cut, or is right and was misread.              *)
FlushFails ==
  /\ phase = "writing"
  /\ \E left \in {slots[Inactive], Cut, Whole}:
        slots' = [slots EXCEPT ![Inactive] = left]
  /\ phase' = "idle"
  /\ UNCHANGED <<image, dirty, active, sequence, mounted, acked, offered>>

Crash ==
  /\ phase # "down"
  /\ \E left \in IF phase = "writing" THEN {slots[Inactive], Cut, Whole}
                                      ELSE {slots[Inactive]}:
        slots' = [slots EXCEPT ![Inactive] = left]
  /\ phase' = "down"
  /\ UNCHANGED <<image, dirty, active, sequence, mounted, acked, offered>>

(* A new process: the static structure is zero. *)
Restart ==
  /\ phase = "down"
  /\ phase' = "idle"
  /\ image' = BlankImage
  /\ dirty' = FALSE /\ active' = 0 /\ sequence' = 0
  /\ mounted' = FALSE
  /\ UNCHANGED <<slots, acked, offered>>

-----------------------------------------------------------------------------
ZeroSlot == [magic |-> FALSE, sequence |-> 0, crc |-> Torn, body |-> Torn]

(* The flash is blank, or another tool has formatted it: the code cannot do *)
(* it, since a mount of one that holds no image blocks (vfs_mount_fresh).   *)
FInit ==
  /\ acked \in Images
  /\ \E first \in {ZeroSlot, [magic |-> TRUE, sequence |-> 1,
                             crc |-> acked, body |-> acked]}:
        slots = [i \in {0, 1} |-> IF i = 0 THEN first ELSE ZeroSlot]
  /\ offered = {}
  /\ image = BlankImage
  /\ dirty = FALSE /\ active = 0 /\ sequence = 0 /\ mounted = FALSE
  /\ phase = "idle"

FNext ==
  \/ vfs_init \/ vfs_mount \/ vfs_mount_fresh
  \/ \E i \in Images: Change(i) \/ FailedWrite(i)
  \/ vfs_flush \/ FlushVerified \/ FlushFails
  \/ Crash \/ Restart

FSpec == FInit /\ [][FNext]_fvars

-----------------------------------------------------------------------------
(* What a mount finds is the image of the last flush that wrote one and     *)
(* returned success, or of one that failed or was interrupted after it      *)
(* (vfs_mount's choice of a slot against vfs_flush's order of writing,      *)
(* whatever was cut between).                                               *)
Durable == INSTANCE DurableImage WITH
  kept <- acked, pending <- offered,
  found <- IF Mountable THEN slots[Loaded].body ELSE acked
MountFindsLastFlush == Durable!DSpec

(* A flash that holds an image never gets into the state in which vfs_mount *)
(* finds none and waits for itself: one of the slots survives every failed  *)
(* and every interrupted flush.                                             *)
StaysMountable ==
  /\ Mountable \/ NoMagic
  /\ phase = "blocked" => NoMagic
=============================================================================
