------------------------- MODULE FlashStore_proofs -------------------------
(***************************************************************************)
(* FlashStore, proved for every set of images and every bound on the       *)
(* sequence number: its types, that a flash that has held an image can     *)
(* always be mounted, and that it implements DurableImage.                 *)
(***************************************************************************)
EXTENDS FlashStore, TLAPS

(* The images a mount may find: the one that is acknowledged and those      *)
(* offered since.                                                           *)
Recent == {acked} \union offered

(* Slot s holds such an image, and the other one, t, either has one as well *)
(* or is not preferred to it: it is torn, blank or older.  (The sequence    *)
(* numbers matter only where t is intact; a torn slot may have any.)        *)
Intact(s) == s.body # Torn /\ s.crc = s.body
Prevails(s, t, images) ==
  /\ s.magic /\ Intact(s) /\ s.body \in images
  /\ Intact(t) => \/ t.sequence < s.sequence
                  \/ t.sequence > s.sequence /\ t.body \in images
Survives(a) == Prevails(slots[a], slots[1 - a], Recent)

Running == mounted /\ phase \in {"idle", "writing"}

(* While a process has the flash mounted the slot that survives is the one  *)
(* in use, which vfs_flush never writes; its number is the one counted on   *)
(* from.  Otherwise it is one of the two.                                   *)
FInv ==
  /\ phase = "writing" => mounted /\ image \in offered
  /\ \A i \in {0, 1}: Intact(slots[i]) => slots[i].magic
  /\ phase = "blocked" => NoMagic
  /\ NoMagic => ~Running
  /\ ~NoMagic /\ ~Running => \E a \in {0, 1}: Survives(a)
  /\ Running => /\ Survives(active)
                /\ slots[active].sequence <= sequence
                /\ phase = "writing" => slots[active].sequence < sequence

-----------------------------------------------------------------------------
(* The types hold, for every instance.                                      *)
LEMMA FTypeInit == FInit => FTypeOK
<1> SUFFICES ASSUME FInit PROVE FTypeOK
  OBVIOUS
<1> USE FlashAssumption
<1>1. PICK first \in {ZeroSlot, [magic |-> TRUE, sequence |-> 1,
                                 crc |-> acked, body |-> acked]}:
        slots = [i \in {0, 1} |-> IF i = 0 THEN first ELSE ZeroSlot]
  BY DEF FInit
<1>2. acked \in Images /\ 0 \in 0..MaxSequence /\ 1 \in 0..MaxSequence
  BY DEF FInit
<1>3. ZeroSlot \in Slot
  BY <1>2, Zenon DEF ZeroSlot, Slot
<1>4. [magic |-> TRUE, sequence |-> 1, crc |-> acked, body |-> acked] \in Slot
  BY <1>2, Zenon DEF Slot
<1>5. slots \in [{0, 1} -> Slot]
  BY <1>1, <1>3, <1>4
<1> QED
  BY <1>2, <1>5, Zenon DEF FInit, FTypeOK

(* vfs_mount chooses one of the two slots.                                  *)
LEMMA LoadedIsASlot == Selected \in {0, 1} /\ Loaded \in {0, 1}
<1>1. Selected \in {0, 1}
  BY DEF Selected
<1> QED
  BY <1>1 DEF Loaded

(* Every step of the code keeps the types: what vfs_flush writes is a slot. *)
LEMMA FTypeStep == FTypeOK /\ [FNext]_fvars => FTypeOK'
<1> SUFFICES ASSUME FTypeOK, [FNext]_fvars PROVE FTypeOK'
  OBVIOUS
<1> USE FlashAssumption DEF FTypeOK
<1>1. \A i \in {0, 1}: slots[i] \in Slot /\ 1 - i \in {0, 1}
  OBVIOUS
<1>2. Loaded \in {0, 1}
  BY LoadedIsASlot
<1> 0 \in 0..MaxSequence
  OBVIOUS
<1>3. CASE vfs_init
  BY <1>3, Zenon DEF vfs_init
<1>4. CASE vfs_mount
  <2>1. slots[Loaded].body \in Images
    BY <1>1, <1>2, <1>4 DEF vfs_mount, Mountable, CrcMatches, Slot
  <2>2. slots[Loaded].sequence \in 0..MaxSequence
    BY <1>1, <1>2 DEF Slot
  <2> QED
    BY <1>2, <1>4, <2>1, <2>2 DEF vfs_mount
<1>5. CASE vfs_mount_fresh
  BY <1>5 DEF vfs_mount_fresh
<1>6. ASSUME NEW i \in Images, Change(i) PROVE FTypeOK'
  BY <1>6 DEF Change
<1>16. ASSUME NEW i \in Images, FailedWrite(i) PROVE FTypeOK'
  BY <1>16 DEF FailedWrite
<1>7. CASE vfs_flush
  BY <1>7 DEF vfs_flush
<1>8. Whole \in Slot /\ Cut \in Slot
  BY DEF Whole, Cut, Slot
<1>9. Inactive \in {0, 1} /\ slots[Inactive] \in Slot
  BY <1>1 DEF Inactive
<1>10. \A left \in {slots[Inactive], Cut, Whole}:
          [slots EXCEPT ![Inactive] = left] \in [{0, 1} -> Slot]
  BY <1>8, <1>9
<1>11. CASE FlushVerified
  BY <1>8, <1>9, <1>11 DEF FlushVerified
<1>12. CASE FlushFails
  BY <1>10, <1>12 DEF FlushFails
<1>13. CASE Crash
  BY <1>10, <1>13 DEF Crash
<1>14. CASE Restart
  BY <1>14, Zenon DEF Restart
<1>15. CASE UNCHANGED fvars
  BY <1>15 DEF fvars
<1> QED
  BY <1>3, <1>4, <1>5, <1>6, <1>7, <1>11, <1>12, <1>13, <1>14, <1>15, <1>16 DEF FNext

(* The state of the image and of the flash is always what vfs.c declares.   *)
THEOREM FlashTypes == FSpec => []FTypeOK
BY FTypeInit, FTypeStep, PTL DEF FSpec

-----------------------------------------------------------------------------
(* The slot that vfs_mount loads where slot a survives: it is whole, its    *)
(* image is the acknowledged one or a later one, and it survives itself.    *)
LEMMA SurvivorIsLoaded ==
  ASSUME FTypeOK, FInv, NEW a \in {0, 1}, Survives(a)
  PROVE  /\ ~NoMagic /\ Mountable
         /\ Survives(Loaded)
         /\ slots[Loaded].body \in Recent
<1> DEFINE b == 1 - a
<1>1. /\ b \in {0, 1} /\ 1 - b = a /\ {a, b} = {0, 1} /\ a # b
      /\ slots[a].sequence \in Nat /\ slots[b].sequence \in Nat
      /\ slots[a].magic \in BOOLEAN /\ slots[b].magic \in BOOLEAN
  BY DEF FTypeOK, Slot
<1>2. slots[a].magic /\ CrcMatches(a) /\ slots[a].body \in Recent
  BY DEF Survives, Prevails, Intact, CrcMatches
<1>3. ~NoMagic
  BY <1>2 DEF NoMagic
<1>4. CASE Loaded = a
  BY <1>2, <1>3, <1>4 DEF Mountable
<1>5. CASE Loaded # a
  <2>1. Selected = b /\ Loaded = b /\ CrcMatches(b)
    BY <1>1, <1>2, <1>5, LoadedIsASlot DEF Loaded
  <2>2. slots[b].magic
    BY <1>1, <2>1 DEF FInv, Intact, CrcMatches
  <2>3. ~(slots[b].sequence < slots[a].sequence)
    <3>1. CASE a = 0
      BY <1>1, <1>2, <2>1, <2>2, <3>1 DEF Selected
    <3>2. CASE a = 1
      BY <1>1, <1>2, <2>1, <2>2, <3>2 DEF Selected
    <3> QED
      BY <3>1, <3>2
  <2>4. slots[b].sequence > slots[a].sequence /\ slots[b].body \in Recent
    BY <2>1, <2>3 DEF Survives, Prevails, Intact, CrcMatches
  <2>5. Survives(b)
    BY <1>1, <2>1, <2>2, <2>4 DEF Survives, Prevails, Intact, CrcMatches
  <2> QED
    BY <1>3, <2>1, <2>4, <2>5 DEF Mountable
<1> QED
  BY <1>4, <1>5

(* The invariant gives what the runs check of a state: where the flash has  *)
(* held an image one is loaded, and one that may be.                        *)
LEMMA InvariantIsEnough ==
  ASSUME FTypeOK, FInv
  PROVE  /\ StaysMountable
         /\ NoMagic => ~Mountable
         /\ ~NoMagic => slots[Loaded].body \in Recent
<1>1. active \in {0, 1}
  BY DEF FTypeOK
<1>2. ASSUME ~NoMagic PROVE \E a \in {0, 1}: Survives(a)
  BY <1>1, <1>2 DEF FInv
<1> QED
  BY <1>2, SurvivorIsLoaded DEF StaysMountable, FInv, Mountable

-----------------------------------------------------------------------------
(* The start: the first slot holds the acknowledged image, or none does.    *)
LEMMA FInvInit == FInit => FInv
<1> SUFFICES ASSUME FInit PROVE FInv
  OBVIOUS
<1>1. PICK first \in {ZeroSlot, [magic |-> TRUE, sequence |-> 1,
                                 crc |-> acked, body |-> acked]}:
        slots = [i \in {0, 1} |-> IF i = 0 THEN first ELSE ZeroSlot]
  BY DEF FInit
<1>2. slots[0] = first /\ slots[1] = ZeroSlot /\ acked # Torn
  BY <1>1, FlashAssumption DEF FInit
<1>3. ~Intact(slots[1]) /\ ~slots[1].magic
  BY <1>2 DEF Intact, ZeroSlot
<1>4. CASE first = ZeroSlot
  <2>1. ~Intact(slots[0]) /\ ~slots[0].magic
    BY <1>2, <1>4 DEF Intact, ZeroSlot
  <2> QED
    BY <1>3, <2>1 DEF FInit, FInv, NoMagic, Running
<1>5. CASE first # ZeroSlot
  <2>1. slots[0].magic /\ Intact(slots[0]) /\ slots[0].body \in Recent
    BY <1>1, <1>2, <1>5 DEF Intact, Recent
  <2>2. Survives(0)
    BY <1>3, <2>1 DEF Survives, Prevails
  <2> QED
    BY <1>3, <2>1, <2>2 DEF FInit, FInv, Running, NoMagic
<1> QED
  BY <1>4, <1>5

(* What vfs_flush may leave in the slot that is not in use when it ends or  *)
(* is cut short: what was there, a part of the new image or all of it.  The *)
(* slot in use survives each of them.                                       *)
LEMMA ActiveSurvivesWriting ==
  ASSUME FTypeOK, FInv, phase = "writing",
         NEW left \in {slots[Inactive], Cut, Whole}
  PROVE  /\ Prevails(slots[active], left, Recent)
         /\ Intact(left) => left.magic
<1>1. Running /\ image \in Recent /\ Inactive = 1 - active /\ Inactive \in {0, 1}
  BY DEF FInv, Running, Recent, FTypeOK, Inactive
<1>2. Survives(active) /\ slots[active].sequence < sequence
  BY <1>1 DEF FInv
<1>3. CASE left = slots[Inactive]
  BY <1>1, <1>2, <1>3 DEF Survives, FInv
<1>4. CASE left = Cut
  BY <1>2, <1>4 DEF Survives, Prevails, Cut, Whole, Intact
<1>5. CASE left = Whole
  BY <1>1, <1>2, <1>5 DEF Survives, Prevails, Whole, Intact, FTypeOK, Slot
<1> QED
  BY <1>3, <1>4, <1>5

(* In the two steps in which a flush may leave any of these behind, the     *)
(* slot that was in use survives; where none is being written it is the     *)
(* same as before.                                                          *)
LEMMA SurvivesWhatIsLeft ==
  ASSUME FTypeOK, FInv, phase = "writing",
         NEW left \in {slots[Inactive], Cut, Whole},
         slots' = [slots EXCEPT ![Inactive] = left],
         UNCHANGED <<active, acked, offered>>
  PROVE  /\ Survives(active)' /\ slots'[active] = slots[active]
         /\ \A i \in {0, 1}: Intact(slots'[i]) => slots'[i].magic
         /\ ~NoMagic'
<1>1. /\ Inactive = 1 - active /\ Inactive \in {0, 1} /\ active \in {0, 1}
      /\ {active, Inactive} = {0, 1} /\ active # Inactive
  BY DEF FTypeOK, Inactive
<1>2. slots'[active] = slots[active] /\ slots'[Inactive] = left
  BY <1>1 DEF FTypeOK
<1>3. Prevails(slots[active], left, Recent) /\ (Intact(left) => left.magic)
  BY ActiveSurvivesWriting
<1>4. Survives(active)'
  BY <1>1, <1>2, <1>3 DEF Survives, Recent
<1>5. slots'[active].magic
  BY <1>2, <1>3 DEF Prevails
<1>6. \A i \in {0, 1}: Intact(slots'[i]) => slots'[i].magic
  BY <1>1, <1>2, <1>3, <1>5
<1> QED
  BY <1>1, <1>2, <1>4, <1>5, <1>6 DEF NoMagic

(* Every step of vfs_init, vfs_mount and vfs_flush, every failure, crash    *)
(* and restart keeps the invariant.                                         *)
LEMMA FInvStep == FTypeOK /\ FInv /\ [FNext]_fvars => FInv'
<1> SUFFICES ASSUME FTypeOK, FInv, [FNext]_fvars PROVE FInv'
  OBVIOUS
<1>0. active \in {0, 1} /\ mounted \in BOOLEAN
  BY DEF FTypeOK
<1>1. ASSUME ~NoMagic PROVE \E a \in {0, 1}: Survives(a)
  BY <1>0, <1>1 DEF FInv
<1>2. ASSUME UNCHANGED <<slots, acked, offered>>
      PROVE  /\ NoMagic' = NoMagic /\ \A a: Survives(a)' = Survives(a)
             /\ \A i \in {0, 1}: Intact(slots'[i]) => slots'[i].magic
  BY <1>2 DEF NoMagic, Survives, Recent, FInv
<1>3. CASE vfs_init
  BY <1>1, <1>2, <1>3 DEF vfs_init, FInv, Running
<1>4. CASE vfs_mount
  <2>1. ~NoMagic /\ Survives(Loaded)
    BY <1>1, <1>4, SurvivorIsLoaded DEF vfs_mount, Mountable
  <2>2. sequence' = slots'[active'].sequence /\ sequence' <= sequence'
    BY <1>4, LoadedIsASlot DEF vfs_mount, FTypeOK, Slot
  <2> QED
    BY <1>2, <1>4, <2>1, <2>2 DEF vfs_mount, FInv, Running
<1>5. CASE vfs_mount_fresh
  <2>1. NoMagic
    BY <1>5, InvariantIsEnough DEF vfs_mount_fresh, StaysMountable
  <2> QED
    BY <1>2, <1>5, <2>1 DEF vfs_mount_fresh, FInv, Running
<1>6. ASSUME NEW i \in Images, Change(i) PROVE FInv'
  BY <1>1, <1>2, <1>6 DEF Change, FInv, Running
<1>13. ASSUME NEW i \in Images, FailedWrite(i) PROVE FInv'
  BY <1>1, <1>2, <1>13 DEF FailedWrite, FInv, Running
<1>7. CASE vfs_flush
  <2>1. Running /\ Survives(active) /\ ~NoMagic /\ slots[active].sequence <= sequence
    BY <1>7 DEF vfs_flush, FInv, Running
  <2>2. /\ UNCHANGED <<slots, active, mounted>> /\ phase' = "writing"
        /\ sequence' = sequence + 1 /\ image' \in offered'
    BY <1>7 DEF vfs_flush
  <2>3. Survives(active)'
    BY <1>7, <2>1 DEF vfs_flush, Survives, Prevails, Recent
  <2>4. slots'[active'].sequence < sequence'
    BY <1>0, <2>1, <2>2 DEF FTypeOK, Slot
  <2>5. slots'[active'].sequence <= sequence'
    BY <1>0, <2>1, <2>2 DEF FTypeOK, Slot
  <2>6. Running' /\ ~NoMagic' /\ phase' # "blocked"
    BY <2>1, <2>2 DEF Running, NoMagic
  <2>7. \A i \in {0, 1}: Intact(slots'[i]) => slots'[i].magic
    BY <2>2 DEF FInv
  <2> QED
    BY <2>1, <2>2, <2>3, <2>4, <2>5, <2>6, <2>7 DEF FInv, Running
<1>8. CASE FlushVerified
  <2>1. Running /\ Survives(active) /\ slots[active].sequence < sequence
    BY <1>8 DEF FlushVerified, FInv, Running
  <2>2. /\ Inactive = 1 - active /\ Inactive \in {0, 1} /\ 1 - Inactive = active
        /\ {active, Inactive} = {0, 1} /\ active # Inactive
    BY <1>0 DEF Inactive
  <2>3. slots'[Inactive] = Whole /\ slots'[active] = slots[active]
    BY <1>8, <2>2 DEF FlushVerified, FTypeOK
  <2>4. Whole.magic /\ Intact(Whole) /\ Whole.sequence = sequence /\ Whole.body = image
    BY FlashAssumption DEF Whole, Intact, FTypeOK
  <2>5. Prevails(Whole, slots[active], {image})
    BY <2>1, <2>4 DEF Prevails
  <2>6. active' = Inactive /\ Recent' = {image} /\ sequence' = sequence /\ phase' = "idle"
    BY <1>8 DEF FlushVerified, Recent
  <2>7. Survives(active)'
    BY <2>2, <2>3, <2>5, <2>6 DEF Survives
  <2>8. slots'[active'].sequence <= sequence' /\ ~NoMagic'
    BY <1>0, <2>2, <2>3, <2>4, <2>6 DEF NoMagic, FTypeOK
  <2>9. \A i \in {0, 1}: Intact(slots'[i]) => slots'[i].magic
    BY <2>2, <2>3, <2>4 DEF FInv
  <2> QED
    BY <1>0, <1>8, <2>2, <2>6, <2>7, <2>8, <2>9 DEF FlushVerified, FInv, Running
<1>9. CASE FlushFails
  <2>1. PICK left \in {slots[Inactive], Cut, Whole}:
          slots' = [slots EXCEPT ![Inactive] = left]
    BY <1>9 DEF FlushFails
  <2>2. /\ phase = "writing" /\ phase' = "idle"
        /\ UNCHANGED <<image, active, sequence, mounted, acked, offered>>
    BY <1>9 DEF FlushFails
  <2>3. Running /\ slots[active].sequence <= sequence
    BY <2>2 DEF FInv, Running
  <2>4. /\ Survives(active)' /\ slots'[active] = slots[active] /\ ~NoMagic'
        /\ \A i \in {0, 1}: Intact(slots'[i]) => slots'[i].magic
    BY <2>1, <2>2, SurvivesWhatIsLeft
  <2> QED
    BY <2>2, <2>3, <2>4 DEF FInv, Running
<1>10. CASE Crash
  <2>1. ~Running' /\ phase' = "down" /\ UNCHANGED <<active, acked, offered>>
    BY <1>10 DEF Crash, Running
  <2>2. CASE phase = "writing"
    <3>1. PICK left \in {slots[Inactive], Cut, Whole}:
            slots' = [slots EXCEPT ![Inactive] = left]
      BY <1>10, <2>2 DEF Crash
    <3>2. /\ Survives(active)' /\ ~NoMagic'
          /\ \A i \in {0, 1}: Intact(slots'[i]) => slots'[i].magic
      BY <2>1, <2>2, <3>1, SurvivesWhatIsLeft
    <3> QED
      BY <1>0, <2>1, <3>2 DEF FInv
  <2>3. CASE phase # "writing"
    <3>1. slots' = slots
      BY <1>10, <2>3 DEF Crash, FTypeOK
    <3> QED
      BY <1>1, <1>2, <2>1, <3>1 DEF FInv
  <2> QED
    BY <2>2, <2>3
<1>11. CASE Restart
  BY <1>1, <1>2, <1>11 DEF Restart, FInv, Running
<1>12. CASE UNCHANGED fvars
  BY <1>2, <1>12 DEF fvars, FInv, Running
<1> QED
  BY <1>3, <1>4, <1>5, <1>6, <1>7, <1>8, <1>9, <1>10, <1>11, <1>12, <1>13 DEF FNext

(* A flash that holds an image never gets into the state in which vfs_mount *)
(* finds none and waits for itself, whatever fails or is interrupted.       *)
THEOREM FlashStaysMountable == FSpec => []StaysMountable
<1>1. FTypeOK /\ FInv => StaysMountable
  BY InvariantIsEnough
<1> QED
  BY <1>1, FTypeInit, FTypeStep, FInvInit, FInvStep, PTL DEF FSpec

-----------------------------------------------------------------------------
(* The flash implements DurableImage: the start is one of its initial       *)
(* states; vfs_flush offers an image, its success acknowledges it, a        *)
(* failure or a crash disturbs, and no other step changes what is found.    *)
LEMMA DurableInit == FInit => Durable!DInit
<1> SUFFICES ASSUME FInit PROVE Durable!DInit
  OBVIOUS
<1>1. FTypeOK /\ FInv
  BY FTypeInit, FInvInit
<1>2. Mountable => slots[Loaded].body \in Recent
  BY <1>1, InvariantIsEnough
<1> QED
  BY <1>2 DEF FInit, Recent, Durable!DInit

Found == IF Mountable THEN slots[Loaded].body ELSE acked

LEMMA FoundIsRecent == FTypeOK /\ FInv => Found \in Recent
BY InvariantIsEnough DEF Found, Recent, Mountable

LEMMA DurableStep ==
  FTypeOK /\ FInv /\ FTypeOK' /\ FInv' /\ [FNext]_fvars
  => [Durable!DNext]_<<acked, offered, Found>>
<1>1. (FTypeOK /\ FInv => Found \in Recent)'
  BY FoundIsRecent, PTL
<1> SUFFICES ASSUME FTypeOK, FInv, FTypeOK', FInv', [FNext]_fvars
             PROVE  [Durable!DNext]_<<acked, offered, Found>>
  OBVIOUS
<1>2. Found' \in Recent'
  BY <1>1
<1>3. ASSUME UNCHANGED <<slots, acked>> PROVE Found' = Found
  BY <1>3 DEF Found, Mountable, Loaded, Selected, NoMagic, CrcMatches
<1>4. ASSUME UNCHANGED <<acked, offered>> PROVE Durable!Disturb
  BY <1>2, <1>4 DEF Recent, Found, Durable!Disturb
<1>5. ASSUME UNCHANGED <<acked, offered>> PROVE Durable!DNext
  BY <1>4, <1>5 DEF Durable!DNext
<1>6. CASE vfs_flush
  <2>1. image \in Images /\ offered' = offered \union {image} /\ UNCHANGED <<slots, acked>>
    BY <1>6 DEF vfs_flush, FTypeOK
  <2>2. Durable!Offer(image)
    BY <1>3, <2>1 DEF Durable!Offer, Found
  <2> QED
    BY <2>1, <2>2 DEF Durable!DNext
<1>7. CASE FlushVerified
  <2>1. image \in Images /\ image \in offered /\ acked' = image /\ offered' = {}
    BY <1>7 DEF FlushVerified, FTypeOK, FInv
  <2>2. Found' = image
    BY <1>2, <2>1 DEF Recent
  <2>3. Durable!Acknowledge(image)
    BY <2>1, <2>2 DEF Durable!Acknowledge, Found
  <2> QED
    BY <2>1, <2>3 DEF Durable!DNext
<1>8. CASE UNCHANGED fvars
  BY <1>5, <1>8 DEF fvars
<1>9. ASSUME FNext, ~vfs_flush, ~FlushVerified PROVE UNCHANGED <<acked, offered>>
  BY <1>9 DEF FNext, vfs_init, vfs_mount, vfs_mount_fresh, Change, FailedWrite,
     FlushFails, Crash, Restart
<1> QED
  BY <1>5, <1>6, <1>7, <1>8, <1>9

(* What a mount finds is the image of the last vfs_flush that returned      *)
(* success or of one begun since: the choice of a slot in vfs_mount and the *)
(* order of writing in vfs_flush implement DurableImage.                    *)
THEOREM FlashIsDurable == FSpec => MountFindsLastFlush
<1>1. FTypeOK /\ FInv /\ FTypeOK' /\ FInv' /\ [FNext]_fvars
      => [Durable!DNext]_<<acked, offered,
                           IF Mountable THEN slots[Loaded].body ELSE acked>>
  BY DurableStep DEF Found
<1>2. FSpec => Durable!DSpec
  BY <1>1, FTypeInit, FTypeStep, FInvInit, FInvStep, DurableInit, PTL
     DEF FSpec, Durable!DSpec
<1> QED
  BY <1>2 DEF MountFindsLastFlush
=============================================================================
