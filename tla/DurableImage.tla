---------------------------- MODULE DurableImage ----------------------------
(***************************************************************************)
(* What the flash of src/fat16/vfs.c promises its callers: one image is    *)
(* kept, a write of a new one either replaces it or, when it fails or is   *)
(* interrupted, may or may not be what is found afterwards.  Nothing else  *)
(* is ever found: no older image, no half of one.                          *)
(***************************************************************************)
CONSTANT Images

VARIABLES
  kept,     \* the image of the last flush that wrote one and returned success
  pending,  \* the images of the flushes begun after it
  found     \* the image that a mount would load now

DInit ==
  /\ kept \in Images
  /\ pending = {}
  /\ found = kept

(* A flush begins: its image may be found from now on. *)
Offer(i) ==
  /\ pending' = pending \union {i}
  /\ UNCHANGED <<kept, found>>

(* A flush fails, or is cut short. *)
Disturb ==
  /\ found' \in {kept} \union pending
  /\ UNCHANGED <<kept, pending>>

(* A flush returns success. *)
Acknowledge(i) ==
  /\ i \in pending
  /\ kept' = i
  /\ found' = i
  /\ pending' = {}

DNext ==
  \/ Disturb
  \/ \E i \in Images: Offer(i) \/ Acknowledge(i)

DSpec == DInit /\ [][DNext]_<<kept, pending, found>>
=============================================================================
