------------------------------ MODULE MCStorage ------------------------------
(***************************************************************************)
(* The programs of the repository that keep files, each on a small         *)
(* instance: src/fat16's flash image, its files and directories, the table *)
(* of inodes of src/level2/vfs, smoltar, and fnvtest with fnvupdate.       *)
(* "program" says which of them a behaviour is about; they share no state  *)
(* and the others rest.                                                    *)
(***************************************************************************)
EXTENDS Integers, Sequences, FiniteSets, FlashStore, HashList, VfsTable, Fat16

VARIABLES
  program,
  tarDisk, archive, job, outcome, source, sound

(* Two clusters of three slots are the root, three hold what is allocated;  *)
(* a file, a file of the same name in a directory of that name.             *)
RootAndFile == {<<>>, <<"a">>, <<"a", "a">>}

(* Zeros, and bytes that read as a file "a" whose first cluster is 3.       *)
ZerosAndEntry ==
  {Zero, [name |-> "a", dir |-> FALSE, first |-> 3, size |-> 2, made |-> FALSE]}

(* A member longer than a block, one prefix besides none. *)
Under(p, m) == IF p = "" THEN m ELSE p \o m
Tar == INSTANCE Smoltar WITH
  Block <- 2, Members <- {"a", "b"}, Output <- Under, OutPrefixes <- {"", "p"},
  Contents <- {<<1, 2, 3>>}, Cuts <- {3}, MaxMembers <- 2,
  disk <- tarDisk

(* Two processes, four starts and changes; one line is no entry.            *)
OneList == {<<Other, Entry("f", 1)>>}

avars == <<tarDisk, archive, job, outcome, source, sound>>
vars == <<program, fvars, tvars, vvars, avars, lvars>>

Init ==
  /\ program \in {"flash", "fat16", "vfs", "smoltar", "hashes"}
  /\ FInit /\ TInit /\ VInit /\ Tar!AInit /\ LInit
  /\ program # "flash" => acked = BlankImage /\ ~slots[0].magic
  /\ program # "smoltar" => \A f \in DOMAIN tarDisk: tarDisk[f] = Tar!Absent
  /\ program # "hashes" => list = Missing /\ \A f \in DOMAIN content: content[f] = 0

Next ==
  /\ UNCHANGED program
  /\ \/ program = "flash" /\ FNext /\ UNCHANGED <<tvars, vvars, avars, lvars>>
     \/ program = "fat16" /\ TNext /\ UNCHANGED <<fvars, vvars, avars, lvars>>
     \/ program = "vfs" /\ VNext /\ UNCHANGED <<fvars, tvars, avars, lvars>>
     \/ program = "smoltar" /\ Tar!ANext /\ UNCHANGED <<fvars, tvars, vvars, lvars>>
     \/ program = "hashes" /\ LNext /\ UNCHANGED <<fvars, tvars, vvars, avars>>

Spec == Init /\ [][Next]_vars

-----------------------------------------------------------------------------
(* The state of each program is what its declarations allow. *)
TypesOK ==
  CASE program = "flash" -> FTypeOK
    [] program = "fat16" -> TTypeOK
    [] program = "vfs" -> VTypeOK
    [] program = "smoltar" -> Tar!ATypeOK
    [] program = "hashes" -> LTypeOK

(* StaysMountable and MountFindsLastFlush, NoCrossLinks, NoSharedBlocks and  *)
(* ListIsTrue are the own properties of FlashStore, Fat16, VfsTable and      *)
(* HashList: in the other programs the flash stays blank, no file is made,   *)
(* the table has its root alone and there is no list.                        *)

(* list_archive lists the members of an archive that create_archive made    *)
(* without an error, in order.                                              *)
ListsMembers == program = "smoltar" => Tar!ListsMembers

(* extract_archive that reports success has put back what create_archive    *)
(* took, in each of its three modes.                                        *)
GivesBack == Tar!GivesBack
=============================================================================
