------------------------------ MODULE FileStore ------------------------------
(***************************************************************************)
(* The bucket that holds the PDFs of the profiles (internal/uploader) and  *)
(* the goroutines that remove objects from it in the background            *)
(* (cleanupOrphanFile).  A key is a fresh UUID: keys are handed out in     *)
(* order and never twice.                                                  *)
(***************************************************************************)
EXTENDS Naturals, FiniteSets

CONSTANT MaxObjects   \* bound on the keys handed out

Objects == 1..MaxObjects

ASSUME FileStoreAssumption == MaxObjects \in Nat \ {0}

VARIABLES
  nextObject,   \* next key
  stored,       \* objects in the bucket
  trash         \* objects a goroutine is about to remove

bucket == <<nextObject, stored, trash>>

FileStoreTypeOK ==
  /\ nextObject \in 1..(MaxObjects + 1)
  /\ stored \in SUBSET Objects
  /\ trash \in SUBSET Objects

(* Upload of the next object.                                              *)
Upload ==
  /\ nextObject \in Objects
  /\ nextObject' = nextObject + 1
  /\ stored' = stored \cup {nextObject}

(* go cleanupOrphanFile for each of some objects.                          *)
Discard(objects) == trash' = trash \cup objects

(* The goroutine removes its object, or fails and only logs it.            *)
Remove(o) ==
  /\ o \in trash
  /\ stored' = stored \ {o}
  /\ trash' = trash \ {o}
  /\ UNCHANGED nextObject

RemoveFails(o) ==
  /\ o \in trash
  /\ trash' = trash \ {o}
  /\ UNCHANGED <<nextObject, stored>>
=============================================================================
