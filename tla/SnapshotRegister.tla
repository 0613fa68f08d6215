--------------------------- MODULE SnapshotRegister ---------------------------
(***************************************************************************)
(* What the index store promises: one catalog is stored at a time, and a   *)
(* write replaces it in a single step, or not at all, whatever fails and   *)
(* whenever the program is killed.  The detailed protocol over three files *)
(* is module SnapshotStore, which implements this specification.           *)
(***************************************************************************)
CONSTANTS Contents,   (* every catalog a snapshot file can hold            *)
          Empty       (* what a load gives when there is no snapshot       *)

VARIABLES stored,     (* the catalog that a load would return              *)
          pending,    (* the catalog a write in progress may install: a    *)
                      (* set of at most one member                         *)
          lossy       (* a file is damaged, or a maintenance call runs     *)

rvars == <<stored, pending, lossy>>

RInit == stored = Empty /\ pending = {} /\ lossy = FALSE

(* A repository call starts to replace the stored catalog. *)
Begin == /\ \E v \in Contents : pending' = {v}
         /\ UNCHANGED stored

(* The one step that makes the new catalog the stored one. *)
Commit == stored' \in pending /\ pending' = {}

(* A write ends, fails or is cut off: the stored catalog is untouched. *)
End == pending' = {} /\ UNCHANGED stored

(* Only maintenance and damage give the stored catalog up. *)
GiveUp == /\ lossy \/ lossy'
          /\ stored' \in Contents
          /\ \/ pending' = {}
             \/ \E v \in Contents : pending' = {v}

RNext == /\ lossy' \in BOOLEAN
         /\ Begin \/ Commit \/ End \/ GiveUp

RSpec == RInit /\ [][RNext]_rvars
=============================================================================
