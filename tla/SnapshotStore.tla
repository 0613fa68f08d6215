---------------------------- MODULE SnapshotStore ----------------------------
(***************************************************************************)
(* The on-disk catalog of WinBlaze.Index (store.rs).  A snapshot is        *)
(* written to winblaze.index.tmp and moved over winblaze.index.bin, with   *)
(* winblaze.index.bak holding the previous one in between.  Each file      *)
(* system call is a step: the process may be killed, a call may fail, and  *)
(* other threads may load the catalog between any two of them.             *)
(*                                                                         *)
(* Contents of a file: a catalog, Absent (no such file), or Torn (a file   *)
(* that does not decode).  A catalog is a member of Catalogs or Empty, the *)
(* default state, which is also a valid snapshot.                          *)
(***************************************************************************)
EXTENDS Naturals

CONSTANTS Catalogs,       (* catalogs that scans produce                   *)
          Empty,          (* BufferedIndexTransaction::default()           *)
          Absent, Torn,
          Readers,        (* threads that open the repository to read      *)
          Maintenance,    (* the maintenance calls made: a subset of       *)
                          (* {"invalidate", "compact"}                     *)
          MaxDamage       (* bound: how often the medium damages a file    *)

ASSUME StoreAssumption ==
  /\ Empty \notin Catalogs
  /\ Absent \notin Catalogs \cup {Empty}
  /\ Torn \notin Catalogs \cup {Empty, Absent}
  /\ Maintenance \subseteq {"invalidate", "compact"}
  /\ MaxDamage \in Nat

VARIABLES bin, bak, tmp,  (* storage_path, backup and temporary file       *)
          state,          (* SqliteIndexRepository.state                   *)
          writing,        (* the catalog persist_snapshot_with is writing  *)
          pc,             (* next file system call of the writing thread   *)
          rpc,            (* per reader: which file open() tries next      *)
          loaded,         (* per reader: the catalog its last open() gave  *)
          seen,           (* history: catalogs current during that open()  *)
          damaged,        (* history: a file was damaged since the last    *)
                          (* completed write                               *)
          damage          (* history: how many times                       *)

files == <<bin, bak, tmp>>
readers == <<rpc, loaded, seen>>
faults == <<damaged, damage>>
vars == <<files, state, writing, pc, readers, faults>>

Contents == Catalogs \cup {Empty}
Content == Contents \cup {Absent, Torn}

(* load_index_state succeeds on a file that exists and decodes. *)
Decodes(f) == f \in Contents

(* Mutant of Load: the default for a missing snapshot is forgotten. *)
LoadNoDefault(p, b) == IF Decodes(p) THEN p ELSE b

(* SqliteIndexRepository::open: primary, else backup, else the default. *)
Load(p, b) == IF Decodes(p) THEN p ELSE IF Decodes(b) THEN b ELSE Empty

-----------------------------------------------------------------------------
(* Readers in the middle of open() see every catalog current meanwhile. *)
Witness == seen' = [r \in Readers |-> IF rpc[r] = "idle" THEN seen[r]
                                      ELSE seen[r] \cup {Load(bin', bak')}]

Writer(from, to) ==
  /\ pc = from /\ pc' = to
  /\ UNCHANGED <<rpc, loaded, damage>>

(* An I/O error leaves by `?`; the files stay as the last call left them. *)
Fails(at) ==
  /\ Writer(at, "idle")
  /\ UNCHANGED <<files, state, writing, damaged>>

(* apply_transaction adopts the transaction as the repository's state;     *)
(* persist_transaction and persist_sorted_records only write it.           *)
BeginPersist(v) ==
  /\ Writer("idle", "create")
  /\ writing' = v
  /\ state' \in {state, v}
  /\ UNCHANGED <<files, damaged>>

(* File::create(&temp_path): truncates whatever an earlier write left. *)
CreateTemp ==
  /\ Writer("create", "write")
  /\ tmp' = Torn
  /\ UNCHANGED <<bin, bak, state, writing, damaged>>

(* Mutant of WriteTemp: the buffered tail is not flushed before the rename. *)
WriteTempUnflushed ==
  /\ Writer("write", IF bin = Absent THEN "publish" ELSE "unlink")
  /\ UNCHANGED <<files, state, writing, damaged>>

(* write(&mut writer)?; writer.flush()?: then, only if there is a primary, *)
(* it is moved out of the way first.                                       *)
WriteTemp ==
  /\ Writer("write", IF bin = Absent THEN "publish" ELSE "unlink")
  /\ tmp' = writing
  /\ UNCHANGED <<bin, bak, state, writing, damaged>>

(* An existing backup is removed; a failure to remove it is ignored. *)
UnlinkBackup ==
  /\ Writer("unlink", "stash")
  /\ bak' \in {bak, Absent}
  /\ UNCHANGED <<bin, tmp, state, writing, damaged>>

(* Mutant of StashPrimary: the old primary is removed, not kept aside. *)
StashByRemoving ==
  /\ Writer("stash", "publish")
  /\ bin' = Absent
  /\ UNCHANGED <<bak, tmp, state, writing, damaged>>

(* fs::rename(storage_path, &backup_path)?, which replaces a backup. *)
StashPrimary ==
  /\ Writer("stash", "publish")
  /\ bak' = bin /\ bin' = Absent
  /\ UNCHANGED <<tmp, state, writing, damaged>>

(* fs::rename(&temp_path, storage_path)?: the new snapshot is in place. *)
Publish ==
  /\ Writer("publish", "drop")
  /\ bin' = tmp /\ tmp' = Absent
  /\ damaged' = FALSE
  /\ UNCHANGED <<bak, state, writing>>

(* The recovery copy is removed; a failure to remove it is ignored. *)
DropBackup ==
  /\ Writer("drop", "idle")
  /\ bak' \in {bak, Absent}
  /\ UNCHANGED <<bin, tmp, state, writing, damaged>>

-----------------------------------------------------------------------------
(* invalidate_cache: the state is cleared, then remove_snapshot_files      *)
(* removes primary, backup and temporary file, in that order.              *)
Invalidate ==
  /\ "invalidate" \in Maintenance
  /\ Writer("idle", "rm_bin")
  /\ state' = Empty
  /\ UNCHANGED <<files, writing, damaged>>

RemovePrimary ==
  /\ Writer("rm_bin", "rm_bak")
  /\ bin' = Absent
  /\ UNCHANGED <<bak, tmp, state, writing, damaged>>

RemoveBackup ==
  /\ Writer("rm_bak", "rm_tmp")
  /\ bak' = Absent
  /\ UNCHANGED <<bin, tmp, state, writing, damaged>>

RemoveTemp ==
  /\ Writer("rm_tmp", "idle")
  /\ tmp' = Absent
  /\ UNCHANGED <<bin, bak, state, writing, damaged>>

(* compact_cache: remove_auxiliary_snapshot_files removes backup and       *)
(* temporary file, then the repository's state is persisted.               *)
Compact ==
  /\ "compact" \in Maintenance
  /\ Writer("idle", "cp_bak")
  /\ writing' = state
  /\ UNCHANGED <<files, state, damaged>>

CompactBackup ==
  /\ Writer("cp_bak", "cp_tmp")
  /\ bak' = Absent
  /\ UNCHANGED <<bin, tmp, state, writing, damaged>>

CompactTemp ==
  /\ Writer("cp_tmp", "create")
  /\ tmp' = Absent
  /\ UNCHANGED <<bin, bak, state, writing, damaged>>

-----------------------------------------------------------------------------
(* Mutant of OpenPrimary: the recovery copy is preferred to the primary. *)
OpenBackupFirst(r) ==
  /\ rpc[r] = "idle"
  /\ seen' = [seen EXCEPT ![r] = {Load(bin, bak)}]
  /\ loaded' = [loaded EXCEPT ![r] = Load(bak, bin)]
  /\ UNCHANGED <<files, state, writing, pc, rpc, faults>>

(* open() in a reading thread: the primary is opened first ...  An open    *)
(* file is not affected by a later rename, so one step reads it whole.     *)
OpenPrimary(r) ==
  /\ rpc[r] = "idle"
  /\ seen' = [seen EXCEPT ![r] = {Load(bin, bak)}]
  /\ IF Decodes(bin)
     THEN /\ loaded' = [loaded EXCEPT ![r] = bin]
          /\ UNCHANGED rpc
     ELSE /\ rpc' = [rpc EXCEPT ![r] = "backup"]
          /\ UNCHANGED loaded
  /\ UNCHANGED <<files, state, writing, pc, faults>>

(* ... and the backup only after the primary could not be loaded. *)
OpenBackup(r) ==
  /\ rpc[r] = "backup"
  /\ rpc' = [rpc EXCEPT ![r] = "idle"]
  /\ loaded' = [loaded EXCEPT ![r] = IF Decodes(bak) THEN bak ELSE Empty]
  /\ UNCHANGED <<files, state, writing, pc, seen, faults>>

(* The process is killed and restarted: it opens what the disk holds. *)
Crash ==
  /\ pc' = "idle"
  /\ state' = Load(bin, bak)
  /\ rpc' = [r \in Readers |-> "idle"]
  /\ loaded' = [r \in Readers |-> Empty]
  /\ seen' = [r \in Readers |-> {Empty}]
  /\ UNCHANGED <<files, writing, faults>>

(* The medium damages the primary (or a power cut loses its unsynced data). *)
Damage ==
  /\ damage < MaxDamage
  /\ bin # Absent
  /\ bin' = Torn
  /\ damage' = damage + 1 /\ damaged' = TRUE
  /\ UNCHANGED <<bak, tmp, state, writing, pc, rpc, loaded>>

-----------------------------------------------------------------------------
Init ==
  /\ bin = Absent /\ bak = Absent /\ tmp = Absent
  /\ state = Empty /\ writing = Empty /\ pc = "idle"
  /\ rpc = [r \in Readers |-> "idle"]
  /\ loaded = [r \in Readers |-> Empty]
  /\ seen = [r \in Readers |-> {Empty}]
  /\ damaged = FALSE /\ damage = 0

(* The calls whose error ends the operation. *)
Fallible == {"create", "write", "stash", "publish",
             "rm_bin", "rm_bak", "rm_tmp", "cp_bak", "cp_tmp"}

Persist == \/ \E v \in Catalogs : BeginPersist(v)
           \/ CreateTemp \/ WriteTemp \/ UnlinkBackup
           \/ StashPrimary \/ Publish \/ DropBackup

Maintain == \/ Invalidate \/ RemovePrimary \/ RemoveBackup \/ RemoveTemp
            \/ Compact \/ CompactBackup \/ CompactTemp

Disk == Persist \/ Maintain \/ Damage \/ \E at \in Fallible : Fails(at)

Next == \/ Disk /\ Witness
        \/ \E r \in Readers : OpenPrimary(r) \/ OpenBackup(r)
        \/ Crash

Spec == Init /\ [][Next]_vars

-----------------------------------------------------------------------------
Labels == {"idle", "unlink", "drop"} \cup Fallible

Maintaining == pc \in {"rm_bin", "rm_bak", "rm_tmp", "cp_bak", "cp_tmp"}

(* The type invariant. *)
TypeOK ==
  /\ bin \in Content /\ bak \in Content /\ tmp \in Content
  /\ state \in Contents /\ writing \in Contents
  /\ pc \in Labels
  /\ rpc \in [Readers -> {"idle", "backup"}]
  /\ loaded \in [Readers -> Contents]
  /\ seen \in [Readers -> SUBSET Contents]
  /\ damaged \in BOOLEAN /\ damage \in Nat

(* No write exposes a half-written catalog: unless the medium damaged it,  *)
(* the primary decodes whenever it exists, and persist_snapshot_with never *)
(* touches it before the whole new catalog is in the temporary file.       *)
PrimaryIsWhole ==
  /\ ~damaged => bin # Torn
  /\ pc \in {"unlink", "stash", "publish"} => tmp = writing

(* A thread that loads the catalog while another one replaces it gets a    *)
(* catalog that was current at some moment of its open() -- never an older *)
(* one that a leftover backup still holds -- or comes up empty.            *)
LoadIsCurrentOrEmpty ==
  \A r \in Readers : rpc[r] = "idle" => loaded[r] \in seen[r] \cup {Empty}

(* The same without the second possibility.  It does not hold: open() can  *)
(* miss the primary between the two renames, and the backup after it has   *)
(* been dropped.                                                           *)
LoadIsCurrent ==
  \A r \in Readers : rpc[r] = "idle" => loaded[r] \in seen[r]

(* The store implements the one-step register: the catalog a load returns  *)
(* changes only when Publish installs the one being written, through every *)
(* crash and failed call, except by maintenance and damage.                *)
Register == INSTANCE SnapshotRegister WITH
  stored  <- Load(bin, bak),
  pending <- IF pc \in {"create", "write", "unlink", "stash", "publish"}
             THEN {writing} ELSE {},
  lossy   <- damaged \/ Maintaining

ImplementsRegister == Register!RSpec

-----------------------------------------------------------------------------
(* What makes the implementation inductive: where the primary is at each   *)
(* step of persist_snapshot_with ...                                       *)
WriterInv ==
  /\ PrimaryIsWhole
  /\ pc \in {"unlink", "stash", "drop"} => bin # Absent
  /\ pc = "publish" => bin = Absent

(* ... and that a reader which missed the primary has seen, as current,    *)
(* whatever catalog the primary and the backup have held since.            *)
ReaderInv ==
  \A r \in Readers :
    rpc[r] = "backup" => \A f \in {bin, bak} : Decodes(f) => f \in seen[r]
=============================================================================
