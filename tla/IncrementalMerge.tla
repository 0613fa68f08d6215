--------------------------- MODULE IncrementalMerge ---------------------------
(***************************************************************************)
(* How an incremental rescan is merged into the catalog of an earlier scan *)
(* (SqliteIndexRepository::apply_path_matched_incremental_transaction in   *)
(* store.rs, diff_file_records in model.rs).  The identifiers of a walk    *)
(* depend on scheduling, so the files and directories of the new scan are  *)
(* first given the identifiers that their paths had, then the two lists of *)
(* files are compared by identifier and the changes applied.               *)
(*                                                                         *)
(* A path is a sequence of names.  What else a file record holds (sizes,   *)
(* attributes, timestamps) is one value, data; a path of <<>> stands for   *)
(* the empty string that scanners leave.                                   *)
(***************************************************************************)
EXTENDS Integers, Sequences, FiniteSets, FiniteSetsExt, Functions

NoId == -1

(* The records of a catalog: directories and files by identifier, and the  *)
(* volume's root directory.                                                *)
Catalog(ds, fs, root) == [dirs |-> ds, files |-> fs, root |-> root]

-----------------------------------------------------------------------------
(* snapshot_files_with_paths: a path that is not stored is derived from    *)
(* the parent's; without the parent it is the bare name.                   *)
FullPath(ds, f) ==
  IF f.path # <<>> THEN f.path
  ELSE IF f.parent \in DOMAIN ds THEN Append(ds[f.parent].path, f.name) ELSE <<f.name>>

WithPaths(ds, fs) == [i \in DOMAIN fs |-> [fs[i] EXCEPT !.path = FullPath(ds, fs[i])]]

(* The records of `records` with a given path, and whether there are any.  *)
At(records, path) == {i \in DOMAIN records : records[i].path = path}

(* The identifiers after `used`, in the order of the records that need one.*)
Fresh(used, needing, i) ==
  Max(used \cup {0}) + 1 + Cardinality({j \in needing : j < i})

(* Mutant: the identifiers of the scan are taken as they are. *)
FileIdsOfScan(previous, current) == [i \in DOMAIN current |-> i]

(* remap_current_files_by_path: the identifier that the path has in        *)
(* `previous` (the last one collected, if it has several), else a new one. *)
FileIds(previous, current) ==
  LET new == {i \in DOMAIN current : At(previous, current[i].path) = {}}
  IN  [i \in DOMAIN current |->
         IF i \in new THEN Fresh(DOMAIN previous \cup DOMAIN current, new, i)
         ELSE Max(At(previous, current[i].path))]

(* Records collected by their new identifiers: the last one of several     *)
(* with the same identifier stays.                                         *)
Renumbered(records, ids) ==
  [n \in Range(ids) |-> records[Max({i \in DOMAIN records : ids[i] = n})]]

-----------------------------------------------------------------------------
(* remap_current_directory_ids_by_path *)

(* The references to directories: parents of directories and of files, and *)
(* the volume's root.                                                      *)
References(ds, fs, root) ==
  ({ds[i].parent : i \in DOMAIN ds} \ {NoId}) \cup {fs[i].parent : i \in DOMAIN fs} \cup {root}

(* Mutant: a dangling reference is kept as it is. *)
DirectoryIdsAliasing(previous, ds, fs, root) ==
  LET refs == References(ds, fs, root)
      used == DOMAIN previous \cup DOMAIN ds \cup refs
      new == {i \in DOMAIN ds : At(previous, ds[i].path) = {}}
  IN  [i \in DOMAIN ds \cup refs |->
         IF i \notin DOMAIN ds THEN i
         ELSE IF i \in new THEN Fresh(used, new, i)
         ELSE Max(At(previous, ds[i].path))]

(* Mutant: a dangling reference becomes none. *)
DirectoryIdsDropping(previous, ds, fs, root) ==
  LET used == DOMAIN previous \cup DOMAIN ds
      new == {i \in DOMAIN ds : At(previous, ds[i].path) = {}}
  IN  [i \in DOMAIN ds \cup References(ds, fs, root) |->
         IF i \notin DOMAIN ds THEN NoId
         ELSE IF i \in new THEN Fresh(used, new, i)
         ELSE Max(At(previous, ds[i].path))]

(* Directories get the identifier of their path, or a new one.  A dangling *)
(* reference is kept where it aliases neither an earlier directory nor a   *)
(* renumbered one, and gets a new identifier otherwise.                    *)
DirectoryIds(previous, ds, fs, root) ==
  LET refs == References(ds, fs, root)
      used == DOMAIN previous \cup DOMAIN ds \cup refs
      new == {i \in DOMAIN ds : At(previous, ds[i].path) = {} \/ ds[i].path = <<>>}
      own == [i \in DOMAIN ds |-> IF i \in new THEN Fresh(used, new, i)
                                  ELSE Max(At(previous, ds[i].path))]
      dangling == refs \ DOMAIN ds
      moved == {r \in dangling : r \in DOMAIN previous \/ r \in Range(own)}
  IN  [i \in DOMAIN ds \cup dangling |->
         IF i \in DOMAIN ds THEN own[i]
         ELSE IF i \in moved THEN Fresh(used \cup Range(own), moved, i)
         ELSE i]

(* Mutant: the parents of files keep the numbers of the scan. *)
RemappedDirectories(previous, tx) ==
  LET before == WithPaths(previous.dirs, previous.files)
      now == WithPaths(tx.dirs, tx.files)
      dirIds == DirectoryIds(previous.dirs, tx.dirs, now, tx.root)
      dirs == [i \in DOMAIN tx.dirs |->
                 [tx.dirs[i] EXCEPT !.parent = IF @ = NoId THEN NoId ELSE dirIds[@]]]
  IN  Catalog(Renumbered(dirs, [i \in DOMAIN dirs |-> dirIds[i]]),
              Renumbered(now, FileIds(before, now)), dirIds[tx.root])

Remapped(previous, tx) ==
  LET before == WithPaths(previous.dirs, previous.files)
      now == WithPaths(tx.dirs, tx.files)
      dirIds == DirectoryIds(previous.dirs, tx.dirs, now, tx.root)
      ref(i) == IF i = NoId THEN NoId ELSE dirIds[i]
      dirs == [i \in DOMAIN tx.dirs |-> [tx.dirs[i] EXCEPT !.parent = ref(@)]]
      files == [i \in DOMAIN now |-> [now[i] EXCEPT !.parent = ref(@)]]
  IN  Catalog(Renumbered(dirs, [i \in DOMAIN dirs |-> dirIds[i]]),
              Renumbered(files, FileIds(before, now)), dirIds[tx.root])

-----------------------------------------------------------------------------
(* Mutant: only the place of a file is compared. *)
SamePlace(f, g) == f.name = g.name /\ f.parent = g.parent

(* diff_file_records *)
Same(f, g) == f.name = g.name /\ f.parent = g.parent /\ f.data = g.data

(* detect_file_lineage_change *)
Renames(f, g) == f.name # g.name
Moves(f, g) == f.parent # g.parent \/ f.path # g.path

Kind(f, g) == IF Moves(f, g) THEN "moved" ELSE IF Renames(f, g) THEN "renamed" ELSE "modified"

(* The change set: a kind for each identifier that changed. *)
Diff(before, now) ==
  LET changed == {i \in DOMAIN before \cup DOMAIN now :
                    i \in DOMAIN before /\ i \in DOMAIN now => ~Same(before[i], now[i])}
  IN  [i \in changed |->
         IF i \notin DOMAIN before THEN "added"
         ELSE IF i \notin DOMAIN now THEN "removed"
         ELSE Kind(before[i], now[i])]

(* apply_incremental_files *)
Apply(files, changes, now) ==
  [i \in (DOMAIN files \cup DOMAIN changes)
           \ {j \in DOMAIN changes : changes[j] = "removed"} |->
     IF i \in DOMAIN changes THEN now[i] ELSE files[i]]

(* apply_path_matched_incremental_transaction and, on the remapped records,*)
(* apply_incremental_transaction: the new catalog and the change set.      *)
Merge(previous, tx) ==
  LET now == Remapped(previous, tx)
      files == WithPaths(now.dirs, now.files)
      changed == Diff(WithPaths(previous.dirs, previous.files), files)
  IN  [catalog |-> Catalog(now.dirs, Apply(previous.files, changed, files), now.root),
       changes |-> changed]
=============================================================================
