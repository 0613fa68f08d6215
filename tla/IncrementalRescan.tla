-------------------------- MODULE IncrementalRescan --------------------------
(***************************************************************************)
(* Scans and incremental rescans of a directory tree that changes between  *)
(* them.  A scan numbers what it finds anew each time and may miss the     *)
(* record of a directory whose files it reports.                           *)
(***************************************************************************)
EXTENDS IncrementalMerge, TLC

CONSTANTS
  DirNames,   (* names of the directories under the root                    *)
  Names,      (* names of files                                             *)
  Data,       (* what else a file record may hold                           *)
  Backend,    (* what scans: "walk" or "mft"                                *)
  MaxFiles,   (* bound: files a scan sees                                   *)
  Rescans     (* bound: rescans after the first scan                        *)

ASSUME RescanAssumption ==
  /\ MaxFiles \in Nat /\ Rescans \in Nat /\ Backend \in {"walk", "mft"}
  /\ "root" \notin DirNames /\ IsFiniteSet(DirNames) /\ IsFiniteSet(Names)

VARIABLES
  state,      (* the repository's catalog                                   *)
  world,      (* what the last scan saw: its files, each with its directory *)
              (* and data, the directories, and those whose record it missed*)
  changes,    (* the change set of the last rescan                          *)
  rescans     (* rescans so far                                             *)

vars == <<state, world, changes, rescans>>

-----------------------------------------------------------------------------
(* What a scan sends (external: the tree on the disk).  The directory walk *)
(* leaves the volume's root reference at 0, the master file table reader   *)
(* sets it.                                                                *)
Worlds ==
  UNION {UNION {[dirs : {ds}, lost : SUBSET ds, files : [F -> Data]] :
                  F \in {G \in SUBSET (({"root"} \cup ds) \X Names) : Cardinality(G) <= MaxFiles}} :
           ds \in SUBSET DirNames}

DirPath(d) == IF d = "root" THEN <<"root">> ELSE <<"root", d>>

(* The root is number 5, other directories follow in any order; files are  *)
(* numbered from 1, in any order.                                          *)
RootId == 5
DirNumberings(ds) ==
  {[d \in {"root"} \cup ds |-> IF d = "root" THEN RootId ELSE RootId + n[d]] :
     n \in Bijection(ds, 1..Cardinality(ds))}
FileNumberings(F) == Bijection(F, 1..Cardinality(F))

(* The transaction of a scan of w, given its numbering of directories and  *)
(* files.                                                                  *)
Scan(w, dnum, fnum) ==
  LET known == ({"root"} \cup w.dirs) \ w.lost
      dirAt(n) == CHOOSE e \in known : dnum[e] = n
      fileAt(n) == CHOOSE f \in DOMAIN w.files : fnum[f] = n
  IN  Catalog([n \in {dnum[e] : e \in known} |->
                 [parent |-> IF dirAt(n) = "root" THEN NoId ELSE RootId,
                  path |-> DirPath(dirAt(n))]],
              [n \in Range(fnum) |->
                 [name |-> fileAt(n)[2], parent |-> dnum[fileAt(n)[1]],
                  data |-> w.files[fileAt(n)], path |-> <<>>]],
              IF Backend = "walk" THEN 0 ELSE RootId)

-----------------------------------------------------------------------------
(* A full scan replaces the catalog. *)
Init ==
  /\ world \in Worlds
  /\ \E dnum \in DirNumberings(world.dirs), fnum \in FileNumberings(DOMAIN world.files) :
       state = Scan(world, dnum, fnum)
  /\ changes = <<>>
  /\ rescans = 0

Rescan ==
  /\ rescans < Rescans
  /\ rescans' = rescans + 1
  /\ world' \in Worlds
  /\ \E dnum \in DirNumberings(world'.dirs), fnum \in FileNumberings(DOMAIN world'.files) :
       LET merged == Merge(state, Scan(world', dnum, fnum))
       IN  state' = merged.catalog /\ changes' = merged.changes

Next == Rescan

Spec == Init /\ [][Next]_vars

-----------------------------------------------------------------------------
(* What the scan saw, as the catalog would show it: a file whose directory *)
(* record is missing has only its name.                                    *)
Seen(w) == {[path |-> IF f[1] \in w.lost THEN <<f[2]>> ELSE Append(DirPath(f[1]), f[2]),
             data |-> w.files[f]] : f \in DOMAIN w.files}

(* No two files of a scan look the same. *)
Distinct(w) == Cardinality({r.path : r \in Seen(w)}) = Cardinality(DOMAIN w.files)

(* What the catalog shows: paths through the parents, whatever path the    *)
(* record stores.                                                          *)
Shown(c) == {[path |-> FullPath(c.dirs, [c.files[i] EXCEPT !.path = <<>>]),
              data |-> c.files[i].data] : i \in DOMAIN c.files}

(* The type invariant. *)
TypeOK ==
  /\ \A i \in DOMAIN state.files :
       state.files[i].name \in Names /\ state.files[i].data \in Data /\ state.files[i].parent # NoId
  /\ \A i \in DOMAIN state.dirs : i # NoId
  /\ \A i \in DOMAIN changes : changes[i] \in {"added", "removed", "modified", "renamed", "moved"}
  /\ world \in Worlds /\ rescans \in 0..Rescans

(* The merged catalog is what the last scan saw: no removed file survives, *)
(* no file is lost, each is under its own directory, and a file whose      *)
(* directory is unknown is not shown under another one.                    *)
CatalogIsScan ==
  /\ {state.dirs[i].path : i \in DOMAIN state.dirs}
        = {DirPath(d) : d \in ({"root"} \cup world.dirs) \ world.lost}
  /\ Distinct(world) => Shown(state) = Seen(world)
  /\ state.root \in DOMAIN state.dirs <=> Backend = "mft"

(* Stored and derived paths agree, and directories hang on the root. *)
PathsAgree ==
  /\ \A i \in DOMAIN state.files :
       FullPath(state.dirs, state.files[i]) = FullPath(state.dirs, [state.files[i] EXCEPT !.path = <<>>])
  /\ \A i \in DOMAIN state.dirs :
       state.dirs[i].parent = (IF state.dirs[i].path = DirPath("root") THEN NoId ELSE RootId)

PathOf(c, i) == FullPath(c.dirs, c.files[i])
Ids(c, p) == {i \in DOMAIN c.files : PathOf(c, i) = p}
Paths(c) == {PathOf(c, i) : i \in DOMAIN c.files}

(* Identifiers are stable: a path that is in two consecutive catalogs has  *)
(* the same identifier in both, whatever number the scan gave it.          *)
IdsStable == [][\A p \in Paths(state) \cap Paths(state') :
                  Distinct(world) /\ Distinct(world') => Ids(state, p) = Ids(state', p)]_vars

(* The change set is exact: added and removed are the paths that came and  *)
(* went, modified those with other data, and an unchanged file is in none, *)
(* so that the numbering of a scan makes no false moves.                   *)
ChangesExact ==
  [][Distinct(world) /\ Distinct(world') /\ world.lost = {} /\ world'.lost = {} =>
       LET kind(k) == {i \in DOMAIN changes' : changes'[i] = k}
       IN  /\ {PathOf(state', i) : i \in kind("added")} = Paths(state') \ Paths(state)
           /\ {PathOf(state, i) : i \in kind("removed")} = Paths(state) \ Paths(state')
           /\ {PathOf(state', i) : i \in kind("modified")}
                = {p \in Paths(state) \cap Paths(state') :
                     \A d \in Data : [path |-> p, data |-> d] \notin Seen(world) \cap Seen(world')}
           /\ kind("moved") = {} /\ kind("renamed") = {}]_vars

(* Directory names and file data are interchangeable. *)
Symmetries == Permutations(DirNames) \cup Permutations(Data)
=============================================================================
