----------------------- MODULE IncrementalRescanProofs -----------------------
(***************************************************************************)
(* What the merge does to any two catalogs, and that a catalog merged from *)
(* any scans shows what the last of them saw.  Identifiers are bounded     *)
(* (they are 64-bit in the code): b is any bound.                          *)
(***************************************************************************)
EXTENDS IncrementalRescan, TLAPS, FiniteSetTheorems, FunctionTheorems

-----------------------------------------------------------------------------
(* A bounded, nonempty set of natural numbers has a largest element. *)
LEMMA MaxBounded ==
  ASSUME NEW b \in Nat, NEW S \in SUBSET (0..b), S # {}
  PROVE  /\ Max(S) \in S
         /\ \A y \in S : y <= Max(S)
<1> DEFINE D == {n \in Nat : b - n \in S}
<1>1. D # {}
  <2>1. PICK x \in S : TRUE
    OBVIOUS
  <2>2. b - x \in Nat /\ b - (b - x) = x
    BY <2>1
  <2> QED BY <2>1, <2>2
<1>2. PICK n \in D : \A k \in D : ~(<<k, n>> \in OpToRel(<, Nat))
  BY <1>1, WFMin, NatLessThanWellFounded
<1>3. \A k \in D : n <= k
  <2> SUFFICES ASSUME NEW k \in D, ~(n <= k) PROVE FALSE
    OBVIOUS
  <2>1. <<k, n>> \in OpToRel(<, Nat)
    BY DEF OpToRel
  <2> QED BY <2>1, <1>2
<1>4. b - n \in S /\ \A y \in S : y <= b - n
  <2>1. \A y \in S : b - y \in D
    <3> TAKE y \in S
    <3>1. y \in Int /\ b - y \in Nat /\ b - (b - y) = y
      OBVIOUS
    <3> QED BY <3>1
  <2>2. \A y \in S : y <= b - n
    <3> TAKE y \in S
    <3>1. n <= b - y /\ y \in Int
      BY <2>1, <1>3
    <3> QED BY <3>1
  <2> QED BY <2>2
<1> QED BY <1>4 DEF Max

(* A new identifier is above all used ones, and no two are the same. *)
LEMMA FreshIsNew ==
  ASSUME NEW b \in Nat, NEW used \in SUBSET (0..b), NEW needing \in SUBSET (0..b),
         NEW i \in needing
  PROVE  /\ Fresh(used, needing, i) \in Nat
         /\ Fresh(used, needing, i) <= 2 * b + 2
         /\ \A u \in used : u < Fresh(used, needing, i)
         /\ \A j \in needing : i # j => Fresh(used, needing, i) # Fresh(used, needing, j)
<1> DEFINE Below(k) == {j \in needing : j < k}
           top == Max(used \cup {0})
<1>1. top \in 0..b /\ \A u \in used : u <= top
  BY MaxBounded, used \cup {0} \in SUBSET (0..b)
<1>2. \A k : /\ IsFiniteSet(Below(k)) /\ Cardinality(Below(k)) \in Nat
             /\ Cardinality(Below(k)) <= b + 1
  <2> TAKE k
  <2>1. IsFiniteSet(0..b) /\ Cardinality(0..b) = b + 1
    BY FS_Interval
  <2>2. Below(k) \in SUBSET (0..b)
    OBVIOUS
  <2>3. IsFiniteSet(Below(k)) /\ Cardinality(Below(k)) <= b + 1
    BY <2>1, <2>2, FS_Subset
  <2> QED BY <2>3, FS_CardinalityType
<1>3. \A k, l \in needing : k < l => Cardinality(Below(k)) # Cardinality(Below(l))
  <2> SUFFICES ASSUME NEW k \in needing, NEW l \in needing, k < l,
                      Cardinality(Below(k)) = Cardinality(Below(l))
               PROVE  FALSE
    OBVIOUS
  <2>1. Below(k) \in SUBSET Below(l) /\ k \in Below(l) /\ k \notin Below(k)
    <3>1. \A j \in needing : j \in Int
      OBVIOUS
    <3>2. \A j \in needing : j < k => j < l
      BY <3>1
    <3>3. Below(k) \in SUBSET Below(l)
      BY <3>2, Zenon
    <3>4. ~(k < k)
      BY <3>1
    <3>5. k \in Below(l) /\ k \notin Below(k)
      BY <3>4, Zenon
    <3> QED BY <3>3, <3>5
  <2> QED BY <2>1, <1>2, FS_Subset
<1>4. \A k : Fresh(used, needing, k) = top + 1 + Cardinality(Below(k))
  BY DEF Fresh
<1>5. ASSUME NEW j \in needing, i # j
      PROVE  Fresh(used, needing, i) # Fresh(used, needing, j)
  <2>1. Cardinality(Below(i)) # Cardinality(Below(j))
    BY <1>3, <1>5, i < j \/ j < i
  <2> HIDE DEF Below
  <2> QED BY <2>1, <1>1, <1>2, <1>4
<1>6. /\ Fresh(used, needing, i) \in Nat
      /\ Fresh(used, needing, i) <= 2 * b + 2
      /\ \A u \in used : u < Fresh(used, needing, i)
  <2> HIDE DEF Below
  <2> QED BY <1>1, <1>2, <1>4
<1> QED BY <1>5, <1>6

-----------------------------------------------------------------------------
(* Records numbered by the path they had in `previous`. *)
ByPath(previous, records, used, id) ==
  LET new == {i \in DOMAIN records : At(previous, records[i].path) = {}}
  IN  \A i \in DOMAIN records :
        id[i] = IF i \in new THEN Fresh(used, new, i) ELSE Max(At(previous, records[i].path))

(* A path that was in `previous` keeps an identifier it had there, another *)
(* one gets an identifier that was not there, and only records of the same *)
(* path share an identifier.                                               *)
Kept(b, previous, records, id) ==
  \A i \in DOMAIN records :
    /\ id[i] \in 0..(2 * b + 2)
    /\ IF At(previous, records[i].path) = {} THEN id[i] \notin DOMAIN previous
       ELSE id[i] \in DOMAIN previous /\ previous[id[i]].path = records[i].path
    /\ \A j \in DOMAIN records : id[i] = id[j] => records[i].path = records[j].path

LEMMA NumberedByPath ==
  ASSUME NEW b \in Nat, NEW previous, NEW records, NEW used \in SUBSET (0..b), NEW id,
         DOMAIN previous \subseteq used, DOMAIN records \in SUBSET (0..b),
         ByPath(previous, records, used, id)
  PROVE  Kept(b, previous, records, id)
<1> DEFINE new == {i \in DOMAIN records : At(previous, records[i].path) = {}}
<1>0. \A i \in DOMAIN records :
        id[i] = IF i \in new THEN Fresh(used, new, i) ELSE Max(At(previous, records[i].path))
  BY DEF ByPath
<1>1. ASSUME NEW i \in DOMAIN records, i \notin new
      PROVE  id[i] \in DOMAIN previous /\ previous[id[i]].path = records[i].path
  <2>1. At(previous, records[i].path) \in SUBSET (0..b) /\ At(previous, records[i].path) # {}
    BY <1>1 DEF At
  <2>2. Max(At(previous, records[i].path)) \in At(previous, records[i].path)
    BY <2>1, MaxBounded
  <2> QED BY <2>2, <1>0, <1>1 DEF At
<1>2. ASSUME NEW i \in new
      PROVE  /\ id[i] \notin used /\ id[i] \in 0..(2 * b + 2)
             /\ \A j \in new : i # j => id[i] # id[j]
  <2>1. new \in SUBSET (0..b) /\ i \in DOMAIN records
    OBVIOUS
  <2>2. /\ \A u \in used : u < Fresh(used, new, i)
        /\ Fresh(used, new, i) \in Nat /\ Fresh(used, new, i) <= 2 * b + 2
        /\ \A j \in new : i # j => Fresh(used, new, i) # Fresh(used, new, j)
    BY <2>1, FreshIsNew
  <2>3. Fresh(used, new, i) \notin used
    BY <2>2
  <2>4. id[i] = Fresh(used, new, i) /\ \A j \in new : id[j] = Fresh(used, new, j)
    BY <1>0, <1>2
  <2>5. id[i] \notin used /\ id[i] \in Nat /\ id[i] <= 2 * b + 2
    BY <2>2, <2>3, <2>4
  <2>6. \A j \in new : i # j => id[i] # id[j]
    BY <2>2, <2>4, Zenon
  <2> QED BY <2>5, <2>6
<1>3. ASSUME NEW i \in DOMAIN records PROVE id[i] \in 0..(2 * b + 2)
  <2>1. CASE i \in new
    BY <1>2, <2>1
  <2>2. CASE i \notin new
    <3>1. id[i] \in 0..b
      BY <1>1, <1>3, <2>2
    <3> QED BY <3>1
  <2> QED BY <2>1, <2>2
<1>4. ASSUME NEW i \in DOMAIN records, NEW j \in DOMAIN records, id[i] = id[j]
      PROVE  records[i].path = records[j].path
  <2>1. CASE i \in new \/ j \in new
    BY <2>1, <1>1, <1>2, <1>4
  <2>2. CASE i \notin new /\ j \notin new
    BY <2>2, <1>1, <1>4
  <2> QED BY <2>1, <2>2
<1> QED BY <1>1, <1>2, <1>3, <1>4 DEF Kept

LEMMA FileIdsKept ==
  ASSUME NEW b \in Nat, NEW previous, NEW current,
         DOMAIN previous \in SUBSET (0..b), DOMAIN current \in SUBSET (0..b)
  PROVE  Kept(b, previous, current, FileIds(previous, current))
<1> DEFINE used == DOMAIN previous \cup DOMAIN current
           id == FileIds(previous, current)
<1>1. ByPath(previous, current, used, id)
  BY DEF FileIds, ByPath
<1>2. used \in SUBSET (0..b) /\ DOMAIN previous \subseteq used
  OBVIOUS
<1> HIDE DEF used, id
<1>3. Kept(b, previous, current, id)
  BY <1>1, <1>2, NumberedByPath, Zenon
<1> QED BY <1>3 DEF id

(* No file is lost by the renumbering: if no two files of the scan have    *)
(* the same path, no two get the same identifier                           *)
(* (remap_current_files_by_path).                                          *)
THEOREM FileIdsDistinct ==
  ASSUME NEW b \in Nat, NEW previous, NEW current,
         DOMAIN previous \in SUBSET (0..b), DOMAIN current \in SUBSET (0..b),
         \A i, j \in DOMAIN current : current[i].path = current[j].path => i = j
  PROVE  \A i, j \in DOMAIN current :
           FileIds(previous, current)[i] = FileIds(previous, current)[j] => i = j
<1> DEFINE id == FileIds(previous, current)
<1>1. Kept(b, previous, current, id)
  BY FileIdsKept
<1> HIDE DEF id
<1>2. \A i, j \in DOMAIN current : id[i] = id[j] => current[i].path = current[j].path
  BY <1>1 DEF Kept
<1> QED BY <1>2 DEF id

(* A dangling reference stays dangling: after the renumbering it is        *)
(* neither an earlier directory nor one of the scan                        *)
(* (remap_current_directory_ids_by_path).                                  *)
THEOREM DanglingStaysDangling ==
  ASSUME NEW b \in Nat, NEW previous, NEW ds, NEW fs, NEW root,
         DOMAIN previous \in SUBSET (0..b),
         DOMAIN ds \cup References(ds, fs, root) \in SUBSET (0..b),
         NEW r \in References(ds, fs, root) \ DOMAIN ds
  PROVE  LET ids == DirectoryIds(previous, ds, fs, root)
         IN  /\ ids[r] \in Nat /\ ids[r] \notin DOMAIN previous
             /\ \A i \in DOMAIN ds : ids[i] # ids[r]
<1> DEFINE refs == References(ds, fs, root)
           used == DOMAIN previous \cup DOMAIN ds \cup refs
           new == {i \in DOMAIN ds : At(previous, ds[i].path) = {} \/ ds[i].path = <<>>}
           own == [i \in DOMAIN ds |-> IF i \in new THEN Fresh(used, new, i)
                                       ELSE Max(At(previous, ds[i].path))]
           dangling == refs \ DOMAIN ds
           moved == {s \in dangling : s \in DOMAIN previous \/ s \in Range(own)}
           ids == DirectoryIds(previous, ds, fs, root)
<1>1. ids = [i \in DOMAIN ds \cup dangling |->
               IF i \in DOMAIN ds THEN own[i]
               ELSE IF i \in moved THEN Fresh(used \cup Range(own), moved, i) ELSE i]
  BY DEF DirectoryIds
<1>2. used \in SUBSET (0..b) /\ new \in SUBSET (0..b) /\ moved \in SUBSET (0..b)
  OBVIOUS
<1>3. \A i \in DOMAIN ds : own[i] \in 0..(2 * b + 2)
  <2> SUFFICES ASSUME NEW i \in DOMAIN ds PROVE own[i] \in 0..(2 * b + 2)
    OBVIOUS
  <2>1. CASE i \in new
    <3>1. Fresh(used, new, i) \in 0..(2 * b + 2)
      <4> HIDE DEF used, new
      <4>1. Fresh(used, new, i) \in Nat /\ Fresh(used, new, i) <= 2 * b + 2
        BY <1>2, <2>1, FreshIsNew
      <4> QED BY <4>1
    <3> QED BY <3>1, <2>1
  <2>2. CASE i \notin new
    <3>1. At(previous, ds[i].path) \in SUBSET (0..b) /\ At(previous, ds[i].path) # {}
      BY <2>2 DEF At
    <3>2. Max(At(previous, ds[i].path)) \in 0..b
      BY <3>1, MaxBounded
    <3> QED BY <3>2, <2>2
  <2> QED BY <2>1, <2>2
<1>4. /\ 2 * b + 2 \in Nat
      /\ used \cup Range(own) \in SUBSET (0..(2 * b + 2))
      /\ moved \in SUBSET (0..(2 * b + 2))
  <2>1. Range(own) \in SUBSET (0..(2 * b + 2))
    <3> HIDE DEF own
    <3>1. DOMAIN own = DOMAIN ds
      BY DEF own
    <3> QED BY <1>3, <3>1 DEF Range
  <2>2. 0..b \subseteq 0..(2 * b + 2)
    OBVIOUS
  <2>3. 2 * b + 2 \in Nat
    OBVIOUS
  <2> HIDE DEF used, own, moved
  <2>4. ASSUME NEW S \in SUBSET (0..b) PROVE S \in SUBSET (0..(2 * b + 2))
    BY <2>2
  <2>5. used \in SUBSET (0..(2 * b + 2)) /\ moved \in SUBSET (0..(2 * b + 2))
    BY <1>2, <2>4
  <2> QED BY <2>1, <2>3, <2>5
<1>5. \A i \in DOMAIN ds : ids[i] = own[i] /\ own[i] \in Range(own)
  BY <1>1 DEF Range
<1>6. r \in dangling /\ r \notin DOMAIN ds /\ DOMAIN previous \subseteq used
  OBVIOUS
<1>7. CASE r \in moved
  <2>1. ids[r] = Fresh(used \cup Range(own), moved, r)
    BY <1>1, <1>6, <1>7
  <2> HIDE DEF used, own, moved, ids, dangling
  <2>2. /\ Fresh(used \cup Range(own), moved, r) \in Nat
        /\ \A u \in used \cup Range(own) : u < Fresh(used \cup Range(own), moved, r)
    BY <1>4, <1>7, FreshIsNew
  <2>3. Fresh(used \cup Range(own), moved, r) \notin used \cup Range(own)
    BY <2>2, <1>4
  <2>4. ids[r] \in Nat /\ ids[r] \notin DOMAIN previous /\ \A i \in DOMAIN ds : ids[i] # ids[r]
    BY <2>1, <2>2, <2>3, <1>5, <1>6
  <2> QED BY <2>4 DEF ids
<1>8. CASE r \notin moved
  <2>1. ids[r] = r
    BY <1>1, <1>6, <1>8
  <2>2. r \in Nat /\ r \notin DOMAIN previous /\ r \notin Range(own)
    BY <1>6, <1>8
  <2> HIDE DEF own, ids
  <2>3. ids[r] \in Nat /\ ids[r] \notin DOMAIN previous /\ \A i \in DOMAIN ds : ids[i] # ids[r]
    BY <2>1, <2>2, <1>5
  <2> QED BY <2>3 DEF ids
<1> QED BY <1>7, <1>8

-----------------------------------------------------------------------------
(* The change set, applied to the files it was computed from, yields the   *)
(* files of the scan: none is left over, none is missing, and each has the *)
(* scan's name, parent and data (diff_file_records and                     *)
(* apply_incremental_files).                                               *)
THEOREM MergeIsCurrent ==
  ASSUME NEW files, NEW before, NEW now,
         DOMAIN files = DOMAIN before,
         \A i \in DOMAIN files : Same(files[i], before[i])
  PROVE  LET merged == Apply(files, Diff(before, now), now)
         IN  /\ DOMAIN merged = DOMAIN now
             /\ \A i \in DOMAIN now : Same(merged[i], now[i])
<1> DEFINE changed == Diff(before, now)
           merged == Apply(files, changed, now)
<1>1. /\ DOMAIN changed = {i \in DOMAIN before \cup DOMAIN now :
                 i \in DOMAIN before /\ i \in DOMAIN now => ~Same(before[i], now[i])}
      /\ \A i \in DOMAIN changed : changed[i] = "removed" <=> i \notin DOMAIN now
  BY DEF Diff, Kind
<1> HIDE DEF changed
<1>2. DOMAIN merged = (DOMAIN files \cup DOMAIN changed)
                        \ {j \in DOMAIN changed : changed[j] = "removed"}
  BY DEF Apply
<1>3. DOMAIN merged = DOMAIN now
  <2> HIDE DEF merged
  <2> QED BY <1>1, <1>2
<1>4. ASSUME NEW i \in DOMAIN now PROVE Same(merged[i], now[i])
  <2>1. merged[i] = IF i \in DOMAIN changed THEN now[i] ELSE files[i]
    BY <1>2, <1>3, <1>4 DEF Apply
  <2>2. CASE i \in DOMAIN changed
    BY <2>1, <2>2 DEF Same
  <2>3. CASE i \notin DOMAIN changed
    <3>1. i \in DOMAIN before /\ Same(before[i], now[i])
      BY <1>1, <1>4, <2>3
    <3> QED BY <2>1, <2>3, <3>1 DEF Same
  <2> QED BY <2>2, <2>3
<1> QED BY <1>3, <1>4 DEF changed
-----------------------------------------------------------------------------
(* What a catalog shows of a scan. *)

(* The directories whose record the scan has. *)
Known(w) == ({"root"} \cup w.dirs) \ w.lost
DirRecord(e) == [parent |-> IF e = "root" THEN NoId ELSE RootId, path |-> DirPath(e)]
PathSeen(w, f) == IF f[1] \in w.lost THEN <<f[2]>> ELSE Append(DirPath(f[1]), f[2])

Atoms == {"root"} \cup DirNames \cup Names
FileRecord == [name : Names, parent : Int, data : Data, path : Seq(Atoms)]

(* Identifiers are natural numbers with a largest one. *)
Bounded(S) == Max(S \cup {0}) \in Nat /\ S \subseteq 0..Max(S \cup {0})

(* A record is that of the file f of a scan: its parent is the record of   *)
(* the file's directory, or none where the scan missed it, and a path that *)
(* is stored is the file's.                                                *)
Holds(ds, r, w, f) ==
  /\ r \in FileRecord /\ r.name = f[2] /\ r.data = w.files[f]
  /\ r.path = <<>> \/ r.path = PathSeen(w, f)
  /\ r.parent # NoId
  /\ IF f[1] \in w.lost THEN r.parent \notin DOMAIN ds
     ELSE r.parent \in DOMAIN ds /\ ds[r.parent].path = DirPath(f[1])

DirsDepict(ds, w) ==
  /\ \A i \in DOMAIN ds : \E e \in Known(w) : ds[i] = DirRecord(e)
  /\ \A e \in Known(w) : \E i \in DOMAIN ds : ds[i].path = DirPath(e)
  /\ \A i, j \in DOMAIN ds : ds[i].path = ds[j].path => i = j
  /\ RootId \in DOMAIN ds /\ ds[RootId].path = DirPath("root")

FilesDepict(ds, fs, w) ==
  /\ \A k \in DOMAIN fs : \E f \in DOMAIN w.files : Holds(ds, fs[k], w, f)
  /\ \A f \in DOMAIN w.files : \E k \in DOMAIN fs : FullPath(ds, fs[k]) = PathSeen(w, f)
  /\ Distinct(w) =>
       \A k, l \in DOMAIN fs : FullPath(ds, fs[k]) = FullPath(ds, fs[l]) => k = l

Depicts(c, w) ==
  /\ Bounded(DOMAIN c.dirs) /\ Bounded(DOMAIN c.files)
  /\ DirsDepict(c.dirs, w) /\ FilesDepict(c.dirs, c.files, w)
  /\ c.root \in DOMAIN c.dirs <=> Backend = "mft"

Kinds == {"added", "removed", "modified", "renamed", "moved"}
RescanInv ==
  /\ world \in Worlds /\ rescans \in 0..Rescans
  /\ \A i \in DOMAIN changes : changes[i] \in Kinds
  /\ Depicts(state, world)

-----------------------------------------------------------------------------
(* Paths, scans and their numbers. *)

LEMMA DirPathFacts ==
  ASSUME NEW d \in {"root"} \cup DirNames
  PROVE  /\ DirPath(d) \in Seq(Atoms) /\ DirPath(d) # <<>>
         /\ Len(DirPath(d)) = IF d = "root" THEN 1 ELSE 2
         /\ d # "root" => DirPath(d)[2] = d
         /\ \A e \in {"root"} \cup DirNames : DirPath(d) = DirPath(e) => d = e
<1>1. d \in Atoms /\ "root" \in Atoms
  BY DEF Atoms
<1>2. DirPath(d) \in Seq(Atoms)
  <2> HIDE DEF Atoms
  <2>1. <<"root">> \in Seq(Atoms) /\ <<"root", d>> \in Seq(Atoms)
    BY <1>1
  <2> QED BY <2>1 DEF DirPath
<1>3. \A e \in {"root"} \cup DirNames :
        /\ e = "root" => Len(DirPath(e)) = 1
        /\ e # "root" => Len(DirPath(e)) = 2 /\ DirPath(e)[2] = e
  BY DEF DirPath
<1>4. DirPath(d) # <<>>
  BY DEF DirPath
<1> HIDE DEF DirPath, Atoms
<1>5. ASSUME NEW e \in {"root"} \cup DirNames, DirPath(d) = DirPath(e) PROVE d = e
  <2>1. Len(DirPath(d)) = Len(DirPath(e)) /\ DirPath(d)[2] = DirPath(e)[2]
    BY <1>5
  <2>2. CASE d = "root" \/ e = "root"
    <3>1. 1 # 2
      OBVIOUS
    <3>2. d = "root" /\ e = "root"
      BY <1>3, <2>1, <2>2, <3>1, Zenon
    <3> QED BY <3>2
  <2>3. CASE d # "root" /\ e # "root"
    BY <1>3, <2>1, <2>3, Zenon
  <2> QED BY <2>2, <2>3
<1>6. Len(DirPath(d)) = IF d = "root" THEN 1 ELSE 2
  BY <1>3
<1>7. d # "root" => DirPath(d)[2] = d
  BY <1>3
<1> QED BY <1>2, <1>4, <1>5, <1>6, <1>7

LEMMA PathFacts ==
  ASSUME NEW d \in {"root"} \cup DirNames, NEW n \in Names
  PROVE  /\ Append(DirPath(d), n) \in Seq(Atoms) /\ Append(DirPath(d), n) # <<>>
         /\ <<n>> \in Seq(Atoms) /\ <<n>> # <<>>
         /\ \A m : Append(DirPath(d), n) # <<m>>
         /\ \A e \in {"root"} \cup DirNames, m \in Names :
              Append(DirPath(d), n) = Append(DirPath(e), m) => d = e /\ n = m
<1> DEFINE D == {"root"} \cup DirNames
<1>1. \A e \in D : /\ DirPath(e) \in Seq(Atoms)
                   /\ Len(DirPath(e)) = IF e = "root" THEN 1 ELSE 2
                   /\ e # "root" => DirPath(e)[2] = e
  BY DirPathFacts
<1> HIDE DEF DirPath
<1>2. ASSUME NEW e \in D, NEW m \in Names
      PROVE  /\ Append(DirPath(e), m) \in Seq(Atoms)
             /\ Len(Append(DirPath(e), m)) = Len(DirPath(e)) + 1
             /\ Append(DirPath(e), m)[Len(DirPath(e)) + 1] = m
             /\ \A i \in 1..Len(DirPath(e)) : Append(DirPath(e), m)[i] = DirPath(e)[i]
  <2>1. DirPath(e) \in Seq(Atoms) /\ m \in Atoms
    BY <1>1 DEF Atoms
  <2> HIDE DEF Atoms, D
  <2> QED BY <2>1
<1>3. <<n>> \in Seq(Atoms) /\ Len(<<>>) = 0 /\ \A m : Len(<<m>>) = 1
  <2>1. n \in Atoms
    BY DEF Atoms
  <2> HIDE DEF Atoms
  <2> QED BY <2>1
<1> HIDE DEF Atoms
<1>4. Len(DirPath(d)) \in {1, 2}
  BY <1>1
<1>5. Append(DirPath(d), n) # <<>> /\ <<n>> # <<>> /\ \A m : Append(DirPath(d), n) # <<m>>
  <2> DEFINE short == Len(DirPath(d))
             long == Len(Append(DirPath(d), n))
  <2>1. long = short + 1 /\ short \in {1, 2}
    BY <1>2, <1>4
  <2> HIDE DEF short, long
  <2>2. long # 0 /\ long # 1 /\ 0 # 1
    BY <2>1
  <2> QED BY <1>3, <2>2, Zenon DEF long
<1>6. ASSUME NEW e \in D, NEW m \in Names, Append(DirPath(d), n) = Append(DirPath(e), m)
      PROVE  d = e /\ n = m
  <2>1. Len(DirPath(d)) = Len(DirPath(e))
    <3>1. Len(DirPath(d)) + 1 = Len(DirPath(e)) + 1 /\ Len(DirPath(e)) \in {1, 2}
      BY <1>1, <1>2, <1>6
    <3> QED BY <1>4, <3>1
  <2>2. n = m
    BY <1>2, <1>6, <2>1
  <2>3. d = "root" <=> e = "root"
    BY <1>1, <2>1
  <2>4. ASSUME d # "root" PROVE d = e
    <3>1. 2 \in 1..Len(DirPath(d)) /\ 2 \in 1..Len(DirPath(e)) /\ e # "root"
      BY <1>1, <2>3, <2>4
    <3>2. Append(DirPath(d), n)[2] = d /\ Append(DirPath(e), m)[2] = e
      BY <1>1, <1>2, <2>4, <3>1
    <3> QED BY <1>6, <3>2
  <2> QED BY <2>2, <2>3, <2>4
<1> QED BY <1>2, <1>3, <1>5, <1>6

LEMMA PathParts ==
  ASSUME NEW d \in {"root"} \cup DirNames, NEW n \in Names,
         NEW e \in {"root"} \cup DirNames, NEW m \in Names,
         Append(DirPath(d), n) = Append(DirPath(e), m)
  PROVE  d = e /\ n = m
BY PathFacts

LEMMA WorldFacts ==
  ASSUME NEW w \in Worlds
  PROVE  /\ w.dirs \subseteq DirNames /\ w.lost \subseteq w.dirs /\ "root" \in Known(w)
         /\ DOMAIN w.files \subseteq ({"root"} \cup w.dirs) \X Names
         /\ IsFiniteSet(w.dirs) /\ IsFiniteSet(DOMAIN w.files)
         /\ \A f \in DOMAIN w.files : w.files[f] \in Data
<1>1. PICK ds \in SUBSET DirNames :
        w \in UNION {[dirs : {ds}, lost : SUBSET ds, files : [F -> Data]] :
                       F \in {G \in SUBSET (({"root"} \cup ds) \X Names) : Cardinality(G) <= MaxFiles}}
  BY DEF Worlds
<1>2. PICK F \in SUBSET (({"root"} \cup ds) \X Names) :
        w \in [dirs : {ds}, lost : SUBSET ds, files : [F -> Data]]
  BY <1>1
<1>3. w.dirs = ds /\ w.lost \in SUBSET ds /\ w.files \in [F -> Data]
  BY <1>2
<1>4. IsFiniteSet(ds) /\ IsFiniteSet(F)
  <2>1. IsFiniteSet(ds)
    BY FS_Subset, RescanAssumption
  <2>2. IsFiniteSet({"root"} \cup ds)
    BY <2>1, FS_AddElement, {"root"} \cup ds = ds \cup {"root"}
  <2>3. IsFiniteSet(({"root"} \cup ds) \X Names)
    BY <2>2, FS_Product, RescanAssumption
  <2> QED BY <2>1, <2>3, FS_Subset
<1> QED BY <1>3, <1>4, RescanAssumption DEF Known

LEMMA NumberFacts ==
  ASSUME NEW w \in Worlds, NEW dnum \in DirNumberings(w.dirs),
         NEW fnum \in FileNumberings(DOMAIN w.files)
  PROVE  /\ dnum["root"] = RootId
         /\ \A d, e \in {"root"} \cup w.dirs : dnum[d] = dnum[e] => d = e
         /\ \A f, g \in DOMAIN w.files : fnum[f] = fnum[g] => f = g
         /\ DOMAIN fnum = DOMAIN w.files
         /\ \E b \in Nat : /\ \A d \in {"root"} \cup w.dirs : dnum[d] \in 1..b
                           /\ \A f \in DOMAIN w.files : fnum[f] \in 1..b
<1> DEFINE D == w.dirs
           F == DOMAIN w.files
           m == Cardinality(D)
           k == Cardinality(F)
<1>1. m \in Nat /\ k \in Nat /\ D \subseteq DirNames /\ "root" \notin D
  BY WorldFacts, FS_CardinalityType, RescanAssumption
<1>2. PICK n \in Bijection(D, 1..m) :
        dnum = [d \in {"root"} \cup D |-> IF d = "root" THEN RootId ELSE RootId + n[d]]
  BY DEF DirNumberings
<1>3. fnum \in Bijection(F, 1..k)
  BY DEF FileNumberings
<1> HIDE DEF m, k, D, F
<1>4. n \in [D -> 1..m] /\ \A d, e \in D : n[d] = n[e] => d = e
  BY <1>2, Fun_BijectionProperties
<1>5. fnum \in [F -> 1..k] /\ \A f, g \in F : fnum[f] = fnum[g] => f = g
  BY <1>3, Fun_BijectionProperties
<1>6. dnum["root"] = RootId /\ \A d \in D : dnum[d] = RootId + n[d] /\ n[d] \in 1..m
  BY <1>1, <1>2, <1>4
<1>7. \A d, e \in {"root"} \cup D : dnum[d] = dnum[e] => d = e
  BY <1>1, <1>4, <1>6 DEF RootId
<1>8. \A d \in {"root"} \cup D : dnum[d] \in 1..(RootId + m + k)
  BY <1>1, <1>6 DEF RootId
<1>9. \A f \in F : fnum[f] \in 1..(RootId + m + k)
  <2>1. \A f \in F : fnum[f] \in 1..k
    BY <1>5
  <2> QED BY <1>1, <2>1 DEF RootId
<1>10. RootId + m + k \in Nat
  BY <1>1 DEF RootId
<1> QED BY <1>5, <1>6, <1>7, <1>8, <1>9, <1>10 DEF D, F

(* What a scan sends. *)
LEMMA ScanFacts ==
  ASSUME NEW w \in Worlds, NEW dnum \in DirNumberings(w.dirs),
         NEW fnum \in FileNumberings(DOMAIN w.files)
  PROVE  LET c == Scan(w, dnum, fnum)
         IN  /\ DOMAIN c.dirs = {dnum[e] : e \in Known(w)}
             /\ \A e \in Known(w) : c.dirs[dnum[e]] = DirRecord(e)
             /\ DOMAIN c.files = {fnum[f] : f \in DOMAIN w.files}
             /\ \A f \in DOMAIN w.files :
                  c.files[fnum[f]] = [name |-> f[2], parent |-> dnum[f[1]],
                                      data |-> w.files[f], path |-> <<>>]
             /\ c.root = IF Backend = "walk" THEN 0 ELSE RootId
<1> DEFINE c == Scan(w, dnum, fnum)
           dirAt(n) == CHOOSE e \in Known(w) : dnum[e] = n
           fileAt(n) == CHOOSE f \in DOMAIN w.files : fnum[f] = n
<1>1. /\ \A d, e \in Known(w) : dnum[d] = dnum[e] => d = e
      /\ \A f, g \in DOMAIN w.files : fnum[f] = fnum[g] => f = g
      /\ DOMAIN fnum = DOMAIN w.files
  <2>1. Known(w) \subseteq {"root"} \cup w.dirs
    BY DEF Known
  <2> QED BY <2>1, NumberFacts
<1>2. Range(fnum) = {fnum[f] : f \in DOMAIN w.files}
  BY <1>1 DEF Range
<1>3. \A e \in Known(w) : dirAt(dnum[e]) = e
  BY <1>1
<1>4. \A f \in DOMAIN w.files : fileAt(fnum[f]) = f
  BY <1>1
<1>5. /\ c.dirs = [n \in {dnum[e] : e \in Known(w)} |->
                     [parent |-> IF dirAt(n) = "root" THEN NoId ELSE RootId,
                      path |-> DirPath(dirAt(n))]]
      /\ c.files = [n \in Range(fnum) |->
                      [name |-> fileAt(n)[2], parent |-> dnum[fileAt(n)[1]],
                       data |-> w.files[fileAt(n)], path |-> <<>>]]
      /\ c.root = IF Backend = "walk" THEN 0 ELSE RootId
  BY DEF Scan, Catalog, Known
<1> HIDE DEF c, dirAt, fileAt
<1>6. \A e \in Known(w) : c.dirs[dnum[e]] = DirRecord(e)
  BY <1>3, <1>5 DEF DirRecord
<1>7. \A f \in DOMAIN w.files :
        c.files[fnum[f]] = [name |-> f[2], parent |-> dnum[f[1]],
                            data |-> w.files[f], path |-> <<>>]
  <2> SUFFICES ASSUME NEW f \in DOMAIN w.files
               PROVE  c.files[fnum[f]] = [name |-> f[2], parent |-> dnum[f[1]],
                                          data |-> w.files[f], path |-> <<>>]
    OBVIOUS
  <2>1. fnum[f] \in Range(fnum)
    BY <1>2
  <2> QED BY <1>4, <1>5, <2>1
<1> QED BY <1>2, <1>5, <1>6, <1>7 DEF c

LEMMA BoundedIs ==
  ASSUME NEW S
  PROVE  /\ \A b \in Nat : S \in SUBSET (0..b) => Bounded(S)
         /\ Bounded(S) => \E b \in Nat : S \in SUBSET (0..b)
<1>1. ASSUME NEW b \in Nat, S \in SUBSET (0..b) PROVE Bounded(S)
  <2>1. S \cup {0} \in SUBSET (0..b) /\ S \cup {0} # {}
    BY <1>1
  <2>2. Max(S \cup {0}) \in 0..b /\ \A y \in S \cup {0} : y <= Max(S \cup {0})
    BY <2>1, MaxBounded
  <2>3. \A y \in S : y \in 0..b /\ y <= Max(S \cup {0})
    BY <1>1, <2>2
  <2> QED BY <2>2, <2>3 DEF Bounded
<1> QED BY <1>1 DEF Bounded

(* The path of what a record holds, stored or derived. *)
LEMMA HoldsPath ==
  ASSUME NEW w \in Worlds, NEW f \in DOMAIN w.files
  PROVE  /\ PathSeen(w, f) \in Seq(Atoms) /\ PathSeen(w, f) # <<>>
         /\ \A ds, r : Holds(ds, r, w, f) =>
              /\ FullPath(ds, r) = PathSeen(w, f)
              /\ FullPath(ds, [r EXCEPT !.path = <<>>]) = PathSeen(w, f)
<1>1. f[1] \in {"root"} \cup DirNames /\ f[2] \in Names
  BY WorldFacts
<1>2. PathSeen(w, f) \in Seq(Atoms) /\ PathSeen(w, f) # <<>>
  BY <1>1, PathFacts DEF PathSeen
<1>3. ASSUME NEW ds, NEW r, Holds(ds, r, w, f)
      PROVE  /\ FullPath(ds, r) = PathSeen(w, f)
             /\ FullPath(ds, [r EXCEPT !.path = <<>>]) = PathSeen(w, f)
  <2> DEFINE derived == IF r.parent \in DOMAIN ds THEN Append(ds[r.parent].path, r.name) ELSE <<r.name>>
             bare == [r EXCEPT !.path = <<>>]
  <2>1. derived = PathSeen(w, f)
    BY <1>3 DEF Holds, PathSeen
  <2>2. bare.path = <<>> /\ bare.parent = r.parent /\ bare.name = r.name
    BY <1>3 DEF Holds, FileRecord
  <2>3. FullPath(ds, bare) = derived
    BY <2>2 DEF FullPath
  <2>4. r.path = <<>> \/ r.path = PathSeen(w, f)
    BY <1>3 DEF Holds
  <2>5. FullPath(ds, r) = PathSeen(w, f)
    BY <1>2, <2>1, <2>4 DEF FullPath
  <2> QED BY <2>1, <2>3, <2>5
<1> QED BY <1>2, <1>3

LEMMA StoredPath ==
  ASSUME NEW w \in Worlds, NEW f \in DOMAIN w.files, NEW ds, NEW r, Holds(ds, r, w, f)
  PROVE  FullPath(ds, r) = PathSeen(w, f)
BY HoldsPath, Zenon

LEMMA DistinctPaths ==
  ASSUME NEW w \in Worlds, Distinct(w),
         NEW f \in DOMAIN w.files, NEW g \in DOMAIN w.files, PathSeen(w, f) = PathSeen(w, g)
  PROVE  f = g
<1> DEFINE F == DOMAIN w.files
           path == [h \in F |-> PathSeen(w, h)]
           P == {PathSeen(w, h) : h \in F}
<1>1. {r.path : r \in Seen(w)} = P
  <2> DEFINE rec(h) == [path |-> PathSeen(w, h), data |-> w.files[h]]
  <2>1. Seen(w) = {rec(h) : h \in F}
    BY DEF Seen, PathSeen
  <2>2. \A h : rec(h).path = PathSeen(w, h)
    OBVIOUS
  <2> HIDE DEF rec, F
  <2> QED BY <2>1, <2>2
<1>2. Cardinality(F) = Cardinality(P) /\ IsFiniteSet(F)
  BY <1>1, WorldFacts DEF Distinct
<1>3. path \in Surjection(F, P)
  BY Fun_IsSurj
<1> HIDE DEF P, F
<1>4. path \in Injection(F, P)
  BY <1>2, <1>3, FS_SurjSameCardinalityImpliesInj
<1>5. f \in F /\ g \in F /\ path[f] = path[g]
  BY DEF F
<1> HIDE DEF path
<1>6. \A x, y \in F : path[x] = path[y] => x = y
  BY <1>4, Fun_InjectionProperties
<1> QED BY <1>5, <1>6

LEMMA RecordFacts ==
  \A e : /\ DirRecord(e).path = DirPath(e)
        /\ DirRecord(e).parent = IF e = "root" THEN NoId ELSE RootId
BY DEF DirRecord

(* What a full scan sends shows what it saw. *)
LEMMA ScanDepicts ==
  ASSUME NEW w \in Worlds, NEW dnum \in DirNumberings(w.dirs),
         NEW fnum \in FileNumberings(DOMAIN w.files)
  PROVE  /\ Depicts(Scan(w, dnum, fnum), w)
         /\ \A f \in DOMAIN w.files :
              Holds(Scan(w, dnum, fnum).dirs, Scan(w, dnum, fnum).files[fnum[f]], w, f)
<1> DEFINE c == Scan(w, dnum, fnum)
           ds == c.dirs
           fs == c.files
<1>1. /\ DOMAIN ds = {dnum[e] : e \in Known(w)}
      /\ \A e \in Known(w) : ds[dnum[e]] = DirRecord(e)
      /\ DOMAIN fs = {fnum[f] : f \in DOMAIN w.files}
      /\ \A f \in DOMAIN w.files :
           fs[fnum[f]] = [name |-> f[2], parent |-> dnum[f[1]], data |-> w.files[f], path |-> <<>>]
      /\ c.root = IF Backend = "walk" THEN 0 ELSE RootId
  BY ScanFacts
<1> HIDE DEF c, ds, fs
<1>2. /\ dnum["root"] = RootId
      /\ \A d, e \in {"root"} \cup w.dirs : dnum[d] = dnum[e] => d = e
      /\ \A f, g \in DOMAIN w.files : fnum[f] = fnum[g] => f = g
  BY NumberFacts
<1>3. PICK b \in Nat : /\ \A d \in {"root"} \cup w.dirs : dnum[d] \in 1..b
                       /\ \A f \in DOMAIN w.files : fnum[f] \in 1..b
  BY NumberFacts
<1>4. /\ Known(w) \subseteq {"root"} \cup w.dirs /\ "root" \in Known(w)
      /\ Known(w) \subseteq {"root"} \cup DirNames
      /\ \A f \in DOMAIN w.files : /\ f[1] \in {"root"} \cup w.dirs /\ f[2] \in Names
                                   /\ w.files[f] \in Data
                                   /\ f[1] \notin w.lost => f[1] \in Known(w)
                                   /\ f[1] \in w.lost => f[1] \notin Known(w)
  BY WorldFacts DEF Known
<1>5. Bounded(DOMAIN ds) /\ Bounded(DOMAIN fs)
  <2>1. 1..b \subseteq 0..b
    OBVIOUS
  <2>2. DOMAIN ds \in SUBSET (0..b) /\ DOMAIN fs \in SUBSET (0..b)
    BY <1>1, <1>3, <1>4, <2>1, Zenon
  <2> QED BY <2>2, BoundedIs
<1>6. DirsDepict(ds, w)
  <2>1. \A e \in Known(w) : ds[dnum[e]].path = DirPath(e)
    BY <1>1, RecordFacts, Zenon
  <2>2. \A i \in DOMAIN ds : \E e \in Known(w) : ds[i] = DirRecord(e)
    BY <1>1
  <2>3. \A e \in Known(w) : \E i \in DOMAIN ds : ds[i].path = DirPath(e)
    BY <1>1, <2>1
  <2>4. ASSUME NEW i \in DOMAIN ds, NEW j \in DOMAIN ds, ds[i].path = ds[j].path PROVE i = j
    <3>1. PICK d \in Known(w), e \in Known(w) : i = dnum[d] /\ j = dnum[e]
      BY <1>1
    <3>2. DirPath(d) = DirPath(e)
      BY <2>1, <2>4, <3>1
    <3>3. d = e
      BY <1>4, <3>2, DirPathFacts
    <3> QED BY <3>1, <3>3
  <2>5. RootId \in DOMAIN ds /\ ds[RootId].path = DirPath("root")
    BY <1>1, <1>2, <1>4, <2>1
  <2> QED BY <2>2, <2>3, <2>4, <2>5 DEF DirsDepict
<1>7. ASSUME NEW f \in DOMAIN w.files PROVE Holds(ds, fs[fnum[f]], w, f)
  <2> DEFINE r == fs[fnum[f]]
  <2>1. r = [name |-> f[2], parent |-> dnum[f[1]], data |-> w.files[f], path |-> <<>>]
    BY <1>1
  <2>2. dnum[f[1]] \in 1..b /\ f[2] \in Names /\ w.files[f] \in Data
    BY <1>3, <1>4, Zenon
  <2>3. r \in FileRecord /\ r.parent # NoId
    BY <2>1, <2>2 DEF FileRecord, NoId
  <2>4. CASE f[1] \in w.lost
    <3>1. \A e \in Known(w) : dnum[e] # dnum[f[1]]
      BY <1>2, <1>4, <2>4
    <3>2. dnum[f[1]] \notin DOMAIN ds
      BY <1>1, <3>1, Zenon
    <3> QED BY <2>1, <2>3, <2>4, <3>2 DEF Holds
  <2>5. CASE f[1] \notin w.lost
    <3>1. dnum[f[1]] \in DOMAIN ds /\ ds[dnum[f[1]]].path = DirPath(f[1])
      BY <1>1, <1>4, <2>5, RecordFacts, Zenon
    <3> QED BY <2>1, <2>3, <2>5, <3>1 DEF Holds
  <2> QED BY <2>4, <2>5
<1>8. FilesDepict(ds, fs, w)
  <2>1. \A k \in DOMAIN fs : \E f \in DOMAIN w.files : k = fnum[f] /\ Holds(ds, fs[k], w, f)
    BY <1>1, <1>7
  <2>2. \A f \in DOMAIN w.files : fnum[f] \in DOMAIN fs /\ FullPath(ds, fs[fnum[f]]) = PathSeen(w, f)
    <3> SUFFICES ASSUME NEW f \in DOMAIN w.files
                 PROVE  fnum[f] \in DOMAIN fs /\ FullPath(ds, fs[fnum[f]]) = PathSeen(w, f)
      OBVIOUS
    <3>1. fnum[f] \in DOMAIN fs
      BY <1>1
    <3>2. Holds(ds, fs[fnum[f]], w, f)
      BY <1>7
    <3>3. FullPath(ds, fs[fnum[f]]) = PathSeen(w, f)
      BY <3>2, StoredPath, Zenon
    <3> QED BY <3>1, <3>3
  <2>3. ASSUME Distinct(w), NEW k \in DOMAIN fs, NEW l \in DOMAIN fs,
               FullPath(ds, fs[k]) = FullPath(ds, fs[l])
        PROVE  k = l
    <3>1. PICK f \in DOMAIN w.files, g \in DOMAIN w.files : k = fnum[f] /\ l = fnum[g]
      BY <1>1
    <3>2. PathSeen(w, f) = PathSeen(w, g)
      BY <2>2, <2>3, <3>1
    <3> QED BY <2>3, <3>1, <3>2, DistinctPaths
  <2> QED BY <2>1, <2>2, <2>3 DEF FilesDepict
<1>9. c.root \in DOMAIN ds <=> Backend = "mft"
  <2>1. 0 \notin 1..b /\ 0 # RootId
    BY DEF RootId
  <2>2. \A e \in Known(w) : dnum[e] # 0
    BY <1>3, <1>4, <2>1
  <2>3. RootId \in DOMAIN ds /\ 0 \notin DOMAIN ds
    BY <1>1, <1>2, <1>4, <2>2, ZenonT(40)
  <2> QED BY <1>1, <2>3, RescanAssumption
<1> QED BY <1>5, <1>6, <1>7, <1>8, <1>9 DEF Depicts, c, ds, fs

-----------------------------------------------------------------------------
(* A scan, renumbered. *)

LEMMA DirIdsKept ==
  ASSUME NEW b \in Nat, NEW previous, NEW ds, NEW fs, NEW root,
         DOMAIN previous \in SUBSET (0..b),
         DOMAIN ds \cup References(ds, fs, root) \in SUBSET (0..b),
         \A i \in DOMAIN ds : ds[i].path # <<>>
  PROVE  Kept(b, previous, ds, DirectoryIds(previous, ds, fs, root))
<1> DEFINE refs == References(ds, fs, root)
           used == DOMAIN previous \cup DOMAIN ds \cup refs
           id == DirectoryIds(previous, ds, fs, root)
<1>1. {i \in DOMAIN ds : At(previous, ds[i].path) = {} \/ ds[i].path = <<>>}
        = {i \in DOMAIN ds : At(previous, ds[i].path) = {}}
  OBVIOUS
<1>2. ByPath(previous, ds, used, id)
  BY <1>1 DEF DirectoryIds, ByPath
<1>3. used \in SUBSET (0..b) /\ DOMAIN previous \subseteq used /\ DOMAIN ds \in SUBSET (0..b)
  OBVIOUS
<1> HIDE DEF used, id
<1>4. Kept(b, previous, ds, id)
  BY <1>2, <1>3, NumberedByPath, Zenon
<1> QED BY <1>4 DEF id

(* Records under new identifiers: each identifier has a record that got it.*)
HasRecords(n, records, id) ==
  /\ DOMAIN n = {id[i] : i \in DOMAIN records}
  /\ \A k \in DOMAIN n : \E i \in DOMAIN records : id[i] = k /\ n[k] = records[i]

LEMMA RenumberedFacts ==
  ASSUME NEW b \in Nat, NEW records, NEW id,
         DOMAIN records \in SUBSET (0..b), DOMAIN id = DOMAIN records
  PROVE  HasRecords(Renumbered(records, id), records, id)
<1> DEFINE n == Renumbered(records, id)
           with(k) == {i \in DOMAIN records : id[i] = k}
<1>1. DOMAIN n = {id[i] : i \in DOMAIN records} /\ \A k \in DOMAIN n : n[k] = records[Max(with(k))]
  BY DEF Renumbered, Range
<1> HIDE DEF n
<1>2. ASSUME NEW k \in DOMAIN n PROVE Max(with(k)) \in with(k)
  <2>1. with(k) \in SUBSET (0..b) /\ with(k) # {}
    BY <1>1, <1>2
  <2> HIDE DEF with
  <2> QED BY <2>1, MaxBounded
<1>3. ASSUME NEW k \in DOMAIN n
      PROVE  \E i \in DOMAIN records : id[i] = k /\ n[k] = records[i]
  BY <1>1, <1>2, <1>3
<1> QED BY <1>1, <1>3 DEF n, HasRecords

(* The files of a catalog with their paths. *)
Before(c) == WithPaths(c.dirs, c.files)

LEMMA WithPathsFacts ==
  ASSUME NEW ds, NEW fs, NEW w \in Worlds, NEW k \in DOMAIN fs, NEW f \in DOMAIN w.files,
         Holds(ds, fs[k], w, f)
  PROVE  WithPaths(ds, fs)[k] = [name |-> f[2], parent |-> fs[k].parent,
                                 data |-> w.files[f], path |-> PathSeen(w, f)]
<1>1. FullPath(ds, fs[k]) = PathSeen(w, f)
  BY HoldsPath
<1>2. WithPaths(ds, fs)[k] = [fs[k] EXCEPT !.path = PathSeen(w, f)]
  BY <1>1 DEF WithPaths
<1>3. fs[k] \in FileRecord /\ fs[k].name = f[2] /\ fs[k].data = w.files[f]
  BY DEF Holds
<1> QED BY <1>2, <1>3 DEF FileRecord

(* What the directories of a scan are renumbered to. *)
LEMMA RenumberedDirs ==
  ASSUME NEW v, NEW c, Depicts(c, v),
         NEW w \in Worlds, NEW dnum \in DirNumberings(w.dirs),
         NEW fnum \in FileNumberings(DOMAIN w.files),
         NEW tx, tx = Scan(w, dnum, fnum),
         NEW id, id = DirectoryIds(c.dirs, tx.dirs, WithPaths(tx.dirs, tx.files), tx.root)
  PROVE  /\ \E b \in Nat : \A e \in Known(w) : id[dnum[e]] \in 0..b
         /\ \A d, e \in Known(w) : id[dnum[d]] = id[dnum[e]] => d = e
         /\ id[RootId] = RootId
         /\ \A e \in Known(w), j \in DOMAIN c.dirs :
              c.dirs[j].path = DirPath(e) => id[dnum[e]] = j
         /\ \A f \in DOMAIN w.files :
              f[1] \in w.lost => id[dnum[f[1]]] \in Nat /\ \A e \in Known(w) : id[dnum[e]] # id[dnum[f[1]]]
         /\ Backend = "walk" => \A e \in Known(w) : id[dnum[e]] # id[0]
<1> DEFINE now == WithPaths(tx.dirs, tx.files)
           refs == References(tx.dirs, now, tx.root)
<1>1. /\ DOMAIN tx.dirs = {dnum[e] : e \in Known(w)}
      /\ \A e \in Known(w) : tx.dirs[dnum[e]] = DirRecord(e)
      /\ DOMAIN tx.files = {fnum[f] : f \in DOMAIN w.files}
      /\ \A f \in DOMAIN w.files : tx.files[fnum[f]].parent = dnum[f[1]]
      /\ tx.root = IF Backend = "walk" THEN 0 ELSE RootId
  <2>1. \A f \in DOMAIN w.files :
          tx.files[fnum[f]] = [name |-> f[2], parent |-> dnum[f[1]], data |-> w.files[f], path |-> <<>>]
    BY ScanFacts, Zenon
  <2>2. ASSUME NEW f \in DOMAIN w.files PROVE tx.files[fnum[f]].parent = dnum[f[1]]
    <3>1. PICK n, p, d, r : r = tx.files[fnum[f]] /\ r = [name |-> n, parent |-> p, data |-> d, path |-> <<>>]
                            /\ p = dnum[f[1]]
      BY <2>1, Zenon
    <3> QED BY <3>1
  <2> QED BY <2>2, ScanFacts, Zenon
<1>2. /\ dnum["root"] = RootId
      /\ \A d, e \in {"root"} \cup w.dirs : dnum[d] = dnum[e] => d = e
  BY NumberFacts
<1>3. PICK m \in Nat : \A d \in {"root"} \cup w.dirs : dnum[d] \in 1..m
  BY NumberFacts
<1>4. /\ Known(w) \subseteq {"root"} \cup w.dirs /\ "root" \in Known(w)
      /\ Known(w) \subseteq {"root"} \cup DirNames
      /\ \A f \in DOMAIN w.files : /\ f[1] \in {"root"} \cup w.dirs
                                   /\ f[1] \in w.lost => f[1] \notin Known(w)
  BY WorldFacts DEF Known
<1>5. DOMAIN now = DOMAIN tx.files /\ \A f \in DOMAIN w.files : now[fnum[f]].parent = dnum[f[1]]
  <2>1. DOMAIN now = DOMAIN tx.files
    BY DEF WithPaths
  <2>2. ASSUME NEW f \in DOMAIN w.files PROVE now[fnum[f]].parent = dnum[f[1]]
    <3>1. Holds(tx.dirs, tx.files[fnum[f]], w, f) /\ fnum[f] \in DOMAIN tx.files
      BY <1>1, ScanDepicts
    <3>2. now[fnum[f]] = [name |-> f[2], parent |-> tx.files[fnum[f]].parent,
                          data |-> w.files[f], path |-> PathSeen(w, f)]
      BY <3>1, WithPathsFacts
    <3> HIDE DEF now
    <3> QED BY <1>1, <3>2
  <2> QED BY <2>1, <2>2
<1> HIDE DEF now
<1>6. /\ \A r \in refs :
           \/ \E i \in DOMAIN tx.dirs : r = tx.dirs[i].parent /\ r # NoId
           \/ \E f \in DOMAIN w.files : r = dnum[f[1]]
           \/ r = tx.root
      /\ \A f \in DOMAIN w.files : dnum[f[1]] \in refs
      /\ tx.root \in refs
  <2>1. /\ \A i \in DOMAIN now : \E f \in DOMAIN w.files : now[i].parent = dnum[f[1]]
        /\ \A f \in DOMAIN w.files : fnum[f] \in DOMAIN now /\ now[fnum[f]].parent = dnum[f[1]]
    BY <1>1, <1>5
  <2>2. refs = ({tx.dirs[i].parent : i \in DOMAIN tx.dirs} \ {NoId})
               \cup {now[i].parent : i \in DOMAIN now} \cup {tx.root}
    BY DEF References
  <2> HIDE DEF refs
  <2>3. \A f \in DOMAIN w.files : dnum[f[1]] \in {now[i].parent : i \in DOMAIN now}
    BY <2>1
  <2>4. \A f \in DOMAIN w.files : dnum[f[1]] \in refs
    BY <2>2, <2>3, Zenon
  <2>5. ASSUME NEW r \in refs
        PROVE  \/ \E i \in DOMAIN tx.dirs : r = tx.dirs[i].parent /\ r # NoId
               \/ \E f \in DOMAIN w.files : r = dnum[f[1]]
               \/ r = tx.root
    BY <2>1, <2>2, <2>5, Zenon
  <2>6. tx.root \in refs
    BY <2>2, Zenon
  <2> QED BY <2>4, <2>5, <2>6
<1>7. PICK b \in Nat : DOMAIN c.dirs \in SUBSET (0..b) /\ m <= b /\ RootId <= b
  <2>1. PICK a \in Nat : DOMAIN c.dirs \in SUBSET (0..a)
    BY BoundedIs DEF Depicts
  <2>2. a + m + RootId \in Nat /\ m <= a + m + RootId /\ RootId <= a + m + RootId
        /\ 0..a \subseteq 0..(a + m + RootId)
    BY DEF RootId
  <2> QED BY <2>1, <2>2
<1>8. DOMAIN tx.dirs \cup refs \in SUBSET (0..b)
  <2>1. 1..m \subseteq 0..b /\ RootId \in 0..b /\ 0 \in 0..b
    BY <1>7 DEF RootId
  <2>2. DOMAIN tx.dirs \in SUBSET (0..b)
    BY <1>1, <1>3, <1>4, <2>1
  <2>3. \A i \in DOMAIN tx.dirs : tx.dirs[i].parent \in {NoId, RootId}
    BY <1>1, RecordFacts
  <2>4. \A f \in DOMAIN w.files : dnum[f[1]] \in 0..b
    BY <1>3, <1>4, <2>1
  <2>5. tx.root \in 0..b
    BY <1>1, <2>1
  <2> HIDE DEF refs
  <2>6. ASSUME NEW r \in refs PROVE r \in 0..b
    BY <1>6, <2>1, <2>3, <2>4, <2>5, <2>6
  <2> QED BY <2>2, <2>6
<1>9. \A e \in Known(w) : dnum[e] \in DOMAIN tx.dirs /\ tx.dirs[dnum[e]].path = DirPath(e)
                          /\ DirPath(e) # <<>>
  BY <1>1, <1>4, RecordFacts, DirPathFacts
<1>10. Kept(b, c.dirs, tx.dirs, id)
  <2>1. \A i \in DOMAIN tx.dirs : tx.dirs[i].path # <<>>
    BY <1>1, <1>9
  <2> QED BY <1>7, <1>8, <2>1, DirIdsKept DEF now
<1>11. \A e \in Known(w) :
         /\ id[dnum[e]] \in 0..(2 * b + 2)
         /\ At(c.dirs, DirPath(e)) # {} =>
              id[dnum[e]] \in DOMAIN c.dirs /\ c.dirs[id[dnum[e]]].path = DirPath(e)
         /\ \A d \in Known(w) : id[dnum[d]] = id[dnum[e]] => DirPath(d) = DirPath(e)
  <2> SUFFICES ASSUME NEW e \in Known(w), NEW i, i = dnum[e], NEW p, p = DirPath(e)
               PROVE  /\ id[i] \in 0..(2 * b + 2)
                      /\ At(c.dirs, p) # {} => id[i] \in DOMAIN c.dirs /\ c.dirs[id[i]].path = p
                      /\ \A d \in Known(w) : id[dnum[d]] = id[i] => DirPath(d) = p
    OBVIOUS
  <2>1. i \in DOMAIN tx.dirs /\ tx.dirs[i].path = p
    BY <1>9
  <2>2. /\ id[i] \in 0..(2 * b + 2)
        /\ At(c.dirs, p) # {} => id[i] \in DOMAIN c.dirs /\ c.dirs[id[i]].path = p
        /\ \A j \in DOMAIN tx.dirs : id[i] = id[j] => p = tx.dirs[j].path
    BY <1>10, <2>1 DEF Kept
  <2>3. ASSUME NEW d \in Known(w), id[dnum[d]] = id[i] PROVE DirPath(d) = p
    <3>1. dnum[d] \in DOMAIN tx.dirs /\ tx.dirs[dnum[d]].path = DirPath(d)
      BY <1>9
    <3> QED BY <2>2, <2>3, <3>1
  <2> QED BY <2>2, <2>3
<1>12. /\ \A i, j \in DOMAIN c.dirs : c.dirs[i].path = c.dirs[j].path => i = j
       /\ RootId \in DOMAIN c.dirs /\ c.dirs[RootId].path = DirPath("root")
  BY DEF Depicts, DirsDepict
<1>13. \A e \in Known(w), j \in DOMAIN c.dirs : c.dirs[j].path = DirPath(e) => id[dnum[e]] = j
  <2> SUFFICES ASSUME NEW e \in Known(w), NEW j \in DOMAIN c.dirs, c.dirs[j].path = DirPath(e)
               PROVE  id[dnum[e]] = j
    OBVIOUS
  <2>1. At(c.dirs, DirPath(e)) # {}
    BY DEF At
  <2> QED BY <1>11, <1>12, <2>1
<1>14. id[RootId] = RootId
  BY <1>2, <1>4, <1>12, <1>13
<1>15. \A d, e \in Known(w) : id[dnum[d]] = id[dnum[e]] => d = e
  <2> SUFFICES ASSUME NEW d \in Known(w), NEW e \in Known(w), id[dnum[d]] = id[dnum[e]]
               PROVE  d = e
    OBVIOUS
  <2>1. DirPath(d) = DirPath(e) /\ d \in {"root"} \cup DirNames /\ e \in {"root"} \cup DirNames
    BY <1>4, <1>11
  <2> HIDE DEF DirPath
  <2> QED BY <2>1, DirPathFacts
<1>16. ASSUME NEW r \in refs, r \notin DOMAIN tx.dirs
       PROVE  id[r] \in Nat /\ \A e \in Known(w) : id[dnum[e]] # id[r]
  <2>1. id[r] \in Nat /\ \A i \in DOMAIN tx.dirs : id[i] # id[r]
    BY <1>7, <1>8, <1>16, DanglingStaysDangling DEF now
  <2> QED BY <1>9, <2>1
<1>17. ASSUME NEW f \in DOMAIN w.files, f[1] \in w.lost
       PROVE  dnum[f[1]] \in refs /\ dnum[f[1]] \notin DOMAIN tx.dirs
  <2>1. \A e \in Known(w) : dnum[e] # dnum[f[1]]
    BY <1>2, <1>4, <1>17
  <2>2. dnum[f[1]] \notin DOMAIN tx.dirs
    BY <1>1, <2>1, Zenon
  <2> QED BY <1>6, <2>2
<1>18. ASSUME Backend = "walk" PROVE 0 \in refs /\ 0 \notin DOMAIN tx.dirs
  <2>1. \A e \in Known(w) : dnum[e] # 0
    <3>1. 0 \notin 1..m
      OBVIOUS
    <3> QED BY <1>3, <1>4, <3>1
  <2>2. 0 \notin DOMAIN tx.dirs
    BY <1>1, <2>1, Zenon
  <2> QED BY <1>1, <1>6, <1>18, <2>2
<1>19. 2 * b + 2 \in Nat
  OBVIOUS
<1> QED BY <1>11, <1>13, <1>14, <1>15, <1>16, <1>17, <1>18, <1>19

(* What the records of a scan become.  An identifier of the earlier        *)
(* catalog that is used again is that of the same path, and a path that is *)
(* there again has its identifier.                                         *)
SamePlaces(c, n) ==
  /\ \A i \in DOMAIN n.dirs, j \in DOMAIN c.dirs : n.dirs[i].path = c.dirs[j].path => i = j
  /\ \A k \in DOMAIN n.files :
       /\ k \in DOMAIN c.files => Before(c)[k].path = n.files[k].path
       /\ \A l \in DOMAIN c.files : Before(c)[l].path = n.files[k].path => k \in DOMAIN c.files

LEMMA RemappedDepicts ==
  ASSUME NEW v \in Worlds, NEW c, Depicts(c, v),
         NEW w \in Worlds, NEW dnum \in DirNumberings(w.dirs),
         NEW fnum \in FileNumberings(DOMAIN w.files)
  PROVE  LET n == Remapped(c, Scan(w, dnum, fnum))
         IN  /\ Depicts(n, w) /\ SamePlaces(c, n)
             /\ \A k \in DOMAIN n.files : n.files[k].path # <<>>
<1> DEFINE tx == Scan(w, dnum, fnum)
           n == Remapped(c, tx)
           before == Before(c)
           now == WithPaths(tx.dirs, tx.files)
           id == DirectoryIds(c.dirs, tx.dirs, now, tx.root)
           fid == FileIds(before, now)
           ref(i) == IF i = NoId THEN NoId ELSE id[i]
           dirs == [i \in DOMAIN tx.dirs |-> [tx.dirs[i] EXCEPT !.parent = ref(@)]]
           files == [i \in DOMAIN now |-> [now[i] EXCEPT !.parent = ref(@)]]
           did == [i \in DOMAIN dirs |-> id[i]]
<1>1. n.dirs = Renumbered(dirs, did) /\ n.files = Renumbered(files, fid) /\ n.root = id[tx.root]
  BY DEF Remapped, Catalog, Before
<1>2. /\ DOMAIN tx.dirs = {dnum[e] : e \in Known(w)}
      /\ \A e \in Known(w) : tx.dirs[dnum[e]] = DirRecord(e)
      /\ DOMAIN tx.files = {fnum[f] : f \in DOMAIN w.files}
      /\ \A f \in DOMAIN w.files :
           tx.files[fnum[f]] = [name |-> f[2], parent |-> dnum[f[1]], data |-> w.files[f], path |-> <<>>]
      /\ tx.root = IF Backend = "walk" THEN 0 ELSE RootId
  BY ScanFacts
<1>3. /\ dnum["root"] = RootId
      /\ \A d, e \in {"root"} \cup w.dirs : dnum[d] = dnum[e] => d = e
      /\ \A f, g \in DOMAIN w.files : fnum[f] = fnum[g] => f = g
  BY NumberFacts
<1>4. PICK m \in Nat : /\ \A d \in {"root"} \cup w.dirs : dnum[d] \in 1..m
                       /\ \A f \in DOMAIN w.files : fnum[f] \in 1..m
  BY NumberFacts
<1>5. /\ Known(w) \subseteq {"root"} \cup w.dirs /\ "root" \in Known(w)
      /\ Known(w) \subseteq {"root"} \cup DirNames
      /\ \A f \in DOMAIN w.files : /\ f[1] \in {"root"} \cup w.dirs /\ f[2] \in Names
                                   /\ w.files[f] \in Data
                                   /\ f[1] \notin w.lost => f[1] \in Known(w)
  BY WorldFacts DEF Known
<1>6. /\ \E b \in Nat : \A e \in Known(w) : id[dnum[e]] \in 0..b
      /\ \A d, e \in Known(w) : id[dnum[d]] = id[dnum[e]] => d = e
      /\ id[RootId] = RootId
      /\ \A e \in Known(w), j \in DOMAIN c.dirs : c.dirs[j].path = DirPath(e) => id[dnum[e]] = j
      /\ \A f \in DOMAIN w.files :
           f[1] \in w.lost => id[dnum[f[1]]] \in Nat /\ \A e \in Known(w) : id[dnum[e]] # id[dnum[f[1]]]
      /\ Backend = "walk" => \A e \in Known(w) : id[dnum[e]] # id[0]
  BY RenumberedDirs
<1> HIDE DEF tx, n, before, now, id, fid
(* Directories keep their records and get new numbers. *)
<1>7. \A e \in Known(w) : dnum[e] \in DOMAIN tx.dirs /\ dirs[dnum[e]] = DirRecord(e)
  <2> SUFFICES ASSUME NEW e \in Known(w), NEW i, i = dnum[e]
               PROVE  i \in DOMAIN tx.dirs /\ dirs[i] = DirRecord(e)
    OBVIOUS
  <2>1. i \in DOMAIN tx.dirs /\ tx.dirs[i] = DirRecord(e)
    BY <1>2
  <2>2. ref(DirRecord(e).parent) = DirRecord(e).parent
    BY <1>6, RecordFacts
  <2>3. dirs[i] = [DirRecord(e) EXCEPT !.parent = ref(@)]
    BY <2>1
  <2> HIDE DEF ref
  <2>4. [DirRecord(e) EXCEPT !.parent = ref(@)] = DirRecord(e)
    BY <2>2 DEF DirRecord
  <2> QED BY <2>1, <2>3, <2>4
<1>8. /\ \A e \in Known(w) : id[dnum[e]] \in DOMAIN n.dirs /\ n.dirs[id[dnum[e]]] = DirRecord(e)
      /\ \A k \in DOMAIN n.dirs : \E e \in Known(w) : k = id[dnum[e]] /\ n.dirs[k] = DirRecord(e)
  <2> DEFINE new == Renumbered(dirs, did)
  <2>1. DOMAIN dirs = DOMAIN tx.dirs /\ DOMAIN did = DOMAIN dirs
        /\ \A i \in DOMAIN tx.dirs : did[i] = id[i]
    OBVIOUS
  <2>2. DOMAIN dirs \in SUBSET (0..m)
    <3>1. 1..m \subseteq 0..m
      OBVIOUS
    <3>2. \A i \in DOMAIN tx.dirs : i \in 1..m
      BY <1>2, <1>4, <1>5
    <3> QED BY <2>1, <3>1, <3>2
  <2> HIDE DEF dirs, did
  <2>3. HasRecords(new, dirs, did)
    BY <2>1, <2>2, RenumberedFacts, Zenon
  <2> HIDE DEF new
  <2>4. ASSUME NEW k \in DOMAIN new
        PROVE  \E e \in Known(w) : k = id[dnum[e]] /\ new[k] = DirRecord(e)
    <3>1. PICK i \in DOMAIN dirs : did[i] = k /\ new[k] = dirs[i]
      BY <2>3 DEF HasRecords
    <3>2. PICK e \in Known(w) : i = dnum[e]
      BY <1>2, <2>1, <3>1
    <3> QED BY <1>7, <2>1, <3>1, <3>2
  <2>5. ASSUME NEW e \in Known(w)
        PROVE  id[dnum[e]] \in DOMAIN new /\ new[id[dnum[e]]] = DirRecord(e)
    <3>1. id[dnum[e]] \in DOMAIN new
        BY <1>7, <2>1, <2>3 DEF HasRecords
    <3>2. PICK d \in Known(w) : id[dnum[e]] = id[dnum[d]] /\ new[id[dnum[e]]] = DirRecord(d)
      BY <2>4, <3>1
    <3> QED BY <1>6, <3>1, <3>2
  <2> QED BY <1>1, <2>4, <2>5 DEF new
<1>9. \A e \in Known(w) : n.dirs[id[dnum[e]]].path = DirPath(e)
  BY <1>8, RecordFacts
<1>10. DirsDepict(n.dirs, w) /\ Bounded(DOMAIN n.dirs)
  <2>1. \A k \in DOMAIN n.dirs : \E e \in Known(w) : n.dirs[k] = DirRecord(e)
    BY <1>8
  <2>2. \A e \in Known(w) : \E k \in DOMAIN n.dirs : n.dirs[k].path = DirPath(e)
    BY <1>8, <1>9
  <2>3. ASSUME NEW k \in DOMAIN n.dirs, NEW l \in DOMAIN n.dirs, n.dirs[k].path = n.dirs[l].path
        PROVE  k = l
    <3>1. PICK d \in Known(w), e \in Known(w) : k = id[dnum[d]] /\ l = id[dnum[e]]
      BY <1>8
    <3>2. DirPath(d) = DirPath(e) /\ d \in {"root"} \cup DirNames /\ e \in {"root"} \cup DirNames
      BY <1>5, <1>9, <2>3, <3>1
    <3> HIDE DEF DirPath
    <3>3. d = e
      BY <3>2, DirPathFacts
    <3> QED BY <3>1, <3>3
  <2>4. RootId \in DOMAIN n.dirs /\ n.dirs[RootId].path = DirPath("root")
    BY <1>3, <1>5, <1>6, <1>8, <1>9
  <2>5. Bounded(DOMAIN n.dirs)
    <3>1. PICK b \in Nat : \A e \in Known(w) : id[dnum[e]] \in 0..b
      BY <1>6
    <3>2. DOMAIN n.dirs \in SUBSET (0..b)
      BY <1>8, <3>1
    <3> QED BY <3>2, BoundedIs
  <2> QED BY <2>1, <2>2, <2>3, <2>4, <2>5 DEF DirsDepict
<1>11. n.root \in DOMAIN n.dirs <=> Backend = "mft"
  <2>1. CASE Backend = "walk"
    <3>1. n.root = id[0] /\ Backend # "mft"
      BY <1>1, <1>2, <2>1
    <3>2. n.root \notin DOMAIN n.dirs
      BY <1>6, <1>8, <2>1, <3>1
    <3> QED BY <3>1, <3>2
  <2>2. CASE Backend = "mft"
    <3>1. n.root = id[RootId]
      BY <1>1, <1>2, <2>2
    <3> QED BY <1>6, <1>10, <2>2, <3>1 DEF DirsDepict
  <2> QED BY <2>1, <2>2, RescanAssumption
(* Files get new parents and new numbers. *)
<1>12. ASSUME NEW f \in DOMAIN w.files, NEW i, i = fnum[f]
       PROVE  /\ i \in DOMAIN now /\ DOMAIN now = DOMAIN tx.files
              /\ now[i].path = PathSeen(w, f)
              /\ Holds(n.dirs, files[i], w, f) /\ files[i].path = PathSeen(w, f)
  <2> DEFINE d == dnum[f[1]]
  <2>1. i \in DOMAIN tx.files /\ DOMAIN now = DOMAIN tx.files
    BY <1>2, <1>12 DEF now, WithPaths
  <2>2. tx.files[i] = [name |-> f[2], parent |-> d, data |-> w.files[f], path |-> <<>>]
    BY <1>2, <1>12
  <2>3. now[i] = [name |-> f[2], parent |-> tx.files[i].parent, data |-> w.files[f],
                  path |-> PathSeen(w, f)]
    <3>1. Holds(tx.dirs, tx.files[i], w, f)
      BY <1>12, ScanDepicts DEF tx
    <3> QED BY <2>1, <3>1, WithPathsFacts DEF now
  <2>4. d \in 1..m /\ f[1] \in {"root"} \cup w.dirs
    BY <1>4, <1>5
  <2> HIDE DEF d
  <2>5. ref(d) = id[d]
    BY <2>4 DEF NoId
  <2> HIDE DEF ref
  <2>6. files[i] = [name |-> f[2], parent |-> id[d], data |-> w.files[f], path |-> PathSeen(w, f)]
    BY <2>1, <2>2, <2>3, <2>5
  <2>7. id[d] \in Nat
    <3>1. CASE f[1] \in w.lost
      BY <1>6, <3>1 DEF d
    <3>2. CASE f[1] \notin w.lost
      <4>1. PICK b \in Nat : \A e \in Known(w) : id[dnum[e]] \in 0..b
        BY <1>6
      <4> QED BY <1>5, <3>2, <4>1 DEF d
    <3> QED BY <3>1, <3>2
  <2>8. files[i] \in FileRecord /\ files[i].parent = id[d] /\ id[d] # NoId
        /\ files[i].name = f[2] /\ files[i].data = w.files[f] /\ files[i].path = PathSeen(w, f)
    <3>1. f[2] \in Names /\ w.files[f] \in Data /\ PathSeen(w, f) \in Seq(Atoms)
      BY <1>5, HoldsPath
    <3> HIDE DEF files
    <3> QED BY <2>6, <2>7, <3>1 DEF FileRecord, NoId
  <2> HIDE DEF files
  <2>9. CASE f[1] \in w.lost
    <3>1. \A e \in Known(w) : id[dnum[e]] # id[d]
      BY <1>6, <2>9 DEF d
    <3>2. id[d] \notin DOMAIN n.dirs
      BY <1>8, <3>1
    <3> QED BY <2>1, <2>3, <2>8, <2>9, <3>2 DEF Holds
  <2>10. CASE f[1] \notin w.lost
    <3>1. id[d] \in DOMAIN n.dirs /\ n.dirs[id[d]].path = DirPath(f[1])
      BY <1>5, <1>8, <1>9, <2>10 DEF d
    <3> QED BY <2>1, <2>3, <2>8, <2>10, <3>1 DEF Holds
  <2> QED BY <2>9, <2>10
<1>13. /\ \A f \in DOMAIN w.files : fnum[f] \in DOMAIN now
       /\ \A i \in DOMAIN now : \E f \in DOMAIN w.files : i = fnum[f]
  <2>1. DOMAIN now = DOMAIN tx.files
    BY DEF now, WithPaths
  <2> QED BY <1>2, <2>1
<1>14. PICK b \in Nat : /\ DOMAIN before \in SUBSET (0..b) /\ DOMAIN now \in SUBSET (0..b)
                        /\ DOMAIN before = DOMAIN c.files
  <2>1. DOMAIN before = DOMAIN c.files
    BY DEF before, Before, WithPaths
  <2>2. PICK a \in Nat : DOMAIN c.files \in SUBSET (0..a)
    BY BoundedIs DEF Depicts
  <2>3. a + m \in Nat /\ 0..a \subseteq 0..(a + m) /\ 1..m \subseteq 0..(a + m)
    OBVIOUS
  <2>4. DOMAIN now \in SUBSET (1..m)
    BY <1>4, <1>13
  <2> QED BY <2>1, <2>2, <2>3, <2>4
<1>15. Kept(b, before, now, fid)
  BY <1>14, FileIdsKept DEF fid
<1>16. /\ \A f \in DOMAIN w.files : fid[fnum[f]] \in DOMAIN n.files /\ fid[fnum[f]] \in 0..(2 * b + 2)
       /\ \A k \in DOMAIN n.files :
            \E f \in DOMAIN w.files : k = fid[fnum[f]] /\ n.files[k] = files[fnum[f]]
  <2> DEFINE new == Renumbered(files, fid)
  <2>1. DOMAIN files = DOMAIN now /\ DOMAIN fid = DOMAIN now
    BY DEF fid, FileIds
  <2> HIDE DEF files
  <2>2. HasRecords(new, files, fid)
    BY <1>14, <2>1, RenumberedFacts, Zenon
  <2> HIDE DEF new
  <2>3. \A i \in DOMAIN now : fid[i] \in 0..(2 * b + 2)
    BY <1>15 DEF Kept
  <2>4. ASSUME NEW f \in DOMAIN w.files
        PROVE  fid[fnum[f]] \in DOMAIN new /\ fid[fnum[f]] \in 0..(2 * b + 2)
    BY <1>13, <2>1, <2>2, <2>3 DEF HasRecords
  <2>5. ASSUME NEW k \in DOMAIN new
        PROVE  \E f \in DOMAIN w.files : k = fid[fnum[f]] /\ new[k] = files[fnum[f]]
    BY <1>13, <2>1, <2>2, <2>5 DEF HasRecords
  <2> QED BY <1>1, <2>4, <2>5 DEF new
<1> HIDE DEF files
<1>17. Bounded(DOMAIN n.files)
  <2>1. DOMAIN n.files \in SUBSET (0..(2 * b + 2)) /\ 2 * b + 2 \in Nat
    BY <1>16
  <2> QED BY <2>1, BoundedIs
<1>18. ASSUME NEW k \in DOMAIN n.files
       PROVE  \E f \in DOMAIN w.files :
                /\ k = fid[fnum[f]] /\ Holds(n.dirs, n.files[k], w, f)
                /\ n.files[k].path = PathSeen(w, f)
                /\ FullPath(n.dirs, n.files[k]) = PathSeen(w, f)
  <2>1. PICK f \in DOMAIN w.files : k = fid[fnum[f]] /\ n.files[k] = files[fnum[f]]
    BY <1>16, <1>18
  <2>2. Holds(n.dirs, n.files[k], w, f) /\ n.files[k].path = PathSeen(w, f)
    BY <1>12, <2>1
  <2>3. FullPath(n.dirs, n.files[k]) = PathSeen(w, f)
    BY <2>2, StoredPath, Zenon
  <2> QED BY <2>1, <2>2, <2>3
<1>19. FilesDepict(n.dirs, n.files, w)
  <2>1. ASSUME NEW f \in DOMAIN w.files
        PROVE  \E k \in DOMAIN n.files : FullPath(n.dirs, n.files[k]) = PathSeen(w, f)
    <3>1. PICK k \in DOMAIN n.files : k = fid[fnum[f]]
      BY <1>16
    <3>2. PICK g \in DOMAIN w.files :
            k = fid[fnum[g]] /\ FullPath(n.dirs, n.files[k]) = PathSeen(w, g)
      BY <1>18
    <3>3. now[fnum[f]].path = now[fnum[g]].path
      <4>1. PICK i \in DOMAIN now, j \in DOMAIN now : i = fnum[f] /\ j = fnum[g]
        BY <1>13, Zenon
      <4>2. fid[i] = fid[j]
        BY <3>1, <3>2, <4>1
      <4>3. \A x, y \in DOMAIN now : fid[x] = fid[y] => now[x].path = now[y].path
        BY <1>15, Zenon DEF Kept
      <4> QED BY <4>1, <4>2, <4>3, Zenon
    <3>4. PathSeen(w, f) = PathSeen(w, g)
      BY <1>12, <3>3
    <3> QED BY <3>2, <3>4
  <2>2. ASSUME Distinct(w), NEW k \in DOMAIN n.files, NEW l \in DOMAIN n.files,
               FullPath(n.dirs, n.files[k]) = FullPath(n.dirs, n.files[l])
        PROVE  k = l
    <3>1. PICK f \in DOMAIN w.files, g \in DOMAIN w.files :
            /\ k = fid[fnum[f]] /\ FullPath(n.dirs, n.files[k]) = PathSeen(w, f)
            /\ l = fid[fnum[g]] /\ FullPath(n.dirs, n.files[l]) = PathSeen(w, g)
      BY <1>18
    <3>2. f = g
      BY <2>2, <3>1, DistinctPaths
    <3> QED BY <3>1, <3>2
  <2> QED BY <1>18, <2>1, <2>2 DEF FilesDepict
<1>20. SamePlaces(c, n)
  <2>1. ASSUME NEW i \in DOMAIN n.dirs, NEW j \in DOMAIN c.dirs, n.dirs[i].path = c.dirs[j].path
        PROVE  i = j
    <3>1. PICK e \in Known(w) : i = id[dnum[e]]
      BY <1>8
    <3>2. c.dirs[j].path = DirPath(e)
      BY <1>9, <2>1, <3>1
    <3> QED BY <1>6, <3>1, <3>2
  <2>2. ASSUME NEW k \in DOMAIN n.files
        PROVE  /\ k \in DOMAIN c.files => before[k].path = n.files[k].path
               /\ \A l \in DOMAIN c.files : before[l].path = n.files[k].path => k \in DOMAIN c.files
    <3>1. PICK f \in DOMAIN w.files : k = fid[fnum[f]] /\ n.files[k].path = PathSeen(w, f)
      BY <1>18
    <3>2. PICK i \in DOMAIN now : i = fnum[f] /\ now[i].path = n.files[k].path
      BY <1>12, <1>13, <3>1
    <3>3. IF At(before, now[i].path) = {} THEN k \notin DOMAIN before
          ELSE k \in DOMAIN before /\ before[k].path = now[i].path
      BY <1>15, <3>1, <3>2 DEF Kept
    <3>4. \A l \in DOMAIN before : before[l].path = now[i].path => At(before, now[i].path) # {}
      BY DEF At
    <3> QED BY <1>14, <3>2, <3>3, <3>4
  <2> QED BY <2>1, <2>2 DEF SamePlaces, before
<1>21. \A k \in DOMAIN n.files : n.files[k].path # <<>>
  BY <1>18, HoldsPath
<1>22. Depicts(n, w)
  BY <1>10, <1>11, <1>17, <1>19 DEF Depicts
<1> QED BY <1>20, <1>21, <1>22 DEF n, tx

-----------------------------------------------------------------------------
(* A scan, merged. *)

(* What the merge does to a catalog c: the identifiers in use again are    *)
(* those of the same paths, and the change set says how each file differs. *)
Follows(c, m, changed) ==
  /\ \A i \in DOMAIN m.dirs, j \in DOMAIN c.dirs : m.dirs[i].path = c.dirs[j].path => i = j
  /\ \A k \in DOMAIN m.files :
       /\ k \in DOMAIN c.files => PathOf(c, k) = PathOf(m, k)
       /\ \A l \in DOMAIN c.files : PathOf(c, l) = PathOf(m, k) => k \in DOMAIN c.files
  /\ DOMAIN changed = {k \in DOMAIN c.files \cup DOMAIN m.files :
                         k \in DOMAIN c.files /\ k \in DOMAIN m.files =>
                           ~Same(c.files[k], m.files[k])}
  /\ \A k \in DOMAIN changed :
       /\ k \notin DOMAIN c.files => changed[k] = "added"
       /\ k \in DOMAIN c.files /\ k \notin DOMAIN m.files => changed[k] = "removed"
       /\ k \in DOMAIN c.files /\ k \in DOMAIN m.files =>
            IF m.files[k].parent # c.files[k].parent THEN changed[k] = "moved"
            ELSE IF m.files[k].name # c.files[k].name THEN changed[k] = "renamed"
            ELSE changed[k] = "modified"

LEMMA MergeDepicts ==
  ASSUME NEW v \in Worlds, NEW c, Depicts(c, v),
         NEW w \in Worlds, NEW dnum \in DirNumberings(w.dirs),
         NEW fnum \in FileNumberings(DOMAIN w.files)
  PROVE  LET merged == Merge(c, Scan(w, dnum, fnum))
         IN  Depicts(merged.catalog, w) /\ Follows(c, merged.catalog, merged.changes)
<1> DEFINE tx == Scan(w, dnum, fnum)
           n == Remapped(c, tx)
           before == Before(c)
           files == WithPaths(n.dirs, n.files)
           changed == Diff(before, files)
           m == Merge(c, tx).catalog
<1>1. /\ m.dirs = n.dirs /\ m.root = n.root
      /\ m.files = Apply(c.files, changed, files)
      /\ Merge(c, tx).changes = changed
  BY DEF Merge, Catalog, Before
<1>2. Depicts(n, w) /\ SamePlaces(c, n) /\ \A k \in DOMAIN n.files : n.files[k].path # <<>>
  BY RemappedDepicts
<1> HIDE DEF n, m, changed, tx
(* The scan's files have their paths. *)
<1>3. /\ DOMAIN files = DOMAIN n.files
      /\ \A k \in DOMAIN n.files : \E f \in DOMAIN w.files :
           /\ Holds(n.dirs, n.files[k], w, f) /\ Holds(n.dirs, files[k], w, f)
           /\ files[k].path = PathSeen(w, f)
           /\ n.files[k].path = PathSeen(w, f)
  <2>1. DOMAIN files = DOMAIN n.files
    BY DEF WithPaths
  <2>2. ASSUME NEW k \in DOMAIN n.files
        PROVE  \E f \in DOMAIN w.files :
                 /\ Holds(n.dirs, n.files[k], w, f) /\ Holds(n.dirs, files[k], w, f)
                 /\ files[k].path = PathSeen(w, f)
                 /\ n.files[k].path = PathSeen(w, f)
    <3>1. PICK f \in DOMAIN w.files : Holds(n.dirs, n.files[k], w, f)
      BY <1>2 DEF Depicts, FilesDepict
    <3> DEFINE r == n.files[k]
    <3>2. r.path = PathSeen(w, f) /\ r.parent \in Int
      BY <1>2, <3>1 DEF Holds, FileRecord
    <3>3. files[k] = [name |-> f[2], parent |-> r.parent, data |-> w.files[f], path |-> PathSeen(w, f)]
      BY <3>1, WithPathsFacts
    <3>4. PathSeen(w, f) \in Seq(Atoms) /\ r.name = f[2] /\ r.data = w.files[f]
          /\ r.name \in Names /\ r.data \in Data
      BY <3>1, HoldsPath DEF Holds, FileRecord
    <3> HIDE DEF files, r
    <3>5. files[k].name = r.name /\ files[k].data = r.data /\ files[k].parent = r.parent
          /\ files[k].path = PathSeen(w, f) /\ files[k] \in FileRecord
      BY <3>2, <3>3, <3>4 DEF FileRecord
    <3>6. Holds(n.dirs, files[k], w, f)
      BY <3>1, <3>5 DEF Holds, r
    <3> QED BY <3>1, <3>2, <3>5, <3>6 DEF r
  <2> QED BY <2>1, <2>2
(* The earlier files with their paths. *)
<1>4. /\ DOMAIN before = DOMAIN c.files
      /\ \A k \in DOMAIN c.files :
           /\ c.files[k] \in FileRecord /\ before[k].path = PathOf(c, k)
           /\ before[k].name = c.files[k].name /\ before[k].parent = c.files[k].parent
           /\ before[k].data = c.files[k].data
           /\ c.files[k].path # <<>> => before[k].path = c.files[k].path
  <2>1. DOMAIN before = DOMAIN c.files
    BY DEF Before, WithPaths
  <2> SUFFICES ASSUME NEW k \in DOMAIN c.files
               PROVE  /\ c.files[k] \in FileRecord /\ before[k].path = PathOf(c, k)
                      /\ before[k].name = c.files[k].name /\ before[k].parent = c.files[k].parent
                      /\ before[k].data = c.files[k].data
                      /\ c.files[k].path # <<>> => before[k].path = c.files[k].path
    BY <2>1
  <2>2. PICK f \in DOMAIN v.files : Holds(c.dirs, c.files[k], v, f)
    BY DEF Depicts, FilesDepict
  <2>3. before[k] = [name |-> f[2], parent |-> c.files[k].parent, data |-> v.files[f],
                     path |-> PathSeen(v, f)]
    BY <2>2, WithPathsFacts DEF Before
  <2>4. PathOf(c, k) = PathSeen(v, f)
    <3>1. FullPath(c.dirs, c.files[k]) = PathSeen(v, f)
      BY <2>2, StoredPath
    <3> QED BY <3>1 DEF PathOf
  <2>5. c.files[k] \in FileRecord /\ c.files[k].name = f[2] /\ c.files[k].data = v.files[f]
        /\ (c.files[k].path = <<>> \/ c.files[k].path = PathSeen(v, f))
    BY <2>2 DEF Holds
  <2> HIDE DEF before
  <2> QED BY <2>3, <2>4, <2>5
<1>5. \A k \in DOMAIN c.files : Same(c.files[k], before[k])
  BY <1>4 DEF Same
<1> HIDE DEF files, before
<1>6. DOMAIN m.files = DOMAIN files /\ \A k \in DOMAIN files : Same(m.files[k], files[k])
  <2>1. LET merged == Apply(c.files, Diff(before, files), files)
        IN  /\ DOMAIN merged = DOMAIN files
            /\ \A i \in DOMAIN files : Same(merged[i], files[i])
    BY <1>4, <1>5, MergeIsCurrent
  <2> QED BY <1>1, <2>1 DEF changed
<1>7. \A k \in DOMAIN files : m.files[k] = files[k] \/ (k \in DOMAIN c.files /\ m.files[k] = c.files[k])
  <2> SUFFICES ASSUME NEW k \in DOMAIN files
               PROVE  m.files[k] = files[k] \/ (k \in DOMAIN c.files /\ m.files[k] = c.files[k])
    OBVIOUS
  <2>1. m.files[k] = IF k \in DOMAIN changed THEN files[k] ELSE c.files[k]
    BY <1>1, <1>6 DEF Apply
  <2>2. k \notin DOMAIN changed => k \in DOMAIN c.files
    BY <1>4 DEF changed, Diff
  <2> QED BY <2>1, <2>2
(* A file that keeps its record had the same path. *)
<1>8. ASSUME NEW k \in DOMAIN m.files
      PROVE  \E f \in DOMAIN w.files :
               /\ Holds(m.dirs, m.files[k], w, f) /\ Holds(n.dirs, n.files[k], w, f)
               /\ PathOf(m, k) = PathSeen(w, f) /\ FullPath(n.dirs, n.files[k]) = PathSeen(w, f)
               /\ n.files[k].path = PathSeen(w, f)
  <2>1. PICK f \in DOMAIN w.files :
          /\ Holds(n.dirs, n.files[k], w, f) /\ Holds(n.dirs, files[k], w, f)
          /\ files[k].path = PathSeen(w, f) /\ n.files[k].path = PathSeen(w, f)
    BY <1>3, <1>6, <1>8
  <2>2. Holds(n.dirs, m.files[k], w, f)
    <3>1. CASE m.files[k] = files[k]
      BY <2>1, <3>1
    <3>2. CASE k \in DOMAIN c.files /\ m.files[k] = c.files[k]
      <4>1. before[k].path = n.files[k].path
        BY <1>2, <1>3, <1>6, <1>8, <3>2 DEF SamePlaces, before
      <4>2. m.files[k] \in FileRecord /\ (m.files[k].path = <<>> \/ m.files[k].path = PathSeen(w, f))
        BY <1>4, <2>1, <3>2, <4>1
      <4>3. m.files[k].name = files[k].name /\ m.files[k].parent = files[k].parent
            /\ m.files[k].data = files[k].data
        BY <1>6, <1>8 DEF Same
      <4> QED BY <2>1, <4>2, <4>3 DEF Holds
    <3> QED BY <1>6, <1>7, <1>8, <3>1, <3>2
  <2>3. FullPath(n.dirs, m.files[k]) = PathSeen(w, f)
    BY <2>2, StoredPath, Zenon
  <2>4. FullPath(n.dirs, n.files[k]) = PathSeen(w, f)
    BY <2>1, StoredPath, Zenon
  <2> QED BY <1>1, <2>1, <2>2, <2>3, <2>4 DEF PathOf
<1>9. DOMAIN m.files = DOMAIN n.files
  BY <1>3, <1>6
<1>10. \A k \in DOMAIN m.files : PathOf(m, k) = FullPath(n.dirs, n.files[k])
                                 /\ PathOf(m, k) = n.files[k].path
  BY <1>8
<1>11. Depicts(m, w)
  <2>1. FilesDepict(m.dirs, m.files, w)
    <3>1. \A k \in DOMAIN m.files : \E f \in DOMAIN w.files : Holds(m.dirs, m.files[k], w, f)
      BY <1>8
    <3>2. \A f \in DOMAIN w.files : \E k \in DOMAIN m.files :
            FullPath(m.dirs, m.files[k]) = PathSeen(w, f)
      BY <1>2, <1>9, <1>10 DEF Depicts, FilesDepict, PathOf
    <3>3. ASSUME Distinct(w), NEW k \in DOMAIN m.files, NEW l \in DOMAIN m.files,
                 FullPath(m.dirs, m.files[k]) = FullPath(m.dirs, m.files[l])
          PROVE  k = l
      <4>1. FullPath(n.dirs, n.files[k]) = FullPath(n.dirs, n.files[l])
        BY <1>10, <3>3 DEF PathOf
      <4> QED BY <1>2, <1>9, <3>3, <4>1 DEF Depicts, FilesDepict
    <3> QED BY <3>1, <3>2, <3>3 DEF FilesDepict
  <2> QED BY <1>1, <1>2, <1>9, <2>1 DEF Depicts
<1>12. Follows(c, m, changed)
  <2>1. \A k \in DOMAIN m.files :
          /\ k \in DOMAIN c.files => PathOf(c, k) = PathOf(m, k)
          /\ \A l \in DOMAIN c.files : PathOf(c, l) = PathOf(m, k) => k \in DOMAIN c.files
    BY <1>2, <1>4, <1>9, <1>10 DEF SamePlaces, before
  <2>2. \A i \in DOMAIN m.dirs, j \in DOMAIN c.dirs : m.dirs[i].path = c.dirs[j].path => i = j
    BY <1>1, <1>2 DEF SamePlaces
  <2>3. \A k : k \in DOMAIN c.files /\ k \in DOMAIN m.files =>
               (Same(before[k], files[k]) <=> Same(c.files[k], m.files[k]))
    BY <1>5, <1>6 DEF Same
  <2>4. DOMAIN changed = {k \in DOMAIN c.files \cup DOMAIN m.files :
                            k \in DOMAIN c.files /\ k \in DOMAIN m.files =>
                              ~Same(c.files[k], m.files[k])}
    <3>1. DOMAIN changed = {k \in DOMAIN before \cup DOMAIN files :
                              k \in DOMAIN before /\ k \in DOMAIN files => ~Same(before[k], files[k])}
      BY DEF changed, Diff
    <3> QED BY <1>4, <1>6, <2>3, <3>1
  <2>5. ASSUME NEW k \in DOMAIN changed
        PROVE  /\ k \notin DOMAIN c.files => changed[k] = "added"
               /\ k \in DOMAIN c.files /\ k \notin DOMAIN m.files => changed[k] = "removed"
               /\ k \in DOMAIN c.files /\ k \in DOMAIN m.files =>
                    IF m.files[k].parent # c.files[k].parent THEN changed[k] = "moved"
                    ELSE IF m.files[k].name # c.files[k].name THEN changed[k] = "renamed"
                    ELSE changed[k] = "modified"
    <3>1. changed[k] = IF k \notin DOMAIN before THEN "added"
                       ELSE IF k \notin DOMAIN files THEN "removed"
                       ELSE Kind(before[k], files[k])
      BY <2>5 DEF changed, Diff
    <3>2. ASSUME k \in DOMAIN c.files, k \in DOMAIN m.files
          PROVE  /\ before[k].path = files[k].path
                 /\ before[k].parent = c.files[k].parent /\ before[k].name = c.files[k].name
                 /\ files[k].parent = m.files[k].parent /\ files[k].name = m.files[k].name
      <4>1. before[k].path = n.files[k].path /\ files[k].path = n.files[k].path
        BY <1>2, <1>3, <1>9, <3>2 DEF SamePlaces, before
      <4> QED BY <1>4, <1>6, <3>2, <4>1 DEF Same
    <3>3. ASSUME k \in DOMAIN c.files, k \in DOMAIN m.files
          PROVE  IF m.files[k].parent # c.files[k].parent THEN changed[k] = "moved"
                 ELSE IF m.files[k].name # c.files[k].name THEN changed[k] = "renamed"
                 ELSE changed[k] = "modified"
      BY <1>4, <1>6, <3>1, <3>2, <3>3 DEF Kind, Moves, Renames
    <3> QED BY <1>4, <1>6, <3>1, <3>3
  <2> QED BY <2>1, <2>2, <2>4, <2>5 DEF Follows
<1> QED BY <1>1, <1>11, <1>12 DEF m, tx

-----------------------------------------------------------------------------
(* What a catalog that shows a scan is good for. *)

LEMMA DepictedIsSeen ==
  ASSUME NEW w \in Worlds, NEW c, Depicts(c, w)
  PROVE  /\ {c.dirs[i].path : i \in DOMAIN c.dirs} = {DirPath(d) : d \in Known(w)}
         /\ Distinct(w) => Shown(c) = Seen(w)
<1>1. {c.dirs[i].path : i \in DOMAIN c.dirs} = {DirPath(d) : d \in Known(w)}
  <2>1. \A i \in DOMAIN c.dirs : \E e \in Known(w) : c.dirs[i].path = DirPath(e)
    BY RecordFacts DEF Depicts, DirsDepict
  <2>2. \A e \in Known(w) : \E i \in DOMAIN c.dirs : c.dirs[i].path = DirPath(e)
    BY DEF Depicts, DirsDepict
  <2> HIDE DEF DirPath
  <2> QED BY <2>1, <2>2
<1>2. ASSUME Distinct(w) PROVE Shown(c) = Seen(w)
  <2> DEFINE shown(i) == [path |-> FullPath(c.dirs, [c.files[i] EXCEPT !.path = <<>>]),
                          data |-> c.files[i].data]
             seen(f) == [path |-> PathSeen(w, f), data |-> w.files[f]]
  <2>1. Shown(c) = {shown(i) : i \in DOMAIN c.files} /\ Seen(w) = {seen(f) : f \in DOMAIN w.files}
    BY DEF Shown, Seen, PathSeen
  <2>2. ASSUME NEW i \in DOMAIN c.files, NEW f \in DOMAIN w.files, Holds(c.dirs, c.files[i], w, f)
        PROVE  shown(i) = seen(f) /\ FullPath(c.dirs, c.files[i]) = PathSeen(w, f)
    <3>1. /\ FullPath(c.dirs, c.files[i]) = PathSeen(w, f)
          /\ FullPath(c.dirs, [c.files[i] EXCEPT !.path = <<>>]) = PathSeen(w, f)
      BY <2>2, HoldsPath
    <3> QED BY <2>2, <3>1 DEF Holds
  <2> HIDE DEF shown, seen
  <2>3. \A i \in DOMAIN c.files : \E f \in DOMAIN w.files : shown(i) = seen(f)
    BY <2>2 DEF Depicts, FilesDepict
  <2>4. ASSUME NEW f \in DOMAIN w.files PROVE \E i \in DOMAIN c.files : shown(i) = seen(f)
    <3>1. PICK i \in DOMAIN c.files : FullPath(c.dirs, c.files[i]) = PathSeen(w, f)
      BY DEF Depicts, FilesDepict
    <3>2. PICK g \in DOMAIN w.files : Holds(c.dirs, c.files[i], w, g)
      BY DEF Depicts, FilesDepict
    <3>3. g = f
      BY <1>2, <2>2, <3>1, <3>2, DistinctPaths
    <3> QED BY <2>2, <3>2, <3>3
  <2> QED BY <2>1, <2>3, <2>4
<1> QED BY <1>1, <1>2

LEMMA SeenOnce ==
  ASSUME NEW w \in Worlds, Distinct(w), NEW f \in DOMAIN w.files, NEW d
  PROVE  [path |-> PathSeen(w, f), data |-> d] \in Seen(w) <=> d = w.files[f]
<1> DEFINE seen(g) == [path |-> PathSeen(w, g), data |-> w.files[g]]
           r == [path |-> PathSeen(w, f), data |-> d]
<1>1. Seen(w) = {seen(g) : g \in DOMAIN w.files}
  BY DEF Seen, PathSeen
<1>2. ASSUME NEW g \in DOMAIN w.files, r = seen(g) PROVE d = w.files[f]
  <2>1. PathSeen(w, f) = PathSeen(w, g) /\ d = w.files[g]
    <3>1. r.path = seen(g).path /\ r.data = seen(g).data
      BY <1>2
    <3> QED BY <3>1
  <2> QED BY <2>1, DistinctPaths
<1>3. d = w.files[f] => r = seen(f)
  OBVIOUS
<1> HIDE DEF seen, r
<1>4. r \in Seen(w) <=> d = w.files[f]
  BY <1>1, <1>2, <1>3
<1> QED BY <1>4 DEF r

LEMMA IdsKept ==
  ASSUME NEW v \in Worlds, NEW w \in Worlds, NEW c, NEW m, NEW changed,
         Depicts(c, v), Depicts(m, w), Follows(c, m, changed), Distinct(v), Distinct(w),
         NEW p \in Paths(c) \cap Paths(m)
  PROVE  Ids(c, p) = Ids(m, p)
<1>1. PICK l \in DOMAIN c.files, n \in DOMAIN m.files : PathOf(c, l) = p /\ PathOf(m, n) = p
  BY DEF Paths
<1>2. ASSUME NEW k \in DOMAIN m.files, PathOf(m, k) = p
      PROVE  k \in DOMAIN c.files /\ PathOf(c, k) = p
  BY <1>1, <1>2 DEF Follows
<1>3. \A j, k \in DOMAIN c.files : PathOf(c, j) = PathOf(c, k) => j = k
  BY DEF Depicts, FilesDepict, PathOf
<1>4. \A j \in DOMAIN c.files : PathOf(c, j) = p => j = n
  BY <1>1, <1>2, <1>3
<1> QED BY <1>1, <1>2, <1>4 DEF Ids

LEMMA ChangesKept ==
  ASSUME NEW v \in Worlds, NEW w \in Worlds, NEW c, NEW m, NEW changed,
         Depicts(c, v), Depicts(m, w), Follows(c, m, changed), Distinct(v), Distinct(w),
         v.lost = {}, w.lost = {}
  PROVE  LET kind(k) == {i \in DOMAIN changed : changed[i] = k}
         IN  /\ {PathOf(m, i) : i \in kind("added")} = Paths(m) \ Paths(c)
             /\ {PathOf(c, i) : i \in kind("removed")} = Paths(c) \ Paths(m)
             /\ {PathOf(m, i) : i \in kind("modified")}
                  = {p \in Paths(c) \cap Paths(m) :
                       \A d \in Data : [path |-> p, data |-> d] \notin Seen(v) \cap Seen(w)}
             /\ kind("moved") = {} /\ kind("renamed") = {}
<1> DEFINE kind(k) == {i \in DOMAIN changed : changed[i] = k}
<1>1. /\ Paths(c) = {PathOf(c, i) : i \in DOMAIN c.files}
      /\ Paths(m) = {PathOf(m, i) : i \in DOMAIN m.files}
  BY DEF Paths
<1>2. \A j, k \in DOMAIN c.files : PathOf(c, j) = PathOf(c, k) => j = k
  BY DEF Depicts, FilesDepict, PathOf
<1>3. \A k \in DOMAIN m.files :
        /\ k \in DOMAIN c.files => PathOf(c, k) = PathOf(m, k)
        /\ \A l \in DOMAIN c.files : PathOf(c, l) = PathOf(m, k) => k \in DOMAIN c.files
  BY SMTT(60) DEF Follows
(* A file in both catalogs has the same directory and name. *)
<1>4. ASSUME NEW k \in DOMAIN c.files, k \in DOMAIN m.files
      PROVE  \E f \in DOMAIN v.files :
               /\ f \in DOMAIN w.files /\ Holds(c.dirs, c.files[k], v, f) /\ Holds(m.dirs, m.files[k], w, f)
               /\ PathOf(m, k) = PathSeen(v, f) /\ PathOf(m, k) = PathSeen(w, f)
               /\ m.files[k].parent = c.files[k].parent /\ m.files[k].name = c.files[k].name
               /\ c.files[k].data = v.files[f] /\ m.files[k].data = w.files[f]
  <2>1. PICK f \in DOMAIN v.files : Holds(c.dirs, c.files[k], v, f)
    BY DEF Depicts, FilesDepict
  <2>2. PICK g \in DOMAIN w.files : Holds(m.dirs, m.files[k], w, g)
    BY <1>4 DEF Depicts, FilesDepict
  <2>3. FullPath(c.dirs, c.files[k]) = PathSeen(v, f) /\ FullPath(m.dirs, m.files[k]) = PathSeen(w, g)
    <3>1. FullPath(c.dirs, c.files[k]) = PathSeen(v, f)
      BY <2>1, StoredPath
    <3>2. FullPath(m.dirs, m.files[k]) = PathSeen(w, g)
      BY <2>2, StoredPath
    <3> QED BY <3>1, <3>2
  <2>4. PathOf(c, k) = PathSeen(v, f) /\ PathOf(m, k) = PathSeen(w, g) /\ PathOf(c, k) = PathOf(m, k)
    BY <1>3, <1>4, <2>3 DEF PathOf
  <2>5. f[1] \notin v.lost /\ g[1] \notin w.lost
    OBVIOUS
  <2>6. Append(DirPath(f[1]), f[2]) = Append(DirPath(g[1]), g[2])
    BY <2>4, <2>5 DEF PathSeen
  <2>7. f = <<f[1], f[2]>> /\ g = <<g[1], g[2]>> /\ f[2] \in Names /\ g[2] \in Names
        /\ f[1] \in {"root"} \cup DirNames /\ g[1] \in {"root"} \cup DirNames
    BY WorldFacts
  <2> HIDE DEF DirPath
  <2>8. f[1] = g[1] /\ f[2] = g[2]
    <3>1. PICK d \in {"root"} \cup DirNames, n \in Names, e \in {"root"} \cup DirNames, name \in Names :
            d = f[1] /\ n = f[2] /\ e = g[1] /\ name = g[2]
      BY <2>7
    <3>2. Append(DirPath(d), n) = Append(DirPath(e), name)
      BY <2>6, <3>1
    <3>3. d = e /\ n = name
      BY <3>2, PathParts
    <3> QED BY <3>1, <3>3
  <2>9. f = g
    BY <2>7, <2>8
  <2>10. m.files[k].parent = c.files[k].parent
    <3>1. /\ m.files[k].parent \in DOMAIN m.dirs /\ m.dirs[m.files[k].parent].path = DirPath(f[1])
          /\ c.files[k].parent \in DOMAIN c.dirs /\ c.dirs[c.files[k].parent].path = DirPath(f[1])
      BY <2>1, <2>2, <2>5, <2>9 DEF Holds
    <3> QED BY <3>1 DEF Follows
  <2> QED BY <2>1, <2>2, <2>4, <2>9, <2>10 DEF Holds
<1>5. DOMAIN changed = {k \in DOMAIN c.files \cup DOMAIN m.files :
                         k \in DOMAIN c.files /\ k \in DOMAIN m.files =>
                           c.files[k].data # m.files[k].data}
  BY <1>4 DEF Follows, Same
<1>6. /\ kind("added") = DOMAIN m.files \ DOMAIN c.files
      /\ kind("removed") = DOMAIN c.files \ DOMAIN m.files
      /\ kind("modified") = {k \in DOMAIN c.files \cap DOMAIN m.files :
                               c.files[k].data # m.files[k].data}
      /\ kind("moved") = {} /\ kind("renamed") = {}
  <2>1. \A k \in DOMAIN changed :
          changed[k] = IF k \notin DOMAIN c.files THEN "added"
                       ELSE IF k \notin DOMAIN m.files THEN "removed" ELSE "modified"
    BY <1>4, <1>5 DEF Follows
  <2> QED BY <1>5, <2>1
<1> HIDE DEF kind
<1>7. {PathOf(m, i) : i \in kind("added")} = Paths(m) \ Paths(c)
  BY <1>1, <1>3, <1>6
<1>8. {PathOf(c, i) : i \in kind("removed")} = Paths(c) \ Paths(m)
  BY <1>1, <1>2, <1>3, <1>6
<1>9. \A k \in DOMAIN c.files \cap DOMAIN m.files :
        c.files[k].data # m.files[k].data <=>
          \A d \in Data : [path |-> PathOf(m, k), data |-> d] \notin Seen(v) \cap Seen(w)
  <2> SUFFICES ASSUME NEW k \in DOMAIN c.files \cap DOMAIN m.files
               PROVE  c.files[k].data # m.files[k].data <=>
                        \A d \in Data : [path |-> PathOf(m, k), data |-> d] \notin Seen(v) \cap Seen(w)
    OBVIOUS
  <2>1. PICK f \in DOMAIN v.files :
          /\ f \in DOMAIN w.files /\ PathOf(m, k) = PathSeen(v, f) /\ PathOf(m, k) = PathSeen(w, f)
          /\ c.files[k].data = v.files[f] /\ m.files[k].data = w.files[f]
    BY <1>4
  <2>2. ASSUME NEW d \in Data
        PROVE  /\ [path |-> PathOf(m, k), data |-> d] \in Seen(v) <=> d = v.files[f]
               /\ [path |-> PathOf(m, k), data |-> d] \in Seen(w) <=> d = w.files[f]
    <3>1. [path |-> PathSeen(v, f), data |-> d] \in Seen(v) <=> d = v.files[f]
      BY SeenOnce
    <3>2. f \in DOMAIN w.files
      BY <2>1
    <3>3. [path |-> PathSeen(w, f), data |-> d] \in Seen(w) <=> d = w.files[f]
      BY <3>2, SeenOnce
    <3> QED BY <2>1, <3>1, <3>3
  <2>3. v.files[f] \in Data
    BY WorldFacts
  <2> QED BY <2>1, <2>2, <2>3
<1>10. {PathOf(m, i) : i \in kind("modified")}
         = {p \in Paths(c) \cap Paths(m) :
              \A d \in Data : [path |-> p, data |-> d] \notin Seen(v) \cap Seen(w)}
  <2> DEFINE Apart(p) == \A d \in Data : [path |-> p, data |-> d] \notin Seen(v) \cap Seen(w)
  <2>1. \A k \in DOMAIN c.files \cap DOMAIN m.files :
          c.files[k].data # m.files[k].data <=> Apart(PathOf(m, k))
    BY <1>9
  <2>2. \A p \in Paths(c) \cap Paths(m) :
          \E k \in DOMAIN c.files \cap DOMAIN m.files : PathOf(m, k) = p
    BY <1>1, <1>3
  <2>3. \A k \in DOMAIN c.files \cap DOMAIN m.files : PathOf(m, k) \in Paths(c) \cap Paths(m)
    BY <1>1, <1>3
  <2> HIDE DEF Apart
  <2>4. {PathOf(m, i) : i \in kind("modified")} = {p \in Paths(c) \cap Paths(m) : Apart(p)}
    BY <1>6, <2>1, <2>2, <2>3
  <2> QED BY <2>4 DEF Apart
<1> QED BY <1>6, <1>7, <1>8, <1>10 DEF kind

-----------------------------------------------------------------------------
(* The specification. *)

LEMMA InitRescan == Init => RescanInv
<1> SUFFICES ASSUME Init PROVE RescanInv
  OBVIOUS
<1>1. PICK dnum \in DirNumberings(world.dirs), fnum \in FileNumberings(DOMAIN world.files) :
        state = Scan(world, dnum, fnum)
  BY DEF Init
<1>2. world \in Worlds /\ rescans = 0 /\ changes = <<>> /\ 0 \in 0..Rescans
  BY RescanAssumption DEF Init
<1>3. Depicts(state, world)
  BY <1>1, <1>2, ScanDepicts
<1>4. \A i \in DOMAIN changes : changes[i] \in Kinds
  BY <1>2
<1> QED BY <1>2, <1>3, <1>4 DEF RescanInv

LEMMA RescanFollows ==
  ASSUME RescanInv, Rescan
  PROVE  RescanInv' /\ Follows(state, state', changes')
<1>1. /\ world' \in Worlds /\ rescans' = rescans + 1 /\ rescans < Rescans
      /\ world \in Worlds /\ rescans \in 0..Rescans /\ Depicts(state, world)
  BY DEF Rescan, RescanInv
<1>2. PICK dnum \in DirNumberings(world'.dirs), fnum \in FileNumberings(DOMAIN world'.files) :
        /\ state' = Merge(state, Scan(world', dnum, fnum)).catalog
        /\ changes' = Merge(state, Scan(world', dnum, fnum)).changes
  BY DEF Rescan
<1>3. PICK v, w, c, m, changed :
        /\ v \in Worlds /\ w \in Worlds /\ v = world /\ w = world'
        /\ c = state /\ m = state' /\ changed = changes'
  BY <1>1
<1>4. LET merged == Merge(c, Scan(w, dnum, fnum))
      IN  Depicts(merged.catalog, w) /\ Follows(c, merged.catalog, merged.changes)
  BY <1>1, <1>2, <1>3, MergeDepicts
<1>5. Depicts(m, w) /\ Follows(c, m, changed)
  BY <1>2, <1>3, <1>4
<1>6. \A k \in DOMAIN changed : changed[k] \in Kinds
  BY <1>5 DEF Follows, Kinds
<1>7. rescans' \in 0..Rescans
  BY <1>1, RescanAssumption
<1> QED BY <1>1, <1>3, <1>5, <1>6, <1>7 DEF RescanInv

(* The run's invariants follow from the one below at every step: the       *)
(* catalog shows what the last scan saw.                                   *)
LEMMA RescanCorrect == Spec => []RescanInv
<1>1. RescanInv /\ UNCHANGED vars => RescanInv'
  BY DEF RescanInv, vars
<1>2. RescanInv /\ [Next]_vars => RescanInv'
  BY <1>1, RescanFollows DEF Next
<1> QED BY InitRescan, <1>2, PTL DEF Spec

(* The type invariant, with the kinds of changes: no record of a file is   *)
(* left without a parent, and no identifier means none.                    *)
THEOREM RescanTypeCorrect == Spec => []TypeOK
<1>1. RescanInv => TypeOK
  <2> SUFFICES ASSUME RescanInv PROVE TypeOK
    OBVIOUS
  <2>1. \A i \in DOMAIN state.files :
          state.files[i].name \in Names /\ state.files[i].data \in Data /\ state.files[i].parent # NoId
    BY DEF RescanInv, Depicts, FilesDepict, Holds, FileRecord
  <2>2. \A i \in DOMAIN state.dirs : i # NoId
    BY DEF RescanInv, Depicts, Bounded, NoId
  <2> QED BY <2>1, <2>2 DEF TypeOK, RescanInv, Kinds
<1> QED BY <1>1, RescanCorrect, PTL

(* The merged catalog is what the last scan saw, whatever numbers the      *)
(* scans gave and whichever directory records they missed: nothing removed *)
(* stays, nothing found is lost, and each file is under its own directory  *)
(* (apply_path_matched_incremental_transaction).                           *)
THEOREM CatalogAlwaysTheScan == Spec => []CatalogIsScan
<1>1. RescanInv => CatalogIsScan
  <2> SUFFICES ASSUME RescanInv PROVE CatalogIsScan
    OBVIOUS
  <2>1. world \in Worlds /\ Depicts(state, world)
    BY DEF RescanInv
  <2>2. /\ {state.dirs[i].path : i \in DOMAIN state.dirs} = {DirPath(d) : d \in Known(world)}
        /\ Distinct(world) => Shown(state) = Seen(world)
    BY <2>1, DepictedIsSeen
  <2> QED BY <2>1, <2>2 DEF CatalogIsScan, Known, Depicts
<1> QED BY <1>1, RescanCorrect, PTL

(* The path that a merged record stores is the one that its parents give,  *)
(* though the records come from different scans.                           *)
THEOREM PathsAlwaysAgree == Spec => []PathsAgree
<1>1. RescanInv => PathsAgree
  <2> SUFFICES ASSUME RescanInv PROVE PathsAgree
    OBVIOUS
  <2>1. world \in Worlds /\ Depicts(state, world)
    BY DEF RescanInv
  <2>2. ASSUME NEW i \in DOMAIN state.files
        PROVE  FullPath(state.dirs, state.files[i])
                 = FullPath(state.dirs, [state.files[i] EXCEPT !.path = <<>>])
    <3>1. PICK f \in DOMAIN world.files : Holds(state.dirs, state.files[i], world, f)
      BY <2>1 DEF Depicts, FilesDepict
    <3> QED BY <2>1, <3>1, HoldsPath
  <2>3. ASSUME NEW i \in DOMAIN state.dirs
        PROVE  state.dirs[i].parent = (IF state.dirs[i].path = DirPath("root") THEN NoId ELSE RootId)
    <3>1. PICK e \in Known(world) : state.dirs[i] = DirRecord(e)
      BY <2>1 DEF Depicts, DirsDepict
    <3>2. state.dirs[i].path = DirPath(e)
          /\ state.dirs[i].parent = IF e = "root" THEN NoId ELSE RootId
      BY <3>1, RecordFacts
    <3>3. e \in {"root"} \cup DirNames
      BY <2>1, WorldFacts DEF Known
    <3>4. DirPath(e) = DirPath("root") <=> e = "root"
      BY <3>3, DirPathFacts
    <3> QED BY <3>2, <3>4
  <2> QED BY <2>2, <2>3 DEF PathsAgree
<1> QED BY <1>1, RescanCorrect, PTL

(* Identifiers are stable: a path that is in two consecutive catalogs has  *)
(* the same identifier in both (remap_current_files_by_path).              *)
THEOREM IdsAlwaysStable == Spec => IdsStable
<1> DEFINE Stable == \A p \in Paths(state) \cap Paths(state') :
                       Distinct(world) /\ Distinct(world') => Ids(state, p) = Ids(state', p)
<1>1. ASSUME RescanInv, Rescan PROVE Stable
  <2>1. RescanInv' /\ Follows(state, state', changes')
    BY <1>1, RescanFollows
  <2>2. PICK v, w, c, m, changed :
          /\ v \in Worlds /\ w \in Worlds /\ v = world /\ w = world'
          /\ c = state /\ m = state' /\ changed = changes'
          /\ Depicts(c, v) /\ Depicts(m, w) /\ Follows(c, m, changed)
    BY <1>1, <2>1 DEF RescanInv
  <2>3. ASSUME NEW p \in Paths(c) \cap Paths(m), Distinct(v), Distinct(w)
        PROVE  Ids(c, p) = Ids(m, p)
    BY <2>2, <2>3, IdsKept
  <2> QED BY <2>2, <2>3
<1>2. RescanInv /\ [Next]_vars => [Stable]_vars
  BY <1>1 DEF Next
<1>3. Spec => [][Next]_vars
  BY DEF Spec
<1> QED BY <1>2, <1>3, RescanCorrect, PTL DEF IdsStable

(* The change set of a rescan is exact: what came, went and changed, and   *)
(* no false moves by the numbers of a scan (diff_file_records).            *)
THEOREM ChangesAlwaysExact == Spec => ChangesExact
<1> DEFINE Exact ==
      Distinct(world) /\ Distinct(world') /\ world.lost = {} /\ world'.lost = {} =>
        LET kind(k) == {i \in DOMAIN changes' : changes'[i] = k}
        IN  /\ {PathOf(state', i) : i \in kind("added")} = Paths(state') \ Paths(state)
            /\ {PathOf(state, i) : i \in kind("removed")} = Paths(state) \ Paths(state')
            /\ {PathOf(state', i) : i \in kind("modified")}
                 = {p \in Paths(state) \cap Paths(state') :
                      \A d \in Data : [path |-> p, data |-> d] \notin Seen(world) \cap Seen(world')}
            /\ kind("moved") = {} /\ kind("renamed") = {}
<1>1. ASSUME RescanInv, Rescan PROVE Exact
  <2>1. RescanInv' /\ Follows(state, state', changes')
    BY <1>1, RescanFollows
  <2>2. PICK v, w, c, m, changed :
          /\ v \in Worlds /\ w \in Worlds /\ v = world /\ w = world'
          /\ c = state /\ m = state' /\ changed = changes'
          /\ Depicts(c, v) /\ Depicts(m, w) /\ Follows(c, m, changed)
    BY <1>1, <2>1 DEF RescanInv
  <2>3. ASSUME Distinct(v), Distinct(w), v.lost = {}, w.lost = {}
        PROVE  LET kind(k) == {i \in DOMAIN changed : changed[i] = k}
               IN  /\ {PathOf(m, i) : i \in kind("added")} = Paths(m) \ Paths(c)
                   /\ {PathOf(c, i) : i \in kind("removed")} = Paths(c) \ Paths(m)
                   /\ {PathOf(m, i) : i \in kind("modified")}
                        = {p \in Paths(c) \cap Paths(m) :
                             \A d \in Data : [path |-> p, data |-> d] \notin Seen(v) \cap Seen(w)}
                   /\ kind("moved") = {} /\ kind("renamed") = {}
    BY <2>2, <2>3, ChangesKept
  <2> QED BY <2>2, <2>3
<1>2. RescanInv /\ [Next]_vars => [Exact]_vars
  BY <1>1 DEF Next
<1>3. Spec => [][Next]_vars
  BY DEF Spec
<1> QED BY <1>2, <1>3, RescanCorrect, PTL DEF ChangesExact
=============================================================================
