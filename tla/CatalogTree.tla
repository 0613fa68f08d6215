----------------------------- MODULE CatalogTree ----------------------------
(***************************************************************************)
(* The display tree over the records of one catalog: the order by id, the  *)
(* root, the parent of every directory and file, the totals of every       *)
(* directory and the listings by size.                                     *)
(*                                                                         *)
(* A directory record is [id, parent, name, path] with parent = NoId when  *)
(* it has none; a file record is [id, parent, name, path, size, alloc,     *)
(* modified] with an empty path when the scanner stored none and modified  *)
(* = NoTime when the date is unknown.  Names and paths are sequences of    *)
(* characters.  Directories and files of a tree are named by their index   *)
(* in the sequences sorted by id, from 1; index 0 means "none".  Sorts by  *)
(* size leave ties in the order of the index (the code's unstable sorts    *)
(* may leave them in any order; no property depends on it).                *)
(***************************************************************************)
EXTENDS Integers, Sequences, SequencesExt, FiniteSets, FiniteSetsExt

CONSTANTS
  RootId,         \* record number of the root of a volume (5)
  MaxBytes,       \* the largest byte count (u64::MAX)
  CacheCap        \* files in the remembered order by size (10000)

NoId   == -1      \* no parent directory
NoTime == -1      \* no date

SatAdd(a, b) == IF a + b > MaxBytes THEN MaxBytes ELSE a + b

MaxTime(a, b) == IF a >= b THEN a ELSE b

Swapped(s, i, j) == [s EXCEPT ![i] = s[j], ![j] = s[i]]

-----------------------------------------------------------------------------
(* Sorting the records by id. *)

KeyOrdered(s) == \A i \in 1 .. Len(s) - 1 : s[i].id <= s[i + 1].id

LowestId(s) == Min({s[i].id : i \in 1 .. Len(s)})

\* Records whose ids fill a range are swapped to the place their id names;
\* a second record with the id of the place ends the attempt.
RECURSIVE PlaceFrom(_, _, _)
PlaceFrom(s, at, lowest) ==
  IF at > Len(s) THEN [unique |-> TRUE, seq |-> s]
  ELSE LET home == s[at].id - lowest + 1 IN
         IF home = at THEN PlaceFrom(s, at + 1, lowest)
         ELSE IF s[home].id = s[at].id THEN [unique |-> FALSE, seq |-> s]
         ELSE PlaceFrom(Swapped(s, at, home), at, lowest)

\* The general path: the sorted keys are turned into the permutation that
\* takes each record to its place, and its cycles are swapped out.
RECURSIVE SettleFrom(_, _, _)
SettleFrom(s, target, at) ==
  IF at > Len(s) THEN s
  ELSE IF target[at] = at THEN SettleFrom(s, target, at + 1)
  ELSE SettleFrom(Swapped(s, at, target[at]), Swapped(target, at, target[at]), at)

KeyedSort(s) ==
  LET keyed == SortSeq([i \in 1 .. Len(s) |-> i], LAMBDA a, b : s[a].id < s[b].id)
  IN SettleFrom(s, [i \in 1 .. Len(s) |-> CHOOSE k \in 1 .. Len(s) : keyed[k] = i], 1)

sort_records_by_id(s) ==
  IF KeyOrdered(s) THEN s
  ELSE IF Max({s[i].id : i \in 1 .. Len(s)}) - LowestId(s) + 1 = Len(s)
       THEN LET placed == PlaceFrom(s, 1, LowestId(s)) IN
              IF placed.unique THEN placed.seq ELSE KeyedSort(placed.seq)
       ELSE KeyedSort(s)

-----------------------------------------------------------------------------
(* The directory of an id, the root and the parents. *)

\* Ids without a gap are found by subtraction, others in a map.
DirIndex(dirs, id) ==
  IF Len(dirs) > 0 /\ \A i \in 1 .. Len(dirs) : dirs[i].id = dirs[1].id + i - 1
  THEN IF id # NoId /\ id - dirs[1].id \in 0 .. Len(dirs) - 1 THEN id - dirs[1].id + 1 ELSE 0
  ELSE IF \E i \in 1 .. Len(dirs) : dirs[i].id = id
       THEN CHOOSE i \in 1 .. Len(dirs) : dirs[i].id = id
       ELSE 0

RootLike(dirs, i) ==
  dirs[i].parent = NoId \/ dirs[i].parent = dirs[i].id \/ DirIndex(dirs, dirs[i].parent) = 0

choose_root(dirs) ==
  LET five == DirIndex(dirs, RootId) IN
    IF five # 0 /\ RootLike(dirs, five) THEN five
    ELSE SelectInSeq([i \in 1 .. Len(dirs) |-> i], LAMBDA i : RootLike(dirs, i))

\* Orphans and secondary roots hang off the chosen root.
DirParent(dirs, root, i) ==
  IF i = root THEN 0
  ELSE LET above == IF dirs[i].parent \in {NoId, dirs[i].id} THEN 0
                    ELSE DirIndex(dirs, dirs[i].parent)
       IN IF above # 0 THEN above ELSE root

FileParent(dirs, root, file) ==
  LET above == DirIndex(dirs, file.parent) IN IF above # 0 THEN above ELSE root

\* Children per parent in one shared sequence: counts become ranges, and the
\* children are filled in at the cursor of their parent.
RangesOf(parents, n) ==
  LET count[p \in 0 .. n] == Cardinality({c \in 1 .. Len(parents) : parents[c] = p})
      upTo[p \in 0 .. n]  == IF p = 0 THEN 0 ELSE upTo[p - 1] + count[p]
  IN [p \in 1 .. n |-> [first |-> upTo[p - 1] + 1, last |-> upTo[p]]]

FilledBy(parents, n) ==
  FlattenSeq([p \in 1 .. n |->
    SelectSeq([c \in 1 .. Len(parents) |-> c], LAMBDA c : parents[c] = p)])

-----------------------------------------------------------------------------
(* Totals. *)

ZeroRollup == [logical |-> 0, physical |-> 0, files |-> 0, items |-> 0, newest |-> NoTime]

WithFile(r, file) ==
  [logical  |-> SatAdd(r.logical, file.size),
   physical |-> SatAdd(r.physical, file.alloc),
   files    |-> r.files + 1,
   items    |-> r.items + 1,
   newest   |-> MaxTime(r.newest, file.modified)]

WithChild(r, child) ==
  [logical  |-> SatAdd(r.logical, child.logical),
   physical |-> SatAdd(r.physical, child.physical),
   files    |-> r.files + child.files,
   items    |-> r.items + child.items + 1,
   newest   |-> MaxTime(r.newest, child.newest)]

\* Breadth first from the root; cyclic parents keep directories off this order.
RECURSIVE BreadthFirst(_, _, _, _)
BreadthFirst(order, at, ranges, kids) ==
  IF at > Len(order) THEN order
  ELSE BreadthFirst(order \o SubSeq(kids, ranges[order[at]].first, ranges[order[at]].last),
                    at + 1, ranges, kids)

\* Mutant: directories are added to their parents in the order of their ids.
rollups_by_id(files, fileParents, dirParents, root, ranges, kids) ==
  LET direct == [d \in 1 .. Len(dirParents) |->
        FoldLeft(LAMBDA r, f : IF fileParents[f] = d THEN WithFile(r, files[f]) ELSE r,
                 ZeroRollup, [f \in 1 .. Len(files) |-> f])]
  IN FoldLeft(LAMBDA sums, d :
                IF d = root THEN sums
                ELSE [sums EXCEPT ![dirParents[d]] = WithChild(@, sums[d])],
              direct, [d \in 1 .. Len(dirParents) |-> d])

\* The files of a directory first, then every directory into its parent, from
\* the end of the breadth-first order.
compute_rollups(files, fileParents, dirParents, root, ranges, kids) ==
  LET direct == [d \in 1 .. Len(dirParents) |->
        FoldLeft(LAMBDA r, f : IF fileParents[f] = d THEN WithFile(r, files[f]) ELSE r,
                 ZeroRollup, [f \in 1 .. Len(files) |-> f])]
  IN IF root = 0 THEN direct
     ELSE FoldRight(LAMBDA d, sums :
                      IF d = root THEN sums
                      ELSE [sums EXCEPT ![dirParents[d]] = WithChild(@, sums[d])],
                    BreadthFirst(<<root>>, 1, ranges, kids), direct)

-----------------------------------------------------------------------------
\* The arrays of a tree, from sorted records, the root and the parents.
Assembled(dirs, files, root, dpar, fpar, dirRanges, kids) ==
  [dirs |-> dirs, files |-> files, root |-> root,
   dirRanges |-> dirRanges, dirKids |-> kids,
   fileRanges |-> RangesOf(fpar, Len(dirs)), fileKids |-> FilledBy(fpar, Len(dirs)),
   rollup |-> compute_rollups(files, fpar, dpar, root, dirRanges, kids),
   metadata |-> [id \in {} |-> 0]]

Related(dirs, files, root, dpar) ==
  Assembled(dirs, files, root, dpar,
            [f \in 1 .. Len(files) |-> FileParent(dirs, root, files[f])],
            RangesOf(dpar, Len(dirs)), FilledBy(dpar, Len(dirs)))

Rooted(dirs, files, root) ==
  Related(dirs, files, root, [i \in 1 .. Len(dirs) |-> DirParent(dirs, root, i)])

Sorted(dirs, files) == Rooted(dirs, files, choose_root(dirs))

Build(dirRecords, fileRecords) ==
  Sorted(sort_records_by_id(dirRecords), sort_records_by_id(fileRecords))

EmptyTree == Build(<< >>, << >>)

RollupFor(tree, id) == tree.rollup[DirIndex(tree.dirs, id)]

-----------------------------------------------------------------------------
(* Listings by size. *)

DirKidsOf(tree, d) ==
  SortSeq(SubSeq(tree.dirKids, tree.dirRanges[d].first, tree.dirRanges[d].last),
          LAMBDA a, b : tree.rollup[a].physical > tree.rollup[b].physical)

FileKidsOf(tree, d) ==
  SortSeq(SubSeq(tree.fileKids, tree.fileRanges[d].first, tree.fileRanges[d].last),
          LAMBDA a, b : tree.files[a].alloc > tree.files[b].alloc)

child_count(tree, d) ==
  (tree.dirRanges[d].last - tree.dirRanges[d].first + 1)
    + (tree.fileRanges[d].last - tree.fileRanges[d].first + 1)

DirEntry(d)  == [dir |-> TRUE, at |-> d]
FileEntry(f) == [dir |-> FALSE, at |-> f]

\* Two lists that are sorted already are merged; a directory goes first on a tie.
RECURSIVE MergeKids(_, _, _)
MergeKids(tree, ds, fs) ==
  CASE ds = << >> -> [i \in 1 .. Len(fs) |-> FileEntry(fs[i])]
    [] fs = << >> -> [i \in 1 .. Len(ds) |-> DirEntry(ds[i])]
    [] OTHER -> IF tree.rollup[Head(ds)].physical >= tree.files[Head(fs)].alloc
                THEN <<DirEntry(Head(ds))>> \o MergeKids(tree, Tail(ds), fs)
                ELSE <<FileEntry(Head(fs))>> \o MergeKids(tree, ds, Tail(fs))

for_each_child(tree, id, offset, limit) ==
  LET d == DirIndex(tree.dirs, id) IN
    IF d = 0 \/ limit = 0 THEN << >>
    ELSE SubSeq(MergeKids(tree, DirKidsOf(tree, d), FileKidsOf(tree, d)),
                offset + 1, Min({offset + limit, child_count(tree, d)}))

\* The order by allocation, then by id, is total.
LargerFile(tree, a, b) ==
  \/ tree.files[a].alloc > tree.files[b].alloc
  \/ tree.files[a].alloc = tree.files[b].alloc /\ tree.files[a].id < tree.files[b].id

\* select_nth, truncate, sort: the n first of the order.
LargestOf(tree, n) ==
  LET ahead(f) == Cardinality({g \in 1 .. Len(tree.files) : LargerFile(tree, g, f)})
  IN SortSeq(SelectSeq([f \in 1 .. Len(tree.files) |-> f], LAMBDA f : ahead(f) < n),
             LAMBDA a, b : LargerFile(tree, a, b))

\* Mutant: the remembered order serves every request.
largest_remembered(tree, limit) ==
  LET order == LargestOf(tree, Min({CacheCap, Len(tree.files)}))
  IN SubSeq(order, 1, Min({limit, Len(order)}))

\* Small requests are served from one remembered order, larger ones sorted anew.
for_each_largest_file(tree, limit) ==
  LET count == Min({limit, Len(tree.files)}) IN
    IF count <= CacheCap
    THEN SubSeq(LargestOf(tree, Min({CacheCap, Len(tree.files)})), 1, count)
    ELSE LargestOf(tree, count)

for_each_largest_file_page(tree, offset, limit) ==
  IF offset >= Len(tree.files) \/ limit = 0 THEN << >>
  ELSE LET upTo == for_each_largest_file(tree, offset + limit) IN
         [i \in 1 .. Len(upTo) - offset |-> FileEntry(upTo[offset + i])]

-----------------------------------------------------------------------------
(* Paths. *)

join_path(above, name) ==
  IF above = << >> \/ Last(above) = "\\" THEN above \o name ELSE above \o <<"\\">> \o name

file_display_path(tree, file) ==
  IF file.path # << >> THEN file.path
  ELSE LET d == DirIndex(tree.dirs, file.parent) IN
         IF d = 0 THEN file.name ELSE join_path(tree.dirs[d].path, file.name)

-----------------------------------------------------------------------------
(* The reference for the totals, by the chain of parents of every entry. *)

ParentOf(tree, d) == DirParent(tree.dirs, tree.root, d)

RECURSIVE Climbs(_, _, _, _)
Climbs(tree, d, top, steps) ==
  \/ d = top
  \/ d # 0 /\ steps > 0 /\ Climbs(tree, ParentOf(tree, d), top, steps - 1)

Beneath(tree, top) == {d \in 1 .. Len(tree.dirs) : Climbs(tree, d, top, Len(tree.dirs))}

FilesBeneath(tree, top) ==
  {f \in 1 .. Len(tree.files) :
     FileParent(tree.dirs, tree.root, tree.files[f]) \in Beneath(tree, top)}

Capped(n) == IF n > MaxBytes THEN MaxBytes ELSE n

TrueRollup(tree, top) ==
  LET inside == FilesBeneath(tree, top) IN
    [logical  |-> Capped(MapThenSumSet(LAMBDA f : tree.files[f].size, inside)),
     physical |-> Capped(MapThenSumSet(LAMBDA f : tree.files[f].alloc, inside)),
     files    |-> Cardinality(inside),
     items    |-> Cardinality(inside) + Cardinality(Beneath(tree, top) \ {top}),
     newest   |-> Max({NoTime} \cup {tree.files[f].modified : f \in inside})]
=============================================================================
