---------------------------- MODULE CatalogSearch ---------------------------
(***************************************************************************)
(* Searching a catalog: the paged search of the display tree, the older    *)
(* search over flat records, the estimate of storage tiers and the totals  *)
(* by extension.                                                           *)
(*                                                                         *)
(* An optional bound is a set with at most one element.  Regular           *)
(* expressions are external and left out.  Characters are compared by      *)
(* CharRank after LowerCase.                                               *)
(***************************************************************************)
EXTENDS CatalogTree

CONSTANTS
  CharRank,        \* the order of the characters
  LowerCase,       \* the lower-case form of each character that has one
  TicksPerSecond,  \* file times count 10000000 of these per second
  UnixEpoch,       \* seconds from the first file time to 1970 (11644473600)
  SecondsPerDay,
  InlineSlots,     \* extensions prepared without allocation (8)
  ParallelFiles    \* from this many files on the totals are split (64000)

LowerChar(c) == IF c \in DOMAIN LowerCase THEN LowerCase[c] ELSE c

Lower(text) == [i \in 1 .. Len(text) |-> LowerChar(text[i])]

\* The catalog lists a file at this path, ignoring case: the ASCII comparison
\* in fragments and the comparison of the joined text agree.
contains_file_display_path(tree, path) ==
  \E f \in 1 .. Len(tree.files) : Lower(file_display_path(tree, tree.files[f])) = Lower(path)

\* Lexicographic order of two texts.
TextLess(a, b) ==
  \E n \in 0 .. Len(a) :
    /\ n <= Len(b) /\ SubSeq(a, 1, n) = SubSeq(b, 1, n)
    /\ \/ n = Len(a) /\ n < Len(b)
       \/ n < Len(a) /\ n < Len(b) /\ CharRank[a[n + 1]] < CharRank[b[n + 1]]

unix_seconds(ticks) == ticks \div TicksPerSecond - UnixEpoch

\* The text after the last dot, or "no extension".
NoExtension == <<"none">>

AfterDot(text) ==
  LET dots == {i \in 1 .. Len(text) : text[i] = "."} IN
    IF dots = {} THEN NoExtension ELSE SubSeq(text, Max(dots) + 1, Len(text))

StartsWith(text, pattern) == Len(pattern) <= Len(text) /\ SubSeq(text, 1, Len(pattern)) = pattern

Holds(text, pattern) ==
  \E i \in 0 .. Len(text) - Len(pattern) : SubSeq(text, i + 1, i + Len(pattern)) = pattern

MatchesText(mode, text, pattern) ==
  CASE mode = "exact"    -> Lower(text) = Lower(pattern)
    [] mode = "prefix"   -> StartsWith(Lower(text), Lower(pattern))
    [] mode = "contains" -> Holds(Lower(text), Lower(pattern))

\* Both bounds are given and the first lies beyond the second.
Reversed(low, high) == \E a \in low, b \in high : a > b
ReversedTimes(low, high) == \E a \in low, b \in high : a >= b

-----------------------------------------------------------------------------
(* The search of the display tree. *)

EntryName(tree, e) == IF e.dir THEN tree.dirs[e.at].name ELSE tree.files[e.at].name

EntryPath(tree, e) ==
  IF e.dir THEN tree.dirs[e.at].path ELSE file_display_path(tree, tree.files[e.at])

EntryLogical(tree, e) == IF e.dir THEN tree.rollup[e.at].logical ELSE tree.files[e.at].size

EntryPhysical(tree, e) == IF e.dir THEN tree.rollup[e.at].physical ELSE tree.files[e.at].alloc

EntryModified(tree, e) == IF e.dir THEN tree.rollup[e.at].newest ELSE tree.files[e.at].modified

\* After is inclusive and before exclusive, both in seconds; a bound rejects
\* an entry without a date, an extension rejects every directory.
SearchMatches(tree, q, e) ==
  LET time == EntryModified(tree, e) IN
    /\ IF e.dir THEN q.dirs ELSE q.files
    /\ \A min \in q.minLogical : EntryLogical(tree, e) >= min
    /\ \A max \in q.maxLogical : EntryLogical(tree, e) <= max
    /\ \A min \in q.minAlloc : EntryPhysical(tree, e) >= min
    /\ \A max \in q.maxAlloc : EntryPhysical(tree, e) <= max
    /\ \A min \in q.after : time # NoTime /\ unix_seconds(time) >= min
    /\ \A max \in q.before : time # NoTime /\ unix_seconds(time) < max
    /\ q.extensions # {} =>
         /\ ~e.dir
         /\ Lower(AfterDot(EntryName(tree, e))) \in {Lower(x) : x \in q.extensions}
    /\ \/ q.pattern = << >>
       \/ MatchesText(q.mode, EntryName(tree, e), q.pattern)
       \/ MatchesText(q.mode, EntryPath(tree, e), q.pattern)

SortKey(tree, q, e) ==
  CASE q.sort = "logical"   -> EntryLogical(tree, e)
    [] q.sort = "allocated" -> EntryPhysical(tree, e)
    [] q.sort = "kind"      -> IF e.dir THEN 1 ELSE 0
    [] q.sort = "modified"  -> EntryModified(tree, e)
    [] q.sort = "name"      -> 0

\* Sort key, then name, then kind and index: a total order, reversed as a whole.
SearchOrder(tree, q, a, b) ==
  LET nameA == Lower(EntryName(tree, a))
      nameB == Lower(EntryName(tree, b))
      keyA == SortKey(tree, q, a)
      keyB == SortKey(tree, q, b)
      less == \/ keyA < keyB
              \/ keyA = keyB /\ TextLess(nameA, nameB)
              \/ keyA = keyB /\ nameA = nameB /\ ~a.dir /\ b.dir
              \/ keyA = keyB /\ nameA = nameB /\ a.dir = b.dir /\ a.at < b.at
  IN IF q.descending THEN a # b /\ ~less ELSE less

TreeEntries(tree) ==
  [d \in 1 .. Len(tree.dirs) |-> DirEntry(d)] \o [f \in 1 .. Len(tree.files) |-> FileEntry(f)]

\* Only the prefix that the page needs is selected and sorted.
search(tree, q, offset, limit) ==
  LET found == SelectSeq(TreeEntries(tree), LAMBDA e : SearchMatches(tree, q, e))
      upTo  == Min({offset + limit, Len(found)})
      ahead(e) == Cardinality({i \in 1 .. Len(found) : SearchOrder(tree, q, found[i], e)})
      prefix == SelectSeq(found, LAMBDA e : ahead(e) < upTo)
  IN IF \/ Reversed(q.minLogical, q.maxLogical) \/ Reversed(q.minAlloc, q.maxAlloc)
        \/ ReversedTimes(q.after, q.before)
     THEN [ok |-> FALSE, total |-> 0, hits |-> << >>]
     ELSE [ok |-> TRUE, total |-> Len(found),
           hits |-> IF limit = 0 \/ offset >= Len(found) THEN << >>
                    ELSE SubSeq(SortSeq(prefix, LAMBDA a, b : SearchOrder(tree, q, a, b)),
                                offset + 1, upTo)]

-----------------------------------------------------------------------------
(* The search over flat records. *)

\* Files by id, each with the path its parent gives it.
snapshot_files_with_paths(dirs, files) ==
  LET sorted == sort_records_by_id(files) IN
    [i \in 1 .. Len(files) |->
       [sorted[i] EXCEPT !.path =
          IF @ # << >> THEN @
          ELSE LET d == DirIndex(dirs, sorted[i].parent) IN
                 IF d = 0 THEN sorted[i].name ELSE join_path(dirs[d].path, sorted[i].name)]]

RECURSIVE ClimbFrom(_, _, _)
ClimbFrom(dirs, id, seen) ==
  LET d == DirIndex(dirs, id) IN
    IF id = NoId \/ d = 0 THEN [ends |-> TRUE, over |-> seen]
    ELSE IF d \in seen THEN [ends |-> FALSE, over |-> seen]
    ELSE ClimbFrom(dirs, dirs[d].parent, seen \cup {d})

\* Each file adds its allocation to every directory above it; a cycle of
\* parents, a directory that names itself included, is climbed forever.
aggregate_directory_records(dirs, files) ==
  [ends  |-> /\ \A d \in 1 .. Len(dirs) : ClimbFrom(dirs, dirs[d].parent, {}).ends
             /\ \A f \in 1 .. Len(files) : ClimbFrom(dirs, files[f].parent, {}).ends,
   total |-> [d \in 1 .. Len(dirs) |-> Capped(MapThenSumSet(LAMBDA f : files[f].alloc,
                {f \in 1 .. Len(files) : d \in ClimbFrom(dirs, files[f].parent, {}).over}))]]

Aggregated(dirs, files) ==
  [dirs |-> dirs, files |-> files, sums |-> aggregate_directory_records(dirs, files)]

SortedCatalog(dirs, fileRecords) == Aggregated(dirs, snapshot_files_with_paths(dirs, fileRecords))

from_transaction(dirRecords, fileRecords) ==
  SortedCatalog(sort_records_by_id(dirRecords), fileRecords)

\* Extensions are taken into the inline slots until they are full, then all
\* of them into the overflow list.
PreparedExtensions(wanted) ==
  LET given  == SelectSeq(wanted, LAMBDA x : x # << >>)
      inline == SubSeq(given, 1, Min({Len(given), InlineSlots}))
  IN IF Len(given) <= InlineSlots THEN inline
     ELSE inline \o SubSeq(given, InlineSlots + 1, Len(given))

\* The name of the last component has an extension if a dot follows its first
\* character.
PathExtension(path) ==
  LET seps == {0} \cup {i \in 1 .. Len(path) : path[i] = "\\"}
      name == SubSeq(path, Max(seps) + 1, Len(path))
  IN IF \E i \in 2 .. Len(name) : name[i] = "." THEN AfterDot(name) ELSE NoExtension

HitOf(cat, e) ==
  IF e.dir
  THEN [name |-> cat.dirs[e.at].name, path |-> cat.dirs[e.at].path,
        size |-> cat.sums.total[e.at], modified |-> NoTime, alloc |-> cat.sums.total[e.at]]
  ELSE [name |-> cat.files[e.at].name, path |-> cat.files[e.at].path,
        size |-> cat.files[e.at].size, modified |-> cat.files[e.at].modified,
        alloc |-> cat.files[e.at].alloc]

\* Both time bounds are exclusive here, and in ticks.
matches_query(q, hit) ==
  /\ \A pattern \in q.text : MatchesText(q.mode, hit.name, pattern) \/ MatchesText(q.mode, hit.path, pattern)
  /\ LET wanted == PreparedExtensions(q.extensions) IN
       wanted # << >> => \E i \in 1 .. Len(wanted) : Lower(PathExtension(hit.path)) = Lower(wanted[i])
  /\ \A min \in q.minSize : hit.size >= min
  /\ \A max \in q.maxSize : hit.size <= max
  /\ \A min \in q.after : hit.modified # NoTime /\ hit.modified > min
  /\ \A max \in q.before : hit.modified # NoTime /\ hit.modified < max

HitKeyLess(q, a, b) ==
  CASE q.sort = "name"     -> TextLess(Lower(a.name), Lower(b.name))
    [] q.sort = "path"     -> TextLess(Lower(a.path), Lower(b.path))
    [] q.sort = "size"     -> a.size < b.size
    [] q.sort = "alloc"    -> a.alloc < b.alloc
    [] q.sort = "modified" -> a.modified < b.modified

\* Sort, then reverse for descending: ties come out in reverse order.
sort_hits(q, hits) ==
  LET up == SortSeq(hits, LAMBDA a, b : HitKeyLess(q, a, b))
  IN IF q.descending THEN Reverse(up) ELSE up

\* The short way for a limited search by text: the place of a hit breaks ties
\* and only the wanted prefix is selected and sorted.
LimitedByText(q, hits, limit) ==
  LET before(a, b) == LET up == \/ HitKeyLess(q, hits[a], hits[b])
                                \/ ~HitKeyLess(q, hits[b], hits[a]) /\ a < b
                      IN IF q.descending THEN a # b /\ ~up ELSE up
      ahead(a) == Cardinality({b \in 1 .. Len(hits) : before(b, a)})
      order == SortSeq(SelectSeq([i \in 1 .. Len(hits) |-> i], LAMBDA i : ahead(i) < limit),
                       LAMBDA a, b : before(a, b))
  IN [i \in 1 .. Len(order) |-> hits[order[i]]]

CatalogHits(cat, q) ==
  LET of(dir, n) == [i \in 1 .. n |-> [dir |-> dir, at |-> i]]
      candidates == (IF q.files THEN of(FALSE, Len(cat.files)) ELSE << >>)
                      \o (IF q.dirs THEN of(TRUE, Len(cat.dirs)) ELSE << >>)
      hits == [i \in 1 .. Len(candidates) |-> HitOf(cat, candidates[i])]
  IN IF Reversed(q.minSize, q.maxSize) \/ ReversedTimes(q.after, q.before) THEN << >>
     ELSE SelectSeq(hits, LAMBDA hit : matches_query(q, hit))

\* limit is a set with at most one element.
CatalogSearchHits(cat, q, limit) ==
  LET hits == CatalogHits(cat, q) IN
    IF \E n \in limit : n < Len(hits)
    THEN LET n == CHOOSE n \in limit : TRUE IN
           IF n = 0 THEN << >>
           ELSE IF q.sort \in {"name", "path"} THEN LimitedByText(q, hits, n)
           ELSE SubSeq(sort_hits(q, hits), 1, n)
    ELSE sort_hits(q, hits)

-----------------------------------------------------------------------------
(* Totals over all files. *)

\* Hot, warm and cold allocation by age in days; an unknown date is hot.  A
\* tier that exceeds the largest byte count fails the whole estimate.
Tier(file, policy) ==
  IF file.modified = NoTime THEN 0
  ELSE LET age == (IF policy.now > unix_seconds(file.modified)
                   THEN policy.now - unix_seconds(file.modified) ELSE 0) \div SecondsPerDay
       IN IF age >= policy.cold THEN 2 ELSE IF age >= policy.warm THEN 1 ELSE 0

estimate(tree, policy) ==
  LET inTier(t) == {f \in 1 .. Len(tree.files) : Tier(tree.files[f], policy) = t}
      bytes(t)  == MapThenSumSet(LAMBDA f : tree.files[f].alloc, inTier(t))
  IN IF policy.warm > policy.cold \/ \E t \in 0 .. 2 : bytes(t) > MaxBytes
     THEN [ok |-> FALSE]
     ELSE [ok |-> TRUE, bytes |-> [t \in 0 .. 2 |-> bytes(t)],
           files |-> [t \in 0 .. 2 |-> Cardinality(inTier(t))],
           unknown |-> Cardinality({f \in 1 .. Len(tree.files) :
                                      tree.files[f].modified = NoTime})]

\* A name that starts or ends with its last dot has no extension here.
ExtensionKey(file) ==
  LET x == AfterDot(file.name) IN
    IF x \in {NoExtension, << >>} \/ Len(file.name) = Len(x) + 1 THEN << >> ELSE Lower(x)

aggregate_extension_chunk(files) ==
  [key \in {ExtensionKey(files[i]) : i \in 1 .. Len(files)} |->
     LET own == {i \in 1 .. Len(files) : ExtensionKey(files[i]) = key} IN
       [bytes |-> Capped(MapThenSumSet(LAMBDA i : files[i].size, own)), files |-> Cardinality(own)]]

MergedTotals(a, b) ==
  LET zero == [bytes |-> 0, files |-> 0]
      part(m, key) == IF key \in DOMAIN m THEN m[key] ELSE zero
  IN [key \in DOMAIN a \cup DOMAIN b |->
        [bytes |-> SatAdd(part(a, key).bytes, part(b, key).bytes),
         files |-> part(a, key).files + part(b, key).files]]

\* Many files are cut into one chunk per worker; the maps of the chunks are
\* merged from the last one.
aggregate_extension_totals(files, workers) ==
  LET size == Max({1, (Len(files) + workers - 1) \div workers})
      chunks == [c \in 1 .. (Len(files) + size - 1) \div size |->
                   aggregate_extension_chunk(
                     SubSeq(files, (c - 1) * size + 1, Min({c * size, Len(files)})))]
  IN IF Len(files) < ParallelFiles \/ workers = 1
     THEN aggregate_extension_chunk(files)
     ELSE FoldLeft(MergedTotals, [key \in {} |-> 0],
                   IF chunks = << >> THEN << >> ELSE <<Last(chunks)>> \o Front(chunks))
=============================================================================
