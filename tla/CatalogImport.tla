---------------------------- MODULE CatalogImport ---------------------------
(***************************************************************************)
(* Rebuilding a catalog from rows of text, and joining catalogs of several *)
(* roots.  Every result is [ok |-> FALSE] or [ok |-> TRUE, tree |-> ...];  *)
(* all the errors of an import are "invalid data" and are told apart only  *)
(* by their wording, so one failed condition is as good as another.        *)
(***************************************************************************)
EXTENDS CatalogText

Refused == [ok |-> FALSE]

LastSlash(path) == Max({0} \cup {i \in 1 .. Len(path) : path[i] = "\\"})

HasParent(path) == LastSlash(path) > 0

Above(path) == SubSeq(path, 1, LastSlash(path) - 1)

BaseName(path) == SubSeq(path, LastSlash(path) + 1, Len(path))

RECURSIVE TrimSlashes(_)
TrimSlashes(path) ==
  IF path # << >> /\ Last(path) = "\\" THEN TrimSlashes(Front(path)) ELSE path

SamePath(a, b) == Lower(a) = Lower(b)

is_descendant(path, above) == StartsWith(Lower(path), Append(Lower(above), "\\"))

-----------------------------------------------------------------------------
(* From rows to a tree. *)

IsDirRow(row) == row[2] = <<"Directory">>

\* A directory's path loses its trailing separators.
TrimmedRows(body) ==
  [i \in 1 .. Len(body) |->
     IF Len(body[i]) > 1 /\ IsDirRow(body[i])
     THEN [body[i] EXCEPT ![1] = TrimSlashes(@)] ELSE body[i]]

RowsValid(body) ==
  /\ body # << >>
  /\ \A i \in 1 .. Len(body) :
       /\ Len(body[i]) = 7
       /\ body[i][1] # << >>
       /\ \A c \in 3 .. 6 : IsNumber(body[i][c])
       /\ body[i][7] # << >> => IsSigned(body[i][7])
       /\ body[i][2] \in {<<"Directory">>, <<"File">>}
       /\ IsDirRow(body[i]) \/ HasParent(body[i][1])
  /\ \A i, j \in 1 .. Len(body) : SamePath(body[i][1], body[j][1]) => i = j

DirPaths(body) ==
  LET rows == SelectSeq(body, IsDirRow) IN [i \in 1 .. Len(rows) |-> rows[i][1]]

PathsOf(s) == {s[i] : i \in 1 .. Len(s)}

\* Below the root of several roots: the directories that no other one contains.
TopRoots(paths) ==
  IF MultiRoot \notin paths THEN {}
  ELSE {p \in paths \ {MultiRoot} : ~\E q \in paths \ {MultiRoot} : is_descendant(p, q)}

HomeOf(row) == IF IsDirRow(row) THEN row[1] ELSE Above(row[1])

NoCommon == <<"none">>

\* The common directory is cut back until it contains the next row's home.
RECURSIVE CutBack(_, _)
CutBack(common, home) ==
  IF common = NoCommon \/ SamePath(home, common) \/ is_descendant(home, common) THEN common
  ELSE IF HasParent(common) THEN CutBack(Above(common), home) ELSE NoCommon

CommonOf(body, multiple) ==
  IF multiple THEN MultiRoot
  ELSE FoldLeft(LAMBDA common, row : CutBack(common, HomeOf(row)), HomeOf(body[1]), body)

\* Directories a path implies, up to the common one or a top root; the order
\* of the sequence gives the ids.
RECURSIVE Implied(_, _, _, _)
Implied(paths, path, common, tops) ==
  LET known == IF path \in PathsOf(paths) THEN paths ELSE Append(paths, path) IN
    IF SamePath(path, common) \/ path \in tops THEN known
    ELSE IF HasParent(path) THEN Implied(known, Above(path), common, tops) ELSE <<NoCommon>>

AllDirs(body, common, tops) ==
  FoldLeft(LAMBDA paths, row :
             IF paths = <<NoCommon>> THEN paths ELSE Implied(paths, HomeOf(row), common, tops),
           DirPaths(body), body)

PathId(paths, path) ==
  IF path \in PathsOf(paths) THEN CHOOSE i \in 1 .. Len(paths) : paths[i] = path ELSE NoId

ImportedDir(paths, i, common, tops) ==
  LET path  == paths[i]
      above == IF HasParent(path) THEN PathId(paths, Above(path)) ELSE NoId
  IN [id     |-> i,
      parent |-> IF above # NoId THEN above
                 ELSE IF MultiRoot \in PathsOf(paths) /\ path # common
                      THEN PathId(paths, common) ELSE NoId,
      name   |-> IF path \in tops THEN path ELSE BaseName(path),
      path   |-> IF Len(path) = 1 /\ path[1] \in Drives THEN Append(path, "\\") ELSE path]

\* Old exports wrote file times under the caption of Unix seconds.
import_timestamp(text, legacy) ==
  IF text = << >> THEN NoTime
  ELSE IF legacy /\ NumberIn(text) \in LegacyTimes THEN NumberIn(text)
  ELSE (NumberIn(text) + UnixEpoch) * TicksPerSecond

\* unix_to_ticks refuses what lies before the first file time.
TimesValid(body, legacy) ==
  \A i \in 1 .. Len(body) :
    ~IsDirRow(body[i]) /\ body[i][7] # << >> => import_timestamp(body[i][7], legacy) >= 0

ImportedFile(paths, i, row, legacy, details) ==
  [id |-> i, parent |-> PathId(paths, Above(row[1])), name |-> BaseName(row[1]), path |-> row[1],
   size |-> NumberIn(row[3]), alloc |-> NumberIn(row[4]),
   modified |-> import_timestamp(row[7], legacy),
   attrs |-> IF row[1] \in DOMAIN details /\ details[row[1]].attrs # << >>
             THEN details[row[1]].attrs[1] ELSE Archive,
   inode |-> 0]

\* The stated totals of every directory must be the totals of the rebuilt tree.
TotalsMatch(tree, paths, body) ==
  \A i \in 1 .. Len(body) : IsDirRow(body[i]) =>
    LET sum == RollupFor(tree, PathId(paths, body[i][1])) IN
      /\ sum.logical = NumberIn(body[i][3])
      /\ sum.physical = NumberIn(body[i][4])
      /\ sum.files = NumberIn(body[i][5])

WithMetadata(tree, details) ==
  [tree EXCEPT !.metadata =
     LET path(f) == file_display_path(tree, tree.files[f])
         owned == {f \in 1 .. Len(tree.files) :
                     path(f) \in DOMAIN details /\ details[path(f)].owner # << >>}
     IN [id \in {tree.files[f].id : f \in owned} |->
           details[path(CHOOSE f \in owned : tree.files[f].id = id)].owner]]

\* The tree stands when its root and all the stated totals do.
Verified(tree, paths, body) ==
  IF tree.root # 0 /\ TotalsMatch(tree, paths, body) THEN [ok |-> TRUE, tree |-> tree] ELSE Refused

FilesAt(body) == SelectSeq([i \in 1 .. Len(body) |-> i], LAMBDA i : ~IsDirRow(body[i]))

FromPaths(body, paths, common, tops, files, legacy, details) ==
  IF common = NoCommon \/ paths = <<NoCommon>> THEN Refused
  ELSE Verified(
         WithMetadata(
           Build([i \in 1 .. Len(paths) |-> ImportedDir(paths, i, common, tops)],
                 [k \in 1 .. Len(files) |->
                    ImportedFile(paths, files[k], body[files[k]], legacy, details)]),
           details),
         paths, body)

FromCommon(body, common, tops, legacy, details) ==
  FromPaths(body, AllDirs(body, common, tops), common, tops, FilesAt(body), legacy, details)

FromBody(body, dirPaths, legacy, details) ==
  IF RowsValid(body) /\ TimesValid(body, legacy)
  THEN FromCommon(body, CommonOf(body, MultiRoot \in dirPaths), TopRoots(dirPaths), legacy, details)
  ELSE Refused

FromTrimmed(body, legacy, details) == FromBody(body, PathsOf(DirPaths(body)), legacy, details)

build_import_metadata(rows, legacy, details) ==
  FromTrimmed(TrimmedRows(Tail(rows)), legacy, details)

-----------------------------------------------------------------------------
(* Dates. *)

LeapYear(y) == y % 4 = 0 /\ (y % 100 # 0 \/ y % 400 = 0)

MonthDays(y, m) ==
  CASE m = 2 -> IF LeapYear(y) THEN 29 ELSE 28
    [] m \in {4, 6, 9, 11} -> 30
    [] OTHER -> 31

DateValid(y, m, d) == y \in 1601 .. 9999 /\ m \in 1 .. 12 /\ d \in 1 .. MonthDays(y, m)

\* Days from 1970 of a date; years are counted from March.
utc_date(y, m, d) ==
  LET year == IF m <= 2 THEN y - 1 ELSE y
      era  == year \div 400
      yoe  == year - era * 400
      mp   == IF m > 2 THEN m - 3 ELSE m + 9
      doy  == (153 * mp + 2) \div 5 + d - 1
  IN era * 146097 + yoe * 365 + yoe \div 4 - yoe \div 100 + doy - 719468

-----------------------------------------------------------------------------
(* Formats. *)

NoDetails == [path \in {} |-> 0]

\* Details by path, from the columns beyond the seventh of the file rows.  Of
\* these, attributes and owner are kept; the checks of the dates and of the
\* identity go with their columns.
DetailsOf(rows) ==
  LET files == {i \in 2 .. Len(rows) : rows[i][2] = <<"File">>} IN
    [path \in {rows[i][1] : i \in files} |->
       LET row == rows[CHOOSE i \in files : rows[i][1] = path]
       IN [attrs |-> row[8], owner |-> row[9]]]

\* A file of a detailed listing has attributes, each kind one mark.
DetailsValid(rows) ==
  \A i \in 2 .. Len(rows) : rows[i][2] = <<"File">> => Len(rows[i][8]) = 1

Narrowed(rows) == [i \in 1 .. Len(rows) |-> SubSeq(rows[i], 1, 7)]

\* WinDirStat: its columns are found by caption, each exactly once, or taken
\* by position when the captions are translated.
DirStatCaptions == <<"Name", "Files", "Folders", "Logical Size", "Physical Size", "Attributes",
                     "Last Change", "WinDirStat Attributes", "Index">>

ByCaption(rows) ==
  LET header == rows[1]
      at(c) == {i \in 1 .. Len(header) : header[i] = <<c>>}
      owner == at("Owner")
      order == [k \in 1 .. 9 |-> CHOOSE i \in at(DirStatCaptions[k]) : TRUE]
                 \o (IF owner = {} THEN << >> ELSE <<Min(owner)>>)
  IN IF \E k \in 1 .. 9 : at(DirStatCaptions[k]) = {} THEN [ok |-> TRUE, rows |-> rows]
     ELSE IF \/ \E k \in 1 .. 9 : Cardinality(at(DirStatCaptions[k])) # 1
             \/ \E i \in 1 .. Len(rows) : Len(rows[i]) # Len(header)
          THEN [ok |-> FALSE, rows |-> rows]
          ELSE [ok |-> TRUE, rows |-> [i \in 1 .. Len(rows) |->
                                         [k \in 1 .. Len(order) |-> rows[i][order[k]]]]]

\* The flag of a directory in the WinDirStat attributes is 4.
windirstat(rows) ==
  [i \in 1 .. Len(rows) |->
     IF i = 1 THEN Captions(<<"Path">>)
     ELSE LET r == rows[i] IN
       <<r[1], IF (NumberIn(r[8]) \div 4) % 2 = 1 THEN <<"Directory">> ELSE <<"File">>,
         r[4], r[5], r[2], r[3], r[7]>>]

windirstat_metadata(rows) ==
  LET owned == {i \in 2 .. Len(rows) : Len(rows[i]) = 10 /\ rows[i][10] # << >>} IN
    [path \in {rows[i][1] : i \in owned} |->
       [attrs |-> << >>, owner |-> rows[CHOOSE i \in owned : rows[i][1] = path][10]]]

\* Mutant: dates are local whatever the user says.
wiztree_local(rows, zone) ==
  [i \in 1 .. Len(rows) |->
     IF i = 1 THEN Captions(<<"Path">>)
     ELSE LET r   == rows[i]
              dir == (NumberIn(r[5]) \div 16) % 2 = 1 \/ (r[1] # << >> /\ Last(r[1]) = "\\")
          IN <<IF dir THEN TrimSlashes(r[1]) ELSE r[1],
               IF dir THEN <<"Directory">> ELSE <<"File">>, r[2], r[3], r[6], r[7],
               IF r[4] = << >> THEN r[4] ELSE Numeral(NumberIn(r[4]) + LocalOffset)>>]

\* WizTree: a directory has the attribute 16 or a trailing separator; its
\* dates are local unless the user says UTC.
wiztree(rows, zone) ==
  [i \in 1 .. Len(rows) |->
     IF i = 1 THEN Captions(<<"Path">>)
     ELSE LET r   == rows[i]
              dir == (NumberIn(r[5]) \div 16) % 2 = 1 \/ (r[1] # << >> /\ Last(r[1]) = "\\")
          IN <<IF dir THEN TrimSlashes(r[1]) ELSE r[1],
               IF dir THEN <<"Directory">> ELSE <<"File">>, r[2], r[3], r[6], r[7],
               IF r[4] = << >> \/ zone = "utc" THEN r[4]
               ELSE Numeral(NumberIn(r[4]) + LocalOffset)>>]

\* What an import is built from: rows in the layout of a plain export, whether
\* old dates may occur, and the details by path.
Readable(rows, legacy, details) ==
  [ok |-> TRUE, rows |-> rows, legacy |-> legacy, details |-> details]

\* WinDirStat translates all captions but the one with its own name.
Translated(rows) ==
  /\ Len(rows[1]) \in {9, 10}
  /\ \E i \in 1 .. Len(rows[1]) : rows[1][i] = <<"WinDirStat Attributes">>
  /\ Len(rows) > 1 /\ Len(rows[2]) >= 8 /\ IsNumber(rows[2][8])

\* The layout is told by the captions.
Recognised(rows, zone) ==
  LET first == rows[1][1]
      filled(n) == \A i \in 2 .. Len(rows) : Len(rows[i]) = n
  IN CASE rows[1] = Captions(DetailHeader) ->
            IF filled(Len(DetailHeader)) /\ DetailsValid(rows)
            THEN Readable(Narrowed(rows), TRUE, DetailsOf(rows)) ELSE Refused
       [] first = <<"Name">> \/ Translated(rows) ->
            IF filled(IF Len(rows[1]) = 10 THEN 10 ELSE 9) /\ \A i \in 2 .. Len(rows) : IsNumber(rows[i][8])
            THEN Readable(windirstat(rows), FALSE, windirstat_metadata(rows)) ELSE Refused
       [] first = <<"File Name">> ->
            IF \A i \in 2 .. Len(rows) : Len(rows[i]) >= 7 /\ IsNumber(rows[i][5])
            THEN Readable(wiztree(rows, zone), FALSE, NoDetails) ELSE Refused
       [] rows[1] = Captions(PlainHeader) -> Readable(rows, TRUE, NoDetails)
       [] OTHER -> Refused

Mapped(mapped, zone) == IF mapped.ok THEN Recognised(mapped.rows, zone) ELSE Refused

\* WizTree writes a line about itself above its captions.
WithoutBanner(rows) ==
  IF rows # << >> /\ rows[1][1] = <<"Generated by WizTree">> THEN Tail(rows) ELSE rows

Captioned(rows, zone) == IF rows # << >> THEN Mapped(ByCaption(rows), zone) ELSE Refused

Parsed(parsed, zone) ==
  IF parsed.ok THEN Captioned(WithoutBanner(parsed.rows), zone) ELSE Refused

FromReadable(read) ==
  IF read.ok THEN build_import_metadata(read.rows, read.legacy, read.details) ELSE Refused

read_delimited(text, delimiter, zone) == FromReadable(Parsed(ParseRows(text, delimiter), zone))

\* JSON keeps the cells apart by itself; dates are never old file times.
read_json(rows) == FromReadable(Readable(Narrowed(rows), FALSE, DetailsOf(rows)))

ExportFormats == {"csv", "tsv", "detailed", "json"}

ExportRows(tree, format, filter) ==
  CASE format = "detailed" -> write_csv_with_metadata(tree, LiveOwner)
    [] format = "json"     -> write_csv_with_metadata(tree, << >>)
    [] OTHER               -> write_csv_selected(tree, filter)

ExportText(rows, format) == IF format = "tsv" THEN TabText(CsvText(rows)) ELSE CsvText(rows)

\* Reading back what an export of the tree wrote.
Reopen(tree, format, filter) ==
  IF format = "json" THEN read_json(ExportRows(tree, format, filter))
  ELSE read_delimited(ExportText(ExportRows(tree, format, filter), format),
                      IF format = "tsv" THEN "TAB" ELSE ",", "local")

-----------------------------------------------------------------------------
(* Several roots under one. *)

RootPathOf(tree) == Lower(TrimSlashes(tree.dirs[tree.root].path))

Overlap(a, b) == a = b \/ is_descendant(a, b) \/ is_descendant(b, a)

\* The files whose parent is unknown fail the whole join.
Joinable(scans) ==
  /\ scans # << >>
  /\ \A i \in 1 .. Len(scans) :
       /\ scans[i].root # 0
       /\ RootPathOf(scans[i]) # Lower(MultiRoot)
       /\ \A f \in 1 .. Len(scans[i].files) : DirIndex(scans[i].dirs, scans[i].files[f].parent) # 0
  /\ \A i, j \in 1 .. Len(scans) : i < j => ~Overlap(RootPathOf(scans[i]), RootPathOf(scans[j]))

\* Mutant: a name that is charged nothing counts as the first one.
ChargedAtFirstName(scans, i, f) ==
  LET file == scans[i].files[f]
      earlier(j, g) == /\ j < i \/ (j = i /\ g < f)
                       /\ scans[j].files[g].inode = file.inode
  IN IF /\ file.inode \in Linked
        /\ \E j \in 1 .. i : \E g \in 1 .. Len(scans[j].files) : earlier(j, g)
     THEN 0 ELSE file.alloc

\* A file with several names is charged where it is met first.
ChargedOnce(scans, i, f) ==
  LET file == scans[i].files[f]
      earlier(j, g) == /\ j < i \/ (j = i /\ g < f)
                       /\ scans[j].files[g].inode = file.inode /\ scans[j].files[g].alloc > 0
  IN IF /\ file.inode \in Linked
        /\ \E j \in 1 .. i : \E g \in 1 .. Len(scans[j].files) : earlier(j, g)
     THEN 0 ELSE file.alloc

\* Ids run on from scan to scan, below a root with id 0; the bridge
\* passes ChargedOnce as the provider of allocations.
combine_with(scans) ==
  LET before(i, Count(_)) == FoldLeft(LAMBDA n, k : n + Count(scans[k]), 0, [k \in 1 .. i - 1 |-> k])
      dirsBefore(i)  == before(i, LAMBDA s : Len(s.dirs))
      filesBefore(i) == before(i, LAMBDA s : Len(s.files))
      newId(i, id) == LET d == DirIndex(scans[i].dirs, id)
                      IN IF id = NoId \/ d = 0 THEN 0 ELSE dirsBefore(i) + d
      dirsOf(i) == [d \in 1 .. Len(scans[i].dirs) |->
        LET old == scans[i].dirs[d] IN
          [id |-> dirsBefore(i) + d, parent |-> newId(i, old.parent),
           name |-> IF old.parent = NoId THEN old.path ELSE old.name, path |-> old.path]]
      filesOf(i) == [f \in 1 .. Len(scans[i].files) |->
        LET old == scans[i].files[f] IN
          [old EXCEPT !.id = filesBefore(i) + f, !.parent = newId(i, old.parent),
                      !.alloc = ChargedOnce(scans, i, f)]]
      owned(i) == {f \in 1 .. Len(scans[i].files) : scans[i].files[f].id \in DOMAIN scans[i].metadata}
      tree == Build(<<[id |-> 0, parent |-> NoId, name |-> MultiRoot, path |-> MultiRoot]>>
                      \o FlattenSeq([i \in 1 .. Len(scans) |-> dirsOf(i)]),
                    FlattenSeq([i \in 1 .. Len(scans) |-> filesOf(i)]))
      owners == UNION {{<<filesBefore(i) + f, scans[i].metadata[scans[i].files[f].id]>> : f \in owned(i)} :
                       i \in 1 .. Len(scans)}
  IN IF ~Joinable(scans) THEN Refused
     ELSE [ok |-> TRUE,
           tree |-> [tree EXCEPT !.metadata =
                       [id \in {o[1] : o \in owners} |-> (CHOOSE o \in owners : o[1] = id)[2]]]]
=============================================================================
