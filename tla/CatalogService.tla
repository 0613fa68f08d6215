--------------------------- MODULE CatalogService ---------------------------
(***************************************************************************)
(* The published catalog and everything a host does with it.  A scan fills *)
(* the containers of CatalogRecords and publishes the tree built from      *)
(* them; views read it page by page; exports write a report through a      *)
(* temporary file; an import rebuilds a catalog from a report and          *)
(* publishes it in the place of the old one.  The process may die at any   *)
(* point; the report and the temporary files stay.                         *)
(*                                                                         *)
(* The content of a report is a function of the catalog, the format and    *)
(* the filter it was written with, so a file is [tree, format, filter,     *)
(* whole]; its text is computed when it is read.                           *)
(***************************************************************************)
EXTENDS CatalogRecords, CatalogImport

CONSTANTS
  DirRecs,        \* the directory records a scan may find
  OtherScans,     \* finished scans of other roots to join with
  Views,          \* the views a host opens: [kind, arg]
  Searches,       \* sequence of searches of the tree
  Queries,        \* sequence of searches of the flat records
  Filters,        \* filters of an export
  Policies,       \* tier policies
  ForeignDocs,    \* reports of other programs: [text, delimiter, zone]
  ForeignTruth,   \* the files those reports list
  Years,          \* years whose days are counted
  PageSize,       \* entries per page (4096)
  ReportPath,     \* where reports are written
  Workers,        \* threads that may share the totals by extension
  Exporters,      \* calls that may export at the same time
  Pids,           \* process ids the system may hand out
  MaxPublished,   \* bound: catalogs published
  MaxCrashes,     \* bound: deaths of the process
  MaxTemps        \* bound: temporary names taken by one process

VARIABLES
  dirs,           \* arena of the directory records of the scan
  model,          \* the published tree
  origin,         \* what it was made from (to state properties)
  extensions,     \* its totals by extension
  view,           \* the open view and the rows it has shown
  published,      \* number of publications
  job,            \* job[e]: the export e runs
  temps,          \* temporary files, by name
  next,           \* the counter of temporary names
  pid,            \* id of the process
  report,         \* the report at the destination, or none
  import,         \* an import that has been read and not yet published
  crashes

serviceVars == <<dirs, model, origin, extensions, view, published>>
fileVars    == <<job, temps, next, pid, report, import, crashes>>
vars        == <<recordVars, serviceVars, fileVars>>

Idle == [stage |-> "idle"]
NoReport == [format |-> "none"]
NoView == [kind |-> "none", arg |-> 0, rows |-> << >>, total |-> 0, done |-> TRUE, of |-> 0]

SeqSet(s) == {s[i] : i \in 1 .. Len(s)}

-----------------------------------------------------------------------------
(* Scanning: records arrive in any order. *)

\* DirectoryRecords::insert: in the place of the record with the same id, or last.
InsertDirectory(d) ==
  /\ dirs' = IF \E i \in 1 .. Len(dirs) : dirs[i].id = d.id
             THEN [i \in 1 .. Len(dirs) |-> IF dirs[i].id = d.id THEN d ELSE dirs[i]]
             ELSE Append(dirs, d)
  /\ UNCHANGED <<recordVars, model, origin, extensions, view, published, fileVars>>

ScanFile ==
  /\ \E r \in FileRecs : InsertFile(r) \/ RemoveFile(r.id)
  /\ UNCHANGED <<serviceVars, fileVars>>

\* A hint is given before the first record.
ScanHint ==
  /\ positions = NoPositions
  /\ \E total \in 1 .. Cardinality(FileRecs) : Reserve(total)
  /\ UNCHANGED <<serviceVars, fileVars>>

\* set_index_model
PublishModel(tree, from) ==
  /\ model' = tree
  /\ origin' = from
  /\ \E n \in Workers : extensions' = aggregate_extension_totals(tree.files, n)
  /\ published' = published + 1

\* build_index_model: the transaction is consumed.
Publish ==
  /\ published < MaxPublished
  /\ dirs # << >>
  /\ \E tree \in {Build(dirs, records)} :
       PublishModel(tree, [kind |-> "scan", parts |-> << >>, dirs |-> SeqSet(dirs),
                           files |-> SeqSet(records)])
  /\ dirs' = << >>
  /\ TakeRecords
  /\ UNCHANGED <<view, fileVars>>

\* wb_scan_roots: the scans are joined; a refusal preserves the old catalog.
ScanRoots(other) ==
  /\ published < MaxPublished
  /\ dirs # << >>
  /\ \E scans \in {<<Build(dirs, records), other>>} :
       \E joined \in {combine_with(scans)} :
         IF joined.ok
         THEN PublishModel(joined.tree, [kind |-> "joined", parts |-> scans,
                                         dirs |-> {}, files |-> {}])
         ELSE UNCHANGED <<model, origin, extensions, published>>
  /\ dirs' = << >>
  /\ TakeRecords
  /\ UNCHANGED <<view, fileVars>>

-----------------------------------------------------------------------------
(* Views. *)

PageOf(tree, kind, arg, offset) ==
  CASE kind = "children" ->
         LET d == DirIndex(tree.dirs, arg) IN
           [total |-> IF d = 0 THEN 0 ELSE child_count(tree, d),
            hits  |-> for_each_child(tree, arg, offset, PageSize)]
    [] kind = "largest" ->
         [total |-> Len(tree.files), hits |-> for_each_largest_file_page(tree, offset, PageSize)]
    [] kind = "search" ->
         LET page == search(tree, Searches[arg], offset, PageSize)
         IN [total |-> page.total, hits |-> page.hits]
    [] OTHER -> [total |-> 0, hits |-> << >>]   \* answered at once

OpenView(v) ==
  /\ view.done /\ published > 0
  /\ view' = [kind |-> v.kind, arg |-> v.arg, rows |-> << >>, total |-> 0, done |-> FALSE,
              of |-> published]
  /\ UNCHANGED <<recordVars, dirs, model, origin, extensions, published, fileVars>>

\* A page goes on behind the rows shown; an empty or last page ends the view.
NextPage ==
  /\ ~view.done
  /\ \E page \in {PageOf(model, view.kind, view.arg, Len(view.rows))} :
       view' = [view EXCEPT !.rows = @ \o page.hits, !.total = page.total,
                            !.done = page.hits = << >> \/ Len(view.rows) + Len(page.hits) >= page.total]
  /\ UNCHANGED <<recordVars, dirs, model, origin, extensions, published, fileVars>>

-----------------------------------------------------------------------------
(* Exports: a temporary file is written, synced and renamed. *)

\* Refused without a catalog, with a bad filter, or onto a file that the
\* catalog lists; the temporary name must be new.
ExportBegin(e, format, filter) ==
  /\ job[e] = Idle /\ next < MaxTemps
  /\ model.root # 0
  /\ FilterValid(filter)
  /\ ~(report # NoReport /\ contains_file_display_path(model, ReportPath))
  /\ next' = next + 1
  /\ IF <<pid, next>> \in DOMAIN temps
     THEN UNCHANGED <<job, temps>>
     ELSE /\ temps' = [n \in DOMAIN temps \cup {<<pid, next>>} |->
                         IF n = <<pid, next>> THEN "open" ELSE temps[n]]
          /\ job' = [job EXCEPT ![e] = [stage |-> "write", temp |-> <<pid, next>>,
                       doc |-> [tree |-> model, format |-> format, filter |-> filter]]]
  /\ UNCHANGED <<recordVars, serviceVars, pid, report, import, crashes>>

\* Mutant: the file is renamed without being synced.
ExportUnsynced(e) ==
  /\ job[e].stage = "write"
  /\ job' = [job EXCEPT ![e].stage = "rename"]
  /\ UNCHANGED <<recordVars, serviceVars, temps, next, pid, report, import, crashes>>

\* The writer and the flush end; nothing is certain on disk yet.
ExportWrite(e) ==
  /\ job[e].stage = "write"
  /\ job' = [job EXCEPT ![e].stage = "sync"]
  /\ UNCHANGED <<recordVars, serviceVars, temps, next, pid, report, import, crashes>>

ExportSync(e) ==
  /\ job[e].stage = "sync"
  /\ temps' = [temps EXCEPT ![job[e].temp] = "synced"]
  /\ job' = [job EXCEPT ![e].stage = "rename"]
  /\ UNCHANGED <<recordVars, serviceVars, next, pid, report, import, crashes>>

\* The file renamed is whole if it was synced.
ExportRename(e) ==
  /\ job[e].stage = "rename"
  /\ report' = [tree |-> job[e].doc.tree, format |-> job[e].doc.format,
                filter |-> job[e].doc.filter, whole |-> temps[job[e].temp] = "synced"]
  /\ temps' = [n \in DOMAIN temps \ {job[e].temp} |-> temps[n]]
  /\ job' = [job EXCEPT ![e] = Idle]
  /\ UNCHANGED <<recordVars, serviceVars, next, pid, import, crashes>>

\* Any step may fail: the temporary file is removed.
ExportFail(e) ==
  /\ job[e] # Idle
  /\ temps' = [n \in DOMAIN temps \ {job[e].temp} |-> temps[n]]
  /\ job' = [job EXCEPT ![e] = Idle]
  /\ UNCHANGED <<recordVars, serviceVars, next, pid, report, import, crashes>>

-----------------------------------------------------------------------------
(* Imports. *)

\* The file is read and the tree built before the catalog is touched.
ImportRead ==
  /\ import = Idle /\ report # NoReport /\ published < MaxPublished
  /\ import' = [stage |-> "read", format |-> report.format, filter |-> report.filter,
                result |-> Reopen(report.tree, report.format, report.filter),
                from |-> [kind |-> IF report.filter.all THEN "reopened" ELSE "filtered",
                          parts |-> <<report.tree>>, dirs |-> {},
                          files |-> {f \in SeqSet(report.tree.files) :
                                       FilterMatches(report.filter, f)}]]
  /\ UNCHANGED <<recordVars, serviceVars, job, temps, next, pid, report, crashes>>

ImportForeign(doc) ==
  /\ import = Idle /\ published < MaxPublished
  /\ import' = [stage |-> "read", format |-> "foreign", filter |-> NoFilter,
                result |-> read_delimited(doc.text, doc.delimiter, doc.zone),
                from |-> [kind |-> "foreign", parts |-> << >>, dirs |-> {}, files |-> {}]]
  /\ UNCHANGED <<recordVars, serviceVars, job, temps, next, pid, report, crashes>>

\* A failure leaves the old catalog in place.
ImportPublish ==
  /\ import # Idle /\ published < MaxPublished
  /\ IF import.result.ok
     THEN PublishModel(import.result.tree, import.from)
     ELSE UNCHANGED <<model, origin, extensions, published>>
  /\ import' = Idle
  /\ UNCHANGED <<recordVars, dirs, view, job, temps, next, pid, report, crashes>>

-----------------------------------------------------------------------------
\* The process dies: memory is lost, files stay, a temporary file that was not
\* synced holds anything; the next process may get the same id.
Crash ==
  /\ crashes < MaxCrashes
  /\ crashes' = crashes + 1
  /\ model' = EmptyTree
  /\ origin' = [kind |-> "none", parts |-> << >>, dirs |-> {}, files |-> {}]
  /\ extensions' = [key \in {} |-> 0]
  /\ view' = NoView
  /\ dirs' = << >>
  /\ TakeRecords
  /\ job' = [e \in Exporters |-> Idle]
  /\ import' = Idle
  /\ next' = 0
  /\ pid' \in Pids
  /\ UNCHANGED <<published, temps, report>>

-----------------------------------------------------------------------------
(* Bounds: one scan fills the containers, before anything is published; no *)
(* one else reads them.  Views and exports only read the catalog, so a     *)
(* behaviour has views or exports and not both; the report of another      *)
(* program is imported while there is none of its own.  A second export of *)
(* a process overlaps the first one, and both are plain ones.              *)
Scanning  == published = 0 /\ import = Idle
Viewing   == report = NoReport /\ \A e \in Exporters : job[e] = Idle
Exporting == view = NoView
Second(e, format, filter) ==
  /\ format = "csv" /\ filter.all
  /\ \E other \in Exporters \ {e} :
       job[other] # Idle /\ job[other].doc.format = "csv" /\ job[other].doc.filter.all

Init ==
  /\ RecordsInit
  /\ dirs = << >>
  /\ model = EmptyTree
  /\ origin = [kind |-> "none", parts |-> << >>, dirs |-> {}, files |-> {}]
  /\ extensions = [key \in {} |-> 0]
  /\ view = NoView
  /\ published = 0
  /\ job = [e \in Exporters |-> Idle]
  /\ temps = [n \in {} |-> "open"]
  /\ next = 0
  /\ pid \in Pids
  /\ report = NoReport
  /\ import = Idle
  /\ crashes = 0

Next ==
  \/ Scanning /\ \E d \in DirRecs : InsertDirectory(d)
  \/ Scanning /\ ScanFile
  \/ Scanning /\ ScanHint
  \/ Scanning /\ Publish
  \/ Scanning /\ \E other \in OtherScans : ScanRoots(other)
  \/ Viewing /\ \E v \in Views : OpenView(v)
  \/ NextPage
  \/ Exporting /\ \E e \in Exporters, format \in ExportFormats, filter \in Filters :
       /\ format # "csv" => filter.all
       /\ next > 0 => Second(e, format, filter)
       /\ ExportBegin(e, format, filter)
  \/ \E e \in Exporters : ExportWrite(e) \/ ExportSync(e) \/ ExportRename(e) \/ ExportFail(e)
  \/ ImportRead
  \/ published > 0 /\ Viewing /\ \E doc \in ForeignDocs : ImportForeign(doc)
  \/ ImportPublish
  \/ published > 0 /\ Crash

Spec == Init /\ [][Next]_vars

-----------------------------------------------------------------------------
(* Properties. *)

TypeOK ==
  /\ SeqSet(records) \subseteq FileRecs /\ SeqSet(dirs) \subseteq DirRecs
  /\ model.root \in 0 .. Len(model.dirs)
  /\ published \in 0 .. MaxPublished /\ next \in 0 .. MaxTemps /\ pid \in Pids
  /\ \A e \in Exporters : job[e].stage \in {"idle", "write", "sync", "rename"}
  /\ \A n \in DOMAIN temps : temps[n] \in {"open", "synced"}

\* The tree holds exactly the records the scan inserted last and did not
\* remove, in the order of their ids, however they arrived
\* (sort_records_by_id, FileRecords, DirectoryRecords).
ScanKept ==
  origin.kind = "scan" =>
    /\ SeqSet(model.files) = origin.files /\ SeqSet(model.dirs) = origin.dirs
    /\ \A i \in 1 .. Len(model.files) - 1 : model.files[i].id < model.files[i + 1].id
    /\ \A i \in 1 .. Len(model.dirs) - 1 : model.dirs[i].id < model.dirs[i + 1].id

\* The totals of every directory that hangs below the root are the totals of
\* all that lies beneath it by the chain of parents, orphans attached to the
\* root included (compute_rollups).
RollupsExact ==
  model.root # 0 =>
    \A d \in Beneath(model, model.root) : model.rollup[d] = TrueRollup(model, d)

\* The totals by extension do not depend on how many threads shared the files
\* (aggregate_extension_totals).
ExtensionTotalsExact ==
  published > 0 /\ model.files # << >> => extensions = aggregate_extension_chunk(model.files)

\* The published catalog is sound: its parts are in range, it holds what the
\* scan found, and its totals of every kind are those of its records.
ModelSound == TypeOK /\ ScanKept /\ RollupsExact /\ ExtensionTotalsExact

\* What a view must list.
ListingOf(tree, kind, arg) ==
  LET all == SeqSet(TreeEntries(tree))
      d   == DirIndex(tree.dirs, arg)
  IN CASE kind = "children" ->
            {e \in all : d # 0 /\ d = IF e.dir THEN ParentOf(tree, e.at)
                                     ELSE FileParent(tree.dirs, tree.root, tree.files[e.at])}
       [] kind = "largest" -> {e \in all : ~e.dir}
       [] kind = "search"  -> {e \in all : search(tree, Searches[arg], 0, 0).ok
                                          /\ SearchMatches(tree, Searches[arg], e)}

InOrder(tree, kind, arg, a, b) ==
  CASE kind = "children" -> EntryPhysical(tree, a) >= EntryPhysical(tree, b)
    [] kind = "largest"  -> LargerFile(tree, a.at, b.at)
    [] kind = "search"   -> SearchOrder(tree, Searches[arg], a, b)

\* The pages of a view, put together, list every entry once and in order, and
\* each page tells the true total, if no catalog was published in between
\* (for_each_child, for_each_largest_file_page, search).
PagesAreListing ==
  view.done /\ view # NoView /\ view.kind \in {"children", "largest", "search"} /\ view.of = published =>
    /\ SeqSet(view.rows) = ListingOf(model, view.kind, view.arg)
    /\ Len(view.rows) = Cardinality(SeqSet(view.rows)) /\ Len(view.rows) = view.total
    /\ \A i \in 1 .. Len(view.rows) - 1 :
         InOrder(model, view.kind, view.arg, view.rows[i], view.rows[i + 1])

\* A limited search by text returns the beginning of the unlimited one, both
\* ways round and with equal names (IndexCatalog::search).
QueryIsPrefix ==
  view.kind = "query" =>
    \A cat \in {from_transaction(model.dirs, model.files)} :
      cat.sums.ends =>
        \A all \in {CatalogSearchHits(cat, Queries[view.arg], {})} :
          \A n \in 0 .. Len(all) + 1 :
            CatalogSearchHits(cat, Queries[view.arg], {n}) = SubSeq(all, 1, Min({n, Len(all)}))

\* The tiers share out the allocation of all files, or the estimate is
\* refused (storage_cost::estimate).
TiersCoverFiles ==
  view.kind = "cost" =>
    LET cost == estimate(model, Policies[view.arg]) IN
      cost.ok => /\ cost.bytes[0] + cost.bytes[1] + cost.bytes[2]
                      = MapThenSumSet(LAMBDA f : model.files[f].alloc, 1 .. Len(model.files))
                 /\ cost.unknown <= cost.files[0]

\* What a host is told about the catalog, page by page, limited or summed up,
\* is what the catalog holds.
AnswersExact == PagesAreListing /\ QueryIsPrefix /\ TiersCoverFiles

\* A report at its destination is always whole, whatever failed or died
\* while it was written (atomic_write_with_capacity).
ReportWhole == report # NoReport => report.whole

\* A catalog whose paths follow its tree, each path once.
PathsFollowTree(tree) ==
  LET paths == [i \in 1 .. Len(tree.dirs) + Len(tree.files) |->
                  Lower(TrimSlashes(EntryPath(tree, TreeEntries(tree)[i])))]
  IN /\ tree.root # 0
     /\ \A f \in 1 .. Len(tree.files) : DirIndex(tree.dirs, tree.files[f].parent) # 0
     /\ \A d \in 1 .. Len(tree.dirs) : d # tree.root =>
          /\ d \in Beneath(tree, tree.root)
          /\ tree.dirs[d].path = join_path(tree.dirs[ParentOf(tree, d)].path, tree.dirs[d].name)
     /\ Cardinality(SeqSet(paths)) = Len(paths)

FileRowOf(tree, file, details) ==
  <<file_display_path(tree, file), file.size, file.alloc,
    IF file.modified = NoTime THEN << >> ELSE <<unix_seconds(file.modified)>>,
    IF details THEN file.attrs ELSE Archive>>

FileRows(tree, details) == {FileRowOf(tree, f, details) : f \in SeqSet(tree.files)}

DirRows(tree) ==
  {<<TrimSlashes(tree.dirs[d].path), tree.rollup[d].logical, tree.rollup[d].physical,
     tree.rollup[d].files, tree.rollup[d].items>> : d \in 1 .. Len(tree.dirs)}

\* A report of a catalog whose paths follow its tree can be read back, in
\* every format, to the same files, sizes, dates to the second and directory
\* totals, whatever characters its names have (export.rs, import.rs).
RoundTrip ==
  import # Idle /\ import.from.kind = "reopened" =>
    LET was == import.from.parts[1]
        detailed == import.format \in {"detailed", "json"}
    IN PathsFollowTree(was) =>
         /\ import.result.ok
         /\ FileRows(import.result.tree, detailed) = FileRows(was, detailed)
         /\ DirRows(import.result.tree) = DirRows(was)

\* A filtered report holds the files that the filter's words mean, and no
\* others (ExportFilter::matches, unicode_wildcard).
FilterExact ==
  import # Idle /\ import.from.kind = "filtered" /\ import.result.ok =>
    LET was == import.from.parts[1]
        meant == {f \in SeqSet(was.files) :
                    /\ \A min \in import.filter.min : f.size >= min
                    /\ import.filter.patterns # {} =>
                         \E p \in import.filter.patterns : Means(Lower(p), Lower(f.name))}
    IN FileRows(import.result.tree, FALSE) = {FileRowOf(was, f, FALSE) : f \in meant}

\* Reports, whole and filtered, read back to what they were written from.
ReportsReadBack == RoundTrip /\ FilterExact

\* Joining several roots keeps every file with its path and size, below one
\* root that counts them all, and charges a file with several names once
\* (combine_with, wb_scan_roots).
JoinedExact ==
  origin.kind = "joined" =>
    LET sources == UNION {{<<file_display_path(p, f), f.size>> : f \in SeqSet(p.files)} :
                          p \in SeqSet(origin.parts)}
        linked(i) == {f \in SeqSet(model.files) : f.inode = i}
    IN /\ {<<file_display_path(model, f), f.size>> : f \in SeqSet(model.files)} = sources
       /\ model.dirs[model.root].path = MultiRoot
       /\ \A i \in Linked :
            (\E p \in SeqSet(origin.parts) : \E f \in SeqSet(p.files) : f.inode = i /\ f.alloc > 0)
              => Cardinality({f \in linked(i) : f.alloc > 0}) = 1

\* The reports of other programs about one folder give one catalog
\* (windirstat, wiztree, the time zone of a WizTree export).
ForeignFiles ==
  origin.kind = "foreign" => FileRows(model, FALSE) = ForeignTruth

\* The day after a date, by the calendar.
NextDay(y, m, d) ==
  IF d < MonthDays(y, m) THEN <<y, m, d + 1>>
  ELSE IF m < 12 THEN <<y, m + 1, 1>> ELSE <<y + 1, 1, 1>>

\* The dates an import reads are counted day by day as the calendar does, over
\* the ends of months, leap years and centuries (utc_date).
DatesExact ==
  import # Idle /\ import.from.kind = "foreign" =>
    /\ utc_date(1970, 1, 1) = 0
    /\ \A y \in Years, m \in 1 .. 12 : \A d \in {1, 28, MonthDays(y, m)} :
         \A after \in {NextDay(y, m, d)} :
           utc_date(after[1], after[2], after[3]) = utc_date(y, m, d) + 1

\* An imported report of another program has its files and its dates right.
ForeignExact == ForeignFiles /\ DatesExact
=============================================================================
