# A TLA+ development for WinBlaze

WinBlaze is a disk usage analyser for Windows: a Rust engine that scans a volume,
keeps a catalog of what it found and answers queries, and a C++/WinRT window that
hosts it. This directory holds TLA+ modules translated from that code, TLC
configurations that check them on small instances, and TLAPS proofs of the results
that hold for every instance. Paths below are relative to the repository's root
(`PROJECT.json` writes them with a leading `src/`).

## 1. Inventory

### How the parts work together

A scan is started by the window (`WinBlaze.UI`) or by the command line. The bridge
(`WinBlaze.Native/src/bridge.rs`) makes a *session* of it: a scan thread inside
`WinBlaze.Scanner` and a worker thread that runs `forward_events`. The scan thread
reads the NTFS master file table or, where that is impossible or fails, walks the
directories with several workers. Threads batch events in pipelines and send the
batches over one bounded channel. The worker puts each event into a transaction of
`WinBlaze.Index`, calls the host back, publishes the read model that queries use
(`INDEX_MODEL`), and writes the snapshot file. A rescan opens the previous snapshot
and merges what it finds into it. The host destroys a session when it hears of its
end, or after it has cancelled it.

| Component | State | Operations | Correct when |
|---|---|---|---|
| Snapshot files (`store.rs`) | primary, backup, temporary file; the repository's state | open, persist, invalidate, compact | a crash or a failing call at any point leaves the old or the new catalog; loads are not stale |
| Incremental merge (`store.rs`, `model.rs`) | previous catalog, new transaction | renumber by path, diff, apply | the result is what the scan saw; identifiers are stable; the change set is exact |
| Directory walk (`controller.rs`, `policy.rs`, `allocation.rs`) | task stack, count of outstanding directories, condition variable, chains of ancestors, claimed identities, totals, progress mark | take, read, descend, claim, queue children, spawn, wait, cancel | it ends; every path is reported exactly once; links do not trap it; a file is charged once; totals and records agree |
| Event delivery (`pipeline.rs`, `delivery.rs`) | per-thread batches, a bounded channel | emit, flush, send, receive, give up | the end comes last; nobody blocks for ever |
| Scan sessions (`bridge.rs`) | transaction, repository, flags of `forward_events`; shared model, snapshot, `PERSIST_GATE` | start, cancel, destroy, forward, flush, publish, deferred write, query | the host's reload is fresh; a rescan compares with the last scan; one writer at a time; sessions end |
| Window as host (`MainWindow.cpp`, `NativeBridge.cpp`) | `m_session`, `m_session_active`, detached threads | begin, cancel, terminal callback | no session escapes; a callback acts on its own session; no handle is used after its session |
| Master file table reader (`ntfs.rs`) | extents, carry buffer, three threads, parent graph | open, read, fix up, parse, stream, read at once, read a dump | every record in use becomes one event, wherever reads cut it; torn records are refused; totals add up; it ends; a reader that breaks off fails |
| Record containers (`file_records.rs`, `directory_records.rs`) | arena and position table (dense or sparse) | insert, remove, reserve, take | they behave as a map |
| Tree, search and queries (`tree.rs`, `tree_search.rs`, `query.rs`) | sorted tree with rollups, remembered order by size | build, roll up, list, page, search, largest files, storage cost, extension totals | totals add up; pages partition the listing; answers are what was asked for |
| Import and export (`export.rs`, `import.rs`, `output.rs`) | report, temporary files | write, sync, rename, parse, publish | a report is whole; it reads back as what it was written from; foreign listings keep files and dates |
| Multi-root scan (`bridge.rs`, `multiple_roots.rs`) | one scan per root | renumber, charge linked files once, combine | no record is lost or aliased |
| Update (`update.rs`, `bridge.rs`, `MainWindow.cpp`, updater) | release, download, staged and installed files | check, download, verify, unpack, hand off, wait, copy with retries, relaunch, clean up | only verified bytes are installed; the application comes back |
| UI background work (`OwnedBackgroundWork.h`) | jobs, acceptance flag | run, reap, close and drain | nothing runs after the drain |

Everything else (views, themes, shell calls, permission and hash reports, schema
constants, tests, benchmarks, installer) keeps no state that another part depends
on; `PROJECT.json` lists each with the reason it is left out.

### What is hard here

* **Concurrency.** Walk workers share a stack and a condition variable; records and
  the end travel in batches of different threads; sessions overlap; callbacks run on
  a worker thread while the window thread uses the same members without a lock.
* **Failure.** A kill between two renames, failing writes, an unreadable primary, a
  table reader that gives up after it has sent records, a consumer that goes away.
* **Order.** The host hears *Completed* before the snapshot is written; the model is
  published before the gate is taken; numbers of a walk differ from scan to scan.
* **Limits.** A full channel, a batch that is just full, progress marks raced by
  compare-exchange; a record that two reads share; a position table that turns
  sparse; sums that saturate; a cache asked for exactly what it holds.
* **Text.** Names with separators and quotes, dates at the ends of months and
  centuries, listings of other programs with totals rows and shared prefixes.

The list with source lines, and the property that watches each, is `hazards` in
`PROJECT.json`.

## 2. Modules

| Module | Models | Run |
|---|---|---|
| `SnapshotRegister` | what the store promises: one cell that a commit replaces in one step | (refined by `SnapshotStore`) |
| `SnapshotStore`, `MCSnapshotStore` | `open`, `persist_snapshot_with`, `invalidate_cache`, `compact_cache`, one step per file system call | `snapshot_store`, `store_reader_race` |
| `SnapshotStoreProofs` | proofs about it | |
| `FallbackWalk`, `MCFallbackWalk` | both directory walkers with reparse decisions, charging and event delivery | `walk` |
| `FallbackWalkProofs`, `FallbackCompleteProofs` | proofs about it | |
| `MftRecord` | record headers, fixups, attributes, names and sizes | `mft_pipeline` |
| `MftVolume` | boot sector, run lists, the parts of the table that are skipped, `VolumeMftReader` | `mft_pipeline` |
| `MftStream` | `NtfsStreamState` and `parse_entries`: from records to events | `mft_pipeline` |
| `MftPipeline`, `MCMftPipeline` | reader, parser and scan thread; reading at once; reading a dump | `mft_pipeline`, `mft_partial` |
| `ScanSession` | sessions, the read model, the gate and the snapshot | `ScanSession`, `SessionCancelled` |
| `ScanSessionProofs` | proofs about it | |
| `UiSession` | the window that starts, cancels and destroys sessions; extends `ScanSession` | `UiSession`, `UiTeardown` |
| `UiSessionProofs` | proofs about it | |
| `IncrementalMerge` | renumbering, diff and application as operators | `IncrementalRescan` |
| `IncrementalRescan` | scans of a changing tree, merged one after the other | `IncrementalRescan` |
| `IncrementalRescanProofs` | proofs about both | |
| `RecordMap` | what a record container promises: a map from ids to records | (refined by `CatalogRecords`) |
| `CatalogRecords` | arena, dense and sparse positions, swap removal, reservation | `catalog` |
| `CatalogRecordsProofs` | proofs about it | |
| `CatalogTree` | order by id, root, parents, rollups, listings by size | `catalog` |
| `CatalogSearch` | tree search, flat queries, storage cost, extension totals | `catalog` |
| `CatalogText` | exports and their filters, wildcards, quoting, dates | `catalog` |
| `CatalogImport` | reading own and foreign listings; joining several roots | `catalog` |
| `CatalogService`, `MCCatalogService` | the published catalog, views, exports, imports, deaths of the process | `catalog` |
| `Update`, `MCUpdate` | update check, download, verification, hand-off and the helper | `updater` |
| `UpdateProofs` | proofs about it | |

The composition follows the code. `ScanSession` takes the snapshot as one register
whose concurrent loads may come up empty; `SnapshotStore` is shown to implement that
register for a single writer, and `OneWriter` in `ScanSession` shows when there is a
single writer. `UiSession` replaces the free host of `ScanSession` by the window.

### SnapshotStore

`bin`, `bak`, `tmp` are the three files: a catalog, `Absent` or `Torn`. `pc` is the
next system call of the writing thread, so that a crash, a failing call (`Fails`) and
the two halves of a concurrent `open()` (`OpenPrimary`, `OpenBackup`) come between
any two calls. `Damage` makes the primary unreadable. `seen`, `damaged` and `damage`
are history variables. What is written is abstract; that a file decodes is the only
thing known of its bytes.

### FallbackWalk

`pc` holds the place of the scan thread (`Main`) and of each worker; `tasks`,
`outstanding`, `waiting` are the queue and its condition variable, whose spurious
wake-ups are allowed. The parallel walk starts alone in a chain of single
directories and spawns workers when there is something to share, as the code does.
With one worker the actions named `Walk...` are `walk_directory_tree`; its recursion
is the sequence `callers`. `Emit` is the pipeline's `enqueue`: an event goes into the
thread's own batch, which is sent when full or forced. A send on a full channel
blocks that step. The consumer may drop the receiver at any time.

A path is the sequence of names from the root; the chain of ancestors holds the
directories that these names resolve to. `setup` is the configuration and the disk a
scan starts from: workers, policy, excluded paths, targets of links, files that are
names of one file, directories and entries that may fail. It is chosen at the
beginning and does not change. `ToEnter`, used by the property only, says what is to
be entered from the targets alone, without a chain.

### MftRecord, MftVolume, MftStream, MftPipeline

Addresses and lengths are in sectors; a record is two sectors, so that a read, an
extent or a skipped run can cut one in half. `rd` is `VolumeMftReader`, `carry` the
half record the parser keeps between blocks, `pool`, `blocks` and `parsed` the
recycled buffers and the two channels. `st` is `NtfsStreamState`: directories whose
parent is not known wait in `orphans`, sizes of extensions whose base has not come in
`pending`. The reader may fail at any read, upon which the scan fails. At a record that is cut off
too early (`"edge"`) `parse_record` panics. In one of several parsing workers that is an
error of the scan; on the parser thread itself, that is with one worker or a small batch,
it closes the channel like the end of the table, `Join` drops it, and the scan reports
*ok* over part of a table. `Answered` therefore excludes a panicked parser from what the
properties say of a complete answer; `NothingInvented` covers it, and the run
`mft_partial` shows what it leaves out. `mode` chooses between the stream, the whole
table at once and a dump file. Record sizes and signatures that a dump is refused for
(`ntfs.rs:1794`), and a metadata file that opens in place of the volume
(`ntfs.rs:1657`), are left out.

### CatalogRecords to CatalogService

`recordVars` are the container of files: the arena, the table of positions and its
sparse form. `Publish` takes the records and builds the tree; `ScanRoots` joins it with
another scan; `OpenView` and `NextPage` are the calls that fill a list page by page; an
export is a job with the stages of `output.rs`, and its content is kept as the catalog,
the format and the filter it was written with. `Crash` loses memory, keeps files and
may give the next process the same id. `origin` records what the model was made from
and is used by properties only. Texts are sequences of a few characters, since quoting,
case, wildcards and path prefixes are what these properties are about; a number and a
drive are one character each. Ties of the code's unstable sorts are left in the order
of the index. Regular expressions and JSON escapes are external, of the detail columns
attributes and owner are kept, and a calendar date in a foreign listing stands for its
seconds, which `utc_date` computes.

### Update

`step` is the window's coroutine, `helper` the updater. A digest names the bytes it was
made of, a manifest is a sequence of words, and a version its parts. `Locked` is true
while the application, or another process of it that the user has started, runs; a
file is copied, torn or left at each attempt. Failures and starts share one bound. Only a
torn executable fails to start; other errors of the start, which the helper ignores
(`main.rs:123`), are left out.

### ScanSession

One record per session of what `forward_events` keeps in local variables, plus the
shared model, snapshot and gate. A write has a beginning and an end, so that loads
and other writers can come between. The master file table reader may fail after
`partial` records, upon which the walk announces the session a second time in the
same channel. `StartTerminal` and `Deadline` are `run_terminal_scan`.

### UiSession

`callback` is the terminal event that holds `m_pending_ui_mutex`: it copies the handle,
clears it, and clears the flag, in steps. The window's thread takes that mutex before it
starts a scan, but not around its own accesses of `m_session` and `m_session_active`, so
those are steps between the steps of a callback. Two accesses of which no other thread can
see the order (the flag, which only the window's thread reads, and what follows it) are one
step. `straddled` records whose handle was stored amid a callback. Detached threads are
tuples of who spawned them, the handle and the call. A handle is a bare pointer; when one
is used after its session was destroyed, behaviour is undefined, `misused` says so, and the
model stops there. Loads and stores of the handle are taken to be whole and in program
order: the data race itself, which is undefined in C++, is not modelled further.

### IncrementalMerge, IncrementalRescan

Directories and files are functions from identifiers to records. What a record holds
besides its name and place is one value. `Fresh` gives the numbers after the largest
one in use, in the order of the records that need one. `IncrementalRescan` drives
`Merge` with scans of every tree over the constants, under every numbering, in which
any subset of the directory records may be missing.

## 3. Runs

| Run | Question | Result |
|---|---|---|
| `snapshot_store` | do the three files implement the register through crashes and failures; are concurrent loads current or empty? | holds |
| `store_reader_race` | is a concurrent load always current (documented: atomic replacement)? | violated: it can come up empty |
| `walk` | is the count exact, no wake-up lost, each path reported once, the end last, Completed complete, each file charged once; does every scan end and is that heard? | holds, the last two under fairness |
| `mft_pipeline` | are files, directories, paths and totals those of the table, however threads, reads, extents and skipped runs cut it; are torn dumps refused; does the scan end? | holds, the last under fairness |
| `mft_partial` | does the scan fall back when the run list of the table goes on in another record, or its parser panics (documented)? | violated: one behaviour meets both and reports success |
| `ScanSession` | is the rescan's base, the host's reload, the final snapshot right; one writer at a time; does every session end? | holds, the last under fairness |
| `SessionCancelled` | are changes applied only with a summary (documented)? | violated by a cancelled rescan |
| `UiSession` | is a live session that nobody can end always one whose handle was stored amid a terminal callback? | holds |
| `UiTeardown` | does no orphan, handle or stale callback survive a session (`TODO.md`)? | violated: a handle stored amid a callback is wiped |
| `IncrementalRescan` | is the merged catalog what the scan saw, with stable identifiers and exact changes? | holds |
| `catalog` | do containers implement the map, is the model what was scanned, are answers, reports, joins and imports exact? | holds |
| `updater` | are only verified, newer bytes installed, is a reported copy complete and a broken one mixed at one place, does the application come back? | holds, the last under fairness |

Several properties are conjunctions of named parts. `UiInv` is the type invariant with
`OnlyStraddledAreLost`; `TableExact` is the type invariant with `FilesExact`,
`DirectoriesExact` and `NothingInvented`; `TotalsExact` joins `SummaryExact` and `ProgressExact`;
`ModelSound` joins the type invariant, `ScanKept`, `RollupsExact` (against sums along
the parents) and `ExtensionTotalsExact`; `AnswersExact` joins `PagesAreListing`,
`QueryIsPrefix` and `TiersCoverFiles`; `ReportsReadBack` joins `RoundTrip` and
`FilterExact`; `ForeignExact` joins `ForeignFiles` and `DatesExact`; `InstallInv` joins
the type invariant, `CopiedIsComplete` and `MixedIsPrefix`; `NothingSurvives` joins `NoOrphan`,
`NoStaleHandle` and `NoStaleCallback`. TLC reports one counterexample of the last, an orphan;
each of the other two, put in its place in `UiTeardown.cfg`, is violated as well: a cancel and
a callback both copy the handle and both destroy it, and the late event of a cancelled scan
destroys the scan started after it. In `mft_partial` the only behaviour has both faults, a
table described in part and a panic, and either alone would be a violation.

Every property of a passing run has a mutant in `PROJECT.json`: a definition with a
plausible mistake (a dropped guard, a missing reset, a wrong order) under which TLC
finds the property violated. Mutants stand before the definition they replace.

### Bounds and why they are enough

* `SnapshotStore`: two catalogs (old and new; symmetric), one reader, two damages.
  A reader never touches what another reader uses, and the proofs lift the bounds.
* `FallbackWalk`: a tree of four directories and three files, of which two may be
  names of one file. The link in it leads to the root (a cycle), to its sibling, or
  nowhere. The serial walker meets every policy, target and identity; two workers meet
  the cycle and a link that is followed, where one file is found under two paths. Two
  workers are enough for one to hold a batch, or to sleep, while the other goes on.
  One batch in the channel, batches of three events; `PendingLimit`, `PublishAt` and
  `ProgressDelta` are small so that each limit is met.
* `MftPipeline`: tables of six records around the root record 2, with parents before
  and after their children, cycles, extensions before and after their base, torn,
  deleted and cut-off records. Records are two sectors; the volumes have one extent, an
  extent that cuts a record, fragments with a valid length and a bitmap, and clusters
  larger than a record; some are refused. Two buffers, channels of two, one or two
  parsing workers; the reader may fail. Deadlock is not checked since a scan ends.
  `mft_partial` takes one table that begins with a corrupt record and of which record 0
  describes two thirds, read by one worker.
* `CatalogService`: four directories and a handful of files chosen so that a cycle, an
  orphan, equal sizes, names equal but for case, quotes and separators all occur. Sums
  saturate at `MaxBytes`, the remembered order holds one entry (`CacheCap`). Two
  exporters and two process ids (symmetric), one crash, two publications, two left-over
  temporary files: a collision of names needs two. Scans, views and exports are
  exercised in turn, since they meet only in the published model, which does not change
  while it is read. Deadlock is not checked since the publications are bounded.
* `Update`: releases with newer, equal, older and unreadable tags, manifests with
  right, blank, missing and misplaced digests, downloads of either artifact or of
  something else; three files; two attempts for each file; three faults or starts of
  another process. Deadlock is not checked since an update ends.
* `ScanSession`: two sessions of any three kinds, with failing writes and one batch in
  the channel. Invariants that relate a session to the one before need two.
* `UiSession`: two sessions, as a stale callback needs one session cancelled and
  one new. Channels of one batch. A session that was stored amid a callback may stop
  everything behind the gate; that stop, and undefined behaviour, are no deadlock.
* `IncrementalRescan`: two directories and two files, two data values, two rescans;
  names and data are symmetric. Two directories suffice for a dangling number to
  alias another directory, and the second rescan starts from a merged catalog.
  Deadlock is not checked since the number of rescans is bounded.

`SnapshotMatchesModel`, `RescanReadsFresh` and `OneWriter` are checked with
`Overlap = FALSE`: the host starts a session after it has heard of the end of the
last one. They do not survive overlap. The model is published before the gate is
taken, so of two overlapping sessions one can publish last and the other write last.
The window does allow overlap, since cancelling clears `m_session_active` at once
while the cancelled session still runs; the comment at `bridge.rs:1139` takes it that
it does not. Some more things were met while modelling and are kept here as notes.

* The mutex would cure the window: were the handle stored, and copied and cleared by a
  cancel, under `m_pending_ui_mutex`, nothing would be stored amid a callback
  (`NoOrphan`) nor copied twice (`NoStaleHandle`). A stale callback would remain.
* A session that nobody can end keeps its scan's catalog in memory, and a full scan keeps
  `PERSIST_GATE` before its deferred write: its snapshot is never written, and the worker
  of every later session waits.
* Code and documentation disagree on the verdict 2 of a download (no digest listed).
  `bridge.rs:2437` says "caller may proceed on transport trust — e.g. an older release
  without a manifest" and `NativeBridge.cpp:493` "indeterminate (proceed on transport
  trust)"; the only caller, `MainWindow.cpp:313`, goes on with the verdict 1 alone, so
  such a release leads to the download page. The model follows the code: `VerifiedOnly`
  holds because `Verify` fails closed, and would not hold of the documented behaviour.
* A full scan writes its volume over the snapshot on its first event (`bridge.rs:1393`).
  Until the deferred write, a process that is terminated starts again without a catalog,
  while `TODO.md:78` asks to "keep the previous valid snapshot".
* A scan that completes before its handle is stored keeps `PERSIST_GATE` until the
  user acts, since only the destruction of its session lets the worker go on to the
  deferred write, and a second session waits behind that gate.
* A file that moved is reported as removed and added, since matching is by path, while
  `docs/INCREMENTAL_INDEXING_SCOPE.md:13` speaks of moves.
* With several workers a child's record can arrive before its parent's, as they travel
  in batches of different threads; the index does not depend on the order.
* Compaction deletes the backup before it rewrites the primary: a primary that is
  damaged at that moment is lost, which is the step `GiveUp` of the register.
* Two files without a known parent derive the same path (`store.rs:378`), so a merge
  takes the one for the other. Change sets are appended and never trimmed
  (`store.rs:578`).
* The live forwarder counts files again that a fallback reissues (`bridge.rs:794`),
  against the comment above it; the catalog is not affected.
* A lower progress value can be sent after a higher one, since reading, comparing and
  sending are separate steps (`controller.rs:1253`).
* Pages of one listing taken before and after a publication are of two catalogs
  (`bridge.rs:2518`); the window lists again when a scan ends.

### Fairness

`walk` and `ScanSession` assume weak fairness of each thread: the operating system
runs a thread that can run. The consumer of a walk keeps receiving or gives up; it may
not stop in between, since `for_each_event_until` loops. In `ScanSession` the host
destroys a session once it has heard of its end (the terminal branch of
`HandleNativeEvent`); nothing is assumed about a user cancelling. Taking the gate is
weakly fair only: with two sessions there is no third to starve anyone.

In `mft_pipeline` each of the three threads of a streamed scan that stays ready moves on.
The conditions under which a thread is ready are written out (`ReaderReady`,
`ParserReady`, `ScanReady`) in place of `WF`, as TLC would parse the table again to find
them; the receiving end of a channel hangs up when its thread is gone, and the sender
sees that.

In `updater` the helper is a process of its own that nobody stops and
`Application::Exit` ends the application, so both are weakly fair; the user, the other
process and the network owe nothing.

## 4. Proofs

`SnapshotStoreProofs` proves, for any sets of catalogs and readers and any bound
on damage, from `StoreAssumption` (the markers differ from catalogs):

* `TypeCorrect`: the type invariant;
* `PrimaryAlwaysWhole`: no half-written primary, from `WriterInv`, which says where
  the primary is at each call of the protocol. `PrimaryIsWhole` alone is not
  inductive: that `Publish` installs a whole file needs the temporary file to hold
  all of `writing`, and that `StashPrimary` stashes something needs a primary;
* `LoadsAreCurrent`: loads are current or empty, from `ReaderInv`: a reader that
  has missed the primary has seen, as current, whatever either file has held since.
  This needs `WriterInv`, by which the backup is the current catalog when it matters;
* `StoreImplementsRegister`: each step is a step of the register or changes nothing.

`IncrementalRescanProofs` proves about the operators of the merge, for any catalogs with
natural identifiers up to any bound:

* `FileIdsDistinct`: files of distinct paths get distinct identifiers. The argument:
  a kept identifier is one of the previous catalog and leads back to the path; a new
  one lies above all identifiers in use, and no two are alike because each counts the
  records before it (`FreshIsNew`, by cardinalities of nested sets);
* `DanglingStaysDangling`: a reference to a directory that was not recorded never
  comes to name a previous directory or a renumbered one;
* `MergeIsCurrent`: the computed change set, applied to the files it was computed
  from, yields exactly the files of the scan.

And about scans merged one after the other, for any number of files and rescans, either
way of scanning, any numbering and any directory records that a scan misses, from
`RescanAssumption` (the names that a disk holds are finitely many, and none but the
root's is `root`):

* `RescanTypeCorrect`: the type invariant;
* `CatalogAlwaysTheScan`: the merged catalog shows what the last scan saw, each file under
  its own directory, and keeps nothing that is gone;
* `PathsAlwaysAgree`: a path that is stored is the one that the parents give;
* `IdsAlwaysStable`: a path that stays keeps its identifier;
* `ChangesAlwaysExact`: the change set names exactly what came, went and changed.

None of the invariants is inductive alone: renumbering looks records up by their paths,
so it depends on no two directory records having one path, and on where the parent of a
record leads when the directory's own record is missing. The inductive invariant
`RescanInv` says what a catalog has of a scan (`Depicts`): each directory record is of one
directory that the scan knows, the root keeping its number; each file record is that of a
file seen, its parent the record of its directory, or a number in no use if the scan
missed that; and each file seen has a record. `ScanDepicts` shows it of a scan's own
transaction, `RemappedDepicts` that renumbering keeps it whatever catalog is followed, and
`MergeDepicts` adds `Follows`: identifiers that are in use again are those of the same
paths. The two action properties follow from `Depicts` before and after a merge, and from
`Follows` in between. TLC checks `RescanInv` on the instances of the run, for both values
of `Backend`.

`CatalogRecordsProofs` proves, for any set of records, any hole and any limit of the
table, from `RecordsAssumption`:

* `PositionsAlwaysAgree`: the arena and its lookup agree after any insertions,
  replacements, removals and reservations, also across the promotion to a sparse table;
* `RecordsImplementMap`: each step is a step of `RecordMap` or changes nothing.

Both follow from `RecordsInv`: every record is found at its own position, every number
that is found leads to the record with that identifier, and the lookup has the form its
kind says (a dense table has a slot for each number below its length, a sparse one maps
numbers to numbers). `PositionsAgree` alone is not inductive: it says nothing of the form
of the table, on which finding a record again after a promotion or a swap depends.

`UpdateProofs` proves, for any releases, any list of distinct files and any number of
retries and faults, from `UpdateAssumption` (versions and manifests are sequences, and a
downloaded file is not mistaken for the marks of an old or a torn one):

* `OnlyVerifiedInstalled`: installed bytes that are neither old nor torn have the digest
  that the manifest lists with the portable archive, and a newer version. `Lists` and
  `Newer` say this without the parser and the comparison that the code uses: lemmas show
  that the extractor finds exactly such a digest, and that comparing part by part finds
  the first difference;
* `InstallationCorrect`: a copy reported as done is complete, and one broken off mixes
  versions at one place only.

The inductive invariant has two halves: `WindowInv` says at which steps of the window
the download, and later the staged file, is known to be verified, and that the release
in hand stays the one that was compared; `FilesInv` says which files the helper has
copied at each of its steps, that only what was staged is copied, and that the file in
hand alone may be torn.

`ScanSessionProofs` proves, for any number of sessions and any capacity of the channel:

* `TypeCorrect`, for every host;
* under `~Overlap` (the host starts a session only after it has heard of the end of the
  last one): `OneSessionWrites`, `RescansCompareWithTheLastScan`,
  `ReloadsFindTheNewCatalog` and `RestartShowsTheModel`.

The hypothesis is that of the runs, and section 3 says why these four do not hold
without it. The inductive invariant `ScanInv` has a part for each session: what its
channel can still bring after the event handled last (`ChannelInv`), what its flags say
at each label of `forward_events` (`WorkerInv`), when its host has been told
(`ToldInv`), when it has published (`PublishedInv`), and which catalog its transaction
holds (`ContentInv`). The parts across sessions say that a session starts only when those
before it have told of their end (`OneAtATime`), that a session which replaces the
catalog holds the gate from its publication to its write, while nobody opens a repository
(`GateInv`), and what the snapshot and the model hold after the last session (`DiskInv`,
`ModelInv`). Failed writes and stragglers are excused by the properties themselves.

`UiSessionProofs` proves, for any number of sessions, overlapping or not:

* `OnlyStraddledSessionsAreLost`: whatever the order of the accesses of starts, cancels
  and callbacks, a session not yet destroyed is held by the window, its thread, a callback
  or a detached thread, unless its handle was stored amid a terminal callback.
  `OnlyStraddledAreLost` alone is not inductive, since three places overwrite `m_session`
  without a common lock; `HandlesAgree` adds, for each place of the window's thread and of
  a callback, that the handle is empty, was copied before, or was stored amid a callback;
* `WindowIsAHost`: each step of the window is a step of `ScanSession` or changes nothing
  there. Every theorem about `ScanSession` so holds of the window, those under `~Overlap`
  as long as it waits for the end of a scan before it starts the next, up to the use of a
  destroyed handle, where the model ends.

`FallbackWalkProofs` proves, for any tree and rules, any number of workers greater than
one, and any sizes of batches, channel and thresholds, from `WalkAssumption`:

* `WalkTypeCorrect`: the type invariant, with the bound of the channel;
* `QueueCountsExactly`: while the workers run, the count is the queued tasks and those
  in hand. Each step of `process_fallback_directory` and of the walk alone is first
  shown to keep its thread where it is, to leave the queue alone and to deliver reports
  only (`ProcessStep`, `WalkStep`), so that the count concerns `Take` and `Complete`
  alone;
* `NobodyParkedForever`: whoever parks has found the queue empty and the count not zero,
  so by the exact count another worker is at a task, and the one that completes the last
  of them wakes the rest;
* `NothingFollowsTheEnd`: before the scan thread is done no end is on its way (`Quiet`);
  when it sends the end, alone or after the join, no worker holds a batch, and the end
  forces out what the scan thread holds. `EndIsLast` alone is not inductive, since it
  says nothing about batches while there is no end.

The inductive invariant `WalkInv` adds to these where the threads are: workers are
started in order and only while the scan thread waits for them (`Phases`); a thread that
has ended holds nothing, and one about to emit a file has one (`Held`).

It also proves `EachPathOnce` in the same generality: no path and no end is
reported twice, wherever its event is (in a batch, in the channel, with the consumer),
whoever walks what part of the tree and whatever the links lead to. `ReportedOnce` alone
is not inductive: it says nothing about what is still to be reported. The inductive
invariant `OnceInv` gives each thread and each queued task a territory, the paths that it
may still report: the entries left of a directory in hand with all that lies below, the
file or the directory it is about to emit, the directories it found and has not yet
queued, and, for the walk alone, the same for every caller up the stack. `Territories`
says that no two of them overlap, and that nothing already reported lies in one;
`InHand` and `Calls` say where a file or a subdirectory in hand comes from, `NothingYet`
that nothing is reported before the walk begins. Each step then splits a territory,
hands it over whole, or moves one path from a territory to the reports
(`PathsOnce`).

`FallbackCompleteProofs` proves `CompletedMeansComplete`, again in the same generality:
when the consumer hears *Completed*, it has heard of every entry of every directory to be
entered that could be read, or of an issue there, and of nothing else; the summary
counts what it heard; and of the names of one file exactly one is charged. The property
speaks of received events only, and of the moment of the end; the invariant
`CompleteInv` speaks of every moment, and of whatever was sent (`Sent`: received, in the
channel or in a pipeline):

* `WalkSound`: every task queued, in hand or up the stack is a directory to be entered,
  with the chain of canonical ancestors that `evaluate_reparse_descent` compares with;
  what a thread holds are entries of its directory; so only entries of directories to be
  entered are sent;
* `RestInv`: a thread that leaves a directory has nothing left of it and no total
  unpublished, and when the walk is over the stack and the calls are empty. That the
  stack is empty when the workers end rests on the exact count of `QueueCountsExactly`;
* `Covered`: each entry of each directory sent is itself sent, has an issue, or is still
  somebody's to do. It holds while the scan may still complete (`Whole`): a cancelled
  worker drops what it has, and then the scan ends with *Cancelled*;
* `Records`: the published totals are the numbers of directories, files and charged files
  sent, less what threads have counted and not published, for which the proof needs that
  an event is sent once (`OnceInv`); an issue that `issue_keys` suppresses was sent
  before; and an identity is in `claimed` exactly when one file of it is charged or about
  to be.

At the end nobody holds anything (`EndIsHeardWhole`), so what was sent is what was
received, its numbers are the lengths the property counts (`HeardOnce`), and the parts give
the property (`HeardIsComplete`). A consumer that goes away keeps what it has heard, so
that the property outlives the channel (`StillComplete`). All properties that the run `walk`
checks, but the two under fairness, are thereby proved.

Only model-checked: the `Mft` modules and the catalog beyond its record containers,
whose properties compare with recursive definitions (modules that declare a `RECURSIVE`
operator, or reach one, hold no theorem, and what a recursive definition computes for
every input is out of the prover's reach); and all liveness, which is out of its reach
with `ENABLED`.

## 5. Not modelled

* The contents of records, wording of events, timing, memory budgets and logging.
* Power loss below the level of system calls (there is no `sync` before the rename of a
  snapshot, `store.rs:676`; reports do sync, and that is modelled).
* Two processes on one snapshot (the gate is a lock within one process,
  `bridge.rs:1205`).
* Panics in a scan thread other than the parser's at a corrupt record; the event
  `Failed`, which the scanner never sends.
* What happens after a handle is used twice, and torn or reordered accesses to `m_session`.
* The bit windows in which a shard of the allocation tracker keeps identities, and the
  pool of returned batch buffers: representation of a set and of fresh buffers.
* Of reports: regular expressions and the escapes of JSON (external), the `\\?\` prefix,
  detail columns other than attributes and owner with the checks an import makes of them,
  the export of extension totals, and
  the JSON listing of WinDirStat.
* The warning for a file whose identity cannot be read in a multi-root scan
  (`bridge.rs:2916`); such a name is charged as if it were the only one.
* The live event forwarder: it decides what the window draws during a scan and passes
  the terminal event on, which is all that `ScanSession` uses of it.
* The window's background work and directory watcher, planned below.
* Reports about single files (permissions, hashes, links), data definitions, views,
  application start, tests and installer: see `PROJECT.json`.

## 6. Plan

Done: the store with its refinement and proofs; both walkers with delivery, links and
charging; sessions and the window; the incremental merge with its proofs; the reader of
the master file table; the catalog from the record containers to reports and imports;
the update.

Proved since: the record containers with their refinement, the update, sessions that
follow one another, the window as their host, the walk's queue, wake-ups, end, reports
and completeness, and the incremental merge over any run of rescans.

Next, proofs: `ReportWhole` of `CatalogService`, once the jobs have a module without
recursion.

Next, modules: `UiEventForwarder` (caps, directory batches and throttling before the
terminal event, composed with `Forward` of `ScanSession`); `BackgroundWork` and
`DirectoryWatcher`; `ScanSession` over two `SnapshotStore`s, for two processes; the bit
windows of the allocation tracker as a refinement of the set `claimed`.
