------------------------------ MODULE MftStream ------------------------------
(***************************************************************************)
(* From parsed records to catalog events (ntfs.rs): NtfsStreamState, which *)
(* emits files as they come and directories once their parent is known,    *)
(* and parse_entries, which works on the whole table at once.  A path is   *)
(* the sequence of the names below the scan root.                          *)
(***************************************************************************)
EXTENDS MftVolume

Larger(a, b) == IF a < b THEN b ELSE a
Without(f, x) == [y \in DOMAIN f \ {x} |-> f[y]]
RootPath == <<>>

DirFound(id, parent, path) == [kind |-> "dir", id |-> id, parent |-> parent, path |-> path]
FileFound(e) == [kind |-> "file", id |-> e.id, parent |-> e.parent, name |-> e.name,
                 size |-> e.size, alloc |-> e.alloc]

(* emit_root on a new state: the root is known before any record is. *)
NtfsStreamState ==
  [resolved |-> RootRecord :> RootPath, orphans |-> <<>>, retained |-> <<>>,
   pending |-> <<>>, events |-> <<DirFound(RootRecord, 0, RootPath)>>,
   files |-> 0, directories |-> 1, size |-> 0, alloc |-> 0]

normalized_parent(e) == IF e.parent = e.id THEN RootRecord ELSE e.parent

(* Emits the directories of the worklist, last first, and then whatever    *)
(* waited for one of them.                                                 *)
RECURSIVE drain_cascade(_, _)
drain_cascade(st, cascade) ==
  IF cascade = <<>> THEN st
  ELSE LET e == Last(cascade)
           parent == normalized_parent(e)
           path == Append(IF parent \in DOMAIN st.resolved THEN st.resolved[parent]
                                                           ELSE RootPath, e.name)
           waiting == IF e.id \in DOMAIN st.orphans THEN st.orphans[e.id] ELSE <<>>
       IN drain_cascade([st EXCEPT !.directories = @ + 1,
                                   !.events = Append(@, DirFound(e.id, e.parent, path)),
                                   !.resolved = (e.id :> path) @@ @,
                                   !.orphans = Without(@, e.id)],
                        Front(cascade) \o waiting)

emit_file(st, e) ==
  [st EXCEPT !.files = @ + 1, !.size = @ + e.size, !.alloc = @ + e.alloc,
             !.events = Append(@, FileFound(e)),
             !.retained = IF e.list THEN (e.id :> e) @@ @ ELSE @]

(* Mutant: a directory is emitted as it comes, below the root if need be. *)
IngestAtOnce(st, entry) ==
  IF entry.id = RootRecord /\ entry.dir THEN st
  ELSE IF entry.dir THEN drain_cascade(st, <<entry>>) ELSE emit_file(st, entry)

ingest_entry(st, entry) ==
  LET known == entry.id \in DOMAIN st.pending
      e == IF known THEN [entry EXCEPT !.size = Larger(@, st.pending[entry.id].size),
                                       !.alloc = Larger(@, st.pending[entry.id].alloc)]
                    ELSE entry
      s == IF known THEN [st EXCEPT !.pending = Without(@, entry.id)] ELSE st
      parent == normalized_parent(e)
  IN CASE ~e.dir -> emit_file(s, e)
       [] e.dir /\ e.id = RootRecord -> s
       [] e.dir /\ e.id # RootRecord /\ parent \in DOMAIN s.resolved -> drain_cascade(s, <<e>>)
       [] OTHER -> [s EXCEPT !.orphans =
                      IF parent \in DOMAIN @ THEN [@ EXCEPT ![parent] = Append(@, e)]
                                             ELSE (parent :> <<e>>) @@ @]

(* Mutant: the totals are not corrected when a file is emitted again. *)
TotalsNotCorrected(st, x) ==
  CASE x.base \in DOMAIN st.retained ->
         LET e == st.retained[x.base]
             new == [e EXCEPT !.size = Larger(@, x.size), !.alloc = Larger(@, x.alloc)]
         IN IF new = e THEN st
            ELSE [st EXCEPT !.retained[x.base] = new, !.events = Append(@, FileFound(new))]
    [] x.base \in DOMAIN st.resolved -> st
    [] OTHER -> [st EXCEPT !.pending = (x.base :> [size |-> x.size, alloc |-> x.alloc]) @@ @]

ingest_extension(st, x) ==
  CASE x.base \in DOMAIN st.retained ->
         LET e == st.retained[x.base]
             new == [e EXCEPT !.size = Larger(@, x.size), !.alloc = Larger(@, x.alloc)]
         IN IF new = e THEN st
            ELSE [st EXCEPT !.size = @ + (new.size - e.size),
                            !.alloc = @ + (new.alloc - e.alloc),
                            !.retained[x.base] = new,
                            !.events = Append(@, FileFound(new))]
    [] x.base \notin DOMAIN st.retained /\ x.base \in DOMAIN st.resolved -> st
    [] OTHER ->
         LET old == IF x.base \in DOMAIN st.pending THEN st.pending[x.base] ELSE x
         IN [st EXCEPT !.pending = (x.base :> [size |-> Larger(old.size, x.size),
                                               alloc |-> Larger(old.alloc, x.alloc)]) @@ @]

(* The directories whose parent never came: buckets that no waiting        *)
(* directory will open go first, a pure cycle is broken at its least key.  *)
RECURSIVE finish(_)
finish(st) ==
  IF DOMAIN st.orphans = {} THEN st
  ELSE LET waiting == {e.id : e \in UNION {ToSet(st.orphans[k]) : k \in DOMAIN st.orphans}}
           free == DOMAIN st.orphans \ waiting
           stuck == IF free = {} THEN {Min(DOMAIN st.orphans)} ELSE free
           open(s, k) == IF k \notin DOMAIN s.orphans THEN s
                         ELSE drain_cascade([s EXCEPT !.orphans = Without(@, k)], s.orphans[k])
       IN finish(FoldLeft(open, st, SetToSortSeq(stuck, <)))

-----------------------------------------------------------------------------
(* The whole table at once. *)

EntryMap(entries) == FoldLeft(LAMBDA f, e : (e.id :> e) @@ f, <<>>, entries)

apply_extension_sizes(entries, extensions) ==
  LET step(f, x) == IF x.base \notin DOMAIN f THEN f
                    ELSE [f EXCEPT ![x.base].size = Larger(@, x.size),
                                   ![x.base].alloc = Larger(@, x.alloc)]
  IN FoldLeft(step, entries, extensions)

RECURSIVE resolve_entry_path(_, _, _, _)
resolve_entry_path(id, entries, resolved, stack) ==
  LET AtRoot == [path |-> RootPath, resolved |-> resolved]
      parent == entries[id].parent
  IN CASE id \in DOMAIN resolved -> [path |-> resolved[id], resolved |-> resolved]
       [] id \notin DOMAIN resolved /\ (id \in stack \/ id \notin DOMAIN entries) -> AtRoot
       [] OTHER ->
            IF parent = id
            THEN [path |-> RootPath, resolved |-> (id :> RootPath) @@ resolved]
            ELSE IF parent \notin DOMAIN entries \cup {RootRecord} THEN AtRoot
            ELSE LET p == resolve_entry_path(parent, entries, resolved, stack \cup {id})
                     path == Append(p.path, entries[id].name)
                 IN [path |-> path, resolved |-> (id :> path) @@ p.resolved]

(* aggregate_directory_records climbs from every entry to the root; it     *)
(* never arrives there when the parents form a cycle.                      *)
Endless(entries) ==
  LET dirs == {id \in DOMAIN entries : entries[id].dir /\ id # RootRecord}
      climb[n \in Nat, S \in SUBSET dirs] ==
        IF n = 0 THEN S ELSE climb[n - 1, {d \in dirs : \E s \in S : d = entries[s].parent}]
  IN climb[Cardinality(dirs), dirs] # {}

parse_entries(parsed) ==
  LET root == [kind |-> "entry", id |-> RootRecord, parent |-> 0, name |-> <<>>, dir |-> TRUE,
               list |-> FALSE, size |-> 0, alloc |-> 0]
      entries == apply_extension_sizes(EntryMap(parsed.entries), parsed.extensions)
                   @@ (RootRecord :> root)
      files == {id \in DOMAIN entries : ~entries[id].dir}
      emit(acc, id) ==
        LET r == resolve_entry_path(id, entries, acc.resolved, {}) IN
        IF entries[id].dir
        THEN [resolved |-> r.resolved,
              events |-> Append(acc.events,
                           DirFound(id, IF id = RootRecord THEN 0 ELSE entries[id].parent, r.path))]
        ELSE [acc EXCEPT !.events = Append(@, FileFound(entries[id]))]
      all == FoldLeft(emit, [resolved |-> RootRecord :> RootPath, events |-> <<>>],
                      SetToSortSeq(DOMAIN entries, <))
  IN [events |-> all.events, endless |-> Endless(entries),
      files |-> Cardinality(files), directories |-> Cardinality(DOMAIN entries \ files),
      size |-> SumFunctionOnSet([id \in DOMAIN entries |-> entries[id].size], files),
      alloc |-> SumFunctionOnSet([id \in DOMAIN entries |-> entries[id].alloc], files)]

=============================================================================
