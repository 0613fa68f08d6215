----------------------------- MODULE FallbackWalk -----------------------------
(***************************************************************************)
(* The directory walk of WinBlaze.Scanner (controller.rs, pipeline.rs,     *)
(* delivery.rs) that runs when the NTFS master file table cannot be read.  *)
(* With one worker the scan thread walks the tree depth first.  With more  *)
(* it walks a chain of single directories alone; at the first branching it *)
(* becomes one of up to WorkerLimit workers that share a task stack under  *)
(* a mutex and a condition variable.  Every thread batches its events in a *)
(* pipeline of its own and sends full batches over one bounded channel to  *)
(* the consumer, which may go away at any time.                            *)
(*                                                                         *)
(* A path is the sequence of names from the root; a directory without its  *)
(* path stands for its canonical path.  A send that finds the channel full *)
(* blocks the thread before the step that fills the batch.                 *)
(***************************************************************************)
EXTENDS Naturals, Sequences, FiniteSets

CONSTANTS
  Dirs, Root,        (* the directories on disk, and the selected root      *)
  Files,             (* the files on disk                                   *)
  Parent,            (* [(Dirs \ {Root}) \cup Files -> Dirs]                *)
  Links,             (* those of Dirs that are reparse points               *)
  Unresolvable,      (* the target of a link that cannot be canonicalized   *)
  NoIdentity,        (* the identity of a file that has one name only       *)
  Setups,            (* the configurations and disks to start from          *)
  WorkerLimit,       (* the largest directory_walk_worker_count             *)
  BatchSize,         (* ScanPipelineConfig.batch_size                       *)
  Capacity,          (* batches the channel holds (16 in the bridge)        *)
  PendingLimit,      (* files gathered before they are emitted (64)         *)
  PublishAt,         (* files counted before totals are published (512)     *)
  ProgressDelta      (* FALLBACK_PROGRESS_ITEM_DELTA                        *)

Main == 0
Workers == 1..WorkerLimit
Threads == {Main} \cup Workers
Policies == {"SkipAll", "FollowMountPointsAndJunctions", "FollowAll"}

(* What a scan starts from: the workers, the policy and the rules (paths   *)
(* to leave out) it was asked for; on the disk, where the links lead,      *)
(* which files are names of one file, which directories may turn out not   *)
(* to be readable and which entries may fail on their own.                 *)
Setup == [workers : {1, WorkerLimit}, policy : Policies, excluded : SUBSET Seq(Dirs \cup Files),
          target : [Links -> (Dirs \ Links) \cup {Unresolvable}],
          identity : [Files -> Files \cup {NoIdentity}],
          unreadable : SUBSET Dirs, faulty : SUBSET (Dirs \cup Files)]

ASSUME WalkAssumption ==
  /\ Root \in Dirs /\ Dirs \cap Files = {}
  /\ Parent \in [(Dirs \ {Root}) \cup Files -> Dirs]
  /\ Links \subseteq Dirs \ {Root} /\ Setups \subseteq Setup
  /\ Unresolvable \notin Dirs /\ NoIdentity \notin Files
  /\ WorkerLimit \in Nat \ {0, 1}
  /\ BatchSize > 2   (* the opening events fit in one batch *)
  /\ \A n \in {BatchSize, Capacity, PendingLimit, PublishAt, ProgressDelta} :
       n \in Nat \ {0}

VARIABLES
  setup,               (* the member of Setups in force                     *)
  tasks, outstanding,  (* FallbackQueue: a stack of tasks                   *)
  waiting,             (* threads parked on the condition variable          *)
  workers_started,
  directories_seen, files_seen, total_allocation, last_reported,
  claimed,             (* physical_ids: identities that have been charged   *)
  issue_keys,          (* issues already reported                           *)
  cancelled,
  pc,                  (* what each thread does next                        *)
  ret,                 (* where it goes on after a progress report          *)
  dir, todo, fresh,    (* task in hand, entries left, tasks found           *)
  found,               (* the directory entry in hand                       *)
  callers,             (* walk_directory_tree: the calls to return to       *)
  pending, tally,      (* FallbackTotals: files gathered, files and         *)
  physical,            (* bytes unpublished                                 *)
  charge,              (* bytes charged to the file about to be emitted     *)
  items,               (* completed_items as loaded for a progress report   *)
  want,                (* workers wanted for the work seen                  *)
  buffer,              (* per thread: the events of its pipeline            *)
  channel, alive,      (* batches in flight; the receiver exists            *)
  received             (* events the consumer has handled                   *)

queue == <<tasks, outstanding, waiting>>
counted == <<directories_seen, files_seen, total_allocation>>
keys == <<claimed, issue_keys>>
counters == <<counted, last_reported, keys>>
place == <<dir, todo, fresh, found, callers>>
totals == <<pending, tally, physical, charge>>
loop == <<items, want, ret>>
local == <<place, totals, loop>>
delivery == <<buffer, channel>>
consumer == <<setup, alive, received>>
vars == <<queue, workers_started, counters, cancelled, pc, local, delivery, consumer>>

-----------------------------------------------------------------------------
(* Paths and reparse points *)

Last(seq) == seq[Len(seq)]
Front(seq) == SubSeq(seq, 1, Len(seq) - 1)

(* The directory that the file system finds under a path. *)
Real(path) == IF Last(path) \in Links THEN setup.target[Last(path)] ELSE Last(path)
Entries(path) == {e \in DOMAIN Parent : Parent[e] = Real(path)}

(* AncestorChain: the canonical directories above; it is kept only under a *)
(* policy that follows reparse points, and is empty otherwise.             *)
RootTask == [path |-> <<Root>>,
             ancestors |-> IF setup.policy = "SkipAll" THEN <<>> ELSE <<Root>>]
contains(ancestors, resolved) == \E i \in 1..Len(ancestors) : ancestors[i] = resolved

(* Whatever is a directory is a junction or a mount point, never a symlink. *)
should_descend_into_reparse_target ==
  \/ setup.policy = "FollowAll"
  \/ setup.policy = "FollowMountPointsAndJunctions" (* and the kind is no symlink *)

(* Whether a directory that was found is also entered. *)
evaluate_reparse_descent(task, d) ==
  IF d \notin Links THEN "Follow"
  ELSE IF ~should_descend_into_reparse_target THEN "SkippedByPolicy"
  ELSE IF setup.target[d] = Unresolvable THEN "SkippedUnresolvable"
  ELSE IF contains(task.ancestors, setup.target[d]) THEN "SkippedCycle"
  ELSE "Follow"

(* The task of a directory that is followed: a plain one extends the chain *)
(* by its name, a reparse point by what it resolves to.                    *)
Child(task, d) ==
  LET path == Append(task.path, d) IN
  [path |-> path,
   ancestors |-> IF task.ancestors = <<>> THEN <<>> ELSE Append(task.ancestors, Real(path))]

-----------------------------------------------------------------------------
(* ScanEventPipeline *)

Forces(event) == event[1] \in {"progress", "summary", "completed", "cancelled"}

(* Mutant of Send: the channel is not bounded. *)
SendUnbounded(batch) ==
  IF alive THEN channel' = Append(channel, batch) ELSE UNCHANGED channel

(* Mutant of Send: a batch that finds the channel full is dropped. *)
SendLossy(batch) ==
  IF alive /\ Len(channel) < Capacity
  THEN channel' = Append(channel, batch)
  ELSE UNCHANGED channel

(* EventBatchSender::send blocks while the channel is full; when the       *)
(* receiver is gone the batch is dropped and the producer goes on.         *)
Send(batch) ==
  IF alive
  THEN Len(channel) < Capacity /\ channel' = Append(channel, batch)
  ELSE UNCHANGED channel

(* enqueue: progress, summary and terminal events flush at once, others    *)
(* when the batch is full.                                                 *)
Emit(t, event) ==
  LET batch == Append(buffer[t], event) IN
  IF Forces(event) \/ Len(batch) >= BatchSize
  THEN Send(batch) /\ buffer' = [buffer EXCEPT ![t] = <<>>]
  ELSE buffer' = [buffer EXCEPT ![t] = batch] /\ UNCHANGED channel

Flush(t) ==
  IF buffer[t] = <<>>
  THEN UNCHANGED delivery
  ELSE Send(buffer[t]) /\ buffer' = [buffer EXCEPT ![t] = <<>>]

(* ScanEventReceiver::for_each_event_until: one batch at a time, in order; *)
(* at the deadline the receiver is dropped with whatever it still holds.   *)
Receive ==
  /\ alive /\ channel # <<>>
  /\ received' = received \o Head(channel)
  /\ channel' = Tail(channel)
  /\ UNCHANGED <<queue, workers_started, counters, cancelled, pc, local, buffer, setup, alive>>

DropReceiver ==
  /\ alive
  /\ alive' = FALSE /\ channel' = <<>>
  /\ UNCHANGED <<queue, workers_started, counters, cancelled, pc, local, buffer, setup, received>>

(* ScanHandle::cancel *)
Cancel ==
  /\ ~cancelled /\ cancelled' = TRUE
  /\ UNCHANGED <<queue, workers_started, counters, pc, local, delivery, consumer>>

-----------------------------------------------------------------------------
Goto(t, label) == pc' = [pc EXCEPT ![t] = label]

(* run_fallback_scan: the session and the root are announced and flushed   *)
(* by a first progress event, and the root is all there is to walk.        *)
StartScan ==
  /\ pc[Main] = "start"
  /\ IF alive
     THEN channel' = Append(channel, <<<<"started">>, <<"dir", <<Root>>>>, <<"progress", 1>>>>)
     ELSE UNCHANGED channel
  /\ directories_seen' = 1
  /\ IF setup.workers > 1
     THEN /\ tasks' = <<RootTask>> /\ outstanding' = 1
          /\ Goto(Main, "chain") /\ UNCHANGED dir
     ELSE /\ dir' = [dir EXCEPT ![Main] = RootTask]
          /\ Goto(Main, "walk") /\ UNCHANGED <<tasks, outstanding>>
  /\ UNCHANGED <<waiting, workers_started, files_seen, total_allocation, last_reported, keys,
                 cancelled, todo, fresh, found, callers, totals, loop, buffer, consumer>>

(* validate_directory_walk_root fails: an issue, an empty summary, the end. *)
StartInvalid ==
  /\ pc[Main] = "start"
  /\ IF alive
     THEN channel' = Append(channel, <<<<"started">>, <<"issue", "root", <<Root>>>>,
                                       <<"summary", 0, 0, 0>>>>)
     ELSE UNCHANGED channel
  /\ Goto(Main, "completed")
  /\ UNCHANGED <<queue, workers_started, counters, cancelled, local, buffer, consumer>>

(* run_fallback_scan_parallel: while there is exactly one task, the scan   *)
(* thread takes it itself; no lock is needed yet.                          *)
Open(t, task) ==
  /\ dir' = [dir EXCEPT ![t] = task]
  /\ fresh' = [fresh EXCEPT ![t] = <<>>]
  /\ todo' = [todo EXCEPT ![t] = {}]
  /\ Goto(t, IF cancelled THEN "complete" ELSE "open")

ChainTake ==
  /\ pc[Main] = "chain" /\ Len(tasks) = 1
  /\ Open(Main, tasks[1])
  /\ tasks' = <<>>
  /\ UNCHANGED <<outstanding, waiting, workers_started, counters, cancelled,
                 found, callers, totals, loop, delivery, consumer>>

ChainComplete ==
  /\ pc[Main] = "complete"
  /\ tasks' = tasks \o fresh[Main]
  /\ outstanding' = Len(tasks')
  /\ Goto(Main, "chain")
  /\ UNCHANGED <<waiting, workers_started, counters, cancelled, local, delivery, consumer>>

(* At a branching the scan thread flushes what it found, then runs the     *)
(* first worker and, inside the thread scope, waits for all of them.       *)
Branch ==
  /\ pc[Main] = "chain" /\ Len(tasks) > 1
  /\ Flush(Main)
  /\ workers_started' = 1
  /\ pc' = [pc EXCEPT ![Main] = "join", ![1] = "look"]
  /\ UNCHANGED <<queue, counters, cancelled, local, consumer>>

-----------------------------------------------------------------------------
(* run_fallback_worker: under the lock, see how much work there is ... *)
Look(t) ==
  /\ t \in Workers /\ pc[t] = "look"
  /\ want' = [want EXCEPT ![t] =
       IF outstanding < WorkerLimit
       THEN IF outstanding = 0 THEN 1 ELSE outstanding
       ELSE WorkerLimit]
  /\ Goto(t, "spawn")
  /\ UNCHANGED <<queue, workers_started, counters, cancelled, place, totals,
                 items, ret, delivery, consumer>>

(* ... and, lock released, start a worker for it (compare_exchange) ... *)
Spawn(t) ==
  /\ pc[t] = "spawn" /\ workers_started < want[t]
  /\ workers_started' = workers_started + 1
  /\ Goto(workers_started + 1, "look")
  /\ UNCHANGED <<queue, counters, cancelled, local, delivery, consumer>>

Spawned(t) ==
  /\ pc[t] = "spawn" /\ workers_started >= want[t]
  /\ Goto(t, "take")
  /\ UNCHANGED <<queue, workers_started, counters, cancelled, local, delivery, consumer>>

(* Mutant of Take: the task is left on the stack. *)
TakePeeking(t) ==
  /\ pc[t] = "take" /\ t \notin waiting
  /\ tasks # <<>>
  /\ Open(t, Last(tasks))
  /\ UNCHANGED <<queue, workers_started, counters, cancelled,
                 found, callers, totals, loop, delivery, consumer>>

(* ... then pop the newest task ... *)
Take(t) ==
  /\ pc[t] = "take" /\ t \notin waiting
  /\ tasks # <<>>
  /\ Open(t, Last(tasks))
  /\ tasks' = Front(tasks)
  /\ UNCHANGED <<outstanding, waiting, workers_started, counters, cancelled,
                 found, callers, totals, loop, delivery, consumer>>

(* ... or wait for one ... *)
Wait(t) ==
  /\ pc[t] = "take" /\ t \notin waiting
  /\ tasks = <<>> /\ outstanding # 0
  /\ waiting' = waiting \cup {t}
  /\ UNCHANGED <<tasks, outstanding, workers_started, counters, cancelled, pc,
                 local, delivery, consumer>>

(* (a condition variable may also wake a thread for no reason) *)
SpuriousWake(t) ==
  /\ t \in waiting
  /\ waiting' = waiting \ {t}
  /\ UNCHANGED <<tasks, outstanding, workers_started, counters, cancelled, pc,
                 local, delivery, consumer>>

(* ... or, when nothing is queued or in flight, flush and end. *)
Leave(t) ==
  /\ pc[t] = "take" /\ t \notin waiting
  /\ tasks = <<>> /\ outstanding = 0
  /\ Flush(t)
  /\ Goto(t, "done")
  /\ UNCHANGED <<queue, workers_started, counters, cancelled, local, consumer>>

(* Mutants of Complete: the children are not counted in; new work, or the  *)
(* end, wakes nobody.                                                      *)
CompleteUncounted(t) ==
  /\ t \in Workers /\ pc[t] = "complete"
  /\ outstanding' = outstanding - 1
  /\ tasks' = tasks \o fresh[t]
  /\ waiting' = IF outstanding' = 0 \/ fresh[t] # <<>> THEN {} ELSE waiting
  /\ Goto(t, "look")
  /\ UNCHANGED <<workers_started, counters, cancelled, local, delivery, consumer>>

CompleteWakingAtEnd(t) ==
  /\ t \in Workers /\ pc[t] = "complete"
  /\ outstanding' = outstanding + Len(fresh[t]) - 1
  /\ tasks' = tasks \o fresh[t]
  /\ waiting' = IF outstanding' = 0 THEN {} ELSE waiting
  /\ Goto(t, "look")
  /\ UNCHANGED <<workers_started, counters, cancelled, local, delivery, consumer>>

CompleteWakingForWork(t) ==
  /\ t \in Workers /\ pc[t] = "complete"
  /\ outstanding' = outstanding + Len(fresh[t]) - 1
  /\ tasks' = tasks \o fresh[t]
  /\ waiting' = IF fresh[t] # <<>> THEN {} ELSE waiting
  /\ Goto(t, "look")
  /\ UNCHANGED <<workers_started, counters, cancelled, local, delivery, consumer>>

(* A processed task: its children are queued before it is counted out, and *)
(* waiters are woken for new work or for the end.                          *)
Complete(t) ==
  /\ t \in Workers /\ pc[t] = "complete"
  /\ outstanding' = outstanding + Len(fresh[t]) - 1
  /\ tasks' = tasks \o fresh[t]
  /\ waiting' = IF outstanding' = 0 \/ fresh[t] # <<>> THEN {} ELSE waiting
  /\ Goto(t, "look")
  /\ UNCHANGED <<workers_started, counters, cancelled, local, delivery, consumer>>

-----------------------------------------------------------------------------
(* process_fallback_directory, one directory entry at a time *)

(* emit_deduplicated_issue_shared: an issue is reported once. *)
EmitIssue(t, kind, path) ==
  /\ issue_keys' = issue_keys \cup {<<kind, path>>}
  /\ IF <<kind, path>> \in issue_keys
     THEN UNCHANGED delivery
     ELSE Emit(t, <<"issue", kind, path>>)

(* read_dir fails: one issue, no children, nothing published. *)
ReadFails(t) ==
  /\ pc[t] = "open" /\ Real(dir[t].path) \in setup.unreadable
  /\ EmitIssue(t, "directory", dir[t].path)
  /\ Goto(t, "complete")
  /\ UNCHANGED <<queue, workers_started, counted, last_reported, claimed,
                 cancelled, local, consumer>>

ReadDir(t) ==
  /\ pc[t] = "open"
  /\ todo' = [todo EXCEPT ![t] = Entries(dir[t].path)]
  /\ Goto(t, "entries")
  /\ UNCHANGED <<queue, workers_started, counters, cancelled, dir, fresh, found, callers,
                 totals, loop, delivery, consumer>>

(* The loop ends after the last entry, or at the first one that finds the  *)
(* scan cancelled; files already gathered are still emitted.               *)
LeaveLoop(t) ==
  /\ pc[t] = "entries" /\ (todo[t] = {} \/ cancelled)
  /\ todo' = [todo EXCEPT ![t] = {}]
  /\ Goto(t, "end")
  /\ UNCHANGED <<queue, workers_started, counters, cancelled, dir, fresh, found, callers,
                 totals, loop, delivery, consumer>>

Entry(t, e) == pc[t] = "entries" /\ ~cancelled /\ e \in todo[t]
Allowed(t, e) == Append(dir[t].path, e) \notin setup.excluded

(* An entry that cannot be read is an issue, of its own path if that is    *)
(* known and of the directory otherwise; the loop goes on.                 *)
EntryFails(t, e) ==
  /\ Entry(t, e) /\ e \in setup.faulty
  /\ todo' = [todo EXCEPT ![t] = @ \ {e}]
  /\ \E path \in {Append(dir[t].path, e), dir[t].path} : EmitIssue(t, "entry", path)
  /\ UNCHANGED <<queue, workers_started, counted, last_reported, claimed, cancelled, pc,
                 dir, fresh, found, callers, totals, loop, consumer>>

(* An entry that the rules do not allow is passed over. *)
Exclude(t, e) ==
  /\ Entry(t, e) /\ ~Allowed(t, e)
  /\ todo' = [todo EXCEPT ![t] = @ \ {e}]
  /\ UNCHANGED <<queue, workers_started, counters, cancelled, pc, dir, fresh, found,
                 callers, totals, loop, delivery, consumer>>

(* A file is gathered; a full set of files is emitted. *)
FileEntry(t, f) ==
  /\ Entry(t, f) /\ f \in Files /\ Allowed(t, f)
  /\ todo' = [todo EXCEPT ![t] = @ \ {f}]
  /\ pending' = [pending EXCEPT ![t] = Append(@, f)]
  /\ Goto(t, IF Len(pending'[t]) = PendingLimit THEN "files" ELSE "entries")
  /\ UNCHANGED <<queue, workers_started, counters, cancelled, dir, fresh, found, callers,
                 tally, physical, charge, loop, delivery, consumer>>

(* At a directory the files gathered before it are emitted first. *)
FindDir(t, d) ==
  /\ Entry(t, d) /\ d \in Dirs /\ Allowed(t, d)
  /\ todo' = [todo EXCEPT ![t] = @ \ {d}]
  /\ found' = [found EXCEPT ![t] = d]
  /\ Goto(t, "found")
  /\ UNCHANGED <<queue, workers_started, counters, cancelled, dir, fresh, callers, totals,
                 loop, delivery, consumer>>

(* It is counted, emitted and, if it is followed, becomes a task. *)
DirEntry(t) ==
  /\ pc[t] = "found" /\ pending[t] = <<>>
  /\ directories_seen' = directories_seen + 1
  /\ Emit(t, <<"dir", Append(dir[t].path, found[t])>>)
  /\ \E decision \in {evaluate_reparse_descent(dir[t], found[t])} :
       /\ fresh' = [fresh EXCEPT ![t] =
            IF decision = "Follow" THEN Append(@, Child(dir[t], found[t])) ELSE @]
       /\ found' = [found EXCEPT ![t] = IF decision = "SkippedCycle" THEN @ ELSE Root]
       /\ Goto(t, IF decision = "SkippedCycle" THEN "cycle" ELSE "entries")
  /\ UNCHANGED <<queue, workers_started, files_seen, total_allocation, last_reported, keys,
                 cancelled, dir, todo, callers, totals, loop, consumer>>

(* A directory skipped because it leads back to an ancestor is an issue. *)
CycleIssue(t) ==
  /\ pc[t] = "cycle"
  /\ EmitIssue(t, "cycle", Append(dir[t].path, found[t]))
  /\ found' = [found EXCEPT ![t] = Root]
  /\ Goto(t, "entries")
  /\ UNCHANGED <<queue, workers_started, counted, last_reported, claimed, cancelled,
                 dir, todo, fresh, callers, totals, loop, consumer>>

(* AllocationTracker::claim, under the lock of the identity's shard: the   *)
(* first name of a file is charged its allocation (one unit), the others   *)
(* nothing; a file with one name has no identity to claim.                 *)
ChargeOf(f) == IF setup.identity[f] \in claimed THEN 0 ELSE 1
Claim(f) == claimed' = claimed \cup ({setup.identity[f]} \ {NoIdentity})

(* flush_file_records_shared: one gathered file after the other ... *)
ClaimFile(t) ==
  /\ pc[t] \in {"files", "found", "end"} /\ pending[t] # <<>>
  /\ charge' = [charge EXCEPT ![t] = ChargeOf(Head(pending[t]))]
  /\ Claim(Head(pending[t]))
  /\ ret' = [ret EXCEPT ![t] = pc[t]]
  /\ Goto(t, "emit")
  /\ UNCHANGED <<queue, workers_started, counted, last_reported, issue_keys, cancelled,
                 place, pending, tally, physical, items, want, delivery, consumer>>

(* ... emit_file_record_shared: count and emit; every PublishAt files the  *)
(* totals are published and progress considered.                           *)
EmitFile(t) ==
  /\ pc[t] = "emit"
  /\ Emit(t, <<"file", Append(dir[t].path, Head(pending[t])), charge[t]>>)
  /\ pending' = [pending EXCEPT ![t] = Tail(@)]
  /\ charge' = [charge EXCEPT ![t] = 0]
  /\ IF tally[t] + 1 >= PublishAt
     THEN /\ files_seen' = files_seen + tally[t] + 1
          /\ total_allocation' = total_allocation + physical[t] + charge[t]
          /\ tally' = [tally EXCEPT ![t] = 0]
          /\ physical' = [physical EXCEPT ![t] = 0]
          /\ Goto(t, "progress")
     ELSE /\ tally' = [tally EXCEPT ![t] = @ + 1]
          /\ physical' = [physical EXCEPT ![t] = @ + charge[t]]
          /\ Goto(t, ret[t])
          /\ UNCHANGED <<files_seen, total_allocation>>
  /\ UNCHANGED <<queue, workers_started, directories_seen, last_reported, keys,
                 cancelled, place, loop, consumer>>

FilesEmitted(t) ==
  /\ pc[t] = "files" /\ pending[t] = <<>>
  /\ Goto(t, "entries")
  /\ UNCHANGED <<queue, workers_started, counters, cancelled, local, delivery, consumer>>

(* Mutant of EndDirectory: the last files are counted but not published. *)
EndDirectoryUnpublished(t) ==
  /\ pc[t] = "end" /\ pending[t] = <<>>
  /\ ret' = [ret EXCEPT ![t] = "complete"]
  /\ Goto(t, "progress")
  /\ UNCHANGED <<queue, workers_started, counters, cancelled, place, totals, items, want,
                 delivery, consumer>>

(* After the last entry the rest of the totals is published. *)
EndDirectory(t) ==
  /\ pc[t] = "end" /\ pending[t] = <<>>
  /\ files_seen' = files_seen + tally[t]
  /\ total_allocation' = total_allocation + physical[t]
  /\ tally' = [tally EXCEPT ![t] = 0]
  /\ physical' = [physical EXCEPT ![t] = 0]
  /\ ret' = [ret EXCEPT ![t] = "complete"]
  /\ Goto(t, "progress")
  /\ UNCHANGED <<queue, workers_started, directories_seen, last_reported, keys, cancelled,
                 place, pending, charge, items, want, delivery, consumer>>

(* maybe_emit_progress_shared: the counters are loaded first ... *)
LoadItems(t) ==
  /\ pc[t] = "progress"
  /\ items' = [items EXCEPT ![t] = files_seen + directories_seen]
  /\ Goto(t, "advance")
  /\ UNCHANGED <<queue, workers_started, counters, cancelled, place, totals, want, ret,
                 delivery, consumer>>

(* ... whoever advances last_progress_reported_items far enough ... *)
Advance(t) ==
  /\ pc[t] = "advance"
  /\ IF items[t] >= last_reported + ProgressDelta
     THEN last_reported' = items[t] /\ Goto(t, "report")
     ELSE UNCHANGED last_reported /\ Goto(t, ret[t])
  /\ UNCHANGED <<queue, workers_started, counted, keys, cancelled, local, delivery, consumer>>

(* ... then reports, perhaps after a later report of another worker. *)
Report(t) ==
  /\ pc[t] = "report"
  /\ Emit(t, <<"progress", items[t]>>)
  /\ Goto(t, ret[t])
  /\ UNCHANGED <<queue, workers_started, counters, cancelled, local, consumer>>

-----------------------------------------------------------------------------
(* walk_directory_tree: the scan thread alone, depth first.  callers holds *)
(* the calls that wait for the one in hand to return.                      *)

(* A call returns to the entries its caller has left, the first one to     *)
(* run_fallback_scan.                                                      *)
Return ==
  IF callers = <<>>
  THEN /\ todo' = [todo EXCEPT ![Main] = {}]
       /\ Goto(Main, "walked") /\ UNCHANGED <<dir, callers>>
  ELSE /\ dir' = [dir EXCEPT ![Main] = Last(callers).task]
       /\ todo' = [todo EXCEPT ![Main] = Last(callers).todo]
       /\ callers' = Front(callers)
       /\ Goto(Main, "walking")

WalkReadFails ==
  /\ pc[Main] = "walk" /\ Real(dir[Main].path) \in setup.unreadable
  /\ EmitIssue(Main, "directory", dir[Main].path)
  /\ Return
  /\ UNCHANGED <<queue, workers_started, counted, last_reported, claimed, cancelled,
                 fresh, found, totals, loop, consumer>>

WalkReadDir ==
  /\ pc[Main] = "walk"
  /\ todo' = [todo EXCEPT ![Main] = Entries(dir[Main].path)]
  /\ Goto(Main, "walking")
  /\ UNCHANGED <<queue, workers_started, counters, cancelled, dir, fresh, found, callers,
                 totals, loop, delivery, consumer>>

WalkReturn ==
  /\ pc[Main] = "walking" /\ (todo[Main] = {} \/ cancelled)
  /\ Return
  /\ UNCHANGED <<queue, workers_started, counters, cancelled, fresh, found, totals, loop,
                 delivery, consumer>>

WalkEntry(e) ==
  /\ pc[Main] = "walking" /\ ~cancelled /\ e \in todo[Main]
  /\ todo' = [todo EXCEPT ![Main] = @ \ {e}]

WalkEntryFails(e) ==
  /\ WalkEntry(e) /\ e \in setup.faulty
  /\ \E path \in {Append(dir[Main].path, e), dir[Main].path} : EmitIssue(Main, "entry", path)
  /\ UNCHANGED <<queue, workers_started, counted, last_reported, claimed, cancelled, pc,
                 dir, fresh, found, callers, totals, loop, consumer>>

WalkExclude(e) ==
  /\ WalkEntry(e) /\ ~Allowed(Main, e)
  /\ UNCHANGED <<queue, workers_started, counters, cancelled, pc, dir, fresh, found,
                 callers, totals, loop, delivery, consumer>>

(* emit_directory_record and emit_file_record count and emit at once. *)
WalkDir(d) ==
  /\ WalkEntry(d) /\ d \in Dirs /\ Allowed(Main, d)
  /\ found' = [found EXCEPT ![Main] = d]
  /\ directories_seen' = directories_seen + 1
  /\ Emit(Main, <<"dir", Append(dir[Main].path, d)>>)
  /\ Goto(Main, "counted")
  /\ UNCHANGED <<queue, workers_started, files_seen, total_allocation, last_reported, keys,
                 cancelled, dir, fresh, callers, totals, loop, consumer>>

WalkFile(f) ==
  /\ WalkEntry(f) /\ f \in Files /\ Allowed(Main, f)
  /\ Claim(f)
  /\ files_seen' = files_seen + 1
  /\ total_allocation' = total_allocation + ChargeOf(f)
  /\ Emit(Main, <<"file", Append(dir[Main].path, f), ChargeOf(f)>>)
  /\ Goto(Main, "counted")
  /\ UNCHANGED <<queue, workers_started, directories_seen, last_reported, issue_keys,
                 cancelled, dir, fresh, found, callers, totals, loop, consumer>>

(* DirectoryWalkState::maybe_emit_progress, after each of the two. *)
WalkProgress ==
  /\ pc[Main] = "counted"
  /\ IF files_seen + directories_seen >= last_reported + ProgressDelta
     THEN /\ last_reported' = files_seen + directories_seen
          /\ Emit(Main, <<"progress", files_seen + directories_seen>>)
     ELSE UNCHANGED <<last_reported, delivery>>
  /\ Goto(Main, IF found[Main] = Root THEN "walking" ELSE "descend")
  /\ UNCHANGED <<queue, workers_started, counted, keys, cancelled, local, consumer>>

(* The directory is entered by a call, or not at all. *)
WalkDescend ==
  /\ pc[Main] = "descend"
  /\ evaluate_reparse_descent(dir[Main], found[Main]) = "Follow"
  /\ callers' = Append(callers, [task |-> dir[Main], todo |-> todo[Main]])
  /\ dir' = [dir EXCEPT ![Main] = Child(@, found[Main])]
  /\ todo' = [todo EXCEPT ![Main] = {}]
  /\ found' = [found EXCEPT ![Main] = Root]
  /\ Goto(Main, "walk")
  /\ UNCHANGED <<queue, workers_started, counters, cancelled, fresh, totals, loop,
                 delivery, consumer>>

WalkPassBy ==
  /\ pc[Main] = "descend"
  /\ \E decision \in {evaluate_reparse_descent(dir[Main], found[Main])} :
       /\ decision # "Follow"
       /\ IF decision = "SkippedCycle"
          THEN EmitIssue(Main, "cycle", Append(dir[Main].path, found[Main]))
          ELSE UNCHANGED <<issue_keys, delivery>>
  /\ found' = [found EXCEPT ![Main] = Root]
  /\ Goto(Main, "walking")
  /\ UNCHANGED <<queue, workers_started, counted, last_reported, claimed, cancelled,
                 dir, todo, fresh, callers, totals, loop, consumer>>

-----------------------------------------------------------------------------
(* Mutant of WalkOver: the scan thread goes on once nothing is outstanding, *)
(* without waiting for the workers to end.                                  *)
WalkOverEarly == \/ pc[Main] = "walked"
                 \/ pc[Main] = "chain" /\ tasks = <<>>
                 \/ pc[Main] = "join" /\ outstanding = 0

(* The thread scope ends when every worker has; run_fallback_scan then     *)
(* emits Cancelled, or a last progress, the summary and Completed, each a  *)
(* batch of its own, but for what the scan thread still holds.             *)
WalkOver == \/ pc[Main] = "walked"
            \/ pc[Main] = "chain" /\ tasks = <<>>
            \/ pc[Main] = "join" /\ \A w \in Workers : pc[w] \in {"unborn", "done"}

EndCancelled ==
  /\ WalkOver /\ cancelled
  /\ Emit(Main, <<"cancelled">>)
  /\ Goto(Main, "done")
  /\ UNCHANGED <<queue, workers_started, counters, cancelled, local, consumer>>

EndProgress ==
  /\ WalkOver /\ ~cancelled
  /\ Emit(Main, <<"progress", files_seen + directories_seen>>)
  /\ Goto(Main, "summary")
  /\ UNCHANGED <<queue, workers_started, counters, cancelled, local, consumer>>

EmitSummary ==
  /\ pc[Main] = "summary"
  /\ Emit(Main, <<"summary", files_seen, directories_seen, total_allocation>>)
  /\ Goto(Main, "completed")
  /\ UNCHANGED <<queue, workers_started, counters, cancelled, local, consumer>>

EmitCompleted ==
  /\ pc[Main] = "completed"
  /\ Emit(Main, <<"completed">>)
  /\ Goto(Main, "done")
  /\ UNCHANGED <<queue, workers_started, counters, cancelled, local, consumer>>
-----------------------------------------------------------------------------
Init ==
  /\ setup \in Setups
  /\ tasks = <<>> /\ outstanding = 0 /\ waiting = {}
  /\ workers_started = 0
  /\ directories_seen = 0 /\ files_seen = 0 /\ total_allocation = 0 /\ last_reported = 0
  /\ claimed = {} /\ issue_keys = {} /\ cancelled = FALSE
  /\ pc = [t \in Threads |-> IF t = Main THEN "start" ELSE "unborn"]
  /\ ret = [t \in Threads |-> "complete"]
  /\ dir = [t \in Threads |-> RootTask]
  /\ todo = [t \in Threads |-> {}]
  /\ fresh = [t \in Threads |-> <<>>]
  /\ found = [t \in Threads |-> Root]
  /\ callers = <<>>
  /\ pending = [t \in Threads |-> <<>>]
  /\ tally = [t \in Threads |-> 0]
  /\ physical = [t \in Threads |-> 0]
  /\ charge = [t \in Threads |-> 0]
  /\ items = [t \in Threads |-> 0]
  /\ want = [t \in Threads |-> 0]
  /\ buffer = [t \in Threads |-> <<>>]
  /\ channel = <<>> /\ alive = TRUE /\ received = <<>>

Process(t) ==
  \/ ReadFails(t) \/ ReadDir(t) \/ LeaveLoop(t)
  \/ \E e \in Dirs \cup Files : EntryFails(t, e) \/ Exclude(t, e)
  \/ \E f \in Files : FileEntry(t, f)
  \/ \E d \in Dirs : FindDir(t, d)
  \/ DirEntry(t) \/ CycleIssue(t) \/ ClaimFile(t) \/ EmitFile(t) \/ FilesEmitted(t)
  \/ EndDirectory(t) \/ LoadItems(t) \/ Advance(t) \/ Report(t)

Walk ==
  \/ WalkReadFails \/ WalkReadDir \/ WalkReturn
  \/ \E e \in Dirs \cup Files : WalkEntryFails(e) \/ WalkExclude(e)
  \/ \E d \in Dirs : WalkDir(d)
  \/ \E f \in Files : WalkFile(f)
  \/ WalkProgress \/ WalkDescend \/ WalkPassBy

Scan == \/ StartScan \/ StartInvalid \/ ChainTake \/ ChainComplete \/ Branch
        \/ Walk
        \/ EndCancelled \/ EndProgress \/ EmitSummary \/ EmitCompleted

Worker(t) == \/ Look(t) \/ Spawn(t) \/ Spawned(t) \/ Take(t) \/ Wait(t) \/ Leave(t)
             \/ Complete(t)

(* When the scan thread is done and the channel is drained, all is over. *)
Over == pc[Main] = "done" /\ channel = <<>> /\ UNCHANGED vars

Next == \/ Scan
        \/ \E t \in Threads : Process(t)
        \/ \E t \in Workers : Worker(t) \/ SpuriousWake(t)
        \/ Receive \/ DropReceiver \/ Cancel
        \/ Over

Spec == Init /\ [][Next]_vars

(* The operating system runs every thread that can run; the consumer keeps *)
(* receiving until it gives up.                                            *)
Fairness ==
  /\ WF_vars(Scan)
  /\ \A t \in Threads : WF_vars(Process(t))
  /\ \A t \in Workers : WF_vars(Worker(t))
  /\ WF_vars(Receive)

FairSpec == Spec /\ Fairness

-----------------------------------------------------------------------------
Working == {"open", "entries", "files", "found", "cycle", "emit", "end",
            "progress", "advance", "report", "complete"}

OfKind(seq, kind) == {i \in 1..Len(seq) : seq[i][1] = kind}
Ends(event) == event[1] \in {"completed", "cancelled"}
IsPath(event) == event[1] \in {"dir", "file"}
Ended(seq) == \E i \in 1..Len(seq) : Ends(seq[i])

Task == [path : Seq(Dirs), ancestors : Seq(Dirs)]

(* The type invariant. *)
TypeOK ==
  /\ setup \in Setup
  /\ tasks \in Seq(Task) /\ outstanding \in Nat /\ waiting \subseteq Workers
  /\ workers_started \in 0..WorkerLimit
  /\ directories_seen \in Nat /\ files_seen \in Nat
  /\ total_allocation \in Nat /\ last_reported \in Nat
  /\ cancelled \in BOOLEAN /\ alive \in BOOLEAN
  /\ pc \in [Threads -> Working \cup {"unborn", "start", "chain", "join", "summary",
                     "completed", "look", "spawn", "take", "done",
                     "walk", "walking", "counted", "descend", "walked"}]
  /\ ret \in [Threads -> {"files", "found", "end", "complete"}]
  /\ claimed \subseteq Files
  /\ dir \in [Threads -> Task] /\ found \in [Threads -> Dirs]
  /\ todo \in [Threads -> SUBSET (Dirs \cup Files)]
  /\ callers \in Seq([task : Task, todo : SUBSET (Dirs \cup Files)])
  /\ fresh \in [Threads -> Seq(Task)] /\ pending \in [Threads -> Seq(Files)]
  /\ tally \in [Threads -> Nat] /\ physical \in [Threads -> Nat]
  /\ charge \in [Threads -> Nat] /\ items \in [Threads -> Nat]
  /\ want \in [Threads -> 0..WorkerLimit]
  /\ Len(channel) <= Capacity

(* outstanding counts exactly the tasks queued or in a worker's hands, so  *)
(* it is zero only when the walk is finished ("the walk is finished once   *)
(* it drops to zero with an empty queue").                                 *)
OutstandingIsExact ==
  pc[Main] = "join" =>
    outstanding = Len(tasks) + Cardinality({w \in Workers : pc[w] \in Working})

(* No lost wakeup: a worker is parked only while there is nothing to take  *)
(* and someone is still working who will wake it.                          *)
NoLostWakeup ==
  \A w \in waiting : /\ tasks = <<>>
                     /\ \E v \in Workers : pc[v] \in Working

(* Each path is reported at most once, whichever threads meet over it, and *)
(* so is the end of the scan: of the events received, on their way or held *)
(* back no two are about one path and no two are an end.                   *)
ReportedOnce ==
  LET Places == {<<"received", 0>>} \cup ({"channel"} \X (1..Len(channel)))
                  \cup ({"buffer"} \X Threads)
      At(p) == IF p[1] = "received" THEN received
               ELSE IF p[1] = "channel" THEN channel[p[2]] ELSE buffer[p[2]]
  IN  \A p, q \in Places : \A i \in 1..Len(At(p)), k \in 1..Len(At(q)) :
        \/ Ends(At(p)[i]) /\ Ends(At(q)[k])
        \/ IsPath(At(p)[i]) /\ IsPath(At(q)[k]) /\ At(p)[i][2] = At(q)[k][2]
        => p = q /\ i = k

(* The end is the last thing the consumer hears: once it is on its way no  *)
(* thread holds a batch back, and no batch and no event follows it.        *)
EndIsLast ==
  LET NothingHeld == \A t \in Threads : buffer[t] = <<>> IN
  /\ \A i \in 1..Len(received) :
       Ends(received[i]) => i = Len(received) /\ channel = <<>> /\ NothingHeld
  /\ \A k \in 1..Len(channel) : \A i \in 1..Len(channel[k]) :
       Ends(channel[k][i]) => k = Len(channel) /\ i = Len(channel[k]) /\ NothingHeld
  /\ \A t \in Threads : ~Ended(buffer[t])

(* A directory is to be entered unless it is a link that policy leaves     *)
(* alone, that leads nowhere, or that leads to a directory of its own path.*)
ToEnter(path) ==
  Last(path) \in Links =>
    /\ setup.policy # "SkipAll" /\ Real(path) # Unresolvable
    /\ \A n \in 1..(Len(path) - 1) : Real(SubSeq(path, 1, n)) # Real(path)

(* Completed means complete: every entry, but for those the rules exclude, *)
(* of every directory to be entered that could be read was received or is  *)
(* itself an issue, and nothing else, whoever walked it; the summary       *)
(* counts exactly the directories and files received; and of the names of  *)
(* one file exactly one is charged for its bytes.                          *)
CompletedIsComplete ==
  LET paths(kind) == {received[i][2] : i \in OfKind(received, kind)}
      issues == {received[i][3] : i \in OfKind(received, "issue")}
      known == paths("dir") \cup paths("file")
      charged == {i \in OfKind(received, "file") : received[i][3] = 1}
      Same(i, k) == LET id(n) == setup.identity[Last(received[n][2])] IN
                    IF id(i) = NoIdentity THEN i = k ELSE id(i) = id(k)
  IN  OfKind(received, "completed") # {} =>
        /\ <<Root>> \in known \cup issues
        /\ \A path \in paths("dir") \ issues :
             \A e \in IF ToEnter(path) THEN Entries(path) ELSE {} :
               Append(path, e) \in known \cup issues \cup setup.excluded
        /\ \A path \in known \ {<<Root>>} :
             /\ ToEnter(Front(path)) /\ Last(path) \in Entries(Front(path))
             /\ path \notin setup.excluded
        /\ \A i \in OfKind(received, "summary") :
             received[i] = <<"summary", Cardinality(OfKind(received, "file")),
                             Cardinality(OfKind(received, "dir")), Cardinality(charged)>>
        /\ \A i \in OfKind(received, "file") : Cardinality({k \in charged : Same(i, k)}) = 1

(* Every scan ends: all workers stop, none waits for another forever, and  *)
(* a full channel or a vanished consumer holds nobody up.                  *)
ScanEnds == <>(pc[Main] = "done" /\ \A w \in Workers : pc[w] \in {"unborn", "done"})

(* The consumer hears of the end unless it gave up first. *)
EndIsHeard == <>(~alive \/ Ended(received))
=============================================================================
