----------------------------- MODULE ScanSession -----------------------------
(***************************************************************************)
(* Scan sessions of WinBlaze.Native (bridge.rs).  A session has a scan     *)
(* thread, which produces events, and a worker thread, which runs          *)
(* forward_events: it fills a transaction, publishes the read model        *)
(* (INDEX_MODEL), calls the host back and writes the snapshot.  Sessions   *)
(* share the model, the snapshot and PERSIST_GATE.                         *)
(*                                                                         *)
(* A catalog is <<s, content>>: the session it comes from and whether it   *)
(* holds that scan's records ("full"), those of a reader that gave up      *)
(* ("partial"), or only its volume ("volume").  The snapshot is the        *)
(* register that SnapshotStore implements: a load that runs beside a write *)
(* may come up empty.                                                      *)
(***************************************************************************)
EXTENDS Naturals, Sequences, FiniteSets

CONSTANTS
  MaxSessions,   (* bound: sessions the host starts                         *)
  Modes,         (* kinds of session it starts: "replace" and "incremental" *)
                 (* are sessions, "terminal" is run_terminal_scan           *)
  Overlap,       (* the host may start a session before it has heard of the *)
                 (* end of the previous one                                 *)
  WritesFail,    (* snapshot writes may fail                                *)
  Capacity       (* event batches the channel holds                         *)

ASSUME SessionAssumption ==
  /\ MaxSessions \in Nat \ {0} /\ Capacity \in Nat \ {0}
  /\ Modes \subseteq {"replace", "incremental", "terminal"}
  /\ Overlap \in BOOLEAN /\ WritesFail \in BOOLEAN

Sessions == 1..MaxSessions
None == <<>>
Old == <<0, "full">>       (* what an earlier run of the program left       *)
EmptyCatalog == <<0, "empty">>

VARIABLES
  mode,          (* ScanPersistenceMode; "unstarted" before the start       *)
  scan,          (* next event of the scan thread                           *)
  cancelled,     (* ScanHandle's flag                                       *)
  chan,          (* events on their way to the worker                       *)
  worker,        (* what forward_events does next                           *)
  event,         (* the event in its hands                                  *)
  tx,            (* content of its transaction                              *)
  repo,          (* its repository's state                                  *)
  flushed, dirty, published, deferred,   (* its local variables             *)
  closing,       (* how far NativeSession::join is                          *)
  told,          (* the last terminal event the host was called back with   *)
  model,         (* INDEX_MODEL                                             *)
  disk,          (* the snapshot                                            *)
  gate,          (* the session that holds PERSIST_GATE, or 0               *)
  base,          (* history: the catalog the repository was opened with     *)
  failed         (* history: the sessions that had a write fail             *)

locals == <<event, tx, repo, flushed, dirty, published, deferred>>
shared == <<model, disk, gate>>
history == <<base, failed>>
vars == <<mode, scan, cancelled, chan, worker, locals, closing, told, shared, history>>

Started(s) == mode[s] # "unstarted"
Replaces(s) == mode[s] \in {"replace", "terminal"}
Terminal(e) == e \in {"completed", "cancelled"}

Writers == {s \in Sessions : worker[s] \in {"writing", "persisting", "finishing"}}
Loads == IF Writers = {} THEN {disk} ELSE {disk, EmptyCatalog}

-----------------------------------------------------------------------------
(* The host *)

Last == Cardinality({s \in Sessions : Started(s)})

(* NativeSession::new: the scan thread and the worker start.               *)
Launch(m, held) ==
  LET s == Last + 1 IN
  /\ s \in Sessions
  /\ Overlap \/ \A p \in 1..Last : told[p] # "nothing" \/ worker[p] = "done"
  /\ mode' = [mode EXCEPT ![s] = m]
  /\ scan' = [scan EXCEPT ![s] = "started"]
  /\ worker' = [worker EXCEPT ![s] = "open"]
  /\ closing' = [closing EXCEPT ![s] = held]
  /\ UNCHANGED <<cancelled, chan, locals, told, disk, gate, history>>

(* start_scan_session_with_delivery: the read model is dropped first.      *)
Start(m) == model' = None /\ Launch(m, "no")

(* run_terminal_scan: the caller is the worker; the controller's sender is *)
(* dropped before it starts to receive, the scan is joined at the end.     *)
StartTerminal == model' = None /\ Launch("terminal", "worker")

(* wb_scan_session_cancel *)
CancelSession(s) ==
  /\ Started(s) /\ closing[s] = "no" /\ ~cancelled[s]
  /\ cancelled' = [cancelled EXCEPT ![s] = TRUE]
  /\ UNCHANGED <<mode, scan, chan, worker, locals, closing, told, shared, history>>

(* wb_scan_session_destroy, NativeSession::join: cancel, wait for the scan *)
(* thread, drop the last sender, wait for the worker.                      *)
Destroy(s) ==
  /\ Started(s) /\ closing[s] = "no"
  /\ cancelled' = [cancelled EXCEPT ![s] = TRUE]
  /\ closing' = [closing EXCEPT ![s] = "scan"]
  /\ UNCHANGED <<mode, scan, chan, worker, locals, told, shared, history>>

JoinScan(s) ==
  /\ closing[s] = "scan" /\ scan[s] = "over"
  /\ closing' = [closing EXCEPT ![s] = "worker"]
  /\ UNCHANGED <<mode, scan, cancelled, chan, worker, locals, told, shared, history>>

JoinWorker(s) ==
  /\ closing[s] = "worker" /\ worker[s] = "done" /\ scan[s] = "over"
  /\ closing' = [closing EXCEPT ![s] = "gone"]
  /\ UNCHANGED <<mode, scan, cancelled, chan, worker, locals, told, shared, history>>

(* get_or_load_index_model: the lock is held across the load. *)
Query ==
  /\ model = None
  /\ model' \in Loads
  /\ UNCHANGED <<mode, scan, cancelled, chan, worker, locals, closing, told, disk, gate, history>>

-----------------------------------------------------------------------------
(* The scan thread: the session, its records, the summary, the end.  A     *)
(* master file table reader that fails has sent part of its records; the   *)
(* directory walk then announces the session again and goes on in the same *)
(* channel.  The walk looks at the cancel flag, the table reader does not. *)
After == [started |-> "records", partial |-> "restarted", restarted |-> "walk",
          records |-> "summary", walk |-> "summary", summary |-> "completed",
          completed |-> "over", cancelled |-> "over"]

NextEvents(s) ==
  {scan[s]}
    \cup (IF scan[s] = "records" THEN {"partial"} ELSE {})
    \cup (IF cancelled[s] /\ scan[s] \in {"records", "walk", "summary"} THEN {"cancelled"} ELSE {})

(* The receiver lives as long as the receive loop. *)
Listening(s) == worker[s] \notin {"persist", "persisting", "finish", "finishing", "set", "done"}

(* Mutant: the channel is not bounded. *)
ProduceUnbounded(s) ==
  /\ scan[s] \in DOMAIN After
  /\ \E e \in NextEvents(s) :
       /\ chan' = [chan EXCEPT ![s] = IF Listening(s) THEN Append(@, e) ELSE @]
       /\ scan' = [scan EXCEPT ![s] = After[e]]
  /\ UNCHANGED <<mode, cancelled, worker, locals, closing, told, shared, history>>

Produce(s) ==
  /\ scan[s] \in DOMAIN After
  /\ Listening(s) => Len(chan[s]) < Capacity
  /\ \E e \in NextEvents(s) :
       /\ chan' = [chan EXCEPT ![s] = IF Listening(s) THEN Append(@, e) ELSE @]
       /\ scan' = [scan EXCEPT ![s] = After[e]]
  /\ UNCHANGED <<mode, cancelled, worker, locals, closing, told, shared, history>>

-----------------------------------------------------------------------------
(* forward_events *)

Goto(s, label) == worker' = [worker EXCEPT ![s] = label]

(* The repository is opened under the gate. *)
Open(s) ==
  /\ worker[s] = "open" /\ gate = 0
  /\ \E c \in (IF Replaces(s) THEN {EmptyCatalog} ELSE Loads) :
       /\ repo' = [repo EXCEPT ![s] = c]
       /\ base' = [base EXCEPT ![s] = c]
  /\ Goto(s, "receive")
  /\ UNCHANGED <<mode, scan, cancelled, chan, event, tx, flushed, dirty, published,
                 deferred, closing, told, shared, failed>>

(* Mutant: a replacing scan, too, publishes early only what is written. *)
PublishesWhatIsWritten(s, e) == Terminal(e) /\ ~published[s] /\ flushed[s] /\ ~dirty[s]

(* Before the host hears of the end, the read model is published: by a     *)
(* replacing scan always, by an incremental one if its changes are written.*)
Publishes(s, e) == /\ Terminal(e) /\ ~published[s]
                   /\ Replaces(s) \/ (flushed[s] /\ ~dirty[s])

Receive(s) ==
  /\ worker[s] = "receive" /\ chan[s] # <<>>
  /\ event' = [event EXCEPT ![s] = Head(chan[s])]
  /\ chan' = [chan EXCEPT ![s] = Tail(@)]
  /\ Goto(s, IF Publishes(s, Head(chan[s])) THEN "publish" ELSE "forward")
  /\ UNCHANGED <<mode, scan, cancelled, tx, repo, flushed, dirty, published, deferred,
                 closing, told, shared, history>>

PublishReplaced(s) ==
  /\ worker[s] = "publish" /\ Replaces(s)
  /\ model' = <<s, tx[s]>>
  /\ deferred' = [deferred EXCEPT ![s] = <<s, tx[s]>>]
  /\ tx' = [tx EXCEPT ![s] = "empty"]
  /\ Goto(s, "lock")
  /\ UNCHANGED <<mode, scan, cancelled, chan, event, repo, flushed, dirty, published,
                 closing, told, disk, gate, history>>

(* Mutant: the gate is taken for the hand-over only and not kept. *)
LockNotKept(s) ==
  /\ worker[s] = "lock" /\ gate = 0
  /\ dirty' = [dirty EXCEPT ![s] = FALSE]
  /\ published' = [published EXCEPT ![s] = TRUE]
  /\ Goto(s, "forward")
  /\ UNCHANGED <<mode, scan, cancelled, chan, event, tx, repo, flushed, deferred,
                 closing, told, shared, history>>

(* The gate is taken before the callback and kept until the snapshot of a  *)
(* replacing scan is written.                                              *)
Lock(s) ==
  /\ worker[s] = "lock" /\ gate = 0
  /\ gate' = s
  /\ dirty' = [dirty EXCEPT ![s] = FALSE]
  /\ published' = [published EXCEPT ![s] = TRUE]
  /\ Goto(s, "forward")
  /\ UNCHANGED <<mode, scan, cancelled, chan, event, tx, repo, flushed, deferred,
                 closing, told, model, disk, history>>

PublishMerged(s) ==
  /\ worker[s] = "publish" /\ ~Replaces(s)
  /\ model' = repo[s]
  /\ repo' = [repo EXCEPT ![s] = EmptyCatalog]
  /\ published' = [published EXCEPT ![s] = TRUE]
  /\ Goto(s, "forward")
  /\ UNCHANGED <<mode, scan, cancelled, chan, event, tx, flushed, dirty, deferred,
                 closing, told, disk, gate, history>>

(* should_flush_index; persist_scan_event *)
FlushRequested(s, e) == e \in (IF Replaces(s) THEN {"started", "restarted"} ELSE {"summary"})
Inserted(s, e) == IF e = "started" THEN "volume"
                  ELSE IF e = "partial" THEN "partial"
                  ELSE IF e \in {"records", "walk"} THEN "full" ELSE tx[s]
Records(e) == e \in {"started", "partial", "restarted", "records", "walk"}

(* The callback, then the event goes into the transaction. *)
Forward(s) ==
  LET e == event[s]
      dirty2 == dirty[s] \/ Records(e)
  IN  /\ worker[s] = "forward"
      /\ told' = [told EXCEPT ![s] = IF Terminal(e) THEN e ELSE @]
      /\ tx' = [tx EXCEPT ![s] = Inserted(s, e)]
      /\ dirty' = [dirty EXCEPT ![s] = dirty2]
      /\ Goto(s, IF FlushRequested(s, e) /\ (dirty2 \/ ~flushed[s]) /\ ~published[s]
                 THEN "flush" ELSE "receive")
      /\ UNCHANGED <<mode, scan, cancelled, chan, event, repo, flushed, published, deferred,
                     closing, shared, history>>

(* apply_scan_transaction: an incremental repository adopts the merged     *)
(* catalog before it is written, a replacing one only writes.              *)
Apply(s, from, to) ==
  /\ worker[s] = from
  /\ repo' = [repo EXCEPT ![s] = IF Replaces(s) THEN @ ELSE <<s, tx[s]>>]
  /\ Goto(s, to)
  /\ UNCHANGED <<mode, scan, cancelled, chan, event, tx, flushed, dirty, published, deferred,
                 closing, told, shared, history>>

Flush(s) == Apply(s, "flush", "writing")

(* The end of a write: it has happened, or it has failed. *)
Written(s, c, ok) ==
  /\ ok \/ WritesFail
  /\ disk' = IF ok THEN c ELSE disk
  /\ failed' = IF ok THEN failed ELSE failed \cup {s}

FlushEnds(s, ok) ==
  /\ worker[s] = "writing"
  /\ Written(s, <<s, tx[s]>>, ok)
  /\ flushed' = [flushed EXCEPT ![s] = ok]
  /\ dirty' = [dirty EXCEPT ![s] = @ /\ ~ok]
  /\ Goto(s, "receive")
  /\ UNCHANGED <<mode, scan, cancelled, chan, event, tx, repo, published, deferred,
                 closing, told, model, gate, base>>

(* Mutant: a session that has published has nothing left to do. *)
DrainedIfPublished(s) ==
  /\ worker[s] = "receive"
  /\ chan[s] = <<>> /\ scan[s] = "over" /\ closing[s] = "worker"
  /\ Goto(s, IF published[s] THEN "done"
             ELSE IF ~flushed[s] \/ dirty[s] THEN "finish" ELSE "set")
  /\ UNCHANGED <<mode, scan, cancelled, chan, locals, closing, told, shared, history>>

(* The receive loop ends when every sender is gone; the controller of a    *)
(* session holds one until join drops it.                                  *)
Drained(s) ==
  /\ worker[s] = "receive"
  /\ chan[s] = <<>> /\ scan[s] = "over" /\ closing[s] = "worker"
  /\ Goto(s, IF deferred[s] # None THEN "persist" ELSE IF published[s] THEN "done"
             ELSE IF ~flushed[s] \/ dirty[s] THEN "finish" ELSE "set")
  /\ UNCHANGED <<mode, scan, cancelled, chan, locals, closing, told, shared, history>>

(* run_terminal_scan gives up at its deadline. *)
Deadline(s) ==
  /\ mode[s] = "terminal" /\ worker[s] = "receive"
  /\ cancelled' = [cancelled EXCEPT ![s] = TRUE]
  /\ chan' = [chan EXCEPT ![s] = <<>>]
  /\ Goto(s, IF deferred[s] # None THEN "persist"
             ELSE IF ~flushed[s] \/ dirty[s] THEN "finish" ELSE "set")
  /\ UNCHANGED <<mode, scan, locals, closing, told, shared, history>>

Persist(s) ==
  /\ worker[s] = "persist"
  /\ Goto(s, "persisting")
  /\ UNCHANGED <<mode, scan, cancelled, chan, locals, closing, told, shared, history>>

(* Mutant: the gate stays closed after the deferred write. *)
PersistEndsLocked(s, ok) ==
  /\ worker[s] = "persisting"
  /\ Written(s, deferred[s], ok)
  /\ Goto(s, "done")
  /\ UNCHANGED <<mode, scan, cancelled, chan, locals, closing, told, model, gate, base>>

(* The deferred write; then the gate is opened. *)
PersistEnds(s, ok) ==
  /\ worker[s] = "persisting"
  /\ Written(s, deferred[s], ok)
  /\ gate' = 0
  /\ Goto(s, "done")
  /\ UNCHANGED <<mode, scan, cancelled, chan, locals, closing, told, model, base>>

(* A session that could not publish before the callback applies its        *)
(* transaction now and sets the model last.                                *)
Finish(s) == Apply(s, "finish", "finishing")

FinishEnds(s, ok) ==
  /\ worker[s] = "finishing"
  /\ Written(s, <<s, tx[s]>>, ok)
  /\ Goto(s, "set")
  /\ UNCHANGED <<mode, scan, cancelled, chan, locals, closing, told, model, gate, base>>

SetModel(s) ==
  /\ worker[s] = "set"
  /\ model' = IF Replaces(s) THEN <<s, tx[s]>> ELSE repo[s]
  /\ Goto(s, "done")
  /\ UNCHANGED <<mode, scan, cancelled, chan, locals, closing, told, disk, gate, history>>

-----------------------------------------------------------------------------
Init ==
  /\ mode = [s \in Sessions |-> "unstarted"]
  /\ scan = [s \in Sessions |-> "none"]
  /\ cancelled = [s \in Sessions |-> FALSE]
  /\ chan = [s \in Sessions |-> <<>>]
  /\ worker = [s \in Sessions |-> "none"]
  /\ event = [s \in Sessions |-> "none"]
  /\ tx = [s \in Sessions |-> "empty"]
  /\ repo = [s \in Sessions |-> EmptyCatalog]
  /\ flushed = [s \in Sessions |-> FALSE]
  /\ dirty = [s \in Sessions |-> FALSE]
  /\ published = [s \in Sessions |-> FALSE]
  /\ deferred = [s \in Sessions |-> None]
  /\ closing = [s \in Sessions |-> "no"]
  /\ told = [s \in Sessions |-> "nothing"]
  /\ model = None /\ disk = Old /\ gate = 0
  /\ base = [s \in Sessions |-> None] /\ failed = {}

Work(s) ==
  \/ Open(s) \/ Receive(s) \/ PublishReplaced(s) \/ Lock(s) \/ PublishMerged(s)
  \/ Forward(s) \/ Flush(s) \/ Drained(s) \/ Persist(s) \/ Finish(s) \/ SetModel(s)
  \/ \E ok \in BOOLEAN : FlushEnds(s, ok) \/ PersistEnds(s, ok) \/ FinishEnds(s, ok)

Close(s) == JoinScan(s) \/ JoinWorker(s)

(* Every session was started, has ended and was destroyed. *)
Over == \A s \in Sessions : closing[s] = "gone"

Next ==
  \/ \E m \in Modes \ {"terminal"} : Start(m)
  \/ "terminal" \in Modes /\ StartTerminal
  \/ \E s \in Sessions : \/ CancelSession(s) \/ Destroy(s) \/ Close(s)
                         \/ Produce(s) \/ Work(s) \/ Deadline(s)
  \/ Query
  \/ Over /\ UNCHANGED vars

Spec == Init /\ [][Next]_vars

(* Threads run; the host destroys a session it has heard the end of (the   *)
(* terminal branch of MainWindow::HandleNativeEvent).                      *)
Fairness == \A s \in Sessions :
  /\ WF_vars(Produce(s)) /\ WF_vars(Work(s)) /\ WF_vars(Close(s))
  /\ WF_vars(told[s] # "nothing" /\ Destroy(s))

FairSpec == Spec /\ Fairness

-----------------------------------------------------------------------------
Contents == {"empty", "volume", "partial", "full"}
Catalogs == {EmptyCatalog, Old} \cup (Sessions \X Contents)

(* The type invariant. *)
TypeOK ==
  /\ mode \in [Sessions -> Modes \cup {"unstarted"}]
  /\ scan \in [Sessions -> DOMAIN After \cup {"none", "over"}]
  /\ cancelled \in [Sessions -> BOOLEAN]
  /\ chan \in [Sessions -> Seq(DOMAIN After)] /\ \A s \in Sessions : Len(chan[s]) <= Capacity
  /\ worker \in [Sessions -> {"none", "open", "receive", "publish", "lock", "forward", "flush",
                   "writing", "persist", "persisting", "finish", "finishing", "set", "done"}]
  /\ event \in [Sessions -> DOMAIN After \cup {"none"}]
  /\ tx \in [Sessions -> Contents]
  /\ repo \in [Sessions -> Catalogs]
  /\ flushed \in [Sessions -> BOOLEAN] /\ dirty \in [Sessions -> BOOLEAN]
  /\ published \in [Sessions -> BOOLEAN]
  /\ deferred \in [Sessions -> Catalogs \cup {None}]
  /\ closing \in [Sessions -> {"no", "scan", "worker", "gone"}]
  /\ told \in [Sessions -> {"nothing", "completed", "cancelled"}]
  /\ model \in Catalogs \cup {None} /\ disk \in Catalogs
  /\ gate \in Sessions \cup {0}
  /\ base \in [Sessions -> Catalogs \cup {None}] /\ failed \subseteq Sessions

(* A session that writes outside the gate after the host has heard of its  *)
(* end: an incremental rescan that was cancelled, or whose write failed.   *)
Straggler(s) == mode[s] = "incremental" /\ (told[s] = "cancelled" \/ s \in failed)

(* The rescan race is closed: with one session at a time, an incremental   *)
(* rescan started the moment the host hears Completed compares with that   *)
(* scan's catalog, although it is written only later.  (Or with one that a *)
(* straggler has put over it.)                                             *)
RescanReadsFresh ==
  \A s \in Sessions \ {1} :
    mode[s] = "incremental" /\ base[s] # None /\ told[s - 1] = "completed" /\ s - 1 \notin failed
      => \/ base[s] = <<s - 1, "full">>
         \/ \E p \in 1..(s - 2) : Straggler(p)

(* The host that reloads when it hears Completed finds the new catalog: a  *)
(* query between the start and the end of a scan leaves nothing stale in   *)
(* the model, nor does the previous session.                               *)
ReloadIsFresh ==
  Last > 0 /\ told[Last] = "completed" /\ Last \notin failed =>
    \/ model = <<Last, "full">>
    \/ \E p \in 1..(Last - 1) : Straggler(p)

(* When all sessions are over, what a restart would load is what the model *)
(* shows.                                                                  *)
SnapshotMatchesModel ==
  (\A s \in Sessions : Started(s) => worker[s] = "done") /\ Last > 0
     /\ failed = {} /\ (\A s \in Sessions : ~Straggler(s))
   => model = disk

(* Two sessions write the snapshot at once (SnapshotStore assumes they do  *)
(* not: they share one temporary file) only if one of them is a straggler. *)
OneWriter ==
  \A s, p \in Writers : s # p => Straggler(s) \/ Straggler(p)

(* Every session ends once the host destroys those it heard the end of: a  *)
(* session that waits for the gate waits for one that will open it, and    *)
(* the scan thread is never stuck on a full channel.                       *)
SessionsEnd ==
  \A s \in Sessions : [](Started(s) => <>(worker[s] = "done" /\ scan[s] = "over"))

(* Incremental changes are applied when the rescan emits its summary.  A   *)
(* cancelled rescan applies the files it happened to see all the same.     *)
ChangesOnlyAfterSummary ==
  \A s \in Sessions :
    mode[s] = "incremental" /\ s \in Writers => told[s] # "cancelled"
=============================================================================
