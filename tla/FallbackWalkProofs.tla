-------------------------- MODULE FallbackWalkProofs --------------------------
(***************************************************************************)
(* Proofs about the directory walk, for any tree and rules, any number of  *)
(* workers greater than one and any sizes of batches and channel.          *)
(*                                                                         *)
(* The types, the exact count of outstanding tasks, that no wakeup is lost *)
(* and that nothing follows the end all follow from one inductive          *)
(* invariant, WalkInv, which adds where the threads are while the scan     *)
(* thread walks alone, waits for the workers or ends (Phases), what a      *)
(* thread at a given place still holds (Held) and that no end is on its    *)
(* way before the scan thread is done (EndInv).                            *)
(*                                                                         *)
(* That no path is reported twice, any links and whatever threads meet     *)
(* over them, is about territories.  A task that is not yet opened         *)
(* entitles its holder to report what lies below its path; a directory in  *)
(* hand, to report the entries that are left and what lies below them.     *)
(* The territories of the threads and of the queue never overlap, and what *)
(* has been reported is in none of them (OnceInv).                         *)
(***************************************************************************)
EXTENDS FallbackWalk, FiniteSetTheorems, TLAPS

-----------------------------------------------------------------------------
(* Events and the way they take. *)

Paths == Seq(Dirs \cup Files)
Kinds == {"root", "directory", "entry", "cycle"}

(* What is sent before the end. *)
Reports ==
  {<<"started">>} \cup ({"dir"} \X Paths) \cup ({"file"} \X Paths \X Nat)
    \cup ({"issue"} \X Kinds \X Paths) \cup ({"progress"} \X Nat)
    \cup ({"summary"} \X Nat \X Nat \X Nat)
Event == Reports \cup {<<"completed">>, <<"cancelled">>}

LEMMA EventFacts ==
  /\ <<"started">> \in Reports
  /\ \A p \in Paths : <<"dir", p>> \in Reports
  /\ \A p \in Paths, n \in Nat : <<"file", p, n>> \in Reports
  /\ \A k \in Kinds, p \in Paths : <<"issue", k, p>> \in Reports
  /\ \A n \in Nat : <<"progress", n>> \in Reports
  /\ \A n, m, l \in Nat : <<"summary", n, m, l>> \in Reports
  /\ \A e \in Reports : ~Ends(e)
  /\ Ends(<<"completed">>) /\ Ends(<<"cancelled">>)
  /\ \A e \in Event : Ends(e) => Forces(e)
  /\ Reports \subseteq Event /\ <<"completed">> \in Event /\ <<"cancelled">> \in Event
<1>1. \A e \in Reports : e[1] \in {"started", "dir", "file", "issue", "progress", "summary"}
  BY DEF Reports
<1>2. \A e \in Reports : ~Ends(e)
  <2> HIDE DEF Reports
  <2> QED BY <1>1 DEF Ends
<1>3. \A p \in Paths : <<"dir", p>> \in Reports
  BY DEF Reports
<1>4. \A p \in Paths, n \in Nat : <<"file", p, n>> \in Reports
  BY DEF Reports
<1>5. \A k \in Kinds, p \in Paths : <<"issue", k, p>> \in Reports
  BY DEF Reports
<1>6. \A n \in Nat : <<"progress", n>> \in Reports
  BY DEF Reports
<1>7. \A n, m, l \in Nat : <<"summary", n, m, l>> \in Reports
  BY DEF Reports
<1>8. <<"started">> \in Reports
  BY DEF Reports
<1>9. \A e \in Event : Ends(e) => Forces(e)
  BY DEF Ends, Forces
<1>10. Ends(<<"completed">>) /\ Ends(<<"cancelled">>)
  BY DEF Ends
<1> QED BY <1>2, <1>3, <1>4, <1>5, <1>6, <1>7, <1>8, <1>9, <1>10 DEF Event

(* The types of what is under way. *)
WireOK ==
  /\ buffer \in [Threads -> Seq(Reports)] /\ channel \in Seq(Seq(Event)) /\ received \in Seq(Event)
  /\ Len(channel) <= Capacity

(* A thread that has not finished the scan emits a report, or does nothing. *)
Delivers(t) == UNCHANGED delivery \/ \E e \in Reports : Emit(t, e)

LEMMA SendTypes ==
  ASSUME channel \in Seq(Seq(Event)), Len(channel) <= Capacity, NEW batch \in Seq(Event), Send(batch)
  PROVE  channel' \in Seq(Seq(Event)) /\ Len(channel') <= Capacity
<1>1. Capacity \in Nat
  BY WalkAssumption
<1> DEFINE B == Seq(Event)
<1> HIDE DEF B
<1>2. CASE ~alive
  BY <1>2 DEF Send, B
<1>3. CASE alive
  <2>1. Len(channel) < Capacity /\ channel' = Append(channel, batch) /\ channel \in Seq(B) /\ batch \in B
    BY <1>3 DEF Send, B
  <2>2. channel' \in Seq(B) /\ Len(channel') = Len(channel) + 1 /\ Len(channel) \in Nat
    BY <2>1
  <2> QED BY <1>1, <2>1, <2>2 DEF B
<1> QED BY <1>2, <1>3

LEMMA DeliverTypes ==
  ASSUME WireOK, NEW t \in Threads, Delivers(t), UNCHANGED received
  PROVE  WireOK' /\ \A s \in Threads \ {t} : buffer'[s] = buffer[s]
<1> USE DEF WireOK
<1> HIDE DEF Reports, Event, Threads
<1>1. CASE UNCHANGED delivery
  BY <1>1 DEF delivery
<1>2. ASSUME NEW e \in Reports, Emit(t, e)
      PROVE  WireOK' /\ \A s \in Threads \ {t} : buffer'[s] = buffer[s]
  <2> DEFINE batch == Append(buffer[t], e)
  <2>1. batch \in Seq(Reports) /\ batch \in Seq(Event)
    BY EventFacts
  <2> HIDE DEF batch
  <2>2. \/ Send(batch) /\ buffer' = [buffer EXCEPT ![t] = <<>>]
        \/ buffer' = [buffer EXCEPT ![t] = batch] /\ UNCHANGED channel
    BY <1>2 DEF Emit, batch
  <2>3. CASE Send(batch) /\ buffer' = [buffer EXCEPT ![t] = <<>>]
    BY <2>1, <2>3, SendTypes
  <2>4. CASE buffer' = [buffer EXCEPT ![t] = batch] /\ UNCHANGED channel
    BY <2>1, <2>4
  <2> QED BY <2>2, <2>3, <2>4
<1> QED BY <1>1, <1>2 DEF Delivers

LEMMA FlushTypes ==
  ASSUME WireOK, NEW t \in Threads, Flush(t), UNCHANGED received
  PROVE  WireOK' /\ buffer'[t] = <<>> /\ \A s \in Threads \ {t} : buffer'[s] = buffer[s]
<1> USE DEF WireOK
<1>1. buffer[t] \in Seq(Reports) /\ buffer[t] \in Seq(Event)
  BY EventFacts
<1> HIDE DEF Reports, Event, Threads
<1>2. CASE buffer[t] = <<>>
  <2>1. buffer' = buffer /\ channel' = channel
    BY <1>2 DEF Flush, delivery
  <2> QED BY <1>2, <2>1
<1>3. CASE buffer[t] # <<>>
  <2>1. Send(buffer[t]) /\ buffer' = [buffer EXCEPT ![t] = <<>>]
    BY <1>3 DEF Flush
  <2>2. channel' \in Seq(Seq(Event)) /\ Len(channel') <= Capacity
    BY <1>1, <2>1, SendTypes
  <2> QED BY <2>1, <2>2
<1> QED BY <1>2, <1>3

LEMMA IssueDelivers ==
  ASSUME NEW t \in Threads, NEW kind \in Kinds, NEW path \in Paths, EmitIssue(t, kind, path)
  PROVE  Delivers(t)
BY EventFacts DEF EmitIssue, Delivers

-----------------------------------------------------------------------------
(* Tasks and paths. *)

LEMMA ElementOf == ASSUME NEW S, NEW seq \in Seq(S), NEW i \in 1..Len(seq) PROVE seq[i] \in S
OBVIOUS

LEMMA PathFacts ==
  ASSUME NEW task \in Task, NEW e \in Dirs \cup Files
  PROVE  Append(task.path, e) \in Paths /\ task.path \in Paths
BY DEF Task, Paths

LEMMA RootIsTask == RootTask \in Task
<1>1. Root \in Dirs
  BY WalkAssumption
<1> QED BY <1>1 DEF RootTask, Task

LEMMA ChildIsTask ==
  ASSUME setup \in Setup, NEW task \in Task, NEW d \in Dirs, evaluate_reparse_descent(task, d) = "Follow"
  PROVE  Child(task, d) \in Task
<1> DEFINE path == Append(task.path, d)
<1>1. path \in Seq(Dirs) /\ Last(path) = d /\ task.ancestors \in Seq(Dirs)
  BY DEF Task, Last
<1>2. d \in Links => setup.target[d] \in Dirs
  <2>1. d \in Links => setup.target[d] \in (Dirs \ Links) \cup {Unresolvable}
    BY DEF Setup
  <2> QED BY <2>1 DEF evaluate_reparse_descent
<1> HIDE DEF path
<1>3. Real(path) \in Dirs
  BY <1>1, <1>2 DEF Real
<1>4. Append(task.ancestors, Real(path)) \in Seq(Dirs)
  BY <1>1, <1>3
<1> QED BY <1>1, <1>4 DEF Child, Task, path

LEMMA EntriesAreKnown == \A path : Entries(path) \subseteq Dirs \cup Files
BY WalkAssumption DEF Entries

-----------------------------------------------------------------------------
(* What a thread keeps to itself. *)

Fields ==
  /\ directories_seen \in Nat /\ files_seen \in Nat
  /\ total_allocation \in Nat /\ last_reported \in Nat
  /\ ret \in [Threads -> {"files", "found", "end", "complete"}]
  /\ claimed \subseteq Files
  /\ dir \in [Threads -> Task] /\ found \in [Threads -> Dirs]
  /\ todo \in [Threads -> SUBSET (Dirs \cup Files)]
  /\ callers \in Seq([task : Task, todo : SUBSET (Dirs \cup Files)])
  /\ fresh \in [Threads -> Seq(Task)] /\ pending \in [Threads -> Seq(Files)]
  /\ tally \in [Threads -> Nat] /\ physical \in [Threads -> Nat]
  /\ charge \in [Threads -> Nat] /\ items \in [Threads -> Nat]
  /\ want \in [Threads -> 0..WorkerLimit]

Labels == Working \cup {"unborn", "start", "chain", "join", "summary", "completed", "look", "spawn",
                        "take", "done", "walk", "walking", "counted", "descend", "walked"}

Rest ==
  /\ setup \in Setup
  /\ tasks \in Seq(Task) /\ outstanding \in Nat /\ waiting \subseteq Workers
  /\ workers_started \in 0..WorkerLimit
  /\ cancelled \in BOOLEAN /\ alive \in BOOLEAN
  /\ pc \in [Threads -> Labels]
  /\ Len(channel) <= Capacity

LEMMA TypesAre == (TypeOK <=> Fields /\ Rest) /\ (TypeOK' <=> Fields' /\ Rest')
BY DEF TypeOK, Fields, Rest, Labels

(* A thread that processes a directory stays at it: it delivers reports,   *)
(* and leaves the queue and the other threads alone.                       *)
Processes(t) ==
  /\ pc[t] \in Working
  /\ \E label \in Working :
       /\ pc' = [pc EXCEPT ![t] = label]
       /\ label = "emit" => pending'[t] # <<>>
  /\ \A s \in Threads \ {t} : pending'[s] = pending[s]
  /\ UNCHANGED <<queue, workers_started, cancelled, consumer>>
  /\ Fields' /\ Delivers(t)

LEMMA ProcessStep ==
  ASSUME NEW t \in Threads, Fields, setup \in Setup, pc \in [Threads -> Labels],
         pc[t] = "emit" => pending[t] # <<>>, Process(t)
  PROVE  Processes(t)
<1> USE DEF Fields, Processes, Goto
<1> HIDE DEF Task, Threads, Event, Reports, Kinds, Paths, Labels
<1>1. ASSUME ReadFails(t) PROVE Processes(t)
  <2>1. Delivers(t)
    BY <1>1, IssueDelivers, PathFacts DEF ReadFails, Kinds
  <2> QED BY <1>1, <2>1 DEF ReadFails, EmitIssue, counted, local, place, totals, loop, queue, consumer,
             Working
<1>2. ASSUME ReadDir(t) PROVE Processes(t)
  BY <1>2, EntriesAreKnown DEF ReadDir, Delivers, counters, counted, keys, totals, loop, queue, consumer, Working
<1>3. ASSUME LeaveLoop(t) PROVE Processes(t)
  BY <1>3 DEF LeaveLoop, Delivers, counters, counted, keys, totals, loop, queue, consumer, Working
<1>4. ASSUME NEW e \in Dirs \cup Files, EntryFails(t, e) PROVE Processes(t)
  <2>1. Delivers(t)
    BY <1>4, IssueDelivers, PathFacts DEF EntryFails, Kinds
  <2>2. pc' = [pc EXCEPT ![t] = "entries"] /\ pc[t] = "entries"
    BY <1>4 DEF EntryFails, Entry
  <2> QED BY <1>4, <2>1, <2>2 DEF EntryFails, EmitIssue, counted, totals, loop, queue, consumer, Working
<1>5. ASSUME NEW e \in Dirs \cup Files, Exclude(t, e) PROVE Processes(t)
  <2>2. pc' = [pc EXCEPT ![t] = "entries"] /\ pc[t] = "entries"
    BY <1>5 DEF Exclude, Entry
  <2> QED BY <1>5, <2>2 DEF Exclude, Delivers, counters, counted, keys, totals, loop, queue, consumer, Working
<1>6. ASSUME NEW f \in Files, FileEntry(t, f) PROVE Processes(t)
  <2>1. /\ pending' = [pending EXCEPT ![t] = Append(pending[t], f)]
        /\ todo' = [todo EXCEPT ![t] = todo[t] \ {f}]
        /\ pc[t] = "entries" /\ \E label \in {"files", "entries"} : pc' = [pc EXCEPT ![t] = label]
        /\ UNCHANGED <<queue, workers_started, counters, cancelled, dir, fresh, found, callers,
                       tally, physical, charge, loop, delivery, consumer>>
    BY <1>6 DEF FileEntry, Entry
  <2>2. Fields'
    BY <2>1, SMTT(60) DEF counters, counted, keys, loop
  <2> QED BY <2>1, <2>2 DEF Delivers, Working
<1>7. ASSUME NEW d \in Dirs, FindDir(t, d) PROVE Processes(t)
  BY <1>7 DEF FindDir, Entry, Delivers, counters, counted, keys, totals, loop, queue, consumer, Working
<1>8. ASSUME DirEntry(t) PROVE Processes(t)
  <2> DEFINE decision == evaluate_reparse_descent(dir[t], found[t])
             child == Child(dir[t], found[t])
  <2>1. Delivers(t)
    BY <1>8, EventFacts, PathFacts DEF DirEntry, Delivers
  <2>2. decision = "Follow" => child \in Task
    BY ChildIsTask
  <2>3. Root \in Dirs
    BY WalkAssumption
  <2> HIDE DEF child
  <2>4. fresh' \in [Threads -> Seq(Task)]
    BY <1>8, <2>2 DEF DirEntry, child
  <2>5. /\ directories_seen' = directories_seen + 1
        /\ \E l \in {"cycle", "entries"} : pc' = [pc EXCEPT ![t] = l]
        /\ \E d \in Dirs : found' = [found EXCEPT ![t] = d]
        /\ pc[t] = "found"
        /\ UNCHANGED <<queue, workers_started, files_seen, total_allocation, last_reported, keys,
                       cancelled, dir, todo, callers, totals, loop, consumer>>
    BY <1>8, <2>3 DEF DirEntry
  <2>6. Fields'
    BY <2>4, <2>5, SMTT(60) DEF keys, totals, loop
  <2> QED BY <2>1, <2>5, <2>6 DEF totals, Working
<1>9. ASSUME CycleIssue(t) PROVE Processes(t)
  <2>1. Delivers(t)
    BY <1>9, IssueDelivers, PathFacts DEF CycleIssue, Kinds
  <2>2. Root \in Dirs
    BY WalkAssumption
  <2> QED BY <1>9, <2>1, <2>2 DEF CycleIssue, EmitIssue, counted, totals, loop, queue, consumer, Working
<1>10. ASSUME ClaimFile(t) PROVE Processes(t)
  <2>1. Head(pending[t]) \in Files
    BY <1>10 DEF ClaimFile
  <2>2. setup.identity[Head(pending[t])] \in Files \cup {NoIdentity}
    BY <2>1 DEF Setup
  <2>3. claimed' \subseteq Files
    BY <1>10, <2>2 DEF ClaimFile, Claim
  <2> QED BY <1>10, <2>3 DEF ClaimFile, ChargeOf, Delivers, counted, place, queue, consumer, Working
<1>11. ASSUME EmitFile(t) PROVE Processes(t)
  <2>1. pending[t] # <<>> /\ Head(pending[t]) \in Files /\ Tail(pending[t]) \in Seq(Files)
    BY <1>11 DEF EmitFile
  <2>2. Delivers(t)
    BY <1>11, <2>1, EventFacts, PathFacts DEF EmitFile, Delivers
  <2>3. ret[t] \in Working /\ "progress" \in Working /\ ret[t] # "emit" /\ pc[t] \in Working
    BY <1>11 DEF EmitFile, Working
  <2>4. /\ \E label \in {"progress", ret[t]} : pc' = [pc EXCEPT ![t] = label]
        /\ pending' = [pending EXCEPT ![t] = Tail(pending[t])]
        /\ charge' = [charge EXCEPT ![t] = 0]
        /\ UNCHANGED <<queue, workers_started, directories_seen, last_reported, keys,
                       cancelled, place, loop, consumer>>
    BY <1>11 DEF EmitFile
  <2>5. /\ files_seen' \in Nat /\ total_allocation' \in Nat
        /\ tally' \in [Threads -> Nat] /\ physical' \in [Threads -> Nat]
    <3>1. /\ tally[t] \in Nat /\ physical[t] \in Nat /\ charge[t] \in Nat
          /\ tally \in [Threads -> Nat] /\ physical \in [Threads -> Nat]
          /\ files_seen \in Nat /\ total_allocation \in Nat
      OBVIOUS
    <3> HIDE DEF Fields, Processes
    <3> DEFINE n == tally[t] + 1
               b == physical[t] + charge[t]
    <3>2. n \in Nat /\ b \in Nat /\ total_allocation + physical[t] + charge[t] = total_allocation + b
          /\ files_seen + tally[t] + 1 = files_seen + n
      BY <3>1, SMTT(60)
    <3>3. \/ /\ files_seen' = files_seen + tally[t] + 1
             /\ total_allocation' = total_allocation + physical[t] + charge[t]
             /\ tally' = [tally EXCEPT ![t] = 0] /\ physical' = [physical EXCEPT ![t] = 0]
          \/ /\ tally' = [tally EXCEPT ![t] = n] /\ physical' = [physical EXCEPT ![t] = b]
             /\ UNCHANGED <<files_seen, total_allocation>>
      BY <1>11 DEF EmitFile
    <3> HIDE DEF n, b
    <3>4. files_seen' \in Nat /\ total_allocation' \in Nat
      BY <3>1, <3>2, <3>3
    <3>5. /\ \A m \in Nat : [tally EXCEPT ![t] = m] \in [Threads -> Nat]
          /\ \A m \in Nat : [physical EXCEPT ![t] = m] \in [Threads -> Nat]
      BY <3>1
    <3>6. \E m \in Nat : tally' = [tally EXCEPT ![t] = m]
      BY <3>2, <3>3
    <3>7. \E m \in Nat : physical' = [physical EXCEPT ![t] = m]
      BY <3>2, <3>3
    <3>8. tally' \in [Threads -> Nat] /\ physical' \in [Threads -> Nat]
      BY <3>5, <3>6, <3>7
    <3> QED BY <3>4, <3>8
  <2>6. Fields'
    BY <2>1, <2>4, <2>5 DEF keys, place, loop
  <2> QED BY <2>2, <2>3, <2>4, <2>6
<1>12. ASSUME FilesEmitted(t) PROVE Processes(t)
  BY <1>12 DEF FilesEmitted, Delivers, counters, counted, keys, local, place, totals, loop, queue, consumer, Working
<1>13. ASSUME EndDirectory(t) PROVE Processes(t)
  <2>1. /\ files_seen' \in Nat /\ total_allocation' \in Nat
        /\ tally' \in [Threads -> Nat] /\ physical' \in [Threads -> Nat]
        /\ ret' = [ret EXCEPT ![t] = "complete"]
    BY <1>13, SMTT(60) DEF EndDirectory
  <2>2. /\ pc[t] = "end" /\ pc' = [pc EXCEPT ![t] = "progress"]
        /\ UNCHANGED <<queue, workers_started, directories_seen, last_reported, keys, cancelled,
                       place, pending, charge, items, want, delivery, consumer>>
    BY <1>13 DEF EndDirectory
  <2>3. Fields'
    BY <2>1, <2>2 DEF keys, place
  <2> QED BY <2>2, <2>3 DEF Delivers, Working
<1>14. ASSUME LoadItems(t) PROVE Processes(t)
  BY <1>14, SMTT(60) DEF LoadItems, Delivers, counters, counted, keys, place, totals, queue, consumer, Working
<1>15. ASSUME Advance(t) PROVE Processes(t)
  BY <1>15, SMTT(60) DEF Advance, Delivers, counted, keys, local, place, totals, loop, queue, consumer, Working
<1>16. ASSUME Report(t) PROVE Processes(t)
  <2>1. Delivers(t)
    BY <1>16, EventFacts DEF Report, Delivers
  <2> QED BY <1>16, <2>1 DEF Report, counters, counted, keys, local, place, totals, loop, queue, consumer, Working
<1> QED
  BY <1>1, <1>2, <1>3, <1>4, <1>5, <1>6, <1>7, <1>8, <1>9, <1>10, <1>11, <1>12, <1>13, <1>14,
     <1>15, <1>16 DEF Process

-----------------------------------------------------------------------------
(* The scan thread that walks alone does the same at its own labels.       *)
Walking == {"walk", "walking", "counted", "descend", "walked"}
Walks ==
  /\ pc[Main] \in Walking
  /\ \E label \in Walking : pc' = [pc EXCEPT ![Main] = label]
  /\ UNCHANGED <<queue, workers_started, cancelled, pending, consumer>>
  /\ Fields' /\ Delivers(Main)

CallFields ==
  /\ dir \in [Threads -> Task]
  /\ todo \in [Threads -> SUBSET (Dirs \cup Files)]
  /\ callers \in Seq([task : Task, todo : SUBSET (Dirs \cup Files)])

LEMMA ReturnStep ==
  ASSUME CallFields, Return
  PROVE  /\ CallFields'
         /\ \E label \in {"walked", "walking"} : pc' = [pc EXCEPT ![Main] = label]
<1> USE DEF CallFields
<1> HIDE DEF Task, Threads
<1>1. CASE callers = <<>>
  BY <1>1 DEF Return, Goto
<1>2. CASE callers # <<>>
  <2> DEFINE Call == [task : Task, todo : SUBSET (Dirs \cup Files)]
             call == Last(callers)
  <2>1. call \in Call /\ Front(callers) \in Seq(Call)
    <3>1. callers \in Seq(Call)
      OBVIOUS
    <3> HIDE DEF Call, CallFields
    <3> QED BY <1>2, <3>1 DEF Last, Front
  <2>2. call.task \in Task /\ call.todo \in SUBSET (Dirs \cup Files)
    BY <2>1
  <2> HIDE DEF call, Call
  <2>3. /\ dir' = [dir EXCEPT ![Main] = call.task] /\ todo' = [todo EXCEPT ![Main] = call.todo]
        /\ callers' = Front(callers) /\ pc' = [pc EXCEPT ![Main] = "walking"]
    BY <1>2 DEF Return, Goto, call
  <2>4. callers' \in Seq([task : Task, todo : SUBSET (Dirs \cup Files)])
    BY <2>1, <2>3 DEF Call
  <2> QED BY <2>2, <2>3, <2>4
<1> QED BY <1>1, <1>2

LEMMA WalkStep ==
  ASSUME Fields, setup \in Setup, pc \in [Threads -> Labels], Walk
  PROVE  Walks
<1> USE DEF Fields, Walks, Goto
<1> HIDE DEF Task, Threads, Event, Reports, Kinds, Paths, Labels
<1>0. Main \in Threads /\ Root \in Dirs
  BY WalkAssumption DEF Threads
<1>1. ASSUME WalkReadFails PROVE Walks
  <2>1. Delivers(Main)
    BY <1>0, <1>1, IssueDelivers, PathFacts DEF WalkReadFails, Kinds
  <2>2. CallFields' /\ \E label \in {"walked", "walking"} : pc' = [pc EXCEPT ![Main] = label]
    BY <1>1, ReturnStep DEF WalkReadFails, CallFields
  <2> QED BY <1>0, <1>1, <2>1, <2>2 DEF WalkReadFails, EmitIssue, CallFields, counted, totals, loop, queue,
             consumer, Walking
<1>2. ASSUME WalkReadDir PROVE Walks
  BY <1>0, <1>2, EntriesAreKnown DEF WalkReadDir, Delivers, counters, counted, keys, totals, loop, queue,
     consumer, Walking
<1>3. ASSUME WalkReturn PROVE Walks
  <2>2. CallFields' /\ \E label \in {"walked", "walking"} : pc' = [pc EXCEPT ![Main] = label]
    BY <1>3, ReturnStep DEF WalkReturn, CallFields
  <2> QED BY <1>0, <1>3, <2>2 DEF WalkReturn, Delivers, CallFields, counters, counted, keys, totals, loop, queue,
             consumer, Walking
<1>4. ASSUME NEW e \in Dirs \cup Files, WalkEntryFails(e) PROVE Walks
  <2>1. Delivers(Main)
    BY <1>0, <1>4, IssueDelivers, PathFacts DEF WalkEntryFails, Kinds
  <2>2. pc' = [pc EXCEPT ![Main] = "walking"] /\ pc[Main] = "walking"
    BY <1>4 DEF WalkEntryFails, WalkEntry
  <2> QED BY <1>0, <1>4, <2>1, <2>2 DEF WalkEntryFails, WalkEntry, EmitIssue, counted, totals, loop, queue,
             consumer, Walking
<1>5. ASSUME NEW e \in Dirs \cup Files, WalkExclude(e) PROVE Walks
  <2>2. pc' = [pc EXCEPT ![Main] = "walking"] /\ pc[Main] = "walking"
    BY <1>5 DEF WalkExclude, WalkEntry
  <2> QED BY <1>0, <1>5, <2>2 DEF WalkExclude, WalkEntry, Delivers, counters, counted, keys, totals, loop, queue,
             consumer, Walking
<1>6. ASSUME NEW d \in Dirs, WalkDir(d) PROVE Walks
  <2>1. Delivers(Main)
    BY <1>0, <1>6, EventFacts, PathFacts DEF WalkDir, Delivers
  <2> QED BY <1>0, <1>6, <2>1, SMTT(60) DEF WalkDir, WalkEntry, keys, totals, loop, queue, consumer, Walking
<1>7. ASSUME NEW f \in Files, WalkFile(f) PROVE Walks
  <2>1. Delivers(Main)
    BY <1>0, <1>7, EventFacts, PathFacts DEF WalkFile, ChargeOf, Delivers
  <2>2. claimed' \subseteq Files
    <3>1. setup.identity[f] \in Files \cup {NoIdentity}
      BY DEF Setup
    <3> QED BY <1>7, <3>1 DEF WalkFile, Claim
  <2> QED BY <1>0, <1>7, <2>1, <2>2, SMTT(60) DEF WalkFile, WalkEntry, ChargeOf, totals, loop, queue, consumer, Walking
<1>8. ASSUME WalkProgress PROVE Walks
  <2>1. Delivers(Main)
    BY <1>0, <1>8, EventFacts DEF WalkProgress, Delivers
  <2>2. /\ last_reported' \in Nat /\ pc[Main] = "counted"
        /\ \E label \in {"walking", "descend"} : pc' = [pc EXCEPT ![Main] = label]
    <3>1. last_reported' \in {last_reported, files_seen + directories_seen}
      BY <1>8 DEF WalkProgress
    <3>2. \E label \in {"walking", "descend"} : pc' = [pc EXCEPT ![Main] = label]
      <4>1. CASE found[Main] = Root
        BY <1>8, <4>1 DEF WalkProgress
      <4>2. CASE found[Main] # Root
        BY <1>8, <4>2 DEF WalkProgress
      <4> QED BY <4>1, <4>2
    <3>3. pc[Main] = "counted"
      BY <1>8 DEF WalkProgress
    <3>4. last_reported \in Nat /\ files_seen \in Nat /\ directories_seen \in Nat
      OBVIOUS
    <3> HIDE DEF Fields, Walks, Goto
    <3>5. files_seen + directories_seen \in Nat
      BY <3>4
    <3>6. last_reported' \in Nat
      BY <3>1, <3>4, <3>5
    <3> QED BY <3>2, <3>3, <3>6
  <2>3. UNCHANGED <<queue, workers_started, counted, keys, cancelled, local, consumer>>
    BY <1>8 DEF WalkProgress
  <2>4. Fields'
    BY <2>2, <2>3 DEF counted, keys, local, place, totals, loop
  <2> QED BY <2>1, <2>2, <2>3, <2>4 DEF local, totals, Walking
<1>9. ASSUME WalkDescend PROVE Walks
  <2> DEFINE child == Child(dir[Main], found[Main])
             Call == [task : Task, todo : SUBSET (Dirs \cup Files)]
             call == [task |-> dir[Main], todo |-> todo[Main]]
  <2>1. child \in Task
    BY <1>0, <1>9, ChildIsTask DEF WalkDescend
  <2>2. call \in Call
    BY <1>0
  <2> HIDE DEF child, Call, call
  <2>3. callers' \in Seq(Call)
    BY <1>9, <2>2 DEF WalkDescend, call, Call
  <2>4. /\ dir' = [dir EXCEPT ![Main] = child] /\ todo' = [todo EXCEPT ![Main] = {}]
        /\ found' = [found EXCEPT ![Main] = Root] /\ pc' = [pc EXCEPT ![Main] = "walk"]
        /\ pc[Main] = "descend"
        /\ UNCHANGED <<queue, workers_started, counters, cancelled, fresh, totals, loop,
                       delivery, consumer>>
    BY <1>9 DEF WalkDescend, child
  <2>5. Fields'
    BY <1>0, <2>1, <2>3, <2>4 DEF Call, counters, counted, keys, totals, loop
  <2> QED BY <2>4, <2>5 DEF Delivers, totals, Walking
<1>10. ASSUME WalkPassBy PROVE Walks
  <2>1. Delivers(Main)
    BY <1>0, <1>10, IssueDelivers, PathFacts DEF WalkPassBy, Kinds, Delivers
  <2> QED BY <1>0, <1>10, <2>1 DEF WalkPassBy, EmitIssue, counted, totals, loop, queue, consumer, Walking
<1> QED BY <1>1, <1>2, <1>3, <1>4, <1>5, <1>6, <1>7, <1>8, <1>9, <1>10 DEF Walk

-----------------------------------------------------------------------------
(* Where the threads are.  Until the scan thread starts the workers it is  *)
(* alone; while it waits for them it holds nothing and does nothing; they  *)
(* are started in order and leave nothing behind when they end.            *)
Alone == Working \cup Walking \cup {"start", "chain"}
Idle == {"unborn", "done"}

Phases ==
  /\ pc[Main] \in Alone \cup {"join", "summary", "completed", "done"}
  /\ \A w \in Workers : pc[w] \in Working \cup Idle \cup {"look", "spawn", "take"}
  /\ \A w \in Workers : pc[w] = "unborn" <=> w > workers_started
  /\ pc[Main] \in Alone => workers_started = 0
  /\ pc[Main] # "join" => \A w \in Workers : pc[w] \in Idle

Held ==
  /\ \A t \in Threads : pc[t] = "emit" => pending[t] # <<>>
  /\ \A w \in Workers : pc[w] \in Idle => buffer[w] = <<>>
  /\ pc[Main] = "done" => buffer[Main] = <<>>
  /\ pc[Main] = "start" => channel = <<>>
  /\ pc[Main] = "chain" => outstanding = Len(tasks)

Shape == TypeOK /\ WireOK /\ Phases /\ Held

LEMMA ThreadFacts ==
  /\ Main \in Threads /\ Workers \subseteq Threads /\ Main \notin Workers /\ 1 \in Workers
  /\ Threads = {Main} \cup Workers /\ Workers \subseteq Nat
  /\ WorkerLimit \in Nat /\ WorkerLimit > 1
BY WalkAssumption DEF Threads, Workers, Main

(* A step of a thread that walks, whichever way. *)
Works(t) ==
  /\ \/ pc[t] \in Working /\ pc'[t] \in Working
     \/ t = Main /\ pc[t] \in Walking /\ pc'[t] \in Walking
  /\ pc' = [pc EXCEPT ![t] = pc'[t]]
  /\ pc'[t] = "emit" => pending'[t] # <<>>
  /\ \A s \in Threads \ {t} : pending'[s] = pending[s]
  /\ UNCHANGED <<queue, workers_started, cancelled, consumer>>
  /\ Fields' /\ Delivers(t)

LEMMA WorkStep ==
  ASSUME Shape, NEW t \in Threads, Process(t) \/ (Walk /\ t = Main)
  PROVE  Works(t)
<1>1. Fields /\ setup \in Setup /\ pc \in [Threads -> Labels] /\ (pc[t] = "emit" => pending[t] # <<>>)
  BY TypesAre DEF Shape, Held, Rest
<1> HIDE DEF Threads, Labels
<1>2. CASE Process(t)
  <2>1. Processes(t)
    BY <1>1, <1>2, ProcessStep
  <2> QED BY <1>1, <2>1 DEF Processes, Works
<1>3. CASE Walk /\ t = Main
  <2>1. Walks
    BY <1>1, <1>3, WalkStep
  <2> QED BY <1>1, <1>3, <2>1 DEF Walks, Works, Walking
<1> QED BY <1>2, <1>3

LEMMA WorkKeepsShape ==
  ASSUME Shape, NEW t \in Threads, Works(t)
  PROVE  Shape'
<1>1. /\ Fields' /\ Delivers(t)
      /\ UNCHANGED <<tasks, outstanding, waiting, workers_started, cancelled, setup, alive, received>>
  BY DEF Works, queue, consumer
<1>2. WireOK' /\ \A s \in Threads \ {t} : buffer'[s] = buffer[s]
  BY <1>1, DeliverTypes DEF Shape
<1>3. Rest
  BY TypesAre DEF Shape
<1>4. pc' \in [Threads -> Labels] /\ \A s \in Threads \ {t} : pc'[s] = pc[s]
  <2>1. pc'[t] \in Labels
    BY DEF Works, Labels, Working, Walking
  <2> HIDE DEF Labels, Threads
  <2> QED BY <1>3, <2>1 DEF Works, Rest
<1>5. TypeOK'
  <2>1. Len(channel)' <= Capacity
    BY <1>2 DEF WireOK
  <2> QED BY <1>1, <1>3, <1>4, <2>1, TypesAre DEF Rest
<1>6. \/ pc[t] \in Working /\ pc'[t] \in Working
      \/ t = Main /\ pc[t] \in Walking /\ pc'[t] \in Walking
  BY DEF Works
<1> HIDE DEF Threads, Workers, Main
<1>7. Phases'
  BY <1>1, <1>4, <1>6, ThreadFacts DEF Shape, Phases, Alone, Idle, Working, Walking
<1>8. Held'
  <2>1. \A s \in Threads : pc'[s] = "emit" => pending'[s] # <<>>
    BY <1>4 DEF Works, Shape, Held
  <2>2. t \in Workers => pc[Main] = "join" /\ pc'[Main] = "join"
    BY <1>4, <1>6, ThreadFacts DEF Shape, Phases, Idle, Working
  <2>3. \A w \in Workers : pc'[w] \in Idle => buffer'[w] = <<>>
    BY <1>2, <1>4, <1>6, ThreadFacts DEF Shape, Held, Idle, Working, Walking
  <2>4. t = Main => pc'[Main] \notin {"done", "start", "chain"}
    BY <1>6 DEF Working, Walking
  <2> QED BY <2>1, <2>2, <2>3, <2>4, ThreadFacts DEF Held
<1> QED BY <1>2, <1>5, <1>7, <1>8 DEF Shape

(* An event that forces goes out at once, with all its thread holds. *)
LEMMA ForcedTypes ==
  ASSUME WireOK, NEW t \in Threads, NEW e \in Event, Forces(e), Emit(t, e), UNCHANGED received
  PROVE  /\ WireOK' /\ buffer' = [buffer EXCEPT ![t] = <<>>]
         /\ Send(Append(buffer[t], e))
<1> DEFINE batch == Append(buffer[t], e)
<1>1. Send(batch) /\ buffer' = [buffer EXCEPT ![t] = <<>>]
  BY DEF Emit, batch
<1>2. batch \in Seq(Event)
  <2>1. buffer[t] \in Seq(Reports)
    BY DEF WireOK
  <2> HIDE DEF Reports, Event
  <2> QED BY <2>1, EventFacts
<1> HIDE DEF batch, Reports, Event, Threads
<1>3. channel' \in Seq(Seq(Event)) /\ Len(channel') <= Capacity
  BY <1>1, <1>2, SendTypes DEF WireOK
<1>4. WireOK'
  BY <1>1, <1>3 DEF WireOK
<1> QED BY <1>1, <1>4 DEF batch

LEMMA StartSends ==
  ASSUME StartScan \/ StartInvalid
  PROVE  \E batch \in Seq(Reports) : channel' = channel \/ channel' = Append(channel, batch)
<1> DEFINE a1 == <<"started">>
           a2 == <<"dir", <<Root>>>>
           a3 == <<"progress", 1>>
           b2 == <<"issue", "root", <<Root>>>>
           b3 == <<"summary", 0, 0, 0>>
<1>1. <<Root>> \in Paths /\ "root" \in Kinds
  BY WalkAssumption DEF Paths, Kinds
<1> HIDE DEF Reports
<1>2. a1 \in Reports /\ a2 \in Reports /\ a3 \in Reports /\ b2 \in Reports /\ b3 \in Reports
  BY <1>1, EventFacts
<1>3. channel' = channel \/ channel' = Append(channel, <<a1, a2, a3>>)
        \/ channel' = Append(channel, <<a1, b2, b3>>)
  BY DEF StartScan, StartInvalid
<1> HIDE DEF a1, a2, a3, b2, b3
<1>4. <<a1, a2, a3>> \in Seq(Reports) /\ <<a1, b2, b3>> \in Seq(Reports)
  BY <1>2
<1> QED BY <1>3, <1>4

LEMMA StartKeepsShape ==
  ASSUME Shape, StartScan \/ StartInvalid
  PROVE  Shape'
<1> HIDE DEF Threads, Workers, Main, Event, Reports, Task, Labels
<1>1. Fields /\ Rest /\ WireOK /\ channel = <<>> /\ pc[Main] = "start"
  BY TypesAre DEF Shape, Held, StartScan, StartInvalid
<1>2. Capacity \in Nat \ {0}
  BY WalkAssumption
<1>3. UNCHANGED <<buffer, pending, workers_started, waiting, cancelled, consumer>>
  BY DEF StartScan, StartInvalid, local, totals, queue
<1>4. channel' \in Seq(Seq(Event)) /\ Len(channel') <= Capacity
  <2> DEFINE B == Seq(Event)
  <2>2. \E batch \in B : channel' = channel \/ channel' = Append(channel, batch)
    <3>1. Seq(Reports) \subseteq Seq(Event)
      BY EventFacts
    <3> QED BY <3>1, StartSends
  <2>3. channel \in Seq(B)
    BY <1>1 DEF WireOK
  <2> HIDE DEF B
  <2>4. channel' \in Seq(B) /\ Len(channel') <= Capacity
    <3>1. PICK batch \in B : channel' = channel \/ channel' = Append(channel, batch)
      BY <2>2
    <3>2. Append(channel, batch) \in Seq(B) /\ Len(Append(channel, batch)) = 1 /\ Len(channel) = 0
      BY <1>1, <2>3
    <3>4. Capacity >= 1 /\ Capacity \in Nat
      BY <1>2
    <3>5. CASE channel' = channel
      BY <2>3, <3>2, <3>4, <3>5
    <3>6. CASE channel' = Append(channel, batch)
      BY <3>2, <3>4, <3>6
    <3> QED BY <3>1, <3>5, <3>6
  <2> QED BY <2>4 DEF B
<1>5. WireOK'
  BY <1>1, <1>3, <1>4 DEF WireOK, consumer
<1>6. CASE StartScan
  <2>1. /\ directories_seen' = 1
        /\ UNCHANGED <<waiting, workers_started, files_seen, total_allocation, last_reported, keys,
                 cancelled, todo, fresh, found, callers, totals, loop, buffer, consumer>>
    BY <1>6 DEF StartScan
  <2>2. \/ /\ tasks' = <<RootTask>> /\ outstanding' = 1 /\ UNCHANGED dir
           /\ pc' = [pc EXCEPT ![Main] = "chain"]
        \/ /\ dir' = [dir EXCEPT ![Main] = RootTask] /\ UNCHANGED <<tasks, outstanding>>
           /\ pc' = [pc EXCEPT ![Main] = "walk"]
    BY <1>6 DEF StartScan, Goto
  <2>3. Fields'
    <3>1. dir' \in [Threads -> Task] /\ directories_seen' \in Nat
      BY <1>1, <2>1, <2>2, RootIsTask, ZenonT(60) DEF Fields
    <3> QED BY <1>1, <2>1, <3>1 DEF Fields, keys, totals, loop
  <2>4. \E label \in {"chain", "walk"} : pc' = [pc EXCEPT ![Main] = label]
    BY <2>2
  <2>5. pc' \in [Threads -> Labels] /\ tasks' \in Seq(Task) /\ outstanding' \in Nat
    <3>1. "chain" \in Labels /\ "walk" \in Labels
      BY DEF Labels
    <3>2. <<RootTask>> \in Seq(Task)
      BY RootIsTask
    <3>3. pc' \in [Threads -> Labels]
      BY <1>1, <2>4, <3>1 DEF Rest
    <3>4. (tasks' = tasks /\ outstanding' = outstanding) \/ (tasks' = <<RootTask>> /\ outstanding' = 1)
      BY <2>2
    <3>5. tasks \in Seq(Task) /\ outstanding \in Nat
      BY <1>1 DEF Rest
    <3>6. tasks' \in Seq(Task)
      BY <3>2, <3>4, <3>5
    <3>7. outstanding' \in Nat
      BY <3>4, <3>5
    <3> QED BY <3>3, <3>6, <3>7
  <2>6. TypeOK'
    BY <1>1, <1>4, <2>1, <2>3, <2>5, TypesAre DEF Rest, consumer
  <2>7. Phases'
    <3>1. \A w \in Workers : pc'[w] = pc[w]
      BY <1>1, <2>4, ThreadFacts DEF Rest
    <3>2. pc'[Main] \in {"chain", "walk"}
      BY <1>1, <2>4, ThreadFacts DEF Rest
    <3> QED BY <1>1, <2>1, <3>1, <3>2 DEF Shape, Phases, Alone, Idle, Walking, Working
  <2>8. pc'[Main] = "chain" => outstanding' = Len(tasks')
    BY <1>1, <2>2, ThreadFacts DEF Rest
  <2>9. Held'
    BY <1>1, <2>1, <2>4, <2>8, ThreadFacts DEF Shape, Rest, Held, Idle, totals
  <2> QED BY <1>5, <2>6, <2>7, <2>9 DEF Shape
<1>7. CASE StartInvalid
  <2>1. /\ pc' = [pc EXCEPT ![Main] = "completed"]
        /\ UNCHANGED <<queue, workers_started, counters, cancelled, local, buffer, consumer>>
    BY <1>7 DEF StartInvalid, Goto
  <2>2. Fields'
    BY <1>1, <2>1 DEF Fields, counters, counted, keys, local, place, totals, loop
  <2>3. pc' \in [Threads -> Labels]
    BY <1>1, <2>1, ThreadFacts DEF Rest, Labels
  <2>4. TypeOK'
    BY <1>1, <1>4, <2>1, <2>2, <2>3, TypesAre DEF Rest, queue, consumer
  <2>5. Phases'
    BY <1>1, <2>1, ThreadFacts DEF Shape, Rest, Phases, Alone, Idle, Walking, Working
  <2>6. Held'
    BY <1>1, <2>1, ThreadFacts DEF Shape, Rest, Held, Idle, local, totals
  <2> QED BY <1>5, <2>4, <2>5, <2>6 DEF Shape
<1> QED BY <1>6, <1>7

(* A step of one thread changes its label only. *)
LEMMA LabelStep ==
  ASSUME pc \in [Threads -> Labels], NEW t \in Threads, NEW label \in Labels,
         pc' = [pc EXCEPT ![t] = label]
  PROVE  pc' \in [Threads -> Labels] /\ pc'[t] = label /\ \A s \in Threads \ {t} : pc'[s] = pc[s]
<1> HIDE DEF Labels, Threads
<1> QED OBVIOUS

LEMMA OpenStep ==
  ASSUME Fields, pc \in [Threads -> Labels], NEW t \in Threads, NEW task \in Task, Open(t, task),
         UNCHANGED <<counters, found, callers, totals, loop>>
  PROVE  /\ Fields' /\ pc' \in [Threads -> Labels] /\ pc'[t] \in {"open", "complete"}
         /\ \A s \in Threads \ {t} : pc'[s] = pc[s]
<1> HIDE DEF Labels, Threads, Task
<1>1. \E label \in {"open", "complete"} : pc' = [pc EXCEPT ![t] = label]
  BY DEF Open, Goto
<1>2. "open" \in Labels /\ "complete" \in Labels
  BY DEF Labels, Working
<1>3. /\ pc' \in [Threads -> Labels] /\ pc'[t] \in {"open", "complete"}
      /\ \A s \in Threads \ {t} : pc'[s] = pc[s]
  BY <1>1, <1>2, LabelStep
<1>4. /\ dir' \in [Threads -> Task] /\ fresh' \in [Threads -> Seq(Task)]
      /\ todo' \in [Threads -> SUBSET (Dirs \cup Files)]
  BY DEF Open, Fields
<1>5. Fields'
  BY <1>4 DEF Fields, counters, counted, keys, totals, loop
<1> QED BY <1>3, <1>5

LEMMA ChainKeepsShape ==
  ASSUME Shape, ChainTake \/ ChainComplete \/ Branch
  PROVE  Shape'
<1> HIDE DEF Threads, Workers, Main, Event, Reports, Task, Labels
<1>1. Fields /\ Rest /\ WireOK /\ Phases /\ Held
  BY TypesAre DEF Shape
<1>2. pc \in [Threads -> Labels] /\ tasks \in Seq(Task) /\ Main \in Threads /\ fresh[Main] \in Seq(Task)
  BY <1>1, ThreadFacts DEF Rest, Fields
<1>3. CASE ChainTake
  <2>1. Len(tasks) = 1 /\ pc[Main] = "chain" /\ Open(Main, tasks[1]) /\ tasks' = <<>>
        /\ UNCHANGED <<outstanding, waiting, workers_started, counters, cancelled,
                       found, callers, totals, loop, delivery, consumer>>
    BY <1>3 DEF ChainTake
  <2>2. tasks[1] \in Task
    <3>1. 1 \in 1..Len(tasks)
      BY <2>1
    <3> QED BY <1>2, <3>1, ElementOf
  <2>3. /\ Fields' /\ pc' \in [Threads -> Labels] /\ pc'[Main] \in {"open", "complete"}
        /\ \A s \in Threads \ {Main} : pc'[s] = pc[s]
    BY <1>1, <1>2, <2>1, <2>2, OpenStep
  <2>4. /\ <<>> \in Seq(Task)
        /\ UNCHANGED <<outstanding, waiting, workers_started, cancelled, pending, buffer, channel,
                       setup, alive, received>>
    BY <2>1 DEF totals, delivery, consumer
  <2>5. TypeOK'
    BY <1>1, <2>1, <2>3, <2>4, TypesAre DEF Rest
  <2>6. WireOK'
    BY <1>1, <2>4 DEF WireOK
  <2>7. Phases'
    BY <1>1, <2>1, <2>3, <2>4, ThreadFacts DEF Phases, Alone, Idle, Working
  <2>8. Held'
    BY <1>1, <2>3, <2>4, ThreadFacts DEF Held
  <2> QED BY <2>5, <2>6, <2>7, <2>8 DEF Shape
<1>4. CASE ChainComplete
  <2>1. /\ pc[Main] = "complete" /\ pc' = [pc EXCEPT ![Main] = "chain"]
        /\ tasks' = tasks \o fresh[Main] /\ outstanding' = Len(tasks')
        /\ UNCHANGED <<waiting, workers_started, counters, cancelled, local, delivery, consumer>>
    BY <1>4 DEF ChainComplete, Goto
  <2>2. tasks' \in Seq(Task) /\ outstanding' \in Nat
    <3>1. tasks \o fresh[Main] \in Seq(Task)
      BY <1>2
    <3>2. tasks' \in Seq(Task)
      BY <2>1, <3>1
    <3> QED BY <2>1, <3>2
  <2>3. /\ pc' \in [Threads -> Labels] /\ pc'[Main] = "chain"
        /\ \A s \in Threads \ {Main} : pc'[s] = pc[s]
    <3>1. "chain" \in Labels
      BY DEF Labels
    <3> QED BY <1>2, <2>1, <3>1, LabelStep
  <2>4. /\ Fields'
        /\ UNCHANGED <<waiting, workers_started, cancelled, pending, buffer, channel,
                       setup, alive, received>>
    BY <1>1, <2>1 DEF Fields, counters, counted, keys, local, place, totals, loop, delivery, consumer
  <2>5. TypeOK'
    BY <1>1, <2>2, <2>3, <2>4, TypesAre DEF Rest
  <2>6. WireOK'
    BY <1>1, <2>4 DEF WireOK
  <2>7. Phases'
    BY <1>1, <2>1, <2>3, <2>4, ThreadFacts DEF Phases, Alone, Idle, Working
  <2>8. Held'
    BY <1>1, <2>1, <2>3, <2>4, ThreadFacts DEF Held
  <2> QED BY <2>5, <2>6, <2>7, <2>8 DEF Shape
<1>5. CASE Branch
  <2>1. /\ pc[Main] = "chain" /\ Len(tasks) > 1 /\ Flush(Main) /\ workers_started' = 1
        /\ pc' = [pc EXCEPT ![Main] = "join", ![1] = "look"]
        /\ UNCHANGED <<queue, counters, cancelled, local, consumer>>
    BY <1>5 DEF Branch
  <2>2. /\ Fields'
        /\ UNCHANGED <<tasks, outstanding, waiting, cancelled, pending, setup, alive, received>>
    BY <1>1, <2>1 DEF Fields, counters, counted, keys, local, place, totals, loop, queue, consumer
  <2>3. "join" \in Labels /\ "look" \in Labels
    BY DEF Labels
  <2>4. /\ pc' \in [Threads -> Labels] /\ pc'[Main] = "join" /\ pc'[1] = "look"
        /\ \A s \in Threads \ {Main, 1} : pc'[s] = pc[s]
    BY <1>2, <2>1, <2>3, ThreadFacts
  <2>5. WireOK' /\ \A s \in Threads \ {Main} : buffer'[s] = buffer[s]
    BY <1>1, <1>2, <2>1, <2>2, FlushTypes
  <2>6. TypeOK'
    BY <1>1, <2>1, <2>2, <2>4, <2>5, TypesAre, ThreadFacts, SMTT(60) DEF Rest, WireOK
  <2>7. Phases'
    <3>1. \A w \in Workers : (w > 1) <=> (w # 1)
      BY DEF Workers
    <3>2. workers_started = 0 /\ \A w \in Workers : w > 0 /\ pc[w] \in Idle /\ pc[w] = "unborn"
      BY <1>1, <2>1 DEF Phases, Alone, Workers
    <3> QED BY <1>1, <2>1, <2>4, <3>1, <3>2, ThreadFacts DEF Phases, Alone, Idle, Working, Walking
  <2>8. Held'
    BY <1>1, <2>2, <2>4, <2>5, ThreadFacts DEF Held, Idle
  <2> QED BY <2>5, <2>6, <2>7, <2>8 DEF Shape
<1> QED BY <1>3, <1>4, <1>5

LEMMA EndKeepsShape ==
  ASSUME Shape, EndCancelled \/ EndProgress \/ EmitSummary \/ EmitCompleted
  PROVE  /\ Shape'
         /\ \E e \in Event : Send(Append(buffer[Main], e)) /\ (Ends(e) => pc'[Main] = "done")
         /\ buffer' = [buffer EXCEPT ![Main] = <<>>] /\ UNCHANGED received
         /\ pc'[Main] \in {"summary", "completed", "done"}
         /\ \A w \in Workers : pc[w] \in Idle
<1> HIDE DEF Threads, Workers, Main, Event, Reports, Task, Labels
<1>1. Fields /\ Rest /\ WireOK /\ Phases /\ Held
  BY TypesAre DEF Shape
<1>2. pc \in [Threads -> Labels] /\ Main \in Threads
  BY <1>1, ThreadFacts DEF Rest
<1>3. /\ UNCHANGED <<queue, workers_started, counters, cancelled, local, consumer>>
      /\ \E label \in {"summary", "completed", "done"} : pc' = [pc EXCEPT ![Main] = label]
  BY DEF EndCancelled, EndProgress, EmitSummary, EmitCompleted, Goto
<1>4. \A w \in Workers : pc[w] \in Idle
  BY <1>1 DEF EndCancelled, EndProgress, EmitSummary, EmitCompleted, WalkOver, Phases, Idle
<1>5. /\ Fields'
      /\ UNCHANGED <<tasks, outstanding, waiting, workers_started, cancelled, pending, setup, alive,
                     received>>
  BY <1>1, <1>3 DEF Fields, counters, counted, keys, local, place, totals, loop, queue, consumer
<1>6. /\ pc' \in [Threads -> Labels] /\ pc'[Main] \in {"summary", "completed", "done"}
      /\ \A s \in Threads \ {Main} : pc'[s] = pc[s]
  <2>1. {"summary", "completed", "done"} \subseteq Labels
    BY DEF Labels
  <2> QED BY <1>2, <1>3, <2>1, LabelStep
<1>7. \E e \in Event : Forces(e) /\ Emit(Main, e) /\ (Ends(e) => pc'[Main] = "done")
  <2>1. CASE EndCancelled
    BY <1>2, <2>1, EventFacts DEF EndCancelled, Goto
  <2>2. CASE EndProgress
    <3>1. files_seen + directories_seen \in Nat
      BY <1>1 DEF Fields
    <3> DEFINE n == files_seen + directories_seen
    <3>2. Emit(Main, <<"progress", n>>)
      BY <2>2 DEF EndProgress
    <3>3. <<"progress", n>> \in Event /\ ~Ends(<<"progress", n>>)
      BY <3>1, EventFacts
    <3>4. Forces(<<"progress", n>>)
      BY DEF Forces
    <3> HIDE DEF n
    <3> QED BY <3>2, <3>3, <3>4
  <2>3. CASE EmitSummary
    <3> DEFINE e == <<"summary", files_seen, directories_seen, total_allocation>>
    <3>1. e \in Event /\ ~Ends(e)
      BY <1>1, EventFacts DEF Fields
    <3>2. Forces(e)
      BY DEF Forces
    <3>3. Emit(Main, e)
      BY <2>3 DEF EmitSummary
    <3> HIDE DEF e
    <3> QED BY <3>1, <3>2, <3>3
  <2>4. CASE EmitCompleted
    BY <1>2, <2>4, EventFacts DEF EmitCompleted, Goto
  <2> QED BY <2>1, <2>2, <2>3, <2>4
<1>8. /\ WireOK' /\ buffer' = [buffer EXCEPT ![Main] = <<>>]
      /\ \E e \in Event : Send(Append(buffer[Main], e)) /\ (Ends(e) => pc'[Main] = "done")
  BY <1>1, <1>2, <1>5, <1>7, ForcedTypes
<1>9. TypeOK'
  BY <1>1, <1>5, <1>6, <1>8, TypesAre DEF Rest, WireOK
<1>10. Phases'
  BY <1>1, <1>4, <1>5, <1>6, ThreadFacts DEF Phases, Alone, Idle, Working, Walking
<1>11. \A t \in Threads : buffer'[t] = IF t = Main THEN <<>> ELSE buffer[t]
  BY <1>1, <1>8 DEF WireOK
<1>12. Held'
  BY <1>1, <1>5, <1>6, <1>11, ThreadFacts DEF Held, Idle
<1> QED BY <1>4, <1>5, <1>6, <1>8, <1>9, <1>10, <1>12 DEF Shape

-----------------------------------------------------------------------------
(* The workers, whose queue must also be counted exactly. *)

Busy == {w \in Workers : pc[w] \in Working}

LEMMA BusyFacts == IsFiniteSet(Busy) /\ Cardinality(Busy) \in Nat /\ Busy \subseteq Workers
<1>1. IsFiniteSet(Workers)
  BY ThreadFacts, FS_Interval DEF Workers
<1> QED BY <1>1, FS_Subset, FS_CardinalityType DEF Busy

(* The steps of a worker that is not at a task. *)
Queues(t) == Look(t) \/ Spawn(t) \/ Spawned(t) \/ Wait(t) \/ Leave(t) \/ SpuriousWake(t)

LEMMA QueuesKeepShape ==
  ASSUME Shape, NEW t \in Workers, Queues(t)
  PROVE  /\ Shape'
         /\ UNCHANGED <<tasks, outstanding, received>>
         /\ Flush(t) \/ UNCHANGED delivery
         /\ pc[Main] = "join" => pc'[Main] = "join"
         /\ pc[Main] # "join" => pc' = pc
         /\ Busy' = Busy
<1> HIDE DEF Threads, Workers, Main, Event, Reports, Task, Labels
<1>1. Fields /\ Rest /\ WireOK /\ Phases /\ Held
  BY TypesAre DEF Shape
<1>2. pc \in [Threads -> Labels] /\ t \in Threads /\ t # Main
  BY <1>1, ThreadFacts DEF Rest
<1>3. {"spawn", "look", "take", "done"} \subseteq Labels
  BY DEF Labels
<1>4. CASE Look(t)
  <2>1. /\ pc[t] = "look" /\ pc' = [pc EXCEPT ![t] = "spawn"]
        /\ UNCHANGED <<queue, workers_started, counters, cancelled, place, totals,
                       items, ret, delivery, consumer>>
    BY <1>4 DEF Look, Goto
  <2>2. want' \in [Threads -> 0..WorkerLimit]
    <3> DEFINE n == IF outstanding < WorkerLimit
                    THEN IF outstanding = 0 THEN 1 ELSE outstanding ELSE WorkerLimit
    <3>1. n \in 0..WorkerLimit
      BY <1>1, ThreadFacts DEF Rest
    <3>2. want' = [want EXCEPT ![t] = n]
      BY <1>4 DEF Look
    <3> HIDE DEF n
    <3> QED BY <1>1, <3>1, <3>2 DEF Fields
  <2>3. pc' \in [Threads -> Labels] /\ pc'[t] = "spawn" /\ \A s \in Threads \ {t} : pc'[s] = pc[s]
    BY <1>2, <1>3, <2>1, LabelStep
  <2>4. /\ Fields'
        /\ UNCHANGED <<tasks, outstanding, waiting, workers_started, cancelled, pending, setup, alive,
                       received, buffer, channel>>
    BY <1>1, <2>1, <2>2 DEF Fields, counters, counted, keys, place, totals, queue, delivery, consumer
  <2>5. TypeOK'
    BY <1>1, <2>3, <2>4, TypesAre DEF Rest
  <2>6. WireOK'
    BY <1>1, <2>4 DEF WireOK
  <2>7. Phases'
    BY <1>1, <1>2, <2>1, <2>3, <2>4, ThreadFacts DEF Phases, Alone, Idle, Working, Walking
  <2>8. Held'
    BY <1>1, <1>2, <2>1, <2>3, <2>4, ThreadFacts DEF Held, Idle
  <2>9. Busy' = Busy
    BY <1>2, <2>1, <2>3, ThreadFacts DEF Busy, Working
  <2>10. pc[Main] # "join" => pc' = pc
    BY <1>1, <2>1 DEF Phases, Idle
  <2>11. pc'[Main] = pc[Main]
    BY <1>2, <2>3, ThreadFacts
  <2> QED BY <2>4, <2>5, <2>6, <2>7, <2>8, <2>9, <2>10, <2>11 DEF Shape, delivery
<1>5. CASE Spawn(t)
  <2> DEFINE n == workers_started + 1
  <2>1. /\ pc[t] = "spawn" /\ workers_started < want[t] /\ workers_started' = n
        /\ pc' = [pc EXCEPT ![n] = "look"]
        /\ UNCHANGED <<queue, counters, cancelled, local, delivery, consumer>>
    BY <1>5 DEF Spawn, Goto
  <2>2. /\ n \in Workers /\ n \in Threads /\ n # Main /\ n \in 0..WorkerLimit
        /\ \A w \in Workers : (w > n) <=> (w > workers_started /\ w # n)
    <3>1. workers_started \in Nat /\ want[t] \in 0..WorkerLimit
      BY <1>1, <1>2, ThreadFacts DEF Rest, Fields
    <3>2. n \in Workers /\ n \in 0..WorkerLimit
      BY <2>1, <3>1, ThreadFacts DEF Workers
    <3> QED BY <3>1, <3>2, ThreadFacts
  <2>3. pc[n] = "unborn"
    <3>1. n > workers_started
      BY <1>1, ThreadFacts DEF Rest
    <3> QED BY <1>1, <2>2, <3>1 DEF Phases
  <2> HIDE DEF n
  <2>4. pc' \in [Threads -> Labels] /\ pc'[n] = "look" /\ \A s \in Threads \ {n} : pc'[s] = pc[s]
    BY <1>2, <1>3, <2>1, <2>2, LabelStep
  <2>5. /\ Fields'
        /\ UNCHANGED <<tasks, outstanding, waiting, cancelled, pending, setup, alive,
                       received, buffer, channel>>
    BY <1>1, <2>1 DEF Fields, counters, counted, keys, local, loop, place, totals, queue, delivery, consumer
  <2>6. TypeOK'
    BY <1>1, <2>1, <2>2, <2>4, <2>5, TypesAre DEF Rest
  <2>7. WireOK'
    BY <1>1, <2>5 DEF WireOK
  <2>8. pc[Main] = "join"
    BY <1>1, <1>2, <2>1 DEF Phases, Idle
  <2>9. Phases'
    BY <1>1, <1>2, <2>1, <2>2, <2>3, <2>4, <2>8, ThreadFacts DEF Phases, Alone, Idle, Working, Walking
  <2>10. Held'
    BY <1>1, <1>2, <2>1, <2>2, <2>4, <2>5, <2>8, ThreadFacts DEF Held, Idle
  <2>11. Busy' = Busy
    BY <1>2, <2>2, <2>3, <2>4, ThreadFacts DEF Busy, Working
  <2> QED BY <2>2, <2>4, <2>5, <2>6, <2>7, <2>8, <2>9, <2>10, <2>11, ThreadFacts DEF Shape, delivery
<1>6. CASE Spawned(t)
  <2>1. /\ pc[t] = "spawn" /\ pc' = [pc EXCEPT ![t] = "take"]
        /\ UNCHANGED <<queue, workers_started, counters, cancelled, local, delivery, consumer>>
    BY <1>6 DEF Spawned, Goto
  <2>2. pc' \in [Threads -> Labels] /\ pc'[t] = "take" /\ \A s \in Threads \ {t} : pc'[s] = pc[s]
    BY <1>2, <1>3, <2>1, LabelStep
  <2>3. /\ Fields'
        /\ UNCHANGED <<tasks, outstanding, waiting, workers_started, cancelled, pending, setup, alive,
                       received, buffer, channel>>
    BY <1>1, <2>1 DEF Fields, counters, counted, keys, local, loop, place, totals, queue, delivery, consumer
  <2>4. TypeOK' /\ WireOK'
    BY <1>1, <2>2, <2>3, TypesAre DEF Rest, WireOK
  <2>5. pc[Main] = "join"
    BY <1>1, <1>2, <2>1 DEF Phases, Idle
  <2>6. Phases'
    BY <1>1, <1>2, <2>1, <2>2, <2>3, ThreadFacts DEF Phases, Alone, Idle, Working, Walking
  <2>7. Held'
    BY <1>1, <1>2, <2>1, <2>2, <2>3, ThreadFacts DEF Held, Idle
  <2>8. Busy' = Busy
    BY <1>2, <2>1, <2>2, ThreadFacts DEF Busy, Working
  <2> QED BY <1>2, <2>2, <2>3, <2>4, <2>5, <2>6, <2>7, <2>8, ThreadFacts DEF Shape, delivery
<1>7. CASE Wait(t) \/ SpuriousWake(t)
  <2>1. /\ waiting' = waiting \cup {t} \/ waiting' = waiting \ {t}
        /\ UNCHANGED <<tasks, outstanding, workers_started, counters, cancelled, pc,
                       local, delivery, consumer>>
    BY <1>7 DEF Wait, SpuriousWake
  <2>2. /\ Fields' /\ waiting' \subseteq Workers
        /\ UNCHANGED <<tasks, outstanding, workers_started, cancelled, pending, setup, alive,
                       received, buffer, channel, pc>>
    BY <1>1, <2>1 DEF Fields, Rest, counters, counted, keys, local, loop, place, totals, delivery, consumer
  <2>3. TypeOK' /\ WireOK' /\ Phases' /\ Held'
    BY <1>1, <2>2, TypesAre DEF Rest, WireOK, Phases, Held
  <2>4. Busy' = Busy
    BY <2>2 DEF Busy
  <2> QED BY <2>2, <2>3, <2>4 DEF Shape, delivery
<1>8. CASE Leave(t)
  <2>1. /\ pc[t] = "take" /\ Flush(t) /\ pc' = [pc EXCEPT ![t] = "done"]
        /\ UNCHANGED <<queue, workers_started, counters, cancelled, local, consumer>>
    BY <1>8 DEF Leave, Goto
  <2>2. pc' \in [Threads -> Labels] /\ pc'[t] = "done" /\ \A s \in Threads \ {t} : pc'[s] = pc[s]
    BY <1>2, <1>3, <2>1, LabelStep
  <2>3. /\ Fields'
        /\ UNCHANGED <<tasks, outstanding, waiting, workers_started, cancelled, pending, setup, alive,
                       received>>
    BY <1>1, <2>1 DEF Fields, counters, counted, keys, local, loop, place, totals, queue, consumer
  <2>4. WireOK' /\ buffer'[t] = <<>> /\ \A s \in Threads \ {t} : buffer'[s] = buffer[s]
    BY <1>1, <1>2, <2>1, <2>3, FlushTypes
  <2>5. TypeOK'
    BY <1>1, <2>2, <2>3, <2>4, TypesAre DEF Rest, WireOK
  <2>6. pc[Main] = "join"
    BY <1>1, <1>2, <2>1 DEF Phases, Idle
  <2>7. Phases'
    BY <1>1, <1>2, <2>1, <2>2, <2>3, ThreadFacts DEF Phases, Alone, Idle, Working, Walking
  <2>8. Held'
    BY <1>1, <1>2, <2>1, <2>2, <2>3, <2>4, <2>6, ThreadFacts DEF Held, Idle
  <2>9. Busy' = Busy
    BY <1>2, <2>1, <2>2, ThreadFacts DEF Busy, Working
  <2> QED BY <1>2, <2>1, <2>2, <2>3, <2>4, <2>5, <2>6, <2>7, <2>8, <2>9, ThreadFacts DEF Shape
<1> QED BY <1>4, <1>5, <1>6, <1>7, <1>8 DEF Queues

(* A task moves from the stack to the hands of a worker. *)
LEMMA TakeKeepsShape ==
  ASSUME Shape, NEW t \in Workers, Take(t)
  PROVE  /\ Shape'
         /\ UNCHANGED <<outstanding, waiting, received, delivery>>
         /\ t \notin Busy /\ Busy' = Busy \cup {t}
         /\ tasks # <<>> /\ Len(tasks') = Len(tasks) - 1
         /\ pc[Main] = "join" /\ pc'[Main] = "join"
<1> HIDE DEF Threads, Workers, Main, Event, Reports, Task, Labels
<1>1. Fields /\ Rest /\ WireOK /\ Phases /\ Held
  BY TypesAre DEF Shape
<1>2. pc \in [Threads -> Labels] /\ t \in Threads /\ t # Main
  BY <1>1, ThreadFacts DEF Rest
<1>3. tasks \in Seq(Task) /\ tasks # <<>>
  BY <1>1 DEF Take, Rest
<1>4. Last(tasks) \in Task /\ tasks' \in Seq(Task) /\ Len(tasks') = Len(tasks) - 1
  <2>1. tasks' = SubSeq(tasks, 1, Len(tasks) - 1)
    BY DEF Take, Front
  <2>2. Len(tasks) \in 1..Len(tasks)
    BY <1>3
  <2>3. Last(tasks) \in Task
    BY <1>3, <2>2, ElementOf DEF Last
  <2>4. Len(tasks) \in Nat /\ Len(tasks) > 0
    BY <1>3
  <2>5. SubSeq(tasks, 1, Len(tasks) - 1) \in Seq(Task)
    <3>1. \A i \in 1..(Len(tasks) - 1) : tasks[i] \in Task
      BY <1>3, <2>4, ElementOf
    <3> QED BY <1>3, <2>4, <3>1
  <2>6. Len(SubSeq(tasks, 1, Len(tasks) - 1)) = Len(tasks) - 1
    <3> DEFINE n == Len(tasks) - 1
    <3>1. n \in Nat
      BY <2>4
    <3> HIDE DEF n
    <3>2. Len(SubSeq(tasks, 1, n)) = n
      BY <3>1
    <3> QED BY <3>2 DEF n
  <2> QED BY <2>1, <2>3, <2>5, <2>6
<1>5. /\ pc[t] = "take" /\ Open(t, Last(tasks))
      /\ UNCHANGED <<outstanding, waiting, workers_started, counters, cancelled,
                     found, callers, totals, loop, delivery, consumer>>
  BY DEF Take
<1>6. /\ Fields' /\ pc' \in [Threads -> Labels] /\ pc'[t] \in {"open", "complete"}
      /\ \A s \in Threads \ {t} : pc'[s] = pc[s]
  BY <1>1, <1>2, <1>4, <1>5, OpenStep
<1>7. UNCHANGED <<outstanding, waiting, workers_started, cancelled, pending, buffer, channel,
                  setup, alive, received>>
  BY <1>5 DEF totals, delivery, consumer
<1>8. TypeOK'
  BY <1>1, <1>4, <1>6, <1>7, TypesAre DEF Rest
<1>9. WireOK'
  BY <1>1, <1>7 DEF WireOK
<1>10. pc[Main] = "join" /\ pc'[Main] = "join"
  BY <1>1, <1>2, <1>5, <1>6, ThreadFacts DEF Phases, Idle
<1>11. Phases'
  BY <1>1, <1>2, <1>5, <1>6, <1>7, <1>10, ThreadFacts DEF Phases, Alone, Idle, Working, Walking
<1>12. Held'
  BY <1>1, <1>2, <1>5, <1>6, <1>7, <1>10, ThreadFacts DEF Held, Idle
<1>13. t \notin Busy /\ Busy' = Busy \cup {t}
  BY <1>2, <1>5, <1>6, ThreadFacts DEF Busy, Working
<1> QED BY <1>3, <1>4, <1>7, <1>8, <1>9, <1>10, <1>11, <1>12, <1>13 DEF Shape, delivery

(* A worker is done with a task: what it found takes the task's place. *)
LEMMA CompleteKeepsShape ==
  ASSUME Shape, OutstandingIsExact, NEW t \in Workers, Complete(t)
  PROVE  /\ Shape'
         /\ UNCHANGED <<received, delivery>>
         /\ t \in Busy /\ Busy' = Busy \ {t}
         /\ outstanding' = outstanding + Len(fresh[t]) - 1
         /\ Len(tasks') = Len(tasks) + Len(fresh[t])
         /\ outstanding = Len(tasks) + Cardinality(Busy)
         /\ Cardinality(Busy') = Cardinality(Busy) - 1
         /\ \/ waiting' = {}
            \/ waiting' = waiting /\ tasks' = tasks /\ outstanding' # 0
         /\ pc[Main] = "join" /\ pc'[Main] = "join"
<1> HIDE DEF Threads, Workers, Main, Event, Reports, Task, Labels
<1>1. Fields /\ Rest /\ WireOK /\ Phases /\ Held
  BY TypesAre DEF Shape
<1>2. pc \in [Threads -> Labels] /\ t \in Threads /\ t # Main
  BY <1>1, ThreadFacts DEF Rest
<1>3. tasks \in Seq(Task) /\ fresh[t] \in Seq(Task) /\ outstanding \in Nat
  BY <1>1, <1>2 DEF Rest, Fields
<1>4. /\ pc[t] = "complete" /\ pc' = [pc EXCEPT ![t] = "look"]
      /\ tasks' = tasks \o fresh[t] /\ outstanding' = outstanding + Len(fresh[t]) - 1
      /\ waiting' = IF outstanding' = 0 \/ fresh[t] # <<>> THEN {} ELSE waiting
      /\ UNCHANGED <<workers_started, counters, cancelled, local, delivery, consumer>>
  BY DEF Complete, Goto
<1>5. pc' \in [Threads -> Labels] /\ pc'[t] = "look" /\ \A s \in Threads \ {t} : pc'[s] = pc[s]
  <2>1. "look" \in Labels
    BY DEF Labels
  <2> QED BY <1>2, <1>4, <2>1, LabelStep
<1>6. pc[Main] = "join" /\ pc'[Main] = "join"
  BY <1>1, <1>2, <1>4, <1>5, ThreadFacts DEF Phases, Idle
<1>7. t \in Busy /\ Busy' = Busy \ {t}
  BY <1>2, <1>4, <1>5, ThreadFacts DEF Busy, Working
<1>8. /\ outstanding = Len(tasks) + Cardinality(Busy)
      /\ Cardinality(Busy') = Cardinality(Busy) - 1 /\ Cardinality(Busy) >= 1
  <2>1. Cardinality(Busy \ {t}) = Cardinality(Busy) - 1 /\ Cardinality(Busy \ {t}) \in Nat
    BY <1>7, BusyFacts, FS_RemoveElement, FS_Subset, FS_CardinalityType
  <2>2. outstanding = Len(tasks) + Cardinality(Busy)
    BY <1>6 DEF OutstandingIsExact, Busy
  <2>3. Cardinality(Busy') = Cardinality(Busy \ {t})
    BY <1>7
  <2> QED BY <2>1, <2>2, <2>3, BusyFacts
<1>9. /\ tasks' \in Seq(Task) /\ Len(tasks') = Len(tasks) + Len(fresh[t])
      /\ (fresh[t] = <<>> => tasks' = tasks) /\ Len(tasks) \in Nat /\ Len(fresh[t]) \in Nat
  <2>1. tasks' = tasks \o fresh[t]
    BY <1>4
  <2> QED BY <1>3, <2>1
<1>10. outstanding' \in Nat
  <2>1. outstanding' = outstanding + Len(fresh[t]) - 1
    BY <1>4
  <2> QED BY <1>3, <1>8, <1>9, <2>1, BusyFacts, SMTT(60)
<1>11. waiting' \subseteq Workers
  BY <1>1, <1>4 DEF Rest
<1>12. /\ Fields'
       /\ UNCHANGED <<workers_started, cancelled, pending, buffer, channel, setup, alive, received>>
  BY <1>1, <1>4 DEF Fields, counters, counted, keys, local, loop, place, totals, delivery, consumer
<1>13. TypeOK'
  BY <1>1, <1>5, <1>9, <1>10, <1>11, <1>12, TypesAre DEF Rest
<1>14. WireOK'
  BY <1>1, <1>12 DEF WireOK
<1>15. Phases'
  BY <1>1, <1>2, <1>4, <1>5, <1>6, <1>12, ThreadFacts DEF Phases, Alone, Idle, Working, Walking
<1>16. Held'
  BY <1>1, <1>2, <1>4, <1>5, <1>6, <1>12, ThreadFacts DEF Held, Idle
<1>17. waiting' = {} \/ (waiting' = waiting /\ tasks' = tasks /\ outstanding' # 0)
  BY <1>4, <1>9
<1> QED BY <1>4, <1>6, <1>7, <1>8, <1>9, <1>12, <1>13, <1>14, <1>15, <1>16, <1>17 DEF Shape, delivery

-----------------------------------------------------------------------------
(* The consumer and the user. *)

LEMMA OutsideKeepsShape ==
  ASSUME Shape, Receive \/ DropReceiver \/ Cancel
  PROVE  Shape' /\ UNCHANGED <<queue, workers_started, pc, buffer>>
<1> HIDE DEF Threads, Workers, Main, Event, Reports, Task, Labels
<1>1. Fields /\ Rest /\ WireOK /\ Phases /\ Held
  BY TypesAre DEF Shape
<1>2. /\ UNCHANGED <<queue, workers_started, counters, pc, local, buffer, setup>>
      /\ cancelled' \in BOOLEAN /\ alive' \in BOOLEAN
  BY <1>1 DEF Receive, DropReceiver, Cancel, delivery, consumer, Rest
<1>3. /\ channel' \in Seq(Seq(Event)) /\ Len(channel') <= Capacity /\ received' \in Seq(Event)
      /\ channel = <<>> => channel' = <<>>
  <2> DEFINE B == Seq(Event)
  <2>1. channel \in Seq(B) /\ Len(channel) <= Capacity /\ received \in B /\ Capacity \in Nat
    BY <1>1, WalkAssumption DEF WireOK
  <2>2. \/ channel # <<>> /\ channel' = Tail(channel) /\ received' = received \o Head(channel)
        \/ channel' = <<>> /\ received' = received
        \/ channel' = channel /\ received' = received
    BY DEF Receive, DropReceiver, Cancel, delivery, consumer
  <2>3. CASE channel # <<>> /\ channel' = Tail(channel) /\ received' = received \o Head(channel)
    <3>1. Head(channel) \in B
      <4> HIDE DEF B
      <4> QED BY <2>1, <2>3
    <3>2. received' \in B
      BY <2>1, <2>3, <3>1
    <3>3. channel' \in Seq(B) /\ Len(channel') <= Capacity
      <4> HIDE DEF B
      <4> QED BY <2>1, <2>3
    <3> QED BY <2>3, <3>2, <3>3
  <2>4. CASE channel' = <<>> /\ received' = received
    <3> HIDE DEF B
    <3>1. channel' \in Seq(B) /\ Len(channel') <= Capacity
      BY <2>1, <2>4
    <3> QED BY <2>1, <2>4, <3>1 DEF B
  <2>5. CASE channel' = channel /\ received' = received
    BY <2>1, <2>5
  <2> QED BY <2>2, <2>3, <2>4, <2>5
<1>4. Fields'
  BY <1>1, <1>2 DEF Fields, counters, counted, keys, local, loop, place, totals
<1>5. TypeOK'
  BY <1>1, <1>2, <1>3, <1>4, TypesAre DEF Rest, queue
<1>6. WireOK'
  BY <1>1, <1>2, <1>3 DEF WireOK
<1>7. Phases' /\ Held'
  BY <1>1, <1>2, <1>3 DEF Phases, Held, queue, local, totals
<1> QED BY <1>2, <1>5, <1>6, <1>7 DEF Shape

-----------------------------------------------------------------------------
(* The end of the scan.  Before the scan thread is done no end is on its   *)
(* way: what threads hold and send is reports.                             *)
Quiet == ~Ended(received) /\ \A k \in 1..Len(channel) : ~Ended(channel[k])

LEMMA ReportsDoNotEnd == \A seq \in Seq(Reports) : ~Ended(seq)
<1> HIDE DEF Reports
<1> QED BY ElementOf, EventFacts DEF Ended

LEMMA SendQuiet ==
  ASSUME WireOK, Quiet, NEW batch \in Seq(Event), ~Ended(batch), Send(batch), UNCHANGED received
  PROVE  Quiet'
<1> DEFINE B == Seq(Event)
<1>1. channel \in Seq(B)
  BY DEF WireOK
<1> HIDE DEF B, Ended
<1>2. CASE channel' = channel
  BY <1>2 DEF Quiet
<1>3. CASE channel' = Append(channel, batch)
  <2>1. Len(channel') = Len(channel) + 1 /\ Len(channel) \in Nat
    BY <1>1, <1>3
  <2>2. \A k \in 1..Len(channel') : channel'[k] = IF k = Len(channel) + 1 THEN batch ELSE channel[k]
    BY <1>1, <1>3, <2>1
  <2> QED BY <2>1, <2>2 DEF Quiet
<1> QED BY <1>2, <1>3 DEF Send

LEMMA DeliverQuiet ==
  ASSUME WireOK, Quiet, NEW t \in Threads, Delivers(t), UNCHANGED received
  PROVE  Quiet'
<1> HIDE DEF Threads, Reports, Event, Ended
<1>1. CASE UNCHANGED delivery
  BY <1>1 DEF delivery, Quiet, Ended
<1>2. ASSUME NEW e \in Reports, Emit(t, e) PROVE Quiet'
  <2> DEFINE batch == Append(buffer[t], e)
  <2>1. batch \in Seq(Reports) /\ batch \in Seq(Event) /\ ~Ended(batch)
    <3>1. batch \in Seq(Reports) /\ batch \in Seq(Event)
      BY EventFacts DEF WireOK
    <3> QED BY <3>1, ReportsDoNotEnd
  <2>2. Send(batch) \/ channel' = channel
    BY <1>2 DEF Emit
  <2> HIDE DEF batch
  <2>3. CASE channel' = channel
    BY <2>3 DEF Quiet, Ended
  <2> QED BY <2>1, <2>2, <2>3, SendQuiet
<1> QED BY <1>1, <1>2 DEF Delivers

LEMMA FlushQuiet ==
  ASSUME WireOK, Quiet, NEW t \in Threads, Flush(t), UNCHANGED received
  PROVE  Quiet'
<1>1. buffer[t] \in Seq(Reports) /\ buffer[t] \in Seq(Event) /\ ~Ended(buffer[t])
  BY EventFacts, ReportsDoNotEnd DEF WireOK
<1>2. Send(buffer[t]) \/ channel' = channel
  BY DEF Flush, delivery
<1>3. CASE channel' = channel
  BY <1>3 DEF Quiet, Ended
<1> QED BY <1>1, <1>2, <1>3, SendQuiet

LEMMA StartQuiet ==
  ASSUME Shape, Quiet, StartScan \/ StartInvalid
  PROVE  Quiet'
<1> HIDE DEF Reports, Event, Ended, Main
<1>1. channel = <<>> /\ UNCHANGED received
  BY DEF Shape, Held, StartScan, StartInvalid, consumer
<1>2. PICK batch \in Seq(Reports) : channel' = channel \/ channel' = Append(channel, batch)
  BY StartSends
<1>3. ~Ended(batch)
  BY ReportsDoNotEnd
<1>4. CASE channel' = channel
  BY <1>1, <1>4 DEF Quiet, Ended
<1>5. CASE channel' = Append(channel, batch)
  <2>1. channel' = <<batch>>
    BY <1>1, <1>5
  <2>2. \A k \in 1..Len(channel') : channel'[k] = batch
    BY <2>1
  <2>3. ~Ended(received) /\ received' = received
    BY <1>1 DEF Quiet
  <2> QED BY <1>3, <2>2, <2>3 DEF Quiet
<1> QED BY <1>2, <1>4, <1>5

LEMMA QuietEndIsLast == (WireOK /\ Quiet => EndIsLast) /\ (WireOK' /\ Quiet' => EndIsLast')
<1>1. WireOK => \A t \in Threads : ~Ended(buffer[t])
  <2> HIDE DEF Reports, Event, Threads, Ended
  <2> QED BY ReportsDoNotEnd DEF WireOK
<1>2. WireOK' => \A t \in Threads : ~Ended(buffer'[t])
  <2> HIDE DEF Reports, Event, Threads, Ended
  <2> QED BY ReportsDoNotEnd DEF WireOK
<1> HIDE DEF Threads, WireOK
<1>3. WireOK /\ Quiet => EndIsLast
  BY <1>1 DEF Quiet, Ended, EndIsLast
<1>4. WireOK' /\ Quiet' => EndIsLast'
  BY <1>2 DEF Quiet, Ended, EndIsLast
<1> QED BY <1>3, <1>4

EndInv == (pc[Main] # "done" => Quiet) /\ EndIsLast

(* The end goes out when nobody else holds anything: it is the last event  *)
(* of the last batch.                                                      *)
LEMMA EndKeepsEndInv ==
  ASSUME Shape, EndInv, EndCancelled \/ EndProgress \/ EmitSummary \/ EmitCompleted
  PROVE  EndInv'
<1> HIDE DEF Threads, Workers, Main, Event, Reports, Ended, Ends
<1>1. WireOK /\ WireOK' /\ Main \in Threads
  BY EndKeepsShape, ThreadFacts DEF Shape
<1>2. Quiet
  <2>1. pc[Main] # "done"
    BY DEF EndCancelled, EndProgress, EmitSummary, EmitCompleted, WalkOver
  <2> QED BY <2>1 DEF EndInv
<1>3. PICK e \in Event : Send(Append(buffer[Main], e)) /\ (Ends(e) => pc'[Main] = "done")
  BY EndKeepsShape
<1>4. buffer' = [buffer EXCEPT ![Main] = <<>>] /\ UNCHANGED received
  BY EndKeepsShape
<1>5. \A t \in Threads : buffer'[t] = <<>>
  <2>1. \A w \in Workers : buffer[w] = <<>>
    BY EndKeepsShape DEF Shape, Held
  <2> QED BY <1>1, <1>4, <2>1, ThreadFacts DEF WireOK
<1> DEFINE batch == Append(buffer[Main], e)
           n == Len(buffer[Main])
<1>6. /\ buffer[Main] \in Seq(Reports) /\ n \in Nat /\ Len(batch) = n + 1 /\ batch \in Seq(Event)
      /\ batch[n + 1] = e /\ \A i \in 1..n : batch[i] = buffer[Main][i]
  BY <1>1, EventFacts DEF WireOK
<1>7. \A i \in 1..n : ~Ends(batch[i])
  <2>1. ~Ended(buffer[Main])
    BY <1>6, ReportsDoNotEnd
  <2> HIDE DEF batch
  <2> QED BY <1>6, <2>1 DEF Ended
<1> HIDE DEF batch, n
<1>8. Send(batch)
  BY <1>3 DEF batch
<1>9. CASE ~Ends(e)
  <2>1. ~Ended(batch)
    BY <1>6, <1>7, <1>9 DEF Ended
  <2>2. Quiet'
    BY <1>1, <1>2, <1>4, <1>6, <1>8, <2>1, SendQuiet
  <2> QED BY <1>1, <2>2, QuietEndIsLast DEF EndInv
<1>10. CASE Ends(e)
  <2>1. ~Ended(received') /\ \A k \in 1..Len(channel) : ~Ended(channel[k])
    BY <1>2, <1>4 DEF Quiet
  <2>2. CASE channel' = channel
    <3>1. Quiet'
      BY <2>1, <2>2 DEF Quiet
    <3> QED BY <1>1, <3>1, QuietEndIsLast DEF EndInv
  <2>3. CASE channel' = Append(channel, batch)
    <3> DEFINE B == Seq(Event)
    <3>1. channel \in Seq(B) /\ batch \in B
      BY <1>1, <1>6 DEF WireOK
    <3> HIDE DEF B
    <3>2. /\ Len(channel) \in Nat /\ Len(channel') = Len(channel) + 1
          /\ channel'[Len(channel) + 1] = batch
          /\ \A k \in 1..Len(channel) : channel'[k] = channel[k]
      BY <2>3, <3>1
    <3>3. \A i \in 1..Len(received') : ~Ends(received'[i])
      BY <2>1 DEF Ended
    <3>4. ASSUME NEW k \in 1..Len(channel'), NEW i \in 1..Len(channel'[k]), Ends(channel'[k][i])
          PROVE  k = Len(channel') /\ i = Len(channel'[k])
      <4>1. k \notin 1..Len(channel)
        BY <2>1, <3>2, <3>4 DEF Ended
      <4>2. k = Len(channel') /\ channel'[k] = batch
        BY <3>2, <4>1
      <4>3. i \notin 1..n
        BY <1>7, <3>4, <4>2
      <4> QED BY <1>6, <4>2, <4>3
    <3>5. \A t \in Threads : ~Ended(buffer'[t])
      BY <1>5 DEF Ended
    <3>6. EndIsLast'
      BY <1>5, <3>3, <3>4, <3>5 DEF EndIsLast, Ended
    <3>7. pc'[Main] = "done"
      BY <1>3, <1>10
    <3> QED BY <3>6, <3>7 DEF EndInv
  <2> QED BY <1>8, <2>2, <2>3 DEF Send
<1> QED BY <1>9, <1>10

LEMMA OutsideKeepsEndInv ==
  ASSUME Shape, EndInv, Receive \/ DropReceiver \/ Cancel
  PROVE  EndInv'
<1> HIDE DEF Threads, Main, Event, Ends
<1> DEFINE B == Seq(Event)
           Nothing == \A t \in Threads : buffer[t] = <<>>
<1>1. channel \in Seq(B) /\ received \in B /\ pc' = pc /\ buffer' = buffer
  BY OutsideKeepsShape DEF Shape, WireOK
<1>2. \A i \in 1..Len(received) : Ends(received[i]) => i = Len(received) /\ channel = <<>> /\ Nothing
  BY DEF EndInv, EndIsLast
<1>3. \A k \in 1..Len(channel) : \A i \in 1..Len(channel[k]) :
        Ends(channel[k][i]) => k = Len(channel) /\ i = Len(channel[k]) /\ Nothing
  BY DEF EndInv, EndIsLast
<1>4. \A t \in Threads : ~Ended(buffer'[t])
  BY <1>1 DEF EndInv, EndIsLast, Ended
<1> HIDE DEF B, Nothing
<1>5. CASE channel' = channel /\ received' = received
  <2>1. EndIsLast' /\ (Quiet => Quiet')
    BY <1>1, <1>2, <1>3, <1>4, <1>5 DEF EndIsLast, Quiet, Ended, Nothing
  <2> QED BY <1>1, <2>1 DEF EndInv
<1>6. CASE channel' = <<>> /\ received' = received
  <2>1. \A k \in 1..Len(channel') : FALSE
    BY <1>6
  <2>2. EndIsLast' /\ (Quiet => Quiet')
    BY <1>1, <1>2, <1>4, <1>6, <2>1 DEF EndIsLast, Quiet, Ended, Nothing
  <2> QED BY <1>1, <2>2 DEF EndInv
<1>7. CASE channel # <<>> /\ channel' = Tail(channel) /\ received' = received \o Head(channel)
  <2> DEFINE batch == channel[1]
             n == Len(received)
  <2>1. /\ Len(channel) \in Nat /\ Len(channel) >= 1 /\ Len(channel') = Len(channel) - 1
        /\ \A k \in 1..Len(channel') : channel'[k] = channel[k + 1]
        /\ Head(channel) = batch
    BY <1>1, <1>7
  <2>2. batch \in B
    BY <1>1, <2>1, ElementOf
  <2>3. /\ n \in Nat /\ Len(batch) \in Nat /\ Len(received') = n + Len(batch)
        /\ \A i \in 1..n : received'[i] = received[i]
        /\ \A i \in 1..Len(batch) : received'[n + i] = batch[i]
    <3>1. received' = received \o batch
      BY <1>7, <2>1
    <3> HIDE DEF batch
    <3> QED BY <1>1, <2>2, <3>1 DEF B
  <2>4. \A i \in 1..n : ~Ends(received'[i])
    BY <1>2, <1>7, <2>3
  <2>5. \A i \in 1..Len(batch) : Ends(batch[i]) => Len(channel) = 1 /\ i = Len(batch) /\ Nothing
    BY <1>3, <2>1
  <2> HIDE DEF batch, n
  <2>6. ASSUME NEW i \in 1..Len(received')
        PROVE  i \in 1..n \/ \E j \in 1..Len(batch) : i = n + j
    <3>1. CASE i > n
      <4>1. i - n \in 1..Len(batch) /\ i = n + (i - n)
        BY <2>3, <3>1
      <4> QED BY <4>1
    <3> QED BY <2>3, <3>1
  <2>7. ASSUME NEW i \in 1..Len(received'), Ends(received'[i])
        PROVE  i = Len(received') /\ channel' = <<>> /\ Nothing
    <3>1. PICK j \in 1..Len(batch) : i = n + j
      BY <2>4, <2>6, <2>7
    <3>2. Ends(batch[j])
      BY <2>3, <2>7, <3>1
    <3>3. Len(channel) = 1 /\ j = Len(batch) /\ Nothing
      BY <2>5, <3>2
    <3>4. channel' = <<>>
      BY <1>1, <1>7, <3>3
    <3> QED BY <2>3, <3>1, <3>3, <3>4
  <2>8. ASSUME NEW k \in 1..Len(channel'), NEW i \in 1..Len(channel'[k]), Ends(channel'[k][i])
        PROVE  k = Len(channel') /\ i = Len(channel'[k]) /\ Nothing
    <3>1. k + 1 \in 1..Len(channel) /\ channel'[k] = channel[k + 1]
      BY <2>1
    <3>2. k + 1 = Len(channel) /\ i = Len(channel[k + 1]) /\ Nothing
      BY <1>3, <2>8, <3>1
    <3> QED BY <2>1, <3>1, <3>2
  <2>9. EndIsLast'
    BY <1>1, <1>4, <2>7, <2>8 DEF EndIsLast, Nothing
  <2>10. Quiet => Quiet'
    <3> SUFFICES ASSUME Quiet PROVE Quiet'
      OBVIOUS
    <3>1. \A k \in 1..Len(channel) : \A i \in 1..Len(channel[k]) : ~Ends(channel[k][i])
      BY DEF Quiet, Ended
    <3>2. \A j \in 1..Len(batch) : ~Ends(batch[j])
      BY <2>1, <3>1 DEF batch
    <3>3. \A i \in 1..Len(received') : ~Ends(received'[i])
      BY <2>3, <2>4, <2>6, <3>2
    <3>4. \A k \in 1..Len(channel') : \A i \in 1..Len(channel'[k]) : ~Ends(channel'[k][i])
      <4>1. \A k \in 1..Len(channel') : k + 1 \in 1..Len(channel) /\ channel'[k] = channel[k + 1]
        BY <2>1
      <4> QED BY <3>1, <4>1
    <3> QED BY <3>3, <3>4 DEF Quiet, Ended
  <2> QED BY <1>1, <2>9, <2>10 DEF EndInv
<1>8. \/ channel' = channel /\ received' = received
      \/ channel' = <<>> /\ received' = received
      \/ channel # <<>> /\ channel' = Tail(channel) /\ received' = received \o Head(channel)
  BY DEF Receive, DropReceiver, Cancel, delivery, consumer
<1> QED BY <1>5, <1>6, <1>7, <1>8

-----------------------------------------------------------------------------
(* The invariant. *)

QueueInv == OutstandingIsExact /\ NoLostWakeup
WalkInv == Shape /\ QueueInv /\ EndInv

(* Nobody waits before the workers are started or after they have ended.   *)
LEMMA NobodyWaits ==
  ASSUME Shape, NoLostWakeup, pc[Main] # "join"
  PROVE  waiting = {}
<1>1. \A w \in Workers : pc[w] \notin Working
  BY DEF Shape, Phases, Idle, Working
<1> QED BY <1>1 DEF NoLostWakeup

LEMMA WorkKeepsWalkInv ==
  ASSUME WalkInv, NEW t \in Threads, Works(t)
  PROVE  WalkInv'
<1> HIDE DEF Threads, Workers, Main
<1>1. Shape /\ Shape' /\ UNCHANGED <<tasks, outstanding, waiting, received>> /\ Delivers(t)
  BY WorkKeepsShape DEF WalkInv, Works, queue, consumer
<1>2. pc \in [Threads -> Labels] /\ \A s \in Threads \ {t} : pc'[s] = pc[s]
  BY <1>1, TypesAre DEF Shape, Rest, Works
<1>3. /\ pc[t] \notin {"join", "done"} /\ pc'[t] \notin {"join", "done"}
      /\ t # Main => pc[t] \in Working /\ pc'[t] \in Working
  BY DEF Works, Working, Walking
<1>4. Busy' = Busy
  BY <1>2, <1>3, ThreadFacts DEF Busy
<1>5. pc[Main] # "done" /\ ((pc'[Main] = "join") <=> (pc[Main] = "join"))
  <2>1. CASE t = Main
    BY <1>3, <2>1
  <2>2. CASE t # Main
    <3>1. pc[Main] = "join"
      BY <1>1, <1>3, <2>2, ThreadFacts DEF Shape, Phases, Idle, Working
    <3> QED BY <1>2, <2>2, <3>1, ThreadFacts
  <2> QED BY <2>1, <2>2
<1>6. QueueInv'
  BY <1>1, <1>4, <1>5 DEF WalkInv, QueueInv, OutstandingIsExact, NoLostWakeup, Busy
<1>7. Quiet'
  BY <1>1, <1>5, DeliverQuiet DEF Shape, WalkInv, EndInv
<1> QED BY <1>1, <1>6, <1>7, QuietEndIsLast DEF WalkInv, Shape, EndInv

LEMMA StartKeepsWalkInv ==
  ASSUME WalkInv, StartScan \/ StartInvalid \/ ChainTake \/ ChainComplete
  PROVE  WalkInv'
<1> HIDE DEF Threads, Workers, Main
<1>1. Shape /\ Shape' /\ pc[Main] \notin {"join", "done"} /\ UNCHANGED <<waiting, received>>
  BY StartKeepsShape, ChainKeepsShape
     DEF WalkInv, StartScan, StartInvalid, ChainTake, ChainComplete, queue, consumer
<1>2. pc'[Main] \notin {"join", "done"}
  <2>1. pc \in [Threads -> Labels] /\ Main \in Threads
    BY <1>1, TypesAre, ThreadFacts DEF Shape, Rest
  <2>2. \E label \in {"chain", "walk", "completed", "open", "complete"} : pc' = [pc EXCEPT ![Main] = label]
    BY DEF StartScan, StartInvalid, ChainTake, ChainComplete, Open, Goto
  <2> QED BY <2>1, <2>2
<1>3. waiting' = {}
  BY <1>1, NobodyWaits DEF WalkInv, QueueInv
<1>4. QueueInv'
  BY <1>2, <1>3 DEF QueueInv, OutstandingIsExact, NoLostWakeup
<1>5. Quiet
  BY <1>1 DEF WalkInv, EndInv
<1>6. Quiet'
  <2>1. CASE StartScan \/ StartInvalid
    BY <1>1, <1>5, <2>1, StartQuiet
  <2>2. CASE ChainTake \/ ChainComplete
    BY <1>1, <1>5, <2>2 DEF ChainTake, ChainComplete, delivery, Quiet, Ended
  <2> QED BY <2>1, <2>2
<1> QED BY <1>1, <1>4, <1>6, QuietEndIsLast DEF WalkInv, Shape, EndInv

(* The workers start with a queue that is counted exactly.                 *)
LEMMA BranchKeepsWalkInv ==
  ASSUME WalkInv, Branch
  PROVE  WalkInv'
<1> HIDE DEF Threads, Workers, Main
<1>1. /\ Shape /\ Shape' /\ pc[Main] = "chain" /\ Flush(Main)
      /\ UNCHANGED <<tasks, outstanding, waiting, received>>
      /\ pc' = [pc EXCEPT ![Main] = "join", ![1] = "look"]
  BY ChainKeepsShape DEF WalkInv, Branch, queue, consumer
<1>2. pc \in [Threads -> Labels]
  BY <1>1, TypesAre DEF Shape, Rest
<1>3. /\ pc'[Main] = "join" /\ pc'[1] = "look"
      /\ \A s \in Threads \ {Main, 1} : pc'[s] = pc[s]
  BY <1>1, <1>2, ThreadFacts
<1>4. Busy' = {}
  <2>1. \A w \in Workers : pc[w] \notin Working
    BY <1>1 DEF Shape, Phases, Idle, Working
  <2> QED BY <1>3, <2>1, ThreadFacts DEF Busy, Working
<1>5. outstanding = Len(tasks) /\ Len(tasks) \in Nat
  BY <1>1, TypesAre DEF Shape, Held, Rest
<1>6. OutstandingIsExact'
  <2>1. Cardinality(Busy') = 0
    BY <1>4, FS_EmptySet
  <2>2. outstanding' = Len(tasks') + Cardinality(Busy')
    BY <1>1, <1>5, <2>1
  <2> QED BY <2>2 DEF OutstandingIsExact, Busy
<1>7. waiting' = {}
  BY <1>1, NobodyWaits DEF WalkInv, QueueInv
<1>8. Quiet'
  BY <1>1, FlushQuiet, ThreadFacts DEF WalkInv, EndInv, Shape
<1> QED BY <1>1, <1>6, <1>7, <1>8, QuietEndIsLast DEF WalkInv, Shape, EndInv, QueueInv, NoLostWakeup

LEMMA EndKeepsWalkInv ==
  ASSUME WalkInv, EndCancelled \/ EndProgress \/ EmitSummary \/ EmitCompleted
  PROVE  WalkInv'
<1> HIDE DEF Threads, Workers, Main
<1>1. Shape' /\ pc'[Main] \in {"summary", "completed", "done"} /\ \A w \in Workers : pc[w] \in Idle
  BY EndKeepsShape DEF WalkInv
<1>2. waiting' = {}
  <2>1. waiting' = waiting
    BY DEF EndCancelled, EndProgress, EmitSummary, EmitCompleted, queue
  <2>2. \A w \in Workers : pc[w] \notin Working
    BY <1>1 DEF Idle, Working
  <2> QED BY <2>1, <2>2 DEF WalkInv, QueueInv, NoLostWakeup
<1>3. QueueInv'
  BY <1>1, <1>2 DEF QueueInv, OutstandingIsExact, NoLostWakeup
<1>4. EndInv'
  BY EndKeepsEndInv DEF WalkInv
<1> QED BY <1>1, <1>3, <1>4 DEF WalkInv

(* A worker parks only when the count says that another is at a task.      *)
LEMMA QueuesKeepWalkInv ==
  ASSUME WalkInv, NEW t \in Workers, Queues(t)
  PROVE  WalkInv'
<1> HIDE DEF Threads, Workers, Main
<1>1. /\ Shape /\ Shape' /\ UNCHANGED <<tasks, outstanding, received>> /\ Busy' = Busy
      /\ Flush(t) \/ UNCHANGED delivery
      /\ (pc[Main] = "join") <=> (pc'[Main] = "join")
      /\ pc[Main] # "join" => pc' = pc
  BY QueuesKeepShape DEF WalkInv
<1>2. OutstandingIsExact'
  BY <1>1 DEF WalkInv, QueueInv, OutstandingIsExact, Busy
<1>3. NoLostWakeup'
  <2>1. CASE waiting' \subseteq waiting
    BY <1>1, <2>1 DEF WalkInv, QueueInv, NoLostWakeup, Busy
  <2>2. CASE Wait(t)
    <3>1. pc[t] = "take" /\ tasks = <<>> /\ outstanding # 0
      BY <2>2 DEF Wait
    <3>2. pc[Main] = "join"
      BY <1>1, <3>1 DEF Shape, Phases, Idle
    <3>3. outstanding = Len(tasks) + Cardinality(Busy)
      BY <3>2 DEF WalkInv, QueueInv, OutstandingIsExact, Busy
    <3>4. Busy # {}
      <4>1. Cardinality(Busy) # 0
        BY <3>1, <3>3, BusyFacts
      <4> QED BY <4>1, FS_EmptySet
    <3> QED BY <1>1, <3>1, <3>4 DEF NoLostWakeup, Busy
  <2>3. Wait(t) \/ waiting' \subseteq waiting
    BY DEF Queues, Look, Spawn, Spawned, Leave, SpuriousWake, queue
  <2> QED BY <2>1, <2>2, <2>3
<1>4. EndInv'
  <2>1. t \in Threads
    BY ThreadFacts
  <2>2. CASE pc[Main] = "join"
    <3>1. Quiet
      BY <2>2 DEF WalkInv, EndInv
    <3>2. Quiet'
      <4>1. CASE Flush(t)
        BY <1>1, <2>1, <3>1, <4>1, FlushQuiet DEF Shape
      <4>2. CASE UNCHANGED delivery
        BY <1>1, <3>1, <4>2 DEF delivery, Quiet, Ended
      <4> QED BY <1>1, <4>1, <4>2
    <3> QED BY <1>1, <3>2, QuietEndIsLast DEF Shape, EndInv
  <2>3. CASE pc[Main] # "join"
    <3>1. ~Leave(t)
      BY <1>1, <2>3 DEF Leave, Shape, Phases, Idle
    <3>2. buffer' = buffer /\ channel' = channel
      BY <3>1 DEF Queues, Look, Spawn, Spawned, Wait, SpuriousWake, delivery
    <3> QED BY <1>1, <2>3, <3>2 DEF WalkInv, EndInv, EndIsLast, Quiet, Ended
  <2> QED BY <2>2, <2>3
<1> QED BY <1>1, <1>2, <1>3, <1>4 DEF WalkInv, QueueInv

LEMMA TakeKeepsWalkInv ==
  ASSUME WalkInv, NEW t \in Workers, Take(t)
  PROVE  WalkInv'
<1> HIDE DEF Threads, Workers, Main
<1>1. /\ Shape /\ Shape' /\ UNCHANGED <<outstanding, waiting, received, delivery>>
      /\ t \notin Busy /\ Busy' = Busy \cup {t}
      /\ tasks # <<>> /\ Len(tasks') = Len(tasks) - 1
      /\ pc[Main] = "join" /\ pc'[Main] = "join"
  BY TakeKeepsShape DEF WalkInv
<1>2. OutstandingIsExact'
  <2>1. Cardinality(Busy') = Cardinality(Busy) + 1
    BY <1>1, BusyFacts, FS_AddElement
  <2>2. outstanding = Len(tasks) + Cardinality(Busy)
    BY <1>1 DEF WalkInv, QueueInv, OutstandingIsExact, Busy
  <2>3. Len(tasks) \in Nat
    BY <1>1, TypesAre DEF Shape, Rest
  <2>4. outstanding' = Len(tasks') + Cardinality(Busy')
    BY <1>1, <2>1, <2>2, <2>3, BusyFacts
  <2> QED BY <2>4 DEF OutstandingIsExact, Busy
<1>3. waiting' = {}
  BY <1>1 DEF WalkInv, QueueInv, NoLostWakeup
<1>4. Quiet'
  BY <1>1 DEF WalkInv, EndInv, Quiet, Ended, delivery
<1> QED BY <1>1, <1>2, <1>3, <1>4, QuietEndIsLast DEF WalkInv, Shape, EndInv, QueueInv, NoLostWakeup

(* Who completes a task wakes the others unless one of them, by the count, *)
(* is still at a task.                                                     *)
LEMMA CompleteKeepsWalkInv ==
  ASSUME WalkInv, NEW t \in Workers, Complete(t)
  PROVE  WalkInv'
<1> HIDE DEF Threads, Workers, Main
<1>1. Shape /\ OutstandingIsExact
  BY DEF WalkInv, QueueInv
<1>2. /\ Shape'
      /\ UNCHANGED <<received, delivery>>
      /\ outstanding' = outstanding + Len(fresh[t]) - 1
      /\ Len(tasks') = Len(tasks) + Len(fresh[t])
      /\ outstanding = Len(tasks) + Cardinality(Busy)
      /\ Cardinality(Busy') = Cardinality(Busy) - 1
      /\ pc[Main] = "join" /\ pc'[Main] = "join"
  BY <1>1, CompleteKeepsShape
<1>3. waiting' = {} \/ (waiting' = waiting /\ tasks' = tasks /\ outstanding' # 0)
  BY <1>1, CompleteKeepsShape
<1>4. outstanding' = Len(tasks') + Cardinality(Busy')
  <2>1. Len(tasks) \in Nat /\ Len(fresh[t]) \in Nat
    <3>1. tasks \in Seq(Task) /\ fresh[t] \in Seq(Task)
      BY <1>1, TypesAre, ThreadFacts DEF Shape, Rest, Fields
    <3> QED BY <3>1
  <2> QED BY <1>2, <2>1, BusyFacts, SMTT(60)
<1>5. OutstandingIsExact'
  BY <1>4 DEF OutstandingIsExact, Busy
<1>6. NoLostWakeup'
  <2>1. CASE waiting' = {}
    BY <2>1 DEF NoLostWakeup
  <2>2. CASE waiting # {} /\ waiting' = waiting /\ tasks' = tasks /\ outstanding' # 0
    <3>1. tasks' = <<>>
      BY <2>2 DEF WalkInv, QueueInv, NoLostWakeup
    <3>2. Cardinality(Busy') # 0
      <4>1. Len(tasks') = 0
        BY <3>1
      <4> QED BY <1>2, <1>4, <2>2, <4>1, BusyFacts
    <3>3. Busy' # {}
      BY <3>2, FS_EmptySet
    <3> QED BY <3>1, <3>3 DEF NoLostWakeup, Busy
  <2> QED BY <1>3, <2>1, <2>2
<1>7. Quiet'
  BY <1>2 DEF WalkInv, EndInv, Quiet, Ended, delivery
<1> QED BY <1>2, <1>5, <1>6, <1>7, QuietEndIsLast DEF WalkInv, Shape, EndInv, QueueInv

LEMMA OutsideKeepsWalkInv ==
  ASSUME WalkInv, Receive \/ DropReceiver \/ Cancel
  PROVE  WalkInv'
<1>1. Shape' /\ EndInv' /\ UNCHANGED <<tasks, outstanding, waiting, pc>>
  BY OutsideKeepsShape, OutsideKeepsEndInv DEF WalkInv, queue
<1>2. QueueInv'
  BY <1>1 DEF WalkInv, QueueInv, OutstandingIsExact, NoLostWakeup
<1> QED BY <1>1, <1>2 DEF WalkInv

LEMMA InitWalkInv == Init => WalkInv
<1> SUFFICES ASSUME Init PROVE WalkInv
  OBVIOUS
<1> HIDE DEF Threads, Workers, Main, Reports, Event, Task, Labels
<1>1. /\ setup \in Setup /\ Root \in Dirs /\ Capacity \in Nat /\ RootTask \in Task
  BY WalkAssumption, RootIsTask DEF Init
<1>2. "start" \in Labels /\ "unborn" \in Labels
  BY DEF Labels
<1>3. /\ pc \in [Threads -> Labels] /\ pc[Main] = "start" /\ \A w \in Workers : pc[w] = "unborn"
  BY <1>2, ThreadFacts DEF Init
<1>4. 0 \in 0..WorkerLimit
  BY ThreadFacts
<1>5. Fields
  BY <1>1, <1>4 DEF Init, Fields
<1>6. Rest
  <2>1. tasks \in Seq(Task) /\ waiting \subseteq Workers /\ cancelled \in BOOLEAN /\ alive \in BOOLEAN
    <3>1. tasks = <<>> /\ waiting = {} /\ cancelled = FALSE /\ alive = TRUE
      BY DEF Init
    <3>2. tasks \in Seq(Task) /\ waiting \subseteq Workers
      BY <3>1
    <3> QED BY <3>1, <3>2
  <2>2. channel = <<>> /\ Len(<<>>) = 0
    BY DEF Init
  <2>3. Len(channel) <= Capacity
    BY <1>1, <2>2
  <2>4. outstanding \in Nat /\ workers_started \in 0..WorkerLimit /\ setup \in Setup
    <3>1. outstanding = 0 /\ workers_started = 0
      BY DEF Init
    <3> QED BY <1>1, <1>4, <3>1
  <2> QED BY <1>3, <2>1, <2>3, <2>4 DEF Rest
<1>7. WireOK
  BY <1>1 DEF Init, WireOK
<1>8. Phases
  BY <1>3, ThreadFacts DEF Init, Phases, Alone, Idle, Workers
<1>9. Held
  BY <1>3, ThreadFacts DEF Init, Held
<1>10. QueueInv
  BY <1>3 DEF Init, QueueInv, OutstandingIsExact, NoLostWakeup
<1>11. Quiet
  BY DEF Init, Quiet, Ended
<1> QED BY <1>3, <1>5, <1>6, <1>7, <1>8, <1>9, <1>10, <1>11, TypesAre, QuietEndIsLast
        DEF WalkInv, Shape, EndInv

LEMMA WalkCorrect == Spec => []WalkInv
<1>1. ASSUME WalkInv, [Next]_vars PROVE WalkInv'
  <2> USE <1>1
  <2>1. CASE UNCHANGED vars
    BY <2>1 DEF vars, queue, counted, keys, counters, place, totals, loop, local, delivery, consumer,
       WalkInv, Shape, TypeOK, WireOK, Phases, Held, QueueInv, OutstandingIsExact, NoLostWakeup,
       EndInv, EndIsLast, Quiet, Ended
  <2>2. CASE Scan
    <3>1. CASE Walk
      BY <3>1, WorkStep, WorkKeepsWalkInv, ThreadFacts DEF WalkInv
    <3> QED BY <2>2, <3>1, StartKeepsWalkInv, BranchKeepsWalkInv, EndKeepsWalkInv DEF Scan
  <2>3. ASSUME NEW t \in Threads, Process(t) PROVE WalkInv'
    BY <2>3, WorkStep, WorkKeepsWalkInv DEF WalkInv
  <2>4. ASSUME NEW t \in Workers, Worker(t) \/ SpuriousWake(t) PROVE WalkInv'
    BY <2>4, QueuesKeepWalkInv, TakeKeepsWalkInv, CompleteKeepsWalkInv DEF Worker, Queues
  <2>5. CASE Receive \/ DropReceiver \/ Cancel
    BY <2>5, OutsideKeepsWalkInv
  <2>6. CASE Over
    BY <2>1, <2>6 DEF Over
  <2> QED BY <2>1, <2>2, <2>3, <2>4, <2>5, <2>6 DEF Next
<1> QED BY InitWalkInv, <1>1, PTL DEF Spec

-----------------------------------------------------------------------------
(* What the walk guarantees. *)

(* Every variable keeps its type and the channel its bound, whatever the   *)
(* threads, the consumer and the user do.                                  *)
THEOREM WalkTypeCorrect == Spec => []TypeOK
<1>1. WalkInv => TypeOK
  BY DEF WalkInv, Shape
<1> QED BY <1>1, WalkCorrect, PTL

(* While the workers run, outstanding counts exactly the tasks that are    *)
(* queued or in a worker's hands (FallbackQueue).                          *)
THEOREM QueueCountsExactly == Spec => []OutstandingIsExact
<1>1. WalkInv => OutstandingIsExact
  BY DEF WalkInv, QueueInv
<1> QED BY <1>1, WalkCorrect, PTL

(* run_fallback_worker parks on the condition variable only while there is *)
(* nothing to take and another worker is at a task that will wake it.      *)
THEOREM NobodyParkedForever == Spec => []NoLostWakeup
<1>1. WalkInv => NoLostWakeup
  BY DEF WalkInv, QueueInv
<1> QED BY <1>1, WalkCorrect, PTL

(* run_fallback_scan sends Completed or Cancelled after everything any     *)
(* worker's pipeline held.                                                 *)
THEOREM NothingFollowsTheEnd == Spec => []EndIsLast
<1>1. WalkInv => EndIsLast
  BY DEF WalkInv, EndInv
<1> QED BY <1>1, WalkCorrect, PTL

-----------------------------------------------------------------------------
(* Territories. *)

(* q lies below p, and does so by way of the entry e. *)
Below(q, p) == Len(p) < Len(q) /\ \A i \in 1..Len(p) : q[i] = p[i]
By(q, p, e) == Below(q, p) /\ q[Len(p) + 1] = e

(* The thread has found a directory and not reported it. *)
HasFound(t) == \/ pc[t] = "found"
               \/ pc[t] \in {"emit", "progress", "advance", "report"} /\ ret[t] = "found"

(* What a thread at a task may still report: what is below a directory     *)
(* that is not opened, what is left of one that is, the files gathered and *)
(* the directory found there, and what lies below the tasks made of it.    *)
MayProcess(t, q) ==
  /\ pc[t] \in Working
  /\ \/ pc[t] = "open" /\ Below(q, dir[t].path)
     \/ \E e \in todo[t] : By(q, dir[t].path, e)
     \/ \E i \in 1..Len(pending[t]) : By(q, dir[t].path, pending[t][i])
     \/ HasFound(t) /\ By(q, dir[t].path, found[t])
     \/ \E i \in 1..Len(fresh[t]) : Below(q, fresh[t][i].path)

(* The same of the scan thread that walks alone: it has reported the       *)
(* directory that it found, and holds what its callers have left.          *)
Entering == pc[Main] = "descend" \/ (pc[Main] = "counted" /\ found[Main] # Root)
MayWalk(q) ==
  /\ pc[Main] \in Walking
  /\ \/ pc[Main] = "walk" /\ Below(q, dir[Main].path)
     \/ \E e \in todo[Main] : By(q, dir[Main].path, e)
     \/ Entering /\ Below(q, Append(dir[Main].path, found[Main]))
     \/ \E i \in 1..Len(callers) : \E e \in callers[i].todo : By(q, callers[i].task.path, e)

May(t, q) == MayProcess(t, q) \/ (t = Main /\ MayWalk(q))
Queued(q) == \E i \in 1..Len(tasks) : Below(q, tasks[i].path)

(* What was reported, wherever it is. *)
PathsIn(seq) == {seq[i][2] : i \in {j \in 1..Len(seq) : IsPath(seq[j])}}
Reported(q) == \/ q \in PathsIn(received)
               \/ \E k \in 1..Len(channel) : q \in PathsIn(channel[k])
               \/ \E t \in Threads : q \in PathsIn(buffer[t])

Territories ==
  /\ \A q \in Paths, t, s \in Threads : May(t, q) /\ May(s, q) => t = s
  /\ \A q \in Paths, t \in Threads : ~(May(t, q) /\ Queued(q))
  /\ \A q \in Paths, i, j \in 1..Len(tasks) :
       Below(q, tasks[i].path) /\ Below(q, tasks[j].path) => i = j
  /\ \A q \in Paths : Reported(q) => ~Queued(q) /\ \A t \in Threads : ~May(t, q)

-----------------------------------------------------------------------------
(* What a thread holds of its directory: the entries left, the files       *)
(* gathered, the directory found and those of the tasks are all different. *)
Carries(t) ==
  \/ pc[t] \in {"entries", "files", "found", "emit", "end"}
  \/ pc[t] \in {"progress", "advance", "report"} /\ ret[t] # "complete"

TaskName(t, i) == Last(fresh[t][i].path)

PendingDiffer(t) ==
  /\ \A i \in 1..Len(pending[t]) : pending[t][i] \notin todo[t]
  /\ \A i, j \in 1..Len(pending[t]) : pending[t][i] = pending[t][j] => i = j
TasksDiffer(t) ==
  /\ \A i \in 1..Len(fresh[t]) :
       fresh[t][i].path = Append(dir[t].path, TaskName(t, i)) /\ TaskName(t, i) \in Dirs \ todo[t]
  /\ \A i, j \in 1..Len(fresh[t]) : TaskName(t, i) = TaskName(t, j) => i = j
FoundDiffers(t) ==
  HasFound(t) => found[t] \notin todo[t] /\ \A i \in 1..Len(fresh[t]) : TaskName(t, i) # found[t]

InHand(t) ==
  /\ ~Carries(t) => pending[t] = <<>>
  /\ pc[t] = "emit" => ret[t] # "complete"
  /\ pc[t] = "open" => fresh[t] = <<>>
  /\ pc[t] \in Working => PendingDiffer(t) /\ TasksDiffer(t) /\ FoundDiffers(t)

(* The calls below the one in hand: each path goes on from those before it *)
(* by an entry that they have left behind.                                 *)
Calls ==
  pc[Main] \in Walking =>
    /\ \A i \in 1..Len(callers) :
         /\ Below(dir[Main].path, callers[i].task.path)
         /\ dir[Main].path[Len(callers[i].task.path) + 1] \notin callers[i].todo
    /\ \A j \in 1..Len(callers) : \A i \in 1..(j - 1) :
         /\ Below(callers[j].task.path, callers[i].task.path)
         /\ callers[j].task.path[Len(callers[i].task.path) + 1] \notin callers[i].todo
    /\ Entering => found[Main] \notin todo[Main]
    /\ pc[Main] \in {"walk", "walking"} => found[Main] = Root

NothingYet ==
  pc[Main] = "start" =>
    /\ tasks = <<>> /\ callers = <<>> /\ found[Main] = Root /\ todo[Main] = {}
    /\ received = <<>> /\ \A t \in Threads : buffer[t] = <<>>

(* No path is twice among the events received, under way or held back.     *)
NoRepeat(seq) ==
  \A i, j \in 1..Len(seq) : IsPath(seq[i]) /\ IsPath(seq[j]) /\ seq[i][2] = seq[j][2] => i = j
Apart(seq, other) == PathsIn(seq) \cap PathsIn(other) = {}

PathsOnce ==
  /\ NoRepeat(received)
  /\ \A k \in 1..Len(channel) : NoRepeat(channel[k]) /\ Apart(received, channel[k])
  /\ \A t \in Threads : NoRepeat(buffer[t]) /\ Apart(received, buffer[t])
  /\ \A k, l \in 1..Len(channel) : k # l => Apart(channel[k], channel[l])
  /\ \A t, s \in Threads : t # s => Apart(buffer[t], buffer[s])
  /\ \A k \in 1..Len(channel), t \in Threads : Apart(channel[k], buffer[t])

Parts == (\A t \in Threads : InHand(t)) /\ Calls /\ NothingYet
OnceInv == Territories /\ Parts /\ PathsOnce

-----------------------------------------------------------------------------
(* Paths below paths. *)

LEMMA BelowFacts ==
  ASSUME NEW p \in Paths, NEW e \in Dirs \cup Files
  PROVE  /\ By(Append(p, e), p, e) /\ Append(p, e) \in Paths
         /\ \A q \in Paths : Below(q, Append(p, e)) => By(q, p, e) /\ q # Append(p, e)
         /\ \A f \in Dirs \cup Files : ~Below(Append(p, e), Append(p, f))
<1> DEFINE N == Dirs \cup Files
           a == Append(p, e)
<1>1. /\ p \in Seq(N) /\ a \in Seq(N) /\ Len(a) = Len(p) + 1 /\ a[Len(p) + 1] = e /\ Len(p) \in Nat
      /\ \A i \in 1..Len(p) : a[i] = p[i]
  BY DEF Paths
<1>2. By(a, p, e) /\ a \in Paths
  BY <1>1 DEF By, Below, Paths
<1>3. ASSUME NEW q \in Paths, Below(q, a) PROVE By(q, p, e) /\ q # a
  <2>1. Len(a) < Len(q) /\ \A i \in 1..Len(a) : q[i] = a[i]
    BY <1>3 DEF Below
  <2>2. Len(q) \in Nat
    BY DEF Paths
  <2> HIDE DEF a
  <2>3. q[Len(p) + 1] = e /\ \A i \in 1..Len(p) : q[i] = p[i]
    BY <1>1, <2>1
  <2> QED BY <1>1, <2>1, <2>2, <2>3 DEF By, Below
<1>4. ASSUME NEW f \in N PROVE ~Below(a, Append(p, f))
  <2>1. Len(Append(p, f)) = Len(p) + 1
    BY <1>1
  <2> QED BY <1>1, <2>1 DEF Below
<1> QED BY <1>2, <1>3, <1>4

LEMMA BelowBelow ==
  ASSUME NEW o \in Paths, NEW p \in Paths, NEW q \in Paths, Below(p, o), Below(q, p)
  PROVE  Below(q, o) /\ q[Len(o) + 1] = p[Len(o) + 1]
<1>1. Len(o) \in Nat /\ Len(p) \in Nat /\ Len(q) \in Nat
  BY DEF Paths
<1>2. Len(o) < Len(p) /\ Len(p) < Len(q)
  BY DEF Below
<1>3. \A i \in 1..(Len(o) + 1) : i \in 1..Len(p)
  BY <1>1, <1>2
<1>4. \A i \in 1..(Len(o) + 1) : q[i] = p[i]
  BY <1>3 DEF Below
<1> QED BY <1>1, <1>2, <1>4 DEF Below

LEMMA FrontFacts ==
  ASSUME NEW S, NEW seq \in Seq(S), seq # <<>>
  PROVE  LET n == Len(seq)
         IN  /\ n \in Nat /\ n \in 1..n /\ n - 1 \in Nat
             /\ Last(seq) = seq[n] /\ Last(seq) \in S /\ Len(Front(seq)) = n - 1
             /\ \A i \in 1..(n - 1) : i \in 1..n /\ i # n /\ Front(seq)[i] = seq[i]
<1> DEFINE n == Len(seq)
           m == n - 1
<1>1. n \in Nat /\ n \in 1..n /\ m \in Nat /\ seq[n] \in S
  OBVIOUS
<1>2. \A i \in 1..m : i \in 1..n /\ i # n
  BY <1>1
<1>3. Last(seq) = seq[n] /\ Front(seq) = SubSeq(seq, 1, m)
  BY DEF Last, Front
<1> HIDE DEF m
<1>4. Len(SubSeq(seq, 1, m)) = m /\ \A i \in 1..m : SubSeq(seq, 1, m)[i] = seq[i]
  BY <1>1
<1> QED BY <1>1, <1>2, <1>3, <1>4 DEF m

-----------------------------------------------------------------------------
(* The events of a batch. *)

LEMMA EmptyBatch == PathsIn(<<>>) = {} /\ NoRepeat(<<>>)
BY DEF PathsIn, NoRepeat

LEMMA BatchAppend ==
  ASSUME NEW S, NEW seq \in Seq(S), NEW e \in S
  PROVE  LET new == IF IsPath(e) THEN {e[2]} ELSE {}
         IN  /\ PathsIn(Append(seq, e)) = PathsIn(seq) \cup new
             /\ NoRepeat(seq) /\ new \cap PathsIn(seq) = {} => NoRepeat(Append(seq, e))
<1> DEFINE new == IF IsPath(e) THEN {e[2]} ELSE {}
           n == Len(seq)
           long == Append(seq, e)
<1>1. /\ n \in Nat /\ Len(long) = n + 1 /\ long[n + 1] = e
      /\ \A i \in 1..n : long[i] = seq[i]
  OBVIOUS
<1> HIDE DEF long
<1>2. 1..Len(long) = (1..n) \cup {n + 1} /\ n + 1 \notin 1..n
  BY <1>1
<1> HIDE DEF n
<1>3. PathsIn(long) = PathsIn(seq) \cup new
  <2>1. \A x : x \in PathsIn(long) <=> \E i \in 1..Len(long) : IsPath(long[i]) /\ x = long[i][2]
    BY DEF PathsIn
  <2>2. \A x : x \in PathsIn(seq) <=> \E i \in 1..n : IsPath(seq[i]) /\ x = seq[i][2]
    BY DEF PathsIn, n
  <2> QED BY <1>1, <1>2, <2>1, <2>2
<1>4. ASSUME NoRepeat(seq), new \cap PathsIn(seq) = {} PROVE NoRepeat(long)
  <2> SUFFICES ASSUME NEW i \in 1..Len(long), NEW j \in 1..Len(long),
                      IsPath(long[i]), IsPath(long[j]), long[i][2] = long[j][2]
               PROVE  i = j
    BY DEF NoRepeat
  <2>1. CASE i \in 1..n /\ j \in 1..n
    BY <1>1, <1>4, <2>1 DEF NoRepeat, n
  <2>2. \A k \in 1..n : IsPath(seq[k]) => seq[k][2] \in PathsIn(seq)
    BY DEF PathsIn, n
  <2>3. \A k \in 1..n : IsPath(seq[k]) /\ IsPath(e) => seq[k][2] # e[2]
    BY <1>4, <2>2
  <2> QED BY <1>1, <1>2, <2>1, <2>3
<1> QED BY <1>3, <1>4 DEF long

LEMMA BatchConcat ==
  ASSUME NEW S, NEW seq \in Seq(S), NEW more \in Seq(S)
  PROVE  /\ PathsIn(seq \o more) = PathsIn(seq) \cup PathsIn(more)
         /\ NoRepeat(seq) /\ NoRepeat(more) /\ Apart(seq, more) => NoRepeat(seq \o more)
<1> DEFINE n == Len(seq)
           m == Len(more)
           long == seq \o more
<1>1. /\ n \in Nat /\ m \in Nat /\ Len(long) = n + m
      /\ \A i \in 1..n : long[i] = seq[i]
      /\ \A i \in (n + 1)..(n + m) : long[i] = more[i - n]
  OBVIOUS
<1> HIDE DEF long
<1>2. /\ \A i \in 1..Len(long) : i \in 1..n \/ (i \in (n + 1)..(n + m) /\ i - n \in 1..m)
      /\ \A k \in 1..m : k + n \in 1..Len(long) /\ k + n \in (n + 1)..(n + m) /\ (k + n) - n = k
      /\ \A i \in 1..n : i \in 1..Len(long)
  BY <1>1
<1>3. \A k \in 1..m : long[k + n] = more[k]
  <2> SUFFICES ASSUME NEW k \in 1..m, NEW i, i = k + n PROVE long[i] = more[k]
    OBVIOUS
  <2> DEFINE a == i - n
  <2>1. i \in (n + 1)..(n + m)
    BY <1>1
  <2>2. a = k
    BY <1>1
  <2>3. long[i] = more[a]
    BY <1>1, <2>1
  <2> HIDE DEF a
  <2> QED BY <2>2, <2>3
<1>4. /\ \A x : x \in PathsIn(long) <=> \E i \in 1..Len(long) : IsPath(long[i]) /\ x = long[i][2]
      /\ \A x : x \in PathsIn(seq) <=> \E i \in 1..n : IsPath(seq[i]) /\ x = seq[i][2]
      /\ \A x : x \in PathsIn(more) <=> \E i \in 1..m : IsPath(more[i]) /\ x = more[i][2]
  BY DEF PathsIn
<1>5. \A i \in (n + 1)..(n + m) : i - n \in 1..m
  BY <1>1
<1>6. \A i, j \in (n + 1)..(n + m) : i - n = j - n => i = j
  BY <1>1
<1> HIDE DEF n, m
<1>7. PathsIn(long) = PathsIn(seq) \cup PathsIn(more)
  <2>1. ASSUME NEW x \in PathsIn(long) PROVE x \in PathsIn(seq) \cup PathsIn(more)
    <3>1. PICK i \in 1..Len(long) : IsPath(long[i]) /\ x = long[i][2]
      BY <1>4
    <3>2. CASE i \in 1..n
      BY <1>1, <1>4, <3>1, <3>2
    <3>3. CASE i \in (n + 1)..(n + m)
      <4> DEFINE a == i - n
      <4>1. a \in 1..m /\ long[i] = more[a]
        BY <1>1, <1>5, <3>3
      <4> HIDE DEF a
      <4> QED BY <1>4, <3>1, <4>1
    <3> QED BY <1>2, <3>2, <3>3
  <2>2. ASSUME NEW x \in PathsIn(seq) PROVE x \in PathsIn(long)
    BY <1>1, <1>2, <1>4
  <2>3. ASSUME NEW x \in PathsIn(more) PROVE x \in PathsIn(long)
    BY <1>2, <1>3, <1>4, SMTT(60)
  <2> QED BY <2>1, <2>2, <2>3
<1>8. ASSUME NoRepeat(seq), NoRepeat(more), Apart(seq, more) PROVE NoRepeat(long)
  <2> SUFFICES ASSUME NEW i \in 1..Len(long), NEW j \in 1..Len(long),
                      IsPath(long[i]), IsPath(long[j]), long[i][2] = long[j][2]
               PROVE  i = j
    BY DEF NoRepeat
  <2>1. CASE i \in 1..n /\ j \in 1..n
    BY <1>1, <1>8, <2>1 DEF NoRepeat, n
  <2>2. CASE i \in (n + 1)..(n + m) /\ j \in (n + 1)..(n + m)
    <3> DEFINE a == i - n
               b == j - n
    <3>1. a \in 1..m /\ b \in 1..m /\ long[i] = more[a] /\ long[j] = more[b]
      BY <1>1, <1>5, <2>2
    <3> HIDE DEF a, b
    <3>2. a = b
      BY <1>8, <3>1 DEF NoRepeat, m
    <3> QED BY <1>6, <2>2, <3>2 DEF a, b
  <2>3. \A a \in 1..n, b \in (n + 1)..(n + m) :
          IsPath(long[a]) /\ IsPath(long[b]) => long[a][2] # long[b][2]
    BY <1>1, <1>4, <1>5, <1>8, ZenonT(60) DEF Apart
  <2> QED BY <1>2, <2>1, <2>2, <2>3
<1> QED BY <1>7, <1>8 DEF long

-----------------------------------------------------------------------------
(* The way of the events to the consumer. *)

(* What a thread hands over, or keeps, may be about paths that nobody has  *)
(* reported.                                                               *)
LEMMA HandOver ==
  ASSUME WireOK, PathsOnce, NEW t \in Threads, NEW batch, NEW new, UNCHANGED received,
         NoRepeat(batch), PathsIn(batch) \subseteq PathsIn(buffer[t]) \cup new,
         \A q \in new : ~Reported(q),
         Send(batch), buffer' = [buffer EXCEPT ![t] = <<>>]
  PROVE  PathsOnce' /\ \A q : Reported(q)' => Reported(q) \/ q \in new
<1> DEFINE B == Seq(Event)
           n == Len(channel)
<1>1. channel \in Seq(B) /\ buffer \in [Threads -> Seq(Reports)]
  BY DEF WireOK
<1>2. \/ channel' = channel
      \/ channel' = Append(channel, batch)
  BY DEF Send
<1> HIDE DEF B, Threads, Reports
<1>3. /\ n \in Nat
      /\ \/ channel' = channel
         \/ /\ Len(channel') = n + 1 /\ channel'[n + 1] = batch
            /\ \A k \in 1..n : channel'[k] = channel[k]
  BY <1>1, <1>2
<1>4. /\ buffer'[t] = <<>> /\ \A s \in Threads \ {t} : buffer'[s] = buffer[s]
      /\ PathsIn(<<>>) = {} /\ NoRepeat(<<>>)
  BY <1>1, EmptyBatch
<1>5. \A k \in 1..Len(channel') :
        \/ k \in 1..n /\ channel'[k] = channel[k]
        \/ k = n + 1 /\ k \notin 1..n /\ channel'[k] = batch
  BY <1>3
<1>6. /\ \A q : \A k \in 1..n : q \in PathsIn(channel[k]) => Reported(q)
      /\ \A q : \A s \in Threads : q \in PathsIn(buffer[s]) => Reported(q)
      /\ \A q : q \in PathsIn(received) => Reported(q)
  BY DEF Reported
<1>7. /\ \A k \in 1..n : Apart(batch, channel[k]) /\ Apart(channel[k], batch)
      /\ \A s \in Threads \ {t} : Apart(batch, buffer[s])
      /\ Apart(received, batch)
  BY <1>6 DEF PathsOnce, Apart
<1> HIDE DEF n
<1>8. PathsOnce'
  <2>1. NoRepeat(received)' /\ \A s \in Threads : NoRepeat(buffer'[s]) /\ Apart(received, buffer'[s])
    BY <1>4 DEF PathsOnce, Apart
  <2>2. \A k \in 1..Len(channel') : NoRepeat(channel'[k]) /\ Apart(received, channel'[k])
    BY <1>5, <1>7 DEF PathsOnce, n
  <2>3. \A k, l \in 1..Len(channel') : k # l => Apart(channel'[k], channel'[l])
    BY <1>5, <1>7 DEF PathsOnce, n
  <2>4. \A s, u \in Threads : s # u => Apart(buffer'[s], buffer'[u])
    BY <1>4 DEF PathsOnce, Apart
  <2>5. \A k \in 1..Len(channel'), s \in Threads : Apart(channel'[k], buffer'[s])
    BY <1>4, <1>5, <1>7 DEF PathsOnce, Apart, n
  <2> QED BY <2>1, <2>2, <2>3, <2>4, <2>5 DEF PathsOnce
<1>9. ASSUME NEW q, Reported(q)' PROVE Reported(q) \/ q \in new
  <2>1. \/ q \in PathsIn(received)
        \/ \E k \in 1..Len(channel') : q \in PathsIn(channel'[k])
        \/ \E s \in Threads : q \in PathsIn(buffer'[s])
    BY <1>9 DEF Reported
  <2>2. ASSUME NEW k \in 1..Len(channel'), q \in PathsIn(channel'[k]) PROVE Reported(q) \/ q \in new
    BY <1>5, <1>6, <2>2
  <2>3. ASSUME NEW s \in Threads, q \in PathsIn(buffer'[s]) PROVE Reported(q)
    BY <1>4, <1>6, <2>3
  <2> QED BY <1>6, <2>1, <2>2, <2>3
<1> QED BY <1>8, <1>9

LEMMA KeepBack ==
  ASSUME WireOK, PathsOnce, NEW t \in Threads, NEW batch, NEW new, UNCHANGED <<received, channel>>,
         NoRepeat(batch), PathsIn(batch) \subseteq PathsIn(buffer[t]) \cup new,
         \A q \in new : ~Reported(q),
         buffer' = [buffer EXCEPT ![t] = batch]
  PROVE  PathsOnce' /\ \A q : Reported(q)' => Reported(q) \/ q \in new
<1>1. buffer'[t] = batch /\ \A s \in Threads \ {t} : buffer'[s] = buffer[s]
  BY DEF WireOK
<1> HIDE DEF Threads
<1>2. /\ \A q : \A k \in 1..Len(channel) : q \in PathsIn(channel[k]) => Reported(q)
      /\ \A q : \A s \in Threads : q \in PathsIn(buffer[s]) => Reported(q)
      /\ \A q : q \in PathsIn(received) => Reported(q)
  BY DEF Reported
<1>3. /\ \A k \in 1..Len(channel) : Apart(channel[k], batch)
      /\ \A s \in Threads \ {t} : Apart(batch, buffer[s]) /\ Apart(buffer[s], batch)
      /\ Apart(received, batch)
  BY <1>2 DEF PathsOnce, Apart
<1>4. PathsOnce'
  <2>1. \A s \in Threads : NoRepeat(buffer'[s]) /\ Apart(received, buffer'[s])
    BY <1>1, <1>3 DEF PathsOnce
  <2>2. \A s, u \in Threads : s # u => Apart(buffer'[s], buffer'[u])
    BY <1>1, <1>3 DEF PathsOnce
  <2>3. \A k \in 1..Len(channel), s \in Threads : Apart(channel[k], buffer'[s])
    BY <1>1, <1>3 DEF PathsOnce
  <2> QED BY <2>1, <2>2, <2>3 DEF PathsOnce
<1>5. ASSUME NEW q, Reported(q)' PROVE Reported(q) \/ q \in new
  <2>1. \/ q \in PathsIn(received)
        \/ \E k \in 1..Len(channel) : q \in PathsIn(channel[k])
        \/ \E s \in Threads : q \in PathsIn(buffer'[s])
    BY <1>5 DEF Reported
  <2>2. ASSUME NEW s \in Threads, q \in PathsIn(buffer'[s]) PROVE Reported(q) \/ q \in new
    BY <1>1, <1>2, <2>2
  <2> QED BY <1>2, <2>1, <2>2
<1> QED BY <1>4, <1>5

LEMMA EmitOnce ==
  ASSUME WireOK, PathsOnce, NEW t \in Threads, NEW e \in Event, Emit(t, e), UNCHANGED received,
         IsPath(e) => ~Reported(e[2])
  PROVE  PathsOnce' /\ \A q : Reported(q)' => Reported(q) \/ (IsPath(e) /\ q = e[2])
<1> DEFINE batch == Append(buffer[t], e)
           new == IF IsPath(e) THEN {e[2]} ELSE {}
<1>1. buffer[t] \in Seq(Event) /\ NoRepeat(buffer[t]) /\ \A q \in new : ~Reported(q)
  BY EventFacts DEF WireOK, PathsOnce
<1> HIDE DEF Event, Threads
<1>2. new \cap PathsIn(buffer[t]) = {}
  BY <1>1 DEF Reported
<1>3. PathsIn(batch) = PathsIn(buffer[t]) \cup new /\ NoRepeat(batch)
  BY <1>1, <1>2, BatchAppend
<1>4. \/ Send(batch) /\ buffer' = [buffer EXCEPT ![t] = <<>>]
      \/ UNCHANGED channel /\ buffer' = [buffer EXCEPT ![t] = batch]
  BY DEF Emit
<1> HIDE DEF batch, new
<1>5. PathsOnce' /\ \A q : Reported(q)' => Reported(q) \/ q \in new
  BY <1>1, <1>3, <1>4, HandOver, KeepBack
<1> QED BY <1>5 DEF new

LEMMA FlushOnce ==
  ASSUME WireOK, PathsOnce, NEW t \in Threads, Flush(t), UNCHANGED received
  PROVE  PathsOnce' /\ \A q : Reported(q)' => Reported(q)
<1>1. CASE UNCHANGED delivery
  BY <1>1 DEF delivery, PathsOnce, Reported
<1>2. CASE Send(buffer[t]) /\ buffer' = [buffer EXCEPT ![t] = <<>>]
  <2> DEFINE none == {}
  <2>1. \A q \in none : ~Reported(q)
    OBVIOUS
  <2>2. PICK batch : batch = buffer[t]
    OBVIOUS
  <2>3. NoRepeat(batch) /\ PathsIn(batch) \subseteq PathsIn(buffer[t]) \cup none /\ Send(batch)
    BY <1>2, <2>2 DEF PathsOnce
  <2> HIDE DEF none
  <2>4. PathsOnce' /\ \A q : Reported(q)' => Reported(q) \/ q \in none
    BY <1>2, <2>1, <2>3, HandOver
  <2> QED BY <2>4 DEF none
<1> QED BY <1>1, <1>2 DEF Flush

LEMMA ReceiveOnce ==
  ASSUME WireOK, PathsOnce, Receive
  PROVE  PathsOnce' /\ \A q : Reported(q)' => Reported(q)
<1> DEFINE B == Seq(Event)
           batch == Head(channel)
           n == Len(channel)
           m == Len(channel')
<1>1. /\ channel \in Seq(B) /\ channel # <<>> /\ channel' = Tail(channel)
      /\ received \in Seq(Event) /\ received' = received \o batch /\ buffer' = buffer
  BY DEF Receive, WireOK
<1> HIDE DEF B
<1>2. /\ 1 \in 1..n /\ batch = channel[1] /\ batch \in B
      /\ \A k \in 1..m : k + 1 \in 1..n /\ k + 1 # 1 /\ channel'[k] = channel[k + 1]
      /\ \A k, l \in 1..m : k + 1 = l + 1 => k = l
  BY <1>1
<1> HIDE DEF batch, n, m
<1>3. Apart(received, batch) /\ NoRepeat(received) /\ NoRepeat(batch)
  BY <1>2 DEF PathsOnce, n
<1>4. PathsIn(received') = PathsIn(received) \cup PathsIn(batch) /\ NoRepeat(received')
  BY <1>1, <1>2, <1>3, BatchConcat DEF B
<1>5. \A k \in 1..m : NoRepeat(channel'[k]) /\ Apart(received, channel'[k]) /\ Apart(batch, channel'[k])
  BY <1>2 DEF PathsOnce, n
<1>6. \A k, l \in 1..m : k # l => Apart(channel'[k], channel'[l])
  BY <1>2 DEF PathsOnce, n
<1>7. \A k \in 1..m, t \in Threads : Apart(channel'[k], buffer[t])
  BY <1>2 DEF PathsOnce, n
<1>8. \A t \in Threads : Apart(batch, buffer[t]) /\ Apart(received, buffer[t])
  BY <1>2 DEF PathsOnce, n
<1>9. /\ \A k \in 1..m : Apart(received', channel'[k])
      /\ \A t \in Threads : Apart(received', buffer[t])
  BY <1>4, <1>5, <1>8 DEF Apart
<1>10. PathsOnce'
  BY <1>1, <1>4, <1>5, <1>6, <1>7, <1>9 DEF PathsOnce, m
<1>11. ASSUME NEW q, Reported(q)' PROVE Reported(q)
  <2>1. \/ q \in PathsIn(received) \/ q \in PathsIn(batch)
        \/ \E k \in 1..m : q \in PathsIn(channel'[k])
        \/ \E t \in Threads : q \in PathsIn(buffer[t])
    BY <1>1, <1>4, <1>11 DEF Reported, m
  <2>2. \A k \in 1..n : q \in PathsIn(channel[k]) => Reported(q)
    BY DEF Reported, n
  <2> QED BY <1>2, <2>1, <2>2 DEF Reported
<1> QED BY <1>10, <1>11

LEMMA DropOnce ==
  ASSUME PathsOnce, DropReceiver
  PROVE  PathsOnce' /\ \A q : Reported(q)' => Reported(q)
<1>1. channel' = <<>> /\ buffer' = buffer /\ received' = received
  BY DEF DropReceiver
<1>2. \A k : k \notin 1..Len(channel')
  BY <1>1
<1> QED BY <1>1, <1>2 DEF PathsOnce, Reported

-----------------------------------------------------------------------------
(* What a step may do to the territories: what one thread and the queue    *)
(* may report together only shrinks, none of it is with both, and what is  *)
(* reported is given up.                                                   *)
LEMMA TerritoryStep ==
  ASSUME Territories, NEW t \in Threads,
         \A s \in Threads \ {t}, q \in Paths : May(s, q)' => May(s, q),
         \A q \in Paths : May(t, q)' \/ Queued(q)' => May(t, q) \/ Queued(q),
         \A q \in Paths : ~(May(t, q)' /\ Queued(q)'),
         \A q \in Paths, i, j \in 1..Len(tasks') :
           Below(q, tasks'[i].path) /\ Below(q, tasks'[j].path) => i = j,
         \A q \in Paths : Reported(q)' => Reported(q) \/ (May(t, q) /\ ~May(t, q)' /\ ~Queued(q)')
  PROVE  Territories'
<1>1. \A q \in Paths, s, u \in Threads : May(s, q)' /\ May(u, q)' => s = u
  <2> SUFFICES ASSUME NEW q \in Paths, NEW s \in Threads, NEW u \in Threads, May(s, q)', May(u, q)', s # u
               PROVE  FALSE
    OBVIOUS
  <2>1. CASE s # t /\ u # t
    BY <2>1 DEF Territories
  <2>2. CASE s = t
    <3>1. May(u, q) /\ (May(t, q) \/ Queued(q))
      BY <2>2
    <3> QED BY <2>2, <3>1 DEF Territories
  <2>3. CASE u = t
    <3>1. May(s, q) /\ (May(t, q) \/ Queued(q))
      BY <2>3
    <3> QED BY <2>3, <3>1 DEF Territories
  <2> QED BY <2>1, <2>2, <2>3
<1>2. \A q \in Paths, s \in Threads : ~(May(s, q)' /\ Queued(q)')
  <2> SUFFICES ASSUME NEW q \in Paths, NEW s \in Threads, May(s, q)', Queued(q)', s # t
               PROVE  FALSE
    OBVIOUS
  <2>1. May(s, q) /\ (May(t, q) \/ Queued(q))
    OBVIOUS
  <2> QED BY <2>1 DEF Territories
<1>3. \A q \in Paths : Reported(q)' => ~Queued(q)' /\ \A s \in Threads : ~May(s, q)'
  <2> SUFFICES ASSUME NEW q \in Paths, Reported(q)'
               PROVE  ~Queued(q)' /\ \A s \in Threads : ~May(s, q)'
    OBVIOUS
  <2>1. CASE Reported(q)
    BY <2>1 DEF Territories
  <2>2. CASE May(t, q) /\ ~May(t, q)' /\ ~Queued(q)'
    BY <2>2 DEF Territories
  <2> QED BY <2>1, <2>2
<1> QED BY <1>1, <1>2, <1>3 DEF Territories

(* A step of one thread that takes nothing from the queue and leaves       *)
(* nothing there.                                                          *)
Keeps(t) ==
  /\ UNCHANGED <<tasks, received>> /\ pc'[Main] # "start"
  /\ \A s \in Threads \ {t}, q \in Paths : May(s, q)' => May(s, q)
  /\ \A q \in Paths : May(t, q)' => May(t, q)
  /\ (\A s \in Threads : InHand(s)') /\ Calls'
Tells(t) ==
  \/ UNCHANGED delivery
  \/ Flush(t)
  \/ \E e \in Event : /\ Emit(t, e)
                      /\ IsPath(e) => e[2] \in Paths /\ May(t, e[2]) /\ ~May(t, e[2])'

LEMMA KeepsOnce ==
  ASSUME OnceInv, WireOK, NEW t \in Threads, Keeps(t), Tells(t)
  PROVE  OnceInv'
<1> HIDE DEF Threads, Event
<1>1. /\ Territories /\ PathsOnce /\ UNCHANGED received /\ \A q : Queued(q)' <=> Queued(q)
  BY DEF OnceInv, Keeps, Queued
<1>2. /\ PathsOnce'
      /\ \A q \in Paths : Reported(q)' => Reported(q) \/ (May(t, q) /\ ~May(t, q)')
  <2>1. CASE UNCHANGED delivery
    BY <1>1, <2>1 DEF delivery, PathsOnce, Reported
  <2>2. CASE Flush(t)
    BY <1>1, <2>2, FlushOnce
  <2>3. ASSUME NEW e \in Event, Emit(t, e),
               IsPath(e) => e[2] \in Paths /\ May(t, e[2]) /\ ~May(t, e[2])'
        PROVE  /\ PathsOnce'
               /\ \A q \in Paths : Reported(q)' => Reported(q) \/ (May(t, q) /\ ~May(t, q)')
    <3>1. IsPath(e) => ~Reported(e[2])
      BY <1>1, <2>3 DEF Territories
    <3>2. PathsOnce' /\ \A q : Reported(q)' => Reported(q) \/ (IsPath(e) /\ q = e[2])
      BY <1>1, <2>3, <3>1, EmitOnce
    <3> QED BY <2>3, <3>2
  <2> QED BY <2>1, <2>2, <2>3 DEF Tells
<1>3. Territories'
  <2>1. \A q \in Paths : ~(May(t, q)' /\ Queued(q)')
    BY <1>1 DEF Territories, Keeps
  <2>2. \A q \in Paths, i, j \in 1..Len(tasks') :
           Below(q, tasks'[i].path) /\ Below(q, tasks'[j].path) => i = j
    BY <1>1 DEF Territories, Keeps
  <2>3. \A q \in Paths : Reported(q)' => Reported(q) \/ (May(t, q) /\ ~May(t, q)' /\ ~Queued(q)')
    BY <1>1, <1>2 DEF Territories
  <2>4. /\ \A s \in Threads \ {t}, q \in Paths : May(s, q)' => May(s, q)
        /\ \A q \in Paths : May(t, q)' \/ Queued(q)' => May(t, q) \/ Queued(q)
    BY <1>1 DEF Keeps
  <2> QED BY <1>1, <2>1, <2>2, <2>3, <2>4, TerritoryStep
<1>4. Parts'
  BY DEF Keeps, Parts, NothingYet
<1> QED BY <1>2, <1>3, <1>4 DEF OnceInv

-----------------------------------------------------------------------------
(* A thread at work leaves what the others hold alone. *)
Own(t) ==
  /\ \A s \in Threads \ {t} :
       /\ pc'[s] = pc[s] /\ ret'[s] = ret[s] /\ pending'[s] = pending[s]
       /\ dir'[s] = dir[s] /\ todo'[s] = todo[s] /\ fresh'[s] = fresh[s] /\ found'[s] = found[s]
  /\ t # Main => callers' = callers

LEMMA OthersKeep ==
  ASSUME NEW t \in Threads, Own(t)
  PROVE  /\ \A s \in Threads \ {t}, q \in Paths : May(s, q)' => May(s, q)
         /\ \A s \in Threads \ {t} : InHand(s) => InHand(s)'
         /\ t # Main /\ Calls => Calls'
<1> HIDE DEF Threads, Main, Working, Paths
<1>1. ASSUME NEW s \in Threads \ {t}, NEW q \in Paths, May(s, q)' PROVE May(s, q)
  <2>1. MayProcess(s, q)' => MayProcess(s, q)
    BY DEF Own, MayProcess, HasFound
  <2>2. s = Main /\ MayWalk(q)' => MayWalk(q)
    BY DEF Own, MayWalk, Entering
  <2> QED BY <1>1, <2>1, <2>2 DEF May
<1>2. ASSUME NEW s \in Threads \ {t}, InHand(s) PROVE InHand(s)'
  <2> USE DEF Own
  <2>1. Carries(s)' <=> Carries(s)
    BY DEF Carries
  <2>2. /\ PendingDiffer(s) => PendingDiffer(s)'
        /\ TasksDiffer(s) => TasksDiffer(s)'
        /\ FoundDiffers(s) => FoundDiffers(s)'
    BY DEF PendingDiffer, TasksDiffer, FoundDiffers, HasFound, TaskName
  <2> HIDE DEF Carries, PendingDiffer, TasksDiffer, FoundDiffers
  <2> QED BY <1>2, <2>1, <2>2 DEF InHand
<1>3. ASSUME t # Main, Calls PROVE Calls'
  <2>1. Main \in Threads \ {t}
    BY <1>3, ThreadFacts
  <2> QED BY <1>3, <2>1 DEF Own, Calls, Entering
<1> QED BY <1>1, <1>2, <1>3

LEMMA ProcessIsOwn ==
  ASSUME Shape, NEW t \in Threads, Process(t)
  PROVE  Own(t) /\ UNCHANGED <<tasks, callers, received>> /\ pc[t] \in Working /\ pc'[t] \in Working
<1>1. Fields /\ pc \in [Threads -> Labels] /\ Works(t)
  BY TypesAre, WorkStep DEF Shape, Rest
<1>2. pc[t] \in Working /\ pc'[t] \in Working
  <2>1. pc[t] \in Working
    BY DEF Process, ReadFails, ReadDir, LeaveLoop, EntryFails, Exclude, FileEntry, FindDir, Entry, DirEntry,
       CycleIssue, ClaimFile, EmitFile, FilesEmitted, EndDirectory, LoadItems, Advance, Report, Working
  <2>2. pc[t] \notin Walking
    BY <2>1 DEF Working, Walking
  <2> QED BY <1>1, <2>1, <2>2 DEF Works
<1> HIDE DEF Threads, Labels, Task, Paths, Working
<1>3. /\ \A s \in Threads \ {t} : pc'[s] = pc[s] /\ pending'[s] = pending[s]
      /\ UNCHANGED <<tasks, received>>
  BY <1>1 DEF Works, queue, consumer
<1> DEFINE Rests == /\ \A s \in Threads \ {t} :
                         /\ ret'[s] = ret[s] /\ dir'[s] = dir[s] /\ todo'[s] = todo[s]
                         /\ fresh'[s] = fresh[s] /\ found'[s] = found[s]
                    /\ callers' = callers
<1>4. /\ ret \in [Threads -> {"files", "found", "end", "complete"}] /\ dir \in [Threads -> Task]
      /\ todo \in [Threads -> SUBSET (Dirs \cup Files)] /\ fresh \in [Threads -> Seq(Task)]
      /\ found \in [Threads -> Dirs]
  BY <1>1 DEF Fields
<1>5. ASSUME ReadFails(t) \/ FilesEmitted(t) \/ Advance(t) \/ Report(t) PROVE Rests
  BY <1>4, <1>5 DEF ReadFails, FilesEmitted, Advance, Report, local, place, loop
<1>6. ASSUME ReadDir(t) \/ LeaveLoop(t) PROVE Rests
  BY <1>4, <1>6 DEF ReadDir, LeaveLoop, loop
<1>7. ASSUME \E e \in Dirs \cup Files : EntryFails(t, e) \/ Exclude(t, e) PROVE Rests
  BY <1>4, <1>7 DEF EntryFails, Exclude, loop
<1>8. ASSUME \E f \in Files : FileEntry(t, f) PROVE Rests
  BY <1>4, <1>8 DEF FileEntry, loop
<1>9. ASSUME \E d \in Dirs : FindDir(t, d) PROVE Rests
  BY <1>4, <1>9 DEF FindDir, loop
<1>10. ASSUME DirEntry(t) PROVE Rests
  <2>1. /\ \E x : fresh' = [fresh EXCEPT ![t] = x]
        /\ \E x : found' = [found EXCEPT ![t] = x]
        /\ UNCHANGED <<dir, todo, callers, ret>>
    BY <1>10 DEF DirEntry, loop
  <2> QED BY <1>4, <2>1
<1>11. ASSUME CycleIssue(t) PROVE Rests
  BY <1>4, <1>11 DEF CycleIssue, loop
<1>12. ASSUME ClaimFile(t) \/ EmitFile(t) \/ EndDirectory(t) \/ LoadItems(t) PROVE Rests
  BY <1>4, <1>12 DEF ClaimFile, EmitFile, EndDirectory, LoadItems, place, loop
<1>13. Rests
  BY <1>5, <1>6, <1>7, <1>8, <1>9, <1>10, <1>11, <1>12 DEF Process
<1> QED BY <1>2, <1>3, <1>13 DEF Own

LEMMA AtWorkKeeps ==
  ASSUME OnceInv, Shape, NEW t \in Threads, Process(t), InHand(t)',
         \A q \in Paths : MayProcess(t, q)' => MayProcess(t, q)
  PROVE  /\ Keeps(t)
         /\ \A q : (May(t, q) <=> MayProcess(t, q)) /\ (May(t, q)' <=> MayProcess(t, q)')
<1> HIDE DEF Threads, Workers, Main, Paths
<1>1. /\ Own(t) /\ UNCHANGED <<tasks, callers, received>> /\ pc[t] \in Working /\ pc'[t] \in Working
      /\ Calls /\ \A s \in Threads : InHand(s)
  BY ProcessIsOwn DEF OnceInv, Parts
<1>2. pc[t] \notin Walking /\ pc'[t] \notin Walking
  BY <1>1 DEF Working, Walking
<1>3. \A q : (May(t, q) <=> MayProcess(t, q)) /\ (May(t, q)' <=> MayProcess(t, q)')
  BY <1>2 DEF May, MayWalk
<1>4. Calls'
  <2>1. CASE t = Main
    BY <1>2, <2>1 DEF Calls
  <2> QED BY <1>1, <2>1, OthersKeep
<1>5. pc'[Main] # "start"
  <2>1. CASE t = Main
    BY <1>1, <2>1 DEF Working
  <2>2. CASE t # Main
    <3>1. t \in Workers /\ Main \in Threads \ {t}
      BY <2>2, ThreadFacts
    <3>2. pc[Main] = "join"
      BY <1>1, <3>1 DEF Shape, Phases, Working, Idle
    <3> QED BY <1>1, <3>1, <3>2 DEF Own
  <2> QED BY <2>1, <2>2
<1> QED BY <1>1, <1>3, <1>4, <1>5, OthersKeep DEF Keeps

-----------------------------------------------------------------------------
(* Steps at a directory that report no path: what is left only shrinks.    *)
Silent(t) == UNCHANGED delivery \/ \E e \in Event : Emit(t, e) /\ ~IsPath(e)
Sheds(t) ==
  /\ dir'[t] = dir[t] /\ fresh'[t] = fresh[t] /\ pending'[t] = pending[t] /\ todo'[t] \subseteq todo[t]
  /\ pc'[t] # "open" /\ (pc'[t] = "emit" => ret'[t] # "complete")
  /\ HasFound(t)' => HasFound(t) /\ found'[t] = found[t]
  /\ ~Carries(t)' => pending[t] = <<>>

LEMMA IssueSilent ==
  ASSUME NEW t \in Threads, NEW kind \in Kinds, NEW path \in Paths, EmitIssue(t, kind, path)
  PROVE  Silent(t)
<1>1. <<"issue", kind, path>> \in Event /\ ~IsPath(<<"issue", kind, path>>)
  BY EventFacts DEF IsPath
<1> QED BY <1>1 DEF EmitIssue, Silent

LEMMA ProgressSilent ==
  ASSUME NEW t \in Threads, NEW n \in Nat, Emit(t, <<"progress", n>>)
  PROVE  Silent(t)
<1>1. <<"progress", n>> \in Event /\ ~IsPath(<<"progress", n>>)
  BY EventFacts DEF IsPath
<1> QED BY <1>1 DEF Silent

LEMMA ShedsKeepOnce ==
  ASSUME OnceInv, Shape, NEW t \in Threads, Process(t), Sheds(t), Silent(t)
  PROVE  OnceInv'
<1> HIDE DEF Threads, Workers, Main, Paths, Event
<1>1. pc[t] \in Working /\ pc'[t] \in Working /\ InHand(t) /\ WireOK
  BY ProcessIsOwn DEF OnceInv, Parts, Shape
<1>2. \A q \in Paths : MayProcess(t, q)' => MayProcess(t, q)
  BY <1>1 DEF MayProcess, Sheds
<1>3. InHand(t)'
  <2>1. PendingDiffer(t)'
    BY <1>1 DEF InHand, PendingDiffer, Sheds
  <2>2. TasksDiffer(t)'
    BY <1>1 DEF InHand, TasksDiffer, TaskName, Sheds
  <2>3. FoundDiffers(t)'
    BY <1>1 DEF InHand, FoundDiffers, TaskName, Sheds
  <2> QED BY <2>1, <2>2, <2>3 DEF InHand, Sheds
<1>4. Keeps(t)
  BY <1>2, <1>3, AtWorkKeeps
<1>5. Tells(t)
  BY DEF Silent, Tells
<1> QED BY <1>1, <1>4, <1>5, KeepsOnce

Shedding(t) ==
  \/ ReadFails(t) \/ LeaveLoop(t) \/ CycleIssue(t) \/ ClaimFile(t) \/ FilesEmitted(t)
  \/ \E e \in Dirs \cup Files : EntryFails(t, e) \/ Exclude(t, e)
  \/ EndDirectory(t) \/ LoadItems(t) \/ Advance(t) \/ Report(t)

LEMMA SheddingStep ==
  ASSUME OnceInv, Shape, NEW t \in Threads, Shedding(t)
  PROVE  Sheds(t) /\ Silent(t)
<1>2. /\ pc \in [Threads -> Labels] /\ Fields /\ InHand(t) /\ \A s \in Threads : dir[s].path \in Paths
  BY TypesAre, PathFacts DEF Shape, Rest, OnceInv, Parts, Fields, Task, Paths
<1> HIDE DEF Threads, Labels, Task, Paths, Event, Kinds
<1>3. /\ ret \in [Threads -> {"files", "found", "end", "complete"}] /\ dir \in [Threads -> Task]
      /\ todo \in [Threads -> SUBSET (Dirs \cup Files)] /\ fresh \in [Threads -> Seq(Task)]
      /\ found \in [Threads -> Dirs] /\ pending \in [Threads -> Seq(Files)] /\ items \in [Threads -> Nat]
  BY <1>2 DEF Fields
<1>4. "directory" \in Kinds /\ "entry" \in Kinds /\ "cycle" \in Kinds
  BY DEF Kinds
<1>5. ASSUME ReadFails(t) PROVE Sheds(t) /\ Silent(t)
  <2>1. Silent(t)
    BY <1>2, <1>4, <1>5, IssueSilent DEF ReadFails
  <2>2. /\ pc[t] = "open" /\ pc'[t] = "complete"
        /\ UNCHANGED local
    BY <1>2, <1>5 DEF ReadFails, Goto
  <2>3. pending[t] = <<>>
    BY <1>2, <2>2 DEF InHand, Carries
  <2> QED BY <2>1, <2>2, <2>3 DEF local, place, totals, loop, Sheds, HasFound
<1>6. ASSUME LeaveLoop(t) PROVE Sheds(t) /\ Silent(t)
  BY <1>2, <1>3, <1>6 DEF LeaveLoop, Goto, totals, loop, Sheds, HasFound, Carries, Silent
<1>7. ASSUME CycleIssue(t) PROVE Sheds(t) /\ Silent(t)
  <2>1. Silent(t)
    <3>1. Append(dir[t].path, found[t]) \in Paths
      BY <1>3, PathFacts
    <3> QED BY <1>4, <1>7, <3>1, IssueSilent DEF CycleIssue
  <2> QED BY <1>2, <1>7, <2>1 DEF CycleIssue, Goto, totals, loop, Sheds, HasFound, Carries
<1>8. ASSUME ClaimFile(t) PROVE Sheds(t) /\ Silent(t)
  <2>1. /\ pc[t] \in {"files", "found", "end"} /\ pc'[t] = "emit" /\ ret'[t] = pc[t]
        /\ UNCHANGED <<place, pending, delivery>>
    BY <1>2, <1>3, <1>8 DEF ClaimFile, Goto
  <2> QED BY <2>1 DEF place, Sheds, HasFound, Carries, Silent
<1>9. ASSUME FilesEmitted(t) PROVE Sheds(t) /\ Silent(t)
  BY <1>2, <1>9 DEF FilesEmitted, Goto, local, place, totals, loop, Sheds, HasFound, Carries, Silent
<1>10. ASSUME NEW e \in Dirs \cup Files, EntryFails(t, e) PROVE Sheds(t) /\ Silent(t)
  <2>1. Silent(t)
    <3>1. Append(dir[t].path, e) \in Paths /\ dir[t].path \in Paths
      BY <1>2, <1>3, PathFacts
    <3> QED BY <1>4, <1>10, <3>1, IssueSilent DEF EntryFails
  <2> QED BY <1>3, <1>10, <2>1 DEF EntryFails, Entry, totals, loop, Sheds, HasFound, Carries
<1>11. ASSUME NEW e \in Dirs \cup Files, Exclude(t, e) PROVE Sheds(t) /\ Silent(t)
  BY <1>3, <1>11 DEF Exclude, Entry, totals, loop, Sheds, HasFound, Carries, Silent
<1>12. ASSUME EndDirectory(t) PROVE Sheds(t) /\ Silent(t)
  <2>1. /\ pc[t] = "end" /\ pending[t] = <<>> /\ pc'[t] = "progress" /\ ret'[t] = "complete"
        /\ UNCHANGED <<place, pending, delivery>>
    BY <1>2, <1>3, <1>12 DEF EndDirectory, Goto
  <2> QED BY <2>1 DEF place, Sheds, HasFound, Carries, Silent
<1>13. ASSUME LoadItems(t) PROVE Sheds(t) /\ Silent(t)
  <2>1. /\ pc[t] = "progress" /\ pc'[t] = "advance"
        /\ UNCHANGED <<place, totals, ret, delivery>>
    BY <1>2, <1>13 DEF LoadItems, Goto
  <2> QED BY <1>2, <2>1 DEF place, totals, InHand, Sheds, HasFound, Carries, Silent
<1>14. ASSUME Advance(t) PROVE Sheds(t) /\ Silent(t)
  <2>1. /\ pc[t] = "advance" /\ pc'[t] \in {"report", ret[t]}
        /\ UNCHANGED <<local, delivery>>
    BY <1>2, <1>14 DEF Advance, Goto
  <2>2. ret[t] \in {"files", "found", "end", "complete"}
    BY <1>3
  <2> QED BY <1>2, <2>1, <2>2 DEF local, place, totals, loop, InHand, Sheds, HasFound, Carries, Silent
<1>15. ASSUME Report(t) PROVE Sheds(t) /\ Silent(t)
  <2>1. Silent(t)
    BY <1>3, <1>15, ProgressSilent DEF Report
  <2>2. /\ pc[t] = "report" /\ pc'[t] = ret[t] /\ UNCHANGED local
    BY <1>2, <1>15 DEF Report, Goto
  <2>3. ret[t] \in {"files", "found", "end", "complete"}
    BY <1>3
  <2> QED BY <1>2, <2>1, <2>2, <2>3 DEF local, place, totals, loop, InHand, Sheds, HasFound, Carries
<1> QED BY <1>5, <1>6, <1>7, <1>8, <1>9, <1>10, <1>11, <1>12, <1>13, <1>14, <1>15 DEF Shedding

LEMMA SheddingKeepsOnce ==
  ASSUME OnceInv, Shape, NEW t \in Threads, Shedding(t)
  PROVE  OnceInv'
BY SheddingStep, ShedsKeepOnce DEF Shedding, Process

-----------------------------------------------------------------------------
(* Steps at a directory that move entries on or report them. *)

LEMMA MovesKeepOnce ==
  ASSUME OnceInv, Shape, NEW t \in Threads, Process(t), InHand(t)',
         \A q \in Paths : MayProcess(t, q)' => MayProcess(t, q),
         \/ UNCHANGED delivery
         \/ \E e \in Event : /\ Emit(t, e) /\ e[2] \in Paths
                             /\ MayProcess(t, e[2]) /\ ~MayProcess(t, e[2])'
  PROVE  OnceInv'
<1> HIDE DEF Threads, Event, Paths
<1>1. /\ Keeps(t) /\ WireOK
      /\ \A q : (May(t, q) <=> MayProcess(t, q)) /\ (May(t, q)' <=> MayProcess(t, q)')
  BY AtWorkKeeps DEF Shape
<1>2. Tells(t)
  BY <1>1 DEF Tells
<1> QED BY <1>1, <1>2, KeepsOnce

LEMMA ReadDirKeepsOnce ==
  ASSUME OnceInv, Shape, NEW t \in Threads, ReadDir(t)
  PROVE  OnceInv'
<1>1. Process(t)
  BY DEF Process
<1>2. InHand(t) /\ Fields /\ pc \in [Threads -> Labels]
  BY TypesAre DEF Shape, Rest, OnceInv, Parts
<1> HIDE DEF Threads, Labels, Paths, Task
<1>3. /\ pc[t] = "open" /\ pc'[t] = "entries" /\ todo'[t] = Entries(dir[t].path)
      /\ UNCHANGED <<dir, fresh, pending, delivery>>
  BY <1>2 DEF ReadDir, Goto, Fields, totals
<1>4. pending[t] = <<>> /\ fresh[t] = <<>> /\ ~HasFound(t)'
  BY <1>2, <1>3 DEF InHand, Carries, HasFound
<1>5. \A i : i \notin 1..Len(pending'[t]) /\ i \notin 1..Len(fresh'[t])
  BY <1>3, <1>4
<1>6. ASSUME NEW q \in Paths, MayProcess(t, q)' PROVE MayProcess(t, q)
  <2>1. Below(q, dir[t].path)
    BY <1>3, <1>4, <1>5, <1>6 DEF MayProcess, By
  <2> QED BY <1>3, <2>1 DEF MayProcess, Working
<1>7. InHand(t)'
  <2>1. PendingDiffer(t)' /\ TasksDiffer(t)'
    BY <1>5 DEF PendingDiffer, TasksDiffer
  <2>2. FoundDiffers(t)' /\ Carries(t)'
    BY <1>3, <1>4 DEF FoundDiffers, Carries
  <2> QED BY <1>3, <2>1, <2>2 DEF InHand
<1> QED BY <1>1, <1>3, <1>6, <1>7, MovesKeepOnce

LEMMA FileEntryKeepsOnce ==
  ASSUME OnceInv, Shape, NEW t \in Threads, NEW f \in Files, FileEntry(t, f)
  PROVE  OnceInv'
<1>1. Process(t)
  BY DEF Process
<1>2. InHand(t) /\ Fields /\ pc \in [Threads -> Labels]
  BY TypesAre DEF Shape, Rest, OnceInv, Parts
<1> HIDE DEF Threads, Labels, Paths, Task
<1>3. /\ pc[t] = "entries" /\ pc'[t] \in {"files", "entries"} /\ f \in todo[t]
      /\ todo'[t] = todo[t] \ {f} /\ pending'[t] = Append(pending[t], f) /\ pending[t] \in Seq(Files)
      /\ UNCHANGED <<dir, fresh, found, delivery>>
  BY <1>2 DEF FileEntry, Entry, Goto, Fields
<1> DEFINE n == Len(pending[t])
<1>4. /\ \A i \in 1..Len(pending'[t]) : \/ i \in 1..n /\ pending'[t][i] = pending[t][i]
                                        \/ i = n + 1 /\ i \notin 1..n /\ pending'[t][i] = f
      /\ ~HasFound(t)' /\ Carries(t)' /\ pc[t] \in Working /\ pc'[t] # "open" /\ pc'[t] # "emit"
  BY <1>3 DEF HasFound, Carries, Working
<1>5. \A q \in Paths : MayProcess(t, q)' => MayProcess(t, q)
  BY <1>3, <1>4 DEF MayProcess
<1>6. InHand(t)'
  <2>1. PendingDiffer(t)'
    BY <1>2, <1>3, <1>4 DEF InHand, PendingDiffer
  <2>2. TasksDiffer(t)'
    BY <1>2, <1>3, <1>4 DEF InHand, TasksDiffer, TaskName
  <2>3. FoundDiffers(t)'
    BY <1>4 DEF FoundDiffers
  <2> QED BY <1>4, <2>1, <2>2, <2>3 DEF InHand
<1> QED BY <1>1, <1>3, <1>5, <1>6, MovesKeepOnce

LEMMA FindDirKeepsOnce ==
  ASSUME OnceInv, Shape, NEW t \in Threads, NEW d \in Dirs, FindDir(t, d)
  PROVE  OnceInv'
<1>1. Process(t)
  BY DEF Process
<1>2. InHand(t) /\ Fields /\ pc \in [Threads -> Labels]
  BY TypesAre DEF Shape, Rest, OnceInv, Parts
<1> HIDE DEF Threads, Labels, Paths, Task
<1>3. /\ pc[t] = "entries" /\ pc'[t] = "found" /\ d \in todo[t]
      /\ todo'[t] = todo[t] \ {d} /\ found'[t] = d
      /\ UNCHANGED <<dir, fresh, pending, delivery>>
  BY <1>2 DEF FindDir, Entry, Goto, Fields, totals
<1>4. Carries(t)' /\ pc[t] \in Working
  BY <1>3 DEF Carries, Working
<1>5. \A q \in Paths : MayProcess(t, q)' => MayProcess(t, q)
  BY <1>3, <1>4 DEF MayProcess
<1>6. InHand(t)'
  <2>1. PendingDiffer(t)'
    BY <1>2, <1>3, <1>4 DEF InHand, PendingDiffer
  <2>2. TasksDiffer(t)'
    BY <1>2, <1>3, <1>4 DEF InHand, TasksDiffer, TaskName
  <2>3. FoundDiffers(t)'
    BY <1>2, <1>3, <1>4 DEF InHand, FoundDiffers, TasksDiffer, TaskName
  <2> QED BY <1>3, <1>4, <2>1, <2>2, <2>3 DEF InHand
<1> QED BY <1>1, <1>3, <1>5, <1>6, MovesKeepOnce

LEMMA DirEntryKeepsOnce ==
  ASSUME OnceInv, Shape, NEW t \in Threads, DirEntry(t)
  PROVE  OnceInv'
<1> DEFINE p == dir[t].path
           d == found[t]
           here == Append(p, d)
           child == Child(dir[t], d)
           n == Len(fresh[t])
<1>1. Process(t)
  BY DEF Process
<1>2. InHand(t) /\ Fields /\ pc \in [Threads -> Labels] /\ setup \in Setup
  BY TypesAre DEF Shape, Rest, OnceInv, Parts
<1>3. /\ p \in Paths /\ here \in Paths /\ d \in Dirs
      /\ fresh[t] \in Seq(Task) /\ Last(here) = d
  <2>1. p \in Seq(Dirs \cup Files) /\ d \in Dirs /\ fresh[t] \in Seq(Task)
    BY <1>2, PathFacts DEF Fields, Paths, Task
  <2> HIDE DEF p, d
  <2> QED BY <2>1 DEF Paths, Last
<1>4. child.path = here
  BY DEF Child
<1> HIDE DEF Threads, Labels, Paths, Task, here, child, d, p
<1>5. /\ pc[t] = "found" /\ pc'[t] \in {"cycle", "entries"} /\ pending[t] = <<>>
      /\ fresh'[t] = fresh[t] \/ fresh'[t] = Append(fresh[t], child)
      /\ Emit(t, <<"dir", here>>)
      /\ UNCHANGED <<dir, todo, pending>>
  BY <1>2 DEF DirEntry, Goto, Fields, totals, here, child, d, p
<1>6. /\ \A i \in 1..Len(fresh'[t]) : \/ i \in 1..n /\ fresh'[t][i] = fresh[t][i]
                                      \/ i = n + 1 /\ i \notin 1..n /\ fresh'[t][i] = child
      /\ ~HasFound(t)' /\ HasFound(t) /\ pc[t] \in Working /\ dir'[t].path = p
      /\ \A i : i \notin 1..Len(pending'[t])
  BY <1>3, <1>5 DEF HasFound, Working, p
<1> HIDE DEF n
<1>7. /\ By(here, p, d)
      /\ \A q \in Paths : Below(q, here) => By(q, p, d) /\ q # here
      /\ \A f \in Dirs \cup Files : ~Below(here, Append(p, f))
  BY <1>3, BelowFacts DEF here
<1>8. /\ PendingDiffer(t) /\ TasksDiffer(t)
      /\ d \notin todo[t] /\ \A i \in 1..n : TaskName(t, i) # d
  BY <1>2, <1>6 DEF InHand, FoundDiffers, d, n
<1>9. \A q \in Paths : MayProcess(t, q)' => MayProcess(t, q)
  <2> SUFFICES ASSUME NEW q \in Paths, MayProcess(t, q)' PROVE MayProcess(t, q)
    OBVIOUS
  <2>1. \/ \E e \in todo[t] : By(q, p, e)
        \/ \E i \in 1..n : Below(q, fresh[t][i].path)
        \/ Below(q, here)
    BY <1>4, <1>5, <1>6 DEF MayProcess
  <2>2. \/ \E e \in todo[t] : By(q, p, e)
        \/ \E i \in 1..n : Below(q, fresh[t][i].path)
        \/ By(q, p, d)
    BY <1>7, <2>1
  <2> QED BY <1>6, <2>2 DEF MayProcess, n, p, d
<1>10. InHand(t)'
  <2>1. PendingDiffer(t)'
    BY <1>6 DEF PendingDiffer
  <2>2. /\ \A i \in 1..n : /\ fresh[t][i].path = Append(p, TaskName(t, i))
                           /\ TaskName(t, i) \in Dirs \ todo[t]
        /\ \A i, j \in 1..n : TaskName(t, i) = TaskName(t, j) => i = j
    BY <1>8 DEF TasksDiffer, n, p
  <2>3. \A i \in 1..Len(fresh'[t]) :
          \/ i \in 1..n /\ Last(fresh'[t][i].path) = TaskName(t, i) /\ fresh'[t][i] = fresh[t][i]
          \/ i = n + 1 /\ i \notin 1..n /\ Last(fresh'[t][i].path) = d /\ fresh'[t][i].path = here
    BY <1>3, <1>4, <1>6 DEF TaskName
  <2>4. TasksDiffer(t)'
    <3>1. \A i \in 1..Len(fresh'[t]) : /\ fresh'[t][i].path = Append(p, Last(fresh'[t][i].path))
                                       /\ Last(fresh'[t][i].path) \in Dirs \ todo[t]
      BY <1>3, <1>8, <2>2, <2>3 DEF here
    <3>2. \A i, j \in 1..Len(fresh'[t]) : Last(fresh'[t][i].path) = Last(fresh'[t][j].path) => i = j
      BY <1>8, <2>2, <2>3
    <3> QED BY <1>5, <1>6, <3>1, <3>2 DEF TasksDiffer, TaskName
  <2>5. FoundDiffers(t)'
    BY <1>6 DEF FoundDiffers
  <2> QED BY <1>5, <2>1, <2>4, <2>5 DEF InHand
<1>11. PICK q \in Paths : q = here
  BY <1>3
<1>12. MayProcess(t, q)
  BY <1>6, <1>7, <1>11 DEF MayProcess, d, p
<1>13. ~MayProcess(t, q)'
  <2> SUFFICES ASSUME MayProcess(t, q)' PROVE FALSE
    OBVIOUS
  <2>1. \/ \E e \in todo[t] : By(here, p, e)
        \/ \E i \in 1..n : Below(here, fresh[t][i].path)
        \/ Below(here, here)
    BY <1>4, <1>5, <1>6, <1>11 DEF MayProcess
  <2>2. ~ \E e \in todo[t] : By(here, p, e)
    BY <1>7, <1>8 DEF By
  <2>3. \A i \in 1..n : fresh[t][i].path = Append(p, TaskName(t, i)) /\ TaskName(t, i) \in Dirs \cup Files
    BY <1>8 DEF TasksDiffer, n, p
  <2> QED BY <1>3, <1>7, <2>1, <2>2, <2>3
<1> DEFINE e == <<"dir", here>>
<1>14. e \in Event /\ Emit(t, e) /\ e[2] = q
  BY <1>3, <1>5, <1>11, EventFacts
<1> HIDE DEF e
<1>15. PICK event \in Event : event = e
  BY <1>14
<1> QED BY <1>1, <1>9, <1>10, <1>12, <1>13, <1>14, <1>15, MovesKeepOnce

LEMMA EmitFileKeepsOnce ==
  ASSUME OnceInv, Shape, NEW t \in Threads, EmitFile(t)
  PROVE  OnceInv'
<1> DEFINE p == dir[t].path
           f == Head(pending[t])
           here == Append(p, f)
<1>1. Process(t)
  BY DEF Process
<1>2. InHand(t) /\ Fields /\ pc \in [Threads -> Labels] /\ pc[t] = "emit" /\ pending[t] # <<>>
  BY TypesAre DEF Shape, Rest, Held, OnceInv, Parts, EmitFile
<1>3. /\ p \in Paths /\ pending[t] \in Seq(Files) /\ found[t] \in Dirs /\ charge[t] \in Nat
      /\ ret[t] \in {"files", "found", "end", "complete"} /\ ret[t] # "complete"
  <2>1. dir[t] \in Task /\ pending[t] \in Seq(Files) /\ found[t] \in Dirs /\ charge[t] \in Nat
        /\ ret[t] \in {"files", "found", "end", "complete"}
    BY <1>2 DEF Fields
  <2>2. p \in Seq(Dirs \cup Files)
    BY <2>1 DEF Task
  <2> QED BY <1>2, <2>1, <2>2 DEF Paths, InHand
<1>4. /\ f \in Files /\ 1 \in 1..Len(pending[t]) /\ pending[t][1] = f
      /\ \A i \in 1..Len(Tail(pending[t])) :
           /\ i + 1 \in 1..Len(pending[t]) /\ i + 1 # 1
           /\ Tail(pending[t])[i] = pending[t][i + 1]
      /\ \A i, j \in 1..Len(Tail(pending[t])) : i + 1 = j + 1 => i = j
  BY <1>2, <1>3
<1> HIDE DEF Threads, Labels, Paths, Task, Event, p, f, here
<1>5. /\ pc'[t] \in {"progress", ret[t]} /\ pending'[t] = Tail(pending[t])
      /\ Emit(t, <<"file", here, charge[t]>>)
      /\ UNCHANGED <<dir, todo, fresh, found, ret>>
  BY <1>2 DEF EmitFile, Goto, Fields, place, loop, here, f, p
<1>6. /\ Carries(t)' /\ pc[t] \in Working /\ dir'[t].path = p
      /\ pc'[t] # "open" /\ pc'[t] # "emit" /\ (HasFound(t)' => HasFound(t))
  BY <1>2, <1>3, <1>5 DEF HasFound, Working, Carries, p
<1>7. /\ By(here, p, f) /\ here \in Paths
      /\ \A d \in Dirs \cup Files : ~Below(here, Append(p, d))
  BY <1>3, <1>4, BelowFacts DEF here
<1>8. PendingDiffer(t) /\ TasksDiffer(t) /\ FoundDiffers(t)
  BY <1>2, <1>6 DEF InHand
<1>9. \A i \in 1..Len(pending'[t]) : \E k \in 1..Len(pending[t]) : k # 1 /\ pending'[t][i] = pending[t][k]
  BY <1>4, <1>5
<1>10. \A q \in Paths : MayProcess(t, q)' => MayProcess(t, q)
  <2> SUFFICES ASSUME NEW q \in Paths, MayProcess(t, q)' PROVE MayProcess(t, q)
    OBVIOUS
  <2>1. \/ \E e \in todo[t] : By(q, p, e)
        \/ \E i \in 1..Len(pending[t]) : By(q, p, pending[t][i])
        \/ HasFound(t) /\ By(q, p, found[t])
        \/ \E i \in 1..Len(fresh[t]) : Below(q, fresh[t][i].path)
    BY <1>5, <1>6, <1>9 DEF MayProcess
  <2> QED BY <1>6, <2>1 DEF MayProcess, p
<1>11. InHand(t)'
  <2>1. PendingDiffer(t)'
    <3>1. \A i \in 1..Len(pending'[t]) : pending'[t][i] \notin todo[t]
      BY <1>8, <1>9 DEF PendingDiffer
    <3>2. \A i, j \in 1..Len(pending'[t]) : pending'[t][i] = pending'[t][j] => i = j
      BY <1>4, <1>5, <1>8 DEF PendingDiffer
    <3> QED BY <1>5, <3>1, <3>2 DEF PendingDiffer
  <2>2. TasksDiffer(t)'
    BY <1>5, <1>8 DEF TasksDiffer, TaskName
  <2>3. FoundDiffers(t)'
    BY <1>5, <1>6, <1>8 DEF FoundDiffers, TaskName
  <2> QED BY <1>6, <2>1, <2>2, <2>3 DEF InHand
<1>12. PICK q \in Paths : q = here
  BY <1>7
<1>13. MayProcess(t, q)
  BY <1>4, <1>6, <1>7, <1>12 DEF MayProcess, p
<1>14. ~MayProcess(t, q)'
  <2> SUFFICES ASSUME MayProcess(t, q)' PROVE FALSE
    OBVIOUS
  <2>1. \/ \E e \in todo[t] : By(here, p, e)
        \/ \E i \in 1..Len(pending[t]) : i # 1 /\ By(here, p, pending[t][i])
        \/ By(here, p, found[t])
        \/ \E i \in 1..Len(fresh[t]) : Below(here, fresh[t][i].path)
    BY <1>5, <1>6, <1>9, <1>12 DEF MayProcess
  <2>2. f \notin todo[t] /\ \A i \in 1..Len(pending[t]) : i # 1 => pending[t][i] # f
    BY <1>4, <1>8 DEF PendingDiffer
  <2>3. found[t] # f
    BY <1>3, <1>4, WalkAssumption
  <2>4. \A i \in 1..Len(fresh[t]) : fresh[t][i].path = Append(p, TaskName(t, i)) /\ TaskName(t, i) \in Dirs
    BY <1>8 DEF TasksDiffer, p
  <2> QED BY <1>7, <2>1, <2>2, <2>3, <2>4 DEF By
<1> DEFINE e == <<"file", here, charge[t]>>
<1>15. e \in Event /\ Emit(t, e) /\ e[2] = q
  BY <1>3, <1>5, <1>7, <1>12, EventFacts
<1> HIDE DEF e
<1>16. PICK event \in Event : event = e
  BY <1>15
<1> QED BY <1>1, <1>10, <1>11, <1>13, <1>14, <1>15, <1>16, MovesKeepOnce

LEMMA ProcessKeepsOnce ==
  ASSUME OnceInv, Shape, NEW t \in Threads, Process(t)
  PROVE  OnceInv'
BY SheddingKeepsOnce, ReadDirKeepsOnce, FileEntryKeepsOnce, FindDirKeepsOnce, DirEntryKeepsOnce,
   EmitFileKeepsOnce DEF Process, Shedding

-----------------------------------------------------------------------------
(* The scan thread that walks alone. *)

LEMMA WalkIsOwn ==
  ASSUME Shape, Walk
  PROVE  /\ Own(Main) /\ UNCHANGED <<tasks, received, pending>>
         /\ pc[Main] \in Walking /\ pc'[Main] \in Walking
<1>1. Fields /\ pc \in [Threads -> Labels] /\ setup \in Setup
  BY TypesAre DEF Shape, Rest
<1>2. Walks
  BY <1>1, WalkStep
<1> HIDE DEF Threads, Main, Labels, Task, Paths, Walking
<1>3. Main \in Threads
  BY ThreadFacts
<1>4. /\ pc[Main] \in Walking /\ pc'[Main] \in Walking
      /\ \A s \in Threads \ {Main} : pc'[s] = pc[s]
      /\ UNCHANGED <<tasks, received, pending>>
  BY <1>1, <1>2, <1>3 DEF Walks, queue, consumer
<1> DEFINE Rests == \A s \in Threads \ {Main} :
                      /\ ret'[s] = ret[s] /\ dir'[s] = dir[s] /\ todo'[s] = todo[s]
                      /\ fresh'[s] = fresh[s] /\ found'[s] = found[s]
<1>5. /\ dir \in [Threads -> Task] /\ todo \in [Threads -> SUBSET (Dirs \cup Files)]
      /\ found \in [Threads -> Dirs]
  BY <1>1 DEF Fields
<1>6. ASSUME Return, UNCHANGED <<fresh, found, ret>> PROVE Rests
  <2>1. \E x : todo' = [todo EXCEPT ![Main] = x]
    BY <1>6 DEF Return
  <2>2. dir' = dir \/ \E x : dir' = [dir EXCEPT ![Main] = x]
    BY <1>6 DEF Return
  <2> QED BY <1>5, <1>6, <2>1, <2>2
<1>7. ASSUME WalkReadFails \/ WalkReturn PROVE Rests
  BY <1>6, <1>7 DEF WalkReadFails, WalkReturn, loop
<1>8. ASSUME WalkReadDir PROVE Rests
  BY <1>5, <1>8 DEF WalkReadDir, loop
<1>9. ASSUME NEW e \in Dirs \cup Files, WalkEntryFails(e) \/ WalkExclude(e) PROVE Rests
  BY <1>5, <1>9 DEF WalkEntryFails, WalkExclude, WalkEntry, loop
<1>10. ASSUME NEW d \in Dirs, WalkDir(d) PROVE Rests
  BY <1>5, <1>10 DEF WalkDir, WalkEntry, loop
<1>11. ASSUME NEW f \in Files, WalkFile(f) PROVE Rests
  BY <1>5, <1>11 DEF WalkFile, WalkEntry, loop
<1>12. ASSUME WalkProgress PROVE Rests
  BY <1>12 DEF WalkProgress, local, place, loop
<1>13. ASSUME WalkDescend PROVE Rests
  BY <1>5, <1>13 DEF WalkDescend, loop
<1>14. ASSUME WalkPassBy PROVE Rests
  BY <1>5, <1>14 DEF WalkPassBy, loop
<1>15. Rests
  BY <1>7, <1>8, <1>9, <1>10, <1>11, <1>12, <1>13, <1>14 DEF Walk
<1> QED BY <1>4, <1>15 DEF Own

(* It keeps the invariant if what it may report shrinks, and its calls     *)
(* still go on from each other by entries left behind.                     *)
LEMMA WalksKeepOnce ==
  ASSUME OnceInv, Shape, Walk, Calls',
         \A q \in Paths : MayWalk(q)' => MayWalk(q),
         \/ Silent(Main)
         \/ \E e \in Event : Emit(Main, e) /\ e[2] \in Paths /\ MayWalk(e[2]) /\ ~MayWalk(e[2])'
  PROVE  OnceInv'
<1>1. /\ Own(Main) /\ UNCHANGED <<tasks, received, pending>> /\ WireOK
      /\ pc[Main] \in Walking /\ pc'[Main] \in Walking
      /\ \A s \in Threads : InHand(s)
  BY WalkIsOwn DEF OnceInv, Parts, Shape
<1> HIDE DEF Threads, Main, Event, Paths
<1>2. Main \in Threads
  BY ThreadFacts
<1>3. pc[Main] \notin Working /\ pc'[Main] \notin Working /\ pc'[Main] # "start"
  BY <1>1 DEF Working, Walking
<1>4. \A q : (May(Main, q) <=> MayWalk(q)) /\ (May(Main, q)' <=> MayWalk(q)')
  BY <1>3 DEF May, MayProcess
<1>5. InHand(Main)'
  <2>1. pending[Main] = <<>>
    BY <1>1, <1>2, <1>3 DEF InHand, Carries, Working
  <2>2. pc'[Main] # "emit" /\ pc'[Main] # "open"
    BY <1>3 DEF Working
  <2> QED BY <1>1, <1>3, <2>1, <2>2 DEF InHand
<1>6. Keeps(Main)
  BY <1>1, <1>2, <1>3, <1>4, <1>5, OthersKeep DEF Keeps
<1>7. Tells(Main)
  BY <1>4 DEF Tells, Silent
<1> QED BY <1>1, <1>2, <1>6, <1>7, KeepsOnce

LEMMA CallTypes ==
  ASSUME Shape
  PROVE  /\ Main \in Threads /\ Fields /\ pc \in [Threads -> Labels] /\ setup \in Setup
         /\ dir[Main] \in Task /\ dir[Main].path \in Paths /\ found[Main] \in Dirs
         /\ todo[Main] \subseteq Dirs \cup Files
         /\ \A i \in 1..Len(callers) : /\ callers[i].task.path \in Paths
                                       /\ callers[i].todo \subseteq Dirs \cup Files
<1>1. Main \in Threads /\ Fields /\ pc \in [Threads -> Labels] /\ setup \in Setup
  BY TypesAre, ThreadFacts DEF Shape, Rest
<1> HIDE DEF Threads, Main
<1>2. dir[Main] \in Task /\ found[Main] \in Dirs /\ todo[Main] \subseteq Dirs \cup Files
  BY <1>1 DEF Fields
<1> DEFINE Call == [task : Task, todo : SUBSET (Dirs \cup Files)]
<1>3. callers \in Seq(Call)
  BY <1>1 DEF Fields
<1>4. \A c \in Call : c.task \in Task /\ c.todo \subseteq Dirs \cup Files
  OBVIOUS
<1>5. \A task \in Task : task.path \in Paths
  BY DEF Task, Paths
<1> HIDE DEF Call, Task, Paths
<1> QED BY <1>1, <1>2, <1>3, <1>4, <1>5, ElementOf

(* What is left shrinks and the calls stay as they are. *)
WalkSheds ==
  /\ dir'[Main] = dir[Main] /\ callers' = callers /\ todo'[Main] \subseteq todo[Main]
  /\ pc[Main] \in Walking /\ pc'[Main] # "walk"
  /\ (Entering' => Entering) /\ found'[Main] \in {found[Main], Root}
  /\ Entering' => found'[Main] = found[Main]
  /\ pc'[Main] = "walking" => found'[Main] = Root

LEMMA WalkShedding ==
  ASSUME OnceInv, WalkSheds
  PROVE  Calls' /\ \A q \in Paths : MayWalk(q)' => MayWalk(q)
<1> HIDE DEF Main, Walking, Paths
<1>1. \A q \in Paths : MayWalk(q)' => MayWalk(q)
  BY DEF WalkSheds, MayWalk
<1>2. Calls
  BY DEF OnceInv, Parts
<1>3. Calls'
  BY <1>2 DEF WalkSheds, Calls
<1> QED BY <1>1, <1>3

WalkPasses ==
  \/ \E e \in Dirs \cup Files : WalkEntryFails(e) \/ WalkExclude(e)
  \/ WalkProgress \/ WalkPassBy

LEMMA WalkSheddingStep ==
  ASSUME OnceInv, Shape, WalkPasses
  PROVE  WalkSheds /\ Silent(Main)
<1>2. Calls
  BY DEF OnceInv, Parts
<1> HIDE DEF Threads, Main, Labels, Task, Paths, Event, Kinds
<1>3. /\ Main \in Threads /\ pc \in [Threads -> Labels] /\ dir[Main] \in Task /\ dir[Main].path \in Paths
      /\ todo \in [Threads -> SUBSET (Dirs \cup Files)] /\ found \in [Threads -> Dirs]
      /\ files_seen \in Nat /\ directories_seen \in Nat
  BY CallTypes DEF Fields
<1>4. "entry" \in Kinds /\ "cycle" \in Kinds
  BY DEF Kinds
<1>5. ASSUME NEW e \in Dirs \cup Files, WalkEntryFails(e) PROVE WalkSheds /\ Silent(Main)
  <2>1. Silent(Main)
    <3>1. Append(dir[Main].path, e) \in Paths
      BY <1>3, PathFacts
    <3> QED BY <1>3, <1>4, <1>5, <3>1, IssueSilent DEF WalkEntryFails
  <2>2. /\ pc[Main] = "walking" /\ todo'[Main] \subseteq todo[Main]
        /\ UNCHANGED <<pc, dir, found, callers>>
    BY <1>3, <1>5 DEF WalkEntryFails, WalkEntry
  <2> QED BY <1>2, <2>1, <2>2 DEF WalkSheds, Calls, Entering, Walking
<1>6. ASSUME NEW e \in Dirs \cup Files, WalkExclude(e) PROVE WalkSheds /\ Silent(Main)
  <2>1. /\ pc[Main] = "walking" /\ todo'[Main] \subseteq todo[Main]
        /\ UNCHANGED <<pc, dir, found, callers, delivery>>
    BY <1>3, <1>6 DEF WalkExclude, WalkEntry
  <2> QED BY <1>2, <2>1 DEF WalkSheds, Calls, Entering, Walking, Silent
<1>7. ASSUME WalkProgress PROVE WalkSheds /\ Silent(Main)
  <2>1. Silent(Main)
    <3>1. files_seen + directories_seen \in Nat
      BY <1>3
    <3> DEFINE n == files_seen + directories_seen
    <3>2. Emit(Main, <<"progress", n>>) \/ UNCHANGED delivery
      BY <1>7 DEF WalkProgress
    <3>3. <<"progress", n>> \in Event /\ ~IsPath(<<"progress", n>>)
      BY <3>1, EventFacts DEF IsPath
    <3> HIDE DEF n
    <3> QED BY <3>2, <3>3 DEF Silent
  <2>2. /\ pc[Main] = "counted" /\ UNCHANGED <<dir, found, callers, todo>>
        /\ \/ pc'[Main] = "walking" /\ found[Main] = Root
           \/ pc'[Main] = "descend" /\ found[Main] # Root
    <3>1. CASE found[Main] = Root
      BY <1>3, <1>7, <3>1 DEF WalkProgress, Goto, local, place
    <3>2. CASE found[Main] # Root
      BY <1>3, <1>7, <3>2 DEF WalkProgress, Goto, local, place
    <3> QED BY <3>1, <3>2
  <2> QED BY <2>1, <2>2 DEF WalkSheds, Entering, Walking
<1>8. ASSUME WalkPassBy PROVE WalkSheds /\ Silent(Main)
  <2>1. Silent(Main)
    <3>1. Append(dir[Main].path, found[Main]) \in Paths
      BY <1>3, PathFacts
    <3> QED BY <1>3, <1>4, <1>8, <3>1, IssueSilent DEF WalkPassBy, Silent
  <2>2. /\ pc[Main] = "descend" /\ pc'[Main] = "walking" /\ found'[Main] = Root
        /\ UNCHANGED <<dir, todo, callers>>
    BY <1>3, <1>8 DEF WalkPassBy, Goto
  <2> QED BY <2>1, <2>2 DEF WalkSheds, Entering, Walking
<1> QED BY <1>5, <1>6, <1>7, <1>8 DEF WalkPasses

LEMMA WalkSheddingKeepsOnce ==
  ASSUME OnceInv, Shape, WalkPasses
  PROVE  OnceInv'
<1>1. Walk
  BY DEF Walk, WalkPasses
<1> QED BY <1>1, WalkSheddingStep, WalkShedding, WalksKeepOnce

LEMMA WalkReadDirKeepsOnce ==
  ASSUME OnceInv, Shape, WalkReadDir
  PROVE  OnceInv'
<1>1. Walk
  BY DEF Walk
<1>2. Calls
  BY DEF OnceInv, Parts
<1> HIDE DEF Threads, Main, Labels, Task, Paths
<1>3. /\ pc[Main] = "walk" /\ pc'[Main] = "walking"
      /\ UNCHANGED <<dir, found, callers, delivery>>
  BY CallTypes DEF WalkReadDir, Goto
<1>4. \A q \in Paths : MayWalk(q)' => MayWalk(q)
  <2> SUFFICES ASSUME NEW q \in Paths, MayWalk(q)' PROVE MayWalk(q)
    OBVIOUS
  <2>1. \/ Below(q, dir[Main].path)
        \/ \E i \in 1..Len(callers) : \E e \in callers[i].todo : By(q, callers[i].task.path, e)
    BY <1>3 DEF MayWalk, Entering, By
  <2> QED BY <1>3, <2>1 DEF MayWalk, Walking
<1>5. Calls'
  BY <1>2, <1>3 DEF Calls, Entering, Walking
<1> QED BY <1>1, <1>3, <1>4, <1>5, WalksKeepOnce DEF Silent

LEMMA ReturnKeepsOnce ==
  ASSUME OnceInv, Shape, WalkReadFails \/ WalkReturn
  PROVE  OnceInv'
<1>1. Walk
  BY DEF Walk
<1>2. Calls
  BY DEF OnceInv, Parts
<1> DEFINE n == Len(callers)
           Call == [task : Task, todo : SUBSET (Dirs \cup Files)]
<1> HIDE DEF Threads, Main, Labels, Task, Paths, Event, Kinds
<1>3. /\ Main \in Threads /\ pc \in [Threads -> Labels] /\ dir[Main].path \in Paths
      /\ dir \in [Threads -> Task] /\ todo \in [Threads -> SUBSET (Dirs \cup Files)]
      /\ callers \in Seq(Call)
  BY CallTypes DEF Fields
<1> HIDE DEF Call
<1>4. Silent(Main)
  <2>1. CASE WalkReadFails
    <3>1. "directory" \in Kinds
      BY DEF Kinds
    <3> QED BY <1>3, <2>1, <3>1, IssueSilent DEF WalkReadFails
  <2> QED BY <2>1 DEF WalkReturn, Silent
<1>5. /\ pc[Main] \in {"walk", "walking"} /\ Return /\ found' = found
  BY DEF WalkReadFails, WalkReturn
<1>6. found[Main] = Root
  BY <1>2, <1>5 DEF Calls, Walking
<1>7. CASE callers = <<>>
  <2>1. /\ pc'[Main] = "walked" /\ todo'[Main] = {} /\ UNCHANGED <<dir, callers>>
    BY <1>3, <1>5, <1>7 DEF Return, Goto
  <2>2. \A q \in Paths : MayWalk(q)' => MayWalk(q)
    BY <1>5, <2>1 DEF MayWalk, Entering, Walking
  <2>3. Calls'
    BY <1>2, <1>5, <2>1 DEF Calls, Entering, Walking
  <2> QED BY <1>1, <1>4, <2>2, <2>3, WalksKeepOnce
<1>8. CASE callers # <<>>
  <2>1. /\ n \in Nat /\ n \in 1..n /\ Last(callers) = callers[n] /\ Len(Front(callers)) = n - 1
        /\ \A i \in 1..(n - 1) : i \in 1..n /\ Front(callers)[i] = callers[i]
    BY <1>3, <1>8, FrontFacts
  <2>2. /\ pc'[Main] = "walking" /\ dir'[Main] = callers[n].task /\ todo'[Main] = callers[n].todo
        /\ callers' = Front(callers)
    BY <1>3, <1>5, <1>8, <2>1 DEF Return, Goto
  <2> DEFINE m == n - 1
  <2>3. /\ Len(callers') = m /\ n \in 1..n
        /\ \A i \in 1..m : i \in 1..n /\ i \in 1..(n - 1) /\ callers'[i] = callers[i]
    BY <2>1, <2>2
  <2> HIDE DEF m
  <2>4. \A q \in Paths : MayWalk(q)' => MayWalk(q)
    <3> SUFFICES ASSUME NEW q \in Paths, MayWalk(q)' PROVE MayWalk(q)
      OBVIOUS
    <3>1. \E i \in 1..n : \E e \in callers[i].todo : By(q, callers[i].task.path, e)
      BY <2>2, <2>3 DEF MayWalk, Entering
    <3> QED BY <1>5, <3>1 DEF MayWalk, Walking
  <2>5. Calls'
    <3>1. \A i \in 1..m : /\ Below(callers[n].task.path, callers[i].task.path)
                          /\ callers[n].task.path[Len(callers[i].task.path) + 1] \notin callers[i].todo
      BY <1>2, <1>5, <2>3 DEF Calls, Walking
    <3>2. \A j \in 1..m : \A i \in 1..(j - 1) : i \in 1..m
      <4>1. m \in Nat
        BY <2>1 DEF m
      <4> QED BY <4>1
    <3>3. \A j \in 1..m : \A i \in 1..(j - 1) :
            /\ Below(callers'[j].task.path, callers'[i].task.path)
            /\ callers'[j].task.path[Len(callers'[i].task.path) + 1] \notin callers'[i].todo
      BY <1>2, <1>5, <2>3, <3>2 DEF Calls, Walking
    <3> QED BY <1>5, <1>6, <2>2, <2>3, <3>1, <3>3 DEF Calls, Entering
  <2> QED BY <1>1, <1>4, <2>4, <2>5, WalksKeepOnce
<1> QED BY <1>7, <1>8

(* What is below the directory in hand is not left to a caller.            *)
LEMMA CallersApart ==
  ASSUME Shape, Calls, pc[Main] \in Walking, NEW q \in Paths, Below(q, dir[Main].path)
  PROVE  \A i \in 1..Len(callers) :
           /\ Below(q, callers[i].task.path) /\ q[Len(callers[i].task.path) + 1] \notin callers[i].todo
           /\ \A e \in callers[i].todo : ~By(q, callers[i].task.path, e)
<1> HIDE DEF Main, Walking, Paths
<1> SUFFICES ASSUME NEW i \in 1..Len(callers)
             PROVE  /\ Below(q, callers[i].task.path)
                    /\ q[Len(callers[i].task.path) + 1] \notin callers[i].todo
  BY DEF By
<1>1. callers[i].task.path \in Paths /\ dir[Main].path \in Paths
  BY CallTypes
<1>2. /\ Below(dir[Main].path, callers[i].task.path)
      /\ dir[Main].path[Len(callers[i].task.path) + 1] \notin callers[i].todo
  BY DEF Calls
<1> QED BY <1>1, <1>2, BelowBelow

(* An entry that is reported leaves the thread's territory.                *)
LEMMA EntryIsLeft ==
  ASSUME OnceInv, Shape, pc[Main] = "walking", NEW e \in todo[Main], NEW q \in Paths,
         q = Append(dir[Main].path, e)
  PROVE  /\ MayWalk(q) /\ ~Below(q, q) /\ q \in Paths
         /\ \A d \in todo[Main] : By(q, dir[Main].path, d) => d = e
         /\ \A i \in 1..Len(callers) : \A d \in callers[i].todo : ~By(q, callers[i].task.path, d)
<1> HIDE DEF Main, Paths
<1>1. /\ dir[Main].path \in Paths /\ e \in Dirs \cup Files
  BY CallTypes
<1>2. By(q, dir[Main].path, e) /\ ~Below(q, q)
  BY <1>1, BelowFacts
<1>3. MayWalk(q)
  BY <1>2 DEF MayWalk, Walking
<1>4. Below(q, dir[Main].path) /\ \A d \in todo[Main] : By(q, dir[Main].path, d) => d = e
  BY <1>2 DEF By
<1>5. pc[Main] \in Walking /\ Calls
  BY DEF OnceInv, Parts, Walking
<1> QED BY <1>2, <1>3, <1>4, <1>5, CallersApart

LEMMA WalkFileKeepsOnce ==
  ASSUME OnceInv, Shape, NEW f \in Files, WalkFile(f)
  PROVE  OnceInv'
<1> DEFINE here == Append(dir[Main].path, f)
           e == <<"file", here, ChargeOf(f)>>
<1>1. Walk
  BY DEF Walk
<1>2. Calls
  BY DEF OnceInv, Parts
<1>3. here \in Paths /\ ChargeOf(f) \in Nat
  BY CallTypes, PathFacts DEF ChargeOf
<1> HIDE DEF Threads, Main, Labels, Task, Paths, Event, here
<1>4. /\ pc[Main] = "walking" /\ f \in todo[Main] /\ todo'[Main] = todo[Main] \ {f}
      /\ pc'[Main] = "counted" /\ UNCHANGED <<dir, found, callers>>
      /\ Emit(Main, e)
  BY CallTypes DEF WalkFile, WalkEntry, Goto, Fields, here
<1>5. e \in Event /\ e[2] = here
  BY <1>3, EventFacts
<1>6. WalkSheds
  BY <1>2, <1>4 DEF WalkSheds, Calls, Entering, Walking
<1>7. PICK q \in Paths : q = here
  BY <1>3
<1>8. MayWalk(q) /\ ~MayWalk(q)'
  <2>1. /\ MayWalk(q)
        /\ \A d \in todo[Main] : By(q, dir[Main].path, d) => d = f
        /\ \A i \in 1..Len(callers) : \A d \in callers[i].todo : ~By(q, callers[i].task.path, d)
    BY <1>4, <1>7, EntryIsLeft DEF here
  <2>2. ~Entering'
    BY <1>2, <1>4 DEF Entering, Calls, Walking
  <2> QED BY <1>4, <2>1, <2>2 DEF MayWalk
<1> HIDE DEF e
<1>9. PICK event \in Event : event = e
  BY <1>5
<1> QED BY <1>1, <1>4, <1>5, <1>6, <1>7, <1>8, <1>9, WalkShedding, WalksKeepOnce

LEMMA WalkDirKeepsOnce ==
  ASSUME OnceInv, Shape, NEW d \in Dirs, WalkDir(d)
  PROVE  OnceInv'
<1> DEFINE here == Append(dir[Main].path, d)
           e == <<"dir", here>>
<1>1. Walk
  BY DEF Walk
<1>2. Calls
  BY DEF OnceInv, Parts
<1>3. here \in Paths
  BY CallTypes, PathFacts
<1> HIDE DEF Threads, Main, Labels, Task, Paths, Event, here
<1>4. /\ pc[Main] = "walking" /\ d \in todo[Main] /\ todo'[Main] = todo[Main] \ {d}
      /\ pc'[Main] = "counted" /\ found'[Main] = d /\ UNCHANGED <<dir, callers>>
      /\ Emit(Main, e)
  BY CallTypes DEF WalkDir, WalkEntry, Goto, Fields, here
<1>5. e \in Event /\ e[2] = here
  BY <1>3, EventFacts
<1>6. Calls'
  BY <1>2, <1>4 DEF Calls, Entering, Walking
<1>7. PICK q \in Paths : q = here
  BY <1>3
<1>8. MayWalk(q) /\ ~MayWalk(q)'
  <2>1. /\ MayWalk(q) /\ ~Below(q, q)
        /\ \A x \in todo[Main] : By(q, dir[Main].path, x) => x = d
        /\ \A i \in 1..Len(callers) : \A x \in callers[i].todo : ~By(q, callers[i].task.path, x)
    BY <1>4, <1>7, EntryIsLeft DEF here
  <2> QED BY <1>4, <1>7, <2>1 DEF MayWalk, here
<1>9. \A p \in Paths : MayWalk(p)' => MayWalk(p)
  <2> SUFFICES ASSUME NEW p \in Paths, MayWalk(p)' PROVE MayWalk(p)
    OBVIOUS
  <2>1. Below(p, here) => By(p, dir[Main].path, d)
    BY CallTypes, BelowFacts DEF here
  <2>2. \/ \E x \in todo[Main] : By(p, dir[Main].path, x)
        \/ Below(p, here)
        \/ \E i \in 1..Len(callers) : \E x \in callers[i].todo : By(p, callers[i].task.path, x)
    BY <1>4 DEF MayWalk, here
  <2> QED BY <1>4, <2>1, <2>2 DEF MayWalk, Walking
<1> HIDE DEF e
<1>10. PICK event \in Event : event = e
  BY <1>5
<1> QED BY <1>1, <1>4, <1>5, <1>6, <1>7, <1>8, <1>9, <1>10, WalksKeepOnce

LEMMA WalkDescendKeepsOnce ==
  ASSUME OnceInv, Shape, WalkDescend
  PROVE  OnceInv'
<1> DEFINE p == dir[Main].path
           d == found[Main]
           here == Append(p, d)
           n == Len(callers)
           Call == [task : Task, todo : SUBSET (Dirs \cup Files)]
           call == [task |-> dir[Main], todo |-> todo[Main]]
<1>1. Walk
  BY DEF Walk
<1>2. Calls
  BY DEF OnceInv, Parts
<1>3. /\ p \in Paths /\ here \in Paths /\ d \in Dirs
      /\ call.task.path = p /\ call.todo = todo[Main] /\ Child(dir[Main], d).path = here
  BY CallTypes, PathFacts DEF Child
<1>4. callers \in Seq(Call)
  BY CallTypes DEF Fields
<1> HIDE DEF Threads, Main, Labels, Task, Paths, here, p, d, call
<1>5. /\ pc[Main] = "descend" /\ pc'[Main] = "walk" /\ found'[Main] = Root /\ todo'[Main] = {}
      /\ dir'[Main].path = here /\ callers' = Append(callers, call)
      /\ UNCHANGED delivery
  BY <1>3, CallTypes DEF WalkDescend, Goto, Fields, d, call
<1> HIDE DEF Call
<1>6. /\ n \in Nat /\ Len(callers') = n + 1 /\ callers'[n + 1] = call
      /\ \A i \in 1..n : callers'[i] = callers[i]
  BY <1>4, <1>5
<1>7. \A i \in 1..Len(callers') : \/ i \in 1..n /\ callers'[i] = callers[i]
                                  \/ i = n + 1 /\ callers'[i] = call
  BY <1>6
<1>8. pc[Main] \in Walking /\ Entering /\ ~Entering' /\ d \notin todo[Main]
  BY <1>2, <1>5 DEF Walking, Entering, Calls, d
<1>9. /\ By(here, p, d) /\ \A q \in Paths : Below(q, here) => By(q, p, d)
  BY <1>3, BelowFacts DEF here
<1>10. \A q \in Paths : MayWalk(q)' => MayWalk(q)
  <2> SUFFICES ASSUME NEW q \in Paths, MayWalk(q)' PROVE MayWalk(q)
    OBVIOUS
  <2>1. \/ Below(q, here)
        \/ \E i \in 1..Len(callers') : \E e \in callers'[i].todo : By(q, callers'[i].task.path, e)
    BY <1>5, <1>8 DEF MayWalk
  <2>2. \/ Below(q, here)
        \/ \E i \in 1..n : \E e \in callers[i].todo : By(q, callers[i].task.path, e)
        \/ \E e \in todo[Main] : By(q, p, e)
    BY <1>3, <1>7, <2>1, SMTT(60)
  <2> QED BY <1>8, <2>2 DEF MayWalk, here, p, d
<1>11. Calls'
  <2> DEFINE Ahead(path, c) == Below(path, c.task.path) /\ path[Len(c.task.path) + 1] \notin c.todo
  <2>1. Below(here, p) /\ here[Len(p) + 1] \notin todo[Main]
    BY <1>8, <1>9 DEF By
  <2>2. \A i \in 1..n : Ahead(p, callers[i])
    BY <1>2, <1>8 DEF Calls, p
  <2>3. \A i \in 1..n : Ahead(here, callers[i])
    BY <1>2, <1>3, <1>8, <2>1, CallersApart DEF p
  <2>4. Ahead(here, call)
    BY <1>3, <2>1
  <2>5. \A j \in 1..n : \A i \in 1..(j - 1) : i \in 1..n /\ Ahead(callers[j].task.path, callers[i])
    <3>1. \A j \in 1..n : \A i \in 1..(j - 1) : i \in 1..n
      BY <1>6
    <3> QED BY <1>2, <1>8, <3>1 DEF Calls
  <2>6. \A i \in 1..Len(callers') : Ahead(here, callers'[i])
    BY <1>7, <2>3, <2>4
  <2>7. \A j \in 1..Len(callers') : \A i \in 1..(j - 1) : Ahead(callers'[j].task.path, callers'[i])
    <3> SUFFICES ASSUME NEW j \in 1..Len(callers'), NEW i \in 1..(j - 1)
                 PROVE  Ahead(callers'[j].task.path, callers'[i])
      OBVIOUS
    <3>1. CASE j \in 1..n
      BY <1>6, <2>5, <3>1
    <3>2. CASE j = n + 1
      <4>1. i \in 1..n
        BY <1>6, <3>2
      <4> QED BY <1>3, <1>6, <2>2, <3>2, <4>1
    <3> QED BY <1>7, <3>1, <3>2
  <2> QED BY <1>5, <1>8, <2>6, <2>7 DEF Calls
<1> QED BY <1>1, <1>5, <1>10, <1>11, WalksKeepOnce DEF Silent

LEMMA WalkKeepsOnce ==
  ASSUME OnceInv, Shape, Walk
  PROVE  OnceInv'
BY WalkSheddingKeepsOnce, WalkReadDirKeepsOnce, ReturnKeepsOnce, WalkFileKeepsOnce, WalkDirKeepsOnce,
   WalkDescendKeepsOnce DEF Walk, WalkPasses

-----------------------------------------------------------------------------
(* The queue. *)

(* Whoever opens a task takes its territory from the queue.                *)
LEMMA OpenKeepsOnce ==
  ASSUME OnceInv, Shape, NEW t \in Threads, NEW k \in 1..Len(tasks), pc[t] \in {"take", "chain"},
         Open(t, tasks[k]), UNCHANGED <<found, callers, pending, ret, delivery, received>>,
         \A i \in 1..Len(tasks') : i \in 1..Len(tasks) /\ i # k /\ tasks'[i] = tasks[i],
         t # Main => pc[Main] # "start"
  PROVE  OnceInv'
<1>1. /\ pc \in [Threads -> Labels] /\ Fields /\ Territories /\ PathsOnce /\ Calls
      /\ \A s \in Threads : InHand(s)
  BY TypesAre DEF Shape, Rest, OnceInv, Parts
<1> HIDE DEF Threads, Main, Labels, Paths, Task
<1>2. /\ dir'[t] = tasks[k] /\ fresh'[t] = <<>> /\ todo'[t] = {} /\ pc'[t] \in {"open", "complete"}
      /\ \A s \in Threads \ {t} : /\ pc'[s] = pc[s] /\ dir'[s] = dir[s]
                                  /\ fresh'[s] = fresh[s] /\ todo'[s] = todo[s]
  <2>1. /\ dir' = [dir EXCEPT ![t] = tasks[k]] /\ fresh' = [fresh EXCEPT ![t] = <<>>]
        /\ todo' = [todo EXCEPT ![t] = {}]
        /\ \E label \in {"open", "complete"} : pc' = [pc EXCEPT ![t] = label]
    BY DEF Open, Goto
  <2> QED BY <1>1, <2>1 DEF Fields
<1>3. Own(t) /\ pc'[t] \notin Walking /\ ~HasFound(t)'
  BY <1>2 DEF Own, Walking, HasFound
<1>4. pending'[t] = <<>>
  BY <1>1 DEF InHand, Carries
<1>5. \A i : i \notin 1..Len(pending'[t]) /\ i \notin 1..Len(fresh'[t])
  BY <1>2, <1>4
<1>6. \A q \in Paths : May(t, q)' => Below(q, tasks[k].path)
  BY <1>2, <1>3, <1>5 DEF May, MayProcess, MayWalk
<1>7. /\ \A q \in Paths : Queued(q)' => \E i \in 1..Len(tasks) : i # k /\ Below(q, tasks[i].path)
      /\ \A q \in Paths : Below(q, tasks[k].path) => Queued(q)
      /\ \A q \in Paths : Queued(q)' => Queued(q)
  BY DEF Queued
<1>8. PathsOnce' /\ \A q : Reported(q)' <=> Reported(q)
  BY <1>1 DEF PathsOnce, Reported, delivery
<1>9. Territories'
  <2>1. \A q \in Paths : ~(May(t, q)' /\ Queued(q)')
    BY <1>1, <1>6, <1>7 DEF Territories
  <2>2. \A q \in Paths, i, j \in 1..Len(tasks') :
           Below(q, tasks'[i].path) /\ Below(q, tasks'[j].path) => i = j
    BY <1>1 DEF Territories
  <2>3. \A s \in Threads \ {t}, q \in Paths : May(s, q)' => May(s, q)
    BY <1>3, OthersKeep
  <2>4. \A q \in Paths : May(t, q)' \/ Queued(q)' => May(t, q) \/ Queued(q)
    BY <1>6, <1>7
  <2> QED BY <1>1, <1>8, <2>1, <2>2, <2>3, <2>4, TerritoryStep
<1>10. InHand(t)'
  <2>1. PendingDiffer(t)' /\ TasksDiffer(t)' /\ FoundDiffers(t)'
    BY <1>3, <1>5 DEF PendingDiffer, TasksDiffer, FoundDiffers
  <2> QED BY <1>2, <1>4, <2>1 DEF InHand
<1>11. Calls' /\ NothingYet'
  <2>1. CASE t = Main
    BY <1>2, <1>3, <2>1 DEF Calls, NothingYet
  <2>2. CASE t # Main
    <3>1. Main \in Threads \ {t}
      BY <2>2, ThreadFacts
    <3> QED BY <1>1, <1>2, <1>3, <2>2, <3>1, OthersKeep DEF NothingYet
  <2> QED BY <2>1, <2>2
<1> QED BY <1>1, <1>3, <1>8, <1>9, <1>10, <1>11, OthersKeep DEF OnceInv, Parts

(* Whoever completes a task gives the territory of its children back.      *)
LEMMA CloseKeepsOnce ==
  ASSUME OnceInv, Shape, NEW t \in Threads, pc[t] = "complete", tasks' = tasks \o fresh[t],
         pc'[t] \in {"look", "chain"}, \A s \in Threads \ {t} : pc'[s] = pc[s],
         UNCHANGED <<local, delivery, received>>,
         t # Main => pc[Main] # "start"
  PROVE  OnceInv'
<1> DEFINE p == dir[t].path
           n == Len(tasks)
           m == Len(fresh[t])
<1>1. /\ Fields /\ Rest /\ Territories /\ PathsOnce /\ Calls
      /\ \A s \in Threads : InHand(s)
  BY TypesAre DEF Shape, OnceInv, Parts
<1> HIDE DEF Threads, Main, Labels, Paths, Task
<1>2. tasks \in Seq(Task) /\ fresh[t] \in Seq(Task) /\ p \in Paths /\ t \in Threads
  <2>1. dir[t] \in Task /\ fresh[t] \in Seq(Task) /\ tasks \in Seq(Task)
    BY <1>1 DEF Fields, Rest
  <2>2. \A task \in Task : task.path \in Paths
    BY DEF Task, Paths
  <2> QED BY <2>1, <2>2
<1>3. UNCHANGED <<place, pending, ret>>
  BY DEF local, totals, loop
<1>4. Own(t) /\ pc'[t] \notin Walking /\ pc'[t] \notin Working /\ pc[t] \in Working
  BY <1>3 DEF Own, place, Walking, Working
<1>5. \A i \in 1..Len(tasks') :
        \/ i \in 1..n /\ tasks'[i] = tasks[i]
        \/ \E j \in 1..m : j = i - n /\ i \notin 1..n /\ tasks'[i] = fresh[t][j]
  <2>1. /\ n \in Nat /\ m \in Nat /\ Len(tasks') = n + m
        /\ \A i \in 1..n : tasks'[i] = tasks[i]
        /\ \A i \in (n + 1)..(n + m) : tasks'[i] = fresh[t][i - n]
    BY <1>2
  <2> HIDE DEF n, m
  <2>2. \A i \in 1..Len(tasks') : i \in 1..n \/ (i \in (n + 1)..(n + m) /\ i - n \in 1..m /\ i \notin 1..n)
    BY <2>1
  <2> QED BY <2>1, <2>2
<1>6. \A i, j \in 1..Len(tasks') : i - n = j - n => i = j
  BY <1>2
<1> HIDE DEF n, m
<1>7. /\ \A j \in 1..m : fresh[t][j].path = Append(p, TaskName(t, j)) /\ TaskName(t, j) \in Dirs
      /\ \A i, j \in 1..m : TaskName(t, i) = TaskName(t, j) => i = j
  BY <1>1, <1>4 DEF InHand, TasksDiffer, m, p
<1>8. \A q \in Paths, i, j \in 1..m : Below(q, fresh[t][i].path) /\ Below(q, fresh[t][j].path) => i = j
  <2> SUFFICES ASSUME NEW q \in Paths, NEW i \in 1..m, NEW j \in 1..m,
                      Below(q, fresh[t][i].path), Below(q, fresh[t][j].path)
               PROVE  i = j
    OBVIOUS
  <2>1. By(q, p, TaskName(t, i)) /\ By(q, p, TaskName(t, j))
    BY <1>2, <1>7, BelowFacts
  <2> QED BY <1>7, <2>1 DEF By
<1>9. \A q \in Paths, j \in 1..m : Below(q, fresh[t][j].path) => May(t, q)
  BY <1>4 DEF May, MayProcess, m
<1>10. \A q \in Paths, i \in 1..n : Below(q, tasks[i].path) => Queued(q)
  BY DEF Queued, n
<1>11. PathsOnce' /\ \A q : Reported(q)' <=> Reported(q)
  BY <1>1 DEF PathsOnce, Reported, delivery
<1>12. \A q \in Paths : ~May(t, q)'
  BY <1>4 DEF May, MayProcess, MayWalk
<1>13. Territories'
  <2>1. \A q \in Paths, i, j \in 1..Len(tasks') :
           Below(q, tasks'[i].path) /\ Below(q, tasks'[j].path) => i = j
    <3> SUFFICES ASSUME NEW q \in Paths, NEW i \in 1..Len(tasks'), NEW j \in 1..Len(tasks'),
                        Below(q, tasks'[i].path), Below(q, tasks'[j].path)
                 PROVE  i = j
      OBVIOUS
    <3>1. CASE i \in 1..n /\ j \in 1..n
      BY <1>1, <1>5, <3>1 DEF Territories, n
    <3>2. CASE i \notin 1..n /\ j \notin 1..n
      <4>1. PICK a \in 1..m : a = i - n /\ tasks'[i] = fresh[t][a]
        BY <1>5, <3>2
      <4>2. PICK b \in 1..m : b = j - n /\ tasks'[j] = fresh[t][b]
        BY <1>5, <3>2
      <4>3. a = b
        BY <1>8, <4>1, <4>2
      <4> QED BY <1>6, <4>1, <4>2, <4>3
    <3>3. \A a, b \in 1..Len(tasks') : a \in 1..n /\ b \notin 1..n =>
            ~(Below(q, tasks'[a].path) /\ Below(q, tasks'[b].path))
      BY <1>1, <1>5, <1>9, <1>10 DEF Territories
    <3> QED BY <3>1, <3>2, <3>3
  <2>2. \A q \in Paths : Queued(q)' => May(t, q) \/ Queued(q)
    BY <1>5, <1>9, <1>10 DEF Queued
  <2>3. \A s \in Threads \ {t}, q \in Paths : May(s, q)' => May(s, q)
    BY <1>4, OthersKeep
  <2> QED BY <1>1, <1>11, <1>12, <2>1, <2>2, <2>3, TerritoryStep
<1>14. InHand(t)'
  <2>1. pending[t] = <<>>
    BY <1>1, <1>4 DEF InHand, Carries
  <2>2. pc'[t] # "emit" /\ pc'[t] # "open"
    OBVIOUS
  <2> QED BY <1>3, <1>4, <2>1, <2>2 DEF InHand
<1>15. Calls' /\ NothingYet'
  <2>1. CASE t = Main
    BY <1>4, <2>1 DEF Calls, NothingYet
  <2>2. CASE t # Main
    <3>1. Main \in Threads \ {t}
      BY <2>2, ThreadFacts
    <3> QED BY <1>1, <1>4, <2>2, <3>1, OthersKeep DEF NothingYet
  <2> QED BY <2>1, <2>2
<1> QED BY <1>1, <1>4, <1>11, <1>13, <1>14, <1>15, OthersKeep DEF OnceInv, Parts

(* Threads that hold no directory go on to where they hold none.           *)
LEMMA PassingKeepsOnce ==
  ASSUME OnceInv, Shape, NEW t \in Threads, UNCHANGED <<tasks, place, pending, ret, received>>,
         \A s \in Threads : \/ pc'[s] = pc[s]
                            \/ pc[s] \notin Working /\ pc'[s] \notin Working \cup Walking,
         pc'[Main] # "start", Flush(t) \/ Silent(t)
  PROVE  OnceInv'
<1> HIDE DEF Threads, Main, Working, Walking, Paths
<1>1. WireOK /\ Calls /\ \A s \in Threads : InHand(s)
  BY DEF OnceInv, Parts, Shape
<1>2. \A s \in Threads : pc'[s] = pc[s] => /\ \A q : May(s, q)' <=> May(s, q)
                                           /\ InHand(s)' <=> InHand(s)
  BY DEF place, May, MayProcess, MayWalk, HasFound, Entering, InHand, Carries, PendingDiffer, TasksDiffer,
     FoundDiffers, TaskName
<1>3. \A s \in Threads : pc'[s] \notin Working \cup Walking => \A q : ~May(s, q)'
  BY DEF May, MayProcess, MayWalk
<1>4. \A s \in Threads : pc[s] \notin Working /\ pc'[s] \notin Working => InHand(s)'
  <2> SUFFICES ASSUME NEW s \in Threads, pc[s] \notin Working, pc'[s] \notin Working PROVE InHand(s)'
    OBVIOUS
  <2>1. pending[s] = <<>>
    BY <1>1 DEF InHand, Carries, Working
  <2>2. pc'[s] # "emit" /\ pc'[s] # "open"
    BY DEF Working
  <2> QED BY <2>1, <2>2 DEF InHand
<1>5. Calls'
  <2>1. CASE pc'[Main] = pc[Main]
    BY <1>1, <2>1 DEF Calls, Entering, place
  <2>2. CASE pc'[Main] \notin Walking
    BY <2>2 DEF Calls
  <2> QED BY <2>1, <2>2, ThreadFacts
<1>6. Keeps(t)
  BY <1>1, <1>2, <1>3, <1>4, <1>5 DEF Keeps
<1>7. Tells(t)
  BY DEF Tells, Silent
<1> QED BY <1>1, <1>6, <1>7, KeepsOnce

(* Every other step leaves all that the invariant is about alone.          *)
LEMMA AsideKeepsOnce ==
  ASSUME OnceInv, UNCHANGED <<tasks, pc, place, pending, ret, delivery, received>>
  PROVE  OnceInv'
<1> USE DEF OnceInv
<1> HIDE DEF Threads, Main, Working, Walking, Paths
<1>1. \A q : /\ Queued(q)' <=> Queued(q)
             /\ Reported(q)' <=> Reported(q)
             /\ \A t \in Threads : May(t, q)' <=> May(t, q)
  BY DEF place, delivery, Queued, Reported, May, MayProcess, MayWalk, HasFound, Entering
<1>2. \A t \in Threads : InHand(t)' <=> InHand(t)
  BY DEF place, HasFound, InHand, Carries, PendingDiffer, TasksDiffer, FoundDiffers, TaskName
<1>3. Parts'
  BY <1>2 DEF Parts, Calls, Entering, NothingYet, place, delivery
<1>4. PathsOnce'
  BY DEF PathsOnce, delivery
<1>5. Territories'
  BY <1>1 DEF Territories
<1> QED BY <1>3, <1>4, <1>5

LEMMA StartKeepsOnce ==
  ASSUME OnceInv, Shape, StartScan \/ StartInvalid
  PROVE  OnceInv'
<1> DEFINE root == <<Root>>
           e1 == <<"started">>
           e2 == <<"dir", root>>
           e3 == <<"progress", 1>>
           d2 == <<"issue", "root", root>>
           d3 == <<"summary", 0, 0, 0>>
           e == <<e1, e2, e3>>
           d == <<e1, d2, d3>>
           new == {root}
<1>1. /\ ~IsPath(e1) /\ ~IsPath(e3) /\ ~IsPath(d2) /\ ~IsPath(d3)
      /\ e2[2] = root /\ root \in Paths
  BY WalkAssumption DEF IsPath, Paths
<1>2. \A q \in Paths : Below(q, root) => q # root
  <2>1. \A q \in Paths : Len(q) \in Nat
    BY DEF Paths
  <2> HIDE DEF root
  <2> QED BY <1>1, <2>1 DEF Below
<1> HIDE DEF e1, e2, e3, d2, d3, root
<1>3. NoRepeat(e) /\ NoRepeat(d) /\ PathsIn(e) \subseteq new /\ PathsIn(d) \subseteq new
  <2>1. /\ \A i \in 1..Len(e) : IsPath(e[i]) => i = 2 /\ e[i] = e2
        /\ \A i \in 1..Len(d) : ~IsPath(d[i])
    BY <1>1
  <2> HIDE DEF e, d
  <2> QED BY <1>1, <2>1 DEF NoRepeat, PathsIn
<1> HIDE DEF Threads, Main, Working, Walking, Paths, e, d, Workers, Labels
<1>4. /\ tasks = <<>> /\ callers = <<>> /\ found[Main] = Root /\ todo[Main] = {} /\ received = <<>>
      /\ channel = <<>> /\ pc[Main] = "start" /\ Main \in Threads
      /\ \A t \in Threads : buffer[t] = <<>> /\ InHand(t)
      /\ pc \in [Threads -> Labels] /\ Fields /\ WireOK /\ PathsOnce
  BY TypesAre, ThreadFacts DEF OnceInv, Parts, NothingYet, StartScan, StartInvalid, Shape, Rest, Held
<1>5. \A q : ~Reported(q)
  <2>1. \A k : k \notin 1..Len(channel)
    BY <1>4
  <2> QED BY <1>4, <2>1, EmptyBatch DEF Reported
<1>6. PathsOnce' /\ \A q : Reported(q)' => q = root
  <2>1. /\ UNCHANGED <<buffer, received>> /\ buffer \in [Threads -> Seq(Reports)]
        /\ channel' = channel \/ (alive /\ channel' = Append(channel, e))
             \/ (alive /\ channel' = Append(channel, d))
    BY <1>4 DEF StartScan, StartInvalid, consumer, e, d, e1, e2, e3, d2, d3, root, WireOK
  <2>2. buffer' = [buffer EXCEPT ![Main] = <<>>]
    BY <1>4, <2>1
  <2>3. Len(channel) < Capacity
    <3>1. Len(channel) = 0 /\ Capacity \in Nat \ {0}
      BY <1>4, WalkAssumption
    <3> QED BY <3>1
  <2>4. CASE channel' = channel
    BY <1>4, <1>5, <2>1, <2>4 DEF PathsOnce, Reported
  <2>5. ASSUME NEW batch, NoRepeat(batch), PathsIn(batch) \subseteq new, alive,
               channel' = Append(channel, batch)
        PROVE  PathsOnce' /\ \A q : Reported(q)' => q = root
    <3>1. Send(batch)
      BY <2>3, <2>5 DEF Send
    <3> HIDE DEF new
    <3>2. PathsOnce' /\ \A q : Reported(q)' => Reported(q) \/ q \in new
      BY <1>4, <1>5, <2>1, <2>2, <2>5, <3>1, HandOver
    <3> QED BY <1>5, <3>2 DEF new
  <2> QED BY <1>3, <2>1, <2>4, <2>5
<1>7. /\ UNCHANGED <<todo, fresh, found, callers, pending, ret>>
      /\ \/ pc'[Main] \in {"chain", "completed"} /\ dir' = dir
         \/ pc'[Main] = "walk" /\ dir'[Main].path = root
      /\ \/ tasks' = <<>>
         \/ pc'[Main] = "chain" /\ tasks' = <<RootTask>>
      /\ \A s \in Threads \ {Main} : pc'[s] = pc[s]
  <2>1. CASE StartScan
    <3>1. CASE setup.workers > 1
      BY <1>4, <2>1, <3>1 DEF StartScan, Goto, totals, loop
    <3>2. CASE ~(setup.workers > 1)
      BY <1>4, <2>1, <3>2 DEF StartScan, Goto, totals, loop, Fields, RootTask, root
    <3> QED BY <3>1, <3>2
  <2>2. CASE StartInvalid
    BY <1>4, <2>2 DEF StartInvalid, Goto, queue, local, place, totals, loop
  <2> QED BY <2>1, <2>2
<1>8. pc[Main] \notin Working /\ pc'[Main] \notin Working /\ pc'[Main] # "start"
  BY <1>4, <1>7 DEF Working
<1>9. \A s \in Threads \ {Main} : pc'[s] \notin Working
  <2>1. \A s \in Threads \ {Main} : s \in Workers
    BY ThreadFacts
  <2> QED BY <1>4, <1>7, <2>1 DEF Shape, Phases, Idle, Working
<1>10. /\ \A s \in Threads \ {Main}, q \in Paths : ~May(s, q)'
       /\ \A q \in Paths : May(Main, q)' => pc'[Main] = "walk" /\ Below(q, root)
  <2>1. ~Entering'
    BY <1>4, <1>7 DEF Entering
  <2>2. \A i : i \notin 1..Len(callers')
    BY <1>4, <1>7
  <2>3. \A q \in Paths : MayWalk(q)' => pc'[Main] = "walk" /\ Below(q, root)
    BY <1>4, <1>7, <2>1, <2>2 DEF MayWalk, Walking
  <2> QED BY <1>8, <1>9, <2>3 DEF May, MayProcess
<1>11. /\ \A q \in Paths : Queued(q)' => pc'[Main] = "chain" /\ Below(q, root)
       /\ \A i, j \in 1..Len(tasks') : i = j
  <2>1. CASE tasks' = <<>>
    BY <2>1 DEF Queued
  <2>2. CASE pc'[Main] = "chain" /\ tasks' = <<RootTask>>
    <3>1. RootTask.path = root
      BY DEF RootTask, root
    <3> HIDE DEF RootTask
    <3>2. \A i \in 1..Len(tasks') : i = 1 /\ tasks'[i] = RootTask
      BY <2>2
    <3> QED BY <2>2, <3>1, <3>2 DEF Queued
  <2> QED BY <1>7, <2>1, <2>2
<1>12. Territories'
  BY <1>2, <1>6, <1>10, <1>11 DEF Territories
<1>13. \A s \in Threads : InHand(s)'
  <2> SUFFICES ASSUME NEW s \in Threads PROVE InHand(s)'
    OBVIOUS
  <2>1. pc'[s] \notin Working
    BY <1>8, <1>9
  <2>2. pc[s] \notin Working
    BY <1>7, <1>8, <1>9
  <2>3. pending'[s] = <<>>
    BY <1>4, <1>7, <2>2 DEF InHand, Carries, Working
  <2>4. pc'[s] # "emit" /\ pc'[s] # "open"
    BY <2>1 DEF Working
  <2> QED BY <2>1, <2>3, <2>4 DEF InHand
<1>14. Calls'
  <2>1. ~Entering'
    BY <1>4, <1>7 DEF Entering
  <2>2. \A i : i \notin 1..Len(callers')
    BY <1>4, <1>7
  <2> QED BY <1>4, <1>7, <2>1, <2>2 DEF Calls
<1> QED BY <1>6, <1>8, <1>12, <1>13, <1>14 DEF OnceInv, Parts, NothingYet

LEMMA InitOnce == Init => OnceInv
<1> SUFFICES ASSUME Init PROVE OnceInv
  OBVIOUS
<1> HIDE DEF Threads, Main, Workers, Paths
<1>1. /\ \A t \in Threads : pc[t] \in {"start", "unborn"} /\ pending[t] = <<>> /\ buffer[t] = <<>>
      /\ tasks = <<>> /\ callers = <<>> /\ channel = <<>> /\ received = <<>>
      /\ found[Main] = Root /\ todo[Main] = {} /\ Main \in Threads
  BY ThreadFacts DEF Init
<1>2. \A i : i \notin 1..Len(tasks) /\ i \notin 1..Len(channel) /\ i \notin 1..Len(received)
  BY <1>1
<1>3. \A t \in Threads : pc[t] \notin Working /\ pc[t] \notin Walking
  BY <1>1 DEF Working, Walking
<1>4. \A t \in Threads : \A q : ~May(t, q)
  <2>1. \A t \in Threads : \A q : ~MayProcess(t, q)
    BY <1>3 DEF MayProcess
  <2>2. \A q : ~MayWalk(q)
    BY <1>1, <1>3 DEF MayWalk
  <2> QED BY <2>1, <2>2 DEF May
<1>5. Territories
  <2>1. \A q : ~Queued(q)
    BY <1>2 DEF Queued
  <2>2. \A q : ~Reported(q)
    BY <1>1, <1>2, EmptyBatch DEF Reported
  <2> QED BY <1>2, <1>4, <2>1, <2>2 DEF Territories
<1>6. PathsOnce
  BY <1>1, <1>2, EmptyBatch DEF PathsOnce, Apart
<1>7. \A t \in Threads : InHand(t)
  BY <1>1, <1>3 DEF InHand
<1>8. Calls /\ NothingYet
  BY <1>1, <1>3 DEF Calls, NothingYet
<1> QED BY <1>5, <1>6, <1>7, <1>8 DEF OnceInv, Parts

LEMMA QueueKeepsOnce ==
  ASSUME OnceInv, Shape, NEW t \in Workers, Worker(t) \/ SpuriousWake(t)
  PROVE  OnceInv'
<1> HIDE DEF Threads, Main, Workers, Paths, Labels
<1>1. /\ pc \in [Threads -> Labels] /\ tasks \in Seq(Task) /\ Main \in Threads /\ t \in Threads /\ t # Main
      /\ \A l \in {"look", "spawn", "take", "complete"} : pc[t] = l => pc[Main] = "join"
      /\ WorkerLimit \in Nat
  BY TypesAre, ThreadFacts DEF Shape, Rest, Phases, Idle
<1>2. CASE Wait(t) \/ SpuriousWake(t)
  BY <1>2, AsideKeepsOnce DEF Wait, SpuriousWake, local, totals, loop, consumer
<1>3. CASE Look(t) \/ Spawned(t) \/ Leave(t)
  <2>1. /\ pc[t] \in {"look", "spawn", "take"}
        /\ \E l \in {"spawn", "take", "done"} : pc' = [pc EXCEPT ![t] = l]
    BY <1>3 DEF Look, Spawned, Leave, Goto
  <2>2. \A s \in Threads : \/ pc'[s] = pc[s]
                           \/ pc[s] \notin Working /\ pc'[s] \notin Working \cup Walking
    BY <1>1, <2>1 DEF Working, Walking
  <2>3. pc'[Main] # "start"
    BY <1>1, <2>1
  <2>4. UNCHANGED <<tasks, place, pending, ret, received>>
    BY <1>3 DEF Look, Spawned, Leave, queue, local, totals, loop, consumer
  <2>5. Flush(t) \/ Silent(t)
    BY <1>3 DEF Look, Spawned, Leave, Silent
  <2> QED BY <1>1, <2>2, <2>3, <2>4, <2>5, PassingKeepsOnce
<1>4. CASE Spawn(t)
  <2> DEFINE w == workers_started + 1
  <2>1. pc[t] = "spawn" /\ workers_started < want[t] /\ want[t] \in 0..WorkerLimit
        /\ workers_started \in 0..WorkerLimit
    BY <1>1, <1>4, TypesAre DEF Spawn, Shape, Fields, Rest
  <2>2. w \in Workers /\ w > workers_started
    BY <1>1, <2>1 DEF Workers
  <2>3. w \in Threads /\ w # Main /\ pc[w] = "unborn" /\ pc' = [pc EXCEPT ![w] = "look"]
    BY <1>4, <2>2, ThreadFacts DEF Shape, Phases, Spawn, Goto
  <2> HIDE DEF w
  <2>4. \A s \in Threads : \/ pc'[s] = pc[s]
                           \/ pc[s] \notin Working /\ pc'[s] \notin Working \cup Walking
    BY <1>1, <2>3 DEF Working, Walking
  <2>5. pc'[Main] # "start"
    BY <1>1, <2>1, <2>3
  <2>6. UNCHANGED <<tasks, place, pending, ret, received>> /\ Silent(t)
    BY <1>4 DEF Spawn, queue, local, totals, loop, consumer, Silent
  <2> QED BY <1>1, <2>4, <2>5, <2>6, PassingKeepsOnce
<1>5. CASE Take(t)
  <2> DEFINE n == Len(tasks)
  <2>1. /\ tasks # <<>> /\ Open(t, Last(tasks)) /\ tasks' = Front(tasks) /\ pc[t] = "take"
        /\ UNCHANGED <<found, callers, pending, ret, delivery, received>>
    BY <1>5 DEF Take, totals, loop, consumer
  <2>2. /\ n \in 1..n /\ Last(tasks) = tasks[n] /\ Len(tasks') = n - 1
        /\ \A i \in 1..(n - 1) : i \in 1..n /\ i # n /\ Front(tasks)[i] = tasks[i]
    BY <1>1, <2>1, FrontFacts
  <2> HIDE DEF n
  <2>3. PICK k \in 1..Len(tasks) : k = n
    BY <2>2 DEF n
  <2>4. /\ Open(t, tasks[k])
        /\ \A i \in 1..Len(tasks') : i \in 1..Len(tasks) /\ i # k /\ tasks'[i] = tasks[i]
    BY <2>1, <2>2, <2>3 DEF n
  <2> QED BY <1>1, <2>1, <2>4, OpenKeepsOnce
<1>6. CASE Complete(t)
  <2>1. /\ pc[t] = "complete" /\ tasks' = tasks \o fresh[t] /\ pc'[t] = "look"
        /\ \A s \in Threads \ {t} : pc'[s] = pc[s]
        /\ UNCHANGED <<local, delivery, received>>
    BY <1>1, <1>6 DEF Complete, Goto, consumer
  <2> QED BY <1>1, <2>1, CloseKeepsOnce
<1> QED BY <1>2, <1>3, <1>4, <1>5, <1>6 DEF Worker

LEMMA ChainKeepsOnce ==
  ASSUME OnceInv, Shape, ChainTake \/ ChainComplete \/ Branch
  PROVE  OnceInv'
<1> HIDE DEF Threads, Main, Workers, Paths, Labels
<1>1. pc \in [Threads -> Labels] /\ tasks \in Seq(Task) /\ Main \in Threads
  BY TypesAre, ThreadFacts DEF Shape, Rest
<1>2. CASE ChainTake
  <2>1. /\ Len(tasks) = 1 /\ Open(Main, tasks[1]) /\ tasks' = <<>> /\ pc[Main] = "chain"
        /\ UNCHANGED <<found, callers, pending, ret, delivery, received>>
    BY <1>2 DEF ChainTake, totals, loop, consumer
  <2>2. PICK k \in 1..Len(tasks) : k = 1
    BY <2>1
  <2>3. \A i \in 1..Len(tasks') : i \in 1..Len(tasks) /\ i # k /\ tasks'[i] = tasks[i]
    BY <2>1
  <2>4. Open(Main, tasks[k])
    BY <2>1, <2>2
  <2> QED BY <1>1, <2>1, <2>3, <2>4, OpenKeepsOnce
<1>3. CASE ChainComplete
  <2>1. /\ pc[Main] = "complete" /\ tasks' = tasks \o fresh[Main] /\ pc'[Main] = "chain"
        /\ \A s \in Threads \ {Main} : pc'[s] = pc[s]
        /\ UNCHANGED <<local, delivery, received>>
    BY <1>1, <1>3 DEF ChainComplete, Goto, consumer
  <2> QED BY <1>1, <2>1, CloseKeepsOnce
<1>4. CASE Branch
  <2>1. /\ pc[Main] = "chain" /\ pc' = [pc EXCEPT ![Main] = "join", ![1] = "look"]
        /\ Flush(Main) /\ UNCHANGED <<tasks, place, pending, ret, received>>
    BY <1>4 DEF Branch, queue, local, totals, loop, consumer
  <2>2. pc[1] \in Idle /\ 1 \in Threads /\ 1 # Main
    BY <2>1, ThreadFacts DEF Shape, Phases
  <2>3. pc'[Main] = "join" /\ pc'[1] = "look" /\ \A s \in Threads \ {Main, 1} : pc'[s] = pc[s]
    BY <1>1, <2>1, <2>2
  <2>4. \A s \in Threads : \/ pc'[s] = pc[s]
                           \/ pc[s] \notin Working /\ pc'[s] \notin Working \cup Walking
    BY <2>1, <2>2, <2>3 DEF Working, Walking, Idle
  <2> QED BY <1>1, <2>1, <2>3, <2>4, PassingKeepsOnce
<1> QED BY <1>2, <1>3, <1>4

LEMMA EndKeepsOnce ==
  ASSUME OnceInv, Shape, EndCancelled \/ EndProgress \/ EmitSummary \/ EmitCompleted
  PROVE  OnceInv'
<1> HIDE DEF Threads, Main, Workers, Paths, Labels, Event, Reports
<1>1. pc \in [Threads -> Labels] /\ Fields /\ Main \in Threads
  BY TypesAre, ThreadFacts DEF Shape, Rest
<1>2. /\ pc[Main] \in {"walked", "chain", "join", "summary", "completed"}
      /\ \E l \in {"summary", "completed", "done"} : pc' = [pc EXCEPT ![Main] = l]
      /\ UNCHANGED <<tasks, place, pending, ret, received>>
  BY DEF EndCancelled, EndProgress, EmitSummary, EmitCompleted, WalkOver, Goto, queue, local, totals, loop,
         consumer
<1>3. Silent(Main)
  <2>1. CASE EndCancelled \/ EmitCompleted
    <3>1. ~IsPath(<<"cancelled">>) /\ ~IsPath(<<"completed">>)
      BY DEF IsPath
    <3> QED BY <2>1, <3>1, EventFacts DEF EndCancelled, EmitCompleted, Silent
  <2>2. CASE EndProgress
    <3> DEFINE n == files_seen + directories_seen
    <3>1. n \in Nat /\ Emit(Main, <<"progress", n>>)
      BY <1>1, <2>2 DEF EndProgress, Fields
    <3> HIDE DEF n
    <3>2. <<"progress", n>> \in Event /\ ~IsPath(<<"progress", n>>)
      BY <3>1, EventFacts DEF IsPath
    <3> QED BY <3>1, <3>2 DEF Silent
  <2>3. CASE EmitSummary
    <3> DEFINE e == <<"summary", files_seen, directories_seen, total_allocation>>
    <3>1. e \in Event
      BY <1>1, EventFacts DEF Fields
    <3>2. ~IsPath(e)
      BY DEF IsPath
    <3>3. Emit(Main, e)
      BY <2>3 DEF EmitSummary
    <3> HIDE DEF e
    <3> QED BY <3>1, <3>2, <3>3 DEF Silent
  <2> QED BY <2>1, <2>2, <2>3
<1>4. \A s \in Threads : \/ pc'[s] = pc[s]
                         \/ pc[s] \notin Working /\ pc'[s] \notin Working \cup Walking
  BY <1>1, <1>2 DEF Working, Walking
<1>5. pc'[Main] # "start"
  BY <1>1, <1>2
<1> QED BY <1>1, <1>2, <1>3, <1>4, <1>5, PassingKeepsOnce

LEMMA OutsideKeepsOnce ==
  ASSUME OnceInv, Shape, Receive \/ DropReceiver \/ Cancel
  PROVE  OnceInv'
<1>1. CASE Cancel
  BY <1>1, AsideKeepsOnce DEF Cancel, queue, local, totals, loop, consumer
<1>2. CASE Receive \/ DropReceiver
  <2>1. UNCHANGED <<tasks, pc, place, pending, ret, buffer>>
    BY <1>2 DEF Receive, DropReceiver, queue, local, totals, loop
  <2>2. PathsOnce' /\ \A q : Reported(q)' => Reported(q)
    BY <1>2, ReceiveOnce, DropOnce DEF OnceInv, Shape
  <2> HIDE DEF Threads, Main, Working, Walking, Paths
  <2>3. \A q : /\ Queued(q)' <=> Queued(q)
               /\ \A t \in Threads : May(t, q)' <=> May(t, q)
    BY <2>1 DEF place, Queued, May, MayProcess, MayWalk, HasFound, Entering
  <2>4. Territories'
    BY <2>1, <2>2, <2>3 DEF OnceInv, Territories
  <2>5. \A t \in Threads : InHand(t)' <=> InHand(t)
    BY <2>1 DEF place, HasFound, InHand, Carries, PendingDiffer, TasksDiffer, FoundDiffers, TaskName
  <2>6. pc[Main] # "start" \/ received' = received
    <3>1. channel # <<>> \/ received' = received
      BY <1>2 DEF Receive, DropReceiver
    <3> QED BY <3>1 DEF Shape, Held
  <2>7. Parts'
    BY <2>1, <2>5, <2>6 DEF OnceInv, Parts, Calls, Entering, NothingYet, place
  <2> QED BY <2>2, <2>4, <2>7 DEF OnceInv
<1> QED BY <1>1, <1>2

-----------------------------------------------------------------------------
(* No path is reported twice. *)

LEMMA OnceCorrect == Spec => []OnceInv
<1>1. ASSUME OnceInv, WalkInv, [Next]_vars PROVE OnceInv'
  <2> USE <1>1
  <2>1. Shape
    BY DEF WalkInv
  <2>2. CASE UNCHANGED vars
    BY <2>2, AsideKeepsOnce DEF vars, queue, local, totals, loop, delivery, consumer
  <2>3. CASE Scan
    BY <2>1, <2>3, StartKeepsOnce, ChainKeepsOnce, WalkKeepsOnce, EndKeepsOnce DEF Scan
  <2>4. ASSUME NEW t \in Threads, Process(t) PROVE OnceInv'
    BY <2>1, <2>4, ProcessKeepsOnce
  <2>5. ASSUME NEW t \in Workers, Worker(t) \/ SpuriousWake(t) PROVE OnceInv'
    BY <2>1, <2>5, QueueKeepsOnce
  <2>6. CASE Receive \/ DropReceiver \/ Cancel
    BY <2>1, <2>6, OutsideKeepsOnce
  <2>7. CASE Over
    BY <2>2, <2>7 DEF Over
  <2> QED BY <2>2, <2>3, <2>4, <2>5, <2>6, <2>7 DEF Next
<1> QED BY InitOnce, WalkCorrect, <1>1, PTL DEF Spec

(* What the invariants say of the events, wherever they are, is that no    *)
(* two are about one path and no two are an end.                           *)
LEMMA OnceAnywhere ==
  ASSUME PathsOnce, EndIsLast
  PROVE  ReportedOnce
<1> DEFINE Places == {<<"received", 0>>} \cup ({"channel"} \X (1..Len(channel)))
                       \cup ({"buffer"} \X Threads)
           At(p) == IF p[1] = "received" THEN received
                    ELSE IF p[1] = "channel" THEN channel[p[2]] ELSE buffer[p[2]]
<1>1. \A p \in Places : \/ p = <<"received", 0>> /\ At(p) = received
                        \/ \E k \in 1..Len(channel) : p = <<"channel", k>> /\ At(p) = channel[k]
                        \/ \E t \in Threads : p = <<"buffer", t>> /\ At(p) = buffer[t]
  OBVIOUS
<1> HIDE DEF Places, At, Threads, Ends, IsPath
<1>2. \A p \in Places : NoRepeat(At(p))
  BY <1>1 DEF PathsOnce
<1>3. \A p, q \in Places : p # q => Apart(At(p), At(q))
  <2>1. \A seq, other : Apart(seq, other) => Apart(other, seq)
    BY DEF Apart
  <2> HIDE DEF Apart
  <2> QED BY <1>1, <2>1 DEF PathsOnce
<1>4. \A p \in Places : \A i \in 1..Len(At(p)) :
        Ends(At(p)[i]) => /\ i = Len(At(p))
                          /\ \A q \in Places : q # p => \A k \in 1..Len(At(q)) : ~Ends(At(q)[k])
  <2>0. \A t \in Threads : \A i \in 1..Len(buffer[t]) : ~Ends(buffer[t][i])
    BY DEF EndIsLast, Ended
  <2>1. ASSUME NEW i \in 1..Len(received), Ends(received[i])
        PROVE  /\ i = Len(received)
               /\ \A q \in Places : q # <<"received", 0>> => \A k \in 1..Len(At(q)) : ~Ends(At(q)[k])
    <3>1. i = Len(received) /\ channel = <<>>
      BY <2>1 DEF EndIsLast
    <3>2. \A k : k \notin 1..Len(channel)
      BY <3>1
    <3> QED BY <1>1, <2>0, <3>1, <3>2
  <2>2. ASSUME NEW l \in 1..Len(channel), NEW i \in 1..Len(channel[l]), Ends(channel[l][i])
        PROVE  /\ i = Len(channel[l])
               /\ \A q \in Places : q # <<"channel", l>> => \A k \in 1..Len(At(q)) : ~Ends(At(q)[k])
    <3>1. i = Len(channel[l]) /\ l = Len(channel)
      BY <2>2 DEF EndIsLast
    <3>2. \A k \in 1..Len(channel) : k # l => \A j \in 1..Len(channel[k]) : ~Ends(channel[k][j])
      BY <3>1 DEF EndIsLast
    <3>3. \A j \in 1..Len(received) : ~Ends(received[j])
      <4>1. channel # <<>>
        OBVIOUS
      <4> QED BY <4>1 DEF EndIsLast
    <3> QED BY <1>1, <2>0, <3>1, <3>2, <3>3
  <2> QED BY <1>1, <2>0, <2>1, <2>2
<1>5. ASSUME NEW p \in Places, NEW q \in Places, NEW i \in 1..Len(At(p)), NEW k \in 1..Len(At(q)),
             \/ Ends(At(p)[i]) /\ Ends(At(q)[k])
             \/ IsPath(At(p)[i]) /\ IsPath(At(q)[k]) /\ At(p)[i][2] = At(q)[k][2]
      PROVE  p = q /\ i = k
  <2>1. CASE Ends(At(p)[i]) /\ Ends(At(q)[k])
    BY <1>4, <2>1
  <2>2. CASE IsPath(At(p)[i]) /\ IsPath(At(q)[k]) /\ At(p)[i][2] = At(q)[k][2]
    <3>1. At(p)[i][2] \in PathsIn(At(p)) /\ At(q)[k][2] \in PathsIn(At(q))
      BY <2>2 DEF PathsIn
    <3>2. p = q
      BY <1>3, <2>2, <3>1 DEF Apart
    <3> QED BY <1>2, <2>2, <3>2 DEF NoRepeat
  <2> QED BY <1>5, <2>1, <2>2
<1> QED BY <1>5 DEF ReportedOnce, Places, At

(* Each path, and the end, is reported at most once: whichever threads meet *)
(* over a directory (FallbackQueue), however the batches travel and when    *)
(* the consumer leaves or the scan is cancelled.                            *)
THEOREM EachPathOnce == Spec => []ReportedOnce
<1>1. OnceInv /\ WalkInv => ReportedOnce
  BY OnceAnywhere DEF OnceInv, WalkInv, EndInv
<1> QED BY <1>1, OnceCorrect, WalkCorrect, PTL
===============================================================================
