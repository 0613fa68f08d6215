------------------------ MODULE FallbackCompleteProofs ------------------------
(***************************************************************************)
(* Proof that completed means complete, for any tree, links, rules and     *)
(* disk, any number of workers and any sizes of batches and limits.        *)
(*                                                                         *)
(* While the consumer is there, everything sent is received or on its way  *)
(* (Sent), and the invariant is about what was sent:                       *)
(*   WalkSound: what the threads, the calls and the queue hold, and what   *)
(*     was sent, belongs to the tree to be walked, so nothing else is      *)
(*     reported;                                                           *)
(*   RestInv: a thread that is through with a directory has nothing left   *)
(*     of it and its totals are published, and a walk that is over has     *)
(*     emptied the stack and the calls;                                    *)
(*   Covered: every entry of every directory sent is itself sent or        *)
(*     issued, or some thread, call or task still has it to do, until the  *)
(*     scan is cut short;                                                  *)
(*   Records: the counters are those of what was sent but for what threads *)
(*     have not published, an issue that is suppressed as a repetition was *)
(*     sent before, and of the names of one file one is charged.           *)
(* When the end arrives no thread, batch or task holds anything back, so   *)
(* what was received is all of it; after the consumer has gone, what it    *)
(* has heard does not change.                                              *)
(***************************************************************************)
EXTENDS FallbackWalkProofs, SequenceTheorems

-----------------------------------------------------------------------------
(* What is on its way to the consumer, or there. *)
EventsIn(seq) == {seq[i] : i \in 1..Len(seq)}
Sent == EventsIn(received) \cup (UNION {EventsIn(channel[k]) : k \in 1..Len(channel)})
          \cup (UNION {EventsIn(buffer[t]) : t \in Threads})

IssueAt(p) == \E e \in Sent : e[1] = "issue" /\ e[3] = p
Known(p) == \E e \in Sent : IsPath(e) /\ e[2] = p

-----------------------------------------------------------------------------
(* Nothing but the tree is walked: the directories in hand, queued and     *)
(* above are to be entered, and what is found there is theirs and allowed. *)
Traced(task) ==
  IF setup.policy = "SkipAll" THEN task.ancestors = <<>>
  ELSE /\ Len(task.ancestors) = Len(task.path)
       /\ \A n \in 1..Len(task.path) : task.ancestors[n] = Real(SubSeq(task.path, 1, n))

Duties == {task \in Task : task.path # <<>> /\ Traced(task) /\ ToEnter(task.path)}
Inside == {u \in Task \X (Dirs \cup Files) : u[2] \in Entries(u[1].path)}
Admitted == {u \in Inside : Append(u[1].path, u[2]) \notin setup.excluded}
Genuine ==
  {p \in Paths : \/ p = <<Root>>
                 \/ /\ p # <<>> /\ ToEnter(Front(p)) /\ Last(p) \in Entries(Front(p))
                    /\ p \notin setup.excluded}

HandSound(t) ==
  /\ dir[t] \in Duties
  /\ \A e \in todo[t] : <<dir[t], e>> \in Inside
  /\ \A i \in 1..Len(pending[t]) : <<dir[t], pending[t][i]>> \in Admitted
  /\ HasFound(t) \/ (t = Main /\ Entering) => <<dir[t], found[t]>> \in Admitted
  /\ \A i \in 1..Len(fresh[t]) : fresh[t][i] \in Duties

CallsSound == \A i \in 1..Len(callers) :
                /\ callers[i].task \in Duties
                /\ \A e \in callers[i].todo : <<callers[i].task, e>> \in Inside
TasksSound == \A i \in 1..Len(tasks) : tasks[i] \in Duties
SentSound == \A e \in Sent : IsPath(e) => e[2] \in Genuine

WalkSound == (\A t \in Threads : HandSound(t)) /\ CallsSound /\ TasksSound /\ SentSound

-----------------------------------------------------------------------------
(* A thread that is through with a directory has nothing left of it, and   *)
(* its totals are published.                                               *)
Reporting == {"progress", "advance", "report"}
Resting == {"unborn", "look", "spawn", "take", "done", "start", "chain", "join", "summary",
            "completed", "walked"}
Emptied(t) == \/ pc[t] \in Resting \cup {"open", "complete", "end"}
              \/ pc[t] \in Reporting /\ ret[t] = "complete"
              \/ pc[t] \in Reporting \cup {"emit"} /\ ret[t] = "end"
Published(t) == \/ pc[t] \notin Working
                \/ pc[t] \in {"open", "complete"}
                \/ pc[t] \in Reporting /\ ret[t] = "complete"
Rested(t) == /\ Emptied(t) => todo[t] = {}
             /\ Published(t) => tally[t] = 0 /\ physical[t] = 0

Drained ==
  /\ pc[Main] \notin {"walk", "walking", "counted", "descend"} => callers = <<>>
  /\ pc[Main] \in Walking \cup {"start", "summary", "completed", "done"} => tasks = <<>>
  /\ pc[Main] = "join" => workers_started > 0
  /\ (\E w \in Workers : pc[w] = "done") => tasks = <<>>
  /\ pc[Main] = "join" /\ (\E w \in Workers : pc[w] = "done") => outstanding = 0

RestInv == (\A t \in Threads : Rested(t)) /\ Drained

-----------------------------------------------------------------------------
(* Every entry of a directory that was sent is reported, or is still in    *)
(* somebody's hands.                                                       *)
Expected == {u \in Paths \X (Dirs \cup Files) :
               /\ ToEnter(u[1]) /\ u[2] \in Entries(u[1])
               /\ Append(u[1], u[2]) \notin setup.excluded}

Holds(t, p, e) ==
  \/ /\ dir[t].path = p
     /\ \/ pc[t] \in {"open", "walk"} \/ e \in todo[t]
        \/ \E i \in 1..Len(pending[t]) : pending[t][i] = e
        \/ HasFound(t) /\ found[t] = e
  \/ pc[t] \in Working /\ \E i \in 1..Len(fresh[t]) : fresh[t][i].path = p
Left(p, e) ==
  \/ \E t \in Threads : Holds(t, p, e)
  \/ \E i \in 1..Len(tasks) : tasks[i].path = p
  \/ \E i \in 1..Len(callers) : callers[i].task.path = p /\ e \in callers[i].todo
  \/ Entering /\ p = Append(dir[Main].path, found[Main])

Answered(q) == Known(q) \/ IssueAt(q)
Covered ==
  /\ pc[Main] # "start" => Answered(<<Root>>)
  /\ \A p \in Paths, e \in Dirs \cup Files : <<"dir", p>> \in Sent /\ <<p, e>> \in Expected =>
       IssueAt(p) \/ Answered(Append(p, e)) \/ Left(p, e)

(* The scan has not been cut short, and somebody hears of it. *)
Whole == ~cancelled \/ pc[Main] \in {"summary", "completed"} \/ <<"completed">> \in Sent

-----------------------------------------------------------------------------
(* The totals are those of what was sent, but for what threads have not    *)
(* published.                                                              *)
SentDirs == {e \in Sent : e[1] = "dir"}
SentFiles == {e \in Sent : e[1] = "file"}
SentCharged == {e \in SentFiles : e[3] = 1}

Units(f) == {u \in Threads \X Nat : 1 <= u[2] /\ u[2] <= f[u[1]]}
Counts ==
  /\ IsFiniteSet(SentDirs) /\ Cardinality(SentDirs) = directories_seen
  /\ IsFiniteSet(SentFiles) /\ Cardinality(SentFiles) = files_seen + Cardinality(Units(tally))
  /\ Cardinality(SentCharged) = total_allocation + Cardinality(Units(physical))
  /\ \A e \in Sent : e[1] = "summary" =>
       /\ e = <<"summary", files_seen, directories_seen, total_allocation>>
       /\ pc[Main] \in {"completed", "done"}

Issues == \A kind \in Kinds, p \in Paths : <<kind, p>> \in issue_keys => <<"issue", kind, p>> \in Sent

-----------------------------------------------------------------------------
(* Of the names of one file exactly one is charged, or about to be.        *)
Identity(f) == setup.identity[f]
FileOf(e) == Last(e[2])
Settled(f, n) == IF Identity(f) = NoIdentity THEN n = 1 ELSE n \in {0, 1} /\ Identity(f) \in claimed
Paid(e, id) == e \in SentCharged /\ Identity(FileOf(e)) = id
Pays(t, id) == pc[t] = "emit" /\ charge[t] = 1 /\ Identity(Head(pending[t])) = id

Charges ==
  /\ \A e \in SentFiles : FileOf(e) \in Files /\ Settled(FileOf(e), e[3])
  /\ \A t \in Threads : pc[t] = "emit" => Settled(Head(pending[t]), charge[t])
  /\ \A id \in claimed : (\E e \in Sent : Paid(e, id)) \/ (\E t \in Threads : Pays(t, id))
  /\ \A id \in Files :
       /\ \A e, g \in Sent : Paid(e, id) /\ Paid(g, id) => e = g
       /\ \A t, s \in Threads : Pays(t, id) /\ Pays(s, id) => t = s
       /\ \A e \in Sent, t \in Threads : ~(Paid(e, id) /\ Pays(t, id))

Records == Counts /\ Issues /\ Charges

CompleteInv ==
  /\ WalkSound /\ RestInv
  /\ alive => Records /\ (Whole => Covered)
  /\ ~alive => CompletedIsComplete

-----------------------------------------------------------------------------
(* Events in batches. *)

LEMMA EventsAppend ==
  ASSUME NEW S, NEW seq \in Seq(S), NEW e \in S
  PROVE  EventsIn(Append(seq, e)) = EventsIn(seq) \cup {e}
<1> DEFINE n == Len(seq)
           long == Append(seq, e)
<1>1. /\ n \in Nat /\ Len(long) = n + 1 /\ long[n + 1] = e
      /\ \A i \in 1..n : long[i] = seq[i]
  OBVIOUS
<1> HIDE DEF long
<1>2. 1..Len(long) = (1..n) \cup {n + 1}
  BY <1>1
<1> HIDE DEF n
<1>3. /\ \A x : x \in EventsIn(long) <=> \E i \in 1..Len(long) : x = long[i]
      /\ \A x : x \in EventsIn(seq) <=> \E i \in 1..n : x = seq[i]
  BY DEF EventsIn, n
<1>4. \A x : x \in EventsIn(long) <=> x \in EventsIn(seq) \/ x = e
  BY <1>1, <1>2, <1>3
<1> QED BY <1>4 DEF long

LEMMA EventsConcat ==
  ASSUME NEW S, NEW seq \in Seq(S), NEW more \in Seq(S)
  PROVE  EventsIn(seq \o more) = EventsIn(seq) \cup EventsIn(more)
<1> DEFINE n == Len(seq)
           m == Len(more)
           long == seq \o more
<1>1. /\ n \in Nat /\ m \in Nat /\ Len(long) = n + m
      /\ \A i \in 1..n : long[i] = seq[i]
      /\ \A i \in (n + 1)..(n + m) : long[i] = more[i - n]
  OBVIOUS
<1> HIDE DEF long
<1>2. /\ \A i \in 1..Len(long) : i \in 1..n \/ (i \in (n + 1)..(n + m) /\ i - n \in 1..m)
      /\ \A k \in 1..m : k + n \in 1..Len(long) /\ k + n \in (n + 1)..(n + m) /\ (k + n) - n = k
      /\ \A i \in 1..n : i \in 1..Len(long)
  BY <1>1
<1>3. /\ \A x : x \in EventsIn(long) <=> \E i \in 1..Len(long) : x = long[i]
      /\ \A x : x \in EventsIn(seq) <=> \E i \in 1..n : x = seq[i]
      /\ \A x : x \in EventsIn(more) <=> \E i \in 1..m : x = more[i]
  BY DEF EventsIn
<1>4. \A k \in 1..m : long[k + n] = more[k]
  <2> SUFFICES ASSUME NEW k \in 1..m, NEW i, i = k + n PROVE long[i] = more[k]
    OBVIOUS
  <2> DEFINE a == i - n
  <2>1. a = k /\ long[i] = more[a]
    BY <1>1
  <2> HIDE DEF a
  <2> QED BY <2>1
<1> HIDE DEF n, m
<1>5. ASSUME NEW x \in EventsIn(long) PROVE x \in EventsIn(seq) \cup EventsIn(more)
  <2>1. PICK i \in 1..Len(long) : x = long[i]
    BY <1>3
  <2>2. CASE i \in 1..n
    BY <1>1, <1>3, <2>1, <2>2
  <2>3. CASE i \in (n + 1)..(n + m)
    <3> DEFINE a == i - n
    <3>1. a \in 1..m /\ long[i] = more[a]
      BY <1>1, <2>3
    <3> HIDE DEF a
    <3> QED BY <1>3, <2>1, <3>1
  <2> QED BY <1>2, <2>2, <2>3
<1>6. ASSUME NEW x \in EventsIn(seq) \cup EventsIn(more) PROVE x \in EventsIn(long)
  BY <1>1, <1>2, <1>3, <1>4, SMTT(60)
<1> QED BY <1>5, <1>6 DEF long

LEMMA SentIs ==
  /\ \A e : e \in Sent <=> \/ e \in EventsIn(received)
                           \/ \E k \in 1..Len(channel) : e \in EventsIn(channel[k])
                           \/ \E t \in Threads : e \in EventsIn(buffer[t])
  /\ \A e : e \in Sent' <=> \/ e \in EventsIn(received')
                            \/ \E k \in 1..Len(channel') : e \in EventsIn(channel'[k])
                            \/ \E t \in Threads : e \in EventsIn(buffer'[t])
  /\ EventsIn(<<>>) = {}
<1>1. EventsIn(<<>>) = {}
  BY DEF EventsIn
<1>2. \A e : \/ e \in EventsIn(received)
             \/ \E k \in 1..Len(channel) : e \in EventsIn(channel[k])
             \/ \E t \in Threads : e \in EventsIn(buffer[t])
             <=> e \in Sent
  BY Zenon DEF Sent
<1>3. \A e : \/ e \in EventsIn(received')
             \/ \E k \in 1..Len(channel') : e \in EventsIn(channel'[k])
             \/ \E t \in Threads : e \in EventsIn(buffer'[t])
             <=> e \in Sent'
  BY Zenon DEF Sent
<1> QED BY Zenon, <1>1, <1>2, <1>3

(* What a step says, as long as somebody may hear it. *)
Says(new) == (alive => Sent' = Sent \cup new) /\ Sent' \subseteq Sent \cup new

LEMMA HandOverSays ==
  ASSUME WireOK, NEW t \in Threads, NEW batch, NEW new, UNCHANGED received,
         EventsIn(batch) = EventsIn(buffer[t]) \cup new,
         Send(batch), buffer' = [buffer EXCEPT ![t] = <<>>]
  PROVE  Says(new)
<1> DEFINE B == Seq(Event)
           n == Len(channel)
<1>1. channel \in Seq(B) /\ buffer \in [Threads -> Seq(Reports)]
  BY DEF WireOK
<1>2. \/ channel' = channel /\ ~alive
      \/ channel' = Append(channel, batch)
  BY DEF Send
<1> HIDE DEF B, Threads, Reports
<1>3. /\ n \in Nat
      /\ \/ channel' = channel /\ ~alive
         \/ /\ Len(channel') = n + 1 /\ channel'[n + 1] = batch
            /\ \A k \in 1..n : channel'[k] = channel[k]
            /\ n + 1 \in 1..Len(channel') /\ \A k \in 1..n : k \in 1..Len(channel')
            /\ \A k \in 1..Len(channel') : k \in 1..n \/ k = n + 1
  BY <1>1, <1>2
<1>4. buffer'[t] = <<>> /\ \A s \in Threads \ {t} : buffer'[s] = buffer[s]
  BY <1>1
<1> HIDE DEF n
<1>5. ASSUME NEW e \in Sent' PROVE e \in Sent \cup new
  <2>1. CASE \E k \in 1..Len(channel') : e \in EventsIn(channel'[k])
    BY <1>3, <2>1, SentIs DEF n
  <2>2. CASE \E s \in Threads : e \in EventsIn(buffer'[s])
    BY <1>4, <2>2, SentIs
  <2> QED BY <2>1, <2>2, SentIs
<1>6. ASSUME alive, NEW e \in Sent \cup new PROVE e \in Sent'
  <2>1. \A x \in EventsIn(batch) : x \in Sent'
    BY <1>3, <1>6, SentIs
  <2>2. CASE \E k \in 1..Len(channel) : e \in EventsIn(channel[k])
    BY <1>3, <1>6, <2>2, SentIs DEF n
  <2>3. CASE \E s \in Threads : e \in EventsIn(buffer[s])
    BY <1>4, <2>1, <2>3, SentIs
  <2> QED BY <2>1, <2>2, <2>3, SentIs
<1> QED BY <1>5, <1>6 DEF Says

LEMMA EmitSays ==
  ASSUME WireOK, NEW t \in Threads, NEW e \in Event, Emit(t, e), UNCHANGED received
  PROVE  Says({e})
<1> DEFINE batch == Append(buffer[t], e)
<1>1. buffer[t] \in Seq(Event)
  BY EventFacts DEF WireOK
<1>2. buffer \in [Threads -> Seq(Reports)]
  BY DEF WireOK
<1> HIDE DEF Event, Reports, Threads
<1>3. EventsIn(batch) = EventsIn(buffer[t]) \cup {e}
  BY <1>1, EventsAppend
<1>4. \/ Send(batch) /\ buffer' = [buffer EXCEPT ![t] = <<>>]
      \/ UNCHANGED channel /\ buffer' = [buffer EXCEPT ![t] = batch]
  BY DEF Emit
<1> HIDE DEF batch
<1>5. CASE Send(batch) /\ buffer' = [buffer EXCEPT ![t] = <<>>]
  BY <1>3, <1>5, HandOverSays
<1>6. CASE UNCHANGED channel /\ buffer' = [buffer EXCEPT ![t] = batch]
  <2>1. buffer'[t] = batch /\ \A s \in Threads \ {t} : buffer'[s] = buffer[s]
    BY <1>2, <1>6
  <2>2. \A x : (\E s \in Threads : x \in EventsIn(buffer'[s])) <=>
               x = e \/ \E s \in Threads : x \in EventsIn(buffer[s])
    BY <1>3, <2>1
  <2>3. \A x : x \in Sent' <=> x \in Sent \cup {e}
    BY <1>6, <2>2, SentIs
  <2> QED BY <2>3 DEF Says
<1> QED BY <1>4, <1>5, <1>6

LEMMA NothingSaid ==
  ASSUME UNCHANGED <<delivery, received>>
  PROVE  Says({}) /\ Sent' = Sent
<1>1. \A e : e \in Sent' <=> e \in Sent
  BY SentIs DEF delivery
<1> QED BY <1>1 DEF Says

LEMMA FlushSays ==
  ASSUME WireOK, NEW t \in Threads, Flush(t), UNCHANGED received
  PROVE  Says({})
<1>1. CASE UNCHANGED delivery
  BY <1>1, NothingSaid
<1>2. CASE Send(buffer[t]) /\ buffer' = [buffer EXCEPT ![t] = <<>>]
  <2>1. PICK batch, none : batch = buffer[t] /\ none = {}
    OBVIOUS
  <2>2. EventsIn(batch) = EventsIn(buffer[t]) \cup none /\ Send(batch)
    BY <1>2, <2>1
  <2>3. Says(none)
    BY <1>2, <2>2, HandOverSays
  <2> QED BY <2>1, <2>3
<1> QED BY <1>1, <1>2 DEF Flush

LEMMA ReceiveSays ==
  ASSUME WireOK, Receive
  PROVE  Sent' = Sent
<1> DEFINE B == Seq(Event)
           batch == Head(channel)
           n == Len(channel)
           m == Len(channel')
<1>1. /\ channel \in Seq(B) /\ channel # <<>> /\ channel' = Tail(channel)
      /\ received \in Seq(Event) /\ received' = received \o batch /\ buffer' = buffer
  BY DEF Receive, WireOK
<1> HIDE DEF B
<1>2. /\ 1 \in 1..n /\ batch = channel[1] /\ batch \in B /\ m = n - 1 /\ n \in Nat
      /\ \A k \in 1..m : k + 1 \in 1..n /\ channel'[k] = channel[k + 1]
  BY <1>1
<1>3. \A k \in 1..n : k = 1 \/ \E l \in 1..m : channel'[l] = channel[k]
  <2> SUFFICES ASSUME NEW k \in 1..n, k # 1 PROVE \E l \in 1..m : channel'[l] = channel[k]
    OBVIOUS
  <2> DEFINE l == k - 1
  <2>1. l \in 1..m /\ l + 1 = k
    BY <1>2
  <2> HIDE DEF l
  <2> QED BY <1>2, <2>1
<1> HIDE DEF batch, n, m
<1>4. EventsIn(received') = EventsIn(received) \cup EventsIn(batch)
  BY <1>1, <1>2, EventsConcat DEF B
<1>5. \A e : (\E k \in 1..n : e \in EventsIn(channel[k])) <=>
             e \in EventsIn(batch) \/ \E k \in 1..m : e \in EventsIn(channel'[k])
  BY <1>2, <1>3
<1>6. \A e : e \in Sent' <=> e \in Sent
  BY <1>1, <1>4, <1>5, SentIs DEF n, m
<1> QED BY <1>6

LEMMA DropSays ==
  ASSUME DropReceiver
  PROVE  Sent' \subseteq Sent
<1>1. channel' = <<>> /\ buffer' = buffer /\ received' = received
  BY DEF DropReceiver
<1>2. \A k : k \notin 1..Len(channel')
  BY <1>1
<1> QED BY <1>1, <1>2, SentIs

-----------------------------------------------------------------------------
(* A step of one thread that walks. *)
Frame(t) ==
  /\ \A s \in Threads \ {t} :
       /\ pc'[s] = pc[s] /\ ret'[s] = ret[s] /\ dir'[s] = dir[s] /\ todo'[s] = todo[s]
       /\ fresh'[s] = fresh[s] /\ found'[s] = found[s] /\ pending'[s] = pending[s]
       /\ tally'[s] = tally[s] /\ physical'[s] = physical[s] /\ charge'[s] = charge[s]
  /\ UNCHANGED <<setup, tasks, received, alive, cancelled, outstanding, workers_started>>

LEMMA ProcessFrame ==
  ASSUME Shape, NEW t \in Threads, Process(t)
  PROVE  /\ Frame(t) /\ callers' = callers /\ pc[t] \in Working /\ pc'[t] \in Working
         /\ t # Main => pc[Main] = "join" /\ Main \in Threads \ {t}
<1>1. Own(t) /\ Works(t) /\ callers' = callers /\ pc[t] \in Working /\ pc'[t] \in Working
  BY ProcessIsOwn, WorkStep
<1>2. /\ tally \in [Threads -> Nat] /\ physical \in [Threads -> Nat] /\ charge \in [Threads -> Nat]
  BY TypesAre DEF Shape, Fields
<1>3. t # Main => pc[Main] = "join" /\ Main \in Threads \ {t}
  BY <1>1, ThreadFacts DEF Shape, Phases, Working, Idle
<1> DEFINE Rests == \A s \in Threads \ {t} :
                      tally'[s] = tally[s] /\ physical'[s] = physical[s] /\ charge'[s] = charge[s]
<1> HIDE DEF Threads, Working, Main
<1>4. ASSUME \/ ReadFails(t) \/ ReadDir(t) \/ LeaveLoop(t) \/ DirEntry(t) \/ CycleIssue(t)
             \/ FilesEmitted(t) \/ LoadItems(t) \/ Advance(t) \/ Report(t)
             \/ \E e \in Dirs \cup Files : EntryFails(t, e) \/ Exclude(t, e) \/ FileEntry(t, e) \/ FindDir(t, e)
      PROVE  Rests
  BY <1>4 DEF ReadFails, ReadDir, LeaveLoop, EntryFails, Exclude, FileEntry, FindDir, DirEntry, CycleIssue,
     FilesEmitted, LoadItems, Advance, Report, local, totals
<1>5. ASSUME ClaimFile(t) PROVE Rests
  BY <1>2, <1>5 DEF ClaimFile
<1>6. ASSUME EndDirectory(t) PROVE Rests
  BY <1>2, <1>6 DEF EndDirectory
<1>7. ASSUME EmitFile(t) PROVE Rests
  <2>1. /\ charge' = [charge EXCEPT ![t] = 0]
        /\ \E n : tally' = [tally EXCEPT ![t] = n]
        /\ \E n : physical' = [physical EXCEPT ![t] = n]
    BY <1>7 DEF EmitFile
  <2> QED BY <1>2, <2>1
<1>8. Rests
  BY <1>4, <1>5, <1>6, <1>7 DEF Process
<1> QED BY <1>1, <1>3, <1>8 DEF Own, Works, Frame, queue, consumer

LEMMA WalkFrame ==
  ASSUME Shape, Walk
  PROVE  /\ Frame(Main) /\ UNCHANGED <<tally, physical, charge, pending, fresh>>
         /\ pc[Main] \in Walking /\ pc'[Main] \in Walking /\ Main \in Threads
<1>1. Own(Main) /\ Works(Main) /\ pc[Main] \in Walking /\ pc'[Main] \in Walking /\ pending' = pending
  BY WalkIsOwn, WorkStep, ThreadFacts
<1> HIDE DEF Threads, Walking, Main
<1>2. UNCHANGED <<tally, physical, charge, fresh>>
  BY DEF Walk, WalkReadFails, WalkReadDir, WalkReturn, WalkEntryFails, WalkExclude, WalkDir, WalkFile,
         WalkProgress, WalkDescend, WalkPassBy, local, place, totals
<1> QED BY <1>1, <1>2, ThreadFacts DEF Own, Works, Frame, queue, consumer

-----------------------------------------------------------------------------
(* What is to be entered, and what is found there. *)

LEMMA SetupKeeps ==
  ASSUME UNCHANGED setup
  PROVE  Duties' = Duties /\ Inside' = Inside /\ Admitted' = Admitted /\ Genuine' = Genuine
         /\ Expected' = Expected
BY DEF Duties, Inside, Admitted, Genuine, Expected, Traced, ToEnter, Entries, Real

LEMMA RootIsDue ==
  ASSUME setup \in Setup
  PROVE  RootTask \in Duties /\ <<Root>> \in Genuine
<1> DEFINE root == <<Root>>
<1>1. Root \in Dirs /\ Root \notin Links
  BY WalkAssumption
<1>2. /\ root # <<>> /\ Len(root) = 1 /\ Last(root) = Root /\ root \in Paths
      /\ \A n \in 1..Len(root) : SubSeq(root, 1, n) = root /\ n = 1
  <2>1. root # <<>> /\ Len(root) = 1 /\ root \in Seq(Dirs) /\ root[1] = Root /\ root \in Seq(Dirs \cup Files)
    BY <1>1
  <2>2. SubSeq(root, 1, 1) \in Seq(Dirs) /\ Len(SubSeq(root, 1, 1)) = 1 /\ SubSeq(root, 1, 1)[1] = root[1]
    BY <2>1
  <2> HIDE DEF root
  <2>3. \A n \in 1..1 : n = 1
    OBVIOUS
  <2>4. SubSeq(root, 1, 1) = root
    BY <2>1, <2>2, <2>3, SeqEqual
  <2> QED BY <2>1, <2>3, <2>4 DEF Last, Paths
<1> HIDE DEF root
<1>3. Real(root) = Root /\ ToEnter(root)
  BY <1>1, <1>2 DEF Real, ToEnter
<1>4. RootTask \in Task /\ RootTask.path = root
  BY RootIsTask DEF RootTask, root
<1>5. Traced(RootTask)
  <2>1. CASE setup.policy = "SkipAll"
    BY <2>1 DEF Traced, RootTask
  <2>2. CASE setup.policy # "SkipAll"
    <3>1. RootTask.ancestors = <<Root>>
      BY <2>2 DEF RootTask
    <3>2. Len(<<Root>>) = 1 /\ <<Root>>[1] = Root
      OBVIOUS
    <3> HIDE DEF RootTask
    <3> QED BY <1>2, <1>3, <1>4, <2>2, <3>1, <3>2 DEF Traced
  <2> QED BY <2>1, <2>2
<1> HIDE DEF RootTask
<1> QED BY <1>2, <1>3, <1>4, <1>5 DEF Duties, Genuine, root

(* The directory that is found below one that is due is followed exactly   *)
(* if it is to be entered, and what is followed is due.                    *)
LEMMA ChildIsDue ==
  ASSUME setup \in Setup, NEW task \in Duties, NEW d \in Dirs
  PROVE  /\ evaluate_reparse_descent(task, d) = "Follow" <=> ToEnter(Append(task.path, d))
         /\ evaluate_reparse_descent(task, d) = "Follow" => Child(task, d) \in Duties
<1> DEFINE p == task.path
           path == Append(p, d)
           n == Len(p)
<1>1. /\ p \in Seq(Dirs) /\ task.ancestors \in Seq(Dirs) /\ p # <<>> /\ Traced(task) /\ ToEnter(p)
      /\ task \in Task
  BY DEF Duties, Task
<1> HIDE DEF p
<1>2. /\ Len(path) = n + 1 /\ n \in Nat /\ n > 0 /\ Last(path) = d /\ path # <<>> /\ path \in Seq(Dirs)
      /\ \A k \in 1..n : SubSeq(path, 1, k) = SubSeq(p, 1, k)
      /\ SubSeq(path, 1, n + 1) = path
      /\ (n + 1) - 1 = n
  <2>1. /\ Len(path) = n + 1 /\ n \in Nat /\ n > 0 /\ path[n + 1] = d /\ path # <<>> /\ path \in Seq(Dirs)
        /\ \A k \in 1..n : path[k] = p[k]
    BY <1>1
  <2> HIDE DEF path
  <2>2. ASSUME NEW k \in 1..n PROVE SubSeq(path, 1, k) = SubSeq(p, 1, k)
    <3>1. k \in Nat /\ k <= n /\ k <= n + 1 /\ \A i \in 1..k : path[i] = p[i]
      BY <2>1, <2>2
    <3>2. SubSeq(path, 1, k) \in Seq(Dirs) /\ SubSeq(p, 1, k) \in Seq(Dirs)
          /\ Len(SubSeq(path, 1, k)) = k /\ Len(SubSeq(p, 1, k)) = k
          /\ \A i \in 1..k : SubSeq(path, 1, k)[i] = path[i] /\ SubSeq(p, 1, k)[i] = p[i]
      BY <1>1, <2>1, <3>1
    <3> QED BY <3>1, <3>2, SeqEqual
  <2>3. SubSeq(path, 1, n + 1) = path
    BY <2>1
  <2> QED BY <2>1, <2>2, <2>3 DEF Last
<1> HIDE DEF path, n
<1>3. Real(path) = IF d \in Links THEN setup.target[d] ELSE d
  BY <1>2 DEF Real
<1>4. should_descend_into_reparse_target <=> setup.policy # "SkipAll"
  BY DEF Setup, Policies, should_descend_into_reparse_target
<1>5. setup.policy # "SkipAll" =>
        /\ Len(task.ancestors) = n
        /\ \A k \in 1..n : task.ancestors[k] = Real(SubSeq(path, 1, k))
  BY <1>1, <1>2 DEF Traced, n, p
<1>6. evaluate_reparse_descent(task, d) = "Follow" <=>
        (d \in Links => /\ setup.policy # "SkipAll" /\ setup.target[d] # Unresolvable
                        /\ ~contains(task.ancestors, setup.target[d]))
  BY <1>4 DEF evaluate_reparse_descent
<1>7. ToEnter(path) <=>
        (d \in Links => /\ setup.policy # "SkipAll" /\ setup.target[d] # Unresolvable
                        /\ \A k \in 1..n : Real(SubSeq(path, 1, k)) # setup.target[d])
  BY <1>2, <1>3 DEF ToEnter
<1>8. setup.policy # "SkipAll" =>
        (~contains(task.ancestors, setup.target[d]) <=>
           \A k \in 1..n : Real(SubSeq(path, 1, k)) # setup.target[d])
  BY <1>5 DEF contains
<1>9. evaluate_reparse_descent(task, d) = "Follow" <=> ToEnter(path)
  BY <1>6, <1>7, <1>8
<1>10. ASSUME evaluate_reparse_descent(task, d) = "Follow" PROVE Child(task, d) \in Duties
  <2>1. Child(task, d) \in Task
    BY <1>1, <1>10, ChildIsTask
  <2>2. /\ Child(task, d).path = path
        /\ Child(task, d).ancestors = IF task.ancestors = <<>> THEN <<>>
                                      ELSE Append(task.ancestors, Real(path))
    BY DEF Child, path, p
  <2>3. Traced(Child(task, d))
    <3>1. CASE setup.policy = "SkipAll"
      BY <1>1, <2>2, <3>1 DEF Traced
    <3>2. CASE setup.policy # "SkipAll"
      <4> DEFINE long == Append(task.ancestors, Real(path))
      <4>1. task.ancestors # <<>>
        BY <1>2, <1>5, <3>2
      <4>2. Len(long) = n + 1 /\ long[n + 1] = Real(path) /\ \A k \in 1..n : long[k] = task.ancestors[k]
        BY <1>1, <1>5, <3>2
      <4>3. Child(task, d).ancestors = long
        BY <2>2, <4>1
      <4> HIDE DEF long
      <4>4. \A k \in 1..(n + 1) : k \in 1..n \/ k = n + 1
        BY <1>2
      <4>5. \A k \in 1..(n + 1) : long[k] = Real(SubSeq(path, 1, k))
        BY <1>2, <1>5, <3>2, <4>2, <4>4
      <4> QED BY <1>2, <2>2, <3>2, <4>2, <4>3, <4>5 DEF Traced
    <3> QED BY <3>1, <3>2
  <2> QED BY <1>2, <1>9, <1>10, <2>1, <2>2, <2>3 DEF Duties
<1> QED BY <1>9, <1>10 DEF path, p

(* An entry that is found and admitted is genuine. *)
LEMMA AdmittedIsGenuine ==
  ASSUME NEW task \in Duties, NEW e \in Dirs \cup Files, <<task, e>> \in Admitted
  PROVE  Append(task.path, e) \in Genuine
<1> DEFINE p == task.path
           path == Append(p, e)
<1>1. p \in Paths /\ p \in Seq(Dirs \cup Files) /\ ToEnter(p) /\ e \in Entries(p) /\ path \notin setup.excluded
  BY DEF Duties, Task, Admitted, Inside, Paths
<1> HIDE DEF p
<1>2. path \in Seq(Dirs \cup Files) /\ path # <<>> /\ Last(path) = e /\ Front(path) = p
  <2>1. /\ path \in Seq(Dirs \cup Files) /\ path # <<>> /\ Len(path) = Len(p) + 1 /\ Len(p) \in Nat
        /\ path[Len(p) + 1] = e /\ \A k \in 1..Len(p) : path[k] = p[k]
    BY <1>1
  <2> HIDE DEF path
  <2>2. SubSeq(path, 1, Len(p)) \in Seq(Dirs \cup Files) /\ Len(SubSeq(path, 1, Len(p))) = Len(p)
        /\ \A k \in 1..Len(p) : SubSeq(path, 1, Len(p))[k] = p[k]
    BY <1>1, <2>1
  <2>3. SubSeq(path, 1, Len(p)) = p
    BY <1>1, <2>2, SeqEqual
  <2> QED BY <2>1, <2>3 DEF Last, Front
<1> HIDE DEF path
<1> QED BY <1>1, <1>2 DEF Genuine, Paths, path, p

-----------------------------------------------------------------------------
(* Nothing but the tree is walked. *)

(* What a step says about paths: nothing, or one genuine path.             *)
SaysGenuine(t) == \/ Silent(t)
                  \/ Flush(t)
                  \/ \E e \in Event : Emit(t, e) /\ e[2] \in Genuine

LEMMA GenuineSent ==
  ASSUME WireOK, SentSound, UNCHANGED <<setup, received>>, NEW t \in Threads, SaysGenuine(t)
  PROVE  SentSound'
<1>1. Genuine' = Genuine
  BY SetupKeeps
<1> HIDE DEF Genuine, Threads, Event
<1>2. CASE UNCHANGED delivery
  BY <1>1, <1>2, NothingSaid DEF SentSound
<1>3. CASE Flush(t)
  <2>1. Sent' \subseteq Sent
    BY <1>3, FlushSays DEF Says
  <2> QED BY <1>1, <2>1 DEF SentSound
<1>4. ASSUME NEW e \in Event, Emit(t, e), IsPath(e) => e[2] \in Genuine
      PROVE  SentSound'
  <2>1. Sent' \subseteq Sent \cup {e}
    BY <1>4, EmitSays DEF Says
  <2> QED BY <1>1, <1>4, <2>1 DEF SentSound
<1> QED BY <1>2, <1>3, <1>4 DEF SaysGenuine, Silent

LEMMA OthersSound ==
  ASSUME NEW t \in Threads, Frame(t), \A s \in Threads : HandSound(s)
  PROVE  \A s \in Threads \ {t} : HandSound(s)'
<1>1. Duties' = Duties /\ Inside' = Inside /\ Admitted' = Admitted
  BY SetupKeeps DEF Frame
<1> HIDE DEF Threads, Main, Duties, Inside, Admitted
<1> SUFFICES ASSUME NEW s \in Threads \ {t} PROVE HandSound(s)'
  OBVIOUS
<1>2. /\ pc'[s] = pc[s] /\ ret'[s] = ret[s] /\ dir'[s] = dir[s] /\ todo'[s] = todo[s]
      /\ fresh'[s] = fresh[s] /\ found'[s] = found[s] /\ pending'[s] = pending[s]
  BY DEF Frame
<1>3. HasFound(s)' <=> HasFound(s)
  BY <1>2 DEF HasFound
<1>4. s = Main => (Entering' <=> Entering)
  BY <1>2 DEF Entering
<1> QED BY <1>1, <1>2, <1>3, <1>4 DEF HandSound

(* A step at a directory keeps it if it keeps its thread's part.           *)
LEMMA WorkSound ==
  ASSUME WalkSound, Shape, NEW t \in Threads, Process(t), HandSound(t)', SaysGenuine(t)
  PROVE  WalkSound'
<1>1. Frame(t) /\ UNCHANGED <<setup, tasks, callers, received>> /\ WireOK
  BY ProcessFrame DEF Frame, Shape
<1>2. Duties' = Duties /\ Inside' = Inside
  BY <1>1, SetupKeeps
<1> HIDE DEF Threads, Main, Duties, Inside
<1>3. \A s \in Threads : HandSound(s)'
  BY <1>1, OthersSound DEF WalkSound
<1>4. SentSound'
  BY <1>1, GenuineSent DEF WalkSound
<1> QED BY <1>1, <1>2, <1>3, <1>4 DEF WalkSound, CallsSound, TasksSound

LEMMA ShedsSound ==
  ASSUME WalkSound, Shape, NEW t \in Threads, Process(t), Sheds(t), Silent(t)
  PROVE  WalkSound'
<1>1. Duties' = Duties /\ Inside' = Inside /\ Admitted' = Admitted
  BY ProcessFrame, SetupKeeps DEF Frame
<1>2. t = Main => ~Entering'
  BY ProcessFrame DEF Entering, Working
<1> HIDE DEF Threads, Main, Duties, Inside, Admitted
<1>3. HandSound(t)'
  BY <1>1, <1>2 DEF WalkSound, HandSound, Sheds
<1> QED BY <1>3, WorkSound DEF SaysGenuine

LEMMA EntriesSound ==
  ASSUME WalkSound, Shape, OnceInv, NEW t \in Threads,
         ReadDir(t) \/ (\E f \in Files : FileEntry(t, f)) \/ (\E d \in Dirs : FindDir(t, d))
  PROVE  WalkSound'
<1>1. Process(t)
  BY DEF Process
<1>2. /\ Duties' = Duties /\ Inside' = Inside /\ Admitted' = Admitted
      /\ t = Main => ~Entering'
  BY <1>1, ProcessFrame, SetupKeeps DEF Frame, Entering, Working
<1>3. pc \in [Threads -> Labels] /\ Fields /\ InHand(t) /\ HandSound(t)
  BY TypesAre DEF Shape, Rest, OnceInv, Parts, WalkSound
<1>4. \A task \in Duties : task \in Task
  BY DEF Duties
<1>5. \A e \in Dirs \cup Files : <<dir[t], e>> \in Inside /\ Allowed(t, e) => <<dir[t], e>> \in Admitted
  BY DEF Admitted, Allowed
<1>6. \A e \in Entries(dir[t].path) : <<dir[t], e>> \in Inside
  BY <1>3, <1>4, EntriesAreKnown DEF HandSound, Inside
<1> HIDE DEF Threads, Main, Labels, Task, Duties, Inside, Admitted
<1>7. CASE ReadDir(t)
  <2>1. /\ pc[t] = "open" /\ pc'[t] = "entries" /\ todo'[t] = Entries(dir[t].path)
        /\ UNCHANGED <<dir, fresh, pending, delivery>>
    BY <1>3, <1>7 DEF ReadDir, Goto, Fields, totals
  <2>2. ~HasFound(t)'
    BY <2>1 DEF HasFound
  <2>3. HandSound(t)'
    BY <1>2, <1>3, <1>6, <2>1, <2>2 DEF HandSound
  <2> QED BY <1>1, <2>1, <2>3, WorkSound DEF SaysGenuine, Silent
<1>8. ASSUME NEW f \in Files, FileEntry(t, f) PROVE WalkSound'
  <2>1. /\ pc'[t] \in {"files", "entries"} /\ f \in todo[t] /\ Allowed(t, f)
        /\ todo'[t] = todo[t] \ {f} /\ pending'[t] = Append(pending[t], f) /\ pending[t] \in Seq(Files)
        /\ UNCHANGED <<dir, fresh, found, delivery>>
    BY <1>3, <1>8 DEF FileEntry, Entry, Goto, Fields
  <2>2. /\ ~HasFound(t)'
        /\ \A i \in 1..Len(pending'[t]) : \/ i \in 1..Len(pending[t]) /\ pending'[t][i] = pending[t][i]
                                          \/ pending'[t][i] = f
    BY <2>1 DEF HasFound
  <2>3. <<dir[t], f>> \in Admitted
    BY <1>3, <1>5, <2>1 DEF HandSound
  <2>4. HandSound(t)'
    BY <1>2, <1>3, <2>1, <2>2, <2>3 DEF HandSound
  <2> QED BY <1>1, <2>1, <2>4, WorkSound DEF SaysGenuine, Silent
<1>9. ASSUME NEW d \in Dirs, FindDir(t, d) PROVE WalkSound'
  <2>1. /\ pc'[t] = "found" /\ d \in todo[t] /\ Allowed(t, d)
        /\ todo'[t] = todo[t] \ {d} /\ found'[t] = d
        /\ UNCHANGED <<dir, fresh, pending, delivery>>
    BY <1>3, <1>9 DEF FindDir, Entry, Goto, Fields, totals
  <2>2. <<dir[t], d>> \in Admitted
    BY <1>3, <1>5, <2>1 DEF HandSound
  <2>3. HandSound(t)'
    BY <1>2, <1>3, <2>1, <2>2 DEF HandSound
  <2> QED BY <1>1, <2>1, <2>3, WorkSound DEF SaysGenuine, Silent
<1> QED BY <1>7, <1>8, <1>9

LEMMA DirEntrySound ==
  ASSUME WalkSound, Shape, NEW t \in Threads, DirEntry(t)
  PROVE  WalkSound'
<1> DEFINE p == dir[t].path
           d == found[t]
           here == Append(p, d)
           child == Child(dir[t], d)
<1>1. Process(t)
  BY DEF Process
<1>2. /\ Duties' = Duties /\ Inside' = Inside /\ Admitted' = Admitted
      /\ t = Main => ~Entering'
  BY <1>1, ProcessFrame, SetupKeeps DEF Frame, Entering, Working
<1>3. pc \in [Threads -> Labels] /\ Fields /\ setup \in Setup /\ HandSound(t)
  BY TypesAre DEF Shape, Rest, WalkSound
<1>4. pc[t] = "found" /\ HasFound(t) /\ dir[t] \in Duties /\ <<dir[t], d>> \in Admitted /\ d \in Dirs
  BY <1>3 DEF DirEntry, HasFound, HandSound, Fields
<1>5. /\ here \in Genuine
      /\ evaluate_reparse_descent(dir[t], d) = "Follow" => child \in Duties
  BY <1>3, <1>4, AdmittedIsGenuine, ChildIsDue
<1>6. here \in Paths /\ \A task \in Duties : task \in Task
  BY <1>5 DEF Genuine, Duties
<1> HIDE DEF Threads, Main, Labels, Task, Duties, Inside, Admitted, Paths, Genuine, here, child, d, p
<1>7. /\ pc'[t] \in {"cycle", "entries"}
      /\ \/ fresh'[t] = fresh[t]
         \/ fresh'[t] = Append(fresh[t], child) /\ evaluate_reparse_descent(dir[t], d) = "Follow"
      /\ Emit(t, <<"dir", here>>) /\ fresh[t] \in Seq(Task)
      /\ UNCHANGED <<dir, todo, pending>>
  BY <1>3 DEF DirEntry, Goto, Fields, totals, here, child, d, p
<1>8. ~HasFound(t)'
  BY <1>7 DEF HasFound
<1>9. \A i \in 1..Len(fresh'[t]) : \/ i \in 1..Len(fresh[t]) /\ fresh'[t][i] = fresh[t][i]
                                   \/ fresh'[t][i] \in Duties
  BY <1>5, <1>6, <1>7
<1>10. HandSound(t)'
  BY <1>2, <1>3, <1>7, <1>8, <1>9 DEF HandSound
<1> DEFINE e == <<"dir", here>>
<1>11. e \in Event /\ e[2] = here
  BY <1>6, EventFacts
<1> HIDE DEF e
<1>12. SaysGenuine(t)
  BY <1>5, <1>7, <1>11 DEF SaysGenuine, e
<1> QED BY <1>1, <1>10, <1>12, WorkSound

LEMMA EmitFileSound ==
  ASSUME WalkSound, Shape, NEW t \in Threads, EmitFile(t)
  PROVE  WalkSound'
<1> DEFINE p == dir[t].path
           f == Head(pending[t])
           here == Append(p, f)
<1>1. Process(t)
  BY DEF Process
<1>2. /\ Duties' = Duties /\ Inside' = Inside /\ Admitted' = Admitted
      /\ t = Main => ~Entering'
  BY <1>1, ProcessFrame, SetupKeeps DEF Frame, Entering, Working
<1>3. /\ pc \in [Threads -> Labels] /\ Fields /\ HandSound(t) /\ pc[t] = "emit" /\ pending[t] # <<>>
      /\ pending[t] \in Seq(Files) /\ charge[t] \in Nat
      /\ ret[t] \in {"files", "found", "end", "complete"}
  BY TypesAre DEF Shape, Rest, Held, WalkSound, EmitFile, Fields
<1>4. /\ f \in Files /\ 1 \in 1..Len(pending[t]) /\ pending[t][1] = f
      /\ \A i \in 1..Len(Tail(pending[t])) :
           i + 1 \in 1..Len(pending[t]) /\ Tail(pending[t])[i] = pending[t][i + 1]
  BY <1>3
<1>5. dir[t] \in Duties /\ <<dir[t], f>> \in Admitted
  BY <1>3, <1>4 DEF HandSound
<1>6. here \in Genuine
  BY <1>4, <1>5, AdmittedIsGenuine
<1>7. here \in Paths
  BY <1>6 DEF Genuine
<1> HIDE DEF Threads, Main, Labels, Task, Duties, Inside, Admitted, Paths, Genuine, here, f, p
<1>8. /\ pc'[t] \in {"progress", ret[t]} /\ pending'[t] = Tail(pending[t])
      /\ Emit(t, <<"file", here, charge[t]>>)
      /\ UNCHANGED <<dir, todo, fresh, found, ret>>
  BY <1>3 DEF EmitFile, Goto, Fields, place, loop, here, f, p
<1>9. HasFound(t)' => HasFound(t)
  BY <1>3, <1>8 DEF HasFound
<1>10. HandSound(t)'
  BY <1>2, <1>3, <1>4, <1>8, <1>9 DEF HandSound
<1> DEFINE e == <<"file", here, charge[t]>>
<1>11. e \in Event /\ e[2] = here
  BY <1>3, <1>7, EventFacts
<1> HIDE DEF e
<1>12. SaysGenuine(t)
  BY <1>6, <1>8, <1>11 DEF SaysGenuine, e
<1> QED BY <1>1, <1>10, <1>12, WorkSound

LEMMA ProcessSound ==
  ASSUME WalkSound, Shape, OnceInv, NEW t \in Threads, Process(t)
  PROVE  WalkSound'
<1>1. CASE Shedding(t)
  BY <1>1, SheddingStep, ShedsSound
<1> QED BY <1>1, EntriesSound, DirEntrySound, EmitFileSound DEF Process, Shedding

(* A hand from which things are only taken.                                *)
HandShrinks(s) ==
  /\ dir'[s] = dir[s] /\ fresh'[s] = fresh[s] /\ pending'[s] = pending[s] /\ todo'[s] \subseteq todo[s]
  /\ HasFound(s)' \/ (s = Main /\ Entering') =>
       (HasFound(s) \/ (s = Main /\ Entering)) /\ found'[s] = found[s]

LEMMA HandKept ==
  ASSUME UNCHANGED setup, NEW s \in Threads, HandShrinks(s), HandSound(s)
  PROVE  HandSound(s)'
<1>1. Duties' = Duties /\ Inside' = Inside /\ Admitted' = Admitted
  BY SetupKeeps
<1> HIDE DEF Threads, Main, Duties, Inside, Admitted
<1> QED BY <1>1 DEF HandSound, HandShrinks

LEMMA WalksSound ==
  ASSUME WalkSound, Shape, Walk, HandSound(Main)', CallsSound', SaysGenuine(Main)
  PROVE  WalkSound'
<1>1. Frame(Main) /\ UNCHANGED <<setup, tasks, received>> /\ WireOK /\ Main \in Threads
  BY WalkFrame DEF Frame, Shape
<1>2. Duties' = Duties /\ Inside' = Inside
  BY <1>1, SetupKeeps
<1> HIDE DEF Threads, Main, Duties, Inside
<1>3. \A s \in Threads : HandSound(s)'
  BY <1>1, OthersSound DEF WalkSound
<1>4. SentSound'
  BY <1>1, GenuineSent DEF WalkSound
<1> QED BY <1>1, <1>2, <1>3, <1>4 DEF WalkSound, TasksSound

LEMMA CallsKept ==
  ASSUME CallsSound, UNCHANGED <<setup, callers>>
  PROVE  CallsSound'
<1>1. Duties' = Duties /\ Inside' = Inside
  BY SetupKeeps
<1> HIDE DEF Duties, Inside
<1> QED BY <1>1 DEF CallsSound

LEMMA WalkPassesSound ==
  ASSUME WalkSound, Shape, OnceInv, WalkPasses
  PROVE  WalkSound'
<1>1. Walk
  BY DEF Walk, WalkPasses
<1>2. /\ Frame(Main) /\ UNCHANGED <<setup, fresh, pending>> /\ pc'[Main] \in Walking /\ Main \in Threads
      /\ WalkSheds /\ Silent(Main)
  BY <1>1, WalkFrame, WalkSheddingStep DEF Frame
<1>3. ~HasFound(Main)'
  BY <1>2 DEF HasFound, Walking
<1>4. HandSound(Main)'
  <2> HIDE DEF Threads, Main
  <2>1. HandShrinks(Main)
    BY <1>2, <1>3 DEF HandShrinks, WalkSheds
  <2> QED BY <1>2, <2>1, HandKept DEF WalkSound
<1>5. CallsSound'
  BY <1>2, CallsKept DEF WalkSheds, WalkSound
<1> QED BY <1>1, <1>2, <1>4, <1>5, WalksSound DEF SaysGenuine

LEMMA WalkReadDirSound ==
  ASSUME WalkSound, Shape, OnceInv, WalkReadDir
  PROVE  WalkSound'
<1>1. Walk
  BY DEF Walk
<1>2. /\ UNCHANGED <<setup, fresh, pending>> /\ pc'[Main] \in Walking /\ Main \in Threads
      /\ HandSound(Main) /\ CallsSound /\ Fields /\ pc \in [Threads -> Labels]
  BY <1>1, WalkFrame, CallTypes DEF Frame, WalkSound
<1>3. ~HasFound(Main)'
  BY <1>2 DEF HasFound, Walking
<1>4. Duties' = Duties /\ Inside' = Inside /\ Admitted' = Admitted
  BY <1>2, SetupKeeps
<1>5. \A e \in Entries(dir[Main].path) : <<dir[Main], e>> \in Inside
  BY <1>2, EntriesAreKnown DEF HandSound, Inside, Duties
<1> HIDE DEF Threads, Main, Labels, Task, Duties, Inside, Admitted
<1>6. /\ todo'[Main] = Entries(dir[Main].path) /\ pc'[Main] = "walking"
      /\ UNCHANGED <<dir, callers, delivery>>
  BY <1>2 DEF WalkReadDir, Goto, Fields
<1>7. ~Entering'
  BY <1>6 DEF Entering
<1>8. HandSound(Main)'
  BY <1>2, <1>3, <1>4, <1>5, <1>6, <1>7 DEF HandSound
<1> QED BY <1>1, <1>2, <1>6, <1>8, CallsKept, WalksSound DEF SaysGenuine, Silent

(* A call that returns.                                                    *)
LEMMA ReturnFacts ==
  ASSUME Shape, OnceInv, WalkReadFails \/ WalkReturn
  PROVE  /\ Walk /\ Silent(Main) /\ UNCHANGED <<setup, found>> /\ Main \in Threads
         /\ pc[Main] \in {"walk", "walking"} /\ pc'[Main] \in {"walked", "walking"}
         /\ ~HasFound(Main)' /\ ~Entering' /\ ~Entering
         /\ \/ /\ callers = <<>> /\ callers' = <<>> /\ pc'[Main] = "walked" /\ todo'[Main] = {} /\ dir' = dir
            \/ \E n \in 1..Len(callers) :
                 /\ n = Len(callers) /\ callers # <<>> /\ callers' = Front(callers) /\ pc'[Main] = "walking"
                 /\ dir'[Main] = callers[n].task /\ todo'[Main] = callers[n].todo
                 /\ \A i \in 1..Len(callers') : i \in 1..n /\ callers'[i] = callers[i]
                 /\ \A i \in 1..n : i # n => i \in 1..Len(callers')
<1> DEFINE n == Len(callers)
           Call == [task : Task, todo : SUBSET (Dirs \cup Files)]
<1>1. Walk
  BY DEF Walk
<1> HIDE DEF Threads, Main, Labels, Task, Paths, Event, Kinds
<1>2. /\ Main \in Threads /\ pc \in [Threads -> Labels] /\ dir[Main].path \in Paths
      /\ dir \in [Threads -> Task] /\ todo \in [Threads -> SUBSET (Dirs \cup Files)]
      /\ callers \in Seq(Call)
  BY CallTypes DEF Fields
<1> HIDE DEF Call
<1>3. Silent(Main)
  <2>1. CASE WalkReadFails
    <3>1. "directory" \in Kinds
      BY DEF Kinds
    <3> QED BY <1>2, <2>1, <3>1, IssueSilent DEF WalkReadFails
  <2> QED BY <2>1 DEF WalkReturn, Silent
<1>4. /\ pc[Main] \in {"walk", "walking"} /\ Return /\ UNCHANGED <<setup, found>>
  BY DEF WalkReadFails, WalkReturn, consumer
<1>5. \/ /\ callers = <<>> /\ callers' = <<>> /\ pc'[Main] = "walked" /\ todo'[Main] = {} /\ dir' = dir
      \/ \E m \in 1..Len(callers) :
           /\ m = Len(callers) /\ callers # <<>> /\ callers' = Front(callers) /\ pc'[Main] = "walking"
           /\ dir'[Main] = callers[m].task /\ todo'[Main] = callers[m].todo
           /\ \A i \in 1..Len(callers') : i \in 1..m /\ callers'[i] = callers[i]
           /\ \A i \in 1..m : i # m => i \in 1..Len(callers')
  <2>1. CASE callers = <<>>
    BY <1>2, <1>4, <2>1 DEF Return, Goto
  <2>2. CASE callers # <<>>
    <3>1. /\ n \in Nat /\ n \in 1..n /\ Last(callers) = callers[n] /\ Len(Front(callers)) = n - 1
          /\ \A i \in 1..(n - 1) : i \in 1..n /\ Front(callers)[i] = callers[i]
      BY <1>2, <2>2, FrontFacts
    <3>2. /\ pc'[Main] = "walking" /\ dir'[Main] = callers[n].task /\ todo'[Main] = callers[n].todo
          /\ callers' = Front(callers)
      BY <1>2, <1>4, <2>2, <3>1 DEF Return, Goto
    <3>3. PICK m \in 1..Len(callers) : m = n
      BY <3>1
    <3> HIDE DEF n
    <3>6. \A i \in 1..n : i # n => i \in 1..(n - 1)
      BY <3>1
    <3>4. /\ \A i \in 1..Len(callers') : i \in 1..m /\ callers'[i] = callers[i]
          /\ \A i \in 1..m : i # m => i \in 1..Len(callers')
      BY <3>1, <3>2, <3>3, <3>6
    <3>5. m = Len(callers)
      BY <3>3 DEF n
    <3> QED BY <2>2, <3>2, <3>3, <3>4, <3>5
  <2> QED BY <2>1, <2>2
<1>6. pc'[Main] \in {"walked", "walking"}
  BY <1>5
<1>7. ~HasFound(Main)' /\ ~Entering' /\ ~Entering
  BY <1>4, <1>6 DEF HasFound, Entering
<1> QED BY <1>1, <1>2, <1>3, <1>4, <1>5, <1>6, <1>7

LEMMA ReturnSound ==
  ASSUME WalkSound, Shape, OnceInv, WalkReadFails \/ WalkReturn
  PROVE  WalkSound'
<1>1. /\ Walk /\ Silent(Main) /\ ~HasFound(Main)' /\ ~Entering' /\ Main \in Threads
      /\ \/ callers = <<>> /\ callers' = <<>> /\ todo'[Main] = {} /\ dir' = dir
         \/ \E n \in 1..Len(callers) :
              /\ dir'[Main] = callers[n].task /\ todo'[Main] = callers[n].todo
              /\ \A i \in 1..Len(callers') : i \in 1..n /\ callers'[i] = callers[i]
              /\ n = Len(callers)
  BY ReturnFacts
<1>2. UNCHANGED <<setup, fresh, pending>>
  BY <1>1, WalkFrame DEF Frame
<1>3. Duties' = Duties /\ Inside' = Inside /\ Admitted' = Admitted
  BY <1>2, SetupKeeps
<1> HIDE DEF Threads, Main, Duties, Inside, Admitted
<1>4. HandSound(Main) /\ CallsSound
  BY <1>1 DEF WalkSound
<1>5. dir'[Main] \in Duties /\ \A e \in todo'[Main] : <<dir'[Main], e>> \in Inside
  BY <1>1, <1>4 DEF HandSound, CallsSound
<1>6. HasFound(Main) \/ ~HasFound(Main)
  OBVIOUS
<1>7. CallsSound'
  BY <1>1, <1>3, <1>4 DEF CallsSound
<1>8. \A i : i \notin 1..Len(pending'[Main])
  <2>1. pending[Main] = <<>>
    BY <1>1, WalkFrame, ThreadFacts DEF OnceInv, Parts, InHand, Carries, Walking
  <2> QED BY <1>2, <2>1
<1>9. HandSound(Main)'
  BY <1>1, <1>2, <1>3, <1>4, <1>5, <1>8 DEF HandSound
<1> QED BY <1>1, <1>7, <1>9, WalksSound DEF SaysGenuine

LEMMA WalkFileSound ==
  ASSUME WalkSound, Shape, OnceInv, NEW f \in Files, WalkFile(f)
  PROVE  WalkSound'
<1> DEFINE here == Append(dir[Main].path, f)
           e == <<"file", here, ChargeOf(f)>>
<1>1. Walk
  BY DEF Walk
<1>2. /\ Main \in Threads /\ UNCHANGED <<setup, fresh, pending>> /\ pc'[Main] \in Walking
      /\ HandSound(Main) /\ Calls /\ f \in Dirs \cup Files
  BY <1>1, WalkFrame DEF Frame, OnceInv, Parts, WalkSound
<1> HIDE DEF Threads, Main, Labels, Task, Paths, Event
<1>3. /\ pc[Main] = "walking" /\ f \in todo[Main] /\ todo'[Main] \subseteq todo[Main] /\ Allowed(Main, f)
      /\ pc'[Main] = "counted" /\ UNCHANGED <<dir, found, callers>> /\ Emit(Main, e)
  BY CallTypes DEF WalkFile, WalkEntry, Goto, Fields
<1>4. ~HasFound(Main)' /\ ~Entering'
  BY <1>2, <1>3 DEF HasFound, Entering, Calls, Walking
<1>5. HandSound(Main)'
  BY <1>2, <1>3, <1>4, HandKept DEF HandShrinks
<1>6. dir[Main] \in Duties /\ <<dir[Main], f>> \in Admitted
  BY <1>2, <1>3 DEF HandSound, Admitted, Allowed, Inside
<1>7. here \in Genuine
  BY <1>2, <1>6, AdmittedIsGenuine
<1>8. here \in Paths /\ ChargeOf(f) \in Nat
  BY <1>7 DEF Genuine, ChargeOf
<1>9. e \in Event /\ e[2] = here
  BY <1>8, EventFacts
<1> HIDE DEF e, here
<1>10. SaysGenuine(Main)
  BY <1>3, <1>7, <1>9 DEF SaysGenuine
<1> QED BY <1>1, <1>2, <1>3, <1>5, <1>10, CallsKept, WalksSound DEF WalkSound

LEMMA WalkDirSound ==
  ASSUME WalkSound, Shape, OnceInv, NEW d \in Dirs, WalkDir(d)
  PROVE  WalkSound'
<1> DEFINE here == Append(dir[Main].path, d)
           e == <<"dir", here>>
<1>1. Walk
  BY DEF Walk
<1>2. /\ Main \in Threads /\ UNCHANGED <<setup, fresh, pending>> /\ pc'[Main] \in Walking
      /\ HandSound(Main) /\ d \in Dirs \cup Files
  BY <1>1, WalkFrame DEF Frame, WalkSound
<1>3. Duties' = Duties /\ Inside' = Inside /\ Admitted' = Admitted
  BY <1>2, SetupKeeps
<1> HIDE DEF Threads, Main, Labels, Task, Paths, Event
<1>4. /\ pc[Main] = "walking" /\ d \in todo[Main] /\ todo'[Main] \subseteq todo[Main] /\ Allowed(Main, d)
      /\ pc'[Main] = "counted" /\ found'[Main] = d /\ UNCHANGED <<dir, callers>> /\ Emit(Main, e)
  BY CallTypes DEF WalkDir, WalkEntry, Goto, Fields
<1>5. dir[Main] \in Duties /\ <<dir[Main], d>> \in Admitted
  BY <1>2, <1>4 DEF HandSound, Admitted, Allowed, Inside
<1>6. here \in Genuine
  BY <1>2, <1>5, AdmittedIsGenuine
<1>7. here \in Paths
  BY <1>6 DEF Genuine
<1>8. e \in Event /\ e[2] = here
  BY <1>7, EventFacts
<1> HIDE DEF e, here, Duties, Inside, Admitted
<1>9. HandSound(Main)'
  BY <1>2, <1>3, <1>4, <1>5 DEF HandSound
<1>10. SaysGenuine(Main)
  BY <1>4, <1>6, <1>8 DEF SaysGenuine
<1> QED BY <1>1, <1>2, <1>4, <1>9, <1>10, CallsKept, WalksSound DEF WalkSound

(* A call that is made.                                                    *)
LEMMA DescendFacts ==
  ASSUME Shape, OnceInv, WalkDescend
  PROVE  /\ Walk /\ Silent(Main) /\ Main \in Threads /\ UNCHANGED setup
         /\ pc[Main] = "descend" /\ pc'[Main] = "walk" /\ Entering /\ ~Entering' /\ ~HasFound(Main)'
         /\ found[Main] \in Dirs /\ dir'[Main] = Child(dir[Main], found[Main]) /\ todo'[Main] = {}
         /\ evaluate_reparse_descent(dir[Main], found[Main]) = "Follow"
         /\ \A i \in 1..Len(callers) : i \in 1..Len(callers') /\ callers'[i] = callers[i]
         /\ \A i \in 1..Len(callers') :
              \/ i \in 1..Len(callers) /\ callers'[i] = callers[i]
              \/ callers'[i].task = dir[Main] /\ callers'[i].todo = todo[Main]
         /\ \E i \in 1..Len(callers') : callers'[i].task = dir[Main] /\ callers'[i].todo = todo[Main]
<1> DEFINE n == Len(callers)
           Call == [task : Task, todo : SUBSET (Dirs \cup Files)]
           call == [task |-> dir[Main], todo |-> todo[Main]]
<1>1. Walk /\ callers \in Seq(Call) /\ call.task = dir[Main] /\ call.todo = todo[Main]
  BY CallTypes DEF Walk, Fields
<1> HIDE DEF Threads, Main, Labels, Task, Paths, call
<1>2. /\ pc[Main] = "descend" /\ pc'[Main] = "walk" /\ todo'[Main] = {} /\ UNCHANGED <<delivery, setup>>
      /\ dir'[Main] = Child(dir[Main], found[Main]) /\ callers' = Append(callers, call)
      /\ found[Main] \in Dirs /\ Main \in Threads
      /\ evaluate_reparse_descent(dir[Main], found[Main]) = "Follow"
  BY CallTypes DEF WalkDescend, Goto, Fields, call, consumer
<1> HIDE DEF Call
<1>3. /\ n \in Nat /\ Len(callers') = n + 1 /\ callers'[n + 1] = call
      /\ \A i \in 1..n : callers'[i] = callers[i]
  BY <1>1, <1>2
<1>4. /\ \A i \in 1..n : i \in 1..Len(callers')
      /\ \A i \in 1..Len(callers') : i \in 1..n \/ i = n + 1
      /\ n + 1 \in 1..Len(callers')
  BY <1>3
<1>5. Entering /\ ~Entering' /\ ~HasFound(Main)'
  BY <1>2 DEF Entering, HasFound
<1>6. Silent(Main)
  BY <1>2 DEF Silent
<1> HIDE DEF n
<1>7. \A i \in 1..Len(callers) : i \in 1..n
  BY DEF n
<1>8. \A i \in 1..n : i \in 1..Len(callers)
  BY DEF n
<1> QED BY <1>1, <1>2, <1>3, <1>4, <1>5, <1>6, <1>7, <1>8

LEMMA WalkDescendSound ==
  ASSUME WalkSound, Shape, OnceInv, WalkDescend
  PROVE  WalkSound'
<1>1. /\ Walk /\ Silent(Main) /\ Main \in Threads /\ UNCHANGED setup
      /\ pc'[Main] = "walk" /\ Entering /\ ~Entering' /\ ~HasFound(Main)' /\ found[Main] \in Dirs
      /\ dir'[Main] = Child(dir[Main], found[Main]) /\ todo'[Main] = {}
      /\ evaluate_reparse_descent(dir[Main], found[Main]) = "Follow"
      /\ \A i \in 1..Len(callers') :
           \/ i \in 1..Len(callers) /\ callers'[i] = callers[i]
           \/ callers'[i].task = dir[Main] /\ callers'[i].todo = todo[Main]
  BY DescendFacts
<1>2. /\ UNCHANGED <<fresh, pending>> /\ setup \in Setup /\ HandSound(Main) /\ CallsSound
  BY <1>1, WalkFrame, CallTypes DEF WalkSound
<1>3. Duties' = Duties /\ Inside' = Inside /\ Admitted' = Admitted
  BY <1>1, SetupKeeps
<1>4. \A i : i \notin 1..Len(pending'[Main])
  <2>1. pending[Main] = <<>>
    BY <1>1, WalkFrame, ThreadFacts DEF OnceInv, Parts, InHand, Carries, Walking
  <2> QED BY <1>2, <2>1
<1> HIDE DEF Threads, Main, Duties, Inside, Admitted
<1>5. dir'[Main] \in Duties
  BY <1>1, <1>2, ChildIsDue DEF HandSound
<1>6. HandSound(Main)'
  BY <1>1, <1>2, <1>3, <1>4, <1>5 DEF HandSound
<1>7. CallsSound'
  BY <1>1, <1>2, <1>3 DEF CallsSound, HandSound
<1> QED BY <1>1, <1>6, <1>7, WalksSound DEF SaysGenuine

LEMMA WalkStepSound ==
  ASSUME WalkSound, Shape, OnceInv, Walk
  PROVE  WalkSound'
BY WalkPassesSound, WalkReadDirSound, ReturnSound, WalkFileSound, WalkDirSound, WalkDescendSound
   DEF Walk, WalkPasses

-----------------------------------------------------------------------------
(* The other steps, by what they do to all that this is about.             *)
Bookkeeping == UNCHANGED <<counters, cancelled, totals, ret, found, callers, consumer>>

(* A thread takes a task ... *)
Opens(t) ==
  /\ pc[t] \in {"take", "chain"} /\ Bookkeeping /\ UNCHANGED <<outstanding, workers_started, delivery>>
  /\ \A s \in Threads \ {t} :
       pc'[s] = pc[s] /\ dir'[s] = dir[s] /\ todo'[s] = todo[s] /\ fresh'[s] = fresh[s]
  /\ \E k \in 1..Len(tasks) : /\ dir'[t] = tasks[k]
                              /\ \A i \in 1..Len(tasks) : i = k \/ i \in 1..Len(tasks')
  /\ \A i \in 1..Len(tasks') : i \in 1..Len(tasks) /\ tasks'[i] = tasks[i]
  /\ todo'[t] = {} /\ fresh'[t] = <<>> /\ pc'[t] = IF cancelled THEN "complete" ELSE "open"

(* ... completes it and leaves those made of it ... *)
Joined(all, seq, more) ==
  /\ \A i \in 1..Len(seq) : i \in 1..Len(all) /\ all[i] = seq[i]
  /\ \A i \in 1..Len(all) : \/ i \in 1..Len(seq) /\ all[i] = seq[i]
                           \/ \E j \in 1..Len(more) : all[i] = more[j]
  /\ \A j \in 1..Len(more) : \E i \in 1..Len(all) : all[i] = more[j]

Closes(t) ==
  /\ pc[t] = "complete" /\ pc'[t] \in {"look", "chain"}
  /\ Bookkeeping /\ UNCHANGED <<dir, todo, fresh, workers_started, delivery>>
  /\ \A s \in Threads \ {t} : pc'[s] = pc[s]
  /\ Joined(tasks', tasks, fresh[t])

(* ... or goes on while it has none: ends, once there is none left, starts *)
(* a worker, or, for the scan thread, goes through the end of the scan.    *)
Ending == {"summary", "completed", "done"}
Settling ==
  /\ workers_started > 0 => workers_started' > 0
  /\ pc'[Main] = "join" => pc[Main] = "join" \/ (pc[Main] = "chain" /\ workers_started' > 0)
  /\ \A w \in Workers : pc'[w] = "done" => pc[w] = "done" \/ (tasks = <<>> /\ outstanding = 0)
  /\ pc'[Main] \in Ending => pc[Main] \in Ending \/ WalkOver
  /\ pc'[Main] \in {"summary", "completed"} => pc[Main] \in {"summary", "completed"} \/ ~cancelled
  /\ pc[Main] \in {"completed", "done"} => pc'[Main] \in {"completed", "done"}

Closing(e) ==
  /\ e[1] \in {"progress", "cancelled", "completed", "summary"}
  /\ e[1] = "completed" => pc[Main] = "completed"
  /\ e[1] = "summary" => /\ e = <<"summary", files_seen, directories_seen, total_allocation>>
                         /\ pc[Main] = "summary" /\ pc'[Main] = "completed"

Passes(t) ==
  /\ Bookkeeping /\ UNCHANGED <<dir, todo, fresh, tasks, outstanding>> /\ Settling
  /\ \A s \in Threads : \/ pc'[s] = pc[s]
                        \/ pc[s] \in Resting \ {"start"} /\ pc'[s] \in Resting \ {"start", "walked"}
  /\ Flush(t) \/ UNCHANGED delivery \/ \E e \in Event : Emit(t, e) /\ Closing(e)

LEMMA ConcatFacts ==
  ASSUME NEW S, NEW seq \in Seq(S), NEW more \in Seq(S)
  PROVE  Joined(seq \o more, seq, more)
<1> DEFINE n == Len(seq)
           m == Len(more)
           all == seq \o more
<1>1. /\ n \in Nat /\ m \in Nat /\ Len(all) = n + m
      /\ \A i \in 1..n : all[i] = seq[i]
      /\ \A i \in (n + 1)..(n + m) : all[i] = more[i - n]
  OBVIOUS
<1> HIDE DEF n, m, all
<1>2. /\ \A i \in 1..n : i \in 1..Len(all) /\ all[i] = seq[i]
      /\ \A i \in 1..Len(all) : i \in 1..n \/ (i \in (n + 1)..(n + m) /\ i - n \in 1..m)
      /\ \A j \in 1..m : j + n \in 1..Len(all) /\ j + n \in (n + 1)..(n + m)
  BY <1>1, SMTT(60)
<1>3. ASSUME NEW i \in (n + 1)..(n + m), i - n \in 1..m PROVE \E j \in 1..m : all[i] = more[j]
  <2>1. PICK j \in 1..m : j = i - n
    BY <1>3
  <2>2. all[i] = more[j]
    BY <1>1, <2>1
  <2> QED BY <2>2
<1>4. ASSUME NEW j \in 1..m PROVE \E i \in 1..Len(all) : all[i] = more[j]
  <2>1. PICK i \in 1..Len(all) : i = j + n /\ i \in (n + 1)..(n + m)
    BY <1>2
  <2>2. i - n = j
    BY <1>1, <2>1
  <2>3. all[i] = more[j]
    BY <1>1, <2>1, <2>2
  <2> QED BY <2>3
<1>5. /\ \A i \in 1..n : i \in 1..Len(all) /\ all[i] = seq[i]
      /\ \A i \in 1..Len(all) : \/ i \in 1..n /\ all[i] = seq[i]
                               \/ \E j \in 1..m : all[i] = more[j]
      /\ \A j \in 1..m : \E i \in 1..Len(all) : all[i] = more[j]
  BY <1>2, <1>3, <1>4
<1> QED BY <1>5 DEF n, m, all, Joined

LEMMA QueueKinds ==
  ASSUME Shape, NEW t \in Workers, Worker(t) \/ SpuriousWake(t)
  PROVE  t \in Threads /\ (Opens(t) \/ Closes(t) \/ Passes(t))
<1> HIDE DEF Threads, Main, Workers, Paths, Labels, Task
<1>1. /\ pc \in [Threads -> Labels] /\ tasks \in Seq(Task) /\ Main \in Threads /\ t \in Threads /\ t # Main
      /\ WorkerLimit \in Nat /\ fresh[t] \in Seq(Task) /\ dir \in [Threads -> Task]
      /\ todo \in [Threads -> SUBSET (Dirs \cup Files)] /\ fresh \in [Threads -> Seq(Task)]
  BY TypesAre, ThreadFacts DEF Shape, Rest, Fields
<1>2. CASE Wait(t) \/ SpuriousWake(t)
  <2>1. UNCHANGED <<pc, tasks, outstanding, workers_started, dir, todo, fresh, delivery>> /\ Bookkeeping
    BY <1>2 DEF Wait, SpuriousWake, local, place, loop, Bookkeeping
  <2>2. Settling
    BY <2>1 DEF Settling
  <2> QED BY <1>1, <2>1, <2>2 DEF Passes
<1>3. CASE Look(t) \/ Spawned(t) \/ Leave(t)
  <2>1. /\ pc[t] \in {"look", "spawn", "take"}
        /\ \E l \in {"spawn", "take", "done"} : pc' = [pc EXCEPT ![t] = l]
    BY <1>3 DEF Look, Spawned, Leave, Goto
  <2>2. \A s \in Threads : \/ pc'[s] = pc[s]
                           \/ pc[s] \in Resting \ {"start"} /\ pc'[s] \in Resting \ {"start", "walked"}
    BY <1>1, <2>1 DEF Resting
  <2>3. Bookkeeping /\ UNCHANGED <<dir, todo, fresh, tasks, outstanding>>
    BY <1>3 DEF Look, Spawned, Leave, queue, local, place, loop, Bookkeeping
  <2>4. Flush(t) \/ UNCHANGED delivery
    BY <1>3 DEF Look, Spawned, Leave
  <2>5. /\ pc'[Main] = pc[Main] /\ workers_started' = workers_started
        /\ \A w \in Workers \ {t} : pc'[w] = pc[w]
        /\ pc'[t] = "done" => tasks = <<>> /\ outstanding = 0
    BY <1>1, <1>3, ThreadFacts DEF Look, Spawned, Leave, Goto, queue
  <2>6. Settling
    BY <2>5 DEF Settling
  <2> QED BY <1>1, <2>2, <2>3, <2>4, <2>6 DEF Passes
<1>4. CASE Spawn(t)
  <2> DEFINE w == workers_started + 1
  <2>1. pc[t] = "spawn" /\ workers_started < want[t] /\ want[t] \in 0..WorkerLimit
        /\ workers_started \in 0..WorkerLimit
    BY <1>1, <1>4, TypesAre DEF Spawn, Shape, Fields, Rest
  <2>2. w \in Workers /\ w > workers_started
    BY <1>1, <2>1 DEF Workers
  <2>3. w \in Threads /\ w # Main /\ pc[w] = "unborn" /\ pc' = [pc EXCEPT ![w] = "look"]
    BY <1>4, <2>2, ThreadFacts DEF Shape, Phases, Spawn, Goto
  <2> HIDE DEF w
  <2>4. \A s \in Threads : \/ pc'[s] = pc[s]
                           \/ pc[s] \in Resting \ {"start"} /\ pc'[s] \in Resting \ {"start", "walked"}
    BY <1>1, <2>3 DEF Resting
  <2>5. Bookkeeping /\ UNCHANGED <<dir, todo, fresh, tasks, outstanding, delivery>>
    BY <1>4 DEF Spawn, queue, local, place, loop, Bookkeeping
  <2>6. pc'[Main] = pc[Main] /\ workers_started' > 0 /\ \A v \in Workers : pc'[v] = "done" => pc[v] = "done"
    BY <1>1, <1>4, <2>1, <2>3, ThreadFacts DEF Spawn
  <2>7. Settling
    BY <2>6 DEF Settling
  <2> QED BY <1>1, <2>4, <2>5, <2>7 DEF Passes
<1>5. CASE Take(t)
  <2> DEFINE n == Len(tasks)
  <2>1. /\ tasks # <<>> /\ Open(t, Last(tasks)) /\ tasks' = Front(tasks) /\ pc[t] = "take"
        /\ Bookkeeping /\ UNCHANGED <<outstanding, workers_started, delivery>>
    BY <1>5 DEF Take, loop, Bookkeeping
  <2>2. /\ n \in 1..n /\ Last(tasks) = tasks[n] /\ Len(tasks') = n - 1 /\ n \in Nat
        /\ \A i \in 1..(n - 1) : i \in 1..n /\ i # n /\ Front(tasks)[i] = tasks[i]
    BY <1>1, <2>1, FrontFacts
  <2>3. PICK k \in 1..Len(tasks) : k = n
    BY <2>2
  <2> HIDE DEF n
  <2>4. \A i \in 1..n : i = n \/ i \in 1..(n - 1)
    BY <2>2
  <2>5. /\ \A i \in 1..Len(tasks') : i \in 1..Len(tasks) /\ tasks'[i] = tasks[i]
        /\ \A i \in 1..Len(tasks) : i = k \/ i \in 1..Len(tasks')
    BY <2>1, <2>2, <2>3, <2>4 DEF n
  <2>6. /\ dir'[t] = tasks[k] /\ todo'[t] = {} /\ fresh'[t] = <<>>
        /\ pc'[t] = IF cancelled THEN "complete" ELSE "open"
        /\ \A s \in Threads \ {t} :
             pc'[s] = pc[s] /\ dir'[s] = dir[s] /\ todo'[s] = todo[s] /\ fresh'[s] = fresh[s]
    BY <1>1, <2>1, <2>2, <2>3 DEF Open, Goto
  <2> QED BY <1>1, <2>1, <2>5, <2>6 DEF Opens
<1>6. CASE Complete(t)
  <2>1. /\ pc[t] = "complete" /\ tasks' = tasks \o fresh[t] /\ pc'[t] = "look"
        /\ \A s \in Threads \ {t} : pc'[s] = pc[s]
        /\ Bookkeeping /\ UNCHANGED <<dir, todo, fresh, workers_started, delivery>>
    BY <1>1, <1>6 DEF Complete, Goto, local, place, loop, Bookkeeping
  <2>2. Joined(tasks', tasks, fresh[t])
    BY <1>1, <2>1, ConcatFacts
  <2> QED BY <1>1, <2>1, <2>2 DEF Closes
<1> QED BY <1>2, <1>3, <1>4, <1>5, <1>6 DEF Worker

LEMMA ChainKinds ==
  ASSUME Shape, ChainTake \/ ChainComplete \/ Branch
  PROVE  Opens(Main) \/ Closes(Main) \/ Passes(Main)
<1> HIDE DEF Threads, Main, Workers, Paths, Labels, Task
<1>1. /\ pc \in [Threads -> Labels] /\ tasks \in Seq(Task) /\ Main \in Threads
      /\ fresh[Main] \in Seq(Task) /\ dir \in [Threads -> Task]
      /\ todo \in [Threads -> SUBSET (Dirs \cup Files)] /\ fresh \in [Threads -> Seq(Task)]
  BY TypesAre, ThreadFacts DEF Shape, Rest, Fields
<1>2. CASE ChainTake
  <2>1. /\ Len(tasks) = 1 /\ Open(Main, tasks[1]) /\ tasks' = <<>> /\ pc[Main] = "chain"
        /\ Bookkeeping /\ UNCHANGED <<outstanding, workers_started, delivery>>
    BY <1>2 DEF ChainTake, loop, Bookkeeping
  <2>2. PICK k \in 1..Len(tasks) : k = 1
    BY <2>1
  <2>3. /\ \A i \in 1..Len(tasks') : i \in 1..Len(tasks) /\ tasks'[i] = tasks[i]
        /\ \A i \in 1..Len(tasks) : i = k \/ i \in 1..Len(tasks')
    BY <2>1, <2>2
  <2>4. /\ dir'[Main] = tasks[k] /\ todo'[Main] = {} /\ fresh'[Main] = <<>>
        /\ pc'[Main] = IF cancelled THEN "complete" ELSE "open"
        /\ \A s \in Threads \ {Main} :
             pc'[s] = pc[s] /\ dir'[s] = dir[s] /\ todo'[s] = todo[s] /\ fresh'[s] = fresh[s]
    BY <1>1, <2>1, <2>2 DEF Open, Goto
  <2> QED BY <1>1, <2>1, <2>3, <2>4 DEF Opens
<1>3. CASE ChainComplete
  <2>1. /\ pc[Main] = "complete" /\ tasks' = tasks \o fresh[Main] /\ pc'[Main] = "chain"
        /\ \A s \in Threads \ {Main} : pc'[s] = pc[s]
        /\ Bookkeeping /\ UNCHANGED <<dir, todo, fresh, workers_started, delivery>>
    BY <1>1, <1>3 DEF ChainComplete, Goto, local, place, loop, Bookkeeping
  <2>2. Joined(tasks', tasks, fresh[Main])
    BY <1>1, <2>1, ConcatFacts
  <2> QED BY <2>1, <2>2 DEF Closes
<1>4. CASE Branch
  <2>1. /\ pc[Main] = "chain" /\ pc' = [pc EXCEPT ![Main] = "join", ![1] = "look"]
        /\ Flush(Main) /\ Bookkeeping /\ UNCHANGED <<dir, todo, fresh, tasks, outstanding>>
    BY <1>4 DEF Branch, queue, local, place, loop, Bookkeeping
  <2>2. pc[1] \in Idle /\ 1 \in Threads /\ 1 # Main
    BY <2>1, ThreadFacts DEF Shape, Phases
  <2>3. pc'[Main] = "join" /\ pc'[1] = "look" /\ \A s \in Threads \ {Main, 1} : pc'[s] = pc[s]
    BY <1>1, <2>1, <2>2
  <2>4. \A s \in Threads : \/ pc'[s] = pc[s]
                           \/ pc[s] \in Resting \ {"start"} /\ pc'[s] \in Resting \ {"start", "walked"}
    BY <2>1, <2>2, <2>3 DEF Resting, Idle
  <2>5. /\ workers_started' > 0
        /\ \A v \in Workers : pc'[v] = "done" => pc[v] = "done"
    <3>1. workers_started' = 1 /\ Workers \subseteq Threads /\ Main \notin Workers
      BY <1>4, ThreadFacts DEF Branch
    <3> QED BY <2>3, <3>1
  <2>6. Settling
    BY <2>1, <2>3, <2>5 DEF Settling, Ending
  <2> QED BY <2>1, <2>4, <2>6 DEF Passes
<1> QED BY <1>2, <1>3, <1>4

LEMMA EndKinds ==
  ASSUME Shape, EndCancelled \/ EndProgress \/ EmitSummary \/ EmitCompleted
  PROVE  Passes(Main)
<1> HIDE DEF Threads, Main, Workers, Paths, Labels, Event, Reports
<1>1. pc \in [Threads -> Labels] /\ Fields /\ Main \in Threads
  BY TypesAre, ThreadFacts DEF Shape, Rest
<1>2. /\ pc[Main] \in {"walked", "chain", "join", "summary", "completed"}
      /\ \E l \in {"summary", "completed", "done"} : pc' = [pc EXCEPT ![Main] = l]
      /\ Bookkeeping /\ UNCHANGED <<dir, todo, fresh, tasks, outstanding>>
  BY DEF EndCancelled, EndProgress, EmitSummary, EmitCompleted, WalkOver, Goto, queue, local, place, loop,
         Bookkeeping
<1>3. \A s \in Threads : \/ pc'[s] = pc[s]
                         \/ pc[s] \in Resting \ {"start"} /\ pc'[s] \in Resting \ {"start", "walked"}
  BY <1>1, <1>2 DEF Resting
<1>4. Settling
  <2>1. /\ workers_started' = workers_started /\ \A w \in Workers : pc'[w] = pc[w]
        /\ \/ WalkOver /\ pc'[Main] = "done" /\ pc[Main] \in {"walked", "chain", "join"}
           \/ WalkOver /\ pc'[Main] = "summary" /\ ~cancelled /\ pc[Main] \in {"walked", "chain", "join"}
           \/ pc[Main] = "summary" /\ pc'[Main] = "completed"
           \/ pc[Main] = "completed" /\ pc'[Main] = "done"
    <3> HIDE DEF Threads, Workers, Labels, Main
    <3>1. Workers \subseteq Threads /\ Main \notin Workers
      BY ThreadFacts
    <3>2. WalkOver => pc[Main] \in {"walked", "chain", "join"}
      BY DEF WalkOver
    <3> HIDE DEF WalkOver
    <3> QED BY <1>1, <3>1, <3>2 DEF EndCancelled, EndProgress, EmitSummary, EmitCompleted, Goto
  <2> QED BY <2>1 DEF Settling, Ending
<1>5. \E e \in Event : Emit(Main, e) /\ Closing(e)
  <2>1. CASE EndCancelled \/ EmitCompleted
    BY <2>1, EventFacts DEF EndCancelled, EmitCompleted, Closing
  <2>2. CASE EndProgress
    <3> DEFINE n == files_seen + directories_seen
    <3>1. n \in Nat /\ Emit(Main, <<"progress", n>>)
      BY <1>1, <2>2 DEF EndProgress, Fields
    <3> HIDE DEF n
    <3> QED BY <3>1, EventFacts DEF Closing
  <2>3. CASE EmitSummary
    <3> DEFINE e == <<"summary", files_seen, directories_seen, total_allocation>>
    <3>1. e \in Event /\ e[1] = "summary"
      BY <1>1, EventFacts DEF Fields
    <3>2. Emit(Main, e) /\ Closing(e)
      <4>1. pc[Main] = "summary" /\ pc'[Main] = "completed"
        BY <1>1, <2>3 DEF EmitSummary, Goto
      <4> QED BY <2>3, <4>1 DEF EmitSummary, Closing
    <3> HIDE DEF e
    <3> QED BY <3>1, <3>2
  <2> QED BY <2>1, <2>2, <2>3
<1> QED BY <1>2, <1>3, <1>4, <1>5 DEF Passes

LEMMA StillKind ==
  ASSUME UNCHANGED vars
  PROVE  Passes(Main)
<1>1. UNCHANGED <<pc, tasks, outstanding, workers_started, dir, todo, fresh, delivery>> /\ Bookkeeping
  BY DEF vars, queue, local, place, loop, Bookkeeping
<1>2. Settling
  BY <1>1 DEF Settling
<1> QED BY <1>1, <1>2 DEF Passes

LEMMA StepKinds ==
  ASSUME Shape, [Next]_vars
  PROVE  \/ StartScan \/ StartInvalid \/ Walk \/ Receive \/ DropReceiver \/ Cancel
         \/ \E t \in Threads : Process(t) \/ Opens(t) \/ Closes(t) \/ Passes(t)
<1>1. Main \in Threads
  BY ThreadFacts
<1> HIDE DEF Threads, Main, Workers
<1>2. CASE UNCHANGED vars \/ Over
  BY <1>1, <1>2, StillKind DEF Over
<1>3. CASE Scan
  BY <1>1, <1>3, ChainKinds, EndKinds DEF Scan
<1>4. ASSUME NEW t \in Workers, Worker(t) \/ SpuriousWake(t)
      PROVE  \E s \in Threads : Opens(s) \/ Closes(s) \/ Passes(s)
  BY <1>4, QueueKinds
<1> QED BY <1>2, <1>3, <1>4 DEF Next

(* The first step: nothing is under way before it.                         *)
Opening(new) ==
  /\ Sent = {} /\ Says(new) /\ tasks = <<>> /\ callers = <<>> /\ callers' = <<>> /\ pc[Main] = "start"
  /\ found[Main] = Root /\ todo[Main] = {}
  /\ UNCHANGED <<totals, todo, fresh, found, ret, files_seen, total_allocation, keys, cancelled, setup,
                 alive, received, workers_started>>
  /\ \A s \in Threads \ {Main} : pc'[s] = pc[s] /\ dir'[s] = dir[s]

LEMMA StartFacts ==
  ASSUME Shape, OnceInv, StartScan
  PROVE  /\ Opening({<<"started">>, <<"dir", <<Root>>>>, <<"progress", 1>>})
         /\ directories_seen' = 1
         /\ \/ tasks' = <<RootTask>> /\ dir' = dir /\ pc'[Main] = "chain"
            \/ tasks' = <<>> /\ dir'[Main] = RootTask /\ pc'[Main] = "walk"
<1> DEFINE root == <<Root>>
           a == <<"started">>
           b == <<"dir", root>>
           c == <<"progress", 1>>
           batch == <<a, b, c>>
           new == {a, b, c}
<1>1. NothingYet /\ pc[Main] = "start" /\ channel = <<>> /\ Main \in Threads /\ WireOK
      /\ pc \in [Threads -> Labels] /\ dir \in [Threads -> Task]
  BY TypesAre, ThreadFacts DEF OnceInv, Parts, StartScan, Shape, Rest, Held, Fields
<1>2. /\ UNCHANGED <<buffer, totals, todo, fresh, found, ret, files_seen, total_allocation, keys,
                     cancelled, setup, alive, received, workers_started, callers>>
      /\ directories_seen' = 1
      /\ \/ channel' = channel /\ ~alive
         \/ channel' = Append(channel, batch) /\ alive
  BY DEF StartScan, loop, consumer
<1>3. /\ \A s \in Threads \ {Main} : pc'[s] = pc[s] /\ dir'[s] = dir[s]
      /\ \/ tasks' = <<RootTask>> /\ dir' = dir /\ pc'[Main] = "chain"
         \/ tasks' = tasks /\ dir'[Main] = RootTask /\ pc'[Main] = "walk"
  <2> HIDE DEF Threads, Main, Labels, Task, RootTask, batch
  <2>1. CASE setup.workers > 1
    BY <1>1, <2>1 DEF StartScan, Goto
  <2>2. CASE ~(setup.workers > 1)
    BY <1>1, <2>2 DEF StartScan, Goto
  <2> QED BY <2>1, <2>2
<1>4. EventsIn(batch) = new
  <2> HIDE DEF a, b, c
  <2>1. Len(batch) = 3 /\ batch[1] = a /\ batch[2] = b /\ batch[3] = c
    OBVIOUS
  <2> HIDE DEF batch
  <2>2. \A i : i \in 1..Len(batch) <=> i = 1 \/ i = 2 \/ i = 3
    BY <2>1
  <2> QED BY <2>1, <2>2 DEF EventsIn
<1> HIDE DEF batch, new, Threads, Main
<1>5. /\ tasks = <<>> /\ callers = <<>> /\ found[Main] = Root /\ todo[Main] = {} /\ received = <<>>
      /\ \A t \in Threads : buffer[t] = <<>>
  BY <1>1 DEF NothingYet
<1>6. Sent = {}
  <2>1. \A k : k \notin 1..Len(channel)
    BY <1>1
  <2> QED BY <1>5, <2>1, SentIs
<1>7. Says(new)
  <2>1. CASE channel' = channel /\ ~alive
    <3>1. Sent' = Sent
      BY <1>2, <2>1, NothingSaid DEF delivery
    <3> QED BY <2>1, <3>1 DEF Says
  <2>2. CASE channel' = Append(channel, batch) /\ alive
    <3>1. Len(channel) = 0 /\ Capacity \in Nat \ {0}
      BY <1>1, WalkAssumption
    <3>2. Send(batch)
      BY <2>2, <3>1 DEF Send
    <3>3. EventsIn(batch) = EventsIn(buffer[Main]) \cup new
      BY <1>1, <1>4, <1>5, SentIs
    <3>4. buffer' = [buffer EXCEPT ![Main] = <<>>]
      <4>1. buffer \in [Threads -> Seq(Reports)]
        BY <1>1 DEF WireOK
      <4> QED BY <1>1, <1>2, <1>5, <4>1
    <3> QED BY <1>1, <1>2, <3>2, <3>3, <3>4, HandOverSays
  <2> QED BY <1>2, <2>1, <2>2
<1> HIDE DEF RootTask
<1>8. Opening(new)
  BY <1>1, <1>2, <1>3, <1>5, <1>6, <1>7 DEF Opening
<1>9. tasks' = tasks => tasks' = <<>>
  BY <1>5
<1> QED BY <1>2, <1>3, <1>8, <1>9 DEF new, a, b, c, root

LEMMA InvalidFacts ==
  ASSUME Shape, OnceInv, StartInvalid
  PROVE  /\ Opening({<<"started">>, <<"issue", "root", <<Root>>>>, <<"summary", 0, 0, 0>>})
         /\ directories_seen' = directories_seen
         /\ tasks' = <<>> /\ dir' = dir /\ pc'[Main] = "completed"
<1> DEFINE root == <<Root>>
           a == <<"started">>
           b == <<"issue", "root", root>>
           c == <<"summary", 0, 0, 0>>
           batch == <<a, b, c>>
           new == {a, b, c}
<1>1. NothingYet /\ pc[Main] = "start" /\ channel = <<>> /\ Main \in Threads /\ WireOK
      /\ pc \in [Threads -> Labels] /\ dir \in [Threads -> Task]
  BY TypesAre, ThreadFacts DEF OnceInv, Parts, StartInvalid, Shape, Rest, Held, Fields
<1>2. /\ UNCHANGED <<buffer, totals, todo, fresh, found, ret, files_seen, total_allocation, keys, tasks, dir,
                     cancelled, setup, alive, received, workers_started, callers, directories_seen>>
      /\ \/ channel' = channel /\ ~alive
         \/ channel' = Append(channel, batch) /\ alive
  BY DEF StartInvalid, loop, consumer, local, place, counters, counted, queue
<1>3. (\A s \in Threads \ {Main} : pc'[s] = pc[s]) /\ pc'[Main] = "completed"
  <2> HIDE DEF Threads, Main, Labels, Task
  <2> QED BY <1>1 DEF StartInvalid, Goto
<1>4. EventsIn(batch) = new
  <2> HIDE DEF a, b, c
  <2>1. Len(batch) = 3 /\ batch[1] = a /\ batch[2] = b /\ batch[3] = c
    OBVIOUS
  <2> HIDE DEF batch
  <2>2. \A i : i \in 1..Len(batch) <=> i = 1 \/ i = 2 \/ i = 3
    BY <2>1
  <2> QED BY <2>1, <2>2 DEF EventsIn
<1> HIDE DEF batch, new, Threads, Main
<1>5. /\ tasks = <<>> /\ callers = <<>> /\ found[Main] = Root /\ todo[Main] = {} /\ received = <<>>
      /\ \A t \in Threads : buffer[t] = <<>>
  BY <1>1 DEF NothingYet
<1>6. Sent = {}
  <2>1. \A k : k \notin 1..Len(channel)
    BY <1>1
  <2> QED BY <1>5, <2>1, SentIs
<1>7. Says(new)
  <2>1. CASE channel' = channel /\ ~alive
    <3>1. Sent' = Sent
      BY <1>2, <2>1, NothingSaid DEF delivery
    <3> QED BY <2>1, <3>1 DEF Says
  <2>2. CASE channel' = Append(channel, batch) /\ alive
    <3>1. Len(channel) = 0 /\ Capacity \in Nat \ {0}
      BY <1>1, WalkAssumption
    <3>2. Send(batch)
      BY <2>2, <3>1 DEF Send
    <3>3. EventsIn(batch) = EventsIn(buffer[Main]) \cup new
      BY <1>1, <1>4, <1>5, SentIs
    <3>4. buffer' = [buffer EXCEPT ![Main] = <<>>]
      <4>1. buffer \in [Threads -> Seq(Reports)]
        BY <1>1 DEF WireOK
      <4> QED BY <1>1, <1>2, <1>5, <4>1
    <3> QED BY <1>1, <1>2, <3>2, <3>3, <3>4, HandOverSays
  <2> QED BY <1>2, <2>1, <2>2
<1>8. Opening(new)
  BY <1>1, <1>2, <1>3, <1>5, <1>6, <1>7 DEF Opening
<1>9. tasks' = <<>>
  BY <1>2, <1>5
<1> QED BY <1>2, <1>3, <1>8, <1>9 DEF new, a, b, c, root

-----------------------------------------------------------------------------
(* Nothing but the tree is walked, whatever the step.                      *)

(* An event of these kinds is about no path.                               *)
LEMMA PassSilent ==
  ASSUME NEW t \in Threads, Passes(t)
  PROVE  SaysGenuine(t)
<1> HIDE DEF Threads, Event
<1>1. \A e \in Event : Closing(e) => ~IsPath(e)
  BY DEF IsPath, Closing
<1> QED BY <1>1 DEF Passes, SaysGenuine, Silent

LEMMA OpensSound ==
  ASSUME WalkSound, Shape, OnceInv, NEW t \in Threads, Opens(t)
  PROVE  WalkSound'
<1>1. /\ UNCHANGED <<setup, found, pending, ret, callers, delivery, received>>
      /\ pending[t] = <<>> /\ (t = Main => ~Entering')
      /\ ~HasFound(t)' /\ pc[t] \notin Working
  BY DEF Opens, Bookkeeping, totals, consumer, OnceInv, Parts, InHand, Carries, Entering, HasFound, Working
<1>2. Duties' = Duties /\ Inside' = Inside /\ Admitted' = Admitted
  BY <1>1, SetupKeeps
<1> HIDE DEF Threads, Main, Duties, Inside, Admitted
<1>3. /\ \A s \in Threads \ {t} :
           pc'[s] = pc[s] /\ dir'[s] = dir[s] /\ todo'[s] = todo[s] /\ fresh'[s] = fresh[s]
      /\ dir'[t] \in Duties /\ todo'[t] = {} /\ fresh'[t] = <<>>
      /\ \A i \in 1..Len(tasks') : tasks'[i] \in Duties
  BY DEF Opens, WalkSound, TasksSound
<1>4. \A s \in Threads \ {t} : HandSound(s)'
  <2> SUFFICES ASSUME NEW s \in Threads \ {t} PROVE HandSound(s)'
    OBVIOUS
  <2>1. HandShrinks(s)
    BY <1>1, <1>3 DEF HandShrinks, HasFound, Entering
  <2> QED BY <1>1, <2>1, HandKept DEF WalkSound
<1>5. HandSound(t)'
  <2>1. \A i : i \notin 1..Len(pending'[t]) /\ i \notin 1..Len(fresh'[t])
    BY <1>1, <1>3
  <2> QED BY <1>1, <1>2, <1>3, <2>1 DEF HandSound
<1>6. SentSound'
  <2>1. Genuine' = Genuine
    BY <1>1, SetupKeeps
  <2> HIDE DEF Genuine
  <2> QED BY <1>1, <2>1, NothingSaid DEF WalkSound, SentSound
<1> QED BY <1>1, <1>2, <1>3, <1>4, <1>5, <1>6, CallsKept DEF WalkSound, TasksSound

LEMMA ClosesSound ==
  ASSUME WalkSound, Shape, OnceInv, NEW t \in Threads, Closes(t)
  PROVE  WalkSound'
<1>1. /\ UNCHANGED <<setup, found, pending, ret, callers, delivery, received, dir, todo, fresh>>
      /\ (t = Main => ~Entering') /\ ~HasFound(t)'
  BY DEF Closes, Bookkeeping, totals, consumer, Entering, HasFound
<1>2. Duties' = Duties
  BY <1>1, SetupKeeps
<1> HIDE DEF Threads, Main, Duties
<1>3. \A s \in Threads : HandSound(s)'
  <2> SUFFICES ASSUME NEW s \in Threads PROVE HandSound(s)'
    OBVIOUS
  <2>1. s # t => pc'[s] = pc[s]
    BY DEF Closes
  <2>2. HandShrinks(s)
    BY <1>1, <2>1 DEF HandShrinks, HasFound, Entering
  <2> QED BY <1>1, <2>2, HandKept DEF WalkSound
<1>4. TasksSound'
  BY <1>2 DEF TasksSound, WalkSound, HandSound, Closes, Joined
<1>5. SentSound'
  <2>1. Genuine' = Genuine
    BY <1>1, SetupKeeps
  <2> HIDE DEF Genuine
  <2> QED BY <1>1, <2>1, NothingSaid DEF WalkSound, SentSound
<1> QED BY <1>1, <1>3, <1>4, <1>5, CallsKept DEF WalkSound

LEMMA PassesSound ==
  ASSUME WalkSound, Shape, NEW t \in Threads, Passes(t)
  PROVE  WalkSound'
<1>1. UNCHANGED <<setup, found, pending, ret, callers, received, dir, todo, fresh, tasks>> /\ WireOK
  BY DEF Passes, Bookkeeping, totals, consumer, Shape
<1>2. Duties' = Duties
  BY <1>1, SetupKeeps
<1> HIDE DEF Threads, Main, Duties
<1>3. \A s \in Threads : HandSound(s)'
  <2> SUFFICES ASSUME NEW s \in Threads PROVE HandSound(s)'
    OBVIOUS
  <2>1. \/ pc'[s] = pc[s]
        \/ ~HasFound(s)' /\ (s = Main => ~Entering')
    BY DEF Passes, Resting, HasFound, Entering
  <2>2. HandShrinks(s)
    BY <1>1, <2>1 DEF HandShrinks, HasFound, Entering
  <2> QED BY <1>1, <2>2, HandKept DEF WalkSound
<1>4. TasksSound'
  BY <1>1, <1>2 DEF TasksSound, WalkSound
<1>5. SentSound'
  BY <1>1, PassSilent, GenuineSent DEF WalkSound
<1> QED BY <1>1, <1>3, <1>4, <1>5, CallsKept DEF WalkSound

LEMMA StartSound ==
  ASSUME WalkSound, Shape, OnceInv, StartScan \/ StartInvalid
  PROVE  WalkSound'
<1> DEFINE e1 == <<"started">>
           e2 == <<"dir", <<Root>>>>
           e3 == <<"progress", 1>>
           d2 == <<"issue", "root", <<Root>>>>
           d3 == <<"summary", 0, 0, 0>>
<1>1. /\ \A e \in {e1, e2, e3, d2, d3} : IsPath(e) => e[2] = <<Root>>
      /\ RootTask \in Duties /\ <<Root>> \in Genuine
  BY RootIsDue, CallTypes DEF IsPath
<1> HIDE DEF e1, e2, e3, d2, d3, Threads, Main
<1>2. PICK new : Opening(new) /\ new \subseteq {e1, e2, e3, d2, d3}
  BY StartFacts, InvalidFacts DEF e1, e2, e3, d2, d3
<1>3. /\ UNCHANGED <<setup, found, pending, ret, todo, fresh>> /\ callers' = <<>> /\ pc[Main] = "start"
      /\ \A s \in Threads \ {Main} : pc'[s] = pc[s] /\ dir'[s] = dir[s]
      /\ Sent' \subseteq new /\ Main \in Threads
  BY <1>2, CallTypes DEF Opening, Says, totals
<1>4. /\ pc'[Main] \in {"chain", "walk", "completed"} /\ (dir' = dir \/ dir'[Main] = RootTask)
      /\ tasks' = <<>> \/ tasks' = <<RootTask>>
  BY StartFacts, InvalidFacts
<1>5. Duties' = Duties /\ Inside' = Inside /\ Admitted' = Admitted /\ Genuine' = Genuine
  BY <1>3, SetupKeeps
<1> HIDE DEF Duties, Inside, Admitted, Genuine, RootTask
<1>6. \A s \in Threads \ {Main} : HandSound(s)'
  <2> SUFFICES ASSUME NEW s \in Threads \ {Main} PROVE HandSound(s)'
    OBVIOUS
  <2>1. HandShrinks(s)
    BY <1>3 DEF HandShrinks, HasFound, Entering
  <2> QED BY <1>3, <2>1, HandKept DEF WalkSound
<1>7. HandSound(Main)'
  <2>1. ~HasFound(Main)' /\ ~Entering'
    <3>1. found'[Main] = Root
      BY <1>2, <1>3 DEF Opening
    <3> QED BY <1>4, <3>1 DEF HasFound, Entering
  <2>2. todo'[Main] = {} /\ dir'[Main] \in Duties
    BY <1>1, <1>2, <1>3, <1>4 DEF Opening, WalkSound, HandSound
  <2>3. \A i : i \notin 1..Len(pending'[Main])
    <3>1. pending[Main] = <<>>
      BY <1>3 DEF OnceInv, Parts, InHand, Carries
    <3> QED BY <1>3, <3>1
  <2> QED BY <1>3, <1>5, <2>1, <2>2, <2>3 DEF HandSound, WalkSound
<1>8. CallsSound'
  <2>1. \A i : i \notin 1..Len(callers')
    BY <1>3
  <2> QED BY <2>1 DEF CallsSound
<1>9. TasksSound'
  <2>1. \A i \in 1..Len(tasks') : tasks'[i] = RootTask
    BY <1>4
  <2> QED BY <1>1, <1>5, <2>1 DEF TasksSound
<1>10. SentSound'
  BY <1>1, <1>2, <1>3, <1>5 DEF SentSound
<1> QED BY <1>6, <1>7, <1>8, <1>9, <1>10 DEF WalkSound

LEMMA OutsideSound ==
  ASSUME WalkSound, Shape, Receive \/ DropReceiver \/ Cancel
  PROVE  WalkSound'
<1>1. UNCHANGED <<setup, pc, found, pending, ret, callers, dir, todo, fresh, tasks>> /\ WireOK
  BY DEF Receive, DropReceiver, Cancel, local, place, totals, loop, queue, consumer, Shape
<1>2. Duties' = Duties /\ Genuine' = Genuine
  BY <1>1, SetupKeeps
<1>3. Sent' \subseteq Sent
  <2>1. CASE Cancel
    BY <2>1, NothingSaid DEF Cancel, consumer
  <2> QED BY <1>1, <2>1, ReceiveSays, DropSays
<1> HIDE DEF Threads, Main, Duties, Genuine
<1>4. \A s \in Threads : HandSound(s)'
  <2> SUFFICES ASSUME NEW s \in Threads PROVE HandSound(s)'
    OBVIOUS
  <2>2. HandShrinks(s)
    BY <1>1 DEF HandShrinks, HasFound, Entering
  <2> QED BY <1>1, <2>2, HandKept DEF WalkSound
<1>5. TasksSound' /\ SentSound'
  BY <1>1, <1>2, <1>3 DEF TasksSound, SentSound, WalkSound
<1> QED BY <1>1, <1>4, <1>5, CallsKept DEF WalkSound

LEMMA InitSound ==
  ASSUME Init
  PROVE  WalkSound
<1> HIDE DEF Threads, Main
<1>1. /\ \A t \in Threads : /\ pc[t] \in {"start", "unborn"} /\ pending[t] = <<>> /\ buffer[t] = <<>>
                            /\ dir[t] = RootTask /\ todo[t] = {} /\ fresh[t] = <<>> /\ found[t] = Root
      /\ tasks = <<>> /\ callers = <<>> /\ channel = <<>> /\ received = <<>> /\ setup \in Setup
      /\ Main \in Threads
  BY ThreadFacts, WalkAssumption DEF Init
<1>2. /\ \A i : i \notin 1..Len(tasks) /\ i \notin 1..Len(channel) /\ i \notin 1..Len(callers)
      /\ \A t \in Threads : \A i : i \notin 1..Len(pending[t]) /\ i \notin 1..Len(fresh[t])
  BY <1>1
<1>3. RootTask \in Duties
  BY <1>1, RootIsDue
<1> HIDE DEF Duties, RootTask, Inside, Admitted, Genuine
<1>4. \A t \in Threads : ~HasFound(t) /\ (t = Main => ~Entering)
  BY <1>1 DEF HasFound, Entering
<1>5. \A e : e \notin Sent
  BY <1>1, <1>2, SentIs
<1> QED BY <1>1, <1>2, <1>3, <1>4, <1>5 DEF WalkSound, HandSound, CallsSound, TasksSound, SentSound

LEMMA StepSound ==
  ASSUME WalkSound, Shape, OnceInv, [Next]_vars
  PROVE  WalkSound'
BY StepKinds, StartSound, WalkStepSound, OutsideSound, ProcessSound, OpensSound, ClosesSound, PassesSound

-----------------------------------------------------------------------------
(* A thread that is through with a directory has nothing left of it.       *)

LEMMA RestKept ==
  ASSUME NEW s \in Threads, Rested(s), pc'[s] = pc[s], ret'[s] = ret[s], todo'[s] = todo[s],
         tally'[s] = tally[s], physical'[s] = physical[s]
  PROVE  Rested(s)'
BY DEF Rested, Emptied, Published

(* A step at a directory leaves what is queued and called alone.           *)
LEMMA ProcessDrained ==
  ASSUME Drained, Shape, NEW t \in Threads, Process(t)
  PROVE  Drained'
<1>1. /\ Frame(t) /\ callers' = callers /\ pc[t] \in Working /\ pc'[t] \in Working
      /\ Threads = {Main} \cup Workers
  BY ProcessFrame, ThreadFacts
<1>2. /\ pc'[Main] = pc[Main] \/ (pc[Main] \in Working /\ pc'[Main] \in Working)
      /\ \A w \in Workers : pc'[w] = "done" => pc[w] = "done"
  BY <1>1 DEF Frame, Working
<1>3. UNCHANGED <<callers, tasks, outstanding, workers_started>>
  BY <1>1 DEF Frame
<1>4. \A l \in Working : l \notin Walking \cup {"start", "summary", "completed", "done", "join"}
  BY DEF Working, Walking
<1>5. {"walk", "walking", "counted", "descend"} \subseteq Walking
  BY DEF Walking
<1> HIDE DEF Threads, Main, Workers, Working, Walking
<1> QED BY <1>2, <1>3, <1>4, <1>5 DEF Drained

LEMMA ProcessRests ==
  ASSUME RestInv, Shape, OnceInv, NEW t \in Threads, Process(t)
  PROVE  RestInv'
<1>1. /\ Frame(t) /\ Fields /\ pc \in [Threads -> Labels] /\ Rested(t)
  BY ProcessFrame, TypesAre DEF Shape, Rest, RestInv
<1>2. \A s \in Threads \ {t} : Rested(s)'
  BY <1>1, RestKept DEF RestInv, Frame
<1>3. Drained'
  BY ProcessDrained DEF RestInv
<1> HIDE DEF Threads, Main, Labels, Task
<1>4. /\ ret \in [Threads -> {"files", "found", "end", "complete"}]
      /\ todo \in [Threads -> SUBSET (Dirs \cup Files)]
      /\ tally \in [Threads -> Nat] /\ physical \in [Threads -> Nat]
  BY <1>1 DEF Fields
<1> USE DEF Rested, Emptied, Published, Resting, Reporting, Working
<1>5. CASE ReadFails(t) \/ FilesEmitted(t) \/ Advance(t) \/ Report(t)
  <2>1. ret[t] \in {"files", "found", "end", "complete"}
    BY <1>4
  <2>2. UNCHANGED <<todo, tally, physical, ret>>
    BY <1>5 DEF ReadFails, FilesEmitted, Advance, Report, local, place, totals, loop
  <2>3. \/ pc[t] = "open" /\ pc'[t] = "complete"
        \/ pc[t] = "files" /\ pc'[t] = "entries"
        \/ pc[t] = "advance" /\ pc'[t] \in {"report", ret[t]}
        \/ pc[t] = "report" /\ pc'[t] = ret[t]
    BY <1>1, <1>5 DEF ReadFails, FilesEmitted, Advance, Report, Goto
  <2>4. Rested(t)'
    BY <1>1, <2>1, <2>2, <2>3
  <2> QED BY <1>2, <1>3, <2>4 DEF RestInv
<1>6. CASE ReadDir(t) \/ LeaveLoop(t)
  <2>1. /\ UNCHANGED <<tally, physical, ret>>
        /\ \/ pc'[t] = "entries"
           \/ pc'[t] = "end" /\ todo'[t] = {}
    BY <1>1, <1>4, <1>6 DEF ReadDir, LeaveLoop, totals, loop, Goto
  <2>2. Rested(t)'
    BY <1>1, <2>1
  <2> QED BY <1>2, <1>3, <2>2 DEF RestInv
<1>7. ASSUME NEW e \in Dirs \cup Files, EntryFails(t, e) \/ Exclude(t, e) PROVE RestInv'
  <2>1. pc'[t] = "entries"
    BY <1>1, <1>7 DEF EntryFails, Exclude, Entry
  <2>2. Rested(t)'
    BY <1>1, <2>1
  <2> QED BY <1>2, <1>3, <2>2 DEF RestInv
<1>8. ASSUME NEW f \in Files, FileEntry(t, f) PROVE RestInv'
  <2>1. pc'[t] \in {"files", "entries"}
    BY <1>1, <1>8 DEF FileEntry, Goto
  <2>2. Rested(t)'
    BY <1>1, <2>1
  <2> QED BY <1>2, <1>3, <2>2 DEF RestInv
<1>9. ASSUME NEW d \in Dirs, FindDir(t, d) PROVE RestInv'
  <2>1. pc'[t] = "found"
    BY <1>1, <1>9 DEF FindDir, Goto
  <2>2. Rested(t)'
    BY <1>1, <2>1
  <2> QED BY <1>2, <1>3, <2>2 DEF RestInv
<1>10. CASE DirEntry(t) \/ CycleIssue(t)
  <2>1. pc'[t] \in {"cycle", "entries"}
    BY <1>1, <1>10 DEF DirEntry, CycleIssue, Goto
  <2>2. Rested(t)'
    BY <1>1, <2>1
  <2> QED BY <1>2, <1>3, <2>2 DEF RestInv
<1>11. CASE ClaimFile(t)
  <2>1. /\ pc[t] \in {"files", "found", "end"} /\ pc'[t] = "emit" /\ ret'[t] = pc[t] /\ todo' = todo
    BY <1>1, <1>4, <1>11 DEF ClaimFile, Goto, place
  <2>2. Rested(t)'
    BY <1>1, <2>1
  <2> QED BY <1>2, <1>3, <2>2 DEF RestInv
<1>12. CASE EmitFile(t)
  <2>1. /\ pc[t] = "emit" /\ pc'[t] \in {"progress", ret[t]} /\ UNCHANGED <<ret, todo>>
        /\ ret[t] \in {"files", "found", "end", "complete"}
    BY <1>1, <1>4, <1>12 DEF EmitFile, Goto, place, loop
  <2>2. pc[t] = "emit" => ret[t] # "complete"
    BY DEF OnceInv, Parts, InHand
  <2>3. Rested(t)'
    BY <1>1, <2>1, <2>2
  <2> QED BY <1>2, <1>3, <2>3 DEF RestInv
<1>13. CASE EndDirectory(t)
  <2>1. /\ pc[t] = "end" /\ todo' = todo /\ tally'[t] = 0 /\ physical'[t] = 0
    BY <1>1, <1>4, <1>13 DEF EndDirectory, Goto, place
  <2>2. Rested(t)'
    BY <1>1, <2>1
  <2> QED BY <1>2, <1>3, <2>2 DEF RestInv
<1>14. CASE LoadItems(t)
  <2>1. /\ pc[t] = "progress" /\ pc'[t] = "advance" /\ UNCHANGED <<todo, ret, tally, physical>>
    BY <1>1, <1>14 DEF LoadItems, Goto, place, totals
  <2>2. Rested(t)'
    BY <1>1, <2>1
  <2> QED BY <1>2, <1>3, <2>2 DEF RestInv
<1> QED BY <1>5, <1>6, <1>7, <1>8, <1>9, <1>10, <1>11, <1>12, <1>13, <1>14 DEF Process

LEMMA WalkRests ==
  ASSUME RestInv, Shape, OnceInv, Walk
  PROVE  RestInv'
<1>1. /\ Frame(Main) /\ UNCHANGED <<tally, physical, pending>>
      /\ pc[Main] \in Walking /\ pc'[Main] \in Walking /\ Main \in Threads
  BY WalkFrame
<1> HIDE DEF Threads, Main
<1>2. \A s \in Threads \ {Main} : Rested(s)'
  BY <1>1, RestKept DEF RestInv, Frame
<1>3. Published(Main) /\ tally[Main] = 0 /\ physical[Main] = 0
  BY <1>1 DEF RestInv, Rested, Published, Working, Walking
<1>4. pc'[Main] = "walked" => todo'[Main] = {} /\ callers' = <<>>
  <2>1. CASE WalkReadFails \/ WalkReturn
    BY <2>1, ReturnFacts
  <2>2. CASE ~(WalkReadFails \/ WalkReturn)
    <3>1. pc'[Main] # "walked"
      <4>1. /\ Fields /\ pc \in [Threads -> Labels]
        BY CallTypes
      <4> HIDE DEF Labels
      <4>2. CASE WalkPasses
        <5>1. pc'[Main] \in {"walking", "descend"}
          BY <1>1, <4>1, <4>2 DEF WalkPasses, WalkEntryFails, WalkExclude, WalkEntry, WalkProgress, WalkPassBy, Goto
        <5> QED BY <5>1
      <4>3. CASE WalkReadDir \/ WalkDescend \/ (\E d \in Dirs : WalkDir(d)) \/ (\E f \in Files : WalkFile(f))
        BY <1>1, <4>1, <4>3 DEF WalkReadDir, WalkDescend, WalkDir, WalkFile, Goto
      <4> QED BY <2>2, <4>2, <4>3 DEF Walk, WalkPasses
    <3> QED BY <3>1
  <2> QED BY <2>1, <2>2
<1>5. Rested(Main)'
  BY <1>1, <1>3, <1>4 DEF Rested, Emptied, Published, Resting, Reporting, Walking, Working
<1>6. Drained'
  <2>1. /\ UNCHANGED <<tasks, outstanding, workers_started>> /\ pc'[Main] # "join"
        /\ \A w \in Workers : pc'[w] = pc[w]
    BY <1>1, ThreadFacts DEF Frame, Walking
  <2>2. pc'[Main] \in {"walk", "walking", "counted", "descend"} \/ pc'[Main] = "walked"
    BY <1>1 DEF Walking
  <2> QED BY <1>1, <1>4, <2>1, <2>2 DEF RestInv, Drained
<1> QED BY <1>2, <1>5, <1>6 DEF RestInv

LEMMA OpensRests ==
  ASSUME RestInv, Shape, NEW t \in Threads, Opens(t)
  PROVE  RestInv'
<1>1. /\ UNCHANGED <<tally, physical, ret, callers, outstanding, workers_started>>
      /\ \A s \in Threads \ {t} : pc'[s] = pc[s] /\ todo'[s] = todo[s]
      /\ pc[t] \in {"take", "chain"} /\ pc'[t] \in {"open", "complete"} /\ todo'[t] = {} /\ tasks # <<>>
  BY DEF Opens, Bookkeeping, totals
<1>2. Main \in Threads /\ Workers \subseteq Threads
  BY ThreadFacts
<1> HIDE DEF Threads, Main, Workers
<1>3. \A s \in Threads \ {t} : Rested(s)'
  BY <1>1, RestKept DEF RestInv
<1>4. Rested(t)'
  BY <1>1 DEF RestInv, Rested, Published, Working
<1>5. Drained'
  <2>1. \A w \in Workers : pc'[w] # "done" /\ pc[w] # "done"
    <3>1. \A w \in Workers : pc[w] # "done"
      BY <1>1 DEF RestInv, Drained
    <3> QED BY <1>1, <1>2, <3>1
  <2>2. CASE t = Main
    BY <1>1, <2>1, <2>2 DEF RestInv, Drained, Walking
  <2>3. CASE t # Main
    <3>1. pc'[Main] = pc[Main]
      BY <1>1, <1>2, <2>3
    <3>2. pc[Main] \notin Walking \cup {"start", "summary", "completed", "done"}
      BY <1>1 DEF RestInv, Drained
    <3> QED BY <1>1, <2>1, <3>1, <3>2 DEF RestInv, Drained
  <2> QED BY <2>2, <2>3
<1> QED BY <1>3, <1>4, <1>5 DEF RestInv

LEMMA ClosesRests ==
  ASSUME RestInv, Shape, OutstandingIsExact, NEW t \in Threads, Closes(t)
  PROVE  RestInv'
<1>1. /\ UNCHANGED <<tally, physical, ret, callers, workers_started, todo>>
      /\ \A s \in Threads \ {t} : pc'[s] = pc[s]
      /\ pc[t] = "complete" /\ pc'[t] \in {"look", "chain"}
  BY DEF Closes, Bookkeeping, totals
<1>2. /\ Main \in Threads /\ Workers \subseteq Threads /\ Threads = {Main} \cup Workers
      /\ \A w \in Workers : w > 0
  BY ThreadFacts DEF Workers
<1>3. \A w \in Workers : pc[w] # "done"
  <2>1. CASE t = Main
    <3>1. workers_started = 0
      BY <1>1, <2>1 DEF Shape, Phases, Alone, Working
    <3>2. \A w \in Workers : pc[w] = "unborn"
      BY <1>2, <3>1 DEF Shape, Phases
    <3> QED BY <3>2
  <2>2. CASE t \in Workers
    <3>1. pc[Main] = "join"
      BY <1>1, <2>2 DEF Shape, Phases, Idle
    <3>2. t \in Busy
      BY <1>1, <2>2 DEF Busy, Working
    <3>3. Cardinality(Busy) # 0
      BY <3>2, BusyFacts, FS_EmptySet
    <3>4. outstanding = Len(tasks) + Cardinality(Busy)
      BY <3>1 DEF OutstandingIsExact, Busy
    <3>5. Len(tasks) \in Nat /\ Cardinality(Busy) \in Nat
      BY BusyFacts, TypesAre DEF Shape, Rest
    <3>6. outstanding # 0
      BY <3>3, <3>4, <3>5
    <3> QED BY <3>1, <3>6 DEF RestInv, Drained
  <2> QED BY <1>2, <2>1, <2>2
<1> HIDE DEF Threads, Main, Workers
<1>4. \A s \in Threads \ {t} : Rested(s)'
  BY <1>1, RestKept DEF RestInv
<1>5. Rested(t)'
  BY <1>1 DEF RestInv, Rested, Published, Emptied
<1>6. Drained'
  <2>1. \A w \in Workers : pc'[w] # "done"
    BY <1>1, <1>2, <1>3
  <2>2. CASE t = Main
    BY <1>1, <2>1, <2>2 DEF RestInv, Drained, Walking
  <2>3. CASE t # Main
    <3>1. pc'[Main] = pc[Main] /\ pc[Main] = "join"
      BY <1>1, <1>2, <2>3 DEF Shape, Phases, Idle
    <3> QED BY <1>1, <2>1, <3>1 DEF RestInv, Drained, Walking
  <2> QED BY <2>2, <2>3
<1> QED BY <1>4, <1>5, <1>6 DEF RestInv

LEMMA PassesRests ==
  ASSUME RestInv, Shape, NEW t \in Threads, Passes(t)
  PROVE  RestInv'
<1>1. /\ UNCHANGED <<tally, physical, ret, callers, outstanding, tasks, todo>> /\ Settling
      /\ \A s \in Threads : \/ pc'[s] = pc[s]
                            \/ pc[s] \in Resting \ {"start"} /\ pc'[s] \in Resting \ {"start", "walked"}
  BY DEF Passes, Bookkeeping, totals
<1>2. Main \in Threads /\ Workers \subseteq Threads /\ 1 \in Workers
  BY ThreadFacts
<1>3. Phases
  BY DEF Shape
<1> HIDE DEF Threads, Main, Workers
<1>4. \A s \in Threads : Rested(s)'
  <2> SUFFICES ASSUME NEW s \in Threads PROVE Rested(s)'
    OBVIOUS
  <2>1. CASE pc'[s] = pc[s]
    BY <1>1, <2>1, RestKept DEF RestInv
  <2>2. CASE pc[s] \in Resting \ {"start"} /\ pc'[s] \in Resting \ {"start", "walked"}
    <3>1. Emptied(s) /\ Published(s)
      BY <2>2 DEF Emptied, Published, Resting, Working
    <3> QED BY <1>1, <3>1 DEF RestInv, Rested
  <2> QED BY <1>1, <2>1, <2>2
<1>5. pc'[Main] \notin {"walk", "walking", "counted", "descend"} => callers = <<>>
  BY <1>1, <1>2 DEF RestInv, Drained, Resting
<1>6. WalkOver => tasks = <<>>
  <2>1. CASE pc[Main] = "join" /\ \A w \in Workers : pc[w] \in {"unborn", "done"}
    <3>1. workers_started > 0 /\ workers_started \in Nat
      BY <2>1, TypesAre DEF RestInv, Drained, Shape, Rest
    <3>2. pc[1] # "unborn"
      BY <1>2, <1>3, <3>1 DEF Phases
    <3> QED BY <1>2, <2>1, <3>2 DEF RestInv, Drained
  <2> QED BY <2>1 DEF WalkOver, RestInv, Drained, Walking
<1>7. pc'[Main] \in Walking \cup {"start", "summary", "completed", "done"} => tasks = <<>>
  <2>1. CASE pc'[Main] \in Ending
    BY <1>1, <1>6, <2>1 DEF Settling, RestInv, Drained, Ending
  <2>2. CASE pc'[Main] \in Walking \cup {"start"}
    <3>1. pc'[Main] = pc[Main]
      BY <1>1, <1>2, <2>2 DEF Walking, Resting
    <3> QED BY <2>2, <3>1 DEF RestInv, Drained
  <2> QED BY <2>1, <2>2 DEF Ending
<1>8. pc'[Main] = "join" => workers_started' > 0
  BY <1>1 DEF Settling, RestInv, Drained
<1>9. (\E w \in Workers : pc'[w] = "done") => tasks = <<>>
  BY <1>1 DEF Settling, RestInv, Drained
<1>10. pc'[Main] = "join" /\ (\E w \in Workers : pc'[w] = "done") => outstanding = 0
  <2> SUFFICES ASSUME pc'[Main] = "join", NEW w \in Workers, pc'[w] = "done" PROVE outstanding = 0
    OBVIOUS
  <2>1. CASE pc[w] # "done"
    BY <1>1, <2>1 DEF Settling
  <2>2. CASE pc[w] = "done" /\ pc[Main] = "join"
    BY <2>2 DEF RestInv, Drained
  <2>3. CASE pc[w] = "done" /\ pc[Main] # "join"
    <3>1. pc[Main] \in Resting \ {"start"}
      BY <1>1, <1>2, <2>3
    <3>2. pc[Main] \in {"summary", "completed", "done", "chain", "walked"}
      BY <1>3, <2>3, <3>1 DEF Phases, Resting, Alone, Working, Walking
    <3>3. pc[Main] \notin {"chain", "walked"}
      <4>1. pc[Main] \in Alone => workers_started = 0
        BY <1>3 DEF Phases
      <4>2. w > 0 /\ (pc[w] = "unborn" <=> w > workers_started)
        BY <1>3 DEF Phases, Workers
      <4> QED BY <2>3, <4>1, <4>2 DEF Alone, Walking
    <3> QED BY <1>1, <3>2, <3>3 DEF Settling
  <2> QED BY <2>1, <2>2, <2>3
<1>11. Drained'
  BY <1>1, <1>5, <1>7, <1>8, <1>9, <1>10 DEF Drained
<1> QED BY <1>4, <1>11 DEF RestInv

LEMMA StartRests ==
  ASSUME RestInv, Shape, OnceInv, StartScan \/ StartInvalid
  PROVE  RestInv'
<1>1. /\ UNCHANGED <<totals, todo, ret>> /\ callers' = <<>> /\ todo[Main] = {} /\ pc[Main] = "start"
      /\ \A s \in Threads \ {Main} : pc'[s] = pc[s]
      /\ \/ pc'[Main] = "chain"
         \/ tasks' = <<>> /\ pc'[Main] \in {"walk", "completed"}
  BY StartFacts, InvalidFacts DEF Opening
<1>2. /\ Main \in Threads /\ Workers \subseteq Threads /\ Main \notin Workers
      /\ \A w \in Workers : pc[w] # "done"
  <2>1. workers_started = 0
    BY <1>1 DEF Shape, Phases, Alone
  <2>2. \A w \in Workers : pc[w] = "unborn"
    BY <2>1 DEF Shape, Phases, Workers
  <2> QED BY <2>2, ThreadFacts
<1> HIDE DEF Threads, Main, Workers
<1>3. \A s \in Threads \ {Main} : Rested(s)'
  BY <1>1, RestKept DEF RestInv, totals
<1>4. Rested(Main)'
  BY <1>1, <1>2 DEF RestInv, Rested, Published, Working, totals
<1>5. \A w \in Workers : pc'[w] # "done"
  BY <1>1, <1>2
<1>6. Drained'
  BY <1>1, <1>5 DEF Drained, Walking
<1> QED BY <1>3, <1>4, <1>6 DEF RestInv

LEMMA OutsideRests ==
  ASSUME RestInv, Receive \/ DropReceiver \/ Cancel
  PROVE  RestInv'
<1>1. UNCHANGED <<pc, ret, todo, tally, physical, callers, tasks, workers_started, outstanding>>
  BY DEF Receive, DropReceiver, Cancel, queue, local, place, totals, loop
<1> HIDE DEF Threads, Main, Workers
<1>2. \A s \in Threads : Rested(s)'
  BY <1>1, RestKept DEF RestInv
<1> QED BY <1>1, <1>2 DEF RestInv, Drained

LEMMA InitRests ==
  ASSUME Init
  PROVE  RestInv
<1> HIDE DEF Threads, Workers
<1>1. \A t \in Threads : todo[t] = {} /\ tally[t] = 0 /\ physical[t] = 0
  BY DEF Init
<1>2. callers = <<>> /\ tasks = <<>> /\ pc[Main] = "start" /\ \A w \in Workers : pc[w] = "unborn"
  BY ThreadFacts DEF Init
<1> QED BY <1>1, <1>2 DEF RestInv, Rested, Drained

LEMMA StepRests ==
  ASSUME RestInv, WalkInv, OnceInv, [Next]_vars
  PROVE  RestInv'
<1>1. Shape /\ OutstandingIsExact
  BY DEF WalkInv, QueueInv
<1> QED BY <1>1, StepKinds, StartRests, WalkRests, OutsideRests, ProcessRests, OpensRests, ClosesRests, PassesRests

-----------------------------------------------------------------------------
(* What is heard stays heard.                                              *)

LEMMA SilentSays ==
  ASSUME WireOK, NEW t \in Threads, Silent(t) \/ Flush(t), UNCHANGED received
  PROVE  /\ alive => Sent \subseteq Sent'
         /\ \A e \in Sent' : IsPath(e) => e \in Sent
<1> HIDE DEF Threads, Event
<1>1. CASE UNCHANGED delivery
  BY <1>1, NothingSaid
<1>2. CASE Flush(t)
  BY <1>2, FlushSays DEF Says
<1>3. ASSUME NEW e \in Event, Emit(t, e), ~IsPath(e)
      PROVE  (alive => Sent \subseteq Sent') /\ \A x \in Sent' : IsPath(x) => x \in Sent
  <2>1. (alive => Sent' = Sent \cup {e}) /\ Sent' \subseteq Sent \cup {e}
    BY <1>3, EmitSays DEF Says
  <2> QED BY <1>3, <2>1
<1> QED BY <1>1, <1>2, <1>3 DEF Silent

(* An issue that is not emitted again has been before.                     *)
LEMMA IssueSays ==
  ASSUME WireOK, alive, Issues, NEW t \in Threads, NEW kind \in Kinds, NEW path \in Paths,
         EmitIssue(t, kind, path), UNCHANGED received
  PROVE  IssueAt(path)' /\ Issues'
<1> DEFINE e == <<"issue", kind, path>>
<1>1. e \in Event /\ e[1] = "issue" /\ e[3] = path
  BY EventFacts
<1>2. CASE <<kind, path>> \in issue_keys
  <2>1. UNCHANGED <<delivery, issue_keys>>
    BY <1>2 DEF EmitIssue
  <2>2. Sent' = Sent /\ e \in Sent
    BY <1>2, <2>1, NothingSaid DEF Issues
  <2> HIDE DEF e
  <2> QED BY <1>1, <2>1, <2>2 DEF IssueAt, Issues
<1>3. CASE <<kind, path>> \notin issue_keys
  <2>1. Emit(t, e) /\ issue_keys' = issue_keys \cup {<<kind, path>>}
    BY <1>3 DEF EmitIssue
  <2>2. Sent' = Sent \cup {e}
    <3> HIDE DEF e, Event
    <3> QED BY <1>1, <2>1, EmitSays DEF Says
  <2>3. IssueAt(path)'
    <3> HIDE DEF e
    <3> QED BY <1>1, <2>2 DEF IssueAt
  <2>4. Issues'
    <3> SUFFICES ASSUME NEW k \in Kinds, NEW p \in Paths, <<k, p>> \in issue_keys'
                 PROVE  <<"issue", k, p>> \in Sent'
      BY DEF Issues
    <3>1. CASE <<k, p>> \in issue_keys
      BY <2>2, <3>1 DEF Issues
    <3>2. CASE <<k, p>> = <<kind, path>>
      <4>1. k = kind /\ p = path
        BY <3>2
      <4> QED BY <2>2, <4>1
    <3> QED BY <2>1, <3>1, <3>2
  <2> QED BY <2>3, <2>4
<1> QED BY <1>2, <1>3

LEMMA IssuesKept ==
  ASSUME Issues, UNCHANGED issue_keys, Sent \subseteq Sent'
  PROVE  Issues'
BY DEF Issues

(* While anybody walks the scan is not over, so that it is whole only if   *)
(* it is not cancelled.                                                    *)
LEMMA WalkingIsEarly ==
  ASSUME WalkInv, NEW t \in Threads, pc[t] \in Working \cup Walking \cup {"take", "chain"}
  PROVE  pc[Main] \notin Ending /\ <<"completed">> \notin Sent /\ (Whole => ~cancelled)
<1>1. Phases /\ WireOK /\ (pc[Main] # "done" => Quiet)
  BY DEF WalkInv, Shape, EndInv
<1>2. pc[Main] \notin Ending
  <2>1. CASE t = Main
    BY <2>1 DEF Ending, Working, Walking
  <2>2. CASE t \in Workers
    BY <1>1, <2>2 DEF Phases, Ending, Idle, Working, Walking
  <2> QED BY <2>1, <2>2, ThreadFacts
<1>3. <<"completed">> \notin Sent
  <2> DEFINE e == <<"completed">>
  <2>1. Ends(e)
    BY EventFacts
  <2>2. Quiet
    BY <1>1, <1>2 DEF Ending
  <2> HIDE DEF e, Threads
  <2>3. \A seq : ~Ended(seq) => e \notin EventsIn(seq)
    BY <2>1 DEF Ended, EventsIn
  <2>4. \A s \in Threads : ~Ended(buffer[s])
    BY <1>1, ReportsDoNotEnd DEF WireOK
  <2>5. e \notin Sent
    BY <2>2, <2>3, <2>4, SentIs DEF Quiet
  <2> QED BY <2>5 DEF e
<1> QED BY <1>2, <1>3 DEF Whole, Ending

-----------------------------------------------------------------------------
(* Every entry stays covered.                                              *)
Kept(p, e) == Left(p, e)' \/ IssueAt(p)' \/ Answered(Append(p, e))'

LEMMA HeardIsKept ==
  ASSUME Sent \subseteq Sent'
  PROVE  \A p : (IssueAt(p) => IssueAt(p)') /\ (Answered(p) => Answered(p)')
BY DEF IssueAt, Answered, Known

LEMMA CoverStep ==
  ASSUME Covered, Sent \subseteq Sent', UNCHANGED setup, pc[Main] # "start" \/ pc'[Main] = "start",
         \A p \in Paths, e \in Dirs \cup Files : <<p, e>> \in Expected /\ Left(p, e) => Kept(p, e),
         \A p \in Paths : <<"dir", p>> \in Sent' =>
           <<"dir", p>> \in Sent \/ \A e \in Dirs \cup Files : <<p, e>> \in Expected => Left(p, e)'
  PROVE  Covered'
<1>1. Expected' = Expected
  BY SetupKeeps
<1> HIDE DEF Paths, Expected, Main
<1>2. pc'[Main] # "start" => Answered(<<Root>>)'
  BY HeardIsKept DEF Covered
<1>3. ASSUME NEW p \in Paths, NEW e \in Dirs \cup Files, <<"dir", p>> \in Sent', <<p, e>> \in Expected
      PROVE  IssueAt(p)' \/ Answered(Append(p, e))' \/ Left(p, e)'
  <2>1. CASE <<"dir", p>> \in Sent
    <3>1. IssueAt(p) \/ Answered(Append(p, e)) \/ Left(p, e)
      BY <1>3, <2>1 DEF Covered
    <3> QED BY <1>3, <3>1, HeardIsKept DEF Kept
  <2>2. CASE <<"dir", p>> \notin Sent
    BY <1>3, <2>2
  <2> QED BY <2>1, <2>2
<1> QED BY <1>1, <1>2, <1>3 DEF Covered

(* A step of one thread at a directory, or of the scan thread that walks.  *)
LEMMA HoldersKeep ==
  ASSUME NEW t \in Threads, Frame(t), NEW p, NEW e
  PROVE  /\ \A s \in Threads \ {t} : Holds(s, p, e) => Holds(s, p, e)'
         /\ (\E i \in 1..Len(tasks) : tasks[i].path = p) => \E i \in 1..Len(tasks') : tasks'[i].path = p
         /\ t # Main /\ Entering => Entering' /\ dir'[Main] = dir[Main] /\ found'[Main] = found[Main]
<1> HIDE DEF Threads, Main
<1>1. \A s \in Threads \ {t} : Holds(s, p, e) => Holds(s, p, e)'
  BY DEF Frame, Holds, HasFound
<1>2. t # Main => Main \in Threads \ {t}
  BY ThreadFacts
<1> QED BY <1>1, <1>2 DEF Frame, Entering

LEMMA ProcessKept ==
  ASSUME Shape, NEW t \in Threads, Process(t), NEW p, NEW e, Left(p, e), Holds(t, p, e) => Kept(p, e)
  PROVE  Kept(p, e)
<1>1. /\ Frame(t) /\ callers' = callers /\ pc[t] \in Working
      /\ \A s \in Threads \ {t} : Holds(s, p, e) => Holds(s, p, e)'
      /\ (\E i \in 1..Len(tasks) : tasks[i].path = p) => \E i \in 1..Len(tasks') : tasks'[i].path = p
      /\ t # Main /\ Entering => Entering' /\ dir'[Main] = dir[Main] /\ found'[Main] = found[Main]
  BY ProcessFrame, HoldersKeep
<1>2. t = Main => ~Entering
  BY <1>1 DEF Entering, Working
<1> HIDE DEF Threads, Main, Holds, Entering
<1> QED BY <1>1, <1>2 DEF Left, Kept

LEMMA ProcessCovers ==
  ASSUME Covered, Sent \subseteq Sent', Shape, NEW t \in Threads, Process(t),
         \A p \in Paths, e \in Dirs \cup Files : <<p, e>> \in Expected /\ Holds(t, p, e) => Kept(p, e),
         \A p \in Paths : <<"dir", p>> \in Sent' =>
           <<"dir", p>> \in Sent \/ \A e \in Dirs \cup Files : <<p, e>> \in Expected => Holds(t, p, e)'
  PROVE  Covered'
<1>1. /\ UNCHANGED setup
      /\ pc[Main] # "start" \/ pc'[Main] = "start"
  <2>1. Frame(t) /\ pc[t] \in Working
    BY ProcessFrame
  <2> QED BY <2>1, ThreadFacts DEF Frame, Working
<1> HIDE DEF Paths, Expected, Threads, Main, Holds
<1>2. \A p \in Paths, e \in Dirs \cup Files : <<p, e>> \in Expected /\ Left(p, e) => Kept(p, e)
  BY ProcessKept
<1>3. \A p \in Paths, e \in Dirs \cup Files : Holds(t, p, e)' => Left(p, e)'
  BY DEF Left
<1> QED BY <1>1, <1>2, <1>3, CoverStep

(* What the steps at a directory start from.                               *)
Attended == Covered /\ Issues /\ WalkSound /\ OnceInv /\ Shape /\ alive /\ ~cancelled

(* Nothing that is left gets lost ...                                      *)
LEMMA ShedsCover ==
  ASSUME Attended, NEW t \in Threads, Process(t), Sheds(t), Silent(t), pc[t] # "open",
         todo[t] \subseteq todo'[t], HasFound(t) => HasFound(t)'
  PROVE  Covered'
<1>1. /\ Sent \subseteq Sent' /\ \A e \in Sent' : IsPath(e) => e \in Sent
      /\ pc[t] \in Working /\ pc'[t] \in Working
  BY SilentSays, ProcessFrame DEF Attended, Shape, Frame
<1>2. /\ pc[t] # "walk"
      /\ \A p : IsPath(<<"dir", p>>)
  BY <1>1 DEF Working, IsPath
<1> HIDE DEF Threads, Working, Paths, Expected
<1>3. \A p, e : Holds(t, p, e) => Holds(t, p, e)'
  BY <1>1, <1>2 DEF Holds, Sheds
<1> QED BY <1>1, <1>2, <1>3, ProcessCovers DEF Attended, Kept, Left

(* ... or it is excluded, or there is an issue about it.                   *)
LEMMA IssueCovers ==
  ASSUME Attended, NEW t \in Threads, Process(t), Silent(t),
         \A p \in Paths, e \in Dirs \cup Files : <<p, e>> \in Expected /\ Holds(t, p, e) => Kept(p, e)
  PROVE  Covered'
<1>1. /\ Sent \subseteq Sent' /\ \A e \in Sent' : IsPath(e) => e \in Sent
  BY SilentSays, ProcessFrame DEF Attended, Shape, Frame
<1>2. \A p : IsPath(<<"dir", p>>)
  BY DEF IsPath
<1> HIDE DEF Threads, Paths, Expected
<1> QED BY <1>1, <1>2, ProcessCovers DEF Attended

LEMMA SheddingCovers ==
  ASSUME Attended, NEW t \in Threads, Shedding(t)
  PROVE  Covered'
<1>1. /\ Process(t) /\ Sheds(t) /\ Silent(t) /\ WireOK /\ InHand(t) /\ dir[t] \in Task
      /\ pc \in [Threads -> Labels] /\ Fields /\ UNCHANGED received /\ HandSound(t)
      /\ pc[t] \in Working /\ pc'[t] \in Working
  <2>1. Process(t)
    BY DEF Shedding, Process
  <2>2. dir \in [Threads -> Task] /\ InHand(t) /\ HandSound(t) /\ Fields /\ pc \in [Threads -> Labels]
    BY TypesAre DEF Attended, Shape, Fields, Rest, OnceInv, Parts, WalkSound
  <2> QED BY <2>1, <2>2, SheddingStep, ProcessFrame DEF Attended, Shape, Frame
<1>2. dir[t].path \in Paths /\ \A e \in Dirs \cup Files : Append(dir[t].path, e) \in Paths
  BY <1>1, PathFacts DEF Task, Paths
<1>3. {"directory", "entry"} \subseteq Kinds
  BY DEF Kinds
<1>4. pc[t] # "walk"
  BY <1>1 DEF Working
<1> HIDE DEF Threads, Labels, Task, Paths, Event, Kinds, Expected, Working, Duties, Inside, Admitted
<1>5. ASSUME ReadFails(t) PROVE Covered'
  <2>0. PICK path \in Paths : path = dir[t].path
    BY <1>2
  <2>1. IssueAt(path)'
    BY <1>1, <1>3, <1>5, <2>0, IssueSays DEF ReadFails, Attended
  <2>2. pc[t] = "open" /\ \A i : i \notin 1..Len(fresh[t])
    <3>1. pc[t] = "open" /\ fresh[t] = <<>>
      BY <1>1, <1>5 DEF ReadFails, InHand
    <3> QED BY <3>1
  <2>3. \A p, e : Holds(t, p, e) => dir[t].path = p
    BY <2>2 DEF Holds
  <2> QED BY <1>1, <2>0, <2>1, <2>3, IssueCovers DEF Kept
<1>6. ASSUME NEW x \in Dirs \cup Files, EntryFails(t, x) PROVE Covered'
  <2>1. /\ todo'[t] = todo[t] \ {x} /\ pc[t] = "entries"
    BY <1>1, <1>6 DEF EntryFails, Entry, Fields
  <2>2. PICK path \in {Append(dir[t].path, x), dir[t].path} : EmitIssue(t, "entry", path)
    BY <1>6 DEF EntryFails
  <2>3. IssueAt(path)'
    <3>1. path \in Paths
      BY <1>2, <1>6
    <3> QED BY <1>1, <1>3, <2>2, <3>1, IssueSays DEF Attended
  <2>4. ASSUME NEW p, NEW e, Holds(t, p, e) PROVE Kept(p, e)
    <3>1. CASE dir[t].path = p /\ e = x
      BY <2>2, <2>3, <3>1 DEF Kept, Answered
    <3>2. CASE ~(dir[t].path = p /\ e = x)
      <4>1. Holds(t, p, e)'
        BY <1>1, <1>4, <2>1, <2>4, <3>2 DEF Holds, Sheds, HasFound
      <4> QED BY <4>1 DEF Kept, Left
    <3> QED BY <3>1, <3>2
  <2> QED BY <1>1, <2>4, IssueCovers
<1>7. ASSUME NEW x \in Dirs \cup Files, Exclude(t, x) PROVE Covered'
  <2>1. /\ todo'[t] = todo[t] \ {x} /\ pc[t] = "entries"
        /\ Append(dir[t].path, x) \in setup.excluded
    BY <1>1, <1>7 DEF Exclude, Entry, Allowed, Fields
  <2>2. ASSUME NEW p, NEW e, Holds(t, p, e), <<p, e>> \in Expected PROVE Kept(p, e)
    <3>1. ~(dir[t].path = p /\ e = x)
      BY <2>1, <2>2 DEF Expected
    <3>2. Holds(t, p, e)'
      BY <1>1, <1>4, <2>1, <2>2, <3>1 DEF Holds, Sheds, HasFound
    <3> QED BY <3>2 DEF Kept, Left
  <2> QED BY <1>1, <2>2, IssueCovers
<1>8. ASSUME LeaveLoop(t) \/ CycleIssue(t) \/ FilesEmitted(t) \/ EndDirectory(t)
      PROVE  Covered'
  <2>1. pc[t] \in {"entries", "cycle", "files", "end"}
    BY <1>8 DEF LeaveLoop, CycleIssue, FilesEmitted, EndDirectory
  <2>2. todo[t] \subseteq todo'[t]
    BY <1>1, <1>8 DEF LeaveLoop, CycleIssue, FilesEmitted, EndDirectory, local, place, Attended, Fields
  <2> QED BY <1>1, <2>1, <2>2, ShedsCover DEF HasFound
<1>9. ASSUME ClaimFile(t) \/ LoadItems(t) \/ Advance(t) \/ Report(t)
      PROVE  Covered'
  <2>1. /\ todo'[t] = todo[t] /\ pc[t] # "open"
    BY <1>1, <1>9 DEF ClaimFile, LoadItems, Advance, Report, local, place
  <2>2. HasFound(t) => HasFound(t)'
    <3>1. \/ /\ pc[t] \in {"files", "found", "end"} /\ pc'[t] = "emit" /\ ret'[t] = pc[t]
          \/ /\ pc[t] \in {"progress", "advance", "report"} /\ ret'[t] = ret[t]
             /\ pc'[t] \in {"advance", "report", ret[t]}
      BY <1>1, <1>9 DEF ClaimFile, LoadItems, Advance, Report, local, loop, Goto, Fields
    <3> QED BY <3>1 DEF HasFound
  <2> QED BY <1>1, <2>1, <2>2, ShedsCover
<1> QED BY <1>5, <1>6, <1>7, <1>8, <1>9 DEF Shedding

(* Entries that move on.                                                   *)
LEMMA EntriesCover ==
  ASSUME Attended, NEW t \in Threads,
         ReadDir(t) \/ (\E f \in Files : FileEntry(t, f)) \/ (\E d \in Dirs : FindDir(t, d))
  PROVE  Covered'
<1>1. Process(t)
  BY DEF Process
<1>2. /\ InHand(t) /\ pc \in [Threads -> Labels] /\ Fields
      /\ pc[t] \in Working /\ pc'[t] \in Working
  BY <1>1, TypesAre, ProcessFrame DEF Attended, Shape, Rest, OnceInv, Parts
<1>3. pc[t] # "walk"
  BY <1>2 DEF Working
<1> HIDE DEF Threads, Labels, Task, Paths, Event, Working, Expected
<1>4. CASE ReadDir(t)
  <2>1. /\ pc[t] = "open" /\ todo'[t] = Entries(dir[t].path)
        /\ UNCHANGED <<dir, fresh, pending, delivery>>
    BY <1>2, <1>4 DEF ReadDir, Fields, totals
  <2>2. ASSUME NEW p, NEW e, Holds(t, p, e), <<p, e>> \in Expected PROVE Kept(p, e)
    <3>1. Holds(t, p, e)'
      BY <1>2, <2>1, <2>2 DEF Holds, Expected
    <3> QED BY <3>1 DEF Kept, Left
  <2> QED BY <1>1, <2>1, <2>2, IssueCovers DEF Silent
<1>5. ASSUME NEW f \in Files, FileEntry(t, f) PROVE Covered'
  <2>1. /\ pc[t] = "entries" /\ todo'[t] = todo[t] \ {f} /\ pending'[t] = Append(pending[t], f)
        /\ pending[t] \in Seq(Files) /\ UNCHANGED <<dir, fresh, found, delivery>>
    BY <1>2, <1>5 DEF FileEntry, Entry, Fields
  <2>2. /\ \A i \in 1..Len(pending[t]) : i \in 1..Len(pending'[t]) /\ pending'[t][i] = pending[t][i]
        /\ \E i \in 1..Len(pending'[t]) : pending'[t][i] = f
    <3> DEFINE n == Len(pending[t]) + 1
    <3>1. n \in 1..Len(pending'[t]) /\ pending'[t][n] = f
      BY <2>1
    <3> HIDE DEF n
    <3> QED BY <2>1, <3>1
  <2>3. ~HasFound(t)
    BY <2>1 DEF HasFound
  <2>4. ASSUME NEW p, NEW e, Holds(t, p, e) PROVE Kept(p, e)
    <3>1. Holds(t, p, e)'
      BY <1>2, <1>3, <2>1, <2>2, <2>3, <2>4 DEF Holds
    <3> QED BY <3>1 DEF Kept, Left
  <2> QED BY <1>1, <2>1, <2>4, IssueCovers DEF Silent
<1>6. ASSUME NEW d \in Dirs, FindDir(t, d) PROVE Covered'
  <2>1. /\ pc[t] = "entries" /\ pc'[t] = "found" /\ todo'[t] = todo[t] \ {d} /\ found'[t] = d
        /\ UNCHANGED <<dir, fresh, pending, delivery>>
    BY <1>2, <1>6 DEF FindDir, Entry, Fields, totals, Goto
  <2>2. ~HasFound(t) /\ HasFound(t)'
    BY <2>1 DEF HasFound
  <2>3. ASSUME NEW p, NEW e, Holds(t, p, e) PROVE Kept(p, e)
    <3>1. Holds(t, p, e)'
      BY <1>2, <1>3, <2>1, <2>2, <2>3 DEF Holds
    <3> QED BY <3>1 DEF Kept, Left
  <2> QED BY <1>1, <2>1, <2>3, IssueCovers DEF Silent
<1> QED BY <1>4, <1>5, <1>6

-----------------------------------------------------------------------------
(* The steps that report a path, which nobody has reported before.         *)

LEMMA KnownIsReported == \A q : Known(q) <=> Reported(q)
<1>1. \A seq, q : q \in PathsIn(seq) <=> \E e \in EventsIn(seq) : IsPath(e) /\ e[2] = q
  <2> SUFFICES ASSUME NEW seq, NEW q
               PROVE  q \in PathsIn(seq) <=> \E e \in EventsIn(seq) : IsPath(e) /\ e[2] = q
    OBVIOUS
  <2>1. q \in PathsIn(seq) <=> \E i \in 1..Len(seq) : IsPath(seq[i]) /\ q = seq[i][2]
    BY Zenon DEF PathsIn
  <2>2. \A e : e \in EventsIn(seq) <=> \E i \in 1..Len(seq) : e = seq[i]
    BY Zenon DEF EventsIn
  <2> QED BY Zenon, <2>1, <2>2
<1> HIDE DEF Threads
<1> SUFFICES ASSUME NEW q PROVE Known(q) <=> Reported(q)
  OBVIOUS
<1> DEFINE At(e) == IsPath(e) /\ e[2] = q
<1>2. Known(q) <=> \E e : e \in Sent /\ At(e)
  BY DEF Known
<1>3. /\ q \in PathsIn(received) <=> \E e \in EventsIn(received) : At(e)
      /\ \A k : q \in PathsIn(channel[k]) <=> \E e \in EventsIn(channel[k]) : At(e)
      /\ \A t : q \in PathsIn(buffer[t]) <=> \E e \in EventsIn(buffer[t]) : At(e)
  BY <1>1
<1> HIDE DEF At
<1>4. Reported(q) <=> \/ q \in PathsIn(received)
                      \/ \E k \in 1..Len(channel) : q \in PathsIn(channel[k])
                      \/ \E t \in Threads : q \in PathsIn(buffer[t])
  BY DEF Reported
<1> QED BY Zenon, <1>2, <1>3, <1>4, SentIs

(* What may still be reported has not been.                                *)
LEMMA MayIsNew ==
  ASSUME OnceInv, NEW t \in Threads, NEW p \in Paths, NEW e \in Dirs \cup Files,
         \/ pc[t] \in Working /\ HasFound(t) /\ e = found[t] /\ p = dir[t].path
         \/ pc[t] \in Working /\ p = dir[t].path /\ \E i \in 1..Len(pending[t]) : e = pending[t][i]
         \/ t = Main /\ pc[t] \in Walking /\ p = dir[t].path /\ e \in todo[t]
  PROVE  Append(p, e) \in Paths /\ ~Known(Append(p, e))
<1> DEFINE here == Append(p, e)
<1>1. here \in Paths /\ By(here, p, e)
  BY BelowFacts
<1> HIDE DEF here, Threads, Main, Paths, Working, Walking
<1>2. May(t, here)
  BY <1>1 DEF May, MayProcess, MayWalk
<1>3. ~Reported(here)
  BY <1>1, <1>2, SMTT(60) DEF OnceInv, Territories
<1> QED BY <1>1, <1>3, KnownIsReported DEF here

LEMMA DirEntryFacts ==
  ASSUME WalkSound, Shape, OnceInv, NEW t \in Threads, DirEntry(t)
  PROVE  \E here \in Paths, e \in Event :
           /\ e = <<"dir", here>> /\ e[1] = "dir" /\ e[2] = here /\ IsPath(e) /\ Says({e}) /\ ~Known(here)
           /\ Process(t) /\ here = Append(dir[t].path, found[t])
           /\ pc[t] = "found" /\ pc'[t] \in {"cycle", "entries"} /\ directories_seen' = directories_seen + 1
           /\ UNCHANGED <<dir, todo, pending, ret, totals, files_seen, total_allocation, keys>>
           /\ \A i \in 1..Len(fresh[t]) : i \in 1..Len(fresh'[t]) /\ fresh'[t][i] = fresh[t][i]
           /\ ToEnter(here) => \E i \in 1..Len(fresh'[t]) : fresh'[t][i].path = here
<1> DEFINE p == dir[t].path
           d == found[t]
           child == Child(dir[t], d)
<1>1. /\ Process(t) /\ pc \in [Threads -> Labels] /\ Fields /\ setup \in Setup /\ HandSound(t) /\ WireOK
  BY TypesAre DEF Shape, Rest, WalkSound, Process
<1>2. /\ pc[t] = "found" /\ HasFound(t) /\ dir[t] \in Duties /\ dir[t] \in Task /\ d \in Dirs /\ d \in Dirs \cup Files
      /\ pc[t] \in Working
  BY <1>1 DEF DirEntry, HasFound, HandSound, Fields, Working, Duties
<1>3. PICK here \in Paths : here = Append(p, d) /\ ~Known(here)
  BY <1>2, MayIsNew, PathFacts DEF Paths, Task
<1>4. PICK e \in Event : e = <<"dir", here>>
  BY EventFacts
<1>5. e[1] = "dir" /\ e[2] = here /\ IsPath(e)
  BY <1>4 DEF IsPath
<1>6. /\ evaluate_reparse_descent(dir[t], d) = "Follow" <=> ToEnter(here)
      /\ evaluate_reparse_descent(dir[t], d) = "Follow" => child \in Duties
      /\ child.path = here
  BY <1>1, <1>2, <1>3, ChildIsDue DEF Child
<1>7. child \in Duties => child \in Task
  BY DEF Duties
<1> HIDE DEF Threads, Main, Labels, Task, Duties, Paths, Event, child, d, p
<1>8. /\ pc'[t] \in {"cycle", "entries"} /\ directories_seen' = directories_seen + 1
      /\ \/ fresh'[t] = fresh[t] /\ evaluate_reparse_descent(dir[t], d) # "Follow"
         \/ fresh'[t] = Append(fresh[t], child) /\ evaluate_reparse_descent(dir[t], d) = "Follow"
      /\ Emit(t, e) /\ fresh[t] \in Seq(Task)
      /\ UNCHANGED <<dir, todo, pending, ret, totals, files_seen, total_allocation, keys, received>>
  BY <1>1, <1>3, <1>4 DEF DirEntry, Goto, Fields, totals, loop, consumer, child, d, p
<1>9. Says({e})
  BY <1>1, <1>8, EmitSays
<1>10. ASSUME evaluate_reparse_descent(dir[t], d) = "Follow", fresh'[t] = Append(fresh[t], child)
       PROVE  /\ \A i \in 1..Len(fresh[t]) : i \in 1..Len(fresh'[t]) /\ fresh'[t][i] = fresh[t][i]
              /\ \E i \in 1..Len(fresh'[t]) : fresh'[t][i].path = here
  <2> DEFINE n == Len(fresh[t]) + 1
  <2>1. n \in 1..Len(fresh'[t]) /\ fresh'[t][n] = child
    BY <1>6, <1>7, <1>8, <1>10
  <2> HIDE DEF n
  <2> QED BY <1>6, <1>7, <1>8, <1>10, <2>1
<1>11. /\ \A i \in 1..Len(fresh[t]) : i \in 1..Len(fresh'[t]) /\ fresh'[t][i] = fresh[t][i]
       /\ ToEnter(here) => \E i \in 1..Len(fresh'[t]) : fresh'[t][i].path = here
  BY <1>6, <1>8, <1>10
<1>12. here = Append(dir[t].path, found[t])
  BY <1>3 DEF d, p
<1> QED BY <1>1, <1>2, <1>3, <1>4, <1>5, <1>8, <1>9, <1>11, <1>12

LEMMA EmitFileFacts ==
  ASSUME Shape, OnceInv, NEW t \in Threads, EmitFile(t)
  PROVE  \E here \in Paths, f \in Files, e \in Event :
           /\ e = <<"file", here, charge[t]>> /\ e[1] = "file" /\ e[2] = here /\ e[3] = charge[t]
           /\ IsPath(e) /\ Says({e}) /\ ~Known(here)
           /\ Process(t) /\ here = Append(dir[t].path, f) /\ f = Head(pending[t]) /\ FileOf(e) = f
           /\ pc[t] = "emit" /\ pc'[t] \in {"progress", ret[t]}
           /\ UNCHANGED <<dir, todo, fresh, found, ret, directories_seen, keys>>
           /\ \A i \in 1..Len(pending[t]) : pending[t][i] = f \/ \E k \in 1..Len(pending'[t]) : pending'[t][k] = pending[t][i]
<1> DEFINE p == dir[t].path
           n == Len(pending[t])
<1>1. /\ Process(t) /\ pc \in [Threads -> Labels] /\ Fields /\ WireOK
      /\ pc[t] = "emit" /\ pending[t] # <<>> /\ pending[t] \in Seq(Files) /\ charge[t] \in Nat
      /\ dir[t] \in Task /\ pc[t] \in Working
  BY TypesAre DEF Shape, Rest, Held, EmitFile, Process, Fields, Working
<1>2. PICK f \in Files : f = Head(pending[t])
  BY <1>1
<1>3. /\ 1 \in 1..n /\ pending[t][1] = f /\ f \in Dirs \cup Files
      /\ \A i \in 1..n : i = 1 \/ \E k \in 1..Len(Tail(pending[t])) : Tail(pending[t])[k] = pending[t][i]
  <2>1. 1 \in 1..n /\ pending[t][1] = f /\ f \in Dirs \cup Files
    BY <1>1, <1>2
  <2>2. ASSUME NEW i \in 1..n, i # 1
        PROVE  \E k \in 1..Len(Tail(pending[t])) : Tail(pending[t])[k] = pending[t][i]
    <3> DEFINE k == i - 1
    <3>1. k \in 1..Len(Tail(pending[t])) /\ Tail(pending[t])[k] = pending[t][k + 1] /\ k + 1 = i
      BY <1>1, <2>2
    <3> HIDE DEF k
    <3> QED BY <3>1
  <2> QED BY <2>1, <2>2
<1>4. PICK here \in Paths : here = Append(p, f) /\ ~Known(here)
  BY <1>1, <1>3, MayIsNew, PathFacts DEF Paths, Task
<1>5. Last(here) = f
  <2>1. p \in Paths
    BY <1>1 DEF Task, Paths
  <2> QED BY <1>3, <1>4, <2>1 DEF Last, Paths
<1>6. PICK e \in Event : e = <<"file", here, charge[t]>>
  BY <1>1, EventFacts
<1>7. e[1] = "file" /\ e[2] = here /\ e[3] = charge[t] /\ IsPath(e) /\ FileOf(e) = f
  BY <1>5, <1>6 DEF IsPath, FileOf
<1> HIDE DEF Threads, Main, Labels, Task, Paths, Event, p
<1>8. /\ pc'[t] \in {"progress", ret[t]} /\ pending'[t] = Tail(pending[t]) /\ Emit(t, e)
      /\ UNCHANGED <<dir, todo, fresh, found, ret, directories_seen, keys, received>>
  BY <1>1, <1>2, <1>4, <1>6 DEF EmitFile, Goto, Fields, place, loop, consumer, p
<1>9. Says({e})
  BY <1>1, <1>8, EmitSays
<1>10. \A i \in 1..n : pending[t][i] = f \/ \E k \in 1..Len(pending'[t]) : pending'[t][k] = pending[t][i]
  BY <1>3, <1>8
<1>11. here = Append(dir[t].path, f)
  BY <1>4 DEF p
<1> QED BY <1>1, <1>2, <1>4, <1>6, <1>7, <1>8, <1>9, <1>10, <1>11

LEMMA WalkFileFacts ==
  ASSUME WalkSound, Shape, OnceInv, NEW f \in Files, WalkFile(f)
  PROVE  \E here \in Paths, e \in Event :
           /\ e = <<"file", here, ChargeOf(f)>> /\ e[1] = "file" /\ e[2] = here /\ e[3] = ChargeOf(f)
           /\ IsPath(e) /\ Says({e}) /\ ~Known(here) /\ FileOf(e) = f
           /\ Walk /\ here = Append(dir[Main].path, f)
           /\ pc[Main] = "walking" /\ pc'[Main] = "counted" /\ found[Main] = Root
           /\ todo'[Main] = todo[Main] \ {f} /\ UNCHANGED <<dir, found, callers, directories_seen, issue_keys>>
           /\ files_seen' = files_seen + 1 /\ total_allocation' = total_allocation + ChargeOf(f) /\ Claim(f)
<1>1. /\ Walk /\ Main \in Threads /\ f \in Dirs \cup Files /\ Calls /\ WireOK
  BY WalkFrame DEF Walk, OnceInv, Parts, Shape
<1> HIDE DEF Threads, Main, Labels, Task, Paths, Event
<1>2. /\ pc[Main] = "walking" /\ f \in todo[Main] /\ todo'[Main] = todo[Main] \ {f}
      /\ pc'[Main] = "counted" /\ UNCHANGED <<dir, found, callers, received, directories_seen, issue_keys>>
      /\ files_seen' = files_seen + 1 /\ total_allocation' = total_allocation + ChargeOf(f) /\ Claim(f)
      /\ dir[Main].path \in Paths /\ dir[Main] \in Task
      /\ Emit(Main, <<"file", Append(dir[Main].path, f), ChargeOf(f)>>)
  BY CallTypes DEF WalkFile, WalkEntry, Goto, Fields, consumer
<1>3. pc[Main] \in Walking /\ found[Main] = Root
  BY <1>1, <1>2 DEF Walking, Calls
<1>4. PICK p \in Paths : p = dir[Main].path
  BY <1>2
<1>5. PICK here \in Paths : here = Append(p, f) /\ ~Known(here)
  BY <1>1, <1>2, <1>3, <1>4, MayIsNew
<1>6. Last(here) = f
  BY <1>1, <1>5 DEF Last, Paths
<1>7. PICK n \in Nat : n = ChargeOf(f)
  BY DEF ChargeOf
<1>8. PICK e \in Event : e = <<"file", here, n>>
  BY EventFacts
<1>9. e[1] = "file" /\ e[2] = here /\ e[3] = n /\ IsPath(e) /\ FileOf(e) = f
  BY <1>6, <1>8 DEF IsPath, FileOf
<1>10. Emit(Main, e)
  BY <1>2, <1>4, <1>5, <1>7, <1>8
<1>11. Says({e})
  BY <1>1, <1>2, <1>10, EmitSays
<1> QED BY <1>1, <1>2, <1>3, <1>4, <1>5, <1>7, <1>8, <1>9, <1>11

LEMMA WalkDirFacts ==
  ASSUME WalkSound, Shape, OnceInv, NEW d \in Dirs, WalkDir(d)
  PROVE  \E here \in Paths, e \in Event :
           /\ e = <<"dir", here>> /\ e[1] = "dir" /\ e[2] = here
           /\ IsPath(e) /\ Says({e}) /\ ~Known(here)
           /\ Walk /\ here = Append(dir[Main].path, d) /\ d # Root
           /\ pc[Main] = "walking" /\ pc'[Main] = "counted" /\ found'[Main] = d
           /\ todo'[Main] = todo[Main] \ {d} /\ UNCHANGED <<dir, callers, files_seen, total_allocation, keys>>
           /\ directories_seen' = directories_seen + 1
<1>1. /\ Walk /\ Main \in Threads /\ d \in Dirs \cup Files /\ WireOK /\ HandSound(Main)
  BY WalkFrame DEF Walk, Shape, WalkSound
<1> HIDE DEF Threads, Main, Labels, Task, Paths, Event
<1>2. /\ pc[Main] = "walking" /\ d \in todo[Main] /\ todo'[Main] = todo[Main] \ {d}
      /\ pc'[Main] = "counted" /\ found'[Main] = d
      /\ UNCHANGED <<dir, callers, received, files_seen, total_allocation, keys>>
      /\ directories_seen' = directories_seen + 1
      /\ dir[Main].path \in Paths
      /\ Emit(Main, <<"dir", Append(dir[Main].path, d)>>)
  BY CallTypes DEF WalkDir, WalkEntry, Goto, Fields, consumer
<1>3. pc[Main] \in Walking
  BY <1>2 DEF Walking
<1>4. PICK p \in Paths : p = dir[Main].path
  BY <1>2
<1>5. PICK here \in Paths : here = Append(p, d) /\ ~Known(here)
  BY <1>1, <1>2, <1>3, <1>4, MayIsNew
<1>6. d # Root
  <2>1. d \in Entries(dir[Main].path)
    BY <1>1, <1>2 DEF HandSound, Inside
  <2>2. d \in DOMAIN Parent /\ DOMAIN Parent = (Dirs \ {Root}) \cup Files /\ Dirs \cap Files = {}
    BY <2>1, WalkAssumption DEF Entries
  <2> QED BY <2>2
<1>8. PICK e \in Event : e = <<"dir", here>>
  BY EventFacts
<1>9. e[1] = "dir" /\ e[2] = here /\ IsPath(e)
  BY <1>8 DEF IsPath
<1>10. Emit(Main, e)
  BY <1>2, <1>4, <1>5, <1>8
<1>11. Says({e})
  BY <1>1, <1>2, <1>10, EmitSays
<1> QED BY <1>1, <1>2, <1>4, <1>5, <1>6, <1>8, <1>9, <1>11

-----------------------------------------------------------------------------
(* They cover what they report, and a directory is in hand when it is.     *)

LEMMA DirEntryCovers ==
  ASSUME Attended, NEW t \in Threads, DirEntry(t)
  PROVE  Covered'
<1>1. PICK here \in Paths, e \in Event :
        /\ e = <<"dir", here>> /\ e[1] = "dir" /\ e[2] = here /\ IsPath(e) /\ Says({e})
        /\ Process(t) /\ here = Append(dir[t].path, found[t])
        /\ pc[t] = "found" /\ UNCHANGED <<dir, todo, pending>>
        /\ \A i \in 1..Len(fresh[t]) : i \in 1..Len(fresh'[t]) /\ fresh'[t][i] = fresh[t][i]
        /\ ToEnter(here) => \E i \in 1..Len(fresh'[t]) : fresh'[t][i].path = here
  BY DirEntryFacts, ZenonT(60) DEF Attended, totals
<1>2. Sent' = Sent \cup {e} /\ pc'[t] \in Working
  BY <1>1, ProcessFrame DEF Says, Attended
<1> HIDE DEF Threads, Paths, Event, Expected, Working
<1>3. Answered(here)'
  BY <1>1, <1>2 DEF Answered, Known
<1>4. ASSUME NEW p, NEW x, Holds(t, p, x) PROVE Kept(p, x)
  <2>1. CASE p = dir[t].path /\ x = found[t]
    BY <1>1, <1>3, <2>1 DEF Kept
  <2>2. CASE ~(p = dir[t].path /\ x = found[t])
    <3>1. Holds(t, p, x)'
      BY <1>1, <1>2, <1>4, <2>2 DEF Holds
    <3> QED BY <3>1 DEF Kept, Left
  <2> QED BY <2>1, <2>2
<1>5. ASSUME NEW p \in Paths, <<"dir", p>> \in Sent', <<"dir", p>> \notin Sent, NEW x, <<p, x>> \in Expected
      PROVE  Holds(t, p, x)'
  <2>1. <<"dir", p>> = <<"dir", here>>
    BY <1>1, <1>2, <1>5
  <2>2. p = here
    BY <2>1
  <2>3. ToEnter(here)
    BY <1>5, <2>2 DEF Expected
  <2> QED BY <1>1, <1>2, <2>2, <2>3 DEF Holds
<1> QED BY <1>1, <1>2, <1>4, <1>5, ProcessCovers DEF Attended

LEMMA EmitFileCovers ==
  ASSUME Attended, NEW t \in Threads, EmitFile(t)
  PROVE  Covered'
<1> HIDE DEF Threads, Paths, Event
<1>0. Shape /\ OnceInv
  BY DEF Attended
<1>1. PICK here \in Paths, f \in Files, e \in Event :
        /\ e = <<"file", here, charge[t]>> /\ e[1] = "file" /\ e[2] = here /\ e[3] = charge[t]
        /\ IsPath(e) /\ Says({e}) /\ ~Known(here)
        /\ Process(t) /\ here = Append(dir[t].path, f) /\ f = Head(pending[t]) /\ FileOf(e) = f
        /\ pc[t] = "emit" /\ pc'[t] \in {"progress", ret[t]}
        /\ UNCHANGED <<dir, todo, fresh, found, ret, directories_seen, keys>>
        /\ \A i \in 1..Len(pending[t]) : pending[t][i] = f \/ \E k \in 1..Len(pending'[t]) : pending'[t][k] = pending[t][i]
  BY <1>0, EmitFileFacts
<1>2. Sent' = Sent \cup {e} /\ pc'[t] \in Working
  BY <1>1, ProcessFrame DEF Says, Attended
<1>3. HasFound(t) => HasFound(t)'
  BY <1>1 DEF HasFound
<1> HIDE DEF Expected, Working
<1>4. Answered(here)'
  BY <1>1, <1>2 DEF Answered, Known
<1>5. ASSUME NEW p, NEW x, Holds(t, p, x) PROVE Kept(p, x)
  <2>1. CASE p = dir[t].path /\ x = f
    BY <1>1, <1>4, <2>1 DEF Kept
  <2>2. CASE ~(p = dir[t].path /\ x = f)
    <3>1. Holds(t, p, x)'
      BY <1>1, <1>2, <1>3, <1>5, <2>2 DEF Holds
    <3> QED BY <3>1 DEF Kept, Left
  <2> QED BY <2>1, <2>2
<1>6. ASSUME NEW p, <<"dir", p>> \in Sent' PROVE <<"dir", p>> \in Sent
  <2>1. <<"dir", p>>[1] = "dir"
    OBVIOUS
  <2> QED BY <1>1, <1>2, <1>6, <2>1
<1> QED BY <1>1, <1>2, <1>5, <1>6, ProcessCovers DEF Attended

LEMMA ProcessStepCovers ==
  ASSUME Attended, NEW t \in Threads, Process(t)
  PROVE  Covered'
BY SheddingCovers, EntriesCover, DirEntryCovers, EmitFileCovers DEF Process, Shedding

(* What the scan thread that walks alone leaves: in its own hands, or with *)
(* the calls above.                                                        *)
Called(p, e) == \E i \in 1..Len(callers) : callers[i].task.path = p /\ e \in callers[i].todo
Entered(p) == Entering /\ p = Append(dir[Main].path, found[Main])

LEMMA WalkCovers ==
  ASSUME Attended, Walk, Sent \subseteq Sent',
         \A p \in Paths, e \in Dirs \cup Files :
           <<p, e>> \in Expected /\ (Holds(Main, p, e) \/ Called(p, e) \/ Entered(p)) => Kept(p, e),
         \A p \in Paths : <<"dir", p>> \in Sent' => <<"dir", p>> \in Sent \/ Entered(p)'
  PROVE  Covered'
<1>1. /\ Frame(Main) /\ UNCHANGED setup /\ pc[Main] # "start" /\ Main \in Threads
  BY WalkFrame DEF Frame, Walking, Attended
<1>2. \A p, e : /\ \A s \in Threads \ {Main} : Holds(s, p, e) => Holds(s, p, e)'
                /\ (\E i \in 1..Len(tasks) : tasks[i].path = p) => \E i \in 1..Len(tasks') : tasks'[i].path = p
  BY <1>1, HoldersKeep
<1> HIDE DEF Paths, Expected, Threads, Main, Holds, Entering
<1>3. \A p \in Paths, e \in Dirs \cup Files : <<p, e>> \in Expected /\ Left(p, e) => Kept(p, e)
  BY <1>2 DEF Left, Kept, Called, Entered
<1>4. \A p, e : Entered(p)' => Left(p, e)'
  BY DEF Left, Entered
<1> QED BY <1>1, <1>3, <1>4, CoverStep DEF Attended

LEMMA WalkSilentCovers ==
  ASSUME Attended, Walk, Silent(Main),
         \A p \in Paths, e \in Dirs \cup Files :
           <<p, e>> \in Expected /\ (Holds(Main, p, e) \/ Called(p, e) \/ Entered(p)) => Kept(p, e)
  PROVE  Covered'
<1>1. /\ Sent \subseteq Sent' /\ \A e \in Sent' : IsPath(e) => e \in Sent
  BY SilentSays, WalkFrame, ThreadFacts DEF Attended, Shape, Frame
<1>2. \A p : IsPath(<<"dir", p>>)
  BY DEF IsPath
<1> HIDE DEF Threads, Paths, Expected, Main
<1> QED BY <1>1, <1>2, WalkCovers

(* What a walking thread holds is only what is at its directory.           *)
LEMMA WalkHolds ==
  ASSUME Shape, OnceInv, pc[Main] \in Walking
  PROVE  \A p, e : Holds(Main, p, e) <=> dir[Main].path = p /\ (pc[Main] = "walk" \/ e \in todo[Main])
<1>1. pc[Main] \notin Working /\ ~HasFound(Main) /\ \A i : i \notin 1..Len(pending[Main])
  <2>1. pending[Main] = <<>>
    BY ThreadFacts DEF OnceInv, Parts, InHand, Carries, Walking
  <2> QED BY <2>1 DEF Working, Walking, HasFound
<1>2. pc[Main] # "open"
  BY DEF Walking
<1> QED BY <1>1, <1>2 DEF Holds

LEMMA WalkPassesCover ==
  ASSUME Attended, WalkPasses
  PROVE  Covered'
<1>1. /\ Walk /\ WalkSheds /\ Silent(Main) /\ Main \in Threads /\ WireOK /\ UNCHANGED received
      /\ pc[Main] \in Walking /\ pc'[Main] \in Walking /\ HandSound(Main)
  <2>1. Walk
    BY DEF Walk, WalkPasses
  <2> QED BY <2>1, WalkFrame, WalkSheddingStep DEF Attended, Shape, Frame, WalkSound
<1>2. /\ dir[Main] \in Task /\ found[Main] \in Dirs /\ setup \in Setup /\ dir[Main].path \in Paths
      /\ Fields /\ pc \in [Threads -> Labels]
      /\ \A e \in Dirs \cup Files : Append(dir[Main].path, e) \in Paths
  BY CallTypes, PathFacts DEF Attended
<1>3. /\ \A p, e : Holds(Main, p, e) <=> dir[Main].path = p /\ (pc[Main] = "walk" \/ e \in todo[Main])
  BY <1>1, WalkHolds DEF Attended
<1>4. \A p, e : dir'[Main].path = p /\ e \in todo'[Main] => Holds(Main, p, e)'
  BY DEF Holds
<1>5. "entry" \in Kinds
  BY DEF Kinds
<1> HIDE DEF Threads, Main, Labels, Task, Paths, Event, Kinds, Expected, Duties, Inside, Admitted, Holds
<1>6. \A p, e : Called(p, e) => Kept(p, e)
  BY <1>1 DEF Called, Kept, Left, WalkSheds
<1>7. ASSUME NEW x \in Dirs \cup Files, WalkEntryFails(x) \/ WalkExclude(x) PROVE Covered'
  <2>1. /\ pc[Main] = "walking" /\ todo'[Main] = todo[Main] \ {x} /\ dir' = dir /\ ~Entering
    <3>1. pc[Main] = "walking" /\ todo'[Main] = todo[Main] \ {x} /\ dir' = dir
      BY <1>1, <1>2, <1>7 DEF WalkEntryFails, WalkExclude, WalkEntry, Fields
    <3> QED BY <3>1 DEF Entering
  <2>2. \/ \E path \in {Append(dir[Main].path, x), dir[Main].path} : IssueAt(path)'
        \/ Append(dir[Main].path, x) \in setup.excluded
    <3>1. CASE WalkExclude(x)
      BY <3>1 DEF WalkExclude, Allowed
    <3>2. CASE WalkEntryFails(x)
      <4>1. PICK path \in {Append(dir[Main].path, x), dir[Main].path} : EmitIssue(Main, "entry", path)
        BY <3>2 DEF WalkEntryFails
      <4>2. path \in Paths
        BY <1>2, <4>1
      <4>3. IssueAt(path)'
        BY <1>1, <1>5, <4>1, <4>2, IssueSays DEF Attended
      <4>4. path \in {Append(dir'[Main].path, x), dir'[Main].path}
        BY <2>1, <4>1
      <4> QED BY <4>3, <4>4, <2>1
    <3> QED BY <1>7, <3>1, <3>2
  <2>3. ASSUME NEW p, NEW e, <<p, e>> \in Expected, Holds(Main, p, e) PROVE Kept(p, e)
    <3>1. dir[Main].path = p /\ e \in todo[Main]
      BY <1>3, <2>1, <2>3
    <3>2. CASE e = x
      <4>1. Append(p, e) \notin setup.excluded
        BY <2>3 DEF Expected
      <4> QED BY <2>1, <2>2, <3>1, <3>2, <4>1 DEF Kept, Answered
    <3>3. CASE e # x
      BY <1>1, <1>4, <2>1, <3>1, <3>3 DEF Kept, Left
    <3> QED BY <3>2, <3>3
  <2> QED BY <1>1, <1>6, <2>1, <2>3, WalkSilentCovers DEF Entered
<1>8. CASE WalkProgress
  <2>1. /\ pc[Main] = "counted" /\ UNCHANGED <<dir, found, todo>>
        /\ \/ found[Main] = Root
           \/ pc'[Main] = "descend" /\ found[Main] # Root
    BY <1>1, <1>2, <1>8 DEF WalkProgress, Goto, local, place
  <2>2. Entering => Entering'
    BY <2>1 DEF Entering
  <2>3. \A p, e : Entered(p) => Kept(p, e)
    BY <2>1, <2>2 DEF Entered, Kept, Left
  <2>4. \A p, e : Holds(Main, p, e) => Kept(p, e)
    BY <1>1, <1>3, <1>4, <2>1 DEF Kept, Left
  <2> QED BY <1>1, <1>6, <2>3, <2>4, WalkSilentCovers
<1>9. CASE WalkPassBy
  <2>1. /\ pc[Main] = "descend" /\ UNCHANGED <<dir, todo>>
        /\ evaluate_reparse_descent(dir[Main], found[Main]) # "Follow"
    BY <1>9 DEF WalkPassBy
  <2>2. ~ToEnter(Append(dir[Main].path, found[Main]))
    BY <1>1, <1>2, <2>1, ChildIsDue DEF HandSound
  <2>3. \A p, e : <<p, e>> \in Expected => ~Entered(p)
    BY <2>2 DEF Entered, Expected
  <2>4. \A p, e : Holds(Main, p, e) => Kept(p, e)
    BY <1>1, <1>3, <1>4, <2>1 DEF Kept, Left
  <2> QED BY <1>1, <1>6, <2>3, <2>4, WalkSilentCovers
<1> QED BY <1>7, <1>8, <1>9 DEF WalkPasses

LEMMA WalkReadDirCovers ==
  ASSUME Attended, WalkReadDir
  PROVE  Covered'
<1>1. /\ Walk /\ Main \in Threads /\ pc[Main] \in Walking
  BY WalkFrame DEF Walk, Attended
<1>2. \A p, e : Holds(Main, p, e) <=> dir[Main].path = p /\ (pc[Main] = "walk" \/ e \in todo[Main])
  BY <1>1, WalkHolds DEF Attended
<1>3. \A p, e : dir'[Main].path = p /\ e \in todo'[Main] => Holds(Main, p, e)'
  BY DEF Holds
<1> HIDE DEF Threads, Main, Labels, Task, Paths, Expected, Holds
<1>4. /\ pc[Main] = "walk" /\ todo'[Main] = Entries(dir[Main].path) /\ UNCHANGED <<dir, callers, delivery>>
  BY <1>1, CallTypes DEF WalkReadDir, Fields, Attended
<1>5. ~Entering
  BY <1>4 DEF Entering
<1>6. \A p, e : <<p, e>> \in Expected /\ Holds(Main, p, e) => Kept(p, e)
  BY <1>1, <1>2, <1>3, <1>4 DEF Expected, Kept, Left
<1>7. \A p, e : Called(p, e) => Kept(p, e)
  BY <1>4 DEF Called, Kept, Left
<1>8. Silent(Main)
  BY <1>4 DEF Silent
<1> QED BY <1>1, <1>5, <1>6, <1>7, <1>8, WalkSilentCovers DEF Entered

LEMMA ReturnCovers ==
  ASSUME Attended, WalkReadFails \/ WalkReturn
  PROVE  Covered'
<1>1. /\ Walk /\ Silent(Main) /\ Main \in Threads /\ ~Entering
      /\ \/ callers = <<>>
         \/ \E n \in 1..Len(callers) :
              /\ dir'[Main] = callers[n].task /\ todo'[Main] = callers[n].todo
              /\ \A i \in 1..Len(callers') : i \in 1..n /\ callers'[i] = callers[i]
              /\ \A i \in 1..n : i # n => i \in 1..Len(callers')
              /\ n = Len(callers)
  BY ReturnFacts DEF Attended
<1>2. /\ pc[Main] \in Walking /\ WireOK /\ UNCHANGED received /\ dir[Main].path \in Paths
  BY <1>1, WalkFrame, CallTypes DEF Attended, Shape, Frame
<1>3. \A p, e : Holds(Main, p, e) <=> dir[Main].path = p /\ (pc[Main] = "walk" \/ e \in todo[Main])
  BY <1>2, WalkHolds DEF Attended
<1>4. \A p, e : dir'[Main].path = p /\ e \in todo'[Main] => Holds(Main, p, e)'
  BY DEF Holds
<1>5. "directory" \in Kinds
  BY DEF Kinds
<1> HIDE DEF Threads, Main, Labels, Task, Paths, Event, Kinds, Expected, Holds
<1>6. \A p, e : Called(p, e) => Kept(p, e)
  <2>1. CASE callers = <<>>
    <3>1. \A i : i \notin 1..Len(callers)
      BY <2>1
    <3> QED BY <3>1 DEF Called
  <2>2. ASSUME NEW n \in 1..Len(callers), n = Len(callers),
               dir'[Main] = callers[n].task, todo'[Main] = callers[n].todo,
               \A i \in 1..Len(callers') : i \in 1..n /\ callers'[i] = callers[i],
               \A i \in 1..n : i # n => i \in 1..Len(callers'),
               NEW p, NEW e, Called(p, e)
        PROVE  Kept(p, e)
    <3>1. PICK i \in 1..n : callers[i].task.path = p /\ e \in callers[i].todo
      BY <2>2 DEF Called
    <3>2. CASE i = n
      BY <1>1, <1>4, <2>2, <3>1, <3>2 DEF Kept, Left
    <3>3. CASE i # n
      BY <2>2, <3>1, <3>3 DEF Kept, Left
    <3> QED BY <3>2, <3>3
  <2> QED BY <1>1, <2>1, <2>2
<1>7. \A p, e : Holds(Main, p, e) => Kept(p, e)
  <2>1. CASE WalkReadFails
    <3>1. PICK path \in Paths : path = dir[Main].path
      BY <1>2
    <3>2. EmitIssue(Main, "directory", path) /\ pc[Main] = "walk"
      BY <2>1, <3>1 DEF WalkReadFails
    <3>3. IssueAt(path)'
      BY <1>1, <1>2, <1>5, <3>2, IssueSays DEF Attended
    <3> QED BY <1>3, <3>1, <3>3 DEF Kept
  <2>2. CASE WalkReturn
    <3>1. pc[Main] = "walking" /\ todo[Main] = {}
      BY <2>2 DEF WalkReturn, Attended
    <3> QED BY <1>3, <3>1
  <2> QED BY <2>1, <2>2
<1> QED BY <1>1, <1>6, <1>7, WalkSilentCovers DEF Entered

LEMMA WalkFileCovers ==
  ASSUME Attended, NEW f \in Files, WalkFile(f)
  PROVE  Covered'
<1> HIDE DEF Threads, Paths, Event, Main
<1>0. Shape /\ OnceInv /\ WalkSound
  BY DEF Attended
<1>1. PICK here \in Paths, e \in Event :
           /\ e = <<"file", here, ChargeOf(f)>> /\ e[1] = "file" /\ e[2] = here /\ e[3] = ChargeOf(f)
           /\ IsPath(e) /\ Says({e}) /\ ~Known(here) /\ FileOf(e) = f
           /\ Walk /\ here = Append(dir[Main].path, f)
           /\ pc[Main] = "walking" /\ pc'[Main] = "counted" /\ found[Main] = Root
           /\ todo'[Main] = todo[Main] \ {f} /\ UNCHANGED <<dir, found, callers, directories_seen, issue_keys>>
           /\ files_seen' = files_seen + 1 /\ total_allocation' = total_allocation + ChargeOf(f) /\ Claim(f)
  BY <1>0, WalkFileFacts
<1>2. Sent' = Sent \cup {e} /\ Main \in Threads /\ pc[Main] \in Walking
  BY <1>0, <1>1, WalkFrame DEF Says, Attended
<1>3. \A p, x : Holds(Main, p, x) <=> dir[Main].path = p /\ (pc[Main] = "walk" \/ x \in todo[Main])
  BY <1>0, <1>2, WalkHolds
<1>4. \A p, x : dir'[Main].path = p /\ x \in todo'[Main] => Holds(Main, p, x)'
  BY DEF Holds
<1> HIDE DEF Expected, Holds
<1>5. Answered(here)'
  BY <1>1, <1>2 DEF Answered, Known
<1>6. ~Entering
  BY <1>1 DEF Entering
<1>7. \A p, x : Called(p, x) => Kept(p, x)
  BY <1>1 DEF Called, Kept, Left
<1>8. \A p, x : Holds(Main, p, x) => Kept(p, x)
  BY <1>1, <1>2, <1>3, <1>4, <1>5 DEF Kept, Left
<1>9. ASSUME NEW p, <<"dir", p>> \in Sent' PROVE <<"dir", p>> \in Sent
  <2>1. <<"dir", p>>[1] = "dir"
    OBVIOUS
  <2> QED BY <1>1, <1>2, <1>9, <2>1
<1> QED BY <1>1, <1>2, <1>6, <1>7, <1>8, <1>9, WalkCovers DEF Entered

LEMMA WalkDirCovers ==
  ASSUME Attended, NEW d \in Dirs, WalkDir(d)
  PROVE  Covered'
<1> HIDE DEF Threads, Paths, Event, Main
<1>0. Shape /\ OnceInv /\ WalkSound
  BY DEF Attended
<1>1. PICK here \in Paths, e \in Event :
           /\ e = <<"dir", here>> /\ e[1] = "dir" /\ e[2] = here
           /\ IsPath(e) /\ Says({e}) /\ ~Known(here)
           /\ Walk /\ here = Append(dir[Main].path, d) /\ d # Root
           /\ pc[Main] = "walking" /\ pc'[Main] = "counted" /\ found'[Main] = d
           /\ todo'[Main] = todo[Main] \ {d} /\ UNCHANGED <<dir, callers, files_seen, total_allocation, keys>>
           /\ directories_seen' = directories_seen + 1
  BY <1>0, WalkDirFacts
<1>2. Sent' = Sent \cup {e} /\ Main \in Threads /\ pc[Main] \in Walking
  BY <1>0, <1>1, WalkFrame DEF Says, Attended
<1>3. \A p, x : Holds(Main, p, x) <=> dir[Main].path = p /\ (pc[Main] = "walk" \/ x \in todo[Main])
  BY <1>0, <1>2, WalkHolds
<1>4. \A p, x : dir'[Main].path = p /\ x \in todo'[Main] => Holds(Main, p, x)'
  BY DEF Holds
<1> HIDE DEF Expected, Holds
<1>5. Answered(here)'
  BY <1>1, <1>2 DEF Answered, Known
<1>6. ~Entering
  BY <1>1 DEF Entering
<1>7. \A p, x : Called(p, x) => Kept(p, x)
  BY <1>1 DEF Called, Kept, Left
<1>8. \A p, x : Holds(Main, p, x) => Kept(p, x)
  BY <1>1, <1>2, <1>3, <1>4, <1>5 DEF Kept, Left
<1>9. Entered(here)'
  <2>1. Entering'
    BY <1>1 DEF Entering
  <2>2. here = Append(dir'[Main].path, found'[Main])
    BY <1>1
  <2> QED BY <2>1, <2>2 DEF Entered
<1>10. ASSUME NEW p, <<"dir", p>> \in Sent', <<"dir", p>> \notin Sent PROVE Entered(p)'
  <2>1. <<"dir", p>> = <<"dir", here>>
    BY <1>1, <1>2, <1>10
  <2>2. p = here
    BY <2>1
  <2> QED BY <1>9, <2>2
<1> QED BY <1>1, <1>2, <1>6, <1>7, <1>8, <1>10, WalkCovers DEF Entered

LEMMA WalkDescendCovers ==
  ASSUME Attended, WalkDescend
  PROVE  Covered'
<1>1. /\ Walk /\ Silent(Main) /\ Main \in Threads
      /\ pc[Main] = "descend" /\ pc'[Main] = "walk"
      /\ dir'[Main] = Child(dir[Main], found[Main])
      /\ \A i \in 1..Len(callers) : i \in 1..Len(callers') /\ callers'[i] = callers[i]
      /\ \E i \in 1..Len(callers') : callers'[i].task = dir[Main] /\ callers'[i].todo = todo[Main]
  BY DescendFacts DEF Attended
<1>2. pc[Main] \in Walking /\ dir'[Main].path = Append(dir[Main].path, found[Main])
  BY <1>1 DEF Walking, Child
<1>3. \A p, x : Holds(Main, p, x) <=> dir[Main].path = p /\ (pc[Main] = "walk" \/ x \in todo[Main])
  BY <1>2, WalkHolds DEF Attended
<1>4. \A p, x : dir'[Main].path = p => Holds(Main, p, x)'
  BY <1>1 DEF Holds
<1> HIDE DEF Threads, Main, Paths, Expected, Holds
<1>5. \A p, x : Called(p, x) => Kept(p, x)
  BY <1>1 DEF Called, Kept, Left
<1>6. \A p, x : Holds(Main, p, x) => Kept(p, x)
  BY <1>1, <1>3 DEF Kept, Left
<1>7. \A p, x : Entered(p) => Kept(p, x)
  BY <1>1, <1>2, <1>4 DEF Entered, Kept, Left
<1> QED BY <1>1, <1>5, <1>6, <1>7, WalkSilentCovers

LEMMA WalkStepCovers ==
  ASSUME Attended, Walk
  PROVE  Covered'
BY WalkPassesCover, WalkReadDirCovers, ReturnCovers, WalkFileCovers, WalkDirCovers, WalkDescendCovers
   DEF Walk, WalkPasses

-----------------------------------------------------------------------------
(* Tasks that are taken and tasks that are left are covered as well.       *)

(* A step between directories says nothing about a path.                   *)
LEMMA AsideSays ==
  ASSUME WireOK, NEW t \in Threads, UNCHANGED received,
         Flush(t) \/ UNCHANGED delivery \/ \E e \in Event : Emit(t, e) /\ Closing(e)
  PROVE  /\ alive => Sent \subseteq Sent'
         /\ \A e \in Sent' : IsPath(e) => e \in Sent
<1>1. \A e : Closing(e) => ~IsPath(e)
  BY DEF Closing, IsPath
<1> HIDE DEF Threads, Event, Closing
<1>2. Flush(t) \/ Silent(t)
  BY <1>1 DEF Silent
<1> QED BY <1>2, SilentSays

(* Whoever is between directories holds nothing.                           *)
LEMMA RestingHolds ==
  ASSUME RestInv, OnceInv, NEW t \in Threads, pc[t] \in Resting
  PROVE  /\ todo[t] = {} /\ pending[t] = <<>> /\ pc[t] \notin Working
         /\ \A p, e : ~Holds(t, p, e)
<1>1. todo[t] = {}
  BY DEF RestInv, Rested, Emptied
<1>2. pending[t] = <<>> /\ pc[t] \notin Working \cup {"open", "walk"} /\ ~HasFound(t)
  BY DEF OnceInv, Parts, InHand, Carries, Resting, Working, HasFound
<1>3. \A i : i \notin 1..Len(pending[t])
  BY <1>2
<1> QED BY <1>1, <1>2, <1>3 DEF Holds

(* A step between directories keeps what is covered if it keeps what is    *)
(* left.                                                                   *)
LEMMA AsideCovers ==
  ASSUME Covered, Shape, alive, NEW t \in Threads, UNCHANGED <<setup, received, callers, found>>,
         Flush(t) \/ UNCHANGED delivery \/ \E e \in Event : Emit(t, e) /\ Closing(e),
         pc[Main] # "start" \/ pc'[Main] = "start", Entering => Entering' /\ dir'[Main] = dir[Main],
         \A s \in Threads : \A p, e : Holds(s, p, e) => Left(p, e)',
         \A i \in 1..Len(tasks) : \A p, e : tasks[i].path = p => Left(p, e)'
  PROVE  Covered'
<1>1. Sent \subseteq Sent' /\ \A e \in Sent' : IsPath(e) => e \in Sent
  BY AsideSays DEF Shape
<1>2. \A p : IsPath(<<"dir", p>>)
  BY DEF IsPath
<1> HIDE DEF Threads, Paths, Expected, Main, Event, Holds, Entering
<1>3. \A p, e : (\E i \in 1..Len(callers) : callers[i].task.path = p /\ e \in callers[i].todo) => Left(p, e)'
  BY DEF Left
<1>4. \A p, e : Entering /\ p = Append(dir[Main].path, found[Main]) => Left(p, e)'
  BY DEF Left
<1>5. \A p, e : Left(p, e) => Left(p, e)'
  BY <1>3, <1>4 DEF Left
<1> QED BY <1>1, <1>2, <1>5, CoverStep DEF Kept

LEMMA OpensCover ==
  ASSUME Covered, RestInv, OnceInv, Shape, alive, ~cancelled, NEW t \in Threads, Opens(t)
  PROVE  Covered'
<1>1. /\ UNCHANGED <<setup, found, pending, ret, callers, delivery, received>>
      /\ pc[t] \in {"take", "chain"} /\ pc'[t] = "open"
      /\ \A s \in Threads \ {t} :
           pc'[s] = pc[s] /\ dir'[s] = dir[s] /\ todo'[s] = todo[s] /\ fresh'[s] = fresh[s]
      /\ \A i \in 1..Len(tasks') : tasks'[i] = tasks[i]
  BY DEF Opens, Bookkeeping, totals, consumer
<1>2. PICK k \in 1..Len(tasks) : dir'[t] = tasks[k] /\ \A i \in 1..Len(tasks) : i = k \/ i \in 1..Len(tasks')
  BY DEF Opens
<1>3. pc[t] \in Resting /\ (t = Main => ~Entering)
  BY <1>1 DEF Resting, Entering
<1>4. t # Main => Main \in Threads \ {t}
  BY ThreadFacts
<1> HIDE DEF Threads, Main, Paths
<1>5. \A s \in Threads \ {t} : \A p, e : Holds(s, p, e) => Holds(s, p, e)'
  BY <1>1 DEF Holds, HasFound
<1>6. \A p, e : ~Holds(t, p, e)
  BY <1>3, RestingHolds
<1>7. \A s \in Threads : \A p, e : Holds(s, p, e) => Left(p, e)'
  BY <1>5, <1>6 DEF Left
<1>8. \A p, e : tasks[k].path = p => Holds(t, p, e)'
  BY <1>1, <1>2 DEF Holds
<1>9. \A i \in 1..Len(tasks) : \A p, e : tasks[i].path = p => Left(p, e)'
  BY <1>1, <1>2, <1>8 DEF Left
<1>10. Entering => Entering' /\ dir'[Main] = dir[Main]
  BY <1>1, <1>3, <1>4 DEF Entering
<1>11. pc[Main] # "start" \/ pc'[Main] = "start"
  BY <1>1, <1>4
<1> QED BY <1>1, <1>7, <1>9, <1>10, <1>11, AsideCovers

LEMMA ClosesCover ==
  ASSUME Covered, RestInv, OnceInv, Shape, alive, NEW t \in Threads, Closes(t)
  PROVE  Covered'
<1>1. /\ UNCHANGED <<setup, found, pending, ret, callers, delivery, received, dir, todo, fresh>>
      /\ pc[t] = "complete" /\ pc'[t] \in {"look", "chain"}
      /\ \A s \in Threads \ {t} : pc'[s] = pc[s]
      /\ Joined(tasks', tasks, fresh[t])
  BY DEF Closes, Bookkeeping, totals, consumer
<1>2. t = Main => ~Entering
  BY <1>1 DEF Entering
<1>3. t # Main => Main \in Threads \ {t}
  BY ThreadFacts
<1>4. todo[t] = {} /\ pending[t] = <<>> /\ ~HasFound(t)
  BY <1>1 DEF RestInv, Rested, Emptied, OnceInv, Parts, InHand, Carries, HasFound
<1> HIDE DEF Threads, Main, Paths
<1>5. \A i : i \notin 1..Len(pending[t])
  BY <1>4
<1>6. \A s \in Threads \ {t} : \A p, e : Holds(s, p, e) => Holds(s, p, e)'
  BY <1>1 DEF Holds, HasFound
<1>7. \A j \in 1..Len(fresh[t]) : \A p, e : fresh[t][j].path = p => Left(p, e)'
  BY <1>1 DEF Left, Joined
<1>8. \A p, e : Holds(t, p, e) => Left(p, e)'
  BY <1>1, <1>4, <1>5, <1>7 DEF Holds
<1>9. \A s \in Threads : \A p, e : Holds(s, p, e) => Left(p, e)'
  BY <1>6, <1>8 DEF Left
<1>10. \A i \in 1..Len(tasks) : \A p, e : tasks[i].path = p => Left(p, e)'
  BY <1>1 DEF Left, Joined
<1>11. Entering => Entering' /\ dir'[Main] = dir[Main]
  BY <1>1, <1>2, <1>3 DEF Entering
<1>12. pc[Main] # "start" \/ pc'[Main] = "start"
  BY <1>1, <1>3
<1> QED BY <1>1, <1>9, <1>10, <1>11, <1>12, AsideCovers

LEMMA PassesCover ==
  ASSUME Covered, RestInv, OnceInv, Shape, alive, NEW t \in Threads, Passes(t)
  PROVE  Covered'
<1>1. /\ UNCHANGED <<setup, found, pending, ret, callers, received, dir, todo, fresh, tasks>>
      /\ \A s \in Threads : \/ pc'[s] = pc[s]
                            \/ pc[s] \in Resting \ {"start"} /\ pc'[s] \in Resting \ {"start", "walked"}
      /\ Flush(t) \/ UNCHANGED delivery \/ \E e \in Event : Emit(t, e) /\ Closing(e)
  BY DEF Passes, Bookkeeping, totals, consumer
<1>2. Main \in Threads
  BY ThreadFacts
<1> HIDE DEF Threads, Main, Paths, Event, Closing
<1>3. ASSUME NEW s \in Threads, NEW p, NEW e, Holds(s, p, e) PROVE Left(p, e)'
  <2>1. pc'[s] = pc[s]
    BY <1>1, <1>3, RestingHolds
  <2>2. Holds(s, p, e)'
    BY <1>1, <1>3, <2>1 DEF Holds, HasFound
  <2> QED BY <2>2 DEF Left
<1>4. \A i \in 1..Len(tasks) : \A p, e : tasks[i].path = p => Left(p, e)'
  BY <1>1 DEF Left
<1>5. Entering => Entering' /\ dir'[Main] = dir[Main]
  BY <1>1, <1>2 DEF Entering, Resting
<1>6. pc[Main] # "start" \/ pc'[Main] = "start"
  BY <1>1, <1>2
<1> QED BY <1>1, <1>3, <1>4, <1>5, <1>6, AsideCovers

(* The root is announced and left to be walked, or it is an issue.         *)
LEMMA StartCovers ==
  ASSUME Shape, OnceInv, alive, StartScan
  PROVE  Covered'
<1> DEFINE root == <<Root>>
           a == <<"started">>
           b == <<"dir", root>>
           c == <<"progress", 1>>
<1>1. /\ Opening({a, b, c})
      /\ \/ tasks' = <<RootTask>> /\ dir' = dir /\ pc'[Main] = "chain"
         \/ tasks' = <<>> /\ dir'[Main] = RootTask /\ pc'[Main] = "walk"
  BY StartFacts
<1>2. Sent' = {a, b, c} /\ RootTask.path = root
  BY <1>1 DEF Opening, Says, RootTask
<1>3. Main \in Threads
  BY ThreadFacts
<1>4. IsPath(b) /\ b[2] = root /\ a[1] # "dir" /\ c[1] # "dir"
  BY DEF IsPath
<1> HIDE DEF a, b, c, root, Threads, Main, RootTask, Paths, Expected
<1>5. Answered(root)'
  BY <1>2, <1>4 DEF Answered, Known
<1>6. ASSUME NEW p, <<"dir", p>> \in Sent' PROVE p = root
  <2>1. <<"dir", p>>[1] = "dir" /\ <<"dir", p>>[2] = p
    OBVIOUS
  <2> QED BY <1>2, <1>4, <1>6, <2>1
<1>7. \A e : Left(root, e)'
  <2>1. CASE tasks' = <<RootTask>>
    <3>1. 1 \in 1..Len(tasks') /\ tasks'[1] = RootTask
      BY <2>1
    <3> QED BY <1>2, <3>1 DEF Left
  <2>2. CASE dir'[Main] = RootTask /\ pc'[Main] = "walk"
    <3>1. \A e : Holds(Main, root, e)'
      BY <1>2, <2>2 DEF Holds
    <3> QED BY <1>3, <3>1 DEF Left
  <2> QED BY <1>1, <2>1, <2>2
<1> QED BY <1>5, <1>6, <1>7 DEF Covered, root

LEMMA InvalidCovers ==
  ASSUME Shape, OnceInv, alive, StartInvalid
  PROVE  Covered'
<1> DEFINE root == <<Root>>
           a == <<"started">>
           b == <<"issue", "root", root>>
           c == <<"summary", 0, 0, 0>>
<1>1. Opening({a, b, c})
  BY InvalidFacts
<1>2. Sent' = {a, b, c}
  BY <1>1 DEF Opening, Says
<1>3. b[1] = "issue" /\ b[3] = root /\ b[1] # "dir" /\ a[1] # "dir" /\ c[1] # "dir"
  OBVIOUS
<1> HIDE DEF a, b, c, root, Main, Paths, Expected
<1>4. Answered(root)'
  BY <1>2, <1>3 DEF Answered, IssueAt
<1>5. ASSUME NEW p PROVE <<"dir", p>> \notin Sent'
  <2>1. <<"dir", p>>[1] = "dir"
    OBVIOUS
  <2> QED BY <1>2, <1>3, <2>1
<1> QED BY <1>4, <1>5 DEF Covered, root

-----------------------------------------------------------------------------
(* The scan is whole only if it was: what is cut short stays cut short.    *)

LEMMA ReportsSay ==
  ASSUME WireOK, NEW t \in Threads, Delivers(t) \/ Flush(t), UNCHANGED received
  PROVE  <<"completed">> \in Sent' => <<"completed">> \in Sent
<1> DEFINE c == <<"completed">>
<1>1. c \notin Reports /\ Reports \subseteq Event
  BY EventFacts
<1> HIDE DEF c, Reports, Event, Threads
<1>2. CASE UNCHANGED delivery
  BY <1>2, NothingSaid
<1>3. CASE Flush(t)
  BY <1>3, FlushSays DEF Says
<1>4. ASSUME NEW e \in Reports, Emit(t, e) PROVE c \in Sent' => c \in Sent
  <2>1. Sent' \subseteq Sent \cup {e}
    BY <1>1, <1>4, EmitSays DEF Says
  <2> QED BY <1>1, <1>4, <2>1
<1> QED BY <1>2, <1>3, <1>4 DEF Delivers, c

(* While anybody is at a directory, or between two, the scan goes on.      *)
LEMMA WorkIsWhole ==
  ASSUME WalkInv, NEW t \in Threads, Process(t) \/ Opens(t) \/ Closes(t) \/ (t = Main /\ Walk), Whole'
  PROVE  Whole /\ ~cancelled
<1> USE DEF WalkInv
<1>0. Shape /\ WireOK
  BY DEF Shape
<1> HIDE DEF WalkInv
<1>1. CASE Process(t) \/ (t = Main /\ Walk)
  <2>1. /\ UNCHANGED <<cancelled, received>> /\ pc[t] \in Working \cup Walking /\ pc'[t] \in Working \cup Walking
        /\ \A s \in Threads \ {t} : pc'[s] = pc[s]
    BY <1>0, <1>1, ProcessFrame, WalkFrame DEF Frame
  <2>2. Delivers(t)
    BY <1>0, <1>1, ProcessIsOwn, WalkIsOwn, WorkStep DEF Works
  <2>3. <<"completed">> \notin Sent' /\ pc[Main] \notin Ending
    BY <1>0, <2>1, <2>2, ReportsSay, WalkingIsEarly
  <2>4. pc'[Main] \notin Ending
    <3>1. pc'[t] \notin Ending
      BY <2>1 DEF Ending, Working, Walking
    <3> QED BY <2>1, <2>3, <3>1, ThreadFacts
  <2> QED BY <2>1, <2>3, <2>4 DEF Whole, Ending
<1>2. CASE Opens(t) \/ Closes(t)
  <2>1. /\ UNCHANGED <<cancelled, received, delivery>> /\ pc[t] \in Working \cup {"take", "chain"}
        /\ pc'[t] \in {"open", "complete", "look", "chain"}
        /\ \A s \in Threads \ {t} : pc'[s] = pc[s]
    BY <1>2 DEF Opens, Closes, Bookkeeping, consumer, Working
  <2>2. Sent' = Sent
    BY <2>1, NothingSaid
  <2>3. <<"completed">> \notin Sent /\ pc[Main] \notin Ending
    BY <2>1, WalkingIsEarly
  <2>4. pc'[Main] \notin Ending
    BY <2>1, <2>3, ThreadFacts DEF Ending
  <2> QED BY <2>1, <2>2, <2>3, <2>4 DEF Whole, Ending
<1> QED BY <1>1, <1>2

LEMMA PassIsWhole ==
  ASSUME Shape, NEW t \in Threads, Passes(t), Whole'
  PROVE  Whole
<1>1. /\ UNCHANGED <<cancelled, received>> /\ WireOK
      /\ pc'[Main] \in {"summary", "completed"} => pc[Main] \in {"summary", "completed"} \/ ~cancelled
      /\ Flush(t) \/ UNCHANGED delivery \/ \E e \in Event : Emit(t, e) /\ Closing(e)
  BY DEF Passes, Bookkeeping, consumer, Settling, Shape
<1> DEFINE c == <<"completed">>
<1>2. c[1] = "completed"
  OBVIOUS
<1> HIDE DEF Threads, Main, c, Event
<1>3. c \in Sent' => c \in Sent \/ pc[Main] = "completed"
  <2>1. CASE UNCHANGED delivery
    BY <1>1, <2>1, NothingSaid
  <2>2. CASE Flush(t)
    BY <1>1, <2>2, FlushSays DEF Says
  <2>3. ASSUME NEW e \in Event, Emit(t, e), Closing(e) PROVE c \in Sent' => c \in Sent \/ pc[Main] = "completed"
    <3>1. Sent' \subseteq Sent \cup {e}
      BY <1>1, <2>3, EmitSays DEF Says
    <3>2. e = c => pc[Main] = "completed"
      BY <1>2, <2>3 DEF Closing
    <3> QED BY <3>1, <3>2
  <2> QED BY <1>1, <2>1, <2>2, <2>3
<1> QED BY <1>1, <1>3 DEF Whole, c

LEMMA OutsideCovers ==
  ASSUME Whole => Covered, WireOK, Receive \/ Cancel, Whole'
  PROVE  Covered'
<1>1. UNCHANGED <<setup, tasks, callers, pc, ret, dir, todo, fresh, found, pending>>
  BY DEF Receive, Cancel, queue, local, place, totals, loop, consumer
<1>2. Sent' = Sent
  <2>1. CASE Receive
    BY <2>1, ReceiveSays
  <2>2. CASE Cancel
    BY <2>2, NothingSaid DEF Cancel, consumer
  <2> QED BY <2>1, <2>2
<1>3. Whole
  <2>1. ~cancelled' => ~cancelled
    BY DEF Receive, Cancel
  <2> QED BY <1>1, <1>2, <2>1 DEF Whole
<1>4. Covered
  BY <1>3
<1>5. Expected' = Expected
  BY <1>1, SetupKeeps
<1> HIDE DEF Threads, Main, Paths, Expected
<1>6. \A p, e : Left(p, e)' <=> Left(p, e)
  BY <1>1 DEF Left, Holds, HasFound, Entering
<1> QED BY <1>1, <1>2, <1>4, <1>5, <1>6 DEF Covered, Answered, Known, IssueAt

LEMMA StepCovers ==
  ASSUME WalkSound, RestInv, Issues, Whole => Covered, WalkInv, OnceInv, [Next]_vars, alive, alive', Whole'
  PROVE  Covered'
<1>1. Shape /\ WireOK
  BY DEF WalkInv, Shape
<1>2. ~DropReceiver
  BY DEF DropReceiver
<1> HIDE DEF Threads, Main
<1>3. CASE StartScan \/ StartInvalid
  BY <1>1, <1>3, StartCovers, InvalidCovers
<1>4. CASE Receive \/ Cancel
  BY <1>1, <1>4, OutsideCovers
<1>5. CASE Walk
  <2>1. Whole /\ ~cancelled
    BY <1>5, WorkIsWhole, ThreadFacts
  <2> QED BY <1>1, <1>5, <2>1, WalkStepCovers DEF Attended
<1>6. ASSUME NEW t \in Threads, Process(t) PROVE Covered'
  <2>1. Whole /\ ~cancelled
    BY <1>6, WorkIsWhole
  <2> QED BY <1>1, <1>6, <2>1, ProcessStepCovers DEF Attended
<1>7. ASSUME NEW t \in Threads, Opens(t) \/ Closes(t) PROVE Covered'
  <2>1. Whole /\ ~cancelled
    BY <1>7, WorkIsWhole
  <2> QED BY <1>1, <1>7, <2>1, OpensCover, ClosesCover
<1>8. ASSUME NEW t \in Threads, Passes(t) PROVE Covered'
  BY <1>1, <1>8, PassIsWhole, PassesCover
<1> QED BY <1>1, <1>2, <1>3, <1>4, <1>5, <1>6, <1>7, <1>8, StepKinds

-----------------------------------------------------------------------------
(* Most steps report nothing that is counted and count nothing.            *)
Whispers(t) == UNCHANGED delivery \/ \E e \in Event : Emit(t, e) /\ e[1] \in {"issue", "progress"}
Quietly(t) == Whispers(t) /\ UNCHANGED <<counted, tally, physical, claimed>>

SameReports == /\ SentDirs' = SentDirs /\ SentFiles' = SentFiles /\ SentCharged' = SentCharged
               /\ Sent \subseteq Sent' /\ \A e \in Sent' : e[1] = "summary" => e \in Sent

LEMMA WhisperSays ==
  ASSUME WireOK, alive, NEW t \in Threads, Whispers(t) \/ Flush(t), UNCHANGED received
  PROVE  SameReports
<1> HIDE DEF Threads, Event
<1>1. Sent \subseteq Sent' /\ \A e \in Sent' : e \in Sent \/ e[1] \in {"issue", "progress"}
  <2>1. CASE UNCHANGED delivery
    BY <2>1, NothingSaid
  <2>2. CASE Flush(t)
    BY <2>2, FlushSays DEF Says
  <2>3. ASSUME NEW e \in Event, Emit(t, e), e[1] \in {"issue", "progress"}
        PROVE  Sent \subseteq Sent' /\ \A x \in Sent' : x \in Sent \/ x[1] \in {"issue", "progress"}
    <3>1. Sent' = Sent \cup {e}
      BY <2>3, EmitSays DEF Says
    <3> QED BY <2>3, <3>1
  <2> QED BY <2>1, <2>2, <2>3 DEF Whispers
<1> QED BY <1>1 DEF SameReports, SentDirs, SentFiles, SentCharged

LEMMA SameSays ==
  ASSUME Sent' = Sent
  PROVE  SameReports
BY DEF SameReports, SentDirs, SentFiles, SentCharged

(* An issue is on its way when its key is there.                           *)
LEMMA IssueWhispers ==
  ASSUME WireOK, NEW t \in Threads, NEW kind \in Kinds, NEW path \in Paths, EmitIssue(t, kind, path),
         UNCHANGED received
  PROVE  Whispers(t) /\ (alive /\ Issues => Issues')
<1> DEFINE e == <<"issue", kind, path>>
<1>1. e \in Event /\ e[1] = "issue"
  BY EventFacts
<1>2. UNCHANGED delivery \/ Emit(t, e)
  BY DEF EmitIssue
<1> HIDE DEF e, Event
<1>3. Whispers(t)
  BY <1>1, <1>2 DEF Whispers
<1> QED BY <1>3, IssueSays

LEMMA ProgressWhispers ==
  ASSUME NEW t \in Threads, NEW n \in Nat, Emit(t, <<"progress", n>>)
  PROVE  Whispers(t)
<1> DEFINE e == <<"progress", n>>
<1>1. e \in Event /\ e[1] = "progress"
  BY EventFacts
<1> HIDE DEF e, Event
<1> QED BY <1>1 DEF Whispers, e

LEMMA ProcessNotes ==
  ASSUME Shape, NEW t \in Threads, Process(t), ~DirEntry(t), ~EmitFile(t)
  PROVE  /\ Whispers(t) /\ (alive /\ Issues => Issues')
         /\ ~ClaimFile(t) /\ ~EndDirectory(t) => Quietly(t)
         /\ ~ClaimFile(t) => pc[t] # "emit" /\ pc'[t] # "emit"
<1>1. /\ pc \in [Threads -> Labels] /\ Fields /\ WireOK /\ UNCHANGED received
      /\ \A e \in Dirs \cup Files : dir[t].path \in Paths /\ Append(dir[t].path, e) \in Paths
  <2>1. dir[t] \in Task
    BY TypesAre DEF Shape, Fields
  <2>2. dir[t].path \in Paths
    BY <2>1 DEF Task, Paths
  <2> QED BY <2>1, <2>2, PathFacts, TypesAre, ProcessFrame DEF Shape, Rest, Frame
<1> HIDE DEF Threads, Labels, Task, Paths, Event, Kinds
<1>2. "directory" \in Kinds /\ "entry" \in Kinds /\ "cycle" \in Kinds
  BY DEF Kinds
<1>3. UNCHANGED <<delivery, issue_keys>> => Whispers(t) /\ (alive /\ Issues => Issues')
  <2>1. UNCHANGED <<delivery, issue_keys>> => Sent' = Sent
    BY <1>1, NothingSaid
  <2> QED BY <2>1, IssuesKept DEF Whispers
<1>4. ret[t] \in {"files", "found", "end", "complete"} /\ found[t] \in Dirs /\ items[t] \in Nat
  BY <1>1 DEF Fields
<1>5. CASE ReadFails(t)
  <2>1. /\ EmitIssue(t, "directory", dir[t].path)
        /\ UNCHANGED <<counted, tally, physical, claimed>>
        /\ pc[t] = "open" /\ pc'[t] = "complete"
    BY <1>1, <1>5 DEF ReadFails, Goto, local, totals
  <2>2. dir[t].path \in Paths
    BY <1>1, <1>4
  <2>3. Whispers(t) /\ (alive /\ Issues => Issues')
    BY <1>1, <1>2, <2>1, <2>2, IssueWhispers
  <2> QED BY <2>1, <2>3 DEF Quietly
<1>6. ASSUME NEW e \in Dirs \cup Files, EntryFails(t, e)
      PROVE  Quietly(t) /\ (alive /\ Issues => Issues') /\ pc[t] # "emit" /\ pc'[t] # "emit"
  <2>1. /\ UNCHANGED <<counted, tally, physical, claimed, pc>> /\ pc[t] = "entries"
    BY <1>6 DEF EntryFails, Entry, totals
  <2>2. PICK path \in Paths : EmitIssue(t, "entry", path)
    BY <1>1, <1>6 DEF EntryFails
  <2>3. Whispers(t) /\ (alive /\ Issues => Issues')
    BY <1>1, <1>2, <2>2, IssueWhispers
  <2> QED BY <2>1, <2>3 DEF Quietly
<1>7. CASE CycleIssue(t)
  <2>1. /\ EmitIssue(t, "cycle", Append(dir[t].path, found[t]))
        /\ UNCHANGED <<counted, tally, physical, claimed>>
        /\ pc[t] = "cycle" /\ pc'[t] = "entries"
    BY <1>1, <1>7 DEF CycleIssue, Goto, totals
  <2>2. Whispers(t) /\ (alive /\ Issues => Issues')
    BY <1>1, <1>2, <1>4, <2>1, IssueWhispers
  <2> QED BY <2>1, <2>2 DEF Quietly
<1>8. CASE Report(t)
  <2>1. /\ Emit(t, <<"progress", items[t]>>)
        /\ UNCHANGED <<counted, tally, physical, keys>>
        /\ pc[t] = "report" /\ pc'[t] = ret[t]
    BY <1>1, <1>8 DEF Report, Goto, local, totals, counters
  <2>2. Whispers(t)
    BY <1>4, <2>1, ProgressWhispers
  <2>3. alive => Sent \subseteq Sent'
    BY <1>1, <2>2, WhisperSays DEF SameReports
  <2> QED BY <1>4, <2>1, <2>2, <2>3, IssuesKept DEF Quietly, keys
<1>9. CASE ClaimFile(t) \/ EndDirectory(t)
  <2>1. UNCHANGED <<delivery, issue_keys>> /\ (~ClaimFile(t) => pc[t] = "end" /\ pc'[t] = "progress")
    BY <1>1, <1>9 DEF ClaimFile, EndDirectory, keys, Goto
  <2> QED BY <1>3, <1>9, <2>1
<1>10. CASE \/ ReadDir(t) \/ LeaveLoop(t) \/ FilesEmitted(t) \/ LoadItems(t) \/ Advance(t)
            \/ \E e \in Dirs \cup Files : Exclude(t, e) \/ FileEntry(t, e) \/ FindDir(t, e)
  <2>1. UNCHANGED <<delivery, issue_keys, counted, tally, physical, claimed>>
    BY <1>10 DEF ReadDir, LeaveLoop, FilesEmitted, LoadItems, Advance, Exclude, FileEntry, FindDir,
                 local, totals, counters, keys
  <2>2. pc[t] # "emit" /\ pc'[t] # "emit"
    <3>1. pc[t] \in {"open", "entries", "files", "progress", "advance"}
      BY <1>10 DEF ReadDir, LeaveLoop, FilesEmitted, LoadItems, Advance, Exclude, FileEntry, FindDir, Entry
    <3>2. pc'[t] # "emit"
      BY <1>1, <1>4, <1>10, <3>1 DEF ReadDir, LeaveLoop, FilesEmitted, LoadItems, Advance, Exclude, FileEntry,
                 FindDir, Goto
    <3> QED BY <3>1, <3>2
  <2> QED BY <1>3, <2>1, <2>2 DEF Quietly
<1>11. \/ \E e \in Dirs \cup Files : EntryFails(t, e)
       \/ ReadFails(t) \/ CycleIssue(t) \/ Report(t) \/ ClaimFile(t) \/ EndDirectory(t)
       \/ ReadDir(t) \/ LeaveLoop(t) \/ FilesEmitted(t) \/ LoadItems(t) \/ Advance(t)
       \/ \E e \in Dirs \cup Files : Exclude(t, e) \/ FileEntry(t, e) \/ FindDir(t, e)
  BY DEF Process
<1> QED BY <1>5, <1>6, <1>7, <1>8, <1>9, <1>10, <1>11 DEF Quietly

LEMMA WalkNotes ==
  ASSUME Shape, OnceInv, Walk, \A d \in Dirs : ~WalkDir(d), \A f \in Files : ~WalkFile(f)
  PROVE  Quietly(Main) /\ (alive /\ Issues => Issues')
<1>1. /\ Main \in Threads /\ Fields /\ WireOK /\ UNCHANGED <<received, tally, physical>>
      /\ dir[Main].path \in Paths /\ \A e \in Dirs \cup Files : Append(dir[Main].path, e) \in Paths
      /\ found[Main] \in Dirs
  BY CallTypes, WalkFrame, PathFacts DEF Frame, Shape, Fields
<1> HIDE DEF Threads, Main, Labels, Task, Paths, Event, Kinds
<1>2. "directory" \in Kinds /\ "entry" \in Kinds /\ "cycle" \in Kinds
  BY DEF Kinds
<1>3. UNCHANGED <<delivery, issue_keys>> => Whispers(Main) /\ (alive /\ Issues => Issues')
  <2>1. UNCHANGED <<delivery, issue_keys>> => Sent' = Sent
    BY <1>1, NothingSaid
  <2> QED BY <2>1, IssuesKept DEF Whispers
<1>4. CASE WalkReadFails
  <2>1. EmitIssue(Main, "directory", dir[Main].path) /\ UNCHANGED <<counted, claimed>>
    BY <1>4 DEF WalkReadFails
  <2> QED BY <1>1, <1>2, <2>1, IssueWhispers DEF Quietly
<1>5. ASSUME NEW e \in Dirs \cup Files, WalkEntryFails(e)
      PROVE  Quietly(Main) /\ (alive /\ Issues => Issues')
  <2>1. UNCHANGED <<counted, claimed>>
    BY <1>5 DEF WalkEntryFails
  <2>2. PICK path \in Paths : EmitIssue(Main, "entry", path)
    BY <1>1, <1>5 DEF WalkEntryFails
  <2> QED BY <1>1, <1>2, <2>1, <2>2, IssueWhispers DEF Quietly
<1>6. CASE WalkPassBy
  <2>1. /\ UNCHANGED <<counted, claimed>>
        /\ \/ EmitIssue(Main, "cycle", Append(dir[Main].path, found[Main]))
           \/ UNCHANGED <<delivery, issue_keys>>
    BY <1>6 DEF WalkPassBy
  <2> QED BY <1>1, <1>2, <1>3, <2>1, IssueWhispers DEF Quietly
<1>7. CASE WalkProgress
  <2> DEFINE n == files_seen + directories_seen
  <2>1. n \in Nat
    BY <1>1 DEF Fields
  <2>2. /\ UNCHANGED <<counted, keys>>
        /\ Emit(Main, <<"progress", n>>) \/ UNCHANGED delivery
    BY <1>7 DEF WalkProgress
  <2> HIDE DEF n
  <2>3. Whispers(Main)
    BY <1>1, <2>1, <2>2, ProgressWhispers DEF Whispers
  <2>4. alive => Sent \subseteq Sent'
    BY <1>1, <2>3, WhisperSays DEF SameReports
  <2> QED BY <1>1, <2>2, <2>3, <2>4, IssuesKept DEF Quietly, keys
<1>8. CASE WalkReadDir \/ WalkReturn \/ WalkDescend \/ \E e \in Dirs \cup Files : WalkExclude(e)
  <2>1. UNCHANGED <<delivery, issue_keys, counted, claimed>>
    BY <1>8 DEF WalkReadDir, WalkReturn, WalkDescend, WalkExclude, counters, keys
  <2> QED BY <1>1, <1>3, <2>1 DEF Quietly
<1> QED BY <1>4, <1>5, <1>6, <1>7, <1>8 DEF Walk

-----------------------------------------------------------------------------
(* What threads have counted and not published is finite, and changes with *)
(* what one of them has.                                                   *)
Cell(t, n) == {t} \X (1..n)

LEMMA CellFacts ==
  ASSUME NEW t, NEW n \in Nat
  PROVE  IsFiniteSet(Cell(t, n)) /\ Cardinality(Cell(t, n)) = n
<1> DEFINE A == {t}
           B == 1..n
<1>1. IsFiniteSet(A) /\ Cardinality(A) = 1
  BY FS_Singleton
<1>2. IsFiniteSet(B) /\ Cardinality(B) = n
  BY FS_Interval
<1> HIDE DEF A, B
<1>3. IsFiniteSet(A \X B) /\ Cardinality(A \X B) = Cardinality(A) * Cardinality(B)
  BY <1>1, <1>2, FS_Product, Zenon
<1>4. 1 * n = n
  OBVIOUS
<1>5. Cell(t, n) = A \X B
  BY Zenon DEF Cell, A, B
<1> HIDE DEF Cell
<1>6. Cardinality(A \X B) = n
  BY <1>1, <1>2, <1>3, <1>4, Zenon
<1> QED BY <1>3, <1>5, <1>6, Zenon

LEMMA UnitsAre ==
  ASSUME NEW f \in [Threads -> Nat]
  PROVE  \A u : u \in Units(f) <=> \E t \in Threads : u \in Cell(t, f[t])
<1> HIDE DEF Threads
<1>1. ASSUME NEW u \in Units(f) PROVE \E t \in Threads : u \in Cell(t, f[t])
  <2>1. PICK t \in Threads, n \in Nat : u = <<t, n>>
    BY <1>1 DEF Units
  <2>2. 1 <= n /\ n <= f[t]
    BY <1>1, <2>1 DEF Units
  <2>3. f[t] \in Nat
    OBVIOUS
  <2>4. n \in 1..f[t]
    BY <2>1, <2>2, <2>3
  <2> QED BY <2>1, <2>4 DEF Cell
<1>2. ASSUME NEW u, NEW t \in Threads, u \in Cell(t, f[t]) PROVE u \in Units(f)
  <2>1. PICK n \in 1..f[t] : u = <<t, n>>
    BY <1>2 DEF Cell
  <2>2. f[t] \in Nat
    OBVIOUS
  <2>3. n \in Nat /\ 1 <= n /\ n <= f[t]
    BY <2>1, <2>2
  <2>4. u \in Threads \X Nat /\ u[1] = t /\ u[2] = n
    BY <2>1, <2>3
  <2> QED BY <2>3, <2>4 DEF Units
<1> QED BY <1>1, <1>2

LEMMA UnitsFinite ==
  ASSUME NEW f \in [Threads -> Nat]
  PROVE  IsFiniteSet(Units(f)) /\ Cardinality(Units(f)) \in Nat
<1> DEFINE h == [t \in Threads |-> Cell(t, f[t])]
           C == {h[t] : t \in Threads}
<1>1. IsFiniteSet(Threads)
  <2>1. Threads = 0..WorkerLimit /\ WorkerLimit \in Int /\ 0 \in Int
    BY ThreadFacts DEF Threads, Main, Workers
  <2> QED BY <2>1, FS_Interval
<1> HIDE DEF Threads
<1>2. IsFiniteSet(C)
  <2>1. h \in Surjection(Threads, C)
    BY DEF Surjection
  <2> HIDE DEF h, C
  <2> QED BY <1>1, <2>1, FS_Surjection
<1>3. \A S \in C : IsFiniteSet(S)
  BY CellFacts
<1>4. IsFiniteSet(UNION C)
  <2> HIDE DEF C
  <2> QED BY <1>2, <1>3, FS_UNION
<1>5. \A u : u \in UNION C <=> \E t \in Threads : u \in Cell(t, f[t])
  OBVIOUS
<1>6. UNION C = Units(f)
  <2> HIDE DEF C
  <2> QED BY <1>5, UnitsAre
<1> HIDE DEF C
<1> QED BY <1>4, <1>6, FS_CardinalityType

LEMMA UnitsSet ==
  ASSUME NEW f \in [Threads -> Nat], NEW g \in [Threads -> Nat], NEW t \in Threads,
         \A s \in Threads \ {t} : g[s] = f[s]
  PROVE  Cardinality(Units(f)) + g[t] = Cardinality(Units(g)) + f[t]
<1> DEFINE B == Units(f) \ Cell(t, f[t])
<1> HIDE DEF Threads
<1>1. \A u, s, n : u \in Cell(s, n) => u[1] = s
  BY DEF Cell
<1>2. /\ Units(f) = B \cup Cell(t, f[t]) /\ B \cap Cell(t, f[t]) = {}
  <2>1. Cell(t, f[t]) \subseteq Units(f)
    BY UnitsAre
  <2> QED BY <2>1
<1>3. Units(g) = B \cup Cell(t, g[t]) /\ B \cap Cell(t, g[t]) = {}
  <2>1. \A u : u \in B <=> \E s \in Threads \ {t} : u \in Cell(s, f[s])
    <3>1. \A u : u \in Cell(t, f[t]) => u[1] = t
      BY <1>1
    <3>2. \A u, s : u \in Cell(s, f[s]) => u[1] = s
      BY <1>1
    <3>3. \A u : u \in Units(f) <=> \E s \in Threads : u \in Cell(s, f[s])
      BY UnitsAre
    <3> QED BY <3>1, <3>2, <3>3
  <2>2. \A u : u \in Units(g) <=> \E s \in Threads : u \in Cell(s, g[s])
    BY UnitsAre
  <2>3. \A u : u \in B => u[1] # t
    BY <1>1, <2>1
  <2>4. \A u : u \in Cell(t, g[t]) => u[1] = t
    BY <1>1
  <2> HIDE DEF B
  <2>5. \A u : u \in Units(g) <=> u \in B \/ u \in Cell(t, g[t])
    BY <2>1, <2>2
  <2> QED BY <2>3, <2>4, <2>5
<1>4. f[t] \in Nat /\ g[t] \in Nat
  OBVIOUS
<1>5. IsFiniteSet(B) /\ Cardinality(B) \in Nat
  <2>1. IsFiniteSet(Units(f))
    BY UnitsFinite
  <2>2. IsFiniteSet(B)
    BY <2>1, FS_Difference
  <2> HIDE DEF B
  <2> QED BY <2>2, FS_CardinalityType
<1> HIDE DEF B
<1>6. /\ Cardinality(Units(f)) = Cardinality(B) + f[t]
      /\ Cardinality(Units(g)) = Cardinality(B) + g[t]
  <2>1. \A n \in Nat : B \cap Cell(t, n) = {} => Cardinality(B \cup Cell(t, n)) = Cardinality(B) + n
    <3> SUFFICES ASSUME NEW n \in Nat, B \cap Cell(t, n) = {}
                 PROVE  Cardinality(B \cup Cell(t, n)) = Cardinality(B) + n
      OBVIOUS
    <3>1. IsFiniteSet(Cell(t, n)) /\ Cardinality(Cell(t, n)) = n
      BY CellFacts
    <3>2. Cardinality(B \cup Cell(t, n)) = Cardinality(B) + n - Cardinality(B \cap Cell(t, n))
      BY <1>5, <3>1, FS_Union
    <3>3. Cardinality(B \cap Cell(t, n)) = 0
      BY FS_EmptySet
    <3> QED BY <1>5, <3>2, <3>3
  <2> QED BY <1>2, <1>3, <1>4, <2>1
<1> QED BY <1>4, <1>5, <1>6

LEMMA NoUnits ==
  ASSUME NEW f \in [Threads -> Nat], \A t \in Threads : f[t] = 0
  PROVE  Cardinality(Units(f)) = 0
<1>1. \A t : Cell(t, 0) = {}
  BY DEF Cell
<1> HIDE DEF Threads
<1>2. Units(f) = {}
  BY <1>1, UnitsAre
<1> QED BY <1>2, FS_EmptySet

-----------------------------------------------------------------------------
(* The totals follow what is sent.                                         *)

LEMMA DirAdds ==
  ASSUME NEW e, Sent' = Sent \cup {e}, e[1] = "dir"
  PROVE  /\ SentDirs' = SentDirs \cup {e} /\ SentFiles' = SentFiles /\ SentCharged' = SentCharged
         /\ \A s \in Sent' : s[1] = "summary" => s \in Sent
BY DEF SentDirs, SentFiles, SentCharged

LEMMA FileAdds ==
  ASSUME NEW e, Sent' = Sent \cup {e}, e[1] = "file"
  PROVE  /\ SentDirs' = SentDirs /\ SentFiles' = SentFiles \cup {e}
         /\ SentCharged' = SentCharged \cup (IF e[3] = 1 THEN {e} ELSE {})
         /\ \A s \in Sent' : s[1] = "summary" => s \in Sent
BY DEF SentDirs, SentFiles, SentCharged

(* What threads have not published. *)
Unpublished == Cardinality(Units(tally))
Uncharged == Cardinality(Units(physical))

LEMMA UnpublishedTypes ==
  ASSUME Shape
  PROVE  Unpublished \in Nat /\ Uncharged \in Nat
<1>1. tally \in [Threads -> Nat] /\ physical \in [Threads -> Nat]
  BY TypesAre DEF Shape, Fields
<1> HIDE DEF Threads
<1> QED BY <1>1, UnitsFinite DEF Unpublished, Uncharged

LEMMA CountsAre ==
  ASSUME Counts
  PROVE  /\ IsFiniteSet(SentDirs) /\ Cardinality(SentDirs) = directories_seen
         /\ IsFiniteSet(SentFiles) /\ Cardinality(SentFiles) = files_seen + Unpublished
         /\ IsFiniteSet(SentCharged) /\ Cardinality(SentCharged) = total_allocation + Uncharged
<1>1. SentCharged \subseteq SentFiles
  BY DEF SentCharged
<1> QED BY <1>1, FS_Subset DEF Counts, Unpublished, Uncharged

(* Nothing that is counted, and the totals only move.                      *)
LEMMA CountsMove ==
  ASSUME Counts, SameReports, pc[Main] \notin {"completed", "done"},
         directories_seen' = directories_seen,
         files_seen' + Unpublished' = files_seen + Unpublished,
         total_allocation' + Uncharged' = total_allocation + Uncharged
  PROVE  Counts'
BY DEF Counts, SameReports, Unpublished, Uncharged

LEMMA CountsKept ==
  ASSUME Counts, SameReports, UNCHANGED <<counted, tally, physical>>,
         pc[Main] \in {"completed", "done"} => pc'[Main] \in {"completed", "done"}
  PROVE  Counts'
BY DEF Counts, SameReports, Units, counted

LEMMA DirCounted ==
  ASSUME Counts, NEW e, e[1] = "dir", e \notin Sent, Sent' = Sent \cup {e},
         pc[Main] \notin {"completed", "done"}, directories_seen' = directories_seen + 1,
         UNCHANGED <<files_seen, total_allocation, tally, physical>>
  PROVE  Counts'
<1>1. /\ SentDirs' = SentDirs \cup {e} /\ SentFiles' = SentFiles /\ SentCharged' = SentCharged
      /\ \A s \in Sent' : s[1] = "summary" => s \in Sent
  BY DirAdds
<1>2. e \notin SentDirs
  BY DEF SentDirs
<1>3. IsFiniteSet(SentDirs)' /\ Cardinality(SentDirs)' = directories_seen + 1
  BY <1>1, <1>2, FS_AddElement DEF Counts
<1> QED BY <1>1, <1>3 DEF Counts, Units

LEMMA FileCounted ==
  ASSUME Counts, NEW e, e[1] = "file", e[3] \in {0, 1}, e \notin Sent, Sent' = Sent \cup {e},
         pc[Main] \notin {"completed", "done"}, Shape,
         directories_seen' = directories_seen,
         files_seen' + Unpublished' = files_seen + Unpublished + 1,
         total_allocation' + Uncharged' = total_allocation + Uncharged + e[3]
  PROVE  Counts'
<1>1. /\ SentDirs' = SentDirs /\ SentFiles' = SentFiles \cup {e}
      /\ SentCharged' = SentCharged \cup (IF e[3] = 1 THEN {e} ELSE {})
      /\ \A s \in Sent' : s[1] = "summary" => s \in Sent
  BY FileAdds
<1>2. e \notin SentFiles /\ e \notin SentCharged
  BY DEF SentFiles, SentCharged
<1>3. /\ files_seen \in Nat /\ total_allocation \in Nat /\ Unpublished \in Nat /\ Uncharged \in Nat
  BY UnpublishedTypes, TypesAre DEF Shape, Fields
<1>4. /\ IsFiniteSet(SentDirs) /\ Cardinality(SentDirs) = directories_seen
      /\ IsFiniteSet(SentFiles) /\ Cardinality(SentFiles) = files_seen + Unpublished
      /\ IsFiniteSet(SentCharged) /\ Cardinality(SentCharged) = total_allocation + Uncharged
  BY CountsAre
<1>5. IsFiniteSet(SentFiles)' /\ Cardinality(SentFiles)' = files_seen + Unpublished + 1
  BY <1>1, <1>2, <1>4, FS_AddElement
<1>6. Cardinality(SentCharged)' = total_allocation + Uncharged + e[3]
  <2>1. CASE e[3] = 1
    <3>1. SentCharged' = SentCharged \cup {e}
      BY <1>1, <2>1
    <3>2. Cardinality(SentCharged \cup {e}) = Cardinality(SentCharged) + 1
      BY <1>2, <1>4, FS_AddElement
    <3> QED BY <1>4, <2>1, <3>1, <3>2
  <2>2. CASE e[3] = 0
    <3>1. SentCharged' = SentCharged
      BY <1>1, <2>2
    <3> QED BY <1>3, <1>4, <2>2, <3>1
  <2> QED BY <2>1, <2>2
<1>7. \A s \in Sent' : s[1] # "summary"
  BY <1>1 DEF Counts
<1>8. /\ IsFiniteSet(SentDirs)' /\ Cardinality(SentDirs)' = directories_seen'
      /\ Cardinality(SentFiles)' = files_seen' + Unpublished'
      /\ Cardinality(SentCharged)' = total_allocation' + Uncharged'
  BY <1>1, <1>4, <1>5, <1>6
<1> QED BY <1>5, <1>7, <1>8 DEF Counts, Unpublished, Uncharged

(* A thread that publishes, or counts one more.                            *)
Moved(t, k, n, l, m) == /\ k = tally[t] /\ tally' = [tally EXCEPT ![t] = n]
                        /\ l = physical[t] /\ physical' = [physical EXCEPT ![t] = m]

LEMMA UnitsMove ==
  ASSUME Shape, NEW t \in Threads, NEW n \in Nat, NEW m \in Nat, NEW k \in Nat, NEW l \in Nat,
         Moved(t, k, n, l, m)
  PROVE  \E u, v, x, y \in Nat :
           /\ u = Unpublished /\ v = Unpublished' /\ x = Uncharged /\ y = Uncharged'
           /\ u + n = v + k /\ x + m = y + l
<1>1. tally \in [Threads -> Nat] /\ physical \in [Threads -> Nat]
  BY TypesAre DEF Shape, Fields
<1> HIDE DEF Threads
<1>2. /\ k = tally[t] /\ l = physical[t]
      /\ tally' \in [Threads -> Nat] /\ tally'[t] = n /\ \A s \in Threads \ {t} : tally'[s] = tally[s]
      /\ physical' \in [Threads -> Nat] /\ physical'[t] = m
      /\ \A s \in Threads \ {t} : physical'[s] = physical[s]
  BY <1>1 DEF Moved
<1>3. Unpublished' = Cardinality(Units(tally')) /\ Uncharged' = Cardinality(Units(physical'))
  BY DEF Unpublished, Uncharged, Units
<1>4. Cardinality(Units(tally)) + n = Cardinality(Units(tally')) + k
  BY <1>1, <1>2, UnitsSet
<1>5. Cardinality(Units(physical)) + m = Cardinality(Units(physical')) + l
  BY <1>1, <1>2, UnitsSet
<1>6. Cardinality(Units(tally')) \in Nat /\ Cardinality(Units(physical')) \in Nat
  BY <1>2, UnitsFinite
<1>7. /\ Unpublished \in Nat /\ Unpublished' \in Nat /\ Uncharged \in Nat /\ Uncharged' \in Nat
      /\ Unpublished + n = Unpublished' + k /\ Uncharged + m = Uncharged' + l
  BY <1>3, <1>4, <1>5, <1>6, UnpublishedTypes DEF Unpublished, Uncharged
<1> QED BY <1>7

-----------------------------------------------------------------------------
(* Of the names of one file exactly one is charged.                        *)

(* Whoever is charged, or about to be, has claimed the file.               *)
LEMMA ChargedIsClaimed ==
  ASSUME Charges, NEW id \in Files
  PROVE  /\ \A e : Paid(e, id) => id \in claimed /\ e \in Sent
         /\ \A t \in Threads : Pays(t, id) => id \in claimed
<1>1. id # NoIdentity
  BY WalkAssumption
<1>2. ASSUME NEW e, Paid(e, id) PROVE id \in claimed /\ e \in Sent
  <2>1. e \in SentFiles /\ e \in Sent /\ Identity(FileOf(e)) = id
    BY <1>2 DEF Paid, SentCharged, SentFiles
  <2>2. Settled(FileOf(e), e[3])
    BY <2>1 DEF Charges
  <2> QED BY <1>1, <2>1, <2>2 DEF Settled
<1>3. ASSUME NEW t \in Threads, Pays(t, id) PROVE id \in claimed
  <2>1. Settled(Head(pending[t]), charge[t]) /\ Identity(Head(pending[t])) = id
    BY <1>3 DEF Pays, Charges
  <2> QED BY <1>1, <2>1 DEF Settled
<1> QED BY <1>2, <1>3

LEMMA ChargesKept ==
  ASSUME Charges, UNCHANGED <<setup, claimed>>, SentFiles' = SentFiles,
         \A t \in Threads : \/ pc[t] # "emit" /\ pc'[t] # "emit"
                            \/ /\ pc'[t] = pc[t] /\ charge'[t] = charge[t]
                               /\ pending'[t] = pending[t]
  PROVE  Charges'
<1>1. SentFiles' = SentFiles /\ SentCharged' = SentCharged /\ claimed' = claimed
      /\ \A f : Identity(f)' = Identity(f)
  BY DEF SentCharged, Identity
<1>2. \A t \in Threads : \A id : Pays(t, id)' <=> Pays(t, id)
  BY <1>1 DEF Pays, Identity
<1>3. \A e, id : Paid(e, id)' <=> Paid(e, id)
  BY <1>1 DEF Paid, Identity
<1>4. \A e, id : Paid(e, id) => e \in Sent
  BY DEF Paid, SentCharged, SentFiles
<1>5. \A e, id : Paid(e, id)' => e \in Sent'
  BY DEF Paid, SentCharged, SentFiles
<1>7. \A t \in Threads : pc'[t] = "emit" => Settled(Head(pending[t]), charge[t])' 
  <2> SUFFICES ASSUME NEW t \in Threads, pc'[t] = "emit" PROVE Settled(Head(pending[t]), charge[t])'
    OBVIOUS
  <2>1. pc[t] = "emit" /\ charge'[t] = charge[t] /\ pending'[t] = pending[t]
    OBVIOUS
  <2>2. Settled(Head(pending[t]), charge[t])
    BY <2>1 DEF Charges
  <2> QED BY <1>1, <2>1, <2>2 DEF Settled, Identity
<1> HIDE DEF Threads
<1>8. \A e \in SentFiles' : FileOf(e) \in Files /\ Settled(FileOf(e), e[3])'
  <2> SUFFICES ASSUME NEW e \in SentFiles' PROVE FileOf(e) \in Files /\ Settled(FileOf(e), e[3])'
    OBVIOUS
  <2>1. FileOf(e) \in Files /\ Settled(FileOf(e), e[3])
    BY <1>1 DEF Charges
  <2> QED BY <1>1, <2>1 DEF Settled, Identity
<1>9. \A id \in claimed' : (\E e \in Sent' : Paid(e, id)') \/ (\E t \in Threads : Pays(t, id)')
  <2> HIDE DEF Paid, Pays
  <2> QED BY <1>1, <1>2, <1>3, <1>5 DEF Charges
<1>10. \A id \in Files :
        /\ \A e, g \in Sent' : Paid(e, id)' /\ Paid(g, id)' => e = g
        /\ \A t, s \in Threads : Pays(t, id)' /\ Pays(s, id)' => t = s
        /\ \A e \in Sent', t \in Threads : ~(Paid(e, id)' /\ Pays(t, id)')
  BY <1>2, <1>3, <1>4 DEF Charges
<1> QED BY <1>7, <1>8, <1>9, <1>10 DEF Charges

(* The claim for a name that comes up.                                     *)
LEMMA ClaimFacts ==
  ASSUME setup \in Setup, claimed \subseteq Files, NEW f \in Files, Claim(f), UNCHANGED setup
  PROVE  /\ ChargeOf(f) \in {0, 1} /\ claimed \subseteq claimed'
         /\ IF Identity(f) = NoIdentity THEN ChargeOf(f) = 1 ELSE Identity(f) \in claimed'
         /\ \A id \in claimed' : id \in claimed \/ (id = Identity(f) /\ ChargeOf(f) = 1)
         /\ \A id \in Files : Identity(f) = id /\ ChargeOf(f) = 1 => id \notin claimed
<1>1. NoIdentity \notin claimed
  BY WalkAssumption
<1> QED BY <1>1 DEF ChargeOf, Claim, Identity

(* What comes of the charges when a thread claims a file, when it reports  *)
(* the file it has claimed, and when the walking thread does both.         *)
LEMMA ClaimCharges ==
  ASSUME Charges, Shape, NEW t \in Threads, ClaimFile(t)
  PROVE  Charges'
<1> DEFINE f == Head(pending[t])
           n == ChargeOf(f)
<1>1. /\ pc \in [Threads -> Labels] /\ Fields /\ setup \in Setup /\ Frame(t)
  BY TypesAre, ProcessFrame DEF Shape, Rest, Process
<1> HIDE DEF Threads, Labels, Task, Paths
<1>2. /\ pc[t] \in {"files", "found", "end"} /\ pc'[t] = "emit" /\ f \in Files
      /\ charge'[t] = n /\ UNCHANGED <<delivery, pending, received, setup>> /\ Claim(f)
  BY <1>1 DEF ClaimFile, Goto, Fields, consumer
<1>3. /\ n \in {0, 1} /\ claimed \subseteq claimed'
      /\ IF Identity(f) = NoIdentity THEN n = 1 ELSE Identity(f) \in claimed'
      /\ \A id \in claimed' : id \in claimed \/ (id = Identity(f) /\ n = 1)
      /\ \A id \in Files : Identity(f) = id /\ n = 1 => id \notin claimed
  BY <1>1, <1>2, ClaimFacts DEF Fields
<1>4. SentFiles' = SentFiles /\ SentCharged' = SentCharged /\ Sent' = Sent
  BY <1>2, NothingSaid, SameSays DEF SameReports
<1>5. \A g : Identity(g)' = Identity(g)
  BY <1>2 DEF Identity
<1>6. \A e, id : Paid(e, id)' <=> Paid(e, id)
  BY <1>4, <1>5 DEF Paid
<1>7. /\ \A s \in Threads \ {t} : \A id : Pays(s, id)' <=> Pays(s, id)
      /\ \A id : ~Pays(t, id) /\ (Pays(t, id)' <=> n = 1 /\ Identity(f) = id)
  BY <1>1, <1>2, <1>5 DEF Pays, Identity, Frame
<1>8. \A g, m : Settled(g, m) => Settled(g, m)'
  BY <1>3, <1>5 DEF Settled, Identity
<1>9. \A e \in SentFiles' : FileOf(e) \in Files /\ Settled(FileOf(e), e[3])'
  <2> HIDE DEF Settled
  <2> QED BY <1>4, <1>8 DEF Charges
<1>10. \A s \in Threads : pc'[s] = "emit" => Settled(Head(pending[s]), charge[s])'
  <2>1. Settled(Head(pending[t]), charge[t])'
    BY <1>2, <1>3, <1>5 DEF Settled, Identity
  <2>2. ASSUME NEW s \in Threads \ {t}, pc'[s] = "emit" PROVE Settled(Head(pending[s]), charge[s])'
    <3>1. pc[s] = "emit" /\ pending'[s] = pending[s] /\ charge'[s] = charge[s]
      BY <1>1, <2>2 DEF Frame
    <3>2. Settled(Head(pending[s]), charge[s])
      BY <3>1 DEF Charges
    <3> QED BY <1>3, <1>5, <3>1, <3>2 DEF Settled, Identity
  <2> QED BY <2>1, <2>2
<1> HIDE DEF n, f
<1>11. \A id \in claimed' : (\E e \in Sent' : Paid(e, id)') \/ (\E s \in Threads : Pays(s, id)')
  <2> HIDE DEF Paid, Pays
  <2>1. ASSUME NEW id \in claimed PROVE (\E e \in Sent' : Paid(e, id)') \/ (\E s \in Threads : Pays(s, id)')
    <3>1. (\E e \in Sent : Paid(e, id)) \/ (\E s \in Threads \ {t} : Pays(s, id))
      BY <1>7 DEF Charges
    <3> QED BY <1>4, <1>6, <1>7, <3>1
  <2> QED BY <1>3, <1>7, <2>1
<1>12. ASSUME NEW id \in Files
       PROVE  /\ \A e, g \in Sent' : Paid(e, id)' /\ Paid(g, id)' => e = g
              /\ \A s, r \in Threads : Pays(s, id)' /\ Pays(r, id)' => s = r
              /\ \A e \in Sent', s \in Threads : ~(Paid(e, id)' /\ Pays(s, id)')
  <2>1. /\ \A e, g \in Sent : Paid(e, id) /\ Paid(g, id) => e = g
        /\ \A s, r \in Threads : Pays(s, id) /\ Pays(r, id) => s = r
        /\ \A e \in Sent, s \in Threads : ~(Paid(e, id) /\ Pays(s, id))
    BY DEF Charges
  <2>2. /\ \A e : Paid(e, id) => id \in claimed
        /\ \A s \in Threads : Pays(s, id) => id \in claimed
    BY ChargedIsClaimed
  <2> HIDE DEF Paid, Pays
  <2>3. Pays(t, id)' => (\A e : ~Paid(e, id)) /\ \A s \in Threads : ~Pays(s, id)
    BY <1>3, <1>7, <2>2
  <2> QED BY <1>4, <1>6, <1>7, <2>1, <2>3
<1> QED BY <1>9, <1>10, <1>11, <1>12 DEF Charges

LEMMA EmitCharges ==
  ASSUME alive, Charges, Shape, OnceInv, NEW t \in Threads, EmitFile(t)
  PROVE  Charges'
<1>1. PICK here \in Paths, f \in Files, e \in Event :
        /\ e = <<"file", here, charge[t]>> /\ e[1] = "file" /\ e[2] = here /\ e[3] = charge[t]
        /\ IsPath(e) /\ Says({e}) /\ ~Known(here)
        /\ Process(t) /\ here = Append(dir[t].path, f) /\ f = Head(pending[t]) /\ FileOf(e) = f
        /\ pc[t] = "emit" /\ pc'[t] \in {"progress", ret[t]}
        /\ UNCHANGED <<dir, todo, fresh, found, ret, directories_seen, keys>>
        /\ \A i \in 1..Len(pending[t]) : pending[t][i] = f \/ \E k \in 1..Len(pending'[t]) : pending'[t][k] = pending[t][i]
  BY EmitFileFacts
<1>2. /\ Frame(t) /\ ret[t] \in {"files", "found", "end", "complete"} /\ claimed' = claimed
  BY <1>1, ProcessFrame, TypesAre DEF Shape, Fields, keys
<1> HIDE DEF Threads, Labels, Task, Paths, Event
<1>3. pc'[t] # "emit" /\ setup' = setup
  BY <1>1, <1>2 DEF Frame
<1>4. /\ Sent' = Sent \cup {e} /\ SentFiles' = SentFiles \cup {e} /\ e \notin Sent
      /\ SentCharged' = SentCharged \cup (IF e[3] = 1 THEN {e} ELSE {})
  <2>1. Sent' = Sent \cup {e}
    BY <1>1 DEF Says
  <2>2. e \notin Sent
    BY <1>1 DEF Known
  <2> QED BY <1>1, <2>1, <2>2, FileAdds
<1>5. \A g : Identity(g)' = Identity(g)
  BY <1>3 DEF Identity
<1>6. /\ \A s \in Threads \ {t} : \A id : Pays(s, id)' <=> Pays(s, id)
      /\ \A id : ~Pays(t, id)' /\ (Pays(t, id) <=> e[3] = 1 /\ Identity(f) = id)
  BY <1>1, <1>2, <1>3, <1>5 DEF Pays, Identity, Frame
<1>7. \A g, id : Paid(g, id)' <=> Paid(g, id) \/ (g = e /\ Pays(t, id))
  BY <1>1, <1>4, <1>5, <1>6 DEF Paid
<1>8. \A g, m : Settled(g, m) => Settled(g, m)'
  BY <1>2, <1>5 DEF Settled, Identity
<1>9. \A x \in SentFiles' : FileOf(x) \in Files /\ Settled(FileOf(x), x[3])'
  <2>1. Settled(f, e[3])
    BY <1>1 DEF Charges
  <2> HIDE DEF Settled
  <2> SUFFICES ASSUME NEW x \in SentFiles' PROVE FileOf(x) \in Files /\ Settled(FileOf(x), x[3])'
    OBVIOUS
  <2>2. CASE x = e
    <3>1. Settled(f, e[3])'
      BY <1>8, <2>1
    <3> QED BY <1>1, <2>2, <3>1
  <2>3. CASE x \in SentFiles
    <3>1. FileOf(x) \in Files /\ Settled(FileOf(x), x[3])
      BY <2>3 DEF Charges
    <3> QED BY <1>8, <3>1
  <2> QED BY <1>4, <2>2, <2>3
<1>10. \A s \in Threads : pc'[s] = "emit" => Settled(Head(pending[s]), charge[s])'
  <2> SUFFICES ASSUME NEW s \in Threads \ {t}, pc'[s] = "emit" PROVE Settled(Head(pending[s]), charge[s])'
    BY <1>3
  <2>1. pc[s] = "emit" /\ pending'[s] = pending[s] /\ charge'[s] = charge[s]
    BY <1>2 DEF Frame
  <2>2. Settled(Head(pending[s]), charge[s])
    BY <2>1 DEF Charges
  <2> QED BY <1>2, <1>5, <2>1, <2>2 DEF Settled, Identity
<1> HIDE DEF Paid, Pays
<1>11. \A id \in claimed' : (\E x \in Sent' : Paid(x, id)') \/ (\E s \in Threads : Pays(s, id)')
  BY <1>2, <1>4, <1>6, <1>7 DEF Charges
<1>12. ASSUME NEW id \in Files
       PROVE  /\ \A x, g \in Sent' : Paid(x, id)' /\ Paid(g, id)' => x = g
              /\ \A s, r \in Threads : Pays(s, id)' /\ Pays(r, id)' => s = r
              /\ \A x \in Sent', s \in Threads : ~(Paid(x, id)' /\ Pays(s, id)')
  <2>1. /\ \A x, g \in Sent : Paid(x, id) /\ Paid(g, id) => x = g
        /\ \A s, r \in Threads : Pays(s, id) /\ Pays(r, id) => s = r
        /\ \A x \in Sent, s \in Threads : ~(Paid(x, id) /\ Pays(s, id))
    BY DEF Charges
  <2>2. \A x : Paid(x, id) => x \in Sent
    BY ChargedIsClaimed
  <2> QED BY <1>4, <1>6, <1>7, <2>1, <2>2
<1> QED BY <1>9, <1>10, <1>11, <1>12 DEF Charges

LEMMA WalkFileCharges ==
  ASSUME alive, Charges, WalkSound, Shape, OnceInv, NEW f \in Files, WalkFile(f)
  PROVE  Charges'
<1> DEFINE n == ChargeOf(f)
<1>1. PICK here \in Paths, e \in Event :
        /\ e = <<"file", here, ChargeOf(f)>> /\ e[1] = "file" /\ e[2] = here /\ e[3] = ChargeOf(f)
        /\ IsPath(e) /\ Says({e}) /\ ~Known(here) /\ FileOf(e) = f
        /\ Walk /\ here = Append(dir[Main].path, f)
        /\ pc[Main] = "walking" /\ pc'[Main] = "counted" /\ found[Main] = Root
        /\ todo'[Main] = todo[Main] \ {f} /\ UNCHANGED <<dir, found, callers, directories_seen, issue_keys>>
        /\ files_seen' = files_seen + 1 /\ total_allocation' = total_allocation + ChargeOf(f) /\ Claim(f)
  BY WalkFileFacts
<1>2. /\ Frame(Main) /\ UNCHANGED <<charge, pending>> /\ claimed \subseteq Files /\ setup \in Setup
  BY <1>1, WalkFrame, TypesAre DEF Shape, Fields, Rest
<1> HIDE DEF Threads, Main, Labels, Task, Paths, Event
<1>3. /\ n \in {0, 1} /\ claimed \subseteq claimed'
      /\ IF Identity(f) = NoIdentity THEN n = 1 ELSE Identity(f) \in claimed'
      /\ \A id \in claimed' : id \in claimed \/ (id = Identity(f) /\ n = 1)
      /\ \A id \in Files : Identity(f) = id /\ n = 1 => id \notin claimed
  BY <1>1, <1>2, ClaimFacts DEF Frame
<1> HIDE DEF n
<1>4. /\ Sent' = Sent \cup {e} /\ SentFiles' = SentFiles \cup {e} /\ e \notin Sent /\ e[3] = n
      /\ SentCharged' = SentCharged \cup (IF e[3] = 1 THEN {e} ELSE {})
  <2>1. Sent' = Sent \cup {e}
    BY <1>1 DEF Says
  <2>2. e \notin Sent
    BY <1>1 DEF Known
  <2> QED BY <1>1, <2>1, <2>2, FileAdds DEF n
<1>5. \A g : Identity(g)' = Identity(g)
  BY <1>2 DEF Identity, Frame
<1>6. \A s \in Threads : /\ \A id : Pays(s, id)' <=> Pays(s, id)
                         /\ pc'[s] = "emit" => pc[s] = "emit"
  BY <1>1, <1>2, <1>5 DEF Pays, Identity, Frame
<1>7. \A g, id : Paid(g, id)' <=> Paid(g, id) \/ (g = e /\ n = 1 /\ Identity(f) = id)
  BY <1>1, <1>4, <1>5 DEF Paid
<1>8. \A g, m : Settled(g, m) => Settled(g, m)'
  BY <1>3, <1>5 DEF Settled, Identity
<1>9. \A x \in SentFiles' : FileOf(x) \in Files /\ Settled(FileOf(x), x[3])'
  <2>1. Settled(f, e[3])'
    BY <1>3, <1>4, <1>5 DEF Settled
  <2> HIDE DEF Settled
  <2> QED BY <1>1, <1>4, <1>8, <2>1 DEF Charges
<1>10. \A s \in Threads : pc'[s] = "emit" => Settled(Head(pending[s]), charge[s])'
  <2> SUFFICES ASSUME NEW s \in Threads, pc'[s] = "emit" PROVE Settled(Head(pending[s]), charge[s])'
    OBVIOUS
  <2>1. pc[s] = "emit" /\ pending'[s] = pending[s] /\ charge'[s] = charge[s]
    BY <1>2, <1>6
  <2>2. Settled(Head(pending[s]), charge[s])
    BY <2>1 DEF Charges
  <2> QED BY <1>3, <1>5, <2>1, <2>2 DEF Settled, Identity
<1> HIDE DEF Paid, Pays
<1>11. \A id \in claimed' : (\E x \in Sent' : Paid(x, id)') \/ (\E s \in Threads : Pays(s, id)')
  <2>1. ASSUME NEW id \in claimed PROVE (\E x \in Sent' : Paid(x, id)') \/ (\E s \in Threads : Pays(s, id)')
    <3>1. (\E x \in Sent : Paid(x, id)) \/ (\E s \in Threads : Pays(s, id))
      BY DEF Charges
    <3> QED BY <1>4, <1>6, <1>7, <3>1
  <2>2. \A id : id = Identity(f) /\ n = 1 => \E x \in Sent' : Paid(x, id)'
    BY <1>4, <1>7
  <2> QED BY <1>3, <2>1, <2>2
<1>12. ASSUME NEW id \in Files
       PROVE  /\ \A x, g \in Sent' : Paid(x, id)' /\ Paid(g, id)' => x = g
              /\ \A s, r \in Threads : Pays(s, id)' /\ Pays(r, id)' => s = r
              /\ \A x \in Sent', s \in Threads : ~(Paid(x, id)' /\ Pays(s, id)')
  <2>1. /\ \A x, g \in Sent : Paid(x, id) /\ Paid(g, id) => x = g
        /\ \A s, r \in Threads : Pays(s, id) /\ Pays(r, id) => s = r
        /\ \A x \in Sent, s \in Threads : ~(Paid(x, id) /\ Pays(s, id))
    BY DEF Charges
  <2>2. /\ \A x : Paid(x, id) => x \in Sent /\ id \in claimed
        /\ \A s \in Threads : Pays(s, id) => id \in claimed
    BY ChargedIsClaimed
  <2>3. n = 1 /\ Identity(f) = id => (\A x : ~Paid(x, id)) /\ \A s \in Threads : ~Pays(s, id)
    BY <1>3, <2>2
  <2> QED BY <1>4, <1>6, <1>7, <2>1, <2>2, <2>3
<1> QED BY <1>9, <1>10, <1>11, <1>12 DEF Charges

-----------------------------------------------------------------------------
(* All that is kept of what was sent, step by step.                        *)

LEMMA DirEntryRecords ==
  ASSUME alive, Records, WalkSound, Shape, OnceInv, NEW t \in Threads, DirEntry(t),
         pc[Main] \notin {"completed", "done"}
  PROVE  Records'
<1>1. PICK here \in Paths, e \in Event :
        /\ e = <<"dir", here>> /\ e[1] = "dir" /\ e[2] = here /\ IsPath(e) /\ Says({e}) /\ ~Known(here)
        /\ Process(t) /\ here = Append(dir[t].path, found[t])
        /\ pc[t] = "found" /\ pc'[t] \in {"cycle", "entries"} /\ directories_seen' = directories_seen + 1
        /\ UNCHANGED <<dir, todo, pending, ret, totals, files_seen, total_allocation, keys>>
        /\ \A i \in 1..Len(fresh[t]) : i \in 1..Len(fresh'[t]) /\ fresh'[t][i] = fresh[t][i]
        /\ ToEnter(here) => \E i \in 1..Len(fresh'[t]) : fresh'[t][i].path = here
  BY DirEntryFacts
<1>2. Frame(t) /\ UNCHANGED <<claimed, issue_keys, charge, tally, physical>>
  BY <1>1, ProcessFrame DEF keys, totals
<1> HIDE DEF Threads, Main, Paths, Event
<1>3. Sent' = Sent \cup {e} /\ e \notin Sent
  BY <1>1 DEF Says, Known
<1>4. Counts'
  BY <1>1, <1>2, <1>3, DirCounted DEF Records
<1>5. Issues'
  BY <1>2, <1>3, IssuesKept DEF Records
<1>6. Charges'
  <2>1. SentFiles' = SentFiles
    BY <1>1, <1>3, DirAdds
  <2>2. \A s \in Threads : \/ pc[s] # "emit" /\ pc'[s] # "emit"
                           \/ pc'[s] = pc[s] /\ charge'[s] = charge[s] /\ pending'[s] = pending[s]
    BY <1>1, <1>2 DEF Frame
  <2> QED BY <1>2, <2>1, <2>2, ChargesKept DEF Records, Frame
<1> QED BY <1>4, <1>5, <1>6 DEF Records

LEMMA EmitFileRecords ==
  ASSUME alive, Records, Shape, OnceInv, NEW t \in Threads, EmitFile(t),
         pc[Main] \notin {"completed", "done"}
  PROVE  Records'
<1>1. PICK here \in Paths, f \in Files, e \in Event :
        /\ e = <<"file", here, charge[t]>> /\ e[1] = "file" /\ e[2] = here /\ e[3] = charge[t]
        /\ IsPath(e) /\ Says({e}) /\ ~Known(here)
        /\ Process(t) /\ here = Append(dir[t].path, f) /\ f = Head(pending[t]) /\ FileOf(e) = f
        /\ pc[t] = "emit" /\ pc'[t] \in {"progress", ret[t]}
        /\ UNCHANGED <<dir, todo, fresh, found, ret, directories_seen, keys>>
        /\ \A i \in 1..Len(pending[t]) : pending[t][i] = f \/ \E k \in 1..Len(pending'[t]) : pending'[t][k] = pending[t][i]
  BY EmitFileFacts
<1>2. /\ tally[t] \in Nat /\ physical[t] \in Nat /\ files_seen \in Nat /\ total_allocation \in Nat
  BY TypesAre DEF Shape, Fields
<1> HIDE DEF Threads, Main, Paths, Event
<1>3. Sent' = Sent \cup {e} /\ e \notin Sent
  BY <1>1 DEF Says, Known
<1>4. charge[t] \in {0, 1}
  <2>1. Settled(Head(pending[t]), charge[t])
    BY <1>1 DEF Records, Charges
  <2> QED BY <2>1 DEF Settled
<1>5. PICK k \in Nat, l \in Nat, c \in Nat : k = tally[t] /\ l = physical[t] /\ c = charge[t]
  BY <1>2, <1>4
<1>6. /\ files_seen' + Unpublished' = files_seen + Unpublished + 1
      /\ total_allocation' + Uncharged' = total_allocation + Uncharged + e[3]
  <2>1. CASE k + 1 >= PublishAt
    <3>1. /\ files_seen' = files_seen + k + 1 /\ total_allocation' = total_allocation + l + c
          /\ Moved(t, k, 0, l, 0)
      BY <1>5, <2>1 DEF EmitFile, Moved
    <3>2. PICK u, v, x, y \in Nat :
            /\ u = Unpublished /\ v = Unpublished' /\ x = Uncharged /\ y = Uncharged'
            /\ u + 0 = v + k /\ x + 0 = y + l
      <4>1. Moved(t, k, 0, l, 0) /\ 0 \in Nat
        BY <3>1
      <4> QED BY <4>1, UnitsMove
    <3>3. files_seen' + v = files_seen + u + 1 /\ total_allocation' + y = total_allocation + x + c
      BY <1>2, <3>1, <3>2
    <3> QED BY <1>1, <1>5, <3>2, <3>3
  <2>2. CASE ~(k + 1 >= PublishAt)
    <3>1. PICK n \in Nat, m \in Nat : n = k + 1 /\ m = l + c
      BY <1>5
    <3>2. /\ files_seen' = files_seen /\ total_allocation' = total_allocation
          /\ Moved(t, k, n, l, m)
      BY <1>5, <2>2, <3>1 DEF EmitFile, Moved
    <3>3. PICK u, v, x, y \in Nat :
            /\ u = Unpublished /\ v = Unpublished' /\ x = Uncharged /\ y = Uncharged'
            /\ u + n = v + k /\ x + m = y + l
      <4>1. Moved(t, k, n, l, m)
        BY <3>2
      <4> QED BY <4>1, UnitsMove
    <3>4. u + n = v + k /\ x + m = y + l
      BY <3>3
    <3>5. files_seen' + v = files_seen + u + 1 /\ total_allocation' + y = total_allocation + x + c
      <4>1. v = u + 1 /\ y = x + c
        BY <3>1, <3>4
      <4>2. files_seen' = files_seen /\ total_allocation' = total_allocation
        BY <3>2
      <4> QED BY <1>2, <4>1, <4>2
    <3> QED BY <1>1, <1>5, <3>3, <3>5
  <2> QED BY <2>1, <2>2
<1>7. Counts'
  BY <1>1, <1>3, <1>4, <1>6, FileCounted DEF Records
<1>8. Issues'
  BY <1>1, <1>3, IssuesKept DEF Records, keys
<1>9. Charges'
  BY EmitCharges DEF Records
<1> QED BY <1>7, <1>8, <1>9 DEF Records

LEMMA EndDirectoryCounts ==
  ASSUME Counts, SameReports, Shape, NEW t \in Threads, EndDirectory(t),
         pc[Main] \notin {"completed", "done"}
  PROVE  Counts'
<1>1. /\ tally[t] \in Nat /\ physical[t] \in Nat /\ files_seen \in Nat /\ total_allocation \in Nat
  BY TypesAre DEF Shape, Fields
<1> HIDE DEF Threads, Main
<1>2. PICK k \in Nat, l \in Nat : k = tally[t] /\ l = physical[t]
  BY <1>1
<1>3. /\ files_seen' = files_seen + k /\ total_allocation' = total_allocation + l
      /\ Moved(t, k, 0, l, 0) /\ directories_seen' = directories_seen
  BY <1>2 DEF EndDirectory, Moved
<1>4. PICK u, v, x, y \in Nat :
        /\ u = Unpublished /\ v = Unpublished' /\ x = Uncharged /\ y = Uncharged'
        /\ u + 0 = v + k /\ x + 0 = y + l
  <2>1. Moved(t, k, 0, l, 0) /\ 0 \in Nat
    BY <1>3
  <2> QED BY <2>1, UnitsMove
<1>5. files_seen' + v = files_seen + u /\ total_allocation' + y = total_allocation + x
  BY <1>1, <1>3, <1>4
<1>6. /\ files_seen' + Unpublished' = files_seen + Unpublished
      /\ total_allocation' + Uncharged' = total_allocation + Uncharged
  BY <1>4, <1>5
<1> QED BY <1>3, <1>6, CountsMove

LEMMA ProcessRecords ==
  ASSUME alive, Records, WalkSound, WalkInv, OnceInv, NEW t \in Threads, Process(t)
  PROVE  Records'
<1>1. Shape /\ WireOK /\ Frame(t) /\ pc \in [Threads -> Labels] /\ pc[t] \in Working
  BY ProcessFrame, TypesAre DEF WalkInv, Shape, Rest
<1>2. pc[Main] \notin {"completed", "done"}
  BY <1>1, WalkingIsEarly DEF Ending
<1> HIDE DEF Threads, Main, Labels
<1>3. CASE DirEntry(t) \/ EmitFile(t)
  BY <1>1, <1>2, <1>3, DirEntryRecords, EmitFileRecords
<1>4. ASSUME ~DirEntry(t), ~EmitFile(t) PROVE Records'
  <2>1. /\ Whispers(t) /\ Issues'
        /\ ~ClaimFile(t) /\ ~EndDirectory(t) => Quietly(t)
        /\ ~ClaimFile(t) => pc[t] # "emit" /\ pc'[t] # "emit"
    BY <1>1, <1>4, ProcessNotes DEF Records
  <2>2. SameReports
    BY <1>1, <2>1, WhisperSays DEF Frame
  <2>3. CASE ClaimFile(t)
    <3>1. UNCHANGED <<counted, tally, physical>>
      BY <2>3 DEF ClaimFile
    <3>2. Counts'
      BY <1>2, <2>2, <3>1, CountsKept DEF Records
    <3> QED BY <1>1, <2>1, <2>3, <3>2, ClaimCharges DEF Records
  <2>4. ASSUME ~ClaimFile(t) PROVE Records'
    <3>1. claimed' = claimed
      <4>1. CASE EndDirectory(t)
        BY <4>1 DEF EndDirectory, keys
      <4> QED BY <2>1, <2>4, <4>1 DEF Quietly
    <3>2. Charges'
      <4>1. \A s \in Threads : \/ pc[s] # "emit" /\ pc'[s] # "emit"
                               \/ pc'[s] = pc[s] /\ charge'[s] = charge[s] /\ pending'[s] = pending[s]
        BY <1>1, <2>1, <2>4 DEF Frame
      <4>2. setup' = setup /\ SentFiles' = SentFiles
        BY <1>1, <2>2 DEF Frame, SameReports
      <4> QED BY <3>1, <4>1, <4>2, ChargesKept DEF Records
    <3>3. Counts'
      <4>1. CASE EndDirectory(t)
        BY <1>1, <1>2, <2>2, <4>1, EndDirectoryCounts DEF Records
      <4>2. CASE ~EndDirectory(t)
        BY <1>2, <2>1, <2>2, <2>4, <4>2, CountsKept DEF Records, Quietly
      <4> QED BY <4>1, <4>2
    <3> QED BY <2>1, <3>2, <3>3 DEF Records
  <2> QED BY <2>3, <2>4
<1> QED BY <1>3, <1>4

LEMMA SameUnits ==
  ASSUME UNCHANGED <<tally, physical>>
  PROVE  Unpublished' = Unpublished /\ Uncharged' = Uncharged
BY DEF Unpublished, Uncharged, Units

LEMMA WalkFileRecords ==
  ASSUME alive, Records, WalkSound, Shape, OnceInv, NEW f \in Files, WalkFile(f)
  PROVE  Records'
<1>1. PICK here \in Paths, e \in Event :
        /\ e = <<"file", here, ChargeOf(f)>> /\ e[1] = "file" /\ e[2] = here /\ e[3] = ChargeOf(f)
        /\ IsPath(e) /\ Says({e}) /\ ~Known(here) /\ FileOf(e) = f
        /\ Walk /\ here = Append(dir[Main].path, f)
        /\ pc[Main] = "walking" /\ pc'[Main] = "counted" /\ found[Main] = Root
        /\ todo'[Main] = todo[Main] \ {f} /\ UNCHANGED <<dir, found, callers, directories_seen, issue_keys>>
        /\ files_seen' = files_seen + 1 /\ total_allocation' = total_allocation + ChargeOf(f) /\ Claim(f)
  BY WalkFileFacts
<1>2. /\ UNCHANGED <<tally, physical>>
      /\ files_seen \in Nat /\ total_allocation \in Nat
  BY <1>1, WalkFrame, TypesAre DEF Shape, Fields
<1> HIDE DEF Threads, Main, Paths, Event
<1>3. Sent' = Sent \cup {e} /\ e \notin Sent
  BY <1>1 DEF Says, Known
<1>4. PICK c \in Nat : c = e[3] /\ e[3] \in {0, 1}
  BY <1>1 DEF ChargeOf
<1>5. PICK u \in Nat, x \in Nat : u = Unpublished /\ x = Uncharged
  BY UnpublishedTypes
<1>6. u = Unpublished' /\ x = Uncharged'
  BY <1>2, <1>5, SameUnits
<1>7. files_seen' = files_seen + 1 /\ total_allocation' = total_allocation + c
  BY <1>1, <1>4
<1>8. files_seen' + u = files_seen + u + 1 /\ total_allocation' + x = total_allocation + x + c
  BY <1>2, <1>7
<1>9. /\ files_seen' + Unpublished' = files_seen + Unpublished + 1
      /\ total_allocation' + Uncharged' = total_allocation + Uncharged + e[3]
  BY <1>4, <1>5, <1>6, <1>8
<1>10. Counts'
  BY <1>1, <1>3, <1>4, <1>9, FileCounted DEF Records
<1>11. Issues'
  BY <1>1, <1>3, IssuesKept DEF Records
<1>12. Charges'
  BY WalkFileCharges DEF Records
<1> QED BY <1>10, <1>11, <1>12 DEF Records

LEMMA WalkRecords ==
  ASSUME alive, Records, WalkSound, Shape, OnceInv, Walk
  PROVE  Records'
<1>1. /\ Frame(Main) /\ UNCHANGED <<tally, physical, charge, pending>> /\ WireOK
      /\ pc[Main] \in Walking /\ pc'[Main] \in Walking /\ Main \in Threads
  BY WalkFrame DEF Shape
<1> HIDE DEF Threads, Main
<1>2. pc[Main] \notin {"completed", "done"} /\ pc[Main] # "emit" /\ pc'[Main] # "emit"
  BY <1>1 DEF Walking
<1>3. \A s \in Threads : \/ pc[s] # "emit" /\ pc'[s] # "emit"
                         \/ pc'[s] = pc[s] /\ charge'[s] = charge[s] /\ pending'[s] = pending[s]
  BY <1>1, <1>2 DEF Frame
<1>4. ASSUME NEW d \in Dirs, WalkDir(d) PROVE Records'
  <2>1. PICK here \in Paths, e \in Event :
          /\ e = <<"dir", here>> /\ e[1] = "dir" /\ e[2] = here
          /\ IsPath(e) /\ Says({e}) /\ ~Known(here)
          /\ Walk /\ here = Append(dir[Main].path, d) /\ d # Root
          /\ pc[Main] = "walking" /\ pc'[Main] = "counted" /\ found'[Main] = d
          /\ todo'[Main] = todo[Main] \ {d} /\ UNCHANGED <<dir, callers, files_seen, total_allocation, keys>>
          /\ directories_seen' = directories_seen + 1
    BY <1>4, WalkDirFacts
  <2> HIDE DEF Paths, Event
  <2>2. Sent' = Sent \cup {e} /\ e \notin Sent
    BY <2>1 DEF Says, Known
  <2>3. Counts'
    BY <1>1, <1>2, <2>1, <2>2, DirCounted DEF Records
  <2>4. Issues' /\ claimed' = claimed
    BY <2>1, <2>2, IssuesKept DEF Records, keys
  <2>5. SentFiles' = SentFiles
    BY <2>1, <2>2, DirAdds
  <2>6. Charges'
    BY <1>1, <1>3, <2>4, <2>5, ChargesKept DEF Records, Frame
  <2> QED BY <2>3, <2>4, <2>6 DEF Records
<1>5. ASSUME NEW f \in Files, WalkFile(f) PROVE Records'
  BY <1>5, WalkFileRecords
<1>6. ASSUME \A d \in Dirs : ~WalkDir(d), \A f \in Files : ~WalkFile(f) PROVE Records'
  <2>1. Quietly(Main) /\ Issues'
    BY <1>6, WalkNotes DEF Records
  <2>2. SameReports
    BY <1>1, <2>1, WhisperSays DEF Quietly, Frame
  <2>3. Counts'
    BY <1>2, <2>1, <2>2, CountsKept DEF Records, Quietly
  <2>4. Charges'
    BY <1>1, <1>3, <2>1, <2>2, ChargesKept DEF Records, Quietly, Frame, SameReports
  <2> QED BY <2>1, <2>3, <2>4 DEF Records
<1> QED BY <1>4, <1>5, <1>6

(* A step that leaves the counters, the claims and the gathered files.     *)
LEMMA AsideRecords ==
  ASSUME alive, Records, WireOK, NEW t \in Threads,
         UNCHANGED <<counted, keys, totals, setup, received>>,
         \/ Flush(t) \/ UNCHANGED delivery
         \/ \E e \in Event : Emit(t, e) /\ Closing(e),
         pc[Main] \in {"completed", "done"} => pc'[Main] \in {"completed", "done"},
         \A s \in Threads : pc'[s] = pc[s] \/ (pc[s] # "emit" /\ pc'[s] # "emit")
  PROVE  Records'
<1>1. /\ UNCHANGED <<claimed, issue_keys, tally, physical, charge, pending>>
      /\ \A s \in Threads : \/ pc[s] # "emit" /\ pc'[s] # "emit"
                            \/ pc'[s] = pc[s] /\ charge'[s] = charge[s] /\ pending'[s] = pending[s]
  BY DEF keys, totals
<1> HIDE DEF Threads, Main, Event
<1>2. CASE Flush(t) \/ UNCHANGED delivery
  <2>1. SameReports
    BY <1>2, WhisperSays DEF Whispers
  <2>2. Counts' /\ Issues'
    BY <1>1, <2>1, CountsKept, IssuesKept DEF Records, SameReports
  <2>3. Charges'
    BY <1>1, <2>1, ChargesKept DEF Records, SameReports
  <2> QED BY <2>2, <2>3 DEF Records
<1>3. ASSUME NEW e \in Event, Emit(t, e), Closing(e) PROVE Records'
  <2>1. Sent' = Sent \cup {e} /\ e[1] \in {"progress", "cancelled", "completed", "summary"}
    BY <1>3, EmitSays DEF Says, Closing
  <2>2. SentDirs' = SentDirs /\ SentFiles' = SentFiles /\ SentCharged' = SentCharged
    BY <2>1 DEF SentDirs, SentFiles, SentCharged
  <2>3. \A s \in Sent' : s[1] = "summary" =>
          /\ s = <<"summary", files_seen', directories_seen', total_allocation'>>
          /\ pc'[Main] \in {"completed", "done"}
    <3>1. \A s \in Sent : s[1] = "summary" =>
            /\ s = <<"summary", files_seen', directories_seen', total_allocation'>>
            /\ pc'[Main] \in {"completed", "done"}
      BY DEF Records, Counts, counted
    <3>2. e[1] = "summary" =>
            /\ e = <<"summary", files_seen', directories_seen', total_allocation'>>
            /\ pc'[Main] \in {"completed", "done"}
      BY <1>3 DEF Closing, counted
    <3> QED BY <2>1, <3>1, <3>2
  <2>4. Counts'
    BY <1>1, <2>2, <2>3 DEF Records, Counts, Units, counted
  <2>5. Issues'
    BY <1>1, <2>1, IssuesKept DEF Records
  <2>6. Charges'
    BY <1>1, <2>2, ChargesKept DEF Records
  <2> QED BY <2>4, <2>5, <2>6 DEF Records
<1> QED BY <1>2, <1>3

LEMMA StartRecords ==
  ASSUME alive, Records, Shape, OnceInv, StartScan \/ StartInvalid
  PROVE  Records'
<1> DEFINE root == <<Root>>
           a == <<"started">>
           b == <<"dir", root>>
           c == <<"progress", 1>>
           i == <<"issue", "root", root>>
           z == <<"summary", 0, 0, 0>>
<1>1. /\ a[1] = "started" /\ b[1] = "dir" /\ c[1] = "progress" /\ i[1] = "issue" /\ z[1] = "summary"
  OBVIOUS
<1>2. \/ Opening({a, b, c}) /\ directories_seen' = 1 /\ pc'[Main] \in {"chain", "walk"}
      \/ Opening({a, i, z}) /\ directories_seen' = directories_seen /\ pc'[Main] = "completed"
  BY StartFacts, InvalidFacts
<1>3. PICK new : /\ Opening(new)
                 /\ \/ new = {a, b, c} /\ directories_seen' = 1 /\ pc'[Main] \in {"chain", "walk"}
                    \/ new = {a, i, z} /\ directories_seen' = directories_seen /\ pc'[Main] = "completed"
  BY <1>2
<1> HIDE DEF a, b, c, i, z, Threads, Main
<1>4. /\ Sent = {} /\ Sent' = new /\ UNCHANGED <<totals, keys, files_seen, total_allocation, setup>>
      /\ pc[Main] = "start" /\ \A s \in Threads \ {Main} : pc'[s] = pc[s]
  BY <1>3 DEF Opening, Says
<1>5. /\ UNCHANGED <<tally, physical, charge, pending, claimed, issue_keys>>
  BY <1>4 DEF totals, keys
<1>6. /\ SentDirs = {} /\ SentFiles = {} /\ SentCharged = {}
      /\ SentFiles' = {} /\ SentCharged' = {}
      /\ \/ SentDirs' = {b} /\ directories_seen' = 1 /\ \A e \in Sent' : e[1] # "summary"
         \/ /\ SentDirs' = {} /\ directories_seen' = directories_seen /\ pc'[Main] = "completed"
            /\ \A e \in Sent' : e[1] = "summary" => e = z
  BY <1>1, <1>3, <1>4 DEF SentDirs, SentFiles, SentCharged
<1>7. directories_seen = 0 /\ files_seen = 0 /\ total_allocation = 0 /\ Unpublished = 0 /\ Uncharged = 0
  <2>1. PICK u \in Nat, x \in Nat : u = Unpublished /\ x = Uncharged
    BY UnpublishedTypes
  <2>2. /\ directories_seen = 0 /\ files_seen + u = 0 /\ total_allocation + x = 0
    BY <1>6, <2>1, CountsAre, FS_EmptySet DEF Records
  <2>3. files_seen \in Nat /\ total_allocation \in Nat
    BY TypesAre DEF Shape, Fields
  <2>4. files_seen = 0 /\ total_allocation = 0 /\ u = 0 /\ x = 0
    BY <2>2, <2>3
  <2> QED BY <2>1, <2>2, <2>4
<1>8. Counts'
  <2>1. IsFiniteSet(SentDirs)' /\ Cardinality(SentDirs)' = directories_seen'
    BY <1>6, <1>7, FS_EmptySet, FS_Singleton
  <2>2. Unpublished' = 0 /\ Uncharged' = 0 /\ files_seen' = 0 /\ total_allocation' = 0
    BY <1>4, <1>5, <1>7, SameUnits
  <2>3. /\ IsFiniteSet(SentFiles)' /\ Cardinality(SentFiles)' = files_seen' + Unpublished'
        /\ Cardinality(SentCharged)' = total_allocation' + Uncharged'
    BY <1>6, <2>2, FS_EmptySet
  <2>4. \A e \in Sent' : e[1] = "summary" =>
          /\ e = <<"summary", files_seen', directories_seen', total_allocation'>>
          /\ pc'[Main] \in {"completed", "done"}
    BY <1>6, <1>7, <2>2 DEF z
  <2> QED BY <2>1, <2>3, <2>4 DEF Counts, Unpublished, Uncharged
<1>9. Issues'
  BY <1>4, <1>5, IssuesKept DEF Records
<1>10. Charges'
  <2>1. \A s \in Threads : \/ pc[s] # "emit" /\ pc'[s] # "emit"
                           \/ pc'[s] = pc[s] /\ charge'[s] = charge[s] /\ pending'[s] = pending[s]
    BY <1>3, <1>4, <1>5
  <2> QED BY <1>4, <1>5, <1>6, <2>1, ChargesKept DEF Records
<1> QED BY <1>8, <1>9, <1>10 DEF Records

LEMMA InitRecords ==
  ASSUME Init
  PROVE  Records /\ Sent = {}
<1>1. /\ \A t \in Threads : buffer[t] = <<>> /\ pc[t] # "emit" /\ tally[t] = 0 /\ physical[t] = 0
      /\ tally \in [Threads -> Nat] /\ physical \in [Threads -> Nat]
      /\ channel = <<>> /\ received = <<>> /\ issue_keys = {} /\ claimed = {}
      /\ files_seen = 0 /\ directories_seen = 0 /\ total_allocation = 0
  BY DEF Init
<1> HIDE DEF Threads, Main
<1>2. Sent = {}
  <2>1. \A k : k \notin 1..Len(channel)
    BY <1>1
  <2> QED BY <1>1, <2>1, SentIs
<1>3. SentDirs = {} /\ SentFiles = {} /\ SentCharged = {}
  BY <1>2 DEF SentDirs, SentFiles, SentCharged
<1>4. Cardinality(Units(tally)) = 0 /\ Cardinality(Units(physical)) = 0
  BY <1>1, NoUnits
<1>5. Counts
  BY <1>1, <1>2, <1>3, <1>4, FS_EmptySet DEF Counts
<1>6. Charges
  BY <1>1, <1>2, <1>3 DEF Charges, Pays
<1> QED BY <1>1, <1>2, <1>5, <1>6 DEF Records, Issues

LEMMA StepRecords ==
  ASSUME alive, Records, WalkSound, WalkInv, OnceInv, [Next]_vars, ~DropReceiver
  PROVE  Records'
<1>1. Shape /\ WireOK
  BY DEF WalkInv, Shape
<1>2. CASE Receive \/ Cancel
  <2>1. Sent' = Sent
    <3>1. CASE Receive
      BY <1>1, <3>1, ReceiveSays
    <3>2. CASE Cancel
      BY <3>2, NothingSaid DEF Cancel, consumer
    <3> QED BY <1>2, <3>1, <3>2
  <2>2. UNCHANGED <<counted, claimed, issue_keys, tally, physical, charge, pending, pc, setup>>
    BY <1>2 DEF Receive, Cancel, counters, keys, local, totals, consumer
  <2>3. SameReports
    BY <2>1, SameSays
  <2>4. Counts' /\ Issues'
    BY <2>2, <2>3, CountsKept, IssuesKept DEF Records, SameReports
  <2>5. Charges'
    BY <2>2, <2>3, ChargesKept DEF Records, SameReports
  <2> QED BY <2>4, <2>5 DEF Records
<1> HIDE DEF Threads, Main
<1>3. ASSUME NEW t \in Threads, Opens(t) \/ Closes(t) \/ Passes(t) PROVE Records'
  <2>1. /\ UNCHANGED <<counted, keys, totals, setup, received>>
        /\ Flush(t) \/ UNCHANGED delivery \/ \E e \in Event : Emit(t, e) /\ Closing(e)
    BY <1>3 DEF Opens, Closes, Passes, Bookkeeping, counters, consumer
  <2>2. /\ pc[Main] \in {"completed", "done"} => pc'[Main] \in {"completed", "done"}
        /\ \A s \in Threads : pc'[s] = pc[s] \/ (pc[s] # "emit" /\ pc'[s] # "emit")
    <3>1. CASE Opens(t) \/ Closes(t)
      <4>1. /\ pc[t] \in {"take", "chain", "complete"} /\ pc'[t] \in {"open", "complete", "look", "chain"}
            /\ \A s \in Threads \ {t} : pc'[s] = pc[s]
        BY <3>1 DEF Opens, Closes
      <4> QED BY <4>1, ThreadFacts
    <3>2. CASE Passes(t)
      <4>1. \A l \in Resting : l # "emit"
        BY DEF Resting
      <4> QED BY <3>2, <4>1 DEF Passes, Settling
    <3> QED BY <1>3, <3>1, <3>2
  <2> QED BY <1>1, <2>1, <2>2, AsideRecords
<1> QED BY <1>1, <1>2, <1>3, StepKinds, StartRecords, WalkRecords, ProcessRecords

-----------------------------------------------------------------------------
(* What the consumer has heard at the end is all that there is.            *)
PathsOf(kind) == {received[i][2] : i \in OfKind(received, kind)}
IssuesOf == {received[i][3] : i \in OfKind(received, "issue")}
KnownOf == PathsOf("dir") \cup PathsOf("file")
ChargedOf == {i \in OfKind(received, "file") : received[i][3] = 1}
IdAt(n) == setup.identity[Last(received[n][2])]
SameFile(i, k) == IF IdAt(i) = NoIdentity THEN i = k ELSE IdAt(i) = IdAt(k)

Heard ==
  /\ pc[Main] = "done" /\ <<"completed">> \in Sent
  /\ \A e : e \in Sent <=> \E i \in 1..Len(received) : e = received[i]
  /\ \A t \in Threads : pc[t] \in Idle
  /\ \A p, e : ~Left(p, e)
  /\ Unpublished = 0 /\ Uncharged = 0

LEMMA EventKinds ==
  ASSUME NEW e \in Event
  PROVE  /\ e[1] = "completed" => e = <<"completed">>
         /\ e[1] = "dir" => e = <<"dir", e[2]>> /\ e[2] \in Paths
         /\ e[1] = "file" => e[2] \in Paths /\ e[3] \in Nat
<1>1. e \in {"summary"} \X Nat \X Nat \X Nat => e[1] = "summary"
  OBVIOUS
<1>2. e \in {"issue"} \X Kinds \X Paths => e[1] = "issue"
  OBVIOUS
<1>3. e \in {"file"} \X Paths \X Nat => e[1] = "file" /\ e[2] \in Paths /\ e[3] \in Nat
  OBVIOUS
<1>4. e \in {"dir"} \X Paths => e[1] = "dir" /\ e = <<"dir", e[2]>> /\ e[2] \in Paths
  OBVIOUS
<1>5. e \in {"progress"} \X Nat => e[1] = "progress"
  OBVIOUS
<1>6. e = <<"started">> \/ e = <<"completed">> \/ e = <<"cancelled">> => e[1] \in {"started", "completed", "cancelled"}
  OBVIOUS
<1>7. e = <<"started">> => e[1] = "started"
  OBVIOUS
<1>8. e = <<"cancelled">> => e[1] = "cancelled"
  OBVIOUS
<1>9. \/ e \in {"summary"} \X Nat \X Nat \X Nat \/ e \in {"issue"} \X Kinds \X Paths
      \/ e \in {"file"} \X Paths \X Nat \/ e \in {"dir"} \X Paths \/ e \in {"progress"} \X Nat
      \/ e = <<"started">> \/ e = <<"completed">> \/ e = <<"cancelled">>
  BY DEF Event, Reports
<1> QED BY <1>1, <1>2, <1>3, <1>4, <1>5, <1>7, <1>8, <1>9

LEMMA EndIsHeardWhole ==
  ASSUME CompleteInv, WalkInv, OnceInv, OfKind(received, "completed") # {}
  PROVE  Heard
<1>1. Shape /\ WireOK /\ Phases /\ EndIsLast /\ (pc[Main] # "done" => Quiet) /\ RestInv
      /\ tally \in [Threads -> Nat] /\ physical \in [Threads -> Nat]
  BY TypesAre DEF WalkInv, Shape, EndInv, CompleteInv, Fields
<1>2. PICK i \in 1..Len(received) : received[i][1] = "completed"
  BY DEF OfKind
<1>3. Ends(received[i]) /\ received[i] \in Event
  BY <1>1, <1>2 DEF Ends, WireOK
<1>4. channel = <<>> /\ \A t \in Threads : buffer[t] = <<>>
  <2> HIDE DEF Threads, Event
  <2> QED BY <1>1, <1>3 DEF EndIsLast
<1>5. pc[Main] = "done"
  BY <1>1, <1>3 DEF Quiet, Ended
<1> HIDE DEF Threads, Main, Event
<1>6. \A e : e \in Sent <=> \E k \in 1..Len(received) : e = received[k]
  <2>1. \A k : k \notin 1..Len(channel)
    BY <1>4
  <2>2. \A e : e \in Sent <=> e \in EventsIn(received)
    BY <1>4, <2>1, SentIs
  <2>3. \A e : e \in EventsIn(received) <=> \E k \in 1..Len(received) : e = received[k]
    BY DEF EventsIn
  <2> QED BY <2>2, <2>3
<1>7. <<"completed">> \in Sent
  <2>1. PICK e : e = <<"completed">>
    OBVIOUS
  <2>2. received[i] = e
    BY <1>2, <1>3, <2>1, EventKinds
  <2> QED BY <1>6, <2>1, <2>2
<1>8. \A t \in Threads : pc[t] \in Idle
  <2>1. "done" \in Idle /\ pc[Main] # "join"
    BY <1>5 DEF Idle
  <2> QED BY <1>1, <1>5, <2>1, ThreadFacts DEF Phases
<1>9. \A t \in Threads : tally[t] = 0 /\ physical[t] = 0 /\ pc[t] \in Resting
  <2>1. \A t \in Threads : pc[t] \in Resting /\ pc[t] \notin Working
    BY <1>8 DEF Idle, Resting, Working
  <2> QED BY <1>1, <2>1 DEF RestInv, Rested, Published
<1>10. \A p, e : ~Left(p, e)
  <2>1. \A t \in Threads : \A p, e : ~Holds(t, p, e)
    BY <1>1, <1>9, RestingHolds
  <2>2. tasks = <<>> /\ callers = <<>>
    BY <1>1, <1>5 DEF RestInv, Drained
  <2>3. \A k : k \notin 1..Len(tasks) /\ k \notin 1..Len(callers)
    BY <2>2
  <2>4. ~Entering
    BY <1>5 DEF Entering
  <2> HIDE DEF Holds
  <2> QED BY <2>1, <2>3, <2>4 DEF Left
<1>11. Unpublished = 0 /\ Uncharged = 0
  BY <1>1, <1>9, NoUnits DEF Unpublished, Uncharged
<1> QED BY <1>5, <1>6, <1>7, <1>8, <1>10, <1>11 DEF Heard

(* The events of a kind are as many as the places where they were heard.   *)
LEMMA HeardOnce ==
  ASSUME NoRepeat(received), received \in Seq(Event), NEW I \in SUBSET (1..Len(received)), NEW S,
         \A i \in I : IsPath(received[i]) /\ received[i] \in S,
         \A e \in S : \E i \in I : e = received[i]
  PROVE  IsFiniteSet(I) /\ Cardinality(I) = Cardinality(S)
<1> DEFINE n == Len(received)
           f == [i \in I |-> received[i]]
<1>1. n \in Nat
  OBVIOUS
<1>2. IsFiniteSet(I)
  <2> HIDE DEF n
  <2>1. IsFiniteSet(1..n)
    BY <1>1, FS_Interval
  <2> QED BY <2>1, FS_Subset DEF n
<1>3. \A i, j \in I : received[i] = received[j] => i = j
  BY DEF NoRepeat
<1>4. f \in Bijection(I, S)
  BY <1>3 DEF Bijection, Injection, Surjection, IsInjective
<1> HIDE DEF f
<1>5. ExistsBijection(I, S)
  BY <1>4 DEF ExistsBijection
<1> QED BY <1>2, <1>5, FS_Bijection

LEMMA HeardWords ==
  ASSUME Heard, WireOK
  PROVE  /\ \A q : (Known(q) <=> q \in KnownOf) /\ (IssueAt(q) <=> q \in IssuesOf)
         /\ \A p \in PathsOf("dir") : <<"dir", p>> \in Sent /\ p \in Paths
         /\ \A i \in 1..Len(received) : received[i] \in Sent /\ received[i] \in Event
<1>1. \A e : e \in Sent <=> \E i \in 1..Len(received) : e = received[i]
  BY DEF Heard
<1>2. \A i \in 1..Len(received) : received[i] \in Sent /\ received[i] \in Event
  BY <1>1, ElementOf DEF WireOK
<1>3. \A q, kind : q \in PathsOf(kind) <=> \E i \in 1..Len(received) : received[i][1] = kind /\ received[i][2] = q
  BY Zenon DEF PathsOf, OfKind
<1>4. \A q : q \in IssuesOf <=> \E i \in 1..Len(received) : received[i][1] = "issue" /\ received[i][3] = q
  BY Zenon DEF IssuesOf, OfKind
<1>5. \A q : Known(q) <=> q \in KnownOf
  BY <1>1, <1>3 DEF Known, KnownOf, IsPath
<1>6. \A q : IssueAt(q) <=> q \in IssuesOf
  BY <1>1, <1>4 DEF IssueAt
<1>7. ASSUME NEW p \in PathsOf("dir") PROVE <<"dir", p>> \in Sent /\ p \in Paths
  <2>1. PICK i \in 1..Len(received) : received[i][1] = "dir" /\ received[i][2] = p
    BY <1>3, <1>7
  <2> HIDE DEF Event, Paths
  <2>2. received[i] = <<"dir", p>> /\ p \in Paths
    BY <1>2, <2>1, EventKinds
  <2> QED BY <1>2, <2>2
<1> QED BY <1>2, <1>5, <1>6, <1>7

(* The first three parts: all there is was heard, and nothing else.        *)
LEMMA AllIsHeard ==
  ASSUME Heard, CompleteInv, alive, WireOK
  PROVE  /\ <<Root>> \in KnownOf \cup IssuesOf
         /\ \A path \in PathsOf("dir") \ IssuesOf :
              \A e \in IF ToEnter(path) THEN Entries(path) ELSE {} :
                Append(path, e) \in KnownOf \cup IssuesOf \cup setup.excluded
         /\ \A path \in KnownOf \ {<<Root>>} :
              /\ ToEnter(Front(path)) /\ Last(path) \in Entries(Front(path))
              /\ path \notin setup.excluded
<1>1. Covered /\ SentSound /\ pc[Main] = "done" /\ \A p, e : ~Left(p, e)
  BY DEF CompleteInv, Heard, Whole, WalkSound
<1> HIDE DEF Main, Paths
<1>2. <<Root>> \in KnownOf \cup IssuesOf
  BY <1>1, HeardWords DEF Covered, Answered
<1>3. ASSUME NEW path \in PathsOf("dir"), path \notin IssuesOf, ToEnter(path), NEW e \in Entries(path),
             Append(path, e) \notin setup.excluded
      PROVE  Append(path, e) \in KnownOf \cup IssuesOf
  <2>1. path \in Paths /\ <<"dir", path>> \in Sent /\ ~IssueAt(path)
    BY <1>3, HeardWords
  <2>2. <<path, e>> \in Expected /\ e \in Dirs \cup Files
    BY <1>3, <2>1, EntriesAreKnown DEF Expected
  <2>3. Answered(Append(path, e))
    BY <1>1, <2>1, <2>2 DEF Covered
  <2> QED BY <2>3, HeardWords DEF Answered
<1>4. ASSUME NEW path \in KnownOf, path # <<Root>>
      PROVE  /\ ToEnter(Front(path)) /\ Last(path) \in Entries(Front(path))
             /\ path \notin setup.excluded
  <2>1. PICK e \in Sent : IsPath(e) /\ e[2] = path
    BY <1>4, HeardWords DEF Known
  <2>2. path \in Genuine
    BY <1>1, <2>1 DEF SentSound
  <2> QED BY <1>4, <2>2 DEF Genuine
<1> QED BY <1>2, <1>3, <1>4

(* The summary is right.                                                   *)
LEMMA HeardCounts ==
  ASSUME Heard, Shape, Counts, PathsOnce
  PROVE  \A i \in OfKind(received, "summary") :
           received[i] = <<"summary", Cardinality(OfKind(received, "file")),
                           Cardinality(OfKind(received, "dir")), Cardinality(ChargedOf)>>
<1>1. NoRepeat(received) /\ received \in Seq(Event)
  BY DEF PathsOnce, Shape, WireOK
<1>2. \A e : e \in Sent <=> \E i \in 1..Len(received) : e = received[i]
  BY DEF Heard
<1>3. Cardinality(OfKind(received, "dir")) = Cardinality(SentDirs)
  <2>1. /\ OfKind(received, "dir") \in SUBSET (1..Len(received))
        /\ \A i \in OfKind(received, "dir") : IsPath(received[i]) /\ received[i] \in SentDirs
        /\ \A e \in SentDirs : \E i \in OfKind(received, "dir") : e = received[i]
    BY <1>2 DEF OfKind, SentDirs, IsPath
  <2> HIDE DEF Event
  <2> QED BY <1>1, <2>1, HeardOnce
<1>4. Cardinality(OfKind(received, "file")) = Cardinality(SentFiles)
  <2>1. /\ OfKind(received, "file") \in SUBSET (1..Len(received))
        /\ \A i \in OfKind(received, "file") : IsPath(received[i]) /\ received[i] \in SentFiles
        /\ \A e \in SentFiles : \E i \in OfKind(received, "file") : e = received[i]
    BY <1>2 DEF OfKind, SentFiles, IsPath
  <2> HIDE DEF Event
  <2> QED BY <1>1, <2>1, HeardOnce
<1>5. Cardinality(ChargedOf) = Cardinality(SentCharged)
  <2>1. /\ ChargedOf \in SUBSET (1..Len(received))
        /\ \A i \in ChargedOf : IsPath(received[i]) /\ received[i] \in SentCharged
        /\ \A e \in SentCharged : \E i \in ChargedOf : e = received[i]
    BY <1>2 DEF OfKind, ChargedOf, SentFiles, SentCharged, IsPath
  <2> HIDE DEF Event
  <2> QED BY <1>1, <2>1, HeardOnce
<1>6. \A i \in OfKind(received, "summary") :
        received[i] = <<"summary", files_seen, directories_seen, total_allocation>>
  <2>1. \A i \in OfKind(received, "summary") : received[i] \in Sent /\ received[i][1] = "summary"
    BY <1>2 DEF OfKind
  <2> QED BY <2>1 DEF Counts
<1>7. /\ Cardinality(SentFiles) = files_seen /\ Cardinality(SentDirs) = directories_seen
      /\ Cardinality(SentCharged) = total_allocation
  <2>1. files_seen \in Nat /\ total_allocation \in Nat
    BY TypesAre DEF Shape, Fields
  <2>2. files_seen + 0 = files_seen /\ total_allocation + 0 = total_allocation
    BY <2>1
  <2> QED BY <2>2, CountsAre DEF Heard
<1> QED BY <1>3, <1>4, <1>5, <1>6, <1>7

(* Of the names of one file exactly one is charged.                        *)
LEMMA HeardCharges ==
  ASSUME Heard, WireOK, Charges, PathsOnce, setup \in Setup
  PROVE  \A i \in OfKind(received, "file") : Cardinality({k \in ChargedOf : SameFile(i, k)}) = 1
<1> TAKE i \in OfKind(received, "file")
<1> HIDE DEF Threads, Main, Event
<1>1. /\ \A e : e \in Sent <=> \E k \in 1..Len(received) : e = received[k]
      /\ \A t \in Threads : pc[t] # "emit"
  BY DEF Heard, Idle
<1>2. \A k, l \in 1..Len(received) :
        received[k][1] = "file" /\ received[k] = received[l] => k = l
  BY DEF PathsOnce, NoRepeat, IsPath
<1>3. \A k : k \in ChargedOf <=> k \in 1..Len(received) /\ received[k] \in SentCharged
  <2>1. \A k \in 1..Len(received) : received[k] \in Sent
    BY <1>1
  <2> QED BY <2>1 DEF ChargedOf, OfKind, SentCharged, SentFiles
<1>4. /\ i \in 1..Len(received) /\ received[i] \in SentFiles /\ FileOf(received[i]) \in Files
      /\ Settled(FileOf(received[i]), received[i][3])
  <2>1. i \in 1..Len(received) /\ received[i] \in SentFiles
    BY <1>1 DEF OfKind, SentFiles
  <2> QED BY <2>1 DEF Charges
<1>5. \A k : IdAt(k) = Identity(FileOf(received[k]))
  BY DEF IdAt, Identity, FileOf
<1>6. PICK n : /\ n \in ChargedOf /\ SameFile(i, n)
               /\ \A k \in ChargedOf : SameFile(i, k) => k = n
  <2>1. CASE IdAt(i) = NoIdentity
    <3>1. received[i][3] = 1
      BY <1>4, <1>5, <2>1 DEF Settled
    <3>2. i \in ChargedOf
      BY <1>3, <1>4, <3>1 DEF SentCharged
    <3> QED BY <2>1, <3>2 DEF SameFile
  <2>2. CASE IdAt(i) # NoIdentity
    <3> DEFINE id == IdAt(i)
    <3>1. id \in claimed /\ id \in Files
      <4>1. id \in claimed
        BY <1>4, <1>5, <2>2 DEF Settled
      <4>2. setup.identity \in [Files -> Files \cup {NoIdentity}]
        BY DEF Setup
      <4>3. id \in Files
        BY <1>4, <1>5, <2>2, <4>2 DEF Identity
      <4> QED BY <4>1, <4>3
    <3> HIDE DEF id
    <3>2. PICK e \in Sent : Paid(e, id)
      BY <1>1, <3>1 DEF Charges, Pays
    <3>3. PICK n \in 1..Len(received) : received[n] = e
      BY <1>1, <3>2
    <3>4. n \in ChargedOf /\ IdAt(n) = id
      BY <1>3, <1>5, <3>2, <3>3 DEF Paid
    <3>5. ASSUME NEW k \in ChargedOf, IdAt(k) = id PROVE k = n
      <4>1. k \in 1..Len(received) /\ received[k] \in Sent /\ Paid(received[k], id) /\ received[k][1] = "file"
        BY <1>3, <1>5, <3>5 DEF Paid, SentCharged, SentFiles
      <4>2. received[k] = e
        BY <3>1, <3>2, <4>1 DEF Charges
      <4> QED BY <1>2, <3>3, <4>1, <4>2
    <3> QED BY <2>2, <3>4, <3>5 DEF SameFile, id
  <2> QED BY <2>1, <2>2
<1>7. {k \in ChargedOf : SameFile(i, k)} = {n}
  BY <1>6
<1> QED BY <1>7, FS_Singleton

(* The same, in these words.                                               *)
HeardComplete ==
  OfKind(received, "completed") # {} =>
    /\ <<Root>> \in KnownOf \cup IssuesOf
    /\ \A path \in PathsOf("dir") \ IssuesOf :
         \A e \in IF ToEnter(path) THEN Entries(path) ELSE {} :
           Append(path, e) \in KnownOf \cup IssuesOf \cup setup.excluded
    /\ \A path \in KnownOf \ {<<Root>>} :
         /\ ToEnter(Front(path)) /\ Last(path) \in Entries(Front(path))
         /\ path \notin setup.excluded
    /\ \A i \in OfKind(received, "summary") :
         received[i] = <<"summary", Cardinality(OfKind(received, "file")),
                         Cardinality(OfKind(received, "dir")), Cardinality(ChargedOf)>>
    /\ \A i \in OfKind(received, "file") : Cardinality({k \in ChargedOf : SameFile(i, k)}) = 1

LEMMA CompleteIs ==
  /\ CompletedIsComplete <=> HeardComplete
  /\ CompletedIsComplete' <=> HeardComplete'
BY Zenon DEF CompletedIsComplete, HeardComplete, PathsOf, IssuesOf, KnownOf, ChargedOf, SameFile, IdAt

(* While the consumer is there, what it has heard is complete once the end *)
(* has come.                                                               *)
LEMMA HeardIsComplete ==
  ASSUME alive, CompleteInv, WalkInv, OnceInv
  PROVE  CompletedIsComplete
<1> SUFFICES ASSUME OfKind(received, "completed") # {} PROVE CompletedIsComplete
  BY CompleteIs DEF HeardComplete
<1>1. Heard
  BY EndIsHeardWhole
<1>2. Shape /\ WireOK /\ PathsOnce /\ Counts /\ Charges /\ setup \in Setup
  BY TypesAre DEF WalkInv, Shape, Rest, OnceInv, CompleteInv, Records
<1> QED BY <1>1, <1>2, AllIsHeard, HeardCounts, HeardCharges, CompleteIs DEF HeardComplete

-----------------------------------------------------------------------------
(* Once the consumer has gone it hears nothing more.                       *)
LEMMA StillComplete ==
  ASSUME CompletedIsComplete, UNCHANGED <<received, setup>>
  PROVE  CompletedIsComplete'
<1>1. /\ \A path : Entries(path)' = Entries(path) /\ (ToEnter(path)' <=> ToEnter(path))
  BY DEF Entries, ToEnter, Real
<1>2. PathsOf("dir")' = PathsOf("dir") /\ IssuesOf' = IssuesOf /\ KnownOf' = KnownOf
      /\ ChargedOf' = ChargedOf /\ \A i, k : SameFile(i, k)' <=> SameFile(i, k)
  BY DEF PathsOf, IssuesOf, KnownOf, ChargedOf, SameFile, IdAt
<1>3. \A i : {k \in ChargedOf : SameFile(i, k)}' = {k \in ChargedOf : SameFile(i, k)}
  BY <1>2
<1>4. HeardComplete => HeardComplete'
  BY <1>1, <1>2, <1>3 DEF HeardComplete
<1> QED BY <1>4, CompleteIs

LEMMA ConsumerStep ==
  ASSUME Shape, OnceInv, [Next]_vars
  PROVE  /\ setup' = setup /\ (~alive => alive' = alive /\ received' = received)
         /\ IF DropReceiver THEN alive /\ ~alive' /\ received' = received ELSE alive' = alive
<1> HIDE DEF Threads, Main
<1>1. CASE StartScan \/ StartInvalid
  <2>1. UNCHANGED <<setup, alive, received>>
    BY <1>1, StartFacts, InvalidFacts DEF Opening
  <2> QED BY <2>1 DEF DropReceiver
<1>2. CASE Receive
  BY <1>2 DEF Receive, DropReceiver
<1>3. CASE DropReceiver
  BY <1>3 DEF DropReceiver
<1>4. CASE Cancel
  BY <1>4 DEF Cancel, DropReceiver, consumer
<1>5. CASE Walk
  <2>1. UNCHANGED <<setup, alive, received>>
    BY <1>5, WalkFrame DEF Frame
  <2> QED BY <2>1 DEF DropReceiver
<1>6. ASSUME NEW t \in Threads, Process(t) \/ Opens(t) \/ Closes(t) \/ Passes(t)
      PROVE  UNCHANGED <<setup, alive, received>>
  <2>1. CASE Process(t)
    BY <1>6, <2>1, ProcessFrame DEF Frame
  <2>2. CASE Opens(t) \/ Closes(t) \/ Passes(t)
    BY <2>2 DEF Opens, Closes, Passes, Bookkeeping, consumer
  <2> QED BY <1>6, <2>1, <2>2
<1>7. ASSUME UNCHANGED <<setup, alive, received>>
      PROVE  /\ setup' = setup /\ (~alive => alive' = alive /\ received' = received)
             /\ IF DropReceiver THEN alive /\ ~alive' /\ received' = received ELSE alive' = alive
  BY <1>7 DEF DropReceiver
<1> QED BY <1>1, <1>2, <1>3, <1>4, <1>5, <1>6, <1>7, StepKinds

LEMMA InitComplete == Init => CompleteInv
<1> SUFFICES ASSUME Init PROVE CompleteInv
  OBVIOUS
<1>1. alive = TRUE /\ pc[Main] = "start"
  BY ThreadFacts DEF Init
<1>2. Covered
  BY <1>1, InitRecords DEF Covered
<1> QED BY <1>1, <1>2, InitSound, InitRests, InitRecords DEF CompleteInv

LEMMA StepComplete ==
  ASSUME CompleteInv, WalkInv, OnceInv, [Next]_vars
  PROVE  CompleteInv'
<1>1. Shape /\ alive \in BOOLEAN
  BY TypesAre DEF WalkInv, Shape, Rest
<1>2. WalkSound' /\ RestInv'
  BY <1>1, StepSound, StepRests DEF CompleteInv
<1>3. CASE alive /\ ~DropReceiver
  <2>1. alive' = alive
    BY <1>1, <1>3, ConsumerStep
  <2>2. Records'
    BY <1>3, StepRecords DEF CompleteInv
  <2>3. Whole' => Covered'
    BY <1>3, <2>1, StepCovers DEF CompleteInv, Records
  <2> QED BY <1>2, <1>3, <2>1, <2>2, <2>3 DEF CompleteInv
<1>4. CASE ~alive \/ DropReceiver
  <2>1. ~alive' /\ UNCHANGED <<received, setup>>
    BY <1>1, <1>4, ConsumerStep
  <2>2. CompletedIsComplete
    BY <1>4, HeardIsComplete DEF CompleteInv
  <2>3. CompletedIsComplete'
    BY <2>1, <2>2, StillComplete
  <2> QED BY <1>2, <2>1, <2>3 DEF CompleteInv
<1> QED BY <1>3, <1>4

LEMMA CompleteCorrect == Spec => []CompleteInv
<1>1. CompleteInv /\ WalkInv /\ OnceInv /\ [Next]_vars => CompleteInv'
  BY StepComplete
<1> QED BY InitComplete, WalkCorrect, OnceCorrect, <1>1, PTL DEF Spec

(* Completed means complete: when the consumer hears the end, it has heard  *)
(* of every entry of every directory to be entered, or of an issue there,   *)
(* and of nothing else; the summary counts what it heard, and of the names  *)
(* of one file exactly one is charged.  This is so whichever of the two     *)
(* walks was taken, however the workers of run_fallback_scan_parallel       *)
(* interleave and wherever totals were still unpublished on the way.        *)
THEOREM CompletedMeansComplete == Spec => []CompletedIsComplete
<1>1. CompleteInv /\ WalkInv /\ OnceInv => CompletedIsComplete
  BY HeardIsComplete DEF CompleteInv
<1> QED BY <1>1, CompleteCorrect, WalkCorrect, OnceCorrect, PTL
===============================================================================
