-------------------------- MODULE ScanSessionProofs --------------------------
(***************************************************************************)
(* Proofs about scan sessions, for any number of them and any channel      *)
(* capacity: the types; and, for a host that starts a session only after   *)
(* it has heard of the end of the one before (~Overlap, as the runs for    *)
(* these properties assume), that one session writes at a time, that a     *)
(* rescan compares with the last scan, that a reload on Completed finds    *)
(* the new catalog and that a restart shows what the model shows.  All     *)
(* follow from one inductive invariant, ScanInv.                           *)
(***************************************************************************)
EXTENDS ScanSession, FiniteSetTheorems, TLAPS

Events == {"started", "partial", "restarted", "records", "walk", "summary",
           "completed", "cancelled"}

LEMMA AfterValues ==
  /\ DOMAIN After = Events
  /\ After["started"] = "records" /\ After["partial"] = "restarted"
  /\ After["restarted"] = "walk" /\ After["records"] = "summary" /\ After["walk"] = "summary"
  /\ After["summary"] = "completed" /\ After["completed"] = "over"
  /\ After["cancelled"] = "over"
  /\ \A e \in Events : After[e] \in Events \cup {"over"}
<1>1. DOMAIN After = Events
  BY DEF After, Events
<1>2. /\ After["started"] = "records" /\ After["partial"] = "restarted"
      /\ After["restarted"] = "walk" /\ After["records"] = "summary" /\ After["walk"] = "summary"
      /\ After["summary"] = "completed" /\ After["completed"] = "over"
      /\ After["cancelled"] = "over"
  BY DEF After
<1> QED BY <1>1, <1>2 DEF Events

(* The scan thread's next event once it has sent e. *)
NextAfter(e) == IF e = "none" THEN "started" ELSE After[e]

(* The scan thread may send f after e. *)
Follows(e, f) ==
  \/ f = NextAfter(e)
  \/ f = "partial" /\ NextAfter(e) = "records"
  \/ f = "cancelled" /\ NextAfter(e) \in {"records", "walk", "summary"}

(* What is on its way continues what the worker has, and the scan thread   *)
(* continues what is on its way.                                           *)
Chain(e, q, next) ==
  /\ q = <<>> => next = NextAfter(e)
  /\ q # <<>> => Follows(e, q[1]) /\ next = NextAfter(q[Len(q)])
  /\ \A i \in 1 .. Len(q) - 1 : Follows(q[i], q[i + 1])

LEMMA ChainSends ==
  ASSUME NEW e, NEW q \in Seq(Events), NEW next, NEW f \in Events, Chain(e, q, next),
         \/ f = next
         \/ f = "partial" /\ next = "records"
         \/ f = "cancelled" /\ next \in {"records", "walk", "summary"}
  PROVE  Chain(e, Append(q, f), After[f])
<1> DEFINE r == Append(q, f)
<1>1. /\ r \in Seq(Events) /\ r # <<>> /\ Len(r) = Len(q) + 1 /\ Len(q) \in Nat
      /\ r[Len(r)] = f /\ \A i \in 1 .. Len(q) : r[i] = q[i]
  OBVIOUS
<1>2. NextAfter(f) = After[f]
  BY DEF NextAfter, Events
<1>3. CASE q = <<>>
  <2>1. Follows(e, f) /\ Len(r) = 1
    BY <1>1, <1>3 DEF Chain, Follows
  <2> HIDE DEF r
  <2> QED BY <1>1, <1>2, <2>1 DEF Chain
<1>4. CASE q # <<>>
  <2>1. Follows(q[Len(q)], f) /\ Len(q) \in 1 .. Len(q)
    BY <1>4 DEF Chain, Follows
  <2> HIDE DEF r
  <2>2. \A i \in 1 .. Len(r) - 1 : Follows(r[i], r[i + 1])
    <3> SUFFICES ASSUME NEW i \in 1 .. Len(r) - 1 PROVE Follows(r[i], r[i + 1])
      OBVIOUS
    <3>1. CASE i = Len(q)
      BY <1>1, <2>1, <3>1
    <3>2. CASE i # Len(q)
      <4>1. i \in 1 .. Len(q) - 1 /\ i \in 1 .. Len(q) /\ i + 1 \in 1 .. Len(q)
        BY <1>1, <3>2
      <4>2. Follows(q[i], q[i + 1]) /\ r[i] = q[i] /\ r[i + 1] = q[i + 1]
        BY <1>1, <4>1 DEF Chain
      <4> QED BY <4>2
    <3> QED BY <3>1, <3>2
  <2>3. Follows(e, r[1])
    BY <1>1, <1>4, <2>1 DEF Chain
  <2> QED BY <1>1, <1>2, <2>2, <2>3 DEF Chain
<1> QED BY <1>3, <1>4

LEMMA ChainReceives ==
  ASSUME NEW e, NEW q \in Seq(Events), NEW next, Chain(e, q, next), q # <<>>
  PROVE  Follows(e, Head(q)) /\ Chain(Head(q), Tail(q), next)
<1> DEFINE r == Tail(q)
<1>1. /\ Head(q) = q[1] /\ Len(q) \in Nat \ {0} /\ Len(r) = Len(q) - 1 /\ r \in Seq(Events)
      /\ \A i \in 1 .. Len(r) : r[i] = q[i + 1]
      /\ r = <<>> <=> Len(q) = 1
  <2>1. Len(q) \in Nat \ {0} /\ Head(q) = q[1]
    OBVIOUS
  <2>2. r \in Seq(Events) /\ Len(r) = Len(q) - 1 /\ \A i \in 1 .. Len(r) : r[i] = q[i + 1]
    BY <2>1
  <2> HIDE DEF r
  <2>3. r = <<>> <=> Len(r) = 0
    BY <2>2
  <2> QED BY <2>1, <2>2, <2>3
<1>2. Follows(e, q[1]) /\ next = NextAfter(q[Len(q)])
  BY DEF Chain
<1> HIDE DEF r
<1>3. r = <<>> => next = NextAfter(q[1])
  BY <1>1, <1>2
<1>4. r # <<>> => Follows(q[1], r[1]) /\ next = NextAfter(r[Len(r)])
  <2> SUFFICES ASSUME r # <<>> PROVE Follows(q[1], r[1]) /\ next = NextAfter(r[Len(r)])
    OBVIOUS
  <2>1. 1 \in 1 .. Len(r) /\ Len(r) \in 1 .. Len(r) /\ 1 \in 1 .. Len(q) - 1
    BY <1>1
  <2>2. \A k \in 1 .. Len(q) - 1 : k = 1 => Follows(q[k], q[k + 1]) /\ q[k + 1] = r[k]
    BY <1>1, <2>1 DEF Chain
  <2>3. r[Len(r)] = q[Len(q)]
    BY <1>1, <2>1
  <2> QED BY <1>2, <2>1, <2>2, <2>3
<1>5. \A i \in 1 .. Len(r) - 1 : Follows(r[i], r[i + 1])
  <2> SUFFICES ASSUME NEW i \in 1 .. Len(r) - 1 PROVE Follows(r[i], r[i + 1])
    OBVIOUS
  <2>1. i \in 1 .. Len(r) /\ i + 1 \in 1 .. Len(r) /\ i + 1 \in 1 .. Len(q) - 1
    BY <1>1
  <2> DEFINE k == i + 1
  <2>2. Follows(q[k], q[k + 1]) /\ r[i] = q[k] /\ r[k] = q[k + 1]
    BY <1>1, <2>1 DEF Chain
  <2> QED BY <2>2
<1> QED BY <1>1, <1>2, <1>3, <1>4, <1>5, SMTT(60) DEF Chain

-----------------------------------------------------------------------------
(* What holds of one session at a time. *)

ChannelInv(s) == Chain(event[s], chan[s], scan[s])

Untouched(s) ==
  /\ event[s] = "none" /\ tx[s] = "empty" /\ ~flushed[s] /\ ~dirty[s] /\ ~published[s]
  /\ deferred[s] = None /\ told[s] = "nothing" /\ base[s] = None /\ s \notin failed

(* Where the worker is, given what it has done. *)
WorkerInv(s) ==
  /\ worker[s] = "none" <=> mode[s] = "unstarted"
  /\ worker[s] \in {"none", "open"} => Untouched(s)
  /\ worker[s] = "none" => scan[s] = "none" /\ chan[s] = <<>>
  /\ worker[s] \in {"publish", "lock"} => Terminal(event[s]) /\ ~published[s]
  /\ worker[s] = "publish" =>
       deferred[s] = None /\ (mode[s] = "incremental" => flushed[s] /\ ~dirty[s])
  /\ worker[s] = "lock" => Replaces(s)
  /\ worker[s] \in {"forward", "publish"} => event[s] # "none"
  /\ worker[s] \in {"flush", "writing"} =>
       ~Terminal(event[s]) /\ ~published[s] /\ FlushRequested(s, event[s])
  /\ worker[s] \in {"persist", "persisting"} => deferred[s] # None
  /\ worker[s] \in {"finish", "finishing", "set"} => ~published[s] /\ deferred[s] = None

(* The host hears of the end once, after everything else. *)
ToldInv(s) ==
  /\ told[s] # "nothing" =>
       /\ Terminal(event[s]) /\ told[s] = event[s]
       /\ worker[s] \notin {"publish", "lock", "forward", "flush", "writing"}
  /\ worker[s] \in {"receive", "finish", "finishing", "set"} /\ Terminal(event[s])
       => told[s] = event[s]
  /\ mode[s] = "incremental" /\ worker[s] \in {"finish", "finishing", "set", "done"}
       => told[s] # "nothing"

(* Before it does, a replacing session has published, and so has an        *)
(* incremental one whose changes are written.                              *)
PublishedInv(s) ==
  /\ published[s] => Terminal(event[s])
  /\ deferred[s] # None =>
       /\ Replaces(s) /\ Terminal(event[s])
       /\ event[s] = "completed" => deferred[s] = <<s, "full">>
  /\ Replaces(s) /\ Terminal(event[s]) /\ worker[s] # "publish" => deferred[s] # None
  /\ Replaces(s) /\ Terminal(event[s]) /\ worker[s] \notin {"publish", "lock"} => published[s]
  /\ mode[s] = "incremental" /\ published[s] =>
       flushed[s] /\ ~dirty[s] /\ worker[s] \in {"forward", "receive", "done"}
  /\ mode[s] = "incremental" /\ event[s] = "completed" /\ s \notin failed /\ worker[s] # "publish"
       => published[s]

(* What the transaction and the repository hold. *)
ContentInv(s) ==
  /\ event[s] \in {"summary", "completed"} /\ deferred[s] = None => tx[s] = "full"
  /\ event[s] \in {"records", "walk"} /\ worker[s] # "forward" => tx[s] = "full"
  /\ mode[s] = "incremental" =>
       /\ flushed[s] => event[s] \in {"summary", "completed", "cancelled"}
       /\ event[s] = "summary" /\ worker[s] = "forward" => ~flushed[s]
       /\ event[s] = "completed" \/ (event[s] = "summary" /\ worker[s] = "receive")
            => s \in failed \/ (flushed[s] /\ ~dirty[s])
       /\ flushed[s] /\ ~dirty[s] /\ ~published[s] => repo[s] = <<s, tx[s]>>
       /\ worker[s] \in {"writing", "finishing", "set"} => repo[s] = <<s, tx[s]>>

SessionInv(s) ==
  /\ Started(s) /\ Listening(s) => ChannelInv(s)
  /\ WorkerInv(s) /\ ToldInv(s) /\ PublishedInv(s) /\ ContentInv(s)

-----------------------------------------------------------------------------
(* The types. *)

LEMMA CatalogFacts ==
  /\ Old \in Catalogs /\ EmptyCatalog \in Catalogs /\ None \notin Catalogs
  /\ \A s \in Sessions, c \in Contents : <<s, c>> \in Catalogs
<1>1. None \notin Catalogs
  <2>1. None # Old /\ None # EmptyCatalog /\ \A s, c : None # <<s, c>>
    BY DEF None, Old, EmptyCatalog
  <2> QED BY <2>1 DEF Catalogs
<1> QED BY <1>1 DEF Catalogs

LEMMA TypeStep ==
  ASSUME TypeOK, [Next]_vars,
         \A s \in Sessions : worker[s] = "persisting" => deferred[s] # None
  PROVE  TypeOK'
<1> USE SessionAssumption, CatalogFacts, AfterValues
<1> USE DEF TypeOK, Goto
<1> HIDE DEF Catalogs, Sessions, Contents, After, None
<1>1. ASSUME NEW m \in Modes, NEW held \in {"no", "worker"}, model' = None, Launch(m, held)
      PROVE  TypeOK'
  BY <1>1 DEF Launch, locals, history, Events
<1>2. ASSUME NEW s \in Sessions, CancelSession(s) PROVE TypeOK'
  BY <1>2 DEF CancelSession, locals, shared, history
<1>3. ASSUME NEW s \in Sessions, Destroy(s) PROVE TypeOK'
  BY <1>3 DEF Destroy, locals, shared, history
<1>4. ASSUME NEW s \in Sessions, Close(s) PROVE TypeOK'
  <2>1. \E c \in {"worker", "gone"} : closing' = [closing EXCEPT ![s] = c]
    BY <1>4 DEF Close, JoinScan, JoinWorker
  <2>2. UNCHANGED <<mode, scan, cancelled, chan, worker, locals, told, shared, history>>
    BY <1>4 DEF Close, JoinScan, JoinWorker
  <2> QED BY <2>1, <2>2 DEF locals, shared, history
<1>5. ASSUME Query PROVE TypeOK'
  BY <1>5 DEF Query, Loads, locals, history
<1>6. ASSUME NEW s \in Sessions, Produce(s) PROVE TypeOK'
  BY <1>6 DEF Produce, locals, shared, history, NextEvents, Events
<1>7. ASSUME NEW s \in Sessions, Open(s) PROVE TypeOK'
  <2>1. PICK c \in Catalogs : repo' = [repo EXCEPT ![s] = c] /\ base' = [base EXCEPT ![s] = c]
    <3>1. EmptyCatalog \in Catalogs /\ Loads \subseteq Catalogs
      BY DEF Loads
    <3> HIDE DEF TypeOK
    <3> QED BY <1>7, <3>1 DEF Open
  <2>2. /\ worker' = [worker EXCEPT ![s] = "receive"]
        /\ UNCHANGED <<mode, scan, cancelled, chan, event, tx, flushed, dirty, published,
                       deferred, closing, told, shared, failed>>
    BY <1>7 DEF Open
  <2> QED BY <2>1, <2>2 DEF shared
<1>8. ASSUME NEW s \in Sessions, Receive(s) PROVE TypeOK'
  BY <1>8 DEF Receive, shared, history
<1>9. ASSUME NEW s \in Sessions, PublishReplaced(s) PROVE TypeOK'
  BY <1>9 DEF PublishReplaced, history, Contents
<1>10. ASSUME NEW s \in Sessions, Lock(s) PROVE TypeOK'
  BY <1>10 DEF Lock, history
<1>11. ASSUME NEW s \in Sessions, PublishMerged(s) PROVE TypeOK'
  BY <1>11 DEF PublishMerged, history
<1>12. ASSUME NEW s \in Sessions, Forward(s) PROVE TypeOK'
  BY <1>12 DEF Forward, shared, history, Inserted, Contents, Terminal, Records
<1>13. ASSUME NEW s \in Sessions, Flush(s) PROVE TypeOK'
  BY <1>13 DEF Flush, Apply, shared, history
<1>14. ASSUME NEW s \in Sessions, Finish(s) PROVE TypeOK'
  BY <1>14 DEF Finish, Apply, shared, history
<1>15. ASSUME NEW s \in Sessions, Drained(s) PROVE TypeOK'
  BY <1>15 DEF Drained, locals, shared, history
<1>16. ASSUME NEW s \in Sessions, Deadline(s) PROVE TypeOK'
  BY <1>16 DEF Deadline, locals, shared, history
<1>17. ASSUME NEW s \in Sessions, Persist(s) PROVE TypeOK'
  BY <1>17 DEF Persist, locals, shared, history
<1>18. ASSUME NEW s \in Sessions, NEW ok \in BOOLEAN, FlushEnds(s, ok) PROVE TypeOK'
  BY <1>18 DEF FlushEnds, Written
<1>19. ASSUME NEW s \in Sessions, NEW ok \in BOOLEAN, PersistEnds(s, ok) PROVE TypeOK'
  BY <1>19 DEF PersistEnds, Written, locals
<1>20. ASSUME NEW s \in Sessions, NEW ok \in BOOLEAN, FinishEnds(s, ok) PROVE TypeOK'
  BY <1>20 DEF FinishEnds, Written, locals
<1>21. ASSUME NEW s \in Sessions, SetModel(s) PROVE TypeOK'
  BY <1>21 DEF SetModel, locals, history
<1>22. ASSUME UNCHANGED vars PROVE TypeOK'
  BY <1>22 DEF vars, locals, shared, history
<1> QED
  BY <1>1, <1>2, <1>3, <1>4, <1>5, <1>6, <1>7, <1>8, <1>9, <1>10, <1>11, <1>12, <1>13, <1>14,
     <1>15, <1>16, <1>17, <1>18, <1>19, <1>20, <1>21, <1>22, SMTT(60)
     DEF Next, Start, StartTerminal, Work

-----------------------------------------------------------------------------
(* A step of one session leaves the others as they are. *)

Same(s) ==
  /\ mode'[s] = mode[s] /\ scan'[s] = scan[s] /\ chan'[s] = chan[s] /\ worker'[s] = worker[s]
  /\ event'[s] = event[s] /\ tx'[s] = tx[s] /\ repo'[s] = repo[s]
  /\ flushed'[s] = flushed[s] /\ dirty'[s] = dirty[s] /\ published'[s] = published[s]
  /\ deferred'[s] = deferred[s] /\ told'[s] = told[s] /\ base'[s] = base[s]
  /\ s \in failed' <=> s \in failed

Runs(s) == Produce(s) \/ Work(s) \/ Deadline(s)

LEMMA SameKeeps ==
  ASSUME NEW s \in Sessions, SessionInv(s), Same(s)
  PROVE  SessionInv(s)'
BY DEF SessionInv, ChannelInv, Chain, WorkerInv, Untouched, ToldInv, PublishedInv, ContentInv, Same,
   Started, Replaces, Listening, Terminal, FlushRequested, Follows, NextAfter

LEMMA OthersStay ==
  ASSUME TypeOK, NEW s \in Sessions, NEW t \in Sessions, t # s, Runs(s)
  PROVE  Same(t) /\ UNCHANGED mode
<1> USE DEF TypeOK, Goto, Same
<1>1. CASE Produce(s)
  BY <1>1 DEF Produce, locals, shared, history
<1>2. CASE Open(s)
  BY <1>2 DEF Open, shared
<1>3. CASE Receive(s)
  BY <1>3 DEF Receive, shared, history
<1>4. CASE PublishReplaced(s)
  BY <1>4 DEF PublishReplaced, history
<1>5. CASE Lock(s)
  BY <1>5 DEF Lock, history
<1>6. CASE PublishMerged(s)
  BY <1>6 DEF PublishMerged, history
<1>7. CASE Forward(s)
  BY <1>7 DEF Forward, shared, history
<1>8. CASE Flush(s) \/ Finish(s)
  BY <1>8 DEF Flush, Finish, Apply, shared, history
<1>9. CASE Drained(s) \/ Persist(s)
  BY <1>9 DEF Drained, Persist, locals, shared, history
<1>10. CASE Deadline(s)
  BY <1>10 DEF Deadline, locals, shared, history
<1>11. ASSUME NEW ok \in BOOLEAN, FlushEnds(s, ok) PROVE Same(t) /\ UNCHANGED mode
  BY <1>11 DEF FlushEnds, Written
<1>12. ASSUME NEW ok \in BOOLEAN, PersistEnds(s, ok) PROVE Same(t) /\ UNCHANGED mode
  BY <1>12 DEF PersistEnds, Written, locals
<1>13. ASSUME NEW ok \in BOOLEAN, FinishEnds(s, ok) PROVE Same(t) /\ UNCHANGED mode
  BY <1>13 DEF FinishEnds, Written, locals
<1>14. CASE SetModel(s)
  BY <1>14 DEF SetModel, locals, history
<1> HIDE DEF TypeOK, Goto, Same
<1> QED
  BY <1>1, <1>2, <1>3, <1>4, <1>5, <1>6, <1>7, <1>8, <1>9, <1>10, <1>11, <1>12, <1>13, <1>14, SMTT(60)
     DEF Runs, Work

-----------------------------------------------------------------------------
(* A step of a session keeps what holds of it. *)

LEMMA SessionRuns ==
  ASSUME TypeOK, NEW s \in Sessions, SessionInv(s), Runs(s)
  PROVE  SessionInv(s)'
<1> USE DEF TypeOK, Goto, SessionInv, WorkerInv, Untouched, ToldInv, PublishedInv, ContentInv,
     Started, Replaces, Listening, Terminal, FlushRequested
<1> USE AfterValues, SessionAssumption
<1> HIDE DEF Catalogs, Sessions, Contents, After, None
<1>1. CASE Produce(s)
  <2>1. PICK e \in NextEvents(s) :
          /\ chan' = [chan EXCEPT ![s] = IF Listening(s) THEN Append(@, e) ELSE @]
          /\ scan' = [scan EXCEPT ![s] = After[e]]
    BY <1>1 DEF Produce
  <2>2. scan[s] \in Events /\ e \in Events
    BY <1>1 DEF Produce, NextEvents, Events
  <2>3. Started(s) /\ Listening(s) => ChannelInv(s)'
    <3> SUFFICES ASSUME Started(s), Listening(s) PROVE ChannelInv(s)'
      OBVIOUS
    <3>1. Chain(event[s], chan[s], scan[s]) /\ chan[s] \in Seq(Events)
      BY DEF ChannelInv
    <3>2. Chain(event[s], Append(chan[s], e), After[e])
      BY <2>1, <2>2, <3>1, ChainSends DEF NextEvents
    <3>3. chan'[s] = Append(chan[s], e) /\ scan'[s] = After[e] /\ event'[s] = event[s]
      BY <1>1, <2>1 DEF Produce, locals
    <3> QED BY <3>2, <3>3 DEF ChannelInv
  <2>4. UNCHANGED <<mode, cancelled, worker, locals, closing, told, shared, history>>
    BY <1>1 DEF Produce
  <2>5. worker[s] # "none"
    BY <1>1 DEF Produce, Events
  <2> HIDE DEF ChannelInv
  <2> QED BY <2>3, <2>4, <2>5 DEF locals, shared, history
<1>2. CASE Open(s)
  BY <1>2 DEF Open, shared, ChannelInv
<1>3. CASE Receive(s)
  <2> DEFINE f == Head(chan[s])
  <2>1. Started(s) /\ Listening(s) /\ chan[s] \in Seq(Events) /\ chan[s] # <<>>
    BY <1>3 DEF Receive
  <2>2. Follows(event[s], f) /\ Chain(f, Tail(chan[s]), scan[s])
    BY <2>1, ChainReceives DEF ChannelInv
  <2>3. f \in Events
    BY <2>1
  <2>4. /\ worker[s] = "receive" /\ event' = [event EXCEPT ![s] = f]
        /\ chan'[s] = Tail(chan[s])
        /\ worker' = [worker EXCEPT ![s] = IF Publishes(s, f) THEN "publish" ELSE "forward"]
        /\ UNCHANGED <<mode, scan, tx, repo, flushed, dirty, published, deferred,
                       told, shared, history>>
    BY <1>3 DEF Receive
  <2>5. ~Terminal(event[s])
    BY <2>2, <2>3 DEF Follows, NextAfter, Events
  <2> HIDE DEF f
  <2>6. ChannelInv(s)'
    BY <2>2, <2>4 DEF ChannelInv
  <2>7. /\ f = "completed" => event[s] = "summary"
        /\ f = "summary" => event[s] \in {"records", "walk"}
        /\ event[s] = "summary" => f = "completed"
    BY <2>2, <2>3 DEF Follows, NextAfter, Events
  <2> HIDE DEF ChannelInv
  <2>8. /\ event'[s] = f /\ f # "none"
        /\ worker'[s] = IF Publishes(s, f) THEN "publish" ELSE "forward"
    BY <2>3, <2>4 DEF Events
  <2>9. WorkerInv(s)'
    BY <2>4, <2>5, <2>8 DEF Publishes
  <2>10. ToldInv(s)'
    BY <2>4, <2>5, <2>8
  <2>11. PublishedInv(s)'
    BY <2>4, <2>5, <2>7, <2>8 DEF Publishes, history
  <2>12. ContentInv(s)'
    <3>1. /\ worker'[s] \in {"publish", "forward"}
          /\ UNCHANGED <<mode, tx, repo, flushed, dirty, published, deferred, failed>>
      BY <2>4, <2>8 DEF history
    <3>2. deferred[s] = None
      BY <2>5
    <3>3. f \in {"summary", "completed"} => tx[s] = "full"
      BY <2>4, <2>7, <3>2
    <3>4. mode[s] = "incremental" /\ f = "completed" => s \in failed \/ (flushed[s] /\ ~dirty[s])
      BY <2>4, <2>7
    <3>5. mode[s] = "incremental" /\ flushed[s] => f = "completed"
      BY <2>5, <2>7
    <3>6. f \in {"records", "walk"} => worker'[s] = "forward"
      BY <2>8 DEF Publishes
    <3> QED BY <2>8, <3>1, <3>2, <3>3, <3>4, <3>5, <3>6
  <2> QED
    BY <2>6, <2>9, <2>10, <2>11, <2>12
<1>4. CASE PublishReplaced(s)
  <2>1. <<s, tx[s]>> # None
    BY CatalogFacts
  <2> HIDE DEF ChannelInv
  <2> QED BY <1>4, <2>1 DEF PublishReplaced, history, ChannelInv
<1>5. CASE Lock(s)
  BY <1>5 DEF Lock, history, ChannelInv
<1>6. CASE PublishMerged(s)
  BY <1>6 DEF PublishMerged, history, ChannelInv
<1>7. CASE Forward(s)
  BY <1>7 DEF Forward, shared, history, Inserted, Records, ChannelInv
<1>8. CASE Flush(s) 
  BY <1>8 DEF Flush, Apply, shared, history, ChannelInv
<1>9. CASE Finish(s)
  BY <1>9 DEF Finish, Apply, shared, history
<1>10. CASE Drained(s)
  <2>1. Terminal(event[s])
    BY <1>10 DEF Drained, ChannelInv, Chain, NextAfter, Events
  <2> HIDE DEF ChannelInv
  <2>2. /\ worker[s] = "receive"
        /\ worker' = [worker EXCEPT ![s] =
             IF deferred[s] # None THEN "persist" ELSE IF published[s] THEN "done"
             ELSE IF ~flushed[s] \/ dirty[s] THEN "finish" ELSE "set"]
        /\ UNCHANGED <<mode, scan, chan, locals, told, history>>
    BY <1>10 DEF Drained
  <2>3. WorkerInv(s)' /\ ToldInv(s)' /\ (Started(s) /\ Listening(s) => ChannelInv(s))'
    BY <2>1, <2>2 DEF locals, history
  <2>4. PublishedInv(s)' /\ ContentInv(s)'
    BY <2>1, <2>2 DEF locals, history
  <2> QED BY <2>3, <2>4
<1>11. CASE Persist(s)
  BY <1>11 DEF Persist, locals, shared, history
<1>12. CASE Deadline(s)
  BY <1>12 DEF Deadline, locals, shared, history
<1>13. ASSUME NEW ok \in BOOLEAN, FlushEnds(s, ok) PROVE SessionInv(s)'
  BY <1>13 DEF FlushEnds, Written, ChannelInv
<1>14. ASSUME NEW ok \in BOOLEAN, PersistEnds(s, ok) PROVE SessionInv(s)'
  BY <1>14 DEF PersistEnds, Written, locals
<1>15. ASSUME NEW ok \in BOOLEAN, FinishEnds(s, ok) PROVE SessionInv(s)'
  BY <1>15 DEF FinishEnds, Written, locals
<1>16. CASE SetModel(s)
  BY <1>16 DEF SetModel, locals, history
<1> QED
  BY <1>1, <1>2, <1>3, <1>4, <1>5, <1>6, <1>7, <1>8, <1>9, <1>10, <1>11, <1>12, <1>13, <1>14,
     <1>15, <1>16 DEF Runs, Work

(* What a step of a session never does, and what it may do to what the     *)
(* sessions share.                                                         *)
LEMMA Progress ==
  ASSUME TypeOK, NEW a \in Sessions, SessionInv(a), Runs(a)
  PROVE  /\ UNCHANGED mode /\ worker[a] # "none"
         /\ told[a] # "nothing" => told'[a] = told[a]
         /\ worker[a] = "done" => worker'[a] = "done" /\ told'[a] = told[a]
         /\ worker'[a] = "open" => worker[a] = "open"
         /\ failed \subseteq failed'
         /\ base[a] # None => base'[a] = base[a]
         /\ disk' # disk => a \in Writers
         /\ model' # model => worker[a] \in {"publish", "set"}
<1> DEFINE Goal ==
         /\ UNCHANGED mode /\ worker[a] # "none"
         /\ told[a] # "nothing" => told'[a] = told[a]
         /\ worker[a] = "done" => worker'[a] = "done" /\ told'[a] = told[a]
         /\ worker'[a] = "open" => worker[a] = "open"
         /\ failed \subseteq failed'
         /\ base[a] # None => base'[a] = base[a]
         /\ disk' # disk => a \in Writers
         /\ model' # model => worker[a] \in {"publish", "set"}
<1> USE DEF TypeOK, Goto
<1>1. CASE Produce(a)
  <2>1. scan[a] # "none"
    BY <1>1, AfterValues DEF Produce, Events
  <2> QED BY <1>1, <2>1 DEF Produce, locals, shared, history, SessionInv, WorkerInv
<1>2. CASE Open(a)
  BY <1>2 DEF Open, shared, SessionInv, WorkerInv, Untouched
<1>3. CASE Receive(a)
  BY <1>3 DEF Receive, shared, history
<1>4. CASE PublishReplaced(a)
  BY <1>4 DEF PublishReplaced, history
<1>5. CASE Lock(a)
  BY <1>5 DEF Lock, history
<1>6. CASE PublishMerged(a)
  BY <1>6 DEF PublishMerged, history
<1>7. CASE Forward(a)
  BY <1>7 DEF Forward, shared, history, SessionInv, ToldInv
<1>8. CASE Flush(a) \/ Finish(a)
  BY <1>8 DEF Flush, Finish, Apply, shared, history
<1>9. CASE Drained(a) \/ Persist(a)
  BY <1>9 DEF Drained, Persist, locals, shared, history
<1>10. CASE Deadline(a)
  BY <1>10 DEF Deadline, locals, shared, history
<1>11. ASSUME NEW ok \in BOOLEAN, FlushEnds(a, ok) PROVE Goal
  BY <1>11 DEF FlushEnds, Written, Writers
<1>12. ASSUME NEW ok \in BOOLEAN, PersistEnds(a, ok) PROVE Goal
  BY <1>12 DEF PersistEnds, Written, locals, Writers
<1>13. ASSUME NEW ok \in BOOLEAN, FinishEnds(a, ok) PROVE Goal
  BY <1>13 DEF FinishEnds, Written, locals, Writers
<1>14. CASE SetModel(a)
  BY <1>14 DEF SetModel, locals, history
<1> HIDE DEF TypeOK, Goto
<1> QED
  BY <1>1, <1>2, <1>3, <1>4, <1>5, <1>6, <1>7, <1>8, <1>9, <1>10, <1>11, <1>12, <1>13, <1>14
     DEF Runs, Work

-----------------------------------------------------------------------------
(* The host's steps. *)

(* Cancelling, destroying and joining touch nothing the invariants look at. *)
HostOnly == UNCHANGED <<mode, scan, chan, worker, locals, told, shared, history>>

Cases ==
  \/ \E m \in Modes, held \in {"no", "worker"} : model' = None /\ Launch(m, held)
  \/ HostOnly
  \/ Query
  \/ \E s \in Sessions : Runs(s)

LEMMA NextCases == [Next]_vars => Cases
<1> SUFFICES ASSUME [Next]_vars PROVE Cases
  OBVIOUS
<1>1. ASSUME NEW s \in Sessions, CancelSession(s) \/ Destroy(s) \/ Close(s) PROVE HostOnly
  BY <1>1 DEF CancelSession, Destroy, Close, JoinScan, JoinWorker, HostOnly
<1>2. ASSUME UNCHANGED vars PROVE HostOnly
  BY <1>2 DEF HostOnly, vars
<1>3. ASSUME NEW m \in Modes \ {"terminal"}, Start(m)
      PROVE  \E n \in Modes, held \in {"no", "worker"} : model' = None /\ Launch(n, held)
  BY <1>3 DEF Start
<1>4. ASSUME "terminal" \in Modes, StartTerminal
      PROVE  \E n \in Modes, held \in {"no", "worker"} : model' = None /\ Launch(n, held)
  BY <1>4 DEF StartTerminal
<1> QED BY <1>1, <1>2, <1>3, <1>4 DEF Next, Cases, Runs

StartedInOrder == \A s \in Sessions : Started(s) <=> s <= Last

LEMMA LastIsNat == Last \in Nat /\ Last <= MaxSessions
<1> DEFINE S == {s \in Sessions : Started(s)}
<1>1. IsFiniteSet(Sessions) /\ Cardinality(Sessions) = MaxSessions
  BY SessionAssumption, FS_Interval DEF Sessions
<1>2. S \subseteq Sessions
  OBVIOUS
<1> HIDE DEF S
<1>3. IsFiniteSet(S) /\ Cardinality(S) <= Cardinality(Sessions)
  BY <1>1, <1>2, FS_Subset
<1>4. Cardinality(S) \in Nat
  BY <1>3, FS_CardinalityType
<1> QED BY <1>1, <1>3, <1>4 DEF Last, S

LEMMA LaunchOrder ==
  ASSUME TypeOK, StartedInOrder, NEW m \in Modes, NEW held, Launch(m, held)
  PROVE  Last' = Last + 1 /\ StartedInOrder' /\ Last + 1 \in Sessions
<1> DEFINE S == {s \in Sessions : Started(s)}
           n == Last + 1
<1>1. n \in Sessions /\ mode' = [mode EXCEPT ![n] = m] /\ m # "unstarted"
  BY SessionAssumption DEF Launch
<1>2. n \notin S
  BY LastIsNat DEF StartedInOrder
<1>3. S' = S \cup {n}
  BY <1>1 DEF TypeOK, Started
<1>4. IsFiniteSet(S)
  <2>1. IsFiniteSet(Sessions)
    BY SessionAssumption, FS_Interval DEF Sessions
  <2>2. S \subseteq Sessions
    OBVIOUS
  <2> HIDE DEF S
  <2> QED BY <2>1, <2>2, FS_Subset
<1>5. Cardinality(S \cup {n}) = Cardinality(S) + 1
  <2> HIDE DEF S, n
  <2> QED BY <1>2, <1>4, FS_AddElement
<1>6. Last' = n
  BY <1>3, <1>5 DEF Last
<1>7. StartedInOrder'
  <2> SUFFICES ASSUME NEW s \in Sessions PROVE Started(s)' <=> s <= n
    BY <1>6 DEF StartedInOrder
  <2>1. s \in Nat /\ (Started(s) <=> s <= Last)
    BY DEF Sessions, StartedInOrder
  <2>2. Started(s)' <=> Started(s) \/ s = n
    BY <1>1 DEF TypeOK, Started
  <2> QED BY <2>1, <2>2, LastIsNat
<1> QED BY <1>1, <1>6, <1>7

(* The first half of the invariant does not care how many sessions overlap. *)
SessionsInv ==
  /\ TypeOK /\ StartedInOrder
  /\ \A s \in Sessions : SessionInv(s)

LEMMA SessionsInit == Init => SessionsInv
<1> SUFFICES ASSUME Init PROVE SessionsInv
  OBVIOUS
<1>1. TypeOK
  BY CatalogFacts, SessionAssumption DEF Init, TypeOK, Contents
<1>2. StartedInOrder
  <2>1. {s \in Sessions : Started(s)} = {}
    BY DEF Init, Started
  <2>2. Last = 0
    BY <2>1, FS_EmptySet DEF Last
  <2> QED BY <2>1, <2>2 DEF StartedInOrder, Sessions
<1>3. ASSUME NEW s \in Sessions PROVE SessionInv(s)
  BY DEF Init, SessionInv, WorkerInv, Untouched, ToldInv, PublishedInv, ContentInv, Started, Replaces,
     Terminal
<1> QED BY <1>1, <1>2, <1>3 DEF SessionsInv

LEMMA SessionsStep == SessionsInv /\ [Next]_vars => SessionsInv'
<1> SUFFICES ASSUME SessionsInv, [Next]_vars PROVE SessionsInv'
  OBVIOUS
<1>1. TypeOK'
  BY TypeStep DEF SessionsInv, SessionInv, WorkerInv
<1>2. ASSUME NEW m \in Modes, NEW held, Launch(m, held) PROVE SessionsInv'
  <2>1. StartedInOrder'
    BY <1>2, LaunchOrder DEF SessionsInv
  <2>2. ASSUME NEW s \in Sessions PROVE SessionInv(s)'
    <3>1. CASE s # Last + 1
      <4>1. Same(s)
        BY <1>2, <3>1 DEF SessionsInv, TypeOK, Launch, locals, history, Same
      <4> QED BY <4>1, SameKeeps DEF SessionsInv
    <3>2. CASE s = Last + 1
      <4>1. ~Started(s)
        BY <3>2, LastIsNat DEF SessionsInv, StartedInOrder
      <4>2. worker[s] = "none" /\ Untouched(s) /\ chan[s] = <<>>
        BY <4>1 DEF SessionsInv, SessionInv, WorkerInv, Started
      <4>3. /\ mode'[s] = m /\ scan'[s] = "started" /\ worker'[s] = "open"
            /\ UNCHANGED <<chan, locals, told, history>>
        BY <1>2, <3>2 DEF SessionsInv, TypeOK, Launch
      <4>4. m # "unstarted"
        BY SessionAssumption
      <4>5. ChannelInv(s)'
        BY <4>2, <4>3 DEF ChannelInv, Chain, Untouched, NextAfter, locals
      <4> HIDE DEF ChannelInv
      <4> QED BY <4>2, <4>3, <4>4, <4>5 DEF SessionInv, WorkerInv, Untouched, ToldInv, PublishedInv, ContentInv,
            Started, Replaces, Terminal, locals, history
    <3> QED BY <3>1, <3>2
  <2> QED BY <1>1, <2>1, <2>2 DEF SessionsInv
<1>3. ASSUME HostOnly \/ Query PROVE SessionsInv'
  <2>1. \A s \in Sessions : Same(s)
    BY <1>3 DEF HostOnly, Query, Same, locals, history
  <2>2. UNCHANGED mode
    BY <1>3 DEF HostOnly, Query
  <2>3. StartedInOrder'
    BY <2>2 DEF SessionsInv, StartedInOrder, Started, Last
  <2> QED BY <1>1, <2>1, <2>3, SameKeeps DEF SessionsInv
<1>4. ASSUME NEW a \in Sessions, Runs(a) PROVE SessionsInv'
  <2>1. UNCHANGED mode
    BY <1>4, Progress DEF SessionsInv
  <2>2. StartedInOrder'
    BY <2>1 DEF SessionsInv, StartedInOrder, Started, Last
  <2>3. ASSUME NEW s \in Sessions PROVE SessionInv(s)'
    <3>1. CASE s = a
      BY <1>4, <3>1, SessionRuns DEF SessionsInv
    <3>2. CASE s # a
      BY <1>4, <3>2, OthersStay, SameKeeps DEF SessionsInv
    <3> QED BY <3>1, <3>2
  <2> QED BY <1>1, <2>2, <2>3 DEF SessionsInv
<1> QED BY <1>2, <1>3, <1>4, NextCases DEF Cases

(* The types hold for any number of sessions, whether or not they overlap. *)
THEOREM TypeCorrect == Spec => []TypeOK
<1>1. SessionsInv => TypeOK
  BY DEF SessionsInv
<1> QED BY <1>1, SessionsInit, SessionsStep, PTL DEF Spec

-----------------------------------------------------------------------------
(* One session at a time: what holds between sessions. *)

OneAtATime ==
  \A s, p \in Sessions : s < p /\ Started(p) => told[s] # "nothing" \/ worker[s] = "done"

(* A replacing session holds the gate from its publication to its write,   *)
(* and nobody opens a repository meanwhile.                                *)
GateInv ==
  /\ \A s \in Sessions : (Replaces(s) /\ published[s] /\ worker[s] # "done") <=> gate = s
  /\ \A s, p \in Sessions :
       s < p /\ Started(p) /\ Replaces(s) /\ worker[s] # "done" => worker[p] = "open"

Spoiled(s) == \E p \in 1..(s - 1) : Straggler(p)

(* Until the next session opens its repository, the snapshot is what the   *)
(* session has written, unless a straggler has written over it.            *)
Owns(s) == Started(s) /\ ~Spoiled(s) /\ (s = Last \/ (Last = s + 1 /\ worker[Last] = "open"))

DiskOf(s) ==
  /\ flushed[s] /\ ~dirty[s] /\ deferred[s] = None => disk = <<s, tx[s]>>
  /\ worker[s] = "done" /\ deferred[s] # None /\ s \notin failed => disk = deferred[s]
  /\ worker[s] = "set" /\ s \notin failed => disk = <<s, tx[s]>>

DiskInv == \A s \in Sessions : Owns(s) => DiskOf(s)

(* The model is what the last session has published.                       *)
ModelOf(s) ==
  /\ deferred[s] # None => model = deferred[s]
  /\ mode[s] = "incremental" /\ published[s] => model = <<s, tx[s]>>
  /\ worker[s] = "done" /\ ~published[s] /\ s \notin failed => model = disk

ModelInv == \A s \in Sessions : s = Last /\ ~Spoiled(s) => ModelOf(s)

ScanInv ==
  SessionsInv /\ OneAtATime /\ GateInv /\ DiskInv /\ ModelInv /\ RescanReadsFresh

(* An earlier session that still writes, or still sets the model, is a     *)
(* straggler, or the later one has not opened its repository yet.          *)
LEMMA EarlierSessions ==
  ASSUME SessionsInv, OneAtATime, GateInv, NEW s \in Sessions, NEW p \in Sessions, s < p, Started(p)
  PROVE  /\ s \in Writers => worker[p] = "open" \/ Straggler(s)
         /\ worker[s] = "set" => Straggler(s)
         /\ worker[s] # "publish"
         /\ gate = 0 /\ s \in Writers => Straggler(s)
<1>1. told[s] # "nothing" \/ worker[s] = "done"
  BY DEF OneAtATime
<1>2. WorkerInv(s) /\ ToldInv(s) /\ PublishedInv(s) /\ mode[s] \in Modes \cup {"unstarted"}
  BY DEF SessionsInv, SessionInv, TypeOK
<1>3. told[s] \in {"nothing", "completed", "cancelled"}
  BY DEF SessionsInv, TypeOK
<1>4. CASE Replaces(s)
  <2>1. worker[s] # "done" => worker[p] = "open" /\ published[s] /\ gate = s
    BY <1>1, <1>2, <1>4 DEF GateInv, ToldInv, PublishedInv
  <2>2. worker[s] # "set" /\ worker[s] # "publish"
    BY <1>1, <1>2, <2>1 DEF WorkerInv
  <2>3. s # 0
    BY DEF Sessions
  <2> QED BY <2>1, <2>2, <2>3 DEF Writers
<1>5. CASE ~Replaces(s) /\ mode[s] # "unstarted"
  <2>1. mode[s] = "incremental"
    BY <1>2, <1>5, SessionAssumption DEF Replaces
  <2>2. worker[s] \in {"persist", "persisting"} => FALSE
    BY <1>2, <1>5 DEF WorkerInv, PublishedInv
  <2>3. worker[s] \in {"finishing", "set"} => told[s] = "cancelled" \/ s \in failed
    BY <1>1, <1>2, <1>3, <2>1 DEF WorkerInv, ToldInv, PublishedInv
  <2>4. worker[s] \notin {"writing", "publish"}
    BY <1>1, <1>2 DEF ToldInv
  <2> QED BY <2>1, <2>2, <2>3, <2>4 DEF Writers, Straggler
<1>6. CASE mode[s] = "unstarted"
  BY <1>2, <1>6 DEF WorkerInv, Writers
<1> QED BY <1>4, <1>5, <1>6

(* Who was a straggler remains one. *)
LEMMA StragglersRemain ==
  ASSUME SessionsInv, NEW a \in Sessions, Runs(a)
  PROVE  /\ \A s \in Sessions : Straggler(s) => Straggler(s)'
         /\ \A s \in Sessions : Spoiled(s) => Spoiled(s)'
<1>1. \A s \in Sessions : Straggler(s) => Straggler(s)'
  <2> SUFFICES ASSUME NEW s \in Sessions, Straggler(s) PROVE Straggler(s)'
    OBVIOUS
  <2>1. CASE s = a
    BY <2>1, Progress DEF SessionsInv, Straggler
  <2>2. CASE s # a
    BY <2>2, OthersStay DEF SessionsInv, Straggler, Same
  <2> QED BY <2>1, <2>2
<1>2. \A s \in Sessions : 1..(s - 1) \subseteq Sessions
  BY SessionAssumption DEF Sessions
<1> QED BY <1>1, <1>2 DEF Spoiled

LEMMA OneAtATimeStep ==
  ASSUME ~Overlap, SessionsInv, OneAtATime, [Next]_vars
  PROVE  OneAtATime'
<1>1. ASSUME NEW m \in Modes, NEW held, Launch(m, held) PROVE OneAtATime'
  <2> SUFFICES ASSUME NEW s \in Sessions, NEW p \in Sessions, s < p, Started(p)'
               PROVE  told'[s] # "nothing" \/ worker'[s] = "done"
    BY DEF OneAtATime
  <2>1. told' = told /\ worker' = [worker EXCEPT ![Last + 1] = "open"]
    BY <1>1 DEF Launch, locals
  <2>2. s # Last + 1 /\ Last + 1 \in Sessions
    <3>1. p <= Last + 1
      BY <1>1, LaunchOrder DEF SessionsInv, StartedInOrder
    <3> QED BY <1>1, <3>1, LaunchOrder, LastIsNat DEF SessionsInv, Sessions
  <2>3. worker'[s] = worker[s]
    BY <2>1, <2>2 DEF SessionsInv, TypeOK
  <2>4. CASE p = Last + 1
    <3>1. s \in 1..Last
      BY <2>4, LastIsNat DEF Sessions
    <3> QED BY <1>1, <2>1, <2>3, <3>1 DEF Launch
  <2>5. CASE p # Last + 1
    <3>1. Started(p)
      BY <1>1, <2>5 DEF Launch, Started, SessionsInv, TypeOK
    <3> QED BY <2>1, <2>3, <3>1 DEF OneAtATime
  <2> QED BY <2>4, <2>5
<1>2. ASSUME HostOnly \/ Query PROVE OneAtATime'
  BY <1>2 DEF HostOnly, Query, OneAtATime, Started
<1>3. ASSUME NEW a \in Sessions, Runs(a) PROVE OneAtATime'
  <2> SUFFICES ASSUME NEW s \in Sessions, NEW p \in Sessions, s < p, Started(p)'
               PROVE  told'[s] # "nothing" \/ worker'[s] = "done"
    BY DEF OneAtATime
  <2>1. UNCHANGED mode
    BY <1>3, Progress DEF SessionsInv
  <2>2. told[s] # "nothing" \/ worker[s] = "done"
    BY <2>1 DEF OneAtATime, Started
  <2>3. CASE s = a
    BY <1>3, <2>2, <2>3, Progress DEF SessionsInv
  <2>4. CASE s # a
    BY <1>3, <2>2, <2>4, OthersStay DEF SessionsInv, Same
  <2> QED BY <2>3, <2>4
<1> QED BY <1>1, <1>2, <1>3, NextCases DEF Cases
(* How a step changes the gate. *)
LEMMA GateMoves ==
  ASSUME SessionsInv, NEW a \in Sessions, Runs(a),
         (Replaces(a) /\ published[a] /\ worker[a] # "done") <=> gate = a
  PROVE  /\ (Replaces(a) /\ published[a] /\ worker[a] # "done")' <=> gate' = a
         /\ gate' \in {gate, 0, a}
         /\ gate' # gate => gate \in {0, a}
         /\ worker[a] = "open" /\ worker'[a] # "open" => gate = 0
<1> DEFINE Goal ==
         /\ (Replaces(a) /\ published[a] /\ worker[a] # "done")' <=> gate' = a
         /\ gate' \in {gate, 0, a}
         /\ gate' # gate => gate \in {0, a}
         /\ worker[a] = "open" /\ worker'[a] # "open" => gate = 0
<1>0. a # 0 /\ SessionInv(a) /\ TypeOK
  BY DEF Sessions, SessionsInv
<1> USE <1>0 DEF TypeOK, Goto, Replaces
<1>1. CASE Produce(a)
  BY <1>1 DEF Produce, locals, shared
<1>2. CASE Open(a)
  BY <1>2 DEF Open, shared
<1>3. CASE Receive(a)
  BY <1>3 DEF Receive, shared
<1>4. CASE PublishReplaced(a)
  BY <1>4 DEF PublishReplaced
<1>5. CASE Lock(a)
  BY <1>5 DEF Lock, SessionInv, WorkerInv
<1>6. CASE PublishMerged(a)
  BY <1>6 DEF PublishMerged
<1>7. CASE Forward(a)
  BY <1>7 DEF Forward, shared
<1>8. CASE Flush(a) \/ Finish(a)
  BY <1>8 DEF Flush, Finish, Apply, shared
<1>9. CASE Drained(a) \/ Persist(a)
  BY <1>9 DEF Drained, Persist, locals, shared, SessionInv, PublishedInv
<1>10. CASE Deadline(a)
  BY <1>10 DEF Deadline, locals, shared
<1>11. ASSUME NEW ok \in BOOLEAN, FlushEnds(a, ok) PROVE Goal
  BY <1>11 DEF FlushEnds
<1>12. ASSUME NEW ok \in BOOLEAN, PersistEnds(a, ok) PROVE Goal
  <2>1. gate = a
    BY <1>12 DEF PersistEnds, SessionInv, WorkerInv, PublishedInv
  <2> QED BY <1>12, <2>1 DEF PersistEnds, locals
<1>13. ASSUME NEW ok \in BOOLEAN, FinishEnds(a, ok) PROVE Goal
  BY <1>13 DEF FinishEnds, locals
<1>14. CASE SetModel(a)
  BY <1>14 DEF SetModel, locals, SessionInv, WorkerInv
<1> HIDE DEF TypeOK, Goto
<1> QED
  BY <1>1, <1>2, <1>3, <1>4, <1>5, <1>6, <1>7, <1>8, <1>9, <1>10, <1>11, <1>12, <1>13, <1>14
     DEF Runs, Work

LEMMA GateStep ==
  ASSUME ~Overlap, SessionsInv, OneAtATime, GateInv, [Next]_vars
  PROVE  GateInv'
<1> DEFINE Holds(s) == Replaces(s) /\ published[s] /\ worker[s] # "done"
<1>1. ASSUME NEW m \in Modes, NEW held, Launch(m, held) PROVE GateInv'
  <2> DEFINE n == Last + 1
  <2>1. /\ n \in Sessions /\ ~Started(n) /\ Last' = n /\ StartedInOrder'
        /\ Last \in Nat
    BY <1>1, LaunchOrder, LastIsNat DEF SessionsInv, StartedInOrder
  <2>2. /\ UNCHANGED <<published, told, gate>>
        /\ worker' = [worker EXCEPT ![n] = "open"] /\ mode' = [mode EXCEPT ![n] = m]
        /\ \A p \in 1..Last : told[p] # "nothing" \/ worker[p] = "done"
    BY <1>1 DEF Launch, locals
  <2>3. ~published[n]
    BY <2>1 DEF SessionsInv, SessionInv, WorkerInv, Untouched, Started
  <2> HIDE DEF n
  <2>4. \A s \in Sessions : s # n => worker'[s] = worker[s] /\ mode'[s] = mode[s]
    BY <2>1, <2>2 DEF SessionsInv, TypeOK
  <2>5. ASSUME NEW s \in Sessions PROVE Holds(s)' <=> gate' = s
    <3>1. CASE s = n
      <4>1. gate # n
        BY <2>1, <2>3 DEF GateInv
      <4> QED BY <2>2, <2>3, <3>1, <4>1
    <3>2. CASE s # n
      BY <2>2, <2>4, <3>2 DEF GateInv, Replaces
    <3> QED BY <3>1, <3>2
  <2>6. ASSUME NEW s \in Sessions, NEW p \in Sessions, s < p, Started(p)', Replaces(s)',
               worker'[s] # "done"
        PROVE  worker'[p] = "open"
    <3>1. p <= n /\ s # n
      BY <2>1, <2>6 DEF StartedInOrder, Sessions
    <3>2. CASE p = n
      BY <2>1, <2>2, <3>2 DEF SessionsInv, TypeOK
    <3>3. CASE p # n
      BY <2>4, <2>6, <3>1, <3>3 DEF GateInv, Started, Replaces
    <3> QED BY <3>2, <3>3
  <2> QED BY <2>5, <2>6 DEF GateInv
<1>2. ASSUME HostOnly \/ Query PROVE GateInv'
  BY <1>2 DEF HostOnly, Query, GateInv, Started, Replaces, locals, shared
<1>3. ASSUME NEW a \in Sessions, Runs(a) PROVE GateInv'
  <2>1. /\ Holds(a)' <=> gate' = a
        /\ gate' \in {gate, 0, a}
        /\ gate' # gate => gate \in {0, a}
        /\ worker[a] = "open" /\ worker'[a] # "open" => gate = 0
    BY <1>3, GateMoves DEF GateInv
  <2>2. UNCHANGED mode
    BY <1>3, Progress DEF SessionsInv
  <2>3. ASSUME NEW s \in Sessions PROVE Holds(s)' <=> gate' = s
    <3>1. CASE s # a
      <4>1. Holds(s)' <=> Holds(s)
        BY <1>3, <3>1, OthersStay DEF SessionsInv, Same, Replaces
      <4>2. s # 0
        BY DEF Sessions
      <4> QED BY <2>1, <3>1, <4>1, <4>2 DEF GateInv
    <3> QED BY <2>1, <3>1
  <2>4. ASSUME NEW s \in Sessions, NEW p \in Sessions, s < p, Started(p)', Replaces(s)',
               worker'[s] # "done"
        PROVE  worker'[p] = "open"
    <3>1. Started(p) /\ Replaces(s)
      BY <2>2, <2>4 DEF Started, Replaces
    <3>2. worker[s] # "done"
      BY <1>3, <2>4, Progress, OthersStay DEF SessionsInv, Same
    <3>3. worker[p] = "open"
      BY <2>4, <3>1, <3>2 DEF GateInv
    <3>4. gate = s
      <4>1. told[s] # "nothing"
        BY <2>4, <3>1, <3>2 DEF OneAtATime
      <4>2. published[s]
        BY <3>1, <4>1 DEF SessionsInv, SessionInv, ToldInv, PublishedInv
      <4> QED BY <3>1, <3>2, <4>2 DEF GateInv
    <3>5. s # 0
      BY DEF Sessions
    <3>6. CASE p = a
      BY <2>1, <3>3, <3>4, <3>5, <3>6
    <3>7. CASE p # a
      BY <1>3, <3>3, <3>7, OthersStay DEF SessionsInv, Same
    <3> QED BY <3>6, <3>7
  <2> QED BY <2>3, <2>4 DEF GateInv
<1> QED BY <1>1, <1>2, <1>3, NextCases DEF Cases
LEMMA OwnDisk ==
  ASSUME SessionsInv, NEW a \in Sessions, Runs(a), DiskOf(a)
  PROVE  DiskOf(a)'
<1>0. WorkerInv(a) /\ PublishedInv(a) /\ TypeOK
  BY DEF SessionsInv, SessionInv
<1> USE <1>0 DEF TypeOK, Goto, DiskOf, Replaces
<1> HIDE DEF Catalogs, None
<1>1. CASE Produce(a)
  BY <1>1 DEF Produce, locals, shared, history
<1>2. CASE Open(a)
  BY <1>2 DEF Open, shared
<1>3. CASE Receive(a)
  BY <1>3 DEF Receive, shared, history
<1>4. CASE PublishReplaced(a)
  <2>1. <<a, tx[a]>> # None
    BY CatalogFacts
  <2> QED BY <1>4, <2>1 DEF PublishReplaced, history
<1>5. CASE Lock(a)
  BY <1>5 DEF Lock, history, WorkerInv, PublishedInv
<1>6. CASE PublishMerged(a)
  BY <1>6 DEF PublishMerged, history
<1>7. CASE Forward(a)
  BY <1>7 DEF Forward, shared, history, Inserted, Records
<1>8. CASE Flush(a) \/ Finish(a)
  BY <1>8 DEF Flush, Finish, Apply, shared, history
<1>9. CASE Drained(a) \/ Persist(a)
  BY <1>9 DEF Drained, Persist, locals, shared, history
<1>10. CASE Deadline(a)
  BY <1>10 DEF Deadline, locals, shared, history
<1>11. ASSUME NEW ok \in BOOLEAN, FlushEnds(a, ok) PROVE DiskOf(a)'
  BY <1>11 DEF FlushEnds, Written
<1>12. ASSUME NEW ok \in BOOLEAN, PersistEnds(a, ok) PROVE DiskOf(a)'
  BY <1>12 DEF PersistEnds, Written, locals, WorkerInv
<1>13. ASSUME NEW ok \in BOOLEAN, FinishEnds(a, ok) PROVE DiskOf(a)'
  BY <1>13 DEF FinishEnds, Written, locals
<1>14. CASE SetModel(a)
  BY <1>14 DEF SetModel, locals, history, WorkerInv
<1> HIDE DEF TypeOK, Goto
<1> QED
  BY <1>1, <1>2, <1>3, <1>4, <1>5, <1>6, <1>7, <1>8, <1>9, <1>10, <1>11, <1>12, <1>13, <1>14
     DEF Runs, Work

LEMMA OwnModel ==
  ASSUME SessionsInv, NEW a \in Sessions, Runs(a), DiskOf(a), ModelOf(a)
  PROVE  ModelOf(a)'
<1>0. WorkerInv(a) /\ PublishedInv(a) /\ ContentInv(a) /\ TypeOK
  BY DEF SessionsInv, SessionInv
<1> USE <1>0 DEF TypeOK, Goto, ModelOf, Replaces
<1> HIDE DEF Catalogs, None
<1>1. CASE Produce(a)
  BY <1>1 DEF Produce, locals, shared, history
<1>2. CASE Open(a)
  BY <1>2 DEF Open, shared
<1>3. CASE Receive(a)
  BY <1>3 DEF Receive, shared, history
<1>4. CASE PublishReplaced(a)
  BY <1>4 DEF PublishReplaced, history, WorkerInv
<1>5. CASE Lock(a)
  BY <1>5 DEF Lock, history, WorkerInv
<1>6. CASE PublishMerged(a)
  BY <1>6 DEF PublishMerged, history, WorkerInv, ContentInv
<1>7. CASE Forward(a)
  BY <1>7 DEF Forward, shared, history, Inserted, PublishedInv, Terminal
<1>8. CASE Flush(a) \/ Finish(a)
  BY <1>8 DEF Flush, Finish, Apply, shared, history
<1>9. CASE Drained(a) \/ Persist(a)
  BY <1>9 DEF Drained, Persist, locals, shared, history
<1>10. CASE Deadline(a)
  BY <1>10 DEF Deadline, locals, shared, history
<1>11. ASSUME NEW ok \in BOOLEAN, FlushEnds(a, ok) PROVE ModelOf(a)'
  BY <1>11 DEF FlushEnds, Written
<1>12. ASSUME NEW ok \in BOOLEAN, PersistEnds(a, ok) PROVE ModelOf(a)'
  BY <1>12 DEF PersistEnds, Written, locals, WorkerInv, PublishedInv
<1>13. ASSUME NEW ok \in BOOLEAN, FinishEnds(a, ok) PROVE ModelOf(a)'
  BY <1>13 DEF FinishEnds, Written, locals
<1>14. CASE SetModel(a)
  <2>1. a \notin failed => disk = <<a, tx[a]>>
    BY <1>14 DEF SetModel, DiskOf
  <2>2. ~Replaces(a) => repo[a] = <<a, tx[a]>>
    <3>1. mode[a] # "unstarted"
      BY <1>14 DEF SetModel, WorkerInv
    <3>2. ~Replaces(a) => mode[a] = "incremental"
      BY <3>1, SessionAssumption
    <3> QED BY <1>14, <3>2 DEF SetModel, ContentInv
  <2> QED BY <1>14, <2>1, <2>2 DEF SetModel, locals, history, WorkerInv
<1> HIDE DEF TypeOK, Goto
<1> QED
  BY <1>1, <1>2, <1>3, <1>4, <1>5, <1>6, <1>7, <1>8, <1>9, <1>10, <1>11, <1>12, <1>13, <1>14
     DEF Runs, Work

LEMMA DiskStep ==
  ASSUME SessionsInv, OneAtATime, GateInv, DiskInv, [Next]_vars
  PROVE  DiskInv'
<1>1. ASSUME NEW m \in Modes, NEW held, Launch(m, held) PROVE DiskInv'
  <2> SUFFICES ASSUME NEW s \in Sessions, Owns(s)' PROVE DiskOf(s)'
    BY DEF DiskInv
  <2>1. /\ Last' = Last + 1 /\ Last + 1 \in Sessions /\ Last \in Nat /\ s \in Nat
        /\ ~Started(Last + 1)
    BY <1>1, LaunchOrder, LastIsNat DEF SessionsInv, StartedInOrder, Sessions
  <2>2. /\ UNCHANGED <<locals, told, disk, history>>
        /\ worker' = [worker EXCEPT ![Last + 1] = "open"]
        /\ mode' = [mode EXCEPT ![Last + 1] = m]
    BY <1>1 DEF Launch
  <2>3. CASE s = Last + 1
    <3>1. ~flushed[s] /\ worker'[s] = "open"
      BY <2>1, <2>2, <2>3 DEF SessionsInv, SessionInv, WorkerInv, Untouched, Started, TypeOK
    <3> QED BY <2>2, <3>1 DEF DiskOf, locals
  <2>4. CASE s # Last + 1
    <3>1. s = Last
      BY <2>1, <2>4 DEF Owns
    <3>2. worker'[s] = worker[s] /\ mode'[s] = mode[s]
      BY <2>1, <2>2, <2>4 DEF SessionsInv, TypeOK
    <3>3. Spoiled(s) => Spoiled(s)'
      <4> SUFFICES ASSUME NEW p \in 1..(s - 1), Straggler(p) PROVE Straggler(p)'
        BY DEF Spoiled
      <4>1. p \in Sessions /\ p # Last + 1
        BY <2>1, <3>1, SessionAssumption DEF Sessions
      <4>2. mode'[p] = mode[p]
        BY <2>1, <2>2, <4>1 DEF SessionsInv, TypeOK
      <4> QED BY <2>2, <4>2 DEF Straggler, history
    <3>4. DiskOf(s)
      BY <3>1, <3>2, <3>3 DEF DiskInv, Owns, Started
    <3> QED BY <2>2, <3>2, <3>4 DEF DiskOf, locals, history
  <2> QED BY <2>3, <2>4
<1>2. ASSUME HostOnly \/ Query PROVE DiskInv'
  <2>1. /\ UNCHANGED <<mode, worker, told, disk>> /\ UNCHANGED <<flushed, dirty, deferred, tx, failed>>
    BY <1>2 DEF HostOnly, Query, locals, shared, history
  <2>2. UNCHANGED Last
    BY <2>1 DEF Last, Started
  <2> QED BY <2>1, <2>2 DEF DiskInv, DiskOf, Owns, Started, Spoiled, Straggler
<1>3. ASSUME NEW a \in Sessions, Runs(a) PROVE DiskInv'
  <2> SUFFICES ASSUME NEW s \in Sessions, Owns(s)' PROVE DiskOf(s)'
    BY DEF DiskInv
  <2>1. UNCHANGED mode /\ Started(a)
    BY <1>3, Progress DEF SessionsInv, SessionInv, WorkerInv, Started
  <2>2. Last' = Last
    BY <2>1 DEF Last, Started
  <2>3. Last \in Nat /\ s \in Nat /\ a \in Nat /\ a \in 1..Last
    <3>1. a <= Last
      BY <2>1 DEF SessionsInv, StartedInOrder
    <3> HIDE DEF SessionsInv
    <3> QED BY <3>1, LastIsNat DEF Sessions
  <2>4. Owns(s)
    <3>1. Started(s) /\ ~Spoiled(s)
      BY <1>3, <2>1, StragglersRemain DEF Owns, Started
    <3>2. Last = s + 1 /\ worker'[Last] = "open" => worker[Last] = "open"
      <4> SUFFICES ASSUME Last = s + 1, worker'[Last] = "open" PROVE worker[Last] = "open"
        OBVIOUS
      <4>1. Last \in Sessions
        BY <2>3, LastIsNat DEF Sessions
      <4>2. CASE Last = a
        BY <1>3, <4>2, Progress DEF SessionsInv
      <4>3. CASE Last # a
        BY <1>3, <4>1, <4>3, OthersStay DEF SessionsInv, Same
      <4> QED BY <4>2, <4>3
    <3> QED BY <2>2, <3>1, <3>2 DEF Owns
  <2>5. DiskOf(s)
    BY <2>4 DEF DiskInv
  <2>6. CASE s = a
    BY <1>3, <2>5, <2>6, OwnDisk
  <2>7. CASE s # a
    <3>1. Same(s)
      BY <1>3, <2>7, OthersStay DEF SessionsInv
    <3>2. CASE worker[s] = "open"
      <4>1. ~flushed[s]
        BY <3>2 DEF SessionsInv, SessionInv, WorkerInv, Untouched
      <4> QED BY <3>1, <3>2, <4>1 DEF DiskOf, Same
    <3>3. CASE worker[s] # "open"
      <4>1. a \notin Writers
        <5>1. CASE a < s
          <6>1. ~Straggler(a)
            <7>1. a \in 1..(s - 1)
              BY <2>3, <5>1
            <7> QED BY <2>4, <7>1 DEF Owns, Spoiled
          <6> QED BY <2>4, <3>3, <5>1, <6>1, EarlierSessions DEF Owns
        <5>2. CASE ~(a < s)
          <6>1. a = Last /\ Last = s + 1 /\ worker[Last] = "open"
            BY <2>3, <2>4, <2>7, <5>2 DEF Owns
          <6> QED BY <6>1 DEF Writers
        <5> QED BY <5>1, <5>2
      <4>2. disk' = disk
        BY <1>3, <4>1, Progress DEF SessionsInv
      <4> QED BY <2>5, <3>1, <4>2 DEF DiskOf, Same
    <3> QED BY <3>2, <3>3
  <2> QED BY <2>6, <2>7
<1> QED BY <1>1, <1>2, <1>3, NextCases DEF Cases
LEMMA ModelStep ==
  ASSUME ~Overlap, SessionsInv, OneAtATime, GateInv, DiskInv, ModelInv, [Next]_vars
  PROVE  ModelInv'
<1>1. ASSUME NEW m \in Modes, NEW held, Launch(m, held) PROVE ModelInv'
  <2> SUFFICES ASSUME NEW s \in Sessions, s = Last' PROVE ModelOf(s)'
    BY DEF ModelInv
  <2>1. s = Last + 1 /\ ~Started(s)
    BY <1>1, LaunchOrder, LastIsNat DEF SessionsInv, StartedInOrder
  <2>2. worker[s] = "none" /\ deferred[s] = None /\ ~published[s]
    BY <2>1 DEF SessionsInv, SessionInv, WorkerInv, Untouched, Started
  <2>3. UNCHANGED <<deferred, published>> /\ worker'[s] = "open"
    BY <1>1, <2>1 DEF Launch, SessionsInv, TypeOK, locals
  <2> QED BY <2>2, <2>3 DEF ModelOf
<1>2. ASSUME HostOnly PROVE ModelInv'
  <2>1. UNCHANGED <<mode, worker, told, disk, model>> /\ UNCHANGED <<deferred, tx, published, failed>>
    BY <1>2 DEF HostOnly, locals, shared, history
  <2>2. UNCHANGED Last
    BY <2>1 DEF Last, Started
  <2> QED BY <2>1, <2>2 DEF ModelInv, ModelOf, Spoiled, Straggler
<1>3. ASSUME Query PROVE ModelInv'
  <2> SUFFICES ASSUME NEW s \in Sessions, s = Last', ~Spoiled(s)' PROVE ModelOf(s)'
    BY DEF ModelInv
  <2>1. /\ UNCHANGED <<mode, worker, told, disk>> /\ UNCHANGED <<deferred, tx, published, failed>>
        /\ model = None
    BY <1>3 DEF Query, locals, history
  <2>2. UNCHANGED Last
    BY <2>1 DEF Last, Started
  <2>3. ModelOf(s)
    BY <2>1, <2>2 DEF ModelInv, Spoiled, Straggler
  <2>4. deferred[s] \in Catalogs \cup {None} /\ disk # None /\ <<s, tx[s]>> # None
    BY CatalogFacts DEF SessionsInv, TypeOK
  <2> QED BY <2>1, <2>3, <2>4 DEF ModelOf
<1>4. ASSUME NEW a \in Sessions, Runs(a) PROVE ModelInv'
  <2> SUFFICES ASSUME NEW s \in Sessions, s = Last', ~Spoiled(s)' PROVE ModelOf(s)'
    BY DEF ModelInv
  <2>1. UNCHANGED mode /\ Started(a)
    BY <1>4, Progress DEF SessionsInv, SessionInv, WorkerInv, Started
  <2>2. s = Last /\ ~Spoiled(s)
    <3>1. Last' = Last
      BY <2>1 DEF Last, Started
    <3> QED BY <1>4, <3>1, StragglersRemain
  <2>3. ModelOf(s) /\ DiskOf(s) /\ Started(s)
    BY <2>2 DEF ModelInv, DiskInv, Owns, SessionsInv, StartedInOrder, Sessions
  <2>4. CASE s = a
    BY <1>4, <2>3, <2>4, OwnModel
  <2>5. CASE s # a
    <3>1. Same(s)
      BY <1>4, <2>5, OthersStay DEF SessionsInv
    <3>2. a < s /\ a \in 1..(s - 1)
      <4>1. a <= Last
        BY <2>1 DEF SessionsInv, StartedInOrder
      <4> QED BY <2>2, <2>5, <4>1, LastIsNat DEF Sessions
    <3>3. ~Straggler(a)
      BY <2>2, <3>2 DEF Spoiled
    <3>4. worker[a] \notin {"publish", "set"} /\ (a \in Writers => worker[s] = "open")
      BY <2>3, <3>2, <3>3, EarlierSessions
    <3>5. model' = model /\ (worker[s] = "done" => disk' = disk)
      BY <1>4, <3>4, Progress DEF SessionsInv
    <3> QED BY <2>3, <3>1, <3>5 DEF ModelOf, Same
  <2> QED BY <2>4, <2>5
<1> QED BY <1>1, <1>2, <1>3, <1>4, NextCases DEF Cases

LEMMA OnlyOpenReads ==
  ASSUME NEW a \in Sessions, Runs(a), base' # base
  PROVE  Open(a)
BY DEF Runs, Work, Produce, Receive, PublishReplaced, Lock, PublishMerged, Forward, Flush, Finish,
   Apply, Drained, Persist, Deadline, FlushEnds, PersistEnds, FinishEnds, SetModel, history

(* The catalog an incremental rescan compares with. *)
LEMMA BaseStep ==
  ASSUME ~Overlap, SessionsInv, OneAtATime, GateInv, DiskInv, RescanReadsFresh, [Next]_vars
  PROVE  RescanReadsFresh'
<1> DEFINE Fresh(s) == base[s] = <<s - 1, "full">> \/ \E p \in 1..(s - 2) : Straggler(p)
           Asked(s) == /\ mode[s] = "incremental" /\ base[s] # None /\ told[s - 1] = "completed"
                       /\ s - 1 \notin failed
<1>1. \A s \in Sessions \ {1} : Asked(s) => Fresh(s)
  BY DEF RescanReadsFresh
<1>2. \A s \in Sessions \ {1} : s - 1 \in Sessions /\ s \in Nat /\ s - 1 < s
  BY SessionAssumption DEF Sessions
<1>3. \A s \in Sessions : base[s] # None => Started(s)
  BY DEF SessionsInv, SessionInv, WorkerInv, Untouched, Started
<1>4. SUFFICES ASSUME NEW s \in Sessions \ {1}, Asked(s)' PROVE Fresh(s)'
  BY DEF RescanReadsFresh
<1>5. ASSUME NEW m \in Modes, NEW held, Launch(m, held) PROVE Fresh(s)'
  <2>1. UNCHANGED <<told, base, failed>> /\ mode' = [mode EXCEPT ![Last + 1] = m]
    BY <1>5 DEF Launch, history
  <2>2. ~Started(Last + 1) /\ Last + 1 \in Sessions /\ Last \in Nat
    BY <1>5, LaunchOrder, LastIsNat DEF SessionsInv, StartedInOrder
  <2>3. s # Last + 1
    BY <1>3, <1>4, <2>1, <2>2
  <2>4. Asked(s)
    BY <1>4, <2>1, <2>2, <2>3 DEF SessionsInv, TypeOK
  <2>5. \A p \in Sessions : Straggler(p) => Straggler(p)'
    BY <2>1, <2>2 DEF SessionsInv, TypeOK, Straggler, Started
  <2>6. 1..(s - 2) \subseteq Sessions
    BY SessionAssumption DEF Sessions
  <2> QED BY <1>1, <2>1, <2>4, <2>5, <2>6
<1>6. ASSUME HostOnly \/ Query PROVE Fresh(s)'
  BY <1>1, <1>4, <1>6 DEF HostOnly, Query, history, Straggler
<1>7. ASSUME NEW a \in Sessions, Runs(a) PROVE Fresh(s)'
  <2>1. UNCHANGED mode /\ failed \subseteq failed'
    BY <1>7, Progress DEF SessionsInv
  <2>2. ASSUME Fresh(s), base'[s] = base[s] PROVE Fresh(s)'
    <3>1. 1..(s - 2) \subseteq Sessions
      BY SessionAssumption DEF Sessions
    <3> QED BY <1>7, <2>2, <3>1, StragglersRemain
  <2> DEFINE q == s - 1
  <2>3. q \in Sessions /\ q < s /\ s \in Sessions /\ s = q + 1
    BY <1>2
  <2> HIDE DEF q
  <2>4. ASSUME Started(s) PROVE told[q] = "completed"
    <3>1. told[q] # "nothing" \/ worker[q] = "done"
      BY <2>3, <2>4 DEF OneAtATime
    <3>2. told'[q] = told[q]
      BY <1>7, <2>3, <3>1, Progress, OthersStay DEF SessionsInv, Same
    <3> QED BY <1>4, <3>2 DEF q
  <2>5. CASE base[s] # None
    <3>1. base'[s] = base[s]
      BY <1>7, <2>5, Progress, OthersStay DEF SessionsInv, Same
    <3>2. Asked(s)
      BY <1>3, <1>4, <2>1, <2>4, <2>5 DEF q
    <3> QED BY <1>1, <2>2, <3>1, <3>2
  <2>6. CASE base[s] = None
    <3>1. s = a
      BY <1>4, <1>7, <2>6, OthersStay DEF SessionsInv, Same
    <3>2. Open(s)
      BY <1>4, <1>7, <2>6, <3>1, OnlyOpenReads
    <3>3. Started(s) /\ told[q] = "completed" /\ q \notin failed /\ mode[s] = "incremental"
      BY <1>4, <1>7, <2>1, <2>4, <3>1, Progress DEF SessionsInv, SessionInv, WorkerInv, Started, q
    <3>4. worker[s] = "open" /\ gate = 0 /\ base' = [base EXCEPT ![s] = base'[s]]
          /\ base'[s] \in Loads
      BY <3>2, <3>3 DEF Open, Replaces, SessionsInv, TypeOK
    <3>5. Last = s
      <4>1. s <= Last /\ Last \in Sessions
        BY <3>3, LastIsNat DEF SessionsInv, StartedInOrder, Sessions
      <4>2. Started(Last)
        BY <4>1, LastIsNat DEF SessionsInv, StartedInOrder
      <4>3. told[s] = "nothing"
        BY <3>4 DEF SessionsInv, SessionInv, WorkerInv, Untouched
      <4>4. ~(s < Last)
        BY <3>4, <4>1, <4>2, <4>3 DEF OneAtATime
      <4> QED BY <4>1, <4>4, LastIsNat DEF Sessions
    <3>6. Started(q)
      BY <2>3, <3>5, LastIsNat DEF SessionsInv, StartedInOrder, Sessions
    <3>7. CASE Spoiled(q)
      <4>1. PICK p \in 1..(q - 1) : Straggler(p)
        BY <3>7 DEF Spoiled
      <4>2. p \in Sessions /\ p \in 1..(s - 2)
        BY <2>3, SessionAssumption DEF Sessions
      <4> QED BY <1>7, <4>1, <4>2, StragglersRemain
    <3>8. CASE ~Spoiled(q)
      <4>1. /\ DiskOf(q) /\ ToldInv(q) /\ PublishedInv(q) /\ ContentInv(q)
            /\ mode[q] \in Modes
        BY <2>3, <3>4, <3>5, <3>6, <3>8 DEF DiskInv, Owns, SessionsInv, SessionInv, TypeOK, Started
      <4>2. event[q] = "completed"
        BY <3>3, <4>1 DEF ToldInv
      <4>3. disk = <<q, "full">>
        <5>1. CASE Replaces(q)
          <6>1. worker[q] = "done"
            <7>1. published[q]
              BY <3>3, <4>1, <4>2, <5>1 DEF ToldInv, PublishedInv, Terminal
            <7>2. q # 0
              BY <2>3 DEF Sessions
            <7> QED BY <2>3, <3>4, <5>1, <7>1, <7>2 DEF GateInv
          <6>2. deferred[q] = <<q, "full">> /\ deferred[q] # None
            BY <4>1, <4>2, <5>1, <6>1 DEF PublishedInv, Terminal
          <6> QED BY <3>3, <4>1, <6>1, <6>2 DEF DiskOf
        <5>2. CASE ~Replaces(q)
          <6>1. mode[q] = "incremental"
            BY <4>1, <5>2, SessionAssumption DEF Replaces
          <6>2. flushed[q] /\ ~dirty[q] /\ deferred[q] = None /\ tx[q] = "full"
            BY <3>3, <4>1, <4>2, <5>2, <6>1 DEF ContentInv, PublishedInv
          <6> QED BY <4>1, <6>2 DEF DiskOf
        <5> QED BY <5>1, <5>2
      <4>4. Writers = {}
        <5> SUFFICES ASSUME NEW w \in Sessions, w \in Writers PROVE FALSE
          BY DEF Writers
        <5>1. Started(w) /\ w # s
          BY <3>4 DEF Writers, SessionsInv, SessionInv, WorkerInv, Started
        <5>2. w < s
          BY <3>5, <5>1 DEF SessionsInv, StartedInOrder, Sessions
        <5>3. Straggler(w)
          BY <2>3, <3>3, <3>4, <5>2, EarlierSessions
        <5>4. ~Straggler(q)
          BY <3>3 DEF Straggler
        <5>5. w \in 1..(q - 1)
          BY <2>3, <5>2, <5>3, <5>4 DEF Sessions
        <5> QED BY <3>8, <5>3, <5>5 DEF Spoiled
      <4> QED BY <3>4, <4>3, <4>4 DEF Loads, q
    <3> QED BY <3>7, <3>8
  <2> QED BY <2>5, <2>6
<1> QED BY <1>5, <1>6, <1>7, NextCases DEF Cases
-----------------------------------------------------------------------------
LEMMA ScanCorrect == ASSUME ~Overlap PROVE Spec => []ScanInv
<1>1. Init => ScanInv
  <2> SUFFICES ASSUME Init PROVE ScanInv
    OBVIOUS
  <2>1. SessionsInv
    BY SessionsInit
  <2>2. OneAtATime /\ DiskInv
    BY DEF Init, OneAtATime, DiskInv, Owns, Started
  <2>3. GateInv
    BY DEF Init, GateInv, Started, Sessions
  <2>4. ModelInv
    <3>1. Last = 0
      <4>1. {s \in Sessions : Started(s)} = {}
        BY DEF Init, Started
      <4> QED BY <4>1, FS_EmptySet DEF Last
    <3> QED BY <3>1 DEF ModelInv, Sessions
  <2>5. RescanReadsFresh
    BY DEF Init, RescanReadsFresh
  <2> QED BY <2>1, <2>2, <2>3, <2>4, <2>5 DEF ScanInv
<1>2. ScanInv /\ [Next]_vars => ScanInv'
  BY SessionsStep, OneAtATimeStep, GateStep, DiskStep, ModelStep, BaseStep DEF ScanInv
<1> QED BY <1>1, <1>2, PTL DEF Spec

(* Sessions that follow one another never write the snapshot at once,      *)
(* stragglers apart: what SnapshotStore assumes of its writers.            *)
THEOREM OneSessionWrites == ASSUME ~Overlap PROVE Spec => []OneWriter
<1>1. ScanInv => OneWriter
  <2> SUFFICES ASSUME ScanInv, NEW s \in Writers, NEW p \in Writers, s # p
               PROVE  Straggler(s) \/ Straggler(p)
    BY DEF OneWriter
  <2>1. s \in Sessions /\ p \in Sessions /\ worker[s] # "open" /\ worker[p] # "open"
        /\ worker[s] # "none" /\ worker[p] # "none"
    BY DEF Writers
  <2>2. Started(s) /\ Started(p)
    BY <2>1 DEF ScanInv, SessionsInv, SessionInv, WorkerInv, Started
  <2>3. s < p \/ p < s
    BY <2>1 DEF Sessions
  <2> QED BY <2>1, <2>2, <2>3, EarlierSessions DEF ScanInv
<1> QED BY <1>1, ScanCorrect, PTL

(* An incremental rescan that starts the moment the host hears Completed   *)
(* compares with the catalog of the scan it heard of.                      *)
THEOREM RescansCompareWithTheLastScan == ASSUME ~Overlap PROVE Spec => []RescanReadsFresh
<1>1. ScanInv => RescanReadsFresh
  BY DEF ScanInv
<1> QED BY <1>1, ScanCorrect, PTL

(* The host that reloads when it hears Completed finds the new catalog.    *)
THEOREM ReloadsFindTheNewCatalog == ASSUME ~Overlap PROVE Spec => []ReloadIsFresh
<1>1. ScanInv => ReloadIsFresh
  <2> SUFFICES ASSUME ScanInv, Last > 0, told[Last] = "completed", Last \notin failed,
                      ~Spoiled(Last)
               PROVE  model = <<Last, "full">>
    BY DEF ReloadIsFresh, Spoiled
  <2> DEFINE s == Last
  <2>1. s \in Sessions /\ Started(s)
    BY LastIsNat DEF ScanInv, SessionsInv, StartedInOrder, Sessions
  <2>2. /\ ModelOf(s) /\ ToldInv(s) /\ PublishedInv(s) /\ ContentInv(s) /\ mode[s] \in Modes
    BY <2>1 DEF ScanInv, ModelInv, SessionsInv, SessionInv, TypeOK, Started
  <2> HIDE DEF s
  <2>3. event[s] = "completed" /\ worker[s] # "publish" /\ s \notin failed
    BY <2>2 DEF ToldInv, s
  <2>4. CASE Replaces(s)
    <3>1. deferred[s] = <<s, "full">> /\ deferred[s] # None
      BY <2>2, <2>3, <2>4 DEF PublishedInv, Terminal
    <3> QED BY <2>2, <3>1 DEF ModelOf, s
  <2>5. CASE ~Replaces(s)
    <3>1. mode[s] = "incremental"
      BY <2>2, <2>5, SessionAssumption DEF Replaces
    <3>2. published[s] /\ tx[s] = "full"
      BY <2>2, <2>3, <2>5, <3>1 DEF PublishedInv, ContentInv
    <3> QED BY <2>2, <3>1, <3>2 DEF ModelOf, s
  <2> QED BY <2>4, <2>5
<1> QED BY <1>1, ScanCorrect, PTL

(* When all sessions are over, a restart loads what the model shows.       *)
THEOREM RestartShowsTheModel == ASSUME ~Overlap PROVE Spec => []SnapshotMatchesModel
<1>1. ScanInv => SnapshotMatchesModel
  <2> SUFFICES ASSUME ScanInv, \A s \in Sessions : Started(s) => worker[s] = "done", Last > 0,
                      failed = {}, \A s \in Sessions : ~Straggler(s)
               PROVE  model = disk
    BY DEF SnapshotMatchesModel
  <2> DEFINE s == Last
  <2>1. s \in Sessions /\ Started(s)
    BY LastIsNat DEF ScanInv, SessionsInv, StartedInOrder, Sessions
  <2>2. ~Spoiled(s)
    <3>1. 1..(s - 1) \subseteq Sessions
      BY LastIsNat, SessionAssumption DEF Sessions
    <3> QED BY <3>1 DEF Spoiled
  <2>3. /\ ModelOf(s) /\ DiskOf(s) /\ WorkerInv(s) /\ PublishedInv(s) /\ mode[s] \in Modes
        /\ worker[s] = "done"
    BY <2>1, <2>2 DEF ScanInv, ModelInv, DiskInv, Owns, SessionsInv, SessionInv, TypeOK, Started
  <2> HIDE DEF s
  <2>4. CASE deferred[s] # None
    BY <2>3, <2>4 DEF ModelOf, DiskOf
  <2>5. CASE deferred[s] = None /\ published[s]
    <3>1. mode[s] = "incremental"
      <4>1. ~Replaces(s)
        BY <2>3, <2>5 DEF PublishedInv
      <4> QED BY <2>3, <4>1, SessionAssumption DEF Replaces
    <3> QED BY <2>3, <2>5, <3>1 DEF ModelOf, DiskOf, PublishedInv
  <2>6. CASE deferred[s] = None /\ ~published[s]
    BY <2>3, <2>6 DEF ModelOf
  <2> QED BY <2>4, <2>5, <2>6
<1> QED BY <1>1, ScanCorrect, PTL
=============================================================================
