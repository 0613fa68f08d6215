--------------------------- MODULE UiSessionProofs ---------------------------
(***************************************************************************)
(* Proofs about the main window as the host of scan sessions: a session is *)
(* lost only if its handle was stored amid a terminal callback, and the    *)
(* window uses the native side only in the ways that ScanSession allows    *)
(* its host, so that what is proved of every ScanSession host holds of the *)
(* window.                                                                 *)
(*                                                                         *)
(* OnlyStraddledAreLost is not inductive: AssignSession, CancelDetaches and*)
(* ClearsHandle overwrite m_session, and that loses nothing else only      *)
(* because the handle was empty, or was copied before.  HandlesAgree says  *)
(* so, at each place of the user interface thread and of a callback.       *)
(***************************************************************************)
EXTENDS UiSession, TLAPS

HandlesAgree ==
  /\ ui[1] \in {"idle", "assigned"} => ui[2] = 0
  /\ m_session \notin {0} \cup straddled => m_session_active \/ ui[1] = "assigned"
  /\ ui[1] = "starting" => ui[2] # 0 /\ m_session \in {0} \cup straddled
  /\ ui[1] = "cancelling" => m_session \in {0, ui[2]}
  /\ callback[2] = "taken" => m_session \in {0, callback[3]} \cup straddled
  /\ callback[2] = "cleared" => m_session \in {0} \cup straddled

(* What OnlyStraddledAreLost needs to know of the native side.             *)
ClosingTyped ==
  /\ mode \in [Sessions -> Modes \cup {"unstarted"}]
  /\ closing \in [Sessions -> {"no", "scan", "worker", "gone"}]

HandleInv == UiTypeOK /\ ClosingTyped /\ HandlesAgree /\ OnlyStraddledAreLost

-----------------------------------------------------------------------------
LEMMA NobodyIsZero == 0 \notin Sessions
BY SessionAssumption DEF Sessions

Calls == (Sessions \cup {0}) \X Sessions \X {"cancel", "destroy"}

LEMMA EntriesAreCalls ==
  ASSUME NEW owner \in Sessions \cup {0}, NEW s \in Sessions \cup {0}, NEW call \in {"cancel", "destroy"}
  PROVE  /\ Entry(owner, s, call) \subseteq Calls
         /\ s # 0 => <<owner, s, call>> \in Entry(owner, s, call)
BY DEF Entry, Calls

LEMMA WindowInit == UiInit => HandleInv
<1> SUFFICES ASSUME UiInit PROVE HandleInv
  OBVIOUS
<1>1. ClosingTyped /\ \A s \in Sessions : ~Started(s)
  BY DEF UiInit, Init, ClosingTyped, Started
<1>2. /\ m_session = 0 /\ m_session_active = FALSE /\ ui = <<"idle", 0>> /\ detached = {}
      /\ callback = <<0, "out", 0>> /\ straddled = {} /\ misused = FALSE
  BY DEF UiInit, Idle, NoCallback
<1>3. UiTypeOK /\ HandlesAgree
  BY <1>2 DEF UiTypeOK, HandlesAgree, NoCallback
<1> QED BY <1>1, <1>3 DEF HandleInv, OnlyStraddledAreLost, Live

(* A step of the native side starts no session and reopens none.           *)
LEMMA NativeKeeps ==
  ASSUME ClosingTyped,
         \/ Query
         \/ \E s \in Sessions : Work(s) \/ Produce(s) \/ Close(s) \/ CancelSession(s) \/ Destroy(s)
  PROVE  ClosingTyped' /\ \A p \in Sessions : Live(p)' => Live(p)
<1>1. CASE UNCHANGED <<mode, closing>>
  BY <1>1 DEF ClosingTyped, Live, Started
<1>2. ASSUME NEW s \in Sessions, NEW step \in {"scan", "worker", "gone"}, mode' = mode,
             closing' = [closing EXCEPT ![s] = step]
      PROVE  ClosingTyped' /\ \A p \in Sessions : Live(p)' => Live(p)
  BY <1>2 DEF ClosingTyped, Live, Started
<1>3. ASSUME NEW s \in Sessions, Close(s) \/ Destroy(s)
      PROVE  mode' = mode /\ \E step \in {"scan", "worker", "gone"} :
               closing' = [closing EXCEPT ![s] = step]
  BY <1>3 DEF Close, JoinScan, JoinWorker, Destroy
<1>4. ASSUME NEW s \in Sessions, Work(s) PROVE UNCHANGED <<mode, closing>>
  BY <1>4 DEF Work, Open, Receive, PublishReplaced, Lock, PublishMerged, Forward, Flush, Drained,
    Persist, Finish, Apply, SetModel, FlushEnds, PersistEnds, FinishEnds, locals
<1>5. ASSUME NEW s \in Sessions, Produce(s) \/ CancelSession(s) PROVE UNCHANGED <<mode, closing>>
  BY <1>5 DEF Produce, CancelSession
<1>6. Query => UNCHANGED <<mode, closing>>
  BY DEF Query
<1> QED BY <1>1, <1>2, <1>3, <1>4, <1>5, <1>6

(* What every step but a start owes: a handle goes out of reach only when  *)
(* its session is destroyed or was stored amid a callback.                 *)
Passed(s) == Held(s) => Held(s)' \/ s \in straddled' \/ ~Live(s)'

LEMMA NothingElseLost ==
  ASSUME OnlyStraddledAreLost, straddled \subseteq straddled',
         \A s \in Sessions : Passed(s) /\ (Live(s)' => Live(s))
  PROVE  OnlyStraddledAreLost'
BY DEF OnlyStraddledAreLost, Passed

(* A step that leaves the native side alone. *)
LEMMA NativeIdle ==
  ASSUME ClosingTyped, UNCHANGED vars
  PROVE  ClosingTyped' /\ \A s \in Sessions : Live(s)' <=> Live(s)
BY DEF ClosingTyped, Live, Started, vars

(* Starting a session: its thread has the handle. *)
LEMMA BeginStep ==
  ASSUME HandleInv, NEW m \in Modes \ {"terminal"}, BeginScan(m)
  PROVE  HandleInv'
<1> USE NobodyIsZero
<1> USE DEF HandleInv, Idle
<1>1. PICK n \in Sessions :
        /\ ui = <<"idle", 0>> /\ ~m_session_active /\ ui' = <<"starting", n>>
        /\ mode' = [mode EXCEPT ![n] = m] /\ closing' = [closing EXCEPT ![n] = "no"]
        /\ UNCHANGED <<m_session, m_session_active, callback, detached, straddled, misused>>
  BY DEF BeginScan, Start, Launch
<1>2. UiTypeOK'
  BY <1>1 DEF UiTypeOK
<1>3. HandlesAgree'
  BY <1>1 DEF HandlesAgree
<1>4. ClosingTyped'
  BY <1>1 DEF ClosingTyped
<1>5. ASSUME NEW s \in Sessions, s # n, Live(s)' PROVE Live(s)
  BY <1>1, <1>5 DEF ClosingTyped, Live, Started
<1>6. ASSUME NEW s \in Sessions, Held(s) PROVE Held(s)'
  BY <1>1, <1>6 DEF Held
<1>7. Held(n)'
  BY <1>1 DEF Held
<1>8. OnlyStraddledAreLost'
  BY <1>1, <1>5, <1>6, <1>7 DEF OnlyStraddledAreLost
<1> QED BY <1>2, <1>3, <1>4, <1>8

(* The accesses of the user interface thread to the handle. *)
LEMMA WindowThreadSteps ==
  ASSUME HandleInv, AssignSession \/ SetActive \/ CancelClicked \/ CancelDetaches
  PROVE  HandleInv'
<1> USE NobodyIsZero
<1> USE DEF HandleInv
<1>1. UNCHANGED vars /\ callback' = callback /\ misused' = misused
  BY DEF AssignSession, SetActive, CancelClicked, CancelDetaches
<1>2. ClosingTyped' /\ \A s \in Sessions : Live(s)' => Live(s)
  BY <1>1, NativeIdle
<1>3. CASE AssignSession
  <2>1. /\ ui[1] = "starting" /\ m_session' = ui[2] /\ ui' = <<"assigned", 0>>
        /\ straddled' = IF callback # <<0, "out", 0>> THEN straddled \cup {ui[2]} ELSE straddled
        /\ UNCHANGED <<m_session_active, callback, detached>>
    BY <1>3 DEF AssignSession, Locked, NoCallback
  <2>2. ui[2] \in Sessions
    BY <2>1 DEF UiTypeOK, HandlesAgree
  <2>3. UiTypeOK'
    BY <1>1, <2>1, <2>2 DEF UiTypeOK
  <2>4. HandlesAgree'
    BY <1>1, <2>1, <2>2 DEF HandlesAgree
  <2>5. ASSUME NEW s \in Sessions PROVE Passed(s)
    BY <1>1, <2>1 DEF Passed, Held, HandlesAgree
  <2> QED BY <1>2, <2>1, <2>3, <2>4, <2>5, NothingElseLost
<1>4. CASE SetActive
  <2>1. /\ ui[1] = "assigned" /\ m_session_active' = TRUE /\ ui' = <<"idle", 0>>
        /\ UNCHANGED <<m_session, callback, detached, straddled>>
    BY <1>4 DEF SetActive, Idle
  <2>2. UiTypeOK' /\ HandlesAgree'
    BY <1>1, <2>1 DEF UiTypeOK, HandlesAgree
  <2>3. ASSUME NEW s \in Sessions PROVE Passed(s)
    BY <2>1 DEF Passed, Held, HandlesAgree
  <2> QED BY <1>2, <2>1, <2>2, <2>3, NothingElseLost
<1>5. CASE CancelClicked
  <2>1. /\ ui = <<"idle", 0>> /\ ui' = <<"cancelling", m_session>> /\ m_session_active
        /\ UNCHANGED <<m_session, m_session_active, callback, detached, straddled>>
    BY <1>5 DEF CancelClicked, Idle
  <2>2. UiTypeOK' /\ HandlesAgree'
    BY <1>1, <2>1 DEF UiTypeOK, HandlesAgree
  <2>3. ASSUME NEW s \in Sessions PROVE Passed(s)
    BY <2>1 DEF Passed, Held
  <2> QED BY <1>2, <2>1, <2>2, <2>3, NothingElseLost
<1>6. CASE CancelDetaches
  <2>1. /\ ui[1] = "cancelling" /\ ui[2] \in Sessions \cup {0} /\ m_session \in {0, ui[2]}
        /\ m_session' = 0 /\ m_session_active' = FALSE /\ ui' = <<"idle", 0>>
        /\ detached' = detached \cup Entry(0, ui[2], "cancel")
        /\ UNCHANGED <<callback, straddled>>
    BY <1>6 DEF CancelDetaches, Idle, UiTypeOK, HandlesAgree
  <2>2. Entry(0, ui[2], "cancel") \subseteq Calls
    BY <2>1, EntriesAreCalls
  <2>3. UiTypeOK'
    BY <1>1, <2>1, <2>2 DEF UiTypeOK, Calls
  <2>4. HandlesAgree'
    BY <2>1 DEF HandlesAgree
  <2>5. ASSUME NEW s \in Sessions PROVE Passed(s)
    <3>1. ASSUME ui[2] = s PROVE Held(s)'
      <4>1. <<0, s, "cancel">> \in detached'
        BY <2>1, <3>1, EntriesAreCalls
      <4>2. <<0, s, "cancel">>[2] = s
        OBVIOUS
      <4> QED BY <4>1, <4>2 DEF Held
    <3> QED BY <2>1, <3>1 DEF Passed, Held
  <2> QED BY <1>2, <2>1, <2>3, <2>4, <2>5, NothingElseLost
<1> QED BY <1>3, <1>4, <1>5, <1>6

(* The callback of a session, on its worker thread: the handle it finds is *)
(* given to a detached thread.                                             *)
LEMMA CallbackStep ==
  ASSUME HandleInv, NEW s \in Sessions, HandleNativeEvent(s)
  PROVE  HandleInv'
<1> USE NobodyIsZero
<1> USE DEF HandleInv
<1>1. UNCHANGED <<ui, straddled, misused>>
  BY DEF HandleNativeEvent, EventPasses, TakesHandle, ClearsHandle, LeavesSession, uiVars
<1>2. ClosingTyped' /\ \A p \in Sessions : Live(p)' => Live(p)
  <2>1. Work(s) \/ UNCHANGED vars
    BY DEF HandleNativeEvent, EventPasses, TakesHandle, ClearsHandle, LeavesSession, Work
  <2> QED BY <2>1, NativeKeeps, NativeIdle
<1>3. CASE EventPasses(s)
  <2>1. UNCHANGED uiVars
    BY <1>3 DEF EventPasses
  <2>2. UiTypeOK' /\ HandlesAgree' /\ \A p \in Sessions : Passed(p)
    BY <2>1 DEF uiVars, UiTypeOK, HandlesAgree, Passed, Held
  <2> QED BY <1>1, <1>2, <2>2, NothingElseLost
<1>4. CASE TakesHandle(s)
  <2>1. /\ callback = <<0, "out", 0>> /\ callback' = <<s, "taken", m_session>>
        /\ UNCHANGED <<m_session, m_session_active, detached>>
    BY <1>4 DEF TakesHandle, Locked, NoCallback
  <2>2. UiTypeOK'
    BY <1>1, <2>1 DEF UiTypeOK
  <2>3. HandlesAgree'
    BY <1>1, <2>1 DEF HandlesAgree
  <2>4. ASSUME NEW p \in Sessions PROVE Passed(p)
    BY <1>1, <2>1 DEF Passed, Held
  <2> QED BY <1>1, <1>2, <2>2, <2>3, <2>4, NothingElseLost
<1>5. CASE ClearsHandle(s)
  <2>1. /\ callback[2] = "taken" /\ m_session' = 0 /\ callback' = <<s, "cleared", callback[3]>>
        /\ UNCHANGED <<m_session_active, detached>>
    BY <1>5 DEF ClearsHandle
  <2>2. callback[3] \in Sessions \cup {0}
    BY DEF UiTypeOK, NoCallback
  <2>3. UiTypeOK'
    BY <1>1, <2>1, <2>2 DEF UiTypeOK
  <2>4. HandlesAgree'
    BY <1>1, <2>1 DEF HandlesAgree
  <2>5. ASSUME NEW p \in Sessions PROVE Passed(p)
    BY <1>1, <2>1 DEF Passed, Held, HandlesAgree
  <2> QED BY <1>1, <1>2, <2>3, <2>4, <2>5, NothingElseLost
<1>6. CASE LeavesSession(s)
  <2>1. /\ callback[2] = "cleared" /\ m_session_active' = FALSE /\ callback' = <<0, "out", 0>>
        /\ detached' = detached \cup Entry(s, callback[3], "destroy")
        /\ UNCHANGED m_session
    BY <1>6 DEF LeavesSession, NoCallback
  <2>2. callback[3] \in Sessions \cup {0}
    BY DEF UiTypeOK, NoCallback
  <2>3. Entry(s, callback[3], "destroy") \subseteq Calls
    BY <2>2, EntriesAreCalls
  <2>4. UiTypeOK'
    BY <1>1, <2>1, <2>3 DEF UiTypeOK, Calls, NoCallback
  <2>5. HandlesAgree'
    BY <1>1, <2>1 DEF HandlesAgree
  <2>6. ASSUME NEW p \in Sessions PROVE Passed(p)
    <3>1. ASSUME callback[3] = p PROVE Held(p)'
      <4>1. <<s, p, "destroy">> \in detached'
        BY <2>1, <2>2, <3>1, EntriesAreCalls
      <4>2. <<s, p, "destroy">>[2] = p
        OBVIOUS
      <4> QED BY <4>1, <4>2 DEF Held
    <3> QED BY <1>1, <2>1, <3>1 DEF Passed, Held
  <2> QED BY <1>1, <1>2, <2>4, <2>5, <2>6, NothingElseLost
<1> QED BY <1>3, <1>4, <1>5, <1>6 DEF HandleNativeEvent

(* A detached thread leaves the handle of a live session only by turning   *)
(* to its next call, or by destroying the session.                         *)
LEMMA DetachedStep ==
  ASSUME HandleInv, Detached
  PROVE  HandleInv'
<1> USE DEF HandleInv
<1> PICK t \in detached : DetachedCancels(t) \/ DetachedDestroys(t)
  BY DEF Detached
<1>1. t[2] \in Sessions /\ t[1] \in Sessions \cup {0}
  BY DEF UiTypeOK
<1>2. ClosingTyped' /\ \A p \in Sessions : Live(p)' => Live(p)
  <2>1. \/ CancelSession(t[2]) \/ Destroy(t[2])
        \/ UNCHANGED vars
    BY DEF DetachedCancels, DetachedDestroys, Uses
  <2> QED BY <1>1, <2>1, NativeIdle, NativeKeeps
<1>3. /\ UNCHANGED <<m_session, m_session_active, ui, callback, straddled>>
      /\ misused' \in BOOLEAN
  BY DEF DetachedCancels, DetachedDestroys, Uses
<1>4. HandlesAgree'
  BY <1>3 DEF HandlesAgree
<1>5. CASE DetachedCancels(t)
  <2>1. detached' = (detached \ {t}) \cup {<<t[1], t[2], "destroy">>}
    BY <1>5 DEF DetachedCancels
  <2>2. UiTypeOK'
    BY <1>1, <1>3, <2>1 DEF UiTypeOK
  <2>3. \A s \in Sessions : (\E u \in detached : u[2] = s) => \E u \in detached' : u[2] = s
    <3> SUFFICES ASSUME NEW u \in detached PROVE \E v \in detached' : v[2] = u[2]
      OBVIOUS
    <3> DEFINE next == <<t[1], t[2], "destroy">>
    <3>1. next \in detached' /\ next[2] = t[2]
      BY <2>1
    <3>2. u # t => u \in detached'
      BY <2>1
    <3> HIDE DEF next
    <3> QED BY <3>1, <3>2
  <2>4. ASSUME NEW p \in Sessions PROVE Passed(p)
    BY <1>3, <2>3 DEF Passed, Held
  <2> QED BY <1>2, <1>3, <1>4, <2>2, <2>4, NothingElseLost
<1>6. CASE DetachedDestroys(t)
  <2>1. detached' = detached \ {t}
    BY <1>6 DEF DetachedDestroys
  <2>2. UiTypeOK'
    BY <1>3, <2>1 DEF UiTypeOK
  <2>3. ~Live(t[2])'
    BY <1>1, <1>6, <1>2 DEF DetachedDestroys, Uses, Destroy, Live, ClosingTyped, vars
  <2>4. \A s \in Sessions \ {t[2]} :
          (\E u \in detached : u[2] = s) => \E u \in detached' : u[2] = s
    BY <2>1
  <2>5. ASSUME NEW p \in Sessions PROVE Passed(p)
    BY <1>3, <2>3, <2>4 DEF Passed, Held
  <2> QED BY <1>2, <1>3, <1>4, <2>2, <2>5, NothingElseLost
<1> QED BY <1>5, <1>6

LEMMA WindowStep == HandleInv /\ [UiNext]_allVars => HandleInv'
<1> SUFFICES ASSUME HandleInv, [UiNext]_allVars PROVE HandleInv'
  OBVIOUS
<1>1. ASSUME UNCHANGED uiVars, ClosingTyped', \A p \in Sessions : Live(p)' => Live(p)
      PROVE  HandleInv'
  <2>1. UiTypeOK' /\ HandlesAgree' /\ \A p \in Sessions : Passed(p)
    BY <1>1 DEF uiVars, UiTypeOK, HandlesAgree, Passed, Held, HandleInv
  <2> QED BY <1>1, <2>1, NothingElseLost DEF HandleInv, uiVars
<1>2. ASSUME UNCHANGED allVars PROVE HandleInv'
  BY <1>1, <1>2, NativeIdle DEF allVars, HandleInv
<1>3. ASSUME UNCHANGED uiVars,
             \/ Query
             \/ \E s \in Sessions : Work(s) \/ Produce(s) \/ Close(s)
      PROVE  HandleInv'
  BY <1>1, <1>3, NativeKeeps DEF HandleInv
<1>4. ASSUME NEW s \in Sessions, NativeWork(s) \/ NativeThreads(s) PROVE HandleInv'
  <2>1. UNCHANGED uiVars /\ (Work(s) \/ Produce(s) \/ Close(s))
    BY <1>4 DEF NativeWork, NativeThreads, Work
  <2> QED BY <1>3, <2>1
<1>5. LoadCatalog => HandleInv'
  BY <1>3 DEF LoadCatalog
<1> QED
  BY <1>2, <1>4, <1>5, BeginStep, WindowThreadSteps, CallbackStep, DetachedStep DEF UiNext

LEMMA WindowAlways == UiSpec => []HandleInv
BY WindowInit, WindowStep, PTL DEF UiSpec

-----------------------------------------------------------------------------
(* The window (UiInv): its members keep their types and, whatever the      *)
(* order of starts, cancels and callbacks, a session that nobody can end   *)
(* any more is one that BeginScanFromCurrentRoot stored in the middle of a *)
(* terminal callback (MainWindow::HandleNativeEvent, OnCancelClicked).     *)
THEOREM OnlyStraddledSessionsAreLost == UiSpec => []UiInv
<1>1. HandleInv => UiInv
  BY DEF HandleInv, UiInv
<1> QED BY <1>1, WindowAlways, PTL

(* A step of the window is a step of ScanSession or leaves it alone.       *)
LEMMA WindowStepMaps == HandleInv /\ [UiNext]_allVars => [Next]_vars
<1> SUFFICES ASSUME HandleInv, UiNext PROVE [Next]_vars
  BY DEF allVars
<1>1. ASSUME NEW m \in Modes \ {"terminal"}, BeginScan(m) PROVE Next
  BY <1>1 DEF BeginScan, Next
<1>2. AssignSession \/ SetActive \/ CancelClicked \/ CancelDetaches => UNCHANGED vars
  BY DEF AssignSession, SetActive, CancelClicked, CancelDetaches
<1>3. ASSUME NEW s \in Sessions, HandleNativeEvent(s) \/ NativeWork(s) \/ NativeThreads(s)
      PROVE  [Next]_vars
  <2>1. Work(s) \/ Produce(s) \/ Close(s) \/ UNCHANGED vars
    BY <1>3 DEF HandleNativeEvent, EventPasses, TakesHandle, ClearsHandle, LeavesSession,
      NativeWork, NativeThreads, Work
  <2> QED BY <2>1 DEF Next
<1>4. ASSUME Detached PROVE [Next]_vars
  <2> PICK t \in detached : DetachedCancels(t) \/ DetachedDestroys(t)
    BY <1>4 DEF Detached
  <2>1. t[2] \in Sessions
    BY DEF HandleInv, UiTypeOK
  <2>2. CancelSession(t[2]) \/ Destroy(t[2]) \/ UNCHANGED vars
    BY DEF DetachedCancels, DetachedDestroys, Uses
  <2> QED BY <2>1, <2>2 DEF Next
<1>5. LoadCatalog => Next
  BY DEF LoadCatalog, Next
<1>6. UNCHANGED allVars => UNCHANGED vars
  BY DEF allVars
<1> QED BY <1>1, <1>2, <1>3, <1>4, <1>5, <1>6 DEF UiNext

(* The window is a host of ScanSession: it starts, cancels and destroys    *)
(* sessions, in spite of its races and of callbacks on other threads, only *)
(* as ScanSession lets a host do, until it uses a handle that is destroyed,*)
(* so that TypeCorrect and every other theorem of ScanSession holds of the *)
(* window, too.                                                            *)
THEOREM WindowIsAHost == UiSpec => Spec
<1>1. UiInit => Init
  BY DEF UiInit
<1> QED BY <1>1, WindowStepMaps, WindowAlways, PTL DEF UiSpec, Spec
=============================================================================
