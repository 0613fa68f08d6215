------------------------------ MODULE UiSession ------------------------------
(***************************************************************************)
(* The main window as the host of scan sessions (MainWindow.cpp,           *)
(* NativeBridge.cpp).  It keeps one handle, m_session, and one flag,       *)
(* m_session_active.  The user interface thread starts and cancels; the    *)
(* worker of a session calls HandleNativeEvent, which for a terminal event *)
(* takes whatever handle is there and has a detached thread destroy it.    *)
(* A cancelled scan, too, is cancelled and destroyed by a detached thread. *)
(* Callbacks exclude one another by m_pending_ui_mutex, which the user     *)
(* interface thread does not hold when it uses the two members, so that the*)
(* accesses of either side are steps of their own.                         *)
(*                                                                         *)
(* The steps of the native side are those of ScanSession.                  *)
(***************************************************************************)
EXTENDS ScanSession

VARIABLES
  m_session,          (* the handle, 0 when empty                           *)
  m_session_active,
  ui,                 (* the user interface thread: <<place, handle>>, idle *)
                      (* or between two accesses to the shared members      *)
  callback,           (* the terminal event that holds m_pending_ui_mutex:  *)
                      (* <<session, place, handle>>, or NoCallback          *)
  detached,           (* threads yet to call the bridge: <<owner, session,  *)
                      (* call>>; the owner is 0 for the user, else the      *)
                      (* session whose event spawned the thread             *)
  straddled,          (* history: the sessions whose handle was stored in   *)
                      (* the middle of a terminal callback                  *)
  misused             (* a handle was used after its session was destroyed  *)

uiVars == <<m_session, m_session_active, ui, callback, detached, straddled, misused>>
allVars == <<vars, uiVars>>

Idle == <<"idle", 0>>
NoCallback == <<0, "out", 0>>
Locked == callback # NoCallback

(* wb_scan_session_cancel and _destroy ignore an empty handle. *)
Entry(owner, s, call) == IF s = 0 THEN {} ELSE {<<owner, s, call>>}

(* BeginScanFromCurrentRoot: refused while a session is active.  The mutex *)
(* is taken and given back before the scan starts.  The native session     *)
(* runs before StartScan returns its handle.                               *)
BeginScan(m) ==
  /\ ui = Idle /\ ~m_session_active /\ ~Locked
  /\ Start(m)
  /\ ui' = <<"starting", Last + 1>>
  /\ UNCHANGED <<m_session, m_session_active, callback, detached, straddled, misused>>

AssignSession ==
  /\ ui[1] = "starting"
  /\ m_session' = ui[2]
  /\ straddled' = IF Locked THEN straddled \cup {ui[2]} ELSE straddled
  /\ ui' = <<"assigned", 0>>
  /\ UNCHANGED <<vars, m_session_active, callback, detached, misused>>

SetActive ==
  /\ ui[1] = "assigned"
  /\ m_session_active' = TRUE
  /\ ui' = Idle
  /\ UNCHANGED <<vars, m_session, callback, detached, straddled, misused>>

(* OnCancelClicked and the Escape key: copy the handle, clear the members  *)
(* (only this thread reads the flag), and let a thread cancel and destroy. *)
CancelClicked ==
  /\ ui = Idle /\ m_session_active
  /\ ui' = <<"cancelling", m_session>>
  /\ UNCHANGED <<vars, m_session, m_session_active, callback, detached, straddled, misused>>

(* Mutant: the scan is cleared from the window and left to itself. *)
CancelOnlyClears ==
  /\ ui[1] = "cancelling"
  /\ m_session' = 0 /\ m_session_active' = FALSE
  /\ ui' = Idle
  /\ UNCHANGED <<vars, callback, detached, straddled, misused>>

CancelDetaches ==
  /\ ui[1] = "cancelling"
  /\ m_session' = 0 /\ m_session_active' = FALSE
  /\ detached' = detached \cup Entry(0, ui[2], "cancel")
  /\ ui' = Idle
  /\ UNCHANGED <<vars, callback, straddled, misused>>

(* HandleNativeEvent, in the callback of session s, under the mutex.  A    *)
(* terminal event copies the handle, clears it, clears the flag and hands  *)
(* the copy to a thread; the callback returns after that.                  *)
EventPasses(s) ==
  /\ ~Terminal(event[s]) /\ ~Locked
  /\ Forward(s)
  /\ UNCHANGED uiVars

TakesHandle(s) ==
  /\ worker[s] = "forward" /\ Terminal(event[s]) /\ ~Locked
  /\ callback' = <<s, "taken", m_session>>
  /\ UNCHANGED <<vars, m_session, m_session_active, ui, detached, straddled, misused>>

ClearsHandle(s) ==
  /\ callback[1] = s /\ callback[2] = "taken"
  /\ m_session' = 0
  /\ callback' = <<s, "cleared", callback[3]>>
  /\ UNCHANGED <<vars, m_session_active, ui, detached, straddled, misused>>

LeavesSession(s) ==
  /\ callback[1] = s /\ callback[2] = "cleared"
  /\ Forward(s)
  /\ m_session_active' = FALSE
  /\ detached' = detached \cup Entry(s, callback[3], "destroy")
  /\ callback' = NoCallback
  /\ UNCHANGED <<m_session, ui, straddled, misused>>

HandleNativeEvent(s) ==
  EventPasses(s) \/ TakesHandle(s) \/ ClearsHandle(s) \/ LeavesSession(s)

(* A detached thread.  A handle is a pointer that destroying frees; to use *)
(* it after that is undefined, and the model goes no further.              *)
Uses(t, call) ==
  /\ misused' = (closing[t[2]] # "no")
  /\ IF closing[t[2]] = "no" THEN call ELSE UNCHANGED vars

DetachedCancels(t) ==
  /\ t[3] = "cancel"
  /\ Uses(t, CancelSession(t[2]))
  /\ detached' = (detached \ {t}) \cup {<<t[1], t[2], "destroy">>}
  /\ UNCHANGED <<m_session, m_session_active, ui, callback, straddled>>

DetachedDestroys(t) ==
  /\ t[3] = "destroy"
  /\ Uses(t, Destroy(t[2]))
  /\ detached' = detached \ {t}
  /\ UNCHANGED <<m_session, m_session_active, ui, callback, straddled>>

Detached == \E t \in detached : DetachedCancels(t) \/ DetachedDestroys(t)

(* The steps of the native side that do not call the window. *)
NativeWork(s) ==
  /\ \/ Open(s) \/ Receive(s) \/ PublishReplaced(s) \/ Lock(s) \/ PublishMerged(s)
     \/ Flush(s) \/ Drained(s) \/ Persist(s) \/ Finish(s) \/ SetModel(s)
     \/ \E ok \in BOOLEAN : FlushEnds(s, ok) \/ PersistEnds(s, ok) \/ FinishEnds(s, ok)
  /\ UNCHANGED uiVars

NativeThreads(s) == (Produce(s) \/ Close(s)) /\ UNCHANGED uiVars

(* LoadPersistedCatalogSnapshot and the other queries of the window. *)
LoadCatalog == Query /\ UNCHANGED uiVars

-----------------------------------------------------------------------------
UiInit ==
  /\ Init
  /\ m_session = 0 /\ m_session_active = FALSE
  /\ ui = Idle /\ callback = NoCallback /\ detached = {}
  /\ straddled = {} /\ misused = FALSE

Live(s) == Started(s) /\ closing[s] = "no"

(* Somebody still has the handle: the window, its thread, a callback or a  *)
(* detached thread.                                                        *)
Held(s) == \/ m_session = s \/ ui[2] = s \/ callback[3] = s
           \/ \E t \in detached : t[2] = s

(* Nothing is left to happen: no session can be started or awaited, or one *)
(* stored amid a callback is out of the user's reach (wiped, or held by a  *)
(* window that takes it for over) and keeps the gate for ever.             *)
UiOver ==
  \/ /\ \A s \in Sessions : closing[s] = "gone"
     /\ ui = Idle /\ ~m_session_active /\ detached = {}
  \/ \E s \in straddled : Live(s)

UiNext ==
  \/ /\ ~misused
     /\ \/ \E m \in Modes \ {"terminal"} : BeginScan(m)
        \/ AssignSession \/ SetActive \/ CancelClicked \/ CancelDetaches \/ Detached
        \/ \E s \in Sessions : HandleNativeEvent(s) \/ NativeWork(s) \/ NativeThreads(s)
        \/ LoadCatalog
  \/ (misused \/ UiOver) /\ UNCHANGED allVars

UiSpec == UiInit /\ [][UiNext]_allVars

-----------------------------------------------------------------------------
(* The type invariant. *)
UiTypeOK ==
  /\ m_session \in Sessions \cup {0} /\ m_session_active \in BOOLEAN
  /\ ui \in {"idle", "starting", "assigned", "cancelling"} \X (Sessions \cup {0})
  /\ callback \in (Sessions \X {"taken", "cleared"} \X (Sessions \cup {0})) \cup {NoCallback}
  /\ detached \subseteq (Sessions \cup {0}) \X Sessions \X {"cancel", "destroy"}
  /\ straddled \subseteq Sessions /\ misused \in BOOLEAN

(* Whatever the order of callbacks, starts and cancels, a session that is  *)
(* not destroyed and that nobody can end any more is one whose handle      *)
(* BeginScanFromCurrentRoot stored in the middle of a terminal callback:   *)
(* no other race of the three functions loses a session.                   *)
OnlyStraddledAreLost ==
  \A s \in Sessions : Live(s) => Held(s) \/ s \in straddled

(* The invariant of the window: its members keep their types and a session *)
(* is lost in no other way.                                                *)
UiInv == UiTypeOK /\ OnlyStraddledAreLost

(* "No orphan process, worker, handle or stale callback may survive session *)
(* teardown" (TODO.md).  No orphan: who is not yet destroyed can still be  *)
(* ended by someone.  No handle: nobody cancels or destroys a session that *)
(* another detached thread has destroyed.  No stale callback: the terminal *)
(* event of a session tears down that session and no other.                *)
NoOrphan == \A s \in Sessions : Live(s) => Held(s)
NoStaleHandle == ~misused
NoStaleCallback == \A t \in detached : t[1] # 0 => t[1] = t[2]

(* What TODO.md asks for, in one.  Each part fails by itself.               *)
NothingSurvives == NoOrphan /\ NoStaleHandle /\ NoStaleCallback
=============================================================================
