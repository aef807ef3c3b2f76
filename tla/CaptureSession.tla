--------------------------- MODULE CaptureSession ---------------------------
(***************************************************************************)
(* A recording of the Chrome extension, from start to draft or cancel:     *)
(* apps/extension/background/service-worker.js with the recorder it puts   *)
(* into the page (content/recorder.js).                                    *)
(*                                                                         *)
(* The recording's state is spread over three places that no transaction   *)
(* joins: the session store, lost when the browser restarts; the recovery  *)
(* journal, which is not; and the service worker's memory, lost whenever   *)
(* Chrome suspends the worker.  getSession puts them together.  Operations *)
(* are serialized (serializeSessionOperation), so op is the one that runs; *)
(* each storage write or page call of it is a step, between which the page *)
(* goes on and the worker may die.  The session id is left out: a new      *)
(* session is stored only after the journal of the last one is removed.    *)
(***************************************************************************)
EXTENDS Integers, FiniteSets

CONSTANTS Events,     \* operations of the user that a recorder captures
          NoEvent,
          MaxSteps,   \* MAX_CAPTURE_STEPS
          MaxImages,  \* CLOUD_CLAIM_MAX_ASSETS
          Modes,      \* display modes: "pc", and one that resizes the window
          Faults,     \* what may fail
          MaxFaults   \* how many of them, each once in a behaviour

FaultKinds == {"session", "journal", "live", "draft", "page", "window", "worker", "browser"}
ASSUME LimitsAssumption == MaxSteps \in Nat /\ MaxImages \in Nat /\ MaxFaults \in Nat
ASSUME EventsAssumption == NoEvent \notin Events /\ IsFiniteSet(Events)
ASSUME ModesAssumption == Modes \subseteq {"pc", "mobile"} /\ Faults \subseteq FaultKinds

VARIABLES session,   \* chrome.storage.session[activeCaptureSession]
          journal,   \* chrome.storage.local[captureRecoveryJournal]
          live,      \* IndexedDB: the events that have a ready image
          draft,     \* IndexedDB: the draft made from the session
          marker,    \* worker memory: reinjectionFailureSessionId is this session
          fallback,  \* worker memory: the events of navigationFallback
          op,        \* the session operation in progress
          rec,       \* the recorder of the page
          inflight,  \* capture:event messages sent and not handled
          acks,      \* answers "accepted" not yet heard by the page
          notice,    \* a tab notification the worker has yet to handle
          tab, window,
          acked,     \* events answered "accepted"
          cancelled, \* a cancel intent has been stored for this session
          faults     \* the kinds of the failures so far

stores == <<session, journal, live, draft>>
memory == <<marker, fallback>>
page == <<rec, inflight, acks, notice, tab, window>>
history == <<acked, cancelled>>
vars == <<stores, memory, op, page, history, faults>>

Phases == {"null", "starting", "recording", "paused", "restore_pending",
           "finish_failed", "reinjection_failed", "cancel_failed"}
Limits == {"none", "images", "steps"}
SessionRecords == [phase: Phases, mode: {"pc", "mobile"}, events: SUBSET Events,
                   limit: Limits, restorePending: BOOLEAN, finishFailed: BOOLEAN]
NoSession == [phase |-> "null", mode |-> "pc", events |-> {}, limit |-> "none",
              restorePending |-> FALSE, finishFailed |-> FALSE]
NoJournal == [phase |-> "null", events |-> {}, limit |-> "none"]
NoDraft == [made |-> FALSE, events |-> {}, images |-> {}]
NoRecorder == [present |-> FALSE, listening |-> FALSE, tracked |-> {}, retained |-> {}]
Listening == [NoRecorder EXCEPT !.present = TRUE, !.listening = TRUE]

Tasks == {"none", "start", "event", "updated", "removed", "pause", "resume",
          "finish", "cancel", "restore", "recover"}
Stages == {"main", "intent", "final", "limit", "failed", "tail", "cancel", "retained"}
Steps == {"idle", "begin", "journal", "session", "drain", "retain", "release", "inject",
          "append", "append_journal", "image", "image_done", "resize", "count", "absorb",
          "absorbed", "absorb_journal", "put_session", "make_draft", "clear_live", "restoring",
          "restore_window", "restore_again", "restore_failed", "drop_session", "drop_journal", "clear_journal", "catch",
          "navigate", "navigate_journal", "marked", "marked_journal", "navigated_journal",
          "resume_journal", "keep"}
Idle == [task |-> "none", stage |-> "main", pc |-> "idle", s |-> NoSession, e |-> NoEvent,
         batch |-> {}, todo |-> {}, known |-> FALSE, saved |-> FALSE, limit |-> "none",
         restored |-> TRUE, cleared |-> TRUE]

TypeOK ==
  /\ session \in SessionRecords
  /\ journal \in [phase: Phases, events: SUBSET Events, limit: Limits]
  /\ live \subseteq Events
  /\ draft \in [made: BOOLEAN, events: SUBSET Events, images: SUBSET Events]
  /\ marker \in BOOLEAN
  /\ fallback \subseteq Events
  /\ op \in [task: Tasks, stage: Stages, pc: Steps, s: SessionRecords,
             e: Events \cup {NoEvent}, batch: SUBSET Events, todo: SUBSET Events,
             known: BOOLEAN, saved: BOOLEAN, limit: Limits, restored: BOOLEAN,
             cleared: BOOLEAN]
  /\ rec \in [present: BOOLEAN, listening: BOOLEAN, tracked: SUBSET Events,
              retained: SUBSET Events]
  /\ inflight \subseteq Events
  /\ acks \subseteq Events
  /\ notice \in {"none", "updated", "removed"}
  /\ tab \in {"open", "closed"}
  /\ window \in {"original", "resized", "closed"}
  /\ acked \subseteq Events
  /\ cancelled \in BOOLEAN
  /\ faults \subseteq Faults /\ Cardinality(faults) <= MaxFaults

Init ==
  /\ session = NoSession
  /\ journal = NoJournal
  /\ live = {}
  /\ draft = NoDraft
  /\ marker = FALSE
  /\ fallback = {}
  /\ op = Idle
  /\ rec = NoRecorder
  /\ inflight = {}
  /\ acks = {}
  /\ notice = "none"
  /\ tab = "open"
  /\ window = "original"
  /\ acked = {}
  /\ cancelled = FALSE
  /\ faults = {}

-----------------------------------------------------------------------------
Works == UNCHANGED faults
Fails(kind) ==
  kind \in Faults \ faults /\ Cardinality(faults) < MaxFaults /\ faults' = faults \cup {kind}

\* getSession: the stored session with the events of the journal and of the
\* memory fallback, in the phase the journal says unless the worker remembers
\* a failed reinjection; or the cancel intent that only the journal kept.
Forgotten == NoSession
CancelOnly == [NoSession EXCEPT !.phase = "cancel_failed", !.events = journal.events]
Current ==
  IF session = NoSession
  THEN IF journal.phase = "cancel_failed" THEN CancelOnly ELSE NoSession
  ELSE LET s == [session EXCEPT !.events = @ \cup journal.events \cup fallback]
       IN IF marker THEN [s EXCEPT !.phase = "reinjection_failed"]
          ELSE IF journal.phase = "null" THEN s
          ELSE [s EXCEPT !.phase = journal.phase,
                         !.finishFailed = journal.phase = "finish_failed"
                                          \/ (@ /\ journal.phase # "cancel_failed"),
                         !.limit = IF journal.limit = "none" THEN @ ELSE journal.limit]

\* setSession and persistRecoveryJournal.
SetSession(s) ==
  /\ session' = s
  /\ fallback' = {}
  /\ marker' = (marker /\ s.phase = "reinjection_failed")
SetJournal(events, phase, limit) ==
  /\ journal' = [phase |-> IF phase = "null" THEN journal.phase ELSE phase,
                 events |-> journal.events \cup events,
                 limit |-> IF limit = "none" THEN journal.limit ELSE limit]
  /\ marker' = (marker /\ phase \in {"null", "reinjection_failed"})

At(pc) == op.pc = pc
Goto(pc) == [op EXCEPT !.pc = pc]
Begin(task, pc) == [Idle EXCEPT !.task = task, !.s = Current, !.pc = pc]

\* What a rejected call leads to: the catch block of the operation, if the
\* step is in its try block, or the end of the operation.
Throw ==
  IF op.stage \in {"main", "limit"}
  THEN CASE op.task = "finish" -> Goto("catch")
         [] op.task = "resume" -> [op EXCEPT !.stage = "failed", !.pc = "retain"]
         [] op.task = "start" -> [op EXCEPT !.stage = "failed", !.pc = "drain"]
         [] OTHER -> Idle
  ELSE Idle

WriteSession(s, ok, failed) ==
  \/ Works /\ SetSession(s) /\ op' = ok
  \/ Fails("session") /\ UNCHANGED <<session, memory>> /\ op' = failed
WriteJournal(events, phase, limit, ok, failed) ==
  \/ Works /\ SetJournal(events, phase, limit) /\ op' = ok
  \/ Fails("journal") /\ UNCHANGED <<journal, marker>> /\ op' = failed

\* pendingEventsForSession and mergePendingEventsWithoutImages: the sessions a
\* merge of retained events may give, which keeps as many as still fit.
Accepted(s, events) ==
  IF s.limit = "images" \/ Cardinality(s.events) >= MaxSteps THEN {} ELSE events
PendingOnly(s, events) == {[s EXCEPT !.events = Accepted(s, events)]}
Merges(s, events) ==
  LET new == Accepted(s, events) \ s.events
      room == MaxSteps - Cardinality(s.events)
  IN IF Cardinality(new) <= room \/ new = {}
     THEN {[s EXCEPT !.events = @ \cup new]}
     ELSE {[s EXCEPT !.events = @ \cup kept, !.phase = "paused", !.limit = "steps"] :
             kept \in {k \in SUBSET new : Cardinality(k) = room}}

-----------------------------------------------------------------------------
(***************************************************************************)
(* The page: the recorder of content/recorder.js, and the user.            *)
(***************************************************************************)
Unused == Events \ (session.events \cup journal.events \cup fallback \cup draft.events
                    \cup live \cup rec.tracked \cup rec.retained \cup inflight
                    \cup acks \cup acked \cup op.s.events \cup op.batch)

\* The user operates the page: the event is sent at once, or later (an input,
\* a scroll), or sent again as long as no answer has accepted it.
Capture(e) ==
  /\ rec.listening
  /\ e \in Unused \cup (rec.tracked \ inflight)
  /\ rec' = [rec EXCEPT !.tracked = @ \cup {e}]
  /\ inflight' \in {inflight, inflight \cup {e}}
  /\ UNCHANGED <<stores, memory, op, acks, notice, tab, window, history, faults>>

HearAck(e) ==
  /\ e \in acks
  /\ rec' = [rec EXCEPT !.tracked = @ \ {e}]
  /\ acks' = acks \ {e}
  /\ UNCHANGED <<stores, memory, op, inflight, notice, tab, window, history, faults>>

\* A new document has no recorder; tabs.onUpdated tells the worker.
Navigate ==
  /\ tab = "open"
  /\ session # NoSession
  /\ rec' = NoRecorder
  /\ notice' = "updated"
  /\ UNCHANGED <<stores, memory, op, inflight, acks, tab, window, history, faults>>

CloseTab ==
  /\ tab = "open"
  /\ session # NoSession
  /\ tab' = "closed"
  /\ rec' = NoRecorder
  /\ notice' = "removed"
  /\ window' \in {window, "closed"}
  /\ UNCHANGED <<stores, memory, op, inflight, acks, history, faults>>

\* Chrome suspends an idle worker, which costs it its memory; the worker also
\* dies in the middle of an operation.  Both begin again with
\* recoverInterruptedStartingSession.
Restarted ==
  /\ marker' = FALSE
  /\ fallback' = {}
  /\ op' = [Idle EXCEPT !.task = "recover", !.pc = "begin"]

Suspend ==
  /\ At("idle")
  /\ marker \/ fallback # {} \/ session.phase = "starting"
  /\ Restarted
  /\ UNCHANGED <<stores, page, history, faults>>

Kill ==
  /\ ~At("idle")
  /\ Fails("worker")
  /\ Restarted
  /\ inflight' \in {inflight, {}}
  /\ notice' \in {notice, "none"}
  /\ UNCHANGED <<stores, rec, acks, tab, window, history>>

BrowserRestart ==
  /\ Fails("browser")
  /\ Restarted
  /\ session' = NoSession
  /\ rec' = NoRecorder
  /\ inflight' = {}
  /\ acks' = {}
  /\ notice' = "none"
  /\ tab' = "open"
  /\ window' = "original"
  /\ UNCHANGED <<journal, live, draft, history>>

-----------------------------------------------------------------------------
(***************************************************************************)
(* Steps that several operations share.                                    *)
(***************************************************************************)
Limit(which) == [op EXCEPT !.stage = "limit", !.limit = which, !.saved = FALSE, !.pc = "journal"]

\* The session that a "journal then session" pair of writes is to store: a
\* limit is only kept by the operation once one of the writes succeeded.
Target ==
  IF op.stage = "limit" THEN [op.s EXCEPT !.phase = "paused", !.limit = op.limit] ELSE op.s
JournalLimit ==
  CASE op.stage = "limit" -> op.limit
    [] op.stage \in {"intent", "final"} -> op.s.limit
    [] OTHER -> "none"

\* The pair of writes: retainCancelFailure, markCaptureLimit, the two saves of
\* a pause, the failure states of finish, resume and navigation.  Each may
\* fail; one that succeeded is enough.
SaveJournal ==
  /\ At("journal")
  /\ LET next == IF op.task = "finish" /\ op.stage = "failed" THEN "restoring" ELSE "session"
     IN WriteJournal(Target.events, Target.phase, JournalLimit,
                     [op EXCEPT !.pc = next, !.saved = TRUE], Goto(next))
  /\ cancelled' = (cancelled \/ (op'.saved /\ op.stage = "cancel"))
  /\ UNCHANGED <<session, live, draft, fallback, page, acked>>

AfterSave(saved) ==
  LET o == [op EXCEPT !.s = Target, !.saved = saved]
      to(pc) == [o EXCEPT !.pc = pc]
  IN CASE op.stage = "limit" -> IF saved THEN to("drain") ELSE Throw
       [] op.stage = "intent" -> IF saved THEN to("retain") ELSE Idle
       [] op.stage = "final" -> IF saved THEN to("release") ELSE Idle
       [] op.stage = "failed" -> IF saved /\ op.known THEN to("release") ELSE Idle
       [] op.stage = "cancel" -> IF saved THEN to(IF op.task = "cancel" THEN "drain" ELSE "clear_live")
                                          ELSE Idle
       [] OTHER -> Idle

\* With neither write a pause or a resume leaves the events to the memory.
SaveSession ==
  /\ At("session")
  /\ \/ /\ Works
        /\ SetSession(Target)
        /\ op' = AfterSave(TRUE)
     \/ /\ Fails("session")
        /\ fallback' = IF ~op.saved /\ (op.stage = "final" \/ op.task = "resume")
                       THEN op.s.events ELSE fallback
        /\ op' = AfterSave(op.saved)
        /\ UNCHANGED <<session, marker>>
  /\ cancelled' = (cancelled \/ (op'.saved /\ op.stage = "cancel"))
  /\ UNCHANGED <<journal, live, draft, page, acked>>

\* stopRecorder("drain"): the recorder goes with what it tracked; a page that
\* cannot be reached keeps it, and nobody notices.
AfterDrain ==
  CASE op.stage = "limit" ->
         IF op.task = "finish"
         THEN [op EXCEPT !.stage = "main", !.pc = IF op.known THEN "absorb" ELSE "retain"]
         ELSE Idle
    [] op.task = "cancel" ->
         IF op.s.mode # "pc" /\ window # "closed" THEN Goto("restoring") ELSE Goto("clear_live")
    [] op.task = "recover" /\ window = "closed" -> Goto("drop_session")
    [] OTHER -> Goto("restoring")
Drain ==
  /\ At("drain")
  /\ \/ tab = "open" /\ Works /\ rec' = NoRecorder
     \/ tab = "closed" /\ Works /\ UNCHANGED rec
     \/ tab = "open" /\ Fails("page") /\ UNCHANGED rec
  /\ op' = AfterDrain
  /\ UNCHANGED <<stores, memory, inflight, acks, notice, tab, window, history>>

\* stopRecorder("retain"): the recorder stops listening and keeps what it
\* answered.  A page that cannot be reached rejects.
Retained == IF rec.retained = {} THEN rec.tracked ELSE rec.retained
Reinjection(s) == [s EXCEPT !.phase = "reinjection_failed"]
RetainFailed ==
  CASE op.task = "pause" -> Idle
    [] op.task = "resume" -> [op EXCEPT !.stage = "failed", !.s = Reinjection(op.s),
                                        !.known = FALSE, !.saved = FALSE, !.pc = "journal"]
    [] OTHER -> Throw
RetainedBatch(s) ==
  LET o == [op EXCEPT !.batch = Retained, !.known = TRUE]
  IN CASE op.task = "finish" -> [o EXCEPT !.todo = Accepted(op.s, Retained),
                   !.pc = IF Accepted(op.s, Retained) = {} THEN "put_session" ELSE "absorb"]
       [] op.task = "pause" -> [o EXCEPT !.s = s, !.stage = "final", !.saved = FALSE, !.pc = "journal"]
       [] op.stage = "failed" -> [o EXCEPT !.s = Reinjection(s), !.saved = FALSE, !.pc = "journal"]
       [] OTHER -> [o EXCEPT !.s = s, !.pc = "resume_journal"]
Retain ==
  /\ At("retain")
  /\ \/ /\ tab = "open"
        /\ Works
        /\ rec' = IF ~rec.present THEN rec
                  ELSE [rec EXCEPT !.listening = FALSE, !.retained = Retained,
                                   !.tracked = IF rec.retained = {} THEN {} ELSE @]
        /\ \E s \in Merges(op.s, Retained) : op' = RetainedBatch(s)
     \/ /\ \/ tab = "closed" /\ Works
           \/ tab = "open" /\ Fails("page")
        /\ op' = RetainFailed
        /\ UNCHANGED rec
  /\ marker' = (marker \/ (op.task = "resume" /\ op'.stage = "failed"))
  /\ UNCHANGED <<stores, fallback, inflight, acks, notice, tab, window, history>>

\* stopRecorder("release"): confirmed, or rejected with the recorder there or
\* gone.
AfterRelease ==
  CASE op.stage = "main" /\ op.task = "finish" -> [op EXCEPT !.stage = "tail", !.pc = "restoring"]
    [] op.stage = "main" /\ op.task = "resume" -> Goto("inject")
    [] OTHER -> Idle
Release ==
  /\ At("release")
  /\ \/ tab = "open" /\ Works /\ rec' = NoRecorder /\ op' = AfterRelease
     \/ tab = "closed" /\ Works /\ UNCHANGED rec /\ op' = Throw
     \/ tab = "open" /\ Fails("page") /\ rec' \in {rec, NoRecorder} /\ op' = Throw
  /\ UNCHANGED <<stores, memory, inflight, acks, notice, tab, window, history>>

\* injectRecorder: a recorder that is there already makes it a no-op.
Injected == IF rec.present THEN rec ELSE Listening
Inject ==
  /\ At("inject")
  /\ \/ /\ tab = "open"
        /\ Works
        /\ rec' = Injected
        /\ op' = CASE op.task = "start" -> [op EXCEPT !.s.phase = "recording", !.pc = "put_session"]
                   [] op.task = "resume" -> Goto("clear_journal")
                   [] OTHER -> Goto("image")
        /\ UNCHANGED marker
     \/ /\ \/ tab = "closed" /\ Works /\ UNCHANGED rec
           \/ tab = "open" /\ Fails("page") /\ rec' \in {rec, Injected}
        /\ op' = IF op.task = "updated" THEN [op EXCEPT !.s = Reinjection(op.s), !.pc = "marked"]
                 ELSE Throw
        /\ marker' = (marker \/ op.task = "updated")
  /\ UNCHANGED <<stores, fallback, inflight, acks, notice, tab, window, history>>

\* retainCancelFailure after a step of a cancel has failed.
CancelFailed(o) == [o EXCEPT !.s.restorePending = ~o.restored, !.stage = "retained",
                             !.saved = FALSE, !.pc = "journal"]

IsCancel == op.task \in {"cancel", "removed"}

\* A cancel is over once its images are gone and its window is restored.
CancelComplete(o) == o.cleared /\ o.restored

\* attemptRestore: a resized window gets its bounds back; the session says so
\* before, and whatever the operation's catch or tail does comes after.
AfterRestore(ok) ==
  LET o == [op EXCEPT !.restored = ok]
      to(pc) == [o EXCEPT !.pc = pc]
  IN CASE op.task = "finish" /\ op.stage = "failed" ->
            [o EXCEPT !.s.restorePending = ~ok, !.pc = "session"]
       [] op.task = "finish" -> to(IF ok THEN "drop_session" ELSE "drop_journal")
       [] op.task = "cancel" -> to("clear_live")
       [] op.task = "removed" ->
            IF CancelComplete(o) THEN to("drop_journal") ELSE CancelFailed(o)
       [] op.task = "restore" /\ ok /\ (op.s.phase = "cancel_failed" \/ op.s.finishFailed) ->
            [o EXCEPT !.s.restorePending = FALSE, !.pc = "keep",
                      !.s.phase = IF @ = "cancel_failed" THEN @ ELSE "finish_failed"]
       [] OTHER -> IF ok THEN to("drop_session") ELSE Idle

RestorePending == [op.s EXCEPT !.phase = "restore_pending", !.restorePending = TRUE]
Restore ==
  /\ At("restoring")
  /\ IF op.s.mode = "pc"
     THEN /\ Works
          /\ op' = AfterRestore(TRUE)
          /\ UNCHANGED <<session, memory>>
     ELSE WriteSession(RestorePending, Goto("restore_window"), Goto("restore_again"))
  /\ UNCHANGED <<journal, live, draft, page, history>>

\* Of two tries to restore the window the second is made when the session
\* could not be written.
RestoreWindow ==
  /\ op.pc \in {"restore_window", "restore_again"}
  /\ LET failed == IF At("restore_window") THEN Goto("restore_failed") ELSE AfterRestore(FALSE)
     IN \/ window # "closed" /\ Works /\ window' = "original" /\ op' = AfterRestore(TRUE)
        \/ window = "closed" /\ Works /\ UNCHANGED window /\ op' = failed
        \/ window # "closed" /\ Fails("window") /\ UNCHANGED window /\ op' = failed
  /\ UNCHANGED <<stores, memory, rec, inflight, acks, notice, tab, history>>

RestoreFailed ==
  /\ At("restore_failed")
  /\ WriteSession(RestorePending, AfterRestore(FALSE), Goto("restore_again"))
  /\ UNCHANGED <<journal, live, draft, page, history>>

\* The end of a session: setSession(null) and clearRecoveryJournal, in the
\* opposite order when it is cancelled.
DropSession ==
  /\ At("drop_session")
  /\ WriteSession(NoSession,
                  IF IsCancel \/ op.task = "start" THEN Idle ELSE Goto("drop_journal"),
                  IF IsCancel THEN CancelFailed(op) ELSE Idle)
  /\ UNCHANGED <<journal, live, draft, page, history>>

DropJournal ==
  /\ At("drop_journal")
  /\ \/ /\ Works
        /\ journal' = NoJournal
        /\ op' = IF IsCancel THEN Goto("drop_session") ELSE Idle
     \/ /\ Fails("journal")
        /\ op' = IF IsCancel THEN CancelFailed(op) ELSE Idle
        /\ UNCHANGED journal
  /\ UNCHANGED <<session, live, draft, memory, page, history>>

\* captureLiveStore.clear.
AfterClear(ok) ==
  LET o == [op EXCEPT !.cleared = ok]
      to(pc) == [o EXCEPT !.pc = pc]
  IN CASE op.task = "finish" -> IF ok THEN to("release") ELSE Throw
       [] op.task = "cancel" -> IF CancelComplete(o) THEN to("drop_journal") ELSE CancelFailed(o)
       [] window = "closed" -> IF ok THEN to("drop_journal") ELSE Idle
       [] OTHER -> to("restoring")
ClearLive ==
  /\ At("clear_live")
  /\ \/ Works /\ live' = {} /\ op' = AfterClear(TRUE)
     \/ Fails("live") /\ UNCHANGED live /\ op' = AfterClear(FALSE)
  /\ UNCHANGED <<session, journal, draft, memory, page, history>>

-----------------------------------------------------------------------------
(***************************************************************************)
(* start, recover                                                          *)
(***************************************************************************)
\* startCapture removes whatever journal is left before anything else.  A new
\* tab has nothing of the closed one: its messages and notices are not heard.
Start(mode) ==
  /\ At("idle")
  /\ Current = NoSession
  /\ \/ /\ Works
        /\ journal' = NoJournal
        /\ op' = [Idle EXCEPT !.task = "start", !.pc = "begin",
                              !.s = [NoSession EXCEPT !.phase = "starting", !.mode = mode]]
     \/ Fails("journal") /\ UNCHANGED <<journal, op>>
  /\ fallback' = {}
  /\ IF tab = "open"
     THEN UNCHANGED page
     ELSE /\ tab' = "open"
          /\ window' = IF window = "closed" THEN "original" ELSE window
          /\ inflight' = {}
          /\ acks' = {}
          /\ notice' = "none"
          /\ UNCHANGED rec
  /\ UNCHANGED <<session, live, draft, marker, history>>

\* The new session has a new id: no draft, no image and no event is its own.
StoreStarting ==
  /\ op.task = "start"
  /\ At("begin")
  /\ \/ /\ Works
        /\ SetSession(op.s)
        /\ draft' = NoDraft
        /\ live' = {}
        /\ acked' = {}
        /\ cancelled' = FALSE
        /\ op' = Goto(IF op.s.mode = "pc" THEN "inject" ELSE "resize")
     \/ /\ Fails("session")
        /\ op' = Idle
        /\ UNCHANGED <<session, draft, live, memory, history>>
  /\ UNCHANGED <<journal, page>>

\* applyResponsiveViewport, at the start and before a finish is retried.
Resize ==
  /\ At("resize")
  /\ \/ /\ window # "closed"
        /\ Works
        /\ window' = "resized"
        /\ op' = Goto(IF op.task = "start" THEN "inject" ELSE "count")
     \/ /\ \/ window = "closed" /\ Works /\ UNCHANGED window
           \/ window # "closed" /\ Fails("window") /\ window' \in {window, "resized"}
        /\ op' = Throw
  /\ UNCHANGED <<stores, memory, rec, inflight, acks, notice, tab, history>>

Recover ==
  /\ op.task = "recover"
  /\ At("begin")
  /\ op' = IF Current.phase = "starting" THEN Begin("recover", "drain") ELSE Idle
  /\ UNCHANGED <<stores, memory, page, history, faults>>

\* A recorder that is still there would make the injection of a new one a no-op.
InjectsAtOnce == Goto("inject")
ReleaseFirst == Goto("release")
PutSession ==
  /\ At("put_session")
  /\ WriteSession(op.s,
                  CASE op.task = "start" -> Idle
                    [] op.task = "resume" -> ReleaseFirst
                    [] OTHER -> Goto("make_draft"),
                  Throw)
  /\ UNCHANGED <<journal, live, draft, page, history>>

-----------------------------------------------------------------------------
(***************************************************************************)
(* capture:event and tabs.onUpdated                                        *)
(***************************************************************************)
\* The limits: as many images as fit a cloud claim, then as many steps.
ImagesFull == Cardinality(live) >= MaxImages
OneStepMore(s) == Cardinality(s.events) > MaxSteps
StepsFull(s) == Cardinality(s.events) >= MaxSteps

Ack(s, e) ==
  IF s.limit = "none" THEN acks' = acks \cup {e} /\ acked' = acked \cup {e}
                      ELSE UNCHANGED <<acks, acked>>
With(task, e, pc) == [Begin(task, pc) EXCEPT !.e = e, !.s.events = @ \cup {e}]

\* recordEventWithImage, up to its first write.
ReceiveEvent(e) ==
  /\ At("idle")
  /\ e \in inflight
  /\ inflight' = inflight \ {e}
  /\ \/ /\ Current.phase # "recording"
        /\ Works
        /\ UNCHANGED <<op, acks, acked>>
     \/ /\ Current.phase = "recording"
        /\ e \in Current.events
        /\ Works
        /\ Ack(Current, e)
        /\ UNCHANGED op
     \/ /\ Current.phase = "recording"
        /\ e \notin Current.events
        /\ \/ Fails("live") /\ UNCHANGED op
           \/ /\ Works
              /\ op' = IF ImagesFull
                       THEN [Begin("event", "journal") EXCEPT !.stage = "limit", !.limit = "images"]
                       ELSE IF StepsFull(Current)
                       THEN [Begin("event", "journal") EXCEPT !.stage = "limit", !.limit = "steps"]
                       ELSE With("event", e, "append")
        /\ UNCHANGED <<acks, acked>>
  /\ UNCHANGED <<stores, memory, rec, notice, tab, window, cancelled>>

\* appendCaptureEvent: what the session cannot store goes to the journal,
\* and the event is refused all the same.
Append ==
  /\ At("append")
  /\ WriteSession(op.s, IF op.s.limit = "none" THEN Goto("image") ELSE Idle,
                  Goto("append_journal"))
  /\ UNCHANGED <<journal, live, draft, page, history>>

AppendJournal ==
  /\ At("append_journal")
  /\ \/ /\ Works
        /\ SetJournal(fallback \cup {op.e}, "null", "none")
        /\ fallback' = {}
     \/ /\ Fails("journal")
        /\ UNCHANGED <<journal, memory>>
  /\ op' = Throw
  /\ UNCHANGED <<session, live, draft, page, history>>

\* recordStepImage: a screenshot is kept or not, whatever becomes of the first
\* write; the last write decides the answer.
TakeImage ==
  /\ At("image")
  /\ WriteSession(op.s, Goto("image_done"), Goto("image_done"))
  /\ live' \in {live, live \cup {op.e}}
  /\ UNCHANGED <<journal, draft, page, history>>

ImageDone ==
  /\ At("image_done")
  /\ \/ /\ Works
        /\ SetSession(op.s)
        /\ op' = Idle
        /\ IF op.task = "event" THEN Ack(op.s, op.e) ELSE UNCHANGED <<acks, acked>>
     \/ /\ Fails("session")
        /\ op' = IF op.task = "event" THEN Idle ELSE Goto("navigated_journal")
        /\ UNCHANGED <<session, memory, acks, acked>>
  /\ UNCHANGED <<journal, live, draft, rec, inflight, notice, tab, window, cancelled>>

\* tabs.onUpdated: a navigation is an event of its own, and the new document
\* needs a recorder.
ReceiveUpdated ==
  /\ At("idle")
  /\ notice = "updated"
  /\ notice' = "none"
  /\ LET s == Current
     IN \/ /\ s.phase # "recording"
           /\ Works
           /\ UNCHANGED <<op, marker>>
        \/ /\ s.phase = "recording"
           /\ StepsFull(s)
           /\ Works
           /\ op' = [Begin("updated", "journal") EXCEPT !.stage = "limit", !.limit = "steps"]
           /\ UNCHANGED marker
        \/ /\ s.phase = "recording"
           /\ ~StepsFull(s)
           /\ \/ /\ Fails("live")
                 /\ marker' = TRUE
                 /\ op' = [Begin("updated", "journal") EXCEPT !.stage = "failed", !.s = Reinjection(s)]
              \/ /\ Works
                 /\ ImagesFull
                 /\ op' = [Begin("updated", "journal") EXCEPT !.stage = "limit", !.limit = "images"]
                 /\ UNCHANGED marker
              \/ /\ Works
                 /\ ~ImagesFull
                 /\ \E e \in Unused : op' = With("updated", e, "navigate")
                 /\ UNCHANGED marker
  /\ UNCHANGED <<stores, fallback, rec, inflight, acks, tab, window, history>>

\* The navigation is stored in the session, or in the journal, or kept in the
\* worker's memory; the recorder is injected in any case.
StoreNavigation ==
  /\ At("navigate")
  /\ WriteSession(op.s, Goto("inject"), Goto("navigate_journal"))
  /\ UNCHANGED <<journal, live, draft, page, history>>

JournalNavigation ==
  /\ At("navigate_journal")
  /\ \/ /\ Works
        /\ SetJournal(fallback \cup {op.e}, "null", "none")
        /\ fallback' = {}
     \/ /\ Fails("journal")
        /\ fallback' = fallback \cup {op.e}
        /\ UNCHANGED <<journal, marker>>
  /\ op' = Goto("inject")
  /\ UNCHANGED <<session, live, draft, page, history>>

\* A failed injection is stored in the session, or else in the journal.
StoreInjectionFailure ==
  /\ At("marked")
  /\ WriteSession(op.s, Idle, Goto("marked_journal"))
  /\ UNCHANGED <<journal, live, draft, page, history>>

JournalInjectionFailure ==
  /\ At("marked_journal")
  /\ WriteJournal({}, "reinjection_failed", "none", Idle, Idle)
  /\ UNCHANGED <<session, live, draft, fallback, page, history>>

\* The image of a navigation could not be noted in the session.
JournalNavigated ==
  /\ At("navigated_journal")
  /\ WriteJournal(fallback \cup {op.e}, "recording", "none", Idle, Idle)
  /\ UNCHANGED <<session, live, draft, fallback, page, history>>

-----------------------------------------------------------------------------
(***************************************************************************)
(* pause, resume                                                           *)
(***************************************************************************)
\* The intent is stored before the recorder is stopped.
Pause ==
  /\ At("idle")
  /\ Current.phase = "recording"
  /\ \/ Fails("live") /\ UNCHANGED op
     \/ /\ Works
        /\ op' = [Begin("pause", "journal") EXCEPT !.stage = "intent", !.s.phase = "paused",
                    !.s.limit = IF ImagesFull THEN "images" ELSE @]
  /\ UNCHANGED <<stores, memory, page, history>>

MayResume(s) == s.phase \in {"paused", "reinjection_failed"} /\ s.limit = "none"
Resume ==
  /\ At("idle")
  /\ MayResume(Current)
  /\ tab = "open"
  /\ op' = Begin("resume", "retain")
  /\ UNCHANGED <<stores, memory, page, history, faults>>

ResumeJournal ==
  /\ At("resume_journal")
  /\ WriteJournal(op.s.events, "recording", "none", 
                  [op EXCEPT !.s.phase = "recording", !.pc = "put_session"], Throw)
  /\ UNCHANGED <<session, live, draft, fallback, page, history>>

\* The last step of a resume: the journal may stay, and nobody notices.
ClearJournal ==
  /\ At("clear_journal")
  /\ \/ Works /\ journal' = NoJournal
     \/ Fails("journal") /\ UNCHANGED journal
  /\ marker' = FALSE
  /\ op' = Idle
  /\ UNCHANGED <<session, live, draft, fallback, page, history>>

-----------------------------------------------------------------------------
(***************************************************************************)
(* finish                                                                  *)
(***************************************************************************)
FinishablePhases == {"recording", "paused", "finish_failed", "reinjection_failed"}
Finish ==
  /\ At("idle")
  /\ Current.phase \in FinishablePhases
  /\ op' = Begin("finish", IF Current.phase = "finish_failed" /\ ~Current.restorePending
                              /\ Current.mode # "pc"
                           THEN "resize" ELSE "count")
  /\ UNCHANGED <<stores, memory, page, history, faults>>

CountImages ==
  /\ At("count")
  /\ \/ Works /\ op' = IF ImagesFull /\ op.s.limit # "images" THEN Limit("images") ELSE Goto("retain")
     \/ Fails("live") /\ op' = Throw
  /\ UNCHANGED <<stores, memory, page, history>>

\* recordEventWithoutImage for each retained event.
Absorb ==
  /\ At("absorb")
  /\ \/ /\ op.todo = {}
        /\ Works
        /\ op' = Goto("absorb_journal")
        /\ UNCHANGED <<session, memory>>
     \/ \E e \in op.todo :
          LET o == [op EXCEPT !.todo = @ \ {e}, !.e = e]
          IN IF e \in op.s.events
             THEN Works /\ op' = o /\ UNCHANGED <<session, memory>>
             ELSE IF StepsFull(op.s)
             THEN /\ Works
                  /\ op' = [o EXCEPT !.stage = "limit", !.limit = "steps", !.saved = FALSE, !.pc = "journal"]
                  /\ UNCHANGED <<session, memory>>
             ELSE LET s == [op.s EXCEPT !.events = @ \cup {e}]
                  IN WriteSession(s, [o EXCEPT !.s = s, !.pc = "absorbed"], [o EXCEPT !.pc = "append_journal"])
  /\ UNCHANGED <<journal, live, draft, page, history>>

\* The event's missing image is noted in a write of its own.
Absorbed ==
  /\ At("absorbed")
  /\ WriteSession(op.s, Goto("absorb"), Throw)
  /\ UNCHANGED <<journal, live, draft, page, history>>

AbsorbJournal ==
  /\ At("absorb_journal")
  /\ WriteJournal(op.batch, "null", "none", Goto("put_session"), Goto("put_session"))
  /\ UNCHANGED <<session, live, draft, fallback, page, history>>

\* The draft of this session, unless an earlier finish has stored it already. A
\* draft without events needs a screenshot, which may not be possible.
KeepsDraft == draft.made
MakeDraft ==
  /\ At("make_draft")
  /\ \/ /\ Works
        /\ draft' = IF KeepsDraft THEN draft
                    ELSE [made |-> TRUE, events |-> op.s.events, images |-> live \cap op.s.events]
        /\ op' = Goto("clear_live")
     \/ /\ \/ Fails("draft")
           \/ ~KeepsDraft /\ op.s.events = {} /\ Works
        /\ UNCHANGED draft
        /\ op' = Throw
  /\ UNCHANGED <<session, journal, live, memory, page, history>>

\* The catch block: the retained events stay with the session.
BackToPaused(s) == [s EXCEPT !.phase = "paused", !.finishFailed = TRUE]
FinishFailed(s) == [s EXCEPT !.phase = "finish_failed", !.finishFailed = TRUE]
CatchFinish ==
  /\ At("catch")
  /\ \E s \in IF op.known THEN Merges(op.s, op.batch) ELSE {op.s} :
       op' = [op EXCEPT !.stage = "failed", !.saved = FALSE, !.pc = "journal",
                        !.s = FinishFailed(s)]
  /\ UNCHANGED <<stores, memory, page, history, faults>>

-----------------------------------------------------------------------------
(***************************************************************************)
(* cancel, tabs.onRemoved, restore                                         *)
(***************************************************************************)
Cancelling(task, pending) ==
  [Begin(task, "journal") EXCEPT !.stage = "cancel", !.s.phase = "cancel_failed",
     !.s.finishFailed = FALSE, !.s.restorePending = pending]

Cancel ==
  /\ At("idle")
  /\ Current # NoSession
  /\ op' = Cancelling("cancel", Current.mode # "pc" \/ Current.restorePending)
  /\ UNCHANGED <<stores, memory, page, history, faults>>

ReceiveRemoved ==
  /\ At("idle")
  /\ notice = "removed"
  /\ notice' = "none"
  /\ IF session = NoSession
     THEN UNCHANGED <<op, fallback>>
     ELSE /\ op' = Cancelling("removed", window # "closed"
                                         /\ (Current.mode # "pc" \/ Current.restorePending))
          /\ fallback' \in IF window = "closed" THEN {{}, fallback} ELSE {fallback}
  /\ UNCHANGED <<stores, marker, rec, inflight, acks, tab, window, history, faults>>

RetryRestore ==
  /\ At("idle")
  /\ Current.restorePending \/ Current.phase = "starting"
  /\ op' = Begin("restore", "restoring")
  /\ UNCHANGED <<stores, memory, page, history, faults>>

KeepSession ==
  /\ At("keep")
  /\ WriteSession(op.s, Idle, Idle)
  /\ UNCHANGED <<journal, live, draft, page, history>>

-----------------------------------------------------------------------------
Page ==
  \/ \E e \in Events : Capture(e) \/ HearAck(e)
  \/ Navigate \/ CloseTab
Environment == Suspend \/ Kill \/ BrowserRestart
Command ==
  \/ \E mode \in Modes : Start(mode)
  \/ \E e \in Events : ReceiveEvent(e)
  \/ ReceiveUpdated \/ ReceiveRemoved
  \/ Pause \/ Resume \/ Finish \/ Cancel \/ RetryRestore
Step ==
  \/ SaveJournal \/ SaveSession \/ Drain \/ Retain \/ Release \/ Inject
  \/ Restore \/ RestoreWindow \/ RestoreFailed \/ DropSession \/ DropJournal \/ ClearLive
  \/ StoreStarting \/ Resize \/ Recover \/ PutSession
  \/ Append \/ AppendJournal \/ TakeImage \/ ImageDone
  \/ StoreNavigation \/ JournalNavigation \/ StoreInjectionFailure
  \/ JournalInjectionFailure \/ JournalNavigated
  \/ ResumeJournal \/ ClearJournal
  \/ CountImages \/ Absorb \/ Absorbed \/ AbsorbJournal \/ MakeDraft \/ CatchFinish \/ KeepSession
Next == Page \/ Environment \/ Command \/ Step

Spec == Init /\ [][Next]_vars

\* The browser answers each call of an operation, and the user who cancelled
\* repeats the cancel as long as the session is there.
LiveSpec == Spec /\ WF_vars(Step) /\ SF_vars(Cancel)

-----------------------------------------------------------------------------
(***************************************************************************)
(* Properties                                                              *)
(***************************************************************************)

\* What an operation can still find after the worker was restarted.
Saved == session.events \cup journal.events \cup draft.events

\* An event answered "accepted" is forgotten by the page, so until the session
\* ends it must be found in one of the stores: no write of a later operation,
\* no merge of journal and session and no restart of the worker drops it.
AckedIsKept == session # NoSession /\ ~cancelled => acked \subseteq Saved

\* A recorder that has answered its events gives them up ("release") only when
\* a store has them: pause, resume and finish release after a write succeeded,
\* except for the events that a limit refuses.
SavedBeforeReleased ==
  [][At("release") /\ rec.present /\ ~rec'.present /\ Current.limit = "none" /\ ~StepsFull(Current)
       => rec.retained \subseteq Saved]_vars

\* The session store and the processes have not failed so far; journal,
\* screenshots, draft, page and window may have.
SessionStoreWorked == faults \cap {"session", "worker", "browser"} = {}

\* As long as the session store works, a session that ends other than by a
\* cancel leaves a draft that holds every event answered "accepted".
FinishKeepsAll ==
  [][SessionStoreWorked' /\ session # NoSession /\ session' = NoSession /\ At("drop_session")
       /\ op.task \in {"finish", "restore"} /\ ~cancelled
       => acked \subseteq draft.events]_vars

\* With no session left and nothing in progress no screenshot is left behind
\* and the user's window has its own size again.
IdleIsClean ==
  SessionStoreWorked /\ session = NoSession /\ At("idle") /\ journal.phase # "cancel_failed"
    => live = {} /\ window # "resized"

\* While the status shown is "recording" the page has a recorder that listens,
\* unless a navigation is still to be handled: whatever failed in a pause, a
\* resume or a reinjection, the user is never left to work unrecorded.
RecordingHasRecorder ==
  SessionStoreWorked /\ At("idle") /\ Current.phase = "recording" /\ notice = "none"
    => rec.listening

\* Once a cancel intent is stored, between operations the session is never
\* seen in a phase that may be finished, resumed or recorded to.  Stated by
\* docs/09-delivery/decision-log.md:431: cancel_failed never goes back to
\* finish, not even after the worker was restarted.
CancelledStaysCancelled ==
  At("idle") /\ cancelled /\ session # NoSession
    => Current.phase \in {"cancel_failed", "restore_pending"}

\* A cancelled recording never makes or changes a draft.
CancelledIsNeverSaved == [][cancelled /\ cancelled' => draft' = draft]_vars

\* A cancelled session is gone only when its screenshots are.  Stated by
\* docs/05-api/api-contracts.md:202: restoring the window alone does not
\* discard the cancel intent and the session.
CancelledLeavesNothing ==
  cancelled /\ session = NoSession /\ At("idle") /\ journal.phase # "cancel_failed"
    => live = {}

\* A cancel that is stored ends, if the user repeats it: some retry removes
\* screenshots, journal and session, also after a restart of the browser that
\* left only the intent in the journal.
CancelEnds ==
  cancelled ~> (session = NoSession /\ journal.phase # "cancel_failed" /\ live = {})

\* No session has more ready images than a cloud claim takes, although they
\* are counted before the event is stored and the screenshot taken.
ImagesWithinLimit == Cardinality(live) <= MaxImages

\* No draft has more steps than the limit, which is enforced by the events'
\* own path, by the merge of retained events and by the finish.  Stated by
\* docs/05-api/api-contracts.md:208: pending events that the limit refused are
\* added neither to the session nor to the journal.
DraftWithinLimit == Cardinality(draft.events) <= MaxSteps

\* A session that reached a limit has no recorder that listens.  Stated by
\* docs/05-api/api-contracts.md:208: at 100 images or 200 steps the recorder
\* is stopped.
LimitStopsRecorder == At("idle") /\ Current.limit # "none" => ~rec.listening

\* Between operations the state is one the user can go on from: what the status
\* shows, what the page records and what is left behind agree (getStatus).
Consistent ==
  /\ TypeOK /\ IdleIsClean /\ RecordingHasRecorder
  /\ CancelledStaysCancelled /\ CancelledLeavesNothing

\* No step drops what was accepted, and none saves what was cancelled.
NothingIsLost == FinishKeepsAll /\ CancelledIsNeverSaved /\ SavedBeforeReleased

\* The limits hold on every path that an event takes: the images whatever
\* fails, the steps of a draft and the recorder's end as long as nothing does.
\* After a failure the last two do not hold: a finish writes to the journal the
\* events it has just refused (service-worker.js:382), and its retry finds them
\* there; a resume goes on recording when the retained events have reached the
\* limit (service-worker.js:630), until the next event.
WithinLimits ==
  ImagesWithinLimit /\ (faults = {} => DraftWithinLimit /\ LimitStopsRecorder)
=============================================================================
