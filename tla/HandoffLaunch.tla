---------------------------- MODULE HandoffLaunch ----------------------------
(***************************************************************************)
(* The launch of a handoff from the editor page of the extension: the      *)
(* editor makes a hidden tab, directs it to the web page, waits until the  *)
(* page reports, and then shows it; the person may cancel, start again or  *)
(* ask to see the tab at any moment, and the service worker serves the     *)
(* page's report and its return from the login meanwhile.                  *)
(*                                                                         *)
(* A launch has one tab and one record handoff-ready:<handoff>:<launch>,   *)
(* so that all three have the number of the launch.  A handoff is found    *)
(* again by its output action, and named by it.                            *)
(***************************************************************************)
EXTENDS Naturals, Sequences

CONSTANTS Actions,     \* the output actions: save, share
          MaxLaunches, \* how often the person starts the output
          MaxRestores, \* how often one launch is directed again after a login
          MaxFaults    \* calls of the browser that fail, tabs closed, ends of the service worker

ASSUME HandoffLaunchAssumption == {MaxLaunches, MaxRestores, MaxFaults} \subseteq Nat

Launches == 1 .. MaxLaunches
(* The tasks of a launch: startOutput, the press on "show", the policy     *)
(* update and the clean-up of a cancellation, and in the service worker    *)
(* the page's report and its return from the login.                        *)
Tasks == {"main", "click", "policy", "clean", "report", "return"}
Worker == {"report", "return"}

VARIABLES run,    \* the launches: handoff, cancelled, tabState
          active, \* activeHandoffAttempt, 0 for null
          offered,\* pendingHandoffTabId, 0 for null
          busy,   \* outputInFlight
          task,   \* how far each task of each launch is, and the record it has read
          lock,   \* the requests for handoff:ready:<handoff>, each with those it has to wait for
          ready,  \* the handoff-ready records
          late,   \* the launches whose activation deadline has passed
          tab,    \* the tabs and whether they were shown
          kept,   \* tabs that could not be removed
          faults

vars == <<run, active, offered, busy, task, lock, ready, late, tab, kept, faults>>

NoRecord == [policy |-> "none", reported |-> FALSE, activated |-> FALSE, restores |-> 0]
Idle == [at |-> "idle", read |-> NoRecord]
NoRun == [handoff |-> "none", cancelled |-> FALSE, tabState |-> "none", launched |-> FALSE, cleaning |-> FALSE]
NoTab == [at |-> "none", shown |-> FALSE]

Init ==
    /\ run = <<>>
    /\ active = 0 /\ offered = 0 /\ busy = FALSE
    /\ task = [r \in Launches |-> [t \in Tasks |-> Idle]]
    /\ lock = [w \in {} |-> {}]
    /\ ready = [r \in Launches |-> NoRecord] /\ late = {}
    /\ tab = [r \in Launches |-> NoTab] /\ kept = {}
    /\ faults = 0

Generation == Len(run)
IsActiveHandoffRun(r) == ~run[r].cancelled /\ r = Generation /\ active = r
At(r, t, at) == task[r][t].at = at
Goes(r, t, at) == task' = [task EXCEPT ![r][t].at = at]
Ends(r, t) == task' = [task EXCEPT ![r][t] = Idle]
Reads(r, t, at) == task' = [task EXCEPT ![r][t] = [at |-> at, read |-> ready[r]]]
Fails == faults < MaxFaults /\ faults' = faults + 1
Faultless == UNCHANGED faults

(* withHandoffReadyLock: the browser grants the lock in the order of the   *)
(* requests, so that a request waits for all that are there before it.     *)
Queue(r) == {w \in DOMAIN lock : run[w[1]].handoff = run[r].handoff}
Without(gone) == [w \in DOMAIN lock \ gone |-> lock[w] \ gone]
Holds(r, t) == <<r, t>> \in DOMAIN lock /\ lock[<<r, t>>] = {}
Asks(r, t) ==
    lock' = [w \in DOMAIN lock \cup {<<r, t>>} |-> IF w = <<r, t>> THEN Queue(r) ELSE lock[w]]
Releases(r, t) == lock' = Without({<<r, t>>})
\* the holder goes to the end of the queue
AsksAgain(r, t) ==
    lock' = [w \in DOMAIN lock |-> (IF w = <<r, t>> THEN Queue(r) ELSE lock[w]) \ {<<r, t>>}]
----------------------------------------------------------------------------
(* Cancelling a launch marks it and starts two tasks of its own: its       *)
(* record is marked, once it has one, and its blank tab is removed.        *)
MayCancel(r) == r # 0 /\ ~run[r].cancelled /\ run[r].tabState # "activating"
\* only the active launch cleans up
ActiveOnly(r) == run[r].tabState = "provisional" /\ active = r
Removable(r) == run[r].tabState = "provisional" /\ ~run[r].cleaning
Cancelled(r) ==
    [run EXCEPT ![r].cancelled = TRUE, ![r].cleaning = @ \/ Removable(r)]
CancelTasks(r) ==
    [task EXCEPT ![r]["policy"] = IF run[r].launched THEN [Idle EXCEPT !.at = "wait"] ELSE @,
                 ![r]["clean"] = IF Removable(r) THEN [Idle EXCEPT !.at = "remove"] ELSE @]
CancelHandoffRun(r) ==
    IF MayCancel(r)
    THEN /\ run' = Cancelled(r)
         /\ task' = CancelTasks(r)
         /\ active' = 0
         /\ IF run[r].launched THEN Asks(r, "policy") ELSE UNCHANGED lock
    ELSE UNCHANGED <<run, task, active, lock>>

(* The cancel button, Escape and the close of the dialog.                  *)
Cancel ==
    /\ MayCancel(active)
    /\ CancelHandoffRun(active)
    /\ UNCHANGED <<offered, busy, ready, late, tab, kept, faults>>

StartOutput(a) ==
    /\ ~busy
    /\ active # 0 => run[active].tabState # "activating"
    /\ Generation < MaxLaunches
    /\ LET r == Generation + 1 IN
       LET stopped == IF MayCancel(active) THEN Cancelled(active) ELSE run
           tasks == IF MayCancel(active) THEN CancelTasks(active) ELSE task IN
       /\ run' = Append(stopped, [NoRun EXCEPT !.handoff = a])
       /\ task' = [tasks EXCEPT ![r]["main"].at = "find"]
       /\ active' = r
    /\ IF MayCancel(active) /\ run[active].launched THEN Asks(active, "policy") ELSE UNCHANGED lock
    /\ busy' = TRUE /\ offered' = 0
    /\ UNCHANGED <<ready, late, tab, kept, faults>>
----------------------------------------------------------------------------
(* startOutput and openHandoffTab.  Every wait is followed by the question *)
(* whether the launch is still the active one; a failed call and a lost    *)
(* launch both end in the handler of errors.                               *)
Main(r, at) == At(r, "main", at) /\ UNCHANGED <<offered, busy, late, kept>>
Continues(r, at) == Goes(r, "main", IF IsActiveHandoffRun(r) THEN at ELSE "catch")

Find(r) ==
    /\ Main(r, "find")
    /\ \/ Continues(r, "create") /\ Faultless
       \/ Fails /\ Goes(r, "main", "catch")
    /\ UNCHANGED <<run, active, lock, ready, tab>>

Create(r) ==
    /\ Main(r, "create")
    /\ \/ /\ tab' = [tab EXCEPT ![r].at = "blank"]
          /\ run' = [run EXCEPT ![r].tabState = "provisional"]
          /\ Continues(r, "look") /\ Faultless
       \/ Fails /\ Goes(r, "main", "catch") /\ UNCHANGED <<tab, run>>
    /\ UNCHANGED <<active, lock, ready>>

Look(r) ==
    /\ Main(r, "look")
    /\ \/ /\ Continues(r, "lock") /\ Faultless
          /\ IF IsActiveHandoffRun(r)
             THEN Asks(r, "main") /\ run' = [run EXCEPT ![r].launched = TRUE]
             ELSE UNCHANGED <<run, lock>>
       \/ Fails /\ Goes(r, "main", "catch") /\ UNCHANGED <<run, lock>>
    /\ UNCHANGED <<active, ready, tab>>

Locked(r) ==
    /\ Main(r, "lock") /\ Holds(r, "main")
    /\ Continues(r, "set")
    /\ IF IsActiveHandoffRun(r) THEN UNCHANGED lock ELSE Releases(r, "main")
    /\ Faultless /\ UNCHANGED <<run, active, ready, tab>>

SetReady(r) ==
    /\ Main(r, "set")
    /\ \/ /\ ready' = [ready EXCEPT ![r] = [NoRecord EXCEPT !.policy = "auto"]]
          /\ Continues(r, "navigate") /\ Faultless
          /\ IF IsActiveHandoffRun(r)
             THEN run' = [run EXCEPT ![r].tabState = "navigating"] /\ UNCHANGED lock
             ELSE Releases(r, "main") /\ UNCHANGED run
       \/ Fails /\ Goes(r, "main", "catch") /\ Releases(r, "main") /\ UNCHANGED <<ready, run>>
    /\ UNCHANGED <<active, tab>>

Navigate(r) ==
    /\ Main(r, "navigate")
    /\ \/ /\ tab[r].at = "blank" /\ Faultless
          /\ tab' = [tab EXCEPT ![r].at = "page"]
          /\ run' = [run EXCEPT ![r].tabState = "prepared"]
          /\ Continues(r, "wait")
       \/ /\ tab[r].at = "blank" => Fails
          /\ tab[r].at # "blank" => Faultless
          /\ run' = [run EXCEPT ![r].tabState = "provisional"]
          /\ Goes(r, "main", "catch") /\ UNCHANGED tab
    /\ Releases(r, "main")
    /\ UNCHANGED <<active, ready>>

(* waitForPageReady: a look at the record every 100 ms, for eight seconds  *)
(* that begin after the eight seconds of the record's own deadline.        *)
WaitForPageReady(r) ==
    /\ Main(r, "wait")
    /\ ~IsActiveHandoffRun(r) \/ ready[r].reported
    /\ Continues(r, "show")
    /\ IF IsActiveHandoffRun(r) THEN Asks(r, "main") ELSE UNCHANGED lock
    /\ Faultless /\ UNCHANGED <<run, active, ready, tab>>

\* the loop has no end of its own
Endless(r) == FALSE
TimeIsUp(r) == r \in late
WaitEnds(r) ==
    /\ Main(r, "wait")
    /\ IsActiveHandoffRun(r) /\ TimeIsUp(r)
    /\ Goes(r, "main", "manual") /\ Asks(r, "main")
    /\ Faultless /\ UNCHANGED <<run, active, ready, tab>>
----------------------------------------------------------------------------
(* activateHandoffTab, for startOutput and for the press on "show".        *)
Policy(t) == IF t = "main" THEN "auto" ELSE "manual"
Shows(r, t, at) == At(r, t, at) /\ t \in {"main", "click"} /\ Holds(r, t) /\ UNCHANGED <<busy, late, kept, ready>>

(* What the caller does with the answer.  startOutput offers the tab when  *)
(* the time is over and gives up otherwise; a press on "show" that comes   *)
(* to nothing leaves the button.                                           *)
NotShown(r, t, reason) ==
    IF t = "main" /\ reason = "expired" /\ IsActiveHandoffRun(r)
    THEN Goes(r, "main", "manual") /\ AsksAgain(r, "main")
    ELSE Releases(r, t) /\ (IF t = "main" THEN Goes(r, t, "catch") ELSE Ends(r, t))

Timely(r, t) == t = "main" => ready[r].reported /\ r \notin late
Expired(r, t) == t = "main" /\ r \in late
\* the launch is not asked about again once the record is read
Asked(r, t) == ready[r].policy = Policy(t) /\ Timely(r, t)
Presents(r, t) == IsActiveHandoffRun(r) /\ ready[r].policy = Policy(t) /\ Timely(r, t)
ReadToShow(r, t) ==
    /\ Shows(r, t, "show")
    /\ IF Presents(r, t)
       THEN /\ run' = [run EXCEPT ![r].tabState = "activating"]
            /\ Goes(r, t, "showing") /\ UNCHANGED lock
       ELSE /\ UNCHANGED run
            /\ NotShown(r, t, IF IsActiveHandoffRun(r) /\ ready[r].policy = Policy(t) /\ Expired(r, t) THEN "expired" ELSE "invalid")
    /\ Faultless /\ UNCHANGED <<active, offered, tab>>

ShowTab(r, t) ==
    /\ Shows(r, t, "showing")
    /\ tab[r].at = "page"
    /\ tab' = [tab EXCEPT ![r].shown = TRUE]
    /\ Goes(r, t, "mark")
    /\ Faultless /\ UNCHANGED <<run, active, offered, lock>>

(* A failed activation is an error of startOutput, and ends the attempt of *)
(* the press on "show".                                                    *)
ShowFails(r, t) ==
    /\ Shows(r, t, "show") \/ Shows(r, t, "showing") \/ Shows(r, t, "mark")
    /\ IF At(r, t, "showing") /\ tab[r].at # "page" THEN Faultless ELSE Fails
    /\ run' = [run EXCEPT ![r].tabState = "prepared"]
    /\ Releases(r, t)
    /\ IF t = "main" THEN Goes(r, t, "catch") /\ UNCHANGED <<active, offered>>
       ELSE /\ Ends(r, t)
            /\ IF IsActiveHandoffRun(r) THEN active' = 0 /\ offered' = 0 ELSE UNCHANGED <<active, offered>>
    /\ UNCHANGED tab

MarkActivated(r, t) ==
    /\ At(r, t, "mark") /\ Holds(r, t)
    /\ run' = [run EXCEPT ![r].tabState = "prepared"]
    /\ IF IsActiveHandoffRun(r) /\ ready[r].policy = Policy(t)
       THEN /\ ready' = [ready EXCEPT ![r].activated = TRUE]
            /\ Ends(r, t) /\ Releases(r, t)
            /\ active' = 0 /\ offered' = 0
            /\ busy' = IF t = "main" THEN FALSE ELSE busy
       ELSE NotShown(r, t, "invalid") /\ UNCHANGED <<ready, active, offered, busy>>
    /\ UNCHANGED <<late, tab, kept, faults>>

Catch(r) ==
    /\ At(r, "main", "catch")
    /\ run' = [run EXCEPT ![r].cleaning = @ \/ Removable(r), ![r].tabState = IF Removable(r) THEN "closed" ELSE @]
    /\ \/ tab' = [tab EXCEPT ![r].at = IF Removable(r) THEN "none" ELSE @] /\ UNCHANGED <<kept, faults>>
       \/ Removable(r) /\ Fails /\ kept' = kept \cup {r} /\ UNCHANGED tab
    /\ active' = IF IsActiveHandoffRun(r) THEN 0 ELSE active
    /\ busy' = FALSE
    /\ Ends(r, "main")
    /\ UNCHANGED <<offered, lock, ready, late>>
----------------------------------------------------------------------------
(* updateHandoffActivationPolicy: asked for by a cancellation, by          *)
(* startOutput when the page has not reported, and by the press on "show". *)
Sets(t) == IF t = "policy" THEN "cancelled" ELSE "manual"
Waits(t) == IF t = "policy" THEN "wait" ELSE "manual"
ReadPolicy(r, t) ==
    /\ At(r, t, Waits(t)) /\ t \in {"policy", "main", "click"} /\ Holds(r, t)
    /\ IF Sets(t) = "manual" /\ run[r].cancelled THEN Goes(r, t, "unset") ELSE Reads(r, t, "write")
    /\ UNCHANGED <<run, active, offered, busy, lock, ready, late, tab, kept, faults>>

(* After it startOutput offers the tab, and a press goes on to show it.    *)
AfterPolicy(r, t) ==
    CASE t = "policy" -> Ends(r, t) /\ Releases(r, t) /\ UNCHANGED <<offered, busy>>
      [] t = "main" -> /\ Releases(r, t)
                       /\ IF IsActiveHandoffRun(r) THEN Ends(r, t) /\ offered' = r /\ busy' = FALSE
                          ELSE Goes(r, t, "catch") /\ UNCHANGED <<offered, busy>>
      [] t = "click" -> /\ UNCHANGED <<offered, busy>>
                        /\ IF IsActiveHandoffRun(r) /\ offered = r
                           THEN Goes(r, t, "show") /\ AsksAgain(r, t)
                           ELSE Ends(r, t) /\ Releases(r, t)

WritePolicy(r, t) ==
    /\ At(r, t, "unset") \/ At(r, t, "write")
    /\ LET latest == task[r][t].read IN
       IF At(r, t, "unset") \/ latest = NoRecord THEN UNCHANGED <<ready, late>>
       ELSE ready' = [ready EXCEPT ![r] = [latest EXCEPT !.policy = Sets(t)]] /\ late' = late \cup {r}
    /\ AfterPolicy(r, t)
    /\ UNCHANGED <<run, active, tab, kept, faults>>

(* A storage call that fails inside the lock ends the update.              *)
PolicyFails(r, t) ==
    /\ At(r, t, Waits(t)) /\ t \in {"policy", "main", "click"} /\ Holds(r, t) /\ Fails
    /\ Releases(r, t)
    /\ CASE t = "policy" -> Ends(r, t) /\ UNCHANGED <<active, offered>>
         [] t = "main" -> Goes(r, t, "catch") /\ UNCHANGED <<active, offered>>
         [] t = "click" -> /\ Ends(r, t)
                           /\ IF IsActiveHandoffRun(r) THEN active' = 0 /\ offered' = 0 ELSE UNCHANGED <<active, offered>>
    /\ UNCHANGED <<run, busy, ready, late, tab, kept>>

(* The press on "show": asked for while the tab is offered.                *)
PressShow ==
    /\ offered # 0 /\ active # 0 /\ IsActiveHandoffRun(active)
    /\ At(active, "click", "idle")
    /\ Goes(active, "click", "manual") /\ Asks(active, "click")
    /\ UNCHANGED <<run, active, offered, busy, ready, late, tab, kept, faults>>

(* cleanupProvisionalHandoffTab of a cancellation: only a blank tab goes.  *)
CleanUp(r) ==
    /\ At(r, "clean", "remove")
    /\ \/ /\ tab' = [tab EXCEPT ![r].at = IF @ = "blank" THEN "none" ELSE @]
          /\ run' = [run EXCEPT ![r].tabState = IF tab[r].at = "blank" THEN "closed" ELSE @]
          /\ UNCHANGED <<kept, faults>>
       \/ Fails /\ kept' = kept \cup {r} /\ UNCHANGED <<tab, run>>
    /\ Ends(r, "clean")
    /\ UNCHANGED <<active, offered, busy, lock, ready, late>>
----------------------------------------------------------------------------
(* The service worker.  The page reports itself, or, when it comes back    *)
(* from the login without its address, asks to be directed again; it does  *)
(* one of the two at a time.                                               *)
Unqueued(r) == \A t \in Worker : At(r, t, "idle")
PageAsks(r, t) ==
    /\ t \in Worker /\ tab[r].at = "page" /\ Unqueued(r)
    /\ t = "return" => ready[r].restores < MaxRestores
    /\ Goes(r, t, "wait") /\ Asks(r, t)
    /\ UNCHANGED <<run, active, offered, busy, ready, late, tab, kept, faults>>

Reported(r) == ready[r].policy = "auto" /\ ~ready[r].reported /\ r \notin late
(* A page that still has its session entry names its launch; one that has  *)
(* lost it is found by its tab, as long as it has never reported.          *)
Restorable(r) == ready[r].policy \in {"auto", "manual"} /\ ready[r].restores < MaxRestores
FoundByTab(r) == Restorable(r) /\ ~ready[r].reported
Served(r, t) == IF t = "report" THEN Reported(r) ELSE Restorable(r) \/ FoundByTab(r)
WorkerReads(r, t) ==
    /\ t \in Worker /\ At(r, t, "wait") /\ Holds(r, t)
    /\ IF Served(r, t)
       THEN Reads(r, t, "write") /\ UNCHANGED lock
       ELSE Ends(r, t) /\ Releases(r, t)
    /\ UNCHANGED <<run, active, offered, busy, ready, late, tab, kept, faults>>

PageReady(latest) == [latest EXCEPT !.reported = TRUE, !.activated = FALSE]
Restored(latest) == [latest EXCEPT !.restores = @ + 1]
WorkerWrites(r, t) ==
    /\ t \in Worker /\ At(r, t, "write")
    /\ LET latest == task[r][t].read IN
       ready' = [ready EXCEPT ![r] = IF t = "report" THEN PageReady(latest) ELSE Restored(latest)]
    /\ Ends(r, t) /\ Releases(r, t)
    /\ UNCHANGED <<run, active, offered, busy, late, tab, kept, faults>>

(* The service worker ends: what it was doing is gone, and its locks.      *)
WorkerEnds ==
    /\ Fails
    /\ \E r \in Launches, t \in Worker : ~At(r, t, "idle")
    /\ task' = [r \in Launches |-> [t \in Tasks |-> IF t \in Worker THEN Idle ELSE task[r][t]]]
    /\ lock' = Without(Launches \X Worker)
    /\ UNCHANGED <<run, active, offered, busy, ready, late, tab, kept>>

(* Time passes; the person closes a tab.                                   *)
Deadline(r) ==
    /\ ready[r].policy = "auto" /\ r \notin late
    /\ late' = late \cup {r}
    /\ UNCHANGED <<run, active, offered, busy, task, lock, ready, tab, kept, faults>>
CloseTab(r) ==
    /\ tab[r].at \in {"blank", "page"} /\ Fails
    /\ tab' = [tab EXCEPT ![r].at = "none"]
    /\ UNCHANGED <<run, active, offered, busy, task, lock, ready, late, kept>>

Editor(r) ==
    \/ Find(r) \/ Create(r) \/ Look(r) \/ Locked(r) \/ SetReady(r) \/ Navigate(r)
    \/ WaitForPageReady(r) \/ WaitEnds(r) \/ Catch(r) \/ CleanUp(r)
    \/ \E t \in {"main", "click"} : ReadToShow(r, t) \/ ShowTab(r, t) \/ ShowFails(r, t) \/ MarkActivated(r, t)
    \/ \E t \in {"main", "click", "policy"} : ReadPolicy(r, t) \/ WritePolicy(r, t) \/ PolicyFails(r, t)
ServiceWorker(r) == \E t \in Worker : WorkerReads(r, t) \/ WorkerWrites(r, t)
Person == Cancel \/ PressShow \/ \E a \in Actions : StartOutput(a)

Next ==
    \/ Person \/ WorkerEnds
    \/ \E r \in DOMAIN run : Editor(r) \/ ServiceWorker(r) \/ Deadline(r) \/ CloseTab(r) \/ \E t \in Worker : PageAsks(r, t)

(* Calls of the browser are answered and timers fire; nobody has to press  *)
(* a button, and no page has to report.                                    *)
Fairness ==
    /\ WF_vars(\E r \in DOMAIN run : Editor(r))
    /\ WF_vars(\E r \in DOMAIN run : ServiceWorker(r))
    /\ WF_vars(\E r \in DOMAIN run : Deadline(r))
Spec == Init /\ [][Next]_vars /\ Fairness
----------------------------------------------------------------------------
Runs == [handoff : Actions, cancelled : BOOLEAN, launched : BOOLEAN, cleaning : BOOLEAN,
         tabState : {"none", "provisional", "navigating", "prepared", "activating", "closed"}]
Records == [policy : {"none", "auto", "manual", "cancelled"}, reported : BOOLEAN, activated : BOOLEAN,
            restores : 0 .. MaxRestores]
Tabs == [at : {"none", "blank", "page"}, shown : BOOLEAN]
Early == {"find", "create", "look", "lock", "set"}
Held == {"set", "navigate", "showing", "mark", "unset", "write"}
Stages == Early \cup Held \cup {"idle", "wait", "show", "manual", "catch", "remove"}
Steps(t) ==
    {"idle"} \cup
    (CASE t = "main" -> Early \cup {"navigate", "wait", "show", "showing", "mark", "manual", "unset", "write", "catch"}
       [] t = "click" -> {"manual", "unset", "write", "show", "showing", "mark"}
       [] t = "clean" -> {"remove"}
       [] OTHER -> {"wait", "write"})

TypeOK ==
    /\ run \in Seq(Runs) /\ Generation <= MaxLaunches
    /\ active \in 0 .. Generation /\ offered \in 0 .. Generation /\ busy \in BOOLEAN
    /\ task \in [Launches -> [Tasks -> [at : Stages, read : Records]]]
    /\ DOMAIN lock \subseteq Launches \X Tasks
    /\ ready \in [Launches -> Records] /\ late \subseteq Launches
    /\ tab \in [Launches -> Tabs] /\ kept \subseteq Launches
    /\ faults \in Nat

(* Of two requests of one launch one waits for the other, and who acts     *)
(* under the lock holds it.                                                *)
LocksHold ==
    /\ \A v, w \in DOMAIN lock : v[1] = w[1] /\ v # w => v \in lock[w] \/ w \in lock[v]
    /\ \A r \in Launches, t \in Tasks : task[r][t].at \in Held => Holds(r, t)

(* What a task does with the record: nobody changes it between its read    *)
(* and its write, and a cancelled one is only ever read to be marked.      *)
RecordKnown(r) ==
    /\ \A t \in Tasks : task[r][t].at \in Steps(t) /\ (At(r, t, "write") => task[r][t].read = ready[r])
    /\ task[r]["main"].at \in Early => ready[r] = NoRecord
    /\ \A t \in {"main", "click"} : At(r, t, "write") => ready[r].policy # "cancelled"
    /\ \A t \in Worker : At(r, t, "write") => ready[r].policy \in {"auto", "manual"}
    /\ At(r, "return", "write") => ready[r].restores < MaxRestores
    /\ ready[r].policy = "cancelled" \/ ~At(r, "policy", "idle") => run[r].cancelled

(* Whoever is to remove a blank tab knows of it, and a tab is presented    *)
(* only for the active launch.                                             *)
TabKnown(r) ==
    /\ task[r]["main"].at \in {"find", "create"} => run[r].tabState = "none" /\ ~run[r].cleaning /\ tab[r].at = "none"
    /\ tab[r].at = "blank" /\ r \notin kept /\ ~At(r, "clean", "remove") =>
          /\ task[r]["main"].at \in {"look", "lock", "set", "navigate", "catch"}
          /\ ~run[r].cleaning
          /\ run[r].tabState = IF At(r, "main", "navigate") THEN "navigating" ELSE "provisional"
    /\ task[r]["main"].at \in {"wait", "show", "showing", "mark", "manual", "unset", "write"} => tab[r].at # "blank"
    /\ ~At(r, "click", "idle") \/ offered = r => At(r, "main", "idle") /\ tab[r].at # "blank"
    /\ At(r, "main", "showing") \/ At(r, "click", "showing") => IsActiveHandoffRun(r) /\ run[r].tabState = "activating"

Untouched(r) == task[r] = [t \in Tasks |-> Idle] /\ ready[r] = NoRecord /\ tab[r] = NoTab

(* A tab is never shown for a launch that was cancelled, or given up for a *)
(* newer one, however close the cancellation and the page's report come    *)
(* (editor.js activateHandoffTab, cancelHandoffRun).                       *)
ShownIfActive(r) == tab[r].shown # tab'[r].shown => ~run[r].cancelled /\ active = r
CancelledStaysHidden == [][\A r \in Launches : ShownIfActive(r)]_vars

(* A record that says cancelled says so for good: no copy read before is   *)
(* written back over it by the page's report, its return from the login or *)
(* the update to manual (editor.js and service-worker.js, ready lock).     *)
StaysCancelled(r) == ready[r].policy = "cancelled" => ready'[r].policy = "cancelled"
CancelIsNotUndone == [][\A r \in Launches : StaysCancelled(r)]_vars

(* When nothing is under way any more, every blank tab that a launch made  *)
(* is gone, unless the browser refused to remove it.                       *)
Quiet == ~busy /\ \A r \in Launches, t \in Tasks : At(r, t, "idle")
BlankTabsAreClosed ==
    Quiet => \A r \in Launches : tab[r].at = "blank" => r \in kept

(* Every launch comes to an end, with its tab shown, offered or given up,  *)
(* so that the output can be started again.                                *)
LaunchEnds == busy ~> ~busy

(* No launch leaves something behind.                                      *)
Consistent ==
    /\ TypeOK /\ LocksHold /\ BlankTabsAreClosed
    /\ active # 0 /\ offered # 0 => active = offered
    /\ \A r \in Launches : IF r \in DOMAIN run THEN RecordKnown(r) /\ TabKnown(r) ELSE Untouched(r)

(* A cancellation is final, for the tab and for the record.                *)
CancelHolds == CancelledStaysHidden /\ CancelIsNotUndone
=============================================================================
