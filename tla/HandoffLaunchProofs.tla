------------------------- MODULE HandoffLaunchProofs -------------------------
(***************************************************************************)
(* A launch leaves no blank tab behind, a tab is shown only for the launch *)
(* that is active, and a cancelled record stays cancelled, for any number  *)
(* of launches and outputs.                                                *)
(***************************************************************************)
EXTENDS HandoffLaunch, TLAPS

(* The lock, as a value: who holds it, and that requests are in an order.  *)
Granted(l, w) == w \in DOMAIN l /\ l[w] = {}
Ordered(l) == \A v, w \in DOMAIN l : v[1] = w[1] /\ v # w => v \in l[w] \/ w \in l[v]
Requests == Launches \X Tasks

(* What a task may do to the lock: the holders other than it hold on.      *)
LockStep(w) ==
    /\ DOMAIN lock' \subseteq DOMAIN lock \cup {w}
    /\ Ordered(lock) => Ordered(lock')
    /\ \A v : v # w /\ Granted(lock, v) => Granted(lock', v)

(* A request comes after all that are there.                               *)
LEMMA AskSteps ==
    ASSUME NEW r, NEW t, Asks(r, t)
    PROVE  LockStep(<<r, t>>)
<1>1. DOMAIN lock' = DOMAIN lock \cup {<<r, t>>} BY DEF Asks
<1>2. \A w \in DOMAIN lock' : lock'[w] = IF w = <<r, t>> THEN Queue(r) ELSE lock[w] BY DEF Asks
<1>3. ASSUME NEW v \in DOMAIN lock', NEW w \in DOMAIN lock', v[1] = w[1], v # w, Ordered(lock)
      PROVE  v \in lock'[w] \/ w \in lock'[v]
  <2>1. CASE w = <<r, t>>
    <3>1. v \in DOMAIN lock /\ v[1] = r BY <2>1, <1>1, <1>3
    <3>2. v \in Queue(r) BY <3>1 DEF Queue
    <3>3. QED BY <3>2, <2>1, <1>2
  <2>2. CASE v = <<r, t>>
    <3>1. w \in DOMAIN lock /\ w[1] = r BY <2>2, <1>1, <1>3
    <3>2. w \in Queue(r) BY <3>1 DEF Queue
    <3>3. QED BY <3>2, <2>2, <1>2
  <2>3. CASE w # <<r, t>> /\ v # <<r, t>>
    BY <2>3, <1>1, <1>2, <1>3 DEF Ordered
  <2>4. QED BY <2>1, <2>2, <2>3
<1>4. Ordered(lock) => Ordered(lock') BY <1>3 DEF Ordered
<1>5. \A v : v # <<r, t>> /\ Granted(lock, v) => Granted(lock', v)
  BY <1>1, <1>2 DEF Granted
<1>6. QED BY <1>1, <1>4, <1>5 DEF LockStep

(* A holder that leaves lets the others be.                                *)
LEMMA ReleaseSteps ==
    ASSUME NEW r, NEW t, Releases(r, t)
    PROVE  LockStep(<<r, t>>)
<1>1. DOMAIN lock' = DOMAIN lock \ {<<r, t>>} BY DEF Releases, Without
<1>2. \A w \in DOMAIN lock' : lock'[w] = lock[w] \ {<<r, t>>} BY DEF Releases, Without
<1>3. Ordered(lock) => Ordered(lock') BY <1>1, <1>2 DEF Ordered
<1>4. \A v : v # <<r, t>> /\ Granted(lock, v) => Granted(lock', v)
  BY <1>1, <1>2 DEF Granted
<1>5. QED BY <1>1, <1>3, <1>4 DEF LockStep

(* Leaving and asking again is both in one.                                *)
LEMMA AskAgainSteps ==
    ASSUME NEW r, NEW t, AsksAgain(r, t)
    PROVE  LockStep(<<r, t>>)
<1>1. DOMAIN lock' = DOMAIN lock BY DEF AsksAgain
<1>2. \A w \in DOMAIN lock' : lock'[w] = (IF w = <<r, t>> THEN Queue(r) ELSE lock[w]) \ {<<r, t>>} BY DEF AsksAgain
<1>3. ASSUME NEW v \in DOMAIN lock', NEW w \in DOMAIN lock', v[1] = w[1], v # w, Ordered(lock)
      PROVE  v \in lock'[w] \/ w \in lock'[v]
  <2>1. CASE w = <<r, t>>
    <3>1. v \in DOMAIN lock /\ v[1] = r BY <2>1, <1>1, <1>3
    <3>2. v \in Queue(r) BY <3>1 DEF Queue
    <3>3. QED BY <3>2, <2>1, <1>2, <1>3
  <2>2. CASE v = <<r, t>>
    <3>1. w \in DOMAIN lock /\ w[1] = r BY <2>2, <1>1, <1>3
    <3>2. w \in Queue(r) BY <3>1 DEF Queue
    <3>3. QED BY <3>2, <2>2, <1>2, <1>3
  <2>3. CASE w # <<r, t>> /\ v # <<r, t>>
    BY <2>3, <1>1, <1>2, <1>3 DEF Ordered
  <2>4. QED BY <2>1, <2>2, <2>3
<1>4. Ordered(lock) => Ordered(lock') BY <1>3 DEF Ordered
<1>5. \A v : v # <<r, t>> /\ Granted(lock, v) => Granted(lock', v)
  BY <1>1, <1>2 DEF Granted
<1>6. QED BY <1>1, <1>4, <1>5 DEF LockStep

LEMMA NoLockStep ==
    ASSUME NEW w, UNCHANGED lock
    PROVE  LockStep(w)
BY DEF LockStep, Ordered, Granted

(* Who acts under the lock does so alone.                                  *)
LEMMA Alone ==
    ASSUME LocksHold, NEW r \in Launches, NEW t \in Tasks, NEW u \in Tasks,
           Holds(r, t), task[r][u].at \in Held
    PROVE  u = t
BY DEF LocksHold, Holds
----------------------------------------------------------------------------
(* The types: one launch, one task, one record, one tab at a time.         *)
TaskStates == [at : Stages, read : Records]

LEMMA Constants == NoRecord \in Records /\ Idle \in TaskStates /\ NoTab \in Tabs /\ 0 \in 0 .. MaxRestores
<1>1. MaxRestores \in Nat BY HandoffLaunchAssumption
<1>2. 0 \in 0 .. MaxRestores BY <1>1
<1>3. NoRecord \in Records BY <1>2 DEF NoRecord, Records
<1>4. Idle \in TaskStates BY <1>3 DEF Idle, TaskStates, Stages
<1>5. QED BY <1>2, <1>3, <1>4 DEF NoTab, Tabs

LEMMA RunLaunches ==
    ASSUME TypeOK
    PROVE  /\ Generation \in Nat /\ DOMAIN run = 1 .. Generation /\ DOMAIN run \subseteq Launches
           /\ \A r \in DOMAIN run : r \in Nat /\ r # 0 /\ run[r] \in Runs
BY HandoffLaunchAssumption DEF TypeOK, Generation, Launches

LEMMA RunChange ==
    ASSUME TypeOK, NEW r \in DOMAIN run, NEW new \in Runs, run' = [run EXCEPT ![r] = new]
    PROVE  /\ run' \in Seq(Runs) /\ Generation' = Generation /\ DOMAIN run' = DOMAIN run
           /\ run'[r] = new
           /\ \A q \in DOMAIN run : q # r => run'[q] = run[q]
BY RunLaunches DEF TypeOK, Generation

(* What a step of one task leaves alone among the tasks.                   *)
TaskStep(r, t) ==
    /\ task' \in [Launches -> [Tasks -> TaskStates]]
    /\ \A q \in Launches : q # r => task'[q] = task[q]
    /\ \A u \in Tasks : u # t => task'[r][u] = task[r][u]

LEMMA TaskChange ==
    ASSUME TypeOK, NEW r \in Launches, NEW t \in Tasks, NEW new \in TaskStates, task' = [task EXCEPT ![r][t] = new]
    PROVE  TaskStep(r, t) /\ task'[r][t] = new
<1>1. task \in [Launches -> [Tasks -> TaskStates]] BY DEF TypeOK, TaskStates
<1>2. QED BY <1>1 DEF TaskStep

LEMMA TaskTypes ==
    ASSUME TypeOK, NEW r \in Launches, NEW t \in Tasks
    PROVE  task[r][t] \in TaskStates /\ task[r][t].at \in Stages /\ task[r][t].read \in Records
BY DEF TypeOK, TaskStates

LEMMA GoesStep ==
    ASSUME TypeOK, NEW r \in Launches, NEW t \in Tasks, NEW at \in Stages, Goes(r, t, at)
    PROVE  TaskStep(r, t) /\ task'[r][t].at = at /\ task'[r][t].read = task[r][t].read
<1> DEFINE new == [task[r][t] EXCEPT !.at = at]
<1>1. new \in TaskStates /\ new.at = at /\ new.read = task[r][t].read BY TaskTypes DEF TaskStates
<1>2. task' = [task EXCEPT ![r][t] = new] BY DEF Goes
<1> HIDE DEF new
<1>3. QED BY <1>1, <1>2, TaskChange

LEMMA EndsStep ==
    ASSUME TypeOK, NEW r \in Launches, NEW t \in Tasks, Ends(r, t)
    PROVE  TaskStep(r, t) /\ task'[r][t] = Idle /\ task'[r][t].at = "idle"
<1>1. task' = [task EXCEPT ![r][t] = Idle] BY DEF Ends
<1>2. Idle \in TaskStates BY Constants
<1>3. TaskStep(r, t) /\ task'[r][t] = Idle BY <1>1, <1>2, TaskChange
<1>4. QED BY <1>3 DEF Idle

LEMMA ReadsStep ==
    ASSUME TypeOK, NEW r \in Launches, NEW t \in Tasks, NEW at \in Stages, Reads(r, t, at)
    PROVE  TaskStep(r, t) /\ task'[r][t].at = at /\ task'[r][t].read = ready[r]
<1> DEFINE new == [at |-> at, read |-> ready[r]]
<1>1. new \in TaskStates /\ new.at = at /\ new.read = ready[r] BY DEF TaskStates, TypeOK
<1>2. task' = [task EXCEPT ![r][t] = new] BY DEF Reads
<1> HIDE DEF new
<1>3. QED BY <1>1, <1>2, TaskChange

(* The locks after a step of one task, or of several that only ask.        *)
LEMMA LocksKept ==
    ASSUME LocksHold, NEW w, LockStep(w),
           \A q \in Launches, u \in Tasks : task'[q][u].at \in Held =>
               \/ task[q][u].at \in Held /\ <<q, u>> # w
               \/ Holds(q, u)'
    PROVE  LocksHold'
<1>1. Ordered(lock') BY DEF LocksHold, LockStep, Ordered
<1>2. ASSUME NEW q \in Launches, NEW u \in Tasks, task'[q][u].at \in Held
      PROVE  Holds(q, u)'
  BY <1>2 DEF LocksHold, LockStep, Granted, Holds
<1>3. QED BY <1>1, <1>2 DEF LocksHold, Ordered

(* A step of a task of one launch leaves the other launches as they are.   *)
Frame(r) ==
    /\ DOMAIN run' = DOMAIN run /\ Generation' = Generation
    /\ \A q \in DOMAIN run : q # r => run'[q] = run[q]
    /\ \A q \in Launches : q # r => /\ ready'[q] = ready[q] /\ tab'[q] = tab[q]
                                    /\ q \in kept => q \in kept'
    /\ active' = active \/ (active' = 0 /\ (active = r \/ IsActiveHandoffRun(r)))
    /\ offered' \in {offered, 0, r}

LEMMA OthersKept ==
    ASSUME TypeOK, NEW r \in DOMAIN run, NEW q \in DOMAIN run, q # r,
           Frame(r), task'[q] = task[q], RecordKnown(q), TabKnown(q)
    PROVE  RecordKnown(q)' /\ TabKnown(q)'
<1>1. q \in Launches /\ r # 0 /\ q # 0 BY RunLaunches
<1>2. run'[q] = run[q] /\ ready'[q] = ready[q] /\ tab'[q] = tab[q] /\ (q \in kept => q \in kept')
      /\ (offered' = q => offered = q) /\ (IsActiveHandoffRun(q) => IsActiveHandoffRun(q)')
  BY <1>1 DEF Frame, IsActiveHandoffRun
<1>3. RecordKnown(q)' BY <1>2 DEF RecordKnown, At
<1>4. TabKnown(q)' BY <1>2 DEF TabKnown, At
<1>5. QED BY <1>3, <1>4

LEMMA UntouchedKept ==
    ASSUME TypeOK, NEW r \in DOMAIN run, NEW q \in Launches, q \notin DOMAIN run,
           Frame(r), task'[q] = task[q], Untouched(q)
    PROVE  Untouched(q)'
BY DEF Frame, Untouched

Known == \A r \in Launches : IF r \in DOMAIN run THEN RecordKnown(r) /\ TabKnown(r) ELSE Untouched(r)

LEMMA TabsAreClosed ==
    ASSUME TypeOK, Known
    PROVE  BlankTabsAreClosed
<1> SUFFICES ASSUME Quiet, NEW r \in Launches, tab[r].at = "blank", r \notin kept
             PROVE  FALSE
  BY DEF BlankTabsAreClosed
<1>1. CASE r \in DOMAIN run
  <2>1. TabKnown(r) BY <1>1 DEF Known
  <2>2. task[r]["main"].at = "idle" /\ task[r]["clean"].at = "idle" BY DEF Quiet, At, Tasks
  <2>3. QED BY <2>1, <2>2 DEF TabKnown, At
<1>2. CASE r \notin DOMAIN run
  BY <1>2 DEF Known, Untouched, NoTab
<1>3. QED BY <1>1, <1>2

LEMMA TabsAreClosedNext == TypeOK' /\ Known' => BlankTabsAreClosed'
<1>1. TypeOK /\ Known => BlankTabsAreClosed BY TabsAreClosed
<1>2. QED BY <1>1, PTL

LEMMA OneStep ==
    ASSUME Consistent, NEW r \in DOMAIN run, NEW t \in Tasks,
           TypeOK', TaskStep(r, t), LockStep(<<r, t>>), Frame(r),
           task'[r][t].at \in Held => Holds(r, t)',
           active' # 0 /\ offered' # 0 => active' = offered',
           RecordKnown(r)', TabKnown(r)'
    PROVE  Consistent'
<1>1. r \in Launches BY RunLaunches DEF Consistent
<1>2. LocksHold'
  <2>1. ASSUME NEW q \in Launches, NEW u \in Tasks, task'[q][u].at \in Held
        PROVE  (task[q][u].at \in Held /\ <<q, u>> # <<r, t>>) \/ Holds(q, u)'
    BY <2>1 DEF TaskStep
  <2>2. QED BY <2>1, LocksKept DEF Consistent
<1>3. ASSUME NEW q \in Launches
      PROVE  IF q \in DOMAIN run' THEN RecordKnown(q)' /\ TabKnown(q)' ELSE Untouched(q)'
  <2>1. DOMAIN run' = DOMAIN run BY DEF Frame
  <2>2. CASE q = r BY <2>2, <2>1
  <2>3. CASE q # r /\ q \in DOMAIN run
    <3>1. task'[q] = task[q] /\ RecordKnown(q) /\ TabKnown(q) BY <2>3 DEF TaskStep, Consistent
    <3>2. QED BY <3>1, <2>3, <2>1, OthersKept DEF Consistent
  <2>4. CASE q \notin DOMAIN run
    <3>1. task'[q] = task[q] /\ Untouched(q) BY <2>4 DEF TaskStep, Consistent
    <3>2. QED BY <3>1, <2>4, <2>1, UntouchedKept DEF Consistent
  <2>5. QED BY <2>2, <2>3, <2>4
<1>4. Known' BY <1>3 DEF Known
<1>5. BlankTabsAreClosed' BY <1>4, TabsAreClosedNext
<1>6. QED BY <1>2, <1>4, <1>5 DEF Consistent, Known
----------------------------------------------------------------------------
(* One lemma per action: the invariant is kept.                            *)
LEMMA Facts ==
    ASSUME Consistent, NEW r \in DOMAIN run
    PROVE  /\ r \in Launches /\ r \in Nat /\ r # 0 /\ TypeOK /\ LocksHold /\ RecordKnown(r) /\ TabKnown(r)
           /\ run[r] \in Runs /\ ready[r] \in Records /\ tab[r] \in Tabs
           /\ \A t \in Tasks : task[r][t].at \in Steps(t) /\ task[r][t] \in TaskStates
<1>1. TypeOK /\ LocksHold BY DEF Consistent
<1>2. r \in Launches /\ r \in Nat /\ r # 0 /\ run[r] \in Runs BY <1>1, RunLaunches
<1>3. RecordKnown(r) /\ TabKnown(r) BY <1>2 DEF Consistent
<1>4. ready[r] \in Records /\ tab[r] \in Tabs BY <1>1, <1>2 DEF TypeOK
<1>5. \A t \in Tasks : task[r][t].at \in Steps(t) BY <1>3 DEF RecordKnown
<1>6. \A t \in Tasks : task[r][t] \in TaskStates BY <1>1, <1>2, TaskTypes
<1>7. QED BY <1>1, <1>2, <1>3, <1>4, <1>5, <1>6

LEMMA FindKeeps == ASSUME Consistent, NEW r \in DOMAIN run, Find(r) PROVE Consistent'
<1> USE Facts
<1>1. PICK at \in {"create", "catch"} : Goes(r, "main", at)
  BY DEF Find, Continues
<1>2. UNCHANGED <<run, active, offered, busy, lock, ready, late, tab, kept>> /\ faults' \in Nat
  BY DEF Find, Main, Fails, Faultless, TypeOK
<1>3. "main" \in Tasks /\ at \in Stages BY DEF Tasks, Stages, Early
<1>4. TaskStep(r, "main") /\ task'[r]["main"].at = at BY <1>1, <1>3, GoesStep
<1>5. TypeOK' BY <1>2, <1>4 DEF TypeOK, TaskStep, TaskStates, Generation
<1>6. LockStep(<<r, "main">>) BY <1>2, NoLockStep
<1>7. Frame(r) BY <1>2 DEF Frame, Generation
<1>8. \A u \in Tasks : u # "main" => task'[r][u] = task[r][u] BY <1>4 DEF TaskStep
<1>9. at \in Steps("main") /\ at \notin Held BY DEF Steps, Held, Early
<1>10. RecordKnown(r)'
  BY <1>2, <1>3, <1>4, <1>8, <1>9 DEF RecordKnown, At, Find, Main, Early, Held, Worker, Tasks
<1>11. TabKnown(r)'
  BY <1>2, <1>3, <1>4, <1>8 DEF TabKnown, At, Find, Main, IsActiveHandoffRun, Generation, Tasks
<1>12. QED BY <1>2, <1>3, <1>4, <1>5, <1>6, <1>7, <1>9, <1>10, <1>11, OneStep DEF Consistent
TabStates == {"none", "provisional", "navigating", "prepared", "activating", "closed"}

LEMMA TabStateChange ==
    ASSUME TypeOK, NEW r \in DOMAIN run, NEW s \in TabStates, run' = [run EXCEPT ![r].tabState = s]
    PROVE  /\ run' \in Seq(Runs) /\ Generation' = Generation /\ DOMAIN run' = DOMAIN run
           /\ run'[r].tabState = s /\ run'[r].cancelled = run[r].cancelled
           /\ run'[r].cleaning = run[r].cleaning /\ run'[r].handoff = run[r].handoff
           /\ \A q \in DOMAIN run : q # r => run'[q] = run[q]
<1> DEFINE new == [run[r] EXCEPT !.tabState = s]
<1>1. new \in Runs /\ new.tabState = s /\ new.cancelled = run[r].cancelled
      /\ new.cleaning = run[r].cleaning /\ new.handoff = run[r].handoff
  BY RunLaunches DEF Runs, TabStates
<1>2. run' = [run EXCEPT ![r] = new] OBVIOUS
<1> HIDE DEF new
<1>3. QED BY <1>1, <1>2, RunChange

LEMMA TabChange ==
    ASSUME TypeOK, NEW r \in Launches, NEW at \in {"none", "blank", "page"}, tab' = [tab EXCEPT ![r].at = at]
    PROVE  /\ tab' \in [Launches -> Tabs] /\ tab'[r].at = at
           /\ \A q \in Launches : q # r => tab'[q] = tab[q]
<1> DEFINE new == [tab[r] EXCEPT !.at = at]
<1>1. new \in Tabs /\ new.at = at BY DEF TypeOK, Tabs
<1>2. tab' = [tab EXCEPT ![r] = new] OBVIOUS
<1> HIDE DEF new
<1>3. QED BY <1>1, <1>2 DEF TypeOK

LEMMA CreateKeeps == ASSUME Consistent, NEW r \in DOMAIN run, Create(r) PROVE Consistent'
<1> USE Facts
<1>1. UNCHANGED <<active, offered, busy, lock, ready, late, kept>> /\ faults' \in Nat /\ At(r, "main", "create")
  BY DEF Create, Main, Fails, Faultless, TypeOK
<1>2. "main" \in Tasks BY DEF Tasks
<1>3. LockStep(<<r, "main">>) BY <1>1, NoLockStep
<1>4. run[r].tabState = "none" /\ ~run[r].cleaning BY <1>1 DEF TabKnown, At
<1>5. CASE tab' = [tab EXCEPT ![r].at = "blank"] /\ run' = [run EXCEPT ![r].tabState = "provisional"] /\ Continues(r, "look")
  <2>1. tab' \in [Launches -> Tabs] /\ tab'[r].at = "blank" /\ \A q \in Launches : q # r => tab'[q] = tab[q]
    BY <1>5, TabChange
  <2>2. /\ run' \in Seq(Runs) /\ Generation' = Generation /\ DOMAIN run' = DOMAIN run
        /\ run'[r].tabState = "provisional" /\ run'[r].cancelled = run[r].cancelled
        /\ run'[r].cleaning = run[r].cleaning
        /\ \A q \in DOMAIN run : q # r => run'[q] = run[q]
    BY <1>5, TabStateChange DEF TabStates
  <2>3. PICK at \in {"look", "catch"} : Goes(r, "main", at) BY <1>5 DEF Continues
  <2>4. TaskStep(r, "main") /\ task'[r]["main"].at = at BY <2>3, <1>2, GoesStep DEF Stages, Early
  <2>5. TypeOK' BY <1>1, <2>1, <2>2, <2>4 DEF TypeOK, TaskStep, TaskStates
  <2>6. Frame(r) BY <1>1, <2>1, <2>2 DEF Frame
  <2>7. \A u \in Tasks : u # "main" => task'[r][u] = task[r][u] BY <2>4 DEF TaskStep
  <2>8. RecordKnown(r)'
    BY <1>1, <1>2, <2>2, <2>4, <2>7 DEF RecordKnown, At, Early, Held, Worker, Tasks, Steps
  <2>9. TabKnown(r)'
    BY <1>1, <1>2, <1>4, <2>1, <2>2, <2>4, <2>7 DEF TabKnown, At, IsActiveHandoffRun, Tasks
  <2>10. QED BY <1>1, <1>2, <1>3, <2>4, <2>5, <2>6, <2>8, <2>9, OneStep DEF Consistent, Held
<1>6. CASE UNCHANGED <<tab, run>> /\ Goes(r, "main", "catch")
  <2>1. TaskStep(r, "main") /\ task'[r]["main"].at = "catch" BY <1>6, <1>2, GoesStep DEF Stages
  <2>2. TypeOK' BY <1>1, <1>6, <2>1 DEF TypeOK, TaskStep, TaskStates, Generation
  <2>3. Frame(r) BY <1>1, <1>6 DEF Frame, Generation
  <2>4. \A u \in Tasks : u # "main" => task'[r][u] = task[r][u] BY <2>1 DEF TaskStep
  <2>5. RecordKnown(r)'
    BY <1>1, <1>2, <1>6, <2>1, <2>4 DEF RecordKnown, At, Early, Held, Worker, Tasks, Steps
  <2>6. TabKnown(r)'
    BY <1>1, <1>2, <1>4, <1>6, <2>1, <2>4 DEF TabKnown, At, IsActiveHandoffRun, Generation, Tasks
  <2>7. QED BY <1>1, <1>2, <1>3, <2>1, <2>2, <2>3, <2>5, <2>6, OneStep DEF Consistent, Held
<1>7. QED BY <1>5, <1>6 DEF Create
LEMMA LaunchedChange ==
    ASSUME TypeOK, NEW r \in DOMAIN run, run' = [run EXCEPT ![r].launched = TRUE]
    PROVE  /\ run' \in Seq(Runs) /\ Generation' = Generation /\ DOMAIN run' = DOMAIN run
           /\ run'[r].tabState = run[r].tabState /\ run'[r].cancelled = run[r].cancelled
           /\ run'[r].cleaning = run[r].cleaning
           /\ \A q \in DOMAIN run : q # r => run'[q] = run[q]
<1> DEFINE new == [run[r] EXCEPT !.launched = TRUE]
<1>1. new \in Runs /\ new.tabState = run[r].tabState /\ new.cancelled = run[r].cancelled
      /\ new.cleaning = run[r].cleaning
  BY RunLaunches DEF Runs
<1>2. run' = [run EXCEPT ![r] = new] OBVIOUS
<1> HIDE DEF new
<1>3. QED BY <1>1, <1>2, RunChange

(* The domain of the lock stays among the requests.                        *)
LEMMA LockDomain ==
    ASSUME TypeOK, NEW r \in Launches, NEW t \in Tasks, LockStep(<<r, t>>)
    PROVE  DOMAIN lock' \subseteq Launches \X Tasks
BY DEF TypeOK, LockStep

LEMMA LookKeeps == ASSUME Consistent, NEW r \in DOMAIN run, Look(r) PROVE Consistent'
<1> USE Facts
<1>1. UNCHANGED <<active, offered, busy, ready, late, tab, kept>> /\ faults' \in Nat /\ At(r, "main", "look")
  BY DEF Look, Main, Fails, Faultless, TypeOK
<1>2. "main" \in Tasks BY DEF Tasks
<1>3. /\ run' \in Seq(Runs) /\ Generation' = Generation /\ DOMAIN run' = DOMAIN run
      /\ run'[r].tabState = run[r].tabState /\ run'[r].cancelled = run[r].cancelled
      /\ run'[r].cleaning = run[r].cleaning
      /\ \A q \in DOMAIN run : q # r => run'[q] = run[q]
  <2>1. CASE run' = run BY <2>1 DEF TypeOK, Generation
  <2>2. CASE run' = [run EXCEPT ![r].launched = TRUE] BY <2>2, LaunchedChange
  <2>3. QED BY <2>1, <2>2 DEF Look
<1>4. LockStep(<<r, "main">>)
  <2>1. Asks(r, "main") \/ UNCHANGED lock BY DEF Look
  <2>2. QED BY <2>1, AskSteps, NoLockStep
<1>5. PICK at \in {"lock", "catch"} : Goes(r, "main", at) BY DEF Look, Continues
<1>6. TaskStep(r, "main") /\ task'[r]["main"].at = at BY <1>5, <1>2, GoesStep DEF Stages, Early
<1>7. TypeOK' BY <1>1, <1>2, <1>3, <1>4, <1>6, LockDomain DEF TypeOK, TaskStep, TaskStates
<1>8. Frame(r) BY <1>1, <1>3 DEF Frame
<1>9. \A u \in Tasks : u # "main" => task'[r][u] = task[r][u] BY <1>6 DEF TaskStep
<1>10. RecordKnown(r)'
  BY <1>1, <1>2, <1>3, <1>6, <1>9 DEF RecordKnown, At, Early, Held, Worker, Tasks, Steps
<1>11. TabKnown(r)'
  BY <1>1, <1>2, <1>3, <1>6, <1>9 DEF TabKnown, At, IsActiveHandoffRun, Tasks
<1>12. QED BY <1>1, <1>2, <1>4, <1>6, <1>7, <1>8, <1>10, <1>11, OneStep DEF Consistent, Held

LEMMA LockedKeeps == ASSUME Consistent, NEW r \in DOMAIN run, Locked(r) PROVE Consistent'
<1> USE Facts
<1>1. UNCHANGED <<run, active, offered, busy, ready, late, tab, kept, faults>> /\ At(r, "main", "lock")
  BY DEF Locked, Main, Faultless
<1>2. "main" \in Tasks BY DEF Tasks
<1>3. LockStep(<<r, "main">>)
  <2>1. Releases(r, "main") \/ UNCHANGED lock BY DEF Locked
  <2>2. QED BY <2>1, ReleaseSteps, NoLockStep
<1>4. PICK at \in {"set", "catch"} : Goes(r, "main", at) /\ (at = "set" => UNCHANGED lock)
  BY DEF Locked, Continues
<1>5. TaskStep(r, "main") /\ task'[r]["main"].at = at BY <1>4, <1>2, GoesStep DEF Stages, Early
<1>6. TypeOK' BY <1>1, <1>2, <1>3, <1>5, LockDomain DEF TypeOK, TaskStep, TaskStates, Generation
<1>7. Frame(r) BY <1>1 DEF Frame, Generation
<1>8. \A u \in Tasks : u # "main" => task'[r][u] = task[r][u] BY <1>5 DEF TaskStep
<1>9. RecordKnown(r)'
  BY <1>1, <1>2, <1>5, <1>8 DEF RecordKnown, At, Early, Held, Worker, Tasks, Steps
<1>10. TabKnown(r)'
  BY <1>1, <1>2, <1>5, <1>8 DEF TabKnown, At, IsActiveHandoffRun, Generation, Tasks
<1>11. at \in Held => Holds(r, "main")'
  BY <1>4 DEF Held, Locked, Holds
<1>12. QED BY <1>1, <1>2, <1>3, <1>5, <1>6, <1>7, <1>9, <1>10, <1>11, OneStep DEF Consistent

(* The new record of a launch.                                             *)
LEMMA RecordChange ==
    ASSUME TypeOK, NEW r \in Launches, NEW new \in Records, ready' = [ready EXCEPT ![r] = new]
    PROVE  /\ ready' \in [Launches -> Records] /\ ready'[r] = new
           /\ \A q \in Launches : q # r => ready'[q] = ready[q]
BY DEF TypeOK

LEMMA SetReadyKeeps == ASSUME Consistent, NEW r \in DOMAIN run, SetReady(r) PROVE Consistent'
<1> USE Facts
<1>1. UNCHANGED <<active, offered, busy, late, tab, kept>> /\ faults' \in Nat /\ At(r, "main", "set")
  BY DEF SetReady, Main, Fails, Faultless, TypeOK
<1>2. "main" \in Tasks BY DEF Tasks
<1>3. LockStep(<<r, "main">>)
  <2>1. Releases(r, "main") \/ UNCHANGED lock BY DEF SetReady
  <2>2. QED BY <2>1, ReleaseSteps, NoLockStep
<1>4. Holds(r, "main") BY <1>1, <1>2 DEF LocksHold, At, Held
<1>5. ready[r] = NoRecord BY <1>1 DEF RecordKnown, At, Early
<1>6. \A u \in Tasks : u # "main" => task[r][u].at \notin Held BY <1>2, <1>4, Alone
<1>7. PICK at \in {"navigate", "catch"} :
          /\ Goes(r, "main", at)
          /\ at = "navigate" => UNCHANGED lock /\ run' = [run EXCEPT ![r].tabState = "navigating"]
          /\ at = "catch" => UNCHANGED run
  BY DEF SetReady, Continues
<1>8. TaskStep(r, "main") /\ task'[r]["main"].at = at BY <1>7, <1>2, GoesStep DEF Stages, Held
<1>9. /\ run' \in Seq(Runs) /\ Generation' = Generation /\ DOMAIN run' = DOMAIN run
      /\ run'[r].tabState = (IF at = "navigate" THEN "navigating" ELSE run[r].tabState)
      /\ run'[r].cancelled = run[r].cancelled
      /\ run'[r].cleaning = run[r].cleaning
      /\ \A q \in DOMAIN run : q # r => run'[q] = run[q]
  <2>1. CASE at = "catch" BY <2>1, <1>7 DEF TypeOK, Generation
  <2>2. CASE at = "navigate" BY <2>2, <1>7, TabStateChange DEF TabStates
  <2>3. QED BY <2>1, <2>2
<1>10. /\ ready' \in [Launches -> Records] /\ \A q \in Launches : q # r => ready'[q] = ready[q]
       /\ ready'[r].policy \in {"none", "auto"}
  <2>1. CASE UNCHANGED ready BY <2>1, <1>5 DEF TypeOK, NoRecord
  <2>2. CASE ready' = [ready EXCEPT ![r] = [NoRecord EXCEPT !.policy = "auto"]]
    <3> DEFINE new == [NoRecord EXCEPT !.policy = "auto"]
    <3>1. new \in Records /\ new.policy = "auto" BY Constants DEF NoRecord, Records
    <3> HIDE DEF new
    <3>2. ready' = [ready EXCEPT ![r] = new] BY <2>2 DEF new
    <3>3. QED BY <3>1, <3>2, RecordChange
  <2>3. QED BY <2>1, <2>2 DEF SetReady
<1>11. TypeOK' BY <1>1, <1>2, <1>3, <1>8, <1>9, <1>10, LockDomain DEF TypeOK, TaskStep, TaskStates
<1>12. Frame(r) BY <1>1, <1>9, <1>10 DEF Frame
<1>13. \A u \in Tasks : u # "main" => task'[r][u] = task[r][u] BY <1>8 DEF TaskStep
<1>14. RecordKnown(r)'
  <2>1. \A t \in Tasks : task'[r][t].at \in Steps(t) /\ task'[r][t].at # "write"
    BY <1>2, <1>6, <1>8, <1>13 DEF Steps, Held, Tasks
  <2>2. QED BY <1>1, <1>2, <1>8, <1>9, <1>10, <1>13, <2>1 DEF RecordKnown, At, Early, Worker, Tasks
<1>15. TabKnown(r)'
  BY <1>1, <1>2, <1>8, <1>9, <1>13 DEF TabKnown, At, IsActiveHandoffRun, Tasks
<1>16. at \in Held => Holds(r, "main")'
  BY <1>4, <1>7 DEF Held, Holds
<1>17. QED BY <1>1, <1>2, <1>3, <1>8, <1>11, <1>12, <1>14, <1>15, <1>16, OneStep DEF Consistent
LEMMA NavigateKeeps == ASSUME Consistent, NEW r \in DOMAIN run, Navigate(r) PROVE Consistent'
<1> USE Facts
<1>1. UNCHANGED <<active, offered, busy, ready, late, kept>> /\ faults' \in Nat /\ At(r, "main", "navigate")
  BY DEF Navigate, Main, Fails, Faultless, TypeOK
<1>2. "main" \in Tasks BY DEF Tasks
<1>3. LockStep(<<r, "main">>) BY ReleaseSteps DEF Navigate
<1>4. At(r, "click", "idle") /\ offered # r BY <1>1, <1>2 DEF TabKnown, At
<1>5. CASE /\ tab' = [tab EXCEPT ![r].at = "page"] /\ run' = [run EXCEPT ![r].tabState = "prepared"]
           /\ Continues(r, "wait")
  <2>1. PICK at \in {"wait", "catch"} : Goes(r, "main", at) BY <1>5 DEF Continues
  <2>2. TaskStep(r, "main") /\ task'[r]["main"].at = at BY <2>1, <1>2, GoesStep DEF Stages
  <2>3. /\ run' \in Seq(Runs) /\ Generation' = Generation /\ DOMAIN run' = DOMAIN run
        /\ run'[r].cancelled = run[r].cancelled
        /\ \A q \in DOMAIN run : q # r => run'[q] = run[q]
    BY <1>5, TabStateChange DEF TabStates
  <2>4. tab' \in [Launches -> Tabs] /\ tab'[r].at = "page" /\ \A q \in Launches : q # r => tab'[q] = tab[q]
    BY <1>5, TabChange
  <2>5. TypeOK' BY <1>1, <1>2, <1>3, <2>2, <2>3, <2>4, LockDomain DEF TypeOK, TaskStep, TaskStates
  <2>6. Frame(r) BY <1>1, <2>3, <2>4 DEF Frame
  <2>7. \A u \in Tasks : u # "main" => task'[r][u] = task[r][u] BY <2>2 DEF TaskStep
  <2>8. RecordKnown(r)'
    BY <1>1, <1>2, <2>2, <2>3, <2>7 DEF RecordKnown, At, Early, Held, Worker, Tasks, Steps
  <2>9. TabKnown(r)'
    BY <1>1, <1>2, <1>4, <2>2, <2>3, <2>4, <2>7 DEF TabKnown, At, IsActiveHandoffRun, Tasks
  <2>10. QED BY <1>1, <1>2, <1>3, <2>2, <2>5, <2>6, <2>8, <2>9, OneStep DEF Consistent, Held
<1>6. CASE UNCHANGED tab /\ run' = [run EXCEPT ![r].tabState = "provisional"] /\ Goes(r, "main", "catch")
  <2>1. TaskStep(r, "main") /\ task'[r]["main"].at = "catch" BY <1>6, <1>2, GoesStep DEF Stages
  <2>2. /\ run' \in Seq(Runs) /\ Generation' = Generation /\ DOMAIN run' = DOMAIN run
        /\ run'[r].cancelled = run[r].cancelled /\ run'[r].cleaning = run[r].cleaning
        /\ run'[r].tabState = "provisional"
        /\ \A q \in DOMAIN run : q # r => run'[q] = run[q]
    BY <1>6, TabStateChange DEF TabStates
  <2>3. TypeOK' BY <1>1, <1>2, <1>3, <1>6, <2>1, <2>2, LockDomain DEF TypeOK, TaskStep, TaskStates
  <2>4. Frame(r) BY <1>1, <1>6, <2>2 DEF Frame
  <2>5. \A u \in Tasks : u # "main" => task'[r][u] = task[r][u] BY <2>1 DEF TaskStep
  <2>6. RecordKnown(r)'
    BY <1>1, <1>2, <2>1, <2>2, <2>5 DEF RecordKnown, At, Early, Held, Worker, Tasks, Steps
  <2>7. TabKnown(r)'
    BY <1>1, <1>2, <1>4, <1>6, <2>1, <2>2, <2>5 DEF TabKnown, At, IsActiveHandoffRun, Tasks
  <2>8. QED BY <1>1, <1>2, <1>3, <2>1, <2>3, <2>4, <2>6, <2>7, OneStep DEF Consistent, Held
<1>7. QED BY <1>5, <1>6 DEF Navigate

LEMMA WaitKeeps ==
    ASSUME Consistent, NEW r \in DOMAIN run, WaitForPageReady(r) \/ WaitEnds(r)
    PROVE  Consistent'
<1> USE Facts
<1>1. UNCHANGED <<run, active, offered, busy, ready, late, tab, kept, faults>> /\ At(r, "main", "wait")
  BY DEF WaitForPageReady, WaitEnds, Main, Faultless
<1>2. "main" \in Tasks BY DEF Tasks
<1>3. LockStep(<<r, "main">>)
  <2>1. Asks(r, "main") \/ UNCHANGED lock BY DEF WaitForPageReady, WaitEnds
  <2>2. QED BY <2>1, AskSteps, NoLockStep
<1>4. PICK at \in {"show", "catch", "manual"} : Goes(r, "main", at)
  BY DEF WaitForPageReady, WaitEnds, Continues
<1>5. TaskStep(r, "main") /\ task'[r]["main"].at = at BY <1>4, <1>2, GoesStep DEF Stages
<1>6. TypeOK' BY <1>1, <1>2, <1>3, <1>5, LockDomain DEF TypeOK, TaskStep, TaskStates, Generation
<1>7. Frame(r) BY <1>1 DEF Frame, Generation
<1>8. \A u \in Tasks : u # "main" => task'[r][u] = task[r][u] BY <1>5 DEF TaskStep
<1>9. RecordKnown(r)'
  BY <1>1, <1>2, <1>5, <1>8 DEF RecordKnown, At, Early, Held, Worker, Tasks, Steps
<1>10. TabKnown(r)'
  BY <1>1, <1>2, <1>5, <1>8 DEF TabKnown, At, IsActiveHandoffRun, Generation, Tasks
<1>11. QED BY <1>1, <1>2, <1>3, <1>5, <1>6, <1>7, <1>9, <1>10, OneStep DEF Consistent, Held
(* What the holder does that shows nothing: it leaves, or asks again.      *)
LEMMA NotShownSteps ==
    ASSUME TypeOK, NEW r \in Launches, NEW t \in {"main", "click"}, NEW reason, NotShown(r, t, reason)
    PROVE  /\ LockStep(<<r, t>>) /\ TaskStep(r, t)
           /\ task'[r][t].at \in (IF t = "main" THEN {"manual", "catch"} ELSE {"idle"})
<1>1. t \in Tasks BY DEF Tasks
<1>2. CASE t = "main" /\ reason = "expired" /\ IsActiveHandoffRun(r)
  <2>1. Goes(r, t, "manual") /\ AsksAgain(r, t) BY <1>2 DEF NotShown
  <2>2. TaskStep(r, t) /\ task'[r][t].at = "manual" BY <1>1, <2>1, GoesStep DEF Stages
  <2>3. LockStep(<<r, t>>) BY <2>1, AskAgainSteps
  <2>4. QED BY <1>2, <2>2, <2>3
<1>3. CASE ~(t = "main" /\ reason = "expired" /\ IsActiveHandoffRun(r))
  <2>1. Releases(r, t) /\ (IF t = "main" THEN Goes(r, t, "catch") ELSE Ends(r, t)) BY <1>3 DEF NotShown
  <2>2. LockStep(<<r, t>>) BY <2>1, ReleaseSteps
  <2>3. CASE t = "main"
    <3>1. TaskStep(r, t) /\ task'[r][t].at = "catch" BY <1>1, <2>1, <2>3, GoesStep DEF Stages
    <3>2. QED BY <2>2, <2>3, <3>1
  <2>4. CASE t = "click"
    <3>1. TaskStep(r, t) /\ task'[r][t].at = "idle" BY <1>1, <2>1, <2>4, EndsStep
    <3>2. QED BY <2>2, <2>4, <3>1
  <2>5. QED BY <2>3, <2>4
<1>4. QED BY <1>2, <1>3

LEMMA ReadToShowKeeps ==
    ASSUME Consistent, NEW r \in DOMAIN run, NEW t \in {"main", "click"}, ReadToShow(r, t)
    PROVE  Consistent'
<1> USE Facts
<1>1. UNCHANGED <<active, offered, busy, ready, late, tab, kept, faults>> /\ At(r, t, "show") /\ Holds(r, t)
  BY DEF ReadToShow, Shows, Faultless
<1>2. t \in Tasks /\ "main" \in Tasks /\ "click" \in Tasks BY DEF Tasks
<1>3. tab[r].at # "blank" BY <1>1 DEF TabKnown, At
<1>4. CASE Presents(r, t)
  <2>1. run' = [run EXCEPT ![r].tabState = "activating"] /\ Goes(r, t, "showing") /\ UNCHANGED lock
    BY <1>4 DEF ReadToShow
  <2>2. TaskStep(r, t) /\ task'[r][t].at = "showing" BY <2>1, <1>2, GoesStep DEF Stages, Held
  <2>3. /\ run' \in Seq(Runs) /\ Generation' = Generation /\ DOMAIN run' = DOMAIN run
        /\ run'[r].cancelled = run[r].cancelled /\ run'[r].tabState = "activating"
        /\ \A q \in DOMAIN run : q # r => run'[q] = run[q]
    BY <2>1, TabStateChange DEF TabStates
  <2>4. LockStep(<<r, t>>) BY <2>1, NoLockStep
  <2>5. TypeOK' BY <1>1, <2>1, <2>2, <2>3 DEF TypeOK, TaskStep, TaskStates
  <2>6. Frame(r) BY <1>1, <2>3 DEF Frame
  <2>7. \A u \in Tasks : u # t => task'[r][u] = task[r][u] BY <2>2 DEF TaskStep
  <2>8. RecordKnown(r)'
    BY <1>1, <1>2, <2>2, <2>3, <2>7 DEF RecordKnown, At, Early, Held, Worker, Tasks, Steps
  <2>9. IsActiveHandoffRun(r)' BY <1>1, <1>4, <2>3 DEF Presents, IsActiveHandoffRun
  <2>10. TabKnown(r)'
    BY <1>1, <1>2, <1>3, <2>2, <2>3, <2>7, <2>9 DEF TabKnown, At, Tasks
  <2>11. Holds(r, t)' BY <1>1, <2>1 DEF Holds
  <2>12. QED BY <1>1, <1>2, <2>2, <2>4, <2>5, <2>6, <2>8, <2>10, <2>11, OneStep DEF Consistent
<1>5. CASE ~Presents(r, t)
  <2>1. PICK reason : UNCHANGED run /\ NotShown(r, t, reason)
    BY <1>5 DEF ReadToShow
  <2>2. /\ LockStep(<<r, t>>) /\ TaskStep(r, t)
        /\ task'[r][t].at \in (IF t = "main" THEN {"manual", "catch"} ELSE {"idle"})
    BY <2>1, NotShownSteps
  <2>3. TypeOK' BY <1>1, <1>2, <2>1, <2>2, LockDomain DEF TypeOK, TaskStep, TaskStates, Generation
  <2>4. Frame(r) BY <1>1, <2>1 DEF Frame, Generation
  <2>5. \A u \in Tasks : u # t => task'[r][u] = task[r][u] BY <2>2 DEF TaskStep
  <2>6. RecordKnown(r)'
    BY <1>1, <1>2, <2>1, <2>2, <2>5 DEF RecordKnown, At, Early, Held, Worker, Tasks, Steps
  <2>7. TabKnown(r)'
    BY <1>1, <1>2, <1>3, <2>1, <2>2, <2>5 DEF TabKnown, At, IsActiveHandoffRun, Generation, Tasks
  <2>8. QED BY <1>1, <1>2, <2>2, <2>3, <2>4, <2>6, <2>7, OneStep DEF Consistent, Held
<1>6. QED BY <1>4, <1>5

LEMMA ShowTabKeeps ==
    ASSUME Consistent, NEW r \in DOMAIN run, NEW t \in {"main", "click"}, ShowTab(r, t)
    PROVE  Consistent'
<1> USE Facts
<1>1. UNCHANGED <<run, active, offered, busy, lock, ready, late, kept, faults>> /\ At(r, t, "showing") /\ Holds(r, t)
  BY DEF ShowTab, Shows, Faultless
<1>2. t \in Tasks /\ "main" \in Tasks /\ "click" \in Tasks BY DEF Tasks
<1>3. /\ tab' \in [Launches -> Tabs] /\ tab'[r].at = tab[r].at
      /\ \A q \in Launches : q # r => tab'[q] = tab[q]
  <2> DEFINE new == [tab[r] EXCEPT !.shown = TRUE]
  <2>1. new \in Tabs /\ new.at = tab[r].at BY DEF Tabs
  <2>2. tab' = [tab EXCEPT ![r] = new] BY DEF ShowTab
  <2> HIDE DEF new
  <2>3. QED BY <2>1, <2>2 DEF TypeOK
<1>4. TaskStep(r, t) /\ task'[r][t].at = "mark" BY <1>2, GoesStep DEF ShowTab, Stages, Held
<1>5. LockStep(<<r, t>>) BY <1>1, NoLockStep
<1>6. TypeOK' BY <1>1, <1>3, <1>4 DEF TypeOK, TaskStep, TaskStates, Generation
<1>7. Frame(r) BY <1>1, <1>3 DEF Frame, Generation
<1>8. \A u \in Tasks : u # t => task'[r][u] = task[r][u] BY <1>4 DEF TaskStep
<1>9. RecordKnown(r)'
  BY <1>1, <1>2, <1>4, <1>8 DEF RecordKnown, At, Early, Held, Worker, Tasks, Steps
<1>10. TabKnown(r)'
  BY <1>1, <1>2, <1>3, <1>4, <1>8 DEF TabKnown, At, IsActiveHandoffRun, Generation, Tasks
<1>11. Holds(r, t)' BY <1>1 DEF Holds
<1>12. QED BY <1>1, <1>2, <1>4, <1>5, <1>6, <1>7, <1>9, <1>10, <1>11, OneStep DEF Consistent
LEMMA ShowFailsKeeps ==
    ASSUME Consistent, NEW r \in DOMAIN run, NEW t \in {"main", "click"}, ShowFails(r, t)
    PROVE  Consistent'
<1> USE Facts
<1>1. /\ UNCHANGED <<busy, ready, late, tab, kept>> /\ faults' \in Nat /\ Holds(r, t)
      /\ task[r][t].at \in {"show", "showing", "mark"}
  BY DEF ShowFails, Shows, Fails, Faultless, TypeOK, At
<1>2. t \in Tasks /\ "main" \in Tasks /\ "click" \in Tasks BY DEF Tasks
<1>3. tab[r].at # "blank" BY <1>1 DEF TabKnown, At
<1>4. \A u \in Tasks : u # t => task[r][u].at \notin Held BY <1>1, <1>2, Alone
<1>5. \/ active' = active /\ offered' = offered
      \/ active' = 0 /\ offered' = 0 /\ IsActiveHandoffRun(r)
  BY DEF ShowFails
<1>6. /\ run' \in Seq(Runs) /\ Generation' = Generation /\ DOMAIN run' = DOMAIN run
      /\ run'[r].cancelled = run[r].cancelled
      /\ \A q \in DOMAIN run : q # r => run'[q] = run[q]
  BY TabStateChange DEF ShowFails, TabStates
<1>7. TaskStep(r, t) /\ task'[r][t].at = IF t = "main" THEN "catch" ELSE "idle"
  <2>1. CASE t = "main" BY <1>2, <2>1, GoesStep DEF ShowFails, Stages
  <2>2. CASE t = "click" BY <1>2, <2>2, EndsStep DEF ShowFails
  <2>3. QED BY <2>1, <2>2
<1>8. LockStep(<<r, t>>) BY ReleaseSteps DEF ShowFails
<1>9. TypeOK'
  <2>1. active' \in 0 .. Generation /\ offered' \in 0 .. Generation BY <1>5, RunLaunches DEF TypeOK
  <2>2. QED BY <1>1, <1>2, <1>6, <1>7, <1>8, <2>1, LockDomain DEF TypeOK, TaskStep, TaskStates
<1>10. Frame(r) BY <1>1, <1>5, <1>6 DEF Frame
<1>11. \A u \in Tasks : u # t => task'[r][u] = task[r][u] BY <1>7 DEF TaskStep
<1>12. RecordKnown(r)'
  BY <1>1, <1>2, <1>6, <1>7, <1>11 DEF RecordKnown, At, Early, Held, Worker, Tasks, Steps
<1>13. TabKnown(r)'
  <2>1. ~At(r, "main", "showing")' /\ ~At(r, "click", "showing")'
    BY <1>2, <1>4, <1>7, <1>11 DEF At, Held
  <2>2. QED BY <1>1, <1>2, <1>3, <1>5, <1>7, <1>11, <2>1 DEF TabKnown, At, Tasks
<1>14. QED BY <1>1, <1>2, <1>5, <1>7, <1>8, <1>9, <1>10, <1>12, <1>13, OneStep DEF Consistent, Held

LEMMA MarkActivatedKeeps ==
    ASSUME Consistent, NEW r \in DOMAIN run, NEW t \in {"main", "click"}, MarkActivated(r, t)
    PROVE  Consistent'
<1> USE Facts
<1>1. UNCHANGED <<late, tab, kept, faults>> /\ Holds(r, t) /\ task[r][t].at = "mark" /\ busy' \in BOOLEAN
  BY DEF MarkActivated, TypeOK, At
<1>2. t \in Tasks /\ "main" \in Tasks /\ "click" \in Tasks BY DEF Tasks
<1>3. tab[r].at # "blank" BY <1>1 DEF TabKnown, At
<1>4. \A u \in Tasks : u # t => task[r][u].at \notin Held BY <1>1, <1>2, Alone
<1>5. \/ active' = active /\ offered' = offered
      \/ active' = 0 /\ offered' = 0 /\ IsActiveHandoffRun(r)
  BY DEF MarkActivated
<1>6. /\ run' \in Seq(Runs) /\ Generation' = Generation /\ DOMAIN run' = DOMAIN run
      /\ run'[r].cancelled = run[r].cancelled
      /\ \A q \in DOMAIN run : q # r => run'[q] = run[q]
  BY TabStateChange DEF MarkActivated, TabStates
<1>7. /\ LockStep(<<r, t>>) /\ TaskStep(r, t)
      /\ task'[r][t].at \in (IF t = "main" THEN {"manual", "catch", "idle"} ELSE {"idle"})
  <2>1. CASE Ends(r, t) /\ Releases(r, t)
    BY <1>2, <2>1, EndsStep, ReleaseSteps
  <2>2. CASE NotShown(r, t, "invalid") BY <2>2, NotShownSteps
  <2>3. QED BY <2>1, <2>2 DEF MarkActivated
<1>8. /\ ready' \in [Launches -> Records] /\ \A q \in Launches : q # r => ready'[q] = ready[q]
      /\ ready'[r].policy = ready[r].policy /\ ready'[r].restores = ready[r].restores
  <2>1. CASE UNCHANGED ready BY <2>1 DEF TypeOK
  <2>2. CASE ready' = [ready EXCEPT ![r].activated = TRUE]
    <3> DEFINE new == [ready[r] EXCEPT !.activated = TRUE]
    <3>1. new \in Records /\ new.policy = ready[r].policy /\ new.restores = ready[r].restores BY DEF Records
    <3>2. ready' = [ready EXCEPT ![r] = new] BY <2>2
    <3> HIDE DEF new
    <3>3. QED BY <3>1, <3>2, RecordChange
  <2>3. QED BY <2>1, <2>2 DEF MarkActivated
<1>9. TypeOK'
  <2>1. active' \in 0 .. Generation /\ offered' \in 0 .. Generation BY <1>5, RunLaunches DEF TypeOK
  <2>2. QED BY <1>1, <1>2, <1>6, <1>7, <1>8, <2>1, LockDomain DEF TypeOK, TaskStep, TaskStates
<1>10. Frame(r) BY <1>1, <1>5, <1>6, <1>8 DEF Frame
<1>11. \A u \in Tasks : u # t => task'[r][u] = task[r][u] BY <1>7 DEF TaskStep
<1>12. RecordKnown(r)'
  <2>1. \A u \in Tasks : task'[r][u].at \in Steps(u) /\ task'[r][u].at # "write"
    BY <1>2, <1>4, <1>7, <1>11 DEF Steps, Held, Tasks
  <2>2. At(r, "main", "idle") \/ At(r, "main", "mark") BY <1>1 DEF TabKnown, At
  <2>3. task'[r]["main"].at \notin Early BY <1>2, <1>7, <1>11, <2>2 DEF At, Early
  <2>4. QED BY <1>1, <1>2, <1>6, <1>7, <1>8, <1>11, <2>1, <2>3 DEF RecordKnown, At, Worker, Tasks
<1>13. TabKnown(r)'
  <2>1. ~At(r, "main", "showing")' /\ ~At(r, "click", "showing")'
    BY <1>2, <1>4, <1>7, <1>11 DEF At, Held
  <2>2. QED BY <1>1, <1>2, <1>3, <1>5, <1>7, <1>11, <2>1 DEF TabKnown, At, Tasks
<1>14. QED BY <1>1, <1>2, <1>5, <1>7, <1>9, <1>10, <1>12, <1>13, OneStep DEF Consistent, Held

LEMMA CatchKeeps == ASSUME Consistent, NEW r \in DOMAIN run, Catch(r) PROVE Consistent'
<1> USE Facts
<1>1. /\ UNCHANGED <<offered, lock, ready, late>> /\ faults' \in Nat /\ busy' = FALSE
      /\ At(r, "main", "catch") /\ kept \subseteq kept' /\ kept' \subseteq Launches
  BY DEF Catch, TypeOK, Fails
<1>2. "main" \in Tasks BY DEF Tasks
<1>3. At(r, "click", "idle") /\ offered # r BY <1>1, <1>2 DEF TabKnown, At
<1>4. active' = active \/ (active' = 0 /\ IsActiveHandoffRun(r)) BY DEF Catch
<1>5. /\ run' \in Seq(Runs) /\ Generation' = Generation /\ DOMAIN run' = DOMAIN run
      /\ run'[r].cancelled = run[r].cancelled
      /\ \A q \in DOMAIN run : q # r => run'[q] = run[q]
  <2> DEFINE new == [run[r] EXCEPT !.cleaning = @ \/ Removable(r), !.tabState = IF Removable(r) THEN "closed" ELSE @]
  <2>1. new \in Runs /\ new.cancelled = run[r].cancelled BY DEF Runs, Removable
  <2>2. run' = [run EXCEPT ![r] = new] BY DEF Catch
  <2> HIDE DEF new
  <2>3. QED BY <2>1, <2>2, RunChange
<1>6. /\ tab' \in [Launches -> Tabs] /\ \A q \in Launches : q # r => tab'[q] = tab[q]
      /\ tab'[r].at = "blank" => tab[r].at = "blank" /\ (Removable(r) => r \in kept')
  <2>1. CASE tab' = [tab EXCEPT ![r].at = IF Removable(r) THEN "none" ELSE @]
    <3> DEFINE at == IF Removable(r) THEN "none" ELSE tab[r].at
    <3>1. at \in {"none", "blank", "page"} /\ tab' = [tab EXCEPT ![r].at = at] BY <2>1 DEF Tabs
    <3>2. (at = "blank" => tab[r].at = "blank" /\ ~Removable(r)) OBVIOUS
    <3> HIDE DEF at
    <3>3. QED BY <3>1, <3>2, TabChange
  <2>2. CASE kept' = kept \cup {r} /\ UNCHANGED tab BY <2>2 DEF TypeOK
  <2>3. QED BY <2>1, <2>2 DEF Catch
<1>7. TaskStep(r, "main") /\ task'[r]["main"].at = "idle" BY <1>2, EndsStep DEF Catch
<1>8. LockStep(<<r, "main">>) BY <1>1, NoLockStep
<1>9. TypeOK'
  <2>1. active' \in 0 .. Generation BY <1>4, RunLaunches DEF TypeOK
  <2>2. QED BY <1>1, <1>5, <1>6, <1>7, <2>1 DEF TypeOK, TaskStep, TaskStates
<1>10. Frame(r) BY <1>1, <1>4, <1>5, <1>6 DEF Frame
<1>11. \A u \in Tasks : u # "main" => task'[r][u] = task[r][u] BY <1>7 DEF TaskStep
<1>12. RecordKnown(r)'
  BY <1>1, <1>2, <1>5, <1>7, <1>11 DEF RecordKnown, At, Early, Held, Worker, Tasks, Steps
<1>13. TabKnown(r)'
  <2>1. tab[r].at = "blank" /\ r \notin kept /\ ~At(r, "clean", "remove") => Removable(r)
    BY <1>1 DEF TabKnown, At, Removable
  <2>2. QED BY <1>1, <1>2, <1>3, <1>6, <1>7, <1>11, <2>1 DEF TabKnown, At, Tasks
<1>14. QED BY <1>1, <1>2, <1>4, <1>7, <1>8, <1>9, <1>10, <1>12, <1>13, OneStep DEF Consistent, Held
PolicyTasks == {"policy", "main", "click"}

LEMMA ReadPolicyKeeps ==
    ASSUME Consistent, NEW r \in DOMAIN run, NEW t \in PolicyTasks, ReadPolicy(r, t)
    PROVE  Consistent'
<1> USE Facts
<1>1. UNCHANGED <<run, active, offered, busy, lock, ready, late, tab, kept, faults>> /\ At(r, t, Waits(t)) /\ Holds(r, t)
  BY DEF ReadPolicy
<1>2. t \in Tasks /\ "main" \in Tasks /\ "click" \in Tasks /\ "policy" \in Tasks BY DEF Tasks, PolicyTasks
<1>3. PICK at \in {"unset", "write"} :
          /\ TaskStep(r, t) /\ task'[r][t].at = at
          /\ at = "write" => task'[r][t].read = ready[r] /\ ~(Sets(t) = "manual" /\ run[r].cancelled)
          /\ at = "unset" => t # "policy"
  <2>1. CASE Sets(t) = "manual" /\ run[r].cancelled
    <3>1. TaskStep(r, t) /\ task'[r][t].at = "unset" BY <1>2, <2>1, GoesStep DEF ReadPolicy, Stages, Held
    <3>2. QED BY <2>1, <3>1 DEF Sets
  <2>2. CASE ~(Sets(t) = "manual" /\ run[r].cancelled)
    <3>1. TaskStep(r, t) /\ task'[r][t].at = "write" /\ task'[r][t].read = ready[r]
      BY <1>2, <2>2, ReadsStep DEF ReadPolicy, Stages, Held
    <3>2. QED BY <2>2, <3>1
  <2>3. QED BY <2>1, <2>2
<1>4. LockStep(<<r, t>>) BY <1>1, NoLockStep
<1>5. TypeOK' BY <1>1, <1>3 DEF TypeOK, TaskStep, TaskStates, Generation
<1>6. Frame(r) BY <1>1 DEF Frame, Generation
<1>7. \A u \in Tasks : u # t => task'[r][u] = task[r][u] BY <1>3 DEF TaskStep
<1>8. RecordKnown(r)'
  <2>1. \A u \in Tasks : task'[r][u].at \in Steps(u) /\ (task'[r][u].at = "write" => task'[r][u].read = ready[r])
    BY <1>2, <1>3, <1>7 DEF Steps, Held, Tasks, RecordKnown, At, PolicyTasks
  <2>2. task'[r]["main"].at \in Early => ready[r] = NoRecord
    BY <1>2, <1>3, <1>7 DEF Early, RecordKnown
  <2>3. \A u \in {"main", "click"} : task'[r][u].at = "write" => ready[r].policy # "cancelled"
    BY <1>2, <1>3, <1>7 DEF Sets, RecordKnown, At
  <2>4. ready[r].policy = "cancelled" \/ task'[r]["policy"].at # "idle" => run[r].cancelled
    BY <1>1, <1>2, <1>7 DEF RecordKnown, At, Waits
  <2>5. QED BY <1>1, <1>2, <1>7, <2>1, <2>2, <2>3, <2>4 DEF RecordKnown, At, Worker, Tasks, PolicyTasks
<1>9. TabKnown(r)'
  BY <1>1, <1>2, <1>3, <1>7 DEF TabKnown, At, IsActiveHandoffRun, Generation, Tasks, Waits, PolicyTasks
<1>10. Holds(r, t)' BY <1>1 DEF Holds
<1>11. QED BY <1>1, <1>2, <1>3, <1>4, <1>5, <1>6, <1>8, <1>9, <1>10, OneStep DEF Consistent

LEMMA AfterPolicySteps ==
    ASSUME TypeOK, NEW r \in Launches, NEW t \in PolicyTasks, AfterPolicy(r, t)
    PROVE  /\ LockStep(<<r, t>>) /\ TaskStep(r, t) /\ busy' \in BOOLEAN
           /\ \/ offered' = offered
              \/ t = "main" /\ offered' = r /\ task'[r][t].at = "idle" /\ IsActiveHandoffRun(r)
           /\ t = "policy" => task'[r][t].at = "idle"
           /\ t = "main" => task'[r][t].at \in {"idle", "catch"}
           /\ t = "main" /\ task'[r][t].at = "idle" => offered' = r
           /\ t = "click" => task'[r][t].at \in {"idle", "show"}
<1>1. "main" \in Tasks /\ "click" \in Tasks /\ "policy" \in Tasks BY DEF Tasks
<1>2. CASE t = "policy"
  <2>1. Ends(r, t) /\ Releases(r, t) /\ UNCHANGED <<offered, busy>> BY <1>2 DEF AfterPolicy
  <2>2. TaskStep(r, t) /\ task'[r][t].at = "idle" BY <1>1, <1>2, <2>1, EndsStep
  <2>3. QED BY <1>2, <2>1, <2>2, ReleaseSteps DEF TypeOK
<1>3. CASE t = "main"
  <2>1. Releases(r, t) /\ (IF IsActiveHandoffRun(r) THEN Ends(r, t) /\ offered' = r /\ busy' = FALSE
                           ELSE Goes(r, t, "catch") /\ UNCHANGED <<offered, busy>>)
    BY <1>3 DEF AfterPolicy
  <2>2. TaskStep(r, t) /\ task'[r][t].at = IF IsActiveHandoffRun(r) THEN "idle" ELSE "catch"
    BY <1>1, <1>3, <2>1, EndsStep, GoesStep DEF Stages
  <2>3. QED BY <1>3, <2>1, <2>2, ReleaseSteps DEF TypeOK
<1>4. CASE t = "click"
  <2>1. /\ UNCHANGED <<offered, busy>>
        /\ \/ Goes(r, t, "show") /\ AsksAgain(r, t)
           \/ Ends(r, t) /\ Releases(r, t)
    BY <1>4 DEF AfterPolicy
  <2>2. TaskStep(r, t) /\ task'[r][t].at \in {"idle", "show"}
    BY <1>1, <1>4, <2>1, EndsStep, GoesStep DEF Stages
  <2>3. LockStep(<<r, t>>) BY <2>1, ReleaseSteps, AskAgainSteps
  <2>4. QED BY <1>4, <2>1, <2>2, <2>3 DEF TypeOK
<1>5. QED BY <1>2, <1>3, <1>4 DEF PolicyTasks

LEMMA WritePolicyKeeps ==
    ASSUME Consistent, NEW r \in DOMAIN run, NEW t \in PolicyTasks, WritePolicy(r, t)
    PROVE  Consistent'
<1> USE Facts
<1>1. UNCHANGED <<run, active, tab, kept, faults>> /\ task[r][t].at \in {"unset", "write"}
  BY DEF WritePolicy, At
<1>2. t \in Tasks /\ "main" \in Tasks /\ "click" \in Tasks /\ "policy" \in Tasks BY DEF Tasks, PolicyTasks
<1>3. Holds(r, t) BY <1>1, <1>2 DEF LocksHold, Held
<1>4. \A u \in Tasks : u # t => task[r][u].at \notin Held BY <1>2, <1>3, Alone
<1>5. /\ LockStep(<<r, t>>) /\ TaskStep(r, t) /\ busy' \in BOOLEAN
      /\ \/ offered' = offered
         \/ t = "main" /\ offered' = r /\ task'[r][t].at = "idle" /\ IsActiveHandoffRun(r)
      /\ t = "policy" => task'[r][t].at = "idle"
      /\ t = "main" => task'[r][t].at \in {"idle", "catch"}
      /\ t = "click" => task'[r][t].at \in {"idle", "show"}
  BY AfterPolicySteps DEF WritePolicy
<1>6. /\ ready' \in [Launches -> Records] /\ \A q \in Launches : q # r => ready'[q] = ready[q]
      /\ late' \subseteq Launches
      /\ \/ ready'[r] = ready[r]
         \/ ready[r] # NoRecord /\ ready'[r].policy = Sets(t) /\ ready'[r].restores = ready[r].restores
  <2>1. CASE UNCHANGED <<ready, late>> BY <2>1 DEF TypeOK
  <2>2. CASE ~(At(r, t, "unset") \/ task[r][t].read = NoRecord)
    <3> DEFINE new == [task[r][t].read EXCEPT !.policy = Sets(t)]
    <3>1. task[r][t].read = ready[r] BY <1>1, <1>2, <2>2 DEF RecordKnown, At
    <3>2. new \in Records /\ new.policy = Sets(t) /\ new.restores = ready[r].restores BY <3>1 DEF Records, Sets
    <3>3. ready' = [ready EXCEPT ![r] = new] /\ late' = late \cup {r} BY <2>2 DEF WritePolicy
    <3> HIDE DEF new
    <3>4. QED BY <2>2, <3>1, <3>2, <3>3, RecordChange DEF TypeOK
  <2>3. QED BY <2>1, <2>2 DEF WritePolicy
<1>7. TypeOK'
  <2>1. offered' \in 0 .. Generation BY <1>5, RunLaunches DEF TypeOK
  <2>2. QED BY <1>1, <1>2, <1>5, <1>6, <2>1, LockDomain DEF TypeOK, TaskStep, TaskStates, Generation
<1>8. Frame(r) BY <1>1, <1>5, <1>6 DEF Frame, Generation
<1>9. \A u \in Tasks : u # t => task'[r][u] = task[r][u] BY <1>5 DEF TaskStep
<1>10. t # "policy" => task[r]["main"].at = "idle" \/ (t = "main" /\ tab[r].at # "blank")
  BY <1>1 DEF TabKnown, At, PolicyTasks
<1>11. RecordKnown(r)'
  <2>1. \A u \in Tasks : task'[r][u].at \in Steps(u) /\ task'[r][u].at # "write"
    BY <1>2, <1>4, <1>5, <1>9 DEF Steps, Held, Tasks, PolicyTasks
  <2>2. task'[r]["main"].at \in Early => ready'[r] = NoRecord
    <3>1. task'[r]["main"].at \in Early => t # "main" /\ task[r]["main"].at \in Early
      BY <1>2, <1>5, <1>9 DEF Early
    <3>2. QED BY <1>6, <3>1 DEF RecordKnown
  <2>3. ready'[r].policy = "cancelled" \/ task'[r]["policy"].at # "idle" => run[r].cancelled
    BY <1>1, <1>2, <1>5, <1>6, <1>9 DEF RecordKnown, At, Sets
  <2>4. QED BY <1>1, <1>2, <2>1, <2>2, <2>3 DEF RecordKnown, At, Worker, Tasks
<1>12. TabKnown(r)'
  BY <1>1, <1>2, <1>5, <1>9, <1>10 DEF TabKnown, At, IsActiveHandoffRun, Generation, Tasks, PolicyTasks
<1>13. active' # 0 /\ offered' # 0 => active' = offered'
  BY <1>1, <1>5 DEF Consistent, IsActiveHandoffRun
<1>14. task'[r][t].at \notin Held BY <1>5 DEF Held, PolicyTasks
<1>15. QED BY <1>2, <1>5, <1>7, <1>8, <1>11, <1>12, <1>13, <1>14, OneStep

LEMMA PolicyFailsKeeps ==
    ASSUME Consistent, NEW r \in DOMAIN run, NEW t \in PolicyTasks, PolicyFails(r, t)
    PROVE  Consistent'
<1> USE Facts
<1>1. /\ UNCHANGED <<run, busy, ready, late, tab, kept>> /\ faults' \in Nat /\ Holds(r, t)
      /\ task[r][t].at = Waits(t)
  BY DEF PolicyFails, Fails, TypeOK, At
<1>2. t \in Tasks /\ "main" \in Tasks /\ "click" \in Tasks /\ "policy" \in Tasks BY DEF Tasks, PolicyTasks
<1>3. /\ TaskStep(r, t) /\ task'[r][t].at = IF t = "main" THEN "catch" ELSE "idle"
      /\ \/ active' = active /\ offered' = offered
         \/ t = "click" /\ active' = 0 /\ offered' = 0 /\ IsActiveHandoffRun(r)
  <2>1. CASE t = "policy" BY <1>2, <2>1, EndsStep DEF PolicyFails
  <2>2. CASE t = "main" BY <1>2, <2>2, GoesStep DEF PolicyFails, Stages
  <2>3. CASE t = "click" BY <1>2, <2>3, EndsStep DEF PolicyFails
  <2>4. QED BY <2>1, <2>2, <2>3 DEF PolicyTasks
<1>4. LockStep(<<r, t>>) BY ReleaseSteps DEF PolicyFails
<1>5. TypeOK'
  <2>1. active' \in 0 .. Generation /\ offered' \in 0 .. Generation BY <1>3, RunLaunches DEF TypeOK
  <2>2. QED BY <1>1, <1>2, <1>3, <1>4, <2>1, LockDomain DEF TypeOK, TaskStep, TaskStates, Generation
<1>6. Frame(r) BY <1>1, <1>3 DEF Frame, Generation
<1>7. \A u \in Tasks : u # t => task'[r][u] = task[r][u] BY <1>3 DEF TaskStep
<1>8. RecordKnown(r)'
  BY <1>1, <1>2, <1>3, <1>7 DEF RecordKnown, At, Early, Held, Worker, Tasks, Steps, PolicyTasks
<1>9. TabKnown(r)'
  <2>1. t = "click" => task[r]["main"].at = "idle" /\ tab[r].at # "blank" BY <1>1 DEF TabKnown, At, Waits
  <2>2. QED BY <1>1, <1>2, <1>3, <1>7, <2>1 DEF TabKnown, At, IsActiveHandoffRun, Generation, Tasks, PolicyTasks, Waits
<1>10. QED BY <1>1, <1>2, <1>3, <1>4, <1>5, <1>6, <1>8, <1>9, OneStep DEF Consistent, Held
LEMMA CleanUpKeeps == ASSUME Consistent, NEW r \in DOMAIN run, CleanUp(r) PROVE Consistent'
<1> USE Facts
<1>1. /\ UNCHANGED <<active, offered, busy, lock, ready, late>> /\ faults' \in Nat
      /\ At(r, "clean", "remove") /\ kept \subseteq kept' /\ kept' \subseteq Launches
  BY DEF CleanUp, TypeOK, Fails
<1>2. "main" \in Tasks /\ "clean" \in Tasks /\ "click" \in Tasks BY DEF Tasks
<1>3. TaskStep(r, "clean") /\ task'[r]["clean"].at = "idle" BY <1>2, EndsStep DEF CleanUp
<1>4. /\ run' \in Seq(Runs) /\ Generation' = Generation /\ DOMAIN run' = DOMAIN run
      /\ run'[r].cancelled = run[r].cancelled /\ run'[r].cleaning = run[r].cleaning
      /\ run'[r].tabState # run[r].tabState => tab[r].at = "blank"
      /\ run'[r].tabState \in {"closed", run[r].tabState}
      /\ \A q \in DOMAIN run : q # r => run'[q] = run[q]
  <2>1. CASE UNCHANGED run BY <2>1 DEF TypeOK, Generation
  <2>2. CASE run' = [run EXCEPT ![r].tabState = IF tab[r].at = "blank" THEN "closed" ELSE @]
    <3> DEFINE s == IF tab[r].at = "blank" THEN "closed" ELSE run[r].tabState
    <3>1. s \in TabStates /\ run' = [run EXCEPT ![r].tabState = s] BY <2>2 DEF TabStates, Runs
    <3>2. (s # run[r].tabState => tab[r].at = "blank") /\ s \in {"closed", run[r].tabState} OBVIOUS
    <3> HIDE DEF s
    <3>3. QED BY <3>1, <3>2, TabStateChange
  <2>3. QED BY <2>1, <2>2 DEF CleanUp
<1>5. /\ tab' \in [Launches -> Tabs] /\ \A q \in Launches : q # r => tab'[q] = tab[q]
      /\ tab'[r].at = "blank" => r \in kept' /\ tab[r].at = "blank"
      /\ tab'[r].at \in {"none", tab[r].at}
  <2>1. CASE UNCHANGED <<tab, run>> /\ kept' = kept \cup {r} BY <2>1 DEF TypeOK
  <2>2. CASE tab' = [tab EXCEPT ![r].at = IF @ = "blank" THEN "none" ELSE @]
    <3> DEFINE at == IF tab[r].at = "blank" THEN "none" ELSE tab[r].at
    <3>1. at \in {"none", "blank", "page"} /\ tab' = [tab EXCEPT ![r].at = at] BY <2>2 DEF Tabs
    <3>2. at # "blank" /\ at \in {"none", tab[r].at} OBVIOUS
    <3> HIDE DEF at
    <3>3. QED BY <3>1, <3>2, TabChange
  <2>3. QED BY <2>1, <2>2 DEF CleanUp
<1>6. LockStep(<<r, "clean">>) BY <1>1, NoLockStep
<1>7. TypeOK' BY <1>1, <1>3, <1>4, <1>5 DEF TypeOK, TaskStep, TaskStates
<1>8. Frame(r) BY <1>1, <1>4, <1>5 DEF Frame
<1>9. \A u \in Tasks : u # "clean" => task'[r][u] = task[r][u] BY <1>3 DEF TaskStep
<1>10. RecordKnown(r)'
  BY <1>1, <1>2, <1>3, <1>4, <1>9 DEF RecordKnown, At, Early, Held, Worker, Tasks, Steps
<1>11. TabKnown(r)'
  <2>1. task[r]["main"].at \in {"find", "create"} => run'[r].tabState = "none"
    BY <1>1, <1>4, <1>2 DEF TabKnown, At
  <2>2. QED BY <1>1, <1>2, <1>3, <1>4, <1>5, <1>9, <2>1 DEF TabKnown, At, IsActiveHandoffRun, Tasks
<1>12. QED BY <1>1, <1>2, <1>3, <1>6, <1>7, <1>8, <1>10, <1>11, OneStep DEF Consistent, Held

LEMMA PageAsksKeeps ==
    ASSUME Consistent, NEW r \in DOMAIN run, NEW t \in Worker, PageAsks(r, t)
    PROVE  Consistent'
<1> USE Facts
<1>1. UNCHANGED <<run, active, offered, busy, ready, late, tab, kept, faults>> BY DEF PageAsks
<1>2. t \in Tasks /\ t # "main" /\ t # "click" /\ t # "clean" /\ t # "policy" BY DEF Tasks, Worker
<1>3. TaskStep(r, t) /\ task'[r][t].at = "wait" BY <1>2, GoesStep DEF PageAsks, Stages
<1>4. LockStep(<<r, t>>) BY AskSteps DEF PageAsks
<1>5. TypeOK' BY <1>1, <1>2, <1>3, <1>4, LockDomain DEF TypeOK, TaskStep, TaskStates, Generation
<1>6. Frame(r) BY <1>1 DEF Frame, Generation
<1>7. \A u \in Tasks : u # t => task'[r][u] = task[r][u] BY <1>3 DEF TaskStep
<1>8. RecordKnown(r)'
  BY <1>1, <1>2, <1>3, <1>7 DEF RecordKnown, At, Early, Held, Worker, Tasks, Steps
<1>9. TabKnown(r)'
  BY <1>1, <1>2, <1>3, <1>7 DEF TabKnown, At, IsActiveHandoffRun, Generation, Tasks
<1>10. QED BY <1>1, <1>2, <1>3, <1>4, <1>5, <1>6, <1>8, <1>9, OneStep DEF Consistent, Held

LEMMA WorkerReadsKeeps ==
    ASSUME Consistent, NEW r \in DOMAIN run, NEW t \in Worker, WorkerReads(r, t)
    PROVE  Consistent'
<1> USE Facts
<1>1. /\ UNCHANGED <<run, active, offered, busy, ready, late, tab, kept, faults>> /\ Holds(r, t)
  BY DEF WorkerReads
<1>2. t \in Tasks /\ t # "main" /\ t # "click" /\ t # "clean" /\ t # "policy" BY DEF Tasks, Worker
<1>3. /\ TaskStep(r, t) /\ LockStep(<<r, t>>)
      /\ \/ task'[r][t].at = "idle"
         \/ task'[r][t].at = "write" /\ task'[r][t].read = ready[r] /\ Served(r, t) /\ UNCHANGED lock
  <2>1. CASE Served(r, t)
    <3>1. TaskStep(r, t) /\ task'[r][t].at = "write" /\ task'[r][t].read = ready[r]
      BY <1>2, <2>1, ReadsStep DEF WorkerReads, Stages, Held
    <3>2. UNCHANGED lock BY <2>1 DEF WorkerReads
    <3>3. QED BY <2>1, <3>1, <3>2, NoLockStep
  <2>2. CASE ~Served(r, t)
    <3>1. Ends(r, t) /\ Releases(r, t) BY <2>2 DEF WorkerReads
    <3>2. QED BY <1>2, <3>1, EndsStep, ReleaseSteps
  <2>3. QED BY <2>1, <2>2
<1>4. Served(r, t) => /\ ready[r].policy \in {"auto", "manual"}
                      /\ t = "return" => ready[r].restores < MaxRestores
  BY DEF Served, Reported, Restorable, FoundByTab, Worker
<1>5. TypeOK' BY <1>1, <1>2, <1>3, LockDomain DEF TypeOK, TaskStep, TaskStates, Generation
<1>6. Frame(r) BY <1>1 DEF Frame, Generation
<1>7. \A u \in Tasks : u # t => task'[r][u] = task[r][u] BY <1>3 DEF TaskStep
<1>8. RecordKnown(r)'
  BY <1>1, <1>2, <1>3, <1>4, <1>7 DEF RecordKnown, At, Early, Worker, Tasks, Steps
<1>9. TabKnown(r)'
  BY <1>1, <1>2, <1>3, <1>7 DEF TabKnown, At, IsActiveHandoffRun, Generation, Tasks
<1>10. task'[r][t].at \in Held => Holds(r, t)' BY <1>1, <1>3 DEF Held, Holds
<1>11. QED BY <1>1, <1>2, <1>3, <1>5, <1>6, <1>8, <1>9, <1>10, OneStep DEF Consistent

LEMMA WorkerWritesKeeps ==
    ASSUME Consistent, NEW r \in DOMAIN run, NEW t \in Worker, WorkerWrites(r, t)
    PROVE  Consistent'
<1> USE Facts
<1>1. UNCHANGED <<run, active, offered, busy, late, tab, kept, faults>> /\ task[r][t].at = "write"
  BY DEF WorkerWrites, At
<1>2. t \in Tasks /\ t # "main" /\ t # "click" /\ t # "clean" /\ t # "policy" BY DEF Tasks, Worker
<1>3. Holds(r, t) BY <1>1, <1>2 DEF LocksHold, Held
<1>4. \A u \in Tasks : u # t => task[r][u].at \notin Held BY <1>2, <1>3, Alone
<1>5. TaskStep(r, t) /\ task'[r][t].at = "idle" /\ LockStep(<<r, t>>)
  BY <1>2, EndsStep, ReleaseSteps DEF WorkerWrites
<1>6. task[r][t].read = ready[r] /\ ready[r].policy \in {"auto", "manual"}
      /\ (t = "return" => ready[r].restores < MaxRestores)
  BY <1>1, <1>2 DEF RecordKnown, At
<1>7. /\ ready' \in [Launches -> Records] /\ \A q \in Launches : q # r => ready'[q] = ready[q]
      /\ ready'[r].policy = ready[r].policy
  <2>1. CASE t = "report"
    <3> DEFINE new == PageReady(ready[r])
    <3>1. new \in Records /\ new.policy = ready[r].policy BY DEF PageReady, Records
    <3>2. ready' = [ready EXCEPT ![r] = new] BY <1>6, <2>1 DEF WorkerWrites
    <3> HIDE DEF new
    <3>3. QED BY <3>1, <3>2, RecordChange
  <2>2. CASE t = "return"
    <3> DEFINE new == Restored(ready[r])
    <3>1. ready[r].restores + 1 \in 0 .. MaxRestores
      BY <1>6, <2>2, HandoffLaunchAssumption DEF Records
    <3>2. new \in Records /\ new.policy = ready[r].policy BY <3>1 DEF Restored, Records
    <3>3. ready' = [ready EXCEPT ![r] = new] BY <1>6, <2>2 DEF WorkerWrites
    <3> HIDE DEF new
    <3>4. QED BY <3>2, <3>3, RecordChange
  <2>3. QED BY <2>1, <2>2 DEF Worker
<1>8. TypeOK' BY <1>1, <1>2, <1>5, <1>7, LockDomain DEF TypeOK, TaskStep, TaskStates, Generation
<1>9. Frame(r) BY <1>1, <1>7 DEF Frame, Generation
<1>10. \A u \in Tasks : u # t => task'[r][u] = task[r][u] BY <1>5 DEF TaskStep
<1>11. RecordKnown(r)'
  <2>1. \A u \in Tasks : task'[r][u].at \in Steps(u) /\ task'[r][u].at # "write"
    BY <1>2, <1>4, <1>5, <1>10 DEF Steps, Held, Tasks
  <2>2. task[r]["main"].at \notin Early BY <1>6 DEF RecordKnown, NoRecord
  <2>3. "main" \in Tasks /\ "policy" \in Tasks BY DEF Tasks
  <2>4. QED BY <1>1, <1>2, <1>5, <1>7, <1>10, <2>1, <2>2, <2>3 DEF RecordKnown, At, Worker, Tasks
<1>12. TabKnown(r)'
  BY <1>1, <1>2, <1>5, <1>10 DEF TabKnown, At, IsActiveHandoffRun, Generation, Tasks
<1>13. QED BY <1>1, <1>2, <1>5, <1>8, <1>9, <1>11, <1>12, OneStep DEF Consistent, Held
LEMMA DeadlineKeeps == ASSUME Consistent, NEW r \in DOMAIN run, Deadline(r) PROVE Consistent'
<1> USE Facts
<1>1. UNCHANGED <<run, active, offered, busy, task, lock, ready, tab, kept, faults>> /\ late' \subseteq Launches
  BY DEF Deadline, TypeOK
<1>2. TypeOK' BY <1>1 DEF TypeOK, Generation
<1>3. LocksHold' BY <1>1 DEF LocksHold, Holds
<1>4. \A q \in Launches : /\ RecordKnown(q)' = RecordKnown(q) /\ TabKnown(q)' = TabKnown(q)
                          /\ Untouched(q)' = Untouched(q)
  BY <1>1 DEF RecordKnown, TabKnown, Untouched, At, IsActiveHandoffRun, Generation
<1>5. Known' BY <1>1, <1>4 DEF Known, Consistent
<1>6. BlankTabsAreClosed' BY <1>2, <1>5, TabsAreClosedNext
<1>7. QED BY <1>1, <1>2, <1>3, <1>5, <1>6 DEF Consistent, Known

LEMMA CloseTabKeeps == ASSUME Consistent, NEW r \in DOMAIN run, CloseTab(r) PROVE Consistent'
<1> USE Facts
<1>1. UNCHANGED <<run, active, offered, busy, task, lock, ready, late, kept>> /\ faults' \in Nat
  BY DEF CloseTab, Fails, TypeOK
<1>2. tab' \in [Launches -> Tabs] /\ tab'[r].at = "none" /\ \A q \in Launches : q # r => tab'[q] = tab[q]
  BY TabChange DEF CloseTab
<1>3. "main" \in Tasks BY DEF Tasks
<1>4. TaskStep(r, "main") BY <1>1 DEF TaskStep, TypeOK, TaskStates
<1>5. LockStep(<<r, "main">>) BY <1>1, NoLockStep
<1>6. task'[r]["main"].at \in Held => Holds(r, "main")' BY <1>1, <1>3 DEF LocksHold, Holds
<1>7. TypeOK' BY <1>1, <1>2 DEF TypeOK, Generation
<1>8. Frame(r) BY <1>1, <1>2 DEF Frame, Generation
<1>9. RecordKnown(r)' BY <1>1 DEF RecordKnown, At
<1>10. TabKnown(r)' BY <1>1, <1>2 DEF TabKnown, At, IsActiveHandoffRun, Generation
<1>11. QED BY <1>1, <1>3, <1>4, <1>5, <1>6, <1>7, <1>8, <1>9, <1>10, OneStep DEF Consistent

LEMMA PressShowKeeps == ASSUME Consistent, PressShow PROVE Consistent'
<1>1. PICK r \in DOMAIN run : r = active /\ offered = r
  BY RunLaunches DEF PressShow, Consistent, TypeOK
<1> USE Facts
<1>2. UNCHANGED <<run, active, offered, busy, ready, late, tab, kept, faults>> /\ Goes(r, "click", "manual")
      /\ Asks(r, "click") /\ At(r, "click", "idle")
  BY <1>1 DEF PressShow
<1>3. "main" \in Tasks /\ "click" \in Tasks BY DEF Tasks
<1>4. TaskStep(r, "click") /\ task'[r]["click"].at = "manual" BY <1>1, <1>2, <1>3, GoesStep DEF Stages
<1>5. LockStep(<<r, "click">>) BY <1>2, AskSteps
<1>6. TypeOK' BY <1>1, <1>2, <1>3, <1>4, <1>5, LockDomain DEF TypeOK, TaskStep, TaskStates, Generation
<1>7. Frame(r) BY <1>2 DEF Frame, Generation
<1>8. \A u \in Tasks : u # "click" => task'[r][u] = task[r][u] BY <1>4 DEF TaskStep
<1>9. RecordKnown(r)'
  BY <1>1, <1>2, <1>3, <1>4, <1>8 DEF RecordKnown, At, Early, Held, Worker, Tasks, Steps
<1>10. TabKnown(r)'
  BY <1>1, <1>2, <1>3, <1>4, <1>8 DEF TabKnown, At, IsActiveHandoffRun, Generation, Tasks
<1>11. QED BY <1>1, <1>2, <1>3, <1>4, <1>5, <1>6, <1>7, <1>9, <1>10, OneStep DEF Consistent, Held

LEMMA WorkerEndsKeeps == ASSUME Consistent, WorkerEnds PROVE Consistent'
<1>1. TypeOK /\ LocksHold BY DEF Consistent
<1>2. UNCHANGED <<run, active, offered, busy, ready, late, tab, kept>> /\ faults' \in Nat
  BY <1>1 DEF WorkerEnds, Fails, TypeOK
<1>3. /\ task' \in [Launches -> [Tasks -> TaskStates]]
      /\ \A q \in Launches, u \in Tasks : task'[q][u] = IF u \in Worker THEN Idle ELSE task[q][u]
  BY <1>1, Constants DEF WorkerEnds, TypeOK, TaskStates
<1>4. /\ DOMAIN lock' = DOMAIN lock \ (Launches \X Worker)
      /\ \A w \in DOMAIN lock' : lock'[w] = lock[w] \ (Launches \X Worker)
  BY DEF WorkerEnds, Without
<1>5. TypeOK' BY <1>1, <1>2, <1>3, <1>4 DEF TypeOK, TaskStates, Generation
<1>6. LocksHold'
  <2>1. ASSUME NEW v \in DOMAIN lock', NEW w \in DOMAIN lock', v[1] = w[1], v # w
        PROVE  v \in lock'[w] \/ w \in lock'[v]
    BY <1>1, <1>4, <2>1 DEF LocksHold
  <2>2. ASSUME NEW q \in Launches, NEW u \in Tasks, task'[q][u].at \in Held
        PROVE  Holds(q, u)'
    <3>1. u \notin Worker /\ task[q][u].at \in Held BY <1>3, <2>2 DEF Idle, Held
    <3>2. Holds(q, u) BY <1>1, <3>1 DEF LocksHold
    <3>3. <<q, u>> \notin Launches \X Worker BY <3>1
    <3>4. QED BY <1>4, <3>2, <3>3 DEF Holds
  <2>3. QED BY <2>1, <2>2 DEF LocksHold
<1>7. ASSUME NEW q \in Launches
      PROVE  IF q \in DOMAIN run' THEN RecordKnown(q)' /\ TabKnown(q)' ELSE Untouched(q)'
  <2>1. "main" \in Tasks /\ "click" \in Tasks /\ "clean" \in Tasks /\ "policy" \in Tasks /\ Worker \subseteq Tasks
        /\ {"main", "click", "clean", "policy"} \cap Worker = {} /\ "return" \in Tasks
    BY DEF Tasks, Worker
  <2>2. CASE q \in DOMAIN run
    <3>1. RecordKnown(q) /\ TabKnown(q) BY <2>2 DEF Consistent
    <3>2. \A u \in Tasks : task'[q][u].at = "idle" \/ task'[q][u] = task[q][u] BY <1>3 DEF Idle
    <3>3. \A u \in {"main", "click", "clean", "policy"} : task'[q][u] = task[q][u] BY <1>3, <2>1
    <3>4. RecordKnown(q)' BY <1>2, <2>1, <3>1, <3>2, <3>3 DEF RecordKnown, At, Steps
    <3>5. TabKnown(q)' BY <1>2, <2>1, <3>1, <3>3 DEF TabKnown, At, IsActiveHandoffRun, Generation
    <3>6. QED BY <1>2, <2>2, <3>4, <3>5
  <2>3. CASE q \notin DOMAIN run
    <3>1. Untouched(q) BY <2>3 DEF Consistent
    <3>2. task'[q] = [u \in Tasks |-> Idle] BY <1>3, <3>1 DEF Untouched
    <3>3. QED BY <1>2, <2>3, <3>1, <3>2 DEF Untouched
  <2>4. QED BY <2>2, <2>3
<1>8. Known' BY <1>7 DEF Known
<1>9. BlankTabsAreClosed' BY <1>5, <1>8, TabsAreClosedNext
<1>10. QED BY <1>2, <1>5, <1>6, <1>8, <1>9 DEF Consistent, Known
(* A cancellation marks its launch and starts two of its tasks.            *)
LEMMA CancelTables ==
    ASSUME Consistent, NEW r \in DOMAIN run, MayCancel(r)
    PROVE  /\ Cancelled(r) \in Seq(Runs) /\ Len(Cancelled(r)) = Generation /\ DOMAIN Cancelled(r) = DOMAIN run
           /\ Cancelled(r)[r].cancelled /\ Cancelled(r)[r].tabState = run[r].tabState
           /\ Cancelled(r)[r].cleaning = (run[r].cleaning \/ Removable(r))
           /\ \A q \in DOMAIN run : q # r => Cancelled(r)[q] = run[q]
           /\ CancelTasks(r) \in [Launches -> [Tasks -> TaskStates]]
           /\ \A q \in Launches : q # r => CancelTasks(r)[q] = task[q]
           /\ \A u \in Tasks : u \notin {"policy", "clean"} => CancelTasks(r)[r][u] = task[r][u]
           /\ CancelTasks(r)[r]["policy"].at = "wait" \/ CancelTasks(r)[r]["policy"] = task[r]["policy"]
           /\ IF Removable(r) THEN CancelTasks(r)[r]["clean"].at = "remove"
              ELSE CancelTasks(r)[r]["clean"] = task[r]["clean"]
<1> USE Facts
<1>1. /\ Cancelled(r) \in Seq(Runs) /\ Len(Cancelled(r)) = Generation /\ DOMAIN Cancelled(r) = DOMAIN run
      /\ Cancelled(r)[r].cancelled /\ Cancelled(r)[r].tabState = run[r].tabState
      /\ Cancelled(r)[r].cleaning = (run[r].cleaning \/ Removable(r))
      /\ \A q \in DOMAIN run : q # r => Cancelled(r)[q] = run[q]
  <2> DEFINE new == [run[r] EXCEPT !.cancelled = TRUE, !.cleaning = run[r].cleaning \/ Removable(r)]
  <2>1. new \in Runs /\ new.cancelled /\ new.tabState = run[r].tabState
        /\ new.cleaning = (run[r].cleaning \/ Removable(r))
    BY DEF Runs, Removable
  <2>2. Cancelled(r) = [run EXCEPT ![r] = new] BY DEF Cancelled
  <2> HIDE DEF new
  <2>3. QED BY <2>1, <2>2 DEF TypeOK, Generation
<1>2. "policy" \in Tasks /\ "clean" \in Tasks BY DEF Tasks
<1> DEFINE wait == [Idle EXCEPT !.at = "wait"]
           remove == [Idle EXCEPT !.at = "remove"]
           policy == IF run[r].launched THEN wait ELSE task[r]["policy"]
           clean == IF Removable(r) THEN remove ELSE task[r]["clean"]
<1>3. wait \in TaskStates /\ wait.at = "wait" /\ remove \in TaskStates /\ remove.at = "remove"
  BY Constants DEF Idle, TaskStates, Stages
<1> HIDE DEF wait, remove
<1>4. policy \in TaskStates /\ (policy.at = "wait" \/ policy = task[r]["policy"])
      /\ clean \in TaskStates /\ (IF Removable(r) THEN clean.at = "remove" ELSE clean = task[r]["clean"])
  BY <1>2, <1>3
<1>5. CancelTasks(r) = [task EXCEPT ![r]["policy"] = policy, ![r]["clean"] = clean]
  BY DEF CancelTasks, wait, remove
<1> HIDE DEF policy, clean
<1>6. task \in [Launches -> [Tasks -> TaskStates]] BY DEF TypeOK, TaskStates
<1> DEFINE both == [task EXCEPT ![r]["policy"] = policy, ![r]["clean"] = clean]
<1>7. /\ both \in [Launches -> [Tasks -> TaskStates]]
      /\ \A q \in Launches : q # r => both[q] = task[q]
      /\ \A u \in Tasks : u \notin {"policy", "clean"} => both[r][u] = task[r][u]
      /\ both[r]["policy"] = policy /\ both[r]["clean"] = clean
  BY <1>2, <1>4, <1>6
<1>8. QED BY <1>1, <1>4, <1>5, <1>7

(* The cancelled launch: what was to be presented is not, and its blank    *)
(* tab has somebody to remove it.                                          *)
LEMMA CancelKnown ==
    ASSUME Consistent, NEW r \in DOMAIN run, MayCancel(r),
           run'[r] = Cancelled(r)[r], task'[r] = CancelTasks(r)[r], UNCHANGED <<ready, tab, kept>>,
           offered' \in {offered, 0}
    PROVE  RecordKnown(r)' /\ TabKnown(r)'
<1> USE Facts
<1>1. Tasks = {"main", "click", "policy", "clean", "report", "return"} BY DEF Tasks
<1>2. /\ run'[r].cancelled /\ run'[r].tabState = run[r].tabState
      /\ run'[r].cleaning = (run[r].cleaning \/ Removable(r))
      /\ \A u \in Tasks : u \notin {"policy", "clean"} => task'[r][u] = task[r][u]
      /\ task'[r]["policy"].at = "wait" \/ task'[r]["policy"] = task[r]["policy"]
      /\ IF Removable(r) THEN task'[r]["clean"].at = "remove" ELSE task'[r]["clean"] = task[r]["clean"]
  BY CancelTables
<1>3. RecordKnown(r)'
  BY <1>1, <1>2 DEF RecordKnown, At, Steps, Worker
<1>4. run[r].tabState # "activating" BY DEF MayCancel
<1>5. TabKnown(r)'
  <2>1. ~At(r, "main", "showing") /\ ~At(r, "click", "showing") BY <1>4 DEF TabKnown
  <2>2. "main" \in Tasks /\ "click" \in Tasks BY <1>1
  <2>3. task'[r]["main"] = task[r]["main"] /\ task'[r]["click"] = task[r]["click"] BY <1>2, <2>2
  <2>4. CASE Removable(r)
    <3>1. task[r]["main"].at \notin {"find", "create"} BY <2>4 DEF TabKnown, Removable
    <3>2. At(r, "clean", "remove")' BY <1>2, <2>4 DEF At
    <3>3. QED BY <2>1, <2>3, <3>1, <3>2 DEF TabKnown, At
  <2>5. CASE ~Removable(r)
    <3>1. run'[r].cleaning <=> run[r].cleaning BY <1>2, <2>5
    <3>2. task'[r]["clean"] = task[r]["clean"] BY <1>2, <2>5
    <3>3. QED BY <1>2, <2>1, <2>3, <3>1, <3>2 DEF TabKnown, At
  <2>6. QED BY <2>4, <2>5
<1>6. QED BY <1>3, <1>5

(* A launch that presents nothing is not affected by what others do.       *)
LEMMA OtherKnown ==
    ASSUME Consistent, NEW r \in DOMAIN run, run'[r] = run[r], task'[r] = task[r],
           UNCHANGED <<ready, tab, kept>>, offered' \in {offered, 0},
           ~At(r, "main", "showing"), ~At(r, "click", "showing")
    PROVE  RecordKnown(r)' /\ TabKnown(r)'
<1> USE Facts
<1>1. RecordKnown(r)' BY DEF RecordKnown, At
<1>2. TabKnown(r)' BY DEF TabKnown, At
<1>3. QED BY <1>1, <1>2

(* Only the active launch presents, and not while it may be cancelled.     *)
LEMMA NobodyShows ==
    ASSUME Consistent, NEW r \in DOMAIN run, active = 0 \/ r # active \/ run[active].tabState # "activating"
    PROVE  ~At(r, "main", "showing") /\ ~At(r, "click", "showing")
<1> USE Facts
<1>1. QED BY DEF TabKnown, IsActiveHandoffRun

LEMMA CancelKeeps == ASSUME Consistent, Cancel PROVE Consistent'
<1>1. PICK a \in DOMAIN run : a = active
  BY RunLaunches DEF Cancel, MayCancel, Consistent, TypeOK
<1> USE Facts
<1>2. /\ MayCancel(a) /\ run' = Cancelled(a) /\ task' = CancelTasks(a) /\ active' = 0
      /\ Asks(a, "policy") \/ UNCHANGED lock
      /\ UNCHANGED <<offered, busy, ready, late, tab, kept, faults>>
  BY <1>1 DEF Cancel, CancelHandoffRun
<1>3. "policy" \in Tasks BY DEF Tasks
<1>4. LockStep(<<a, "policy">>) BY <1>2, AskSteps, NoLockStep
<1>5. /\ run' \in Seq(Runs) /\ Generation' = Generation /\ DOMAIN run' = DOMAIN run
      /\ \A q \in DOMAIN run : q # a => run'[q] = run[q]
      /\ task' \in [Launches -> [Tasks -> TaskStates]]
      /\ \A q \in Launches : q # a => task'[q] = task[q]
      /\ \A u \in Tasks : u \notin {"policy", "clean"} => task'[a][u] = task[a][u]
      /\ task'[a]["policy"].at = "wait" \/ task'[a]["policy"] = task[a]["policy"]
      /\ task'[a]["clean"].at = "remove" \/ task'[a]["clean"] = task[a]["clean"]
  BY <1>1, <1>2, CancelTables DEF Generation
<1>6. TypeOK'
  <2>1. active' \in 0 .. Generation BY <1>2, RunLaunches
  <2>2. QED BY <1>2, <1>3, <1>4, <1>5, <2>1, LockDomain DEF TypeOK, TaskStates
<1>7. LocksHold'
  <2>1. task[a]["policy"].at \in {"idle", "wait", "write"} /\ (task[a]["policy"].at = "idle")
    <3>1. ~run[a].cancelled BY <1>2 DEF MayCancel
    <3>2. QED BY <3>1 DEF RecordKnown, At
  <2>2. ASSUME NEW q \in Launches, NEW u \in Tasks, task'[q][u].at \in Held
        PROVE  task[q][u].at \in Held /\ <<q, u>> # <<a, "policy">>
    BY <1>5, <2>1, <2>2 DEF Held
  <2>3. QED BY <1>4, <2>2, LocksKept DEF Consistent
<1>8. ASSUME NEW q \in Launches
      PROVE  IF q \in DOMAIN run' THEN RecordKnown(q)' /\ TabKnown(q)' ELSE Untouched(q)'
  <2>1. CASE q = a
    <3>1. RecordKnown(a)' /\ TabKnown(a)' BY <1>2, CancelKnown
    <3>2. QED BY <1>5, <2>1, <3>1
  <2>2. CASE q # a /\ q \in DOMAIN run
    <3>1. ~At(q, "main", "showing") /\ ~At(q, "click", "showing") BY <1>1, <2>2, NobodyShows
    <3>2. run'[q] = run[q] /\ task'[q] = task[q] BY <1>5, <2>2
    <3>3. RecordKnown(q)' /\ TabKnown(q)' BY <1>2, <2>2, <3>1, <3>2, OtherKnown
    <3>4. QED BY <1>5, <2>2, <3>3
  <2>3. CASE q \notin DOMAIN run
    <3>1. Untouched(q) BY <2>3 DEF Consistent
    <3>2. task'[q] = task[q] BY <1>5, <2>3
    <3>3. QED BY <1>2, <1>5, <2>3, <3>1, <3>2 DEF Untouched
  <2>4. QED BY <2>1, <2>2, <2>3
<1>9. Known' BY <1>8 DEF Known
<1>10. BlankTabsAreClosed' BY <1>6, <1>9, TabsAreClosedNext
<1>11. QED BY <1>2, <1>6, <1>7, <1>9, <1>10 DEF Consistent, Known
(* A new launch, which may cancel the one before it.                       *)
LEMMA StartOutputKeeps == ASSUME Consistent, NEW a \in Actions, StartOutput(a) PROVE Consistent'
<1>r. PICK r \in Launches : r = Generation + 1
  BY RunLaunches, HandoffLaunchAssumption DEF StartOutput, Launches, Consistent
<1> DEFINE new == [NoRun EXCEPT !.handoff = a]
           stopped == IF MayCancel(active) THEN Cancelled(active) ELSE run
           tasks == IF MayCancel(active) THEN CancelTasks(active) ELSE task
<1>0. TypeOK /\ LocksHold BY DEF Consistent
<1>1. Generation \in Nat /\ DOMAIN run = 1 .. Generation /\ r \in Launches /\ r \notin DOMAIN run /\ r # active
  BY <1>0, <1>r, RunLaunches DEF StartOutput, TypeOK
<1>2. new \in Runs /\ new.tabState = "none" /\ ~new.cleaning BY DEF NoRun, Runs
<1>3. active # 0 => active \in DOMAIN run /\ run[active].tabState # "activating"
  BY <1>0, <1>1 DEF StartOutput, TypeOK
<1>4. /\ stopped \in Seq(Runs) /\ Len(stopped) = Generation /\ DOMAIN stopped = DOMAIN run
      /\ \A q \in DOMAIN run : q # active => stopped[q] = run[q]
      /\ tasks \in [Launches -> [Tasks -> TaskStates]]
      /\ \A q \in Launches : q # active => tasks[q] = task[q]
      /\ \A q \in Launches, u \in Tasks : u \notin {"policy", "clean"} => tasks[q][u] = task[q][u]
      /\ \A q \in Launches : /\ tasks[q]["policy"].at = "wait" \/ tasks[q]["policy"] = task[q]["policy"]
                             /\ tasks[q]["clean"].at = "remove" \/ tasks[q]["clean"] = task[q]["clean"]
  <2>1. CASE MayCancel(active)
    <3>1. active \in DOMAIN run BY <1>3, <2>1 DEF MayCancel
    <3>2. QED BY <2>1, <3>1, CancelTables
  <2>2. CASE ~MayCancel(active) BY <1>0, <2>2 DEF TypeOK, TaskStates, Generation
  <2>3. QED BY <2>1, <2>2
<1>5. /\ run' = Append(stopped, new) /\ task' = [tasks EXCEPT ![r]["main"].at = "find"] /\ active' = r
      /\ Asks(active, "policy") \/ UNCHANGED lock
      /\ busy' = TRUE /\ offered' = 0 /\ UNCHANGED <<ready, late, tab, kept, faults>>
      /\ ~MayCancel(active) => UNCHANGED lock
      /\ Generation < MaxLaunches
  <2>1. Asks(active, "policy") \/ UNCHANGED lock BY DEF StartOutput
  <2>2. ~MayCancel(active) => UNCHANGED lock BY DEF StartOutput
  <2>3. QED BY <1>r, <2>1, <2>2 DEF StartOutput
<1> HIDE DEF new, stopped, tasks
<1>6. /\ run' \in Seq(Runs) /\ Generation' = Generation + 1 /\ DOMAIN run' = DOMAIN run \cup {r}
      /\ run'[r] = new /\ \A q \in DOMAIN run : run'[q] = stopped[q]
  <2>1. run' \in Seq(Runs) /\ Len(run') = Generation + 1 BY <1>1, <1>2, <1>4, <1>5
  <2>2. \A q \in 1 .. Generation : run'[q] = stopped[q] BY <1>1, <1>2, <1>4, <1>5
  <2>3. run'[Generation + 1] = new BY <1>1, <1>2, <1>4, <1>5
  <2>4. DOMAIN run' = 1 .. (Generation + 1) BY <2>1
  <2>5. DOMAIN run' = DOMAIN run \cup {Generation + 1} BY <1>1, <2>4
  <2>6. QED BY <1>1, <1>r, <2>1, <2>2, <2>3, <2>5 DEF Generation
<1>7. /\ task' \in [Launches -> [Tasks -> TaskStates]] /\ \A q \in Launches : q # r => task'[q] = tasks[q]
      /\ task'[r]["main"].at = "find" /\ \A u \in Tasks : u # "main" => task'[r][u] = tasks[r][u]
  <2> DEFINE first == [tasks[r]["main"] EXCEPT !.at = "find"]
  <2>1. "main" \in Tasks BY DEF Tasks
  <2>2. tasks[r]["main"] \in TaskStates BY <1>1, <1>4, <2>1
  <2>3. first \in TaskStates /\ first.at = "find" BY <2>2 DEF TaskStates, Stages, Early
  <2>4. task' = [tasks EXCEPT ![r]["main"] = first] BY <1>5
  <2> HIDE DEF first
  <2>5. QED BY <1>1, <1>4, <2>1, <2>3, <2>4
<1>8. \A u \in Tasks : u # "main" => task'[r][u] = Idle
  <2>1. task[r] = [t \in Tasks |-> Idle] BY <1>1 DEF Consistent, Untouched
  <2>2. QED BY <1>1, <1>4, <1>7, <2>1
<1>9. LockStep(<<active, "policy">>) BY <1>5, AskSteps, NoLockStep
<1>10. TypeOK'
  <2>1. active' \in 0 .. Generation' /\ offered' \in 0 .. Generation' /\ Generation' <= MaxLaunches
    BY <1>1, <1>r, <1>5, <1>6, HandoffLaunchAssumption
  <2>2. DOMAIN lock' \subseteq Launches \X Tasks
    <3>1. CASE MayCancel(active)
      <4>1. active \in Launches BY <1>0, <1>3, <3>1, RunLaunches DEF MayCancel
      <4>2. "policy" \in Tasks BY DEF Tasks
      <4>3. QED BY <1>0, <1>9, <4>1, <4>2, LockDomain
    <3>2. CASE ~MayCancel(active) BY <1>0, <1>5, <3>2 DEF TypeOK
    <3>3. QED BY <3>1, <3>2
  <2>3. QED BY <1>0, <1>5, <1>6, <1>7, <2>1, <2>2 DEF TypeOK, TaskStates
<1>11. LocksHold'
  <2>1. ASSUME NEW q \in Launches, NEW u \in Tasks, task'[q][u].at \in Held
        PROVE  Holds(q, u)'
    <3>1. q # r BY <1>7, <1>8, <2>1 DEF Held, Idle
    <3>2. task'[q][u] = task[q][u] BY <1>4, <1>7, <2>1, <3>1 DEF Held
    <3>3. Holds(q, u) BY <1>0, <2>1, <3>2 DEF LocksHold
    <3>4. CASE <<q, u>> # <<active, "policy">>
      BY <1>9, <3>3, <3>4 DEF LockStep, Granted, Holds
    <3>5. CASE <<q, u>> = <<active, "policy">>
      <4>1. CASE MayCancel(active)
        <5>1. active \in DOMAIN run /\ ~run[active].cancelled BY <1>3, <4>1 DEF MayCancel
        <5>2. RecordKnown(active) BY <5>1, Facts
        <5>3. At(active, "policy", "idle") BY <5>1, <5>2 DEF RecordKnown
        <5>4. QED BY <2>1, <3>2, <3>5, <5>3 DEF At, Held
      <4>2. CASE ~MayCancel(active) BY <1>5, <3>3, <4>2 DEF Holds
      <4>3. QED BY <4>1, <4>2
    <3>6. QED BY <3>4, <3>5
  <2>2. Ordered(lock') BY <1>0, <1>9 DEF LockStep, LocksHold, Ordered
  <2>3. QED BY <2>1, <2>2 DEF LocksHold, Ordered
<1>12. ASSUME NEW q \in Launches
       PROVE  IF q \in DOMAIN run' THEN RecordKnown(q)' /\ TabKnown(q)' ELSE Untouched(q)'
  <2>1. CASE q = r
    <3>1. ready[r] = NoRecord /\ tab[r] = NoTab BY <1>1 DEF Consistent, Untouched
    <3>2. Tasks = {"main", "click", "policy", "clean", "report", "return"} BY DEF Tasks
    <3>3. RecordKnown(r)' BY <1>5, <1>7, <1>8, <3>1, <3>2 DEF RecordKnown, At, Steps, Early, Worker, Idle, NoRecord
    <3>4. r # 0 BY <1>1 DEF Launches
    <3>5. TabKnown(r)' BY <1>2, <1>5, <1>6, <1>7, <1>8, <3>1, <3>2, <3>4 DEF TabKnown, At, Idle, NoTab
    <3>6. QED BY <1>6, <2>1, <3>3, <3>5
  <2>2. CASE q = active /\ MayCancel(active)
    <3>1. q \in DOMAIN run BY <1>3, <2>2 DEF MayCancel
    <3>2. MayCancel(q) /\ run'[q] = Cancelled(q)[q] /\ task'[q] = CancelTasks(q)[q]
      BY <1>1, <1>6, <1>7, <2>2, <3>1 DEF stopped, tasks
    <3>3. RecordKnown(q)' /\ TabKnown(q)' BY <1>5, <3>1, <3>2, CancelKnown
    <3>4. QED BY <1>6, <3>1, <3>3
  <2>3. CASE q # r /\ ~(q = active /\ MayCancel(active)) /\ q \in DOMAIN run
    <3>1. run'[q] = run[q] /\ task'[q] = task[q] BY <1>4, <1>6, <1>7, <2>3 DEF stopped, tasks
    <3>2. ~At(q, "main", "showing") /\ ~At(q, "click", "showing") BY <1>3, <2>3, NobodyShows
    <3>3. RecordKnown(q)' /\ TabKnown(q)' BY <1>5, <2>3, <3>1, <3>2, OtherKnown
    <3>4. QED BY <1>6, <2>3, <3>3
  <2>4. CASE q # r /\ q \notin DOMAIN run
    <3>1. Untouched(q) BY <2>4 DEF Consistent
    <3>2. q # active
      <4>1. q # 0 BY DEF Launches
      <4>2. QED BY <1>3, <2>4, <4>1
    <3>3. task'[q] = task[q] BY <1>4, <1>7, <2>4, <3>2
    <3>4. QED BY <1>5, <1>6, <2>4, <3>1, <3>3 DEF Untouched
  <2>5. QED BY <2>1, <2>2, <2>3, <2>4
<1>13. Known' BY <1>12 DEF Known
<1>14. BlankTabsAreClosed' BY <1>10, <1>13, TabsAreClosedNext
<1>15. QED BY <1>5, <1>10, <1>11, <1>13, <1>14 DEF Consistent, Known
----------------------------------------------------------------------------
LEMMA InitConsistent == Init => Consistent
<1> SUFFICES ASSUME Init PROVE Consistent
  OBVIOUS
<1>1. run = <<>> /\ Generation = 0 /\ DOMAIN run = {} BY DEF Init, Generation
<1>2. MaxLaunches \in Nat /\ MaxRestores \in Nat BY HandoffLaunchAssumption
<1>3. run \in Seq(Runs) /\ Generation <= MaxLaunches BY <1>1, <1>2
<1>4. TypeOK
  <2>1. task \in [Launches -> [Tasks -> TaskStates]] /\ ready \in [Launches -> Records] /\ tab \in [Launches -> Tabs]
    BY Constants DEF Init
  <2>2. DOMAIN lock \subseteq Launches \X Tasks BY DEF Init
  <2>3. active \in 0 .. Generation /\ offered \in 0 .. Generation BY <1>1 DEF Init
  <2>4. QED BY <1>3, <2>1, <2>2, <2>3 DEF Init, TypeOK, TaskStates
<1>5. LocksHold BY DEF Init, LocksHold, Idle, Held
<1>6. \A r \in Launches : Untouched(r) BY DEF Init, Untouched
<1>7. Known BY <1>1, <1>6 DEF Known
<1>8. BlankTabsAreClosed BY <1>4, <1>7, TabsAreClosed
<1>9. QED BY <1>4, <1>5, <1>7, <1>8 DEF Init, Consistent, Known

LEMMA EditorKeeps == ASSUME Consistent, NEW r \in DOMAIN run, Editor(r) PROVE Consistent'
<1>1. CASE \/ Find(r) \/ Create(r) \/ Look(r) \/ Locked(r) \/ SetReady(r) \/ Navigate(r)
           \/ WaitForPageReady(r) \/ WaitEnds(r) \/ Catch(r) \/ CleanUp(r)
  BY <1>1, FindKeeps, CreateKeeps, LookKeeps, LockedKeeps, SetReadyKeeps, NavigateKeeps, WaitKeeps,
     CatchKeeps, CleanUpKeeps
<1>2. CASE \E t \in {"main", "click"} : ReadToShow(r, t) \/ ShowTab(r, t) \/ ShowFails(r, t) \/ MarkActivated(r, t)
  BY <1>2, ReadToShowKeeps, ShowTabKeeps, ShowFailsKeeps, MarkActivatedKeeps
<1>3. CASE \E t \in {"main", "click", "policy"} : ReadPolicy(r, t) \/ WritePolicy(r, t) \/ PolicyFails(r, t)
  <2>1. PICK t \in PolicyTasks : ReadPolicy(r, t) \/ WritePolicy(r, t) \/ PolicyFails(r, t)
    BY <1>3 DEF PolicyTasks
  <2>2. QED BY <2>1, ReadPolicyKeeps, WritePolicyKeeps, PolicyFailsKeeps
<1>4. QED BY <1>1, <1>2, <1>3 DEF Editor

LEMMA NextConsistent == Consistent /\ [Next]_vars => Consistent'
<1> SUFFICES ASSUME Consistent, [Next]_vars PROVE Consistent'
  OBVIOUS
<1>1. CASE Person BY <1>1, CancelKeeps, PressShowKeeps, StartOutputKeeps DEF Person
<1>2. CASE WorkerEnds BY <1>2, WorkerEndsKeeps
<1>3. CASE \E r \in DOMAIN run : \/ Editor(r) \/ ServiceWorker(r) \/ Deadline(r) \/ CloseTab(r)
                                 \/ \E t \in Worker : PageAsks(r, t)
  BY <1>3, EditorKeeps, WorkerReadsKeeps, WorkerWritesKeeps, DeadlineKeeps, CloseTabKeeps, PageAsksKeeps
     DEF ServiceWorker
<1>4. CASE UNCHANGED vars
  <2>1. TypeOK' BY <1>4 DEF vars, Consistent, TypeOK, Generation
  <2>2. LocksHold' BY <1>4 DEF vars, Consistent, LocksHold, Holds
  <2>3. BlankTabsAreClosed' BY <1>4 DEF vars, Consistent, BlankTabsAreClosed, Quiet, At
  <2>4. Known' BY <1>4 DEF vars, Consistent, Known, RecordKnown, TabKnown, Untouched, At, IsActiveHandoffRun, Generation
  <2>5. QED BY <1>4, <2>1, <2>2, <2>3, <2>4 DEF vars, Consistent, Known
<1>5. QED BY <1>1, <1>2, <1>3, <1>4 DEF Next

(* No launch leaves something behind, whatever is pressed, reported,       *)
(* cancelled or fails while it is under way.                               *)
THEOREM ConsistentAlways == Spec => []Consistent
<1>1. Spec => Init /\ [][Next]_vars BY DEF Spec
<1>2. QED BY <1>1, InitConsistent, NextConsistent, PTL

(* What a step shows was active: of all steps only ShowTab shows a tab.    *)
LEMMA StepShows == Consistent /\ [Next]_vars => \A r \in Launches : ShownIfActive(r)
<1> SUFFICES ASSUME Consistent, [Next]_vars, NEW r \in Launches, tab[r].shown # tab'[r].shown
             PROVE  ~run[r].cancelled /\ active = r
  BY DEF ShownIfActive
<1>1. tab \in [Launches -> Tabs] BY DEF Consistent, TypeOK
<1>2. ~UNCHANGED tab OBVIOUS
<1>3. ~UNCHANGED vars /\ ~Person /\ ~WorkerEnds
  BY <1>2 DEF vars, Person, Cancel, PressShow, StartOutput, WorkerEnds
<1>4. PICK q \in DOMAIN run : Editor(q) \/ ServiceWorker(q) \/ Deadline(q) \/ CloseTab(q) \/ \E t \in Worker : PageAsks(q, t)
  BY <1>3 DEF Next
<1>5. ~ServiceWorker(q) /\ ~Deadline(q) /\ ~(\E t \in Worker : PageAsks(q, t))
  BY <1>2 DEF ServiceWorker, WorkerReads, WorkerWrites, Deadline, PageAsks
<1>6. ~(\E at : tab' = [tab EXCEPT ![q].at = at])
  BY <1>1 DEF Tabs
<1>7. ~CloseTab(q) BY <1>6 DEF CloseTab
<1>8. ~Find(q) /\ ~Create(q) /\ ~Look(q) /\ ~Locked(q) /\ ~SetReady(q) /\ ~Navigate(q)
      /\ ~WaitForPageReady(q) /\ ~WaitEnds(q)
  BY <1>2, <1>6 DEF Find, Create, Look, Locked, SetReady, Navigate, WaitForPageReady, WaitEnds
<1>9. ~Catch(q) /\ ~CleanUp(q)
  BY <1>2, <1>6 DEF Catch, CleanUp
<1>10. PICK t \in {"main", "click"} : ShowTab(q, t)
  BY <1>2, <1>4, <1>5, <1>7, <1>8, <1>9
     DEF Editor, ReadToShow, ShowFails, MarkActivated, ReadPolicy, WritePolicy, PolicyFails
<1>11. q = r BY <1>1, <1>10 DEF ShowTab
<1>12. At(q, t, "showing") BY <1>10 DEF ShowTab, Shows
<1>13. TabKnown(q) BY Facts
<1>14. QED BY <1>11, <1>12, <1>13 DEF TabKnown, IsActiveHandoffRun

(* A record is written by SetReady, which makes it, by MarkActivated,      *)
(* which leaves the policy, and by the two that wrote what they had read.  *)
LEMMA StepKeepsCancelled == Consistent /\ [Next]_vars => \A r \in Launches : StaysCancelled(r)
<1> SUFFICES ASSUME Consistent, [Next]_vars, NEW r \in Launches,
                    ready[r].policy = "cancelled", ready'[r].policy # "cancelled"
             PROVE  FALSE
  BY DEF StaysCancelled
<1>1. ready \in [Launches -> Records] BY DEF Consistent, TypeOK
<1>2. ~UNCHANGED ready OBVIOUS
<1>3. ~UNCHANGED vars /\ ~Person /\ ~WorkerEnds
  BY <1>2 DEF vars, Person, Cancel, PressShow, StartOutput, WorkerEnds
<1>4. PICK q \in DOMAIN run : Editor(q) \/ ServiceWorker(q) \/ Deadline(q) \/ CloseTab(q) \/ \E t \in Worker : PageAsks(q, t)
  BY <1>3 DEF Next
<1> USE Facts
<1>5. ~Deadline(q) /\ ~CloseTab(q) /\ ~(\E t \in Worker : PageAsks(q, t))
  BY <1>2 DEF Deadline, CloseTab, PageAsks
<1>6. ~(\E new : ready' = [ready EXCEPT ![q] = new]) \/ q = r
  BY <1>1
<1>7. ~Find(q) /\ ~Create(q) /\ ~Look(q) /\ ~Locked(q) /\ ~Navigate(q)
      /\ ~WaitForPageReady(q) /\ ~WaitEnds(q) /\ ~Catch(q) /\ ~CleanUp(q)
  BY <1>2 DEF Find, Create, Look, Locked, Navigate, WaitForPageReady, WaitEnds, Main, Catch, CleanUp
<1>8. CASE SetReady(q)
  <2>1. ready[q] = NoRecord BY <1>8 DEF SetReady, Main, RecordKnown, At, Early
  <2>2. ready' = [ready EXCEPT ![q] = [NoRecord EXCEPT !.policy = "auto"]] BY <1>2, <1>8 DEF SetReady
  <2>3. q = r BY <1>6, <2>2
  <2>4. QED BY <2>1, <2>3 DEF NoRecord
<1>9. ASSUME NEW t \in {"main", "click"}, MarkActivated(q, t)
      PROVE  FALSE
  <2>1. ready' = [ready EXCEPT ![q].activated = TRUE] BY <1>2, <1>9 DEF MarkActivated
  <2>2. ready'[r].policy = ready[r].policy BY <1>1, <2>1 DEF Records
  <2>3. QED BY <2>2
<1>10. ASSUME NEW t \in PolicyTasks, WritePolicy(q, t)
       PROVE  FALSE
  <2>1. t \in Tasks BY DEF PolicyTasks, Tasks
  <2>2. ready' = [ready EXCEPT ![q] = [task[q][t].read EXCEPT !.policy = Sets(t)]] /\ At(q, t, "write")
    BY <1>2, <1>10 DEF WritePolicy
  <2>3. task[q][t].read = ready[q] BY <2>1, <2>2 DEF RecordKnown
  <2>4. q = r BY <1>6, <2>2
  <2>5. CASE t = "policy"
    <3>1. ready'[q].policy = "cancelled" BY <1>1, <2>2, <2>3, <2>5 DEF Sets, Records
    <3>2. QED BY <2>4, <3>1
  <2>6. CASE t # "policy"
    <3>1. ready[q].policy # "cancelled" BY <2>2, <2>6 DEF RecordKnown, PolicyTasks
    <3>2. QED BY <2>4, <3>1
  <2>7. QED BY <2>5, <2>6
<1>11. ASSUME NEW t \in Worker, WorkerWrites(q, t)
       PROVE  FALSE
  <2>1. PICK new : ready' = [ready EXCEPT ![q] = new] BY <1>11 DEF WorkerWrites
  <2>2. q = r BY <1>6, <2>1
  <2>3. ready[q].policy \in {"auto", "manual"} BY <1>11 DEF WorkerWrites, RecordKnown
  <2>4. QED BY <2>2, <2>3
<1>12. ~(\E t \in {"main", "click"} : ReadToShow(q, t) \/ ShowTab(q, t) \/ ShowFails(q, t))
       /\ ~(\E t \in {"main", "click", "policy"} : ReadPolicy(q, t) \/ PolicyFails(q, t))
       /\ ~(\E t \in Worker : WorkerReads(q, t))
  BY <1>2 DEF ReadToShow, ShowTab, ShowFails, Shows, ReadPolicy, PolicyFails, WorkerReads
<1>13. QED BY <1>4, <1>5, <1>7, <1>8, <1>9, <1>10, <1>11, <1>12 DEF Editor, ServiceWorker, PolicyTasks

(* A tab is never shown for a launch that was cancelled or given up, and a *)
(* record that says cancelled says so for good.                            *)
THEOREM CancelHoldsAlways == Spec => CancelHolds
<1>1. Consistent /\ [Next]_vars => [\A r \in Launches : ShownIfActive(r)]_vars BY StepShows
<1>2. Consistent /\ [Next]_vars => [\A r \in Launches : StaysCancelled(r)]_vars BY StepKeepsCancelled
<1>3. Spec => CancelledStaysHidden BY <1>1, ConsistentAlways, PTL DEF CancelledStaysHidden, Spec
<1>4. Spec => CancelIsNotUndone BY <1>2, ConsistentAlways, PTL DEF CancelIsNotUndone, Spec
<1>5. QED BY <1>3, <1>4 DEF CancelHolds
=============================================================================
