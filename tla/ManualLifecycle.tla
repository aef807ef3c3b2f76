-------------------------- MODULE ManualLifecycle --------------------------
(***************************************************************************)
(* A manual on Supabase and the pages that edit it: the draft is edited    *)
(* step by step, published, edited again in a next draft, and archived.    *)
(*                                                                         *)
(* A page (app-assets.ts) shows one snapshot of the manual and keeps the   *)
(* unsaved forms of its user.  It has one mutation under way at a time and *)
(* loads the manual again after it.  A mutation goes through the worker    *)
(* (manual-edit-router.ts), which checks the user's role and reads which   *)
(* draft is current, to a function of the database that locks the manual,  *)
(* so that every write is one step.                                        *)
(*                                                                         *)
(* The clock stands for updated_at: every writing transaction has its own. *)
(* A text is named by the time it was written first, a step by the time    *)
(* and the place at which it was inserted.                                 *)
(***************************************************************************)
EXTENDS Naturals, FiniteSets, Sequences, SequencesExt

CONSTANTS Pages,
          MaxRevisions, MaxWrites, MaxForms, MaxLoads, MaxFaults, \* bounds
          StepLimit,     \* active steps of a revision (in the code: 200)
          None

ASSUME BoundAssumption ==
  MaxRevisions \in Nat \ {0} /\ MaxWrites \in Nat \ {0} /\ MaxForms \in Nat
  /\ MaxLoads \in Nat /\ MaxFaults \in Nat
ASSUME LimitAssumption == StepLimit \in Nat \ {0}

VARIABLES manual,    \* the row of the manual
          revisions, \* its revisions, with their active steps in order
          editors,   \* the pages whose user may edit (owner, admin or editor)
          clock,     \* the time of the latest write
          request,   \* the calls of the database functions that are under way
          loads,     \* each page's detail requests that are under way
          page,      \* what each page shows
          forms,     \* the unsaved forms of each page
          faults

server == <<manual, revisions>>
client == <<page, forms, loads>>
vars == <<manual, revisions, editors, clock, request, loads, page, forms, faults>>

Revs == 1..MaxRevisions
Times == 0..MaxWrites
Ids == (Times \ {0}) \X Nat

\* What a page may be saving: nothing, the basic information, a step, anything else.
\* A page that is rendered anew meanwhile has forms that take input again.
Nothing == <<0, 0>>
Basics == <<0, 1>>
Other == <<0, 2>>
Keys == Ids \cup {Basics}

NoRequest == [kind |-> "none"]
NoRevision == [state |-> "none", version |-> 0, text |-> 0, steps |-> <<>>]
Empty == [screen |-> "list", status |-> "idle", shown |-> None, saving |-> Nothing, wrote |-> 0,
          rerendered |-> FALSE]

Kinds == {"basics", "append", "update", "delete", "reorder", "publish", "archive", "next"}
States == {"none", "draft", "published", "superseded"}

Manuals == [draft : {0} \cup Revs, published : {0} \cup Revs, archived : BOOLEAN, version : Times]
Steps == [id : Ids, version : Times, text : Times]
Revisions == [state : States, version : Times, text : Times, steps : Seq(Steps)]
Details == [rev : Revs, state : States, version : Times, text : Times, steps : Seq(Steps),
            manual : Times, published : {0} \cup Revs, canEdit : BOOLEAN]
Forms == [key : Keys, on : Times, version : Times]
Requests == [kind : Kinds, rev : Revs, id : Keys \cup {Other}, expected : Times, order : Seq(Ids),
             seen : Details \cup {None}, on : Times, keep : SUBSET Forms]
Loads == [snap : Details \cup {None}, latest : BOOLEAN, finish : BOOLEAN, keep : SUBSET Forms]
Screens == [screen : {"list", "detail"}, status : {"idle", "loading", "loaded", "error"},
            shown : Details \cup {None}, saving : Keys \cup {Nothing, Other}, wrote : Times,
            rerendered : BOOLEAN]

ASSUME NoneAssumption == None \notin Details

TypeOK ==
  /\ manual \in Manuals
  /\ revisions \in [Revs -> Revisions]
  /\ \A r \in Revs : Len(revisions[r].steps) <= StepLimit
  /\ editors \subseteq Pages
  /\ clock \in 1..MaxWrites
  /\ request \in [Pages -> Requests \cup {NoRequest}]
  /\ loads \in [Pages -> Seq(Loads)]
  /\ page \in [Pages -> Screens]
  /\ forms \in [Pages -> SUBSET Forms]
  /\ \A p \in Pages : page[p].status = "loaded" => page[p].shown # None
  /\ faults \in 0..MaxFaults

OneStep(n, t) == <<[id |-> <<1, n>>, version |-> t, text |-> 1]>>

\* A manual with one step, as create_manual makes it, or published once and
\* with its next draft; every page is on the list.  Faults are spent on the second,
\* whose runs contain the steps of the first.
Init ==
  /\ \/ /\ manual = [draft |-> 1, published |-> 0, archived |-> FALSE, version |-> 1]
        /\ revisions = [r \in Revs |->
             IF r = 1 THEN [state |-> "draft", version |-> 1, text |-> 1, steps |-> OneStep(1, 1)]
                      ELSE NoRevision]
        /\ faults = MaxFaults
     \/ /\ MaxRevisions > 1
        /\ manual = [draft |-> 2, published |-> 1, archived |-> FALSE, version |-> 1]
        /\ revisions = [r \in Revs |->
             IF r = 1 THEN [state |-> "published", version |-> 0, text |-> 1, steps |-> OneStep(1, 0)]
             ELSE IF r = 2 THEN [state |-> "draft", version |-> 1, text |-> 1, steps |-> OneStep(2, 1)]
                      ELSE NoRevision]
        /\ faults = 0
  /\ editors = Pages
  /\ clock = 1
  /\ request = [p \in Pages |-> NoRequest]
  /\ loads = [p \in Pages |-> <<>>]
  /\ page = [p \in Pages |-> Empty]
  /\ forms = [p \in Pages |-> {}]

\* Lost calls, failed loads, loads that take long and roles taken away are bounded together.
Costs(n) == faults + n <= MaxFaults /\ faults' = faults + n

-----------------------------------------------------------------------------
(* The snapshot a page shows. *)

\* get_manual_edit_detail: one statement, so one moment of the manual.
Snapshot(m, revs, canEdit) ==
  IF m.archived THEN None
  ELSE LET r == IF m.draft # 0 THEN m.draft ELSE m.published
       IN [rev |-> r, state |-> revs[r].state, version |-> revs[r].version,
           text |-> revs[r].text, steps |-> revs[r].steps,
           manual |-> m.version, published |-> m.published, canEdit |-> canEdit]
Detail(p) == Snapshot(manual, revisions, p \in editors)

Editable(d) == d # None /\ d.canEdit /\ d.state = "draft"

StepIds(steps) == {steps[i].id : i \in DOMAIN steps}
StepOf(steps, id) == CHOOSE s \in ToSet(steps) : s.id = id

\* A faulty variant: the version that publication compares leaves out the steps.
BasicsOnly(d) == <<d.version>>

\* The md5 of the revision's and the steps' versions, in order.
ContentVersion(d) ==
  <<d.version, [i \in DOMAIN d.steps |-> <<d.steps[i].id, d.steps[i].version>>]>>

\* What a reader sees.
Content(d) == <<d.text, [i \in DOMAIN d.steps |-> d.steps[i].text]>>

-----------------------------------------------------------------------------
(* The page: what it shows and what its user types. *)

Busy(p) == page[p].saving # Nothing
OnDetail(p) == page[p].screen = "detail"
Ready(p) == page[p].screen = "detail" /\ page[p].status = "loaded" /\ ~Busy(p)

\* A faulty variant: answers of superseded loads are taken for the latest.
KeepsAll(ls) == ls

\* A new load counts up manualRequestSequence: earlier ones are superseded.
Superseded(ls) == [i \in DOMAIN ls |-> [ls[i] EXCEPT !.latest = FALSE]]

\* A load under way.  A user's load carries the snapshot from its start on, one that
\* ends a mutation takes it when it is shown: what others do in between commutes.
StartLoad(p, finish, keep) ==
  /\ Len(loads[p]) < MaxLoads
  /\ loads' = [loads EXCEPT ![p] =
       Append(Superseded(@), [snap |-> IF finish THEN None ELSE Detail(p), latest |-> TRUE,
                              finish |-> finish, keep |-> keep])]

\* Back to the list, which is loaded again when it was invalidated.
OpenManualList(p) ==
  /\ page[p].screen = "detail"
  /\ page' = [page EXCEPT ![p].screen = "list", ![p].status = "idle", ![p].shown = None]
  /\ forms' = [forms EXCEPT ![p] = {}]
  /\ \/ loads' = [loads EXCEPT ![p] = Superseded(@)]
     \/ loads[p] # <<>> /\ UNCHANGED loads
  /\ UNCHANGED <<server, editors, clock, request, faults>>

\* A mutation closes the forms on the screen, not those that are rendered later.
TakesInput(p) ==
  OnDetail(p) /\ page[p].status = "loaded" /\ (Busy(p) => page[p].rerendered)

\* The user changes a form; the form knows the version it was rendered from.
Type(p) ==
  /\ TakesInput(p) /\ Editable(page[p].shown) /\ Cardinality(forms[p]) < MaxForms
  /\ LET d == page[p].shown
         new == {[key |-> Basics, on |-> d.text, version |-> d.version]}
                \cup {[key |-> s.id, on |-> s.text, version |-> s.version] : s \in ToSet(d.steps)}
     IN \E f \in new : /\ \A g \in forms[p] : g.key # f.key
                       /\ forms' = [forms EXCEPT ![p] = @ \cup {f}]
  /\ UNCHANGED <<server, editors, clock, request, loads, page, faults>>

\* A faulty variant: a restored form is given the version of the new snapshot.
Rebased(keep, d) ==
  {[f EXCEPT !.version = IF f.key = Basics THEN d.version ELSE StepOf(d.steps, f.key).version] :
     f \in {g \in keep : Editable(d) /\ (g.key = Basics \/ g.key \in StepIds(d.steps))}}

\* restoreManualDetailDrafts: unsaved input returns with the version it was typed over.
Restored(keep, d) ==
  {f \in keep : Editable(d) /\ (f.key = Basics \/ f.key \in StepIds(d.steps))}

\* The page after a load failed: after a mutation the old snapshot stays on the
\* screen, beside the error.
StaysOn(pg, finish) == finish /\ pg.screen = "detail" /\ pg.shown # None
Freed(pg, finish) == IF finish THEN [pg EXCEPT !.saving = Nothing, !.rerendered = FALSE] ELSE pg
AfterError(pg, finish) ==
  IF StaysOn(pg, finish)
  THEN [Freed(pg, finish) EXCEPT !.wrote = 0]
  ELSE [Freed(pg, finish) EXCEPT !.status = "error", !.shown = None, !.wrote = 0]

\* An answer of loadManualDetail.  The end of a mutation's own load frees the page.
ShowDetail(p, pg, finish, keep, d) ==
  IF d # None
  THEN /\ page' = [page EXCEPT ![p] = [Freed(pg, finish) EXCEPT
                     !.status = "loaded", !.shown = d, !.rerendered = ~finish /\ pg.saving # Nothing]]
       /\ forms' = [forms EXCEPT ![p] = IF pg.screen = "detail" THEN Restored(keep, d) ELSE {}]
  ELSE /\ page' = [page EXCEPT ![p] = AfterError(pg, finish)]
       /\ forms' = [forms EXCEPT ![p] = IF StaysOn(pg, finish) THEN @ ELSE {}]

IgnoreStale(p, l) ==
  /\ page' = [page EXCEPT ![p] = Freed(@, l.finish)]
  /\ forms' = [forms EXCEPT ![p] = IF l.finish THEN {} ELSE @]

\* A load the user asked for.  It is answered at once, or takes long while the page
\* waits for a mutation, so that it can be overtaken; otherwise nothing happens before it.
UserLoad(p) ==
  LET pg == [page[p] EXCEPT !.screen = "detail", !.status = "loading",
                            !.shown = IF OnDetail(p) THEN @ ELSE None]
  IN \/ /\ Busy(p) /\ Costs(1)
        /\ page' = [page EXCEPT ![p] = pg]
        /\ forms' = [forms EXCEPT ![p] = {}]
        /\ StartLoad(p, FALSE, {})
     \/ /\ ~Busy(p)
        /\ \E d \in {Detail(p), None} :
             /\ Costs(IF d = Detail(p) THEN 0 ELSE 1)
             /\ ShowDetail(p, pg, FALSE, {}, d)
        /\ loads' = [loads EXCEPT ![p] = Superseded(@)]

OpenManualDetail(p) ==
  /\ ~OnDetail(p)
  /\ UserLoad(p)
  /\ UNCHANGED <<server, editors, clock, request>>

\* The reload button drops the forms, and works during a mutation too.
Reload(p) ==
  /\ OnDetail(p)
  /\ UserLoad(p)
  /\ UNCHANGED <<server, editors, clock, request>>

FinishLoad(p, i) ==
  /\ i \in DOMAIN loads[p]
  /\ loads' = [loads EXCEPT ![p] = RemoveAt(@, i)]
  /\ LET l == loads[p][i]
         d == IF l.finish THEN Detail(p) ELSE l.snap
     IN IF l.latest
        THEN \/ ShowDetail(p, page[p], l.finish, l.keep, d) /\ Costs(0)
             \/ d # None /\ ShowDetail(p, page[p], l.finish, l.keep, None) /\ Costs(1)
        ELSE IgnoreStale(p, l) /\ Costs(0)
  /\ UNCHANGED <<server, editors, clock, request>>

\* The list of the members arrives and renders the page anew from its snapshot, or as
\* waiting for the load that is under way: what was typed is gone.
RenderAgain(p) ==
  /\ OnDetail(p) /\ page[p].shown # None /\ Costs(1)
  /\ page' = [page EXCEPT
       ![p].status = IF \E i \in DOMAIN loads[p] : loads[p][i].latest THEN "loading" ELSE "loaded",
       ![p].rerendered = Busy(p)]
  /\ forms' = [forms EXCEPT ![p] = {}]
  /\ UNCHANGED <<server, editors, clock, request, loads>>

-----------------------------------------------------------------------------
(* runDetailMutation: how the page takes the outcome of a mutation. *)

\* A faulty variant: the unsaved forms are not carried over a mutation.
KeepsNone(p, key) == {}

\* captureManualDetailDrafts without the form that is being saved.
Kept(p, key) == {f \in forms[p] : f.key # key}

\* The page loads the manual again and stays busy until that load ends.  It shows
\* what the mutation of this step left behind, unless the load takes long.
LoadAgain(p, key, keep, wrote, lost) ==
  LET pg == [page[p] EXCEPT !.saving = key, !.wrote = wrote] IN
  \/ /\ OnDetail(p) /\ Costs(lost)
     /\ ShowDetail(p, pg, TRUE, keep, Detail(p)')
     /\ loads' = [loads EXCEPT ![p] = Superseded(@)]
  \/ /\ OnDetail(p) /\ Costs(lost + 1)
     /\ page' = [page EXCEPT ![p] = pg]
     /\ StartLoad(p, TRUE, keep)
     /\ UNCHANGED forms
  \/ /\ ~OnDetail(p) /\ Costs(lost)
     /\ page' = [page EXCEPT ![p] = Freed(pg, TRUE)]
     /\ UNCHANGED <<loads, forms>>

\* An archived manual, or one that may be archived, is left for the list.
BackToList(p) ==
  /\ page' = [page EXCEPT ![p].saving = Nothing, ![p].rerendered = FALSE,
                          ![p].screen = "list",
                          ![p].status = IF OnDetail(p) THEN "idle" ELSE @,
                          ![p].shown = IF OnDetail(p) THEN None ELSE @]
  /\ forms' = [forms EXCEPT ![p] = {}]
  /\ loads' = [loads EXCEPT ![p] = IF OnDetail(p) THEN Superseded(@) ELSE @]

Done(p, q) ==
  IF q.kind = "archive" THEN BackToList(p) /\ Costs(0) ELSE LoadAgain(p, page[p].saving, q.keep, clock', 0)
ResultUnknown(p, q) ==
  IF q.kind = "archive" THEN BackToList(p) /\ Costs(1) ELSE LoadAgain(p, page[p].saving, q.keep, page[p].wrote, 1)
NotFound(p, q) == LoadAgain(p, page[p].saving, q.keep, page[p].wrote, 0)

\* A conflict leaves the form as it is.
Conflict(p) ==
  /\ page' = [page EXCEPT ![p] = Freed(@, TRUE)]
  /\ UNCHANGED <<loads, forms>> /\ Costs(0)

\* A lost role closes the forms at once; the detail is then read again.
Forbidden(p) ==
  LET closed == [Freed(page[p], TRUE) EXCEPT !.shown = IF @ # None THEN [@ EXCEPT !.canEdit = FALSE] ELSE @]
  IN IF OnDetail(p) /\ page[p].shown # None
     THEN \/ /\ ShowDetail(p, closed, FALSE, {}, Detail(p)') /\ Costs(0)
             /\ loads' = [loads EXCEPT ![p] = Superseded(@)]
          \/ /\ page' = [page EXCEPT ![p] = [closed EXCEPT !.status = "loading"]]
             /\ forms' = [forms EXCEPT ![p] = {}]
             /\ StartLoad(p, FALSE, {}) /\ Costs(1)
     ELSE /\ page' = [page EXCEPT ![p] = closed]
          /\ forms' = [forms EXCEPT ![p] = {}]
          /\ UNCHANGED loads /\ Costs(0)

\* The page takes the answer, or loses it.
Answer(p, taken) ==
  /\ request' = [request EXCEPT ![p] = NoRequest]
  /\ taken \/ ResultUnknown(p, request[p])

-----------------------------------------------------------------------------
(* The routes: what the router makes of a request before the database.       *)

CurrentDraft == IF manual.archived THEN 0 ELSE manual.draft

Call(kind, rev, id, expected, order, seen, on, keep) ==
  [kind |-> kind, rev |-> rev, id |-> id, expected |-> expected,
   order |-> order, seen |-> seen, on |-> on, keep |-> keep]

\* Without a current draft there is nothing to change.
Refused == [kind |-> "conflict"]
OnDraft(q) == IF CurrentDraft = 0 THEN Refused ELSE q

RouteUpdateDraft(f, keep) ==
  OnDraft(Call("basics", CurrentDraft, Basics, f.version, <<>>, None, f.on, keep))

RouteCreateStep(keep) == OnDraft(Call("append", CurrentDraft, Other, 0, <<>>, None, 0, keep))

\* The step is read first.
RouteUpdateStep(f, keep) ==
  IF CurrentDraft # 0 /\ f.key \notin StepIds(revisions[CurrentDraft].steps)
  THEN [kind |-> "missing"]
  ELSE OnDraft(Call("update", CurrentDraft, f.key, f.version, <<>>, None, f.on, keep))

RouteDeleteStep(id, keep) == OnDraft(Call("delete", CurrentDraft, id, 0, <<>>, None, 0, keep))

RouteReorderSteps(order, keep) ==
  OnDraft(Call("reorder", CurrentDraft, Other, 0, order, None, 0, keep))

\* The page sends the draft and the content version that it shows.
RoutePublish(d) ==
  IF d.rev # CurrentDraft THEN Refused
  ELSE Call("publish", CurrentDraft, Other, 0, <<>>, d, 0, {})

RouteArchive(d) == Call("archive", 1, Other, d.manual, <<>>, d, 0, {})

\* An existing draft is answered from the router's read.
RouteCreateDraft(d) ==
  IF d.published # manual.published THEN Refused
  ELSE IF CurrentDraft # 0 THEN [kind |-> "existing"]
  ELSE Call("next", manual.published, Other, 0, <<>>, None, 0, {})

\* The session of the request, and the role the database tells for its user.
Admitted(p) == p \in editors

\* Who may not edit is refused; a manual that is archived is not found.  The bound on
\* the writes ends the calls, too.
Send(p, key, keep, q) ==
  IF ~Admitted(p)
  THEN Forbidden(p) /\ UNCHANGED request
  ELSE IF (manual.archived /\ q.kind # "archive") \/ q.kind \in {"missing", "existing"}
  THEN LoadAgain(p, key, keep, page[p].wrote, 0) /\ UNCHANGED request
  ELSE IF q.kind = "conflict" THEN UNCHANGED <<client, request, faults>>
  ELSE /\ Costs(0) /\ clock < MaxWrites
       /\ request' = [request EXCEPT ![p] = q]
       /\ page' = [page EXCEPT ![p].saving = key]
       /\ UNCHANGED <<loads, forms>>

-----------------------------------------------------------------------------
(* What a user may ask for.                                                *)

Asks(p) == Ready(p) /\ page[p].shown.canEdit /\ UNCHANGED <<server, editors, clock>>
AsksDraft(p) == Asks(p) /\ Editable(page[p].shown)

UpdateDraft(p) ==
  /\ AsksDraft(p)
  /\ \E f \in forms[p] :
       /\ f.key = Basics
       /\ Send(p, Basics, Kept(p, Basics), RouteUpdateDraft(f, Kept(p, Basics)))

CreateStep(p) ==
  /\ AsksDraft(p) /\ Len(page[p].shown.steps) < StepLimit
  /\ Send(p, Other, Kept(p, Other), RouteCreateStep(Kept(p, Other)))

UpdateStep(p) ==
  /\ AsksDraft(p)
  /\ \E f \in forms[p] :
       /\ f.key # Basics
       /\ Send(p, f.key, Kept(p, f.key), RouteUpdateStep(f, Kept(p, f.key)))

DeleteStep(p) ==
  /\ AsksDraft(p)
  /\ \E id \in StepIds(page[p].shown.steps) :
       Send(p, id, Kept(p, id), RouteDeleteStep(id, Kept(p, id)))

\* A step changes places with the next one.
ReorderSteps(p) ==
  /\ AsksDraft(p)
  /\ LET ids == [i \in DOMAIN page[p].shown.steps |-> page[p].shown.steps[i].id] IN
     \E i \in DOMAIN ids \ {Len(ids)} :
       Send(p, Other, Kept(p, Other),
            RouteReorderSteps([ids EXCEPT ![i] = ids[i + 1], ![i + 1] = ids[i]], Kept(p, Other)))

\* Neither publication nor archiving starts beside unsaved input.
PublishManual(p) ==
  /\ AsksDraft(p) /\ forms[p] = {}
  /\ Send(p, Other, {}, RoutePublish(page[p].shown))

ArchiveManual(p) ==
  /\ Asks(p) /\ forms[p] = {}
  /\ Send(p, Other, {}, RouteArchive(page[p].shown))

CreateDraftFromPublished(p) ==
  /\ Asks(p) /\ page[p].shown.state = "published"
  /\ Send(p, Other, {}, RouteCreateDraft(page[p].shown))

\* The call or its answer is lost before the database saw it.
LoseCall(p) ==
  /\ request[p] # NoRequest
  /\ request' = [request EXCEPT ![p] = NoRequest]
  /\ UNCHANGED <<server, editors, clock>>
  /\ ResultUnknown(p, request[p])

Revoke(p) ==
  /\ p \in editors
  /\ editors' = editors \ {p}
  /\ Costs(1)
  /\ UNCHANGED <<server, clock, request, client>>

-----------------------------------------------------------------------------
(* The functions of the database. *)

\* has_workspace_role, inside the function.
MayEdit(p) == p \in editors

\* The draft that the step functions lock, behind the manual's lock.
OpenDraft(q) == ~manual.archived /\ revisions[q.rev].state = "draft"

CanUpdateDraft(q) ==
  /\ ~manual.archived /\ manual.draft = q.rev
  /\ revisions[q.rev].version = q.expected

\* The trigger counts the active steps behind the revision's lock.
CanAppend(q) == OpenDraft(q) /\ Len(revisions[q.rev].steps) < StepLimit
HasStep(q) == OpenDraft(q) /\ q.id \in StepIds(revisions[q.rev].steps)
CanUpdate(q) == HasStep(q) /\ StepOf(revisions[q.rev].steps, q.id).version = q.expected
CanReorder(q) ==
  /\ OpenDraft(q)
  /\ Len(q.order) = Len(revisions[q.rev].steps) /\ ToSet(q.order) = StepIds(revisions[q.rev].steps)
CanPublish(q) ==
  /\ ~manual.archived /\ manual.draft = q.rev
  /\ ContentVersion(revisions[q.rev]) = ContentVersion(q.seen)

CanArchive(q) == ~manual.archived /\ manual.version = q.expected
CanCreateNext(q) == ~manual.archived /\ manual.published = q.rev

\* The wrappers of the step functions advance the manual's updated_at.
Advanced == [manual EXCEPT !.version = clock']

Tick == clock < MaxWrites /\ clock' = clock + 1 /\ UNCHANGED editors
Writes(p, kind) == request[p].kind = kind /\ MayEdit(p) /\ Tick

WriteSteps(q, steps) ==
  /\ revisions' = [revisions EXCEPT ![q.rev].steps = steps]
  /\ manual' = Advanced

UpdateManualDraft(p) ==
  LET q == request[p] IN
  /\ Writes(p, "basics") /\ CanUpdateDraft(q)
  /\ revisions' = [revisions EXCEPT ![q.rev].text = clock', ![q.rev].version = clock']
  /\ manual' = [manual EXCEPT !.version = clock']
  /\ Answer(p, Done(p, q))

AppendManualStep(p) ==
  LET q == request[p] IN
  /\ Writes(p, "append") /\ CanAppend(q)
  /\ WriteSteps(q, Append(revisions[q.rev].steps,
                          [id |-> <<clock', 1>>, version |-> clock', text |-> clock']))
  /\ Answer(p, Done(p, q))

UpdateManualStep(p) ==
  LET q == request[p] IN
  /\ Writes(p, "update") /\ CanUpdate(q)
  /\ WriteSteps(q, [i \in DOMAIN revisions[q.rev].steps |->
                      LET old == revisions[q.rev].steps[i] IN
                      IF old.id = q.id THEN [old EXCEPT !.version = clock', !.text = clock'] ELSE old])
  /\ Answer(p, Done(p, q))

SoftDeleteManualStep(p) ==
  LET q == request[p] IN
  /\ Writes(p, "delete") /\ HasStep(q)
  /\ \E i \in DOMAIN revisions[q.rev].steps :
       /\ revisions[q.rev].steps[i].id = q.id
       /\ WriteSteps(q, RemoveAt(revisions[q.rev].steps, i))
  /\ Answer(p, Done(p, q))

\* Moving a step is a write of its row.
ReorderManualSteps(p) ==
  LET q == request[p] IN
  /\ Writes(p, "reorder") /\ CanReorder(q)
  /\ WriteSteps(q, [i \in DOMAIN q.order |->
                      [StepOf(revisions[q.rev].steps, q.order[i]) EXCEPT !.version = clock']])
  /\ Answer(p, Done(p, q))

\* A faulty variant: the revision that was published before keeps its state.
LeavesPublished(r) == revisions[r]

SupersededRevision(r) == [revisions[r] EXCEPT !.state = "superseded", !.version = clock']

PublishManualRevision(p) ==
  LET q == request[p] IN
  /\ Writes(p, "publish") /\ CanPublish(q)
  /\ revisions' = [r \in Revs |->
       IF r = q.rev THEN [revisions[r] EXCEPT !.state = "published", !.version = clock']
       ELSE IF r = manual.published THEN SupersededRevision(r) ELSE revisions[r]]
  /\ manual' = [manual EXCEPT !.published = q.rev, !.draft = 0, !.version = clock']
  /\ Answer(p, Done(p, q))

\* The next draft: a copy of the published revision with steps of its own.
CreateManualDraftFromPublished(p) ==
  LET q == request[p] IN
  /\ Writes(p, "next") /\ CanCreateNext(q) /\ manual.draft = 0
  /\ \E r \in Revs :
       /\ revisions[r].state = "none" /\ \A o \in Revs : o < r => revisions[o].state # "none"
       /\ revisions' = [revisions EXCEPT ![r] =
            [state |-> "draft", version |-> clock', text |-> revisions[q.rev].text,
             steps |-> [i \in DOMAIN revisions[q.rev].steps |->
                          [id |-> <<clock', i>>, version |-> clock',
                           text |-> revisions[q.rev].steps[i].text]]]]
       /\ manual' = [manual EXCEPT !.draft = r, !.version = clock']
  /\ Answer(p, Done(p, q))

\* A draft that appeared since is returned.
ReturnExistingDraft(p) ==
  LET q == request[p] IN
  /\ q.kind = "next" /\ MayEdit(p) /\ CanCreateNext(q) /\ manual.draft # 0
  /\ UNCHANGED <<server, clock, editors>>
  /\ Answer(p, Done(p, q))

ArchiveManualRow(p) ==
  LET q == request[p] IN
  /\ Writes(p, "archive") /\ CanArchive(q)
  /\ manual' = [manual EXCEPT !.archived = TRUE, !.version = clock']
  /\ UNCHANGED revisions
  /\ Answer(p, Done(p, q))

Allowed(q) ==
  \/ q.kind = "basics" /\ CanUpdateDraft(q)
  \/ q.kind = "append" /\ CanAppend(q)
  \/ q.kind = "update" /\ CanUpdate(q)
  \/ q.kind = "delete" /\ HasStep(q)
  \/ q.kind = "reorder" /\ CanReorder(q)
  \/ q.kind = "publish" /\ CanPublish(q)
  \/ q.kind = "next" /\ CanCreateNext(q)
  \/ q.kind = "archive" /\ CanArchive(q)

\* What the functions look at before the role: the manual, the step functions its draft.
NoManual(q) == manual.archived /\ q.kind \in {"publish", "archive", "next", "basics"}
NoDraft(q) == q.kind \in {"append", "update", "delete", "reorder"} /\ ~OpenDraft(q)

\* knownRpcError: whatever the function raised changed nothing.
Refuse(p) ==
  LET q == request[p]
  IN /\ q.kind # "none"
     /\ UNCHANGED <<server, clock, editors>>
     /\ \/ NoManual(q) /\ Answer(p, NotFound(p, q))
        \/ NoDraft(q) /\ Answer(p, Conflict(p))
        \/ /\ ~NoManual(q) /\ ~NoDraft(q) /\ ~MayEdit(p)
           /\ Answer(p, Forbidden(p))
        \/ /\ ~NoManual(q) /\ ~NoDraft(q) /\ MayEdit(p) /\ ~Allowed(q)
           /\ IF q.kind \in {"update", "delete"} /\ ~HasStep(q)
              THEN Answer(p, NotFound(p, q)) ELSE Answer(p, Conflict(p))

-----------------------------------------------------------------------------
PageNext(p) ==
  \/ OpenManualDetail(p) \/ Reload(p) \/ OpenManualList(p) \/ Type(p)
  \/ RenderAgain(p) \/ \E i \in 1..MaxLoads : FinishLoad(p, i)
  \/ UpdateDraft(p) \/ CreateStep(p) \/ UpdateStep(p) \/ DeleteStep(p) \/ ReorderSteps(p)
  \/ PublishManual(p) \/ ArchiveManual(p) \/ CreateDraftFromPublished(p)
  \/ LoseCall(p) \/ Revoke(p)

ServerNext(p) ==
  \/ UpdateManualDraft(p) \/ AppendManualStep(p) \/ UpdateManualStep(p)
  \/ SoftDeleteManualStep(p) \/ ReorderManualSteps(p)
  \/ PublishManualRevision(p) \/ CreateManualDraftFromPublished(p)
  \/ ReturnExistingDraft(p) \/ ArchiveManualRow(p) \/ Refuse(p)

Next == (\E p \in Pages : PageNext(p)) \/ (\E p \in Pages : ServerNext(p))

Spec == Init /\ [][Next]_vars

-----------------------------------------------------------------------------
(* Properties. *)

\* The pointers of the manual name its only draft and its only published
\* revision, in whatever order pages publish and start next drafts.
PointersAgree ==
  \A r \in Revs :
    /\ revisions[r].state = "draft" <=> r = manual.draft
    /\ revisions[r].state = "published" <=> r = manual.published

\* A revision that left the state of a draft never changes what it says,
\* although calls that were prepared for the draft are still under way.
PublishedIsImmutable ==
  [][\A r \in Revs : revisions[r].state \in {"published", "superseded"}
                       => Content(revisions'[r]) = Content(revisions[r])]_vars

\* What is published is word for word what the page showed when its user
\* confirmed the review.
PublishedIsReviewed ==
  [][\A p \in Pages :
       request[p].kind = "publish" /\ request'[p] = NoRequest /\ manual' # manual
         => Content(revisions[request[p].rev]) = Content(request[p].seen)]_vars

\* A saved form replaces the text that its user saw when typing, never the
\* text of another editor that arrived in between, also when the form was
\* carried over a load of a newer snapshot.
NoBlindOverwrite ==
  [][\A p \in Pages :
       LET q == request[p] IN
       request'[p] = NoRequest /\ revisions' # revisions =>
         /\ q.kind = "basics" => revisions[q.rev].text = q.on
         /\ q.kind = "update" => StepOf(revisions[q.rev].steps, q.id).text = q.on]_vars

\* Archiving hides no change that the page had not shown.
ArchiveHidesNothing ==
  [][\A p \in Pages :
       request[p].kind = "archive" /\ request'[p] = NoRequest /\ manual' # manual =>
         LET r == request[p].seen.rev IN
         /\ r = IF manual.draft # 0 THEN manual.draft ELSE manual.published
         /\ request[p].seen.published = manual.published
         /\ Content(revisions[r]) = Content(request[p].seen)]_vars

\* A user whose role was taken away changes nothing any more, also by a call
\* that the router had let through.
RevokedEditsNothing ==
  [][server' # server =>
       \E p \in Pages : request[p] # NoRequest /\ request'[p] = NoRequest /\ p \in editors]_vars

\* A page that is not waiting shows what its user saved, whatever loads
\* overtook each other; it may show less only after telling of an error.
ReadsOwnWrites ==
  \A p \in Pages :
    Ready(p) /\ page[p].shown # None => page[p].shown.manual >= page[p].wrote

\* Saving one form loses no input of another that still has its place.  That is so for
\* what was typed before the save.  It is not so once the page was rendered anew while
\* the save is under way, by a reload or by the list of the members that arrives late:
\* the new forms are not closed, and what is typed into them is not captured, so that
\* the load that ends the save drops it; the list drops what was typed before it, too.
UnsavedIsKept ==
  [][\A p \in Pages : \A f \in forms[p] :
       LET d == page'[p].shown
           stays == /\ Busy(p) /\ ~page[p].rerendered /\ ~page'[p].rerendered
                    /\ page[p].screen = "detail" /\ page'[p].screen = "detail"
                    /\ page'[p].status = "loaded" /\ f.key # page[p].saving
                    /\ Editable(d) /\ (f.key = Basics \/ f.key \in StepIds(d.steps))
       IN stays => \E g \in forms'[p] : g.key = f.key /\ g.on = f.on]_vars

-----------------------------------------------------------------------------
(* What rows, snapshots, forms and pages know of each other.  A version is *)
(* the time of a write, so that equal versions tell equal texts.           *)

UniqueSteps(steps) == \A i, j \in DOMAIN steps : steps[i].id = steps[j].id => i = j

RevisionsInv ==
  /\ manual.version = clock
  /\ manual.draft # 0 \/ manual.published # 0
  /\ \A r \in Revs :
       /\ revisions[r].version <= clock
       /\ UniqueSteps(revisions[r].steps)
       /\ \A i \in DOMAIN revisions[r].steps :
            revisions[r].steps[i].version <= clock /\ revisions[r].steps[i].id[1] <= clock

\* A draft that still has this version of this form has this text there.
Says(revs, key, version, text) ==
  \A r \in Revs : revs[r].state = "draft" =>
    /\ key = Basics /\ revs[r].version = version => revs[r].text = text
    /\ \A i \in DOMAIN revs[r].steps :
         revs[r].steps[i].id = key /\ revs[r].steps[i].version = version => revs[r].steps[i].text = text

FormTells(m, revs, f) == f.version <= m.version /\ Says(revs, f.key, f.version, f.on)
AllTell(m, revs, fs) == \A f \in fs : FormTells(m, revs, f)

\* A snapshot of the manual's last change shows the manual.
UpToDate(m, revs, d) ==
  /\ d.rev = IF m.draft # 0 THEN m.draft ELSE m.published
  /\ d.published = m.published /\ Content(revs[d.rev]) = Content(d)

Tells(m, revs, d) ==
  /\ d.manual <= m.version /\ d.version <= m.version
  /\ UniqueSteps(d.steps)
  /\ d.manual = m.version => UpToDate(m, revs, d)
  /\ \A i \in DOMAIN d.steps : d.steps[i].version <= m.version
  /\ d.state = "draft" => /\ Says(revs, Basics, d.version, d.text)
                          /\ \A i \in DOMAIN d.steps : Says(revs, d.steps[i].id, d.steps[i].version, d.steps[i].text)

\* One page: its call q, its loads ls, its screen pg and its forms fs.
Others(pg, fs) == {f \in fs : f.key # pg.saving}

RequestOK(m, revs, q, pg, fs) ==
  q # NoRequest =>
    /\ pg.saving # Nothing /\ AllTell(m, revs, q.keep)
    /\ ~pg.rerendered => Others(pg, fs) \subseteq q.keep
    /\ q.kind \in {"basics", "update"} => q.expected <= m.version /\ Says(revs, q.id, q.expected, q.on)
    /\ q.kind = "basics" => q.id = Basics
    /\ q.kind \in {"publish", "archive"} => q.seen # None /\ Tells(m, revs, q.seen)
    /\ q.kind = "publish" => q.seen.state = "draft"
    /\ q.kind = "archive" => q.expected = q.seen.manual
    /\ \A i, j \in DOMAIN q.order : q.order[i] = q.order[j] => i = j

LoadOK(m, revs, q, l, pg, fs) ==
  /\ AllTell(m, revs, l.keep)
  /\ l.snap # None => Tells(m, revs, l.snap)
  /\ l.finish => /\ pg.saving # Nothing /\ q = NoRequest
                 /\ ~pg.rerendered => Others(pg, fs) \subseteq (IF l.latest THEN l.keep ELSE {})
  /\ l.latest /\ ~l.finish =>
       /\ fs = {} /\ l.keep = {}
       /\ pg.screen = "detail" => /\ pg.status = "loading"
                                  /\ l.snap # None => l.snap.manual >= pg.wrote

LoadsOK(m, revs, q, ls, pg, fs) ==
  /\ \A i \in DOMAIN ls : LoadOK(m, revs, q, ls[i], pg, fs)
  /\ \A i, j \in DOMAIN ls :
       (ls[i].finish /\ ls[j].finish) \/ (ls[i].latest /\ ls[j].latest) => i = j

\* Only while it waits for a load a page has less than was saved, and shows it only when
\* that is the load that ends its mutation.
ScreenOK(m, revs, ls, pg, fs) ==
  /\ AllTell(m, revs, fs)
  /\ fs # {} => pg.screen = "detail" /\ Editable(pg.shown)
  /\ pg.wrote <= m.version
  /\ pg.shown # None =>
       /\ Tells(m, revs, pg.shown)
       /\ pg.screen = "detail" /\ pg.shown.manual < pg.wrote =>
            \E i \in DOMAIN ls : ls[i].latest /\ (pg.status = "loaded" => ls[i].finish)

PageOK(m, revs, q, ls, pg, fs) ==
  /\ RequestOK(m, revs, q, pg, fs)
  /\ LoadsOK(m, revs, q, ls, pg, fs)
  /\ ScreenOK(m, revs, ls, pg, fs)

\* Rows, pointers and pages are always of their kinds and agree: the inductive
\* invariant that the other properties follow from.
Consistent ==
  /\ TypeOK /\ PointersAgree /\ RevisionsInv
  /\ \A p \in Pages : PageOK(manual, revisions, request[p], loads[p], page[p], forms[p])

\* What readers see is what somebody reviewed, from its publication on.
PublishedIsFinal == PublishedIsReviewed /\ PublishedIsImmutable

\* Nobody changes what they had not seen, or may not change any more.
ChangesAreInformed == NoBlindOverwrite /\ ArchiveHidesNothing /\ RevokedEditsNothing
=============================================================================
