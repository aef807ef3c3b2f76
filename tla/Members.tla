------------------------------- MODULE Members -------------------------------
(***************************************************************************)
(* The members of a workspace: the four database functions that change or  *)
(* list them, as transactions that take row locks one after the other      *)
(* (READ COMMITTED), the Worker's answers, and the members panel and the   *)
(* join code of one browser tab.  The tab belongs to a browser whose       *)
(* session cookie another tab may change; other people call the same       *)
(* functions from elsewhere.                                               *)
(*                                                                         *)
(* A role is "owner", "admin" or "editor"; "viewer" differs from "editor"  *)
(* in nothing done here.  "invited" is a status no function writes.        *)
(***************************************************************************)
EXTENDS Naturals, FiniteSets, SequencesExt

CONSTANTS Users, Workspaces, Calls, None,
          Owner,        \* [Workspaces -> Users], who created each workspace
          Joined,       \* [Workspaces -> SUBSET Users], the administrators at the start
          Held,         \* the users who have a join code at the start, a sequence
          Offers,       \* the calls people make from elsewhere
          Saves,        \* the changes the user of the tab makes
          Opener,       \* the user of the tab at the start, owner of a workspace
          Logins,       \* the users that log in on its browser afterwards
          MaxMembers,   \* 1000 in the code
          Lifetime,     \* of a join code, in ticks of the clock
          MaxClock, MaxSteps, MaxLogins, MaxLosses

Roles == {"owner", "admin", "editor"}
Managers == {"owner", "admin"}

(* What a person asks of a function; each kind names only what it needs.   *)
Changes ==
    [kind : {"update"}, w : Workspaces, user : Users, role : Roles, status : {"active", "removed"}, code : {0}]
    \cup [kind : {"redeem"}, w : Workspaces, user : {None}, role : Roles, status : {"active"}, code : Nat]
Update(w, u, r, s) == [kind |-> "update", w |-> w, user |-> u, role |-> r, status |-> s, code |-> 0]
Redeem(w, k, r) == [kind |-> "redeem", w |-> w, user |-> None, role |-> r, status |-> "active", code |-> k]
Issue == [kind |-> "issue", w |-> None, user |-> None, role |-> "none", status |-> "none", code |-> 0]
List(w) == [kind |-> "list", w |-> w, user |-> None, role |-> "none", status |-> "none", code |-> 0]

ASSUME MembersAssumption ==
    /\ Owner \in [Workspaces -> Users] /\ Joined \in [Workspaces -> SUBSET Users]
    /\ Held \in Seq(Users) /\ None \notin Users \cup Workspaces
    /\ {MaxMembers, Lifetime, MaxClock, MaxSteps, MaxLogins, MaxLosses} \subseteq Nat
    /\ \A w \in Workspaces : /\ IsFiniteSet(Joined[w])
                             /\ Cardinality(Joined[w] \cup {Owner[w]}) <= MaxMembers
    /\ \A p \in Offers : p[1] \in Users /\ p[2] \in Changes \cup {Issue}
    /\ Saves \subseteq Changes /\ Logins \subseteq Users
    /\ \E w \in Workspaces : Owner[w] = Opener

VARIABLES member,  \* public.workspace_members: role and status, by workspace and user
          code,    \* public.workspace_join_codes: the one row of each user
          audit,   \* public.audit_logs: the rows of each workspace in order
          tx,      \* the calls under way
          issued,  \* the join codes made so far; codes are numbered
          admitted,\* <<code, workspace, user>> for each code a transaction consumed
          clock, cookie, told, tab, steps, losses, logins

vars == <<member, code, audit, tx, issued, admitted, clock, cookie, told, tab, steps, losses, logins>>
db == <<member, code, audit, issued, admitted>>

NoMember == [role |-> "none", status |-> "none"]
NoCode == [id |-> 0, expires |-> 0, used |-> FALSE]
NoList == [u \in Users |-> "none"]

NoPrev == [role |-> "none", list |-> NoList, rev |-> 0]
(* What the tab keeps about a call of its own: the mutation or issuance it *)
(* is, whether the session generation and the request sequence are still   *)
(* the ones of its start, the panel before it, and the mutation a list     *)
(* is fetched to reconcile.                                                *)
NoTab == [id |-> 0, live |-> FALSE, prev |-> NoPrev, heals |-> 0]
FreeCall == [at |-> "free", op |-> Issue, by |-> None, began |-> 0, mine |-> FALSE, tab |-> NoTab,
             answer |-> "none", payload |-> NoPrev]

NoPanel(w) == [w |-> w, status |-> "idle", role |-> "none", list |-> NoList, rev |-> 0]
NoPending == [id |-> 0, w |-> None, settled |-> FALSE, reconciled |-> TRUE, healing |-> FALSE]
NoIssuing == [id |-> 0, settled |-> FALSE, reconciled |-> TRUE, code |-> 0, expires |-> 0]
NoShown == [code |-> 0, expires |-> 0, for |-> None]
NoSession == [me |-> None, spaces |-> {}]
----------------------------------------------------------------------------
Active(w) == {u \in Users : member[w][u].status = "active"}
Manages(u, w) == member[w][u].status = "active" /\ member[w][u].role \in Managers
SpacesOf(u) == {w \in Workspaces : member[w][u].status = "active"}

OpenTab ==
    LET w == CHOOSE w \in Workspaces : Opener = Owner[w] IN
    [me |-> Opener, spaces |-> {v \in Workspaces : Opener \in Joined[v] \cup {Owner[v]}}, sel |-> w,
     panel |-> NoPanel(w), pending |-> NoPending, issuing |-> NoIssuing, shown |-> NoShown,
     hidden |-> FALSE, load |-> "none", found |-> NoSession, saved |-> 0]

FirstMember(w, u) == IF u = Owner[w] THEN [role |-> "owner", status |-> "active"]
                     ELSE IF u \in Joined[w] THEN [role |-> "admin", status |-> "active"] ELSE NoMember

Init ==
    /\ member = [w \in Workspaces |-> [u \in Users |-> FirstMember(w, u)]]
    /\ code = [u \in Users |-> 
                  IF Contains(Held, u)
                  THEN [id |-> CHOOSE i \in DOMAIN Held : Held[i] = u, expires |-> Lifetime, used |-> FALSE]
                  ELSE NoCode]
    /\ audit = [w \in Workspaces |-> <<>>]
    /\ tx = [c \in Calls |-> FreeCall]
    /\ issued = Len(Held) /\ admitted = {}
    /\ clock = 0
    /\ cookie = Opener /\ tab = OpenTab
    /\ told = FALSE
    /\ steps = 0 /\ losses = 0 /\ logins = 0
----------------------------------------------------------------------------
(* The transactions.                                                       *)
HoldsSpace(c, w) == tx[c].at \in {"locked", "coded"} /\ tx[c].op.w = w /\ tx[c].op.kind \in {"update", "redeem"}
HoldsUser(c, u) == tx[c].at = "locked" /\ tx[c].op.kind = "issue" /\ tx[c].by = u
\* the row read without "for update"
ReadsCode(c, u) == FALSE
HoldsCode(c, u) == tx[c].at = "coded" /\ code[u].id = tx[c].op.code

(* The end of call c: its answer goes to the tab, or to somebody else.     *)
Answered(c, answer, payload) ==
    tx' = [tx EXCEPT ![c] = IF @.mine THEN [@ EXCEPT !.at = "answered", !.answer = answer, !.payload = payload]
                            ELSE FreeCall]
Answer(c, answer) == Answered(c, answer, NoPrev)

Arrive(c) ==
    /\ tx[c].at = "sent"
    /\ IF cookie = None THEN Answer(c, "ended")
       ELSE tx' = [tx EXCEPT ![c].at = "begun", ![c].by = cookie, ![c].began = clock]
    /\ UNCHANGED <<db, clock, cookie, told, tab, steps, losses, logins>>

\* the workspace row read without "for update"
LocksNothing(c) ==
    /\ tx[c].at = "begun" /\ tx[c].op.kind \in {"update", "redeem"}
    /\ tx' = [tx EXCEPT ![c].at = "locked"]
    /\ UNCHANGED <<db, clock, cookie, told, tab, steps, losses, logins>>

(* "perform 1 from workspaces ... for update", the first lock of all.      *)
LockWorkspace(c) ==
    /\ tx[c].at = "begun" /\ tx[c].op.kind \in {"update", "redeem"}
    /\ \A d \in Calls : ~HoldsSpace(d, tx[c].op.w)
    /\ tx' = [tx EXCEPT ![c].at = "locked"]
    /\ UNCHANGED <<db, clock, cookie, told, tab, steps, losses, logins>>

Refusal(c) ==
    LET u == tx[c].by  w == tx[c].op.w IN
    IF member[w][u].status # "active" THEN "refused"
    ELSE IF member[w][u].role \notin Managers THEN "refused"
    ELSE IF tx[c].op.role \notin Roles \ {"owner"} THEN "conflict" ELSE "none"

(* protect_workspace_owner_membership, the trigger on every row written.   *)
TriggerAllows(w, u, new) ==
    LET old == member[w][u] IN
    IF old = NoMember THEN ~(new.role = "owner" /\ \E v \in Users : member[w][v] = [role |-> "owner", status |-> "active"])
    ELSE /\ (new.role = "owner") = (old.role = "owner")
         /\ ~(old.role = "owner" /\ old.status = "active" /\ new.status # "active"
              /\ ~ \E v \in Users \ {u} : member[w][v] = [role |-> "owner", status |-> "active"])

Logged(w, u, old, new) ==
    IF old = new THEN audit ELSE [audit EXCEPT ![w] = Append(@, [user |-> u, old |-> old, new |-> new])]

UpdateTarget(c) ==
    LET w == tx[c].op.w  u == tx[c].op.user  old == member[w][u]
        new == [role |-> tx[c].op.role, status |-> tx[c].op.status]
    IN  IF Refusal(c) # "none" THEN Answer(c, Refusal(c)) /\ UNCHANGED db
        ELSE IF \/ old = NoMember \/ old.role = "owner"
                \/ (old.status # "active" /\ new.status = "active")
                \/ ~TriggerAllows(w, u, new)
        THEN Answer(c, "conflict") /\ UNCHANGED db
        ELSE /\ member' = [member EXCEPT ![w][u] = new]
             /\ audit' = Logged(w, u, old, new)
             /\ Answered(c, "ok", [NoPrev EXCEPT !.rev = Len(audit'[w])])
             /\ UNCHANGED <<code, issued, admitted>>

UpdateMember(c) ==
    /\ tx[c].at = "locked" /\ tx[c].op.kind = "update"
    /\ UpdateTarget(c)
    /\ UNCHANGED <<clock, cookie, told, tab, steps, losses, logins>>

Usable(c, u) == /\ code[u].id = tx[c].op.code /\ ~code[u].used
                /\ code[u].expires > tx[c].began

(* "select ... from workspace_join_codes ... for update" waits for another *)
(* redemption of the same row and then looks at the row it left.  now() is *)
(* the start of the transaction, not the end of the wait.                  *)
LockCode(c) ==
    /\ tx[c].at = "locked" /\ tx[c].op.kind = "redeem"
    /\ IF Refusal(c) # "none" THEN Answer(c, Refusal(c))
       ELSE IF ~ \E u \in Users : code[u].id = tx[c].op.code THEN Answer(c, "conflict")
       ELSE \E u \in Users :
              /\ code[u].id = tx[c].op.code
              /\ \A d \in Calls : ~HoldsCode(d, u)
              /\ IF Usable(c, u) THEN tx' = [tx EXCEPT ![c].at = "coded"] ELSE Answer(c, "conflict")
    /\ UNCHANGED <<db, clock, cookie, told, tab, steps, losses, logins>>

AdmitsOneMore(w, u) == /\ \/ member[w][u] = NoMember
                          \/ member[w][u].status = "removed" /\ member[w][u].role # "owner"
                       /\ Cardinality(Active(w)) <= MaxMembers
Admits(w, u) == /\ \/ member[w][u] = NoMember
                   \/ member[w][u].status = "removed" /\ member[w][u].role # "owner"
                /\ Cardinality(Active(w)) < MaxMembers

(* A new membership row, consumed_by and the audit row reference           *)
(* auth.users: each takes a key-share lock there, which the lock an        *)
(* issuing transaction holds on its user excludes.                         *)
WaitsForUser(c, u) ==
    /\ Admits(tx[c].op.w, u)
    /\ \/ \E d \in Calls : HoldsUser(d, tx[c].by)
       \/ member[tx[c].op.w][u] = NoMember /\ \E d \in Calls : HoldsUser(d, u)

RedeemCode(c) ==
    /\ tx[c].at = "coded"
    /\ \E u \in Users :
         LET w == tx[c].op.w
             new == [role |-> tx[c].op.role, status |-> "active"]
         IN /\ code[u].id = tx[c].op.code
            /\ ~WaitsForUser(c, u)
            /\ IF ~Admits(w, u) THEN Answer(c, "conflict") /\ UNCHANGED db
               ELSE /\ member' = [member EXCEPT ![w][u] = new]
                    /\ code' = [code EXCEPT ![u].used = TRUE]
                    /\ audit' = [audit EXCEPT ![w] = Append(@, [user |-> u, old |-> member[w][u], new |-> new])]
                    /\ admitted' = admitted \cup {<<tx[c].op.code, w, u>>}
                    /\ Answered(c, "ok", [NoPrev EXCEPT !.rev = Len(audit'[w])])
                    /\ UNCHANGED issued
    /\ UNCHANGED <<clock, cookie, told, tab, steps, losses, logins>>

(* "perform 1 from auth.users ... for update".                             *)
LockUser(c) ==
    /\ tx[c].at = "begun" /\ tx[c].op.kind = "issue"
    /\ \A d \in Calls : ~HoldsUser(d, tx[c].by)
    /\ tx' = [tx EXCEPT ![c].at = "locked"]
    /\ UNCHANGED <<db, clock, cookie, told, tab, steps, losses, logins>>

IssueCode(c) ==
    LET u == tx[c].by IN
    /\ tx[c].at = "locked" /\ tx[c].op.kind = "issue"
    /\ \A d \in Calls : ~HoldsCode(d, u)
    /\ issued' = issued + 1
    /\ code' = [code EXCEPT ![u] = [id |-> issued + 1, expires |-> tx[c].began + Lifetime, used |-> FALSE]]
    /\ IF tx[c].began + Lifetime > clock THEN Answered(c, "ok", [NoPrev EXCEPT !.rev = issued + 1])
       ELSE Answer(c, "unknown")
    /\ UNCHANGED <<member, audit, admitted, clock, cookie, told, tab, steps, losses, logins>>

(* The redemption of a code and the issue of its successor wait for each   *)
(* other: PostgreSQL ends one of the two.  (Longer cycles need four calls.) *)
BreakDeadlock(c) ==
    /\ \E d, e \in Calls :
         /\ c \in {d, e}
         /\ \E u \in Users : /\ HoldsCode(d, u) /\ HoldsUser(e, u)
                             /\ Admits(tx[d].op.w, u)
                             /\ (member[tx[d].op.w][u] = NoMember \/ tx[d].by = u)
    /\ Answer(c, "unknown")
    /\ UNCHANGED <<db, clock, cookie, told, tab, steps, losses, logins>>

(* list_workspace_members, a stable function: one snapshot.                *)
ListMembers(c) ==
    LET w == tx[c].op.w  u == tx[c].by IN
    /\ tx[c].at = "begun" /\ tx[c].op.kind = "list"
    /\ IF member[w][u].status # "active" THEN Answer(c, "refused")
       ELSE Answered(c, "ok", [role |-> member[w][u].role,
                               list |-> [v \in Users |-> IF v \in Active(w) THEN member[w][v].role ELSE "none"],
                               rev |-> Len(audit[w])])
    /\ UNCHANGED <<db, clock, cookie, told, tab, steps, losses, logins>>
----------------------------------------------------------------------------
(* The tab.                                                                *)

(* prepareWorkspaceMembersState: what every drawing of the page ensures.   *)
Drawn(t) == IF t.me # None /\ t.panel.w = t.sel THEN t ELSE [t EXCEPT !.panel = NoPanel(t.sel)]

(* Everything under way becomes outdated: sessionGeneration and            *)
(* workspaceMemberRequestSequence move on, or only the second.             *)
KeepsAll(calls, kinds) == calls
Outdated(calls, kinds) ==
    [c \in Calls |-> IF calls[c].mine /\ calls[c].op.kind \in kinds THEN [calls[c] EXCEPT !.tab.live = FALSE]
                     ELSE calls[c]]
Generation == {"list", "update", "redeem"}

Sent(calls, op, keeps) ==
    {[calls EXCEPT ![c] = [FreeCall EXCEPT !.at = "sent", !.op = op, !.mine = TRUE, !.tab = keeps]] :
       c \in {c \in Calls : calls[c].at = "free"}}
Ended(calls, c) == [calls EXCEPT ![c] = FreeCall]

(* loadWorkspaceMembers, up to its request.                                *)
LoadMembers(t, calls, w, heals) ==
    IF t.me = None \/ t.sel # w THEN tab' = Drawn(t) /\ tx' = calls
    ELSE /\ tab' = [t EXCEPT !.panel = [w |-> w, status |-> "loading",
                                        role |-> IF t.panel.w = w THEN t.panel.role ELSE "none",
                                        list |-> IF t.panel.w = w THEN t.panel.list ELSE NoList,
                                        rev |-> t.panel.rev]]
         /\ tx' \in Sent(Outdated(calls, {"list"}), List(w), [NoTab EXCEPT !.live = TRUE, !.heals = heals])

(* reconcilePendingWorkspaceMemberMutation.                                *)
Reconcilable(t) == /\ t.pending.id # 0 /\ t.pending.reconciled /\ ~t.pending.healing
                   /\ t.me # None /\ t.pending.w \in t.spaces
Reconcile(t, calls) ==
    IF ~Reconcilable(t) THEN tab' = Drawn(t) /\ tx' = calls
    ELSE LoadMembers(Drawn([t EXCEPT !.pending.healing = TRUE, !.sel = t.pending.w]), calls,
                     t.pending.w, t.pending.id)

(* finalizeWorkspaceJoinCodeIssuance of the issuance the tab waits for.    *)
Finalized(t) ==
    IF t.issuing.id = 0 \/ ~t.issuing.reconciled THEN t
    ELSE [t EXCEPT !.issuing = NoIssuing,
                   !.shown = IF t.issuing.code = 0 THEN NoShown
                             ELSE [code |-> t.issuing.code, expires |-> t.issuing.expires, for |-> t.me]]

Asking(t) == [t EXCEPT !.load = "asked", !.found = NoSession]

Act == steps < MaxSteps /\ steps' = steps + 1

Ready == tab.me # None /\ ~tab.hidden

ShowList ==
    /\ Act /\ Ready /\ tab.panel.status \in {"idle", "loaded", "error"} /\ tab.sel # None
    /\ LoadMembers(tab, tx, tab.sel, 0)
    /\ UNCHANGED <<db, clock, cookie, told, losses, logins>>

(* selectCurrentWorkspace.                                                 *)
SelectWorkspace(w) ==
    /\ Act /\ Ready /\ w \in tab.spaces \ {tab.sel}
    /\ tab' = [tab EXCEPT !.sel = w, !.panel = NoPanel(w), !.saved = 0]
    /\ tx' = Outdated(tx, {"list"})
    /\ UNCHANGED <<db, clock, cookie, told, losses, logins>>

(* addWorkspaceMember and updateWorkspaceMemberFromUi, through             *)
(* changeWorkspaceMember up to its request.                                *)
AddsMember(o) == o.code # 0
ChangesMember(o) ==
    /\ tab.panel.list[o.user] \in {"admin", "editor"}
    /\ o.status = "removed" => o.user # tab.me /\ o.role = tab.panel.list[o.user]
Offered(o) ==
    /\ tab.panel.status = "loaded" /\ tab.panel.role \in Managers /\ o.w = tab.sel
    /\ IF o.kind = "redeem" THEN AddsMember(o) ELSE ChangesMember(o)
Save(o) ==
    /\ Act /\ Ready /\ Offered(o)
    /\ tab' = [tab EXCEPT !.panel.status = "saving",
                          !.pending = [NoPending EXCEPT !.id = steps + 1, !.w = o.w]]
    /\ tx' \in Sent(tx, o, [id |-> steps + 1, live |-> TRUE, heals |-> 0,
                            prev |-> [role |-> tab.panel.role, list |-> tab.panel.list, rev |-> tab.panel.rev]])
    /\ UNCHANGED <<db, clock, cookie, told, losses, logins>>

AskCode ==
    /\ Act /\ Ready /\ tab.issuing.id = 0
    /\ tab' = [tab EXCEPT !.issuing = [NoIssuing EXCEPT !.id = steps + 1], !.shown = NoShown]
    /\ tx' \in Sent(tx, Issue, [NoTab EXCEPT !.id = steps + 1])
    /\ UNCHANGED <<db, clock, cookie, told, losses, logins>>

(* The answer of a list, whoever asked for it; the reconciliation it       *)
(* belongs to is over in any case.                                         *)
Healed(t, c) == IF t.pending.id # 0 /\ t.pending.id = tx[c].tab.heals THEN [t EXCEPT !.pending.healing = FALSE] ELSE t

ApplyList(c, answer, calls) ==
    LET w == tx[c].op.w
        t == Healed(tab, c)
        got == tx[c].payload
    IN  /\ tx' = calls
        /\ tab' = IF ~tx[c].tab.live THEN t
                  ELSE CASE answer = "ended" -> Asking(t)
                         [] answer = "ok" ->
                              [t EXCEPT !.panel = [w |-> w, status |-> "loaded", role |-> got.role,
                                                   list |-> got.list, rev |-> got.rev],
                                        !.pending = IF @.w = w THEN NoPending ELSE @]
                         [] OTHER ->
                              Drawn([t EXCEPT !.panel = [NoPanel(w) EXCEPT !.status = "error",
                                     !.role = IF answer = "unknown" THEN t.panel.role ELSE "none"]])

(* The rest of changeWorkspaceMember.                                      *)
Restored(t, w, prev, answer) ==
    Drawn([t EXCEPT !.pending = NoPending,
                    !.panel = IF answer = "refused" THEN [NoPanel(w) EXCEPT !.status = "error"]
                              ELSE [w |-> w, status |-> "loaded", role |-> prev.role,
                                    list |-> prev.list, rev |-> prev.rev]])

ApplySave(c, answer, calls) ==
    LET w == tx[c].op.w
        t == [tab EXCEPT !.pending.settled = TRUE,
                         !.saved = IF answer = "ok" /\ tab.sel = w THEN tx[c].payload.rev ELSE @]
    IN  CASE tab.pending.id # tx[c].tab.id -> tab' = tab /\ tx' = calls
          [] tab.pending.id = tx[c].tab.id /\ ~tx[c].tab.live -> Reconcile(t, calls)
          [] tab.pending.id = tx[c].tab.id /\ tx[c].tab.live ->
               CASE answer \in {"ok", "unknown"} -> LoadMembers(t, calls, w, 0)
                 [] answer = "ended" -> tab' = Asking(t) /\ tx' = calls
                 [] OTHER -> tab' = Restored(t, w, tx[c].tab.prev, answer) /\ tx' = calls

(* The rest of issueWorkspaceJoinCode.                                     *)
ApplyIssue(c, answer, calls) ==
    LET t == [tab EXCEPT !.issuing.settled = TRUE,
                         !.issuing.code = IF answer = "ok" THEN tx[c].payload.rev ELSE 0,
                         !.issuing.expires = IF answer = "ok" THEN tx[c].began + Lifetime ELSE 0]
    IN  /\ tx' = calls
        /\ tab' = CASE tab.issuing.id # tx[c].tab.id -> tab
                    [] tab.issuing.id = tx[c].tab.id /\ answer = "ended" /\ tab.issuing.reconciled -> Asking(Finalized(t))
                    [] OTHER -> Finalized(t)

Apply(c, answer, calls) ==
    CASE tx[c].op.kind = "list" -> ApplyList(c, answer, calls)
      [] tx[c].op.kind = "issue" -> ApplyIssue(c, answer, calls)
      [] OTHER -> ApplySave(c, answer, calls)

Receive(c) ==
    /\ tx[c].at = "answered"
    /\ Apply(c, tx[c].answer, Ended(tx, c))
    /\ UNCHANGED <<db, clock, cookie, told, steps, losses, logins>>

(* A request or its answer is lost, or the Worker stops waiting for the    *)
(* database: the tab hears of no result; what has begun goes on.           *)
Lose(c) ==
    /\ losses < MaxLosses /\ losses' = losses + 1
    /\ tx[c].at # "free" /\ tx[c].mine
    /\ Apply(c, "unknown", IF tx[c].at \in {"sent", "answered"} THEN Ended(tx, c)
                            ELSE [tx EXCEPT ![c].mine = FALSE, ![c].tab = NoTab])
    /\ UNCHANGED <<db, clock, cookie, told, steps, logins>>

(* Another tab of the browser logs in or out, and announces it.            *)
ChangeLogin(u) ==
    /\ logins < MaxLogins /\ logins' = logins + 1
    /\ cookie' = u /\ told' = TRUE
    /\ UNCHANGED <<db, tx, clock, tab, steps, losses>>

(* The tab hears of it.  The announcements before the last are dropped by  *)
(* their version.                                                          *)
HearChange ==
    /\ told /\ told' = FALSE
    /\ tab' = Asking([tab EXCEPT !.hidden = TRUE, !.pending.reconciled = (tab.pending.id = 0),
                                  !.issuing.reconciled = (tab.issuing.id = 0)])
    /\ tx' = Outdated(tx, Generation)
    /\ UNCHANGED <<db, clock, cookie, steps, losses, logins>>

ReloadSession ==
    /\ Act /\ tab.load = "none" /\ (Ready \/ tab.hidden)
    /\ tab' = Asking(tab)
    /\ UNCHANGED <<db, tx, clock, cookie, told, losses, logins>>

GetSession ==
    /\ tab.load = "asked"
    /\ tab' = [tab EXCEPT !.load = "answered",
                           !.found = [me |-> cookie, spaces |-> IF cookie = None THEN {} ELSE SpacesOf(cookie)]]
    /\ UNCHANGED <<db, tx, clock, cookie, told, steps, losses, logins>>

LoseSession ==
    /\ losses < MaxLosses /\ losses' = losses + 1
    /\ tab.load # "none"
    /\ tab' = [tab EXCEPT !.load = "none", !.found = NoSession]
    /\ UNCHANGED <<db, tx, clock, cookie, told, steps, logins>>

(* replaceCurrentSession.                                                  *)
KeepsCode(t, u) ==
    IF t.me \in {None, u} THEN [t EXCEPT !.me = u]
    ELSE [t EXCEPT !.me = u, !.sel = None, !.panel = NoPanel(None), !.pending = NoPending,
                   !.issuing = NoIssuing, !.saved = 0]
Replaced(t, u) ==
    IF t.me \in {None, u} THEN [t EXCEPT !.me = u]
    ELSE [t EXCEPT !.me = u, !.sel = None, !.panel = NoPanel(None), !.pending = NoPending,
                   !.issuing = NoIssuing, !.shown = NoShown, !.saved = 0]

(* What loadSession does with the pending mutation, and the selection      *)
(* resolveCurrentWorkspace makes.                                          *)
Resumed(t) ==
    IF t.pending.id = 0 THEN t
    ELSE IF t.pending.w \in t.spaces THEN [t EXCEPT !.pending.reconciled = TRUE, !.sel = t.pending.w]
    ELSE [t EXCEPT !.pending = NoPending]
Selected(t) ==
    {Drawn([t EXCEPT !.sel = w, !.saved = IF w = t.sel THEN @ ELSE 0]) :
       w \in IF t.spaces = {} THEN {None} ELSE IF t.sel \in t.spaces THEN {t.sel} ELSE t.spaces}

ShowSession ==
    LET found == [Replaced(tab, tab.found.me) EXCEPT !.spaces = tab.found.spaces, !.load = "none",
                                                     !.found = NoSession, !.hidden = FALSE]
        calls == IF tab.me = tab.found.me THEN tx ELSE Outdated(tx, Generation)
    IN  /\ tab.load = "answered"
        /\ \E t \in Selected(Resumed([found EXCEPT !.issuing.reconciled = TRUE])) :
              LET u == IF t.issuing.settled THEN Finalized(t) ELSE t IN
              IF u.pending.settled THEN Reconcile(u, calls) ELSE tab' = u /\ tx' = calls
        /\ UNCHANGED <<db, clock, cookie, told, steps, losses, logins>>

(* The timer of the shown code.                                            *)
HideCode ==
    /\ tab.shown.code # 0 /\ tab.shown.expires <= clock
    /\ tab' = [tab EXCEPT !.shown = NoShown]
    /\ UNCHANGED <<db, tx, clock, cookie, told, steps, losses, logins>>
----------------------------------------------------------------------------
(* A call somebody makes from elsewhere, with a code they were given.      *)
CallElsewhere(by, o) ==
    /\ Act
    /\ o.code <= issued
    /\ \E c \in Calls :
         /\ tx[c].at = "free"
         /\ tx' = [tx EXCEPT ![c] = [FreeCall EXCEPT !.at = "begun", !.op = o, !.by = by, !.began = clock]]
    /\ UNCHANGED <<db, clock, cookie, told, tab, losses, logins>>

Tick ==
    /\ clock < MaxClock /\ clock' = clock + 1
    /\ UNCHANGED <<db, tx, cookie, told, tab, steps, losses, logins>>

Database(c) == \/ Arrive(c) \/ LockWorkspace(c) \/ UpdateMember(c) \/ LockCode(c) \/ RedeemCode(c)
               \/ LockUser(c) \/ IssueCode(c) \/ BreakDeadlock(c) \/ ListMembers(c)

TabSteps == \/ ShowList \/ AskCode \/ HearChange \/ ReloadSession \/ GetSession \/ LoseSession
            \/ ShowSession \/ HideCode
            \/ \E w \in Workspaces : SelectWorkspace(w)
            \/ \E o \in Saves : o.code <= issued /\ Save(o)

Next == \/ \E c \in Calls : Database(c) \/ Receive(c) \/ Lose(c)
        \/ TabSteps
        \/ \E p \in Offers : CallElsewhere(p[1], p[2])
        \/ \E u \in Logins \cup {None} : ChangeLogin(u)
        \/ Tick

Spec == Init /\ [][Next]_vars
----------------------------------------------------------------------------
(* The audit log of a workspace tells its members: each entry of a user    *)
(* follows from the one before it, the first from what the user was at the *)
(* start, and the table holds what the last one says (metadata of every    *)
(* insert into audit_logs).                                                *)
Told(w, u, n, row) ==
    LET log == audit[w] IN
    \/ \E i \in 1 .. n : log[i].user = u /\ log[i].new = row /\ \A j \in i + 1 .. n : log[j].user # u
    \/ (\A j \in 1 .. n : log[j].user # u) /\ row = FirstMember(w, u)
AuditTellsMembers ==
    \A w \in Workspaces :
      /\ \A u \in Users : Told(w, u, Len(audit[w]), member[w][u])
      /\ \A i \in DOMAIN audit[w] : Told(w, audit[w][i].user, i - 1, audit[w][i].old)

(* A join code lets one user into one workspace, and only while it is the  *)
(* newest of its user: after it is replaced or used nobody enters with it. *)
AdmitsByNewest(a) == code[a[3]].id = a[1] /\ \A b \in admitted : a[1] # b[1]
CodeAdmitsOnce == [][\A a \in admitted' \ admitted : AdmitsByNewest(a)]_vars

(* Whoever changes a membership manages the workspace at the moment of the *)
(* change, not only when the function looked; and what is changed is never *)
(* the owner's.                                                            *)
ChangesAreManaged ==
    [][\A w \in Workspaces, u \in Users : member'[w][u] # member[w][u] =>
         /\ u # Owner[w]
         /\ \E c \in Calls : HoldsSpace(c, w) /\ ~HoldsSpace(c, w)' /\ Manages(tx[c].by, w)]_vars

(* The bound of a list answer holds for the table.                         *)
MembersWithinLimit ==
    \A w \in Workspaces : IsFiniteSet(Active(w)) /\ Cardinality(Active(w)) <= MaxMembers

(* Once the tab has been told that its change was made, it shows no list   *)
(* that was read before the change.                                        *)
Listed(t) == t.panel.status = "loaded" => t.panel.rev >= t.saved
SettledIsListed == Listed(tab)

(* The join code on the page was asked for by the user whose page it is.   *)
ForAsker(t) == t.shown.code # 0 => t.shown.for = t.me
ShownCodeIsAskers == ForAsker(tab)

----------------------------------------------------------------------------
(* What the tables, the calls under way and the tab know of each other.    *)
Standings == Roles \cup {"none"}
Rows == {NoMember} \cup [role : Roles, status : {"active", "removed"}]
Codes == [id : Nat, expires : Nat, used : BOOLEAN]
Places == Workspaces \cup {None}
Persons == Users \cup {None}
Views == [role : Standings, list : [Users -> Standings], rev : Nat]
Records == [at : {"free", "sent", "begun", "locked", "coded", "answered"},
            op : Changes \cup {Issue} \cup {List(w) : w \in Workspaces},
            by : Persons, began : Nat, mine : BOOLEAN,
            tab : [id : Nat, live : BOOLEAN, prev : Views, heals : Nat],
            answer : {"none", "ok", "refused", "conflict", "unknown", "ended"}, payload : Views]
Panels == [w : Places, status : {"idle", "loading", "loaded", "saving", "error"}, role : Standings,
           list : [Users -> Standings], rev : Nat]
Pendings == [id : Nat, w : Places, settled : BOOLEAN, reconciled : BOOLEAN, healing : BOOLEAN]
Issuings == [id : Nat, settled : BOOLEAN, reconciled : BOOLEAN, code : Nat, expires : Nat]
Sessions == [me : Persons, spaces : SUBSET Workspaces]
Tabs == [me : Persons, spaces : SUBSET Workspaces, sel : Places, panel : Panels, pending : Pendings,
         issuing : Issuings, shown : [code : Nat, expires : Nat, for : Persons], hidden : BOOLEAN,
         load : {"none", "asked", "answered"}, found : Sessions, saved : Nat]

TypeOK ==
    /\ member \in [Workspaces -> [Users -> Rows]] /\ code \in [Users -> Codes]
    /\ audit \in [Workspaces -> Seq([user : Users, old : Rows, new : Rows])]
    /\ tx \in [Calls -> Records] /\ tab \in Tabs
    /\ issued \in Nat /\ clock \in Nat /\ cookie \in Persons
    /\ steps \in Nat /\ losses \in Nat /\ logins \in Nat /\ told \in BOOLEAN

(* The only owner of a workspace is its creator.                           *)
OwnersStay ==
    \A w \in Workspaces, u \in Users :
      /\ member[w][u].role = "owner" <=> u = Owner[w]
      /\ u = Owner[w] => member[w][u].status = "active"

(* A code is in one row, used once, and what was used is in no other.      *)
CodesAreOnce ==
    /\ \A u, v \in Users : code[u].id = code[v].id => u = v \/ code[u].id = 0
    /\ \A u \in Users : code[u].id <= issued /\ (code[u].id = 0 => code[u].expires = 0)
    /\ \A b \in admitted : /\ b[1] \in 1 .. issued
                           /\ \A u \in Users : code[u].id = b[1] => code[u].used

(* Who holds a lock holds it alone, and what was asked behind it is true   *)
(* until it is given back.                                                 *)
LocksHold ==
    /\ \A c \in Calls : tx[c].at \in {"begun", "locked", "coded"} => tx[c].by \in Users
    /\ \A c \in Calls : tx[c].at = "locked" => tx[c].op.kind # "list"
    /\ \A c \in Calls : tx[c].at = "coded" =>
         /\ tx[c].op.kind = "redeem" /\ Refusal(c) = "none" /\ tx[c].op.code \in 1 .. issued
         /\ \A u \in Users : code[u].id = tx[c].op.code => ~code[u].used
    /\ \A c, d \in Calls : c # d =>
         /\ \A w \in Workspaces : ~(HoldsSpace(c, w) /\ HoldsSpace(d, w))
         /\ ~(tx[c].at = "coded" /\ tx[d].at = "coded" /\ tx[c].op.code = tx[d].op.code)

(* A call q of the tab t: a change somebody asked for, one t waits for, a  *)
(* list t will show.                                                       *)
Own(q) == q.mine /\ q.at # "free"
Change(q) == Own(q) /\ q.op.kind \in {"update", "redeem"}
Awaited(q, t) == Change(q) /\ q.tab.id = t.pending.id
Listing(q) == Own(q) /\ q.op.kind = "list" /\ q.tab.live
Brings(q) == q.at = "answered" /\ q.answer = "ok"

(* What the calls of the tab may still bring, with the audit log of each   *)
(* workspace and n acts so far.                                            *)
CallsKnow(calls, t, log, n) ==
    /\ \A c \in Calls : calls[c].at = "answered" => calls[c].mine
    /\ \A c \in Calls : Change(calls[c]) =>
         /\ calls[c].tab.id \in 1 .. n
         /\ Brings(calls[c]) => calls[c].payload.rev <= Len(log[calls[c].op.w])
    /\ \A c, d \in Calls :
         Change(calls[c]) /\ Change(calls[d]) /\ calls[c].tab.id = calls[d].tab.id => c = d
    /\ \A c \in Calls : Awaited(calls[c], t) =>
         /\ calls[c].op.w = t.pending.w /\ ~t.pending.settled
         /\ calls[c].tab.live => /\ t.pending.reconciled
                                 /\ t.sel = t.pending.w => calls[c].tab.prev.rev >= t.saved
    /\ \A c \in Calls : Listing(calls[c]) =>
         /\ t.pending.id # 0 => t.pending.reconciled
         /\ t.saved # 0 => /\ calls[c].op.w = t.sel
                           /\ Brings(calls[c]) => calls[c].payload.rev >= t.saved

(* What the tab knows of its own change, its selection and its code.       *)
TabKnows(t, log, n) ==
    /\ t.me = None => t.pending.id = 0 /\ t.issuing.id = 0 /\ t.shown.code = 0
    /\ t.sel \in t.spaces \cup {None}
    /\ t.saved # 0 => t.sel # None /\ t.saved <= Len(log[t.sel])
    /\ t.pending.id # 0 =>
         /\ t.pending.id <= n /\ t.pending.w \in Workspaces
         /\ t.pending.w # t.sel => t.saved = 0
         /\ t.panel.w = t.pending.w => t.panel.status # "loaded"
         /\ t.pending.healing => t.pending.settled
         /\ IF t.pending.reconciled THEN t.pending.w \in t.spaces ELSE t.hidden

(* The tables are sound, their locks hold, and the tab knows what it shows *)
(* of them: the inductive invariant the other properties follow from.      *)
TableIsSound ==
    /\ TypeOK /\ AuditTellsMembers /\ MembersWithinLimit
    /\ OwnersStay /\ CodesAreOnce /\ LocksHold
    /\ CallsKnow(tx, tab, audit, steps) /\ TabKnows(tab, audit, steps) /\ Listed(tab) /\ ForAsker(tab)
=============================================================================
