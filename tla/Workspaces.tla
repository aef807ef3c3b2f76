----------------------------- MODULE Workspaces -----------------------------
(***************************************************************************)
(* Identities and workspaces on D1: the bootstrap that gives a person who  *)
(* comes from the login an identity and a personal workspace, the          *)
(* workspaces people make, and the join codes that let others in.          *)
(*                                                                         *)
(* A batch of D1 is a transaction: its statements are one step, and what   *)
(* they find is decided by their guards and by unique indexes.  The        *)
(* bootstrap and getOrCreatePersonalWorkspace read before and after their  *)
(* batch, so their calls have steps; of any other operation only its one   *)
(* batch or its last read matters, and its answer where it names a         *)
(* personal workspace.                                                     *)
(***************************************************************************)
EXTENDS Naturals, FiniteSets

CONSTANTS People,      \* verified issuers and subjects
          Spaces,      \* workspace ids, drawn at random
          Operations,  \* operation ids that clients choose
          Sends,       \* which of them each person's clients chose
          Slugs,       \* what a person may call a workspace
          Codes,       \* join codes, drawn at random
          Calls,       \* requests that the Worker serves at once
          None,
          Roles,       \* roles that may be given
          MemberLimit, \* active members of a workspace (in the code: 1000)
          MaxActs, MaxFaults \* bounds: the changes counted by acts, and failures

ASSUME BoundAssumption == MaxActs \in Nat /\ MaxFaults \in Nat
ASSUME LimitAssumption == MemberLimit \in Nat \ {0}
ASSUME RolesAssumption == Roles \subseteq {"admin", "editor", "viewer"}
ASSUME SendsAssumption == Sends \subseteq People \X Operations
ASSUME NoneAssumption == None \notin People \cup Spaces \cup Operations \cup Slugs \cup Codes
ASSUME FiniteAssumption == IsFiniteSet(People)

VARIABLES identity,  \* the status of each person's row of identities
          madeBy,    \* history: who inserted that row
          space,     \* workspaces
          member,    \* workspace_members
          code,      \* workspace_join_codes
          operation, \* onboarding_bootstrap_operations
          events,    \* onboarding_signup_events
          audit,     \* audit_logs, without the changes of members
          acts,      \* how many changes operators made and time, and how many members and codes changed
          call,      \* the bootstrap and personal-workspace calls under way
          told,      \* history: the first personal workspace each person was told
          answer,    \* what the last step answered
          faults

onboarding == <<identity, madeBy, operation, events>>
tables == <<onboarding, space, member, code, audit, acts>>
vars == <<tables, call, told, answer, faults>>

-----------------------------------------------------------------------------
(* Rows.                                                                   *)

NoSpace == [kind |-> "none", status |-> "none", owner |-> None, slug |-> None]
NoCode == [state |-> "none", issuer |-> None, expired |-> FALSE]
NoMember == [role |-> "none", status |-> "none"]
Owner == [role |-> "owner", status |-> "active"]
NoOperation == [space |-> None, created |-> FALSE]

Statuses == {"active", "suspended", "deleted"}
Spaced == [kind : {"standard"}, status : Statuses, owner : People, slug : Slugs]
          \cup [kind : {"personal"}, status : Statuses, owner : People, slug : {None}]
Coded == [state : {"live", "consumed", "revoked"}, issuer : People, expired : BOOLEAN]
Membered == {Owner} \cup [role : Roles, status : {"active", "removed"}]
Done == [space : Spaces, created : BOOLEAN]
Events == [person : People, operation : Operations, space : Spaces]
Entries == [action : {"created"}, actor : People, space : Spaces, code : {None}]
           \cup [action : {"issued"}, actor : People, space : {None}, code : Codes]
           \cup [action : {"joined"}, actor : People, space : Spaces, code : Codes]

Idle == [task |-> "none", by |-> None, operation |-> None, pc |-> "idle"]
Working == [task : {"bootstrap"}, by : People, operation : Operations,
            pc : {"check", "batch", "saved", "recheck"}]
           \cup [task : {"personal"}, by : People, operation : {None}, pc : {"find", "batch", "refind"}]
NoAnswer == [person |-> None, operation |-> None, space |-> None, created |-> FALSE]
Answers == [person : People, operation : Operations \cup {None}, space : Spaces, created : BOOLEAN]

TypeOK ==
  /\ identity \in [People -> {"none", "active", "disabled"}]
  /\ madeBy \in [People -> {"none", "bootstrap", "operator"}]
  /\ space \in [Spaces -> Spaced \cup {NoSpace}]
  /\ member \in [Spaces -> [People -> Membered \cup {NoMember}]]
  /\ code \in [Codes -> Coded \cup {NoCode}]
  /\ operation \in [People -> [Operations -> Done \cup {NoOperation}]]
  /\ events \subseteq Events
  /\ audit \subseteq Entries
  /\ acts \in 0..MaxActs
  /\ call \in [Calls -> Working \cup {Idle}]
  /\ told \in [People -> Spaces \cup {None}]
  /\ answer \in Answers \cup {NoAnswer}
  /\ faults \in 0..MaxFaults

Init ==
  /\ identity = [p \in People |-> "none"]
  /\ madeBy = [p \in People |-> "none"]
  /\ space = [s \in Spaces |-> NoSpace]
  /\ member = [s \in Spaces |-> [p \in People |-> NoMember]]
  /\ code = [k \in Codes |-> NoCode]
  /\ operation = [p \in People |-> [o \in Operations |-> NoOperation]]
  /\ events = {} /\ audit = {} /\ acts = 0
  /\ call = [c \in Calls |-> Idle]
  /\ told = [p \in People |-> None]
  /\ answer = NoAnswer
  /\ faults = 0

-----------------------------------------------------------------------------
(* What statements ask.                                                    *)

Active(p) == identity[p] = "active"
\* Whom the Worker takes for a user before a route reads anything.
ApplicationUser(p) == identity[p] = "active"
Opened(s) == space[s].status = "active"
KeptPersonal(p) ==
  {s \in Spaces : space[s].kind = "personal" /\ space[s].owner = p /\ space[s].status # "deleted"}
Personal(p) == {s \in Spaces : space[s].kind = "personal" /\ space[s].owner = p}
Unused == {s \in Spaces : space[s] = NoSpace}
SlugIsFree(slug) == \A s \in Spaces : ~(Opened(s) /\ space[s].slug = slug)
ActiveMembers(s) == {p \in People : member[s][p].status = "active"}
Owns(p, s) == Active(p) /\ Opened(s) /\ member[s][p] = Owner
Manages(p, s) ==
  /\ Active(p) /\ Opened(s)
  /\ member[s][p].status = "active" /\ member[s][p].role \in {"owner", "admin"}
Listed(p) == {s \in Spaces : Active(p) /\ Opened(s) /\ member[s][p].status = "active"}

\* A workspace with its owner, and the row of the audit log.
Insert(s, kind, slug, p) ==
  /\ space' = [space EXCEPT ![s] = [kind |-> kind, status |-> "active", owner |-> p, slug |-> slug]]
  /\ member' = [member EXCEPT ![s][p] = Owner]
  /\ audit' = audit \cup {[action |-> "created", actor |-> p, space |-> s, code |-> None]}

-----------------------------------------------------------------------------
(* Calls.                                                                  *)

At(c, task, pc) == call[c].task = task /\ call[c].pc = pc
Silent == answer' = NoAnswer /\ UNCHANGED told
Goes(c, pc) == call' = [call EXCEPT ![c].pc = pc] /\ Silent /\ UNCHANGED faults
Ends(c) == call' = [call EXCEPT ![c] = Idle] /\ Silent /\ UNCHANGED faults
Says(p, o, s, created) ==
  /\ answer' = [person |-> p, operation |-> o, space |-> s, created |-> created]
  /\ told' = IF told[p] = None THEN [told EXCEPT ![p] = s] ELSE told
Tells(c, s, created) ==
  /\ call' = [call EXCEPT ![c] = Idle]
  /\ Says(call[c].by, call[c].operation, s, created)
  /\ UNCHANGED faults
\* A batch that was committed, and whose answer was lost.
Lost(c, pc) ==
  /\ faults < MaxFaults
  /\ faults' = faults + 1
  /\ call' = [call EXCEPT ![c].pc = pc]
  /\ Silent

\* A statement that throws without an effect.  The catch blocks read once more.
Catch(c) ==
  CASE call[c].task = "bootstrap" /\ call[c].pc \in {"batch", "saved"} -> [call[c] EXCEPT !.pc = "recheck"]
    [] call[c].task = "personal" /\ call[c].pc = "batch" -> [call[c] EXCEPT !.pc = "refind"]
    [] OTHER -> Idle
Fault(c) ==
  /\ call[c] # Idle
  /\ faults < MaxFaults
  /\ faults' = faults + 1
  /\ call' = [call EXCEPT ![c] = Catch(c)]
  /\ Silent
  /\ UNCHANGED tables

-----------------------------------------------------------------------------
(* The bootstrap.                                                          *)

StartBootstrap(c, p, o) ==
  /\ call[c] = Idle
  /\ <<p, o>> \in Sends
  /\ call' = [call EXCEPT ![c] = [task |-> "bootstrap", by |-> p, operation |-> o, pc |-> "check"]]
  /\ Silent
  /\ UNCHANGED <<tables, faults>>

\* Neither disabled nor locked out of a personal workspace.
Available(p) ==
  /\ identity[p] # "disabled"
  /\ \A s \in Personal(p) : Opened(s) /\ member[s][p] \in {NoMember, Owner}

Check(c) ==
  /\ At(c, "bootstrap", "check")
  /\ IF Available(call[c].by) THEN Goes(c, "batch") ELSE Ends(c)
  /\ UNCHANGED tables

\* The row of the operation has no value for who has no active identity or is locked
\* out, which takes the batch back, unless that row is already there.
Aborts(p, o) ==
  \/ identity[p] = "disabled"
  \/ operation[p][o] = NoOperation /\ ~Available(p)

FirstOperation(p) == operation[p] = [o \in Operations |-> NoOperation]
\* Whether the identity is the one that this batch inserts.
Creates(p) == identity[p] = "none"

SavesOperation(p, o, s) ==
  operation' = IF operation[p][o] # NoOperation THEN operation
               ELSE [operation EXCEPT ![p][o] = [space |-> s, created |-> Creates(p)]]
Signs(p, o) == operation'[p][o].created /\ \A e \in events : e.person # p

Bootstrap(c) ==
  /\ At(c, "bootstrap", "batch")
  /\ LET p == call[c].by
         o == call[c].operation
     IN \/ Aborts(p, o) /\ Goes(c, "recheck") /\ UNCHANGED tables
        \/ /\ ~Aborts(p, o)
           /\ identity' = [identity EXCEPT ![p] = "active"]
           /\ madeBy' = IF identity[p] = "none" THEN [madeBy EXCEPT ![p] = "bootstrap"] ELSE madeBy
           /\ \/ /\ Personal(p) = {}
                 /\ \E s \in Unused : Insert(s, "personal", None, p) /\ SavesOperation(p, o, s)
              \/ /\ \E s \in Personal(p) :
                      /\ member' = IF Opened(s) /\ member[s][p] = NoMember
                                   THEN [member EXCEPT ![s][p] = Owner] ELSE member
                      /\ SavesOperation(p, o, s)
                 /\ UNCHANGED <<space, audit>>
           /\ events' = IF Signs(p, o)
                        THEN events \cup {[person |-> p, operation |-> o, space |-> operation'[p][o].space]}
                        ELSE events
           /\ UNCHANGED <<code, acts>>
           /\ Goes(c, "saved") \/ Lost(c, "recheck")

\* The row of the operation, as long as its workspace is still the person's.
ReadSaved(c) ==
  /\ At(c, "bootstrap", "saved")
  /\ LET p == call[c].by
         row == operation[p][call[c].operation]
     IN IF row # NoOperation /\ row.space \in Personal(p) /\ Owns(p, row.space)
        THEN Tells(c, row.space, row.created)
        ELSE Goes(c, "recheck")
  /\ UNCHANGED tables

\* It decides which error the call ends with.
Recheck(c) == At(c, "bootstrap", "recheck") /\ Ends(c) /\ UNCHANGED tables

-----------------------------------------------------------------------------
(* The personal workspace without the bootstrap.                           *)

StartPersonal(c, p) ==
  /\ call[c] = Idle
  /\ Active(p)
  /\ call' = [call EXCEPT ![c] = [task |-> "personal", by |-> p, operation |-> None, pc |-> "find"]]
  /\ Silent
  /\ UNCHANGED <<tables, faults>>

\* The personal workspace in any status; only an active one is answered.
Converges(c) ==
  \E s \in Personal(call[c].by) : IF Opened(s) THEN Tells(c, s, FALSE) ELSE Ends(c)
IsFound(c) == Active(call[c].by) /\ Personal(call[c].by) # {}

FindPersonal(c) ==
  /\ At(c, "personal", "find")
  /\ IF IsFound(c) THEN Converges(c) ELSE Goes(c, "batch")
  /\ UNCHANGED tables

\* The unique index refuses a second one, and an identity that is not active inserts none.
GetOrCreatePersonalWorkspace(c) ==
  /\ At(c, "personal", "batch")
  /\ LET p == call[c].by
     IN \/ ~Active(p) /\ Goes(c, "refind") /\ UNCHANGED tables
        \/ Personal(p) # {} /\ Goes(c, "refind") /\ UNCHANGED tables
        \/ /\ Active(p) /\ Personal(p) = {}
           /\ \E s \in Unused : Insert(s, "personal", None, p) /\ (Tells(c, s, FALSE) \/ Lost(c, "refind"))
           /\ UNCHANGED <<onboarding, code, acts>>

RefindPersonal(c) ==
  /\ At(c, "personal", "refind")
  /\ IF IsFound(c) THEN Converges(c) ELSE Ends(c)
  /\ UNCHANGED tables

\* The page of the manuals in the cloud.
GetPersonalWorkspace(p) ==
  /\ ApplicationUser(p)
  /\ \E s \in Personal(p) : Owns(p, s) /\ Says(p, None, s, FALSE)
  /\ UNCHANGED <<tables, call, faults>>

-----------------------------------------------------------------------------
(* Workspaces, join codes and members.                                     *)

CreateWorkspace(p, slug) ==
  /\ ApplicationUser(p) /\ Active(p)
  /\ SlugIsFree(slug)
  /\ Cardinality(Unused) > Cardinality(People) \* a bound: ids are left for personal workspaces
  /\ \E s \in Unused : Insert(s, "standard", slug, p)
  /\ UNCHANGED <<onboarding, code, acts, call, faults>>
  /\ Silent

IsLive(k) == code[k].state = "live"
Acts == acts < MaxActs /\ acts' = acts + 1
IssueJoinCode(p) ==
  /\ Acts
  /\ ApplicationUser(p) /\ Active(p)
  /\ \E k \in Codes :
       /\ code[k] = NoCode
       /\ code' = [x \in Codes |->
            IF x = k THEN [state |-> "live", issuer |-> p, expired |-> FALSE]
            ELSE IF IsLive(x) /\ code[x].issuer = p THEN [code[x] EXCEPT !.state = "revoked"]
            ELSE code[x]]
       /\ audit' = audit \cup {[action |-> "issued", actor |-> p, space |-> None, code |-> k]}
  /\ UNCHANGED <<onboarding, space, member, call, faults>>
  /\ Silent

EverIssued(k) == code[k].state \in {"live", "consumed"} /\ ~code[k].expired /\ Active(code[k].issuer)
Usable(k) == IsLive(k) /\ ~code[k].expired /\ Active(code[k].issuer)
HasRoom(s) == Cardinality(ActiveMembers(s)) < MemberLimit
ConsumeJoinCode(p, s, k, role) ==
  /\ Usable(k)
  /\ Manages(p, s)
  /\ member[s][code[k].issuer].status # "active"
  /\ HasRoom(s)
  /\ code' = [code EXCEPT ![k].state = "consumed"]
  /\ member' = [member EXCEPT ![s][code[k].issuer] = [role |-> role, status |-> "active"]]
  /\ audit' = audit \cup {[action |-> "joined", actor |-> p, space |-> s, code |-> k]}
  /\ UNCHANGED <<onboarding, space, acts, call, faults>>
  /\ Silent

UpdateMember(p, s, q, new) ==
  /\ ~(p = q /\ new.status = "removed")
  /\ member[s][q] \notin {NoMember, Owner, new}
  /\ ~(member[s][q].status # "active" /\ new.status = "active")
  /\ Active(q)
  /\ Manages(p, s)
  /\ Acts
  /\ member' = [member EXCEPT ![s][q] = new]
  /\ UNCHANGED <<onboarding, space, code, audit, call, faults>>
  /\ Silent

-----------------------------------------------------------------------------
(* What operators do in the database, and time.                            *)

Provision(p) ==
  /\ Acts
  /\ identity[p] = "none"
  /\ identity' = [identity EXCEPT ![p] = "active"]
  /\ madeBy' = [madeBy EXCEPT ![p] = "operator"]
  /\ UNCHANGED <<operation, events, space, member, code, audit, call, faults>>
  /\ Silent

\* A trigger keeps the last active owner of a workspace.
Disable(p) ==
  /\ Acts
  /\ Active(p)
  /\ \A s \in Spaces : member[s][p] = Owner => \E q \in People \ {p} : member[s][q] = Owner /\ Active(q)
  /\ identity' = [identity EXCEPT ![p] = "disabled"]
  /\ UNCHANGED <<madeBy, operation, events, space, member, code, audit, call, faults>>
  /\ Silent
Enable(p) ==
  /\ Acts
  /\ identity[p] = "disabled"
  /\ identity' = [identity EXCEPT ![p] = "active"]
  /\ UNCHANGED <<madeBy, operation, events, space, member, code, audit, call, faults>>
  /\ Silent

SetStatus(s, status) ==
  /\ Acts
  /\ space[s].status \notin {"none", status}
  /\ status = "active" /\ space[s].slug # None => SlugIsFree(space[s].slug)
  /\ space' = [space EXCEPT ![s].status = status]
  /\ UNCHANGED <<onboarding, member, code, audit, call, faults>>
  /\ Silent

Expire(k) ==
  /\ Acts
  /\ IsLive(k) /\ ~code[k].expired
  /\ code' = [code EXCEPT ![k].expired = TRUE]
  /\ UNCHANGED <<onboarding, space, member, audit, call, faults>>
  /\ Silent

-----------------------------------------------------------------------------
Step(c) ==
  \/ \E p \in People, o \in Operations : StartBootstrap(c, p, o)
  \/ \E p \in People : StartPersonal(c, p)
  \/ Check(c) \/ Bootstrap(c) \/ ReadSaved(c) \/ Recheck(c)
  \/ FindPersonal(c) \/ GetOrCreatePersonalWorkspace(c) \/ RefindPersonal(c)
  \/ Fault(c)

Manage ==
  \/ \E p \in People : GetPersonalWorkspace(p) \/ IssueJoinCode(p)
  \/ \E p \in People, slug \in Slugs : CreateWorkspace(p, slug)
  \/ \E p \in People, s \in Spaces, k \in Codes, role \in Roles : ConsumeJoinCode(p, s, k, role)
  \/ \E p, q \in People, s \in Spaces, new \in [role : Roles, status : {"active", "removed"}] :
       UpdateMember(p, s, q, new)

Environment ==
  \/ \E p \in People : Provision(p) \/ Disable(p) \/ Enable(p)
  \/ \E s \in Spaces, status \in Statuses : SetStatus(s, status)
  \/ \E k \in Codes : Expire(k)

Next == (\E c \in Calls : Step(c)) \/ Manage \/ Environment

Spec == Init /\ [][Next]_vars

-----------------------------------------------------------------------------
(* Properties.                                                             *)

\* A signup is recorded exactly once for a person whose identity a bootstrap made, with
\* the operation that made it, and never for one whom an operator provisioned: however
\* often a bootstrap is sent again, whichever answers are lost, and whoever else makes
\* the identity or the workspace at the same time (onboarding-repository.ts:57).
Firsts(p) == {o \in Operations : operation[p][o].created}
SignupOnce ==
  \A p \in People :
    LET signups == {e \in events : e.person = p}
    IN IF madeBy[p] = "bootstrap"
       THEN \E o \in Operations :
              /\ Firsts(p) = {o}
              /\ signups = {[person |-> p, operation |-> o, space |-> operation[p][o].space]}
       ELSE Firsts(p) = {} /\ signups = {}

\* Whatever path answers with a personal workspace (bootstraps, sent again or not, the
\* page, getOrCreatePersonalWorkspace) names the same one to a person for ever, an
\* operation is answered the same each time, and the workspace is in the list of
\* its person unless it is closed (workspace-repository.ts:304, :124).
AnswersConverge ==
  /\ answer # NoAnswer =>
       /\ answer.space = told[answer.person]
       /\ answer.operation # None =>
            operation[answer.person][answer.operation] = [space |-> answer.space, created |-> answer.created]
  /\ \A p \in People : told[p] # None =>
       /\ space[told[p]].kind = "personal" /\ space[told[p]].owner = p
       /\ Opened(told[p]) => told[p] \in Listed(p)

OnePersonal ==
  \A s, t \in Spaces :
    s # t /\ space[s].kind = "personal" /\ space[t].kind = "personal" => space[s].owner # space[t].owner
OwnersStay ==
  \A s \in Spaces :
    IF space[s] = NoSpace THEN \A p \in People : member[s][p] = NoMember
    ELSE /\ Active(space[s].owner)
         /\ \A p \in People : member[s][p] = Owner <=> p = space[s].owner
         /\ [action |-> "created", actor |-> space[s].owner, space |-> s, code |-> None] \in audit
SlugsAreUnique ==
  \A s, t \in Spaces : s # t /\ Opened(s) /\ Opened(t) /\ space[s].slug # None => space[s].slug # space[t].slug
OneLiveCode == \A j, k \in Codes : j # k /\ IsLive(j) /\ IsLive(k) => code[j].issuer # code[k].issuer
Joins(k) == {e \in audit : e.action = "joined" /\ e.code = k}
MembersWereLetIn ==
  /\ \A k \in Codes : IF code[k].state = "consumed" THEN \E e \in audit : Joins(k) = {e} ELSE Joins(k) = {}
  /\ \A s \in Spaces, p \in People : member[s][p] \notin {NoMember, Owner} =>
       \E k \in Codes : code[k].issuer = p /\ \E e \in Joins(k) : e.space = s
WithinLimit == \A s \in Spaces : Cardinality(ActiveMembers(s)) <= MemberLimit
OperationsKnown ==
  \A p \in People, o \in Operations :
    operation[p][o] # NoOperation => operation[p][o].space \in Personal(p) /\ identity[p] # "none"
MadeKnown == \A p \in People : identity[p] = "none" <=> madeBy[p] = "none"

\* The rows agree: a workspace keeps the one owner who made it and whose identity stays
\* active, active slugs and personal workspaces are unique, a person has one code to be
\* let in with, and whoever is in a workspace of others was let in there with a code of
\* theirs, which served once (workspace-repository.ts:467, migrations/0001).
Consistent ==
  /\ TypeOK /\ OnePersonal /\ OwnersStay /\ SlugsAreUnique /\ OneLiveCode
  /\ MembersWereLetIn /\ WithinLimit /\ OperationsKnown /\ MadeKnown
=============================================================================
