-------------------------- MODULE WorkspacesProofs --------------------------
(***************************************************************************)
(* Proofs about Workspaces: its three invariants together are inductive.   *)
(* A workspace is inserted by three batches, and one lemma says what that  *)
(* insertion keeps; two lemmas say when an answer, or none, keeps what     *)
(* people were told; the other batches change one table each.              *)
(***************************************************************************)
EXTENDS Workspaces, FiniteSetTheorems, TLAPS

\* What the tables hold, without the types and without what was answered.
TablesOK ==
  /\ OnePersonal /\ OwnersStay /\ SlugsAreUnique /\ OneLiveCode
  /\ MembersWereLetIn /\ WithinLimit /\ OperationsKnown /\ MadeKnown
  /\ SignupOnce
Inv == TypeOK /\ TablesOK /\ AnswersConverge

\* A workspace keeps its kind and its owner.
SpacesStay ==
  \A s \in Spaces : space[s] # NoSpace =>
    space'[s] # NoSpace /\ space'[s].kind = space[s].kind /\ space'[s].owner = space[s].owner
\* Identities stay as active as they are.
StaysActive == \A p \in People : Active(p) => Active(p)'

-----------------------------------------------------------------------------
(* Types.                                                                  *)

LEMMA RowTypes ==
  /\ \A x \in Spaced : x # NoSpace /\ x.kind \in {"standard", "personal"} /\ x.status \in Statuses
                       /\ x.owner \in People /\ x.slug \in Slugs \cup {None}
  /\ \A x \in Coded : x # NoCode /\ x.issuer \in People /\ x.state # "none"
  /\ \A x \in Membered : x # NoMember
  /\ \A x \in Done : x # NoOperation /\ x.space \in Spaces /\ x.created \in BOOLEAN
BY NoneAssumption DEF Spaced, Coded, Membered, Done, NoSpace, NoCode, NoMember, NoOperation, Owner, Statuses

LEMMA RoleTypes == \A role \in Roles, status \in {"active", "removed"} :
  [role |-> role, status |-> status] # Owner /\ [role |-> role, status |-> status] \in Membered
BY RolesAssumption DEF Owner, Membered

\* A workspace that is not free has an owner, whose personal it may be.
LEMMA SpaceTypes ==
  ASSUME TypeOK, NEW s \in Spaces
  PROVE  /\ space[s] # NoSpace <=> space[s].status # "none"
         /\ space[s] # NoSpace => space[s] \in Spaced
         /\ space[s].kind = "personal" => space[s] # NoSpace
         /\ Opened(s) => space[s] # NoSpace
BY RowTypes DEF TypeOK, NoSpace, Opened, Statuses, Spaced

-----------------------------------------------------------------------------
(* Answers.                                                                *)

\* A step that answers nothing keeps what people were told.
LEMMA SilentKeeps ==
  ASSUME TypeOK, TypeOK', AnswersConverge, OwnersStay', SpacesStay, Silent
  PROVE  AnswersConverge'
<1>1. answer' = NoAnswer /\ told' = told
  BY DEF Silent
<1>2. ASSUME NEW p \in People, told[p] # None
      PROVE  /\ space'[told[p]].kind = "personal" /\ space'[told[p]].owner = p
             /\ Opened(told[p])' => told[p] \in Listed(p)'
  <2>1. told[p] \in Spaces
    BY <1>2 DEF TypeOK
  <2>2. space[told[p]].kind = "personal" /\ space[told[p]].owner = p
    BY <1>2 DEF AnswersConverge
  <2>3. space'[told[p]].kind = "personal" /\ space'[told[p]].owner = p /\ space'[told[p]] # NoSpace
    BY <2>1, <2>2, SpaceTypes DEF SpacesStay
  <2>4. Active(p)' /\ member'[told[p]][p] = Owner
    BY <2>1, <2>3 DEF OwnersStay, Active
  <2> QED
    BY <1>1, <2>1, <2>3, <2>4 DEF Listed, Owner, Active, Opened
<1> QED
  BY <1>1, <1>2 DEF AnswersConverge

\* So does one that answers a personal workspace, and the row of the operation with it.
LEMMA SaysKeeps ==
  ASSUME TypeOK, TypeOK', AnswersConverge, OnePersonal', OwnersStay', SpacesStay,
         NEW p \in People, NEW s \in Spaces, NEW o, NEW created, Says(p, o, s, created),
         space'[s].kind = "personal", space'[s].owner = p,
         o # None => operation'[p][o] = [space |-> s, created |-> created]
  PROVE  AnswersConverge'
<1>1. answer' = [person |-> p, operation |-> o, space |-> s, created |-> created]
  BY DEF Says
<1>2. told' = IF told[p] = None THEN [told EXCEPT ![p] = s] ELSE told
  BY DEF Says
<1>3. ASSUME NEW q \in People, told[q] # None
      PROVE  told[q] \in Spaces /\ space'[told[q]].kind = "personal" /\ space'[told[q]].owner = q
  <2>1. told[q] \in Spaces
    BY <1>3 DEF TypeOK
  <2>2. space[told[q]].kind = "personal" /\ space[told[q]].owner = q
    BY <1>3 DEF AnswersConverge
  <2> QED
    BY <2>1, <2>2, SpaceTypes DEF SpacesStay
<1>4. told'[p] = s
  <2>1. CASE told[p] = None
    BY <2>1, <1>2 DEF TypeOK
  <2>2. CASE told[p] # None
    <3>1. told[p] \in Spaces /\ space'[told[p]].kind = "personal" /\ space'[told[p]].owner = p
      BY <1>3, <2>2
    <3>2. told[p] = s
      BY <3>1 DEF OnePersonal
    <3> QED
      BY <3>2, <2>2, <1>2
  <2> QED
    BY <2>1, <2>2
<1>5. ASSUME NEW q \in People, told'[q] # None
      PROVE  /\ space'[told'[q]].kind = "personal" /\ space'[told'[q]].owner = q
             /\ Opened(told[q])' => told'[q] \in Listed(q)'
  <2>1. told'[q] \in Spaces /\ space'[told'[q]].kind = "personal" /\ space'[told'[q]].owner = q
    <3>1. CASE q = p
      BY <3>1, <1>4
    <3>2. CASE q # p
      BY <3>2, <1>2, <1>3, <1>5 DEF TypeOK
    <3> QED
      BY <3>1, <3>2
  <2>2. space'[told'[q]] # NoSpace
    BY <2>1 DEF NoSpace
  <2>3. Active(q)' /\ member'[told'[q]][q] = Owner
    BY <2>1, <2>2 DEF OwnersStay
  <2> QED
    BY <2>1, <2>3 DEF Listed, Owner
<1> QED
  BY <1>1, <1>4, <1>5 DEF AnswersConverge

-----------------------------------------------------------------------------
(* Tables.                                                                 *)

LEMMA TablesUntouched ==
  ASSUME TablesOK, UNCHANGED tables
  PROVE  TablesOK' /\ SpacesStay
BY DEF TablesOK, tables, onboarding, OnePersonal, OwnersStay, SlugsAreUnique, OneLiveCode, MembersWereLetIn,
       WithinLimit, OperationsKnown, MadeKnown, SignupOnce, Firsts, Joins, Active, Opened, Personal, IsLive,
       ActiveMembers, SpacesStay

LEMMA MembersAreFinite == TypeOK => \A s \in Spaces : IsFiniteSet(ActiveMembers(s)) /\ Cardinality(ActiveMembers(s)) \in Nat
<1>1. \A s \in Spaces : ActiveMembers(s) \subseteq People
  BY DEF ActiveMembers
<1> QED
  BY <1>1, FiniteAssumption, FS_Subset, FS_CardinalityType

\* No more members, or one more where there is room.
LEMMA LimitHolds ==
  ASSUME TypeOK, WithinLimit, NEW t \in Spaces, NEW S,
         S \subseteq ActiveMembers(t) \/ \E p \in People : HasRoom(t) /\ S \subseteq ActiveMembers(t) \cup {p}
  PROVE  Cardinality(S) <= MemberLimit
<1>1. IsFiniteSet(ActiveMembers(t)) /\ Cardinality(ActiveMembers(t)) \in Nat /\ MemberLimit \in Nat
  BY MembersAreFinite, LimitAssumption
<1>2. CASE S \subseteq ActiveMembers(t)
  BY <1>1, <1>2, FS_Subset, FS_CardinalityType DEF WithinLimit
<1>3. ASSUME NEW p \in People, HasRoom(t), S \subseteq ActiveMembers(t) \cup {p}
      PROVE  Cardinality(S) <= MemberLimit
  <2>1. /\ IsFiniteSet(ActiveMembers(t) \cup {p})
        /\ Cardinality(ActiveMembers(t) \cup {p}) <= Cardinality(ActiveMembers(t)) + 1
    <3> DEFINE A == ActiveMembers(t)
    <3>1. IsFiniteSet(A) /\ Cardinality(A) \in Nat
      BY <1>1
    <3> HIDE DEF A
    <3>2. /\ IsFiniteSet(A \cup {p})
          /\ Cardinality(A \cup {p}) = IF p \in A THEN Cardinality(A) ELSE Cardinality(A) + 1
      BY <3>1, FS_AddElement
    <3>3. IsFiniteSet(A \cup {p}) /\ Cardinality(A \cup {p}) <= Cardinality(A) + 1
      BY <3>1, <3>2
    <3> QED
      BY <3>3 DEF A
  <2>2. Cardinality(S) <= Cardinality(ActiveMembers(t) \cup {p}) /\ IsFiniteSet(S)
    BY <2>1, <1>3, FS_Subset
  <2>3. Cardinality(S) \in Nat /\ Cardinality(ActiveMembers(t) \cup {p}) \in Nat
    BY <2>1, <2>2, FS_CardinalityType
  <2> QED
    BY <1>1, <1>3, <2>1, <2>2, <2>3 DEF HasRoom
<1> QED
  BY <1>2, <1>3

\* What the insertion of a workspace keeps, whatever its batch does to identities.
LEMMA InsertKeeps ==
  ASSUME TypeOK, TablesOK, NEW t \in Unused, NEW kind \in {"standard", "personal"}, NEW slug \in Slugs \cup {None},
         NEW p \in People, Insert(t, kind, slug, p), Active(p)', StaysActive, UNCHANGED code,
         kind = "personal" => Personal(p) = {} /\ slug = None,
         slug # None => SlugIsFree(slug)
  PROVE  /\ OnePersonal' /\ OwnersStay' /\ SlugsAreUnique' /\ OneLiveCode' /\ MembersWereLetIn' /\ WithinLimit'
         /\ SpacesStay
         /\ \A s \in Spaces : space'[s] = IF s = t THEN [kind |-> kind, status |-> "active", owner |-> p, slug |-> slug]
                                                   ELSE space[s]
<1> DEFINE row == [kind |-> kind, status |-> "active", owner |-> p, slug |-> slug]
           made == [action |-> "created", actor |-> p, space |-> t, code |-> None]
<1>1. t \in Spaces /\ space[t] = NoSpace
  BY DEF Unused
<1>2. /\ \A s \in Spaces : space'[s] = IF s = t THEN row ELSE space[s]
      /\ \A s \in Spaces, q \in People : member'[s][q] = IF s = t /\ q = p THEN Owner ELSE member[s][q]
      /\ audit' = audit \cup {made}
  BY <1>1 DEF Insert, TypeOK
<1>3. row.kind = kind /\ row.status = "active" /\ row.owner = p /\ row.slug = slug /\ row # NoSpace
  BY DEF NoSpace
<1> HIDE DEF row
<1>4. SpacesStay
  BY <1>1, <1>2, <1>3 DEF SpacesStay
<1>5. OnePersonal'
  <2>1. \A s \in Spaces : kind = "personal" /\ space[s].kind = "personal" => space[s].owner # p
    BY DEF Personal
  <2> QED
    BY <1>1, <1>2, <1>3, <2>1 DEF OnePersonal, TablesOK
<1>6. OwnersStay'
  <2>1. \A q \in People : member[t][q] = NoMember
    BY <1>1 DEF TablesOK, OwnersStay
  <2>2. Owner # NoMember
    BY DEF Owner, NoMember
  <2>3. ASSUME NEW s \in Spaces, space'[s] # NoSpace
        PROVE  /\ identity'[space'[s].owner] = "active"
               /\ \A q \in People : member'[s][q] = Owner <=> q = space'[s].owner
               /\ [action |-> "created", actor |-> space'[s].owner, space |-> s, code |-> None] \in audit'
    <3>1. CASE s = t
      BY <3>1, <1>1, <1>2, <1>3, <2>1, <2>2 DEF Active
    <3>2. CASE s # t
      <4>1. space'[s] = space[s] /\ space[s] # NoSpace
        BY <3>2, <1>2, <2>3
      <4>2. space[s].owner \in People
        BY <4>1, SpaceTypes, RowTypes
      <4> QED
        BY <3>2, <4>1, <4>2, <1>2 DEF OwnersStay, TablesOK, StaysActive, Active
    <3> QED
      BY <3>1, <3>2
  <2>4. ASSUME NEW s \in Spaces, space'[s] = NoSpace
        PROVE  \A q \in People : member'[s][q] = NoMember
    BY <2>4, <1>1, <1>2, <1>3 DEF OwnersStay, TablesOK
  <2> QED
    BY <2>3, <2>4 DEF OwnersStay, Active
<1>7. SlugsAreUnique'
  <2>1. \A s \in Spaces : slug # None /\ Opened(s) => space[s].slug # slug
    BY DEF SlugIsFree
  <2>2. \A s, u \in Spaces : s # u /\ space[s].status = "active" /\ space[u].status = "active" /\ space[s].slug # None
          => space[s].slug # space[u].slug
    BY DEF SlugsAreUnique, Opened, TablesOK
  <2> QED
    BY <1>1, <1>2, <1>3, <2>1, <2>2 DEF SlugsAreUnique, Opened
<1>8. \A k : Joins(k)' = Joins(k)
  BY <1>2 DEF Joins
<1>9. MembersWereLetIn'
  BY <1>1, <1>2, <1>8 DEF MembersWereLetIn, TablesOK
<1>10. WithinLimit'
  <2>1. \A s \in Spaces \ {t} : ActiveMembers(s)' = ActiveMembers(s)
    BY <1>2 DEF ActiveMembers
  <2>2. \A q \in People : member[t][q] = NoMember
    BY <1>1 DEF TablesOK, OwnersStay
  <2>3. ActiveMembers(t)' = {p}
    BY <1>1, <1>2, <2>2 DEF ActiveMembers, Owner, NoMember
  <2>4. Cardinality({p}) = 1
    BY FS_Singleton
  <2> QED
    BY <2>1, <2>3, <2>4, LimitAssumption DEF WithinLimit, TablesOK
<1> QED
  BY <1>2, <1>4, <1>5, <1>6, <1>7, <1>9, <1>10 DEF OneLiveCode, IsLive, TablesOK, row

-----------------------------------------------------------------------------
(* Calls and steps that change no table.                                   *)

LEMMA CallTypes ==
  ASSUME TypeOK, NEW c \in Calls
  PROVE  /\ call[c].task = "bootstrap" =>
              /\ call[c].by \in People /\ call[c].operation \in Operations /\ call[c].operation # None
              /\ \A pc \in {"check", "batch", "saved", "recheck"} : [call[c] EXCEPT !.pc = pc] \in Working
         /\ call[c].task = "personal" =>
              /\ call[c].by \in People /\ call[c].operation = None
              /\ \A pc \in {"find", "batch", "refind"} : [call[c] EXCEPT !.pc = pc] \in Working
         /\ call[c] # Idle => call[c].task \in {"bootstrap", "personal"}
<1>1. call[c] \in Working \cup {Idle}
  BY DEF TypeOK
<1>2. CASE call[c] = Idle
  BY <1>2 DEF Idle
<1>3. CASE call[c] \in Working
  BY <1>3, NoneAssumption DEF Working
<1> QED
  BY <1>1, <1>2, <1>3

LEMMA CallsTyped ==
  ASSUME TypeOK, NEW c \in Calls, NEW new \in Working \cup {Idle}, call' = [call EXCEPT ![c] = new]
  PROVE  call' \in [Calls -> Working \cup {Idle}]
BY DEF TypeOK

LEMMA GoesTyped ==
  ASSUME TypeOK, NEW c \in Calls, NEW pc, [call[c] EXCEPT !.pc = pc] \in Working, call' = [call EXCEPT ![c].pc = pc]
  PROVE  call' \in [Calls -> Working \cup {Idle}]
BY DEF TypeOK

LEMMA ReadSilent ==
  ASSUME Inv, UNCHANGED tables, Silent,
         call' \in [Calls -> Working \cup {Idle}], faults' \in 0..MaxFaults
  PROVE  Inv'
<1>1. TypeOK'
  BY DEF TypeOK, tables, onboarding, Silent, Inv
<1>2. TablesOK' /\ SpacesStay
  BY TablesUntouched DEF Inv
<1>3. AnswersConverge'
  BY <1>1, <1>2, SilentKeeps DEF TablesOK, Inv
<1> QED
  BY <1>1, <1>2, <1>3 DEF Inv

LEMMA ReadSays ==
  ASSUME Inv, UNCHANGED tables, NEW p \in People, NEW s \in Personal(p), NEW o \in Operations \cup {None},
         NEW created \in BOOLEAN, Says(p, o, s, created),
         o # None => operation[p][o] = [space |-> s, created |-> created],
         call' \in [Calls -> Working \cup {Idle}], faults' \in 0..MaxFaults
  PROVE  Inv'
<1>1. s \in Spaces /\ space[s].kind = "personal" /\ space[s].owner = p
  BY DEF Personal
<1>2. answer' \in Answers /\ told' \in [People -> Spaces \cup {None}]
  BY <1>1 DEF Says, Answers, TypeOK, Inv
<1>3. TypeOK'
  BY <1>2 DEF TypeOK, tables, onboarding, Inv
<1>4. TablesOK' /\ SpacesStay
  BY TablesUntouched DEF Inv
<1>5. OnePersonal' /\ OwnersStay' /\ space' = space /\ operation' = operation
  BY <1>4 DEF TablesOK, tables, onboarding
<1>6. AnswersConverge'
  BY <1>1, <1>3, <1>4, <1>5, SaysKeeps DEF Inv
<1> QED
  BY <1>3, <1>4, <1>6 DEF Inv

\* The end of a call with or without an answer.
LEMMA EndsIs ==
  ASSUME Inv, NEW c \in Calls, Ends(c)
  PROVE  Silent /\ call' \in [Calls -> Working \cup {Idle}] /\ faults' \in 0..MaxFaults
BY CallsTyped DEF Ends, TypeOK, Inv

LEMMA TellsIs ==
  ASSUME Inv, NEW c \in Calls, NEW s, NEW created, Tells(c, s, created)
  PROVE  /\ Says(call[c].by, call[c].operation, s, created)
         /\ call' \in [Calls -> Working \cup {Idle}] /\ faults' \in 0..MaxFaults
BY CallsTyped DEF Tells, TypeOK, Inv

LEMMA GoesIs ==
  ASSUME Inv, NEW c \in Calls, NEW pc, Goes(c, pc) \/ Lost(c, pc),
         \/ call[c].task = "bootstrap" /\ pc \in {"check", "batch", "saved", "recheck"}
         \/ call[c].task = "personal" /\ pc \in {"find", "batch", "refind"}
  PROVE  Silent /\ call' \in [Calls -> Working \cup {Idle}] /\ faults' \in 0..MaxFaults
<1>1. call' = [call EXCEPT ![c].pc = pc] /\ Silent
  BY DEF Goes, Lost
<1>2. [call[c] EXCEPT !.pc = pc] \in Working
  BY CallTypes DEF Inv
<1>3. faults' \in 0..MaxFaults
  BY BoundAssumption DEF Goes, Lost, TypeOK, Inv
<1> QED
  BY <1>1, <1>2, <1>3, GoesTyped DEF Inv

LEMMA FaultKeeps == ASSUME Inv, NEW c \in Calls, Fault(c) PROVE Inv'
<1>1. Catch(c) \in Working \cup {Idle}
  <2>1. CASE call[c].task = "bootstrap" /\ call[c].pc \in {"batch", "saved"}
    BY <2>1, CallTypes DEF Catch, Inv
  <2>2. CASE call[c].task = "personal" /\ call[c].pc = "batch"
    BY <2>2, CallTypes DEF Catch, Inv
  <2>3. CASE /\ ~(call[c].task = "bootstrap" /\ call[c].pc \in {"batch", "saved"})
             /\ ~(call[c].task = "personal" /\ call[c].pc = "batch")
    BY <2>3 DEF Catch
  <2> QED
    BY <2>1, <2>2, <2>3
<1>2. call' \in [Calls -> Working \cup {Idle}]
  BY <1>1, CallsTyped DEF Fault, Inv
<1>3. faults' \in 0..MaxFaults
  BY BoundAssumption DEF Fault, TypeOK, Inv
<1> QED
  BY <1>2, <1>3, ReadSilent DEF Fault

LEMMA StartsKeep ==
  ASSUME Inv, NEW c \in Calls, NEW p \in People,
         StartPersonal(c, p) \/ \E o \in Operations : StartBootstrap(c, p, o)
  PROVE  Inv'
<1>1. CASE StartPersonal(c, p)
  <2>1. [task |-> "personal", by |-> p, operation |-> None, pc |-> "find"] \in Working
    BY DEF Working
  <2>2. call' \in [Calls -> Working \cup {Idle}]
    BY <1>1, <2>1, CallsTyped DEF StartPersonal, Inv
  <2> QED
    BY <1>1, <2>2, ReadSilent DEF StartPersonal, TypeOK, Inv
<1>2. ASSUME NEW o \in Operations, StartBootstrap(c, p, o) PROVE Inv'
  <2>1. [task |-> "bootstrap", by |-> p, operation |-> o, pc |-> "check"] \in Working
    BY DEF Working
  <2>2. call' \in [Calls -> Working \cup {Idle}]
    BY <1>2, <2>1, CallsTyped DEF StartBootstrap, Inv
  <2> QED
    BY <1>2, <2>2, ReadSilent DEF StartBootstrap, TypeOK, Inv
<1> QED
  BY <1>1, <1>2

LEMMA ChecksKeep == ASSUME Inv, NEW c \in Calls, Check(c) \/ Recheck(c) PROVE Inv'
<1>1. UNCHANGED tables /\ call[c].task = "bootstrap" /\ (Goes(c, "batch") \/ Ends(c))
  BY DEF Check, Recheck, At
<1> QED
  BY <1>1, GoesIs, EndsIs, ReadSilent

LEMMA ReadSavedKeeps == ASSUME Inv, NEW c \in Calls, ReadSaved(c) PROVE Inv'
<1> DEFINE p == call[c].by
           o == call[c].operation
           row == operation[p][o]
<1>1. UNCHANGED tables /\ call[c].task = "bootstrap" /\ p \in People /\ o \in Operations
  BY CallTypes DEF ReadSaved, At, Inv
<1>2. CASE Goes(c, "recheck")
  BY <1>1, <1>2, GoesIs, ReadSilent
<1>3. CASE row # NoOperation /\ row.space \in Personal(p) /\ Tells(c, row.space, row.created)
  <2>1. row \in Done
    BY <1>1, <1>3 DEF TypeOK, Inv
  <2>2. row = [space |-> row.space, created |-> row.created] /\ row.created \in BOOLEAN
    BY <2>1 DEF Done
  <2>3. /\ Says(p, o, row.space, row.created)
        /\ call' \in [Calls -> Working \cup {Idle}] /\ faults' \in 0..MaxFaults
    BY <1>3, TellsIs
  <2> QED
    BY <1>1, <1>3, <2>2, <2>3, ReadSays
<1> QED
  BY <1>2, <1>3 DEF ReadSaved

LEMMA FindsKeep == ASSUME Inv, NEW c \in Calls, FindPersonal(c) \/ RefindPersonal(c) PROVE Inv'
<1>1. UNCHANGED tables /\ call[c].task = "personal" /\ call[c].by \in People /\ call[c].operation = None
  BY CallTypes DEF FindPersonal, RefindPersonal, At, Inv
<1>2. CASE Goes(c, "batch")
  BY <1>1, <1>2, GoesIs, ReadSilent
<1>3. CASE Ends(c)
  BY <1>1, <1>3, EndsIs, ReadSilent
<1>4. ASSUME NEW s \in Personal(call[c].by), Tells(c, s, FALSE) PROVE Inv'
  <2>1. Says(call[c].by, None, s, FALSE) /\ call' \in [Calls -> Working \cup {Idle}] /\ faults' \in 0..MaxFaults
    BY <1>1, <1>4, TellsIs
  <2> QED
    BY <1>1, <2>1, ReadSays
<1> QED
  BY <1>2, <1>3, <1>4 DEF FindPersonal, RefindPersonal, Converges

LEMMA GetPersonalWorkspaceKeeps == ASSUME Inv, NEW p \in People, GetPersonalWorkspace(p) PROVE Inv'
<1>1. PICK s \in Personal(p) : Says(p, None, s, FALSE)
  BY DEF GetPersonalWorkspace
<1>2. UNCHANGED tables /\ call' \in [Calls -> Working \cup {Idle}] /\ faults' \in 0..MaxFaults
  BY DEF GetPersonalWorkspace, TypeOK, Inv
<1> QED
  BY <1>1, <1>2, ReadSays

-----------------------------------------------------------------------------
(* Insertions.                                                             *)

LEMMA InsertTyped ==
  ASSUME TypeOK, NEW t \in Unused, NEW kind, NEW slug, NEW p \in People, Insert(t, kind, slug, p),
         [kind |-> kind, status |-> "active", owner |-> p, slug |-> slug] \in Spaced
  PROVE  /\ space' \in [Spaces -> Spaced \cup {NoSpace}]
         /\ member' \in [Spaces -> [People -> Membered \cup {NoMember}]]
         /\ audit' \subseteq Entries
<1>2. [action |-> "created", actor |-> p, space |-> t, code |-> None] \in Entries
  BY DEF Entries, Unused
<1>3. Owner \in Membered
  BY DEF Membered
<1> QED
  BY <1>2, <1>3 DEF Insert, TypeOK, Unused

\* Rows of operations and signups, where a batch does not write them.
LEMMA OnboardingStays ==
  ASSUME TypeOK, TablesOK, SpacesStay, UNCHANGED <<operation, events, madeBy>>,
         \A p \in People : identity'[p] = "none" <=> identity[p] = "none"
  PROVE  OperationsKnown' /\ MadeKnown' /\ SignupOnce'
<1>1. OperationsKnown'
  <2> SUFFICES ASSUME NEW p \in People, NEW o \in Operations, operation[p][o] # NoOperation
               PROVE  operation[p][o].space \in Personal(p)' /\ identity'[p] # "none"
    BY DEF OperationsKnown
  <2>1. operation[p][o].space \in Personal(p) /\ identity[p] # "none"
    BY DEF TablesOK, OperationsKnown
  <2> QED
    BY <2>1, SpaceTypes DEF Personal, SpacesStay
<1> QED
  BY <1>1 DEF TablesOK, MadeKnown, SignupOnce, Firsts

LEMMA CreateWorkspaceKeeps ==
  ASSUME Inv, NEW p \in People, NEW slug \in Slugs, CreateWorkspace(p, slug)
  PROVE  Inv'
<1>1. PICK t \in Unused : Insert(t, "standard", slug, p)
  BY DEF CreateWorkspace
<1>2. Silent /\ SlugIsFree(slug) /\ Active(p)' /\ StaysActive /\ UNCHANGED <<onboarding, code, acts, call, faults>>
  BY DEF CreateWorkspace, StaysActive, Active, onboarding
<1>3. /\ OnePersonal' /\ OwnersStay' /\ SlugsAreUnique' /\ OneLiveCode' /\ MembersWereLetIn' /\ WithinLimit'
      /\ SpacesStay
  BY <1>1, <1>2, InsertKeeps DEF Inv
<1>4. TypeOK'
  <2>0. TypeOK /\ [kind |-> "standard", status |-> "active", owner |-> p, slug |-> slug] \in Spaced
    BY DEF Inv, Spaced, Statuses
  <2>1. /\ space' \in [Spaces -> Spaced \cup {NoSpace}]
        /\ member' \in [Spaces -> [People -> Membered \cup {NoMember}]]
        /\ audit' \subseteq Entries
    BY <1>1, <2>0, InsertTyped
  <2> QED
    BY <1>2, <2>1 DEF Inv, TypeOK, onboarding, Silent
<1>5. OperationsKnown' /\ MadeKnown' /\ SignupOnce'
  BY <1>2, <1>3, OnboardingStays DEF Inv, onboarding
<1>6. AnswersConverge'
  BY <1>2, <1>3, <1>4, SilentKeeps DEF Inv
<1> QED
  BY <1>3, <1>4, <1>5, <1>6 DEF Inv, TablesOK

LEMMA GetOrCreateKeeps ==
  ASSUME Inv, NEW c \in Calls, GetOrCreatePersonalWorkspace(c)
  PROVE  Inv'
<1> DEFINE p == call[c].by
<1>1. call[c].task = "personal" /\ p \in People /\ call[c].operation = None
  BY CallTypes DEF GetOrCreatePersonalWorkspace, At, Inv
<1>2. CASE Goes(c, "refind") /\ UNCHANGED tables
  BY <1>1, <1>2, GoesIs, ReadSilent
<1>3. ASSUME Active(p), Personal(p) = {}, NEW t \in Unused, Insert(t, "personal", None, p),
             Tells(c, t, FALSE) \/ Lost(c, "refind"), UNCHANGED <<onboarding, code, acts>>
      PROVE  Inv'
  <2>1. PICK q \in People : q = p
    BY <1>1
  <2>2. StaysActive /\ Active(q)' /\ Insert(t, "personal", None, q) /\ Personal(q) = {}
    BY <1>3, <2>1 DEF StaysActive, Active, onboarding
  <2>3. /\ OnePersonal' /\ OwnersStay' /\ SlugsAreUnique' /\ OneLiveCode' /\ MembersWereLetIn' /\ WithinLimit'
        /\ SpacesStay
        /\ \A s \in Spaces : space'[s] = IF s = t THEN [kind |-> "personal", status |-> "active", owner |-> q, slug |-> None]
                                                  ELSE space[s]
    BY <1>3, <2>2, InsertKeeps DEF Inv
  <2>4. t \in Spaces /\ space'[t].kind = "personal" /\ space'[t].owner = q
    BY <2>3 DEF Unused
  <2>5. /\ space' \in [Spaces -> Spaced \cup {NoSpace}]
        /\ member' \in [Spaces -> [People -> Membered \cup {NoMember}]]
        /\ audit' \subseteq Entries
    <3>1. TypeOK /\ [kind |-> "personal", status |-> "active", owner |-> q, slug |-> None] \in Spaced
      BY DEF Inv, Spaced, Statuses
    <3> QED
      BY <2>2, <3>1, InsertTyped
  <2>6. OperationsKnown' /\ MadeKnown' /\ SignupOnce'
    BY <1>3, <2>3, OnboardingStays DEF Inv, onboarding
  <2>7. CASE Tells(c, t, FALSE)
    <3>1. Says(q, None, t, FALSE) /\ call' \in [Calls -> Working \cup {Idle}] /\ faults' \in 0..MaxFaults
      BY <1>1, <2>1, <2>7, TellsIs
    <3>2. answer' \in Answers /\ told' \in [People -> Spaces \cup {None}]
      BY <2>4, <3>1 DEF Says, Answers, TypeOK, Inv
    <3>3. TypeOK'
      BY <1>3, <2>5, <3>1, <3>2 DEF Inv, TypeOK, onboarding
    <3>4. AnswersConverge'
      BY <2>3, <2>4, <3>1, <3>3, SaysKeeps DEF Inv
    <3> QED
      BY <2>3, <2>6, <3>3, <3>4 DEF Inv, TablesOK
  <2>8. CASE Lost(c, "refind")
    <3>1. Silent /\ call' \in [Calls -> Working \cup {Idle}] /\ faults' \in 0..MaxFaults
      BY <1>1, <2>8, GoesIs
    <3>2. TypeOK'
      BY <1>3, <2>5, <3>1 DEF Inv, TypeOK, onboarding, Silent
    <3>3. AnswersConverge'
      BY <2>3, <3>1, <3>2, SilentKeeps DEF Inv
    <3> QED
      BY <2>3, <2>6, <3>2, <3>3 DEF Inv, TablesOK
  <2> QED
    BY <1>3, <2>7, <2>8
<1> QED
  BY <1>2, <1>3 DEF GetOrCreatePersonalWorkspace

-----------------------------------------------------------------------------
(* The batch of the bootstrap.                                             *)

\* What it writes about the person: the identity, the operation and the signup.
Writes(p, o, s) ==
  /\ identity' = [identity EXCEPT ![p] = "active"]
  /\ madeBy' = IF identity[p] = "none" THEN [madeBy EXCEPT ![p] = "bootstrap"] ELSE madeBy
  /\ SavesOperation(p, o, s)
  /\ events' = IF Signs(p, o)
               THEN events \cup {[person |-> p, operation |-> o, space |-> operation'[p][o].space]}
               ELSE events

LEMMA WritesAre ==
  ASSUME TypeOK, NEW p \in People, NEW o \in Operations, NEW s \in Spaces, Writes(p, o, s)
  PROVE  /\ identity' \in [People -> {"none", "active", "disabled"}]
         /\ madeBy' \in [People -> {"none", "bootstrap", "operator"}]
         /\ operation' \in [People -> [Operations -> Done \cup {NoOperation}]]
         /\ events' \subseteq Events
         /\ \A q \in People, x \in Operations :
              operation'[q][x] = IF q = p /\ x = o /\ operation[p][o] = NoOperation
                                 THEN [space |-> s, created |-> identity[p] = "none"] ELSE operation[q][x]
         /\ \A q \in People : q # p => identity'[q] = identity[q] /\ madeBy'[q] = madeBy[q]
         /\ identity'[p] = "active"
<1>1. identity' = [identity EXCEPT ![p] = "active"] /\ SavesOperation(p, o, s)
  BY DEF Writes
<1>2. [space |-> s, created |-> identity[p] = "none"] \in Done
  BY DEF Done
<1>3. operation' = IF operation[p][o] # NoOperation THEN operation
                   ELSE [operation EXCEPT ![p][o] = [space |-> s, created |-> identity[p] = "none"]]
  BY <1>1 DEF SavesOperation, Creates
<1> DEFINE row == [space |-> s, created |-> identity[p] = "none"]
<1> HIDE DEF row
<1>4. /\ operation' \in [People -> [Operations -> Done \cup {NoOperation}]]
      /\ \A q \in People, x \in Operations :
           operation'[q][x] = IF q = p /\ x = o /\ operation[p][o] = NoOperation THEN row ELSE operation[q][x]
  <2>1. row \in Done
    BY <1>2 DEF row
  <2>2. operation' = IF operation[p][o] # NoOperation THEN operation ELSE [operation EXCEPT ![p][o] = row]
    BY <1>3 DEF row
  <2> QED
    BY <2>1, <2>2 DEF TypeOK
<1>5. madeBy' \in [People -> {"none", "bootstrap", "operator"}] /\ \A q \in People : q # p => madeBy'[q] = madeBy[q]
  BY DEF Writes, TypeOK
<1>6. events' \subseteq Events
  <2>1. CASE Signs(p, o)
    <3>1. operation'[p][o] \in Done \cup {NoOperation} /\ operation'[p][o].created
      BY <2>1, <1>4 DEF Signs
    <3>2. operation'[p][o].space \in Spaces
      BY <3>1, RowTypes DEF NoOperation
    <3>3. [person |-> p, operation |-> o, space |-> operation'[p][o].space] \in Events
      BY <3>2 DEF Events
    <3> QED
      BY <2>1, <3>3 DEF Writes, TypeOK
  <2>2. CASE ~Signs(p, o)
    BY <2>2 DEF Writes, TypeOK
  <2> QED
    BY <2>1, <2>2
<1> QED
  BY <1>1, <1>4, <1>5, <1>6 DEF TypeOK, row

LEMMA WritesKeep ==
  ASSUME TypeOK, TablesOK, SpacesStay, NEW p \in People, NEW o \in Operations, NEW s \in Spaces,
         space'[s].kind = "personal", space'[s].owner = p, identity[p] # "disabled", Writes(p, o, s)
  PROVE  OperationsKnown' /\ MadeKnown' /\ SignupOnce'
<1> DEFINE row == [space |-> s, created |-> identity[p] = "none"]
<1>0. row.space = s /\ row.created = (identity[p] = "none") /\ ~NoOperation.created
  BY DEF NoOperation
<1>1. /\ \A q \in People, x \in Operations :
           operation'[q][x] = IF q = p /\ x = o /\ operation[p][o] = NoOperation THEN row ELSE operation[q][x]
      /\ \A q \in People : q # p => identity'[q] = identity[q] /\ madeBy'[q] = madeBy[q]
      /\ identity'[p] = "active"
  BY WritesAre
<1>2. madeBy' = IF identity[p] = "none" THEN [madeBy EXCEPT ![p] = "bootstrap"] ELSE madeBy
  BY DEF Writes
<1> HIDE DEF row
<1>3. \A q \in People, x \in Operations : operation[q][x] # NoOperation =>
        operation[q][x].space \in Personal(q) /\ identity[q] # "none"
  BY DEF TablesOK, OperationsKnown
<1>4. MadeKnown'
  BY <1>1, <1>2 DEF TablesOK, MadeKnown, TypeOK
<1>5. OperationsKnown'
  <2> SUFFICES ASSUME NEW q \in People, NEW x \in Operations, operation'[q][x] # NoOperation
               PROVE  operation'[q][x].space \in Personal(q)' /\ identity'[q] # "none"
    BY DEF OperationsKnown
  <2>1. CASE q = p /\ x = o /\ operation[p][o] = NoOperation
    BY <1>0, <1>1, <2>1 DEF Personal
  <2>2. CASE ~(q = p /\ x = o /\ operation[p][o] = NoOperation)
    <3>1. operation'[q][x] = operation[q][x]
      BY <2>2, <1>1
    <3>2. operation[q][x].space \in Personal(q) /\ identity[q] # "none"
      BY <3>1, <1>3
    <3> QED
      BY <1>1, <3>1, <3>2, SpaceTypes DEF Personal, SpacesStay
  <2> QED
    BY <2>1, <2>2
<1>6. SignupOnce'
  <2> DEFINE Signups(q) == {e \in events : e.person = q}
             Is(q, x, space1) == [person |-> q, operation |-> x, space |-> space1]
  <2>1. \A q \in People :
          IF madeBy[q] = "bootstrap"
          THEN \E x \in Operations : Firsts(q) = {x} /\ Signups(q) = {Is(q, x, operation[q][x].space)}
          ELSE Firsts(q) = {} /\ Signups(q) = {}
    BY DEF TablesOK, SignupOnce
  <2>2. events' = IF Signs(p, o) THEN events \cup {Is(p, o, operation'[p][o].space)} ELSE events
    BY DEF Writes
  <2>3. \A q, x, y : Is(q, x, y).person = q
    OBVIOUS
  <2>4. Signs(p, o) <=> operation'[p][o].created /\ Signups(p) = {}
    BY DEF Signs
  <2> HIDE DEF Is
  <2>5. ASSUME NEW q \in People, q # p
        PROVE  Firsts(q)' = Firsts(q) /\ Signups(q)' = Signups(q) /\ madeBy'[q] = madeBy[q]
               /\ \A x \in Operations : operation'[q][x] = operation[q][x]
    BY <2>5, <1>1, <2>2, <2>3 DEF Firsts
  <2>6. ASSUME operation[p][o] # NoOperation
        PROVE  Firsts(p)' = Firsts(p) /\ Signups(p)' = Signups(p) /\ madeBy'[p] = madeBy[p]
               /\ \A x \in Operations : operation'[p][x] = operation[p][x]
    <3>1. identity[p] # "none" /\ \A x \in Operations : operation'[p][x] = operation[p][x]
      BY <2>6, <1>1, <1>3
    <3>2. operation[p][o].created => Signups(p) # {}
      BY <2>1 DEF Firsts
    <3>3. events' = events
      BY <2>2, <2>4, <3>1, <3>2
    <3> QED
      BY <3>1, <3>3, <1>2 DEF Firsts
  <2>7. ASSUME operation[p][o] = NoOperation, identity[p] # "none"
        PROVE  Firsts(p)' = Firsts(p) /\ Signups(p)' = Signups(p) /\ madeBy'[p] = madeBy[p]
               /\ \A x \in Firsts(p) : operation'[p][x] = operation[p][x]
    <3>1. ~operation'[p][o].created /\ \A x \in Operations \ {o} : operation'[p][x] = operation[p][x]
      BY <2>7, <1>0, <1>1
    <3>2. events' = events
      BY <2>2, <2>4, <3>1
    <3>3. o \notin Firsts(p)
      BY <2>7, <1>0 DEF Firsts
    <3> QED
      BY <2>7, <3>1, <3>2, <3>3, <1>2 DEF Firsts
  <2>8. ASSUME operation[p][o] = NoOperation, identity[p] = "none"
        PROVE  madeBy'[p] = "bootstrap" /\ Firsts(p)' = {o} /\ Signups(p)' = {Is(p, o, operation'[p][o].space)}
    <3>1. madeBy[p] # "bootstrap" /\ madeBy'[p] = "bootstrap"
      BY <2>8, <1>2 DEF TablesOK, MadeKnown, TypeOK
    <3>2. Firsts(p) = {} /\ Signups(p) = {}
      BY <2>1, <3>1
    <3>3. operation'[p][o].created /\ \A x \in Operations \ {o} : operation'[p][x] = operation[p][x]
      BY <2>8, <1>0, <1>1
    <3>4. events' = events \cup {Is(p, o, operation'[p][o].space)}
      BY <2>2, <2>4, <3>2, <3>3
    <3>5. Firsts(p)' = {o}
      BY <3>2, <3>3 DEF Firsts
    <3>6. Signups(p)' = {Is(p, o, operation'[p][o].space)}
      BY <3>2, <3>4, <2>3
    <3> QED
      BY <3>1, <3>5, <3>6
  <2> SUFFICES ASSUME NEW q \in People
               PROVE  IF madeBy'[q] = "bootstrap"
                      THEN \E x \in Operations : Firsts(q)' = {x} /\ Signups(q)' = {Is(q, x, operation'[q][x].space)}
                      ELSE Firsts(q)' = {} /\ Signups(q)' = {}
    BY DEF SignupOnce, Is
  <2> HIDE DEF Signups
  <2>9. CASE Firsts(q)' = Firsts(q) /\ Signups(q)' = Signups(q) /\ madeBy'[q] = madeBy[q]
             /\ \A x \in Firsts(q) : operation'[q][x] = operation[q][x]
    BY <2>1, <2>9
  <2>10. \A x \in Firsts(q) : x \in Operations
    BY DEF Firsts
  <2> QED
    BY <2>5, <2>6, <2>7, <2>8, <2>9, <2>10
<1> QED
  BY <1>4, <1>5, <1>6

LEMMA BootstrapKeeps == ASSUME Inv, NEW c \in Calls, Bootstrap(c) PROVE Inv'
<1> DEFINE p == call[c].by
           o == call[c].operation
<1>1. call[c].task = "bootstrap" /\ p \in People /\ o \in Operations
  BY CallTypes DEF Bootstrap, At, Inv
<1>2. CASE Goes(c, "recheck") /\ UNCHANGED tables
  BY <1>1, <1>2, GoesIs, ReadSilent
<1>3. ASSUME ~Aborts(p, o), NEW s \in Spaces, Writes(p, o, s), UNCHANGED <<code, acts>>,
             Goes(c, "saved") \/ Lost(c, "recheck"),
             \/ Personal(p) = {} /\ s \in Unused /\ Insert(s, "personal", None, p)
             \/ /\ s \in Personal(p) /\ UNCHANGED <<space, audit>>
                /\ member' = IF Opened(s) /\ member[s][p] = NoMember THEN [member EXCEPT ![s][p] = Owner] ELSE member
      PROVE  Inv'
  <2>1. Silent /\ call' \in [Calls -> Working \cup {Idle}] /\ faults' \in 0..MaxFaults
    BY <1>1, <1>3, GoesIs
  <2>2. PICK q \in People, x \in Operations : q = p /\ x = o
    BY <1>1
  <2>3. Writes(q, x, s) /\ identity[q] # "disabled"
    BY <1>3, <2>2 DEF Aborts
  <2>4. /\ identity' \in [People -> {"none", "active", "disabled"}]
        /\ madeBy' \in [People -> {"none", "bootstrap", "operator"}]
        /\ operation' \in [People -> [Operations -> Done \cup {NoOperation}]]
        /\ events' \subseteq Events
        /\ \A y \in People : y # q => identity'[y] = identity[y]
        /\ identity'[q] = "active"
    BY <2>3, WritesAre DEF Inv
  <2>5. StaysActive /\ Active(q)'
    BY <2>4 DEF StaysActive, Active
  <2>6. /\ OnePersonal' /\ OwnersStay' /\ SlugsAreUnique' /\ OneLiveCode' /\ MembersWereLetIn' /\ WithinLimit'
        /\ SpacesStay /\ space'[s].kind = "personal" /\ space'[s].owner = q
        /\ space' \in [Spaces -> Spaced \cup {NoSpace}]
        /\ member' \in [Spaces -> [People -> Membered \cup {NoMember}]]
        /\ audit' \subseteq Entries
    <3>1. CASE Personal(p) = {} /\ s \in Unused /\ Insert(s, "personal", None, p)
      <4>1. Personal(q) = {} /\ s \in Unused /\ Insert(s, "personal", None, q)
        BY <3>1, <2>2
      <4>2. TypeOK /\ [kind |-> "personal", status |-> "active", owner |-> q, slug |-> None] \in Spaced
        BY DEF Inv, Spaced, Statuses
      <4>3. /\ space' \in [Spaces -> Spaced \cup {NoSpace}]
            /\ member' \in [Spaces -> [People -> Membered \cup {NoMember}]]
            /\ audit' \subseteq Entries
        BY <4>1, <4>2, InsertTyped
      <4>4. /\ OnePersonal' /\ OwnersStay' /\ SlugsAreUnique' /\ OneLiveCode' /\ MembersWereLetIn' /\ WithinLimit'
            /\ SpacesStay
            /\ \A t \in Spaces : space'[t] = IF t = s
                 THEN [kind |-> "personal", status |-> "active", owner |-> q, slug |-> None] ELSE space[t]
        BY <1>3, <2>5, <4>1, InsertKeeps DEF Inv
      <4> QED
        BY <4>3, <4>4
    <3>2. CASE /\ s \in Personal(p) /\ UNCHANGED <<space, audit>>
               /\ member' = IF Opened(s) /\ member[s][p] = NoMember THEN [member EXCEPT ![s][p] = Owner] ELSE member
      <4>1. space[s].kind = "personal" /\ space[s].owner = q /\ space[s] # NoSpace
        BY <3>2, <2>2 DEF Personal, NoSpace
      <4>2. Active(q) /\ member[s][q] = Owner
        BY <4>1 DEF Inv, TablesOK, OwnersStay
      <4>3. UNCHANGED <<space, audit, member, code>>
        BY <1>3, <3>2, <4>2, <2>2 DEF Owner, NoMember
      <4>4. \A y \in People : identity'[y] = identity[y]
        BY <2>4, <4>2 DEF Active
      <4>5. \A t \in Spaces : space[t] # NoSpace => space[t].owner \in People
        BY SpaceTypes, RowTypes DEF Inv
      <4>6. OwnersStay'
        BY <4>3, <4>4, <4>5 DEF Inv, TablesOK, OwnersStay, Active
      <4>7. OnePersonal' /\ SlugsAreUnique' /\ OneLiveCode' /\ MembersWereLetIn' /\ WithinLimit' /\ SpacesStay
        BY <4>3 DEF Inv, TablesOK, OnePersonal, SlugsAreUnique, OneLiveCode, MembersWereLetIn, WithinLimit,
                    SpacesStay, Joins, Opened, IsLive, ActiveMembers
      <4> QED
        BY <4>1, <4>3, <4>6, <4>7 DEF Inv, TypeOK
    <3> QED
      BY <1>3, <3>1, <3>2
  <2>7. OperationsKnown' /\ MadeKnown' /\ SignupOnce'
    BY <2>3, <2>6, WritesKeep DEF Inv
  <2>8. TypeOK'
    BY <1>3, <2>1, <2>4, <2>6 DEF Inv, TypeOK, Silent
  <2>9. AnswersConverge'
    BY <2>1, <2>6, <2>8, SilentKeeps DEF Inv
  <2> QED
    BY <2>6, <2>7, <2>8, <2>9 DEF Inv, TablesOK
<1>4. CASE ~Aborts(p, o) /\ ~(Goes(c, "recheck") /\ UNCHANGED tables)
  <2>1. PICK s \in Spaces :
          /\ SavesOperation(p, o, s)
          /\ \/ Personal(p) = {} /\ s \in Unused /\ Insert(s, "personal", None, p)
             \/ /\ s \in Personal(p) /\ UNCHANGED <<space, audit>>
                /\ member' = IF Opened(s) /\ member[s][p] = NoMember THEN [member EXCEPT ![s][p] = Owner] ELSE member
    BY <1>4 DEF Bootstrap, Unused, Personal
  <2>2. Writes(p, o, s) /\ UNCHANGED <<code, acts>> /\ (Goes(c, "saved") \/ Lost(c, "recheck"))
    BY <1>4, <2>1 DEF Bootstrap, Writes
  <2> QED
    BY <1>3, <1>4, <2>1, <2>2
<1> QED
  BY <1>2, <1>4 DEF Bootstrap

-----------------------------------------------------------------------------
(* The other batches, operators and time: one table each.                  *)

\* The end of a silent step whose tables are as they should be.
LEMMA SilentEnd ==
  ASSUME Inv, TypeOK', TablesOK', SpacesStay, Silent
  PROVE  Inv'
BY SilentKeeps DEF Inv, TablesOK

LEMMA IssueJoinCodeKeeps == ASSUME Inv, NEW p \in People, IssueJoinCode(p) PROVE Inv'
<1>1. PICK k \in Codes :
        /\ code[k] = NoCode
        /\ code' = [x \in Codes |->
             IF x = k THEN [state |-> "live", issuer |-> p, expired |-> FALSE]
             ELSE IF IsLive(x) /\ code[x].issuer = p THEN [code[x] EXCEPT !.state = "revoked"]
             ELSE code[x]]
        /\ audit' = audit \cup {[action |-> "issued", actor |-> p, space |-> None, code |-> k]}
  BY DEF IssueJoinCode
<1>2. UNCHANGED <<onboarding, space, member, call, faults>> /\ Silent /\ acts' \in 0..MaxActs
  BY BoundAssumption DEF IssueJoinCode, Acts, Inv, TypeOK
<1>3. \A x \in Codes : code[x] \in Coded =>
        /\ [code[x] EXCEPT !.state = "revoked"] \in Coded
        /\ [code[x] EXCEPT !.state = "revoked"].state = "revoked"
        /\ [code[x] EXCEPT !.state = "revoked"].issuer = code[x].issuer
  BY DEF Coded
<1>4. \A x \in Codes : IsLive(x) => code[x] \in Coded
  BY DEF IsLive, Inv, TypeOK, NoCode
<1>5. [state |-> "live", issuer |-> p, expired |-> FALSE] \in Coded
  BY DEF Coded
<1>6. code' \in [Codes -> Coded \cup {NoCode}]
  <2>1. \A x \in Codes : code[x] \in Coded \cup {NoCode}
    BY DEF Inv, TypeOK
  <2> QED
    BY <1>1, <1>3, <1>4, <1>5, <2>1
<1>7. [action |-> "issued", actor |-> p, space |-> None, code |-> k] \in Entries
  BY DEF Entries
<1>8. TypeOK'
  BY <1>1, <1>2, <1>6, <1>7 DEF Inv, TypeOK, onboarding, Silent
<1>9. \A x \in Codes \ {k} : /\ code'[x].issuer = code[x].issuer
                             /\ (code'[x].state = "consumed" <=> code[x].state = "consumed")
                             /\ (code'[x].state = "live" => IsLive(x) /\ code[x].issuer # p)
  BY <1>1, <1>3, <1>4 DEF IsLive
<1>10. code'[k].state = "live" /\ code'[k].issuer = p
  BY <1>1
<1>11. OneLiveCode'
  BY <1>9, <1>10 DEF Inv, TablesOK, OneLiveCode, IsLive
<1>12. \A x : Joins(x)' = Joins(x)
  BY <1>1 DEF Joins
<1>13. MembersWereLetIn'
  <2>1. code[k].state = "none"
    BY <1>1 DEF NoCode
  <2>2. Joins(k) = {}
    BY <2>1 DEF Inv, TablesOK, MembersWereLetIn
  <2>3. \A x \in Codes : IF code'[x].state = "consumed" THEN \E e \in audit' : Joins(x) = {e} ELSE Joins(x) = {}
    BY <1>1, <1>9, <1>10, <2>2 DEF Inv, TablesOK, MembersWereLetIn
  <2>4. ASSUME NEW s \in Spaces, NEW q \in People, member[s][q] \notin {NoMember, Owner}
        PROVE  \E x \in Codes : code'[x].issuer = q /\ \E e \in Joins(x) : e.space = s
    <3>1. PICK x \in Codes : code[x].issuer = q /\ \E e \in Joins(x) : e.space = s
      BY <2>4 DEF Inv, TablesOK, MembersWereLetIn
    <3>2. x # k
      BY <3>1, <2>2
    <3> QED
      BY <3>1, <3>2, <1>9
  <2> QED
    BY <1>2, <1>12, <2>3, <2>4 DEF MembersWereLetIn
<1>14. SpacesStay
  BY <1>2 DEF SpacesStay
<1>15. OperationsKnown' /\ MadeKnown' /\ SignupOnce'
  BY <1>2, <1>14, OnboardingStays DEF Inv, onboarding
<1>16. OnePersonal' /\ OwnersStay' /\ SlugsAreUnique' /\ WithinLimit'
  BY <1>1, <1>2 DEF Inv, TablesOK, onboarding, OnePersonal, OwnersStay, SlugsAreUnique, WithinLimit, Active, Opened, ActiveMembers
<1> QED
  BY <1>2, <1>8, <1>11, <1>13, <1>14, <1>15, <1>16, SilentEnd DEF TablesOK

\* A member who is not an owner, before and after: owners stay as they are.
LEMMA OwnersUntouched ==
  ASSUME TypeOK, OwnersStay, NEW t \in Spaces, NEW q \in People, NEW new, new # Owner,
         space[t] # NoSpace, member[t][q] # Owner,
         member' = [member EXCEPT ![t][q] = new], UNCHANGED <<space, identity>>, audit \subseteq audit'
  PROVE  OwnersStay'
<1>1. \A s \in Spaces, y \in People : member'[s][y] = IF s = t /\ y = q THEN new ELSE member[s][y]
  BY DEF TypeOK
<1> QED
  BY <1>1 DEF OwnersStay, Active

LEMMA ConsumeJoinCodeKeeps ==
  ASSUME Inv, NEW p \in People, NEW t \in Spaces, NEW k \in Codes, NEW role \in Roles, ConsumeJoinCode(p, t, k, role)
  PROVE  Inv'
<1>1. PICK q : q = code[k].issuer
  OBVIOUS
<1>2. PICK new : new = [role |-> role, status |-> "active"]
  OBVIOUS
<1>3. PICK joined : joined = [action |-> "joined", actor |-> p, space |-> t, code |-> k]
  OBVIOUS
<1>4. code[k] \in Coded /\ code[k].state = "live" /\ q \in People
  BY <1>1, RowTypes DEF ConsumeJoinCode, Usable, IsLive, Inv, TypeOK, NoCode
<1>5. new # Owner /\ new # NoMember /\ new \in Membered /\ new.status = "active"
  BY <1>2, RoleTypes, RowTypes
<1>6. joined \in Entries /\ joined.action = "joined" /\ joined.code = k /\ joined.space = t
  BY <1>3 DEF Entries
<1>7. /\ code' = [code EXCEPT ![k].state = "consumed"]
      /\ member' = [member EXCEPT ![t][q] = new]
      /\ audit' = audit \cup {joined}
      /\ Silent /\ UNCHANGED <<onboarding, space, acts, call, faults>>
  BY <1>1, <1>2, <1>3 DEF ConsumeJoinCode
<1>8. member[t][q].status # "active" /\ HasRoom(t) /\ space[t] # NoSpace
  BY <1>1, SpaceTypes DEF ConsumeJoinCode, Manages, Inv
<1>9. /\ [code[k] EXCEPT !.state = "consumed"] \in Coded
      /\ [code[k] EXCEPT !.state = "consumed"].issuer = q
      /\ [code[k] EXCEPT !.state = "consumed"].state = "consumed"
  BY <1>1, <1>4 DEF Coded
<1>10. /\ code' \in [Codes -> Coded \cup {NoCode}]
       /\ code'[k].issuer = q /\ code'[k].state = "consumed"
       /\ \A x \in Codes \ {k} : code'[x] = code[x]
  <2> DEFINE row == [code[k] EXCEPT !.state = "consumed"]
  <2>1. code' = [code EXCEPT ![k] = row]
    BY <1>7
  <2>2. row \in Coded /\ row.issuer = q /\ row.state = "consumed"
    BY <1>9
  <2> HIDE DEF row
  <2> QED
    BY <2>1, <2>2 DEF Inv, TypeOK
<1>11. TypeOK'
  BY <1>4, <1>5, <1>6, <1>7, <1>10 DEF Inv, TypeOK, onboarding, Silent
<1>12. \A s \in Spaces, y \in People : member'[s][y] = IF s = t /\ y = q THEN new ELSE member[s][y]
  BY <1>4, <1>7 DEF Inv, TypeOK
<1>13. member[t][q] # Owner
  BY <1>8 DEF Owner
<1>14. OwnersStay'
  BY <1>4, <1>5, <1>7, <1>8, <1>13, OwnersUntouched DEF Inv, TablesOK, onboarding
<1>15. OneLiveCode'
  BY <1>10 DEF Inv, TablesOK, OneLiveCode, IsLive
<1>16. MembersWereLetIn'
  <2>1. Joins(k) = {} /\ Joins(k)' = {joined}
    <3>1. Joins(k) = {}
      BY <1>4 DEF Inv, TablesOK, MembersWereLetIn
    <3> QED
      BY <3>1, <1>6, <1>7 DEF Joins
  <2>2. \A x \in Codes \ {k} : Joins(x)' = Joins(x)
    BY <1>6, <1>7 DEF Joins
  <2>3. \A x \in Codes : IF code'[x].state = "consumed" THEN \E e \in audit' : Joins(x)' = {e} ELSE Joins(x)' = {}
    <3>1. CASE code'[k].state = "consumed" /\ Joins(k)' = {joined} /\ joined \in audit'
      <4>1. \A x \in Codes \ {k} :
              IF code[x].state = "consumed" THEN \E e \in audit : Joins(x) = {e} ELSE Joins(x) = {}
        BY DEF Inv, TablesOK, MembersWereLetIn
      <4> QED
        BY <3>1, <4>1, <1>7, <1>10, <2>2
    <3> QED
      BY <3>1, <2>1, <1>7, <1>10
  <2>4. ASSUME NEW s \in Spaces, NEW y \in People, member'[s][y] \notin {NoMember, Owner}
        PROVE  \E x \in Codes : code'[x].issuer = y /\ \E e \in Joins(x)' : e.space = s
    <3>1. CASE s = t /\ y = q
      BY <3>1, <2>1, <1>6, <1>10
    <3>2. CASE ~(s = t /\ y = q)
      <4>1. PICK x \in Codes : code[x].issuer = y /\ \E e \in Joins(x) : e.space = s
        BY <3>2, <2>4, <1>12 DEF Inv, TablesOK, MembersWereLetIn
      <4>2. x # k
        BY <4>1, <2>1
      <4> QED
        BY <4>1, <4>2, <2>2, <1>10
    <3> QED
      BY <3>1, <3>2
  <2> QED
    BY <2>3, <2>4 DEF MembersWereLetIn
<1>17. WithinLimit'
  <2>1. \A s \in Spaces \ {t} : ActiveMembers(s)' = ActiveMembers(s)
    BY <1>12 DEF ActiveMembers
  <2>2. ActiveMembers(t)' \subseteq ActiveMembers(t) \cup {q}
    BY <1>12 DEF ActiveMembers
  <2>3. Cardinality(ActiveMembers(t)') <= MemberLimit
    <3> DEFINE S == ActiveMembers(t)'
    <3>1. S \subseteq ActiveMembers(t) \cup {q}
      BY <2>2
    <3> HIDE DEF S
    <3>2. Cardinality(S) <= MemberLimit
      BY <3>1, <1>4, <1>8, LimitHolds DEF Inv, TablesOK
    <3> QED
      BY <3>2 DEF S
  <2> QED
    BY <2>1, <2>3 DEF WithinLimit, Inv, TablesOK
<1>18. SpacesStay
  BY <1>7 DEF SpacesStay
<1>19. OperationsKnown' /\ MadeKnown' /\ SignupOnce'
  BY <1>7, <1>18, OnboardingStays DEF Inv, onboarding
<1>20. OnePersonal' /\ SlugsAreUnique'
  BY <1>7 DEF Inv, TablesOK, OnePersonal, SlugsAreUnique, Opened
<1> QED
  BY <1>7, <1>11, <1>14, <1>15, <1>16, <1>17, <1>18, <1>19, <1>20, SilentEnd DEF TablesOK

LEMMA UpdateMemberKeeps ==
  ASSUME Inv, NEW p \in People, NEW t \in Spaces, NEW q \in People,
         NEW new \in [role : Roles, status : {"active", "removed"}], UpdateMember(p, t, q, new)
  PROVE  Inv'
<1>1. /\ member' = [member EXCEPT ![t][q] = new] /\ Silent
      /\ UNCHANGED <<onboarding, space, code, audit, call, faults>> /\ acts' \in 0..MaxActs
      /\ member[t][q] \notin {NoMember, Owner, new}
      /\ ~(member[t][q].status # "active" /\ new.status = "active")
  BY BoundAssumption DEF UpdateMember, Acts, Inv, TypeOK
<1>2. space[t] # NoSpace
  BY SpaceTypes DEF UpdateMember, Manages, Inv
<1>3. new # Owner /\ new \in Membered
  BY RolesAssumption DEF Owner, Membered
<1>4. TypeOK'
  BY <1>1, <1>3 DEF Inv, TypeOK, onboarding, Silent
<1>5. \A s \in Spaces, y \in People : member'[s][y] = IF s = t /\ y = q THEN new ELSE member[s][y]
  BY <1>1 DEF Inv, TypeOK
<1>6. OwnersStay'
  BY <1>1, <1>2, <1>3, OwnersUntouched DEF Inv, TablesOK, onboarding
<1>7. \A x : Joins(x)' = Joins(x)
  BY <1>1 DEF Joins
<1>8. MembersWereLetIn'
  BY <1>1, <1>5, <1>7 DEF Inv, TablesOK, MembersWereLetIn
<1>9. WithinLimit'
  <2>1. \A s \in Spaces : ActiveMembers(s)' \subseteq ActiveMembers(s)
    BY <1>1, <1>5 DEF ActiveMembers
  <2>2. ASSUME NEW s \in Spaces PROVE Cardinality(ActiveMembers(s)') <= MemberLimit
    <3> DEFINE S == ActiveMembers(s)'
    <3>1. S \subseteq ActiveMembers(s)
      BY <2>1
    <3> HIDE DEF S
    <3>2. Cardinality(S) <= MemberLimit
      BY <3>1, LimitHolds DEF Inv, TablesOK
    <3> QED
      BY <3>2 DEF S
  <2> QED
    BY <2>2 DEF WithinLimit
<1>10. SpacesStay
  BY <1>1 DEF SpacesStay
<1>11. OperationsKnown' /\ MadeKnown' /\ SignupOnce'
  BY <1>1, <1>10, OnboardingStays DEF Inv, onboarding
<1>12. OnePersonal' /\ SlugsAreUnique' /\ OneLiveCode'
  BY <1>1 DEF Inv, TablesOK, OnePersonal, SlugsAreUnique, OneLiveCode, Opened, IsLive
<1> QED
  BY <1>1, <1>4, <1>6, <1>8, <1>9, <1>10, <1>11, <1>12, SilentEnd DEF TablesOK

\* A change of one identity's status.
LEMMA StatusKeeps ==
  ASSUME Inv, NEW p \in People, NEW status \in {"active", "disabled"},
         identity' = [identity EXCEPT ![p] = status], madeBy' \in [People -> {"none", "bootstrap", "operator"}],
         \/ madeBy' = madeBy /\ identity[p] # "none"
         \/ madeBy' = [madeBy EXCEPT ![p] = "operator"] /\ identity[p] = "none",
         status = "disabled" => \A s \in Spaces : member[s][p] = Owner =>
           \E q \in People \ {p} : member[s][q] = Owner,
         UNCHANGED <<operation, events, space, member, code, audit, call, faults>>, acts' \in 0..MaxActs, Silent
  PROVE  Inv'
<1>1. identity' \in [People -> {"none", "active", "disabled"}]
  BY DEF Inv, TypeOK
<1>2. /\ \A q \in People : q # p => identity'[q] = identity[q] /\ madeBy'[q] = madeBy[q]
      /\ identity'[p] = status
  BY DEF Inv, TypeOK
<1>3. TypeOK'
  BY <1>1 DEF Inv, TypeOK, Silent
<1>4. SpacesStay
  BY DEF SpacesStay
<1>5. OwnersStay'
  <2>1. ASSUME NEW s \in Spaces, space[s] # NoSpace PROVE identity'[space[s].owner] = "active"
    <3>1. /\ space[s].owner \in People /\ identity[space[s].owner] = "active"
          /\ \A q \in People : member[s][q] = Owner <=> q = space[s].owner
      BY <2>1, SpaceTypes, RowTypes DEF Inv, TablesOK, OwnersStay, Active
    <3> QED
      BY <3>1, <1>2
  <2> QED
    BY <2>1 DEF Inv, TablesOK, OwnersStay, Active
<1>6. MadeKnown'
  BY <1>2 DEF Inv, TablesOK, MadeKnown, TypeOK
<1>7. OperationsKnown'
  <2> SUFFICES ASSUME NEW q \in People, NEW o \in Operations, operation[q][o] # NoOperation
               PROVE  operation[q][o].space \in Personal(q)' /\ identity'[q] # "none"
    BY DEF OperationsKnown
  <2>1. operation[q][o].space \in Personal(q) /\ identity[q] # "none"
    BY DEF Inv, TablesOK, OperationsKnown
  <2> QED
    BY <2>1, <1>2 DEF Personal
<1>8. SignupOnce'
  <2>1. \A q \in People : (madeBy'[q] = "bootstrap" <=> madeBy[q] = "bootstrap")
    <3>1. identity[p] = "none" => madeBy[p] # "bootstrap"
      BY DEF Inv, TablesOK, MadeKnown
    <3> QED
      BY <3>1, <1>2 DEF Inv, TypeOK
  <2> QED
    BY <2>1 DEF Inv, TablesOK, SignupOnce, Firsts
<1>9. OnePersonal' /\ SlugsAreUnique' /\ OneLiveCode' /\ MembersWereLetIn' /\ WithinLimit'
  BY DEF Inv, TablesOK, OnePersonal, SlugsAreUnique, OneLiveCode, MembersWereLetIn, WithinLimit, Joins, Opened, IsLive,
         ActiveMembers
<1> QED
  BY <1>3, <1>4, <1>5, <1>6, <1>7, <1>8, <1>9, SilentEnd DEF TablesOK

LEMMA OperatorsKeep == ASSUME Inv, NEW p \in People, Provision(p) \/ Disable(p) \/ Enable(p) PROVE Inv'
<1>1. CASE Provision(p)
  <2>1. /\ identity' = [identity EXCEPT ![p] = "active"] /\ identity[p] = "none"
        /\ madeBy' = [madeBy EXCEPT ![p] = "operator"] /\ madeBy' \in [People -> {"none", "bootstrap", "operator"}]
        /\ UNCHANGED <<operation, events, space, member, code, audit, call, faults>> /\ acts' \in 0..MaxActs /\ Silent
    BY <1>1, BoundAssumption DEF Provision, Acts, Inv, TypeOK
  <2> QED
    BY <2>1, StatusKeeps
<1>2. CASE Disable(p)
  <2>1. /\ identity' = [identity EXCEPT ![p] = "disabled"] /\ identity[p] # "none"
        /\ madeBy' = madeBy /\ madeBy' \in [People -> {"none", "bootstrap", "operator"}]
        /\ \A s \in Spaces : member[s][p] = Owner => \E q \in People \ {p} : member[s][q] = Owner
        /\ UNCHANGED <<operation, events, space, member, code, audit, call, faults>> /\ acts' \in 0..MaxActs /\ Silent
    BY <1>2, BoundAssumption DEF Disable, Acts, Active, Inv, TypeOK
  <2> QED
    BY <2>1, StatusKeeps
<1>3. CASE Enable(p)
  <2>1. /\ identity' = [identity EXCEPT ![p] = "active"] /\ identity[p] # "none"
        /\ madeBy' = madeBy /\ madeBy' \in [People -> {"none", "bootstrap", "operator"}]
        /\ UNCHANGED <<operation, events, space, member, code, audit, call, faults>> /\ acts' \in 0..MaxActs /\ Silent
    BY <1>3, BoundAssumption DEF Enable, Acts, Inv, TypeOK
  <2> QED
    BY <2>1, StatusKeeps
<1> QED
  BY <1>1, <1>2, <1>3

LEMMA SetStatusKeeps ==
  ASSUME Inv, NEW t \in Spaces, NEW status \in Statuses, SetStatus(t, status)
  PROVE  Inv'
<1>1. /\ space' = [space EXCEPT ![t].status = status] /\ space[t].status # "none"
      /\ status = "active" /\ space[t].slug # None => SlugIsFree(space[t].slug)
  BY DEF SetStatus
<1>2. UNCHANGED <<onboarding, member, code, audit, call, faults>> /\ Silent /\ acts' \in 0..MaxActs
  BY BoundAssumption DEF SetStatus, Acts, Inv, TypeOK
<1>3. PICK row : row = [space[t] EXCEPT !.status = status]
  OBVIOUS
<1>4. space[t] \in Spaced
  BY <1>1, SpaceTypes DEF Inv
<1>5. /\ row \in Spaced /\ row # NoSpace /\ row.status = status
      /\ row.kind = space[t].kind /\ row.owner = space[t].owner /\ row.slug = space[t].slug
  BY <1>3, <1>4 DEF Spaced, Statuses, NoSpace
<1>6. space' = [space EXCEPT ![t] = row]
  BY <1>1, <1>3
<1>7. space' \in [Spaces -> Spaced \cup {NoSpace}] /\ \A s \in Spaces : space'[s] = IF s = t THEN row ELSE space[s]
  BY <1>5, <1>6 DEF Inv, TypeOK
<1>8. TypeOK'
  BY <1>2, <1>7 DEF Inv, TypeOK, onboarding, Silent
<1>9. space[t] # NoSpace
  BY <1>4, RowTypes
<1>10. SpacesStay /\ OnePersonal'
  BY <1>5, <1>7 DEF SpacesStay, OnePersonal, Inv, TablesOK
<1>11. OwnersStay'
  BY <1>2, <1>5, <1>7, <1>9 DEF OwnersStay, Active, onboarding, Inv, TablesOK
<1>12. SlugsAreUnique'
  <2>1. status = "active" /\ row.slug # None => \A s \in Spaces : ~(Opened(s) /\ space[s].slug = row.slug)
    BY <1>1, <1>5 DEF SlugIsFree
  <2> QED
    BY <2>1, <1>5, <1>7 DEF SlugsAreUnique, Opened, Inv, TablesOK
<1>13. OperationsKnown' /\ MadeKnown' /\ SignupOnce'
  BY <1>2, <1>10, OnboardingStays DEF Inv, onboarding
<1>14. OneLiveCode' /\ MembersWereLetIn' /\ WithinLimit'
  BY <1>2 DEF Inv, TablesOK, OneLiveCode, MembersWereLetIn, WithinLimit, Joins, IsLive, ActiveMembers
<1> QED
  BY <1>2, <1>8, <1>10, <1>11, <1>12, <1>13, <1>14, SilentEnd DEF TablesOK

LEMMA ExpireKeeps == ASSUME Inv, NEW k \in Codes, Expire(k) PROVE Inv'
<1>1. code' = [code EXCEPT ![k].expired = TRUE] /\ code[k].state = "live"
  BY DEF Expire, IsLive
<1>2. UNCHANGED <<onboarding, space, member, audit, call, faults>> /\ Silent /\ acts' \in 0..MaxActs
  BY BoundAssumption DEF Expire, Acts, Inv, TypeOK
<1>3. PICK row : row = [code[k] EXCEPT !.expired = TRUE]
  OBVIOUS
<1>4. row \in Coded /\ row.state = code[k].state /\ row.issuer = code[k].issuer
  <2>1. code[k] \in Coded
    BY <1>1 DEF Inv, TypeOK, NoCode
  <2> QED
    BY <1>3, <2>1 DEF Coded
<1>5. code' = [code EXCEPT ![k] = row]
  BY <1>1, <1>3
<1>6. /\ code' \in [Codes -> Coded \cup {NoCode}]
      /\ \A x \in Codes : code'[x].state = code[x].state /\ code'[x].issuer = code[x].issuer
  BY <1>4, <1>5 DEF Inv, TypeOK
<1>7. TypeOK'
  BY <1>2, <1>6 DEF Inv, TypeOK, onboarding, Silent
<1>8. SpacesStay
  BY <1>2 DEF SpacesStay
<1>9. OneLiveCode' /\ MembersWereLetIn'
  BY <1>2, <1>6 DEF Inv, TablesOK, OneLiveCode, MembersWereLetIn, Joins, IsLive
<1>10. OperationsKnown' /\ MadeKnown' /\ SignupOnce'
  BY <1>2, <1>8, OnboardingStays DEF Inv, onboarding
<1>11. OnePersonal' /\ OwnersStay' /\ SlugsAreUnique' /\ WithinLimit'
  BY <1>2 DEF Inv, TablesOK, onboarding, OnePersonal, OwnersStay, SlugsAreUnique, WithinLimit, Active, Opened, ActiveMembers
<1> QED
  BY <1>2, <1>7, <1>8, <1>9, <1>10, <1>11, SilentEnd DEF TablesOK

-----------------------------------------------------------------------------
(* The theorems.                                                           *)

LEMMA InitOK == Init => Inv
<1> SUFFICES ASSUME Init PROVE Inv
  OBVIOUS
<1>1. TypeOK
  BY BoundAssumption DEF Init, TypeOK
<1>2. OnePersonal /\ OwnersStay /\ SlugsAreUnique /\ OneLiveCode
  BY DEF Init, OnePersonal, OwnersStay, SlugsAreUnique, OneLiveCode, NoSpace, NoCode, Opened, IsLive
<1>3. MembersWereLetIn
  BY DEF Init, MembersWereLetIn, Joins, NoCode
<1>4. WithinLimit
  <2>1. \A s \in Spaces : ActiveMembers(s) = {}
    BY DEF Init, ActiveMembers, NoMember
  <2> QED
    BY <2>1, FS_EmptySet, LimitAssumption DEF WithinLimit
<1>5. OperationsKnown /\ MadeKnown /\ SignupOnce
  BY DEF Init, OperationsKnown, MadeKnown, SignupOnce, Firsts, NoOperation
<1>6. AnswersConverge
  BY DEF Init, AnswersConverge
<1> QED
  BY <1>1, <1>2, <1>3, <1>4, <1>5, <1>6 DEF Inv, TablesOK

LEMMA StepKeeps == ASSUME Inv, [Next]_vars PROVE Inv'
<1>1. CASE UNCHANGED vars
  <2>1. TypeOK' /\ UNCHANGED tables /\ SpacesStay
    BY <1>1 DEF vars, tables, onboarding, Inv, TypeOK, SpacesStay
  <2>2. TablesOK'
    BY <2>1, TablesUntouched DEF Inv
  <2>3. AnswersConverge'
    BY <1>1 DEF vars, tables, onboarding, Inv, AnswersConverge, Opened, Listed, Active
  <2> QED
    BY <2>1, <2>2, <2>3 DEF Inv
<1>2. ASSUME NEW c \in Calls, Step(c) PROVE Inv'
  BY <1>2, StartsKeep, ChecksKeep, BootstrapKeeps, ReadSavedKeeps, FindsKeep, GetOrCreateKeeps, FaultKeeps DEF Step
<1>3. CASE Manage
  BY <1>3, GetPersonalWorkspaceKeeps, IssueJoinCodeKeeps, CreateWorkspaceKeeps, ConsumeJoinCodeKeeps, UpdateMemberKeeps
     DEF Manage
<1>4. CASE Environment
  BY <1>4, OperatorsKeep, SetStatusKeeps, ExpireKeeps DEF Environment
<1> QED
  BY <1>1, <1>2, <1>3, <1>4 DEF Next

THEOREM InvAlways == Spec => []Inv
BY InitOK, StepKeeps, PTL DEF Spec

(* Rows agree for any number of people, workspaces, codes and calls: one   *)
(* owner who stays active, unique active slugs, one personal workspace and *)
(* one live code per person, and no member who was not let in with a code  *)
(* that served once.                                                       *)
THEOREM ConsistentAlways == Spec => []Consistent
<1>1. Inv => Consistent
  BY DEF Inv, TablesOK, Consistent
<1> QED
  BY <1>1, InvAlways, PTL

(* A person whom a bootstrap signed up was signed up once, by the          *)
(* operation that inserted the identity.                                   *)
THEOREM SignupOnceAlways == Spec => []SignupOnce
<1>1. Inv => SignupOnce
  BY DEF Inv, TablesOK
<1> QED
  BY <1>1, InvAlways, PTL

(* Every answer names the personal workspace the person was first told.    *)
THEOREM AnswersConvergeAlways == Spec => []AnswersConverge
<1>1. Inv => AnswersConverge
  BY DEF Inv
<1> QED
  BY <1>1, InvAlways, PTL
=============================================================================
