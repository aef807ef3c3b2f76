---------------------------- MODULE MembersProofs ----------------------------
(***************************************************************************)
(* Proofs about Members, for any users, workspaces, calls, offers and      *)
(* bounds.  The inductive invariant is TableIsSound: Server is its part    *)
(* about the database, Client its part about the tab.                      *)
(***************************************************************************)
EXTENDS Members, FiniteSetTheorems, TLAPS

AllOps == Changes \cup {Issue} \cup {List(w) : w \in Workspaces}
Entries == [user : Users, old : Rows, new : Rows]

Tables ==
  /\ member \in [Workspaces -> [Users -> Rows]] /\ code \in [Users -> Codes]
  /\ audit \in [Workspaces -> Seq(Entries)] /\ issued \in Nat /\ clock \in Nat
  /\ AuditTellsMembers /\ MembersWithinLimit /\ OwnersStay /\ CodesAreOnce
Server == Tables /\ tx \in [Calls -> Records] /\ cookie \in Persons /\ LocksHold
Client ==
  /\ tx \in [Calls -> Records] /\ tab \in Tabs /\ steps \in Nat
  /\ CallsKnow(tx, tab, audit, steps) /\ TabKnows(tab, audit, steps) /\ Listed(tab) /\ ForAsker(tab)
Counters == losses \in Nat /\ logins \in Nat /\ told \in BOOLEAN

LEMMA Parts == TableIsSound <=> Server /\ Client /\ Counters
BY DEF TableIsSound, TypeOK, Server, Tables, Client, Counters, Entries

LEMMA OpKinds ==
  ASSUME NEW o \in AllOps
  PROVE  /\ o.kind \in {"update", "redeem", "issue", "list"} /\ o.code \in Nat
         /\ o.kind \in {"update", "redeem"} => o.w \in Workspaces /\ o.role \in Roles /\ o.status \in {"active", "removed"}
         /\ o.kind = "redeem" => o.status = "active"
         /\ o.kind = "update" => o.user \in Users
         /\ o.kind = "list" => o.w \in Workspaces
BY DEF AllOps, Changes, Issue, List

LEMMA CallTypes ==
  ASSUME NEW q \in Records
  PROVE  /\ q.op \in AllOps /\ q.by \in Persons /\ q.began \in Nat /\ q.mine \in BOOLEAN /\ q.payload \in Views
         /\ q.tab.id \in Nat /\ q.tab.live \in BOOLEAN /\ q.tab.prev \in Views /\ q.tab.heals \in Nat
         /\ q.payload.rev \in Nat /\ q.tab.prev.rev \in Nat
BY DEF Records, AllOps, Views

LEMMA ViewOfNothing == NoPrev \in Views /\ \A n \in Nat : [NoPrev EXCEPT !.rev = n] \in Views /\ [NoPrev EXCEPT !.rev = n].rev = n
BY DEF NoPrev, NoList, Views, Standings

LEMMA FreeIsFree == FreeCall \in Records /\ FreeCall.at = "free" /\ ~FreeCall.mine
BY ViewOfNothing DEF FreeCall, Records, Issue, NoTab, Persons

(* The end of a call, for the locks and for the tab.                       *)
LEMMA AnsweredIs ==
  ASSUME tx \in [Calls -> Records], NEW c \in Calls, NEW answer \in {"none", "ok", "refused", "conflict", "unknown", "ended"},
         NEW payload \in Views, Answered(c, answer, payload)
  PROVE  /\ tx' \in [Calls -> Records]
         /\ \A d \in Calls : d # c => tx'[d] = tx[d]
         /\ tx'[c].at \in {"free", "answered"} /\ (tx'[c].at = "answered" => tx'[c].mine)
         /\ Own(tx'[c]) => /\ tx[c].mine /\ tx'[c].op = tx[c].op /\ tx'[c].tab = tx[c].tab
                           /\ tx'[c].answer = answer /\ tx'[c].payload = payload
<1>1. CASE tx[c].mine
  <2> DEFINE q == [tx[c] EXCEPT !.at = "answered", !.answer = answer, !.payload = payload]
  <2>1. tx' = [tx EXCEPT ![c] = q]
    BY <1>1 DEF Answered
  <2>2. tx[c] \in Records
    OBVIOUS
  <2>3. q \in Records /\ q.at = "answered" /\ q.mine /\ q.op = tx[c].op /\ q.tab = tx[c].tab /\ q.answer = answer /\ q.payload = payload
    BY <1>1, <2>2 DEF Records
  <2> HIDE DEF q
  <2>4. QED BY <1>1, <2>1, <2>3
<1>2. CASE ~tx[c].mine
  <2>1. tx' = [tx EXCEPT ![c] = FreeCall]
    BY <1>2 DEF Answered
  <2>2. QED BY <2>1, FreeIsFree DEF Own
<1>3. QED BY <1>1, <1>2

(* A call outside the locks owes them nothing.                             *)
Unlocked(c) == /\ tx'[c].at \in {"free", "sent", "begun", "answered"}
               /\ tx'[c].at = "begun" => tx'[c].by \in Users
SameCall(c) == tx'[c].at = tx[c].at /\ tx'[c].op = tx[c].op /\ tx'[c].by = tx[c].by

LEMMA LocksQuiet ==
  ASSUME LocksHold, member' = member, code' = code, issued' = issued, \A c \in Calls : SameCall(c) \/ Unlocked(c)
  PROVE  LocksHold'
<1>1. \A c \in Calls : SameCall(c) => Refusal(c)' = Refusal(c)
  BY DEF SameCall, Refusal
<1>2. \A c \in Calls : tx'[c].at \in {"locked", "coded"} => SameCall(c)
  BY DEF Unlocked
<1>3. \A c \in Calls : tx'[c].at \in {"begun", "locked", "coded"} => tx'[c].by \in Users
  BY DEF Unlocked, SameCall, LocksHold
<1>4. \A c \in Calls : tx'[c].at = "locked" => tx'[c].op.kind # "list"
  BY <1>2 DEF SameCall, LocksHold
<1>5. ASSUME NEW c \in Calls, tx'[c].at = "coded"
      PROVE  /\ tx'[c].op.kind = "redeem" /\ Refusal(c)' = "none" /\ tx'[c].op.code \in 1 .. issued'
             /\ \A u \in Users : code'[u].id = tx'[c].op.code => ~code'[u].used
  <2>1. SameCall(c) BY <1>2, <1>5
  <2>2. QED BY <1>1, <1>5, <2>1 DEF SameCall, LocksHold
<1>6. ASSUME NEW c \in Calls, NEW d \in Calls, c # d
      PROVE  /\ \A w \in Workspaces : ~(HoldsSpace(c, w)' /\ HoldsSpace(d, w)')
             /\ ~(tx'[c].at = "coded" /\ tx'[d].at = "coded" /\ tx'[c].op.code = tx'[d].op.code)
  BY <1>2, <1>6 DEF SameCall, LocksHold, HoldsSpace
<1>7. QED BY <1>3, <1>4, <1>5, <1>6 DEF LocksHold

LEMMA TablesStay ==
  ASSUME Tables, UNCHANGED db, clock' \in Nat
  PROVE  Tables'
<1>1. UNCHANGED <<member, code, audit, issued, admitted>>
  BY DEF db
<1>2. AuditTellsMembers'
  <2>1. \A w, u, n, row : Told(w, u, n, row)' <=> Told(w, u, n, row)
    BY <1>1 DEF Told
  <2>2. AuditTellsMembers
    BY DEF Tables
  <2>3. QED BY <1>1, <2>1, <2>2 DEF AuditTellsMembers
<1>3. MembersWithinLimit'
  BY <1>1 DEF Tables, MembersWithinLimit, Active
<1>4. OwnersStay' /\ CodesAreOnce'
  BY <1>1 DEF Tables, OwnersStay, CodesAreOnce
<1>5. QED BY <1>1, <1>2, <1>3, <1>4 DEF Tables

(* What the database does with a call, as far as the tab is concerned.      *)
Follows(c) ==
  /\ tx'[c].at = "answered" /\ ~tx'[c].mine => tx[c].at = "answered" /\ ~tx[c].mine
  /\ Own(tx'[c]) =>
       /\ Own(tx[c]) /\ tx'[c].op = tx[c].op /\ tx'[c].tab = tx[c].tab
       /\ Brings(tx'[c]) => \/ Brings(tx[c]) /\ tx'[c].payload = tx[c].payload
                            \/ /\ tx[c].op.kind = "list" => tx'[c].payload.rev >= Len(audit[tx[c].op.w])
                               /\ tx[c].op.kind \in {"update", "redeem"} => tx'[c].payload.rev <= Len(audit'[tx[c].op.w])

LEMMA ClientStays ==
  ASSUME Client, tab' = tab, steps' \in Nat, steps' >= steps, tx' \in [Calls -> Records],
         audit \in [Workspaces -> Seq(Entries)], audit' \in [Workspaces -> Seq(Entries)],
         \A w \in Workspaces : Len(audit'[w]) >= Len(audit[w]),
         \A c \in Calls : Follows(c)
  PROVE  Client'
<1>0. \A c \in Calls : tx[c] \in Records /\ tx'[c] \in Records
  BY DEF Client
<1>1. \A c \in Calls : tx[c].op.kind \in {"update", "redeem", "list"} => tx[c].op.w \in Workspaces
  BY <1>0, CallTypes, OpKinds
<1>2. \A w \in Workspaces : Len(audit[w]) \in Nat /\ Len(audit'[w]) \in Nat
  OBVIOUS
<1>3. \A c \in Calls : Change(tx'[c]) => Change(tx[c]) /\ tx'[c].tab = tx[c].tab /\ tx'[c].op = tx[c].op
  BY DEF Follows, Change
<1>4. \A c \in Calls : Listing(tx'[c]) => Listing(tx[c]) /\ tx'[c].tab = tx[c].tab /\ tx'[c].op = tx[c].op
  BY DEF Follows, Listing
<1>5. TabKnows(tab', audit', steps')
  <2>1. tab.sel \in Workspaces \cup {None} /\ tab.saved \in Nat /\ tab.pending.id \in Nat
    BY DEF Client, Tabs, Places, Pendings
  <2>2. tab.saved # 0 => tab.sel # None /\ tab.saved <= Len(audit'[tab.sel])
    BY <2>1, <1>2 DEF Client, TabKnows
  <2>3. tab.pending.id # 0 => tab.pending.id <= steps'
    BY <2>1 DEF Client, TabKnows
  <2>4. QED BY <2>2, <2>3 DEF Client, TabKnows
<1>6. ASSUME NEW c \in Calls, Change(tx'[c])
      PROVE  tx'[c].tab.id \in 1..steps' /\ (Brings(tx'[c]) => tx'[c].payload.rev <= Len(audit'[tx'[c].op.w]))
  <2>1. Change(tx[c]) /\ tx'[c].tab = tx[c].tab /\ tx'[c].op = tx[c].op /\ tx[c].op.kind \in {"update", "redeem"}
    BY <1>3, <1>6 DEF Change
  <2>2. tx[c].tab.id \in 1..steps /\ (Brings(tx[c]) => tx[c].payload.rev <= Len(audit[tx[c].op.w]))
    BY <2>1 DEF Client, CallsKnow
  <2>3. tx[c].op.w \in Workspaces /\ tx[c].payload.rev \in Nat /\ tx'[c].payload.rev \in Nat
    BY <1>0, <1>1, <2>1, CallTypes
  <2>4. Brings(tx'[c]) => tx'[c].payload.rev <= Len(audit'[tx[c].op.w])
    BY <1>2, <1>6, <2>1, <2>2, <2>3 DEF Follows, Change
  <2>5. tx[c].tab.id \in 1..steps'
    BY <2>2 DEF Client
  <2>6. QED BY <2>1, <2>4, <2>5
<1>7. ASSUME NEW c \in Calls, Listing(tx'[c])
      PROVE  /\ tab.pending.id # 0 => tab.pending.reconciled
             /\ tab.saved # 0 => /\ tx'[c].op.w = tab.sel
                                 /\ Brings(tx'[c]) => tx'[c].payload.rev >= tab.saved
  <2>1. Listing(tx[c]) /\ tx'[c].op = tx[c].op /\ tx[c].op.kind = "list"
    BY <1>4, <1>7 DEF Listing
  <2>2. tx[c].op.w \in Workspaces /\ tx'[c].payload.rev \in Nat /\ tab.saved \in Nat
    BY <1>0, <1>1, <2>1, CallTypes DEF Client, Tabs
  <2>3. /\ tab.pending.id # 0 => tab.pending.reconciled
        /\ tab.saved # 0 => /\ tx[c].op.w = tab.sel
                            /\ Brings(tx[c]) => tx[c].payload.rev >= tab.saved
    BY <2>1 DEF Client, CallsKnow
  <2>4. tab.saved # 0 /\ Brings(tx'[c]) => tx'[c].payload.rev >= tab.saved
    <3>1. tab.saved # 0 => tab.saved <= Len(audit[tx[c].op.w])
      BY <2>3 DEF Client, TabKnows
    <3>2. QED BY <1>2, <1>7, <2>1, <2>2, <2>3, <3>1 DEF Follows, Listing
  <2>5. QED BY <2>1, <2>3, <2>4
<1>8. ASSUME NEW c \in Calls, Awaited(tx'[c], tab)
      PROVE  /\ tx'[c].op.w = tab.pending.w /\ ~tab.pending.settled
             /\ tx'[c].tab.live => /\ tab.pending.reconciled
                                   /\ tab.sel = tab.pending.w => tx'[c].tab.prev.rev >= tab.saved
  <2>1. Awaited(tx[c], tab) /\ tx'[c].tab = tx[c].tab /\ tx'[c].op = tx[c].op
    BY <1>3, <1>8 DEF Awaited
  <2>2. QED BY <2>1 DEF Client, CallsKnow
<1>9. CallsKnow(tx', tab', audit', steps')
  <2>1. \A c, d \in Calls : Change(tx'[c]) /\ Change(tx'[d]) /\ tx'[c].tab.id = tx'[d].tab.id => c = d
    BY <1>3 DEF Client, CallsKnow
  <2>2. \A c \in Calls : tx'[c].at = "answered" => tx'[c].mine
    BY DEF Follows, Client, CallsKnow
  <2>3. QED BY <1>6, <1>7, <1>8, <2>1, <2>2 DEF CallsKnow
<1>10. QED BY <1>5, <1>9 DEF Client

-----------------------------------------------------------------------------
(* The audit log.                                                          *)
ToldIn(log, w, u, n, row) ==
  \/ \E i \in 1 .. n : log[i].user = u /\ log[i].new = row /\ \A j \in i + 1 .. n : log[j].user # u
  \/ (\A j \in 1 .. n : log[j].user # u) /\ row = FirstMember(w, u)

LEMMA ToldThen ==
  ASSUME NEW w, NEW log \in Seq(Entries), NEW e \in Entries
  PROVE  /\ Append(log, e) \in Seq(Entries) /\ Len(Append(log, e)) = Len(log) + 1 /\ Append(log, e)[Len(log) + 1] = e
         /\ \A i \in 1 .. Len(log) : Append(log, e)[i] = log[i]
         /\ \A u, n, row : n \in 0 .. Len(log) /\ ToldIn(log, w, u, n, row) => ToldIn(Append(log, e), w, u, n, row)
         /\ ToldIn(Append(log, e), w, e.user, Len(log) + 1, e.new)
         /\ \A u, row : u # e.user /\ ToldIn(log, w, u, Len(log), row) => ToldIn(Append(log, e), w, u, Len(log) + 1, row)
<1> DEFINE more == Append(log, e)
<1>1. /\ Len(log) \in Nat /\ more \in Seq(Entries) /\ Len(more) = Len(log) + 1 /\ more[Len(log) + 1] = e
      /\ \A i \in 1 .. Len(log) : more[i] = log[i]
  OBVIOUS
<1> HIDE DEF more
<1>2. ASSUME NEW u, NEW n \in 0 .. Len(log), NEW row, ToldIn(log, w, u, n, row) PROVE ToldIn(more, w, u, n, row)
  <2>1. \A i \in 1 .. n : more[i] = log[i]
    BY <1>1
  <2>2. CASE \E i \in 1 .. n : log[i].user = u /\ log[i].new = row /\ \A j \in i + 1 .. n : log[j].user # u
    <3>1. PICK i \in 1 .. n : log[i].user = u /\ log[i].new = row /\ \A j \in i + 1 .. n : log[j].user # u
      BY <2>2
    <3>2. \A j \in i + 1 .. n : j \in 1 .. n
      BY <1>1
    <3>3. QED BY <2>1, <3>1, <3>2 DEF ToldIn
  <2>3. CASE (\A j \in 1 .. n : log[j].user # u) /\ row = FirstMember(w, u)
    BY <2>1, <2>3 DEF ToldIn
  <2>4. QED BY <1>2, <2>2, <2>3 DEF ToldIn
<1>3. ToldIn(more, w, e.user, Len(log) + 1, e.new)
  <2>1. Len(log) + 1 \in 1 .. Len(log) + 1 /\ \A j \in Len(log) + 1 + 1 .. Len(log) + 1 : more[j].user # e.user
    BY <1>1
  <2>2. QED BY <1>1, <2>1 DEF ToldIn
<1>4. ASSUME NEW u, NEW row, u # e.user, ToldIn(log, w, u, Len(log), row) PROVE ToldIn(more, w, u, Len(log) + 1, row)
  <2>1. ToldIn(more, w, u, Len(log), row)
    BY <1>1, <1>2, <1>4
  <2>2. more[Len(log) + 1].user # u
    BY <1>1, <1>4
  <2>3. CASE \E i \in 1 .. Len(log) : more[i].user = u /\ more[i].new = row /\ \A j \in i + 1 .. Len(log) : more[j].user # u
    <3>1. PICK i \in 1 .. Len(log) : more[i].user = u /\ more[i].new = row /\ \A j \in i + 1 .. Len(log) : more[j].user # u
      BY <2>3
    <3>2. i \in 1 .. Len(log) + 1 /\ \A j \in i + 1 .. Len(log) + 1 : j \in i + 1 .. Len(log) \/ j = Len(log) + 1
      BY <1>1
    <3>3. QED BY <2>2, <3>1, <3>2 DEF ToldIn
  <2>4. CASE (\A j \in 1 .. Len(log) : more[j].user # u) /\ row = FirstMember(w, u)
    <3>1. \A j \in 1 .. Len(log) + 1 : j \in 1 .. Len(log) \/ j = Len(log) + 1
      BY <1>1
    <3>2. QED BY <2>2, <2>4, <3>1 DEF ToldIn
  <2>5. QED BY <2>1, <2>3, <2>4 DEF ToldIn
<1>5. QED BY <1>1, <1>2, <1>3, <1>4 DEF more

(* A change of a membership and its row of the audit log.                  *)
LEMMA Recorded ==
  ASSUME member \in [Workspaces -> [Users -> Rows]], audit \in [Workspaces -> Seq(Entries)], AuditTellsMembers,
         NEW w \in Workspaces, NEW u \in Users, NEW new \in Rows,
         member' = [member EXCEPT ![w][u] = new],
         audit' = [audit EXCEPT ![w] = Append(@, [user |-> u, old |-> member[w][u], new |-> new])]
  PROVE  /\ audit' \in [Workspaces -> Seq(Entries)] /\ AuditTellsMembers'
         /\ \A v \in Workspaces : Len(audit'[v]) >= Len(audit[v])
<1> DEFINE e == [user |-> u, old |-> member[w][u], new |-> new]
<1>0. e \in Entries /\ audit[w] \in Seq(Entries) /\ e.user = u /\ e.old = member[w][u] /\ e.new = new
  BY DEF Entries
<1>1. audit'[w] = Append(audit[w], e) /\ \A v \in Workspaces \ {w} : audit'[v] = audit[v] /\ member'[v] = member[v]
  OBVIOUS
<1>2. member'[w][u] = new /\ \A v \in Users \ {u} : member'[w][v] = member[w][v]
  OBVIOUS
<1> HIDE DEF e
<1>3. /\ Append(audit[w], e) \in Seq(Entries) /\ Len(Append(audit[w], e)) = Len(audit[w]) + 1 /\ Append(audit[w], e)[Len(audit[w]) + 1] = e
      /\ \A i \in 1 .. Len(audit[w]) : Append(audit[w], e)[i] = audit[w][i]
      /\ \A v, n, row : n \in 0 .. Len(audit[w]) /\ ToldIn(audit[w], w, v, n, row) => ToldIn(Append(audit[w], e), w, v, n, row)
      /\ ToldIn(Append(audit[w], e), w, e.user, Len(audit[w]) + 1, e.new)
      /\ \A v, row : v # e.user /\ ToldIn(audit[w], w, v, Len(audit[w]), row) => ToldIn(Append(audit[w], e), w, v, Len(audit[w]) + 1, row)
  BY <1>0, ToldThen
<1>4. audit' \in [Workspaces -> Seq(Entries)]
  BY <1>1, <1>3 DEF e
<1>5. \A v \in Workspaces : Len(audit'[v]) >= Len(audit[v])
  BY <1>1, <1>3
<1>6. ASSUME NEW x \in Workspaces
      PROVE  /\ \A v \in Users : ToldIn(audit[x], x, v, Len(audit[x]), member[x][v])
             /\ \A i \in DOMAIN audit[x] : ToldIn(audit[x], x, audit[x][i].user, i - 1, audit[x][i].old)
  BY DEF AuditTellsMembers, Told, ToldIn
<1>7. ASSUME NEW x \in Workspaces
      PROVE  /\ \A v \in Users : ToldIn(audit'[x], x, v, Len(audit'[x]), member'[x][v])
             /\ \A i \in DOMAIN audit'[x] : ToldIn(audit'[x], x, audit'[x][i].user, i - 1, audit'[x][i].old)
  <2>1. CASE x # w
    BY <1>1, <1>6, <2>1
  <2>2. CASE x = w
    <3>0. Len(audit[w]) \in Nat /\ DOMAIN audit[w] = 1 .. Len(audit[w])
      BY <1>0
    <3>1. ASSUME NEW v \in Users PROVE ToldIn(audit'[w], w, v, Len(audit'[w]), member'[w][v])
      <4>1. CASE v = u BY <1>0, <1>1, <1>2, <1>3, <4>1
      <4>2. CASE v # u BY <1>0, <1>1, <1>2, <1>3, <1>6, <4>2
      <4>3. QED BY <4>1, <4>2
    <3>2. ASSUME NEW i \in DOMAIN audit'[w] PROVE ToldIn(audit'[w], w, audit'[w][i].user, i - 1, audit'[w][i].old)
      <4>1. i \in 1 .. Len(audit[w]) + 1
        BY <1>1, <1>3
      <4>2. CASE i = Len(audit[w]) + 1
        <5>1. audit'[w][i].user = u /\ audit'[w][i].old = member[w][u] /\ i - 1 = Len(audit[w]) /\ i - 1 \in 0 .. Len(audit[w])
          BY <1>0, <1>1, <1>3, <3>0, <4>2
        <5>2. ToldIn(audit[w], w, u, Len(audit[w]), member[w][u])
          BY <1>6
        <5>3. QED BY <1>1, <1>3, <5>1, <5>2
      <4>3. CASE i # Len(audit[w]) + 1
        <5>1. i \in 1 .. Len(audit[w]) /\ i \in DOMAIN audit[w] /\ i - 1 \in 0 .. Len(audit[w])
          BY <3>0, <4>1, <4>3
        <5>2. audit'[w][i] = audit[w][i]
          BY <1>1, <1>3, <5>1
        <5>3. ToldIn(audit[w], w, audit[w][i].user, i - 1, audit[w][i].old)
          BY <1>6, <5>1
        <5>4. QED BY <1>1, <1>3, <5>1, <5>2, <5>3
      <4>4. QED BY <4>2, <4>3
    <3>3. QED BY <2>2, <3>1, <3>2
  <2>3. QED BY <2>1, <2>2
<1>8. AuditTellsMembers'
  BY <1>7 DEF AuditTellsMembers, Told, ToldIn
<1>9. QED BY <1>4, <1>5, <1>8

-----------------------------------------------------------------------------
(* The steps of the database.                                              *)
AtRest == UNCHANGED <<db, clock, cookie>>

LEMMA SameFollows == \A c \in Calls : tx'[c] = tx[c] => SameCall(c) /\ Follows(c)
BY DEF SameCall, Follows, Brings

LEMMA ServerRests ==
  ASSUME Server, UNCHANGED db, clock' \in Nat, cookie' \in Persons, tx' \in [Calls -> Records],
         \A c \in Calls : SameCall(c) \/ Unlocked(c)
  PROVE  Server'
<1>1. Tables'
  BY TablesStay DEF Server
<1>2. UNCHANGED <<member, code, issued>>
  BY DEF db
<1>3. LocksHold'
  BY <1>2, LocksQuiet DEF Server
<1>4. QED BY <1>1, <1>3 DEF Server

LEMMA Failing ==
  ASSUME Server, AtRest, NEW c \in Calls, tx[c].at # "free", NEW answer \in {"refused", "conflict", "unknown", "ended"},
         Answer(c, answer)
  PROVE  Server' /\ \A d \in Calls : Follows(d)
<1>1. NoPrev \in Views
  BY ViewOfNothing
<1>2. tx \in [Calls -> Records]
  BY DEF Server
<1>3. /\ tx' \in [Calls -> Records]
      /\ \A d \in Calls : d # c => tx'[d] = tx[d]
      /\ tx'[c].at \in {"free", "answered"} /\ (tx'[c].at = "answered" => tx'[c].mine)
      /\ Own(tx'[c]) => /\ tx[c].mine /\ tx'[c].op = tx[c].op /\ tx'[c].tab = tx[c].tab
                        /\ tx'[c].answer = answer /\ tx'[c].payload = NoPrev
  BY <1>1, <1>2, AnsweredIs DEF Answer
<1>4. \A d \in Calls : SameCall(d) \/ Unlocked(d)
  BY <1>3, SameFollows DEF Unlocked
<1>5. clock' \in Nat /\ cookie' \in Persons /\ UNCHANGED db
  BY DEF AtRest, Server, Tables
<1>6. Server'
  BY <1>3, <1>4, <1>5, ServerRests
<1>7. Follows(c)
  BY <1>3 DEF Follows, Own, Brings
<1>8. QED BY <1>3, <1>6, <1>7, SameFollows

(* A call that goes on behind one more lock.                               *)
LEMMA Onwards ==
  ASSUME Server, AtRest, NEW c \in Calls, tx[c].at \in {"begun", "locked"}, NEW at \in {"locked", "coded"},
         tx' = [tx EXCEPT ![c].at = at]
  PROVE  /\ tx' \in [Calls -> Records] /\ Tables' /\ cookie' \in Persons /\ UNCHANGED <<member, code, issued>>
         /\ \A d \in Calls \ {c} : tx'[d] = tx[d]
         /\ tx'[c].at = at /\ tx'[c].op = tx[c].op /\ tx'[c].by = tx[c].by
         /\ \A d \in Calls : Follows(d)
<1>0. tx \in [Calls -> Records] /\ tx[c] \in Records
  BY DEF Server
<1> DEFINE q == [tx[c] EXCEPT !.at = at]
<1>1. tx' = [tx EXCEPT ![c] = q]
  BY <1>0
<1>2. q \in Records /\ q.at = at /\ q.op = tx[c].op /\ q.by = tx[c].by /\ q.mine = tx[c].mine /\ q.tab = tx[c].tab
  BY <1>0 DEF Records
<1> HIDE DEF q
<1>3. tx' \in [Calls -> Records] /\ tx'[c] = q /\ \A d \in Calls \ {c} : tx'[d] = tx[d]
  BY <1>0, <1>1, <1>2
<1>4. Tables' /\ cookie' \in Persons /\ UNCHANGED <<member, code, issued>>
  BY TablesStay DEF Server, AtRest, Tables, db
<1>5. Follows(c)
  BY <1>2, <1>3 DEF Follows, Own, Brings
<1>6. QED BY <1>2, <1>3, <1>4, <1>5, SameFollows

LEMMA ArriveSound ==
  ASSUME Server, NEW c \in Calls, Arrive(c) PROVE Server' /\ \A d \in Calls : Follows(d)
<1>0. tx \in [Calls -> Records] /\ tx[c] \in Records /\ tx[c].at = "sent" /\ AtRest /\ clock \in Nat /\ cookie \in Persons
  BY DEF Server, Tables, Arrive, AtRest
<1>1. CASE cookie = None
  BY <1>0, <1>1, Failing DEF Arrive
<1>2. CASE cookie # None
  <2> DEFINE q == [tx[c] EXCEPT !.at = "begun", !.by = cookie, !.began = clock]
  <2>1. tx' = [tx EXCEPT ![c] = q]
    BY <1>0, <1>2 DEF Arrive
  <2>2. q \in Records /\ q.at = "begun" /\ q.by = cookie /\ q.op = tx[c].op /\ q.mine = tx[c].mine /\ q.tab = tx[c].tab
    BY <1>0 DEF Records
  <2> HIDE DEF q
  <2>3. tx' \in [Calls -> Records] /\ tx'[c] = q /\ \A d \in Calls \ {c} : tx'[d] = tx[d]
    BY <1>0, <2>1, <2>2
  <2>4. Unlocked(c)
    BY <1>0, <1>2, <2>2, <2>3 DEF Unlocked, Persons
  <2>5. \A d \in Calls : SameCall(d) \/ Unlocked(d)
    BY <2>3, <2>4, SameFollows
  <2>6. Server'
    BY <1>0, <2>3, <2>5, ServerRests DEF AtRest
  <2>7. Follows(c)
    BY <1>0, <2>2, <2>3 DEF Follows, Own, Brings
  <2>8. QED BY <2>3, <2>6, <2>7, SameFollows
<1>3. QED BY <1>1, <1>2

LEMMA LockWorkspaceSound ==
  ASSUME Server, NEW c \in Calls, LockWorkspace(c) PROVE Server' /\ \A d \in Calls : Follows(d)
<1>0. tx[c].at = "begun" /\ tx[c].op.kind \in {"update", "redeem"} /\ tx' = [tx EXCEPT ![c].at = "locked"] /\ AtRest
      /\ \A d \in Calls : ~HoldsSpace(d, tx[c].op.w)
  BY DEF LockWorkspace, AtRest
<1>1. /\ tx' \in [Calls -> Records] /\ Tables' /\ cookie' \in Persons /\ UNCHANGED <<member, code, issued>>
      /\ \A d \in Calls \ {c} : tx'[d] = tx[d]
      /\ tx'[c].at = "locked" /\ tx'[c].op = tx[c].op /\ tx'[c].by = tx[c].by
      /\ \A d \in Calls : Follows(d)
  BY <1>0, Onwards
<1>2. LocksHold
  BY DEF Server
<1>3. \A d \in Calls : Refusal(d)' = Refusal(d)
  BY <1>1 DEF Refusal
<1>4. LocksHold'
  <2>1. \A d \in Calls : tx'[d].at \in {"begun", "locked", "coded"} => tx'[d].by \in Users
    BY <1>0, <1>1, <1>2 DEF LocksHold
  <2>2. \A d \in Calls : tx'[d].at = "locked" => tx'[d].op.kind # "list"
    BY <1>0, <1>1, <1>2 DEF LocksHold
  <2>3. \A d \in Calls : tx'[d].at = "coded" =>
          /\ tx'[d].op.kind = "redeem" /\ Refusal(d)' = "none" /\ tx'[d].op.code \in 1 .. issued'
          /\ \A u \in Users : code'[u].id = tx'[d].op.code => ~code'[u].used
    BY <1>1, <1>2, <1>3 DEF LocksHold
  <2>4. \A d, e \in Calls : d # e => ~(tx'[d].at = "coded" /\ tx'[e].at = "coded" /\ tx'[d].op.code = tx'[e].op.code)
    BY <1>1, <1>2 DEF LocksHold
  <2>5. \A d \in Calls \ {c} : \A w \in Workspaces : HoldsSpace(d, w)' = HoldsSpace(d, w)
    BY <1>1 DEF HoldsSpace
  <2>6. \A w \in Workspaces : HoldsSpace(c, w)' => w = tx[c].op.w
    BY <1>1 DEF HoldsSpace
  <2>7. \A d, e \in Calls : d # e => \A w \in Workspaces : ~(HoldsSpace(d, w)' /\ HoldsSpace(e, w)')
    BY <1>0, <1>2, <2>5, <2>6 DEF LocksHold
  <2>8. QED BY <2>1, <2>2, <2>3, <2>4, <2>7 DEF LocksHold
<1>5. QED BY <1>1, <1>4 DEF Server

LEMMA LockUserSound ==
  ASSUME Server, NEW c \in Calls, LockUser(c) PROVE Server' /\ \A d \in Calls : Follows(d)
<1>0. tx[c].at = "begun" /\ tx[c].op.kind = "issue" /\ tx' = [tx EXCEPT ![c].at = "locked"] /\ AtRest
  BY DEF LockUser, AtRest
<1>1. /\ tx' \in [Calls -> Records] /\ Tables' /\ cookie' \in Persons /\ UNCHANGED <<member, code, issued>>
      /\ \A d \in Calls \ {c} : tx'[d] = tx[d]
      /\ tx'[c].at = "locked" /\ tx'[c].op = tx[c].op /\ tx'[c].by = tx[c].by
      /\ \A d \in Calls : Follows(d)
  BY <1>0, Onwards
<1>2. LocksHold
  BY DEF Server
<1>3. \A d \in Calls : Refusal(d)' = Refusal(d)
  BY <1>1 DEF Refusal
<1>4. \A d \in Calls : \A w \in Workspaces : HoldsSpace(d, w)' => HoldsSpace(d, w)
  BY <1>0, <1>1 DEF HoldsSpace
<1>5. LocksHold'
  <2>1. \A d \in Calls : tx'[d].at \in {"begun", "locked", "coded"} => tx'[d].by \in Users
    BY <1>0, <1>1, <1>2 DEF LocksHold
  <2>2. \A d \in Calls : tx'[d].at = "locked" => tx'[d].op.kind # "list"
    BY <1>0, <1>1, <1>2 DEF LocksHold
  <2>3. \A d \in Calls : tx'[d].at = "coded" =>
          /\ tx'[d].op.kind = "redeem" /\ Refusal(d)' = "none" /\ tx'[d].op.code \in 1 .. issued'
          /\ \A u \in Users : code'[u].id = tx'[d].op.code => ~code'[u].used
    BY <1>1, <1>2, <1>3 DEF LocksHold
  <2>4. \A d, e \in Calls : d # e => ~(tx'[d].at = "coded" /\ tx'[e].at = "coded" /\ tx'[d].op.code = tx'[e].op.code)
    BY <1>1, <1>2 DEF LocksHold
  <2>5. QED BY <1>2, <1>4, <2>1, <2>2, <2>3, <2>4 DEF LocksHold
<1>6. QED BY <1>1, <1>5 DEF Server

LEMMA LockCodeSound ==
  ASSUME Server, NEW c \in Calls, LockCode(c) PROVE Server' /\ \A d \in Calls : Follows(d)
<1>0. tx[c].at = "locked" /\ tx[c].op.kind = "redeem" /\ AtRest
  BY DEF LockCode, AtRest
<1>1. CASE Refusal(c) # "none"
  <2>1. Refusal(c) \in {"refused", "conflict"} /\ Answer(c, Refusal(c))
    BY <1>1 DEF LockCode, Refusal
  <2>2. QED BY <1>0, <2>1, Failing
<1>2. CASE Refusal(c) = "none" /\ Answer(c, "conflict")
  BY <1>0, <1>2, Failing
<1>3. CASE Refusal(c) = "none" /\ ~Answer(c, "conflict")
  <2>1. PICK u \in Users : /\ code[u].id = tx[c].op.code /\ \A d \in Calls : ~HoldsCode(d, u)
                           /\ Usable(c, u) /\ tx' = [tx EXCEPT ![c].at = "coded"]
    BY <1>3 DEF LockCode
  <2>2. /\ tx' \in [Calls -> Records] /\ Tables' /\ cookie' \in Persons /\ UNCHANGED <<member, code, issued>>
        /\ \A d \in Calls \ {c} : tx'[d] = tx[d]
        /\ tx'[c].at = "coded" /\ tx'[c].op = tx[c].op /\ tx'[c].by = tx[c].by
        /\ \A d \in Calls : Follows(d)
    BY <1>0, <2>1, Onwards
  <2>3. LocksHold /\ CodesAreOnce /\ code[u] \in Codes /\ tx[c] \in Records /\ issued \in Nat
    BY DEF Server, Tables
  <2>4. code[u].id # 0 /\ code[u].id \in 1 .. issued
    <3>1. code[u].expires > tx[c].began /\ tx[c].began \in Nat /\ code[u].expires \in Nat /\ code[u].id \in Nat
      BY <2>1, <2>3, CallTypes DEF Usable, Codes
    <3>2. QED BY <2>3, <3>1 DEF CodesAreOnce
  <2>5. \A v \in Users : code[v].id = tx[c].op.code => v = u
    BY <2>1, <2>3, <2>4 DEF CodesAreOnce
  <2>6. \A d \in Calls : Refusal(d)' = Refusal(d)
    BY <2>2 DEF Refusal
  <2>7. \A d \in Calls : \A w \in Workspaces : HoldsSpace(d, w)' <=> HoldsSpace(d, w)
    BY <1>0, <2>2 DEF HoldsSpace
  <2>8. LocksHold'
    <3>1. \A d \in Calls : tx'[d].at \in {"begun", "locked", "coded"} => tx'[d].by \in Users
      BY <1>0, <2>2, <2>3 DEF LocksHold
    <3>2. \A d \in Calls : tx'[d].at = "locked" => tx'[d].op.kind # "list"
      BY <2>2, <2>3 DEF LocksHold
    <3>3. \A d \in Calls : tx'[d].at = "coded" =>
            /\ tx'[d].op.kind = "redeem" /\ Refusal(d)' = "none" /\ tx'[d].op.code \in 1 .. issued'
            /\ \A v \in Users : code'[v].id = tx'[d].op.code => ~code'[v].used
      <4>1. ASSUME NEW d \in Calls \ {c}, tx'[d].at = "coded"
            PROVE  /\ tx'[d].op.kind = "redeem" /\ Refusal(d)' = "none" /\ tx'[d].op.code \in 1 .. issued'
                   /\ \A v \in Users : code'[v].id = tx'[d].op.code => ~code'[v].used
        BY <2>2, <2>3, <2>6, <4>1 DEF LocksHold
      <4>2. /\ tx'[c].op.kind = "redeem" /\ Refusal(c)' = "none" /\ tx'[c].op.code \in 1 .. issued'
            /\ \A v \in Users : code'[v].id = tx'[c].op.code => ~code'[v].used
        BY <1>0, <1>3, <2>1, <2>2, <2>4, <2>5, <2>6 DEF Usable
      <4>3. QED BY <4>1, <4>2
    <3>4. \A d \in Calls \ {c} : ~(tx[d].at = "coded" /\ tx[d].op.code = tx[c].op.code)
      BY <2>1 DEF HoldsCode
    <3>5. \A d, e \in Calls : d # e => ~(tx'[d].at = "coded" /\ tx'[e].at = "coded" /\ tx'[d].op.code = tx'[e].op.code)
      BY <2>2, <2>3, <3>4 DEF LocksHold
    <3>6. \A d, e \in Calls : d # e => \A w \in Workspaces : ~(HoldsSpace(d, w)' /\ HoldsSpace(e, w)')
      BY <2>3, <2>7 DEF LocksHold
    <3>7. QED BY <3>1, <3>2, <3>3, <3>5, <3>6 DEF LocksHold
  <2>9. QED BY <2>2, <2>8 DEF Server
<1>4. QED BY <1>1, <1>2, <1>3

LEMMA BreakDeadlockSound ==
  ASSUME Server, NEW c \in Calls, BreakDeadlock(c) PROVE Server' /\ \A d \in Calls : Follows(d)
<1>1. tx[c].at # "free"
  BY DEF BreakDeadlock, HoldsCode, HoldsUser
<1>2. QED BY <1>1, Failing DEF BreakDeadlock, AtRest

LEMMA ListMembersSound ==
  ASSUME Server, NEW c \in Calls, ListMembers(c) PROVE Server' /\ \A d \in Calls : Follows(d)
<1>0. tx[c].at = "begun" /\ tx[c].op.kind = "list" /\ AtRest /\ UNCHANGED db
  BY DEF ListMembers, AtRest
<1> DEFINE w == tx[c].op.w
           u == tx[c].by
           got == [role |-> member[w][u].role, list |-> [v \in Users |-> IF v \in Active(w) THEN member[w][v].role ELSE "none"],
                   rev |-> Len(audit[w])]
<1>1. CASE member[w][u].status # "active"
  BY <1>0, <1>1, Failing DEF ListMembers
<1>2. CASE member[w][u].status = "active"
  <2>1. Answered(c, "ok", got)
    BY <1>2 DEF ListMembers
  <2>2. tx \in [Calls -> Records] /\ tx[c] \in Records /\ w \in Workspaces /\ u \in Users
    <3>1. tx \in [Calls -> Records] /\ tx[c] \in Records /\ LocksHold
      BY DEF Server
    <3>2. tx[c].op \in AllOps
      BY <3>1, CallTypes
    <3>3. tx[c].op.w \in Workspaces
      BY <1>0, <3>2, OpKinds
    <3>4. QED BY <1>0, <3>1, <3>3 DEF LocksHold
  <2>3. got \in Views /\ got.rev = Len(audit[w])
    <3>1. member[w] \in [Users -> Rows] /\ audit[w] \in Seq(Entries)
      BY <2>2 DEF Server, Tables
    <3>2. \A v \in Users : member[w][v].role \in Standings
      BY <3>1 DEF Rows, NoMember, Standings
    <3>3. Len(audit[w]) \in Nat
      BY <3>1
    <3>4. "none" \in Standings
      BY DEF Standings
    <3>5. QED BY <2>2, <3>2, <3>3, <3>4 DEF Views
  <2> HIDE DEF got
  <2>4. /\ tx' \in [Calls -> Records]
        /\ \A d \in Calls : d # c => tx'[d] = tx[d]
        /\ tx'[c].at \in {"free", "answered"} /\ (tx'[c].at = "answered" => tx'[c].mine)
        /\ Own(tx'[c]) => /\ tx[c].mine /\ tx'[c].op = tx[c].op /\ tx'[c].tab = tx[c].tab
                          /\ tx'[c].answer = "ok" /\ tx'[c].payload = got
    BY <2>1, <2>2, <2>3, AnsweredIs
  <2>5. \A d \in Calls : SameCall(d) \/ Unlocked(d)
    BY <2>4, SameFollows DEF Unlocked
  <2>6. Server'
    BY <1>0, <2>4, <2>5, ServerRests DEF AtRest, Server, Tables
  <2>7. audit[w] \in Seq(Entries) /\ Len(audit[w]) \in Nat
    BY <2>2 DEF Server, Tables
  <2>8. Follows(c)
    BY <1>0, <2>3, <2>4, <2>7 DEF Follows, Own
  <2>9. QED BY <2>4, <2>6, <2>8, SameFollows
<1>3. QED BY <1>1, <1>2

(* A membership changes behind the lock of its workspace.                  *)
LEMMA ChangeKeepsLocks ==
  ASSUME Server, NEW c \in Calls, NEW w \in Workspaces, HoldsSpace(c, w),
         \A d \in Calls \ {c} : tx'[d] = tx[d], tx'[c].at \in {"free", "answered"},
         \A x \in Workspaces \ {w} : member'[x] = member[x], issued' = issued,
         \A d \in Calls \ {c} : tx[d].at = "coded" =>
            \A v \in Users : code'[v].id = tx[d].op.code => code'[v] = code[v]
  PROVE  LocksHold'
<1>1. LocksHold /\ tx \in [Calls -> Records]
  BY DEF Server
<1>2. ASSUME NEW d \in Calls \ {c}, tx[d].at = "coded"
      PROVE  tx[d].op.w \in Workspaces \ {w} /\ Refusal(d)' = Refusal(d)
  <2>1. tx[d] \in Records /\ tx[d].op.kind = "redeem"
    BY <1>1, <1>2 DEF LocksHold
  <2>2. tx[d].op.w \in Workspaces
    BY <2>1, CallTypes, OpKinds
  <2>3. HoldsSpace(d, tx[d].op.w)
    BY <1>2, <2>1 DEF HoldsSpace
  <2>4. tx[d].op.w # w
    BY <1>1, <2>2, <2>3 DEF LocksHold
  <2>5. QED BY <2>2, <2>4 DEF Refusal
<1>3. \A d \in Calls : tx'[d].at \in {"begun", "locked", "coded"} => d # c /\ tx'[d] = tx[d]
  OBVIOUS
<1>4. \A d \in Calls : tx'[d].at \in {"begun", "locked", "coded"} => tx'[d].by \in Users
  BY <1>1, <1>3 DEF LocksHold
<1>5. \A d \in Calls : tx'[d].at = "locked" => tx'[d].op.kind # "list"
  BY <1>1, <1>3 DEF LocksHold
<1>6. ASSUME NEW d \in Calls, tx'[d].at = "coded"
      PROVE  /\ tx'[d].op.kind = "redeem" /\ Refusal(d)' = "none" /\ tx'[d].op.code \in 1 .. issued'
             /\ \A v \in Users : code'[v].id = tx'[d].op.code => ~code'[v].used
  <2>1. d \in Calls \ {c} /\ tx'[d] = tx[d] /\ tx[d].at = "coded"
    BY <1>3, <1>6
  <2>2. Refusal(d)' = Refusal(d)
    BY <1>2, <2>1
  <2>3. \A v \in Users : code'[v].id = tx[d].op.code => ~code'[v].used
    BY <1>1, <2>1 DEF LocksHold
  <2>4. QED BY <1>1, <2>1, <2>2, <2>3 DEF LocksHold
<1>7. \A d, e \in Calls : d # e =>
        /\ \A x \in Workspaces : ~(HoldsSpace(d, x)' /\ HoldsSpace(e, x)')
        /\ ~(tx'[d].at = "coded" /\ tx'[e].at = "coded" /\ tx'[d].op.code = tx'[e].op.code)
  <2>1. \A d \in Calls, x \in Workspaces : HoldsSpace(d, x)' => HoldsSpace(d, x)
    BY <1>3 DEF HoldsSpace
  <2>2. QED BY <1>1, <1>3, <2>1 DEF LocksHold
<1>8. QED BY <1>4, <1>5, <1>6, <1>7 DEF LocksHold

(* A row that takes the place of another one.                              *)
LEMMA RowChanges ==
  ASSUME member \in [Workspaces -> [Users -> Rows]], OwnersStay, MembersWithinLimit,
         NEW w \in Workspaces, NEW u \in Users, NEW new \in Rows, new.role # "owner", u # Owner[w],
         member' = [member EXCEPT ![w][u] = new],
         new.status = "active" => \/ member[w][u].status = "active"
                                  \/ MaxMembers \in Nat /\ Cardinality(Active(w)) < MaxMembers
  PROVE  /\ member' \in [Workspaces -> [Users -> Rows]] /\ OwnersStay' /\ MembersWithinLimit'
         /\ \A x \in Workspaces \ {w} : member'[x] = member[x]
<1>1. /\ member' \in [Workspaces -> [Users -> Rows]] /\ member'[w][u] = new
      /\ \A x \in Workspaces \ {w} : member'[x] = member[x]
      /\ \A v \in Users \ {u} : member'[w][v] = member[w][v]
  OBVIOUS
<1>2. OwnersStay'
  <2>1. ASSUME NEW x \in Workspaces, NEW v \in Users
        PROVE  /\ member'[x][v].role = "owner" <=> v = Owner[x]
               /\ v = Owner[x] => member'[x][v].status = "active"
    BY <1>1 DEF OwnersStay
  <2>2. QED BY <2>1 DEF OwnersStay
<1>3. ASSUME NEW x \in Workspaces PROVE IsFiniteSet(Active(x)') /\ Cardinality(Active(x)') <= MaxMembers
  <2>0. IsFiniteSet(Active(x)) /\ Cardinality(Active(x)) <= MaxMembers /\ Cardinality(Active(x)) \in Nat
    BY FS_CardinalityType DEF MembersWithinLimit
  <2>1. CASE Active(x)' \subseteq Active(x)
    <3>1. IsFiniteSet(Active(x)') /\ Cardinality(Active(x)') <= Cardinality(Active(x)) /\ Cardinality(Active(x)') \in Nat
      BY <2>0, <2>1, FS_Subset, FS_CardinalityType
    <3>2. MaxMembers \in Nat
      BY MembersAssumption
    <3>3. QED BY <2>0, <3>1, <3>2
  <2>2. CASE ~(Active(x)' \subseteq Active(x))
    <3>1. x = w /\ new.status = "active" /\ member[w][u].status # "active"
      BY <1>1, <2>2 DEF Active
    <3>2. Active(w)' = Active(w) \cup {u} /\ u \notin Active(w)
      BY <1>1, <3>1 DEF Active
    <3>3. IsFiniteSet(Active(w)') /\ Cardinality(Active(w)') = Cardinality(Active(w)) + 1
      BY <2>0, <3>1, <3>2, FS_AddElement
    <3>4. MaxMembers \in Nat /\ Cardinality(Active(w)) < MaxMembers
      BY <3>1
    <3>5. QED BY <2>0, <3>1, <3>3, <3>4
  <2>3. QED BY <2>1, <2>2
<1>4. QED BY <1>1, <1>2, <1>3 DEF MembersWithinLimit

LEMMA UpdateMemberSound ==
  ASSUME Server, NEW c \in Calls, UpdateMember(c)
  PROVE  /\ Server' /\ (\A d \in Calls : Follows(d)) /\ audit' \in [Workspaces -> Seq(Entries)]
         /\ \A w \in Workspaces : Len(audit'[w]) >= Len(audit[w])
<1>0. tx[c].at = "locked" /\ tx[c].op.kind = "update" /\ UNCHANGED <<clock, cookie>> /\ UpdateTarget(c)
  BY DEF UpdateMember
<1>1. tx \in [Calls -> Records] /\ tx[c] \in Records /\ Tables /\ LocksHold /\ audit \in [Workspaces -> Seq(Entries)]
  BY DEF Server, Tables
<1>2. tx[c].op \in AllOps /\ tx[c].op.w \in Workspaces /\ tx[c].op.user \in Users /\ tx[c].op.role \in Roles
      /\ tx[c].op.status \in {"active", "removed"}
  BY <1>0, <1>1, CallTypes, OpKinds
<1> DEFINE w == tx[c].op.w
           u == tx[c].op.user
           old == member[w][u]
           new == [role |-> tx[c].op.role, status |-> tx[c].op.status]
<1>3. \A x \in Workspaces : Len(audit[x]) >= Len(audit[x])
  BY <1>1
<1>4. ASSUME NEW answer \in {"refused", "conflict", "unknown", "ended"}, Answer(c, answer), UNCHANGED db
      PROVE  /\ Server' /\ (\A d \in Calls : Follows(d)) /\ audit' \in [Workspaces -> Seq(Entries)]
             /\ \A x \in Workspaces : Len(audit'[x]) >= Len(audit[x])
  <2>1. Server' /\ \A d \in Calls : Follows(d)
    BY <1>0, <1>4, Failing DEF AtRest
  <2>2. QED BY <1>1, <1>3, <1>4, <2>1 DEF db
<1>5. CASE Refusal(c) # "none"
  <2>1. Refusal(c) \in {"refused", "conflict"} /\ Answer(c, Refusal(c)) /\ UNCHANGED db
    BY <1>0, <1>5 DEF UpdateTarget, Refusal
  <2>2. QED BY <1>4, <2>1
<1>6. CASE Refusal(c) = "none"
  <2>1. CASE \/ old = NoMember \/ old.role = "owner"
             \/ (old.status # "active" /\ new.status = "active")
             \/ ~TriggerAllows(w, u, new)
    <3>1. Answer(c, "conflict") /\ UNCHANGED db
      BY <1>0, <1>6, <2>1 DEF UpdateTarget
    <3>2. QED BY <1>4, <3>1
  <2>2. CASE ~ (\/ old = NoMember \/ old.role = "owner"
                \/ (old.status # "active" /\ new.status = "active")
                \/ ~TriggerAllows(w, u, new))
    <3>1. /\ member' = [member EXCEPT ![w][u] = new] /\ audit' = Logged(w, u, old, new)
          /\ Answered(c, "ok", [NoPrev EXCEPT !.rev = Len(audit'[w])])
          /\ UNCHANGED <<code, issued, admitted>>
      BY <1>0, <1>6, <2>2 DEF UpdateTarget
    <3>2. new \in Rows /\ new.role # "owner" /\ new.role = tx[c].op.role
      BY <1>2, <1>6 DEF Rows, Refusal
    <3>3. u # Owner[w] /\ (new.status = "active" => old.status = "active")
      BY <1>1, <1>2, <2>2 DEF Tables, OwnersStay
    <3>4. /\ member \in [Workspaces -> [Users -> Rows]] /\ AuditTellsMembers /\ OwnersStay /\ MembersWithinLimit
      BY <1>1 DEF Tables
    <3> HIDE DEF new
    <3>5. /\ member' \in [Workspaces -> [Users -> Rows]] /\ OwnersStay' /\ MembersWithinLimit'
          /\ \A x \in Workspaces \ {w} : member'[x] = member[x]
      BY <1>2, <3>1, <3>2, <3>3, <3>4, RowChanges
    <3>6. /\ audit' \in [Workspaces -> Seq(Entries)] /\ AuditTellsMembers'
          /\ \A x \in Workspaces : Len(audit'[x]) >= Len(audit[x])
      <4>1. CASE old = new
        <5>1. audit' = audit /\ member' = member
          BY <1>2, <3>1, <3>4, <4>1 DEF Logged
        <5>2. QED BY <1>1, <1>3, <3>4, <5>1 DEF AuditTellsMembers, Told
      <4>2. CASE old # new
        <5>1. audit' = [audit EXCEPT ![w] = Append(@, [user |-> u, old |-> member[w][u], new |-> new])]
          BY <3>1, <4>2 DEF Logged
        <5>2. QED BY <1>1, <1>2, <3>1, <3>2, <3>4, <5>1, Recorded
      <4>3. QED BY <4>1, <4>2
    <3>7. Len(audit'[w]) \in Nat
      BY <1>2, <3>6
    <3> DEFINE got == [NoPrev EXCEPT !.rev = Len(audit'[w])]
    <3>8. got \in Views /\ got.rev = Len(audit'[w])
      BY <3>7, ViewOfNothing
    <3>9. Answered(c, "ok", got)
      BY <3>1
    <3> HIDE DEF got
    <3>10. /\ tx' \in [Calls -> Records]
           /\ \A d \in Calls : d # c => tx'[d] = tx[d]
           /\ tx'[c].at \in {"free", "answered"} /\ (tx'[c].at = "answered" => tx'[c].mine)
           /\ Own(tx'[c]) => /\ tx[c].mine /\ tx'[c].op = tx[c].op /\ tx'[c].tab = tx[c].tab
                             /\ tx'[c].answer = "ok" /\ tx'[c].payload = got
      BY <1>1, <3>8, <3>9, AnsweredIs
    <3>11. HoldsSpace(c, w)
      BY <1>0 DEF HoldsSpace
    <3>12. LocksHold'
      BY <1>2, <3>1, <3>5, <3>10, <3>11, ChangeKeepsLocks
    <3>13. Follows(c)
      BY <1>0, <3>7, <3>8, <3>10 DEF Follows, Own
    <3>14. CodesAreOnce'
      BY <1>1, <3>1 DEF Tables, CodesAreOnce
    <3>15. Tables'
      BY <1>0, <1>1, <3>1, <3>5, <3>6, <3>14 DEF Tables
    <3>16. Server'
      BY <1>0, <3>10, <3>12, <3>15 DEF Server
    <3>17. QED BY <3>6, <3>10, <3>13, <3>16, SameFollows
  <2>3. QED BY <2>1, <2>2
<1>7. QED BY <1>5, <1>6

LEMMA RedeemCodeSound ==
  ASSUME Server, NEW c \in Calls, RedeemCode(c)
  PROVE  /\ Server' /\ (\A d \in Calls : Follows(d)) /\ audit' \in [Workspaces -> Seq(Entries)]
         /\ \A w \in Workspaces : Len(audit'[w]) >= Len(audit[w])
<1>1. tx \in [Calls -> Records] /\ tx[c] \in Records /\ Tables /\ LocksHold /\ audit \in [Workspaces -> Seq(Entries)]
      /\ CodesAreOnce /\ code \in [Users -> Codes] /\ issued \in Nat
  BY DEF Server, Tables
<1>0. tx[c].at = "coded" /\ UNCHANGED <<clock, cookie>> /\ tx[c].op.kind = "redeem" /\ Refusal(c) = "none"
      /\ tx[c].op.code \in 1 .. issued
  BY <1>1 DEF RedeemCode, LocksHold
<1>2. tx[c].op \in AllOps /\ tx[c].op.w \in Workspaces /\ tx[c].op.role \in Roles /\ tx[c].op.code \in Nat \ {0}
  BY <1>0, <1>1, CallTypes, OpKinds
<1> DEFINE w == tx[c].op.w
           new == [role |-> tx[c].op.role, status |-> "active"]
<1>3. PICK u \in Users :
        /\ code[u].id = tx[c].op.code
        /\ IF ~Admits(w, u) THEN Answer(c, "conflict") /\ UNCHANGED db
           ELSE /\ member' = [member EXCEPT ![w][u] = new]
                /\ code' = [code EXCEPT ![u].used = TRUE]
                /\ audit' = [audit EXCEPT ![w] = Append(@, [user |-> u, old |-> member[w][u], new |-> new])]
                /\ admitted' = admitted \cup {<<tx[c].op.code, w, u>>}
                /\ Answered(c, "ok", [NoPrev EXCEPT !.rev = Len(audit'[w])])
                /\ UNCHANGED issued
  BY DEF RedeemCode
<1>4. CASE ~Admits(w, u)
  <2>1. Answer(c, "conflict") /\ UNCHANGED db
    BY <1>3, <1>4
  <2>2. Server' /\ \A d \in Calls : Follows(d)
    BY <1>0, <2>1, Failing DEF AtRest
  <2>3. audit' = audit
    BY <2>1 DEF db
  <2>4. \A x \in Workspaces : Len(audit[x]) >= Len(audit[x])
    BY <1>1
  <2>5. QED BY <1>1, <2>2, <2>3, <2>4
<1>5. CASE Admits(w, u)
  <2>1. /\ member' = [member EXCEPT ![w][u] = new] /\ code' = [code EXCEPT ![u].used = TRUE]
        /\ audit' = [audit EXCEPT ![w] = Append(@, [user |-> u, old |-> member[w][u], new |-> new])]
        /\ admitted' = admitted \cup {<<tx[c].op.code, w, u>>}
        /\ Answered(c, "ok", [NoPrev EXCEPT !.rev = Len(audit'[w])])
        /\ UNCHANGED issued
    BY <1>3, <1>5
  <2>2. new \in Rows /\ new.role # "owner" /\ new.status = "active"
    BY <1>0, <1>2 DEF Rows, Refusal
  <2>3. member \in [Workspaces -> [Users -> Rows]] /\ AuditTellsMembers /\ OwnersStay /\ MembersWithinLimit
    BY <1>1 DEF Tables
  <2>4. u # Owner[w]
    BY <1>2, <1>5, <2>3 DEF Admits, OwnersStay, NoMember
  <2>5. MaxMembers \in Nat /\ Cardinality(Active(w)) < MaxMembers
    BY <1>5, MembersAssumption DEF Admits
  <2> HIDE DEF new
  <2>6. /\ member' \in [Workspaces -> [Users -> Rows]] /\ OwnersStay' /\ MembersWithinLimit'
        /\ \A x \in Workspaces \ {w} : member'[x] = member[x]
    BY <1>2, <2>1, <2>2, <2>3, <2>4, <2>5, RowChanges
  <2>7. /\ audit' \in [Workspaces -> Seq(Entries)] /\ AuditTellsMembers'
        /\ \A x \in Workspaces : Len(audit'[x]) >= Len(audit[x])
    BY <1>1, <1>2, <2>1, <2>2, <2>3, Recorded
  <2>8. Len(audit'[w]) \in Nat
    BY <1>2, <2>7
  <2> DEFINE got == [NoPrev EXCEPT !.rev = Len(audit'[w])]
  <2>9. got \in Views /\ got.rev = Len(audit'[w]) /\ Answered(c, "ok", got)
    BY <2>1, <2>8, ViewOfNothing
  <2> HIDE DEF got
  <2>10. /\ tx' \in [Calls -> Records]
         /\ \A d \in Calls : d # c => tx'[d] = tx[d]
         /\ tx'[c].at \in {"free", "answered"} /\ (tx'[c].at = "answered" => tx'[c].mine)
         /\ Own(tx'[c]) => /\ tx[c].mine /\ tx'[c].op = tx[c].op /\ tx'[c].tab = tx[c].tab
                           /\ tx'[c].answer = "ok" /\ tx'[c].payload = got
    BY <1>1, <2>9, AnsweredIs
  <2>11. /\ code' \in [Users -> Codes] /\ \A v \in Users \ {u} : code'[v] = code[v]
         /\ code'[u].id = code[u].id /\ code'[u].expires = code[u].expires /\ code'[u].used
    <3> DEFINE row == [code[u] EXCEPT !.used = TRUE]
    <3>1. code' = [code EXCEPT ![u] = row]
      BY <1>1, <2>1
    <3>2. row \in Codes /\ row.id = code[u].id /\ row.expires = code[u].expires /\ row.used
      BY <1>1 DEF Codes
    <3> HIDE DEF row
    <3>3. QED BY <1>1, <3>1, <3>2
  <2>12. CodesAreOnce'
    <3>1. \A v, x \in Users : code'[v].id = code'[x].id => v = x \/ code'[v].id = 0
      BY <1>1, <2>11 DEF CodesAreOnce
    <3>2. \A v \in Users : code'[v].id <= issued' /\ (code'[v].id = 0 => code'[v].expires = 0)
      BY <1>1, <2>1, <2>11 DEF CodesAreOnce
    <3>3. ASSUME NEW b \in admitted' PROVE b[1] \in 1 .. issued' /\ \A v \in Users : code'[v].id = b[1] => code'[v].used
      <4>1. CASE b \in admitted
        BY <1>1, <2>1, <2>11, <4>1 DEF CodesAreOnce
      <4>2. CASE b = <<tx[c].op.code, w, u>>
        <5>1. \A v \in Users : code'[v].id = tx[c].op.code => v = u
          BY <1>1, <1>2, <1>3, <2>11 DEF CodesAreOnce
        <5>2. QED BY <1>0, <1>1, <2>1, <2>11, <4>2, <5>1
      <4>3. QED BY <2>1, <4>1, <4>2
    <3>4. QED BY <3>1, <3>2, <3>3 DEF CodesAreOnce
  <2>13. HoldsSpace(c, w)
    BY <1>0 DEF HoldsSpace
  <2>14. \A d \in Calls \ {c} : tx[d].at = "coded" =>
            \A v \in Users : code'[v].id = tx[d].op.code => code'[v] = code[v]
    BY <1>0, <1>1, <1>3, <2>11 DEF LocksHold
  <2>15. LocksHold'
    BY <1>2, <2>1, <2>6, <2>10, <2>13, <2>14, ChangeKeepsLocks
  <2>16. Follows(c)
    BY <1>0, <2>8, <2>9, <2>10 DEF Follows, Own
  <2>17. Tables'
    BY <1>0, <1>1, <2>1, <2>6, <2>7, <2>11, <2>12 DEF Tables
  <2>18. Server'
    BY <1>0, <2>10, <2>15, <2>17 DEF Server
  <2>19. QED BY <2>7, <2>10, <2>16, <2>18, SameFollows
<1>6. QED BY <1>4, <1>5

LEMMA IssueCodeSound ==
  ASSUME Server, NEW c \in Calls, IssueCode(c) PROVE Server' /\ (\A d \in Calls : Follows(d)) /\ audit' = audit
<1>1. tx \in [Calls -> Records] /\ tx[c] \in Records /\ Tables /\ LocksHold /\ CodesAreOnce
      /\ code \in [Users -> Codes] /\ issued \in Nat /\ clock \in Nat
  BY DEF Server, Tables
<1> DEFINE u == tx[c].by
           row == [id |-> issued + 1, expires |-> tx[c].began + Lifetime, used |-> FALSE]
<1>2. /\ tx[c].at = "locked" /\ tx[c].op.kind = "issue" /\ \A d \in Calls : ~HoldsCode(d, u)
      /\ issued' = issued + 1 /\ code' = [code EXCEPT ![u] = row]
      /\ UNCHANGED <<member, audit, admitted, clock, cookie>>
  BY DEF IssueCode
<1>3. u \in Users /\ tx[c].began \in Nat /\ Lifetime \in Nat
  BY <1>1, <1>2, CallTypes, MembersAssumption DEF LocksHold
<1>4. row \in Codes /\ row.id = issued + 1
  BY <1>1, <1>3 DEF Codes
<1> DEFINE got == [NoPrev EXCEPT !.rev = issued + 1]
<1>5. got \in Views /\ NoPrev \in Views
  BY <1>1, ViewOfNothing
<1>6. Answered(c, "ok", got) \/ Answered(c, "unknown", NoPrev)
  BY DEF IssueCode, Answer
<1> HIDE DEF row, got
<1>7. /\ tx' \in [Calls -> Records]
      /\ \A d \in Calls : d # c => tx'[d] = tx[d]
      /\ tx'[c].at \in {"free", "answered"} /\ (tx'[c].at = "answered" => tx'[c].mine)
      /\ Own(tx'[c]) => tx[c].mine /\ tx'[c].op = tx[c].op /\ tx'[c].tab = tx[c].tab
  <2>1. CASE Answered(c, "ok", got)
    BY <1>1, <1>5, <2>1, AnsweredIs
  <2>2. CASE Answered(c, "unknown", NoPrev)
    BY <1>1, <1>5, <2>2, AnsweredIs
  <2>3. QED BY <1>6, <2>1, <2>2
<1>8. Follows(c)
  BY <1>2, <1>7 DEF Follows, Own
<1>9. code' \in [Users -> Codes] /\ code'[u] = row /\ \A v \in Users \ {u} : code'[v] = code[v]
  BY <1>1, <1>2, <1>3, <1>4
<1>10. \A v \in Users : code[v].id \in Nat /\ code[v].id <= issued
  BY <1>1 DEF CodesAreOnce, Codes
<1>11. CodesAreOnce'
  <2>1. \A v, x \in Users : code'[v].id = code'[x].id => v = x \/ code'[v].id = 0
    BY <1>1, <1>3, <1>4, <1>9, <1>10 DEF CodesAreOnce
  <2>2. \A v \in Users : code'[v].id <= issued' /\ (code'[v].id = 0 => code'[v].expires = 0)
    BY <1>1, <1>2, <1>4, <1>9, <1>10 DEF CodesAreOnce
  <2>3. ASSUME NEW b \in admitted' PROVE b[1] \in 1 .. issued' /\ \A v \in Users : code'[v].id = b[1] => code'[v].used
    <3>1. b \in admitted
      BY <1>2
    <3>2. b[1] \in 1 .. issued /\ \A v \in Users : code[v].id = b[1] => code[v].used
      BY <1>1, <3>1 DEF CodesAreOnce
    <3>3. ASSUME NEW v \in Users, code'[v].id = b[1] PROVE code'[v].used
      <4>1. v # u
        BY <1>1, <1>4, <1>9, <3>2, <3>3
      <4>2. QED BY <1>9, <3>2, <3>3, <4>1
    <3>4. b[1] \in 1 .. issued'
      BY <1>1, <1>2, <1>3, <1>4, <1>9, <3>2
    <3>5. QED BY <3>3, <3>4
  <2>4. QED BY <2>1, <2>2, <2>3 DEF CodesAreOnce
<1>12. Tables'
  <2>1. AuditTellsMembers' /\ MembersWithinLimit' /\ OwnersStay'
    <3>1. AuditTellsMembers'
      <4>1. member' = member /\ audit' = audit
        BY <1>2
      <4>2. AuditTellsMembers
        BY <1>1 DEF Tables
      <4>3. QED BY <4>1, <4>2 DEF AuditTellsMembers, Told
    <3>2. MembersWithinLimit'
      BY <1>1, <1>2 DEF Tables, MembersWithinLimit, Active
    <3>3. QED BY <1>1, <1>2, <3>1, <3>2 DEF Tables, OwnersStay
  <2>2. QED BY <1>1, <1>2, <1>9, <1>11, <2>1 DEF Tables
<1>13. LocksHold'
  <2>1. \A d \in Calls : tx'[d].at \in {"begun", "locked", "coded"} => d # c /\ tx'[d] = tx[d]
    BY <1>7
  <2>2. \A d \in Calls : Refusal(d)' = IF d = c THEN Refusal(d)' ELSE Refusal(d)
    BY <1>2, <1>7 DEF Refusal
  <2>3. ASSUME NEW d \in Calls, tx'[d].at = "coded"
        PROVE  /\ tx'[d].op.kind = "redeem" /\ Refusal(d)' = "none" /\ tx'[d].op.code \in 1 .. issued'
               /\ \A v \in Users : code'[v].id = tx'[d].op.code => ~code'[v].used
    <3>1. d # c /\ tx'[d] = tx[d] /\ tx[d].at = "coded"
      BY <2>1, <2>3
    <3>2. /\ tx[d].op.kind = "redeem" /\ Refusal(d) = "none" /\ tx[d].op.code \in 1 .. issued
          /\ \A v \in Users : code[v].id = tx[d].op.code => ~code[v].used
      BY <1>1, <3>1 DEF LocksHold
    <3>3. \A v \in Users : code'[v].id = tx[d].op.code => ~code'[v].used
      BY <1>1, <1>4, <1>9, <3>2
    <3>4. tx[d].op.code \in 1 .. issued'
      BY <1>1, <1>2, <3>2
    <3>5. QED BY <2>2, <3>1, <3>2, <3>3, <3>4
  <2>4. \A d \in Calls : tx'[d].at \in {"begun", "locked", "coded"} => tx'[d].by \in Users
    BY <1>1, <2>1 DEF LocksHold
  <2>5. \A d \in Calls : tx'[d].at = "locked" => tx'[d].op.kind # "list"
    BY <1>1, <2>1 DEF LocksHold
  <2>6. \A d, e \in Calls : d # e =>
          /\ \A x \in Workspaces : ~(HoldsSpace(d, x)' /\ HoldsSpace(e, x)')
          /\ ~(tx'[d].at = "coded" /\ tx'[e].at = "coded" /\ tx'[d].op.code = tx'[e].op.code)
    <3>1. \A d \in Calls, x \in Workspaces : HoldsSpace(d, x)' => HoldsSpace(d, x)
      BY <2>1 DEF HoldsSpace
    <3>2. QED BY <1>1, <2>1, <3>1 DEF LocksHold
  <2>7. QED BY <2>3, <2>4, <2>5, <2>6 DEF LocksHold
<1>14. QED BY <1>2, <1>7, <1>8, <1>12, <1>13, SameFollows DEF Server

(* A step of the database, for the tab.                                    *)
LEMMA DatabaseSound ==
  ASSUME Server, Client, NEW c \in Calls, Database(c)
  PROVE  Server' /\ Client'
<1>1. audit \in [Workspaces -> Seq(Entries)] /\ \A w \in Workspaces : Len(audit[w]) >= Len(audit[w])
  BY DEF Server, Tables
<1>2. Server' /\ (\A d \in Calls : Follows(d)) /\ audit' \in [Workspaces -> Seq(Entries)]
      /\ \A w \in Workspaces : Len(audit'[w]) >= Len(audit[w])
  <2>1. CASE Arrive(c)
    <3>1. audit' = audit BY <2>1 DEF Arrive, db
    <3>2. QED BY <1>1, <2>1, <3>1, ArriveSound
  <2>2. CASE LockWorkspace(c)
    <3>1. audit' = audit BY <2>2 DEF LockWorkspace, db
    <3>2. QED BY <1>1, <2>2, <3>1, LockWorkspaceSound
  <2>3. CASE UpdateMember(c)
    BY <2>3, UpdateMemberSound
  <2>4. CASE LockCode(c)
    <3>1. audit' = audit BY <2>4 DEF LockCode, db
    <3>2. QED BY <1>1, <2>4, <3>1, LockCodeSound
  <2>5. CASE RedeemCode(c)
    BY <2>5, RedeemCodeSound
  <2>6. CASE LockUser(c)
    <3>1. audit' = audit BY <2>6 DEF LockUser, db
    <3>2. QED BY <1>1, <2>6, <3>1, LockUserSound
  <2>7. CASE IssueCode(c)
    BY <1>1, <2>7, IssueCodeSound
  <2>8. CASE BreakDeadlock(c)
    <3>1. audit' = audit BY <2>8 DEF BreakDeadlock, db
    <3>2. QED BY <1>1, <2>8, <3>1, BreakDeadlockSound
  <2>9. CASE ListMembers(c)
    <3>1. audit' = audit BY <2>9 DEF ListMembers, db
    <3>2. QED BY <1>1, <2>9, <3>1, ListMembersSound
  <2>10. QED BY <2>1, <2>2, <2>3, <2>4, <2>5, <2>6, <2>7, <2>8, <2>9 DEF Database
<1>3. UNCHANGED <<tab, steps>>
  BY DEF Database, Arrive, LockWorkspace, UpdateMember, LockCode, RedeemCode, LockUser, IssueCode, BreakDeadlock, ListMembers
<1>4. steps' \in Nat /\ steps' >= steps
  BY <1>3 DEF Client
<1>5. tx' \in [Calls -> Records]
  BY <1>2 DEF Server
<1>6. QED BY <1>1, <1>2, <1>3, <1>4, <1>5, ClientStays

-----------------------------------------------------------------------------
(* The calls of the tab.                                                   *)
Fresh(calls, log, n) ==
  /\ \A c \in Calls : calls[c].at = "answered" => calls[c].mine
  /\ \A c \in Calls : Change(calls[c]) =>
       /\ calls[c].tab.id \in 1 .. n
       /\ Brings(calls[c]) => calls[c].payload.rev <= Len(log[calls[c].op.w])
  /\ \A c, d \in Calls : Change(calls[c]) /\ Change(calls[d]) /\ calls[c].tab.id = calls[d].tab.id => c = d
Awaits(calls, t) ==
  \A c \in Calls : Awaited(calls[c], t) =>
    /\ calls[c].op.w = t.pending.w /\ ~t.pending.settled
    /\ calls[c].tab.live => /\ t.pending.reconciled
                            /\ t.sel = t.pending.w => calls[c].tab.prev.rev >= t.saved
Lists(calls, t) ==
  \A c \in Calls : Listing(calls[c]) =>
    /\ t.pending.id # 0 => t.pending.reconciled
    /\ t.saved # 0 => /\ calls[c].op.w = t.sel
                      /\ Brings(calls[c]) => calls[c].payload.rev >= t.saved

LEMMA CallsKnowParts ==
  ASSUME NEW calls, NEW t, NEW log, NEW n
  PROVE  CallsKnow(calls, t, log, n) <=> Fresh(calls, log, n) /\ Awaits(calls, t) /\ Lists(calls, t)
BY DEF CallsKnow, Fresh, Awaits, Lists

(* What a step of the tab makes of the calls: each is left, or dropped, or *)
(* outdated.                                                               *)
Weaker(q, r) ==
  /\ q.at = "answered" => r.at = "answered" /\ (q.mine = r.mine)
  /\ Own(q) => /\ Own(r) /\ q.at = r.at /\ q.op = r.op /\ q.answer = r.answer /\ q.payload = r.payload
               /\ q.tab.id = r.tab.id /\ q.tab.prev = r.tab.prev /\ (q.tab.live => r.tab.live)
Near(calls) ==
  /\ calls \in [Calls -> Records]
  /\ \A c \in Calls : \/ calls[c].at = tx[c].at /\ calls[c].op = tx[c].op /\ calls[c].by = tx[c].by
                      \/ calls[c].at \in {"free", "sent"}

LEMMA WeakerKnows ==
  ASSUME NEW calls, NEW more, NEW log, NEW n, \A c \in Calls : Weaker(more[c], calls[c])
  PROVE  /\ Fresh(calls, log, n) => Fresh(more, log, n)
         /\ \A t : Awaits(calls, t) => Awaits(more, t)
         /\ \A t : Lists(calls, t) => Lists(more, t)
<1>1. \A c \in Calls : Change(more[c]) =>
        /\ Change(calls[c]) /\ more[c].op = calls[c].op /\ more[c].payload = calls[c].payload
        /\ Brings(more[c]) = Brings(calls[c])
        /\ more[c].tab.id = calls[c].tab.id /\ more[c].tab.prev = calls[c].tab.prev
        /\ (more[c].tab.live => calls[c].tab.live)
  BY DEF Weaker, Change, Brings
<1>2. \A c \in Calls : Listing(more[c]) =>
        /\ Listing(calls[c]) /\ more[c].op = calls[c].op /\ more[c].payload = calls[c].payload
        /\ Brings(more[c]) = Brings(calls[c])
  BY DEF Weaker, Listing, Brings
<1>3. ASSUME Fresh(calls, log, n) PROVE Fresh(more, log, n)
  <2>1. \A c \in Calls : more[c].at = "answered" => more[c].mine
    BY <1>3 DEF Fresh, Weaker
  <2>2. \A c \in Calls : Change(more[c]) =>
          /\ more[c].tab.id \in 1 .. n /\ (Brings(more[c]) => more[c].payload.rev <= Len(log[more[c].op.w]))
    BY <1>1, <1>3 DEF Fresh
  <2>3. \A c, d \in Calls : Change(more[c]) /\ Change(more[d]) /\ more[c].tab.id = more[d].tab.id => c = d
    BY <1>1, <1>3 DEF Fresh
  <2>4. QED BY <2>1, <2>2, <2>3 DEF Fresh
<1>4. ASSUME NEW t, Awaits(calls, t) PROVE Awaits(more, t)
  <2>1. \A c \in Calls : Awaited(more[c], t) => Awaited(calls[c], t)
    BY <1>1 DEF Awaited
  <2>2. QED BY <1>1, <1>4, <2>1 DEF Awaits, Awaited
<1>5. ASSUME NEW t, Lists(calls, t) PROVE Lists(more, t)
  BY <1>2, <1>5 DEF Lists
<1>6. QED BY <1>3, <1>4, <1>5

LEMMA OutdatedIs ==
  ASSUME NEW calls, Near(calls), NEW kinds
  PROVE  /\ Near(Outdated(calls, kinds))
         /\ \A c \in Calls : /\ Weaker(Outdated(calls, kinds)[c], calls[c])
                             /\ Own(Outdated(calls, kinds)[c]) /\ calls[c].op.kind \in kinds => ~Outdated(calls, kinds)[c].tab.live
         /\ \A c \in Calls : /\ Outdated(calls, kinds)[c].at = calls[c].at /\ Outdated(calls, kinds)[c].op = calls[c].op
<1> DEFINE more == Outdated(calls, kinds)
<1>1. ASSUME NEW c \in Calls
      PROVE  /\ more[c] \in Records /\ Weaker(more[c], calls[c])
             /\ more[c].at = calls[c].at /\ more[c].op = calls[c].op /\ more[c].by = calls[c].by
             /\ Own(more[c]) /\ calls[c].op.kind \in kinds => ~more[c].tab.live
  <2>0. calls[c] \in Records
    BY DEF Near
  <2>1. CASE calls[c].mine /\ calls[c].op.kind \in kinds
    <3> DEFINE q == [calls[c] EXCEPT !.tab.live = FALSE]
    <3>1. more[c] = q
      BY <2>1 DEF Outdated
    <3>2. q \in Records /\ q.at = calls[c].at /\ q.op = calls[c].op /\ q.by = calls[c].by /\ q.mine = calls[c].mine
          /\ q.answer = calls[c].answer /\ q.payload = calls[c].payload
          /\ q.tab.id = calls[c].tab.id /\ q.tab.prev = calls[c].tab.prev /\ q.tab.live = FALSE
      BY <2>0 DEF Records
    <3> HIDE DEF q, more
    <3>3. QED BY <3>1, <3>2 DEF Weaker, Own
  <2>2. CASE ~(calls[c].mine /\ calls[c].op.kind \in kinds)
    <3>1. more[c] = calls[c]
      BY <2>2 DEF Outdated
    <3> HIDE DEF more
    <3>2. QED BY <2>0, <2>2, <3>1 DEF Weaker, Own
  <2>3. QED BY <2>1, <2>2
<1>2. more = [c \in Calls |-> more[c]]
  BY DEF Outdated
<1> HIDE DEF more
<1>3. more \in [Calls -> Records]
  BY <1>1, <1>2
<1>4. Near(more)
  BY <1>1, <1>3 DEF Near
<1>5. QED BY <1>1, <1>4 DEF more

LEMMA SentIs ==
  ASSUME NEW calls, Near(calls), NEW op \in AllOps, NEW keeps \in [id : Nat, live : BOOLEAN, prev : Views, heals : Nat],
         NEW more \in Sent(calls, op, keeps)
  PROVE  /\ Near(more)
         /\ \E c \in Calls : /\ \A d \in Calls \ {c} : more[d] = calls[d]
                             /\ more[c].at = "sent" /\ more[c].op = op /\ more[c].mine /\ more[c].tab = keeps
<1>1. PICK c \in Calls : calls[c].at = "free" /\ more = [calls EXCEPT ![c] = [FreeCall EXCEPT !.at = "sent", !.op = op, !.mine = TRUE, !.tab = keeps]]
  BY DEF Sent
<1> DEFINE q == [FreeCall EXCEPT !.at = "sent", !.op = op, !.mine = TRUE, !.tab = keeps]
<1>2. q \in Records /\ q.at = "sent" /\ q.op = op /\ q.mine /\ q.tab = keeps
  <2>1. FreeCall \in Records
    BY FreeIsFree
  <2>2. QED BY <2>1 DEF Records, AllOps
<1>3. more = [calls EXCEPT ![c] = q] /\ calls \in [Calls -> Records]
  BY <1>1 DEF Near
<1> HIDE DEF q
<1>4. more \in [Calls -> Records] /\ more[c] = q /\ \A d \in Calls \ {c} : more[d] = calls[d]
  BY <1>2, <1>3
<1>5. QED BY <1>2, <1>4 DEF Near

-----------------------------------------------------------------------------
(* The tab and its calls together.                                         *)
Well(t, n) == t \in Tabs /\ TabKnows(t, audit, n) /\ ForAsker(t)
Good(calls, t, n) == Near(calls) /\ Fresh(calls, audit, n) /\ Awaits(calls, t) /\ Lists(calls, t) /\ Well(t, n)

LEMMA TabStepSound ==
  ASSUME Server, Good(tx', tab', steps'), Listed(tab'), UNCHANGED db, clock' \in Nat, cookie' \in Persons, steps' \in Nat
  PROVE  Server' /\ Client'
<1>1. Near(tx') /\ tx' \in [Calls -> Records]
  BY DEF Good, Near
<1>2. \A c \in Calls : SameCall(c) \/ Unlocked(c)
  BY <1>1 DEF Near, SameCall, Unlocked
<1>3. Server'
  BY <1>1, <1>2, ServerRests
<1>4. audit' = audit
  BY DEF db
<1>5. CallsKnow(tx', tab', audit', steps') /\ TabKnows(tab', audit', steps') /\ ForAsker(tab') /\ tab' \in Tabs
  BY <1>4, CallsKnowParts DEF Good, Well
<1>6. QED BY <1>1, <1>3, <1>5 DEF Client

LEMMA Start ==
  ASSUME Server, Client
  PROVE  Good(tx, tab, steps) /\ Good(tx, tab, steps + 1) /\ Listed(tab) /\ steps \in Nat /\ steps + 1 \in Nat
<1>1. Near(tx) /\ tab \in Tabs /\ steps \in Nat
  BY DEF Near, Client
<1>2. Fresh(tx, audit, steps) /\ Awaits(tx, tab) /\ Lists(tx, tab) /\ TabKnows(tab, audit, steps) /\ ForAsker(tab) /\ Listed(tab)
  BY CallsKnowParts DEF Client
<1>3. \A i \in 1 .. steps : i \in 1 .. steps + 1
  BY <1>1
<1>4. Fresh(tx, audit, steps + 1)
  BY <1>2, <1>3 DEF Fresh
<1>5. TabKnows(tab, audit, steps + 1)
  <2>1. tab.pending.id \in Nat
    BY <1>1 DEF Tabs, Pendings
  <2>2. tab.pending.id <= steps => tab.pending.id <= steps + 1
    BY <1>1, <2>1
  <2>3. QED BY <1>2, <2>2 DEF TabKnows
<1>6. QED BY <1>1, <1>2, <1>4, <1>5 DEF Good, Well

LEMMA TabTypes ==
  ASSUME NEW t \in Tabs
  PROVE  /\ t.me \in Persons /\ t.spaces \in SUBSET Workspaces /\ t.sel \in Places /\ t.panel \in Panels /\ t.pending \in Pendings
         /\ t.issuing \in Issuings /\ t.shown \in [code : Nat, expires : Nat, for : Persons] /\ t.hidden \in BOOLEAN
         /\ t.load \in {"none", "asked", "answered"} /\ t.found \in Sessions /\ t.saved \in Nat
         /\ t.panel.w \in Places /\ t.panel.rev \in Nat /\ t.panel.role \in Standings /\ t.panel.list \in [Users -> Standings]
         /\ t.pending.id \in Nat /\ t.pending.w \in Places /\ t.pending.settled \in BOOLEAN
         /\ t.pending.reconciled \in BOOLEAN /\ t.pending.healing \in BOOLEAN
         /\ t.issuing.id \in Nat /\ t.issuing.code \in Nat /\ t.issuing.expires \in Nat
<1>1. /\ t.me \in Persons /\ t.spaces \in SUBSET Workspaces /\ t.sel \in Places /\ t.panel \in Panels /\ t.pending \in Pendings
      /\ t.issuing \in Issuings /\ t.shown \in [code : Nat, expires : Nat, for : Persons] /\ t.hidden \in BOOLEAN
      /\ t.load \in {"none", "asked", "answered"} /\ t.found \in Sessions /\ t.saved \in Nat
  BY DEF Tabs
<1>2. QED BY <1>1 DEF Panels, Pendings, Issuings

LEMMA Nothings ==
  /\ NoList \in [Users -> Standings] /\ NoPending \in Pendings /\ NoIssuing \in Issuings
  /\ NoShown \in [code : Nat, expires : Nat, for : Persons] /\ NoSession \in Sessions
  /\ NoPending.id = 0 /\ NoIssuing.id = 0 /\ NoShown.code = 0
  /\ \A w \in Places : NoPanel(w) \in Panels /\ NoPanel(w).status = "idle" /\ NoPanel(w).w = w
<1>1. NoList \in [Users -> Standings]
  BY DEF NoList, Standings
<1>2. \A w \in Places : NoPanel(w) \in Panels /\ NoPanel(w).status = "idle" /\ NoPanel(w).w = w
  BY <1>1 DEF NoPanel, Panels, Standings
<1>3. NoPending \in Pendings /\ NoPending.id = 0
  BY DEF NoPending, Pendings, Places
<1>4. NoIssuing \in Issuings /\ NoIssuing.id = 0
  BY DEF NoIssuing, Issuings
<1>5. NoShown \in [code : Nat, expires : Nat, for : Persons] /\ NoShown.code = 0
  BY DEF NoShown, Persons
<1>6. NoSession \in Sessions
  BY DEF NoSession, Sessions, Persons
<1>7. QED BY <1>1, <1>2, <1>3, <1>4, <1>5, <1>6

(* Of the tab, the calls see its mutation, its selection and what was      *)
(* saved.                                                                  *)
LEMMA SameCalls ==
  ASSUME NEW calls, NEW t, NEW t2, t2.pending = t.pending, t2.sel = t.sel, t2.saved = t.saved
  PROVE  (Awaits(calls, t) => Awaits(calls, t2)) /\ (Lists(calls, t) => Lists(calls, t2))
BY DEF Awaits, Lists, Awaited

LEMMA SameKept ==
  ASSUME NEW calls, NEW t, NEW n, Good(calls, t, n), NEW t2 \in Tabs,
         t2.me = t.me, t2.spaces = t.spaces, t2.sel = t.sel, t2.pending = t.pending, t2.hidden = t.hidden, t2.saved = t.saved,
         t2.panel = t.panel \/ t2.panel.status # "loaded",
         t2.issuing.id = t.issuing.id \/ t.me # None,
         t2.shown = t.shown \/ t2.shown.code = 0 \/ (t.me # None /\ t2.shown.for = t.me)
  PROVE  Good(calls, t2, n)
<1>1. TabKnows(t, audit, n) /\ ForAsker(t)
  BY DEF Good, Well
<1>2. TabKnows(t2, audit, n)
  BY <1>1 DEF TabKnows
<1>3. ForAsker(t2)
  BY <1>1 DEF ForAsker
<1>4. QED BY <1>2, <1>3, SameCalls DEF Good, Well

(* The tab forgets its mutation.                                           *)
LEMMA ForgottenKept ==
  ASSUME NEW calls, NEW t, NEW n, Good(calls, t, n), NEW t2 \in Tabs,
         t2.me = t.me, t2.spaces = t.spaces, t2.sel = t.sel, t2.pending = NoPending, t2.saved = t.saved,
         t2.issuing = t.issuing, t2.shown = t.shown
  PROVE  Good(calls, t2, n)
<1>0. NoPending.id = 0
  BY Nothings
<1>1. TabKnows(t2, audit, n) /\ ForAsker(t2)
  BY <1>0 DEF Good, Well, TabKnows, ForAsker
<1>2. Awaits(calls, t2)
  <2>1. ASSUME NEW c \in Calls, Awaited(calls[c], t2) PROVE FALSE
    <3>1. calls[c].tab.id \in 1 .. n /\ calls[c].tab.id = 0
      BY <1>0, <2>1 DEF Good, Fresh, Awaited
    <3>2. QED BY <3>1
  <2>2. QED BY <2>1 DEF Awaits
<1>3. Lists(calls, t2)
  BY <1>0 DEF Good, Lists
<1>4. QED BY <1>1, <1>2, <1>3 DEF Good, Well

LEMMA HealedKept ==
  ASSUME NEW calls, NEW t, NEW n, Good(calls, t, n), NEW c
  PROVE  /\ Good(calls, Healed(t, c), n) /\ Healed(t, c).panel = t.panel /\ Healed(t, c).saved = t.saved
         /\ Healed(t, c).sel = t.sel /\ Healed(t, c).pending.id = t.pending.id /\ Healed(t, c).pending.w = t.pending.w
         /\ Healed(t, c).pending.reconciled = t.pending.reconciled
<1>1. t \in Tabs /\ TabKnows(t, audit, n) /\ ForAsker(t)
  BY DEF Good, Well
<1>2. CASE Healed(t, c) = t
  BY <1>2
<1>3. CASE Healed(t, c) # t
  <2> DEFINE p == [t.pending EXCEPT !.healing = FALSE]
             t2 == [t EXCEPT !.pending = p]
  <2>1. Healed(t, c) = t2
    BY <1>1, <1>3 DEF Healed, Tabs
  <2>2. p \in Pendings /\ p.id = t.pending.id /\ p.w = t.pending.w /\ p.settled = t.pending.settled
        /\ p.reconciled = t.pending.reconciled /\ p.healing = FALSE
    BY <1>1, TabTypes DEF Pendings
  <2> HIDE DEF p
  <2>3. t2 \in Tabs /\ t2.me = t.me /\ t2.spaces = t.spaces /\ t2.sel = t.sel /\ t2.panel = t.panel /\ t2.pending = p
        /\ t2.issuing = t.issuing /\ t2.shown = t.shown /\ t2.hidden = t.hidden /\ t2.saved = t.saved
    BY <1>1, <2>2 DEF Tabs
  <2> HIDE DEF t2
  <2>4. TabKnows(t2, audit, n) /\ ForAsker(t2)
    BY <1>1, <2>2, <2>3 DEF TabKnows, ForAsker
  <2>5. Awaits(calls, t2) /\ Lists(calls, t2)
    BY <2>2, <2>3 DEF Good, Awaits, Lists, Awaited
  <2>6. QED BY <2>1, <2>2, <2>3, <2>4, <2>5 DEF Good, Well
<1>4. QED BY <1>2, <1>3

LEMMA DrawnKept ==
  ASSUME NEW t \in Tabs
  PROVE  /\ Drawn(t) \in Tabs /\ (Listed(t) => Listed(Drawn(t)))
         /\ \A calls, n : Good(calls, t, n) => Good(calls, Drawn(t), n)
         /\ Drawn(t).panel = t.panel \/ Drawn(t).panel.status = "idle"
         /\ t.me # None /\ t.panel.w = t.sel => Drawn(t) = t
         /\ t.panel.w # t.sel => Listed(Drawn(t))
         /\ Drawn(t).me = t.me /\ Drawn(t).spaces = t.spaces /\ Drawn(t).sel = t.sel /\ Drawn(t).pending = t.pending
         /\ Drawn(t).issuing = t.issuing /\ Drawn(t).shown = t.shown /\ Drawn(t).hidden = t.hidden /\ Drawn(t).saved = t.saved
<1>1. CASE t.me # None /\ t.panel.w = t.sel
  BY <1>1 DEF Drawn
<1>2. CASE ~(t.me # None /\ t.panel.w = t.sel)
  <2> DEFINE t2 == [t EXCEPT !.panel = NoPanel(t.sel)]
  <2>1. Drawn(t) = t2
    BY <1>2 DEF Drawn
  <2>2. NoPanel(t.sel) \in Panels /\ NoPanel(t.sel).status = "idle"
    BY TabTypes, Nothings
  <2>3. t2 \in Tabs /\ t2.me = t.me /\ t2.spaces = t.spaces /\ t2.sel = t.sel /\ t2.panel = NoPanel(t.sel) /\ t2.pending = t.pending
        /\ t2.issuing = t.issuing /\ t2.shown = t.shown /\ t2.hidden = t.hidden /\ t2.saved = t.saved
    BY <2>2 DEF Tabs
  <2> HIDE DEF t2
  <2>4. Listed(t2)
    BY <2>2, <2>3 DEF Listed
  <2>5. \A calls, n : Good(calls, t, n) => Good(calls, t2, n)
    BY <2>2, <2>3, SameKept
  <2>6. QED BY <1>2, <2>1, <2>2, <2>3, <2>4, <2>5
<1>3. QED BY <1>1, <1>2

LEMMA AskingKept ==
  ASSUME NEW t \in Tabs
  PROVE  /\ \A calls, n : Good(calls, t, n) => Good(calls, Asking(t), n)
         /\ Listed(t) => Listed(Asking(t))
<1> DEFINE t2 == [t EXCEPT !.load = "asked", !.found = NoSession]
<1>1. Asking(t) = t2 /\ NoSession \in Sessions
  BY Nothings DEF Asking
<1>2. t2 \in Tabs /\ t2.me = t.me /\ t2.spaces = t.spaces /\ t2.sel = t.sel /\ t2.panel = t.panel /\ t2.pending = t.pending
      /\ t2.issuing = t.issuing /\ t2.shown = t.shown /\ t2.hidden = t.hidden /\ t2.saved = t.saved
  BY <1>1 DEF Tabs
<1> HIDE DEF t2
<1>3. \A calls, n : Good(calls, t, n) => Good(calls, t2, n)
  BY <1>2, SameKept
<1>4. QED BY <1>1, <1>2, <1>3 DEF Listed

LEMMA FinalizedKept ==
  ASSUME NEW calls, NEW t, NEW n, Good(calls, t, n)
  PROVE  /\ Good(calls, Finalized(t), n) /\ (Listed(t) => Listed(Finalized(t)))
         /\ Finalized(t).pending = t.pending
<1>1. t \in Tabs /\ TabKnows(t, audit, n)
  BY DEF Good, Well
<1>2. CASE t.issuing.id = 0 \/ ~t.issuing.reconciled
  BY <1>2 DEF Finalized
<1>3. CASE ~(t.issuing.id = 0 \/ ~t.issuing.reconciled)
  <2> DEFINE shown == IF t.issuing.code = 0 THEN NoShown ELSE [code |-> t.issuing.code, expires |-> t.issuing.expires, for |-> t.me]
             t2 == [t EXCEPT !.issuing = NoIssuing, !.shown = shown]
  <2>1. Finalized(t) = t2
    BY <1>3 DEF Finalized
  <2>2. shown \in [code : Nat, expires : Nat, for : Persons] /\ (shown.code = 0 \/ shown.for = t.me) /\ NoIssuing \in Issuings
    BY <1>1, TabTypes, Nothings
  <2>3. t.me # None
    BY <1>1, <1>3 DEF TabKnows
  <2> HIDE DEF shown
  <2>4. t2 \in Tabs /\ t2.me = t.me /\ t2.spaces = t.spaces /\ t2.sel = t.sel /\ t2.panel = t.panel /\ t2.pending = t.pending
        /\ t2.shown = shown /\ t2.hidden = t.hidden /\ t2.saved = t.saved
    BY <1>1, <2>2 DEF Tabs
  <2> HIDE DEF t2
  <2>5. Good(calls, t2, n)
    BY <2>2, <2>3, <2>4, SameKept
  <2>6. QED BY <2>1, <2>4, <2>5 DEF Listed
<1>4. QED BY <1>2, <1>3

LEMMA OutdatedKept ==
  ASSUME NEW calls, Near(calls), NEW kinds
  PROVE  /\ \A t, n : Good(calls, t, n) => Good(Outdated(calls, kinds), t, n)
         /\ "list" \in kinds => \A t : Lists(Outdated(calls, kinds), t)
<1>1. /\ Near(Outdated(calls, kinds))
      /\ \A c \in Calls : /\ Weaker(Outdated(calls, kinds)[c], calls[c])
                          /\ Own(Outdated(calls, kinds)[c]) /\ calls[c].op.kind \in kinds => ~Outdated(calls, kinds)[c].tab.live
      /\ \A c \in Calls : Outdated(calls, kinds)[c].at = calls[c].at /\ Outdated(calls, kinds)[c].op = calls[c].op
  BY OutdatedIs
<1>2. ASSUME NEW t, NEW n, Good(calls, t, n) PROVE Good(Outdated(calls, kinds), t, n)
  BY <1>1, <1>2, WeakerKnows DEF Good
<1>3. ASSUME "list" \in kinds, NEW t PROVE Lists(Outdated(calls, kinds), t)
  BY <1>1, <1>3 DEF Lists, Listing
<1>4. QED BY <1>2, <1>3

(* A list is asked for.                                                    *)
LEMMA LoadMembersKept ==
  ASSUME NEW calls, NEW t, NEW w \in Workspaces, NEW heals \in Nat, NEW n, Near(calls), LoadMembers(t, calls, w, heals),
         Good(Outdated(calls, {"list"}), t, n),
         t.me = None \/ t.sel # w => Good(calls, t, n) /\ Listed(Drawn(t)),
         t.pending.id # 0 => t.pending.reconciled
  PROVE  Good(tx', tab', n) /\ Listed(tab')
<1>0. t \in Tabs
  BY DEF Good, Well
<1>1. CASE t.me = None \/ t.sel # w
  <2>1. tab' = Drawn(t) /\ tx' = calls
    BY <1>1 DEF LoadMembers
  <2>2. QED BY <1>0, <1>1, <2>1, DrawnKept
<1>2. CASE ~(t.me = None \/ t.sel # w)
  <2> DEFINE more == Outdated(calls, {"list"})
             keeps == [NoTab EXCEPT !.live = TRUE, !.heals = heals]
             panel == [w |-> w, status |-> "loading", role |-> IF t.panel.w = w THEN t.panel.role ELSE "none",
                       list |-> IF t.panel.w = w THEN t.panel.list ELSE NoList, rev |-> t.panel.rev]
             t2 == [t EXCEPT !.panel = panel]
  <2>1. tab' = t2 /\ tx' \in Sent(more, List(w), keeps)
    BY <1>2 DEF LoadMembers
  <2>2. panel \in Panels /\ panel.status = "loading"
    <3>1. t.panel \in Panels /\ t.panel.role \in Standings /\ t.panel.list \in [Users -> Standings]
      BY <1>0, TabTypes
    <3>2. NoList \in [Users -> Standings] /\ "none" \in Standings /\ w \in Places
      BY Nothings DEF Standings, Places
    <3>3. QED BY <3>1, <3>2 DEF Panels
  <2> HIDE DEF panel
  <2>3. t2 \in Tabs /\ t2.me = t.me /\ t2.spaces = t.spaces /\ t2.sel = t.sel /\ t2.panel = panel /\ t2.pending = t.pending
        /\ t2.issuing = t.issuing /\ t2.shown = t.shown /\ t2.hidden = t.hidden /\ t2.saved = t.saved
    BY <1>0, <2>2 DEF Tabs
  <2> HIDE DEF t2
  <2>4. Good(more, t2, n)
    BY <2>2, <2>3, SameKept
  <2>5. keeps \in [id : Nat, live : BOOLEAN, prev : Views, heals : Nat] /\ List(w) \in AllOps /\ List(w).kind = "list" /\ List(w).w = w
    BY ViewOfNothing DEF NoTab, AllOps, List
  <2> HIDE DEF keeps
  <2>6. Near(more)
    BY OutdatedIs
  <2> HIDE DEF more
  <2>7. Near(tx') /\ \E c \in Calls : /\ \A d \in Calls \ {c} : tx'[d] = more[d]
                                      /\ tx'[c].at = "sent" /\ tx'[c].op = List(w) /\ tx'[c].mine /\ tx'[c].tab = keeps
    BY <2>1, <2>5, <2>6, SentIs
  <2>8. PICK c \in Calls : /\ \A d \in Calls \ {c} : tx'[d] = more[d]
                           /\ tx'[c].at = "sent" /\ tx'[c].op = List(w) /\ tx'[c].mine /\ tx'[c].tab = keeps
    BY <2>7
  <2>9. ~Change(tx'[c]) /\ ~Brings(tx'[c])
    BY <2>5, <2>8 DEF Change, Brings
  <2>10. Fresh(tx', audit, n)
    <3>1. Fresh(more, audit, n)
      BY <2>4 DEF Good
    <3>2. \A d \in Calls : tx'[d].at = "answered" => tx'[d].mine
      BY <2>8, <3>1 DEF Fresh
    <3>3. \A d \in Calls : Change(tx'[d]) => d # c /\ tx'[d] = more[d]
      BY <2>8, <2>9
    <3>4. QED BY <3>1, <3>2, <3>3 DEF Fresh
  <2>11. Awaits(tx', t2)
    <3>1. \A d \in Calls : Awaited(tx'[d], t2) => d # c /\ tx'[d] = more[d]
      BY <2>8, <2>9 DEF Awaited
    <3>2. QED BY <2>4, <3>1 DEF Good, Awaits
  <2>12. Lists(tx', t2)
    <3>1. ASSUME NEW d \in Calls, Listing(tx'[d])
          PROVE  /\ t2.pending.id # 0 => t2.pending.reconciled
                 /\ t2.saved # 0 => /\ tx'[d].op.w = t2.sel
                                    /\ Brings(tx'[d]) => tx'[d].payload.rev >= t2.saved
      <4>1. CASE d = c
        BY <1>2, <2>3, <2>5, <2>8, <2>9, <4>1
      <4>2. CASE d # c
        BY <2>4, <2>8, <3>1, <4>2 DEF Good, Lists
      <4>3. QED BY <4>1, <4>2
    <3>2. QED BY <3>1 DEF Lists
  <2>13. Listed(t2)
    BY <2>2, <2>3 DEF Listed
  <2>14. QED BY <2>1, <2>4, <2>7, <2>10, <2>11, <2>12, <2>13 DEF Good
<1>3. QED BY <1>1, <1>2

(* A change whose answer the tab has, or has given up, is looked up again. *)
LEMMA ReconcileKept ==
  ASSUME NEW calls, NEW t, NEW n, Near(calls), Reconcile(t, calls), t.pending.settled,
         Good(Outdated(calls, {"list"}), t, n),
         ~Reconcilable(t) => Good(calls, t, n) /\ Listed(Drawn(t))
  PROVE  Good(tx', tab', n) /\ Listed(tab')
<1>0. t \in Tabs /\ TabKnows(t, audit, n) /\ ForAsker(t)
  BY DEF Good, Well
<1>1. CASE ~Reconcilable(t)
  <2>1. tab' = Drawn(t) /\ tx' = calls
    BY <1>1 DEF Reconcile
  <2>2. QED BY <1>0, <1>1, <2>1, DrawnKept
<1>2. CASE Reconcilable(t)
  <2> DEFINE more == Outdated(calls, {"list"})
             p == [t.pending EXCEPT !.healing = TRUE]
             t2 == [t EXCEPT !.pending = p, !.sel = t.pending.w]
             w == t.pending.w
  <2>1. LoadMembers(Drawn(t2), calls, w, t.pending.id)
    BY <1>0, <1>2 DEF Reconcile, Tabs
  <2>2. p \in Pendings /\ p.id = t.pending.id /\ p.w = w /\ p.settled /\ p.reconciled /\ p.healing
    BY <1>0, <1>2, TabTypes DEF Pendings, Reconcilable
  <2>3. w \in Workspaces /\ w \in t.spaces /\ w \in Places /\ t.pending.id \in Nat /\ t.pending.id # 0 /\ t.me # None
    BY <1>0, <1>2, TabTypes DEF Reconcilable, Places
  <2> HIDE DEF p
  <2>4. t2 \in Tabs /\ t2.me = t.me /\ t2.spaces = t.spaces /\ t2.sel = w /\ t2.panel = t.panel /\ t2.pending = p
        /\ t2.issuing = t.issuing /\ t2.shown = t.shown /\ t2.hidden = t.hidden /\ t2.saved = t.saved
    BY <1>0, <2>2, <2>3 DEF Tabs
  <2> HIDE DEF t2
  <2>5. TabKnows(t2, audit, n) /\ ForAsker(t2)
    <3>1. t.saved # 0 => t.sel = w
      BY <1>0, <2>3 DEF TabKnows
    <3>2. QED BY <1>0, <2>2, <2>3, <2>4, <3>1 DEF TabKnows, ForAsker
  <2>6. Awaits(more, t2)
    <3>1. \A c \in Calls : ~Awaited(more[c], t)
      BY DEF Good, Awaits
    <3>2. \A c \in Calls : Awaited(more[c], t2) => Awaited(more[c], t)
      BY <2>2, <2>4 DEF Awaited
    <3>3. QED BY <3>1, <3>2 DEF Awaits
  <2>7. Lists(more, t2)
    BY OutdatedKept
  <2>8. Good(more, t2, n)
    BY <2>4, <2>5, <2>6, <2>7 DEF Good, Well
  <2> HIDE DEF more
  <2>9. Good(more, Drawn(t2), n) /\ Drawn(t2).me # None /\ Drawn(t2).sel = w /\ Drawn(t2).pending = p
    BY <2>3, <2>4, <2>8, DrawnKept
  <2> DEFINE t3 == Drawn(t2)
  <2> HIDE DEF t3
  <2>10. LoadMembers(t3, calls, w, t.pending.id) /\ Good(Outdated(calls, {"list"}), t3, n) /\ t3.me # None /\ t3.sel = w /\ t3.pending.reconciled
    BY <2>1, <2>2, <2>9 DEF t3, more
  <2>11. QED BY <2>3, <2>10, LoadMembersKept
<1>3. QED BY <1>1, <1>2

-----------------------------------------------------------------------------
(* The steps of the tab.                                                   *)
LEMMA ShowListKept ==
  ASSUME Server, Client, ShowList PROVE Good(tx', tab', steps') /\ Listed(tab')
<1>1. /\ Good(tx, tab, steps + 1) /\ tab.me # None /\ ~tab.hidden /\ tab.sel # None /\ steps' = steps + 1
      /\ LoadMembers(tab, tx, tab.sel, 0)
  BY Start DEF ShowList, Act, Ready
<1>2. Near(tx) /\ tab \in Tabs /\ TabKnows(tab, audit, steps + 1)
  BY <1>1 DEF Good, Well
<1>3. tab.sel \in Workspaces
  BY <1>1, <1>2, TabTypes DEF Places
<1>4. tab.pending.id # 0 => tab.pending.reconciled
  BY <1>1, <1>2 DEF TabKnows
<1>5. Good(Outdated(tx, {"list"}), tab, steps + 1)
  BY <1>1, <1>2, OutdatedKept
<1>6. QED BY <1>1, <1>2, <1>3, <1>4, <1>5, LoadMembersKept

LEMMA SelectWorkspaceKept ==
  ASSUME Server, Client, NEW w \in Workspaces, SelectWorkspace(w) PROVE Good(tx', tab', steps') /\ Listed(tab')
<1> DEFINE n == steps + 1
           t2 == [tab EXCEPT !.sel = w, !.panel = NoPanel(w), !.saved = 0]
           more == Outdated(tx, {"list"})
<1>1. Good(tx, tab, n) /\ tab.me # None /\ w \in tab.spaces /\ steps' = n /\ tab' = t2 /\ tx' = more
  BY Start DEF SelectWorkspace, Act, Ready
<1>2. Near(tx) /\ tab \in Tabs /\ TabKnows(tab, audit, n) /\ ForAsker(tab)
  BY <1>1 DEF Good, Well
<1>3. w \in Places /\ NoPanel(w) \in Panels /\ NoPanel(w).status = "idle"
  BY Nothings DEF Places
<1>4. t2 \in Tabs /\ t2.me = tab.me /\ t2.spaces = tab.spaces /\ t2.sel = w /\ t2.panel = NoPanel(w) /\ t2.pending = tab.pending
      /\ t2.issuing = tab.issuing /\ t2.shown = tab.shown /\ t2.hidden = tab.hidden /\ t2.saved = 0
  BY <1>2, <1>3 DEF Tabs
<1> HIDE DEF t2
<1>5. TabKnows(t2, audit, n) /\ ForAsker(t2) /\ Listed(t2)
  BY <1>1, <1>2, <1>3, <1>4 DEF TabKnows, ForAsker, Listed
<1>6. Good(more, tab, n) /\ Lists(more, t2)
  BY <1>1, <1>2, OutdatedKept
<1> HIDE DEF more
<1>7. Awaits(more, t2)
  <2>1. \A c \in Calls : Awaited(more[c], t2) <=> Awaited(more[c], tab)
    BY <1>4 DEF Awaited
  <2>2. \A c \in Calls : more[c].tab.prev.rev >= 0
    <3>1. \A c \in Calls : more[c] \in Records
      BY <1>6 DEF Good, Near
    <3>2. QED BY <3>1, CallTypes
  <2>3. QED BY <1>4, <1>6, <2>1, <2>2 DEF Good, Awaits
<1>8. QED BY <1>1, <1>4, <1>5, <1>6, <1>7 DEF Good, Well

LEMMA SaveKept ==
  ASSUME Server, Client, NEW o \in Saves, Save(o) PROVE Good(tx', tab', steps') /\ Listed(tab')
<1> DEFINE n == steps + 1
           p == [NoPending EXCEPT !.id = n, !.w = o.w]
           panel == [tab.panel EXCEPT !.status = "saving"]
           t2 == [tab EXCEPT !.panel.status = "saving", !.pending = p]
           prev == [role |-> tab.panel.role, list |-> tab.panel.list, rev |-> tab.panel.rev]
           keeps == [id |-> n, live |-> TRUE, heals |-> 0, prev |-> prev]
<1>1. /\ Good(tx, tab, n) /\ Good(tx, tab, steps) /\ Listed(tab) /\ steps \in Nat /\ n \in Nat
      /\ tab.me # None /\ ~tab.hidden /\ steps' = n
      /\ tab.panel.status = "loaded" /\ o.w = tab.sel
      /\ tab' = t2 /\ tx' \in Sent(tx, o, keeps)
  BY Start DEF Save, Act, Ready, Offered
<1>2. Near(tx) /\ tab \in Tabs /\ TabKnows(tab, audit, n) /\ ForAsker(tab)
  BY <1>1 DEF Good, Well
<1>3. o \in AllOps /\ o.kind \in {"update", "redeem"} /\ o.w \in Workspaces
  <2>1. o \in Changes
    BY MembersAssumption
  <2>2. QED BY <2>1 DEF Changes, AllOps
<1>4. p \in Pendings /\ p.id = n /\ p.w = o.w /\ ~p.settled /\ p.reconciled /\ ~p.healing
  BY <1>1, <1>3 DEF NoPending, Pendings, Places
<1>5. panel \in Panels /\ panel.status = "saving" /\ panel.w = tab.panel.w /\ tab.panel.rev \in Nat
  BY <1>2, TabTypes DEF Panels
<1>6. t2 \in Tabs /\ t2.me = tab.me /\ t2.spaces = tab.spaces /\ t2.sel = tab.sel /\ t2.panel = panel /\ t2.pending = p
      /\ t2.issuing = tab.issuing /\ t2.shown = tab.shown /\ t2.hidden = tab.hidden /\ t2.saved = tab.saved
  <2> HIDE DEF p
  <2>1. p \in Pendings /\ panel \in Panels
    BY <1>4, <1>5
  <2>2. QED BY <1>2, <2>1 DEF Tabs
<1>7. prev \in Views /\ prev.rev = tab.panel.rev
  BY <1>2, TabTypes DEF Views
<1> HIDE DEF prev
<1>8. keeps \in [id : Nat, live : BOOLEAN, prev : Views, heals : Nat] /\ keeps.id = n /\ keeps.prev = prev
  BY <1>1, <1>7
<1> HIDE DEF p, panel, t2, keeps
<1>9. Near(tx') /\ \E c \in Calls : /\ \A d \in Calls \ {c} : tx'[d] = tx[d]
                                    /\ tx'[c].at = "sent" /\ tx'[c].op = o /\ tx'[c].mine /\ tx'[c].tab = keeps
  BY <1>1, <1>2, <1>3, <1>8, SentIs
<1>10. PICK c \in Calls : /\ \A d \in Calls \ {c} : tx'[d] = tx[d]
                          /\ tx'[c].at = "sent" /\ tx'[c].op = o /\ tx'[c].mine /\ tx'[c].tab = keeps
  BY <1>9
<1>11. ~Brings(tx'[c]) /\ ~Listing(tx'[c])
  BY <1>3, <1>10 DEF Brings, Listing
<1>12. \A d \in Calls \ {c} : Change(tx'[d]) => Change(tx[d]) /\ tx'[d].tab.id \in 1 .. steps /\ tx'[d].tab.id # n
  BY <1>1, <1>10 DEF Good, Fresh
<1>13. Fresh(tx', audit, n)
  <2>1. Fresh(tx, audit, n)
    BY <1>1 DEF Good
  <2>2. \A d \in Calls : tx'[d].at = "answered" => tx'[d].mine
    BY <1>10, <2>1 DEF Fresh
  <2>3. \A d \in Calls : Change(tx'[d]) =>
          /\ tx'[d].tab.id \in 1 .. n /\ (Brings(tx'[d]) => tx'[d].payload.rev <= Len(audit[tx'[d].op.w]))
    BY <1>1, <1>8, <1>10, <1>11, <2>1 DEF Fresh
  <2>4. \A d, e \in Calls : Change(tx'[d]) /\ Change(tx'[e]) /\ tx'[d].tab.id = tx'[e].tab.id => d = e
    BY <1>8, <1>10, <1>12, <2>1 DEF Fresh
  <2>5. QED BY <2>2, <2>3, <2>4 DEF Fresh
<1>14. Awaits(tx', t2)
  <2>1. ASSUME NEW d \in Calls, Awaited(tx'[d], t2) PROVE d = c
    BY <1>4, <1>6, <1>12, <2>1 DEF Awaited
  <2>2. tab.panel.rev >= tab.saved
    BY <1>1 DEF Listed
  <2>3. QED BY <1>4, <1>6, <1>7, <1>8, <1>10, <2>1, <2>2 DEF Awaits
<1>15. Lists(tx', t2)
  <2>1. \A d \in Calls : Listing(tx'[d]) => Listing(tx[d]) /\ tx'[d] = tx[d]
    BY <1>10, <1>11
  <2>2. QED BY <1>1, <1>4, <1>6, <2>1 DEF Good, Lists
<1>16. TabKnows(t2, audit, n) /\ ForAsker(t2) /\ Listed(t2)
  <2>1. tab.sel \in tab.spaces
    BY <1>1, <1>2, <1>3, MembersAssumption DEF TabKnows
  <2>2. QED BY <1>1, <1>2, <1>3, <1>4, <1>5, <1>6, <2>1 DEF TabKnows, ForAsker, Listed
<1>17. QED BY <1>1, <1>6, <1>9, <1>13, <1>14, <1>15, <1>16 DEF Good, Well

LEMMA AskCodeKept ==
  ASSUME Server, Client, AskCode PROVE Good(tx', tab', steps') /\ Listed(tab')
<1> DEFINE n == steps + 1
           i == [NoIssuing EXCEPT !.id = n]
           t2 == [tab EXCEPT !.issuing = i, !.shown = NoShown]
           keeps == [NoTab EXCEPT !.id = n]
<1>1. Good(tx, tab, n) /\ Listed(tab) /\ n \in Nat /\ tab.me # None /\ steps' = n /\ tab' = t2 /\ tx' \in Sent(tx, Issue, keeps)
  BY Start DEF AskCode, Act, Ready
<1>2. Near(tx) /\ tab \in Tabs
  BY <1>1 DEF Good, Well
<1>3. i \in Issuings /\ NoShown \in [code : Nat, expires : Nat, for : Persons] /\ NoShown.code = 0
  BY <1>1, Nothings DEF NoIssuing, Issuings
<1>4. Issue \in AllOps /\ Issue.kind = "issue" /\ keeps \in [id : Nat, live : BOOLEAN, prev : Views, heals : Nat]
  BY <1>1, ViewOfNothing DEF Issue, AllOps, NoTab
<1> HIDE DEF i, keeps
<1>5. t2 \in Tabs /\ t2.me = tab.me /\ t2.spaces = tab.spaces /\ t2.sel = tab.sel /\ t2.panel = tab.panel /\ t2.pending = tab.pending
      /\ t2.shown = NoShown /\ t2.hidden = tab.hidden /\ t2.saved = tab.saved
  BY <1>2, <1>3 DEF Tabs
<1> HIDE DEF t2
<1>6. Good(tx, t2, n)
  BY <1>1, <1>3, <1>5, SameKept
<1>7. Near(tx') /\ \E c \in Calls : /\ \A d \in Calls \ {c} : tx'[d] = tx[d]
                                    /\ tx'[c].at = "sent" /\ tx'[c].op = Issue /\ tx'[c].mine /\ tx'[c].tab = keeps
  BY <1>1, <1>2, <1>4, SentIs
<1>8. \A d \in Calls : tx'[d] = tx[d] \/ (~Change(tx'[d]) /\ ~Listing(tx'[d]) /\ tx'[d].mine)
  BY <1>4, <1>7 DEF Change, Listing
<1>9. Fresh(tx', audit, n) /\ Awaits(tx', t2) /\ Lists(tx', t2)
  <2>1. Fresh(tx', audit, n)
    <3>1. Fresh(tx, audit, n)
      BY <1>6 DEF Good
    <3>2. \A d \in Calls : Change(tx'[d]) => tx'[d] = tx[d]
      BY <1>8
    <3>3. \A d \in Calls : tx'[d].at = "answered" => tx'[d].mine
      BY <1>8, <3>1 DEF Fresh
    <3>4. QED BY <3>1, <3>2, <3>3 DEF Fresh
  <2>2. Awaits(tx', t2)
    BY <1>6, <1>8 DEF Good, Awaits, Awaited
  <2>3. Lists(tx', t2)
    BY <1>6, <1>8 DEF Good, Lists
  <2>4. QED BY <2>1, <2>2, <2>3
<1>10. Listed(t2)
  BY <1>1, <1>5 DEF Listed
<1>11. QED BY <1>1, <1>6, <1>7, <1>9, <1>10 DEF Good

LEMMA HearChangeKept ==
  ASSUME Server, Client, HearChange PROVE Good(tx', tab', steps') /\ Listed(tab')
<1> DEFINE p == [tab.pending EXCEPT !.reconciled = (tab.pending.id = 0)]
           i == [tab.issuing EXCEPT !.reconciled = (tab.issuing.id = 0)]
           t2 == [tab EXCEPT !.hidden = TRUE, !.pending = p, !.issuing = i]
           more == Outdated(tx, Generation)
<1>1. Good(tx, tab, steps) /\ Listed(tab) /\ steps' = steps /\ tx' = more
  BY Start DEF HearChange
<1>2. Near(tx) /\ tab \in Tabs /\ TabKnows(tab, audit, steps) /\ ForAsker(tab)
  BY <1>1 DEF Good, Well
<1>3. tab' = Asking(t2)
  BY <1>2 DEF HearChange, Tabs
<1>4. p \in Pendings /\ p.id = tab.pending.id /\ p.w = tab.pending.w /\ p.settled = tab.pending.settled
      /\ p.healing = tab.pending.healing /\ p.reconciled = (tab.pending.id = 0)
  BY <1>2, TabTypes DEF Pendings
<1>5. i \in Issuings /\ i.id = tab.issuing.id
  BY <1>2, TabTypes DEF Issuings
<1> HIDE DEF p, i
<1>6. t2 \in Tabs /\ t2.me = tab.me /\ t2.spaces = tab.spaces /\ t2.sel = tab.sel /\ t2.panel = tab.panel /\ t2.pending = p
      /\ t2.issuing = i /\ t2.shown = tab.shown /\ t2.hidden = TRUE /\ t2.saved = tab.saved
  BY <1>2, <1>4, <1>5 DEF Tabs
<1> HIDE DEF t2
<1>7. TabKnows(t2, audit, steps) /\ ForAsker(t2) /\ Listed(t2)
  BY <1>1, <1>2, <1>4, <1>5, <1>6 DEF TabKnows, ForAsker, Listed
<1>8. Good(more, tab, steps) /\ Lists(more, t2)
  BY <1>1, <1>2, OutdatedKept DEF Generation
<1>9. Awaits(more, t2)
  <2>1. \A c \in Calls : Awaited(more[c], t2) <=> Awaited(more[c], tab)
    BY <1>4, <1>6 DEF Awaited
  <2>2. \A c \in Calls : Awaited(more[c], tab) => ~more[c].tab.live
    BY <1>2, OutdatedIs DEF Awaited, Change, Generation
  <2>3. QED BY <1>4, <1>6, <1>8, <2>1, <2>2 DEF Good, Awaits
<1>10. Good(more, t2, steps)
  BY <1>6, <1>7, <1>8, <1>9 DEF Good, Well
<1>11. QED BY <1>1, <1>3, <1>6, <1>7, <1>10, AskingKept

LEMMA SessionStepsKept ==
  ASSUME Server, Client, ReloadSession \/ GetSession \/ LoseSession \/ HideCode
  PROVE  Good(tx', tab', steps') /\ Listed(tab')
<1>1. Good(tx, tab, steps) /\ Good(tx, tab, steps + 1) /\ Listed(tab)
  BY Start
<1>2. tab \in Tabs
  BY <1>1 DEF Good, Well
<1>3. CASE ReloadSession
  <2>1. tab' = Asking(tab) /\ tx' = tx /\ steps' = steps + 1
    BY <1>3 DEF ReloadSession, Act
  <2>2. QED BY <1>1, <1>2, <2>1, AskingKept
<1>4. ASSUME NEW load \in {"none", "asked", "answered"}, NEW found \in Sessions,
             tab' = [tab EXCEPT !.load = load, !.found = found], UNCHANGED <<tx, steps>>
      PROVE  Good(tx', tab', steps') /\ Listed(tab')
  <2>1. tab' \in Tabs /\ tab'.me = tab.me /\ tab'.spaces = tab.spaces /\ tab'.sel = tab.sel /\ tab'.panel = tab.panel
        /\ tab'.pending = tab.pending /\ tab'.issuing = tab.issuing /\ tab'.shown = tab.shown /\ tab'.hidden = tab.hidden
        /\ tab'.saved = tab.saved
    BY <1>2, <1>4 DEF Tabs
  <2>2. Good(tx, tab', steps)
    BY <1>1, <2>1, SameKept
  <2>3. QED BY <1>1, <1>4, <2>1, <2>2 DEF Listed
<1>5. CASE GetSession
  <2> DEFINE found == [me |-> cookie, spaces |-> IF cookie = None THEN {} ELSE SpacesOf(cookie)]
  <2>1. tab' = [tab EXCEPT !.load = "answered", !.found = found] /\ UNCHANGED <<tx, steps>>
    BY <1>5 DEF GetSession
  <2>2. found \in Sessions
    BY DEF Server, SpacesOf, Sessions
  <2> HIDE DEF found
  <2>3. QED BY <1>4, <2>1, <2>2
<1>6. CASE LoseSession
  <2>1. tab' = [tab EXCEPT !.load = "none", !.found = NoSession] /\ UNCHANGED <<tx, steps>>
    BY <1>6 DEF LoseSession
  <2>2. QED BY <1>4, <2>1, Nothings
<1>7. CASE HideCode
  <2>1. tab' = [tab EXCEPT !.shown = NoShown] /\ UNCHANGED <<tx, steps>>
    BY <1>7 DEF HideCode
  <2>2. tab' \in Tabs /\ tab'.me = tab.me /\ tab'.spaces = tab.spaces /\ tab'.sel = tab.sel /\ tab'.panel = tab.panel
        /\ tab'.pending = tab.pending /\ tab'.issuing = tab.issuing /\ tab'.shown = NoShown /\ tab'.hidden = tab.hidden
        /\ tab'.saved = tab.saved
    BY <1>2, <2>1, Nothings DEF Tabs
  <2>3. Good(tx, tab', steps)
    BY <1>1, <2>2, Nothings, SameKept
  <2>4. QED BY <1>1, <2>1, <2>2, <2>3 DEF Listed
<1>8. QED BY <1>3, <1>5, <1>6, <1>7

(* A call of the tab that is over for it.                                  *)
LEMMA OverIs ==
  ASSUME Server, Client, NEW c \in Calls, NEW calls,
         \/ calls = Ended(tx, c)
         \/ calls = [tx EXCEPT ![c].mine = FALSE, ![c].tab = NoTab] /\ tx[c].at # "answered"
  PROVE  Near(calls) /\ ~Own(calls[c]) /\ (\A d \in Calls \ {c} : calls[d] = tx[d]) /\ Good(calls, tab, steps)
<1>1. Good(tx, tab, steps) /\ tx \in [Calls -> Records] /\ tx[c] \in Records
  BY Start DEF Server
<1>2. \E q \in Records : /\ calls = [tx EXCEPT ![c] = q] /\ ~q.mine
                         /\ q.at = "free" \/ (q.at = tx[c].at /\ q.op = tx[c].op /\ q.by = tx[c].by /\ tx[c].at # "answered")
  <2>1. CASE calls = Ended(tx, c)
    BY <2>1, FreeIsFree DEF Ended
  <2>2. CASE calls = [tx EXCEPT ![c].mine = FALSE, ![c].tab = NoTab] /\ tx[c].at # "answered"
    <3> DEFINE q == [tx[c] EXCEPT !.mine = FALSE, !.tab = NoTab]
    <3>1. calls = [tx EXCEPT ![c] = q]
      BY <1>1, <2>2
    <3>2. NoTab \in [id : Nat, live : BOOLEAN, prev : Views, heals : Nat]
      BY ViewOfNothing DEF NoTab
    <3>3. q \in Records /\ ~q.mine /\ q.at = tx[c].at /\ q.op = tx[c].op /\ q.by = tx[c].by
      BY <1>1, <3>2 DEF Records
    <3> HIDE DEF q
    <3>4. QED BY <2>2, <3>1, <3>3
  <2>3. QED BY <2>1, <2>2
<1>3. PICK q \in Records : /\ calls = [tx EXCEPT ![c] = q] /\ ~q.mine
                           /\ q.at = "free" \/ (q.at = tx[c].at /\ q.op = tx[c].op /\ q.by = tx[c].by /\ tx[c].at # "answered")
  BY <1>2
<1>4. calls \in [Calls -> Records] /\ calls[c] = q /\ \A d \in Calls \ {c} : calls[d] = tx[d]
  BY <1>1, <1>3
<1>5. Near(calls) /\ ~Own(calls[c])
  BY <1>3, <1>4 DEF Near, Own
<1>6. \A d \in Calls : Weaker(calls[d], tx[d])
  BY <1>3, <1>4 DEF Weaker, Own
<1>7. QED BY <1>1, <1>4, <1>5, <1>6, WeakerKnows DEF Good

Over(c, answer, calls) ==
  /\ Own(tx[c]) /\ ~Own(calls[c]) /\ (\A d \in Calls \ {c} : calls[d] = tx[d])
  /\ Near(calls) /\ Good(calls, tab, steps)
  /\ answer = "ok" => Brings(tx[c])

LEMMA ApplyListKept ==
  ASSUME Server, Client, NEW c \in Calls, NEW answer, NEW calls, Over(c, answer, calls),
         tx[c].op.kind = "list", ApplyList(c, answer, calls), steps' = steps
  PROVE  Good(tx', tab', steps') /\ Listed(tab')
<1> DEFINE w == tx[c].op.w
           t == Healed(tab, c)
           got == tx[c].payload
<1>1. Good(calls, t, steps) /\ t.panel = tab.panel /\ t.saved = tab.saved /\ t.sel = tab.sel
      /\ t.pending.id = tab.pending.id /\ t.pending.w = tab.pending.w /\ t.pending.reconciled = tab.pending.reconciled
  BY HealedKept DEF Over
<1>2. Listed(t) /\ t \in Tabs /\ TabKnows(t, audit, steps) /\ tx' = calls
  <2>1. Listed(tab)
    BY Start
  <2>2. QED BY <1>1, <2>1 DEF Listed, Good, Well, ApplyList
<1>3. CASE ~tx[c].tab.live
  BY <1>1, <1>2, <1>3 DEF ApplyList
<1>4. CASE tx[c].tab.live /\ answer = "ended"
  <2>1. tab' = Asking(t)
    BY <1>4 DEF ApplyList
  <2>2. QED BY <1>1, <1>2, <2>1, AskingKept
<1>5. tx[c] \in Records /\ tx[c].op \in AllOps /\ got \in Views /\ got.rev \in Nat
  BY CallTypes DEF Server
<1>6. w \in Workspaces /\ w \in Places
  BY <1>5, OpKinds DEF Places
<1>7. CASE tx[c].tab.live /\ answer = "ok"
  <2> DEFINE panel == [w |-> w, status |-> "loaded", role |-> got.role, list |-> got.list, rev |-> got.rev]
             t1 == [t EXCEPT !.panel = panel, !.pending = IF t.pending.w = w THEN NoPending ELSE @]
  <2>1. tab' = t1
    BY <1>7 DEF ApplyList
  <2>2. panel \in Panels /\ panel.w = w /\ panel.rev = got.rev /\ panel.status = "loaded"
    BY <1>5, <1>6 DEF Panels, Views
  <2>3. Listing(tx[c]) /\ Brings(tx[c])
    BY <1>7 DEF Listing, Over
  <2>4. /\ t.pending.id # 0 => t.pending.reconciled
        /\ t.saved # 0 => w = t.sel /\ got.rev >= t.saved
    BY <1>1, <2>3, Start DEF Good, Lists
  <2>5. got.rev >= t.saved
    <3>1. t.saved \in Nat
      BY <1>2, TabTypes
    <3>2. QED BY <1>5, <2>4, <3>1
  <2> HIDE DEF panel, got, t, w
  <2>6. CASE t.pending.w = w
    <3> DEFINE t2 == [t EXCEPT !.panel = panel, !.pending = NoPending]
    <3>1. t1 = t2
      BY <2>6
    <3>2. t2 \in Tabs /\ t2.me = t.me /\ t2.spaces = t.spaces /\ t2.sel = t.sel /\ t2.panel = panel /\ t2.pending = NoPending
          /\ t2.issuing = t.issuing /\ t2.shown = t.shown /\ t2.hidden = t.hidden /\ t2.saved = t.saved
      BY <1>2, <2>2, Nothings DEF Tabs
    <3> HIDE DEF t1, t2
    <3>3. Good(calls, t2, steps)
      BY <1>1, <3>2, ForgottenKept
    <3>4. Listed(t2)
      BY <2>2, <2>5, <3>2 DEF Listed
    <3>5. QED BY <1>2, <2>1, <3>1, <3>3, <3>4
  <2>7. CASE t.pending.w # w
    <3> DEFINE t2 == [t EXCEPT !.panel = panel]
    <3>1. t1 = t2
      BY <1>2, <2>7 DEF Tabs
    <3>2. t2 \in Tabs /\ t2.me = t.me /\ t2.spaces = t.spaces /\ t2.sel = t.sel /\ t2.panel = panel /\ t2.pending = t.pending
          /\ t2.issuing = t.issuing /\ t2.shown = t.shown /\ t2.hidden = t.hidden /\ t2.saved = t.saved
      BY <1>2, <2>2 DEF Tabs
    <3> HIDE DEF t1, t2
    <3>3. TabKnows(t2, audit, steps) /\ ForAsker(t2)
      BY <1>1, <2>2, <2>7, <3>2 DEF Good, Well, TabKnows, ForAsker
    <3>4. Good(calls, t2, steps)
      BY <1>1, <3>2, <3>3, SameCalls DEF Good, Well
    <3>5. Listed(t2)
      BY <2>2, <2>5, <3>2 DEF Listed
    <3>6. QED BY <1>2, <2>1, <3>1, <3>4, <3>5
  <2>8. QED BY <2>6, <2>7
<1>8. CASE tx[c].tab.live /\ answer \notin {"ended", "ok"}
  <2> DEFINE panel == [NoPanel(w) EXCEPT !.status = "error", !.role = IF answer = "unknown" THEN t.panel.role ELSE "none"]
             t1 == [t EXCEPT !.panel = panel]
  <2>1. tab' = Drawn(t1)
    BY <1>8 DEF ApplyList
  <2>2. panel \in Panels /\ panel.status = "error"
    <3>1. NoPanel(w) \in Panels /\ t.panel.role \in Standings /\ "none" \in Standings
      BY <1>2, <1>6, Nothings, TabTypes DEF Standings
    <3>2. QED BY <3>1 DEF Panels
  <2> HIDE DEF panel, t
  <2>3. t1 \in Tabs /\ t1.me = t.me /\ t1.spaces = t.spaces /\ t1.sel = t.sel /\ t1.panel = panel /\ t1.pending = t.pending
        /\ t1.issuing = t.issuing /\ t1.shown = t.shown /\ t1.hidden = t.hidden /\ t1.saved = t.saved
    BY <1>2, <2>2 DEF Tabs
  <2> HIDE DEF t1
  <2>4. Good(calls, t1, steps) /\ Listed(t1)
    BY <1>1, <2>2, <2>3, SameKept DEF Listed
  <2>5. QED BY <1>2, <2>1, <2>3, <2>4, DrawnKept
<1>9. QED BY <1>3, <1>4, <1>7, <1>8

LEMMA ApplyIssueKept ==
  ASSUME Server, Client, NEW c \in Calls, NEW answer, NEW calls, Over(c, answer, calls),
         ApplyIssue(c, answer, calls), steps' = steps
  PROVE  Good(tx', tab', steps') /\ Listed(tab')
<1>1. Good(calls, tab, steps) /\ Listed(tab) /\ tab \in Tabs /\ tx' = calls
  BY Start DEF Over, Good, Well, ApplyIssue
<1> DEFINE i == [tab.issuing EXCEPT !.settled = TRUE, !.code = IF answer = "ok" THEN tx[c].payload.rev ELSE 0,
                                    !.expires = IF answer = "ok" THEN tx[c].began + Lifetime ELSE 0]
           t == [tab EXCEPT !.issuing = i]
<1>2. t = [tab EXCEPT !.issuing.settled = TRUE,
                      !.issuing.code = IF answer = "ok" THEN tx[c].payload.rev ELSE 0,
                      !.issuing.expires = IF answer = "ok" THEN tx[c].began + Lifetime ELSE 0]
  BY <1>1 DEF Tabs
<1>3. tab' = tab \/ tab' = Finalized(t) \/ tab' = Asking(Finalized(t))
  BY <1>2 DEF ApplyIssue
<1>4. i \in Issuings /\ i.id = tab.issuing.id
  <2>1. tx[c] \in Records
    BY DEF Server
  <2>2. tx[c].payload.rev \in Nat /\ tx[c].began + Lifetime \in Nat /\ tab.issuing \in Issuings
    BY <1>1, <2>1, CallTypes, TabTypes, MembersAssumption
  <2>3. QED BY <2>2 DEF Issuings
<1> HIDE DEF i
<1>5. t \in Tabs /\ t.me = tab.me /\ t.spaces = tab.spaces /\ t.sel = tab.sel /\ t.panel = tab.panel /\ t.pending = tab.pending
      /\ t.issuing = i /\ t.shown = tab.shown /\ t.hidden = tab.hidden /\ t.saved = tab.saved
  BY <1>1, <1>4 DEF Tabs
<1> HIDE DEF t
<1>6. Good(calls, t, steps) /\ Listed(t)
  BY <1>1, <1>4, <1>5, SameKept DEF Listed
<1>7. Good(calls, Finalized(t), steps) /\ Listed(Finalized(t))
  BY <1>6, FinalizedKept
<1>8. Good(calls, Asking(Finalized(t)), steps) /\ Listed(Asking(Finalized(t)))
  BY <1>7, AskingKept DEF Good, Well
<1>9. QED BY <1>1, <1>3, <1>7, <1>8

LEMMA ApplySaveKept ==
  ASSUME Server, Client, NEW c \in Calls, NEW answer, NEW calls, Over(c, answer, calls),
         tx[c].op.kind \in {"update", "redeem"}, ApplySave(c, answer, calls), steps' = steps
  PROVE  Good(tx', tab', steps') /\ Listed(tab')
<1> DEFINE w == tx[c].op.w
           prev == tx[c].tab.prev
           p == [tab.pending EXCEPT !.settled = TRUE]
           saved == IF answer = "ok" /\ tab.sel = w THEN tx[c].payload.rev ELSE tab.saved
           t == [tab EXCEPT !.pending = p, !.saved = saved]
<1>1. Good(calls, tab, steps) /\ Good(tx, tab, steps) /\ Listed(tab) /\ tab \in Tabs /\ TabKnows(tab, audit, steps) /\ ForAsker(tab)
      /\ Near(calls)
  BY Start DEF Over, Good, Well
<1>2. CASE tab.pending.id # tx[c].tab.id
  BY <1>1, <1>2 DEF ApplySave
<1>3. CASE tab.pending.id = tx[c].tab.id
  <2>1. tx[c] \in Records /\ tx[c].op \in AllOps /\ prev \in Views /\ prev.rev \in Nat /\ tx[c].payload.rev \in Nat
    BY CallTypes DEF Server
  <2>2. w \in Workspaces /\ w \in Places /\ w # None
    BY <2>1, OpKinds, MembersAssumption DEF Places
  <2>3. Change(tx[c]) /\ Awaited(tx[c], tab)
    BY <1>3 DEF Awaited, Change, Over
  <2>4. /\ tab.pending.id # 0 /\ w = tab.pending.w /\ ~tab.pending.settled
        /\ answer = "ok" => tx[c].payload.rev <= Len(audit[w])
        /\ tx[c].tab.live => /\ tab.pending.reconciled
                             /\ tab.sel = w => prev.rev >= tab.saved
    <3>1. tx[c].tab.id \in 1 .. steps /\ (Brings(tx[c]) => tx[c].payload.rev <= Len(audit[w]))
      BY <1>1, <2>3 DEF Good, Fresh
    <3>2. QED BY <1>1, <1>3, <2>3, <3>1 DEF Good, Awaits, Over
  <2>5. tab.me # None /\ ~tab.pending.healing /\ (tab.pending.reconciled => w \in tab.spaces)
        /\ (w # tab.sel => tab.saved = 0) /\ (tab.panel.w = w => tab.panel.status # "loaded")
    BY <1>1, <2>4 DEF TabKnows
  <2>6. p \in Pendings /\ p.id = tab.pending.id /\ p.w = w /\ p.settled /\ p.reconciled = tab.pending.reconciled /\ ~p.healing
    BY <1>1, <2>4, <2>5, TabTypes DEF Pendings
  <2>7. saved \in Nat /\ (saved = tab.saved \/ (tab.sel = w /\ answer = "ok" /\ saved = tx[c].payload.rev))
    BY <1>1, <2>1, TabTypes
  <2>8. t = [tab EXCEPT !.pending.settled = TRUE, !.saved = IF answer = "ok" /\ tab.sel = w THEN tx[c].payload.rev ELSE @]
    BY <1>1 DEF Tabs
  <2>9. /\ ~tx[c].tab.live => Reconcile(t, calls)
        /\ tx[c].tab.live => \/ answer \in {"ok", "unknown"} /\ LoadMembers(t, calls, w, 0)
                             \/ answer \notin {"ok", "unknown"} /\ tx' = calls
                                /\ tab' \in {Asking(t), Restored(t, w, prev, answer)}
    BY <1>3, <2>8 DEF ApplySave
  <2> HIDE DEF p, saved
  <2>10. t \in Tabs /\ t.me = tab.me /\ t.spaces = tab.spaces /\ t.sel = tab.sel /\ t.panel = tab.panel /\ t.pending = p
         /\ t.issuing = tab.issuing /\ t.shown = tab.shown /\ t.hidden = tab.hidden /\ t.saved = saved
    BY <1>1, <2>6, <2>7 DEF Tabs
  <2> HIDE DEF t, w, prev
  <2>11. TabKnows(t, audit, steps) /\ ForAsker(t)
    BY <1>1, <2>2, <2>4, <2>5, <2>6, <2>7, <2>10 DEF TabKnows, ForAsker
  <2>12. \A d \in Calls : ~Awaited(calls[d], t)
    <3>1. ASSUME NEW d \in Calls, Awaited(calls[d], t) PROVE FALSE
      <4>1. Change(calls[d]) /\ calls[d].tab.id = tx[c].tab.id
        BY <1>3, <2>6, <2>10, <3>1 DEF Awaited
      <4>2. d # c
        BY <4>1 DEF Over, Change
      <4>3. Change(tx[d]) /\ tx[d].tab.id = tx[c].tab.id
        BY <4>1, <4>2 DEF Over
      <4>4. QED BY <1>1, <2>3, <4>2, <4>3 DEF Good, Fresh
    <3>2. QED BY <3>1
  <2>13. Awaits(calls, t)
    BY <2>12 DEF Awaits
  <2>14. Good(Outdated(calls, {"list"}), t, steps)
    <3>1. Lists(Outdated(calls, {"list"}), t) /\ Good(Outdated(calls, {"list"}), tab, steps)
      BY <1>1, OutdatedKept
    <3>2. Awaits(Outdated(calls, {"list"}), t)
      <4>1. \A d \in Calls : Weaker(Outdated(calls, {"list"})[d], calls[d])
        BY <1>1, OutdatedIs
      <4>2. QED BY <2>13, <4>1, WeakerKnows
    <3>3. QED BY <2>10, <2>11, <3>1, <3>2 DEF Good, Well
  <2>15. saved = tab.saved => Good(calls, t, steps) /\ Listed(t)
    <3>1. saved = tab.saved => Lists(calls, t)
      BY <1>1, <2>6, <2>10 DEF Good, Lists
    <3>2. QED BY <1>1, <2>10, <2>11, <2>13, <3>1 DEF Good, Well, Listed
  <2>16. CASE ~tx[c].tab.live
    <3>1. ASSUME ~Reconcilable(t) PROVE Good(calls, t, steps) /\ Listed(Drawn(t))
      <4>1. ~tab.pending.reconciled
        BY <2>4, <2>5, <2>6, <2>10, <3>1 DEF Reconcilable
      <4>2. \A d \in Calls : ~Listing(calls[d])
        BY <1>1, <2>4, <4>1 DEF Good, Lists
      <4>3. Good(calls, t, steps)
        BY <1>1, <2>10, <2>11, <2>13, <4>2 DEF Good, Well, Lists
      <4>4. Listed(Drawn(t))
        <5>1. CASE t.panel.w # t.sel
          BY <2>10, <5>1, DrawnKept
        <5>2. CASE t.panel.w = t.sel /\ saved # tab.saved
          <6>1. Listed(t)
            BY <2>5, <2>7, <2>10, <5>2 DEF Listed
          <6>2. QED BY <2>10, <6>1, DrawnKept
        <5>3. CASE saved = tab.saved
          BY <2>10, <2>15, <5>3, DrawnKept
        <5>4. QED BY <5>1, <5>2, <5>3
      <4>5. QED BY <4>3, <4>4
    <3>2. Reconcile(t, calls) /\ t.pending.settled
      BY <2>6, <2>9, <2>10, <2>16
    <3>3. QED BY <1>1, <2>14, <3>1, <3>2, ReconcileKept
  <2>17. CASE tx[c].tab.live /\ answer \in {"ok", "unknown"}
    <3>1. LoadMembers(t, calls, w, 0)
      BY <2>9, <2>17
    <3>2. t.me = None \/ t.sel # w => Good(calls, t, steps) /\ Listed(Drawn(t))
      <4>1. t.me # None /\ (t.sel # w => saved = tab.saved)
        BY <2>5, <2>7, <2>10
      <4>2. QED BY <2>10, <2>15, <4>1, DrawnKept
    <3>3. t.pending.reconciled
      BY <2>4, <2>6, <2>10, <2>17
    <3>4. QED BY <1>1, <2>2, <2>14, <3>1, <3>2, <3>3, LoadMembersKept
  <2>18. CASE tx[c].tab.live /\ answer \notin {"ok", "unknown"}
    <3>1. saved = tab.saved /\ Good(calls, t, steps) /\ Listed(t) /\ tx' = calls
      BY <2>7, <2>9, <2>15, <2>18
    <3>2. CASE tab' = Asking(t)
      BY <2>10, <3>1, <3>2, AskingKept
    <3>3. CASE tab' = Restored(t, w, prev, answer)
      <4> DEFINE panel == IF answer = "refused" THEN [NoPanel(w) EXCEPT !.status = "error"]
                          ELSE [w |-> w, status |-> "loaded", role |-> prev.role, list |-> prev.list, rev |-> prev.rev]
                 t2 == [t EXCEPT !.pending = NoPending, !.panel = panel]
      <4>1. tab' = Drawn(t2)
        BY <3>3 DEF Restored
      <4>2. panel \in Panels /\ panel.w = w /\ (panel.status = "error" \/ panel.rev = prev.rev)
        BY <2>1, <2>2, Nothings DEF Panels, Views
      <4> HIDE DEF panel
      <4>3. t2 \in Tabs /\ t2.me = t.me /\ t2.spaces = t.spaces /\ t2.sel = t.sel /\ t2.panel = panel /\ t2.pending = NoPending
            /\ t2.issuing = t.issuing /\ t2.shown = t.shown /\ t2.hidden = t.hidden /\ t2.saved = t.saved
        BY <2>10, <4>2, Nothings DEF Tabs
      <4> HIDE DEF t2
      <4>4. Good(calls, t2, steps)
        BY <3>1, <4>3, ForgottenKept
      <4>5. Listed(Drawn(t2))
        <5>1. CASE t2.panel.w # t2.sel
          BY <4>3, <5>1, DrawnKept
        <5>2. CASE t2.panel.w = t2.sel
          <6>1. tab.sel = w /\ prev.rev >= tab.saved
            BY <2>4, <2>10, <2>18, <4>2, <4>3, <5>2
          <6>2. Listed(t2)
            BY <2>10, <3>1, <4>2, <4>3, <6>1 DEF Listed
          <6>3. QED BY <4>3, <6>2, DrawnKept
        <5>3. QED BY <5>1, <5>2
      <4>6. QED BY <3>1, <4>1, <4>3, <4>4, <4>5, DrawnKept
    <3>4. QED BY <2>9, <2>18, <3>2, <3>3
  <2>19. QED BY <2>16, <2>17, <2>18
<1>4. QED BY <1>2, <1>3

LEMMA AnswersKept ==
  ASSUME Server, Client, NEW c \in Calls, Receive(c) \/ Lose(c)
  PROVE  Good(tx', tab', steps') /\ Listed(tab')
<1>1. \E answer, calls : Over(c, answer, calls) /\ Apply(c, answer, calls)
  <2>1. CASE Receive(c)
    <3>1. tx[c].at = "answered" /\ Apply(c, tx[c].answer, Ended(tx, c))
      BY <2>1 DEF Receive
    <3>2. tx[c].mine
      BY <3>1, Start DEF Good, Fresh
    <3> DEFINE calls == Ended(tx, c)
               answer == tx[c].answer
    <3>3. Near(calls) /\ ~Own(calls[c]) /\ (\A d \in Calls \ {c} : calls[d] = tx[d]) /\ Good(calls, tab, steps)
      BY OverIs
    <3>4. Own(tx[c]) /\ (answer = "ok" => Brings(tx[c])) /\ Apply(c, answer, calls)
      BY <3>1, <3>2 DEF Own, Brings
    <3> HIDE DEF calls, answer
    <3>5. QED BY <3>3, <3>4 DEF Over
  <2>2. CASE Lose(c)
    <3> DEFINE calls == IF tx[c].at \in {"sent", "answered"} THEN Ended(tx, c) ELSE [tx EXCEPT ![c].mine = FALSE, ![c].tab = NoTab]
    <3>1. tx[c].at # "free" /\ tx[c].mine /\ Apply(c, "unknown", calls)
      BY <2>2 DEF Lose
    <3>2. \/ calls = Ended(tx, c)
          \/ calls = [tx EXCEPT ![c].mine = FALSE, ![c].tab = NoTab] /\ tx[c].at # "answered"
      OBVIOUS
    <3> HIDE DEF calls
    <3>3. Over(c, "unknown", calls)
      BY <3>1, <3>2, OverIs DEF Over, Own
    <3>4. QED BY <3>1, <3>3
  <2>3. QED BY <2>1, <2>2
<1>2. PICK answer, calls : Over(c, answer, calls) /\ Apply(c, answer, calls)
  BY <1>1
<1>3. steps' = steps
  BY DEF Receive, Lose
<1>4. tx[c].op.kind \in {"update", "redeem", "issue", "list"}
  BY CallTypes, OpKinds DEF Server
<1>5. CASE tx[c].op.kind = "list"
  BY <1>2, <1>3, <1>5, ApplyListKept DEF Apply
<1>6. CASE tx[c].op.kind = "issue"
  BY <1>2, <1>3, <1>6, ApplyIssueKept DEF Apply
<1>7. CASE tx[c].op.kind \in {"update", "redeem"}
  BY <1>2, <1>3, <1>7, ApplySaveKept DEF Apply
<1>8. QED BY <1>4, <1>5, <1>6, <1>7

(* A session is shown in three steps: the tab takes the user and the       *)
(* workspaces of the answer, resumes its mutation, and selects a           *)
(* workspace.  Between them it knows all but where it is.                  *)
Between(calls, t) ==
  /\ Near(calls) /\ Fresh(calls, audit, steps) /\ Awaits(calls, t) /\ Lists(calls, t)
  /\ t \in Tabs /\ ForAsker(t) /\ Listed(t) /\ t.hidden = FALSE
  /\ t.me = None => t.pending.id = 0 /\ t.issuing.id = 0 /\ t.shown.code = 0
  /\ t.saved # 0 => t.sel # None /\ t.saved <= Len(audit[t.sel])
  /\ t.pending.id # 0 =>
       /\ t.pending.id <= steps /\ t.pending.w \in Workspaces
       /\ t.pending.w # t.sel => t.saved = 0
       /\ t.panel.w = t.pending.w => t.panel.status # "loaded"
       /\ t.pending.healing => t.pending.settled

Found(u, spaces) ==
  [Replaced(tab, u) EXCEPT !.spaces = spaces, !.load = "none", !.found = NoSession, !.hidden = FALSE]

LEMMA FoundKept ==
  ASSUME Server, Client, NEW u \in Persons, NEW spaces \in SUBSET Workspaces,
         NEW calls, calls = IF tab.me = u THEN tx ELSE Outdated(tx, Generation)
  PROVE  Found(u, spaces) \in Tabs /\ Found(u, spaces).spaces = spaces /\ Between(calls, Found(u, spaces))
<1>1. Good(tx, tab, steps) /\ Near(tx) /\ tab \in Tabs /\ TabKnows(tab, audit, steps) /\ ForAsker(tab) /\ Listed(tab)
  BY Start DEF Good, Well
<1>2. Good(calls, tab, steps)
  BY <1>1, OutdatedKept
<1>3. NoSession \in Sessions
  BY Nothings
<1>4. CASE tab.me \in {None, u}
  <2> DEFINE t0 == [tab EXCEPT !.me = u]
             t == [t0 EXCEPT !.spaces = spaces, !.load = "none", !.found = NoSession, !.hidden = FALSE]
  <2>1. Found(u, spaces) = t
    BY <1>4 DEF Found, Replaced
  <2>2. t0 \in Tabs /\ t0.me = u /\ t0.sel = tab.sel /\ t0.panel = tab.panel /\ t0.pending = tab.pending
        /\ t0.issuing = tab.issuing /\ t0.shown = tab.shown /\ t0.saved = tab.saved
    BY <1>1 DEF Tabs
  <2> HIDE DEF t0
  <2>3. t \in Tabs /\ t.me = u /\ t.spaces = spaces /\ t.sel = tab.sel /\ t.panel = tab.panel /\ t.pending = tab.pending
        /\ t.issuing = tab.issuing /\ t.shown = tab.shown /\ t.hidden = FALSE /\ t.saved = tab.saved
    BY <1>3, <2>2 DEF Tabs
  <2> HIDE DEF t
  <2>4. Awaits(calls, t) /\ Lists(calls, t)
    BY <1>2, <2>3, SameCalls DEF Good
  <2>5. ForAsker(t) /\ Listed(t)
    BY <1>1, <1>4, <2>3 DEF ForAsker, Listed, TabKnows
  <2>6. /\ t.me = None => t.pending.id = 0 /\ t.issuing.id = 0 /\ t.shown.code = 0
        /\ t.saved # 0 => t.sel # None /\ t.saved <= Len(audit[t.sel])
        /\ t.pending.id # 0 =>
             /\ t.pending.id <= steps /\ t.pending.w \in Workspaces
             /\ t.pending.w # t.sel => t.saved = 0
             /\ t.panel.w = t.pending.w => t.panel.status # "loaded"
             /\ t.pending.healing => t.pending.settled
    BY <1>1, <1>4, <2>3 DEF TabKnows
  <2>7. QED BY <1>2, <2>1, <2>3, <2>4, <2>5, <2>6 DEF Between, Good
<1>5. CASE tab.me \notin {None, u}
  <2> DEFINE t0 == [tab EXCEPT !.me = u, !.sel = None, !.panel = NoPanel(None), !.pending = NoPending,
                               !.issuing = NoIssuing, !.shown = NoShown, !.saved = 0]
             t == [t0 EXCEPT !.spaces = spaces, !.load = "none", !.found = NoSession, !.hidden = FALSE]
  <2>1. Found(u, spaces) = t
    BY <1>5 DEF Found, Replaced
  <2>2. None \in Places /\ NoPanel(None) \in Panels /\ NoPanel(None).status = "idle"
    BY Nothings DEF Places
  <2>3. t0 \in Tabs /\ t0.me = u /\ t0.sel = None /\ t0.panel = NoPanel(None) /\ t0.pending = NoPending
        /\ t0.issuing = NoIssuing /\ t0.shown = NoShown /\ t0.saved = 0
    BY <1>1, <2>2, Nothings DEF Tabs
  <2> HIDE DEF t0
  <2>4. t \in Tabs /\ t.me = u /\ t.spaces = spaces /\ t.sel = None /\ t.panel = NoPanel(None) /\ t.pending = NoPending
        /\ t.issuing = NoIssuing /\ t.shown = NoShown /\ t.hidden = FALSE /\ t.saved = 0
    BY <1>3, <2>3 DEF Tabs
  <2> HIDE DEF t
  <2>5. Awaits(calls, t)
    <3>1. ASSUME NEW c \in Calls, Awaited(calls[c], t) PROVE FALSE
      <4>1. calls[c].tab.id \in 1 .. steps /\ calls[c].tab.id = 0
        BY <1>2, <2>4, <3>1, Nothings DEF Good, Fresh, Awaited
      <4>2. QED BY <4>1
    <3>2. QED BY <3>1 DEF Awaits
  <2>6. Lists(calls, t)
    BY <2>4, Nothings DEF Lists
  <2>7. ForAsker(t) /\ Listed(t)
    BY <2>2, <2>4, Nothings DEF ForAsker, Listed
  <2>8. QED BY <1>2, <2>1, <2>4, <2>5, <2>6, <2>7, Nothings DEF Between, Good
<1>6. QED BY <1>4, <1>5

LEMMA ResumedKept ==
  ASSUME NEW calls, NEW t, Between(calls, t)
  PROVE  /\ Between(calls, Resumed(t)) /\ Resumed(t).spaces = t.spaces
         /\ Resumed(t).pending.id # 0 => /\ Resumed(t).pending.reconciled /\ Resumed(t).pending.w \in t.spaces
                                         /\ Resumed(t).sel = Resumed(t).pending.w
<1>1. t \in Tabs
  BY DEF Between
<1>2. CASE t.pending.id = 0
  BY <1>2 DEF Resumed
<1>3. CASE t.pending.id # 0 /\ t.pending.w \in t.spaces
  <2> DEFINE p == [t.pending EXCEPT !.reconciled = TRUE]
             t2 == [t EXCEPT !.pending = p, !.sel = t.pending.w]
  <2>1. Resumed(t) = t2
    BY <1>1, <1>3 DEF Resumed, Tabs
  <2>2. p \in Pendings /\ p.id = t.pending.id /\ p.w = t.pending.w /\ p.settled = t.pending.settled /\ p.reconciled
        /\ p.healing = t.pending.healing
    BY <1>1, TabTypes DEF Pendings
  <2>3. t.pending.w \in Places /\ t.pending.w \in Workspaces
    BY <1>1, <1>3, TabTypes
  <2> HIDE DEF p
  <2>4. t2 \in Tabs /\ t2.me = t.me /\ t2.spaces = t.spaces /\ t2.sel = t.pending.w /\ t2.panel = t.panel /\ t2.pending = p
        /\ t2.issuing = t.issuing /\ t2.shown = t.shown /\ t2.hidden = t.hidden /\ t2.saved = t.saved
    BY <1>1, <2>2, <2>3 DEF Tabs
  <2> HIDE DEF t2
  <2>5. t.saved # 0 => t2.sel = t.sel
    BY <1>3, <2>4 DEF Between
  <2>6. Awaits(calls, t2)
    <3>1. ASSUME NEW c \in Calls, Awaited(calls[c], t2)
          PROVE  /\ calls[c].op.w = t2.pending.w /\ ~t2.pending.settled
                 /\ calls[c].tab.live => /\ t2.pending.reconciled
                                         /\ t2.sel = t2.pending.w => calls[c].tab.prev.rev >= t2.saved
      <4>1. Awaited(calls[c], t)
        BY <2>2, <2>4, <3>1 DEF Awaited
      <4>2. /\ calls[c].op.w = t.pending.w /\ ~t.pending.settled
            /\ calls[c].tab.live => (t.sel = t.pending.w => calls[c].tab.prev.rev >= t.saved)
        BY <4>1 DEF Between, Awaits
      <4>3. calls[c].tab.prev.rev \in Nat
        <5>1. calls[c] \in Records
          BY DEF Between, Near
        <5>2. QED BY <5>1, CallTypes
      <4>4. t.saved = 0 => calls[c].tab.prev.rev >= t.saved
        BY <4>3
      <4>5. QED BY <2>2, <2>4, <2>5, <4>2, <4>4
    <3>2. QED BY <3>1 DEF Awaits
  <2>7. Lists(calls, t2)
    BY <2>2, <2>4, <2>5 DEF Between, Lists
  <2>8. ForAsker(t2) /\ Listed(t2)
    BY <2>4 DEF Between, ForAsker, Listed
  <2>9. /\ t2.me = None => t2.pending.id = 0 /\ t2.issuing.id = 0 /\ t2.shown.code = 0
        /\ t2.saved # 0 => t2.sel # None /\ t2.saved <= Len(audit[t2.sel])
        /\ t2.pending.id # 0 =>
             /\ t2.pending.id <= steps /\ t2.pending.w \in Workspaces
             /\ t2.pending.w # t2.sel => t2.saved = 0
             /\ t2.panel.w = t2.pending.w => t2.panel.status # "loaded"
             /\ t2.pending.healing => t2.pending.settled
    BY <2>2, <2>3, <2>4, <2>5 DEF Between
  <2>10. QED BY <1>3, <2>1, <2>2, <2>4, <2>6, <2>7, <2>8, <2>9 DEF Between
<1>4. CASE t.pending.id # 0 /\ t.pending.w \notin t.spaces
  <2> DEFINE t2 == [t EXCEPT !.pending = NoPending]
  <2>1. Resumed(t) = t2
    BY <1>4 DEF Resumed
  <2>2. t2 \in Tabs /\ t2.me = t.me /\ t2.spaces = t.spaces /\ t2.sel = t.sel /\ t2.panel = t.panel /\ t2.pending = NoPending
        /\ t2.issuing = t.issuing /\ t2.shown = t.shown /\ t2.hidden = t.hidden /\ t2.saved = t.saved
    BY <1>1, Nothings DEF Tabs
  <2> HIDE DEF t2
  <2>3. Awaits(calls, t2)
    <3>1. ASSUME NEW c \in Calls, Awaited(calls[c], t2) PROVE FALSE
      <4>1. calls[c].tab.id \in 1 .. steps /\ calls[c].tab.id = 0
        BY <2>2, <3>1, Nothings DEF Between, Fresh, Awaited
      <4>2. QED BY <4>1
    <3>2. QED BY <3>1 DEF Awaits
  <2>4. Lists(calls, t2)
    BY <2>2, Nothings DEF Between, Lists
  <2>5. ForAsker(t2) /\ Listed(t2)
    BY <2>2 DEF Between, ForAsker, Listed
  <2>6. QED BY <2>1, <2>2, <2>3, <2>4, <2>5, Nothings DEF Between
<1>5. QED BY <1>2, <1>3, <1>4

LEMMA SelectedKept ==
  ASSUME NEW calls, NEW t, Between(calls, t), NEW d \in Selected(t),
         t.pending.id # 0 => t.pending.reconciled /\ t.pending.w \in t.spaces /\ t.sel = t.pending.w
  PROVE  Good(calls, d, steps) /\ Listed(d)
<1>1. t \in Tabs
  BY DEF Between
<1>2. PICK w \in (IF t.spaces = {} THEN {None} ELSE IF t.sel \in t.spaces THEN {t.sel} ELSE t.spaces) :
        d = Drawn([t EXCEPT !.sel = w, !.saved = IF w = t.sel THEN @ ELSE 0])
  BY DEF Selected
<1>3. w \in t.spaces \cup {None} /\ w \in Places /\ (t.pending.id # 0 => w = t.sel)
  BY <1>1, <1>2, TabTypes DEF Places
<1> DEFINE t2 == [t EXCEPT !.sel = w, !.saved = IF w = t.sel THEN t.saved ELSE 0]
<1>4. d = Drawn(t2)
  BY <1>2
<1>5. t2 \in Tabs /\ t2.me = t.me /\ t2.spaces = t.spaces /\ t2.sel = w /\ t2.panel = t.panel /\ t2.pending = t.pending
      /\ t2.issuing = t.issuing /\ t2.shown = t.shown /\ t2.hidden = t.hidden /\ t2.saved = IF w = t.sel THEN t.saved ELSE 0
  BY <1>1, <1>3 DEF Tabs
<1> HIDE DEF t2
<1>6. TabKnows(t2, audit, steps) /\ ForAsker(t2)
  BY <1>3, <1>5 DEF Between, TabKnows, ForAsker
<1>7. Awaits(calls, t2)
  <2>1. CASE w = t.sel
    BY <1>5, <2>1, SameCalls DEF Between
  <2>2. CASE w # t.sel
    <3>1. t.pending.id = 0
      BY <1>3, <2>2
    <3>2. ASSUME NEW c \in Calls, Awaited(calls[c], t2) PROVE FALSE
      <4>1. calls[c].tab.id \in 1 .. steps /\ calls[c].tab.id = 0
        BY <1>5, <3>1, <3>2 DEF Between, Fresh, Awaited
      <4>2. QED BY <4>1
    <3>3. QED BY <3>2 DEF Awaits
  <2>3. QED BY <2>1, <2>2
<1>8. Lists(calls, t2)
  BY <1>5 DEF Between, Lists
<1>9. Listed(t2)
  <2>1. t.panel.rev \in Nat
    BY <1>1, TabTypes
  <2>2. t.panel.rev >= 0
    BY <2>1
  <2>3. QED BY <1>5, <2>2 DEF Between, Listed
<1>10. Good(calls, t2, steps)
  BY <1>5, <1>6, <1>7, <1>8 DEF Between, Good, Well
<1>11. QED BY <1>4, <1>5, <1>9, <1>10, DrawnKept

LEMMA ShowSessionKept ==
  ASSUME Server, Client, ShowSession PROVE Good(tx', tab', steps') /\ Listed(tab')
<1> DEFINE f == Found(tab.found.me, tab.found.spaces)
           i == [f.issuing EXCEPT !.reconciled = TRUE]
           f2 == [f EXCEPT !.issuing = i]
           calls == IF tab.me = tab.found.me THEN tx ELSE Outdated(tx, Generation)
<1>1. tab \in Tabs /\ tab.found.me \in Persons /\ tab.found.spaces \in SUBSET Workspaces
  BY TabTypes DEF Client, Sessions
<1>2. f \in Tabs /\ Between(calls, f)
  BY <1>1, FoundKept
<1>3. steps' = steps
  BY DEF ShowSession
<1>4. f2 = [f EXCEPT !.issuing.reconciled = TRUE]
  BY <1>2 DEF Tabs
<1>5. \E t \in Selected(Resumed([f EXCEPT !.issuing.reconciled = TRUE])) :
        LET u == IF t.issuing.settled THEN Finalized(t) ELSE t IN
        IF u.pending.settled THEN Reconcile(u, calls) ELSE tab' = u /\ tx' = calls
  BY DEF ShowSession, Found
<1> HIDE DEF f, calls
<1>6. i \in Issuings /\ i.id = f.issuing.id
  BY <1>2, TabTypes DEF Issuings
<1> HIDE DEF i
<1>7. f2 \in Tabs /\ f2.me = f.me /\ f2.spaces = f.spaces /\ f2.sel = f.sel /\ f2.panel = f.panel /\ f2.pending = f.pending
      /\ f2.issuing = i /\ f2.shown = f.shown /\ f2.hidden = f.hidden /\ f2.saved = f.saved
  BY <1>2, <1>6 DEF Tabs
<1>8. PICK t \in Selected(Resumed(f2)) :
        LET u == IF t.issuing.settled THEN Finalized(t) ELSE t IN
        IF u.pending.settled THEN Reconcile(u, calls) ELSE tab' = u /\ tx' = calls
  BY <1>4, <1>5
<1> HIDE DEF f2
<1>9. Between(calls, f2)
  <2>1. Awaits(calls, f2) /\ Lists(calls, f2)
    BY <1>2, <1>7, SameCalls DEF Between
  <2>2. ForAsker(f2) /\ Listed(f2)
    BY <1>2, <1>7 DEF Between, ForAsker, Listed
  <2>3. QED BY <1>2, <1>6, <1>7, <2>1, <2>2 DEF Between
<1> DEFINE r == Resumed(f2)
<1>10. Between(calls, r) /\ (r.pending.id # 0 => r.pending.reconciled /\ r.pending.w \in r.spaces /\ r.sel = r.pending.w)
  BY <1>9, ResumedKept
<1>11. t \in Selected(r)
  BY <1>8
<1> HIDE DEF r
<1>12. Good(calls, t, steps) /\ Listed(t)
  BY <1>10, <1>11, SelectedKept
<1> DEFINE u == IF t.issuing.settled THEN Finalized(t) ELSE t
<1>13. Good(calls, u, steps) /\ Listed(u)
  BY <1>12, FinalizedKept
<1>14. IF u.pending.settled THEN Reconcile(u, calls) ELSE tab' = u /\ tx' = calls
  BY <1>8
<1> HIDE DEF u
<1>15. CASE u.pending.settled
  <2>1. Near(calls) /\ u \in Tabs
    BY <1>13 DEF Good, Well
  <2>2. Good(Outdated(calls, {"list"}), u, steps) /\ Listed(Drawn(u))
    BY <1>13, <2>1, OutdatedKept, DrawnKept
  <2>3. QED BY <1>3, <1>13, <1>14, <1>15, <2>1, <2>2, ReconcileKept
<1>16. CASE ~u.pending.settled
  BY <1>3, <1>13, <1>14, <1>16
<1>17. QED BY <1>15, <1>16

-----------------------------------------------------------------------------
(* The other steps, and the start.                                         *)
LEMMA OthersSound ==
  ASSUME Server, Client, \/ \E p \in Offers : CallElsewhere(p[1], p[2])
                         \/ \E u \in Logins \cup {None} : ChangeLogin(u)
                         \/ Tick
  PROVE  Server' /\ Client'
<1>1. tx \in [Calls -> Records] /\ clock \in Nat /\ cookie \in Persons /\ steps \in Nat /\ audit \in [Workspaces -> Seq(Entries)]
      /\ \A w \in Workspaces : Len(audit[w]) >= Len(audit[w])
  BY DEF Server, Tables, Client
<1>2. ASSUME NEW p \in Offers, CallElsewhere(p[1], p[2]) PROVE Server' /\ Client'
  <2>1. PICK c \in Calls : tx' = [tx EXCEPT ![c] = [FreeCall EXCEPT !.at = "begun", !.op = p[2], !.by = p[1], !.began = clock]]
    BY <1>2 DEF CallElsewhere
  <2> DEFINE q == [FreeCall EXCEPT !.at = "begun", !.op = p[2], !.by = p[1], !.began = clock]
  <2>2. p[1] \in Users /\ p[2] \in AllOps
    BY MembersAssumption DEF AllOps
  <2>3. q \in Records /\ q.at = "begun" /\ q.by \in Users /\ ~q.mine
    <3>1. FreeCall \in Records /\ ~FreeCall.mine
      BY FreeIsFree
    <3>2. QED BY <1>1, <2>2, <3>1 DEF Records, AllOps, Persons
  <2>4. tx' = [tx EXCEPT ![c] = q]
    BY <2>1
  <2> HIDE DEF q
  <2>5. tx' \in [Calls -> Records] /\ tx'[c] = q /\ \A d \in Calls \ {c} : tx'[d] = tx[d]
    BY <1>1, <2>3, <2>4
  <2>6. Unlocked(c) /\ Follows(c)
    BY <2>3, <2>5 DEF Unlocked, Follows, Own
  <2>7. \A d \in Calls : (SameCall(d) \/ Unlocked(d)) /\ Follows(d)
    BY <2>5, <2>6, SameFollows
  <2>8. UNCHANGED <<db, clock, cookie, tab>> /\ steps' = steps + 1
    BY <1>2 DEF CallElsewhere, Act
  <2>9. Server'
    BY <1>1, <2>5, <2>7, <2>8, ServerRests
  <2>10. audit' = audit /\ steps' \in Nat /\ steps' >= steps
    BY <1>1, <2>8 DEF db
  <2>11. QED BY <1>1, <2>5, <2>7, <2>8, <2>9, <2>10, ClientStays
<1>3. ASSUME UNCHANGED <<db, tx, tab, steps>>, clock' \in Nat, cookie' \in Persons PROVE Server' /\ Client'
  <2>1. \A d \in Calls : (SameCall(d) \/ Unlocked(d)) /\ Follows(d)
    BY <1>3, SameFollows
  <2>2. Server'
    BY <1>1, <1>3, <2>1, ServerRests
  <2>3. audit' = audit /\ steps' \in Nat /\ steps' >= steps /\ tab' = tab /\ tx' \in [Calls -> Records]
    BY <1>1, <1>3 DEF db
  <2>4. QED BY <1>1, <2>1, <2>2, <2>3, ClientStays
<1>4. ASSUME NEW u \in Logins \cup {None}, ChangeLogin(u) PROVE Server' /\ Client'
  <2>1. UNCHANGED <<db, tx, tab, steps>> /\ clock' \in Nat /\ cookie' \in Persons
    BY <1>1, <1>4, MembersAssumption DEF ChangeLogin, Persons
  <2>2. QED BY <1>3, <2>1
<1>5. CASE Tick
  <2>1. UNCHANGED <<db, tx, tab, steps>> /\ clock' \in Nat /\ cookie' \in Persons
    BY <1>1, <1>5 DEF Tick
  <2>2. QED BY <1>3, <2>1
<1>6. QED BY <1>2, <1>4, <1>5

LEMMA ServerStarts == Init => Server
<1> SUFFICES ASSUME Init PROVE Server
  OBVIOUS
<1>1. Owner \in [Workspaces -> Users] /\ Joined \in [Workspaces -> SUBSET Users] /\ Held \in Seq(Users) /\ Lifetime \in Nat
      /\ MaxMembers \in Nat /\ None \notin Users
  BY MembersAssumption
<1>2. \A w \in Workspaces, u \in Users : member[w][u] = FirstMember(w, u)
  BY DEF Init
<1>3. \A w \in Workspaces, u \in Users :
        /\ FirstMember(w, u) \in Rows /\ (FirstMember(w, u).role = "owner" <=> u = Owner[w])
        /\ FirstMember(w, u).status = "active" <=> u \in Joined[w] \cup {Owner[w]}
  BY DEF FirstMember, Rows, NoMember, Roles
<1>4. member \in [Workspaces -> [Users -> Rows]]
  BY <1>3 DEF Init
<1>5. OwnersStay
  BY <1>2, <1>3 DEF OwnersStay
<1>6. MembersWithinLimit
  <2>1. ASSUME NEW w \in Workspaces PROVE IsFiniteSet(Active(w)) /\ Cardinality(Active(w)) <= MaxMembers
    <3>1. Active(w) = Joined[w] \cup {Owner[w]}
      BY <1>1, <1>2, <1>3 DEF Active
    <3>2. IsFiniteSet(Joined[w]) /\ Cardinality(Joined[w] \cup {Owner[w]}) <= MaxMembers
      BY MembersAssumption
    <3>3. IsFiniteSet(Joined[w] \cup {Owner[w]})
      BY <3>2, FS_AddElement
    <3>4. QED BY <3>1, <3>2, <3>3
  <2>2. QED BY <2>1 DEF MembersWithinLimit
<1>7. audit \in [Workspaces -> Seq(Entries)] /\ \A w \in Workspaces : audit[w] = <<>> /\ Len(audit[w]) = 0
  BY DEF Init
<1>8. AuditTellsMembers
  <2>1. ASSUME NEW w \in Workspaces, NEW u \in Users PROVE Told(w, u, Len(audit[w]), member[w][u])
    <3>1. member[w][u] = FirstMember(w, u) /\ \A j \in 1 .. Len(audit[w]) : FALSE
      BY <1>2, <1>7
    <3>2. QED BY <3>1 DEF Told
  <2>2. \A w \in Workspaces : DOMAIN audit[w] = {}
    BY <1>7
  <2>3. QED BY <2>1, <2>2 DEF AuditTellsMembers
<1>9. ASSUME NEW u \in Users
      PROVE  \/ code[u] = NoCode
             \/ code[u].id \in DOMAIN Held /\ Held[code[u].id] = u /\ code[u].expires = Lifetime /\ code[u].used = FALSE
                /\ code[u] = [id |-> code[u].id, expires |-> Lifetime, used |-> FALSE]
  <2>1. CASE Contains(Held, u)
    <3>1. \E i \in DOMAIN Held : Held[i] = u
      BY <1>1, <2>1 DEF Contains
    <3> DEFINE i == CHOOSE i \in DOMAIN Held : Held[i] = u
    <3>2. i \in DOMAIN Held /\ Held[i] = u
      BY <3>1
    <3>3. code[u] = [id |-> i, expires |-> Lifetime, used |-> FALSE]
      BY <2>1 DEF Init
    <3> HIDE DEF i
    <3>4. QED BY <3>2, <3>3
  <2>2. CASE ~Contains(Held, u)
    BY <2>2 DEF Init
  <2>3. QED BY <2>1, <2>2
<1>10. issued = Len(Held) /\ issued \in Nat /\ DOMAIN Held = 1 .. issued /\ admitted = {}
  BY <1>1 DEF Init
<1>11. ASSUME NEW u \in Users
       PROVE  /\ code[u] \in Codes /\ code[u].id <= issued /\ (code[u].id = 0 => code[u].expires = 0)
              /\ code[u].id # 0 => Held[code[u].id] = u
  <2>1. CASE code[u] = NoCode
    <3>1. NoCode \in Codes /\ NoCode.id = 0 /\ NoCode.expires = 0
      BY DEF Codes, NoCode
    <3>2. QED BY <1>10, <2>1, <3>1
  <2>2. CASE code[u] # NoCode
    <3> DEFINE i == code[u].id
    <3>1. i \in 1 .. issued /\ Held[i] = u /\ code[u] = [id |-> i, expires |-> Lifetime, used |-> FALSE]
      BY <1>9, <1>10, <2>2
    <3>2. i \in Nat /\ i # 0 /\ i <= issued
      BY <1>10, <3>1
    <3> HIDE DEF i
    <3>3. code[u] \in Codes
      BY <1>1, <3>1, <3>2 DEF Codes
    <3>4. QED BY <3>1, <3>2, <3>3 DEF i
  <2>3. QED BY <2>1, <2>2
<1>12. code \in [Users -> Codes] /\ CodesAreOnce
  <2>1. code = [u \in Users |-> code[u]]
    BY DEF Init
  <2>2. QED BY <1>10, <1>11, <2>1 DEF CodesAreOnce
<1>13. tx \in [Calls -> Records] /\ \A c \in Calls : tx[c].at = "free"
  BY FreeIsFree DEF Init
<1>14. LocksHold
  BY <1>13 DEF LocksHold, HoldsSpace
<1>15. clock \in Nat /\ cookie \in Persons
  <2>1. Opener \in Users
    BY MembersAssumption
  <2>2. QED BY <2>1 DEF Init, Persons
<1>16. QED BY <1>4, <1>5, <1>6, <1>7, <1>8, <1>10, <1>12, <1>13, <1>14, <1>15 DEF Server, Tables

LEMMA ClientStarts == Init => Client /\ Counters
<1> SUFFICES ASSUME Init PROVE Client /\ Counters
  OBVIOUS
<1> DEFINE w == CHOOSE w \in Workspaces : Opener = Owner[w]
           spaces == {v \in Workspaces : Opener \in Joined[v] \cup {Owner[v]}}
           t == [me |-> Opener, spaces |-> spaces, sel |-> w,
                 panel |-> NoPanel(w), pending |-> NoPending, issuing |-> NoIssuing, shown |-> NoShown,
                 hidden |-> FALSE, load |-> "none", found |-> NoSession, saved |-> 0]
<1>1. tab = t
  BY DEF Init, OpenTab
<1>2. w \in Workspaces /\ Opener = Owner[w] /\ Opener \in Users /\ Opener # None
  BY MembersAssumption
<1>3. spaces \subseteq Workspaces /\ w \in spaces /\ w \in Places
  BY <1>2 DEF Places
<1> HIDE DEF w, spaces
<1>4. tab \in Tabs
  BY <1>1, <1>2, <1>3, Nothings DEF Tabs, Persons
<1>5. TabKnows(tab, audit, steps) /\ Listed(tab) /\ ForAsker(tab)
  BY <1>1, <1>2, <1>3, Nothings DEF TabKnows, Listed, ForAsker
<1>6. tx \in [Calls -> Records] /\ \A c \in Calls : tx[c].at = "free"
  BY FreeIsFree DEF Init
<1>7. CallsKnow(tx, tab, audit, steps)
  BY <1>6 DEF CallsKnow, Awaited, Change, Listing, Own
<1>8. steps \in Nat /\ losses \in Nat /\ logins \in Nat /\ told \in BOOLEAN
  BY DEF Init
<1>9. QED BY <1>4, <1>5, <1>6, <1>7, <1>8 DEF Client, Counters

-----------------------------------------------------------------------------
(* The invariant and what follows from it.                                 *)
LEMMA TabStepsSound ==
  ASSUME Server, Client, \/ \E c \in Calls : Receive(c) \/ Lose(c)
                         \/ TabSteps
  PROVE  Server' /\ Client'
<1>1. Good(tx', tab', steps') /\ Listed(tab')
  <2>1. CASE \E c \in Calls : Receive(c) \/ Lose(c)
    BY <2>1, AnswersKept
  <2>2. CASE ReloadSession \/ GetSession \/ LoseSession \/ HideCode
    BY <2>2, SessionStepsKept
  <2>3. CASE \E w \in Workspaces : SelectWorkspace(w)
    BY <2>3, SelectWorkspaceKept
  <2>4. CASE \E o \in Saves : Save(o)
    BY <2>4, SaveKept
  <2>5. CASE ShowList BY <2>5, ShowListKept
  <2>6. CASE AskCode BY <2>6, AskCodeKept
  <2>7. CASE HearChange BY <2>7, HearChangeKept
  <2>8. CASE ShowSession BY <2>8, ShowSessionKept
  <2>9. QED BY <2>1, <2>2, <2>3, <2>4, <2>5, <2>6, <2>7, <2>8 DEF TabSteps
<1>2. UNCHANGED <<db, clock, cookie>>
  BY DEF TabSteps, Receive, Lose, ReloadSession, GetSession, LoseSession, HideCode, SelectWorkspace, Save, ShowList, AskCode,
         HearChange, ShowSession
<1>3. steps' \in Nat
  <2>1. steps' \in {steps, steps + 1}
    BY DEF TabSteps, Receive, Lose, ReloadSession, GetSession, LoseSession, HideCode, SelectWorkspace, Save, ShowList, AskCode,
           HearChange, ShowSession, Act
  <2>2. QED BY <2>1, Start
<1>4. clock' \in Nat /\ cookie' \in Persons
  BY <1>2 DEF Server, Tables
<1>5. QED BY <1>1, <1>2, <1>3, <1>4, TabStepSound

LEMMA CountersStay ==
  ASSUME Counters, Next PROVE Counters'
<1>1. /\ losses' \in {losses, losses + 1} /\ logins' \in {logins, logins + 1} /\ told' \in {told, TRUE, FALSE}
  BY DEF Next, Database, Arrive, LockWorkspace, UpdateMember, LockCode, RedeemCode, LockUser, IssueCode, BreakDeadlock, ListMembers,
         Receive, Lose, TabSteps, ReloadSession, GetSession, LoseSession, HideCode, SelectWorkspace, Save, ShowList, AskCode,
         HearChange, ShowSession, CallElsewhere, ChangeLogin, Tick
<1>2. losses' \in Nat /\ logins' \in Nat
  BY <1>1 DEF Counters
<1>3. told' \in BOOLEAN
  BY <1>1 DEF Counters
<1>4. QED BY <1>2, <1>3 DEF Counters

(* In every reachable state the tables are sound, the locks hold what was  *)
(* looked up behind them, and the tab knows which of its calls may still   *)
(* answer: TableIsSound.                                                   *)
THEOREM SoundAlways == Spec => []TableIsSound
<1>1. Init => TableIsSound
  BY ServerStarts, ClientStarts, Parts
<1>2. TableIsSound /\ [Next]_vars => TableIsSound'
  <2> SUFFICES ASSUME TableIsSound, [Next]_vars PROVE TableIsSound'
    OBVIOUS
  <2>1. Server /\ Client /\ Counters
    BY Parts
  <2>2. CASE Next
    <3>1. Server' /\ Client'
      <4>1. CASE \E c \in Calls : Database(c)
        BY <2>1, <4>1, DatabaseSound
      <4>2. CASE (\E c \in Calls : Receive(c) \/ Lose(c)) \/ TabSteps
        BY <2>1, <4>2, TabStepsSound
      <4>3. CASE \/ \E p \in Offers : CallElsewhere(p[1], p[2])
                 \/ \E u \in Logins \cup {None} : ChangeLogin(u)
                 \/ Tick
        BY <2>1, <4>3, OthersSound
      <4>4. QED BY <2>2, <4>1, <4>2, <4>3 DEF Next
    <3>2. Counters'
      BY <2>1, <2>2, CountersStay
    <3>3. (Server /\ Client /\ Counters)'
      BY <3>1, <3>2
    <3>4. QED BY <3>3, Parts, PTL
  <2>3. CASE UNCHANGED vars
    <3>1. UNCHANGED <<db, clock, cookie, tx, tab, steps, losses, logins, told>>
      BY <2>3 DEF vars, db
    <3>2. Good(tx', tab', steps') /\ Listed(tab')
      BY <2>1, <3>1, Start
    <3>3. clock' \in Nat /\ cookie' \in Persons /\ steps' \in Nat
      BY <2>1, <3>1 DEF Server, Tables, Client
    <3>4. Server' /\ Client'
      BY <2>1, <3>1, <3>2, <3>3, TabStepSound
    <3>5. Counters'
      BY <2>1, <3>1 DEF Counters
    <3>6. (Server /\ Client /\ Counters)'
      BY <3>4, <3>5
    <3>7. QED BY <3>6, Parts, PTL
  <2>4. QED BY <2>2, <2>3
<1>3. QED BY <1>1, <1>2, PTL DEF Spec

(* Once the tab has been told that its change was made, it shows no list   *)
(* that was read before the change.                                        *)
THEOREM SettledIsListedAlways == Spec => []SettledIsListed
<1>1. TableIsSound => SettledIsListed
  BY DEF TableIsSound, SettledIsListed
<1>2. QED BY <1>1, SoundAlways, PTL

(* The join code on the page was asked for by the user whose page it is.   *)
THEOREM ShownCodeIsAskersAlways == Spec => []ShownCodeIsAskers
<1>1. TableIsSound => ShownCodeIsAskers
  BY DEF TableIsSound, ShownCodeIsAskers
<1>2. QED BY <1>1, SoundAlways, PTL

LEMMA OnlyTheseWrite ==
  ASSUME [Next]_vars
  PROVE  \/ UNCHANGED db
         \/ \E c \in Calls : UpdateMember(c) \/ RedeemCode(c) \/ IssueCode(c)
BY DEF vars, Next, Database, Arrive, LockWorkspace, LockCode, LockUser, BreakDeadlock, ListMembers,
       Receive, Lose, TabSteps, ReloadSession, GetSession, LoseSession, HideCode, SelectWorkspace, Save, ShowList, AskCode,
       HearChange, ShowSession, CallElsewhere, ChangeLogin, Tick, db

(* A join code lets one user into one workspace, and only while it is the  *)
(* newest of its user.                                                     *)
THEOREM CodeAdmitsOnceAlways == Spec => CodeAdmitsOnce
<1>1. ASSUME TableIsSound, [Next]_vars, NEW a \in admitted' \ admitted
      PROVE  AdmitsByNewest(a)
  <2>1. PICK c \in Calls : UpdateMember(c) \/ RedeemCode(c) \/ IssueCode(c)
    BY <1>1, OnlyTheseWrite DEF db
  <2>2. RedeemCode(c)
    BY <1>1, <2>1 DEF UpdateMember, UpdateTarget, IssueCode, db
  <2>3. PICK u \in Users : code[u].id = tx[c].op.code /\ a = <<tx[c].op.code, tx[c].op.w, u>>
    BY <1>1, <2>2 DEF RedeemCode, db
  <2>4. ~code[u].used
    BY <1>1, <2>2, <2>3 DEF TableIsSound, LocksHold, RedeemCode
  <2>5. \A b \in admitted : code[u].id = b[1] => code[u].used
    BY <1>1 DEF TableIsSound, CodesAreOnce
  <2>6. QED BY <2>3, <2>4, <2>5 DEF AdmitsByNewest
<1>2. TableIsSound /\ [Next]_vars => [\A a \in admitted' \ admitted : AdmitsByNewest(a)]_vars
  BY <1>1
<1>3. QED BY <1>2, SoundAlways, PTL DEF CodeAdmitsOnce, Spec

(* Whoever changes a membership manages the workspace at the moment of the *)
(* change, and what is changed is never the owner's.                       *)
THEOREM ChangesAreManagedAlways == Spec => ChangesAreManaged
<1>1. ASSUME TableIsSound, [Next]_vars, NEW w \in Workspaces, NEW u \in Users, member'[w][u] # member[w][u]
      PROVE  u # Owner[w] /\ \E c \in Calls : HoldsSpace(c, w) /\ ~HoldsSpace(c, w)' /\ Manages(tx[c].by, w)
  <2>0. member \in [Workspaces -> [Users -> Rows]] /\ OwnersStay /\ LocksHold /\ tx \in [Calls -> Records]
    BY <1>1 DEF TableIsSound, TypeOK
  <2>1. PICK c \in Calls : UpdateMember(c) \/ RedeemCode(c) \/ IssueCode(c)
    BY <1>1, OnlyTheseWrite DEF db
  <2>2. ASSUME NEW v \in Users, tx[c].at \in {"locked", "coded"}, tx[c].op.kind \in {"update", "redeem"}, Refusal(c) = "none",
               \E new : member' = [member EXCEPT ![tx[c].op.w][v] = new], v # Owner[tx[c].op.w],
               \E payload : Answered(c, "ok", payload)
        PROVE  u # Owner[w] /\ \E d \in Calls : HoldsSpace(d, w) /\ ~HoldsSpace(d, w)' /\ Manages(tx[d].by, w)
    <3>1. w = tx[c].op.w /\ u = v
      BY <1>1, <2>0, <2>2
    <3>2. HoldsSpace(c, w) /\ Manages(tx[c].by, w)
      BY <2>2, <3>1 DEF HoldsSpace, Manages, Refusal
    <3>3. tx'[c].at \in {"free", "answered"}
      BY <2>0, <2>2, FreeIsFree DEF Answered, Records
    <3>4. ~HoldsSpace(c, w)'
      BY <3>3 DEF HoldsSpace
    <3>5. QED BY <2>2, <3>1, <3>2, <3>4
  <2>3. CASE UpdateMember(c)
    <3>1. /\ tx[c].at = "locked" /\ tx[c].op.kind = "update" /\ Refusal(c) = "none"
          /\ member[tx[c].op.w][tx[c].op.user].role # "owner"
          /\ member' = [member EXCEPT ![tx[c].op.w][tx[c].op.user] = [role |-> tx[c].op.role, status |-> tx[c].op.status]]
          /\ \E payload : Answered(c, "ok", payload)
      BY <1>1, <2>3 DEF UpdateMember, UpdateTarget, db
    <3>2. tx[c].op.w \in Workspaces /\ tx[c].op.user \in Users
      BY <2>0, <3>1, CallTypes, OpKinds
    <3>3. tx[c].op.user # Owner[tx[c].op.w]
      BY <2>0, <3>1, <3>2 DEF OwnersStay
    <3>4. \E new : member' = [member EXCEPT ![tx[c].op.w][tx[c].op.user] = new]
      BY <3>1
    <3>5. QED BY <2>2, <3>1, <3>2, <3>3, <3>4
  <2>4. CASE RedeemCode(c)
    <3>1. tx[c].at = "coded" /\ tx[c].op.kind = "redeem" /\ Refusal(c) = "none"
      BY <2>0, <2>4 DEF RedeemCode, LocksHold
    <3>2. PICK v \in Users :
            /\ Admits(tx[c].op.w, v)
            /\ member' = [member EXCEPT ![tx[c].op.w][v] = [role |-> tx[c].op.role, status |-> "active"]]
            /\ \E payload : Answered(c, "ok", payload)
      BY <1>1, <2>4 DEF RedeemCode, db
    <3>3. tx[c].op.w \in Workspaces
      BY <2>0, <3>1, CallTypes, OpKinds
    <3>4. v # Owner[tx[c].op.w]
      BY <2>0, <3>2, <3>3 DEF OwnersStay, Admits, NoMember
    <3>5. (\E new : member' = [member EXCEPT ![tx[c].op.w][v] = new]) /\ \E payload : Answered(c, "ok", payload)
      BY <3>2
    <3>6. QED BY <2>2, <3>1, <3>2, <3>4, <3>5
  <2>5. CASE IssueCode(c)
    BY <1>1, <2>5 DEF IssueCode
  <2>6. QED BY <2>1, <2>3, <2>4, <2>5
<1>2. TableIsSound /\ [Next]_vars =>
        [\A w \in Workspaces, u \in Users : member'[w][u] # member[w][u] =>
           /\ u # Owner[w]
           /\ \E c \in Calls : HoldsSpace(c, w) /\ ~HoldsSpace(c, w)' /\ Manages(tx[c].by, w)]_vars
  BY <1>1
<1>3. QED BY <1>2, SoundAlways, PTL DEF ChangesAreManaged, Spec
=============================================================================
