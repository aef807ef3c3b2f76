----------------------------- MODULE WebSession -----------------------------
(***************************************************************************)
(* The login of a browser, shared by the tabs of the web application.      *)
(*                                                                         *)
(* The tabs share one cookie jar, one version in the local storage that    *)
(* every change of the login replaces, a Web Lock and a BroadcastChannel.  *)
(* A tab (app-assets.ts) sends its calls with the cookies of the moment;   *)
(* when the access token has expired the worker (index.ts) asks for a      *)
(* refresh, which a tab does under the lock and then sends its call again. *)
(* The authentication service exchanges a refresh token once.              *)
(*                                                                         *)
(* The changing call that is modelled is the creation of a workspace,      *)
(* whose unknown result locks the tab's form until the list of workspaces  *)
(* answers the question.  Every creation has a slug of its own.            *)
(*                                                                         *)
(* An answer's Set-Cookie and the tab's handler of it are one step.        *)
(***************************************************************************)
EXTENDS Naturals, FiniteSets, Sequences

CONSTANTS Users, Tabs,
          MaxCalls,   \* calls of one tab that are under way at a time
          MaxLogins, MaxVersion, MaxRenewals, MaxCreates, MaxSteps, \* bounds
          None

ASSUME BoundAssumption ==
  /\ MaxCalls \in Nat \ {0} /\ MaxLogins \in Nat \ {0} /\ MaxVersion \in Nat \ {0}
  /\ MaxRenewals \in Nat /\ MaxCreates \in Nat \ {0} /\ MaxSteps \in Nat \ {0}
ASSUME NamesAssumption == None \notin Users /\ None \notin Tabs \X Nat

VARIABLES logins,     \* the authentication service: every login so far
          workspaces, \* the workspaces that were created
          late,       \* creations whose sender gave up before they were carried out, if ever they are
          cookie,     \* the browser's cookies
          version,    \* local storage: meccha-manual-authentication-version
          lock,       \* the call that holds the Web Lock
          channel,    \* the announcements on their way to each tab
          tab,        \* each tab's screen and memory
          call,       \* the calls of each tab that are under way
          ended,      \* the logins that were ended on purpose or by a failure
          crossed,    \* the tabs that loaded the session while their own logout was under way
          unseen,     \* the creations of each tab whose result its user has not seen
          forgotten,  \* those that the tab let go before it had seen their result
          failed,     \* whether anything has failed so far
          steps       \* what users and failures have done so far

service == <<logins, workspaces, late>>
shared == <<cookie, version, lock, channel>>
ghosts == <<ended, crossed, unseen, forgotten, failed, steps>>
vars == <<logins, workspaces, late, cookie, version, lock, channel, tab, call, ended, crossed, unseen, forgotten,
          failed, steps>>

Slots == 1..MaxCalls
Slugs == 1..MaxCreates
Logins == 1..MaxLogins

NoCookie == [login |-> 0, access |-> FALSE, token |-> 0]
NoAnswer == [code |-> "none", user |-> None, slugs |-> {}]
NoCall == [op |-> "none", stage |-> "first", fresh |-> FALSE, latest |-> FALSE, keeps |-> FALSE,
           version |-> 0, user |-> None, under |-> None, slug |-> 0, confirmed |-> FALSE,
           sent |-> NoCookie, answer |-> NoAnswer]
Opened == [user |-> None, screen |-> "boot", uncertain |-> {}, stored |-> {}, flight |-> 0]

People == Users \cup {None}
Logged == [user : Users, token : 0..MaxRenewals, open : BOOLEAN]
Cookies == [login : {0} \cup Logins, access : BOOLEAN, token : 0..MaxRenewals]
Creations == [user : Users, slug : Slugs]
Rows == [user : Users, asked : People, slug : Slugs, again : BOOLEAN]
Answers ==
  [code : {"none", "pending", "ok", "refresh", "required", "expired", "lost", "changed"},
   user : People, slugs : SUBSET Nat]
Calls ==
  [op : {"none", "load", "create", "check", "login", "logout"},
   stage : {"first", "wait", "again", "refresh", "last"},
   fresh : BOOLEAN, latest : BOOLEAN, keeps : BOOLEAN, version : 0..MaxVersion, user : People, under : People,
   slug : {0} \cup Slugs, confirmed : BOOLEAN, sent : Cookies, answer : Answers]
Pages ==
  [user : People, screen : {"boot", "shell", "login", "failure"},
   uncertain : SUBSET Creations, stored : SUBSET Creations, flight : {0} \cup Slots]

TypeOK ==
  /\ logins \in Seq(Logged) /\ Len(logins) <= MaxLogins
  /\ workspaces \subseteq Rows /\ late \subseteq Rows
  /\ cookie \in Cookies
  /\ version \in 1..MaxVersion
  /\ lock \in {None} \cup (Tabs \X Slots)
  /\ channel \in [Tabs -> Seq(1..MaxVersion)]
  /\ tab \in [Tabs -> Pages] /\ \A t \in Tabs : tab[t].screen = "shell" => tab[t].user # None
  /\ call \in [Tabs -> [Slots -> Calls]]
  /\ unseen \in [Tabs -> SUBSET Creations]
  /\ forgotten \in [Tabs -> SUBSET Creations]
  /\ crossed \subseteq Tabs
  /\ failed \in BOOLEAN /\ steps \in 0..MaxSteps

\* A logged in browser whose tabs show the user.  One of them may have asked for a
\* workspace without an answer: the creation is still to be carried out, if ever.
Locked(u) == [Opened EXCEPT !.user = u, !.screen = "shell", !.uncertain = {[user |-> u, slug |-> 1]},
                            !.stored = {[user |-> u, slug |-> 1]}]
Init ==
  /\ \E u \in Users, asked \in {{}} \cup {{t} : t \in Tabs} :
       /\ logins = <<[user |-> u, token |-> 0, open |-> TRUE]>>
       /\ tab = [t \in Tabs |-> IF t \in asked THEN Locked(u)
                               ELSE [Opened EXCEPT !.user = u, !.screen = "shell"]]
       /\ unseen = [t \in Tabs |-> tab[t].uncertain]
       /\ failed = (asked # {}) /\ steps = Cardinality(asked)
       /\ late = IF asked = {} THEN {} ELSE {[user |-> u, asked |-> u, slug |-> 1, again |-> FALSE]}
  /\ cookie = [login |-> 1, access |-> TRUE, token |-> 0]
  /\ workspaces = {}
  /\ version = 1 /\ lock = None
  /\ channel = [t \in Tabs |-> <<>>]
  /\ call = [t \in Tabs |-> [s \in Slots |-> NoCall]]
  /\ ended = {} /\ crossed = {} /\ forgotten = [t \in Tabs |-> {}]

\* The user does something, or something fails.
Acts == steps < MaxSteps /\ steps' = steps + 1 /\ failed' = failed
Fails == steps < MaxSteps /\ steps' = steps + 1 /\ failed' = TRUE

-----------------------------------------------------------------------------
(* What a tab remembers. *)

\* A call takes the first slot that is free.
Free(t, s) == call[t][s] = NoCall /\ \A x \in Slots : x < s => call[t][x] # NoCall

\* Sent with the cookies of the moment.
Code(c) == [code |-> c, user |-> None, slugs |-> {}]
Sent(c, stage) == [c EXCEPT !.stage = stage, !.sent = cookie', !.answer = Code("pending")]

NewCall(op, user) ==
  [op |-> op, stage |-> "first", fresh |-> op # "login", latest |-> op \in {"load", "create"}, keeps |-> FALSE,
   version |-> IF op \in {"create", "logout"} THEN version' ELSE 0, user |-> user, under |-> None,
   slug |-> 0, confirmed |-> FALSE, sent |-> NoCookie, answer |-> NoAnswer]

\* ++sessionReloadSequence: the loads before this one no longer count.
Superseding(calls, s, c) ==
  [x \in Slots |-> IF x = s THEN c ELSE [calls[x] EXCEPT !.latest = FALSE]]

Outdated(calls) == [x \in Slots |-> [calls[x] EXCEPT !.fresh = FALSE]]

Loading(calls, s, keeps) ==
  Superseding(calls, s, Sent([NewCall("load", None) EXCEPT !.keeps = keeps], "first"))

Freed(calls, s) == [calls EXCEPT ![s] = NoCall]

\* replaceCurrentSession
Discards(m, u) == m.user # None /\ m.user # u
Replaced(m, u) ==
  IF Discards(m, u) THEN [m EXCEPT !.user = u, !.uncertain = {}, !.stored = {}, !.flight = 0]
  ELSE [m EXCEPT !.user = u]

\* restoreUncertainWorkspaceCreation
Restored(m, u) ==
  IF \E w \in m.uncertain : w.user = u THEN m
  ELSE LET kept == {w \in m.stored : w.user = u}
       IN [m EXCEPT !.stored = kept, !.uncertain = IF kept = {} THEN @ ELSE kept]

Cleared(m) == [m EXCEPT !.uncertain = {}, !.stored = {}]
Saved(m, w) == [m EXCEPT !.uncertain = {w}, !.stored = {w}]
Landed(m, s) == IF m.flight = s THEN [m EXCEPT !.flight = 0] ELSE m

Creation(c) == [user |-> c.user, slug |-> c.slug]

\* Which of its creations the user of a tab learns of, and which the tab lets go.
Learns(t, seen, lost) ==
  /\ unseen' = [unseen EXCEPT ![t] = @ \ seen]
  /\ forgotten' = [forgotten EXCEPT ![t] = @ \cup (unseen[t] \cap lost)]
Remembers == UNCHANGED <<unseen, forgotten>>

\* A creation that was forgotten is remembered again, in place of any other.
Recalls(t, w) ==
  /\ unseen' = unseen
  /\ forgotten' = IF w \in forgotten[t] THEN [forgotten EXCEPT ![t] = (@ \cup unseen[t]) \ {w}]
                  ELSE forgotten

\* A list that settles the question whatever it shows.
AnyList(m, u, slugs) == m.uncertain # {}

\* What a list that shows the slugs settles.
Listed(m, u, slugs) == \E w \in m.uncertain : w.user = u /\ w.slug \in slugs

\* withAuthenticationLock: one call of the browser at a time changes the cookies.
NoLock == TRUE
Available == lock = None

AuthenticationVersion == version
AdvanceVersion == version < MaxVersion /\ version' = AuthenticationVersion + 1

\* announceAuthenticationChange, with the version as it is by then.
Announce(t) == channel' = [o \in Tabs |-> IF o = t THEN channel[o] ELSE Append(channel[o], version')]

Quiet == UNCHANGED <<version, channel>>

-----------------------------------------------------------------------------
(* The worker and the authentication service. *)

LoginUser == IF cookie.login = 0 THEN None ELSE logins[cookie.login].user

Valid(k) == k.access /\ logins[k.login].open
Renewable(k) == logins[k.login].open /\ logins[k.login].token = k.token

ListOf(u) == {w.slug : w \in {x \in workspaces : x.user = u}}

Answered(t, s, a) == call' = [call EXCEPT ![t][s].answer = a]

\* requireSession: what is said to a call without a valid access token.
NotAuthorized(k) == Code(IF k.login = 0 THEN "required" ELSE "refresh")

Asked(t, s, ops) ==
  call[t][s].op \in ops /\ call[t][s].stage \in {"first", "again", "last"}
  /\ call[t][s].answer.code = "pending"

GetSession(t, s) ==
  LET k == call[t][s].sent
  IN /\ Asked(t, s, {"load", "check"})
     /\ IF Valid(k)
        THEN LET u == logins[k.login].user
             IN Answered(t, s, [code |-> "ok", user |-> u, slugs |-> ListOf(u)])
        ELSE Answered(t, s, NotAuthorized(k))
     /\ UNCHANGED <<service, shared, tab, ghosts>>

Made(c) == [user |-> logins[c.sent.login].user, asked |-> c.under, slug |-> c.slug,
            again |-> c.stage # "first"]

CreateWorkspace(t, s) ==
  LET k == call[t][s].sent
  IN /\ Asked(t, s, {"create"})
     /\ IF Valid(k)
        THEN workspaces' = workspaces \cup {Made(call[t][s])} /\ Answered(t, s, Code("ok"))
        ELSE workspaces' = workspaces /\ Answered(t, s, NotAuthorized(k))
     /\ UNCHANGED <<logins, late, shared, tab, ghosts>>

\* The creation is carried out after its sender gave up.
CreateLate ==
  \E w \in late :
    /\ workspaces' = workspaces \cup {w} /\ late' = late \ {w}
    /\ UNCHANGED <<logins, shared, tab, call, ghosts>>

RefreshSession(t, s) ==
  LET k == call[t][s].sent
  IN /\ call[t][s].stage = "refresh" /\ call[t][s].answer.code = "pending"
     /\ IF k.login # 0 /\ Renewable(k)
        THEN logins' = [logins EXCEPT ![k.login].token = @ + 1] /\ Answered(t, s, Code("ok"))
        ELSE logins' = logins /\ Answered(t, s, Code("expired"))
     /\ UNCHANGED <<workspaces, late, shared, tab, ghosts>>

Login(t, s) ==
  /\ Asked(t, s, {"login"}) /\ Len(logins) < MaxLogins
  /\ logins' = Append(logins, [user |-> call[t][s].user, token |-> 0, open |-> TRUE])
  /\ Answered(t, s, [code |-> "ok", user |-> None, slugs |-> {Len(logins')}])
  /\ UNCHANGED <<workspaces, late, shared, tab, ghosts>>

\* The session is ended if the cookies still open it; they are removed in any case, and so
\* when the service could not end it (LOGOUT_REVOKE_FAILED).
Logout(t, s) ==
  LET k == call[t][s].sent
  IN /\ Asked(t, s, {"logout"})
     /\ LET opens == k.login # 0 /\ (Valid(k) \/ Renewable(k))
        IN \/ /\ logins' = IF opens THEN [logins EXCEPT ![k.login].open = FALSE] ELSE logins
              /\ UNCHANGED <<failed, steps>>
           \/ opens /\ logins' = logins /\ Acts
     /\ ended' = ended \cup ({k.login} \ {0})
     /\ Answered(t, s, Code("ok"))
     /\ UNCHANGED <<workspaces, late, shared, tab, crossed, unseen, forgotten>>

-----------------------------------------------------------------------------
(* A call and its refresh (requestJson, retryAfterRefreshWithAuthenticationLock). *)

\* The cookies after the answer has arrived.
Stored(c) ==
  CASE c.answer.code \in {"none", "pending", "lost", "refresh", "required"} -> cookie
    [] c.op = "login" -> [login |-> CHOOSE l \in c.answer.slugs : TRUE, access |-> TRUE, token |-> 0]
    [] c.op = "logout" \/ c.answer.code = "expired" -> NoCookie
    [] c.stage = "refresh" -> [c.sent EXCEPT !.access = TRUE, !.token = @ + 1]
    [] OTHER -> cookie

IsRead(c) == c.op \in {"load", "check"}
Changed(c) == AuthenticationVersion # c.version

\* reconcileAuthenticationVersion refuses to send a change again after the login changed.
SendsAgain(c) == FALSE
Refuses(c) == ~IsRead(c) /\ Changed(c)

TryAgain(t, s) ==
  LET c == call[t][s]
  IN /\ c.stage = "first" /\ c.answer.code = "refresh"
     /\ Available /\ cookie' = cookie /\ Quiet
     /\ IF Refuses(c)
        THEN lock' = lock /\ call' = [call EXCEPT ![t][s].answer = Code("changed")]
        ELSE lock' = <<t, s>> /\ call' = [call EXCEPT ![t][s] = Sent([c EXCEPT !.version = IF IsRead(c) THEN 0 ELSE version], "again")]
     /\ UNCHANGED <<service, tab, ghosts>>

Refresh(t, s) ==
  LET c == call[t][s]
  IN /\ c.stage = "again" /\ c.answer.code = "refresh"
     /\ UNCHANGED shared
     /\ call' = [call EXCEPT ![t][s] = Sent(c, "refresh")]
     /\ UNCHANGED <<service, tab, ghosts>>

SendLast(t, s) ==
  LET c == call[t][s]
  IN /\ c.stage = "refresh" /\ c.answer.code = "ok"
     /\ cookie' = Stored(c)
     /\ call' = [call EXCEPT ![t][s] = Sent(c, "last")]
     /\ UNCHANGED <<service, version, lock, channel, tab, ghosts>>

\* How the call ended for its caller.
Ended(c) ==
  \/ c.stage \in {"first", "again", "last"} /\ c.answer.code \in {"ok", "required", "lost", "changed"}
  \/ c.stage = "last" /\ c.answer.code = "refresh"
  \/ c.stage = "refresh" /\ c.answer.code \in {"expired", "lost"}
Terminal(c) == c.answer.code \in {"required", "expired"}

SameUser(t, c) == tab[t].user = c.user

Ends(t, s, op) ==
  LET c == call[t][s]
  IN /\ c.op = op /\ Ended(c)
     /\ lock' = IF lock = <<t, s>> THEN None ELSE lock
     /\ cookie' = Stored(c)
     /\ crossed' = IF op = "logout" /\ (~c.fresh \/ \E x \in Slots : call[t][x].op = "load" /\ call[t][x].fresh)
                   THEN crossed \cup {t} ELSE crossed
     /\ UNCHANGED <<service, ended, failed, steps>>

\* A refresh that failed for good is announced before its caller goes on.
AnnounceExpired(t, c) ==
  IF c.answer.code = "expired" THEN AdvanceVersion /\ Announce(t) ELSE Quiet

-----------------------------------------------------------------------------
(* The tab. *)

\* The tab's user and the answered creations are shown.
Show(t, s, u, slugs) ==
  LET calls == IF tab[t].user = u THEN call[t] ELSE Outdated(call[t])
      m == Restored(Replaced(tab[t], u), u)
      seen == Listed(m, u, slugs)
      f == m.flight
  IN /\ tab' = [tab EXCEPT ![t] =
          IF seen THEN [Cleared(m) EXCEPT !.screen = "shell",
                                          !.flight = IF f # 0 /\ call[t][f].slug \in slugs THEN 0 ELSE f]
          ELSE [m EXCEPT !.screen = "shell"]]
     /\ call' = [call EXCEPT ![t] =
          IF seen /\ f # 0 /\ f # s /\ call[t][f].slug \in slugs
          THEN Freed([calls EXCEPT ![f].confirmed = TRUE], s) ELSE Freed(calls, s)]
     /\ Learns(t, {w \in Creations : w.user = u /\ w.slug \in slugs}, {w \in Creations : w.user # u})

SignedOut(t, s, screen) ==
  /\ tab' = [tab EXCEPT ![t] = [Replaced(@, None) EXCEPT !.screen = screen]]
  /\ call' = [call EXCEPT ![t] = Freed(Outdated(@), s)]
  /\ Learns(t, {}, IF tab[t].user = None THEN {} ELSE Creations)

\* The answer belongs to a session or a load that is no longer the tab's.
OnlyOlder(c) == ~c.latest
Superseded(c) == ~c.fresh \/ ~c.latest

LoadSession(t, s) ==
  LET c == call[t][s]
  IN /\ Ends(t, s, "load") /\ AnnounceExpired(t, c)
     /\ IF Superseded(c)
        THEN call' = [call EXCEPT ![t] = Freed(@, s)] /\ tab' = tab /\ Remembers
        ELSE IF c.answer.code = "ok" THEN Show(t, s, c.answer.user, c.answer.slugs)
        ELSE IF Terminal(c) THEN SignedOut(t, s, "login")
        ELSE /\ tab' = [tab EXCEPT ![t].screen =
                          IF c.keeps /\ tab[t].user # None THEN "shell" ELSE "failure"]
             /\ call' = [call EXCEPT ![t] = Freed(@, s)]
             /\ Remembers

\* The user reloads the list, or tries again after a failure.
MayReload(t) == tab[t].screen = "shell"
MayRetry(t) == tab[t].screen = "failure"
Reload(t, s) ==
  /\ MayReload(t) \/ MayRetry(t)
  /\ Free(t, s) /\ Acts
  /\ \A x \in Slots : ~(call[t][x].op = "load" /\ call[t][x].latest)
  /\ UNCHANGED shared
  /\ call' = [call EXCEPT ![t] = Loading(@, s, MayReload(t))]
  /\ UNCHANGED <<service, tab, ended, crossed, unseen, forgotten>>

\* An announcement arrives.
AuthenticationChanged(t, s) ==
  /\ channel[t] # <<>> /\ Free(t, s)
  /\ channel' = [channel EXCEPT ![t] = Tail(@)]
  /\ UNCHANGED <<version, cookie, lock>>
  /\ IF Head(channel[t]) # version
     THEN UNCHANGED <<tab, call>>
     ELSE /\ tab' = [tab EXCEPT ![t].screen = "boot"]
          /\ call' = [call EXCEPT ![t] = Loading(Outdated(@), s, FALSE)]
  /\ UNCHANGED <<service, ghosts>>

StartLogin(t, s, u) ==
  /\ tab[t].screen = "login" /\ Free(t, s) /\ Len(logins) < MaxLogins /\ Acts
  /\ \A x \in Slots : call[t][x].op # "login"
  /\ UNCHANGED shared
  /\ call' = [call EXCEPT ![t][s] = [NewCall("login", u) EXCEPT !.stage = "wait"]]
  /\ UNCHANGED <<service, tab, ended, crossed, unseen, forgotten>>

SendLogin(t, s) ==
  /\ call[t][s].op = "login" /\ call[t][s].stage = "wait" /\ Available
  /\ lock' = <<t, s>> /\ cookie' = cookie /\ Quiet
  /\ call' = [call EXCEPT ![t][s] = Sent(@, "last")]
  /\ UNCHANGED <<service, tab, ghosts>>

LoggedIn(t, s) ==
  /\ Ends(t, s, "login")
  /\ IF call[t][s].answer.code = "ok"
     THEN /\ AdvanceVersion /\ Announce(t)
          /\ call' = [call EXCEPT ![t] = Loading(@, s, FALSE)]
     ELSE Quiet /\ call' = [call EXCEPT ![t] = Freed(@, s)]
  /\ tab' = tab /\ Remembers

StartLogout(t, s) ==
  /\ tab[t].screen = "shell" /\ Free(t, s) /\ Acts
  /\ UNCHANGED shared
  /\ tab' = [tab EXCEPT ![t] = [Replaced(@, None) EXCEPT !.screen = "login"]]
  /\ call' = [call EXCEPT ![t] =
                [Outdated(@) EXCEPT ![s] = [NewCall("logout", None) EXCEPT !.stage = "wait"]]]
  /\ Learns(t, {}, Creations)
  /\ UNCHANGED <<service, ended, crossed>>

\* Another tab changed the login while this one waited: its logout is not sent.
SendLogout(t, s) ==
  LET c == call[t][s]
  IN /\ c.op = "logout" /\ c.stage = "wait" /\ Available /\ cookie' = cookie
     /\ IF Changed(c)
        THEN /\ Quiet /\ lock' = lock
             /\ tab' = [tab EXCEPT ![t].screen = "boot"]
             /\ call' = [call EXCEPT ![t] = Loading(@, s, FALSE)]
        ELSE /\ AdvanceVersion /\ channel' = channel
             /\ lock' = <<t, s>> /\ tab' = tab
             /\ call' = [call EXCEPT ![t][s] = Sent(c, "last")]
     /\ UNCHANGED <<service, ghosts>>

LoggedOut(t, s) ==
  LET c == call[t][s]
  IN /\ Ends(t, s, "logout")
     /\ IF c.answer.code = "ok" THEN version' = version /\ Announce(t) ELSE Quiet
     /\ tab' = IF c.fresh THEN [tab EXCEPT ![t].screen = "login"] ELSE tab
     /\ call' = [call EXCEPT ![t] = Freed(@, s)]
     /\ Remembers

\* Names nobody has asked for; the user takes the first.
Unused ==
  {slug \in Slugs : /\ \A o \in Tabs, x \in Slots : call[o][x].slug # slug
                    /\ \A w \in workspaces \cup late \cup UNION {unseen[o] : o \in Tabs} : w.slug # slug}

\* A creation after one whose result is not known is not counted.
StartCreate(t, s) ==
  LET u == tab[t].user
  IN /\ tab[t].screen = "shell" /\ Free(t, s)
     /\ \A x \in tab[t].uncertain : x.user # u
     /\ tab[t].flight = 0
     /\ IF unseen[t] = {} THEN Acts ELSE UNCHANGED <<failed, steps>>
     /\ Cardinality(UNION {unseen[o] : o \in Tabs}) < MaxCreates
     /\ UNCHANGED shared
     /\ \E slug \in Unused :
          LET w == [user |-> u, slug |-> slug]
          IN /\ \A other \in Unused : slug <= other
             /\ tab' = [tab EXCEPT ![t] = [Saved(@, w) EXCEPT !.flight = s]]
             /\ call' = [call EXCEPT ![t] =
                  Superseding(@, s, Sent([NewCall("create", u) EXCEPT !.slug = slug, !.under = LoginUser], "first"))]
             /\ unseen' = [unseen EXCEPT ![t] = @ \cup {w}]
     /\ UNCHANGED <<service, ended, crossed, forgotten>>

\* The result of the POST, for a tab that still shows the sender or not.
LoadOrEnd(t, s) ==
  call' = [call EXCEPT ![t] = IF SameUser(t, call[t][s]) THEN Loading(@, s, FALSE) ELSE Freed(@, s)]

Created(t, s) ==
  LET c == call[t][s]
  IN /\ Ends(t, s, "create") /\ c.answer.code = "ok" /\ Quiet
     /\ Learns(t, {Creation(c)}, {})
     /\ IF ~c.fresh
        THEN tab' = [tab EXCEPT ![t] = Landed(@, s)] /\ LoadOrEnd(t, s)
        ELSE /\ tab' = tab
             /\ call' = [call EXCEPT ![t] =
                  Superseding(@, s, Sent([c EXCEPT !.op = "check", !.version = 0, !.latest = TRUE], "first"))]

\* The list that is loaded after a creation.
CheckCreated(t, s) ==
  LET c == call[t][s]
      u == c.answer.user
      own == Creation(c) \in tab[t].uncertain
      m == Landed(tab[t], s)
  IN /\ Ends(t, s, "check") /\ AnnounceExpired(t, c)
     /\ IF c.answer.code = "ok"
        THEN IF Superseded(c)
             THEN tab' = [tab EXCEPT ![t] = m] /\ LoadOrEnd(t, s) /\ Remembers
             ELSE IF u # c.user
             THEN /\ tab' = [tab EXCEPT ![t] = [Replaced(m, u) EXCEPT !.screen = "shell"]]
                  /\ call' = [call EXCEPT ![t] = Freed(Outdated(@), s)]
                  /\ Learns(t, {}, {w \in Creations : w.user # u})
             ELSE /\ tab' = [tab EXCEPT ![t] =
                       [(IF own /\ c.slug \in c.answer.slugs THEN Cleared(m) ELSE m) EXCEPT !.screen = "shell"]]
                  /\ call' = [call EXCEPT ![t] = Freed(@, s)]
                  /\ Learns(t, {w \in Creations : w.slug \in c.answer.slugs}, {})
        ELSE /\ Remembers
             /\ IF c.confirmed
                THEN /\ tab' = [tab EXCEPT ![t] = IF own THEN Cleared(m) ELSE m]
                     /\ call' = [call EXCEPT ![t] = Freed(@, s)]
                ELSE IF c.answer.code # "lost"
                THEN tab' = [tab EXCEPT ![t] = m] /\ call' = [call EXCEPT ![t] = Loading(@, s, FALSE)]
                ELSE /\ tab' = [tab EXCEPT ![t] =
                                  IF SameUser(t, c) THEN [m EXCEPT !.screen = "shell"] ELSE m]
                     /\ call' = [call EXCEPT ![t] = Freed(@, s)]

\* The answer of the POST is unknown: the form stays locked.
CreateUnknown(t, s) ==
  LET c == call[t][s]
      own == Creation(c) \in tab[t].uncertain
      m == Landed(tab[t], s)
  IN /\ Ends(t, s, "create") /\ c.answer.code = "lost" /\ Quiet
     /\ IF c.confirmed
        THEN /\ tab' = [tab EXCEPT ![t] = IF own THEN Cleared(m) ELSE m]
             /\ call' = [call EXCEPT ![t] = Freed(@, s)]
             /\ Remembers
        ELSE IF ~SameUser(t, c)
        THEN tab' = [tab EXCEPT ![t] = m] /\ call' = [call EXCEPT ![t] = Freed(@, s)] /\ Remembers
        ELSE /\ Recalls(t, Creation(c))
             /\ IF ~c.fresh
                THEN /\ tab' = [tab EXCEPT ![t] = Saved(m, Creation(c))]
                     /\ call' = [call EXCEPT ![t] = Loading(@, s, FALSE)]
                ELSE /\ tab' = [tab EXCEPT ![t] = [Saved(m, Creation(c)) EXCEPT !.screen = "shell"]]
                     /\ call' = [call EXCEPT ![t] = Freed(@, s)]

\* The POST was not carried out.
CreateRefused(t, s) ==
  LET c == call[t][s]
      m == Landed(IF Creation(c) \in tab[t].uncertain THEN Cleared(tab[t]) ELSE tab[t], s)
  IN /\ Ends(t, s, "create") /\ c.answer.code \notin {"ok", "lost"} /\ AnnounceExpired(t, c)
     /\ Learns(t, {Creation(c)}, {})
     /\ IF c.answer.code # "changed"
        THEN tab' = [tab EXCEPT ![t] = m] /\ call' = [call EXCEPT ![t] = Loading(@, s, FALSE)]
        ELSE /\ tab' = [tab EXCEPT ![t] =
                          IF SameUser(t, c) /\ Superseded(c) THEN [m EXCEPT !.screen = "shell"] ELSE m]
             /\ call' = [call EXCEPT ![t] = Freed(@, s)]

-----------------------------------------------------------------------------
(* Time and failures. *)

Expire ==
  /\ cookie.access /\ cookie.token < MaxRenewals
  /\ cookie' = [cookie EXCEPT !.access = FALSE]
  /\ UNCHANGED <<service, version, lock, channel, tab, call, ghosts>>

\* The login that an answer on its way would have changed is lost with it.
Rotated(c) == IF c.stage = "refresh" /\ c.answer.code = "ok" THEN {c.sent.login} ELSE {}

\* The connection breaks; a creation may still be carried out.
Lose(t, s) ==
  LET c == call[t][s]
  IN /\ c.op # "none" /\ c.stage # "wait" /\ c.answer.code \notin {"lost", "changed"}
     /\ Fails
     /\ ended' = ended \cup Rotated(c)
     /\ late' = IF c.op = "create" /\ c.answer.code = "pending" /\ Valid(c.sent)
                THEN late \cup {Made(c)} ELSE late
     /\ call' = [call EXCEPT ![t][s].answer = Code("lost")]
     /\ UNCHANGED <<logins, workspaces, shared, tab, crossed, unseen, forgotten>>

\* The user loads the page anew: the memory and the lock go, the session storage stays.
ReloadPage(t) ==
  /\ Fails
  /\ ended' = ended \cup UNION {Rotated(call[t][s]) : s \in Slots}
  /\ lock' = IF \E s \in Slots : lock = <<t, s>> THEN None ELSE lock
  /\ channel' = [channel EXCEPT ![t] = <<>>]
  /\ UNCHANGED <<cookie, version>>
  /\ tab' = [tab EXCEPT ![t] = [Opened EXCEPT !.stored = tab[t].stored]]
  /\ call' = [call EXCEPT ![t] = Loading([s \in Slots |-> NoCall], 1, FALSE)]
  /\ crossed' = crossed \ {t}
  /\ UNCHANGED <<service, unseen, forgotten>>

\* The service ends a login: a password was changed, the refresh token expired.
EndLogin ==
  /\ Fails
  /\ \E l \in DOMAIN logins : logins[l].open /\ logins' = [logins EXCEPT ![l].open = FALSE]
                              /\ ended' = ended \cup {l}
  /\ UNCHANGED <<workspaces, late, shared, tab, call, crossed, unseen, forgotten>>

ServerNext(t, s) ==
  \/ GetSession(t, s) \/ CreateWorkspace(t, s) \/ RefreshSession(t, s)
  \/ Login(t, s) \/ Logout(t, s)

UserNext(t, s) ==
  \/ Reload(t, s) \/ StartLogout(t, s) \/ StartCreate(t, s)
  \/ \E u \in Users : StartLogin(t, s, u)

TabNext(t, s) ==
  \/ TryAgain(t, s) \/ Refresh(t, s) \/ SendLast(t, s)
  \/ LoadSession(t, s) \/ AuthenticationChanged(t, s)
  \/ SendLogin(t, s) \/ LoggedIn(t, s) \/ SendLogout(t, s) \/ LoggedOut(t, s)
  \/ Created(t, s) \/ CheckCreated(t, s) \/ CreateUnknown(t, s) \/ CreateRefused(t, s)

Next ==
  \/ \E t \in Tabs, s \in Slots : ServerNext(t, s) \/ UserNext(t, s) \/ TabNext(t, s) \/ Lose(t, s)
  \/ \E t \in Tabs : ReloadPage(t)
  \/ CreateLate \/ Expire \/ EndLogin

Spec == Init /\ [][Next]_vars

-----------------------------------------------------------------------------
(* Properties. *)

\* No tab takes the login away from the others: the browser loses its cookies only
\* when the login was ended by a logout, by the service, or by the loss of the answer
\* that carried its next refresh token.
LoginIsKept == [][cookie.login # 0 /\ cookie'.login = 0 => cookie.login \in ended']_vars

\* A change that is sent again after a refresh is carried out under the login it was
\* asked for under, whoever has logged in in another tab meanwhile.
RetryIsSameUser == \A w \in workspaces \cup late : w.again => w.user = w.asked

Idle(t) == channel[t] = <<>> /\ \A s \in Slots : call[t][s] = NoCall
ShowsLogin(t) ==
  ~failed /\ lock = None /\ Idle(t) /\ tab[t].screen = "shell"
  => cookie.login # 0 /\ tab[t].user = LoginUser

\* When nothing is under way and nothing has failed, a tab shows the user of the browser's
\* login, if it did not load the session while its own logout was under way.
ScreensAgree == \A t \in Tabs \ crossed : ShowsLogin(t)

\* A tab that does not leave its user creates no second workspace for them while they may
\* own one from it that no answer and no list has shown: not after a lost or late answer,
\* a page that is loaded anew, or a login that another tab changed and changed back.
\* What is forgotten is left out: every creation, when the tab itself logs out, finds the
\* session lost or shows another user, though the first user may come back; and any other,
\* when a creation that was forgotten so turns out to be unknown and takes its place.
OneUnknownCreation ==
  \A t \in Tabs : Cardinality({w \in unseen[t] \ forgotten[t] : w.user = tab[t].user}) <= 1

-----------------------------------------------------------------------------
(* What the calls and the tabs know, and why the properties hold. *)

\* The logins: one that is closed was ended, and the cookies have the refresh token of
\* theirs, or the answer with the next one is under way to the tab that asked for it.
Holds(c) == c.stage \in {"again", "refresh", "last"}
Renewed(c) == c.stage = "refresh" /\ c.answer.code = "ok"
Renewing == \E t \in Tabs, s \in Slots : Renewed(call[t][s])
CookieOK(k) ==
  /\ k.login \in 0..Len(logins)
  /\ k.access => k.login # 0
  /\ ~k.access /\ k.login # 0 => k.token < MaxRenewals
LoginsAgree ==
  /\ CookieOK(cookie) /\ ended \subseteq DOMAIN logins
  /\ \A l \in DOMAIN logins : ~logins[l].open => l \in ended
  /\ cookie.login # 0 /\ cookie.login \notin ended =>
       logins[cookie.login].token = IF Renewing THEN cookie.token + 1 ELSE cookie.token

\* A call is answered in the way of its kind and stage.
StagesOf(c) ==
  IF c.op \in {"login", "logout"} THEN {"wait", "last"}
  ELSE {"first", "again", "refresh", "last"}
CodesOf(c) ==
  IF c.stage = "wait" THEN {"none"}
  ELSE IF c.op \in {"login", "logout"} THEN {"pending", "ok", "lost"}
  ELSE IF c.stage = "refresh" THEN {"pending", "ok", "expired", "lost"}
  ELSE IF c.op = "create" /\ c.stage = "first"
       THEN {"pending", "ok", "refresh", "required", "lost", "changed"}
  ELSE {"pending", "ok", "refresh", "required", "lost"}
IsAnswer(c) == c.stage # "refresh" /\ c.answer.code = "ok"
CallOK(c) ==
  /\ c.stage \in StagesOf(c) /\ c.answer.code \in CodesOf(c)
  /\ c.op \in {"create", "check"} => c.user \in Users /\ c.slug \in Slugs
  /\ c.op = "login" => c.user \in Users
  /\ c.op = "logout" => c.user = None
  /\ IsRead(c) /\ IsAnswer(c) => c.answer.user \in Users

\* The call that holds the lock was sent with the cookies there are, so that nobody else
\* spends its refresh token, and a refresh or a logout that removes them has a reason.
HolderKnows(c) ==
  /\ c.sent.login = cookie.login /\ c.sent.token = cookie.token
  /\ (c.stage = "again" /\ c.answer.code = "refresh") \/ (c.stage = "refresh" /\ c.answer.code = "pending") =>
        ~c.sent.access \/ ~logins[c.sent.login].open
  /\ Renewed(c) => c.sent.login # 0 /\ c.sent.token < MaxRenewals
  /\ c.answer.code = "expired" => c.sent.login \in {0} \cup ended
  /\ c.op = "logout" /\ c.answer.code = "ok" => c.sent.login \in {0} \cup ended
  /\ c.op = "login" /\ c.answer.code = "ok" =>
        \E l \in DOMAIN logins : c.answer.slugs = {l} /\ logins[l].token = 0
  /\ c.op = "create" /\ c.sent.login # 0 => logins[c.sent.login].user = c.under

\* A creation that is still of the version it was asked under is of the same user.
CreationKnows(c) ==
  /\ c.version = version /\ cookie.login # 0 => logins[cookie.login].user = c.under
  /\ c.answer.code = "changed" => c.version # version
CallKnows(t, s) ==
  LET c == call[t][s]
  IN /\ CallOK(c) /\ CookieOK(c.sent) /\ c.version <= version
     /\ c.op = "create" => CreationKnows(c)
     /\ Holds(c) => lock = <<t, s>> /\ HolderKnows(c)
     /\ c.fresh /\ c.op \in {"create", "check", "logout"} => tab[t].user = c.user
CallsKnow == \A t \in Tabs, s \in Slots : call[t][s] = NoCall \/ CallKnows(t, s)

\* While nothing has failed, a tab shows the login of the browser, or is going to be told:
\* by an announcement, by a logout that will announce itself, or by a call of its own that
\* decides what it shows.
Announced(t) == \E i \in DOMAIN channel[t] : channel[t][i] = version
LogoutUnderWay == \E t \in Tabs, s \in Slots : call[t][s].op = "logout" /\ call[t][s].stage = "last"
ToBeTold(t) == Announced(t) \/ LogoutUnderWay
Decides(c) == c.op \in {"load", "check", "create"} /\ c.fresh /\ c.latest
IsLogin(u) == cookie.login # 0 /\ u = logins[cookie.login].user
ReadsLogin(c) ==
  /\ c.sent.login = cookie.login
  /\ IsAnswer(c) => IsLogin(c.answer.user)
  /\ c.answer.code = "required" => cookie.login = 0
CallDecides(t, c) ==
  /\ Decides(c) /\ IsRead(c) => ToBeTold(t) \/ ReadsLogin(c)
  /\ Decides(c) /\ c.op = "create" => ToBeTold(t) \/ c.version = version
  /\ c.fresh /\ c.confirmed /\ c.op \in {"create", "check"} => ToBeTold(t) \/ cookie.login # 0
ScreenKnows(t) ==
  /\ tab[t].user # None => ToBeTold(t) \/ IsLogin(tab[t].user) \/ \E s \in Slots : Decides(call[t][s])
  /\ \A s \in Slots : CallDecides(t, call[t][s])
Unfailed(c) ==
  /\ c.answer.code \notin {"lost", "expired"}
  /\ c.op = "login" /\ c.answer.code = "ok" => c.answer.slugs \cap ended = {}
  /\ c.stage = "last" /\ c.op \in {"load", "check", "create"} => c.answer.code # "refresh" /\ c.sent.access
ScreensKnow ==
  ~failed =>
    /\ cookie.login \in ended => LogoutUnderWay
    /\ \A t \in Tabs : tab[t].screen # "failure" /\ \A s \in Slots : Unfailed(call[t][s])
    /\ \A t \in Tabs \ crossed : ScreenKnows(t)

\* The form of a tab remembers the one creation that nobody has seen.
FormKnows(t) ==
  /\ \A v, w \in tab[t].stored : v = w
  /\ IF tab[t].user = None THEN tab[t].uncertain = {}
     ELSE tab[t].uncertain = tab[t].stored /\ \A w \in tab[t].stored : w.user = tab[t].user
  /\ unseen[t] \ forgotten[t] \subseteq tab[t].stored
  /\ \A s \in Slots : call[t][s].op \in {"create", "check"} =>
       IF call[t][s].confirmed THEN Creation(call[t][s]) \notin unseen[t]
       ELSE call[t][s].fresh =>
              tab[t].flight = s /\ (call[t][s].op = "create" /\ Creation(call[t][s]) \notin forgotten[t] =>
                                        unseen[t] \ forgotten[t] \subseteq {Creation(call[t][s])})

Consistent ==
  /\ TypeOK /\ RetryIsSameUser /\ LoginsAgree /\ CallsKnow /\ ScreensKnow
  /\ \A t \in Tabs : FormKnows(t)
=============================================================================
