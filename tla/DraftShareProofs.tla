--------------------------- MODULE DraftShareProofs ---------------------------
(***************************************************************************)
(* Proofs about DraftShare, for any number of people, requests, saves and  *)
(* shares.                                                                 *)
(***************************************************************************)
EXTENDS DraftShare, SequenceTheorems, TLAPS

\* Sequences: an element appended, and a function that is a sequence.
LEMMA AppendType ==
  ASSUME NEW S, NEW s \in Seq(S), NEW e \in S
  PROVE  /\ Append(s, e) \in Seq(S) \ {<<>>} /\ Len(Append(s, e)) = Len(s) + 1
         /\ \A k \in 1..Len(s) : Append(s, e)[k] = s[k]
         /\ Append(s, e)[Len(s) + 1] = e
OBVIOUS

LEMMA FunctionSeq ==
  ASSUME NEW S, NEW n \in Nat, NEW f \in [1..n -> S]
  PROVE  f \in Seq(S) /\ Len(f) = n
OBVIOUS

LEMMA FreeCallType == FreeCall \in Requests
BY DEF FreeCall, Requests, People, Texts

LEMMA InitTypeOK == Init => TypeOK
<1> USE DraftShareAssumption
<1> SUFFICES ASSUME Init PROVE TypeOK
  OBVIOUS
<1>1. versions \in Seq(Versions) \ {<<>>}
  BY DEF Init, Versions, Texts, People
<1>2. calls \in [Calls -> Requests] /\ \A c \in Calls : ~calls[c].heard /\ calls[c].kind = "none"
  BY FreeCallType DEF Init, FreeCall
<1>3. NoSave \in Saves /\ NoLoad \in Loads
  BY DEF NoSave, Saves, NoLoad, Loads, Texts
<1>4. tab \in [Tabs -> Pages]
  BY <1>3 DEF Init, Pages, NoPending, Texts
<1>5. viewer \in Viewers
  BY DEF Init, NoViewer, Viewers, Texts
<1>6. links \in Seq(Links) /\ ops \in Seq(Operations) /\ late \in SUBSET Nat /\ edits \in Nat /\ acts \in Nat /\ faults \in Nat
  BY DEF Init
<1> QED
  BY <1>1, <1>2, <1>4, <1>5, <1>6 DEF TypeOK

\* Requests as TypeOK has them.
CallsOK == /\ calls \in [Calls -> Requests]
           /\ \A c \in Calls : (calls[c].heard => calls[c].kind # "none") /\ (calls[c].kind # "none" => calls[c].tab \in Tabs)

LEMMA OneCallType ==
  ASSUME TypeOK, NEW c \in Calls, NEW r \in Requests, (r.heard => r.kind # "none") /\ (r.kind # "none" => r.tab \in Tabs),
         calls' = [calls EXCEPT ![c] = r]
  PROVE  CallsOK'
BY DEF TypeOK, CallsOK

\* An answer is typed, and so is a request that moves to its next step.
LEMMA AnsweredType ==
  ASSUME TypeOK, NEW c \in Calls, NEW status \in Nat, NEW value \in Nat, Answered(c, status, value)
  PROVE  CallsOK'
<1> DEFINE r == IF ~calls[c].heard THEN FreeCall
                ELSE [FreeCall EXCEPT !.at = "answered", !.kind = calls[c].kind, !.tab = calls[c].tab,
                                      !.heard = TRUE, !.answer = status, !.over = value]
<1>1. calls[c] \in Requests /\ ((calls[c].heard => calls[c].kind # "none") /\ (calls[c].kind # "none" => calls[c].tab \in Tabs))
  BY DEF TypeOK
<1>2. r \in Requests /\ ((r.heard => r.kind # "none") /\ (r.kind # "none" => r.tab \in Tabs))
  BY <1>1, FreeCallType DEF Requests, FreeCall
<1>3. calls' = [calls EXCEPT ![c] = r]
  BY DEF Answered
<1> QED
  BY <1>2, <1>3, OneCallType

RequestSteps == {"free", "sent", "read", "looked", "drafted", "unchanged", "written", "answered"}
LEMMA GoesType ==
  ASSUME TypeOK, NEW c \in Calls, NEW at \in RequestSteps, NEW text \in Texts, NEW link \in Nat,
         calls' = [calls EXCEPT ![c] = [calls[c] EXCEPT !.at = at, !.text = text, !.link = link]]
  PROVE  CallsOK'
<1> DEFINE r == [calls[c] EXCEPT !.at = at, !.text = text, !.link = link]
<1>1. calls[c] \in Requests /\ ((calls[c].heard => calls[c].kind # "none") /\ (calls[c].kind # "none" => calls[c].tab \in Tabs))
  BY DEF TypeOK
<1>2. r \in Requests /\ r.heard = calls[c].heard /\ r.kind = calls[c].kind /\ r.tab = calls[c].tab
  BY <1>1 DEF Requests, RequestSteps
<1> QED
  BY <1>1, <1>2, OneCallType

LEMMA MoveType ==
  ASSUME TypeOK, NEW c \in Calls, NEW at \in RequestSteps, Goes(c, at)
  PROVE  CallsOK'
<1> DEFINE r == [calls[c] EXCEPT !.at = at]
<1>1. calls[c] \in Requests /\ ((calls[c].heard => calls[c].kind # "none") /\ (calls[c].kind # "none" => calls[c].tab \in Tabs))
  BY DEF TypeOK
<1>2. r \in Requests /\ r.heard = calls[c].heard /\ r.kind = calls[c].kind /\ r.tab = calls[c].tab
  BY <1>1 DEF Requests, RequestSteps
<1>3. calls' = [calls EXCEPT ![c] = r]
  BY DEF Goes
<1> QED
  BY <1>1, <1>2, <1>3, OneCallType

LEMMA Typing ==
  TypeOK => /\ versions \in Seq(Versions) \ {<<>>} /\ links \in Seq(Links) /\ ops \in Seq(Operations) /\ late \in SUBSET Nat
            /\ Newest \in Nat \ {0} /\ DOMAIN versions = 1..Newest /\ \A k \in 1..Newest : versions[k] \in Versions
            /\ Len(links) \in Nat /\ DOMAIN links = 1..Len(links) /\ \A l \in DOMAIN links : links[l] \in Links
            /\ Len(ops) \in Nat /\ DOMAIN ops = 1..Len(ops)
            /\ \A c \in Calls : calls[c] \in Requests
            /\ tab \in [Tabs -> Pages] /\ viewer \in Viewers
            /\ edits \in Nat /\ acts \in Nat /\ faults \in Nat
BY LenProperties, ElementOfSeq DEF TypeOK, Newest

\* The requests of the Worker.
LEMMA ServerType == ASSUME TypeOK, NEW c \in Calls, Server(c) PROVE TypeOK'
<1>1. /\ Newest \in Nat \ {0} /\ versions \in Seq(Versions) \ {<<>>} /\ links \in Seq(Links) /\ calls[c] \in Requests
      /\ calls[c].link \in Nat /\ calls[c].text \in Texts
  BY Typing DEF Requests
<1> USE <1>1
<1>2. SUFFICES CallsOK' /\ (versions' \in Seq(Versions) \ {<<>>}) /\ (links' \in Seq(Links)) /\ ServerOnly
  BY DEF TypeOK, CallsOK, ServerOnly
<1>3. CASE ReadDraft(c)
  <2>1. Goes(c, "read") \/ Answered(c, 409, 0)
    BY <1>3 DEF ReadDraft
  <2> QED
    BY <1>1, <1>3, <2>1, AnsweredType, MoveType DEF ReadDraft, db, RequestSteps
<1>4. CASE WriteDraft(c)
  <2>1. [text |-> calls[c].text, over |-> calls[c].over, by |-> calls[c].tab] \in Versions
    BY <1>1 DEF Requests, Versions
  <2>2. versions' \in Seq(Versions) \ {<<>>}
    <3> DEFINE new == [text |-> calls[c].text, over |-> calls[c].over, by |-> calls[c].tab]
    <3>1. versions' = Append(versions, new) \/ UNCHANGED versions
      BY <1>4 DEF WriteDraft
    <3> HIDE DEF new
    <3>2. new \in Versions
      BY <2>1 DEF new
    <3> QED
      BY <3>1, <3>2, AppendType
  <2>3. Goes(c, "written") \/ Answered(c, 409, 0)
    BY <1>4 DEF WriteDraft
  <2> QED
    BY <1>1, <1>4, <2>2, <2>3, AnsweredType, MoveType DEF WriteDraft, RequestSteps
<1>5. CASE ReadWritten(c)
  BY <1>1, <1>5, AnsweredType DEF ReadWritten, db
<1>6. CASE LookUp(c)
  <2>1. (CHOOSE l \in LinkOf(calls[c].op) : TRUE) \in Nat \/ LinkOf(calls[c].op) = {}
    BY <1>1 DEF LinkOf
  <2>2. \/ Goes(c, "looked") \/ Answered(c, 400, 0) \/ Answered(c, 409, 0)
        \/ LinkOf(calls[c].op) # {} /\ Answered(c, 200, CHOOSE l \in LinkOf(calls[c].op) : TRUE)
    BY <1>6 DEF LookUp
  <2> QED
    BY <1>6, <2>1, <2>2, AnsweredType, MoveType DEF LookUp, db, RequestSteps
<1>7. CASE Snapshot(c)
  <2>1. CASE calls[c].over = Newest
    <3>1. versions[Newest].text \in Texts
      BY <2>1, Typing DEF Versions
    <3>2. calls' = [calls EXCEPT ![c] = [calls[c] EXCEPT !.at = "drafted", !.text = versions[Newest].text, !.link = calls[c].link]]
      BY <1>7, <2>1 DEF Snapshot, Requests
    <3>3. CallsOK'
      BY <3>1, <3>2, GoesType DEF RequestSteps
    <3> QED
      BY <1>7, <2>1, <3>3 DEF Snapshot, db
  <2>2. CASE calls[c].over # Newest
    <3>1. Answered(c, 409, 0) /\ UNCHANGED db /\ ServerOnly
      BY <1>7, <2>2 DEF Snapshot, db
    <3> QED
      BY <3>1, AnsweredType DEF db
  <2> QED
    BY <2>1, <2>2
<1>8. CASE PublishLink(c)
  <2>1. CASE Publishable(c)
    <3>1. [l \in DOMAIN links |-> [links[l] EXCEPT !.published = FALSE]] \in Seq(Links)
      <4> DEFINE superseded == [l \in DOMAIN links |-> [links[l] EXCEPT !.published = FALSE]]
      <4>1. superseded \in [1..Len(links) -> Links]
        BY Typing DEF Links
      <4> QED
        BY <4>1, Typing, FunctionSeq
    <3>2. [op |-> calls[c].op, by |-> calls[c].tab, over |-> calls[c].over, text |-> calls[c].text,
           stopped |-> FALSE, published |-> TRUE] \in Links
      BY <1>1 DEF Requests, Links
    <3>3. links' \in Seq(Links)
      <4> DEFINE old == [l \in DOMAIN links |-> [links[l] EXCEPT !.published = FALSE]]
                 new == [op |-> calls[c].op, by |-> calls[c].tab, over |-> calls[c].over, text |-> calls[c].text,
                         stopped |-> FALSE, published |-> TRUE]
      <4>1. links' = Append(old, new)
        BY <1>8, <2>1 DEF PublishLink
      <4> HIDE DEF old, new
      <4> QED
        BY <3>1, <3>2, <4>1, AppendType DEF old, new
    <3>4. calls' = [calls EXCEPT ![c] = [calls[c] EXCEPT !.at = "written", !.text = {}, !.link = Len(links) + 1]]
      BY <1>1, <1>8, <2>1 DEF PublishLink, Requests
    <3>5. CallsOK'
      <4>1. {} \in Texts /\ Len(links) + 1 \in Nat
        BY Typing DEF Texts
      <4> QED
        BY <3>4, <4>1, GoesType DEF RequestSteps
    <3> QED
      BY <1>1, <1>8, <3>3, <3>5 DEF PublishLink
  <2>2. CASE ~Publishable(c)
    <3>1. Answered(c, 409, 0) /\ UNCHANGED db /\ ServerOnly
      BY <1>8, <2>2 DEF PublishLink, db
    <3> QED
      BY <3>1, AnsweredType DEF db
  <2> QED
    BY <2>1, <2>2
<1>9. CASE StopLink(c)
  <2>1. links' \in Seq(Links)
    <3>1. [links EXCEPT ![calls[c].link].stopped = TRUE] \in [1..Len(links) -> Links]
      BY Typing DEF Links
    <3> QED
      BY <1>9, <3>1, Typing, FunctionSeq DEF StopLink
  <2>2. Goes(c, "written") \/ Goes(c, "unchanged")
    BY <1>9 DEF StopLink
  <2> QED
    BY <1>1, <1>9, <2>1, <2>2, MoveType DEF StopLink, RequestSteps
<1>10. CASE LookStopped(c)
  <2>1. Answered(c, 409, 0) \/ Answered(c, 200, calls[c].link)
    BY <1>10 DEF LookStopped
  <2>2. UNCHANGED db /\ ServerOnly
    BY <1>10 DEF LookStopped
  <2> QED
    BY <2>1, <2>2, AnsweredType DEF db
<1>11. CASE Respond(c)
  BY <1>1, <1>11, AnsweredType DEF Respond, db
<1> QED
  BY <1>3, <1>4, <1>5, <1>6, <1>7, <1>8, <1>9, <1>10, <1>11 DEF Server

\* One page changes to another state.
LEMMA OnePageType ==
  ASSUME TypeOK, NEW t \in Tabs, NEW p \in Pages, tab' = [tab EXCEPT ![t] = p],
         CallsOK', UNCHANGED <<versions, links, late, viewer>>,
         ops' \in Seq(Operations), edits' \in Nat, acts' \in Nat, faults' \in Nat
  PROVE  TypeOK'
BY DEF TypeOK, CallsOK

LEMMA PageTyping == ASSUME TypeOK, NEW t \in Tabs
  PROVE  /\ tab[t] \in Pages /\ tab[t].save \in Saves /\ tab[t].load \in Loads
         /\ tab[t].at \in Nat /\ tab[t].cv \in Nat /\ tab[t].text \in Texts /\ tab[t].link \in Nat
         /\ tab[t].pending.op \in Nat /\ tab[t].pending.over \in Nat
         /\ tab[t].save.snap \in Texts /\ tab[t].load.ver \in Nat /\ tab[t].load.link \in Nat
         /\ NoSave \in Saves /\ NoLoad \in Loads /\ NoPending \in [op : Nat, over : Nat]
         /\ {} \in Texts
BY DEF TypeOK, Pages, Saves, Loads, NoSave, NoLoad, NoPending, Texts

LEMMA CallsStay == TypeOK /\ UNCHANGED calls => CallsOK'
BY DEF TypeOK, CallsOK

LEMMA ReopenedType ==
  ASSUME NEW p \in Pages, NEW own \in BOOLEAN, NEW want \in Nat
  PROVE  Reopened(p, own, want) \in Pages
BY DEF Reopened, Pages, Loads, NoLoad

\* What a page does when answers reach it.
LEMMA PageType == ASSUME TypeOK, PagesInv, NEW t \in Tabs, Page(t) PROVE TypeOK'
<1> DEFINE p == tab[t]
<1>1. /\ CallsOK' /\ ops' \in Seq(Operations) /\ edits' \in Nat /\ acts' \in Nat /\ faults' \in Nat
      /\ UNCHANGED <<versions, links, late, viewer>>
  BY Typing, CallsStay DEF Page, CheckSaved, ReconcileSaved, GetManual, ShowManual, GetMetadata, ShowLoaded, db
<1>2. ASSUME NEW q \in Pages, tab' = [tab EXCEPT ![t] = q] PROVE TypeOK'
  BY <1>1, <1>2, OnePageType
<1>3. /\ p \in Pages /\ p.save \in Saves /\ p.load \in Loads /\ NoSave \in Saves /\ NoLoad \in Loads
      /\ p.save.ver \in Nat /\ p.load.ver \in Nat /\ p.load.link \in Nat
  BY PageTyping DEF Saves
<1>4. /\ Newest \in Nat /\ DOMAIN versions = 1..Newest /\ \A k \in 1..Newest : versions[k].text \in Texts
      /\ DOMAIN links \subseteq Nat /\ tab \in [Tabs -> Pages]
  BY Typing DEF Versions
<1> HIDE DEF p
<1>5. ASSUME NEW save \in Saves PROVE [p EXCEPT !.save = save] \in Pages
  BY <1>3 DEF Pages
<1>6. ASSUME NEW load \in Loads PROVE [p EXCEPT !.load = load] \in Pages
  BY <1>3 DEF Pages
<1>7. CASE CheckSaved(t)
  <2>1. tab' = [tab EXCEPT ![t] = [p EXCEPT !.save = [p.save EXCEPT !.at = "checked", !.ver = Newest]]]
    BY <1>3, <1>7 DEF CheckSaved, Pages, Saves, p
  <2>2. [p.save EXCEPT !.at = "checked", !.ver = Newest] \in Saves
    BY <1>3, <1>4 DEF Saves
  <2> QED
    BY <1>2, <1>5, <2>1, <2>2
<1>8. CASE ReconcileSaved(t)
  <2>1. PICK q \in {[p EXCEPT !.at = p.save.ver, !.cv = p.save.ver, !.save = NoSave], [p EXCEPT !.save = NoSave]} : tab' = [tab EXCEPT ![t] = q]
    BY <1>8 DEF ReconcileSaved, p
  <2>2. q \in Pages
    BY <1>3, <2>1 DEF Pages
  <2> QED
    BY <1>2, <2>1, <2>2
<1>9. CASE GetManual(t)
  <2>1. tab' = [tab EXCEPT ![t] = [p EXCEPT !.load = [p.load EXCEPT !.at = "read", !.ver = Newest]]]
    BY <1>3, <1>9 DEF GetManual, Pages, Loads, p
  <2>2. [p.load EXCEPT !.at = "read", !.ver = Newest] \in Loads
    BY <1>3, <1>4 DEF Loads
  <2> QED
    BY <1>2, <1>6, <2>1, <2>2
<1>10. CASE ShowManual(t) /\ Unconfirmed(p)
  <2>1. tab' = [tab EXCEPT ![t] = [p EXCEPT !.dirty = TRUE, !.save = NoSave, !.load = NoLoad]]
    BY <1>10 DEF ShowManual, p
  <2>2. [p EXCEPT !.dirty = TRUE, !.save = NoSave, !.load = NoLoad] \in Pages
    BY <1>3 DEF Pages
  <2> QED
    BY <1>2, <2>1, <2>2
<1>11. CASE ShowManual(t) /\ ~Unconfirmed(p)
  <2> DEFINE k == p.load.ver
             q == [p EXCEPT !.at = k, !.cv = k, !.text = versions[k].text, !.dirty = FALSE,
                            !.save = [p.save EXCEPT !.typed = (p.save.at = "patch")],
                            !.load = [p.load EXCEPT !.at = "meta"]]
  <2>1. tab' = [tab EXCEPT ![t] = q]
    BY <1>3, <1>11 DEF ShowManual, p, Pages
  <2>2. versions[k].text \in Texts
    BY <1>4, <1>11 DEF ShowManual, PagesInv, PageKnows, p
  <2>3. [p.save EXCEPT !.typed = (p.save.at = "patch")] \in Saves /\ [p.load EXCEPT !.at = "meta"] \in Loads
    BY <1>3 DEF Saves, Loads
  <2>4. q \in Pages
    BY <1>3, <2>2, <2>3 DEF Pages
  <2> HIDE DEF q
  <2> QED
    BY <1>2, <2>1, <2>4
<1>12. CASE GetMetadata(t)
  <2>1. PICK l \in Nat : tab' = [tab EXCEPT ![t] = [p EXCEPT !.load = [p.load EXCEPT !.at = "found", !.link = l]]]
    <3>1. PICK l \in Visible(t) \cup {0} :
             tab' = [tab EXCEPT ![t].load.at = "found", ![t].load.link = IF l # 0 /\ Live(l) THEN l ELSE 0]
      BY <1>12 DEF GetMetadata
    <3>2. l \in Nat
      BY <1>4 DEF Visible
    <3> DEFINE m == IF l # 0 /\ Live(l) THEN l ELSE 0
    <3>3. m \in Nat
      BY <3>2
    <3> HIDE DEF m
    <3>4. tab' = [tab EXCEPT ![t].load.at = "found", ![t].load.link = m]
      BY <3>1 DEF m
    <3>5. tab' = [tab EXCEPT ![t] = [p EXCEPT !.load = [p.load EXCEPT !.at = "found", !.link = m]]]
      BY <1>3, <1>4, <3>4 DEF p, Pages, Loads
    <3> QED
      BY <3>3, <3>5
  <2>2. [p.load EXCEPT !.at = "found", !.link = l] \in Loads
    BY <1>3 DEF Loads
  <2> QED
    BY <1>2, <1>6, <2>1, <2>2
<1>13. CASE ShowLoaded(t)
  <2> DEFINE q == [p EXCEPT !.link = p.load.link, !.panel = IF p.load.link = 0 THEN "form" ELSE "link",
                            !.load = NoLoad, !.save = IF p.load.own THEN NoSave ELSE p.save]
  <2>1. tab' = [tab EXCEPT ![t] = q]
    BY <1>13 DEF ShowLoaded, p
  <2>2. q \in Pages
    BY <1>3 DEF Pages
  <2> HIDE DEF q
  <2> QED
    BY <1>2, <2>1, <2>2
<1> QED
  BY <1>7, <1>8, <1>9, <1>10, <1>11, <1>12, <1>13 DEF Page

\* What people do on a page.
LEMMA PersonType == ASSUME TypeOK, NEW t \in Tabs, Person(t) PROVE TypeOK'
<1> DEFINE p == tab[t]
<1>1. UNCHANGED <<versions, links, late, viewer>>
  BY DEF Person, Type, Reload, SaveManual, IssueShare, RevokeShare, db
<1>2. edits' \in Nat /\ acts' \in Nat /\ faults' \in Nat
  <2>1. UNCHANGED faults /\ edits' \in {edits, edits + 1} /\ acts' \in {acts, acts + 1}
    BY DEF Person, Type, Reload, SaveManual, IssueShare, RevokeShare, Act
  <2> QED
    BY <2>1, Typing
<1>3. ASSUME NEW q \in Pages, tab' = [tab EXCEPT ![t] = q], CallsOK', ops' \in Seq(Operations) PROVE TypeOK'
  BY <1>1, <1>2, <1>3, OnePageType
<1>4. ASSUME NEW c \in Calls, NEW r \in Requests, r.kind # "none", r.tab = t, calls' = [calls EXCEPT ![c] = r] PROVE CallsOK'
  BY <1>4, OneCallType
<1>5. ops \in Seq(Operations) /\ tab \in [Tabs -> Pages] /\ edits \in Nat
  BY Typing
<1>6. /\ p \in Pages /\ p.save \in Saves /\ p.load \in Loads /\ NoLoad \in Loads /\ NoSave \in Saves
      /\ p.at \in Nat /\ p.cv \in Nat /\ p.text \in Texts /\ p.link \in Nat /\ p.pending.op \in Nat
  BY PageTyping
<1> HIDE DEF p
<1>7. CASE Type(t)
  <2> DEFINE q == [p EXCEPT !.text = @ \cup {edits + 1}, !.dirty = TRUE,
                            !.save = [p.save EXCEPT !.typed = (p.save.at = "patch")]]
  <2>1. tab' = [tab EXCEPT ![t] = q]
    BY <1>5, <1>6, <1>7 DEF Type, p, Pages
  <2>2. [p.save EXCEPT !.typed = (p.save.at = "patch")] \in Saves
    BY <1>6 DEF Saves
  <2>3. p.text \cup {edits + 1} \in Texts
    BY <1>5, <1>6 DEF Texts
  <2>4. q \in Pages
    BY <1>6, <2>2, <2>3 DEF Pages
  <2>5. CallsOK' /\ ops' \in Seq(Operations)
    BY <1>5, <1>7, CallsStay DEF Type
  <2> HIDE DEF q
  <2> QED
    BY <1>3, <2>1, <2>4, <2>5
<1>8. CASE Reload(t)
  <2>1. tab' = [tab EXCEPT ![t] = Reopened(p, FALSE, 0)]
    BY <1>8 DEF Reload, p
  <2>2. Reopened(p, FALSE, 0) \in Pages
    BY <1>6, ReopenedType
  <2>3. CallsOK' /\ ops' \in Seq(Operations)
    BY <1>5, <1>8, CallsStay DEF Reload
  <2> QED
    BY <1>3, <2>1, <2>2, <2>3
<1>9. ASSUME NEW c \in Calls, SaveManual(t, c) PROVE TypeOK'
  <2> DEFINE r == [FreeCall EXCEPT !.at = "sent", !.kind = "save", !.tab = t, !.heard = TRUE,
                                   !.over = p.at, !.text = p.text]
             save == [NoSave EXCEPT !.at = "patch", !.snap = p.text]
  <2>1. calls' = [calls EXCEPT ![c] = r] /\ tab' = [tab EXCEPT ![t] = [p EXCEPT !.save = save]]
    BY <1>5, <1>9 DEF SaveManual, Send, p
  <2>2. r \in Requests /\ r.kind # "none" /\ r.tab = t
    BY <1>6, FreeCallType DEF Requests, FreeCall, People
  <2>3. save \in Saves
    BY <1>6 DEF Saves
  <2> HIDE DEF r, save
  <2>4. [p EXCEPT !.save = save] \in Pages
    BY <1>6, <2>3 DEF Pages
  <2>5. CallsOK'
    BY <1>4, <2>1, <2>2
  <2>6. ops' \in Seq(Operations)
    BY <1>5, <1>9 DEF SaveManual
  <2> QED
    BY <1>3, <2>1, <2>4, <2>5, <2>6
<1>10. ASSUME NEW c \in Calls, IssueShare(t, c) PROVE TypeOK'
  <2> DEFINE o == IF Repeats(p) THEN p.pending.op ELSE Len(ops) + 1
             r == [FreeCall EXCEPT !.at = "sent", !.kind = "share", !.tab = t, !.heard = TRUE, !.over = p.cv, !.op = o]
             q == [p EXCEPT !.pending = [op |-> o, over |-> p.cv], !.busy = TRUE]
  <2>1. o \in Nat
    BY <1>5, <1>6, LenProperties
  <2> HIDE DEF o
  <2>2. calls' = [calls EXCEPT ![c] = r] /\ tab' = [tab EXCEPT ![t] = q]
    BY <1>5, <1>10 DEF IssueShare, Send, p, o
  <2>3. r \in Requests /\ r.kind # "none" /\ r.tab = t
    BY <1>6, <2>1, FreeCallType DEF Requests, FreeCall, People
  <2>4. q \in Pages
    BY <1>6, <2>1 DEF Pages
  <2> HIDE DEF r, q
  <2>5. CallsOK'
    BY <1>4, <2>2, <2>3
  <2>6. ops' \in Seq(Operations)
    <3> DEFINE new == [by |-> t, over |-> p.cv]
    <3>1. UNCHANGED ops \/ ops' = Append(ops, new)
      BY <1>10 DEF IssueShare, p
    <3>2. new \in Operations
      BY <1>6 DEF Operations, People
    <3> HIDE DEF new
    <3> QED
      BY <1>5, <3>1, <3>2, AppendType
  <2> QED
    BY <1>3, <2>2, <2>4, <2>5, <2>6
<1>11. ASSUME NEW c \in Calls, RevokeShare(t, c) PROVE TypeOK'
  <2> DEFINE r == [FreeCall EXCEPT !.at = "sent", !.kind = "stop", !.tab = t, !.heard = TRUE, !.link = p.link]
             q == [p EXCEPT !.busy = TRUE]
  <2>1. calls' = [calls EXCEPT ![c] = r] /\ tab' = [tab EXCEPT ![t] = q]
    BY <1>5, <1>11 DEF RevokeShare, Send, p
  <2>2. r \in Requests /\ r.kind # "none" /\ r.tab = t
    BY <1>6, FreeCallType DEF Requests, FreeCall, People
  <2>3. q \in Pages
    BY <1>6 DEF Pages
  <2> HIDE DEF r, q
  <2>4. CallsOK'
    BY <1>4, <2>1, <2>2
  <2>5. ops' \in Seq(Operations)
    BY <1>5, <1>11 DEF RevokeShare
  <2> QED
    BY <1>3, <2>1, <2>3, <2>4, <2>5
<1> QED
  BY <1>7, <1>8, <1>9, <1>10, <1>11 DEF Person

\* A place that becomes free.
LEMMA FreedType == ASSUME TypeOK, NEW c \in Calls, calls' = [calls EXCEPT ![c] = FreeCall] PROVE CallsOK'
BY FreeCallType DEF TypeOK, CallsOK, FreeCall

LEMMA SettledType == ASSUME NEW p \in Pages PROVE Settled(p) \in Pages
BY DEF Settled, Pages

\* Answers that reach a page.
LEMMA AnswerType ==
  ASSUME TypeOK, NEW c \in Calls, SaveAnswered(c) \/ ShareAnswered(c) \/ StopAnswered(c)
  PROVE  TypeOK'
<1> DEFINE t == calls[c].tab
           p == tab[t]
<1>0. t \in Tabs
  BY DEF TypeOK, SaveAnswered, ShareAnswered, StopAnswered
<1>1. UNCHANGED <<versions, links, late, viewer, ops, edits, acts, faults>> /\ calls' = [calls EXCEPT ![c] = FreeCall]
  BY DEF SaveAnswered, ShareAnswered, StopAnswered, db
<1>2. CallsOK' /\ ops' \in Seq(Operations) /\ edits' \in Nat /\ acts' \in Nat /\ faults' \in Nat
  BY <1>1, Typing, FreedType
<1>3. ASSUME NEW q \in Pages, tab' = [tab EXCEPT ![t] = q] PROVE TypeOK'
  BY <1>0, <1>1, <1>2, <1>3, OnePageType
<1>4. /\ p \in Pages /\ p.save \in Saves /\ NoSave \in Saves /\ Settled(p) \in Pages /\ calls[c].over \in Nat
      /\ NoPending \in [op : Nat, over : Nat] /\ tab \in [Tabs -> Pages]
  BY <1>0, Typing, PageTyping, SettledType DEF Requests
<1> HIDE DEF t, p
<1>5. CASE SaveAnswered(c)
  <2> DEFINE named == [p EXCEPT !.at = calls[c].over]
             clean == [named EXCEPT !.dirty = FALSE, !.save = [p.save EXCEPT !.at = "refresh"]]
             q == IF calls[c].answer # 200 THEN [p EXCEPT !.save = NoSave]
                  ELSE IF EditedMeanwhile(p) THEN [named EXCEPT !.save = [p.save EXCEPT !.at = "check"]]
                  ELSE Reopened(clean, TRUE, calls[c].over)
  <2>1. tab' = [tab EXCEPT ![t] = q]
    BY <1>4, <1>5 DEF SaveAnswered, t, p, Pages
  <2>2. [p.save EXCEPT !.at = "refresh"] \in Saves /\ [p.save EXCEPT !.at = "check"] \in Saves
    BY <1>4 DEF Saves
  <2>3. clean \in Pages /\ [p EXCEPT !.save = NoSave] \in Pages /\ [named EXCEPT !.save = [p.save EXCEPT !.at = "check"]] \in Pages
    BY <1>4, <2>2 DEF Pages
  <2> HIDE DEF clean
  <2>4. Reopened(clean, TRUE, calls[c].over) \in Pages
    BY <1>4, <2>3, ReopenedType
  <2>5. q \in Pages
    BY <2>3, <2>4
  <2> HIDE DEF q
  <2> QED
    BY <1>3, <2>1, <2>5
<1>6. CASE ShareAnswered(c)
  <2>1. PICK q \in {Settled(p), [Settled(p) EXCEPT !.link = calls[c].over, !.panel = "link", !.pending = NoPending],
                    [Settled(p) EXCEPT !.pending = NoPending]} : tab' = [tab EXCEPT ![t] = q]
    BY <1>6 DEF ShareAnswered, t, p
  <2>2. /\ [Settled(p) EXCEPT !.link = calls[c].over, !.panel = "link", !.pending = NoPending] \in Pages
        /\ [Settled(p) EXCEPT !.pending = NoPending] \in Pages
    BY <1>4 DEF Pages
  <2> QED
    BY <1>3, <1>4, <2>1, <2>2
<1>7. CASE StopAnswered(c)
  <2>1. PICK q \in {Settled(p), [Settled(p) EXCEPT !.link = 0, !.panel = "form", !.pending = NoPending]} : tab' = [tab EXCEPT ![t] = q]
    BY <1>7 DEF StopAnswered, t, p
  <2>2. [Settled(p) EXCEPT !.link = 0, !.panel = "form", !.pending = NoPending] \in Pages
    BY <1>4 DEF Pages
  <2> QED
    BY <1>3, <1>4, <2>1, <2>2
<1> QED
  BY <1>5, <1>6, <1>7

\* Failures: D1 reports one, a load fails, a request or an answer is lost.
LEMMA FailureType ==
  ASSUME TypeOK, NEW c \in Calls, Fail(c) \/ Lose(c)
  PROVE  TypeOK'
<1>1. faults' \in Nat
  BY Typing DEF Fail, Lose
<1>2. CASE Fail(c)
  BY <1>1, <1>2, AnsweredType DEF Fail, db, TypeOK, CallsOK
<1>3. CASE Lose(c)
  <2> DEFINE t == calls[c].tab
             p == tab[t]
             q == Unheard(p, calls[c].kind)
             r == [calls[c] EXCEPT !.heard = FALSE]
  <2>1. /\ UNCHANGED <<versions, links, late, viewer, ops, edits, acts>>
        /\ calls' = [calls EXCEPT ![c] = FreeCall] \/ calls' = [calls EXCEPT ![c] = r]
        /\ tab' = [tab EXCEPT ![t] = q]
    BY <1>3, Typing DEF Lose, db, Requests
  <2>2. t \in Tabs /\ calls[c].kind \in {"save", "share", "stop"}
    BY <1>3, Typing DEF TypeOK, Lose, Requests
  <2>3. calls[c] \in Requests /\ (calls[c].kind # "none" => calls[c].tab \in Tabs) /\ edits \in Nat /\ acts \in Nat /\ ops \in Seq(Operations)
    BY Typing DEF TypeOK
  <2>4. r \in Requests /\ ~r.heard /\ r.kind = calls[c].kind /\ r.tab = calls[c].tab
    BY <2>3 DEF Requests
  <2>5. CallsOK'
    BY <2>1, <2>3, <2>4, FreedType, OneCallType
  <2>6. p \in Pages /\ p.save \in Saves /\ Settled(p) \in Pages
    BY <2>2, PageTyping, SettledType
  <2> HIDE DEF p, r
  <2>7. [p.save EXCEPT !.at = "check"] \in Saves
    BY <2>6 DEF Saves
  <2>8. [p EXCEPT !.save.at = "check"] \in Pages
    BY <2>6, <2>7 DEF Pages
  <2>9. q \in Pages
    BY <2>2, <2>6, <2>8 DEF Unheard
  <2> HIDE DEF q, t
  <2> QED
    BY <1>1, <2>1, <2>2, <2>3, <2>5, <2>9, OnePageType
<1> QED
  BY <1>2, <1>3

LEMMA LoadFailsType == ASSUME TypeOK, NEW t \in Tabs, LoadFails(t) PROVE TypeOK'
<1> DEFINE p == tab[t]
           q == IF p.load.at = "meta" THEN [p EXCEPT !.panel = "error", !.load = NoLoad, !.save = IF p.load.own THEN NoSave ELSE @]
                ELSE IF p.load.own THEN [p EXCEPT !.dirty = TRUE, !.save = NoSave, !.load = NoLoad]
                ELSE [p EXCEPT !.load = NoLoad]
<1>1. UNCHANGED <<versions, links, late, viewer, ops, edits, acts, calls>> /\ tab' = [tab EXCEPT ![t] = q]
  BY DEF LoadFails, db
<1>2. faults' \in Nat /\ edits' \in Nat /\ acts' \in Nat /\ ops' \in Seq(Operations) /\ CallsOK'
  BY <1>1, Typing, CallsStay DEF LoadFails
<1>3. p \in Pages /\ p.save \in Saves /\ NoSave \in Saves /\ NoLoad \in Loads
  BY PageTyping
<1> HIDE DEF p
<1>4. q \in Pages
  BY <1>3 DEF Pages
<1> HIDE DEF q
<1> QED
  BY <1>1, <1>2, <1>4, OnePageType

\* The reader, and time.
LEMMA ReaderType == ASSUME TypeOK, LinksInv, ViewerInv, Reader \/ \E o \in DOMAIN ops : Expire(o) PROVE TypeOK'
<1>1. /\ viewer \in Viewers /\ late \in SUBSET Nat /\ DOMAIN ops \subseteq Nat /\ DOMAIN links \subseteq Nat
      /\ \A l \in DOMAIN links : links[l] \in Links
  BY Typing
<1>2. NoViewer \in Viewers
  BY DEF NoViewer, Viewers, Texts
<1>3. CASE Reader
  <2>1. UNCHANGED <<versions, links, ops, late, calls, tab, edits, acts, faults>>
    BY <1>3 DEF Reader, InsertGrant, AskContent, CheckGrant, ReadContent, GrantEnds, ResolveShare, Viewing, db
  <2>2. viewer' \in Viewers
    <3>1. CASE InsertGrant \/ CheckGrant \/ GrantEnds
      BY <1>1, <1>2, <3>1 DEF InsertGrant, CheckGrant, GrantEnds, View, Viewers
    <3>2. CASE AskContent
      BY <1>1, <3>2 DEF AskContent, Viewers, Texts
    <3>3. CASE ReadContent
      <4>1. links[viewer.link] \in Links
        BY <1>1, <3>3 DEF ReadContent, ViewerInv
      <4>2. RevisionText(viewer.link) \in Texts
        BY <4>1 DEF RevisionText, Links
      <4> QED
        BY <1>1, <1>2, <3>3, <4>2 DEF ReadContent, Viewers
    <3>4. ASSUME NEW l \in DOMAIN links, ResolveShare(l) PROVE viewer' \in Viewers
      BY <1>1, <3>4 DEF ResolveShare, Viewers
    <3> QED
      BY <1>3, <3>1, <3>2, <3>3, <3>4 DEF Reader
  <2> QED
    BY <2>1, <2>2 DEF TypeOK
<1>4. ASSUME NEW o \in DOMAIN ops, Expire(o) PROVE TypeOK'
  BY <1>1, <1>4 DEF Expire, TypeOK, db
<1> QED
  BY <1>3, <1>4

\* Every step keeps the state typed.
LEMMA NextType == ASSUME TypeOK, LinksInv, ViewerInv, PagesInv, [Next]_vars PROVE TypeOK'
<1>1. CASE UNCHANGED vars
  BY <1>1 DEF vars, db, TypeOK
<1>2. CASE Next
  BY <1>2, ServerType, AnswerType, FailureType, PageType, PersonType, LoadFailsType, ReaderType DEF Next
<1> QED
  BY <1>1, <1>2
-----------------------------------------------------------------------------
\* No step takes back a version, or the stop or the end of a link, and time does not run back.
VersionsGrow == /\ Newest <= Newest'
                /\ \A k \in 1..Newest : k \in 1..Newest' /\ versions'[k] = versions[k]
LinksGrow == \A l \in DOMAIN links :
    /\ l \in DOMAIN links' /\ links'[l].text = links[l].text /\ links'[l].over = links[l].over /\ links'[l].op = links[l].op
    /\ links[l].stopped => links'[l].stopped
    /\ links'[l].published => links[l].published

LEMMA Growth == ASSUME TypeOK, [Next]_vars PROVE VersionsGrow /\ LinksGrow /\ late \subseteq late'
<1>1. /\ versions \in Seq(Versions) /\ Newest \in Nat /\ DOMAIN versions = 1..Newest
      /\ Len(links) \in Nat /\ DOMAIN links = 1..Len(links) /\ links \in Seq(Links)
      /\ \A l \in DOMAIN links : links[l] \in Links
      /\ \A c \in Calls : calls[c] \in Requests
  BY Typing
<1>2. UNCHANGED versions => VersionsGrow
  BY <1>1 DEF VersionsGrow, Newest
<1>3. UNCHANGED links => LinksGrow
  BY DEF LinksGrow
<1>4. CASE UNCHANGED vars
  BY <1>2, <1>3, <1>4 DEF vars, db
<1>5. ASSUME NEW c \in Calls, Server(c) PROVE VersionsGrow /\ LinksGrow /\ late \subseteq late'
  <2>1. late' = late
    BY <1>5 DEF Server, ReadDraft, WriteDraft, ReadWritten, LookUp, Snapshot, PublishLink, StopLink, LookStopped, Respond, ServerOnly
  <2>2. CASE WriteDraft(c) /\ Replaces(c)
    <3> DEFINE new == [text |-> calls[c].text, over |-> calls[c].over, by |-> calls[c].tab]
    <3>1. versions' = Append(versions, new) /\ UNCHANGED links
      BY <2>2 DEF WriteDraft
    <3>2. new \in Versions
      BY <1>1 DEF Requests, Versions
    <3> HIDE DEF new
    <3>3. VersionsGrow
      BY <1>1, <3>1, <3>2, AppendType DEF VersionsGrow, Newest
    <3> QED
      BY <1>3, <2>1, <3>1, <3>3
  <2>3. CASE PublishLink(c) /\ Publishable(c)
    <3> DEFINE old == [l \in DOMAIN links |-> [links[l] EXCEPT !.published = FALSE]]
               new == [op |-> calls[c].op, by |-> calls[c].tab, over |-> calls[c].over, text |-> calls[c].text,
                       stopped |-> FALSE, published |-> TRUE]
    <3>1. links' = Append(old, new) /\ UNCHANGED versions
      BY <2>3 DEF PublishLink
    <3>2. new \in Links
      BY <1>1 DEF Requests, Links
    <3>3. \A l \in DOMAIN links : old[l] \in Links /\ old[l].text = links[l].text /\ old[l].over = links[l].over /\ old[l].op = links[l].op
              /\ old[l].stopped = links[l].stopped /\ ~old[l].published
      BY <1>1 DEF Links
    <3>4. old \in [1..Len(links) -> Links]
      BY <1>1, <3>3
    <3> HIDE DEF old, new
    <3>5. old \in Seq(Links) /\ Len(old) = Len(links)
      BY <1>1, <3>4, FunctionSeq
    <3>6. links' \in Seq(Links) /\ Len(links') = Len(links) + 1 /\ \A l \in DOMAIN links : links'[l] = old[l]
      BY <1>1, <3>1, <3>2, <3>5, AppendType
    <3>7. LinksGrow
      BY <1>1, <3>3, <3>6, LenProperties DEF LinksGrow
    <3> QED
      BY <1>2, <2>1, <3>1, <3>7
  <2>4. CASE StopLink(c)
    <3>1. UNCHANGED versions /\ (UNCHANGED links \/ links' = [links EXCEPT ![calls[c].link].stopped = TRUE])
      BY <2>4 DEF StopLink
    <3>2. ASSUME links' = [links EXCEPT ![calls[c].link].stopped = TRUE], NEW l \in DOMAIN links
          PROVE  /\ l \in DOMAIN links' /\ links'[l].text = links[l].text /\ links'[l].over = links[l].over
                 /\ links'[l].op = links[l].op /\ links'[l].published = links[l].published
                 /\ links[l].stopped => links'[l].stopped
      <4>1. links[l] \in Links /\ DOMAIN links' = DOMAIN links
        BY <1>1, <3>2
      <4>2. CASE l = calls[c].link
        <5>1. links'[l] = [links[l] EXCEPT !.stopped = TRUE]
          BY <3>2, <4>2
        <5> QED
          BY <4>1, <5>1 DEF Links
      <4>3. CASE l # calls[c].link
        BY <3>2, <4>1, <4>3
      <4> QED
        BY <4>2, <4>3
    <3>3. LinksGrow
      BY <1>3, <3>1, <3>2 DEF LinksGrow
    <3> QED
      BY <1>2, <2>1, <3>1, <3>3
  <2>5. CASE ~(WriteDraft(c) /\ Replaces(c)) /\ ~(PublishLink(c) /\ Publishable(c)) /\ ~StopLink(c)
    <3>1. UNCHANGED <<versions, links>>
      BY <1>5, <2>5 DEF Server, ReadDraft, WriteDraft, ReadWritten, LookUp, Snapshot, PublishLink, LookStopped, Respond, db
    <3> QED
      BY <1>2, <1>3, <2>1, <3>1
  <2> QED
    BY <2>2, <2>3, <2>4, <2>5
<1>6. ASSUME NEW c \in Calls, SaveAnswered(c) \/ ShareAnswered(c) \/ StopAnswered(c) \/ Fail(c) \/ Lose(c)
      PROVE  UNCHANGED <<versions, links, late>>
  BY <1>6 DEF SaveAnswered, ShareAnswered, StopAnswered, Fail, Lose, db
<1>7. ASSUME NEW t \in Tabs, Page(t) \/ Person(t) \/ LoadFails(t) PROVE UNCHANGED <<versions, links, late>>
  BY <1>7 DEF Page, CheckSaved, ReconcileSaved, GetManual, ShowManual, GetMetadata, ShowLoaded, LoadFails,
              Person, Type, Reload, SaveManual, IssueShare, RevokeShare, db
<1>8. CASE Reader
  BY <1>2, <1>3, <1>8 DEF Reader, InsertGrant, AskContent, CheckGrant, ReadContent, GrantEnds, ResolveShare, Viewing, db
<1>9. ASSUME NEW o \in DOMAIN ops, Expire(o) PROVE UNCHANGED <<versions, links>> /\ late \subseteq late'
  BY <1>9 DEF Expire, db
<1> QED
  BY <1>2, <1>3, <1>4, <1>5, <1>6, <1>7, <1>8, <1>9 DEF Next
-----------------------------------------------------------------------------
\* A request changes and its draft, if it has one, is still of the version it names.
LEMMA OneCallDrafted ==
  ASSUME TypeOK, DraftedInv, VersionsGrow, NEW c \in Calls, NEW r, calls' = [calls EXCEPT ![c] = r],
         r.at = "drafted" => r.over \in 1..Newest /\ r.text = versions[r.over].text
  PROVE  DraftedInv'
BY DEF TypeOK, DraftedInv, VersionsGrow

LEMMA AnsweredDrafted ==
  ASSUME TypeOK, DraftedInv, VersionsGrow, NEW c \in Calls, NEW status, NEW value, Answered(c, status, value)
  PROVE  DraftedInv'
<1> DEFINE r == IF ~calls[c].heard THEN FreeCall
                ELSE [FreeCall EXCEPT !.at = "answered", !.kind = calls[c].kind, !.tab = calls[c].tab,
                                      !.heard = TRUE, !.answer = status, !.over = value]
<1>1. r.at # "drafted"
  BY DEF FreeCall
<1>2. calls' = [calls EXCEPT ![c] = r]
  BY DEF Answered
<1> HIDE DEF r
<1> QED
  BY <1>1, <1>2, OneCallDrafted

LEMMA MovedDrafted ==
  ASSUME TypeOK, DraftedInv, VersionsGrow, NEW c \in Calls, NEW at, at # "drafted", Goes(c, at)
  PROVE  DraftedInv'
<1> DEFINE r == [calls[c] EXCEPT !.at = at]
<1>1. r.at # "drafted"
  BY DEF TypeOK, Requests
<1>2. calls' = [calls EXCEPT ![c] = r]
  BY DEF Goes
<1> HIDE DEF r
<1> QED
  BY <1>1, <1>2, OneCallDrafted

LEMMA CallsDrafted == ASSUME DraftedInv, VersionsGrow, UNCHANGED calls PROVE DraftedInv'
BY DEF DraftedInv, VersionsGrow

\* The text a request has drafted is the one of the version it names.
LEMMA NextDrafted == ASSUME TypeOK, DraftedInv, [Next]_vars PROVE DraftedInv'
<1> USE Growth
<1>1. CASE UNCHANGED vars
  BY <1>1, CallsDrafted DEF vars
<1>2. ASSUME NEW c \in Calls, Server(c) PROVE DraftedInv'
  <2>1. CASE Snapshot(c) /\ calls[c].over = Newest
    <3> DEFINE r == [calls[c] EXCEPT !.at = "drafted", !.text = versions[Newest].text]
    <3>1. calls[c] \in Requests /\ Newest \in Nat \ {0}
      BY Typing
    <3>2. calls' = [calls EXCEPT ![c] = r]
      BY <2>1, <3>1 DEF Snapshot, Requests
    <3>3. r.over = Newest /\ r.text = versions[Newest].text
      BY <2>1, <3>1 DEF Requests
    <3> HIDE DEF r
    <3>4. r.over \in 1..Newest /\ r.text = versions[r.over].text
      BY <3>1, <3>3
    <3>5. VersionsGrow
      BY Growth
    <3> QED
      BY <3>2, <3>4, <3>5, OneCallDrafted
  <2>2. CASE PublishLink(c) /\ Publishable(c)
    <3> DEFINE r == [calls[c] EXCEPT !.at = "written", !.link = Len(links) + 1, !.text = {}]
    <3>1. calls' = [calls EXCEPT ![c] = r]
      BY <2>2, Typing DEF PublishLink, Requests
    <3>2. r.at # "drafted"
      BY Typing DEF Requests
    <3> HIDE DEF r
    <3> QED
      BY <3>1, <3>2, OneCallDrafted
  <2>3. CASE ~(Snapshot(c) /\ calls[c].over = Newest) /\ ~(PublishLink(c) /\ Publishable(c))
    <3>1. \/ \E at \in {"read", "written", "looked", "unchanged"} : Goes(c, at)
          \/ \E status, value : Answered(c, status, value)
      BY <1>2, <2>3 DEF Server, ReadDraft, WriteDraft, ReadWritten, LookUp, Snapshot, PublishLink, StopLink, LookStopped, Respond
    <3> QED
      BY <3>1, AnsweredDrafted, MovedDrafted
  <2> QED
    BY <2>1, <2>2, <2>3
<1>3. ASSUME NEW c \in Calls, SaveAnswered(c) \/ ShareAnswered(c) \/ StopAnswered(c) PROVE DraftedInv'
  <2>1. calls' = [calls EXCEPT ![c] = FreeCall]
    BY <1>3 DEF SaveAnswered, ShareAnswered, StopAnswered
  <2> QED
    BY <2>1, OneCallDrafted DEF FreeCall
<1>4. ASSUME NEW c \in Calls, Fail(c) PROVE DraftedInv'
  BY <1>4, AnsweredDrafted DEF Fail
<1>5. ASSUME NEW c \in Calls, Lose(c) PROVE DraftedInv'
  <2> DEFINE r == [calls[c] EXCEPT !.heard = FALSE]
  <2>1. calls' = [calls EXCEPT ![c] = FreeCall] \/ calls' = [calls EXCEPT ![c] = r]
    BY <1>5, Typing DEF Lose, Requests
  <2>2. r.at = calls[c].at /\ r.over = calls[c].over /\ r.text = calls[c].text
    BY Typing DEF Requests
  <2> HIDE DEF r
  <2>3. r.at = "drafted" => r.over \in 1..Newest /\ r.text = versions[r.over].text
    BY <2>2 DEF DraftedInv
  <2> QED
    BY <2>1, <2>3, OneCallDrafted DEF FreeCall
<1>6. ASSUME NEW t \in Tabs, Page(t) \/ LoadFails(t) \/ Type(t) \/ Reload(t) PROVE DraftedInv'
  <2>1. UNCHANGED calls
    BY <1>6 DEF Page, CheckSaved, ReconcileSaved, GetManual, ShowManual, GetMetadata, ShowLoaded, LoadFails, Type, Reload
  <2> QED
    BY <2>1, CallsDrafted
<1>7. ASSUME NEW t \in Tabs, NEW c \in Calls, SaveManual(t, c) \/ IssueShare(t, c) \/ RevokeShare(t, c) PROVE DraftedInv'
  <2>1. ASSUME NEW r, r.at = "sent", Send(c, r) PROVE DraftedInv'
    <3>1. calls' = [calls EXCEPT ![c] = r]
      BY <2>1 DEF Send
    <3> QED
      BY <2>1, <3>1, OneCallDrafted
  <2>2. CASE SaveManual(t, c)
    <3> DEFINE r == [FreeCall EXCEPT !.at = "sent", !.kind = "save", !.tab = t, !.heard = TRUE,
                                     !.over = tab[t].at, !.text = tab[t].text]
    <3>1. Send(c, r) /\ r.at = "sent"
      BY <2>2 DEF SaveManual, FreeCall
    <3> HIDE DEF r
    <3> QED
      BY <2>1, <3>1
  <2>3. CASE IssueShare(t, c)
    <3> DEFINE p == tab[t]
               r == [FreeCall EXCEPT !.at = "sent", !.kind = "share", !.tab = t, !.heard = TRUE, !.over = p.cv,
                                     !.op = IF Repeats(p) THEN p.pending.op ELSE Len(ops) + 1]
    <3>1. Send(c, r) /\ r.at = "sent"
      BY <2>3 DEF IssueShare, FreeCall
    <3> HIDE DEF r
    <3> QED
      BY <2>1, <3>1
  <2>4. CASE RevokeShare(t, c)
    <3> DEFINE r == [FreeCall EXCEPT !.at = "sent", !.kind = "stop", !.tab = t, !.heard = TRUE, !.link = tab[t].link]
    <3>1. Send(c, r) /\ r.at = "sent"
      BY <2>4 DEF RevokeShare, FreeCall
    <3> HIDE DEF r
    <3> QED
      BY <2>1, <3>1
  <2> QED
    BY <1>7, <2>2, <2>3, <2>4
<1>8. CASE Reader \/ \E o \in DOMAIN ops : Expire(o)
  <2>1. UNCHANGED calls
    BY <1>8 DEF Reader, InsertGrant, AskContent, CheckGrant, ReadContent, GrantEnds, ResolveShare, Viewing, Expire
  <2> QED
    BY <2>1, CallsDrafted
<1> QED
  BY <1>1, <1>2, <1>3, <1>4, <1>5, <1>6, <1>7, <1>8 DEF Next, Person
-----------------------------------------------------------------------------
\* The steps that change the draft or its links.
LEMMA DatabaseStep ==
  ASSUME [Next]_vars
  PROVE  \/ UNCHANGED db
         \/ \E c \in Calls : WriteDraft(c) /\ Replaces(c)
         \/ \E c \in Calls : PublishLink(c) /\ Publishable(c)
         \/ \E c \in Calls : StopLink(c)
<1>1. CASE UNCHANGED vars
  BY <1>1 DEF vars, db
<1>2. ASSUME NEW c \in Calls, Server(c), ~(WriteDraft(c) /\ Replaces(c)), ~(PublishLink(c) /\ Publishable(c)), ~StopLink(c)
      PROVE  UNCHANGED db
  BY <1>2 DEF Server, ReadDraft, WriteDraft, ReadWritten, LookUp, Snapshot, PublishLink, LookStopped, Respond, db
<1>3. ASSUME NEW c \in Calls, SaveAnswered(c) \/ ShareAnswered(c) \/ StopAnswered(c) \/ Fail(c) \/ Lose(c)
      PROVE  UNCHANGED db
  BY <1>3 DEF SaveAnswered, ShareAnswered, StopAnswered, Fail, Lose
<1>4. ASSUME NEW t \in Tabs, Page(t) \/ Person(t) \/ LoadFails(t) PROVE UNCHANGED db
  BY <1>4 DEF Page, CheckSaved, ReconcileSaved, GetManual, ShowManual, GetMetadata, ShowLoaded, LoadFails,
              Person, Type, Reload, SaveManual, IssueShare, RevokeShare
<1>5. ASSUME Reader \/ \E o \in DOMAIN ops : Expire(o) PROVE UNCHANGED db
  BY <1>5 DEF Reader, InsertGrant, AskContent, CheckGrant, ReadContent, GrantEnds, ResolveShare, Viewing, Expire
<1> QED
  BY <1>1, <1>2, <1>3, <1>4, <1>5 DEF Next

\* A version is stored only over the one its request names.
LEMMA NextReplacesNamed == ASSUME TypeOK, SaveReplacesNamed, [Next]_vars PROVE SaveReplacesNamed'
<1>1. versions \in Seq(Versions) /\ Newest \in Nat /\ \A c \in Calls : calls[c] \in Requests
  BY Typing
<1>2. CASE UNCHANGED versions
  BY <1>2 DEF SaveReplacesNamed, Newest
<1>3. ASSUME NEW c \in Calls, WriteDraft(c), Replaces(c) PROVE SaveReplacesNamed'
  <2> DEFINE new == [text |-> calls[c].text, over |-> calls[c].over, by |-> calls[c].tab]
  <2>1. versions' = Append(versions, new)
    BY <1>3 DEF WriteDraft
  <2>2. new \in Versions /\ new.over = Newest
    BY <1>1, <1>3 DEF Requests, Versions, Replaces, StillNamed
  <2> HIDE DEF new
  <2>3. Newest' = Newest + 1 /\ versions'[Newest + 1] = new /\ \A k \in 1..Newest : versions'[k] = versions[k]
    BY <1>1, <2>1, <2>2, AppendType DEF Newest
  <2>4. ASSUME NEW k \in 2..Newest' PROVE versions'[k].over = k - 1
    <3>1. CASE k = Newest + 1
      BY <1>1, <2>2, <2>3, <3>1
    <3>2. CASE k # Newest + 1
      <4>1. k \in 2..Newest
        BY <1>1, <2>3, <3>2
      <4> QED
        BY <1>1, <2>3, <4>1 DEF SaveReplacesNamed
    <3> QED
      BY <3>1, <3>2
  <2> QED
    BY <2>4 DEF SaveReplacesNamed
<1> QED
  BY <1>2, <1>3, DatabaseStep DEF db, PublishLink, StopLink

\* What PublishLink leaves: the links there were, superseded, and the new one.
LEMMA Published ==
  ASSUME TypeOK, NEW c \in Calls, PublishLink(c), Publishable(c)
  PROVE  /\ Len(links') = Len(links) + 1 /\ links' \in Seq(Links)
         /\ \A l \in DOMAIN links : links'[l].stopped = links[l].stopped
         /\ LET l == Len(links) + 1 IN
            links'[l].over = calls[c].over /\ links'[l].text = calls[c].text /\ links'[l].published
<1>1. /\ links \in Seq(Links) /\ Len(links) \in Nat /\ DOMAIN links = 1..Len(links) /\ calls[c] \in Requests
      /\ \A l \in DOMAIN links : links[l] \in Links
  BY Typing
<1> DEFINE old == [l \in DOMAIN links |-> [links[l] EXCEPT !.published = FALSE]]
           new == [op |-> calls[c].op, by |-> calls[c].tab, over |-> calls[c].over, text |-> calls[c].text,
                   stopped |-> FALSE, published |-> TRUE]
<1>2. links' = Append(old, new)
  BY DEF PublishLink
<1>3. new \in Links /\ new.over = calls[c].over /\ new.text = calls[c].text /\ new.published
  BY <1>1 DEF Requests, Links
<1>4. old \in [1..Len(links) -> Links] /\ \A l \in DOMAIN links : old[l].stopped = links[l].stopped
  BY <1>1 DEF Links
<1> HIDE DEF old, new
<1>5. old \in Seq(Links) /\ Len(old) = Len(links)
  BY <1>1, <1>4, FunctionSeq
<1> QED
  BY <1>1, <1>2, <1>3, <1>4, <1>5, AppendType

\* One link at most is live, and its revision is the published one.
LEMMA NextOneLiveLink == ASSUME TypeOK, OneLiveLink, [Next]_vars PROVE OneLiveLink'
<1>1. /\ links \in Seq(Links) /\ Len(links) \in Nat /\ DOMAIN links = 1..Len(links)
      /\ \A l \in DOMAIN links : links[l] \in Links
  BY Typing
<1>2. CASE UNCHANGED links
  BY <1>2 DEF OneLiveLink, Live
<1>3. ASSUME NEW c \in Calls, PublishLink(c), Publishable(c) PROVE OneLiveLink'
  <2>1. /\ DOMAIN links' = 1..(Len(links) + 1)
        /\ \A l \in DOMAIN links : links'[l].stopped = links[l].stopped /\ links[l].stopped
        /\ links'[Len(links) + 1].published
    BY <1>1, <1>3, Published, LenProperties DEF Publishable, Live
  <2> QED
    BY <1>1, <2>1 DEF OneLiveLink, Live
<1>4. ASSUME NEW c \in Calls, StopLink(c), links' # links PROVE OneLiveLink'
  <2>1. links' = [links EXCEPT ![calls[c].link].stopped = TRUE]
    BY <1>4 DEF StopLink
  <2>2. ASSUME NEW l \in DOMAIN links'
        PROVE  l \in DOMAIN links /\ (~links'[l].stopped => ~links[l].stopped) /\ links'[l].published = links[l].published
    <3>1. l \in DOMAIN links /\ links[l] \in Links
      BY <1>1, <2>1, <2>2
    <3>2. CASE l = calls[c].link
      <4>1. links'[l] = [links[l] EXCEPT !.stopped = TRUE]
        BY <2>1, <3>1, <3>2
      <4> QED
        BY <3>1, <4>1 DEF Links
    <3>3. CASE l # calls[c].link
      BY <2>1, <3>1, <3>3
    <3> QED
      BY <3>2, <3>3
  <2> QED
    BY <2>2 DEF OneLiveLink, Live
<1> QED
  BY <1>2, <1>3, <1>4, DatabaseStep DEF db, WriteDraft

\* The text of a link is the one of the version it names.
LEMMA NextLinks == ASSUME TypeOK, DraftedInv, LinksInv, [Next]_vars PROVE LinksInv'
<1>1. VersionsGrow /\ LinksGrow
  BY Growth
<1>2. ASSUME NEW l \in DOMAIN links' \cap DOMAIN links
      PROVE  (links[l].over \in 1..Newest /\ links[l].text = versions[links[l].over].text)'
  BY <1>1, <1>2 DEF LinksInv, VersionsGrow, LinksGrow
<1>3. CASE DOMAIN links' = DOMAIN links
  BY <1>2, <1>3 DEF LinksInv
<1>4. ASSUME NEW c \in Calls, PublishLink(c), Publishable(c) PROVE LinksInv'
  <2>1. Len(links) \in Nat /\ DOMAIN links = 1..Len(links) /\ DOMAIN links' = 1..(Len(links) + 1)
    BY <1>4, Typing, Published, LenProperties
  <2>2. LET l == Len(links) + 1 IN links'[l].over \in 1..Newest /\ links'[l].text = versions[links'[l].over].text
    BY <1>4, Published DEF DraftedInv, PublishLink
  <2> QED
    BY <1>1, <1>2, <2>1, <2>2 DEF LinksInv, VersionsGrow
<1> QED
  BY <1>3, <1>4, DatabaseStep DEF db, WriteDraft, StopLink

\* A reader whose link was not open when the request began has no text,
\* and the text shown is the one of the link.
LEMMA NextViewer == ASSUME TypeOK, ViewerInv, [Next]_vars PROVE ViewerInv'
<1>1. LinksGrow /\ late \subseteq late'
  BY Growth
<1>2. CASE UNCHANGED viewer
  BY <1>1, <1>2 DEF ViewerInv, LinksGrow, Open, Live, Expired
<1>3. CASE Reader
  <2>1. UNCHANGED <<links, late>>
    BY <1>3 DEF Reader, InsertGrant, AskContent, CheckGrant, ReadContent, GrantEnds, ResolveShare, Viewing, db
  <2>2. viewer \in Viewers
    BY Typing
  <2>3. CASE viewer' = NoViewer
    BY <2>3 DEF ViewerInv, NoViewer
  <2>4. ASSUME NEW l \in DOMAIN links, ResolveShare(l) PROVE ViewerInv'
    BY <2>1, <2>2, <2>4, <1>2 DEF ResolveShare, ViewerInv, Viewers
  <2>5. CASE InsertGrant
    BY <2>1, <2>2, <2>3, <2>5 DEF InsertGrant, View, ViewerInv, Viewers
  <2>6. CASE AskContent
    BY <2>1, <2>2, <2>6 DEF AskContent, ViewerInv, Viewers, Open, Live, Expired
  <2>7. CASE CheckGrant
    BY <2>1, <2>2, <2>3, <2>7 DEF CheckGrant, GrantHolds, View, ViewerInv, Viewers, Open, Live, Expired
  <2>8. CASE ReadContent
    BY <2>1, <2>2, <2>3, <2>8 DEF ReadContent, RevisionText, ViewerInv, Viewers
  <2> QED
    BY <1>3, <2>3, <2>4, <2>5, <2>6, <2>7, <2>8 DEF Reader, GrantEnds
<1>4. ASSUME NEW c \in Calls, Server(c) \/ SaveAnswered(c) \/ ShareAnswered(c) \/ StopAnswered(c) \/ Fail(c) \/ Lose(c)
      PROVE  UNCHANGED viewer
  BY <1>4 DEF Server, ReadDraft, WriteDraft, ReadWritten, LookUp, Snapshot, PublishLink, StopLink, LookStopped, Respond, ServerOnly,
              SaveAnswered, ShareAnswered, StopAnswered, Fail, Lose
<1>5. ASSUME NEW t \in Tabs, Page(t) \/ Person(t) \/ LoadFails(t) PROVE UNCHANGED viewer
  BY <1>5 DEF Page, CheckSaved, ReconcileSaved, GetManual, ShowManual, GetMetadata, ShowLoaded, LoadFails,
              Person, Type, Reload, SaveManual, IssueShare, RevokeShare
<1> QED
  BY <1>2, <1>3, <1>4, <1>5 DEF Next, Expire, vars
-----------------------------------------------------------------------------
\* What the pages and their saves know, and the rule for a step that changes
\* one request and one page: the page is one PageKnows allows, clean only with
\* a stored text, and a save of another request is of a page that still waits
\* for it.
PagesOK == SavesInv /\ PagesInv /\ CleanIsStored
SaveOf(r) == r.heard /\ r.kind = "save"
PageOK(q) == PageKnows(q) /\ (~q.dirty => Stored(q.text))

LEMMA StoredGrows == ASSUME VersionsGrow, NEW text, Stored(text) PROVE \E k \in 1..Newest' : versions'[k].text = text
BY DEF VersionsGrow, Stored

LEMMA PagesStay == ASSUME TypeOK, VersionsGrow, PagesOK, UNCHANGED tab PROVE PagesInv' /\ CleanIsStored'
BY DEF VersionsGrow, PagesOK, PagesInv, PageKnows, CleanIsStored

LEMMA OnePageOK ==
  ASSUME TypeOK, PagesOK, UNCHANGED versions, NEW t \in Tabs, NEW q, PageOK(q), tab' = [tab EXCEPT ![t] = q]
  PROVE  PagesInv' /\ CleanIsStored'
<1>1. ASSUME NEW u \in Tabs PROVE PageOK(tab'[u])
  BY DEF TypeOK, PagesOK, PagesInv, CleanIsStored, PageOK, Stored
<1>2. Newest' = Newest
  BY DEF Newest
<1>3. PagesInv'
  BY <1>1, <1>2 DEF PageOK, PagesInv, PageKnows
<1> QED
  BY <1>1, <1>2, <1>3 DEF PageOK, CleanIsStored, Stored

LEMMA SavesStay ==
  ASSUME SavesInv, VersionsGrow, UNCHANGED <<calls, tab>>
  PROVE  SavesInv'
BY DEF SavesInv, VersionsGrow, Saving, RequestKnows, Stored

\* A step of one request: its save, if it has one, is the one it had.
LEMMA OneCallSaves ==
  ASSUME TypeOK, SavesInv, VersionsGrow, UNCHANGED tab, NEW c \in Calls, NEW r, calls' = [calls EXCEPT ![c] = r],
         r.at = "answered" => r.heard,
         SaveOf(r) => /\ Saving(c) /\ r.tab = calls[c].tab
                      /\ r.at \in {"sent", "read", "written", "answered"}
                      /\ r.at # "answered" => r.text = tab[calls[c].tab].save.snap
                      /\ r.at = "written" \/ r.answer = 200 => \E k \in 1..Newest' : versions'[k].text = tab[calls[c].tab].save.snap
  PROVE  SavesInv'
<1>1. \A d \in Calls : calls'[d] = IF d = c THEN r ELSE calls[d]
  BY DEF TypeOK
<1>2. ASSUME NEW d \in Calls, Saving(d)'
      PROVE  Saving(d) /\ calls'[d].tab = calls[d].tab /\ RequestKnows(calls[d], tab[calls[d].tab])'
  <2>1. CASE d = c
    <3>1. SaveOf(r) /\ calls'[d] = r
      BY <1>1, <1>2, <2>1 DEF Saving, SaveOf
    <3>2. tab[calls[c].tab].save.at = "patch"
      BY <3>1 DEF SavesInv, RequestKnows
    <3> QED
      BY <2>1, <3>1, <3>2 DEF RequestKnows, Stored
  <2>2. CASE d # c
    <3>1. Saving(d) /\ calls'[d] = calls[d]
      BY <1>1, <1>2, <2>2 DEF Saving
    <3>2. RequestKnows(calls[d], tab[calls[d].tab])
      BY <3>1 DEF SavesInv
    <3> QED
      BY <3>1, <3>2, StoredGrows DEF RequestKnows, Stored
  <2> QED
    BY <2>1, <2>2
<1>3. \A d \in Calls : calls'[d].at = "answered" => calls'[d].heard
  BY <1>1 DEF SavesInv
<1>4. ASSUME NEW d \in Calls, NEW e \in Calls, Saving(d)', Saving(e)', calls'[e].tab = calls'[d].tab PROVE e = d
  BY <1>2, <1>4 DEF SavesInv
<1> QED
  BY <1>2, <1>3, <1>4 DEF SavesInv

\* A step of one page: the save it waits for, if any, stays.
LEMMA OnePageSaves ==
  ASSUME TypeOK, SavesInv, UNCHANGED <<versions, calls>>, NEW t \in Tabs, NEW q, tab' = [tab EXCEPT ![t] = q],
         tab[t].save.at = "patch" => q.save.at = "patch" /\ q.save.snap = tab[t].save.snap
  PROVE  SavesInv'
<1>1. \A u \in Tabs : tab'[u] = IF u = t THEN q ELSE tab[u]
  BY DEF TypeOK
<1>2. ASSUME NEW d \in Calls, Saving(d) PROVE RequestKnows(calls[d], tab'[calls[d].tab])
  <2>1. calls[d].tab \in Tabs
    BY <1>2 DEF TypeOK, Saving
  <2>2. RequestKnows(calls[d], tab[calls[d].tab])
    BY <1>2 DEF SavesInv
  <2> QED
    BY <1>1, <2>1, <2>2 DEF RequestKnows
<1>3. Newest' = Newest
  BY DEF Newest
<1> QED
  BY <1>2, <1>3 DEF SavesInv, Saving, RequestKnows, Stored

\* A step of one request and one page, when no other save is of that page.
LEMMA CallAndPageSaves ==
  ASSUME TypeOK, SavesInv, UNCHANGED versions, NEW c \in Calls, NEW r, calls' = [calls EXCEPT ![c] = r],
         NEW t \in Tabs, NEW q, tab' = [tab EXCEPT ![t] = q],
         r.at = "answered" => r.heard,
         SaveOf(r) => r.tab = t /\ RequestKnows(r, q) /\ tab[t].save.at # "patch",
         \/ tab[t].save.at = "patch" => q.save.at = "patch" /\ q.save.snap = tab[t].save.snap
         \/ Saving(c) /\ calls[c].tab = t
  PROVE  SavesInv'
<1>1. /\ \A u \in Tabs : tab'[u] = IF u = t THEN q ELSE tab[u]
      /\ \A d \in Calls : calls'[d] = IF d = c THEN r ELSE calls[d]
  BY DEF TypeOK
<1>2. ASSUME NEW d \in Calls, Saving(d)', d # c
      PROVE  Saving(d) /\ calls'[d] = calls[d] /\ RequestKnows(calls[d], tab'[calls[d].tab])
             /\ tab[calls[d].tab].save.at = "patch"
  <2>1. Saving(d) /\ calls'[d] = calls[d]
    BY <1>1, <1>2 DEF Saving
  <2>2. calls[d].tab \in Tabs
    BY <2>1 DEF TypeOK, Saving
  <2>3. RequestKnows(calls[d], tab[calls[d].tab]) /\ (Saving(c) => calls[d].tab # calls[c].tab)
    BY <1>2, <2>1 DEF SavesInv
  <2> QED
    BY <1>1, <2>1, <2>2, <2>3 DEF RequestKnows
<1>3. ASSUME NEW d \in Calls, Saving(d)', d = c
      PROVE  calls'[d] = r /\ r.tab = t /\ RequestKnows(r, tab'[t]) /\ tab[t].save.at # "patch"
  BY <1>1, <1>3 DEF Saving, SaveOf
<1>4. Newest' = Newest
  BY DEF Newest
<1>5. ASSUME NEW d \in Calls, Saving(d)' PROVE RequestKnows(calls[d], tab[calls[d].tab])'
  BY <1>2, <1>3, <1>4, <1>5 DEF RequestKnows, Stored
<1>6. \A d \in Calls : calls'[d].at = "answered" => calls'[d].heard
  BY <1>1 DEF SavesInv
<1>7. ASSUME NEW d \in Calls, NEW e \in Calls, Saving(d)', Saving(e)', calls'[e].tab = calls'[d].tab PROVE e = d
  <2>1. CASE d # c /\ e # c
    BY <1>2, <1>7, <2>1 DEF SavesInv
  <2>2. CASE d = c /\ e # c
    BY <1>2, <1>3, <1>7, <2>2
  <2>3. CASE d # c /\ e = c
    BY <1>2, <1>3, <1>7, <2>3
  <2> QED
    BY <2>1, <2>2, <2>3
<1> QED
  BY <1>5, <1>6, <1>7 DEF SavesInv
-----------------------------------------------------------------------------
\* The requests of the Worker keep what a save knows of its page.
LEMMA AnsweredSaves ==
  ASSUME TypeOK, SavesInv, VersionsGrow, UNCHANGED tab, NEW c \in Calls, NEW status, NEW value, Answered(c, status, value),
         calls[c].kind = "save" /\ status = 200 => calls[c].at = "written"
  PROVE  SavesInv'
<1> DEFINE r == IF ~calls[c].heard THEN FreeCall
                ELSE [FreeCall EXCEPT !.at = "answered", !.kind = calls[c].kind, !.tab = calls[c].tab,
                                      !.heard = TRUE, !.answer = status, !.over = value]
           snap == tab[calls[c].tab].save.snap
<1>1. calls' = [calls EXCEPT ![c] = r]
  BY DEF Answered
<1>2. r.at = "answered" => r.heard
  BY DEF FreeCall
<1>3. SaveOf(r) => Saving(c) /\ r.tab = calls[c].tab /\ r.at = "answered" /\ r.answer = status
  BY DEF FreeCall, SaveOf, Saving
<1>4. Saving(c) /\ status = 200 => \E k \in 1..Newest' : versions'[k].text = snap
  BY StoredGrows DEF SavesInv, RequestKnows, Saving
<1> HIDE DEF r, snap
<1> QED
  BY <1>1, <1>2, <1>3, <1>4, OneCallSaves DEF snap

LEMMA GoesSaves ==
  ASSUME TypeOK, SavesInv, VersionsGrow, UNCHANGED tab, NEW c \in Calls, NEW at, Goes(c, at), at # "answered",
         Saving(c) => /\ at \in {"read", "written"} /\ calls[c].at # "answered"
                      /\ at = "written" => \E k \in 1..Newest' : versions'[k].text = calls[c].text
  PROVE  SavesInv'
<1> DEFINE r == [calls[c] EXCEPT !.at = at]
           snap == tab[calls[c].tab].save.snap
<1>1. calls' = [calls EXCEPT ![c] = r]
  BY DEF Goes
<1>2. /\ r.at = at /\ r.heard = calls[c].heard /\ r.kind = calls[c].kind /\ r.tab = calls[c].tab
      /\ r.text = calls[c].text /\ r.answer = calls[c].answer
  BY Typing DEF Requests
<1>3. Saving(c) => r.text = snap
  BY <1>2 DEF SavesInv, RequestKnows
<1>4. Saving(c) /\ (r.at = "written" \/ r.answer = 200) => \E k \in 1..Newest' : versions'[k].text = snap
  BY <1>2, <1>3, StoredGrows DEF SavesInv, RequestKnows
<1> HIDE DEF r, snap
<1> QED
  BY <1>1, <1>2, <1>3, <1>4, OneCallSaves DEF snap, SaveOf, Saving

\* A step of a request that is no save.
LEMMA OtherSaves ==
  ASSUME TypeOK, SavesInv, VersionsGrow, UNCHANGED tab, NEW c \in Calls, NEW r, calls' = [calls EXCEPT ![c] = r],
         r.at # "answered", ~SaveOf(r)
  PROVE  SavesInv'
BY OneCallSaves

LEMMA ServerSaves == ASSUME TypeOK, SavesInv, VersionsGrow, NEW c \in Calls, Server(c) PROVE SavesInv'
<1>1. UNCHANGED tab
  BY DEF Server, ReadDraft, WriteDraft, ReadWritten, LookUp, Snapshot, PublishLink, StopLink, LookStopped, Respond, ServerOnly
<1>2. calls[c] \in Requests
  BY Typing
<1>3. Saving(c) => calls[c].at \in {"sent", "read", "written", "answered"} /\ calls[c].kind = "save"
  BY DEF SavesInv, RequestKnows, Saving
<1>4. CASE ReadDraft(c)
  <2>1. Goes(c, "read") \/ Answered(c, 409, 0)
    BY <1>4 DEF ReadDraft
  <2> QED
    BY <1>1, <1>4, <2>1, GoesSaves, AnsweredSaves DEF ReadDraft
<1>5. CASE WriteDraft(c) /\ Replaces(c)
  <2> DEFINE new == [text |-> calls[c].text, over |-> calls[c].over, by |-> calls[c].tab]
  <2>1. versions' = Append(versions, new) /\ Goes(c, "written") /\ calls[c].at = "read"
    BY <1>5 DEF WriteDraft
  <2>2. new \in Versions /\ new.text = calls[c].text
    BY <1>2 DEF Requests, Versions
  <2> HIDE DEF new
  <2>3. Newest' = Newest + 1 /\ versions'[Newest + 1] = new /\ Newest \in Nat
    BY <2>1, <2>2, Typing, AppendType DEF Newest
  <2>4. Newest + 1 \in 1..Newest'
    BY <2>3
  <2>5. \E k \in 1..Newest' : versions'[k].text = calls[c].text
    BY <2>2, <2>3, <2>4
  <2> QED
    BY <1>1, <2>1, <2>5, GoesSaves
<1>6. CASE WriteDraft(c) /\ ~Replaces(c)
  <2>1. Answered(c, 409, 0)
    BY <1>6 DEF WriteDraft
  <2> QED
    BY <1>1, <2>1, AnsweredSaves
<1>7. CASE ReadWritten(c)
  BY <1>1, <1>7, AnsweredSaves DEF ReadWritten
<1>8. CASE LookUp(c)
  <2>1. Goes(c, "looked") \/ \E status, value : Answered(c, status, value)
    BY <1>8 DEF LookUp
  <2> QED
    BY <1>1, <1>3, <1>8, <2>1, GoesSaves, AnsweredSaves DEF LookUp
<1>9. CASE Snapshot(c) /\ calls[c].over = Newest
  <2> DEFINE r == [calls[c] EXCEPT !.at = "drafted", !.text = versions[Newest].text]
  <2>1. calls' = [calls EXCEPT ![c] = r]
    BY <1>2, <1>9 DEF Snapshot, Requests
  <2>2. r.at # "answered" /\ ~SaveOf(r)
    BY <1>2, <1>3, <1>9 DEF Snapshot, SaveOf, Saving, Requests
  <2> HIDE DEF r
  <2> QED
    BY <1>1, <2>1, <2>2, OtherSaves
<1>10. CASE Snapshot(c) /\ calls[c].over # Newest
  <2>1. Answered(c, 409, 0)
    BY <1>10 DEF Snapshot
  <2> QED
    BY <1>1, <2>1, AnsweredSaves
<1>11. CASE PublishLink(c) /\ Publishable(c)
  <2> DEFINE r == [calls[c] EXCEPT !.at = "written", !.link = Len(links) + 1, !.text = {}]
  <2>1. calls' = [calls EXCEPT ![c] = r]
    BY <1>2, <1>11 DEF PublishLink, Requests
  <2>2. r.at # "answered" /\ ~SaveOf(r)
    BY <1>2, <1>3, <1>11 DEF PublishLink, SaveOf, Saving, Requests
  <2> HIDE DEF r
  <2> QED
    BY <1>1, <2>1, <2>2, OtherSaves
<1>12. CASE PublishLink(c) /\ ~Publishable(c)
  <2>1. Answered(c, 409, 0)
    BY <1>12 DEF PublishLink
  <2> QED
    BY <1>1, <2>1, AnsweredSaves
<1>13. CASE StopLink(c)
  <2>1. (Goes(c, "written") \/ Goes(c, "unchanged")) /\ ~Saving(c)
    BY <1>13 DEF StopLink, Saving
  <2> QED
    BY <1>1, <2>1, GoesSaves
<1>14. CASE LookStopped(c)
  <2>1. calls[c].kind # "save" \/ ~calls[c].heard
    BY <1>3, <1>14 DEF LookStopped, Saving
  <2>2. Answered(c, 409, 0) \/ Answered(c, 200, calls[c].link)
    BY <1>14 DEF LookStopped
  <2>3. ASSUME ~calls[c].heard PROVE SavesInv'
    <3>1. calls' = [calls EXCEPT ![c] = FreeCall]
      BY <2>2, <2>3 DEF Answered
    <3>2. FreeCall.at # "answered" /\ ~SaveOf(FreeCall)
      BY DEF FreeCall, SaveOf
    <3> QED
      BY <1>1, <3>1, <3>2, OtherSaves
  <2> QED
    BY <1>1, <2>1, <2>2, <2>3, AnsweredSaves
<1>15. CASE Respond(c)
  BY <1>1, <1>15, AnsweredSaves DEF Respond
<1> QED
  BY <1>4, <1>5, <1>6, <1>7, <1>8, <1>9, <1>10, <1>11, <1>12, <1>13, <1>14, <1>15 DEF Server
-----------------------------------------------------------------------------
\* One page changes to q.
LEMMA PageStep ==
  ASSUME TypeOK, PagesOK, UNCHANGED <<versions, calls>>, NEW t \in Tabs, NEW q, tab' = [tab EXCEPT ![t] = q], PageOK(q),
         tab[t].save.at = "patch" => q.save.at = "patch" /\ q.save.snap = tab[t].save.snap
  PROVE  PagesOK'
BY OnePageOK, OnePageSaves DEF PagesOK

LEMMA PageSteps ==
  ASSUME TypeOK, PagesOK, NEW t \in Tabs, Page(t) \/ LoadFails(t) \/ Type(t) \/ Reload(t)
  PROVE  PagesOK'
<1> DEFINE p == tab[t]
<1>1. UNCHANGED <<versions, calls>>
  BY DEF Page, CheckSaved, ReconcileSaved, GetManual, ShowManual, GetMetadata, ShowLoaded, LoadFails, Type, Reload, db
<1>2. ASSUME NEW q, tab' = [tab EXCEPT ![t] = q], PageOK(q), p.save.at = "patch" => q.save.at = "patch" /\ q.save.snap = p.save.snap
      PROVE  PagesOK'
  BY <1>1, <1>2, PageStep
<1>3. p \in Pages /\ p.save \in Saves /\ p.load \in Loads /\ tab \in [Tabs -> Pages] /\ Newest \in Nat \ {0}
  BY PageTyping, Typing
<1>4. /\ p.save.at = "patch" /\ ~p.save.typed => p.text = p.save.snap
      /\ p.load.at = "read" => p.load.ver \in 1..Newest
      /\ p.load.own => p.save.at = "refresh"
      /\ ~p.dirty => Stored(p.text)
  BY DEF PagesOK, PagesInv, PageKnows, CleanIsStored, Stored
<1> HIDE DEF p
<1>5. CASE CheckSaved(t)
  <2> DEFINE q == [p EXCEPT !.save = [p.save EXCEPT !.at = "checked", !.ver = Newest]]
  <2>0. p.save.at = "check"
    BY <1>5 DEF CheckSaved, p
  <2>1. tab' = [tab EXCEPT ![t] = q]
    BY <1>3, <1>5 DEF CheckSaved, Pages, Saves, p
  <2>2. q.save.at = "checked" /\ q.load = p.load /\ q.text = p.text /\ q.dirty = p.dirty
    BY <1>3 DEF Pages, Saves
  <2> HIDE DEF q
  <2> QED
    BY <1>2, <1>4, <2>0, <2>1, <2>2 DEF PageOK, PageKnows
<1>6. CASE ReconcileSaved(t)
  <2>1. PICK q \in {[p EXCEPT !.at = p.save.ver, !.cv = p.save.ver, !.save = NoSave], [p EXCEPT !.save = NoSave]} :
            tab' = [tab EXCEPT ![t] = q] /\ p.save.at = "checked"
    BY <1>6 DEF ReconcileSaved, p
  <2>2. NoSave.at = "none"
    BY DEF NoSave
  <2>3. q.save = NoSave /\ q.load = p.load /\ q.text = p.text /\ q.dirty = p.dirty
    BY <1>3, <2>1 DEF Pages
  <2> QED
    BY <1>2, <1>4, <2>1, <2>2, <2>3 DEF PageOK, PageKnows
<1>7. CASE GetManual(t)
  <2> DEFINE q == [p EXCEPT !.load = [p.load EXCEPT !.at = "read", !.ver = Newest]]
  <2>1. tab' = [tab EXCEPT ![t] = q]
    BY <1>3, <1>7 DEF GetManual, Pages, Loads, p
  <2>2. /\ q.save = p.save /\ q.text = p.text /\ q.dirty = p.dirty
        /\ q.load.ver = Newest /\ q.load.own = p.load.own
    BY <1>3 DEF Pages, Loads
  <2>3. Newest \in 1..Newest
    BY <1>3
  <2> HIDE DEF q
  <2> QED
    BY <1>2, <1>4, <2>1, <2>2, <2>3 DEF PageOK, PageKnows
<1>8. CASE ShowManual(t) /\ Unconfirmed(p)
  <2> DEFINE q == [p EXCEPT !.dirty = TRUE, !.save = NoSave, !.load = NoLoad]
  <2>1. tab' = [tab EXCEPT ![t] = q] /\ p.load.own
    BY <1>8 DEF ShowManual, Unconfirmed, p
  <2>2. q.dirty /\ q.save.at = "none" /\ q.load.at = "none" /\ ~q.load.own
    BY <1>3 DEF Pages, NoSave, NoLoad
  <2> HIDE DEF q
  <2> QED
    BY <1>2, <1>4, <2>1, <2>2 DEF PageOK, PageKnows
<1>9. CASE ShowManual(t) /\ ~Unconfirmed(p)
  <2> DEFINE k == p.load.ver
             q == [p EXCEPT !.at = k, !.cv = k, !.text = versions[k].text, !.dirty = FALSE,
                            !.save = [p.save EXCEPT !.typed = (p.save.at = "patch")],
                            !.load = [p.load EXCEPT !.at = "meta"]]
  <2>1. tab' = [tab EXCEPT ![t] = q] /\ k \in 1..Newest
    BY <1>3, <1>4, <1>9 DEF ShowManual, p, Pages
  <2>2. /\ q.text = versions[k].text /\ q.save.at = p.save.at /\ q.save.snap = p.save.snap
        /\ q.save.typed = (p.save.at = "patch") /\ q.load.at = "meta" /\ q.load.own = p.load.own
    BY <1>3 DEF Pages, Saves, Loads
  <2> HIDE DEF q
  <2>3. PageOK(q)
    BY <1>4, <2>1, <2>2 DEF PageOK, PageKnows, Stored
  <2> QED
    BY <1>2, <2>1, <2>2, <2>3
<1>10. CASE GetMetadata(t)
  <2>1. PICK l : tab' = [tab EXCEPT ![t] = [p EXCEPT !.load = [p.load EXCEPT !.at = "found", !.link = l]]]
    <3>1. PICK k : tab' = [tab EXCEPT ![t].load.at = "found", ![t].load.link = IF k # 0 /\ Live(k) THEN k ELSE 0]
      BY <1>10 DEF GetMetadata
    <3> DEFINE m == IF k # 0 /\ Live(k) THEN k ELSE 0
    <3> HIDE DEF m
    <3>2. tab' = [tab EXCEPT ![t].load.at = "found", ![t].load.link = m]
      BY <3>1 DEF m
    <3>3. tab' = [tab EXCEPT ![t] = [p EXCEPT !.load = [p.load EXCEPT !.at = "found", !.link = m]]]
      BY <1>3, <3>2 DEF p, Pages, Loads
    <3> QED
      BY <3>3
  <2> DEFINE q == [p EXCEPT !.load = [p.load EXCEPT !.at = "found", !.link = l]]
  <2>2. q.save = p.save /\ q.text = p.text /\ q.dirty = p.dirty /\ q.load.at = "found" /\ q.load.own = p.load.own
    BY <1>3 DEF Pages, Loads
  <2>3. tab' = [tab EXCEPT ![t] = q]
    BY <2>1
  <2> HIDE DEF q
  <2> QED
    BY <1>2, <1>4, <2>2, <2>3 DEF PageOK, PageKnows
<1>11. CASE ShowLoaded(t)
  <2> DEFINE q == [p EXCEPT !.link = p.load.link, !.panel = IF p.load.link = 0 THEN "form" ELSE "link",
                            !.load = NoLoad, !.save = IF p.load.own THEN NoSave ELSE p.save]
  <2>1. tab' = [tab EXCEPT ![t] = q]
    BY <1>11 DEF ShowLoaded, p
  <2>2. /\ q.save = (IF p.load.own THEN NoSave ELSE p.save) /\ q.text = p.text /\ q.dirty = p.dirty
        /\ q.load.at = "none" /\ ~q.load.own /\ NoSave.at = "none"
    BY <1>3 DEF Pages, NoLoad, NoSave
  <2> HIDE DEF q
  <2> QED
    BY <1>2, <1>4, <2>1, <2>2 DEF PageOK, PageKnows
<1>12. CASE LoadFails(t)
  <2> DEFINE q == IF p.load.at = "meta" THEN [p EXCEPT !.panel = "error", !.load = NoLoad, !.save = IF p.load.own THEN NoSave ELSE @]
                  ELSE IF p.load.own THEN [p EXCEPT !.dirty = TRUE, !.save = NoSave, !.load = NoLoad]
                  ELSE [p EXCEPT !.load = NoLoad]
  <2>1. tab' = [tab EXCEPT ![t] = q]
    BY <1>12 DEF LoadFails, p
  <2>2. /\ q.save = (IF p.load.own THEN NoSave ELSE p.save) /\ q.text = p.text /\ (p.dirty => q.dirty)
        /\ q.load.at = "none" /\ ~q.load.own /\ NoSave.at = "none"
    BY <1>3 DEF Pages, NoLoad, NoSave
  <2>3. p.dirty \in BOOLEAN /\ q.dirty \in BOOLEAN
    BY <1>3 DEF Pages
  <2> HIDE DEF q
  <2> QED
    BY <1>2, <1>4, <2>1, <2>2, <2>3 DEF PageOK, PageKnows
<1>13. CASE Type(t)
  <2> DEFINE q == [p EXCEPT !.text = @ \cup {edits + 1}, !.dirty = TRUE,
                            !.save = [p.save EXCEPT !.typed = (p.save.at = "patch")]]
  <2>1. tab' = [tab EXCEPT ![t] = q]
    BY <1>3, <1>13 DEF Type, p, Pages
  <2>2. /\ q.dirty /\ q.save.at = p.save.at /\ q.save.snap = p.save.snap /\ q.save.typed = (p.save.at = "patch")
        /\ q.load = p.load
    BY <1>3 DEF Pages, Saves
  <2> HIDE DEF q
  <2> QED
    BY <1>2, <1>4, <2>1, <2>2 DEF PageOK, PageKnows
<1>14. CASE Reload(t)
  <2> DEFINE q == Reopened(p, FALSE, 0)
  <2>1. tab' = [tab EXCEPT ![t] = q]
    BY <1>14 DEF Reload, p
  <2>2. q.save = p.save /\ q.text = p.text /\ q.dirty = p.dirty /\ q.load.at = "asked" /\ ~q.load.own
    BY <1>3 DEF Reopened, Pages, NoLoad
  <2> HIDE DEF q
  <2> QED
    BY <1>2, <1>4, <2>1, <2>2 DEF PageOK, PageKnows
<1> QED
  BY <1>5, <1>6, <1>7, <1>8, <1>9, <1>10, <1>11, <1>12, <1>13, <1>14 DEF Page

\* One page and one of its requests change.
LEMMA CallAndPage ==
  ASSUME TypeOK, PagesOK, UNCHANGED versions, NEW c \in Calls, NEW r, calls' = [calls EXCEPT ![c] = r],
         NEW t \in Tabs, NEW q, tab' = [tab EXCEPT ![t] = q], PageOK(q), r.at = "answered" => r.heard,
         SaveOf(r) => r.tab = t /\ RequestKnows(r, q) /\ tab[t].save.at # "patch",
         \/ tab[t].save.at = "patch" => q.save.at = "patch" /\ q.save.snap = tab[t].save.snap
         \/ Saving(c) /\ calls[c].tab = t
  PROVE  PagesOK'
BY OnePageOK, CallAndPageSaves DEF PagesOK

\* A person saves, shares or stops.
LEMMA PersonSteps ==
  ASSUME TypeOK, PagesOK, NEW t \in Tabs, NEW c \in Calls, SaveManual(t, c) \/ IssueShare(t, c) \/ RevokeShare(t, c)
  PROVE  PagesOK'
<1> DEFINE p == tab[t]
<1>1. UNCHANGED versions
  BY DEF SaveManual, IssueShare, RevokeShare, db
<1>2. p \in Pages /\ p.save \in Saves /\ p.load \in Loads /\ tab \in [Tabs -> Pages]
  BY PageTyping, Typing
<1>3. /\ p.save.at = "patch" /\ ~p.save.typed => p.text = p.save.snap
      /\ p.load.at = "read" => p.load.ver \in 1..Newest
      /\ p.load.own => p.save.at = "refresh"
      /\ ~p.dirty => Stored(p.text)
  BY DEF PagesOK, PagesInv, PageKnows, CleanIsStored, Stored
<1>4. ASSUME NEW r, r.at = "sent", ~SaveOf(r), calls' = [calls EXCEPT ![c] = r],
             NEW q, tab' = [tab EXCEPT ![t] = q], q.save = p.save, q.load = p.load, q.text = p.text, q.dirty = p.dirty
      PROVE  PagesOK'
  <2>1. PageOK(q)
    BY <1>3, <1>4 DEF PageOK, PageKnows
  <2> QED
    BY <1>1, <1>4, <2>1, CallAndPage
<1> HIDE DEF p
<1>5. CASE SaveManual(t, c)
  <2> DEFINE r == [FreeCall EXCEPT !.at = "sent", !.kind = "save", !.tab = t, !.heard = TRUE,
                                   !.over = p.at, !.text = p.text]
             save == [NoSave EXCEPT !.at = "patch", !.snap = p.text]
             q == [p EXCEPT !.save = save]
  <2>1. calls' = [calls EXCEPT ![c] = r] /\ tab' = [tab EXCEPT ![t] = q] /\ p.save.at # "patch" /\ ~p.load.own
    <3>1. p.save = NoSave
      BY <1>5 DEF SaveManual, p
    <3> QED
      BY <1>2, <1>3, <1>5, <3>1 DEF SaveManual, Send, p, NoSave, Loads
  <2>2. save.at = "patch" /\ save.snap = p.text /\ ~save.typed
    BY DEF NoSave
  <2>3. r.at = "sent" /\ r.tab = t /\ r.text = p.text /\ r.answer = 0
    BY DEF FreeCall
  <2> HIDE DEF save
  <2>4. q.save = save /\ q.load = p.load /\ q.text = p.text /\ q.dirty = p.dirty
    BY <1>2 DEF Pages
  <2> HIDE DEF r, q
  <2>5. PageOK(q) /\ RequestKnows(r, q)
    BY <1>3, <2>1, <2>2, <2>3, <2>4 DEF PageOK, PageKnows, RequestKnows
  <2>6. tab[t].save.at # "patch"
    BY <2>1 DEF p
  <2> QED
    BY <1>1, <2>1, <2>3, <2>5, <2>6, CallAndPage
<1>6. CASE IssueShare(t, c)
  <2> DEFINE o == IF Repeats(p) THEN p.pending.op ELSE Len(ops) + 1
             r == [FreeCall EXCEPT !.at = "sent", !.kind = "share", !.tab = t, !.heard = TRUE, !.over = p.cv, !.op = o]
             q == [p EXCEPT !.pending = [op |-> o, over |-> p.cv], !.busy = TRUE]
  <2> HIDE DEF o
  <2>1. calls' = [calls EXCEPT ![c] = r] /\ tab' = [tab EXCEPT ![t] = q]
    BY <1>2, <1>6 DEF IssueShare, Send, p, o
  <2>2. r.at = "sent" /\ ~SaveOf(r)
    BY DEF FreeCall, SaveOf
  <2>3. q.save = p.save /\ q.load = p.load /\ q.text = p.text /\ q.dirty = p.dirty
    BY <1>2 DEF Pages
  <2> HIDE DEF r, q
  <2> QED
    BY <1>4, <2>1, <2>2, <2>3
<1>7. CASE RevokeShare(t, c)
  <2> DEFINE r == [FreeCall EXCEPT !.at = "sent", !.kind = "stop", !.tab = t, !.heard = TRUE, !.link = p.link]
             q == [p EXCEPT !.busy = TRUE]
  <2>1. calls' = [calls EXCEPT ![c] = r] /\ tab' = [tab EXCEPT ![t] = q]
    BY <1>2, <1>7 DEF RevokeShare, Send, p
  <2>2. r.at = "sent" /\ ~SaveOf(r)
    BY DEF FreeCall, SaveOf
  <2>3. q.save = p.save /\ q.load = p.load /\ q.text = p.text /\ q.dirty = p.dirty
    BY <1>2 DEF Pages
  <2> HIDE DEF r, q
  <2> QED
    BY <1>4, <2>1, <2>2, <2>3
<1> QED
  BY <1>5, <1>6, <1>7

\* An answer reaches a page, or never does.
LEMMA AnswerSteps ==
  ASSUME TypeOK, PagesOK, NEW c \in Calls, SaveAnswered(c) \/ ShareAnswered(c) \/ StopAnswered(c) \/ Lose(c)
  PROVE  PagesOK'
<1> DEFINE t == calls[c].tab
           p == tab[t]
           freed == [calls[c] EXCEPT !.heard = FALSE]
<1>1. UNCHANGED versions /\ t \in Tabs /\ tab \in [Tabs -> Pages]
  BY Typing DEF SaveAnswered, ShareAnswered, StopAnswered, Lose, db, TypeOK
<1>2. p \in Pages /\ p.save \in Saves
  BY <1>1, PageTyping
<1>3. /\ p.save.at = "patch" /\ ~p.save.typed => p.text = p.save.snap
      /\ p.load.at = "read" => p.load.ver \in 1..Newest
      /\ p.load.own => p.save.at = "refresh"
      /\ ~p.dirty => Stored(p.text)
  BY <1>1 DEF PagesOK, PagesInv, PageKnows, CleanIsStored, Stored
<1>4. \/ calls' = [calls EXCEPT ![c] = FreeCall]
      \/ calls' = [calls EXCEPT ![c] = freed] /\ calls[c].at # "answered"
  BY Typing DEF SaveAnswered, ShareAnswered, StopAnswered, Lose, Requests
<1>5. /\ FreeCall.at # "answered" /\ ~SaveOf(FreeCall)
      /\ freed.at = calls[c].at /\ ~SaveOf(freed)
  BY Typing DEF FreeCall, SaveOf, Requests
<1>6. calls[c].heard
  BY DEF SaveAnswered, ShareAnswered, StopAnswered, Lose, PagesOK, SavesInv
<1>7. calls[c].kind = "save" => Saving(c) /\ p.save.at = "patch" /\ (calls[c].answer = 200 => Stored(p.save.snap))
  BY <1>6 DEF PagesOK, SavesInv, RequestKnows, Saving
<1>8. ASSUME NEW q, tab' = [tab EXCEPT ![t] = q], PageOK(q),
             Saving(c) \/ (p.save.at = "patch" => q.save.at = "patch" /\ q.save.snap = p.save.snap)
      PROVE  PagesOK'
  <2> HIDE DEF freed
  <2> QED
    BY <1>1, <1>4, <1>5, <1>8, CallAndPage
<1> HIDE DEF p, t, freed
<1>9. ASSUME NEW q, tab' = [tab EXCEPT ![t] = q], q.save = p.save, q.load = p.load, q.text = p.text, q.dirty = p.dirty
      PROVE  PagesOK'
  <2>1. PageOK(q)
    BY <1>3, <1>9 DEF PageOK, PageKnows
  <2> QED
    BY <1>8, <1>9, <2>1
<1>10. CASE SaveAnswered(c) /\ calls[c].answer # 200
  <2> DEFINE q == [p EXCEPT !.save = NoSave]
  <2>1. tab' = [tab EXCEPT ![t] = q] /\ calls[c].kind = "save"
    BY <1>10 DEF SaveAnswered, t, p
  <2>2. q.save.at = "none" /\ q.load = p.load /\ q.text = p.text /\ q.dirty = p.dirty
    BY <1>2 DEF Pages, NoSave
  <2> HIDE DEF q
  <2>3. PageOK(q)
    BY <1>3, <1>7, <2>1, <2>2 DEF PageOK, PageKnows
  <2> QED
    BY <1>7, <1>8, <2>1, <2>3
<1>11. CASE SaveAnswered(c) /\ calls[c].answer = 200 /\ EditedMeanwhile(p)
  <2> DEFINE named == [p EXCEPT !.at = calls[c].over]
             q == [named EXCEPT !.save = [p.save EXCEPT !.at = "check"]]
  <2>1. tab' = [tab EXCEPT ![t] = q] /\ calls[c].kind = "save"
    BY <1>2, <1>11 DEF SaveAnswered, t, p, Pages
  <2>2. q.save.at = "check" /\ q.load = p.load /\ q.text = p.text /\ q.dirty = p.dirty
    BY <1>2 DEF Pages, Saves
  <2> HIDE DEF q
  <2>3. PageOK(q)
    BY <1>3, <1>7, <2>1, <2>2 DEF PageOK, PageKnows
  <2> QED
    BY <1>7, <1>8, <2>1, <2>3
<1>12. CASE SaveAnswered(c) /\ calls[c].answer = 200 /\ ~EditedMeanwhile(p)
  <2> DEFINE named == [p EXCEPT !.at = calls[c].over]
             clean == [named EXCEPT !.dirty = FALSE, !.save = [p.save EXCEPT !.at = "refresh"]]
             q == Reopened(clean, TRUE, calls[c].over)
  <2>1. tab' = [tab EXCEPT ![t] = q] /\ calls[c].kind = "save" /\ ~p.save.typed
    BY <1>2, <1>12 DEF SaveAnswered, t, p, Pages, EditedMeanwhile, Typed
  <2>2. /\ clean.save.at = "refresh" /\ clean.text = p.text /\ DOMAIN clean = DOMAIN p
    BY <1>2 DEF Pages, Saves
  <2>3. "save" \in DOMAIN p /\ "text" \in DOMAIN p /\ "load" \in DOMAIN p
    BY <1>2 DEF Pages
  <2> HIDE DEF clean
  <2>4. q.save.at = "refresh" /\ q.load.at = "asked" /\ q.load.own /\ q.text = p.text
    BY <2>2, <2>3 DEF Reopened, NoLoad
  <2> HIDE DEF q
  <2>5. PageOK(q)
    BY <1>3, <1>7, <1>12, <2>1, <2>4 DEF PageOK, PageKnows
  <2> QED
    BY <1>7, <1>8, <2>1, <2>5
<1>13. CASE ShareAnswered(c)
  <2>1. PICK q \in {Settled(p), [Settled(p) EXCEPT !.link = calls[c].over, !.panel = "link", !.pending = NoPending],
                    [Settled(p) EXCEPT !.pending = NoPending]} : tab' = [tab EXCEPT ![t] = q]
    BY <1>13 DEF ShareAnswered, t, p
  <2>2. q.save = p.save /\ q.load = p.load /\ q.text = p.text /\ q.dirty = p.dirty
    BY <1>2, <2>1 DEF Settled, Pages
  <2> QED
    BY <1>9, <2>1, <2>2
<1>14. CASE StopAnswered(c)
  <2>1. PICK q \in {Settled(p), [Settled(p) EXCEPT !.link = 0, !.panel = "form", !.pending = NoPending]} : tab' = [tab EXCEPT ![t] = q]
    BY <1>14 DEF StopAnswered, t, p
  <2>2. q.save = p.save /\ q.load = p.load /\ q.text = p.text /\ q.dirty = p.dirty
    BY <1>2, <2>1 DEF Settled, Pages
  <2> QED
    BY <1>9, <2>1, <2>2
<1>15. CASE Lose(c) /\ calls[c].kind = "save"
  <2> DEFINE q == [p EXCEPT !.save = [p.save EXCEPT !.at = "check"]]
  <2>1. tab' = [tab EXCEPT ![t] = q]
    BY <1>2, <1>15 DEF Lose, Unheard, t, p, Pages
  <2>2. q.save.at = "check" /\ q.load = p.load /\ q.text = p.text /\ q.dirty = p.dirty
    BY <1>2 DEF Pages, Saves
  <2> HIDE DEF q
  <2>3. PageOK(q)
    BY <1>3, <1>7, <1>15, <2>2 DEF PageOK, PageKnows
  <2> QED
    BY <1>7, <1>8, <1>15, <2>1, <2>3
<1>16. CASE Lose(c) /\ calls[c].kind # "save"
  <2> DEFINE q == Settled(p)
  <2>1. calls[c].kind \in {"share", "stop"}
    BY <1>6, <1>16, Typing DEF TypeOK, Requests
  <2>2. tab' = [tab EXCEPT ![t] = q]
    BY <1>16, <2>1 DEF Lose, Unheard, t, p
  <2>3. q.save = p.save /\ q.load = p.load /\ q.text = p.text /\ q.dirty = p.dirty
    BY <1>2 DEF Settled, Pages
  <2> QED
    BY <1>9, <2>2, <2>3
<1> QED
  BY <1>10, <1>11, <1>12, <1>13, <1>14, <1>15, <1>16
-----------------------------------------------------------------------------
\* The pages stay right.
LEMMA NextPages == ASSUME TypeOK, PagesOK, [Next]_vars PROVE PagesOK'
<1>1. VersionsGrow
  BY Growth
<1>2. ASSUME UNCHANGED <<calls, tab>> PROVE PagesOK'
  BY <1>1, <1>2, PagesStay, SavesStay DEF PagesOK
<1>3. ASSUME UNCHANGED tab, SavesInv' PROVE PagesOK'
  BY <1>1, <1>3, PagesStay DEF PagesOK
<1>4. ASSUME NEW c \in Calls, Server(c) PROVE PagesOK'
  <2>1. UNCHANGED tab
    BY <1>4 DEF Server, ReadDraft, WriteDraft, ReadWritten, LookUp, Snapshot, PublishLink, StopLink, LookStopped, Respond, ServerOnly
  <2> QED
    BY <1>1, <1>3, <1>4, <2>1, ServerSaves DEF PagesOK
<1>5. ASSUME NEW c \in Calls, Fail(c) PROVE PagesOK'
  <2>1. UNCHANGED tab /\ \E status \in {409, 503} : Answered(c, status, 0)
    BY <1>5 DEF Fail
  <2> QED
    BY <1>1, <1>3, <2>1, AnsweredSaves DEF PagesOK
<1>6. ASSUME NEW c \in Calls, SaveAnswered(c) \/ ShareAnswered(c) \/ StopAnswered(c) \/ Lose(c) PROVE PagesOK'
  BY <1>6, AnswerSteps
<1>7. ASSUME NEW t \in Tabs, Page(t) \/ LoadFails(t) \/ Type(t) \/ Reload(t) PROVE PagesOK'
  BY <1>7, PageSteps
<1>8. ASSUME NEW t \in Tabs, NEW c \in Calls, SaveManual(t, c) \/ IssueShare(t, c) \/ RevokeShare(t, c) PROVE PagesOK'
  BY <1>8, PersonSteps
<1>9. CASE Reader \/ (\E o \in DOMAIN ops : Expire(o)) \/ UNCHANGED vars
  <2>1. UNCHANGED <<calls, tab>>
    BY <1>9 DEF Reader, InsertGrant, AskContent, CheckGrant, ReadContent, GrantEnds, ResolveShare, Viewing, Expire, vars
  <2> QED
    BY <1>2, <2>1
<1> QED
  BY <1>4, <1>5, <1>6, <1>7, <1>8, <1>9 DEF Next, Person

LEMMA InitConsistent == Init => Consistent
<1> SUFFICES ASSUME Init PROVE Consistent
  OBVIOUS
<1>1. TypeOK
  BY InitTypeOK
<1>2. Newest = 1 /\ versions[1].text = {} /\ links = << >>
  BY DEF Init, Newest
<1>3. \A c \in Calls : calls[c].at = "free" /\ ~calls[c].heard
  BY DEF Init, FreeCall
<1>4. \A t \in Tabs : tab[t].text = {} /\ tab[t].save.at = "none" /\ tab[t].load.at = "none" /\ ~tab[t].load.own
  BY DEF Init, NoSave, NoLoad
<1>5. viewer.at = "idle"
  BY DEF Init, NoViewer
<1>6. SaveReplacesNamed /\ OneLiveLink /\ DraftedInv /\ LinksInv /\ ViewerInv
  BY <1>2, <1>3, <1>5 DEF SaveReplacesNamed, OneLiveLink, DraftedInv, LinksInv, ViewerInv
<1>7. SavesInv /\ PagesInv
  BY <1>3, <1>4 DEF SavesInv, Saving, PagesInv, PageKnows
<1>8. CleanIsStored
  <2>1. 1 \in 1..Newest
    BY <1>2
  <2> QED
    BY <1>2, <1>4, <2>1 DEF CleanIsStored
<1> QED
  BY <1>1, <1>6, <1>7, <1>8 DEF Consistent

LEMMA NextConsistent == Consistent /\ [Next]_vars => Consistent'
BY NextType, NextReplacesNamed, NextOneLiveLink, NextDrafted, NextLinks, NextViewer, NextPages DEF Consistent, PagesOK

\* Versions, links, requests, the reader and the pages are always consistent.
THEOREM ConsistentAlways == Spec => []Consistent
BY InitConsistent, NextConsistent, PTL DEF Spec

\* A manual has one live link at most, and what it shows is published:
\* createShare and revokeShare of any number of people, in any order.
THEOREM OneLiveLinkAlways == Spec => []OneLiveLink
<1>1. Consistent => OneLiveLink
  BY DEF Consistent
<1> QED
  BY <1>1, ConsistentAlways, PTL

\* content() shows the version the link was made of, whatever was saved since.
THEOREM LinkShowsItsVersionAlways == Spec => []LinkShowsItsVersion
<1>1. Consistent => LinkShowsItsVersion
  BY DEF Consistent, ViewerInv, LinksInv, LinkShowsItsVersion
<1> QED
  BY <1>1, ConsistentAlways, PTL

\* No request that begins after a stop or an expiry is answered with contents.
THEOREM StoppedIsUnreadableAlways == Spec => []StoppedIsUnreadable
<1>1. Consistent => StoppedIsUnreadable
  BY DEF Consistent, ViewerInv, StoppedIsUnreadable
<1> QED
  BY <1>1, ConsistentAlways, PTL

\* The page shows as saved only a text that saveManual has stored.
THEOREM CleanIsStoredAlways == Spec => []CleanIsStored
<1>1. Consistent => CleanIsStored
  BY DEF Consistent
<1> QED
  BY <1>1, ConsistentAlways, PTL
=============================================================================
