------------------------------ MODULE DraftShare ------------------------------
(***************************************************************************)
(* The draft of one cloud manual and its share links: the Worker's requests*)
(* as steps of one D1 statement or batch each, the cloud editor page of    *)
(* several people, and a person who opens a shared link.                   *)
(*                                                                         *)
(* A text is the set of the edits it contains.  The k-th version of the    *)
(* draft is named by its number; updated_at and content_version are both   *)
(* new with every save, and versions[k] stands for either.                 *)
(***************************************************************************)
EXTENDS Naturals, FiniteSets, Sequences

CONSTANTS Tabs,      \* one page of each person who may edit the manual
          Managers,  \* the owner and the administrators among them
          Calls,     \* the places for requests that write
          Nobody,    \* who wrote the first version
          MaxActs,   \* what people do: save, reload, share, stop
          MaxEdits,  \* inputs they type
          Typists,   \* the pages they type them into, a bound
          MaxShares, \* share operations
          MaxFaults  \* failed statements, lost answers and lost requests

ASSUME DraftShareAssumption ==
    /\ Managers \subseteq Tabs /\ Typists \subseteq Tabs /\ Nobody \notin Tabs
    /\ {MaxActs, MaxEdits, MaxShares, MaxFaults} \subseteq Nat

VARIABLES versions, \* manual_revisions and manual_steps of the draft, with the replaced contents
          links,    \* share_links in the order of created_at, with their published revision
          ops,      \* share operations made: who asked and the content version they name
          late,     \* operations whose expiry has passed
          calls,    \* requests that write, from being sent to being answered
          tab,      \* the state of each page
          viewer,   \* the page under /s/ and its request
          edits, acts, faults

vars == <<versions, links, ops, late, calls, tab, viewer, edits, acts, faults>>
db == <<versions, links>>

FreeCall == [at |-> "free", kind |-> "none", tab |-> Nobody, heard |-> FALSE, over |-> 0,
             text |-> {}, op |-> 0, link |-> 0, answer |-> 0]
NoSave == [at |-> "none", snap |-> {}, typed |-> FALSE, ver |-> 0]
NoLoad == [at |-> "none", own |-> FALSE, want |-> 0, ver |-> 0, link |-> 0]
NoViewer == [at |-> "idle", link |-> 0, late |-> FALSE, text |-> {}]
NoPending == [op |-> 0, over |-> 0]

Newest == Len(versions)
Live(l) == ~links[l].stopped
Expired(l) == links[l].op \in late
\* the unexpired, unstopped link whose revision is still the published one
Open(l) == Live(l) /\ ~Expired(l) /\ links[l].published

Init ==
    /\ versions = <<[text |-> {}, over |-> 0, by |-> Nobody]>>
    /\ links = <<>> /\ ops = <<>> /\ late = {}
    /\ calls = [c \in Calls |-> FreeCall]
    /\ tab = [t \in Tabs |-> [at |-> 1, cv |-> 1, text |-> {}, dirty |-> FALSE, save |-> NoSave, load |-> NoLoad,
                              link |-> 0, panel |-> "form", pending |-> NoPending, busy |-> FALSE, stale |-> FALSE]]
    /\ viewer = NoViewer
    /\ edits = 0 /\ acts = 0 /\ faults = 0
----------------------------------------------------------------------------
(* The requests.  An answer nobody waits for is dropped.                   *)
Answered(c, status, value) ==
    calls' = [calls EXCEPT ![c] = IF ~@.heard THEN FreeCall
                                  ELSE [FreeCall EXCEPT !.at = "answered", !.kind = calls[c].kind, !.tab = calls[c].tab,
                                                        !.heard = TRUE, !.answer = status, !.over = value]]
Goes(c, at) == calls' = [calls EXCEPT ![c].at = at]
ServerOnly == UNCHANGED <<ops, late, tab, viewer, edits, acts, faults>>

(* updateDraftWithSteps: the version is compared in a read, compared again *)
(* by the first statement of the batch, and read anew for the answer.      *)
ReadDraft(c) ==
    /\ calls[c].at = "sent" /\ calls[c].kind = "save"
    /\ IF calls[c].over = Newest THEN Goes(c, "read") ELSE Answered(c, 409, 0)
    /\ UNCHANGED db /\ ServerOnly

StillNamed(c) == calls[c].over = Newest
\* the batch without "AND updated_at = ?7"
TrustsRead(c) == TRUE
Replaces(c) == StillNamed(c)

WriteDraft(c) ==
    /\ calls[c].at = "read" /\ calls[c].kind = "save"
    /\ IF Replaces(c)
       THEN /\ versions' = Append(versions, [text |-> calls[c].text, over |-> calls[c].over, by |-> calls[c].tab])
            /\ Goes(c, "written")
       ELSE Answered(c, 409, 0) /\ UNCHANGED versions
    /\ UNCHANGED links /\ ServerOnly

ReadWritten(c) ==
    /\ calls[c].at = "written" /\ calls[c].kind = "save"
    /\ Answered(c, 200, Newest)
    /\ UNCHANGED db /\ ServerOnly

(* createShare.                                                            *)
LinkOf(o) == {l \in DOMAIN links : links[l].op = o}
LookUp(c) ==
    /\ calls[c].at = "sent" /\ calls[c].kind = "share"
    /\ IF calls[c].op \in late THEN Answered(c, 400, 0)
       ELSE IF LinkOf(calls[c].op) = {} THEN Goes(c, "looked")
       ELSE LET l == CHOOSE l \in LinkOf(calls[c].op) : TRUE IN
            IF Live(l) THEN Answered(c, 200, l) ELSE Answered(c, 409, 0)
    /\ UNCHANGED db /\ ServerOnly

Snapshot(c) ==
    /\ calls[c].at = "looked"
    /\ IF calls[c].over = Newest
       THEN calls' = [calls EXCEPT ![c].at = "drafted", ![c].text = versions[Newest].text]
       ELSE Answered(c, 409, 0)
    /\ UNCHANGED db /\ ServerOnly

\* the batch commits with a live link: no index on links that are not revoked
IgnoresLinks(c) == calls[c].over = Newest
Publishable(c) == calls[c].over = Newest /\ \A l \in DOMAIN links : ~Live(l)

(* The batch supersedes the published revision, publishes the snapshot and *)
(* inserts the link; a version that moved on or a live link aborts it.     *)
PublishLink(c) ==
    /\ calls[c].at = "drafted"
    /\ IF Publishable(c)
       THEN /\ links' = Append([l \in DOMAIN links |-> [links[l] EXCEPT !.published = FALSE]],
                               [op |-> calls[c].op, by |-> calls[c].tab, over |-> calls[c].over, text |-> calls[c].text,
                                stopped |-> FALSE, published |-> TRUE])
            /\ calls' = [calls EXCEPT ![c].at = "written", ![c].link = Len(links) + 1, ![c].text = {}]
       ELSE Answered(c, 409, 0) /\ UNCHANGED links
    /\ UNCHANGED versions /\ ServerOnly

(* revokeShare: a managed link, or one's own, that is not yet stopped.     *)
MayStop(t, l) == t \in Managers \/ links[l].by = t
StopLink(c) ==
    /\ calls[c].at = "sent" /\ calls[c].kind = "stop"
    /\ LET l == calls[c].link IN
       IF Live(l) /\ MayStop(calls[c].tab, l)
       THEN links' = [links EXCEPT ![l].stopped = TRUE] /\ Goes(c, "written")
       ELSE Goes(c, "unchanged") /\ UNCHANGED links
    /\ UNCHANGED versions /\ ServerOnly

LookStopped(c) ==
    /\ calls[c].at = "unchanged"
    /\ IF Live(calls[c].link) THEN Answered(c, 409, 0) ELSE Answered(c, 200, calls[c].link)
    /\ UNCHANGED db /\ ServerOnly

Respond(c) ==
    /\ calls[c].at = "written" /\ calls[c].kind \in {"share", "stop"}
    /\ Answered(c, 200, calls[c].link)
    /\ UNCHANGED db /\ ServerOnly

(* D1 fails: the statement, or the batch whose effect is there, is         *)
(* reported as 503; createShare calls any error of its batch a conflict.   *)
BatchFails(c) == calls[c].kind = "share" /\ calls[c].at \in {"drafted", "written"}
Fail(c) ==
    /\ calls[c].at \notin {"free", "answered"} /\ faults < MaxFaults
    /\ Answered(c, IF BatchFails(c) THEN 409 ELSE 503, 0)
    /\ faults' = faults + 1
    /\ UNCHANGED <<db, ops, late, tab, viewer, edits, acts>>
----------------------------------------------------------------------------
(* The cloud editor page.  Act: one more thing a person does.              *)
Act == acts < MaxActs /\ acts' = acts + 1
Free(c) == calls[c] = FreeCall
Send(c, call) == Free(c) /\ calls' = [calls EXCEPT ![c] = call]

Type(t) ==
    /\ edits < MaxEdits /\ t \in Typists
    /\ tab[t].load.at \notin {"meta", "found"}
    /\ edits' = edits + 1
    /\ tab' = [tab EXCEPT ![t].text = @ \cup {edits + 1}, ![t].dirty = TRUE,
                          ![t].save.typed = (tab[t].save.at = "patch")]
    /\ UNCHANGED <<db, ops, late, calls, viewer, acts, faults>>

SaveManual(t, c) ==
    /\ Act
    /\ tab[t].save = NoSave
    /\ Send(c, [FreeCall EXCEPT !.at = "sent", !.kind = "save", !.tab = t, !.heard = TRUE,
                                !.over = tab[t].at, !.text = tab[t].text])
    /\ tab' = [tab EXCEPT ![t].save = [NoSave EXCEPT !.at = "patch", !.snap = tab[t].text]]
    /\ UNCHANGED <<db, ops, late, viewer, edits, faults>>

(* openManual: the share state is forgotten, and every answer that is      *)
(* still under way belongs to an older requestSerial.                      *)
Reopened(p, own, want) ==
    [p EXCEPT !.link = 0, !.stale = p.busy,
              !.load = [NoLoad EXCEPT !.at = "asked", !.own = own, !.want = want]]

Reload(t) ==
    /\ Act
    /\ tab[t].save = NoSave
    /\ tab' = [tab EXCEPT ![t] = Reopened(@, FALSE, 0)]
    /\ UNCHANGED <<db, ops, late, calls, viewer, edits, faults>>

Typed(p) == p.save.typed
EditedMeanwhile(p) == Typed(p)

SaveAnswered(c) ==
    LET t == calls[c].tab  p == tab[t]  named == [p EXCEPT !.at = calls[c].over] IN
    /\ calls[c].at = "answered" /\ calls[c].kind = "save"
    /\ calls' = [calls EXCEPT ![c] = FreeCall]
    /\ tab' = [tab EXCEPT ![t] =
          IF calls[c].answer # 200 THEN [p EXCEPT !.save = NoSave]
          ELSE IF EditedMeanwhile(p) THEN [named EXCEPT !.save.at = "check"]
          ELSE Reopened([named EXCEPT !.dirty = FALSE, !.save.at = "refresh"], TRUE, calls[c].over)]
    /\ UNCHANGED <<db, ops, late, viewer, edits, acts, faults>>

(* reconcileSavedDraft: the stored draft is adopted when it is the saved   *)
(* snapshot; the input stays.                                              *)
CheckSaved(t) ==
    /\ tab[t].save.at = "check"
    /\ tab' = [tab EXCEPT ![t].save.at = "checked", ![t].save.ver = Newest]
    /\ UNCHANGED <<db, ops, late, calls, viewer, edits, acts, faults>>

ReconcileSaved(t) ==
    LET p == tab[t]  k == p.save.ver IN
    /\ p.save.at = "checked"
    /\ tab' = [tab EXCEPT ![t] = IF versions[k].text = p.save.snap THEN [p EXCEPT !.at = k, !.cv = k, !.save = NoSave]
                                 ELSE [p EXCEPT !.save = NoSave]]
    /\ UNCHANGED <<db, ops, late, calls, viewer, edits, acts, faults>>

(* getManual is one statement; its answer arrives later.                   *)
GetManual(t) ==
    /\ tab[t].load.at = "asked"
    /\ tab' = [tab EXCEPT ![t].load.at = "read", ![t].load.ver = Newest]
    /\ UNCHANGED <<db, ops, late, calls, viewer, edits, acts, faults>>

Unconfirmed(p) == p.load.own /\ (p.load.ver # p.load.want \/ versions[p.load.ver].text # p.save.snap)

ShowManual(t) ==
    LET p == tab[t]  k == p.load.ver IN
    /\ p.load.at = "read"
    /\ tab' = [tab EXCEPT ![t] =
          IF Unconfirmed(p) THEN [p EXCEPT !.dirty = TRUE, !.save = NoSave, !.load = NoLoad]
          ELSE [p EXCEPT !.at = k, !.cv = k, !.text = versions[k].text, !.dirty = FALSE,
                         !.save.typed = (p.save.at = "patch"), !.load.at = "meta"]]
    /\ UNCHANGED <<db, ops, late, calls, viewer, edits, acts, faults>>

(* shareMetadata: the newest link, for an editor the newest of their own.  *)
Visible(t) == {l \in DOMAIN links : MayStop(t, l)}
GetMetadata(t) ==
    /\ tab[t].load.at = "meta"
    /\ \E l \in Visible(t) \cup {0} :
          /\ \A k \in Visible(t) : k <= l
          /\ tab' = [tab EXCEPT ![t].load.at = "found", ![t].load.link = IF l # 0 /\ Live(l) THEN l ELSE 0]
    /\ UNCHANGED <<db, ops, late, calls, viewer, edits, acts, faults>>

ShowLoaded(t) ==
    LET p == tab[t] IN
    /\ p.load.at = "found"
    /\ tab' = [tab EXCEPT ![t] = [p EXCEPT !.link = p.load.link, !.panel = IF p.load.link = 0 THEN "form" ELSE "link",
                                           !.load = NoLoad, !.save = IF p.load.own THEN NoSave ELSE @]]
    /\ UNCHANGED <<db, ops, late, calls, viewer, edits, acts, faults>>

LoadFails(t) ==
    LET p == tab[t] IN
    /\ p.load.at \in {"asked", "meta"} /\ faults < MaxFaults
    /\ faults' = faults + 1
    /\ tab' = [tab EXCEPT ![t] =
          IF p.load.at = "meta" THEN [p EXCEPT !.panel = "error", !.load = NoLoad, !.save = IF p.load.own THEN NoSave ELSE @]
          ELSE IF p.load.own THEN [p EXCEPT !.dirty = TRUE, !.save = NoSave, !.load = NoLoad]
          ELSE [p EXCEPT !.load = NoLoad]]
    /\ UNCHANGED <<db, ops, late, calls, viewer, edits, acts>>

(* issueShare: an unanswered operation is repeated as long as the draft it *)
(* names is the one shown, with the same expiry.                           *)
Repeats(p) == p.pending.op # 0 /\ p.pending.over = p.cv
IssueShare(t, c) ==
    LET p == tab[t]  o == IF Repeats(p) THEN p.pending.op ELSE Len(ops) + 1 IN
    /\ Act
    /\ p.panel = "form" /\ ~p.busy /\ p.link = 0 /\ ~p.dirty
    /\ o \notin late
    /\ IF Repeats(p) THEN UNCHANGED ops
       ELSE Len(ops) < MaxShares /\ ops' = Append(ops, [by |-> t, over |-> p.cv])
    /\ Send(c, [FreeCall EXCEPT !.at = "sent", !.kind = "share", !.tab = t, !.heard = TRUE, !.over = p.cv, !.op = o])
    /\ tab' = [tab EXCEPT ![t].pending = [op |-> o, over |-> p.cv], ![t].busy = TRUE]
    /\ UNCHANGED <<db, late, viewer, edits, faults>>

RevokeShare(t, c) ==
    LET p == tab[t] IN
    /\ Act
    /\ p.panel = "link" /\ p.link # 0 /\ ~p.busy
    /\ Send(c, [FreeCall EXCEPT !.at = "sent", !.kind = "stop", !.tab = t, !.heard = TRUE, !.link = p.link])
    /\ tab' = [tab EXCEPT ![t].busy = TRUE]
    /\ UNCHANGED <<db, ops, late, viewer, edits, faults>>

Settled(p) == [p EXCEPT !.busy = FALSE, !.stale = FALSE]
ShareAnswered(c) ==
    LET t == calls[c].tab  p == Settled(tab[t])  status == calls[c].answer IN
    /\ calls[c].at = "answered" /\ calls[c].kind = "share"
    /\ calls' = [calls EXCEPT ![c] = FreeCall]
    /\ tab' = [tab EXCEPT ![t] =
          IF tab[t].stale THEN p
          ELSE IF status = 200 THEN [p EXCEPT !.link = calls[c].over, !.panel = "link", !.pending = NoPending]
          ELSE IF status \in {400, 409} THEN [p EXCEPT !.pending = NoPending]
          ELSE p]
    /\ UNCHANGED <<db, ops, late, viewer, edits, acts, faults>>

StopAnswered(c) ==
    LET t == calls[c].tab  p == Settled(tab[t]) IN
    /\ calls[c].at = "answered" /\ calls[c].kind = "stop"
    /\ calls' = [calls EXCEPT ![c] = FreeCall]
    /\ tab' = [tab EXCEPT ![t] =
          IF tab[t].stale \/ calls[c].answer # 200 THEN p
          ELSE [p EXCEPT !.link = 0, !.panel = "form", !.pending = NoPending]]
    /\ UNCHANGED <<db, ops, late, viewer, edits, acts, faults>>

(* The answer never comes, or the request never went: fetch throws.        *)
Unheard(p, kind) ==
    CASE kind = "save" -> [p EXCEPT !.save.at = "check"]
      [] kind \in {"share", "stop"} -> Settled(p)

Lose(c) ==
    /\ calls[c].heard /\ faults < MaxFaults
    /\ faults' = faults + 1
    /\ tab' = [tab EXCEPT ![calls[c].tab] = Unheard(@, calls[c].kind)]
    /\ \/ calls[c].at \in {"sent", "answered"} /\ calls' = [calls EXCEPT ![c] = FreeCall]
       \/ calls[c].at # "answered" /\ calls' = [calls EXCEPT ![c].heard = FALSE]
    /\ UNCHANGED <<db, ops, late, viewer, edits, acts>>
----------------------------------------------------------------------------
(* A person with a link: the token and the passcode buy a grant, and every *)
(* content or image request checks the grant again before it reads.        *)
View(at) == viewer' = [viewer EXCEPT !.at = at]
Viewing == UNCHANGED <<db, ops, late, calls, tab, edits, acts, faults>>

ResolveShare(l) ==
    /\ viewer.at = "idle"
    /\ IF Open(l) THEN viewer' = [viewer EXCEPT !.at = "resolved", !.link = l] ELSE UNCHANGED viewer
    /\ Viewing

InsertGrant ==
    /\ viewer.at = "resolved"
    /\ IF Live(viewer.link) /\ ~Expired(viewer.link) THEN View("granted") ELSE viewer' = NoViewer
    /\ Viewing

AskContent ==
    /\ viewer.at \in {"granted", "shown"}
    /\ viewer' = [viewer EXCEPT !.at = "asked", !.late = ~Live(viewer.link) \/ Expired(viewer.link), !.text = {}]
    /\ Viewing

\* the grant checked without "AND s.revoked_at IS NULL AND s.expires_at > ?2"
GrantAlone(l) == links[l].published
GrantHolds(l) == Open(l)

CheckGrant ==
    /\ viewer.at = "asked"
    /\ IF GrantHolds(viewer.link) THEN View("checked") ELSE viewer' = NoViewer
    /\ Viewing

\* the contents the draft has now, by the pointer of the manual
DraftText(l) == versions[Newest].text
RevisionText(l) == links[l].text

ReadContent ==
    /\ viewer.at = "checked"
    /\ viewer' = IF links[viewer.link].published
                 THEN [viewer EXCEPT !.at = "shown", !.text = RevisionText(viewer.link)] ELSE NoViewer
    /\ Viewing

(* Time passes the expiry of a share, or the quarter of an hour of a grant.*)
Expire(o) ==
    /\ o \in DOMAIN ops \ late
    /\ late' = late \cup {o}
    /\ UNCHANGED <<db, ops, calls, tab, viewer, edits, acts, faults>>

GrantEnds ==
    /\ viewer.at \in {"granted", "shown"}
    /\ viewer' = NoViewer
    /\ Viewing
----------------------------------------------------------------------------
Server(c) ==
    \/ ReadDraft(c) \/ WriteDraft(c) \/ ReadWritten(c)
    \/ LookUp(c) \/ Snapshot(c) \/ PublishLink(c)
    \/ StopLink(c) \/ LookStopped(c) \/ Respond(c)
Page(t) ==
    \/ CheckSaved(t) \/ ReconcileSaved(t)
    \/ GetManual(t) \/ ShowManual(t) \/ GetMetadata(t) \/ ShowLoaded(t)
Person(t) == Type(t) \/ Reload(t) \/ \E c \in Calls : SaveManual(t, c) \/ IssueShare(t, c) \/ RevokeShare(t, c)
Reader == InsertGrant \/ AskContent \/ CheckGrant \/ ReadContent \/ GrantEnds \/ \E l \in DOMAIN links : ResolveShare(l)

Next ==
    \/ \E c \in Calls : Server(c) \/ SaveAnswered(c) \/ ShareAnswered(c) \/ StopAnswered(c) \/ Fail(c) \/ Lose(c)
    \/ \E t \in Tabs : Page(t) \/ Person(t) \/ LoadFails(t)
    \/ \E o \in DOMAIN ops : Expire(o)
    \/ Reader

Spec == Init /\ [][Next]_vars
----------------------------------------------------------------------------
Texts == SUBSET Nat
People == Tabs \cup {Nobody}
Versions == [text : Texts, over : Nat, by : People]
Links == [op : Nat, by : People, over : Nat, text : Texts, stopped : BOOLEAN, published : BOOLEAN]
Operations == [by : People, over : Nat]
Requests == [at : {"free", "sent", "read", "looked", "drafted", "unchanged", "written", "answered"},
             kind : {"none", "save", "share", "stop"}, tab : People, heard : BOOLEAN, over : Nat,
             text : Texts, op : Nat, link : Nat, answer : Nat]
Saves == [at : {"none", "patch", "check", "checked", "refresh"}, snap : Texts, typed : BOOLEAN, ver : Nat]
Loads == [at : {"none", "asked", "read", "meta", "found"}, own : BOOLEAN, want : Nat, ver : Nat, link : Nat]
Pages == [at : Nat, cv : Nat, text : Texts, dirty : BOOLEAN, save : Saves, load : Loads, link : Nat,
          panel : {"form", "link", "error"}, pending : [op : Nat, over : Nat], busy : BOOLEAN, stale : BOOLEAN]
Viewers == [at : {"idle", "resolved", "granted", "asked", "checked", "shown"}, link : Nat, late : BOOLEAN, text : Texts]
TypeOK ==
    /\ versions \in Seq(Versions) \ {<<>>} /\ links \in Seq(Links) /\ ops \in Seq(Operations) /\ late \in SUBSET Nat
    /\ calls \in [Calls -> Requests]
    /\ \A c \in Calls : (calls[c].heard => calls[c].kind # "none") /\ (calls[c].kind # "none" => calls[c].tab \in Tabs)
    /\ tab \in [Tabs -> Pages] /\ viewer \in Viewers
    /\ edits \in Nat /\ acts \in Nat /\ faults \in Nat

(* A manual has one link at most that is not stopped, and its revision is  *)
(* the published one: requests of two people to share, their retries and   *)
(* stops in any order never leave two, or a live link that shows nothing.  *)
OneLiveLink ==
    \A l \in DOMAIN links : Live(l) => links[l].published /\ \A k \in DOMAIN links : Live(k) => k = l

(* A link shows the version its maker named, whatever was saved, stopped or*)
(* shared since: content() reads the snapshot, never the draft.            *)
LinkShowsItsVersion ==
    viewer.at = "shown" => viewer.text = versions[links[viewer.link].over].text

(* A request for the contents or an image that begins after the link was   *)
(* stopped or has expired is refused, with a grant bought before, too.     *)
StoppedIsUnreadable == viewer.at = "shown" => ~viewer.late

(* Every save replaces exactly the version its request names: two saves of *)
(* one version, however their statements interleave, do not both succeed.  *)
SaveReplacesNamed == \A k \in 2..Newest : versions[k].over = k - 1

(* What a page shows as saved is a text that was stored: no order of       *)
(* answers, retries and edits marks as clean an input that never was.      *)
CleanIsStored == \A t \in Tabs : ~tab[t].dirty => \E k \in 1..Newest : versions[k].text = tab[t].text

(* What a request and the reader know: the text a request drafted, and the *)
(* text of a link, is the one of the version it names; a refused reader has*)
(* no text.                                                                *)
DraftedInv == \A c \in Calls : calls[c].at = "drafted" =>
    calls[c].over \in 1..Newest /\ calls[c].text = versions[calls[c].over].text
LinksInv == \A l \in DOMAIN links : links[l].over \in 1..Newest /\ links[l].text = versions[links[l].over].text
ViewerInv ==
    /\ viewer.at # "idle" => viewer.link \in DOMAIN links
    /\ viewer.at = "asked" /\ viewer.late => ~Open(viewer.link)
    /\ viewer.at \in {"checked", "shown"} => ~viewer.late
    /\ viewer.at = "shown" => viewer.text = links[viewer.link].text

(* What a page and its save request know of each other: the request has    *)
(* the snapshot of the page, which shows it until something is typed, and  *)
(* a request that has written, or was answered so, has stored it.          *)
Stored(text) == \E k \in 1..Newest : versions[k].text = text
Saving(c) == calls[c].heard /\ calls[c].kind = "save"
RequestKnows(r, p) ==
    /\ p.save.at = "patch" /\ r.at \in {"sent", "read", "written", "answered"}
    /\ r.at # "answered" => r.text = p.save.snap
    /\ r.at = "written" \/ r.answer = 200 => Stored(p.save.snap)
SavesInv == \A c \in Calls :
    /\ calls[c].at = "answered" => calls[c].heard
    /\ Saving(c) => /\ RequestKnows(calls[c], tab[calls[c].tab])
                    /\ \A d \in Calls : Saving(d) /\ calls[d].tab = calls[c].tab => d = c
PageKnows(p) ==
    /\ p.save.at = "patch" /\ ~p.save.typed => p.text = p.save.snap
    /\ p.load.at = "read" => p.load.ver \in 1..Newest
    /\ p.load.own => p.save.at = "refresh"
PagesInv == \A t \in Tabs : PageKnows(tab[t])

(* Versions, links, requests and pages are consistent: the inductive       *)
(* invariant that the properties above follow from.                        *)
Consistent ==
    /\ TypeOK /\ SaveReplacesNamed /\ OneLiveLink /\ DraftedInv /\ LinksInv /\ ViewerInv
    /\ SavesInv /\ PagesInv /\ CleanIsStored

(* cloud-save-c-slice.md:38: a draft is updated by compare-and-swap on     *)
(* expectedUpdatedAt, so that nobody replaces another's edit unseen: as no *)
(* page removes an edit, a version contains those somebody else saved in   *)
(* the one before.                                                         *)
NoLostEdit ==
    \A k \in 2..Newest : versions[k - 1].by # versions[k].by => versions[k - 1].text \subseteq versions[k].text
=============================================================================
