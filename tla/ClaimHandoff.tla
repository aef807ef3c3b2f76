---------------------------- MODULE ClaimHandoff ----------------------------
(***************************************************************************)
(* How a draft of the extension becomes a manual: the editor opens a       *)
(* handoff, pages of the web application fetch the draft from the          *)
(* extension and claim it at the server, and the extension deletes its     *)
(* draft when the claim is confirmed.                                      *)
(*                                                                         *)
(* The extension keeps the draft (IndexedDB) and one entry per handoff     *)
(* (storage.local); its worker, which may end at any await, keeps only     *)
(* copies.  A page keeps its entry in the session storage of its tab.  The *)
(* server is the promise of ClaimOnce: one intent and at most one manual   *)
(* per operation (CloudClaim shows how).                                   *)
(*                                                                         *)
(* The server's intent has the name of its operation; an operation has the *)
(* name of who chose it, a page or the extension for a handoff.            *)
(***************************************************************************)
EXTENDS Naturals, FiniteSets

CONSTANTS Handoffs, Pages, Editors, Contents,
          Own,         \* the editor of the draft; the others edit other drafts
          Claimable,   \* the contents that cleanDraft accepts
          MaxRestores, \* how often the extension takes a page back (in the code: 3)
          MaxVersion, MaxFaults, \* bounds on edits and failures
          None

ASSUME OwnAssumption == Own \in Editors
ASSUME ContentAssumption == Claimable \subseteq Contents /\ None \notin Contents
ASSUME NumberAssumption ==
  MaxRestores \in Nat /\ MaxVersion \in Nat /\ MaxFaults \in Nat
ASSUME NamesAssumption == Handoffs \cap Pages = {} /\ None \notin Handoffs \cup Pages

Operations == Handoffs \cup Pages

VARIABLES draft,    \* the stored draft: its content and updatedAt
          meta,     \* storage.local: one entry per handoff
          expired,  \* the handoffs whose expiresAt has passed
          doomed,   \* what each editor's clean-up read and has yet to remove
          handler,  \* the external message of a handoff that is being handled
          snapshot, \* worker memory: the draft prepared for a handoff
          transfer, \* worker memory: whether the encoded images wait to be fetched
          page,     \* each page's session entry and run
          claim,    \* server: the intent of each operation
          faults    \* failures so far

extension == <<draft, meta, doomed, handler, snapshot, transfer>>
vars == <<draft, meta, expired, doomed, handler, snapshot, transfer, page, claim, faults>>

Pending == {"finalize-pending", "completion-pending"}

NoMeta == [status |-> "absent", op |-> None, fp |-> None, at |-> 0, manual |-> None]

\* fingerprintDraft: the content alone decides it, not when it was stored.
Fingerprint(d) == d.content

NewMeta == [status |-> "new", op |-> None, fp |-> Fingerprint(draft), at |-> draft.version, manual |-> None]
NoHandler == [kind |-> "none", step |-> "none", page |-> None, seen |-> NoMeta, expected |-> None]
Closed == [pc |-> "closed", h |-> None, op |-> None, state |-> "active", status |-> "none",
           manual |-> None, fp |-> None, fragment |-> FALSE,
           restores |-> 0, prepared |-> None]
NoClaim == [status |-> "none", staged |-> FALSE, content |-> None, late |-> None]

Statuses == {"none", "uploading", "finalize-pending", "completion-pending", "completed", "expired"}
States == {"active", "expired", "recovery", "probe"}
Waits == {"recovery", "begin", "status", "prepare", "intent", "start", "chunk",
          "upload", "pending", "claim", "completed"}

TypeOK ==
  /\ draft \in [content : Contents \cup {None}, version : 0..MaxVersion]
  /\ meta \in [Handoffs -> [status : {"absent", "new", "completed"} \cup Pending,
                            op : Operations \cup {None}, fp : Contents \cup {None},
                            at : 0..MaxVersion, manual : Operations \cup {None}]]
  /\ expired \subseteq Handoffs
  /\ doomed \in [Editors -> SUBSET (Handoffs \X (Statuses \cup {"new"}))]
  /\ \A h \in Handoffs : handler[h].kind \in {"none", "begin", "pending", "completed"}
  /\ \A h \in Handoffs : handler[h].kind = "completed" => handler[h].seen.op # None
  /\ snapshot \in [Handoffs -> Contents \cup {None}]
  /\ transfer \in [Handoffs -> BOOLEAN]
  /\ page \in [Pages -> [pc : Waits \cup {"closed", "idle", "dead", "saved"},
                         h : Handoffs \cup {None}, op : Operations \cup {None},
                         state : States, status : Statuses, manual : Operations \cup {None},
                         fp : Contents \cup {None}, fragment : BOOLEAN,
                         restores : 0..MaxRestores,
                         prepared : Contents \cup {None}]]
  /\ claim \in [Operations -> [status : {"none", "pending", "expired", "completed"},
                               staged : BOOLEAN, content : Contents \cup {None},
                               late : Contents \cup {None}]]
  /\ faults \in 0..MaxFaults

Init ==
  /\ draft \in [content : Contents, version : {0}]
  /\ meta = [h \in Handoffs |-> NoMeta]
  /\ expired = {}
  /\ doomed = [e \in Editors |-> {}]
  /\ handler = [h \in Handoffs |-> NoHandler]
  /\ snapshot = [h \in Handoffs |-> None]
  /\ transfer = [h \in Handoffs |-> FALSE]
  /\ page = [p \in Pages |-> Closed]
  /\ claim = [o \in Operations |-> NoClaim]
  /\ faults = 0

Works == UNCHANGED faults
Fails == faults < MaxFaults /\ faults' = faults + 1

-----------------------------------------------------------------------------
(* The editor: edits of the draft, and startOutput under the draft's lock. *)

\* An editor window stores its draft, also one that was deleted meanwhile.
Edit(c) ==
  /\ draft.version < MaxVersion
  /\ draft' = [content |-> c, version |-> draft.version + 1]
  /\ UNCHANGED <<meta, expired, doomed, handler, snapshot, transfer, page, claim, faults>>

\* A faulty variant: the clean-up removes whatever is old.
PrunesAnyOld(h) == meta[h] # NoMeta /\ h \in expired

\* What pruneExpiredHandoffs finds: pending results are kept however old.
Prunable(h) == meta[h].status \in {"new", "completed"} /\ h \in expired

PruneRead(e) ==
  /\ doomed[e] = {} /\ \E h \in Handoffs : Prunable(h)
  /\ doomed' = [doomed EXCEPT ![e] = {<<h, meta[h].status>> : h \in {i \in Handoffs : Prunable(i)}}]
  /\ UNCHANGED <<draft, meta, expired, handler, snapshot, transfer, page, claim, faults>>

PruneRemove(e) ==
  /\ doomed[e] # {}
  /\ meta' = [h \in Handoffs |-> IF \E d \in doomed[e] : d[1] = h THEN NoMeta ELSE meta[h]]
  /\ doomed' = [doomed EXCEPT ![e] = {}]
  /\ UNCHANGED <<draft, expired, handler, snapshot, transfer, page, claim, faults>>

PendingHandoffs == {h \in Handoffs : meta[h].status \in Pending}
FreshHandoffs(c) == {h \in Handoffs : meta[h].status = "new" /\ meta[h].fp = c /\ h \notin expired}
Unused == {h \in Handoffs : meta[h] = NoMeta /\ h \notin expired}

\* findRecoverableHandoff: a pending one first, then a fresh one of the same content.
Recoverable(c) ==
  LET same == {h \in PendingHandoffs : meta[h].fp = c}
  IN IF same # {} THEN same ELSE IF PendingHandoffs # {} THEN PendingHandoffs ELSE FreshHandoffs(c)

\* buildContinueUrl: the fragment carries the identity of a pending result.
InFragment(base) == base.status \in Pending

\* The page's first entry: its own operation, or the one in the fragment.
FirstEntry(p, h, base) ==
  IF InFragment(base)
  THEN [Closed EXCEPT !.pc = "idle", !.h = h, !.fragment = TRUE, !.op = base.op,
                      !.state = "recovery", !.status = "finalize-pending", !.fp = base.fp]
  ELSE [Closed EXCEPT !.pc = "idle", !.h = h, !.fragment = TRUE, !.op = p, !.fp = base.fp]

SaveHandoffMetadata(h, base) == meta' = [meta EXCEPT ![h] = base]

\* After the clean-up found nothing or removed it: the entry is stored unless
\* there is one, and a tab is opened that announces itself (page-ready).  A
\* handoff of another content that is still pending refuses the output.
Launch(p) ==
  LET c == Fingerprint(draft) IN
  /\ doomed[Own] = {} /\ \A h \in Handoffs : ~Prunable(h)
  /\ c # None /\ page[p].pc = "closed"
  /\ \E h \in IF Recoverable(c) # {} THEN Recoverable(c) ELSE Unused :
       LET base == IF h \in Recoverable(c) THEN meta[h] ELSE NewMeta IN
       /\ base.fp = c
       /\ SaveHandoffMetadata(h, base)
       /\ page' = [page EXCEPT ![p] = FirstEntry(p, h, base)]
  /\ UNCHANGED <<draft, expired, doomed, handler, snapshot, transfer, claim, faults>>

Editing ==
  \/ \E c \in Contents : Edit(c)
  \/ \E e \in Editors : PruneRead(e) \/ PruneRemove(e)
  \/ \E p \in Pages : Launch(p)

-----------------------------------------------------------------------------
(* The page's session entry.                                               *)

HasIdentity(r) == r.status \in Pending \cup {"completed"} /\ r.fp # None
Fresh(r) == r.h \notin expired
Usable(r) ==
  \/ r.state = "probe"
  \/ r.state = "recovery" /\ HasIdentity(r)
  \/ r.state = "active" /\ Fresh(r)

\* The run ends; "dead" is a button that is disabled.
Ends(r, pc) == [r EXCEPT !.pc = pc, !.prepared = None]
Expired(r, pc) == [Ends(r, pc) EXCEPT !.state = IF HasIdentity(r) THEN "recovery" ELSE "expired"]
Probe(r) == [Ends(r, "idle") EXCEPT !.state = "probe"]

\* ensureFinalizeWriteAllowed before each further write.
Goes(r, pc) == IF r.state = "active" /\ Fresh(r) THEN [r EXCEPT !.pc = pc] ELSE Expired(r, "idle")

\* showClaimSuccess: the button leads to the manual and claims nothing more.
ShowClaimSuccess(r) == Ends(r, "saved")

\* claimDraft, up to its first request: results are reconciled before anything
\* is prepared.  The bootstrap of a first run, which only makes the user's
\* workspace, is left out.
Claiming(r) ==
  CASE r.status = "completed" -> ShowClaimSuccess(r)
    [] r.status = "completion-pending" /\ r.manual # None -> [r EXCEPT !.pc = "completed"]
    [] r.status \in {"finalize-pending", "expired"} -> [r EXCEPT !.pc = "status"]
    [] OTHER -> Goes(r, "prepare")

\* recoverExtensionContext has answered.
Recovered(r) ==
  IF r.state = "probe" THEN Ends(r, "idle")
  ELSE IF r.state = "active" THEN [r EXCEPT !.pc = "begin"] ELSE Claiming(r)

NotFound(r) ==
  IF r.state # "probe" /\ Fresh(r) THEN Recovered(r)
  ELSE IF ~Fresh(r) THEN LET x == Expired(r, "dead") IN IF x.state = "expired" THEN x ELSE Claiming(x)
  ELSE Recovered([r EXCEPT !.state = "active"])

Adopts(r, m) ==
  Recovered([r EXCEPT !.op = m.op, !.fp = m.fp, !.status = m.status,
                      !.manual = IF m.manual # None THEN m.manual ELSE @,
                      !.state = IF m.status = "finalize-pending" /\ r.h \notin expired THEN "active" ELSE "recovery"])

\* A faulty variant: the page goes on with the operation it began with.
BeginsWithOwn(r, op) == Claiming(r)

AfterBegin(r, op) ==
  LET x == [r EXCEPT !.op = op]
  IN IF r.h \in expired THEN [Ends(x, "dead") EXCEPT !.state = "expired"] ELSE Claiming(x)

At(p, pc) == page[p].pc = pc
Becomes(p, r) == page' = [page EXCEPT ![p] = r]
Meta(p) == meta[page[p].h]

-----------------------------------------------------------------------------
(* The run of a page: claimDraft and completePending.                      *)

Click(p) ==
  /\ At(p, "idle") /\ page[p].fragment
  /\ Becomes(p, IF Usable(page[p]) THEN [page[p] EXCEPT !.pc = "recovery"] ELSE Expired(page[p], "dead"))
  /\ UNCHANGED <<extension, expired, claim, faults>>

\* queueHandoffExternalOperation: none of a handoff's messages is handled
\* before the one before it has been answered.
Free(p) == handler[page[p].h] = NoHandler

\* A message that is not answered, because the worker ended: probed again or
\* reported, with the button enabled.
Unanswered(r) == IF r.pc = "recovery" THEN Probe(r) ELSE Ends(r, "idle")

\* handoff.recovery only reads.
Recovery(p) ==
  /\ At(p, "recovery") /\ Free(p)
  /\ LET m == Meta(p) IN
     Becomes(p, IF m.status \in Pending \cup {"completed"} /\ m.op # None
                THEN Adopts(page[p], m) ELSE NotFound(page[p]))
  /\ UNCHANGED <<extension, expired, claim, faults>>

\* The status route, asked for the result of an earlier finalize.
Status(p) ==
  LET r == page[p] IN
  /\ At(p, "status")
  /\ \/ /\ Works
        /\ Becomes(p, CASE claim[r.op].status = "completed" ->
                             [r EXCEPT !.status = "completion-pending", !.manual = r.op, !.pc = "completed"]
                        [] claim[r.op].status = "pending" ->
                             IF r.state = "active" /\ Fresh(r) THEN Goes(r, "prepare") ELSE Ends(r, "idle")
                        [] claim[r.op].status = "expired" -> Expired([r EXCEPT !.status = "expired"], "idle")
                        [] OTHER -> Ends(r, "idle"))
     \/ Fails /\ Becomes(p, Ends(r, "idle"))
  /\ UNCHANGED <<extension, expired, claim>>

\* readHandoff: what the worker's transfers accept as the handoff's entry.
FreshEntry(h) == meta[h] # NoMeta /\ h \notin expired

\* cleanDraft: a draft whose title, steps and images can be claimed at all.
CleanDraft(c) == c \in Claimable

\* handoff.prepare: the draft must be what the handoff was made of.
Prepare(p) ==
  LET r == page[p] IN
  /\ At(p, "prepare") /\ Free(p)
  /\ IF FreshEntry(r.h) /\ Fingerprint(draft) = Meta(p).fp /\ CleanDraft(draft.content)
     THEN /\ snapshot' = [snapshot EXCEPT ![r.h] = draft.content]
          /\ Becomes(p, IF r.fp \notin {None, draft.content} THEN Ends(r, "idle")
                        ELSE Goes([r EXCEPT !.prepared = draft.content],
                                  IF r.status = "finalize-pending" THEN "start" ELSE "intent"))
     ELSE UNCHANGED snapshot /\ Becomes(p, Ends(r, "idle"))
  /\ UNCHANGED <<draft, meta, expired, doomed, handler, transfer, claim, faults>>

\* The claim-intents route answers the operation's intent, made before or now.
Intent(p) ==
  LET r == page[p] IN
  /\ At(p, "intent")
  /\ LET made == [claim EXCEPT ![r.op].status = IF @ = "none" THEN "pending" ELSE @] IN
     \/ /\ Works /\ claim' = made
        /\ Becomes(p, Goes([r EXCEPT !.status = "uploading", !.fp = r.prepared], "start"))
     \/ Fails /\ claim' \in {claim, made} /\ Becomes(p, Ends(r, "idle"))
  /\ UNCHANGED <<extension, expired>>

\* maskAndEncode burns the masks into the images and encodes them, small
\* enough; removeTransfer and clearClaimRuntime forget what was encoded.
MaskAndEncode(h) == Works /\ transfer' = [transfer EXCEPT ![h] = TRUE]
CannotEncode == Fails /\ UNCHANGED transfer
RemoveTransfer(h) == transfer' = [transfer EXCEPT ![h] = FALSE]
ClearClaimRuntime(h) == RemoveTransfer(h) /\ snapshot' = [snapshot EXCEPT ![h] = None]

\* handoff.asset.start encodes the images again, from their first chunk.
StartAsset(p) ==
  LET r == page[p] IN
  /\ At(p, "start") /\ Free(p)
  /\ IF FreshEntry(r.h) /\ snapshot[r.h] = Meta(p).fp
     THEN \/ MaskAndEncode(r.h) /\ Becomes(p, [r EXCEPT !.pc = "chunk"])
          \/ CannotEncode /\ Becomes(p, Ends(r, "idle"))
     ELSE UNCHANGED <<transfer, faults>> /\ Becomes(p, Ends(r, "idle"))
  /\ UNCHANGED <<draft, meta, expired, doomed, handler, snapshot, claim>>

\* The chunks in sequence, until the last one: another page of the handoff
\* may have taken them, and then the chunk is refused.
AssetChunk(p) ==
  LET r == page[p] IN
  /\ At(p, "chunk") /\ Free(p)
  /\ IF transfer[r.h] /\ FreshEntry(r.h) /\ Meta(p).status # "completed"
     THEN RemoveTransfer(r.h) /\ Becomes(p, Goes(r, "upload"))
     ELSE UNCHANGED transfer /\ Becomes(p, Ends(r, "idle"))
  /\ UNCHANGED <<draft, meta, expired, doomed, handler, snapshot, claim, faults>>

\* A faulty variant: the page finalizes before the extension has stored the identity.
FinalizesAtOnce(p) ==
  LET r == page[p] IN
  /\ At(p, "upload") /\ Works
  /\ claim' = [claim EXCEPT ![r.op].staged = (claim[r.op].status = "pending")]
  /\ Becomes(p, Goes(r, "claim"))
  /\ UNCHANGED <<extension, expired>>

Upload(p) ==
  LET r == page[p] IN
  /\ At(p, "upload")
  /\ IF claim[r.op].status = "pending"
     THEN LET staged == [claim EXCEPT ![r.op].staged = TRUE] IN
          \/ Works /\ claim' = staged /\ Becomes(p, Goes(r, "pending"))
          \/ Fails /\ claim' \in {claim, staged} /\ Becomes(p, Ends(r, "idle"))
     ELSE UNCHANGED <<claim, faults>> /\ Becomes(p, Ends(r, "idle"))
  /\ UNCHANGED <<extension, expired>>

\* The finalize route: the first payload of a pending intent makes the manual,
\* the same payload is answered the same manual, anything else is refused.
Accepts(c, content) ==
  \/ c.status = "completed" /\ c.content = content
  \/ c.status = "pending" /\ c.staged
Saves(o, content) ==
  [claim EXCEPT ![o] = IF Accepts(@, content)
                       THEN [@ EXCEPT !.status = "completed", !.content = content] ELSE @]

\* claimManualForWeb: what the page sends is made of what it prepared.
ClaimManualForWeb(r) == r.prepared

\* The answer is a manual for the page's payload.
Confirmed(r) == Accepts(claim[r.op], ClaimManualForWeb(r))

Finalize(p) ==
  LET r == page[p] IN
  /\ At(p, "claim")
  /\ \/ /\ Works /\ claim' = Saves(r.op, ClaimManualForWeb(r))
        /\ Becomes(p, IF Confirmed(r)
                      THEN [r EXCEPT !.status = "completion-pending", !.manual = r.op, !.pc = "completed"]
                      ELSE Ends(r, "idle"))
     \/ /\ Fails
        /\ claim' \in {claim, Saves(r.op, ClaimManualForWeb(r)), [claim EXCEPT ![r.op].late = ClaimManualForWeb(r)]}
        /\ Becomes(p, Ends(r, "idle"))
  /\ UNCHANGED <<extension, expired>>

\* A request that was given up reaches the server all the same.
LateFinalize(o) ==
  /\ claim[o].late # None
  /\ claim' = [Saves(o, claim[o].late) EXCEPT ![o].late = None]
  /\ UNCHANGED <<extension, expired, page, faults>>

-----------------------------------------------------------------------------
(* The messages of the extension that write: begin, finalize-pending and   *)
(* completed.  Each reads the handoff's entry first and writes it later,   *)
(* as it was read; only the messages of the same handoff wait meanwhile.   *)

Takes(p, kind, step, seen) ==
  handler' = [handler EXCEPT ![page[p].h] =
                [kind |-> kind, step |-> step, page |-> p, seen |-> seen, expected |-> None]]

\* The answer reaches the page if it is still waiting for it.
Answers(h, r) ==
  /\ handler' = [handler EXCEPT ![h] = NoHandler]
  /\ IF handler[h].page = None THEN UNCHANGED page ELSE Becomes(handler[h].page, r)

BeginRead(p) ==
  LET r == page[p] m == Meta(p) IN
  /\ At(p, "begin") /\ Free(p)
  /\ CASE m = NoMeta -> Becomes(p, Ends(r, "idle")) /\ UNCHANGED handler
       [] m.op # None -> Becomes(p, AfterBegin(r, m.op)) /\ UNCHANGED handler
       [] m # NoMeta /\ m.op = None /\ r.h \in expired -> Becomes(p, Ends(r, "idle")) /\ UNCHANGED handler
       [] OTHER -> Takes(p, "begin", "write", [m EXCEPT !.op = r.h]) /\ UNCHANGED page
  /\ UNCHANGED <<draft, meta, expired, doomed, snapshot, transfer, claim, faults>>

BeginWrite(h) ==
  /\ handler[h].kind = "begin"
  /\ meta' = [meta EXCEPT ![h] = handler[h].seen]
  /\ LET p == handler[h].page IN Answers(h, IF p = None THEN Closed ELSE AfterBegin(page[p], h))
  /\ UNCHANGED <<draft, expired, doomed, snapshot, transfer, claim, faults>>

\* The page records the identity as well, after the extension did.
PendingStored(r) == [r EXCEPT !.status = "finalize-pending", !.pc = "claim"]

\* The identity that a result is recovered with is fixed once stored.
OtherIdentity(m, r) == m.op \notin {None, r.op} \/ m.fp # r.prepared

PendingRead(p) ==
  LET r == page[p] m == Meta(p) IN
  /\ At(p, "pending") /\ Free(p)
  /\ CASE m = NoMeta \/ OtherIdentity(m, r) -> Becomes(p, Ends(r, "idle")) /\ UNCHANGED handler
       [] m # NoMeta /\ ~OtherIdentity(m, r) /\ m.status # "new" ->
            Becomes(p, PendingStored(r)) /\ UNCHANGED handler
       [] m.status = "new" /\ ~OtherIdentity(m, r) /\ r.h \in expired ->
            Becomes(p, Ends(r, "idle")) /\ UNCHANGED handler
       [] OTHER -> Takes(p, "pending", "write", [m EXCEPT !.status = "finalize-pending", !.op = r.op]) /\ UNCHANGED page
  /\ UNCHANGED <<draft, meta, expired, doomed, snapshot, transfer, claim, faults>>

PendingWrite(h) ==
  LET p == handler[h].page IN
  /\ handler[h].kind = "pending"
  /\ meta' = [meta EXCEPT ![h] = handler[h].seen]
  /\ Answers(h, IF p = None THEN Closed ELSE PendingStored(page[p]))
  /\ UNCHANGED <<draft, expired, doomed, snapshot, transfer, claim, faults>>

CompletedStored(r) == [ShowClaimSuccess(r) EXCEPT !.status = "completed"]

\* A result is taken for the identity it was stored with, and only once.
Mismatch(m, r) ==
  \/ m.status \in {"finalize-pending", "completed"} /\ (m.op # r.op \/ m.fp # r.fp)
  \/ m.status \in {"completed", "completion-pending"} /\ m.manual # r.manual

CompletedRead(p) ==
  LET r == page[p] m == Meta(p) IN
  /\ At(p, "completed") /\ Free(p)
  /\ CASE m = NoMeta \/ Mismatch(m, r) -> Becomes(p, Ends(r, "idle")) /\ UNCHANGED handler
       [] m.status = "completed" /\ ~Mismatch(m, r) -> Becomes(p, CompletedStored(r)) /\ UNCHANGED handler
       [] m.status = "new" /\ r.h \in expired -> Becomes(p, Ends(r, "idle")) /\ UNCHANGED handler
       [] OTHER -> /\ Takes(p, "completed", IF m.status = "completion-pending" THEN "expect" ELSE "write",
                            [m EXCEPT !.status = "completion-pending", !.manual = r.manual])
                   /\ UNCHANGED page
  /\ UNCHANGED <<draft, meta, expired, doomed, snapshot, transfer, claim, faults>>

Completion(h) == handler[h].kind = "completed"
Continues(h, step, expected) ==
  handler' = [handler EXCEPT ![h].step = step, ![h].expected = expected]

\* The result is stored before the draft is touched.
CompletedWrite(h) ==
  /\ Completion(h) /\ handler[h].step = "write"
  /\ meta' = [meta EXCEPT ![h] = handler[h].seen]
  /\ Continues(h, "expect", None)
  /\ UNCHANGED <<draft, expired, doomed, snapshot, transfer, page, claim, faults>>

\* draftDeleteExpectation: what the draft must still be when it is deleted.
Expect(h) ==
  LET m == handler[h].seen IN
  /\ Completion(h) /\ handler[h].step = "expect"
  /\ IF draft.content # None /\ draft.version = m.at /\ Fingerprint(draft) = m.fp
     THEN Continues(h, "delete", draft.content) ELSE Continues(h, "finish", None)
  /\ UNCHANGED <<draft, meta, expired, doomed, snapshot, transfer, page, claim, faults>>

\* One IndexedDB transaction compares the draft again and deletes it.
\* A faulty variant: whatever the draft is now is deleted.
DeletesLaterEdit(h) == draft.content # None

Deletable(h) == draft.version = handler[h].seen.at /\ draft.content = handler[h].expected

DeleteDraft(h) ==
  /\ Completion(h) /\ handler[h].step = "delete"
  /\ draft' = [draft EXCEPT !.content = IF Deletable(h) THEN None ELSE @]
  /\ Continues(h, "finish", None)
  /\ UNCHANGED <<meta, expired, doomed, snapshot, transfer, page, claim, faults>>

CompletedFinish(h) ==
  LET p == handler[h].page IN
  /\ Completion(h) /\ handler[h].step = "finish"
  /\ meta' = [meta EXCEPT ![h] = [handler[h].seen EXCEPT !.status = "completed"]]
  /\ ClearClaimRuntime(h)
  /\ Answers(h, IF p = None THEN Closed ELSE CompletedStored(page[p]))
  /\ UNCHANGED <<draft, expired, doomed, claim, faults>>

\* storage.local or IndexedDB rejects: the message is answered HANDOFF_FAILED.
StoreFails(h) ==
  LET p == handler[h].page IN
  /\ handler[h] # NoHandler /\ Fails
  /\ Answers(h, IF p = None THEN Closed ELSE Ends(page[p], "idle"))
  /\ UNCHANGED <<draft, meta, expired, doomed, snapshot, transfer, claim>>

\* The worker ends: its memory and every message it was handling are lost.
Asking == {"recovery", "begin", "prepare", "start", "chunk", "pending", "completed"}

WorkerEnds ==
  /\ Fails
  /\ handler' = [h \in Handoffs |-> NoHandler]
  /\ snapshot' = [h \in Handoffs |-> None]
  /\ transfer' = [h \in Handoffs |-> FALSE]
  /\ page' = [p \in Pages |-> IF page[p].pc \in Asking THEN Unanswered(page[p]) ELSE page[p]]
  /\ UNCHANGED <<draft, meta, expired, doomed, claim>>

-----------------------------------------------------------------------------
(* The tab: the page is loaded again, with its fragment or without.        *)

\* readSaved normalizes an entry whose time has passed.
Read(r) == IF r.state = "active" /\ ~Fresh(r) THEN Expired(r, "idle") ELSE Ends(r, "idle")

\* Without a fragment an expired entry is probed, with one a probe is refused.
LoadedBare(r) ==
  LET x == [Read(r) EXCEPT !.fragment = FALSE] IN
  IF x.state = "expired" THEN Probe(x)
  ELSE IF x.state = "recovery" /\ ~HasIdentity(x) THEN [x EXCEPT !.pc = "dead"] ELSE x
LoadedFragment(r) ==
  LET x == [Read(r) EXCEPT !.fragment = TRUE, !.restores = @ + 1] IN
  IF x.state = "expired" THEN Probe(x)
  ELSE IF x.state = "probe" \/ ~Usable(x) THEN [x EXCEPT !.pc = "dead"] ELSE x

\* The message that a run waits for is still handled, but its answer is lost.
Forsaken(p) ==
  handler' = [h \in Handoffs |-> IF handler[h].page = p THEN [handler[h] EXCEPT !.page = None] ELSE handler[h]]

Reload(p) ==
  /\ page[p].pc # "closed"
  /\ Becomes(p, LoadedBare(page[p])) /\ Forsaken(p)
  /\ UNCHANGED <<draft, meta, expired, doomed, snapshot, transfer, claim, faults>>

Close(p) ==
  /\ page[p].pc # "closed"
  /\ Becomes(p, Closed) /\ Forsaken(p)
  /\ UNCHANGED <<draft, meta, expired, doomed, snapshot, transfer, claim, faults>>

\* handoff.access-return: the extension takes the page to its fragment again.
MayReturn(r, m) ==
  /\ r.restores < MaxRestores
  /\ m # NoMeta /\ m.status # "completed" /\ m.op \in {None, r.op} /\ m.fp = r.fp
  /\ m.status \in Pending \/ r.h \notin expired

ClickBare(p) ==
  LET r == page[p] IN
  /\ At(p, "idle") /\ ~r.fragment
  /\ IF Usable(r) THEN Free(p) /\ MayReturn(r, Meta(p)) /\ Becomes(p, LoadedFragment(r))
     ELSE Becomes(p, Expired(r, "dead"))
  /\ UNCHANGED <<extension, expired, claim, faults>>

-----------------------------------------------------------------------------
PageRuns(p) ==
  \/ Recovery(p) \/ BeginRead(p) \/ Status(p) \/ Prepare(p) \/ Intent(p)
  \/ StartAsset(p) \/ AssetChunk(p) \/ Upload(p) \/ PendingRead(p) \/ Finalize(p)
  \/ CompletedRead(p)
Handles(h) ==
  \/ BeginWrite(h) \/ PendingWrite(h) \/ CompletedWrite(h) \/ Expect(h) \/ DeleteDraft(h)
  \/ CompletedFinish(h)
Clicks(p) == Click(p) \/ ClickBare(p)
Tab(p) == Reload(p) \/ Close(p)

\* Time passes.  The 15 minutes that a page gives itself until it knows the
\* handoff's expiresAt are taken to end with it.
Expire(h) ==
  /\ h \notin expired /\ (meta[h] # NoMeta \/ \E p \in Pages : page[p].h = h)
  /\ expired' = expired \cup {h}
  /\ UNCHANGED <<extension, page, claim, faults>>

ExpireIntent(h) ==
  /\ claim[h].status = "pending" /\ h \in expired
  /\ claim' = [claim EXCEPT ![h].status = "expired"]
  /\ UNCHANGED <<extension, expired, page, faults>>

Next ==
  \/ Editing
  \/ \E p \in Pages : Clicks(p) \/ PageRuns(p) \/ Tab(p)
  \/ \E h \in Handoffs : Handles(h) \/ StoreFails(h) \/ Expire(h) \/ ExpireIntent(h)
  \/ \E o \in Operations : LateFinalize(o)
  \/ WorkerEnds

Spec == Init /\ [][Next]_vars

-----------------------------------------------------------------------------
(* Properties                                                              *)

\* Only the operation that the extension fixed for a handoff is ever written
\* with, although every page begins with one of its own and storage of the
\* session is not shared.  Stated by decision-log.md:365.
CanonicalOperation == \A p \in Pages : claim[p] = NoClaim

\* The local draft is deleted only when a manual of exactly that content is
\* saved, although edits, other pages and the end of the worker come between
\* the server's answer and the deletion.
DeletedDraftIsSaved ==
  [][draft.content # None /\ draft'.content = None
       => \E h \in Handoffs : claim[h].status = "completed" /\ claim[h].content = draft.content]_vars

\* A handoff is stored as completed, and a page says so, only when the server
\* has the manual, with the content that the handoff was opened for.
CompletedIsSaved ==
  /\ \A h \in Handoffs : meta[h].manual # None =>
       /\ claim[meta[h].manual].status = "completed" /\ claim[meta[h].manual].content = meta[h].fp
       /\ meta[h].manual = meta[h].op
  /\ \A p \in Pages : At(p, "saved") => claim[page[p].op].status = "completed"

\* The identity that an unknown result is recovered with is neither changed
\* nor given up, until the result is known.  Only a clean-up that saw the
\* entry when it had expired, and before it became pending, removes it.
PendingIsKept ==
  [][\A h \in Handoffs : meta[h].status \in Pending =>
       \/ meta'[h].status \in Pending \cup {"completed"}
          /\ meta'[h].op = meta[h].op /\ meta'[h].fp = meta[h].fp
          /\ meta'[h].manual \in {meta[h].op, meta[h].manual}
       \/ \E e \in Editors : <<h, "new">> \in doomed[e]]_vars

\* A finalize whose answer is unknown can be recovered after any crash: the
\* extension has the operation of every intent that may be completed, or it has
\* no entry of the handoff any more, because a clean-up removed it.
FinalizeIsRecoverable ==
  \A h \in Handoffs : claim[h].status = "completed" \/ claim[h].late # None =>
    \/ meta[h].status \in Pending \cup {"completed"} /\ meta[h].op = h
    \/ meta[h] = NoMeta

\* One operation for each handoff, and no result that the server does not have.
Consistent == TypeOK /\ CanonicalOperation /\ CompletedIsSaved
=============================================================================
