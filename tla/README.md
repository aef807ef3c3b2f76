# Meccha Manual: TLA+ verification

Meccha Manual records what a user does in a browser tab, makes an illustrated
draft of it on the device, and, once the user signs in, turns the draft into a
manual in the cloud that can be edited and shared. This directory holds TLA+
models of it, the TLC configurations that check them on small instances, and
TLAPS proofs of what holds for every instance.

| file | what it is |
| --- | --- |
| `CloudClaim.tla` | the claim server: the Worker's claim routes, D1 and R2 |
| `ClaimOnce.tla` | what a claim promises its clients; `CloudClaim` implements it |
| `CaptureSession.tla` | a recording of the extension: service worker, recorder, stores, window |
| `ClaimHandoff.tla` | how a draft of the extension becomes a manual: editor, extension, web pages, server |
| `HandoffLaunch.tla` | how the editor opens, shows and cancels the tab of a handoff |
| `DraftEditor.tla` | the editor page of a local draft: the write queue and the three-way merge |
| `DraftShare.tla` | a draft in the cloud, its editors, its share links and a reader |
| `ManualLifecycle.tla` | a manual on Supabase: steps, publication, next draft, archive, and its pages |
| `Members.tla` | the members of a workspace on Supabase, join codes, and the members page |
| `WebSession.tla` | the login of a browser, shared by the tabs of the web application |
| `Workspaces.tla` | identities, workspaces, the onboarding bootstrap and join codes on D1 |
| `CloudClaimProofs.tla` | proofs about the claim server, and of its refinement of `ClaimOnce` |
| `ClaimHandoffProofs.tla` | proofs about the way of a draft to its manual |
| `DraftShareProofs.tla` | proofs about the draft, its links, its readers and its pages |
| `DraftEditorProofs.tla` | proofs about the editor's write queue and its three-way merge |
| `ManualLifecycleProofs.tla` | proofs about the manual on Supabase and the pages of its editors |
| `MembersProofs.tla` | proofs about members, join codes, their row locks and the members page |
| `HandoffLaunchProofs.tla` | proofs about launches, their ready records and the Web Lock |
| `WorkspacesProofs.tla` | proofs about identities, workspaces and signups |
| `MC*.tla`, `MC*.cfg` | small instances for TLC, one configuration per run |
| `PROJECT.json` | components, runs, the source lines of every definition, hazards, findings |

To repeat the checks, in this directory:

    tlc -workers 2 -config MCCloudClaim.cfg MCCloudClaim.tla
    tlapm CloudClaimProofs.tla

## Inventory

Paths are relative to the repository. "D1" is Cloudflare's SQLite, "R2" its
object store; the Worker is `apps/worker`, the extension `apps/extension`. The
Worker serves two generations of the product: manuals, members and logins on
Supabase, and claims, drafts and share links on D1.

| component | state | operations | what is hard | what makes it correct |
| --- | --- | --- | --- | --- |
| **Claim server** (`cloud-manual-router.ts`, `cloud-manual-repository.ts`, `migrations/0004`) | rows of `claim_intents` and `claim_assets`, R2 objects, the manual a claim made | create intent, upload image, finalize, two status reads | two stores without a transaction, requests that are sent again or race, puts that throw and land later, expiry and deactivation in between | one manual per claim, whole, from the payload its client sent; answers stay true |
| **Capture session** (`background/service-worker.js` and its helpers) | session store, recovery journal, screenshots and draft in IndexedDB, worker memory, the user's window | start, events, navigation, tab closed, pause, resume, finish, cancel, restore, restart | no transaction between the stores, any call may be rejected, the worker dies at any await, the page goes on meanwhile | no accepted event is lost, a cancel stays a cancel, limits hold, the window gets its size back |
| **Recorder** (`content/recorder.js`) | tracked and retained events of one page | capture, send and resend, drain, retain, release | the page may navigate, the answer may be lost, a second recorder may be injected | what is not stored yet is still held by the page |
| **Handoff of a draft** (`background/cloud-claim.js`, `editor/handoff.js`, `onboarding-assets.ts`) | handoff metadata, snapshots and transfers in memory, queues per handoff | begin, prepare, transfer, finalize-pending, completed, recovery | page, worker and server each may restart; expiry races a late finalize; the draft is edited meanwhile | the local draft is deleted only when the server has it, and never a newer one |
| **Launch of a handoff** (`editor/editor.js`, ready and access-return handlers of `service-worker.js`) | the attempt, its tab, `handoff-ready` records, a Web Lock | start, cancel, show, report, return from the login | the page reports while the user cancels or starts again; records are read and then written | a cancelled launch stays hidden, no blank tab is left, every launch ends |
| **Draft editor** (`editor/editor.js`, `draft-model.js`) | the draft in memory and in IndexedDB, a queue of writes, an image editor | type, add, delete and move steps, upload, mask | the user edits while a write is pending | no edit is lost by the merge, masks stay on the picture they were drawn on |
| **Draft editing and share links on D1** (`cloud-manual-repository.ts`, `share-link-router.ts`, `cloud-manual-assets.ts`) | `manuals`, `manual_revisions`, links, grants, the editor pages | load, save, reconcile; share, stop, open with passcode, read | compare-and-set over a read and a batch; saves, shares, stops and readers race; answers are lost | no save replaces a version it does not name, one live link, a stopped link shows nothing |
| **Manual lifecycle on Supabase** (`supabase/migrations/20260802*, 20260814*, 20260818*`, `manual-router.ts`, `manual-edit-router.ts`, `app-assets.ts`) | revisions, steps with positions, the pages' snapshots and unsaved forms | draft, append, update, delete and move steps, publish, next draft, archive | versions compared in procedures, loads that overtake each other, forms carried over a load | what is published is what was reviewed; no blind overwrite; unsaved input survives |
| **Members on Supabase** (`supabase/migrations/20260801*, 20260810*`, `index.ts`, `app-assets.ts`) | members, join codes, audit log, the members page and its pending changes | list, change a member, issue and redeem a code | row locks taken one after the other, a code replaced while it is used, roles changed while a change waits, lost answers | only managers change members, a code admits once, the page shows what it was told |
| **Login of the web application** (`app-assets.ts`, `index.ts`, `index-phase2.ts`) | cookies, a version in local storage, a Web Lock, announcements between tabs | load, log in, log out, refresh, send again | tabs share one cookie jar; a refresh token is spent once; a call is sent again under another login | no tab takes the login from the others, a retry keeps its user, screens agree |
| **Workspaces and bootstrap on D1** (`workspace-repository.ts`, `onboarding-repository.ts`, `access-identity.ts`, `index.ts`, `migrations/0001`-`0003`) | identities, workspaces, members, join codes, operations, signups, the audit log | bootstrap, personal workspace, create, issue and consume a code, change a member | first requests race, a committed batch whose answer is lost is sent again, operators suspend and disable in between | one signup and one personal workspace per person, always answered the same; owners, codes and members agree |
| Extension interface, screenshot masking, capture API, Access identity, object storage port, tooling | none that outlives a call, or decided by one statement | | geometry, formatting, I/O | |

How they interact. The recorder sends events to the service worker and waits
for each answer; the service worker injects recorders and tells them to drain,
to retain or to release. A finish makes a draft in IndexedDB, which the editor
changes. The editor launches the web page of a handoff; the page asks the
extension for the draft and its images by external messages, uploads and
finalizes them at the claim server, and tells the extension, which deletes the
draft. The manuals a claim made are what draft editing and share links work
on, in the personal workspace that the bootstrap has made. On Supabase, manuals
and members hang on the login that the tabs share: `ManualLifecycle` and
`Members` take single requests as answered by the router they model, and
`WebSession` shows what a call, a refresh and a retry do to the login.

## Plan

Done: `CloudClaim` with `ClaimOnce`, `CaptureSession`, `ClaimHandoff` (over
`ClaimOnce`'s promise as the server), `HandoffLaunch`, `DraftEditor`,
`DraftShare`, `ManualLifecycle`, `Members`, `WebSession`, `Workspaces`; proofs
of `CloudClaim` and its refinement, `ClaimHandoff`, `DraftShare`,
`DraftEditor`, `ManualLifecycle`, `Members`, `HandoffLaunch` and `Workspaces`.

Left, in this order:

1. Proofs of what is only model-checked: `WebSession`, then `CaptureSession`.
2. The transfer budget of `cloud-claim.js` (bytes reserved and released while
   transfers expire).
3. The references of screenshots to their generations, and composition of
   `HandoffLaunch` with `ClaimHandoff`: the draft edited between two launches
   of one handoff.

## CloudClaim

One claim operation of one actor; `claim_intents` is unique on the pair. Each
member of `Handlers` is a request that the Worker is serving: `call[h].pc`
names the await it is at, and every await of D1 or R2 in the source is a step,
so any two requests interleave between them. A handler that has answered may
take another request, so the number of requests is unbounded, and `reply`
remembers the last answer.

| variable | code |
| --- | --- |
| `intent` | the row of `claim_intents`; `fingerprint` stands for the payload it is the hash of |
| `asset` | the rows of `claim_assets` by slot: none, reserved, staged, completed |
| `object` | the R2 object under the deterministic key of a slot |
| `latePuts` | R2 puts whose caller saw an error and that may still take effect |
| `manuals` | the manuals made by the batch of `finalizeClaim` |
| `expired`, `owner` | `expires_at` has passed; identity, workspace and membership are active |

| route | actions |
| --- | --- |
| POST claim-intents | `ReceiveCreate`, `InsertIntent`, `ReadIntent` |
| PUT assets/{slot} | `ReceiveUpload`, `FindRow`, `HeadFound`, `Reserve`, `ReserveReread`, `HeadReserved`, `PutObject`, `HeadAfterPut`, `RecordStaged`, `RereadRow`; `LatePut` |
| POST claims/{id} | `ReceiveFinalize`, `ReadRows`, `ReadHeads`, `CommitClaim`, `FinalizeReread` |
| GET claims/{id} | `ReceiveStatus` |
| any await that throws | `Fault`, and the lost answers of `InsertIntent`, `Reserve`, `RecordStaged`, `CommitClaim` |

A D1 batch is one step, since D1 runs it as a transaction; that its result is
examined only after it was committed is in `CommitClaim`.

Abstractions. An image is its digest; there is one media type, so that a slot
has one object key. The heads of a manifest are read in one step. Reads that
throw are `Fault`. A deactivated owner stays so. Bodies that fail validation
are not sent.

Properties: see the comments above each in the module. `IInv` is the
inductive invariant: what rows, objects and the intent are to each other
(`RowsInv`, `IntentInv`, `StagedRowHasObject`, `ObjectIsReserved`), and what a
request *knows* at each of its steps (`CallOK`): for instance, that an upload
that is about to record its row has an object with its digest, and that a
finalize that is about to commit has rows that are still held with the digests
of its manifest. The properties alone are not inductive, because the routes
act on what they read several awaits ago.

`ClaimOnce` is the abstract specification: a value that is saved once, where a
client is told "saved" only of its own value. `manuals` and the answers
"claimed" refine it (`Once`, `ImplementsClaimOnce`).

## CaptureSession

One recording, from start to draft or cancel, again and again. `session`,
`journal`, `live` and `draft` are the four places that keep it, which no
transaction joins; `marker` and `fallback` are the worker's memory; `rec` is
the page's recorder and `inflight`, `acks` the messages between the two;
`window` and `tab` are the user's. `Current` is `getSession`, which puts
session, journal and memory together.

Session operations are serialized by `serializeSessionOperation`, so `op` is
the one that runs: which (`task`), in which part of it (`stage`: the main
path, the two saves of a pause, the limit, the catch block, a cancel) and at
which call (`pc`), with the local copy of the session it works on (`s`). Every
storage write, page call and window call is a step, which may fail as often as
`MaxFaults` allows, if its kind is in `Faults`; the page goes on between steps.

| code | actions |
| --- | --- |
| `startCapture`, `recoverInterruptedStartingSession` | `Start`, `StoreStarting`, `Resize`, `PutSession`, `Recover` |
| `capture:event` | `ReceiveEvent`, `Append`, `AppendJournal`, `TakeImage`, `ImageDone` |
| `pauseCapture`, `resumeCapture` | `Pause`, `Resume`, `ResumeJournal`, `ClearJournal` |
| `finishCapture` | `Finish`, `CountImages`, `Absorb`, `Absorbed`, `AbsorbJournal`, `MakeDraft`, `CatchFinish` |
| `cancelCapture`, `tabs.onRemoved`, `retryRestore` | `Cancel`, `ReceiveRemoved`, `RetryRestore`, `KeepSession` |
| `tabs.onUpdated` | `ReceiveUpdated`, `StoreNavigation`, `JournalNavigation`, `StoreInjectionFailure`, `JournalInjectionFailure`, `JournalNavigated` |
| `retainCancelFailure`, `markCaptureLimit` and the other pairs of writes | `SaveJournal`, `SaveSession` |
| `stopRecorder` (drain, retain, release), `injectRecorder` | `Drain`, `Retain`, `Release`, `Inject` |
| `attemptRestore`, `recoverWindowSession`, clean-up | `Restore`, `RestoreWindow`, `RestoreFailed`, `DropSession`, `DropJournal`, `ClearLive` |
| `content/recorder.js` and the user | `Capture`, `HearAck`, `Navigate`, `CloseTab` |
| Chrome | `Suspend` (an idle worker), `Kill` (in the middle of an operation), `BrowserRestart` |

Abstractions. Sets of events, since their order is by a sequence number the
recorder gives; one tab and one frame; no session ids, as a new session is
stored only after the last journal is removed; an input or scroll that is not
yet flushed is an event that is tracked and not sent; a screenshot is kept or
not, for any of the reasons the code has (interval, generation, masking); the
1000 events of the journal are out of reach of a session of 200 steps.

Properties. `Consistent` joins the types with what an idle worker leaves
behind: no recorder or window without a session, a recorder for a recording,
and a cancel that stays a cancel and, once done, leaves no screenshot.
`AckedIsKept` and `NothingIsLost` follow an event from the page to the draft.
`WithinLimits` bounds the images of session and draft, and, as long as nothing
failed, the steps of the draft and the time a recorder listens (what a failure
does to these is in Findings).

## ClaimHandoff

One draft, its handoffs, and the pages that claim it. The server is what
`ClaimOnce` promises: an intent by operation, completed at most once, with the
content it was finalized with; a finalize may take effect after its answer
was lost (`LateFinalize`), or after the intent's expiry was answered.

| variable | code |
| --- | --- |
| `draft` | the draft in IndexedDB: its content and `updatedAt` |
| `meta` | `handoff:<id>` in `storage.local`: status, operation, fingerprint, manual |
| `handler` | the external message that is served in the queue of a handoff, and the awaits it is at |
| `snapshot`, `transfer` | worker memory: the prepared draft, the encoded images |
| `doomed` | what the clean-up of an editor has read and has yet to remove |
| `page` | a tab of `/onboarding/claim`: its session entry and its run |
| `claim` | the server's intents |

| code | actions |
| --- | --- |
| `editor/handoff.js` save and prune | `Launch`, `PruneRead`, `PruneRemove` |
| `onboarding-assets.ts` run | `Click`, `ClickBare`, `Recovery`, `BeginRead`/`BeginWrite`, `Status`, `Prepare`, `Intent`, `StartAsset`, `AssetChunk`, `Upload`, `PendingRead`/`PendingWrite`, `Finalize`, `CompletedRead`/`CompletedWrite`, `Expect`, `DeleteDraft`, `CompletedFinish` |
| time, failures, tabs | `Expire`, `ExpireIntent`, `StoreFails`, `WorkerEnds`, `Reload`, `Close`, `Edit` |

`Consistent` holds, besides the types: pages never use an operation of their
own (`CanonicalOperation`), and neither a handoff nor a page says completed
before the server has the manual, of the handoff's own content
(`CompletedIsSaved`). `DeletedDraftIsSaved` is the promise to the user: the
device's copy goes only when the cloud has that very content.

## HandoffLaunch

The same handoff seen from the editor: a blank tab is made, its ready record
is written under the lock of the handoff, the tab is directed, the page
reports to the service worker, and the editor shows the tab. The tasks of a
launch (`Tasks`) interleave; each is in one place of its function. `lock` is
the Web Lock `handoff:ready:<id>`, which the editor and the worker share: a
function from the requests for it to the requests each one waits for, so that
it is held by those that wait for none. `late` are the records whose deadline
has passed.

| code | actions |
| --- | --- |
| `startOutput`, `openHandoffTab` | `StartOutput`, `Find`, `Create`, `Look`, `Locked`, `SetReady`, `Navigate`, `WaitForPageReady`, `WaitEnds`, `Catch` |
| `activateHandoffTab`, the press on "show" | `ReadToShow`, `ShowTab`, `ShowFails`, `MarkActivated`, `PressShow` |
| `cancelHandoffRun`, `updateHandoffActivationPolicy`, clean-up | `Cancel`, `ReadPolicy`, `WritePolicy`, `PolicyFails`, `CleanUp` |
| ready and access-return messages | `PageAsks`, `WorkerReads`, `WorkerWrites`, `WorkerEnds` |

`CancelHolds` joins two action properties: no tab is shown for a launch that
is not the active one, and a record that says cancelled is never overwritten
by a copy read before. `Consistent` has, with the types, that no blank tab is
left when everything is quiet, that only the holder of the lock is between its
read and its write (`LocksHold`), that what it read is still the record
(`RecordKnown`), and which tab each launch knows (`TabKnown`).

Abstractions. The gate dialog is left out. A handoff is named by its output
action; its expiry after fifteen minutes, its pruning, and edits between two
launches are `ClaimHandoff`'s. The lock of the draft is uncontended. The get
and set of the activation mark are one step, as the lock is held over both. A
page does one of report and return at a time. An editor that is closed in the
middle leaves its blank tab, as in the code. `MaxRestores` is 3 in the code.

## DraftEditor

One editor page. `draft` and `title` are what the page shows, `stored` what
IndexedDB has, `queue` is `persistQueue`, `write` the operation it runs with
its base and candidate, `dialog` the image editor. `done` is a history
variable: the steps and images as the same acts make them one after the other.

| code | actions |
| --- | --- |
| handlers of the page | `TypeTitle`, `UpdateStepInstruction`, `AddStep`, `DeleteStep`, `MoveStep`, `ChooseFile`, `NormalizeUploadedImage` |
| the image editor | `OpenImageEditor`, `SaveMasks`, `CancelImageEditor` |
| `persist`, `persistCandidate`, `mergePendingCandidate` | `TurnPlain`, `CopyPlain`, `TurnCandidate`, `CandidateThrows`, `Persisted`, `PersistFails` |

`DraftIsWhatWasDone` is the specification of the three-way merge: the merged
draft is the sequential one, whatever was typed, moved, added or deleted while
the image the image edit was written. `SavedIsStored`: the label "saved" is true once the
queue is empty. `Consistent` has the types, that both drafts are drafts
(`DraftOK`: steps are told apart, a step shows an image that is there,
masks lie on the bitmap they were drawn on, no more images than the limit),
that an upload that is
decoded is of a new image (`UploadsAreNew`), and that the draft differs from
the base of the write under way only by acts whose own write is queued
(`WriteKnown`).

Abstractions. A reload and a second editor tab are left out, the decoding and
the drawing tools are one act each (`OpenImageEditor`, `SaveMasks`), and the
articles of deleted steps are not used in the moment before the next render.
What the model shows as it is in the code: an editor that was disposed of and
whose save ends later closes the dialog that is open then; an upload to a
deleted step's own image shows on a new step that took the image over.

## DraftShare

One manual on D1, its editors' pages (`cloud-manual-assets.ts`), and one
reader. A text is the set of edits it contains, and the k-th version stands for
`updated_at` and `content_version`. A request is at one of its D1 statements.

| code | actions |
| --- | --- |
| `updateDraftWithSteps` | `ReadDraft`, `WriteDraft`, `ReadWritten` |
| `createShare`, `revokeShare` | `LookUp`, `Snapshot`, `PublishLink`; `StopLink`, `LookStopped`; `Respond` |
| the page: edit, save, reconcile, load | `Type`, `SaveManual`, `SaveAnswered`, `CheckSaved`, `ReconcileSaved`, `Reload`, `GetManual`, `ShowManual`, `GetMetadata`, `ShowLoaded`, `LoadFails` |
| the page: share panel | `IssueShare`, `RevokeShare`, `ShareAnswered`, `StopAnswered` |
| `/s/`: resolve, grant, content | `ResolveShare`, `InsertGrant`, `AskContent`, `CheckGrant`, `ReadContent` |
| D1 fails, answers are lost, time passes | `Fail`, `Lose`, `Expire`, `GrantEnds` |

Abstractions. Nothing is typed between the manual's data and its share
metadata. Refusals for a missing login and changes of role are left out, as is
the list before the first load. What the model shows as it is in the code: a
load that is answered during a save leaves the old text shown as saved, with
the new version; a share operation whose answer was lost demands the same
passcode and expiry again and, once expired, blocks sharing that version until
a reload; a retry that races the first request is answered 409 and its token is
gone; `content()` can still answer when a stop commits between its two reads; an
editor's panel does not see another's link; an expired link blocks a new one
until it is stopped.

## ManualLifecycle

One manual on Supabase and pages of its editors. Each database function locks
the row of the manual first, so that a write is one step; what is interleaved
are the router's reads before it, the answers, and the loads of the pages.

| code | actions |
| --- | --- |
| the page: open, load, render, type | `OpenManualList`, `OpenManualDetail`, `Reload`, `FinishLoad`, `RenderAgain`, `Type` |
| the page's requests and `manual-edit-router.ts` | `UpdateDraft`, `CreateStep`, `UpdateStep`, `DeleteStep`, `ReorderSteps`, `PublishManual`, `ArchiveManual`, `CreateDraftFromPublished` |
| the procedures | `UpdateManualDraft`, `AppendManualStep`, `UpdateManualStep`, `SoftDeleteManualStep`, `ReorderManualSteps`, `PublishManualRevision`, `CreateManualDraftFromPublished`, `ReturnExistingDraft`, `ArchiveManualRow`, `Refuse` |
| failures, roles | `LoseCall`, `Revoke` |

`updated_at` is the start of the transaction, so that versions are compared
for equality only, in the model as in the code. `createStep`, `deleteStep` and
`reorder` carry no version of a step; a lost answer that is retried appends a
second step, and a page's own reorder makes its other unsaved step forms
conflict. Properties that were separate are joined: `PublishedIsFinal` (what is
published is what was reviewed, and never changes), `ChangesAreInformed` (no
blind overwrite, no archive of what was not seen, no write after a revocation),
`Consistent` (types, and the pointers of the manual agree with its revisions).

The forms are closed once, when a mutation starts; a page that is rendered anew
while it is under way has open forms (`rerendered`, `TakesInput`): by a reload,
whose button stays open, or by the list of the members that arrives late
(`RenderAgain`). What is typed into them is lost when the mutation's own load
arrives, which brings back only what was captured at its start.
`UnsavedIsKept` is therefore about a page that was not rendered anew (see
Findings). Left out: the form of a new step, which is filled in and sent as one
step. After a conflict during a reload `RenderAgain` shows the page loading
where the code shows the snapshot it had.

## Members

The four database functions as transactions that take their row locks one
after the other (`tx`), one browser tab with the members page and the join
code, and other callers (`Offers`).

| code | actions |
| --- | --- |
| the procedures | `Arrive`, `LockWorkspace`, `UpdateMember`; `LockCode`, `RedeemCode`; `LockUser`, `IssueCode`; `ListMembers`; `BreakDeadlock` |
| the page | `SelectWorkspace`, `ShowList`, `Save`, `AskCode`, `Receive`, `HideCode` |
| the session under it | `ChangeLogin`, `HearChange`, `ReloadSession`, `GetSession`, `LoseSession`, `ShowSession` |
| others, time, losses | `CallElsewhere`, `Tick`, `Lose` |

Reading the model back against the code: a redeem and an issue of one user
lock the user and the code in opposite orders, which PostgreSQL aborts and the
page reports as an unknown result; longer cycles need four calls. `now()` is the
start of the transaction, so that a code that expires while a redeem waits for
its lock is accepted. A login A, B, A while a request for a code is under way
can be served as B and shows B's code. A list load overtaken by a login of the
same user leaves the panel loading. Leaving a workspace and coming back during
a save clears the pending change. The branch of a session load that keeps the
shell on 403 is left out.

## WebSession

Tabs with one cookie jar, one version in local storage, one Web Lock and a
channel. `call[t][s]` is a request with the cookies it was sent with, its
stage (first attempt, waiting for the lock, refresh, last attempt) and its
answer. The one changing call is the creation of a workspace, whose unknown
result locks the form.

| code | actions |
| --- | --- |
| the Worker's session routes | `GetSession`, `CreateWorkspace`, `CreateLate`, `RefreshSession`, `Login`, `Logout` |
| the page's request with refresh | `TryAgain`, `Refresh`, `SendLast` |
| session, login, logout | `Reload`, `LoadSession`, `AuthenticationChanged`, `StartLogin`, `SendLogin`, `LoggedIn`, `StartLogout`, `SendLogout`, `LoggedOut`, `ReloadPage` |
| creation and its check | `StartCreate`, `Created`, `CheckCreated`, `CreateUnknown`, `CreateRefused` |
| time and failures | `Expire`, `EndLogin`, `Lose` |

An answer's Set-Cookie and its handler are one step. A first attempt that is
sent before another tab's announcement arrives goes out under the new login;
only attempts after a refresh are bound to the user (`RetryIsSameUser`). An
announcement is dropped when a later logout advanced the version and then
failed: the screen is stale until a reload. `ScreensAgree` therefore leaves out
tabs that loaded while their own logout was under way (`crossed`), which the
code does not handle. The mode with Cloudflare Access is not modelled.

`unseen` is the history of a tab: its creations that no answer and no list has
shown. `forgotten` are those the tab let go before: all of them when it logs
out, finds the session lost or shows another user (`replaceCurrentSession`), and
any other when one that was forgotten so turns out to be unknown and is
remembered again (`Recalls`). `OneUnknownCreation` leaves these out, because the
code does not keep the user of such a tab from a second workspace, even when the
same user comes back (see Findings). It is about lost and late answers,
overtaken lists, pages that are loaded anew and logins that another tab
changes. A logout whose revocation failed (`LOGOUT_REVOKE_FAILED`) removes the
cookies and is announced like any other, and leaves the login open at the
service (`Logout`).

`Consistent` says why the properties hold: the cookies have the refresh token
of the login, or the next one is on its way to the call that holds the lock
(`LoginsAgree`); that call was sent with the cookies there are
(`HolderKnows`); a creation that is still of its version is of the same user
(`CreationKnows`); while nothing has failed, a tab shows the login or is to be
told (`ScreensKnow`); the form remembers the creation nobody has seen
(`FormKnows`).

## Workspaces

The tables of `migrations/0001` to `0003` and the calls that change them. A
batch of D1 is a transaction, so that it is one step; what its statements find
is decided by their guards, by unique indexes and by triggers, and the step has
one disjunct per outcome. `bootstrap` and `getOrCreatePersonalWorkspace` read
before and after their batch: these calls have a `call[c].pc` for each await,
and any two interleave. Of any other operation only its one batch or last read
matters.

| code | actions |
| --- | --- |
| `bootstrapOnboarding`, `bootstrap` | `StartBootstrap`, `Check`, `Bootstrap`, `ReadSaved`, `Recheck` |
| `getOrCreatePersonalWorkspace` | `StartPersonal`, `FindPersonal`, `GetOrCreatePersonalWorkspace`, `RefindPersonal` |
| `cloudManualPage` | `GetPersonalWorkspace` |
| `createWorkspace`, `issueJoinCode`, `consumeJoinCode`, `updateMember` | the actions of these names |
| a statement that throws, a committed batch whose answer is lost | `Fault`, `Lost` |
| operators, who work on the tables directly; time | `Provision`, `Disable`, `Enable`, `SetStatus`; `Expire` |

`consumeJoinCode`, `updateMember` and `getOrCreatePersonalWorkspace` are part
of the repository and its tests, and no route calls them yet. `Insert` is the
part that the three batches which make a workspace share. `madeBy` and `told`
are history: who inserted the identity, and the first personal workspace a
person was answered.

Abstractions: an operation, a code and a workspace id are values that are drawn
once; times are left out, but for whether a code has expired; the rate limiter
and the verification of the token come before `StartBootstrap`. The identity
that a route reads first and the identity that its statement asks for are read
in one step (`ApplicationUser` and `Active`): what lies between can only make
the statement refuse. `CreateWorkspace` keeps ids for personal workspaces, which
is a bound.

Properties. `SignupOnce`: a signup is recorded exactly once for who came by a
bootstrap, and never for who was provisioned. `AnswersConverge`: every path that
answers with a personal workspace names the same one for ever, and an operation
is answered as its row says. `Consistent` holds what the tables owe each other.
A trigger keeps the last active owner of a workspace and personal workspaces
have one owner, so that an identity with a workspace cannot be disabled.

## Runs

Numbers of states are those TLC reports with the symmetry of the
configuration. Symmetric sets are only compared for equality; runs with
liveness have no symmetry.

| run | configuration | instance | states |
| --- | --- | --- | --- |
| `cloud_claim` | `MCCloudClaim.cfg` | 2 handlers, 1 slot, 2 images | 82 059 |
| `capture_session` | `MCCaptureSession.cfg` | 2 events, 2 steps, 1 image, every kind of failure, 1 of them | 3 104 866 |
| `capture_limits` | `MCCaptureSessionLimits.cfg` | 2 events, 1 step, 1 image, 1 failure that is final, fairness | 687 272 |
| `claim_handoff` | `MCClaimHandoff.cfg` | 1 handoff, 2 pages, 1 editor, 2 contents, 1 failure | 2 037 705 |
| `handoff_launch` | `MCHandoffLaunch.cfg` | 1 output action, 2 launches, 1 failure, fairness | 359 266 |
| `draft_editor` | `MCDraftEditor.cfg` | 2 images, 4 acts, 1 failure | 1 294 477 |
| `draft_share` | `MCDraftShare.cfg` | 2 people of whom one types, 2 requests, 3 acts, 1 input, 2 shares, 1 failure | 2 298 418 |
| `draft_lost_edit` | `MCDraftShareNoLostEdit.cfg` | 2 people, 5 acts, 1 input, no failure | violated |
| `manual_lifecycle` | `MCManualLifecycle.cfg` | 2 pages, 3 revisions, 2 steps, 3 writes, 1 form, 1 slow load, 1 failure | 220 555 |
| `members` | `MCMembers.cfg` | 4 users, 2 workspaces, 2 calls, 3 steps, 1 login, 1 loss | 1 256 055 |
| `web_session` | `MCWebSession.cfg` | 2 users, 2 tabs, 3 steps, 2 logins, 1 renewal, 2 creations | 482 732 |
| `workspaces` | `MCWorkspaces.cfg` | 2 people, 3 workspaces, 2 operations, 2 codes, 2 calls, 3 changes, 1 failure | 428 284 |

What they show, and why the bounds are enough.

- `cloud_claim`: whatever two requests of any kind do to each other on a slot,
  with two images and so two digests and up to three payloads competing for
  it, and whatever fails, the safety properties of the claim server hold, and
  it implements `ClaimOnce`. Every conflict in the code is between the request
  itself and one that changed its slot or its intent, so two requests at once
  are enough for each of them; any number may follow one another. Claims of
  several slots are covered by the proofs. The sum of bytes over two slots
  (`BytesWithinLimit`) holds with two slots, one image of size 2 and limit 3
  (121 722 states); it is not a run of its own.
- `capture_session`: one failure of any kind leads into each error path of
  each operation, and after it any further commands are given, so an error
  path is followed by every other operation. Two events are needed for a merge
  to have something to lose and something to keep.
- `capture_limits`: two events for one step reach the limit on each path, by
  the event itself, by a merge of retained events and by a finish, in the one
  mode that changes the window. The failures are those whose outcome is known
  (a rejected call that did or did not happen, a closed tab). `CancelEnds` is
  liveness, see Fairness.
- `claim_handoff`: two pages of one handoff race over one draft that is edited
  once, to a content that may be claimed or not, with one failure, one expiry
  and one return from a login; two pages are what a duplicated tab makes.
- `handoff_launch`: a launch and its successor of the same handoff, which is
  where their records and locks meet, with one failure.
- `draft_editor`: four acts are an image edit, an act that changes the draft
  while it is written, an act that depends on that one, and one more.
- `draft_share`: two people, one of whom types, two requests at a time, two share operations, one
  failure or lost answer; three acts are a save, a share and a stop, or a share,
  its retry and a stop. `draft_lost_edit`: see Findings.
- `manual_lifecycle`: two pages; three writes are a publication, a next draft
  and an edit, or two edits and a publication; one form, one load that is slow
  enough for others to overtake it, and one lost answer.
- `members`: two workspaces whose owners are administrators of the other, two
  calls at a time, three steps; offers contain a demotion in each direction,
  redeems of one code in two workspaces, and a code that is made anew.
- `web_session`: two tabs, two users, two logins, one renewal and two
  creations, three acts or failures. The run also begins with a creation whose
  answer was lost, which counts as one act, and a further creation of its tab
  is not counted: so a logout and a login, of this tab or of the other, lie
  between an unknown creation and the attempt to make a second one.
  `Recalls` with two unknown creations takes more acts: one tab with six acts,
  three logins and two creations (17 282 295 states), and with five acts and three
  creations, satisfies the same properties; these are not runs of their own.
- `workspaces`: two bootstraps of one person or a bootstrap and a call for the
  personal workspace race, one of them fails or loses its answer and is sent
  again; the other person makes a workspace and lets the first one in. Three
  changes are a code, its use and the removal of the member, or an identity that
  an operator makes, disables and enables.

Fairness. Two specifications assume any. `LiveSpec` of `CaptureSession`:
`WF_vars(Step)`, the browser answers every call of an operation, with a result
or a rejection, and a promise that is settled continues; it does not say that
calls succeed, and the bound on failures is what makes a repeated cancel
succeed once. `SF_vars(Cancel)`: the user, who sees that the session is still
there, cancels again whenever it is possible; the code has no timer that would
do so. Fairness is on the disjunction of the steps, since only one operation
runs at a time. It is assumed neither of the page nor of `Suspend`. `Spec` of
`HandoffLaunch`: the calls of the editor and of the service worker are
answered, and the timer of the deadline fires; nobody has to press a button
and no page has to report. The other specifications have safety only.

## Findings

`draft_lost_edit` is a run that TLC finds violated:
`docs/09-delivery/cloud-save-c-slice.md:38` says that a draft is updated by
compare-and-swap on `expectedUpdatedAt` and that a conflict is answered 409.
`updateDraftWithSteps` reads the version for its answer after its batch has
committed (`cloud-manual-repository.ts:479`). When another editor has loaded
the new version and saved theirs in between, the answer names theirs; the page
adopts it (`cloud-manual-assets.ts:191`), the reading that should confirm the
save does not match and leaves the input in the editor, and the next save names
the other's version and replaces it without a conflict.

The following were met while modelling. They are disagreements with documents
or limits that the models contain as they are in the code, at the place named.

- Two uploads of one image to a slot: the one that loses the race to insert the
  row is answered 409 (cloud-manual-repository.ts:283; the API document says
  that it converges). A finalize sent again while the first commits is answered
  409 instead of the same manual (cloud-manual-router.ts:417). A finalize that
  began before the deadline completes after another request was answered 410
  (cloud-manual-router.ts:430).
- A draft that was edited while a handoff of its former fingerprint is pending
  is answered DRAFT_CHANGED for good (cloud-claim.js:338;
  decision-log.md:373). A clean-up that read the entry when it had expired
  removes it after it became pending (the disjunct `doomed` of
  `PendingIsKept`). A page that probes for a recovery and was loaded with its
  fragment is refused. An expired handoff is still answered
  (editor/handoff.js:117).
- A capture whose session cannot be removed at the finish goes on, and the next
  finish keeps the first draft without the events in between. A finish writes
  to the journal the batch it drained, with the events the step limit has just
  refused (service-worker.js:382), although
  `docs/05-api/api-contracts.md:208` says that these are added to neither
  session nor journal; after a later failure the next finish reads them back,
  and the draft has more steps than the limit. A resume whose merge reaches the
  limit sets the phase back to recording (service-worker.js:630), and a worker
  killed between the two writes that mark a limit leaves the recorder listening
  too: each until the next event. With two failures: a cancel intent that is only in the
  journal is removed before the session (service-worker.js:87-96), and one that
  is only in the session is overwritten by a restoration
  (service-worker.js:466-481).
- `docs/09-delivery/decision-log.md:57` (DEC-043) says
  「同一ユーザーの再ログインでは選択と結果不明ロックを維持する」, and
  `docs/05-api/api-contracts.md:44` that the lock is released
  「確定失敗時だけ」. `replaceCurrentSession(null)` (app-assets.ts:1054-1073)
  removes the lock from memory and session storage at a logout and at a lost
  session, whoever logs in next: a user whose creation is unknown, or whose POST
  is still on its way, logs out and in and makes a second workspace.
  (TLC finds `OneUnknownCreation` violated after a logout when `forgotten` is
  not left out.)
- The unknown result of a creation that was asked for under an earlier login of
  the same user is remembered in place of a later creation's, whose result is
  then forgotten although it may be unknown as well (app-assets.ts:3783 compares
  users only): the user is not kept from a third workspace.
- `docs/02-ux/phase2-manual-editor-ui.md:30` says that while one form is saved
  the unsaved changes of the others are kept in the memory of the tab
  (「1フォームの保存中も他フォームの未保存変更は現在タブのメモリで保持し」).
  Forms are closed to input only once, when the mutation starts
  (app-assets.ts:2389-2418); a reload, whose button stays open
  (app-assets.ts:2766), renders them anew and open, and the load that ends the
  mutation restores what was captured at its start (app-assets.ts:2884, 3103):
  what was typed in between is lost. A list of members that arrives late renders
  the page anew without its input (app-assets.ts:2004).
- An old session is shown until the check that a login changed
  (app-assets.ts:3880), a settled change of a member whose list cannot be read
  is not reconciled (app-assets.ts:2215), and what is typed while a save is
  under way is marked saved only by the next one (cloud-manual-assets.ts:260).

## Proofs

`CloudClaimProofs` proves `Spec => []IInv` (`Consistent`) and from it
`TypeCorrect`, `OneManual`, `CompletedIsWhole`, `ClaimedIsTrue`,
`StagedIsTrue` and `StoresAgree`, for any set of requests, any number of
slots, any images and texts. `InactiveOwnerWritesNothing` follows from the
actions alone and `Forward` from the invariant and the actions.
`Implements` is the refinement, `Spec => ImplementsClaimOnce`.

The assumptions are those of the modules: bounds are natural numbers, and null
values are not members of the sets they stand beside. They are evaluated by
every run.

The argument for `CloudClaim`. A step that writes a store *advances* it: a row
keeps its image and its status rises, an object stays, a completed intent stays
(`Advance`). What a request knows is stable under every advance of another
request (`KnowledgeIsStable`); so each write is one lemma about the stores and
the writer's own new knowledge (`WriteStep`), and each read or answer is one
about the request's knowledge alone (`OnlyCall`, `Move`, `PlainAnswer`,
`StagedAnswer`, `ClaimedAnswer`). That a completed claim is whole rests on
`ManifestIsWhole`: rows exist only for slots below the count of the intent, so
a manifest with as many held slots as the count has all of them; the code
compares only the number. For the refinement, a step that makes no manual
changes the answer of one request, and by the invariant "claimed" is about
the manual that there is (`OneCall`); the batch is `Save` (`CommitOnce`).

The argument for `ClaimHandoff` (`ClaimHandoffProofs`, inductive invariant
`Inv`). Nothing in the state says what a handoff was opened for once its entry
is removed and its page is gone, and yet a message on its way may still bring
it up; so `Inv` says that there is a content `f[h]` for every handoff with which all
that is known of it agrees (`Held`). A page's run has the operation that the
extension gave it, or none, and is past each await only with what that await
returned (`RunsOK`); a stored entry is of the handoff's operation and content
(`MetasOK`); a claim is made under that operation, and completed with that
content (`ClaimsOK`). A message reads an entry and writes it an await later:
in between only a clean-up has changed it (`MessagesOK`), because the messages
of a handoff are queued, so what is written follows from what was read. A
clean-up may remove only what it has read: an entry that was new, and has
perhaps been claimed since, or one that was completed and is written no more
(`AllDoomedOK`); `PendingIsKept` says that it is the one exception. The lemmas
on runs are about any sets of handoffs that are saved, opened and identified,
so that they are used of the state before a step and after it.

The argument for `DraftShare` (`DraftShareProofs`, `Spec => []Consistent`). Its
four properties are not inductive: the reader's text is right because the
link's is, the link's because the request that published it drafted the text
of the version it names, and a page that is shown as saved is right because
its request and it agree on the snapshot until the answer. `Consistent` adds
what each party knows: a request of its draft (`DraftedInv`), a link of its
version (`LinksInv`), a reader of the link (`ViewerInv`), a save of the page
that waits for it, and that no other save is of that page (`SavesInv`), a
page of its load (`PagesInv`). Typing comes first, by one lemma per group of
actions (`ServerType`, `PageType`, `PersonType`, `AnswerType`, ...). Then
`Growth`: no step changes a version or the text of a link, or takes back a stop
or the end of a link, so that what a party knows stays true while others act.
What is left is each actor's own step: `DatabaseStep` names the three that
write, and `OneCallSaves`, `OnePageSaves` and `CallAndPageSaves` are the rules
for a step of one request, of one page, and of both.
`SaveReplacesNamed`, a conjunct of `Consistent`, is where the comparison inside
the batch is needed.

The argument for `ManualLifecycle` (`ManualLifecycleProofs`). `Consistent` is
itself inductive. The procedures come first: each keeps the row and its
revisions sound, and gives whatever text it changes a later version
(`OnlyNew`). So a version that a page or a request remembers still stands for
the text it was told with (`TellsStays`), whatever others write. A page is then
taken alone: its own step keeps what it says of itself, and the step of
another is one of the server that `LocalStays` covers. `PublishedIsFinal`,
`ChangesAreInformed` and `UnsavedIsKept` are action properties that
follow from the invariant and the actions. A load gives a form again what was
captured when the save started; on a page that was not rendered anew that is
still the input (`RequestOK` and `LoadOK`: `~pg.rerendered => Others(pg, fs)
\subseteq ...`), because its forms are closed. What is reviewed is what is
published because the request carries the version of what the page showed,
and the procedure compares it under the lock of the row.

The argument for `Members` (`MembersProofs`). `TableIsSound` splits in a part
of the database (`Server`: who holds which row lock, and that a call that has
read under its lock still reads the same), one of the page (`Client`) and the
counters. Each step of a procedure is a lemma that names the tables it writes,
and each step of the tab one that says which of its places it touches
(`TabStepSound`); the rest keeps its part by the `Kept` lemmas. That only a
manager changes members needs the lock order: the workspace's row is locked
before the actor's role is read, and is held until the commit.

The argument for `HandoffLaunch` (`HandoffLaunchProofs`). The holder of the
lock is alone, because a request waits for every earlier one (`Alone`). The
step of one task keeps what the others know, so the copy of the record that
the holder read is the record until it writes (`RecordKnown`); a copy that does
not say cancelled is therefore written only over a record that does not. A tab
is shown only by the attempt that is active, which `TabKnown` ties to its tab.

The argument for `DraftEditor` (`DraftEditorProofs`, inductive invariant
`IInv`). An act of the user is applied to the draft and to the history at
once, so only the merge is in question. `WriteKnown` says what the draft is
when it comes: the base of the write with acts that only type, move, add,
delete or upload, never with another image edit, because these queue. From it,
`MergeIs` shows the three outcomes there are: the candidate as it is, the new
picture joined to its step in the draft of now, or, if that step or picture is
gone, the draft of now. Each is what the sequential history says. Every act
keeps the draft a draft by one lemma per handler (`PageKeeps`).

The argument for `Workspaces` (`WorkspacesProofs`). The three properties of
the run are inductive together. `InsertKeeps` says once what the insertion of a
workspace keeps, for the three batches that make one: the guards of the batch
are what the unique indexes ask for. `WritesKeep` is about the other half of
the bootstrap: an operation is marked as the first one exactly when the batch
inserts the identity, and an operation of somebody without an identity cannot
be there, so that a repeated bootstrap neither signs up again nor takes the mark
from the first. `AnswersConverge` needs only that a workspace keeps its kind and
owner (`SpacesStay`), and that a person has one personal workspace
(`SilentKeeps`, `SaysKeeps`).

In all of these the theorems hold for any number of people, pages, calls,
workspaces, steps and images; the bounds in the guards (`MaxFaults` and the
like) are natural numbers of any size.

Only model-checked: liveness (`LaunchEnds`, `CancelEnds`), which is out of
reach of the provers at hand; `CaptureSession` and `WebSession`, whose
invariants are not proved yet; `BytesWithinLimit`, whose sum over slots is a
fold and needs an induction that the provers cannot be given; and of course
the violation.

## Not modelled, and why

- Of identities and workspaces on D1: profiles, the list of members, the rate
  limiter of the bootstrap, and the limit of 1000 workspaces in a list.
- The extension's popup and side panel only send the commands that
  `CaptureSession` models and show its status.
- Screenshot masking is geometry on one page. The capture API is a stateless
  conversion. Token verification is done by a library, and the models take an
  authenticated actor as given. The object storage port is used by no route.
- The Discord and GitHub bridge of `index.ts`: its path is one of
  `DISABLED_CALLBACK_PATHS` and is answered 503 before anything else. The
  repository's scripts run in CI.
- Of the modelled components: the parsing and validation of bodies, the contents
  of events and the timing with which the recorder flushes inputs and scrolls;
  the byte budget and the lifetime of transfers in `cloud-claim.js`; the
  generations of screenshots; drawing and rendering; the layout of pages.
