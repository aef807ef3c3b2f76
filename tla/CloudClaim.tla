----------------------------- MODULE CloudClaim -----------------------------
(***************************************************************************)
(* The server side of a guest claim: the Worker routes that create a claim *)
(* intent, stage its images in R2 and finalize it into a manual in D1      *)
(* (apps/worker/src/cloud-manual-router.ts, infra/d1/cloud-manual-         *)
(* repository.ts, migrations/0004).                                        *)
(*                                                                         *)
(* The module follows ONE claim operation of one actor: claim_intents is   *)
(* unique on (actor, operation_id), and every other row and object key of  *)
(* the operation is derived from that intent's id.  Handlers is the set of *)
(* requests the Worker may be serving at once; each await of D1 or R2 in   *)
(* the source is a step of its own here, so any two requests interleave    *)
(* between them.  A handler that has answered is free for a new request,   *)
(* so the number of requests is unbounded.                                 *)
(***************************************************************************)
EXTENDS Integers, Sequences, FiniteSetsExt

CONSTANTS Handlers,    \* requests served at once
          MaxSlots,    \* asset slots of an operation (MAX_ASSETS)
          Images,      \* image contents, told apart by their SHA-256
          Size,        \* Size[i]: byte length of image i
          TotalLimit,  \* claim_asset_total_limit_insert
          Texts,       \* title, description and steps of the manual
          NoImage, NoText

ASSUME MaxSlotsAssumption == MaxSlots \in Nat
ASSUME NullsAssumption == NoImage \notin Images /\ NoText \notin Texts
ASSUME SizeAssumption == Size \in [Images -> Nat] /\ TotalLimit \in Nat

Slots == 0..(MaxSlots - 1)

\* The body of a finalize request, which its fingerprint identifies: the
\* manual's text and the manifest of the images it refers to.
Payloads == [text: Texts, images: [Slots -> Images \cup {NoImage}]]
NoPayload == [text |-> NoText, images |-> [s \in Slots |-> NoImage]]
Manifest(p) == {s \in Slots : p.images[s] # NoImage}

VARIABLES intent,    \* the row of claim_intents
          expired,   \* its expires_at has passed
          owner,     \* actor, workspace and owner membership are all active
          asset,     \* the rows of claim_assets, by slot
          object,    \* R2: the image stored under a slot's object key
          latePuts,  \* R2 puts that failed for the caller and may still land
          manuals,   \* the manuals created for this operation
          call       \* what each handler is doing

vars == <<intent, expired, owner, asset, object, latePuts, manuals, call>>
stores == <<intent, asset, object, latePuts, manuals>>

RowStatus == {"none", "reserved", "staged", "completed"}
CreateSteps == {"create_insert", "create_read", "create_raced"}
UploadSteps == {"find_row", "head_found", "record_found", "reserve",
                "reserve_reread", "head_reserved", "put", "head_failed",
                "verify", "record", "reread", "reread_found"}
FinalizeSteps == {"rows", "heads", "commit", "finalize_reread"}
Steps == {"idle", "done"} \cup CreateSteps \cup UploadSteps \cup FinalizeSteps
Replies == {"none", "created", "staged", "claimed", "completed", "pending",
            "expired", "conflict", "reconcile", "refused", "not_found",
            "forbidden", "already_completed", "limit", "unknown"}

Kinds == {"none", "create", "upload", "finalize", "status"}

CallRecords ==
  [pc: Steps, kind: Kinds, count: 0..MaxSlots, slot: Slots \cup {-1},
   image: Images \cup {NoImage}, seen: RowStatus,
   payload: Payloads \cup {NoPayload}, late: BOOLEAN,
   reply: Replies, manual: Nat]

TypeOK ==
  /\ intent \in [status: {"none", "pending", "completed"}, count: 0..MaxSlots,
                 fingerprint: Payloads \cup {NoPayload}, manual: Nat]
  /\ expired \in BOOLEAN
  /\ owner \in BOOLEAN
  /\ asset \in [Slots -> [status: RowStatus, image: Images \cup {NoImage}]]
  /\ object \in [Slots -> Images \cup {NoImage}]
  /\ latePuts \in SUBSET (Slots \X Images)
  /\ manuals \in Seq(Payloads)
  /\ call \in [Handlers -> CallRecords]

NoRow == [status |-> "none", image |-> NoImage]
IdleCall == [pc |-> "idle", kind |-> "none", count |-> 0, slot |-> -1,
             image |-> NoImage, seen |-> "none", payload |-> NoPayload,
             late |-> FALSE, reply |-> "none", manual |-> 0]

Init ==
  /\ intent = [status |-> "none", count |-> 0, fingerprint |-> NoPayload, manual |-> 0]
  /\ expired = FALSE
  /\ owner = TRUE
  /\ asset = [s \in Slots |-> NoRow]
  /\ object = [s \in Slots |-> NoImage]
  /\ latePuts = {}
  /\ manuals = <<>>
  /\ call = [h \in Handlers |-> IdleCall]

-----------------------------------------------------------------------------
\* Every query on claim_intents and claim_assets joins the active identity,
\* workspace and owner membership, so a deactivated owner sees no rows.
IntentVisible == owner /\ intent.status # "none"
RowVisible(s) == owner /\ asset[s].status # "none"

Free(h) == call[h].pc \in {"idle", "done"}
Accept(h, request) == call' = [call EXCEPT ![h] = request]
Goto(h, pc) == call' = [call EXCEPT ![h].pc = pc]
Answer(h, reply) == call' = [call EXCEPT ![h].pc = "done", ![h].reply = reply]
AnswerManual(h, reply, m) ==
  call' = [call EXCEPT ![h].pc = "done", ![h].reply = reply, ![h].manual = m]
Serving(h, pc) == call[h].pc = pc

NewCall(kind) == [IdleCall EXCEPT !.kind = kind]
Answered(request, reply) == [request EXCEPT !.pc = "done", !.reply = reply]

-----------------------------------------------------------------------------
(***************************************************************************)
(* POST /api/onboarding/claim-intents: createClaimIntent.                  *)
(***************************************************************************)

\* The counts a create request is let in with.
AssetCounts == 0..MaxSlots

\* The read of an existing intent for the operation.
ReceiveCreate(h, n) ==
  /\ Free(h)
  /\ LET request == [NewCall("create") EXCEPT !.count = n]
     IN Accept(h, IF ~IntentVisible THEN [request EXCEPT !.pc = "create_insert"]
                  ELSE IF intent.count = n THEN Answered(request, "created")
                  ELSE Answered(request, "conflict"))
  /\ UNCHANGED <<stores, expired, owner>>

\* INSERT ... SELECT from the active personal workspace: no row for an
\* inactive owner, a UNIQUE violation when a concurrent request was first.
InsertIntent(h) ==
  /\ Serving(h, "create_insert")
  /\ \/ /\ ~owner
        /\ Answer(h, "forbidden")
        /\ UNCHANGED intent
     \/ /\ owner
        /\ intent.status # "none"
        /\ Goto(h, "create_raced")
        /\ UNCHANGED intent
     \/ /\ owner
        /\ intent.status = "none"
        /\ intent' = [intent EXCEPT !.status = "pending", !.count = call[h].count]
        /\ Goto(h, "create_read") \/ Answer(h, "unknown")
  /\ UNCHANGED <<asset, object, latePuts, manuals, expired, owner>>

\* The read that follows an insert, and the one that follows a lost race.
ReadIntent(h) ==
  /\ \/ /\ Serving(h, "create_read")
        /\ Answer(h, IF IntentVisible THEN "created" ELSE "unknown")
     \/ /\ Serving(h, "create_raced")
        /\ Answer(h, IF IntentVisible /\ intent.count = call[h].count
                     THEN "created" ELSE "conflict")
  /\ UNCHANGED <<stores, expired, owner>>

-----------------------------------------------------------------------------
(***************************************************************************)
(* PUT .../claim-intents/{id}/assets/{slot}: stagedAssetRoute.             *)
(***************************************************************************)

\* Bytes reserved or stored for this intent, as claim_asset_total_limit sums.
ReservedBytes ==
  MapThenSumSet(LAMBDA s : Size[asset[s].image],
                {s \in Slots : asset[s].status # "none"})

\* The total limit an insert is checked against.
FitsLimit(i) == ReservedBytes + Size[i] <= TotalLimit

\* getClaimIntent and the checks on it; the body is read and hashed after.
ReceiveUpload(h, s, i) ==
  /\ Free(h)
  /\ LET request == [NewCall("upload") EXCEPT !.slot = s, !.image = i]
     IN Accept(h, IF ~IntentVisible THEN Answered(request, "not_found")
                  ELSE IF intent.status = "completed"
                       THEN Answered(request, "already_completed")
                  ELSE IF expired THEN Answered(request, "expired")
                  ELSE IF s >= intent.count THEN Answered(request, "refused")
                  ELSE [request EXCEPT !.pc = "find_row"])
  /\ UNCHANGED <<stores, expired, owner>>

\* The comparison of a request with the row of its slot.
SameRow(row, i) == row.image = i

\* The comparison of a request with a HEAD of its object key.
NoMismatch(s, i) == object[s] \in {i, NoImage}
HeadMatches(s, i) == object[s] = i

\* Whether a row that was found with its object in place is still to be
\* recorded as staged.
NeedsRecord(h) == call[h].seen = "reserved"

\* getStagedAsset: a row for the slot pins the digest every retry must have.
FindRow(h) ==
  /\ Serving(h, "find_row")
  /\ LET row == asset[call[h].slot]
     IN \/ /\ ~RowVisible(call[h].slot)
           /\ Goto(h, "reserve")
        \/ /\ RowVisible(call[h].slot)
           /\ ~SameRow(row, call[h].image)
           /\ Answer(h, "conflict")
        \/ /\ RowVisible(call[h].slot)
           /\ SameRow(row, call[h].image)
           /\ call' = [call EXCEPT ![h].pc = "head_found", ![h].seen = row.status]
  /\ UNCHANGED <<stores, expired, owner>>

\* HEAD of the key of a row found: present and equal, present and different,
\* or absent, which only a row that was still reserved may be.
HeadFound(h) ==
  /\ Serving(h, "head_found")
  /\ LET head == object[call[h].slot]
     IN \/ /\ head = call[h].image
           /\ IF NeedsRecord(h) THEN Goto(h, "record_found") ELSE Answer(h, "staged")
        \/ /\ head \notin {call[h].image, NoImage}
           /\ Answer(h, "reconcile")
        \/ /\ head = NoImage
           /\ IF call[h].seen = "reserved" THEN Goto(h, "put")
                                           ELSE Answer(h, "reconcile")
  /\ UNCHANGED <<stores, expired, owner>>

\* reserveStagedAsset: BEFORE INSERT triggers, then the UNIQUE slot.  Nothing
\* is selected once the intent is not pending or the owner not active.
Reserve(h) ==
  /\ Serving(h, "reserve")
  /\ LET s == call[h].slot
         i == call[h].image
     IN \/ /\ ~owner \/ intent.status # "pending"
           /\ Goto(h, "reserve_reread")
           /\ UNCHANGED asset
        \/ /\ owner
           /\ intent.status = "pending"
           /\ ~FitsLimit(i)
           /\ Answer(h, "limit")
           /\ UNCHANGED asset
        \/ /\ owner
           /\ intent.status = "pending"
           /\ FitsLimit(i)
           /\ asset[s].status # "none"
           /\ Answer(h, "conflict")
           /\ UNCHANGED asset
        \/ /\ owner
           /\ intent.status = "pending"
           /\ FitsLimit(i)
           /\ asset[s].status = "none"
           /\ asset' = [asset EXCEPT ![s] = [status |-> "reserved", image |-> i]]
           /\ Goto(h, "put") \/ Answer(h, "unknown")
  /\ UNCHANGED <<intent, object, latePuts, manuals, expired, owner>>

\* The row another request left, when the insert selected nothing.
ReserveReread(h) ==
  /\ Serving(h, "reserve_reread")
  /\ LET row == asset[call[h].slot]
     IN \/ /\ ~RowVisible(call[h].slot) \/ ~SameRow(row, call[h].image)
           /\ Answer(h, "conflict")
        \/ /\ RowVisible(call[h].slot)
           /\ SameRow(row, call[h].image)
           /\ Goto(h, IF row.status = "reserved" THEN "put" ELSE "head_reserved")
  /\ UNCHANGED <<stores, expired, owner>>

\* HEAD of the key of a row that the reservation found staged already.
HeadReserved(h) ==
  /\ Serving(h, "head_reserved")
  /\ Answer(h, IF HeadMatches(call[h].slot, call[h].image) THEN "staged"
                                                           ELSE "reconcile")
  /\ UNCHANGED <<stores, expired, owner>>

\* The conditional R2 put (onlyIf etagDoesNotMatch "*") never overwrites.
Stored(s, i) ==
  object' = IF object[s] = NoImage THEN [object EXCEPT ![s] = i] ELSE object

\* The put stores the image, or throws: having stored it, having done
\* nothing, or leaving a write that lands later.
PutObject(h) ==
  /\ Serving(h, "put")
  /\ LET s == call[h].slot
         i == call[h].image
     IN \/ /\ Stored(s, i)
           /\ Goto(h, "verify") \/ Goto(h, "head_failed")
           /\ UNCHANGED latePuts
        \/ /\ latePuts' \in {latePuts, latePuts \cup {<<s, i>>}}
           /\ Goto(h, "head_failed")
           /\ UNCHANGED object
  /\ UNCHANGED <<intent, asset, manuals, expired, owner>>

\* A put the caller saw fail takes effect.
LatePut(s, i) ==
  /\ <<s, i>> \in latePuts
  /\ Stored(s, i)
  /\ latePuts' = latePuts \ {<<s, i>>}
  /\ UNCHANGED <<intent, asset, manuals, expired, owner, call>>

\* HEAD after a put that threw, and the HEAD every put is verified by.
HeadAfterPut(h) ==
  /\ LET matches == HeadMatches(call[h].slot, call[h].image)
     IN \/ /\ Serving(h, "head_failed")
           /\ IF matches THEN Goto(h, "verify") ELSE Answer(h, "unknown")
        \/ /\ Serving(h, "verify")
           /\ IF matches THEN Goto(h, "record") ELSE Answer(h, "reconcile")
  /\ UNCHANGED <<stores, expired, owner>>

\* The rows recordStagedAsset updates.
Stageable(s) == asset[s].status = "reserved"

\* recordStagedAsset: reserved becomes staged.  A row that is not reserved
\* any more is read back, and a deactivated owner reads nothing: the route
\* answers a conflict on the path that found the row, and "result unknown" on
\* the path that put the object.
RecordStaged(h) ==
  /\ Serving(h, "record") \/ Serving(h, "record_found")
  /\ LET s == call[h].slot
     IN \/ /\ owner
           /\ Stageable(s)
           /\ asset' = [asset EXCEPT ![s].status = "staged"]
           /\ Answer(h, "staged") \/ Answer(h, "unknown")
        \/ /\ owner
           /\ ~Stageable(s)
           /\ Goto(h, IF Serving(h, "record") THEN "reread" ELSE "reread_found")
           /\ UNCHANGED asset
        \/ /\ ~owner
           /\ Answer(h, IF Serving(h, "record") THEN "unknown" ELSE "conflict")
           /\ UNCHANGED asset
  /\ UNCHANGED <<intent, object, latePuts, manuals, expired, owner>>

\* The read back of recordStagedAsset.
RereadRow(h) ==
  /\ Serving(h, "reread") \/ Serving(h, "reread_found")
  /\ Answer(h, IF RowVisible(call[h].slot) THEN "staged"
               ELSE IF Serving(h, "reread") THEN "unknown" ELSE "conflict")
  /\ UNCHANGED <<stores, expired, owner>>

-----------------------------------------------------------------------------
(***************************************************************************)
(* POST /api/onboarding/claims/{id}: finalizeRoute and finalizeClaim.      *)
(***************************************************************************)

\* The claim is completed, with this payload.
Completed(p) == intent.status = "completed"
SavedFor(p) == intent.status = "completed" /\ intent.fingerprint = p

\* The manifest has as many slots as the intent was created for.
CoversCount(p) == Cardinality(Manifest(p)) = intent.count

\* getClaimIntent first: a completed claim answers its saved result, whatever
\* the time, to the payload it was completed with and to no other.
ReceiveFinalize(h, p) ==
  /\ Free(h)
  /\ LET request == [NewCall("finalize") EXCEPT !.payload = p]
     IN Accept(h, IF ~IntentVisible THEN Answered(request, "not_found")
                  ELSE IF intent.status = "completed"
                       THEN IF SavedFor(p)
                            THEN [Answered(request, "claimed") EXCEPT !.manual = intent.manual]
                            ELSE Answered(request, "conflict")
                  ELSE IF expired THEN Answered(request, "expired")
                  ELSE IF ~CoversCount(p) THEN Answered(request, "refused")
                  ELSE [request EXCEPT !.pc = "rows"])
  /\ UNCHANGED <<stores, expired, owner>>

\* getStagedAssets: every slot of the manifest is staged with its digest.
ReadRows(h) ==
  /\ Serving(h, "rows")
  /\ LET p == call[h].payload
     IN IF \A s \in Manifest(p) :
             owner /\ asset[s] = [status |-> "staged", image |-> p.images[s]]
        THEN Goto(h, "heads")
        ELSE Answer(h, "conflict")
  /\ UNCHANGED <<stores, expired, owner>>

\* The R2 HEAD of every slot, then `new Date()`: the time the batch compares
\* expires_at with is taken here, before the batch is sent.
ReadHeads(h) ==
  /\ Serving(h, "heads")
  /\ LET p == call[h].payload
     IN IF \A s \in Manifest(p) : HeadMatches(s, p.images[s])
        THEN call' = [call EXCEPT ![h].pc = "commit", ![h].late = expired]
        ELSE Answer(h, "reconcile")
  /\ UNCHANGED <<stores, expired, owner>>

\* The intent is still pending, was not expired at the time taken, and its
\* owner is active: the guard of the batch's first statement, on which all
\* the others depend.
CommitsUnowned(h) == intent.status = "pending" /\ ~call[h].late
MayCommit(h) == intent.status = "pending" /\ ~call[h].late /\ owner

\* The rows the batch completes: staged, with the digest of the manifest.
Completable(p) == {s \in Manifest(p) : asset[s] = [status |-> "staged", image |-> p.images[s]]}

\* The D1 batch of finalizeClaim, one transaction.  Its answer may be lost,
\* and a batch that changed less than it expected is not undone: the handler
\* reads the intent back.
CommitClaim(h) ==
  /\ Serving(h, "commit")
  /\ LET p == call[h].payload
         m == Len(manuals) + 1
     IN \/ /\ MayCommit(h)
           /\ intent' = [intent EXCEPT !.status = "completed", !.fingerprint = p, !.manual = m]
           /\ manuals' = Append(manuals, p)
           /\ asset' = [s \in Slots |-> IF s \in Completable(p)
                                        THEN [asset[s] EXCEPT !.status = "completed"]
                                        ELSE asset[s]]
           /\ \/ IF Completable(p) = Manifest(p) THEN AnswerManual(h, "claimed", m)
                 ELSE Goto(h, "finalize_reread")
              \/ Answer(h, "unknown")
        \/ /\ ~MayCommit(h)
           /\ Goto(h, "finalize_reread")
           /\ UNCHANGED <<intent, manuals, asset>>
  /\ UNCHANGED <<object, latePuts, expired, owner>>

\* Who lost the race to finalize answers what the winner saved, if that is
\* what it was asked to save.
FinalizeReread(h) ==
  /\ Serving(h, "finalize_reread")
  /\ IF IntentVisible /\ SavedFor(call[h].payload)
     THEN AnswerManual(h, "claimed", intent.manual)
     ELSE Answer(h, "conflict")
  /\ UNCHANGED <<stores, expired, owner>>

-----------------------------------------------------------------------------
\* GET /api/onboarding/claims/{id}: claimStatusRoute.
ReceiveStatus(h) ==
  /\ Free(h)
  /\ LET request == NewCall("status")
     IN Accept(h, IF ~IntentVisible THEN Answered(request, "not_found")
                  ELSE IF intent.status = "completed"
                       THEN [Answered(request, "completed") EXCEPT !.manual = intent.manual]
                  ELSE IF expired THEN Answered(request, "expired")
                  ELSE Answered(request, "pending"))
  /\ UNCHANGED <<stores, expired, owner>>

\* An await that throws, or a Worker that dies: the client learns nothing.
Fault(h) ==
  /\ ~Free(h)
  /\ Answer(h, "unknown")
  /\ UNCHANGED <<stores, expired, owner>>

\* The environment: expires_at passes, an operator disables the identity, the
\* workspace or the membership (no route of the claim re-enables them).
Expire ==
  /\ intent.status # "none"
  /\ ~expired
  /\ expired' = TRUE
  /\ UNCHANGED <<stores, owner, call>>

Deactivate ==
  /\ owner
  /\ owner' = FALSE
  /\ UNCHANGED <<stores, expired, call>>

Receive(h) ==
  \/ \E n \in AssetCounts : ReceiveCreate(h, n)
  \/ \E s \in Slots, i \in Images : ReceiveUpload(h, s, i)
  \/ \E p \in Payloads : ReceiveFinalize(h, p)
  \/ ReceiveStatus(h)

Step(h) ==
  \/ InsertIntent(h) \/ ReadIntent(h)
  \/ FindRow(h) \/ HeadFound(h) \/ Reserve(h) \/ ReserveReread(h)
  \/ HeadReserved(h) \/ PutObject(h) \/ HeadAfterPut(h)
  \/ RecordStaged(h) \/ RereadRow(h)
  \/ ReadRows(h) \/ ReadHeads(h) \/ CommitClaim(h) \/ FinalizeReread(h)
  \/ Fault(h)

Next ==
  \/ \E h \in Handlers : Receive(h) \/ Step(h)
  \/ \E s \in Slots, i \in Images : LatePut(s, i)
  \/ Expire
  \/ Deactivate

Spec == Init /\ [][Next]_vars

-----------------------------------------------------------------------------
(***************************************************************************)
(* Properties                                                              *)
(***************************************************************************)

\* A pending intent has no manual, a completed one has exactly one, the one
\* its row points to, made from the payload whose fingerprint the row keeps:
\* concurrent and repeated finalize requests never make a second manual.
OneManualPerClaim ==
  /\ intent.status # "completed" => manuals = <<>>
  /\ intent.status = "completed" => manuals = <<intent.fingerprint>> /\ intent.manual = 1

\* A completed claim is whole: its manual refers to an image for each slot the
\* intent was created with, the row of each is completed, and R2 holds that
\* very image under the row's key, although R2 and D1 share no transaction.
CompletedClaimIsWhole ==
  intent.status = "completed" =>
    /\ Manifest(intent.fingerprint) = 0..(intent.count - 1)
    /\ \A s \in Manifest(intent.fingerprint) :
         /\ asset[s] = [status |-> "completed", image |-> intent.fingerprint.images[s]]
         /\ object[s] = intent.fingerprint.images[s]

\* Who was answered "claimed" has its own payload in the manual it was given,
\* even when another request finalized the claim.
ClaimedAnswerIsTrue ==
  \A h \in Handlers :
    call[h].reply = "claimed" =>
      /\ call[h].manual \in 1..Len(manuals)
      /\ manuals[call[h].manual] = call[h].payload

\* Who was answered "staged" has its image in R2 and a row with its digest
\* that is staged, and stays so whatever the other requests do.
StagedAnswerIsTrue ==
  \A h \in Handlers :
    call[h].reply = "staged" =>
      /\ asset[call[h].slot].image = call[h].image
      /\ asset[call[h].slot].status \in {"staged", "completed"}
      /\ object[call[h].slot] = call[h].image

\* A row is staged only over an object that holds its image.
StagedRowHasObject ==
  \A s \in Slots :
    asset[s].status \in {"staged", "completed"} => object[s] = asset[s].image

\* R2 has no object, and will get none from a delayed put, that a row of D1
\* did not reserve with the same digest: no orphan and no overwritten image.
ObjectIsReserved ==
  \A s \in Slots :
    /\ object[s] # NoImage => asset[s].status # "none" /\ asset[s].image = object[s]
    /\ \A i \in Images :
         <<s, i>> \in latePuts => asset[s].status # "none" /\ asset[s].image = i

\* A slot keeps the image it was reserved with and its status only advances; a
\* completed claim never changes again, and R2 objects are never replaced.
StatusRank == [none |-> 0, reserved |-> 1, staged |-> 2, completed |-> 3]
ForwardOnly ==
  [][/\ \A s \in Slots :
          /\ StatusRank[asset[s].status] <= StatusRank[asset'[s].status]
          /\ asset[s].status # "none" => asset'[s].image = asset[s].image
          /\ object[s] # NoImage => object'[s] = object[s]
     /\ intent.status = "completed" => intent' = intent]_vars

\* A request that was let in before its owner was deactivated writes nothing
\* to D1 afterwards.
NoWriteForInactiveOwner ==
  [][~owner => UNCHANGED <<intent, asset, manuals>>]_vars

\* For its clients the claim is a value that is saved once: seen through what
\* it answered "claimed" to, the whole of routes, D1 and R2 is ClaimOnce.
Once == INSTANCE ClaimOnce
          WITH Clients <- Handlers, Values <- Payloads, None <- NoPayload, made <- manuals,
               told <- [h \in Handlers |-> IF call[h].reply = "claimed"
                                           THEN call[h].payload ELSE NoPayload]
ImplementsClaimOnce == Once!Spec

-----------------------------------------------------------------------------
(***************************************************************************)
(* The inductive invariant: what the rows, the objects and the intent are  *)
(* to each other, and what a handler knows at each step of its request.    *)
(***************************************************************************)
Held(s) == asset[s].status \in {"staged", "completed"}
Reserved(s, i) == asset[s].status # "none" /\ asset[s].image = i

RowsInv ==
  \A s \in Slots :
    /\ asset[s].status = "none" <=> asset[s].image = NoImage
    /\ asset[s].status # "none" => intent.status # "none" /\ s < intent.count
    /\ asset[s].status = "completed" => intent.status = "completed"

IntentInv ==
  /\ intent.status # "completed" => manuals = <<>>
  /\ intent.status = "completed" =>
       /\ intent.fingerprint \in Payloads
       /\ manuals = <<intent.fingerprint>>
       /\ intent.manual = 1
       /\ Manifest(intent.fingerprint) = 0..(intent.count - 1)
       /\ \A s \in Manifest(intent.fingerprint) :
            asset[s] = [status |-> "completed", image |-> intent.fingerprint.images[s]]

\* Steps at which an upload has seen its own row, its own object, a row past
\* "reserved"; steps at which a finalize has checked its manifest and its rows.
RowSteps == UploadSteps \ {"find_row", "reserve", "reserve_reread"}
ObjectSteps == {"record_found", "record", "reread", "reread_found"}
HeldSteps == {"head_reserved", "reread", "reread_found"}
ManifestSteps == {"rows", "heads", "commit"}
CheckedSteps == {"heads", "commit"}

CallOK(c) ==
  /\ c.pc \in UploadSteps =>
       /\ c.slot \in Slots /\ c.image \in Images
       /\ intent.status # "none" /\ c.slot < intent.count
  /\ c.pc \in RowSteps => Reserved(c.slot, c.image)
  /\ c.pc \in ObjectSteps => object[c.slot] = c.image
  /\ c.pc \in HeldSteps => Held(c.slot)
  /\ c.pc = "head_found" /\ c.seen # "reserved" => Held(c.slot)
  /\ c.pc \in FinalizeSteps => c.payload \in Payloads /\ intent.status # "none"
  /\ c.pc \in ManifestSteps => CoversCount(c.payload)
  /\ c.pc \in CheckedSteps =>
       \A s \in Manifest(c.payload) : Held(s) /\ asset[s].image = c.payload.images[s]
  /\ c.reply # "none" => c.pc = "done"
  /\ c.reply = "staged" =>
       /\ c.slot \in Slots /\ c.image \in Images
       /\ Reserved(c.slot, c.image) /\ Held(c.slot) /\ object[c.slot] = c.image
  /\ c.reply = "claimed" => SavedFor(c.payload) /\ c.manual = 1

\* The conjunction that every step preserves, and that implies the invariants
\* above.
IInv ==
  /\ TypeOK
  /\ RowsInv
  /\ IntentInv
  /\ StagedRowHasObject
  /\ ObjectIsReserved
  /\ \A h \in Handlers : CallOK(call[h])
=============================================================================
