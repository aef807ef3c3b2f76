-------------------------- MODULE CloudClaimProofs --------------------------
(***************************************************************************)
(* Proofs about CloudClaim, for any number of concurrent requests, slots,  *)
(* images and texts: its invariant and what follows from it, and then that *)
(* it implements ClaimOnce.                                                *)
(***************************************************************************)
EXTENDS CloudClaim, FiniteSetTheorems, TLAPS

\* A record of a request that has only just been accepted.
LEMMA IdleCallType == IdleCall \in CallRecords
  BY MaxSlotsAssumption DEF IdleCall, CallRecords, Steps, Kinds, RowStatus, Replies

\* The invariant holds initially: no row, no object and no request.
LEMMA InitIInv == Init => IInv
<1> SUFFICES ASSUME Init PROVE IInv
  OBVIOUS
<1>1. TypeOK
  <2>1. call \in [Handlers -> CallRecords]
    BY IdleCallType DEF Init
  <2>2. asset \in [Slots -> [status: RowStatus, image: Images \cup {NoImage}]]
    BY DEF Init, NoRow, RowStatus
  <2>3. intent \in [status: {"none", "pending", "completed"}, count: 0..MaxSlots,
                     fingerprint: Payloads \cup {NoPayload}, manual: Nat]
    BY MaxSlotsAssumption DEF Init
  <2>4. object \in [Slots -> Images \cup {NoImage}]
    BY DEF Init
  <2>5. latePuts \in SUBSET (Slots \X Images) /\ manuals \in Seq(Payloads)
    BY DEF Init
  <2> QED
    BY <2>1, <2>2, <2>3, <2>4, <2>5 DEF Init, TypeOK
<1>2. RowsInv /\ IntentInv /\ StagedRowHasObject /\ ObjectIsReserved
  BY DEF Init, RowsInv, IntentInv, StagedRowHasObject, ObjectIsReserved, NoRow
<1>3. \A h \in Handlers : CallOK(call[h])
  BY DEF Init, IdleCall, CallOK, UploadSteps, RowSteps, ObjectSteps, HeldSteps,
         FinalizeSteps, ManifestSteps, CheckedSteps
<1> QED
  BY <1>1, <1>2, <1>3 DEF IInv

\* A step that changes only what one handler is doing preserves the invariant
\* when the handler's new state is well typed and knows what CallOK says.
LEMMA OnlyCall ==
  ASSUME IInv, NEW h \in Handlers, NEW c \in CallRecords, CallOK(c),
         call' = [call EXCEPT ![h] = c], UNCHANGED <<stores, expired, owner>>
  PROVE  IInv'
<1>1. TypeOK'
  BY DEF IInv, TypeOK, stores
<1>2. RowsInv' /\ IntentInv' /\ StagedRowHasObject' /\ ObjectIsReserved'
  BY DEF IInv, RowsInv, IntentInv, StagedRowHasObject, ObjectIsReserved, stores
<1>3. ASSUME NEW g \in Handlers PROVE CallOK(call[g])'
  <2>1. CallOK(call'[g])
    BY DEF IInv, TypeOK
  <2> QED
    BY <2>1 DEF CallOK, Reserved, Held, SavedFor, CoversCount, stores
<1> QED
  BY <1>1, <1>2, <1>3 DEF IInv

\* An answer that promises nothing about the stores can be given at any time.
LEMMA PlainAnswer ==
  ASSUME IInv, NEW h \in Handlers, NEW r \in Replies \ {"staged", "claimed", "none"},
         Answer(h, r), UNCHANGED <<stores, expired, owner>>
  PROVE  IInv'
<1> DEFINE c == [call[h] EXCEPT !.pc = "done", !.reply = r]
<1>1. call[h] \in CallRecords
  BY DEF IInv, TypeOK
<1>2. c \in CallRecords
  BY <1>1 DEF CallRecords, Steps
<1>3. c.pc = "done" /\ c.reply = r
  BY <1>1 DEF CallRecords
<1>4. CallOK(c)
  BY <1>3 DEF CallOK, UploadSteps, RowSteps, ObjectSteps, HeldSteps, FinalizeSteps,
              ManifestSteps, CheckedSteps
<1>5. call' = [call EXCEPT ![h] = c]
  BY DEF Answer
<1> QED
  BY <1>2, <1>4, <1>5, OnlyCall

\* "staged" is answered by an upload whose row and object are in place.
LEMMA StagedAnswer ==
  ASSUME IInv, NEW h \in Handlers, Answer(h, "staged"), UNCHANGED <<stores, expired, owner>>,
         call[h].slot \in Slots, call[h].image \in Images,
         Reserved(call[h].slot, call[h].image), Held(call[h].slot),
         object[call[h].slot] = call[h].image
  PROVE  IInv'
<1> DEFINE c == [call[h] EXCEPT !.pc = "done", !.reply = "staged"]
<1>1. call[h] \in CallRecords
  BY DEF IInv, TypeOK
<1>2. c \in CallRecords
  BY <1>1 DEF CallRecords, Steps, Replies
<1>3. c.pc = "done" /\ c.reply = "staged" /\ c.slot = call[h].slot /\ c.image = call[h].image
  BY <1>1 DEF CallRecords
<1>4. CallOK(c)
  BY <1>3 DEF CallOK, UploadSteps, RowSteps, ObjectSteps, HeldSteps, FinalizeSteps,
              ManifestSteps, CheckedSteps
<1>5. call' = [call EXCEPT ![h] = c]
  BY DEF Answer
<1> QED
  BY <1>2, <1>4, <1>5, OnlyCall

\* "claimed" is answered with the manual the claim was completed with, to who
\* asked for that payload.
LEMMA ClaimedAnswer ==
  ASSUME IInv, NEW h \in Handlers, AnswerManual(h, "claimed", 1),
         UNCHANGED <<stores, expired, owner>>, SavedFor(call[h].payload)
  PROVE  IInv'
<1> DEFINE c == [call[h] EXCEPT !.pc = "done", !.reply = "claimed", !.manual = 1]
<1>1. call[h] \in CallRecords
  BY DEF IInv, TypeOK
<1>2. c \in CallRecords
  BY <1>1 DEF CallRecords, Steps, Replies
<1>3. c.pc = "done" /\ c.reply = "claimed" /\ c.manual = 1 /\ c.payload = call[h].payload
  BY <1>1 DEF CallRecords
<1>4. CallOK(c)
  BY <1>3 DEF CallOK, UploadSteps, RowSteps, ObjectSteps, HeldSteps, FinalizeSteps,
              ManifestSteps, CheckedSteps
<1>5. call' = [call EXCEPT ![h] = c]
  BY DEF AnswerManual
<1> QED
  BY <1>2, <1>4, <1>5, OnlyCall

\* A handler that has not answered moves to the next step of its request.
LEMMA Move ==
  ASSUME IInv, NEW h \in Handlers, NEW pc \in Steps, Goto(h, pc),
         UNCHANGED <<stores, expired, owner>>, CallOK([call[h] EXCEPT !.pc = pc])
  PROVE  IInv'
<1>1. call[h] \in CallRecords
  BY DEF IInv, TypeOK
<1>2. [call[h] EXCEPT !.pc = pc] \in CallRecords
  BY <1>1 DEF CallRecords
<1>3. call' = [call EXCEPT ![h] = [call[h] EXCEPT !.pc = pc]]
  BY DEF Goto
<1> QED
  BY <1>2, <1>3, OnlyCall

\* A request is answered at once, with a reply that promises nothing.
LEMMA AcceptAnswered ==
  ASSUME IInv, NEW h \in Handlers, NEW request \in CallRecords,
         NEW r \in Replies \ {"staged", "claimed", "none"},
         Accept(h, Answered(request, r)), UNCHANGED <<stores, expired, owner>>
  PROVE  IInv'
<1> DEFINE c == Answered(request, r)
<1>1. c \in CallRecords
  BY DEF Answered, CallRecords, Steps
<1>2. c.pc = "done" /\ c.reply = r
  BY DEF Answered, CallRecords
<1>3. CallOK(c)
  BY <1>2 DEF CallOK, UploadSteps, RowSteps, ObjectSteps, HeldSteps, FinalizeSteps,
              ManifestSteps, CheckedSteps
<1> QED
  BY <1>1, <1>3, OnlyCall DEF Accept

-----------------------------------------------------------------------------
(***************************************************************************)
(* The steps that only read the stores, by route.                          *)
(***************************************************************************)

LEMMA ReceiveCreateInv ==
  ASSUME IInv, NEW h \in Handlers, NEW n \in 0..MaxSlots, ReceiveCreate(h, n)
  PROVE  IInv'
<1> DEFINE request == [NewCall("create") EXCEPT !.count = n]
           started == [request EXCEPT !.pc = "create_insert"]
<1>1. request \in CallRecords
  BY IdleCallType DEF NewCall, CallRecords, Kinds
<1>2. started \in CallRecords /\ started.pc = "create_insert" /\ started.reply = "none"
  BY <1>1 DEF CallRecords, Steps, CreateSteps, NewCall, IdleCall
<1>3. CallOK(started)
  BY <1>2 DEF CallOK, UploadSteps, RowSteps, ObjectSteps, HeldSteps, FinalizeSteps,
              ManifestSteps, CheckedSteps
<1>4. CASE Accept(h, started)
  BY <1>2, <1>3, <1>4, OnlyCall DEF Accept, ReceiveCreate
<1>5. CASE \E r \in {"created", "conflict"} : Accept(h, Answered(request, r))
  BY <1>1, <1>5, AcceptAnswered DEF ReceiveCreate, Replies
<1> QED
  BY <1>4, <1>5 DEF ReceiveCreate

LEMMA ReadIntentInv ==
  ASSUME IInv, NEW h \in Handlers, ReadIntent(h)
  PROVE  IInv'
<1>1. PICK r \in {"created", "unknown", "conflict"} : Answer(h, r)
  BY DEF ReadIntent
<1>2. r \in Replies \ {"staged", "claimed", "none"}
  BY DEF Replies
<1> QED
  BY <1>1, <1>2, PlainAnswer DEF ReadIntent

LEMMA ReceiveStatusInv ==
  ASSUME IInv, NEW h \in Handlers, ReceiveStatus(h)
  PROVE  IInv'
<1> DEFINE request == NewCall("status")
           completed == [request EXCEPT !.manual = intent.manual]
<1>1. request \in CallRecords
  BY IdleCallType DEF NewCall, CallRecords, Kinds
<1>2. completed \in CallRecords
  BY <1>1 DEF CallRecords, IInv, TypeOK
<1>3. CASE \E r \in {"not_found", "expired", "pending"} : Accept(h, Answered(request, r))
  BY <1>1, <1>3, AcceptAnswered DEF ReceiveStatus, Replies
<1>4. CASE Accept(h, [Answered(request, "completed") EXCEPT !.manual = intent.manual])
  <2>1. Accept(h, Answered(completed, "completed"))
    BY <1>1, <1>4 DEF Answered, CallRecords
  <2> QED
    BY <1>2, <2>1, AcceptAnswered DEF ReceiveStatus, Replies
<1> QED
  BY <1>3, <1>4 DEF ReceiveStatus

LEMMA ReceiveUploadInv ==
  ASSUME IInv, NEW h \in Handlers, NEW s \in Slots, NEW i \in Images, ReceiveUpload(h, s, i)
  PROVE  IInv'
<1> DEFINE request == [NewCall("upload") EXCEPT !.slot = s, !.image = i]
           started == [request EXCEPT !.pc = "find_row"]
<1>1. request \in CallRecords
  BY IdleCallType DEF NewCall, CallRecords, Kinds
<1>2. /\ started \in CallRecords
      /\ started.pc = "find_row" /\ started.reply = "none"
      /\ started.slot = s /\ started.image = i
  BY <1>1 DEF CallRecords, Steps, UploadSteps, NewCall, IdleCall
<1>3. CASE \E r \in {"not_found", "already_completed", "expired", "refused"} :
             Accept(h, Answered(request, r))
  BY <1>1, <1>3, AcceptAnswered DEF ReceiveUpload, Replies
<1>4. CASE Accept(h, started) /\ IntentVisible /\ ~(s >= intent.count)
  <2>1. intent.status # "none" /\ s < intent.count
    BY <1>4 DEF IntentVisible, Slots, IInv, TypeOK
  <2>2. CallOK(started)
    BY <1>2, <2>1 DEF CallOK, UploadSteps, RowSteps, ObjectSteps, HeldSteps, FinalizeSteps,
                      ManifestSteps, CheckedSteps
  <2> QED
    BY <1>2, <1>4, <2>2, OnlyCall DEF Accept, ReceiveUpload
<1> QED
  BY <1>3, <1>4 DEF ReceiveUpload

\* What an upload that has not answered knows of itself.
LEMMA Uploading ==
  ASSUME IInv, NEW h \in Handlers, call[h].pc \in UploadSteps
  PROVE  /\ call[h] \in CallRecords /\ CallOK(call[h])
         /\ call[h].slot \in Slots /\ call[h].image \in Images
         /\ call[h].reply = "none"
         /\ intent.status # "none" /\ call[h].slot < intent.count
BY DEF IInv, TypeOK, CallOK, UploadSteps

LEMMA FindRowInv ==
  ASSUME IInv, NEW h \in Handlers, FindRow(h)
  PROVE  IInv'
<1> DEFINE s == call[h].slot
           found == [call[h] EXCEPT !.pc = "head_found", !.seen = asset[s].status]
<1>1. /\ call[h] \in CallRecords /\ s \in Slots /\ call[h].image \in Images
      /\ call[h].reply = "none" /\ intent.status # "none" /\ s < intent.count
  BY Uploading DEF FindRow, Serving, UploadSteps
<1>2. CASE Goto(h, "reserve")
  <2>1. CallOK([call[h] EXCEPT !.pc = "reserve"])
    BY <1>1 DEF CallOK, CallRecords, UploadSteps, RowSteps, ObjectSteps, HeldSteps,
                FinalizeSteps, ManifestSteps, CheckedSteps
  <2> QED
    BY <1>2, <2>1, Move DEF FindRow, Steps, UploadSteps
<1>3. CASE Answer(h, "conflict")
  BY <1>3, PlainAnswer DEF FindRow, Replies
<1>4. CASE /\ RowVisible(s) /\ SameRow(asset[s], call[h].image)
           /\ call' = [call EXCEPT ![h].pc = "head_found", ![h].seen = asset[s].status]
  <2>1. asset[s].status \in RowStatus
    BY <1>1 DEF IInv, TypeOK
  <2>2. /\ found \in CallRecords /\ found.pc = "head_found" /\ found.reply = "none"
        /\ found.seen = asset[s].status /\ found.slot = s /\ found.image = call[h].image
    BY <1>1, <2>1 DEF CallRecords, Steps, UploadSteps
  <2>3. Reserved(s, call[h].image)
    BY <1>4 DEF RowVisible, SameRow, Reserved
  <2>4. asset[s].status # "reserved" => Held(s)
    BY <1>4, <2>1 DEF Held, RowStatus, RowVisible
  <2>5. CallOK(found)
    BY <1>1, <2>2, <2>3, <2>4
       DEF CallOK, UploadSteps, RowSteps, ObjectSteps, HeldSteps, FinalizeSteps,
           ManifestSteps, CheckedSteps
  <2> QED
    BY <1>4, <2>2, <2>5, OnlyCall DEF FindRow
<1> QED
  BY <1>2, <1>3, <1>4 DEF FindRow

LEMMA HeadFoundInv ==
  ASSUME IInv, NEW h \in Handlers, HeadFound(h)
  PROVE  IInv'
<1> DEFINE s == call[h].slot
<1>1. /\ call[h] \in CallRecords /\ s \in Slots /\ call[h].image \in Images
      /\ call[h].reply = "none" /\ intent.status # "none" /\ s < intent.count
      /\ CallOK(call[h])
  BY Uploading DEF HeadFound, Serving, UploadSteps
<1>2. /\ Reserved(s, call[h].image)
      /\ call[h].seen # "reserved" => Held(s)
  BY <1>1 DEF HeadFound, Serving, CallOK, RowSteps, UploadSteps
<1>3. CASE Goto(h, "record_found") /\ object[s] = call[h].image
  <2>1. CallOK([call[h] EXCEPT !.pc = "record_found"])
    BY <1>1, <1>2, <1>3 DEF CallOK, CallRecords, UploadSteps, RowSteps, ObjectSteps, HeldSteps,
                FinalizeSteps, ManifestSteps, CheckedSteps
  <2> QED
    BY <1>3, <2>1, Move DEF HeadFound, Steps, UploadSteps
<1>4. CASE Goto(h, "put")
  <2>1. CallOK([call[h] EXCEPT !.pc = "put"])
    BY <1>1, <1>2 DEF CallOK, CallRecords, UploadSteps, RowSteps, ObjectSteps, HeldSteps,
                FinalizeSteps, ManifestSteps, CheckedSteps
  <2> QED
    BY <1>4, <2>1, Move DEF HeadFound, Steps, UploadSteps
<1>5. CASE Answer(h, "staged") /\ object[s] = call[h].image /\ call[h].seen # "reserved"
  BY <1>1, <1>2, <1>5, StagedAnswer DEF HeadFound
<1>6. CASE Answer(h, "reconcile")
  BY <1>6, PlainAnswer DEF HeadFound, Replies
<1> QED
  BY <1>3, <1>4, <1>5, <1>6 DEF HeadFound, NeedsRecord

LEMMA ReserveRereadInv ==
  ASSUME IInv, NEW h \in Handlers, ReserveReread(h)
  PROVE  IInv'
<1> DEFINE s == call[h].slot
<1>1. /\ call[h] \in CallRecords /\ s \in Slots /\ call[h].image \in Images
      /\ call[h].reply = "none" /\ intent.status # "none" /\ s < intent.count
  BY Uploading DEF ReserveReread, Serving, UploadSteps
<1>2. CASE Answer(h, "conflict")
  BY <1>2, PlainAnswer DEF ReserveReread, Replies
<1>3. CASE RowVisible(s) /\ SameRow(asset[s], call[h].image) /\ asset[s].status = "reserved"
  <2>1. Goto(h, "put") /\ Reserved(s, call[h].image)
    BY <1>3 DEF ReserveReread, RowVisible, SameRow, Reserved
  <2>2. CallOK([call[h] EXCEPT !.pc = "put"])
    BY <1>1, <2>1 DEF CallOK, CallRecords, UploadSteps, RowSteps, ObjectSteps, HeldSteps,
                FinalizeSteps, ManifestSteps, CheckedSteps
  <2> QED
    BY <2>1, <2>2, Move DEF ReserveReread, Steps, UploadSteps
<1>4. CASE RowVisible(s) /\ SameRow(asset[s], call[h].image) /\ asset[s].status # "reserved"
  <2>1. Goto(h, "head_reserved") /\ Reserved(s, call[h].image)
    BY <1>4 DEF ReserveReread, RowVisible, SameRow, Reserved
  <2>2. Held(s)
    BY <1>1, <1>4 DEF RowVisible, Held, IInv, TypeOK, RowStatus
  <2>3. CallOK([call[h] EXCEPT !.pc = "head_reserved"])
    BY <1>1, <2>1, <2>2 DEF CallOK, CallRecords, UploadSteps, RowSteps, ObjectSteps, HeldSteps,
                FinalizeSteps, ManifestSteps, CheckedSteps
  <2> QED
    BY <2>1, <2>3, Move DEF ReserveReread, Steps, UploadSteps
<1> QED
  BY <1>2, <1>3, <1>4 DEF ReserveReread

LEMMA HeadReservedInv ==
  ASSUME IInv, NEW h \in Handlers, HeadReserved(h)
  PROVE  IInv'
<1>1. /\ call[h].slot \in Slots /\ call[h].image \in Images
      /\ Reserved(call[h].slot, call[h].image) /\ Held(call[h].slot)
  BY Uploading DEF HeadReserved, Serving, CallOK, UploadSteps, RowSteps, HeldSteps
<1>2. CASE Answer(h, "staged") /\ object[call[h].slot] = call[h].image
  BY <1>1, <1>2, StagedAnswer DEF HeadReserved
<1>3. CASE Answer(h, "reconcile")
  BY <1>3, PlainAnswer DEF HeadReserved, Replies
<1> QED
  BY <1>2, <1>3 DEF HeadReserved, HeadMatches

LEMMA HeadAfterPutInv ==
  ASSUME IInv, NEW h \in Handlers, HeadAfterPut(h)
  PROVE  IInv'
<1> DEFINE s == call[h].slot
<1>1. /\ call[h] \in CallRecords /\ s \in Slots /\ call[h].image \in Images
      /\ call[h].reply = "none" /\ intent.status # "none" /\ s < intent.count
      /\ CallOK(call[h])
  BY Uploading DEF HeadAfterPut, Serving, UploadSteps
<1>2. Reserved(s, call[h].image)
  BY <1>1 DEF HeadAfterPut, Serving, CallOK, RowSteps, UploadSteps
<1>3. CASE Answer(h, "unknown") \/ Answer(h, "reconcile")
  BY <1>3, PlainAnswer DEF HeadAfterPut, Replies
<1>4. CASE Goto(h, "verify")
  <2>1. CallOK([call[h] EXCEPT !.pc = "verify"])
    BY <1>1, <1>2 DEF CallOK, CallRecords, UploadSteps, RowSteps, ObjectSteps, HeldSteps,
                FinalizeSteps, ManifestSteps, CheckedSteps
  <2> QED
    BY <1>4, <2>1, Move DEF HeadAfterPut, Steps, UploadSteps
<1>5. CASE Goto(h, "record") /\ HeadMatches(s, call[h].image)
  <2>1. CallOK([call[h] EXCEPT !.pc = "record"])
    BY <1>1, <1>2, <1>5 DEF HeadMatches, CallOK, CallRecords, UploadSteps, RowSteps, ObjectSteps,
                HeldSteps, FinalizeSteps, ManifestSteps, CheckedSteps
  <2> QED
    BY <1>5, <2>1, Move DEF HeadAfterPut, Steps, UploadSteps
<1> QED
  BY <1>3, <1>4, <1>5 DEF HeadAfterPut

LEMMA RereadRowInv ==
  ASSUME IInv, NEW h \in Handlers, RereadRow(h)
  PROVE  IInv'
<1>1. /\ call[h].slot \in Slots /\ call[h].image \in Images
      /\ Reserved(call[h].slot, call[h].image) /\ Held(call[h].slot)
      /\ object[call[h].slot] = call[h].image
  BY Uploading DEF RereadRow, Serving, CallOK, UploadSteps, RowSteps, ObjectSteps, HeldSteps
<1>2. CASE Answer(h, "staged")
  BY <1>1, <1>2, StagedAnswer DEF RereadRow
<1>3. CASE Answer(h, "unknown") \/ Answer(h, "conflict")
  BY <1>3, PlainAnswer DEF RereadRow, Replies
<1> QED
  BY <1>2, <1>3 DEF RereadRow

LEMMA ReceiveFinalizeInv ==
  ASSUME IInv, NEW h \in Handlers, NEW p \in Payloads, ReceiveFinalize(h, p)
  PROVE  IInv'
<1> DEFINE request == [NewCall("finalize") EXCEPT !.payload = p]
           started == [request EXCEPT !.pc = "rows"]
           claimed == [Answered(request, "claimed") EXCEPT !.manual = intent.manual]
<1>1. request \in CallRecords
  BY IdleCallType DEF NewCall, CallRecords, Kinds
<1>2. CASE \E r \in {"not_found", "conflict", "expired", "refused"} :
             Accept(h, Answered(request, r))
  BY <1>1, <1>2, AcceptAnswered DEF ReceiveFinalize, Replies
<1>3. CASE Accept(h, started) /\ IntentVisible /\ CoversCount(p)
  <2>1. /\ started \in CallRecords
        /\ started.pc = "rows" /\ started.reply = "none" /\ started.payload = p
    BY <1>1 DEF CallRecords, Steps, FinalizeSteps, NewCall, IdleCall
  <2>2. CallOK(started)
    BY <1>3, <2>1 DEF CallOK, UploadSteps, RowSteps, ObjectSteps, HeldSteps, FinalizeSteps,
                      ManifestSteps, CheckedSteps, IntentVisible
  <2> QED
    BY <1>3, <2>1, <2>2, OnlyCall DEF Accept, ReceiveFinalize
<1>4. CASE Accept(h, claimed) /\ SavedFor(p)
  <2>1. intent.manual = 1
    BY <1>4 DEF SavedFor, IInv, IntentInv
  <2>2. /\ claimed \in CallRecords
        /\ claimed.pc = "done" /\ claimed.reply = "claimed" /\ claimed.payload = p
        /\ claimed.manual = 1
    <3>1. Answered(request, "claimed") \in CallRecords
      BY <1>1 DEF CallRecords, Steps, Replies, Answered
    <3>2. claimed \in CallRecords
      BY <2>1, <3>1 DEF CallRecords
    <3>3. request.payload = p
      BY DEF NewCall, IdleCall
    <3> QED
      BY <1>1, <2>1, <3>1, <3>2, <3>3 DEF CallRecords, Answered
  <2>3. CallOK(claimed)
    BY <1>4, <2>2 DEF CallOK, UploadSteps, RowSteps, ObjectSteps, HeldSteps, FinalizeSteps,
                      ManifestSteps, CheckedSteps
  <2> QED
    BY <1>4, <2>2, <2>3, OnlyCall DEF Accept, ReceiveFinalize
<1> QED
  BY <1>2, <1>3, <1>4 DEF ReceiveFinalize

LEMMA ReadRowsInv ==
  ASSUME IInv, NEW h \in Handlers, ReadRows(h)
  PROVE  IInv'
<1> DEFINE p == call[h].payload
<1>1. /\ call[h] \in CallRecords /\ p \in Payloads /\ call[h].reply = "none"
      /\ intent.status # "none" /\ CoversCount(p)
  BY DEF IInv, TypeOK, CallOK, ReadRows, Serving, FinalizeSteps, ManifestSteps
<1>2. CASE Answer(h, "conflict")
  BY <1>2, PlainAnswer DEF ReadRows, Replies
<1>3. CASE /\ Goto(h, "heads")
           /\ \A s \in Manifest(p) :
                owner /\ asset[s] = [status |-> "staged", image |-> p.images[s]]
  <2>1. \A s \in Manifest(p) : Held(s) /\ asset[s].image = p.images[s]
    <3> TAKE s \in Manifest(p)
    <3>1. asset[s] = [status |-> "staged", image |-> p.images[s]]
      BY <1>3
    <3> QED
      BY <3>1 DEF Held
  <2>2. CallOK([call[h] EXCEPT !.pc = "heads"])
    BY <1>1, <2>1 DEF CallOK, CallRecords, UploadSteps, RowSteps, ObjectSteps, HeldSteps,
                FinalizeSteps, ManifestSteps, CheckedSteps
  <2> QED
    BY <1>3, <2>2, Move DEF ReadRows, Steps, FinalizeSteps
<1> QED
  BY <1>2, <1>3 DEF ReadRows

LEMMA ReadHeadsInv ==
  ASSUME IInv, NEW h \in Handlers, ReadHeads(h)
  PROVE  IInv'
<1> DEFINE p == call[h].payload
           checked == [call[h] EXCEPT !.pc = "commit", !.late = expired]
<1>1. /\ call[h] \in CallRecords /\ p \in Payloads /\ call[h].reply = "none"
      /\ intent.status # "none" /\ CoversCount(p)
      /\ \A s \in Manifest(p) : Held(s) /\ asset[s].image = p.images[s]
  BY DEF IInv, TypeOK, CallOK, ReadHeads, Serving, FinalizeSteps, ManifestSteps, CheckedSteps
<1>2. CASE Answer(h, "reconcile")
  BY <1>2, PlainAnswer DEF ReadHeads, Replies
<1>3. CASE call' = [call EXCEPT ![h].pc = "commit", ![h].late = expired]
  <2>1. /\ checked \in CallRecords
        /\ checked.pc = "commit" /\ checked.reply = "none" /\ checked.payload = p
    BY <1>1 DEF CallRecords, Steps, FinalizeSteps, IInv, TypeOK
  <2>2. CallOK(checked)
    BY <1>1, <2>1 DEF CallOK, UploadSteps, RowSteps, ObjectSteps, HeldSteps,
                FinalizeSteps, ManifestSteps, CheckedSteps
  <2> QED
    BY <1>3, <2>1, <2>2, OnlyCall DEF ReadHeads
<1> QED
  BY <1>2, <1>3 DEF ReadHeads

LEMMA FinalizeRereadInv ==
  ASSUME IInv, NEW h \in Handlers, FinalizeReread(h)
  PROVE  IInv'
<1>1. CASE Answer(h, "conflict")
  BY <1>1, PlainAnswer DEF FinalizeReread, Replies
<1>2. CASE AnswerManual(h, "claimed", intent.manual) /\ SavedFor(call[h].payload)
  <2>1. intent.manual = 1
    BY <1>2 DEF SavedFor, IInv, IntentInv
  <2> QED
    BY <1>2, <2>1, ClaimedAnswer DEF FinalizeReread
<1> QED
  BY <1>1, <1>2 DEF FinalizeReread

LEMMA FaultInv ==
  ASSUME IInv, NEW h \in Handlers, Fault(h)
  PROVE  IInv'
BY PlainAnswer DEF Fault, Replies

-----------------------------------------------------------------------------
(***************************************************************************)
(* The steps that write.  Whatever they write, rows, objects and the       *)
(* intent only advance, which is why what a handler has seen stays true.   *)
(***************************************************************************)

Advance ==
  /\ intent.status # "none" => intent'.status # "none" /\ intent'.count = intent.count
  /\ intent.status = "completed" => intent' = intent
  /\ \A s \in Slots :
       /\ asset[s].status # "none" => asset'[s].status # "none" /\ asset'[s].image = asset[s].image
       /\ Held(s) => Held(s)'
       /\ object[s] # NoImage => object'[s] = object[s]

\* What a handler knows stays true while the stores advance.
LEMMA KnowledgeIsStable ==
  ASSUME IInv, Advance, NEW c \in CallRecords, CallOK(c)
  PROVE  CallOK(c)'
<1>1. c.payload \in Payloads => Manifest(c.payload) \subseteq Slots
  BY DEF Manifest
<1>2. Images \cap {NoImage} = {}
  BY NullsAssumption
<1>3. c.pc \in UploadSteps =>
        /\ c.slot \in Slots /\ c.image \in Images
        /\ intent'.status # "none" /\ c.slot < intent'.count
  BY DEF CallOK, Advance
<1>4. (c.pc \in RowSteps => Reserved(c.slot, c.image)')
  BY DEF CallOK, Advance, Reserved, RowSteps, UploadSteps
<1>5. (c.pc \in ObjectSteps => object'[c.slot] = c.image)
  BY <1>2 DEF CallOK, Advance, ObjectSteps, UploadSteps
<1>6. (c.pc \in HeldSteps => Held(c.slot)')
  BY DEF CallOK, Advance, HeldSteps, UploadSteps
<1>7. (c.pc = "head_found" /\ c.seen # "reserved" => Held(c.slot)')
  BY DEF CallOK, Advance, UploadSteps
<1>8. (c.pc \in FinalizeSteps => c.payload \in Payloads /\ intent'.status # "none")
  BY DEF CallOK, Advance
<1>9. (c.pc \in ManifestSteps => CoversCount(c.payload)')
  BY DEF CallOK, Advance, CoversCount, ManifestSteps, FinalizeSteps
<1>10. (c.pc \in CheckedSteps =>
          \A s \in Manifest(c.payload) : Held(s)' /\ asset'[s].image = c.payload.images[s])
  <2> SUFFICES ASSUME c.pc \in CheckedSteps, NEW s \in Manifest(c.payload)
               PROVE  Held(s)' /\ asset'[s].image = c.payload.images[s]
    OBVIOUS
  <2>1. s \in Slots
    BY <1>1 DEF CallOK, CheckedSteps, FinalizeSteps
  <2>2. Held(s) /\ asset[s].image = c.payload.images[s]
    BY DEF CallOK
  <2>3. asset[s].status # "none"
    BY <2>2 DEF Held
  <2> QED
    BY <2>1, <2>2, <2>3 DEF Advance
<1>11. (c.reply # "none" => c.pc = "done")
  BY DEF CallOK
<1>12. c.reply = "staged" =>
         /\ c.slot \in Slots /\ c.image \in Images
         /\ Reserved(c.slot, c.image)' /\ Held(c.slot)' /\ object'[c.slot] = c.image
  BY <1>2 DEF CallOK, Advance, Reserved
<1>13. (c.reply = "claimed" => SavedFor(c.payload)' /\ c.manual = 1)
  BY DEF CallOK, Advance, SavedFor
<1> QED
  BY <1>3, <1>4, <1>5, <1>6, <1>7, <1>8, <1>9, <1>10, <1>11, <1>12, <1>13
     DEF CallOK, Manifest

\* What is left to show of a step that writes and goes on or answers.
LEMMA WriteStep ==
  ASSUME IInv, Advance, NEW h \in Handlers, NEW c \in CallRecords, CallOK(c)',
         call' = [call EXCEPT ![h] = c],
         intent' \in [status: {"none", "pending", "completed"}, count: 0..MaxSlots,
                      fingerprint: Payloads \cup {NoPayload}, manual: Nat],
         asset' \in [Slots -> [status: RowStatus, image: Images \cup {NoImage}]],
         object' \in [Slots -> Images \cup {NoImage}],
         latePuts' \in SUBSET (Slots \X Images),
         manuals' \in Seq(Payloads), UNCHANGED <<expired, owner>>,
         RowsInv', IntentInv', StagedRowHasObject', ObjectIsReserved'
  PROVE  IInv'
<1>1. TypeOK'
  BY DEF IInv, TypeOK
<1>2. ASSUME NEW g \in Handlers PROVE CallOK(call[g])'
  <2>1. CASE g = h
    <3>1. call'[g] = c
      BY <2>1 DEF IInv, TypeOK
    <3> QED
      BY <3>1 DEF CallOK
  <2>2. CASE g # h
    <3>1. call'[g] = call[g] /\ call[g] \in CallRecords /\ CallOK(call[g])
      BY <2>2 DEF IInv, TypeOK
    <3> DEFINE d == call[g]
    <3>2. \A e \in CallRecords : CallOK(e) => CallOK(e)'
      BY KnowledgeIsStable
    <3>3. \A e \in CallRecords : e = call[g] => CallOK(e)'
      BY <3>1, <3>2
    <3>4. PICK e \in CallRecords : e = call[g]
      BY <3>1
    <3>5. CallOK(e)' /\ call'[g] = e
      BY <3>1, <3>3, <3>4
    <3> QED
      BY <3>5 DEF CallOK
  <2> QED
    BY <2>1, <2>2
<1> QED
  BY <1>1, <1>2 DEF IInv

LEMMA InsertIntentInv ==
  ASSUME IInv, NEW h \in Handlers, InsertIntent(h)
  PROVE  IInv'
<1>1. call[h] \in CallRecords /\ CallOK(call[h]) /\ call[h].pc = "create_insert"
      /\ call[h].reply = "none"
  BY DEF IInv, TypeOK, InsertIntent, Serving, CallOK
<1>2. CASE Answer(h, "forbidden") /\ UNCHANGED intent
  BY <1>2, PlainAnswer DEF InsertIntent, Replies, stores
<1>3. CASE Goto(h, "create_raced") /\ UNCHANGED intent
  <2>1. CallOK([call[h] EXCEPT !.pc = "create_raced"])
    BY <1>1 DEF CallOK, CallRecords, UploadSteps, RowSteps, ObjectSteps, HeldSteps,
                FinalizeSteps, ManifestSteps, CheckedSteps
  <2> QED
    BY <1>3, <2>1, Move DEF InsertIntent, Steps, CreateSteps, stores
<1>4. CASE /\ intent.status = "none"
           /\ intent' = [intent EXCEPT !.status = "pending", !.count = call[h].count]
           /\ Goto(h, "create_read") \/ Answer(h, "unknown")
  <2>1. PICK c \in {[call[h] EXCEPT !.pc = "create_read"],
                    [call[h] EXCEPT !.pc = "done", !.reply = "unknown"]} :
               call' = [call EXCEPT ![h] = c]
    BY <1>4 DEF Goto, Answer
  <2>2. /\ [call[h] EXCEPT !.pc = "create_read"] \in CallRecords
        /\ [call[h] EXCEPT !.pc = "done", !.reply = "unknown"] \in CallRecords
    BY <1>1 DEF CallRecords, Steps, CreateSteps, Replies
  <2>3. \/ c.pc = "create_read" /\ c.reply = "none"
        \/ c.pc = "done" /\ c.reply = "unknown"
    BY <1>1, <2>1 DEF CallRecords
  <2>4. CallOK(c)'
    BY <2>3 DEF CallOK, UploadSteps, RowSteps, ObjectSteps, HeldSteps, FinalizeSteps,
                ManifestSteps, CheckedSteps
  <2>5. /\ intent' \in [status: {"none", "pending", "completed"}, count: 0..MaxSlots,
                        fingerprint: Payloads \cup {NoPayload}, manual: Nat]
        /\ intent'.status = "pending"
    BY <1>1, <1>4 DEF IInv, TypeOK, CallRecords
  <2>6. \A s \in Slots : asset[s].status = "none"
    BY <1>4 DEF IInv, RowsInv
  <2>7. Advance
    BY <1>4, <2>6 DEF Advance, Held, InsertIntent
  <2>8. RowsInv' /\ IntentInv' /\ StagedRowHasObject' /\ ObjectIsReserved'
    BY <1>4, <2>5, <2>6 DEF IInv, RowsInv, IntentInv, StagedRowHasObject, ObjectIsReserved,
                            InsertIntent
  <2> QED
    BY <2>1, <2>2, <2>4, <2>5, <2>7, <2>8, WriteStep DEF InsertIntent, IInv, TypeOK
<1> QED
  BY <1>2, <1>3, <1>4 DEF InsertIntent

LEMMA ReserveInv ==
  ASSUME IInv, NEW h \in Handlers, Reserve(h)
  PROVE  IInv'
<1> DEFINE s == call[h].slot
           i == call[h].image
<1>1. /\ call[h] \in CallRecords /\ s \in Slots /\ i \in Images
      /\ call[h].reply = "none" /\ intent.status # "none" /\ s < intent.count
  BY Uploading DEF Reserve, Serving, UploadSteps
<1>2. CASE Goto(h, "reserve_reread") /\ UNCHANGED asset
  <2>1. CallOK([call[h] EXCEPT !.pc = "reserve_reread"])
    BY <1>1 DEF CallOK, CallRecords, UploadSteps, RowSteps, ObjectSteps, HeldSteps,
                FinalizeSteps, ManifestSteps, CheckedSteps
  <2> QED
    BY <1>2, <2>1, Move DEF Reserve, Steps, UploadSteps, stores
<1>3. CASE (Answer(h, "limit") \/ Answer(h, "conflict")) /\ UNCHANGED asset
  BY <1>3, PlainAnswer DEF Reserve, Replies, stores
<1>4. CASE /\ intent.status = "pending"
           /\ asset[s].status = "none"
           /\ asset' = [asset EXCEPT ![s] = [status |-> "reserved", image |-> i]]
           /\ Goto(h, "put") \/ Answer(h, "unknown")
  <2>1. PICK c \in {[call[h] EXCEPT !.pc = "put"],
                    [call[h] EXCEPT !.pc = "done", !.reply = "unknown"]} :
               call' = [call EXCEPT ![h] = c]
    BY <1>4 DEF Goto, Answer
  <2>2. /\ [call[h] EXCEPT !.pc = "put"] \in CallRecords
        /\ [call[h] EXCEPT !.pc = "done", !.reply = "unknown"] \in CallRecords
    BY <1>1 DEF CallRecords, Steps, UploadSteps, Replies
  <2>3. \/ c.pc = "put" /\ c.reply = "none" /\ c.slot = s /\ c.image = i
        \/ c.pc = "done" /\ c.reply = "unknown"
    BY <1>1, <2>1 DEF CallRecords
  <2>4. [status |-> "reserved", image |-> i] \in [status: RowStatus, image: Images \cup {NoImage}]
    BY <1>1 DEF RowStatus
  <2>5. /\ asset' \in [Slots -> [status: RowStatus, image: Images \cup {NoImage}]]
        /\ asset'[s] = [status |-> "reserved", image |-> i]
        /\ \A t \in Slots : t # s => asset'[t] = asset[t]
    BY <1>1, <1>4, <2>4 DEF IInv, TypeOK
  <2>6. Advance
    BY <1>4, <2>5 DEF Advance, Held, Reserve
  <2>7. CallOK(c)'
    BY <1>1, <2>3, <2>5
       DEF CallOK, UploadSteps, RowSteps, ObjectSteps, HeldSteps, FinalizeSteps,
           ManifestSteps, CheckedSteps, Reserved, Reserve
  <2>8. i # NoImage
    BY <1>1, NullsAssumption
  <2>9. RowsInv'
    BY <1>1, <1>4, <2>5, <2>8 DEF IInv, RowsInv, Reserve
  <2>10. IntentInv'
    BY <1>4 DEF IInv, IntentInv, Reserve
  <2>11. StagedRowHasObject'
    BY <2>5 DEF IInv, StagedRowHasObject, Reserve
  <2>12. ObjectIsReserved'
    BY <1>4, <2>5 DEF IInv, ObjectIsReserved, Reserve
  <2> QED
    BY <2>1, <2>2, <2>5, <2>6, <2>7, <2>9, <2>10, <2>11, <2>12, WriteStep
       DEF Reserve, IInv, TypeOK
<1> QED
  BY <1>2, <1>3, <1>4 DEF Reserve

\* What a put of an image that is reserved leaves, now or later.
LEMMA StoredInv ==
  ASSUME IInv, NEW s \in Slots, NEW i \in Images, Reserved(s, i), Stored(s, i),
         latePuts' \subseteq latePuts, UNCHANGED <<intent, asset, manuals>>
  PROVE  /\ Advance /\ RowsInv' /\ IntentInv' /\ StagedRowHasObject' /\ ObjectIsReserved'
         /\ object' \in [Slots -> Images \cup {NoImage}]
<1>1. /\ object' \in [Slots -> Images \cup {NoImage}]
      /\ object'[s] = IF object[s] = NoImage THEN i ELSE object[s]
      /\ \A t \in Slots : t # s => object'[t] = object[t]
  BY DEF Stored, IInv, TypeOK
<1>2. Advance
  BY <1>1 DEF Advance, Held
<1>3. RowsInv' /\ IntentInv'
  BY DEF IInv, RowsInv, IntentInv
<1>4. i # NoImage
  BY NullsAssumption
<1>5. StagedRowHasObject'
  BY <1>1, <1>4 DEF IInv, StagedRowHasObject, Reserved
<1>6. ObjectIsReserved'
  BY <1>1 DEF IInv, ObjectIsReserved, Reserved
<1> QED
  BY <1>1, <1>2, <1>3, <1>5, <1>6

LEMMA PutObjectInv ==
  ASSUME IInv, NEW h \in Handlers, PutObject(h)
  PROVE  IInv'
<1> DEFINE s == call[h].slot
           i == call[h].image
<1>1. /\ call[h] \in CallRecords /\ s \in Slots /\ i \in Images
      /\ call[h].reply = "none" /\ intent.status # "none" /\ s < intent.count
      /\ CallOK(call[h])
  BY Uploading DEF PutObject, Serving, UploadSteps
<1>2. Reserved(s, i)
  BY <1>1 DEF PutObject, Serving, CallOK, RowSteps, UploadSteps
<1>3. PICK c \in {[call[h] EXCEPT !.pc = "verify"], [call[h] EXCEPT !.pc = "head_failed"]} :
             call' = [call EXCEPT ![h] = c]
  BY DEF PutObject, Goto
<1>4. /\ [call[h] EXCEPT !.pc = "verify"] \in CallRecords
      /\ [call[h] EXCEPT !.pc = "head_failed"] \in CallRecords
  BY <1>1 DEF CallRecords, Steps, UploadSteps
<1>5. c.pc \in {"verify", "head_failed"} /\ c.reply = "none" /\ c.slot = s /\ c.image = i
  BY <1>1, <1>3 DEF CallRecords
<1>6. CallOK(c)'
  BY <1>1, <1>2, <1>5
     DEF CallOK, UploadSteps, RowSteps, ObjectSteps, HeldSteps, FinalizeSteps,
         ManifestSteps, CheckedSteps, Reserved, PutObject
<1>7. CASE Stored(s, i) /\ UNCHANGED latePuts
  <2>1. /\ Advance /\ RowsInv' /\ IntentInv' /\ StagedRowHasObject' /\ ObjectIsReserved'
        /\ object' \in [Slots -> Images \cup {NoImage}]
    BY <1>1, <1>2, <1>7, StoredInv DEF PutObject
  <2> QED
    BY <1>3, <1>4, <1>6, <1>7, <2>1, WriteStep DEF PutObject, IInv, TypeOK
<1>8. CASE latePuts' \in {latePuts, latePuts \cup {<<s, i>>}} /\ UNCHANGED object
  <2>1. Advance
    BY <1>8 DEF Advance, Held, PutObject
  <2>2. RowsInv' /\ IntentInv' /\ StagedRowHasObject'
    BY <1>8 DEF IInv, RowsInv, IntentInv, StagedRowHasObject, PutObject
  <2>3. ObjectIsReserved'
    BY <1>1, <1>2, <1>8 DEF IInv, ObjectIsReserved, Reserved, PutObject
  <2>4. latePuts' \in SUBSET (Slots \X Images)
    BY <1>1, <1>8 DEF IInv, TypeOK
  <2> QED
    BY <1>3, <1>4, <1>6, <1>8, <2>1, <2>2, <2>3, <2>4, WriteStep DEF PutObject, IInv, TypeOK
<1> QED
  BY <1>7, <1>8 DEF PutObject

\* The steps of the environment leave every request where it is.
LEMMA CallsKept ==
  ASSUME IInv, Advance, UNCHANGED call
  PROVE  \A h \in Handlers : CallOK(call[h])'
<1> SUFFICES ASSUME NEW h \in Handlers PROVE CallOK(call[h])'
  OBVIOUS
<1>1. call[h] \in CallRecords /\ CallOK(call[h])
  BY DEF IInv, TypeOK
<1>2. \A e \in CallRecords : CallOK(e) => CallOK(e)'
  BY KnowledgeIsStable
<1>3. \A e \in CallRecords : e = call[h] => CallOK(e)'
  BY <1>1, <1>2
<1>4. PICK e \in CallRecords : e = call[h]
  BY <1>1
<1>5. CallOK(e)' /\ call'[h] = e
  BY <1>3, <1>4
<1> QED
  BY <1>5 DEF CallOK

LEMMA LatePutInv ==
  ASSUME IInv, NEW s \in Slots, NEW i \in Images, LatePut(s, i)
  PROVE  IInv'
<1>1. Reserved(s, i)
  BY DEF IInv, ObjectIsReserved, LatePut, Reserved
<1>2. /\ Advance /\ RowsInv' /\ IntentInv' /\ StagedRowHasObject' /\ ObjectIsReserved'
      /\ object' \in [Slots -> Images \cup {NoImage}]
  BY <1>1, StoredInv DEF LatePut
<1>3. TypeOK'
  BY <1>2 DEF LatePut, IInv, TypeOK
<1>4. \A h \in Handlers : CallOK(call[h])'
  BY <1>2, CallsKept DEF LatePut
<1> QED
  BY <1>2, <1>3, <1>4 DEF IInv

LEMMA RecordStagedInv ==
  ASSUME IInv, NEW h \in Handlers, RecordStaged(h)
  PROVE  IInv'
<1> DEFINE s == call[h].slot
           i == call[h].image
<1>1. /\ call[h] \in CallRecords /\ s \in Slots /\ i \in Images
      /\ call[h].reply = "none" /\ intent.status # "none" /\ s < intent.count
      /\ CallOK(call[h])
  BY Uploading DEF RecordStaged, Serving, UploadSteps
<1>2. Reserved(s, i) /\ object[s] = i
  BY <1>1 DEF RecordStaged, Serving, CallOK, RowSteps, ObjectSteps, UploadSteps
<1>3. CASE /\ Stageable(s)
           /\ asset' = [asset EXCEPT ![s].status = "staged"]
           /\ Answer(h, "staged") \/ Answer(h, "unknown")
  <2>1. PICK r \in {"staged", "unknown"} : Answer(h, r)
    BY <1>3
  <2>2. PICK c \in CallRecords : c = [call[h] EXCEPT !.pc = "done", !.reply = r]
    BY <1>1, <2>1 DEF CallRecords, Steps, Replies
  <2>3. /\ call' = [call EXCEPT ![h] = c]
        /\ c.pc = "done" /\ c.reply = r /\ c.slot = s /\ c.image = i
    BY <1>1, <2>1, <2>2 DEF Answer, CallRecords
  <2>4. asset[s] \in [status: RowStatus, image: Images \cup {NoImage}]
    BY <1>1 DEF IInv, TypeOK
  <2>5. /\ asset' \in [Slots -> [status: RowStatus, image: Images \cup {NoImage}]]
        /\ asset'[s].status = "staged" /\ asset'[s].image = asset[s].image
        /\ \A t \in Slots : t # s => asset'[t] = asset[t]
    BY <1>1, <1>3, <2>4 DEF IInv, TypeOK, RowStatus
  <2>6. asset[s].status = "reserved" /\ asset[s].image = i
    BY <1>2, <1>3 DEF Stageable, Reserved
  <2>7. Advance
    BY <2>5, <2>6 DEF Advance, Held, RecordStaged
  <2>8. CallOK(c)'
    <3>1. asset'[s].status = "staged" /\ asset'[s].image = i /\ object'[s] = i
      BY <1>2, <2>5, <2>6 DEF RecordStaged
    <3> QED
      BY <1>1, <2>1, <2>3, <3>1
         DEF CallOK, UploadSteps, RowSteps, ObjectSteps, HeldSteps, FinalizeSteps,
             ManifestSteps, CheckedSteps, Reserved, Held
  <2>9. RowsInv'
    BY <2>5, <2>6 DEF IInv, RowsInv, RecordStaged
  <2>10. IntentInv'
    <3>1. intent.status = "completed" =>
            Manifest(intent.fingerprint) \subseteq Slots /\ s \notin Manifest(intent.fingerprint)
      <4>1. ASSUME intent.status = "completed", s \in Manifest(intent.fingerprint) PROVE FALSE
        <5>1. asset[s] = [status |-> "completed", image |-> intent.fingerprint.images[s]]
          BY <4>1 DEF IInv, IntentInv
        <5> QED
          BY <2>6, <5>1
      <4> QED
        BY <4>1 DEF Manifest
    <3> QED
      BY <2>5, <3>1 DEF IInv, IntentInv, RecordStaged, Manifest
  <2>11. StagedRowHasObject'
    BY <1>2, <2>5, <2>6 DEF IInv, StagedRowHasObject, RecordStaged
  <2>12. ObjectIsReserved'
    BY <2>5, <2>6 DEF IInv, ObjectIsReserved, RecordStaged
  <2> QED
    BY <2>2, <2>3, <2>5, <2>7, <2>8, <2>9, <2>10, <2>11, <2>12, WriteStep
       DEF RecordStaged, IInv, TypeOK
<1>4. CASE (Answer(h, "unknown") \/ Answer(h, "conflict")) /\ UNCHANGED asset
  BY <1>4, PlainAnswer DEF RecordStaged, Replies, stores
<1>5. CASE ~Stageable(s) /\ UNCHANGED asset
           /\ \E pc \in {"reread", "reread_found"} : Goto(h, pc)
  <2>1. PICK pc \in {"reread", "reread_found"} : Goto(h, pc)
    BY <1>5
  <2>2. Held(s)
    BY <1>1, <1>2, <1>5 DEF Held, Stageable, Reserved, IInv, TypeOK, RowStatus
  <2>3. CallOK([call[h] EXCEPT !.pc = pc])
    BY <1>1, <1>2, <2>1, <2>2 DEF CallOK, CallRecords, UploadSteps, RowSteps, ObjectSteps,
                HeldSteps, FinalizeSteps, ManifestSteps, CheckedSteps
  <2> QED
    BY <1>5, <2>1, <2>3, Move DEF RecordStaged, Steps, UploadSteps, stores
<1> QED
  BY <1>3, <1>4, <1>5 DEF RecordStaged

\* Staged slots that number as many as the intent was created for are all of
\* the intent's slots: rows are only ever reserved below its count.
LEMMA ManifestIsWhole ==
  ASSUME IInv, NEW p \in Payloads, CoversCount(p), \A s \in Manifest(p) : Held(s)
  PROVE  Manifest(p) = 0..(intent.count - 1)
<1>1. intent.count \in Nat
  BY DEF IInv, TypeOK
<1>2. Manifest(p) \subseteq 0..(intent.count - 1)
  <2> SUFFICES ASSUME NEW s \in Manifest(p) PROVE s \in 0..(intent.count - 1)
    OBVIOUS
  <2>1. s \in Slots
    BY DEF Manifest
  <2>2. asset[s].status # "none"
    BY DEF Held
  <2>3. s < intent.count
    BY <2>1, <2>2 DEF IInv, RowsInv
  <2> QED
    BY <1>1, <2>1, <2>3, MaxSlotsAssumption DEF Slots
<1>3. /\ IsFiniteSet(0..(intent.count - 1))
      /\ Cardinality(0..(intent.count - 1)) = intent.count
  <2> DEFINE n == intent.count - 1
  <2>1. n \in Int /\ n + 1 = intent.count /\ (0 > n <=> intent.count = 0)
    BY <1>1
  <2>2. IsFiniteSet(0..n) /\ Cardinality(0..n) = IF 0 > n THEN 0 ELSE n - 0 + 1
    <3> HIDE DEF n
    <3> QED
      BY <2>1, FS_Interval
  <2> QED
    BY <1>1, <2>1, <2>2
<1> QED
  BY <1>2, <1>3, FS_Subset DEF CoversCount

LEMMA CommitClaimInv ==
  ASSUME IInv, NEW h \in Handlers, CommitClaim(h)
  PROVE  IInv'
<1> DEFINE p == call[h].payload
<1>1. /\ call[h] \in CallRecords /\ p \in Payloads /\ call[h].reply = "none"
      /\ intent.status # "none" /\ CoversCount(p)
      /\ \A s \in Manifest(p) : Held(s) /\ asset[s].image = p.images[s]
  BY DEF IInv, TypeOK, CallOK, CommitClaim, Serving, FinalizeSteps, ManifestSteps, CheckedSteps
<1>2. CASE Goto(h, "finalize_reread") /\ UNCHANGED <<intent, manuals, asset>>
  <2>1. CallOK([call[h] EXCEPT !.pc = "finalize_reread"])
    BY <1>1 DEF CallOK, CallRecords, UploadSteps, RowSteps, ObjectSteps, HeldSteps,
                FinalizeSteps, ManifestSteps, CheckedSteps
  <2> QED
    BY <1>2, <2>1, Move DEF CommitClaim, Steps, FinalizeSteps, stores
<1>3. CASE MayCommit(h) /\ ~(Goto(h, "finalize_reread") /\ UNCHANGED <<intent, manuals, asset>>)
  <2>1. intent.status = "pending" /\ manuals = <<>> /\ Len(manuals) + 1 = 1
    BY <1>3 DEF MayCommit, IInv, IntentInv
  <2>2. Completable(p) = Manifest(p)
    <3>1. ASSUME NEW s \in Manifest(p)
          PROVE  asset[s] = [status |-> "staged", image |-> p.images[s]]
      <4>1. s \in Slots /\ asset[s] \in [status: RowStatus, image: Images \cup {NoImage}]
        BY DEF Manifest, IInv, TypeOK
      <4>2. asset[s].status = "staged" /\ asset[s].image = p.images[s]
        BY <1>1, <2>1, <4>1 DEF IInv, RowsInv, Held
      <4> QED
        BY <4>1, <4>2
    <3> QED
      BY <3>1 DEF Completable
  <2>3. /\ intent' = [intent EXCEPT !.status = "completed", !.fingerprint = p, !.manual = 1]
        /\ manuals' = Append(manuals, p)
        /\ asset' = [s \in Slots |-> IF s \in Manifest(p)
                                     THEN [asset[s] EXCEPT !.status = "completed"]
                                     ELSE asset[s]]
        /\ AnswerManual(h, "claimed", 1) \/ Answer(h, "unknown")
    BY <1>3, <2>1, <2>2 DEF CommitClaim
  <2>4. PICK c \in {[call[h] EXCEPT !.pc = "done", !.reply = "claimed", !.manual = 1],
                    [call[h] EXCEPT !.pc = "done", !.reply = "unknown"]} :
               call' = [call EXCEPT ![h] = c]
    BY <2>3 DEF AnswerManual, Answer
  <2>5. /\ [call[h] EXCEPT !.pc = "done", !.reply = "claimed", !.manual = 1] \in CallRecords
        /\ [call[h] EXCEPT !.pc = "done", !.reply = "unknown"] \in CallRecords
    BY <1>1 DEF CallRecords, Steps, Replies
  <2>6. /\ c.pc = "done" /\ c.payload = p
        /\ \/ c.reply = "claimed" /\ c.manual = 1
           \/ c.reply = "unknown"
    BY <1>1, <2>4 DEF CallRecords
  <2>7. intent \in [status: {"none", "pending", "completed"}, count: 0..MaxSlots,
                    fingerprint: Payloads \cup {NoPayload}, manual: Nat]
    BY DEF IInv, TypeOK
  <2>8. /\ intent' \in [status: {"none", "pending", "completed"}, count: 0..MaxSlots,
                        fingerprint: Payloads \cup {NoPayload}, manual: Nat]
        /\ intent'.status = "completed" /\ intent'.count = intent.count
        /\ intent'.fingerprint = p /\ intent'.manual = 1
    BY <1>1, <2>3, <2>7
  <2>9. manuals' = <<p>> /\ manuals' \in Seq(Payloads)
    BY <1>1, <2>1, <2>3
  <2>10. ASSUME NEW s \in Slots
         PROVE  /\ asset'[s] \in [status: RowStatus, image: Images \cup {NoImage}]
                /\ asset'[s].image = asset[s].image
                /\ asset'[s].status = IF s \in Manifest(p) THEN "completed" ELSE asset[s].status
    BY <2>3 DEF IInv, TypeOK, RowStatus
  <2>11. asset' \in [Slots -> [status: RowStatus, image: Images \cup {NoImage}]]
    BY <2>3, <2>10
  <2>12. \A s \in Manifest(p) : s \in Slots /\ Held(s) /\ asset[s].status # "none"
    BY <1>1 DEF Manifest, Held
  <2>13. Advance
    BY <1>1, <2>1, <2>8, <2>10 DEF Advance, Held, CommitClaim
  <2>14. CallOK(c)'
    BY <2>6, <2>8
       DEF CallOK, UploadSteps, RowSteps, ObjectSteps, HeldSteps, FinalizeSteps,
           ManifestSteps, CheckedSteps, SavedFor
  <2>15. RowsInv'
    BY <2>1, <2>8, <2>10, <2>12 DEF IInv, RowsInv
  <2>16. IntentInv'
    <3>1. Manifest(p) = 0..(intent.count - 1)
      BY <1>1, ManifestIsWhole
    <3>2. ASSUME NEW s \in Manifest(p)
          PROVE  asset'[s] = [status |-> "completed", image |-> p.images[s]]
      <4>1. s \in Slots /\ asset[s].image = p.images[s]
        BY <1>1, <2>12
      <4> QED
        BY <2>10, <4>1
    <3> QED
      BY <1>1, <2>8, <2>9, <3>1, <3>2 DEF IntentInv, Manifest
  <2>17. StagedRowHasObject'
    BY <2>10, <2>12 DEF IInv, StagedRowHasObject, Held, CommitClaim
  <2>18. ObjectIsReserved'
    BY <2>10, <2>12 DEF IInv, ObjectIsReserved, CommitClaim
  <2> QED
    BY <2>4, <2>5, <2>8, <2>9, <2>11, <2>13, <2>14, <2>15, <2>16, <2>17, <2>18, WriteStep
       DEF CommitClaim, IInv, TypeOK
<1> QED
  BY <1>2, <1>3 DEF CommitClaim

\* The passing of time and the loss of the owner's rights touch no store.
LEMMA EnvironmentInv ==
  ASSUME IInv, Expire \/ Deactivate
  PROVE  IInv'
<1>1. UNCHANGED <<stores, call>> /\ expired' \in BOOLEAN /\ owner' \in BOOLEAN
  BY DEF Expire, Deactivate, IInv, TypeOK
<1>2. TypeOK'
  BY <1>1 DEF IInv, TypeOK, stores
<1>3. RowsInv' /\ IntentInv' /\ StagedRowHasObject' /\ ObjectIsReserved'
  BY <1>1 DEF IInv, RowsInv, IntentInv, StagedRowHasObject, ObjectIsReserved, stores
<1>4. Advance
  BY <1>1 DEF Advance, Held, stores
<1>5. \A h \in Handlers : CallOK(call[h])'
  BY <1>1, <1>4, CallsKept
<1> QED
  BY <1>2, <1>3, <1>5 DEF IInv

-----------------------------------------------------------------------------
(***************************************************************************)
(* The invariant is inductive, and what follows from it.                   *)
(***************************************************************************)

\* Every step of the Worker and of its environment preserves the invariant.
LEMMA NextIInv == IInv /\ [Next]_vars => IInv'
<1> SUFFICES ASSUME IInv, [Next]_vars PROVE IInv'
  OBVIOUS
<1>1. CASE UNCHANGED vars
  <2>1. TypeOK'
    BY <1>1 DEF IInv, TypeOK, vars
  <2>2. RowsInv' /\ IntentInv' /\ StagedRowHasObject' /\ ObjectIsReserved'
    BY <1>1 DEF IInv, RowsInv, IntentInv, StagedRowHasObject, ObjectIsReserved, vars
  <2>3. Advance /\ UNCHANGED call
    BY <1>1 DEF Advance, Held, vars
  <2> QED
    BY <2>1, <2>2, <2>3, CallsKept DEF IInv
<1>2. ASSUME NEW h \in Handlers, Receive(h) PROVE IInv'
  BY <1>2, ReceiveCreateInv, ReceiveUploadInv, ReceiveFinalizeInv, ReceiveStatusInv
     DEF Receive, AssetCounts
<1>3. ASSUME NEW h \in Handlers, Step(h) PROVE IInv'
  BY <1>3, InsertIntentInv, ReadIntentInv, FindRowInv, HeadFoundInv, ReserveInv, ReserveRereadInv,
     HeadReservedInv, PutObjectInv, HeadAfterPutInv, RecordStagedInv, RereadRowInv, ReadRowsInv,
     ReadHeadsInv, CommitClaimInv, FinalizeRereadInv, FaultInv DEF Step
<1>4. ASSUME NEW s \in Slots, NEW i \in Images, LatePut(s, i) PROVE IInv'
  BY <1>4, LatePutInv
<1>5. CASE Expire \/ Deactivate
  BY <1>5, EnvironmentInv
<1> QED
  BY <1>1, <1>2, <1>3, <1>4, <1>5 DEF Next

\* The rows, the objects, the intent and the requests are always consistent
\* with each other.
THEOREM Consistent == Spec => []IInv
BY InitIInv, NextIInv, PTL DEF Spec

\* No query or object key of the routes ever leaves its type: in particular no
\* slot, count or manual outside its range is stored.
THEOREM TypeCorrect == Spec => []TypeOK
<1>1. IInv => TypeOK
  BY DEF IInv
<1> QED
  BY <1>1, Consistent, PTL

\* However many finalize requests race, a claim makes one manual: the batch's
\* first statement lets only one of them through.
THEOREM OneManual == Spec => []OneManualPerClaim
<1>1. IInv => OneManualPerClaim
  BY DEF IInv, IntentInv, OneManualPerClaim
<1> QED
  BY <1>1, Consistent, PTL

\* A completed claim has a completed row and an object for each of its slots.
THEOREM CompletedIsWhole == Spec => []CompletedClaimIsWhole
<1>1. IInv => CompletedClaimIsWhole
  <2> SUFFICES ASSUME IInv, intent.status = "completed"
               PROVE  /\ Manifest(intent.fingerprint) = 0..(intent.count - 1)
                      /\ \A s \in Manifest(intent.fingerprint) :
                           /\ asset[s] = [status |-> "completed",
                                         image |-> intent.fingerprint.images[s]]
                           /\ object[s] = intent.fingerprint.images[s]
    BY DEF CompletedClaimIsWhole
  <2>1. Manifest(intent.fingerprint) = 0..(intent.count - 1)
    BY DEF IInv, IntentInv
  <2>2. ASSUME NEW s \in Manifest(intent.fingerprint)
        PROVE  /\ asset[s] = [status |-> "completed", image |-> intent.fingerprint.images[s]]
               /\ object[s] = intent.fingerprint.images[s]
    <3>1. asset[s] = [status |-> "completed", image |-> intent.fingerprint.images[s]]
      BY DEF IInv, IntentInv
    <3>2. s \in Slots
      BY DEF Manifest
    <3> QED
      BY <3>1, <3>2 DEF IInv, StagedRowHasObject
  <2> QED
    BY <2>1, <2>2
<1> QED
  BY <1>1, Consistent, PTL

\* A "claimed" answer is about the manual made from the client's own payload,
\* whoever finalized the claim.
THEOREM ClaimedIsTrue == Spec => []ClaimedAnswerIsTrue
<1>1. IInv => ClaimedAnswerIsTrue
  <2> SUFFICES ASSUME IInv, NEW h \in Handlers, call[h].reply = "claimed"
               PROVE  call[h].manual \in 1..Len(manuals) /\ manuals[call[h].manual] = call[h].payload
    BY DEF ClaimedAnswerIsTrue
  <2>1. SavedFor(call[h].payload) /\ call[h].manual = 1
    BY DEF IInv, CallOK
  <2>2. manuals = <<call[h].payload>>
    BY <2>1 DEF SavedFor, IInv, IntentInv
  <2> QED
    BY <2>1, <2>2
<1> QED
  BY <1>1, Consistent, PTL

\* A "staged" answer stays true: the row and the object are there for good.
THEOREM StagedIsTrue == Spec => []StagedAnswerIsTrue
<1>1. IInv => StagedAnswerIsTrue
  BY DEF IInv, CallOK, Reserved, Held, StagedAnswerIsTrue
<1> QED
  BY <1>1, Consistent, PTL

\* Neither of the two stores is ever ahead of what the other can account for:
\* no staged row without its object, no object without its row.
THEOREM StoresAgree == Spec => [](StagedRowHasObject /\ ObjectIsReserved)
<1>1. IInv => StagedRowHasObject /\ ObjectIsReserved
  BY DEF IInv
<1> QED
  BY <1>1, Consistent, PTL

\* Once its owner is deactivated, a request that was already let in writes
\* nothing to D1.
THEOREM InactiveOwnerWritesNothing == Spec => NoWriteForInactiveOwner
<1>1. [Next]_vars => [~owner => UNCHANGED <<intent, asset, manuals>>]_vars
  <2> SUFFICES ASSUME [Next]_vars, ~owner PROVE UNCHANGED <<intent, asset, manuals>>
    OBVIOUS
  <2>1. CASE UNCHANGED vars
    BY <2>1 DEF vars
  <2>2. ASSUME NEW h \in Handlers, Receive(h) PROVE UNCHANGED <<intent, asset, manuals>>
    BY <2>2 DEF Receive, ReceiveCreate, ReceiveUpload, ReceiveFinalize, ReceiveStatus, stores
  <2>3. ASSUME NEW h \in Handlers, Step(h) PROVE UNCHANGED <<intent, asset, manuals>>
    <3>1. CASE InsertIntent(h) \/ Reserve(h) \/ RecordStaged(h) \/ CommitClaim(h)
      BY <3>1 DEF InsertIntent, Reserve, RecordStaged, CommitClaim, MayCommit
    <3>2. CASE PutObject(h)
      BY <3>2 DEF PutObject
    <3>3. CASE UNCHANGED stores
      BY <3>3 DEF stores
    <3> QED
      BY <2>3, <3>1, <3>2, <3>3
         DEF Step, ReadIntent, FindRow, HeadFound, ReserveReread, HeadReserved, HeadAfterPut,
             RereadRow, ReadRows, ReadHeads, FinalizeReread, Fault
  <2>4. CASE (\E s \in Slots, i \in Images : LatePut(s, i)) \/ Expire \/ Deactivate
    BY <2>4 DEF LatePut, Expire, Deactivate, stores
  <2> QED
    BY <2>1, <2>2, <2>3, <2>4 DEF Next
<1> QED
  BY <1>1, PTL DEF Spec, NoWriteForInactiveOwner

\* What ForwardOnly says of one step.
StepsForward ==
  /\ \A s \in Slots :
       /\ StatusRank[asset[s].status] <= StatusRank[asset'[s].status]
       /\ asset[s].status # "none" => asset'[s].image = asset[s].image
       /\ object[s] # NoImage => object'[s] = object[s]
  /\ intent.status = "completed" => intent' = intent

LEMMA StatusRanks == StatusRank \in [RowStatus -> 0..3] /\ StatusRank["none"] = 0
                     /\ StatusRank["reserved"] = 1 /\ StatusRank["staged"] = 2
                     /\ StatusRank["completed"] = 3
BY DEF StatusRank, RowStatus

\* A row that stays as it is or takes the next status goes forward.
LEMMA RowsForward ==
  ASSUME IInv, UNCHANGED object, intent.status = "completed" => intent' = intent,
         \A s \in Slots :
           \/ asset'[s] = asset[s]
           \/ asset[s].status = "none" /\ asset'[s].status = "reserved"
           \/ /\ asset'[s].image = asset[s].image
              /\ \/ asset[s].status = "reserved" /\ asset'[s].status = "staged"
                 \/ asset[s].status = "staged" /\ asset'[s].status = "completed"
  PROVE  StepsForward
<1> SUFFICES ASSUME NEW s \in Slots
             PROVE  /\ StatusRank[asset[s].status] <= StatusRank[asset'[s].status]
                    /\ asset[s].status # "none" => asset'[s].image = asset[s].image
  BY DEF StepsForward
<1>1. StatusRank[asset[s].status] \in 0..3
  BY StatusRanks DEF IInv, TypeOK
<1>2. CASE asset'[s] = asset[s]
  BY <1>1, <1>2
<1>3. CASE asset[s].status = "none" /\ asset'[s].status = "reserved"
  BY <1>3, StatusRanks
<1>4. CASE /\ asset'[s].image = asset[s].image
           /\ \/ asset[s].status = "reserved" /\ asset'[s].status = "staged"
              \/ asset[s].status = "staged" /\ asset'[s].status = "completed"
  BY <1>4, StatusRanks
<1> QED
  BY <1>2, <1>3, <1>4

LEMMA UnchangedIsForward ==
  ASSUME IInv, UNCHANGED <<intent, asset, object>>
  PROVE  StepsForward
BY RowsForward

\* Rows, objects and the completed intent only ever advance.
THEOREM Forward == Spec => ForwardOnly
<1>1. IInv /\ [Next]_vars => [StepsForward]_vars
  <2> SUFFICES ASSUME IInv, [Next]_vars PROVE StepsForward
    OBVIOUS
  <2>1. CASE UNCHANGED <<intent, asset, object>>
    BY <2>1, UnchangedIsForward
  <2>2. ASSUME NEW h \in Handlers, InsertIntent(h) PROVE StepsForward
    <3>1. UNCHANGED <<asset, object>> /\ (intent.status = "completed" => intent' = intent)
      BY <2>2 DEF InsertIntent
    <3> QED
      BY <3>1, RowsForward
  <2>3. ASSUME NEW h \in Handlers, Reserve(h) PROVE StepsForward
    <3>1. UNCHANGED <<intent, object>>
      BY <2>3 DEF Reserve
    <3>2. ASSUME NEW s \in Slots
          PROVE  \/ asset'[s] = asset[s]
                 \/ asset[s].status = "none" /\ asset'[s].status = "reserved"
      BY <2>3 DEF Reserve, IInv, TypeOK
    <3> QED
      BY <3>1, <3>2, RowsForward
  <2>4. ASSUME NEW h \in Handlers, RecordStaged(h) PROVE StepsForward
    <3>1. UNCHANGED <<intent, object>>
      BY <2>4 DEF RecordStaged
    <3>2. ASSUME NEW s \in Slots
          PROVE  \/ asset'[s] = asset[s]
                 \/ /\ asset[s].status = "reserved" /\ asset'[s].status = "staged"
                    /\ asset'[s].image = asset[s].image
      BY <2>4 DEF RecordStaged, Stageable, IInv, TypeOK
    <3> QED
      BY <3>1, <3>2, RowsForward
  <2>5. ASSUME NEW h \in Handlers, CommitClaim(h) PROVE StepsForward
    <3>1. UNCHANGED object /\ (intent.status = "completed" => intent' = intent)
      BY <2>5 DEF CommitClaim, MayCommit
    <3>2. ASSUME NEW s \in Slots
          PROVE  \/ asset'[s] = asset[s]
                 \/ /\ asset[s].status = "staged" /\ asset'[s].status = "completed"
                    /\ asset'[s].image = asset[s].image
      BY <2>5 DEF CommitClaim, Completable, IInv, TypeOK
    <3> QED
      BY <3>1, <3>2, RowsForward
  <2>6. ASSUME NEW s \in Slots, NEW i \in Images, Stored(s, i), UNCHANGED <<intent, asset>>
        PROVE  StepsForward
    <3>1. \A t \in Slots : StatusRank[asset[t].status] \in 0..3
      BY StatusRanks DEF IInv, TypeOK
    <3>2. \A t \in Slots : object[t] # NoImage => object'[t] = object[t]
      BY <2>6 DEF Stored, IInv, TypeOK
    <3> QED
      BY <2>6, <3>1, <3>2 DEF StepsForward
  <2>7. ASSUME NEW h \in Handlers, PutObject(h) PROVE StepsForward
    <3>1. call[h].slot \in Slots /\ call[h].image \in Images
      BY <2>7, Uploading DEF PutObject, Serving, UploadSteps
    <3> QED
      BY <2>6, <2>7, <3>1, UnchangedIsForward DEF PutObject
  <2>8. ASSUME NEW h \in Handlers, Receive(h) PROVE StepsForward
    BY <2>1, <2>8 DEF Receive, ReceiveCreate, ReceiveUpload, ReceiveFinalize, ReceiveStatus, stores
  <2>9. ASSUME NEW h \in Handlers, Step(h) PROVE StepsForward
    <3>1. CASE UNCHANGED stores
      BY <2>1, <3>1 DEF stores
    <3> QED
      BY <2>2, <2>3, <2>4, <2>5, <2>7, <2>9, <3>1
         DEF Step, ReadIntent, FindRow, HeadFound, ReserveReread, HeadReserved, HeadAfterPut,
             RereadRow, ReadRows, ReadHeads, FinalizeReread, Fault
  <2>10. CASE \E s \in Slots, i \in Images : LatePut(s, i)
    BY <2>6, <2>10 DEF LatePut
  <2>11. CASE Expire \/ Deactivate \/ UNCHANGED vars
    BY <2>1, <2>11 DEF Expire, Deactivate, vars, stores
  <2> QED
    BY <2>8, <2>9, <2>10, <2>11 DEF Next
<1> QED
  BY <1>1, Consistent, PTL DEF Spec, ForwardOnly, StepsForward

-----------------------------------------------------------------------------
(***************************************************************************)
(* CloudClaim implements ClaimOnce: proof of the refinement.               *)
(***************************************************************************)

\* What a request was told, as ClaimOnce sees it.
Told(c) == IF c.reply = "claimed" THEN c.payload ELSE NoPayload
ToldAll == [h \in Handlers |-> Told(call[h])]

\* Before any request nothing is made and nobody is told anything.
LEMMA InitOnce == Init => Once!Init
BY DEF Init, Once!Init, IdleCall

\* Whatever one request does without making a manual is a new request, no
\* news, or the answer that the payload is the one that was saved.
LEMMA OneCall ==
  ASSUME IInv, IInv', NEW h \in Handlers, call' = [call EXCEPT ![h] = call'[h]],
         UNCHANGED manuals
  PROVE  [Once!Next]_(Once!vars)
<1>1. ToldAll' = [ToldAll EXCEPT ![h] = Told(call'[h])]
  BY DEF ToldAll, Told, IInv, TypeOK
<1>2. CASE call'[h].reply = "claimed"
  <2>1. SavedFor(call[h].payload)'
    BY <1>2 DEF IInv, CallOK
  <2>2. manuals' = <<call'[h].payload>>
    BY <2>1 DEF SavedFor, IInv, IntentInv
  <2>3. manuals # <<>> /\ Told(call'[h]) = manuals[1]
    BY <1>2, <2>2 DEF Told
  <2>4. Once!Confirm(h)
    BY <1>1, <2>3 DEF Once!Confirm, ToldAll, Told
  <2> QED
    BY <2>4 DEF Once!Next
<1>3. CASE call'[h].reply # "claimed"
  <2>1. Once!Ask(h)
    BY <1>1, <1>3 DEF Once!Ask, ToldAll, Told
  <2> QED
    BY <2>1 DEF Once!Next
<1> QED
  BY <1>2, <1>3

\* The batch that completes the claim is the one that saves its payload.
LEMMA CommitOnce ==
  ASSUME IInv, IInv', NEW h \in Handlers, CommitClaim(h)
  PROVE  [Once!Next]_(Once!vars)
<1> DEFINE p == call[h].payload
<1>1. /\ call \in [Handlers -> CallRecords] /\ call[h].reply = "none" /\ p \in Payloads
  BY DEF IInv, TypeOK, CallOK, CommitClaim, Serving, FinalizeSteps
<1>2. CASE ~MayCommit(h)
  <2>1. UNCHANGED manuals /\ call' = [call EXCEPT ![h] = call'[h]]
    BY <1>1, <1>2 DEF CommitClaim, Goto
  <2> QED
    BY <2>1, OneCall
<1>3. CASE MayCommit(h)
  <2>1. manuals = <<>>
    BY <1>3 DEF MayCommit, IInv, IntentInv
  <2>2. manuals' = <<p>>
    <3>1. manuals' = Append(manuals, p)
      BY <1>3 DEF CommitClaim
    <3> QED
      BY <2>1, <3>1
  <2>3. \/ \E m \in {Len(manuals) + 1} : AnswerManual(h, "claimed", m)
        \/ Goto(h, "finalize_reread")
        \/ Answer(h, "unknown")
    BY <1>3 DEF CommitClaim
  <2>4. /\ call'[h].payload = p
        /\ call' = [call EXCEPT ![h] = call'[h]]
        /\ call'[h].reply \in {"claimed", "none", "unknown"}
    BY <1>1, <2>3 DEF AnswerManual, Goto, Answer, CallRecords
  <2>5. ToldAll' = [ToldAll EXCEPT ![h] = Told(call'[h])]
    BY <1>1, <2>4 DEF ToldAll, Told
  <2>6. ToldAll' \in {ToldAll, [ToldAll EXCEPT ![h] = p]}
    BY <1>1, <2>4, <2>5 DEF ToldAll, Told
  <2> HIDE DEF p
  <2>7. \E v \in Payloads : Once!Save(h, v)
    BY <1>1, <2>1, <2>2, <2>6 DEF Once!Save, ToldAll, Told
  <2> QED
    BY <2>7 DEF Once!Next
<1> QED
  BY <1>2, <1>3

\* Every step of the Worker and of its environment is a step of ClaimOnce or
\* leaves unchanged what ClaimOnce sees.
LEMMA NextOnce == IInv /\ IInv' /\ [Next]_vars => [Once!Next]_(Once!vars)
<1> SUFFICES ASSUME IInv, IInv', [Next]_vars PROVE [Once!Next]_(Once!vars)
  OBVIOUS
<1>1. call \in [Handlers -> CallRecords]
  BY DEF IInv, TypeOK
<1>2. CASE UNCHANGED <<manuals, call>>
  BY <1>2 DEF Once!vars
<1>3. ASSUME NEW h \in Handlers, Receive(h) PROVE [Once!Next]_(Once!vars)
  <2>1. call' = [call EXCEPT ![h] = call'[h]] /\ UNCHANGED manuals
    BY <1>1, <1>3 DEF Receive, ReceiveCreate, ReceiveUpload, ReceiveFinalize, ReceiveStatus,
                      Accept, stores
  <2> QED
    BY <2>1, OneCall
<1>4. ASSUME NEW h \in Handlers, Step(h) PROVE [Once!Next]_(Once!vars)
  <2>1. CASE CommitClaim(h)
    BY <2>1, CommitOnce
  <2>2. CASE ~CommitClaim(h)
    <3>1. call' = [call EXCEPT ![h] = call'[h]] /\ UNCHANGED manuals
      BY <1>1, <1>4, <2>2
         DEF Step, InsertIntent, ReadIntent, FindRow, HeadFound, Reserve, ReserveReread,
             HeadReserved, PutObject, HeadAfterPut, RecordStaged, RereadRow, ReadRows,
             ReadHeads, FinalizeReread, Fault, Goto, Answer, AnswerManual, stores
    <3> QED
      BY <3>1, OneCall
  <2> QED
    BY <2>1, <2>2
<1>5. CASE \E s \in Slots, i \in Images : LatePut(s, i)
  BY <1>2, <1>5 DEF LatePut
<1>6. CASE Expire \/ Deactivate \/ UNCHANGED vars
  BY <1>2, <1>6 DEF Expire, Deactivate, vars, stores
<1> QED
  BY <1>3, <1>4, <1>5, <1>6 DEF Next

\* The claim routes, D1 and R2 together implement ClaimOnce: of the payloads
\* that clients finalize one becomes a manual, once, and "claimed" is only
\* answered to those who sent it.
THEOREM Implements == Spec => ImplementsClaimOnce
<1>1. Spec => []IInv
  BY Consistent
<1> QED
  BY <1>1, InitOnce, NextOnce, PTL DEF Spec, ImplementsClaimOnce, Once!Spec
=============================================================================
