----------------------------- MODULE DraftEditor -----------------------------
(***************************************************************************)
(* The editor page of a draft in the extension: what is typed changes the  *)
(* draft in memory at once, every change is written to IndexedDB by one    *)
(* queue, and image edits are written first and merged into the draft      *)
(* afterwards, while the user goes on editing.                             *)
(*                                                                         *)
(* A text, a title or a bitmap has a number of its own, from the act that  *)
(* made it.                                                                *)
(* Masks (with the annotations) are the act that drew them and the bitmap  *)
(* they were drawn on.  An image has the number of its first bitmap.       *)
(***************************************************************************)
EXTENDS Naturals, Sequences, FiniteSets

CONSTANTS MaxImages, \* MAX_IMAGE_COUNT and MAX_IMAGE_TOTAL_BYTES, as a number of images
          MaxActs,   \* what the person does
          MaxFaults  \* writes that fail, images that cannot be read

ASSUME DraftEditorAssumption == {MaxImages, MaxActs, MaxFaults} \subseteq Nat /\ MaxImages # 0

VARIABLES draft,   \* the draft in memory
          title,   \* the title in its input
          stored,  \* the draft in IndexedDB
          queue,   \* persistQueue: the operations that wait, the running one first
          write,   \* how far the running operation is
          reading, \* uploads whose file is being read
          dialog,  \* the image editor
          label,   \* the save state shown
          done,    \* the steps and images as the person's acts make them, one after the other
          acts, faults

StepIds == 1 .. MaxActs + 2
vars == <<draft, title, stored, queue, write, reading, dialog, label, done, acts, faults>>
page == <<draft, title, stored, queue, write, reading, dialog, label, done>>

NoMasks == [on |-> 0, by |-> 0]
Closed == [at |-> "closed", step |-> 0, image |-> 0, bitmap |-> 0, by |-> 0]
NoWrite == [at |-> "idle", base |-> <<>>, put |-> <<>>]
Plain == [kind |-> "plain", step |-> 0, image |-> 0, bitmap |-> 0, by |-> 0]

(* A recording whose last two actions share one screenshot.                *)
Recorded == [title |-> 0,
             steps |-> <<[id |-> 1, text |-> 0, shot |-> 1], [id |-> 2, text |-> 0, shot |-> 1]>>,
             images |-> [i \in {1} |-> [bitmap |-> 1, masks |-> NoMasks]]]

Init ==
    /\ draft = Recorded /\ title = 0 /\ stored = Recorded
    /\ queue = <<>> /\ write = NoWrite /\ reading = {}
    /\ dialog = Closed /\ label = "saved"
    /\ done = [steps |-> Recorded.steps, images |-> Recorded.images]
    /\ acts = 0 /\ faults = 0

Ids(steps) == {steps[k].id : k \in DOMAIN steps}
Place(steps, s) == CHOOSE k \in DOMAIN steps : steps[k].id = s
Step(steps, s) == steps[Place(steps, s)]
Used(steps) == {steps[k].shot : k \in DOMAIN steps} \ {0}
Fails == faults < MaxFaults /\ faults' = faults + 1
----------------------------------------------------------------------------
(* What the person does.  The image editor is a modal dialog: while it is  *)
(* open nothing else on the page can be used.                              *)
Now == acts + 3
Act == acts < MaxActs /\ acts' = acts + 1
OnPage == Act /\ dialog.at = "closed" /\ UNCHANGED faults
Enqueue(op) == queue' = Append(queue, op)

TypeTitle ==
    /\ OnPage
    /\ title' = Now
    /\ Enqueue(Plain)
    /\ UNCHANGED <<draft, stored, write, reading, dialog, label, done>>

(* A handler of the page changes the steps in memory and asks for a write. *)
ChangeSteps(steps, doneSteps) ==
    /\ draft' = [draft EXCEPT !.steps = steps]
    /\ done' = [done EXCEPT !.steps = doneSteps]
    /\ Enqueue(Plain)
    /\ UNCHANGED <<title, stored, write, reading, dialog, label>>

WithText(steps, s) == [steps EXCEPT ![Place(steps, s)].text = Now]
UpdateStepInstruction(s) ==
    /\ OnPage /\ s \in Ids(draft.steps)
    /\ ChangeSteps(WithText(draft.steps, s), WithText(done.steps, s))

\* a new step takes the first screenshot that no step uses
FirstUnassigned(steps, images) ==
    LET free == DOMAIN images \ Used(steps) IN
    IF free = {} THEN 0 ELSE CHOOSE i \in free : \A j \in free : i <= j
NewStep(steps, images) == Append(steps, [id |-> Now, text |-> 0, shot |-> FirstUnassigned(steps, images)])
AddStep == OnPage /\ ChangeSteps(NewStep(draft.steps, draft.images), NewStep(done.steps, done.images))

Without(steps, s) ==
    [k \in 1 .. Len(steps) - 1 |-> steps[IF k < Place(steps, s) THEN k ELSE k + 1]]
DeleteStep(s) ==
    /\ OnPage /\ s \in Ids(draft.steps)
    /\ ChangeSteps(Without(draft.steps, s), Without(done.steps, s))

Swapped(steps, k) == [steps EXCEPT ![k] = steps[k + 1], ![k + 1] = steps[k]]
MoveStep(k) ==
    /\ OnPage /\ k \in DOMAIN draft.steps /\ k + 1 \in DOMAIN draft.steps
    /\ ChangeSteps(Swapped(draft.steps, k), Swapped(done.steps, k))

(* A file is chosen; it is read and encoded anew before the write is asked *)
(* for, and other acts may come between.                                   *)
ChooseFile(s) ==
    /\ OnPage /\ s \in Ids(draft.steps)
    /\ reading' = reading \cup {[kind |-> "upload", step |-> s, image |-> 0, bitmap |-> Now, by |-> 0]}
    /\ UNCHANGED <<draft, title, stored, queue, write, dialog, label, done>>

NormalizeUploadedImage(u) ==
    /\ u \in reading
    /\ reading' = reading \ {u}
    /\ \/ Enqueue(u) /\ UNCHANGED faults
       \/ Fails /\ UNCHANGED queue
    /\ UNCHANGED <<draft, title, stored, write, dialog, label, done, acts>>

OpenImageEditor(s) ==
    /\ dialog.at = "closed" /\ acts < MaxActs
    /\ s \in Ids(draft.steps) /\ Step(draft.steps, s).shot # 0
    /\ LET i == Step(draft.steps, s).shot IN
       dialog' = [Closed EXCEPT !.at = "editing", !.step = s, !.image = i, !.bitmap = draft.images[i].bitmap]
    /\ UNCHANGED <<draft, title, stored, queue, write, reading, label, done, acts, faults>>

(* onSave compares the image of the step with the one the editor was       *)
(* opened on before it asks for the write.                                 *)
SameBitmap(images, op) == op.image \in DOMAIN images /\ images[op.image].bitmap = op.bitmap
SaveMasks ==
    /\ Act /\ dialog.at = "editing"
    /\ IF SameBitmap(draft.images, dialog)
       THEN /\ dialog' = [dialog EXCEPT !.at = "saving", !.by = Now]
            /\ Enqueue([kind |-> "masks", step |-> dialog.step, image |-> dialog.image, bitmap |-> dialog.bitmap, by |-> Now])
       ELSE UNCHANGED <<dialog, queue>>
    /\ UNCHANGED <<draft, title, stored, write, reading, label, done, faults>>

CancelImageEditor ==
    /\ dialog.at = "editing"
    /\ dialog' = Closed
    /\ UNCHANGED <<draft, title, stored, queue, write, reading, label, done, acts, faults>>
----------------------------------------------------------------------------
(* The queue.  An operation looks at the draft when its turn comes.        *)
Op == Head(queue)
Turn(kind) == queue # <<>> /\ write.at = "idle" /\ Op.kind = kind

TurnPlain ==
    /\ Turn("plain")
    /\ draft' = [draft EXCEPT !.title = title]
    /\ write' = [NoWrite EXCEPT !.at = "opening"]
    /\ label' = "saving"
    /\ UNCHANGED <<title, stored, queue, reading, dialog, done, acts, faults>>

\* put copies the draft once the database is open
CopyPlain ==
    /\ write.at = "opening"
    /\ write' = [at |-> "putting", base |-> draft, put |-> draft]
    /\ UNCHANGED <<draft, title, stored, queue, reading, dialog, label, done, acts, faults>>

(* The candidate of an upload replaces the image of the step when no other *)
(* step uses it, else it adds an image; without the step, or over the      *)
(* limit, it throws.  The candidate of a mask edit throws when the bitmap  *)
(* was replaced while it waited.                                           *)
Shared(d, s) == \E k \in DOMAIN d.steps : d.steps[k].id # s /\ d.steps[k].shot = Step(d.steps, s).shot
Own(d, s) == IF Step(d.steps, s).shot # 0 /\ ~Shared(d, s) THEN Step(d.steps, s).shot ELSE 0
HasRoom(d, replaced) == Cardinality(DOMAIN d.images \ {replaced}) + 1 <= MaxImages
Image(op) == [bitmap |-> op.bitmap, masks |-> NoMasks]
Target(d, op) == IF Own(d, op.step) # 0 THEN Own(d, op.step) ELSE op.bitmap
WithShot(steps, s, i) == [steps EXCEPT ![Place(steps, s)].shot = i]
WithImage(images, i, image) == [j \in DOMAIN images \cup {i} |-> IF j = i THEN image ELSE images[j]]
Masked(images, op) ==
    WithImage(images, op.image, [bitmap |-> images[op.image].bitmap, masks |-> [on |-> op.bitmap, by |-> op.by]])
CandidateSteps(d, op) == IF op.kind = "masks" THEN d.steps ELSE WithShot(d.steps, op.step, Target(d, op))
CandidateImages(d, op) ==
    IF op.kind = "masks" THEN Masked(d.images, op) ELSE WithImage(d.images, Target(d, op), Image(op))

\* the candidate takes any image of that id
AnyBitmap(d, op) == IF op.kind = "masks" THEN op.image \in DOMAIN d.images
                    ELSE op.step \in Ids(d.steps) /\ HasRoom(d, Own(d, op.step))
Builds(d, op) == IF op.kind = "masks" THEN SameBitmap(d.images, op)
                 ELSE op.step \in Ids(d.steps) /\ HasRoom(d, Own(d, op.step))
Candidate(d, op) == [title |-> title, steps |-> CandidateSteps(d, op), images |-> CandidateImages(d, op)]

TurnCandidate ==
    /\ Turn("upload") \/ Turn("masks")
    /\ Builds(draft, Op)
    /\ write' = [at |-> "putting", base |-> draft, put |-> Candidate(draft, Op)]
    /\ label' = "saving"
    /\ UNCHANGED <<draft, title, stored, queue, reading, dialog, done, acts, faults>>

(* The editor that asked goes on editing; one that was disposed of is not  *)
(* there any more.                                                         *)
Refused == IF Op.kind = "masks" /\ dialog.by = Op.by /\ dialog.at = "saving"
           THEN [dialog EXCEPT !.at = "editing", !.by = 0] ELSE dialog

CandidateThrows ==
    /\ Turn("upload") \/ Turn("masks")
    /\ ~Builds(draft, Op)
    /\ dialog' = Refused
    /\ queue' = Tail(queue)
    /\ UNCHANGED <<draft, title, stored, write, reading, label, done, acts, faults>>
----------------------------------------------------------------------------
(* The three-way merge: a field the candidate changed is taken unless it   *)
(* was changed in memory as well; a new image that no step uses is left    *)
(* out.  Candidates add and remove no step and remove no image.            *)
MergeChangedValue(base, candidate, current) == IF candidate = base \/ current # base THEN current ELSE candidate
MergeSteps(base, candidate, current) ==
    [k \in DOMAIN current |->
        LET s == current[k].id IN
        IF s \notin Ids(base) THEN current[k]
        ELSE LET was == Step(base, s) is == Step(candidate, s) IN
             [id |-> s,
              text |-> MergeChangedValue(was.text, is.text, current[k].text),
              shot |-> MergeChangedValue(was.shot, is.shot, current[k].shot)]]
MergeImages(base, candidate, current, used) ==
    [i \in DOMAIN current \cup ((DOMAIN candidate \ DOMAIN base) \cap used) |->
        IF i \notin DOMAIN base THEN candidate[i]
        ELSE [bitmap |-> MergeChangedValue(base[i].bitmap, candidate[i].bitmap, current[i].bitmap),
              masks |-> MergeChangedValue(base[i].masks, candidate[i].masks, current[i].masks)]]

\* the candidate replaces the draft
TakesCandidate(base, candidate, current) == candidate
MergePendingCandidate(base, candidate, current) ==
    LET steps == MergeSteps(base.steps, candidate.steps, current.steps) IN
    [title |-> title, steps |-> steps,
     images |-> MergeImages(base.images, candidate.images, current.images, Used(steps))]

(* What the image edit means for the draft as it is now.                   *)
Meant(d, op) ==
    LET own == Own(write.base, op.step) IN
    IF op.kind = "masks" THEN [steps |-> d.steps, images |-> Masked(d.images, op)]
    ELSE IF own # 0 THEN [steps |-> d.steps, images |-> WithImage(d.images, own, Image(op))]
    ELSE IF op.step \in Ids(d.steps)
    THEN [steps |-> WithShot(d.steps, op.step, op.bitmap), images |-> WithImage(d.images, op.bitmap, Image(op))]
    ELSE d

(* The end of a mask edit closes the dialog, whoever has it open; that of  *)
(* an upload disposes of the editor of its step.                           *)
DialogAfter == CASE Op.kind = "masks" -> Closed
                 [] Op.kind = "upload" /\ dialog.step = Op.step -> Closed
                 [] OTHER -> dialog

Persisted ==
    /\ write.at = "putting"
    /\ stored' = write.put
    /\ IF Op.kind = "plain" THEN UNCHANGED <<draft, dialog, done>>
       ELSE /\ draft' = MergePendingCandidate(write.base, write.put, draft)
            /\ dialog' = DialogAfter
            /\ done' = Meant(done, Op)
    /\ label' = "saved"
    /\ queue' = Tail(queue) /\ write' = NoWrite
    /\ UNCHANGED <<title, reading, acts, faults>>

\* the label is left as it was
StaysSaved == "saved"
LabelAfterFailure == "error"
PersistFails ==
    /\ write.at \in {"opening", "putting"} /\ Fails
    /\ label' = LabelAfterFailure
    /\ dialog' = Refused
    /\ queue' = Tail(queue) /\ write' = NoWrite
    /\ UNCHANGED <<draft, title, stored, reading, done, acts>>

Next ==
    \/ TypeTitle \/ AddStep \/ SaveMasks \/ CancelImageEditor
    \/ \E s \in StepIds : UpdateStepInstruction(s) \/ DeleteStep(s) \/ MoveStep(s) \/ ChooseFile(s) \/ OpenImageEditor(s)
    \/ \E u \in reading : NormalizeUploadedImage(u)
    \/ TurnPlain \/ CopyPlain \/ TurnCandidate \/ CandidateThrows \/ Persisted \/ PersistFails

Spec == Init /\ [][Next]_vars
----------------------------------------------------------------------------
Masks == [on : Nat, by : Nat]
Images == [bitmap : Nat, masks : Masks]
Steps == [id : StepIds, text : Nat, shot : Nat]
IsDraft(d) ==
    /\ d = [title |-> d.title, steps |-> d.steps, images |-> d.images]
    /\ d.title \in Nat /\ d.steps \in Seq(Steps)
    /\ d.images \in [DOMAIN d.images -> Images]
Ops == [kind : {"plain", "upload", "masks"}, step : Nat, image : Nat, bitmap : Nat, by : Nat]

TypeOK ==
    /\ IsDraft(draft) /\ IsDraft(stored) /\ title \in Nat
    /\ done = [steps |-> done.steps, images |-> done.images]
    /\ queue \in Seq(Ops) /\ reading \subseteq Ops
    /\ write = [at |-> write.at, base |-> write.base, put |-> write.put]
    /\ write.at \in {"idle", "opening", "putting"}
    /\ write.at = "putting" => IsDraft(write.base) /\ IsDraft(write.put)
    /\ dialog \in [at : {"closed", "editing", "saving"}, step : Nat, image : Nat, bitmap : Nat, by : Nat]
    /\ label \in {"saved", "saving", "error"}
    /\ acts \in 0 .. MaxActs /\ faults \in Nat

(* When nothing is being written and the page says that the draft is saved,*)
(* IndexedDB holds what the page shows, the title in its input included:   *)
(* every edit that came during a write has had a write of its own          *)
(* (editor.js persist, persistCandidate).                                  *)
SavedIsStored ==
    label = "saved" /\ queue = <<>> => stored = draft /\ draft.title = title

(* Whatever edits overtake the write of an image edit, the draft in memory *)
(* is what the edits make of it one after the other: no text, order, new   *)
(* or deleted step and no acknowledged image or mask is lost or brought    *)
(* back by the merge (editor.js mergePendingCandidate).                    *)
DraftIsWhatWasDone ==
    draft.steps = done.steps /\ draft.images = done.images

(* Masks never lie over another picture than the one they were drawn on,   *)
(* neither in memory nor in IndexedDB, though an upload may replace the    *)
(* picture while the editor is open or its save waits (editor.js onSave).  *)
MasksFitBitmap(d) ==
    \A i \in DOMAIN d.images : d.images[i].masks = NoMasks \/ d.images[i].masks.on = d.images[i].bitmap

(* The draft holds no more images than the limit, however many uploads     *)
(* were chosen before the first of them was stored (editor.js              *)
(* assertImageCapacity).                                                   *)
ImagesFit(d) == Cardinality(DOMAIN d.images) <= MaxImages

(* Steps are told apart by their ids, new ids are new, and a step shows an *)
(* image that is there.                                                    *)
StepsAreWhole(d) ==
    /\ \A k, l \in DOMAIN d.steps : d.steps[k].id = d.steps[l].id => k = l
    /\ Ids(d.steps) \cup DOMAIN d.images \subseteq 1 .. acts + 2
    /\ Used(d.steps) \subseteq DOMAIN d.images
DraftOK(d) == StepsAreWhole(d) /\ MasksFitBitmap(d) /\ ImagesFit(d)

(* An upload brings a bitmap of its own, once.                             *)
NewBitmap(u) == u.bitmap \in (3 .. acts + 2) \ DOMAIN draft.images
Uploads == {k \in DOMAIN queue : queue[k].kind = "upload"}
UploadsAreNew ==
    /\ \A u \in reading : u.kind = "upload" /\ NewBitmap(u)
    /\ \A u, v \in reading : u.bitmap = v.bitmap => u = v
    /\ \A k \in Uploads : NewBitmap(queue[k]) /\ \A u \in reading : u.bitmap # queue[k].bitmap
    /\ \A k, l \in Uploads : queue[k].bitmap = queue[l].bitmap => k = l

(* What is being written differs from the draft in memory only by acts     *)
(* that have a write of their own in the queue, and by no image.           *)
NoPlainAfter(n) == \A k \in DOMAIN queue : k > n => queue[k].kind # "plain"
Shots(steps, base) == \A k \in DOMAIN steps : steps[k].id \in Ids(base) => steps[k].shot = Step(base, steps[k].id).shot
WriteKnown ==
    /\ write.at # "idle" => queue # <<>> /\ label = "saving"
    /\ label = "saved" /\ NoPlainAfter(0) => stored = draft /\ draft.title = title
    /\ write.at = "opening" => Op.kind = "plain" /\ (NoPlainAfter(1) => draft.title = title)
    /\ write.at = "putting" =>
          /\ DraftOK(write.base) /\ DraftOK(write.put)
          /\ NoPlainAfter(1) => draft = write.base /\ write.put.title = title
          /\ IF Op.kind = "plain" THEN write.put = write.base
             ELSE /\ write.put = [title |-> write.put.title, steps |-> CandidateSteps(write.base, Op),
                                  images |-> CandidateImages(write.base, Op)]
                  /\ Builds(write.base, Op)
                  /\ draft.images = write.base.images
                  /\ Shots(draft.steps, write.base.steps)

(* What holds of the draft in memory and of the one in IndexedDB alike.    *)
Consistent ==
    /\ TypeOK /\ DraftOK(draft) /\ DraftOK(stored)
    /\ UploadsAreNew /\ WriteKnown
=============================================================================
