-------------------------- MODULE DraftEditorProofs --------------------------
(***************************************************************************)
(* The draft in memory is what the person's acts make of it, whatever they *)
(* overtake; what is shown as saved is in IndexedDB; masks fit, images     *)
(* stay within the limit: for any number of acts, images and faults.       *)
(***************************************************************************)
EXTENDS DraftEditor, FiniteSetTheorems, WellFoundedInduction, TLAPS

(* Sequences as functions, and the queue at both its ends.                 *)
LEMMA SeqOf ==
    ASSUME NEW S, NEW n \in Nat, NEW f \in [1 .. n -> S]
    PROVE  f \in Seq(S) /\ Len(f) = n /\ DOMAIN f = 1 .. n
<1>1. f \in Seq(S) OBVIOUS
<1>2. DOMAIN f = 1 .. Len(f) /\ Len(f) \in Nat BY <1>1
<1>3. QED BY <1>1, <1>2

LEMMA SeqKnown ==
    ASSUME NEW S, NEW s \in Seq(S)
    PROVE  Len(s) \in Nat /\ DOMAIN s = 1 .. Len(s) /\ \A k \in DOMAIN s : s[k] \in S
OBVIOUS

LEMMA Appended ==
    ASSUME NEW S, NEW s \in Seq(S), NEW e \in S
    PROVE  /\ Append(s, e) \in Seq(S) /\ DOMAIN Append(s, e) = 1 .. Len(s) + 1
           /\ Append(s, e) # <<>> /\ Len(Append(s, e)) = Len(s) + 1
           /\ \A k \in 1 .. Len(s) : Append(s, e)[k] = s[k]
           /\ Append(s, e)[Len(s) + 1] = e
OBVIOUS

LEMMA Popped ==
    ASSUME NEW S, NEW s \in Seq(S), s # <<>>
    PROVE  /\ Tail(s) \in Seq(S) /\ DOMAIN Tail(s) = 1 .. Len(s) - 1 /\ Len(s) # 0 /\ Len(s) \in Nat
           /\ \A k \in 1 .. Len(s) - 1 : Tail(s)[k] = s[k + 1]
           /\ Head(s) = s[1] /\ Head(s) \in S /\ 1 \in DOMAIN s
OBVIOUS

(* A nonempty set of numbers has a least one.                              *)
LEMMA LeastOf ==
    ASSUME NEW T \in SUBSET Nat, T # {}
    PROVE  \E x \in T : \A y \in T : x <= y
<1> DEFINE R == {ss \in Nat \X Nat : ss[1] < ss[2]}
<1>1. IsWellFoundedOn(R, Nat) BY NatLessThanWellFounded, Zenon DEF OpToRel
<1>2. \E x \in T : \A y \in T : ~(<<y, x>> \in R)
  <2> HIDE DEF R
  <2>1. T \subseteq Nat OBVIOUS
  <2>2. QED BY <1>1, <2>1, WFMin, Zenon
<1>3. \A x, y \in Nat : <<y, x>> \notin R => x <= y OBVIOUS
<1> HIDE DEF R
<1>4. QED BY <1>2, <1>3

LEMMA FirstUnassignedIsThere ==
    ASSUME NEW steps, NEW images, DOMAIN images \subseteq Nat
    PROVE  FirstUnassigned(steps, images) \in DOMAIN images \cup {0}
<1> DEFINE free == DOMAIN images \ Used(steps)
<1>1. CASE free = {} BY <1>1 DEF FirstUnassigned
<1>2. CASE free # {}
  <2>1. \E i \in free : \A j \in free : i <= j BY <1>2, LeastOf
  <2>2. QED BY <1>2, <2>1 DEF FirstUnassigned
<1>3. QED BY <1>1, <1>2

(* Steps with ids of their own, of numbers up to n, on images of I.        *)
Good(steps, I, n) ==
    /\ steps \in Seq(Steps)
    /\ \A k, l \in DOMAIN steps : steps[k].id = steps[l].id => k = l
    /\ \A k \in DOMAIN steps : steps[k].id \in 1 .. n /\ steps[k].shot \in I \cup {0}

LEMMA PlaceOf ==
    ASSUME NEW I, NEW n, NEW steps, Good(steps, I, n)
    PROVE  /\ \A k \in DOMAIN steps : Place(steps, steps[k].id) = k /\ Step(steps, steps[k].id) = steps[k]
           /\ \A s \in Ids(steps) : /\ Place(steps, s) \in DOMAIN steps /\ steps[Place(steps, s)].id = s
                                    /\ Step(steps, s) = steps[Place(steps, s)]
<1>1. ASSUME NEW s \in Ids(steps)
      PROVE  Place(steps, s) \in DOMAIN steps /\ steps[Place(steps, s)].id = s
  <2>1. \E k \in DOMAIN steps : steps[k].id = s BY DEF Ids
  <2>2. QED BY <2>1 DEF Place
<1>2. ASSUME NEW k \in DOMAIN steps
      PROVE  Place(steps, steps[k].id) = k
  <2>1. steps[k].id \in Ids(steps) BY DEF Ids
  <2>2. QED BY <1>1, <2>1 DEF Good
<1>3. QED BY <1>1, <1>2 DEF Step

(* A newer step list shows what the base shows in the steps they share.    *)
LEMMA ShotsOf ==
    ASSUME NEW I, NEW n, NEW steps, NEW base, Good(base, I, n),
           \A k \in DOMAIN steps : \/ steps[k].id \notin Ids(base)
                                   \/ \E l \in DOMAIN base : base[l].id = steps[k].id /\ base[l].shot = steps[k].shot
    PROVE  Shots(steps, base)
BY PlaceOf DEF Shots
----------------------------------------------------------------------------
(* What the acts make of the steps: good lists, that show in every step    *)
(* what they showed before.                                                *)
Carries(new, steps, n) ==
    \A k \in DOMAIN new : \/ new[k].id > n
                          \/ \E l \in DOMAIN steps : steps[l].id = new[k].id /\ steps[l].shot = new[k].shot

LEMMA ShotsCarried ==
    ASSUME NEW n \in Nat, NEW new, NEW steps, NEW base, Shots(steps, base), Ids(base) \subseteq 1 .. n,
           \A k \in DOMAIN new : new[k].id \in Nat, Carries(new, steps, n)
    PROVE  Shots(new, base)
<1> SUFFICES ASSUME NEW k \in DOMAIN new, new[k].id \in Ids(base)
             PROVE  new[k].shot = Step(base, new[k].id).shot
  BY DEF Shots
<1>1. ~(new[k].id > n) OBVIOUS
<1>2. PICK l \in DOMAIN steps : steps[l].id = new[k].id /\ steps[l].shot = new[k].shot
  BY <1>1 DEF Carries
<1>3. QED BY <1>2 DEF Shots

LEMMA TextSteps ==
    ASSUME NEW I, NEW n \in Nat, NEW steps, Good(steps, I, n), NEW s \in Ids(steps), acts \in Nat
    PROVE  Good(WithText(steps, s), I, n) /\ Carries(WithText(steps, s), steps, n)
<1> DEFINE p == Place(steps, s)
           new == [steps[p] EXCEPT !.text = Now]
<1>1. p \in DOMAIN steps BY PlaceOf
<1>2. steps \in Seq(Steps) BY DEF Good
<1>3. WithText(steps, s) = [steps EXCEPT ![p] = new] BY DEF WithText
<1> HIDE DEF p
<1>4. new \in Steps /\ new.id = steps[p].id /\ new.shot = steps[p].shot
  <2>1. steps[p] \in Steps BY <1>1, <1>2, SeqKnown
  <2>2. Now \in Nat BY DEF Now
  <2>3. QED BY <2>1, <2>2 DEF Steps
<1> HIDE DEF new
<1>5. WithText(steps, s) \in Seq(Steps) /\ DOMAIN WithText(steps, s) = DOMAIN steps
  BY <1>1, <1>2, <1>3, <1>4
<1>6. \A k \in DOMAIN steps : /\ WithText(steps, s)[k].id = steps[k].id
                              /\ WithText(steps, s)[k].shot = steps[k].shot
  BY <1>1, <1>2, <1>3, <1>4
<1>7. QED BY <1>5, <1>6 DEF Good, Carries

LEMMA AddSteps ==
    ASSUME NEW steps, NEW images, Good(steps, DOMAIN images, acts + 2), acts \in Nat, acts < MaxActs,
           DOMAIN images \subseteq Nat
    PROVE  /\ Good(NewStep(steps, images), DOMAIN images, acts + 3)
           /\ Carries(NewStep(steps, images), steps, acts + 2)
<1> DEFINE new == [id |-> Now, text |-> 0, shot |-> FirstUnassigned(steps, images)]
<1>1. MaxActs \in Nat BY DraftEditorAssumption
<1>2. new.id = acts + 3 /\ new.shot \in DOMAIN images \cup {0} BY FirstUnassignedIsThere DEF Now
<1>3. new \in Steps BY <1>1, <1>2 DEF Steps, StepIds, Now
<1>4. NewStep(steps, images) = Append(steps, new) BY DEF NewStep
<1> HIDE DEF new
<1>5. steps \in Seq(Steps) BY DEF Good
<1>6. /\ NewStep(steps, images) \in Seq(Steps) /\ DOMAIN NewStep(steps, images) = 1 .. Len(steps) + 1
      /\ \A k \in 1 .. Len(steps) : NewStep(steps, images)[k] = steps[k]
      /\ NewStep(steps, images)[Len(steps) + 1] = new
  BY <1>3, <1>4, <1>5, Appended
<1>7. Len(steps) \in Nat /\ DOMAIN steps = 1 .. Len(steps) BY <1>5, SeqKnown
<1>8. ASSUME NEW k \in DOMAIN NewStep(steps, images)
      PROVE  \/ k \in DOMAIN steps /\ NewStep(steps, images)[k] = steps[k] /\ steps[k].id \in 1 .. acts + 2
             \/ k = Len(steps) + 1 /\ NewStep(steps, images)[k] = new
  BY <1>6, <1>7 DEF Good
<1>9. Good(NewStep(steps, images), DOMAIN images, acts + 3)
  <2>1. ASSUME NEW k \in DOMAIN NewStep(steps, images), NEW l \in DOMAIN NewStep(steps, images), NewStep(steps, images)[k].id = NewStep(steps, images)[l].id
        PROVE  k = l
    BY <1>2, <1>8, <2>1 DEF Good
  <2>2. ASSUME NEW k \in DOMAIN NewStep(steps, images)
        PROVE  NewStep(steps, images)[k].id \in 1 .. acts + 3 /\ NewStep(steps, images)[k].shot \in DOMAIN images \cup {0}
    BY <1>2, <1>8 DEF Good
  <2>3. QED BY <1>6, <2>1, <2>2 DEF Good
<1>10. Carries(NewStep(steps, images), steps, acts + 2) BY <1>2, <1>8 DEF Carries
<1>11. QED BY <1>9, <1>10

LEMMA DeleteSteps ==
    ASSUME NEW I, NEW n \in Nat, NEW steps, Good(steps, I, n), NEW s \in Ids(steps)
    PROVE  Good(Without(steps, s), I, n) /\ Carries(Without(steps, s), steps, n)
<1> DEFINE p == Place(steps, s)
           at(k) == IF k < p THEN k ELSE k + 1
<1>1. steps \in Seq(Steps) /\ Len(steps) \in Nat /\ DOMAIN steps = 1 .. Len(steps) BY SeqKnown DEF Good
<1>2. p \in 1 .. Len(steps) BY <1>1, PlaceOf
<1>3. Len(steps) - 1 \in Nat BY <1>1, <1>2
<1> HIDE DEF p
<1>4. \A k \in 1 .. Len(steps) - 1 : at(k) \in DOMAIN steps BY <1>1, <1>2
<1>5. \A k, l \in 1 .. Len(steps) - 1 : at(k) = at(l) => k = l BY <1>1, <1>2
<1>6. Without(steps, s) = [k \in 1 .. Len(steps) - 1 |-> steps[at(k)]] BY DEF Without, p
<1> HIDE DEF at
<1>7. Without(steps, s) \in [1 .. Len(steps) - 1 -> Steps] BY <1>1, <1>4, <1>6, SeqKnown
<1>8. Without(steps, s) \in Seq(Steps) /\ DOMAIN Without(steps, s) = 1 .. Len(steps) - 1 BY <1>3, <1>7, SeqOf
<1>9. \A k \in 1 .. Len(steps) - 1 : Without(steps, s)[k] = steps[at(k)] BY <1>6
<1>10. ASSUME NEW k \in DOMAIN Without(steps, s), NEW l \in DOMAIN Without(steps, s),
              Without(steps, s)[k].id = Without(steps, s)[l].id
       PROVE  k = l
  <2>1. at(k) \in DOMAIN steps /\ at(l) \in DOMAIN steps BY <1>4, <1>8
  <2>2. steps[at(k)].id = steps[at(l)].id BY <1>8, <1>9, <1>10
  <2>3. at(k) = at(l) BY <2>1, <2>2 DEF Good
  <2>4. QED BY <1>5, <1>8, <2>3
<1>11. \A k \in DOMAIN Without(steps, s) : at(k) \in DOMAIN steps /\ Without(steps, s)[k] = steps[at(k)]
  BY <1>4, <1>8, <1>9
<1>12. Good(Without(steps, s), I, n) BY <1>8, <1>10, <1>11 DEF Good
<1>13. QED BY <1>11, <1>12 DEF Carries

LEMMA SwapSteps ==
    ASSUME NEW I, NEW n \in Nat, NEW steps, Good(steps, I, n), NEW p \in DOMAIN steps, p + 1 \in DOMAIN steps
    PROVE  Good(Swapped(steps, p), I, n) /\ Carries(Swapped(steps, p), steps, n)
<1> DEFINE at(k) == IF k = p THEN p + 1 ELSE IF k = p + 1 THEN p ELSE k
<1>1. steps \in Seq(Steps) /\ Len(steps) \in Nat /\ DOMAIN steps = 1 .. Len(steps) BY SeqKnown DEF Good
<1>2. \A k \in DOMAIN steps : steps[k] \in Steps BY <1>1, SeqKnown
<1>3. Swapped(steps, p) \in Seq(Steps) /\ DOMAIN Swapped(steps, p) = DOMAIN steps
  BY <1>1, <1>2 DEF Swapped
<1>4. \A k \in DOMAIN steps : Swapped(steps, p)[k] = steps[at(k)] BY <1>1 DEF Swapped
<1>5. \A k \in DOMAIN steps : at(k) \in DOMAIN steps OBVIOUS
<1>6. \A k, l \in DOMAIN steps : at(k) = at(l) => k = l BY <1>1
<1> HIDE DEF at
<1>7. QED BY <1>3, <1>4, <1>5, <1>6 DEF Good, Carries
----------------------------------------------------------------------------
(* The inductive invariant.                                                *)
IInv == Consistent /\ DraftIsWhatWasDone

(* What DraftOK says of a draft, with the number of the last act.          *)
SoundAt(d, n) ==
    /\ Good(d.steps, DOMAIN d.images, n) /\ DOMAIN d.images \subseteq 1 .. n
    /\ MasksFitBitmap(d) /\ ImagesFit(d)

LEMMA DraftOKIs ==
    ASSUME NEW d, IsDraft(d), acts \in Nat
    PROVE  DraftOK(d) <=> SoundAt(d, acts + 2)
<1>1. d.steps \in Seq(Steps) BY DEF IsDraft
<1>2. \A k \in DOMAIN d.steps : d.steps[k].id \in Ids(d.steps) BY DEF Ids
<1>3. \A k \in DOMAIN d.steps : d.steps[k].shot \in Used(d.steps) \cup {0} BY DEF Used
<1>4. ASSUME DraftOK(d) PROVE SoundAt(d, acts + 2)
  BY <1>1, <1>2, <1>3, <1>4 DEF DraftOK, StepsAreWhole, SoundAt, Good
<1>5. ASSUME SoundAt(d, acts + 2) PROVE DraftOK(d)
  <2>1. Ids(d.steps) \subseteq 1 .. acts + 2 BY <1>5 DEF SoundAt, Good, Ids
  <2>2. Used(d.steps) \subseteq DOMAIN d.images BY <1>5 DEF SoundAt, Good, Used
  <2>3. QED BY <1>5, <2>1, <2>2 DEF DraftOK, StepsAreWhole, SoundAt, Good
<1>6. QED BY <1>4, <1>5

LEMMA DraftOKNext ==
    ASSUME acts' \in Nat
    PROVE  /\ IsDraft(draft') /\ SoundAt(draft', acts' + 2) => DraftOK(draft)'
           /\ IsDraft(stored') /\ SoundAt(stored', acts' + 2) => DraftOK(stored)'
           /\ IsDraft(write'.base) /\ SoundAt(write'.base, acts' + 2) => DraftOK(write.base)'
           /\ IsDraft(write'.put) /\ SoundAt(write'.put, acts' + 2) => DraftOK(write.put)'
<1>1. ASSUME NEW d, SoundAt(d, acts' + 2)
      PROVE  /\ \A k, l \in DOMAIN d.steps : d.steps[k].id = d.steps[l].id => k = l
             /\ Ids(d.steps) \cup DOMAIN d.images \subseteq 1 .. acts' + 2
             /\ Used(d.steps) \subseteq DOMAIN d.images
             /\ MasksFitBitmap(d) /\ ImagesFit(d)
  BY <1>1 DEF SoundAt, Good, Ids, Used
<1>2. QED BY <1>1 DEF DraftOK, StepsAreWhole, Ids, Used, MasksFitBitmap, ImagesFit

LEMMA SoundLater ==
    ASSUME NEW d, NEW n \in Nat, NEW m \in Nat, n <= m, SoundAt(d, n)
    PROVE  SoundAt(d, m)
<1>1. 1 .. n \subseteq 1 .. m OBVIOUS
<1>2. QED BY <1>1 DEF SoundAt, Good

LEMMA Known ==
    ASSUME IInv
    PROVE  /\ acts \in Nat /\ acts <= MaxActs /\ MaxActs \in Nat /\ faults \in Nat
           /\ IsDraft(draft) /\ SoundAt(draft, acts + 2) /\ IsDraft(stored) /\ SoundAt(stored, acts + 2)
           /\ write.at = "putting" => /\ IsDraft(write.base) /\ SoundAt(write.base, acts + 2)
                                      /\ IsDraft(write.put) /\ SoundAt(write.put, acts + 2)
           /\ done = [steps |-> draft.steps, images |-> draft.images]
           /\ queue \in Seq(Ops) /\ Len(queue) \in Nat /\ DOMAIN queue = 1 .. Len(queue)
<1>1. acts \in Nat /\ acts <= MaxActs /\ MaxActs \in Nat /\ faults \in Nat
  BY DraftEditorAssumption DEF IInv, Consistent, TypeOK
<1>2. IsDraft(draft) /\ IsDraft(stored) /\ (write.at = "putting" => IsDraft(write.base) /\ IsDraft(write.put))
  BY DEF IInv, Consistent, TypeOK
<1>3. DraftOK(draft) /\ DraftOK(stored) /\ (write.at = "putting" => DraftOK(write.base) /\ DraftOK(write.put))
  BY DEF IInv, Consistent, WriteKnown
<1>4. done = [steps |-> draft.steps, images |-> draft.images]
  BY DEF IInv, Consistent, TypeOK, DraftIsWhatWasDone
<1>5. queue \in Seq(Ops) BY DEF IInv, Consistent, TypeOK
<1>6. QED BY <1>1, <1>2, <1>3, <1>4, <1>5, DraftOKIs, SeqKnown
----------------------------------------------------------------------------
(* An act of the person changes the steps in memory at most, and asks for  *)
(* a write when it changes what is to be stored.                           *)
LEMMA QueueGrows ==
    ASSUME NEW op \in Ops, IInv, queue' \in {queue, Append(queue, op)}
    PROVE  /\ queue' \in Seq(Ops) /\ DOMAIN queue \subseteq DOMAIN queue' /\ \A k \in DOMAIN queue : queue'[k] = queue[k]
           /\ queue # <<>> => queue' # <<>> /\ Op' = Op
           /\ \A n \in Nat : NoPlainAfter(n)' => NoPlainAfter(n)
           /\ \A n \in Nat : queue' # queue /\ op.kind = "plain" /\ Len(queue) >= n => ~NoPlainAfter(n)'
           /\ \A k \in DOMAIN queue' : k \in DOMAIN queue \/ (k = Len(queue) + 1 /\ queue'[k] = op)
<1>1. queue \in Seq(Ops) /\ Len(queue) \in Nat /\ DOMAIN queue = 1 .. Len(queue) BY Known
<1>2. CASE queue' = queue
  <2>1. Op' = Op BY <1>2 DEF Op
  <2>2. \A n \in Nat : NoPlainAfter(n)' => NoPlainAfter(n) BY <1>2 DEF NoPlainAfter
  <2>3. QED BY <1>1, <1>2, <2>1, <2>2
<1>3. CASE queue' = Append(queue, op)
  <2>1. /\ queue' \in Seq(Ops) /\ DOMAIN queue' = 1 .. Len(queue) + 1 /\ queue' # <<>>
        /\ \A k \in 1 .. Len(queue) : queue'[k] = queue[k]
        /\ queue'[Len(queue) + 1] = op
    BY <1>1, <1>3, Appended
  <2>2. queue # <<>> => Op' = Op BY <1>1, <2>1, Popped DEF Op
  <2>3. ASSUME NEW n \in Nat PROVE NoPlainAfter(n)' => NoPlainAfter(n)
    BY <1>1, <2>1 DEF NoPlainAfter
  <2>4. ASSUME NEW n \in Nat, op.kind = "plain", Len(queue) >= n PROVE ~NoPlainAfter(n)'
    <3>1. Len(queue) + 1 \in DOMAIN queue' /\ Len(queue) + 1 > n /\ queue'[Len(queue) + 1].kind = "plain"
      BY <1>1, <2>1, <2>4
    <3>2. QED BY <3>1 DEF NoPlainAfter
  <2>5. DOMAIN queue \subseteq DOMAIN queue' /\ \A k \in DOMAIN queue : queue'[k] = queue[k] BY <1>1, <2>1
  <2>6. \A k \in DOMAIN queue' : k \in DOMAIN queue \/ (k = Len(queue) + 1 /\ queue'[k] = op) BY <1>1, <2>1
  <2>7. QED BY <2>1, <2>2, <2>3, <2>4, <2>5, <2>6
<1>4. QED BY <1>2, <1>3

LEMMA PageKeeps ==
    ASSUME IInv, NEW op \in Ops, NEW new,
           acts' \in {acts, acts + 1}, acts' <= MaxActs, faults' \in Nat,
           stored' = stored, write' = write, label' = label,
           queue' \in {queue, Append(queue, op)}, title' \in Nat,
           Good(new, DOMAIN draft.images, acts' + 2), Carries(new, draft.steps, acts + 2),
           draft' = [title |-> draft.title, steps |-> new, images |-> draft.images],
           done' = [steps |-> new, images |-> draft.images],
           (draft' = draft /\ title' = title) \/ (queue' = Append(queue, op) /\ op.kind = "plain"),
           dialog' \in [at : {"closed", "editing", "saving"}, step : Nat, image : Nat, bitmap : Nat, by : Nat],
           reading' \subseteq Ops, UploadsAreNew'
    PROVE  IInv'
<1>1. /\ acts \in Nat /\ acts <= MaxActs /\ MaxActs \in Nat
      /\ IsDraft(draft) /\ SoundAt(draft, acts + 2) /\ IsDraft(stored) /\ SoundAt(stored, acts + 2)
      /\ write.at = "putting" => /\ IsDraft(write.base) /\ SoundAt(write.base, acts + 2)
                                 /\ IsDraft(write.put) /\ SoundAt(write.put, acts + 2)
      /\ done = [steps |-> draft.steps, images |-> draft.images]
      /\ queue \in Seq(Ops) /\ Len(queue) \in Nat
  BY Known
<1>2. acts' \in 0 .. MaxActs /\ acts' \in Nat /\ acts + 2 <= acts' + 2 BY <1>1
<1>3. draft' = [title |-> draft.title, steps |-> new, images |-> draft.images] OBVIOUS
<1>4. done' = [steps |-> new, images |-> draft.images] OBVIOUS
<1>5. IsDraft(draft')
  <2>1. new \in Seq(Steps) BY DEF Good
  <2>2. QED BY <1>1, <1>3, <2>1 DEF IsDraft
<1>6. SoundAt(draft', acts' + 2)
  <2>1. SoundAt(draft, acts' + 2) BY <1>1, <1>2, SoundLater
  <2>2. QED BY <1>3, <2>1 DEF SoundAt, MasksFitBitmap, ImagesFit
<1>7. DraftOK(draft)' BY <1>2, <1>5, <1>6, DraftOKNext
<1>8. DraftOK(stored)'
  <2>1. SoundAt(stored, acts' + 2) BY <1>1, <1>2, SoundLater
  <2>2. QED BY <1>1, <1>2, <2>1, DraftOKNext
<1>9. write.at = "putting" => DraftOK(write.base)' /\ DraftOK(write.put)'
  <2> SUFFICES ASSUME write.at = "putting" PROVE DraftOK(write.base)' /\ DraftOK(write.put)'
    OBVIOUS
  <2>1. SoundAt(write.base, acts' + 2) /\ SoundAt(write.put, acts' + 2) BY <1>1, <1>2, SoundLater
  <2>2. IsDraft(write'.base) /\ IsDraft(write'.put) /\ SoundAt(write'.base, acts' + 2) /\ SoundAt(write'.put, acts' + 2)
    BY <1>1, <2>1
  <2>3. QED BY <1>2, <2>2, DraftOKNext
<1>10. /\ queue' \in Seq(Ops)
       /\ queue # <<>> => queue' # <<>> /\ Op' = Op
       /\ \A n \in Nat : NoPlainAfter(n)' => NoPlainAfter(n)
       /\ \A n \in Nat : queue' # queue /\ op.kind = "plain" /\ Len(queue) >= n => ~NoPlainAfter(n)'
  BY QueueGrows
<1>11. ASSUME NEW n \in Nat, Len(queue) >= n, NoPlainAfter(n)'
       PROVE  NoPlainAfter(n) /\ draft' = draft /\ title' = title
  <2>1. queue' = Append(queue, op) => queue' # queue BY <1>1, Appended
  <2>2. QED BY <1>10, <1>11, <2>1
<1>12. TypeOK'
  <2>1. TypeOK BY DEF IInv, Consistent
  <2>2. done' = [steps |-> done'.steps, images |-> done'.images] BY <1>4
  <2>3. IsDraft(stored') BY <2>1 DEF TypeOK
  <2>4. /\ write' = [at |-> write'.at, base |-> write'.base, put |-> write'.put]
        /\ write'.at \in {"idle", "opening", "putting"}
        /\ write'.at = "putting" => IsDraft(write'.base) /\ IsDraft(write'.put)
        /\ label' \in {"saved", "saving", "error"}
    BY <2>1 DEF TypeOK
  <2>5. QED BY <1>2, <1>5, <1>10, <2>2, <2>3, <2>4 DEF TypeOK, IsDraft
<1>13. WriteKnown'
  <2>1. write.at # "idle" => queue # <<>> /\ label = "saving" BY DEF IInv, Consistent, WriteKnown
  <2>2. queue # <<>> => Len(queue) >= 1 BY <1>1, Popped
  <2>3. label = "saved" /\ NoPlainAfter(0)' => stored = draft' /\ draft'.title = title'
    BY <1>1, <1>11 DEF IInv, Consistent, WriteKnown
  <2>4. write.at = "opening" => Op.kind = "plain" /\ (NoPlainAfter(1)' => draft'.title = title')
    BY <1>11, <2>1, <2>2 DEF IInv, Consistent, WriteKnown
  <2>5. write.at = "putting" /\ NoPlainAfter(1)' => draft' = write.base /\ write.put.title = title'
    BY <1>11, <2>1, <2>2 DEF IInv, Consistent, WriteKnown
  <2>6. write.at = "putting" /\ Op.kind # "plain" => Shots(new, write.base.steps)
    <3> SUFFICES ASSUME write.at = "putting", Op.kind # "plain" PROVE Shots(new, write.base.steps)
      OBVIOUS
    <3>1. Shots(draft.steps, write.base.steps) BY DEF IInv, Consistent, WriteKnown
    <3>2. Ids(write.base.steps) \subseteq 1 .. acts + 2
      <4>1. Good(write.base.steps, DOMAIN write.base.images, acts + 2) BY <1>1 DEF SoundAt
      <4>2. QED BY <4>1 DEF Good, Ids
    <3>3. \A k \in DOMAIN new : new[k].id \in Nat BY <1>2 DEF Good
    <3>4. acts + 2 \in Nat BY <1>1
    <3>5. QED BY <3>1, <3>2, <3>3, <3>4, ShotsCarried
  <2>7. write.at # "idle" => Op' = Op BY <1>10, <2>1
  <2>8. write.at # "idle" => queue' # <<>> BY <1>10, <2>1
  <2>9. Builds(write.base, Op)' <=> Builds(write.base, Op') BY DEF Builds, SameBitmap, HasRoom, Own, Shared, Step, Place
  <2>10. write.at = "putting" =>
          /\ DraftOK(write.base)' /\ DraftOK(write.put)'
          /\ NoPlainAfter(1)' => draft' = write.base /\ write.put.title = title'
          /\ IF Op'.kind = "plain" THEN write.put = write.base
             ELSE /\ write.put = [title |-> write.put.title, steps |-> CandidateSteps(write.base, Op'),
                                  images |-> CandidateImages(write.base, Op')]
                  /\ Builds(write.base, Op)'
                  /\ draft'.images = write.base.images
                  /\ Shots(draft'.steps, write.base.steps)
    <3> SUFFICES ASSUME write.at = "putting"
                 PROVE  /\ IF Op.kind = "plain" THEN write.put = write.base
                           ELSE /\ write.put = [title |-> write.put.title, steps |-> CandidateSteps(write.base, Op),
                                                images |-> CandidateImages(write.base, Op)]
                                /\ Builds(write.base, Op)'
                                /\ draft'.images = write.base.images
                                /\ Shots(draft'.steps, write.base.steps)
      BY <1>9, <2>5, <2>7
    <3>1. CASE Op.kind = "plain" BY <3>1 DEF IInv, Consistent, WriteKnown
    <3>2. CASE Op.kind # "plain"
      <4>1. Shots(draft'.steps, write.base.steps) BY <1>3, <2>6, <3>2
      <4>2. Builds(write.base, Op)' BY <2>7, <2>9, <3>2 DEF IInv, Consistent, WriteKnown
      <4>3. QED BY <1>3, <3>2, <4>1, <4>2 DEF IInv, Consistent, WriteKnown
    <3>3. QED BY <3>1, <3>2
  <2>11. /\ write'.at # "idle" => queue' # <<>> /\ label' = "saving"
         /\ label' = "saved" /\ NoPlainAfter(0)' => stored' = draft' /\ draft'.title = title'
         /\ write'.at = "opening" => Op'.kind = "plain" /\ (NoPlainAfter(1)' => draft'.title = title')
    BY <2>1, <2>3, <2>4, <2>7, <2>8
  <2>12. /\ CandidateSteps(write.base, Op)' = CandidateSteps(write.base, Op')
         /\ CandidateImages(write.base, Op)' = CandidateImages(write.base, Op')
         /\ Shots(draft.steps, write.base.steps)' <=> Shots(draft'.steps, write.base.steps)
    BY DEF CandidateSteps, CandidateImages, Masked, Target, WithShot, WithImage, Image, Own, Shared, Step, Place, Shots, Ids
  <2>13. QED BY <2>10, <2>11, <2>12 DEF WriteKnown
<1>14. DraftIsWhatWasDone' BY <1>3, <1>4 DEF DraftIsWhatWasDone
<1>15. QED BY <1>7, <1>8, <1>12, <1>13, <1>14 DEF IInv, Consistent
----------------------------------------------------------------------------
LEMMA UploadsStay ==
    ASSUME IInv, NEW op \in Ops, op.kind # "upload", acts' \in {acts, acts + 1},
           queue' \in {queue, Append(queue, op)}, reading' = reading, draft'.images = draft.images
    PROVE  UploadsAreNew'
<1>1. acts \in Nat /\ UploadsAreNew BY Known DEF IInv, Consistent
<1>2. \A u : NewBitmap(u) => NewBitmap(u)' BY <1>1 DEF NewBitmap
<1>3. /\ \A k \in DOMAIN queue : queue'[k] = queue[k]
      /\ \A k \in DOMAIN queue' : k \in DOMAIN queue \/ queue'[k] = op
  BY QueueGrows
<1>4. \A k \in Uploads' : k \in Uploads /\ queue'[k] = queue[k] BY <1>3 DEF Uploads
<1>5. \A u \in reading' : u.kind = "upload" /\ NewBitmap(u)' BY <1>1, <1>2 DEF UploadsAreNew
<1>6. \A k \in Uploads' : NewBitmap(queue[k])' /\ \A u \in reading' : u.bitmap # queue'[k].bitmap
  BY <1>1, <1>2, <1>4 DEF UploadsAreNew
<1>7. \A k, l \in Uploads' : queue'[k].bitmap = queue'[l].bitmap => k = l
  BY <1>1, <1>4 DEF UploadsAreNew
<1>8. \A u, v \in reading' : u.bitmap = v.bitmap => u = v BY <1>1 DEF UploadsAreNew
<1>9. \A k \in Uploads' : queue'[k].bitmap \in (3 .. acts' + 2) \ DOMAIN draft'.images
  <2> SUFFICES ASSUME NEW k \in Uploads' PROVE queue'[k].bitmap \in (3 .. acts' + 2) \ DOMAIN draft'.images
    OBVIOUS
  <2>1. NewBitmap(queue[k]) BY <1>1, <1>4 DEF UploadsAreNew
  <2>2. QED BY <1>1, <1>4, <2>1 DEF NewBitmap
<1>10. \A u \in reading' : u.bitmap \in (3 .. acts' + 2) \ DOMAIN draft'.images
  BY <1>1 DEF UploadsAreNew, NewBitmap
<1>11. QED BY <1>5, <1>6, <1>7, <1>8, <1>9, <1>10 DEF UploadsAreNew, NewBitmap

LEMMA PlainOp == Plain \in Ops /\ Plain.kind = "plain" /\ Plain.kind # "upload"
BY DEF Plain, Ops

LEMMA ActFacts ==
    ASSUME IInv, Act
    PROVE  acts' = acts + 1 /\ acts' <= MaxActs /\ acts < MaxActs /\ acts \in Nat /\ Now = acts + 3
BY Known DEF Act, Now

LEMMA ChangeKeeps ==
    ASSUME IInv, OnPage, NEW new, ChangeSteps(new, new),
           Good(new, DOMAIN draft.images, acts + 3), Carries(new, draft.steps, acts + 2)
    PROVE  IInv'
<1>1. acts' = acts + 1 /\ acts' <= MaxActs /\ acts \in Nat /\ acts' + 2 = acts + 3
  BY ActFacts DEF OnPage
<1>2. IsDraft(draft) /\ queue \in Seq(Ops) /\ faults \in Nat BY Known
<1>3. draft'.images = draft.images BY <1>2 DEF ChangeSteps, IsDraft
<1>4. queue' = Append(queue, Plain) BY DEF ChangeSteps, Enqueue
<1>5. UploadsAreNew' BY <1>1, <1>3, <1>4, PlainOp, UploadsStay DEF ChangeSteps
<1>6. /\ draft' = [title |-> draft.title, steps |-> new, images |-> draft.images]
      /\ done' = [steps |-> new, images |-> draft.images]
      /\ stored' = stored /\ write' = write /\ label' = label /\ title' = title
      /\ dialog' = dialog /\ reading' = reading /\ faults' = faults
  BY <1>2, Known DEF ChangeSteps, OnPage, IsDraft
<1>7. title \in Nat /\ reading \subseteq Ops
      /\ dialog \in [at : {"closed", "editing", "saving"}, step : Nat, image : Nat, bitmap : Nat, by : Nat]
  BY DEF IInv, Consistent, TypeOK
<1>8. Good(new, DOMAIN draft.images, acts' + 2) BY <1>1
<1>9. /\ acts' \in {acts, acts + 1} /\ acts' <= MaxActs /\ faults' \in Nat /\ title' \in Nat
      /\ queue' \in {queue, Append(queue, Plain)} /\ reading' \subseteq Ops
      /\ dialog' \in [at : {"closed", "editing", "saving"}, step : Nat, image : Nat, bitmap : Nat, by : Nat]
  BY <1>1, <1>2, <1>4, <1>6, <1>7
<1>10. QED BY <1>4, <1>5, <1>6, <1>8, <1>9, PlainOp, PageKeeps

(* The steps as they are.                                                  *)
LEMMA StepsAsTheyAre ==
    ASSUME IInv
    PROVE  /\ Good(draft.steps, DOMAIN draft.images, acts + 2)
           /\ Good(draft.steps, DOMAIN draft.images, acts + 3)
           /\ Carries(draft.steps, draft.steps, acts + 2)
           /\ draft = [title |-> draft.title, steps |-> draft.steps, images |-> draft.images]
           /\ done = [steps |-> draft.steps, images |-> draft.images]
           /\ done.steps = draft.steps /\ done.images = draft.images
           /\ DOMAIN draft.images \subseteq Nat
<1>1. acts \in Nat /\ IsDraft(draft) /\ SoundAt(draft, acts + 2) BY Known
<1>2. done = [steps |-> draft.steps, images |-> draft.images] BY Known
<1>3. SoundAt(draft, acts + 3) BY <1>1, SoundLater
<1>4. Carries(draft.steps, draft.steps, acts + 2) BY DEF Carries
<1>5. draft = [title |-> draft.title, steps |-> draft.steps, images |-> draft.images] BY <1>1 DEF IsDraft
<1>6. DOMAIN draft.images \subseteq Nat BY <1>1 DEF SoundAt
<1>7. QED BY <1>1, <1>2, <1>3, <1>4, <1>5, <1>6 DEF SoundAt

LEMMA GoodLater ==
    ASSUME NEW I, NEW n \in Nat, NEW steps, Good(steps, I, n)
    PROVE  Good(steps, I, n + 1)
<1>1. 1 .. n \subseteq 1 .. n + 1 OBVIOUS
<1>2. QED BY <1>1 DEF Good

LEMMA UpdateStepInstructionKeeps == ASSUME IInv, NEW s, UpdateStepInstruction(s) PROVE IInv'
<1>1. OnPage /\ s \in Ids(draft.steps) /\ ChangeSteps(WithText(draft.steps, s), WithText(draft.steps, s))
  BY StepsAsTheyAre DEF UpdateStepInstruction
<1>2. acts + 2 \in Nat /\ acts \in Nat /\ acts + 2 + 1 = acts + 3 BY Known
<1>3. QED BY <1>1, <1>2, TextSteps, GoodLater, StepsAsTheyAre, ChangeKeeps

LEMMA DeleteStepKeeps == ASSUME IInv, NEW s, DeleteStep(s) PROVE IInv'
<1>1. OnPage /\ s \in Ids(draft.steps) /\ ChangeSteps(Without(draft.steps, s), Without(draft.steps, s))
  BY StepsAsTheyAre DEF DeleteStep
<1>2. acts + 2 \in Nat /\ acts \in Nat /\ acts + 2 + 1 = acts + 3 BY Known
<1>3. QED BY <1>1, <1>2, DeleteSteps, GoodLater, StepsAsTheyAre, ChangeKeeps

LEMMA MoveStepKeeps == ASSUME IInv, NEW k, MoveStep(k) PROVE IInv'
<1>1. /\ OnPage /\ k \in DOMAIN draft.steps /\ k + 1 \in DOMAIN draft.steps
      /\ ChangeSteps(Swapped(draft.steps, k), Swapped(draft.steps, k))
  BY StepsAsTheyAre DEF MoveStep
<1>2. acts + 2 \in Nat /\ acts \in Nat /\ acts + 2 + 1 = acts + 3 BY Known
<1>3. QED BY <1>1, <1>2, SwapSteps, GoodLater, StepsAsTheyAre, ChangeKeeps

LEMMA AddStepKeeps == ASSUME IInv, AddStep PROVE IInv'
<1>1. done.steps = draft.steps /\ done.images = draft.images BY StepsAsTheyAre
<1>2. /\ OnPage
      /\ ChangeSteps(NewStep(draft.steps, draft.images), NewStep(draft.steps, draft.images))
  BY <1>1 DEF AddStep
<1>3. acts \in Nat /\ acts < MaxActs BY <1>2, ActFacts DEF OnPage
<1>4. QED BY <1>2, <1>3, AddSteps, StepsAsTheyAre, ChangeKeeps
----------------------------------------------------------------------------
(* What leaves the steps as they are.                                      *)
LEMMA QuietKeeps ==
    ASSUME IInv, NEW op \in Ops,
           acts' \in {acts, acts + 1}, acts' <= MaxActs, faults' \in Nat,
           UNCHANGED <<draft, done, stored, write, label>>,
           queue' \in {queue, Append(queue, op)}, title' \in Nat,
           title' = title \/ (queue' = Append(queue, op) /\ op.kind = "plain"),
           dialog' \in [at : {"closed", "editing", "saving"}, step : Nat, image : Nat, bitmap : Nat, by : Nat],
           reading' \subseteq Ops, UploadsAreNew'
    PROVE  IInv'
<1>1. Good(draft.steps, DOMAIN draft.images, acts' + 2)
  <2>1. acts \in Nat /\ (acts' + 2 = acts + 2 \/ acts' + 2 = acts + 3) BY Known
  <2>2. QED BY <2>1, StepsAsTheyAre
<1>2. /\ draft' = [title |-> draft.title, steps |-> draft.steps, images |-> draft.images]
      /\ done' = [steps |-> draft.steps, images |-> draft.images]
  BY StepsAsTheyAre
<1>3. Carries(draft.steps, draft.steps, acts + 2) BY StepsAsTheyAre
<1>4. (draft' = draft /\ title' = title) \/ (queue' = Append(queue, op) /\ op.kind = "plain") OBVIOUS
<1>5. stored' = stored /\ write' = write /\ label' = label OBVIOUS
<1>6. /\ acts' \in {acts, acts + 1} /\ acts' <= MaxActs /\ faults' \in Nat /\ title' \in Nat
      /\ queue' \in {queue, Append(queue, op)} /\ reading' \subseteq Ops /\ UploadsAreNew'
      /\ dialog' \in [at : {"closed", "editing", "saving"}, step : Nat, image : Nat, bitmap : Nat, by : Nat]
  OBVIOUS
<1> DEFINE new == draft.steps
<1>7. /\ Good(new, DOMAIN draft.images, acts' + 2) /\ Carries(new, draft.steps, acts + 2)
      /\ draft' = [title |-> draft.title, steps |-> new, images |-> draft.images]
      /\ done' = [steps |-> new, images |-> draft.images]
  BY <1>1, <1>2, <1>3
<1> HIDE DEF new
<1>8. QED BY <1>4, <1>5, <1>6, <1>7, PageKeeps

LEMMA TypesKnown ==
    ASSUME IInv
    PROVE  /\ title \in Nat /\ reading \subseteq Ops /\ queue \in Seq(Ops) /\ acts \in Nat /\ acts <= MaxActs
           /\ faults \in Nat
           /\ dialog \in [at : {"closed", "editing", "saving"}, step : Nat, image : Nat, bitmap : Nat, by : Nat]
BY Known DEF IInv, Consistent, TypeOK

LEMMA TypeTitleKeeps == ASSUME IInv, TypeTitle PROVE IInv'
<1>1. acts' = acts + 1 /\ acts' <= MaxActs /\ Now = acts + 3 /\ acts \in Nat
  BY ActFacts DEF TypeTitle, OnPage
<1>2. title' = Now /\ queue' = Append(queue, Plain) /\ faults' = faults /\ reading' = reading /\ dialog' = dialog
  BY DEF TypeTitle, OnPage, Enqueue
<1>3. UNCHANGED <<draft, done, stored, write, label>> BY DEF TypeTitle
<1>4. UploadsAreNew' BY <1>1, <1>2, <1>3, PlainOp, UploadsStay
<1>5. title' \in Nat BY <1>1, <1>2
<1>6. QED BY <1>1, <1>2, <1>3, <1>4, <1>5, TypesKnown, PlainOp, QuietKeeps

LEMMA ChooseFileKeeps == ASSUME IInv, NEW s, ChooseFile(s) PROVE IInv'
<1> DEFINE u == [kind |-> "upload", step |-> s, image |-> 0, bitmap |-> acts + 3, by |-> 0]
<1>1. acts' = acts + 1 /\ acts' <= MaxActs /\ Now = acts + 3 /\ acts \in Nat
  BY ActFacts DEF ChooseFile, OnPage
<1>2. reading' = reading \cup {u} /\ queue' = queue /\ faults' = faults /\ title' = title /\ dialog' = dialog
  BY <1>1 DEF ChooseFile, OnPage, Plain
<1>3. UNCHANGED <<draft, done, stored, write, label>> BY DEF ChooseFile
<1>4. s \in Nat
  <2>1. s \in Ids(draft.steps) /\ Good(draft.steps, DOMAIN draft.images, acts + 2)
    BY StepsAsTheyAre DEF ChooseFile
  <2>2. QED BY <2>1 DEF Good, Ids
<1>5. u \in Ops /\ u.kind = "upload" /\ u.bitmap = acts + 3
  <2>1. acts + 3 \in Nat BY <1>1
  <2>2. QED BY <1>4, <2>1 DEF Ops
<1> HIDE DEF u
<1>6. UploadsAreNew'
  <2>1. UploadsAreNew /\ SoundAt(draft, acts + 2) BY Known DEF IInv, Consistent
  <2>2. acts + 3 \notin DOMAIN draft.images /\ acts + 3 \in 3 .. acts' + 2 BY <1>1, <2>1 DEF SoundAt
  <2>3. \A v : NewBitmap(v) => v.bitmap # acts + 3 /\ v.bitmap \in (3 .. acts' + 2) \ DOMAIN draft.images
    BY <1>1 DEF NewBitmap
  <2>4. \A k \in Uploads : queue[k].bitmap # acts + 3 /\ queue[k].bitmap \in (3 .. acts' + 2) \ DOMAIN draft.images
    BY <2>1, <2>3 DEF UploadsAreNew
  <2>5. \A v \in reading : v.bitmap # acts + 3 /\ v.bitmap \in (3 .. acts' + 2) \ DOMAIN draft.images
    BY <2>1, <2>3 DEF UploadsAreNew
  <2>6. \A v \in reading' : v.kind = "upload" /\ v.bitmap \in (3 .. acts' + 2) \ DOMAIN draft.images
    BY <1>2, <1>5, <2>1, <2>2, <2>5 DEF UploadsAreNew
  <2>7. \A v, w \in reading' : v.bitmap = w.bitmap => v = w
    BY <1>2, <1>5, <2>1, <2>5 DEF UploadsAreNew
  <2>8. \A k \in Uploads : \A v \in reading' : v.bitmap # queue[k].bitmap
    BY <1>2, <1>5, <2>1, <2>4 DEF UploadsAreNew
  <2>9. Uploads' = Uploads /\ queue' = queue /\ draft' = draft BY <1>2, <1>3 DEF Uploads
  <2>10. QED BY <2>1, <2>4, <2>6, <2>7, <2>8, <2>9 DEF UploadsAreNew, NewBitmap
<1>7. reading' \subseteq Ops BY <1>2, <1>5, TypesKnown
<1>8. acts' \in {acts, acts + 1} /\ queue' \in {queue, Append(queue, Plain)} BY <1>1, <1>2
<1>9. QED BY <1>1, <1>2, <1>3, <1>6, <1>7, <1>8, TypesKnown, PlainOp, QuietKeeps

LEMMA NormalizeKeeps == ASSUME IInv, NEW u \in reading, NormalizeUploadedImage(u) PROVE IInv'
<1>1. reading' = reading \ {u} /\ title' = title /\ acts' = acts /\ dialog' = dialog /\ faults' \in Nat
  BY TypesKnown DEF NormalizeUploadedImage, Fails
<1>2. UNCHANGED <<draft, done, stored, write, label>> BY DEF NormalizeUploadedImage
<1>3. u \in Ops BY TypesKnown
<1>4. queue' \in {queue, Append(queue, u)} BY DEF NormalizeUploadedImage, Enqueue
<1>5. reading' \subseteq Ops BY <1>1, TypesKnown
<1>6. UploadsAreNew'
  <2>1. UploadsAreNew /\ acts \in Nat /\ Len(queue) \in Nat /\ DOMAIN queue = 1 .. Len(queue)
    BY Known DEF IInv, Consistent
  <2>2. /\ \A k \in DOMAIN queue : queue'[k] = queue[k]
        /\ \A k \in DOMAIN queue' : k \in DOMAIN queue \/ (k = Len(queue) + 1 /\ queue'[k] = u)
    BY <1>3, <1>4, QueueGrows
  <2>3. \A v : NewBitmap(v)' <=> NewBitmap(v) BY <1>1, <1>2 DEF NewBitmap
  <2>4. \A k \in Uploads' : \/ k \in Uploads /\ queue'[k] = queue[k]
                            \/ k = Len(queue) + 1 /\ queue'[k] = u /\ k \notin DOMAIN queue
    BY <2>1, <2>2 DEF Uploads
  <2>5. \A v \in reading' : v.kind = "upload" /\ NewBitmap(v) /\ v \in reading /\ v # u
    BY <1>1, <2>1 DEF UploadsAreNew
  <2>6. NewBitmap(u) BY <2>1 DEF UploadsAreNew
  <2>7. \A k \in Uploads' : NewBitmap(queue'[k]) /\ \A v \in reading' : v.bitmap # queue'[k].bitmap
    BY <2>1, <2>4, <2>5, <2>6 DEF UploadsAreNew
  <2>8. \A k, l \in Uploads' : queue'[k].bitmap = queue'[l].bitmap => k = l
    BY <2>1, <2>4 DEF UploadsAreNew
  <2>9. \A v, w \in reading' : v.bitmap = w.bitmap => v = w BY <2>1, <2>5 DEF UploadsAreNew
  <2>10. \A k \in Uploads' : queue'[k].bitmap \in (3 .. acts' + 2) \ DOMAIN draft'.images
    BY <1>1, <1>2, <2>7 DEF NewBitmap
  <2>11. \A v \in reading' : v.bitmap \in (3 .. acts' + 2) \ DOMAIN draft'.images
    BY <1>1, <1>2, <2>5 DEF NewBitmap
  <2>12. QED BY <2>5, <2>7, <2>8, <2>9, <2>10, <2>11 DEF UploadsAreNew, NewBitmap
<1>7. QED BY <1>1, <1>2, <1>3, <1>4, <1>5, <1>6, TypesKnown, QuietKeeps

LEMMA OpenKeeps == ASSUME IInv, NEW s, OpenImageEditor(s) PROVE IInv'
<1>1. queue' = queue /\ title' = title /\ acts' = acts /\ reading' = reading /\ faults' = faults
  BY DEF OpenImageEditor
<1>2. UNCHANGED <<draft, done, stored, write, label>> BY DEF OpenImageEditor
<1>3. IsDraft(draft) /\ Good(draft.steps, DOMAIN draft.images, acts + 2) BY Known, StepsAsTheyAre
<1>4. s \in Ids(draft.steps) /\ Step(draft.steps, s).shot # 0 BY DEF OpenImageEditor
<1>5. PICK k \in DOMAIN draft.steps : Step(draft.steps, s) = draft.steps[k] /\ draft.steps[k].id = s
  BY <1>3, <1>4, PlaceOf
<1>6. PICK i \in DOMAIN draft.images : i = Step(draft.steps, s).shot BY <1>3, <1>4, <1>5 DEF Good
<1>7. draft.images[i].bitmap \in Nat BY <1>3 DEF IsDraft, Images
<1>8. i \in Nat /\ s \in Nat BY <1>3, <1>5, StepsAsTheyAre DEF Good
<1>9. dialog' = [Closed EXCEPT !.at = "editing", !.step = s, !.image = i, !.bitmap = draft.images[i].bitmap]
  BY <1>6 DEF OpenImageEditor
<1>10. dialog' \in [at : {"closed", "editing", "saving"}, step : Nat, image : Nat, bitmap : Nat, by : Nat]
  BY <1>7, <1>8, <1>9 DEF Closed
<1>11. UploadsAreNew' BY <1>1, <1>2, PlainOp, UploadsStay
<1>12. QED BY <1>1, <1>2, <1>10, <1>11, TypesKnown, PlainOp, QuietKeeps

LEMMA CancelKeeps == ASSUME IInv, CancelImageEditor PROVE IInv'
<1>1. queue' = queue /\ title' = title /\ acts' = acts /\ reading' = reading /\ faults' = faults
  BY DEF CancelImageEditor
<1>2. UNCHANGED <<draft, done, stored, write, label>> BY DEF CancelImageEditor
<1>3. dialog' \in [at : {"closed", "editing", "saving"}, step : Nat, image : Nat, bitmap : Nat, by : Nat]
  BY DEF CancelImageEditor, Closed
<1>4. UploadsAreNew' BY <1>1, <1>2, PlainOp, UploadsStay
<1>5. QED BY <1>1, <1>2, <1>3, <1>4, TypesKnown, PlainOp, QuietKeeps

LEMMA SaveKeeps == ASSUME IInv, SaveMasks PROVE IInv'
<1> DEFINE op == [kind |-> "masks", step |-> dialog.step, image |-> dialog.image, bitmap |-> dialog.bitmap, by |-> Now]
<1>1. acts' = acts + 1 /\ acts' <= MaxActs /\ Now = acts + 3 /\ acts \in Nat BY ActFacts DEF SaveMasks
<1>2. /\ dialog \in [at : {"closed", "editing", "saving"}, step : Nat, image : Nat, bitmap : Nat, by : Nat]
      /\ title \in Nat /\ reading \subseteq Ops /\ faults \in Nat
  BY TypesKnown
<1>3. op \in Ops /\ op.kind = "masks" BY <1>1, <1>2 DEF Ops
<1>4. title' = title /\ reading' = reading /\ faults' = faults BY DEF SaveMasks
<1>5. UNCHANGED <<draft, done, stored, write, label>> BY DEF SaveMasks
<1>6. queue' \in {queue, Append(queue, op)} BY DEF SaveMasks, Enqueue
<1>7. dialog' \in [at : {"closed", "editing", "saving"}, step : Nat, image : Nat, bitmap : Nat, by : Nat]
  <2>1. dialog' = dialog \/ dialog' = [dialog EXCEPT !.at = "saving", !.by = acts + 3] BY <1>1 DEF SaveMasks
  <2>2. acts + 3 \in Nat BY <1>1
  <2>3. QED BY <1>2, <2>1, <2>2
<1> HIDE DEF op
<1>8. UploadsAreNew' BY <1>1, <1>3, <1>4, <1>5, <1>6, UploadsStay
<1>9. acts' \in {acts, acts + 1} /\ title' \in Nat /\ faults' \in Nat /\ reading' \subseteq Ops
  BY <1>1, <1>2, <1>4
<1>10. QED BY <1>1, <1>3, <1>4, <1>5, <1>6, <1>7, <1>8, <1>9, QuietKeeps
----------------------------------------------------------------------------
(* The image edits: what a candidate is made of is sound again.            *)
Shows(new, steps, s, i) ==
    /\ DOMAIN new = DOMAIN steps
    /\ \A k \in DOMAIN steps :
          new[k] = [id |-> steps[k].id, text |-> steps[k].text, shot |-> IF steps[k].id = s THEN i ELSE steps[k].shot]

LEMMA WithShotIs ==
    ASSUME NEW I, NEW J, I \subseteq J, NEW n \in Nat, NEW steps, Good(steps, I, n), NEW s \in Ids(steps),
           NEW i \in Nat, i \in J \cup {0}
    PROVE  Good(WithShot(steps, s, i), J, n) /\ Shows(WithShot(steps, s, i), steps, s, i)
<1> DEFINE p == Place(steps, s)
           new == [steps[p] EXCEPT !.shot = i]
<1>1. p \in DOMAIN steps /\ steps[p].id = s /\ \A k \in DOMAIN steps : steps[k].id = s => k = p
  <2>1. p \in DOMAIN steps /\ steps[p].id = s BY PlaceOf
  <2> HIDE DEF p
  <2>2. QED BY <2>1 DEF Good
<1>2. steps \in Seq(Steps) /\ \A k \in DOMAIN steps : steps[k] \in Steps BY SeqKnown DEF Good
<1>3. WithShot(steps, s, i) = [steps EXCEPT ![p] = new] BY DEF WithShot
<1> HIDE DEF p
<1>4. new \in Steps /\ new = [id |-> s, text |-> steps[p].text, shot |-> i] BY <1>1, <1>2 DEF Steps
<1> HIDE DEF new
<1>5. WithShot(steps, s, i) \in Seq(Steps) /\ DOMAIN WithShot(steps, s, i) = DOMAIN steps
  BY <1>1, <1>2, <1>3, <1>4
<1>6. \A k \in DOMAIN steps : WithShot(steps, s, i)[k] = IF k = p THEN new ELSE steps[k]
  BY <1>1, <1>2, <1>3
<1>7. \A k \in DOMAIN steps : steps[k] = [id |-> steps[k].id, text |-> steps[k].text, shot |-> steps[k].shot]
  BY <1>2 DEF Steps
<1>8. \A k \in DOMAIN steps :
                 WithShot(steps, s, i)[k] = [id |-> steps[k].id, text |-> steps[k].text,
                                             shot |-> IF steps[k].id = s THEN i ELSE steps[k].shot]
  <2> SUFFICES ASSUME NEW k \in DOMAIN steps
               PROVE  WithShot(steps, s, i)[k] = [id |-> steps[k].id, text |-> steps[k].text,
                                                  shot |-> IF steps[k].id = s THEN i ELSE steps[k].shot]
    OBVIOUS
  <2>1. CASE k = p BY <1>1, <1>4, <1>6, <2>1
  <2>2. CASE k # p BY <1>1, <1>6, <1>7, <2>2
  <2>3. QED BY <2>1, <2>2
<1>9. Good(WithShot(steps, s, i), J, n)
  <2> DEFINE after == WithShot(steps, s, i)
  <2>1. ASSUME NEW k \in DOMAIN steps
        PROVE  after[k].id = steps[k].id /\ (after[k].shot = i \/ after[k].shot = steps[k].shot)
    <3> DEFINE shot == IF steps[k].id = s THEN i ELSE steps[k].shot
    <3>1. after[k] = [id |-> steps[k].id, text |-> steps[k].text, shot |-> shot] BY <1>8
    <3>2. shot = i \/ shot = steps[k].shot OBVIOUS
    <3> HIDE DEF after, shot
    <3>3. QED BY <3>1, <3>2
  <2>2. after \in Seq(Steps) /\ DOMAIN after = DOMAIN steps BY <1>5
  <2> HIDE DEF after
  <2>3. \A k, l \in DOMAIN after : after[k].id = after[l].id => k = l BY <2>1, <2>2 DEF Good
  <2>4. \A k \in DOMAIN after : after[k].id \in 1 .. n /\ after[k].shot \in J \cup {0} BY <2>1, <2>2 DEF Good
  <2>5. Good(after, J, n) BY <2>2, <2>3, <2>4 DEF Good
  <2>6. QED BY <2>5 DEF after
<1>10. QED BY <1>5, <1>8, <1>9 DEF Shows

LEMMA OwnIs ==
    ASSUME NEW d, NEW n \in Nat, SoundAt(d, n), NEW s \in Ids(d.steps)
    PROVE  /\ Own(d, s) \in DOMAIN d.images \cup {0} /\ Own(d, s) \in Nat /\ 0 \notin DOMAIN d.images
           /\ Own(d, s) # 0 => Own(d, s) = Step(d.steps, s).shot
<1>1. Good(d.steps, DOMAIN d.images, n) /\ DOMAIN d.images \subseteq 1 .. n BY DEF SoundAt
<1>2. PICK k \in DOMAIN d.steps : Step(d.steps, s) = d.steps[k] /\ d.steps[k].id = s BY <1>1, PlaceOf
<1>3. Step(d.steps, s).shot \in DOMAIN d.images \cup {0} BY <1>1, <1>2 DEF Good
<1>4. QED BY <1>1, <1>3 DEF Own

LEMMA RoomIs ==
    ASSUME NEW I, NEW n \in Nat, I \subseteq 1 .. n, Cardinality(I) <= MaxImages, NEW i
    PROVE  /\ IsFiniteSet(I)
           /\ i \in I => I \cup {i} = I
           /\ Cardinality(I \ {0}) + 1 <= MaxImages => Cardinality(I \cup {i}) <= MaxImages
<1>1. IsFiniteSet(1 .. n) BY FS_Interval
<1>2. IsFiniteSet(I) /\ Cardinality(I) \in Nat BY <1>1, FS_Subset, FS_CardinalityType
<1>3. I \ {0} = I OBVIOUS
<1>4. Cardinality(I \cup {i}) = IF i \in I THEN Cardinality(I) ELSE Cardinality(I) + 1 BY <1>2, FS_AddElement
<1>5. MaxImages \in Nat BY DraftEditorAssumption
<1>6. QED BY <1>2, <1>3, <1>4, <1>5

(* What an image edit puts: TargetIs, CandidateSound.                      *)
LEMMA TargetIs ==
    ASSUME NEW d, NEW n \in Nat, IsDraft(d), SoundAt(d, n), NEW op \in Ops, op.kind = "upload",
           op.bitmap \in (1 .. n) \ DOMAIN d.images, Builds(d, op)
    PROVE  /\ op.step \in Ids(d.steps)
           /\ Target(d, op) \in Nat \ {0} /\ Target(d, op) \in 1 .. n
           /\ Own(d, op.step) # 0 => Target(d, op) \in DOMAIN d.images
           /\ Cardinality(DOMAIN d.images \cup {Target(d, op)}) <= MaxImages
<1>1. op.step \in Ids(d.steps) /\ HasRoom(d, Own(d, op.step)) BY DEF Builds
<1>2. /\ Own(d, op.step) \in DOMAIN d.images \cup {0} /\ Own(d, op.step) \in Nat
      /\ 0 \notin DOMAIN d.images
  BY <1>1, OwnIs
<1>3. DOMAIN d.images \subseteq 1 .. n /\ Cardinality(DOMAIN d.images) <= MaxImages BY DEF SoundAt, ImagesFit
<1>4. CASE Own(d, op.step) = 0
  <2>1. Target(d, op) = op.bitmap BY <1>4 DEF Target
  <2>2. Cardinality(DOMAIN d.images \ {0}) + 1 <= MaxImages BY <1>1, <1>4 DEF HasRoom
  <2>3. Cardinality(DOMAIN d.images \cup {op.bitmap}) <= MaxImages BY <1>3, <2>2, RoomIs
  <2>4. QED BY <1>1, <1>4, <2>1, <2>3
<1>5. CASE Own(d, op.step) # 0
  <2>1. Target(d, op) = Own(d, op.step) /\ Target(d, op) \in DOMAIN d.images BY <1>2, <1>5 DEF Target
  <2>2. DOMAIN d.images \cup {Target(d, op)} = DOMAIN d.images BY <2>1
  <2>3. QED BY <1>1, <1>2, <1>3, <2>1, <2>2
<1>6. QED BY <1>4, <1>5

Hides(new, images, op) ==
    /\ DOMAIN new = DOMAIN images /\ new \in [DOMAIN images -> Images]
    /\ new[op.image] = [bitmap |-> op.bitmap, masks |-> [on |-> op.bitmap, by |-> op.by]]
    /\ \A i \in DOMAIN images : i # op.image => new[i] = images[i]

LEMMA MaskedIs ==
    ASSUME NEW images, images \in [DOMAIN images -> Images], NEW op \in Ops, SameBitmap(images, op)
    PROVE  Hides(Masked(images, op), images, op)
<1> DEFINE image == [bitmap |-> images[op.image].bitmap, masks |-> [on |-> op.bitmap, by |-> op.by]]
<1>1. op.image \in DOMAIN images /\ images[op.image].bitmap = op.bitmap BY DEF SameBitmap
<1>2. image \in Images BY <1>1 DEF Images, Masks, Ops
<1>3. image = [bitmap |-> op.bitmap, masks |-> [on |-> op.bitmap, by |-> op.by]] BY <1>1
<1>4. Masked(images, op) = WithImage(images, op.image, image) BY DEF Masked
<1>5. DOMAIN images \cup {op.image} = DOMAIN images BY <1>1
<1> DEFINE i == op.image
<1>6. i \in DOMAIN images /\ DOMAIN images \cup {i} = DOMAIN images BY <1>1
<1>7. Masked(images, op) = WithImage(images, i, image) BY <1>4
<1> HIDE DEF image, i
<1>8. /\ WithImage(images, i, image) \in [DOMAIN images \cup {i} -> Images]
      /\ DOMAIN WithImage(images, i, image) = DOMAIN images \cup {i}
      /\ WithImage(images, i, image)[i] = image
      /\ \A j \in DOMAIN images : j # i => WithImage(images, i, image)[j] = images[j]
  BY <1>2 DEF WithImage
<1>9. QED BY <1>3, <1>6, <1>7, <1>8 DEF i, Hides

LEMMA CandidateSound ==
    ASSUME NEW d, NEW n \in Nat, IsDraft(d), SoundAt(d, n), NEW op \in Ops, op.kind \in {"upload", "masks"},
           op.kind = "upload" => op.bitmap \in (1 .. n) \ DOMAIN d.images, Builds(d, op), title \in Nat
    PROVE  IsDraft(Candidate(d, op)) /\ SoundAt(Candidate(d, op), n)
<1> DEFINE steps == CandidateSteps(d, op)
           images == CandidateImages(d, op)
<1>1. Candidate(d, op) = [title |-> title, steps |-> steps, images |-> images] BY DEF Candidate
<1>2. /\ d.images \in [DOMAIN d.images -> Images]
      /\ Good(d.steps, DOMAIN d.images, n) /\ DOMAIN d.images \subseteq 1 .. n
      /\ MasksFitBitmap(d) /\ Cardinality(DOMAIN d.images) <= MaxImages
  BY DEF IsDraft, SoundAt, ImagesFit
<1>3. /\ Good(steps, DOMAIN images, n) /\ DOMAIN images \subseteq 1 .. n /\ images \in [DOMAIN images -> Images]
      /\ \A i \in DOMAIN images : images[i].masks = NoMasks \/ images[i].masks.on = images[i].bitmap
      /\ Cardinality(DOMAIN images) <= MaxImages
  <2>1. CASE op.kind = "masks"
    <3>1. steps = d.steps /\ images = Masked(d.images, op) BY <2>1 DEF CandidateSteps, CandidateImages
    <3>2. SameBitmap(d.images, op) BY <2>1 DEF Builds
    <3>3. /\ DOMAIN images = DOMAIN d.images /\ images \in [DOMAIN d.images -> Images]
          /\ images[op.image] = [bitmap |-> op.bitmap, masks |-> [on |-> op.bitmap, by |-> op.by]]
          /\ \A i \in DOMAIN d.images : i # op.image => images[i] = d.images[i]
      BY <1>2, <3>1, <3>2, MaskedIs DEF Hides
    <3> HIDE DEF steps, images
    <3>4. QED BY <1>2, <3>1, <3>3 DEF MasksFitBitmap
  <2>2. CASE op.kind = "upload"
    <3> DEFINE i == Target(d, op)
    <3>1. steps = WithShot(d.steps, op.step, i) /\ images = WithImage(d.images, i, Image(op))
      BY <2>2 DEF CandidateSteps, CandidateImages
    <3>2. op.step \in Ids(d.steps) /\ i \in Nat /\ i \in 1 .. n /\ Cardinality(DOMAIN d.images \cup {i}) <= MaxImages
      BY <2>2, TargetIs
    <3>3. Image(op) \in Images /\ Image(op).masks = NoMasks BY DEF Image, Images, Masks, NoMasks, Ops
    <3> HIDE DEF steps, images, i
    <3> DEFINE was == d.images
    <3>7. was \in [DOMAIN was -> Images] BY <1>2
    <3>8. images = WithImage(was, i, Image(op)) BY <3>1
    <3> HIDE DEF was
    <3>9. /\ DOMAIN images = DOMAIN was \cup {i} /\ images \in [DOMAIN was \cup {i} -> Images]
          /\ images[i] = Image(op)
          /\ \A j \in DOMAIN was : j # i => images[j] = was[j]
      BY <3>3, <3>7, <3>8 DEF WithImage
    <3>4. /\ DOMAIN images = DOMAIN d.images \cup {i} /\ images \in [DOMAIN d.images \cup {i} -> Images]
          /\ images[i] = Image(op)
          /\ \A j \in DOMAIN d.images : j # i => images[j] = d.images[j]
      BY <3>9 DEF was
    <3>5. Good(steps, DOMAIN images, n) BY <1>2, <3>1, <3>2, <3>4, WithShotIs
    <3>6. QED BY <1>2, <3>2, <3>3, <3>4, <3>5 DEF MasksFitBitmap
  <2>3. QED BY <2>1, <2>2
<1> HIDE DEF steps, images
<1>4. IsDraft(Candidate(d, op)) BY <1>1, <1>3 DEF IsDraft, Good
<1>5. SoundAt(Candidate(d, op), n) BY <1>1, <1>3 DEF SoundAt, MasksFitBitmap, ImagesFit
<1>6. QED BY <1>4, <1>5
----------------------------------------------------------------------------
(* The merge, when no image changed in memory: the steps get the new       *)
(* picture where the step is still there, and the images are those of the  *)
(* candidate, the new one when it is used.                                 *)
LEMMA FunctionOf ==
    ASSUME NEW S, NEW s \in Seq(S), NEW g, g = [k \in DOMAIN s |-> g[k]], \A k \in DOMAIN s : g[k] = s[k]
    PROVE  g = s
<1>1. s = [k \in DOMAIN s |-> s[k]] OBVIOUS
<1>2. QED BY <1>1

LEMMA MergedSteps ==
    ASSUME NEW I, NEW n \in Nat, NEW base, Good(base, I, n), NEW current, Good(current, I, n),
           NEW s \in Ids(base), NEW i \in Nat \ I, i # 0, i \in 1 .. n, Shots(current, base)
    PROVE  MergeSteps(base, WithShot(base, s, i), current)
           = IF s \in Ids(current) THEN WithShot(current, s, i) ELSE current
<1> DEFINE put == WithShot(base, s, i)
           new == MergeSteps(base, put, current)
           with(k) == [id |-> current[k].id, text |-> current[k].text,
                       shot |-> IF current[k].id = s THEN i ELSE current[k].shot]
<1>1. /\ Good(put, I \cup {i}, n) /\ DOMAIN put = DOMAIN base
      /\ \A l \in DOMAIN base : put[l] = [id |-> base[l].id, text |-> base[l].text,
                                          shot |-> IF base[l].id = s THEN i ELSE base[l].shot]
  BY WithShotIs DEF Shows
<1>2. current \in Seq(Steps) BY DEF Good
<1>3. \A k \in DOMAIN current : current[k] = [id |-> current[k].id, text |-> current[k].text, shot |-> current[k].shot]
  <2>1. \A k \in DOMAIN current : current[k] \in Steps BY <1>2, SeqKnown
  <2>2. QED BY <2>1 DEF Steps
<1> HIDE DEF put
<1>4. new = [k \in DOMAIN current |-> new[k]] BY DEF MergeSteps
<1>5. ASSUME NEW k \in DOMAIN current PROVE new[k] = with(k)
  <2> DEFINE t == current[k].id
  <2>1. CASE t \notin Ids(base)
    <3>1. new[k] = current[k] BY <2>1 DEF MergeSteps
    <3>2. t # s BY <2>1
    <3>3. QED BY <1>3, <3>1, <3>2
  <2>2. CASE t \in Ids(base)
    <3>1. PICK l \in DOMAIN base : base[l].id = t BY <2>2 DEF Ids
    <3>2. put[l].id = t /\ l \in DOMAIN put BY <1>1, <3>1
    <3>3. Step(base, t) = base[l] BY <3>1, PlaceOf
    <3>4. Step(put, t) = put[l] BY <1>1, <3>2, PlaceOf
    <3>5. current[k].shot = base[l].shot BY <2>2, <3>3 DEF Shots
    <3>6. base[l].shot # i BY <3>1 DEF Good
    <3>7. put[l].text = base[l].text /\ put[l].shot = IF t = s THEN i ELSE base[l].shot BY <1>1, <3>1
    <3>8. new[k] = [id |-> t, text |-> MergeChangedValue(base[l].text, put[l].text, current[k].text),
                    shot |-> MergeChangedValue(base[l].shot, put[l].shot, current[k].shot)]
      BY <2>2, <3>3, <3>4 DEF MergeSteps
    <3>9. MergeChangedValue(base[l].text, put[l].text, current[k].text) = current[k].text
      BY <3>7 DEF MergeChangedValue
    <3>10. MergeChangedValue(base[l].shot, put[l].shot, current[k].shot) = IF t = s THEN i ELSE current[k].shot
      BY <3>5, <3>6, <3>7 DEF MergeChangedValue
    <3>11. QED BY <3>8, <3>9, <3>10
  <2>3. QED BY <2>1, <2>2
<1> HIDE DEF new
<1>6. CASE s \in Ids(current)
  <2> DEFINE to == WithShot(current, s, i)
  <2>1. Good(to, I \cup {i}, n) /\ DOMAIN to = DOMAIN current /\ \A k \in DOMAIN current : to[k] = with(k)
    BY <1>6, WithShotIs DEF Shows
  <2>2. to \in Seq(Steps) BY <2>1 DEF Good
  <2> HIDE DEF to, with
  <2>3. new = to BY <1>4, <1>5, <2>1, <2>2, FunctionOf
  <2>4. QED BY <1>6, <2>3 DEF new, to, put
<1>7. CASE s \notin Ids(current)
  <2>1. \A k \in DOMAIN current : current[k].id # s BY <1>7 DEF Ids
  <2>2. \A k \in DOMAIN current : new[k] = current[k] BY <1>3, <1>5, <2>1
  <2>3. new = current BY <1>2, <1>4, <2>2, FunctionOf
  <2>4. QED BY <1>7, <2>3 DEF new, put
<1>8. QED BY <1>6, <1>7

(* A candidate with the steps of its base changes no step.                 *)
LEMMA MergedAsTheyAre ==
    ASSUME NEW base, NEW current \in Seq(Steps)
    PROVE  MergeSteps(base, base, current) = current
<1> DEFINE new == MergeSteps(base, base, current)
<1>1. \A k \in DOMAIN current : current[k] = [id |-> current[k].id, text |-> current[k].text, shot |-> current[k].shot]
  <2>1. \A k \in DOMAIN current : current[k] \in Steps BY SeqKnown
  <2>2. QED BY <2>1 DEF Steps
<1>2. \A a, b : MergeChangedValue(a, a, b) = b BY DEF MergeChangedValue
<1>3. ASSUME NEW k \in DOMAIN current PROVE new[k] = current[k]
  BY <1>1, <1>2 DEF MergeSteps
<1>4. new = [k \in DOMAIN current |-> new[k]] BY DEF MergeSteps
<1> HIDE DEF new
<1>5. new = current BY <1>3, <1>4, FunctionOf
<1>6. QED BY <1>5 DEF new

Only(put, I) == [i \in I |-> put[i]]

LEMMA MergedImages ==
    ASSUME NEW I, NEW base \in [I -> Images], NEW K, NEW put \in [K -> Images], I \subseteq K, NEW used
    PROVE  MergeImages(base, put, base, used) = Only(put, I \cup (K \cap used))
<1>1. \A i \in K : put[i] = [bitmap |-> put[i].bitmap, masks |-> put[i].masks] BY DEF Images
<1>2. \A a, b : MergeChangedValue(a, b, a) = b BY DEF MergeChangedValue
<1>3. I \cup ((K \ I) \cap used) = I \cup (K \cap used) OBVIOUS
<1>4. \A i \in I \cup (K \cap used) : i \in K OBVIOUS
<1>5. DOMAIN base = I /\ DOMAIN put = K OBVIOUS
<1>6. QED BY <1>1, <1>2, <1>3, <1>4, <1>5 DEF MergeImages, Only
----------------------------------------------------------------------------
LEMMA SameShot ==
    ASSUME NEW I, NEW n \in Nat, NEW steps, Good(steps, I, n), NEW s \in Ids(steps), NEW i \in Nat, i \in I,
           i = Step(steps, s).shot
    PROVE  WithShot(steps, s, i) = steps
<1> DEFINE new == WithShot(steps, s, i)
<1>1. /\ Good(new, I, n) /\ DOMAIN new = DOMAIN steps
      /\ \A k \in DOMAIN steps : new[k] = [id |-> steps[k].id, text |-> steps[k].text,
                                           shot |-> IF steps[k].id = s THEN i ELSE steps[k].shot]
  <2>1. I \subseteq I /\ i \in I \cup {0} OBVIOUS
  <2>2. Good(new, I, n) /\ Shows(new, steps, s, i) BY <2>1, WithShotIs
  <2>3. QED BY <2>2 DEF Shows
<1>2. steps \in Seq(Steps) /\ new \in Seq(Steps) BY <1>1 DEF Good
<1>3. \A k \in DOMAIN steps : steps[k] = [id |-> steps[k].id, text |-> steps[k].text, shot |-> steps[k].shot]
  <2>1. \A k \in DOMAIN steps : steps[k] \in Steps BY <1>2, SeqKnown
  <2>2. QED BY <2>1 DEF Steps
<1>4. \A k \in DOMAIN steps : steps[k].id = s => steps[k].shot = i BY PlaceOf
<1> HIDE DEF new
<1>5. \A k \in DOMAIN steps : new[k] = steps[k] BY <1>1, <1>3, <1>4
<1>6. new = [k \in DOMAIN steps |-> new[k]] BY <1>1, <1>2
<1>7. new = steps BY <1>2, <1>5, <1>6, FunctionOf
<1>8. QED BY <1>7 DEF new

LEMMA OpKnown ==
    ASSUME IInv, queue # <<>>
    PROVE  /\ Op \in Ops /\ Op.kind \in {"plain", "upload", "masks"}
           /\ Op.kind = "upload" => Op.bitmap \in (3 .. acts + 2) \ DOMAIN draft.images
<1>1. queue \in Seq(Ops) /\ UploadsAreNew BY Known DEF IInv, Consistent
<1>2. Op = queue[1] /\ Op \in Ops /\ 1 \in DOMAIN queue BY <1>1, Popped DEF Op
<1>3. Op.kind = "upload" => NewBitmap(Op) BY <1>1, <1>2 DEF UploadsAreNew, Uploads
<1>4. QED BY <1>2, <1>3 DEF NewBitmap, Ops

(* What the merge makes, of an image edit whose turn it is.                *)
Merged == MergePendingCandidate(write.base, write.put, draft)
PicksCandidate == Merged = [title |-> title, steps |-> draft.steps, images |-> write.put.images]
                  /\ DOMAIN write.put.images = DOMAIN draft.images
Joins == /\ Op.kind = "upload" /\ Own(write.base, Op.step) = 0 /\ Op.step \in Ids(draft.steps)
         /\ Merged = [title |-> title, steps |-> WithShot(draft.steps, Op.step, Op.bitmap), images |-> write.put.images]
         /\ write.put.images = WithImage(draft.images, Op.bitmap, Image(Op))
Drops == /\ Op.kind = "upload" /\ Own(write.base, Op.step) = 0 /\ Op.step \notin Ids(draft.steps)
         /\ Merged = [title |-> title, steps |-> draft.steps, images |-> draft.images]

LEMMA EditIs ==
    ASSUME IInv, write.at = "putting", Op.kind # "plain"
    PROVE  /\ Op \in Ops /\ Op.kind \in {"upload", "masks"} /\ Builds(write.base, Op)
           /\ draft.images = write.base.images /\ Shots(draft.steps, write.base.steps)
           /\ write.put.steps = CandidateSteps(write.base, Op) /\ write.put.images = CandidateImages(write.base, Op)
           /\ Op.kind = "upload" => Op.bitmap \in (1 .. acts + 2) \ DOMAIN draft.images /\ Op.bitmap # 0
           /\ write.base.images \in [DOMAIN draft.images -> Images]
           /\ write.put.images \in [DOMAIN write.put.images -> Images]
           /\ Good(write.base.steps, DOMAIN draft.images, acts + 2) /\ acts + 2 \in Nat
           /\ DOMAIN draft.images \subseteq 1 .. acts + 2
           /\ Good(draft.steps, DOMAIN draft.images, acts + 2) /\ draft.steps \in Seq(Steps)
<1>1. WriteKnown BY DEF IInv, Consistent
<1>2. queue # <<>> BY <1>1 DEF WriteKnown
<1>3. Op \in Ops /\ Op.kind \in {"upload", "masks"} BY <1>2, OpKnown
<1>4. /\ write.put = [title |-> write.put.title, steps |-> CandidateSteps(write.base, Op),
                      images |-> CandidateImages(write.base, Op)]
      /\ Builds(write.base, Op) /\ draft.images = write.base.images /\ Shots(draft.steps, write.base.steps)
  BY <1>1 DEF WriteKnown
<1>5. write.put.steps = CandidateSteps(write.base, Op) /\ write.put.images = CandidateImages(write.base, Op)
  BY <1>4
<1>6. Op.kind = "upload" => Op.bitmap \in (1 .. acts + 2) \ DOMAIN draft.images /\ Op.bitmap # 0
  <2>1. acts \in Nat BY Known
  <2>2. 3 .. acts + 2 \subseteq 1 .. acts + 2 /\ 0 \notin 3 .. acts + 2 BY <2>1
  <2>3. QED BY <1>2, <2>2, OpKnown
<1>7. /\ IsDraft(write.base) /\ SoundAt(write.base, acts + 2) /\ IsDraft(write.put)
      /\ IsDraft(draft) /\ SoundAt(draft, acts + 2) /\ acts + 2 \in Nat
  BY Known
<1>8. /\ write.base.images \in [DOMAIN draft.images -> Images]
      /\ write.put.images \in [DOMAIN write.put.images -> Images]
      /\ draft.steps \in Seq(Steps)
  BY <1>4, <1>7 DEF IsDraft
<1>9. /\ Good(write.base.steps, DOMAIN draft.images, acts + 2) /\ Good(draft.steps, DOMAIN draft.images, acts + 2)
      /\ DOMAIN draft.images \subseteq 1 .. acts + 2
  BY <1>4, <1>7 DEF SoundAt
<1>10. QED BY <1>3, <1>4, <1>5, <1>6, <1>7, <1>8, <1>9

LEMMA MergeIs ==
    ASSUME IInv, write.at = "putting", Op.kind # "plain"
    PROVE  (PicksCandidate \/ Joins \/ Drops) /\ Meant(done, Op) = [steps |-> Merged.steps, images |-> Merged.images]
<1> DEFINE I == DOMAIN draft.images
           n == acts + 2
           base == write.base
           put == write.put
           s == Op.step
           own == Own(base, s)
           steps == MergeSteps(base.steps, put.steps, draft.steps)
           images == MergeImages(base.images, put.images, draft.images, Used(steps))
<1>1. Merged = [title |-> title, steps |-> steps, images |-> images] BY DEF Merged, MergePendingCandidate
<1>2. /\ Op \in Ops /\ Op.kind \in {"upload", "masks"} /\ Builds(base, Op)
      /\ draft.images = base.images /\ Shots(draft.steps, base.steps)
      /\ put.steps = CandidateSteps(base, Op) /\ put.images = CandidateImages(base, Op)
      /\ Op.kind = "upload" => Op.bitmap \in (1 .. n) \ I /\ Op.bitmap # 0
      /\ base.images \in [I -> Images] /\ put.images \in [DOMAIN put.images -> Images]
      /\ Good(base.steps, I, n) /\ n \in Nat /\ I \subseteq 1 .. n
      /\ Good(draft.steps, I, n) /\ draft.steps \in Seq(Steps)
  BY EditIs
<1>3. done.steps = draft.steps /\ done.images = draft.images BY StepsAsTheyAre
<1>4. ASSUME I \subseteq DOMAIN put.images
      PROVE  images = Only(put.images, I \cup (DOMAIN put.images \cap Used(steps)))
  <2> DEFINE was == base.images
             cand == put.images
             used == Used(steps)
             K == DOMAIN put.images
  <2>1. images = MergeImages(was, cand, was, used) BY <1>2
  <2>2. was \in [I -> Images] /\ cand \in [K -> Images] /\ I \subseteq K BY <1>2, <1>4
  <2> HIDE DEF images, I, was, cand, used, K
  <2>3. images = Only(cand, I \cup (K \cap used)) BY <2>1, <2>2, MergedImages
  <2>4. QED BY <2>3 DEF K, cand, used
<1>5. CASE Op.kind = "masks"
  <2>1. put.steps = base.steps /\ put.images = Masked(base.images, Op)
    BY <1>2, <1>5 DEF CandidateSteps, CandidateImages
  <2>2. SameBitmap(base.images, Op) BY <1>2, <1>5 DEF Builds
  <2>3. DOMAIN put.images = I
    <3>1. base.images \in [DOMAIN base.images -> Images] /\ DOMAIN base.images = I BY <1>2
    <3>2. Hides(put.images, base.images, Op) BY <1>2, <2>1, <2>2, <3>1, MaskedIs
    <3>3. QED BY <3>1, <3>2 DEF Hides
  <2>4. steps = draft.steps BY <1>2, <2>1, MergedAsTheyAre
  <2>5. images = put.images BY <1>2, <1>4, <2>3 DEF Only
  <2>6. Meant(done, Op) = [steps |-> done.steps, images |-> Masked(done.images, Op)] BY <1>5 DEF Meant
  <2>7. Meant(done, Op) = [steps |-> steps, images |-> images] BY <1>2, <1>3, <2>1, <2>4, <2>5, <2>6
  <2> HIDE DEF steps, images
  <2>8. PicksCandidate BY <1>1, <2>3, <2>4, <2>5 DEF PicksCandidate
  <2>9. QED BY <1>1, <2>7, <2>8
<1>6. CASE Op.kind = "upload"
  <2>1. s \in Ids(base.steps) BY <1>2, <1>6 DEF Builds
  <2>2. /\ own \in I \cup {0} /\ own \in Nat /\ 0 \notin I
        /\ own # 0 => own = Step(base.steps, s).shot
    BY <1>2, <2>1, Known, OwnIs
  <2>3. /\ put.steps = WithShot(base.steps, s, Target(base, Op))
        /\ put.images = WithImage(base.images, Target(base, Op), Image(Op))
    BY <1>2, <1>6 DEF CandidateSteps, CandidateImages
  <2>4. CASE own # 0
    <3>1. Target(base, Op) = own BY <2>4 DEF Target
    <3>2. put.steps = base.steps BY <1>2, <2>1, <2>2, <2>3, <2>4, <3>1, SameShot
    <3>3. steps = draft.steps BY <1>2, <3>2, MergedAsTheyAre
    <3>4. DOMAIN put.images = I BY <1>2, <2>2, <2>3, <2>4, <3>1 DEF WithImage
    <3>5. images = put.images BY <1>2, <1>4, <3>4 DEF Only
    <3>6. Meant(done, Op) = [steps |-> done.steps, images |-> WithImage(done.images, own, Image(Op))]
      BY <1>6, <2>4 DEF Meant
    <3>7. Meant(done, Op) = [steps |-> steps, images |-> images] BY <1>2, <1>3, <2>3, <3>1, <3>3, <3>5, <3>6
    <3> HIDE DEF steps, images
    <3>8. PicksCandidate BY <1>1, <3>3, <3>4, <3>5 DEF PicksCandidate
    <3>9. QED BY <1>1, <3>7, <3>8
  <2>5. CASE own = 0
    <3> DEFINE b == Op.bitmap
    <3>1. Target(base, Op) = b BY <2>5 DEF Target
    <3>2. b \in Nat /\ b \notin I /\ b # 0 /\ b \in 1 .. n BY <1>2, <1>6
    <3>3. put.images = WithImage(draft.images, b, Image(Op)) /\ DOMAIN put.images = I \cup {b}
      BY <1>2, <2>3, <3>1 DEF WithImage
    <3>4. steps = IF s \in Ids(draft.steps) THEN WithShot(draft.steps, s, b) ELSE draft.steps
      BY <1>2, <2>1, <2>3, <3>1, <3>2, MergedSteps
    <3>5. images = Only(put.images, I \cup ((I \cup {b}) \cap Used(steps)))
      BY <1>4, <3>3
    <3>6. CASE s \in Ids(draft.steps)
      <4>1. steps = WithShot(draft.steps, s, b) BY <3>4, <3>6
      <4>2. PICK k \in DOMAIN draft.steps : draft.steps[k].id = s BY <3>6 DEF Ids
      <4>3. /\ DOMAIN WithShot(draft.steps, s, b) = DOMAIN draft.steps
            /\ WithShot(draft.steps, s, b)[k] = [id |-> draft.steps[k].id, text |-> draft.steps[k].text,
                                                 shot |-> IF draft.steps[k].id = s THEN b ELSE draft.steps[k].shot]
        <5> DEFINE now == draft.steps
        <5>1. I \subseteq I \cup {b} /\ b \in (I \cup {b}) \cup {0} OBVIOUS
        <5>2. Good(now, I, n) /\ s \in Ids(now) /\ k \in DOMAIN now /\ n \in Nat BY <1>2, <3>6, <4>2
        <5> HIDE DEF now, I, b, s, n
        <5>3. Shows(WithShot(now, s, b), now, s, b) BY <3>2, <5>1, <5>2, WithShotIs
        <5>4. QED BY <5>2, <5>3 DEF Shows, now
      <4>4. b \in Used(WithShot(draft.steps, s, b)) BY <3>2, <4>2, <4>3 DEF Used
      <4>5. I \cup ((I \cup {b}) \cap Used(steps)) = DOMAIN put.images BY <3>3, <4>1, <4>4
      <4>6. images = put.images BY <1>2, <3>5, <4>5 DEF Only
      <4>7. Meant(done, Op) = [steps |-> WithShot(done.steps, s, b), images |-> WithImage(done.images, b, Image(Op))]
        BY <1>3, <1>6, <2>5, <3>6 DEF Meant
      <4>8. Meant(done, Op) = [steps |-> steps, images |-> images] BY <1>3, <3>3, <4>1, <4>6, <4>7
      <4> HIDE DEF steps, images
      <4>9. Joins BY <1>1, <1>6, <2>5, <3>3, <3>6, <4>1, <4>6 DEF Joins
      <4>10. QED BY <1>1, <4>8, <4>9
    <3>7. CASE s \notin Ids(draft.steps)
      <4>1. steps = draft.steps BY <3>4, <3>7
      <4>2. b \notin Used(draft.steps) BY <1>2, <3>2 DEF Good, Used
      <4>3. I \cup ((I \cup {b}) \cap Used(steps)) = I BY <4>1, <4>2
      <4>4. \A i \in I : put.images[i] = draft.images[i] BY <3>2, <3>3 DEF WithImage
      <4>5. images = draft.images BY <1>2, <3>5, <4>3, <4>4 DEF Only
      <4>6. Meant(done, Op) = done BY <1>3, <1>6, <2>5, <3>7 DEF Meant
      <4>7. done = [steps |-> draft.steps, images |-> draft.images] BY Known
      <4> HIDE DEF steps, images
      <4>8. Drops BY <1>1, <1>6, <2>5, <3>7, <4>1, <4>5 DEF Drops
      <4>9. QED BY <1>1, <4>1, <4>5, <4>6, <4>7, <4>8
    <3>8. QED BY <3>6, <3>7
  <2>6. QED BY <2>4, <2>5
<1>7. QED BY <1>2, <1>5, <1>6
----------------------------------------------------------------------------
(* The steps of the queue.                                                 *)
LEMMA Built ==
    ASSUME IInv, acts' = acts, faults' \in Nat, title' = title, reading' = reading,
           queue' \in Seq(Ops), label' \in {"saved", "saving", "error"},
           IsDraft(draft'), SoundAt(draft', acts + 2), IsDraft(stored'), SoundAt(stored', acts + 2),
           done' = [steps |-> draft'.steps, images |-> draft'.images],
           write' = [at |-> write'.at, base |-> write'.base, put |-> write'.put],
           write'.at \in {"idle", "opening", "putting"},
           write'.at = "putting" => IsDraft(write'.base) /\ IsDraft(write'.put),
           dialog' \in [at : {"closed", "editing", "saving"}, step : Nat, image : Nat, bitmap : Nat, by : Nat],
           UploadsAreNew', WriteKnown'
    PROVE  IInv'
<1>1. acts' \in Nat /\ acts' \in 0 .. MaxActs /\ title' \in Nat /\ reading' \subseteq Ops
  BY TypesKnown, Known
<1>2. DraftOK(draft)' /\ DraftOK(stored)' BY <1>1, DraftOKNext
<1>3. done' = [steps |-> done'.steps, images |-> done'.images] /\ DraftIsWhatWasDone'
  BY DEF DraftIsWhatWasDone
<1>4. TypeOK' BY <1>1, <1>3 DEF TypeOK, IsDraft
<1>5. QED BY <1>2, <1>3, <1>4 DEF IInv, Consistent

LEMMA QueuePops ==
    ASSUME IInv, queue # <<>>, queue' = Tail(queue)
    PROVE  /\ queue' \in Seq(Ops)
           /\ \A k \in DOMAIN queue' : k + 1 \in DOMAIN queue /\ queue'[k] = queue[k + 1] /\ k \in Nat /\ k + 1 # 1
           /\ NoPlainAfter(0)' => NoPlainAfter(1)
           /\ NoPlainAfter(0)' /\ Op.kind # "plain" => NoPlainAfter(0)
<1>1. queue \in Seq(Ops) /\ Len(queue) \in Nat /\ DOMAIN queue = 1 .. Len(queue) BY Known
<1>2. /\ queue' \in Seq(Ops) /\ DOMAIN queue' = 1 .. Len(queue) - 1 /\ Len(queue) # 0
      /\ \A k \in 1 .. Len(queue) - 1 : queue'[k] = queue[k + 1]
      /\ Op = queue[1]
  BY <1>1, Popped DEF Op
<1>3. \A k \in DOMAIN queue' : k + 1 \in DOMAIN queue /\ queue'[k] = queue[k + 1] /\ k \in Nat /\ k + 1 # 1
  BY <1>1, <1>2
<1>4. ASSUME NoPlainAfter(0)', NEW k \in DOMAIN queue, k > 1 PROVE queue[k].kind # "plain"
  <2>1. k - 1 \in DOMAIN queue' /\ queue'[k - 1] = queue[k] /\ k - 1 > 0 BY <1>1, <1>2, <1>4
  <2>2. QED BY <1>4, <2>1 DEF NoPlainAfter
<1>5. ASSUME NoPlainAfter(0)', Op.kind # "plain", NEW k \in DOMAIN queue PROVE queue[k].kind # "plain"
  <2>1. k = 1 \/ k > 1 BY <1>1
  <2>2. QED BY <1>2, <1>4, <1>5, <2>1
<1>6. NoPlainAfter(0)' => NoPlainAfter(1) BY <1>4 DEF NoPlainAfter
<1>7. NoPlainAfter(0)' /\ Op.kind # "plain" => NoPlainAfter(0) BY <1>5 DEF NoPlainAfter
<1>8. QED BY <1>2, <1>3, <1>6, <1>7

LEMMA UploadsPop ==
    ASSUME IInv, queue # <<>>, queue' = Tail(queue), reading' = reading, acts' = acts,
           DOMAIN draft'.images \subseteq DOMAIN draft.images \cup (IF Op.kind = "upload" THEN {Op.bitmap} ELSE {})
    PROVE  UploadsAreNew'
<1>1. UploadsAreNew /\ queue \in Seq(Ops) BY Known DEF IInv, Consistent
<1>2. Op = queue[1] /\ 1 \in DOMAIN queue BY <1>1, Popped DEF Op
<1>3. \A k \in DOMAIN queue' : k + 1 \in DOMAIN queue /\ queue'[k] = queue[k + 1] /\ k \in Nat /\ k + 1 # 1
  BY QueuePops
<1>4. \A k \in Uploads' : k + 1 \in Uploads /\ queue'[k] = queue[k + 1] /\ k \in Nat /\ k + 1 # 1
  BY <1>3 DEF Uploads
<1>5. Op.kind = "upload" => 1 \in Uploads BY <1>2 DEF Uploads
<1>6. ASSUME NEW k \in Uploads'
      PROVE  /\ queue'[k].bitmap \in (3 .. acts' + 2) \ DOMAIN draft'.images
             /\ \A u \in reading' : u.bitmap # queue'[k].bitmap
  <2>1. NewBitmap(queue[k + 1]) BY <1>1, <1>4 DEF UploadsAreNew
  <2>2. Op.kind = "upload" => queue[k + 1].bitmap # Op.bitmap BY <1>1, <1>2, <1>4, <1>5 DEF UploadsAreNew
  <2>3. \A u \in reading' : u.bitmap # queue'[k].bitmap
    <3> DEFINE l == k + 1
    <3>1. l \in Uploads /\ queue'[k] = queue[l] BY <1>4
    <3> HIDE DEF l
    <3>2. \A u \in reading : u.bitmap # queue[l].bitmap BY <1>1, <3>1 DEF UploadsAreNew
    <3>3. QED BY <3>1, <3>2
  <2>4. queue'[k] = queue[k + 1] BY <1>4
  <2>5. QED BY <2>1, <2>2, <2>3, <2>4 DEF NewBitmap
<1>7. ASSUME NEW u \in reading'
      PROVE  u.kind = "upload" /\ u.bitmap \in (3 .. acts' + 2) \ DOMAIN draft'.images
  <2>1. u.kind = "upload" /\ NewBitmap(u) BY <1>1 DEF UploadsAreNew
  <2>2. Op.kind = "upload" => u.bitmap # Op.bitmap BY <1>1, <1>2, <1>5 DEF UploadsAreNew
  <2>3. QED BY <2>1, <2>2 DEF NewBitmap
<1>8. ASSUME NEW k \in Uploads', NEW l \in Uploads', queue'[k].bitmap = queue'[l].bitmap
      PROVE  k = l
  <2> DEFINE i == k + 1
             j == l + 1
  <2>1. i \in Uploads /\ j \in Uploads /\ queue[i].bitmap = queue[j].bitmap /\ k \in Nat /\ l \in Nat
    BY <1>4, <1>8
  <2>2. i = j => k = l BY <2>1
  <2> HIDE DEF i, j
  <2>3. i = j BY <1>1, <2>1 DEF UploadsAreNew
  <2>4. QED BY <2>2, <2>3
<1>9. \A u, v \in reading' : u.bitmap = v.bitmap => u = v BY <1>1 DEF UploadsAreNew
<1>10. QED BY <1>6, <1>7, <1>8, <1>9 DEF UploadsAreNew, NewBitmap

(* The turn of an operation, while nothing is being written.               *)
LEMMA TurnPlainKeeps == ASSUME IInv, TurnPlain PROVE IInv'
<1>1. /\ queue # <<>> /\ Op.kind = "plain"
      /\ write' = [NoWrite EXCEPT !.at = "opening"] /\ label' = "saving"
      /\ title' = title /\ stored' = stored /\ queue' = queue /\ reading' = reading /\ dialog' = dialog
      /\ done' = done /\ acts' = acts /\ faults' = faults
      /\ draft' = [draft EXCEPT !.title = title]
  BY DEF TurnPlain, Turn
<1>2. IsDraft(draft) /\ SoundAt(draft, acts + 2) /\ IsDraft(stored) /\ SoundAt(stored, acts + 2) BY Known
<1>3. draft' = [title |-> title, steps |-> draft.steps, images |-> draft.images] BY <1>1, <1>2 DEF IsDraft
<1>4. title \in Nat /\ queue \in Seq(Ops) /\ faults \in Nat
      /\ dialog \in [at : {"closed", "editing", "saving"}, step : Nat, image : Nat, bitmap : Nat, by : Nat]
  BY TypesKnown
<1>5. IsDraft(draft') /\ SoundAt(draft', acts + 2)
  BY <1>2, <1>3, <1>4 DEF IsDraft, SoundAt, MasksFitBitmap, ImagesFit
<1>6. done' = [steps |-> draft'.steps, images |-> draft'.images] BY <1>1, <1>3, Known
<1>7. write' = [at |-> "opening", base |-> <<>>, put |-> <<>>] BY <1>1 DEF NoWrite
<1>8. UploadsAreNew' BY <1>1, <1>3, PlainOp, UploadsStay
<1>9. Op' = Op BY <1>1 DEF Op
<1>10. WriteKnown' BY <1>1, <1>3, <1>7, <1>9 DEF WriteKnown
<1>11. QED BY <1>1, <1>2, <1>4, <1>5, <1>6, <1>7, <1>8, <1>10, Built

LEMMA CopyPlainKeeps == ASSUME IInv, CopyPlain PROVE IInv'
<1>1. /\ write.at = "opening" /\ write' = [at |-> "putting", base |-> draft, put |-> draft]
      /\ draft' = draft /\ title' = title /\ stored' = stored /\ queue' = queue /\ reading' = reading
      /\ dialog' = dialog /\ label' = label /\ done' = done /\ acts' = acts /\ faults' = faults
  BY DEF CopyPlain
<1>2. /\ IsDraft(draft) /\ SoundAt(draft, acts + 2) /\ IsDraft(stored) /\ SoundAt(stored, acts + 2)
      /\ done = [steps |-> draft.steps, images |-> draft.images] /\ acts \in Nat
  BY Known
<1>3. queue \in Seq(Ops) /\ faults \in Nat /\ label \in {"saved", "saving", "error"}
      /\ dialog \in [at : {"closed", "editing", "saving"}, step : Nat, image : Nat, bitmap : Nat, by : Nat]
  BY TypesKnown DEF IInv, Consistent, TypeOK
<1>4. UploadsAreNew' BY <1>1, PlainOp, UploadsStay
<1>5. Op' = Op BY <1>1 DEF Op
<1>6. queue # <<>> /\ label = "saving" /\ Op.kind = "plain" /\ (NoPlainAfter(1) => draft.title = title)
  BY <1>1 DEF IInv, Consistent, WriteKnown
<1>7. NoPlainAfter(1)' <=> NoPlainAfter(1) BY <1>1 DEF NoPlainAfter
<1>8. DraftOK(write.base)' /\ DraftOK(write.put)' BY <1>1, <1>2, DraftOKNext
<1>9. WriteKnown' BY <1>1, <1>5, <1>6, <1>7, <1>8 DEF WriteKnown
<1>10. QED BY <1>1, <1>2, <1>3, <1>4, <1>9, Built

LEMMA TurnCandidateKeeps == ASSUME IInv, TurnCandidate PROVE IInv'
<1>1. /\ queue # <<>> /\ Op.kind \in {"upload", "masks"} /\ Builds(draft, Op)
      /\ write' = [at |-> "putting", base |-> draft, put |-> Candidate(draft, Op)] /\ label' = "saving"
      /\ draft' = draft /\ title' = title /\ stored' = stored /\ queue' = queue /\ reading' = reading
      /\ dialog' = dialog /\ done' = done /\ acts' = acts /\ faults' = faults
  BY DEF TurnCandidate, Turn
<1>2. /\ IsDraft(draft) /\ SoundAt(draft, acts + 2) /\ IsDraft(stored) /\ SoundAt(stored, acts + 2)
      /\ done = [steps |-> draft.steps, images |-> draft.images] /\ acts \in Nat
  BY Known
<1>3. title \in Nat /\ queue \in Seq(Ops) /\ faults \in Nat
      /\ dialog \in [at : {"closed", "editing", "saving"}, step : Nat, image : Nat, bitmap : Nat, by : Nat]
  BY TypesKnown
<1>4. UploadsAreNew' BY <1>1, PlainOp, UploadsStay
<1>5. Op \in Ops /\ (Op.kind = "upload" => Op.bitmap \in (1 .. acts + 2) \ DOMAIN draft.images)
  <2>1. 3 .. acts + 2 \subseteq 1 .. acts + 2 BY <1>2
  <2>2. QED BY <1>1, <2>1, OpKnown
<1>6. IsDraft(Candidate(draft, Op)) /\ SoundAt(Candidate(draft, Op), acts + 2)
  <2>1. acts + 2 \in Nat BY <1>2
  <2>2. QED BY <1>1, <1>2, <1>3, <1>5, <2>1, CandidateSound
<1>7. Op' = Op BY <1>1 DEF Op
<1>8. /\ DraftOK(write.base)' /\ DraftOK(write.put)' BY <1>1, <1>2, <1>6, DraftOKNext
<1>9. Candidate(draft, Op) = [title |-> title, steps |-> CandidateSteps(draft, Op), images |-> CandidateImages(draft, Op)]
  BY DEF Candidate
<1>10. /\ CandidateSteps(write.base, Op)' = CandidateSteps(draft, Op)
       /\ CandidateImages(write.base, Op)' = CandidateImages(draft, Op)
       /\ Builds(write.base, Op)' <=> Builds(draft, Op)
       /\ Shots(draft.steps, write.base.steps)' <=> Shots(draft.steps, draft.steps)
  <2>1. write'.base = draft BY <1>1
  <2>2. QED BY <1>1, <1>7, <2>1
            DEF CandidateSteps, CandidateImages, Builds, SameBitmap, HasRoom, Masked, Target, WithShot, WithImage,
                Image, Own, Shared, Step, Place, Shots, Ids
<1>11. Shots(draft.steps, draft.steps)
  <2>1. Good(draft.steps, DOMAIN draft.images, acts + 2) BY <1>2 DEF SoundAt
  <2>2. \A k \in DOMAIN draft.steps : Step(draft.steps, draft.steps[k].id) = draft.steps[k] BY <2>1, PlaceOf
  <2>3. QED BY <2>2 DEF Shots
<1>12. write'.at = "putting" /\ write'.base = draft /\ write'.put = Candidate(draft, Op) /\ write'.put.title = title
  BY <1>1, <1>9
<1>13. write'.put = [title |-> write'.put.title, steps |-> CandidateSteps(write.base, Op)',
                     images |-> CandidateImages(write.base, Op)']
  BY <1>9, <1>10, <1>12
<1>14. Builds(write.base, Op)' /\ Shots(draft.steps, write.base.steps)' BY <1>1, <1>10, <1>11
<1>15. WriteKnown' BY <1>1, <1>7, <1>8, <1>12, <1>13, <1>14 DEF WriteKnown
<1>16. QED BY <1>1, <1>2, <1>3, <1>4, <1>6, <1>15, Built
LEMMA RefusedIs ==
    ASSUME IInv
    PROVE  Refused \in [at : {"closed", "editing", "saving"}, step : Nat, image : Nat, bitmap : Nat, by : Nat]
BY TypesKnown DEF Refused

LEMMA CandidateThrowsKeeps == ASSUME IInv, CandidateThrows PROVE IInv'
<1>1. /\ queue # <<>> /\ write.at = "idle" /\ Op.kind # "plain"
      /\ dialog' = Refused /\ queue' = Tail(queue)
      /\ draft' = draft /\ title' = title /\ stored' = stored /\ write' = write /\ reading' = reading
      /\ label' = label /\ done' = done /\ acts' = acts /\ faults' = faults
  BY DEF CandidateThrows, Turn
<1>2. /\ IsDraft(draft) /\ SoundAt(draft, acts + 2) /\ IsDraft(stored) /\ SoundAt(stored, acts + 2)
      /\ done = [steps |-> draft.steps, images |-> draft.images]
  BY Known
<1>3. /\ faults \in Nat /\ label \in {"saved", "saving", "error"}
      /\ write = [at |-> write.at, base |-> write.base, put |-> write.put]
  BY TypesKnown DEF IInv, Consistent, TypeOK
<1>4. UploadsAreNew' BY <1>1, UploadsPop
<1>5. queue' \in Seq(Ops) /\ (NoPlainAfter(0)' => NoPlainAfter(0)) BY <1>1, QueuePops
<1>6. WriteKnown' BY <1>1, <1>5 DEF IInv, Consistent, WriteKnown
<1>7. dialog' \in [at : {"closed", "editing", "saving"}, step : Nat, image : Nat, bitmap : Nat, by : Nat]
  BY <1>1, RefusedIs
<1>8. QED BY <1>1, <1>2, <1>3, <1>4, <1>5, <1>6, <1>7, Built

LEMMA PersistFailsKeeps == ASSUME IInv, PersistFails PROVE IInv'
<1>1. /\ write.at # "idle" /\ dialog' = Refused /\ queue' = Tail(queue) /\ write' = NoWrite /\ label' = "error"
      /\ draft' = draft /\ title' = title /\ stored' = stored /\ reading' = reading
      /\ done' = done /\ acts' = acts /\ faults' = faults + 1
  BY DEF PersistFails, Fails, LabelAfterFailure
<1>2. queue # <<>> BY <1>1 DEF IInv, Consistent, WriteKnown
<1>3. /\ IsDraft(draft) /\ SoundAt(draft, acts + 2) /\ IsDraft(stored) /\ SoundAt(stored, acts + 2)
      /\ done = [steps |-> draft.steps, images |-> draft.images]
  BY Known
<1>4. faults' \in Nat BY <1>1, TypesKnown
<1>5. UploadsAreNew' BY <1>1, <1>2, UploadsPop
<1>6. queue' \in Seq(Ops) BY <1>1, <1>2, QueuePops
<1>7. write' = [at |-> "idle", base |-> <<>>, put |-> <<>>] BY <1>1 DEF NoWrite
<1>8. WriteKnown' BY <1>1, <1>7 DEF WriteKnown
<1>9. dialog' \in [at : {"closed", "editing", "saving"}, step : Nat, image : Nat, bitmap : Nat, by : Nat]
  BY <1>1, RefusedIs
<1>10. QED BY <1>1, <1>3, <1>4, <1>5, <1>6, <1>7, <1>8, <1>9, Built

(* A write that arrives: what it holds becomes what is stored, an image    *)
(* edit is merged.                                                         *)
LEMMA MergedSound ==
    ASSUME IInv, write.at = "putting", Op.kind # "plain"
    PROVE  /\ IsDraft(Merged) /\ SoundAt(Merged, acts + 2)
           /\ DOMAIN Merged.images \subseteq DOMAIN draft.images \cup (IF Op.kind = "upload" THEN {Op.bitmap} ELSE {})
           /\ NoPlainAfter(1) => Merged = write.put /\ Merged.title = title
<1>1. /\ Op \in Ops /\ Op.kind \in {"upload", "masks"} /\ Builds(write.base, Op)
      /\ draft.images = write.base.images
      /\ write.put.steps = CandidateSteps(write.base, Op) /\ write.put.images = CandidateImages(write.base, Op)
      /\ Op.kind = "upload" => Op.bitmap \in (1 .. acts + 2) \ DOMAIN draft.images /\ Op.bitmap # 0
      /\ Good(write.base.steps, DOMAIN draft.images, acts + 2) /\ acts + 2 \in Nat
      /\ Good(draft.steps, DOMAIN draft.images, acts + 2)
  BY EditIs
<1>2. /\ IsDraft(draft) /\ SoundAt(draft, acts + 2) /\ IsDraft(write.put) /\ SoundAt(write.put, acts + 2)
      /\ SoundAt(write.base, acts + 2) /\ title \in Nat
  BY Known, TypesKnown
<1>3. NoPlainAfter(1) => draft = write.base /\ write.put.title = title BY DEF IInv, Consistent, WriteKnown
<1>4. CASE PicksCandidate
  <2>1. /\ Merged = [title |-> title, steps |-> draft.steps, images |-> write.put.images]
        /\ DOMAIN write.put.images = DOMAIN draft.images
    BY <1>4 DEF PicksCandidate
  <2>2. IsDraft(Merged) /\ SoundAt(Merged, acts + 2)
    BY <1>1, <1>2, <2>1 DEF IsDraft, SoundAt, MasksFitBitmap, ImagesFit
  <2>3. ASSUME NoPlainAfter(1) PROVE Merged = write.put /\ Merged.title = title
    <3>1. write.put.steps = draft.steps
      <4>1. CASE Op.kind = "masks" BY <1>1, <1>3, <2>3, <4>1 DEF CandidateSteps
      <4>2. CASE Op.kind = "upload"
        <5> DEFINE base == write.base
                   s == Op.step
                   own == Own(base, s)
        <5>1. s \in Ids(base.steps) BY <1>1, <4>2 DEF Builds
        <5>2. own \in DOMAIN base.images \cup {0} /\ own \in Nat /\ (own # 0 => own = Step(base.steps, s).shot)
          BY <1>1, <1>2, <5>1, OwnIs
        <5>3. write.put.steps = WithShot(base.steps, s, Target(base, Op))
              /\ write.put.images = WithImage(base.images, Target(base, Op), Image(Op))
          BY <1>1, <4>2 DEF CandidateSteps, CandidateImages
        <5>4. own # 0
          <6> SUFFICES ASSUME own = 0 PROVE FALSE OBVIOUS
          <6>1. Target(base, Op) = Op.bitmap BY DEF Target
          <6>2. Op.bitmap \in DOMAIN write.put.images BY <5>3, <6>1 DEF WithImage
          <6>3. QED BY <1>1, <2>1, <4>2, <6>2
        <5>5. Target(base, Op) = own BY <5>4 DEF Target
        <5>6. WithShot(base.steps, s, own) = base.steps BY <1>1, <5>1, <5>2, <5>4, SameShot
        <5>7. QED BY <1>3, <2>3, <5>3, <5>5, <5>6
      <4>3. QED BY <1>1, <4>1, <4>2
    <3>2. QED BY <1>2, <1>3, <2>1, <2>3, <3>1 DEF IsDraft
  <2>4. DOMAIN Merged.images = DOMAIN draft.images BY <2>1
  <2>5. QED BY <2>2, <2>3, <2>4
<1>5. CASE Joins
  <2> DEFINE b == Op.bitmap
             s == Op.step
  <2>1. /\ Op.kind = "upload" /\ Own(write.base, s) = 0 /\ s \in Ids(draft.steps)
        /\ Merged = [title |-> title, steps |-> WithShot(draft.steps, s, b), images |-> write.put.images]
        /\ write.put.images = WithImage(draft.images, b, Image(Op))
    BY <1>5 DEF Joins
  <2>2. DOMAIN write.put.images = DOMAIN draft.images \cup {b} BY <2>1 DEF WithImage
  <2>3. b \in Nat /\ b \in 1 .. acts + 2 BY <1>1, <2>1
  <2>4. Good(WithShot(draft.steps, s, b), DOMAIN write.put.images, acts + 2)
    <3> DEFINE steps == draft.steps
               I == DOMAIN draft.images
               J == DOMAIN write.put.images
               n == acts + 2
    <3>1. /\ Good(steps, I, n) /\ n \in Nat /\ I \subseteq J /\ s \in Ids(steps) /\ b \in Nat /\ b \in J \cup {0}
      BY <1>1, <2>1, <2>2, <2>3
    <3> HIDE DEF steps, I, J, n, b, s
    <3>2. Good(WithShot(steps, s, b), J, n) BY <3>1, WithShotIs
    <3>3. QED BY <3>2 DEF steps, J, n
  <2>5. IsDraft(Merged) /\ SoundAt(Merged, acts + 2)
    <3> HIDE DEF s, b
    <3>1. WithShot(draft.steps, s, b) \in Seq(Steps) BY <2>4 DEF Good
    <3>2. QED BY <1>2, <2>1, <2>4, <3>1 DEF IsDraft, SoundAt, MasksFitBitmap, ImagesFit
  <2>6. ASSUME NoPlainAfter(1) PROVE Merged = write.put /\ Merged.title = title
    <3>1. write.put.steps = WithShot(write.base.steps, s, Target(write.base, Op)) BY <1>1, <2>1 DEF CandidateSteps
    <3>2. Target(write.base, Op) = b BY <2>1 DEF Target
    <3>3. write.put.steps = WithShot(draft.steps, s, b) BY <1>3, <2>6, <3>1, <3>2
    <3>4. QED BY <1>2, <1>3, <2>1, <2>6, <3>3 DEF IsDraft
  <2>7. QED BY <2>1, <2>2, <2>5, <2>6
<1>6. CASE Drops
  <2>1. /\ Op.kind = "upload" /\ Op.step \notin Ids(draft.steps)
        /\ Merged = [title |-> title, steps |-> draft.steps, images |-> draft.images]
    BY <1>6 DEF Drops
  <2>2. IsDraft(Merged) /\ SoundAt(Merged, acts + 2)
    BY <1>2, <2>1 DEF IsDraft, SoundAt, MasksFitBitmap, ImagesFit
  <2>3. ~NoPlainAfter(1) BY <1>1, <1>3, <2>1 DEF Builds
  <2>4. QED BY <2>1, <2>2, <2>3
<1>7. QED BY <1>4, <1>5, <1>6, MergeIs

LEMMA PersistedKeeps == ASSUME IInv, Persisted PROVE IInv'
<1>1. /\ write.at = "putting" /\ stored' = write.put /\ label' = "saved" /\ queue' = Tail(queue) /\ write' = NoWrite
      /\ title' = title /\ reading' = reading /\ acts' = acts /\ faults' = faults
  BY DEF Persisted
<1>2. queue # <<>> BY <1>1 DEF IInv, Consistent, WriteKnown
<1>3. /\ IsDraft(draft) /\ SoundAt(draft, acts + 2) /\ IsDraft(write.put) /\ SoundAt(write.put, acts + 2)
      /\ done = [steps |-> draft.steps, images |-> draft.images]
  BY <1>1, Known
<1>4. /\ faults \in Nat
      /\ dialog \in [at : {"closed", "editing", "saving"}, step : Nat, image : Nat, bitmap : Nat, by : Nat]
  BY TypesKnown
<1>5. queue' \in Seq(Ops) /\ (NoPlainAfter(0)' => NoPlainAfter(1)) BY <1>1, <1>2, QueuePops
<1>6. write' = [at |-> "idle", base |-> <<>>, put |-> <<>>] BY <1>1 DEF NoWrite
<1>7. CASE Op.kind = "plain"
  <2>1. draft' = draft /\ dialog' = dialog /\ done' = done BY <1>7 DEF Persisted
  <2>2. NoPlainAfter(1) => draft = write.put /\ draft.title = title
    BY <1>1, <1>7 DEF IInv, Consistent, WriteKnown
  <2>3. WriteKnown' BY <1>1, <1>5, <1>6, <2>1, <2>2 DEF WriteKnown
  <2>4. UploadsAreNew' BY <1>1, <1>2, <2>1, UploadsPop
  <2>5. QED BY <1>1, <1>3, <1>4, <1>5, <1>6, <2>1, <2>3, <2>4, Built
<1>8. CASE Op.kind # "plain"
  <2>1. draft' = Merged /\ dialog' = DialogAfter /\ done' = Meant(done, Op) BY <1>8 DEF Persisted, Merged
  <2>2. /\ IsDraft(Merged) /\ SoundAt(Merged, acts + 2)
        /\ DOMAIN Merged.images \subseteq DOMAIN draft.images \cup (IF Op.kind = "upload" THEN {Op.bitmap} ELSE {})
        /\ NoPlainAfter(1) => Merged = write.put /\ Merged.title = title
    BY <1>1, <1>8, MergedSound
  <2>3. done' = [steps |-> draft'.steps, images |-> draft'.images] BY <1>1, <1>8, <2>1, MergeIs
  <2>4. dialog' \in [at : {"closed", "editing", "saving"}, step : Nat, image : Nat, bitmap : Nat, by : Nat]
    BY <1>4, <2>1 DEF DialogAfter, Closed
  <2>5. WriteKnown' BY <1>1, <1>5, <1>6, <2>1, <2>2 DEF WriteKnown
  <2>6. UploadsAreNew' BY <1>1, <1>2, <2>1, <2>2, UploadsPop
  <2>7. QED BY <1>1, <1>3, <1>4, <1>5, <1>6, <2>1, <2>2, <2>3, <2>4, <2>5, <2>6, Built
<1>9. QED BY <1>7, <1>8
----------------------------------------------------------------------------
LEMMA InitOK == Init => IInv
<1> SUFFICES ASSUME Init PROVE IInv OBVIOUS
<1> DEFINE steps == <<[id |-> 1, text |-> 0, shot |-> 1], [id |-> 2, text |-> 0, shot |-> 1]>>
           images == [i \in {1} |-> [bitmap |-> 1, masks |-> NoMasks]]
<1>1. draft = [title |-> 0, steps |-> steps, images |-> images] /\ stored = draft
  BY DEF Init, Recorded
<1>2. MaxActs \in Nat /\ MaxImages \in Nat /\ MaxImages # 0 BY DraftEditorAssumption
<1>3. steps \in Seq(Steps)
  <2>1. {1, 2} \subseteq StepIds BY <1>2 DEF StepIds
  <2>2. [id |-> 1, text |-> 0, shot |-> 1] \in Steps /\ [id |-> 2, text |-> 0, shot |-> 1] \in Steps
    BY <2>1 DEF Steps
  <2>3. QED BY <2>2
<1>4. images \in [{1} -> Images] BY DEF Images, Masks, NoMasks
<1>5. /\ DOMAIN images = {1} /\ images[1].masks = NoMasks
      /\ DOMAIN steps = {1, 2} /\ steps[1].id = 1 /\ steps[2].id = 2 /\ steps[1].shot = 1 /\ steps[2].shot = 1
  OBVIOUS
<1>6. Cardinality({1}) = 1 BY FS_Singleton
<1> HIDE DEF steps, images
<1>7. IsDraft(draft) /\ IsDraft(stored) BY <1>1, <1>3, <1>4, <1>5 DEF IsDraft
<1>8. Good(steps, {1}, 2) BY <1>3, <1>5 DEF Good
<1>9. SoundAt(draft, 2) BY <1>1, <1>2, <1>5, <1>6, <1>8 DEF SoundAt, MasksFitBitmap, ImagesFit
<1>10. acts = 0 /\ acts \in Nat BY DEF Init
<1>11. DraftOK(draft) /\ DraftOK(stored) BY <1>1, <1>7, <1>9, <1>10, DraftOKIs
<1>12. done = [steps |-> draft.steps, images |-> draft.images] BY DEF Init, Recorded
<1>13. TypeOK
  <2>1. dialog \in [at : {"closed", "editing", "saving"}, step : Nat, image : Nat, bitmap : Nat, by : Nat]
    BY DEF Init, Closed
  <2>2. write = [at |-> "idle", base |-> <<>>, put |-> <<>>] BY DEF Init, NoWrite
  <2>3. queue \in Seq(Ops) /\ reading \subseteq Ops /\ title \in Nat /\ faults \in Nat /\ label = "saved"
    BY DEF Init
  <2>4. acts \in 0 .. MaxActs BY <1>2, <1>10
  <2>5. QED BY <1>7, <1>12, <2>1, <2>2, <2>3, <2>4 DEF TypeOK
<1>14. UploadsAreNew BY DEF Init, UploadsAreNew, Uploads
<1>15. WriteKnown BY <1>1 DEF Init, WriteKnown, NoWrite
<1>16. DraftIsWhatWasDone BY <1>12 DEF DraftIsWhatWasDone
<1>17. QED BY <1>11, <1>13, <1>14, <1>15, <1>16 DEF IInv, Consistent

LEMMA StutterKeeps == ASSUME IInv, UNCHANGED vars PROVE IInv'
<1>1. /\ draft' = draft /\ title' = title /\ stored' = stored /\ queue' = queue /\ write' = write
      /\ reading' = reading /\ dialog' = dialog /\ label' = label /\ done' = done /\ acts' = acts /\ faults' = faults
  BY DEF vars
<1>2. UploadsAreNew' BY <1>1, PlainOp, UploadsStay
<1>3. acts' \in {acts, acts + 1} /\ queue' \in {queue, Append(queue, Plain)} BY <1>1
<1>4. QED BY <1>1, <1>2, <1>3, TypesKnown, PlainOp, QuietKeeps

LEMMA NextKeeps == IInv /\ [Next]_vars => IInv'
<1> SUFFICES ASSUME IInv, [Next]_vars PROVE IInv' OBVIOUS
<1>1. CASE TypeTitle BY <1>1, TypeTitleKeeps
<1>2. CASE AddStep BY <1>2, AddStepKeeps
<1>3. CASE SaveMasks BY <1>3, SaveKeeps
<1>4. CASE CancelImageEditor BY <1>4, CancelKeeps
<1>5. ASSUME NEW s \in StepIds, UpdateStepInstruction(s) PROVE IInv' BY <1>5, UpdateStepInstructionKeeps
<1>6. ASSUME NEW s \in StepIds, DeleteStep(s) PROVE IInv' BY <1>6, DeleteStepKeeps
<1>7. ASSUME NEW s \in StepIds, MoveStep(s) PROVE IInv' BY <1>7, MoveStepKeeps
<1>8. ASSUME NEW s \in StepIds, ChooseFile(s) PROVE IInv' BY <1>8, ChooseFileKeeps
<1>9. ASSUME NEW s \in StepIds, OpenImageEditor(s) PROVE IInv' BY <1>9, OpenKeeps
<1>10. ASSUME NEW u \in reading, NormalizeUploadedImage(u) PROVE IInv' BY <1>10, NormalizeKeeps
<1>11. CASE TurnPlain BY <1>11, TurnPlainKeeps
<1>12. CASE CopyPlain BY <1>12, CopyPlainKeeps
<1>13. CASE TurnCandidate BY <1>13, TurnCandidateKeeps
<1>14. CASE CandidateThrows BY <1>14, CandidateThrowsKeeps
<1>15. CASE Persisted BY <1>15, PersistedKeeps
<1>16. CASE PersistFails BY <1>16, PersistFailsKeeps
<1>17. CASE UNCHANGED vars BY <1>17, StutterKeeps
<1>18. QED
  BY <1>1, <1>2, <1>3, <1>4, <1>5, <1>6, <1>7, <1>8, <1>9, <1>10, <1>11, <1>12, <1>13, <1>14, <1>15, <1>16, <1>17
  DEF Next

LEMMA Always == Spec => []IInv
BY InitOK, NextKeeps, PTL DEF Spec

(* Whatever edits overtake the write of an image edit, the draft in memory *)
(* is what the acts make of it one after the other (editor.js              *)
(* mergePendingCandidate): the three-way merge loses nothing and brings    *)
(* nothing back, for any number of acts, images and faults.                *)
THEOREM DraftIsWhatWasDoneAlways == Spec => []DraftIsWhatWasDone
<1>1. IInv => DraftIsWhatWasDone BY DEF IInv
<1>2. QED BY <1>1, Always, PTL

(* When the page says saved and nothing waits, IndexedDB holds the draft   *)
(* of the page with the title in its input (editor.js persist,             *)
(* persistCandidate).                                                      *)
THEOREM SavedIsStoredAlways == Spec => []SavedIsStored
<1>1. ASSUME IInv PROVE SavedIsStored
  <2>1. queue = <<>> => NoPlainAfter(0) BY DEF NoPlainAfter
  <2>2. QED BY <1>1, <2>1 DEF IInv, Consistent, WriteKnown, SavedIsStored
<1>2. QED BY <1>1, Always, PTL

(* Masks lie on the picture they were drawn on, the image limit holds, ids *)
(* tell steps apart, a step's image is there, an upload brings a bitmap of *)
(* its own, in memory, in IndexedDB and in what is being written           *)
(* (editor.js onSave, assertImageCapacity).                                *)
THEOREM ConsistentAlways == Spec => []Consistent
<1>1. IInv => Consistent BY DEF IInv
<1>2. QED BY <1>1, Always, PTL
=============================================================================
