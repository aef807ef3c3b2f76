------------------------ MODULE ManualLifecycleProofs ------------------------
(***************************************************************************)
(* Proofs about ManualLifecycle, for any number of pages, revisions,       *)
(* writes, forms, loads and faults.  The inductive invariant is Consistent.*)
(***************************************************************************)
EXTENDS ManualLifecycle, TLAPS

LEMMA ElementType ==
  ASSUME NEW S, NEW s \in Seq(S), NEW i \in DOMAIN s
  PROVE  s[i] \in S
OBVIOUS

(* What removing an element leaves of a sequence.                          *)
LEMMA RemoveAtElements ==
  ASSUME NEW S, NEW s \in Seq(S), NEW i \in DOMAIN s
  PROVE  /\ RemoveAt(s, i) \in Seq(S)
         /\ Len(RemoveAt(s, i)) = Len(s) - 1
         /\ DOMAIN RemoveAt(s, i) = 1..(Len(s) - 1)
         /\ \A j \in 1..(Len(s) - 1) : RemoveAt(s, i)[j] = s[IF j < i THEN j ELSE j + 1]
<1> DEFINE a == SubSeq(s, 1, i - 1)
           b == SubSeq(s, i + 1, Len(s))
<1>1. a \in Seq(S) /\ Len(a) = i - 1 /\ \A j \in 1..(i - 1) : a[j] = s[j]
  OBVIOUS
<1>2. b \in Seq(S) /\ Len(b) = Len(s) - i /\ \A j \in 1..(Len(s) - i) : b[j] = s[i + j]
  OBVIOUS
<1>3. RemoveAt(s, i) = a \o b
  BY DEF RemoveAt
<1>4. i \in Nat /\ Len(s) \in Nat /\ i >= 1 /\ i <= Len(s)
  OBVIOUS
<1> HIDE DEF a, b
<1>5. a \o b \in Seq(S) /\ Len(a \o b) = Len(s) - 1
  BY <1>1, <1>2, <1>4
<1>6. DOMAIN (a \o b) = 1..(Len(s) - 1)
  BY <1>5
<1>7. ASSUME NEW j \in 1..(Len(s) - 1) PROVE (a \o b)[j] = s[IF j < i THEN j ELSE j + 1]
  <2>1. CASE j < i BY <2>1, <1>1, <1>2, <1>4
  <2>2. CASE ~(j < i)
    <3>1. (a \o b)[j] = b[j - (i - 1)] BY <2>2, <1>1, <1>2, <1>4
    <3>2. QED BY <3>1, <2>2, <1>2, <1>4
  <2>3. QED BY <2>1, <2>2
<1>8. QED BY <1>3, <1>5, <1>6, <1>7
-----------------------------------------------------------------------------
(* The database: m is the row of the manual, revs are its revisions.        *)
Sound(m, revs) ==
  /\ m \in Manuals /\ revs \in [Revs -> Revisions]
  /\ m.draft # 0 \/ m.published # 0
  /\ \A r \in Revs : revs[r].state = "draft" <=> r = m.draft
  /\ \A r \in Revs : revs[r].version <= m.version /\ UniqueSteps(revs[r].steps)
  /\ \A r \in Revs : \A i \in DOMAIN revs[r].steps : revs[r].steps[i].version <= m.version

ServerInv ==
  /\ manual \in Manuals /\ revisions \in [Revs -> Revisions]
  /\ \A r \in Revs : Len(revisions[r].steps) <= StepLimit
  /\ editors \subseteq Pages /\ clock \in 1..MaxWrites
  /\ PointersAgree /\ RevisionsInv

LEMMA Bounds == Times \subseteq Nat /\ Revs \subseteq Nat /\ 0 \notin Revs /\ 0 \in Times
BY BoundAssumption DEF Times, Revs

LEMMA ServerSound == ServerInv => Sound(manual, revisions)
BY DEF ServerInv, Sound, RevisionsInv, PointersAgree

LEMMA StepTypes ==
  /\ \A v \in Revisions : v.steps \in Seq(Steps) /\ \A i \in DOMAIN v.steps : v.steps[i].id \in Ids /\ v.steps[i].version \in Nat
  /\ \A d \in Details : d.steps \in Seq(Steps) /\ \A i \in DOMAIN d.steps : d.steps[i].id \in Ids /\ d.steps[i].version \in Nat
<1>1. \A s \in Steps : s.id \in Ids /\ s.version \in Nat
  BY Bounds DEF Steps
<1>2. ASSUME NEW v \in Revisions
      PROVE  v.steps \in Seq(Steps) /\ \A i \in DOMAIN v.steps : v.steps[i].id \in Ids /\ v.steps[i].version \in Nat
  <2>1. v.steps \in Seq(Steps) BY DEF Revisions
  <2>2. \A i \in DOMAIN v.steps : v.steps[i] \in Steps BY <2>1, ElementType
  <2>3. QED BY <1>1, <2>1, <2>2
<1>3. ASSUME NEW d \in Details
      PROVE  d.steps \in Seq(Steps) /\ \A i \in DOMAIN d.steps : d.steps[i].id \in Ids /\ d.steps[i].version \in Nat
  <2>1. d.steps \in Seq(Steps) BY DEF Details
  <2>2. \A i \in DOMAIN d.steps : d.steps[i] \in Steps BY <2>1, ElementType
  <2>3. QED BY <1>1, <2>1, <2>2
<1>4. QED BY <1>2, <1>3

(* A snapshot is of its kind and tells what it shows.                       *)
LEMMA SnapshotTells ==
  ASSUME NEW m, NEW revs, NEW canEdit \in BOOLEAN, Sound(m, revs),
         NEW d, d = Snapshot(m, revs, canEdit), d # None
  PROVE  d \in Details /\ Tells(m, revs, d) /\ d.manual = m.version /\ d.canEdit = canEdit
<1> DEFINE r == IF m.draft # 0 THEN m.draft ELSE m.published
<1>1. r \in Revs /\ r \in Nat
  BY Bounds DEF Sound, Manuals
<1>2. revs[r] \in Revisions
  BY <1>1 DEF Sound
<1>3. d = [rev |-> r, state |-> revs[r].state, version |-> revs[r].version,
           text |-> revs[r].text, steps |-> revs[r].steps,
           manual |-> m.version, published |-> m.published, canEdit |-> canEdit]
  BY DEF Snapshot
<1> HIDE DEF r
<1>4. d \in Details
  BY <1>1, <1>2, <1>3 DEF Sound, Details, Revisions, Manuals
<1>5. UniqueSteps(d.steps) /\ d.version <= m.version /\ \A i \in DOMAIN d.steps : d.steps[i].version <= m.version
  BY <1>1, <1>3 DEF Sound
<1>6. UpToDate(m, revs, d)
  <2>1. d.rev = r /\ d.published = m.published
    BY <1>3
  <2>2. Content(revs[d.rev]) = Content(d)
    BY <1>3, <2>1 DEF Content
  <2>3. QED BY <2>1, <2>2 DEF UpToDate, r
<1>7. ASSUME d.state = "draft" 
      PROVE  /\ Says(revs, Basics, d.version, d.text)
             /\ \A i \in DOMAIN d.steps : Says(revs, d.steps[i].id, d.steps[i].version, d.steps[i].text)
  <2>1. \A o \in Revs : revs[o].state = "draft" => o = r
    BY <1>1, <1>3, <1>7 DEF Sound
  <2>2. Basics \notin Ids
    BY DEF Basics, Ids
  <2>3. \A i \in DOMAIN revs[r].steps : revs[r].steps[i].id \in Ids
    BY <1>2, StepTypes
  <2>4. Says(revs, Basics, d.version, d.text)
    BY <1>3, <2>1, <2>2, <2>3 DEF Says
  <2>5. ASSUME NEW i \in DOMAIN d.steps PROVE Says(revs, d.steps[i].id, d.steps[i].version, d.steps[i].text)
    <3>1. d.steps = revs[r].steps /\ UniqueSteps(revs[r].steps)
      BY <1>1, <1>3 DEF Sound
    <3>2. d.steps[i].id # Basics
      BY <3>1, <2>2, <2>3
    <3>3. QED BY <2>1, <3>1, <3>2 DEF Says, UniqueSteps
  <2>6. QED BY <2>4, <2>5
<1>8. d.manual = m.version /\ d.canEdit = canEdit
  BY <1>3
<1>9. m.version \in Nat
  BY Bounds DEF Sound, Manuals
<1>10. QED BY <1>4, <1>5, <1>6, <1>7, <1>8, <1>9 DEF Tells
-----------------------------------------------------------------------------
(* A write gives every text that it changes the version of its time, later *)
(* than all that anybody has seen.                                         *)
OnlyNew(m, revs, m2, revs2) ==
  /\ m2.version > m.version
  /\ \A r \in Revs : revs2[r].state = "draft" =>
       /\ \/ revs2[r].version = m2.version
          \/ revs[r].state = "draft" /\ revs2[r].version = revs[r].version /\ revs2[r].text = revs[r].text
       /\ \A i \in DOMAIN revs2[r].steps :
            \/ revs2[r].steps[i].version = m2.version
            \/ revs[r].state = "draft" /\ \E j \in DOMAIN revs[r].steps : revs2[r].steps[i] = revs[r].steps[j]

LEMMA SaysStays ==
  ASSUME NEW m, NEW revs, NEW m2, NEW revs2, m.version \in Nat, m2.version \in Nat,
         OnlyNew(m, revs, m2, revs2),
         NEW key, NEW text, NEW version \in Nat, version <= m.version, Says(revs, key, version, text)
  PROVE  Says(revs2, key, version, text)
<1> SUFFICES ASSUME NEW r \in Revs, revs2[r].state = "draft"
             PROVE  /\ key = Basics /\ revs2[r].version = version => revs2[r].text = text
                    /\ \A i \in DOMAIN revs2[r].steps :
                         revs2[r].steps[i].id = key /\ revs2[r].steps[i].version = version
                           => revs2[r].steps[i].text = text
  BY DEF Says
<1>1. version # m2.version
  BY DEF OnlyNew
<1>2. key = Basics /\ revs2[r].version = version => revs2[r].text = text
  BY <1>1 DEF OnlyNew, Says
<1>3. ASSUME NEW i \in DOMAIN revs2[r].steps, revs2[r].steps[i].id = key, revs2[r].steps[i].version = version
      PROVE  revs2[r].steps[i].text = text
  BY <1>1, <1>3 DEF OnlyNew, Says
<1>4. QED BY <1>2, <1>3

LEMMA TellsStays ==
  ASSUME NEW m, NEW revs, NEW m2, NEW revs2, m.version \in Nat, m2.version \in Nat,
         OnlyNew(m, revs, m2, revs2)
  PROVE  /\ \A f \in Forms : FormTells(m, revs, f) => FormTells(m2, revs2, f)
         /\ \A d \in Details : Tells(m, revs, d) => Tells(m2, revs2, d)
<1>1. ASSUME NEW f \in Forms, FormTells(m, revs, f) PROVE FormTells(m2, revs2, f)
  <2>1. f.version \in Nat BY Bounds DEF Forms
  <2>2. f.version <= m.version /\ Says(revs, f.key, f.version, f.on) BY <1>1 DEF FormTells
  <2>3. Says(revs2, f.key, f.version, f.on) BY <2>1, <2>2, SaysStays
  <2>4. m2.version > m.version BY DEF OnlyNew
  <2>5. QED BY <2>1, <2>2, <2>3, <2>4 DEF FormTells
<1>2. ASSUME NEW d \in Details, Tells(m, revs, d) PROVE Tells(m2, revs2, d)
  <2>1. d.version \in Nat /\ d.manual \in Nat /\ \A i \in DOMAIN d.steps : d.steps[i].version \in Nat
    BY Bounds, StepTypes DEF Details
  <2>2. m2.version > m.version BY DEF OnlyNew
  <2>3. d.manual <= m2.version /\ d.version <= m2.version /\ d.manual # m2.version
    BY <1>2, <2>1, <2>2 DEF Tells
  <2>4. \A i \in DOMAIN d.steps : d.steps[i].version <= m.version /\ d.steps[i].version <= m2.version
    BY <1>2, <2>1, <2>2 DEF Tells
  <2>5. ASSUME d.state = "draft"
        PROVE  /\ Says(revs2, Basics, d.version, d.text)
               /\ \A i \in DOMAIN d.steps : Says(revs2, d.steps[i].id, d.steps[i].version, d.steps[i].text)
    <3>1. Says(revs2, Basics, d.version, d.text)
      BY <1>2, <2>1, <2>5, SaysStays DEF Tells
    <3>2. ASSUME NEW i \in DOMAIN d.steps
          PROVE  Says(revs2, d.steps[i].id, d.steps[i].version, d.steps[i].text)
      <4>1. Says(revs, d.steps[i].id, d.steps[i].version, d.steps[i].text)
        BY <1>2, <2>5 DEF Tells
      <4>2. QED BY <4>1, <2>1, <2>4, SaysStays
    <3>3. QED BY <3>1, <3>2
  <2>6. UniqueSteps(d.steps) BY <1>2 DEF Tells
  <2>7. QED BY <2>3, <2>4, <2>5, <2>6 DEF Tells
<1>3. QED BY <1>1, <1>2
-----------------------------------------------------------------------------
(* The writes.                                                             *)
LEMMA SequenceOfLength ==
  ASSUME NEW S, NEW n \in Nat, NEW f \in [1..n -> S]
  PROVE  f \in Seq(S) /\ Len(f) = n /\ DOMAIN f = 1..n
OBVIOUS

LEMMA TickFacts ==
  ASSUME ServerInv, Tick
  PROVE  /\ clock \in Nat /\ clock' = clock + 1 /\ clock' \in 1..MaxWrites /\ clock' \in Times /\ clock' \in Nat
         /\ clock' \in Times \ {0}
         /\ editors' = editors /\ manual.version = clock /\ clock \in Times
BY BoundAssumption DEF ServerInv, Tick, Times, RevisionsInv

LEMMA UniqueIn == ServerInv => \A r \in Revs : UniqueSteps(revisions[r].steps)
BY DEF ServerInv, RevisionsInv

(* New steps in a draft, each as it was or of the time of the write.        *)
StepsWrite(rev, steps) ==
  /\ revisions' = [revisions EXCEPT ![rev].steps = steps]
  /\ manual' = [manual EXCEPT !.version = clock']

LEMMA StepsWritten ==
  ASSUME ServerInv, Tick, NEW rev \in Revs, revisions[rev].state = "draft",
         NEW steps \in Seq(Steps), Len(steps) <= StepLimit, UniqueSteps(steps),
         \A i \in DOMAIN steps : steps[i].version <= clock' /\ steps[i].id[1] <= clock',
         \A i \in DOMAIN steps : \/ steps[i].version = clock'
                                 \/ \E j \in DOMAIN revisions[rev].steps : steps[i] = revisions[rev].steps[j],
         StepsWrite(rev, steps)
  PROVE  ServerInv' /\ OnlyNew(manual, revisions, manual', revisions')
<1>1. clock \in Nat /\ clock' = clock + 1 /\ clock' \in 1..MaxWrites /\ clock' \in Times
      /\ editors' = editors /\ manual.version = clock
  BY TickFacts
<1>2. manual \in Manuals /\ revisions \in [Revs -> Revisions]
  BY DEF ServerInv
<1>3. /\ revisions' \in [Revs -> Revisions]
      /\ \A r \in Revs : /\ revisions'[r].state = revisions[r].state /\ revisions'[r].version = revisions[r].version
                         /\ revisions'[r].text = revisions[r].text
                         /\ revisions'[r].steps = IF r = rev THEN steps ELSE revisions[r].steps
  BY <1>2 DEF StepsWrite, Revisions
<1>4. /\ manual' \in Manuals /\ manual'.version = clock'
      /\ manual'.draft = manual.draft /\ manual'.published = manual.published
  BY <1>1, <1>2 DEF StepsWrite, Manuals
<1>5. \A r \in Revs : revisions[r].version \in Nat
                      /\ \A i \in DOMAIN revisions[r].steps : revisions[r].steps[i].version \in Nat /\ revisions[r].steps[i].id[1] \in Nat
  BY <1>2, StepTypes, Bounds DEF Revisions, Ids
<1>6. PointersAgree'
  BY <1>3, <1>4 DEF ServerInv, PointersAgree
<1>7. RevisionsInv'
  <2>1. \A r \in Revs : revisions'[r].version <= clock' /\ UniqueSteps(revisions'[r].steps)
    BY <1>1, <1>3, <1>5 DEF ServerInv, RevisionsInv
  <2>2. ASSUME NEW r \in Revs, NEW i \in DOMAIN revisions'[r].steps
        PROVE  revisions'[r].steps[i].version <= clock' /\ revisions'[r].steps[i].id[1] <= clock'
    BY <1>1, <1>3, <1>5 DEF ServerInv, RevisionsInv
  <2>3. manual'.draft # 0 \/ manual'.published # 0
    BY <1>4 DEF ServerInv, RevisionsInv
  <2>4. QED BY <1>4, <2>1, <2>2, <2>3 DEF RevisionsInv
<1>8. \A r \in Revs : Len(revisions'[r].steps) <= StepLimit
  BY <1>3 DEF ServerInv
<1>9. ServerInv'
  BY <1>1, <1>3, <1>4, <1>6, <1>7, <1>8 DEF ServerInv
<1>10. OnlyNew(manual, revisions, manual', revisions')
  BY <1>1, <1>3, <1>4 DEF OnlyNew
<1>11. QED BY <1>9, <1>10

LEMMA StepsOf ==
  ASSUME ServerInv, NEW r \in Revs
  PROVE  /\ revisions[r].steps \in Seq(Steps) /\ Len(revisions[r].steps) \in Nat
         /\ DOMAIN revisions[r].steps = 1..Len(revisions[r].steps)
         /\ Len(revisions[r].steps) <= StepLimit /\ UniqueSteps(revisions[r].steps)
         /\ \A i \in DOMAIN revisions[r].steps :
              /\ revisions[r].steps[i] \in Steps
              /\ revisions[r].steps[i].id \in Ids /\ revisions[r].steps[i].id[1] \in Nat
              /\ revisions[r].steps[i].version \in Nat
              /\ revisions[r].steps[i].version <= clock /\ revisions[r].steps[i].id[1] <= clock
<1>1. revisions[r] \in Revisions
  BY DEF ServerInv
<1>2. revisions[r].steps \in Seq(Steps)
  BY <1>1 DEF Revisions
<1>3. \A i \in DOMAIN revisions[r].steps : revisions[r].steps[i] \in Steps
  BY <1>2, ElementType
<1>4. \A s \in Steps : s.id \in Ids /\ s.id[1] \in Nat /\ s.version \in Nat
  BY Bounds DEF Steps, Ids
<1>5. QED BY <1>2, <1>3, <1>4 DEF ServerInv, RevisionsInv

ServerWritten == ServerInv' /\ OnlyNew(manual, revisions, manual', revisions')
KnownRequest(p) == request[p] \in Requests

LEMMA Appended ==
  ASSUME ServerInv, NEW p \in Pages, KnownRequest(p), AppendManualStep(p)
  PROVE  ServerWritten
<1> DEFINE q == request[p]
           old == revisions[q.rev].steps
           new == [id |-> <<clock', 1>>, version |-> clock', text |-> clock']
           steps == Append(old, new)
<1>1. q.rev \in Revs /\ Tick /\ revisions[q.rev].state = "draft" /\ Len(old) < StepLimit
  BY DEF AppendManualStep, Writes, CanAppend, OpenDraft, KnownRequest, Requests
<1>2. StepsWrite(q.rev, steps)
  BY DEF AppendManualStep, WriteSteps, Advanced, StepsWrite
<1>3. new \in Steps /\ new.version = clock' /\ new.id[1] = clock'
  BY <1>1, TickFacts DEF Steps, Ids
<1>4. steps \in Seq(Steps) /\ DOMAIN steps = 1..(Len(old) + 1) /\ Len(steps) = Len(old) + 1
      /\ steps[Len(old) + 1] = new /\ \A i \in 1..Len(old) : steps[i] = old[i]
  <2> HIDE DEF new
  <2>1. old \in Seq(Steps) /\ Len(old) \in Nat BY <1>1, StepsOf
  <2> HIDE DEF old
  <2>2. QED BY <1>3, <2>1
<1>5. Len(steps) <= StepLimit
  BY <1>1, <1>4, StepsOf, LimitAssumption
<1>6. clock \in Nat /\ clock' = clock + 1
  BY <1>1, TickFacts
<1> HIDE DEF new, steps
<1>7. \A i \in DOMAIN steps : /\ steps[i].version <= clock' /\ steps[i].id[1] <= clock'
                              /\ steps[i].version = clock' \/ \E j \in DOMAIN old : steps[i] = old[j]
  <2>1. \A i \in 1..Len(old) : steps[i].version <= clock' /\ steps[i].id[1] <= clock' /\ i \in DOMAIN old
    BY <1>1, <1>4, <1>6, StepsOf
  <2>2. Len(old) \in Nat BY <1>1, StepsOf
  <2> HIDE DEF old
  <2>3. QED BY <1>3, <1>4, <1>6, <2>1, <2>2
<1>8. UniqueSteps(steps)
  <2>0. \A i \in 1..Len(old) : old[i].id[1] <= clock /\ old[i].id[1] \in Nat
    BY <1>1, StepsOf
  <2>1. \A i \in 1..Len(old) : steps[i].id[1] < clock' /\ steps[i].id[1] \in Nat
    <3>1. \A i \in 1..Len(old) : steps[i] = old[i] BY <1>4
    <3> HIDE DEF old
    <3>2. QED BY <2>0, <3>1, <1>6
  <2>2. UniqueSteps(old) /\ DOMAIN old = 1..Len(old) /\ Len(old) \in Nat BY <1>1, StepsOf
  <2> HIDE DEF old
  <2>3. ASSUME NEW i \in DOMAIN steps, NEW j \in DOMAIN steps, steps[i].id = steps[j].id PROVE i = j
    <3>1. CASE i \in 1..Len(old) /\ j \in 1..Len(old)
      BY <3>1, <2>2, <2>3, <1>4 DEF UniqueSteps
    <3>2. CASE i = Len(old) + 1 \/ j = Len(old) + 1
      BY <3>2, <2>1, <2>2, <2>3, <1>3, <1>4, <1>6
    <3>3. QED BY <3>1, <3>2, <2>2, <1>4
  <2>4. QED BY <2>3 DEF UniqueSteps
<1>9. QED BY <1>1, <1>2, <1>4, <1>5, <1>7, <1>8, StepsWritten DEF ServerWritten

LEMMA Updated ==
  ASSUME ServerInv, NEW p \in Pages, KnownRequest(p), UpdateManualStep(p)
  PROVE  ServerWritten
<1> DEFINE q == request[p]
           old == revisions[q.rev].steps
           new(s) == IF s.id = q.id THEN [s EXCEPT !.version = clock', !.text = clock'] ELSE s
           steps == [i \in DOMAIN old |-> new(old[i])]
<1>1. q.rev \in Revs /\ Tick /\ revisions[q.rev].state = "draft"
  BY DEF UpdateManualStep, Writes, CanUpdate, HasStep, OpenDraft, KnownRequest, Requests
<1>2. StepsWrite(q.rev, steps)
  BY DEF UpdateManualStep, WriteSteps, Advanced, StepsWrite
<1>3. clock \in Nat /\ clock' = clock + 1 /\ clock' \in Times
  BY <1>1, TickFacts
<1>4. \A s \in Steps : /\ new(s) \in Steps /\ new(s).id = s.id
                       /\ new(s) = s \/ new(s).version = clock'
  BY <1>3 DEF Steps
<1> HIDE DEF new
<1>5. steps \in Seq(Steps) /\ Len(steps) = Len(old) /\ DOMAIN steps = DOMAIN old
  <2>1. Len(old) \in Nat /\ DOMAIN old = 1..Len(old) /\ \A i \in DOMAIN old : old[i] \in Steps
    BY <1>1, StepsOf
  <2>2. steps \in [1..Len(old) -> Steps]
    BY <2>1, <1>4
  <2>3. QED BY <2>1, <2>2, SequenceOfLength
<1>6. \A i \in DOMAIN old : old[i] \in Steps /\ old[i].version \in Nat /\ old[i].version <= clock
                            /\ old[i].id[1] \in Nat /\ old[i].id[1] <= clock
  BY <1>1, StepsOf
<1>7. \A i \in DOMAIN steps : /\ steps[i].version <= clock' /\ steps[i].id[1] <= clock'
                              /\ steps[i].version = clock' \/ \E j \in DOMAIN old : steps[i] = old[j]
  <2> HIDE DEF old
  <2>1. \A i \in DOMAIN old : steps[i] = new(old[i]) OBVIOUS
  <2>2. QED BY <2>1, <1>3, <1>4, <1>5, <1>6
<1>8. UniqueSteps(steps)
  <2>1. UniqueSteps(old) BY <1>1, StepsOf
  <2>2. \A i \in DOMAIN steps : steps[i].id = old[i].id
    BY <1>4, <1>5, <1>6
  <2>3. QED BY <2>1, <2>2, <1>5 DEF UniqueSteps
<1>9. Len(steps) <= StepLimit
  BY <1>1, <1>5, StepsOf
<1> HIDE DEF steps
<1>10. QED BY <1>1, <1>2, <1>5, <1>7, <1>8, <1>9, StepsWritten DEF ServerWritten

LEMMA Deleted ==
  ASSUME ServerInv, NEW p \in Pages, KnownRequest(p), SoftDeleteManualStep(p)
  PROVE  ServerWritten
<1> DEFINE q == request[p]
           old == revisions[q.rev].steps
<1>1. q.rev \in Revs /\ Tick /\ revisions[q.rev].state = "draft"
  BY DEF SoftDeleteManualStep, Writes, HasStep, OpenDraft, KnownRequest, Requests
<1>2. PICK k \in DOMAIN old : StepsWrite(q.rev, RemoveAt(old, k))
  BY DEF SoftDeleteManualStep, WriteSteps, Advanced, StepsWrite
<1> DEFINE steps == RemoveAt(old, k)
<1>3. /\ steps \in Seq(Steps) /\ Len(steps) = Len(old) - 1
      /\ DOMAIN steps = 1..(Len(old) - 1)
      /\ \A j \in 1..(Len(old) - 1) : steps[j] = old[IF j < k THEN j ELSE j + 1]
  BY <1>1, StepsOf, RemoveAtElements
<1>4. clock \in Nat /\ clock' = clock + 1
  BY <1>1, TickFacts
<1>5. k \in 1..Len(old) /\ Len(old) \in Nat /\ Len(old) <= StepLimit /\ StepLimit \in Nat /\ DOMAIN old = 1..Len(old)
  BY <1>1, StepsOf, LimitAssumption
<1> HIDE DEF steps
<1>6. \A i \in DOMAIN old : old[i].version \in Nat /\ old[i].version <= clock
                            /\ old[i].id[1] \in Nat /\ old[i].id[1] <= clock
  BY <1>1, StepsOf
<1>7. UniqueSteps(old) BY <1>1, StepsOf
<1> HIDE DEF old
<1>8. \A j \in DOMAIN steps : \E i \in DOMAIN old : steps[j] = old[i] /\ i = IF j < k THEN j ELSE j + 1
  BY <1>3, <1>5
<1>9. UniqueSteps(steps)
  <2>1. ASSUME NEW i \in DOMAIN steps, NEW j \in DOMAIN steps, steps[i].id = steps[j].id PROVE i = j
    <3>1. (IF i < k THEN i ELSE i + 1) = (IF j < k THEN j ELSE j + 1)
      BY <1>7, <1>8, <2>1 DEF UniqueSteps
    <3>2. QED BY <3>1, <1>3, <1>5
  <2>2. QED BY <2>1 DEF UniqueSteps
<1>10. \A i \in DOMAIN steps : steps[i].version <= clock' /\ steps[i].id[1] <= clock'
  BY <1>4, <1>6, <1>8
<1>11. Len(steps) <= StepLimit
  BY <1>3, <1>5
<1>12. \A i \in DOMAIN steps : \E j \in DOMAIN revisions[q.rev].steps : steps[i] = revisions[q.rev].steps[j]
  BY <1>8 DEF old
<1>13. StepsWrite(q.rev, steps)
  BY <1>2 DEF steps
<1>14. QED BY <1>1, <1>3, <1>9, <1>10, <1>11, <1>12, <1>13, StepsWritten DEF ServerWritten

LEMMA StepOfId ==
  ASSUME NEW steps, NEW id \in StepIds(steps)
  PROVE  \E i \in DOMAIN steps : StepOf(steps, id) = steps[i] /\ steps[i].id = id
<1>1. \E s \in ToSet(steps) : s.id = id
  BY DEF StepIds, ToSet
<1>2. StepOf(steps, id) \in ToSet(steps) /\ StepOf(steps, id).id = id
  BY <1>1 DEF StepOf
<1>3. QED BY <1>2 DEF ToSet

LEMMA Reordered ==
  ASSUME ServerInv, NEW p \in Pages, KnownRequest(p),
         RequestOK(manual, revisions, request[p], page[p], forms[p]), ReorderManualSteps(p)
  PROVE  ServerWritten
<1> DEFINE q == request[p]
           old == revisions[q.rev].steps
           moved(id) == [StepOf(old, id) EXCEPT !.version = clock']
           steps == [i \in DOMAIN q.order |-> moved(q.order[i])]
<1>1. q.rev \in Revs /\ Tick /\ revisions[q.rev].state = "draft" /\ Len(q.order) = Len(old)
      /\ ToSet(q.order) = StepIds(old) /\ q.order \in Seq(Ids)
  BY DEF ReorderManualSteps, Writes, CanReorder, OpenDraft, KnownRequest, Requests
<1>2. StepsWrite(q.rev, steps)
  BY DEF ReorderManualSteps, WriteSteps, Advanced, StepsWrite
<1>3. clock \in Nat /\ clock' = clock + 1 /\ clock' \in Times
  BY <1>1, TickFacts
<1>4. Len(old) \in Nat /\ DOMAIN q.order = 1..Len(old) /\ Len(old) <= StepLimit
  BY <1>1, StepsOf
<1>5. \A i \in DOMAIN q.order : /\ moved(q.order[i]) \in Steps
                                /\ moved(q.order[i]).id = q.order[i] /\ moved(q.order[i]).version = clock'
                                /\ moved(q.order[i]).id[1] \in Nat /\ moved(q.order[i]).id[1] <= clock
  <2>1. SUFFICES ASSUME NEW i \in DOMAIN q.order
                 PROVE  /\ moved(q.order[i]) \in Steps
                        /\ moved(q.order[i]).id = q.order[i] /\ moved(q.order[i]).version = clock'
                        /\ moved(q.order[i]).id[1] \in Nat /\ moved(q.order[i]).id[1] <= clock
    OBVIOUS
  <2>2. q.order[i] \in StepIds(old)
    BY <1>1 DEF ToSet
  <2>3. PICK j \in DOMAIN old : StepOf(old, q.order[i]) = old[j] /\ old[j].id = q.order[i]
    BY <2>2, StepOfId
  <2>4. old[j] \in Steps /\ old[j].id[1] \in Nat /\ old[j].id[1] <= clock
    BY <1>1, StepsOf
  <2> HIDE DEF old, q
  <2>5. QED BY <2>3, <2>4, <1>3 DEF Steps
<1>6. q # NoRequest
  BY DEF ReorderManualSteps, Writes, NoRequest
<1>7. \A i, j \in DOMAIN q.order : q.order[i] = q.order[j] => i = j
  BY <1>6 DEF RequestOK
<1> HIDE DEF old, moved
<1>8. steps \in Seq(Steps) /\ Len(steps) = Len(old) /\ DOMAIN steps = DOMAIN q.order
  BY <1>4, <1>5, SequenceOfLength
<1>9. UniqueSteps(steps)
  BY <1>5, <1>7, <1>8 DEF UniqueSteps
<1>10. \A i \in DOMAIN steps : steps[i].version = clock' /\ steps[i].version <= clock' /\ steps[i].id[1] <= clock'
  BY <1>3, <1>5, <1>8
<1>11. Len(steps) <= StepLimit
  BY <1>4, <1>8
<1> HIDE DEF steps
<1>12. QED BY <1>1, <1>2, <1>8, <1>9, <1>10, <1>11, StepsWritten DEF ServerWritten

LEMMA BasicsWritten ==
  ASSUME ServerInv, NEW p \in Pages, KnownRequest(p), UpdateManualDraft(p)
  PROVE  ServerWritten
<1> DEFINE q == request[p]
<1>1. q.rev \in Revs /\ Tick
  BY DEF UpdateManualDraft, Writes, KnownRequest, Requests
<1>2. /\ revisions' = [revisions EXCEPT ![q.rev].text = clock', ![q.rev].version = clock']
      /\ manual' = [manual EXCEPT !.version = clock']
  BY DEF UpdateManualDraft
<1>3. clock \in Nat /\ clock' = clock + 1 /\ clock' \in Times /\ manual.version = clock
      /\ editors' = editors /\ clock' \in 1..MaxWrites
  BY <1>1, TickFacts
<1>4. manual \in Manuals /\ revisions \in [Revs -> Revisions]
  BY DEF ServerInv
<1> HIDE DEF q
<1>5. /\ revisions' \in [Revs -> Revisions]
      /\ \A r \in Revs : /\ revisions'[r].state = revisions[r].state /\ revisions'[r].steps = revisions[r].steps
                         /\ revisions'[r].version = (IF r = q.rev THEN clock' ELSE revisions[r].version)
                         /\ r # q.rev => revisions'[r].text = revisions[r].text
  <2>1. revisions' = [revisions EXCEPT ![q.rev] = [@ EXCEPT !.text = clock', !.version = clock']]
    BY <1>1, <1>2, <1>4 
  <2>2. \A r \in Revs : revisions[r] \in Revisions BY <1>4
  <2>3. [revisions[q.rev] EXCEPT !.text = clock', !.version = clock'] \in Revisions
    BY <1>1, <1>3, <2>2 DEF Revisions
  <2>4. QED BY <1>1, <1>4, <2>1, <2>2, <2>3 DEF Revisions
<1>6. /\ manual' \in Manuals /\ manual'.version = clock'
      /\ manual'.draft = manual.draft /\ manual'.published = manual.published
  BY <1>2, <1>3, <1>4 DEF Manuals
<1>7. PointersAgree'
  BY <1>5, <1>6 DEF ServerInv, PointersAgree
<1>8. \A r \in Revs : /\ revisions[r].version \in Nat /\ revisions[r].version <= clock
                      /\ revisions'[r].steps = revisions[r].steps /\ UniqueSteps(revisions[r].steps)
                      /\ \A i \in DOMAIN revisions[r].steps :
                           /\ revisions[r].steps[i].version \in Nat /\ revisions[r].steps[i].id[1] \in Nat
                           /\ revisions[r].steps[i].version <= clock /\ revisions[r].steps[i].id[1] <= clock
  BY <1>4, <1>5, StepsOf, Bounds DEF Revisions, ServerInv, RevisionsInv
<1>9. RevisionsInv'
  <2>1. manual'.draft # 0 \/ manual'.published # 0
    BY <1>6 DEF ServerInv, RevisionsInv
  <2>2. \A r \in Revs : revisions'[r].version <= clock' /\ UniqueSteps(revisions'[r].steps)
    BY <1>3, <1>5, <1>8
  <2>3. \A r \in Revs : \A i \in DOMAIN revisions'[r].steps :
          revisions'[r].steps[i].version <= clock' /\ revisions'[r].steps[i].id[1] <= clock'
    BY <1>3, <1>8
  <2>4. QED BY <1>6, <2>1, <2>2, <2>3 DEF RevisionsInv
<1>10. ServerInv'
  BY <1>3, <1>5, <1>6, <1>7, <1>9 DEF ServerInv
<1>11. OnlyNew(manual, revisions, manual', revisions')
  BY <1>3, <1>5, <1>6 DEF OnlyNew
<1>12. QED BY <1>10, <1>11 DEF ServerWritten

LEMMA ArchiveWritten ==
  ASSUME ServerInv, NEW p \in Pages, ArchiveManualRow(p)
  PROVE  ServerWritten
<1>1. Tick /\ manual' = [manual EXCEPT !.archived = TRUE, !.version = clock'] /\ revisions' = revisions
  BY DEF ArchiveManualRow, Writes
<1>2. clock \in Nat /\ clock' = clock + 1 /\ clock' \in Times /\ manual.version = clock
      /\ editors' = editors /\ clock' \in 1..MaxWrites
  BY <1>1, TickFacts
<1>3. manual \in Manuals /\ revisions \in [Revs -> Revisions]
  BY DEF ServerInv
<1>4. /\ manual' \in Manuals /\ manual'.version = clock'
      /\ manual'.draft = manual.draft /\ manual'.published = manual.published
  BY <1>1, <1>2, <1>3 DEF Manuals
<1>5. PointersAgree'
  BY <1>1, <1>4 DEF ServerInv, PointersAgree
<1>6. \A r \in Revs : /\ revisions[r].version \in Nat /\ revisions[r].version <= clock
                      /\ \A i \in DOMAIN revisions[r].steps :
                           /\ revisions[r].steps[i].version \in Nat /\ revisions[r].steps[i].id[1] \in Nat
                           /\ revisions[r].steps[i].version <= clock /\ revisions[r].steps[i].id[1] <= clock
  BY <1>3, StepsOf, Bounds DEF Revisions, ServerInv, RevisionsInv
<1>7. RevisionsInv'
  <2>1. manual'.draft # 0 \/ manual'.published # 0
    BY <1>4 DEF ServerInv, RevisionsInv
  <2>2. \A r \in Revs : revisions'[r].version <= clock' /\ UniqueSteps(revisions'[r].steps)
    BY <1>1, <1>2, <1>6, UniqueIn
  <2>3. \A r \in Revs : \A i \in DOMAIN revisions'[r].steps :
          revisions'[r].steps[i].version <= clock' /\ revisions'[r].steps[i].id[1] <= clock'
    BY <1>1, <1>2, <1>6
  <2>4. QED BY <1>4, <2>1, <2>2, <2>3 DEF RevisionsInv
<1>8. ServerInv'
  BY <1>1, <1>2, <1>3, <1>4, <1>5, <1>7 DEF ServerInv
<1>9. OnlyNew(manual, revisions, manual', revisions')
  BY <1>1, <1>2, <1>4 DEF OnlyNew
<1>10. QED BY <1>8, <1>9 DEF ServerWritten

(* The revision that was published before is superseded, and the pointers  *)
(* move with the states.                                                   *)
LEMMA PublishWritten ==
  ASSUME ServerInv, NEW p \in Pages, KnownRequest(p), PublishManualRevision(p)
  PROVE  ServerWritten
<1> DEFINE q == request[p]
<1>1. q.rev \in Revs /\ Tick /\ manual.draft = q.rev
  BY DEF PublishManualRevision, Writes, CanPublish, KnownRequest, Requests
<1>2. /\ revisions' = [r \in Revs |->
           IF r = q.rev THEN [revisions[r] EXCEPT !.state = "published", !.version = clock']
           ELSE IF r = manual.published THEN [revisions[r] EXCEPT !.state = "superseded", !.version = clock']
           ELSE revisions[r]]
      /\ manual' = [manual EXCEPT !.published = q.rev, !.draft = 0, !.version = clock']
  BY DEF PublishManualRevision, SupersededRevision
<1> HIDE DEF q
<1>3. clock \in Nat /\ clock' = clock + 1 /\ clock' \in Times /\ manual.version = clock
      /\ editors' = editors /\ clock' \in 1..MaxWrites
  BY <1>1, TickFacts
<1>4. manual \in Manuals /\ revisions \in [Revs -> Revisions]
  BY DEF ServerInv
<1>5. \A r \in Revs : revisions[r] \in Revisions
  BY <1>4
<1>6. \A v \in Revisions : \A st \in States :
        LET w == [v EXCEPT !.state = st, !.version = clock']
        IN w \in Revisions /\ w.state = st /\ w.version = clock' /\ w.text = v.text /\ w.steps = v.steps
  BY <1>3 DEF Revisions
<1>7. "published" \in States /\ "superseded" \in States
  BY DEF States
<1>8. /\ revisions' \in [Revs -> Revisions]
      /\ \A r \in Revs : /\ revisions'[r].steps = revisions[r].steps
                         /\ r = q.rev => revisions'[r].state = "published" /\ revisions'[r].version = clock'
                         /\ r # q.rev /\ r = manual.published =>
                              revisions'[r].state = "superseded" /\ revisions'[r].version = clock'
                         /\ r # q.rev /\ r # manual.published => revisions'[r] = revisions[r]
  BY <1>2, <1>5, <1>6, <1>7
<1>9. /\ manual' \in Manuals /\ manual'.version = clock'
      /\ manual'.draft = 0 /\ manual'.published = q.rev
  BY <1>1, <1>2, <1>3, <1>4 DEF Manuals
<1>10. PointersAgree'
  BY <1>1, <1>8, <1>9, Bounds DEF ServerInv, PointersAgree
<1>11. \A r \in Revs : /\ revisions[r].version \in Nat /\ revisions[r].version <= clock
                       /\ revisions'[r].steps = revisions[r].steps /\ UniqueSteps(revisions[r].steps)
                       /\ \A i \in DOMAIN revisions[r].steps :
                            /\ revisions[r].steps[i].version \in Nat /\ revisions[r].steps[i].id[1] \in Nat
                            /\ revisions[r].steps[i].version <= clock /\ revisions[r].steps[i].id[1] <= clock
  BY <1>4, <1>8, StepsOf, Bounds DEF Revisions, ServerInv, RevisionsInv
<1>12. RevisionsInv'
  <2>1. manual'.draft # 0 \/ manual'.published # 0
    BY <1>1, <1>9, Bounds
  <2>2. \A r \in Revs : revisions'[r].version <= clock' /\ UniqueSteps(revisions'[r].steps)
    BY <1>3, <1>8, <1>11
  <2>3. \A r \in Revs : \A i \in DOMAIN revisions'[r].steps :
          revisions'[r].steps[i].version <= clock' /\ revisions'[r].steps[i].id[1] <= clock'
    BY <1>3, <1>11
  <2>4. QED BY <1>9, <2>1, <2>2, <2>3 DEF RevisionsInv
<1>13. ServerInv'
  BY <1>3, <1>8, <1>9, <1>10, <1>12 DEF ServerInv
<1>14. \A r \in Revs : revisions'[r].state # "draft"
  BY <1>9, <1>10, Bounds DEF PointersAgree
<1>15. OnlyNew(manual, revisions, manual', revisions')
  BY <1>3, <1>9, <1>14 DEF OnlyNew
<1>16. QED BY <1>13, <1>15 DEF ServerWritten

(* The next draft has steps of its own, none with an identity known before.*)
LEMMA NextWritten ==
  ASSUME ServerInv, NEW p \in Pages, KnownRequest(p), CreateManualDraftFromPublished(p)
  PROVE  ServerWritten
<1> DEFINE q == request[p]
           old == revisions[q.rev]
           new(i) == [id |-> <<clock', i>>, version |-> clock', text |-> old.steps[i].text]
           steps == [i \in DOMAIN old.steps |-> new(i)]
           draft == [state |-> "draft", version |-> clock', text |-> old.text, steps |-> steps]
<1>1. q.rev \in Revs /\ Tick /\ manual.published = q.rev /\ manual.draft = 0
  BY DEF CreateManualDraftFromPublished, Writes, CanCreateNext, KnownRequest, Requests
<1>2. PICK n \in Revs : /\ revisions[n].state = "none"
                        /\ revisions' = [revisions EXCEPT ![n] = draft]
                        /\ manual' = [manual EXCEPT !.draft = n, !.version = clock']
  BY DEF CreateManualDraftFromPublished
<1>3. clock \in Nat /\ clock' = clock + 1 /\ clock' \in Times /\ clock' \in Times \ {0}
      /\ clock' \in Nat /\ manual.version = clock /\ editors' = editors /\ clock' \in 1..MaxWrites
  BY <1>1, TickFacts
<1>4. manual \in Manuals /\ revisions \in [Revs -> Revisions]
  BY DEF ServerInv
<1>5. old \in Revisions
  BY <1>1, <1>4
<1>6. old.steps \in Seq(Steps) /\ DOMAIN old.steps = 1..Len(old.steps) /\ Len(old.steps) \in Nat
      /\ Len(old.steps) <= StepLimit /\ \A i \in DOMAIN old.steps : old.steps[i] \in Steps
  BY <1>1, StepsOf
<1>7. \A i \in DOMAIN old.steps : /\ new(i) \in Steps /\ new(i).version = clock'
                                  /\ new(i).id[1] = clock' /\ new(i).id[2] = i
  BY <1>3, <1>6 DEF Steps, Ids
<1> HIDE DEF new
<1>8. steps \in Seq(Steps) /\ Len(steps) = Len(old.steps) /\ DOMAIN steps = DOMAIN old.steps
      /\ \A i \in DOMAIN steps : steps[i] = new(i)
  <2>1. steps \in [1..Len(old.steps) -> Steps]
    BY <1>6, <1>7
  <2>2. QED BY <2>1, <1>6, SequenceOfLength
<1>9. UniqueSteps(steps)
  BY <1>7, <1>8 DEF UniqueSteps
<1>10. Len(steps) <= StepLimit /\ \A i \in DOMAIN steps : steps[i].version = clock' /\ steps[i].id[1] = clock'
  BY <1>6, <1>7, <1>8
<1> HIDE DEF steps
<1>11. draft \in Revisions /\ draft.state = "draft" /\ draft.version = clock' /\ draft.steps = steps
  BY <1>3, <1>5, <1>8 DEF Revisions, States
<1> HIDE DEF draft, old, q
<1>12. /\ revisions' \in [Revs -> Revisions]
       /\ revisions'[n] = draft /\ \A r \in Revs : r # n => revisions'[r] = revisions[r]
  BY <1>2, <1>4, <1>11
<1>13. /\ manual' \in Manuals /\ manual'.version = clock'
       /\ manual'.draft = n /\ manual'.published = manual.published
  BY <1>2, <1>3, <1>4 DEF Manuals
<1>14. PointersAgree'
  <2>1. \A r \in Revs : revisions[r].state # "draft" /\ (revisions[r].state = "published" <=> r = manual.published)
    BY <1>1, Bounds DEF ServerInv, PointersAgree
  <2>2. QED BY <1>2, <1>11, <1>12, <1>13, <2>1 DEF PointersAgree
<1>15. \A r \in Revs : /\ revisions[r].version \in Nat /\ revisions[r].version <= clock
                       /\ UniqueSteps(revisions[r].steps) /\ Len(revisions[r].steps) <= StepLimit
                       /\ \A i \in DOMAIN revisions[r].steps :
                            /\ revisions[r].steps[i].version \in Nat /\ revisions[r].steps[i].id[1] \in Nat
                            /\ revisions[r].steps[i].version <= clock /\ revisions[r].steps[i].id[1] <= clock
  BY <1>4, StepsOf, Bounds DEF Revisions, ServerInv, RevisionsInv
<1>16. ASSUME NEW r \in Revs
       PROVE  /\ revisions'[r].version <= clock' /\ UniqueSteps(revisions'[r].steps)
              /\ Len(revisions'[r].steps) <= StepLimit
              /\ \A i \in DOMAIN revisions'[r].steps :
                   revisions'[r].steps[i].version <= clock' /\ revisions'[r].steps[i].id[1] <= clock'
  <2>1. CASE r = n BY <2>1, <1>3, <1>9, <1>10, <1>11, <1>12
  <2>2. CASE r # n
    <3>1. revisions'[r] = revisions[r] BY <2>2, <1>12
    <3>2. QED BY <3>1, <1>3, <1>15
  <2>3. QED BY <2>1, <2>2
<1>17. RevisionsInv'
  <2>1. manual'.draft # 0 \/ manual'.published # 0
    BY <1>13, Bounds
  <2>2. QED BY <1>13, <1>16, <2>1 DEF RevisionsInv
<1>18. ServerInv'
  BY <1>3, <1>12, <1>13, <1>14, <1>16, <1>17 DEF ServerInv
<1>19. OnlyNew(manual, revisions, manual', revisions')
  <2>1. \A r \in Revs : r # n => revisions'[r].state # "draft"
    BY <1>13, <1>14 DEF PointersAgree
  <2>2. QED BY <1>3, <1>10, <1>11, <1>12, <1>13, <2>1 DEF OnlyNew
<1>20. QED BY <1>18, <1>19 DEF ServerWritten

DatabaseWrite(p) ==
  \/ UpdateManualDraft(p) \/ AppendManualStep(p) \/ UpdateManualStep(p) \/ SoftDeleteManualStep(p)
  \/ ReorderManualSteps(p) \/ PublishManualRevision(p) \/ CreateManualDraftFromPublished(p)
  \/ ArchiveManualRow(p)

LEMMA Written ==
  ASSUME ServerInv, NEW p \in Pages, KnownRequest(p),
         RequestOK(manual, revisions, request[p], page[p], forms[p]), DatabaseWrite(p)
  PROVE  ServerWritten
BY Appended, Updated, Deleted, Reordered, BasicsWritten, ArchiveWritten, PublishWritten, NextWritten
   DEF DatabaseWrite
-----------------------------------------------------------------------------
(* One page beside a manual m with revisions revs.                         *)
Typed(q, ls, pg, fs) ==
  /\ q \in Requests \cup {NoRequest} /\ ls \in Seq(Loads) /\ pg \in Screens /\ fs \subseteq Forms
  /\ pg.status = "loaded" => pg.shown # None

Local(m, revs, q, ls, pg, fs) == Typed(q, ls, pg, fs) /\ PageOK(m, revs, q, ls, pg, fs)

LEMMA Invariant ==
  Consistent <=> /\ ServerInv /\ faults \in 0..MaxFaults
                 /\ request \in [Pages -> Requests \cup {NoRequest}] /\ loads \in [Pages -> Seq(Loads)]
                 /\ page \in [Pages -> Screens] /\ forms \in [Pages -> SUBSET Forms]
                 /\ \A p \in Pages : Local(manual, revisions, request[p], loads[p], page[p], forms[p])
BY DEF Consistent, TypeOK, ServerInv, Local, Typed

(* A write of somebody else leaves a page as true as it was.               *)
LEMMA LocalStays ==
  ASSUME NEW m, NEW revs, NEW m2, NEW revs2, m.version \in Nat, m2.version \in Nat,
         OnlyNew(m, revs, m2, revs2),
         NEW q, NEW ls, NEW pg, NEW fs, Local(m, revs, q, ls, pg, fs)
  PROVE  Local(m2, revs2, q, ls, pg, fs)
<1>1. /\ \A f \in Forms : FormTells(m, revs, f) => FormTells(m2, revs2, f)
      /\ \A d \in Details : Tells(m, revs, d) => Tells(m2, revs2, d)
  BY TellsStays
<1>2. Typed(q, ls, pg, fs) /\ m2.version > m.version
  BY DEF Local, OnlyNew
<1>3. \A gs \in SUBSET Forms : AllTell(m, revs, gs) => AllTell(m2, revs2, gs)
  BY <1>1 DEF AllTell
<1>4. RequestOK(m2, revs2, q, pg, fs)
  <2>1. SUFFICES ASSUME q # NoRequest PROVE RequestOK(m2, revs2, q, pg, fs)
    BY DEF RequestOK
  <2>2. q.keep \in SUBSET Forms /\ q.seen \in Details \cup {None} /\ q.expected \in Nat
    BY <1>2, <2>1, Bounds DEF Typed, Requests
  <2>3. RequestOK(m, revs, q, pg, fs)
    BY DEF Local, PageOK
  <2>4. q.kind \in {"basics", "update"} => q.expected <= m2.version /\ Says(revs2, q.id, q.expected, q.on)
    BY <1>2, <2>1, <2>2, <2>3, SaysStays DEF RequestOK
  <2>5. q.kind \in {"publish", "archive"} => q.seen # None /\ Tells(m2, revs2, q.seen)
    BY <1>1, <2>1, <2>2, <2>3 DEF RequestOK
  <2>6. AllTell(m2, revs2, q.keep)
    BY <1>3, <2>1, <2>2, <2>3 DEF RequestOK
  <2>7. QED BY <2>1, <2>3, <2>4, <2>5, <2>6 DEF RequestOK
<1>5. LoadsOK(m2, revs2, q, ls, pg, fs)
  <2>1. LoadsOK(m, revs, q, ls, pg, fs)
    BY DEF Local, PageOK
  <2>2. ASSUME NEW i \in DOMAIN ls PROVE LoadOK(m2, revs2, q, ls[i], pg, fs)
    <3>1. ls[i] \in Loads
      BY <1>2, ElementType DEF Typed
    <3>2. ls[i].keep \in SUBSET Forms /\ ls[i].snap \in Details \cup {None}
      BY <3>1 DEF Loads
    <3>3. LoadOK(m, revs, q, ls[i], pg, fs)
      BY <2>1 DEF LoadsOK
    <3>4. QED BY <1>1, <1>3, <3>2, <3>3 DEF LoadOK
  <2>3. QED BY <2>1, <2>2 DEF LoadsOK
<1>6. ScreenOK(m2, revs2, ls, pg, fs)
  <2>1. ScreenOK(m, revs, ls, pg, fs)
    BY DEF Local, PageOK
  <2>2. pg.shown \in Details \cup {None} /\ pg.wrote \in Nat /\ fs \in SUBSET Forms
    BY <1>2, Bounds DEF Typed, Screens
  <2>3. AllTell(m2, revs2, fs) /\ pg.wrote <= m2.version
    BY <1>2, <1>3, <2>1, <2>2 DEF ScreenOK
  <2>4. pg.shown # None => Tells(m2, revs2, pg.shown)
    BY <1>1, <2>1, <2>2 DEF ScreenOK
  <2>5. QED BY <2>1, <2>3, <2>4 DEF ScreenOK
<1>7. QED BY <1>2, <1>4, <1>5, <1>6 DEF Local, PageOK

-----------------------------------------------------------------------------
(* What a page may go on to: its call q2, its loads ls2, its screen pg2 and *)
(* its forms fs2 after a step.                                              *)

(* No load that ends a mutation, and no forms beside the latest other one. *)
Settled(ls) == \A i \in DOMAIN ls : ~ls[i].finish

LEMMA SupersededLoads ==
  ASSUME NEW ls \in Seq(Loads)
  PROVE  /\ Superseded(ls) \in Seq(Loads) /\ Len(Superseded(ls)) = Len(ls)
         /\ DOMAIN Superseded(ls) = DOMAIN ls
         /\ \A i \in DOMAIN ls : /\ ls[i] \in Loads /\ Superseded(ls)[i] = [ls[i] EXCEPT !.latest = FALSE]
                                 /\ Superseded(ls)[i].latest = FALSE /\ Superseded(ls)[i].finish = ls[i].finish
                                 /\ Superseded(ls)[i].keep = ls[i].keep /\ Superseded(ls)[i].snap = ls[i].snap
<1>1. \A i \in DOMAIN ls : ls[i] \in Loads /\ [ls[i] EXCEPT !.latest = FALSE] \in Loads
  <2>1. \A i \in DOMAIN ls : ls[i] \in Loads BY ElementType
  <2>2. \A l \in Loads : [l EXCEPT !.latest = FALSE] \in Loads BY DEF Loads
  <2>3. QED BY <2>1, <2>2
<1>2. Len(ls) \in Nat /\ DOMAIN ls = 1..Len(ls)
  OBVIOUS
<1>3. Superseded(ls) \in [1..Len(ls) -> Loads]
  BY <1>1, <1>2 DEF Superseded
<1>4. Superseded(ls) \in Seq(Loads) /\ Len(Superseded(ls)) = Len(ls) /\ DOMAIN Superseded(ls) = DOMAIN ls
  BY <1>2, <1>3, SequenceOfLength
<1>5. \A i \in DOMAIN ls : Superseded(ls)[i] = [ls[i] EXCEPT !.latest = FALSE]
  BY DEF Superseded
<1>6. QED BY <1>1, <1>4, <1>5 DEF Loads

(* The loads that are under way when a newer one has begun.                *)
LEMMA OldLoads ==
  ASSUME NEW m, NEW revs, NEW q, NEW ls, NEW pg, NEW fs, Local(m, revs, q, ls, pg, fs),
         NEW q2, NEW pg2, NEW fs2,
         \/ Settled(ls)
         \/ q2 = q /\ fs2 = {} /\ pg2.saving = pg.saving
  PROVE  LoadsOK(m, revs, q2, Superseded(ls), pg2, fs2)
<1> DEFINE new == Superseded(ls)
<1>1. ls \in Seq(Loads) /\ LoadsOK(m, revs, q, ls, pg, fs)
  BY DEF Local, Typed, PageOK
<1>2. /\ DOMAIN new = DOMAIN ls
      /\ \A i \in DOMAIN ls : /\ new[i].latest = FALSE /\ new[i].finish = ls[i].finish
                              /\ new[i].keep = ls[i].keep /\ new[i].snap = ls[i].snap
  BY <1>1, SupersededLoads
<1> HIDE DEF new
<1>3. ASSUME NEW i \in DOMAIN new PROVE LoadOK(m, revs, q2, new[i], pg2, fs2)
  <2>1. LoadOK(m, revs, q, ls[i], pg, fs) BY <1>1, <1>2 DEF LoadsOK
  <2>2. new[i].finish => ls[i].finish /\ q2 = q /\ fs2 = {} /\ pg2.saving = pg.saving BY <1>2 DEF Settled
  <2>3. QED BY <1>2, <2>1, <2>2 DEF LoadOK, Others
<1>4. \A i, j \in DOMAIN new :
        (new[i].finish /\ new[j].finish) \/ (new[i].latest /\ new[j].latest) => i = j
  BY <1>1, <1>2 DEF LoadsOK
<1>5. QED BY <1>3, <1>4 DEF LoadsOK, new

(* A newer load, beside those it supersedes.                               *)
LEMMA NewLoad ==
  ASSUME NEW m, NEW revs, NEW ls \in Seq(Loads), NEW q2, NEW pg2, NEW fs2,
         LoadsOK(m, revs, q2, Superseded(ls), pg2, fs2),
         NEW l \in Loads, l.finish => Settled(ls), LoadOK(m, revs, q2, l, pg2, fs2), l.latest
  PROVE  /\ Append(Superseded(ls), l) \in Seq(Loads)
         /\ LoadsOK(m, revs, q2, Append(Superseded(ls), l), pg2, fs2)
         /\ \E i \in DOMAIN Append(Superseded(ls), l) : Append(Superseded(ls), l)[i] = l
<1> DEFINE old == Superseded(ls)
           ls2 == Append(old, l)
<1>1. LoadsOK(m, revs, q2, old, pg2, fs2)
  OBVIOUS
<1>2. old \in Seq(Loads) /\ DOMAIN old = DOMAIN ls /\ \A i \in DOMAIN old : old[i].latest = FALSE /\ old[i].finish = ls[i].finish
  BY SupersededLoads
<1> HIDE DEF old
<1>3. /\ ls2 \in Seq(Loads) /\ Len(ls2) = Len(old) + 1 /\ DOMAIN ls2 = 1..(Len(old) + 1)
      /\ DOMAIN old = 1..Len(old) /\ Len(old) \in Nat
      /\ ls2[Len(old) + 1] = l /\ \A i \in 1..Len(old) : ls2[i] = old[i]
  BY <1>2
<1> HIDE DEF ls2
<1>4. \A i \in DOMAIN ls2 : i \in DOMAIN old \/ i = Len(old) + 1
  BY <1>3
<1>5. \A i \in DOMAIN ls2 : LoadOK(m, revs, q2, ls2[i], pg2, fs2)
  BY <1>1, <1>3, <1>4 DEF LoadsOK
<1>6. \A i \in DOMAIN old : ~ls2[i].latest /\ (l.finish => ~ls2[i].finish)
  BY <1>2, <1>3 DEF Settled
<1>7. ASSUME NEW i \in DOMAIN ls2, NEW j \in DOMAIN ls2,
             (ls2[i].finish /\ ls2[j].finish) \/ (ls2[i].latest /\ ls2[j].latest)
      PROVE  i = j
  <2>1. CASE i \in DOMAIN old /\ j \in DOMAIN old
    BY <2>1, <1>1, <1>3, <1>7 DEF LoadsOK
  <2>2. CASE i \notin DOMAIN old \/ j \notin DOMAIN old
    BY <2>2, <1>3, <1>4, <1>6, <1>7
  <2>3. QED BY <2>1, <2>2
<1>8. Len(old) + 1 \in DOMAIN ls2
  BY <1>3
<1>9. QED BY <1>3, <1>5, <1>7, <1>8 DEF LoadsOK, ls2, old

(* The loads that are left when one of them was answered.                  *)
LEMMA OtherLoads ==
  ASSUME NEW m, NEW revs, NEW q, NEW ls, NEW pg, NEW fs, Local(m, revs, q, ls, pg, fs),
         NEW i \in DOMAIN ls, NEW q2, NEW pg2, NEW fs2,
         \A j \in DOMAIN ls : j # i => LoadOK(m, revs, q2, ls[j], pg2, fs2)
  PROVE  /\ RemoveAt(ls, i) \in Seq(Loads) /\ LoadsOK(m, revs, q2, RemoveAt(ls, i), pg2, fs2)
         /\ \A j \in DOMAIN ls : j # i => \E k \in DOMAIN RemoveAt(ls, i) : RemoveAt(ls, i)[k] = ls[j]
<1> DEFINE ls2 == RemoveAt(ls, i)
<1>1. ls \in Seq(Loads) /\ LoadsOK(m, revs, q, ls, pg, fs)
  BY DEF Local, Typed, PageOK
<1>2. /\ ls2 \in Seq(Loads) /\ DOMAIN ls2 = 1..(Len(ls) - 1)
      /\ \A j \in 1..(Len(ls) - 1) : ls2[j] = ls[IF j < i THEN j ELSE j + 1]
  BY <1>1, RemoveAtElements
<1>3. i \in 1..Len(ls) /\ Len(ls) \in Nat /\ DOMAIN ls = 1..Len(ls)
  BY <1>1
<1> HIDE DEF ls2
<1>4. \A j \in DOMAIN ls2 : LET k == IF j < i THEN j ELSE j + 1 IN k \in DOMAIN ls /\ k # i /\ ls2[j] = ls[k]
  BY <1>2, <1>3
<1>5. \A j \in DOMAIN ls2 : LoadOK(m, revs, q2, ls2[j], pg2, fs2)
  BY <1>4
<1>6. ASSUME NEW j \in DOMAIN ls2, NEW k \in DOMAIN ls2,
             (ls2[j].finish /\ ls2[k].finish) \/ (ls2[j].latest /\ ls2[k].latest)
      PROVE  j = k
  <2>1. (IF j < i THEN j ELSE j + 1) = (IF k < i THEN k ELSE k + 1)
    BY <1>1, <1>4, <1>6 DEF LoadsOK
  <2>2. QED BY <2>1, <1>2, <1>3
<1>7. ASSUME NEW j \in DOMAIN ls, j # i PROVE \E k \in DOMAIN ls2 : ls2[k] = ls[j]
  <2>1. CASE j < i
    <3>1. j \in DOMAIN ls2 /\ ls2[j] = ls[j] BY <2>1, <1>2, <1>3
    <3>2. QED BY <3>1
  <2>2. CASE ~(j < i)
    <3>1. j - 1 \in DOMAIN ls2 /\ ls2[j - 1] = ls[j] BY <2>2, <1>2, <1>3, <1>7
    <3>2. QED BY <3>1
  <2>3. QED BY <2>1, <2>2
<1>8. QED BY <1>2, <1>5, <1>6, <1>7 DEF LoadsOK, ls2

(* While its mutation is at the database a page waits for no other end, and *)
(* a page that waits for nothing has no call and no load that would end it. *)
LEMMA NotWaiting ==
  ASSUME NEW m, NEW revs, NEW q, NEW ls, NEW pg, NEW fs, Local(m, revs, q, ls, pg, fs)
  PROVE  /\ q # NoRequest => Settled(ls)
         /\ pg.saving = Nothing => q = NoRequest /\ Settled(ls)
         /\ pg.saving = Nothing /\ pg.screen = "detail" /\ pg.status = "loaded" =>
              \A i \in DOMAIN ls : ~ls[i].latest
<1>1. \A i \in DOMAIN ls : LoadOK(m, revs, q, ls[i], pg, fs)
  BY DEF Local, PageOK, LoadsOK
<1>2. QED BY <1>1 DEF Local, PageOK, RequestOK, LoadOK, Settled

(* The answer of a load.                                                   *)
ShownPage(pg, finish, d) ==
  IF d # None
  THEN [Freed(pg, finish) EXCEPT !.status = "loaded", !.shown = d, !.rerendered = ~finish /\ pg.saving # Nothing]
  ELSE AfterError(pg, finish)
ShownForms(pg, finish, keep, d, fs) ==
  IF d # None THEN IF pg.screen = "detail" THEN Restored(keep, d) ELSE {}
              ELSE IF StaysOn(pg, finish) THEN fs ELSE {}

LEMMA ShowDetailIs ==
  ASSUME NEW p, NEW pg, NEW finish, NEW keep, NEW d, ShowDetail(p, pg, finish, keep, d)
  PROVE  /\ page' = [page EXCEPT ![p] = ShownPage(pg, finish, d)]
         /\ forms' = [forms EXCEPT ![p] = ShownForms(pg, finish, keep, d, forms[p])]
BY DEF ShowDetail, ShownPage, ShownForms

LEMMA NothingElse == Nothing \notin Keys /\ Nothing # Other
BY DEF Nothing, Keys, Other, Ids, Basics

LEMMA FreedPage ==
  ASSUME NEW pg \in Screens, NEW finish \in BOOLEAN
  PROVE  /\ Freed(pg, finish) \in Screens
         /\ Freed(pg, finish).screen = pg.screen /\ Freed(pg, finish).status = pg.status
         /\ Freed(pg, finish).shown = pg.shown /\ Freed(pg, finish).wrote = pg.wrote
         /\ Freed(pg, finish).saving = IF finish THEN Nothing ELSE pg.saving
         /\ ~finish => Freed(pg, finish) = pg
BY DEF Freed, Screens

LEMMA ShownPageIs ==
  ASSUME NEW pg \in Screens, NEW finish \in BOOLEAN, NEW d \in Details \cup {None},
         NEW w, w = ShownPage(pg, finish, d)
  PROVE  /\ w \in Screens
         /\ w.status = "loaded" => w.shown # None
         /\ w.screen = pg.screen /\ w.saving = IF finish THEN Nothing ELSE pg.saving
         /\ d # None => w.shown = d /\ w.status = "loaded" /\ w.wrote = pg.wrote
         /\ d = None /\ StaysOn(pg, finish) => w.shown = pg.shown /\ w.status = pg.status /\ w.wrote = 0
         /\ d = None /\ ~StaysOn(pg, finish) => w.shown = None /\ w.status = "error" /\ w.wrote = 0
<1> DEFINE f == Freed(pg, finish)
           again == ~finish /\ pg.saving # Nothing
<1>1. /\ f \in Screens /\ f.screen = pg.screen /\ f.shown = pg.shown /\ f.wrote = pg.wrote
      /\ f.status = pg.status /\ f.saving = IF finish THEN Nothing ELSE pg.saving
  BY FreedPage
<1>2. w = IF d # None
          THEN [f EXCEPT !.status = "loaded", !.shown = d, !.rerendered = again]
          ELSE IF StaysOn(pg, finish) THEN [f EXCEPT !.wrote = 0]
          ELSE [f EXCEPT !.status = "error", !.shown = None, !.wrote = 0]
  BY DEF ShownPage, AfterError
<1>3. again \in BOOLEAN /\ (StaysOn(pg, finish) => pg.shown # None)
  BY DEF StaysOn
<1> HIDE DEF f, again
<1>4. CASE d # None
  <2>1. w = [f EXCEPT !.status = "loaded", !.shown = d, !.rerendered = again]
    BY <1>2, <1>4
  <2>2. QED BY <1>1, <1>3, <1>4, <2>1 DEF Screens
<1>5. CASE d = None /\ StaysOn(pg, finish)
  <2>1. w = [f EXCEPT !.wrote = 0]
    BY <1>2, <1>5
  <2>2. w \in Screens /\ w.screen = f.screen /\ w.saving = f.saving /\ w.shown = f.shown /\ w.status = f.status /\ w.wrote = 0
    BY <1>1, <2>1, Bounds DEF Screens
  <2>3. QED BY <1>1, <1>3, <1>5, <2>2
<1>6. CASE d = None /\ ~StaysOn(pg, finish)
  <2>1. w = [f EXCEPT !.status = "error", !.shown = None, !.wrote = 0]
    BY <1>2, <1>6
  <2>2. QED BY <1>1, <1>6, <2>1, Bounds DEF Screens
<1>7. QED BY <1>4, <1>5, <1>6

LEMMA RestoredForms ==
  ASSUME NEW keep \in SUBSET Forms, NEW d
  PROVE  Restored(keep, d) \subseteq keep /\ (Restored(keep, d) # {} => Editable(d))
BY DEF Restored

(* The page with the answer of a load.  An answer shows at least what the   *)
(* page wrote, or clears it.                                               *)
LEMMA Answered ==
  ASSUME NEW m, NEW revs, NEW pg \in Screens, NEW finish \in BOOLEAN,
         NEW d \in Details \cup {None}, NEW keep \in SUBSET Forms, NEW fs \in SUBSET Forms,
         AllTell(m, revs, keep), AllTell(m, revs, fs),
         m.version \in Nat, pg.wrote <= m.version,
         d # None => Tells(m, revs, d) /\ (pg.screen = "detail" => d.manual >= pg.wrote),
         pg.shown # None => Tells(m, revs, pg.shown),
         fs # {} /\ StaysOn(pg, finish) => Editable(pg.shown),
         NEW ls, NEW pg2, pg2 = ShownPage(pg, finish, d),
         NEW fs2, fs2 = ShownForms(pg, finish, keep, d, fs)
  PROVE  /\ pg2 \in Screens /\ fs2 \in SUBSET Forms
         /\ pg2.status = "loaded" => pg2.shown # None
         /\ ScreenOK(m, revs, ls, pg2, fs2)
<1>1. /\ pg2 \in Screens
      /\ pg2.status = "loaded" => pg2.shown # None
      /\ pg2.screen = pg.screen
      /\ d # None => pg2.shown = d /\ pg2.status = "loaded" /\ pg2.wrote = pg.wrote
      /\ d = None /\ StaysOn(pg, finish) => pg2.shown = pg.shown /\ pg2.status = pg.status /\ pg2.wrote = 0
      /\ d = None /\ ~StaysOn(pg, finish) => pg2.shown = None /\ pg2.status = "error" /\ pg2.wrote = 0
  BY ShownPageIs
<1>2. pg.wrote \in Nat /\ \A e \in Details : e.manual \in Nat
  BY Bounds DEF Screens, Details
<1>3. CASE d # None
  <2>1. fs2 \subseteq keep /\ (fs2 # {} => pg2.screen = "detail" /\ Editable(pg2.shown))
    BY <1>1, <1>3, RestoredForms DEF ShownForms
  <2>2. AllTell(m, revs, fs2) /\ fs2 \in SUBSET Forms
    BY <2>1 DEF AllTell
  <2>3. pg2.screen = "detail" => ~(pg2.shown.manual < pg2.wrote)
    BY <1>1, <1>2, <1>3
  <2>4. QED BY <1>1, <1>3, <2>1, <2>2, <2>3 DEF ScreenOK
<1>4. CASE d = None /\ StaysOn(pg, finish)
  <2>1. fs2 = fs /\ pg2.screen = "detail" /\ pg.shown # None
    BY <1>1, <1>4 DEF ShownForms, StaysOn
  <2>2. pg.shown \in Details
    BY <2>1 DEF Screens
  <2>3. pg2.wrote <= m.version /\ ~(pg2.shown.manual < pg2.wrote)
    BY <1>1, <1>2, <1>4, <2>2
  <2>4. QED BY <1>1, <1>4, <2>1, <2>3 DEF ScreenOK
<1>5. CASE d = None /\ ~StaysOn(pg, finish)
  <2>1. fs2 = {} BY <1>5 DEF ShownForms
  <2>2. pg2.wrote <= m.version BY <1>1, <1>5
  <2>3. QED BY <1>1, <1>5, <2>1, <2>2 DEF ScreenOK, AllTell
<1>6. QED BY <1>3, <1>4, <1>5

LEMMA LocalFacts ==
  ASSUME NEW m, NEW revs, NEW q, NEW ls, NEW pg, NEW fs, Local(m, revs, q, ls, pg, fs)
  PROVE  /\ q \in Requests \cup {NoRequest} /\ ls \in Seq(Loads) /\ pg \in Screens /\ fs \in SUBSET Forms
         /\ pg.status = "loaded" => pg.shown # None
         /\ pg.shown \in Details \cup {None} /\ pg.wrote \in Nat
         /\ pg.saving \in Keys \cup {Nothing, Other} /\ pg.screen \in {"list", "detail"}
         /\ RequestOK(m, revs, q, pg, fs) /\ LoadsOK(m, revs, q, ls, pg, fs) /\ ScreenOK(m, revs, ls, pg, fs)
         /\ AllTell(m, revs, fs) /\ pg.wrote <= m.version
         /\ fs # {} => pg.screen = "detail" /\ Editable(pg.shown)
         /\ pg.shown # None => Tells(m, revs, pg.shown)
         /\ \A i \in DOMAIN ls : ls[i] \in Loads /\ LoadOK(m, revs, q, ls[i], pg, fs)
<1>1. q \in Requests \cup {NoRequest} /\ ls \in Seq(Loads) /\ pg \in Screens /\ fs \in SUBSET Forms
      /\ (pg.status = "loaded" => pg.shown # None)
  BY DEF Local, Typed
<1>2. RequestOK(m, revs, q, pg, fs) /\ LoadsOK(m, revs, q, ls, pg, fs) /\ ScreenOK(m, revs, ls, pg, fs)
  BY DEF Local, PageOK
<1>3. pg.shown \in Details \cup {None} /\ pg.wrote \in Nat /\ pg.saving \in Keys \cup {Nothing, Other}
      /\ pg.screen \in {"list", "detail"}
  BY <1>1, Bounds DEF Screens
<1>4. \A i \in DOMAIN ls : ls[i] \in Loads /\ LoadOK(m, revs, q, ls[i], pg, fs)
  BY <1>1, <1>2, ElementType DEF LoadsOK
<1>5. QED BY <1>1, <1>2, <1>3, <1>4 DEF ScreenOK

(* The call of a page is over, or none was under way.                      *)
LEMMA CallOver ==
  ASSUME NEW m, NEW revs, NEW q, NEW ls, NEW pg, NEW fs, Local(m, revs, q, ls, pg, fs), Settled(ls)
  PROVE  Local(m, revs, NoRequest, ls, pg, fs)
<1>1. \A i \in DOMAIN ls : LoadOK(m, revs, NoRequest, ls[i], pg, fs)
  BY LocalFacts DEF LoadOK, Settled
<1>2. QED BY <1>1, LocalFacts DEF Local, Typed, PageOK, RequestOK, LoadsOK

(* A load that is answered at once.                                        *)
LEMMA LoadedNow ==
  ASSUME NEW m, NEW revs, Sound(m, revs),
         NEW q, NEW ls, NEW pg, NEW fs, Local(m, revs, q, ls, pg, fs), Settled(ls),
         NEW canEdit \in BOOLEAN, NEW d \in {Snapshot(m, revs, canEdit), None},
         NEW pg1 \in Screens, pg1.wrote <= m.version, pg1.shown # None => Tells(m, revs, pg1.shown),
         NEW finish \in BOOLEAN, fs # {} /\ StaysOn(pg1, finish) => Editable(pg1.shown),
         NEW keep \in SUBSET Forms, AllTell(m, revs, keep)
  PROVE  Local(m, revs, NoRequest, Superseded(ls), ShownPage(pg1, finish, d), ShownForms(pg1, finish, keep, d, fs))
<1>1. ls \in Seq(Loads) /\ fs \in SUBSET Forms /\ AllTell(m, revs, fs)
  BY LocalFacts
<1>2. m.version \in Nat
  BY Bounds DEF Sound, Manuals
<1>3. d \in Details \cup {None} /\ (d # None => Tells(m, revs, d) /\ d.manual >= pg1.wrote)
  <2>1. d # None => d \in Details /\ Tells(m, revs, d) /\ d.manual = m.version
    BY SnapshotTells
  <2>2. pg1.wrote \in Nat BY Bounds DEF Screens
  <2>3. QED BY <1>2, <2>1, <2>2
<1> DEFINE pg2 == ShownPage(pg1, finish, d)
           fs2 == ShownForms(pg1, finish, keep, d, fs)
<1>4. /\ pg2 \in Screens /\ fs2 \in SUBSET Forms
      /\ pg2.status = "loaded" => pg2.shown # None
      /\ ScreenOK(m, revs, Superseded(ls), pg2, fs2)
  BY <1>1, <1>2, <1>3, Answered
<1> HIDE DEF pg2, fs2
<1>5. LoadsOK(m, revs, NoRequest, Superseded(ls), pg2, fs2)
  BY OldLoads
<1>6. Superseded(ls) \in Seq(Loads)
  BY <1>1, SupersededLoads
<1>7. QED BY <1>4, <1>5, <1>6 DEF Local, Typed, PageOK, RequestOK, pg2, fs2

(* The load that ends a mutation has begun.                                *)
LEMMA AgainLater ==
  ASSUME NEW m, NEW revs, NEW q, NEW ls, NEW pg, NEW fs, Local(m, revs, q, ls, pg, fs), Settled(ls),
         pg.screen = "detail",
         NEW key \in Keys \cup {Other}, NEW wrote \in Times, wrote <= m.version,
         NEW keep \in SUBSET Forms, AllTell(m, revs, keep),
         ~pg.rerendered => {f \in fs : f.key # key} \subseteq keep,
         NEW pg2, pg2 = [pg EXCEPT !.saving = key, !.wrote = wrote],
         NEW l, l = [snap |-> None, latest |-> TRUE, finish |-> TRUE, keep |-> keep],
         NEW ls2, ls2 = Append(Superseded(ls), l)
  PROVE  Local(m, revs, NoRequest, ls2, pg2, fs)
<1>1. l \in Loads /\ l.snap = None /\ l.latest = TRUE /\ l.finish = TRUE /\ l.keep = keep
  BY DEF Loads
<1>2. pg \in Screens /\ fs \in SUBSET Forms
  BY LocalFacts
<1>3. /\ pg2 \in Screens /\ pg2.saving = key /\ pg2.wrote = wrote /\ pg2.shown = pg.shown
      /\ pg2.screen = pg.screen /\ pg2.status = pg.status /\ pg2.rerendered = pg.rerendered
  BY <1>2 DEF Screens
<1>4. pg2.saving # Nothing /\ (~pg2.rerendered => Others(pg2, fs) \subseteq keep)
  BY <1>3, NothingElse DEF Others
<1>5. LoadOK(m, revs, NoRequest, l, pg2, fs)
  BY <1>1, <1>4 DEF LoadOK
<1>6. ls2 \in Seq(Loads) /\ LoadsOK(m, revs, NoRequest, ls2, pg2, fs) /\ \E i \in DOMAIN ls2 : ls2[i] = l
  <2>1. ls \in Seq(Loads) BY LocalFacts
  <2>2. LoadsOK(m, revs, NoRequest, Superseded(ls), pg2, fs) BY OldLoads
  <2>3. QED BY <1>1, <1>5, <2>1, <2>2, NewLoad
<1>7. \E i \in DOMAIN ls2 : ls2[i].latest /\ ls2[i].finish
  BY <1>1, <1>6
<1>8. ScreenOK(m, revs, ls2, pg2, fs)
  BY <1>3, <1>7, LocalFacts DEF ScreenOK
<1>9. pg2.status = "loaded" => pg2.shown # None
  BY <1>3, LocalFacts
<1>10. QED BY <1>2, <1>3, <1>6, <1>8, <1>9 DEF Local, Typed, PageOK, RequestOK

(* Away from the detail a page does not load it again.                     *)
LEMMA AgainAway ==
  ASSUME NEW m, NEW revs, NEW q, NEW ls, NEW pg, NEW fs, Local(m, revs, q, ls, pg, fs), Settled(ls),
         pg.screen # "detail",
         NEW key \in Keys \cup {Other}, NEW wrote \in Times, wrote <= m.version,
         NEW pg2, pg2 = Freed([pg EXCEPT !.saving = key, !.wrote = wrote], TRUE)
  PROVE  Local(m, revs, NoRequest, ls, pg2, fs)
<1>1. pg \in Screens
  BY LocalFacts
<1>2. [pg EXCEPT !.saving = key, !.wrote = wrote] \in Screens
  BY <1>1 DEF Screens
<1>3. /\ pg2 \in Screens /\ pg2.saving = Nothing /\ pg2.wrote = wrote /\ pg2.shown = pg.shown
      /\ pg2.screen = pg.screen /\ pg2.status = pg.status
  BY <1>1 DEF Screens, Freed
<1>4. \A i \in DOMAIN ls : LoadOK(m, revs, NoRequest, ls[i], pg2, fs)
  BY <1>3, LocalFacts DEF LoadOK, Settled
<1>5. LoadsOK(m, revs, NoRequest, ls, pg2, fs)
  <2>1. LoadsOK(m, revs, q, ls, pg, fs) BY LocalFacts
  <2>2. QED BY <1>4, <2>1 DEF LoadsOK
<1>6. ScreenOK(m, revs, ls, pg2, fs)
  BY <1>3, LocalFacts DEF ScreenOK
<1>7. QED BY <1>3, <1>5, <1>6, LocalFacts DEF Local, Typed, PageOK, RequestOK

(* A page that freed itself, as after a conflict, and shows no less.        *)
LEMMA FreedNow ==
  ASSUME NEW m, NEW revs, NEW q, NEW ls, NEW pg, NEW fs, Local(m, revs, q, ls, pg, fs), Settled(ls)
  PROVE  Local(m, revs, NoRequest, ls, Freed(pg, TRUE), fs)
<1> DEFINE pg2 == Freed(pg, TRUE)
<1>1. /\ pg2 \in Screens /\ pg2.saving = Nothing /\ pg2.wrote = pg.wrote /\ pg2.shown = pg.shown
      /\ pg2.screen = pg.screen /\ pg2.status = pg.status
  BY FreedPage, LocalFacts
<1> HIDE DEF pg2
<1>2. \A i \in DOMAIN ls : LoadOK(m, revs, NoRequest, ls[i], pg2, fs)
  BY <1>1, LocalFacts DEF LoadOK, Settled
<1>3. LoadsOK(m, revs, NoRequest, ls, pg2, fs)
  <2>1. LoadsOK(m, revs, q, ls, pg, fs) BY LocalFacts
  <2>2. QED BY <1>2, <2>1 DEF LoadsOK
<1>4. ScreenOK(m, revs, ls, pg2, fs)
  BY <1>1, LocalFacts DEF ScreenOK
<1>5. QED BY <1>1, <1>3, <1>4, LocalFacts DEF Local, Typed, PageOK, RequestOK, pg2

(* The list instead of the detail.                                         *)
LEMMA ListInstead ==
  ASSUME NEW m, NEW revs, NEW q, NEW ls, NEW pg, NEW fs, Local(m, revs, q, ls, pg, fs),
         NEW q2, NEW pg2 \in Screens,
         \/ Settled(ls) /\ q2 = NoRequest
         \/ q2 = q /\ pg2.saving = pg.saving,
         pg2.screen = "list", pg2.shown = None, pg2.status # "loaded", pg2.wrote = pg.wrote,
         NEW ls2 \in {ls, Superseded(ls)}
  PROVE  Local(m, revs, q2, ls2, pg2, {})
<1>1. ls \in Seq(Loads) /\ Superseded(ls) \in Seq(Loads) /\ q2 \in Requests \cup {NoRequest}
  BY LocalFacts, SupersededLoads DEF Local
<1>2. LoadsOK(m, revs, q2, Superseded(ls), pg2, {})
  BY OldLoads
<1>3. LoadsOK(m, revs, q2, ls, pg2, {})
  <2>1. \A i \in DOMAIN ls : LoadOK(m, revs, q2, ls[i], pg2, {})
    BY LocalFacts DEF LoadOK, Settled, Others
  <2>2. LoadsOK(m, revs, q, ls, pg, fs) BY LocalFacts
  <2>3. QED BY <2>1, <2>2 DEF LoadsOK
<1>4. ScreenOK(m, revs, ls2, pg2, {})
  BY LocalFacts DEF ScreenOK, AllTell
<1>5. RequestOK(m, revs, q2, pg2, {})
  BY LocalFacts DEF RequestOK, Others
<1>6. QED BY <1>1, <1>2, <1>3, <1>4, <1>5 DEF Local, Typed, PageOK

(* A load that a user asked for, or a lost role, and that takes long.       *)
LEMMA LoadedLater ==
  ASSUME NEW m, NEW revs, Sound(m, revs),
         NEW q, NEW ls, NEW pg, NEW fs, Local(m, revs, q, ls, pg, fs),
         NEW q2, NEW pg2 \in Screens,
         \/ Settled(ls) /\ q2 = NoRequest
         \/ q2 = q /\ pg2.saving = pg.saving,
         NEW canEdit \in BOOLEAN,
         pg2.status = "loading", pg2.wrote = pg.wrote,
         pg2.shown # None => Tells(m, revs, pg2.shown),
         NEW l, l = [snap |-> Snapshot(m, revs, canEdit), latest |-> TRUE, finish |-> FALSE, keep |-> {}],
         NEW ls2, ls2 = Append(Superseded(ls), l)
  PROVE  Local(m, revs, q2, ls2, pg2, {})
<1> DEFINE d == Snapshot(m, revs, canEdit)
<1>1. m.version \in Nat /\ pg.wrote <= m.version /\ pg.wrote \in Nat
  BY LocalFacts, Bounds DEF Sound, Manuals
<1>2. d # None => d \in Details /\ Tells(m, revs, d) /\ d.manual = m.version
  BY SnapshotTells
<1> HIDE DEF d
<1>3. l \in Loads /\ l.snap = d /\ l.latest = TRUE /\ l.finish = FALSE /\ l.keep = {}
  BY <1>2 DEF Loads, d
<1>4. LoadOK(m, revs, q2, l, pg2, {})
  BY <1>1, <1>2, <1>3 DEF LoadOK, AllTell
<1>5. LoadsOK(m, revs, q2, Superseded(ls), pg2, {})
  BY OldLoads
<1>6. ls2 \in Seq(Loads) /\ LoadsOK(m, revs, q2, ls2, pg2, {}) /\ \E i \in DOMAIN ls2 : ls2[i] = l
  <2>1. ls \in Seq(Loads) /\ l.latest /\ ~l.finish BY <1>3, LocalFacts
  <2> HIDE DEF d
  <2>2. ls2 \in Seq(Loads) /\ LoadsOK(m, revs, q2, ls2, pg2, {})
    BY <1>3, <1>4, <1>5, <2>1, NewLoad
  <2>3. Superseded(ls) \in Seq(Loads)
    BY <2>1, SupersededLoads
  <2>4. Len(Superseded(ls)) + 1 \in DOMAIN ls2 /\ ls2[Len(Superseded(ls)) + 1] = l
    BY <2>3
  <2>5. QED BY <2>2, <2>4
<1>7. ScreenOK(m, revs, ls2, pg2, {})
  BY <1>1, <1>3, <1>6 DEF ScreenOK, AllTell
<1>8. RequestOK(m, revs, q2, pg2, {}) /\ q2 \in Requests \cup {NoRequest}
  <2>1. RequestOK(m, revs, q, pg, fs) /\ q \in Requests \cup {NoRequest} BY LocalFacts
  <2>2. QED BY <2>1 DEF RequestOK, Others
<1>9. QED BY <1>6, <1>7, <1>8 DEF Local, Typed, PageOK

(* The latest load is answered.                                            *)
LEMMA LatestAnswered ==
  ASSUME NEW m, NEW revs, Sound(m, revs),
         NEW q, NEW ls, NEW pg, NEW fs, Local(m, revs, q, ls, pg, fs),
         NEW i \in DOMAIN ls, ls[i].latest,
         NEW finish, finish = ls[i].finish, NEW keep, keep = ls[i].keep,
         NEW canEdit \in BOOLEAN,
         NEW d \in {IF finish THEN Snapshot(m, revs, canEdit) ELSE ls[i].snap, None}
  PROVE  Local(m, revs, q, RemoveAt(ls, i), ShownPage(pg, finish, d), ShownForms(pg, finish, keep, d, fs))
<1> DEFINE l == ls[i]
           pg2 == ShownPage(pg, finish, d)
           fs2 == ShownForms(pg, finish, keep, d, fs)
           ls2 == RemoveAt(ls, i)
<1>1. pg \in Screens /\ fs \in SUBSET Forms /\ AllTell(m, revs, fs) /\ pg.wrote <= m.version /\ pg.wrote \in Nat
      /\ (pg.shown # None => Tells(m, revs, pg.shown)) /\ (fs # {} => Editable(pg.shown))
      /\ pg.shown \in Details \cup {None}
  BY LocalFacts
<1>2. l \in Loads /\ LoadOK(m, revs, q, l, pg, fs)
  BY LocalFacts
<1>3. finish \in BOOLEAN /\ keep \in SUBSET Forms /\ l.snap \in Details \cup {None} /\ AllTell(m, revs, keep)
  BY <1>2 DEF Loads, LoadOK
<1>4. m.version \in Nat
  BY Bounds DEF Sound, Manuals
<1>5. d \in Details \cup {None} /\ (d # None => Tells(m, revs, d) /\ (pg.screen = "detail" => d.manual >= pg.wrote))
  <2>1. CASE finish
    <3>1. d # None => d = Snapshot(m, revs, canEdit) BY <2>1
    <3>2. d # None => d \in Details /\ Tells(m, revs, d) /\ d.manual = m.version
      BY <3>1, SnapshotTells
    <3>3. QED BY <3>2, <1>1, <1>4
  <2>2. CASE ~finish
    <3>1. d # None => d = l.snap BY <2>2
    <3>2. QED BY <2>2, <3>1, <1>2, <1>3 DEF LoadOK
  <2>3. QED BY <2>1, <2>2
<1>6. /\ pg2 \in Screens /\ fs2 \in SUBSET Forms
      /\ pg2.status = "loaded" => pg2.shown # None
      /\ ScreenOK(m, revs, ls2, pg2, fs2)
  <2>1. pg \in Screens /\ fs \in SUBSET Forms /\ keep \in SUBSET Forms /\ finish \in BOOLEAN /\ d \in Details \cup {None}
    BY <1>1, <1>3, <1>5
  <2>2. AllTell(m, revs, keep) /\ AllTell(m, revs, fs)
    BY <1>1, <1>3
  <2>3. fs # {} /\ StaysOn(pg, finish) => Editable(pg.shown)
    BY <1>1
  <2>4. d # None => Tells(m, revs, d) /\ (pg.screen = "detail" => d.manual >= pg.wrote)
    BY <1>5
  <2>5. pg.wrote <= m.version /\ (pg.shown # None => Tells(m, revs, pg.shown))
    BY <1>1
  <2> HIDE DEF ls2, l
  <2>6. QED BY <1>4, <2>1, <2>2, <2>3, <2>4, <2>5, Answered
<1>7. /\ pg2.screen = pg.screen /\ pg2.saving = (IF finish THEN Nothing ELSE pg.saving)
  BY <1>1, <1>3, <1>5, ShownPageIs
<1>8. \/ finish /\ q = NoRequest
      \/ ~finish /\ fs2 = {} /\ pg2.saving = pg.saving
  <2>1. CASE finish BY <2>1, <1>2 DEF LoadOK
  <2>2. CASE ~finish
    <3>1. fs = {} /\ keep = {} BY <2>2, <1>2 DEF LoadOK
    <3>2. fs2 = {} BY <3>1 DEF ShownForms, Restored
    <3>3. QED BY <2>2, <3>2, <1>7
  <2>3. QED BY <2>1, <2>2, <1>3
<1> HIDE DEF pg2, fs2, ls2
<1>9. ASSUME NEW j \in DOMAIN ls, j # i PROVE LoadOK(m, revs, q, ls[j], pg2, fs2)
  <2>1. LoadOK(m, revs, q, ls[j], pg, fs) /\ LoadsOK(m, revs, q, ls, pg, fs)
    BY LocalFacts
  <2>2. ~ls[j].latest /\ (finish => ~ls[j].finish)
    BY <1>9, <2>1 DEF LoadsOK
  <2>3. QED BY <1>8, <2>1, <2>2 DEF LoadOK, Others
<1>10. ls2 \in Seq(Loads) /\ LoadsOK(m, revs, q, ls2, pg2, fs2)
  BY <1>9, OtherLoads DEF ls2
<1>11. RequestOK(m, revs, q, pg2, fs2) /\ q \in Requests \cup {NoRequest}
  <2>1. RequestOK(m, revs, q, pg, fs) /\ q \in Requests \cup {NoRequest} BY LocalFacts
  <2>2. QED BY <1>8, <2>1 DEF RequestOK, Others
<1>12. QED BY <1>6, <1>10, <1>11 DEF Local, Typed, PageOK, pg2, fs2, ls2

(* The answer of a superseded load shows nothing, but frees the page.       *)
LEMMA StaleAnswered ==
  ASSUME NEW m, NEW revs, NEW q, NEW ls, NEW pg, NEW fs, Local(m, revs, q, ls, pg, fs),
         NEW i \in DOMAIN ls, ~ls[i].latest
  PROVE  Local(m, revs, q, RemoveAt(ls, i), Freed(pg, ls[i].finish), IF ls[i].finish THEN {} ELSE fs)
<1> DEFINE l == ls[i]
           pg2 == Freed(pg, l.finish)
           fs2 == IF l.finish THEN {} ELSE fs
           ls2 == RemoveAt(ls, i)
<1>1. pg \in Screens /\ fs \in SUBSET Forms /\ l \in Loads /\ l.finish \in BOOLEAN /\ LoadOK(m, revs, q, l, pg, fs)
  <2>1. l \in Loads BY LocalFacts
  <2>2. QED BY <2>1, LocalFacts DEF Loads
<1>2. /\ pg2 \in Screens /\ pg2.screen = pg.screen /\ pg2.status = pg.status /\ pg2.shown = pg.shown
      /\ pg2.wrote = pg.wrote /\ pg2.saving = (IF l.finish THEN Nothing ELSE pg.saving)
      /\ ~l.finish => pg2 = pg
  BY <1>1, FreedPage
<1>3. l.finish => q = NoRequest
  BY <1>1 DEF LoadOK
<1> HIDE DEF pg2, ls2
<1>4. ASSUME NEW j \in DOMAIN ls, j # i PROVE LoadOK(m, revs, q, ls[j], pg2, fs2)
  <2>1. LoadOK(m, revs, q, ls[j], pg, fs) /\ LoadsOK(m, revs, q, ls, pg, fs)
    BY LocalFacts
  <2>2. l.finish => ~ls[j].finish
    BY <1>4, <2>1 DEF LoadsOK
  <2>3. QED BY <1>2, <2>1, <2>2 DEF LoadOK, Others
<1>5. ls2 \in Seq(Loads) /\ LoadsOK(m, revs, q, ls2, pg2, fs2)
      /\ \A j \in DOMAIN ls : j # i => \E k \in DOMAIN ls2 : ls2[k] = ls[j]
  BY <1>4, OtherLoads DEF ls2
<1>6. (\E j \in DOMAIN ls : ls[j].latest /\ (pg.status = "loaded" => ls[j].finish))
        => \E k \in DOMAIN ls2 : ls2[k].latest /\ (pg.status = "loaded" => ls2[k].finish)
  BY <1>5
<1>7. ScreenOK(m, revs, ls2, pg2, fs2)
  <2>1. ScreenOK(m, revs, ls, pg, fs) BY LocalFacts
  <2>2. QED BY <1>2, <1>6, <2>1 DEF ScreenOK, AllTell
<1>8. RequestOK(m, revs, q, pg2, fs2) /\ q \in Requests \cup {NoRequest} /\ (pg2.status = "loaded" => pg2.shown # None)
  <2>1. RequestOK(m, revs, q, pg, fs) /\ q \in Requests \cup {NoRequest} /\ (pg.status = "loaded" => pg.shown # None)
    BY LocalFacts
  <2>2. QED BY <1>2, <1>3, <2>1 DEF RequestOK, Others
<1>9. QED BY <1>1, <1>2, <1>5, <1>7, <1>8 DEF Local, Typed, PageOK, pg2, ls2

(* A form that is typed into tells the text it was rendered from.           *)
LEMMA Typing ==
  ASSUME NEW m, NEW revs, NEW q, NEW ls, NEW pg, NEW fs, Local(m, revs, q, ls, pg, fs),
         pg.screen = "detail", pg.status = "loaded", pg.saving # Nothing => pg.rerendered, Editable(pg.shown),
         NEW f \in {[key |-> Basics, on |-> pg.shown.text, version |-> pg.shown.version]}
                   \cup {[key |-> s.id, on |-> s.text, version |-> s.version] : s \in ToSet(pg.shown.steps)}
  PROVE  Local(m, revs, q, ls, pg, fs \cup {f})
<1> DEFINE d == pg.shown
<1>1. d \in Details /\ Tells(m, revs, d) /\ d.state = "draft" /\ fs \in SUBSET Forms /\ AllTell(m, revs, fs)
      /\ ScreenOK(m, revs, ls, pg, fs)
  BY LocalFacts DEF Editable
<1> HIDE DEF d
<1>2. d.version \in Times /\ d.text \in Times /\ d.steps \in Seq(Steps)
  BY <1>1 DEF Details
<1>3. f \in Forms /\ FormTells(m, revs, f)
  <2>1. CASE f = [key |-> Basics, on |-> d.text, version |-> d.version]
    BY <2>1, <1>1, <1>2 DEF Forms, Keys, Tells, FormTells
  <2>2. CASE f \in {[key |-> s.id, on |-> s.text, version |-> s.version] : s \in ToSet(d.steps)}
    <3>1. PICK i \in DOMAIN d.steps :
            f = [key |-> d.steps[i].id, on |-> d.steps[i].text, version |-> d.steps[i].version]
      BY <2>2 DEF ToSet
    <3>2. d.steps[i] \in Steps BY <1>2, ElementType
    <3>3. f \in Forms BY <3>1, <3>2 DEF Forms, Keys, Steps
    <3>4. d.steps[i].version <= m.version /\ Says(revs, d.steps[i].id, d.steps[i].version, d.steps[i].text)
      BY <1>1 DEF Tells
    <3>5. QED BY <3>1, <3>3, <3>4 DEF FormTells
  <2>3. QED BY <2>1, <2>2 DEF d
<1>4. LoadsOK(m, revs, q, ls, pg, fs) /\ RequestOK(m, revs, q, pg, fs)
  BY LocalFacts
<1>5. LoadsOK(m, revs, q, ls, pg, fs \cup {f})
  BY <1>4 DEF LoadsOK, LoadOK
<1>6. ScreenOK(m, revs, ls, pg, fs \cup {f})
  BY <1>1, <1>3 DEF ScreenOK, AllTell
<1>7. RequestOK(m, revs, q, pg, fs \cup {f})
  BY <1>4 DEF RequestOK
<1>8. QED BY <1>1, <1>3, <1>5, <1>6, <1>7, LocalFacts DEF Local, Typed, PageOK

(* A call is sent to the database.                                         *)
LEMMA Sent ==
  ASSUME NEW m, NEW revs, NEW q, NEW ls, NEW pg, NEW fs, Local(m, revs, q, ls, pg, fs),
         pg.screen = "detail", pg.status = "loaded", pg.saving = Nothing,
         NEW key \in Keys \cup {Other}, NEW pg2, pg2 = [pg EXCEPT !.saving = key],
         NEW q2 \in Requests, RequestOK(m, revs, q2, pg2, fs)
  PROVE  Local(m, revs, q2, ls, pg2, fs)
<1>1. pg \in Screens
  BY LocalFacts
<1>2. /\ pg2 \in Screens /\ pg2.saving = key /\ pg2.wrote = pg.wrote /\ pg2.shown = pg.shown
      /\ pg2.screen = pg.screen /\ pg2.status = pg.status
  BY <1>1 DEF Screens
<1>3. Settled(ls) /\ \A i \in DOMAIN ls : ~ls[i].latest
  BY NotWaiting
<1>4. LoadsOK(m, revs, q2, ls, pg2, fs)
  <2>1. LoadsOK(m, revs, q, ls, pg, fs) BY LocalFacts
  <2>2. QED BY <1>3, <2>1 DEF LoadsOK, LoadOK, Settled
<1>5. ScreenOK(m, revs, ls, pg2, fs)
  <2>1. ScreenOK(m, revs, ls, pg, fs) BY LocalFacts
  <2>2. QED BY <1>2, <2>1 DEF ScreenOK
<1>6. QED BY <1>2, <1>4, <1>5, LocalFacts DEF Local, Typed, PageOK
-----------------------------------------------------------------------------
(* The steps.  The acting page moves to a state of its own beside the       *)
(* manual that the step leaves behind.                                     *)
Kept1 == /\ loads \in [Pages -> Seq(Loads)] /\ page \in [Pages -> Screens] /\ forms \in [Pages -> SUBSET Forms]
         /\ faults \in 0..MaxFaults

Here(p) == /\ Local(manual', revisions', request[p], loads[p], page[p], forms[p])
           /\ Sound(manual', revisions')

Moves(p, q) ==
  /\ faults' \in 0..MaxFaults
  /\ \E ls, pg, fs :
       /\ loads' = [loads EXCEPT ![p] = ls] /\ page' = [page EXCEPT ![p] = pg] /\ forms' = [forms EXCEPT ![p] = fs]
       /\ Local(manual', revisions', q, ls, pg, fs)

LEMMA CostsBounded ==
  ASSUME faults \in 0..MaxFaults, NEW n \in Nat, Costs(n)
  PROVE  faults' \in 0..MaxFaults
BY BoundAssumption DEF Costs

LEMMA DetailIs ==
  ASSUME NEW p
  PROVE  /\ \E c \in BOOLEAN : Detail(p) = Snapshot(manual, revisions, c)
         /\ \E c \in BOOLEAN : Detail(p)' = Snapshot(manual', revisions', c)
<1>1. (p \in editors) \in BOOLEAN /\ (p \in editors') \in BOOLEAN
  OBVIOUS
<1>2. Detail(p) = Snapshot(manual, revisions, p \in editors) /\ Detail(p)' = Snapshot(manual', revisions', p \in editors')
  BY DEF Detail
<1>3. QED BY <1>1, <1>2

LEMMA LoadsAgain ==
  ASSUME NEW p \in Pages, Kept1, Here(p), Settled(loads[p]),
         NEW key \in Keys \cup {Other}, NEW wrote \in Times, wrote <= manual'.version,
         NEW keep \in SUBSET Forms, AllTell(manual', revisions', keep),
         ~page[p].rerendered => {f \in forms[p] : f.key # key} \subseteq keep,
         NEW lost \in Nat, LoadAgain(p, key, keep, wrote, lost)
  PROVE  Moves(p, NoRequest)
<1> DEFINE pg1 == [page[p] EXCEPT !.saving = key, !.wrote = wrote]
           m == manual'
           revs == revisions'
           q == request[p]
           ls == loads[p]
           pg == page[p]
           fs == forms[p]
<1>1. Local(m, revs, q, ls, pg, fs) /\ Sound(m, revs)
  BY DEF Here
<1>2. pg \in Screens /\ fs \in SUBSET Forms /\ (pg.shown # None => Tells(m, revs, pg.shown)) /\ (fs # {} => Editable(pg.shown))
  BY <1>1, LocalFacts
<1>3. pg1 \in Screens /\ pg1.wrote = wrote /\ pg1.shown = pg.shown /\ pg1.screen = pg.screen
  BY <1>2 DEF Screens
<1>4. CASE /\ OnDetail(p) /\ Costs(lost)
           /\ ShowDetail(p, pg1, TRUE, keep, Detail(p)')
           /\ loads' = [loads EXCEPT ![p] = Superseded(@)]
  <2>1. PICK c \in BOOLEAN : Detail(p)' = Snapshot(m, revs, c)
    BY DetailIs
  <2> DEFINE d == Detail(p)'
  <2>2. d \in {Snapshot(m, revs, c), None}
    BY <2>1
  <2>3. /\ page' = [page EXCEPT ![p] = ShownPage(pg1, TRUE, d)]
        /\ forms' = [forms EXCEPT ![p] = ShownForms(pg1, TRUE, keep, d, fs)]
        /\ loads' = [loads EXCEPT ![p] = Superseded(ls)]
    BY <1>4 DEF ShowDetail, ShownPage, ShownForms
  <2> HIDE DEF d, m, revs, q, ls, pg1, pg, fs
  <2>4. fs # {} /\ StaysOn(pg1, TRUE) => Editable(pg1.shown)
    BY <1>2, <1>3
  <2>5. pg1.wrote <= m.version /\ (pg1.shown # None => Tells(m, revs, pg1.shown))
    BY <1>2, <1>3 DEF m
  <2>6. Local(m, revs, NoRequest, Superseded(ls), ShownPage(pg1, TRUE, d), ShownForms(pg1, TRUE, keep, d, fs))
    <3>1. Settled(ls) /\ AllTell(m, revs, keep) BY DEF ls, m, revs
    <3>2. QED BY <1>1, <1>3, <2>2, <2>4, <2>5, <3>1, LoadedNow
  <2>7. faults' \in 0..MaxFaults
    BY <1>4, CostsBounded DEF Kept1
  <2>8. QED BY <2>3, <2>6, <2>7 DEF Moves, m, revs, ls
<1>5. CASE /\ OnDetail(p) /\ Costs(lost + 1)
           /\ page' = [page EXCEPT ![p] = pg1]
           /\ StartLoad(p, TRUE, keep)
           /\ UNCHANGED forms
  <2> DEFINE l == [snap |-> None, latest |-> TRUE, finish |-> TRUE, keep |-> keep]
             ls2 == Append(Superseded(ls), l)
  <2>1. loads' = [loads EXCEPT ![p] = ls2] /\ pg.screen = "detail"
    BY <1>5 DEF StartLoad, OnDetail
  <2>2. forms' = [forms EXCEPT ![p] = fs]
    BY <1>5 DEF Kept1
  <2>3. /\ Settled(ls) /\ AllTell(m, revs, keep) /\ wrote <= m.version
        /\ ~pg.rerendered => {f \in fs : f.key # key} \subseteq keep
    OBVIOUS
  <2>4. faults' \in 0..MaxFaults
    BY <1>5, CostsBounded DEF Kept1
  <2>5. Local(m, revs, NoRequest, ls2, pg1, fs)
    <3>1. pg1 = [pg EXCEPT !.saving = key, !.wrote = wrote] /\ ls2 = Append(Superseded(ls), l)
          /\ l = [snap |-> None, latest |-> TRUE, finish |-> TRUE, keep |-> keep]
      OBVIOUS
    <3> HIDE DEF m, revs, q, ls, pg, fs, pg1, l, ls2
    <3>2. QED BY <1>1, <2>1, <2>3, <3>1, AgainLater
  <2>6. QED BY <1>5, <2>1, <2>2, <2>4, <2>5 DEF Moves
<1>6. CASE /\ ~OnDetail(p) /\ Costs(lost)
           /\ page' = [page EXCEPT ![p] = Freed(pg1, TRUE)]
           /\ UNCHANGED <<loads, forms>>
  <2>1. pg.screen # "detail" /\ loads' = [loads EXCEPT ![p] = ls] /\ forms' = [forms EXCEPT ![p] = fs]
    BY <1>6 DEF OnDetail, Kept1
  <2>2. Settled(ls) /\ wrote <= m.version
    OBVIOUS
  <2>3. faults' \in 0..MaxFaults
    BY <1>6, CostsBounded DEF Kept1
  <2>4. Local(m, revs, NoRequest, ls, Freed(pg1, TRUE), fs)
    <3> DEFINE pg2 == Freed(pg1, TRUE)
    <3>1. pg2 = Freed([pg EXCEPT !.saving = key, !.wrote = wrote], TRUE)
      OBVIOUS
    <3> HIDE DEF m, revs, q, ls, pg, fs, pg1, pg2
    <3>2. Local(m, revs, NoRequest, ls, pg2, fs)
      BY <1>1, <2>1, <2>2, <3>1, AgainAway
    <3>3. QED BY <3>2 DEF pg2
  <2>5. QED BY <1>6, <2>1, <2>3, <2>4 DEF Moves
<1>7. QED BY <1>4, <1>5, <1>6 DEF LoadAgain

LEMMA BackAtList ==
  ASSUME NEW p \in Pages, Kept1, Here(p), Settled(loads[p]),
         NEW n \in Nat, Costs(n), BackToList(p)
  PROVE  Moves(p, NoRequest)
<1> DEFINE m == manual'
           revs == revisions'
           q == request[p]
           ls == loads[p]
           pg == page[p]
           fs == forms[p]
           pg2 == [pg EXCEPT !.saving = Nothing, !.rerendered = FALSE, !.screen = "list",
                             !.status = IF OnDetail(p) THEN "idle" ELSE @,
                             !.shown = IF OnDetail(p) THEN None ELSE @]
           ls2 == IF OnDetail(p) THEN Superseded(ls) ELSE ls
<1>1. Local(m, revs, q, ls, pg, fs)
  BY DEF Here
<1>2. pg \in Screens /\ (fs # {} => pg.screen = "detail") /\ pg.screen \in {"list", "detail"}
  BY <1>1, LocalFacts
<1>3. page' = [page EXCEPT ![p] = pg2]
  <2>1. page \in [Pages -> Screens] BY DEF Kept1
  <2>2. QED BY <2>1 DEF BackToList
<1>4. loads' = [loads EXCEPT ![p] = ls2] /\ forms' = [forms EXCEPT ![p] = {}]
  BY DEF BackToList, Kept1
<1>5. faults' \in 0..MaxFaults
  BY CostsBounded DEF Kept1
<1>6. Local(m, revs, NoRequest, ls2, pg2, {})
  <2>1. CASE OnDetail(p)
    <3>1. pg2 \in Screens /\ pg2.screen = "list" /\ pg2.shown = None /\ pg2.status = "idle" /\ pg2.wrote = pg.wrote
      BY <1>2, <2>1 DEF Screens
    <3>2. ls2 \in {ls, Superseded(ls)} /\ Settled(ls)
      OBVIOUS
    <3> HIDE DEF m, revs, q, ls, pg, fs, pg2, ls2
    <3>3. QED BY <1>1, <3>1, <3>2, ListInstead
  <2>2. CASE ~OnDetail(p)
    <3>1. pg.screen = "list" /\ fs = {} /\ ls2 = ls
      BY <1>2, <2>2 DEF OnDetail
    <3>2. pg2 = Freed(pg, TRUE)
      BY <1>2, <2>2, <3>1 DEF Screens, Freed
    <3>3. Settled(ls)
      OBVIOUS
    <3> HIDE DEF m, revs, q, ls, pg, fs, pg2, ls2
    <3>4. QED BY <1>1, <3>1, <3>2, <3>3, FreedNow
  <2>3. QED BY <2>1, <2>2
<1>7. QED BY <1>3, <1>4, <1>5, <1>6 DEF Moves

LEMMA InConflict ==
  ASSUME NEW p \in Pages, Kept1, Here(p), Settled(loads[p]), Conflict(p)
  PROVE  Moves(p, NoRequest)
<1>1. /\ page' = [page EXCEPT ![p] = Freed(page[p], TRUE)]
      /\ loads' = [loads EXCEPT ![p] = loads[p]] /\ forms' = [forms EXCEPT ![p] = forms[p]]
  BY DEF Conflict, Kept1
<1>2. Local(manual', revisions', NoRequest, loads[p], Freed(page[p], TRUE), forms[p])
  BY FreedNow DEF Here
<1>3. faults' \in 0..MaxFaults
  BY CostsBounded DEF Kept1, Conflict
<1>4. QED BY <1>1, <1>2, <1>3 DEF Moves

(* A page whose user lost the role.                                        *)
Closed(pg) ==
  [Freed(pg, TRUE) EXCEPT !.shown = IF @ # None THEN [@ EXCEPT !.canEdit = FALSE] ELSE @]

LEMMA ClosedPage ==
  ASSUME NEW m, NEW revs, NEW pg \in Screens, pg.shown # None => Tells(m, revs, pg.shown)
  PROVE  /\ Closed(pg) \in Screens
         /\ Closed(pg).screen = pg.screen /\ Closed(pg).status = pg.status
         /\ Closed(pg).wrote = pg.wrote /\ Closed(pg).saving = Nothing
         /\ Closed(pg).shown # None <=> pg.shown # None
         /\ Closed(pg).shown # None => Tells(m, revs, Closed(pg).shown)
<1> DEFINE f == Freed(pg, TRUE)
           e == [pg.shown EXCEPT !.canEdit = FALSE]
<1>1. /\ f \in Screens /\ f.screen = pg.screen /\ f.status = pg.status /\ f.shown = pg.shown
      /\ f.wrote = pg.wrote /\ f.saving = Nothing
  BY FreedPage
<1>2. ASSUME pg.shown # None PROVE e \in Details /\ Tells(m, revs, e) /\ e # None
  <2>1. pg.shown \in Details BY <1>2 DEF Screens
  <2>2. /\ e \in Details /\ e.rev = pg.shown.rev /\ e.state = pg.shown.state /\ e.version = pg.shown.version
        /\ e.text = pg.shown.text /\ e.steps = pg.shown.steps /\ e.manual = pg.shown.manual
        /\ e.published = pg.shown.published
    BY <2>1 DEF Details
  <2> HIDE DEF e
  <2>3. Tells(m, revs, pg.shown) BY <1>2
  <2>4. QED BY <2>2, <2>3, NoneAssumption DEF Tells, UpToDate, Content
<1> HIDE DEF e
<1>3. Closed(pg) = [f EXCEPT !.shown = IF pg.shown # None THEN e ELSE pg.shown]
  BY <1>1 DEF Closed, e
<1> HIDE DEF f
<1>4. CASE pg.shown # None
  BY <1>1, <1>2, <1>3, <1>4 DEF Screens
<1>5. CASE pg.shown = None
  BY <1>1, <1>3, <1>5 DEF Screens
<1>6. QED BY <1>4, <1>5

LEMMA ClosedAway ==
  ASSUME NEW m, NEW revs, NEW q, NEW ls, NEW pg, NEW fs, Local(m, revs, q, ls, pg, fs), Settled(ls),
         ~(pg.screen = "detail" /\ pg.shown # None)
  PROVE  Local(m, revs, NoRequest, ls, Closed(pg), {})
<1> DEFINE pg2 == Closed(pg)
<1>0. pg \in Screens /\ (pg.shown # None => Tells(m, revs, pg.shown)) /\ (pg.status = "loaded" => pg.shown # None)
  BY LocalFacts
<1>1. /\ pg2 \in Screens /\ pg2.saving = Nothing /\ pg2.wrote = pg.wrote
      /\ pg2.shown # None <=> pg.shown # None
      /\ pg2.shown # None => Tells(m, revs, pg2.shown)
      /\ pg2.screen = pg.screen /\ pg2.status = pg.status
  BY <1>0, ClosedPage
<1> HIDE DEF pg2
<1>2. \A i \in DOMAIN ls : LoadOK(m, revs, NoRequest, ls[i], pg2, {})
  BY <1>1, LocalFacts DEF LoadOK, Settled
<1>3. LoadsOK(m, revs, NoRequest, ls, pg2, {})
  <2>1. LoadsOK(m, revs, q, ls, pg, fs) BY LocalFacts
  <2>2. QED BY <1>2, <2>1 DEF LoadsOK
<1>4. ScreenOK(m, revs, ls, pg2, {})
  <2>1. ScreenOK(m, revs, ls, pg, fs) BY LocalFacts
  <2>2. QED BY <1>1, <2>1 DEF ScreenOK, AllTell
<1>5. QED BY <1>0, <1>1, <1>3, <1>4, LocalFacts DEF Local, Typed, PageOK, RequestOK, pg2

LEMMA InForbidden ==
  ASSUME NEW p \in Pages, Kept1, Here(p), Settled(loads[p]), manual' = manual, revisions' = revisions,
         Forbidden(p)
  PROVE  Moves(p, NoRequest)
<1> DEFINE m == manual'
           revs == revisions'
           q == request[p]
           ls == loads[p]
           pg == page[p]
           fs == forms[p]
           pg1 == Closed(pg)
<1>1. Local(m, revs, q, ls, pg, fs) /\ Sound(m, revs)
  BY DEF Here
<1>2. pg \in Screens /\ (pg.shown # None => Tells(m, revs, pg.shown)) /\ pg.wrote <= m.version
  BY <1>1, LocalFacts
<1>3. /\ pg1 \in Screens /\ pg1.screen = pg.screen /\ pg1.wrote = pg.wrote /\ pg1.saving = Nothing
      /\ pg1.shown # None => Tells(m, revs, pg1.shown)
  BY <1>2, ClosedPage
<1>4. CASE /\ ShowDetail(p, pg1, FALSE, {}, Detail(p)') /\ Costs(0)
           /\ loads' = [loads EXCEPT ![p] = Superseded(@)]
  <2>1. PICK c \in BOOLEAN : Detail(p)' = Snapshot(m, revs, c)
    BY DetailIs
  <2> DEFINE d == Detail(p)'
  <2>2. d \in {Snapshot(m, revs, c), None}
    BY <2>1
  <2>3. /\ page' = [page EXCEPT ![p] = ShownPage(pg1, FALSE, d)]
        /\ forms' = [forms EXCEPT ![p] = ShownForms(pg1, FALSE, {}, d, fs)]
        /\ loads' = [loads EXCEPT ![p] = Superseded(ls)]
    BY <1>4 DEF ShowDetail, ShownPage, ShownForms
  <2>4. Settled(ls)
    OBVIOUS
  <2> HIDE DEF d, m, revs, q, ls, pg1, pg, fs
  <2>5. ~StaysOn(pg1, FALSE) /\ AllTell(m, revs, {}) /\ pg1.wrote <= m.version
    BY <1>2, <1>3 DEF StaysOn, AllTell
  <2>6. Local(m, revs, NoRequest, Superseded(ls), ShownPage(pg1, FALSE, d), ShownForms(pg1, FALSE, {}, d, fs))
    BY <1>1, <1>3, <2>2, <2>4, <2>5, LoadedNow
  <2>7. faults' \in 0..MaxFaults
    BY <1>4, CostsBounded DEF Kept1
  <2>8. QED BY <2>3, <2>6, <2>7 DEF Moves, m, revs, ls
<1>5. CASE /\ page' = [page EXCEPT ![p] = [pg1 EXCEPT !.status = "loading"]]
           /\ forms' = [forms EXCEPT ![p] = {}]
           /\ StartLoad(p, FALSE, {}) /\ Costs(1)
  <2>1. PICK c \in BOOLEAN : Detail(p) = Snapshot(m, revs, c)
    BY DetailIs
  <2> DEFINE l == [snap |-> Snapshot(m, revs, c), latest |-> TRUE, finish |-> FALSE, keep |-> {}]
             ls2 == Append(Superseded(ls), l)
             pg2 == [pg1 EXCEPT !.status = "loading"]
  <2>2. loads' = [loads EXCEPT ![p] = ls2] /\ Settled(ls)
    BY <1>5, <2>1 DEF StartLoad
  <2>3. /\ l = [snap |-> Snapshot(m, revs, c), latest |-> TRUE, finish |-> FALSE, keep |-> {}]
        /\ ls2 = Append(Superseded(ls), l)
    OBVIOUS
  <2>4. faults' \in 0..MaxFaults
    BY <1>5, CostsBounded DEF Kept1
  <2> HIDE DEF m, revs, q, ls, pg1, pg, fs, l, ls2
  <2>5. /\ pg2 \in Screens /\ pg2.status = "loading" /\ pg2.wrote = pg.wrote
        /\ pg2.shown # None => Tells(m, revs, pg2.shown)
    BY <1>3 DEF Screens
  <2> HIDE DEF pg2
  <2>6. Local(m, revs, NoRequest, ls2, pg2, {})
    BY <1>1, <2>2, <2>3, <2>5, LoadedLater
  <2>7. QED BY <1>5, <2>2, <2>4, <2>6 DEF Moves, pg2, m, revs
<1>6. CASE /\ ~(OnDetail(p) /\ pg.shown # None)
           /\ page' = [page EXCEPT ![p] = pg1]
           /\ forms' = [forms EXCEPT ![p] = {}]
           /\ UNCHANGED loads /\ Costs(0)
  <2>1. loads' = [loads EXCEPT ![p] = ls] /\ ~(pg.screen = "detail" /\ pg.shown # None) /\ Settled(ls)
    BY <1>6 DEF OnDetail, Kept1
  <2>2. Local(m, revs, NoRequest, ls, pg1, {})
    <3> HIDE DEF m, revs, q, ls, pg, fs
    <3>1. QED BY <1>1, <2>1, ClosedAway
  <2>3. faults' \in 0..MaxFaults
    BY <1>6, CostsBounded DEF Kept1
  <2>4. QED BY <1>6, <2>1, <2>2, <2>3 DEF Moves
<1>7. QED BY <1>4, <1>5, <1>6 DEF Forbidden, Closed

LEMMA InUserLoad ==
  ASSUME NEW p \in Pages, Kept1, Here(p), manual' = manual, revisions' = revisions, UserLoad(p)
  PROVE  Moves(p, request[p])
<1> DEFINE m == manual'
           revs == revisions'
           q == request[p]
           ls == loads[p]
           pg == page[p]
           fs == forms[p]
           pg1 == [pg EXCEPT !.screen = "detail", !.status = "loading", !.shown = IF OnDetail(p) THEN @ ELSE None]
<1>1. Local(m, revs, q, ls, pg, fs) /\ Sound(m, revs)
  BY DEF Here
<1>2. /\ pg \in Screens /\ (pg.shown # None => Tells(m, revs, pg.shown)) /\ pg.wrote <= m.version
      /\ fs # {} => pg.screen = "detail" /\ Editable(pg.shown)
  BY <1>1, LocalFacts
<1>3. /\ pg1 \in Screens /\ pg1.screen = "detail" /\ pg1.status = "loading" /\ pg1.wrote = pg.wrote
      /\ pg1.saving = pg.saving /\ pg1.shown = IF pg.screen = "detail" THEN pg.shown ELSE None
  BY <1>2 DEF Screens, OnDetail
<1>4. CASE /\ Busy(p) /\ Costs(1)
           /\ page' = [page EXCEPT ![p] = pg1]
           /\ forms' = [forms EXCEPT ![p] = {}]
           /\ StartLoad(p, FALSE, {})
  <2>1. PICK c \in BOOLEAN : Detail(p) = Snapshot(m, revs, c)
    BY DetailIs
  <2> DEFINE l == [snap |-> Snapshot(m, revs, c), latest |-> TRUE, finish |-> FALSE, keep |-> {}]
             ls2 == Append(Superseded(ls), l)
  <2>2. loads' = [loads EXCEPT ![p] = ls2]
    BY <1>4, <2>1 DEF StartLoad
  <2>3. /\ l = [snap |-> Snapshot(m, revs, c), latest |-> TRUE, finish |-> FALSE, keep |-> {}]
        /\ ls2 = Append(Superseded(ls), l)
    OBVIOUS
  <2>4. faults' \in 0..MaxFaults
    BY <1>4, CostsBounded DEF Kept1
  <2> HIDE DEF m, revs, q, ls, pg1, pg, fs, l, ls2
  <2>5. pg1.shown # None => Tells(m, revs, pg1.shown)
    BY <1>2, <1>3
  <2>6. Local(m, revs, q, ls2, pg1, {})
    BY <1>1, <1>3, <2>3, <2>5, LoadedLater
  <2>7. QED BY <1>4, <2>2, <2>4, <2>6 DEF Moves, m, revs, q
<1>5. CASE /\ ~Busy(p)
           /\ \E d \in {Detail(p), None} :
                /\ Costs(IF d = Detail(p) THEN 0 ELSE 1)
                /\ ShowDetail(p, pg1, FALSE, {}, d)
           /\ loads' = [loads EXCEPT ![p] = Superseded(@)]
  <2>1. PICK c \in BOOLEAN : Detail(p) = Snapshot(m, revs, c)
    BY DetailIs
  <2>2. PICK d \in {Snapshot(m, revs, c), None} :
          /\ Costs(IF d = Detail(p) THEN 0 ELSE 1)
          /\ ShowDetail(p, pg1, FALSE, {}, d)
    BY <1>5, <2>1
  <2>3. /\ page' = [page EXCEPT ![p] = ShownPage(pg1, FALSE, d)]
        /\ forms' = [forms EXCEPT ![p] = ShownForms(pg1, FALSE, {}, d, fs)]
        /\ loads' = [loads EXCEPT ![p] = Superseded(ls)]
    BY <1>5, <2>2 DEF ShowDetail, ShownPage, ShownForms
  <2>4. faults' \in 0..MaxFaults
    BY <2>2, CostsBounded DEF Kept1
  <2>5. pg.saving = Nothing
    BY <1>5 DEF Busy
  <2> HIDE DEF m, revs, q, ls, pg1, pg, fs
  <2>6. Settled(ls) /\ q = NoRequest
    BY <1>1, <2>5, NotWaiting
  <2>7. /\ ~StaysOn(pg1, FALSE) /\ AllTell(m, revs, {}) /\ pg1.wrote <= m.version
        /\ pg1.shown # None => Tells(m, revs, pg1.shown)
    BY <1>2, <1>3 DEF StaysOn, AllTell
  <2>8. Local(m, revs, NoRequest, Superseded(ls), ShownPage(pg1, FALSE, d), ShownForms(pg1, FALSE, {}, d, fs))
    BY <1>1, <1>3, <2>6, <2>7, LoadedNow
  <2>9. QED BY <2>3, <2>4, <2>6, <2>8 DEF Moves, m, revs, ls, q
<1>6. QED BY <1>4, <1>5 DEF UserLoad

LEMMA InFinishLoad ==
  ASSUME NEW p \in Pages, Kept1, Here(p), manual' = manual, revisions' = revisions,
         NEW i, FinishLoad(p, i)
  PROVE  Moves(p, request[p])
<1> DEFINE m == manual'
           revs == revisions'
           q == request[p]
           ls == loads[p]
           pg == page[p]
           fs == forms[p]
           l == ls[i]
<1>1. Local(m, revs, q, ls, pg, fs) /\ Sound(m, revs) /\ i \in DOMAIN ls
  BY DEF Here, FinishLoad
<1>2. loads' = [loads EXCEPT ![p] = RemoveAt(ls, i)]
  BY DEF FinishLoad
<1>3. PICK c \in BOOLEAN : Detail(p) = Snapshot(m, revs, c)
  BY DetailIs
<1>4. CASE l.latest
  <2>1. PICK d \in {IF l.finish THEN Snapshot(m, revs, c) ELSE l.snap, None}, n \in {0, 1} :
          Costs(n) /\ ShowDetail(p, pg, l.finish, l.keep, d)
    BY <1>3, <1>4 DEF FinishLoad
  <2>2. /\ page' = [page EXCEPT ![p] = ShownPage(pg, l.finish, d)]
        /\ forms' = [forms EXCEPT ![p] = ShownForms(pg, l.finish, l.keep, d, fs)]
    BY <2>1 DEF ShowDetail, ShownPage, ShownForms
  <2>3. faults' \in 0..MaxFaults
    BY <2>1, CostsBounded DEF Kept1
  <2> DEFINE finish == l.finish
             keep == l.keep
  <2>4. finish = ls[i].finish /\ keep = ls[i].keep /\ ls[i].latest /\ d \in {IF finish THEN Snapshot(m, revs, c) ELSE ls[i].snap, None}
    BY <1>4
  <2> HIDE DEF m, revs, q, ls, pg, fs, l, finish, keep
  <2>5. Local(m, revs, q, RemoveAt(ls, i), ShownPage(pg, finish, d), ShownForms(pg, finish, keep, d, fs))
    BY <1>1, <2>4, LatestAnswered
  <2>6. QED BY <1>2, <2>2, <2>3, <2>5 DEF Moves, m, revs, q, ls, finish, keep
<1>5. CASE ~l.latest
  <2>1. IgnoreStale(p, l) /\ Costs(0)
    BY <1>5 DEF FinishLoad
  <2>2. /\ page' = [page EXCEPT ![p] = Freed(pg, l.finish)]
        /\ forms' = [forms EXCEPT ![p] = IF l.finish THEN {} ELSE fs]
    BY <2>1 DEF IgnoreStale
  <2>3. faults' \in 0..MaxFaults
    BY <2>1, CostsBounded DEF Kept1
  <2>4. Local(m, revs, q, RemoveAt(ls, i), Freed(pg, l.finish), IF l.finish THEN {} ELSE fs)
    <3>1. ~ls[i].latest BY <1>5
    <3> HIDE DEF m, revs, q, ls, pg, fs
    <3>2. QED BY <1>1, <3>1, StaleAnswered
  <2>5. QED BY <1>2, <2>2, <2>3, <2>4 DEF Moves
<1>6. QED BY <1>4, <1>5

LEMMA InOpenManualList ==
  ASSUME NEW p \in Pages, Kept1, Here(p), manual' = manual, revisions' = revisions, OpenManualList(p)
  PROVE  Moves(p, request[p])
<1> DEFINE m == manual'
           revs == revisions'
           q == request[p]
           ls == loads[p]
           pg == page[p]
           fs == forms[p]
           pg2 == [pg EXCEPT !.screen = "list", !.status = "idle", !.shown = None]
<1>1. Local(m, revs, q, ls, pg, fs)
  BY DEF Here
<1>2. pg \in Screens
  BY <1>1, LocalFacts
<1>3. page' = [page EXCEPT ![p] = pg2] /\ forms' = [forms EXCEPT ![p] = {}]
  <2>1. page \in [Pages -> Screens] BY DEF Kept1
  <2>2. QED BY <2>1 DEF OpenManualList
<1>4. \E ls2 \in {ls, Superseded(ls)} : loads' = [loads EXCEPT ![p] = ls2]
  BY DEF OpenManualList, Kept1
<1>5. faults' \in 0..MaxFaults
  BY DEF OpenManualList, Kept1
<1>6. pg2 \in Screens /\ pg2.screen = "list" /\ pg2.shown = None /\ pg2.status # "loaded" /\ pg2.wrote = pg.wrote
      /\ pg2.saving = pg.saving
  BY <1>2 DEF Screens
<1>7. ASSUME NEW ls2 \in {ls, Superseded(ls)} PROVE Local(m, revs, q, ls2, pg2, {})
  <2> HIDE DEF m, revs, q, ls, pg, fs, pg2
  <2>1. QED BY <1>1, <1>6, <1>7, ListInstead
<1>8. QED BY <1>3, <1>4, <1>5, <1>7 DEF Moves

LEMMA InType ==
  ASSUME NEW p \in Pages, Kept1, Here(p), manual' = manual, revisions' = revisions, Type(p)
  PROVE  Moves(p, request[p])
<1> DEFINE m == manual'
           revs == revisions'
           q == request[p]
           ls == loads[p]
           pg == page[p]
           fs == forms[p]
<1>1. Local(m, revs, q, ls, pg, fs)
  BY DEF Here
<1>2. PICK f \in {[key |-> Basics, on |-> pg.shown.text, version |-> pg.shown.version]}
                 \cup {[key |-> s.id, on |-> s.text, version |-> s.version] : s \in ToSet(pg.shown.steps)} :
        forms' = [forms EXCEPT ![p] = fs \cup {f}]
  BY DEF Type
<1>3. loads' = [loads EXCEPT ![p] = ls] /\ page' = [page EXCEPT ![p] = pg] /\ faults' \in 0..MaxFaults
  BY DEF Type, Kept1
<1>4. pg.screen = "detail" /\ pg.status = "loaded" /\ (pg.saving # Nothing => pg.rerendered) /\ Editable(pg.shown)
  BY DEF Type, TakesInput, OnDetail, Busy
<1>5. Local(m, revs, q, ls, pg, fs \cup {f})
  <2> HIDE DEF m, revs, q, ls, pg, fs
  <2>1. QED BY <1>1, <1>2, <1>4, Typing
<1>6. QED BY <1>2, <1>3, <1>5 DEF Moves

(* The page is rendered anew from what it has.                             *)
LEMMA Rendered ==
  ASSUME NEW m, NEW revs, NEW q, NEW ls, NEW pg, NEW fs, Local(m, revs, q, ls, pg, fs),
         pg.screen = "detail", pg.shown # None,
         NEW waits, waits <=> \E i \in DOMAIN ls : ls[i].latest, NEW again \in BOOLEAN,
         NEW pg2, pg2 = [pg EXCEPT !.status = IF waits THEN "loading" ELSE "loaded", !.rerendered = again]
  PROVE  Local(m, revs, q, ls, pg2, {})
<1>1. pg \in Screens /\ LoadsOK(m, revs, q, ls, pg, fs) /\ RequestOK(m, revs, q, pg, fs) /\ ScreenOK(m, revs, ls, pg, fs)
  BY LocalFacts
<1>2. /\ pg2 \in Screens /\ pg2.screen = pg.screen /\ pg2.shown = pg.shown
      /\ pg2.saving = pg.saving /\ pg2.wrote = pg.wrote
      /\ pg2.status = IF waits THEN "loading" ELSE "loaded"
  BY <1>1 DEF Screens
<1>3. LoadsOK(m, revs, q, ls, pg2, {})
  BY <1>1, <1>2 DEF LoadsOK, LoadOK, Others
<1>4. RequestOK(m, revs, q, pg2, {})
  BY <1>1, <1>2 DEF RequestOK, Others
<1>5. ScreenOK(m, revs, ls, pg2, {})
  BY <1>1, <1>2 DEF ScreenOK, AllTell
<1>6. QED BY <1>2, <1>3, <1>4, <1>5, LocalFacts DEF Local, Typed, PageOK

LEMMA InRenderAgain ==
  ASSUME NEW p \in Pages, Kept1, Here(p), manual' = manual, revisions' = revisions, RenderAgain(p)
  PROVE  Moves(p, request[p])
<1> DEFINE m == manual'
           revs == revisions'
           q == request[p]
           ls == loads[p]
           pg == page[p]
           waits == \E i \in DOMAIN ls : ls[i].latest
           pg2 == [pg EXCEPT !.status = IF waits THEN "loading" ELSE "loaded", !.rerendered = Busy(p)]
<1>1. Local(m, revs, q, ls, pg, forms[p])
  BY DEF Here
<1>2. pg.screen = "detail" /\ pg.shown # None /\ Busy(p) \in BOOLEAN
  BY DEF RenderAgain, OnDetail, Busy
<1>3. page' = [page EXCEPT ![p] = pg2]
  <2>1. page \in [Pages -> Screens] BY DEF Kept1
  <2>2. QED BY <2>1 DEF RenderAgain
<1>4. loads' = [loads EXCEPT ![p] = ls] /\ forms' = [forms EXCEPT ![p] = {}]
  BY DEF RenderAgain, Kept1
<1>5. faults' \in 0..MaxFaults
  BY CostsBounded DEF RenderAgain, Kept1
<1>6. Local(m, revs, q, ls, pg2, {})
  <2> DEFINE again == Busy(p)
  <2>1. /\ pg2 = [pg EXCEPT !.status = IF waits THEN "loading" ELSE "loaded", !.rerendered = again]
        /\ waits <=> \E i \in DOMAIN ls : ls[i].latest
    OBVIOUS
  <2>2. again \in BOOLEAN BY <1>2
  <2> HIDE DEF m, revs, q, ls, pg, waits, pg2, again
  <2>3. QED BY <1>1, <1>2, <2>1, <2>2, Rendered
<1>7. QED BY <1>3, <1>4, <1>5, <1>6 DEF Moves

(* The calls.                                                              *)
Sendable(p, q) ==
  /\ p \in editors /\ (~manual.archived \/ q.kind = "archive") /\ q.kind \notin {"missing", "existing", "conflict"}

LEMMA InSend ==
  ASSUME NEW p \in Pages, Kept1, Here(p), manual' = manual, revisions' = revisions, request \in [Pages -> Requests \cup {NoRequest}],
         Ready(p), NEW key \in Keys \cup {Other}, NEW keep \in SUBSET Forms,
         AllTell(manual', revisions', keep), {f \in forms[p] : f.key # key} \subseteq keep,
         NEW q2, Sendable(p, q2) => /\ q2 \in Requests
                                    /\ RequestOK(manual', revisions', q2, [page[p] EXCEPT !.saving = key], forms[p]),
         Send(p, key, keep, q2)
  PROVE  \E q \in {NoRequest, q2} : request' = [request EXCEPT ![p] = q] /\ Moves(p, q)
<1> DEFINE m == manual'
           revs == revisions'
           ls == loads[p]
           pg == page[p]
           fs == forms[p]
<1>1. Local(m, revs, request[p], ls, pg, fs)
  BY DEF Here
<1>2. pg.screen = "detail" /\ pg.status = "loaded" /\ pg.saving = Nothing
  BY DEF Ready, Busy
<1>3. request[p] = NoRequest /\ Settled(ls) /\ pg.wrote \in Times /\ pg.wrote <= m.version
  <2>1. request[p] = NoRequest /\ Settled(ls) BY <1>1, <1>2, NotWaiting
  <2>2. pg \in Screens /\ pg.wrote <= m.version BY <1>1, LocalFacts
  <2>3. QED BY <2>1, <2>2 DEF Screens
<1>4. CASE UNCHANGED request
  <2>1. request' = [request EXCEPT ![p] = NoRequest]
    BY <1>3, <1>4
  <2>2. CASE Forbidden(p)
    BY <1>3, <2>1, <2>2, InForbidden
  <2>3. CASE LoadAgain(p, key, keep, page[p].wrote, 0)
    <3>1. Moves(p, NoRequest) BY <1>3, <2>3, LoadsAgain
    <3>2. QED BY <2>1, <3>1
  <2>4. CASE UNCHANGED <<client, faults>>
    <3>1. loads' = [loads EXCEPT ![p] = ls] /\ page' = [page EXCEPT ![p] = pg] /\ forms' = [forms EXCEPT ![p] = fs]
          /\ faults' \in 0..MaxFaults
      BY <2>4 DEF Kept1, client
    <3>2. Local(m, revs, NoRequest, ls, pg, fs)
      BY <1>1, <1>3
    <3>3. QED BY <2>1, <3>1, <3>2 DEF Moves
  <2>5. CASE Costs(0) /\ request' = [request EXCEPT ![p] = q2] /\ page' = [page EXCEPT ![p].saving = key]
             /\ UNCHANGED <<loads, forms>> /\ Sendable(p, q2)
    <3>1. q2 = NoRequest
      BY <2>5, <1>3, <1>4
    <3>2. QED BY <2>5, <3>1 DEF Requests, NoRequest, Kinds
  <2>6. QED BY <1>4, <2>2, <2>3, <2>4, <2>5 DEF Send, Sendable, Admitted
<1>5. CASE /\ Costs(0) /\ request' = [request EXCEPT ![p] = q2] /\ page' = [page EXCEPT ![p].saving = key]
           /\ UNCHANGED <<loads, forms>> /\ Sendable(p, q2)
  <2> DEFINE pg2 == [pg EXCEPT !.saving = key]
  <2>1. page' = [page EXCEPT ![p] = pg2] /\ loads' = [loads EXCEPT ![p] = ls] /\ forms' = [forms EXCEPT ![p] = fs]
    BY <1>5 DEF Kept1
  <2>2. faults' \in 0..MaxFaults
    BY <1>5, CostsBounded DEF Kept1
  <2>3. q2 \in Requests /\ RequestOK(m, revs, q2, pg2, fs) /\ pg2 = [pg EXCEPT !.saving = key]
    BY <1>5
  <2>4. Local(m, revs, q2, ls, pg2, fs)
    <3> HIDE DEF m, revs, ls, pg, fs, pg2
    <3>1. QED BY <1>1, <1>2, <2>3, Sent
  <2>5. QED BY <1>5, <2>1, <2>2, <2>4 DEF Moves
<1>6. QED BY <1>4, <1>5 DEF Send, Sendable, Admitted

LEMMA CallIsOK ==
  ASSUME NEW m, NEW revs, NEW fs, NEW pg \in Screens, NEW key \in Keys \cup {Other},
         NEW kind \in Kinds, NEW rev \in Revs, NEW id \in Keys \cup {Other}, NEW expected \in Times, NEW order \in Seq(Ids),
         NEW seen \in Details \cup {None}, NEW on \in Times, NEW keep \in SUBSET Forms,
         AllTell(m, revs, keep), {f \in fs : f.key # key} \subseteq keep,
         kind \in {"basics", "update"} => expected <= m.version /\ Says(revs, id, expected, on),
         kind = "basics" => id = Basics,
         kind \in {"publish", "archive"} => seen # None /\ Tells(m, revs, seen),
         kind = "publish" => seen.state = "draft",
         kind = "archive" => expected = seen.manual,
         \A i, j \in DOMAIN order : order[i] = order[j] => i = j
  PROVE  /\ Call(kind, rev, id, expected, order, seen, on, keep) \in Requests
         /\ RequestOK(m, revs, Call(kind, rev, id, expected, order, seen, on, keep), [pg EXCEPT !.saving = key], fs)
<1> DEFINE q == Call(kind, rev, id, expected, order, seen, on, keep)
           pg2 == [pg EXCEPT !.saving = key]
<1>1. /\ q \in Requests /\ q.kind = kind /\ q.rev = rev /\ q.id = id /\ q.expected = expected /\ q.order = order
      /\ q.seen = seen /\ q.on = on /\ q.keep = keep
  BY DEF Call, Requests
<1>2. pg2.saving = key /\ key # Nothing
  BY NothingElse DEF Screens
<1> HIDE DEF q, pg2
<1>3. Others(pg2, fs) \subseteq keep
  BY <1>2 DEF Others
<1>4. RequestOK(m, revs, q, pg2, fs)
  BY <1>1, <1>2, <1>3 DEF RequestOK
<1>5. QED BY <1>1, <1>4 DEF q, pg2

(* What the user of a page asks for.                                       *)
ClientStep(p) == \E q : request' = [request EXCEPT ![p] = q] /\ Moves(p, q)

Before(p) == /\ Kept1 /\ Here(p) /\ manual' = manual /\ revisions' = revisions
             /\ request \in [Pages -> Requests \cup {NoRequest}]

LEMMA AskFacts ==
  ASSUME NEW p \in Pages, Before(p), Ready(p)
  PROVE  /\ page[p] \in Screens /\ forms[p] \in SUBSET Forms
         /\ page[p].shown \in Details /\ page[p].shown # None /\ Tells(manual', revisions', page[p].shown)
         /\ forms[p] # {} => Editable(page[p].shown)
         /\ \A f \in forms[p] : f.key \in Keys /\ f.on \in Times /\ f.version \in Times
                                /\ f.version <= manual'.version /\ Says(revisions', f.key, f.version, f.on)
         /\ \A key : /\ Kept(p, key) \in SUBSET Forms /\ AllTell(manual', revisions', Kept(p, key))
                     /\ {f \in forms[p] : f.key # key} \subseteq Kept(p, key)
         /\ CurrentDraft # 0 => CurrentDraft \in Revs
         /\ 0 \in Times /\ <<>> \in Seq(Ids) /\ AllTell(manual', revisions', {})
         /\ manual \in Manuals /\ (manual.draft # 0 \/ manual.published # 0)
<1> DEFINE m == manual'
           revs == revisions'
           pg == page[p]
           fs == forms[p]
<1>1. Local(m, revs, request[p], loads[p], pg, fs) /\ Sound(manual, revisions)
  BY DEF Before, Here
<1>2. /\ pg \in Screens /\ fs \in SUBSET Forms /\ AllTell(m, revs, fs) /\ pg.shown \in Details \cup {None}
      /\ pg.status = "loaded" => pg.shown # None
      /\ pg.shown # None => Tells(m, revs, pg.shown)
      /\ fs # {} => Editable(pg.shown)
  BY <1>1, LocalFacts
<1>3. pg.shown # None
  BY <1>2 DEF Ready
<1>4. \A f \in fs : f.key \in Keys /\ f.on \in Times /\ f.version \in Times
                    /\ f.version <= m.version /\ Says(revs, f.key, f.version, f.on)
  BY <1>2 DEF Forms, AllTell, FormTells
<1>5. \A key : Kept(p, key) \in SUBSET Forms /\ AllTell(m, revs, Kept(p, key))
               /\ {f \in fs : f.key # key} \subseteq Kept(p, key)
  BY <1>2 DEF Kept, AllTell
<1>6. CurrentDraft # 0 => CurrentDraft \in Revs
  BY <1>1, Bounds DEF CurrentDraft, Sound, Manuals
<1>7. manual \in Manuals /\ (manual.draft # 0 \/ manual.published # 0)
  BY <1>1 DEF Sound
<1>8. 0 \in Times /\ <<>> \in Seq(Ids) /\ AllTell(m, revs, {})
  BY Bounds DEF AllTell
<1>9. QED BY <1>2, <1>3, <1>4, <1>5, <1>6, <1>7, <1>8

LEMMA KindOf ==
  /\ \A kind, rev, id, expected, order, seen, on, keep :
       Call(kind, rev, id, expected, order, seen, on, keep).kind = kind
  /\ Refused.kind = "conflict"
BY DEF Call, Refused

LEMMA NoOrder == \A i, j \in DOMAIN <<>> : <<>>[i] = <<>>[j] => i = j
OBVIOUS

LEMMA AsksStep ==
  ASSUME NEW p \in Pages, Before(p), Asks(p), NEW key \in Keys \cup {Other}, NEW keep \in SUBSET Forms,
         AllTell(manual', revisions', keep), {f \in forms[p] : f.key # key} \subseteq keep,
         NEW q2, Sendable(p, q2) => /\ q2 \in Requests
                                    /\ RequestOK(manual', revisions', q2, [page[p] EXCEPT !.saving = key], forms[p]),
         Send(p, key, keep, q2)
  PROVE  ClientStep(p)
<1>1. Ready(p)
  BY DEF Asks
<1>2. \E q \in {NoRequest, q2} : request' = [request EXCEPT ![p] = q] /\ Moves(p, q)
  BY <1>1, InSend DEF Before
<1>3. QED BY <1>2 DEF ClientStep

LEMMA InUpdateDraft ==
  ASSUME NEW p \in Pages, Before(p), UpdateDraft(p)
  PROVE  ClientStep(p)
<1>1. PICK f \in forms[p] : f.key = Basics /\ Send(p, Basics, Kept(p, Basics), RouteUpdateDraft(f, Kept(p, Basics)))
  BY DEF UpdateDraft
<1>2. Asks(p) /\ Ready(p)
  BY DEF UpdateDraft, AsksDraft, Asks
<1> DEFINE keep == Kept(p, Basics)
           q2 == RouteUpdateDraft(f, keep)
           call == Call("basics", CurrentDraft, Basics, f.version, <<>>, None, f.on, keep)
<1>3. Sendable(p, q2) => CurrentDraft \in Revs /\ q2 = call
  BY <1>2, AskFacts, KindOf DEF RouteUpdateDraft, OnDraft, Sendable
<1>4. Basics \in Keys \cup {Other} /\ "basics" \in Kinds
  BY DEF Keys, Kinds
<1>5. f.version <= manual'.version /\ Says(revisions', Basics, f.version, f.on) /\ f.version \in Times /\ f.on \in Times
  BY <1>1, <1>2, AskFacts
<1>6. /\ page[p] \in Screens /\ keep \in SUBSET Forms /\ AllTell(manual', revisions', keep)
      /\ {g \in forms[p] : g.key # Basics} \subseteq keep /\ <<>> \in Seq(Ids)
  BY <1>2, AskFacts
<1>7. ASSUME CurrentDraft \in Revs
      PROVE  call \in Requests /\ RequestOK(manual', revisions', call, [page[p] EXCEPT !.saving = Basics], forms[p])
  <2> HIDE DEF keep
  <2>1. QED BY <1>4, <1>5, <1>6, <1>7, NoOrder, CallIsOK
<1>8. QED
  <2> HIDE DEF q2, call, keep
  <2>1. Sendable(p, q2) => q2 \in Requests /\ RequestOK(manual', revisions', q2, [page[p] EXCEPT !.saving = Basics], forms[p])
    BY <1>3, <1>7
  <2>2. Send(p, Basics, keep, q2)
    BY <1>1 DEF q2, keep
  <2>3. QED BY <1>2, <1>4, <1>6, <2>1, <2>2, AsksStep

LEMMA InCreateStep ==
  ASSUME NEW p \in Pages, Before(p), CreateStep(p)
  PROVE  ClientStep(p)
<1> DEFINE keep == Kept(p, Other)
           q2 == RouteCreateStep(keep)
           call == Call("append", CurrentDraft, Other, 0, <<>>, None, 0, keep)
<1>1. Asks(p) /\ Ready(p) /\ Send(p, Other, keep, q2)
  BY DEF CreateStep, AsksDraft, Asks
<1>2. Sendable(p, q2) => CurrentDraft \in Revs /\ q2 = call
  BY <1>1, AskFacts, KindOf DEF RouteCreateStep, OnDraft, Sendable
<1>3. Other \in Keys \cup {Other} /\ "append" \in Kinds
  BY DEF Kinds
<1>4. /\ page[p] \in Screens /\ keep \in SUBSET Forms /\ AllTell(manual', revisions', keep)
      /\ {g \in forms[p] : g.key # Other} \subseteq keep /\ <<>> \in Seq(Ids) /\ 0 \in Times
  BY <1>1, AskFacts
<1>5. ASSUME CurrentDraft \in Revs
      PROVE  call \in Requests /\ RequestOK(manual', revisions', call, [page[p] EXCEPT !.saving = Other], forms[p])
  <2> HIDE DEF keep
  <2>1. QED BY <1>3, <1>4, <1>5, NoOrder, CallIsOK
<1>6. QED
  <2> HIDE DEF q2, call, keep
  <2>1. Sendable(p, q2) => q2 \in Requests /\ RequestOK(manual', revisions', q2, [page[p] EXCEPT !.saving = Other], forms[p])
    BY <1>2, <1>5
  <2>2. QED BY <1>1, <1>3, <1>4, <2>1, AsksStep

LEMMA InUpdateStep ==
  ASSUME NEW p \in Pages, Before(p), UpdateStep(p)
  PROVE  ClientStep(p)
<1>1. PICK f \in forms[p] : f.key # Basics /\ Send(p, f.key, Kept(p, f.key), RouteUpdateStep(f, Kept(p, f.key)))
  BY DEF UpdateStep
<1>2. Asks(p) /\ Ready(p)
  BY DEF UpdateStep, AsksDraft, Asks
<1> DEFINE key == f.key
           keep == Kept(p, key)
           q2 == RouteUpdateStep(f, keep)
           call == Call("update", CurrentDraft, key, f.version, <<>>, None, f.on, keep)
<1>3. Sendable(p, q2) => CurrentDraft \in Revs /\ q2 = call
  BY <1>2, AskFacts, KindOf DEF RouteUpdateStep, OnDraft, Sendable
<1>4. f.version <= manual'.version /\ Says(revisions', key, f.version, f.on) /\ f.version \in Times /\ f.on \in Times
      /\ key \in Keys \cup {Other} /\ "update" \in Kinds
  BY <1>1, <1>2, AskFacts DEF Kinds
<1>5. /\ page[p] \in Screens /\ keep \in SUBSET Forms /\ AllTell(manual', revisions', keep)
      /\ {g \in forms[p] : g.key # key} \subseteq keep /\ <<>> \in Seq(Ids)
  BY <1>2, AskFacts
<1>6. ASSUME CurrentDraft \in Revs
      PROVE  call \in Requests /\ RequestOK(manual', revisions', call, [page[p] EXCEPT !.saving = key], forms[p])
  <2> HIDE DEF keep, key
  <2>1. QED BY <1>4, <1>5, <1>6, NoOrder, CallIsOK
<1>7. QED
  <2> HIDE DEF q2, call, keep, key
  <2>1. Sendable(p, q2) => q2 \in Requests /\ RequestOK(manual', revisions', q2, [page[p] EXCEPT !.saving = key], forms[p])
    BY <1>3, <1>6
  <2>2. Send(p, key, keep, q2)
    BY <1>1 DEF q2, keep, key
  <2>3. QED BY <1>2, <1>4, <1>5, <2>1, <2>2, AsksStep

LEMMA ShownIds ==
  ASSUME NEW d \in Details
  PROVE  /\ StepIds(d.steps) \subseteq Ids /\ d.steps \in Seq(Steps)
         /\ [i \in DOMAIN d.steps |-> d.steps[i].id] \in Seq(Ids)
         /\ Len([i \in DOMAIN d.steps |-> d.steps[i].id]) = Len(d.steps)
<1>1. d.steps \in Seq(Steps) /\ \A i \in DOMAIN d.steps : d.steps[i].id \in Ids
  BY StepTypes
<1>2. Len(d.steps) \in Nat /\ DOMAIN d.steps = 1..Len(d.steps)
  BY <1>1
<1>3. [i \in DOMAIN d.steps |-> d.steps[i].id] \in [1..Len(d.steps) -> Ids]
  BY <1>1, <1>2
<1>4. QED BY <1>1, <1>2, <1>3, SequenceOfLength DEF StepIds

LEMMA InDeleteStep ==
  ASSUME NEW p \in Pages, Before(p), DeleteStep(p)
  PROVE  ClientStep(p)
<1>1. PICK id \in StepIds(page[p].shown.steps) : Send(p, id, Kept(p, id), RouteDeleteStep(id, Kept(p, id)))
  BY DEF DeleteStep
<1>2. Asks(p) /\ Ready(p)
  BY DEF DeleteStep, AsksDraft, Asks
<1> DEFINE keep == Kept(p, id)
           q2 == RouteDeleteStep(id, keep)
           call == Call("delete", CurrentDraft, id, 0, <<>>, None, 0, keep)
<1>3. Sendable(p, q2) => CurrentDraft \in Revs /\ q2 = call
  BY <1>2, AskFacts, KindOf DEF RouteDeleteStep, OnDraft, Sendable
<1>4. id \in Keys \cup {Other} /\ "delete" \in Kinds
  BY <1>1, <1>2, AskFacts, ShownIds DEF Keys, Kinds
<1>5. /\ page[p] \in Screens /\ keep \in SUBSET Forms /\ AllTell(manual', revisions', keep)
      /\ {g \in forms[p] : g.key # id} \subseteq keep /\ <<>> \in Seq(Ids) /\ 0 \in Times
  BY <1>2, AskFacts
<1>6. ASSUME CurrentDraft \in Revs
      PROVE  call \in Requests /\ RequestOK(manual', revisions', call, [page[p] EXCEPT !.saving = id], forms[p])
  <2> HIDE DEF keep
  <2>1. QED BY <1>4, <1>5, <1>6, NoOrder, CallIsOK
<1>7. QED
  <2> HIDE DEF q2, call, keep
  <2>1. Sendable(p, q2) => q2 \in Requests /\ RequestOK(manual', revisions', q2, [page[p] EXCEPT !.saving = id], forms[p])
    BY <1>3, <1>6
  <2>2. Send(p, id, keep, q2)
    BY <1>1 DEF q2, keep
  <2>3. QED BY <1>2, <1>4, <1>5, <2>1, <2>2, AsksStep

LEMMA Swapped ==
  ASSUME NEW S, NEW s \in Seq(S), NEW i \in DOMAIN s, i # Len(s), \A j, k \in DOMAIN s : s[j] = s[k] => j = k
  PROVE  LET t == [s EXCEPT ![i] = s[i + 1], ![i + 1] = s[i]]
         IN t \in Seq(S) /\ \A j, k \in DOMAIN t : t[j] = t[k] => j = k
<1> DEFINE t == [s EXCEPT ![i] = s[i + 1], ![i + 1] = s[i]]
<1>1. i \in Nat /\ i + 1 \in DOMAIN s /\ i + 1 # i /\ DOMAIN s = 1..Len(s) /\ Len(s) \in Nat
      /\ s \in [1..Len(s) -> S]
  OBVIOUS
<1>2. /\ t \in [1..Len(s) -> S] /\ t[i] = s[i + 1] /\ t[i + 1] = s[i]
      /\ \A j \in 1..Len(s) : j # i /\ j # i + 1 => t[j] = s[j]
  BY <1>1
<1>3. t \in Seq(S) /\ DOMAIN t = DOMAIN s
  BY <1>1, <1>2, SequenceOfLength
<1> HIDE DEF t
<1>4. ASSUME NEW j \in DOMAIN t, NEW k \in DOMAIN t, t[j] = t[k] PROVE j = k
  BY <1>1, <1>2, <1>3, <1>4
<1>5. QED BY <1>3, <1>4 DEF t

LEMMA InReorderSteps ==
  ASSUME NEW p \in Pages, Before(p), ReorderSteps(p)
  PROVE  ClientStep(p)
<1> DEFINE d == page[p].shown
           ids == [i \in DOMAIN d.steps |-> d.steps[i].id]
           keep == Kept(p, Other)
<1>1. PICK i \in DOMAIN ids \ {Len(ids)} :
        Send(p, Other, keep, RouteReorderSteps([ids EXCEPT ![i] = ids[i + 1], ![i + 1] = ids[i]], keep))
  BY DEF ReorderSteps
<1>2. Asks(p) /\ Ready(p)
  BY DEF ReorderSteps, AsksDraft, Asks
<1> DEFINE order == [ids EXCEPT ![i] = ids[i + 1], ![i + 1] = ids[i]]
           q2 == RouteReorderSteps(order, keep)
           call == Call("reorder", CurrentDraft, Other, 0, order, None, 0, keep)
<1>3. order \in Seq(Ids) /\ \A j, k \in DOMAIN order : order[j] = order[k] => j = k
  <2>1. d \in Details /\ UniqueSteps(d.steps)
    BY <1>2, AskFacts DEF Tells
  <2>2. ids \in Seq(Ids)
    BY <2>1, ShownIds
  <2>3. \A j, k \in DOMAIN ids : ids[j] = ids[k] => j = k
    BY <2>1 DEF UniqueSteps
  <2> HIDE DEF ids
  <2>4. QED BY <2>2, <2>3, Swapped
<1> HIDE DEF order
<1>4. Sendable(p, q2) => CurrentDraft \in Revs /\ q2 = call
  BY <1>2, AskFacts, KindOf DEF RouteReorderSteps, OnDraft, Sendable
<1>5. Other \in Keys \cup {Other} /\ "reorder" \in Kinds
  BY DEF Kinds
<1>6. /\ page[p] \in Screens /\ keep \in SUBSET Forms /\ AllTell(manual', revisions', keep)
      /\ {g \in forms[p] : g.key # Other} \subseteq keep /\ 0 \in Times
  BY <1>2, AskFacts
<1>7. ASSUME CurrentDraft \in Revs
      PROVE  call \in Requests /\ RequestOK(manual', revisions', call, [page[p] EXCEPT !.saving = Other], forms[p])
  <2> HIDE DEF keep
  <2>1. QED BY <1>3, <1>5, <1>6, <1>7, CallIsOK
<1>8. QED
  <2> HIDE DEF call, keep
  <2>1. Sendable(p, q2) => q2 \in Requests /\ RequestOK(manual', revisions', q2, [page[p] EXCEPT !.saving = Other], forms[p])
    BY <1>4, <1>7
  <2>2. Send(p, Other, keep, q2)
    BY <1>1 DEF order
  <2> HIDE DEF q2
  <2>3. QED BY <1>2, <1>5, <1>6, <2>1, <2>2, AsksStep

LEMMA InPublishManual ==
  ASSUME NEW p \in Pages, Before(p), PublishManual(p)
  PROVE  ClientStep(p)
<1> DEFINE d == page[p].shown
           q2 == RoutePublish(d)
           call == Call("publish", CurrentDraft, Other, 0, <<>>, d, 0, {})
<1>1. Asks(p) /\ Ready(p) /\ Send(p, Other, {}, q2) /\ forms[p] = {} /\ Editable(d)
  BY DEF PublishManual, AsksDraft, Asks
<1>2. d \in Details /\ d # None /\ Tells(manual', revisions', d) /\ d.state = "draft" /\ d.rev \in Revs
  BY <1>1, AskFacts DEF Editable, Details
<1>3. Sendable(p, q2) => CurrentDraft \in Revs /\ q2 = call
  BY <1>2, KindOf DEF RoutePublish, Sendable
<1>4. Other \in Keys \cup {Other} /\ "publish" \in Kinds
  BY DEF Kinds
<1>5. /\ page[p] \in Screens /\ {} \in SUBSET Forms /\ AllTell(manual', revisions', {})
      /\ {g \in forms[p] : g.key # Other} \subseteq {} /\ <<>> \in Seq(Ids) /\ 0 \in Times
  BY <1>1, AskFacts
<1>6. ASSUME CurrentDraft \in Revs
      PROVE  call \in Requests /\ RequestOK(manual', revisions', call, [page[p] EXCEPT !.saving = Other], forms[p])
  <2> HIDE DEF d
  <2>1. QED BY <1>2, <1>4, <1>5, <1>6, NoOrder, CallIsOK
<1>7. QED
  <2> HIDE DEF q2, call, d
  <2>1. Sendable(p, q2) => q2 \in Requests /\ RequestOK(manual', revisions', q2, [page[p] EXCEPT !.saving = Other], forms[p])
    BY <1>3, <1>6
  <2>2. QED BY <1>1, <1>4, <1>5, <2>1, AsksStep

LEMMA InArchiveManual ==
  ASSUME NEW p \in Pages, Before(p), ArchiveManual(p)
  PROVE  ClientStep(p)
<1> DEFINE d == page[p].shown
           q2 == RouteArchive(d)
           call == Call("archive", 1, Other, d.manual, <<>>, d, 0, {})
<1>1. Asks(p) /\ Ready(p) /\ Send(p, Other, {}, q2) /\ forms[p] = {}
  BY DEF ArchiveManual, Asks
<1>2. d \in Details /\ d # None /\ Tells(manual', revisions', d) /\ d.manual \in Times /\ 1 \in Revs
  BY <1>1, AskFacts, BoundAssumption DEF Details, Revs
<1>3. q2 = call
  BY DEF RouteArchive
<1>4. Other \in Keys \cup {Other} /\ "archive" \in Kinds
  BY DEF Kinds
<1>5. /\ page[p] \in Screens /\ {} \in SUBSET Forms /\ AllTell(manual', revisions', {})
      /\ {g \in forms[p] : g.key # Other} \subseteq {} /\ <<>> \in Seq(Ids) /\ 0 \in Times
  BY <1>1, AskFacts
<1>6. call \in Requests /\ RequestOK(manual', revisions', call, [page[p] EXCEPT !.saving = Other], forms[p])
  <2> DEFINE expected == d.manual
  <2>1. expected = d.manual /\ expected \in Times BY <1>2
  <2> HIDE DEF d, expected
  <2>2. /\ Call("archive", 1, Other, expected, <<>>, d, 0, {}) \in Requests
        /\ RequestOK(manual', revisions', Call("archive", 1, Other, expected, <<>>, d, 0, {}),
                     [page[p] EXCEPT !.saving = Other], forms[p])
    BY <1>2, <1>4, <1>5, <2>1, NoOrder, CallIsOK
  <2>3. QED BY <2>2 DEF d, expected
<1>7. QED
  <2> HIDE DEF q2, call, d
  <2>1. Sendable(p, q2) => q2 \in Requests /\ RequestOK(manual', revisions', q2, [page[p] EXCEPT !.saving = Other], forms[p])
    BY <1>3, <1>6
  <2>2. QED BY <1>1, <1>4, <1>5, <2>1, AsksStep

LEMMA InCreateDraft ==
  ASSUME NEW p \in Pages, Before(p), CreateDraftFromPublished(p)
  PROVE  ClientStep(p)
<1> DEFINE d == page[p].shown
           q2 == RouteCreateDraft(d)
           call == Call("next", manual.published, Other, 0, <<>>, None, 0, {})
<1>1. Asks(p) /\ Ready(p) /\ Send(p, Other, {}, q2) /\ d.state = "published"
  BY DEF CreateDraftFromPublished, Asks
<1>2. forms[p] = {}
  BY <1>1, AskFacts DEF Editable
<1>3. Sendable(p, q2) => manual.published \in Revs /\ q2 = call
  <2>1. SUFFICES ASSUME Sendable(p, q2) PROVE manual.published \in Revs /\ q2 = call
    OBVIOUS
  <2>2. q2.kind \notin {"existing", "conflict"} /\ (~manual.archived \/ q2.kind = "archive")
    BY <2>1 DEF Sendable
  <2>3. CurrentDraft = 0 /\ q2 = call
    BY <2>2, KindOf DEF RouteCreateDraft
  <2>4. ~manual.archived
    BY <2>2, <2>3, KindOf
  <2>5. manual.draft = 0
    BY <2>3, <2>4 DEF CurrentDraft
  <2>6. manual.published \in {0} \cup Revs /\ manual.published # 0
    BY <1>1, <2>5, AskFacts DEF Manuals
  <2>7. QED BY <2>3, <2>6
<1>4. Other \in Keys \cup {Other} /\ "next" \in Kinds
  BY DEF Kinds
<1>5. /\ page[p] \in Screens /\ {} \in SUBSET Forms /\ AllTell(manual', revisions', {})
      /\ {g \in forms[p] : g.key # Other} \subseteq {} /\ <<>> \in Seq(Ids) /\ 0 \in Times
  BY <1>1, <1>2, AskFacts
<1>6. ASSUME manual.published \in Revs
      PROVE  call \in Requests /\ RequestOK(manual', revisions', call, [page[p] EXCEPT !.saving = Other], forms[p])
  BY <1>4, <1>5, <1>6, NoOrder, CallIsOK
<1>7. QED
  <2> HIDE DEF q2, call, d
  <2>1. Sendable(p, q2) => q2 \in Requests /\ RequestOK(manual', revisions', q2, [page[p] EXCEPT !.saving = Other], forms[p])
    BY <1>3, <1>6
  <2>2. QED BY <1>1, <1>4, <1>5, <2>1, AsksStep

(* How a page takes the end of its call q.                                 *)
LEMMA CallFacts ==
  ASSUME NEW p \in Pages, Kept1, Here(p), request[p] # NoRequest
  PROVE  /\ Settled(loads[p]) /\ request[p] \in Requests
         /\ page[p].saving \in Keys \cup {Other} /\ page[p].wrote \in Times /\ page[p].wrote <= manual'.version
         /\ request[p].keep \in SUBSET Forms /\ AllTell(manual', revisions', request[p].keep)
         /\ ~page[p].rerendered => {f \in forms[p] : f.key # page[p].saving} \subseteq request[p].keep
<1> DEFINE m == manual'
           revs == revisions'
           q == request[p]
           pg == page[p]
           fs == forms[p]
<1>1. Local(m, revs, q, loads[p], pg, fs)
  BY DEF Here
<1>2. pg \in Screens /\ pg.wrote <= m.version /\ q \in Requests \cup {NoRequest} /\ RequestOK(m, revs, q, pg, fs)
  BY <1>1, LocalFacts
<1>3. q \in Requests
  BY <1>2
<1>4. pg.saving # Nothing /\ (~pg.rerendered => Others(pg, fs) \subseteq q.keep) /\ AllTell(m, revs, q.keep)
  BY <1>2 DEF RequestOK
<1>5. pg.saving \in Keys \cup {Other} /\ pg.wrote \in Times
  BY <1>2, <1>4 DEF Screens
<1>6. q.keep \in SUBSET Forms
  BY <1>3 DEF Requests
<1>7. Settled(loads[p])
  BY <1>1, NotWaiting
<1>8. QED BY <1>2, <1>3, <1>4, <1>5, <1>6, <1>7 DEF Others

LEMMA InResultUnknown ==
  ASSUME NEW p \in Pages, Kept1, Here(p), request[p] # NoRequest, ResultUnknown(p, request[p])
  PROVE  Moves(p, NoRequest)
<1>1. CASE BackToList(p) /\ Costs(1)
  BY <1>1, CallFacts, BackAtList
<1>2. CASE LoadAgain(p, page[p].saving, request[p].keep, page[p].wrote, 1)
  BY <1>2, CallFacts, LoadsAgain
<1>3. QED BY <1>1, <1>2 DEF ResultUnknown

LEMMA InNotFound ==
  ASSUME NEW p \in Pages, Kept1, Here(p), request[p] # NoRequest, NotFound(p, request[p])
  PROVE  Moves(p, NoRequest)
BY CallFacts, LoadsAgain DEF NotFound

LEMMA InDone ==
  ASSUME NEW p \in Pages, Kept1, Here(p), request[p] # NoRequest, Done(p, request[p]),
         clock' \in Times, clock' <= manual'.version
  PROVE  Moves(p, NoRequest)
<1>1. CASE BackToList(p) /\ Costs(0)
  BY <1>1, CallFacts, BackAtList
<1>2. CASE LoadAgain(p, page[p].saving, request[p].keep, clock', 0)
  BY <1>2, CallFacts, LoadsAgain
<1>3. QED BY <1>1, <1>2 DEF Done
-----------------------------------------------------------------------------
(* The inductive invariant.                                                *)
Known == /\ ServerInv /\ Kept1 /\ request \in [Pages -> Requests \cup {NoRequest}]
         /\ \A p \in Pages : Local(manual, revisions, request[p], loads[p], page[p], forms[p])

LEMMA ConsistentKnown == Consistent <=> Known
BY Invariant DEF Known, Kept1

LEMMA KnownConsistent == Known' => Consistent'
BY DEF Known, Kept1, Consistent, TypeOK, ServerInv, Local, Typed

(* The pages see a change of the manual, or none.                          *)
LEMMA ServerStep ==
  ASSUME Known, ServerInv',
         OnlyNew(manual, revisions, manual', revisions') \/ (manual' = manual /\ revisions' = revisions),
         NEW p \in Pages
  PROVE  Here(p)
<1>1. Local(manual, revisions, request[p], loads[p], page[p], forms[p])
  BY DEF Known
<1>2. manual.version \in Nat /\ manual'.version \in Nat
  BY Bounds DEF Known, ServerInv, Manuals
<1>3. Sound(manual', revisions')
  BY DEF ServerInv, Sound, RevisionsInv, PointersAgree
<1>4. Local(manual', revisions', request[p], loads[p], page[p], forms[p])
  BY <1>1, <1>2, LocalStays
<1>5. QED BY <1>3, <1>4 DEF Here

LEMMA Frame ==
  ASSUME Known, ServerInv',
         OnlyNew(manual, revisions, manual', revisions') \/ (manual' = manual /\ revisions' = revisions),
         NEW p \in Pages, NEW q, request' = [request EXCEPT ![p] = q], Moves(p, q)
  PROVE  Known'
<1>1. PICK ls, pg, fs : /\ loads' = [loads EXCEPT ![p] = ls] /\ page' = [page EXCEPT ![p] = pg]
                        /\ forms' = [forms EXCEPT ![p] = fs]
                        /\ Local(manual', revisions', q, ls, pg, fs)
  BY DEF Moves
<1>2. q \in Requests \cup {NoRequest} /\ ls \in Seq(Loads) /\ pg \in Screens /\ fs \in SUBSET Forms
  BY <1>1 DEF Local, Typed
<1>3. /\ loads \in [Pages -> Seq(Loads)] /\ page \in [Pages -> Screens] /\ forms \in [Pages -> SUBSET Forms]
      /\ request \in [Pages -> Requests \cup {NoRequest}]
  BY DEF Known, Kept1
<1>4. /\ loads' \in [Pages -> Seq(Loads)] /\ page' \in [Pages -> Screens] /\ forms' \in [Pages -> SUBSET Forms]
      /\ request' \in [Pages -> Requests \cup {NoRequest}] /\ faults' \in 0..MaxFaults
  BY <1>1, <1>2, <1>3 DEF Moves
<1>5. /\ loads'[p] = ls /\ page'[p] = pg /\ forms'[p] = fs /\ request'[p] = q
      /\ \A o \in Pages : o # p => /\ loads'[o] = loads[o] /\ page'[o] = page[o]
                                   /\ forms'[o] = forms[o] /\ request'[o] = request[o]
  BY <1>1, <1>3
<1>6. ASSUME NEW o \in Pages PROVE Local(manual', revisions', request'[o], loads'[o], page'[o], forms'[o])
  <2>1. Local(manual', revisions', request[o], loads[o], page[o], forms[o])
    BY ServerStep DEF Here
  <2>2. CASE o = p BY <2>2, <1>1, <1>5
  <2>3. CASE o # p BY <2>1, <2>3, <1>5
  <2>4. QED BY <2>2, <2>3
<1>7. QED BY <1>4, <1>6 DEF Known, Kept1

LEMMA InitConsistent == Init => Consistent
<1> SUFFICES ASSUME Init PROVE Known
  BY ConsistentKnown
<1>1. 1 \in Times /\ 1 \in Nat /\ 0 \in Times /\ 1 \in Times \ {0} /\ 1 \in 1..MaxWrites /\ 1 \in Revs /\ 1 <= StepLimit
  BY BoundAssumption, LimitAssumption DEF Times, Revs
<1>2. \A n \in Nat : \A t \in Times :
        /\ OneStep(n, t) \in Seq(Steps) /\ Len(OneStep(n, t)) = 1 /\ DOMAIN OneStep(n, t) = {1}
        /\ OneStep(n, t)[1] = [id |-> <<1, n>>, version |-> t, text |-> 1]
  BY <1>1 DEF OneStep, Steps, Ids
<1>3. NoRevision \in Revisions /\ NoRevision.state = "none" /\ NoRevision.version = 0 /\ NoRevision.steps = <<>>
  BY <1>1 DEF NoRevision, Revisions, States
<1>4. ASSUME NEW n \in Nat, NEW t \in Times, NEW st \in States
      PROVE  LET v == [state |-> st, version |-> t, text |-> 1, steps |-> OneStep(n, t)] IN
             /\ v \in Revisions /\ v.state = st /\ v.version = t /\ v.steps = OneStep(n, t)
  BY <1>1, <1>2 DEF Revisions
<1>5. \A n \in Nat : \A t \in Times :
        /\ UniqueSteps(OneStep(n, t)) /\ Len(OneStep(n, t)) = 1
        /\ \A i \in DOMAIN OneStep(n, t) : OneStep(n, t)[i].version = t /\ OneStep(n, t)[i].id[1] = 1
  <2>1. SUFFICES ASSUME NEW n \in Nat, NEW t \in Times
                 PROVE  /\ UniqueSteps(OneStep(n, t)) /\ Len(OneStep(n, t)) = 1
                        /\ \A i \in DOMAIN OneStep(n, t) : OneStep(n, t)[i].version = t /\ OneStep(n, t)[i].id[1] = 1
    OBVIOUS
  <2>2. DOMAIN OneStep(n, t) = {1} /\ Len(OneStep(n, t)) = 1
    BY <1>2
  <2>3. OneStep(n, t)[1] = [id |-> <<1, n>>, version |-> t, text |-> 1]
    BY <1>2
  <2>4. OneStep(n, t)[1].id[1] = 1
    BY <2>3
  <2>5. QED BY <2>2, <2>3, <2>4 DEF UniqueSteps
<1>6. UniqueSteps(<<>>)
  BY DEF UniqueSteps
<1>7. "draft" \in States /\ "published" \in States
  BY DEF States
<1>8. ServerInv
  <2>1. CASE /\ manual = [draft |-> 1, published |-> 0, archived |-> FALSE, version |-> 1]
             /\ revisions = [r \in Revs |->
                  IF r = 1 THEN [state |-> "draft", version |-> 1, text |-> 1, steps |-> OneStep(1, 1)]
                           ELSE NoRevision]
    <3>1. manual \in Manuals /\ manual.draft = 1 /\ manual.published = 0 /\ manual.version = 1
      BY <2>1, <1>1 DEF Manuals
    <3>2. /\ revisions[1] \in Revisions /\ revisions[1].state = "draft" /\ revisions[1].version = 1
          /\ revisions[1].steps = OneStep(1, 1)
          /\ \A r \in Revs : r # 1 => revisions[r] = NoRevision
      BY <2>1, <1>1, <1>4, <1>7
    <3>3. revisions \in [Revs -> Revisions]
      BY <2>1, <3>2, <1>1, <1>3
    <3>4. PointersAgree
      BY <3>1, <3>2, <1>3, Bounds DEF PointersAgree
    <3>6. clock = 1 /\ editors = Pages
      BY DEF Init
    <3>7. ASSUME NEW r \in Revs
          PROVE  /\ revisions[r].version <= clock /\ UniqueSteps(revisions[r].steps)
                 /\ Len(revisions[r].steps) <= StepLimit
                 /\ \A i \in DOMAIN revisions[r].steps :
                      revisions[r].steps[i].version <= clock /\ revisions[r].steps[i].id[1] <= clock
      <4>1. CASE r = 1
        <5>0. /\ UniqueSteps(OneStep(1, 1)) /\ Len(OneStep(1, 1)) = 1
              /\ \A i \in DOMAIN OneStep(1, 1) : OneStep(1, 1)[i].version = 1 /\ OneStep(1, 1)[i].id[1] = 1
          BY <1>1, <1>5
        <5>1. revisions[r].version = 1 /\ revisions[r].steps = OneStep(1, 1) /\ clock = 1
          BY <4>1, <3>2, <3>6
        <5>2. revisions[r].version <= clock
          BY <5>1
        <5>3. UniqueSteps(revisions[r].steps) /\ Len(revisions[r].steps) <= StepLimit
          BY <5>0, <5>1, <1>1
        <5>4. ASSUME NEW i \in DOMAIN revisions[r].steps
              PROVE  revisions[r].steps[i].version <= clock /\ revisions[r].steps[i].id[1] <= clock
          <6>1. revisions[r].steps[i].version \in {0, 1} /\ revisions[r].steps[i].id[1] = 1
            BY <5>0, <5>1
          <6>2. QED BY <5>1, <6>1
        <5>5. QED BY <5>2, <5>3, <5>4
      <4>2. CASE r # 1
        <5>1. revisions[r].version = 0 /\ revisions[r].steps = <<>> BY <4>2, <3>2, <1>3
        <5>2. QED BY <5>1, <3>6, <1>6, LimitAssumption
      <4>3. QED BY <4>1, <4>2
    <3>8. RevisionsInv
      BY <3>1, <3>6, <3>7 DEF RevisionsInv
    <3>9. QED BY <1>1, <3>1, <3>3, <3>4, <3>6, <3>7, <3>8 DEF ServerInv
  <2>2. CASE /\ MaxRevisions > 1
             /\ manual = [draft |-> 2, published |-> 1, archived |-> FALSE, version |-> 1]
             /\ revisions = [r \in Revs |->
                  IF r = 1 THEN [state |-> "published", version |-> 0, text |-> 1, steps |-> OneStep(1, 0)]
                  ELSE IF r = 2 THEN [state |-> "draft", version |-> 1, text |-> 1, steps |-> OneStep(2, 1)]
                           ELSE NoRevision]
    <3>0. 2 \in Revs /\ 2 # 1
      BY <2>2, BoundAssumption DEF Revs
    <3>1. manual \in Manuals /\ manual.draft = 2 /\ manual.published = 1 /\ manual.version = 1
      BY <2>2, <1>1, <3>0 DEF Manuals
    <3>2. /\ revisions[1] \in Revisions /\ revisions[1].state = "published" /\ revisions[1].version = 0
          /\ revisions[1].steps = OneStep(1, 0)
          /\ \A r \in Revs : r # 1 /\ r # 2 => revisions[r] = NoRevision
      BY <2>2, <1>1, <1>4, <1>7, <3>0
    <3>3. /\ revisions[2] \in Revisions /\ revisions[2].state = "draft" /\ revisions[2].version = 1
          /\ revisions[2].steps = OneStep(2, 1)
      BY <2>2, <1>1, <1>4, <1>7, <3>0
    <3>4. revisions \in [Revs -> Revisions]
      BY <2>2, <3>2, <3>3, <1>1, <1>3
    <3>5. PointersAgree
      BY <3>0, <3>1, <3>2, <3>3, <1>3, Bounds DEF PointersAgree
    <3>7. clock = 1 /\ editors = Pages
      BY DEF Init
    <3>8. ASSUME NEW r \in Revs
          PROVE  /\ revisions[r].version <= clock /\ UniqueSteps(revisions[r].steps)
                 /\ Len(revisions[r].steps) <= StepLimit
                 /\ \A i \in DOMAIN revisions[r].steps :
                      revisions[r].steps[i].version <= clock /\ revisions[r].steps[i].id[1] <= clock
      <4>1. CASE r = 1
        <5>0. /\ UniqueSteps(OneStep(1, 0)) /\ Len(OneStep(1, 0)) = 1
              /\ \A i \in DOMAIN OneStep(1, 0) : OneStep(1, 0)[i].version = 0 /\ OneStep(1, 0)[i].id[1] = 1
          BY <1>1, <1>5
        <5>1. revisions[r].version = 0 /\ revisions[r].steps = OneStep(1, 0) /\ clock = 1
          BY <4>1, <3>2, <3>7
        <5>2. revisions[r].version <= clock
          BY <5>1
        <5>3. UniqueSteps(revisions[r].steps) /\ Len(revisions[r].steps) <= StepLimit
          BY <5>0, <5>1, <1>1
        <5>4. ASSUME NEW i \in DOMAIN revisions[r].steps
              PROVE  revisions[r].steps[i].version <= clock /\ revisions[r].steps[i].id[1] <= clock
          <6>1. revisions[r].steps[i].version \in {0, 1} /\ revisions[r].steps[i].id[1] = 1
            BY <5>0, <5>1
          <6>2. QED BY <5>1, <6>1
        <5>5. QED BY <5>2, <5>3, <5>4
      <4>2. CASE r = 2
        <5>0. /\ UniqueSteps(OneStep(2, 1)) /\ Len(OneStep(2, 1)) = 1
              /\ \A i \in DOMAIN OneStep(2, 1) : OneStep(2, 1)[i].version = 1 /\ OneStep(2, 1)[i].id[1] = 1
          BY <1>1, <1>5
        <5>1. revisions[r].version = 1 /\ revisions[r].steps = OneStep(2, 1) /\ clock = 1
          BY <4>2, <3>3, <3>7
        <5>2. revisions[r].version <= clock
          BY <5>1
        <5>3. UniqueSteps(revisions[r].steps) /\ Len(revisions[r].steps) <= StepLimit
          BY <5>0, <5>1, <1>1
        <5>4. ASSUME NEW i \in DOMAIN revisions[r].steps
              PROVE  revisions[r].steps[i].version <= clock /\ revisions[r].steps[i].id[1] <= clock
          <6>1. revisions[r].steps[i].version \in {0, 1} /\ revisions[r].steps[i].id[1] = 1
            BY <5>0, <5>1
          <6>2. QED BY <5>1, <6>1
        <5>5. QED BY <5>2, <5>3, <5>4
      <4>3. CASE r # 1 /\ r # 2
        <5>1. revisions[r].version = 0 /\ revisions[r].steps = <<>> BY <4>3, <3>2, <1>3
        <5>2. QED BY <5>1, <3>7, <1>6, LimitAssumption
      <4>4. QED BY <4>1, <4>2, <4>3
    <3>9. RevisionsInv
      BY <3>1, <3>7, <3>8 DEF RevisionsInv
    <3>10. QED BY <1>1, <3>1, <3>4, <3>5, <3>7, <3>8, <3>9 DEF ServerInv
  <2>3. QED BY <2>1, <2>2 DEF Init
<1>9. Empty \in Screens /\ Empty.saving = Nothing /\ Empty.shown = None /\ Empty.wrote = 0 /\ Empty.status = "idle"
  BY <1>1 DEF Empty, Screens
<1>10. faults \in 0..MaxFaults
  BY BoundAssumption DEF Init
<1>11. /\ request \in [Pages -> Requests \cup {NoRequest}] /\ Kept1
       /\ \A p \in Pages : request[p] = NoRequest /\ loads[p] = <<>> /\ page[p] = Empty /\ forms[p] = {}
  BY <1>9, <1>10 DEF Init, Kept1
<1>12. 0 <= manual.version
  BY <1>8 DEF ServerInv, Manuals, Times
<1>13. ASSUME NEW p \in Pages PROVE Local(manual, revisions, NoRequest, <<>>, Empty, {})
  BY <1>9, <1>12 DEF Local, Typed, PageOK, RequestOK, LoadsOK, ScreenOK, AllTell
<1>14. QED BY <1>8, <1>11, <1>13 DEF Known

LEMMA SameServer ==
  ASSUME Known, manual' = manual, revisions' = revisions, clock' = clock, editors' \subseteq Pages
  PROVE  ServerInv'
BY DEF Known, ServerInv, PointersAgree, RevisionsInv

LEMMA BeforeStep ==
  ASSUME Known, manual' = manual, revisions' = revisions, clock' = clock, editors' = editors, NEW p \in Pages
  PROVE  ServerInv' /\ Before(p)
<1>1. ServerInv'
  <2>1. editors' \subseteq Pages BY DEF Known, ServerInv
  <2>2. QED BY <2>1, SameServer
<1>2. Here(p)
  BY <1>1, ServerStep
<1>3. QED BY <1>1, <1>2 DEF Before, Known

(* A step of a page that leaves the database alone.                        *)
LEMMA PageStep ==
  ASSUME Known, manual' = manual, revisions' = revisions, clock' = clock, editors' = editors,
         NEW p \in Pages, Before(p) => ClientStep(p)
  PROVE  Known'
<1>1. ServerInv' /\ ClientStep(p)
  BY BeforeStep
<1>2. PICK q : request' = [request EXCEPT ![p] = q] /\ Moves(p, q)
  BY <1>1 DEF ClientStep
<1>3. QED BY <1>1, <1>2, Frame

LEMMA SameRequest ==
  ASSUME NEW p \in Pages, Before(p), request' = request, Moves(p, request[p])
  PROVE  ClientStep(p)
<1>1. request' = [request EXCEPT ![p] = request[p]]
  BY DEF Before
<1>2. QED BY <1>1 DEF ClientStep

LEMMA PageSteps ==
  ASSUME Known, NEW p \in Pages, PageNext(p)
  PROVE  Known'
<1>1. CASE OpenManualDetail(p)
  <2>1. manual' = manual /\ revisions' = revisions /\ clock' = clock /\ editors' = editors /\ request' = request
        /\ UserLoad(p)
    BY <1>1 DEF OpenManualDetail, server
  <2>2. Before(p) => ClientStep(p)
    BY <2>1, InUserLoad, SameRequest DEF Before
  <2>3. QED BY <2>1, <2>2, PageStep
<1>2. CASE Reload(p)
  <2>1. manual' = manual /\ revisions' = revisions /\ clock' = clock /\ editors' = editors /\ request' = request
        /\ UserLoad(p)
    BY <1>2 DEF Reload, server
  <2>2. Before(p) => ClientStep(p)
    BY <2>1, InUserLoad, SameRequest DEF Before
  <2>3. QED BY <2>1, <2>2, PageStep
<1>3. CASE OpenManualList(p)
  <2>1. manual' = manual /\ revisions' = revisions /\ clock' = clock /\ editors' = editors /\ request' = request
    BY <1>3 DEF OpenManualList, server
  <2>2. Before(p) => ClientStep(p)
    BY <1>3, <2>1, InOpenManualList, SameRequest DEF Before
  <2>3. QED BY <2>1, <2>2, PageStep
<1>4. CASE Type(p)
  <2>1. manual' = manual /\ revisions' = revisions /\ clock' = clock /\ editors' = editors /\ request' = request
    BY <1>4 DEF Type, server
  <2>2. Before(p) => ClientStep(p)
    BY <1>4, <2>1, InType, SameRequest DEF Before
  <2>3. QED BY <2>1, <2>2, PageStep
<1>5. CASE \E i \in 1..MaxLoads : FinishLoad(p, i)
  <2>0. PICK i \in 1..MaxLoads : FinishLoad(p, i)
    BY <1>5
  <2>1. manual' = manual /\ revisions' = revisions /\ clock' = clock /\ editors' = editors /\ request' = request
    BY <2>0 DEF FinishLoad, server
  <2>2. Before(p) => ClientStep(p)
    BY <2>0, <2>1, InFinishLoad, SameRequest DEF Before
  <2>3. QED BY <2>1, <2>2, PageStep
<1>6. CASE \/ UpdateDraft(p) \/ CreateStep(p) \/ UpdateStep(p) \/ DeleteStep(p) \/ ReorderSteps(p)
           \/ PublishManual(p) \/ ArchiveManual(p) \/ CreateDraftFromPublished(p)
  <2>1. Asks(p)
    BY <1>6 DEF UpdateDraft, CreateStep, UpdateStep, DeleteStep, ReorderSteps, PublishManual, ArchiveManual,
                CreateDraftFromPublished, AsksDraft
  <2>2. manual' = manual /\ revisions' = revisions /\ clock' = clock /\ editors' = editors
    BY <2>1 DEF Asks, server
  <2>3. Before(p) => ClientStep(p)
    BY <1>6, InUpdateDraft, InCreateStep, InUpdateStep, InDeleteStep, InReorderSteps, InPublishManual,
       InArchiveManual, InCreateDraft
  <2>4. QED BY <2>2, <2>3, PageStep
<1>7. CASE LoseCall(p)
  <2>1. /\ manual' = manual /\ revisions' = revisions /\ clock' = clock /\ editors' = editors
        /\ request[p] # NoRequest /\ request' = [request EXCEPT ![p] = NoRequest] /\ ResultUnknown(p, request[p])
    BY <1>7 DEF LoseCall, server
  <2>2. Before(p) => ClientStep(p)
    BY <2>1, InResultUnknown DEF Before, ClientStep
  <2>3. QED BY <2>1, <2>2, PageStep
<1>8. CASE Revoke(p)
  <2>1. /\ manual' = manual /\ revisions' = revisions /\ clock' = clock /\ editors' = editors \ {p} /\ request' = request
        /\ page' = page /\ forms' = forms /\ loads' = loads /\ Costs(1)
    BY <1>8 DEF Revoke, server, client
  <2>2. ServerInv'
    <3>1. editors' \subseteq Pages BY <2>1 DEF Known, ServerInv
    <3>2. QED BY <2>1, <3>1, SameServer
  <2>3. faults' \in 0..MaxFaults
    BY <2>1, CostsBounded DEF Known, Kept1
  <2>4. QED BY <2>1, <2>2, <2>3 DEF Known, Kept1
<1>9. CASE RenderAgain(p)
  <2>1. manual' = manual /\ revisions' = revisions /\ clock' = clock /\ editors' = editors /\ request' = request
    BY <1>9 DEF RenderAgain, server
  <2>2. Before(p) => ClientStep(p)
    BY <1>9, <2>1, InRenderAgain, SameRequest DEF Before
  <2>3. QED BY <2>1, <2>2, PageStep
<1>10. QED BY <1>1, <1>2, <1>3, <1>4, <1>5, <1>6, <1>7, <1>8, <1>9 DEF PageNext

LEMMA NotNone == NoRequest.kind = "none"
BY DEF NoRequest

(* A write of the database and its answer, which may be lost.               *)
LEMMA WriteStep ==
  ASSUME Known, NEW p \in Pages, DatabaseWrite(p)
  PROVE  Known'
<1>1. /\ request[p].kind # "none" /\ Tick /\ Answer(p, Done(p, request[p]))
  BY DEF DatabaseWrite, UpdateManualDraft, AppendManualStep, UpdateManualStep, SoftDeleteManualStep,
         ReorderManualSteps, PublishManualRevision, CreateManualDraftFromPublished, ArchiveManualRow, Writes
<1>2. request[p] # NoRequest /\ request[p] \in Requests
  <2>1. request[p] # NoRequest BY <1>1, NotNone
  <2>2. request[p] \in Requests \cup {NoRequest} BY DEF Known
  <2>3. QED BY <2>1, <2>2
<1>3. RequestOK(manual, revisions, request[p], page[p], forms[p])
  <2>1. Local(manual, revisions, request[p], loads[p], page[p], forms[p]) BY DEF Known
  <2>2. QED BY <2>1, LocalFacts
<1>4. ServerInv' /\ OnlyNew(manual, revisions, manual', revisions')
  BY <1>2, <1>3, Written DEF ServerWritten, Known, KnownRequest
<1>5. Here(p)
  BY <1>4, ServerStep
<1>6. clock' \in Times /\ clock' <= manual'.version
  <2>1. clock' \in Times /\ clock' \in Nat BY <1>1, TickFacts DEF Known
  <2>2. manual'.version = clock' BY <1>4 DEF ServerInv, RevisionsInv
  <2>3. QED BY <2>1, <2>2
<1>7. Moves(p, NoRequest) /\ request' = [request EXCEPT ![p] = NoRequest]
  <2>1. CASE Done(p, request[p])
    BY <1>1, <1>2, <1>5, <1>6, <2>1, InDone DEF Known, Answer
  <2>2. CASE ResultUnknown(p, request[p])
    BY <1>1, <1>2, <1>5, <2>2, InResultUnknown DEF Known, Answer
  <2>3. QED BY <1>1, <2>1, <2>2 DEF Answer
<1>8. QED BY <1>4, <1>7, Frame

LEMMA AnswerStep ==
  ASSUME Known, NEW p \in Pages, UNCHANGED <<server, clock, editors>>, request[p].kind # "none",
         \/ Answer(p, Done(p, request[p])) \/ Answer(p, NotFound(p, request[p]))
         \/ Answer(p, Conflict(p)) \/ Answer(p, Forbidden(p))
  PROVE  Known'
<1>1. manual' = manual /\ revisions' = revisions /\ clock' = clock /\ editors' = editors
      /\ request' = [request EXCEPT ![p] = NoRequest]
  BY DEF server, Answer
<1>2. ServerInv' /\ Before(p)
  BY <1>1, BeforeStep
<1>3. request[p] # NoRequest
  BY NotNone
<1>4. clock' \in Times /\ clock' <= manual'.version
  <2>1. manual'.version = clock' /\ clock' \in Nat /\ clock' \in Times
    BY <1>2 DEF ServerInv, RevisionsInv, Times
  <2>2. QED BY <2>1
<1>5. Settled(loads[p])
  BY <1>2, <1>3, CallFacts DEF Before
<1>6. Moves(p, NoRequest)
  <2>1. CASE Done(p, request[p]) BY <1>2, <1>3, <1>4, <2>1, InDone DEF Before
  <2>2. CASE NotFound(p, request[p]) BY <1>2, <1>3, <2>2, InNotFound DEF Before
  <2>3. CASE Conflict(p) BY <1>2, <1>5, <2>3, InConflict DEF Before
  <2>4. CASE Forbidden(p) BY <1>2, <1>5, <2>4, InForbidden DEF Before
  <2>5. CASE ResultUnknown(p, request[p]) BY <1>2, <1>3, <2>5, InResultUnknown DEF Before
  <2>6. QED BY <2>1, <2>2, <2>3, <2>4, <2>5 DEF Answer
<1>7. QED BY <1>1, <1>2, <1>6, Frame

LEMMA ServerSteps ==
  ASSUME Known, NEW p \in Pages, ServerNext(p)
  PROVE  Known'
<1>1. CASE DatabaseWrite(p)
  BY <1>1, WriteStep
<1>2. CASE ReturnExistingDraft(p)
  BY <1>2, AnswerStep DEF ReturnExistingDraft
<1>3. CASE Refuse(p)
  BY <1>3, AnswerStep DEF Refuse
<1>4. QED BY <1>1, <1>2, <1>3 DEF ServerNext, DatabaseWrite

(* Rows, pointers, snapshots, forms and pages stay consistent, whoever      *)
(* writes and whatever calls, answers and loads are lost or overtaken.      *)
THEOREM ConsistentAlways == Spec => []Consistent
<1>1. Consistent /\ [Next]_vars => Consistent'
  <2> SUFFICES ASSUME Known, [Next]_vars PROVE Known'
    BY ConsistentKnown, KnownConsistent
  <2>2. CASE \E p \in Pages : PageNext(p)
    BY <2>2, PageSteps
  <2>3. CASE \E p \in Pages : ServerNext(p)
    BY <2>3, ServerSteps
  <2>4. CASE UNCHANGED vars
    BY <2>4 DEF vars, Known, Kept1, ServerInv, PointersAgree, RevisionsInv
  <2>5. QED BY <2>2, <2>3, <2>4 DEF Next
<1>2. QED BY <1>1, InitConsistent, PTL DEF Spec

(* A page that is not waiting shows what its user saved.                    *)
THEOREM ReadsOwnWritesAlways == Spec => []ReadsOwnWrites
<1>1. Consistent => ReadsOwnWrites
  <2> SUFFICES ASSUME Known, NEW p \in Pages, Ready(p), page[p].shown # None
               PROVE  page[p].shown.manual >= page[p].wrote
    BY ConsistentKnown DEF ReadsOwnWrites
  <2>1. Local(manual, revisions, request[p], loads[p], page[p], forms[p])
    BY DEF Known
  <2>2. page[p].screen = "detail" /\ page[p].status = "loaded" /\ page[p].saving = Nothing
    BY DEF Ready, Busy
  <2>3. \A i \in DOMAIN loads[p] : ~loads[p][i].latest
    BY <2>1, <2>2, NotWaiting
  <2>4. ScreenOK(manual, revisions, loads[p], page[p], forms[p])
    BY <2>1, LocalFacts
  <2>5. ~(page[p].shown.manual < page[p].wrote)
    BY <2>2, <2>3, <2>4 DEF ScreenOK
  <2>6. page[p].shown \in Details /\ page[p].wrote \in Nat
    BY <2>1, LocalFacts
  <2>7. page[p].shown.manual \in Nat
    BY <2>6, Bounds DEF Details
  <2>8. QED BY <2>5, <2>6, <2>7
<1>2. QED BY <1>1, ConsistentAlways, PTL
-----------------------------------------------------------------------------
(* Who changed the manual: the page whose call was answered.                *)
LEMMA PageLeavesServer ==
  ASSUME NEW p \in Pages, PageNext(p)
  PROVE  manual' = manual /\ revisions' = revisions
BY DEF PageNext, OpenManualDetail, Reload, OpenManualList, Type, RenderAgain, FinishLoad, UpdateDraft, CreateStep, UpdateStep,
       DeleteStep, ReorderSteps, PublishManual, ArchiveManual, CreateDraftFromPublished, LoseCall, Revoke,
       Asks, AsksDraft, server

LEMMA WriterIs ==
  ASSUME NEW p \in Pages, DatabaseWrite(p)
  PROVE  request' = [request EXCEPT ![p] = NoRequest] /\ request[p].kind # "none" /\ p \in editors
BY DEF DatabaseWrite, UpdateManualDraft, AppendManualStep, UpdateManualStep, SoftDeleteManualStep,
       ReorderManualSteps, PublishManualRevision, CreateManualDraftFromPublished, ArchiveManualRow, Writes,
       Answer, MayEdit

LEMMA Writer ==
  ASSUME Known, [Next]_vars, manual' # manual \/ revisions' # revisions
  PROVE  \E p \in Pages :
           /\ DatabaseWrite(p) /\ p \in editors
           /\ request[p] # NoRequest /\ request'[p] = NoRequest
           /\ \A o \in Pages : o # p => request'[o] = request[o]
<1>1. PICK p \in Pages : ServerNext(p)
  BY PageLeavesServer DEF Next, vars
<1>2. DatabaseWrite(p)
  BY <1>1 DEF ServerNext, DatabaseWrite, ReturnExistingDraft, Refuse, server
<1>3. request' = [request EXCEPT ![p] = NoRequest] /\ request[p].kind # "none" /\ p \in editors
  BY <1>2, WriterIs
<1>4. request \in [Pages -> Requests \cup {NoRequest}]
  BY DEF Known
<1>5. request[p] # NoRequest
  BY <1>3, NotNone
<1>6. QED BY <1>2, <1>3, <1>4, <1>5

(* The call that is gone after a change of the manual is the one that made it. *)
LEMMA WriterOf ==
  ASSUME Known, [Next]_vars, manual' # manual \/ revisions' # revisions,
         NEW p \in Pages, request[p] # NoRequest, request'[p] = NoRequest
  PROVE  DatabaseWrite(p)
BY Writer

LEMMA CallKnown ==
  ASSUME Known, NEW p \in Pages, request[p] # NoRequest
  PROVE  request[p] \in Requests /\ RequestOK(manual, revisions, request[p], page[p], forms[p])
<1>1. Local(manual, revisions, request[p], loads[p], page[p], forms[p])
  BY DEF Known
<1>2. QED BY <1>1, LocalFacts

(* Equal versions tell equal contents.                                     *)
LEMMA ReviewedContent ==
  ASSUME Known, NEW p \in Pages, request[p] # NoRequest, PublishManualRevision(p)
  PROVE  Content(revisions[request[p].rev]) = Content(request[p].seen)
<1> DEFINE q == request[p]
           v == revisions[q.rev]
           d == q.seen
<1>1. q.kind = "publish" /\ manual.draft = q.rev /\ ContentVersion(v) = ContentVersion(d)
  BY DEF PublishManualRevision, Writes, CanPublish
<1>2. q.rev \in Revs /\ Tells(manual, revisions, d) /\ d.state = "draft"
  BY <1>1, CallKnown DEF RequestOK, Requests
<1>3. v.state = "draft"
  BY <1>1, <1>2 DEF Known, ServerInv, PointersAgree
<1>4. /\ v.version = d.version /\ DOMAIN v.steps = DOMAIN d.steps
      /\ \A i \in DOMAIN v.steps : v.steps[i].id = d.steps[i].id /\ v.steps[i].version = d.steps[i].version
  <2> DEFINE f == [i \in DOMAIN v.steps |-> <<v.steps[i].id, v.steps[i].version>>]
             g == [i \in DOMAIN d.steps |-> <<d.steps[i].id, d.steps[i].version>>]
  <2>1. v.version = d.version /\ f = g
    BY <1>1 DEF ContentVersion
  <2>2. DOMAIN f = DOMAIN g /\ \A i \in DOMAIN v.steps : f[i] = g[i]
    BY <2>1
  <2>3. DOMAIN v.steps = DOMAIN d.steps
    BY <2>2
  <2>4. \A i \in DOMAIN v.steps : <<v.steps[i].id, v.steps[i].version>> = <<d.steps[i].id, d.steps[i].version>>
    BY <2>2, <2>3
  <2>5. QED BY <2>1, <2>3, <2>4
<1>5. Says(revisions, Basics, d.version, d.text)
      /\ \A i \in DOMAIN d.steps : Says(revisions, d.steps[i].id, d.steps[i].version, d.steps[i].text)
  BY <1>2 DEF Tells
<1>6. v.text = d.text
  BY <1>2, <1>3, <1>4, <1>5 DEF Says
<1>7. \A i \in DOMAIN v.steps : v.steps[i].text = d.steps[i].text
  BY <1>2, <1>3, <1>4, <1>5 DEF Says
<1>8. Content(v) = Content(d)
  <2> HIDE DEF v, d
  <2>1. [i \in DOMAIN v.steps |-> v.steps[i].text] = [i \in DOMAIN d.steps |-> d.steps[i].text]
    BY <1>4, <1>7
  <2>2. QED BY <1>6, <2>1 DEF Content
<1>9. QED BY <1>8

(* A write of a revision's text or steps finds it a draft.                  *)
LEMMA PublishedStays ==
  ASSUME Known, NEW p \in Pages, DatabaseWrite(p), NEW r \in Revs, revisions[r].state \in {"published", "superseded"}
  PROVE  Content(revisions'[r]) = Content(revisions[r])
<1> DEFINE q == request[p]
<1>1. q \in Requests /\ revisions \in [Revs -> Revisions] /\ revisions[r] \in Revisions
  <2>1. q # NoRequest BY WriterIs, NotNone
  <2>2. QED BY <2>1, CallKnown DEF Known, ServerInv
<1>2. q.rev \in Revs
  BY <1>1 DEF Requests
<1>3. ASSUME NEW steps, StepsWrite(q.rev, steps), revisions[q.rev].state = "draft"
      PROVE  revisions'[r] = revisions[r]
  BY <1>1, <1>2, <1>3 DEF StepsWrite
<1>4. CASE AppendManualStep(p)
  <2>1. \E steps : StepsWrite(q.rev, steps) /\ revisions[q.rev].state = "draft"
    BY <1>4 DEF AppendManualStep, WriteSteps, Advanced, StepsWrite, CanAppend, OpenDraft
  <2>2. QED BY <2>1, <1>3
<1>5. CASE UpdateManualStep(p)
  <2>1. \E steps : StepsWrite(q.rev, steps) /\ revisions[q.rev].state = "draft"
    BY <1>5 DEF UpdateManualStep, WriteSteps, Advanced, StepsWrite, CanUpdate, HasStep, OpenDraft
  <2>2. QED BY <2>1, <1>3
<1>6. CASE SoftDeleteManualStep(p)
  <2>1. \E steps : StepsWrite(q.rev, steps) /\ revisions[q.rev].state = "draft"
    BY <1>6 DEF SoftDeleteManualStep, WriteSteps, Advanced, StepsWrite, HasStep, OpenDraft
  <2>2. QED BY <2>1, <1>3
<1>7. CASE ReorderManualSteps(p)
  <2>1. \E steps : StepsWrite(q.rev, steps) /\ revisions[q.rev].state = "draft"
    BY <1>7 DEF ReorderManualSteps, WriteSteps, Advanced, StepsWrite, CanReorder, OpenDraft
  <2>2. QED BY <2>1, <1>3
<1>8. CASE UpdateManualDraft(p)
  <2>1. manual.draft = q.rev /\ revisions' = [revisions EXCEPT ![q.rev].text = clock', ![q.rev].version = clock']
    BY <1>8 DEF UpdateManualDraft, CanUpdateDraft
  <2>2. r # q.rev
    BY <2>1, <1>2 DEF Known, ServerInv, PointersAgree
  <2>3. QED BY <1>1, <2>1, <2>2
<1>9. CASE PublishManualRevision(p)
  <2>1. revisions'[r] \in {[revisions[r] EXCEPT !.state = "published", !.version = clock'],
                           [revisions[r] EXCEPT !.state = "superseded", !.version = clock'], revisions[r]}
    BY <1>9 DEF PublishManualRevision, SupersededRevision
  <2>2. revisions'[r].text = revisions[r].text /\ revisions'[r].steps = revisions[r].steps
    BY <1>1, <2>1 DEF Revisions
  <2>3. QED BY <2>2 DEF Content
<1>10. CASE CreateManualDraftFromPublished(p)
  <2>1. \E n \in Revs : \E v : revisions[n].state = "none" /\ revisions' = [revisions EXCEPT ![n] = v]
    BY <1>10 DEF CreateManualDraftFromPublished
  <2>2. QED BY <1>1, <2>1
<1>11. CASE ArchiveManualRow(p)
  BY <1>11 DEF ArchiveManualRow
<1>12. QED BY <1>4, <1>5, <1>6, <1>7, <1>8, <1>9, <1>10, <1>11 DEF DatabaseWrite

(* A published revision says what was reviewed, word for word, and never     *)
(* changes again.                                                          *)
THEOREM PublishedIsFinalAlways == Spec => PublishedIsFinal
<1>1. Consistent /\ [Next]_vars =>
        [\A r \in Revs : revisions[r].state \in {"published", "superseded"}
           => Content(revisions'[r]) = Content(revisions[r])]_vars
  <2> SUFFICES ASSUME Known, [Next]_vars, NEW r \in Revs, revisions[r].state \in {"published", "superseded"}
               PROVE  Content(revisions'[r]) = Content(revisions[r])
    BY ConsistentKnown
  <2>1. CASE revisions' = revisions
    BY <2>1
  <2>2. CASE revisions' # revisions
    BY <2>2, Writer, PublishedStays
  <2>3. QED BY <2>1, <2>2
<1>2. Consistent /\ [Next]_vars =>
        [\A p \in Pages :
           request[p].kind = "publish" /\ request'[p] = NoRequest /\ manual' # manual
             => Content(revisions[request[p].rev]) = Content(request[p].seen)]_vars
  <2> SUFFICES ASSUME Known, [Next]_vars, NEW p \in Pages,
                      request[p].kind = "publish", request'[p] = NoRequest, manual' # manual
               PROVE  Content(revisions[request[p].rev]) = Content(request[p].seen)
    BY ConsistentKnown
  <2>1. request[p] # NoRequest
    BY NotNone
  <2>2. DatabaseWrite(p)
    BY <2>1, WriterOf
  <2>3. PublishManualRevision(p)
    BY <2>2 DEF DatabaseWrite, UpdateManualDraft, AppendManualStep, UpdateManualStep, SoftDeleteManualStep,
                ReorderManualSteps, CreateManualDraftFromPublished, ArchiveManualRow, Writes
  <2>4. QED BY <2>1, <2>3, ReviewedContent
<1>3. QED BY <1>1, <1>2, ConsistentAlways, PTL DEF Spec, PublishedIsFinal, PublishedIsImmutable, PublishedIsReviewed

(* A saved form replaces the text that its user saw.                        *)
LEMMA SavedOverSeen ==
  ASSUME Known, NEW p \in Pages, DatabaseWrite(p)
  PROVE  LET q == request[p] IN
         /\ q.kind = "basics" => revisions[q.rev].text = q.on
         /\ q.kind = "update" => StepOf(revisions[q.rev].steps, q.id).text = q.on
<1> DEFINE q == request[p]
           v == revisions[q.rev]
<1>1. q # NoRequest
  BY WriterIs, NotNone
<1>2. q \in Requests /\ RequestOK(manual, revisions, q, page[p], forms[p])
  BY <1>1, CallKnown
<1>3. q.rev \in Revs
  BY <1>2 DEF Requests
<1>4. ASSUME q.kind = "basics" PROVE v.text = q.on
  <2>1. manual.draft = q.rev /\ v.version = q.expected
    BY <1>4 DEF DatabaseWrite, UpdateManualDraft, AppendManualStep, UpdateManualStep, SoftDeleteManualStep,
       ReorderManualSteps, PublishManualRevision, CreateManualDraftFromPublished, ArchiveManualRow, Writes, CanUpdateDraft
  <2>2. v.state = "draft"
    BY <1>3, <2>1 DEF Known, ServerInv, PointersAgree
  <2>3. Says(revisions, Basics, q.expected, q.on)
    BY <1>1, <1>2, <1>4 DEF RequestOK
  <2>4. QED BY <1>3, <2>1, <2>2, <2>3 DEF Says
<1>5. ASSUME q.kind = "update" PROVE StepOf(v.steps, q.id).text = q.on
  <2>1. v.state = "draft" /\ q.id \in StepIds(v.steps) /\ StepOf(v.steps, q.id).version = q.expected
    BY <1>5 DEF DatabaseWrite, UpdateManualDraft, AppendManualStep, UpdateManualStep, SoftDeleteManualStep,
       ReorderManualSteps, PublishManualRevision, CreateManualDraftFromPublished, ArchiveManualRow, Writes,
       CanUpdate, HasStep, OpenDraft
  <2>2. PICK i \in DOMAIN v.steps : StepOf(v.steps, q.id) = v.steps[i] /\ v.steps[i].id = q.id
    BY <2>1, StepOfId
  <2>3. Says(revisions, q.id, q.expected, q.on)
    BY <1>1, <1>2, <1>5 DEF RequestOK
  <2>4. v.steps[i].text = q.on
    BY <1>3, <2>1, <2>2, <2>3 DEF Says
  <2>5. QED BY <2>2, <2>4
<1>6. QED BY <1>4, <1>5

(* An archived manual said what the page showed.                            *)
LEMMA ArchivedAsSeen ==
  ASSUME Known, NEW p \in Pages, DatabaseWrite(p), request[p].kind = "archive"
  PROVE  UpToDate(manual, revisions, request[p].seen)
<1> DEFINE q == request[p]
<1>1. q # NoRequest
  BY NotNone
<1>2. q \in Requests /\ RequestOK(manual, revisions, q, page[p], forms[p])
  BY <1>1, CallKnown
<1>3. manual.version = q.expected
  BY DEF DatabaseWrite, UpdateManualDraft, AppendManualStep, UpdateManualStep, SoftDeleteManualStep,
     ReorderManualSteps, PublishManualRevision, CreateManualDraftFromPublished, ArchiveManualRow, Writes, CanArchive
<1>4. q.expected = q.seen.manual /\ Tells(manual, revisions, q.seen)
  BY <1>1, <1>2 DEF RequestOK
<1>5. QED BY <1>3, <1>4 DEF Tells

(* Who changes the manual saw what is replaced or hidden, and may edit.     *)
THEOREM ChangesAreInformedAlways == Spec => ChangesAreInformed
<1>1. Consistent /\ [Next]_vars =>
        [\A p \in Pages :
           LET q == request[p] IN
           request'[p] = NoRequest /\ revisions' # revisions =>
             /\ q.kind = "basics" => revisions[q.rev].text = q.on
             /\ q.kind = "update" => StepOf(revisions[q.rev].steps, q.id).text = q.on]_vars
  <2> SUFFICES ASSUME Known, [Next]_vars, NEW p \in Pages, request'[p] = NoRequest, revisions' # revisions,
                      request[p].kind \in {"basics", "update"}
               PROVE  /\ request[p].kind = "basics" => revisions[request[p].rev].text = request[p].on
                      /\ request[p].kind = "update" =>
                           StepOf(revisions[request[p].rev].steps, request[p].id).text = request[p].on
    BY ConsistentKnown
  <2>1. request[p] # NoRequest
    BY NotNone
  <2>2. QED BY <2>1, WriterOf, SavedOverSeen
<1>2. Consistent /\ [Next]_vars =>
        [\A p \in Pages :
           request[p].kind = "archive" /\ request'[p] = NoRequest /\ manual' # manual =>
             LET r == request[p].seen.rev IN
             /\ r = IF manual.draft # 0 THEN manual.draft ELSE manual.published
             /\ request[p].seen.published = manual.published
             /\ Content(revisions[r]) = Content(request[p].seen)]_vars
  <2> SUFFICES ASSUME Known, [Next]_vars, NEW p \in Pages,
                      request[p].kind = "archive", request'[p] = NoRequest, manual' # manual
               PROVE  UpToDate(manual, revisions, request[p].seen)
    BY ConsistentKnown DEF UpToDate
  <2>1. request[p] # NoRequest
    BY NotNone
  <2>2. QED BY <2>1, WriterOf, ArchivedAsSeen
<1>3. Consistent /\ [Next]_vars =>
        [server' # server =>
           \E p \in Pages : request[p] # NoRequest /\ request'[p] = NoRequest /\ p \in editors]_vars
  BY ConsistentKnown, Writer DEF server
<1>4. QED BY <1>1, <1>2, <1>3, ConsistentAlways, PTL
     DEF Spec, ChangesAreInformed, NoBlindOverwrite, ArchiveHidesNothing, RevokedEditsNothing
-----------------------------------------------------------------------------
(* Unsaved input.  Stays(p, f): the form f of a page that waited, and was    *)
(* not rendered anew, still has its place there, and the page keeps it.      *)
Stays(p, f) ==
  LET d == page'[p].shown
      place == /\ Busy(p) /\ ~page[p].rerendered /\ ~page'[p].rerendered
               /\ page[p].screen = "detail" /\ page'[p].screen = "detail"
               /\ page'[p].status = "loaded" /\ f.key # page[p].saving
               /\ Editable(d) /\ (f.key = Basics \/ f.key \in StepIds(d.steps))
  IN place => \E g \in forms'[p] : g.key = f.key /\ g.on = f.on

LEMMA StaysByDefault ==
  ASSUME NEW p \in Pages, NEW f \in forms[p], forms'[p] = forms[p]
  PROVE  Stays(p, f)
BY DEF Stays

(* The page shows d, with the forms that were kept for it.                  *)
LEMMA StaysWhenShown ==
  ASSUME NEW p \in Pages, page \in [Pages -> Screens], forms \in [Pages -> SUBSET Forms],
         NEW f \in forms[p], NEW pg \in Screens, NEW finish \in BOOLEAN, NEW keep, NEW d \in Details \cup {None},
         page' = [page EXCEPT ![p] = ShownPage(pg, finish, d)],
         forms' = [forms EXCEPT ![p] = ShownForms(pg, finish, keep, d, forms[p])],
         page[p].rerendered \/ f \in keep \/ f.key = page[p].saving \/ (d # None => ~Editable(d))
  PROVE  Stays(p, f)
<1> SUFFICES ASSUME ~page[p].rerendered, page'[p].status = "loaded", f.key # page[p].saving,
                    page'[p].screen = "detail",
                    Editable(page'[p].shown),
                    f.key = Basics \/ f.key \in StepIds(page'[p].shown.steps)
             PROVE  \E g \in forms'[p] : g.key = f.key /\ g.on = f.on
  BY DEF Stays
<1> DEFINE w == ShownPage(pg, finish, d)
<1>1. page'[p] = w /\ forms'[p] = ShownForms(pg, finish, keep, d, forms[p])
  OBVIOUS
<1>2. /\ w.screen = pg.screen
      /\ d # None => w.shown = d
      /\ d = None /\ ~StaysOn(pg, finish) => w.status = "error"
  BY ShownPageIs
<1> HIDE DEF w
<1>3. CASE d # None
  <2>1. f \in keep /\ Editable(d)
    BY <1>1, <1>2, <1>3
  <2>2. forms'[p] = Restored(keep, d) /\ (f.key = Basics \/ f.key \in StepIds(d.steps))
    BY <1>1, <1>2, <1>3 DEF ShownForms
  <2>3. QED BY <2>1, <2>2 DEF Restored
<1>4. CASE d = None
  <2>1. StaysOn(pg, finish)
    BY <1>1, <1>2, <1>4
  <2>2. forms'[p] = forms[p]
    BY <1>1, <1>4, <2>1 DEF ShownForms
  <2>3. QED BY <2>2
<1>5. QED BY <1>3, <1>4

LEMMA ServerDetail ==
  ASSUME Known, NEW p
  PROVE  Detail(p) \in Details \cup {None}
<1>1. PICK c \in BOOLEAN : Detail(p) = Snapshot(manual, revisions, c)
  BY DetailIs
<1>2. Sound(manual, revisions)
  BY ServerSound DEF Known
<1>3. QED BY <1>1, <1>2, SnapshotTells

LEMMA ServerDetailNext ==
  ASSUME ServerInv', NEW p
  PROVE  Detail(p)' \in Details \cup {None}
<1>1. PICK c \in BOOLEAN : Detail(p)' = Snapshot(manual', revisions', c)
  BY DetailIs
<1>2. Sound(manual', revisions')
  BY DEF ServerInv, Sound, RevisionsInv, PointersAgree
<1>3. QED BY <1>1, <1>2, SnapshotTells

LEMMA StaysWhenLoadedAgain ==
  ASSUME Known, ServerInv', NEW p \in Pages, NEW f \in forms[p],
         NEW wrote \in Times, NEW lost, request[p] # NoRequest,
         LoadAgain(p, page[p].saving, request[p].keep, wrote, lost)
  PROVE  Stays(p, f)
<1> DEFINE keep == request[p].keep
           pg1 == [page[p] EXCEPT !.saving = page[p].saving, !.wrote = wrote]
<1>1. page \in [Pages -> Screens] /\ forms \in [Pages -> SUBSET Forms] /\ page[p] \in Screens
  BY DEF Known, Kept1
<1>2. page[p].rerendered \/ f \in keep \/ f.key = page[p].saving
  BY CallKnown DEF RequestOK, Others
<1>3. pg1 \in Screens
  BY <1>1 DEF Screens
<1>4. CASE ShowDetail(p, pg1, TRUE, keep, Detail(p)')
  <2> DEFINE d == Detail(p)'
  <2>1. /\ page' = [page EXCEPT ![p] = ShownPage(pg1, TRUE, d)]
        /\ forms' = [forms EXCEPT ![p] = ShownForms(pg1, TRUE, keep, d, forms[p])]
    BY <1>4 DEF ShowDetail, ShownPage, ShownForms
  <2>2. d \in Details \cup {None}
    BY ServerDetailNext
  <2> HIDE DEF d, keep, pg1
  <2>3. QED BY <1>1, <1>2, <1>3, <2>1, <2>2, StaysWhenShown
<1>5. CASE UNCHANGED forms
  BY <1>5, StaysByDefault
<1>6. QED BY <1>4, <1>5 DEF LoadAgain

LEMMA StaysAtList ==
  ASSUME Known, NEW p \in Pages, NEW f, BackToList(p)
  PROVE  Stays(p, f)
<1>1. page \in [Pages -> Screens]
  BY DEF Known, Kept1
<1>2. page'[p].screen = "list"
  BY <1>1 DEF BackToList, Screens
<1>3. QED BY <1>2 DEF Stays

LEMMA StaysWhenAnswered ==
  ASSUME Known, ServerInv', NEW p \in Pages, NEW f \in forms[p], request[p] # NoRequest, clock' \in Times,
         Done(p, request[p]) \/ ResultUnknown(p, request[p]) \/ NotFound(p, request[p])
  PROVE  Stays(p, f)
<1>1. page[p].wrote \in Times
  BY DEF Known, Kept1, Screens
<1>2. CASE BackToList(p)
  BY <1>2, StaysAtList
<1>3. CASE \E wrote \in Times, lost \in Nat : LoadAgain(p, page[p].saving, request[p].keep, wrote, lost)
  BY <1>3, StaysWhenLoadedAgain
<1>4. QED BY <1>1, <1>2, <1>3 DEF Done, ResultUnknown, NotFound

LEMMA StaysWhenForbidden ==
  ASSUME Known, ServerInv', NEW p \in Pages, NEW f \in forms[p], p \notin editors', Forbidden(p)
  PROVE  Stays(p, f)
<1>1. page \in [Pages -> Screens] /\ forms \in [Pages -> SUBSET Forms] /\ page[p] \in Screens
  BY DEF Known, Kept1
<1>2. Local(manual, revisions, request[p], loads[p], page[p], forms[p])
  BY DEF Known
<1>3. /\ page[p].screen = "detail" /\ Editable(page[p].shown)
      /\ page[p].shown # None => Tells(manual, revisions, page[p].shown)
  BY <1>2, LocalFacts
<1>4. Closed(page[p]) \in Screens
  BY <1>1, <1>3, ClosedPage
<1>5. CASE ShowDetail(p, Closed(page[p]), FALSE, {}, Detail(p)')
  <2> DEFINE d == Detail(p)'
             pg1 == Closed(page[p])
  <2>1. /\ page' = [page EXCEPT ![p] = ShownPage(pg1, FALSE, d)]
        /\ forms' = [forms EXCEPT ![p] = ShownForms(pg1, FALSE, {}, d, forms[p])]
    BY <1>5 DEF ShowDetail, ShownPage, ShownForms
  <2>2. d \in Details \cup {None}
    BY ServerDetailNext
  <2>3. d # None => ~d.canEdit
    <3>1. d = Snapshot(manual', revisions', p \in editors')
      BY DEF Detail
    <3>2. (p \in editors') = FALSE
      OBVIOUS
    <3>3. d = Snapshot(manual', revisions', FALSE)
      BY <3>1, <3>2
    <3>4. QED BY <3>3 DEF Snapshot
  <2>4. d # None => ~Editable(d)
    BY <2>3 DEF Editable
  <2> HIDE DEF d, pg1
  <2>5. QED BY <1>1, <1>4, <2>1, <2>2, <2>4, StaysWhenShown DEF pg1
<1>6. CASE page' = [page EXCEPT ![p] = [Closed(page[p]) EXCEPT !.status = "loading"]]
  <2>1. page'[p].status = "loading"
    BY <1>1, <1>4, <1>6 DEF Screens
  <2>2. QED BY <2>1 DEF Stays
<1>7. CASE ~(OnDetail(p) /\ page[p].shown # None)
  BY <1>3, <1>7 DEF OnDetail, Editable
<1>8. QED BY <1>5, <1>6, <1>7 DEF Forbidden, Closed

(* A step of a page touches the forms of no other.                          *)
FormsOnlyOf(p) == \A o \in Pages : o # p => forms'[o] = forms[o]

LEMMA OnlyHere ==
  ASSUME Known, NEW p \in Pages, PageNext(p) \/ ServerNext(p)
  PROVE  FormsOnlyOf(p)
<1>0. forms \in [Pages -> SUBSET Forms]
  BY DEF Known, Kept1
<1>1. \A pg, finish, keep, d : ShowDetail(p, pg, finish, keep, d) => FormsOnlyOf(p)
  BY <1>0 DEF ShowDetail, FormsOnlyOf
<1>2. UNCHANGED forms => FormsOnlyOf(p)
  BY DEF FormsOnlyOf
<1>3. \A keep, key, wrote, lost : LoadAgain(p, key, keep, wrote, lost) => FormsOnlyOf(p)
  BY <1>1, <1>2 DEF LoadAgain
<1>4. BackToList(p) => FormsOnlyOf(p)
  BY <1>0 DEF BackToList, FormsOnlyOf
<1>5. Forbidden(p) => FormsOnlyOf(p)
  BY <1>0, <1>1 DEF Forbidden, FormsOnlyOf
<1>6. \A q : Done(p, q) \/ ResultUnknown(p, q) \/ NotFound(p, q) \/ Conflict(p) => FormsOnlyOf(p)
  BY <1>2, <1>3, <1>4 DEF Done, ResultUnknown, NotFound, Conflict
<1>7. \A key, keep, q : Send(p, key, keep, q) => FormsOnlyOf(p)
  BY <1>2, <1>3, <1>5 DEF Send, client
<1>8. UserLoad(p) => FormsOnlyOf(p)
  BY <1>0, <1>1 DEF UserLoad, FormsOnlyOf
<1>9. CASE PageNext(p)
  <2>1. CASE OpenManualDetail(p) \/ Reload(p)
    BY <1>8, <2>1 DEF OpenManualDetail, Reload
  <2>2. CASE OpenManualList(p)
    BY <1>0, <2>2 DEF OpenManualList, FormsOnlyOf
  <2>3. CASE Type(p)
    BY <1>0, <2>3 DEF Type, FormsOnlyOf
  <2>4. CASE \E i \in 1..MaxLoads : FinishLoad(p, i)
    <3>1. \A l : IgnoreStale(p, l) => FormsOnlyOf(p)
      BY <1>0 DEF IgnoreStale, FormsOnlyOf
    <3>2. QED BY <1>1, <2>4, <3>1 DEF FinishLoad
  <2>5. CASE UpdateDraft(p) \/ CreateStep(p) \/ UpdateStep(p) \/ DeleteStep(p) \/ ReorderSteps(p)
    BY <1>7, <2>5 DEF UpdateDraft, CreateStep, UpdateStep, DeleteStep, ReorderSteps
  <2>6. CASE PublishManual(p) \/ ArchiveManual(p) \/ CreateDraftFromPublished(p)
    BY <1>7, <2>6 DEF PublishManual, ArchiveManual, CreateDraftFromPublished
  <2>7. CASE LoseCall(p)
    BY <1>6, <2>7 DEF LoseCall
  <2>8. CASE Revoke(p)
    BY <1>2, <2>8 DEF Revoke, client
  <2>9. CASE RenderAgain(p)
    BY <1>0, <2>9 DEF RenderAgain, FormsOnlyOf
  <2>10. QED BY <1>9, <2>1, <2>2, <2>3, <2>4, <2>5, <2>6, <2>7, <2>8, <2>9 DEF PageNext
<1>10. CASE ServerNext(p)
  <2>1. \/ \E q : Done(p, q) \/ ResultUnknown(p, q) \/ NotFound(p, q)
        \/ Conflict(p) \/ Forbidden(p)
    BY <1>10 DEF ServerNext, UpdateManualDraft, AppendManualStep, UpdateManualStep, SoftDeleteManualStep,
       ReorderManualSteps, PublishManualRevision, CreateManualDraftFromPublished, ArchiveManualRow,
       ReturnExistingDraft, Refuse, Answer
  <2>2. QED BY <1>5, <1>6, <2>1
<1>11. QED BY <1>9, <1>10

LEMMA StaysWhenFinished ==
  ASSUME Known, NEW p \in Pages, NEW f \in forms[p], NEW i, FinishLoad(p, i)
  PROVE  Stays(p, f)
<1> DEFINE l == loads[p][i]
           d == IF l.finish THEN Detail(p) ELSE l.snap
<1>1. page \in [Pages -> Screens] /\ forms \in [Pages -> SUBSET Forms] /\ page[p] \in Screens
  BY DEF Known, Kept1
<1>2. i \in DOMAIN loads[p] /\ Local(manual, revisions, request[p], loads[p], page[p], forms[p])
  BY DEF FinishLoad, Known
<1>3. l \in Loads /\ LoadOK(manual, revisions, request[p], l, page[p], forms[p])
  BY <1>2, LocalFacts
<1>4. CASE ~l.latest
  <2>1. IgnoreStale(p, l)
    BY <1>4 DEF FinishLoad
  <2>2. CASE l.finish
    BY <1>3, <1>4, <2>2 DEF LoadOK, Others, Stays
  <2>3. CASE ~l.finish
    BY <1>1, <2>1, <2>3 DEF IgnoreStale, Stays
  <2>4. QED BY <2>2, <2>3
<1>5. CASE l.latest
  <2>1. l.finish
    BY <1>3, <1>5 DEF LoadOK
  <2>2. page[p].rerendered \/ f \in l.keep \/ f.key = page[p].saving
    BY <1>3, <1>5, <2>1 DEF LoadOK, Others
  <2>3. d \in Details \cup {None}
    BY <2>1, ServerDetail
  <2>4. ShowDetail(p, page[p], l.finish, l.keep, d) \/ ShowDetail(p, page[p], l.finish, l.keep, None)
    BY <1>5 DEF FinishLoad
  <2> HIDE DEF l, d
  <2>5. \A e \in Details \cup {None} : ShowDetail(p, page[p], l.finish, l.keep, e) => Stays(p, f)
    <3> TAKE e \in Details \cup {None}
    <3> HAVE ShowDetail(p, page[p], l.finish, l.keep, e)
    <3>1. /\ page' = [page EXCEPT ![p] = ShownPage(page[p], l.finish, e)]
          /\ forms' = [forms EXCEPT ![p] = ShownForms(page[p], l.finish, l.keep, e, forms[p])]
      BY ShowDetailIs
    <3>2. l.finish \in BOOLEAN
      BY <2>1
    <3> DEFINE finish == l.finish
               keep == l.keep
               pg == page[p]
    <3> HIDE DEF finish, keep, pg
    <3>3. /\ page' = [page EXCEPT ![p] = ShownPage(pg, finish, e)]
          /\ forms' = [forms EXCEPT ![p] = ShownForms(pg, finish, keep, e, forms[p])]
          /\ pg \in Screens /\ finish \in BOOLEAN 
          /\ page[p].rerendered \/ f \in keep \/ f.key = page[p].saving
      BY <1>1, <2>2, <3>1, <3>2 DEF finish, keep, pg
    <3>4. QED BY <1>1, <3>3, StaysWhenShown
  <2>6. QED BY <2>3, <2>4, <2>5
<1>6. QED BY <1>4, <1>5

LEMMA StaysAfterPage ==
  ASSUME Known, Known', NEW p \in Pages, NEW f \in forms[p], PageNext(p)
  PROVE  Stays(p, f)
<1>1. page \in [Pages -> Screens]
  BY DEF Known, Kept1
<1>2. CASE ~Busy(p)
  BY <1>2 DEF Stays
<1>3. ASSUME Busy(p), OpenManualDetail(p) PROVE Stays(p, f)
  BY <1>3 DEF OpenManualDetail, OnDetail, Stays
<1>4. ASSUME Busy(p), Reload(p) PROVE Stays(p, f)
  <2> DEFINE pg == [page[p] EXCEPT !.screen = "detail", !.status = "loading", !.shown = IF OnDetail(p) THEN @ ELSE None]
  <2>1. page' = [page EXCEPT ![p] = pg]
    BY <1>4 DEF Reload, UserLoad
  <2>2. page[p] \in Screens
    BY <1>1
  <2>3. pg.status = "loading"
    BY <2>2 DEF Screens
  <2> HIDE DEF pg
  <2>4. page'[p].status = "loading"
    BY <1>1, <2>1, <2>3
  <2>5. QED BY <2>4 DEF Stays
<1>5. ASSUME OpenManualList(p) PROVE Stays(p, f)
  BY <1>1, <1>5 DEF OpenManualList, Stays, Screens
<1>6. ASSUME Busy(p), Type(p) PROVE Stays(p, f)
  BY <1>6 DEF Type, TakesInput, Stays
<1>7. ASSUME Busy(p), \/ UpdateDraft(p) \/ CreateStep(p) \/ UpdateStep(p) \/ DeleteStep(p) \/ ReorderSteps(p)
                      \/ PublishManual(p) \/ ArchiveManual(p) \/ CreateDraftFromPublished(p)
      PROVE  FALSE
  BY <1>7 DEF UpdateDraft, CreateStep, UpdateStep, DeleteStep, ReorderSteps, PublishManual, ArchiveManual,
              CreateDraftFromPublished, AsksDraft, Asks, Ready
<1>8. ASSUME LoseCall(p) PROVE Stays(p, f)
  <2>1. request[p] # NoRequest /\ ResultUnknown(p, request[p]) /\ clock' = clock
    BY <1>8 DEF LoseCall
  <2>2. ServerInv' /\ clock' \in Times
    BY <2>1 DEF Known, ServerInv, Times
  <2>3. QED BY <2>1, <2>2, StaysWhenAnswered
<1>9. ASSUME Revoke(p) PROVE Stays(p, f)
  BY <1>9, StaysByDefault DEF Revoke, client
<1>10. ASSUME \E i \in 1..MaxLoads : FinishLoad(p, i) PROVE Stays(p, f)
  BY <1>10, StaysWhenFinished
<1>11. ASSUME Busy(p), RenderAgain(p) PROVE Stays(p, f)
  <2>1. page[p] \in Screens
    BY <1>1
  <2>2. page'[p].rerendered
    BY <1>1, <1>11, <2>1 DEF RenderAgain, Screens
  <2>3. QED BY <2>2 DEF Stays
<1>12. QED BY <1>2, <1>3, <1>4, <1>5, <1>6, <1>7, <1>8, <1>9, <1>10, <1>11 DEF PageNext

LEMMA StaysAfterServer ==
  ASSUME Known, Known', NEW p \in Pages, NEW f \in forms[p], ServerNext(p)
  PROVE  Stays(p, f)
<1>1. ServerInv' /\ clock' \in Times
  BY DEF Known, ServerInv, Times
<1>2. request[p] # NoRequest
  BY NotNone DEF ServerNext, UpdateManualDraft, AppendManualStep, UpdateManualStep, SoftDeleteManualStep,
     ReorderManualSteps, PublishManualRevision, CreateManualDraftFromPublished, ArchiveManualRow,
     ReturnExistingDraft, Refuse, Writes
<1>3. CASE ServerNext(p) /\ ~Refuse(p)
  <2>1. Done(p, request[p]) \/ ResultUnknown(p, request[p])
    BY <1>3 DEF ServerNext, UpdateManualDraft, AppendManualStep, UpdateManualStep, SoftDeleteManualStep,
       ReorderManualSteps, PublishManualRevision, CreateManualDraftFromPublished, ArchiveManualRow,
       ReturnExistingDraft, Answer
  <2>2. QED BY <1>1, <1>2, <2>1, StaysWhenAnswered
<1>4. CASE Refuse(p)
  <2>1. \/ NotFound(p, request[p]) \/ ResultUnknown(p, request[p]) \/ Conflict(p)
        \/ Forbidden(p) /\ ~MayEdit(p)
    BY <1>4 DEF Refuse, Answer
  <2>2. editors' = editors
    BY <1>4 DEF Refuse
  <2>3. CASE NotFound(p, request[p]) \/ ResultUnknown(p, request[p])
    BY <1>1, <1>2, <2>3, StaysWhenAnswered
  <2>4. CASE Conflict(p)
    BY <2>4, StaysByDefault DEF Conflict
  <2>5. CASE Forbidden(p) /\ ~MayEdit(p)
    <3>1. p \notin editors'
      BY <2>2, <2>5 DEF MayEdit
    <3>2. QED BY <1>1, <2>5, <3>1, StaysWhenForbidden
  <2>6. QED BY <2>1, <2>3, <2>4, <2>5
<1>5. QED BY <1>3, <1>4

(* Saving one form loses no input of another that still has its place,       *)
(* whatever answers and loads are lost, late or overtaken, as long as the    *)
(* page is not rendered anew with open forms while the save is under way.    *)
THEOREM UnsavedIsKeptAlways == Spec => UnsavedIsKept
<1>1. ASSUME Consistent, Consistent', Next PROVE \A p \in Pages : \A f \in forms[p] : Stays(p, f)
  <2>1. PICK o \in Pages : PageNext(o) \/ ServerNext(o)
    BY <1>1 DEF Next
  <2>2. Known /\ Known'
    BY <1>1, <2>1, ConsistentKnown, PageSteps, ServerSteps
  <2>3. \A f \in forms[o] : Stays(o, f)
    BY <2>1, <2>2, StaysAfterPage, StaysAfterServer
  <2>4. \A p \in Pages : \A f \in forms[p] : p # o => Stays(p, f)
    BY <2>1, <2>2, OnlyHere, StaysByDefault DEF FormsOnlyOf
  <2>5. QED BY <2>3, <2>4
<1>2. Consistent /\ Consistent' /\ [Next]_vars =>
        [\A p \in Pages : \A f \in forms[p] : Stays(p, f)]_vars
  BY <1>1
<1>3. [\A p \in Pages : \A f \in forms[p] : Stays(p, f)]_vars =>
        [\A p \in Pages : \A f \in forms[p] :
           LET d == page'[p].shown
               stays == /\ Busy(p) /\ ~page[p].rerendered /\ ~page'[p].rerendered
                        /\ page[p].screen = "detail" /\ page'[p].screen = "detail"
                        /\ page'[p].status = "loaded" /\ f.key # page[p].saving
                        /\ Editable(d) /\ (f.key = Basics \/ f.key \in StepIds(d.steps))
           IN stays => \E g \in forms'[p] : g.key = f.key /\ g.on = f.on]_vars
  BY DEF Stays
<1>4. QED BY <1>2, <1>3, ConsistentAlways, PTL DEF Spec, UnsavedIsKept
=============================================================================
