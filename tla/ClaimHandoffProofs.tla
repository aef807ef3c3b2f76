------------------------- MODULE ClaimHandoffProofs -------------------------
(***************************************************************************)
(* Proofs about ClaimHandoff.  The inductive invariant says of every       *)
(* handoff which content it was opened for, and that every page, message,  *)
(* stored entry and claim of it agrees on that content and on the          *)
(* operation, as far as each can know it.                                  *)
(*                                                                         *)
(* What a run of a page becomes is proved for any sets of handoffs that    *)
(* are saved, opened and identified, so that it can be used of the state   *)
(* before a step and after it; with the empty set for the identified ones  *)
(* it says that the run is not about to claim.                             *)
(***************************************************************************)
EXTENDS ClaimHandoff, TLAPS

\* The shapes of an entry, of a page's run and of a message.
Metas == [status : {"absent", "new", "completed"} \cup Pending,
          op : Operations \cup {None}, fp : Contents \cup {None},
          at : 0..MaxVersion, manual : Operations \cup {None}]
Runs == [pc : Waits \cup {"closed", "idle", "dead", "saved"},
         h : Handoffs \cup {None}, op : Operations \cup {None},
         state : States, status : Statuses, manual : Operations \cup {None},
         fp : Contents \cup {None}, fragment : BOOLEAN,
         restores : 0..MaxRestores, prepared : Contents \cup {None}]
Messages == [kind : {"none", "begin", "pending", "completed"},
             step : {"none", "write", "expect", "delete", "finish"},
             page : Pages \cup {None}, seen : Metas, expected : Contents \cup {None}]

\* The handoffs whose manual is saved, those that were ever opened, and those
\* whose identity the extension has stored, unless a clean-up removed it.
Saved == {h \in Handoffs : claim[h].status = "completed"}
Opened == {h \in Handoffs : meta[h] # NoMeta \/ h \in expired}
Identified == {h \in Handoffs : meta[h] = NoMeta \/ meta[h].status \in Pending \cup {"completed"}}

\* Where a run has the operation of its handoff, and where it has prepared.
Working == {"status", "prepare", "intent", "start", "chunk", "upload", "pending",
            "claim", "completed", "saved"}
Writing == {"intent", "start", "chunk", "upload", "pending", "claim"}

\* A run belongs to a handoff that was opened for the content f[h], claims with
\* the handoff's operation and that content only, and knows what was saved.
RunOK(p, r, f, saved, opened, identified) ==
  \/ r = Closed
  \/ /\ r.pc # "closed" /\ r.h \in opened /\ r.fp = f[r.h] /\ r.op \in {p, r.h}
     /\ r.pc \in Working \/ r.status # "none" => r.op = r.h
     /\ r.pc \in Writing => r.prepared = r.fp
     /\ r.pc = "claim" => r.h \in identified
     /\ r.pc \in {"completed", "saved"} \/ r.status \in {"completion-pending", "completed"}
          => r.h \in saved
     /\ r.pc = "completed" => r.manual = r.h
     /\ r.manual # None => r.manual = r.h /\ r.op = r.h /\ r.h \in saved

\* An entry is of the content it was opened for, and has a manual when there is one.
MetaOK(h, m, f, saved) ==
  \/ m = NoMeta
  \/ /\ m.status # "absent" /\ m.fp = f[h] /\ m.op \in {None, h}
     /\ m.status # "new" => m.op = h
     /\ m.manual # None => m.manual = h /\ h \in saved
     /\ m.status \in {"completion-pending", "completed"} <=> m.manual # None

\* Nobody claims for h.
Unclaimed(h) ==
  /\ h \notin Saved /\ claim[h].late = None
  /\ \A p \in Pages : page[p].h = h => page[p].pc # "claim"

\* A message writes what follows from the entry it read, which only a
\* clean-up has changed since.
MessageOK(h, k, f) ==
  \/ k = NoHandler
  \/ /\ h \in Opened /\ k.seen.fp = f[h] /\ k.seen.op = h /\ k.expected \in {None, f[h]}
     /\ k.page # None => page[k.page].h = h /\ page[k.page].pc = k.kind
     /\ \/ /\ k.kind = "begin" /\ k.seen.status = "new" /\ k.seen.manual = None
           /\ meta[h].status \in {"absent", "new"} /\ Unclaimed(h)
        \/ /\ k.kind = "pending" /\ k.seen.status = "finalize-pending" /\ k.seen.manual = None
           /\ meta[h].status \in {"absent", "new"}
        \/ /\ k.kind = "completed" /\ k.seen.status = "completion-pending" /\ k.seen.manual = h
           /\ meta[h].status \in {"absent"} \cup Pending /\ h \in Saved

\* A manual has the content of its handoff, and so has a finalize on its way.
ClaimOK(h, f) ==
  /\ h \in Saved => claim[h].content = f[h]
  /\ claim[h].late \in {None, f[h]}
  /\ h \in Saved \/ claim[h].late # None => h \in Opened \cap Identified

\* A clean-up saw expired entries; one that was completed is written no more.
DoomedOK(d) ==
  /\ d[1] \in expired /\ d[2] \in {"new", "completed"}
  /\ d[2] = "completed" => meta[d[1]].status \in {"absent", "completed"} /\ handler[d[1]] = NoHandler

RunsOK(f) == \A p \in Pages : RunOK(p, page[p], f, Saved, Opened, Identified)
MetasOK(f) == \A h \in Handoffs : MetaOK(h, meta[h], f, Saved)
MessagesOK(f) == \A h \in Handoffs : MessageOK(h, handler[h], f)
ClaimsOK(f) == \A h \in Handoffs : ClaimOK(h, f)
AllDoomedOK == \A e \in Editors : \A d \in doomed[e] : DoomedOK(d)

Claims == [status : {"none", "pending", "expired", "completed"}, staged : BOOLEAN,
           content : Contents \cup {None}, late : Contents \cup {None}]

Typed ==
  /\ draft \in [content : Contents \cup {None}, version : 0..MaxVersion]
  /\ meta \in [Handoffs -> Metas] /\ handler \in [Handoffs -> Messages]
  /\ page \in [Pages -> Runs] /\ claim \in [Operations -> Claims]
  /\ expired \subseteq Handoffs
  /\ doomed \in [Editors -> SUBSET (Handoffs \X (Statuses \cup {"new"}))]
  /\ snapshot \in [Handoffs -> Contents \cup {None}] /\ transfer \in [Handoffs -> BOOLEAN]
  /\ faults \in 0..MaxFaults

\* f is the content that each handoff was opened for.
Held(f) ==
  /\ RunsOK(f) /\ MetasOK(f) /\ MessagesOK(f) /\ ClaimsOK(f)
  /\ CanonicalOperation /\ AllDoomedOK
Inv == Typed /\ \E f \in [Handoffs -> Contents] : Held(f)

-----------------------------------------------------------------------------
(* What becomes of a run, whatever is known of the handoffs.               *)

LEMMA NoneIsNoName == None \notin Handoffs /\ None \notin Pages /\ None \notin Contents
BY NamesAssumption, ContentAssumption

LEMMA ClosedRuns == Closed \in Runs /\ NoMeta \in Metas /\ NoHandler \in Messages
BY NumberAssumption DEF Closed, Runs, NoMeta, Metas, NoHandler, Messages, States, Statuses, Waits

\* A run that ends keeps what it knows.
LEMMA RestOK ==
  ASSUME NEW p, NEW r \in Runs, NEW f, NEW saved, NEW opened, NEW identified,
         RunOK(p, r, f, saved, opened, identified), r.pc # "closed",
         NEW x, x.pc \in {"idle", "dead", "recovery", "begin"}, x.h = r.h, x.fp = r.fp, x.op = r.op,
         x.status = r.status, x.manual = r.manual
  PROVE  RunOK(p, x, f, saved, opened, identified)
<1>1. r # Closed /\ x.pc # "closed" /\ x.pc \notin Working /\ x.pc \notin Writing
  BY DEF Closed, Working, Writing
<1>2. x.pc \notin {"claim", "completed", "saved"}
  OBVIOUS
<1> QED
  BY <1>1, <1>2 DEF RunOK

LEMMA EndsOK ==
  ASSUME NEW p, NEW r \in Runs, NEW f, NEW saved, NEW opened, NEW identified,
         RunOK(p, r, f, saved, opened, identified), r.pc # "closed",
         NEW pc \in {"idle", "dead"}
  PROVE  Ends(r, pc) \in Runs /\ RunOK(p, Ends(r, pc), f, saved, opened, identified)
         /\ Ends(r, pc).pc = pc /\ Ends(r, pc).state = r.state /\ Ends(r, pc).restores = r.restores
<1> DEFINE x == Ends(r, pc)
<1>1. x \in Runs
  BY DEF Ends, Runs
<1>2. x.pc = pc /\ x.h = r.h /\ x.fp = r.fp /\ x.op = r.op /\ x.status = r.status /\ x.manual = r.manual
      /\ x.state = r.state /\ x.restores = r.restores
  BY DEF Ends, Runs
<1> HIDE DEF x
<1>3. RunOK(p, x, f, saved, opened, identified)
  BY <1>2, RestOK
<1> QED
  BY <1>1, <1>2, <1>3 DEF x

\* So does one that ends with another state.
LEMMA EndsInOK ==
  ASSUME NEW p, NEW r \in Runs, NEW f, NEW saved, NEW opened, NEW identified,
         RunOK(p, r, f, saved, opened, identified), r.pc # "closed",
         NEW pc \in {"idle", "dead"}, NEW state \in States
  PROVE  LET x == [Ends(r, pc) EXCEPT !.state = state] IN
         x \in Runs /\ RunOK(p, x, f, saved, opened, identified)
         /\ x.pc = pc /\ x.state = state /\ x.restores = r.restores
<1> DEFINE y == Ends(r, pc)
           x == [y EXCEPT !.state = state]
<1>1. y \in Runs /\ RunOK(p, y, f, saved, opened, identified) /\ y.pc = pc /\ y.restores = r.restores
  BY EndsOK
<1> HIDE DEF y
<1>2. x \in Runs
  BY <1>1 DEF Runs
<1>3. x.pc = pc /\ x.h = y.h /\ x.fp = y.fp /\ x.op = y.op /\ x.status = y.status /\ x.manual = y.manual
      /\ x.state = state /\ x.restores = r.restores
  BY <1>1 DEF Runs
<1> HIDE DEF x
<1>4. RunOK(p, x, f, saved, opened, identified)
  BY <1>1, <1>3, RestOK
<1> QED
  BY <1>2, <1>3, <1>4 DEF x, y

LEMMA ExpiredOK ==
  ASSUME NEW p, NEW r \in Runs, NEW f, NEW saved, NEW opened, NEW identified,
         RunOK(p, r, f, saved, opened, identified), r.pc # "closed",
         NEW pc \in {"idle", "dead"}
  PROVE  Expired(r, pc) \in Runs /\ RunOK(p, Expired(r, pc), f, saved, opened, identified)
         /\ Expired(r, pc).pc = pc /\ Expired(r, pc).state # "active" /\ Expired(r, pc).restores = r.restores
<1> DEFINE state == IF HasIdentity(r) THEN "recovery" ELSE "expired"
<1>1. state \in States /\ state # "active" /\ Expired(r, pc) = [Ends(r, pc) EXCEPT !.state = state]
  BY DEF States, Expired
<1> HIDE DEF state
<1> QED
  BY <1>1, EndsInOK

LEMMA ProbeOK ==
  ASSUME NEW p, NEW r \in Runs, NEW f, NEW saved, NEW opened, NEW identified,
         RunOK(p, r, f, saved, opened, identified), r.pc # "closed"
  PROVE  Probe(r) \in Runs /\ RunOK(p, Probe(r), f, saved, opened, identified)
BY EndsInOK DEF Probe, States

\* A run goes on with a write when it has the operation of its handoff.
LEMMA GoesOK ==
  ASSUME NEW p, NEW r \in Runs, NEW f, NEW saved, NEW opened, NEW identified,
         RunOK(p, r, f, saved, opened, identified), r.pc # "closed",
         NEW pc \in {"prepare", "intent", "start", "upload", "pending"},
         r.state = "active" => r.op = r.h /\ (pc # "prepare" => r.prepared = r.fp)
  PROVE  Goes(r, pc) \in Runs /\ RunOK(p, Goes(r, pc), f, saved, opened, identified)
<1>1. CASE r.state = "active" /\ Fresh(r)
  BY <1>1, NoneIsNoName DEF Goes, Runs, RunOK, Closed, Working, Writing, Waits
<1>2. CASE ~(r.state = "active" /\ Fresh(r))
  BY <1>2, ExpiredOK DEF Goes
<1> QED
  BY <1>1, <1>2

LEMMA ClaimingOK ==
  ASSUME NEW p, NEW r \in Runs, NEW f, NEW saved, NEW opened, NEW identified,
         RunOK(p, r, f, saved, opened, identified), r.pc # "closed",
         r.state = "active" => r.op = r.h
  PROVE  Claiming(r) \in Runs /\ RunOK(p, Claiming(r), f, saved, opened, identified)
<1>1. CASE r.status = "completed"
  <2> DEFINE x == Claiming(r)
  <2>1. x = [r EXCEPT !.pc = "saved", !.prepared = None]
    BY <1>1 DEF Claiming, ShowClaimSuccess, Ends
  <2>2. x \in Runs
    BY <2>1 DEF Runs
  <2>3. x.pc = "saved" /\ x.h = r.h /\ x.fp = r.fp /\ x.op = r.op /\ x.status = r.status /\ x.manual = r.manual
    BY <2>1 DEF Runs
  <2> HIDE DEF x
  <2>4. RunOK(p, x, f, saved, opened, identified)
    BY <1>1, <2>3 DEF RunOK, Closed, Writing
  <2> QED
    BY <2>2, <2>4 DEF x
<1>2. CASE r.status = "completion-pending" /\ r.manual # None
  BY <1>2, NoneIsNoName DEF Claiming, Runs, RunOK, Closed, Working, Writing, Waits
<1>3. CASE r.status \in {"finalize-pending", "expired"}
  BY <1>3, NoneIsNoName DEF Claiming, Runs, RunOK, Closed, Working, Writing, Waits
<1>4. CASE /\ r.status # "completed" /\ ~(r.status = "completion-pending" /\ r.manual # None)
           /\ r.status \notin {"finalize-pending", "expired"}
  <2>1. Claiming(r) = Goes(r, "prepare")
    BY <1>4 DEF Claiming
  <2> QED
    BY <2>1, GoesOK
<1> QED
  BY <1>1, <1>2, <1>3, <1>4

LEMMA RecoveredOK ==
  ASSUME NEW p, NEW r \in Runs, NEW f, NEW saved, NEW opened, NEW identified,
         RunOK(p, r, f, saved, opened, identified), r.pc = "recovery"
  PROVE  Recovered(r) \in Runs /\ RunOK(p, Recovered(r), f, saved, opened, identified)
<1>1. CASE r.state = "probe"
  BY <1>1, EndsOK DEF Recovered
<1>2. CASE r.state = "active"
  BY <1>2, NoneIsNoName DEF Recovered, Runs, RunOK, Closed, Working, Writing, Waits
<1>3. CASE r.state \notin {"probe", "active"}
  BY <1>3, ClaimingOK DEF Recovered
<1> QED
  BY <1>1, <1>2, <1>3

LEMMA NotFoundOK ==
  ASSUME NEW p, NEW r \in Runs, NEW f, NEW saved, NEW opened, NEW identified,
         RunOK(p, r, f, saved, opened, identified), r.pc = "recovery"
  PROVE  NotFound(r) \in Runs /\ RunOK(p, NotFound(r), f, saved, opened, identified)
<1> DEFINE x == Expired(r, "dead")
           y == [r EXCEPT !.state = "active"]
<1>1. x \in Runs /\ RunOK(p, x, f, saved, opened, identified) /\ x.pc = "dead" /\ x.state # "active"
  BY ExpiredOK
<1>2. y \in Runs /\ RunOK(p, y, f, saved, opened, identified) /\ y.pc = "recovery"
  BY DEF Runs, RunOK, Closed, States
<1>3. Recovered(r) \in Runs /\ RunOK(p, Recovered(r), f, saved, opened, identified)
  BY RecoveredOK
<1>4. NotFound(r) \in {Recovered(r), x, Claiming(x), Recovered(y)}
  BY DEF NotFound
<1> HIDE DEF x, y
<1>5. Claiming(x) \in Runs /\ RunOK(p, Claiming(x), f, saved, opened, identified)
  BY <1>1, ClaimingOK
<1>6. Recovered(y) \in Runs /\ RunOK(p, Recovered(y), f, saved, opened, identified)
  BY <1>2, RecoveredOK
<1> QED
  BY <1>1, <1>3, <1>4, <1>5, <1>6

LEMMA AdoptsOK ==
  ASSUME NEW p, NEW r \in Runs, NEW f, NEW saved, NEW opened, NEW identified,
         RunOK(p, r, f, saved, opened, identified), r.pc = "recovery", r.h \in Handoffs,
         NEW m \in Metas, MetaOK(r.h, m, f, saved), m.status \in Pending \cup {"completed"}
  PROVE  Adopts(r, m) \in Runs /\ RunOK(p, Adopts(r, m), f, saved, opened, identified)
<1> DEFINE state == IF m.status = "finalize-pending" /\ r.h \notin expired THEN "active" ELSE "recovery"
           x == [r EXCEPT !.op = m.op, !.fp = m.fp, !.status = m.status,
                          !.manual = IF m.manual # None THEN m.manual ELSE @, !.state = state]
<1>1. m.op = r.h /\ m.fp = f[r.h] /\ (m.manual # None => m.manual = r.h /\ r.h \in saved)
      /\ (m.status \in {"completion-pending", "completed"} => m.manual # None)
  BY DEF MetaOK, NoMeta, Pending
<1>2. x \in Runs /\ x.pc = "recovery"
  <2>1. m.op \in Operations \cup {None} /\ m.fp \in Contents \cup {None} /\ m.status \in Statuses
        /\ m.manual \in Operations \cup {None} /\ state \in States
    BY DEF Metas, Statuses, Pending, States
  <2> HIDE DEF state
  <2> QED
    BY <2>1 DEF Runs
<1>3. RunOK(p, x, f, saved, opened, identified)
  BY <1>1, NoneIsNoName DEF RunOK, Runs, Closed, Working, Writing
<1>4. Adopts(r, m) = Recovered(x)
  BY DEF Adopts
<1> HIDE DEF x, state
<1> QED
  BY <1>2, <1>3, <1>4, RecoveredOK

LEMMA AfterBeginOK ==
  ASSUME NEW p, NEW r \in Runs, NEW f, NEW saved, NEW opened, NEW identified,
         RunOK(p, r, f, saved, opened, identified), r.pc = "begin", r.h \in Handoffs
  PROVE  AfterBegin(r, r.h) \in Runs /\ RunOK(p, AfterBegin(r, r.h), f, saved, opened, identified)
<1> DEFINE x == [r EXCEPT !.op = r.h]
           y == [Ends(x, "dead") EXCEPT !.state = "expired"]
<1>1. x \in Runs /\ RunOK(p, x, f, saved, opened, identified) /\ x.pc = "begin" /\ x.op = x.h
  BY DEF Runs, RunOK, Closed, Operations, Working, Writing
<1>2. Ends(x, "dead") \in Runs /\ RunOK(p, Ends(x, "dead"), f, saved, opened, identified)
      /\ Ends(x, "dead").pc = "dead"
  BY <1>1, EndsOK DEF Ends, Runs
<1>3. y \in Runs /\ RunOK(p, y, f, saved, opened, identified)
  BY <1>2 DEF Runs, RunOK, Closed, States
<1>4. AfterBegin(r, r.h) \in {y, Claiming(x)}
  BY DEF AfterBegin
<1> HIDE DEF x, y
<1>5. Claiming(x) \in Runs /\ RunOK(p, Claiming(x), f, saved, opened, identified)
  BY <1>1, ClaimingOK
<1> QED
  BY <1>3, <1>4, <1>5

LEMMA ReadOK ==
  ASSUME NEW p, NEW r \in Runs, NEW f, NEW saved, NEW opened, NEW identified,
         RunOK(p, r, f, saved, opened, identified), r.pc # "closed"
  PROVE  Read(r) \in Runs /\ RunOK(p, Read(r), f, saved, opened, identified) /\ Read(r).pc = "idle"
         /\ Read(r).restores = r.restores
BY EndsOK, ExpiredOK DEF Read

\* Where a page that is loaded stops or goes on.
LEMMA LoadedOK ==
  ASSUME NEW p, NEW z \in Runs, NEW f, NEW saved, NEW opened, NEW identified,
         RunOK(p, z, f, saved, opened, identified), z.pc = "idle",
         NEW y, y = Probe(z) \/ y = [z EXCEPT !.pc = "dead"] \/ y = z
  PROVE  y \in Runs /\ RunOK(p, y, f, saved, opened, identified)
<1>1. Probe(z) \in Runs /\ RunOK(p, Probe(z), f, saved, opened, identified)
  BY ProbeOK
<1> DEFINE x == [z EXCEPT !.pc = "dead"]
<1>2. x \in Runs
  BY DEF Runs
<1>3. x.pc = "dead" /\ x.h = z.h /\ x.fp = z.fp /\ x.op = z.op /\ x.status = z.status /\ x.manual = z.manual
  BY DEF Runs
<1> HIDE DEF x
<1>4. RunOK(p, x, f, saved, opened, identified)
  BY <1>3, RestOK
<1> QED
  BY <1>1, <1>2, <1>4 DEF x

LEMMA LoadedBareOK ==
  ASSUME NEW p, NEW r \in Runs, NEW f, NEW saved, NEW opened, NEW identified,
         RunOK(p, r, f, saved, opened, identified), r.pc # "closed"
  PROVE  LoadedBare(r) \in Runs /\ RunOK(p, LoadedBare(r), f, saved, opened, identified)
<1> DEFINE x == Read(r)
           z == [x EXCEPT !.fragment = FALSE]
<1>1. x \in Runs /\ RunOK(p, x, f, saved, opened, identified) /\ x.pc = "idle"
  BY ReadOK
<1>2. LoadedBare(r) = Probe(z) \/ LoadedBare(r) = [z EXCEPT !.pc = "dead"] \/ LoadedBare(r) = z
  BY DEF LoadedBare
<1> HIDE DEF x
<1>3. z \in Runs
  BY <1>1 DEF Runs
<1>4. z.pc = "idle" /\ z.h = x.h /\ z.fp = x.fp /\ z.op = x.op /\ z.status = x.status /\ z.manual = x.manual
  BY <1>1 DEF Runs
<1> HIDE DEF z
<1>5. RunOK(p, z, f, saved, opened, identified)
  BY <1>1, <1>4, RestOK
<1> QED
  BY <1>2, <1>3, <1>4, <1>5, LoadedOK

LEMMA LoadedFragmentOK ==
  ASSUME NEW p, NEW r \in Runs, NEW f, NEW saved, NEW opened, NEW identified,
         RunOK(p, r, f, saved, opened, identified), r.pc # "closed", r.restores < MaxRestores
  PROVE  LoadedFragment(r) \in Runs /\ RunOK(p, LoadedFragment(r), f, saved, opened, identified)
<1> DEFINE x == Read(r)
           z == [x EXCEPT !.fragment = TRUE, !.restores = @ + 1]
<1>1. x \in Runs /\ RunOK(p, x, f, saved, opened, identified) /\ x.pc = "idle" /\ x.restores = r.restores
  BY ReadOK
<1>2. LoadedFragment(r) = Probe(z) \/ LoadedFragment(r) = [z EXCEPT !.pc = "dead"] \/ LoadedFragment(r) = z
  BY DEF LoadedFragment
<1> HIDE DEF x
<1>3. z \in Runs
  <2>1. x.restores + 1 \in 0..MaxRestores
    BY <1>1, NumberAssumption DEF Runs
  <2> QED
    BY <1>1, <2>1 DEF Runs
<1>4. z.pc = "idle" /\ z.h = x.h /\ z.fp = x.fp /\ z.op = x.op /\ z.status = x.status /\ z.manual = x.manual
  BY <1>1 DEF Runs
<1> HIDE DEF z
<1>5. RunOK(p, z, f, saved, opened, identified)
  BY <1>1, <1>4, RestOK
<1> QED
  BY <1>2, <1>3, <1>4, <1>5, LoadedOK

-----------------------------------------------------------------------------
(* What a step keeps of the invariant.                                     *)

\* A run stays sound while more is known.
LEMMA RunKept ==
  ASSUME NEW p, NEW r, NEW f, NEW saved, NEW opened, NEW identified,
         NEW saved2, NEW opened2, NEW identified2,
         RunOK(p, r, f, saved, opened, identified),
         saved \subseteq saved2, opened \subseteq opened2, r.pc = "claim" => r.h \in identified2
  PROVE  RunOK(p, r, f, saved2, opened2, identified2)
BY DEF RunOK

LEMMA MetaKept ==
  ASSUME NEW h, NEW m, NEW f, NEW saved, NEW saved2, MetaOK(h, m, f, saved), saved \subseteq saved2
  PROVE  MetaOK(h, m, f, saved2)
BY DEF MetaOK

\* Claims change as long as manuals stay, have the content of their handoff,
\* and are made where somebody claimed.
ClaimsGo(f) ==
  /\ CanonicalOperation' /\ ClaimsOK(f)' /\ Saved \subseteq Saved'
  /\ \A h \in Handoffs : Unclaimed(h) => h \notin Saved' /\ claim'[h].late = None

LEMMA ClaimsStay ==
  ASSUME NEW f, Held(f), UNCHANGED <<claim, meta, expired>>
  PROVE  ClaimsGo(f) /\ Saved' = Saved /\ Opened' = Opened /\ Identified' = Identified
BY DEF Held, ClaimsGo, ClaimsOK, ClaimOK, Saved, Opened, Identified, CanonicalOperation, Unclaimed

\* The run of q changes, with no message on its way.
Moves(q, f) ==
  /\ RunOK(q, page'[q], f, Saved', Opened, Identified)
  /\ \A h \in Handoffs : handler[h].page # q
  /\ page'[q].pc = "claim" => handler[page'[q].h] = NoHandler

\* A step of pages and the server.
LEMMA PageStep ==
  ASSUME Typed, NEW f, Held(f), UNCHANGED <<meta, expired, doomed, handler>>, ClaimsGo(f),
         \A q \in Pages : page'[q] = page[q] \/ Moves(q, f)
  PROVE  Held(f)'
<1>1. Opened' = Opened /\ Identified' = Identified /\ Saved \subseteq Saved'
  BY DEF Opened, Identified, ClaimsGo
<1>2. RunsOK(f)'
  <2> SUFFICES ASSUME NEW q \in Pages PROVE RunOK(q, page'[q], f, Saved', Opened', Identified')
    BY DEF RunsOK
  <2>1. CASE page'[q] = page[q]
    <3>1. RunOK(q, page[q], f, Saved, Opened, Identified)
      BY DEF Held, RunsOK
    <3>2. page[q].pc = "claim" => page[q].h \in Identified'
      BY <1>1, <3>1 DEF RunOK, Closed
    <3> QED
      BY <1>1, <2>1, <3>1, <3>2, RunKept
  <2>2. CASE Moves(q, f)
    BY <1>1, <2>2 DEF Moves
  <2> QED
    BY <2>1, <2>2
<1>3. MetasOK(f)'
  BY <1>1, MetaKept DEF Held, MetasOK
<1>4. MessagesOK(f)'
  <2> SUFFICES ASSUME NEW h \in Handoffs, handler[h] # NoHandler
               PROVE  MessageOK(h, handler[h], f)'
    BY DEF MessagesOK, MessageOK
  <2>1. MessageOK(h, handler[h], f)
    BY DEF Held, MessagesOK
  <2>2. handler[h].page # None =>
          page'[handler[h].page].h = h /\ page'[handler[h].page].pc = handler[h].kind
    BY <2>1, NoneIsNoName DEF MessageOK, Moves, Typed, Messages
  <2>3. Unclaimed(h) => Unclaimed(h)'
    <3> SUFFICES ASSUME Unclaimed(h) PROVE Unclaimed(h)'
      OBVIOUS
    <3>1. h \notin Saved' /\ claim'[h].late = None
      BY DEF ClaimsGo
    <3>2. ASSUME NEW q \in Pages, page'[q].h = h PROVE page'[q].pc # "claim"
      BY <3>2 DEF Unclaimed, Moves
    <3> QED
      BY <3>1, <3>2 DEF Unclaimed
  <2> QED
    BY <1>1, <2>1, <2>2, <2>3 DEF MessageOK
<1>5. AllDoomedOK'
  BY DEF Held, AllDoomedOK, DoomedOK
<1> QED
  BY <1>2, <1>3, <1>4, <1>5 DEF Held, ClaimsGo

\* The step of one page that the server has no part in.
LEMMA OnePageStep ==
  ASSUME Typed, NEW f, Held(f), UNCHANGED <<meta, expired, doomed, handler, claim>>,
         NEW p \in Pages, NEW r \in Runs, Becomes(p, r),
         RunOK(p, r, f, Saved, Opened, Identified),
         \A h \in Handoffs : handler[h].page # p,
         r.pc = "claim" => handler[r.h] = NoHandler
  PROVE  Held(f)' /\ page' \in [Pages -> Runs]
<1>1. ClaimsGo(f) /\ Saved' = Saved
  BY ClaimsStay
<1>2. page' \in [Pages -> Runs] /\ page'[p] = r /\ \A q \in Pages \ {p} : page'[q] = page[q]
  BY DEF Typed, Becomes
<1>3. Moves(p, f)
  BY <1>1, <1>2 DEF Moves
<1> QED
  BY <1>1, <1>2, <1>3, PageStep

\* No message is on its way for a page that waits for none, or whose handoff is free.
LEMMA NoMessage ==
  ASSUME Typed, NEW f, Held(f), NEW p \in Pages,
         page[p].pc \notin {"begin", "pending", "completed"} \/ Free(p)
  PROVE  \A h \in Handoffs : handler[h].page # p
<1> SUFFICES ASSUME NEW h \in Handoffs, handler[h].page = p PROVE FALSE
  OBVIOUS
<1>1. handler[h] # NoHandler
  BY NoneIsNoName DEF NoHandler
<1>2. page[p].h = h /\ page[p].pc = handler[h].kind /\ handler[h].kind \in {"begin", "pending", "completed"}
  BY <1>1, NoneIsNoName DEF Held, MessagesOK, MessageOK
<1> QED
  BY <1>1, <1>2 DEF Free

\* A message is taken, or goes on.
LEMMA MessageStep ==
  ASSUME Typed, NEW f, Held(f), UNCHANGED <<meta, expired, doomed, page, claim>>,
         NEW h \in Handoffs, NEW k \in Messages, handler' = [handler EXCEPT ![h] = k],
         MessageOK(h, k, f), handler[h] # NoHandler \/ meta[h].status \notin {"absent", "completed"}
  PROVE  Held(f)' /\ handler' \in [Handoffs -> Messages]
<1>1. ClaimsGo(f) /\ Saved' = Saved /\ Opened' = Opened /\ Identified' = Identified
  BY ClaimsStay
<1>2. handler' \in [Handoffs -> Messages] /\ handler'[h] = k
      /\ \A i \in Handoffs \ {h} : handler'[i] = handler[i]
  BY DEF Typed
<1>3. RunsOK(f)' /\ MetasOK(f)'
  BY <1>1 DEF Held, RunsOK, MetasOK
<1>4. MessagesOK(f)'
  <2>1. \A i \in Handoffs : Unclaimed(i)' <=> Unclaimed(i)
    BY <1>1 DEF Unclaimed
  <2> SUFFICES ASSUME NEW i \in Handoffs PROVE MessageOK(i, handler[i], f)'
    BY DEF MessagesOK
  <2>2. MessageOK(i, handler'[i], f)
    BY <1>2 DEF Held, MessagesOK
  <2> QED
    BY <1>1, <2>1, <2>2 DEF MessageOK
<1>5. AllDoomedOK'
  <2> SUFFICES ASSUME NEW e \in Editors, NEW d \in doomed[e] PROVE DoomedOK(d)'
    BY DEF AllDoomedOK
  <2>1. DoomedOK(d) /\ d[1] \in Handoffs
    BY DEF Held, AllDoomedOK, Typed
  <2> QED
    BY <1>2, <2>1 DEF DoomedOK
<1> QED
  BY <1>1, <1>2, <1>3, <1>4, <1>5 DEF Held, ClaimsGo

\* A message is answered or goes on, and its entry is as it was or is written.
\* Only the page that waits for it changes.
LEMMA WriteStep ==
  ASSUME Typed, NEW f, Held(f), UNCHANGED <<expired, doomed, claim>>,
         NEW h \in Handoffs, handler[h] # NoHandler,
         NEW m \in Metas, meta' = [meta EXCEPT ![h] = m], MetaOK(h, m, f, Saved),
         m = meta[h] \/ (m # NoMeta /\ (m.status # "new" \/ Unclaimed(h))),
         NEW k \in Messages, handler' = [handler EXCEPT ![h] = k],
         k = NoHandler \/ (MessageOK(h, k, f)' /\ page' = page),
         \A q \in Pages : \/ page'[q] = page[q]
                          \/ /\ q = handler[h].page /\ (page'[q].pc = "claim" => page'[q].h = h)
                             /\ RunOK(q, page'[q], f, Saved', Opened', Identified')
  PROVE  Held(f)'
<1>1. Saved' = Saved /\ (\A i \in Handoffs \ {h} : meta'[i] = meta[i] /\ handler'[i] = handler[i])
      /\ meta'[h] = m /\ handler'[h] = k
  BY DEF Saved, Typed
<1>2. MessageOK(h, handler[h], f) /\ h \in Opened
  BY DEF Held, MessagesOK, MessageOK
<1>3. Opened \subseteq Opened'
  BY <1>1, <1>2 DEF Opened
<1>4. ASSUME NEW i \in Handoffs, i \in Identified PROVE i \in Identified' \/ Unclaimed(i)
  <2>1. CASE i # h
    BY <1>1, <1>4, <2>1 DEF Identified
  <2>2. CASE i = h
    <3>1. m.status \in {"absent", "new", "completed"} \cup Pending
      BY DEF Metas
    <3>2. m # NoMeta => m.status # "absent"
      BY DEF MetaOK
    <3> QED
      BY <1>1, <1>4, <2>2, <3>1, <3>2 DEF Identified, NoMeta
  <2> QED
    BY <2>1, <2>2
<1>5. RunsOK(f)'
  <2> SUFFICES ASSUME NEW q \in Pages PROVE RunOK(q, page'[q], f, Saved', Opened', Identified')
    BY DEF RunsOK
  <2>1. CASE page'[q] = page[q]
    <3>1. RunOK(q, page[q], f, Saved, Opened, Identified)
      BY DEF Held, RunsOK
    <3>2. page[q].pc = "claim" => page[q].h \in Identified /\ ~Unclaimed(page[q].h)
      BY <3>1 DEF RunOK, Closed, Unclaimed
    <3>3. page[q].pc = "claim" => page[q].h \in Identified'
      BY <1>4, <3>2 DEF Identified
    <3> QED
      BY <1>1, <1>3, <2>1, <3>1, <3>3, RunKept
  <2> QED
    BY <2>1
<1>6. MetasOK(f)'
  BY <1>1 DEF Held, MetasOK
<1>7. MessagesOK(f)'
  <2> SUFFICES ASSUME NEW i \in Handoffs, i # h, handler[i] # NoHandler
               PROVE  MessageOK(i, handler[i], f)'
    BY <1>1 DEF MessagesOK, MessageOK
  <2>1. MessageOK(i, handler[i], f) /\ meta'[i] = meta[i]
    BY <1>1 DEF Held, MessagesOK
  <2>2. handler[i].page # None =>
          page'[handler[i].page].h = i /\ page'[handler[i].page].pc = handler[i].kind
    <3> SUFFICES ASSUME handler[i].page # None
                 PROVE  page'[handler[i].page] = page[handler[i].page]
      BY <2>1 DEF MessageOK
    <3>1. handler[i].page \in Pages /\ page[handler[i].page].h = i
      BY <2>1 DEF MessageOK, Typed, Messages
    <3>2. handler[h].page = handler[i].page => page[handler[i].page].h = h
      BY <1>2 DEF MessageOK
    <3> QED
      BY <3>1, <3>2
  <2>3. Unclaimed(i) => Unclaimed(i)'
    BY <1>1 DEF Unclaimed
  <2> QED
    BY <1>1, <1>3, <2>1, <2>2, <2>3 DEF MessageOK
<1>8. ClaimsOK(f)'
  <2> SUFFICES ASSUME NEW i \in Handoffs PROVE ClaimOK(i, f)'
    BY DEF ClaimsOK
  <2>1. ClaimOK(i, f)
    BY DEF Held, ClaimsOK
  <2>2. i \in Saved \/ claim[i].late # None => i \in Opened' \cap Identified'
    BY <1>3, <1>4, <2>1 DEF ClaimOK, Unclaimed
  <2> QED
    BY <1>1, <2>1, <2>2 DEF ClaimOK
<1>9. AllDoomedOK'
  <2> SUFFICES ASSUME NEW e \in Editors, NEW d \in doomed[e] PROVE DoomedOK(d)'
    BY DEF AllDoomedOK
  <2>1. DoomedOK(d) /\ d[1] \in Handoffs
    BY DEF Held, AllDoomedOK, Typed
  <2> QED
    BY <1>1, <2>1 DEF DoomedOK
<1> QED
  BY <1>5, <1>6, <1>7, <1>8, <1>9 DEF Held, CanonicalOperation

-----------------------------------------------------------------------------
(* The steps of a page.                                                    *)

\* What is known of the run of a page that is not closed.  A run that is sound
\* even if no handoff has its identity stored is not about to claim.
LEMMA PageFacts ==
  ASSUME Typed, NEW f, Held(f), NEW p \in Pages, page[p].pc # "closed"
  PROVE  /\ page[p] \in Runs /\ RunOK(p, page[p], f, Saved, Opened, Identified)
         /\ page[p].pc # "claim" => RunOK(p, page[p], f, Saved, Opened, {})
         /\ page[p].h \in Opened /\ page[p].h \in Handoffs /\ page[p].fp = f[page[p].h]
         /\ page[p].pc \in Working => page[p].op = page[p].h
         /\ MetaOK(page[p].h, Meta(p), f, Saved) /\ Meta(p) \in Metas
<1>1. page[p] \in Runs /\ RunOK(p, page[p], f, Saved, Opened, Identified) /\ page[p] # Closed
  BY DEF Typed, Held, RunsOK, Closed
<1>2. page[p].h \in Opened /\ page[p].h \in Handoffs /\ page[p].fp = f[page[p].h]
      /\ (page[p].pc \in Working => page[p].op = page[p].h)
  BY <1>1 DEF RunOK, Opened
<1>3. MetaOK(page[p].h, Meta(p), f, Saved) /\ Meta(p) \in Metas
  BY <1>2 DEF Typed, Held, MetasOK, Meta
<1>4. page[p].pc # "claim" => RunOK(p, page[p], f, Saved, Opened, {})
  BY <1>1, RunKept
<1> QED
  BY <1>1, <1>2, <1>3, <1>4

\* A run that is not about to claim is changed while nobody waits for its messages.
LEMMA QuietStep ==
  ASSUME Typed, NEW f, Held(f), UNCHANGED <<meta, expired, doomed, handler, claim>>,
         NEW p \in Pages, page[p].pc \notin {"begin", "pending", "completed"} \/ Free(p),
         NEW r, Becomes(p, r), r \in Runs, RunOK(p, r, f, Saved, Opened, {})
  PROVE  Held(f)' /\ page' \in [Pages -> Runs]
<1>1. r.pc # "claim" /\ RunOK(p, r, f, Saved, Opened, Identified)
  BY RunKept DEF RunOK, Closed
<1>2. \A h \in Handoffs : handler[h].page # p
  BY NoMessage
<1> QED
  BY <1>1, <1>2, OnePageStep

LEMMA ClickIs ==
  ASSUME Typed, NEW f, Held(f), NEW p \in Pages, Click(p)
  PROVE  Typed' /\ Held(f)'
<1>1. page[p].pc = "idle" /\ UNCHANGED <<draft, meta, expired, doomed, handler, snapshot, transfer, claim, faults>>
  BY DEF Click, At, extension
<1> DEFINE x == [page[p] EXCEPT !.pc = "recovery"]
           r == IF Usable(page[p]) THEN x ELSE Expired(page[p], "dead")
<1>2. page[p] \in Runs /\ RunOK(p, page[p], f, Saved, Opened, {}) /\ page[p].pc # "closed"
  BY <1>1, PageFacts
<1>3. x \in Runs
  BY <1>2 DEF Runs, Waits
<1>4. x.pc = "recovery" /\ x.h = page[p].h /\ x.fp = page[p].fp /\ x.op = page[p].op
      /\ x.status = page[p].status /\ x.manual = page[p].manual
  BY <1>2 DEF Runs
<1>5. Becomes(p, r)
  BY DEF Click
<1> HIDE DEF x
<1>6. RunOK(p, x, f, Saved, Opened, {})
  BY <1>2, <1>4, RestOK
<1>7. Expired(page[p], "dead") \in Runs /\ RunOK(p, Expired(page[p], "dead"), f, Saved, Opened, {})
  BY <1>2, ExpiredOK
<1>8. r \in Runs /\ RunOK(p, r, f, Saved, Opened, {})
  BY <1>3, <1>6, <1>7
<1> HIDE DEF r
<1>9. Held(f)' /\ page' \in [Pages -> Runs]
  BY <1>1, <1>5, <1>8, QuietStep
<1> QED
  BY <1>1, <1>9 DEF Typed

LEMMA RecoveryIs ==
  ASSUME Typed, NEW f, Held(f), NEW p \in Pages, Recovery(p)
  PROVE  Typed' /\ Held(f)'
<1>1. page[p].pc = "recovery" /\ UNCHANGED <<draft, meta, expired, doomed, handler, snapshot, transfer, claim, faults>>
  BY DEF Recovery, At, extension
<1> DEFINE r == page[p]
           m == Meta(p)
           t == IF m.status \in Pending \cup {"completed"} /\ m.op # None THEN Adopts(r, m) ELSE NotFound(r)
<1>2. r \in Runs /\ RunOK(p, r, f, Saved, Opened, {}) /\ r.pc = "recovery" /\ r.h \in Handoffs
      /\ m \in Metas /\ MetaOK(r.h, m, f, Saved)
  BY <1>1, PageFacts
<1>3. Becomes(p, t)
  BY DEF Recovery
<1> HIDE DEF r, m
<1>4. NotFound(r) \in Runs /\ RunOK(p, NotFound(r), f, Saved, Opened, {})
  BY <1>2, NotFoundOK
<1>5. m.status \in Pending \cup {"completed"} =>
        Adopts(r, m) \in Runs /\ RunOK(p, Adopts(r, m), f, Saved, Opened, {})
  BY <1>2, AdoptsOK
<1>6. t \in Runs /\ RunOK(p, t, f, Saved, Opened, {})
  BY <1>4, <1>5
<1> HIDE DEF t
<1>7. Held(f)' /\ page' \in [Pages -> Runs]
  BY <1>1, <1>3, <1>6, QuietStep
<1> QED
  BY <1>1, <1>7 DEF Typed

\* A page that learns of its manual goes on to tell the extension.
LEMMA CompletionOK ==
  ASSUME NEW p, NEW r \in Runs, NEW f, NEW saved, NEW opened, NEW identified,
         RunOK(p, r, f, saved, opened, identified), r.pc # "closed",
         NEW known, r.h \in known, r.op = r.h, r.h \in Handoffs
  PROVE  LET x == [r EXCEPT !.status = "completion-pending", !.manual = r.op, !.pc = "completed"]
         IN  x \in Runs /\ RunOK(p, x, f, known, opened, {})
<1> DEFINE x == [r EXCEPT !.status = "completion-pending", !.manual = r.op, !.pc = "completed"]
<1>1. x \in Runs
  BY DEF Runs, Waits, Statuses, Operations
<1>2. x.pc = "completed" /\ x.h = r.h /\ x.fp = r.fp /\ x.op = r.op /\ x.manual = r.h
  BY DEF Runs
<1> HIDE DEF x
<1>3. RunOK(p, x, f, known, opened, {})
  BY <1>2 DEF RunOK, Closed, Writing
<1> QED
  BY <1>1, <1>3 DEF x

LEMMA StatusIs ==
  ASSUME Typed, NEW f, Held(f), NEW p \in Pages, Status(p)
  PROVE  Typed' /\ Held(f)'
<1>1. page[p].pc = "status" /\ UNCHANGED <<draft, meta, expired, doomed, handler, snapshot, transfer, claim>>
      /\ faults' \in 0..MaxFaults
  BY NumberAssumption DEF Status, At, extension, Works, Fails, Typed
<1> DEFINE r == page[p]
           x == [r EXCEPT !.status = "completion-pending", !.manual = r.op, !.pc = "completed"]
           y == [r EXCEPT !.status = "expired"]
<1>2. r \in Runs /\ RunOK(p, r, f, Saved, Opened, {}) /\ r.h \in Handoffs /\ r.op = r.h /\ r.pc = "status"
  BY <1>1, PageFacts DEF Working
<1>3. PICK t : Becomes(p, t) /\
        \/ t = x /\ claim[r.op].status = "completed"
        \/ t \in {Goes(r, "prepare"), Ends(r, "idle"), Expired(y, "idle")}
  BY DEF Status
<1> HIDE DEF r
<1>4. claim[r.op].status = "completed" => x \in Runs /\ RunOK(p, x, f, Saved, Opened, {})
  BY <1>2, CompletionOK DEF Saved
<1>5. y \in Runs /\ RunOK(p, y, f, Saved, Opened, {}) /\ y.pc = "status"
  <2>1. y \in Runs
    BY <1>2 DEF Runs, Statuses
  <2>2. y.pc = "status" /\ y.h = r.h /\ y.fp = r.fp /\ y.op = r.op /\ y.manual = r.manual /\ y.status = "expired"
    BY <1>2 DEF Runs
  <2> HIDE DEF y
  <2>3. RunOK(p, y, f, Saved, Opened, {})
    BY <1>2, <2>2 DEF RunOK, Closed, Writing
  <2> QED
    BY <2>1, <2>2, <2>3
<1> HIDE DEF x, y
<1>6. Ends(r, "idle") \in Runs /\ RunOK(p, Ends(r, "idle"), f, Saved, Opened, {})
  BY <1>2, EndsOK
<1>7. Goes(r, "prepare") \in Runs /\ RunOK(p, Goes(r, "prepare"), f, Saved, Opened, {})
  BY <1>2, GoesOK
<1>8. Expired(y, "idle") \in Runs /\ RunOK(p, Expired(y, "idle"), f, Saved, Opened, {})
  BY <1>5, ExpiredOK
<1>9. t \in Runs /\ RunOK(p, t, f, Saved, Opened, {})
  BY <1>3, <1>4, <1>6, <1>7, <1>8
<1>10. Held(f)' /\ page' \in [Pages -> Runs]
  BY <1>1, <1>3, <1>9, QuietStep
<1> QED
  BY <1>1, <1>10 DEF Typed

\* What is prepared is the content that the handoff was opened for.
LEMMA PrepareIs ==
  ASSUME Typed, NEW f \in [Handoffs -> Contents], Held(f), NEW p \in Pages, Prepare(p)
  PROVE  Typed' /\ Held(f)'
<1>1. page[p].pc = "prepare" /\ UNCHANGED <<draft, meta, expired, doomed, handler, transfer, claim, faults>>
  BY DEF Prepare, At
<1> DEFINE r == page[p]
           x == [r EXCEPT !.prepared = draft.content]
<1>2. r \in Runs /\ RunOK(p, r, f, Saved, Opened, {}) /\ r.h \in Handoffs /\ r.op = r.h /\ r.pc = "prepare"
      /\ r.fp = f[r.h] /\ r.fp \in Contents
  BY <1>1, PageFacts DEF Working
<1>3. snapshot' \in [Handoffs -> Contents \cup {None}]
  BY <1>2 DEF Prepare, Typed
<1>4. PICK t : Becomes(p, t) /\
        \/ t \in {Goes(x, "start"), Goes(x, "intent")} /\ draft.content = r.fp
        \/ t = Ends(r, "idle")
  BY <1>2, NoneIsNoName DEF Prepare
<1> HIDE DEF r
<1>5. draft.content = r.fp => x \in Runs /\ RunOK(p, x, f, Saved, Opened, {}) /\ x.pc = "prepare"
                              /\ x.op = x.h /\ x.prepared = x.fp
  <2> SUFFICES ASSUME draft.content = r.fp
               PROVE  x \in Runs /\ RunOK(p, x, f, Saved, Opened, {}) /\ x.pc = "prepare"
                      /\ x.op = x.h /\ x.prepared = x.fp
    OBVIOUS
  <2>1. x \in Runs
    BY <1>2 DEF Runs
  <2>2. x.pc = "prepare" /\ x.h = r.h /\ x.fp = r.fp /\ x.op = r.op /\ x.manual = r.manual /\ x.status = r.status
        /\ x.prepared = r.fp
    BY <1>2 DEF Runs
  <2> HIDE DEF x
  <2>3. RunOK(p, x, f, Saved, Opened, {})
    BY <1>2, <2>2 DEF RunOK, Closed, Writing
  <2> QED
    BY <1>2, <2>1, <2>2, <2>3
<1> HIDE DEF x
<1>6. Ends(r, "idle") \in Runs /\ RunOK(p, Ends(r, "idle"), f, Saved, Opened, {})
  BY <1>2, EndsOK
<1>7. draft.content = r.fp => Goes(x, "start") \in Runs /\ RunOK(p, Goes(x, "start"), f, Saved, Opened, {})
  BY <1>5, GoesOK
<1>8. draft.content = r.fp => Goes(x, "intent") \in Runs /\ RunOK(p, Goes(x, "intent"), f, Saved, Opened, {})
  BY <1>5, GoesOK
<1>9. t \in Runs /\ RunOK(p, t, f, Saved, Opened, {})
  BY <1>4, <1>6, <1>7, <1>8
<1>10. Held(f)' /\ page' \in [Pages -> Runs]
  BY <1>1, <1>4, <1>9, QuietStep
<1> QED
  BY <1>1, <1>3, <1>10 DEF Typed

LEMMA StartAssetIs ==
  ASSUME Typed, NEW f, Held(f), NEW p \in Pages, StartAsset(p)
  PROVE  Typed' /\ Held(f)'
<1>1. page[p].pc = "start" /\ UNCHANGED <<draft, meta, expired, doomed, handler, snapshot, claim>>
  BY DEF StartAsset, At
<1> DEFINE r == page[p]
           x == [r EXCEPT !.pc = "chunk"]
<1>2. r \in Runs /\ RunOK(p, r, f, Saved, Opened, {}) /\ r.h \in Handoffs /\ r.pc = "start"
  BY <1>1, PageFacts
<1>3. transfer' \in [Handoffs -> BOOLEAN] /\ faults' \in 0..MaxFaults
  <2>1. transfer' = transfer \/ transfer' = [transfer EXCEPT ![r.h] = TRUE]
    BY DEF StartAsset, MaskAndEncode, CannotEncode
  <2>2. faults' = faults \/ Fails
    BY DEF StartAsset, MaskAndEncode, CannotEncode, Works
  <2>3. faults' \in 0..MaxFaults
    BY <2>2, NumberAssumption DEF Fails, Typed
  <2> QED
    BY <1>2, <2>1, <2>3 DEF Typed
<1>4. PICK t : Becomes(p, t) /\ (t = x \/ t = Ends(r, "idle"))
  BY DEF StartAsset
<1> HIDE DEF r
<1>5. x \in Runs
  BY <1>2 DEF Runs, Waits
<1>6. x.pc = "chunk" /\ x.h = r.h /\ x.fp = r.fp /\ x.op = r.op /\ x.manual = r.manual /\ x.status = r.status
      /\ x.prepared = r.prepared
  BY <1>2 DEF Runs
<1> HIDE DEF x
<1>7. RunOK(p, x, f, Saved, Opened, {})
  BY <1>2, <1>6 DEF RunOK, Closed, Working, Writing
<1>8. Ends(r, "idle") \in Runs /\ RunOK(p, Ends(r, "idle"), f, Saved, Opened, {})
  BY <1>2, EndsOK
<1>9. t \in Runs /\ RunOK(p, t, f, Saved, Opened, {})
  BY <1>4, <1>5, <1>7, <1>8
<1>10. Held(f)' /\ page' \in [Pages -> Runs]
  BY <1>1, <1>4, <1>9, QuietStep
<1> QED
  BY <1>1, <1>3, <1>10 DEF Typed

LEMMA AssetChunkIs ==
  ASSUME Typed, NEW f, Held(f), NEW p \in Pages, AssetChunk(p)
  PROVE  Typed' /\ Held(f)'
<1>1. page[p].pc = "chunk" /\ UNCHANGED <<draft, meta, expired, doomed, handler, snapshot, claim, faults>>
  BY DEF AssetChunk, At
<1> DEFINE r == page[p]
<1>2. r \in Runs /\ RunOK(p, r, f, Saved, Opened, {}) /\ r.h \in Handoffs /\ r.pc = "chunk"
      /\ r.op = r.h /\ r.prepared = r.fp
  BY <1>1, PageFacts DEF Working, Writing, RunOK, Closed
<1>3. transfer' \in [Handoffs -> BOOLEAN]
  BY <1>2 DEF AssetChunk, Typed, RemoveTransfer
<1>4. PICK t : Becomes(p, t) /\ (t = Goes(r, "upload") \/ t = Ends(r, "idle"))
  BY DEF AssetChunk
<1> HIDE DEF r
<1>5. Goes(r, "upload") \in Runs /\ RunOK(p, Goes(r, "upload"), f, Saved, Opened, {})
  BY <1>2, GoesOK
<1>6. Ends(r, "idle") \in Runs /\ RunOK(p, Ends(r, "idle"), f, Saved, Opened, {})
  BY <1>2, EndsOK
<1>7. t \in Runs /\ RunOK(p, t, f, Saved, Opened, {})
  BY <1>4, <1>5, <1>6
<1>8. Held(f)' /\ page' \in [Pages -> Runs]
  BY <1>1, <1>4, <1>7, QuietStep
<1> QED
  BY <1>1, <1>3, <1>8 DEF Typed

-----------------------------------------------------------------------------
(* The steps at the server.                                                *)

\* What the claim of h may become: its manual stays, and what is saved or on
\* its way is the content of the handoff, claimed by somebody.
ClaimMay(h, c, f) ==
  /\ c \in Claims /\ (h \in Saved => c.status = "completed")
  /\ c.status = "completed" => c.content = f[h]
  /\ c.late \in {None, f[h]}
  /\ c.status = "completed" \/ c.late # None => h \in Opened \cap Identified /\ ~Unclaimed(h)

LEMMA ClaimFacts ==
  ASSUME Typed, NEW f, Held(f), NEW h \in Handoffs
  PROVE  claim[h] \in Claims /\ ClaimOK(h, f) /\ ClaimMay(h, claim[h], f)
<1>1. claim[h] \in Claims /\ ClaimOK(h, f)
  BY DEF Typed, Held, ClaimsOK, Operations
<1> QED
  BY <1>1 DEF ClaimMay, ClaimOK, Saved, Unclaimed

\* An intent that is not completed yet changes in another way.
LEMMA IntentMay ==
  ASSUME Typed, NEW f, Held(f), NEW h \in Handoffs, NEW c \in Claims, h \notin Saved,
         c.status # "completed", c.late = claim[h].late
  PROVE  ClaimMay(h, c, f)
<1>1. ClaimMay(h, claim[h], f)
  BY ClaimFacts
<1> QED
  BY <1>1 DEF ClaimMay

\* The finalize route saves the content of the handoff.
Finalized(c, content) ==
  IF Accepts(c, content) THEN [c EXCEPT !.status = "completed", !.content = content] ELSE c

LEMMA FinalizedMay ==
  ASSUME Typed, NEW f \in [Handoffs -> Contents], Held(f), NEW h \in Handoffs,
         h \in Opened \cap Identified, ~Unclaimed(h)
  PROVE  /\ ClaimMay(h, Finalized(claim[h], f[h]), f)
         /\ ClaimMay(h, [Finalized(claim[h], f[h]) EXCEPT !.late = None], f)
         /\ ClaimMay(h, [claim[h] EXCEPT !.late = f[h]], f)
         /\ Accepts(claim[h], f[h]) => Finalized(claim[h], f[h]).status = "completed"
<1> DEFINE c == claim[h]
           content == f[h]
           d == [c EXCEPT !.status = "completed", !.content = content]
<1>1. c \in Claims /\ ClaimOK(h, f) /\ ClaimMay(h, c, f)
  BY ClaimFacts
<1>2. content \in Contents /\ (h \in Saved <=> c.status = "completed")
  BY DEF Saved
<1> HIDE DEF c, content
<1>3. d \in Claims /\ d.status = "completed" /\ d.content = content /\ d.late = c.late
  BY <1>1, <1>2 DEF Claims
<1> HIDE DEF d
<1>4. Finalized(c, content) = d \/ (Finalized(c, content) = c /\ ~Accepts(c, content))
  <2>1. CASE Accepts(c, content)
    BY <2>1, Zenon DEF Finalized, d
  <2>2. CASE ~Accepts(c, content)
    BY <2>2 DEF Finalized
  <2> QED
    BY <2>1, <2>2
<1>5. ClaimMay(h, d, f)
  BY <1>1, <1>3 DEF ClaimMay, content
<1>6. \A x \in {c, d} : /\ [x EXCEPT !.late = None] \in Claims /\ [x EXCEPT !.late = None].late = None
                        /\ [x EXCEPT !.late = None].status = x.status
                        /\ [x EXCEPT !.late = None].content = x.content
  BY <1>1, <1>3 DEF Claims
<1>7. \A x \in {c, d} : ClaimMay(h, [x EXCEPT !.late = None], f)
  BY <1>1, <1>5, <1>6 DEF ClaimMay
<1>8. [c EXCEPT !.late = content] \in Claims /\ [c EXCEPT !.late = content].late = content
      /\ [c EXCEPT !.late = content].status = c.status /\ [c EXCEPT !.late = content].content = c.content
  BY <1>1, <1>2 DEF Claims
<1>9. ClaimMay(h, [c EXCEPT !.late = content], f)
  BY <1>1, <1>8 DEF ClaimMay, content
<1> QED
  BY <1>1, <1>3, <1>4, <1>5, <1>7, <1>9 DEF c, content

LEMMA ClaimChange ==
  ASSUME Typed, NEW f, Held(f), UNCHANGED <<meta, expired>>,
         NEW h \in Handoffs, NEW c, ClaimMay(h, c, f), claim' = [claim EXCEPT ![h] = c]
  PROVE  ClaimsGo(f) /\ claim' \in [Operations -> Claims]
<1>1. claim' \in [Operations -> Claims] /\ claim'[h] = c
      /\ \A o \in Operations \ {h} : claim'[o] = claim[o]
  BY DEF Typed, ClaimMay, Operations
<1>2. Opened' = Opened /\ Identified' = Identified
  BY DEF Opened, Identified
<1>3. \A i \in Handoffs \ {h} : claim'[i] = claim[i] /\ (i \in Saved' <=> i \in Saved)
  BY <1>1 DEF Saved, Operations
<1>4. h \in Saved' <=> c.status = "completed"
  BY <1>1 DEF Saved
<1>5. Saved \subseteq Saved'
  BY <1>3, <1>4 DEF Saved, ClaimMay
<1>6. CanonicalOperation'
  BY <1>1, NamesAssumption DEF Held, CanonicalOperation, Operations
<1>7. ClaimsOK(f)'
  <2> SUFFICES ASSUME NEW i \in Handoffs PROVE ClaimOK(i, f)'
    BY DEF ClaimsOK
  <2>1. ClaimOK(i, f)
    BY DEF Held, ClaimsOK
  <2>2. CASE i # h
    BY <1>2, <1>3, <2>1, <2>2 DEF ClaimOK
  <2>3. CASE i = h
    BY <1>1, <1>2, <1>4, <2>3 DEF ClaimOK, ClaimMay
  <2> QED
    BY <2>2, <2>3
<1>8. ASSUME NEW i \in Handoffs, Unclaimed(i) PROVE i \notin Saved' /\ claim'[i].late = None
  <2>1. CASE i # h
    BY <1>3, <1>8, <2>1 DEF Unclaimed
  <2>2. CASE i = h
    BY <1>1, <1>4, <1>8, <2>2 DEF ClaimMay
  <2> QED
    BY <2>1, <2>2
<1> QED
  BY <1>1, <1>5, <1>6, <1>7, <1>8 DEF ClaimsGo

\* One page and the claim of its handoff.
LEMMA PageClaimStep ==
  ASSUME Typed, NEW f, Held(f), UNCHANGED <<meta, expired, doomed, handler>>,
         NEW p \in Pages, page[p].pc \notin {"begin", "pending", "completed"},
         NEW r \in Runs, Becomes(p, r),
         NEW h \in Handoffs, NEW c, ClaimMay(h, c, f), claim' = [claim EXCEPT ![h] = c],
         \/ RunOK(p, r, f, Saved, Opened, {})
         \/ c.status = "completed" /\ RunOK(p, r, f, Saved \cup {h}, Opened, {})
  PROVE  Held(f)' /\ page' \in [Pages -> Runs] /\ claim' \in [Operations -> Claims]
<1>1. ClaimsGo(f) /\ claim' \in [Operations -> Claims]
  BY ClaimChange
<1>2. page' \in [Pages -> Runs] /\ page'[p] = r /\ \A q \in Pages \ {p} : page'[q] = page[q]
  BY DEF Typed, Becomes
<1>3. Saved \subseteq Saved' /\ (c.status = "completed" => h \in Saved')
  BY DEF Saved, ClaimMay, Typed, Operations
<1>4. r.pc # "claim"
  BY DEF RunOK, Closed
<1>5. RunOK(p, r, f, Saved', Opened, Identified)
  BY <1>3, <1>4, RunKept
<1>6. Moves(p, f)
  BY <1>2, <1>4, <1>5, NoMessage DEF Moves
<1> QED
  BY <1>1, <1>2, <1>6, PageStep

LEMMA IntentIs ==
  ASSUME Typed, NEW f, Held(f), NEW p \in Pages, Intent(p)
  PROVE  Typed' /\ Held(f)'
<1>1. page[p].pc = "intent" /\ UNCHANGED <<draft, meta, expired, doomed, handler, snapshot, transfer>>
      /\ faults' \in 0..MaxFaults
  BY NumberAssumption DEF Intent, At, extension, Works, Fails, Typed
<1> DEFINE r == page[p]
           x == [r EXCEPT !.status = "uploading", !.fp = r.prepared]
           c == [claim[r.h] EXCEPT !.status = IF @ = "none" THEN "pending" ELSE @]
<1>2. r \in Runs /\ RunOK(p, r, f, Saved, Opened, {}) /\ r.h \in Handoffs /\ r.op = r.h /\ r.pc = "intent"
      /\ r.prepared = r.fp
  BY <1>1, PageFacts DEF Working, Writing, RunOK, Closed
<1>3. PICK t : Becomes(p, t) /\ (t = Goes(x, "start") \/ t = Ends(r, "idle"))
  BY DEF Intent
<1>4. claim' = claim \/ claim' = [claim EXCEPT ![r.h] = c]
  BY <1>2 DEF Intent
<1> HIDE DEF r
<1>5. x \in Runs /\ RunOK(p, x, f, Saved, Opened, {}) /\ x.pc = "intent" /\ x.op = x.h /\ x.prepared = x.fp
  <2>1. x \in Runs
    BY <1>2 DEF Runs, Statuses
  <2>2. x.pc = "intent" /\ x.h = r.h /\ x.fp = r.fp /\ x.op = r.op /\ x.manual = r.manual /\ x.status = "uploading"
        /\ x.prepared = r.prepared
    BY <1>2 DEF Runs
  <2> HIDE DEF x
  <2>3. RunOK(p, x, f, Saved, Opened, {})
    BY <1>2, <2>2 DEF RunOK, Closed, Writing
  <2> QED
    BY <1>2, <2>1, <2>2, <2>3
<1> HIDE DEF x
<1>6. Goes(x, "start") \in Runs /\ RunOK(p, Goes(x, "start"), f, Saved, Opened, {})
  BY <1>5, GoesOK
<1>7. Ends(r, "idle") \in Runs /\ RunOK(p, Ends(r, "idle"), f, Saved, Opened, {})
  BY <1>2, EndsOK
<1>8. t \in Runs /\ RunOK(p, t, f, Saved, Opened, {})
  BY <1>3, <1>6, <1>7
<1>9. ClaimMay(r.h, c, f)
  <2>1. claim[r.h] \in Claims /\ ClaimMay(r.h, claim[r.h], f)
    BY <1>2, ClaimFacts
  <2>2. CASE claim[r.h].status = "none"
    <3>1. c \in Claims /\ c.status = "pending" /\ c.late = claim[r.h].late
      BY <2>1, <2>2 DEF Claims
    <3> HIDE DEF c
    <3> QED
      BY <1>2, <2>2, <3>1, IntentMay DEF Saved
  <2>3. CASE claim[r.h].status # "none"
    <3>1. c = claim[r.h]
      BY <2>1, <2>3 DEF Claims
    <3> QED
      BY <2>1, <3>1
  <2> QED
    BY <2>2, <2>3
<1> HIDE DEF c
<1>10. PICK d : ClaimMay(r.h, d, f) /\ claim' = [claim EXCEPT ![r.h] = d]
  <2>1. ClaimMay(r.h, claim[r.h], f) /\ claim = [claim EXCEPT ![r.h] = claim[r.h]]
    BY <1>2, ClaimFacts DEF Typed
  <2> QED
    BY <1>4, <1>9, <2>1
<1>11. Held(f)' /\ page' \in [Pages -> Runs] /\ claim' \in [Operations -> Claims]
  BY <1>1, <1>2, <1>3, <1>8, <1>10, PageClaimStep DEF r
<1> QED
  BY <1>1, <1>11 DEF Typed

LEMMA UploadIs ==
  ASSUME Typed, NEW f, Held(f), NEW p \in Pages, Upload(p)
  PROVE  Typed' /\ Held(f)'
<1>1. page[p].pc = "upload" /\ UNCHANGED <<draft, meta, expired, doomed, handler, snapshot, transfer>>
  BY DEF Upload, At, extension
<1> DEFINE r == page[p]
           c == [claim[r.h] EXCEPT !.staged = TRUE]
<1>2. r \in Runs /\ RunOK(p, r, f, Saved, Opened, {}) /\ r.h \in Handoffs /\ r.op = r.h /\ r.pc = "upload"
      /\ r.prepared = r.fp
  BY <1>1, PageFacts DEF Working, Writing, RunOK, Closed
<1>3. PICK t : Becomes(p, t) /\ (t = Goes(r, "pending") \/ t = Ends(r, "idle"))
  BY DEF Upload
<1>4. claim' = claim \/ (claim[r.h].status = "pending" /\ claim' = [claim EXCEPT ![r.h] = c])
  <2>1. \/ claim' = claim
        \/ claim[r.op].status = "pending" /\ claim' = [claim EXCEPT ![r.op].staged = TRUE]
    BY DEF Upload
  <2>2. [claim EXCEPT ![r.op].staged = TRUE] = [claim EXCEPT ![r.h] = c]
    BY <1>2
  <2> HIDE DEF c
  <2> QED
    BY <1>2, <2>1, <2>2
<1>5. faults' \in 0..MaxFaults
  <2>1. faults' = faults \/ Fails
    BY DEF Upload, Works
  <2> QED
    BY <2>1, NumberAssumption DEF Fails, Typed
<1> HIDE DEF r
<1>6. Goes(r, "pending") \in Runs /\ RunOK(p, Goes(r, "pending"), f, Saved, Opened, {})
  BY <1>2, GoesOK
<1>7. Ends(r, "idle") \in Runs /\ RunOK(p, Ends(r, "idle"), f, Saved, Opened, {})
  BY <1>2, EndsOK
<1>8. t \in Runs /\ RunOK(p, t, f, Saved, Opened, {})
  BY <1>3, <1>6, <1>7
<1>9. claim[r.h].status = "pending" => ClaimMay(r.h, c, f)
  <2> SUFFICES ASSUME claim[r.h].status = "pending" PROVE ClaimMay(r.h, c, f)
    OBVIOUS
  <2>1. claim[r.h] \in Claims
    BY <1>2, ClaimFacts
  <2>2. c \in Claims /\ c.status = "pending" /\ c.late = claim[r.h].late
    BY <2>1 DEF Claims
  <2> HIDE DEF c
  <2> QED
    BY <1>2, <2>2, IntentMay DEF Saved
<1> HIDE DEF c
<1>10. PICK d : ClaimMay(r.h, d, f) /\ claim' = [claim EXCEPT ![r.h] = d]
  <2>1. ClaimMay(r.h, claim[r.h], f) /\ claim = [claim EXCEPT ![r.h] = claim[r.h]]
    BY <1>2, ClaimFacts DEF Typed
  <2> QED
    BY <1>4, <1>9, <2>1
<1>11. Held(f)' /\ page' \in [Pages -> Runs] /\ claim' \in [Operations -> Claims]
  BY <1>1, <1>2, <1>3, <1>8, <1>10, PageClaimStep DEF r
<1> QED
  BY <1>1, <1>5, <1>11 DEF Typed

LEMMA FinalizeIs ==
  ASSUME Typed, NEW f \in [Handoffs -> Contents], Held(f), NEW p \in Pages, Finalize(p)
  PROVE  Typed' /\ Held(f)'
<1>1. page[p].pc = "claim" /\ UNCHANGED <<draft, meta, expired, doomed, handler, snapshot, transfer>>
  BY DEF Finalize, At, extension
<1> DEFINE r == page[p]
           x == [r EXCEPT !.status = "completion-pending", !.manual = r.op, !.pc = "completed"]
           c == Finalized(claim[r.h], f[r.h])
           late == [claim[r.h] EXCEPT !.late = f[r.h]]
<1>2. r \in Runs /\ RunOK(p, r, f, Saved, Opened, Identified) /\ r.h \in Handoffs /\ r.op = r.h /\ r.pc = "claim"
      /\ r.prepared = f[r.h] /\ r.h \in Opened \cap Identified
  BY <1>1, PageFacts DEF Working, Writing, RunOK, Closed
<1>3. Saves(r.op, ClaimManualForWeb(r)) = [claim EXCEPT ![r.h] = c]
  BY <1>2 DEF Saves, ClaimManualForWeb, Finalized
<1>4. \/ /\ Becomes(p, x) /\ claim' = [claim EXCEPT ![r.h] = c] /\ Accepts(claim[r.h], f[r.h])
      \/ /\ Becomes(p, Ends(r, "idle"))
         /\ claim' \in {claim, [claim EXCEPT ![r.h] = c], [claim EXCEPT ![r.h] = late]}
  <2>1. CASE Works /\ claim' = Saves(r.op, ClaimManualForWeb(r))
             /\ Becomes(p, IF Confirmed(r) THEN x ELSE Ends(r, "idle"))
    <3>1. Confirmed(r) <=> Accepts(claim[r.h], f[r.h])
      BY <1>2 DEF Confirmed, ClaimManualForWeb
    <3> QED
      BY <1>3, <2>1, <3>1 DEF Confirmed, Accepts
  <2>2. CASE /\ claim' \in {claim, Saves(r.op, ClaimManualForWeb(r)), [claim EXCEPT ![r.op].late = ClaimManualForWeb(r)]}
             /\ Becomes(p, Ends(r, "idle"))
    <3>1. [claim EXCEPT ![r.op].late = ClaimManualForWeb(r)] = [claim EXCEPT ![r.h] = late]
      BY <1>2 DEF ClaimManualForWeb
    <3> QED
      BY <1>3, <2>2, <3>1
  <2> QED
    BY <2>1, <2>2 DEF Finalize
<1>5. faults' \in 0..MaxFaults
  <2>1. faults' = faults \/ Fails
    BY DEF Finalize, Works
  <2> QED
    BY <2>1, NumberAssumption DEF Fails, Typed
<1>6. ~Unclaimed(r.h)
  BY <1>2 DEF Unclaimed
<1> HIDE DEF r, x, late, c
<1>7. ClaimMay(r.h, claim[r.h], f) /\ claim = [claim EXCEPT ![r.h] = claim[r.h]]
  BY <1>2, ClaimFacts DEF Typed
<1>8. ClaimMay(r.h, c, f) /\ ClaimMay(r.h, late, f) /\ (Accepts(claim[r.h], f[r.h]) => c.status = "completed")
  BY <1>2, <1>6, FinalizedMay DEF c, late
<1>9. Ends(r, "idle") \in Runs /\ RunOK(p, Ends(r, "idle"), f, Saved, Opened, {})
  <2>1. Ends(r, "idle") \in Runs /\ RunOK(p, Ends(r, "idle"), f, Saved, Opened, Identified) /\ Ends(r, "idle").pc = "idle"
    BY <1>2, EndsOK
  <2> QED
    BY <2>1, RunKept
<1>10. x \in Runs /\ RunOK(p, x, f, Saved \cup {r.h}, Opened, {})
  BY <1>2, CompletionOK DEF x
<1>11. Held(f)' /\ page' \in [Pages -> Runs] /\ claim' \in [Operations -> Claims]
  <2>1. CASE Becomes(p, x) /\ claim' = [claim EXCEPT ![r.h] = c] /\ c.status = "completed"
    BY <1>1, <1>2, <1>8, <1>10, <2>1, PageClaimStep DEF r
  <2>2. CASE Becomes(p, Ends(r, "idle"))
    <3>1. PICK d : ClaimMay(r.h, d, f) /\ claim' = [claim EXCEPT ![r.h] = d]
      BY <1>4, <1>7, <1>8
    <3> QED
      BY <1>1, <1>2, <1>9, <2>2, <3>1, PageClaimStep DEF r
  <2> QED
    BY <1>4, <1>8, <2>1, <2>2
<1> QED
  BY <1>1, <1>5, <1>11 DEF Typed

LEMMA LateFinalizeIs ==
  ASSUME Typed, NEW f \in [Handoffs -> Contents], Held(f), NEW o \in Operations, LateFinalize(o)
  PROVE  Typed' /\ Held(f)'
<1>1. claim[o].late # None /\ UNCHANGED <<draft, meta, expired, doomed, handler, snapshot, transfer, page, faults>>
  BY DEF LateFinalize, extension
<1>2. o \in Handoffs
  BY <1>1 DEF Held, CanonicalOperation, NoClaim, Operations
<1>3. claim[o].late = f[o] /\ o \in Opened \cap Identified /\ ~Unclaimed(o)
  BY <1>1, <1>2 DEF Held, ClaimsOK, ClaimOK, Unclaimed
<1> DEFINE c == [Finalized(claim[o], f[o]) EXCEPT !.late = None]
<1>4. claim' = [claim EXCEPT ![o] = c]
  <2>1. Saves(o, claim[o].late) = [claim EXCEPT ![o] = Finalized(claim[o], f[o])]
    BY <1>3 DEF Saves, Finalized
  <2> QED
    BY <2>1 DEF LateFinalize, Typed
<1>5. ClaimMay(o, c, f)
  BY <1>2, <1>3, FinalizedMay
<1> HIDE DEF c
<1>6. ClaimsGo(f) /\ claim' \in [Operations -> Claims]
  BY <1>1, <1>2, <1>4, <1>5, ClaimChange
<1>7. Held(f)'
  BY <1>1, <1>6, PageStep
<1> QED
  BY <1>1, <1>6, <1>7 DEF Typed

LEMMA ExpireIntentIs ==
  ASSUME Typed, NEW f, Held(f), NEW h \in Handoffs, ExpireIntent(h)
  PROVE  Typed' /\ Held(f)'
<1>1. claim[h].status = "pending" /\ UNCHANGED <<draft, meta, expired, doomed, handler, snapshot, transfer, page, faults>>
  BY DEF ExpireIntent, extension
<1> DEFINE c == [claim[h] EXCEPT !.status = "expired"]
<1>2. claim' = [claim EXCEPT ![h] = c]
  BY DEF ExpireIntent
<1>3. claim[h] \in Claims
  BY ClaimFacts
<1>4. c \in Claims /\ c.status = "expired" /\ c.late = claim[h].late
  BY <1>3 DEF Claims
<1> HIDE DEF c
<1>5. ClaimMay(h, c, f)
  BY <1>1, <1>4, IntentMay DEF Saved
<1>6. ClaimsGo(f) /\ claim' \in [Operations -> Claims]
  BY <1>1, <1>2, <1>5, ClaimChange
<1>7. Held(f)'
  BY <1>1, <1>6, PageStep
<1> QED
  BY <1>1, <1>6, <1>7 DEF Typed

-----------------------------------------------------------------------------
(* The messages that write.                                                *)

\* As long as an entry has no identity nobody claims for its handoff.
LEMMA NewIsUnclaimed ==
  ASSUME Typed, NEW f, Held(f), NEW h \in Handoffs, meta[h].status = "new"
  PROVE  Unclaimed(h)
<1>1. h \notin Identified
  BY DEF Identified, NoMeta, Pending
<1>2. h \notin Saved /\ claim[h].late = None
  BY <1>1 DEF Held, ClaimsOK, ClaimOK
<1>3. ASSUME NEW p \in Pages, page[p].h = h PROVE page[p].pc # "claim"
  <2>1. RunOK(p, page[p], f, Saved, Opened, Identified)
    BY DEF Held, RunsOK
  <2> QED
    BY <1>1, <1>3, <2>1 DEF RunOK, Closed
<1> QED
  BY <1>2, <1>3 DEF Unclaimed

\* A page that waits has its message taken.
LEMMA TakesOK ==
  ASSUME Typed, NEW f, Held(f), UNCHANGED <<meta, expired, doomed, page, claim>>,
         NEW p \in Pages, page[p].h \in Handoffs, page[p].h \in Opened, Free(p),
         NEW kind \in {"begin", "pending", "completed"}, page[p].pc = kind,
         NEW step \in {"write", "expect"}, NEW seen \in Metas, Takes(p, kind, step, seen),
         seen.fp = f[page[p].h], seen.op = page[p].h,
         \/ /\ kind = "begin" /\ seen.status = "new" /\ seen.manual = None
            /\ Meta(p).status = "new"
         \/ /\ kind = "pending" /\ seen.status = "finalize-pending" /\ seen.manual = None
            /\ Meta(p).status = "new"
         \/ /\ kind = "completed" /\ seen.status = "completion-pending" /\ seen.manual = page[p].h
            /\ Meta(p).status \in Pending /\ page[p].h \in Saved
  PROVE  Held(f)' /\ handler' \in [Handoffs -> Messages]
<1> DEFINE k == [kind |-> kind, step |-> step, page |-> p, seen |-> seen, expected |-> None]
<1>1. k \in Messages /\ handler' = [handler EXCEPT ![page[p].h] = k]
  BY DEF Messages, Takes
<1>2. k.kind = kind /\ k.page = p /\ k.seen = seen /\ k.expected = None
  OBVIOUS
<1> HIDE DEF k
<1>3. Meta(p).status = "new" => Unclaimed(page[p].h)
  BY NewIsUnclaimed DEF Meta
<1>4. MessageOK(page[p].h, k, f)
  BY <1>2, <1>3 DEF MessageOK, Meta
<1>5. meta[page[p].h].status \notin {"absent", "completed"}
  BY DEF Meta, Pending
<1> QED
  BY <1>1, <1>4, <1>5, MessageStep

LEMMA BeginReadIs ==
  ASSUME Typed, NEW f, Held(f), NEW p \in Pages, BeginRead(p)
  PROVE  Typed' /\ Held(f)'
<1>1. page[p].pc = "begin" /\ Free(p)
      /\ UNCHANGED <<draft, meta, expired, doomed, snapshot, transfer, claim, faults>>
  BY DEF BeginRead, At
<1> DEFINE r == page[p]
           m == Meta(p)
           seen == [m EXCEPT !.op = r.h]
<1>2. r \in Runs /\ RunOK(p, r, f, Saved, Opened, {}) /\ r.pc = "begin" /\ r.h \in Handoffs /\ r.h \in Opened
      /\ m \in Metas /\ MetaOK(r.h, m, f, Saved)
  BY <1>1, PageFacts
<1>3. \/ Becomes(p, Ends(r, "idle")) /\ UNCHANGED handler
      \/ m # NoMeta /\ m.op # None /\ Becomes(p, AfterBegin(r, m.op)) /\ UNCHANGED handler
      \/ m # NoMeta /\ m.op = None /\ Takes(p, "begin", "write", seen) /\ UNCHANGED page
  <2>1. CASE m = NoMeta
    BY <2>1 DEF BeginRead, NoMeta
  <2>2. CASE m # NoMeta /\ m.op # None
    BY <2>2 DEF BeginRead
  <2>3. CASE m # NoMeta /\ m.op = None /\ r.h \in expired
    BY <2>3 DEF BeginRead
  <2>4. CASE m # NoMeta /\ m.op = None /\ r.h \notin expired
    BY <2>4 DEF BeginRead
  <2> QED
    BY <2>1, <2>2, <2>3, <2>4
<1> HIDE DEF r, m
<1>4. CASE Becomes(p, Ends(r, "idle")) /\ UNCHANGED handler
  <2>1. Ends(r, "idle") \in Runs /\ RunOK(p, Ends(r, "idle"), f, Saved, Opened, {})
    BY <1>2, EndsOK
  <2>2. Held(f)' /\ page' \in [Pages -> Runs]
    BY <1>1, <1>4, <2>1, QuietStep
  <2> QED
    BY <1>1, <1>4, <2>2 DEF Typed
<1>5. CASE m # NoMeta /\ m.op # None /\ Becomes(p, AfterBegin(r, m.op)) /\ UNCHANGED handler
  <2>1. m.op = r.h
    BY <1>2, <1>5 DEF MetaOK
  <2>2. AfterBegin(r, r.h) \in Runs /\ RunOK(p, AfterBegin(r, r.h), f, Saved, Opened, {})
    BY <1>2, AfterBeginOK
  <2>3. Held(f)' /\ page' \in [Pages -> Runs]
    BY <1>1, <1>5, <2>1, <2>2, QuietStep
  <2> QED
    BY <1>1, <1>5, <2>3 DEF Typed
<1>6. CASE m # NoMeta /\ m.op = None /\ Takes(p, "begin", "write", seen) /\ UNCHANGED page
  <2>1. m.status = "new" /\ m.manual = None /\ m.fp = f[r.h]
    BY <1>2, <1>6, NoneIsNoName DEF MetaOK
  <2>2. seen \in Metas /\ seen.op = r.h /\ seen.status = "new" /\ seen.manual = None /\ seen.fp = f[r.h]
    BY <1>2, <2>1 DEF Metas, Operations
  <2> HIDE DEF seen
  <2>3. Held(f)' /\ handler' \in [Handoffs -> Messages]
    BY <1>1, <1>2, <1>6, <2>1, <2>2, TakesOK DEF r, m
  <2> QED
    BY <1>1, <1>6, <2>3 DEF Typed
<1> QED
  BY <1>3, <1>4, <1>5, <1>6

\* A page whose identity is stored may claim.
LEMMA PendingStoredOK ==
  ASSUME NEW p, NEW r \in Runs, NEW f, NEW saved, NEW opened, NEW identified,
         RunOK(p, r, f, saved, opened, identified), r.pc = "pending",
         NEW stored, r.h \in stored
  PROVE  /\ PendingStored(r) \in Runs /\ RunOK(p, PendingStored(r), f, saved, opened, stored)
         /\ PendingStored(r).h = r.h
<1> DEFINE x == PendingStored(r)
<1>1. x \in Runs
  BY DEF PendingStored, Runs, Waits, Statuses
<1>2. x.pc = "claim" /\ x.h = r.h /\ x.fp = r.fp /\ x.op = r.op /\ x.manual = r.manual
      /\ x.status = "finalize-pending" /\ x.prepared = r.prepared
  BY DEF PendingStored, Runs
<1> HIDE DEF x
<1>3. RunOK(p, x, f, saved, opened, stored)
  BY <1>2 DEF RunOK, Closed, Working, Writing
<1> QED
  BY <1>1, <1>2, <1>3 DEF x

\* A page is shown its manual when there is one.
LEMMA CompletedStoredOK ==
  ASSUME NEW p, NEW r \in Runs, NEW f, NEW saved, NEW opened, NEW identified,
         RunOK(p, r, f, saved, opened, identified), r.pc = "completed"
  PROVE  CompletedStored(r) \in Runs /\ RunOK(p, CompletedStored(r), f, saved, opened, {})
<1> DEFINE y == Ends(r, "saved")
           x == [y EXCEPT !.status = "completed"]
<1>1. y \in Runs /\ y.pc = "saved" /\ y.h = r.h /\ y.fp = r.fp /\ y.op = r.op /\ y.manual = r.manual
  BY DEF Ends, Runs, Statuses
<1>2. CompletedStored(r) = x
  BY DEF CompletedStored, ShowClaimSuccess
<1> HIDE DEF y
<1>3. x \in Runs
  BY <1>1 DEF Runs, Statuses
<1>4. x.pc = "saved" /\ x.h = r.h /\ x.fp = r.fp /\ x.op = r.op /\ x.manual = r.manual
  BY <1>1 DEF Runs
<1> HIDE DEF x
<1>5. RunOK(p, x, f, saved, opened, {})
  BY <1>4 DEF RunOK, Closed, Working, Writing
<1> QED
  BY <1>2, <1>3, <1>5

LEMMA PendingReadIs ==
  ASSUME Typed, NEW f, Held(f), NEW p \in Pages, PendingRead(p)
  PROVE  Typed' /\ Held(f)'
<1>1. page[p].pc = "pending" /\ Free(p)
      /\ UNCHANGED <<draft, meta, expired, doomed, snapshot, transfer, claim, faults>>
  BY DEF PendingRead, At
<1> DEFINE r == page[p]
           m == Meta(p)
           seen == [m EXCEPT !.status = "finalize-pending", !.op = r.op]
<1>2. r \in Runs /\ RunOK(p, r, f, Saved, Opened, Identified) /\ r.pc = "pending" /\ r.h \in Handoffs /\ r.h \in Opened
      /\ RunOK(p, r, f, Saved, Opened, {}) /\ r.op = r.h
      /\ m \in Metas /\ MetaOK(r.h, m, f, Saved)
  BY <1>1, PageFacts DEF Working
<1>3. \/ Becomes(p, Ends(r, "idle")) /\ UNCHANGED handler
      \/ m # NoMeta /\ m.status # "new" /\ Becomes(p, PendingStored(r)) /\ UNCHANGED handler
      \/ m # NoMeta /\ m.status = "new" /\ Takes(p, "pending", "write", seen) /\ UNCHANGED page
  <2>1. CASE m = NoMeta \/ OtherIdentity(m, r)
    BY <2>1 DEF PendingRead, NoMeta
  <2>2. CASE m # NoMeta /\ ~OtherIdentity(m, r) /\ m.status # "new"
    BY <2>2 DEF PendingRead
  <2>3. CASE m # NoMeta /\ ~OtherIdentity(m, r) /\ m.status = "new" /\ r.h \in expired
    BY <2>3 DEF PendingRead
  <2>4. CASE m # NoMeta /\ ~OtherIdentity(m, r) /\ m.status = "new" /\ r.h \notin expired
    BY <2>4 DEF PendingRead
  <2> QED
    BY <2>1, <2>2, <2>3, <2>4
<1>4. m = meta[r.h] /\ handler[r.h] = NoHandler
  BY <1>1 DEF Meta, Free
<1> HIDE DEF m
<1>5. CASE Becomes(p, Ends(r, "idle")) /\ UNCHANGED handler
  <2> HIDE DEF r
  <2>1. Ends(r, "idle") \in Runs /\ RunOK(p, Ends(r, "idle"), f, Saved, Opened, {})
    BY <1>2, EndsOK
  <2>2. Held(f)' /\ page' \in [Pages -> Runs]
    BY <1>1, <1>5, <2>1, QuietStep
  <2> QED
    BY <1>1, <1>5, <2>2 DEF Typed
<1>6. CASE m # NoMeta /\ m.status # "new" /\ Becomes(p, PendingStored(r)) /\ UNCHANGED handler
  <2>1. r.h \in Identified
    BY <1>2, <1>4, <1>6 DEF MetaOK, Metas, Identified
  <2>2. \A h \in Handoffs : handler[h].page # p
    BY <1>1, NoMessage
  <2> HIDE DEF r
  <2>3. PendingStored(r) \in Runs /\ RunOK(p, PendingStored(r), f, Saved, Opened, Identified)
        /\ PendingStored(r).h = r.h
    BY <1>2, <2>1, PendingStoredOK
  <2>4. Held(f)' /\ page' \in [Pages -> Runs]
    BY <1>1, <1>4, <1>6, <2>2, <2>3, OnePageStep
  <2> QED
    BY <1>1, <1>6, <2>4 DEF Typed
<1>7. CASE m # NoMeta /\ m.status = "new" /\ Takes(p, "pending", "write", seen) /\ UNCHANGED page
  <2>1. m.manual = None /\ m.fp = f[r.h]
    BY <1>2, <1>7, NoneIsNoName DEF MetaOK
  <2> HIDE DEF r
  <2>2. seen \in Metas /\ seen.op = r.h /\ seen.status = "finalize-pending" /\ seen.manual = None /\ seen.fp = f[r.h]
    BY <1>2, <2>1 DEF Metas, Operations, Pending
  <2> HIDE DEF seen
  <2>3. Held(f)' /\ handler' \in [Handoffs -> Messages]
    BY <1>1, <1>2, <1>4, <1>7, <2>1, <2>2, TakesOK DEF r, Meta
  <2> QED
    BY <1>1, <1>7, <2>3 DEF Typed
<1> QED
  BY <1>3, <1>5, <1>6, <1>7

LEMMA CompletedReadIs ==
  ASSUME Typed, NEW f, Held(f), NEW p \in Pages, CompletedRead(p)
  PROVE  Typed' /\ Held(f)'
<1>1. page[p].pc = "completed" /\ Free(p)
      /\ UNCHANGED <<draft, meta, expired, doomed, snapshot, transfer, claim, faults>>
  BY DEF CompletedRead, At
<1> DEFINE r == page[p]
           m == Meta(p)
           seen == [m EXCEPT !.status = "completion-pending", !.manual = r.manual]
<1>2. r \in Runs /\ RunOK(p, r, f, Saved, Opened, {}) /\ r.pc = "completed" /\ r.h \in Handoffs /\ r.h \in Opened
      /\ r.op = r.h /\ m \in Metas /\ MetaOK(r.h, m, f, Saved) /\ m = meta[r.h]
  BY <1>1, PageFacts DEF Working, Meta
<1>3. PICK step \in {"write", "expect"} :
      \/ Becomes(p, Ends(r, "idle")) /\ UNCHANGED handler
      \/ Becomes(p, CompletedStored(r)) /\ UNCHANGED handler
      \/ m # NoMeta /\ m.status # "completed" /\ Takes(p, "completed", step, seen) /\ UNCHANGED page
  <2>1. CASE m = NoMeta \/ Mismatch(m, r)
    BY <2>1 DEF CompletedRead, NoMeta
  <2>2. CASE m # NoMeta /\ ~Mismatch(m, r) /\ m.status = "completed"
    BY <2>2 DEF CompletedRead
  <2>3. CASE m # NoMeta /\ ~Mismatch(m, r) /\ m.status = "new" /\ r.h \in expired
    BY <2>3 DEF CompletedRead
  <2>4. CASE m # NoMeta /\ ~Mismatch(m, r) /\ m.status # "completed" /\ ~(m.status = "new" /\ r.h \in expired)
    BY <2>4 DEF CompletedRead
  <2> QED
    BY <2>1, <2>2, <2>3, <2>4
<1>4. r.h \in Saved /\ r.manual = r.h
  BY <1>2 DEF RunOK, Closed
<1> HIDE DEF m
<1>5. CASE Becomes(p, Ends(r, "idle")) /\ UNCHANGED handler
  <2> HIDE DEF r
  <2>1. Ends(r, "idle") \in Runs /\ RunOK(p, Ends(r, "idle"), f, Saved, Opened, {})
    BY <1>2, EndsOK
  <2>2. Held(f)' /\ page' \in [Pages -> Runs]
    BY <1>1, <1>5, <2>1, QuietStep
  <2> QED
    BY <1>1, <1>5, <2>2 DEF Typed
<1>6. CASE Becomes(p, CompletedStored(r)) /\ UNCHANGED handler
  <2> HIDE DEF r
  <2>1. CompletedStored(r) \in Runs /\ RunOK(p, CompletedStored(r), f, Saved, Opened, {})
    BY <1>2, CompletedStoredOK
  <2>2. Held(f)' /\ page' \in [Pages -> Runs]
    BY <1>1, <1>6, <2>1, QuietStep
  <2> QED
    BY <1>1, <1>6, <2>2 DEF Typed
<1>7. CASE m # NoMeta /\ m.status # "completed" /\ Takes(p, "completed", step, seen) /\ UNCHANGED page
  <2>1. r.h \in Identified
    BY <1>2, <1>4 DEF Held, ClaimsOK, ClaimOK
  <2>2. m.status \in Pending /\ m.op = r.h /\ m.fp = f[r.h]
    BY <1>2, <1>7, <2>1 DEF MetaOK, Identified, Pending
  <2> HIDE DEF r
  <2>3. seen \in Metas /\ seen.op = r.h /\ seen.status = "completion-pending" /\ seen.manual = r.h /\ seen.fp = f[r.h]
    BY <1>2, <1>4, <2>2 DEF Metas, Operations, Pending
  <2> HIDE DEF seen
  <2>4. Held(f)' /\ handler' \in [Handoffs -> Messages]
    BY <1>1, <1>2, <1>4, <1>7, <2>2, <2>3, TakesOK DEF r, Meta
  <2> QED
    BY <1>1, <1>7, <2>4 DEF Typed
<1> QED
  BY <1>3, <1>5, <1>6, <1>7

\* What is known of a message that is being handled.
LEMMA MessageFacts ==
  ASSUME Typed, NEW f, Held(f), NEW h \in Handoffs, handler[h].kind # "none"
  PROVE  /\ handler[h] # NoHandler /\ handler[h] \in Messages /\ handler[h].seen \in Metas
         /\ MessageOK(h, handler[h], f) /\ h \in Opened /\ meta[h] \in Metas /\ MetaOK(h, meta[h], f, Saved)
         /\ handler[h].page # None =>
              LET p == handler[h].page IN
              /\ p \in Pages /\ page[p] \in Runs /\ page[p].h = h /\ page[p].pc = handler[h].kind
              /\ RunOK(p, page[p], f, Saved, Opened, Identified)
<1>1. handler[h] # NoHandler /\ handler[h] \in Messages /\ handler[h].seen \in Metas /\ MessageOK(h, handler[h], f)
      /\ meta[h] \in Metas /\ MetaOK(h, meta[h], f, Saved)
  BY DEF Typed, Held, MessagesOK, MetasOK, NoHandler, Messages
<1>2. h \in Opened /\ (handler[h].page # None => page[handler[h].page].h = h /\ page[handler[h].page].pc = handler[h].kind)
  BY <1>1 DEF MessageOK
<1>3. handler[h].page # None => handler[h].page \in Pages
  BY <1>1 DEF Messages
<1> QED
  BY <1>1, <1>2, <1>3 DEF Typed, Held, RunsOK

\* A message is answered to the page that waits, or to none.
LEMMA AnswerStep ==
  ASSUME Typed, NEW f, Held(f), UNCHANGED <<expired, doomed, claim>>,
         NEW h \in Handoffs, handler[h].kind # "none",
         NEW m \in Metas, meta' = [meta EXCEPT ![h] = m], MetaOK(h, m, f, Saved),
         m = meta[h] \/ (m # NoMeta /\ (m.status # "new" \/ Unclaimed(h))),
         NEW r, Answers(h, r),
         handler[h].page # None =>
           /\ r \in Runs /\ (r.pc = "claim" => r.h = h)
           /\ RunOK(handler[h].page, r, f, Saved, Opened, Identified')
  PROVE  Held(f)' /\ meta' \in [Handoffs -> Metas] /\ handler' \in [Handoffs -> Messages]
         /\ page' \in [Pages -> Runs]
<1>1. handler[h] # NoHandler /\ h \in Opened /\ (handler[h].page # None => handler[h].page \in Pages)
  BY MessageFacts
<1>2. handler' = [handler EXCEPT ![h] = NoHandler]
  BY DEF Answers
<1>3. handler' \in [Handoffs -> Messages] /\ meta' \in [Handoffs -> Metas]
  BY <1>2, ClosedRuns DEF Typed
<1>4. Saved' = Saved /\ Opened \subseteq Opened'
  BY <1>1 DEF Saved, Opened, Typed
<1>5. page' = page \/ (handler[h].page # None /\ page' = [page EXCEPT ![handler[h].page] = r])
  BY DEF Answers, Becomes
<1>6. page' \in [Pages -> Runs]
  BY <1>1, <1>5 DEF Typed
<1>7. ASSUME NEW q \in Pages
      PROVE  \/ page'[q] = page[q]
             \/ /\ q = handler[h].page /\ (page'[q].pc = "claim" => page'[q].h = h)
                /\ RunOK(q, page'[q], f, Saved', Opened', Identified')
  <2>1. CASE q # handler[h].page \/ page' = page
    BY <1>5, <2>1 DEF Typed
  <2>2. CASE q = handler[h].page /\ page' # page
    <3>1. page'[q] = r /\ handler[h].page # None
      BY <1>5, <2>2 DEF Typed
    <3>2. RunOK(q, r, f, Saved, Opened, Identified')
      BY <2>2, <3>1
    <3>3. RunOK(q, r, f, Saved', Opened', Identified')
      BY <1>4, <3>2, RunKept DEF RunOK, Closed
    <3> QED
      BY <2>2, <3>1, <3>3
  <2> QED
    BY <2>1, <2>2
<1>8. Held(f)'
  BY <1>1, <1>2, <1>7, ClosedRuns, WriteStep
<1> QED
  BY <1>3, <1>6, <1>8

LEMMA BeginWriteIs ==
  ASSUME Typed, NEW f, Held(f), NEW h \in Handoffs, BeginWrite(h)
  PROVE  Typed' /\ Held(f)'
<1> DEFINE p == handler[h].page
           m == handler[h].seen
           r == IF p = None THEN Closed ELSE AfterBegin(page[p], h)
<1>1. handler[h].kind = "begin" /\ meta' = [meta EXCEPT ![h] = m] /\ Answers(h, r)
      /\ UNCHANGED <<draft, expired, doomed, snapshot, transfer, claim, faults>>
  BY DEF BeginWrite
<1>2. m \in Metas /\ m.fp = f[h] /\ m.op = h /\ m.status = "new" /\ m.manual = None /\ Unclaimed(h)
  BY <1>1, MessageFacts DEF MessageOK, NoHandler
<1>3. MetaOK(h, m, f, Saved) /\ m # NoMeta
  BY <1>2 DEF MetaOK, NoMeta
<1>4. p # None => /\ r \in Runs /\ r.pc # "claim"
                  /\ RunOK(p, r, f, Saved, Opened, Identified')
  <2> SUFFICES ASSUME p # None
               PROVE  r \in Runs /\ r.pc # "claim" /\ RunOK(p, r, f, Saved, Opened, Identified')
    OBVIOUS
  <2>1. page[p] \in Runs /\ page[p].h = h /\ page[p].pc = "begin" /\ RunOK(p, page[p], f, Saved, Opened, Identified)
    BY <1>1, MessageFacts
  <2>2. RunOK(p, page[p], f, Saved, Opened, {})
    BY <2>1, RunKept
  <2>3. r = AfterBegin(page[p], page[p].h)
    BY <2>1
  <2> HIDE DEF r, p
  <2>4. r \in Runs /\ RunOK(p, r, f, Saved, Opened, {})
    BY <2>1, <2>2, <2>3, AfterBeginOK
  <2>5. r.pc # "claim"
    BY <2>4 DEF RunOK, Closed
  <2> QED
    BY <2>4, <2>5, RunKept
<1> HIDE DEF r, m
<1>5. /\ Held(f)' /\ meta' \in [Handoffs -> Metas] /\ handler' \in [Handoffs -> Messages]
      /\ page' \in [Pages -> Runs]
  BY <1>1, <1>2, <1>3, <1>4, AnswerStep
<1> QED
  BY <1>1, <1>5 DEF Typed

LEMMA PendingWriteIs ==
  ASSUME Typed, NEW f, Held(f), NEW h \in Handoffs, PendingWrite(h)
  PROVE  Typed' /\ Held(f)'
<1> DEFINE p == handler[h].page
           m == handler[h].seen
           r == IF p = None THEN Closed ELSE PendingStored(page[p])
<1>1. handler[h].kind = "pending" /\ meta' = [meta EXCEPT ![h] = m] /\ Answers(h, r)
      /\ UNCHANGED <<draft, expired, doomed, snapshot, transfer, claim, faults>>
  BY DEF PendingWrite
<1>2. m \in Metas /\ m.fp = f[h] /\ m.op = h /\ m.status = "finalize-pending" /\ m.manual = None
  BY <1>1, MessageFacts DEF MessageOK, NoHandler
<1>3. MetaOK(h, m, f, Saved) /\ m # NoMeta
  BY <1>2 DEF MetaOK, NoMeta
<1>4. h \in Identified'
  BY <1>1, <1>2 DEF Identified, Pending, Typed
<1>5. p # None => /\ r \in Runs /\ r.h = h
                  /\ RunOK(p, r, f, Saved, Opened, Identified')
  <2> SUFFICES ASSUME p # None
               PROVE  r \in Runs /\ r.h = h /\ RunOK(p, r, f, Saved, Opened, Identified')
    OBVIOUS
  <2>1. page[p] \in Runs /\ page[p].h = h /\ page[p].pc = "pending" /\ RunOK(p, page[p], f, Saved, Opened, Identified)
    BY <1>1, MessageFacts
  <2>2. r = PendingStored(page[p])
    OBVIOUS
  <2> HIDE DEF r, p
  <2> QED
    BY <1>4, <2>1, <2>2, PendingStoredOK
<1> HIDE DEF r, m
<1>6. /\ Held(f)' /\ meta' \in [Handoffs -> Metas] /\ handler' \in [Handoffs -> Messages]
      /\ page' \in [Pages -> Runs]
  BY <1>1, <1>2, <1>3, <1>5, AnswerStep
<1> QED
  BY <1>1, <1>6 DEF Typed

LEMMA CompletedFinishIs ==
  ASSUME Typed, NEW f, Held(f), NEW h \in Handoffs, CompletedFinish(h)
  PROVE  Typed' /\ Held(f)'
<1> DEFINE p == handler[h].page
           s == handler[h].seen
           m == [s EXCEPT !.status = "completed"]
           r == IF p = None THEN Closed ELSE CompletedStored(page[p])
<1>1. handler[h].kind = "completed" /\ meta' = [meta EXCEPT ![h] = m] /\ Answers(h, r)
      /\ UNCHANGED <<draft, expired, doomed, claim, faults>>
      /\ transfer' = [transfer EXCEPT ![h] = FALSE] /\ snapshot' = [snapshot EXCEPT ![h] = None]
  BY DEF CompletedFinish, Completion, ClearClaimRuntime, RemoveTransfer
<1>2. s \in Metas /\ s.fp = f[h] /\ s.op = h /\ s.manual = h /\ h \in Saved
  BY <1>1, MessageFacts DEF MessageOK, NoHandler
<1> HIDE DEF s
<1>3. m \in Metas /\ m.fp = f[h] /\ m.op = h /\ m.manual = h /\ m.status = "completed"
  BY <1>2 DEF Metas
<1> HIDE DEF m
<1>4. MetaOK(h, m, f, Saved) /\ m # NoMeta
  BY <1>2, <1>3, NoneIsNoName DEF MetaOK, NoMeta
<1>5. p # None => /\ r \in Runs /\ r.pc # "claim"
                  /\ RunOK(p, r, f, Saved, Opened, Identified')
  <2> SUFFICES ASSUME p # None
               PROVE  r \in Runs /\ r.pc # "claim" /\ RunOK(p, r, f, Saved, Opened, Identified')
    OBVIOUS
  <2>1. page[p] \in Runs /\ page[p].pc = "completed" /\ RunOK(p, page[p], f, Saved, Opened, Identified)
    BY <1>1, MessageFacts
  <2>2. r = CompletedStored(page[p])
    OBVIOUS
  <2> HIDE DEF r, p
  <2>3. r \in Runs /\ RunOK(p, r, f, Saved, Opened, {})
    BY <2>1, <2>2, CompletedStoredOK
  <2>4. r.pc # "claim"
    BY <2>3 DEF RunOK, Closed
  <2> QED
    BY <2>3, <2>4, RunKept
<1> HIDE DEF r
<1>6. /\ Held(f)' /\ meta' \in [Handoffs -> Metas] /\ handler' \in [Handoffs -> Messages]
      /\ page' \in [Pages -> Runs]
  BY <1>1, <1>3, <1>4, <1>5, AnswerStep
<1> QED
  BY <1>1, <1>6 DEF Typed

\* A message that fails is answered, and its entry is as it was.
LEMMA StoreFailsIs ==
  ASSUME Typed, NEW f, Held(f), NEW h \in Handoffs, StoreFails(h)
  PROVE  Typed' /\ Held(f)'
<1> DEFINE p == handler[h].page
           r == IF p = None THEN Closed ELSE Ends(page[p], "idle")
<1>1. handler[h] # NoHandler /\ Answers(h, r) /\ faults' \in 0..MaxFaults
      /\ UNCHANGED <<draft, meta, expired, doomed, snapshot, transfer, claim>>
  BY NumberAssumption DEF StoreFails, Fails, Typed
<1>2. handler[h].kind # "none"
  BY <1>1 DEF Held, MessagesOK, MessageOK
<1>3. meta[h] \in Metas /\ MetaOK(h, meta[h], f, Saved) /\ meta' = [meta EXCEPT ![h] = meta[h]]
  BY <1>1, <1>2, MessageFacts DEF Typed
<1>4. p # None => /\ r \in Runs /\ r.pc # "claim"
                  /\ RunOK(p, r, f, Saved, Opened, Identified')
  <2> SUFFICES ASSUME p # None
               PROVE  r \in Runs /\ r.pc # "claim" /\ RunOK(p, r, f, Saved, Opened, Identified')
    OBVIOUS
  <2>1. page[p] \in Runs /\ page[p].pc \in {"begin", "pending", "completed"} /\ RunOK(p, page[p], f, Saved, Opened, Identified)
    <3>1. handler[h].kind \in {"begin", "pending", "completed"}
      BY <1>2 DEF Typed, Messages
    <3> QED
      BY <1>2, <3>1, MessageFacts
  <2>2. r = Ends(page[p], "idle")
    OBVIOUS
  <2> HIDE DEF r, p
  <2>3. r \in Runs /\ RunOK(p, r, f, Saved, Opened, Identified) /\ r.pc = "idle"
    BY <2>1, <2>2, EndsOK
  <2> QED
    BY <2>3, RunKept
<1> HIDE DEF r
<1>5. /\ Held(f)' /\ meta' \in [Handoffs -> Metas] /\ handler' \in [Handoffs -> Messages]
      /\ page' \in [Pages -> Runs]
  BY <1>1, <1>2, <1>3, <1>4, AnswerStep
<1> QED
  BY <1>1, <1>5 DEF Typed

LEMMA CompletedWriteIs ==
  ASSUME Typed, NEW f, Held(f), NEW h \in Handoffs, CompletedWrite(h)
  PROVE  Typed' /\ Held(f)'
<1>0. PICK m, k : m = handler[h].seen /\ k = [handler[h] EXCEPT !.step = "expect", !.expected = None]
  OBVIOUS
<1>1. handler[h].kind = "completed" /\ meta' = [meta EXCEPT ![h] = m] /\ handler' = [handler EXCEPT ![h] = k]
      /\ UNCHANGED <<draft, expired, doomed, snapshot, transfer, page, claim, faults>>
  BY <1>0 DEF CompletedWrite, Completion, Continues
<1>2. handler[h] \in Messages /\ handler[h] # NoHandler /\ MessageOK(h, handler[h], f)
  BY <1>1, MessageFacts
<1>3. m \in Metas /\ m.fp = f[h] /\ m.op = h /\ m.status = "completion-pending" /\ m.manual = h /\ h \in Saved
  BY <1>0, <1>1, <1>2 DEF MessageOK, Messages
<1>4. MetaOK(h, m, f, Saved) /\ m # NoMeta
  BY <1>3, NoneIsNoName DEF MetaOK, NoMeta
<1>5. k \in Messages
  BY <1>0, <1>2 DEF Messages
<1>6. k.kind = "completed" /\ k.page = handler[h].page /\ k.seen = m /\ k.expected = None
  BY <1>0, <1>1, <1>2 DEF Messages
<1>7. meta'[h] = m /\ h \in Saved' /\ h \in Opened'
  BY <1>1, <1>3, <1>4 DEF Typed, Saved, Opened
<1>8. k.page # None => page'[k.page].h = h /\ page'[k.page].pc = k.kind
  BY <1>1, <1>2, <1>6 DEF MessageOK
<1>9. MessageOK(h, k, f)'
  BY <1>3, <1>6, <1>7, <1>8 DEF MessageOK, Pending
<1>10. Held(f)'
  BY <1>1, <1>2, <1>3, <1>4, <1>5, <1>9, WriteStep
<1>11. meta' \in [Handoffs -> Metas] /\ handler' \in [Handoffs -> Messages]
  BY <1>1, <1>3, <1>5 DEF Typed
<1> QED
  BY <1>1, <1>10, <1>11 DEF Typed

\* The draft is compared with what the handoff was opened for, and deleted.
LEMMA ContinuesOK ==
  ASSUME Typed, NEW f, Held(f), NEW h \in Handoffs, Completion(h),
         UNCHANGED <<meta, expired, doomed, page, claim>>,
         NEW step \in {"expect", "delete", "finish"}, NEW expected \in Contents \cup {None},
         expected \in {None, f[h]}, Continues(h, step, expected)
  PROVE  Held(f)' /\ handler' \in [Handoffs -> Messages]
<1> DEFINE k == [handler[h] EXCEPT !.step = step, !.expected = expected]
<1>1. handler[h] \in Messages /\ handler[h] # NoHandler /\ MessageOK(h, handler[h], f)
  BY MessageFacts DEF Completion
<1>2. k \in Messages
  BY <1>1 DEF Messages
<1>3. k.kind = handler[h].kind /\ k.page = handler[h].page /\ k.seen = handler[h].seen /\ k.expected = expected
  BY <1>1 DEF Messages
<1>4. handler' = [handler EXCEPT ![h] = k]
  BY DEF Continues
<1> HIDE DEF k
<1>5. MessageOK(h, k, f)
  BY <1>1, <1>3 DEF MessageOK
<1> QED
  BY <1>1, <1>2, <1>4, <1>5, MessageStep

LEMMA ExpectIs ==
  ASSUME Typed, NEW f, Held(f), NEW h \in Handoffs, Expect(h)
  PROVE  Typed' /\ Held(f)'
<1>1. Completion(h) /\ UNCHANGED <<draft, meta, expired, doomed, snapshot, transfer, page, claim, faults>>
  BY DEF Expect
<1>2. handler[h].seen.fp = f[h]
  BY <1>1, MessageFacts DEF Completion, MessageOK
<1>3. \/ draft.content = f[h] /\ draft.content \in Contents \cup {None} /\ Continues(h, "delete", draft.content)
      \/ Continues(h, "finish", None)
  BY <1>2 DEF Expect, Fingerprint, Typed
<1>4. Held(f)' /\ handler' \in [Handoffs -> Messages]
  BY <1>1, <1>3, ContinuesOK
<1> QED
  BY <1>1, <1>4 DEF Typed

LEMMA DeleteDraftIs ==
  ASSUME Typed, NEW f, Held(f), NEW h \in Handoffs, DeleteDraft(h)
  PROVE  Typed' /\ Held(f)'
<1>1. Completion(h) /\ Continues(h, "finish", None)
      /\ UNCHANGED <<meta, expired, doomed, snapshot, transfer, page, claim, faults>>
  BY DEF DeleteDraft
<1>2. Held(f)' /\ handler' \in [Handoffs -> Messages]
  BY <1>1, ContinuesOK
<1>3. draft' \in [content : Contents \cup {None}, version : 0..MaxVersion]
  BY DEF DeleteDraft, Typed
<1> QED
  BY <1>1, <1>2, <1>3 DEF Typed

-----------------------------------------------------------------------------
(* The tab, the worker and the editor.                                     *)

LEMMA ClickBareIs ==
  ASSUME Typed, NEW f, Held(f), NEW p \in Pages, ClickBare(p)
  PROVE  Typed' /\ Held(f)'
<1> DEFINE r == page[p]
<1>1. r.pc = "idle" /\ UNCHANGED <<draft, meta, expired, doomed, handler, snapshot, transfer, claim, faults>>
  BY DEF ClickBare, At, extension
<1>2. r \in Runs /\ RunOK(p, r, f, Saved, Opened, {})
  BY <1>1, PageFacts
<1>3. \/ r.restores < MaxRestores /\ Becomes(p, LoadedFragment(r))
      \/ Becomes(p, Expired(r, "dead"))
  BY DEF ClickBare, MayReturn
<1> HIDE DEF r
<1>4. r.restores < MaxRestores => LoadedFragment(r) \in Runs /\ RunOK(p, LoadedFragment(r), f, Saved, Opened, {})
  BY <1>1, <1>2, LoadedFragmentOK
<1>5. Expired(r, "dead") \in Runs /\ RunOK(p, Expired(r, "dead"), f, Saved, Opened, {})
  BY <1>1, <1>2, ExpiredOK
<1>6. PICK t : Becomes(p, t) /\ t \in Runs /\ RunOK(p, t, f, Saved, Opened, {})
  BY <1>3, <1>4, <1>5
<1>7. Held(f)' /\ page' \in [Pages -> Runs]
  BY <1>1, <1>6, QuietStep DEF r
<1> QED
  BY <1>1, <1>7 DEF Typed

\* A page leaves its run: its message is handled for nobody.
LEMMA LeavesStep ==
  ASSUME Typed, NEW f, Held(f), UNCHANGED <<meta, expired, doomed, claim>>,
         NEW p \in Pages, NEW r \in Runs, RunOK(p, r, f, Saved, Opened, {}), Becomes(p, r), Forsaken(p)
  PROVE  Held(f)' /\ page' \in [Pages -> Runs] /\ handler' \in [Handoffs -> Messages]
<1>1. ClaimsGo(f) /\ Saved' = Saved /\ Opened' = Opened /\ Identified' = Identified
  BY ClaimsStay
<1>2. page' \in [Pages -> Runs] /\ page'[p] = r /\ \A q \in Pages \ {p} : page'[q] = page[q]
  BY DEF Typed, Becomes
<1>3. \A h \in Handoffs : handler'[h] = IF handler[h].page = p THEN [handler[h] EXCEPT !.page = None] ELSE handler[h]
  BY DEF Forsaken
<1>4. ASSUME NEW h \in Handoffs
      PROVE  /\ handler'[h] \in Messages /\ handler'[h].kind = handler[h].kind /\ handler'[h].seen = handler[h].seen
             /\ handler'[h].expected = handler[h].expected
             /\ handler'[h].page # None => handler'[h].page = handler[h].page /\ handler[h].page # p
             /\ handler[h] = NoHandler => handler'[h] = NoHandler
  <2>1. handler[h] \in Messages
    BY DEF Typed
  <2>2. handler[h] = NoHandler => handler[h].page # p
    BY NoneIsNoName DEF NoHandler
  <2>3. CASE handler[h].page # p
    BY <1>3, <2>1, <2>3
  <2>4. CASE handler[h].page = p
    BY <1>3, <2>1, <2>2, <2>4 DEF Messages
  <2> QED
    BY <2>3, <2>4
<1>5. handler' \in [Handoffs -> Messages]
  <2>1. handler' = [h \in Handoffs |-> handler'[h]]
    BY DEF Forsaken
  <2> QED
    BY <1>4, <2>1
<1>6. RunsOK(f)'
  <2>1. RunOK(p, r, f, Saved, Opened, Identified)
    BY RunKept DEF RunOK, Closed
  <2> QED
    BY <1>1, <1>2, <2>1 DEF Held, RunsOK
<1>7. MetasOK(f)'
  BY <1>1 DEF Held, MetasOK
<1>8. MessagesOK(f)'
  <2> SUFFICES ASSUME NEW h \in Handoffs, handler[h] # NoHandler PROVE MessageOK(h, handler[h], f)'
    BY <1>4 DEF MessagesOK, MessageOK
  <2>1. MessageOK(h, handler[h], f)
    BY DEF Held, MessagesOK
  <2>2. Unclaimed(h) => Unclaimed(h)'
    BY <1>1, <1>2 DEF Unclaimed, RunOK, Closed
  <2>3. handler'[h].page # None =>
          page'[handler'[h].page].h = h /\ page'[handler'[h].page].pc = handler'[h].kind
    <3> SUFFICES ASSUME handler'[h].page # None
                 PROVE  page'[handler'[h].page].h = h /\ page'[handler'[h].page].pc = handler'[h].kind
      OBVIOUS
    <3>1. handler'[h].page = handler[h].page /\ handler[h].page \in Pages \ {p} /\ handler'[h].kind = handler[h].kind
      BY <1>4 DEF Typed, Messages
    <3>2. page'[handler[h].page] = page[handler[h].page]
      BY <1>2, <3>1
    <3> QED
      BY <2>1, <3>1, <3>2 DEF MessageOK
  <2>4. handler'[h].seen = handler[h].seen /\ handler'[h].expected = handler[h].expected /\ handler'[h].kind = handler[h].kind
    BY <1>4
  <2> QED
    BY <1>1, <2>1, <2>2, <2>3, <2>4 DEF MessageOK
<1>9. AllDoomedOK'
  <2> SUFFICES ASSUME NEW e \in Editors, NEW d \in doomed[e] PROVE DoomedOK(d)'
    BY DEF AllDoomedOK
  <2>1. DoomedOK(d) /\ d[1] \in Handoffs
    BY DEF Held, AllDoomedOK, Typed
  <2> QED
    BY <1>4, <2>1 DEF DoomedOK
<1> QED
  BY <1>1, <1>2, <1>5, <1>6, <1>7, <1>8, <1>9 DEF Held, ClaimsGo

LEMMA TabIs ==
  ASSUME Typed, NEW f, Held(f), NEW p \in Pages, Tab(p)
  PROVE  Typed' /\ Held(f)'
<1>1. page[p].pc # "closed" /\ Forsaken(p)
      /\ UNCHANGED <<draft, meta, expired, doomed, snapshot, transfer, claim, faults>>
      /\ (Becomes(p, LoadedBare(page[p])) \/ Becomes(p, Closed))
  BY DEF Tab, Reload, Close
<1>2. LoadedBare(page[p]) \in Runs /\ RunOK(p, LoadedBare(page[p]), f, Saved, Opened, {})
  <2>1. LoadedBare(page[p]) \in Runs /\ RunOK(p, LoadedBare(page[p]), f, Saved, Opened, Identified)
    BY <1>1, PageFacts, LoadedBareOK
  <2>2. LoadedBare(page[p]).pc \in {"idle", "dead"}
    <3> DEFINE y == Read(page[p])
               x == [y EXCEPT !.fragment = FALSE]
    <3>1. y \in Runs /\ y.pc = "idle"
      BY <1>1, PageFacts, ReadOK
    <3>2. LoadedBare(page[p]) \in {Probe(x), [x EXCEPT !.pc = "dead"], x}
      BY DEF LoadedBare
    <3> HIDE DEF y
    <3>3. x \in Runs /\ x.pc = "idle"
      BY <3>1 DEF Runs
    <3> HIDE DEF x
    <3>4. Probe(x).pc = "idle" /\ [x EXCEPT !.pc = "dead"].pc = "dead"
      BY <3>3 DEF Probe, Ends, Runs
    <3> QED
      BY <3>2, <3>3, <3>4
  <2> QED
    BY <2>1, <2>2, RunKept
<1>3. Closed \in Runs /\ RunOK(p, Closed, f, Saved, Opened, {})
  BY ClosedRuns DEF RunOK
<1>4. PICK t \in Runs : Becomes(p, t) /\ RunOK(p, t, f, Saved, Opened, {})
  BY <1>1, <1>2, <1>3
<1>5. Held(f)' /\ page' \in [Pages -> Runs] /\ handler' \in [Handoffs -> Messages]
  BY <1>1, <1>4, LeavesStep
<1> QED
  BY <1>1, <1>5 DEF Typed

LEMMA WorkerEndsIs ==
  ASSUME Typed, NEW f, Held(f), WorkerEnds
  PROVE  Typed' /\ Held(f)'
<1>1. /\ UNCHANGED <<draft, meta, expired, doomed, claim>> /\ faults' \in 0..MaxFaults
      /\ handler' = [h \in Handoffs |-> NoHandler] /\ handler' \in [Handoffs -> Messages]
      /\ snapshot' \in [Handoffs -> Contents \cup {None}] /\ transfer' \in [Handoffs -> BOOLEAN]
  BY ClosedRuns, NumberAssumption DEF WorkerEnds, Fails, Typed
<1>2. ClaimsGo(f) /\ Saved' = Saved /\ Opened' = Opened /\ Identified' = Identified
  BY <1>1, ClaimsStay
<1>3. ASSUME NEW p \in Pages
      PROVE  page'[p] \in Runs /\ RunOK(p, page'[p], f, Saved, Opened, Identified)
  <2>1. page'[p] = IF page[p].pc \in Asking THEN Unanswered(page[p]) ELSE page[p]
    BY DEF WorkerEnds
  <2>2. CASE page[p].pc \in Asking
    <3>1. page[p].pc # "closed"
      BY <2>2 DEF Asking
    <3>2. page[p] \in Runs /\ RunOK(p, page[p], f, Saved, Opened, Identified)
      BY <3>1, PageFacts
    <3>3. Ends(page[p], "idle") \in Runs /\ RunOK(p, Ends(page[p], "idle"), f, Saved, Opened, Identified)
      BY <3>1, <3>2, EndsOK
    <3>4. Probe(page[p]) \in Runs /\ RunOK(p, Probe(page[p]), f, Saved, Opened, Identified)
      BY <3>1, <3>2, ProbeOK
    <3>5. page'[p] = Probe(page[p]) \/ page'[p] = Ends(page[p], "idle")
      BY <2>1, <2>2 DEF Unanswered
    <3> QED
      BY <3>3, <3>4, <3>5
  <2>3. CASE page[p].pc \notin Asking
    BY <2>1, <2>3 DEF Typed, Held, RunsOK
  <2> QED
    BY <2>2, <2>3
<1>4. page' \in [Pages -> Runs]
  <2>1. page' = [p \in Pages |-> page'[p]]
    BY DEF WorkerEnds
  <2> QED
    BY <1>3, <2>1
<1>5. RunsOK(f)' /\ MetasOK(f)'
  BY <1>1, <1>2, <1>3 DEF Held, RunsOK, MetasOK
<1>6. MessagesOK(f)'
  BY <1>1 DEF MessagesOK, MessageOK
<1>7. AllDoomedOK'
  BY <1>1 DEF Held, AllDoomedOK, DoomedOK, Typed
<1>8. Held(f)'
  BY <1>2, <1>5, <1>6, <1>7 DEF Held, ClaimsGo
<1> QED
  BY <1>1, <1>4, <1>8 DEF Typed

LEMMA EditIs ==
  ASSUME Typed, NEW f, Held(f), NEW c \in Contents, Edit(c)
  PROVE  Typed' /\ Held(f)'
<1>1. UNCHANGED <<meta, expired, doomed, handler, snapshot, transfer, page, claim, faults>>
      /\ draft' \in [content : Contents \cup {None}, version : 0..MaxVersion]
  BY NumberAssumption DEF Edit, Typed
<1>2. ClaimsGo(f)
  BY <1>1, ClaimsStay
<1>3. Held(f)'
  BY <1>1, <1>2, PageStep
<1> QED
  BY <1>1, <1>3 DEF Typed

LEMMA PruneReadIs ==
  ASSUME Typed, NEW f, Held(f), NEW e \in Editors, PruneRead(e)
  PROVE  Typed' /\ Held(f)'
<1> DEFINE found == {<<h, meta[h].status>> : h \in {i \in Handoffs : Prunable(i)}}
<1>1. doomed' = [doomed EXCEPT ![e] = found]
      /\ UNCHANGED <<draft, meta, expired, handler, snapshot, transfer, page, claim, faults>>
  BY DEF PruneRead
<1>2. ASSUME NEW d \in found PROVE d \in Handoffs \X (Statuses \cup {"new"}) /\ DoomedOK(d)
  <2>1. PICK h \in Handoffs : Prunable(h) /\ d = <<h, meta[h].status>>
    OBVIOUS
  <2>2. d \in Handoffs \X (Statuses \cup {"new"}) /\ d[1] = h /\ d[2] = meta[h].status
    BY <2>1 DEF Prunable, Statuses
  <2>3. MessageOK(h, handler[h], f)
    BY DEF Held, MessagesOK
  <2>4. meta[h].status = "completed" => handler[h] = NoHandler
    BY <2>3 DEF MessageOK, Pending
  <2> QED
    BY <2>1, <2>2, <2>4 DEF DoomedOK, Prunable
<1> HIDE DEF found
<1>3. doomed' \in [Editors -> SUBSET (Handoffs \X (Statuses \cup {"new"}))]
  BY <1>1, <1>2 DEF Typed
<1>4. AllDoomedOK'
  <2> SUFFICES ASSUME NEW i \in Editors, NEW d \in doomed'[i] PROVE DoomedOK(d)'
    BY DEF AllDoomedOK
  <2>1. DoomedOK(d)
    BY <1>1, <1>2 DEF Held, AllDoomedOK, Typed
  <2> QED
    BY <1>1, <2>1 DEF DoomedOK
<1>5. ClaimsGo(f) /\ Saved' = Saved /\ Opened' = Opened /\ Identified' = Identified
  BY <1>1, ClaimsStay
<1>6. RunsOK(f)' /\ MetasOK(f)' /\ MessagesOK(f)'
  <2>1. \A h \in Handoffs : Unclaimed(h)' <=> Unclaimed(h)
    BY <1>1, <1>5 DEF Unclaimed
  <2> QED
    BY <1>1, <1>5, <2>1 DEF Held, RunsOK, MetasOK, MessagesOK, MessageOK
<1>7. Held(f)'
  BY <1>4, <1>5, <1>6 DEF Held, ClaimsGo
<1> QED
  BY <1>1, <1>3, <1>7 DEF Typed

\* What a clean-up removes had expired: it was opened and is not opened again.
LEMMA PruneRemoveIs ==
  ASSUME Typed, NEW f, Held(f), NEW e \in Editors, PruneRemove(e)
  PROVE  Typed' /\ Held(f)'
<1>1. meta' = [h \in Handoffs |-> IF \E d \in doomed[e] : d[1] = h THEN NoMeta ELSE meta[h]]
      /\ doomed' = [doomed EXCEPT ![e] = {}]
      /\ UNCHANGED <<draft, expired, handler, snapshot, transfer, page, claim, faults>>
  BY DEF PruneRemove
<1>2. \A h \in Handoffs : meta'[h] = meta[h] \/ (meta'[h] = NoMeta /\ h \in expired)
  BY <1>1 DEF Held, AllDoomedOK, DoomedOK
<1>3. meta' \in [Handoffs -> Metas] /\ doomed' \in [Editors -> SUBSET (Handoffs \X (Statuses \cup {"new"}))]
  BY <1>1, ClosedRuns DEF Typed
<1>4. Saved' = Saved /\ Opened \subseteq Opened' /\ Identified \subseteq Identified'
  BY <1>1, <1>2 DEF Saved, Opened, Identified
<1>5. RunsOK(f)'
  <2> SUFFICES ASSUME NEW p \in Pages PROVE RunOK(p, page[p], f, Saved', Opened', Identified')
    BY <1>1 DEF RunsOK
  <2>1. RunOK(p, page[p], f, Saved, Opened, Identified)
    BY DEF Held, RunsOK
  <2>2. page[p].pc = "claim" => page[p].h \in Identified'
    BY <1>4, <2>1 DEF RunOK, Closed
  <2> QED
    BY <1>4, <2>1, <2>2, RunKept
<1>6. MetasOK(f)'
  BY <1>2, <1>4 DEF Held, MetasOK, MetaOK
<1>7. MessagesOK(f)'
  <2> SUFFICES ASSUME NEW h \in Handoffs PROVE MessageOK(h, handler[h], f)'
    BY <1>1 DEF MessagesOK
  <2>1. MessageOK(h, handler[h], f)
    BY DEF Held, MessagesOK
  <2>2. Unclaimed(h)' <=> Unclaimed(h)
    BY <1>1, <1>4 DEF Unclaimed
  <2>3. meta'[h] = meta[h] \/ meta'[h].status = "absent"
    BY <1>2 DEF NoMeta
  <2> QED
    BY <1>1, <1>4, <2>1, <2>2, <2>3 DEF MessageOK
<1>8. ClaimsOK(f)'
  BY <1>1, <1>4 DEF Held, ClaimsOK, ClaimOK
<1>9. AllDoomedOK'
  <2> SUFFICES ASSUME NEW i \in Editors, NEW d \in doomed'[i] PROVE DoomedOK(d)'
    BY DEF AllDoomedOK
  <2>1. d \in doomed[i]
    BY <1>1 DEF Typed
  <2>2. DoomedOK(d) /\ d[1] \in Handoffs
    BY <2>1 DEF Held, AllDoomedOK, Typed
  <2> QED
    BY <1>1, <1>2, <2>2 DEF DoomedOK, NoMeta
<1>10. Held(f)'
  BY <1>1, <1>5, <1>6, <1>7, <1>8, <1>9 DEF Held, CanonicalOperation
<1> QED
  BY <1>1, <1>3, <1>10 DEF Typed

LEMMA ExpireIs ==
  ASSUME Typed, NEW f, Held(f), NEW h \in Handoffs, Expire(h)
  PROVE  Typed' /\ Held(f)'
<1>1. expired' = expired \cup {h}
      /\ UNCHANGED <<draft, meta, doomed, handler, snapshot, transfer, page, claim, faults>>
  BY DEF Expire, extension
<1>2. Saved' = Saved /\ Opened \subseteq Opened' /\ Identified' = Identified
  BY <1>1 DEF Saved, Opened, Identified
<1>3. RunsOK(f)'
  <2> SUFFICES ASSUME NEW p \in Pages PROVE RunOK(p, page[p], f, Saved', Opened', Identified')
    BY <1>1 DEF RunsOK
  <2>1. RunOK(p, page[p], f, Saved, Opened, Identified)
    BY DEF Held, RunsOK
  <2>2. page[p].pc = "claim" => page[p].h \in Identified'
    BY <1>2, <2>1 DEF RunOK, Closed
  <2> QED
    BY <1>2, <2>1, <2>2, RunKept
<1>4. MetasOK(f)' /\ ClaimsOK(f)' /\ AllDoomedOK'
  BY <1>1, <1>2 DEF Held, MetasOK, ClaimsOK, ClaimOK, AllDoomedOK, DoomedOK
<1>5. MessagesOK(f)'
  <2>1. \A i \in Handoffs : Unclaimed(i)' <=> Unclaimed(i)
    BY <1>1, <1>2 DEF Unclaimed
  <2> QED
    BY <1>1, <1>2, <2>1 DEF Held, MessagesOK, MessageOK
<1>6. Held(f)'
  BY <1>1, <1>3, <1>4, <1>5 DEF Held, CanonicalOperation
<1> QED
  BY <1>1, <1>6 DEF Typed

\* A page is opened on a handoff: one that is recovered keeps its content, and
\* an unused one is opened for the content that the draft has now.
LEMMA FirstEntryOK ==
  ASSUME NEW p \in Pages, NEW h \in Handoffs, NEW base \in Metas, NEW f, NEW saved, NEW opened,
         MetaOK(h, base, f, saved), base # NoMeta, h \in opened
  PROVE  FirstEntry(p, h, base) \in Runs /\ RunOK(p, FirstEntry(p, h, base), f, saved, opened, {})
<1> DEFINE r == FirstEntry(p, h, base)
<1>1. base.fp = f[h] /\ base.fp \in Contents \cup {None} /\ base.op \in Operations \cup {None}
      /\ (base.status \in Pending => base.op = h)
  BY DEF MetaOK, Metas, Pending
<1>2. /\ r.pc = "idle" /\ r.h = h /\ r.fp = base.fp /\ r.manual = None
      /\ r.state \in States /\ r.fragment = TRUE /\ r.restores = 0 /\ r.prepared = None
      /\ \/ r.op = p /\ r.status = "none"
         \/ base.status \in Pending /\ r.op = base.op /\ r.status = "finalize-pending"
  <2>1. CASE InFragment(base)
    BY <2>1 DEF FirstEntry, InFragment, Closed, States
  <2>2. CASE ~InFragment(base)
    BY <2>2 DEF FirstEntry, Closed, States
  <2> QED
    BY <2>1, <2>2
<1>3. r \in Runs
  <2>1. r = [pc |-> r.pc, h |-> r.h, op |-> r.op, state |-> r.state, status |-> r.status,
             manual |-> r.manual, fp |-> r.fp, fragment |-> r.fragment,
             restores |-> r.restores, prepared |-> r.prepared]
    BY DEF FirstEntry, Closed
  <2> HIDE DEF r
  <2>2. /\ r.pc \in Waits \cup {"closed", "idle", "dead", "saved"} /\ r.h \in Handoffs \cup {None}
        /\ r.op \in Operations \cup {None} /\ r.state \in States /\ r.status \in Statuses
        /\ r.manual \in Operations \cup {None} /\ r.fp \in Contents \cup {None} /\ r.fragment \in BOOLEAN
        /\ r.restores \in 0..MaxRestores /\ r.prepared \in Contents \cup {None}
    <3>1. r.op \in Operations /\ r.status \in Statuses
      BY <1>1, <1>2 DEF Operations, Statuses
    <3>2. r.restores \in 0..MaxRestores
      BY <1>2, NumberAssumption
    <3> QED
      BY <1>1, <1>2, <3>1, <3>2
  <2> QED
    BY <2>1, <2>2 DEF Runs
<1> HIDE DEF r
<1>4. RunOK(p, r, f, saved, opened, {})
  BY <1>1, <1>2 DEF RunOK, Working, Writing
<1> QED
  BY <1>3, <1>4 DEF r

\* What a launch stores: an entry that is recovered as it is, or a new one
\* for a handoff that nobody has used.
LEMMA LaunchStores ==
  ASSUME Typed, NEW p \in Pages, Launch(p)
  PROVE  \E h \in Handoffs, base \in Metas :
           /\ meta' = [meta EXCEPT ![h] = base] /\ page' = [page EXCEPT ![p] = FirstEntry(p, h, base)]
           /\ \/ base = meta[h] /\ meta[h].status \in Pending \cup {"new"}
              \/ base = NewMeta /\ meta[h] = NoMeta /\ h \notin expired
<1> DEFINE c == Fingerprint(draft)
<1>1. PICK h \in IF Recoverable(c) # {} THEN Recoverable(c) ELSE Unused :
        LET base == IF h \in Recoverable(c) THEN meta[h] ELSE NewMeta IN
        /\ meta' = [meta EXCEPT ![h] = base] /\ page' = [page EXCEPT ![p] = FirstEntry(p, h, base)]
  BY DEF Launch, SaveHandoffMetadata, Becomes
<1>2. Recoverable(c) \subseteq PendingHandoffs \cup FreshHandoffs(c)
  BY DEF Recoverable
<1> HIDE DEF c
<1>3. NewMeta \in Metas
  BY DEF NewMeta, Metas, Fingerprint, Typed
<1>4. CASE h \in Recoverable(c)
  <2>1. h \in Handoffs /\ meta[h].status \in Pending \cup {"new"} /\ meta[h] \in Metas
    BY <1>2, <1>4 DEF PendingHandoffs, FreshHandoffs, Typed
  <2> QED
    BY <1>1, <1>4, <2>1
<1>5. CASE h \notin Recoverable(c)
  <2>1. h \in Handoffs /\ meta[h] = NoMeta /\ h \notin expired
    BY <1>1, <1>5 DEF Unused
  <2> QED
    BY <1>1, <1>3, <1>5, <2>1
<1> QED
  BY <1>4, <1>5

LEMMA LaunchIs ==
  ASSUME Typed, NEW f \in [Handoffs -> Contents], Held(f), NEW p \in Pages, Launch(p)
  PROVE  Typed' /\ \E g \in [Handoffs -> Contents] : Held(g)'
<1>1. draft.content \in Contents /\ page[p].pc = "closed"
      /\ UNCHANGED <<draft, expired, doomed, handler, snapshot, transfer, claim, faults>>
  BY DEF Launch, Fingerprint, Typed
<1>2. PICK h \in Handoffs, base \in Metas :
        /\ meta' = [meta EXCEPT ![h] = base] /\ page' = [page EXCEPT ![p] = FirstEntry(p, h, base)]
        /\ \/ base = meta[h] /\ meta[h].status \in Pending \cup {"new"}
           \/ base = NewMeta /\ meta[h] = NoMeta /\ h \notin expired
  BY LaunchStores
<1>3. \A i \in Handoffs : handler[i].page # p
  BY <1>1, NoMessage
<1>4. CASE base = meta[h] /\ meta[h].status \in Pending \cup {"new"}
  <2>1. meta' = meta /\ base \in Metas /\ MetaOK(h, base, f, Saved) /\ base # NoMeta /\ h \in Opened
    BY <1>2, <1>4 DEF Typed, Held, MetasOK, NoMeta, Pending, Opened
  <2>2. FirstEntry(p, h, base) \in Runs /\ RunOK(p, FirstEntry(p, h, base), f, Saved, Opened, {})
    BY <2>1, FirstEntryOK
  <2>3. Becomes(p, FirstEntry(p, h, base))
    BY <1>2 DEF Becomes
  <2>4. Held(f)' /\ page' \in [Pages -> Runs]
    BY <1>1, <2>1, <2>2, <2>3, QuietStep
  <2> QED
    BY <1>1, <2>1, <2>4 DEF Typed
<1>5. CASE base = NewMeta /\ meta[h] = NoMeta /\ h \notin expired
  <2>1. base \in Metas /\ base # NoMeta /\ base.status = "new" /\ base.op = None /\ base.manual = None
        /\ base.fp = draft.content
    BY <1>5 DEF NewMeta, Metas, NoMeta, Fingerprint, Typed
  <2>2. h \notin Opened
    BY <1>5 DEF Opened
  <2>3. PICK g \in [Handoffs -> Contents] : g[h] = draft.content /\ \A i \in Handoffs \ {h} : g[i] = f[i]
    <3>1. [f EXCEPT ![h] = draft.content] \in [Handoffs -> Contents]
      BY <1>1
    <3> QED
      BY <3>1
  <2>4. meta' \in [Handoffs -> Metas] /\ meta'[h] = base /\ \A i \in Handoffs \ {h} : meta'[i] = meta[i]
    BY <1>2, <2>1 DEF Typed
  <2>5. Saved' = Saved /\ Opened' = Opened \cup {h}
        /\ \A i \in Handoffs \ {h} : i \in Identified => i \in Identified'
    BY <1>1, <2>1, <2>4 DEF Saved, Opened, Identified
  <2>6. MetaOK(h, base, g, Saved)
    BY <2>1, <2>3 DEF MetaOK
  <2>7. FirstEntry(p, h, base) \in Runs /\ RunOK(p, FirstEntry(p, h, base), g, Saved', Opened', {})
    BY <2>1, <2>5, <2>6, FirstEntryOK
  <2>8. page' \in [Pages -> Runs] /\ page'[p] = FirstEntry(p, h, base)
        /\ \A q \in Pages \ {p} : page'[q] = page[q]
    BY <1>2, <2>7 DEF Typed
  <2>9. \A q \in Pages : page[q].h # h
    <3> SUFFICES ASSUME NEW q \in Pages, page[q].h = h PROVE FALSE
      OBVIOUS
    <3>1. RunOK(q, page[q], f, Saved, Opened, Identified)
      BY DEF Held, RunsOK
    <3> QED
      BY <2>2, <3>1, NoneIsNoName DEF RunOK, Closed
  <2>10. RunsOK(g)'
    <3> SUFFICES ASSUME NEW q \in Pages PROVE RunOK(q, page'[q], g, Saved', Opened', Identified')
      BY DEF RunsOK
    <3>1. CASE q = p
      <4>1. RunOK(p, page'[p], g, Saved', Opened', {})
        BY <2>7, <2>8
      <4>2. RunOK(p, page'[p], g, Saved', Opened', Identified')
        BY <4>1, RunKept DEF RunOK, Closed
      <4> QED
        BY <3>1, <4>2
    <3>2. CASE q # p
      <4>1. RunOK(q, page[q], f, Saved, Opened, Identified) /\ page'[q] = page[q] /\ page[q].h # h
        BY <2>8, <2>9, <3>2 DEF Held, RunsOK
      <4>2. page[q] # Closed => page[q].h \in Handoffs \ {h} /\ g[page[q].h] = f[page[q].h]
        BY <2>3, <4>1 DEF RunOK, Opened
      <4>3. RunOK(q, page[q], g, Saved, Opened, Identified)
        BY <4>1, <4>2 DEF RunOK
      <4>4. page[q].pc = "claim" => page[q].h \in Identified'
        BY <2>5, <4>1, <4>2 DEF RunOK, Closed
      <4> QED
        BY <2>5, <4>1, <4>3, <4>4, RunKept
    <3> QED
      BY <3>1, <3>2
  <2>11. MetasOK(g)'
    <3> SUFFICES ASSUME NEW i \in Handoffs PROVE MetaOK(i, meta'[i], g, Saved')
      BY DEF MetasOK
    <3>1. CASE i = h
      BY <2>4, <2>5, <2>6, <3>1
    <3>2. CASE i # h
      BY <2>3, <2>4, <2>5, <3>2 DEF Held, MetasOK, MetaOK
    <3> QED
      BY <3>1, <3>2
  <2>12. handler[h] = NoHandler
    BY <2>2 DEF Held, MessagesOK, MessageOK
  <2>13. MessagesOK(g)'
    <3> SUFFICES ASSUME NEW i \in Handoffs, i # h, handler[i] # NoHandler
                 PROVE  MessageOK(i, handler[i], g)'
      BY <1>1, <2>12 DEF MessagesOK, MessageOK
    <3>1. MessageOK(i, handler[i], f) /\ meta'[i] = meta[i] /\ g[i] = f[i]
      BY <2>3, <2>4 DEF Held, MessagesOK
    <3>2. handler[i].page # None => handler[i].page \in Pages \ {p}
      BY <1>3 DEF Typed, Messages
    <3>3. handler[i].page # None => page'[handler[i].page] = page[handler[i].page]
      BY <2>8, <3>2
    <3>4. page'[p].h # i \/ page'[p].pc # "claim"
      BY <2>7, <2>8 DEF RunOK, Closed
    <3>5. Unclaimed(i) => Unclaimed(i)'
      BY <1>1, <2>5, <2>8, <3>4 DEF Unclaimed
    <3> QED
      BY <1>1, <2>5, <3>1, <3>3, <3>5 DEF MessageOK
  <2>14. ClaimsOK(g)'
    <3> SUFFICES ASSUME NEW i \in Handoffs PROVE ClaimOK(i, g)'
      BY DEF ClaimsOK
    <3>1. ClaimOK(i, f)
      BY DEF Held, ClaimsOK
    <3>2. CASE i = h
      BY <1>1, <2>2, <2>5, <3>1, <3>2 DEF ClaimOK
    <3>3. CASE i # h
      BY <1>1, <2>3, <2>5, <3>1, <3>3 DEF ClaimOK
    <3> QED
      BY <3>2, <3>3
  <2>15. AllDoomedOK'
    <3> SUFFICES ASSUME NEW e \in Editors, NEW d \in doomed[e] PROVE DoomedOK(d)'
      BY <1>1 DEF AllDoomedOK
    <3>1. DoomedOK(d) /\ d[1] \in Handoffs /\ d[1] # h
      BY <1>5 DEF Held, AllDoomedOK, DoomedOK, Typed
    <3> QED
      BY <1>1, <2>4, <3>1 DEF DoomedOK
  <2>16. Held(g)'
    BY <1>1, <2>10, <2>11, <2>13, <2>14, <2>15 DEF Held, CanonicalOperation
  <2> QED
    BY <1>1, <2>4, <2>8, <2>16 DEF Typed
<1> QED
  BY <1>2, <1>4, <1>5

-----------------------------------------------------------------------------
(* The theorems.                                                           *)

LEMMA InitIs == Init => Inv
<1> SUFFICES ASSUME Init PROVE Inv
  OBVIOUS
<1>1. Typed
  BY ClosedRuns, NumberAssumption DEF Init, Typed, NoClaim, Claims, Operations
<1>2. \A h \in Handoffs : h \notin Saved
  BY DEF Init, Saved, NoClaim, Operations
<1>3. CanonicalOperation /\ AllDoomedOK
  BY DEF Init, CanonicalOperation, AllDoomedOK, Operations
<1>4. ASSUME NEW f PROVE RunsOK(f) /\ MetasOK(f) /\ MessagesOK(f) /\ ClaimsOK(f)
  <2>1. RunsOK(f) /\ MetasOK(f) /\ MessagesOK(f)
    BY DEF Init, RunsOK, RunOK, MetasOK, MetaOK, MessagesOK, MessageOK
  <2>2. ClaimsOK(f)
    BY <1>2 DEF Init, ClaimsOK, ClaimOK, NoClaim, Operations
  <2> QED
    BY <2>1, <2>2
<1>5. \E f \in [Handoffs -> Contents] : TRUE
  <2>1. [h \in Handoffs |-> draft.content] \in [Handoffs -> Contents]
    BY DEF Init
  <2> QED
    BY <2>1
<1> QED
  BY <1>1, <1>3, <1>4, <1>5 DEF Inv, Held

LEMMA NextIs ==
  ASSUME Typed, NEW f \in [Handoffs -> Contents], Held(f), Next
  PROVE  Typed' /\ \E g \in [Handoffs -> Contents] : Held(g)'
<1>1. CASE Editing
  <2>1. ASSUME NEW c \in Contents, Edit(c) PROVE Typed' /\ Held(f)'
    BY <2>1, EditIs
  <2>2. ASSUME NEW e \in Editors, PruneRead(e) \/ PruneRemove(e) PROVE Typed' /\ Held(f)'
    BY <2>2, PruneReadIs, PruneRemoveIs
  <2>3. ASSUME NEW p \in Pages, Launch(p) PROVE Typed' /\ \E g \in [Handoffs -> Contents] : Held(g)'
    BY <2>3, LaunchIs
  <2> QED
    BY <1>1, <2>1, <2>2, <2>3 DEF Editing
<1>2. ASSUME NEW p \in Pages, Clicks(p) \/ Tab(p) PROVE Typed' /\ Held(f)'
  BY <1>2, ClickIs, ClickBareIs, TabIs DEF Clicks
<1>3. ASSUME NEW p \in Pages, PageRuns(p) PROVE Typed' /\ Held(f)'
  BY <1>3, RecoveryIs, BeginReadIs, StatusIs, PrepareIs, IntentIs, StartAssetIs, AssetChunkIs,
     UploadIs, PendingReadIs, FinalizeIs, CompletedReadIs DEF PageRuns
<1>4. ASSUME NEW h \in Handoffs, Handles(h) PROVE Typed' /\ Held(f)'
  BY <1>4, BeginWriteIs, PendingWriteIs, CompletedWriteIs, ExpectIs, DeleteDraftIs, CompletedFinishIs
  DEF Handles
<1>5. ASSUME NEW h \in Handoffs, StoreFails(h) \/ Expire(h) \/ ExpireIntent(h) PROVE Typed' /\ Held(f)'
  BY <1>5, StoreFailsIs, ExpireIs, ExpireIntentIs
<1>6. ASSUME NEW o \in Operations, LateFinalize(o) PROVE Typed' /\ Held(f)'
  BY <1>6, LateFinalizeIs
<1>7. CASE WorkerEnds
  BY <1>7, WorkerEndsIs
<1> QED
  BY <1>1, <1>2, <1>3, <1>4, <1>5, <1>6, <1>7 DEF Next

LEMMA StutterIs ==
  ASSUME Typed, NEW f, Held(f), UNCHANGED vars
  PROVE  Typed' /\ Held(f)'
<1>1. UNCHANGED <<draft, meta, expired, doomed, handler, snapshot, transfer, page, claim, faults>>
  BY DEF vars
<1>2. ClaimsGo(f)
  BY <1>1, ClaimsStay
<1>3. Held(f)'
  BY <1>1, <1>2, PageStep
<1> QED
  BY <1>1, <1>3 DEF Typed

LEMMA InvAlways == Spec => []Inv
<1>1. ASSUME Inv, [Next]_vars PROVE Inv'
  <2>1. PICK f \in [Handoffs -> Contents] : Typed /\ Held(f)
    BY <1>1 DEF Inv
  <2>2. CASE Next
    <3>1. Typed' /\ \E g \in [Handoffs -> Contents] : Held(g)'
      BY <2>1, <2>2, NextIs
    <3> QED
      BY <3>1 DEF Inv
  <2>3. CASE UNCHANGED vars
    <3>1. Typed' /\ Held(f)'
      BY <2>1, <2>3, StutterIs
    <3> QED
      BY <3>1 DEF Inv
  <2> QED
    BY <1>1, <2>2, <2>3
<1> QED
  BY <1>1, InitIs, PTL DEF Spec

\* One operation for each handoff, and no result that the server does not
\* have: whatever the pages, the editors and the worker do, and whichever
\* requests are lost, only the operation that the extension fixed for a
\* handoff is claimed with, and a handoff is stored as completed, and a page
\* says so, only when the server has the manual of that handoff's content.
THEOREM ConsistentAlways == Spec => []Consistent
<1>1. Inv => Consistent
  <2> SUFFICES ASSUME Inv PROVE Consistent
    OBVIOUS
  <2>1. PICK f \in [Handoffs -> Contents] : Typed /\ Held(f)
    BY DEF Inv
  <2>2. \A h \in Handoffs : handler[h].kind = "completed" => handler[h].seen.op # None
    BY <2>1, NoneIsNoName DEF Held, MessagesOK, MessageOK, NoHandler
  <2>3. \A h \in Handoffs : handler[h].kind \in {"none", "begin", "pending", "completed"}
    BY <2>1 DEF Typed, Messages
  <2>4. TypeOK
    BY <2>1, <2>2, <2>3 DEF TypeOK, Typed, Metas, Runs, Claims
  <2>5. \A h \in Handoffs : meta[h].manual # None =>
          /\ claim[meta[h].manual].status = "completed" /\ claim[meta[h].manual].content = meta[h].fp
          /\ meta[h].manual = meta[h].op
    <3> SUFFICES ASSUME NEW h \in Handoffs, meta[h].manual # None
                 PROVE  /\ claim[h].status = "completed" /\ claim[h].content = meta[h].fp
                        /\ meta[h].manual = h /\ meta[h].op = h
      OBVIOUS
    <3>1. MetaOK(h, meta[h], f, Saved) /\ ClaimOK(h, f)
      BY <2>1 DEF Held, MetasOK, ClaimsOK
    <3>2. meta[h] # NoMeta
      BY DEF NoMeta
    <3> QED
      BY <3>1, <3>2 DEF MetaOK, ClaimOK, Saved
  <2>6. \A p \in Pages : At(p, "saved") => claim[page[p].op].status = "completed"
    <3> SUFFICES ASSUME NEW p \in Pages, page[p].pc = "saved"
                 PROVE  claim[page[p].op].status = "completed"
      BY DEF At
    <3>1. RunOK(p, page[p], f, Saved, Opened, Identified)
      BY <2>1 DEF Held, RunsOK
    <3> QED
      BY <3>1 DEF RunOK, Closed, Working, Saved
  <2> QED
    BY <2>1, <2>4, <2>5, <2>6 DEF Consistent, CompletedIsSaved, Held
<1> QED
  BY <1>1, InvAlways, PTL

\* A finalize whose answer is unknown can be recovered after any crash: the
\* extension has the operation of every intent that is or may be completed,
\* unless the clean-up of an expired entry has removed it.
THEOREM FinalizeIsRecoverableAlways == Spec => []FinalizeIsRecoverable
<1>1. Inv => FinalizeIsRecoverable
  <2> SUFFICES ASSUME Inv, NEW h \in Handoffs, claim[h].status = "completed" \/ claim[h].late # None
               PROVE  \/ meta[h].status \in Pending \cup {"completed"} /\ meta[h].op = h
                      \/ meta[h] = NoMeta
    BY DEF FinalizeIsRecoverable
  <2>1. PICK f \in [Handoffs -> Contents] : Typed /\ Held(f)
    BY DEF Inv
  <2>2. h \in Identified
    BY <2>1 DEF Held, ClaimsOK, ClaimOK, Saved
  <2>3. MetaOK(h, meta[h], f, Saved)
    BY <2>1 DEF Held, MetasOK
  <2> QED
    BY <2>2, <2>3 DEF Identified, MetaOK, Pending
<1> QED
  BY <1>1, InvAlways, PTL

\* The local draft is deleted only when a manual of exactly its content is
\* saved, whatever was edited and whoever crashed since the server's answer.
THEOREM DeletedDraftIsSavedAlways == Spec => DeletedDraftIsSaved
<1> DEFINE Deleted == draft.content # None /\ draft'.content = None
             => \E h \in Handoffs : claim[h].status = "completed" /\ claim[h].content = draft.content
<1>1. ASSUME Inv, [Next]_vars PROVE [Deleted]_vars
  <2> SUFFICES ASSUME Next, draft.content # None, draft'.content = None
               PROVE  \E h \in Handoffs : claim[h].status = "completed" /\ claim[h].content = draft.content
    BY <1>1
  <2>1. PICK f \in [Handoffs -> Contents] : Typed /\ Held(f)
    BY <1>1 DEF Inv
  <2>2. PICK h \in Handoffs : DeleteDraft(h)
    <3>1. \A c \in Contents : ~Edit(c)
      BY NoneIsNoName DEF Edit
    <3> QED
      BY <3>1 DEF Next, Editing, PruneRead, PruneRemove, Launch, Clicks, Click, ClickBare, PageRuns,
        Recovery, BeginRead, Status, Prepare, Intent, StartAsset, AssetChunk, Upload, PendingRead,
        Finalize, CompletedRead, Tab, Reload, Close, Handles, BeginWrite, PendingWrite, CompletedWrite,
        Expect, CompletedFinish, StoreFails, Expire, ExpireIntent, LateFinalize, WorkerEnds, extension
  <2>3. handler[h].expected = draft.content /\ handler[h].kind = "completed"
    BY <2>1, <2>2 DEF DeleteDraft, Deletable, Completion, Typed
  <2>4. handler[h].expected = f[h] /\ h \in Saved
    BY <2>1, <2>3 DEF Held, MessagesOK, MessageOK, NoHandler
  <2>5. claim[h].content = f[h]
    BY <2>1, <2>4 DEF Held, ClaimsOK, ClaimOK
  <2> QED
    BY <2>3, <2>4, <2>5 DEF Saved
<1> QED
  BY <1>1, InvAlways, PTL DEF Spec, DeletedDraftIsSaved

\* The identity that an unknown result is recovered with is neither changed
\* nor given up until the result is known: of all steps, only a clean-up that
\* saw the entry before it became pending removes it.
THEOREM PendingIsKeptAlways == Spec => PendingIsKept
<1> DEFINE Kept(h) ==
             \/ meta'[h].status \in Pending \cup {"completed"}
                /\ meta'[h].op = meta[h].op /\ meta'[h].fp = meta[h].fp
                /\ meta'[h].manual \in {meta[h].op, meta[h].manual}
             \/ \E e \in Editors : <<h, "new">> \in doomed[e]
           AllKept == \A h \in Handoffs : meta[h].status \in Pending => Kept(h)
<1>1. ASSUME Inv, [Next]_vars PROVE [AllKept]_vars
  <2> SUFFICES ASSUME Next, NEW h \in Handoffs, meta[h].status \in Pending PROVE Kept(h)
    BY <1>1
  <2>1. PICK f \in [Handoffs -> Contents] : Typed /\ Held(f)
    BY <1>1 DEF Inv
  <2>2. meta[h].fp = f[h] /\ meta[h].op = h
    <3>1. MetaOK(h, meta[h], f, Saved)
      BY <2>1 DEF Held, MetasOK
    <3> QED
      BY <3>1 DEF MetaOK, NoMeta, Pending
  <2>3. ASSUME meta'[h] = meta[h] PROVE Kept(h)
    BY <2>3
  <2>4. ASSUME NEW e \in Editors, PruneRemove(e) PROVE Kept(h)
    <3>1. CASE \E d \in doomed[e] : d[1] = h
      <4>1. PICK d \in doomed[e] : d[1] = h
        BY <3>1
      <4>2. DoomedOK(d) /\ d \in Handoffs \X (Statuses \cup {"new"})
        BY <2>1 DEF Held, AllDoomedOK, Typed
      <4>3. d[2] = "new"
        BY <4>1, <4>2 DEF DoomedOK, Pending
      <4>4. d = <<h, "new">>
        BY <4>1, <4>2, <4>3
      <4> QED
        BY <4>4
    <3>2. CASE ~\E d \in doomed[e] : d[1] = h
      BY <2>3, <2>4, <3>2 DEF PruneRemove
    <3> QED
      BY <3>1, <3>2
  <2>5. ASSUME NEW p \in Pages, Launch(p) PROVE Kept(h)
    <3>1. PICK i \in Handoffs, base \in Metas :
            /\ meta' = [meta EXCEPT ![i] = base]
            /\ base = meta[i] \/ meta[i] = NoMeta
      BY <2>1, <2>5, LaunchStores
    <3>2. meta'[h] = meta[h]
      BY <2>1, <3>1 DEF Typed, NoMeta, Pending
    <3> QED
      BY <2>3, <3>2
  <2>6. ASSUME NEW i \in Handoffs, BeginWrite(i) \/ PendingWrite(i) PROVE Kept(h)
    <3>1. handler[i].kind \in {"begin", "pending"}
      BY <2>6 DEF BeginWrite, PendingWrite
    <3>2. meta[i].status \in {"absent", "new"}
      BY <2>1, <3>1, MessageFacts DEF MessageOK
    <3>3. meta'[h] = meta[h]
      BY <2>1, <2>6, <3>2 DEF BeginWrite, PendingWrite, Typed, Pending
    <3> QED
      BY <2>3, <3>3
  <2>7. ASSUME NEW i \in Handoffs, CompletedWrite(i) \/ CompletedFinish(i) PROVE Kept(h)
    <3>1. handler[i].kind = "completed"
      BY <2>7 DEF CompletedWrite, CompletedFinish, Completion
    <3> DEFINE s == handler[i].seen
    <3>2. s \in Metas /\ s.fp = f[i] /\ s.op = i /\ s.status = "completion-pending" /\ s.manual = i
      BY <2>1, <3>1, MessageFacts DEF MessageOK
    <3>3. CASE i # h
      BY <2>1, <2>3, <2>7, <3>3 DEF CompletedWrite, CompletedFinish, Typed
    <3>4. CASE i = h
      <4>1. meta'[h] = s \/ meta'[h] = [s EXCEPT !.status = "completed"]
        BY <2>1, <2>7, <3>4 DEF CompletedWrite, CompletedFinish, Typed
      <4> HIDE DEF s
      <4>2. meta'[h].status \in Pending \cup {"completed"} /\ meta'[h].op = h /\ meta'[h].fp = f[h]
            /\ meta'[h].manual = h
        BY <3>2, <3>4, <4>1 DEF Metas, Pending
      <4> QED
        BY <2>2, <4>2
    <3> QED
      BY <3>3, <3>4
  <2>8. ASSUME meta' = meta PROVE Kept(h)
    BY <2>3, <2>8
  <2> HIDE DEF Kept
  <2> QED
    BY <2>4, <2>5, <2>6, <2>7, <2>8
    DEF Next, Editing, Edit, PruneRead, Clicks, Click, ClickBare, PageRuns,
      Recovery, BeginRead, Status, Prepare, Intent, StartAsset, AssetChunk, Upload, PendingRead,
      Finalize, CompletedRead, Tab, Reload, Close, Handles, Expect, DeleteDraft,
      StoreFails, Expire, ExpireIntent, LateFinalize, WorkerEnds, extension
<1> QED
  BY <1>1, InvAlways, PTL DEF Spec, PendingIsKept

=============================================================================
