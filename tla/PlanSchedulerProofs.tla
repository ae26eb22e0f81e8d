------------------------ MODULE PlanSchedulerProofs -------------------------
(***************************************************************************)
(* Proofs about PlanScheduler: for any plans, dependencies and tenants,    *)
(* and any number of edits, failed writes and deaths, the loop's own       *)
(* appointments keep the order of a plan (DependenciesFirst), a step       *)
(* reported as completed is not executed again (DoneOnce), and a plan that *)
(* the loop has begun keeps an appointment (ChainGoesOn).                  *)
(*                                                                         *)
(* The invariant speaks of one plan at a time: a step of the system works  *)
(* on one plan and leaves the others as they are, though their index and   *)
(* their schedule are shared (Frame).  What it says of a plan holds until  *)
(* a write about it fails (Sound), until a step of it is set back          *)
(* (Ordered), or until a death takes its appointment (Going): the          *)
(* exceptions the properties make.                                         *)
(***************************************************************************)
EXTENDS PlanScheduler, SequenceTheorems, FiniteSetTheorems, WellFoundedInduction, TLAPS

-----------------------------------------------------------------------------
(* The inductive invariant                                                 *)

\* what an index and a schedule say of p
StatusesOf(idx, p) == {idx[i].status : i \in {j \in DOMAIN idx : idx[j].plan = p}}
Due(sched, p) == {e \in sched : e.plan = p}

\* an index names a plan once, a schedule has one appointment per step
OncePerPlan(idx) == IsInjective([i \in DOMAIN idx |-> idx[i].plan])
OncePerStep(sched) == \A a, b \in sched : a.plan = b.plan /\ a.step = b.step => a = b

\* The process sees of p what is stored, and the index has p if it is active.
Sound(p) ==
  /\ mem.plan[p] = redis.plan[p]
  /\ Due(mem.sched, p) = Due(redis.sched, p)
  /\ StatusesOf(mem.idx, p) = StatusesOf(redis.idx, p)
  /\ mem.plan[p].status = "active" => "active" \in StatusesOf(mem.idx, p)

\* what was reported is completed, and what the loop has an appointment of its
\* own for depends on no open step before it
Appointed == mem.sched \cup todo \cup {cur}
Ordered(p) ==
  /\ \A s \in Steps : <<p, s>> \in done => mem.plan[p].steps[s] = "completed"
  /\ \A e \in Appointed \ {NoEntry} : e.plan = p /\ ~e.asked => OpenDeps(e) = {}

Stuck(p) == TenantOf[p] = Default /\ InStatus(mem.plan[p], "in_progress") # {}

\* p has an appointment, or the loop or the recovery is about to make one
Attended(p) ==
  \/ Due(mem.sched, p) # {}
  \/ cur.plan = p /\ stage = "told" /\ Here(p)
  \/ stage = "down" /\ Stuck(p)
  \/ stage = "recover" /\ Stuck(p) /\ \E i \in DOMAIN left : left[i] = p

Going(p) == mem.plan[p].status = "active" /\ OpenSteps(mem.plan[p]) # {} /\ Attended(p)

PlanInv(p) ==
  /\ mem.plan[p] = NoPlan <=> redis.plan[p] = NoPlan
  /\ p \notin hurt => Sound(p)
  /\ p \notin hurt \cup reopened => Ordered(p)
  /\ p \in chained \ (hurt \cup stranded \cup reopened) => Going(p)

\* the loop is at an entry, and the agent runs on a plan that exists
AtEntry ==
  /\ stage \in {"start", "run", "told"} => cur \in Entries
  /\ stage = "run" => Visible(cur.plan)

PlansInv ==
  /\ PlansTypeOK /\ AtEntry /\ DependenciesFirst /\ DoneOnce
  /\ \A p \in Plans : PlanInv(p)

-----------------------------------------------------------------------------
(* Plans as values                                                         *)

\* Step s of d is over and stays as it is in n; what is open stays open.
KeepsStep(d, n, s) ==
  /\ ~Open(d.steps[s]) => n.steps[s] = d.steps[s]
  /\ Open(d.steps[s]) => Open(n.steps[s])

Keeps(d, n) == \A s \in Steps : KeepsStep(d, n, s)

LEMMA StartFirstKeeps ==
  ASSUME NEW d \in Docs, NEW S \in SUBSET InStatus(d, "pending")
  PROVE  /\ StartFirst(d, S) \in Docs /\ StartFirst(d, S).status = d.status
         /\ Keeps(d, StartFirst(d, S))
<1> DEFINE n == StartFirst(d, S)
           new == [s \in Steps |-> IF IsFirst(s, S) THEN "in_progress" ELSE d.steps[s]]
<1>1. /\ d.status \in PlanStatuses /\ d.steps \in [Steps -> StepStatuses]
      /\ d = [status |-> d.status, steps |-> d.steps]
  BY DEF Docs
<1>2. n = [status |-> d.status, steps |-> new]
  BY <1>1 DEF StartFirst
<1>3. new \in [Steps -> StepStatuses]
  BY <1>1 DEF StepStatuses
<1>4. n \in Docs /\ n.status = d.status /\ n.steps = new
  BY <1>1, <1>2, <1>3 DEF Docs
<1>5. ASSUME NEW s \in Steps PROVE KeepsStep(d, n, s)
  <2>1. IsFirst(s, S) => d.steps[s] = "pending"
    BY DEF IsFirst, InStatus
  <2> QED BY <1>4, <2>1 DEF KeepsStep, Open
<1> QED BY <1>4, <1>5 DEF Keeps

LEMMA ActivatedKeeps ==
  ASSUME NEW d \in Docs
  PROVE  Activated(d) \in Docs /\ Keeps(d, Activated(d))
<1> DEFINE n == StartFirst(d, InStatus(d, "pending"))
<1>1. n \in Docs /\ Keeps(d, n)
  BY StartFirstKeeps
<1>2. Activated(d) = [n EXCEPT !.status = "active"]
  BY DEF Activated
<1> HIDE DEF n
<1> QED BY <1>1, <1>2 DEF Docs, PlanStatuses, Keeps, KeepsStep

LEMMA UpdatedKeeps ==
  ASSUME NEW p \in Plans, NEW d \in Docs, NEW s \in Steps, NEW st \in StepStatuses
  PROVE  /\ Updated(p, d, s, st) \in Docs
         /\ Updated(p, d, s, st).steps[s] = st
         /\ \A t \in Steps \ {s} : KeepsStep(d, Updated(p, d, s, st), t)
         /\ Updated(p, d, s, st).status # d.status => OpenSteps(Updated(p, d, s, st)) = {}
<1> DEFINE set == With(d, s, st)
           adv == IF st = "completed" THEN AutoAdvance(p, set) ELSE set
           n == Updated(p, d, s, st)
<1>1. /\ set \in Docs /\ set.status = d.status /\ set.steps[s] = st
      /\ \A t \in Steps \ {s} : set.steps[t] = d.steps[t]
  BY DEF With, Docs
<1>2. adv \in Docs /\ adv.status = d.status /\ Keeps(set, adv)
  <2>1. CASE st = "completed"
    <3> DEFINE S == {t \in InStatus(set, "pending") :
                       Deps[p][t] \subseteq InStatus(set, "completed")}
    <3>1. adv = StartFirst(set, S) /\ S \in SUBSET InStatus(set, "pending")
      BY <2>1 DEF AutoAdvance
    <3> HIDE DEF S, set, adv
    <3> QED BY <1>1, <3>1, StartFirstKeeps
  <2>2. CASE st # "completed"
    BY <1>1, <2>2 DEF Keeps, KeepsStep
  <2> QED BY <2>1, <2>2
<1>3. n = IF InStatus(adv, "completed") = Steps THEN [adv EXCEPT !.status = "completed"] ELSE adv
  BY DEF Updated
<1> HIDE DEF set, adv, n
<1>4. n \in Docs /\ n.steps = adv.steps
  BY <1>2, <1>3 DEF Docs, PlanStatuses
<1>5. n.status # d.status => OpenSteps(n) = {}
  BY <1>2, <1>3, <1>4 DEF InStatus, OpenSteps, Open
<1>6. adv.steps[s] = st
  <2>1. CASE st = "completed"
    BY <1>1, <1>2, <2>1 DEF Keeps, KeepsStep, Open
  <2>2. CASE st # "completed"
    BY <1>1, <2>2 DEF adv
  <2> QED BY <2>1, <2>2
<1>7. \A t \in Steps \ {s} : KeepsStep(d, n, t)
  BY <1>1, <1>2, <1>4 DEF Keeps, KeepsStep
<1> QED BY <1>4, <1>5, <1>6, <1>7 DEF n

LEMMA ResetKeeps ==
  ASSUME NEW d \in Docs \cup {NoPlan}
  PROVE  /\ Reset(d) \in Docs \cup {NoPlan} /\ Reset(d).status = d.status
         /\ d = NoPlan <=> Reset(d) = NoPlan
         /\ Keeps(d, Reset(d))
         /\ InStatus(Reset(d), "pending") = OpenSteps(d)
<1> DEFINE new == [s \in Steps |-> IF d.steps[s] = "in_progress" THEN "pending" ELSE d.steps[s]]
<1>1. /\ d.steps \in [Steps -> StepStatuses] /\ d.status \in PlanStatuses \cup {"none"}
      /\ d = [status |-> d.status, steps |-> d.steps]
  BY DEF Docs, NoPlan, StepStatuses
<1>2. Reset(d) = [status |-> d.status, steps |-> new]
  BY <1>1 DEF Reset
<1>3. new \in [Steps -> StepStatuses]
  BY <1>1 DEF StepStatuses
<1>4. CASE d = NoPlan
  <2>1. new = [s \in Steps |-> "pending"]
    BY <1>4 DEF NoPlan
  <2> QED BY <1>2, <1>4, <2>1 DEF NoPlan, Keeps, KeepsStep, InStatus, OpenSteps, Open
<1>5. CASE d \in Docs
  <2>1. Reset(d) \in Docs /\ Reset(d).status = d.status /\ Reset(d).steps = new
    BY <1>2, <1>3, <1>5 DEF Docs
  <2>2. d # NoPlan /\ Reset(d) # NoPlan
    BY <1>5, <2>1 DEF Docs, NoPlan, PlanStatuses
  <2> HIDE DEF new
  <2>3. Keeps(d, Reset(d)) /\ InStatus(Reset(d), "pending") = OpenSteps(d)
    BY <2>1 DEF Keeps, KeepsStep, Open, InStatus, OpenSteps, new
  <2> QED BY <2>1, <2>2, <2>3
<1> QED BY <1>4, <1>5

-----------------------------------------------------------------------------
(* The index and the schedule as values                                    *)

LEMMA IndexedIs ==
  ASSUME NEW idx \in Seq(IndexEntries), NEW p \in Plans, NEW st \in PlanStatuses
  PROVE  /\ Indexed(idx, p, st) \in Seq(IndexEntries)
         /\ StatusesOf(Indexed(idx, p, st), p) = {st}
         /\ \A q \in Plans \ {p} : StatusesOf(Indexed(idx, p, st), q) = StatusesOf(idx, q)
<1> DEFINE n == Len(idx)
           r == Indexed(idx, p, st)
<1>0. n \in Nat /\ DOMAIN idx = 1 .. n /\ \A i \in 1 .. n : idx[i] \in IndexEntries
  BY LenProperties, ElementOfSeq
<1>1. CASE \E i \in DOMAIN idx : idx[i].plan = p
  <2>1. r = [i \in DOMAIN idx |-> IF idx[i].plan = p THEN [idx[i] EXCEPT !.status = st] ELSE idx[i]]
    BY <1>1 DEF Indexed
  <2>2. \A i \in 1 .. n : /\ r[i] \in IndexEntries /\ r[i].plan = idx[i].plan
                          /\ r[i].status = IF idx[i].plan = p THEN st ELSE idx[i].status
    BY <1>0, <2>1 DEF IndexEntries
  <2>3. DOMAIN r = 1 .. n
    BY <1>0, <2>1
  <2> HIDE DEF r, n
  <2>4. r \in Seq(IndexEntries)
    <3>1. r \in [1 .. n -> IndexEntries]
      <4>1. r = [i \in 1 .. n |-> r[i]]
        BY <1>0, <2>1, <2>3
      <4> QED BY <2>2, <2>3, <4>1
    <3> QED BY <1>0, <3>1, SeqDef
  <2>5. StatusesOf(r, p) = {st}
    BY <1>0, <1>1, <2>2, <2>3 DEF StatusesOf
  <2>6. ASSUME NEW q \in Plans \ {p} PROVE StatusesOf(r, q) = StatusesOf(idx, q)
    BY <1>0, <2>2, <2>3 DEF StatusesOf
  <2> QED BY <2>4, <2>5, <2>6 DEF r
<1>2. CASE ~\E i \in DOMAIN idx : idx[i].plan = p
  <2> DEFINE x == [plan |-> p, status |-> st]
  <2>1. r = Append(idx, x) /\ x \in IndexEntries /\ x.plan = p /\ x.status = st
    BY <1>2 DEF Indexed, IndexEntries
  <2> HIDE DEF x, n, r
  <2>2. /\ r \in Seq(IndexEntries) /\ Len(r) = Len(idx) + 1
        /\ \A i \in 1 .. Len(idx) : r[i] = idx[i]
        /\ r[Len(idx) + 1] = x
    BY <2>1, AppendProperties
  <2>3. DOMAIN r = 1 .. (n + 1) /\ r[n + 1] = x /\ (\A i \in 1 .. n : r[i] = idx[i])
    BY <2>2, LenProperties DEF n
  <2>4. \A i \in 1 .. (n + 1) : i \in 1 .. n \/ i = n + 1
    BY <1>0
  <2>5. n + 1 \in 1 .. (n + 1) /\ \A i \in 1 .. n : i \in 1 .. (n + 1)
    BY <1>0
  <2>6. StatusesOf(r, p) = {st}
    BY <1>0, <1>2, <2>1, <2>3, <2>4, <2>5 DEF StatusesOf
  <2>7. ASSUME NEW q \in Plans \ {p} PROVE StatusesOf(r, q) = StatusesOf(idx, q)
    BY <1>0, <2>1, <2>3, <2>4, <2>5 DEF StatusesOf
  <2> QED BY <2>2, <2>6, <2>7 DEF r
<1> QED BY <1>1, <1>2

LEMMA AddedIs ==
  ASSUME NEW S \in SUBSET Entries, NEW e \in Entries
  PROVE  /\ Added(S, e) \in SUBSET Entries
         /\ Due(Added(S, e), e.plan) # {}
         /\ \A q \in Plans \ {e.plan} : Due(Added(S, e), q) = Due(S, q)
         /\ \A x \in Added(S, e) : x \in S \/ (x.plan = e.plan /\ x.step = e.step /\ x.asked = e.asked)
         /\ \A T \in SUBSET Entries : Due(S, e.plan) = Due(T, e.plan) =>
              Due(Added(S, e), e.plan) = Due(Added(T, e), e.plan)
<1> DEFINE Old(U) == {o \in U : o.plan = e.plan /\ o.step = e.step}
           New(U) == [e EXCEPT !.named = e.named \/ \E o \in Old(U) : o.named]
<1>1. \A U : Added(U, e) = (U \ Old(U)) \cup {New(U)}
  BY DEF Added
<1>2. \A U \in SUBSET Entries :
        New(U) \in Entries /\ New(U).plan = e.plan /\ New(U).step = e.step /\ New(U).asked = e.asked
  BY DEF Entries
<1>3. ASSUME NEW T \in SUBSET Entries, Due(S, e.plan) = Due(T, e.plan)
      PROVE  Due(Added(S, e), e.plan) = Due(Added(T, e), e.plan)
  <2>1. Old(S) = Old(T)
    BY <1>3 DEF Due
  <2>2. New(S) = New(T)
    BY <2>1
  <2> HIDE DEF Old, New
  <2> QED BY <1>1, <1>3, <2>1, <2>2 DEF Due
<1>4. Old(S) \subseteq S /\ \A o \in Old(S) : o.plan = e.plan
  OBVIOUS
<1> HIDE DEF Old, New
<1> QED BY <1>1, <1>2, <1>3, <1>4 DEF Due

LEMMA RemovedIs ==
  ASSUME NEW S, NEW e
  PROVE  /\ Removed(S, e) \subseteq S
         /\ \A q \in Plans \ {e.plan} : Due(Removed(S, e), q) = Due(S, q)
         /\ \A T : Due(S, e.plan) = Due(T, e.plan) =>
              Due(Removed(S, e), e.plan) = Due(Removed(T, e), e.plan)
BY DEF Removed, Due

\* Steps have a first among any of them.
LEMMA HasFirst ==
  ASSUME NEW S \in SUBSET Steps, S # {}
  PROVE  \E s \in S : IsFirst(s, S)
<1>1. S \subseteq Nat
  BY PlanAssumption DEF Steps
<1>2. PICK s \in S : \A o \in S : ~(<<o, s>> \in OpToRel(<, Nat))
  BY <1>1, NatLessThanWellFounded, WFMin
<1>3. ASSUME NEW o \in S PROVE s <= o
  <2>1. s \in Nat /\ o \in Nat
    BY <1>1
  <2>2. o < s => <<o, s>> \in OpToRel(<, Nat)
    BY <2>1 DEF OpToRel
  <2>3. ~(o < s)
    BY <1>2, <2>2, Zenon
  <2> QED BY <2>1, <2>3
<1> QED BY <1>3 DEF IsFirst


\* The index stays one with an entry per plan (planner.py:218-245).
LEMMA IndexedOnce ==
  ASSUME NEW idx \in Seq(IndexEntries), OncePerPlan(idx), NEW p \in Plans, NEW st \in PlanStatuses
  PROVE  OncePerPlan(Indexed(idx, p, st))
<1> DEFINE r == Indexed(idx, p, st)
<1>0. /\ Len(idx) \in Nat /\ DOMAIN idx = 1 .. Len(idx)
      /\ \A i, j \in 1 .. Len(idx) : idx[i].plan = idx[j].plan => i = j
  BY LenProperties DEF OncePerPlan, IsInjective
<1>1. CASE \E i \in DOMAIN idx : idx[i].plan = p
  <2>1. r = [i \in DOMAIN idx |-> IF idx[i].plan = p THEN [idx[i] EXCEPT !.status = st] ELSE idx[i]]
    BY <1>1 DEF Indexed
  <2>2. DOMAIN r = 1 .. Len(idx) /\ \A i \in 1 .. Len(idx) : r[i].plan = idx[i].plan
    BY <1>0, <2>1, ElementOfSeq DEF IndexEntries
  <2> HIDE DEF r
  <2> QED BY <1>0, <2>2 DEF OncePerPlan, IsInjective, r
<1>2. CASE ~\E i \in DOMAIN idx : idx[i].plan = p
  <2> DEFINE x == [plan |-> p, status |-> st]
  <2>1. r = Append(idx, x) /\ x \in IndexEntries /\ x.plan = p
    BY <1>2 DEF Indexed, IndexEntries
  <2> HIDE DEF x, r
  <2>2. /\ DOMAIN r = 1 .. (Len(idx) + 1) /\ r[Len(idx) + 1] = x
        /\ \A i \in 1 .. Len(idx) : r[i] = idx[i]
    BY <2>1, AppendProperties, LenProperties
  <2>3. \A i \in 1 .. (Len(idx) + 1) : i \in 1 .. Len(idx) \/ i = Len(idx) + 1
    BY <1>0
  <2>4. \A i \in 1 .. Len(idx) : idx[i].plan # p
    BY <1>0, <1>2
  <2>5. \A i, j \in 1 .. (Len(idx) + 1) : r[i].plan = r[j].plan => i = j
    BY <1>0, <2>1, <2>2, <2>3, <2>4
  <2> QED BY <2>2, <2>5 DEF OncePerPlan, IsInjective, r
<1> QED BY <1>1, <1>2

\* A schedule keeps one appointment per step (scheduler.py:78-105).
LEMMA ScheduleOnce ==
  ASSUME NEW S \in SUBSET Entries, OncePerStep(S), NEW e
  PROVE  OncePerStep(Removed(S, e)) /\ (e \in Entries => OncePerStep(Added(S, e)))
<1> DEFINE Old == {o \in S : o.plan = e.plan /\ o.step = e.step}
           new == [e EXCEPT !.named = e.named \/ \E o \in Old : o.named]
<1>1. Added(S, e) = (S \ Old) \cup {new}
  BY DEF Added
<1>2. e \in Entries => new.plan = e.plan /\ new.step = e.step
  BY DEF Entries
<1> HIDE DEF new
<1> QED BY <1>1, <1>2 DEF OncePerStep, Removed

-----------------------------------------------------------------------------
(* What a write leaves of the views                                        *)

ViewOK(v) == v \in Views /\ OncePerPlan(v.idx) /\ OncePerStep(v.sched)

NoneIsNoPlan == \A q \in Plans : mem.plan[q] = NoPlan <=> redis.plan[q] = NoPlan

\* What a step about another plan relies on.
AllSound ==
  /\ ViewOK(mem) /\ ViewOK(redis) /\ NoneIsNoPlan
  /\ \A q \in Plans : q \notin hurt => Sound(q)

\* Nothing is written about q, though its index and its schedule may be written.
AsBefore(q) ==
  q \notin hurt =>
    /\ mem'.plan[q] = mem.plan[q] /\ redis'.plan[q] = redis.plan[q]
    /\ Due(mem'.sched, q) = Due(mem.sched, q) /\ Due(redis'.sched, q) = Due(redis.sched, q)
    /\ StatusesOf(mem'.idx, q) = StatusesOf(mem.idx, q)
    /\ StatusesOf(redis'.idx, q) = StatusesOf(redis.idx, q)

Others(p) == \A q \in Plans \ {p} : AsBefore(q)

\* p, the index and the schedule become these in the cache and in Redis.
WritesTo(p, md, rd, mi, ri, ms, rs) ==
  /\ mem' = [plan |-> [mem.plan EXCEPT ![p] = md], idx |-> mi, sched |-> ms]
  /\ redis' = [plan |-> [redis.plan EXCEPT ![p] = rd], idx |-> ri, sched |-> rs]

\* The index and the schedule written are of the right shape and say of other
\* plans what they said before.
GoodIndex(p, i) ==
  /\ i \in Seq(IndexEntries) /\ OncePerPlan(i)
  /\ \A q \in Plans \ {p} : q \notin hurt => StatusesOf(i, q) = StatusesOf(mem.idx, q)
GoodSched(p, s) ==
  /\ s \in SUBSET Entries /\ OncePerStep(s)
  /\ \A q \in Plans \ {p} : q \notin hurt => Due(s, q) = Due(mem.sched, q)
GoodPlans(p, md, rd) ==
  /\ md \in Docs \cup {NoPlan} /\ rd \in Docs \cup {NoPlan}
  /\ md = NoPlan <=> rd = NoPlan

LEMMA ViewsOK == ASSUME PlansTypeOK PROVE ViewOK(mem) /\ ViewOK(redis)
BY DEF PlansTypeOK, ViewOK, OncePerPlan, OncePerStep

\* The parts of the views.
LEMMA ViewParts ==
  ASSUME AllSound
  PROVE  /\ mem.plan \in [Plans -> Docs \cup {NoPlan}] /\ redis.plan \in [Plans -> Docs \cup {NoPlan}]
         /\ mem = [plan |-> mem.plan, idx |-> mem.idx, sched |-> mem.sched]
         /\ redis = [plan |-> redis.plan, idx |-> redis.idx, sched |-> redis.sched]
         /\ \A p \in Plans : /\ GoodIndex(p, mem.idx) /\ GoodIndex(p, redis.idx)
                             /\ GoodSched(p, mem.sched) /\ GoodSched(p, redis.sched)
<1>1. \A v \in Views : /\ v.plan \in [Plans -> Docs \cup {NoPlan}] /\ v.idx \in Seq(IndexEntries)
                       /\ v.sched \in SUBSET Entries
                       /\ v = [plan |-> v.plan, idx |-> v.idx, sched |-> v.sched]
  BY DEF Views
<1> QED BY <1>1 DEF AllSound, ViewOK, GoodIndex, GoodSched, Sound

\* A write about one plan keeps the types, and the other plans as they were.
LEMMA Writes ==
  ASSUME AllSound, NEW p \in Plans, NEW md, NEW rd, NEW mi, NEW ri, NEW ms, NEW rs,
         GoodPlans(p, md, rd), GoodIndex(p, mi), GoodIndex(p, ri),
         GoodSched(p, ms), GoodSched(p, rs),
         WritesTo(p, md, rd, mi, ri, ms, rs)
  PROVE  /\ ViewOK(mem') /\ ViewOK(redis') /\ NoneIsNoPlan' /\ Others(p)
         /\ mem'.plan[p] = md /\ mem'.idx = mi /\ mem'.sched = ms
         /\ \A q \in Plans \ {p} : mem'.plan[q] = mem.plan[q]
         /\ redis'.plan[p] = rd /\ redis'.idx = ri /\ redis'.sched = rs
<1> DEFINE mp == [mem.plan EXCEPT ![p] = md]
           rp == [redis.plan EXCEPT ![p] = rd]
<1>1. /\ mem.plan \in [Plans -> Docs \cup {NoPlan}] /\ redis.plan \in [Plans -> Docs \cup {NoPlan}]
      /\ GoodIndex(p, redis.idx) /\ GoodSched(p, redis.sched)
  BY ViewParts
<1>2. mp \in [Plans -> Docs \cup {NoPlan}] /\ rp \in [Plans -> Docs \cup {NoPlan}]
  BY <1>1 DEF GoodPlans
<1>3. /\ mp[p] = md /\ rp[p] = rd
      /\ \A q \in Plans \ {p} : mp[q] = mem.plan[q] /\ rp[q] = redis.plan[q]
  BY <1>1
<1>4. /\ mem' = [plan |-> mp, idx |-> mi, sched |-> ms]
      /\ redis' = [plan |-> rp, idx |-> ri, sched |-> rs]
  BY DEF WritesTo
<1> HIDE DEF mp, rp
<1>5. /\ mem'.plan = mp /\ mem'.idx = mi /\ mem'.sched = ms
      /\ redis'.plan = rp /\ redis'.idx = ri /\ redis'.sched = rs
  BY <1>4
<1>6. mem' \in Views /\ redis' \in Views
  BY <1>2, <1>4 DEF Views, GoodIndex, GoodSched
<1>7. ViewOK(mem') /\ ViewOK(redis')
  BY <1>5, <1>6 DEF ViewOK, GoodIndex, GoodSched
<1>8. NoneIsNoPlan'
  <2> SUFFICES ASSUME NEW q \in Plans PROVE mp[q] = NoPlan <=> rp[q] = NoPlan
    BY <1>5 DEF NoneIsNoPlan
  <2> QED BY <1>3 DEF AllSound, NoneIsNoPlan, GoodPlans
<1>9. Others(p)
  BY <1>1, <1>3, <1>5 DEF Others, AsBefore, GoodIndex, GoodSched
<1> QED BY <1>3, <1>5, <1>7, <1>8, <1>9

\* The index entry of p is made or changed (planner.py:218-245).
LEMMA IndexWrite ==
  ASSUME AllSound, NEW p \in Plans, NEW st \in PlanStatuses
  PROVE  /\ GoodIndex(p, Indexed(mem.idx, p, st))
         /\ StatusesOf(Indexed(mem.idx, p, st), p) = {st}
<1>1. mem.idx \in Seq(IndexEntries) /\ OncePerPlan(mem.idx)
  BY ViewParts DEF GoodIndex
<1> QED BY <1>1, IndexedIs, IndexedOnce DEF GoodIndex

\* An appointment of p is made, moved or removed.
LEMMA SchedWrite ==
  ASSUME AllSound, NEW p \in Plans, NEW e, e.plan = p
  PROVE  /\ GoodSched(p, Removed(mem.sched, e))
         /\ e \in Entries => GoodSched(p, Added(mem.sched, e)) /\ Due(Added(mem.sched, e), p) # {}
         /\ e \in Entries => \A x \in Added(mem.sched, e) :
              x \in mem.sched \/ (x.plan = p /\ x.step = e.step /\ x.asked = e.asked)
<1>1. mem.sched \in SUBSET Entries /\ OncePerStep(mem.sched)
  BY ViewParts DEF GoodSched
<1>2. GoodSched(p, Removed(mem.sched, e))
  BY <1>1, RemovedIs, ScheduleOnce DEF GoodSched
<1>3. e \in Entries => GoodSched(p, Added(mem.sched, e))
  BY <1>1, AddedIs, ScheduleOnce DEF GoodSched
<1> QED BY <1>1, <1>2, <1>3, AddedIs

-----------------------------------------------------------------------------
(* What the invariant says of a plan, after a step                         *)

LEMMA InvFacts ==
  ASSUME PlansInv
  PROVE  /\ AllSound /\ PlansTypeOK /\ AtEntry
         /\ hurt \subseteq Plans /\ chained \subseteq Plans /\ reopened \subseteq Plans
         /\ stranded \subseteq Plans /\ early \subseteq Plans /\ again \subseteq Plans
         /\ faults \in 0 .. MaxFaults /\ edits \in 0 .. MaxEdits /\ crashes \in 0 .. MaxCrashes
         /\ \A q \in Plans : PlanInv(q)
<1>1. PlansTypeOK /\ AtEntry /\ \A q \in Plans : PlanInv(q)
  BY DEF PlansInv
<1>2. \A q \in Plans : q \notin hurt => Sound(q)
  BY <1>1 DEF PlanInv
<1>3. NoneIsNoPlan
  BY <1>1 DEF PlanInv, NoneIsNoPlan
<1>4. /\ hurt \subseteq Plans /\ chained \subseteq Plans /\ reopened \subseteq Plans
      /\ stranded \subseteq Plans /\ early \subseteq Plans /\ again \subseteq Plans
  BY <1>1 DEF PlansTypeOK
<1> QED BY <1>1, <1>2, <1>3, <1>4, ViewsOK DEF AllSound, PlansTypeOK

\* What excepts a plan from a property excepts it for good.
Monotone == hurt \subseteq hurt' /\ reopened \subseteq reopened' /\ stranded \subseteq stranded'

\* A plan that a step does not write about.
LEMMA Frame ==
  ASSUME NEW q \in Plans, PlanInv(q), AsBefore(q), NoneIsNoPlan', Monotone,
         q \in chained' => q \in chained,
         \A s \in Steps : <<q, s>> \in done' => <<q, s>> \in done,
         \A e \in todo' \cup {cur'} : e # NoEntry /\ e.plan = q => e \in Appointed,
         q \in chained' \ (hurt' \cup stranded' \cup reopened') => Attended(q)'
  PROVE  PlanInv(q)'
<1>1. q \notin hurt' => Sound(q)'
  BY DEF PlanInv, AsBefore, Monotone, Sound
<1>2. ASSUME q \notin hurt' \cup reopened' PROVE Ordered(q)'
  <2>1. Ordered(q) /\ mem'.plan[q] = mem.plan[q] /\ Due(mem'.sched, q) = Due(mem.sched, q)
    BY <1>2 DEF PlanInv, AsBefore, Monotone
  <2>2. \A e \in Appointed' \ {NoEntry} : e.plan = q => e \in Appointed /\ OpenDeps(e)' = OpenDeps(e)
    BY <2>1 DEF Appointed, Due, OpenDeps
  <2> QED BY <2>1, <2>2 DEF Ordered
<1>3. ASSUME q \in chained' \ (hurt' \cup stranded' \cup reopened') PROVE Going(q)'
  <2>1. Going(q) /\ mem'.plan[q] = mem.plan[q]
    BY <1>3 DEF PlanInv, AsBefore, Monotone
  <2> QED BY <1>3, <2>1 DEF Going, OpenSteps
<1> QED BY <1>1, <1>2, <1>3 DEF PlanInv, NoneIsNoPlan

LEMMA AttendedStays ==
  ASSUME NEW q, AsBefore(q), q \notin hurt, Attended(q), UNCHANGED <<ctx, stage, cur, left>>
  PROVE  Attended(q)'
BY DEF AsBefore, Attended, Here, Stuck, InStatus

\* A step about p that leaves the loop where it is.
LEMMA FrameOthers ==
  ASSUME PlansInv, NEW p \in Plans, Others(p), NoneIsNoPlan', Monotone,
         chained' \subseteq chained \cup {p},
         \A q \in Plans \ {p}, s \in Steps : <<q, s>> \in done' => <<q, s>> \in done,
         UNCHANGED <<ctx, stage, todo, cur, left>>
  PROVE  \A q \in Plans \ {p} : PlanInv(q)'
<1> SUFFICES ASSUME NEW q \in Plans \ {p} PROVE PlanInv(q)'
  OBVIOUS
<1>1. PlanInv(q) /\ AsBefore(q)
  BY InvFacts DEF Others
<1>2. ASSUME q \in chained' \ (hurt' \cup stranded' \cup reopened') PROVE Attended(q)'
  <2>1. q \notin hurt /\ Going(q)
    BY <1>1, <1>2 DEF Monotone, PlanInv
  <2> QED BY <1>1, <2>1, AttendedStays DEF Going
<1>3. \A e \in todo' \cup {cur'} : e \in Appointed
  BY DEF Appointed
<1> QED BY <1>1, <1>2, <1>3, Frame

\* An appointment is of a step, and what that depends on are steps.
LEMMA EntryIs ==
  ASSUME PlansTypeOK, NEW e \in Appointed \ {NoEntry}
  PROVE  e \in Entries /\ e.plan \in Plans /\ e.step \in Steps /\ Deps[e.plan][e.step] \subseteq Steps
<1>1. e \in Entries
  BY DEF PlansTypeOK, Appointed, Views
<1> QED BY <1>1, PlanAssumption DEF Entries

\* How many writes fail, and what that hurts.
LEMMA OutcomeIs ==
  ASSUME faults \in 0 .. MaxFaults, NEW k \in Nat, NEW ok \in [1 .. k -> BOOLEAN], Outcome(ok)
  PROVE  faults' \in 0 .. MaxFaults
<1> DEFINE S == {i \in DOMAIN ok : ~ok[i]}
<1>1. IsFiniteSet(1 .. k)
  BY FS_Interval
<1>2. S \subseteq 1 .. k
  OBVIOUS
<1>3. IsFiniteSet(S)
  BY <1>1, <1>2, FS_Subset
<1>4. Cardinality(S) \in Nat
  BY <1>3, FS_CardinalityType
<1> HIDE DEF S
<1>5. faults' = faults + Cardinality(S) /\ faults' <= MaxFaults
  BY DEF Outcome, S
<1> QED BY <1>4, <1>5, PlanAssumption

LEMMA OneOutcome == ASSUME NEW ok \in BOOLEAN PROVE <<ok>> \in [1 .. 1 -> BOOLEAN] /\ DOMAIN <<ok>> = 1 .. 1
OBVIOUS

LEMMA HurtIs ==
  ASSUME NEW p, NEW k \in Nat, NEW ok \in [1 .. k -> BOOLEAN]
  PROVE  HurtBy(p, ok) \subseteq {p} /\ (p \notin HurtBy(p, ok) => \A i \in 1 .. k : ok[i])
BY DEF HurtBy

\* A plan and its index entry are written by a tool (planner.py:207-216), and the
\* steps that are over stay so, or the plan counts as reopened.
LEMMA DocSaved ==
  ASSUME PlansInv, NEW p \in Plans, Exists(p), NEW doc \in Docs, NEW ok \in [1 .. 2 -> BOOLEAN],
         SaveDoc(p, doc, ok), stage \notin {"down", "recover"},
         UNCHANGED <<ctx, stage, todo, cur, left, stranded>>, reopened \subseteq reopened',
         \A q \in Plans \ {p}, s \in Steps : <<q, s>> \in done' => <<q, s>> \in done,
         p \notin hurt \cup reopened' =>
           \A s \in Steps : /\ <<p, s>> \in done' => doc.steps[s] = "completed"
                            /\ Open(doc.steps[s]) => Open(mem.plan[p].steps[s])
  PROVE  /\ ViewOK(mem') /\ ViewOK(redis') /\ faults' \in 0 .. MaxFaults
         /\ hurt \subseteq hurt' /\ hurt' \subseteq Plans /\ chained' \subseteq Plans
         /\ \A q \in Plans : mem.plan[q] # NoPlan => mem'.plan[q] # NoPlan
         /\ \A q \in Plans : PlanInv(q)'
<1> DEFINE idx == Indexed(mem.idx, p, doc.status)
           mi == IF ok[2] \/ mem.idx # <<>> THEN idx ELSE mem.idx
           ri == IF ok[2] THEN idx ELSE redis.idx
           rd == IF ok[1] THEN doc ELSE redis.plan[p]
<1>1. AllSound /\ PlanInv(p) /\ doc.status \in PlanStatuses /\ doc # NoPlan
  BY InvFacts DEF Docs, NoPlan, PlanStatuses
<1>2. GoodIndex(p, idx) /\ StatusesOf(idx, p) = {doc.status}
  BY <1>1, IndexWrite
<1>3. /\ mem.plan \in [Plans -> Docs \cup {NoPlan}] /\ redis.plan \in [Plans -> Docs \cup {NoPlan}]
      /\ GoodIndex(p, mem.idx) /\ GoodIndex(p, redis.idx)
      /\ GoodSched(p, mem.sched) /\ GoodSched(p, redis.sched)
      /\ mem = [plan |-> mem.plan, idx |-> mem.idx, sched |-> mem.sched]
      /\ redis = [plan |-> redis.plan, idx |-> redis.idx, sched |-> redis.sched]
  BY <1>1, ViewParts
<1>4. mem' = [mem EXCEPT !.plan[p] = doc, !.idx = mi] /\ redis' = [redis EXCEPT !.plan[p] = rd, !.idx = ri]
  BY DEF SaveDoc, SavePlan
<1>5. (ok[2] => mi = idx /\ ri = idx) /\ (ok[1] => rd = doc)
  OBVIOUS
<1>6. GoodIndex(p, mi) /\ GoodIndex(p, ri)
  BY <1>2, <1>3
<1>7. GoodPlans(p, doc, rd)
  BY <1>1, <1>3 DEF GoodPlans, AllSound, NoneIsNoPlan, Exists
<1> HIDE DEF idx, mi, ri, rd
<1>8. WritesTo(p, doc, rd, mi, ri, mem.sched, redis.sched)
  BY <1>3, <1>4 DEF WritesTo
<1>9. /\ ViewOK(mem') /\ ViewOK(redis') /\ NoneIsNoPlan' /\ Others(p)
      /\ mem'.plan[p] = doc /\ mem'.idx = mi /\ mem'.sched = mem.sched
      /\ \A q \in Plans \ {p} : mem'.plan[q] = mem.plan[q]
      /\ redis'.plan[p] = rd /\ redis'.idx = ri /\ redis'.sched = redis.sched
  BY <1>1, <1>3, <1>6, <1>7, <1>8, Writes
<1>10. /\ hurt' = hurt \cup HurtBy(p, ok) /\ HurtBy(p, ok) \subseteq {p}
       /\ p \notin HurtBy(p, ok) => ok[1] /\ ok[2]
  <2>1. HurtBy(p, ok) \subseteq {p} /\ (p \notin HurtBy(p, ok) => \A i \in 1 .. 2 : ok[i])
    BY HurtIs
  <2> QED BY <2>1 DEF SaveDoc
<1>11. faults' \in 0 .. MaxFaults
  BY InvFacts, OutcomeIs DEF SaveDoc
<1>12. /\ chained' \subseteq chained \cup {p}
       /\ p \in chained' => /\ doc.status = "active" /\ OpenSteps(doc) # {}
                            /\ p \in chained \/ Due(mem.sched, p) # {}
  BY DEF SaveDoc, Chains, Due
<1>13. Monotone
  BY <1>10 DEF Monotone
<1>14. \A q \in Plans \ {p} : PlanInv(q)'
  BY <1>9, <1>12, <1>13, FrameOthers
<1>15. PlanInv(p)'
  <2>1. ASSUME p \notin hurt' PROVE Sound(p)'
    <3>1. ok[1] /\ ok[2] /\ p \notin hurt
      BY <1>10, <2>1
    <3>2. rd = doc /\ mi = idx /\ ri = idx /\ Due(mem.sched, p) = Due(redis.sched, p)
      BY <1>1, <1>5, <3>1 DEF AllSound, Sound
    <3> QED BY <1>2, <1>9, <3>2 DEF Sound
  <2>2. ASSUME p \notin hurt' \cup reopened' PROVE Ordered(p)'
    <3>1. Ordered(p) /\ p \notin hurt
      BY <1>1, <1>10, <2>2 DEF PlanInv
    <3>2. Appointed' = Appointed
      BY <1>9 DEF Appointed
    <3>3. \A e \in Appointed \ {NoEntry} : e.plan = p => OpenDeps(e)' \subseteq OpenDeps(e)
      <4> SUFFICES ASSUME NEW e \in Appointed \ {NoEntry}, e.plan = p, NEW d \in OpenDeps(e)'
                   PROVE  d \in OpenDeps(e)
        OBVIOUS
      <4>1. d \in Deps[p][e.step] /\ d < e.step /\ Open(doc.steps[d])
        BY <1>9 DEF OpenDeps
      <4>2. d \in Steps
        BY <4>1, EntryIs, InvFacts
      <4> QED BY <2>2, <3>1, <4>1, <4>2 DEF OpenDeps
    <3> QED BY <1>9, <2>2, <3>1, <3>2, <3>3 DEF Ordered
  <2>3. ASSUME p \in chained' \ (hurt' \cup stranded' \cup reopened') PROVE Going(p)'
    <3>1. Attended(p)'
      <4>1. CASE Due(mem.sched, p) # {}
        BY <1>9, <4>1 DEF Attended
      <4>2. CASE p \in chained
        <5>1. Going(p)
          BY <1>1, <1>10, <2>3, <4>2 DEF PlanInv
        <5> QED BY <1>9, <5>1 DEF Going, Attended, Here
      <4> QED BY <1>12, <2>3, <4>1, <4>2
    <3> QED BY <1>9, <1>12, <2>3, <3>1 DEF Going, OpenSteps
  <2>4. mem'.plan[p] = NoPlan <=> redis'.plan[p] = NoPlan
    BY <1>9 DEF NoneIsNoPlan
  <2> QED BY <2>1, <2>2, <2>3, <2>4 DEF PlanInv
<1>16. hurt' \subseteq Plans /\ chained' \subseteq Plans
  BY <1>10, <1>12, InvFacts
<1> QED BY <1>1, <1>9, <1>10, <1>11, <1>14, <1>15, <1>16

-----------------------------------------------------------------------------
(* The tools                                                               *)

\* What a tool call leaves to be shown.
LEMMA ToolKeeps ==
  ASSUME PlansInv, ViewOK(mem'), ViewOK(redis'),
         faults' \in 0 .. MaxFaults, edits' \in 0 .. MaxEdits, told' \in BOOLEAN,
         UNCHANGED <<ctx, stage, todo, cur, left, recovered, crashes, early, again, stranded>>,
         done' \subseteq Plans \X Steps, hurt \subseteq hurt', hurt' \subseteq Plans,
         reopened \subseteq reopened', reopened' \subseteq Plans, chained' \subseteq Plans,
         \A q \in Plans : mem.plan[q] # NoPlan => mem'.plan[q] # NoPlan,
         \A q \in Plans : PlanInv(q)'
  PROVE  PlansInv'
<1>1. PlansTypeOK'
  BY DEF PlansInv, PlansTypeOK, ViewOK, OncePerPlan, OncePerStep
<1>2. AtEntry'
  BY DEF PlansInv, AtEntry, Entries, Visible, Here, Exists
<1>3. DependenciesFirst' /\ DoneOnce'
  BY DEF PlansInv, DependenciesFirst, DoneOnce
<1> QED BY <1>1, <1>2, <1>3 DEF PlansInv

\* A new plan is a draft: nothing has been done, and no chain begun.
LEMMA CreateStep == ASSUME PlansInv, NEW p \in Plans, CreatePlan(p) PROVE PlansInv'
<1> DEFINE doc == [status |-> "draft", steps |-> [s \in Steps |-> "pending"]]
<1>1. /\ mem' = [mem EXCEPT !.plan[p] = doc] /\ redis' = [redis EXCEPT !.plan[p] = doc]
      /\ mem.plan[p] = NoPlan /\ stage \notin {"down", "recover"}
      /\ UNCHANGED <<loopVars, bounds, history>>
  BY DEF CreatePlan, Exists
<1>2. /\ doc \in Docs /\ doc # NoPlan /\ doc.status = "draft" /\ doc.steps = NoPlan.steps
      /\ \A s \in Steps : NoPlan.steps[s] = "pending"
      /\ NoPlan.status = "none"
  BY DEF Docs, NoPlan, PlanStatuses, StepStatuses
<1> HIDE DEF doc
<1>3. AllSound /\ PlanInv(p)
  BY InvFacts
<1>4. /\ GoodIndex(p, mem.idx) /\ GoodIndex(p, redis.idx)
      /\ GoodSched(p, mem.sched) /\ GoodSched(p, redis.sched)
      /\ mem = [plan |-> mem.plan, idx |-> mem.idx, sched |-> mem.sched]
      /\ redis = [plan |-> redis.plan, idx |-> redis.idx, sched |-> redis.sched]
  BY <1>3, ViewParts
<1>5. GoodPlans(p, doc, doc)
  BY <1>2 DEF GoodPlans
<1>6. WritesTo(p, doc, doc, mem.idx, redis.idx, mem.sched, redis.sched)
  BY <1>1, <1>4 DEF WritesTo
<1>7. /\ ViewOK(mem') /\ ViewOK(redis') /\ NoneIsNoPlan' /\ Others(p)
      /\ mem'.plan[p] = doc /\ mem'.idx = mem.idx /\ mem'.sched = mem.sched
      /\ \A q \in Plans \ {p} : mem'.plan[q] = mem.plan[q]
      /\ redis'.plan[p] = doc /\ redis'.idx = redis.idx /\ redis'.sched = redis.sched
  BY <1>3, <1>4, <1>5, <1>6, Writes
<1>8. \A q \in Plans \ {p} : PlanInv(q)'
  BY <1>1, <1>7, FrameOthers DEF Monotone, loopVars, history
<1>9. PlanInv(p)'
  <2>1. ASSUME p \notin hurt' PROVE Sound(p)'
    BY <1>1, <1>2, <1>3, <1>7, <2>1 DEF PlanInv, Sound, history
  <2>2. ASSUME p \notin hurt' \cup reopened' PROVE Ordered(p)'
    <3>1. Ordered(p)
      BY <1>1, <1>3, <2>2 DEF PlanInv, history
    <3>2. \A s \in Steps : <<p, s>> \notin done
      BY <1>1, <1>2, <3>1 DEF Ordered
    <3>3. Appointed' = Appointed /\ done' = done
      BY <1>1, <1>7 DEF Appointed, loopVars, history
    <3>4. \A e \in Appointed : e.plan = p => OpenDeps(e)' = OpenDeps(e)
      BY <1>1, <1>2, <1>7 DEF OpenDeps
    <3> QED BY <3>1, <3>2, <3>3, <3>4 DEF Ordered
  <2>3. p \notin chained' \ (hurt' \cup stranded' \cup reopened')
    BY <1>1, <1>2, <1>3 DEF PlanInv, Going, history
  <2> QED BY <1>2, <1>7, <2>1, <2>2, <2>3 DEF PlanInv
<1>10. \A q \in Plans : mem.plan[q] # NoPlan => mem'.plan[q] # NoPlan
  BY <1>1, <1>7
<1>11. done \subseteq Plans \X Steps /\ told \in BOOLEAN
  BY DEF PlansInv, PlansTypeOK
<1> QED BY <1>1, <1>7, <1>8, <1>9, <1>10, <1>11, InvFacts, ToolKeeps DEF loopVars, bounds, history

\* What the tools know of a plan that exists, and may count on if it is sound.
LEMMA PlanIs ==
  ASSUME PlansInv, NEW p \in Plans, Exists(p)
  PROVE  /\ mem.plan[p] \in Docs
         /\ p \notin hurt \cup reopened => \A s \in Steps : <<p, s>> \in done => mem.plan[p].steps[s] = "completed"
<1>1. mem.plan \in [Plans -> Docs \cup {NoPlan}]
  BY InvFacts, ViewParts
<1> QED BY <1>1, InvFacts DEF Exists, PlanInv, Ordered

LEMMA EditIs == ASSUME PlansInv, Edit PROVE edits' \in 0 .. MaxEdits /\ stage \notin {"down", "recover"}
BY InvFacts, PlanAssumption DEF Edit

\* Activating a plan sets no step back (planner.py:95-109).
LEMMA ActivateStep ==
  ASSUME PlansInv, NEW p \in Plans, NEW ok \in [1 .. 2 -> BOOLEAN], ActivatePlan(p, ok)
  PROVE  PlansInv'
<1> DEFINE doc == Activated(mem.plan[p])
<1>1. /\ Edit /\ Exists(p) /\ SaveDoc(p, doc, ok)
      /\ UNCHANGED <<loopVars, crashes, reopened, early, done, again, stranded>>
  BY DEF ActivatePlan
<1>2. /\ doc \in Docs /\ Keeps(mem.plan[p], doc)
      /\ p \notin hurt \cup reopened => \A s \in Steps : <<p, s>> \in done => mem.plan[p].steps[s] = "completed"
  BY <1>1, PlanIs, ActivatedKeeps
<1> HIDE DEF doc
<1>3. p \notin hurt \cup reopened' =>
        \A s \in Steps : /\ <<p, s>> \in done' => doc.steps[s] = "completed"
                         /\ Open(doc.steps[s]) => Open(mem.plan[p].steps[s])
  BY <1>1, <1>2 DEF Keeps, KeepsStep, Open
<1>4. /\ ViewOK(mem') /\ ViewOK(redis') /\ faults' \in 0 .. MaxFaults
      /\ hurt \subseteq hurt' /\ hurt' \subseteq Plans /\ chained' \subseteq Plans
      /\ \A q \in Plans : mem.plan[q] # NoPlan => mem'.plan[q] # NoPlan
      /\ \A q \in Plans : PlanInv(q)'
  BY <1>1, <1>2, <1>3, EditIs, DocSaved DEF loopVars
<1>5. done \subseteq Plans \X Steps /\ told \in BOOLEAN
  BY DEF PlansInv, PlansTypeOK
<1> QED BY <1>1, <1>4, <1>5, EditIs, InvFacts, ToolKeeps DEF loopVars

\* Neither does cancelling one (planner.py:154-162).
LEMMA CancelPlanStep ==
  ASSUME PlansInv, NEW p \in Plans, NEW ok \in [1 .. 2 -> BOOLEAN], CancelPlan(p, ok)
  PROVE  PlansInv'
<1> DEFINE doc == [mem.plan[p] EXCEPT !.status = "cancelled"]
<1>1. /\ Edit /\ Exists(p) /\ SaveDoc(p, doc, ok)
      /\ UNCHANGED <<loopVars, crashes, reopened, early, done, again, stranded>>
  BY DEF CancelPlan
<1>2. /\ mem.plan[p] \in Docs
      /\ p \notin hurt \cup reopened => \A s \in Steps : <<p, s>> \in done => mem.plan[p].steps[s] = "completed"
  BY <1>1, PlanIs
<1>3. doc \in Docs /\ doc.steps = mem.plan[p].steps
  BY <1>2 DEF Docs, PlanStatuses
<1> HIDE DEF doc
<1>4. p \notin hurt \cup reopened' =>
        \A s \in Steps : /\ <<p, s>> \in done' => doc.steps[s] = "completed"
                         /\ Open(doc.steps[s]) => Open(mem.plan[p].steps[s])
  BY <1>1, <1>2, <1>3
<1>5. /\ ViewOK(mem') /\ ViewOK(redis') /\ faults' \in 0 .. MaxFaults
      /\ hurt \subseteq hurt' /\ hurt' \subseteq Plans /\ chained' \subseteq Plans
      /\ \A q \in Plans : mem.plan[q] # NoPlan => mem'.plan[q] # NoPlan
      /\ \A q \in Plans : PlanInv(q)'
  BY <1>1, <1>3, <1>4, EditIs, DocSaved DEF loopVars
<1>6. done \subseteq Plans \X Steps /\ told \in BOOLEAN
  BY DEF PlansInv, PlansTypeOK
<1> QED BY <1>1, <1>5, <1>6, EditIs, InvFacts, ToolKeeps DEF loopVars

\* A step is set to st: what was over stays over, or the plan is reopened.
LEMMA StatusSet ==
  ASSUME PlansInv, NEW p \in Plans, Exists(p), NEW s \in Steps, NEW st \in StepStatuses,
         NEW doc, doc = Updated(p, mem.plan[p], s, st),
         Completes(p, s, st),
         p \notin reopened' => /\ ~Open(st) /\ p \notin reopened
                               /\ st = "completed" \/ mem.plan[p].steps[s] # "completed"
  PROVE  /\ doc \in Docs /\ done' \subseteq Plans \X Steps
         /\ \A q \in Plans \ {p}, t \in Steps : <<q, t>> \in done' => <<q, t>> \in done
         /\ p \notin hurt \cup reopened' =>
              \A t \in Steps : /\ <<p, t>> \in done' => doc.steps[t] = "completed"
                               /\ Open(doc.steps[t]) => Open(mem.plan[p].steps[t])
<1>1. /\ mem.plan[p] \in Docs
      /\ p \notin hurt \cup reopened => \A t \in Steps : <<p, t>> \in done => mem.plan[p].steps[t] = "completed"
  BY PlanIs
<1>2. /\ doc \in Docs /\ doc.steps[s] = st
      /\ \A t \in Steps \ {s} : KeepsStep(mem.plan[p], doc, t)
  BY <1>1, UpdatedKeeps
<1>3. done' = (IF st = "completed" THEN done \cup {<<p, s>>} ELSE done) /\ done \subseteq Plans \X Steps
  BY DEF Completes, PlansInv, PlansTypeOK
<1>4. ASSUME p \notin hurt \cup reopened', NEW t \in Steps
      PROVE  /\ <<p, t>> \in done' => doc.steps[t] = "completed"
             /\ Open(doc.steps[t]) => Open(mem.plan[p].steps[t])
  <2>1. CASE t = s
    BY <1>1, <1>2, <1>3, <1>4, <2>1
  <2>2. CASE t # s
    <3>1. KeepsStep(mem.plan[p], doc, t) /\ (<<p, t>> \in done' => <<p, t>> \in done)
      BY <1>2, <1>3, <2>2
    <3> QED BY <1>1, <1>4, <3>1 DEF KeepsStep, Open
  <2> QED BY <2>1, <2>2
<1> QED BY <1>2, <1>3, <1>4

\* update_plan_step by a user (planner.py:112-151).
LEMMA UpdateStepStep ==
  ASSUME PlansInv, NEW p \in Plans, NEW ok \in [1 .. 2 -> BOOLEAN], NEW s \in Steps,
         NEW st \in UserStatuses, UpdateStep(p, s, st, ok)
  PROVE  PlansInv'
<1> DEFINE doc == Updated(p, mem.plan[p], s, st)
<1>1. /\ Edit /\ Exists(p) /\ SaveDoc(p, doc, ok) /\ Completes(p, s, st)
      /\ st # mem.plan[p].steps[s]
      /\ reopened' = IF Open(st) \/ mem.plan[p].steps[s] = "completed" THEN reopened \cup {p} ELSE reopened
      /\ UNCHANGED <<loopVars, crashes, early, again, stranded>>
  BY DEF UpdateStep
<1>2. st \in StepStatuses
  BY PlanAssumption DEF StepStatuses
<1>3. /\ doc \in Docs /\ done' \subseteq Plans \X Steps
      /\ \A q \in Plans \ {p}, t \in Steps : <<q, t>> \in done' => <<q, t>> \in done
      /\ p \notin hurt \cup reopened' =>
           \A t \in Steps : /\ <<p, t>> \in done' => doc.steps[t] = "completed"
                            /\ Open(doc.steps[t]) => Open(mem.plan[p].steps[t])
  BY <1>1, <1>2, StatusSet
<1> HIDE DEF doc
<1>4. /\ ViewOK(mem') /\ ViewOK(redis') /\ faults' \in 0 .. MaxFaults
      /\ hurt \subseteq hurt' /\ hurt' \subseteq Plans /\ chained' \subseteq Plans
      /\ \A q \in Plans : mem.plan[q] # NoPlan => mem'.plan[q] # NoPlan
      /\ \A q \in Plans : PlanInv(q)'
  BY <1>1, <1>3, EditIs, DocSaved DEF loopVars
<1>5. told \in BOOLEAN /\ reopened' \subseteq Plans
  BY <1>1, InvFacts DEF PlansInv, PlansTypeOK
<1> QED BY <1>1, <1>3, <1>4, <1>5, EditIs, InvFacts, ToolKeeps DEF loopVars

\* The running agent reports its step (scheduler.py:131-190).
LEMMA ReportStep ==
  ASSUME PlansInv, NEW st \in {"completed", "blocked"}, NEW ok \in [1 .. 2 -> BOOLEAN], Report(st, ok)
  PROVE  PlansInv'
<1> DEFINE p == cur.plan s == cur.step doc == Updated(p, mem.plan[p], s, st)
<1>1. /\ stage = "run" /\ told' = TRUE /\ SaveDoc(p, doc, ok) /\ Completes(p, s, st)
      /\ reopened' = IF st # "completed" /\ mem.plan[p].steps[s] = "completed" THEN reopened \cup {p} ELSE reopened
      /\ UNCHANGED <<ctx, stage, todo, cur, left, recovered, edits, crashes, early, again, stranded>>
  BY DEF Report
<1>2. p \in Plans /\ s \in Steps /\ Exists(p) /\ st \in StepStatuses /\ ~Open(st)
  BY <1>1 DEF PlansInv, AtEntry, Entries, Visible, StepStatuses, Open
<1> HIDE DEF p, s
<1>3. /\ doc \in Docs /\ done' \subseteq Plans \X Steps
      /\ \A q \in Plans \ {p}, t \in Steps : <<q, t>> \in done' => <<q, t>> \in done
      /\ p \notin hurt \cup reopened' =>
           \A t \in Steps : /\ <<p, t>> \in done' => doc.steps[t] = "completed"
                            /\ Open(doc.steps[t]) => Open(mem.plan[p].steps[t])
  BY <1>1, <1>2, StatusSet
<1> HIDE DEF doc
<1>4. /\ ViewOK(mem') /\ ViewOK(redis') /\ faults' \in 0 .. MaxFaults
      /\ hurt \subseteq hurt' /\ hurt' \subseteq Plans /\ chained' \subseteq Plans
      /\ \A q \in Plans : mem.plan[q] # NoPlan => mem'.plan[q] # NoPlan
      /\ \A q \in Plans : PlanInv(q)'
  BY <1>1, <1>2, <1>3, DocSaved
<1>5. reopened' \subseteq Plans
  BY <1>1, <1>2, InvFacts
<1> QED BY <1>1, <1>3, <1>4, <1>5, InvFacts, ToolKeeps


\* An appointment is made (scheduler.py:78-105); its write may fail.
LEMMA SchedSaved ==
  ASSUME PlansInv, NEW p \in Plans, NEW e \in Entries, e.plan = p, NEW ok \in BOOLEAN,
         SaveAdded(e, ok), UNCHANGED done, reopened \subseteq reopened', hurt \subseteq hurt',
         \A x \in todo' \cup {cur'} : x = NoEntry \/ x \in Appointed,
         p \notin hurt \cup reopened /\ ~e.asked => OpenDeps(e) = {}
  PROVE  /\ ViewOK(mem') /\ ViewOK(redis') /\ NoneIsNoPlan' /\ Others(p)
         /\ mem'.plan = mem.plan /\ Due(mem'.sched, p) # {}
         /\ ok /\ p \notin hurt' => Sound(p)'
         /\ p \notin hurt' \cup reopened' => Ordered(p)'
<1> DEFINE ms == Added(mem.sched, e)
           rs == IF ok THEN ms ELSE redis.sched
<1>1. AllSound /\ PlanInv(p)
  BY InvFacts
<1>2. /\ mem.plan \in [Plans -> Docs \cup {NoPlan}] /\ redis.plan \in [Plans -> Docs \cup {NoPlan}]
      /\ GoodIndex(p, mem.idx) /\ GoodIndex(p, redis.idx) /\ GoodSched(p, redis.sched)
      /\ mem = [plan |-> mem.plan, idx |-> mem.idx, sched |-> mem.sched]
      /\ redis = [plan |-> redis.plan, idx |-> redis.idx, sched |-> redis.sched]
  BY <1>1, ViewParts
<1>3. /\ GoodSched(p, ms) /\ Due(ms, p) # {}
      /\ \A x \in ms : x \in mem.sched \/ (x.plan = p /\ x.step = e.step /\ x.asked = e.asked)
  BY <1>1, SchedWrite
<1>4. mem' = [mem EXCEPT !.sched = ms] /\ redis' = [redis EXCEPT !.sched = rs] /\ (ok => rs = ms)
  BY DEF SaveAdded
<1>5. GoodSched(p, rs)
  BY <1>2, <1>3
<1> HIDE DEF ms, rs
<1>6. WritesTo(p, mem.plan[p], redis.plan[p], mem.idx, redis.idx, ms, rs)
  BY <1>2, <1>4 DEF WritesTo
<1>7. GoodPlans(p, mem.plan[p], redis.plan[p])
  BY <1>1, <1>2 DEF GoodPlans, AllSound, NoneIsNoPlan
<1>8. /\ ViewOK(mem') /\ ViewOK(redis') /\ NoneIsNoPlan' /\ Others(p)
      /\ mem'.idx = mem.idx /\ mem'.sched = ms /\ redis'.idx = redis.idx /\ redis'.sched = rs
  BY <1>1, <1>2, <1>3, <1>5, <1>6, <1>7, Writes
<1>9. mem'.plan = mem.plan /\ redis'.plan = redis.plan
  BY <1>2, <1>4
<1>10. ASSUME ok, p \notin hurt' PROVE Sound(p)'
  BY <1>1, <1>4, <1>8, <1>9, <1>10 DEF AllSound, Sound
<1>11. ASSUME p \notin hurt' \cup reopened' PROVE Ordered(p)'
  <2>1. Ordered(p) /\ p \notin hurt \cup reopened
    BY <1>1, <1>11 DEF PlanInv
  <2>2. \A x \in Appointed' \ {NoEntry} : x \in Appointed \/ (x.plan = p /\ x.step = e.step /\ x.asked = e.asked)
    BY <1>3, <1>8 DEF Appointed
  <2>3. \A x : OpenDeps(x)' = OpenDeps(x)
    BY <1>9 DEF OpenDeps
  <2>4. \A x : x.plan = p /\ x.step = e.step => OpenDeps(x) = OpenDeps(e)
    BY DEF OpenDeps
  <2>5. ASSUME NEW x \in Appointed' \ {NoEntry}, x.plan = p, ~x.asked PROVE OpenDeps(x)' = {}
    <3>1. CASE x \in Appointed
      BY <2>1, <2>3, <2>5, <3>1 DEF Ordered
    <3>2. CASE x.plan = p /\ x.step = e.step /\ x.asked = e.asked
      BY <2>1, <2>3, <2>4, <2>5, <3>2
    <3> QED BY <2>2, <3>1, <3>2
  <2> QED BY <1>9, <2>1, <2>5 DEF Ordered
<1> QED BY <1>3, <1>8, <1>9, <1>10, <1>11

\* schedule_plan_step by a user.
LEMMA ScheduleStepStep ==
  ASSUME PlansInv, NEW p \in Plans, NEW s \in Steps, NEW ok \in BOOLEAN, ScheduleStep(p, s, ok)
  PROVE  PlansInv'
<1> DEFINE e == Entry(p, s, TRUE, TRUE)
<1>1. /\ Edit /\ Exists(p) /\ Outcome(<<ok>>) /\ SaveAdded(e, ok)
      /\ hurt' = hurt \cup HurtBy(p, <<ok>>)
      /\ Chains(p, mem.plan[p], mem'.sched)
      /\ UNCHANGED <<loopVars, crashes, reopened, early, done, again, stranded>>
  BY DEF ScheduleStep
<1>2. e \in Entries /\ e.plan = p /\ e.asked
  BY DEF Entry, Entries
<1> HIDE DEF e
<1>3. \A x \in todo' \cup {cur'} : x \in Appointed
  BY <1>1 DEF loopVars, Appointed
<1>4. <<ok>> \in [1 .. 1 -> BOOLEAN]
  BY OneOutcome
<1>5. HurtBy(p, <<ok>>) \subseteq {p} /\ (p \notin HurtBy(p, <<ok>>) => ok)
  BY <1>4 DEF HurtBy
<1>6. faults' \in 0 .. MaxFaults
  BY <1>1, <1>4, InvFacts, OutcomeIs
<1>7. /\ ViewOK(mem') /\ ViewOK(redis') /\ NoneIsNoPlan' /\ Others(p)
      /\ mem'.plan = mem.plan /\ Due(mem'.sched, p) # {}
      /\ ok /\ p \notin hurt' => Sound(p)'
      /\ p \notin hurt' \cup reopened' => Ordered(p)'
  BY <1>1, <1>2, <1>3, SchedSaved
<1>8. /\ chained' \subseteq chained \cup {p}
      /\ p \in chained' => mem.plan[p].status = "active" /\ OpenSteps(mem.plan[p]) # {}
  BY <1>1 DEF Chains
<1>9. Monotone /\ hurt' \subseteq Plans /\ chained' \subseteq Plans
  BY <1>1, <1>5, <1>8, InvFacts DEF Monotone
<1>10. \A q \in Plans \ {p} : PlanInv(q)'
  BY <1>1, <1>7, <1>8, <1>9, FrameOthers DEF loopVars
<1>11. PlanInv(p)'
  <2>1. p \in chained' => Going(p)'
    BY <1>7, <1>8 DEF Going, OpenSteps, Attended
  <2>2. mem'.plan[p] = NoPlan <=> redis'.plan[p] = NoPlan
    BY <1>7 DEF NoneIsNoPlan
  <2> QED BY <1>1, <1>5, <1>7, <2>1, <2>2 DEF PlanInv
<1>12. \A q \in Plans : mem.plan[q] # NoPlan => mem'.plan[q] # NoPlan
  BY <1>7
<1>13. done \subseteq Plans \X Steps /\ told \in BOOLEAN
  BY DEF PlansInv, PlansTypeOK
<1> QED BY <1>1, <1>6, <1>7, <1>9, <1>10, <1>11, <1>12, <1>13, EditIs, InvFacts, ToolKeeps DEF loopVars

-----------------------------------------------------------------------------
(* The loop                                                                *)

\* Whose turn it is, and what the loop has at hand.
LoopOK ==
  /\ ctx \in Tenants
  /\ stage \in {"idle", "next", "start", "run", "told", "recover", "down"}
  /\ todo \subseteq Entries /\ cur \in Entries \cup {NoEntry}
  /\ told \in BOOLEAN /\ recovered \in BOOLEAN
  /\ left \in Seq(Plans)

\* The bounds, and what is remembered.
HistoryOK ==
  /\ edits \in 0 .. MaxEdits /\ faults \in 0 .. MaxFaults /\ crashes \in 0 .. MaxCrashes
  /\ done \subseteq Plans \X Steps
  /\ hurt \subseteq Plans /\ reopened \subseteq Plans /\ early \subseteq Plans
  /\ again \subseteq Plans /\ chained \subseteq Plans /\ stranded \subseteq Plans

LEMMA TypeIs == PlansTypeOK <=> ViewOK(mem) /\ ViewOK(redis) /\ LoopOK /\ HistoryOK
BY DEF PlansTypeOK, ViewOK, OncePerPlan, OncePerStep, LoopOK, HistoryOK

\* What a step of the loop leaves to be shown.
LEMMA LoopKeeps ==
  ASSUME PlansInv, ViewOK(mem'), ViewOK(redis'), LoopOK', HistoryOK', AtEntry',
         hurt \subseteq hurt', reopened \subseteq reopened', UNCHANGED <<early, again>>,
         \A q \in Plans : PlanInv(q)'
  PROVE  PlansInv'
<1>1. PlansTypeOK'
  BY DEF PlansTypeOK, ViewOK, OncePerPlan, OncePerStep, LoopOK, HistoryOK
<1>2. DependenciesFirst' /\ DoneOnce'
  BY DEF PlansInv, DependenciesFirst, DoneOnce
<1> QED BY <1>1, <1>2 DEF PlansInv

LEMMA TypeParts == ASSUME PlansInv PROVE LoopOK /\ HistoryOK /\ ViewOK(mem) /\ ViewOK(redis)
BY TypeIs DEF PlansInv

\* A step that writes nothing: every plan that is attended to has to stay so.
LEMMA FrameAll ==
  ASSUME PlansInv, UNCHANGED <<mem, redis, hurt, reopened, done, chained>>, stranded \subseteq stranded',
         \A e \in todo' \cup {cur'} : e = NoEntry \/ e \in Appointed,
         \A q \in Plans \ stranded' : q \in chained \ (hurt \cup reopened) /\ Going(q) => Attended(q)'
  PROVE  \A q \in Plans : PlanInv(q)'
<1> SUFFICES ASSUME NEW q \in Plans PROVE PlanInv(q)'
  OBVIOUS
<1>1. PlanInv(q) /\ AllSound
  BY InvFacts
<1>2. AsBefore(q) /\ NoneIsNoPlan' /\ Monotone
  BY <1>1 DEF AsBefore, AllSound, NoneIsNoPlan, Monotone
<1>3. ASSUME q \in chained' \ (hurt' \cup stranded' \cup reopened') PROVE Attended(q)'
  BY <1>1, <1>3 DEF PlanInv
<1> QED BY <1>1, <1>2, <1>3, Frame

\* A step about p at which the loop may move on: other plans keep what attends
\* to them, which is neither the loop nor the recovery.
LEMMA LoopOthers ==
  ASSUME PlansInv, NEW p \in Plans, cur.plan = p, stage \notin {"down", "recover"},
         Others(p), NoneIsNoPlan', Monotone, chained' \subseteq chained \cup {p}, UNCHANGED done,
         \A e \in todo' \cup {cur'} : e = NoEntry \/ e \in Appointed
  PROVE  \A q \in Plans \ {p} : PlanInv(q)'
<1> SUFFICES ASSUME NEW q \in Plans \ {p} PROVE PlanInv(q)'
  OBVIOUS
<1>1. PlanInv(q) /\ AsBefore(q)
  BY InvFacts DEF Others
<1>2. ASSUME q \in chained' \ (hurt' \cup stranded' \cup reopened') PROVE Attended(q)'
  <2>1. q \notin hurt /\ Going(q)
    BY <1>1, <1>2 DEF Monotone, PlanInv
  <2>2. Due(mem.sched, q) # {}
    BY <2>1 DEF Going, Attended
  <2> QED BY <1>1, <2>1, <2>2 DEF AsBefore, Attended
<1> QED BY <1>1, <1>2, Frame

\* The next step of the plan is scheduled: the first open one, on which no open
\* step before it can be waited for (scheduler.py:297-338).
LEMMA ScheduleNextStep ==
  ASSUME PlansInv, NEW ok \in BOOLEAN, ScheduleNext(ok)
  PROVE  PlansInv'
<1>0. cur \in Entries /\ cur.plan \in Plans
  BY DEF ScheduleNext, PlansInv, AtEntry, Entries
<1> PICK p \in Plans : p = cur.plan
  BY <1>0
<1> DEFINE S == OpenSteps(mem.plan[p])
<1>1. /\ stage = "told" /\ stage' = "next" /\ cur' = NoEntry
      /\ UNCHANGED <<ctx, todo, told, left, recovered, edits, crashes,
                     reopened, early, done, again, stranded>>
  BY DEF ScheduleNext
<1>2. LoopOK /\ HistoryOK /\ ViewOK(mem) /\ ViewOK(redis)
  BY TypeParts
<1>3. LoopOK' /\ AtEntry'
  BY <1>1, <1>2 DEF LoopOK, AtEntry
<1>4. \A x \in todo' \cup {cur'} : x = NoEntry \/ x \in Appointed
  BY <1>1 DEF Appointed
<1>5. CASE Visible(p) /\ mem.plan[p].status = "active" /\ S # {}
  <2>1. PICK s \in S : /\ IsFirst(s, S) /\ Outcome(<<ok>>)
                       /\ SaveAdded(Entry(p, s, cur.named, FALSE), ok)
                       /\ hurt' = hurt \cup HurtBy(p, <<ok>>)
                       /\ chained' = chained \cup {p}
    BY <1>5 DEF ScheduleNext, NextSteps
  <2> DEFINE e == Entry(p, s, cur.named, FALSE)
  <2>2. s \in Steps /\ e \in Entries /\ e.plan = p /\ e.step = s
    BY <1>0 DEF Entry, Entries, OpenSteps
  <2>3. OpenDeps(e) = {}
    <3> SUFFICES ASSUME NEW d \in OpenDeps(e) PROVE FALSE
      OBVIOUS
    <3>1. d \in Deps[p][s] /\ d < s /\ Open(mem.plan[p].steps[d])
      BY <2>2 DEF OpenDeps
    <3>2. d \in Steps /\ s \in Steps /\ Steps \subseteq Nat
      BY <1>2, <2>2, <3>1, PlanAssumption DEF Steps
    <3>3. s <= d
      BY <2>1, <3>1, <3>2 DEF IsFirst, OpenSteps
    <3> QED BY <3>1, <3>2, <3>3
  <2>4. SaveAdded(e, ok)
    BY <2>1
  <2> HIDE DEF e
  <2>5. <<ok>> \in [1 .. 1 -> BOOLEAN]
    BY OneOutcome
  <2>6. HurtBy(p, <<ok>>) \subseteq {p} /\ (p \notin HurtBy(p, <<ok>>) => ok)
    BY <2>5 DEF HurtBy
  <2>7. faults' \in 0 .. MaxFaults
    BY <2>1, <2>5, InvFacts, OutcomeIs
  <2>8. Monotone /\ hurt' \subseteq Plans /\ chained' \subseteq Plans
    BY <1>1, <1>2, <2>1, <2>6, InvFacts DEF Monotone
  <2>9. /\ ViewOK(mem') /\ ViewOK(redis') /\ NoneIsNoPlan' /\ Others(p)
        /\ mem'.plan = mem.plan /\ Due(mem'.sched, p) # {}
        /\ ok /\ p \notin hurt' => Sound(p)'
        /\ p \notin hurt' \cup reopened' => Ordered(p)'
    BY <1>1, <1>2, <1>4, <2>2, <2>3, <2>4, <2>8, SchedSaved DEF Monotone
  <2>10. \A q \in Plans \ {p} : PlanInv(q)'
    BY <1>1, <1>2, <1>4, <2>1, <2>8, <2>9, LoopOthers
  <2>11. PlanInv(p)'
    <3>1. Going(p)'
      BY <1>5, <2>9 DEF Going, OpenSteps, Attended
    <3>2. mem'.plan[p] = NoPlan <=> redis'.plan[p] = NoPlan
      BY <1>2, <2>9 DEF NoneIsNoPlan
    <3> QED BY <2>1, <2>6, <2>9, <3>1, <3>2 DEF PlanInv
  <2>12. HistoryOK'
    BY <1>1, <1>2, <2>7, <2>8 DEF HistoryOK
  <2> QED BY <1>1, <1>3, <2>8, <2>9, <2>10, <2>11, <2>12, LoopKeeps DEF Monotone
<1>6. CASE ~(Visible(p) /\ mem.plan[p].status = "active" /\ S # {})
  <2>1. UNCHANGED <<mem, redis, faults, hurt, chained>>
    BY <1>6 DEF ScheduleNext, NextSteps
  <2>2. ASSUME NEW q \in Plans, Going(q) PROVE Attended(q)'
    <3>1. CASE Due(mem.sched, q) # {}
      BY <2>1, <3>1 DEF Attended
    <3>2. CASE cur.plan = q /\ Here(q)
      <4>1. mem.plan[q] # NoPlan
        BY <2>2 DEF Going, NoPlan
      <4> QED BY <1>6, <2>2, <3>2, <4>1 DEF Going, Visible, Exists
    <3> QED BY <1>1, <2>2, <3>1, <3>2 DEF Going, Attended
  <2>3. \A q \in Plans : PlanInv(q)'
    BY <1>1, <1>4, <2>1, <2>2, FrameAll
  <2>4. HistoryOK' /\ ViewOK(mem') /\ ViewOK(redis')
    BY <1>1, <1>2, <2>1 DEF HistoryOK
  <2> QED BY <1>1, <1>3, <2>1, <2>3, <2>4, LoopKeeps
<1> QED BY <1>5, <1>6

\* The schedule without the entry the loop is at, if the removal is written.
Taken(sched, ok) == IF ok /\ Here(cur.plan) THEN Removed(mem.sched, cur) ELSE sched

\* The loop is done with the step it is at: its appointment is removed, and it
\* is the loop's turn to make the next one (scheduler.py:282).
LEMMA StepOver ==
  ASSUME PlansInv, NEW p \in Plans, cur.plan = p, stage \in {"start", "run"}, stage' = "told",
         UNCHANGED <<ctx, todo, cur, left, done, stranded>>,
         NEW md, NEW rd, NEW mi, NEW ri, NEW ok \in BOOLEAN,
         GoodPlans(p, md, rd), GoodIndex(p, mi), GoodIndex(p, ri),
         WritesTo(p, md, rd, mi, ri, Taken(mem.sched, ok), Taken(redis.sched, ok)),
         hurt \subseteq hurt', reopened \subseteq reopened', chained' \subseteq chained,
         p \notin hurt' => /\ ok /\ md = rd /\ StatusesOf(mi, p) = StatusesOf(ri, p)
                           /\ md.status = "active" => "active" \in StatusesOf(mi, p),
         p \notin hurt' \cup reopened' =>
           \A s \in Steps : /\ <<p, s>> \in done => md.steps[s] = "completed"
                            /\ Open(md.steps[s]) => Open(mem.plan[p].steps[s]),
         p \in chained' /\ mem.plan[p].status = "active" /\ OpenSteps(mem.plan[p]) # {} =>
           md.status = "active" /\ OpenSteps(md) # {}
  PROVE  ViewOK(mem') /\ ViewOK(redis') /\ \A q \in Plans : PlanInv(q)'
<1> DEFINE ms == Taken(mem.sched, ok)
           rs == Taken(redis.sched, ok)
<1>1. AllSound /\ PlanInv(p) /\ cur \in Entries
  BY InvFacts DEF AtEntry
<1>2. GoodSched(p, mem.sched) /\ GoodSched(p, redis.sched) /\ GoodSched(p, Removed(mem.sched, cur))
  BY <1>1, ViewParts, SchedWrite
<1>3. GoodSched(p, ms) /\ GoodSched(p, rs)
  BY <1>2 DEF Taken
<1>4. /\ ms \subseteq mem.sched /\ (~Here(p) => ms = mem.sched)
      /\ ok /\ Due(mem.sched, p) = Due(redis.sched, p) => Due(ms, p) = Due(rs, p)
  BY DEF Taken, Removed
<1> HIDE DEF ms, rs
<1>5. WritesTo(p, md, rd, mi, ri, ms, rs)
  BY DEF ms, rs
<1>6. /\ ViewOK(mem') /\ ViewOK(redis') /\ NoneIsNoPlan' /\ Others(p)
      /\ mem'.plan[p] = md /\ mem'.idx = mi /\ mem'.sched = ms
      /\ redis'.plan[p] = rd /\ redis'.idx = ri /\ redis'.sched = rs
  BY <1>1, <1>3, <1>5, Writes
<1>7. Monotone /\ (\A e \in todo' \cup {cur'} : e \in Appointed) /\ Here(p)' = Here(p)
  BY DEF Monotone, Appointed, Here
<1>8. \A q \in Plans \ {p} : PlanInv(q)'
  BY <1>6, <1>7, LoopOthers
<1>9. ASSUME p \notin hurt' PROVE Sound(p)'
  <2>1. Due(mem.sched, p) = Due(redis.sched, p)
    BY <1>1, <1>9 DEF AllSound, Sound
  <2> QED BY <1>4, <1>6, <1>9, <2>1 DEF Sound
<1>10. ASSUME p \notin hurt' \cup reopened' PROVE Ordered(p)'
  <2>1. Ordered(p)
    BY <1>1, <1>10 DEF PlanInv
  <2>2. Appointed' \subseteq Appointed
    BY <1>4, <1>6 DEF Appointed
  <2>3. \A e \in Appointed \ {NoEntry} : e.plan = p => OpenDeps(e)' \subseteq OpenDeps(e)
    <3> SUFFICES ASSUME NEW e \in Appointed \ {NoEntry}, e.plan = p, NEW d \in OpenDeps(e)'
                 PROVE  d \in OpenDeps(e)
      OBVIOUS
    <3>1. d \in Deps[p][e.step] /\ d < e.step /\ Open(md.steps[d])
      BY <1>6 DEF OpenDeps
    <3>2. d \in Steps
      BY <3>1, EntryIs, InvFacts
    <3> QED BY <1>10, <3>1, <3>2 DEF OpenDeps
  <2> QED BY <1>6, <1>10, <2>1, <2>2, <2>3 DEF Ordered
<1>11. ASSUME p \in chained' \ (hurt' \cup stranded' \cup reopened') PROVE Going(p)'
  <2>1. Going(p)
    BY <1>1, <1>11 DEF PlanInv
  <2>2. CASE Here(p)
    BY <1>6, <1>7, <1>11, <2>1, <2>2 DEF Going, OpenSteps, Attended
  <2>3. CASE ~Here(p)
    <3>1. Due(mem.sched, p) # {}
      BY <2>1, <2>3 DEF Going, Attended
    <3> QED BY <1>4, <1>6, <1>11, <2>1, <2>3, <3>1 DEF Going, OpenSteps, Attended
  <2> QED BY <2>2, <2>3
<1>12. mem'.plan[p] = NoPlan <=> redis'.plan[p] = NoPlan
  BY <1>6 DEF NoneIsNoPlan
<1> QED BY <1>6, <1>8, <1>9, <1>10, <1>11, <1>12 DEF PlanInv

\* The step is left, nothing but its appointment being written.
LEMMA Unscheduled ==
  ASSUME PlansInv, stage \in {"start", "run"}, stage' = "told", NEW ok \in BOOLEAN,
         Outcome(<<ok>>), Unschedule(mem, redis, ok), hurt' = hurt \cup HurtBy(cur.plan, <<ok>>),
         UNCHANGED <<ctx, todo, cur, told, left, recovered, edits, crashes,
                     reopened, early, done, again, chained, stranded>>
  PROVE  PlansInv'
<1>1. cur \in Entries /\ cur.plan \in Plans
  BY DEF PlansInv, AtEntry, Entries
<1> PICK p \in Plans : p = cur.plan
  BY <1>1
<1>2. AllSound /\ LoopOK /\ HistoryOK /\ PlanInv(p)
  BY InvFacts, TypeParts
<1>3. /\ mem.plan \in [Plans -> Docs \cup {NoPlan}] /\ redis.plan \in [Plans -> Docs \cup {NoPlan}]
      /\ GoodIndex(p, mem.idx) /\ GoodIndex(p, redis.idx)
      /\ mem = [plan |-> mem.plan, idx |-> mem.idx, sched |-> mem.sched]
      /\ redis = [plan |-> redis.plan, idx |-> redis.idx, sched |-> redis.sched]
  BY <1>2, ViewParts
<1>4. GoodPlans(p, mem.plan[p], redis.plan[p])
  BY <1>2, <1>3 DEF GoodPlans, AllSound, NoneIsNoPlan
<1>5. /\ mem' = [mem EXCEPT !.sched = Taken(mem.sched, ok)]
      /\ redis' = [redis EXCEPT !.sched = Taken(redis.sched, ok)]
  BY DEF Unschedule, Taken
<1>6. WritesTo(p, mem.plan[p], redis.plan[p], mem.idx, redis.idx, Taken(mem.sched, ok), Taken(redis.sched, ok))
  BY <1>3, <1>5 DEF WritesTo
<1>7. <<ok>> \in [1 .. 1 -> BOOLEAN]
  BY OneOutcome
<1>8. HurtBy(p, <<ok>>) \subseteq {p} /\ (p \notin HurtBy(p, <<ok>>) => ok)
  BY <1>7 DEF HurtBy
<1>9. faults' \in 0 .. MaxFaults
  BY <1>7, InvFacts, OutcomeIs
<1>10. hurt \subseteq hurt' /\ hurt' \subseteq Plans
  BY <1>8, InvFacts
<1>11. p \notin hurt' =>
         /\ ok /\ mem.plan[p] = redis.plan[p] /\ StatusesOf(mem.idx, p) = StatusesOf(redis.idx, p)
         /\ mem.plan[p].status = "active" => "active" \in StatusesOf(mem.idx, p)
  BY <1>2, <1>8 DEF AllSound, Sound
<1>12. p \notin hurt' \cup reopened' =>
         \A s \in Steps : <<p, s>> \in done => mem.plan[p].steps[s] = "completed"
  BY <1>2, <1>10 DEF PlanInv, Ordered
<1>13. ViewOK(mem') /\ ViewOK(redis') /\ \A q \in Plans : PlanInv(q)'
  BY <1>3, <1>4, <1>6, <1>10, <1>11, <1>12, StepOver
<1>14. LoopOK' /\ HistoryOK' /\ AtEntry'
  BY <1>1, <1>2, <1>9, <1>10 DEF LoopOK, HistoryOK, AtEntry
<1> QED BY <1>10, <1>13, <1>14, LoopKeeps

LEMMA SkipStep == ASSUME PlansInv, NEW ok \in BOOLEAN, Skip(ok) PROVE PlansInv'
BY Unscheduled DEF Skip

LEMMA RunEndsStep == ASSUME PlansInv, NEW ok \in BOOLEAN, RunEnds(ok) PROVE PlansInv'
BY Unscheduled DEF RunEnds

\* The run failed: its step is blocked, whatever it has reported (scheduler.py:186).
LEMMA RunFailsStep == ASSUME PlansInv, NEW ok \in [1 .. 3 -> BOOLEAN], RunFails(ok) PROVE PlansInv'
<1>1. stage = "run" /\ cur \in Entries /\ cur.plan \in Plans /\ cur.step \in Steps /\ Exists(cur.plan)
  BY DEF RunFails, PlansInv, AtEntry, Entries, Visible
<1> PICK p \in Plans, k \in Steps : p = cur.plan /\ k = cur.step
  BY <1>1
<1> DEFINE doc == Updated(p, mem.plan[p], k, "blocked")
           idx == Indexed(mem.idx, p, doc.status)
           mi == IF ok[2] \/ mem.idx # <<>> THEN idx ELSE mem.idx
           ri == IF ok[2] THEN idx ELSE redis.idx
           rd == IF ok[1] THEN doc ELSE redis.plan[p]
<1>2. /\ stage' = "told" /\ Outcome(ok) /\ hurt' = hurt \cup HurtBy(p, ok)
      /\ reopened' = IF mem.plan[p].steps[k] = "completed" THEN reopened \cup {p} ELSE reopened
      /\ chained' = IF OpenSteps(doc) = {} THEN chained \ {p} ELSE chained
      /\ UNCHANGED <<ctx, todo, cur, told, left, recovered, edits, crashes, early, done, again, stranded>>
  BY DEF RunFails
<1>3. AllSound /\ LoopOK /\ HistoryOK /\ PlanInv(p)
  BY InvFacts, TypeParts
<1>4. /\ mem.plan[p] \in Docs
      /\ p \notin hurt \cup reopened => \A t \in Steps : <<p, t>> \in done => mem.plan[p].steps[t] = "completed"
  BY <1>1, PlanIs
<1>5. /\ doc \in Docs /\ doc.steps[k] = "blocked"
      /\ \A t \in Steps \ {k} : KeepsStep(mem.plan[p], doc, t)
      /\ doc.status # mem.plan[p].status => OpenSteps(doc) = {}
  <2>1. "blocked" \in StepStatuses
    BY DEF StepStatuses
  <2> QED BY <1>4, <2>1, UpdatedKeeps
<1>6. doc.status \in PlanStatuses /\ doc # NoPlan
  BY <1>5 DEF Docs, NoPlan, PlanStatuses
<1>7. GoodIndex(p, idx) /\ StatusesOf(idx, p) = {doc.status}
  BY <1>3, <1>6, IndexWrite
<1>8. /\ mem.plan \in [Plans -> Docs \cup {NoPlan}] /\ redis.plan \in [Plans -> Docs \cup {NoPlan}]
      /\ GoodIndex(p, mem.idx) /\ GoodIndex(p, redis.idx)
      /\ mem = [plan |-> mem.plan, idx |-> mem.idx, sched |-> mem.sched]
      /\ redis = [plan |-> redis.plan, idx |-> redis.idx, sched |-> redis.sched]
  BY <1>3, ViewParts
<1>9. /\ mem' = [mem EXCEPT !.plan[p] = doc, !.idx = mi, !.sched = Taken(mem.sched, ok[3])]
      /\ redis' = [redis EXCEPT !.plan[p] = rd, !.idx = ri, !.sched = Taken(redis.sched, ok[3])]
  <2> DEFINE view == [mem EXCEPT !.plan[p] = doc, !.idx = mi]
             store == [redis EXCEPT !.plan[p] = rd, !.idx = ri]
  <2>1. Unschedule(view, store, ok[3])
    BY DEF RunFails
  <2>2. /\ mem' = [view EXCEPT !.sched = IF ok[3] /\ Here(cur.plan) THEN Removed(view.sched, cur) ELSE view.sched]
        /\ redis' = [store EXCEPT !.sched = IF ok[3] /\ Here(cur.plan) THEN Removed(view.sched, cur) ELSE store.sched]
    BY <2>1 DEF Unschedule
  <2>3. view.sched = mem.sched /\ store.sched = redis.sched
    BY <1>8
  <2> QED BY <1>8, <2>2, <2>3 DEF Taken
<1>10. (ok[2] => mi = idx /\ ri = idx) /\ (ok[1] => rd = doc)
  OBVIOUS
<1>11. GoodIndex(p, mi) /\ GoodIndex(p, ri)
  BY <1>7, <1>8
<1>12. GoodPlans(p, doc, rd)
  BY <1>1, <1>3, <1>5, <1>6, <1>8 DEF GoodPlans, AllSound, NoneIsNoPlan, Exists
<1> HIDE DEF doc, idx, mi, ri, rd
<1>13. WritesTo(p, doc, rd, mi, ri, Taken(mem.sched, ok[3]), Taken(redis.sched, ok[3]))
  BY <1>8, <1>9 DEF WritesTo
<1>14. HurtBy(p, ok) \subseteq {p} /\ (p \notin HurtBy(p, ok) => ok[1] /\ ok[2] /\ ok[3])
  BY DEF HurtBy
<1>15. faults' \in 0 .. MaxFaults
  BY <1>2, InvFacts, OutcomeIs
<1>16. /\ hurt \subseteq hurt' /\ hurt' \subseteq Plans /\ reopened \subseteq reopened' /\ reopened' \subseteq Plans
       /\ chained' \subseteq chained
  BY <1>2, <1>14, InvFacts
<1>17. p \notin hurt' => /\ ok[3] /\ doc = rd /\ StatusesOf(mi, p) = StatusesOf(ri, p)
                         /\ doc.status = "active" => "active" \in StatusesOf(mi, p)
  BY <1>2, <1>7, <1>10, <1>14
<1>18. ASSUME p \notin hurt' \cup reopened', NEW s \in Steps
       PROVE  /\ <<p, s>> \in done => doc.steps[s] = "completed"
              /\ Open(doc.steps[s]) => Open(mem.plan[p].steps[s])
  <2>1. \A t \in Steps : <<p, t>> \in done => mem.plan[p].steps[t] = "completed"
    BY <1>4, <1>16, <1>18
  <2>2. CASE s = k
    BY <1>2, <1>5, <1>18, <2>1, <2>2 DEF Open
  <2>3. CASE s # k
    BY <1>5, <2>1, <2>3 DEF KeepsStep, Open
  <2> QED BY <2>2, <2>3
<1>19. p \in chained' /\ mem.plan[p].status = "active" => doc.status = "active" /\ OpenSteps(doc) # {}
  BY <1>2, <1>5
<1>20. ok[3] \in BOOLEAN
  OBVIOUS
<1>21. ViewOK(mem') /\ ViewOK(redis') /\ \A q \in Plans : PlanInv(q)'
  BY <1>1, <1>2, <1>11, <1>12, <1>13, <1>16, <1>17, <1>18, <1>19, <1>20, StepOver
<1>22. LoopOK' /\ HistoryOK' /\ AtEntry'
  BY <1>1, <1>2, <1>3, <1>15, <1>16 DEF LoopOK, HistoryOK, AtEntry
<1> QED BY <1>2, <1>16, <1>21, <1>22, LoopKeeps

\* While the loop is not past a step, what attends to a plan is an appointment.
LEMMA Waits ==
  ASSUME PlansInv, stage \in {"idle", "next", "start", "run"},
         UNCHANGED <<mem, redis, hurt, reopened, done, chained, stranded>>,
         \A e \in todo' \cup {cur'} : e = NoEntry \/ e \in Appointed
  PROVE  \A q \in Plans : PlanInv(q)'
<1>1. \A q \in Plans : Going(q) => Attended(q)'
  BY DEF Going, Attended
<1> QED BY <1>1, FrameAll

LEMMA PassStep == ASSUME PlansInv, Pass PROVE PlansInv'
<1>1. /\ stage = "idle" /\ stage' = "next" /\ todo' \subseteq mem.sched
      /\ UNCHANGED <<mem, redis, ctx, cur, told, left, recovered, bounds, history>>
  BY DEF Pass
<1>2. LoopOK /\ HistoryOK /\ ViewOK(mem) /\ ViewOK(redis) /\ mem.sched \subseteq Entries
  BY TypeParts, InvFacts, ViewParts DEF ViewOK, Views
<1>3. \A e \in todo' \cup {cur'} : e \in Appointed
  BY <1>1 DEF Appointed
<1>4. \A q \in Plans : PlanInv(q)'
  BY <1>1, <1>3, Waits DEF history
<1>5. LoopOK' /\ HistoryOK' /\ AtEntry'
  BY <1>1, <1>2 DEF LoopOK, HistoryOK, AtEntry, bounds, history
<1> QED BY <1>1, <1>2, <1>4, <1>5, LoopKeeps DEF history

LEMMA BeginStep == ASSUME PlansInv, Begin PROVE PlansInv'
<1>1. PICK e \in todo :
        /\ stage = "next" /\ stage' = "start" /\ cur' = e /\ todo' = todo \ {e}
        /\ ctx' = IF e.named THEN TenantOf[e.plan] ELSE Feishu
        /\ UNCHANGED <<mem, redis, told, left, recovered, bounds, history>>
  BY DEF Begin
<1>2. LoopOK /\ HistoryOK /\ ViewOK(mem) /\ ViewOK(redis)
  BY TypeParts
<1>3. e \in Entries /\ e.plan \in Plans
  BY <1>2 DEF LoopOK, Entries
<1>4. ctx' \in Tenants
  BY <1>1, <1>3 DEF Tenants
<1>5. \A x \in todo' \cup {cur'} : x \in Appointed
  BY <1>1 DEF Appointed
<1>6. \A q \in Plans : PlanInv(q)'
  BY <1>1, <1>5, Waits DEF history
<1>7. LoopOK' /\ HistoryOK' /\ AtEntry'
  BY <1>1, <1>2, <1>3, <1>4 DEF LoopOK, HistoryOK, AtEntry, bounds, history
<1> QED BY <1>1, <1>2, <1>6, <1>7, LoopKeeps DEF history

\* A step is run: of an unexcepted plan, neither early nor again (scheduler.py:131-190).
LEMMA RunStep == ASSUME PlansInv, Run PROVE PlansInv'
<1>1. /\ stage = "start" /\ Runs(cur) /\ stage' = "run" /\ told' = FALSE
      /\ early' = IF ~cur.asked /\ OpenDeps(cur) # {} THEN early \cup {cur.plan} ELSE early
      /\ again' = IF <<cur.plan, cur.step>> \in done THEN again \cup {cur.plan} ELSE again
      /\ UNCHANGED <<mem, redis, ctx, todo, cur, left, recovered, bounds,
                     hurt, reopened, done, chained, stranded>>
  BY DEF Run
<1>2. LoopOK /\ HistoryOK /\ ViewOK(mem) /\ ViewOK(redis)
  BY TypeParts
<1>3. cur \in Entries /\ cur.plan \in Plans /\ cur.step \in Steps /\ cur # NoEntry
  <2>1. cur \in Entries /\ 0 \notin Steps
    BY <1>1 DEF PlansInv, AtEntry, Steps
  <2> QED BY <2>1 DEF Entries, NoEntry
<1>4. PlanInv(cur.plan) /\ early \subseteq reopened \cup hurt /\ again \subseteq reopened \cup hurt
  BY <1>3 DEF PlansInv, DependenciesFirst, DoneOnce
<1>5. cur.plan \notin hurt \cup reopened =>
        /\ <<cur.plan, cur.step>> \notin done
        /\ ~cur.asked => OpenDeps(cur) = {}
  BY <1>1, <1>3, <1>4 DEF PlanInv, Ordered, Appointed, Runs
<1>6. /\ early' \subseteq reopened' \cup hurt' /\ again' \subseteq reopened' \cup hurt'
      /\ early' \subseteq Plans /\ again' \subseteq Plans
  BY <1>1, <1>2, <1>3, <1>4, <1>5 DEF HistoryOK
<1>7. \A x \in todo' \cup {cur'} : x \in Appointed
  BY <1>1 DEF Appointed
<1>8. \A q \in Plans : PlanInv(q)'
  BY <1>1, <1>7, Waits
<1>9. LoopOK' /\ HistoryOK' /\ ViewOK(mem') /\ ViewOK(redis')
  BY <1>1, <1>2, <1>6 DEF LoopOK, HistoryOK, bounds
<1>10. AtEntry'
  BY <1>1, <1>3 DEF AtEntry, Runs, Visible, Here, Exists
<1>11. PlansTypeOK'
  BY <1>9 DEF PlansTypeOK, ViewOK, OncePerPlan, OncePerStep, LoopOK, HistoryOK
<1> QED BY <1>6, <1>8, <1>10, <1>11 DEF PlansInv, DependenciesFirst, DoneOnce

LEMMA PassEndsStep == ASSUME PlansInv, PassEnds PROVE PlansInv'
<1>1. /\ stage = "next" /\ stage' = "idle"
      /\ UNCHANGED <<mem, redis, ctx, todo, cur, told, left, recovered, bounds, history>>
  BY DEF PassEnds
<1>2. LoopOK /\ HistoryOK /\ ViewOK(mem) /\ ViewOK(redis)
  BY TypeParts
<1>3. \A x \in todo' \cup {cur'} : x \in Appointed
  BY <1>1 DEF Appointed
<1>4. \A q \in Plans : PlanInv(q)'
  BY <1>1, <1>3, Waits DEF history
<1>5. LoopOK' /\ HistoryOK' /\ AtEntry'
  BY <1>1, <1>2 DEF LoopOK, HistoryOK, AtEntry, bounds, history
<1> QED BY <1>1, <1>2, <1>4, <1>5, LoopKeeps DEF history

LEMMA IdlePassesStep == ASSUME PlansInv, IdlePasses PROVE PlansInv'
<1>1. /\ stage = "idle" /\ ctx' = LastDreamer
      /\ UNCHANGED <<mem, redis, stage, todo, cur, told, left, recovered, bounds, history>>
  BY DEF IdlePasses
<1>2. LoopOK /\ HistoryOK /\ ViewOK(mem) /\ ViewOK(redis) /\ LastDreamer \in Tenants
  BY TypeParts DEF Tenants
<1>3. \A x \in todo' \cup {cur'} : x \in Appointed
  BY <1>1 DEF Appointed
<1>4. \A q \in Plans : PlanInv(q)'
  BY <1>1, <1>3, Waits DEF history
<1>5. LoopOK' /\ HistoryOK' /\ AtEntry'
  BY <1>1, <1>2 DEF LoopOK, HistoryOK, AtEntry, bounds, history
<1> QED BY <1>1, <1>2, <1>4, <1>5, LoopKeeps DEF history

-----------------------------------------------------------------------------
(* The cache, the process, its recovery                                    *)

\* What the process sees moves to what is stored; of a sound plan they agree.
LEMMA ViewMoves ==
  ASSUME PlansInv, redis' = redis, ViewOK(mem'), NoneIsNoPlan',
         \A q \in Plans : mem'.plan[q] \in {mem.plan[q], redis.plan[q]},
         mem'.idx \in {mem.idx, redis.idx}, mem'.sched \in {mem.sched, redis.sched}
  PROVE  \A q \in Plans : PlanInv(q) /\ AsBefore(q)
BY InvFacts DEF AllSound, AsBefore, Sound

LEMMA CacheExpiresStep == ASSUME PlansInv, CacheExpires PROVE PlansInv'
<1>1. /\ UNCHANGED <<redis, loopVars, bounds, history>>
      /\ \/ \E p \in Plans : mem' = [mem EXCEPT !.plan[p] = redis.plan[p]]
         \/ mem' = [mem EXCEPT !.idx = redis.idx]
         \/ mem' = [mem EXCEPT !.sched = redis.sched]
  BY DEF CacheExpires
<1>2. /\ AllSound /\ LoopOK /\ HistoryOK /\ ViewOK(mem) /\ ViewOK(redis)
  BY TypeParts, InvFacts
<1>3. /\ mem.plan \in [Plans -> Docs \cup {NoPlan}] /\ redis.plan \in [Plans -> Docs \cup {NoPlan}]
      /\ mem = [plan |-> mem.plan, idx |-> mem.idx, sched |-> mem.sched]
      /\ redis = [plan |-> redis.plan, idx |-> redis.idx, sched |-> redis.sched]
  BY <1>2, ViewParts
<1>4. /\ ViewOK(mem') /\ NoneIsNoPlan'
      /\ \A q \in Plans : mem'.plan[q] \in {mem.plan[q], redis.plan[q]}
      /\ mem'.idx \in {mem.idx, redis.idx} /\ mem'.sched \in {mem.sched, redis.sched}
  <2>1. CASE \E p \in Plans : mem' = [mem EXCEPT !.plan[p] = redis.plan[p]]
    <3>1. PICK p \in Plans : mem' = [mem EXCEPT !.plan[p] = redis.plan[p]]
      BY <2>1
    <3> DEFINE pl == [mem.plan EXCEPT ![p] = redis.plan[p]]
    <3>2. mem' = [plan |-> pl, idx |-> mem.idx, sched |-> mem.sched]
      BY <1>3, <3>1
    <3>3. /\ pl \in [Plans -> Docs \cup {NoPlan}]
          /\ \A q \in Plans : pl[q] \in {mem.plan[q], redis.plan[q]}
      BY <1>3
    <3> HIDE DEF pl
    <3>4. mem'.plan = pl /\ mem'.idx = mem.idx /\ mem'.sched = mem.sched
      BY <3>2
    <3>5. ViewOK(mem')
      BY <1>2, <3>2, <3>3 DEF ViewOK, Views
    <3>6. NoneIsNoPlan'
      BY <1>1, <1>2, <3>3, <3>4 DEF AllSound, NoneIsNoPlan
    <3> QED BY <3>3, <3>4, <3>5, <3>6
  <2>2. CASE mem' = [mem EXCEPT !.idx = redis.idx]
    <3>1. mem'.plan = mem.plan /\ mem'.idx = redis.idx /\ mem'.sched = mem.sched
      BY <1>3, <2>2
    <3>2. ViewOK(mem')
      BY <1>2, <1>3, <2>2 DEF ViewOK, Views
    <3> QED BY <1>1, <1>2, <3>1, <3>2 DEF AllSound, NoneIsNoPlan
  <2>3. CASE mem' = [mem EXCEPT !.sched = redis.sched]
    <3>1. mem'.plan = mem.plan /\ mem'.idx = mem.idx /\ mem'.sched = redis.sched
      BY <1>3, <2>3
    <3>2. ViewOK(mem')
      BY <1>2, <1>3, <2>3 DEF ViewOK, Views
    <3> QED BY <1>1, <1>2, <3>1, <3>2 DEF AllSound, NoneIsNoPlan
  <2> QED BY <1>1, <2>1, <2>2, <2>3
<1>5. \A q \in Plans : PlanInv(q) /\ AsBefore(q)
  BY <1>1, <1>4, ViewMoves
<1>6. ASSUME NEW q \in Plans PROVE PlanInv(q)'
  <2>1. ASSUME q \in chained' \ (hurt' \cup stranded' \cup reopened') PROVE Attended(q)'
    <3>1. q \notin hurt /\ Going(q) /\ AsBefore(q)
      BY <1>1, <1>5, <2>1 DEF PlanInv, history
    <3> QED BY <1>1, <3>1, AttendedStays DEF Going, loopVars
  <2>2. Monotone /\ \A e \in todo' \cup {cur'} : e \in Appointed
    BY <1>1 DEF Monotone, Appointed, loopVars, history
  <2> QED BY <1>1, <1>4, <1>5, <2>1, <2>2, Frame DEF history
<1>7. \A q \in Plans : mem.plan[q] # NoPlan => mem'.plan[q] # NoPlan
  BY <1>1, <1>2, <1>4 DEF AllSound, NoneIsNoPlan
<1>8. AtEntry'
  BY <1>1, <1>7 DEF PlansInv, AtEntry, Entries, Visible, Here, Exists, loopVars
<1>9. LoopOK' /\ HistoryOK' /\ ViewOK(redis')
  BY <1>1, <1>2 DEF LoopOK, HistoryOK, loopVars, bounds, history
<1> QED BY <1>1, <1>4, <1>6, <1>8, <1>9, LoopKeeps DEF history

\* A death leaves what is stored, and the recovery a sign of the plan it was at,
\* or the plan is stranded.
LEMMA CrashStep == ASSUME PlansInv, Crash PROVE PlansInv'
<1>1. /\ stage # "down" /\ stage' = "down" /\ crashes < MaxCrashes /\ crashes' = crashes + 1
      /\ mem' = redis /\ todo' = {} /\ cur' = NoEntry /\ left' = <<>> /\ told' = FALSE
      /\ stranded' = IF stage = "told" /\ Unseen(cur.plan) THEN stranded \cup {cur.plan} ELSE stranded
      /\ UNCHANGED <<redis, ctx, recovered, edits, faults, hurt, reopened, early, done, again, chained>>
  BY DEF Crash
<1>2. AllSound /\ LoopOK /\ HistoryOK /\ ViewOK(redis)
  BY TypeParts, InvFacts
<1>3. /\ ViewOK(mem') /\ ViewOK(redis') /\ NoneIsNoPlan'
      /\ \A q \in Plans : mem'.plan[q] \in {mem.plan[q], redis.plan[q]}
      /\ mem'.idx \in {mem.idx, redis.idx} /\ mem'.sched \in {mem.sched, redis.sched}
  BY <1>1, <1>2 DEF NoneIsNoPlan
<1>4. \A q \in Plans : PlanInv(q) /\ AsBefore(q)
  BY <1>1, <1>3, ViewMoves
<1>5. ASSUME NEW q \in Plans PROVE PlanInv(q)'
  <2>1. ASSUME q \in chained' \ (hurt' \cup stranded' \cup reopened') PROVE Attended(q)'
    <3>1. q \notin hurt /\ Going(q) /\ AsBefore(q) /\ mem.plan[q] = redis.plan[q]
      BY <1>1, <1>2, <1>4, <2>1 DEF PlanInv, AllSound, Sound
    <3>2. CASE Due(mem.sched, q) # {}
      BY <3>1, <3>2 DEF AsBefore, Attended
    <3>3. CASE cur.plan = q /\ stage = "told"
      <4>1. Stuck(q)
        BY <1>1, <2>1, <3>1, <3>3 DEF Unseen, Stuck
      <4> QED BY <1>1, <3>1, <4>1 DEF Attended, Stuck, InStatus
    <3>4. CASE stage = "recover" /\ Stuck(q)
      BY <1>1, <3>1, <3>4 DEF Attended, Stuck, InStatus
    <3> QED BY <1>1, <3>1, <3>2, <3>3, <3>4 DEF Going, Attended
  <2>2. Monotone
    BY <1>1 DEF Monotone
  <2>3. \A e \in todo' \cup {cur'} : e = NoEntry
    BY <1>1
  <2> QED BY <1>1, <1>3, <1>4, <2>1, <2>2, <2>3, Frame
<1>6. stranded' \subseteq Plans
  BY <1>1, <1>2 DEF PlansInv, AtEntry, Entries, HistoryOK
<1>7. <<>> \in Seq(Plans) /\ crashes' \in 0 .. MaxCrashes
  BY <1>1, <1>2, EmptySeq, PlanAssumption DEF HistoryOK
<1>8. LoopOK'
  BY <1>1, <1>2, <1>7 DEF LoopOK
<1>9. HistoryOK' /\ AtEntry'
  BY <1>1, <1>2, <1>6, <1>7 DEF HistoryOK, AtEntry
<1> QED BY <1>1, <1>3, <1>5, <1>8, <1>9, LoopKeeps

\* The recovery visits every plan that the index of the default tenant has as
\* active: as many visits as there are such entries, no two alike, miss none.
LEMMA EachVisited ==
  ASSUME NEW idx \in Seq(IndexEntries),
         NEW at \in [1 .. Cardinality(ActiveAt(idx)) -> ActiveAt(idx)],
         \A i, j \in DOMAIN at : i < j => at[i] < at[j]
  PROVE  /\ \A a \in ActiveAt(idx) : \E j \in DOMAIN at : at[j] = a
         /\ [i \in DOMAIN at |-> idx[at[i]].plan] \in Seq(Plans)
<1> DEFINE A == ActiveAt(idx)
           n == Cardinality(A)
<1>1. DOMAIN idx = 1 .. Len(idx) /\ Len(idx) \in Nat /\ \A i \in 1 .. Len(idx) : idx[i] \in IndexEntries
  BY LenProperties, ElementOfSeq
<1>2. A \subseteq 1 .. Len(idx)
  BY <1>1 DEF ActiveAt
<1>3. IsFiniteSet(1 .. Len(idx))
  BY <1>1, FS_Interval
<1>4. IsFiniteSet(A)
  BY <1>2, <1>3, FS_Subset
<1>5. n \in Nat
  BY <1>4, FS_CardinalityType
<1> HIDE DEF A, n
<1>6. at \in [1 .. n -> A]
  BY DEF A, n
<1>7. \A i, j \in 1 .. n : at[i] = at[j] => i = j
  <2> SUFFICES ASSUME NEW i \in 1 .. n, NEW j \in 1 .. n, at[i] = at[j], i # j PROVE FALSE
    OBVIOUS
  <2>1. at[i] \in Nat /\ at[j] \in Nat
    <3>1. at[i] \in A /\ at[j] \in A
      BY <1>6
    <3>2. at[i] \in 1 .. Len(idx) /\ at[j] \in 1 .. Len(idx)
      BY <1>2, <3>1
    <3> QED BY <1>1, <3>2
  <2>2. i < j \/ j < i
    BY <1>5
  <2>3. i \in DOMAIN at /\ j \in DOMAIN at
    BY <1>6
  <2>4. at[i] < at[j] \/ at[j] < at[i]
    BY <2>2, <2>3
  <2> QED BY <2>1, <2>4
<1>8. at \in Injection(1 .. n, A)
  BY <1>6, <1>7 DEF Injection, IsInjective
<1>9. Cardinality(1 .. n) = n
  BY <1>5, FS_Interval
<1>10. at \in Surjection(1 .. n, A)
  BY <1>4, <1>8, <1>9, FS_Injection DEF n
<1>11. \A a \in A : \E j \in 1 .. n : at[j] = a
  BY <1>10 DEF Surjection
<1>12. [i \in 1 .. n |-> idx[at[i]].plan] \in [1 .. n -> Plans]
  BY <1>1, <1>2, <1>6 DEF IndexEntries
<1>13. [i \in 1 .. n |-> idx[at[i]].plan] \in Seq(Plans)
  BY <1>5, <1>12, SeqDef
<1>14. DOMAIN at = 1 .. n
  BY <1>6
<1> QED BY <1>11, <1>13, <1>14 DEF A

LEMMA RestartStep == ASSUME PlansInv, Restart PROVE PlansInv'
<1>1. PICK at \in [1 .. Cardinality(ActiveAt(redis.idx)) -> ActiveAt(redis.idx)] :
        /\ stage = "down" /\ stage' = "recover" /\ ctx' = Default /\ recovered' = FALSE
        /\ \A i, j \in DOMAIN at : i < j => at[i] < at[j]
        /\ left' = [i \in DOMAIN at |-> redis.idx[at[i]].plan]
        /\ UNCHANGED <<mem, redis, todo, cur, told, bounds, history>>
  BY DEF Restart
<1>2. AllSound /\ LoopOK /\ HistoryOK /\ ViewOK(mem) /\ ViewOK(redis) /\ Default \in Tenants
  BY TypeParts, InvFacts DEF Tenants
<1>3. redis.idx \in Seq(IndexEntries)
  BY <1>2, ViewParts DEF ViewOK, Views
<1>4. /\ \A a \in ActiveAt(redis.idx) : \E j \in DOMAIN at : at[j] = a
      /\ left' \in Seq(Plans)
  BY <1>1, <1>3, EachVisited
<1>5. ASSUME NEW q \in Plans, q \notin hurt, Going(q) PROVE Attended(q)'
  <2>1. CASE Due(mem.sched, q) # {}
    BY <1>1, <2>1 DEF Attended
  <2>2. CASE Stuck(q)
    <3>1. "active" \in StatusesOf(redis.idx, q)
      BY <1>2, <1>5 DEF AllSound, Sound, Going
    <3>2. PICK i \in DOMAIN redis.idx : redis.idx[i].plan = q /\ redis.idx[i].status = "active"
      BY <3>1 DEF StatusesOf
    <3>3. i \in ActiveAt(redis.idx)
      BY <2>2, <3>2 DEF ActiveAt, Stuck
    <3>4. PICK j \in DOMAIN at : at[j] = i
      BY <1>4, <3>3
    <3>5. j \in DOMAIN left' /\ left'[j] = q
      BY <1>1, <3>2, <3>4
    <3> QED BY <1>1, <2>2, <3>5 DEF Attended, Stuck
  <2> QED BY <1>1, <1>5, <2>1, <2>2 DEF Going, Attended
<1>6. \A e \in todo' \cup {cur'} : e \in Appointed
  BY <1>1 DEF Appointed
<1>7. \A q \in Plans : PlanInv(q)'
  BY <1>1, <1>5, <1>6, FrameAll DEF history
<1>8. LoopOK' /\ HistoryOK' /\ AtEntry'
  BY <1>1, <1>2, <1>4 DEF LoopOK, HistoryOK, AtEntry, bounds, history
<1> QED BY <1>1, <1>2, <1>7, <1>8, LoopKeeps DEF history

LEMMA RecoveryEndsStep == ASSUME PlansInv, RecoveryEnds PROVE PlansInv'
<1>1. /\ stage = "recover" /\ left = <<>> /\ stage' = "idle"
      /\ UNCHANGED <<mem, redis, ctx, todo, cur, told, left, recovered, bounds, history>>
  BY DEF RecoveryEnds
<1>2. LoopOK /\ HistoryOK /\ ViewOK(mem) /\ ViewOK(redis)
  BY TypeParts
<1>3. \A q \in Plans : Going(q) => Attended(q)'
  BY <1>1 DEF Going, Attended
<1>4. \A x \in todo' \cup {cur'} : x \in Appointed
  BY <1>1 DEF Appointed
<1>5. \A q \in Plans : PlanInv(q)'
  BY <1>1, <1>3, <1>4, FrameAll DEF history
<1>6. LoopOK' /\ HistoryOK' /\ AtEntry'
  BY <1>1, <1>2 DEF LoopOK, HistoryOK, AtEntry, bounds, history
<1> QED BY <1>1, <1>2, <1>5, <1>6, LoopKeeps DEF history

\* What is left after the head of a sequence.
LEMMA TailHas ==
  ASSUME NEW s \in Seq(Plans), s # <<>>, NEW i \in DOMAIN s, s[i] # Head(s)
  PROVE  \E j \in DOMAIN Tail(s) : Tail(s)[j] = s[i]
<1>1. /\ Len(s) \in Nat \ {0} /\ DOMAIN s = 1 .. Len(s) /\ Head(s) = s[1]
  BY LenProperties, EmptySeq
<1>2. /\ Tail(s) \in Seq(Plans) /\ Len(Tail(s)) = Len(s) - 1
      /\ \A k \in 1 .. Len(Tail(s)) : Tail(s)[k] = s[k + 1]
  BY HeadTailProperties
<1>3. DOMAIN Tail(s) = 1 .. (Len(s) - 1)
  BY <1>2, LenProperties
<1>4. i \in 2 .. Len(s)
  BY <1>1
<1>5. i - 1 \in 1 .. (Len(s) - 1) /\ (i - 1) + 1 = i
  BY <1>1, <1>4
<1>6. Tail(s)[i - 1] = s[i]
  BY <1>2, <1>5
<1> QED BY <1>3, <1>5, <1>6

\* What the recovery puts in the schedule: nothing, or the first open step.
LEMMA RescheduledIs ==
  ASSUME PlansInv, NEW p \in Plans, NEW doc, doc = Reset(mem.plan[p]),
         NEW sched, sched = Rescheduled(p, doc, mem.sched)
  PROVE  /\ GoodSched(p, sched) /\ (OpenSteps(doc) # {} => Due(sched, p) # {})
         /\ \A x \in sched : \/ x \in mem.sched
                             \/ x.plan = p /\ {d \in Steps : d < x.step /\ Open(doc.steps[d])} = {}
<1> DEFINE S == InStatus(doc, "pending")
<1>1. AllSound /\ mem.plan[p] \in Docs \cup {NoPlan}
  BY InvFacts, ViewParts
<1>2. /\ Keeps(mem.plan[p], doc) /\ S = OpenSteps(mem.plan[p])
  BY <1>1, ResetKeeps
<1>3. S = OpenSteps(doc)
  BY <1>2 DEF Keeps, KeepsStep, OpenSteps
<1>4. CASE S = {}
  <2>1. sched = mem.sched
    BY <1>4 DEF Rescheduled
  <2> QED BY <1>1, <1>3, <1>4, <2>1, ViewParts
<1>5. CASE S # {}
  <2> DEFINE s == CHOOSE s \in S : IsFirst(s, S)
             e == Entry(p, s, FALSE, FALSE)
  <2>1. S \in SUBSET Steps
    BY DEF InStatus
  <2>2. s \in S /\ IsFirst(s, S)
    <3>1. \E t \in S : IsFirst(t, S)
      BY <1>5, <2>1, HasFirst
    <3> QED BY <3>1
  <2>3. sched = Added(mem.sched, e)
    BY <1>5 DEF Rescheduled
  <2> HIDE DEF s, S
  <2>4. e \in Entries /\ e.plan = p /\ e.step = s
    BY <2>1, <2>2 DEF Entry, Entries
  <2>5. {d \in Steps : d < s /\ Open(doc.steps[d])} = {}
    <3> SUFFICES ASSUME NEW d \in Steps, d < s, Open(doc.steps[d]) PROVE FALSE
      OBVIOUS
    <3>1. s <= d /\ s \in Nat /\ d \in Nat
      BY <1>3, <2>1, <2>2, PlanAssumption DEF IsFirst, OpenSteps, Steps
    <3> QED BY <3>1
  <2> HIDE DEF e
  <2>6. /\ GoodSched(p, Added(mem.sched, e)) /\ Due(Added(mem.sched, e), p) # {}
        /\ \A x \in Added(mem.sched, e) : x \in mem.sched \/ (x.plan = p /\ x.step = e.step)
    BY <1>1, <2>4, SchedWrite
  <2> QED BY <2>3, <2>4, <2>5, <2>6
<1> QED BY <1>4, <1>5

\* One plan of the recovery (scheduler.py:900-945).
LEMMA RecoverPlanStep ==
  ASSUME PlansInv, NEW ok \in [1 .. 2 -> BOOLEAN], RecoverPlan(ok)
  PROVE  PlansInv'
<1>1. AllSound /\ LoopOK /\ HistoryOK /\ ViewOK(mem) /\ ViewOK(redis)
  BY TypeParts, InvFacts
<1>2. left \in Seq(Plans) /\ left # <<>>
  BY <1>1 DEF LoopOK, RecoverPlan
<1>3. Head(left) \in Plans /\ Tail(left) \in Seq(Plans)
  BY <1>2, HeadTailProperties
<1> PICK p \in Plans : p = Head(left)
  BY <1>3
<1> DEFINE stuck == InStatus(mem.plan[p], "in_progress") # {}
           doc == Reset(mem.plan[p])
           ms == Rescheduled(p, doc, mem.sched)
           rd == IF ok[1] THEN doc ELSE redis.plan[p]
           rs == IF ok[2] THEN ms ELSE redis.sched
<1>4. /\ stage = "recover" /\ left' = Tail(left) /\ recovered' = (recovered \/ stuck)
      /\ UNCHANGED <<ctx, stage, todo, cur, told, edits, crashes,
                     reopened, early, done, again, chained, stranded>>
  BY DEF RecoverPlan
<1>5. LoopOK' /\ AtEntry'
  BY <1>1, <1>3, <1>4 DEF LoopOK, AtEntry
<1>6. ASSUME NEW q \in Plans, q # p, Attended(q), mem'.plan[q] = mem.plan[q],
             Due(mem'.sched, q) = Due(mem.sched, q)
      PROVE  Attended(q)'
  <2>1. CASE Due(mem.sched, q) # {}
    BY <1>6, <2>1 DEF Attended
  <2>2. CASE Stuck(q) /\ \E i \in DOMAIN left : left[i] = q
    <3>1. PICK i \in DOMAIN left : left[i] = q
      BY <2>2
    <3>2. \E j \in DOMAIN Tail(left) : Tail(left)[j] = q
      BY <1>2, <1>6, <3>1, TailHas
    <3> QED BY <1>4, <1>6, <2>2, <3>2 DEF Attended, Stuck, InStatus
  <2> QED BY <1>4, <1>6, <2>1, <2>2 DEF Attended
<1>7. \A x \in todo' \cup {cur'} : x \in Appointed
  BY <1>4 DEF Appointed
<1>8. CASE recovered'
  <2>1. /\ Outcome(ok) /\ hurt' = hurt \cup HurtBy(p, ok)
        /\ mem' = [mem EXCEPT !.plan[p] = doc, !.sched = ms]
        /\ redis' = [redis EXCEPT !.plan[p] = rd, !.sched = rs]
    BY <1>8 DEF RecoverPlan
  <2>2. /\ mem.plan \in [Plans -> Docs \cup {NoPlan}] /\ redis.plan \in [Plans -> Docs \cup {NoPlan}]
        /\ GoodIndex(p, mem.idx) /\ GoodIndex(p, redis.idx) /\ GoodSched(p, redis.sched)
        /\ mem = [plan |-> mem.plan, idx |-> mem.idx, sched |-> mem.sched]
        /\ redis = [plan |-> redis.plan, idx |-> redis.idx, sched |-> redis.sched]
    BY <1>1, ViewParts
  <2>3. /\ doc \in Docs \cup {NoPlan} /\ doc.status = mem.plan[p].status
        /\ mem.plan[p] = NoPlan <=> doc = NoPlan
        /\ Keeps(mem.plan[p], doc)
    BY <2>2, ResetKeeps
  <2>4. /\ GoodSched(p, ms) /\ (OpenSteps(doc) # {} => Due(ms, p) # {})
        /\ \A x \in ms : \/ x \in mem.sched
                         \/ x.plan = p /\ {d \in Steps : d < x.step /\ Open(doc.steps[d])} = {}
    BY RescheduledIs
  <2>5. (ok[1] => rd = doc) /\ (ok[2] => rs = ms)
    OBVIOUS
  <2>6. GoodSched(p, rs)
    BY <2>2, <2>4
  <2>7. GoodPlans(p, doc, rd)
    BY <1>1, <2>2, <2>3 DEF GoodPlans, AllSound, NoneIsNoPlan
  <2> HIDE DEF doc, ms, rd, rs
  <2>8. WritesTo(p, doc, rd, mem.idx, redis.idx, ms, rs)
    BY <2>1, <2>2 DEF WritesTo
  <2>9. /\ ViewOK(mem') /\ ViewOK(redis') /\ NoneIsNoPlan' /\ Others(p)
        /\ mem'.plan[p] = doc /\ mem'.idx = mem.idx /\ mem'.sched = ms
        /\ \A q \in Plans \ {p} : mem'.plan[q] = mem.plan[q]
        /\ redis'.plan[p] = rd /\ redis'.idx = redis.idx /\ redis'.sched = rs
    BY <1>1, <2>2, <2>4, <2>6, <2>7, <2>8, Writes
  <2>10. HurtBy(p, ok) \subseteq {p} /\ (p \notin HurtBy(p, ok) => ok[1] /\ ok[2])
    BY DEF HurtBy
  <2>11. faults' \in 0 .. MaxFaults
    BY <2>1, InvFacts, OutcomeIs
  <2>12. hurt' \subseteq Plans /\ Monotone
    BY <1>4, <2>1, <2>10, InvFacts DEF Monotone
  <2>13. ASSUME NEW q \in Plans \ {p} PROVE PlanInv(q)'
    <3>1. PlanInv(q) /\ AsBefore(q)
      BY <2>9, InvFacts DEF Others
    <3>2. ASSUME q \in chained' \ (hurt' \cup stranded' \cup reopened') PROVE Attended(q)'
      <4>1. q \notin hurt /\ Going(q)
        BY <1>4, <2>12, <3>1, <3>2 DEF Monotone, PlanInv
      <4> QED BY <1>6, <3>1, <4>1 DEF AsBefore, Going
    <3> QED BY <1>4, <1>7, <2>9, <2>12, <3>1, <3>2, Frame
  <2>14. PlanInv(p)'
    <3>1. PlanInv(p)
      BY InvFacts
    <3>2. ASSUME p \notin hurt' PROVE Sound(p)'
      BY <1>1, <2>1, <2>3, <2>5, <2>9, <2>10, <3>2 DEF AllSound, Sound
    <3>3. ASSUME p \notin hurt' \cup reopened' PROVE Ordered(p)'
      <4>1. Ordered(p)
        BY <2>12, <3>1, <3>3 DEF PlanInv, Monotone
      <4>2. \A s \in Steps : <<p, s>> \in done' => doc.steps[s] = "completed"
        BY <1>4, <2>3, <4>1 DEF Ordered, Keeps, KeepsStep, Open
      <4>3. ASSUME NEW e \in Appointed' \ {NoEntry}, e.plan = p, ~e.asked, NEW d \in OpenDeps(e)'
            PROVE  FALSE
        <5>1. e \in Appointed \ {NoEntry} \/ (e \in ms /\ e \notin mem.sched)
          BY <1>4, <2>9, <4>3 DEF Appointed
        <5>2. d \in Deps[p][e.step] /\ d < e.step /\ Open(doc.steps[d])
          BY <2>9, <4>3 DEF OpenDeps
        <5>3. CASE e \in Appointed \ {NoEntry}
          <6>1. d \in Steps
            BY <4>3, <5>2, <5>3, EntryIs, InvFacts
          <6>2. d \in OpenDeps(e)
            BY <2>3, <4>3, <5>2, <6>1 DEF OpenDeps, Keeps, KeepsStep
          <6> QED BY <4>1, <4>3, <5>3, <6>2 DEF Ordered
        <5>4. CASE e \in ms /\ e \notin mem.sched
          <6>1. e \in Entries
            BY <2>4, <5>4 DEF GoodSched
          <6>2. d \in Steps
            BY <4>3, <5>2, <6>1, PlanAssumption DEF Entries
          <6> QED BY <2>4, <5>2, <5>4, <6>2
        <5> QED BY <5>1, <5>3, <5>4
      <4> QED BY <2>9, <4>2, <4>3 DEF Ordered
    <3>4. ASSUME p \in chained' \ (hurt' \cup stranded' \cup reopened') PROVE Going(p)'
      <4>1. Going(p)
        BY <1>4, <2>12, <3>1, <3>4 DEF PlanInv, Monotone
      <4>2. doc.status = "active" /\ OpenSteps(doc) # {}
        BY <2>3, <4>1 DEF Going, OpenSteps, Keeps, KeepsStep
      <4> QED BY <2>4, <2>9, <4>2 DEF Going, OpenSteps, Attended
    <3>5. mem'.plan[p] = NoPlan <=> redis'.plan[p] = NoPlan
      BY <2>9 DEF NoneIsNoPlan
    <3> QED BY <3>2, <3>3, <3>4, <3>5 DEF PlanInv
  <2>15. HistoryOK'
    BY <1>1, <1>4, <2>11, <2>12 DEF HistoryOK
  <2> QED BY <1>4, <1>5, <2>9, <2>12, <2>13, <2>14, <2>15, LoopKeeps DEF Monotone
<1>9. CASE ~recovered'
  <2>1. UNCHANGED <<mem, redis, faults, hurt>> /\ ~stuck
    BY <1>4, <1>9 DEF RecoverPlan
  <2>2. ASSUME NEW q \in Plans, Going(q) PROVE Attended(q)'
    <3>1. CASE q # p
      BY <1>6, <2>1, <2>2, <3>1 DEF Going
    <3>2. CASE q = p
      BY <1>4, <2>1, <2>2, <3>2 DEF Going, Attended, Stuck
    <3> QED BY <3>1, <3>2
  <2>3. \A q \in Plans : PlanInv(q)'
    BY <1>4, <1>7, <2>1, <2>2, FrameAll
  <2>4. HistoryOK' /\ ViewOK(mem') /\ ViewOK(redis')
    BY <1>1, <1>4, <2>1 DEF HistoryOK
  <2> QED BY <1>4, <1>5, <2>1, <2>3, <2>4, LoopKeeps
<1> QED BY <1>8, <1>9

-----------------------------------------------------------------------------
(* The invariant, and the properties                                       *)

LEMMA PlansStart == ASSUME PlansInit PROVE PlansInv
<1>1. /\ Empty.plan = [p \in Plans |-> NoPlan] /\ Empty.idx = <<>> /\ Empty.sched = {}
      /\ Empty \in Views
  BY EmptySeq DEF Empty, Views
<1>2. ViewOK(Empty)
  BY <1>1 DEF ViewOK, OncePerPlan, OncePerStep, IsInjective
<1>3. mem = Empty /\ redis = Empty
  BY DEF PlansInit
<1>4. LoopOK
  BY EmptySeq DEF PlansInit, LoopOK, Tenants
<1>5. HistoryOK
  BY PlanAssumption DEF PlansInit, HistoryOK
<1>6. PlansTypeOK
  BY <1>2, <1>3, <1>4, <1>5, TypeIs
<1>7. ASSUME NEW p \in Plans PROVE PlanInv(p)
  <2>1. mem.plan[p] = NoPlan /\ mem.sched = {} /\ todo = {} /\ cur = NoEntry /\ done = {} /\ chained = {}
    BY <1>1, <1>3 DEF PlansInit
  <2>2. Sound(p)
    BY <1>3, <2>1 DEF Sound, NoPlan
  <2>3. Ordered(p)
    BY <2>1 DEF Ordered, Appointed
  <2> QED BY <1>3, <2>1, <2>2, <2>3 DEF PlanInv
<1>8. AtEntry /\ DependenciesFirst /\ DoneOnce
  BY DEF PlansInit, AtEntry, DependenciesFirst, DoneOnce
<1> QED BY <1>6, <1>7, <1>8 DEF PlansInv

LEMMA PlansStutter == ASSUME PlansInv, UNCHANGED planVars PROVE PlansInv'
<1>1. UNCHANGED <<mem, redis, ctx, stage, todo, cur, told, left, recovered, edits, faults, crashes,
                  hurt, reopened, early, done, again, chained, stranded>>
  BY DEF planVars, loopVars, bounds, history
<1>2. LoopOK /\ HistoryOK /\ ViewOK(mem) /\ ViewOK(redis)
  BY TypeParts
<1>3. LoopOK' /\ HistoryOK' /\ ViewOK(mem') /\ ViewOK(redis')
  BY <1>1, <1>2 DEF LoopOK, HistoryOK
<1>4. AtEntry'
  BY <1>1 DEF PlansInv, AtEntry, Visible, Here, Exists
<1>5. \A x \in todo' \cup {cur'} : x \in Appointed
  BY <1>1 DEF Appointed
<1>6. \A q \in Plans : Going(q) => Attended(q)'
  BY <1>1 DEF Going, Attended, Here, Stuck, InStatus
<1>7. \A q \in Plans : PlanInv(q)'
  BY <1>1, <1>5, <1>6, FrameAll
<1> QED BY <1>1, <1>3, <1>4, <1>7, LoopKeeps

LEMMA ToolsStep == ASSUME PlansInv, Tools PROVE PlansInv'
<1>1. PICK p \in Plans :
        \/ CreatePlan(p)
        \/ \E ok \in [1 .. 2 -> BOOLEAN] :
             \/ ActivatePlan(p, ok)
             \/ CancelPlan(p, ok)
             \/ \E s \in Steps, st \in UserStatuses : UpdateStep(p, s, st, ok)
        \/ \E s \in Steps, ok \in BOOLEAN : ScheduleStep(p, s, ok)
  BY DEF Tools
<1> QED BY <1>1, CreateStep, ActivateStep, CancelPlanStep, UpdateStepStep, ScheduleStepStep

LEMMA LoopStep == ASSUME PlansInv, Loop PROVE PlansInv'
BY BeginStep, RunStep, PassEndsStep, SkipStep, RunEndsStep, ScheduleNextStep DEF Loop

LEMMA PlansStep == ASSUME PlansInv, [PlansNext]_planVars PROVE PlansInv'
<1>1. CASE Tools BY <1>1, ToolsStep
<1>2. CASE Pass BY <1>2, PassStep
<1>3. CASE Loop BY <1>3, LoopStep
<1>4. CASE IdlePasses BY <1>4, IdlePassesStep
<1>5. CASE CacheExpires BY <1>5, CacheExpiresStep
<1>6. CASE Crash BY <1>6, CrashStep
<1>7. CASE Restart BY <1>7, RestartStep
<1>8. CASE Recovery BY <1>8, RecoveryEndsStep, RecoverPlanStep DEF Recovery
<1>9. CASE \E st \in {"completed", "blocked"}, ok \in [1 .. 2 -> BOOLEAN] : Report(st, ok)
  BY <1>9, ReportStep
<1>10. CASE \E ok \in [1 .. 3 -> BOOLEAN] : RunFails(ok)
  BY <1>10, RunFailsStep
<1>11. CASE UNCHANGED planVars BY <1>11, PlansStutter
<1> QED BY <1>1, <1>2, <1>3, <1>4, <1>5, <1>6, <1>7, <1>8, <1>9, <1>10, <1>11 DEF PlansNext

\* The scheduler keeps its invariant, and with it the types (planner.py,
\* scheduler.py, memory_store.py), whatever is edited, fails or dies.
THEOREM PlansInvariant == PlansSpec => []PlansInv
<1>1. PlansInit => PlansInv
  BY PlansStart
<1>2. PlansInv /\ [PlansNext]_planVars => PlansInv'
  BY PlansStep
<1> QED BY <1>1, <1>2, PTL DEF PlansSpec

\* The types of the scheduler's state, with an index that names a plan once and a
\* schedule that has one appointment per step.
THEOREM PlansTyped == PlansSpec => []PlansTypeOK
<1>1. PlansInv => PlansTypeOK
  BY DEF PlansInv
<1> QED BY <1>1, PlansInvariant, PTL

\* The loop's own appointments keep the order of a plan's dependencies, of which
\* neither _auto_schedule_next nor _execute_step reads anything.
THEOREM DependenciesComeFirst == PlansSpec => []DependenciesFirst
<1>1. PlansInv => DependenciesFirst
  BY DEF PlansInv
<1> QED BY <1>1, PlansInvariant, PTL

\* A step reported as completed is not run again, across deaths, unless a step of
\* its plan was set back or a write failed.
THEOREM StepsAreDoneOnce == PlansSpec => []DoneOnce
<1>1. PlansInv => DoneOnce
  BY DEF PlansInv
<1> QED BY <1>1, PlansInvariant, PTL

\* A plan the loop has begun to work on keeps an appointment while it is active
\* and has an open step.
THEOREM ChainsGoOn == PlansSpec => []ChainGoesOn
<1>1. ASSUME PlansInv, stage \notin {"down", "recover"},
             NEW p \in chained \ (hurt \cup stranded \cup reopened)
      PROVE  (cur.plan = p /\ stage = "told") \/ \E e \in mem.sched : e.plan = p
  <2>1. p \in Plans /\ PlanInv(p)
    BY <1>1, InvFacts
  <2>2. Attended(p)
    BY <1>1, <2>1 DEF PlanInv, Going
  <2> QED BY <1>1, <2>2 DEF Attended, Due
<1>2. PlansInv => ChainGoesOn
  BY <1>1 DEF ChainGoesOn
<1> QED BY <1>2, PlansInvariant, PTL
=============================================================================
