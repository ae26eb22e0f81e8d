---------------------------- MODULE PlanScheduler ----------------------------
(***************************************************************************)
(* Plans and the loop that works them off: app/services/planner.py, the    *)
(* plan half of app/services/scheduler.py, app/services/memory_store.py    *)
(* and the plan tools of app/tools/memory_ops.py.                          *)
(*                                                                         *)
(* Plans, their index and the schedule are JSON values in Redis.  The      *)
(* process reads them through a cache that hands out the cached object     *)
(* itself, so a change whose write failed is seen until the cache expires: *)
(* `mem' is what the process sees, `redis' what is stored, and they differ *)
(* only after a failed write.  Code between two awaits is one action; the  *)
(* loop awaits at each notification and at the agent's run.                *)
(***************************************************************************)
EXTENDS Naturals, Sequences, FiniteSets, SequencesExt

CONSTANTS Plans,        \* plan ids
          NSteps,       \* the steps of a plan, in their order: 1 .. NSteps
          Deps,         \* [Plans -> [1 .. NSteps -> SUBSET (1 .. NSteps)]], depends_on
          TenantOf,     \* the tenant a plan is kept under
          Default,      \* tenant_registry.get_default(): the context at startup
          Feishu,       \* the first Feishu tenant: stands in for a missing tenant_id
          LastDreamer,  \* the tenant the dream and distill passes visit last
          UserStatuses, \* what users have steps set to
          MaxEdits,     \* bound: calls of the plan tools by users
          MaxFaults,    \* bound: failed writes
          MaxCrashes    \* bound: deaths of the process

Steps == 1 .. NSteps
Tenants == {TenantOf[p] : p \in Plans} \cup {Default, Feishu, LastDreamer}

ASSUME PlanAssumption ==
  /\ NSteps \in Nat \ {0}
  /\ Deps \in [Plans -> [Steps -> SUBSET Steps]]
  /\ DOMAIN TenantOf = Plans
  /\ UserStatuses \subseteq {"pending", "in_progress", "completed", "blocked"}
  /\ MaxEdits \in Nat /\ MaxFaults \in Nat /\ MaxCrashes \in Nat

VARIABLES
  mem, redis,  \* [plan, idx, sched] as the process sees them and as stored
  ctx,         \* the tenant in the context of the scheduler's task
  stage,       \* the loop: "idle" "next" "start" "run" "told", "recover", "down"
  todo,        \* the due entries this pass took and has not begun
  cur,         \* the entry it is at
  told,        \* whether the running agent has reported its step
  left,        \* recovery: the plans still to be looked at
  recovered,   \* recovery: whether any step was reset so far
  edits, faults, crashes,
  hurt,        \* history: plans with a failed write
  reopened,    \* history: plans with a completed step set back
  early,       \* history: plans with a step run before one it depends on
  done,        \* history: the steps reported as completed
  again,       \* history: plans with a step run after its completion
  chained,     \* history: active plans the loop has an appointment for
  stranded     \* history: plans whose appointment a death took

loopVars == <<ctx, stage, todo, cur, told, left, recovered>>
bounds == <<edits, faults, crashes>>
history == <<hurt, reopened, early, done, again, chained, stranded>>
planVars == <<mem, redis, loopVars, bounds, history>>

StepStatuses == {"pending", "in_progress", "completed", "blocked"}
PlanStatuses == {"draft", "active", "completed", "cancelled"}
Docs == [status: PlanStatuses, steps: [Steps -> StepStatuses]]
NoPlan == [status |-> "none", steps |-> [s \in Steps |-> "pending"]]
\* an appointment; named: it carries its tenant_id; asked: a user set it
Entries == [plan: Plans, step: Steps, named: BOOLEAN, asked: BOOLEAN]
NoEntry == [plan |-> "none", step |-> 0, named |-> FALSE, asked |-> FALSE]
IndexEntries == [plan: Plans, status: PlanStatuses]
Views == [plan: [Plans -> Docs \cup {NoPlan}], idx: Seq(IndexEntries), sched: SUBSET Entries]

PlansTypeOK ==
  /\ mem \in Views /\ redis \in Views
  /\ ctx \in Tenants
  /\ stage \in {"idle", "next", "start", "run", "told", "recover", "down"}
  /\ todo \subseteq Entries /\ cur \in Entries \cup {NoEntry}
  /\ told \in BOOLEAN /\ recovered \in BOOLEAN
  /\ left \in Seq(Plans)
  /\ edits \in 0 .. MaxEdits /\ faults \in 0 .. MaxFaults /\ crashes \in 0 .. MaxCrashes
  /\ done \subseteq Plans \X Steps
  /\ \A h \in {hurt, reopened, early, again, chained, stranded} : h \subseteq Plans
  \* an index names a plan once, a schedule has one appointment per step
  /\ \A v \in {mem, redis} :
       /\ IsInjective([i \in DOMAIN v.idx |-> v.idx[i].plan])
       /\ \A a, b \in v.sched : a.plan = b.plan /\ a.step = b.step => a = b

Empty == [plan |-> [p \in Plans |-> NoPlan], idx |-> <<>>, sched |-> {}]

PlansInit ==
  /\ mem = Empty /\ redis = Empty
  /\ ctx = Default /\ stage = "idle" /\ todo = {} /\ cur = NoEntry
  /\ told = FALSE /\ left = <<>> /\ recovered = FALSE
  /\ edits = 0 /\ faults = 0 /\ crashes = 0
  /\ hurt = {} /\ reopened = {} /\ early = {} /\ done = {} /\ again = {}
  /\ chained = {} /\ stranded = {}

-----------------------------------------------------------------------------
(* Plans as values                                                         *)

Open(st) == st \in {"pending", "in_progress"}
OpenSteps(doc) == {s \in Steps : Open(doc.steps[s])}
IsFirst(s, S) == s \in S /\ \A o \in S : s <= o
With(doc, s, st) == [doc EXCEPT !.steps[s] = st]
InStatus(doc, st) == {s \in Steps : doc.steps[s] = st}

\* the first step of S, if there is one, becomes in_progress
StartFirst(doc, S) ==
  [doc EXCEPT !.steps = [s \in Steps |-> IF IsFirst(s, S) THEN "in_progress" ELSE @[s]]]

\* advance_next_step: the first pending step whose dependencies are completed
AutoAdvance(p, doc) ==
  StartFirst(doc, {s \in InStatus(doc, "pending") : Deps[p][s] \subseteq InStatus(doc, "completed")})

\* activate_plan looks at no dependency and at no status of the plan
Activated(doc) == [StartFirst(doc, InStatus(doc, "pending")) EXCEPT !.status = "active"]

\* update_step: a plan whose steps are all completed is completed, whatever it was
Updated(p, doc, s, st) ==
  LET set == With(doc, s, st)
      adv == IF st = "completed" THEN AutoAdvance(p, set) ELSE set
  IN IF InStatus(adv, "completed") = Steps THEN [adv EXCEPT !.status = "completed"] ELSE adv

\* _update_index
Indexed(idx, p, status) ==
  IF \E i \in DOMAIN idx : idx[i].plan = p
  THEN [i \in DOMAIN idx |-> IF idx[i].plan = p THEN [idx[i] EXCEPT !.status = status] ELSE idx[i]]
  ELSE Append(idx, [plan |-> p, status |-> status])

\* add_schedule: the entry of the step is moved, and keeps its tenant when the
\* new appointment names none
Added(sched, e) ==
  LET old == {o \in sched : o.plan = e.plan /\ o.step = e.step}
  IN (sched \ old) \cup {[e EXCEPT !.named = e.named \/ \E o \in old : o.named]}

Removed(sched, e) == {o \in sched : o.plan # e.plan \/ o.step # e.step}
Entry(p, s, named, asked) == [plan |-> p, step |-> s, named |-> named, asked |-> asked]

-----------------------------------------------------------------------------
(* Writes: each may fail, and the writer goes on                           *)

Outcome(ok) == faults' = faults + Cardinality({i \in DOMAIN ok : ~ok[i]}) /\ faults' <= MaxFaults
HurtBy(p, ok) == IF \A i \in DOMAIN ok : ok[i] THEN {} ELSE {p}

\* _save_plan: the plan, then the index; an index that did not exist yet is a
\* new object, not in the cache before its write succeeded
SavePlan(p, doc, ok, view, store) ==
  LET idx == Indexed(view.idx, p, doc.status) IN
    /\ mem' = [view EXCEPT !.plan[p] = doc,
                           !.idx = IF ok[2] \/ view.idx # <<>> THEN idx ELSE @]
    /\ redis' = [store EXCEPT !.plan[p] = IF ok[1] THEN doc ELSE @,
                              !.idx = IF ok[2] THEN idx ELSE @]

\* appends to the cached list itself
SaveAdded(e, ok) ==
  LET sched == Added(mem.sched, e) IN
    /\ mem' = [mem EXCEPT !.sched = sched]
    /\ redis' = [redis EXCEPT !.sched = IF ok THEN sched ELSE @]

-----------------------------------------------------------------------------
(* The tools, called by whatever agent loop talks to a user                *)

Exists(p) == mem.plan[p] # NoPlan
Edit == stage \notin {"down", "recover"} /\ edits < MaxEdits /\ edits' = edits + 1

\* a plan whose write fails exists in the answer to its creator only
CreatePlan(p) ==
  /\ stage \notin {"down", "recover"} /\ ~Exists(p)
  /\ LET doc == [status |-> "draft", steps |-> [s \in Steps |-> "pending"]] IN
       /\ mem' = [mem EXCEPT !.plan[p] = doc]
       /\ redis' = [redis EXCEPT !.plan[p] = doc]
  /\ UNCHANGED <<loopVars, bounds, history>>

\* after the tool call the chain of p counts as begun if p is active, has an
\* open step and an appointment, and as ended if p is not active or has none open
Chains(p, doc, sched) ==
  chained' = IF doc.status # "active" \/ OpenSteps(doc) = {} THEN chained \ {p}
             ELSE IF \E e \in sched : e.plan = p THEN chained \cup {p} ELSE chained

Completes(p, s, st) ==
  done' = IF st = "completed" THEN done \cup {<<p, s>>} ELSE done

SaveDoc(p, doc, ok) ==
  /\ Outcome(ok)
  /\ SavePlan(p, doc, ok, mem, redis)
  /\ hurt' = hurt \cup HurtBy(p, ok)
  /\ Chains(p, doc, mem.sched)

ActivatePlan(p, ok) ==
  /\ Edit /\ Exists(p)
  /\ SaveDoc(p, Activated(mem.plan[p]), ok)
  /\ UNCHANGED <<loopVars, crashes, reopened, early, done, again, stranded>>

CancelPlan(p, ok) ==
  /\ Edit /\ Exists(p)
  /\ SaveDoc(p, [mem.plan[p] EXCEPT !.status = "cancelled"], ok)
  /\ UNCHANGED <<loopVars, crashes, reopened, early, done, again, stranded>>

\* update_plan_step, any step to any status
UpdateStep(p, s, st, ok) ==
  /\ Edit /\ Exists(p) /\ st # mem.plan[p].steps[s]
  /\ SaveDoc(p, Updated(p, mem.plan[p], s, st), ok)
  /\ reopened' = IF Open(st) \/ mem.plan[p].steps[s] = "completed" THEN reopened \cup {p} ELSE reopened
  /\ Completes(p, s, st)
  /\ UNCHANGED <<loopVars, crashes, early, again, stranded>>

\* the tool injects its tenant's id; a failed write is reported, and stays in
\* the cached list
ScheduleStep(p, s, ok) ==
  /\ Edit /\ Exists(p)
  /\ Outcome(<<ok>>)
  /\ SaveAdded(Entry(p, s, TRUE, TRUE), ok)
  /\ hurt' = hurt \cup HurtBy(p, <<ok>>)
  /\ Chains(p, mem.plan[p], mem'.sched)
  /\ UNCHANGED <<loopVars, crashes, reopened, early, done, again, stranded>>

Tools ==
  \E p \in Plans :
    \/ CreatePlan(p)
    \/ \E ok \in [1 .. 2 -> BOOLEAN] :
         \/ ActivatePlan(p, ok)
         \/ CancelPlan(p, ok)
         \/ \E s \in Steps, st \in UserStatuses : UpdateStep(p, s, st, ok)
    \/ \E s \in Steps, ok \in BOOLEAN : ScheduleStep(p, s, ok)

-----------------------------------------------------------------------------
(* The loop                                                                *)

\* the schedule, and a plan, are looked up under the context's tenant
Here(p) == TenantOf[p] = ctx
Visible(p) == Here(p) /\ Exists(p)

\* _process_due_schedules in work hours: the entries of the context's tenant
\* whose time has come, which may be any of them
Pass ==
  /\ stage = "idle"
  /\ \E due \in SUBSET {e \in mem.sched : Here(e.plan)} : due # {} /\ todo' = due
  /\ stage' = "next"
  /\ UNCHANGED <<mem, redis, ctx, cur, told, left, recovered, bounds, history>>

\* sets the context of the item and tells the user that it starts
Begin ==
  \E e \in todo :
    /\ stage = "next"
    /\ cur' = e /\ todo' = todo \ {e}
    /\ ctx' = IF e.named THEN TenantOf[e.plan] ELSE Feishu
    /\ stage' = "start"
    /\ UNCHANGED <<mem, redis, told, left, recovered, bounds, history>>

\* Mutant of Runs: the status of the step is not looked at.
RunsAlways(e) == Visible(e.plan)

\* _execute_step goes on to the agent; it looks at neither the status of the
\* plan nor the dependencies of the step
Runs(e) == Visible(e.plan) /\ mem.plan[e.plan].steps[e.step] # "completed"

\* the steps e depends on that its own position does not excuse
OpenDeps(e) ==
  {d \in Deps[e.plan][e.step] : d < e.step /\ Open(mem.plan[e.plan].steps[d])}

Run ==
  /\ stage = "start" /\ Runs(cur)
  /\ stage' = "run" /\ told' = FALSE
  /\ early' = IF ~cur.asked /\ OpenDeps(cur) # {} THEN early \cup {cur.plan} ELSE early
  /\ again' = IF <<cur.plan, cur.step>> \in done THEN again \cup {cur.plan} ELSE again
  /\ UNCHANGED <<mem, redis, ctx, todo, cur, left, recovered, bounds,
                 hurt, reopened, done, chained, stranded>>

\* remove_schedule makes a new list: if its write fails the old one stays
Unschedule(view, store, ok) ==
  /\ mem' = [view EXCEPT !.sched = IF ok /\ Here(cur.plan) THEN Removed(@, cur) ELSE @]
  /\ redis' = [store EXCEPT !.sched = IF ok /\ Here(cur.plan) THEN Removed(view.sched, cur) ELSE @]

Skip(ok) ==
  /\ stage = "start" /\ ~Runs(cur)
  /\ stage' = "told"
  /\ Outcome(<<ok>>) /\ Unschedule(mem, redis, ok)
  /\ hurt' = hurt \cup HurtBy(cur.plan, <<ok>>)
  /\ UNCHANGED <<ctx, todo, cur, told, left, recovered, edits, crashes,
                 reopened, early, done, again, chained, stranded>>

\* the running agent calls update_plan_step for its step, as it was told to
Report(st, ok) ==
  /\ stage = "run" /\ ~told
  /\ told' = TRUE
  /\ SaveDoc(cur.plan, Updated(cur.plan, mem.plan[cur.plan], cur.step, st), ok)
  /\ reopened' = IF st # "completed" /\ mem.plan[cur.plan].steps[cur.step] = "completed"
                 THEN reopened \cup {cur.plan} ELSE reopened
  /\ Completes(cur.plan, cur.step, st)
  /\ UNCHANGED <<ctx, stage, todo, cur, left, recovered, edits, crashes, early, again, stranded>>

\* Mutant of RunEnds: the agent's run has no timeout.
RunHangs(ok) == stage = "run" /\ ok /\ FALSE /\ UNCHANGED planVars

\* the agent answered, with or without a report
RunEnds(ok) ==
  /\ stage = "run"
  /\ stage' = "told"
  /\ Outcome(<<ok>>) /\ Unschedule(mem, redis, ok)
  /\ hurt' = hurt \cup HurtBy(cur.plan, <<ok>>)
  /\ UNCHANGED <<ctx, todo, cur, told, left, recovered, edits, crashes,
                 reopened, early, done, again, chained, stranded>>

\* the 300 s ran out or the agent raised: the step is blocked, even if it has
\* been reported as completed meanwhile
RunFails(ok) ==
  LET p == cur.plan
      doc == Updated(p, mem.plan[p], cur.step, "blocked")
      idx == Indexed(mem.idx, p, doc.status)
      view == [mem EXCEPT !.plan[p] = doc, !.idx = IF ok[2] \/ @ # <<>> THEN idx ELSE @]
      store == [redis EXCEPT !.plan[p] = IF ok[1] THEN doc ELSE @, !.idx = IF ok[2] THEN idx ELSE @]
  IN
  /\ stage = "run"
  /\ stage' = "told"
  /\ Outcome(ok) /\ Unschedule(view, store, ok[3])
  /\ hurt' = hurt \cup HurtBy(p, ok)
  /\ reopened' = IF mem.plan[p].steps[cur.step] = "completed" THEN reopened \cup {p} ELSE reopened
  /\ chained' = IF OpenSteps(doc) = {} THEN chained \ {p} ELSE chained
  /\ UNCHANGED <<ctx, todo, cur, told, left, recovered, edits, crashes, early, done, again, stranded>>

\* Mutant of NextSteps: the steps after the one just run.
NextStepsAfter(doc) == {s \in OpenSteps(doc) : s > cur.step}

NextSteps(doc) == OpenSteps(doc)

\* the user is told the result, then the next step of an active plan is
\* scheduled: the first that is pending or in progress, whatever it depends on
ScheduleNext(ok) ==
  LET p == cur.plan
      doc == mem.plan[p]
      S == NextSteps(doc)
  IN
  /\ stage = "told"
  /\ stage' = "next" /\ cur' = NoEntry
  /\ IF Visible(p) /\ doc.status = "active" /\ S # {}
     THEN \E s \in S :
            /\ IsFirst(s, S)
            /\ Outcome(<<ok>>)
            /\ SaveAdded(Entry(p, s, cur.named, FALSE), ok)
            /\ hurt' = hurt \cup HurtBy(p, <<ok>>)
            /\ chained' = chained \cup {p}
     ELSE ok /\ UNCHANGED <<mem, redis, faults, hurt, chained>>
  /\ UNCHANGED <<ctx, todo, told, left, recovered, edits, crashes,
                 reopened, early, done, again, stranded>>

PassEnds ==
  /\ stage = "next" /\ todo = {}
  /\ stage' = "idle"
  /\ UNCHANGED <<mem, redis, ctx, todo, cur, told, left, recovered, bounds, history>>

\* _maybe_distill_memory and _maybe_dream leave the last tenant's context behind
IdlePasses ==
  /\ stage = "idle" /\ ctx # LastDreamer
  /\ ctx' = LastDreamer
  /\ UNCHANGED <<mem, redis, stage, todo, cur, told, left, recovered, bounds, history>>

Loop ==
  \/ Begin \/ Run \/ PassEnds
  \/ \E ok \in BOOLEAN : Skip(ok) \/ RunEnds(ok) \/ ScheduleNext(ok)

-----------------------------------------------------------------------------
(* The cache, the process, its recovery                                    *)

\* 300 s after it was read a value is read again
CacheExpires ==
  /\ stage \notin {"down", "recover"} /\ mem # redis
  /\ \/ \E p \in Plans : mem' = [mem EXCEPT !.plan[p] = redis.plan[p]]
     \/ mem' = [mem EXCEPT !.idx = redis.idx]
     \/ mem' = [mem EXCEPT !.sched = redis.sched]
  /\ mem' # mem
  /\ UNCHANGED <<redis, loopVars, bounds, history>>

\* plans recover_stale_steps will not see: it goes by steps in progress, in
\* the plans of the default tenant
Unseen(p) == TenantOf[p] # Default \/ InStatus(redis.plan[p], "in_progress") = {}

\* a death between remove_schedule and _auto_schedule_next loses the plan's
\* appointment if nothing in Redis shows it
Crash ==
  /\ stage # "down"
  /\ crashes < MaxCrashes /\ crashes' = crashes + 1
  /\ stage' = "down"
  /\ mem' = redis /\ todo' = {} /\ cur' = NoEntry /\ left' = <<>> /\ told' = FALSE
  /\ stranded' = IF stage = "told" /\ Unseen(cur.plan) THEN stranded \cup {cur.plan} ELSE stranded
  /\ UNCHANGED <<redis, ctx, recovered, edits, faults, hurt, reopened, early, done, again, chained>>

\* recover_stale_steps reads the index of the default tenant: the plans that are
\* active there, in the order of the index
ActiveAt(idx) ==
  {i \in DOMAIN idx : idx[i].status = "active" /\ TenantOf[idx[i].plan] = Default}

Restart ==
  /\ stage = "down"
  /\ stage' = "recover" /\ ctx' = Default /\ recovered' = FALSE
  /\ \E at \in [1 .. Cardinality(ActiveAt(redis.idx)) -> ActiveAt(redis.idx)] :
       /\ \A i, j \in DOMAIN at : i < j => at[i] < at[j]
       /\ left' = [i \in DOMAIN at |-> redis.idx[at[i]].plan]
  /\ UNCHANGED <<mem, redis, todo, cur, told, bounds, history>>

Reset(doc) ==
  [doc EXCEPT !.steps = [s \in Steps |-> IF @[s] = "in_progress" THEN "pending" ELSE @[s]]]

\* Mutant of Rescheduled: the steps are reset and no appointment is made.
RescheduledNever(p, doc, sched) == sched

\* five minutes from now, without a tenant, the first pending step
Rescheduled(p, doc, sched) ==
  LET S == InStatus(doc, "pending") IN
    IF S = {} THEN sched
    ELSE Added(sched, Entry(p, CHOOSE s \in S : IsFirst(s, S), FALSE, FALSE))

\* one plan of the recovery: `recovered' counts over all plans, so a plan that
\* comes after one with a stuck step is rescheduled as well
RecoverPlan(ok) ==
  LET p == Head(left)
      stuck == InStatus(mem.plan[p], "in_progress") # {}
      doc == Reset(mem.plan[p])
      sched == Rescheduled(p, doc, mem.sched)
  IN
  /\ stage = "recover" /\ left # <<>>
  /\ left' = Tail(left)
  /\ recovered' = (recovered \/ stuck)
  /\ IF recovered'
     THEN /\ Outcome(ok)
          /\ mem' = [mem EXCEPT !.plan[p] = doc, !.sched = sched]
          /\ redis' = [redis EXCEPT !.plan[p] = IF ok[1] THEN doc ELSE @,
                                    !.sched = IF ok[2] THEN sched ELSE @]
          /\ hurt' = hurt \cup HurtBy(p, ok)
     ELSE (\A i \in DOMAIN ok : ok[i]) /\ UNCHANGED <<mem, redis, faults, hurt>>
  /\ UNCHANGED <<ctx, stage, todo, cur, told, edits, crashes,
                 reopened, early, done, again, chained, stranded>>

RecoveryEnds ==
  /\ stage = "recover" /\ left = <<>>
  /\ stage' = "idle"
  /\ UNCHANGED <<mem, redis, ctx, todo, cur, told, left, recovered, bounds, history>>

Recovery == RecoveryEnds \/ \E ok \in [1 .. 2 -> BOOLEAN] : RecoverPlan(ok)

PlansNext ==
  \/ Tools \/ Pass \/ Loop \/ IdlePasses \/ CacheExpires \/ Crash \/ Restart \/ Recovery
  \/ \E st \in {"completed", "blocked"}, ok \in [1 .. 2 -> BOOLEAN] : Report(st, ok)
  \/ \E ok \in [1 .. 3 -> BOOLEAN] : RunFails(ok)

PlansSpec == PlansInit /\ [][PlansNext]_planVars

PassFor(p) == Pass /\ \E e \in todo' : e.plan = p

\* The loop wakes every two minutes; an appointment's time and the work hours
\* come; a run ends, at the latest by its timeout; a dead process is restarted.
PlansFairness ==
  /\ WF_planVars(Loop) /\ WF_planVars(Restart) /\ WF_planVars(Recovery)
  /\ \A p \in Plans : SF_planVars(PassFor(p))
FairPlans == PlansSpec /\ PlansFairness

-----------------------------------------------------------------------------
(* Properties                                                              *)

\* The loop's own appointments keep the order of the plan: a step it scheduled
\* by itself starts only when the earlier steps it depends on are completed or
\* blocked, though neither _auto_schedule_next nor _execute_step reads
\* depends_on (scheduler.py:303, :135).  A step put back by a tool, or a write
\* that failed, is the only way round.
DependenciesFirst == early \subseteq reopened \cup hurt

\* A step reported as completed is not executed again, across deaths that come
\* between the report and the removal of its appointment, unless its plan had a
\* step set back (by a tool, or by a timeout after the report, scheduler.py:186)
\* or a write failed and the completion was forgotten with the cache.
DoneOnce == again \subseteq reopened \cup hurt

\* An active plan the loop has begun to work on keeps an appointment as long as
\* it has an open step, while the loop is not at one of its steps, so it never
\* comes to rest half done.  A failed write can end it, and a death after
\* remove_schedule (scheduler.py:283) if no step in progress tells the recovery
\* of it: the recovery looks for steps in progress only (scheduler.py:897).
ChainGoesOn ==
  stage \notin {"down", "recover"} =>
    \A p \in chained \ (hurt \cup stranded \cup reopened) :
      \/ cur.plan = p /\ stage = "told"
      \/ \E e \in mem.sched : e.plan = p

\* A plan with an appointment gets its turn in the end: the loop takes up one
\* of its steps, whatever runs, fails or dies before it, or has moved to another
\* tenant, whose schedule it then reads instead (scheduler.py:223, :250).
AppointmentsAreKept ==
  \A p \in Plans :
    (\E e \in mem.sched : e.plan = p)
      ~> (cur.plan = p \/ ~Here(p) \/ \A e \in mem.sched : e.plan # p)
=============================================================================
