----------------------------- MODULE Reminders -----------------------------
(***************************************************************************)
(* Reminders: the reminder tools (app/tools/reminder_ops.py) and the loop  *)
(* that fires them (app/services/scheduler.py, _process_due_reminders and  *)
(* _reminder_loop), one tenant served by one process.                      *)
(*                                                                         *)
(* A reminder is a JSON member of its owner's sorted set, scored by its    *)
(* next trigger; a second set indexes the owners that have one.  The tools *)
(* and the part of the loop between two awaits are synchronous: nothing    *)
(* else runs in the process meanwhile, but every Redis command in them is  *)
(* a step of its own, at which the process can die and the command fail    *)
(* (redis_client.execute then returns None).  `cmds' holds the commands    *)
(* the running synchronous code still has to issue.                        *)
(***************************************************************************)
EXTENDS Integers, Sequences, FiniteSets

CONSTANTS Rem,        \* reminder ids (set_reminder draws each at random)
          Owners,      \* the users
          Owner,      \* [Rem -> Owners]
          Period,     \* ticks between two occurrences of a recurring one
          MaxSleep,   \* _REMINDER_MAX_SLEEP, in ticks
          MaxTrigger, \* bound: users act before this tick and ask for times up to it
          MaxEdits,   \* bound: how often update_reminder is called
          MaxMishaps  \* bound: how often the process dies or a command fails

ASSUME RemindersAssumption ==
  /\ Owner \in [Rem -> Owners]
  /\ Period \in Nat \ {0} /\ MaxSleep \in Nat \ {0} /\ MaxTrigger \in Nat
  /\ MaxEdits \in Nat /\ MaxMishaps \in Nat

\* the clock stops one longest sleep after the last reminder asked for, and
\* another one for every sleep that may have followed a failed read
Horizon == MaxTrigger + MaxSleep * (1 + MaxMishaps)
Times == 1 .. Horizon + Period

VARIABLES
  clock,    \* the clock
  zset,     \* the sorted sets reminders:{tenant}:{user}, together
  index,    \* the set reminder_users:{tenant}
  loop,       \* the loop: "boot" "sleep" "next" "exec", or "down" with the process
  wake,     \* when the sleeping loop wakes
  unseen,   \* the occurrences due when it fell asleep that it could not read
  todo,     \* the due members read by this pass and not yet fired
  cmds,     \* the commands the running synchronous code has yet to issue
  edits, mishaps,
  unset,    \* the ids not drawn yet
  promised, \* history: reminders confirmed to the user and still owed
  cancelled,\* history: reminders whose cancellation was confirmed
  ran,      \* history: the occurrences whose execution started
  reran,    \* history: those whose execution started again
  raced,    \* history: ids edited or cancelled while a pass held them
  hurt      \* history: ids a failed command was about, or left half-way

redisVars == <<zset, index>>
loopVars == <<loop, wake, unseen, todo>>
history == <<promised, cancelled, ran, reran, raced>>
reminderVars == <<clock, redisVars, loopVars, cmds, edits, mishaps, unset, history, hurt>>

\* the JSON payload, cut to what the code reads back or a user can change
Members == [id: Rem, at: Times, rec: BOOLEAN, ver: 0 .. MaxEdits]
Commands == [op: {"zadd", "sadd", "zrem", "zcard", "srem", "told", "exec"},
             m: Members, told: {"set", "cancelled", "none"}]
Cmd(op, m, told) == [op |-> op, m |-> m, told |-> told]
Occurrence(m) == <<m.id, m.at>>
Of(r) == {m \in zset : m.id = r}
UserOf(m) == Owner[m.id]

RemindersTypeOK ==
  /\ clock \in 0 .. Horizon /\ wake \in 0 .. clock + MaxSleep
  /\ zset \subseteq Members /\ todo \subseteq Members /\ unseen \subseteq Rem \X Times
  /\ index \subseteq Owners /\ hurt \subseteq Rem
  /\ loop \in {"boot", "sleep", "next", "exec", "down"}
  /\ cmds \in Seq(Commands)
  /\ edits \in 0 .. MaxEdits /\ mishaps \in 0 .. MaxMishaps
  /\ unset \subseteq Rem /\ promised \subseteq Rem /\ cancelled \subseteq Rem
  /\ raced \subseteq Rem
  /\ ran \subseteq Rem \X Times /\ reran \subseteq ran

\* no reminder is set and the loop is somewhere in the sleep that follows
RemindersInit ==
  /\ clock = 0 /\ wake \in 1 .. MaxSleep /\ loop = "sleep"
  /\ zset = {} /\ index = {} /\ todo = {} /\ unseen = {} /\ cmds = <<>>
  /\ edits = 0 /\ mishaps = 0
  /\ unset = Rem /\ promised = {} /\ cancelled = {}
  /\ ran = {} /\ reran = {} /\ raced = {} /\ hurt = {}

-----------------------------------------------------------------------------
(* The commands of the synchronous code, one at a time                     *)

\* the user tools run on the event loop whenever the loop's task is suspended
Free == loop \in {"sleep", "exec"} /\ cmds = <<>> /\ clock < MaxTrigger

\* _save_reminder: ZADD, and SADD into the index once that succeeded
Save(m, told) == <<Cmd("zadd", m, told)>>
\* _remove_reminder_by_member: ZREM, and if it removed something ZCARD, SREM
RemoveMember(m, told) == <<Cmd("zrem", m, told)>>

Told(c) == IF c.told = "none" THEN <<>> ELSE <<Cmd("told", c.m, c.told)>>

\* the commands that follow c when it succeeded
After(c) ==
  CASE c.op = "zadd" -> <<Cmd("sadd", c.m, "none")>> \o Told(c)
    [] c.op = "zrem" /\ c.m \in zset -> <<Cmd("zcard", c.m, "none")>> \o Told(c)
    [] c.op = "zcard" /\ \A m \in zset : UserOf(m) # UserOf(c.m)
         -> <<Cmd("srem", c.m, "none")>>
    [] OTHER -> <<>>

\* the commands that follow c when it returned None: no count reads as zero
AfterFault(c) == IF c.op = "zcard" THEN <<Cmd("srem", c.m, "none")>> ELSE <<>>

\* the reminders a failed command may cost: the one it was about, or, when the
\* count failed, every reminder of the user who then leaves the index
Harmed(c) ==
  CASE c.op \in {"zadd", "sadd", "zrem"} -> {c.m.id}
    [] c.op = "zcard" -> {r \in Rem : Owner[r] = UserOf(c.m)}
    [] OTHER -> {}

Mishap == mishaps < MaxMishaps /\ mishaps' = mishaps + 1

RedisOps == {"zadd", "sadd", "zrem", "zcard", "srem"}

Apply(c) ==
  /\ zset' = CASE c.op = "zadd" -> zset \cup {c.m}
               [] c.op = "zrem" -> zset \ {c.m}
               [] OTHER -> zset
  /\ index' = CASE c.op = "sadd" -> index \cup {UserOf(c.m)}
                [] c.op = "srem" -> index \ {UserOf(c.m)}
                [] OTHER -> index

Command ==
  /\ cmds # <<>> /\ Head(cmds).op \in RedisOps
  /\ Apply(Head(cmds))
  /\ cmds' = After(Head(cmds)) \o Tail(cmds)
  /\ UNCHANGED <<clock, loopVars, edits, mishaps, unset, history, hurt>>

\* the request was lost, or its answer was
CommandFails ==
  /\ cmds # <<>> /\ Head(cmds).op \in RedisOps
  /\ Mishap
  /\ Apply(Head(cmds)) \/ UNCHANGED redisVars
  /\ cmds' = AfterFault(Head(cmds)) \o Tail(cmds)
  /\ hurt' = hurt \cup Harmed(Head(cmds))
  /\ UNCHANGED <<clock, loopVars, edits, unset, history>>

\* the tool returns success and the user reads it
Confirm ==
  /\ cmds # <<>> /\ Head(cmds).op = "told"
  /\ LET c == Head(cmds) IN
       /\ promised' = IF c.told = "set" THEN promised \cup {c.m.id} ELSE promised
       /\ cancelled' = IF c.told = "cancelled" THEN cancelled \cup {c.m.id} ELSE cancelled
  /\ cmds' = Tail(cmds)
  /\ UNCHANGED <<clock, redisVars, loopVars, edits, mishaps, unset, ran, reran, raced, hurt>>

-----------------------------------------------------------------------------
(* The tools                                                               *)

\* the next trigger of a recurring reminder set now, or the time asked for:
\* either way in the future
SetReminder ==
  \E r \in unset, rec \in BOOLEAN, at \in clock + 1 .. MaxTrigger :
    /\ Free
    /\ rec => at <= clock + Period
    /\ unset' = unset \ {r}
    /\ cmds' = Save([id |-> r, at |-> at, rec |-> rec, ver |-> 0], "set")
    /\ UNCHANGED <<clock, redisVars, loopVars, edits, mishaps, history, hurt>>

\* _find_reminder_by_id: the member of r with the lowest score
First(r, m) == m \in Of(r) /\ \A o \in Of(r) : m.at <= o.at

\* a pass holds a member of r
Held(r) == \E m \in todo : m.id = r

Race(r) == raced' = IF Held(r) THEN raced \cup {r} ELSE raced

CancelReminder ==
  \E r \in Rem, m \in zset :
    /\ Free
    /\ First(r, m)
    /\ cmds' = RemoveMember(m, "cancelled")
    /\ promised' = promised \ {r}
    /\ Race(r)
    /\ UNCHANGED <<clock, redisVars, loopVars, edits, mishaps, unset,
                   cancelled, ran, reran, hurt>>

\* what update_reminder makes of member m: other words, another recurrence
\* (triggered anew from now) or another single time
Edited(m) ==
  {n \in Members :
     /\ n.id = m.id /\ n.ver \in {m.ver, edits + 1}
     /\ \/ n.at = m.at /\ n.rec = m.rec
        \/ n.at \in clock + 1 .. MaxTrigger /\ (n.rec => n.at <= clock + Period)}

UpdateReminder ==
  \E r \in Rem, m \in zset :
    /\ Free /\ edits < MaxEdits
    /\ First(r, m)
    /\ \E n \in Edited(m) : cmds' = RemoveMember(m, "none") \o Save(n, "set")
    /\ edits' = edits + 1
    /\ promised' = promised \ {r}
    /\ Race(r)
    /\ UNCHANGED <<clock, redisVars, loopVars, mishaps, unset,
                   cancelled, ran, reran, hurt>>

-----------------------------------------------------------------------------
(* The loop                                                                *)

\* Mutant of Due: the tick of the trigger itself is left out.
DueLater == {m \in zset : UserOf(m) \in index /\ m.at < clock}

\* get_due_reminders: the indexed users' members whose score has come
Due == {m \in zset : UserOf(m) \in index /\ m.at <= clock}

ReadDue ==
  /\ cmds = <<>>
  /\ loop = "boot" \/ (loop = "sleep" /\ wake <= clock)
  /\ loop' = "next"
  /\ todo' = Due /\ unseen' = {}
  /\ UNCHANGED <<clock, redisVars, wake, cmds, edits, mishaps, unset, history, hurt>>

\* the reminders a pass has left half-way, the next occurrence saved and the old
\* one not removed
Doubled == {r \in Rem : \E m, n \in Of(r) : m # n}

\* a failed SMEMBERS or ZRANGEBYSCORE reads as "nothing due"; it costs those
\* that a death had left half-way
ReadDueFails ==
  /\ cmds = <<>>
  /\ loop = "boot" \/ (loop = "sleep" /\ wake <= clock)
  /\ Mishap
  /\ loop' = "next"
  /\ todo' = {} /\ unseen' = {}
  /\ hurt' = hurt \cup Doubled
  /\ UNCHANGED <<clock, redisVars, wake, cmds, edits, unset, history>>

\* each user's members come in the order of their scores
Turn(m) == m \in todo /\ \A o \in todo : UserOf(o) = UserOf(m) => m.at <= o.at

\* calc_next_trigger counts from the trigger that has just come, not from now
Successor(m) == [m EXCEPT !.at = m.at + Period]

\* Mutant of FireJob: the member is removed before the next one is saved.
FireJobRemoveFirst(m) ==
  RemoveMember(m, "none") \o (IF m.rec THEN Save(Successor(m), "none") ELSE <<>>)
    \o <<Cmd("exec", m, "none")>>

\* Mutant of FireJob: the member is removed when its execution is over.
FireJobRemoveLast(m) ==
  (IF m.rec THEN Save(Successor(m), "none") ELSE <<>>)
    \o <<Cmd("exec", m, "none")>> \o RemoveMember(m, "none")

\* save the next occurrence, then remove this one, then execute it
FireJob(m) ==
  (IF m.rec THEN Save(Successor(m), "none") ELSE <<>>)
    \o RemoveMember(m, "none") \o <<Cmd("exec", m, "none")>>

Fire ==
  \E m \in todo :
    /\ loop = "next" /\ cmds = <<>>
    /\ Turn(m)
    /\ todo' = todo \ {m}
    /\ cmds' = FireJob(m)
    /\ promised' = IF m.rec THEN promised ELSE promised \ {m.id}
    /\ UNCHANGED <<clock, redisVars, loop, wake, unseen, edits, mishaps, unset,
                   cancelled, ran, reran, raced, hurt>>

\* the first await of the execution: the agent call or the notification
Execute ==
  /\ cmds # <<>> /\ Head(cmds).op = "exec"
  /\ LET o == Occurrence(Head(cmds).m) IN
       /\ ran' = ran \cup {o}
       /\ reran' = IF o \in ran THEN reran \cup {o} ELSE reran
  /\ loop' = "exec"
  /\ cmds' = Tail(cmds)
  /\ UNCHANGED <<clock, redisVars, wake, unseen, todo, edits, mishaps, unset,
                 promised, cancelled, raced, hurt>>

\* the agent answered, or failed three times, or ran into its timeout
Executed ==
  /\ loop = "exec" /\ cmds = <<>>
  /\ loop' = "next"
  /\ UNCHANGED <<clock, redisVars, wake, unseen, todo, cmds, edits, mishaps, unset, history, hurt>>

\* Mutant of WakeAt: the sleep has no upper bound.
WakeUncapped(nearest) ==
  IF nearest = {} THEN clock + MaxSleep
  ELSE LET t == CHOOSE a \in nearest : \A b \in nearest : a <= b
       IN IF t < clock THEN clock ELSE t

\* until the nearest trigger, a second at least (less than a tick), half an
\* hour at most
WakeAt(nearest) ==
  IF nearest = {} THEN clock + MaxSleep
  ELSE LET t == CHOOSE a \in nearest : \A b \in nearest : a <= b
       IN IF t < clock THEN clock ELSE IF t > clock + MaxSleep THEN clock + MaxSleep ELSE t

\* get_nearest_trigger_ts goes through the index; of the users whose read failed it
\* sees nothing
Sleep ==
  \E read \in SUBSET index :
    /\ loop = "next" /\ cmds = <<>> /\ todo = {}
    /\ (read = index /\ UNCHANGED mishaps) \/ (read # index /\ Mishap)
    /\ loop' = "sleep"
    /\ wake' = WakeAt({m.at : m \in {n \in zset : UserOf(n) \in read}})
    /\ unseen' = {Occurrence(m) : m \in {n \in zset : UserOf(n) \notin read /\ n.at <= clock}}
    /\ UNCHANGED <<clock, redisVars, todo, cmds, edits, unset, history, hurt>>

-----------------------------------------------------------------------------
(* The process and the clock                                               *)

Crash ==
  /\ loop # "down"
  /\ Mishap
  /\ loop' = "down" /\ todo' = {} /\ unseen' = {} /\ cmds' = <<>>
  /\ UNCHANGED <<clock, redisVars, wake, edits, unset, history, hurt>>

\* Mutant of Restart: the loop sleeps before its first pass.
RestartAsleep ==
  /\ loop = "down"
  /\ loop' = "sleep"
  /\ UNCHANGED <<clock, redisVars, wake, unseen, todo, cmds, edits, mishaps, unset, history, hurt>>

\* start_scheduler runs before the server accepts messages, so the first pass
\* reads its due members before any tool runs
Restart ==
  /\ loop = "down"
  /\ loop' = "boot"
  /\ UNCHANGED <<clock, redisVars, wake, unseen, todo, cmds, edits, mishaps, unset, history, hurt>>

\* the clock waits for synchronous code and for a timer that has run out; from
\* MaxTrigger on, it goes on only while the loop sleeps (a bound of the model)
ClockTicks ==
  /\ clock < Horizon
  /\ cmds = <<>>
  /\ (loop \in {"exec", "down"} /\ clock < MaxTrigger) \/ (loop = "sleep" /\ clock < wake)
  /\ clock' = clock + 1
  /\ UNCHANGED <<redisVars, loopVars, cmds, edits, mishaps, unset, history, hurt>>

Tools == SetReminder \/ CancelReminder \/ UpdateReminder
Loop == ReadDue \/ ReadDueFails \/ Fire \/ Execute \/ Executed \/ Sleep
Issue == Command \/ CommandFails \/ Confirm
RemindersNext == Tools \/ Loop \/ Issue \/ Crash \/ Restart \/ ClockTicks

RemindersSpec == RemindersInit /\ [][RemindersNext]_reminderVars

\* The event loop runs whatever is ready, an execution ends (its agent calls
\* have a timeout), a dead process is started again, and time passes.
RemindersFairness == WF_reminderVars(Loop \/ Issue) /\ WF_reminderVars(Restart) /\ WF_reminderVars(ClockTicks)
FairReminders == RemindersSpec /\ RemindersFairness

-----------------------------------------------------------------------------
(* Properties                                                              *)

\* A confirmed reminder that is still owed is in its owner's sorted set and
\* its owner is in the index the loop goes by, so the loop can find it: at
\* every command of the loop, across crashes, and while other reminders of the
\* same user come and go ("recurring chain" scheduler.py:543-544).  Only a
\* failed Redis command about it, or a failed count of its user, may break it.
ChainKept ==
  \A r \in promised : r \in hurt \/ (Of(r) # {} /\ Owner[r] \in index)

\* One occurrence is executed at most once, whatever crashes and however many
\* passes see it, unless its reminder was edited while a pass held the old member
\* (scheduler.py:534 holds the snapshot across the executions), or a command about
\* it failed: a read too, when a death has left two members that it would find.
AtMostOnce ==
  \A o \in reran : o[1] \in raced \/ o[1] \in hurt

\* A reminder whose cancellation was confirmed (reminder_ops.py:512) has no
\* member left, unless it was cancelled while a pass held it in its snapshot,
\* which still fires it and puts its next occurrence back, or a command about it
\* failed; so did the read that would have found the two members left by a death,
\* of which the tool removes one.
CancelHolds ==
  \A r \in cancelled : r \in raced \/ r \in hurt \/ Of(r) = {}

\* What comes due while its owner is indexed is taken out of the sorted set in
\* the end: the loop wakes, gets to it and is not stuck on others.
DueIsTaken ==
  \A r \in Rem, t \in 1 .. MaxTrigger :
    (\E m \in Of(r) : m.at = t /\ t <= clock /\ Owner[r] \in index)
      ~> (r \in hurt \/ \A m \in Of(r) : m.at # t)

\* A reminder does not wake the sleeping loop, though reminder_ops.py:14-15 has
\* it sleep exactly to the trigger.  What the code does keep is that nobody waits
\* as long as the longest sleep: whatever is set, edited or put back while the
\* loop sleeps, and whatever came due while it fired others, it wakes less than
\* half an hour after a trigger it sleeps through (scheduler.py:613-627).  Only
\* what was due already and could not be read when it fell asleep, for a failed
\* read or an owner missing in the index, waits longer.
LateUnderASleep ==
  loop = "sleep" /\ clock < wake =>
    \A m \in Due : Occurrence(m) \in unseen \/ wake - m.at < MaxSleep
=============================================================================
