------------------------------ MODULE UserLocks ------------------------------
(***************************************************************************)
(* The lock table of UserStateManager (app/webhook/base.py) as one user's  *)
(* calls of _process_and_reply_inner (app/webhook/handler.py) see it.      *)
(* FeishuPipeline takes the lock of a user for a FIFO queue of calls; here *)
(* the lock is an object that cleanup_idle may take out of the table and   *)
(* get_lock may create anew, and a release only wakes the next waiter.     *)
(*                                                                         *)
(* Calls are numbered in the order of their arrival.  The clock counts     *)
(* units of the longest time a call keeps the lock: _PROCESS_TIMEOUT       *)
(* (600s) and two minutes to look up the sender and to send the reply.     *)
(***************************************************************************)
EXTENDS Naturals, Sequences

CONSTANTS
    NCalls,     \* bound on the number of calls of the user
    IdleTTL,    \* lock_idle_ttl in clock units: 3600s are 5
    MaxTime     \* bound on the clock

ASSUME LockAssumption == NCalls \in Nat /\ IdleTTL \in Nat /\ MaxTime \in Nat

Calls == 1..NCalls

\* Lock objects in the order of creation; a call creates at most one.
Objects == 1..NCalls
NoLock == 0

VARIABLES
    now,
    lock,       \* _user_locks[u], NoLock when the table has none
    lastUsed,   \* _user_lock_last_used[u]
    created,    \* lock objects created so far
    active,     \* u \in _user_active
    pc,         \* where each call is
    obj,        \* the lock object the call uses
    since,      \* when its session began
    waiters     \* asyncio.Lock._waiters of each object

lockVars == <<now, lock, lastUsed, created, active, pc, obj, since, waiters>>

Inside == {"lookup", "session", "reply"}

TypeOK ==
    /\ now \in 0..MaxTime
    /\ lock \in Objects \cup {NoLock}
    /\ lastUsed \in 0..MaxTime
    /\ created \in 0..NCalls
    /\ active \in BOOLEAN
    /\ pc \in [Calls -> {"new", "waiting", "done"} \cup Inside]
    /\ obj \in [Calls -> Objects \cup {NoLock}]
    /\ since \in [Calls -> 0..MaxTime]
    /\ waiters \in [Objects -> Seq(Calls)]

Init ==
    /\ now = 0
    /\ lock = NoLock
    /\ lastUsed = 0
    /\ created = 0
    /\ active = FALSE
    /\ pc = [c \in Calls |-> "new"]
    /\ obj = [c \in Calls |-> NoLock]
    /\ since = [c \in Calls |-> 0]
    /\ waiters = [o \in Objects |-> <<>>]

-----------------------------------------------------------------------------
(* The table *)

\* asyncio.Lock.locked(): between a release and the waiter it woke, FALSE.
Locked(o) == \E c \in Calls : obj[c] = o /\ pc[c] \in Inside

\* What cleanup_idle takes for an idle lock.
Idle ==
    /\ lock # NoLock
    /\ now - lastUsed > IdleTTL
    /\ ~active
    /\ ~Locked(lock)

\* A call of another user runs cleanup_idle.
OthersCleanup ==
    /\ Idle
    /\ lock' = NoLock
    /\ UNCHANGED <<now, lastUsed, created, active, pc, obj, since, waiters>>

\* get_lock after cleanup_idle: the object in the table, or a new one.
Got == IF lock = NoLock \/ Idle THEN created + 1 ELSE lock

\* Mutant of Stamp: the time of expiry is written down.
Expiry == now + IdleTTL

\* The time of use that get_lock writes down.
Stamp == now

\* Mutant of Busy: who waits for the lock does not count.
HeldOnly(o) == Locked(o)

\* asyncio.Lock.acquire waits when the lock is held or others wait for it.
Busy(o) == Locked(o) \/ waiters[o] # <<>>

-----------------------------------------------------------------------------
(* A call *)

\* cleanup_idle, get_lock and the first step of acquire, which takes a free
\* lock nobody waits for and queues up otherwise.
Arrive(c) ==
    /\ pc[c] = "new"
    /\ \A d \in Calls : d < c => pc[d] # "new"
    /\ lock' = Got
    /\ created' = IF Got > created THEN Got ELSE created
    /\ lastUsed' = Stamp
    /\ obj' = [obj EXCEPT ![c] = Got]
    /\ IF Busy(Got)
       THEN /\ pc' = [pc EXCEPT ![c] = "waiting"]
            /\ waiters' = [waiters EXCEPT ![Got] = Append(@, c)]
            /\ UNCHANGED since
       ELSE /\ pc' = [pc EXCEPT ![c] = "lookup"]
            /\ since' = [since EXCEPT ![c] = now]
            /\ UNCHANGED waiters
    /\ UNCHANGED <<now, active>>

\* Mutant of Wake: only the lock in the table is ever handed on.
WakeInTable(o) ==
    /\ o = lock
    /\ waiters[o] # <<>>
    /\ ~Locked(o)
    /\ LET c == Head(waiters[o])
       IN /\ pc' = [pc EXCEPT ![c] = "lookup"]
          /\ since' = [since EXCEPT ![c] = now]
    /\ waiters' = [waiters EXCEPT ![o] = Tail(@)]
    /\ UNCHANGED <<now, lock, lastUsed, created, active, obj>>

\* The woken waiter goes on and has the lock.
Wake(o) ==
    /\ waiters[o] # <<>>
    /\ ~Locked(o)
    /\ LET c == Head(waiters[o])
       IN /\ pc' = [pc EXCEPT ![c] = "lookup"]
          /\ since' = [since EXCEPT ![c] = now]
    /\ waiters' = [waiters EXCEPT ![o] = Tail(@)]
    /\ UNCHANGED <<now, lock, lastUsed, created, active, obj>>

\* _do_work: the sender is known, activate.
Activate(c) ==
    /\ pc[c] = "lookup"
    /\ pc' = [pc EXCEPT ![c] = "session"]
    /\ active' = TRUE
    /\ UNCHANGED <<now, lock, lastUsed, created, obj, since, waiters>>

\* wait_for ends the lookup before there is a session.
LookupFail(c) ==
    /\ pc[c] = "lookup"
    /\ pc' = [pc EXCEPT ![c] = "reply"]
    /\ UNCHANGED <<now, lock, lastUsed, created, active, obj, since, waiters>>

\* route_message returns or is cancelled, deactivate.
EndSession(c) ==
    /\ pc[c] = "session"
    /\ pc' = [pc EXCEPT ![c] = "reply"]
    /\ active' = FALSE
    /\ UNCHANGED <<now, lock, lastUsed, created, obj, since, waiters>>

\* The reply is out, the lock is released; its first waiter is woken but has
\* not run yet.
Release(c) ==
    /\ pc[c] = "reply"
    /\ pc' = [pc EXCEPT ![c] = "done"]
    /\ UNCHANGED <<now, lock, lastUsed, created, active, obj, since, waiters>>

\* Time passes.  wait_for gives the work of a call one unit at most; by this
\* clock replies are sent, and woken waiters run, at once.
Tick ==
    /\ now < MaxTime
    /\ \A c \in Calls : pc[c] \in Inside => pc[c] # "reply" /\ now = since[c]
    /\ \A o \in Objects : waiters[o] # <<>> => Locked(o)
    /\ now' = now + 1
    /\ UNCHANGED <<lock, lastUsed, created, active, pc, obj, since, waiters>>

CallStep(c) == Activate(c) \/ LookupFail(c) \/ EndSession(c) \/ Release(c)

Next ==
    \/ \E c \in Calls : Arrive(c) \/ CallStep(c)
    \/ \E o \in Objects : Wake(o)
    \/ OthersCleanup
    \/ Tick

Spec == Init /\ [][Next]_lockVars

\* The event loop resumes woken waiters, and every session ends.
Fairness ==
    /\ \A c \in Calls : WF_lockVars(CallStep(c))
    /\ \A o \in Objects : WF_lockVars(Wake(o))

FairSpec == Spec /\ Fairness

-----------------------------------------------------------------------------
(* Properties *)

\* A lock serves its calls one at a time and in the order in which they asked
\* for it: when one is past it, all before it are done.  FeishuPipeline takes
\* that for granted in "lockq".  A lock that leaves the table while a woken waiter
\* is on its way to it keeps its calls, so those before it and those of the new
\* lock are served side by side (base.py:356-385), each in their turn.
ServedInTurn ==
    \A c, d \in Calls :
        c < d /\ obj[c] = obj[d] /\ pc[d] \in Inside \cup {"done"} => pc[c] = "done"

\* No wake-up is lost, not even when the lock leaves the table: whoever waits
\* for a lock gets it in the end (a call is done for good, and with the last
\* arrival a time comes when none waits).
WaitersAreServed ==
    (\E c \in Calls : pc[c] = "waiting") ~> (\A c \in Calls : pc[c] \in {"new", "done"})

=============================================================================
