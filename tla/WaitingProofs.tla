---------------------------- MODULE WaitingProofs ----------------------------
(***************************************************************************)
(* Proofs about what waits for its turn.                                   *)
(*                                                                         *)
(* UserLocks: one lock object serves its calls one at a time and in the    *)
(* order in which they asked for it, however many there are and whenever   *)
(* cleanup_idle takes the object out of the table.                         *)
(*                                                                         *)
(* Between a release and the step of the waiter it woke locked() is false. *)
(* cleanup_idle may then remove the object, and the next arrival gets a    *)
(* second one; but the waiters stay with the first.  Queues says that an   *)
(* object's _waiters are the calls that wait for it, in order, so that the *)
(* one it wakes has none before it, and the one that finds it free has     *)
(* none at all.                                                            *)
(*                                                                         *)
(* AutoFix: for any cooldowns and limits, an error neither cuts a repair   *)
(* off nor brings another within the cooldown. The cooldown is tested when *)
(* the task is armed and not when the repair begins, a sleep and perhaps a *)
(* question later, so the invariant has to say that the test still holds   *)
(* then (MayFix).                                                          *)
(*                                                                         *)
(* With the types of the scheduler, those of UserLocks and of AutoFix make *)
(* the types of MCWaiting, where locks, plans and repairs stand side by    *)
(* side.                                                                   *)
(***************************************************************************)
EXTENDS MCWaiting, PlanSchedulerProofs, TLAPS

\* _waiters of an object holds exactly the calls that wait for it, in order.
Queues ==
    \A o \in Objects :
        /\ \A i \in DOMAIN waiters[o] :
              pc[waiters[o][i]] = "waiting" /\ obj[waiters[o][i]] = o
        /\ \A i, j \in DOMAIN waiters[o] : i < j => waiters[o][i] < waiters[o][j]
        /\ \A c \in Calls : pc[c] = "waiting" /\ obj[c] = o =>
              \E i \in DOMAIN waiters[o] : waiters[o][i] = c

-----------------------------------------------------------------------------
(* The queues of the lock objects *)

\* A call that finds the lock taken or waited for goes to the end of its queue.
LEMMA QueueGrows ==
    ASSUME TypeOK, Queues, NEW c \in Calls, Arrive(c), Got \in Objects, Busy(Got),
           \A d \in Calls : pc[d] = "waiting" => d < c
    PROVE  Queues'
<1>1. /\ pc[c] = "new"
      /\ pc' = [pc EXCEPT ![c] = "waiting"]
      /\ obj' = [obj EXCEPT ![c] = Got]
      /\ waiters' = [waiters EXCEPT ![Got] = Append(@, c)]
    BY DEF Arrive
<1> SUFFICES ASSUME NEW o \in Objects
             PROVE  /\ \A i \in DOMAIN waiters'[o] :
                          pc'[waiters'[o][i]] = "waiting" /\ obj'[waiters'[o][i]] = o
                    /\ \A i, j \in DOMAIN waiters'[o] :
                          i < j => waiters'[o][i] < waiters'[o][j]
                    /\ \A d \in Calls : pc'[d] = "waiting" /\ obj'[d] = o =>
                          \E i \in DOMAIN waiters'[o] : waiters'[o][i] = d
    BY DEF Queues
<1> DEFINE w == waiters[o]
<1>2. /\ w \in Seq(Calls)
      /\ \A i \in DOMAIN w : w[i] \in Calls /\ pc[w[i]] = "waiting" /\ obj[w[i]] = o
      /\ \A i, j \in DOMAIN w : i < j => w[i] < w[j]
      /\ \A d \in Calls : pc[d] = "waiting" /\ obj[d] = o =>
            \E i \in DOMAIN w : w[i] = d
    BY DEF TypeOK, Queues
<1>3. \A i \in DOMAIN w : w[i] # c /\ w[i] < c
    BY <1>2, <1>1
<1>4. CASE o # Got
  <2>1. waiters'[o] = w
      BY <1>4, <1>1 DEF TypeOK
  <2>2. \A i \in DOMAIN w : pc'[w[i]] = "waiting" /\ obj'[w[i]] = o
      BY <1>2, <1>3, <1>1 DEF TypeOK
  <2>3. \A d \in Calls : pc'[d] = "waiting" /\ obj'[d] = o =>
            \E i \in DOMAIN w : w[i] = d
      BY <1>2, <1>4, <1>1 DEF TypeOK
  <2> QED BY <2>1, <2>2, <2>3, <1>2
<1>5. CASE o = Got
  <2>1. waiters'[o] = Append(w, c)
      BY <1>5, <1>1 DEF TypeOK
  <2>2. /\ DOMAIN waiters'[o] = 1..(Len(w) + 1)
        /\ DOMAIN w = 1..Len(w) /\ Len(w) \in Nat
        /\ \A i \in DOMAIN w : waiters'[o][i] = w[i]
        /\ waiters'[o][Len(w) + 1] = c
      BY <1>2, <2>1
  <2> HIDE DEF w
  <2>3. \A i \in DOMAIN waiters'[o] : i \in DOMAIN w \/ i = Len(w) + 1
      BY <2>2
  <2>4. \A i \in DOMAIN waiters'[o] :
            pc'[waiters'[o][i]] = "waiting" /\ obj'[waiters'[o][i]] = o
      BY <1>2, <1>3, <1>5, <2>2, <2>3, <1>1 DEF TypeOK
  <2>5. ASSUME NEW i \in DOMAIN waiters'[o], NEW j \in DOMAIN waiters'[o], i < j
        PROVE  waiters'[o][i] < waiters'[o][j]
    <3>1. i \in DOMAIN w
        BY <2>2, <2>5
    <3>2. CASE j \in DOMAIN w
        BY <3>1, <3>2, <2>2, <2>5, <1>2
    <3>3. CASE j = Len(w) + 1
        BY <3>1, <3>3, <2>2, <1>3
    <3> QED BY <2>3, <3>2, <3>3
  <2>6. ASSUME NEW d \in Calls, pc'[d] = "waiting", obj'[d] = o
        PROVE  \E i \in DOMAIN waiters'[o] : waiters'[o][i] = d
    <3>1. CASE d = c
      <4>1. Len(w) + 1 \in DOMAIN waiters'[o]
          BY <2>2
      <4> QED BY <3>1, <4>1, <2>2
    <3>2. CASE d # c
      <4>1. pc[d] = "waiting" /\ obj[d] = o
          BY <3>2, <2>6, <1>1 DEF TypeOK
      <4>2. PICK i \in DOMAIN w : w[i] = d
          BY <4>1, <1>2
      <4>3. i \in DOMAIN waiters'[o]
          BY <2>2
      <4> QED BY <4>2, <4>3, <2>2
    <3> QED BY <3>1, <3>2
  <2> QED BY <2>4, <2>5, <2>6
<1> QED BY <1>4, <1>5

\* One that finds it free leaves the queues as they are.
LEMMA QueueIsLeft ==
    ASSUME TypeOK, Queues, NEW c \in Calls, Arrive(c), ~Busy(Got)
    PROVE  Queues'
<1>1. /\ pc[c] = "new" /\ waiters' = waiters
      /\ \A d \in Calls : pc'[d] = IF d = c THEN "lookup" ELSE pc[d]
      /\ \A d \in Calls : d # c => obj'[d] = obj[d]
    BY DEF Arrive, TypeOK
<1>2. \A o \in Objects : \A i \in DOMAIN waiters[o] :
          waiters[o][i] \in Calls /\ waiters[o][i] # c
  <2> SUFFICES ASSUME NEW o \in Objects
               PROVE  \A i \in DOMAIN waiters[o] :
                          waiters[o][i] \in Calls /\ waiters[o][i] # c
      OBVIOUS
  <2>1. waiters[o] \in Seq(Calls)
      BY DEF TypeOK
  <2> QED BY <1>1, <2>1 DEF Queues
<1> QED BY <1>1, <1>2 DEF Queues

\* The first of a queue gets the lock and leaves the others in their order.
LEMMA HeadLeaves ==
    ASSUME TypeOK, Queues, NEW o \in Objects, Wake(o)
    PROVE  Queues'
<1> USE LockAssumption
<1> DEFINE w == waiters[o]
           c == w[1]
<1>1. w \in Seq(Calls) /\ w # <<>>
    BY DEF TypeOK, Wake
<1>2. 1 \in DOMAIN w /\ DOMAIN w = 1..Len(w) /\ Len(w) \in Nat /\ Head(w) = c
      /\ c \in Calls /\ \A d \in Calls : d \in Nat
    BY <1>1 DEF Calls
<1>3. /\ pc' = [pc EXCEPT ![c] = "lookup"]
      /\ waiters' = [waiters EXCEPT ![o] = Tail(@)]
      /\ UNCHANGED obj
    BY <1>2 DEF Wake
<1>4. /\ \A i \in DOMAIN w : w[i] \in Calls /\ pc[w[i]] = "waiting" /\ obj[w[i]] = o
      /\ \A i, j \in DOMAIN w : i < j => w[i] < w[j]
      /\ \A d \in Calls : pc[d] = "waiting" /\ obj[d] = o =>
            \E i \in DOMAIN w : w[i] = d
    BY <1>1, <1>2 DEF Queues
<1> HIDE DEF w, c
<1>5. /\ pc[c] = "waiting" /\ obj[c] = o
      /\ \A d \in Calls : pc'[d] = IF d = c THEN "lookup" ELSE pc[d]
    BY <1>2, <1>3, <1>4 DEF c, TypeOK
<1> SUFFICES ASSUME NEW p \in Objects
             PROVE  /\ \A i \in DOMAIN waiters'[p] :
                          pc'[waiters'[p][i]] = "waiting" /\ obj'[waiters'[p][i]] = p
                    /\ \A i, j \in DOMAIN waiters'[p] :
                          i < j => waiters'[p][i] < waiters'[p][j]
                    /\ \A d \in Calls : pc'[d] = "waiting" /\ obj'[d] = p =>
                          \E i \in DOMAIN waiters'[p] : waiters'[p][i] = d
    BY DEF Queues
<1>6. CASE p # o
  <2>1. waiters'[p] = waiters[p]
      BY <1>6, <1>3 DEF TypeOK
  <2>2. waiters[p] \in Seq(Calls)
      BY DEF TypeOK
  <2>3. \A i \in DOMAIN waiters[p] :
            waiters[p][i] \in Calls /\ waiters[p][i] # c
      BY <2>2, <1>6, <1>5 DEF Queues
  <2> QED BY <2>1, <2>3, <1>3, <1>5 DEF Queues
<1>7. CASE p = o
  <2>1. waiters'[p] = Tail(w)
      BY <1>7, <1>3 DEF TypeOK, w
  <2>2. /\ DOMAIN waiters'[p] = 1..(Len(w) - 1)
        /\ \A i \in 1..(Len(w) - 1) : waiters'[p][i] = w[i + 1]
      BY <2>1, <1>1, <1>2
  <2>3. \A i \in 1..(Len(w) - 1) : i + 1 \in DOMAIN w /\ w[i + 1] # c
    <3> SUFFICES ASSUME NEW i \in 1..(Len(w) - 1)
                 PROVE  i + 1 \in DOMAIN w /\ w[i + 1] # c
        OBVIOUS
    <3>1. i + 1 \in DOMAIN w /\ 1 < i + 1
        BY <1>2
    <3>2. c < w[i + 1]
        BY <1>2, <1>4, <3>1 DEF c
    <3>3. w[i + 1] \in Nat
        BY <1>4, <1>2, <3>1
    <3> QED BY <3>1, <3>2, <3>3, <1>2
  <2>4. \A i \in DOMAIN waiters'[p] :
            pc'[waiters'[p][i]] = "waiting" /\ obj'[waiters'[p][i]] = p
      BY <1>7, <2>2, <2>3, <1>3, <1>4, <1>5
  <2>5. ASSUME NEW i \in DOMAIN waiters'[p], NEW j \in DOMAIN waiters'[p], i < j
        PROVE  waiters'[p][i] < waiters'[p][j]
    <3>1. i \in 1..(Len(w) - 1) /\ j \in 1..(Len(w) - 1)
        BY <2>2
    <3>2. i + 1 < j + 1 /\ i + 1 \in DOMAIN w /\ j + 1 \in DOMAIN w
        BY <2>3, <2>5, <3>1
    <3>3. w[i + 1] < w[j + 1]
        BY <3>2, <1>4
    <3> QED BY <2>2, <3>1, <3>3
  <2>6. ASSUME NEW d \in Calls, pc'[d] = "waiting", obj'[d] = p
        PROVE  \E i \in DOMAIN waiters'[p] : waiters'[p][i] = d
    <3>1. d # c /\ pc[d] = "waiting" /\ obj[d] = o
        BY <1>7, <2>6, <1>3, <1>5
    <3>2. PICK j \in DOMAIN w : w[j] = d
        BY <3>1, <1>4
    <3>3. j - 1 \in 1..(Len(w) - 1) /\ (j - 1) + 1 = j
        BY <3>1, <3>2, <1>2 DEF c
    <3> QED BY <3>2, <3>3, <2>2
  <2> QED BY <2>4, <2>5, <2>6
<1> QED BY <1>6, <1>7

\* Who goes on inside the lock, or gives it up, leaves the queues as they are.
LEMMA QueueIsKept ==
    ASSUME TypeOK, Queues, NEW c \in Calls, CallStep(c)
    PROVE  Queues'
<1>1. PICK q \in Inside \cup {"done"} : pc' = [pc EXCEPT ![c] = q]
    BY DEF CallStep, Activate, LookupFail, EndSession, Release, Inside
<1>2. pc[c] \in Inside /\ UNCHANGED <<obj, waiters>>
    BY DEF CallStep, Activate, LookupFail, EndSession, Release, Inside
<1>3. \A d \in Calls : pc'[d] = "waiting" <=> pc[d] = "waiting"
    BY <1>1, <1>2 DEF Inside, TypeOK
<1>4. \A o \in Objects : \A i \in DOMAIN waiters[o] : waiters[o][i] \in Calls
  <2> SUFFICES ASSUME NEW o \in Objects PROVE waiters[o] \in Seq(Calls)
      OBVIOUS
  <2> QED BY DEF TypeOK
<1> QED BY <1>2, <1>3, <1>4 DEF Queues

-----------------------------------------------------------------------------
(* Types *)


\* Calls arrive in turn and each brings one lock object at most, so there are as
\* many as may be needed.
Typed ==
    /\ TypeOK /\ lock <= created
    /\ \A c \in Calls : pc[c] = "new" => created < c

LEMMA TypedStart == Init => Typed
<1> SUFFICES ASSUME Init PROVE Typed
    OBVIOUS
<1>1. lock <= created /\ \A c \in Calls : created < c
    BY DEF Init, NoLock, Calls
<1>2. waiters \in [Objects -> Seq(Calls)]
    BY DEF Init
<1>3. /\ pc \in [Calls -> {"new", "waiting", "done"} \cup Inside]
      /\ obj \in [Calls -> Objects \cup {NoLock}]
      /\ since \in [Calls -> 0..MaxTime]
    BY LockAssumption DEF Init
<1>4. /\ now \in 0..MaxTime /\ lastUsed \in 0..MaxTime /\ created \in 0..NCalls
      /\ lock \in Objects \cup {NoLock}
    BY LockAssumption DEF Init
<1>5. active \in BOOLEAN
    BY DEF Init
<1> QED BY <1>1, <1>2, <1>3, <1>4, <1>5 DEF Typed, TypeOK

LEMMA TypedArrive ==
    ASSUME Typed, NEW c \in Calls, Arrive(c)
    PROVE  Typed'
<1> USE LockAssumption
<1>1. /\ created < c /\ created \in 0..NCalls /\ lock \in Objects \cup {NoLock} /\ lock <= created
      /\ pc \in [Calls -> {"new", "waiting", "done"} \cup Inside] /\ pc[c] = "new"
      /\ c \in Nat /\ c <= NCalls /\ \A d \in Calls : d < c => pc[d] # "new"
    BY DEF Typed, TypeOK, Arrive, Calls
<1>2. Got \in Objects /\ Got \in {lock, created + 1}
    BY <1>1 DEF Got, Objects, NoLock
<1>3. created' \in 0..NCalls /\ created' <= c /\ lock' = Got /\ Got <= created'
    BY <1>1, <1>2 DEF Arrive, Objects
<1>4. pc' \in [Calls -> {"new", "waiting", "done"} \cup Inside]
      /\ pc'[c] # "new" /\ \A d \in Calls : d # c => pc'[d] = pc[d]
    BY <1>1 DEF Arrive, Inside
<1>5. TypeOK'
  <2>1. now' \in 0..MaxTime /\ lastUsed' \in 0..MaxTime /\ active' \in BOOLEAN
      BY DEF Typed, TypeOK, Arrive, Stamp
  <2>2. obj' \in [Calls -> Objects \cup {NoLock}] /\ since' \in [Calls -> 0..MaxTime]
      BY <1>2 DEF Typed, TypeOK, Arrive
  <2>3. waiters' \in [Objects -> Seq(Calls)]
    <3>1. Append(waiters[Got], c) \in Seq(Calls)
        BY <1>2 DEF Typed, TypeOK
    <3> QED BY <1>2, <3>1 DEF Typed, TypeOK, Arrive
  <2> QED BY <1>2, <1>3, <1>4, <2>1, <2>2, <2>3 DEF TypeOK
<1>6. ASSUME NEW d \in Calls, pc'[d] = "new" PROVE created' < d
  <2>1. pc[d] = "new" /\ d # c
      BY <1>4, <1>6
  <2>2. ~(d < c) /\ d \in Nat
      BY <1>1, <2>1 DEF Calls
  <2> QED BY <1>1, <1>3, <2>1, <2>2
<1> QED BY <1>3, <1>5, <1>6 DEF Typed

LEMMA TypedStep == Typed /\ [Next]_lockVars => Typed'
<1> SUFFICES ASSUME Typed, [Next]_lockVars PROVE Typed'
    OBVIOUS
<1>1. ASSUME NEW c \in Calls, Arrive(c) PROVE Typed'
    BY <1>1, TypedArrive
<1>2. ASSUME NEW c \in Calls, CallStep(c) PROVE Typed'
    BY <1>2 DEF CallStep, Activate, LookupFail, EndSession, Release, Typed, TypeOK, Inside
<1>3. ASSUME NEW o \in Objects, Wake(o) PROVE Typed'
  <2>1. waiters[o] \in Seq(Calls) /\ waiters[o] # <<>>
      BY <1>3 DEF Wake, Typed, TypeOK
  <2>2. Head(waiters[o]) \in Calls /\ Tail(waiters[o]) \in Seq(Calls)
      BY <2>1
  <2>3. /\ pc' = [pc EXCEPT ![Head(waiters[o])] = "lookup"]
        /\ since' = [since EXCEPT ![Head(waiters[o])] = now]
        /\ waiters' = [waiters EXCEPT ![o] = Tail(@)]
        /\ UNCHANGED <<now, lock, lastUsed, created, active, obj>>
      BY <1>3 DEF Wake
  <2> QED BY <2>2, <2>3 DEF Typed, TypeOK, Inside
<1>4. CASE OthersCleanup
    BY <1>4, LockAssumption DEF OthersCleanup, Typed, TypeOK, NoLock
<1>5. CASE Tick
    BY <1>5, LockAssumption DEF Tick, Typed, TypeOK
<1>6. CASE UNCHANGED lockVars
    BY <1>6 DEF lockVars, Typed, TypeOK
<1> QED BY <1>1, <1>2, <1>3, <1>4, <1>5, <1>6 DEF Next

\* Every reachable state of the lock table is type correct, however many calls
\* there are (base.py, _locks, _last_used and _active).
THEOREM LocksTyped == Spec => []TypeOK
<1>1. Typed => TypeOK
    BY DEF Typed
<1> QED BY <1>1, TypedStart, TypedStep, PTL DEF Spec

-----------------------------------------------------------------------------
(* One lock object *)

\* The calls have arrived in the order of their numbers, and who has arrived
\* has an object.
ArrivedInTurn ==
    /\ \A c \in Calls : pc[c] = "new" <=> obj[c] = NoLock
    /\ \A c, d \in Calls : c < d /\ pc[c] = "new" => pc[d] = "new"

EachLock == Typed /\ ArrivedInTurn /\ Queues /\ ServedInTurn

LEMMA EachLockStart == Init => EachLock
<1> SUFFICES ASSUME Init PROVE EachLock
    OBVIOUS
<1>1. Queues
    BY DEF Init, Queues
<1>2. ArrivedInTurn /\ ServedInTurn
    BY DEF Init, ArrivedInTurn, ServedInTurn, Inside
<1> QED BY <1>1, <1>2, TypedStart DEF EachLock

\* Who arrives is the last of the calls that have an object, so whoever is
\* past the same one came before and is done when the lock is free.
LEMMA EachLockArrive ==
    ASSUME EachLock, NEW c \in Calls, Arrive(c)
    PROVE  EachLock'
<1> USE LockAssumption
<1>1. /\ Typed /\ TypeOK /\ Queues /\ ServedInTurn
      /\ \A d \in Calls : pc[d] = "new" <=> obj[d] = NoLock
      /\ \A d \in Calls : d \in Nat
    BY DEF EachLock, Typed, ArrivedInTurn, Calls
<1>2. Typed' /\ Got \in Objects /\ Got # NoLock
  <2>1. Typed' /\ lock' = Got /\ Got # NoLock
    <3>1. Typed' /\ lock' = Got
        BY <1>1, TypedArrive DEF Arrive
    <3>2. created \in 0..NCalls /\ created + 1 # 0
        BY <1>1 DEF TypeOK
    <3>3. Got = created + 1 \/ (Got = lock /\ lock # NoLock)
        BY DEF Got
    <3> QED BY <3>1, <3>2, <3>3 DEF NoLock
  <2> QED BY <2>1 DEF Typed, TypeOK
<1>3. /\ pc[c] = "new" /\ obj' = [obj EXCEPT ![c] = Got]
      /\ \A d \in Calls : d < c => pc[d] # "new"
      /\ pc' = [pc EXCEPT ![c] = IF Busy(Got) THEN "waiting" ELSE "lookup"]
    BY DEF Arrive
<1>4. /\ \A d \in Calls : pc'[d] = IF d = c THEN IF Busy(Got) THEN "waiting" ELSE "lookup"
                                   ELSE pc[d]
      /\ \A d \in Calls : obj'[d] = IF d = c THEN Got ELSE obj[d]
    BY <1>1, <1>3 DEF TypeOK
<1>5. \A d \in Calls : c < d => pc[d] = "new"
    BY <1>3 DEF EachLock, ArrivedInTurn
<1>6. \A d \in Calls : pc[d] # "new" => d < c
    BY <1>1, <1>3, <1>5
<1>7. ArrivedInTurn'
  <2>1. \A d \in Calls : pc'[d] = "new" <=> obj'[d] = NoLock
      BY <1>1, <1>2, <1>4
  <2>2. ASSUME NEW a \in Calls, NEW b \in Calls, a < b, pc'[a] = "new" PROVE pc'[b] = "new"
    <3>1. a # c /\ pc[a] = "new"
        BY <1>4, <2>2
    <3>2. c < a
        BY <1>1, <1>3, <3>1
    <3>3. b # c /\ c < b
        BY <1>1, <2>2, <3>2
    <3> QED BY <1>4, <1>5, <3>3
  <2> QED BY <2>1, <2>2 DEF ArrivedInTurn
<1>8. Queues'
    BY <1>1, <1>2, <1>6, QueueGrows, QueueIsLeft
<1>9. ServedInTurn'
  <2> SUFFICES ASSUME NEW a \in Calls, NEW b \in Calls, a < b, obj'[a] = obj'[b],
                      pc'[b] \in Inside \cup {"done"}
               PROVE  pc'[a] = "done"
      BY DEF ServedInTurn
  <2>1. CASE b = c
    <3>1. ~Busy(Got) /\ a # c /\ obj[a] = Got
        BY <1>1, <1>4, <2>1 DEF Inside
    <3>2. pc[a] \notin Inside
        BY <3>1 DEF Busy, Locked
    <3>3. pc[a] # "waiting"
      <4>1. waiters[Got] = <<>>
          BY <3>1 DEF Busy
      <4> QED BY <1>1, <1>2, <3>1, <4>1 DEF Queues
    <3>4. pc[a] # "new"
        BY <1>3, <2>1
    <3> QED BY <1>1, <1>4, <3>1, <3>2, <3>3, <3>4 DEF TypeOK
  <2>2. CASE b # c
    <3>1. pc[b] \in Inside \cup {"done"}
        BY <1>4, <2>2
    <3>2. a # c
        BY <1>5, <3>1 DEF Inside
    <3> QED BY <1>1, <1>4, <2>2, <3>1, <3>2 DEF ServedInTurn
  <2> QED BY <2>1, <2>2
<1> QED BY <1>2, <1>7, <1>8, <1>9 DEF EachLock

\* The woken waiter is the first of its object's queue: who came before it for
\* the same object has arrived, does not wait and is not inside.
LEMMA EachLockWake ==
    ASSUME EachLock, NEW o \in Objects, Wake(o)
    PROVE  EachLock'
<1> USE LockAssumption
<1> DEFINE w == waiters[o]
           c == w[1]
<1>1. Typed /\ TypeOK /\ Queues /\ ServedInTurn /\ ArrivedInTurn
    BY DEF EachLock, Typed
<1>2. w \in Seq(Calls) /\ w # <<>> /\ ~Locked(o)
    BY <1>1 DEF TypeOK, Wake
<1>3. 1 \in DOMAIN w /\ DOMAIN w = 1..Len(w) /\ Len(w) \in Nat /\ Head(w) = c /\ c \in Calls
    BY <1>2
<1>4. pc' = [pc EXCEPT ![c] = "lookup"] /\ UNCHANGED obj
    BY <1>3 DEF Wake
<1>5. /\ \A i \in DOMAIN w : w[i] \in Calls /\ pc[w[i]] = "waiting" /\ obj[w[i]] = o
      /\ \A i, j \in DOMAIN w : i < j => w[i] < w[j]
      /\ \A d \in Calls : pc[d] = "waiting" /\ obj[d] = o =>
            \E i \in DOMAIN w : w[i] = d
    BY <1>1, <1>2, <1>3 DEF Queues
<1> HIDE DEF w, c
<1>6. /\ pc[c] = "waiting" /\ obj[c] = o
      /\ \A d \in Calls : d \in Nat /\ pc'[d] = IF d = c THEN "lookup" ELSE pc[d]
    BY <1>1, <1>3, <1>4, <1>5 DEF c, TypeOK, Calls
<1>7. Typed' /\ Queues'
    BY <1>1, TypedStep, HeadLeaves DEF Next
<1>8. ArrivedInTurn'
    BY <1>1, <1>4, <1>6 DEF ArrivedInTurn
<1>9. ServedInTurn'
  <2> SUFFICES ASSUME NEW a \in Calls, NEW b \in Calls, a < b, obj[a] = obj[b],
                      pc'[b] \in Inside \cup {"done"}
               PROVE  pc'[a] = "done"
      BY <1>4 DEF ServedInTurn
  <2>1. CASE b = c
    <3>1. obj[a] = o /\ a # c
        BY <1>6, <2>1
    <3>2. pc[a] \notin Inside
        BY <1>2, <3>1 DEF Locked
    <3>3. ASSUME pc[a] = "waiting" PROVE FALSE
      <4>1. PICK i \in DOMAIN w : w[i] = a
          BY <1>5, <3>1, <3>3
      <4>2. 1 < i
          BY <1>3, <3>1, <4>1 DEF c
      <4>3. c < a
          BY <1>3, <1>5, <4>1, <4>2 DEF c
      <4> QED BY <1>6, <2>1, <4>3
    <3>4. pc[a] # "new"
        BY <1>1, <1>6, <2>1 DEF ArrivedInTurn
    <3>5. pc[a] = "done"
        BY <1>1, <3>2, <3>3, <3>4 DEF TypeOK
    <3> QED BY <1>6, <3>1, <3>5
  <2>2. CASE b # c
    <3>1. pc[a] = "done"
        BY <1>1, <1>6, <2>2 DEF ServedInTurn
    <3> QED BY <1>6, <3>1
  <2> QED BY <2>1, <2>2
<1> QED BY <1>7, <1>8, <1>9 DEF EachLock

LEMMA EachLockStep == EachLock /\ [Next]_lockVars => EachLock'
<1> SUFFICES ASSUME EachLock, [Next]_lockVars PROVE EachLock'
    OBVIOUS
<1>1. Typed' /\ Typed /\ TypeOK /\ Queues
    BY TypedStep DEF EachLock, Typed
<1>2. ASSUME NEW c \in Calls, Arrive(c) PROVE EachLock'
    BY <1>2, EachLockArrive
<1>3. ASSUME NEW c \in Calls, CallStep(c) PROVE EachLock'
  <2>1. PICK q \in Inside \cup {"done"} : pc' = [pc EXCEPT ![c] = q]
      BY <1>3 DEF CallStep, Activate, LookupFail, EndSession, Release, Inside
  <2>2. pc[c] \in Inside /\ UNCHANGED obj
      BY <1>3 DEF CallStep, Activate, LookupFail, EndSession, Release, Inside
  <2>3. \A d \in Calls : pc'[d] = IF d = c THEN q ELSE pc[d]
      BY <1>1, <2>1 DEF TypeOK
  <2>4. Queues'
      BY <1>1, <1>3, QueueIsKept
  <2>5. ArrivedInTurn'
      BY <2>2, <2>3 DEF EachLock, ArrivedInTurn, Inside
  <2>6. ServedInTurn'
    <3> SUFFICES ASSUME NEW a \in Calls, NEW b \in Calls, a < b, obj[a] = obj[b],
                        pc'[b] \in Inside \cup {"done"}
                 PROVE  pc'[a] = "done"
        BY <2>2 DEF ServedInTurn
    <3>1. pc[b] \in Inside \cup {"done"}
        BY <2>2, <2>3
    <3>2. pc[a] = "done"
        BY <3>1 DEF EachLock, ServedInTurn
    <3> QED BY <2>2, <2>3, <3>2 DEF Inside
  <2> QED BY <1>1, <2>4, <2>5, <2>6 DEF EachLock
<1>4. ASSUME NEW o \in Objects, Wake(o) PROVE EachLock'
    BY <1>4, EachLockWake
<1>5. CASE OthersCleanup
    BY <1>1, <1>5 DEF OthersCleanup, EachLock, ArrivedInTurn, Queues, ServedInTurn
<1>6. CASE Tick
    BY <1>1, <1>6 DEF Tick, EachLock, ArrivedInTurn, Queues, ServedInTurn
<1>7. CASE UNCHANGED lockVars
    BY <1>1, <1>7 DEF lockVars, EachLock, ArrivedInTurn, Queues, ServedInTurn
<1> QED BY <1>2, <1>3, <1>4, <1>5, <1>6, <1>7 DEF Next

\* However many calls queue up, and whenever cleanup_idle takes their lock from
\* the table, one lock object serves them one at a time and in turn (base.py,
\* get_lock: asyncio.Lock).
THEOREM LocksServeInTurn == Spec => []ServedInTurn
<1>1. EachLock => ServedInTurn
    BY DEF EachLock
<1> QED BY <1>1, EachLockStart, EachLockStep, PTL DEF Spec

-----------------------------------------------------------------------------
(* AutoFix                                                                 *)

\* A task that has not got to the repair yet may still begin one: the cooldown
\* was over when it was armed, and only a repair could start it again.
Pending == fixer.at \in {"asleep", "asking"}
MayFix == Pending => fixes < MaxFixes /\ fixClock - lastFix >= Cooldown

FixInv == FixTypeOK /\ FixesApart /\ lastFix = lastStart /\ MayFix

LEMMA FixTimes ==
  ASSUME FixTypeOK
  PROVE  /\ fixClock \in Nat /\ lastFix \in Nat /\ lastAsk \in Nat /\ lastStart \in Nat
         /\ Cooldown \in Nat /\ Debounce \in Nat /\ Window \in Nat /\ MaxFixes \in Nat
         /\ MaxFixRounds \in Nat \ {0} /\ Horizon \in Nat /\ Epoch \in Nat
         /\ fixes \in Nat /\ fixClock >= Cooldown
BY FixConstants DEF FixTypeOK, Clock, Epoch

\* The places of the task and what it carries there.
LEMMA FixerKinds ==
  /\ NoFixer \in Fixers /\ NoFixer.at = "none"
  /\ \A w \in Nat : [at |-> "asleep", wake |-> w] \in Fixers
  /\ \A to \in {"asking", "last", "telling"} : [at |-> to] \in Fixers
  /\ \A r \in 0 .. MaxFixRounds - 1 : [at |-> "fixing", round |-> r] \in Fixers
BY DEF Fixers, NoFixer

\* An error arms the task only while it has not the lock (auto_fix.py:1058-1107).
LEMMA ArmKeeps ==
  ASSUME FixInv, Arm
  PROVE  /\ fixer' \in Fixers /\ fixes' \in 0 .. MaxFixes /\ resetAt' \in Nat
         /\ cutOff' = FALSE
         /\ fixer'.at \in {"asleep", "asking"} => fixes' < MaxFixes /\ fixClock - lastFix >= Cooldown
<1>1. FixTypeOK /\ cutOff = FALSE
  BY DEF FixInv, FixesApart, FixTypeOK
<1>2. CASE Repairing
  BY <1>1, <1>2 DEF Arm, FixInv, MayFix, Pending, FixTypeOK
<1>3. CASE ~Repairing
  <2> DEFINE anew == fixClock > resetAt
             count == IF anew THEN 0 ELSE fixes
             goes == count < MaxFixes /\ fixClock - lastFix >= Cooldown
  <2>1. /\ fixes' = count /\ resetAt' = (IF anew THEN fixClock + Window ELSE resetAt)
        /\ fixer' = (IF goes THEN [at |-> "asleep", wake |-> fixClock + Debounce] ELSE fixer)
        /\ cutOff' = (cutOff \/ (goes /\ fixer.at \in {"asking", "fixing", "last", "telling"}))
    BY <1>3 DEF Arm
  <2>2. resetAt' \in Nat /\ fixes' \in 0 .. MaxFixes /\ fixes' <= fixes
    BY <1>1, <2>1, FixTimes DEF FixTypeOK
  <2>3. cutOff' = FALSE
    BY <1>1, <1>3, <2>1 DEF Repairing
  <2>4. CASE goes
    BY <1>1, <2>1, <2>2, <2>3, <2>4, FixTimes, FixerKinds
  <2>5. CASE ~goes
    BY <1>1, <2>1, <2>2, <2>3, <2>5, FixTimes DEF FixInv, MayFix, Pending, FixTypeOK
  <2> QED BY <2>4, <2>5
<1> QED BY <1>2, <1>3

LEMMA NotedKeeps ==
  ASSUME FixInv, NEW kind \in {"code", "triage", "other"}, NEW allowed \in BOOLEAN, Noted(kind, allowed),
         boot' \in {"check", "trigger", "over"}
  PROVE  FixInv'
<1>1. /\ fixer' \in Fixers /\ fixes' \in 0 .. MaxFixes /\ resetAt' \in Nat
      /\ cutOff' = FALSE
      /\ fixer'.at \in {"asleep", "asking"} => fixes' < MaxFixes /\ fixClock - lastFix >= Cooldown
  <2>1. CASE Arm
    BY <2>1, ArmKeeps
  <2>2. CASE UNCHANGED <<fixer, fixes, resetAt, cutOff>>
    BY <2>2 DEF FixInv, FixTypeOK, FixesApart, MayFix, Pending
  <2> QED BY <2>1, <2>2 DEF Noted
<1>2. recent' \subseteq {"code", "triage"}
  <2>1. PICK kept \in SUBSET recent : recent' = kept \cup ({kind} \ {"other"})
    BY DEF Noted
  <2> QED BY <2>1 DEF FixInv, FixTypeOK
<1>3. errors' \in 0 .. MaxErrors
  <2>1. errors \in 0 .. MaxErrors /\ errors < MaxErrors /\ errors' = errors + 1 /\ MaxErrors \in Nat
    BY FixConstants DEF Noted, FixInv, FixTypeOK
  <2> QED BY <2>1
<1> QED BY <1>1, <1>2, <1>3 DEF Noted, FixInv, FixTypeOK, FixesApart, MayFix, Pending

\* A repair begins at the end of a cooldown, at the latest of its question.
LEMMA StartKeeps ==
  ASSUME FixInv, Pending, StartFix
  PROVE  /\ lastFix' \in Clock /\ lastStart' = lastFix' /\ fixes' \in 0 .. MaxFixes
         /\ fixer' \in Fixers /\ fixer'.at = "fixing" /\ hasty' = FALSE
<1>1. fixes < MaxFixes /\ fixClock - lastFix >= Cooldown /\ lastStart = lastFix /\ FixTypeOK
  BY DEF FixInv, MayFix
<1>2. hasty' = FALSE
  <2>1. hasty = FALSE
    BY <1>1 DEF FixInv, FixesApart, FixTypeOK
  <2>2. ~(fixClock - lastStart < Cooldown)
    BY <1>1, FixTimes
  <2>3. hasty' = (hasty \/ (lastStart # 0 /\ fixClock - lastStart < Cooldown))
    BY DEF StartFix
  <2> QED BY <2>1, <2>2, <2>3
<1>3. fixes' \in 0 .. MaxFixes /\ fixer' \in Fixers
  BY <1>1, FixTimes, FixerKinds DEF StartFix
<1> QED BY <1>1, <1>2, <1>3 DEF StartFix, FixTypeOK

LEMMA FixStep == ASSUME FixInv, [FixNext]_fixVars PROVE FixInv'
<1> USE DEF fixHistory
<1>0. FixTypeOK
  BY DEF FixInv
<1>1. CASE FixTick
  <2>1. fixClock' \in Clock /\ fixClock' > fixClock
    BY <1>0, <1>1, FixTimes DEF FixTick, FixTypeOK, Clock
  <2> QED BY <1>0, <1>1, <2>1, FixTimes DEF FixTick, FixInv, FixTypeOK, FixesApart, MayFix, Pending
<1>2. CASE \E kind \in {"code", "triage", "other"}, allowed \in BOOLEAN : RecordError(kind, allowed)
  BY <1>0, <1>2, NotedKeeps DEF RecordError, FixTypeOK
<1>3. CASE Awaken
  <2>1. CASE StartFix
    BY <1>0, <1>3, <2>1, StartKeeps DEF Awaken, FixInv, FixTypeOK, FixesApart, MayFix, Pending
  <2>2. CASE FixGoes("asking") /\ lastAsk' = fixClock /\ UNCHANGED <<lastFix, fixes, lastStart, hasty>>
    BY <1>0, <1>3, <2>2, FixerKinds DEF Awaken, FixGoes, FixInv, FixTypeOK, FixesApart, MayFix, Pending
  <2>3. CASE fixer' = NoFixer /\ UNCHANGED <<lastFix, fixes, lastAsk, lastStart, hasty>>
    BY <1>0, <1>3, <2>3, FixerKinds DEF Awaken, FixInv, FixTypeOK, FixesApart, MayFix, Pending
  <2> QED BY <1>3, <2>1, <2>2, <2>3 DEF Awaken
<1>4. CASE Classified
  <2>1. CASE StartFix
    BY <1>0, <1>4, <2>1, StartKeeps DEF Classified, FixInv, FixTypeOK, FixesApart, MayFix, Pending
  <2>2. CASE fixer' = NoFixer /\ UNCHANGED <<lastFix, fixes, lastStart, hasty>>
    BY <1>0, <1>4, <2>2, FixerKinds DEF Classified, FixInv, FixTypeOK, FixesApart, MayFix, Pending
  <2> QED BY <1>4, <2>1, <2>2 DEF Classified
<1>5. CASE FixRound
  <2>1. fixer' \in Fixers /\ fixer'.at \in {"telling", "last", "fixing"}
    <3>1. CASE FixGoes("telling") \/ FixGoes("last")
      BY <3>1, FixerKinds DEF FixGoes
    <3>2. CASE fixer' = [fixer EXCEPT !.round = @ + 1] /\ fixer.round + 1 # MaxFixRounds
      <4>1. PICK r \in 0 .. MaxFixRounds - 1 : fixer = [at |-> "fixing", round |-> r]
        BY <1>0, <1>5 DEF FixTypeOK, Fixers, FixRound, NoFixer
      <4>2. fixer' = [at |-> "fixing", round |-> r + 1] /\ r + 1 # MaxFixRounds
        BY <3>2, <4>1
      <4> QED BY <4>1, <4>2, FixConstants, FixerKinds
    <3>3. \/ FixGoes("telling") \/ FixGoes("last")
          \/ fixer' = [fixer EXCEPT !.round = @ + 1] /\ fixer.round + 1 # MaxFixRounds
      BY <1>5 DEF FixRound
    <3> QED BY <3>1, <3>2, <3>3
  <2> QED BY <1>0, <1>5, <2>1 DEF FixRound, FixInv, FixTypeOK, FixesApart, MayFix, Pending
<1>6. CASE LastAnswer
  <2>1. fixer' \in Fixers /\ fixer'.at = "telling"
    BY <1>6, FixerKinds DEF LastAnswer, FixGoes
  <2> QED BY <1>0, <1>6, <2>1 DEF LastAnswer, FixInv, FixTypeOK, FixesApart, MayFix, Pending
<1>11. CASE FixTold
  <2>1. fixer' \in Fixers /\ fixer'.at = "none"
    BY <1>11, FixerKinds DEF FixTold
  <2> QED BY <1>0, <1>11, <2>1 DEF FixTold, FixInv, FixTypeOK, FixesApart, MayFix, Pending
<1>7. CASE FixRestart
  BY <1>0, <1>7, FixerKinds, FixConstants
     DEF FixRestart, FixInv, FixTypeOK, FixesApart, MayFix, Pending
<1>8. CASE BootChecked
  <2>1. CASE \E kind \in {"code", "other"}, allowed \in BOOLEAN : boot' = "trigger" /\ Noted(kind, allowed)
    BY <2>1, NotedKeeps
  <2>2. CASE boot' = "over" /\ UNCHANGED <<fixClock, recent, fixer, lastFix, fixes, resetAt, lastAsk,
                                            errors, fixDeaths, fixHistory>>
    BY <1>0, <2>2 DEF FixInv, FixTypeOK, FixesApart, MayFix, Pending
  <2> QED BY <1>8, <2>1, <2>2 DEF BootChecked
<1>9. CASE BootTriggers
  <2>1. CASE Arm
    BY <1>0, <1>9, <2>1, ArmKeeps DEF BootTriggers, FixInv, FixTypeOK, FixesApart, MayFix, Pending
  <2>2. CASE UNCHANGED <<fixer, fixes, resetAt, cutOff>>
    BY <1>0, <1>9, <2>2 DEF BootTriggers, FixInv, FixTypeOK, FixesApart, MayFix, Pending
  <2> QED BY <1>9, <2>1, <2>2 DEF BootTriggers
<1>10. CASE UNCHANGED fixVars
  BY <1>0, <1>10 DEF fixVars, FixInv, FixTypeOK, FixesApart, MayFix, Pending
<1> QED BY <1>1, <1>2, <1>3, <1>4, <1>5, <1>6, <1>7, <1>8, <1>9, <1>10, <1>11 DEF FixNext

\* No repair is under way, and none is waiting.
LEMMA FixStart == ASSUME FixInit PROVE FixInv
<1>1. fixer \in Fixers /\ ~Pending
  BY FixerKinds DEF FixInit, Pending
<1>2. /\ fixClock \in Clock /\ lastFix = 0 /\ lastAsk = 0 /\ resetAt \in Nat
      /\ fixes \in 0 .. MaxFixes /\ errors \in 0 .. MaxErrors /\ fixDeaths \in 0 .. MaxFixDeaths
  BY FixConstants DEF FixInit, Clock, Epoch
<1> QED BY <1>1, <1>2 DEF FixInit, FixInv, FixTypeOK, FixesApart, MayFix

\* The inductive invariant of the repairs.
THEOREM FixInvariant == FixSpec => []FixInv
<1>1. FixInit => FixInv
  BY FixStart
<1>2. FixInv /\ [FixNext]_fixVars => FixInv'
  BY FixStep
<1> QED BY <1>1, <1>2, PTL DEF FixSpec

\* Whatever errors come in, and for any cooldowns and limits, no repair is cut
\* off by an error and none begins within the cooldown of another of the same
\* process (auto_fix.py:1058-1248).
THEOREM RepairsStayApart == FixSpec => []FixesApart
<1>1. FixInv => FixesApart
  BY DEF FixInv
<1> QED BY <1>1, FixInvariant, PTL

-----------------------------------------------------------------------------
(* Locks, plans and repairs *)

\* What waits keeps its type: the locks, the plans and the repairs share no state, so
\* each step is one of the locks, one of the plans or one of the repairs.
THEOREM WaitingTyped == WaitSpec => []TypesOK
<1>1. WaitInit => Typed /\ PlansInv /\ FixInv
    BY TypedStart, PlansStart, FixStart DEF WaitInit
<1>2. Typed /\ PlansInv /\ FixInv /\ [WaitNext]_waitVars => (Typed /\ PlansInv /\ FixInv)'
  <2> SUFFICES ASSUME Typed, PlansInv, FixInv, [WaitNext]_waitVars
               PROVE  Typed' /\ PlansInv' /\ FixInv'
      OBVIOUS
  <2>1. [Next]_lockVars /\ [PlansNext]_planVars /\ [FixNext]_fixVars
      BY DEF WaitNext, waitVars
  <2> QED BY <2>1, TypedStep, PlansStep, FixStep
<1>3. Typed /\ PlansInv /\ FixInv => TypesOK
    BY DEF Typed, PlansInv, FixInv, TypesOK
<1> QED BY <1>1, <1>2, <1>3, PTL DEF WaitSpec
=============================================================================
