------------------------ MODULE FeishuRecoveryProofs ------------------------
(***************************************************************************)
(* Proofs about FeishuRecovery: for any messages, users and number of      *)
(* restarts, with or without failing Redis calls, kills, heartbeats and    *)
(* deployments, the state of the process is well formed (RecTypeOK), every *)
(* in-flight record belongs to a running call (InFlightSound), recovery    *)
(* tells nobody to resend what it has recovered (TellsOnlyUnrecovered),    *)
(* and only the end of a process can lose an accepted message              *)
(* (OnlyDeathLoses).                                                       *)
(*                                                                         *)
(* The pipeline's part of the invariant comes from FeishuPipelineProofs:   *)
(* a step of the process is a step of the pipeline, a step of recovery     *)
(* only adds to the dispatch (Adds), and the end of a process leaves a     *)
(* pipeline as empty as a new one (Forget).                                *)
(***************************************************************************)
EXTENDS FeishuRecovery, FeishuPipelineProofs

-----------------------------------------------------------------------------
(* What a recovery step may change                                         *)

\* Recovery only adds to the dispatch: the rest of the pipeline but the inbox
\* stays.
Adds ==
    /\ UNCHANGED <<acked, answering, seen, userVars, inFlight, fed, closed, lost>>
    /\ disp \subseteq disp' /\ disp' \subseteq Task /\ rInbox' \subseteq Msgs

\* What it saves and has still to handle are messages, and no recovered one is
\* about to be told.
TellsRest == rec = "telling" => todo \cap recovered = {}

Saved ==
    /\ rec \in RecStages /\ todo \subseteq Msgs
    /\ rInFlight \subseteq Msgs /\ rPending \subseteq Msgs /\ rResume \subseteq Msgs
    /\ TellsRest

LEMMA AddsKeeps ==
    ASSUME TypeOK, SessionOwnsLock, Adds
    PROVE  /\ TypeOK' /\ SessionOwnsLock'
           /\ InFlightSound => InFlightSound'
<1>1. UNCHANGED <<pend, timer, inject, fetching, lockq, phase, active, sess>>
    BY DEF Adds, userVars
<1> QED BY <1>1 DEF Adds, TypeOK, SessionOwnsLock, InFlightSound

LEMMA RedispatchAdds ==
    ASSUME TypeOK, RecTypeOK, NEW m \in todo, NEW k \in {Kind[m], "text"}, Redispatch(m, k)
    PROVE  Adds /\ todo' \subseteq Msgs /\ UNCHANGED <<rec, told, savedVars>>
<1>1. m \in Msgs /\ todo' \subseteq Msgs
    BY DEF RecTypeOK, Redispatch
<1>2. [id |-> m, src |-> "rec", kind |-> k] \in Task
    BY <1>1, PipelineAssumption DEF Task, Kinds
<1> QED BY <1>1, <1>2 DEF Redispatch, Adds, TypeOK

LEMMA GotType ==
    ASSUME NEW S \in SUBSET Msgs
    PROVE  Got(S) \subseteq SUBSET S /\ Del(S) \subseteq SUBSET S
BY DEF Got, Del

LEMMA ToBatchSaves ==
    ASSUME RecTypeOK, ToBatch
    PROVE  rec' \in {"batching", "done"} /\ todo' \subseteq Msgs /\ rPending' \subseteq Msgs
<1>1. PICK got \in Got(rPending) :
         /\ todo' = got
         /\ IF got # {} THEN rec' = "batching" /\ rPending' \in Del(rPending)
                        ELSE rec' = "done" /\ UNCHANGED rPending
    BY DEF ToBatch
<1> QED BY <1>1, GotType DEF RecTypeOK

LEMMA ToTellSaves ==
    ASSUME RecTypeOK, ToTell, UNCHANGED <<recovered, rResume>>
    PROVE  Saved'
<1>1. PICK got \in Got(rInFlight) :
         /\ IF got # {} THEN rInFlight' \in Del(rInFlight) ELSE UNCHANGED rInFlight
         /\ IF got \ recovered # {}
            THEN rec' = "telling" /\ todo' = got \ recovered /\ UNCHANGED rPending
            ELSE ToBatch
    BY DEF ToTell
<1>2. rInFlight' \subseteq Msgs /\ got \subseteq Msgs
    BY <1>1, GotType DEF RecTypeOK
<1>3. CASE got \ recovered # {}
    BY <1>1, <1>2, <1>3 DEF RecTypeOK, Saved, TellsRest, RecStages
<1>4. CASE got \ recovered = {}
    BY <1>1, <1>2, <1>4, ToBatchSaves DEF RecTypeOK, Saved, TellsRest, RecStages
<1> QED BY <1>3, <1>4

LEMMA ToResumeSaves ==
    ASSUME RecTypeOK, ToResume, UNCHANGED recovered
    PROVE  Saved'
<1>1. PICK got \in Got(rResume) :
        IF got # {}
        THEN /\ rec' = "resuming" /\ todo' = got /\ rResume' \in Del(rResume)
             /\ UNCHANGED <<rInFlight, rPending>>
        ELSE UNCHANGED rResume /\ ToTell
    BY DEF ToResume
<1>2. CASE got # {}
    BY <1>1, <1>2, GotType DEF RecTypeOK, Saved, TellsRest, RecStages
<1>3. CASE got = {}
    BY <1>1, <1>3, ToTellSaves
<1> QED BY <1>2, <1>3

\* What each step of recovery does to the pipeline and to its own state.
RecoveryMoves ==
    /\ Adds /\ Saved' /\ UNCHANGED <<up, deaths>>
    /\ recovered' \subseteq Msgs /\ told' \subseteq Msgs
    /\ \A m \in told' \ told : rec = "telling" /\ m \in todo

LEMMA RecStepMoves ==
    ASSUME TypeOK, RecTypeOK, TellsRest, RecStep
    PROVE  RecoveryMoves
<1> USE DEF RecoveryMoves, RecKeep, savedVars
<1>0. /\ UNCHANGED pipeVars => Adds
      /\ rec \in RecStages /\ recovered \subseteq Msgs /\ told \subseteq Msgs
    BY DEF pipeVars, userVars, Adds, TypeOK, RecTypeOK
<1>1. CASE RecScan
    <2>1. PICK got \in Got(rInbox) :
            IF got # {} THEN rec' = "inbox" /\ todo' = got /\ UNCHANGED savedVars ELSE ToResume
        BY <1>1 DEF RecScan
    <2>2. UNCHANGED <<pipeVars, recovered, told, up, deaths>>
        BY <1>1 DEF RecScan
    <2>3. Saved'
        <3>1. CASE got # {}
            BY <2>1, <3>1, GotType DEF TypeOK, RecTypeOK, Saved, TellsRest, RecStages
        <3>2. CASE got = {}
            BY <2>1, <2>2, <3>2, ToResumeSaves
        <3> QED BY <3>1, <3>2
    <2> QED BY <1>0, <2>2, <2>3
<1>2. CASE RecInboxDel
    <2>1. Saved'
        BY <1>2, ToResumeSaves DEF RecInboxDel
    <2>2. Adds
        BY <1>2, InboxWriteType DEF RecInboxDel, Adds, TypeOK
    <2> QED BY <1>0, <1>2, <2>1, <2>2 DEF RecInboxDel
<1>3. CASE RecResumeEnd
    <2>1. Saved'
        BY <1>3, ToTellSaves DEF RecResumeEnd
    <2> QED BY <1>0, <1>3, <2>1 DEF RecResumeEnd
<1>4. CASE RecBatchEnd
    BY <1>0, <1>4 DEF RecBatchEnd, Saved, TellsRest, RecTypeOK, RecStages
<1>5. ASSUME NEW m \in Msgs, RecInbox(m) PROVE RecoveryMoves
    BY <1>0, <1>5, RedispatchAdds DEF RecInbox, Saved, TellsRest, RecTypeOK
<1>6. ASSUME NEW m \in Msgs, RecInboxOld(m) PROVE RecoveryMoves
    <2>1. Adds
        BY <1>6, InboxWriteType DEF RecInboxOld, Adds, TypeOK
    <2> QED BY <1>0, <1>6, <2>1 DEF RecInboxOld, Saved, TellsRest, RecTypeOK
<1>7. ASSUME NEW m \in Msgs, RecResume(m) PROVE RecoveryMoves
    BY <1>0, <1>7, RedispatchAdds DEF RecResume, Saved, TellsRest, RecTypeOK
<1>8. ASSUME NEW m \in Msgs, RecTell(m) PROVE RecoveryMoves
    <2>1. /\ rec = "telling" /\ m \in todo /\ told' = told \cup {m}
          /\ UNCHANGED <<pipeVars, recovered, rInFlight, rResume, up, deaths>>
        BY <1>8 DEF RecTell
    <2>2. CASE todo = {m}
        BY <1>0, <1>8, <2>1, <2>2, ToBatchSaves DEF RecTell, Saved, TellsRest, RecTypeOK, RecStages
    <2>3. CASE todo # {m}
        BY <1>0, <1>8, <2>1, <2>3 DEF RecTell, Saved, TellsRest, RecTypeOK
    <2> QED BY <2>2, <2>3
<1>9. ASSUME NEW m \in Msgs, RecBatch(m) PROVE RecoveryMoves
    BY <1>0, <1>9, RedispatchAdds DEF RecBatch, Saved, TellsRest, RecTypeOK
<1> QED BY <1>1, <1>2, <1>3, <1>4, <1>5, <1>6, <1>7, <1>8, <1>9 DEF RecStep

-----------------------------------------------------------------------------
(* In-flight records                                                       *)

LEMMA LastsAppend ==
    ASSUME NEW q \in Seq(Call), NEW c \in Call
    PROVE  Lasts(Append(q, c)) = Lasts(q) \cup {c.last}
<1> DEFINE r == Append(q, c)
           n == Len(q)
<1>1. /\ n \in Nat /\ DOMAIN q = 1..n /\ DOMAIN r = 1..(n + 1)
      /\ \A i \in 1..n : r[i] = q[i]
      /\ r[n + 1] = c
    BY LenProperties, AppendProperties
<1> HIDE DEF n, r
<1>2. Lasts(r) = Lasts(q) \cup {c.last}
    BY <1>1 DEF Lasts
<1> QED BY <1>2 DEF r

\* Who is not the one that leaves a queue stays in it.
LEMMA OthersStay ==
    ASSUME NEW q \in Seq(Call), NEW i \in DOMAIN q, NEW j \in DOMAIN q, j # i
    PROVE  \E k \in DOMAIN RemoveAt(q, i) : RemoveAt(q, i)[k] = q[j]
<1> DEFINE r == RemoveAt(q, i)
           n == Len(q)
<1>1. n \in Nat /\ DOMAIN q = 1..n /\ i \in 1..n /\ j \in 1..n
    BY LenProperties
<1>2. /\ r \in Seq(Call) /\ Len(r) = n - 1
      /\ \A k \in 1..(n - 1) : r[k] = q[IF k < i THEN k ELSE k + 1]
    BY RemoveAtType, RemoveAtElements
<1>3. DOMAIN r = 1..(n - 1)
    BY <1>2, LenProperties
<1> HIDE DEF r, n
<1>4. CASE j < i
    <2>1. j \in 1..(n - 1) /\ r[j] = q[j]
        BY <1>1, <1>2, <1>4
    <2> QED BY <1>3, <2>1 DEF r
<1>5. CASE j > i
    <2>1. j - 1 \in 1..(n - 1) /\ ~(j - 1 < i) /\ (j - 1) + 1 = j
        BY <1>1, <1>5
    <2>2. r[j - 1] = q[j]
        BY <1>2, <2>1
    <2> QED BY <1>3, <2>1, <2>2 DEF r
<1> QED BY <1>1, <1>4, <1>5

LEMMA WaitersStay ==
    ASSUME NEW q \in Seq(Call), q # <<>>
    PROVE  /\ 1 \in DOMAIN q /\ Head(q) = q[1]
           /\ DOMAIN Tail(q) = 1..(Len(q) - 1) /\ Len(q) \in Nat /\ DOMAIN q = 1..Len(q)
           /\ \A j \in DOMAIN q : j > 1 => j - 1 \in DOMAIN Tail(q) /\ Tail(q)[j - 1] = q[j]
<1> DEFINE r == Tail(q)
           n == Len(q)
<1>1. n \in Nat \ {0} /\ DOMAIN q = 1..n /\ Head(q) = q[1]
    BY EmptySeq, LenProperties
<1>2. r \in Seq(Call) /\ Len(r) = n - 1 /\ \A k \in 1..(n - 1) : r[k] = q[k + 1]
    BY HeadTailProperties
<1>3. DOMAIN r = 1..(n - 1)
    BY <1>2, LenProperties
<1> HIDE DEF r, n
<1>4. ASSUME NEW j \in DOMAIN q, j > 1
      PROVE  j - 1 \in DOMAIN r /\ r[j - 1] = q[j]
    <2>1. j - 1 \in 1..(n - 1) /\ (j - 1) + 1 = j
        BY <1>1, <1>4
    <2> QED BY <1>2, <1>3, <2>1
<1> QED BY <1>1, <1>3, <1>4 DEF r, n

Recorded == \A m \in inFlight : \E u \in Users : m \in CallsOf(u)

LEMMA SoundIsRecorded == InFlightSound <=> Recorded
<1>1. \A u \in Users : CallsOf(u) = {c.last : c \in ToSet(fetching[u]) \cup ToSet(lockq[u])}
    BY DEF CallsOf, Lasts, ToSet
<1> QED BY <1>1 DEF InFlightSound, Recorded

LEMMA CallsIfSame ==
    ASSUME UNCHANGED <<fetching, lockq>>
    PROVE  \A u \in Users : CallsOf(u)' = CallsOf(u)
BY DEF CallsOf, Lasts

\* A call that starts is in a queue of its user, with the others.
LEMMA StartRecorded ==
    ASSUME TypeOK, Recorded, NEW u \in Users, NEW c \in Call, StartCall(u, c)
    PROVE  Recorded'
<1>1. fetching[u] \in Seq(Call) /\ lockq[u] \in Seq(Call)
    BY DEF TypeOK
<1>2. CASE c.last \in Group
    <2>1. /\ lockq' = lockq /\ fetching'[u] = Append(fetching[u], c)
          /\ \A v \in Users : v # u => fetching'[v] = fetching[v]
        BY <1>2 DEF StartCall, TypeOK
    <2>2. /\ CallsOf(u)' = CallsOf(u) \cup {c.last}
          /\ \A v \in Users : v # u => CallsOf(v)' = CallsOf(v)
        <3>1. Lasts(Append(fetching[u], c)) = Lasts(fetching[u]) \cup {c.last}
            BY <1>1, LastsAppend
        <3> QED BY <2>1, <3>1 DEF CallsOf, Lasts
    <2> QED BY <2>2 DEF StartCall, Recorded
<1>3. CASE c.last \notin Group
    <2>1. /\ fetching' = fetching /\ lockq'[u] = Append(lockq[u], c)
          /\ \A v \in Users : v # u => lockq'[v] = lockq[v]
        BY <1>3 DEF StartCall, TypeOK
    <2>2. /\ CallsOf(u)' = CallsOf(u) \cup {c.last}
          /\ \A v \in Users : v # u => CallsOf(v)' = CallsOf(v)
        <3>1. Lasts(Append(lockq[u], c)) = Lasts(lockq[u]) \cup {c.last}
            BY <1>1, LastsAppend
        <3> QED BY <2>1, <3>1 DEF CallsOf, Lasts
    <2> QED BY <2>2 DEF StartCall, Recorded
<1> QED BY <1>2, <1>3

LEMMA FileCallType ==
    ASSUME TypeOK, NEW t \in disp
    PROVE  /\ Sender[t.id] \in Users
           /\ [last |-> t.id, batch |-> <<[id |-> t.id, media |-> 0]>>, src |-> t.src] \in Call
<1>1. t \in Task /\ t.id \in Msgs /\ t.src \in Sources /\ Sender[t.id] \in Users
    BY PipelineAssumption DEF TypeOK, Task, Sources
<1>2. [id |-> t.id, media |-> 0] \in Entry
    BY <1>1 DEF Entry, MediaCap
<1>3. <<[id |-> t.id, media |-> 0]>> \in Seq(Entry)
    BY <1>2
<1> QED BY <1>1, <1>3 DEF Call

\* No step of the pipeline ends a call and leaves its record.
LEMMA RecordedStep ==
    ASSUME TypeOK, SessionOwnsLock, Recorded, [Next]_pipeVars
    PROVE  Recorded'
<1>1. CASE UNCHANGED <<fetching, lockq, inFlight>>
    BY <1>1, CallsIfSame DEF Recorded
<1>2. ASSUME NEW t \in disp, DispatchFile(t) PROVE Recorded'
    BY <1>2, FileCallType, StartRecorded DEF DispatchFile
<1>3. ASSUME NEW u \in Users, Flush(u) PROVE Recorded'
    <2>1. CASE pend[u] = <<>>
        BY <1>1, <1>3, <2>1 DEF Flush
    <2>2. CASE pend[u] # <<>>
        <3>1. pend[u] \in Seq(Entry)
            BY DEF TypeOK
        <3> QED BY <1>3, <2>2, <3>1, BatchCallType, StartRecorded DEF Flush
    <2> QED BY <2>1, <2>2
<1>4. ASSUME NEW u \in Users, FetchDone(u) PROVE Recorded'
    <2>1. PICK i \in DOMAIN fetching[u] :
            /\ lockq' = [lockq EXCEPT ![u] = Append(@, fetching[u][i])]
            /\ fetching' = [fetching EXCEPT ![u] = RemoveAt(@, i)]
        BY <1>4 DEF FetchDone
    <2>2. fetching[u] \in Seq(Call) /\ lockq[u] \in Seq(Call) /\ fetching[u][i] \in Call
        BY DEF TypeOK
    <2>3. /\ lockq'[u] = Append(lockq[u], fetching[u][i])
          /\ fetching'[u] = RemoveAt(fetching[u], i)
          /\ \A v \in Users : v # u => lockq'[v] = lockq[v] /\ fetching'[v] = fetching[v]
        BY <2>1 DEF TypeOK
    <2>4. Lasts(lockq[u])' = Lasts(lockq[u]) \cup {fetching[u][i].last}
        <3>1. Lasts(Append(lockq[u], fetching[u][i])) = Lasts(lockq[u]) \cup {fetching[u][i].last}
            BY <2>2, LastsAppend
        <3> QED BY <2>3, <3>1 DEF Lasts
    <2>5. ASSUME NEW j \in DOMAIN fetching[u], j # i
          PROVE  fetching[u][j].last \in Lasts(fetching[u])'
        BY <2>2, <2>3, <2>5, OthersStay DEF Lasts
    <2>6. CallsOf(u) \subseteq CallsOf(u)'
        BY <2>4, <2>5 DEF CallsOf, Lasts
    <2>7. \A v \in Users : v # u => CallsOf(v)' = CallsOf(v)
        BY <2>3 DEF CallsOf, Lasts
    <2> QED BY <1>4, <2>6, <2>7 DEF FetchDone, Recorded
<1>5. ASSUME NEW u \in Users, Release(u) PROVE Recorded'
    <2>1. /\ lockq[u] \in Seq(Call) /\ lockq[u] # <<>> /\ fetching' = fetching
          /\ lockq'[u] = Tail(lockq[u])
          /\ \A v \in Users : v # u => lockq'[v] = lockq[v]
          /\ inFlight' = inFlight \ {Head(lockq[u]).last}
        BY <1>5 DEF Release, TypeOK, SessionOwnsLock
    <2>2. ASSUME NEW j \in DOMAIN lockq[u], lockq[u][j].last # Head(lockq[u]).last
          PROVE  lockq[u][j].last \in Lasts(lockq[u])'
        <3>1. j > 1
            BY <2>1, <2>2, WaitersStay
        <3> QED BY <2>1, <3>1, WaitersStay DEF Lasts
    <2>3. CallsOf(u) \ {Head(lockq[u]).last} \subseteq CallsOf(u)'
        BY <2>1, <2>2 DEF CallsOf, Lasts
    <2>4. \A v \in Users : v # u => CallsOf(v)' = CallsOf(v)
        BY <2>1 DEF CallsOf, Lasts
    <2> QED BY <2>1, <2>3, <2>4 DEF Recorded
<1> QED BY <1>1, <1>2, <1>3, <1>4, <1>5
        DEF Next, UserStep, DispatchStep, Webhook, Ack, InboxExpire, DispatchEnqueue,
            DispatchReply, InjectDeliver, InjectGiveUp, Activate, LookupFail, Drain, ExitCheck,
            Nudge, EndSession, userVars, pipeVars

-----------------------------------------------------------------------------
(* The inductive invariant                                                 *)

\* A shutdown is counted when it begins.
MayEnd == up = "stopping" => deaths < MaxDeaths

RecInv ==
    /\ TypeOK /\ SessionOwnsLock /\ RecTypeOK
    /\ InFlightSound /\ TellsRest /\ MayEnd

\* The end of a process leaves a pipeline that is as empty as the first.
LEMMA ForgetKeeps ==
    ASSUME RecInv, Forget, rInbox' \subseteq rInbox, deaths < MaxDeaths
    PROVE  RecInv'
<1>1. TypeOK'
    <2>1. /\ pend' \in [Users -> Seq(Entry)] /\ timer' \in [Users -> BOOLEAN]
          /\ inject' \in [Users -> Seq(Seq(Medium))] /\ fetching' \in [Users -> Seq(Call)]
          /\ lockq' \in [Users -> Seq(Call)] /\ phase' \in [Users -> Phases]
          /\ active' \in [Users -> BOOLEAN] /\ sess' \in [Users -> Seq(Item)]
        <3>1. /\ <<>> \in Seq(Entry) /\ <<>> \in Seq(Item) /\ <<>> \in Seq(Call)
              /\ <<>> \in Seq(Seq(Medium)) /\ "free" \in Phases
            BY DEF Phases
        <3> QED BY <3>1 DEF Forget
    <2> QED BY <2>1 DEF Forget, RecInv, TypeOK
<1>2. SessionOwnsLock'
    BY DEF Forget, SessionOwnsLock
<1>3. InFlightSound'
    BY DEF Forget, InFlightSound
<1>4. RecTypeOK' /\ TellsRest'
    BY RecoveryAssumption DEF Forget, RecInv, RecTypeOK, TellsRest, savedVars, RecStages
<1>5. MayEnd'
    BY DEF Forget, MayEnd
<1> QED BY <1>1, <1>2, <1>3, <1>4, <1>5 DEF RecInv

\* A step of the saved state leaves the pipeline alone.
LEMMA SavedKeeps ==
    ASSUME RecInv, UNCHANGED <<pipeVars, rec, todo, recovered, told, deaths>>,
           up' \in {"up", "stopping", up}, up' = "stopping" => deaths < MaxDeaths,
           rInFlight' \subseteq Msgs, rPending' \subseteq Msgs, rResume' \subseteq Msgs
    PROVE  RecInv'
BY DEF RecInv, pipeVars, userVars, TypeOK, SessionOwnsLock, InFlightSound, RecTypeOK, TellsRest, MayEnd

LEMMA BatchedType == TypeOK => Batched \subseteq Msgs
BY IdsType DEF Batched, TypeOK

LEMMA RecInvStep ==
    ASSUME RecInv, [RecNext]_allVars
    PROVE  RecInv' /\ (\A m \in told' \ told : m \notin recovered)
<1>0. /\ TypeOK /\ SessionOwnsLock /\ RecTypeOK /\ InFlightSound /\ TellsRest
      /\ inFlight \subseteq Msgs /\ rInFlight \subseteq Msgs /\ rPending \subseteq Msgs
      /\ rResume \subseteq Msgs
      /\ up = "stopping" => deaths < MaxDeaths
    BY DEF MayEnd, RecInv, TypeOK, RecTypeOK
<1>1. CASE Running
    <2>1. [Next]_pipeVars
        BY <1>1 DEF Running, Next
    <2>2. TypeOK' /\ SessionOwnsLock' /\ InFlightSound'
        <3>1. TypeOK' /\ SessionOwnsLock'
            BY <1>0, <2>1, TypeInvariant, OwnLockInvariant
        <3>2. Recorded'
            BY <1>0, <2>1, RecordedStep, SoundIsRecorded
        <3> QED BY <3>1, <3>2, SoundIsRecorded, PTL
    <2>3. UNCHANGED recVars
        BY <1>1 DEF Running
    <2> QED BY <1>0, <2>2, <2>3 DEF recVars, savedVars, RecInv, RecTypeOK, TellsRest, MayEnd
<1>2. CASE Heartbeat
    BY <1>0, <1>2, SavedKeeps DEF Heartbeat
<1>3. CASE SavedExpire
    <2>1. rInFlight' \subseteq Msgs /\ rPending' \subseteq Msgs /\ rResume' \subseteq Msgs
        BY <1>0, <1>3 DEF SavedExpire
    <2> QED BY <1>0, <1>3, <2>1, SavedKeeps DEF SavedExpire
<1>4. CASE Shutdown
    <2>1. rInFlight' \subseteq Msgs /\ rPending' \subseteq Msgs
        BY <1>0, <1>4, BatchedType DEF Shutdown, Put
    <2> QED BY <1>0, <1>4, <2>1, SavedKeeps DEF Shutdown
<1>5. CASE Stop
    <2>1. deaths < MaxDeaths
        BY <1>0, <1>5 DEF Stop
    <2> QED BY <1>5, <2>1, ForgetKeeps DEF Stop, Forget
<1>6. CASE Kill
    BY <1>6, ForgetKeeps DEF Kill, Forget
<1>7. CASE Start
    <2>1. rInFlight' \subseteq Msgs
        BY <1>0, <1>7, GotType DEF Start
    <2> QED BY <1>0, <1>7, <2>1, SavedKeeps DEF Start
<1>8. CASE RecStep
    <2>1. RecoveryMoves
        BY <1>0, <1>8, RecStepMoves
    <2>2. TypeOK' /\ SessionOwnsLock' /\ InFlightSound'
        BY <1>0, <2>1, AddsKeeps DEF RecoveryMoves
    <2>3. RecTypeOK' /\ TellsRest'
        BY <1>0, <2>1 DEF RecoveryMoves, Saved, RecTypeOK
    <2>4. \A m \in told' \ told : m \notin recovered
        BY <1>0, <2>1 DEF RecoveryMoves, TellsRest
    <2>5. MayEnd'
        BY <1>0, <2>1 DEF RecoveryMoves, MayEnd
    <2> QED BY <2>2, <2>3, <2>4, <2>5 DEF RecInv
<1>9. ASSUME NEW u \in Users, SafeDeploy(u)
      PROVE  RecInv' /\ (\A m \in told' \ told : m \notin recovered)
    <2>1. rResume' \subseteq Msgs
        BY <1>0, <1>9 DEF SafeDeploy, Put
    <2> QED BY <1>0, <1>9, <2>1, SavedKeeps DEF SafeDeploy
<1>10. CASE UNCHANGED allVars
    BY <1>0, <1>10, SavedKeeps DEF allVars, recVars, savedVars
<1> QED BY <1>1, <1>2, <1>3, <1>4, <1>5, <1>6, <1>7, <1>8, <1>9, <1>10 DEF RecNext

LEMMA RecStarts == RecInit => RecInv
<1> SUFFICES ASSUME RecInit PROVE RecInv
    OBVIOUS
<1>1. TypeOK /\ SessionOwnsLock
    BY InitialState DEF RecInit
<1>2. RecTypeOK /\ TellsRest /\ MayEnd
    BY RecoveryAssumption DEF RecInit, RecTypeOK, RecStages, TellsRest, MayEnd
<1>3. InFlightSound
    BY DEF RecInit, Init, InFlightSound
<1> QED BY <1>1, <1>2, <1>3 DEF RecInv

\* The inductive invariant of the process through its restarts.
THEOREM RecoveryInvariant == RecSpec => []RecInv
<1>1. RecInv /\ [RecNext]_allVars => RecInv'
    BY RecInvStep
<1> QED BY <1>1, RecStarts, PTL DEF RecSpec

\* Every variable keeps its type through shutdowns, kills, recoveries and
\* failing Redis calls (main.py:798-1412).
THEOREM RecoveryTypes == RecSpec => []RecTypeOK
<1>1. RecInv => RecTypeOK
    BY DEF RecInv
<1> QED BY <1>1, RecoveryInvariant, PTL

\* In every process an in-flight record belongs to a call of
\* handle_message that is still in a queue, so what a shutdown saves to be told
\* of is really interrupted (handler.py:1366-1380, main.py:1380-1388).
THEOREM RecordsAreOfCalls == RecSpec => []InFlightSound
<1>1. RecInv => InFlightSound
    BY DEF RecInv
<1> QED BY <1>1, RecoveryInvariant, PTL

\* Recovery never asks a sender to send again what it has dispatched or resumed
\* itself, at whatever command Redis fails (main.py:841-1020).
THEOREM OnlyUnrecoveredAreTold == RecSpec => TellsOnlyUnrecovered
<1>1. RecInv /\ [RecNext]_allVars => [\A m \in told' \ told : m \notin recovered]_allVars
    BY RecInvStep
<1> QED BY <1>1, RecoveryInvariant, PTL DEF RecSpec, TellsOnlyUnrecovered

-----------------------------------------------------------------------------
(* What waits                                                              *)

\* The calls of u whose batch the agent has not been given.
AtCalls(u) ==
    {m \in Msgs : \/ \E i \in DOMAIN fetching[u] : m \in Ids(fetching[u][i].batch)
                  \/ \E j \in DOMAIN lockq[u] :
                        (j > 1 \/ phase[u] = "lookup") /\ m \in Ids(lockq[u][j].batch)}

WaitsWith(u) == InBatch(u) \cup Boxed(u) \cup AtCalls(u)

WaitsAt(m) == (\E t \in disp : t.id = m) \/ \E u \in Users : m \in WaitsWith(u)

LEMMA WaitingIs == \A m \in Msgs : m \in Waiting <=> WaitsAt(m)
<1> TAKE m \in Msgs
<1>1. \A u \in Users :
        m \in UNION {Ids(c.batch) : c \in CallsNotFed(u)} <=> m \in AtCalls(u)
    BY DEF CallsNotFed, AtCalls, ToSet
<1> QED BY <1>1 DEF Waiting, WaitsAt, WaitsWith, InBatch, Boxed

\* Where a message may have gone that waits no longer.
Ended == Fed \cup closed \cup LostMsgs

Kept(m) == WaitsAt(m)' \/ m \in Ended'

\* Nothing happens to what waits with v.
Undisturbed(v) ==
    /\ pend'[v] = pend[v] /\ sess'[v] = sess[v] /\ fetching'[v] = fetching[v]
    /\ lockq'[v] = lockq[v] /\ phase'[v] = phase[v]

LEMMA UndisturbedWait ==
    ASSUME NEW v \in Users, Undisturbed(v)
    PROVE  WaitsWith(v)' = WaitsWith(v)
BY DEF Undisturbed, WaitsWith, InBatch, Boxed, AtCalls

\* A step of u that leaves the tasks alone.
LEMMA OwnWait ==
    ASSUME NEW u \in Users, disp \subseteq disp',
           \A v \in Users \ {u} : Undisturbed(v),
           \A y \in WaitsWith(u) : y \in WaitsWith(u)' \/ y \in Ended',
           NEW m \in Msgs, WaitsAt(m)
    PROVE  Kept(m)
<1>1. CASE \E t \in disp : t.id = m
    BY <1>1 DEF WaitsAt, Kept
<1>2. CASE m \in WaitsWith(u)
    BY <1>2 DEF WaitsAt, Kept
<1>3. ASSUME NEW v \in Users \ {u}, m \in WaitsWith(v) PROVE Kept(m)
    BY <1>3, UndisturbedWait DEF WaitsAt, Kept
<1> QED BY <1>1, <1>2, <1>3 DEF WaitsAt

\* A task t for u that is over.
LEMMA TaskWait ==
    ASSUME NEW u \in Users, NEW t, disp' = disp \ {t}, t.id \in Msgs,
           \A v \in Users \ {u} : Undisturbed(v),
           \A y \in WaitsWith(u) \cup {t.id} : y \in WaitsWith(u)',
           NEW m \in Msgs, WaitsAt(m)
    PROVE  Kept(m)
<1>1. CASE \E s \in disp : s.id = m
    <2>1. t.id \in WaitsWith(u)'
        OBVIOUS
    <2> QED BY <1>1, <2>1 DEF WaitsAt, Kept
<1>2. CASE m \in WaitsWith(u)
    BY <1>2 DEF WaitsAt, Kept
<1>3. ASSUME NEW v \in Users \ {u}, m \in WaitsWith(v) PROVE Kept(m)
    BY <1>3, UndisturbedWait DEF WaitsAt, Kept
<1> QED BY <1>1, <1>2, <1>3 DEF WaitsAt

\* A message that is put into the batch or the mailbox of its sender waits there.
LEMMA EnqueuedWaits ==
    ASSUME TypeOK, NEW t \in disp, DispatchEnqueue(t), NEW m \in Msgs, WaitsAt(m)
    PROVE  Kept(m)
<1> DEFINE u == Sender[t.id]
           x == [id |-> t.id, part |-> "message"]
<1>1. u \in Users /\ t.id \in Msgs /\ x \in Item /\ x.part = "message" /\ x.id = t.id
    BY PipelineAssumption DEF TypeOK, Task, Item
<1>2. PICK k \in IF t.kind = "media" THEN 0..MediaCap ELSE {0} :
        Enqueue(u, [id |-> t.id, media |-> k])
    BY DEF DispatchEnqueue
<1>3. /\ disp' = disp \ {t}
      /\ UNCHANGED <<fetching, lockq, phase, fed, closed, lost>>
    BY DEF DispatchEnqueue
<1>4. [id |-> t.id, media |-> k] \in Entry
    BY <1>1, <1>2 DEF Entry, MediaCap
<1>5. pend[u] \in Seq(Entry) /\ sess[u] \in Seq(Item)
    BY <1>1 DEF TypeOK
<1> HIDE DEF u, x
<1>6. /\ \A v \in Users \ {u} : Undisturbed(v)
      /\ InBatch(u) \cup Boxed(u) \cup {t.id} \subseteq (InBatch(u) \cup Boxed(u))'
    <2>1. CASE active[u]
        <3>1. sess' = [sess EXCEPT ![u] = Append(@, x)] /\ UNCHANGED <<pend, timer>>
            BY <1>2, <2>1 DEF Enqueue, x
        <3>2. Consumed(Append(sess[u], x)) = Consumed(sess[u]) \cup {t.id}
            BY <1>1, <1>5, ConsumedAppend
        <3> QED BY <1>1, <1>3, <3>1, <3>2 DEF Undisturbed, InBatch, Boxed, TypeOK
    <2>2. CASE ~active[u]
        <3> DEFINE e == [id |-> t.id, media |-> k]
        <3>1. pend' = [pend EXCEPT ![u] = Append(@, e)] /\ UNCHANGED sess
            BY <1>2, <2>2 DEF Enqueue
        <3>2. Ids(Append(pend[u], e)) = Ids(pend[u]) \cup {t.id}
            BY <1>4, <1>5, IdsAppend
        <3> HIDE DEF e
        <3> QED BY <1>1, <1>3, <3>1, <3>2 DEF Undisturbed, InBatch, Boxed, TypeOK
    <2> QED BY <2>1, <2>2
<1>7. AtCalls(u)' = AtCalls(u)
    BY <1>3 DEF AtCalls
<1>8. \A y \in WaitsWith(u) \cup {t.id} : y \in WaitsWith(u)'
    BY <1>6, <1>7 DEF WaitsWith
<1> QED BY <1>1, <1>3, <1>6, <1>8, TaskWait

\* The batch of a call that starts waits at its queue.
LEMMA StartWaits ==
    ASSUME TypeOK, SessionOwnsLock, NEW u \in Users, NEW c \in Call, StartCall(u, c)
    PROVE  /\ AtCalls(u) \cup Ids(c.batch) \subseteq AtCalls(u)'
           /\ \A v \in Users \ {u} : /\ fetching'[v] = fetching[v] /\ lockq'[v] = lockq[v]
                                     /\ phase'[v] = phase[v]
<1>1. fetching[u] \in Seq(Call) /\ lockq[u] \in Seq(Call) /\ Ids(c.batch) \subseteq Msgs
    BY IdsType DEF TypeOK, Call
<1>2. \A v \in Users \ {u} : /\ fetching'[v] = fetching[v] /\ lockq'[v] = lockq[v]
                             /\ phase'[v] = phase[v]
    BY DEF StartCall, TypeOK
<1>3. CASE c.last \in Group
    <2> DEFINE n == Len(fetching[u])
               r == Append(fetching[u], c)
    <2>1. /\ n \in Nat /\ DOMAIN fetching[u] = 1..n /\ DOMAIN r = 1..(n + 1)
          /\ \A i \in 1..n : r[i] = fetching[u][i]
          /\ r[n + 1] = c
        BY <1>1, LenProperties, AppendProperties
    <2>2. fetching'[u] = r /\ lockq' = lockq /\ phase' = phase
        BY <1>3 DEF StartCall, TypeOK
    <2> HIDE DEF n, r
    <2>3. \A i \in DOMAIN fetching[u] : i \in DOMAIN r /\ r[i] = fetching[u][i]
        BY <2>1
    <2>4. n + 1 \in DOMAIN r /\ r[n + 1] = c
        BY <2>1
    <2> QED BY <1>1, <1>2, <2>2, <2>3, <2>4 DEF AtCalls
<1>4. CASE c.last \notin Group
    <2> DEFINE n == Len(lockq[u])
               r == Append(lockq[u], c)
    <2>1. /\ n \in Nat /\ DOMAIN lockq[u] = 1..n /\ DOMAIN r = 1..(n + 1)
          /\ \A i \in 1..n : r[i] = lockq[u][i]
          /\ r[n + 1] = c
        BY <1>1, LenProperties, AppendProperties
    <2>2. /\ lockq'[u] = r /\ fetching' = fetching
          /\ phase'[u] = IF phase[u] = "free" THEN "lookup" ELSE phase[u]
        BY <1>4 DEF StartCall, TypeOK
    <2>3. phase[u] = "free" => n = 0
        BY <1>1, EmptySeq DEF SessionOwnsLock
    <2> HIDE DEF n, r
    <2>4. \A i \in DOMAIN lockq[u] : i \in DOMAIN r /\ r[i] = lockq[u][i]
        BY <2>1
    <2>5. n + 1 \in DOMAIN r /\ r[n + 1] = c /\ (n + 1 > 1 \/ phase'[u] = "lookup" \/ n = 0)
        BY <2>1
    <2>6. n + 1 > 1 \/ phase'[u] = "lookup"
        <3>1. CASE phase[u] = "free"
            BY <2>2, <3>1
        <3>2. CASE phase[u] # "free"
            <4>1. lockq[u] # <<>>
                BY <3>2 DEF SessionOwnsLock
            <4>2. n \in Nat \ {0}
                BY <1>1, <4>1, EmptySeq DEF n
            <4> QED BY <4>2
        <3> QED BY <3>1, <3>2
    <2>7. phase[u] = "lookup" => phase'[u] = "lookup"
        BY <2>2
    <2> QED BY <1>1, <1>2, <2>2, <2>4, <2>5, <2>6, <2>7 DEF AtCalls
<1> QED BY <1>3, <1>4

LEMMA FiledWaits ==
    ASSUME TypeOK, SessionOwnsLock, NEW t \in disp, DispatchFile(t), NEW m \in Msgs, WaitsAt(m)
    PROVE  Kept(m)
<1> DEFINE u == Sender[t.id]
           c == [last |-> t.id, batch |-> <<[id |-> t.id, media |-> 0]>>, src |-> t.src]
<1>1. u \in Users /\ c \in Call /\ StartCall(u, c)
    BY FileCallType DEF DispatchFile
<1>2. t.id \in Ids(c.batch)
    BY DEF Ids
<1>3. disp' = disp \ {t} /\ UNCHANGED <<pend, sess>>
    BY DEF DispatchFile
<1> HIDE DEF u, c
<1>4. /\ AtCalls(u) \cup {t.id} \subseteq AtCalls(u)'
      /\ \A v \in Users \ {u} : Undisturbed(v)
    BY <1>1, <1>2, <1>3, StartWaits DEF Undisturbed
<1>5. \A y \in WaitsWith(u) \cup {t.id} : y \in WaitsWith(u)'
    BY <1>3, <1>4 DEF WaitsWith, InBatch, Boxed
<1>6. t.id \in Msgs
    BY PipelineAssumption DEF TypeOK, Task
<1> QED BY <1>1, <1>3, <1>4, <1>5, <1>6, TaskWait

LEMMA FlushedWaits ==
    ASSUME TypeOK, SessionOwnsLock, NEW u \in Users, Flush(u), NEW m \in Msgs, WaitsAt(m)
    PROVE  Kept(m)
<1> DEFINE c == [last |-> pend[u][Len(pend[u])].id, batch |-> pend[u], src |-> "flush"]
<1>1. /\ disp' = disp /\ sess' = sess /\ pend[u] \in Seq(Entry)
      /\ \A v \in Users \ {u} : pend'[v] = pend[v]
    BY DEF Flush, TypeOK
<1>2. CASE pend[u] = <<>>
    <2>1. UNCHANGED <<fetching, lockq, phase>> /\ InBatch(u) = {}
        BY <1>2 DEF Flush, InBatch, Ids
    <2>2. AtCalls(u)' = AtCalls(u)
        BY <2>1 DEF AtCalls
    <2>3. Boxed(u)' = Boxed(u) /\ \A v \in Users \ {u} : Undisturbed(v)
        BY <1>1, <2>1 DEF Boxed, Undisturbed
    <2>4. \A y \in WaitsWith(u) : y \in WaitsWith(u)'
        BY <2>1, <2>2, <2>3 DEF WaitsWith
    <2> QED BY <1>1, <2>3, <2>4, OwnWait
<1>3. CASE pend[u] # <<>>
    <2>1. c \in Call /\ StartCall(u, c) /\ Ids(c.batch) = InBatch(u)
        BY <1>1, <1>3, BatchCallType DEF Flush, InBatch
    <2> HIDE DEF c
    <2>2. /\ AtCalls(u) \cup InBatch(u) \subseteq AtCalls(u)'
          /\ \A v \in Users \ {u} : Undisturbed(v)
        BY <1>1, <2>1, StartWaits DEF Undisturbed
    <2>3. Boxed(u)' = Boxed(u)
        BY <1>1 DEF Boxed
    <2>4. \A y \in WaitsWith(u) : y \in WaitsWith(u)'
        BY <2>2, <2>3 DEF WaitsWith
    <2> QED BY <1>1, <2>2, <2>4, OwnWait
<1> QED BY <1>2, <1>3

LEMMA FetchedWaits ==
    ASSUME TypeOK, SessionOwnsLock, NEW u \in Users, FetchDone(u), NEW m \in Msgs, WaitsAt(m)
    PROVE  Kept(m)
<1>1. PICK i \in DOMAIN fetching[u] :
        /\ lockq' = [lockq EXCEPT ![u] = Append(@, fetching[u][i])]
        /\ fetching' = [fetching EXCEPT ![u] = RemoveAt(@, i)]
    BY DEF FetchDone
<1>2. /\ fetching[u] \in Seq(Call) /\ lockq[u] \in Seq(Call) /\ fetching[u][i] \in Call
      /\ disp' = disp /\ pend' = pend /\ sess' = sess
    BY DEF TypeOK, FetchDone
<1>3. /\ lockq'[u] = Append(lockq[u], fetching[u][i])
      /\ fetching'[u] = RemoveAt(fetching[u], i)
      /\ phase'[u] = IF phase[u] = "free" THEN "lookup" ELSE phase[u]
      /\ \A v \in Users \ {u} : Undisturbed(v)
    BY <1>1, <1>2 DEF TypeOK, FetchDone, Undisturbed
<1> DEFINE n == Len(lockq[u])
           r == Append(lockq[u], fetching[u][i])
<1>4. /\ n \in Nat /\ DOMAIN lockq[u] = 1..n /\ DOMAIN r = 1..(n + 1)
      /\ \A k \in 1..n : r[k] = lockq[u][k]
      /\ r[n + 1] = fetching[u][i]
    BY <1>2, LenProperties, AppendProperties
<1>5. phase[u] # "free" => n # 0
    BY <1>2, EmptySeq DEF SessionOwnsLock
<1> HIDE DEF n, r
<1>6. n + 1 \in DOMAIN lockq'[u] /\ lockq'[u][n + 1] = fetching[u][i]
      /\ (n + 1 > 1 \/ phase'[u] = "lookup")
    <2>1. phase[u] = "free" => phase'[u] = "lookup"
        BY <1>3
    <2>2. n # 0 => n + 1 > 1
        BY <1>4
    <2> QED BY <1>3, <1>4, <1>5, <2>1, <2>2 DEF r
<1>7. \A k \in DOMAIN lockq[u] : k \in DOMAIN lockq'[u] /\ lockq'[u][k] = lockq[u][k]
    BY <1>3, <1>4 DEF r
<1>8. \A k \in DOMAIN fetching[u] :
        k # i => \E l \in DOMAIN fetching'[u] : fetching'[u][l] = fetching[u][k]
    BY <1>2, <1>3, OthersStay
<1>9. AtCalls(u) \subseteq AtCalls(u)'
    <2>1. phase[u] = "lookup" => phase'[u] = "lookup"
        BY <1>3
    <2>2. ASSUME NEW y \in Msgs, NEW k \in DOMAIN fetching[u], y \in Ids(fetching[u][k].batch)
          PROVE  y \in AtCalls(u)'
        <3>1. CASE k = i
            BY <1>6, <2>2, <3>1 DEF AtCalls
        <3>2. CASE k # i
            BY <1>8, <2>2, <3>2 DEF AtCalls
        <3> QED BY <3>1, <3>2
    <2>3. ASSUME NEW y \in Msgs, NEW j \in DOMAIN lockq[u], j > 1 \/ phase[u] = "lookup",
                 y \in Ids(lockq[u][j].batch)
          PROVE  y \in AtCalls(u)'
        BY <1>7, <2>1, <2>3 DEF AtCalls
    <2> QED BY <2>2, <2>3 DEF AtCalls
<1>10. InBatch(u)' = InBatch(u) /\ Boxed(u)' = Boxed(u)
    BY <1>2 DEF InBatch, Boxed
<1>11. \A y \in WaitsWith(u) : y \in WaitsWith(u)'
    BY <1>9, <1>10 DEF WaitsWith
<1> QED BY <1>2, <1>3, <1>11, OwnWait

\* Of the queue only the holder's batch is given away.
LEMMA HolderServed ==
    ASSUME TypeOK, SessionOwnsLock, NEW u \in Users, phase[u] = "lookup",
           UNCHANGED <<fetching, lockq>>, NEW y \in AtCalls(u)
    PROVE  y \in AtCalls(u)' \/ y \in Ids(Head(lockq[u]).batch)
<1>1. lockq[u] \in Seq(Call) /\ lockq[u] # <<>>
    BY DEF TypeOK, SessionOwnsLock
<1>2. Head(lockq[u]) = lockq[u][1] /\ DOMAIN lockq[u] = 1..Len(lockq[u]) /\ Len(lockq[u]) \in Nat
    BY <1>1, WaitersStay
<1>3. \A j \in DOMAIN lockq[u] : j > 1 \/ j = 1
    BY <1>2
<1> QED BY <1>2, <1>3 DEF AtCalls

LEMMA ActivatedWaits ==
    ASSUME TypeOK, SessionOwnsLock, NEW u \in Users, Activate(u) \/ LookupFail(u),
           NEW m \in Msgs, WaitsAt(m)
    PROVE  Kept(m)
<1>1. /\ phase[u] = "lookup" /\ UNCHANGED <<disp, pend, fetching, lockq>>
      /\ \A v \in Users \ {u} : Undisturbed(v)
      /\ Boxed(u)' = Boxed(u)
    <2>1. CASE Activate(u)
        <3>1. sess[u] = <<>> /\ sess'[u] = <<>>
            BY <2>1 DEF Activate, SessionOwnsLock, TypeOK
        <3> QED BY <2>1, <3>1 DEF Activate, Undisturbed, TypeOK, Boxed
    <2>2. CASE LookupFail(u)
        BY <2>2 DEF LookupFail, Undisturbed, TypeOK, Boxed
    <2> QED BY <2>1, <2>2
<1>2. Ids(Head(lockq[u]).batch) \subseteq Ended'
    <2>1. Ids(Head(lockq[u]).batch) \subseteq Msgs
        BY <1>1, HolderType
    <2>2. CASE Activate(u)
        BY <2>1, <2>2, FeedIsFed DEF Activate, Ended
    <2>3. CASE LookupFail(u)
        BY <2>3 DEF LookupFail, Ended
    <2> QED BY <2>2, <2>3
<1>3. \A y \in AtCalls(u) : y \in AtCalls(u)' \/ y \in Ids(Head(lockq[u]).batch)
    BY <1>1, HolderServed
<1>4. InBatch(u)' = InBatch(u)
    BY <1>1 DEF InBatch
<1>5. \A y \in WaitsWith(u) : y \in WaitsWith(u)' \/ y \in Ended'
    BY <1>1, <1>2, <1>3, <1>4 DEF WaitsWith
<1> QED BY <1>1, <1>5, OwnWait

LEMMA MailboxWaits ==
    ASSUME TypeOK, SessionOwnsLock, NEW u \in Users,
           Drain(u) \/ EndSession(u) \/ InjectDeliver(u) \/ ExitCheck(u) \/ Nudge(u),
           NEW m \in Msgs, WaitsAt(m)
    PROVE  Kept(m)
<1>1. /\ UNCHANGED <<disp, pend, fetching, lockq>>
      /\ \A v \in Users \ {u} : Undisturbed(v)
      /\ phase[u] # "lookup" \/ phase'[u] = phase[u]
    BY DEF Drain, EndSession, InjectDeliver, ExitCheck, Nudge, Undisturbed, TypeOK
<1>2. AtCalls(u) \subseteq AtCalls(u)'
    BY <1>1 DEF AtCalls
<1>3. Boxed(u) \subseteq Boxed(u)' \cup Ended'
    <2>1. CASE Drain(u)
        <3>1. Consumed(sess[u]) \subseteq Msgs
            BY ConsumedType DEF TypeOK
        <3> QED BY <2>1, <3>1, FeedIsFed DEF Drain, Boxed, Ended
    <2>2. CASE EndSession(u)
        BY <2>2, LostConsumed DEF EndSession, Boxed, Ended
    <2>3. CASE InjectDeliver(u)
        <3>1. PICK i \in DOMAIN inject[u] : sess' = [sess EXCEPT ![u] = @ \o inject[u][i]]
            BY <2>3 DEF InjectDeliver
        <3>2. sess[u] \in Seq(Item) /\ inject[u][i] \in Seq(Medium) /\ sess'[u] = sess[u] \o inject[u][i]
            BY <3>1 DEF TypeOK
        <3>3. Consumed(sess[u] \o inject[u][i]) = Consumed(sess[u])
            BY <3>2, ConsumedMedia
        <3> QED BY <3>2, <3>3 DEF Boxed
    <2>4. CASE ExitCheck(u) \/ Nudge(u)
        BY <2>4 DEF ExitCheck, Nudge, Boxed
    <2> QED BY <2>1, <2>2, <2>3, <2>4
<1>4. InBatch(u)' = InBatch(u)
    BY <1>1 DEF InBatch
<1>5. \A y \in WaitsWith(u) : y \in WaitsWith(u)' \/ y \in Ended'
    BY <1>2, <1>3, <1>4 DEF WaitsWith
<1> QED BY <1>1, <1>5, OwnWait

LEMMA ReleasedWaits ==
    ASSUME TypeOK, SessionOwnsLock, NEW u \in Users, Release(u), NEW m \in Msgs, WaitsAt(m)
    PROVE  Kept(m)
<1>1. /\ lockq[u] \in Seq(Call) /\ lockq[u] # <<>> /\ phase[u] = "reply"
      /\ lockq'[u] = Tail(lockq[u]) /\ UNCHANGED <<disp, pend, sess, fetching>>
      /\ phase'[u] = IF Len(lockq[u]) > 1 THEN "lookup" ELSE "free"
      /\ \A v \in Users \ {u} : Undisturbed(v)
    BY DEF Release, TypeOK, SessionOwnsLock, Undisturbed
<1>2. ASSUME NEW j \in DOMAIN lockq[u], j > 1
      PROVE  /\ j - 1 \in DOMAIN lockq'[u] /\ lockq'[u][j - 1] = lockq[u][j]
             /\ phase'[u] = "lookup"
    <2>1. Len(lockq[u]) > 1
        BY <1>1, <1>2, WaitersStay
    <2> QED BY <1>1, <1>2, <2>1, WaitersStay
<1>3. AtCalls(u) \subseteq AtCalls(u)'
    BY <1>1, <1>2 DEF AtCalls
<1>4. InBatch(u)' = InBatch(u) /\ Boxed(u)' = Boxed(u)
    BY <1>1 DEF InBatch, Boxed
<1>5. \A y \in WaitsWith(u) : y \in WaitsWith(u)'
    BY <1>3, <1>4 DEF WaitsWith
<1> QED BY <1>1, <1>5, OwnWait

LEMMA NoneIsLost ==
    ASSUME TypeOK, SessionOwnsLock, [Next]_pipeVars, NEW m \in Msgs, WaitsAt(m)
    PROVE  Kept(m)
<1>1. CASE disp \subseteq disp' /\ UNCHANGED <<pend, sess, fetching, lockq, phase>>
    <2>1. \A v \in Users : Undisturbed(v)
        BY <1>1 DEF Undisturbed
    <2> QED BY <1>1, <2>1, UndisturbedWait DEF Kept, WaitsAt
<1>2. ASSUME NEW t \in disp, DispatchReply(t) PROVE Kept(m)
    <2>1. t.id \in Ended' /\ disp' = disp \ {t} /\ UNCHANGED <<pend, sess, fetching, lockq, phase>>
        BY <1>2 DEF DispatchReply, Ended, userVars
    <2>2. \A v \in Users : Undisturbed(v)
        BY <2>1 DEF Undisturbed
    <2> QED BY <2>1, <2>2, UndisturbedWait DEF Kept, WaitsAt
<1> QED BY <1>1, <1>2, EnqueuedWaits, FiledWaits, FlushedWaits, FetchedWaits, ActivatedWaits,
           MailboxWaits, ReleasedWaits
        DEF Next, UserStep, DispatchStep, Webhook, Ack, InboxExpire, InjectGiveUp, userVars, pipeVars

\* An accepted message waits somewhere until it is answered, given to the agent
\* or known to be dropped, through any steps of the pipeline and of recovery;
\* only the end of a process makes it vanish (main.py:798-1421, handler.py:1162-1380).
THEOREM OnlyDeathsLose == RecSpec => OnlyDeathLoses
<1> DEFINE Goal == \A m \in Msgs :
         m \in Waiting /\ m \notin Waiting' =>
            \/ m \in Fed' \cup closed' \cup LostMsgs'
            \/ deaths' > deaths
<1>1. RecInv /\ [RecNext]_allVars => Goal
    <2>w. (\A m \in Msgs : m \in Waiting <=> WaitsAt(m))'
        BY WaitingIs, PTL
    <2> SUFFICES ASSUME RecInv, [RecNext]_allVars, ~(deaths' > deaths), NEW m \in Msgs, WaitsAt(m)
                 PROVE  Kept(m)
        BY WaitingIs, <2>w DEF Kept, Ended
    <2>0. TypeOK /\ SessionOwnsLock /\ RecTypeOK /\ TellsRest /\ deaths \in Nat
        BY RecoveryAssumption DEF RecInv, RecTypeOK
    <2>1. CASE [Next]_pipeVars
        BY <2>0, <2>1, NoneIsLost
    <2>2. CASE Adds
        <3>1. disp \subseteq disp' /\ \A v \in Users : Undisturbed(v)
            BY <2>2 DEF Adds, Undisturbed, userVars
        <3> QED BY <3>1, UndisturbedWait DEF Kept, WaitsAt
    <2>3. CASE Forget
        BY <2>0, <2>3 DEF Forget
    <2>4. Running => [Next]_pipeVars
        BY DEF Running, Next
    <2>5. RecStep => Adds
        BY <2>0, RecStepMoves DEF RecoveryMoves
    <2> QED BY <2>1, <2>2, <2>3, <2>4, <2>5
            DEF RecNext, Heartbeat, SavedExpire, Shutdown, Stop, Kill, Start, SafeDeploy, allVars
<1>2. Goal => [Goal]_allVars
    OBVIOUS
<1> QED BY <1>1, <1>2, RecoveryInvariant, PTL DEF RecSpec, OnlyDeathLoses
=============================================================================
