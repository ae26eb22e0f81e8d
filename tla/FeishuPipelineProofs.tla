------------------------ MODULE FeishuPipelineProofs ------------------------
(***************************************************************************)
(* Theorems about FeishuPipeline, for every set of users and messages,     *)
(* every assignment of kinds, and Redis failing or not.                    *)
(*                                                                         *)
(* First types, sessions and locks, batches and mailboxes.  Then where a   *)
(* message is: FateInv gives each accepted message of a user one of five   *)
(* places or an end, and each step is shown to move messages of one user   *)
(* only.  One fate for each message, the refinement of MessageLedger and   *)
(* the records left for another process follow from it.                    *)
(***************************************************************************)
EXTENDS FeishuPipeline, FiniteSetTheorems, SequenceTheorems, TLAPS

-----------------------------------------------------------------------------
(* Sequences *)

\* RemoveAt shortens a sequence without bringing in new elements.
LEMMA RemoveAtType ==
    ASSUME NEW S, NEW s \in Seq(S), NEW i \in DOMAIN s
    PROVE  RemoveAt(s, i) \in Seq(S)
<1>1. i \in 1..Len(s) /\ Len(s) \in Nat
    BY LenProperties
<1>2. SubSeq(s, 1, i - 1) \in Seq(S)
    <2>1. \A j \in 1..(i - 1) : s[j] \in S
        BY <1>1, ElementOfSeq
    <2> QED BY <1>1, <2>1, SubSeqProperties
<1>3. SubSeq(s, i + 1, Len(s)) \in Seq(S)
    <2>1. \A j \in (i + 1)..Len(s) : s[j] \in S
        BY <1>1, ElementOfSeq
    <2> QED BY <1>1, <2>1, SubSeqProperties
<1> QED BY <1>2, <1>3, ConcatProperties DEF RemoveAt

\* After the holder of a lock leaves, the queue is empty iff nobody waited.
LEMMA TailIsEmpty ==
    ASSUME NEW S, NEW s \in Seq(S), s # <<>>
    PROVE  Tail(s) = <<>> <=> ~(Len(s) > 1)
<1> DEFINE t == Tail(s)
           n == Len(s)
           k == Len(t)
<1>1. n \in Nat \ {0}
    BY EmptySeq
<1>2. t \in Seq(S) /\ k = n - 1
    BY HeadTailProperties
<1>3. t = <<>> <=> k = 0
    BY <1>2, EmptySeq
<1> HIDE DEF t, n, k
<1>4. t = <<>> <=> ~(n > 1)
    BY <1>1, <1>2, <1>3
<1> QED BY <1>4 DEF t, n

\* The items that _inject_remaining receives are media of batched messages.
LEMMA MediaItemsType ==
    ASSUME NEW batch \in Seq(Entry), NEW order \in InOrder(LaterMedia(batch))
    PROVE  MediaItems(batch, order) \in Seq(Medium)
<1> DEFINE L == LaterMedia(batch)
           n == Cardinality(L)
<1>1. /\ L \subseteq (1..Len(batch)) \X (1..MediaCap)
      /\ Len(batch) \in Nat
    BY LenProperties DEF LaterMedia, MediaOf
<1>2. n \in Nat
    <2>1. IsFiniteSet((1..Len(batch)) \X (1..MediaCap))
        <3>1. IsFiniteSet(1..Len(batch))
            BY <1>1, FS_Interval
        <3>2. IsFiniteSet(1..MediaCap)
            <4>1. 1 \in Int /\ MediaCap \in Int
                BY DEF MediaCap
            <4> QED BY <4>1, FS_Interval
        <3> QED BY <3>1, <3>2, FS_Product
    <2>2. IsFiniteSet(L)
        BY <1>1, <2>1, FS_Subset
    <2> QED BY <2>2, FS_CardinalityType
<1>3. order \in [1..n -> L]
    BY DEF InOrder
<1>4. \A i \in 1..n : batch[order[i][1]].id \in Msgs
    <2>1. \A i \in 1..n : order[i][1] \in 1..Len(batch)
        BY <1>1, <1>3
    <2>2. \A k \in 1..Len(batch) : batch[k] \in Entry
        BY ElementOfSeq
    <2>3. \A e \in Entry : e.id \in Msgs
        BY DEF Entry
    <2> QED BY <2>1, <2>2, <2>3
<1>5. MediaItems(batch, order) \in [1..n -> Medium]
    BY <1>3, <1>4 DEF MediaItems, Medium
<1> QED BY <1>2, <1>5, SeqDef

-----------------------------------------------------------------------------
(* Type correctness *)

LEMMA InboxWriteType ==
    ASSUME TypeOK, NEW new \in SUBSET Msgs, InboxWrite(new)
    PROVE  rInbox' \subseteq Msgs
<1> QED BY DEF TypeOK, InboxWrite

LEMMA FeedType ==
    ASSUME TypeOK, NEW ms, Feed(ms)
    PROVE  fed' \in [Msgs -> 0..FedCap]
<1> QED BY DEF TypeOK, Feed, FedCap

LEMMA EnqueueType ==
    ASSUME TypeOK, NEW u \in Users, NEW e \in Entry, Enqueue(u, e)
    PROVE  /\ sess' \in [Users -> Seq(Item)]
           /\ pend' \in [Users -> Seq(Entry)]
           /\ timer' \in [Users -> BOOLEAN]
<1>1. [id |-> e.id, part |-> "message"] \in Item
    BY DEF Entry, Item
<1>2. CASE active[u]
    <2>1. Append(sess[u], [id |-> e.id, part |-> "message"]) \in Seq(Item)
        BY <1>1, AppendProperties DEF TypeOK
    <2> QED BY <1>2, <2>1 DEF TypeOK, Enqueue
<1>3. CASE ~active[u]
    <2>1. Append(pend[u], e) \in Seq(Entry)
        BY AppendProperties DEF TypeOK
    <2> QED BY <1>3, <2>1 DEF TypeOK, Enqueue
<1> QED BY <1>2, <1>3

LEMMA StartCallType ==
    ASSUME TypeOK, NEW u \in Users, NEW c \in Call, StartCall(u, c)
    PROVE  /\ inFlight' \subseteq Msgs
           /\ fetching' \in [Users -> Seq(Call)]
           /\ lockq' \in [Users -> Seq(Call)]
           /\ phase' \in [Users -> Phases]
<1>1. c.last \in Msgs
    BY DEF Call
<1>2. /\ Append(fetching[u], c) \in Seq(Call)
      /\ Append(lockq[u], c) \in Seq(Call)
    BY AppendProperties DEF TypeOK
<1> QED BY <1>1, <1>2 DEF TypeOK, StartCall, Phases

\* The last message of a batch, and its call, are what the flush makes of it.
LEMMA BatchCallType ==
    ASSUME NEW batch \in Seq(Entry), batch # <<>>
    PROVE  [last |-> batch[Len(batch)].id, batch |-> batch, src |-> "flush"]
              \in Call
<1>1. Len(batch) \in 1..Len(batch)
    BY EmptySeq
<1>2. batch[Len(batch)] \in Entry
    BY <1>1, ElementOfSeq
<1> QED BY <1>2 DEF Call, Entry, Sources

\* The holder of a lock is a call, and its batch consists of messages.
LEMMA HolderType ==
    ASSUME TypeOK, SessionOwnsLock, NEW u \in Users, phase[u] # "free"
    PROVE  /\ lockq[u] # <<>>
           /\ Head(lockq[u]) \in Call
           /\ Tail(lockq[u]) \in Seq(Call)
           /\ Head(lockq[u]).last \in Msgs
           /\ Ids(Head(lockq[u]).batch) \subseteq Msgs
<1>1. lockq[u] # <<>>
    BY DEF SessionOwnsLock
<1>2. lockq[u] \in Seq(Call)
    BY DEF TypeOK
<1>3. Head(lockq[u]) \in Call /\ Tail(lockq[u]) \in Seq(Call)
    BY <1>1, <1>2, HeadTailProperties
<1>4. Head(lockq[u]).last \in Msgs /\ Head(lockq[u]).batch \in Seq(Entry)
    BY <1>3 DEF Call
<1>5. Ids(Head(lockq[u]).batch) \subseteq Msgs
    <2>1. \A i \in DOMAIN Head(lockq[u]).batch : Head(lockq[u]).batch[i] \in Entry
        BY <1>4
    <2> QED BY <2>1 DEF Ids, Entry
<1> QED BY <1>1, <1>3, <1>4, <1>5

\* Every step keeps every variable in its type.
LEMMA TypeInvariant ==
    TypeOK /\ SessionOwnsLock /\ [Next]_pipeVars => TypeOK'
<1> SUFFICES ASSUME TypeOK, SessionOwnsLock, [Next]_pipeVars
             PROVE  TypeOK'
    OBVIOUS
<1> USE PipelineAssumption
<1>1. ASSUME NEW m \in Msgs, Webhook(m)
      PROVE  TypeOK'
    <2>1. [id |-> m, src |-> "hook", kind |-> Kind[m]] \in Task
        BY DEF Task
    <2>2. rInbox' \subseteq Msgs
        BY <1>1, InboxWriteType DEF Webhook, TypeOK
    <2> QED BY <1>1, <2>1, <2>2 DEF Webhook, TypeOK, userVars
<1>2. ASSUME NEW m \in Msgs, Ack(m)
      PROVE  TypeOK'
    BY <1>2 DEF Ack, TypeOK, userVars
<1>3. ASSUME InboxExpire
      PROVE  TypeOK'
    BY <1>3 DEF InboxExpire, TypeOK, userVars
<1>4. ASSUME NEW t \in disp, DispatchEnqueue(t)
      PROVE  TypeOK'
    <2>1. t \in Task /\ t.id \in Msgs /\ Sender[t.id] \in Users
        BY DEF TypeOK, Task
    <2>2. PICK k \in IF t.kind = "media" THEN 0..MediaCap ELSE {0} :
             Enqueue(Sender[t.id], [id |-> t.id, media |-> k])
        BY <1>4 DEF DispatchEnqueue
    <2>3. /\ sess' \in [Users -> Seq(Item)]
          /\ pend' \in [Users -> Seq(Entry)]
          /\ timer' \in [Users -> BOOLEAN]
        <3>1. [id |-> t.id, media |-> k] \in Entry
            BY <2>1, <2>2 DEF Entry, MediaCap
        <3> QED BY <2>1, <2>2, <3>1, EnqueueType
    <2>4. rInbox' \subseteq Msgs
        BY <1>4, InboxWriteType DEF DispatchEnqueue, TypeOK
    <2> QED BY <1>4, <2>3, <2>4 DEF DispatchEnqueue, TypeOK
<1>5. ASSUME NEW t \in disp, DispatchFile(t)
      PROVE  TypeOK'
    <2>1. t \in Task /\ t.id \in Msgs /\ t.src \in Sources /\ Sender[t.id] \in Users
        BY DEF TypeOK, Task, Sources
    <2>2. [id |-> t.id, media |-> 0] \in Entry
        BY <2>1 DEF Entry, MediaCap
    <2>3. <<[id |-> t.id, media |-> 0]>> \in Seq(Entry)
        BY <2>2
    <2>4. [last |-> t.id, batch |-> <<[id |-> t.id, media |-> 0]>>, src |-> t.src]
             \in Call
        BY <2>1, <2>3 DEF Call
    <2>5. /\ inFlight' \subseteq Msgs
          /\ fetching' \in [Users -> Seq(Call)]
          /\ lockq' \in [Users -> Seq(Call)]
          /\ phase' \in [Users -> Phases]
        BY <1>5, <2>1, <2>4, StartCallType DEF DispatchFile
    <2> QED BY <1>5, <2>5 DEF DispatchFile, TypeOK
<1>6. ASSUME NEW t \in disp, DispatchReply(t)
      PROVE  TypeOK'
    <2>1. t.id \in Msgs
        BY DEF TypeOK, Task
    <2>2. rInbox' \subseteq Msgs
        BY <1>6, InboxWriteType DEF DispatchReply, TypeOK
    <2> QED BY <1>6, <2>1, <2>2 DEF DispatchReply, TypeOK, userVars
<1>7. ASSUME NEW u \in Users, Flush(u)
      PROVE  TypeOK'
    <2>1. CASE pend[u] = <<>>
        <3>1. <<>> \in Seq(Entry)
            BY EmptySeq
        <3> QED BY <1>7, <2>1, <3>1 DEF Flush, TypeOK
    <2>2. CASE pend[u] # <<>>
        <3>1. pend[u] \in Seq(Entry)
            BY DEF TypeOK
        <3>2. /\ inFlight' \subseteq Msgs
              /\ fetching' \in [Users -> Seq(Call)]
              /\ lockq' \in [Users -> Seq(Call)]
              /\ phase' \in [Users -> Phases]
            BY <1>7, <2>2, <3>1, BatchCallType, StartCallType DEF Flush
        <3>3. inject' \in [Users -> Seq(Seq(Medium))]
            <4>1. CASE LaterMedia(pend[u]) = {}
                BY <1>7, <2>2, <4>1 DEF Flush, TypeOK
            <4>2. CASE LaterMedia(pend[u]) # {}
                <5>1. PICK order \in InOrder(LaterMedia(pend[u])) :
                         inject' = [inject EXCEPT ![u] =
                                      Append(@, MediaItems(pend[u], order))]
                    BY <1>7, <2>2, <4>2 DEF Flush
                <5>2. MediaItems(pend[u], order) \in Seq(Medium)
                    BY <3>1, MediaItemsType
                <5>3. Append(inject[u], MediaItems(pend[u], order)) \in Seq(Seq(Medium))
                    BY <5>2, AppendProperties DEF TypeOK
                <5> QED BY <5>1, <5>3 DEF TypeOK
            <4> QED BY <4>1, <4>2
        <3>4. /\ timer' = [timer EXCEPT ![u] = FALSE]
              /\ pend' = [pend EXCEPT ![u] = <<>>]
              /\ UNCHANGED <<acked, answering, seen, disp, active, sess,
                             rInbox, fed, closed, lost>>
            BY <1>7 DEF Flush
        <3>5. <<>> \in Seq(Entry)
            BY EmptySeq
        <3> QED BY <3>2, <3>3, <3>4, <3>5 DEF TypeOK
    <2> QED BY <2>1, <2>2
<1>8. ASSUME NEW u \in Users, InjectDeliver(u)
      PROVE  TypeOK'
    <2>1. PICK i \in DOMAIN inject[u] :
             /\ sess' = [sess EXCEPT ![u] = @ \o inject[u][i]]
             /\ inject' = [inject EXCEPT ![u] = RemoveAt(@, i)]
        BY <1>8 DEF InjectDeliver
    <2>2. inject[u] \in Seq(Seq(Medium)) /\ sess[u] \in Seq(Item)
        BY DEF TypeOK
    <2>3. inject[u][i] \in Seq(Item)
        <3>1. inject[u][i] \in Seq(Medium)
            BY <2>2
        <3>2. Medium \subseteq Item
            BY DEF Medium, Item
        <3> QED BY <3>1, <3>2, SeqMonotonic
    <2>4. sess[u] \o inject[u][i] \in Seq(Item)
        BY <2>2, <2>3, ConcatProperties
    <2>5. RemoveAt(inject[u], i) \in Seq(Seq(Medium))
        BY <2>2, RemoveAtType
    <2> QED BY <1>8, <2>1, <2>4, <2>5 DEF InjectDeliver, TypeOK
<1>9. ASSUME NEW u \in Users, InjectGiveUp(u)
      PROVE  TypeOK'
    <2>1. PICK i \in DOMAIN inject[u] :
             /\ inject' = [inject EXCEPT ![u] = RemoveAt(@, i)]
             /\ lost' = lost \cup ToSet(inject[u][i])
        BY <1>9 DEF InjectGiveUp
    <2>2. inject[u] \in Seq(Seq(Medium))
        BY DEF TypeOK
    <2>3. inject[u][i] \in Seq(Item)
        <3>1. inject[u][i] \in Seq(Medium)
            BY <2>2
        <3>2. Medium \subseteq Item
            BY DEF Medium, Item
        <3> QED BY <3>1, <3>2, SeqMonotonic
    <2>4. ToSet(inject[u][i]) \subseteq Item
        BY <2>3 DEF ToSet
    <2>5. RemoveAt(inject[u], i) \in Seq(Seq(Medium))
        BY <2>2, RemoveAtType
    <2> QED BY <1>9, <2>1, <2>4, <2>5 DEF InjectGiveUp, TypeOK
<1>10. ASSUME NEW u \in Users, FetchDone(u)
       PROVE  TypeOK'
    <2>1. PICK i \in DOMAIN fetching[u] :
             /\ lockq' = [lockq EXCEPT ![u] = Append(@, fetching[u][i])]
             /\ fetching' = [fetching EXCEPT ![u] = RemoveAt(@, i)]
        BY <1>10 DEF FetchDone
    <2>2. fetching[u] \in Seq(Call) /\ lockq[u] \in Seq(Call)
        BY DEF TypeOK
    <2>3. fetching[u][i] \in Call
        BY <2>2
    <2>4. Append(lockq[u], fetching[u][i]) \in Seq(Call)
        BY <2>2, <2>3, AppendProperties
    <2>5. RemoveAt(fetching[u], i) \in Seq(Call)
        BY <2>2, RemoveAtType
    <2> QED BY <1>10, <2>1, <2>4, <2>5 DEF FetchDone, TypeOK, Phases
<1>11. ASSUME NEW u \in Users, Activate(u)
       PROVE  TypeOK'
    <2>1. fed' \in [Msgs -> 0..FedCap]
        BY <1>11, FeedType DEF Activate
    <2> QED BY <1>11, <2>1 DEF Activate, TypeOK, Phases
<1>12. ASSUME NEW u \in Users, LookupFail(u)
       PROVE  TypeOK'
    <2>1. Ids(Head(lockq[u]).batch) \subseteq Msgs
        BY <1>12, HolderType DEF LookupFail
    <2> QED BY <1>12, <2>1 DEF LookupFail, TypeOK, Phases
<1>13. ASSUME NEW u \in Users, Drain(u)
       PROVE  TypeOK'
    <2>1. fed' \in [Msgs -> 0..FedCap]
        BY <1>13, FeedType DEF Drain
    <2>2. <<>> \in Seq(Item)
        BY EmptySeq
    <2> QED BY <1>13, <2>1, <2>2 DEF Drain, TypeOK
<1>14. ASSUME NEW u \in Users, ExitCheck(u)
       PROVE  TypeOK'
    BY <1>14 DEF ExitCheck, TypeOK, Phases
<1>15. ASSUME NEW u \in Users, Nudge(u)
       PROVE  TypeOK'
    BY <1>15 DEF Nudge, TypeOK, Phases
<1>16. ASSUME NEW u \in Users, EndSession(u)
       PROVE  TypeOK'
    <2>1. ToSet(sess[u]) \subseteq Item
        BY DEF TypeOK, ToSet
    <2>2. <<>> \in Seq(Item)
        BY EmptySeq
    <2> QED BY <1>16, <2>1, <2>2 DEF EndSession, TypeOK, Phases
<1>17. ASSUME NEW u \in Users, Release(u)
       PROVE  TypeOK'
    <2>1. /\ Tail(lockq[u]) \in Seq(Call)
          /\ Head(lockq[u]).last \in Msgs
          /\ Ids(Head(lockq[u]).batch) \subseteq Msgs
        BY <1>17, HolderType DEF Release
    <2>2. rInbox' \subseteq Msgs
        BY <1>17, InboxWriteType DEF Release, TypeOK
    <2> QED BY <1>17, <2>1, <2>2 DEF Release, TypeOK, Phases
<1>18. CASE UNCHANGED pipeVars
    BY <1>18 DEF TypeOK, pipeVars
<1> QED
    BY <1>1, <1>2, <1>3, <1>4, <1>5, <1>6, <1>7, <1>8, <1>9, <1>10, <1>11,
       <1>12, <1>13, <1>14, <1>15, <1>16, <1>17, <1>18
    DEF Next, UserStep, DispatchStep

-----------------------------------------------------------------------------
(* The lock and the session *)

\* What SessionOwnsLock says of one user.
OwnLock(u) ==
    /\ phase[u] = "free" <=> lockq[u] = <<>>
    /\ active[u] <=> phase[u] \in {"loop", "judge"}
    /\ ~active[u] => sess[u] = <<>>

\* A new call leaves the session of its user alone: it takes a free lock, or
\* waits behind the holder, or fetches history first.
LEMMA StartCallOwnLock ==
    ASSUME TypeOK, SessionOwnsLock, NEW u \in Users, NEW c \in Call,
           StartCall(u, c), UNCHANGED <<active, sess>>, NEW v \in Users
    PROVE  OwnLock(v)'
<1>1. OwnLock(v)
    BY DEF SessionOwnsLock, OwnLock
<1>2. lockq[u] \in Seq(Call)
    BY DEF TypeOK
<1>3. Append(lockq[u], c) # <<>>
    BY <1>2, AppendProperties
<1> QED BY <1>1, <1>3 DEF StartCall, OwnLock, TypeOK, Phases

\* Every step keeps sessions and locks in agreement.
LEMMA OwnLockInvariant ==
    TypeOK /\ SessionOwnsLock /\ [Next]_pipeVars => SessionOwnsLock'
<1> SUFFICES ASSUME TypeOK, SessionOwnsLock, [Next]_pipeVars, NEW v \in Users
             PROVE  OwnLock(v)'
    BY DEF SessionOwnsLock, OwnLock
<1>0. OwnLock(v)
    BY DEF SessionOwnsLock, OwnLock
<1>1. ASSUME UNCHANGED <<lockq, phase, active, sess>>
      PROVE  OwnLock(v)'
    BY <1>0, <1>1 DEF OwnLock
<1>2. ASSUME NEW t \in disp, DispatchEnqueue(t)
      PROVE  OwnLock(v)'
    <2>1. sess' = sess \/ (/\ active[Sender[t.id]]
                           /\ \E x : sess' = [sess EXCEPT ![Sender[t.id]] = x])
        BY <1>2 DEF DispatchEnqueue, Enqueue
    <2> QED BY <1>0, <1>2, <2>1 DEF DispatchEnqueue, OwnLock, TypeOK
<1>3. ASSUME NEW t \in disp, DispatchFile(t)
      PROVE  OwnLock(v)'
    <2> DEFINE c == [last |-> t.id,
                     batch |-> <<[id |-> t.id, media |-> 0]>>,
                     src |-> t.src]
    <2>1. t.id \in Msgs /\ t.src \in Sources /\ Sender[t.id] \in Users
        BY PipelineAssumption DEF TypeOK, Task, Sources
    <2>2. [id |-> t.id, media |-> 0] \in Entry
        BY <2>1 DEF Entry, MediaCap
    <2>3. c \in Call
        BY <2>1, <2>2 DEF Call
    <2> QED BY <1>3, <2>1, <2>3, StartCallOwnLock DEF DispatchFile
<1>4. ASSUME NEW u \in Users, Flush(u)
      PROVE  OwnLock(v)'
    <2>1. CASE pend[u] = <<>>
        BY <1>1, <1>4, <2>1 DEF Flush
    <2>2. CASE pend[u] # <<>>
        <3>1. pend[u] \in Seq(Entry)
            BY DEF TypeOK
        <3> QED BY <1>4, <2>2, <3>1, BatchCallType, StartCallOwnLock DEF Flush
    <2> QED BY <2>1, <2>2
<1>5. ASSUME NEW u \in Users, InjectDeliver(u)
      PROVE  OwnLock(v)'
    BY <1>0, <1>5 DEF InjectDeliver, OwnLock, TypeOK
<1>6. ASSUME NEW u \in Users, FetchDone(u)
      PROVE  OwnLock(v)'
    <2>1. PICK i \in DOMAIN fetching[u] :
             lockq' = [lockq EXCEPT ![u] = Append(@, fetching[u][i])]
        BY <1>6 DEF FetchDone
    <2>2. fetching[u] \in Seq(Call) /\ lockq[u] \in Seq(Call)
        BY DEF TypeOK
    <2>3. fetching[u][i] \in Call
        BY <2>2
    <2>4. Append(lockq[u], fetching[u][i]) # <<>>
        BY <2>2, <2>3, AppendProperties
    <2> QED BY <1>0, <1>6, <2>1, <2>4 DEF FetchDone, OwnLock, TypeOK, Phases
<1>7. ASSUME NEW u \in Users, Activate(u)
      PROVE  OwnLock(v)'
    BY <1>0, <1>7 DEF Activate, OwnLock, TypeOK
<1>8. ASSUME NEW u \in Users, LookupFail(u)
      PROVE  OwnLock(v)'
    BY <1>0, <1>8 DEF LookupFail, OwnLock, TypeOK
<1>9. ASSUME NEW u \in Users, Drain(u)
      PROVE  OwnLock(v)'
    BY <1>0, <1>9 DEF Drain, OwnLock, TypeOK
<1>10. ASSUME NEW u \in Users, ExitCheck(u)
       PROVE  OwnLock(v)'
    BY <1>0, <1>10 DEF ExitCheck, OwnLock, TypeOK
<1>11. ASSUME NEW u \in Users, Nudge(u)
       PROVE  OwnLock(v)'
    BY <1>0, <1>11 DEF Nudge, OwnLock, TypeOK
<1>12. ASSUME NEW u \in Users, EndSession(u)
       PROVE  OwnLock(v)'
    BY <1>0, <1>12 DEF EndSession, OwnLock, TypeOK
<1>13. ASSUME NEW u \in Users, Release(u)
       PROVE  OwnLock(v)'
    <2>1. lockq[u] \in Seq(Call) /\ lockq[u] # <<>>
        BY <1>13 DEF TypeOK, Release, SessionOwnsLock
    <2>2. Tail(lockq[u]) = <<>> <=> ~(Len(lockq[u]) > 1)
        BY <2>1, TailIsEmpty
    <2> QED BY <1>0, <1>13, <2>1, <2>2 DEF Release, OwnLock, TypeOK
<1> QED
    BY <1>1, <1>2, <1>3, <1>4, <1>5, <1>6, <1>7, <1>8, <1>9, <1>10, <1>11,
       <1>12, <1>13
    DEF Next, UserStep, DispatchStep, Webhook, Ack, InboxExpire, DispatchReply,
        InjectGiveUp, userVars, pipeVars

LEMMA InitialState == Init => TypeOK /\ SessionOwnsLock
<1> SUFFICES ASSUME Init
             PROVE  TypeOK /\ SessionOwnsLock
    OBVIOUS
<1>1. /\ <<>> \in Seq(Entry) /\ <<>> \in Seq(Item) /\ <<>> \in Seq(Call)
      /\ <<>> \in Seq(Seq(Medium))
    BY EmptySeq
<1> QED BY <1>1 DEF Init, TypeOK, SessionOwnsLock, Phases, FedCap

\* The pipeline is type correct, and _user_active, the mailbox and the lock of
\* every user agree, in every reachable state.
THEOREM TypeCorrect == Spec => []TypeOK
<1> DEFINE I == TypeOK /\ SessionOwnsLock
<1>1. Init => I
    BY InitialState
<1>2. I /\ [Next]_pipeVars => I'
    BY TypeInvariant, OwnLockInvariant
<1> QED BY <1>1, <1>2, PTL DEF Spec

\* _user_active is exactly the session of the lock holder: base.py activates
\* and deactivates around route_message, which handler.py runs under the lock.
THEOREM SessionsOwnLocks == Spec => []SessionOwnsLock
<1>1. Init => SessionOwnsLock
    BY InitialState
<1>2. TypeOK /\ SessionOwnsLock /\ [Next]_pipeVars => SessionOwnsLock'
    BY OwnLockInvariant
<1> QED BY <1>1, <1>2, TypeCorrect, PTL DEF Spec

-----------------------------------------------------------------------------
(* Batches *)

\* No batch waits without a timer and no timer outlives its batch.
THEOREM BatchesHaveTimers == Spec => []TimerIffPending
<1>1. Init => TimerIffPending
    BY DEF Init, TimerIffPending
<1>2. TypeOK /\ TimerIffPending /\ [Next]_pipeVars => TimerIffPending'
    <2> SUFFICES ASSUME TypeOK, TimerIffPending, [Next]_pipeVars, NEW v \in Users
                 PROVE  (timer[v] <=> pend[v] # <<>>)'
        BY DEF TimerIffPending
    <2>0. timer[v] <=> pend[v] # <<>>
        BY DEF TimerIffPending
    <2>1. ASSUME UNCHANGED <<timer, pend>>
          PROVE  (timer[v] <=> pend[v] # <<>>)'
        BY <2>0, <2>1
    <2>2. ASSUME NEW t \in disp, DispatchEnqueue(t)
          PROVE  (timer[v] <=> pend[v] # <<>>)'
        <3> DEFINE w == Sender[t.id]
        <3>1. PICK k \in IF t.kind = "media" THEN 0..MediaCap ELSE {0} :
                 Enqueue(w, [id |-> t.id, media |-> k])
            BY <2>2 DEF DispatchEnqueue
        <3> DEFINE e == [id |-> t.id, media |-> k]
        <3>2. w \in Users /\ e \in Entry
            BY <3>1, PipelineAssumption DEF TypeOK, Task, Entry, MediaCap
        <3>3. pend[w] \in Seq(Entry)
            BY <3>2 DEF TypeOK
        <3>4. Append(pend[w], e) # <<>>
            BY <3>2, <3>3, AppendProperties
        <3> QED BY <2>0, <3>1, <3>2, <3>4 DEF Enqueue, TypeOK
    <2>3. ASSUME NEW u \in Users, Flush(u)
          PROVE  (timer[v] <=> pend[v] # <<>>)'
        <3>1. timer' = [timer EXCEPT ![u] = FALSE] /\ pend' = [pend EXCEPT ![u] = <<>>]
            BY <2>3 DEF Flush
        <3> QED BY <2>0, <3>1 DEF TypeOK
    <2> QED
        BY <2>1, <2>2, <2>3
        DEF Next, UserStep, DispatchStep, Webhook, Ack, InboxExpire,
            DispatchFile, DispatchReply, InjectDeliver, InjectGiveUp,
            FetchDone, Activate, LookupFail, Drain, ExitCheck, Nudge,
            EndSession, Release, userVars, pipeVars
<1> QED BY <1>1, <1>2, TypeCorrect, PTL DEF Spec

\* What users have written is attended to on its way to the agent
\* (handler.py:1181-1288, base.py:330-354).
THEOREM AllIsAttended == Spec => []NothingUnattended
<1>1. TimerIffPending /\ SessionOwnsLock => NothingUnattended
    BY DEF NothingUnattended
<1> QED BY <1>1, SessionsOwnLocks, BatchesHaveTimers, PTL

-----------------------------------------------------------------------------
(* Mailboxes *)

\* What the end of a session drops, and the agent reads, is what was in the
\* mailbox.
LEMMA LostConsumed ==
    ASSUME TypeOK, NEW u \in Users, lost' = lost \cup ToSet(sess[u])
    PROVE  Consumed(sess[u]) \subseteq LostMsgs'
<1> QED BY DEF Consumed, LostMsgs, ToSet

LEMMA FeedIsFed ==
    ASSUME TypeOK, NEW ms \in SUBSET Msgs, Feed(ms)
    PROVE  ms \subseteq Fed'
<1>1. ASSUME NEW m \in ms
      PROVE  m \in Msgs /\ fed'[m] > 0
    <2>1. m \in Msgs /\ fed[m] \in 0..2
        BY DEF TypeOK, FedCap
    <2>2. fed'[m] = IF fed[m] < 2 THEN fed[m] + 1 ELSE fed[m]
        BY <2>1 DEF Feed, FedCap
    <2> QED BY <2>1, <2>2
<1> QED BY <1>1 DEF Fed

\* Only the end of a session drops messages, and a mailbox that holds some is
\* emptied only by the agent reading it or by that end.
THEOREM MailboxesAreKept == Spec => MailboxNotOverwritten
<1> DEFINE Kept ==
        \A u \in Users :
            /\ LostMsgs' # LostMsgs => \E v \in Users : active[v] /\ ~active[v]'
            /\ Consumed(sess[u]) # {} /\ sess[u]' = <<>> =>
                 Consumed(sess[u]) \subseteq Fed' \cup LostMsgs'
<1>1. TypeOK /\ SessionOwnsLock /\ [Next]_pipeVars => Kept
    <2> SUFFICES ASSUME TypeOK, SessionOwnsLock, [Next]_pipeVars, NEW w \in Users
                 PROVE  /\ LostMsgs' # LostMsgs =>
                              \E v \in Users : active[v] /\ ~active[v]'
                        /\ Consumed(sess[w]) # {} /\ sess[w]' = <<>> =>
                              Consumed(sess[w]) \subseteq Fed' \cup LostMsgs'
        OBVIOUS
    <2> DEFINE Goal ==
            /\ LostMsgs' # LostMsgs => \E v \in Users : active[v] /\ ~active[v]'
            /\ Consumed(sess[w]) # {} /\ sess[w]' = <<>> =>
                  Consumed(sess[w]) \subseteq Fed' \cup LostMsgs'
    <2>0. sess[w] = <<>> => Consumed(sess[w]) = {}
        BY DEF Consumed
    <2>1. ASSUME UNCHANGED <<sess, lost>>
          PROVE  Goal
        BY <2>0, <2>1 DEF LostMsgs
    <2>2. ASSUME NEW t \in disp, DispatchEnqueue(t)
          PROVE  Goal
        <3> DEFINE u == Sender[t.id]
                   x == [id |-> t.id, part |-> "message"]
        <3>1. UNCHANGED lost /\ (sess' = sess \/ sess' = [sess EXCEPT ![u] = Append(@, x)])
            BY <2>2 DEF DispatchEnqueue, Enqueue
        <3>2. u \in Users /\ x \in Item
            BY PipelineAssumption DEF TypeOK, Task, Item
        <3>3. sess[u] \in Seq(Item)
            BY <3>2 DEF TypeOK
        <3>4. Append(sess[u], x) # <<>>
            BY <3>2, <3>3, AppendProperties
        <3> QED BY <2>0, <3>1, <3>2, <3>4 DEF TypeOK, LostMsgs
    <2>3. ASSUME NEW u \in Users, InjectDeliver(u)
          PROVE  Goal
        <3>1. PICK i \in DOMAIN inject[u] : sess' = [sess EXCEPT ![u] = @ \o inject[u][i]]
            BY <2>3 DEF InjectDeliver
        <3>2. sess[u] \in Seq(Item) /\ inject[u] \in Seq(Seq(Medium))
            BY DEF TypeOK
        <3>3. inject[u][i] \in Seq(Item)
            <4>1. inject[u][i] \in Seq(Medium)
                BY <3>2
            <4>2. Medium \subseteq Item
                BY DEF Medium, Item
            <4> QED BY <4>1, <4>2, SeqMonotonic
        <3>4. sess[u] \o inject[u][i] = <<>> => sess[u] = <<>>
            BY <3>2, <3>3, ConcatEqualIffEmpty, ConcatSimplifications, EmptySeq
        <3> QED BY <2>0, <2>3, <3>1, <3>4 DEF InjectDeliver, TypeOK, LostMsgs
    <2>4. ASSUME NEW u \in Users, InjectGiveUp(u)
          PROVE  Goal
        <3>1. PICK i \in DOMAIN inject[u] : lost' = lost \cup ToSet(inject[u][i])
            BY <2>4 DEF InjectGiveUp
        <3>2. inject[u][i] \in Seq(Medium)
            BY DEF TypeOK
        <3>3. \A y \in ToSet(inject[u][i]) : y.part = "media"
            <4>1. \A j \in DOMAIN inject[u][i] : inject[u][i][j] \in Medium
                BY <3>2
            <4> QED BY <4>1 DEF ToSet, Medium
        <3>4. LostMsgs' = LostMsgs
            BY <3>1, <3>3 DEF LostMsgs
        <3> QED BY <2>0, <2>4, <3>4 DEF InjectGiveUp
    <2>5. ASSUME NEW u \in Users, Activate(u)
          PROVE  Goal
        <3>1. sess[u] = <<>>
            BY <2>5 DEF Activate, SessionOwnsLock
        <3> QED BY <2>0, <2>5, <3>1 DEF Activate, TypeOK, LostMsgs
    <2>6. ASSUME NEW u \in Users, Drain(u)
          PROVE  Goal
        <3>1. Consumed(sess[u]) \subseteq Msgs
            <4>1. \A j \in DOMAIN sess[u] : sess[u][j] \in Item
                BY DEF TypeOK
            <4> QED BY <4>1 DEF Consumed, Item
        <3>2. Consumed(sess[u]) \subseteq Fed'
            BY <2>6, <3>1, FeedIsFed DEF Drain
        <3> QED BY <2>0, <2>6, <3>2 DEF Drain, TypeOK, LostMsgs
    <2>7. ASSUME NEW u \in Users, EndSession(u)
          PROVE  Goal
        <3>1. active[u] /\ ~active[u]'
            BY <2>7 DEF EndSession, SessionOwnsLock, TypeOK
        <3>2. Consumed(sess[u]) \subseteq LostMsgs'
            BY <2>7, LostConsumed DEF EndSession
        <3> QED BY <2>0, <2>7, <3>1, <3>2 DEF EndSession, TypeOK
    <2> QED
        BY <2>1, <2>2, <2>3, <2>4, <2>5, <2>6, <2>7
        DEF Next, UserStep, DispatchStep, Webhook, Ack, InboxExpire,
            DispatchFile, DispatchReply, Flush, FetchDone, LookupFail,
            ExitCheck, Nudge, Release, userVars, pipeVars
<1> QED BY <1>1, TypeCorrect, SessionsOwnLocks, PTL DEF Spec, MailboxNotOverwritten

-----------------------------------------------------------------------------
(* Where a message is: the invariant *)

\* The messages of user u.
Mine(u) == {m \in Msgs : Sender[m] = u}

\* The places of a message of u on its way: the dispatch, the batch, the
\* mailbox, a call that fetches group history, a call at the lock.
Room(u) == {m \in Mine(u) : \E t \in disp : t.id = m}

InBatch(u) == Ids(pend[u])

Boxed(u) == Consumed(sess[u])

CallsIn(q) == {m \in Msgs : \E i \in DOMAIN q : m \in Ids(q[i].batch)}

Fetched(u) == CallsIn(fetching[u])

Locked(u) == CallsIn(lockq[u])

\* The batch of the lock holder once the agent has it, or the apology.
Served(u) ==
    IF phase[u] \in {"free", "lookup"} THEN {} ELSE Ids(Head(lockq[u]).batch)

Waits(u) ==
    Room(u) \cup InBatch(u) \cup Boxed(u) \cup Fetched(u) \cup (Locked(u) \ Served(u))

Done == Fed \cup closed

\* Calls carry the id of a message of theirs, and no message is in two.
Orderly(q) ==
    /\ \A i \in DOMAIN q : q[i].last \in Ids(q[i].batch)
    /\ \A i, j \in DOMAIN q, m \in Msgs :
          m \in Ids(q[i].batch) /\ m \in Ids(q[j].batch) => i = j

\* A message is in one place, with its sender.
OnePlace(u) ==
    /\ InBatch(u) \cup Boxed(u) \cup Fetched(u) \cup Locked(u) \subseteq Mine(u)
    /\ Room(u) \cap (InBatch(u) \cup Boxed(u) \cup Fetched(u) \cup Locked(u)) = {}
    /\ InBatch(u) \cap (Boxed(u) \cup Fetched(u) \cup Locked(u)) = {}
    /\ Boxed(u) \cap (Fetched(u) \cup Locked(u)) = {}
    /\ Fetched(u) \cap Locked(u) = {}

\* A message of u that was accepted waits, is done or is gone.
OneFate(u) ==
    /\ Served(u) \subseteq Locked(u) \cap Done
    /\ Waits(u) \cap (Done \cup LostMsgs) = {}
    /\ Mine(u) \cap Done \cap LostMsgs = {}
    /\ Mine(u) \cap seen = Waits(u) \cup (Mine(u) \cap (Done \cup LostMsgs))

UserFates(u) ==
    /\ Orderly(fetching[u])
    /\ Orderly(lockq[u])
    /\ OnePlace(u)
    /\ OneFate(u)

\* A task is what the webhook made of its message.
TasksOfHook == \A t \in disp : t.src = "hook" /\ t.kind = Kind[t.id]

FedOnce == \A m \in Msgs : fed[m] <= 1

FateInv ==
    /\ TasksOfHook
    /\ FedOnce
    /\ \A u \in Users : UserFates(u)

Lasts(q) == {q[i].last : i \in DOMAIN q}

HookLasts(q) == {q[i].last : i \in {j \in DOMAIN q : q[j].src = "hook"}}

\* The records of the messages of u.
UserRecords(u) == inFlight \cap Mine(u) = Lasts(fetching[u]) \cup Lasts(lockq[u])

UserEntries(u) ==
    Room(u) \cup HookLasts(fetching[u]) \cup HookLasts(lockq[u]) \subseteq rInbox

-----------------------------------------------------------------------------
(* Queues of calls *)

\* What is left when one element leaves a sequence, and in which order.
LEMMA RemoveAtElements ==
    ASSUME NEW S, NEW s \in Seq(S), NEW i \in DOMAIN s
    PROVE  /\ Len(RemoveAt(s, i)) = Len(s) - 1
           /\ \A j \in 1..(Len(s) - 1) :
                 RemoveAt(s, i)[j] = s[IF j < i THEN j ELSE j + 1]
<1> DEFINE a == SubSeq(s, 1, i - 1)
           b == SubSeq(s, i + 1, Len(s))
           n == Len(s)
<1>1. n \in Nat /\ i \in 1..n
    BY LenProperties
<1>2. /\ a \in Seq(S) /\ Len(a) = i - 1
      /\ \A j \in 1..(i - 1) : a[j] = s[j]
    <2>1. \A j \in 1..(i - 1) : s[j] \in S
        BY <1>1, ElementOfSeq
    <2> QED BY <1>1, <2>1, SubSeqProperties
<1>3. /\ b \in Seq(S) /\ Len(b) = n - i
      /\ \A j \in 1..(n - i) : b[j] = s[i + j]
    <2>1. \A j \in (i + 1)..n : s[j] \in S
        BY <1>1, ElementOfSeq
    <2>2. /\ b \in Seq(S)
          /\ Len(b) = IF i + 1 <= n THEN n - (i + 1) + 1 ELSE 0
          /\ \A j \in 1..(n - (i + 1) + 1) : b[j] = s[(i + 1) + j - 1]
        BY <1>1, <2>1, SubSeqProperties
    <2> QED BY <1>1, <2>2
<1> HIDE DEF a, b, n
<1> DEFINE c == a \o b
<1>4. /\ Len(c) = Len(a) + Len(b)
      /\ \A j \in 1..(Len(a) + Len(b)) : c[j] = IF j <= Len(a) THEN a[j] ELSE b[j - Len(a)]
    BY <1>2, <1>3, ConcatProperties
<1> HIDE DEF c
<1>5. /\ Len(c) = n - 1
      /\ \A j \in 1..(n - 1) : c[j] = s[IF j < i THEN j ELSE j + 1]
    <2>1. /\ Len(c) = n - 1
          /\ \A j \in 1..(n - 1) : c[j] = IF j <= i - 1 THEN a[j] ELSE b[j - (i - 1)]
        <3>1. Len(a) = i - 1 /\ Len(b) = n - i /\ Len(a) + Len(b) = n - 1
            BY <1>1, <1>2, <1>3
        <3>2. Len(c) = n - 1
            BY <1>4, <3>1
        <3>3. \A j \in 1..(n - 1) : c[j] = IF j <= Len(a) THEN a[j] ELSE b[j - Len(a)]
            BY <1>4, <3>1
        <3> QED BY <3>1, <3>2, <3>3
    <2>2. ASSUME NEW j \in 1..(n - 1)
          PROVE  c[j] = s[IF j < i THEN j ELSE j + 1]
        <3>1. CASE j < i
            BY <1>1, <1>2, <2>1, <3>1
        <3>2. CASE ~(j < i)
            <4> DEFINE k == j - (i - 1)
            <4>1. k \in 1..(n - i) /\ i + k = j + 1 /\ ~(j <= i - 1)
                BY <1>1, <3>2
            <4>2. c[j] = b[k]
                BY <2>1, <4>1
            <4> HIDE DEF k
            <4>3. b[k] = s[i + k]
                BY <1>3, <4>1
            <4> QED BY <3>2, <4>1, <4>2, <4>3
        <3> QED BY <3>1, <3>2
    <2> QED BY <2>1, <2>2
<1>6. RemoveAt(s, i) = c
    BY DEF RemoveAt, a, b, c, n
<1> QED BY <1>5, <1>6 DEF n

\* A batch holds messages.
LEMMA IdsType ==
    ASSUME NEW batch \in Seq(Entry)
    PROVE  Ids(batch) \subseteq Msgs
<1>1. \A i \in DOMAIN batch : batch[i] \in Entry
    OBVIOUS
<1> QED BY <1>1 DEF Ids, Entry

\* When one call leaves a queue, its messages leave with it and all others
\* stay.
LEMMA CallLeaves ==
    ASSUME NEW q \in Seq(Call), Orderly(q), NEW i \in DOMAIN q,
           NEW r \in Seq(Call), Len(r) = Len(q) - 1,
           \A j \in 1..Len(r) : r[j] = q[IF j < i THEN j ELSE j + 1]
    PROVE  /\ Orderly(r)
           /\ CallsIn(r) = CallsIn(q) \ Ids(q[i].batch)
           /\ Lasts(r) = Lasts(q) \ {q[i].last}
           /\ HookLasts(r) \subseteq HookLasts(q) \ {q[i].last}
<1> DEFINE n == Len(q)
           f(j) == IF j < i THEN j ELSE j + 1
<1>1. n \in Nat /\ DOMAIN q = 1..n /\ DOMAIN r = 1..(n - 1) /\ Len(r) = n - 1
    BY LenProperties
<1>2. \A j \in DOMAIN r : f(j) \in DOMAIN q /\ f(j) # i /\ r[j] = q[f(j)]
    BY <1>1
<1>3. \A k \in DOMAIN q : k # i => \E j \in DOMAIN r : f(j) = k
    <2> TAKE k \in DOMAIN q
    <2> HAVE k # i
    <2>1. CASE k < i
        BY <1>1, <2>1
    <2>2. CASE k > i
        <3>1. k - 1 \in DOMAIN r /\ f(k - 1) = k
            BY <1>1, <2>2
        <3> QED BY <3>1
    <2> QED BY <1>1, <2>1, <2>2
<1>4. \A j, k \in DOMAIN r : f(j) = f(k) => j = k
    BY <1>1
<1>5. \A k \in DOMAIN q : k # i => \E j \in DOMAIN r : r[j] = q[k]
    BY <1>2, <1>3
<1>6. \A k \in DOMAIN q : q[k].last \in Msgs /\ q[k].last \in Ids(q[k].batch)
    <2>1. \A k \in DOMAIN q : q[k] \in Call
        OBVIOUS
    <2> QED BY <2>1 DEF Orderly, Call
<1> HIDE DEF n, f
<1>7. Orderly(r)
    BY <1>2, <1>4 DEF Orderly
<1>8. CallsIn(r) = CallsIn(q) \ Ids(q[i].batch)
    <2>1. ASSUME NEW m \in CallsIn(r)
          PROVE  m \in CallsIn(q) \ Ids(q[i].batch)
        BY <1>2, <2>1 DEF CallsIn, Orderly
    <2>2. ASSUME NEW m \in CallsIn(q), m \notin Ids(q[i].batch)
          PROVE  m \in CallsIn(r)
        <3>1. PICK k \in DOMAIN q : m \in Ids(q[k].batch)
            BY DEF CallsIn
        <3>2. PICK j \in DOMAIN r : r[j] = q[k]
            BY <1>5, <2>2, <3>1
        <3> QED BY <3>1, <3>2 DEF CallsIn
    <2> QED BY <2>1, <2>2
<1>9. \A k \in DOMAIN q : q[k].last = q[i].last => k = i
    BY <1>6 DEF Orderly
<1>10. Lasts(r) = Lasts(q) \ {q[i].last}
    <2>1. \A j \in DOMAIN r : r[j].last \in Lasts(q) \ {q[i].last}
        BY <1>2, <1>9 DEF Lasts
    <2>2. \A k \in DOMAIN q : k # i => q[k].last \in Lasts(r)
        BY <1>5 DEF Lasts
    <2>3. Lasts(q) \ {q[i].last} \subseteq Lasts(r)
        BY <2>2 DEF Lasts
    <2> QED BY <2>1, <2>3 DEF Lasts
<1>11. HookLasts(r) \subseteq HookLasts(q) \ {q[i].last}
    BY <1>2, <1>9 DEF HookLasts
<1> QED BY <1>7, <1>8, <1>10, <1>11

\* A call that is removed from the fetching ones.
LEMMA CallRemoved ==
    ASSUME NEW q \in Seq(Call), Orderly(q), NEW i \in DOMAIN q
    PROVE  /\ Orderly(RemoveAt(q, i))
           /\ CallsIn(RemoveAt(q, i)) = CallsIn(q) \ Ids(q[i].batch)
           /\ Lasts(RemoveAt(q, i)) = Lasts(q) \ {q[i].last}
           /\ HookLasts(RemoveAt(q, i)) \subseteq HookLasts(q) \ {q[i].last}
<1> DEFINE r == RemoveAt(q, i)
<1>1. r \in Seq(Call) /\ Len(r) = Len(q) - 1
    BY RemoveAtType, RemoveAtElements
<1>2. \A j \in 1..Len(r) : r[j] = q[IF j < i THEN j ELSE j + 1]
    BY <1>1, RemoveAtElements
<1> HIDE DEF r
<1>3. /\ Orderly(r)
      /\ CallsIn(r) = CallsIn(q) \ Ids(q[i].batch)
      /\ Lasts(r) = Lasts(q) \ {q[i].last}
      /\ HookLasts(r) \subseteq HookLasts(q) \ {q[i].last}
    BY <1>1, <1>2, CallLeaves
<1> QED BY <1>3 DEF r

\* The holder of a lock leaves.
LEMMA HolderLeaves ==
    ASSUME NEW q \in Seq(Call), Orderly(q), q # <<>>
    PROVE  /\ Orderly(Tail(q))
           /\ CallsIn(Tail(q)) = CallsIn(q) \ Ids(Head(q).batch)
           /\ Lasts(Tail(q)) = Lasts(q) \ {Head(q).last}
           /\ HookLasts(Tail(q)) \subseteq HookLasts(q) \ {Head(q).last}
<1> DEFINE r == Tail(q)
<1>1. /\ r \in Seq(Call) /\ Len(r) = Len(q) - 1
      /\ \A j \in 1..Len(r) : r[j] = q[j + 1]
    BY HeadTailProperties
<1>2. 1 \in DOMAIN q /\ Head(q) = q[1]
    BY EmptySeq
<1>3. \A j \in 1..Len(r) : r[j] = q[IF j < 1 THEN j ELSE j + 1]
    BY <1>1
<1> HIDE DEF r
<1>4. /\ Orderly(r)
      /\ CallsIn(r) = CallsIn(q) \ Ids(q[1].batch)
      /\ Lasts(r) = Lasts(q) \ {q[1].last}
      /\ HookLasts(r) \subseteq HookLasts(q) \ {q[1].last}
    BY <1>1, <1>2, <1>3, CallLeaves
<1> QED BY <1>2, <1>4 DEF r

\* A call queues up behind the others.
LEMMA CallEnters ==
    ASSUME NEW q \in Seq(Call), Orderly(q), NEW c \in Call,
           c.last \in Ids(c.batch), CallsIn(q) \cap Ids(c.batch) = {}
    PROVE  /\ Orderly(Append(q, c))
           /\ CallsIn(Append(q, c)) = CallsIn(q) \cup Ids(c.batch)
           /\ Lasts(Append(q, c)) = Lasts(q) \cup {c.last}
           /\ HookLasts(Append(q, c)) \subseteq HookLasts(q) \cup {c.last}
           /\ c.src # "hook" => HookLasts(Append(q, c)) \subseteq HookLasts(q)
           /\ q # <<>> => Head(Append(q, c)) = Head(q)
<1> DEFINE n == Len(q)
           r == Append(q, c)
<1>1. /\ n \in Nat /\ DOMAIN q = 1..n /\ DOMAIN r = 1..(n + 1)
      /\ \A i \in 1..n : r[i] = q[i]
      /\ r[n + 1] = c
    BY LenProperties, AppendProperties
<1>2. q # <<>> => Head(r) = Head(q)
    <2> SUFFICES ASSUME q # <<>> PROVE Head(r) = Head(q)
        OBVIOUS
    <2>1. n \in Nat \ {0}
        BY EmptySeq
    <2>2. r[1] = q[1]
        BY <1>1, <2>1
    <2> QED BY <2>2
<1>3. Ids(c.batch) \subseteq Msgs
    BY IdsType DEF Call
<1> HIDE DEF n, r
<1>4. \A m \in Msgs, i \in DOMAIN q :
              m \in Ids(q[i].batch) => m \notin Ids(c.batch)
    BY DEF CallsIn
<1>5. Orderly(r)
    <2>1. \A i \in DOMAIN r : r[i].last \in Ids(r[i].batch)
        BY <1>1 DEF Orderly
    <2>2. ASSUME NEW i \in DOMAIN r, NEW j \in DOMAIN r, NEW m \in Msgs,
                 m \in Ids(r[i].batch), m \in Ids(r[j].batch)
          PROVE  i = j
        <3>1. CASE i \in 1..n /\ j \in 1..n
            BY <1>1, <2>2, <3>1 DEF Orderly
        <3>2. CASE i = n + 1 \/ j = n + 1
            BY <1>1, <1>4, <2>2, <3>2
        <3> QED BY <1>1, <3>1, <3>2
    <2> QED BY <2>1, <2>2 DEF Orderly
<1>6. CallsIn(r) = CallsIn(q) \cup Ids(c.batch)
    BY <1>1, <1>3 DEF CallsIn
<1>7. Lasts(r) = Lasts(q) \cup {c.last}
    BY <1>1 DEF Lasts
<1>8. /\ HookLasts(r) \subseteq HookLasts(q) \cup {c.last}
      /\ c.src # "hook" => HookLasts(r) \subseteq HookLasts(q)
    BY <1>1 DEF HookLasts
<1> QED BY <1>2, <1>5, <1>6, <1>7, <1>8 DEF r

\* The identities of what is appended.
LEMMA IdsAppend ==
    ASSUME NEW s \in Seq(Entry), NEW e \in Entry
    PROVE  Ids(Append(s, e)) = Ids(s) \cup {e.id}
<1> DEFINE n == Len(s)
           r == Append(s, e)
<1>1. /\ n \in Nat /\ DOMAIN s = 1..n /\ DOMAIN r = 1..(n + 1)
      /\ \A i \in 1..n : r[i] = s[i]
      /\ r[n + 1] = e
    BY LenProperties, AppendProperties
<1> HIDE DEF n, r
<1>2. Ids(r) = Ids(s) \cup {e.id}
    BY <1>1 DEF Ids
<1> QED BY <1>2 DEF r

LEMMA ConsumedAppend ==
    ASSUME NEW s \in Seq(Item), NEW x \in Item, x.part = "message"
    PROVE  Consumed(Append(s, x)) = Consumed(s) \cup {x.id}
<1> DEFINE n == Len(s)
           r == Append(s, x)
<1>1. /\ n \in Nat /\ DOMAIN s = 1..n /\ DOMAIN r = 1..(n + 1)
      /\ \A i \in 1..n : r[i] = s[i]
      /\ r[n + 1] = x
    BY LenProperties, AppendProperties
<1> HIDE DEF n, r
<1>2. Consumed(r) = Consumed(s) \cup {x.id}
    BY <1>1 DEF Consumed
<1> QED BY <1>2 DEF r

\* Media in a mailbox are no messages of their own.
LEMMA ConsumedMedia ==
    ASSUME NEW s \in Seq(Item), NEW t \in Seq(Medium)
    PROVE  Consumed(s \o t) = Consumed(s)
<1> DEFINE n == Len(s)
           k == Len(t)
           r == s \o t
<1>1. /\ n \in Nat /\ DOMAIN s = 1..n
      /\ k \in Nat /\ DOMAIN t = 1..k
    BY LenProperties
<1>2. t \in Seq(Item)
    <2>1. Medium \subseteq Item
        BY DEF Medium, Item
    <2> QED BY <2>1, SeqMonotonic
<1>3. /\ r \in Seq(Item) /\ Len(r) = n + k
      /\ \A i \in 1..(n + k) : r[i] = IF i <= n THEN s[i] ELSE t[i - n]
    BY <1>2, ConcatProperties
<1>4. DOMAIN r = 1..(n + k)
    BY <1>3, LenProperties
<1>5. \A i \in 1..k : t[i].part = "media"
    <2>1. \A i \in 1..k : t[i] \in Medium
        BY <1>1, ElementOfSeq
    <2> QED BY <2>1 DEF Medium
<1> HIDE DEF n, k, r
<1>6. \A i \in 1..(n + k) : r[i].part = "message" => i \in 1..n
    <2> TAKE i \in 1..(n + k)
    <2>1. CASE i > n
        <3>1. i - n \in 1..k /\ r[i] = t[i - n]
            BY <1>1, <1>3, <2>1
        <3> QED BY <1>5, <3>1
    <2> QED BY <1>1, <2>1
<1>7. \A i \in 1..n : i \in 1..(n + k) /\ r[i] = s[i]
    BY <1>1, <1>3
<1>8. Consumed(r) = Consumed(s)
    BY <1>1, <1>4, <1>6, <1>7 DEF Consumed
<1> QED BY <1>8 DEF r

-----------------------------------------------------------------------------
(* Messages on their way *)

\* A step that does not touch the messages of user v.
Same(v) ==
    /\ Room(v)' = Room(v)
    /\ InBatch(v)' = InBatch(v)
    /\ Boxed(v)' = Boxed(v)
    /\ fetching[v]' = fetching[v]
    /\ lockq[v]' = lockq[v]
    /\ Served(v)' = Served(v)
    /\ \A m \in Mine(v) :
          /\ m \in seen' <=> m \in seen
          /\ m \in Done' <=> m \in Done
          /\ m \in LostMsgs' <=> m \in LostMsgs

LEMMA SameFates ==
    ASSUME NEW v \in Users, UserFates(v), Same(v)
    PROVE  UserFates(v)' /\ Waits(v)' = Waits(v)
<1>1. Fetched(v)' = Fetched(v) /\ Locked(v)' = Locked(v)
    BY DEF Same, Fetched, Locked
<1>2. Orderly(fetching[v])' /\ Orderly(lockq[v])'
    BY DEF Same, UserFates, Orderly
<1>3. Mine(v)' = Mine(v)
    BY DEF Mine
<1>4. Waits(v)' = Waits(v)
    BY <1>1 DEF Same, Waits
<1>5. OnePlace(v)'
    BY <1>1, <1>3 DEF Same, UserFates, OnePlace
<1>6. OneFate(v)'
    <2>1. Room(v) \subseteq Mine(v)
        BY DEF Room
    <2>2. Waits(v) \subseteq Mine(v) /\ Locked(v) \subseteq Mine(v)
        BY <2>1 DEF Waits, UserFates, OnePlace
    <2> QED BY <1>1, <1>3, <1>4, <2>2 DEF Same, UserFates, OneFate
<1> QED BY <1>2, <1>4, <1>5, <1>6 DEF UserFates

\* What a step other than the webhook's does to the messages: some of those of
\* u that wait are done, or are dropped.
Moves(u, S) ==
    /\ S \subseteq Waits(u)
    /\ Waits(u)' = Waits(u) \ S
    /\ \A v \in Users \ {u} : Waits(v)' = Waits(v)
    /\ \/ Done' = Done \cup S /\ LostMsgs' = LostMsgs
       \/ Done' = Done /\ LostMsgs' = LostMsgs \cup S

\* What the webhook does to them.
Accepts(m) ==
    /\ m \notin seen
    /\ \A v \in Users : Waits(v)' = IF v = Sender[m] THEN Waits(v) \cup {m} ELSE Waits(v)
    /\ Done' = Done
    /\ LostMsgs' = LostMsgs

Rests ==
    /\ \A v \in Users : Waits(v)' = Waits(v)
    /\ Done' = Done
    /\ LostMsgs' = LostMsgs

FateStep ==
    /\ FateInv'
    /\ Rests \/ (\E m \in Msgs : Accepts(m)) \/ (\E u \in Users : \E S : Moves(u, S))

LEMMA FeedOnce ==
    ASSUME TypeOK, FedOnce, NEW ms \in SUBSET Msgs, ms \cap Fed = {}, Feed(ms)
    PROVE  FedOnce' /\ Fed' = Fed \cup ms
<1>1. \A m \in Msgs : fed[m] \in 0..1 /\ fed'[m] = IF m \in ms /\ fed[m] < 2 THEN fed[m] + 1 ELSE fed[m]
    BY DEF TypeOK, FedOnce, Feed, FedCap
<1>2. \A m \in ms : fed[m] = 0
    BY <1>1 DEF Fed
<1>3. FedOnce'
    BY <1>1, <1>2 DEF FedOnce
<1>4. Fed' = Fed \cup ms
    BY <1>1, <1>2 DEF Fed
<1> QED BY <1>3, <1>4

LEMMA MailLost ==
    ASSUME TypeOK, NEW u \in Users, lost' = lost \cup ToSet(sess[u])
    PROVE  LostMsgs' = LostMsgs \cup Consumed(sess[u])
<1> QED BY DEF LostMsgs, Consumed, ToSet

LEMMA ConsumedType ==
    ASSUME NEW s \in Seq(Item)
    PROVE  Consumed(s) \subseteq Msgs
<1>1. \A i \in DOMAIN s : s[i] \in Item
    OBVIOUS
<1> QED BY <1>1 DEF Consumed, Item

\* A task leaves the dispatch: its message was there once.
LEMMA TaskLeaves ==
    ASSUME TypeOK, TasksOfHook, NEW t \in disp, disp' = disp \ {t}
    PROVE  /\ t.id \in Msgs /\ Sender[t.id] \in Users
           /\ t.id \in Room(Sender[t.id])
           /\ TasksOfHook'
           /\ \A v \in Users : Room(v)' = Room(v) \ {t.id}
<1>1. t \in Task /\ t.id \in Msgs /\ Sender[t.id] \in Users
    BY PipelineAssumption DEF TypeOK, Task
<1>2. \A s \in disp : s.id = t.id => s = t
    <2>1. \A s \in Task : s = [id |-> s.id, src |-> s.src, kind |-> s.kind]
        BY DEF Task
    <2>2. \A s \in disp : s \in Task /\ s.src = "hook" /\ s.kind = Kind[s.id]
        BY DEF TypeOK, TasksOfHook
    <2> QED BY <2>1, <2>2
<1>3. \A v \in Users : Room(v)' = Room(v) \ {t.id}
    BY <1>2 DEF Room, Mine
<1>4. TasksOfHook'
    BY DEF TasksOfHook
<1> QED BY <1>1, <1>3, <1>4 DEF Room, Mine

\* What one user has is not another's.
LEMMA Apart ==
    ASSUME NEW u, NEW v, u # v, NEW m \in Mine(v)
    PROVE  m \notin Mine(u)
<1> QED BY DEF Mine

\* The webhook accepts a message once.
LEMMA WebhookFates ==
    ASSUME TypeOK, FateInv, NEW m \in Msgs, Webhook(m)
    PROVE  FateStep
<1> DEFINE u == Sender[m]
<1>0. u \in Users /\ m \in Mine(u)
    BY PipelineAssumption DEF Mine
<1>1. UNCHANGED <<userVars, fed, closed, lost>>
    BY DEF Webhook
<1>2. Done' = Done /\ LostMsgs' = LostMsgs /\ FedOnce'
    BY <1>1 DEF Done, Fed, LostMsgs, FateInv, FedOnce
<1>3. \A v \in Users : /\ InBatch(v)' = InBatch(v) /\ Boxed(v)' = Boxed(v)
                       /\ fetching[v]' = fetching[v] /\ lockq[v]' = lockq[v]
                       /\ Served(v)' = Served(v)
    BY <1>1 DEF InBatch, Boxed, Served, userVars
<1>4. CASE m \in seen
    <2>1. disp' = disp /\ seen' = seen
        BY <1>4 DEF Webhook
    <2>2. ASSUME NEW v \in Users
          PROVE  Same(v)
        BY <1>2, <1>3, <2>1 DEF Same, Room
    <2>3. TasksOfHook'
        BY <2>1 DEF FateInv, TasksOfHook
    <2> QED BY <1>2, <2>2, <2>3, SameFates DEF FateInv, FateStep, Rests
<1>5. CASE m \notin seen
    <2>1. /\ disp' = disp \cup {[id |-> m, src |-> "hook", kind |-> Kind[m]]}
          /\ seen' = seen \cup {m}
        BY <1>5 DEF Webhook
    <2>2. TasksOfHook'
        BY <2>1 DEF FateInv, TasksOfHook
    <2>3. Room(u)' = Room(u) \cup {m}
        <3> DEFINE t == [id |-> m, src |-> "hook", kind |-> Kind[m]]
        <3>1. t.id = m /\ disp' = disp \cup {t}
            BY <2>1
        <3> HIDE DEF t, u
        <3> QED BY <1>0, <3>1 DEF Room, Mine
    <2>4. ASSUME NEW v \in Users, v # u
          PROVE  Same(v)
        <3>1. m \notin Mine(v)
            BY <1>0, <2>4, Apart
        <3>2. Room(v)' = Room(v)
            BY <2>1, <3>1 DEF Room
        <3> QED BY <1>2, <1>3, <2>1, <3>1, <3>2 DEF Same
    <2>5. UserFates(u)
        BY <1>0 DEF FateInv
    <2> HIDE DEF u
    <2>6. Fetched(u)' = Fetched(u) /\ Locked(u)' = Locked(u) /\ Mine(u)' = Mine(u)
        BY <1>0, <1>3 DEF Fetched, Locked, Mine
    <2>7. m \notin Waits(u) /\ m \notin Done /\ m \notin LostMsgs
        BY <1>0, <1>5, <2>5 DEF UserFates, OneFate
    <2>8. m \notin Locked(u) /\ Room(u) \subseteq Mine(u)
        BY <2>5, <2>7 DEF UserFates, OneFate, Waits, Room
    <2>9. Waits(u)' = Waits(u) \cup {m}
        BY <1>0, <1>3, <2>3, <2>6 DEF Waits
    <2>10. Orderly(fetching[u])' /\ Orderly(lockq[u])'
        BY <1>0, <1>3, <2>5 DEF UserFates, Orderly
    <2>11. OnePlace(u)'
        BY <1>0, <1>3, <2>3, <2>5, <2>6, <2>7, <2>8 DEF UserFates, OnePlace, Waits
    <2>12. OneFate(u)'
        BY <1>0, <1>2, <1>3, <2>1, <2>5, <2>6, <2>7, <2>9 DEF UserFates, OneFate
    <2>13. UserFates(u)'
        BY <2>10, <2>11, <2>12 DEF UserFates
    <2>14. \A v \in Users : UserFates(v)'
        BY <2>4, <2>13, SameFates DEF FateInv
    <2>15. \A v \in Users : Waits(v)' = IF v = u THEN Waits(v) \cup {m} ELSE Waits(v)
        BY <2>4, <2>9, SameFates DEF FateInv
    <2> QED BY <1>2, <1>5, <2>2, <2>14, <2>15 DEF FateInv, FateStep, Accepts, u
<1> QED BY <1>4, <1>5

\* The messages of u alone are concerned by its own steps.
LEMMA ActorStep ==
    ASSUME FateInv, NEW u \in Users, NEW S, Moves(u, S), UserFates(u)',
           TasksOfHook', FedOnce', \A v \in Users \ {u} : Same(v)
    PROVE  FateStep
<1>1. \A v \in Users \ {u} : UserFates(v)'
    BY SameFates DEF FateInv
<1> QED BY <1>1 DEF FateInv, FateStep

\* Steps that leave every message where it is.
LEMMA RestingStep ==
    ASSUME FateInv, UNCHANGED <<disp, seen, fetching, lockq, fed, closed>>,
           LostMsgs' = LostMsgs,
           \A v \in Users : /\ InBatch(v)' = InBatch(v)
                            /\ Boxed(v)' = Boxed(v)
                            /\ Served(v)' = Served(v)
    PROVE  FateStep
<1>1. Done' = Done
    BY DEF Done, Fed
<1>2. TasksOfHook' /\ FedOnce'
    BY DEF FateInv, TasksOfHook, FedOnce
<1>3. \A v \in Users : Same(v)
    BY <1>1 DEF Same, Room
<1>4. \A v \in Users : UserFates(v)' /\ Waits(v)' = Waits(v)
    BY <1>3, SameFates DEF FateInv
<1> QED BY <1>1, <1>2, <1>4 DEF FateInv, FateStep, Rests

\* A message reaches the batch or the mailbox of its sender.
LEMMA EnqueueFates ==
    ASSUME TypeOK, FateInv, NEW t \in disp, DispatchEnqueue(t)
    PROVE  FateStep
<1> DEFINE m == t.id
           u == Sender[t.id]
<1>1. disp' = disp \ {t}
    BY DEF DispatchEnqueue
<1>2. /\ m \in Msgs /\ u \in Users /\ m \in Room(u)
      /\ TasksOfHook' /\ \A v \in Users : Room(v)' = Room(v) \ {m}
    BY <1>1, TaskLeaves DEF FateInv
<1>3. PICK k \in IF t.kind = "media" THEN 0..MediaCap ELSE {0} :
             Enqueue(u, [id |-> m, media |-> k])
    BY DEF DispatchEnqueue
<1>4. [id |-> m, media |-> k] \in Entry /\ [id |-> m, part |-> "message"] \in Item
    BY <1>2, <1>3 DEF Entry, Item, MediaCap
<1> DEFINE e == [id |-> m, media |-> k]
           x == [id |-> m, part |-> "message"]
<1>5. e.id = m /\ x.id = m /\ x.part = "message"
    OBVIOUS
<1>6. Enqueue(u, e) /\ e \in Entry /\ x = [id |-> e.id, part |-> "message"] /\ x \in Item
    BY <1>3, <1>4
<1>7. /\ UNCHANGED <<seen, inject, fetching, lockq, phase, fed, closed, lost>>
    BY DEF DispatchEnqueue
<1>8. Done' = Done /\ LostMsgs' = LostMsgs /\ FedOnce'
    BY <1>7 DEF Done, Fed, LostMsgs, FateInv, FedOnce
<1> HIDE DEF m, u, e, x
<1>9. \/ InBatch(u)' = InBatch(u) \cup {m} /\ Boxed(u)' = Boxed(u)
      \/ InBatch(u)' = InBatch(u) /\ Boxed(u)' = Boxed(u) \cup {m}
    <2>1. CASE active[u]
        <3>1. sess'[u] = Append(sess[u], x) /\ pend' = pend
            BY <1>2, <1>6, <2>1 DEF Enqueue, TypeOK
        <3>2. Consumed(Append(sess[u], x)) = Consumed(sess[u]) \cup {m}
            BY <1>2, <1>5, <1>6, ConsumedAppend DEF TypeOK
        <3> QED BY <3>1, <3>2 DEF InBatch, Boxed
    <2>2. CASE ~active[u]
        <3>1. pend'[u] = Append(pend[u], e) /\ sess' = sess
            BY <1>2, <1>6, <2>2 DEF Enqueue, TypeOK
        <3>2. Ids(Append(pend[u], e)) = Ids(pend[u]) \cup {m}
            BY <1>2, <1>5, <1>6, IdsAppend DEF TypeOK
        <3> QED BY <3>1, <3>2 DEF InBatch, Boxed
    <2> QED BY <2>1, <2>2
<1>10. ASSUME NEW v \in Users \ {u}
       PROVE  Same(v)
    <2>1. pend'[v] = pend[v] /\ sess'[v] = sess[v]
        BY <1>2, <1>6 DEF Enqueue, TypeOK
    <2>2. m \in Mine(u) /\ m \notin Mine(v)
        BY <1>2, Apart DEF Room
    <2>3. Room(v)' = Room(v)
        BY <1>2, <2>2 DEF Room
    <2> QED BY <1>7, <1>8, <2>1, <2>3 DEF Same, InBatch, Boxed, Served
<1>11. /\ Fetched(u)' = Fetched(u) /\ Locked(u)' = Locked(u)
       /\ Served(u)' = Served(u) /\ Mine(u)' = Mine(u)
    BY <1>7 DEF Fetched, Locked, Served, Mine
<1>12. UserFates(u) /\ Room(u) \subseteq Mine(u)
    BY <1>2 DEF FateInv, Room
<1>13. Orderly(fetching[u])' /\ Orderly(lockq[u])'
    BY <1>7, <1>12 DEF UserFates, Orderly
<1>14. Room(u)' = Room(u) \ {m}
    BY <1>2
<1>15. Waits(u)' = Waits(u)
    BY <1>2, <1>9, <1>11, <1>14 DEF Waits
<1>16. OnePlace(u)'
    BY <1>2, <1>9, <1>11, <1>12, <1>14 DEF OnePlace, UserFates
<1>17. OneFate(u)'
    BY <1>7, <1>8, <1>11, <1>12, <1>15 DEF OneFate, UserFates
<1>18. Moves(u, {})
    BY <1>8, <1>10, <1>15, SameFates DEF Moves, FateInv
<1> QED BY <1>2, <1>8, <1>10, <1>13, <1>16, <1>17, <1>18, ActorStep DEF UserFates

\* A message is answered inside its dispatch.
LEMMA ReplyFates ==
    ASSUME TypeOK, FateInv, NEW t \in disp, DispatchReply(t)
    PROVE  FateStep
<1> DEFINE m == t.id
           u == Sender[t.id]
<1>1. disp' = disp \ {t} /\ closed' = closed \cup {m}
      /\ UNCHANGED <<seen, userVars, fed, lost>>
    BY DEF DispatchReply
<1>2. /\ m \in Msgs /\ u \in Users /\ m \in Room(u)
      /\ TasksOfHook' /\ \A v \in Users : Room(v)' = Room(v) \ {m}
    BY <1>1, TaskLeaves DEF FateInv
<1> HIDE DEF m, u
<1>3. Done' = Done \cup {m} /\ LostMsgs' = LostMsgs /\ FedOnce'
    BY <1>1 DEF Done, Fed, LostMsgs, FateInv, FedOnce
<1>4. \A v \in Users : /\ InBatch(v)' = InBatch(v) /\ Boxed(v)' = Boxed(v)
                       /\ fetching[v]' = fetching[v] /\ lockq[v]' = lockq[v]
                       /\ Served(v)' = Served(v)
    BY <1>1 DEF InBatch, Boxed, Served, userVars
<1>5. ASSUME NEW v \in Users \ {u}
       PROVE  Same(v)
    <2>1. m \in Mine(u) /\ m \notin Mine(v)
        BY <1>2, Apart DEF Room
    <2>2. Room(v)' = Room(v)
        BY <1>2, <2>1 DEF Room
    <2> QED BY <1>1, <1>3, <1>4, <2>1, <2>2 DEF Same
<1>6. /\ Fetched(u)' = Fetched(u) /\ Locked(u)' = Locked(u)
      /\ InBatch(u)' = InBatch(u) /\ Boxed(u)' = Boxed(u)
      /\ Served(u)' = Served(u) /\ Mine(u)' = Mine(u)
    BY <1>2, <1>4 DEF Fetched, Locked, Mine
<1>7. UserFates(u) /\ Room(u) \subseteq Mine(u)
    BY <1>2 DEF FateInv, Room
<1>8. Orderly(fetching[u])' /\ Orderly(lockq[u])'
    BY <1>2, <1>4, <1>7 DEF UserFates, Orderly
<1>9. Room(u)' = Room(u) \ {m}
    BY <1>2
<1>10. Waits(u)' = Waits(u) \ {m} /\ m \in Waits(u)
    BY <1>2, <1>6, <1>7, <1>9 DEF Waits, OnePlace, UserFates
<1>11. OnePlace(u)'
    BY <1>6, <1>7, <1>9 DEF OnePlace, UserFates
<1>12. OneFate(u)'
    BY <1>1, <1>2, <1>3, <1>6, <1>7, <1>10 DEF OneFate, UserFates
<1>13. Moves(u, {m})
    BY <1>3, <1>5, <1>10, SameFates DEF Moves, FateInv
<1> QED BY <1>2, <1>3, <1>5, <1>8, <1>11, <1>12, <1>13, ActorStep DEF UserFates

\* A call comes in: its messages are now with the calls that fetch or wait, and
\* the holder of the lock stays.
LEMMA CallStarts ==
    ASSUME TypeOK, SessionOwnsLock, NEW u \in Users, UserFates(u),
           NEW c \in Call, c.last \in Ids(c.batch),
           Ids(c.batch) \cap (Fetched(u) \cup Locked(u)) = {}, StartCall(u, c)
    PROVE  /\ Orderly(fetching[u])' /\ Orderly(lockq[u])'
           /\ \/ Fetched(u)' = Fetched(u) \cup Ids(c.batch) /\ Locked(u)' = Locked(u)
              \/ Fetched(u)' = Fetched(u) /\ Locked(u)' = Locked(u) \cup Ids(c.batch)
           /\ Served(u)' = Served(u)
           /\ \A v \in Users \ {u} :
                 /\ fetching'[v] = fetching[v] /\ lockq'[v] = lockq[v]
                 /\ phase'[v] = phase[v]
<1>1. /\ fetching[u] \in Seq(Call) /\ lockq[u] \in Seq(Call)
      /\ Orderly(fetching[u]) /\ Orderly(lockq[u])
    BY DEF TypeOK, UserFates
<1>2. CallsIn(fetching[u]) \cap Ids(c.batch) = {} /\ CallsIn(lockq[u]) \cap Ids(c.batch) = {}
    BY DEF Fetched, Locked
<1>3. phase[u] = "free" <=> lockq[u] = <<>>
    BY DEF SessionOwnsLock
<1>4. \A v \in Users \ {u} : /\ fetching'[v] = fetching[v] /\ lockq'[v] = lockq[v]
                             /\ phase'[v] = phase[v]
    BY DEF StartCall, TypeOK
<1>5. CASE c.last \in Group
    <2>1. fetching'[u] = Append(fetching[u], c) /\ lockq' = lockq /\ phase' = phase
        BY <1>5 DEF StartCall, TypeOK
    <2>2. /\ Orderly(Append(fetching[u], c))
          /\ CallsIn(Append(fetching[u], c)) = CallsIn(fetching[u]) \cup Ids(c.batch)
        BY <1>1, <1>2, CallEnters
    <2>3. Orderly(fetching[u])' /\ Orderly(lockq[u])'
        BY <1>1, <2>1, <2>2 DEF Orderly
    <2> QED BY <1>4, <2>1, <2>2, <2>3 DEF Fetched, Locked, Served
<1>6. CASE c.last \notin Group
    <2>1. /\ lockq'[u] = Append(lockq[u], c) /\ fetching' = fetching
          /\ phase'[u] = IF phase[u] = "free" THEN "lookup" ELSE phase[u]
        BY <1>6 DEF StartCall, TypeOK
    <2>2. /\ Orderly(Append(lockq[u], c))
          /\ CallsIn(Append(lockq[u], c)) = CallsIn(lockq[u]) \cup Ids(c.batch)
          /\ lockq[u] # <<>> => Head(Append(lockq[u], c)) = Head(lockq[u])
        BY <1>1, <1>2, CallEnters
    <2>3. Orderly(fetching[u])' /\ Orderly(lockq[u])'
        BY <1>1, <2>1, <2>2 DEF Orderly
    <2>4. Served(u)' = Served(u)
        BY <1>3, <2>1, <2>2 DEF Served
    <2> QED BY <1>4, <2>1, <2>2, <2>3, <2>4 DEF Fetched, Locked
<1> QED BY <1>5, <1>6

\* A text file goes from its dispatch into a call of its own.
LEMMA FileFates ==
    ASSUME TypeOK, SessionOwnsLock, FateInv, NEW t \in disp, DispatchFile(t)
    PROVE  FateStep
<1> DEFINE m == t.id
           u == Sender[t.id]
           e == [id |-> m, media |-> 0]
           c == [last |-> m, batch |-> <<e>>, src |-> t.src]
<1>1. /\ disp' = disp \ {t} /\ StartCall(u, c)
      /\ UNCHANGED <<seen, pend, sess, fed, closed, lost>>
    BY DEF DispatchFile
<1>2. /\ m \in Msgs /\ u \in Users /\ m \in Room(u)
      /\ TasksOfHook' /\ \A v \in Users : Room(v)' = Room(v) \ {m}
    BY <1>1, TaskLeaves DEF FateInv
<1>3. c \in Call
    <2>1. e \in Entry /\ t.src \in Sources
        BY <1>2 DEF Entry, MediaCap, TypeOK, Task, Sources
    <2>2. <<e>> \in Seq(Entry)
        BY <2>1
    <2> QED BY <1>2, <2>1, <2>2 DEF Call
<1>4. c.last = m /\ Ids(c.batch) = {m}
    BY DEF Ids
<1> HIDE DEF m, u, c
<1>5. UserFates(u) /\ Room(u) \subseteq Mine(u)
    BY <1>2 DEF FateInv, Room
<1>6. Ids(c.batch) \cap (Fetched(u) \cup Locked(u)) = {}
    BY <1>2, <1>4, <1>5 DEF UserFates, OnePlace
<1>7. /\ Orderly(fetching[u])' /\ Orderly(lockq[u])'
      /\ \/ Fetched(u)' = Fetched(u) \cup {m} /\ Locked(u)' = Locked(u)
         \/ Fetched(u)' = Fetched(u) /\ Locked(u)' = Locked(u) \cup {m}
      /\ Served(u)' = Served(u)
      /\ \A v \in Users \ {u} :
            /\ fetching'[v] = fetching[v] /\ lockq'[v] = lockq[v]
            /\ phase'[v] = phase[v]
    BY <1>1, <1>2, <1>3, <1>4, <1>5, <1>6, CallStarts
<1>8. Done' = Done /\ LostMsgs' = LostMsgs /\ FedOnce'
    BY <1>1 DEF Done, Fed, LostMsgs, FateInv, FedOnce
<1>9. \A v \in Users : InBatch(v)' = InBatch(v) /\ Boxed(v)' = Boxed(v)
    BY <1>1 DEF InBatch, Boxed
<1>10. ASSUME NEW v \in Users \ {u}
       PROVE  Same(v)
    <2>1. m \in Mine(u) /\ m \notin Mine(v)
        BY <1>2, Apart DEF Room
    <2>2. Room(v)' = Room(v)
        BY <1>2, <2>1 DEF Room
    <2>3. Served(v)' = Served(v)
        BY <1>7 DEF Served
    <2> QED BY <1>1, <1>7, <1>8, <1>9, <2>2, <2>3 DEF Same
<1>11. /\ Room(u)' = Room(u) \ {m} /\ InBatch(u)' = InBatch(u)
       /\ Boxed(u)' = Boxed(u) /\ Mine(u)' = Mine(u)
    BY <1>2, <1>9 DEF Mine
<1>12. m \notin Served(u)
    BY <1>2, <1>5 DEF UserFates, OnePlace, OneFate
<1>13. Waits(u)' = Waits(u)
    BY <1>2, <1>7, <1>11, <1>12 DEF Waits
<1>14. OnePlace(u)'
    BY <1>2, <1>5, <1>7, <1>11 DEF OnePlace, UserFates
<1>15. OneFate(u)'
    BY <1>1, <1>5, <1>7, <1>8, <1>11, <1>13 DEF OneFate, UserFates
<1>16. Moves(u, {})
    BY <1>8, <1>10, <1>13, SameFates DEF Moves, FateInv
<1> QED BY <1>2, <1>7, <1>8, <1>10, <1>14, <1>15, <1>16, ActorStep DEF UserFates

\* A batch becomes a call.
LEMMA FlushFates ==
    ASSUME TypeOK, SessionOwnsLock, FateInv, NEW u \in Users, Flush(u)
    PROVE  FateStep
<1> DEFINE b == pend[u]
           c == [last |-> b[Len(b)].id, batch |-> b, src |-> "flush"]
<1>1. /\ pend' = [pend EXCEPT ![u] = <<>>]
      /\ UNCHANGED <<disp, seen, sess, fed, closed, lost>>
    BY DEF Flush
<1>2. Done' = Done /\ LostMsgs' = LostMsgs /\ FedOnce' /\ TasksOfHook'
    BY <1>1 DEF Done, Fed, LostMsgs, FateInv, FedOnce, TasksOfHook
<1>3. InBatch(u)' = {} /\ \A v \in Users \ {u} : InBatch(v)' = InBatch(v)
    BY <1>1 DEF InBatch, TypeOK, Ids
<1>4. \A v \in Users : Boxed(v)' = Boxed(v) /\ Room(v)' = Room(v)
    BY <1>1 DEF Boxed, Room, Mine
<1>5. CASE b = <<>>
    <2>1. UNCHANGED <<fetching, lockq, phase>>
        BY <1>5 DEF Flush
    <2>2. InBatch(u) = {}
        BY <1>5 DEF InBatch, Ids
    <2> QED BY <1>1, <1>2, <1>3, <1>4, <2>1, <2>2, RestingStep DEF Served
<1>6. CASE b # <<>>
    <2>1. StartCall(u, c)
        BY <1>6 DEF Flush
    <2>2. b \in Seq(Entry)
        BY DEF TypeOK
    <2>3. c \in Call
        BY <1>6, <2>2, BatchCallType
    <2>4. c.last \in Ids(c.batch) /\ Ids(c.batch) = InBatch(u)
        <3>1. Len(b) \in DOMAIN b
            BY <1>6, <2>2, EmptySeq, LenProperties
        <3> QED BY <3>1 DEF Ids, InBatch
    <2> HIDE DEF b, c
    <2>5. UserFates(u)
        BY DEF FateInv
    <2>6. Ids(c.batch) \cap (Fetched(u) \cup Locked(u)) = {}
        BY <2>4, <2>5 DEF UserFates, OnePlace
    <2>7. /\ Orderly(fetching[u])' /\ Orderly(lockq[u])'
          /\ \/ Fetched(u)' = Fetched(u) \cup InBatch(u) /\ Locked(u)' = Locked(u)
             \/ Fetched(u)' = Fetched(u) /\ Locked(u)' = Locked(u) \cup InBatch(u)
          /\ Served(u)' = Served(u)
          /\ \A v \in Users \ {u} :
                /\ fetching'[v] = fetching[v] /\ lockq'[v] = lockq[v]
                /\ phase'[v] = phase[v]
        BY <2>1, <2>3, <2>4, <2>5, <2>6, CallStarts
    <2>8. ASSUME NEW v \in Users \ {u}
          PROVE  Same(v)
        <3>1. Served(v)' = Served(v)
            BY <2>7 DEF Served
        <3> QED BY <1>1, <1>2, <1>3, <1>4, <2>7, <3>1 DEF Same
    <2>9. Boxed(u)' = Boxed(u) /\ Room(u)' = Room(u) /\ Mine(u)' = Mine(u)
        BY <1>4 DEF Mine
    <2>10. InBatch(u) \cap Served(u) = {}
        BY <2>5 DEF UserFates, OnePlace, OneFate
    <2>11. Waits(u)' = Waits(u)
        BY <1>3, <2>7, <2>9, <2>10 DEF Waits
    <2>12. OnePlace(u)'
        BY <1>3, <2>5, <2>7, <2>9 DEF OnePlace, UserFates
    <2>13. OneFate(u)'
        BY <1>1, <1>2, <2>5, <2>7, <2>9, <2>11 DEF OneFate, UserFates
    <2>14. Moves(u, {})
        BY <1>2, <2>8, <2>11, SameFates DEF Moves, FateInv
    <2> QED BY <1>2, <2>7, <2>8, <2>12, <2>13, <2>14, ActorStep DEF UserFates
<1> QED BY <1>5, <1>6

\* A call that has its group history queues up for the lock.
LEMMA FetchFates ==
    ASSUME TypeOK, SessionOwnsLock, FateInv, NEW u \in Users, FetchDone(u)
    PROVE  FateStep
<1>1. UNCHANGED <<disp, seen, pend, sess, fed, closed, lost>>
    BY DEF FetchDone
<1>2. PICK i \in DOMAIN fetching[u] :
             /\ lockq' = [lockq EXCEPT ![u] = Append(@, fetching[u][i])]
             /\ fetching' = [fetching EXCEPT ![u] = RemoveAt(@, i)]
    BY DEF FetchDone
<1> DEFINE f == fetching[u]
           q == lockq[u]
           c == f[i]
<1>3. /\ f \in Seq(Call) /\ q \in Seq(Call) /\ c \in Call
      /\ lockq'[u] = Append(q, c) /\ fetching'[u] = RemoveAt(f, i)
      /\ \A v \in Users \ {u} : lockq'[v] = lockq[v] /\ fetching'[v] = fetching[v]
    BY <1>2 DEF TypeOK
<1>4. /\ phase'[u] = IF phase[u] = "free" THEN "lookup" ELSE phase[u]
      /\ \A v \in Users \ {u} : phase'[v] = phase[v]
    BY DEF FetchDone, TypeOK
<1>5. UserFates(u) /\ (phase[u] = "free" <=> q = <<>>)
    BY DEF FateInv, SessionOwnsLock
<1>6. Orderly(f) /\ Orderly(q) /\ CallsIn(f) \cap CallsIn(q) = {}
    BY <1>5 DEF UserFates, OnePlace, Fetched, Locked
<1>7. c.last \in Ids(c.batch) /\ Ids(c.batch) \subseteq CallsIn(f)
    <2>1. Ids(c.batch) \subseteq Msgs
        BY <1>3, IdsType DEF Call
    <2> QED BY <1>2, <1>6, <2>1 DEF Orderly, CallsIn
<1> DEFINE X == Ids(c.batch)
<1>8. /\ Orderly(Append(q, c)) /\ CallsIn(Append(q, c)) = CallsIn(q) \cup X
      /\ q # <<>> => Head(Append(q, c)) = Head(q)
    BY <1>3, <1>6, <1>7, CallEnters
<1>9. Orderly(RemoveAt(f, i)) /\ CallsIn(RemoveAt(f, i)) = CallsIn(f) \ X
    BY <1>2, <1>3, <1>6, CallRemoved
<1> HIDE DEF f, q, c, X
<1>10. Orderly(fetching[u])' /\ Orderly(lockq[u])'
    BY <1>3, <1>8, <1>9 DEF Orderly
<1>11. /\ Fetched(u)' = Fetched(u) \ X /\ Locked(u)' = Locked(u) \cup X
       /\ X \subseteq Fetched(u)
    BY <1>3, <1>7, <1>8, <1>9 DEF Fetched, Locked, f, q, X
<1>12. Served(u)' = Served(u)
    BY <1>3, <1>4, <1>5, <1>8 DEF Served, q
<1>13. Done' = Done /\ LostMsgs' = LostMsgs /\ FedOnce' /\ TasksOfHook'
    BY <1>1 DEF Done, Fed, LostMsgs, FateInv, FedOnce, TasksOfHook
<1>14. \A v \in Users : /\ InBatch(v)' = InBatch(v) /\ Boxed(v)' = Boxed(v)
                        /\ Room(v)' = Room(v)
    BY <1>1 DEF InBatch, Boxed, Room, Mine
<1>15. ASSUME NEW v \in Users \ {u}
       PROVE  Same(v)
    <2>1. Served(v)' = Served(v)
        BY <1>3, <1>4 DEF Served
    <2> QED BY <1>1, <1>3, <1>13, <1>14, <2>1 DEF Same
<1>16. /\ InBatch(u)' = InBatch(u) /\ Boxed(u)' = Boxed(u)
       /\ Room(u)' = Room(u) /\ Mine(u)' = Mine(u)
    BY <1>14 DEF Mine
<1>17. X \cap Served(u) = {}
    BY <1>5, <1>11 DEF UserFates, OnePlace, OneFate
<1>18. Waits(u)' = Waits(u)
    BY <1>11, <1>12, <1>16, <1>17 DEF Waits
<1>19. OnePlace(u)'
    BY <1>5, <1>11, <1>16 DEF OnePlace, UserFates
<1>20. OneFate(u)'
    BY <1>1, <1>5, <1>11, <1>12, <1>13, <1>16, <1>18 DEF OneFate, UserFates
<1>21. Moves(u, {})
    BY <1>13, <1>15, <1>18, SameFates DEF Moves, FateInv
<1> QED BY <1>10, <1>13, <1>15, <1>19, <1>20, <1>21, ActorStep DEF UserFates

\* The batch of the lock holder, before and after the agent has it.
LEMMA HolderBatch ==
    ASSUME TypeOK, SessionOwnsLock, NEW u \in Users, UserFates(u), phase[u] # "free"
    PROVE  /\ Ids(Head(lockq[u]).batch) \subseteq Locked(u)
           /\ Ids(Head(lockq[u]).batch) \subseteq Msgs
           /\ phase[u] = "lookup" => Served(u) = {}
           /\ phase[u] # "lookup" => Served(u) = Ids(Head(lockq[u]).batch)
<1>1. lockq[u] # <<>> /\ Ids(Head(lockq[u]).batch) \subseteq Msgs
    BY HolderType
<1>2. 1 \in DOMAIN lockq[u] /\ Head(lockq[u]) = lockq[u][1]
    <2>1. lockq[u] \in Seq(Call)
        BY DEF TypeOK
    <2> QED BY <1>1, <2>1, EmptySeq, LenProperties
<1>3. Ids(Head(lockq[u]).batch) \subseteq Locked(u)
    BY <1>1, <1>2 DEF Locked, CallsIn
<1> QED BY <1>1, <1>3 DEF Served

\* The agent takes the batch, and starts with an empty mailbox.
LEMMA ActivateFates ==
    ASSUME TypeOK, SessionOwnsLock, FateInv, NEW u \in Users, Activate(u)
    PROVE  FateStep
<1> DEFINE H == Ids(Head(lockq[u]).batch)
<1>1. /\ phase[u] = "lookup" /\ phase' = [phase EXCEPT ![u] = "loop"]
      /\ sess' = [sess EXCEPT ![u] = <<>>] /\ Feed(H)
      /\ UNCHANGED <<disp, seen, pend, fetching, lockq, closed, lost>>
    BY DEF Activate
<1>2. UserFates(u) /\ sess[u] = <<>>
    BY <1>1 DEF FateInv, SessionOwnsLock
<1>3. H \subseteq Locked(u) /\ H \subseteq Msgs /\ Served(u) = {}
    BY <1>1, <1>2, HolderBatch
<1>4. Served(u)' = H /\ \A v \in Users \ {u} : Served(v)' = Served(v)
    BY <1>1 DEF Served, TypeOK
<1>5. H \subseteq Waits(u) /\ H \subseteq Mine(u)
    BY <1>2, <1>3 DEF Waits, UserFates, OnePlace
<1> HIDE DEF H
<1>6. H \cap Fed = {}
    BY <1>2, <1>5 DEF UserFates, OneFate, Done
<1>7. FedOnce' /\ Fed' = Fed \cup H
    BY <1>1, <1>3, <1>6, FeedOnce DEF FateInv
<1>8. Done' = Done \cup H /\ LostMsgs' = LostMsgs /\ TasksOfHook'
    BY <1>1, <1>7 DEF Done, LostMsgs, FateInv, TasksOfHook
<1>9. \A v \in Users : Boxed(v)' = Boxed(v)
    BY <1>1, <1>2 DEF Boxed, TypeOK
<1>10. \A v \in Users : /\ InBatch(v)' = InBatch(v) /\ Room(v)' = Room(v)
                        /\ fetching'[v] = fetching[v] /\ lockq'[v] = lockq[v]
    BY <1>1 DEF InBatch, Room, Mine
<1>11. ASSUME NEW v \in Users \ {u}
       PROVE  Same(v)
    <2>1. \A m \in Mine(v) : m \notin H
        BY <1>5, Apart
    <2> QED BY <1>1, <1>4, <1>8, <1>9, <1>10, <2>1 DEF Same
<1>12. /\ InBatch(u)' = InBatch(u) /\ Boxed(u)' = Boxed(u) /\ Mine(u)' = Mine(u)
       /\ Room(u)' = Room(u) /\ Fetched(u)' = Fetched(u) /\ Locked(u)' = Locked(u)
    BY <1>9, <1>10 DEF Fetched, Locked, Mine
<1>13. Orderly(fetching[u])' /\ Orderly(lockq[u])'
    BY <1>2, <1>10 DEF UserFates, Orderly
<1>14. Waits(u)' = Waits(u) \ H
    BY <1>2, <1>3, <1>4, <1>12 DEF Waits, UserFates, OnePlace
<1>15. OnePlace(u)'
    BY <1>2, <1>12 DEF OnePlace, UserFates
<1>16. OneFate(u)'
    BY <1>1, <1>2, <1>3, <1>4, <1>5, <1>8, <1>12, <1>14 DEF OneFate, UserFates
<1>17. Moves(u, H)
    BY <1>5, <1>8, <1>11, <1>14, SameFates DEF Moves, FateInv
<1> QED BY <1>7, <1>8, <1>11, <1>13, <1>15, <1>16, <1>17, ActorStep DEF UserFates

\* The lookup fails: the batch is answered by an apology.
LEMMA LookupFailFates ==
    ASSUME TypeOK, SessionOwnsLock, FateInv, NEW u \in Users, LookupFail(u)
    PROVE  FateStep
<1> DEFINE H == Ids(Head(lockq[u]).batch)
<1>1. /\ phase[u] = "lookup" /\ phase' = [phase EXCEPT ![u] = "reply"]
      /\ closed' = closed \cup H
      /\ UNCHANGED <<disp, seen, pend, fetching, lockq, sess, fed, lost>>
    BY DEF LookupFail
<1>2. UserFates(u)
    BY DEF FateInv
<1>3. H \subseteq Locked(u) /\ H \subseteq Msgs /\ Served(u) = {}
    BY <1>1, <1>2, HolderBatch
<1>4. Served(u)' = H /\ \A v \in Users \ {u} : Served(v)' = Served(v)
    BY <1>1 DEF Served, TypeOK
<1>5. H \subseteq Waits(u) /\ H \subseteq Mine(u)
    BY <1>2, <1>3 DEF Waits, UserFates, OnePlace
<1> HIDE DEF H
<1>6. /\ Done' = Done \cup H /\ LostMsgs' = LostMsgs
      /\ TasksOfHook' /\ FedOnce'
    BY <1>1 DEF Done, Fed, LostMsgs, FateInv, TasksOfHook, FedOnce
<1>7. \A v \in Users : /\ InBatch(v)' = InBatch(v) /\ Room(v)' = Room(v)
                       /\ Boxed(v)' = Boxed(v)
                       /\ fetching'[v] = fetching[v] /\ lockq'[v] = lockq[v]
    BY <1>1 DEF InBatch, Boxed, Room, Mine
<1>8. ASSUME NEW v \in Users \ {u}
      PROVE  Same(v)
    <2>1. \A m \in Mine(v) : m \notin H
        BY <1>5, Apart
    <2> QED BY <1>1, <1>4, <1>6, <1>7, <2>1 DEF Same
<1>9. /\ InBatch(u)' = InBatch(u) /\ Boxed(u)' = Boxed(u) /\ Mine(u)' = Mine(u)
      /\ Room(u)' = Room(u) /\ Fetched(u)' = Fetched(u) /\ Locked(u)' = Locked(u)
    BY <1>7 DEF Fetched, Locked, Mine
<1>10. Orderly(fetching[u])' /\ Orderly(lockq[u])'
    BY <1>2, <1>7 DEF UserFates, Orderly
<1>11. Waits(u)' = Waits(u) \ H
    BY <1>2, <1>3, <1>4, <1>9 DEF Waits, UserFates, OnePlace
<1>12. OnePlace(u)'
    BY <1>2, <1>9 DEF OnePlace, UserFates
<1>13. OneFate(u)'
    BY <1>1, <1>2, <1>3, <1>4, <1>5, <1>6, <1>9, <1>11 DEF OneFate, UserFates
<1>14. Moves(u, H)
    BY <1>5, <1>6, <1>8, <1>11, SameFates DEF Moves, FateInv
<1> QED BY <1>6, <1>8, <1>10, <1>12, <1>13, <1>14, ActorStep DEF UserFates

\* The agent takes the mailbox, or the end of its session drops it.
LEMMA MailboxFates ==
    ASSUME TypeOK, SessionOwnsLock, FateInv, NEW u \in Users,
           Drain(u) \/ EndSession(u)
    PROVE  FateStep
<1> DEFINE B == Boxed(u)
<1>1. /\ sess' = [sess EXCEPT ![u] = <<>>]
      /\ UNCHANGED <<disp, seen, pend, fetching, lockq, closed>>
    BY DEF Drain, EndSession
<1>2. UserFates(u)
    BY DEF FateInv
<1>3. B \subseteq Waits(u) /\ B \subseteq Mine(u) /\ B \subseteq Msgs
    BY <1>2 DEF Waits, UserFates, OnePlace, Mine
<1>4. /\ \A v \in Users : Served(v)' = Served(v)
    <2>1. \A v \in Users : phase'[v] = phase[v] \/ (/\ phase[v] \in {"loop", "judge"}
                                                    /\ phase'[v] = "reply")
        BY DEF Drain, EndSession, TypeOK
    <2> QED BY <1>1, <2>1 DEF Served
<1>5. FedOnce' /\ \/ Done' = Done \cup B /\ LostMsgs' = LostMsgs
                  \/ Done' = Done /\ LostMsgs' = LostMsgs \cup B
    <2>1. CASE Drain(u)
        <3>1. Feed(B) /\ lost' = lost
            BY <2>1 DEF Drain, Boxed
        <3>2. B \cap Fed = {}
            BY <1>2, <1>3 DEF UserFates, OneFate, Done
        <3> HIDE DEF B
        <3>3. FedOnce' /\ Fed' = Fed \cup B
            BY <1>3, <3>1, <3>2, FeedOnce DEF FateInv
        <3> QED BY <1>1, <3>1, <3>3 DEF Done, LostMsgs
    <2>2. CASE EndSession(u)
        <3>1. lost' = lost \cup ToSet(sess[u]) /\ fed' = fed
            BY <2>2 DEF EndSession
        <3>2. LostMsgs' = LostMsgs \cup B
            BY <3>1, MailLost DEF Boxed
        <3> QED BY <1>1, <3>1, <3>2 DEF Done, Fed, FedOnce, FateInv
    <2> QED BY <2>1, <2>2
<1>6. Boxed(u)' = {} /\ \A v \in Users \ {u} : Boxed(v)' = Boxed(v)
    BY <1>1 DEF Boxed, Consumed, TypeOK
<1>7. \A v \in Users : /\ InBatch(v)' = InBatch(v) /\ Room(v)' = Room(v)
                       /\ fetching'[v] = fetching[v] /\ lockq'[v] = lockq[v]
    BY <1>1 DEF InBatch, Room, Mine
<1>8. TasksOfHook'
    BY <1>1 DEF FateInv, TasksOfHook
<1>9. ASSUME NEW v \in Users \ {u}
      PROVE  Same(v)
    <2>1. \A m \in Mine(v) : m \notin B
        BY <1>3, Apart
    <2> QED BY <1>1, <1>4, <1>5, <1>6, <1>7, <2>1 DEF Same
<1>10. /\ InBatch(u)' = InBatch(u) /\ Mine(u)' = Mine(u) /\ Served(u)' = Served(u)
       /\ Room(u)' = Room(u) /\ Fetched(u)' = Fetched(u) /\ Locked(u)' = Locked(u)
    BY <1>4, <1>7 DEF Fetched, Locked, Mine
<1>11. Orderly(fetching[u])' /\ Orderly(lockq[u])'
    BY <1>2, <1>7 DEF UserFates, Orderly
<1>12. Waits(u)' = Waits(u) \ B
    BY <1>2, <1>6, <1>10 DEF Waits, UserFates, OnePlace
<1>13. OnePlace(u)'
    BY <1>2, <1>6, <1>10 DEF OnePlace, UserFates
<1>14. OneFate(u)'
    BY <1>1, <1>2, <1>3, <1>5, <1>10, <1>12 DEF OneFate, UserFates
<1>15. Moves(u, B)
    BY <1>3, <1>5, <1>9, <1>12, SameFates DEF Moves, FateInv
<1> QED BY <1>5, <1>8, <1>9, <1>11, <1>13, <1>14, <1>15, ActorStep DEF UserFates

\* The holder leaves the lock: what was served with it has its fate already.
LEMMA ReleaseFates ==
    ASSUME TypeOK, SessionOwnsLock, FateInv, NEW u \in Users, Release(u)
    PROVE  FateStep
<1> DEFINE q == lockq[u]
           H == Ids(Head(q).batch)
<1>1. /\ phase[u] = "reply" /\ lockq' = [lockq EXCEPT ![u] = Tail(@)]
      /\ phase' = [phase EXCEPT ![u] = IF Len(q) > 1 THEN "lookup" ELSE "free"]
      /\ closed' = closed \cup H
      /\ UNCHANGED <<disp, seen, pend, fetching, sess, fed, lost>>
    BY DEF Release
<1>2. UserFates(u) /\ q \in Seq(Call) /\ q # <<>>
    BY <1>1 DEF FateInv, TypeOK, SessionOwnsLock
<1>3. H \subseteq Locked(u) /\ H \subseteq Msgs /\ Served(u) = H
    BY <1>1, <1>2, HolderBatch
<1>4. Orderly(Tail(q)) /\ CallsIn(Tail(q)) = CallsIn(q) \ H
    BY <1>2, HolderLeaves DEF UserFates
<1>5. Served(u)' = {} /\ \A v \in Users \ {u} : Served(v)' = Served(v)
    BY <1>1 DEF Served, TypeOK
<1>6. lockq'[u] = Tail(q) /\ \A v \in Users \ {u} : lockq'[v] = lockq[v]
    BY <1>1 DEF TypeOK
<1> HIDE DEF q, H
<1>7. H \subseteq Done
    BY <1>2, <1>3 DEF UserFates, OneFate
<1>8. Done' = Done /\ LostMsgs' = LostMsgs /\ TasksOfHook' /\ FedOnce'
    BY <1>1, <1>7 DEF Done, Fed, LostMsgs, FateInv, TasksOfHook, FedOnce
<1>9. \A v \in Users : /\ InBatch(v)' = InBatch(v) /\ Room(v)' = Room(v)
                       /\ Boxed(v)' = Boxed(v) /\ fetching'[v] = fetching[v]
    BY <1>1 DEF InBatch, Boxed, Room, Mine
<1>10. ASSUME NEW v \in Users \ {u}
       PROVE  Same(v)
    BY <1>1, <1>5, <1>6, <1>8, <1>9 DEF Same
<1>11. Locked(u)' = Locked(u) \ H
    BY <1>4, <1>6 DEF Locked, q
<1>12. /\ InBatch(u)' = InBatch(u) /\ Boxed(u)' = Boxed(u) /\ Mine(u)' = Mine(u)
       /\ Room(u)' = Room(u) /\ Fetched(u)' = Fetched(u)
    BY <1>9 DEF Fetched, Mine
<1>13. Orderly(fetching[u])' /\ Orderly(lockq[u])'
    BY <1>2, <1>4, <1>6, <1>9 DEF UserFates, Orderly
<1>14. Waits(u)' = Waits(u)
    BY <1>3, <1>5, <1>11, <1>12 DEF Waits
<1>15. OnePlace(u)'
    BY <1>2, <1>11, <1>12 DEF OnePlace, UserFates
<1>16. OneFate(u)'
    BY <1>1, <1>2, <1>5, <1>8, <1>12, <1>14 DEF OneFate, UserFates
<1>17. Moves(u, {})
    BY <1>8, <1>10, <1>14, SameFates DEF Moves, FateInv
<1> QED BY <1>8, <1>10, <1>13, <1>15, <1>16, <1>17, ActorStep DEF UserFates

\* Media go into the mailbox, or are dropped: messages stay where they are.
LEMMA InjectFates ==
    ASSUME TypeOK, FateInv, NEW u \in Users, InjectDeliver(u) \/ InjectGiveUp(u)
    PROVE  FateStep
<1>1. UNCHANGED <<disp, seen, pend, fetching, lockq, phase, fed, closed>>
    BY DEF InjectDeliver, InjectGiveUp
<1>2. \A v \in Users : InBatch(v)' = InBatch(v) /\ Served(v)' = Served(v)
    BY <1>1 DEF InBatch, Served
<1>3. inject[u] \in Seq(Seq(Medium)) /\ sess[u] \in Seq(Item)
    BY DEF TypeOK
<1>4. CASE InjectDeliver(u)
    <2>1. PICK i \in DOMAIN inject[u] : sess' = [sess EXCEPT ![u] = @ \o inject[u][i]]
        BY <1>4 DEF InjectDeliver
    <2>2. Consumed(sess[u] \o inject[u][i]) = Consumed(sess[u])
        BY <1>3, ConsumedMedia
    <2>3. \A v \in Users : Boxed(v)' = Boxed(v)
        BY <2>1, <2>2 DEF Boxed, TypeOK
    <2>4. LostMsgs' = LostMsgs
        BY <1>4 DEF InjectDeliver, LostMsgs
    <2> QED BY <1>1, <1>2, <2>3, <2>4, RestingStep
<1>5. CASE InjectGiveUp(u)
    <2>1. PICK i \in DOMAIN inject[u] : lost' = lost \cup ToSet(inject[u][i])
        BY <1>5 DEF InjectGiveUp
    <2>2. \A y \in ToSet(inject[u][i]) : y.part = "media"
        <3>1. \A j \in DOMAIN inject[u][i] : inject[u][i][j] \in Medium
            BY <1>3
        <3> QED BY <3>1 DEF ToSet, Medium
    <2>3. LostMsgs' = LostMsgs
        BY <2>1, <2>2 DEF LostMsgs
    <2>4. \A v \in Users : Boxed(v)' = Boxed(v)
        BY <1>5 DEF InjectGiveUp, Boxed
    <2> QED BY <1>1, <1>2, <2>3, <2>4, RestingStep
<1> QED BY <1>4, <1>5

\* Steps of the records, of Feishu and of the exit check.
LEMMA OtherFates ==
    ASSUME TypeOK, FateInv,
           \/ \E m \in Msgs : Ack(m)
           \/ \E u \in Users : ExitCheck(u) \/ Nudge(u)
           \/ InboxExpire
           \/ UNCHANGED pipeVars
    PROVE  FateStep
<1>1. UNCHANGED <<disp, seen, pend, sess, fetching, lockq, fed, closed, lost>>
    BY DEF Ack, ExitCheck, Nudge, InboxExpire, userVars, pipeVars
<1>2. \A v \in Users : \/ phase'[v] = phase[v]
                       \/ phase[v] \in {"loop", "judge"} /\ phase'[v] \in {"loop", "judge"}
    BY DEF Ack, ExitCheck, Nudge, InboxExpire, userVars, pipeVars, TypeOK
<1>3. \A v \in Users : /\ InBatch(v)' = InBatch(v) /\ Boxed(v)' = Boxed(v)
                       /\ Served(v)' = Served(v)
    BY <1>1, <1>2 DEF InBatch, Boxed, Served
<1>4. LostMsgs' = LostMsgs
    BY <1>1 DEF LostMsgs
<1> QED BY <1>1, <1>3, <1>4, RestingStep

\* Every step moves messages in one direction, and one at a time.
LEMMA FateInvariant ==
    TypeOK /\ SessionOwnsLock /\ FateInv /\ [Next]_pipeVars => FateStep
<1> SUFFICES ASSUME TypeOK, SessionOwnsLock, FateInv, [Next]_pipeVars
             PROVE  FateStep
    OBVIOUS
<1>1. ASSUME NEW m \in Msgs, Webhook(m) \/ Ack(m)
      PROVE  FateStep
    BY <1>1, WebhookFates, OtherFates
<1>2. ASSUME NEW t \in disp, DispatchStep(t)
      PROVE  FateStep
    BY <1>2, EnqueueFates, FileFates, ReplyFates DEF DispatchStep
<1>3. ASSUME NEW u \in Users, UserStep(u)
      PROVE  FateStep
    BY <1>3, FlushFates, InjectFates, FetchFates, ActivateFates, LookupFailFates,
       MailboxFates, OtherFates, ReleaseFates DEF UserStep
<1>4. CASE InboxExpire \/ UNCHANGED pipeVars
    BY <1>4, OtherFates
<1> QED BY <1>1, <1>2, <1>3, <1>4 DEF Next

\* The calls not yet fed, as sequences see them and as the invariant does.
LEMMA NotFedCalls ==
    ASSUME TypeOK, SessionOwnsLock, NEW u \in Users, UserFates(u)
    PROVE  UNION {Ids(c.batch) : c \in CallsNotFed(u)}
             = Fetched(u) \cup (Locked(u) \ Served(u))
<1> DEFINE f == fetching[u]
           q == lockq[u]
           P(j) == j > 1 \/ phase[u] = "lookup"
<1>1. f \in Seq(Call) /\ q \in Seq(Call) /\ Orderly(q) /\ (phase[u] = "free" <=> q = <<>>)
    BY DEF TypeOK, UserFates, SessionOwnsLock
<1>2. /\ \A i \in DOMAIN f : Ids(f[i].batch) \subseteq Msgs
      /\ \A i \in DOMAIN q : Ids(q[i].batch) \subseteq Msgs
    <2>1. \A c \in Call : Ids(c.batch) \subseteq Msgs
        BY IdsType DEF Call
    <2> QED BY <1>1, <2>1
<1>3. DOMAIN q = 1..Len(q) /\ Len(q) \in Nat /\ (q # <<>> => Len(q) # 0)
    BY <1>1, EmptySeq, LenProperties
<1>4. Served(u) = IF phase[u] \in {"free", "lookup"} THEN {} ELSE Ids(q[1].batch)
    BY DEF Served
<1>5. CallsNotFed(u) = {f[i] : i \in DOMAIN f} \cup {q[i] : i \in {j \in DOMAIN q : P(j)}}
    BY DEF CallsNotFed, ToSet
<1> HIDE DEF f, q, P
<1>6. ASSUME NEW j \in DOMAIN q, P(j), NEW m \in Ids(q[j].batch)
      PROVE  m \in Locked(u) \ Served(u)
    <2>1. m \in Locked(u)
        BY <1>2, <1>6 DEF Locked, CallsIn, q
    <2>2. ASSUME m \in Served(u)
          PROVE  FALSE
        <3>1. phase[u] # "lookup" /\ m \in Ids(q[1].batch) /\ 1 \in DOMAIN q
            BY <1>1, <1>3, <1>4, <2>2
        <3>2. j = 1
            BY <1>1, <1>2, <1>6, <3>1 DEF Orderly
        <3> QED BY <1>6, <3>1, <3>2 DEF P
    <2> QED BY <2>1, <2>2
<1>7. ASSUME NEW m \in Locked(u) \ Served(u)
      PROVE  \E j \in DOMAIN q : P(j) /\ m \in Ids(q[j].batch)
    <2>1. PICK j \in DOMAIN q : m \in Ids(q[j].batch)
        BY DEF Locked, CallsIn, q
    <2>2. P(j)
        <3>1. CASE j > 1
            BY <3>1 DEF P
        <3>2. CASE j = 1
            <4>1. q # <<>>
                BY <1>3, <2>1, EmptySeq
            <4>2. phase[u] = "lookup"
                BY <1>1, <1>4, <2>1, <3>2, <4>1
            <4> QED BY <4>2 DEF P
        <3> QED BY <1>3, <3>1, <3>2
    <2> QED BY <2>1, <2>2
<1>8. Fetched(u) = UNION {Ids(f[i].batch) : i \in DOMAIN f}
    BY <1>2 DEF Fetched, CallsIn, f
<1> QED BY <1>5, <1>6, <1>7, <1>8

WaitingBySender ==
    /\ \A u \in Users : Waits(u) \subseteq Mine(u)
    /\ Waiting = {m \in Msgs : m \in Waits(Sender[m])}

\* Waiting, user by user.
LEMMA WaitingByUser ==
    ASSUME TypeOK, SessionOwnsLock, FateInv
    PROVE  WaitingBySender
<1>1. \A u \in Users : Waits(u) \subseteq Mine(u)
    BY DEF Waits, Room, FateInv, UserFates, OnePlace
<1>2. \A m \in Msgs : Sender[m] \in Users
    BY PipelineAssumption
<1>3. {t.id : t \in disp} = {m \in Msgs : m \in Room(Sender[m])}
    BY DEF TypeOK, Task, Room, Mine
<1> DEFINE Rest(u) == Ids(pend[u]) \cup Consumed(sess[u])
                        \cup UNION {Ids(c.batch) : c \in CallsNotFed(u)}
<1>4. \A u \in Users : Waits(u) = Room(u) \cup Rest(u)
    BY NotFedCalls DEF Waits, InBatch, Boxed, FateInv
<1>5. Waiting = {t.id : t \in disp} \cup UNION {Rest(u) : u \in Users}
    BY DEF Waiting
<1> HIDE DEF Rest
<1>6. \A u \in Users : \A m \in Rest(u) : m \in Msgs /\ Sender[m] = u
    BY <1>1, <1>4 DEF Mine
<1>7. Waiting = {m \in Msgs : m \in Waits(Sender[m])}
    <2>1. ASSUME NEW m \in Waiting
          PROVE  m \in Msgs /\ m \in Waits(Sender[m])
        <3>1. CASE m \in {t.id : t \in disp}
            BY <1>2, <1>3, <1>4, <3>1
        <3>2. CASE \E u \in Users : m \in Rest(u)
            BY <1>4, <1>6, <3>2
        <3> QED BY <1>5, <3>1, <3>2
    <2>2. ASSUME NEW m \in Msgs, m \in Waits(Sender[m])
          PROVE  m \in Waiting
        BY <1>2, <1>3, <1>4, <1>5, <2>2
    <2> QED BY <2>1, <2>2
<1> QED BY <1>1, <1>7 DEF WaitingBySender

LEMMA FateImplies ==
    ASSUME TypeOK, SessionOwnsLock, FateInv
    PROVE  ExactlyOneFate
<1>1. \A m \in Msgs : Sender[m] \in Users /\ m \in Mine(Sender[m])
    BY PipelineAssumption DEF Mine
<1>2. seen \subseteq Msgs /\ Fed \subseteq Msgs /\ closed \subseteq Msgs /\ LostMsgs \subseteq Msgs
    BY DEF TypeOK, Fed, LostMsgs, Item
<1>3. \A m \in Msgs :
         /\ m \in Waits(Sender[m]) => m \notin Done \cup LostMsgs
         /\ ~(m \in Done /\ m \in LostMsgs)
         /\ m \in seen <=> m \in Waits(Sender[m]) \/ m \in Done \/ m \in LostMsgs
    BY <1>1 DEF FateInv, UserFates, OneFate
<1>4. Waiting \subseteq Msgs /\ \A m \in Msgs : m \in Waiting <=> m \in Waits(Sender[m])
    BY WaitingByUser DEF WaitingBySender
<1>5. seen = Waiting \cup Fed \cup closed \cup LostMsgs
    BY <1>2, <1>3, <1>4 DEF Done
<1>6. Waiting \cap (Fed \cup closed \cup LostMsgs) = {}
    BY <1>3, <1>4 DEF Done
<1>7. LostMsgs \cap (Fed \cup closed) = {}
    BY <1>2, <1>3 DEF Done
<1>8. \A m \in Msgs : fed[m] <= 1
    BY DEF FateInv, FedOnce
<1> QED BY <1>5, <1>6, <1>7, <1>8 DEF ExactlyOneFate

LEMMA FateInit == Init => FateInv
<1> SUFFICES ASSUME Init
             PROVE  FateInv
    OBVIOUS
<1>1. TasksOfHook /\ FedOnce
    BY DEF Init, TasksOfHook, FedOnce
<1>2. Done = {} /\ LostMsgs = {} /\ seen = {}
    BY DEF Init, Done, Fed, LostMsgs
<1>3. ASSUME NEW u \in Users
      PROVE  UserFates(u)
    <2>1. /\ pend[u] = <<>> /\ sess[u] = <<>> /\ fetching[u] = <<>> /\ lockq[u] = <<>>
          /\ phase[u] = "free" /\ disp = {}
        BY DEF Init
    <2>2. /\ Room(u) = {} /\ InBatch(u) = {} /\ Boxed(u) = {} /\ Fetched(u) = {}
          /\ Locked(u) = {} /\ Served(u) = {}
        BY <2>1 DEF Room, InBatch, Boxed, Fetched, Locked, Served, Ids, Consumed, CallsIn
    <2>3. Orderly(fetching[u]) /\ Orderly(lockq[u])
        BY <2>1 DEF Orderly
    <2>4. OnePlace(u) /\ OneFate(u)
        BY <1>2, <2>2 DEF OnePlace, OneFate, Waits
    <2> QED BY <2>3, <2>4 DEF UserFates
<1> QED BY <1>1, <1>3 DEF FateInv

\* Where every accepted message is, in every reachable state.
THEOREM MessagesHaveOnePlace == Spec => []FateInv
<1>1. TypeOK /\ SessionOwnsLock /\ FateInv /\ [Next]_pipeVars => FateInv'
    BY FateInvariant DEF FateStep
<1> QED BY <1>1, FateInit, TypeCorrect, SessionsOwnLocks, PTL DEF Spec

\* A message that was accepted waits in one place, or has been given to the
\* agent once or answered, or was dropped, and never two of these, however
\* batches, mailboxes, calls and exits interleave (handler.py:1181-1366,
\* base.py:330-354).
THEOREM MessagesHaveOneFate == Spec => []ExactlyOneFate
<1>1. TypeOK /\ SessionOwnsLock /\ FateInv => ExactlyOneFate
    BY FateImplies
<1> QED BY <1>1, MessagesHaveOnePlace, TypeCorrect, SessionsOwnLocks, PTL

-----------------------------------------------------------------------------
(* Refinement *)

\* Every step of the pipeline is a step of the ledger, or none.
LEMMA LedgerStep ==
    ASSUME TypeOK, SessionOwnsLock, FateInv, FateStep, WaitingBySender'
    PROVE  Ledger!Next \/ UNCHANGED Ledger!ledgerVars
<1>1. WaitingBySender
    BY WaitingByUser
<1>2. /\ Waiting \subseteq Msgs /\ \A u \in Users : Waits(u) \subseteq Mine(u)
      /\ \A m \in Msgs : m \in Waiting <=> m \in Waits(Sender[m])
    BY <1>1 DEF WaitingBySender
<1>3. Waiting' \subseteq Msgs /\ \A m \in Msgs : m \in Waiting' <=> m \in Waits(Sender[m])'
    BY DEF WaitingBySender
<1>4. \A m \in Msgs : Sender[m] \in Users /\ m \in Mine(Sender[m])
    BY PipelineAssumption DEF Mine
<1>5. CASE Rests
    <2>1. Waiting' = Waiting
        BY <1>2, <1>3, <1>4, <1>5 DEF Rests
    <2> QED BY <1>5, <2>1 DEF Rests, Done, Ledger!ledgerVars
<1>6. ASSUME NEW m \in Msgs, Accepts(m)
      PROVE  Ledger!Accept(m)
    <2>1. Waiting' = Waiting \cup {m}
        BY <1>2, <1>3, <1>4, <1>6 DEF Accepts
    <2>2. m \notin Waiting \cup Done \cup LostMsgs
        BY <1>6, FateImplies DEF Accepts, ExactlyOneFate, Done
    <2> QED BY <1>6, <2>1, <2>2 DEF Accepts, Done, Ledger!Accept
<1>7. ASSUME NEW u \in Users, NEW S, Moves(u, S)
      PROVE  S \in SUBSET Waiting /\ (Ledger!Settle(S) \/ Ledger!Drop(S))
    <2>1. S \subseteq Waiting
        BY <1>2, <1>7 DEF Moves, Mine
    <2>2. \A v \in Users : Waits(v)' = Waits(v) \ S
        <3>1. \A v \in Users \ {u} : \A m \in Waits(v) : m \notin S
            BY <1>2, <1>7 DEF Moves, Mine
        <3> QED BY <1>7, <3>1 DEF Moves
    <2>3. Waiting' = Waiting \ S
        BY <1>2, <1>3, <1>4, <2>2
    <2> QED BY <1>7, <2>1, <2>3 DEF Moves, Done, Ledger!Settle, Ledger!Drop
<1> QED BY <1>5, <1>6, <1>7 DEF FateStep, Ledger!Next

\* The pipeline implements the ledger: a message is accepted once, and once it
\* is settled or dropped (handler.py, base.py).
THEOREM PipelineIsALedger == Spec => LedgerSpec
<1>1. Init => Ledger!Init
    BY DEF Init, Ledger!Init, Waiting, CallsNotFed, Ids, Consumed, ToSet, Fed, LostMsgs
<1>2. TypeOK /\ SessionOwnsLock /\ FateInv => WaitingBySender
    BY WaitingByUser
<1>3. TypeOK /\ SessionOwnsLock /\ FateInv /\ WaitingBySender' /\ [Next]_pipeVars
      => [Ledger!Next]_Ledger!ledgerVars
    BY FateInvariant, LedgerStep
<1> QED BY <1>1, <1>2, <1>3, TypeCorrect, SessionsOwnLocks, MessagesHaveOnePlace, PTL
        DEF Spec, LedgerSpec, Ledger!Spec

-----------------------------------------------------------------------------
(* The records another process finds *)

Records == \A u \in Users : UserRecords(u)

Entries == \A u \in Users : UserEntries(u)

CallsOf(u) == Lasts(fetching[u]) \cup Lasts(lockq[u])

HooksOf(u) == HookLasts(fetching[u]) \cup HookLasts(lockq[u])

\* The id a call carries is one of its messages.
LEMMA LastsAreIn ==
    ASSUME NEW q \in Seq(Call), Orderly(q)
    PROVE  Lasts(q) \subseteq CallsIn(q) /\ HookLasts(q) \subseteq Lasts(q)
<1>1. \A i \in DOMAIN q : q[i] \in Call
    OBVIOUS
<1> QED BY <1>1 DEF Lasts, HookLasts, CallsIn, Orderly, Call

\* The records of a user name messages of that user, none of them still in the
\* dispatch.
LEMMA CallsAreMine ==
    ASSUME TypeOK, FateInv, NEW u \in Users
    PROVE  /\ CallsOf(u) \subseteq Mine(u) /\ HooksOf(u) \subseteq CallsOf(u)
           /\ Room(u) \subseteq Mine(u) /\ Room(u) \cap CallsOf(u) = {}
           /\ Lasts(fetching[u]) \cap Lasts(lockq[u]) = {}
<1>1. /\ fetching[u] \in Seq(Call) /\ lockq[u] \in Seq(Call)
      /\ Orderly(fetching[u]) /\ Orderly(lockq[u]) /\ OnePlace(u)
    BY DEF TypeOK, FateInv, UserFates
<1>2. /\ Lasts(fetching[u]) \subseteq Fetched(u)
      /\ Lasts(lockq[u]) \subseteq Locked(u)
      /\ HookLasts(fetching[u]) \subseteq Lasts(fetching[u])
      /\ HookLasts(lockq[u]) \subseteq Lasts(lockq[u])
    BY <1>1, LastsAreIn DEF Fetched, Locked
<1>3. Room(u) \subseteq Mine(u)
    BY DEF Room
<1> QED BY <1>1, <1>2, <1>3 DEF OnePlace, CallsOf, HooksOf

\* A new call is recorded.
LEMMA CallRecorded ==
    ASSUME TypeOK, FateInv, NEW u \in Users, NEW c \in Call,
           c.last \in Ids(c.batch),
           Ids(c.batch) \cap (Fetched(u) \cup Locked(u)) = {}, StartCall(u, c)
    PROVE  /\ inFlight' = inFlight \cup {c.last}
           /\ CallsOf(u)' = CallsOf(u) \cup {c.last}
           /\ HooksOf(u)' \subseteq HooksOf(u) \cup {c.last}
           /\ c.src # "hook" => HooksOf(u)' \subseteq HooksOf(u)
           /\ \A v \in Users \ {u} : CallsOf(v)' = CallsOf(v) /\ HooksOf(v)' = HooksOf(v)
<1> DEFINE f == fetching[u]
           q == lockq[u]
<1>1. /\ f \in Seq(Call) /\ q \in Seq(Call)
      /\ Orderly(f) /\ Orderly(q)
      /\ CallsIn(f) \cap Ids(c.batch) = {} /\ CallsIn(q) \cap Ids(c.batch) = {}
    BY DEF TypeOK, FateInv, UserFates, Fetched, Locked
<1>2. /\ Lasts(Append(f, c)) = Lasts(f) \cup {c.last}
      /\ HookLasts(Append(f, c)) \subseteq HookLasts(f) \cup {c.last}
      /\ c.src # "hook" => HookLasts(Append(f, c)) \subseteq HookLasts(f)
    BY <1>1, CallEnters
<1>3. /\ Lasts(Append(q, c)) = Lasts(q) \cup {c.last}
      /\ HookLasts(Append(q, c)) \subseteq HookLasts(q) \cup {c.last}
      /\ c.src # "hook" => HookLasts(Append(q, c)) \subseteq HookLasts(q)
    BY <1>1, CallEnters
<1>4. \/ fetching'[u] = Append(f, c) /\ lockq'[u] = q
      \/ fetching'[u] = f /\ lockq'[u] = Append(q, c)
    BY DEF StartCall, TypeOK
<1>5. \A v \in Users \ {u} : fetching'[v] = fetching[v] /\ lockq'[v] = lockq[v]
    BY DEF StartCall, TypeOK
<1>6. inFlight' = inFlight \cup {c.last}
    BY DEF StartCall
<1> HIDE DEF f, q
<1>7. /\ CallsOf(u)' = CallsOf(u) \cup {c.last}
      /\ HooksOf(u)' \subseteq HooksOf(u) \cup {c.last}
      /\ c.src # "hook" => HooksOf(u)' \subseteq HooksOf(u)
    BY <1>2, <1>3, <1>4 DEF CallsOf, HooksOf, f, q
<1> QED BY <1>5, <1>6, <1>7 DEF CallsOf, HooksOf

\* The call of a text file.
LEMMA FileRecords ==
    ASSUME TypeOK, FateInv, NEW t \in disp, DispatchFile(t)
    PROVE  LET u == Sender[t.id]
           IN  /\ t.id \in Room(u) /\ u \in Users
               /\ \A v \in Users : Room(v)' = Room(v) \ {t.id}
               /\ inFlight' = inFlight \cup {t.id}
               /\ CallsOf(u)' = CallsOf(u) \cup {t.id}
               /\ HooksOf(u)' \subseteq HooksOf(u) \cup {t.id}
               /\ \A v \in Users \ {u} : CallsOf(v)' = CallsOf(v) /\ HooksOf(v)' = HooksOf(v)
<1> DEFINE m == t.id
           u == Sender[t.id]
           e == [id |-> m, media |-> 0]
           c == [last |-> m, batch |-> <<e>>, src |-> t.src]
<1>1. disp' = disp \ {t} /\ StartCall(u, c)
    BY DEF DispatchFile
<1>2. /\ m \in Msgs /\ u \in Users /\ m \in Room(u)
      /\ \A v \in Users : Room(v)' = Room(v) \ {m}
    BY <1>1, TaskLeaves DEF FateInv
<1>3. c \in Call
    <2>1. e \in Entry /\ t.src \in Sources
        BY <1>2 DEF Entry, MediaCap, TypeOK, Task, Sources
    <2>2. <<e>> \in Seq(Entry)
        BY <2>1
    <2> QED BY <1>2, <2>1, <2>2 DEF Call
<1>4. c.last = m /\ Ids(c.batch) = {m}
    BY DEF Ids
<1>5. Ids(c.batch) \cap (Fetched(u) \cup Locked(u)) = {}
    BY <1>2, <1>4 DEF FateInv, UserFates, OnePlace
<1> HIDE DEF m, u, c
<1>6. /\ inFlight' = inFlight \cup {m}
      /\ CallsOf(u)' = CallsOf(u) \cup {m}
      /\ HooksOf(u)' \subseteq HooksOf(u) \cup {m}
      /\ \A v \in Users \ {u} : CallsOf(v)' = CallsOf(v) /\ HooksOf(v)' = HooksOf(v)
    BY <1>1, <1>2, <1>3, <1>4, <1>5, CallRecorded
<1> QED BY <1>2, <1>6 DEF m, u

\* The call of a batch.
LEMMA FlushRecords ==
    ASSUME TypeOK, FateInv, NEW u \in Users, Flush(u)
    PROVE  /\ \A v \in Users : HooksOf(v)' \subseteq HooksOf(v)
           /\ \/ inFlight' = inFlight /\ \A v \in Users : CallsOf(v)' = CallsOf(v)
              \/ \E m \in Mine(u) :
                    /\ inFlight' = inFlight \cup {m}
                    /\ CallsOf(u)' = CallsOf(u) \cup {m}
                    /\ \A v \in Users \ {u} : CallsOf(v)' = CallsOf(v)
<1> DEFINE b == pend[u]
           c == [last |-> b[Len(b)].id, batch |-> b, src |-> "flush"]
<1>1. CASE b = <<>>
    BY <1>1 DEF Flush, CallsOf, HooksOf
<1>2. CASE b # <<>>
    <2>1. StartCall(u, c) /\ b \in Seq(Entry)
        BY <1>2 DEF Flush, TypeOK
    <2>2. c \in Call
        BY <1>2, <2>1, BatchCallType
    <2>3. c.last \in Ids(c.batch) /\ Ids(c.batch) = InBatch(u) /\ c.src # "hook"
        <3>1. Len(b) \in DOMAIN b
            BY <1>2, <2>1, EmptySeq, LenProperties
        <3> QED BY <3>1 DEF Ids, InBatch
    <2> HIDE DEF b, c
    <2>4. /\ Ids(c.batch) \cap (Fetched(u) \cup Locked(u)) = {}
          /\ c.last \in Mine(u)
        BY <2>3 DEF FateInv, UserFates, OnePlace
    <2> QED BY <2>1, <2>2, <2>3, <2>4, CallRecorded
<1> QED BY <1>1, <1>2

\* A call goes from the fetching ones to the lock, with its record.
LEMMA FetchRecords ==
    ASSUME TypeOK, FateInv, NEW u \in Users, FetchDone(u)
    PROVE  \A v \in Users : CallsOf(v)' = CallsOf(v) /\ HooksOf(v)' \subseteq HooksOf(v)
<1>1. PICK i \in DOMAIN fetching[u] :
             /\ lockq' = [lockq EXCEPT ![u] = Append(@, fetching[u][i])]
             /\ fetching' = [fetching EXCEPT ![u] = RemoveAt(@, i)]
    BY DEF FetchDone
<1> DEFINE f == fetching[u]
           q == lockq[u]
           c == f[i]
<1>2. /\ f \in Seq(Call) /\ q \in Seq(Call) /\ c \in Call
      /\ lockq'[u] = Append(q, c) /\ fetching'[u] = RemoveAt(f, i)
      /\ \A v \in Users \ {u} : lockq'[v] = lockq[v] /\ fetching'[v] = fetching[v]
    BY <1>1 DEF TypeOK
<1>3. Orderly(f) /\ Orderly(q) /\ CallsIn(f) \cap CallsIn(q) = {}
    BY DEF FateInv, UserFates, OnePlace, Fetched, Locked
<1>4. c.last \in Ids(c.batch) /\ Ids(c.batch) \subseteq CallsIn(f)
    <2>1. Ids(c.batch) \subseteq Msgs
        BY <1>2, IdsType DEF Call
    <2> QED BY <1>1, <1>3, <2>1 DEF Orderly, CallsIn
<1>5. /\ Lasts(Append(q, c)) = Lasts(q) \cup {c.last}
      /\ HookLasts(Append(q, c)) \subseteq HookLasts(q) \cup {c.last}
      /\ c.src # "hook" => HookLasts(Append(q, c)) \subseteq HookLasts(q)
    BY <1>2, <1>3, <1>4, CallEnters
<1>6. /\ Lasts(RemoveAt(f, i)) = Lasts(f) \ {c.last}
      /\ HookLasts(RemoveAt(f, i)) \subseteq HookLasts(f)
    BY <1>1, <1>2, <1>3, CallRemoved
<1>7. /\ c.last \in Lasts(f)
      /\ c.src = "hook" => c.last \in HookLasts(f)
    BY <1>1 DEF Lasts, HookLasts
<1> HIDE DEF f, q, c
<1>8. CallsOf(u)' = CallsOf(u) /\ HooksOf(u)' \subseteq HooksOf(u)
    BY <1>2, <1>5, <1>6, <1>7 DEF CallsOf, HooksOf, f, q
<1> QED BY <1>2, <1>8 DEF CallsOf, HooksOf

\* The record goes with the call.
LEMMA ReleaseRecords ==
    ASSUME TypeOK, SessionOwnsLock, FateInv, NEW u \in Users, Release(u)
    PROVE  \E m \in CallsOf(u) :
              /\ inFlight' = inFlight \ {m} /\ InboxWrite(rInbox \ {m})
              /\ CallsOf(u)' = CallsOf(u) \ {m}
              /\ HooksOf(u)' \subseteq HooksOf(u) \ {m}
              /\ \A v \in Users \ {u} : CallsOf(v)' = CallsOf(v) /\ HooksOf(v)' = HooksOf(v)
<1> DEFINE q == lockq[u]
           m == Head(q).last
<1>1. q \in Seq(Call) /\ q # <<>> /\ Orderly(q)
    BY DEF Release, TypeOK, SessionOwnsLock, FateInv, UserFates
<1>2. /\ lockq'[u] = Tail(q) /\ fetching' = fetching
      /\ \A v \in Users \ {u} : lockq'[v] = lockq[v]
      /\ inFlight' = inFlight \ {m} /\ InboxWrite(rInbox \ {m})
    BY DEF Release, TypeOK
<1>3. /\ Lasts(Tail(q)) = Lasts(q) \ {m}
      /\ HookLasts(Tail(q)) \subseteq HookLasts(q) \ {m}
    BY <1>1, HolderLeaves
<1>4. m \in Lasts(q)
    <2>1. 1 \in DOMAIN q /\ Head(q) = q[1]
        BY <1>1, EmptySeq, LenProperties
    <2> QED BY <2>1 DEF Lasts
<1>5. /\ fetching[u] \in Seq(Call) /\ Orderly(fetching[u])
      /\ Lasts(fetching[u]) \cap Lasts(q) = {}
    BY CallsAreMine DEF TypeOK, FateInv, UserFates
<1>6. HookLasts(fetching[u]) \subseteq Lasts(fetching[u])
    BY <1>5, LastsAreIn
<1> HIDE DEF q, m
<1>7. /\ m \in CallsOf(u) /\ CallsOf(u)' = CallsOf(u) \ {m}
      /\ HooksOf(u)' \subseteq HooksOf(u) \ {m}
    BY <1>2, <1>3, <1>4, <1>5, <1>6 DEF CallsOf, HooksOf, q
<1> QED BY <1>2, <1>7 DEF CallsOf, HooksOf

\* Every call has its record, step by step.
LEMMA RecordsInvariant ==
    TypeOK /\ SessionOwnsLock /\ FateInv /\ Records /\ [Next]_pipeVars => Records'
<1> SUFFICES ASSUME TypeOK, SessionOwnsLock, FateInv, Records, [Next]_pipeVars
             PROVE  Records'
    OBVIOUS
<1>1. \A u \in Users : /\ inFlight \cap Mine(u) = CallsOf(u)
                       /\ CallsOf(u) \subseteq Mine(u)
    BY CallsAreMine DEF Records, UserRecords, CallsOf
<1>2. SUFFICES \A v \in Users : inFlight' \cap Mine(v) = CallsOf(v)'
    BY DEF Records, UserRecords, CallsOf, Mine
<1>3. ASSUME UNCHANGED <<fetching, lockq, inFlight>>
      PROVE  \A v \in Users : inFlight' \cap Mine(v) = CallsOf(v)'
    BY <1>1, <1>3 DEF CallsOf
<1>4. ASSUME NEW t \in disp, DispatchFile(t)
      PROVE  \A v \in Users : inFlight' \cap Mine(v) = CallsOf(v)'
    BY <1>1, <1>4, FileRecords DEF Room, Mine
<1>5. ASSUME NEW u \in Users, Flush(u)
      PROVE  \A v \in Users : inFlight' \cap Mine(v) = CallsOf(v)'
    BY <1>1, <1>5, FlushRecords DEF Mine
<1>6. ASSUME NEW u \in Users, FetchDone(u)
      PROVE  \A v \in Users : inFlight' \cap Mine(v) = CallsOf(v)'
    BY <1>1, <1>6, FetchRecords DEF FetchDone
<1>7. ASSUME NEW u \in Users, Release(u)
      PROVE  \A v \in Users : inFlight' \cap Mine(v) = CallsOf(v)'
    <2>1. PICK m \in CallsOf(u) :
              /\ inFlight' = inFlight \ {m}
              /\ CallsOf(u)' = CallsOf(u) \ {m}
              /\ \A v \in Users \ {u} : CallsOf(v)' = CallsOf(v)
        BY <1>7, ReleaseRecords
    <2>2. \A v \in Users \ {u} : m \notin Mine(v)
        BY <1>1, Apart
    <2> QED BY <1>1, <2>1, <2>2
<1> QED
    BY <1>3, <1>4, <1>5, <1>6, <1>7
    DEF Next, UserStep, DispatchStep, Webhook, Ack, InboxExpire, DispatchEnqueue,
        DispatchReply, InjectDeliver, InjectGiveUp, Activate, LookupFail, Drain,
        ExitCheck, Nudge, EndSession, userVars, pipeVars

\* So has every message in its dispatch, and every text file, its inbox entry.
LEMMA EntriesInvariant ==
    ASSUME ~RedisMayFail, ~TtlMayPass
    PROVE  TypeOK /\ SessionOwnsLock /\ FateInv /\ Entries /\ [Next]_pipeVars
             => Entries'
<1> SUFFICES ASSUME TypeOK, SessionOwnsLock, FateInv, Entries, [Next]_pipeVars
             PROVE  Entries'
    OBVIOUS
<1>0. \A new : InboxWrite(new) => rInbox' = new
    BY DEF InboxWrite
<1>1. \A u \in Users : /\ Room(u) \cup HooksOf(u) \subseteq rInbox
                       /\ HooksOf(u) \subseteq Mine(u) /\ Room(u) \subseteq Mine(u)
                       /\ Room(u) \cap HooksOf(u) = {}
    BY CallsAreMine DEF Entries, UserEntries, HooksOf
<1>2. SUFFICES \A v \in Users : Room(v)' \cup HooksOf(v)' \subseteq rInbox'
    BY DEF Entries, UserEntries, HooksOf
<1> DEFINE Goal == \A v \in Users : Room(v)' \cup HooksOf(v)' \subseteq rInbox'
<1>3. ASSUME UNCHANGED <<disp, fetching, lockq, rInbox>>
      PROVE  Goal
    BY <1>1, <1>3 DEF HooksOf, Room, Mine
<1>4. ASSUME NEW m \in Msgs, Webhook(m)
      PROVE  Goal
    <2>1. CASE m \in seen
        BY <1>3, <1>4, <2>1 DEF Webhook, userVars
    <2>2. CASE m \notin seen
        <3>1. /\ disp' = disp \cup {[id |-> m, src |-> "hook", kind |-> Kind[m]]}
              /\ rInbox' = rInbox \cup {m} /\ UNCHANGED <<fetching, lockq>>
            BY <1>0, <1>4, <2>2 DEF Webhook, userVars
        <3>2. \A v \in Users : Room(v)' \subseteq Room(v) \cup {m}
            <4> DEFINE t == [id |-> m, src |-> "hook", kind |-> Kind[m]]
            <4>1. t.id = m /\ disp' = disp \cup {t}
                BY <3>1
            <4> HIDE DEF t
            <4> QED BY <4>1 DEF Room, Mine
        <3> QED BY <1>1, <3>1, <3>2 DEF HooksOf
    <2> QED BY <2>1, <2>2
<1>5. ASSUME NEW t \in disp, DispatchEnqueue(t) \/ DispatchReply(t)
      PROVE  Goal
    <2>1. /\ disp' = disp \ {t} /\ rInbox' = rInbox \ {t.id}
          /\ UNCHANGED <<fetching, lockq>>
        BY <1>0, <1>5 DEF DispatchEnqueue, DispatchReply, userVars
    <2>2. /\ Sender[t.id] \in Users /\ t.id \in Room(Sender[t.id])
          /\ \A v \in Users : Room(v)' = Room(v) \ {t.id}
        BY <2>1, TaskLeaves DEF FateInv
    <2>3. \A v \in Users : t.id \notin HooksOf(v)
        BY <1>1, <2>2 DEF Mine
    <2> QED BY <1>1, <2>1, <2>2, <2>3 DEF HooksOf
<1>6. ASSUME NEW t \in disp, DispatchFile(t)
      PROVE  Goal
    <2>1. rInbox' = rInbox
        BY <1>6 DEF DispatchFile
    <2> QED BY <1>1, <1>6, <2>1, FileRecords
<1>7. ASSUME NEW u \in Users, Flush(u)
      PROVE  Goal
    <2>1. rInbox' = rInbox /\ \A v \in Users : Room(v)' = Room(v)
        BY <1>7 DEF Flush, Room, Mine
    <2> QED BY <1>1, <1>7, <2>1, FlushRecords
<1>8. ASSUME NEW u \in Users, FetchDone(u)
      PROVE  Goal
    <2>1. rInbox' = rInbox /\ \A v \in Users : Room(v)' = Room(v)
        BY <1>8 DEF FetchDone, Room, Mine
    <2> QED BY <1>1, <1>8, <2>1, FetchRecords
<1>9. ASSUME NEW u \in Users, Release(u)
      PROVE  Goal
    <2>1. PICK m \in CallsOf(u) :
              /\ InboxWrite(rInbox \ {m})
              /\ HooksOf(u)' \subseteq HooksOf(u) \ {m}
              /\ \A v \in Users \ {u} : HooksOf(v)' = HooksOf(v)
        BY <1>9, ReleaseRecords
    <2>2. m \in Mine(u) /\ m \notin Room(u)
        BY CallsAreMine
    <2>3. \A v \in Users \ {u} : m \notin Room(v) \cup HooksOf(v)
        BY <1>1, <2>2 DEF Mine
    <2>4. \A v \in Users : Room(v)' = Room(v)
        BY <1>9 DEF Release, Room, Mine
    <2> QED BY <1>0, <1>1, <2>1, <2>2, <2>3, <2>4
<1> QED
    BY <1>3, <1>4, <1>5, <1>6, <1>7, <1>8, <1>9
    DEF Next, UserStep, DispatchStep, Ack, InboxExpire, InjectDeliver, InjectGiveUp,
        Activate, LookupFail, Drain, ExitCheck, Nudge, EndSession, userVars, pipeVars

LEMMA RecordsInit == Init => Records /\ Entries
<1> SUFFICES ASSUME Init, NEW u \in Users
             PROVE  UserRecords(u) /\ UserEntries(u)
    BY DEF Records, Entries
<1>1. fetching[u] = <<>> /\ lockq[u] = <<>> /\ disp = {} /\ inFlight = {}
    BY DEF Init
<1> QED BY <1>1 DEF UserRecords, UserEntries, Lasts, HookLasts, Room

\* get_in_flight_messages lists every call of _process_and_reply and nothing
\* else, in every reachable state and whatever Redis does (handler.py:171-173, 1366, 1380).
THEOREM CallsAreRecorded == Spec => []InFlightExact
<1>1. Records /\ TypeOK => InFlightExact
    <2> SUFFICES ASSUME Records, TypeOK
                 PROVE  InFlightExact
        OBVIOUS
    <2>1. \A u \in Users : CallsOf(u) = {c.last : c \in ToSet(fetching[u]) \cup ToSet(lockq[u])}
        BY DEF CallsOf, Lasts, ToSet
    <2>2. inFlight = UNION {CallsOf(u) : u \in Users}
        <3>1. \A m \in inFlight : Sender[m] \in Users /\ m \in Mine(Sender[m])
            BY PipelineAssumption DEF TypeOK, Mine
        <3> QED BY <3>1 DEF Records, UserRecords, CallsOf
    <2> QED BY <2>1, <2>2 DEF InFlightExact
<1>2. TypeOK /\ SessionOwnsLock /\ FateInv /\ Records /\ [Next]_pipeVars => Records'
    BY RecordsInvariant
<1>3. Init => Records
    BY RecordsInit
<1> QED BY <1>1, <1>2, <1>3, TypeCorrect, SessionsOwnLocks, MessagesHaveOnePlace, PTL
        DEF Spec

\* While Redis works and the 600s have not passed, what a stop leaves behind
\* names all calls under way and all accepted messages that are not yet queued
\* (handler.py:717, 1366; main.py:792).
THEOREM RecordsAreKept ==
    ASSUME ~RedisMayFail, ~TtlMayPass
    PROVE  Spec => []RecordsHold
<1>1. Entries /\ TypeOK => InboxCoversDispatch
    <2> SUFFICES ASSUME Entries, TypeOK
                 PROVE  InboxCoversDispatch
        OBVIOUS
    <2>1. \A m \in Msgs : Sender[m] \in Users /\ m \in Mine(Sender[m])
        BY PipelineAssumption DEF Mine
    <2>2. \A t \in disp : t.id \in rInbox
        BY <2>1 DEF TypeOK, Task, Entries, UserEntries, Room
    <2>3. ASSUME NEW u \in Users, NEW c \in ToSet(fetching[u]) \cup ToSet(lockq[u]),
                 c.src = "hook"
          PROVE  c.last \in rInbox
        BY <2>3 DEF Entries, UserEntries, HookLasts, ToSet
    <2> QED BY <2>2, <2>3 DEF InboxCoversDispatch
<1>2. TypeOK /\ SessionOwnsLock /\ FateInv /\ Entries /\ [Next]_pipeVars => Entries'
    BY EntriesInvariant
<1>3. Init => Entries
    BY RecordsInit
<1>4. InFlightExact /\ InboxCoversDispatch => RecordsHold
    BY DEF RecordsHold
<1> QED BY <1>1, <1>2, <1>3, <1>4, CallsAreRecorded, TypeCorrect, SessionsOwnLocks,
           MessagesHaveOnePlace, PTL DEF Spec

=============================================================================
