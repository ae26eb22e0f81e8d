--------------------------- MODULE FeishuRecovery ---------------------------
(***************************************************************************)
(* The pipeline of one process through shutdowns, kills and restarts:      *)
(* app/main.py (_heartbeat_loop, _recover_missed_messages, _shutdown) and  *)
(* _save_pending_task_for_restart of app/tools/self_ops.py, around the     *)
(* actions of FeishuPipeline.  Redis survives a restart, everything else   *)
(* starts empty.                                                           *)
(***************************************************************************)
EXTENDS FeishuPipeline

CONSTANTS
    MaxDeaths,      \* bound on the number of times the process ends
    KillAllowed,    \* TRUE: SIGKILL as well as graceful shutdown
    BeatAllowed,    \* TRUE: the 10-minute heartbeat falls into the behaviour
    DeployAllowed,  \* TRUE: agents call self_safe_deploy
    FirstStage      \* recovery stage of the first process: "scan" from its
                    \* very start, "done" from later in its life

ASSUME RecoveryAssumption ==
    /\ MaxDeaths \in Nat
    /\ {KillAllowed, BeatAllowed, DeployAllowed} \subseteq BOOLEAN
    /\ FirstStage \in {"scan", "done"}

VARIABLES
    up,         \* "up", "stopping" (state saved, tasks still run), "down"
    deaths,
    rec,        \* where _recover_missed_messages is
    todo,       \* what its current loop has still to handle
    recovered,  \* inbox_recovered_ids and resume_msg_ids
    rInFlight,  \* Redis bot:in_flight
    rPending,   \* Redis bot:pending_batch
    rResume,    \* Redis bot:pending_resume
    told        \* history: messages whose sender was told to send again

savedVars == <<rInFlight, rPending, rResume>>
recVars == <<up, deaths, rec, todo, recovered, savedVars, told>>
allVars == <<pipeVars, recVars>>

RecStages == {"scan", "inbox", "resuming", "telling", "batching", "done"}

RecTypeOK ==
    /\ up \in {"up", "stopping", "down"}
    /\ deaths \in 0..MaxDeaths
    /\ rec \in RecStages
    /\ todo \subseteq Msgs
    /\ recovered \subseteq Msgs
    /\ rInFlight \subseteq Msgs
    /\ rPending \subseteq Msgs
    /\ rResume \subseteq Msgs
    /\ told \subseteq Msgs

RecInit ==
    /\ Init
    /\ up = "up"
    /\ deaths = 0
    /\ rec = FirstStage
    /\ todo = {}
    /\ recovered = {}
    /\ rInFlight = {}
    /\ rPending = {}
    /\ rResume = {}
    /\ told = {}

-----------------------------------------------------------------------------
(* Redis *)

\* A GET or HGETALL of S, and a DEL of a key that holds S, with a client that
\* may fail: nothing is read, or the key stays.
Got(S) == {S} \cup (IF RedisMayFail THEN {{}} ELSE {})
Del(S) == {{}} \cup (IF RedisMayFail THEN {S} ELSE {})

\* A SET that may fail.
Put(old, new) == {new} \cup (IF RedisMayFail THEN {old} ELSE {})

-----------------------------------------------------------------------------
(* The running process *)

\* The pipeline runs until the process is gone; requests are only accepted
\* while it is up.
Running ==
    /\ \/ up = "up" /\ \E m \in Msgs : Webhook(m)
       \/ up # "down" /\ \/ \E m \in Msgs : Ack(m)
                         \/ \E t \in disp : DispatchStep(t)
                         \/ \E u \in Users : UserStep(u)
       \/ InboxExpire
    /\ UNCHANGED recVars

\* _heartbeat_loop: SET bot:in_flight, or DEL it when nothing is in flight.
Heartbeat ==
    /\ BeatAllowed
    /\ up = "up"
    /\ rInFlight # inFlight
    /\ rInFlight' = inFlight
    /\ UNCHANGED <<pipeVars, up, deaths, rec, todo, recovered, rPending,
                   rResume, told>>

\* Mutant of SafeDeploy: the calls are saved, not the ids of their messages.
SafeDeployCalls(u) ==
    /\ DeployAllowed
    /\ up = "up"
    /\ phase[u] = "loop"
    /\ inFlight # {}
    /\ rResume' \in Put(rResume, ToSet(lockq[u]))
    /\ UNCHANGED <<pipeVars, up, deaths, rec, todo, recovered, rInFlight,
                   rPending, told>>

\* self_safe_deploy, called by an agent: every call in flight is saved to be
\* resumed after the deployment restarts the process.
SafeDeploy(u) ==
    /\ DeployAllowed
    /\ up = "up"
    /\ phase[u] = "loop"
    /\ inFlight # {}
    /\ rResume' \in Put(rResume, inFlight)
    /\ UNCHANGED <<pipeVars, up, deaths, rec, todo, recovered, rInFlight,
                   rPending, told>>

\* The TTL (600s) of a saved key passes.
SavedExpire ==
    /\ TtlMayPass
    /\ \/ rInFlight' = {} /\ UNCHANGED <<rPending, rResume>>
       \/ rPending' = {} /\ UNCHANGED <<rInFlight, rResume>>
       \/ rResume' = {} /\ UNCHANGED <<rInFlight, rPending>>
    /\ UNCHANGED <<pipeVars, up, deaths, rec, todo, recovered, told>>

-----------------------------------------------------------------------------
(* Death and restart *)

\* get_pending_batch_messages: the ids of what waits in the batches.
Batched == UNION {Ids(pend[u]) : u \in Users}

\* _shutdown: what is in flight and what is batched goes to Redis; an empty
\* set is not written, so an older value stays.
Shutdown ==
    /\ up = "up"
    /\ deaths < MaxDeaths
    /\ up' = "stopping"
    /\ rInFlight' \in IF inFlight # {} THEN Put(rInFlight, inFlight) ELSE {rInFlight}
    /\ rPending' \in IF Batched # {} THEN Put(rPending, Batched) ELSE {rPending}
    /\ UNCHANGED <<pipeVars, deaths, rec, todo, recovered, rResume, told>>

\* The messages recovery itself is dispatching.
RecTasks ==
    {t.id : t \in {x \in disp : x.src = "rec"}}
      \cup {c.last : c \in {x \in UNION {ToSet(fetching[u]) \cup ToSet(lockq[u])
                                           : u \in Users} : x.src = "rec"}}

\* The process ends: its memory is gone.
Forget ==
    /\ answering' = {}
    /\ seen' = {}
    /\ disp' = {}
    /\ pend' = [u \in Users |-> <<>>]
    /\ timer' = [u \in Users |-> FALSE]
    /\ inject' = [u \in Users |-> <<>>]
    /\ fetching' = [u \in Users |-> <<>>]
    /\ lockq' = [u \in Users |-> <<>>]
    /\ phase' = [u \in Users |-> "free"]
    /\ active' = [u \in Users |-> FALSE]
    /\ sess' = [u \in Users |-> <<>>]
    /\ inFlight' = {}
    /\ up' = "down"
    /\ deaths' = deaths + 1
    /\ rec' = "scan"
    /\ todo' = {}
    /\ recovered' = {}
    /\ UNCHANGED <<acked, fed, closed, lost, savedVars, told>>

\* End of a graceful shutdown.  The recovery task is cancelled, so the finally
\* blocks of the dispatch it is in delete that inbox entry; the other tasks
\* are not cancelled but disappear with the process.
Stop ==
    /\ up = "stopping"
    /\ Forget
    /\ rInbox' = rInbox \ RecTasks

\* SIGKILL, out of memory, power: no handler runs.
Kill ==
    /\ KillAllowed
    /\ up # "down"
    /\ deaths < MaxDeaths
    /\ Forget
    /\ UNCHANGED rInbox

\* The process is up again.  The heartbeat task runs at once, with nothing in
\* flight, and deletes bot:in_flight; recovery waits 10s first.
Start ==
    /\ up = "down"
    /\ up' = "up"
    /\ rInFlight' \in Del(rInFlight)
    /\ UNCHANGED <<pipeVars, deaths, rec, todo, recovered, rPending, rResume, told>>

-----------------------------------------------------------------------------
(* _recover_missed_messages *)

\* Recovery awaits the dispatch it started, a text file to its very end.
RecIdle == up = "up" /\ RecTasks = {}

RecKeep == UNCHANGED <<up, deaths>>

\* Mutant of Redispatch: the live dispatch tasks are dropped.
RedispatchAlone(m, k) ==
    /\ todo' = todo \ {m}
    /\ disp' = {[id |-> m, src |-> "rec", kind |-> k]}
    /\ UNCHANGED <<acked, answering, seen, userVars, inFlight, rInbox, fed,
                   closed, lost, rec, told, savedVars>>

\* Recovery hands m to _dispatch_message, as a message of kind k.
Redispatch(m, k) ==
    /\ todo' = todo \ {m}
    /\ disp' = disp \cup {[id |-> m, src |-> "rec", kind |-> k]}
    /\ UNCHANGED <<acked, answering, seen, userVars, inFlight, rInbox, fed,
                   closed, lost, rec, told, savedVars>>

\* GET and DEL bot:pending_batch; then the scan of the chats for messages
\* missed during the downtime, where the first candidate raises
\* AttributeError (wh._processed_event_ids does not exist), which is logged.
ToBatch ==
    \E got \in Got(rPending) :
        /\ todo' = got
        /\ IF got # {}
           THEN rec' = "batching" /\ rPending' \in Del(rPending)
           ELSE rec' = "done" /\ UNCHANGED rPending

\* Mutant of ToTell: what was recovered before is not filtered out.
ToTellAll ==
    \E got \in Got(rInFlight) :
        IF got # {}
        THEN /\ rInFlight' \in Del(rInFlight)
             /\ rec' = "telling"
             /\ todo' = got
             /\ UNCHANGED rPending
        ELSE UNCHANGED rInFlight /\ ToBatch

\* Mutant of ToTell: nothing to tell ends the recovery.
ToTellAndStop ==
    \E got \in Got(rInFlight) :
        /\ IF got # {} THEN rInFlight' \in Del(rInFlight) ELSE UNCHANGED rInFlight
        /\ todo' = got \ recovered
        /\ rec' = IF todo' # {} THEN "telling" ELSE "done"
        /\ UNCHANGED rPending

\* GET and DEL bot:in_flight; what was recovered before is filtered out.
ToTell ==
    \E got \in Got(rInFlight) :
        /\ IF got # {} THEN rInFlight' \in Del(rInFlight) ELSE UNCHANGED rInFlight
        /\ IF got \ recovered # {}
           THEN rec' = "telling" /\ todo' = got \ recovered /\ UNCHANGED rPending
           ELSE ToBatch

\* GET and DEL bot:pending_resume.
ToResume ==
    \E got \in Got(rResume) :
        IF got # {}
        THEN /\ rec' = "resuming"
             /\ todo' = got
             /\ rResume' \in Del(rResume)
             /\ UNCHANGED <<rInFlight, rPending>>
        ELSE UNCHANGED rResume /\ ToTell

\* After the start-up delay: HGETALL msg:inbox.  Nothing there skips the loop
\* and the DEL; there is no await before the next key that holds something.
RecScan ==
    /\ RecIdle /\ rec = "scan"
    /\ \E got \in Got(rInbox) :
          IF got # {}
          THEN rec' = "inbox" /\ todo' = got /\ UNCHANGED savedVars
          ELSE ToResume
    /\ RecKeep
    /\ UNCHANGED <<pipeVars, recovered, told>>

RecInbox(m) ==
    /\ RecIdle /\ rec = "inbox" /\ m \in todo
    /\ Redispatch(m, Kind[m])
    /\ recovered' = recovered \cup {m}
    /\ RecKeep

\* An entry older than 660s, kept alive by the EXPIRE of later writes, is
\* discarded.
RecInboxOld(m) ==
    /\ TtlMayPass
    /\ RecIdle /\ rec = "inbox" /\ m \in todo
    /\ todo' = todo \ {m}
    /\ InboxWrite(rInbox \ {m})
    /\ RecKeep
    /\ UNCHANGED <<acked, answering, seen, disp, userVars, inFlight, fed,
                   closed, lost, rec, recovered, savedVars, told>>

\* After the loop the whole hash is deleted.
RecInboxDel ==
    /\ RecIdle /\ rec = "inbox" /\ todo = {}
    /\ InboxWrite({})
    /\ ToResume
    /\ RecKeep
    /\ UNCHANGED <<acked, answering, seen, disp, userVars, inFlight, fed,
                   closed, lost, recovered, told>>

\* Each saved task again, as a text with a "continue" prefix.
RecResume(m) ==
    /\ RecIdle /\ rec = "resuming" /\ m \in todo
    /\ Redispatch(m, "text")
    /\ recovered' = recovered \cup {m}
    /\ RecKeep

RecResumeEnd ==
    /\ RecIdle /\ rec = "resuming" /\ todo = {}
    /\ ToTell
    /\ RecKeep
    /\ UNCHANGED <<pipeVars, recovered, rResume, told>>

\* The sender of an interrupted request is asked to send it again; after the
\* last one recovery goes on to the saved batches.
RecTell(m) ==
    /\ RecIdle /\ rec = "telling" /\ m \in todo
    /\ told' = told \cup {m}
    /\ IF todo = {m}
       THEN ToBatch
       ELSE todo' = todo \ {m} /\ UNCHANGED <<rec, rPending>>
    /\ RecKeep
    /\ UNCHANGED <<pipeVars, recovered, rInFlight, rResume>>

\* Each batched message again, as a text.
RecBatch(m) ==
    /\ RecIdle /\ rec = "batching" /\ m \in todo
    /\ Redispatch(m, "text")
    /\ RecKeep
    /\ UNCHANGED recovered

RecBatchEnd ==
    /\ RecIdle /\ rec = "batching" /\ todo = {}
    /\ rec' = "done"
    /\ RecKeep
    /\ UNCHANGED <<pipeVars, todo, recovered, savedVars, told>>

RecStep ==
    \/ RecScan \/ RecInboxDel \/ RecResumeEnd \/ RecBatchEnd
    \/ \E m \in Msgs :
          \/ RecInbox(m) \/ RecInboxOld(m) \/ RecResume(m)
          \/ RecTell(m) \/ RecBatch(m)

RecNext ==
    \/ Running \/ Heartbeat \/ SavedExpire \/ Shutdown \/ Stop \/ Kill \/ Start
    \/ RecStep
    \/ \E u \in Users : SafeDeploy(u)

RecSpec == RecInit /\ [][RecNext]_allVars

\* The event loop runs what is ready, recovery goes on, a process that ends is
\* restarted (docker restart policy, Railway).  Nothing forces a shutdown, a
\* kill, a heartbeat or an expiry.
RecFairness ==
    /\ Fairness
    /\ WF_allVars(RecStep)
    /\ WF_allVars(Stop)
    /\ WF_allVars(Start)

FairRecSpec == RecSpec /\ RecFairness

-----------------------------------------------------------------------------
(* Safety *)

\* While recovery re-dispatches next to live webhooks, in-flight records never
\* outlive their calls: no request is saved, and no user told to send it
\* again, after its call has ended.  With the same message in two calls the
\* record may go early, but never stays.
InFlightSound ==
    inFlight \subseteq
        UNION {{c.last : c \in ToSet(fetching[u]) \cup ToSet(lockq[u])} :
                 u \in Users}

\* An accepted message can be found somewhere until it is answered: in memory,
\* in Redis, or known lost; only a death makes it vanish.
OnlyDeathLoses ==
    [][\A m \in Msgs :
         m \in Waiting /\ m \notin Waiting' =>
            \/ m \in Fed' \cup closed' \cup LostMsgs'
            \/ deaths' > deaths]_allVars

\* The claim of _save_pending_task_for_restart ("continue the unfinished work
\* after the restart"): what recovery resumes has not been answered yet.
ResumesUnfinished ==
    [][\A m \in Msgs :
         rec = "resuming" /\ m \in todo \ todo' => m \notin closed]_allVars

\* Nobody is asked to send a message again that recovery has itself given back
\* to the bot: the three saved sets overlap and are read with awaits between.
TellsOnlyUnrecovered ==
    [][\A m \in told' \ told : m \notin recovered]_allVars

-----------------------------------------------------------------------------
(* Liveness *)

\* After the last death, what the inbox or the saved batch holds when the
\* process comes up is worked off: answered, given to the agent or dropped.
PersistedIsRecovered ==
    \A m \in Msgs :
        deaths = MaxDeaths /\ up = "down" /\ m \in rInbox \cup rPending ~> Settled(m)

\* The claim of _shutdown ("save in-flight requests to Redis, so that the users
\* can be told to send again after the restart"): whoever waits for an answer
\* and is in the saved set when the process comes up is told, or recovered
\* from another key.
InterruptedIsTold ==
    \A m \in Msgs :
        deaths = MaxDeaths /\ up = "down" /\ m \in rInFlight \ closed
            ~> m \in told \cup recovered

=============================================================================
