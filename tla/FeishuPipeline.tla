--------------------------- MODULE FeishuPipeline ---------------------------
(***************************************************************************)
(* The Feishu message pipeline of one bot process: the webhook handler     *)
(* app/webhook/handler.py with the per-user state of app/webhook/base.py.  *)
(* A message travels                                                       *)
(*                                                                         *)
(*   webhook -> dispatch task -> batch (pend) or running session (sess)    *)
(*           -> call of _process_and_reply -> per-user lock -> agent       *)
(*           -> reply -> lock released                                     *)
(*                                                                         *)
(* Everything runs on one asyncio event loop, so an action is the code     *)
(* between two awaits.  Crash and recovery are in FeishuRecovery, the lock *)
(* table behind "lockq" in UserLocks.                                      *)
(***************************************************************************)
EXTENDS Naturals, SequencesExt

CONSTANTS
    Users,          \* senders (tuk: tenant + open_id)
    Msgs,           \* Feishu messages; event_id and message_id are one name
    Sender,         \* [Msgs -> Users]
    Kind,           \* [Msgs -> Kinds], how _dispatch_message treats it
    Group,          \* the messages that come from a group chat
    RedisMayFail,   \* TRUE: a Redis call may do nothing (fail-open client)
    TtlMayPass      \* TRUE: the 600s TTLs of the Redis keys may pass

\* "text": enqueued at once.  "media": images, sound, video, documents, posts,
\* downloaded and then enqueued.  "file": a text file, downloaded, then
\* processed without batching.  "command": answered inside the dispatch, and
\* so are empty, merged-forward and unsupported messages.
Kinds == {"text", "media", "file", "command"}

ASSUME PipelineAssumption ==
    /\ Sender \in [Msgs -> Users]
    /\ Kind \in [Msgs -> Kinds]
    /\ Group \subseteq Msgs
    /\ RedisMayFail \in BOOLEAN
    /\ TtlMayPass \in BOOLEAN

VARIABLES
    acked,      \* messages for which Feishu holds our 200: never sent again
    answering,  \* messages whose 200 is on its way
    seen,       \* _dedup
    disp,       \* tasks inside _dispatch_message that have not enqueued yet
    pend,       \* _user_pending[u]
    timer,      \* _batch_timers[u] holds a live task
    inject,     \* live _inject_remaining tasks of u, each with its media
    fetching,   \* calls that fetch group history, before they ask the lock
    lockq,      \* calls that hold (head) or wait for the lock of u
    phase,      \* where the lock holder of u is
    active,     \* u \in _user_active, and _user_inboxes[u] exists
    sess,       \* content of _user_inboxes[u]
    inFlight,   \* keys of _in_flight
    rInbox,     \* Redis hash msg:inbox:{tenant}
    fed,        \* history: how often a message was given to the agent
    closed,     \* history: messages settled by a reply, or with nothing to answer
    lost        \* history: items discarded without a word to the user

pipeVars == <<acked, answering, seen, disp, pend, timer, inject, fetching,
              lockq, phase, active, sess, inFlight, rInbox, fed, closed, lost>>

userVars == <<pend, timer, inject, fetching, lockq, phase, active, sess>>

-----------------------------------------------------------------------------
(* Types *)

\* The history counter stops at FedCap: 2 already means "twice or more".
FedCap == 2

\* A post may carry several media; 2 stands for several.
MediaCap == 2

Phases == {"free", "lookup", "loop", "judge", "reply"}
Sources == {"flush", "hook", "rec"}

Task == [id : Msgs, src : {"hook", "rec"}, kind : Kinds]
Entry == [id : Msgs, media : 0..MediaCap]
Call == [last : Msgs, batch : Seq(Entry), src : Sources]
Item == [id : Msgs, part : {"message", "media"}]
Medium == [id : Msgs, part : {"media"}]

TypeOK ==
    /\ acked \subseteq Msgs
    /\ answering \subseteq Msgs
    /\ seen \subseteq Msgs
    /\ disp \subseteq Task
    /\ pend \in [Users -> Seq(Entry)]
    /\ timer \in [Users -> BOOLEAN]
    /\ inject \in [Users -> Seq(Seq(Medium))]
    /\ fetching \in [Users -> Seq(Call)]
    /\ lockq \in [Users -> Seq(Call)]
    /\ phase \in [Users -> Phases]
    /\ active \in [Users -> BOOLEAN]
    /\ sess \in [Users -> Seq(Item)]
    /\ inFlight \subseteq Msgs
    /\ rInbox \subseteq Msgs
    /\ fed \in [Msgs -> 0..FedCap]
    /\ closed \subseteq Msgs
    /\ lost \subseteq Item

Init ==
    /\ acked = {}
    /\ answering = {}
    /\ seen = {}
    /\ disp = {}
    /\ pend = [u \in Users |-> <<>>]
    /\ timer = [u \in Users |-> FALSE]
    /\ inject = [u \in Users |-> <<>>]
    /\ fetching = [u \in Users |-> <<>>]
    /\ lockq = [u \in Users |-> <<>>]
    /\ phase = [u \in Users |-> "free"]
    /\ active = [u \in Users |-> FALSE]
    /\ sess = [u \in Users |-> <<>>]
    /\ inFlight = {}
    /\ rInbox = {}
    /\ fed = [m \in Msgs |-> 0]
    /\ closed = {}
    /\ lost = {}

-----------------------------------------------------------------------------
(* Helpers *)

\* The messages of a sequence of entries or items.
Ids(s) == {s[i].id : i \in DOMAIN s}

\* HSET and HDEL on msg:inbox: without effect when the client is failing.
InboxWrite(new) == rInbox' \in {new} \cup (IF RedisMayFail THEN {rInbox} ELSE {})

\* _drain_inbox: the agent takes every queued item as new user input.
\* Only an item that is a message of its own counts as fed.
Consumed(s) == {s[i].id : i \in {j \in DOMAIN s : s[j].part = "message"}}

Feed(ms) ==
    fed' = [m \in Msgs |-> IF m \in ms /\ fed[m] < FedCap THEN fed[m] + 1 ELSE fed[m]]

-----------------------------------------------------------------------------
(* Webhook *)

\* Mutant of Webhook: the event id is not looked up.
WebhookNoDedup(m) ==
    /\ m \notin acked
    /\ answering' = answering \cup {m}
    /\ seen' = seen \cup {m}
    /\ InboxWrite(rInbox \cup {m})
    /\ disp' = disp \cup {[id |-> m, src |-> "hook", kind |-> Kind[m]]}
    /\ UNCHANGED <<acked, userVars, inFlight, fed, closed, lost>>

\* _handle_event_inner up to "return 200": dedup on the event id, entry in
\* the Redis inbox, dispatch task.  Feishu repeats a delivery as long as the
\* 200 of an earlier one has not arrived.
Webhook(m) ==
    /\ m \notin acked
    /\ answering' = answering \cup {m}
    /\ IF m \in seen
       THEN UNCHANGED <<seen, disp, rInbox>>
       ELSE /\ seen' = seen \cup {m}
            /\ InboxWrite(rInbox \cup {m})
            /\ disp' = disp \cup {[id |-> m, src |-> "hook", kind |-> Kind[m]]}
    /\ UNCHANGED <<acked, userVars, inFlight, fed, closed, lost>>

\* The 200 reaches Feishu, which will not deliver the message again.
Ack(m) ==
    /\ m \in answering
    /\ answering' = answering \ {m}
    /\ acked' = acked \cup {m}
    /\ UNCHANGED <<seen, disp, userVars, inFlight, rInbox, fed, closed, lost>>

\* EXPIRE msg:inbox 600 passes: the whole hash goes.
InboxExpire ==
    /\ TtlMayPass
    /\ rInbox # {}
    /\ rInbox' = {}
    /\ UNCHANGED <<acked, answering, seen, disp, userVars, inFlight, fed,
                   closed, lost>>

-----------------------------------------------------------------------------
(* Dispatch *)

\* Mutant of Enqueue: the old timer is cancelled, no new one is started.
EnqueueStopsTimer(u, e) ==
    IF active[u]
    THEN /\ sess' = [sess EXCEPT ![u] =
                        Append(@, [id |-> e.id, part |-> "message"])]
         /\ UNCHANGED <<pend, timer>>
    ELSE /\ pend' = [pend EXCEPT ![u] = Append(@, e)]
         /\ timer' = [timer EXCEPT ![u] = pend[u] = <<>>]
         /\ UNCHANGED sess

\* _enqueue_message: into the running session, or into the batch with the
\* timer restarted (the old one is cancelled, so one task is live).
Enqueue(u, e) ==
    IF active[u]
    THEN /\ sess' = [sess EXCEPT ![u] =
                        Append(@, [id |-> e.id, part |-> "message"])]
         /\ UNCHANGED <<pend, timer>>
    ELSE /\ pend' = [pend EXCEPT ![u] = Append(@, e)]
         /\ timer' = [timer EXCEPT ![u] = TRUE]
         /\ UNCHANGED sess

\* Mutant of StartCall: no lock is taken.
StartCallNoLock(u, c) ==
    /\ inFlight' = inFlight \cup {c.last}
    /\ IF c.last \in Group
       THEN /\ fetching' = [fetching EXCEPT ![u] = Append(@, c)]
            /\ UNCHANGED <<lockq, phase>>
       ELSE /\ lockq' = [lockq EXCEPT ![u] = Append(@, c)]
            /\ phase' = [phase EXCEPT ![u] = "lookup"]
            /\ UNCHANGED fetching

\* _process_and_reply up to its first await: in-flight record, then group
\* history or straight to the FIFO lock of the user.
StartCall(u, c) ==
    /\ inFlight' = inFlight \cup {c.last}
    /\ IF c.last \in Group
       THEN /\ fetching' = [fetching EXCEPT ![u] = Append(@, c)]
            /\ UNCHANGED <<lockq, phase>>
       ELSE /\ lockq' = [lockq EXCEPT ![u] = Append(@, c)]
            /\ phase' = [phase EXCEPT ![u] = IF @ = "free" THEN "lookup" ELSE @]
            /\ UNCHANGED fetching

\* A text, or a message with media once they are downloaded (none may be left:
\* a transcribed voice message, a post whose images failed): enqueue, and the
\* finally of _dispatch_message deletes the inbox entry.
DispatchEnqueue(t) ==
    /\ t \in disp
    /\ t.kind \in {"text", "media"}
    /\ disp' = disp \ {t}
    /\ \E n \in IF t.kind = "media" THEN 0..MediaCap ELSE {0} :
          Enqueue(Sender[t.id], [id |-> t.id, media |-> n])
    /\ InboxWrite(rInbox \ {t.id})
    /\ UNCHANGED <<acked, answering, seen, inject, fetching, lockq, phase,
                   active, inFlight, fed, closed, lost>>

\* Mutant of DispatchFile: the inbox entry goes when the call starts.
DispatchFileForgets(t) ==
    /\ t \in disp
    /\ t.kind = "file"
    /\ disp' = disp \ {t}
    /\ StartCall(Sender[t.id],
                 [last |-> t.id,
                  batch |-> <<[id |-> t.id, media |-> 0]>>,
                  src |-> t.src])
    /\ InboxWrite(rInbox \ {t.id})
    /\ UNCHANGED <<acked, answering, seen, pend, timer, inject, active, sess,
                   fed, closed, lost>>

\* A text file: _handle_file runs _process_and_reply inside the dispatch.
DispatchFile(t) ==
    /\ t \in disp
    /\ t.kind = "file"
    /\ disp' = disp \ {t}
    /\ StartCall(Sender[t.id],
                 [last |-> t.id,
                  batch |-> <<[id |-> t.id, media |-> 0]>>,
                  src |-> t.src])
    /\ UNCHANGED <<acked, answering, seen, pend, timer, inject, active, sess,
                   rInbox, fed, closed, lost>>

\* A command answers and returns; a failed download or an unreadable file
\* apologises and returns; a post with nothing in it just returns.  Each time
\* the finally deletes the entry.
DispatchReply(t) ==
    /\ t \in disp
    /\ t.kind # "text"
    /\ disp' = disp \ {t}
    /\ closed' = closed \cup {t.id}
    /\ InboxWrite(rInbox \ {t.id})
    /\ UNCHANGED <<acked, answering, seen, userVars, inFlight, fed, lost>>

-----------------------------------------------------------------------------
(* Batch window *)

\* The media of a batch, as pairs of position and number, in their order.
MediaOf(batch) ==
    {p \in (DOMAIN batch) \X (1..MediaCap) : p[2] <= batch[p[1]].media}

Before(p, q) == p[1] < q[1] \/ (p[1] = q[1] /\ p[2] < q[2])

\* Only the first travels with the text; the others are left to an
\* _inject_remaining task.
LaterMedia(batch) ==
    {p \in MediaOf(batch) : \E q \in MediaOf(batch) : Before(q, p)}

\* The one enumeration of a set of such pairs in their order.
InOrder(S) ==
    {f \in [1..Cardinality(S) -> S] :
        \A i, j \in 1..Cardinality(S) : i < j => Before(f[i], f[j])}

\* Mutant of MediaItems: whole batch entries go into the mailbox.
MediaEntries(batch, order) == [i \in DOMAIN order |-> batch[order[i][1]]]

MediaItems(batch, order) ==
    [i \in DOMAIN order |-> [id |-> batch[order[i][1]].id, part |-> "media"]]

\* _flush_after_wait: the window has passed, the batch becomes one call that
\* carries the id of its last message.
Flush(u) ==
    /\ timer[u]
    /\ timer' = [timer EXCEPT ![u] = FALSE]
    /\ pend' = [pend EXCEPT ![u] = <<>>]
    /\ IF pend[u] = <<>>
       THEN UNCHANGED <<inject, fetching, lockq, phase, inFlight>>
       ELSE /\ StartCall(u, [last |-> pend[u][Len(pend[u])].id,
                             batch |-> pend[u], src |-> "flush"])
            /\ IF LaterMedia(pend[u]) = {}
               THEN UNCHANGED inject
               ELSE \E order \in InOrder(LaterMedia(pend[u])) :
                      inject' = [inject EXCEPT ![u] =
                                   Append(@, MediaItems(pend[u], order))]
    /\ UNCHANGED <<acked, answering, seen, disp, active, sess, rInbox, fed,
                   closed, lost>>

\* _inject_remaining finds the user active and queues the media.
InjectDeliver(u) ==
    /\ active[u]
    /\ \E i \in DOMAIN inject[u] :
          /\ sess' = [sess EXCEPT ![u] = @ \o inject[u][i]]
          /\ inject' = [inject EXCEPT ![u] = RemoveAt(@, i)]
    /\ UNCHANGED <<acked, answering, seen, disp, pend, timer, fetching, lockq,
                   phase, active, inFlight, rInbox, fed, closed, lost>>

\* _inject_remaining polled for 10s and never saw the user active.
InjectGiveUp(u) ==
    /\ ~active[u]
    /\ \E i \in DOMAIN inject[u] :
          /\ inject' = [inject EXCEPT ![u] = RemoveAt(@, i)]
          /\ lost' = lost \cup ToSet(inject[u][i])
    /\ UNCHANGED <<acked, answering, seen, disp, pend, timer, fetching, lockq,
                   phase, active, sess, inFlight, rInbox, fed, closed>>

-----------------------------------------------------------------------------
(* _process_and_reply_inner *)

\* Group history has arrived; the call now asks for the user's lock.
FetchDone(u) ==
    /\ \E i \in DOMAIN fetching[u] :
          /\ lockq' = [lockq EXCEPT ![u] = Append(@, fetching[u][i])]
          /\ fetching' = [fetching EXCEPT ![u] = RemoveAt(@, i)]
    /\ phase' = [phase EXCEPT ![u] = IF @ = "free" THEN "lookup" ELSE @]
    /\ UNCHANGED <<acked, answering, seen, disp, pend, timer, inject, active,
                   sess, inFlight, rInbox, fed, closed, lost>>

\* The sender's name is known: activate, and route_message takes the batch.
Activate(u) ==
    /\ phase[u] = "lookup"
    /\ phase' = [phase EXCEPT ![u] = "loop"]
    /\ active' = [active EXCEPT ![u] = TRUE]
    /\ sess' = [sess EXCEPT ![u] = <<>>]
    /\ Feed(Ids(Head(lockq[u]).batch))
    /\ UNCHANGED <<acked, answering, seen, disp, pend, timer, inject, fetching,
                   lockq, inFlight, rInbox, closed, lost>>

\* wait_for cancels _do_work, or it raises, before the session exists: the
\* user gets an apology instead of an answer.
LookupFail(u) ==
    /\ phase[u] = "lookup"
    /\ phase' = [phase EXCEPT ![u] = "reply"]
    /\ closed' = closed \cup Ids(Head(lockq[u]).batch)
    /\ UNCHANGED <<acked, answering, seen, disp, pend, timer, inject, fetching,
                   lockq, active, sess, inFlight, rInbox, fed, lost>>

\* Mutant of Drain: the queue is read but not emptied.
DrainPeeks(u) ==
    /\ phase[u] = "loop"
    /\ sess[u] # <<>>
    /\ Feed(Consumed(sess[u]))
    /\ UNCHANGED <<acked, answering, seen, disp, pend, timer, inject, fetching,
                   lockq, phase, active, sess, inFlight, rInbox, closed, lost>>

\* Between two tool calls, or at the exit check, the loop takes the inbox.
Drain(u) ==
    /\ phase[u] = "loop"
    /\ sess[u] # <<>>
    /\ Feed(Consumed(sess[u]))
    /\ sess' = [sess EXCEPT ![u] = <<>>]
    /\ UNCHANGED <<acked, answering, seen, disp, pend, timer, inject, fetching,
                   lockq, phase, active, inFlight, rInbox, closed, lost>>

\* The model wants to stop and the exit check finds the inbox empty; the
\* exit governor is then awaited.
ExitCheck(u) ==
    /\ phase[u] = "loop"
    /\ sess[u] = <<>>
    /\ phase' = [phase EXCEPT ![u] = "judge"]
    /\ UNCHANGED <<acked, answering, seen, disp, pend, timer, inject, fetching,
                   lockq, active, sess, inFlight, rInbox, fed, closed, lost>>

\* The exit governor sends the agent back to work.
Nudge(u) ==
    /\ phase[u] = "judge"
    /\ phase' = [phase EXCEPT ![u] = "loop"]
    /\ UNCHANGED <<acked, answering, seen, disp, pend, timer, inject, fetching,
                   lockq, active, sess, inFlight, rInbox, fed, closed, lost>>

\* Mutant of EndSession: deactivate is not called.
EndSessionStaysActive(u) ==
    /\ phase[u] \in {"loop", "judge"}
    /\ phase' = [phase EXCEPT ![u] = "reply"]
    /\ UNCHANGED <<acked, answering, seen, disp, pend, timer, inject, fetching,
                   lockq, active, sess, inFlight, rInbox, fed, closed, lost>>

\* route_message returns, fails, is refused or times out: deactivate drops
\* the inbox with whatever is still in it.
EndSession(u) ==
    /\ phase[u] \in {"loop", "judge"}
    /\ phase' = [phase EXCEPT ![u] = "reply"]
    /\ active' = [active EXCEPT ![u] = FALSE]
    /\ lost' = lost \cup ToSet(sess[u])
    /\ sess' = [sess EXCEPT ![u] = <<>>]
    /\ UNCHANGED <<acked, answering, seen, disp, pend, timer, inject, fetching,
                   lockq, inFlight, rInbox, fed, closed>>

\* Mutant of Release: the in-flight record stays.
ReleaseKeepsRecord(u) ==
    /\ phase[u] = "reply"
    /\ lockq' = [lockq EXCEPT ![u] = Tail(@)]
    /\ phase' = [phase EXCEPT ![u] =
                    IF Len(lockq[u]) > 1 THEN "lookup" ELSE "free"]
    /\ closed' = closed \cup Ids(Head(lockq[u]).batch)
    /\ InboxWrite(rInbox \ {Head(lockq[u]).last})
    /\ UNCHANGED <<acked, answering, seen, disp, pend, timer, inject, fetching,
                   active, sess, inFlight, fed, lost>>

\* Mutant of Release: the next waiter is not woken.
ReleaseNoWake(u) ==
    /\ phase[u] = "reply"
    /\ lockq' = [lockq EXCEPT ![u] = Tail(@)]
    /\ phase' = [phase EXCEPT ![u] = "free"]
    /\ inFlight' = inFlight \ {Head(lockq[u]).last}
    /\ closed' = closed \cup Ids(Head(lockq[u]).batch)
    /\ InboxWrite(rInbox \ {Head(lockq[u]).last})
    /\ UNCHANGED <<acked, answering, seen, disp, pend, timer, inject, fetching,
                   active, sess, fed, lost>>

\* The reply is out: the lock passes to the next waiter and the finally of
\* _process_and_reply clears the in-flight record and the inbox entry.
Release(u) ==
    /\ phase[u] = "reply"
    /\ lockq' = [lockq EXCEPT ![u] = Tail(@)]
    /\ phase' = [phase EXCEPT ![u] =
                    IF Len(lockq[u]) > 1 THEN "lookup" ELSE "free"]
    /\ inFlight' = inFlight \ {Head(lockq[u]).last}
    /\ closed' = closed \cup Ids(Head(lockq[u]).batch)
    /\ InboxWrite(rInbox \ {Head(lockq[u]).last})
    /\ UNCHANGED <<acked, answering, seen, disp, pend, timer, inject, fetching,
                   active, sess, fed, lost>>

-----------------------------------------------------------------------------
(* Specification *)

\* One asyncio step of the process.
UserStep(u) ==
    \/ Flush(u) \/ InjectDeliver(u) \/ InjectGiveUp(u) \/ FetchDone(u)
    \/ Activate(u) \/ LookupFail(u) \/ Drain(u) \/ ExitCheck(u) \/ Nudge(u)
    \/ EndSession(u) \/ Release(u)

DispatchStep(t) == DispatchEnqueue(t) \/ DispatchFile(t) \/ DispatchReply(t)

Next ==
    \/ \E m \in Msgs : Webhook(m) \/ Ack(m)
    \/ \E t \in disp : DispatchStep(t)
    \/ \E u \in Users : UserStep(u)
    \/ InboxExpire

Spec == Init /\ [][Next]_pipeVars

\* The event loop runs every ready task, timers fire, downloads and history
\* fetches end, and wait_for ends every session within 600s.  No fairness on
\* webhooks (the users), Nudge or the expiry.
Fairness ==
    /\ \A m \in Msgs :
          /\ WF_pipeVars(Ack(m))
          /\ WF_pipeVars(\E t \in disp : t.id = m /\ DispatchStep(t))
    /\ \A u \in Users :
          /\ WF_pipeVars(Flush(u))
          /\ WF_pipeVars(InjectDeliver(u) \/ InjectGiveUp(u))
          /\ WF_pipeVars(FetchDone(u))
          /\ WF_pipeVars(Activate(u) \/ LookupFail(u))
          /\ WF_pipeVars(EndSession(u))
          /\ WF_pipeVars(Release(u))

FairSpec == Spec /\ Fairness

-----------------------------------------------------------------------------
(* Safety *)

\* _user_pending and _batch_timers agree: a batched message always has a live
\* timer, and no timer outlives its batch (handler.py, _enqueue_message and
\* _flush_after_wait).
TimerIffPending == \A u \in Users : timer[u] <=> pend[u] # <<>>

\* _user_active is exactly the lock holder's session; a message can only sit
\* in the mailbox of a session that is still going to look at it or to drop it.
SessionOwnsLock ==
    \A u \in Users :
        /\ phase[u] = "free" <=> lockq[u] = <<>>
        /\ active[u] <=> phase[u] \in {"loop", "judge"}
        /\ ~active[u] => sess[u] = <<>>

\* Nothing a user has written waits where nobody looks: in a batch without a
\* timer or in a mailbox without a session, whatever flushes, calls, lock waits
\* and exits interleave (handler.py:1181-1288, base.py:330-354).
NothingUnattended == TimerIffPending /\ SessionOwnsLock

\* get_in_flight_messages, which heartbeat, _shutdown and self_safe_deploy
\* save, lists every call of _process_and_reply and nothing else.
InFlightExact ==
    inFlight = UNION {{c.last : c \in ToSet(fetching[u]) \cup ToSet(lockq[u])} :
                        u \in Users}

\* What is inside the process for user u and not yet given to the agent.
CallsNotFed(u) ==
    ToSet(fetching[u])
      \cup {lockq[u][i] : i \in {j \in DOMAIN lockq[u] : j > 1 \/ phase[u] = "lookup"}}

Waiting ==
    {t.id : t \in disp}
      \cup UNION {Ids(pend[u]) \cup Consumed(sess[u])
                    \cup UNION {Ids(c.batch) : c \in CallsNotFed(u)} : u \in Users}

Fed == {m \in Msgs : fed[m] > 0}

\* The messages among the lost items.
LostMsgs == {x.id : x \in {y \in lost : y.part = "message"}}

\* Every accepted message has exactly one fate at a time: it waits somewhere,
\* or it was given to the agent or answered, or it was dropped; and the agent
\* is never given the same message twice.
ExactlyOneFate ==
    /\ seen = Waiting \cup Fed \cup closed \cup LostMsgs
    /\ Waiting \cap (Fed \cup closed \cup LostMsgs) = {}
    /\ LostMsgs \cap (Fed \cup closed) = {}
    /\ \A m \in Msgs : fed[m] <= 1

\* What the inbox entry does cover while Redis works and its TTL has not
\* passed: the dispatch of a message up to the enqueue, and a text file until
\* its call is over.
InboxCoversDispatch ==
    /\ {t.id : t \in disp} \subseteq rInbox
    /\ \A u \in Users : \A c \in ToSet(fetching[u]) \cup ToSet(lockq[u]) :
          c.src = "hook" => c.last \in rInbox

\* What a shutdown or a kill leaves for the next process: the in-flight records
\* name the calls under way, and the inbox what was accepted and not yet queued
\* (handler.py:392-399, 717, 1366; main.py:792).
RecordsHold == InFlightExact /\ InboxCoversDispatch

\* The claim of gemini_provider.py at the exit check ("a new message sent during
\* the API call must not be lost"): a session that leaves through the exit
\* check has an empty mailbox.
ExitLosesNothing ==
    [][\A u \in Users :
         phase[u] = "judge" /\ phase[u]' = "reply" => sess[u] = <<>>]_pipeVars

\* Only the end of a session drops a message, and a mailbox is only emptied by
\* the agent reading it or by that end: a new session never starts over one
\* that still holds messages.
MailboxNotOverwritten ==
    [][\A u \in Users :
         /\ LostMsgs' # LostMsgs => \E v \in Users : active[v] /\ ~active[v]'
         /\ Consumed(sess[u]) # {} /\ sess[u]' = <<>> =>
              Consumed(sess[u]) \subseteq Fed' \cup LostMsgs']_pipeVars

-----------------------------------------------------------------------------
(* Liveness *)

Settled(m) == m \in Fed \cup closed \cup LostMsgs

\* A message whose delivery was acknowledged is eventually given to the agent,
\* answered or, at worst, dropped with its session: it never rests in a batch
\* nobody flushes or behind a lock nobody releases.
AckedIsSettled == \A m \in Msgs : m \in acked ~> Settled(m)

-----------------------------------------------------------------------------
(* Refinement *)

\* The pipeline implements the ledger in which every message is accepted
\* once and taken or dropped once.
Ledger == INSTANCE MessageLedger WITH
              waiting <- Waiting,
              settled <- Fed \cup closed,
              dropped <- LostMsgs

LedgerSpec == Ledger!Spec

=============================================================================
