------------------------------- MODULE WecomKf -------------------------------
(***************************************************************************)
(* WeCom customer service (app/webhook/wecom_kf_handler.py): a callback    *)
(* only says that there is something new; the messages are pulled from a   *)
(* feed page by page, from a cursor kept in Redis.  Every callback starts  *)
(* a pull of its own, so several walk the same feed at once, and only the  *)
(* in-memory dedup keeps a message from being handled twice.  Messages are *)
(* batched, and handled in one session at a time, as in FeishuPipeline,    *)
(* but nothing is kept in Redis for them.  One customer of one tenant;     *)
(* time is left out, so any message may be found stale and any callback    *)
(* may be one that is not ignored as a repeat. An image without a media_id *)
(* (answered in place, wecom_kf_handler.py:607) does not come.             *)
(***************************************************************************)
EXTENDS Naturals, Sequences, FiniteSets

CONSTANTS Kind,      \* the feed: a sequence of "text" and "image" messages
          PageSize,  \* limit of a sync_msg call
          MaxCache,  \* capacity of the dedup set
          Pulls,     \* bound: the pulls that may be under way at once
          MaxCalls,  \* bound: callbacks that start a pull
          MaxKfCrashes \* bound: deaths of the process

ASSUME KfConstants ==
  /\ Kind \in Seq({"text", "image"}) /\ PageSize \in Nat
  /\ MaxCache \in Nat /\ MaxCache >= 2
  /\ MaxCalls \in Nat /\ MaxKfCrashes \in Nat

Feed == 1 .. Len(Kind)

VARIABLES
  came,     \* the messages 1 .. came are in the feed
  up,       \* whether the process is alive
  cursor,   \* kf_sync in Redis; 0 is "no cursor"
  pull,     \* the running _pull_and_process tasks
  dedup,    \* _dedup
  batch,    \* _user_pending and
  timer,    \* _batch_timers of the customer
  lockq,    \* batches waiting for the customer's lock
  sess,     \* whether a call holds it and its session is active
  mailbox,  \* the inbox of the active session
  later,    \* images that _inject_remaining has yet to put there
  calls, kfCrashes,
  settled,  \* history: messages a pull has dealt with, in any life: handed on, found
            \* stale, or asked for again
  missed,   \* history: messages before the saved cursor that were being downloaded when
            \* the process died
  handled,  \* history: messages handed on in this life
  twice,    \* history: messages handed on again in the same life
  pruned    \* history: messages the full dedup set dropped in this life

pullVars == <<came, up, cursor, pull, dedup, settled, missed, pruned>>
chatVars == <<batch, timer, lockq, sess, mailbox, later, handled, twice>>
bounds == <<calls, kfCrashes>>
kfVars == <<pullVars, chatVars, bounds>>

\* may: what is left to try: "reset" the cursor and go on, go on, "once" and stop
Off == [st |-> "off", from |-> 0, page |-> <<>>, next |-> 0, more |-> FALSE, may |-> "reset"]
Started(from, may) == [Off EXCEPT !.st = "sync", !.from = from, !.may = may]

KfTypeOK ==
  /\ came \in 0 .. Len(Kind) /\ up \in BOOLEAN /\ cursor \in 0 .. Len(Kind)
  /\ pull \in [Pulls -> [st: {"off", "sync", "page", "fetch"}, from: 0 .. Len(Kind),
                         page: Seq(Feed), next: 0 .. Len(Kind), more: BOOLEAN,
                         may: {"reset", "continue", "once"}]]
  /\ dedup \subseteq Feed /\ Cardinality(dedup) <= MaxCache
  /\ batch \subseteq Feed /\ timer \in BOOLEAN /\ lockq \in Seq(SUBSET Feed)
  /\ sess \in BOOLEAN /\ mailbox \subseteq Feed /\ later \subseteq Feed
  /\ calls \in 0 .. MaxCalls /\ kfCrashes \in 0 .. MaxKfCrashes
  /\ \A h \in {settled, missed, handled, twice, pruned} : h \subseteq Feed

KfInit ==
  /\ came = 0 /\ up = TRUE /\ cursor = 0 /\ pull = [k \in Pulls |-> Off]
  /\ dedup = {} /\ batch = {} /\ timer = FALSE /\ lockq = <<>>
  /\ sess = FALSE /\ mailbox = {} /\ later = {}
  /\ calls = 0 /\ kfCrashes = 0
  /\ settled = {} /\ missed = {} /\ handled = {} /\ twice = {} /\ pruned = {}

-----------------------------------------------------------------------------
(* The customer and WeCom                                                  *)

Arrive ==
  /\ came < Len(Kind) /\ came' = came + 1
  /\ UNCHANGED <<up, cursor, pull, dedup, settled, missed, pruned, chatVars, bounds>>

\* wecom_kf_callback; the pull's task starts with the cursor saved by then, or
\* without one if Redis failed or the saved one is a day old
Callback ==
  /\ up /\ calls < MaxCalls /\ calls' = calls + 1
  /\ \E k \in Pulls, from \in {0, cursor} :
       pull[k].st = "off" /\ pull' = [pull EXCEPT ![k] = Started(from, "reset")]
  /\ UNCHANGED <<came, up, cursor, dedup, settled, missed, pruned, chatVars, kfCrashes>>

-----------------------------------------------------------------------------
(* The batch and the session                                               *)

\* Mutant of Timer: a message joining a batch stops its timer.
TimerStopped == batch = {}

\* the timer is cancelled and started anew
Timer == TRUE

\* _enqueue_message: into the active session's mailbox, or into the batch
Enqueue(m) ==
  /\ IF sess
     THEN mailbox' = mailbox \cup {m} /\ UNCHANGED <<batch, timer>>
     ELSE batch' = batch \cup {m} /\ timer' = Timer /\ UNCHANGED mailbox
  /\ handled' = handled \cup {m}
  /\ twice' = IF m \in handled THEN twice \cup {m} ELSE twice
  /\ UNCHANGED <<lockq, sess, later>>

\* _flush_after_wait, up to the lock of _process_and_reply
Flush ==
  /\ timer /\ timer' = FALSE
  /\ batch' = {} /\ lockq' = Append(lockq, batch)
  /\ UNCHANGED <<pullVars, sess, mailbox, later, handled, twice, bounds>>

\* the lock is taken and the session opened; the texts and one image go to the
\* agent, the other images to _inject_remaining
Activate ==
  LET images == {m \in Head(lockq) : Kind[m] = "image"} IN
  /\ ~sess /\ lockq # <<>>
  /\ IF images = {} THEN UNCHANGED later
     ELSE \E first \in images : later' = later \cup (images \ {first})
  /\ sess' = TRUE /\ mailbox' = {}
  /\ lockq' = Tail(lockq)
  /\ UNCHANGED <<pullVars, batch, timer, handled, twice, bounds>>

\* half a second later: into the mailbox of whatever session there is, or nowhere
InjectRemaining ==
  /\ later # {} /\ later' = {}
  /\ mailbox' = IF sess THEN mailbox \cup later ELSE mailbox
  /\ UNCHANGED <<pullVars, batch, timer, lockq, sess, handled, twice, bounds>>

\* the agent reads its mailbox between two rounds
Drain ==
  /\ sess /\ mailbox # {} /\ mailbox' = {}
  /\ UNCHANGED <<pullVars, batch, timer, lockq, sess, later, handled, twice, bounds>>

\* the agent answered, failed or timed out; the mailbox is dropped with what
\* came while the answer was being sent
EndSession ==
  /\ sess /\ sess' = FALSE /\ mailbox' = {}
  /\ UNCHANGED <<pullVars, batch, timer, lockq, later, handled, twice, bounds>>

-----------------------------------------------------------------------------
(* _pull_and_process                                                       *)

\* the answer of sync_msg: the messages after the cursor, at most a page of them
Synced(p) ==
  LET next == IF came - p.from < PageSize THEN came ELSE p.from + PageSize IN
    [p EXCEPT !.st = "page", !.page = [i \in 1 .. next - p.from |-> p.from + i],
              !.next = next, !.more = next < came]

\* Mutant of Sync: the cursor is saved when the page arrives.
SyncSaves(k) ==
  /\ pull[k].st = "sync"
  /\ pull' = [pull EXCEPT ![k] = Synced(@)]
  /\ cursor' = pull'[k].next
  /\ UNCHANGED <<came, up, dedup, settled, missed, pruned, chatVars, bounds>>

Sync(k) ==
  /\ pull[k].st = "sync"
  /\ pull' = [pull EXCEPT ![k] = Synced(@)]
  /\ UNCHANGED <<came, up, cursor, dedup, settled, missed, pruned, chatVars, bounds>>

\* once per pull an error that may be the cursor's is tried again without it;
\* any other error, and an exception, end the pull
SyncFails(k) ==
  LET p == pull[k] IN
  /\ p.st = "sync"
  /\ \/ p.may = "reset" /\ p.from # 0 /\ pull' = [pull EXCEPT ![k] = Started(0, "continue")]
     \/ pull' = [pull EXCEPT ![k] = Off]
  /\ UNCHANGED <<came, up, cursor, dedup, settled, missed, pruned, chatVars, bounds>>

\* Mutant of Mark: the set is halved one message too late.
MarkUnpruned(m) ==
  IF Cardinality(dedup) <= MaxCache
  THEN dedup' = dedup \cup {m} /\ UNCHANGED pruned
  ELSE \E gone \in SUBSET (dedup \cup {m}) :
         /\ Cardinality(gone) = MaxCache \div 2
         /\ dedup' = (dedup \cup {m}) \ gone
         /\ pruned' = pruned \cup gone

\* Mutant of Mark: an image is recorded when its download is over.
MarkLate(m) ==
  IF Kind[m] = "image" THEN UNCHANGED <<dedup, pruned>>
  ELSE dedup' = dedup \cup {m} /\ UNCHANGED pruned

\* _check_set: a full set loses half of its capacity, any half: it is a set
Mark(m) ==
  IF Cardinality(dedup) < MaxCache
  THEN dedup' = dedup \cup {m} /\ UNCHANGED pruned
  ELSE \E gone \in SUBSET (dedup \cup {m}) :
         /\ Cardinality(gone) = MaxCache \div 2
         /\ dedup' = (dedup \cup {m}) \ gone
         /\ pruned' = pruned \cup gone

\* _dispatch_kf_message: duplicates and stale messages are skipped, texts
\* enqueued, images downloaded first
Dispatch(k) ==
  LET p == pull[k]
      m == Head(p.page)
      over == pull' = [pull EXCEPT ![k].page = Tail(@)]
  IN
  /\ p.st = "page" /\ p.page # <<>>
  /\ \/ m \in dedup /\ over /\ UNCHANGED <<dedup, pruned, settled, chatVars>>
     \/ /\ m \notin dedup /\ Mark(m)
        /\ \/ /\ over /\ settled' = settled \cup {m}
              /\ UNCHANGED chatVars \/ (Kind[m] = "text" /\ Enqueue(m))
           \/ /\ Kind[m] = "image" /\ pull' = [pull EXCEPT ![k].st = "fetch"]
              /\ UNCHANGED <<settled, chatVars>>
  /\ UNCHANGED <<came, up, cursor, missed, bounds>>

Fetches(k, m) == pull[k].st = "fetch" /\ Head(pull[k].page) = m
Fetching == {m \in Feed : \E k \in Pulls : Fetches(k, m)}

\* the image is there, or the customer is asked to send it again, or an exception
\* of the download is logged
Fetched(k) ==
  LET m == Head(pull[k].page) IN
  /\ pull[k].st = "fetch"
  /\ pull' = [pull EXCEPT ![k].st = "page", ![k].page = Tail(@)]
  /\ settled' = settled \cup {m}
  /\ Enqueue(m) \/ UNCHANGED chatVars
  /\ UNCHANGED <<came, up, cursor, dedup, missed, pruned, bounds>>

\* the page is worked off: its cursor is saved, even if another pull has saved
\* a later one meanwhile; a failed write is ignored
PageDone(k) ==
  LET p == pull[k] IN
  /\ p.st = "page" /\ p.page = <<>>
  /\ cursor' \in {cursor} \cup (IF p.next # 0 THEN {p.next} ELSE {})
  /\ pull' = [pull EXCEPT ![k] = IF p.more /\ p.next # 0 /\ p.may # "once"
                                 THEN Started(p.next, p.may) ELSE Off]
  /\ UNCHANGED <<came, up, dedup, settled, missed, pruned, chatVars, bounds>>

-----------------------------------------------------------------------------
(* Death and restart                                                       *)

KfCrash ==
  /\ up /\ up' = FALSE
  /\ kfCrashes < MaxKfCrashes /\ kfCrashes' = kfCrashes + 1
  /\ pull' = [k \in Pulls |-> Off] /\ dedup' = {} /\ pruned' = {}
  /\ batch' = {} /\ timer' = FALSE /\ lockq' = <<>> /\ sess' = FALSE /\ mailbox' = {} /\ later' = {}
  /\ handled' = {} /\ twice' = {} /\ missed' = missed \cup (Fetching \cap 1 .. cursor)
  /\ UNCHANGED <<came, cursor, settled, calls>>

\* the startup recovery reads one page from the saved cursor, if the saved
\* token is fresh
KfRestart ==
  /\ ~up /\ up' = TRUE
  /\ \/ cursor # 0 /\ \E k \in Pulls :
          pull[k].st = "off" /\ pull' = [pull EXCEPT ![k] = Started(cursor, "once")]
     \/ UNCHANGED pull
  /\ UNCHANGED <<came, cursor, dedup, settled, missed, pruned, chatVars, bounds>>

-----------------------------------------------------------------------------
PullStep(k) == Sync(k) \/ Dispatch(k) \/ Fetched(k) \/ PageDone(k)
KfNext ==
  \/ Arrive \/ Callback \/ KfCrash \/ KfRestart
  \/ Flush \/ Activate \/ InjectRemaining \/ Drain \/ EndSession
  \/ \E k \in Pulls : PullStep(k) \/ SyncFails(k)

KfSpec == KfInit /\ [][KfNext]_kfVars

-----------------------------------------------------------------------------
(* Properties                                                              *)

\* However many pulls walk the same pages, whichever cursor they start from and
\* however they interleave with the downloads, a message is handed on at most
\* once in one life of the process (wecom_kf_handler.py:566-569), unless the
\* full dedup set has thrown its id away (base.py:237-240).
HandledOnce == twice \subseteq pruned

\* The saved cursor, from which a restart goes on, has nothing behind it that was
\* not dealt with, although several pulls work off the same pages and any of them
\* saves it (wecom_kf_handler.py:366-428): a pull has handed the message on, found
\* it stale or asked for it again, or is downloading it still. There is one way to
\* lose a message: another pull took it for a duplicate of one that was being
\* downloaded, saved the cursor, and the process died before the download was over.
CursorBehind == 1 .. cursor \subseteq settled \cup Fetching \cup missed

\* What wecom_kf_handler.py:366-369 and :423 say of a restart: it goes on after
\* messages that have been dealt with.
RestartSkipsHandled == ~up => 1 .. cursor \subseteq settled

\* No message is stuck on its way to the agent, however enqueueing, the timer,
\* the lock and the end of the session interleave: a batch has a timer that will
\* flush it, and a mailbox a session that will read or drop it
\* (wecom_kf_handler.py:862-892, 1158-1165).
Attended == (batch # {} => timer) /\ (mailbox # {} => sess)

\* No message of the feed is passed over, neither by the cursor nor on its way.
NothingSkipped == CursorBehind /\ Attended
=============================================================================
