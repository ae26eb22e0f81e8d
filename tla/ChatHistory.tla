---------------------------- MODULE ChatHistory ----------------------------
(***************************************************************************)
(* The history of one conversation (app/services/history.py), as the       *)
(* router keeps it (app/router/intent.py): a list in memory, written       *)
(* through to a key of Redis with a life, read back after a restart, and   *)
(* refilled from what the platform itself remembers (Feishu's message API, *)
(* or the archive wecom_kf_handler.py keeps) when the key is gone.         *)
(* The members of a group share a history, so turns overlap; history.py    *)
(* never awaits, so what the router does before the agent runs, or after   *)
(* it, is one step.                                                        *)
(***************************************************************************)
EXTENDS Naturals, Sequences

CONSTANTS Turns,       \* bound: turns of the conversation at the same time
          ChatRounds,  \* memory_chat_rounds
          ChatTtl,     \* memory_chat_ttl: the life of the key and of a message
          ChatHorizon, \* bound: time
          MaxSaid,     \* bound: messages
          MaxChatCrashes, MaxChatMishaps \* bounds: restarts, steps in which Redis fails

ASSUME ChatConstants ==
  /\ ChatRounds \in Nat \ {0} /\ ChatTtl \in Nat \ {0}
  /\ ChatHorizon \in Nat /\ MaxSaid \in Nat /\ MaxChatCrashes \in Nat /\ MaxChatMishaps \in Nat

VARIABLES
  chatClock,
  chat,     \* the conversation in ChatHistory and in Redis: [mem, loaded, saved]
  archive,  \* what the platform remembers
  turns,    \* turn -> [at, id]: the message it is about
  lastId, chatCrashes, chatMishaps,
  spoken,   \* history: what the router has added since the history was last cleared
  unsaved,  \* history: the last save failed
  amiss     \* history: since then a read or a deletion failed, or a restart came upon unsaved

historyVars == <<chatClock, chat, archive, turns, lastId, chatCrashes, chatMishaps, spoken, unsaved, amiss>>

ChatIds == 1 .. MaxSaid
Said == [id: ChatIds, at: 0 .. ChatHorizon, by: {"router"}]
Remembered == [id: ChatIds, at: 0 .. ChatHorizon, by: {"platform"}]
NoKey == [msgs |-> <<>>, until |-> 0]
NoTurn == [at |-> "idle", id |-> 0]

ChatTypeOK ==
  /\ chatClock \in 0 .. ChatHorizon
  /\ chat.mem \in Seq(Said \cup Remembered) /\ Len(chat.mem) <= 2 * ChatRounds
  /\ chat.loaded \in BOOLEAN
  /\ chat.saved.msgs \in Seq(Said \cup Remembered) /\ chat.saved.until \in Nat
  /\ archive \in Seq(Remembered) /\ spoken \in Seq(Said)
  /\ turns \in [Turns -> [at: {"idle", "heard", "answering", "sending"}, id: ChatIds \cup {0}]]
  /\ lastId \in 0 .. MaxSaid /\ chatCrashes \in 0 .. MaxChatCrashes
  /\ chatMishaps \in 0 .. MaxChatMishaps /\ unsaved \in BOOLEAN /\ amiss \in BOOLEAN

ChatInit ==
  /\ chatClock = 0 /\ archive = <<>> /\ spoken = <<>>
  /\ chat = [mem |-> <<>>, loaded |-> FALSE, saved |-> NoKey]
  /\ turns = [t \in Turns |-> NoTurn]
  /\ lastId = 0 /\ chatCrashes = 0 /\ chatMishaps = 0
  /\ unsaved = FALSE /\ amiss = FALSE

-----------------------------------------------------------------------------
(* ChatHistory; lost: the commands that fail, back: the platform answers   *)

LastOf(s, n) == SubSeq(s, IF Len(s) > n THEN Len(s) - n + 1 ELSE 1, Len(s))
LastRounds(s) == LastOf(s, 2 * ChatRounds)
\* _cleanup: message by message
Unexpired(s) ==
  LET kept[i \in 0 .. Len(s)] ==
        IF i = 0 THEN <<>>
        ELSE IF chatClock - s[i].at < ChatTtl THEN Append(kept[i - 1], s[i]) ELSE kept[i - 1]
  IN kept[Len(s)]
Lives(key) == key.until > chatClock

\* _save_to_redis: SET with EX; a failed one leaves the key as it was
SavedAs(h, lost) ==
  IF "SET" \in lost THEN h ELSE [h EXCEPT !.saved = [msgs |-> h.mem, until |-> chatClock + ChatTtl]]

\* _backfill_from_feishu, or _from_wecom_kf: as many messages as the history is
\* long, or none when the platform has no such memory or does not answer
Refill(back) == IF back THEN LastRounds(archive) ELSE <<>>

\* _ensure_loaded: a read that fails is an empty key, and is not tried again
EnsureLoaded(h, back, lost) ==
  LET found == Lives(h.saved) /\ "GET" \notin lost
      filled == [h EXCEPT !.loaded = TRUE, !.mem = Refill(back)]
  IN CASE h.loaded -> h
       [] ~h.loaded /\ found -> [h EXCEPT !.loaded = TRUE, !.mem = h.saved.msgs]
       [] ~h.loaded /\ ~found -> IF filled.mem = <<>> THEN filled ELSE SavedAs(filled, lost)

\* add_user, add_assistant
Added(h, id, back, lost) ==
  LET all == Append(EnsureLoaded(h, back, lost).mem, [id |-> id, at |-> chatClock, by |-> "router"])
  IN SavedAs([EnsureLoaded(h, back, lost) EXCEPT !.mem = LastRounds(all)], lost)

\* get, with its _cleanup, which Redis does not see
Gotten(h, back, lost) == [EnsureLoaded(h, back, lost) EXCEPT !.mem = Unexpired(@)]

\* Mutant of ClearAll: the key stays.
ClearInMemory(h, lost) == [h EXCEPT !.mem = <<>>, !.loaded = FALSE]

\* clear: memory, the mark of having been read, and the key
ClearAll(h, lost) ==
  [mem |-> <<>>, loaded |-> FALSE, saved |-> IF "DEL" \in lost THEN h.saved ELSE NoKey]

-----------------------------------------------------------------------------
(* A turn                                                                  *)

Noticed(lost, was) ==
  /\ IF lost = {} THEN UNCHANGED chatMishaps
     ELSE chatMishaps < MaxChatMishaps /\ chatMishaps' = chatMishaps + 1
  /\ unsaved' = ("SET" \in lost) /\ amiss' = (was \/ lost \cap {"GET", "DEL"} # {})

InArchive(id) == archive' = Append(archive, [id |-> id, at |-> chatClock, by |-> "platform"])

\* a message is in the platform's memory before the router sees it
Hear(t) ==
  /\ turns[t].at = "idle" /\ lastId < MaxSaid /\ lastId' = lastId + 1
  /\ turns' = [turns EXCEPT ![t] = [at |-> "heard", id |-> lastId + 1]]
  /\ InArchive(lastId + 1)
  /\ UNCHANGED <<chatClock, chat, chatCrashes, chatMishaps, spoken, unsaved, amiss>>

\* route_message up to the agent: clear when the text asks for a fresh start, get
\* the history for the agent, add the message
BeginTurn(t, restart) ==
  /\ turns[t].at = "heard" /\ turns' = [turns EXCEPT ![t].at = "answering"]
  /\ \E back \in BOOLEAN, lost \in SUBSET {"GET", "SET", "DEL"} :
       /\ ("DEL" \in lost => restart) /\ ("GET" \in lost => restart \/ ~chat.loaded)
       /\ Noticed(lost, amiss /\ ~restart)
       /\ LET kept == IF restart THEN ClearAll(chat, lost) ELSE chat
          IN chat' = Added(Gotten(kept, back, lost), turns[t].id, back, lost)
  /\ spoken' = Append(IF restart THEN <<>> ELSE spoken,
                      [id |-> turns[t].id, at |-> chatClock, by |-> "router"])
  /\ UNCHANGED <<chatClock, archive, lastId, chatCrashes>>

\* route_message after the agent; or the agent died, or ran out of time
EndTurn(t) ==
  /\ turns[t].at = "answering"
  /\ \/ /\ lastId < MaxSaid /\ lastId' = lastId + 1
        /\ turns' = [turns EXCEPT ![t] = [at |-> "sending", id |-> lastId + 1]]
        /\ \E back \in BOOLEAN, lost \in SUBSET {"GET", "SET"} :
             /\ ("GET" \in lost => ~chat.loaded) /\ Noticed(lost, amiss)
             /\ chat' = Added(chat, lastId + 1, back, lost)
        /\ spoken' = Append(spoken, [id |-> lastId + 1, at |-> chatClock, by |-> "router"])
     \/ /\ turns' = [turns EXCEPT ![t] = NoTurn]
        /\ UNCHANGED <<lastId, chat, chatMishaps, spoken, unsaved, amiss>>
  /\ UNCHANGED <<chatClock, archive, chatCrashes>>

\* the webhook sends the reply and archives it; either may fail
SendReply(t) ==
  /\ turns[t].at = "sending" /\ turns' = [turns EXCEPT ![t] = NoTurn]
  /\ InArchive(turns[t].id) \/ UNCHANGED archive
  /\ UNCHANGED <<chatClock, chat, lastId, chatCrashes, chatMishaps, spoken, unsaved, amiss>>

-----------------------------------------------------------------------------
ChatTick ==
  /\ chatClock < ChatHorizon /\ chatClock' = chatClock + 1
  /\ UNCHANGED <<chat, archive, turns, lastId, chatCrashes, chatMishaps, spoken, unsaved, amiss>>

ChatCrash ==
  /\ chatCrashes < MaxChatCrashes /\ chatCrashes' = chatCrashes + 1
  /\ chat' = [chat EXCEPT !.mem = <<>>, !.loaded = FALSE]
  /\ turns' = [t \in Turns |-> NoTurn]
  /\ amiss' = (amiss \/ unsaved) /\ unsaved' = FALSE
  /\ UNCHANGED <<chatClock, archive, lastId, chatMishaps, spoken>>

ChatNext ==
  \/ \E t \in Turns : Hear(t) \/ EndTurn(t) \/ SendReply(t) \/ \E restart \in BOOLEAN : BeginTurn(t, restart)
  \/ ChatTick \/ ChatCrash

ChatSpec == ChatInit /\ [][ChatNext]_historyVars

-----------------------------------------------------------------------------
(* Properties                                                              *)

\* What was said lately, up to the length of the history, is what a turn is
\* given last, in the order in which it was said, across restarts, the end of the
\* key and the trimming of both copies; and of what was cleared only the
\* platform's copy comes back.  A failed save harms neither until a restart finds
\* it; a failed read or deletion does (history.py:1-11, 406-496).
HistoryKept ==
  ~amiss =>
    LET due == Unexpired(LastRounds(spoken))
    IN /\ chat.loaded => LastOf(Unexpired(chat.mem), Len(due)) = due
       /\ \A i \in 1 .. Len(chat.mem) :
            chat.mem[i].by = "router" => \E j \in 1 .. Len(spoken) : chat.mem[i] = spoken[j]
=============================================================================
