----------------------------- MODULE AgentLoop -----------------------------
(***************************************************************************)
(* One call of the Gemini agent: handle_message and _run_sub_agent         *)
(* (app/services/gemini_provider.py), from the delegation to a sub-agent   *)
(* to the reply.  FeishuPipeline has this call as the time between         *)
(* activate and the end of the session; here are the rounds inside it: the *)
(* model's answers, the retries and the two models, the nudges before an   *)
(* exit, the tools, and the mailbox that fills while any of it is awaited. *)
(*                                                                         *)
(* What a text or a tool's name triggers (is a write missing, is a claim   *)
(* grounded) is a choice; how often the loop may act on it is not.         *)
(***************************************************************************)
EXTENDS Naturals

CONSTANTS
    Mail,           \* messages that may reach the mailbox during the call
    MaxRounds,      \* _MAX_ROUNDS: 50
    SubRounds,      \* max_rounds of the sub-agent: 10 to 25
    StrongAt,       \* the round from which the strong model is used: 6
    SubStrongAt,    \* the same in the sub-agent: 8
    MaxTries,       \* _max_retries: 2
    Breaker,        \* _PRO_CIRCUIT_BREAKER: 2
    MaxDeliver,     \* _MAX_DELIVERABLE_NUDGES: 2
    MaxGate,        \* _MAX_EXIT_GATE_NUDGES: 3
    GateFrom,       \* _exit_gate_min_round where vision or custom tools are at work: 4
    MaxEmpty,       \* empty answers that are retried: 3
    ForceFor        \* rounds on the base model after empty answers: 3

ASSUME LoopConstants ==
    /\ MaxRounds \in Nat /\ SubRounds \in Nat /\ MaxTries \in Nat /\ Breaker \in Nat
    /\ MaxDeliver \in Nat /\ MaxGate \in Nat /\ MaxEmpty \in Nat /\ ForceFor \in Nat

VARIABLES
    pc,         \* where the call is
    round,      \* round_num
    model,      \* _model_for_call, "base" or "strong"
    first,      \* current_model of the round
    tries,      \* _attempt
    failures,   \* _pro_failures
    escalated,  \* _escalated
    force,      \* _force_base_model_rounds
    empties,    \* _consecutive_empty_content, 2 standing for more
    nudges,     \* nudges given so far, by kind
    idle,       \* history: rounds that ended with a nudge
    called,     \* tool_names_called is not empty
    left,       \* function calls of the round still to be handled
    effect,     \* a tool of the main loop has taken effect
    reply,      \* what the call returned
    inbox,      \* inbox
    prompt,     \* messages of the mailbox that are in contents
    seen,       \* those that were there when the model last answered
    drained,    \* messages taken out of the mailbox
    handed      \* those taken out when the sub-agent came back

modelVars == <<model, first, tries, failures, escalated, force>>
mailVars == <<inbox, prompt, seen, drained, handed>>
loopVars == <<pc, round, modelVars, empties, nudges, idle, called, left, effect, reply, mailVars>>

Kinds == {"read", "deliver", "gate", "scrub", "empty"}
NoNudges == [kind \in Kinds |-> 0]
Ended == {"done", "raised", "cancelled"}

LoopTypeOK ==
    /\ pc \in {"subround", "sub", "subreview", "subsum", "handback",
               "round", "ask", "review", "tools"} \cup Ended
    /\ round \in 0..MaxRounds \cup 0..SubRounds
    /\ model \in {"base", "strong"} /\ first \in {"base", "strong"}
    /\ tries \in 0..MaxTries
    /\ failures \in 0..Breaker
    /\ escalated \in BOOLEAN /\ called \in BOOLEAN /\ effect \in BOOLEAN
    /\ force \in 0..ForceFor
    /\ empties \in 0..2
    /\ nudges \in [Kinds -> 0..(MaxDeliver + MaxGate + MaxEmpty + 1)]
    /\ left \in 0..2
    /\ idle \in 0..MaxRounds
    /\ reply \in {"none", "text", "summary", "error", "short", "long"}
    /\ \A s \in {inbox, prompt, seen, drained, handed} : s \subseteq Mail

\* handle_message has built its prompt: should_delegate_to_sub_agent decides
\* whether a sub-agent goes first, _should_start_strong_model where to start.
LoopInit ==
    /\ pc \in {"subround", "round"}
    /\ escalated \in BOOLEAN
    /\ round = 0 /\ model = "base" /\ first = "base" /\ tries = 0 /\ failures = 0 /\ force = 0
    /\ empties = 0 /\ nudges = NoNudges /\ idle = 0 /\ called = FALSE /\ left = 0
    /\ effect = FALSE /\ reply = "none"
    /\ inbox = {} /\ prompt = {} /\ seen = {} /\ drained = {} /\ handed = {}

\* The webhook puts a message of the user into the mailbox of the session.
MailArrives(m) ==
    /\ pc \notin Ended
    /\ m \notin inbox \cup drained
    /\ inbox' = inbox \cup {m}
    /\ UNCHANGED <<pc, round, modelVars, empties, nudges, idle, called, left, effect, reply,
                   prompt, seen, drained, handed>>

\* _process_and_reply's wait_for gives up on the call.
Cancel ==
    /\ \/ pc \in {"sub", "subreview", "subsum", "ask", "review"} /\ UNCHANGED effect
       \/ pc = "tools" /\ left > 0 /\ effect' \in {effect, TRUE}
    /\ pc' = "cancelled"
    /\ UNCHANGED <<round, modelVars, empties, nudges, idle, called, left, reply, mailVars>>

Goto(where) == pc' = where
NextRound(where) == Goto(where) /\ round' = round + 1
Returns(what) == Goto("done") /\ reply' = what /\ UNCHANGED round

(***************************************************************************)
(* The sub-agent.  Its rounds, failures and nudges are its own.            *)
(***************************************************************************)
SubBegin ==
    /\ pc = "subround"
    /\ Goto(IF round = SubRounds THEN "subsum" ELSE "sub")
    /\ model' = IF failures < Breaker /\ round >= SubStrongAt THEN "strong" ELSE "base"
    /\ UNCHANGED <<round, first, tries, failures, escalated, force, empties, nudges, idle, called, left,
                   effect, reply, mailVars>>

subKept == <<first, tries, escalated, force, empties, idle, called, left, effect, mailVars>>

SubTimeout ==
    /\ pc = "sub"
    /\ \/ model = "strong" /\ failures' = failures + 1 /\ NextRound("subround")
       \/ model = "base" /\ Goto("subsum") /\ UNCHANGED <<failures, round>>
    /\ UNCHANGED <<model, nudges, reply, subKept>>

\* An API error, no candidates, no text or an exception end the rounds.
SubFails ==
    /\ pc \in {"sub", "subreview"}
    /\ Goto("subsum")
    /\ UNCHANGED <<round, model, failures, nudges, reply, subKept>>

\* A reply is reviewed unless the one nudge of the sub-agent is spent.
SubText ==
    /\ pc = "sub"
    /\ \/ nudges["gate"] = 0 /\ Goto("subreview") /\ UNCHANGED reply
       \/ nudges["gate"] > 0 /\ Goto("handback") /\ reply' \in {"short", "long"}
    /\ UNCHANGED <<round, model, failures, nudges, subKept>>

SubReview ==
    /\ pc = "subreview"
    /\ \/ nudges' = [nudges EXCEPT !["gate"] = 1] /\ NextRound("subround") /\ UNCHANGED reply
       \/ Goto("handback") /\ reply' \in {"short", "long"} /\ UNCHANGED <<round, nudges>>
    /\ UNCHANGED <<model, failures, subKept>>

\* Tools of another domain are refused in words, and the round ends.
SubStrays ==
    /\ pc = "sub"
    /\ NextRound("subround")
    /\ UNCHANGED <<model, failures, nudges, reply, subKept>>

\* The tools run.  The metadata of the first result names chat_id, which
\* _run_sub_agent does not have: the NameError ends the rounds.
SubRuns ==
    /\ pc = "sub"
    /\ Goto("subsum")
    /\ UNCHANGED <<round, model, failures, nudges, reply, subKept>>

\* The forced summary, by the model or from the list of outcomes.
SubSummary ==
    /\ pc = "subsum"
    /\ Goto("handback")
    /\ reply' = "long"
    /\ UNCHANGED <<round, model, failures, nudges, subKept>>

MainLoop ==
    /\ Goto("round")
    /\ round' = 0 /\ failures' = 0 /\ nudges' = NoNudges /\ reply' = "none"
    /\ UNCHANGED <<model, first, tries, escalated, force, empties, idle, called, left, effect>>

\* handle_message has the sub-agent's result.  With messages in the mailbox
\* it goes on to the main loop, having put the result and the messages into
\* user_text; contents was built before, so the model sees none of them.
HandBack ==
    /\ pc = "handback"
    /\ reply = "long"
    /\ \/ /\ inbox = {}
          /\ Returns("text")
          /\ UNCHANGED <<modelVars, empties, nudges, idle, called, left, effect, mailVars>>
       \/ /\ inbox # {}
          /\ MainLoop
          /\ drained' = drained \cup inbox
          /\ handed' = handed \cup inbox
          /\ inbox' = {}
          /\ UNCHANGED <<prompt, seen>>

\* A result of at most 20 characters, or an exception before the first round.
HandBackNothing ==
    /\ \/ pc = "handback" /\ reply = "short"
       \/ pc = "subround" /\ round = 0
    /\ MainLoop
    /\ UNCHANGED mailVars

Sub ==
    \/ SubBegin \/ SubTimeout \/ SubFails \/ SubText \/ SubReview
    \/ SubStrays \/ SubRuns \/ SubSummary \/ HandBack \/ HandBackNothing

(***************************************************************************)
(* The main loop: which model is asked, and how often.                     *)
(***************************************************************************)
BeginRound ==
    /\ pc = "round"
    /\ round < MaxRounds
    /\ Goto("ask")
    /\ tries' = 0
    /\ model' = IF force = 0 /\ failures < Breaker /\ (escalated \/ round >= StrongAt)
                THEN "strong" ELSE "base"
    /\ first' = model'
    /\ force' = IF force > 0 THEN force - 1 ELSE 0
    /\ UNCHANGED <<round, failures, escalated, empties, nudges, idle, called, left, effect, reply, mailVars>>

OutOfRounds ==
    /\ pc = "round"
    /\ round = MaxRounds
    /\ Returns("summary")
    /\ UNCHANGED <<modelVars, empties, nudges, idle, called, left, effect, mailVars>>

FallBack == model' = "base" /\ tries' = 0 /\ failures' = failures + 1 /\ UNCHANGED <<pc, reply>>
Again == tries' = tries + 1 /\ UNCHANGED <<model, failures, pc, reply>>
GivesUp ==
    /\ Goto("done")
    /\ reply' = (IF called THEN "summary" ELSE "error")
    /\ UNCHANGED <<model, tries, failures>>

askKept == <<round, first, escalated, force, empties, nudges, idle, called, left, effect, mailVars>>

\* The strong model is given up at its first timeout ...
Timeout ==
    /\ pc = "ask"
    /\ \/ model = "strong" /\ FallBack
       \/ model = "base" /\ tries < MaxTries /\ Again
       \/ model = "base" /\ tries = MaxTries /\ GivesUp
    /\ UNCHANGED askKept

\* ... and after its retries when the connection or the server fails.
ServerError ==
    /\ pc = "ask"
    /\ \/ tries < MaxTries /\ Again
       \/ tries = MaxTries /\ model = "strong" /\ FallBack
       \/ tries = MaxTries /\ model = "base" /\ GivesUp
    /\ UNCHANGED askKept

\* A quota, a blocked or too long output, the network, any other error.
OtherError ==
    /\ pc = "ask"
    /\ Returns("error") \/ (called /\ Returns("summary"))
    /\ UNCHANGED <<model, tries, failures, first, escalated, force, empties, nudges, idle, called,
                   left, effect, mailVars>>

(***************************************************************************)
(* What the model answers.                                                 *)
(***************************************************************************)
Answered ==
    /\ pc = "ask"
    /\ failures' = IF model = "strong" THEN 0 ELSE failures
    /\ first' = model
    /\ seen' = prompt
    /\ UNCHANGED <<model, tries>>

Nudge(kind) ==
    /\ nudges' = [nudges EXCEPT ![kind] = @ + 1]
    /\ idle' = idle + 1
    /\ NextRound("round")
    /\ UNCHANGED reply
MayAskFor == nudges["deliver"] < MaxDeliver
Quiet == UNCHANGED <<inbox, prompt, drained, handed, called, left, effect>>

NoCandidates ==
    /\ Answered
    /\ \/ called /\ MayAskFor /\ Nudge("deliver")
       \/ Returns(IF called THEN "summary" ELSE "error") /\ UNCHANGED <<nudges, idle>>
    /\ Quiet /\ UNCHANGED <<empties, escalated, force>>

Safety ==
    /\ Answered
    /\ Returns("error")
    /\ Quiet /\ UNCHANGED <<empties, escalated, force, nudges, idle>>

\* No content: after two in a row the strong model is set aside.
Empty ==
    /\ Answered
    /\ empties' = IF empties = 2 THEN 2 ELSE empties + 1
    /\ force' = IF empties' = 2 /\ model = "strong" THEN ForceFor ELSE force
    /\ \/ /\ called /\ nudges["empty"] < MaxEmpty
          /\ \/ MayAskFor /\ nudges' = [nudges EXCEPT !["empty"] = @ + 1, !["deliver"] = @ + 1]
             \/ nudges' = [nudges EXCEPT !["empty"] = @ + 1]
          /\ idle' = idle + 1
          /\ NextRound("round") /\ UNCHANGED reply
       \/ /\ ~called \/ nudges["empty"] = MaxEmpty
          /\ Returns(IF called THEN "summary" ELSE "error") /\ UNCHANGED <<nudges, idle>>
    /\ Quiet /\ UNCHANGED escalated

\* Mutant of DrainInbox: what is taken out is not put into contents.
DrainInboxOnly ==
    /\ inbox' = {}
    /\ drained' = drained \cup inbox
    /\ UNCHANGED <<prompt, handed>>

DrainInbox ==
    /\ inbox' = {}
    /\ drained' = drained \cup inbox
    /\ prompt' = prompt \cup inbox
    /\ UNCHANGED handed

\* A text without calls, and messages in the mailbox: both go into contents.
TextAndMail ==
    /\ Answered
    /\ inbox # {}
    /\ DrainInbox
    /\ NextRound("round")
    /\ empties' = 0
    /\ UNCHANGED <<reply, nudges, idle, called, left, effect, escalated, force>>

\* sanitize_public_reply may ask once for another wording.
Finish ==
    \/ nudges["scrub"] = 0 /\ Nudge("scrub")
    \/ Returns("text") /\ UNCHANGED <<nudges, idle>>

\* The checks before the exit, in their order; the governor is awaited, in the
\* later rounds only while vision or custom tools are at work.  An answer of
\* nothing but thoughts becomes a summary.
TextAlone ==
    /\ Answered
    /\ inbox = {}
    /\ empties' = 0
    /\ \/ called /\ nudges["read"] = 0 /\ round >= 1 /\ Nudge("read")
       \/ MayAskFor /\ round >= 1 /\ Nudge("deliver")
       \/ /\ nudges["gate"] < MaxGate /\ round >= 1
          /\ Goto("review") /\ UNCHANGED <<round, nudges, idle, reply>>
       \/ (nudges["gate"] = MaxGate \/ round < GateFrom) /\ Finish
       \/ Returns("summary") /\ UNCHANGED <<nudges, idle>>
    /\ Quiet /\ UNCHANGED <<escalated, force>>

Review ==
    /\ pc = "review"
    /\ Nudge("gate") \/ Finish
    /\ UNCHANGED <<modelVars, empties, called, left, effect, mailVars>>

\* Calls that the search, domain or settle rules turn away in words.
Strays ==
    /\ Answered
    /\ NextRound("round")
    /\ empties' = 0
    /\ Quiet /\ UNCHANGED <<reply, nudges, idle, escalated, force>>

Calls ==
    /\ Answered
    /\ Goto("tools")
    /\ left' \in 1..2
    /\ empties' = 0
    /\ UNCHANGED <<round, reply, nudges, idle, called, effect, escalated, force, inbox, prompt, drained, handed>>

(***************************************************************************)
(* The calls of a round, one after the other.                              *)
(***************************************************************************)
\* A second new tool, an administrator's tool, request_more_tools: answered
\* on the spot.
OnTheSpot ==
    /\ pc = "tools" /\ left > 0
    /\ left' = left - 1
    /\ called' = TRUE
    /\ UNCHANGED <<pc, round, modelVars, empties, nudges, idle, effect, reply, mailVars>>

\* Any other call: refused by a rule, unknown, or run.  The metadata of its
\* result names effective_chat_id, which is defined nowhere: NameError.
Run ==
    /\ pc = "tools" /\ left > 0
    /\ Goto("raised")
    /\ effect' \in {effect, TRUE}
    /\ called' = TRUE
    /\ UNCHANGED <<round, modelVars, empties, nudges, idle, left, reply, mailVars>>

\* All calls have their responses: what is in the mailbox goes with them.
RoundEnds ==
    /\ pc = "tools" /\ left = 0
    /\ DrainInbox
    /\ NextRound("round")
    /\ escalated' \in {escalated, TRUE}
    /\ UNCHANGED <<model, first, tries, failures, force, empties, nudges, idle, called, left, effect, reply, seen>>

Main ==
    \/ BeginRound \/ OutOfRounds \/ Timeout \/ ServerError \/ OtherError
    \/ NoCandidates \/ Safety \/ Empty \/ TextAndMail \/ TextAlone \/ Review
    \/ Strays \/ Calls \/ OnTheSpot \/ Run \/ RoundEnds

LoopNext == (\E m \in Mail : MailArrives(m)) \/ Cancel \/ Sub \/ Main

LoopSpec == LoopInit /\ [][LoopNext]_loopVars

(***************************************************************************)
(* Properties.                                                             *)
(***************************************************************************)
\* When the call returns an answer of the model, the model has seen every
\* message that was taken out of the mailbox in the main loop: a drain is
\* always followed by one more round.
MailIsAnswered == pc = "done" /\ reply = "text" => drained \ handed \subseteq seen

\* The loop cannot talk for ever: the rounds that end with a nudge are fewer
\* than the nudges of all kinds together, though each exit path counts its
\* own; and the strong model is not asked again once it has failed Breaker
\* times in a row, whatever asked for it.
WorkIsBounded ==
    /\ idle <= 2 + MaxDeliver + MaxGate + MaxEmpty
    /\ pc \in {"sub", "ask"} /\ failures >= Breaker => model = "base"

\* What the loop promises together: its answers are to all that was said, and
\* it comes to an end of its own nudges (gemini_provider.py:1761-2889).
LoopSound == MailIsAnswered /\ WorkIsBounded

\* A call does not die of an exception behind a tool that took effect: the
\* result of a tool goes into contents, or its outcome into the reply.
EffectsAreTold == ~(pc = "raised" /\ effect)
=============================================================================
