------------------------------ MODULE KimiLoop ------------------------------
(***************************************************************************)
(* One call of the agent over an OpenAI interface: handle_message of       *)
(* app/services/kimi_coder.py, which router/intent.py calls instead of the *)
(* Gemini agent (AgentLoop) for a tenant with a coding model or another    *)
(* provider.  It asks one model, runs its tool calls one after the other   *)
(* and takes in the mailbox before it ends a round.                        *)
(***************************************************************************)
EXTENDS Naturals

CONSTANTS
    KimiMail,       \* messages that may reach the mailbox during the call
    MaxKimiRounds   \* _MAX_ROUNDS: 50

ASSUME KimiConstants == MaxKimiRounds \in Nat

VARIABLES
    kimi,       \* where the call is
    kimiRound,  \* round_num
    kimiReply,  \* what the call returned
    kimiLeft,   \* tool calls of the round still to be handled
    kimiBox,    \* inbox
    kimiTaken,  \* messages taken out of it and put into messages
    kimiSeen    \* those that were there when the model last answered

kimiVars == <<kimi, kimiRound, kimiReply, kimiLeft, kimiBox, kimiTaken, kimiSeen>>

KimiEnded == {"done", "raised", "cancelled"}

KimiTypeOK ==
    /\ kimi \in {"ask", "tools", "final"} \cup KimiEnded
    /\ kimiRound \in 0..MaxKimiRounds
    /\ kimiReply \in {"none", "summary", "error"}
    /\ kimiLeft \in 0..2
    /\ \A s \in {kimiBox, kimiTaken, kimiSeen} : s \subseteq KimiMail

KimiInit ==
    /\ kimi = "ask" /\ kimiRound = 0 /\ kimiReply = "none" /\ kimiLeft = 0
    /\ kimiBox = {} /\ kimiTaken = {} /\ kimiSeen = {}

\* The webhook puts a message of the user into the mailbox of the session.
KimiMailArrives(m) ==
    /\ kimi \notin KimiEnded
    /\ m \notin kimiBox \cup kimiTaken
    /\ kimiBox' = kimiBox \cup {m}
    /\ UNCHANGED <<kimi, kimiRound, kimiReply, kimiLeft, kimiTaken, kimiSeen>>

\* _process_and_reply's wait_for gives up on the call, within an await.
KimiCancel ==
    /\ kimi \in {"ask", "final"} \/ (kimi = "tools" /\ kimiLeft > 0)
    /\ kimi' = "cancelled"
    /\ UNCHANGED <<kimiRound, kimiReply, kimiLeft, kimiBox, kimiTaken, kimiSeen>>

KimiNextRound ==
    /\ kimiRound' = kimiRound + 1
    /\ kimi' = IF kimiRound' = MaxKimiRounds THEN "final" ELSE "ask"

\* _drain_inbox and append_openai_inbox_messages.
KimiDrain == kimiBox' = {} /\ kimiTaken' = kimiTaken \cup kimiBox

\* The quota is used up, the key is refused, any other failure, no choices.
KimiFails ==
    /\ kimi = "ask"
    /\ kimi' = "done" /\ kimiReply' = "error"
    /\ UNCHANGED <<kimiRound, kimiLeft, kimiBox, kimiTaken, kimiSeen>>

\* A text, and messages in the mailbox: both go to the model once more.
KimiTextAndMail ==
    /\ kimi = "ask" /\ kimiBox # {}
    /\ kimiSeen' = kimiTaken
    /\ KimiDrain
    /\ KimiNextRound
    /\ UNCHANGED <<kimiReply, kimiLeft>>

\* A text alone.  The nudge for a missing write and the scrubbing of the text
\* both name channel_platform, which handle_message does not have (its only
\* assignment is in _final_call): whatever the answer, it ends in a NameError.
KimiText ==
    /\ kimi = "ask" /\ kimiBox = {}
    /\ kimiSeen' = kimiTaken
    /\ kimi' = "raised"
    /\ UNCHANGED <<kimiRound, kimiReply, kimiLeft, kimiBox, kimiTaken>>

KimiCalls ==
    /\ kimi = "ask"
    /\ kimiSeen' = kimiTaken
    /\ kimi' = "tools" /\ kimiLeft' \in 1..2
    /\ UNCHANGED <<kimiRound, kimiReply, kimiBox, kimiTaken>>

\* A call is unknown, refused until the user agrees, run, or fails: its result
\* is put into messages in every case.
KimiTool ==
    /\ kimi = "tools" /\ kimiLeft > 0
    /\ kimiLeft' = kimiLeft - 1
    /\ UNCHANGED <<kimi, kimiRound, kimiReply, kimiBox, kimiTaken, kimiSeen>>

KimiRoundEnds ==
    /\ kimi = "tools" /\ kimiLeft = 0
    /\ KimiDrain
    /\ KimiNextRound
    /\ UNCHANGED <<kimiReply, kimiLeft, kimiSeen>>

\* _final_call: the model sums up without tools, or a fixed text does.
KimiFinal ==
    /\ kimi = "final"
    /\ kimi' = "done"
    /\ \/ kimiReply' = "summary" /\ kimiSeen' = kimiTaken
       \/ kimiReply' = "error" /\ UNCHANGED kimiSeen
    /\ UNCHANGED <<kimiRound, kimiLeft, kimiBox, kimiTaken>>

KimiNext ==
    \/ \E m \in KimiMail : KimiMailArrives(m)
    \/ KimiCancel \/ KimiFails \/ KimiTextAndMail \/ KimiText
    \/ KimiCalls \/ KimiTool \/ KimiRoundEnds \/ KimiFinal

KimiSpec == KimiInit /\ [][KimiNext]_kimiVars
=============================================================================
