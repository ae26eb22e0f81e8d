--------------------------- MODULE MessageLedger ---------------------------
(***************************************************************************)
(* What the message pipeline promises while the process lives: a message   *)
(* is accepted once, and later it is settled (given to the agent or        *)
(* answered) or dropped, once.                                             *)
(***************************************************************************)
CONSTANT Msgs

VARIABLES waiting, settled, dropped

ledgerVars == <<waiting, settled, dropped>>

Init == waiting = {} /\ settled = {} /\ dropped = {}

Accept(m) ==
    /\ m \notin waiting \cup settled \cup dropped
    /\ waiting' = waiting \cup {m}
    /\ UNCHANGED <<settled, dropped>>

\* A batch, a drained mailbox or a single answer leaves the waiting room.
Settle(S) ==
    /\ waiting' = waiting \ S
    /\ settled' = settled \cup S
    /\ UNCHANGED dropped

Drop(S) ==
    /\ waiting' = waiting \ S
    /\ dropped' = dropped \cup S
    /\ UNCHANGED settled

Next ==
    \/ \E m \in Msgs : Accept(m)
    \/ \E S \in SUBSET waiting : Settle(S) \/ Drop(S)

Spec == Init /\ [][Next]_ledgerVars
=============================================================================
