----------------------------- MODULE MCWaiting -----------------------------
(***************************************************************************)
(* What waits for its turn: the calls of a user for the user's lock, the   *)
(* plans for the pass of their tenant, and the errors of the process for a *)
(* repair.  They share no state, and the initial state chooses the one     *)
(* that moves.                                                             *)
(***************************************************************************)
EXTENDS UserLocks, PlanScheduler, AutoFix

CONSTANTS p1, p2, t1, t2

VARIABLE focus

\* the second step of each plan depends on the first
Chain == [p \in Plans |-> [s \in Steps |-> IF s = 1 THEN {} ELSE {s - 1}]]
OneTenant == [p \in Plans |-> t1]

waitVars == <<focus, lockVars, planVars, fixVars>>

WaitInit ==
  /\ focus \in {"lock", "plans", "fix"}
  /\ Init /\ PlansInit /\ FixInit

\* plans meet a fault or a death when they are edited twice, else both
WaitNext ==
  /\ UNCHANGED focus
  /\ IF focus = "lock" THEN Next ELSE UNCHANGED lockVars
  /\ \/ focus = "plans" /\ PlansNext /\ (faults' + crashes' <= 1 \/ edits' <= 1)
     \/ focus # "plans" /\ UNCHANGED planVars
  /\ IF focus = "fix" THEN FixNext ELSE UNCHANGED fixVars

\* no call has arrived, and none can be waiting, while something else moves
WaitFairness ==
  /\ Fairness
  /\ WF_planVars(focus = "plans" /\ Loop)
  /\ WF_planVars(focus = "plans" /\ Restart)
  /\ WF_planVars(focus = "plans" /\ Recovery)
  /\ \A p \in Plans : SF_planVars(focus = "plans" /\ PassFor(p))

WaitSpec == WaitInit /\ [][WaitNext]_waitVars /\ WaitFairness

\* Every variable of the part that moves has its type.
TypesOK == TypeOK /\ PlansTypeOK /\ FixTypeOK
=============================================================================
