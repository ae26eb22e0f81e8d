---------------------------- MODULE TrialAccounts ----------------------------
(***************************************************************************)
(* The trial account of one user (app/services/trial.py): a hash in Redis, *)
(* read and written back by the checks of incoming messages, which several *)
(* containers may make at once, and by the admin's dashboard.  A check     *)
(* reads the hash and writes to it afterwards, whatever became of it.      *)
(* Time moves between checks, never within one. The client of Redis raises *)
(* nothing: a command that fails returns None. A read that failed is taken *)
(* for a user nobody knows (BlindRead); a write that failed changes        *)
(* nothing, and whoever wrote is told that it was done: for a check that   *)
(* is Unwritten, for the dashboard a step that changes no variable.        *)
(***************************************************************************)
EXTENDS Naturals

CONSTANTS Checks,   \* the checks that may be under way at once
          Trial,    \* duration_hours
          Approval, \* duration_days of an approval that is not for ever
          Ttl,      \* EXPIRE of the hash
          MaxTime   \* bound: the clock

ASSUME TrialConstants == Trial \in Nat /\ Approval \in Nat /\ MaxTime \in Nat

None == MaxTime + Approval + 1  \* a field that is not there: no such time

VARIABLES
  now,
  rec,      \* the hash: [has, status, first, until]; has: it exists
  written,  \* when its EXPIRE was last set
  busy,     \* the checks under way
  read,     \* what they have read
  decided,  \* history: the admin's last decision, if it still stands
  misread   \* history: the checks whose read failed, or that read before the admin last wrote

trialVars == <<now, rec, written, busy, read, decided, misread>>

Times == 0 .. MaxTime + Approval
Statuses == {"trial", "expired", "approved", "blocked"}
NoRec == [has |-> FALSE, status |-> "trial", first |-> None, until |-> None]
Records == [has: BOOLEAN, status: Statuses, first: Times \cup {None}, until: Times \cup {None}]

TrialTypeOK ==
  /\ now \in 0 .. MaxTime /\ rec \in Records /\ written \in Times
  /\ read \in [Checks -> Records] /\ busy \subseteq Checks
  /\ misread \subseteq busy /\ decided \in {"none", "approved", "blocked"}

TrialInit ==
  /\ now = 0 /\ rec = NoRec /\ written = 0
  /\ read = [c \in Checks |-> NoRec] /\ busy = {}
  /\ decided = "none" /\ misread = {}

-----------------------------------------------------------------------------
(* check_trial                                                             *)

Reads(c, r) ==
  /\ c \notin busy /\ busy' = busy \cup {c}
  /\ read' = [read EXCEPT ![c] = r]
  /\ UNCHANGED <<now, rec, written, decided>>

Read(c) == Reads(c, rec) /\ UNCHANGED misread

\* HGETALL failed: None, and so a new user
BlindRead(c) == Reads(c, NoRec) /\ misread' = misread \cup {c}

\* HSET of some fields makes the hash if it is gone, and is followed by EXPIRE
Written(fields) ==
  /\ rec' = fields /\ written' = now

\* _register_user: a first message; the fields it does not name stay
Register == Written([rec EXCEPT !.has = TRUE, !.status = "trial", !.first = now])

\* _touch: neither the status nor first_seen
Touch == Written([rec EXCEPT !.has = TRUE])

ExpireTrial == Written([rec EXCEPT !.has = TRUE, !.status = "expired"])

Refuse == UNCHANGED <<rec, written>>

Past(time, d) == time # None /\ now >= time + d

\* Mutant of Verdict: no branch for blocked users.
VerdictUnblocked(r) ==
  \/ ~r.has /\ Register
  \/ r.has /\ r.status = "approved" /\ Past(r.until, 0) /\ ExpireTrial
  \/ r.has /\ r.status = "approved" /\ ~Past(r.until, 0) /\ Touch
  \/ r.has /\ r.status # "approved" /\ Past(r.first, Trial) /\ ExpireTrial
  \/ r.has /\ r.status # "approved" /\ ~Past(r.first, Trial) /\ Touch

\* the answer to a check that read r; "expired" is not looked at: such a user is
\* judged by first_seen, and let in if there is none
Verdict(r) ==
  \/ ~r.has /\ Register
  \/ r.has /\ r.status = "approved" /\ Past(r.until, 0) /\ ExpireTrial
  \/ r.has /\ r.status = "approved" /\ ~Past(r.until, 0) /\ Touch
  \/ r.has /\ r.status = "blocked" /\ Refuse
  \/ r.has /\ r.status \in {"trial", "expired"} /\ Past(r.first, Trial) /\ ExpireTrial
  \/ r.has /\ r.status \in {"trial", "expired"} /\ ~Past(r.first, Trial) /\ Touch

Done(c) ==
  /\ c \in busy /\ busy' = busy \ {c} /\ misread' = misread \ {c}
  /\ read' = [read EXCEPT ![c] = NoRec]

\* the admin's decision is undone when a check that misread the hash gives the
\* user another status
Answer(c) ==
  /\ Done(c)
  /\ Verdict(read[c])
  /\ decided' = IF c \in misread /\ rec'.status # rec.status THEN "none" ELSE decided
  /\ UNCHANGED now

\* the write failed
Unwritten(c) == Done(c) /\ UNCHANGED <<now, rec, written, decided>>

-----------------------------------------------------------------------------
(* The dashboard                                                           *)

\* an approval or a block of a user without a hash makes one without first_seen
Approve(until) ==
  /\ Written([rec EXCEPT !.has = TRUE, !.status = "approved", !.until = until])
  /\ decided' = "approved" /\ misread' = busy
  /\ UNCHANGED <<now, busy, read>>

Block ==
  /\ Written([rec EXCEPT !.has = TRUE, !.status = "blocked"])
  /\ decided' = "blocked" /\ misread' = busy
  /\ UNCHANGED <<now, busy, read>>

Reset ==
  /\ rec' = NoRec
  /\ decided' = "none" /\ misread' = busy
  /\ UNCHANGED <<now, written, busy, read>>

-----------------------------------------------------------------------------
(* Time                                                                    *)

\* the hash of a user nothing was written for lapses, and with it the block of
\* a user whose refused messages write nothing
Tick ==
  LET lapsed == now + 1 >= written + Ttl IN
  /\ busy = {} /\ now < MaxTime
  /\ now' = now + 1
  /\ rec' = IF lapsed THEN NoRec ELSE rec
  /\ decided' = IF lapsed \/ (decided = "approved" /\ Past(rec.until, 0)) THEN "none" ELSE decided
  /\ UNCHANGED <<written, busy, read, misread>>

TrialNext ==
  \/ \E c \in Checks : Read(c) \/ BlindRead(c) \/ Answer(c) \/ Unwritten(c)
  \/ \E until \in {now + Approval, None} : Approve(until)
  \/ Block \/ Reset \/ Tick

TrialSpec == TrialInit /\ [][TrialNext]_trialVars

-----------------------------------------------------------------------------
(* Properties                                                              *)

\* What the admin decided stands until the admin, the end of the approval or
\* the end of the hash undoes it: no check turns a blocked user into another one
\* or cuts an approval short, with two exceptions. Its read failed, and the user
\* was registered anew over the decision (trial.py:66-71); or it had read the
\* hash before the decision and gives the user another status afterwards
\* (trial.py:69-113).
DecisionHolds ==
  decided # "none" =>
    rec.has /\ (rec.status = decided \/ (decided = "approved" /\ Past(rec.until, 0)))
=============================================================================
