---------------------------- MODULE ServicesProofs ----------------------------
(***************************************************************************)
(* Proofs about the smaller components, which share no state.              *)
(*                                                                         *)
(* TrialAccounts: what the admin decided about a user stands, for any      *)
(* number of checks under way and any durations.  A check writes on the    *)
(* strength of what it has read, so the invariant has to speak of the      *)
(* reads: one begun after the decision has read a hash that shows it, or   *)
(* its read failed. The misreading checks are those whose read failed or   *)
(* is older than the decision; it is over when they change the status.     *)
(*                                                                         *)
(* TaskWatchdog: for any number of tasks and of containers, and whatever   *)
(* fails, a task is not retried by a loop that read its record after a     *)
(* retry had been counted.  The record of a task with a counted retry says *)
(* so or is gone, because nothing makes it anew (Told), and what a loop    *)
(* read later says so too, however long it stays in its list (Heard).      *)
(*                                                                         *)
(* XhsSessions: for any number of calls and of browsers, no cookies of     *)
(* before a logout come back, and calls that do not overlap lose no        *)
(* browser. The invariant says where the browser of such a call is         *)
(* (CallSeesTable), and that no call, overlapping or not, holds one with   *)
(* older cookies (CallHolds). Each action of a call is shown to be a       *)
(* GoodMove, and a GoodMove to keep the invariant.                         *)
(*                                                                         *)
(* AgentLoop: for any limits and any messages, an answer of the model has  *)
(* seen what was drained for it, the rounds that end with a nudge are      *)
(* bounded, and a strong model that keeps failing is left alone. What was  *)
(* drained in the main loop is in contents (Mailed). While the governor    *)
(* reviews an answer nothing more is drained, so the answer still has seen *)
(* all of it. The nudges of a call are counted by the exit that gave them  *)
(* (NudgesCounted), and a call has at least as many rounds (Rounds).       *)
(*                                                                         *)
(* WecomKf: for any feed, any number of pulls under way and any death of   *)
(* the process, the saved cursor skips only what another pull was          *)
(* downloading when the process died, the dedup set keeps a message from   *)
(* being handed on twice, and no message is left without a timer or a      *)
(* session. Pulls overlap freely, so nothing can be said of their order.   *)
(* What is said is local: up to the end of its page, a pull leaves nothing *)
(* behind it but what is dealt with, being downloaded or missed (Behind),  *)
(* and what it is downloading is its own by the dedup set, or was thrown   *)
(* out of it (Owns).                                                       *)
(***************************************************************************)
EXTENDS TrialAccounts, TaskWatchdog, XhsSessions, AgentLoop, WecomKf,
        FiniteSetTheorems, SequenceTheorems, TLAPS

-----------------------------------------------------------------------------
(* TrialAccounts                                                           *)

\* The hash r shows that the admin's decision stands, or has just run out.
Shows(r) == r.has /\ (r.status = decided \/ (decided = "approved" /\ Past(r.until, 0)))

\* A check that did not misread has read such a hash, with the end of the approval
\* that is still in force: only the admin writes that field.
FreshRead ==
  decided # "none" =>
    \A c \in busy \ misread : Shows(read[c]) /\ read[c].until = rec.until

TrialInv == TrialTypeOK /\ DecisionHolds /\ FreshRead

-----------------------------------------------------------------------------
\* The values read and written are hashes of the model (trial.py:116-144).
LEMMA WrittenType ==
  ASSUME TrialTypeOK, NEW f \in Records, Written(f)
  PROVE  rec' \in Records /\ written' \in Times
BY TrialConstants DEF Written, TrialTypeOK, Times

LEMMA NoRecType == NoRec \in Records
BY DEF NoRec, Records, Statuses

\* What a check writes keeps the end of the approval (trial.py:69-144).
LEMMA VerdictWrites ==
  ASSUME TrialTypeOK, NEW r \in Records, Verdict(r)
  PROVE  /\ rec' \in Records /\ written' \in Times
         /\ rec'.until = rec.until
         /\ rec.has => rec'.has
<1>1. rec \in Records /\ now \in Times
  BY TrialConstants DEF TrialTypeOK, Times
<1>2. CASE Register
  <2>1. [rec EXCEPT !.has = TRUE, !.status = "trial", !.first = now] \in Records
    BY <1>1 DEF Records, Statuses
  <2> QED BY <1>1, <1>2, <2>1, WrittenType DEF Register, Written, Records
<1>3. CASE Touch
  <2>1. [rec EXCEPT !.has = TRUE] \in Records
    BY <1>1 DEF Records
  <2> QED BY <1>1, <1>3, <2>1, WrittenType DEF Touch, Written, Records
<1>4. CASE ExpireTrial
  <2>1. [rec EXCEPT !.has = TRUE, !.status = "expired"] \in Records
    BY <1>1 DEF Records, Statuses
  <2> QED BY <1>1, <1>4, <2>1, WrittenType DEF ExpireTrial, Written, Records
<1>5. CASE Refuse
  BY <1>5 DEF Refuse, TrialTypeOK
<1> QED BY <1>2, <1>3, <1>4, <1>5 DEF Verdict

\* A check that has read a hash which shows the decision leaves one that does
\* (trial.py:69-109).
LEMMA VerdictKeeps ==
  ASSUME TrialTypeOK, DecisionHolds, decided # "none",
         NEW r \in Records, Shows(r), r.until = rec.until, Verdict(r)
  PROVE  rec'.has /\ (rec'.status = decided \/ (decided = "approved" /\ Past(rec'.until, 0)))
<1>1. rec \in Records /\ decided \in {"approved", "blocked"} /\ now \in Nat
  BY TrialConstants DEF TrialTypeOK
<1>2. rec'.until = rec.until
  BY VerdictWrites
<1>3. r.has /\ rec.has
  BY DEF Shows, DecisionHolds
<1>4. CASE decided = "blocked"
  BY <1>3, <1>4 DEF Shows, DecisionHolds, Verdict, Refuse
<1>5. CASE decided = "approved" /\ Past(r.until, 0)
  <2>1. Past(rec'.until, 0)
    BY <1>2, <1>5
  <2> QED BY <1>3, <1>5, <2>1, VerdictWrites
<1>6. CASE decided = "approved" /\ ~Past(r.until, 0)
  <2>1. r.status = "approved"
    BY <1>6 DEF Shows
  <2>2. Touch
    BY <2>1, <1>6, <1>3 DEF Verdict
  <2>3. rec'.status = rec.status /\ rec'.has
    BY <2>2, <1>1 DEF Touch, Written, Records
  <2> QED BY <2>3, <1>6, <1>2 DEF DecisionHolds
<1> QED BY <1>1, <1>4, <1>5, <1>6

-----------------------------------------------------------------------------
LEMMA TrialStarts == ASSUME TrialInit PROVE TrialInv
BY NoRecType, TrialConstants DEF TrialInit, TrialInv, TrialTypeOK, DecisionHolds, FreshRead, Times

LEMMA TrialStep == ASSUME TrialInv, [TrialNext]_trialVars PROVE TrialInv'
<1> USE DEF TrialInv
<1>1. ASSUME NEW c \in Checks, Read(c) PROVE TrialInv'
  <2>1. TrialTypeOK'
    BY <1>1 DEF Read, Reads, TrialTypeOK, Times
  <2>2. DecisionHolds'
    BY <1>1 DEF Read, Reads, DecisionHolds, Past, None
  <2>3. FreshRead'
    <3> SUFFICES ASSUME decided' # "none", NEW d \in busy' \ misread'
                 PROVE  Shows(read[d])' /\ read'[d].until = rec'.until
      BY DEF FreshRead
    <3>1. CASE d = c
      BY <3>1, <1>1 DEF Read, Reads, Shows, DecisionHolds, Past, None, TrialTypeOK
    <3>2. CASE d # c
      BY <3>2, <1>1 DEF Read, Reads, Shows, FreshRead, Past, None, TrialTypeOK
    <3> QED BY <3>1, <3>2
  <2> QED BY <2>1, <2>2, <2>3
<1>9. ASSUME NEW c \in Checks, BlindRead(c) PROVE TrialInv'
  <2>1. TrialTypeOK'
    BY <1>9, NoRecType DEF BlindRead, Reads, TrialTypeOK, Times
  <2>2. DecisionHolds'
    BY <1>9 DEF BlindRead, Reads, DecisionHolds, Past, None
  <2>3. FreshRead'
    <3> SUFFICES ASSUME decided' # "none", NEW d \in busy' \ misread'
                 PROVE  Shows(read[d])' /\ read'[d].until = rec'.until
      BY DEF FreshRead
    <3>1. d # c /\ d \in busy \ misread
      BY <1>9 DEF BlindRead, Reads
    <3> QED BY <3>1, <1>9 DEF BlindRead, Reads, Shows, FreshRead, Past, None, TrialTypeOK
  <2> QED BY <2>1, <2>2, <2>3
<1>2. ASSUME NEW c \in Checks, Answer(c) PROVE TrialInv'
  <2> DEFINE r == read[c]
  <2>1. /\ r \in Records /\ c \in busy /\ busy' = busy \ {c} /\ misread' = misread \ {c}
        /\ Verdict(r) /\ now' = now
        /\ decided' = IF c \in misread /\ rec'.status # rec.status THEN "none" ELSE decided
    BY <1>2 DEF Answer, Done, TrialTypeOK
  <2>2. /\ rec' \in Records /\ written' \in Times
        /\ rec'.until = rec.until
        /\ rec.has => rec'.has
    BY <2>1, VerdictWrites
  <2>3. TrialTypeOK'
    <3>1. read' \in [Checks -> Records]
      BY <1>2, NoRecType DEF Answer, Done, TrialTypeOK
    <3> QED BY <3>1, <2>1, <2>2 DEF TrialTypeOK
  <2>4. DecisionHolds'
    <3> SUFFICES ASSUME decided' # "none" PROVE DecisionHolds'
      BY DEF DecisionHolds
    <3>1. decided' = decided
      BY <2>1
    <3>2. CASE c \in misread
      <4>1. rec'.status = rec.status
        BY <3>1, <3>2, <2>1
      <4> QED BY <3>1, <4>1, <2>1, <2>2 DEF DecisionHolds, Past, None
    <3>3. CASE c \notin misread
      <4>1. Shows(r) /\ r.until = rec.until
        BY <3>1, <3>3, <2>1 DEF FreshRead
      <4> HIDE DEF r
      <4>2. rec'.has /\ (rec'.status = decided \/ (decided = "approved" /\ Past(rec'.until, 0)))
        BY <4>1, <3>1, <2>1, VerdictKeeps
      <4> QED BY <4>2, <3>1, <2>1 DEF DecisionHolds, Past, None
    <3> QED BY <3>2, <3>3
  <2>5. FreshRead'
    <3> SUFFICES ASSUME decided' # "none", NEW d \in busy' \ misread'
                 PROVE  Shows(read[d])' /\ read'[d].until = rec'.until
      BY DEF FreshRead
    <3>1. decided' = decided /\ d \in busy \ misread /\ d # c
      BY <2>1
    <3>2. read'[d] = read[d]
      BY <3>1, <1>2 DEF Answer, Done, TrialTypeOK
    <3> QED BY <3>1, <3>2, <2>1, <2>2 DEF FreshRead, Shows, Past, None
  <2> QED BY <2>3, <2>4, <2>5
<1>3. ASSUME NEW c \in Checks, Unwritten(c) PROVE TrialInv'
  <2>1. TrialTypeOK'
    BY <1>3, NoRecType DEF Unwritten, Done, TrialTypeOK
  <2>2. DecisionHolds'
    BY <1>3 DEF Unwritten, DecisionHolds, Past, None
  <2>3. FreshRead'
    <3> SUFFICES ASSUME decided' # "none", NEW d \in busy' \ misread'
                 PROVE  Shows(read[d])' /\ read'[d].until = rec'.until
      BY DEF FreshRead
    <3>1. d \in busy \ misread /\ d # c /\ read'[d] = read[d]
      BY <1>3 DEF Unwritten, Done, TrialTypeOK
    <3> QED BY <3>1, <1>3 DEF Unwritten, FreshRead, Shows, Past, None
  <2> QED BY <2>1, <2>2, <2>3
<1>4. ASSUME NEW until \in {now + Approval, None}, Approve(until) PROVE TrialInv'
  <2>1. until \in Times \cup {None} /\ rec \in Records
    BY TrialConstants DEF TrialTypeOK, Times
  <2>2. rec' = [rec EXCEPT !.has = TRUE, !.status = "approved", !.until = until]
    BY <1>4 DEF Approve, Written
  <2>3. rec' \in Records /\ rec'.has /\ rec'.status = "approved"
    BY <2>1, <2>2 DEF Records, Statuses
  <2>4. TrialTypeOK'
    BY <1>4, <2>3, TrialConstants DEF Approve, Written, TrialTypeOK, Times
  <2>5. DecisionHolds' /\ FreshRead'
    BY <1>4, <2>3 DEF Approve, DecisionHolds, FreshRead
  <2> QED BY <2>4, <2>5
<1>5. CASE Block
  <2>1. rec \in Records /\ rec' = [rec EXCEPT !.has = TRUE, !.status = "blocked"]
    BY <1>5 DEF Block, Written, TrialTypeOK
  <2>2. rec' \in Records /\ rec'.has /\ rec'.status = "blocked"
    BY <2>1 DEF Records, Statuses
  <2>3. TrialTypeOK'
    BY <1>5, <2>2, TrialConstants DEF Block, Written, TrialTypeOK, Times
  <2>4. DecisionHolds' /\ FreshRead'
    BY <1>5, <2>2 DEF Block, DecisionHolds, FreshRead
  <2> QED BY <2>3, <2>4
<1>6. CASE Reset
  BY <1>6, NoRecType DEF Reset, TrialTypeOK, DecisionHolds, FreshRead
<1>7. CASE Tick
  <2>1. TrialTypeOK'
    <3>1. rec' \in Records /\ decided' \in {"none", "approved", "blocked"}
      BY <1>7, NoRecType DEF Tick, TrialTypeOK
    <3> QED BY <1>7, <3>1, TrialConstants DEF Tick, TrialTypeOK
  <2>2. FreshRead'
    BY <1>7 DEF Tick, FreshRead
  <2>3. DecisionHolds'
    <3> SUFFICES ASSUME decided' # "none" PROVE DecisionHolds'
      BY DEF DecisionHolds
    <3>1. /\ rec' = rec /\ decided' = decided
          /\ ~(decided = "approved" /\ Past(rec.until, 0))
      BY <1>7 DEF Tick
    <3> QED BY <3>1 DEF DecisionHolds
  <2> QED BY <2>1, <2>2, <2>3
<1>8. CASE UNCHANGED trialVars
  BY <1>8 DEF trialVars, TrialTypeOK, DecisionHolds, FreshRead, Shows, Past, None
<1> QED BY <1>1, <1>2, <1>3, <1>4, <1>5, <1>6, <1>7, <1>8, <1>9 DEF TrialNext

-----------------------------------------------------------------------------
\* In every reachable state the hash is well formed and shows the admin's last
\* decision, and so does what the checks begun since have read
\* (trial.py:50-113, 257-317).
THEOREM TrialInvariant == TrialSpec => []TrialInv
<1>1. TrialInv /\ [TrialNext]_trialVars => TrialInv'
  BY TrialStep
<1> QED BY <1>1, TrialStarts, PTL DEF TrialSpec

\* No check undoes a decision of the admin that it has read, however many checks
\* are under way; one whose read failed, or is older than the decision, does so
\* only by giving the user another status (trial.py:66-113).
THEOREM DecisionsHold == TrialSpec => []DecisionHolds
<1>1. TrialInv => DecisionHolds
  BY DEF TrialInv
<1> QED BY <1>1, TrialInvariant, PTL

-----------------------------------------------------------------------------
(* TaskWatchdog                                                            *)

Told == \A k \in begun : record[k] \in {MaxRetries, Gone}

Heard ==
  \A c \in Loops : \A i \in DOMAIN list[c] :
    <<c, list[c][i][1]>> \in late => list[c][i][2] = MaxRetries

WatchdogInv == WatchdogTypeOK /\ RetriedOnce /\ Told /\ Heard

Entries == Tasks \X (0 .. MaxRetries)

-----------------------------------------------------------------------------
\* The list a loop works off loses its head (task_watchdog.py:211-237).
LEMMA RestFacts ==
  ASSUME WatchdogTypeOK, Heard, NEW c \in Loops, list[c] # <<>>, Rest(c), UNCHANGED late
  PROVE  /\ list' \in [Loops -> Seq(Entries)] /\ Heard'
         /\ Head(list[c]) \in Entries
         /\ Head(list[c])[1] \in Tasks /\ Head(list[c])[2] \in 0 .. MaxRetries
         /\ <<c, Head(list[c])[1]>> \in late => Head(list[c])[2] = MaxRetries
<1>1. list \in [Loops -> Seq(Entries)] /\ list[c] \in Seq(Entries)
  BY DEF WatchdogTypeOK, Entries
<1>2. /\ Head(list[c]) \in Entries /\ Tail(list[c]) \in Seq(Entries)
      /\ Head(list[c]) = list[c][1] /\ 1 \in DOMAIN list[c]
      /\ \A i \in DOMAIN Tail(list[c]) :
           i + 1 \in DOMAIN list[c] /\ Tail(list[c])[i] = list[c][i + 1]
  BY <1>1, HeadTailProperties
<1>3. list' = [list EXCEPT ![c] = Tail(list[c])]
  BY DEF Rest
<1>4. Heard'
  <2> SUFFICES ASSUME NEW d \in Loops, NEW i \in DOMAIN list'[d], <<d, list'[d][i][1]>> \in late
               PROVE  list'[d][i][2] = MaxRetries
    BY DEF Heard
  <2>1. CASE d = c
    BY <2>1, <1>1, <1>2, <1>3 DEF Heard
  <2>2. CASE d # c
    BY <2>2, <1>1, <1>3 DEF Heard
  <2> QED BY <2>1, <2>2
<1>5. Head(list[c])[1] \in Tasks /\ Head(list[c])[2] \in 0 .. MaxRetries
  BY <1>2 DEF Entries
<1> QED BY <1>1, <1>2, <1>3, <1>4, <1>5 DEF Heard

LEMMA Keeps ==
  ASSUME WatchdogTypeOK, Told, Heard, RetriedOnce, UNCHANGED <<list, begun, late, repeated>>,
         \A k \in begun : record'[k] \in {record[k], Gone}
  PROVE  RetriedOnce' /\ Told' /\ Heard'
BY DEF Told, Heard, RetriedOnce

LEMMA WatchdogStarts == ASSUME WatchdogInit PROVE WatchdogInv
<1>1. <<>> \in Seq(Entries)
  BY EmptySeq
<1>2. WatchdogTypeOK
  BY <1>1, WatchdogConstants DEF WatchdogInit, WatchdogTypeOK, Entries, New, Gone, MaxRetries, NoRetry
<1>3. RetriedOnce /\ Told /\ Heard
  BY DEF WatchdogInit, RetriedOnce, Told, Heard
<1> QED BY <1>2, <1>3 DEF WatchdogInv

-----------------------------------------------------------------------------
LEMMA WatchdogStep == ASSUME WatchdogInv, [WatchdogNext]_watchdogVars PROVE WatchdogInv'
<1> USE DEF WatchdogInv
<1>1. ASSUME NEW k \in Tasks, Record(k) PROVE WatchdogInv'
  <2>1. WatchdogTypeOK'
    BY <1>1 DEF Record, WatchdogTypeOK, MaxRetries
  <2>2. \A l \in begun : record'[l] = record[l]
    BY <1>1 DEF Record, WatchdogTypeOK, Told, New, Gone, MaxRetries
  <2> QED BY <1>1, <2>1, <2>2, Keeps DEF Record
<1>2. ASSUME NEW k \in Tasks, Cool(k) PROVE WatchdogInv'
  BY <1>2 DEF Cool, WatchdogTypeOK, RetriedOnce, Told, Heard
<1>3. ASSUME NEW k \in Tasks, RecordExpires(k) PROVE WatchdogInv'
  <2>1. WatchdogTypeOK'
    BY <1>3 DEF RecordExpires, WatchdogTypeOK
  <2>2. \A l \in begun : record'[l] \in {record[l], Gone}
    BY <1>3 DEF RecordExpires, WatchdogTypeOK
  <2> QED BY <1>3, <2>1, <2>2, Keeps DEF RecordExpires
<1>4. ASSUME NEW c \in Loops, Scan(c) PROVE WatchdogInv'
  <2>1. PICK keys : keys = {k \in Tasks : Stored(k)}
    OBVIOUS
  <2>2. PICK order \in [1 .. Cardinality(keys) -> keys] :
          list' = [list EXCEPT ![c] = [i \in DOMAIN order |-> <<order[i], record[order[i]]>>]]
    BY <1>4, <2>1 DEF Scan
  <2>3. Cardinality(keys) \in Nat
    BY <2>1, FS_Subset, FS_CardinalityType, WatchdogConstants
  <2>4. PICK new : new = [i \in 1 .. Cardinality(keys) |-> <<order[i], record[order[i]]>>]
    OBVIOUS
  <2>5. ASSUME NEW i \in 1 .. Cardinality(keys)
        PROVE  /\ order[i] \in Tasks /\ record[order[i]] \in 0 .. MaxRetries
               /\ order[i] \in begun => record[order[i]] = MaxRetries
    <3>1. order[i] \in Tasks /\ Stored(order[i])
      BY <2>1, <2>2
    <3> QED BY <3>1 DEF Stored, WatchdogTypeOK, Told, New, Gone, MaxRetries
  <2>6. new \in Seq(Entries)
    BY <2>3, <2>4, <2>5 DEF Entries
  <2>7. list \in [Loops -> Seq(Entries)] /\ list' = [list EXCEPT ![c] = new]
    BY <2>2, <2>4 DEF WatchdogTypeOK, Entries
  <2>8. late' = {x \in late : x[1] # c} \cup ({c} \X (keys \cap begun))
        /\ UNCHANGED <<record, age, retrying, watchdogFaults, watchdogCrashes, begun, repeated>>
    BY <1>4, <2>1 DEF Scan
  <2>9. WatchdogTypeOK'
    <3>1. late' \subseteq Loops \X Tasks
      BY <2>1, <2>8 DEF WatchdogTypeOK
    <3>2. list' \in [Loops -> Seq(Entries)]
      BY <2>6, <2>7
    <3> QED BY <3>1, <3>2, <2>8 DEF WatchdogTypeOK, Entries
  <2>10. Heard'
    <3> SUFFICES ASSUME NEW d \in Loops, NEW i \in DOMAIN list'[d], <<d, list'[d][i][1]>> \in late'
                 PROVE  list'[d][i][2] = MaxRetries
      BY DEF Heard
    <3>1. CASE d = c
      <4>1. i \in 1 .. Cardinality(keys) /\ list'[d][i] = <<order[i], record[order[i]]>>
        BY <3>1, <2>4, <2>7
      <4>2. order[i] \in begun
        BY <4>1, <3>1, <2>8
      <4> QED BY <4>1, <4>2, <2>5
    <3>2. CASE d # c
      <4>1. list'[d] = list[d] /\ <<d, list[d][i][1]>> \in late
        BY <3>2, <2>7, <2>8
      <4> QED BY <4>1 DEF Heard
    <3> QED BY <3>1, <3>2
  <2>11. RetriedOnce' /\ Told'
    BY <2>8 DEF RetriedOnce, Told
  <2> QED BY <2>9, <2>10, <2>11
<1>5. ASSUME NEW c \in Loops, Skip(c) PROVE WatchdogInv'
  <2>1. list' \in [Loops -> Seq(Entries)] /\ Heard'
    BY <1>5, RestFacts DEF Skip
  <2> QED BY <1>5, <2>1 DEF Skip, WatchdogTypeOK, Entries, RetriedOnce, Told
<1>6. ASSUME NEW c \in Loops, Exhausted(c) PROVE WatchdogInv'
  <2>1. list' \in [Loops -> Seq(Entries)] /\ Heard'
    BY <1>6, RestFacts DEF Exhausted
  <2>2. record' \in [Tasks -> 0 .. MaxRetries \cup {New, Gone}] /\ Told'
    BY <1>6 DEF Exhausted, WatchdogTypeOK, Told
  <2> QED BY <1>6, <2>1, <2>2 DEF Exhausted, WatchdogTypeOK, Entries, RetriedOnce
<1>7. ASSUME NEW c \in Loops, Retry(c) PROVE WatchdogInv'
  <2>1. PICK k, n : k = Head(list[c])[1] /\ n = Head(list[c])[2]
    OBVIOUS
  <2>2. /\ list' \in [Loops -> Seq(Entries)] /\ Heard' /\ k \in Tasks /\ n \in 0 .. MaxRetries
        /\ <<c, k>> \in late => n = MaxRetries
    BY <1>7, <2>1, RestFacts DEF Retry
  <2>3. n = 0
    BY <1>7, <2>1, <2>2 DEF Retry, MaxRetries
  <2>4. repeated' = repeated
    BY <1>7, <2>1, <2>2, <2>3 DEF Retry, MaxRetries
  <2>5. \/ record' = [record EXCEPT ![k] = 1] /\ begun' = begun \cup {k} /\ UNCHANGED watchdogFaults
        \/ WatchdogFault /\ UNCHANGED <<record, begun>>
    BY <1>7, <2>1, <2>3 DEF Retry, Counted
  <2>6. /\ record' \in [Tasks -> 0 .. MaxRetries \cup {New, Gone}] /\ Told'
        /\ begun' \subseteq Tasks /\ watchdogFaults' \in 0 .. MaxWatchdogFaults
    <3>1. record \in [Tasks -> 0 .. 1 \cup {New, Gone}] /\ begun \subseteq Tasks
      BY DEF WatchdogTypeOK, MaxRetries
    <3>2. CASE record' = [record EXCEPT ![k] = 1] /\ begun' = begun \cup {k} /\ UNCHANGED watchdogFaults
      <4>1. record' \in [Tasks -> 0 .. 1 \cup {New, Gone}] /\ begun' \subseteq Tasks
        BY <2>2, <3>1, <3>2
      <4>2. \A l \in begun' : record'[l] \in {1, Gone}
        BY <2>2, <3>1, <3>2 DEF Told, MaxRetries
      <4> QED BY <3>2, <4>1, <4>2 DEF Told, MaxRetries, WatchdogTypeOK
    <3>3. CASE WatchdogFault /\ UNCHANGED <<record, begun>>
      BY <3>1, <3>3, WatchdogConstants DEF Told, WatchdogFault, MaxRetries, WatchdogTypeOK
    <3> QED BY <2>5, <3>2, <3>3
  <2>7. retrying' \in [Loops -> Tasks \cup {NoRetry}] /\ UNCHANGED <<age, watchdogCrashes, late>>
    BY <1>7, <2>1, <2>2 DEF Retry, WatchdogTypeOK
  <2> QED BY <2>2, <2>4, <2>6, <2>7 DEF WatchdogTypeOK, Entries, RetriedOnce
<1>8. ASSUME NEW c \in Loops, RetryEnds(c) PROVE WatchdogInv'
  <2>1. WatchdogTypeOK'
    BY <1>8, WatchdogConstants DEF RetryEnds, WatchdogTypeOK, WatchdogFault
  <2>2. \A l \in begun : record'[l] \in {record[l], Gone}
    BY <1>8 DEF RetryEnds, WatchdogTypeOK
  <2> QED BY <1>8, <2>1, <2>2, Keeps DEF RetryEnds
<1>9. ASSUME NEW c \in Loops, WatchdogCrash(c) PROVE WatchdogInv'
  <2>1. <<>> \in Seq(Entries) /\ list' = [list EXCEPT ![c] = <<>>] /\ list \in [Loops -> Seq(Entries)]
    BY <1>9, EmptySeq DEF WatchdogCrash, WatchdogTypeOK, Entries
  <2>2. Heard'
    BY <1>9, <2>1 DEF WatchdogCrash, Heard
  <2>3. WatchdogTypeOK'
    <3>1. list' \in [Loops -> Seq(Entries)]
      BY <2>1
    <3> QED BY <3>1, <1>9, WatchdogConstants DEF WatchdogCrash, WatchdogTypeOK, Entries
  <2> QED BY <1>9, <2>2, <2>3 DEF WatchdogCrash, RetriedOnce, Told
<1>10. CASE UNCHANGED watchdogVars
  BY <1>10 DEF watchdogVars, WatchdogTypeOK, RetriedOnce, Told, Heard
<1> QED BY <1>1, <1>2, <1>3, <1>4, <1>5, <1>6, <1>7, <1>8, <1>9, <1>10 DEF WatchdogNext

-----------------------------------------------------------------------------
\* The invariant holds for any finite set of tasks and any containers
\* (task_watchdog.py:49-93, 195-237).
THEOREM WatchdogInvariant == WatchdogSpec => []WatchdogInv
<1>1. WatchdogInit => WatchdogInv
  BY WatchdogStarts
<1>2. WatchdogInv /\ [WatchdogNext]_watchdogVars => WatchdogInv'
  BY WatchdogStep
<1> QED BY <1>1, <1>2, PTL DEF WatchdogSpec

\* No loop retries a task whose counted retry it could have read of
\* (task_watchdog.py:216-237).
THEOREM TasksRetriedOnce == WatchdogSpec => []RetriedOnce
<1>1. WatchdogInv => RetriedOnce
  BY DEF WatchdogInv
<1> QED BY <1>1, WatchdogInvariant, PTL

-----------------------------------------------------------------------------
(* XhsSessions                                                             *)

VisitRecords == [op: Ops, at: Places, b: 0 .. MaxBrowsers,
                 then: {"end", "opening", "lookup", "launch"}]
XhsPlace(v) == visit[v].at
XhsBrowser(v) == visit[v].b

\* While the last call overlaps no other, it is the only one under way.
CallsAlone == ~crossed => \A v, w \in Visits : XhsPlace(v) # "idle" /\ XhsPlace(w) # "idle" => v = w

\* A login is of after the logout.
AfterLogout(login) == login = 0 \/ login > leftAt

\* What a call holds: nothing before it has closed or opened a browser, and no
\* browser with the cookies of an earlier login.
CallHolds(v) ==
  /\ XhsPlace(v) = "idle" => visit[v] = NoVisit
  /\ XhsPlace(v) \in {"opening", "lookup", "launch"} => XhsBrowser(v) = 0
  /\ XhsPlace(v) \in {"loading", "context", "page", "qr", "creator"} => XhsBrowser(v) # 0
  /\ XhsBrowser(v) <= opened
  /\ XhsBrowser(v) # 0 => AfterLogout(jar[XhsBrowser(v)])

\* Where a browser is, with a call that overlaps no other: not in the table while
\* it is closed or opened, and still there, if open, when its page is used.
CallSeesTable(v) ==
  ~crossed =>
    /\ XhsPlace(v) \in {"closing", "saved", "launch", "loading", "context", "leaving"} => inTable = 0
    /\ XhsPlace(v) \in {"page", "qr", "creator"} =>
         XhsBrowser(v) = inTable \/ XhsBrowser(v) \notin browsers

\* A browser that has not been opened has no cookies, and the table and Redis
\* have none of before the logout.
CookiesKept ==
  /\ inTable <= opened /\ \A b \in browsers : b <= opened
  /\ \A b \in Browsers : b > opened => jar[b] = 0
  /\ leftAt <= scans
  /\ AfterLogout(stored) /\ (inTable # 0 => AfterLogout(jar[inTable]))

XhsInv ==
  /\ XhsTypeOK /\ CallsAlone /\ CookiesKept
  /\ \A v \in Visits : CallHolds(v) /\ CallSeesTable(v)

LEMMA XhsNat == MaxBrowsers \in Nat /\ MaxScans \in Nat /\ MaxVisits \in Nat /\ MaxXhsFaults \in Nat
BY XhsConstants

\* The actions of a call.
CallStep(v) ==
       \/ Look(v, "look") \/ Look(v, "search") \/ Check(v) \/ Login(v) \/ PublishNote(v)
       \/ Close(v) \/ Logout(v)
       \/ SaveOnClose(v) \/ Closed(v)
       \/ GetSession(v) \/ Launch(v) \/ LoadCookies(v) \/ Insert(v)
       \/ Looked(v) \/ Walled(v) \/ Recognised(v) \/ Unrecognised(v) \/ Scanned(v) \/ NotScanned(v)
       \/ PublishRefresh(v) \/ PublishCreator(v)
       \/ LoggedOut(v) \/ VisitFails(v)

\* Each of them gives its call another record and leaves those of the others.
Moves(v, r) ==
  r \in VisitRecords /\ visit' = [visit EXCEPT ![v] = r]

MovesTo(v, at) == Moves(v, [visit[v] EXCEPT !.at = at])

LEMMA MovesOne ==
  ASSUME XhsTypeOK, NEW v \in Visits, NEW r, Moves(v, r)
  PROVE  /\ visit' \in [Visits -> VisitRecords]
         /\ visit'[v] = r
         /\ \A w \in Visits : w # v => visit'[w] = visit[w]
BY DEF Moves, XhsTypeOK, VisitRecords

LEMMA GoesMoves ==
  ASSUME XhsTypeOK, NEW v \in Visits, NEW at \in Places, Goes(v, at)
  PROVE  MovesTo(v, at)
BY DEF Goes, MovesTo, Moves, XhsTypeOK, VisitRecords

LEMMA EndMoves ==
  ASSUME XhsTypeOK, NEW v \in Visits, VisitEnds(v)
  PROVE  Moves(v, NoVisit)
BY XhsNat DEF VisitEnds, Moves, VisitRecords, NoVisit, Ops, Places

LEMMA BeginMoves ==
  ASSUME XhsTypeOK, NEW v \in Visits, NEW op \in Ops, NEW at \in Places, NEW b \in 0 .. MaxBrowsers,
         NEW then \in {"end", "opening", "lookup", "launch"}, Begin(v, op, at, b, then)
  PROVE  /\ Moves(v, [op |-> op, at |-> at, b |-> b, then |-> then])
         /\ visits' \in 0 .. MaxVisits /\ crossed' \in BOOLEAN
         /\ ~crossed' => \A w \in Visits \ {v} : visit[w].at = "idle"
         /\ visit[v].at = "idle"
<1>1. visits' \in 0 .. MaxVisits
  BY XhsNat DEF Begin, XhsTypeOK
<1> QED BY <1>1 DEF Begin, Moves, VisitRecords

LEMMA CloseMoves ==
  ASSUME XhsTypeOK, NEW v \in Visits, NEW then \in {"lookup", "launch"}, CloseSession(v, then)
  PROVE  \E r : Moves(v, r) /\ r.at = "closing" /\ r.b = inTable
<1> DEFINE r == [visit[v] EXCEPT !.at = "closing", !.b = inTable, !.then = then]
<1>1. visit[v] \in VisitRecords
  BY DEF XhsTypeOK, VisitRecords
<1>2. r \in VisitRecords /\ r.at = "closing" /\ r.b = inTable
  BY <1>1 DEF VisitRecords, Places, XhsTypeOK
<1>3. visit' = [visit EXCEPT ![v] = r]
  BY DEF CloseSession
<1> QED BY <1>2, <1>3 DEF Moves

\* What a step of the call v has to do for the invariant, with the record r that
\* it leaves to v: the others have theirs still.
RestTypeOK ==
  /\ inTable \in 0 .. MaxBrowsers /\ browsers \subseteq Browsers /\ loggedIn \subseteq Browsers
  /\ jar \in [Browsers -> 0 .. MaxScans] /\ stored \in 0 .. MaxScans /\ shown \subseteq Browsers
  /\ opened \in 0 .. MaxBrowsers /\ scans \in 0 .. MaxScans /\ visits \in 0 .. MaxVisits
  /\ xhsFaults \in 0 .. MaxXhsFaults /\ crossed \in BOOLEAN /\ leftAt \in 0 .. MaxScans

CookiesOfOthers(v) ==
  \/ leftAt' = leftAt /\ \A b \in Browsers : jar'[b] = jar[b] \/ AfterLogout(jar'[b])
  \/ \A w \in Visits \ {v} : visit[w].at = "idle"

GoodRecord(r) ==
  /\ r.at = "idle" => r = NoVisit
  /\ r.at \in {"opening", "lookup", "launch"} => r.b = 0
  /\ r.at \in {"loading", "context", "page", "qr", "creator"} => r.b # 0
  /\ r.b <= opened'
  /\ r.b # 0 => jar'[r.b] = 0 \/ jar'[r.b] > leftAt'

GoodTable(r) ==
  ~crossed' =>
    /\ r.at \in {"closing", "saved", "launch", "loading", "context", "leaving"} => inTable' = 0
    /\ r.at \in {"page", "qr", "creator"} => r.b = inTable' \/ r.b \notin browsers'

LosesNone(v, r) ==
  ~crossed' /\ xhsFaults' = xhsFaults =>
    \A b \in browsers' \ {inTable', r.b} : b \in browsers \ {inTable, visit[v].b}

GoodMove(v, r) ==
  /\ Moves(v, r) /\ RestTypeOK' /\ CookiesKept' /\ opened <= opened'
  /\ CookiesOfOthers(v) /\ GoodRecord(r) /\ GoodTable(r) /\ LosesNone(v, r)
  /\ ~crossed' => \A w \in Visits \ {v} : visit[w].at = "idle"

LEMMA GoodMoveKeeps ==
  ASSUME XhsInv, NEW v \in Visits, NEW r, GoodMove(v, r)
  PROVE  XhsInv' /\ (~crossed' /\ xhsFaults' = xhsFaults => Stray' \subseteq Stray)
<1>1. /\ visit' \in [Visits -> VisitRecords]
      /\ visit'[v] = r
      /\ \A w \in Visits : w # v => visit'[w] = visit[w]
  BY MovesOne DEF XhsInv, GoodMove
<1>2. XhsTypeOK'
  BY <1>1 DEF GoodMove, RestTypeOK, XhsTypeOK, VisitRecords
<1>3. CallsAlone'
  BY <1>1 DEF GoodMove, CallsAlone, XhsPlace
<1>4. ASSUME NEW w \in Visits PROVE CallHolds(w)' /\ CallSeesTable(w)'
  <2>1. CASE w = v
    BY <1>1, <2>1 DEF GoodMove, GoodRecord, GoodTable, CallHolds, CallSeesTable, XhsPlace, XhsBrowser,
       AfterLogout
  <2>2. CASE w # v
    <3>1. visit'[w] = visit[w] /\ CallHolds(w) /\ visit[w].b \in 0 .. MaxBrowsers
      BY <1>1, <2>2 DEF XhsInv, XhsTypeOK
    <3>2. ~crossed' => visit[w].at = "idle"
      BY <2>2 DEF GoodMove
    <3>3. CallSeesTable(w)'
      BY <3>1, <3>2 DEF CallSeesTable, XhsPlace
    <3>4. visit[w].b <= opened'
      BY <3>1, XhsNat DEF GoodMove, CallHolds, XhsBrowser, RestTypeOK, XhsInv, XhsTypeOK
    <3>5. visit[w].b # 0 => jar'[visit[w].b] = 0 \/ jar'[visit[w].b] > leftAt'
      BY <3>1, <2>2 DEF GoodMove, CookiesOfOthers, CallHolds, XhsBrowser, XhsPlace, AfterLogout, NoVisit, Browsers
    <3> QED BY <3>1, <3>3, <3>4, <3>5 DEF CallHolds, XhsBrowser, XhsPlace, AfterLogout
  <2> QED BY <2>1, <2>2
<1>5. ASSUME ~crossed', xhsFaults' = xhsFaults, NEW b \in Stray' PROVE b \in Stray
  <2>1. b \in browsers' \ {inTable', r.b}
    BY <1>1, <1>5 DEF Stray
  <2>2. b \in browsers \ {inTable, visit[v].b} /\ b # 0
    BY <1>5, <2>1 DEF GoodMove, LosesNone, XhsInv, XhsTypeOK, Browsers
  <2>3. \A w \in Visits : w # v => visit[w].b = 0
    BY <1>5 DEF GoodMove, XhsInv, CallHolds, XhsPlace, NoVisit
  <2> QED BY <2>2, <2>3 DEF Stray
<1> QED BY <1>2, <1>3, <1>4, <1>5 DEF XhsInv, GoodMove

\* A call under way that overlaps no other is alone.
LEMMA NoOtherCall ==
  ASSUME XhsInv, NEW v \in Visits, visit[v].at # "idle", crossed' = crossed
  PROVE  ~crossed' => \A w \in Visits \ {v} : visit[w].at = "idle"
BY DEF XhsInv, CallsAlone, XhsPlace

\* What is known of the state and of the record of a call.
LEMMA XhsFacts ==
  ASSUME XhsInv, NEW v \in Visits
  PROVE  /\ XhsTypeOK /\ RestTypeOK /\ CookiesKept /\ visit[v] \in VisitRecords
         /\ CallHolds(v) /\ CallSeesTable(v)
BY DEF XhsInv, XhsTypeOK, RestTypeOK, VisitRecords

LEMMA BrowserNumbers ==
  ASSUME XhsInv
  PROVE  /\ opened \in Nat /\ scans \in Nat /\ leftAt \in Nat /\ inTable \in Nat /\ stored \in Nat
         /\ xhsFaults \in Nat
         /\ \A b \in Browsers : b \in Nat /\ b # 0 /\ jar[b] \in Nat
         /\ 0 \notin browsers /\ 0 \notin loggedIn /\ browsers \subseteq Browsers
BY XhsNat DEF XhsInv, XhsTypeOK, Browsers

-----------------------------------------------------------------------------
\* Each action is such a move.
\* A look or a search begins.
LEMMA LookGood ==
  ASSUME XhsInv, NEW v \in Visits, NEW op \in {"look", "search"}, Look(v, op)
  PROVE  \E r : GoodMove(v, r)
<1> USE XhsFacts, BrowserNumbers, XhsNat
<1> DEFINE r == [op |-> op, at |-> "opening", b |-> 0, then |-> "end"]
<1>1. Moves(v, r)
  <2>1. op \in Ops /\ "opening" \in Places /\ 0 \in 0 .. MaxBrowsers
    BY DEF Ops, Places
  <2>2. Begin(v, op, "opening", 0, "end")
    BY DEF Look
  <2> HIDE DEF r
  <2> QED BY <2>1, <2>2, BeginMoves DEF r
<1>2. RestTypeOK' /\ opened <= opened'
  BY DEF RestTypeOK, Look, Begin
<1>3. CookiesKept'
  BY <1>2 DEF RestTypeOK, CookiesKept, CallHolds, XhsBrowser, AfterLogout, Look, Begin
<1>4. CookiesOfOthers(v)
  BY DEF CookiesOfOthers, CookiesKept, AfterLogout, Look, Begin
<1>5. GoodRecord(r)
  BY DEF GoodRecord, NoVisit, CookiesKept, AfterLogout, CallHolds, XhsBrowser, XhsPlace, Look, Begin
<1>6. GoodTable(r)
  BY DEF GoodTable, NoVisit, CallSeesTable, XhsPlace, XhsBrowser, Look, Begin
<1>7. LosesNone(v, r)
  BY <1>1 DEF LosesNone, NoVisit, CallSeesTable, CallHolds, XhsPlace, XhsBrowser, Look, Begin
<1>8. ~crossed' => \A w \in Visits \ {v} : visit[w].at = "idle"
  BY NoOtherCall DEF Look, Begin
<1> QED BY <1>1, <1>2, <1>3, <1>4, <1>5, <1>6, <1>7, <1>8 DEF GoodMove

\* A publication begins.
LEMMA PublishGood ==
  ASSUME XhsInv, NEW v \in Visits, PublishNote(v)
  PROVE  \E r : GoodMove(v, r)
<1> USE XhsFacts, BrowserNumbers, XhsNat
<1> DEFINE r == [op |-> "publish", at |-> "page", b |-> inTable, then |-> "end"]
<1>1. Moves(v, r)
  BY BeginMoves DEF PublishNote, Ops, Places, RestTypeOK
<1>2. RestTypeOK' /\ opened <= opened'
  BY DEF RestTypeOK, PublishNote, Begin
<1>3. CookiesKept'
  BY <1>2 DEF RestTypeOK, CookiesKept, CallHolds, XhsBrowser, AfterLogout, PublishNote, Begin
<1>4. CookiesOfOthers(v)
  BY DEF CookiesOfOthers, CookiesKept, AfterLogout, PublishNote, Begin
<1>5. GoodRecord(r)
  BY DEF GoodRecord, NoVisit, CookiesKept, AfterLogout, CallHolds, XhsBrowser, XhsPlace, PublishNote, Begin
<1>6. GoodTable(r)
  BY DEF GoodTable, NoVisit, CallSeesTable, XhsPlace, XhsBrowser, PublishNote, Begin
<1>7. LosesNone(v, r)
  BY <1>1 DEF LosesNone, NoVisit, CallSeesTable, CallHolds, XhsPlace, XhsBrowser, PublishNote, Begin
<1>8. ~crossed' => \A w \in Visits \ {v} : visit[w].at = "idle"
  BY NoOtherCall DEF PublishNote, Begin
<1> QED BY <1>1, <1>2, <1>3, <1>4, <1>5, <1>6, <1>7, <1>8 DEF GoodMove

\* A close begins.
LEMMA CloseGood ==
  ASSUME XhsInv, NEW v \in Visits, Close(v)
  PROVE  \E r : GoodMove(v, r)
<1> USE XhsFacts, BrowserNumbers, XhsNat
<1> DEFINE r == [op |-> "close", at |-> "closing", b |-> inTable, then |-> "end"]
<1>1. Moves(v, r)
  BY BeginMoves DEF Close, Ops, Places, RestTypeOK
<1>2. RestTypeOK' /\ opened <= opened'
  BY DEF RestTypeOK, Close, Begin
<1>3. CookiesKept'
  BY <1>2 DEF RestTypeOK, CookiesKept, CallHolds, XhsBrowser, AfterLogout, Close, Begin
<1>4. CookiesOfOthers(v)
  BY DEF CookiesOfOthers, CookiesKept, AfterLogout, Close, Begin
<1>5. GoodRecord(r)
  BY DEF GoodRecord, NoVisit, CookiesKept, AfterLogout, CallHolds, XhsBrowser, XhsPlace, Close, Begin
<1>6. GoodTable(r)
  BY DEF GoodTable, NoVisit, CallSeesTable, XhsPlace, XhsBrowser, Close, Begin
<1>7. LosesNone(v, r)
  BY <1>1 DEF LosesNone, NoVisit, CallSeesTable, CallHolds, XhsPlace, XhsBrowser, Close, Begin
<1>8. ~crossed' => \A w \in Visits \ {v} : visit[w].at = "idle"
  BY NoOtherCall DEF Close, Begin
<1> QED BY <1>1, <1>2, <1>3, <1>4, <1>5, <1>6, <1>7, <1>8 DEF GoodMove

\* A logout begins.
LEMMA LogoutGood ==
  ASSUME XhsInv, NEW v \in Visits, Logout(v)
  PROVE  \E r : GoodMove(v, r)
<1> USE XhsFacts, BrowserNumbers, XhsNat
<1> DEFINE r == [op |-> "logout", at |-> "leaving", b |-> inTable, then |-> "end"]
<1>1. Moves(v, r)
  BY BeginMoves DEF Logout, Ops, Places, RestTypeOK
<1>2. RestTypeOK' /\ opened <= opened'
  BY DEF RestTypeOK, Logout, Begin
<1>3. CookiesKept'
  BY <1>2 DEF RestTypeOK, CookiesKept, CallHolds, XhsBrowser, AfterLogout, Logout, Begin
<1>4. CookiesOfOthers(v)
  BY DEF CookiesOfOthers, CookiesKept, AfterLogout, Logout, Begin
<1>5. GoodRecord(r)
  BY DEF GoodRecord, NoVisit, CookiesKept, AfterLogout, CallHolds, XhsBrowser, XhsPlace, Logout, Begin
<1>6. GoodTable(r)
  BY DEF GoodTable, NoVisit, CallSeesTable, XhsPlace, XhsBrowser, Logout, Begin
<1>7. LosesNone(v, r)
  BY <1>1 DEF LosesNone, NoVisit, CallSeesTable, CallHolds, XhsPlace, XhsBrowser, Logout, Begin
<1>8. ~crossed' => \A w \in Visits \ {v} : visit[w].at = "idle"
  BY NoOtherCall DEF Logout, Begin
<1> QED BY <1>1, <1>2, <1>3, <1>4, <1>5, <1>6, <1>7, <1>8 DEF GoodMove

\* A check begins.
LEMMA CheckGood ==
  ASSUME XhsInv, NEW v \in Visits, Check(v)
  PROVE  \E r : GoodMove(v, r)
<1> USE XhsFacts, BrowserNumbers, XhsNat
<1> DEFINE r == [op |-> "check", at |-> IF inTable # 0 THEN "page" ELSE "launch", b |-> inTable, then |-> "end"]
<1>1. Moves(v, r)
  BY BeginMoves DEF Check, Ops, Places, RestTypeOK
<1>2. RestTypeOK' /\ opened <= opened'
  <2>1. visits' = visits + 1 /\ visits < MaxVisits /\ crossed' \in BOOLEAN
    BY DEF Check, Begin
  <2> QED BY <2>1 DEF RestTypeOK, Check
<1>3. CookiesKept'
  BY <1>2 DEF RestTypeOK, CookiesKept, CallHolds, XhsBrowser, AfterLogout, Check, Begin
<1>4. CookiesOfOthers(v)
  BY DEF CookiesOfOthers, CookiesKept, AfterLogout, Check, Begin
<1>5. GoodRecord(r)
  BY DEF GoodRecord, NoVisit, CookiesKept, AfterLogout, CallHolds, XhsBrowser, XhsPlace, Check, Begin
<1>6. GoodTable(r)
  BY DEF GoodTable, NoVisit, CallSeesTable, XhsPlace, XhsBrowser, Check, Begin
<1>7. LosesNone(v, r)
  <2>1. visit[v].at = "idle" /\ browsers' = browsers
    BY DEF Check, Begin
  <2>2. visit[v].b = 0
    BY <2>1 DEF CallHolds, XhsPlace, NoVisit
  <2> QED BY <2>1, <2>2 DEF LosesNone, Check
<1>8. ~crossed' => \A w \in Visits \ {v} : visit[w].at = "idle"
  BY NoOtherCall DEF Check, Begin
<1> QED BY <1>1, <1>2, <1>3, <1>4, <1>5, <1>6, <1>7, <1>8 DEF GoodMove

\* A login begins.
LEMMA LoginGood ==
  ASSUME XhsInv, NEW v \in Visits, Login(v)
  PROVE  \E r : GoodMove(v, r)
<1> USE XhsFacts, BrowserNumbers, XhsNat
<1> DEFINE r == [op |-> "login", at |-> IF inTable # 0 THEN "closing" ELSE "launch", b |-> inTable,
                 then |-> IF inTable # 0 THEN "opening" ELSE "end"]
<1>1. Moves(v, r)
  BY BeginMoves DEF Login, Ops, Places, RestTypeOK
<1>2. RestTypeOK' /\ opened <= opened'
  <2>1. visits' = visits + 1 /\ visits < MaxVisits /\ crossed' \in BOOLEAN
    BY DEF Login, Begin
  <2> QED BY <2>1 DEF RestTypeOK, Login
<1>3. CookiesKept'
  BY <1>2 DEF RestTypeOK, CookiesKept, CallHolds, XhsBrowser, AfterLogout, Login, Begin
<1>4. CookiesOfOthers(v)
  BY DEF CookiesOfOthers, CookiesKept, AfterLogout, Login, Begin
<1>5. GoodRecord(r)
  BY DEF GoodRecord, NoVisit, CookiesKept, AfterLogout, CallHolds, XhsBrowser, XhsPlace, Login, Begin
<1>6. GoodTable(r)
  BY DEF GoodTable, NoVisit, CallSeesTable, XhsPlace, XhsBrowser, Login, Begin
<1>7. LosesNone(v, r)
  <2>1. visit[v].at = "idle" /\ browsers' = browsers
    BY DEF Login, Begin
  <2>2. visit[v].b = 0
    BY <2>1 DEF CallHolds, XhsPlace, NoVisit
  <2> QED BY <2>1, <2>2 DEF LosesNone, Login
<1>8. ~crossed' => \A w \in Visits \ {v} : visit[w].at = "idle"
  BY NoOtherCall DEF Login, Begin
<1> QED BY <1>1, <1>2, <1>3, <1>4, <1>5, <1>6, <1>7, <1>8 DEF GoodMove

\* The cookies are saved.
LEMMA SaveGood ==
  ASSUME XhsInv, NEW v \in Visits, SaveOnClose(v)
  PROVE  \E r : GoodMove(v, r)
<1> USE XhsFacts, BrowserNumbers, XhsNat
<1> DEFINE r == [visit[v] EXCEPT !.at = "saved"]
<1>1. Moves(v, r)
  BY GoesMoves DEF SaveOnClose, Places, MovesTo
<1>2. RestTypeOK' /\ opened <= opened'
  BY DEF RestTypeOK, SaveOnClose, Stores, XhsFault
<1>3. CookiesKept'
  BY <1>2 DEF RestTypeOK, CookiesKept, CallHolds, XhsBrowser, AfterLogout, SaveOnClose, Stores, XhsFault
<1>4. CookiesOfOthers(v)
  BY DEF CookiesOfOthers, CookiesKept, AfterLogout, SaveOnClose
<1>5. GoodRecord(r)
  BY DEF GoodRecord, NoVisit, CookiesKept, AfterLogout, CallHolds, XhsBrowser, XhsPlace, SaveOnClose
<1>6. GoodTable(r)
  BY DEF GoodTable, NoVisit, CallSeesTable, XhsPlace, XhsBrowser, SaveOnClose
<1>7. LosesNone(v, r)
  BY <1>1 DEF LosesNone, NoVisit, CallSeesTable, CallHolds, XhsPlace, XhsBrowser, SaveOnClose, Stores, XhsFault
<1>8. ~crossed' => \A w \in Visits \ {v} : visit[w].at = "idle"
  BY NoOtherCall DEF SaveOnClose
<1> QED BY <1>1, <1>2, <1>3, <1>4, <1>5, <1>6, <1>7, <1>8 DEF GoodMove

\* A browser is started.
LEMMA LaunchGood ==
  ASSUME XhsInv, NEW v \in Visits, Launch(v)
  PROVE  \E r : GoodMove(v, r)
<1> USE XhsFacts, BrowserNumbers, XhsNat
<1> DEFINE r == [visit[v] EXCEPT !.at = "loading", !.b = opened + 1]
<1>1. Moves(v, r)
  <2>1. opened + 1 \in 0 .. MaxBrowsers /\ "loading" \in Places
    BY DEF Launch, RestTypeOK, Places
  <2>2. r \in VisitRecords
    BY <2>1 DEF VisitRecords
  <2> QED BY <2>2 DEF Launch, Moves
<1>2. RestTypeOK' /\ opened <= opened'
  <2>1. opened + 1 \in 0 .. MaxBrowsers /\ opened + 1 \in Browsers
    BY DEF Launch, RestTypeOK, Browsers
  <2> QED BY <2>1 DEF RestTypeOK, Launch
<1>3. CookiesKept'
  BY <1>2 DEF RestTypeOK, CookiesKept, CallHolds, XhsBrowser, AfterLogout, Launch
<1>4. CookiesOfOthers(v)
  BY DEF CookiesOfOthers, CookiesKept, AfterLogout, Launch
<1>5. GoodRecord(r)
  <2>1. r.b = opened + 1 /\ r.at = "loading" /\ opened + 1 \in Browsers
    BY DEF VisitRecords, Launch, RestTypeOK, Browsers
  <2> QED BY <2>1 DEF GoodRecord, CookiesKept, AfterLogout, Launch
<1>6. GoodTable(r)
  BY DEF GoodTable, NoVisit, CallSeesTable, XhsPlace, XhsBrowser, Launch
<1>7. LosesNone(v, r)
  BY <1>1 DEF LosesNone, NoVisit, CallSeesTable, CallHolds, XhsPlace, XhsBrowser, Launch
<1>8. ~crossed' => \A w \in Visits \ {v} : visit[w].at = "idle"
  BY NoOtherCall DEF Launch
<1> QED BY <1>1, <1>2, <1>3, <1>4, <1>5, <1>6, <1>7, <1>8 DEF GoodMove

\* It gets the cookies.
LEMMA LoadGood ==
  ASSUME XhsInv, NEW v \in Visits, LoadCookies(v)
  PROVE  \E r : GoodMove(v, r)
<1> USE XhsFacts, BrowserNumbers, XhsNat
<1> DEFINE r == [visit[v] EXCEPT !.at = "context"]
<1>1. Moves(v, r)
  BY GoesMoves DEF LoadCookies, Places, MovesTo
<1>9. \A b \in Browsers : jar'[b] = jar[b] \/ (b = visit[v].b /\ jar'[b] \in {0, stored})
  BY DEF LoadCookies, RestTypeOK
<1>10. (inTable # 0 => inTable \in Browsers) /\ (visit[v].b # 0 => visit[v].b \in Browsers)
  BY DEF RestTypeOK, VisitRecords, Browsers
<1>2. RestTypeOK' /\ opened <= opened'
  <2>1. jar' \in [Browsers -> 0 .. MaxScans] /\ xhsFaults' \in 0 .. MaxXhsFaults
    BY DEF LoadCookies, RestTypeOK, XhsFault
  <2> QED BY <2>1 DEF RestTypeOK, LoadCookies
<1>3. CookiesKept'
  BY <1>2, <1>9, <1>10 DEF RestTypeOK, CookiesKept, CallHolds, XhsBrowser, AfterLogout, LoadCookies
<1>4. CookiesOfOthers(v)
  BY <1>9 DEF CookiesOfOthers, CookiesKept, AfterLogout, LoadCookies
<1>5. GoodRecord(r)
  <2>1. r.at = "context" /\ r.b = visit[v].b
    BY DEF VisitRecords
  <2>2. r.b # 0 /\ r.b <= opened
    BY <2>1 DEF CallHolds, XhsBrowser, XhsPlace, LoadCookies
  <2>3. jar'[r.b] = 0 \/ jar'[r.b] > leftAt'
    BY <1>9, <1>10, <2>1, <2>2 DEF CookiesKept, AfterLogout, CallHolds, XhsBrowser, LoadCookies
  <2> QED BY <2>1, <2>2, <2>3 DEF GoodRecord, LoadCookies
<1>6. GoodTable(r)
  BY DEF GoodTable, NoVisit, CallSeesTable, XhsPlace, XhsBrowser, LoadCookies
<1>7. LosesNone(v, r)
  BY <1>1 DEF LosesNone, NoVisit, CallSeesTable, CallHolds, XhsPlace, XhsBrowser, LoadCookies
<1>8. ~crossed' => \A w \in Visits \ {v} : visit[w].at = "idle"
  BY NoOtherCall DEF LoadCookies
<1> QED BY <1>1, <1>2, <1>3, <1>4, <1>5, <1>6, <1>7, <1>8 DEF GoodMove

\* It goes into the table.
LEMMA InsertGood ==
  ASSUME XhsInv, NEW v \in Visits, Insert(v)
  PROVE  \E r : GoodMove(v, r)
<1> USE XhsFacts, BrowserNumbers, XhsNat
<1> DEFINE r == [visit[v] EXCEPT !.at = "page"]
<1>1. Moves(v, r)
  BY GoesMoves DEF Insert, Places, MovesTo
<1>2. RestTypeOK' /\ opened <= opened'
  <2>1. visit[v].b \in Browsers
    BY DEF Insert, CallHolds, XhsPlace, XhsBrowser, VisitRecords, Browsers
  <2>2. visit[v].b \in 0 .. MaxBrowsers /\ loggedIn' \subseteq Browsers
    BY <2>1 DEF Insert, VisitRecords, RestTypeOK
  <2> QED BY <2>2 DEF RestTypeOK, Insert
<1>3. CookiesKept'
  BY <1>2 DEF RestTypeOK, CookiesKept, CallHolds, XhsBrowser, AfterLogout, Insert
<1>4. CookiesOfOthers(v)
  BY DEF CookiesOfOthers, CookiesKept, AfterLogout, Insert
<1>5. GoodRecord(r)
  BY DEF GoodRecord, NoVisit, CookiesKept, AfterLogout, CallHolds, XhsBrowser, XhsPlace, Insert
<1>6. GoodTable(r)
  BY DEF GoodTable, NoVisit, CallSeesTable, XhsPlace, XhsBrowser, Insert
<1>7. LosesNone(v, r)
  BY <1>1 DEF LosesNone, NoVisit, CallSeesTable, CallHolds, XhsPlace, XhsBrowser, Insert
<1>8. ~crossed' => \A w \in Visits \ {v} : visit[w].at = "idle"
  BY NoOtherCall DEF Insert
<1> QED BY <1>1, <1>2, <1>3, <1>4, <1>5, <1>6, <1>7, <1>8 DEF GoodMove

\* A look ends.
LEMMA LookedGood ==
  ASSUME XhsInv, NEW v \in Visits, Looked(v)
  PROVE  \E r : GoodMove(v, r)
<1> USE XhsFacts, BrowserNumbers, XhsNat
<1> DEFINE r == NoVisit
<1>1. Moves(v, r)
  BY EndMoves DEF Looked
<1>2. RestTypeOK' /\ opened <= opened'
  BY DEF RestTypeOK, Looked, OnPage
<1>3. CookiesKept'
  BY <1>2 DEF RestTypeOK, CookiesKept, CallHolds, XhsBrowser, AfterLogout, Looked, OnPage
<1>4. CookiesOfOthers(v)
  BY DEF CookiesOfOthers, CookiesKept, AfterLogout, Looked, OnPage
<1>5. GoodRecord(r)
  BY DEF GoodRecord, NoVisit, CookiesKept, AfterLogout, CallHolds, XhsBrowser, XhsPlace, Looked, OnPage
<1>6. GoodTable(r)
  BY DEF GoodTable, NoVisit, CallSeesTable, XhsPlace, XhsBrowser, Looked, OnPage
<1>7. LosesNone(v, r)
  BY <1>1 DEF LosesNone, NoVisit, CallSeesTable, CallHolds, XhsPlace, XhsBrowser, Looked, OnPage
<1>8. ~crossed' => \A w \in Visits \ {v} : visit[w].at = "idle"
  BY NoOtherCall DEF Looked, OnPage
<1> QED BY <1>1, <1>2, <1>3, <1>4, <1>5, <1>6, <1>7, <1>8 DEF GoodMove

\* A search ends at the wall.
LEMMA WalledGood ==
  ASSUME XhsInv, NEW v \in Visits, Walled(v)
  PROVE  \E r : GoodMove(v, r)
<1> USE XhsFacts, BrowserNumbers, XhsNat
<1> DEFINE r == NoVisit
<1>1. Moves(v, r)
  BY EndMoves DEF Walled
<1>2. RestTypeOK' /\ opened <= opened'
  BY DEF RestTypeOK, Walled, OnPage, Stores, XhsFault
<1>3. CookiesKept'
  BY <1>2 DEF RestTypeOK, CookiesKept, CallHolds, XhsBrowser, AfterLogout, Walled, OnPage, Stores, XhsFault
<1>4. CookiesOfOthers(v)
  BY DEF CookiesOfOthers, CookiesKept, AfterLogout, Walled, OnPage
<1>5. GoodRecord(r)
  BY DEF GoodRecord, NoVisit, CookiesKept, AfterLogout, CallHolds, XhsBrowser, XhsPlace, Walled, OnPage
<1>6. GoodTable(r)
  BY DEF GoodTable, NoVisit, CallSeesTable, XhsPlace, XhsBrowser, Walled, OnPage
<1>7. LosesNone(v, r)
  BY <1>1 DEF LosesNone, NoVisit, CallSeesTable, CallHolds, XhsPlace, XhsBrowser, Walled, OnPage, Stores, XhsFault
<1>8. ~crossed' => \A w \in Visits \ {v} : visit[w].at = "idle"
  BY NoOtherCall DEF Walled, OnPage
<1> QED BY <1>1, <1>2, <1>3, <1>4, <1>5, <1>6, <1>7, <1>8 DEF GoodMove

\* A login is recognised.
LEMMA RecognisedGood ==
  ASSUME XhsInv, NEW v \in Visits, Recognised(v)
  PROVE  \E r : GoodMove(v, r)
<1> USE XhsFacts, BrowserNumbers, XhsNat
<1> DEFINE r == NoVisit
<1>1. Moves(v, r)
  BY EndMoves DEF Recognised
<1>2. RestTypeOK' /\ opened <= opened'
  BY DEF RestTypeOK, Recognised, OnPage, Stores, XhsFault
<1>3. CookiesKept'
  BY <1>2 DEF RestTypeOK, CookiesKept, CallHolds, XhsBrowser, AfterLogout, Recognised, OnPage, Stores, XhsFault
<1>4. CookiesOfOthers(v)
  BY DEF CookiesOfOthers, CookiesKept, AfterLogout, Recognised, OnPage
<1>5. GoodRecord(r)
  BY DEF GoodRecord, NoVisit, CookiesKept, AfterLogout, CallHolds, XhsBrowser, XhsPlace, Recognised, OnPage
<1>6. GoodTable(r)
  BY DEF GoodTable, NoVisit, CallSeesTable, XhsPlace, XhsBrowser, Recognised, OnPage
<1>7. LosesNone(v, r)
  BY <1>1 DEF LosesNone, NoVisit, CallSeesTable, CallHolds, XhsPlace, XhsBrowser, Recognised, OnPage, Stores, XhsFault
<1>8. ~crossed' => \A w \in Visits \ {v} : visit[w].at = "idle"
  BY NoOtherCall DEF Recognised, OnPage
<1> QED BY <1>1, <1>2, <1>3, <1>4, <1>5, <1>6, <1>7, <1>8 DEF GoodMove

\* A code is scanned.
LEMMA ScannedGood ==
  ASSUME XhsInv, NEW v \in Visits, Scanned(v)
  PROVE  \E r : GoodMove(v, r)
<1> USE XhsFacts, BrowserNumbers, XhsNat
<1> DEFINE r == NoVisit
<1>1. Moves(v, r)
  BY EndMoves DEF Scanned
<1>2. RestTypeOK' /\ opened <= opened'
  BY DEF RestTypeOK, Scanned, Stores, XhsFault
<1>3. CookiesKept'
  BY <1>2 DEF RestTypeOK, CookiesKept, CallHolds, XhsBrowser, AfterLogout, Scanned, Stores, XhsFault
<1>4. CookiesOfOthers(v)
  BY DEF CookiesOfOthers, CookiesKept, AfterLogout, Scanned
<1>5. GoodRecord(r)
  BY DEF GoodRecord, NoVisit, CookiesKept, AfterLogout, CallHolds, XhsBrowser, XhsPlace, Scanned
<1>6. GoodTable(r)
  BY DEF GoodTable, NoVisit, CallSeesTable, XhsPlace, XhsBrowser, Scanned
<1>7. LosesNone(v, r)
  BY <1>1 DEF LosesNone, NoVisit, CallSeesTable, CallHolds, XhsPlace, XhsBrowser, Scanned, Stores, XhsFault
<1>8. ~crossed' => \A w \in Visits \ {v} : visit[w].at = "idle"
  BY NoOtherCall DEF Scanned
<1> QED BY <1>1, <1>2, <1>3, <1>4, <1>5, <1>6, <1>7, <1>8 DEF GoodMove

\* A code is not scanned.
LEMMA NotScannedGood ==
  ASSUME XhsInv, NEW v \in Visits, NotScanned(v)
  PROVE  \E r : GoodMove(v, r)
<1> USE XhsFacts, BrowserNumbers, XhsNat
<1> DEFINE r == NoVisit
<1>1. Moves(v, r)
  BY EndMoves DEF NotScanned
<1>2. RestTypeOK' /\ opened <= opened'
  <2>1. visit[v].b \in Browsers
    BY DEF NotScanned, CallHolds, XhsPlace, XhsBrowser, VisitRecords, Browsers
  <2> QED BY <2>1 DEF RestTypeOK, NotScanned
<1>3. CookiesKept'
  BY <1>2 DEF RestTypeOK, CookiesKept, CallHolds, XhsBrowser, AfterLogout, NotScanned
<1>4. CookiesOfOthers(v)
  BY DEF CookiesOfOthers, CookiesKept, AfterLogout, NotScanned
<1>5. GoodRecord(r)
  BY DEF GoodRecord, NoVisit, CookiesKept, AfterLogout, CallHolds, XhsBrowser, XhsPlace, NotScanned
<1>6. GoodTable(r)
  BY DEF GoodTable, NoVisit, CallSeesTable, XhsPlace, XhsBrowser, NotScanned
<1>7. LosesNone(v, r)
  BY <1>1 DEF LosesNone, NoVisit, CallSeesTable, CallHolds, XhsPlace, XhsBrowser, NotScanned, Stores, XhsFault
<1>8. ~crossed' => \A w \in Visits \ {v} : visit[w].at = "idle"
  BY NoOtherCall DEF NotScanned
<1> QED BY <1>1, <1>2, <1>3, <1>4, <1>5, <1>6, <1>7, <1>8 DEF GoodMove

\* A logout ends.
LEMMA LoggedOutGood ==
  ASSUME XhsInv, NEW v \in Visits, LoggedOut(v)
  PROVE  \E r : GoodMove(v, r)
<1> USE XhsFacts, BrowserNumbers, XhsNat
<1> DEFINE r == NoVisit
<1>1. Moves(v, r)
  BY EndMoves DEF LoggedOut
<1>2. RestTypeOK' /\ opened <= opened'
  BY DEF RestTypeOK, LoggedOut, CookiesLeft, XhsFault
<1>3. CookiesKept'
  <2>1. CASE crossed
    BY <1>2, <2>1 DEF RestTypeOK, CookiesKept, AfterLogout, LoggedOut, CookiesLeft
  <2>2. CASE ~crossed
    <3>1. /\ inTable = 0 /\ scans' = scans
          /\ (leftAt' = scans /\ stored' = 0) \/ UNCHANGED <<leftAt, stored>>
      BY <2>2 DEF LoggedOut, CookiesLeft, CallSeesTable, XhsPlace
    <3> QED BY <1>2, <3>1 DEF RestTypeOK, CookiesKept, AfterLogout, LoggedOut
  <2> QED BY <2>1, <2>2
<1>4. CookiesOfOthers(v)
  <2>1. CASE crossed
    BY <2>1 DEF CookiesOfOthers, LoggedOut
  <2>2. CASE ~crossed
    BY <2>2, NoOtherCall DEF CookiesOfOthers, LoggedOut
  <2> QED BY <2>1, <2>2
<1>5. GoodRecord(r)
  BY DEF GoodRecord, NoVisit, CookiesKept, AfterLogout, CallHolds, XhsBrowser, XhsPlace, LoggedOut, CookiesLeft, XhsFault
<1>6. GoodTable(r)
  BY DEF GoodTable, NoVisit, CallSeesTable, XhsPlace, XhsBrowser, LoggedOut, CookiesLeft, XhsFault
<1>7. LosesNone(v, r)
  <2>1. ~XhsFault => xhsFaults' = xhsFaults
    BY DEF LoggedOut
  <2>2. xhsFaults' = xhsFaults => visit[v].b \notin browsers' \/ visit[v].b = inTable'
    BY DEF LoggedOut, XhsFault, CallSeesTable, XhsPlace, XhsBrowser
  <2> QED BY <2>2 DEF LosesNone, NoVisit, LoggedOut
<1>8. ~crossed' => \A w \in Visits \ {v} : visit[w].at = "idle"
  BY NoOtherCall DEF LoggedOut, CookiesLeft, XhsFault
<1> QED BY <1>1, <1>2, <1>3, <1>4, <1>5, <1>6, <1>7, <1>8 DEF GoodMove

\* A call fails.
LEMMA FailsGood ==
  ASSUME XhsInv, NEW v \in Visits, VisitFails(v)
  PROVE  \E r : GoodMove(v, r)
<1> USE XhsFacts, BrowserNumbers, XhsNat
<1> DEFINE r == NoVisit
<1>1. Moves(v, r)
  BY EndMoves DEF VisitFails
<1>2. RestTypeOK' /\ opened <= opened'
  BY DEF RestTypeOK, VisitFails, XhsFault
<1>3. CookiesKept'
  BY <1>2 DEF RestTypeOK, CookiesKept, CallHolds, XhsBrowser, AfterLogout, VisitFails, XhsFault
<1>4. CookiesOfOthers(v)
  BY DEF CookiesOfOthers, CookiesKept, AfterLogout, VisitFails, XhsFault
<1>5. GoodRecord(r)
  BY DEF GoodRecord, NoVisit, CookiesKept, AfterLogout, CallHolds, XhsBrowser, XhsPlace, VisitFails, XhsFault
<1>6. GoodTable(r)
  BY DEF GoodTable, NoVisit, CallSeesTable, XhsPlace, XhsBrowser, VisitFails, XhsFault
<1>7. LosesNone(v, r)
  <2>1. ~XhsFault => xhsFaults' = xhsFaults
    BY DEF VisitFails
  <2>2. xhsFaults' = xhsFaults => visit[v].b \notin browsers' \/ visit[v].b = inTable'
    BY DEF VisitFails, XhsFault, CallSeesTable, XhsPlace, XhsBrowser
  <2> QED BY <2>2 DEF LosesNone, NoVisit, VisitFails
<1>8. ~crossed' => \A w \in Visits \ {v} : visit[w].at = "idle"
  BY NoOtherCall DEF VisitFails, XhsFault
<1> QED BY <1>1, <1>2, <1>3, <1>4, <1>5, <1>6, <1>7, <1>8 DEF GoodMove

\* A publication goes on to the creator site.
LEMMA RefreshGood ==
  ASSUME XhsInv, NEW v \in Visits, PublishRefresh(v)
  PROVE  \E r : GoodMove(v, r)
<1> USE XhsFacts, BrowserNumbers, XhsNat
<1> DEFINE r == [visit[v] EXCEPT !.at = "creator"]
<1>1. Moves(v, r)
  BY GoesMoves DEF PublishRefresh, Places, MovesTo
<1>2. RestTypeOK' /\ opened <= opened'
  BY DEF RestTypeOK, PublishRefresh, OnPage, Stores, XhsFault
<1>3. CookiesKept'
  BY <1>2 DEF RestTypeOK, CookiesKept, CallHolds, XhsBrowser, AfterLogout, PublishRefresh, OnPage, Stores, XhsFault
<1>4. CookiesOfOthers(v)
  BY DEF CookiesOfOthers, CookiesKept, AfterLogout, PublishRefresh, OnPage
<1>5. GoodRecord(r)
  BY DEF GoodRecord, NoVisit, CookiesKept, AfterLogout, CallHolds, XhsBrowser, XhsPlace, PublishRefresh, OnPage
<1>6. GoodTable(r)
  BY DEF GoodTable, NoVisit, CallSeesTable, XhsPlace, XhsBrowser, PublishRefresh, OnPage
<1>7. LosesNone(v, r)
  BY <1>1 DEF LosesNone, NoVisit, CallSeesTable, CallHolds, XhsPlace, XhsBrowser, PublishRefresh, OnPage, Stores, XhsFault
<1>8. ~crossed' => \A w \in Visits \ {v} : visit[w].at = "idle"
  BY NoOtherCall DEF PublishRefresh, OnPage
<1> QED BY <1>1, <1>2, <1>3, <1>4, <1>5, <1>6, <1>7, <1>8 DEF GoodMove


LEMMA ClosedGood ==
  ASSUME XhsInv, NEW v \in Visits, Closed(v)
  PROVE  \E r : GoodMove(v, r)
<1> USE XhsFacts, BrowserNumbers, XhsNat
<1>1. PICK r : /\ Moves(v, r) /\ r.b = 0
               /\ r = NoVisit \/ r.at \in {"opening", "lookup", "launch"}
  <2>1. CASE visit[v].then = "end"
    BY <2>1, EndMoves DEF Closed, NoVisit
  <2>2. CASE visit[v].then # "end"
    <3> DEFINE r == [visit[v] EXCEPT !.at = visit[v].then, !.b = 0, !.then = "end"]
    <3>1. visit[v].then \in {"opening", "lookup", "launch"}
      BY <2>2 DEF VisitRecords
    <3>2. r \in VisitRecords /\ r.b = 0 /\ r.at = visit[v].then
      <4>1. visit[v].then \in Places /\ 0 \in 0 .. MaxBrowsers /\ visit[v] \in VisitRecords
        BY <3>1 DEF Places
      <4> QED BY <4>1 DEF VisitRecords
    <3>3. visit' = [visit EXCEPT ![v] = r]
      BY <2>2 DEF Closed
    <3> QED BY <3>1, <3>2, <3>3 DEF Moves
  <2> QED BY <2>1, <2>2
<1>2. /\ visit[v].at = "saved" /\ browsers' \subseteq browsers /\ xhsFaults' \in 0 .. MaxXhsFaults
      /\ xhsFaults' = xhsFaults => visit[v].b \notin browsers'
  BY DEF Closed, XhsFault, RestTypeOK
<1>3. UNCHANGED <<inTable, jar, loggedIn, stored, shown, opened, scans, visits, crossed, leftAt>>
  BY DEF Closed
<1>4. ~crossed => inTable = 0
  BY <1>2 DEF CallSeesTable, XhsPlace
<1>5. RestTypeOK' /\ CookiesKept' /\ CookiesOfOthers(v)
  BY <1>2, <1>3 DEF RestTypeOK, CookiesKept, AfterLogout, CookiesOfOthers
<1>6. GoodRecord(r) /\ GoodTable(r)
  BY <1>1, <1>3, <1>4 DEF GoodRecord, GoodTable, NoVisit
<1>7. LosesNone(v, r)
  BY <1>1, <1>2, <1>3 DEF LosesNone
<1>8. ~crossed' => \A w \in Visits \ {v} : visit[w].at = "idle"
  BY <1>2, <1>3, NoOtherCall
<1> QED BY <1>1, <1>3, <1>5, <1>6, <1>7, <1>8 DEF GoodMove

LEMMA GetSessionGood ==
  ASSUME XhsInv, NEW v \in Visits, GetSession(v)
  PROVE  \E r : GoodMove(v, r)
<1> USE XhsFacts, BrowserNumbers, XhsNat
<1>1. PICK r : /\ Moves(v, r)
               /\ \/ r.at = "closing" /\ r.b = inTable /\ inTable' = 0
                  \/ r.at = "page" /\ r.b = inTable /\ inTable' = inTable /\ inTable \in browsers
                  \/ r.at = "launch" /\ r.b = 0 /\ inTable' = 0 /\ inTable = 0
  <2>1. CASE CloseSession(v, "lookup") \/ CloseSession(v, "launch")
    BY <2>1, CloseMoves DEF CloseSession
  <2>2. CASE inTable \in browsers /\ visit' = [visit EXCEPT ![v].at = "page", ![v].b = inTable]
             /\ UNCHANGED inTable
    <3> DEFINE r == [visit[v] EXCEPT !.at = "page", !.b = inTable]
    <3>1. r \in VisitRecords /\ r.at = "page" /\ r.b = inTable
      BY DEF VisitRecords, Places, RestTypeOK
    <3> QED BY <2>2, <3>1 DEF Moves
  <2>3. CASE inTable = 0 /\ Goes(v, "launch") /\ UNCHANGED inTable
    <3>1. MovesTo(v, "launch") /\ visit[v].b = 0
      BY <2>3, GoesMoves DEF Places, GetSession, CallHolds, XhsPlace, XhsBrowser
    <3>2. [visit[v] EXCEPT !.at = "launch"].at = "launch" /\ [visit[v] EXCEPT !.at = "launch"].b = 0
      BY <3>1 DEF VisitRecords
    <3> QED BY <2>3, <3>1, <3>2 DEF MovesTo
  <2> QED BY <2>1, <2>2, <2>3 DEF GetSession
<1>2. /\ visit[v].at \in {"opening", "lookup"} /\ visit[v].b = 0
      /\ UNCHANGED <<browsers, jar, loggedIn, stored, shown, opened, scans, visits, xhsFaults, crossed, leftAt>>
  BY DEF GetSession, CallHolds, XhsPlace, XhsBrowser
<1>3. RestTypeOK' /\ CookiesKept' /\ CookiesOfOthers(v)
  BY <1>1, <1>2 DEF RestTypeOK, CookiesKept, AfterLogout, CookiesOfOthers
<1>4. GoodRecord(r) /\ GoodTable(r)
  BY <1>1, <1>2 DEF GoodRecord, GoodTable, CookiesKept, AfterLogout
<1>5. LosesNone(v, r)
  BY <1>1, <1>2 DEF LosesNone
<1>6. ~crossed' => \A w \in Visits \ {v} : visit[w].at = "idle"
  BY <1>2, NoOtherCall
<1> QED BY <1>1, <1>2, <1>3, <1>4, <1>5, <1>6 DEF GoodMove

LEMMA UnrecognisedGood ==
  ASSUME XhsInv, NEW v \in Visits, Unrecognised(v)
  PROVE  \E r : GoodMove(v, r)
<1> USE XhsFacts, BrowserNumbers, XhsNat
<1>1. PICK r : Moves(v, r) /\ (r = NoVisit \/ (r.at = "qr" /\ r.b = visit[v].b))
  <2>1. CASE VisitEnds(v)
    BY <2>1, EndMoves
  <2>2. CASE Goes(v, "qr")
    <3>1. Moves(v, [visit[v] EXCEPT !.at = "qr"])
      BY <2>2, GoesMoves DEF Places, MovesTo
    <3>2. [visit[v] EXCEPT !.at = "qr"].at = "qr" /\ [visit[v] EXCEPT !.at = "qr"].b = visit[v].b
      BY DEF VisitRecords
    <3> QED BY <3>1, <3>2
  <2> QED BY <2>1, <2>2 DEF Unrecognised
<1>2. /\ visit[v].at = "page" /\ visit[v].b \in browsers /\ stored' \in {0, stored}
      /\ loggedIn' \subseteq loggedIn /\ xhsFaults' \in 0 .. MaxXhsFaults
      /\ UNCHANGED <<inTable, browsers, jar, shown, opened, scans, visits, crossed, leftAt>>
  BY DEF Unrecognised, OnPage, Stores, XhsFault, RestTypeOK
<1>3. RestTypeOK' /\ CookiesKept' /\ CookiesOfOthers(v)
  BY <1>2 DEF RestTypeOK, CookiesKept, AfterLogout, CookiesOfOthers
<1>4. GoodRecord(r) /\ GoodTable(r)
  BY <1>1, <1>2 DEF GoodRecord, GoodTable, NoVisit, CallHolds, CallSeesTable, XhsPlace, XhsBrowser, AfterLogout
<1>5. LosesNone(v, r)
  BY <1>1, <1>2 DEF LosesNone, NoVisit, CallSeesTable, XhsPlace, XhsBrowser
<1>6. ~crossed' => \A w \in Visits \ {v} : visit[w].at = "idle"
  BY <1>2, NoOtherCall
<1> QED BY <1>1, <1>2, <1>3, <1>4, <1>5, <1>6 DEF GoodMove

LEMMA CreatorGood ==
  ASSUME XhsInv, NEW v \in Visits, PublishCreator(v)
  PROVE  \E r : GoodMove(v, r)
<1> USE XhsFacts, BrowserNumbers, XhsNat
<1>1. PICK r : Moves(v, r) /\ (r = NoVisit \/ (r.at = "qr" /\ r.b = visit[v].b))
  <2>1. CASE VisitEnds(v)
    BY <2>1, EndMoves
  <2>2. CASE Goes(v, "qr")
    <3>1. Moves(v, [visit[v] EXCEPT !.at = "qr"])
      BY <2>2, GoesMoves DEF Places, MovesTo
    <3>2. [visit[v] EXCEPT !.at = "qr"].at = "qr" /\ [visit[v] EXCEPT !.at = "qr"].b = visit[v].b
      BY DEF VisitRecords
    <3> QED BY <3>1, <3>2
  <2> QED BY <2>1, <2>2 DEF PublishCreator
<1>2. /\ visit[v].at = "creator" /\ visit[v].b \in browsers
      /\ jar' = jar \/ jar' = [jar EXCEPT ![visit[v].b] = 0]
      /\ UNCHANGED <<inTable, browsers, loggedIn, stored, shown, opened, scans, visits, xhsFaults, crossed, leftAt>>
  BY DEF PublishCreator
<1>3. jar' \in [Browsers -> 0 .. MaxScans] /\ \A b \in Browsers : jar'[b] = jar[b] \/ jar'[b] = 0
  BY <1>2 DEF RestTypeOK
<1>4. RestTypeOK' /\ CookiesKept' /\ CookiesOfOthers(v)
  <2>1. inTable # 0 => inTable \in Browsers
    BY DEF RestTypeOK, Browsers
  <2>2. CookiesKept'
    BY <1>2, <1>3, <2>1 DEF CookiesKept, AfterLogout
  <2> QED BY <1>2, <1>3, <2>2 DEF RestTypeOK, AfterLogout, CookiesOfOthers
<1>5. GoodRecord(r) /\ GoodTable(r)
  BY <1>1, <1>2, <1>3
     DEF GoodRecord, GoodTable, NoVisit, CallHolds, CallSeesTable, XhsPlace, XhsBrowser, AfterLogout
<1>6. LosesNone(v, r)
  BY <1>1, <1>2 DEF LosesNone, NoVisit, CallSeesTable, XhsPlace, XhsBrowser
<1>7. ~crossed' => \A w \in Visits \ {v} : visit[w].at = "idle"
  BY <1>2, NoOtherCall
<1> QED BY <1>1, <1>2, <1>4, <1>5, <1>6, <1>7 DEF GoodMove

\* The two steps of no call.
LEMMA LateScanKeeps ==
  ASSUME XhsInv, ScannedLate
  PROVE  XhsInv' /\ Stray' \subseteq Stray
<1> USE BrowserNumbers, XhsNat
<1>1. XhsTypeOK
  BY DEF XhsInv
<1>2. PICK b \in shown \cap browsers : jar' = [jar EXCEPT ![b] = scans + 1] /\ shown' = shown \ {b}
  BY DEF ScannedLate
<1>3. /\ jar' \in [Browsers -> 0 .. MaxScans] /\ scans' \in 0 .. MaxScans /\ scans' = scans + 1
      /\ \A x \in Browsers : jar'[x] = jar[x] \/ (x = b /\ jar'[x] = scans + 1)
  BY <1>1, <1>2 DEF ScannedLate, XhsTypeOK
<1>4. UNCHANGED <<inTable, browsers, loggedIn, stored, visit, opened, visits, xhsFaults, crossed, leftAt>>
  BY DEF ScannedLate
<1>5. XhsTypeOK' /\ CallsAlone'
  BY <1>1, <1>2, <1>3, <1>4 DEF XhsTypeOK, XhsInv, CallsAlone, XhsPlace
<1>6. leftAt <= scans /\ b <= opened /\ b \in Browsers
  BY <1>1, <1>2 DEF XhsInv, CookiesKept, XhsTypeOK
<1>7. CookiesKept'
  <2>1. inTable # 0 => inTable \in Browsers
    BY <1>1 DEF XhsTypeOK, Browsers
  <2>2. \A x \in Browsers : x > opened => jar'[x] = 0
    BY <1>3, <1>6 DEF XhsInv, CookiesKept
  <2>3. inTable # 0 => jar'[inTable] = 0 \/ jar'[inTable] > leftAt
    BY <1>3, <1>6, <2>1 DEF XhsInv, CookiesKept, AfterLogout
  <2> QED BY <1>3, <1>4, <1>6, <2>2, <2>3 DEF XhsInv, CookiesKept, AfterLogout
<1>8. ASSUME NEW v \in Visits PROVE CallHolds(v)' /\ CallSeesTable(v)'
  <2>1. visit[v].b \in 0 .. MaxBrowsers /\ CallHolds(v) /\ CallSeesTable(v)
    BY <1>1 DEF XhsInv, XhsTypeOK
  <2>2. visit[v].b # 0 => visit[v].b \in Browsers
    BY <2>1 DEF Browsers
  <2> QED BY <1>3, <1>4, <1>6, <2>1, <2>2
          DEF CallHolds, CallSeesTable, XhsPlace, XhsBrowser, AfterLogout
<1> QED BY <1>4, <1>5, <1>7, <1>8 DEF XhsInv, Stray

LEMMA DeathKeeps ==
  ASSUME XhsInv, BrowserDies
  PROVE  XhsInv' /\ Stray' \subseteq Stray
<1> USE BrowserNumbers, XhsNat
<1>1. XhsTypeOK /\ browsers' \subseteq browsers /\ xhsFaults' \in 0 .. MaxXhsFaults
  BY DEF XhsInv, XhsTypeOK, BrowserDies, XhsFault
<1>2. UNCHANGED <<inTable, jar, loggedIn, stored, visit, shown, opened, scans, visits, crossed, leftAt>>
  BY DEF BrowserDies
<1>3. XhsTypeOK' /\ CallsAlone' /\ CookiesKept'
  BY <1>1, <1>2 DEF XhsTypeOK, XhsInv, CallsAlone, CookiesKept, XhsPlace, AfterLogout
<1>4. \A v \in Visits : CallHolds(v)' /\ CallSeesTable(v)'
  BY <1>1, <1>2 DEF XhsInv, CallHolds, CallSeesTable, XhsPlace, XhsBrowser, AfterLogout
<1> QED BY <1>1, <1>2, <1>3, <1>4 DEF XhsInv, Stray

LEMMA XhsStep ==
  ASSUME XhsInv, [XhsNext]_xhsVars
  PROVE  XhsInv' /\ (~crossed' /\ xhsFaults' = xhsFaults => Stray' \subseteq Stray)
<1>1. CASE ScannedLate
  BY <1>1, LateScanKeeps
<1>2. CASE BrowserDies
  BY <1>2, DeathKeeps
<1>3. CASE \E v \in Visits : CallStep(v)
  <2>1. PICK v \in Visits : CallStep(v)
    BY <1>3
  <2>2. \E r : GoodMove(v, r)
    BY <2>1, LookGood, PublishGood, CloseGood, LogoutGood, CheckGood, LoginGood, SaveGood, LaunchGood,
       LoadGood, InsertGood, LookedGood, WalledGood, RecognisedGood, ScannedGood, NotScannedGood,
       LoggedOutGood, FailsGood, RefreshGood, ClosedGood, GetSessionGood, UnrecognisedGood, CreatorGood
       DEF CallStep
  <2> QED BY <2>2, GoodMoveKeeps
<1>4. CASE UNCHANGED xhsVars
  BY <1>4 DEF xhsVars, XhsInv, XhsTypeOK, CallsAlone, CookiesKept, CallHolds, CallSeesTable, XhsPlace,
     XhsBrowser, AfterLogout, Stray
<1> QED BY <1>1, <1>2, <1>3, <1>4 DEF XhsNext, CallStep

\* The inductive invariant of the visits.
THEOREM XhsInvariant == XhsSpec => []XhsInv
<1>1. XhsInit => XhsInv
  <2> SUFFICES ASSUME XhsInit PROVE XhsInv
    OBVIOUS
  <2>1. NoVisit \in VisitRecords /\ NoVisit.at = "idle" /\ NoVisit.b = 0
    BY XhsNat DEF NoVisit, VisitRecords, Ops, Places
  <2>2. \A v \in Visits : visit[v] = NoVisit
    BY DEF XhsInit
  <2>3. XhsTypeOK
    <3>1. visit \in [Visits -> VisitRecords]
      BY <2>1 DEF XhsInit
    <3>2. jar \in [Browsers -> 0 .. MaxScans]
      BY XhsNat DEF XhsInit
    <3>3. RestTypeOK
      <4>1. 0 \in 0 .. MaxBrowsers /\ 0 \in 0 .. MaxScans /\ 0 \in 0 .. MaxVisits /\ 0 \in 0 .. MaxXhsFaults
        BY XhsNat
      <4> QED BY <3>2, <4>1, Zenon DEF XhsInit, RestTypeOK
    <3> QED BY <3>1, <3>3 DEF XhsTypeOK, RestTypeOK, VisitRecords
  <2>4. CookiesKept
    BY DEF XhsInit, CookiesKept, AfterLogout, Browsers
  <2>5. CallsAlone /\ \A v \in Visits : CallHolds(v) /\ CallSeesTable(v)
    BY <2>1, <2>2 DEF XhsInit, CallsAlone, CallHolds, CallSeesTable, XhsPlace, XhsBrowser
  <2> QED BY <2>3, <2>4, <2>5 DEF XhsInv
<1>2. XhsInv /\ [XhsNext]_xhsVars => XhsInv'
  BY XhsStep
<1> QED BY <1>1, <1>2, PTL DEF XhsSpec

\* For any number of tool calls, browsers, scans and faults: after a logout whose
\* DEL went through and that no other call overlapped, neither Redis nor the
\* session of the user has the cookies of an earlier login (xhs_ops.py:3245-3276).
THEOREM LogoutsHold == XhsSpec => []LogoutHolds
<1>1. XhsInv => LogoutHolds
  BY DEF XhsInv, LogoutHolds, CookiesKept, AfterLogout
<1> QED BY <1>1, XhsInvariant, PTL

\* And no step loses an open browser, unless calls for the same user overlap or
\* an await fails (xhs_ops.py:1283-1390).
THEOREM BrowsersAreKept == XhsSpec => NoBrowserLost
<1>1. XhsInv /\ [XhsNext]_xhsVars
        => [~crossed' /\ xhsFaults' = xhsFaults => Stray' \subseteq Stray]_xhsVars
  BY XhsStep
<1> QED BY <1>1, XhsInvariant, PTL DEF XhsSpec, NoBrowserLost

-----------------------------------------------------------------------------
(* AgentLoop                                                               *)

Subs == {"subround", "sub", "subreview", "subsum", "handback"}
Mains == {"round", "ask", "review", "tools"}

\* The conjuncts of LoopTypeOK by what they speak of.
StateTypes ==
  /\ pc \in Subs \cup Mains \cup Ended
  /\ model \in {"base", "strong"} /\ first \in {"base", "strong"}
  /\ reply \in {"none", "text", "summary", "error", "short", "long"}
  /\ escalated \in BOOLEAN /\ called \in BOOLEAN /\ effect \in BOOLEAN

CountTypes ==
  /\ round \in 0..MaxRounds \cup 0..SubRounds
  /\ tries \in 0..MaxTries /\ failures \in 0..Breaker /\ force \in 0..ForceFor
  /\ empties \in 0..2 /\ left \in 0..2 /\ idle \in 0..MaxRounds

NudgeTypes == nudges \in [Kinds -> 0..(MaxDeliver + MaxGate + MaxEmpty + 1)]

MailTypes ==
  /\ inbox \subseteq Mail /\ prompt \subseteq Mail /\ seen \subseteq Mail
  /\ drained \subseteq Mail /\ handed \subseteq Mail

Rounds ==
  /\ pc \in Subs => round <= SubRounds /\ idle = 0
  /\ pc \in {"sub", "subreview"} => round < SubRounds
  /\ pc \in Mains => round <= MaxRounds /\ idle <= round
  /\ pc \in Mains \ {"round"} => round < MaxRounds

NudgesCounted ==
  pc \in Mains =>
    /\ nudges["read"] <= 1 /\ nudges["deliver"] <= MaxDeliver /\ nudges["gate"] <= MaxGate
    /\ nudges["scrub"] <= 1 /\ nudges["empty"] <= MaxEmpty
    /\ pc = "review" => nudges["gate"] < MaxGate
    /\ idle <= nudges["read"] + nudges["deliver"] + nudges["gate"] + nudges["scrub"]
               + nudges["empty"]

Mailed ==
  /\ pc \in Subs => drained = {}
  /\ drained \ handed \subseteq prompt
  /\ pc = "review" => prompt \subseteq seen

LoopInv ==
  /\ StateTypes /\ CountTypes /\ NudgeTypes /\ MailTypes
  /\ Rounds /\ NudgesCounted /\ Mailed /\ MailIsAnswered /\ WorkIsBounded

-----------------------------------------------------------------------------
LEMMA LoopTypes == LoopTypeOK <=> StateTypes /\ CountTypes /\ NudgeTypes /\ MailTypes
BY DEF LoopTypeOK, StateTypes, CountTypes, NudgeTypes, MailTypes, Subs, Mains

LEMMA LoopStarts == ASSUME LoopInit PROVE LoopInv
<1>1. StateTypes
  BY DEF LoopInit, StateTypes, Subs, Mains
<1>2. CountTypes
  BY LoopConstants DEF LoopInit, CountTypes
<1>3. NudgeTypes /\ MailTypes
  BY LoopConstants DEF LoopInit, NudgeTypes, MailTypes, NoNudges
<1>4. Rounds /\ NudgesCounted /\ WorkIsBounded
  BY LoopConstants DEF LoopInit, Rounds, NudgesCounted, WorkIsBounded, NoNudges, Kinds, Subs, Mains
<1>5. Mailed /\ MailIsAnswered
  BY DEF LoopInit, Mailed, MailIsAnswered
<1> QED BY <1>1, <1>2, <1>3, <1>4, <1>5 DEF LoopInv

\* The rounds of the sub-agent drain nothing and give back a nudge of their own.
LEMMA SubStep == ASSUME LoopInv, Sub PROVE LoopInv'
<1> USE LoopConstants DEF LoopInv, Subs, Mains, Kinds, Ended,
          Goto, NextRound, Returns, subKept, MainLoop, modelVars, mailVars
<1>1. CASE SubBegin
  <2>1. StateTypes' /\ CountTypes'
    BY <1>1 DEF SubBegin, StateTypes, CountTypes, Rounds
  <2>2. NudgeTypes' /\ MailTypes'
    BY <1>1 DEF SubBegin, NudgeTypes, MailTypes, NudgesCounted, StateTypes, NoNudges
  <2>3. Rounds' /\ NudgesCounted' /\ WorkIsBounded'
    BY <1>1 DEF SubBegin, Rounds, NudgesCounted, WorkIsBounded, CountTypes, NudgeTypes, NoNudges
  <2>4. Mailed' /\ MailIsAnswered'
    BY <1>1 DEF SubBegin, Mailed, MailIsAnswered
  <2> QED BY <2>1, <2>2, <2>3, <2>4
<1>2. CASE SubTimeout
  <2>1. StateTypes'
    BY <1>2 DEF SubTimeout, StateTypes
  <2>2. CountTypes'
    BY <1>2 DEF SubTimeout, StateTypes, CountTypes, Rounds, WorkIsBounded
  <2>3. NudgeTypes' /\ MailTypes'
    BY <1>2 DEF SubTimeout, NudgeTypes, MailTypes, NudgesCounted, StateTypes, NoNudges
  <2>4. Rounds' /\ NudgesCounted' /\ WorkIsBounded'
    BY <1>2 DEF SubTimeout, Rounds, NudgesCounted, WorkIsBounded, CountTypes, NudgeTypes, NoNudges
  <2>5. Mailed' /\ MailIsAnswered'
    BY <1>2 DEF SubTimeout, Mailed, MailIsAnswered
  <2> QED BY <2>1, <2>2, <2>3, <2>4, <2>5
<1>3. CASE SubFails
  <2>1. StateTypes' /\ CountTypes'
    BY <1>3 DEF SubFails, StateTypes, CountTypes, Rounds
  <2>2. NudgeTypes' /\ MailTypes'
    BY <1>3 DEF SubFails, NudgeTypes, MailTypes, NudgesCounted, StateTypes, NoNudges
  <2>3. Rounds' /\ NudgesCounted' /\ WorkIsBounded'
    BY <1>3 DEF SubFails, Rounds, NudgesCounted, WorkIsBounded, CountTypes, NudgeTypes, NoNudges
  <2>4. Mailed' /\ MailIsAnswered'
    BY <1>3 DEF SubFails, Mailed, MailIsAnswered
  <2> QED BY <2>1, <2>2, <2>3, <2>4
<1>4. CASE SubText
  <2>1. StateTypes' /\ CountTypes'
    BY <1>4 DEF SubText, StateTypes, CountTypes, Rounds
  <2>2. NudgeTypes' /\ MailTypes'
    BY <1>4 DEF SubText, NudgeTypes, MailTypes, NudgesCounted, StateTypes, NoNudges
  <2>3. Rounds' /\ NudgesCounted' /\ WorkIsBounded'
    BY <1>4 DEF SubText, Rounds, NudgesCounted, WorkIsBounded, CountTypes, NudgeTypes, NoNudges
  <2>4. Mailed' /\ MailIsAnswered'
    BY <1>4 DEF SubText, Mailed, MailIsAnswered
  <2> QED BY <2>1, <2>2, <2>3, <2>4
<1>5. CASE SubReview
  <2>1. StateTypes' /\ CountTypes'
    BY <1>5 DEF SubReview, StateTypes, CountTypes, Rounds
  <2>2. NudgeTypes' /\ MailTypes'
    BY <1>5 DEF SubReview, NudgeTypes, MailTypes, NudgesCounted, StateTypes, NoNudges
  <2>3. Rounds' /\ NudgesCounted' /\ WorkIsBounded'
    BY <1>5 DEF SubReview, Rounds, NudgesCounted, WorkIsBounded, CountTypes, NudgeTypes, NoNudges
  <2>4. Mailed' /\ MailIsAnswered'
    BY <1>5 DEF SubReview, Mailed, MailIsAnswered
  <2> QED BY <2>1, <2>2, <2>3, <2>4
<1>6. CASE SubStrays
  <2>1. StateTypes' /\ CountTypes'
    BY <1>6 DEF SubStrays, StateTypes, CountTypes, Rounds
  <2>2. NudgeTypes' /\ MailTypes'
    BY <1>6 DEF SubStrays, NudgeTypes, MailTypes, NudgesCounted, StateTypes, NoNudges
  <2>3. Rounds' /\ NudgesCounted' /\ WorkIsBounded'
    BY <1>6 DEF SubStrays, Rounds, NudgesCounted, WorkIsBounded, CountTypes, NudgeTypes, NoNudges
  <2>4. Mailed' /\ MailIsAnswered'
    BY <1>6 DEF SubStrays, Mailed, MailIsAnswered
  <2> QED BY <2>1, <2>2, <2>3, <2>4
<1>7. CASE SubRuns
  <2>1. StateTypes' /\ CountTypes'
    BY <1>7 DEF SubRuns, StateTypes, CountTypes, Rounds
  <2>2. NudgeTypes' /\ MailTypes'
    BY <1>7 DEF SubRuns, NudgeTypes, MailTypes, NudgesCounted, StateTypes, NoNudges
  <2>3. Rounds' /\ NudgesCounted' /\ WorkIsBounded'
    BY <1>7 DEF SubRuns, Rounds, NudgesCounted, WorkIsBounded, CountTypes, NudgeTypes, NoNudges
  <2>4. Mailed' /\ MailIsAnswered'
    BY <1>7 DEF SubRuns, Mailed, MailIsAnswered
  <2> QED BY <2>1, <2>2, <2>3, <2>4
<1>8. CASE SubSummary
  <2>1. StateTypes' /\ CountTypes'
    BY <1>8 DEF SubSummary, StateTypes, CountTypes, Rounds
  <2>2. NudgeTypes' /\ MailTypes'
    BY <1>8 DEF SubSummary, NudgeTypes, MailTypes, NudgesCounted, StateTypes, NoNudges
  <2>3. Rounds' /\ NudgesCounted' /\ WorkIsBounded'
    BY <1>8 DEF SubSummary, Rounds, NudgesCounted, WorkIsBounded, CountTypes, NudgeTypes, NoNudges
  <2>4. Mailed' /\ MailIsAnswered'
    BY <1>8 DEF SubSummary, Mailed, MailIsAnswered
  <2> QED BY <2>1, <2>2, <2>3, <2>4
<1>9. CASE HandBack
  <2>1. StateTypes' /\ CountTypes'
    BY <1>9 DEF HandBack, StateTypes, CountTypes, Rounds
  <2>2. NudgeTypes' /\ MailTypes'
    BY <1>9 DEF HandBack, NudgeTypes, MailTypes, NudgesCounted, StateTypes, NoNudges
  <2>3. Rounds' /\ NudgesCounted' /\ WorkIsBounded'
    BY <1>9 DEF HandBack, Rounds, NudgesCounted, WorkIsBounded, CountTypes, NudgeTypes, NoNudges
  <2>4. Mailed' /\ MailIsAnswered'
    BY <1>9 DEF HandBack, Mailed, MailIsAnswered
  <2> QED BY <2>1, <2>2, <2>3, <2>4
<1>10. CASE HandBackNothing
  <2>1. StateTypes' /\ CountTypes'
    BY <1>10 DEF HandBackNothing, StateTypes, CountTypes, Rounds
  <2>2. NudgeTypes' /\ MailTypes'
    BY <1>10 DEF HandBackNothing, NudgeTypes, MailTypes, NudgesCounted, StateTypes, NoNudges
  <2>3. Rounds' /\ NudgesCounted' /\ WorkIsBounded'
    BY <1>10 DEF HandBackNothing, Rounds, NudgesCounted, WorkIsBounded, CountTypes, NudgeTypes, NoNudges
  <2>4. Mailed' /\ MailIsAnswered'
    BY <1>10 DEF HandBackNothing, Mailed, MailIsAnswered
  <2> QED BY <2>1, <2>2, <2>3, <2>4
<1> QED BY <1>1, <1>2, <1>3, <1>4, <1>5, <1>6, <1>7, <1>8, <1>9, <1>10 DEF Sub

\* Asking, retrying and falling back leave mail and nudges alone.
LEMMA AskStep ==
  ASSUME LoopInv, BeginRound \/ OutOfRounds \/ Timeout \/ ServerError \/ OtherError
  PROVE  LoopInv'
<1> USE LoopConstants DEF LoopInv, Subs, Mains, Kinds, Ended,
          Goto, Returns, FallBack, Again, GivesUp, askKept, modelVars, mailVars
<1>1. CASE BeginRound
  <2>1. StateTypes' /\ CountTypes'
    BY <1>1 DEF BeginRound, StateTypes, CountTypes, Rounds
  <2>2. NudgeTypes' /\ MailTypes'
    BY <1>1 DEF BeginRound, NudgeTypes, MailTypes, NudgesCounted, StateTypes, NoNudges
  <2>3. Rounds' /\ NudgesCounted' /\ WorkIsBounded'
    BY <1>1 DEF BeginRound, Rounds, NudgesCounted, WorkIsBounded, CountTypes, NudgeTypes, NoNudges
  <2>4. Mailed' /\ MailIsAnswered'
    BY <1>1 DEF BeginRound, Mailed, MailIsAnswered
  <2> QED BY <2>1, <2>2, <2>3, <2>4
<1>2. CASE OutOfRounds
  <2>1. StateTypes' /\ CountTypes'
    BY <1>2 DEF OutOfRounds, StateTypes, CountTypes, Rounds
  <2>2. NudgeTypes' /\ MailTypes'
    BY <1>2 DEF OutOfRounds, NudgeTypes, MailTypes, NudgesCounted, StateTypes, NoNudges
  <2>3. Rounds' /\ NudgesCounted' /\ WorkIsBounded'
    BY <1>2 DEF OutOfRounds, Rounds, NudgesCounted, WorkIsBounded, CountTypes, NudgeTypes, NoNudges
  <2>4. Mailed' /\ MailIsAnswered'
    BY <1>2 DEF OutOfRounds, Mailed, MailIsAnswered
  <2> QED BY <2>1, <2>2, <2>3, <2>4
<1>3. CASE Timeout
  <2>1. StateTypes'
    BY <1>3 DEF Timeout, StateTypes
  <2>2. CountTypes'
    BY <1>3 DEF Timeout, StateTypes, CountTypes, Rounds, WorkIsBounded
  <2>3. NudgeTypes' /\ MailTypes'
    BY <1>3 DEF Timeout, NudgeTypes, MailTypes, NudgesCounted, StateTypes, NoNudges
  <2>4. Rounds' /\ NudgesCounted' /\ WorkIsBounded'
    BY <1>3 DEF Timeout, Rounds, NudgesCounted, WorkIsBounded, CountTypes, NudgeTypes, NoNudges
  <2>5. Mailed' /\ MailIsAnswered'
    BY <1>3 DEF Timeout, Mailed, MailIsAnswered
  <2> QED BY <2>1, <2>2, <2>3, <2>4, <2>5
<1>4. CASE ServerError
  <2>1. StateTypes'
    BY <1>4 DEF ServerError, StateTypes
  <2>2. CountTypes'
    BY <1>4 DEF ServerError, StateTypes, CountTypes, Rounds, WorkIsBounded
  <2>3. NudgeTypes' /\ MailTypes'
    BY <1>4 DEF ServerError, NudgeTypes, MailTypes, NudgesCounted, StateTypes, NoNudges
  <2>4. Rounds' /\ NudgesCounted' /\ WorkIsBounded'
    BY <1>4 DEF ServerError, Rounds, NudgesCounted, WorkIsBounded, CountTypes, NudgeTypes, NoNudges
  <2>5. Mailed' /\ MailIsAnswered'
    BY <1>4 DEF ServerError, Mailed, MailIsAnswered
  <2> QED BY <2>1, <2>2, <2>3, <2>4, <2>5
<1>5. CASE OtherError
  <2>1. StateTypes' /\ CountTypes'
    BY <1>5 DEF OtherError, StateTypes, CountTypes, Rounds
  <2>2. NudgeTypes' /\ MailTypes'
    BY <1>5 DEF OtherError, NudgeTypes, MailTypes, NudgesCounted, StateTypes, NoNudges
  <2>3. Rounds' /\ NudgesCounted' /\ WorkIsBounded'
    BY <1>5 DEF OtherError, Rounds, NudgesCounted, WorkIsBounded, CountTypes, NudgeTypes, NoNudges
  <2>4. Mailed' /\ MailIsAnswered'
    BY <1>5 DEF OtherError, Mailed, MailIsAnswered
  <2> QED BY <2>1, <2>2, <2>3, <2>4
<1> QED BY <1>1, <1>2, <1>3, <1>4, <1>5

\* An answer has seen the prompt; every exit nudges within its limit.
LEMMA AnswerStep ==
  ASSUME LoopInv, NoCandidates \/ Safety \/ Empty \/ TextAndMail \/ TextAlone \/ Review \/ Strays \/ Calls
  PROVE  LoopInv'
<1> USE LoopConstants DEF LoopInv, Subs, Mains, Kinds, Ended,
          Answered, Nudge, MayAskFor, Quiet, Finish, DrainInbox, Goto, NextRound, Returns, modelVars, mailVars
<1>1. CASE NoCandidates
  <2>1. StateTypes' /\ CountTypes'
    BY <1>1 DEF NoCandidates, StateTypes, CountTypes, Rounds
  <2>2. NudgeTypes' /\ MailTypes'
    BY <1>1 DEF NoCandidates, NudgeTypes, MailTypes, NudgesCounted, StateTypes, NoNudges
  <2>3. Rounds' /\ NudgesCounted' /\ WorkIsBounded'
    BY <1>1 DEF NoCandidates, Rounds, NudgesCounted, WorkIsBounded, CountTypes, NudgeTypes, NoNudges
  <2>4. Mailed' /\ MailIsAnswered'
    BY <1>1 DEF NoCandidates, Mailed, MailIsAnswered
  <2> QED BY <2>1, <2>2, <2>3, <2>4
<1>2. CASE Safety
  <2>1. StateTypes' /\ CountTypes'
    BY <1>2 DEF Safety, StateTypes, CountTypes, Rounds
  <2>2. NudgeTypes' /\ MailTypes'
    BY <1>2 DEF Safety, NudgeTypes, MailTypes, NudgesCounted, StateTypes, NoNudges
  <2>3. Rounds' /\ NudgesCounted' /\ WorkIsBounded'
    BY <1>2 DEF Safety, Rounds, NudgesCounted, WorkIsBounded, CountTypes, NudgeTypes, NoNudges
  <2>4. Mailed' /\ MailIsAnswered'
    BY <1>2 DEF Safety, Mailed, MailIsAnswered
  <2> QED BY <2>1, <2>2, <2>3, <2>4
<1>3. CASE Empty
  <2>1. StateTypes' /\ CountTypes'
    BY <1>3 DEF Empty, StateTypes, CountTypes, Rounds
  <2>2. NudgeTypes' /\ MailTypes'
    BY <1>3 DEF Empty, NudgeTypes, MailTypes, NudgesCounted, StateTypes, NoNudges
  <2>3. Rounds' /\ NudgesCounted' /\ WorkIsBounded'
    BY <1>3 DEF Empty, Rounds, NudgesCounted, WorkIsBounded, CountTypes, NudgeTypes, NoNudges
  <2>4. Mailed' /\ MailIsAnswered'
    BY <1>3 DEF Empty, Mailed, MailIsAnswered
  <2> QED BY <2>1, <2>2, <2>3, <2>4
<1>4. CASE TextAndMail
  <2>1. StateTypes' /\ CountTypes'
    BY <1>4 DEF TextAndMail, StateTypes, CountTypes, Rounds
  <2>2. NudgeTypes' /\ MailTypes'
    BY <1>4 DEF TextAndMail, NudgeTypes, MailTypes, NudgesCounted, StateTypes, NoNudges
  <2>3. Rounds' /\ NudgesCounted' /\ WorkIsBounded'
    BY <1>4 DEF TextAndMail, Rounds, NudgesCounted, WorkIsBounded, CountTypes, NudgeTypes, NoNudges
  <2>4. Mailed' /\ MailIsAnswered'
    BY <1>4 DEF TextAndMail, Mailed, MailIsAnswered
  <2> QED BY <2>1, <2>2, <2>3, <2>4
<1>5. CASE TextAlone
  <2>1. StateTypes' /\ CountTypes'
    BY <1>5 DEF TextAlone, StateTypes, CountTypes, Rounds
  <2>2. NudgeTypes' /\ MailTypes'
    BY <1>5 DEF TextAlone, NudgeTypes, MailTypes, NudgesCounted, StateTypes, NoNudges
  <2>3. Rounds' /\ NudgesCounted' /\ WorkIsBounded'
    BY <1>5 DEF TextAlone, Rounds, NudgesCounted, WorkIsBounded, CountTypes, NudgeTypes, NoNudges
  <2>4. Mailed' /\ MailIsAnswered'
    BY <1>5 DEF TextAlone, Mailed, MailIsAnswered
  <2> QED BY <2>1, <2>2, <2>3, <2>4
<1>6. CASE Review
  <2>1. StateTypes' /\ CountTypes'
    BY <1>6 DEF Review, StateTypes, CountTypes, Rounds
  <2>2. NudgeTypes' /\ MailTypes'
    BY <1>6 DEF Review, NudgeTypes, MailTypes, NudgesCounted, StateTypes, NoNudges
  <2>3. Rounds' /\ NudgesCounted' /\ WorkIsBounded'
    BY <1>6 DEF Review, Rounds, NudgesCounted, WorkIsBounded, CountTypes, NudgeTypes, NoNudges
  <2>4. Mailed' /\ MailIsAnswered'
    BY <1>6 DEF Review, Mailed, MailIsAnswered
  <2> QED BY <2>1, <2>2, <2>3, <2>4
<1>7. CASE Strays
  <2>1. StateTypes' /\ CountTypes'
    BY <1>7 DEF Strays, StateTypes, CountTypes, Rounds
  <2>2. NudgeTypes' /\ MailTypes'
    BY <1>7 DEF Strays, NudgeTypes, MailTypes, NudgesCounted, StateTypes, NoNudges
  <2>3. Rounds' /\ NudgesCounted' /\ WorkIsBounded'
    BY <1>7 DEF Strays, Rounds, NudgesCounted, WorkIsBounded, CountTypes, NudgeTypes, NoNudges
  <2>4. Mailed' /\ MailIsAnswered'
    BY <1>7 DEF Strays, Mailed, MailIsAnswered
  <2> QED BY <2>1, <2>2, <2>3, <2>4
<1>8. CASE Calls
  <2>1. StateTypes' /\ CountTypes'
    BY <1>8 DEF Calls, StateTypes, CountTypes, Rounds
  <2>2. NudgeTypes' /\ MailTypes'
    BY <1>8 DEF Calls, NudgeTypes, MailTypes, NudgesCounted, StateTypes, NoNudges
  <2>3. Rounds' /\ NudgesCounted' /\ WorkIsBounded'
    BY <1>8 DEF Calls, Rounds, NudgesCounted, WorkIsBounded, CountTypes, NudgeTypes, NoNudges
  <2>4. Mailed' /\ MailIsAnswered'
    BY <1>8 DEF Calls, Mailed, MailIsAnswered
  <2> QED BY <2>1, <2>2, <2>3, <2>4
<1> QED BY <1>1, <1>2, <1>3, <1>4, <1>5, <1>6, <1>7, <1>8

\* What the tools leave in the mailbox goes into the prompt with their results.
LEMMA ToolStep == ASSUME LoopInv, OnTheSpot \/ Run \/ RoundEnds PROVE LoopInv'
<1> USE LoopConstants DEF LoopInv, Subs, Mains, Kinds, Ended,
          DrainInbox, Goto, NextRound, modelVars, mailVars
<1>1. CASE OnTheSpot
  <2>1. StateTypes' /\ CountTypes'
    BY <1>1 DEF OnTheSpot, StateTypes, CountTypes, Rounds
  <2>2. NudgeTypes' /\ MailTypes'
    BY <1>1 DEF OnTheSpot, NudgeTypes, MailTypes, NudgesCounted, StateTypes, NoNudges
  <2>3. Rounds' /\ NudgesCounted' /\ WorkIsBounded'
    BY <1>1 DEF OnTheSpot, Rounds, NudgesCounted, WorkIsBounded, CountTypes, NudgeTypes, NoNudges
  <2>4. Mailed' /\ MailIsAnswered'
    BY <1>1 DEF OnTheSpot, Mailed, MailIsAnswered
  <2> QED BY <2>1, <2>2, <2>3, <2>4
<1>2. CASE Run
  <2>1. StateTypes' /\ CountTypes'
    BY <1>2 DEF Run, StateTypes, CountTypes, Rounds
  <2>2. NudgeTypes' /\ MailTypes'
    BY <1>2 DEF Run, NudgeTypes, MailTypes, NudgesCounted, StateTypes, NoNudges
  <2>3. Rounds' /\ NudgesCounted' /\ WorkIsBounded'
    BY <1>2 DEF Run, Rounds, NudgesCounted, WorkIsBounded, CountTypes, NudgeTypes, NoNudges
  <2>4. Mailed' /\ MailIsAnswered'
    BY <1>2 DEF Run, Mailed, MailIsAnswered
  <2> QED BY <2>1, <2>2, <2>3, <2>4
<1>3. CASE RoundEnds
  <2>1. StateTypes'
    BY <1>3 DEF RoundEnds, StateTypes
  <2>2. CountTypes'
    BY <1>3 DEF RoundEnds, CountTypes, Rounds
  <2>3. NudgeTypes' /\ MailTypes'
    BY <1>3 DEF RoundEnds, NudgeTypes, MailTypes, NudgesCounted, StateTypes, NoNudges
  <2>4. Rounds' /\ NudgesCounted' /\ WorkIsBounded'
    BY <1>3 DEF RoundEnds, Rounds, NudgesCounted, WorkIsBounded, CountTypes, NudgeTypes, NoNudges
  <2>5. Mailed' /\ MailIsAnswered'
    BY <1>3 DEF RoundEnds, Mailed, MailIsAnswered
  <2> QED BY <2>1, <2>2, <2>3, <2>4, <2>5
<1> QED BY <1>1, <1>2, <1>3

LEMMA LoopStep == ASSUME LoopInv, [LoopNext]_loopVars PROVE LoopInv'
<1> USE DEF LoopInv
<1>1. ASSUME NEW m \in Mail, MailArrives(m) PROVE LoopInv'
  <2>1. StateTypes' /\ CountTypes' /\ NudgeTypes'
    BY <1>1 DEF MailArrives, modelVars, StateTypes, CountTypes, NudgeTypes
  <2>2. MailTypes' /\ Mailed' /\ MailIsAnswered'
    BY <1>1 DEF MailArrives, MailTypes, Mailed, MailIsAnswered
  <2>3. Rounds' /\ NudgesCounted' /\ WorkIsBounded'
    BY <1>1 DEF MailArrives, modelVars, Rounds, NudgesCounted, WorkIsBounded
  <2> QED BY <2>1, <2>2, <2>3
<1>2. CASE Cancel
  <2>1. pc' = "cancelled" /\ effect' \in BOOLEAN
    BY <1>2 DEF Cancel, StateTypes
  <2>2. StateTypes' /\ CountTypes'
    BY <1>2, <2>1 DEF Cancel, modelVars, StateTypes, CountTypes, Ended
  <2>3. NudgeTypes' /\ MailTypes' /\ Mailed' /\ MailIsAnswered'
    BY <1>2, <2>1 DEF Cancel, mailVars, NudgeTypes, MailTypes, Mailed, MailIsAnswered, Subs
  <2>4. Rounds' /\ NudgesCounted' /\ WorkIsBounded'
    BY <1>2, <2>1 DEF Cancel, modelVars, Rounds, NudgesCounted, WorkIsBounded, Subs, Mains
  <2> QED BY <2>2, <2>3, <2>4
<1>3. CASE UNCHANGED loopVars
  BY <1>3 DEF loopVars, modelVars, mailVars, StateTypes, CountTypes, NudgeTypes, MailTypes,
              Rounds, NudgesCounted, Mailed, MailIsAnswered, WorkIsBounded
<1> QED BY <1>1, <1>2, <1>3, SubStep, AskStep, AnswerStep, ToolStep DEF LoopNext, Main

-----------------------------------------------------------------------------
\* The types of every variable of a call, whatever its limits
\* (gemini_provider.py:889-1460, 1761-2889).
THEOREM LoopTypeCorrect == LoopSpec => []LoopTypeOK
<1>1. LoopInv => LoopTypeOK
  BY LoopTypes DEF LoopInv
<1> QED BY <1>1, LoopStarts, LoopStep, PTL DEF LoopSpec

\* An answer of the model has seen every message drained in the main loop
\* (gemini_provider.py:2245-2290, 2815-2843).
THEOREM LoopAnswersMail == LoopSpec => []MailIsAnswered
<1>1. LoopInv => MailIsAnswered
  BY DEF LoopInv
<1> QED BY <1>1, LoopStarts, LoopStep, PTL DEF LoopSpec

\* The nudged rounds are bounded and a broken strong model is left alone
\* (gemini_provider.py:1945-1960, 2107-2400).
THEOREM LoopIsBounded == LoopSpec => []WorkIsBounded
<1>1. LoopInv => WorkIsBounded
  BY DEF LoopInv
<1> QED BY <1>1, LoopStarts, LoopStep, PTL DEF LoopSpec

\* Both of the above (gemini_provider.py:1761-2889).
THEOREM LoopIsSound == LoopSpec => []LoopSound
<1>1. LoopInv => LoopSound
  BY DEF LoopInv, LoopSound
<1> QED BY <1>1, LoopStarts, LoopStep, PTL DEF LoopSpec

-----------------------------------------------------------------------------
(* WecomKf                                                                 *)

PullRecs == [st: {"off", "sync", "page", "fetch"}, from: 0 .. Len(Kind),
             page: Seq(Feed), next: 0 .. Len(Kind), more: BOOLEAN,
             may: {"reset", "continue", "once"}]

PullTypes ==
  /\ came \in 0 .. Len(Kind) /\ up \in BOOLEAN /\ cursor \in 0 .. Len(Kind)
  /\ pull \in [Pulls -> PullRecs]
  /\ dedup \subseteq Feed /\ Cardinality(dedup) <= MaxCache
  /\ settled \subseteq Feed /\ missed \subseteq Feed /\ pruned \subseteq Feed

ChatTypes ==
  /\ batch \subseteq Feed /\ timer \in BOOLEAN /\ lockq \in Seq(SUBSET Feed)
  /\ sess \in BOOLEAN /\ mailbox \subseteq Feed /\ later \subseteq Feed
  /\ handled \subseteq Feed /\ twice \subseteq Feed

BoundTypes == calls \in 0 .. MaxCalls /\ kfCrashes \in 0 .. MaxKfCrashes

LEMMA Types == KfTypeOK <=> PullTypes /\ ChatTypes /\ BoundTypes
BY DEF KfTypeOK, PullTypes, ChatTypes, BoundTypes, PullRecs

\* What a saved cursor may leave behind it.
Safe == settled \cup Fetching \cup missed

\* The messages up to n are such, but for those of a page.
UpTo(n, page) ==
  \A i \in 1 .. n : i \in Safe \/ \E j \in DOMAIN page : page[j] = i

\* What a pull takes for granted: it started behind the feed, and left nothing
\* behind it that nobody has dealt with.
Follows(p) ==
  /\ p.from <= came /\ p.next <= came
  /\ p.st = "sync" => UpTo(p.from, <<>>)
  /\ p.st \in {"page", "fetch"} => UpTo(p.next, p.page)
  /\ p.st = "fetch" => p.page # <<>>

Behind ==
  /\ cursor <= came /\ UpTo(cursor, <<>>)
  /\ dedup \subseteq Safe
  /\ \A k \in Pulls : Follows(pull[k])

\* A message that was handed on, or that a pull is downloading, is in the dedup
\* set or was thrown out of it; only the latter can be downloaded twice.
Owns ==
  /\ handled \subseteq dedup \cup pruned
  /\ twice \subseteq pruned
  /\ \A k \in Pulls, m \in Feed : Fetches(k, m) =>
       /\ m \in dedup \cup pruned
       /\ m \in handled => m \in pruned
       /\ \A l \in Pulls \ {k} : Fetches(l, m) => m \in pruned

KfInv == KfTypeOK /\ Attended /\ Behind /\ Owns

-----------------------------------------------------------------------------
(* The operators *)

\* The records a pull goes through are of their type (wecom_kf_handler.py:364-428).
LEMMA StartedType ==
  ASSUME NEW a \in 0 .. Len(Kind), NEW may \in {"reset", "continue", "once"}
  PROVE  /\ Off \in PullRecs /\ Started(a, may) \in PullRecs
         /\ Started(a, may).st = "sync" /\ Started(a, may).from = a /\ Started(a, may).next = 0
         /\ Off.st = "off" /\ Off.from = 0 /\ Off.next = 0
<1>1. 0 \in 0 .. Len(Kind)
  <2>1. Len(Kind) \in Nat
    BY LenProperties, KfConstants
  <2> QED BY <2>1
<1>2. <<>> \in Seq(Feed)
  BY EmptySeq
<1>3. Off \in PullRecs /\ Off.st = "off" /\ Off.from = 0 /\ Off.next = 0
  BY <1>1, <1>2 DEF Off, PullRecs
<1>4. /\ Started(a, may) \in PullRecs
      /\ Started(a, may).st = "sync" /\ Started(a, may).from = a
      /\ Started(a, may).next = Off.next
  BY <1>3 DEF Started, PullRecs
<1> QED BY <1>3, <1>4

\* The answer of sync_msg: the messages after the cursor, no later than the last
\* one there is (wecom_kf.py:199-251).
LEMMA SyncedPage ==
  ASSUME NEW p \in PullRecs, came \in 0 .. Len(Kind), p.from <= came
  PROVE  /\ Synced(p) \in PullRecs /\ Synced(p).st = "page" /\ Synced(p).from = p.from
         /\ Synced(p).next <= came
         /\ \A i \in 1 .. Synced(p).next :
              i <= p.from \/ \E j \in DOMAIN Synced(p).page : Synced(p).page[j] = i
<1> DEFINE n == IF came - p.from < PageSize THEN came ELSE p.from + PageSize
           s == [i \in 1 .. n - p.from |-> p.from + i]
<1>1. n \in p.from .. came /\ p.from \in Nat /\ came \in Nat /\ Len(Kind) \in Nat
  <2>1. Len(Kind) \in Nat /\ PageSize \in Nat
    BY KfConstants
  <2>2. p.from \in 0 .. Len(Kind)
    BY DEF PullRecs
  <2> QED BY <2>1, <2>2
<1>2. s \in Seq(Feed)
  <2>1. \A i \in 1 .. n - p.from : p.from + i \in Feed
    BY <1>1 DEF Feed
  <2>2. n - p.from \in Nat
    BY <1>1
  <2> QED BY <2>1, <2>2
<1>3. Synced(p) = [p EXCEPT !.st = "page", !.page = s, !.next = n, !.more = n < came]
  BY DEF Synced
<1>4. /\ Synced(p).st = "page" /\ Synced(p).from = p.from /\ Synced(p).next = n
      /\ Synced(p).page = s
  BY <1>3 DEF PullRecs
<1>5. \A i \in 1 .. n : i <= p.from \/ \E j \in DOMAIN s : s[j] = i
  <2> SUFFICES ASSUME NEW i \in 1 .. n, ~(i <= p.from) PROVE \E j \in DOMAIN s : s[j] = i
    OBVIOUS
  <2>1. i - p.from \in 1 .. n - p.from /\ p.from + (i - p.from) = i
    BY <1>1
  <2> QED BY <2>1
<1>6. Synced(p) \in PullRecs
  <2> HIDE DEF n, s
  <2>1. n \in 0 .. Len(Kind) /\ (n < came) \in BOOLEAN
    BY <1>1
  <2> QED BY <1>2, <1>3, <2>1 DEF PullRecs
<1> HIDE DEF n, s
<1> QED BY <1>1, <1>4, <1>5, <1>6

\* A message of a page is its head or in the rest.
LEMMA HeadOrTail ==
  ASSUME NEW s \in Seq(Feed), s # <<>>, NEW i, NEW j \in DOMAIN s, s[j] = i
  PROVE  /\ Head(s) \in Feed /\ Tail(s) \in Seq(Feed)
         /\ i = Head(s) \/ \E l \in DOMAIN Tail(s) : Tail(s)[l] = i
<1>1. CASE j = 1
  BY <1>1
<1>2. CASE j # 1
  <2>1. j - 1 \in DOMAIN Tail(s) /\ Tail(s)[j - 1] = s[j]
    BY <1>2
  <2> QED BY <2>1
<1> QED BY <1>1, <1>2

\* The dedup set stays within its capacity, and what it throws out is recorded as
\* such (base.py:230-240).
LEMMA MarkFacts ==
  ASSUME PullTypes, NEW m \in Feed, m \notin dedup, Mark(m)
  PROVE  /\ dedup' \subseteq dedup \cup {m} /\ Cardinality(dedup') <= MaxCache
         /\ dedup \cup {m} \subseteq dedup' \cup pruned'
         /\ pruned \subseteq pruned' /\ pruned' \subseteq Feed
<1>1. IsFiniteSet(dedup)
  <2>1. IsFiniteSet(Feed)
    BY FS_Interval, KfConstants DEF Feed
  <2> QED BY <2>1, FS_Subset DEF PullTypes
<1>2. /\ IsFiniteSet(dedup \cup {m})
      /\ Cardinality(dedup \cup {m}) = Cardinality(dedup) + 1
      /\ Cardinality(dedup) \in Nat
  BY <1>1, FS_AddElement, FS_CardinalityType
<1>3. CASE Cardinality(dedup) < MaxCache
  <2>1. dedup' = dedup \cup {m} /\ pruned' = pruned
    BY <1>3 DEF Mark
  <2>2. Cardinality(dedup') <= MaxCache
    BY <2>1, <1>2, <1>3, KfConstants
  <2> QED BY <2>1, <2>2 DEF PullTypes
<1>4. CASE ~(Cardinality(dedup) < MaxCache)
  <2>1. PICK gone \in SUBSET (dedup \cup {m}) :
          /\ Cardinality(gone) = MaxCache \div 2
          /\ dedup' = (dedup \cup {m}) \ gone
          /\ pruned' = pruned \cup gone
    BY <1>4 DEF Mark
  <2>2. MaxCache \div 2 \in Nat /\ MaxCache \div 2 >= 1
    BY KfConstants
  <2> DEFINE full == dedup \cup {m}
  <2>3. full \cap gone = gone
    OBVIOUS
  <2>4. Cardinality(full \ gone) = Cardinality(full) - Cardinality(full \cap gone)
    <3>1. IsFiniteSet(full)
      BY <1>2
    <3> HIDE DEF full
    <3> QED BY <3>1, FS_Difference
  <2>5. Cardinality(dedup') = Cardinality(dedup) + 1 - (MaxCache \div 2)
    <3>1. dedup' = full \ gone /\ Cardinality(gone) = MaxCache \div 2
      BY <2>1
    <3>2. Cardinality(full) = Cardinality(dedup) + 1
      BY <1>2
    <3> HIDE DEF full
    <3>3. Cardinality(full \cap gone) = MaxCache \div 2
      BY <3>1, <2>3
    <3>4. Cardinality(dedup) \in Nat /\ MaxCache \div 2 \in Nat
      BY <1>2, <2>2
    <3> QED BY <3>1, <3>2, <3>3, <3>4, <2>4
  <2>6. Cardinality(dedup') <= MaxCache
    BY <1>2, <2>2, <2>5, KfConstants DEF PullTypes
  <2> QED BY <2>1, <2>6 DEF PullTypes
<1> QED BY <1>3, <1>4

\* A message is put where somebody will look for it (wecom_kf_handler.py:854-889).
LEMMA EnqueueFacts ==
  ASSUME ChatTypes, Attended, NEW m \in Feed, Enqueue(m)
  PROVE  /\ ChatTypes' /\ Attended'
         /\ handled' = handled \cup {m}
         /\ twice' = IF m \in handled THEN twice \cup {m} ELSE twice
BY DEF Enqueue, Timer, ChatTypes, Attended

-----------------------------------------------------------------------------
(* The chat's steps touch no pull, the pulls' steps enqueue or leave the chat *)

\* What is dealt with or being downloaded stays so, when a pull that downloads
\* nothing, or has just dealt with it, gets another record.
LEMMA SafeGrows ==
  ASSUME PullTypes, NEW k \in Pulls, NEW q \in PullRecs, pull' = [pull EXCEPT ![k] = q],
         settled \subseteq settled', missed \subseteq missed',
         pull[k].st # "fetch" \/ Head(pull[k].page) \in settled'
  PROVE  /\ Safe \subseteq Safe'
         /\ \A m \in Feed : q.st = "fetch" /\ Head(q.page) = m => m \in Safe'
<1>1. pull'[k] = q /\ \A l \in Pulls : l # k => pull'[l] = pull[l]
  BY DEF PullTypes
<1>2. \A m \in Feed : q.st = "fetch" /\ Head(q.page) = m => m \in Safe'
  BY <1>1 DEF Safe, Fetching, Fetches
<1>3. ASSUME NEW m \in Fetching PROVE m \in Safe'
  <2>1. PICK l \in Pulls : m \in Feed /\ Fetches(l, m)
    BY <1>3 DEF Fetching
  <2>2. CASE l = k
    BY <2>1, <2>2 DEF Fetches, Safe
  <2>3. CASE l # k
    BY <1>1, <2>1, <2>3 DEF Fetches, Fetching, Safe
  <2> QED BY <2>2, <2>3
<1> QED BY <1>2, <1>3 DEF Safe

\* A pull whose record stays as it was goes on following.
LEMMA FollowsOn ==
  ASSUME NEW p \in PullRecs, Follows(p), came \in Nat, came' \in Nat, came <= came',
         Safe \subseteq Safe'
  PROVE  Follows(p)'
<1>1. p.from \in Nat /\ p.next \in Nat
  BY LenProperties, KfConstants DEF PullRecs
<1> QED BY <1>1 DEF Follows, UpTo

\* Steps of the batch and the session (wecom_kf_handler.py:892-926, 1099-1165).
LEMMA ChatStep ==
  ASSUME KfInv, UNCHANGED pullVars, UNCHANGED <<handled, twice>>,
         UNCHANGED bounds, ChatTypes', Attended'
  PROVE  KfInv'
<1>1. KfTypeOK'
  <2>1. PullTypes' /\ BoundTypes'
    BY Types DEF KfInv, PullTypes, BoundTypes, pullVars, bounds
  <2> QED BY <2>1 DEF KfTypeOK, PullTypes, ChatTypes, BoundTypes, PullRecs
<1>2. Behind' /\ Owns'
  BY DEF KfInv, Behind, Follows, UpTo, Safe, Fetching, Owns, Fetches, pullVars
<1> QED BY <1>1, <1>2 DEF KfInv

\* Steps that replace the record of pull k and hand nothing on.
LEMMA PullStepFacts ==
  ASSUME KfInv, UNCHANGED chatVars, BoundTypes', up' \in BOOLEAN,
         UNCHANGED <<came, dedup, settled, missed, pruned>>,
         NEW k \in Pulls, NEW p \in PullRecs, pull[k].st # "fetch", p.st # "fetch", Follows(p),
         pull' = [pull EXCEPT ![k] = p],
         cursor' \in 0 .. Len(Kind), cursor' <= came, UpTo(cursor', <<>>)
  PROVE  KfInv'
<1>1. PullTypes' /\ ChatTypes' /\ BoundTypes'
  BY Types DEF KfInv, PullTypes, ChatTypes, chatVars
<1>2. KfTypeOK'
  BY <1>1 DEF KfTypeOK, PullTypes, ChatTypes, BoundTypes, PullRecs
<1>3. Attended'
  BY DEF KfInv, Attended, chatVars
<1>4. pull \in [Pulls -> PullRecs]
  BY Types DEF KfInv, PullTypes
<1>5. Behind'
  <2>1. Safe \subseteq Safe'
    BY <1>1, Types, SafeGrows DEF KfInv
  <2>2. came' = came /\ came \in Nat
    BY Types, LenProperties, KfConstants DEF KfInv, PullTypes
  <2>3. ASSUME NEW l \in Pulls PROVE Follows(pull[l])'
    <3>1. pull'[l] \in PullRecs /\ Follows(pull'[l])
      BY <1>4 DEF KfInv, Behind
    <3>2. PICK q : q = pull'[l]
      OBVIOUS
    <3>3. Follows(q)'
      BY <2>1, <2>2, <3>1, <3>2, FollowsOn
    <3> QED BY <3>2, <3>3 DEF Follows
  <2> QED BY <2>1, <2>2, <2>3 DEF KfInv, Behind, UpTo
<1>6. Owns'
  <2>1. \A l \in Pulls, m \in Feed : Fetches(l, m)' => Fetches(l, m)
    BY <1>4 DEF Fetches
  <2> QED BY <2>1 DEF KfInv, Owns, chatVars
<1> QED BY <1>2, <1>3, <1>5, <1>6 DEF KfInv

\* The rest of a page: taking its head off leaves the pull following, once the
\* head is dealt with or being downloaded (wecom_kf_handler.py:555-654).
LEMMA HeadTaken ==
  ASSUME NEW p \in PullRecs, Follows(p), p.st \in {"page", "fetch"}, p.page # <<>>,
         Head(p.page) \in Safe', Safe \subseteq Safe', came' = came,
         NEW q, q = [p EXCEPT !.st = "page", !.page = Tail(@)]
  PROVE  q \in PullRecs /\ q.st = "page" /\ Follows(q)'
<1>1. p.page \in Seq(Feed) /\ p.next \in 0 .. Len(Kind) /\ Len(Kind) \in Nat
  BY LenProperties, KfConstants DEF PullRecs
<1>2. Tail(p.page) \in Seq(Feed)
  BY <1>1
<1>3. /\ q \in PullRecs /\ q.st = "page" /\ q.from = p.from /\ q.next = p.next
      /\ q.page = Tail(p.page)
  BY <1>2 DEF PullRecs
<1>4. ASSUME NEW i \in 1 .. p.next
      PROVE  i \in Safe' \/ \E j \in DOMAIN Tail(p.page) : Tail(p.page)[j] = i
  <2>1. CASE i \in Safe
    BY <2>1
  <2>2. CASE i \notin Safe
    <3>1. PICK j \in DOMAIN p.page : p.page[j] = i
      BY <2>2, <1>4 DEF Follows, UpTo
    <3> QED BY <1>1, <3>1, HeadOrTail
  <2> QED BY <2>1, <2>2
<1> QED BY <1>3, <1>4 DEF Follows, UpTo

\* A duplicate is passed over.
LEMMA NothingNew ==
  ASSUME KfInv, NEW k \in Pulls, pull[k].st = "page",
         pull[k].page # <<>>, Head(pull[k].page) \in Safe,
         pull' = [pull EXCEPT ![k].st = "page", ![k].page = Tail(@)],
         UNCHANGED <<chatVars, came, up, cursor, dedup, settled, missed, pruned, bounds>>
  PROVE  KfInv'
<1>0. PICK p, q : p = pull[k] /\ q = [p EXCEPT !.st = "page", !.page = Tail(@)]
  OBVIOUS
<1>1. p \in PullRecs /\ Follows(p) /\ pull \in [Pulls -> PullRecs] /\ PullTypes
  BY <1>0, Types DEF KfInv, Behind, PullTypes
<1>2. pull' = [pull EXCEPT ![k] = q]
  BY <1>0, <1>1
<1>3. p.page \in Seq(Feed) /\ Tail(p.page) \in Seq(Feed)
  BY <1>0, <1>1 DEF PullRecs
<1>4. q \in PullRecs /\ q.st = "page" /\ q.from = p.from /\ q.next = p.next /\ q.page = Tail(p.page)
  BY <1>0, <1>1, <1>3 DEF PullRecs
<1>5. ASSUME NEW i \in 1 .. p.next
      PROVE  i \in Safe \/ \E j \in DOMAIN Tail(p.page) : Tail(p.page)[j] = i
  <2>1. CASE i \notin Safe
    <3>1. PICK j \in DOMAIN p.page : p.page[j] = i
      BY <2>1, <1>0, <1>1, <1>5 DEF Follows, UpTo
    <3>2. p.page # <<>> /\ Head(p.page) \in Safe
      BY <1>0
    <3>3. i = Head(p.page) \/ \E l \in DOMAIN Tail(p.page) : Tail(p.page)[l] = i
      BY <1>3, <3>1, <3>2, HeadOrTail
    <3> QED BY <2>1, <3>2, <3>3
  <2> QED BY <2>1
<1>6. Follows(q)
  BY <1>0, <1>1, <1>4, <1>5 DEF Follows, UpTo
<1>7. BoundTypes' /\ up' \in BOOLEAN /\ UNCHANGED chatVars
  BY Types DEF KfInv, BoundTypes, PullTypes, bounds, chatVars
<1>8. cursor' \in 0 .. Len(Kind) /\ cursor' <= came /\ UpTo(cursor', <<>>)
  BY Types DEF KfInv, PullTypes, Behind
<1> QED BY <1>2, <1>4, <1>6, <1>7, <1>8, PullStepFacts

-----------------------------------------------------------------------------
\* A message that is not in the dedup set is taken up: whether it is then found
\* stale, enqueued or downloaded first, nothing is handed on twice and nothing is
\* left behind (wecom_kf_handler.py:564-645).
LEMMA TakenUp ==
  ASSUME KfInv, NEW k \in Pulls, NEW q \in PullRecs, NEW m \in Feed,
         pull[k].st = "page", pull[k].page # <<>>, m = Head(pull[k].page),
         m \notin dedup, Mark(m),
         pull' = [pull EXCEPT ![k] = q], Follows(q)',
         UNCHANGED <<came, up, cursor, missed, bounds>>,
         \/ q.st = "page" /\ settled' = settled \cup {m} /\ (UNCHANGED chatVars \/ Enqueue(m))
         \/ q.st = "fetch" /\ Head(q.page) = m /\ UNCHANGED <<settled, chatVars>>
  PROVE  KfInv'
<1>1. PullTypes /\ ChatTypes /\ BoundTypes /\ Attended /\ Behind /\ Owns
  BY Types DEF KfInv
<1>2. /\ dedup' \subseteq dedup \cup {m} /\ Cardinality(dedup') <= MaxCache
      /\ dedup \cup {m} \subseteq dedup' \cup pruned'
      /\ pruned \subseteq pruned' /\ pruned' \subseteq Feed
  BY <1>1, MarkFacts
<1>3. /\ ChatTypes' /\ Attended'
      /\ \/ handled' = handled /\ twice' = twice
         \/ /\ q.st = "page" /\ handled' = handled \cup {m}
            /\ twice' = IF m \in handled THEN twice \cup {m} ELSE twice
  BY <1>1, EnqueueFacts DEF ChatTypes, Attended, chatVars
<1>4. m \in handled => m \in pruned
  BY <1>1 DEF Owns
<1>5. KfTypeOK'
  <2>1. PullTypes' /\ BoundTypes'
    BY <1>1, <1>2 DEF PullTypes, BoundTypes, bounds
  <2> QED BY <2>1, <1>3 DEF KfTypeOK, PullTypes, ChatTypes, BoundTypes, PullRecs
<1>6. Behind'
  <2>0. Safe \subseteq Safe' /\ m \in Safe'
    <3>1. settled \subseteq settled' /\ missed \subseteq missed'
      OBVIOUS
    <3>2. Safe \subseteq Safe' /\ (q.st = "fetch" /\ Head(q.page) = m => m \in Safe')
      BY <1>1, <3>1, SafeGrows
    <3> QED BY <3>2 DEF Safe
  <2>1. ASSUME NEW l \in Pulls PROVE Follows(pull[l])'
    <3>1. CASE l = k
      BY <3>1, <1>1 DEF PullTypes
    <3>2. CASE l # k
      <4>1. pull'[l] = pull[l] /\ pull[l] \in PullRecs /\ Follows(pull[l])
        BY <3>2, <1>1 DEF PullTypes, Behind
      <4>2. came \in Nat /\ came' = came
        BY <1>1, LenProperties, KfConstants DEF PullTypes
      <4>3. PICK p : p = pull[l]
        OBVIOUS
      <4>4. Follows(p)'
        BY <2>0, <4>1, <4>2, <4>3, FollowsOn
      <4> QED BY <4>1, <4>3, <4>4 DEF Follows
    <3> QED BY <3>1, <3>2
  <2>2. (cursor <= came /\ UpTo(cursor, <<>>))'
    BY <1>1, <2>0 DEF Behind, UpTo
  <2> QED BY <2>0, <2>1, <2>2, <1>1, <1>2 DEF Behind
<1>7. Owns'
  <2>1. handled' \subseteq dedup' \cup pruned' /\ twice' \subseteq pruned'
    BY <1>1, <1>2, <1>3, <1>4 DEF Owns
  <2>2. ASSUME NEW l \in Pulls, NEW n \in Feed, Fetches(l, n)'
        PROVE  Fetches(l, n) \/ (l = k /\ n = m /\ q.st = "fetch")
    BY <2>2, <1>1 DEF Fetches, PullTypes
  <2>3. ASSUME NEW l \in Pulls, NEW n \in Feed, Fetches(l, n)'
        PROVE  n \in dedup' \cup pruned' /\ (n \in handled' => n \in pruned')
    BY <2>2, <2>3, <1>1, <1>2, <1>3, <1>4 DEF Owns
  <2>4. ASSUME NEW l \in Pulls, NEW n \in Feed, Fetches(l, n)',
               NEW h \in Pulls \ {l}, Fetches(h, n)'
        PROVE  n \in pruned'
    <3>1. CASE n = m /\ (l = k \/ h = k)
      <4>1. Fetches(l, m) \/ Fetches(h, m)
        BY <2>2, <2>4, <3>1
      <4> QED BY <4>1, <3>1, <1>1, <1>2 DEF Owns
    <3>2. CASE ~(n = m /\ (l = k \/ h = k))
      BY <2>2, <2>4, <3>2, <1>1, <1>2 DEF Owns
    <3> QED BY <3>1, <3>2
  <2> QED BY <2>1, <2>3, <2>4 DEF Owns
<1> QED BY <1>3, <1>5, <1>6, <1>7 DEF KfInv

-----------------------------------------------------------------------------
LEMMA KfStarts == ASSUME KfInit PROVE KfInv
<1>1. Len(Kind) \in Nat /\ Off \in PullRecs /\ Off.st = "off" /\ Off.from = 0 /\ Off.next = 0
  BY LenProperties, StartedType, KfConstants
<1>2. Cardinality({}) = 0 /\ <<>> \in Seq(SUBSET Feed)
  BY FS_EmptySet, EmptySeq
<1>3. KfTypeOK
  <2>1. PullTypes
    BY <1>1, <1>2, KfConstants DEF KfInit, PullTypes
  <2>2. ChatTypes /\ BoundTypes
    <3>1. BoundTypes
      BY KfConstants DEF KfInit, BoundTypes
    <3>2. timer \in BOOLEAN /\ sess \in BOOLEAN
      BY DEF KfInit
    <3>3. lockq \in Seq(SUBSET Feed)
      BY EmptySeq DEF KfInit
    <3> QED BY <3>1, <3>2, <3>3 DEF KfInit, ChatTypes
  <2> QED BY <2>1, <2>2, Types
<1>4. Attended /\ Behind /\ Owns
  BY <1>1 DEF KfInit, Attended, Behind, Follows, UpTo, Safe, Owns, Fetches
<1> QED BY <1>3, <1>4 DEF KfInv

LEMMA DispatchStep ==
  ASSUME KfInv, NEW k \in Pulls, Dispatch(k)
  PROVE  KfInv'
<1>0. PICK p, m, over : p = pull[k] /\ m = Head(p.page) /\ over = [p EXCEPT !.page = Tail(@)]
  OBVIOUS
<1>1. /\ p.st = "page" /\ p.page # <<>> /\ UNCHANGED <<came, up, cursor, missed, bounds>>
      /\ p \in PullRecs /\ pull \in [Pulls -> PullRecs] /\ Follows(p) /\ dedup \subseteq Safe
      /\ PullTypes /\ settled \subseteq settled \cup {m} /\ missed \subseteq missed
  BY <1>0, Types DEF Dispatch, KfInv, PullTypes, Behind
<1>2. p.page \in Seq(Feed) /\ m \in Feed
  BY <1>0, <1>1, HeadTailProperties DEF PullRecs
<1>3. over = [p EXCEPT !.st = "page", !.page = Tail(@)]
  BY <1>0, <1>1 DEF PullRecs
<1>4. CASE m \in dedup /\ pull' = [pull EXCEPT ![k].page = Tail(@)]
           /\ UNCHANGED <<dedup, pruned, settled, chatVars>>
  <2>1. pull' = [pull EXCEPT ![k].st = "page", ![k].page = Tail(@)]
    BY <1>0, <1>1, <1>3, <1>4
  <2> QED BY <2>1, <1>0, <1>1, <1>4, NothingNew
<1>5. CASE /\ m \notin dedup /\ Mark(m) /\ settled' = settled \cup {m}
           /\ pull' = [pull EXCEPT ![k].page = Tail(@)]
           /\ UNCHANGED chatVars \/ Enqueue(m)
  <2>1. pull' = [pull EXCEPT ![k] = over]
    BY <1>0, <1>1, <1>5
  <2>0. Safe \subseteq Safe' /\ m \in Safe'
    <3>1. over \in PullRecs /\ pull[k].st # "fetch"
      <4>1. Tail(p.page) \in Seq(Feed)
        BY <1>1, <1>2
      <4> QED BY <1>0, <1>1, <4>1 DEF PullRecs
    <3>2. settled \subseteq settled' /\ missed \subseteq missed' /\ m \in settled'
      BY <1>1, <1>5
    <3>3. Safe \subseteq Safe'
      BY <1>1, <2>1, <3>1, <3>2, SafeGrows
    <3> QED BY <3>2, <3>3 DEF Safe
  <2>2. over \in PullRecs /\ over.st = "page" /\ Follows(over)'
    BY <1>0, <1>1, <1>3, <1>5, <2>0, HeadTaken
  <2> QED BY <2>1, <2>2, <1>0, <1>1, <1>2, <1>5, TakenUp
<1>6. CASE /\ m \notin dedup /\ Mark(m)
           /\ pull' = [pull EXCEPT ![k].st = "fetch"] /\ UNCHANGED <<settled, chatVars>>
  <2>1. PICK q : q = [p EXCEPT !.st = "fetch"]
    OBVIOUS
  <2>2. pull' = [pull EXCEPT ![k] = q]
    BY <1>0, <1>1, <1>6, <2>1
  <2>3. q \in PullRecs /\ q.st = "fetch" /\ q.page = p.page /\ q.from = p.from /\ q.next = p.next
    BY <1>1, <2>1 DEF PullRecs
  <2>5. Safe \subseteq Safe'
    <3>1. settled \subseteq settled' /\ missed \subseteq missed' /\ pull[k].st # "fetch"
      BY <1>0, <1>1, <1>6
    <3> QED BY <1>1, <2>2, <2>3, <3>1, SafeGrows
  <2>4. Follows(q)'
    BY <1>0, <1>1, <1>6, <2>3, <2>5 DEF Follows, UpTo
  <2> QED BY <2>2, <2>3, <2>4, <1>0, <1>1, <1>2, <1>6, TakenUp
<1> QED BY <1>0, <1>4, <1>5, <1>6 DEF Dispatch

LEMMA FetchedStep ==
  ASSUME KfInv, NEW k \in Pulls, Fetched(k)
  PROVE  KfInv'
<1>0. PICK p, m, q : p = pull[k] /\ m = Head(p.page) /\ q = [p EXCEPT !.st = "page", !.page = Tail(@)]
  OBVIOUS
<1>1. /\ p.st = "fetch" /\ pull' = [pull EXCEPT ![k].st = "page", ![k].page = Tail(@)]
      /\ UNCHANGED <<came, up, cursor, dedup, missed, pruned, bounds>>
      /\ settled' = settled \cup {m}
      /\ Enqueue(m) \/ UNCHANGED chatVars
  BY <1>0 DEF Fetched
<1>2. /\ PullTypes /\ ChatTypes /\ BoundTypes /\ Attended /\ Behind /\ Owns
      /\ p \in PullRecs /\ pull \in [Pulls -> PullRecs] /\ Follows(p)
  BY <1>0, Types DEF KfInv, PullTypes, Behind
<1>3. p.page # <<>> /\ p.page \in Seq(Feed) /\ m \in Feed
  BY <1>0, <1>1, <1>2, HeadTailProperties DEF Follows, PullRecs
<1>4. q \in PullRecs /\ q.st = "page" /\ pull' = [pull EXCEPT ![k] = q]
  <2>1. Tail(p.page) \in Seq(Feed)
    BY <1>3
  <2>2. q \in PullRecs /\ q.st = "page"
    BY <1>0, <1>2, <2>1 DEF PullRecs
  <2> QED BY <1>0, <1>1, <1>2, <2>2
<1>5. Safe \subseteq Safe' /\ m \in Safe'
  <2>1. settled \subseteq settled' /\ missed \subseteq missed' /\ m \in settled'
    BY <1>1
  <2>2. Safe \subseteq Safe'
    BY <1>0, <1>2, <1>4, <2>1, SafeGrows
  <2> QED BY <2>1, <2>2 DEF Safe
<1>6. Follows(q)'
  BY <1>0, <1>1, <1>2, <1>3, <1>5, HeadTaken
<1>7. /\ ChatTypes' /\ Attended'
      /\ \/ handled' = handled /\ twice' = twice
         \/ /\ handled' = handled \cup {m}
            /\ twice' = IF m \in handled THEN twice \cup {m} ELSE twice
  BY <1>1, <1>2, <1>3, EnqueueFacts DEF ChatTypes, Attended, chatVars
<1>8. KfTypeOK'
  <2>1. PullTypes' /\ BoundTypes'
    BY <1>1, <1>2, <1>3, <1>4 DEF PullTypes, BoundTypes, bounds
  <2> QED BY <2>1, <1>7 DEF KfTypeOK, PullTypes, ChatTypes, BoundTypes, PullRecs
<1>9. Behind'
  <2>1. ASSUME NEW l \in Pulls PROVE Follows(pull[l])'
    <3>1. CASE l = k
      BY <3>1, <1>2, <1>4, <1>6
    <3>2. CASE l # k
      <4>1. pull'[l] = pull[l] /\ Follows(pull[l])
        BY <3>2, <1>2, <1>4 DEF Behind
      <4> QED BY <4>1, <1>1, <1>5 DEF Follows, UpTo
    <3> QED BY <3>1, <3>2
  <2> QED BY <2>1, <1>1, <1>2, <1>5 DEF Behind, UpTo
<1>10. Owns'
  <2>1. Fetches(k, m) /\ m \in dedup \cup pruned /\ (m \in handled => m \in pruned)
    BY <1>0, <1>1, <1>2, <1>3 DEF Fetches, Owns
  <2>2. ASSUME NEW l \in Pulls, NEW n \in Feed, Fetches(l, n)'
        PROVE  l # k /\ Fetches(l, n)
    BY <2>2, <1>2, <1>4 DEF Fetches
  <2>3. ASSUME NEW l \in Pulls, Fetches(l, m)' PROVE m \in pruned
    BY <2>1, <2>2, <2>3, <1>2, <1>3 DEF Owns
  <2> QED BY <2>1, <2>2, <2>3, <1>1, <1>2, <1>7 DEF Owns
<1> QED BY <1>7, <1>8, <1>9, <1>10 DEF KfInv

LEMMA PageDoneStep ==
  ASSUME KfInv, NEW k \in Pulls, PageDone(k)
  PROVE  KfInv'
<1>0. PICK p, q : /\ p = pull[k]
                  /\ q = IF p.more /\ p.next # 0 /\ p.may # "once" THEN Started(p.next, p.may) ELSE Off
  OBVIOUS
<1>1. /\ p.st = "page" /\ p.page = <<>> /\ pull' = [pull EXCEPT ![k] = q]
      /\ cursor' \in {cursor, p.next}
      /\ UNCHANGED <<came, up, dedup, settled, missed, pruned, chatVars, bounds>>
  BY <1>0 DEF PageDone
<1>2. /\ PullTypes /\ BoundTypes /\ Behind /\ p \in PullRecs /\ Follows(p)
  BY <1>0, Types DEF KfInv, PullTypes, Behind
<1>3. UpTo(p.next, <<>>) /\ p.next <= came
  BY <1>1, <1>2 DEF Follows, UpTo
<1>4. cursor' \in 0 .. Len(Kind) /\ cursor' <= came /\ UpTo(cursor', <<>>)
  BY <1>1, <1>2, <1>3 DEF PullTypes, Behind, PullRecs, UpTo
<1>5. p.next \in 0 .. Len(Kind) /\ p.may \in {"reset", "continue", "once"} /\ came \in Nat
  BY <1>2, LenProperties, KfConstants DEF PullRecs, PullTypes
<1>6. q \in PullRecs /\ q.st # "fetch" /\ Follows(q)
  <2>1. CASE q = Off
    BY <2>1, <1>5, StartedType DEF Follows
  <2>2. CASE q = Started(p.next, p.may)
    BY <2>2, <1>3, <1>5, StartedType DEF Follows
  <2> QED BY <1>0, <2>1, <2>2
<1>7. BoundTypes' /\ up' \in BOOLEAN
  BY <1>1, <1>2 DEF BoundTypes, PullTypes, bounds
<1> QED BY <1>0, <1>1, <1>4, <1>6, <1>7, PullStepFacts

-----------------------------------------------------------------------------
LEMMA KfStep == ASSUME KfInv, [KfNext]_kfVars PROVE KfInv'
<1>0. /\ PullTypes /\ ChatTypes /\ BoundTypes /\ Attended /\ Behind /\ Owns
      /\ Len(Kind) \in Nat /\ came \in Nat /\ pull \in [Pulls -> PullRecs]
      /\ Safe \subseteq Safe
  BY Types, LenProperties, KfConstants DEF KfInv, PullTypes
<1>a. ASSUME NEW a \in {0, cursor}
      PROVE  a \in 0 .. Len(Kind) /\ a <= came /\ UpTo(a, <<>>)
  BY <1>0 DEF PullTypes, Behind, UpTo
<1>b. ASSUME NEW a \in {0, cursor}, NEW may \in {"reset", "continue", "once"}
      PROVE  Started(a, may) \in PullRecs /\ Started(a, may).st = "sync" /\ Follows(Started(a, may))
  BY <1>0, <1>a, StartedType DEF Follows
<1>c. Off \in PullRecs /\ Off.st = "off" /\ Follows(Off)
  BY <1>0, StartedType DEF Follows
<1>1. CASE Arrive
  <2>1. came' = came + 1 /\ came' \in 0 .. Len(Kind)
    BY <1>0, <1>1 DEF Arrive
  <2>2. KfTypeOK'
    BY <1>0, <1>1, <2>1 DEF Arrive, KfTypeOK, PullTypes, ChatTypes, BoundTypes, PullRecs, chatVars, bounds
  <2>6. Safe' = Safe
    BY <1>1 DEF Arrive, Safe, Fetching, Fetches
  <2>3. ASSUME NEW l \in Pulls PROVE Follows(pull[l])'
    <3>1. pull'[l] = pull[l] /\ pull[l] \in PullRecs /\ Follows(pull[l])
      BY <1>0, <1>1 DEF Arrive, Behind
    <3> QED BY <3>1, <1>0, <2>1, <2>6 DEF Follows, UpTo, PullRecs
  <2>4. Behind'
    BY <1>0, <1>1, <2>1, <2>3, <2>6 DEF Arrive, Behind, UpTo, PullTypes
  <2>5. Owns' /\ Attended'
    BY <1>0, <1>1 DEF Arrive, Owns, Fetches, Attended, chatVars
  <2> QED BY <2>2, <2>4, <2>5 DEF KfInv
<1>2. CASE Callback
  <2>1. PICK k \in Pulls, a \in {0, cursor} :
          pull[k].st = "off" /\ pull' = [pull EXCEPT ![k] = Started(a, "reset")]
    BY <1>2 DEF Callback
  <2>2. BoundTypes' /\ up' \in BOOLEAN /\ UNCHANGED <<came, cursor, dedup, settled, missed, pruned, chatVars>>
    BY <1>0, <1>2, KfConstants DEF Callback, BoundTypes, PullTypes
  <2>3. cursor' \in 0 .. Len(Kind) /\ cursor' <= came /\ UpTo(cursor', <<>>)
    BY <1>a, <2>2
  <2> QED BY <2>1, <2>2, <2>3, <1>b, PullStepFacts
<1>3. CASE KfCrash
  <2>1. ChatTypes' /\ Attended'
    BY <1>3, EmptySeq DEF KfCrash, ChatTypes, Attended
  <2>2. pull' = [l \in Pulls |-> Off]
    BY <1>3 DEF KfCrash
  <2>3. KfTypeOK'
    <3>1. Cardinality({}) <= MaxCache
      BY FS_EmptySet, KfConstants
    <3>2. PullTypes'
      BY <1>0, <1>3, <1>c, <2>2, <3>1 DEF KfCrash, PullTypes, Fetching
    <3>3. BoundTypes'
      BY <1>0, <1>3, KfConstants DEF KfCrash, BoundTypes
    <3> QED BY <3>2, <3>3, <2>1 DEF KfTypeOK, PullTypes, ChatTypes, BoundTypes, PullRecs
  <2>4. Behind'
    <3>1. came' = came /\ cursor' = cursor /\ settled' = settled /\ dedup' = {}
          /\ missed' = missed \cup (Fetching \cap 1 .. cursor)
      BY <1>3 DEF KfCrash
    <3>2. ASSUME NEW l \in Pulls PROVE Follows(pull[l])'
      BY <3>1, <2>2, <1>c DEF Follows
    <3>3. \A i \in 1 .. cursor : i \in Safe => i \in Safe'
      BY <3>1 DEF Safe
    <3> QED BY <3>1, <3>2, <3>3, <1>0 DEF Behind, UpTo
  <2>5. Owns'
    BY <1>3, <2>2, <1>c DEF KfCrash, Owns, Fetches
  <2> QED BY <2>1, <2>3, <2>4, <2>5 DEF KfInv
<1>4. CASE KfRestart
  <2>1. BoundTypes' /\ up' \in BOOLEAN /\ UNCHANGED <<came, cursor, dedup, settled, missed, pruned, chatVars>>
    BY <1>0, <1>4 DEF KfRestart, BoundTypes, bounds
  <2>2. cursor' \in 0 .. Len(Kind) /\ cursor' <= came /\ UpTo(cursor', <<>>)
    BY <1>a, <2>1
  <2>3. CASE \E k \in Pulls :
               pull[k].st = "off" /\ pull' = [pull EXCEPT ![k] = Started(cursor, "once")]
    BY <2>1, <2>2, <2>3, <1>b, PullStepFacts
  <2>4. CASE UNCHANGED pull
    <3>1. KfTypeOK'
      BY <1>0, <2>1, <2>4 DEF KfTypeOK, PullTypes, ChatTypes, BoundTypes, PullRecs, chatVars
    <3>2. Behind' /\ Owns' /\ Attended'
      BY <1>0, <2>1, <2>4 DEF Behind, Follows, UpTo, Safe, Fetching, Owns, Fetches, Attended, chatVars
    <3> QED BY <3>1, <3>2 DEF KfInv
  <2> QED BY <1>4, <2>3, <2>4 DEF KfRestart
<1>5. CASE Flush
  <2>0. lockq' \in Seq(SUBSET Feed)
    BY <1>0, <1>5, AppendProperties DEF Flush, ChatTypes
  <2>1. ChatTypes' /\ Attended'
    BY <1>0, <1>5, <2>0 DEF Flush, ChatTypes, Attended
  <2> QED BY <1>5, <2>1, ChatStep DEF Flush
<1>6. CASE Activate
  <2>1. Head(lockq) \subseteq Feed /\ Tail(lockq) \in Seq(SUBSET Feed)
    BY <1>0, <1>6, HeadTailProperties DEF Activate, ChatTypes
  <2>2. later' \subseteq Feed
    BY <1>0, <1>6, <2>1 DEF Activate, ChatTypes
  <2>3. ChatTypes' /\ Attended'
    BY <1>0, <1>6, <2>1, <2>2 DEF Activate, ChatTypes, Attended
  <2> QED BY <1>6, <2>3, ChatStep DEF Activate
<1>7. CASE InjectRemaining
  <2>1. ChatTypes' /\ Attended'
    BY <1>0, <1>7 DEF InjectRemaining, ChatTypes, Attended
  <2> QED BY <1>7, <2>1, ChatStep DEF InjectRemaining
<1>8. CASE Drain
  <2>1. ChatTypes' /\ Attended'
    BY <1>0, <1>8 DEF Drain, ChatTypes, Attended
  <2> QED BY <1>8, <2>1, ChatStep DEF Drain
<1>9. CASE EndSession
  <2>1. ChatTypes' /\ Attended'
    BY <1>0, <1>9 DEF EndSession, ChatTypes, Attended
  <2> QED BY <1>9, <2>1, ChatStep DEF EndSession
<1>10. ASSUME NEW k \in Pulls, Sync(k) PROVE KfInv'
  <2>0. PICK p, q : p = pull[k] /\ q = Synced(p)
    OBVIOUS
  <2>1. /\ p \in PullRecs /\ p.st = "sync" /\ Follows(p) /\ pull' = [pull EXCEPT ![k] = q]
        /\ UNCHANGED <<came, up, cursor, dedup, settled, missed, pruned, chatVars, bounds>>
    BY <1>0, <1>10, <2>0 DEF Sync, Behind
  <2>2. q \in PullRecs /\ q.st = "page" /\ Follows(q)
    <3>1. came \in 0 .. Len(Kind) /\ p.from <= came /\ UpTo(p.from, <<>>) /\ p.from \in Nat
      BY <1>0, <2>1 DEF PullTypes, Follows, PullRecs
    <3>2. /\ q \in PullRecs /\ q.st = "page" /\ q.from = p.from /\ q.next <= came
          /\ \A i \in 1 .. q.next : i <= p.from \/ \E j \in DOMAIN q.page : q.page[j] = i
      BY <2>0, <2>1, <3>1, SyncedPage
    <3>3. UpTo(q.next, q.page)
      BY <3>1, <3>2 DEF UpTo, PullRecs
    <3> QED BY <3>1, <3>2, <3>3 DEF Follows
  <2>3. BoundTypes' /\ up' \in BOOLEAN
    BY <1>0, <2>1 DEF BoundTypes, PullTypes, bounds
  <2>4. cursor' \in 0 .. Len(Kind) /\ cursor' <= came /\ UpTo(cursor', <<>>)
    BY <1>a, <2>1
  <2> QED BY <2>0, <2>1, <2>2, <2>3, <2>4, PullStepFacts
<1>11. ASSUME NEW k \in Pulls, SyncFails(k) PROVE KfInv'
  <2>1. UNCHANGED <<came, up, cursor, dedup, settled, missed, pruned, chatVars, bounds>>
    BY <1>11 DEF SyncFails
  <2>2. PICK q : pull' = [pull EXCEPT ![k] = q] /\ q \in {Started(0, "continue"), Off}
    BY <1>11 DEF SyncFails
  <2>3. q \in PullRecs /\ q.st # "fetch" /\ Follows(q)
    BY <2>2, <1>b, <1>c
  <2>4. BoundTypes' /\ up' \in BOOLEAN
    BY <1>0, <2>1 DEF BoundTypes, PullTypes, bounds
  <2>5. cursor' \in 0 .. Len(Kind) /\ cursor' <= came /\ UpTo(cursor', <<>>)
    BY <1>a, <2>1
  <2>6. pull[k].st # "fetch"
    BY <1>11 DEF SyncFails
  <2> QED BY <2>1, <2>2, <2>3, <2>4, <2>5, <2>6, PullStepFacts
<1>12. ASSUME NEW k \in Pulls, Dispatch(k) \/ Fetched(k) \/ PageDone(k) PROVE KfInv'
  BY <1>12, DispatchStep, FetchedStep, PageDoneStep
<1>13. CASE UNCHANGED kfVars
  <2>1. UNCHANGED pullVars /\ UNCHANGED chatVars /\ UNCHANGED bounds
    BY <1>13 DEF kfVars
  <2>2. ChatTypes' /\ Attended'
    <3>1. /\ batch' = batch /\ timer' = timer /\ lockq' = lockq /\ sess' = sess
          /\ mailbox' = mailbox /\ later' = later /\ handled' = handled /\ twice' = twice
      BY <2>1 DEF chatVars
    <3> QED BY <3>1, <1>0 DEF ChatTypes, Attended
  <2> QED BY <2>1, <2>2, ChatStep DEF chatVars
<1> QED BY <1>1, <1>2, <1>3, <1>4, <1>5, <1>6, <1>7, <1>8, <1>9, <1>10, <1>11, <1>12, <1>13
        DEF KfNext, PullStep

-----------------------------------------------------------------------------
\* The invariant holds for any feed, page size, capacity of the dedup set and
\* number of pulls, callbacks and deaths (wecom_kf_handler.py:364-428).
THEOREM KfInvariant == KfSpec => []KfInv
<1>1. KfInit => KfInv
  BY KfStarts
<1>2. KfInv /\ [KfNext]_kfVars => KfInv'
  BY KfStep
<1> QED BY <1>1, <1>2, PTL DEF KfSpec

\* A message is handed on twice in one life only after the dedup set has thrown
\* its id away (wecom_kf_handler.py:566-569, base.py:230-240).
THEOREM KfHandledOnce == KfSpec => []HandledOnce
<1>1. KfInv => HandledOnce
  BY DEF KfInv, Owns, HandledOnce
<1> QED BY <1>1, KfInvariant, PTL

\* For any number of pulls, deaths and restarts, what the saved cursor has behind it
\* was dealt with, is being downloaded, or was being downloaded by another pull when
\* the process died (wecom_kf_handler.py:366-428).
THEOREM KfCursorBehind == KfSpec => []CursorBehind
<1>1. KfInv => CursorBehind
  BY Types DEF KfInv, PullTypes, Behind, UpTo, Safe, CursorBehind
<1> QED BY <1>1, KfInvariant, PTL

\* A batch always has a timer and a mailbox a session
\* (wecom_kf_handler.py:862-892, 1158-1165).
THEOREM KfAttended == KfSpec => []Attended
<1>1. KfInv => Attended
  BY DEF KfInv
<1> QED BY <1>1, KfInvariant, PTL

\* No message of the feed is passed over by the cursor that a restart starts from,
\* but for one whose download the death cut off, nor is one stuck on its way to the
\* agent (wecom_kf_handler.py:366-428, 862-892).
THEOREM KfNothingSkipped == KfSpec => []NothingSkipped
<1>1. CursorBehind /\ Attended => NothingSkipped
  BY DEF NothingSkipped
<1> QED BY <1>1, KfCursorBehind, KfAttended, PTL
=============================================================================
