---------------------------- MODULE TaskWatchdog ----------------------------
(***************************************************************************)
(* The watchdog of unfinished tasks (app/services/task_watchdog.py): an    *)
(* answer without the promised files leaves a record in Redis for five     *)
(* minutes; the loop of every container over that Redis scans them, retries *)
(* each once and deletes its record.  A record is read in the scan and     *)
(* looked at when its turn comes, which may be minutes later.              *)
(***************************************************************************)
EXTENDS Naturals, Sequences, FiniteSets

CONSTANTS Tasks,      \* keys of records
          Loops,      \* the containers
          MaxWatchdogFaults,  \* bound: commands of the retry that Redis fails
          MaxWatchdogCrashes  \* bound: deaths of a container

ASSUME WatchdogConstants ==
  IsFiniteSet(Tasks) /\ MaxWatchdogFaults \in Nat /\ MaxWatchdogCrashes \in Nat

VARIABLES
  record,   \* retries in the record; Gone: there is none, New: not yet made
  age,      \* whether the record is past the cooldown of 30 s
  list,     \* what a loop's scan has read and not dealt with: <<task, retries>>
  retrying, \* the task a loop is retrying
  watchdogFaults, watchdogCrashes,
  begun,    \* history: tasks with a retry begun and counted
  late,     \* history: <<loop, task>>: read in a scan after a retry had begun
  repeated  \* history: tasks retried by a loop that had read them so

watchdogVars == <<record, age, list, retrying, watchdogFaults, watchdogCrashes, begun, late, repeated>>

MaxRetries == 1
Gone == 99
New == 98
NoRetry == "none"

WatchdogTypeOK ==
  /\ record \in [Tasks -> 0 .. MaxRetries \cup {New, Gone}]
  /\ age \subseteq Tasks
  /\ list \in [Loops -> Seq(Tasks \X (0 .. MaxRetries))]
  /\ retrying \in [Loops -> Tasks \cup {NoRetry}]
  /\ watchdogFaults \in 0 .. MaxWatchdogFaults /\ watchdogCrashes \in 0 .. MaxWatchdogCrashes
  /\ begun \subseteq Tasks /\ late \subseteq Loops \X Tasks /\ repeated \subseteq Tasks

WatchdogInit ==
  /\ record = [k \in Tasks |-> New] /\ age = {}
  /\ list = [c \in Loops |-> <<>>] /\ retrying = [c \in Loops |-> NoRetry]
  /\ watchdogFaults = 0 /\ watchdogCrashes = 0 /\ begun = {} /\ late = {} /\ repeated = {}

Stored(k) == record[k] \notin {New, Gone}

\* record_incomplete_task, by a user's call or by the call of a retry, whose
\* record starts with no retries
Record(k) ==
  /\ record[k] = New
  /\ record' = [record EXCEPT ![k] = 0]
  /\ UNCHANGED <<age, list, retrying, watchdogFaults, watchdogCrashes, begun, late, repeated>>

Cool(k) ==
  /\ k \notin age /\ Stored(k) /\ age' = age \cup {k}
  /\ UNCHANGED <<record, list, retrying, watchdogFaults, watchdogCrashes, begun, late, repeated>>

\* 300 s after the last write
RecordExpires(k) ==
  /\ Stored(k) /\ record' = [record EXCEPT ![k] = Gone]
  /\ UNCHANGED <<age, list, retrying, watchdogFaults, watchdogCrashes, begun, late, repeated>>

\* SCAN returns the keys in any order; the record of each is read
Scan(c) ==
  LET keys == {k \in Tasks : Stored(k)} IN
  /\ list[c] = <<>> /\ retrying[c] = NoRetry /\ keys # {}
  /\ \E order \in [1 .. Cardinality(keys) -> keys] :
       /\ \A k \in keys : \E i \in DOMAIN order : order[i] = k
       /\ list' = [list EXCEPT ![c] = [i \in DOMAIN order |-> <<order[i], record[order[i]]>>]]
  /\ late' = {x \in late : x[1] # c} \cup ({c} \X (keys \cap begun))
  /\ UNCHANGED <<record, age, retrying, watchdogFaults, watchdogCrashes, begun, repeated>>

Rest(c) == list' = [list EXCEPT ![c] = Tail(@)]

\* younger than the cooldown
Skip(c) ==
  /\ list[c] # <<>> /\ retrying[c] = NoRetry
  /\ Head(list[c])[1] \notin age
  /\ Rest(c)
  /\ UNCHANGED <<record, age, retrying, watchdogFaults, watchdogCrashes, begun, late, repeated>>

Exhausted(c) ==
  /\ list[c] # <<>> /\ retrying[c] = NoRetry
  /\ Head(list[c])[1] \in age /\ Head(list[c])[2] >= MaxRetries
  /\ record' = [record EXCEPT ![Head(list[c])[1]] = Gone]
  /\ Rest(c)
  /\ UNCHANGED <<age, retrying, watchdogFaults, watchdogCrashes, begun, late, repeated>>

\* Mutant of Counted: the retry is counted when it is over.
CountedLate(k, n) == UNCHANGED record

\* SET with the retry that begins, whether or not the record is still there
Counted(k, n) == record' = [record EXCEPT ![k] = n]

WatchdogFault == watchdogFaults < MaxWatchdogFaults /\ watchdogFaults' = watchdogFaults + 1

\* the loop goes on whatever became of the SET
Retry(c) ==
  LET k == Head(list[c])[1]
      n == Head(list[c])[2]
  IN
  /\ list[c] # <<>> /\ retrying[c] = NoRetry
  /\ k \in age /\ n < MaxRetries
  /\ \/ Counted(k, n + 1) /\ begun' = begun \cup {k} /\ UNCHANGED watchdogFaults
     \/ WatchdogFault /\ UNCHANGED <<record, begun>>
  /\ retrying' = [retrying EXCEPT ![c] = k]
  /\ repeated' = IF <<c, k>> \in late THEN repeated \cup {k} ELSE repeated
  /\ Rest(c)
  /\ UNCHANGED <<age, watchdogCrashes, late>>

\* it answered, failed or timed out after 120 s
RetryEnds(c) ==
  /\ retrying[c] # NoRetry
  /\ \/ record' = [record EXCEPT ![retrying[c]] = Gone] /\ UNCHANGED watchdogFaults
     \/ WatchdogFault /\ UNCHANGED record
  /\ retrying' = [retrying EXCEPT ![c] = NoRetry]
  /\ UNCHANGED <<age, list, watchdogCrashes, begun, late, repeated>>

\* and restart
WatchdogCrash(c) ==
  /\ watchdogCrashes < MaxWatchdogCrashes /\ watchdogCrashes' = watchdogCrashes + 1
  /\ list' = [list EXCEPT ![c] = <<>>]
  /\ retrying' = [retrying EXCEPT ![c] = NoRetry]
  /\ UNCHANGED <<record, age, watchdogFaults, begun, late, repeated>>

WatchdogNext ==
  \/ \E k \in Tasks : Record(k) \/ Cool(k) \/ RecordExpires(k)
  \/ \E c \in Loops : Scan(c) \/ Skip(c) \/ Exhausted(c) \/ Retry(c) \/ RetryEnds(c) \/ WatchdogCrash(c)

WatchdogSpec == WatchdogInit /\ [][WatchdogNext]_watchdogVars

-----------------------------------------------------------------------------
(* Properties                                                              *)

\* A task is retried once: a loop that reads its record after some loop has
\* counted a retry - while it runs, after its end, after a failed deletion of the
\* record or the death of the container - does not retry it.  Loops that had all
\* read it before do, and so does any after a count that Redis failed
\* (task_watchdog.py:216-237).
RetriedOnce == repeated = {}
=============================================================================
