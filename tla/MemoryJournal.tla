---------------------------- MODULE MemoryJournal ----------------------------
(***************************************************************************)
(* The long-term memory of one tenant: the journal, a list in Redis that   *)
(* every diary and note is pushed to (app/services/memory_store.py), its   *)
(* index, and compression, a task that a diary starts when the journal is  *)
(* long: it reads the whole journal, waits for a language model and writes *)
(* the journal anew (app/services/memory.py).                              *)
(*                                                                         *)
(* The other job that reads the journal, the dream of an idle day, never   *)
(* writes it: with a signal in the journal its prompt raises KeyError      *)
(* (app/services/dream.py:293), and without one there is nothing to write. *)
(***************************************************************************)
EXTENDS Naturals, Sequences, FiniteSets

CONSTANTS Compressors, \* compression tasks that may be under way at once
          MaxEntries,  \* bound: diaries and notes
          Threshold,   \* _COMPRESS_THRESHOLD
          KeepRecent,  \* _KEEP_RECENT
          BatchSize,   \* _COMPRESS_BATCH
          Ceiling, TrimTo,  \* the hard limit of append_journal, and what it leaves
          IndexMax,    \* _INDEX_MAX
          MaxMemoryFaults, \* bound: Redis commands that fail or are applied twice
          MaxMemoryCrashes \* bound: deaths of the process

ASSUME MemoryConstants ==
  /\ {MaxEntries, Threshold, KeepRecent, BatchSize, Ceiling, TrimTo, IndexMax,
      MaxMemoryFaults, MaxMemoryCrashes} \subseteq Nat
  /\ KeepRecent \in 1 .. Threshold - 1 /\ TrimTo \in 1 .. Ceiling /\ BatchSize > 0 /\ IndexMax > 0
  \* 500, 500 and 1500 in the code (memory.py:84, :1647, memory_store.py:131)
  /\ IndexMax <= KeepRecent /\ IndexMax <= TrimTo

VARIABLES
  journal,  \* the list in Redis: lines, see Lines
  lines,    \* journal_index: the entry each line of it is about
  noted,    \* entries written so far; each is named by its number
  task,     \* [at, done, left, recent]: where a compression is, what it has
            \* compressed, what it has yet to, what it keeps;
            \* history: since, the entries written after it has read the journal
  memoryFaults, memoryCrashes,
  overwritten, \* history: those written while a compression waited that then wrote
  blurred,  \* history: those whose summary has been compressed again
  cut       \* history: those beyond the ceiling, or in a write that failed

memoryVars == <<journal, lines, noted, task, memoryFaults, memoryCrashes, overwritten, blurred, cut>>

Entries == 1 .. MaxEntries

\* a line of the journal: the entries it tells of, and whether it is a summary of them
Lines == [of: SUBSET Entries, summary: BOOLEAN]
Raw(n) == [of |-> {n}, summary |-> FALSE]
Told(j) == UNION {j[i].of : i \in DOMAIN j}

NoTask == [at |-> "idle", done |-> <<>>, left |-> <<>>, recent |-> <<>>, since |-> {}]

MemoryTypeOK ==
  /\ journal \in Seq(Lines) /\ lines \in Seq(Entries) /\ Len(lines) <= IndexMax
  /\ noted \in 0 .. MaxEntries
  /\ task \in [Compressors -> [at: {"idle", "created", "llm"}, done: Seq(Lines), left: Seq(Lines),
                               recent: Seq(Lines), since: SUBSET Entries]]
  /\ memoryFaults \in 0 .. MaxMemoryFaults /\ memoryCrashes \in 0 .. MaxMemoryCrashes
  /\ \A h \in {overwritten, blurred, cut} : h \subseteq Entries

MemoryInit ==
  /\ journal = <<>> /\ lines = <<>> /\ noted = 0
  /\ task = [t \in Compressors |-> NoTask]
  /\ memoryFaults = 0 /\ memoryCrashes = 0
  /\ overwritten = {} /\ blurred = {} /\ cut = {}

Latest(s, n) == IF Len(s) <= n THEN s ELSE SubSeq(s, Len(s) - n + 1, Len(s))
MemoryFault == memoryFaults < MaxMemoryFaults /\ memoryFaults' = memoryFaults + 1

-----------------------------------------------------------------------------
(* append_journal and _append_index                                        *)

\* the ceiling, by the length that append_journal has been told
Trimmed(j, length) == IF length > Ceiling THEN Latest(j, TrimTo) ELSE j

\* _append_index: the line is written whether or not the entry was
WithLine(read, n) == Latest(Append(read, n), IndexMax)

\* One call of remember; append_journal returns length.  Or a command fails: the
\* push is lost, or applied twice because the answer was lost and the request sent
\* again; the length stays unknown, and is 0; the trim fails; the index cannot be
\* read, and counts as empty, or cannot be written.
Remember(n, length) ==
  /\ \/ /\ length = Len(journal) + 1
        /\ journal' = Trimmed(Append(journal, Raw(n)), length) /\ lines' = WithLine(lines, n)
        /\ UNCHANGED memoryFaults
     \/ \E pushed \in {<<>>, <<Raw(n)>>, <<Raw(n), Raw(n)>>} :
          LET grown == journal \o pushed IN
          /\ length \in {0, Len(grown)}
          /\ journal' \in {grown, Trimmed(grown, length)}
          /\ lines' \in {lines, WithLine(lines, n), WithLine(<<>>, n)}
          /\ MemoryFault
  /\ noted' = n
  /\ cut' = cut \cup ((Told(journal) \cup {n}) \ Told(journal'))

\* the compressions, and what is written while they wait
Unread(n) == [t \in Compressors |-> IF task[t].at = "llm" THEN [task[t] EXCEPT !.since = @ \cup {n}]
                                                          ELSE task[t]]

\* note_tool_action, remember_numeric_facts, save_memory
Note ==
  /\ noted < MaxEntries
  /\ \E length \in 0 .. Len(journal) + 2 : Remember(noted + 1, length)
  /\ task' = Unread(noted + 1)
  /\ UNCHANGED <<memoryCrashes, overwritten, blurred>>

\* write_diary after the model has answered: the entry, and a compression if the
\* journal is long
Diary ==
  /\ noted < MaxEntries
  /\ \E length \in 0 .. Len(journal) + 2 :
       /\ Remember(noted + 1, length)
       /\ IF length < Threshold THEN task' = Unread(noted + 1)
          ELSE \E t \in Compressors :
                 task[t].at = "idle" /\ task' = [Unread(noted + 1) EXCEPT ![t].at = "created"]
  /\ UNCHANGED <<memoryCrashes, overwritten, blurred>>

-----------------------------------------------------------------------------
(* compress_old_entries                                                    *)

\* Mutant of SplitAt: one too far, and the line at the border is in neither part.
SplitTooEarly(j) == Len(j) - KeepRecent - 1
SplitAt(j) == Len(j) - KeepRecent

\* a journal that is short, or that cannot be read, ends the task
CompressRead(t) ==
  /\ task[t].at = "created"
  /\ \/ /\ Len(journal) >= Threshold
        /\ task' = [task EXCEPT ![t] =
             [at |-> "llm", done |-> <<>>, left |-> SubSeq(journal, 1, SplitAt(journal)),
              recent |-> Latest(journal, KeepRecent), since |-> {}]]
        /\ UNCHANGED memoryFaults
     \/ /\ task' = [task EXCEPT ![t] = NoTask]
        /\ IF Len(journal) < Threshold THEN UNCHANGED memoryFaults ELSE MemoryFault
  /\ UNCHANGED <<journal, lines, noted, memoryCrashes, overwritten, blurred, cut>>

\* What the model is shown of a batch: the action or the details of a line.  A
\* summary has neither, so nothing is left of it.
Shown(batch) == UNION {batch[i].of : i \in {k \in DOMAIN batch : ~batch[k].summary}}
Summary(batch) == <<[of |-> Shown(batch), summary |-> TRUE]>>

\* one batch: what the model makes of it, or the batch itself if it fails
CompressBatch(t) ==
  LET batch == SubSeq(task[t].left, 1, IF Len(task[t].left) < BatchSize
                                       THEN Len(task[t].left) ELSE BatchSize) IN
  /\ task[t].at = "llm" /\ task[t].left # <<>>
  /\ \E made \in {batch, Summary(batch)} :
       /\ task' = [task EXCEPT ![t].done = @ \o made,
                               ![t].left = SubSeq(@, Len(batch) + 1, Len(@))]
       /\ blurred' = IF made = batch THEN blurred ELSE blurred \cup (Told(batch) \ Shown(batch))
  /\ UNCHANGED <<journal, lines, noted, memoryFaults, memoryCrashes, overwritten, cut>>

\* rewrite_journal, DEL and RPUSH in one pipeline: it is not carried out, or the old
\* list is gone although the new one has not been written
CompressWrite(t) ==
  /\ task[t].at = "llm" /\ task[t].left = <<>>
  /\ \/ /\ journal' = task[t].done \o task[t].recent
        /\ overwritten' = overwritten \cup task[t].since
        /\ UNCHANGED <<memoryFaults, cut>>
     \/ /\ journal' \in {journal, <<>>} /\ MemoryFault
        /\ cut' = cut \cup (Told(journal) \ Told(journal'))
        /\ UNCHANGED overwritten
  /\ task' = [task EXCEPT ![t] = NoTask]
  /\ UNCHANGED <<lines, noted, memoryCrashes, blurred>>

-----------------------------------------------------------------------------
\* a death: the tasks are gone, Redis has the rest
MemoryCrash ==
  /\ memoryCrashes < MaxMemoryCrashes /\ memoryCrashes' = memoryCrashes + 1
  /\ task' = [t \in Compressors |-> NoTask]
  /\ UNCHANGED <<journal, lines, noted, memoryFaults, overwritten, blurred, cut>>

MemoryNext ==
  \/ Note \/ Diary \/ MemoryCrash
  \/ \E t \in Compressors : CompressRead(t) \/ CompressBatch(t) \/ CompressWrite(t)

MemorySpec == MemoryInit /\ [][MemoryNext]_memoryVars

-----------------------------------------------------------------------------
(* Properties                                                              *)

\* However compressions overlap with one another and with the writers, the journal
\* still tells of every entry, save for those written while a compression waited
\* that wrote its copy over them, those whose summary was compressed a second time,
\* and those a failed write or the ceiling took (memory.py:1667-1752).  A death
\* between the reading and the writing takes none.
NothingForgotten == 1 .. noted \subseteq Told(journal) \cup overwritten \cup blurred \cup cut

\* The index, which no compression writes, and the journal, which compressions bring
\* back to an older state, agree on what is new: a search of the index misses no
\* entry of the latest lines of the journal, fewer than the index holds by the
\* number of those that were overwritten (memory.py:87-105, :1743-1745).
IndexCovers ==
  memoryFaults = 0 =>
    \A i \in DOMAIN journal :
      Len(journal) - i + Cardinality(overwritten) < IndexMax /\ ~journal[i].summary =>
        journal[i].of \subseteq {lines[k] : k \in DOMAIN lines}

\* The memory of a tenant is whole: what was noted is told and found.
MemorySound == NothingForgotten /\ IndexCovers
=============================================================================
