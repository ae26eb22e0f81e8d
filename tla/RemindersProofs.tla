-------------------------- MODULE RemindersProofs ---------------------------
(***************************************************************************)
(* Proofs about Reminders: for any number of reminders and of users, any   *)
(* periods, and any number of deaths and of failed commands, a confirmed   *)
(* reminder stays where the loop finds it (ChainKept), no occurrence is    *)
(* executed twice (AtMostOnce), a cancelled reminder is gone (CancelHolds) *)
(* and the sleeping loop wakes in time (LateUnderASleep).                  *)
(*                                                                         *)
(* A property of the members alone is not kept by a step: what a command   *)
(* does depends on the commands that are still to come.  So the invariant  *)
(* has two parts.  Base holds at every step: beside the properties, a      *)
(* reminder has one member, or one and the next that the pass has saved    *)
(* already (Chained), no later occurrence is held than the earliest that   *)
(* is left, and every execution so far was of an earlier one (Fresh).      *)
(* Where says at which command of which tool, or of the pass, the process  *)
(* is, and what that command may rely on.                                  *)
(***************************************************************************)
EXTENDS Reminders, SequenceTheorems, WellFoundedInduction, TLAPS

-----------------------------------------------------------------------------
(* The inductive invariant                                                 *)

\* r was never edited while a pass held it, and no command about it has failed.
Clean(r) == r \notin raced \cup hurt

Known(m) == m \in Members /\ m.id \notin unset

\* every execution of the reminder that began was of an occurrence before m
RanBefore(m) == \A o \in ran : o[1] = m.id => o[2] < m.at

NotHeld(r) == \A m \in todo : m.id # r

\* the sleeping loop wakes before m, which it knows or which came later, has
\* waited for the longest sleep
InTime(m) ==
  loop = "sleep" => Occurrence(m) \in unseen \/ wake <= clock \/ wake - m.at < MaxSleep

Link(m, n) == m.rec /\ m.at <= clock /\ n = Successor(m)

(* What holds at every step                                                *)

Drawn ==
  /\ \A m \in zset \cup todo : m.id \notin unset
  /\ \A o \in ran : o[1] \notin unset
  /\ unset \cap (promised \cup cancelled) = {}

Come ==
  /\ \A m \in todo : m.at <= clock
  /\ \A o \in ran : o[2] <= clock
  /\ todo # {} => loop \in {"next", "exec"}

Faultless == mishaps = 0 => hurt = {}

HeldIsKept == \A m \in todo : Clean(m.id) => m \in zset /\ UserOf(m) \in index

\* what a pass that died left half-way will be due again
DoubledIsIndexed ==
  \A m, n \in zset : Clean(m.id) /\ m.id = n.id /\ m.at < n.at => UserOf(m) \in index

\* a reminder has one member, or a member and the next one, already saved
Chained ==
  \A m, n \in zset : m.id = n.id /\ Clean(m.id) => m = n \/ Link(m, n) \/ Link(n, m)

Fresh == \A m \in zset : Clean(m.id) => RanBefore(m)

WakesInTime == \A m \in zset : InTime(m)

Base ==
  /\ RemindersTypeOK /\ Drawn /\ Come /\ Faultless /\ HeldIsKept /\ DoubledIsIndexed
  /\ Chained /\ Fresh /\ WakesInTime
  /\ ChainKept /\ AtMostOnce /\ CancelHolds

(* What holds between two commands: where the running code is              *)

\* a reminder has two members only while the pass holds the earlier one, unless
\* that is in x, or before the first pass
Ordered(x) ==
  loop \in {"boot", "down"} \/
    \A m, n \in zset : Clean(m.id) /\ m.id = n.id /\ m.at < n.at => m \in todo \cup x

\* but for the members in x, whoever has a member is in the index
Indexed(x) == mishaps = 0 => \A m \in zset \ x : UserOf(m) \in index

Plain == Ordered({}) /\ Indexed({})

NoneLeft(u) == \A r \in Rem : Owner[r] = u => r \in hurt \/ Of(r) = {}

Awake == loop \in {"sleep", "exec"}

\* a tool is about to save n
Saves(n) ==
  /\ Awake /\ Known(n) /\ n.id \notin promised /\ InTime(n)
  /\ Clean(n.id) => Of(n.id) = {} /\ NotHeld(n.id) /\ n.id \notin cancelled /\ RanBefore(n)

\* a tool is about to remove m, and to save n instead
Removes(m) ==
  /\ Awake /\ m \in zset /\ m.id \notin promised
  /\ Clean(m.id) => Of(m.id) = {m} /\ NotHeld(m.id)

Replaces(m, n) ==
  /\ Removes(m) /\ Known(n) /\ n.id = m.id /\ InTime(n)
  /\ Clean(n.id) => RanBefore(n)

Removed(m) ==
  /\ Awake /\ Known(m) /\ m.id \notin promised
  /\ Clean(m.id) => Of(m.id) = {} /\ NotHeld(m.id)

\* the pass fires m, which is still there, or no longer
Fires(m) ==
  /\ loop = "next" /\ Known(m) /\ m.at <= clock /\ m \notin todo
  /\ Clean(m.id) => RanBefore(m)

Firing(m) ==
  /\ Fires(m) /\ Ordered({m})
  /\ Clean(m.id) => /\ m \in zset /\ UserOf(m) \in index
                    /\ \A o \in Of(m.id) : m.at <= o.at

Later(m) == Clean(m.id) => \A o \in Of(m.id) : m.at < o.at

Fired(m) == Fires(m) /\ Later(m) /\ Plain

Idle == cmds = <<>> /\ Plain

SetAdds(n) == cmds = <<Cmd("zadd", n, "set")>> /\ Saves(n) /\ Plain
SetIndexes(n) ==
  /\ cmds = <<Cmd("sadd", n, "none"), Cmd("told", n, "set")>>
  /\ Awake /\ n \in zset /\ Ordered({}) /\ Indexed({n})
SetTells(n) ==
  /\ cmds = <<Cmd("told", n, "set")>>
  /\ Awake /\ Known(n) /\ Plain
  /\ n.id \in hurt \/ (n \in zset /\ UserOf(n) \in index)

CancelRemoves(m) == cmds = <<Cmd("zrem", m, "cancelled")>> /\ Removes(m) /\ Plain
CancelCounts(m) ==
  cmds = <<Cmd("zcard", m, "none"), Cmd("told", m, "cancelled")>> /\ Removed(m) /\ Plain
CancelUnindexes(m) ==
  /\ cmds = <<Cmd("srem", m, "none"), Cmd("told", m, "cancelled")>>
  /\ Removed(m) /\ NoneLeft(UserOf(m)) /\ Plain
CancelTells(m) == cmds = <<Cmd("told", m, "cancelled")>> /\ Removed(m) /\ Plain

UpdateRemoves(m, n) ==
  cmds = <<Cmd("zrem", m, "none"), Cmd("zadd", n, "set")>> /\ Replaces(m, n) /\ Plain
UpdateCounts(m, n) ==
  cmds = <<Cmd("zcard", m, "none"), Cmd("zadd", n, "set")>> /\ Saves(n) /\ Plain
UpdateUnindexes(m, n) ==
  /\ cmds = <<Cmd("srem", m, "none"), Cmd("zadd", n, "set")>>
  /\ Saves(n) /\ NoneLeft(UserOf(m)) /\ Plain

FireAdds(m) ==
  /\ cmds = <<Cmd("zadd", Successor(m), "none"), Cmd("zrem", m, "none"), Cmd("exec", m, "none")>>
  /\ Firing(m) /\ m.rec /\ Indexed({})
FireIndexes(m) ==
  /\ cmds = <<Cmd("sadd", Successor(m), "none"), Cmd("zrem", m, "none"), Cmd("exec", m, "none")>>
  /\ Firing(m) /\ m.rec /\ Successor(m) \in zset /\ Indexed({Successor(m)})
FireRemoves(m) ==
  /\ cmds = <<Cmd("zrem", m, "none"), Cmd("exec", m, "none")>>
  /\ Firing(m) /\ Indexed({})
  /\ IF m.rec THEN m.id \in hurt \/ (Successor(m) \in zset /\ UserOf(m) \in index)
              ELSE m.id \notin promised
FireCounts(m) == cmds = <<Cmd("zcard", m, "none"), Cmd("exec", m, "none")>> /\ Fired(m)
FireUnindexes(m) ==
  cmds = <<Cmd("srem", m, "none"), Cmd("exec", m, "none")>> /\ Fired(m) /\ NoneLeft(UserOf(m))
FireStarts(m) == cmds = <<Cmd("exec", m, "none")>> /\ Fired(m)

Where ==
  \/ Idle
  \/ \E n \in Members : SetAdds(n) \/ SetIndexes(n) \/ SetTells(n)
  \/ \E m \in Members :
       CancelRemoves(m) \/ CancelCounts(m) \/ CancelUnindexes(m) \/ CancelTells(m)
  \/ \E m, n \in Members : UpdateRemoves(m, n) \/ UpdateCounts(m, n) \/ UpdateUnindexes(m, n)
  \/ \E m \in Members :
       \/ FireAdds(m) \/ FireIndexes(m) \/ FireRemoves(m)
       \/ FireCounts(m) \/ FireUnindexes(m) \/ FireStarts(m)

RemindersInv == Base /\ Where

-----------------------------------------------------------------------------
(* Short sequences                                                         *)

\* Two sequences put together, element by element.
LEMMA Concatenated ==
  ASSUME NEW S, NEW s \in Seq(S), NEW t \in Seq(S), NEW r \in Seq(S),
         Len(r) = Len(s) + Len(t),
         \A i \in 1 .. Len(s) : r[i] = s[i],
         \A i \in 1 .. Len(t) : r[Len(s) + i] = t[i]
  PROVE  s \o t = r
<1>1. /\ s \o t \in Seq(S) /\ Len(s \o t) = Len(s) + Len(t)
      /\ \A i \in 1 .. (Len(s) + Len(t)) :
           (s \o t)[i] = IF i <= Len(s) THEN s[i] ELSE t[i - Len(s)]
  BY ConcatProperties
<1> DEFINE z == s \o t
<1> HIDE DEF z
<1>2. ASSUME NEW i \in 1 .. Len(z) PROVE z[i] = r[i]
  <2>1. Len(s) \in Nat /\ Len(t) \in Nat /\ i \in 1 .. (Len(s) + Len(t))
    BY <1>1, <1>2 DEF z
  <2>2. CASE i <= Len(s)
    BY <2>1, <2>2, <1>1 DEF z
  <2>3. CASE ~(i <= Len(s))
    <3>1. i - Len(s) \in 1 .. Len(t) /\ Len(s) + (i - Len(s)) = i
      BY <2>1, <2>3
    <3>2. r[i] = t[i - Len(s)]
      BY <3>1
    <3> QED BY <2>1, <2>3, <3>2, <1>1 DEF z
  <2> QED BY <2>2, <2>3
<1>3. z \in Seq(S) /\ Len(z) = Len(r)
  BY <1>1 DEF z
<1>4. z = r
  BY <1>2, <1>3, SeqEqual
<1> QED BY <1>4 DEF z

\* The commands that the model puts together are never more than three.
LEMMA Tuples ==
  ASSUME NEW S, NEW a \in S, NEW b \in S, NEW c \in S
  PROVE  /\ <<>> \o <<>> = <<>> /\ <<a>> \o <<>> = <<a>> /\ <<a, b>> \o <<>> = <<a, b>>
         /\ <<>> \o <<a>> = <<a>> /\ <<>> \o <<a, b>> = <<a, b>>
         /\ <<a>> \o <<b>> = <<a, b>>
         /\ <<a, b>> \o <<c>> = <<a, b, c>>
         /\ <<a>> \o <<b, c>> = <<a, b, c>>
<1>1. /\ <<>> \in Seq(S) /\ <<a>> \in Seq(S) /\ <<a, b>> \in Seq(S)
      /\ <<b>> \in Seq(S) /\ <<c>> \in Seq(S) /\ <<b, c>> \in Seq(S)
      /\ <<a, b, c>> \in Seq(S)
  OBVIOUS
<1>2. /\ <<>> \o <<>> = <<>> /\ <<a>> \o <<>> = <<a>> /\ <<a, b>> \o <<>> = <<a, b>>
      /\ <<>> \o <<a>> = <<a>> /\ <<>> \o <<a, b>> = <<a, b>>
  BY <1>1, ConcatEmptySeq
<1>3. /\ Len(<<a>>) = 1 /\ Len(<<b>>) = 1 /\ Len(<<c>>) = 1
      /\ Len(<<a, b>>) = 2 /\ Len(<<b, c>>) = 2 /\ Len(<<a, b, c>>) = 3
  OBVIOUS
<1>4. <<a>> \o <<b>> = <<a, b>>
  <2>1. \A i \in 1 .. Len(<<a>>) : <<a, b>>[i] = <<a>>[i]
    BY <1>3
  <2>2. \A i \in 1 .. Len(<<b>>) : <<a, b>>[Len(<<a>>) + i] = <<b>>[i]
    BY <1>3
  <2>3. Len(<<a, b>>) = Len(<<a>>) + Len(<<b>>)
    BY <1>3
  <2> QED BY <1>1, <2>1, <2>2, <2>3, Concatenated
<1>5. <<a, b>> \o <<c>> = <<a, b, c>>
  <2>1. \A i \in 1 .. Len(<<a, b>>) : <<a, b, c>>[i] = <<a, b>>[i]
    <3> SUFFICES ASSUME NEW i \in 1 .. 2 PROVE <<a, b, c>>[i] = <<a, b>>[i]
      BY <1>3
    <3>1. i = 1 \/ i = 2
      OBVIOUS
    <3> QED BY <3>1
  <2>2. \A i \in 1 .. Len(<<c>>) : <<a, b, c>>[Len(<<a, b>>) + i] = <<c>>[i]
    BY <1>3
  <2>3. Len(<<a, b, c>>) = Len(<<a, b>>) + Len(<<c>>)
    BY <1>3
  <2> QED BY <1>1, <2>1, <2>2, <2>3, Concatenated
<1>6. <<a>> \o <<b, c>> = <<a, b, c>>
  <2>1. \A i \in 1 .. Len(<<a>>) : <<a, b, c>>[i] = <<a>>[i]
    BY <1>3
  <2>2. \A i \in 1 .. Len(<<b, c>>) : <<a, b, c>>[Len(<<a>>) + i] = <<b, c>>[i]
    <3> SUFFICES ASSUME NEW i \in 1 .. 2 PROVE <<a, b, c>>[1 + i] = <<b, c>>[i]
      BY <1>3
    <3>1. i = 1 \/ i = 2
      OBVIOUS
    <3> QED BY <3>1
  <2>3. Len(<<a, b, c>>) = Len(<<a>>) + Len(<<b, c>>)
    BY <1>3
  <2> QED BY <1>1, <2>1, <2>2, <2>3, Concatenated
<1> QED BY <1>2, <1>4, <1>5, <1>6

\* The first of the commands, and the others.
LEMMA ShortSequences ==
  ASSUME NEW a, NEW b, NEW c
  PROVE  /\ <<a>> # <<>> /\ <<a, b>> # <<>> /\ <<a, b, c>> # <<>>
         /\ Head(<<a>>) = a /\ Head(<<a, b>>) = a /\ Head(<<a, b, c>>) = a
         /\ Tail(<<a>>) = <<>> /\ Tail(<<a, b>>) = <<b>> /\ Tail(<<a, b, c>>) = <<b, c>>
OBVIOUS

-----------------------------------------------------------------------------
(* Times, members and commands                                             *)

\* The constants of the clock and their order.
LEMMA Bounds ==
  /\ Horizon \in Nat /\ MaxTrigger \in Nat /\ MaxTrigger <= Horizon
  /\ Period \in Nat \ {0} /\ MaxSleep \in Nat \ {0}
  /\ MaxEdits \in Nat /\ MaxMishaps \in Nat
<1>1. MaxSleep * (1 + MaxMishaps) \in Nat
  BY RemindersAssumption
<1> QED BY <1>1, RemindersAssumption DEF Horizon

\* What the payload of a member is made of.
LEMMA Fields ==
  ASSUME NEW m \in Members
  PROVE  /\ m.id \in Rem /\ m.at \in Times /\ m.rec \in BOOLEAN /\ m.ver \in 0 .. MaxEdits
         /\ m.at \in Nat /\ m.at > 0 /\ UserOf(m) \in Owners
BY Bounds, RemindersAssumption DEF Members, Times, UserOf

\* The next occurrence of one that has come is still within the times.
LEMMA NextOne ==
  ASSUME NEW m \in Members
  PROVE  /\ Successor(m).id = m.id /\ Successor(m).at = m.at + Period /\ Successor(m).rec = m.rec
         /\ UserOf(Successor(m)) = UserOf(m)
         /\ Successor(m).at > m.at
         /\ clock \in 0 .. Horizon /\ m.at <= clock => Successor(m) \in Members
BY Fields, Bounds DEF Successor, Members, Times, UserOf

\* The commands of the model, and what is in them.
LEMMA CmdType ==
  ASSUME NEW m \in Members
  PROVE  /\ \A op \in RedisOps \cup {"told", "exec"} : \A t \in {"set", "cancelled", "none"} :
              Cmd(op, m, t) \in Commands
         /\ \A op : \A t : Cmd(op, m, t).op = op /\ Cmd(op, m, t).m = m /\ Cmd(op, m, t).told = t
BY DEF Cmd, Commands, RedisOps

\* The commands that follow an issued one are commands.
LEMMA CommandsTyped ==
  ASSUME RemindersTypeOK, Command \/ CommandFails
  PROVE  cmds' \in Seq(Commands)
<1> DEFINE c == Head(cmds)
<1>1. cmds \in Seq(Commands) /\ cmds # <<>> /\ c.op \in RedisOps
  BY DEF RemindersTypeOK, Command, CommandFails
<1>2. c \in Commands /\ Tail(cmds) \in Seq(Commands)
  BY <1>1, HeadTailProperties
<1>3. c.m \in Members /\ c.told \in {"set", "cancelled", "none"}
  BY <1>2 DEF Commands
<1>4. Cmd("sadd", c.m, "none") \in Commands /\ Cmd("zcard", c.m, "none") \in Commands
      /\ Cmd("srem", c.m, "none") \in Commands /\ Cmd("told", c.m, c.told) \in Commands
  BY <1>3, CmdType DEF RedisOps
<1> HIDE DEF c
<1>5. Told(c) \in Seq(Commands)
  BY <1>4 DEF Told
<1>6. <<Cmd("sadd", c.m, "none")>> \o Told(c) \in Seq(Commands)
      /\ <<Cmd("zcard", c.m, "none")>> \o Told(c) \in Seq(Commands)
  BY <1>4, <1>5, ConcatProperties
<1>7. After(c) \in Seq(Commands)
  BY <1>4, <1>6 DEF After
<1>8. AfterFault(c) \in Seq(Commands)
  BY <1>4 DEF AfterFault
<1>9. cmds' = After(c) \o Tail(cmds) \/ cmds' = AfterFault(c) \o Tail(cmds)
  BY DEF Command, CommandFails, c
<1> QED BY <1>2, <1>7, <1>8, <1>9, ConcatProperties

-----------------------------------------------------------------------------
(* What a command changes                                                  *)

\* A command leaves alone what the process remembers; a failed one counts as a
\* mishap and may hurt reminders.
Well ==
  /\ UNCHANGED <<clock, loopVars, edits, unset, history>>
  /\ \/ mishaps' = mishaps /\ hurt' = hurt
     \/ mishaps' \in 1 .. MaxMishaps /\ hurt \subseteq hurt' /\ hurt' \subseteq Rem

\* A member is saved (reminder_ops.py:267-281).
LEMMA Adds ==
  ASSUME Base, Well, cmds' \in Seq(Commands),
         NEW n, Known(n), zset' = zset \/ zset' = zset \cup {n}, index' = index,
         InTime(n),
         \/ mishaps' > 0 /\ n.id \in hurt'
         \/ Clean(n.id) => /\ n.id \notin cancelled /\ RanBefore(n)
                           /\ \A o \in Of(n.id) :
                                o = n \/ (Link(o, n) /\ UserOf(n) \in index)
  PROVE  Base'
<1> USE DEF Base, Well, loopVars, history
<1>0. mishaps \in Nat /\ mishaps' \in Nat
  BY Bounds DEF RemindersTypeOK
<1>1. RemindersTypeOK'
  BY Bounds DEF RemindersTypeOK, Known
<1>2. \A r : Clean(r)' => Clean(r)
  BY DEF Clean
<1>3. Drawn' /\ Come' /\ HeldIsKept' /\ AtMostOnce'
  BY <1>2 DEF Drawn, Come, HeldIsKept, AtMostOnce, Known, Clean
<1>4. Faultless'
  BY DEF Faultless
<1>5. \A m \in zset' : m \in zset \/ (m = n /\ zset' = zset \cup {n})
  OBVIOUS
<1>6. Chained'
  <2> SUFFICES ASSUME NEW m \in zset', NEW o \in zset', m.id = o.id, Clean(m.id)'
               PROVE  m = o \/ Link(m, o)' \/ Link(o, m)'
    BY DEF Chained
  <2>1. \A a, b : Link(a, b)' <=> Link(a, b)
    BY DEF Link
  <2>2. CASE m \in zset /\ o \in zset
    BY <1>2, <2>1, <2>2 DEF Chained
  <2>3. CASE m = n \/ o = n
    BY <1>2, <1>5, <2>1, <2>3 DEF Of, Clean, Chained
  <2> QED BY <1>5, <2>2, <2>3
<1>10. DoubledIsIndexed'
  <2> SUFFICES ASSUME NEW m \in zset', NEW o \in zset', m.id = o.id, Clean(m.id)', m.at < o.at
               PROVE  UserOf(m) \in index
    BY DEF DoubledIsIndexed
  <2>1. CASE m \in zset /\ o \in zset
    BY <1>2, <2>1 DEF DoubledIsIndexed
  <2>2. CASE o = n /\ m \in zset
    <3>1. m \in Members /\ o \in Members
      BY <2>2 DEF RemindersTypeOK, Known
    <3>2. m # n
      BY <2>2, <3>1, Fields
    <3> QED BY <1>2, <2>2, <3>2 DEF Of, Clean, UserOf
  <2>3. CASE m = n /\ o \in zset
    <3>1. m \in Members /\ o \in Members
      BY <2>3 DEF RemindersTypeOK, Known
    <3>2. ~Link(o, m) /\ o # m
      BY <3>1, Fields, NextOne DEF Link
    <3> QED BY <1>2, <2>3, <3>2 DEF Of, Clean
  <2>4. CASE m = n /\ o = n
    <3>1. m.at \in Nat
      BY <2>4, Fields DEF Known
    <3> QED BY <2>4, <3>1
  <2> QED BY <1>5, <2>1, <2>2, <2>3, <2>4
<1>7. Fresh' /\ WakesInTime'
  <2>1. \A m : RanBefore(m)' <=> RanBefore(m)
    BY DEF RanBefore
  <2>2. \A m : InTime(m) => InTime(m)'
    BY DEF InTime, Occurrence
  <2>3. \A m \in zset' : Clean(m.id)' => RanBefore(m)
    BY <1>2, <1>5 DEF Fresh, Clean
  <2> QED BY <1>5, <2>1, <2>2, <2>3 DEF Fresh, WakesInTime
<1>8. ChainKept'
  BY DEF ChainKept, Of
<1>9. CancelHolds'
  BY <1>2, <1>5 DEF CancelHolds, Of, Clean
<1> QED BY <1>1, <1>3, <1>4, <1>6, <1>7, <1>8, <1>9, <1>10

\* A member is removed (reminder_ops.py:284-289).
LEMMA Drops ==
  ASSUME Base, Well, cmds' \in Seq(Commands),
         NEW m, zset' = zset \/ zset' = zset \ {m}, index' = index,
         \/ m.id \in hurt'
         \/ /\ Clean(m.id) => m \notin todo
            /\ m.id \in promised => m.id \in hurt \/ \E o \in Of(m.id) : o # m
  PROVE  Base'
<1> USE DEF Base, Well, loopVars, history
<1>1. RemindersTypeOK'
  BY Bounds DEF RemindersTypeOK
<1>2. \A r : Clean(r)' => Clean(r)
  BY DEF Clean
<1>3. Drawn' /\ Come' /\ AtMostOnce' /\ Faultless'
  BY Bounds DEF Drawn, Come, AtMostOnce, Faultless
<1>4. HeldIsKept' /\ DoubledIsIndexed'
  <2>1. HeldIsKept'
    BY <1>2 DEF HeldIsKept, Clean
  <2>2. DoubledIsIndexed'
    BY <1>2 DEF DoubledIsIndexed
  <2> QED BY <2>1, <2>2
<1>5. Chained'
  <2>1. \A a, b : Link(a, b)' <=> Link(a, b)
    BY DEF Link
  <2> QED BY <1>2, <2>1 DEF Chained
<1>6. Fresh' /\ WakesInTime'
  <2>1. \A o : RanBefore(o)' <=> RanBefore(o)
    BY DEF RanBefore
  <2>2. \A o : InTime(o) => InTime(o)'
    BY Bounds DEF InTime, Occurrence, RemindersTypeOK
  <2> QED BY <1>2, <2>1, <2>2 DEF Fresh, WakesInTime
<1>7. ChainKept'
  BY DEF ChainKept, Of
<1>8. CancelHolds'
  BY <1>2 DEF CancelHolds, Of, Clean
<1> QED BY <1>1, <1>3, <1>4, <1>5, <1>6, <1>7, <1>8

\* A user is indexed, or leaves the index with no reminder left.
LEMMA Reindexes ==
  ASSUME Base, Well, cmds' \in Seq(Commands),
         NEW u \in Owners, zset' = zset,
         \/ index' = index \/ index' = index \cup {u}
         \/ index' = index \ {u} /\ NoneLeft(u)
  PROVE  Base'
<1> USE DEF Base, Well, loopVars, history
<1>1. RemindersTypeOK'
  BY Bounds DEF RemindersTypeOK
<1>2. \A r : Clean(r)' => Clean(r)
  BY DEF Clean
<1>3. Drawn' /\ Come' /\ AtMostOnce' /\ Faultless'
  BY Bounds, <1>2 DEF Drawn, Come, AtMostOnce, Faultless
<1>8. ASSUME NEW m \in zset, Clean(m.id)', UserOf(m) \in index PROVE UserOf(m) \in index'
  <2>1. m.id \in Rem /\ m \in Of(m.id) /\ m.id \notin hurt
    BY <1>2, <1>8, Fields DEF RemindersTypeOK, Of, Clean
  <2> QED BY <1>8, <2>1 DEF NoneLeft, UserOf
<1>9. HeldIsKept' /\ DoubledIsIndexed'
  BY <1>2, <1>8 DEF HeldIsKept, DoubledIsIndexed
<1>4. Chained'
  <2>1. \A a, b : Link(a, b)' <=> Link(a, b)
    BY DEF Link
  <2> QED BY <1>2, <2>1 DEF Chained
<1>5. Fresh' /\ WakesInTime'
  <2>1. \A o : RanBefore(o)' <=> RanBefore(o)
    BY DEF RanBefore
  <2>2. \A o : InTime(o) => InTime(o)'
    BY Bounds DEF InTime, Occurrence, RemindersTypeOK
  <2> QED BY <1>2, <2>1, <2>2 DEF Fresh, WakesInTime
<1>6. ChainKept'
  BY DEF ChainKept, Of, NoneLeft, RemindersTypeOK
<1>7. CancelHolds'
  BY <1>2 DEF CancelHolds, Of, Clean
<1> QED BY <1>1, <1>3, <1>4, <1>5, <1>6, <1>7, <1>9

\* What the commands still to come rely on, when the members stay as they are.
LEMMA Stays ==
  ASSUME Base, Well, zset' = zset
  PROVE  /\ \A n : Saves(n) => Saves(n)'
         /\ \A m : Removed(m) => Removed(m)'
         /\ \A m : Fires(m) => Fires(m)'
         /\ index \subseteq index' => \A m : Firing(m) => Firing(m)'
         /\ \A m : Later(m) => Later(m)'
         /\ \A x : Ordered(x) => Ordered(x)'
         /\ \A u : NoneLeft(u) => NoneLeft(u)'
         /\ Awake <=> Awake'
         /\ \A m : Known(m) <=> Known(m)'
<1> USE DEF Base, Well, loopVars, history
<1>1. \A r : Clean(r)' => Clean(r)
  BY DEF Clean
<1>2. \A m : (Known(m) <=> Known(m)') /\ (RanBefore(m) <=> RanBefore(m)')
  BY DEF Known, RanBefore
<1>3. (Awake <=> Awake') /\ \A r : (NotHeld(r) <=> NotHeld(r)') /\ Of(r)' = Of(r)
  BY DEF Awake, NotHeld, Of
<1>4. \A x : Ordered(x) => Ordered(x)'
  BY <1>1 DEF Ordered
<1>5. \A m : InTime(m) => InTime(m)'
  BY Bounds DEF InTime, Occurrence, RemindersTypeOK
<1>6. \A n : Saves(n) => Saves(n)'
  BY <1>1, <1>2, <1>3, <1>5 DEF Saves
<1>7. \A m : Removed(m) => Removed(m)'
  BY <1>1, <1>2, <1>3 DEF Removed
<1>8. \A m : Fires(m) => Fires(m)'
  BY <1>1, <1>2 DEF Fires
<1>9. index \subseteq index' => \A m : Firing(m) => Firing(m)'
  BY <1>1, <1>3, <1>4, <1>8 DEF Firing
<1>10. \A u : NoneLeft(u) => NoneLeft(u)'
  BY <1>3 DEF NoneLeft
<1>11. \A m : Later(m) => Later(m)'
  BY <1>1, <1>3 DEF Later
<1> QED BY <1>2, <1>3, <1>4, <1>6, <1>7, <1>8, <1>9, <1>10, <1>11

-----------------------------------------------------------------------------
(* The commands, one by one                                                *)

\* What issuing the command c, followed by the commands t, does (redis_client
\* execute): it succeeds, or it fails, done or not.
Succeeds(c, t) == Apply(c) /\ cmds' = After(c) \o t /\ UNCHANGED <<mishaps, hurt>>
Fails(c, t) ==
  /\ Apply(c) \/ UNCHANGED redisVars
  /\ cmds' = AfterFault(c) \o t
  /\ mishaps' \in 1 .. MaxMishaps /\ hurt' = hurt \cup Harmed(c)

\* A command is the first of those still to come, and succeeds or fails.
LEMMA IssueFacts ==
  ASSUME Base, Command \/ CommandFails
  PROVE  /\ Well /\ cmds' \in Seq(Commands)
         /\ Succeeds(Head(cmds), Tail(cmds)) \/ Fails(Head(cmds), Tail(cmds))
<1>1. cmds' \in Seq(Commands)
  BY CommandsTyped DEF Base
<1>2. CASE Command
  BY <1>1, <1>2 DEF Command, Well, Succeeds, history
<1>3. CASE CommandFails
  <2>1. mishaps' \in 1 .. MaxMishaps
    BY <1>3, Bounds DEF CommandFails, Mishap, Base, RemindersTypeOK
  <2>2. Head(cmds) \in Commands
    BY <1>3, HeadTailProperties DEF CommandFails, Base, RemindersTypeOK
  <2>3. Harmed(Head(cmds)) \subseteq Rem
    BY <2>2, Fields DEF Harmed, Commands
  <2>4. hurt' \subseteq Rem
    BY <1>3, <2>3 DEF CommandFails, Base, RemindersTypeOK
  <2> QED BY <1>1, <1>3, <2>1, <2>4 DEF CommandFails, Well, Fails, history
<1> QED BY <1>2, <1>3

\* ZADD, then SADD if it succeeded (reminder_ops.py:267-281)
LEMMA AddFacts ==
  ASSUME NEW n \in Members, NEW d \in Commands, NEW e \in Commands,
         NEW told \in {"set", "none"}, NEW t \in {<<>>, <<d, e>>}, told = "set" => t = <<>>,
         NEW c, c = Cmd("zadd", n, told)
  PROVE  /\ Succeeds(c, t) =>
              /\ zset' = zset \cup {n} /\ index' = index
              /\ told = "set" => cmds' = <<Cmd("sadd", n, "none"), Cmd("told", n, "set")>>
              /\ told = "none" /\ t = <<d, e>> => cmds' = <<Cmd("sadd", n, "none"), d, e>>
         /\ Fails(c, t) =>
              /\ zset' = zset \/ zset' = zset \cup {n}
              /\ index' = index /\ cmds' = t
              /\ mishaps' > 0 /\ n.id \in hurt' /\ hurt \subseteq hurt'
<1> DEFINE a == Cmd("sadd", n, "none") b == Cmd("told", n, "set")
<1>1. a \in Commands /\ b \in Commands
  BY CmdType DEF RedisOps
<1>2. /\ c.op = "zadd" /\ c.m = n /\ c.told = told
      /\ After(c) = <<a>> \o Told(c) /\ AfterFault(c) = <<>> /\ Harmed(c) = {n.id}
      /\ told = "set" => Told(c) = <<b>>
      /\ told = "none" => Told(c) = <<>>
  BY DEF Cmd, After, AfterFault, Harmed, Told
<1>3. Apply(c) => zset' = zset \cup {n} /\ index' = index
  BY <1>2 DEF Apply
<1> HIDE DEF a, b
<1>4. /\ <<a>> \o <<b>> = <<a, b>> /\ <<a, b>> \o <<>> = <<a, b>>
      /\ <<a>> \o <<>> = <<a>> /\ <<a>> \o <<d, e>> = <<a, d, e>>
  BY <1>1, Tuples
<1>5. <<>> \o t = t
  BY Tuples
<1>6. ASSUME Succeeds(c, t)
      PROVE  /\ told = "set" => cmds' = <<a, b>>
             /\ told = "none" /\ t = <<d, e>> => cmds' = <<a, d, e>>
  BY <1>2, <1>4, <1>6 DEF Succeeds
<1>7. ASSUME Fails(c, t) PROVE cmds' = t
  BY <1>2, <1>5, <1>7 DEF Fails
<1> QED BY <1>2, <1>3, <1>6, <1>7, Bounds DEF Succeeds, Fails, redisVars, a, b

\* SADD of the owner (reminder_ops.py:267-281)
LEMMA IndexFacts ==
  ASSUME NEW n \in Members, NEW d \in Commands, NEW e \in Commands, NEW t \in {<<d>>, <<d, e>>},
         NEW c, c = Cmd("sadd", n, "none")
  PROVE  Succeeds(c, t) \/ Fails(c, t) =>
           /\ zset' = zset /\ cmds' = t
           /\ index' = index \/ index' = index \cup {UserOf(n)}
           /\ \/ mishaps' > 0 /\ n.id \in hurt'
              \/ mishaps' = mishaps /\ index' = index \cup {UserOf(n)}
<1>1. /\ Apply(c) => zset' = zset /\ index' = index \cup {UserOf(n)}
      /\ After(c) = <<>> /\ AfterFault(c) = <<>> /\ Harmed(c) = {n.id}
  BY DEF Cmd, Apply, After, AfterFault, Harmed
<1>2. <<>> \o t = t
  BY Tuples
<1> QED BY <1>1, <1>2, Bounds DEF Succeeds, Fails, redisVars

\* ZREM, then ZCARD if it removed something (reminder_ops.py:284-289)
LEMMA RemoveFacts ==
  ASSUME NEW m \in Members, NEW d \in Commands, NEW told \in {"cancelled", "none"},
         NEW t \in {<<>>, <<d>>}, told = "cancelled" <=> t = <<>>,
         NEW c, c = Cmd("zrem", m, told)
  PROVE  /\ Succeeds(c, t) =>
              /\ zset' = zset \ {m} /\ index' = index /\ mishaps' = mishaps /\ hurt' = hurt
              /\ m \notin zset => cmds' = t
              /\ m \in zset /\ told = "none" => cmds' = <<Cmd("zcard", m, "none"), d>>
              /\ m \in zset /\ told = "cancelled" =>
                   cmds' = <<Cmd("zcard", m, "none"), Cmd("told", m, "cancelled")>>
         /\ Fails(c, t) =>
              /\ zset' = zset \/ zset' = zset \ {m}
              /\ index' = index /\ cmds' = t
              /\ mishaps' > 0 /\ m.id \in hurt' /\ hurt \subseteq hurt'
<1> DEFINE a == Cmd("zcard", m, "none") b == Cmd("told", m, "cancelled")
<1>1. a \in Commands /\ b \in Commands
  BY CmdType DEF RedisOps
<1>2. /\ c.op = "zrem" /\ c.m = m /\ c.told = told
      /\ After(c) = (IF m \in zset THEN <<a>> \o Told(c) ELSE <<>>)
      /\ AfterFault(c) = <<>> /\ Harmed(c) = {m.id}
      /\ told = "cancelled" => Told(c) = <<b>>
      /\ told = "none" => Told(c) = <<>>
  BY DEF Cmd, After, AfterFault, Harmed, Told
<1>3. Apply(c) => zset' = zset \ {m} /\ index' = index
  BY <1>2 DEF Apply
<1> HIDE DEF a, b
<1>4. /\ <<a>> \o <<b>> = <<a, b>> /\ <<a, b>> \o <<>> = <<a, b>>
      /\ <<a>> \o <<>> = <<a>> /\ <<a>> \o <<d>> = <<a, d>>
  BY <1>1, Tuples
<1>5. <<>> \o t = t /\ <<d>> # <<>>
  BY Tuples, ShortSequences
<1>6. ASSUME Succeeds(c, t)
      PROVE  /\ m \notin zset => cmds' = t
             /\ m \in zset /\ told = "none" => cmds' = <<a, d>>
             /\ m \in zset /\ told = "cancelled" => cmds' = <<a, b>>
  BY <1>2, <1>4, <1>5, <1>6 DEF Succeeds
<1>7. ASSUME Fails(c, t) PROVE cmds' = t
  BY <1>2, <1>5, <1>7 DEF Fails
<1> QED BY <1>2, <1>3, <1>6, <1>7, Bounds DEF Succeeds, Fails, redisVars, a, b

\* ZCARD, then SREM if it counted nothing, or failed (reminder_ops.py:286-289)
LEMMA CountFacts ==
  ASSUME NEW m \in Members, NEW d \in Commands,
         NEW c, c = Cmd("zcard", m, "none")
  PROVE  Succeeds(c, <<d>>) \/ Fails(c, <<d>>) =>
           /\ zset' = zset /\ index' = index
           /\ \/ cmds' = <<d>>
              \/ cmds' = <<Cmd("srem", m, "none"), d>> /\ (NoneLeft(UserOf(m)) \/ NoneLeft(UserOf(m))')
<1> DEFINE a == Cmd("srem", m, "none")
<1>1. a \in Commands
  BY CmdType DEF RedisOps
<1>2. /\ c.op = "zcard" /\ c.m = m
      /\ Apply(c) => zset' = zset /\ index' = index
      /\ \/ After(c) = <<>>
         \/ After(c) = <<a>> /\ \A o \in zset : UserOf(o) # UserOf(m)
      /\ AfterFault(c) = <<a>>
      /\ Harmed(c) = {r \in Rem : Owner[r] = UserOf(m)}
  BY DEF Cmd, Apply, After, AfterFault, Harmed
<1> HIDE DEF a
<1>3. (\A o \in zset : UserOf(o) # UserOf(m)) => NoneLeft(UserOf(m))
  BY DEF NoneLeft, Of, UserOf
<1>4. (hurt' = hurt \cup {r \in Rem : Owner[r] = UserOf(m)}) => NoneLeft(UserOf(m))'
  BY DEF NoneLeft, UserOf
<1>5. <<>> \o <<d>> = <<d>> /\ <<a>> \o <<d>> = <<a, d>>
  BY <1>1, Tuples
<1> QED BY <1>2, <1>3, <1>4, <1>5 DEF Succeeds, Fails, redisVars, a

\* SREM of the owner (reminder_ops.py:284-289)
LEMMA UnindexFacts ==
  ASSUME NEW m \in Members, NEW d \in Commands,
         NEW c, c = Cmd("srem", m, "none")
  PROVE  Succeeds(c, <<d>>) \/ Fails(c, <<d>>) =>
           zset' = zset /\ (index' = index \/ index' = index \ {UserOf(m)}) /\ cmds' = <<d>>
<1>1. /\ Apply(c) => zset' = zset /\ index' = index \ {UserOf(m)}
      /\ After(c) = <<>> /\ AfterFault(c) = <<>>
  BY DEF Cmd, Apply, After, AfterFault
<1>2. <<>> \o <<d>> = <<d>>
  BY Tuples
<1> QED BY <1>1, <1>2 DEF Succeeds, Fails, redisVars

\* The order the pass keeps, when a member comes or goes.
LEMMA OrderedAdds ==
  ASSUME Base, Well, NEW n, Known(n), zset' = zset \/ zset' = zset \cup {n}, NEW x, Ordered(x),
         \/ n.id \in hurt'
         \/ Clean(n.id) => \A o \in Of(n.id) : o.at <= n.at /\ (o.at < n.at => o \in todo \cup x)
  PROVE  Ordered(x)'
<1> USE DEF Well, loopVars, history
<1>1. CASE loop \in {"boot", "down"}
  BY <1>1 DEF Ordered
<1>2. CASE loop \notin {"boot", "down"}
  <2> SUFFICES ASSUME NEW m \in zset', NEW o \in zset', Clean(m.id)', m.id = o.id, m.at < o.at
               PROVE  m \in todo \cup x
    BY DEF Ordered
  <2>1. Clean(m.id)
    BY DEF Clean
  <2>2. m.at \in Nat /\ o.at \in Nat
    BY Fields DEF Base, RemindersTypeOK, Known
  <2>3. CASE m \in zset /\ o \in zset
    BY <1>2, <2>1, <2>3 DEF Ordered
  <2>4. CASE m = n \/ o = n
    <3>1. n.id \notin hurt'
      BY <2>4 DEF Clean
    <3>2. \A p \in Of(n.id) : p.at <= n.at /\ (p.at < n.at => p \in todo \cup x)
      BY <2>1, <2>4, <3>1
    <3>3. CASE m = n
      <4>1. o = n \/ o \in Of(n.id)
        BY <3>3 DEF Of
      <4> QED BY <2>2, <3>2, <3>3, <4>1
    <3>4. CASE o = n /\ m # n
      <4>1. m \in Of(n.id)
        BY <3>4 DEF Of
      <4> QED BY <3>2, <3>4, <4>1
    <3> QED BY <2>4, <3>3, <3>4
  <2> QED BY <2>3, <2>4
<1> QED BY <1>1, <1>2

\* A member that goes leaves nothing behind it, if it was the one let off.
LEMMA OrderedDrops ==
  ASSUME Well, NEW x, NEW y, Ordered(x), zset' \subseteq zset,
         \A m \in x : m \in y \/ m \notin zset' \/ m.id \in hurt'
  PROVE  Ordered(y)'
<1> USE DEF Well, loopVars, history
<1>1. \A r : Clean(r)' => Clean(r) /\ r \notin hurt'
  BY DEF Clean
<1> QED BY <1>1 DEF Ordered

\* Where a step leads that changes no member.
LEMMA IndexedStays ==
  ASSUME Base, Well, zset' = zset, index \subseteq index', NEW x, Indexed(x)
  PROVE  Indexed(x)'
BY Bounds DEF Indexed, Well, RemindersTypeOK, Base

\* Nobody who still has a reminder leaves the index.
LEMMA PlainUnindexed ==
  ASSUME Base, Well, zset' = zset, Plain, NEW u, index' = index \ {u}, NoneLeft(u)
  PROVE  Plain'
<1>1. Ordered({})'
  BY Stays DEF Plain
<1>2. Indexed({})'
  <2> SUFFICES ASSUME mishaps' = 0, NEW m \in zset PROVE UserOf(m) \in index'
    BY DEF Indexed
  <2>1. mishaps = 0 /\ hurt = {}
    BY DEF Well, Base, Faultless
  <2>2. m.id \in Rem /\ m \in Of(m.id)
    BY Fields DEF Base, RemindersTypeOK, Of
  <2>3. UserOf(m) # u
    BY <2>1, <2>2 DEF NoneLeft, UserOf
  <2> QED BY <2>1, <2>3 DEF Plain, Indexed
<1> QED BY <1>1, <1>2 DEF Plain

\* Adding an owner to the index takes nothing from it.
LEMMA PlainStays ==
  ASSUME Base, Well, zset' = zset, index \subseteq index', Plain
  PROVE  Plain'
BY Stays, IndexedStays DEF Plain

\* set_reminder, or the second half of update_reminder, saves its member.
LEMMA AtSetAdds ==
  ASSUME Base, NEW n \in Members, SetAdds(n), Command \/ CommandFails
  PROVE  Base' /\ (SetIndexes(n)' \/ Idle')
<1> DEFINE c == Cmd("zadd", n, "set")
<1>1. cmds = <<c>> /\ Saves(n) /\ Plain /\ Known(n) /\ c \in Commands
  BY CmdType DEF SetAdds, Saves, RedisOps
<1>2. Well /\ cmds' \in Seq(Commands) /\ (Succeeds(c, <<>>) \/ Fails(c, <<>>))
  BY <1>1, IssueFacts, ShortSequences
<1>3. Clean(n.id) => Of(n.id) = {}
  BY <1>1 DEF Saves
<1>4. CASE Succeeds(c, <<>>)
  <2>1. /\ zset' = zset \cup {n} /\ index' = index
        /\ cmds' = <<Cmd("sadd", n, "none"), Cmd("told", n, "set")>>
    BY <1>1, <1>4, AddFacts
  <2>2. Base'
    BY <1>1, <1>2, <2>1, Adds DEF Saves
  <2>3. Awake' /\ Indexed({n})'
    BY <1>1, <1>4, <2>1, <1>2 DEF Saves, Plain, Indexed, Awake, Well, loopVars, Succeeds
  <2>4. Ordered({})'
    BY <1>1, <1>2, <1>3, <2>1, OrderedAdds DEF Plain
  <2> QED BY <2>1, <2>2, <2>3, <2>4 DEF SetIndexes
<1>5. CASE Fails(c, <<>>)
  <2>1. /\ zset' = zset \/ zset' = zset \cup {n}
        /\ index' = index /\ cmds' = <<>> /\ mishaps' > 0 /\ n.id \in hurt' /\ hurt \subseteq hurt'
    BY <1>1, <1>5, AddFacts
  <2>2. Base'
    BY <1>1, <1>2, <2>1, Adds DEF Saves
  <2>3. Ordered({})'
    BY <1>1, <1>2, <2>1, OrderedAdds DEF Plain
  <2>4. Indexed({})'
    BY <2>1 DEF Indexed
  <2> QED BY <2>1, <2>2, <2>3, <2>4 DEF Idle, Plain
<1> QED BY <1>2, <1>4, <1>5

\* It adds the owner to the index: from here on the reminder can be promised.
LEMMA AtSetIndexes ==
  ASSUME Base, NEW n \in Members, SetIndexes(n), Command \/ CommandFails
  PROVE  Base' /\ SetTells(n)'
<1> DEFINE c == Cmd("sadd", n, "none") d == Cmd("told", n, "set")
<1>1. /\ cmds = <<c, d>> /\ Awake /\ n \in zset /\ Ordered({}) /\ Indexed({n}) /\ Known(n)
      /\ d \in Commands
  BY CmdType DEF SetIndexes, Base, Drawn, Known
<1>2. Well /\ cmds' \in Seq(Commands) /\ (Succeeds(c, <<d>>) \/ Fails(c, <<d>>))
  BY <1>1, IssueFacts, ShortSequences
<1>3. /\ zset' = zset /\ cmds' = <<d>>
      /\ index' = index \/ index' = index \cup {UserOf(n)}
      /\ \/ mishaps' > 0 /\ n.id \in hurt'
         \/ mishaps' = mishaps /\ index' = index \cup {UserOf(n)}
  BY <1>1, <1>2, IndexFacts
<1>4. Base'
  BY <1>2, <1>3, Fields, Reindexes
<1>5. Awake' /\ Known(n)' /\ Ordered({})'
  BY <1>1, <1>2, <1>3, Stays
<1>6. Indexed({})'
  BY <1>1, <1>3, Bounds DEF Indexed, Base, RemindersTypeOK
<1> QED BY <1>1, <1>3, <1>4, <1>5, <1>6 DEF SetTells, Plain, UserOf

\* cancel_reminder removes the only member of a clean reminder.
LEMMA AtCancelRemoves ==
  ASSUME Base, NEW m \in Members, CancelRemoves(m), Command \/ CommandFails
  PROVE  Base' /\ (CancelCounts(m)' \/ Idle')
<1> DEFINE c == Cmd("zrem", m, "cancelled")
<1>1. cmds = <<c>> /\ Removes(m) /\ Plain /\ m \in zset /\ c \in Commands
  BY CmdType DEF CancelRemoves, Removes, RedisOps
<1>2. Well /\ cmds' \in Seq(Commands) /\ (Succeeds(c, <<>>) \/ Fails(c, <<>>))
  BY <1>1, IssueFacts, ShortSequences
<1>3. CASE Succeeds(c, <<>>)
  <2>1. /\ zset' = zset \ {m} /\ index' = index /\ mishaps' = mishaps /\ hurt' = hurt
        /\ cmds' = <<Cmd("zcard", m, "none"), Cmd("told", m, "cancelled")>>
    BY <1>1, <1>3, RemoveFacts
  <2>2. Base'
    BY <1>1, <1>2, <2>1, Drops DEF Removes, NotHeld
  <2>3. Removed(m)'
    BY <1>1, <1>2, <2>1 DEF Removes, Removed, Awake, Known, Clean, NotHeld, Of, Well, loopVars, history, Base, Drawn
  <2>4. Ordered({})'
    BY <1>1, <1>2, <2>1, OrderedDrops DEF Plain
  <2>5. Indexed({})'
    BY <1>1, <2>1 DEF Plain, Indexed
  <2> QED BY <2>1, <2>2, <2>3, <2>4, <2>5 DEF CancelCounts, Plain
<1>4. CASE Fails(c, <<>>)
  <2>1. /\ zset' = zset \/ zset' = zset \ {m}
        /\ index' = index /\ cmds' = <<>> /\ mishaps' > 0 /\ m.id \in hurt' /\ hurt \subseteq hurt'
    BY <1>1, <1>4, RemoveFacts
  <2>2. Base'
    BY <1>1, <1>2, <2>1, Drops
  <2>3. Ordered({})' /\ Indexed({})'
    BY <1>1, <1>2, <2>1, OrderedDrops DEF Plain, Indexed
  <2> QED BY <2>1, <2>2, <2>3 DEF Idle, Plain
<1> QED BY <1>2, <1>3, <1>4

\* It counts what is left of the user, and may read a failure as zero.
LEMMA AtCancelCounts ==
  ASSUME Base, NEW m \in Members, CancelCounts(m), Command \/ CommandFails
  PROVE  Base' /\ (CancelUnindexes(m)' \/ CancelTells(m)')
<1> DEFINE c == Cmd("zcard", m, "none") d == Cmd("told", m, "cancelled")
<1>1. cmds = <<c, d>> /\ Removed(m) /\ Plain /\ d \in Commands
  BY CmdType DEF CancelCounts
<1>2. Well /\ cmds' \in Seq(Commands) /\ (Succeeds(c, <<d>>) \/ Fails(c, <<d>>))
  BY <1>1, IssueFacts, ShortSequences
<1>3. /\ zset' = zset /\ index' = index
      /\ \/ cmds' = <<d>>
         \/ cmds' = <<Cmd("srem", m, "none"), d>> /\ (NoneLeft(UserOf(m)) \/ NoneLeft(UserOf(m))')
  BY <1>1, <1>2, CountFacts
<1>4. Base'
  BY <1>2, <1>3, Fields, Reindexes
<1>5. Removed(m)' /\ Plain' /\ (NoneLeft(UserOf(m)) => NoneLeft(UserOf(m))')
  BY <1>1, <1>2, <1>3, Stays, PlainStays DEF UserOf
<1> QED BY <1>3, <1>4, <1>5 DEF CancelUnindexes, CancelTells

\* It takes the user out of the index, who has nothing left but hurt reminders.
LEMMA AtCancelUnindexes ==
  ASSUME Base, NEW m \in Members, CancelUnindexes(m), Command \/ CommandFails
  PROVE  Base' /\ CancelTells(m)'
<1> DEFINE c == Cmd("srem", m, "none") d == Cmd("told", m, "cancelled")
<1>1. cmds = <<c, d>> /\ Removed(m) /\ Plain /\ NoneLeft(UserOf(m)) /\ d \in Commands
  BY CmdType DEF CancelUnindexes
<1>2. Well /\ cmds' \in Seq(Commands) /\ (Succeeds(c, <<d>>) \/ Fails(c, <<d>>))
  BY <1>1, IssueFacts, ShortSequences
<1>3. zset' = zset /\ (index' = index \/ index' = index \ {UserOf(m)}) /\ cmds' = <<d>>
  BY <1>1, <1>2, UnindexFacts
<1>4. Base'
  BY <1>1, <1>2, <1>3, Fields, Reindexes
<1>5. Removed(m)' /\ Plain'
  BY <1>1, <1>2, <1>3, Stays, PlainStays, PlainUnindexed
<1> QED BY <1>3, <1>4, <1>5 DEF CancelTells

\* update_reminder removes the member that it is about to replace.
LEMMA AtUpdateRemoves ==
  ASSUME Base, NEW m \in Members, NEW n \in Members, UpdateRemoves(m, n), Command \/ CommandFails
  PROVE  Base' /\ (UpdateCounts(m, n)' \/ SetAdds(n)')
<1> DEFINE c == Cmd("zrem", m, "none") d == Cmd("zadd", n, "set")
<1>1. /\ cmds = <<c, d>> /\ Replaces(m, n) /\ Removes(m) /\ Plain
      /\ m \in zset /\ m.id \in Rem /\ n.id = m.id
      /\ c \in Commands /\ d \in Commands
  BY Fields, CmdType DEF UpdateRemoves, Replaces, Removes, RedisOps
<1>2. Well /\ cmds' \in Seq(Commands) /\ (Succeeds(c, <<d>>) \/ Fails(c, <<d>>))
  BY <1>1, IssueFacts, ShortSequences
<1>0. <<d>> # <<>>
  BY ShortSequences
<1>3. CASE Succeeds(c, <<d>>)
  <2>1. /\ zset' = zset \ {m} /\ index' = index /\ mishaps' = mishaps /\ hurt' = hurt
        /\ cmds' = <<Cmd("zcard", m, "none"), d>>
    BY <1>0, <1>1, <1>3, RemoveFacts
  <2>2. Base'
    BY <1>1, <1>2, <2>1, Drops DEF Removes, NotHeld
  <2>3. Clean(m.id) => m.id \notin cancelled
    BY <1>1 DEF Base, CancelHolds, Of, Clean
  <2>4. Saves(n)'
    BY <1>1, <1>2, <2>1, <2>3 DEF Removes, Replaces, Saves, Awake, Known, Clean, NotHeld, Of, RanBefore, InTime, Occurrence, Well, loopVars, history
  <2>5. Ordered({})'
    BY <1>1, <1>2, <2>1, OrderedDrops DEF Plain
  <2>6. Indexed({})'
    BY <1>1, <2>1 DEF Plain, Indexed
  <2> QED BY <2>1, <2>2, <2>4, <2>5, <2>6 DEF UpdateCounts, Plain
<1>4. CASE Fails(c, <<d>>)
  <2>1. /\ zset' = zset \/ zset' = zset \ {m}
        /\ index' = index /\ cmds' = <<d>> /\ mishaps' > 0 /\ m.id \in hurt' /\ hurt \subseteq hurt'
    BY <1>0, <1>1, <1>4, RemoveFacts
  <2>2. Base'
    BY <1>1, <1>2, <2>1, Drops
  <2>3. Ordered({})' /\ Indexed({})'
    BY <1>1, <1>2, <2>1, OrderedDrops DEF Plain, Indexed
  <2>4. Saves(n)'
    BY <1>1, <1>2, <2>1 DEF Removes, Replaces, Saves, Awake, Known, Clean, InTime, Occurrence, Well, loopVars, history
  <2> QED BY <2>1, <2>2, <2>3, <2>4 DEF SetAdds, Plain
<1> QED BY <1>2, <1>3, <1>4

\* It counts what is left of the user, between removing and saving.
LEMMA AtUpdateCounts ==
  ASSUME Base, NEW m \in Members, NEW n \in Members, UpdateCounts(m, n), Command \/ CommandFails
  PROVE  Base' /\ (UpdateUnindexes(m, n)' \/ SetAdds(n)')
<1> DEFINE c == Cmd("zcard", m, "none") d == Cmd("zadd", n, "set")
<1>1. cmds = <<c, d>> /\ Saves(n) /\ Plain /\ d \in Commands
  BY CmdType DEF UpdateCounts, RedisOps
<1>2. Well /\ cmds' \in Seq(Commands) /\ (Succeeds(c, <<d>>) \/ Fails(c, <<d>>))
  BY <1>1, IssueFacts, ShortSequences
<1>3. /\ zset' = zset /\ index' = index
      /\ \/ cmds' = <<d>>
         \/ cmds' = <<Cmd("srem", m, "none"), d>> /\ (NoneLeft(UserOf(m)) \/ NoneLeft(UserOf(m))')
  BY <1>1, <1>2, CountFacts
<1>4. Base'
  BY <1>2, <1>3, Fields, Reindexes
<1>5. Saves(n)' /\ Plain' /\ (NoneLeft(UserOf(m)) => NoneLeft(UserOf(m))')
  BY <1>1, <1>2, <1>3, Stays, PlainStays DEF UserOf
<1> QED BY <1>3, <1>4, <1>5 DEF UpdateUnindexes, SetAdds

\* It takes the user out of the index, before it puts the user back.
LEMMA AtUpdateUnindexes ==
  ASSUME Base, NEW m \in Members, NEW n \in Members, UpdateUnindexes(m, n), Command \/ CommandFails
  PROVE  Base' /\ SetAdds(n)'
<1> DEFINE c == Cmd("srem", m, "none") d == Cmd("zadd", n, "set")
<1>1. cmds = <<c, d>> /\ Saves(n) /\ Plain /\ NoneLeft(UserOf(m)) /\ d \in Commands
  BY CmdType DEF UpdateUnindexes, RedisOps
<1>2. Well /\ cmds' \in Seq(Commands) /\ (Succeeds(c, <<d>>) \/ Fails(c, <<d>>))
  BY <1>1, IssueFacts, ShortSequences
<1>3. zset' = zset /\ (index' = index \/ index' = index \ {UserOf(m)}) /\ cmds' = <<d>>
  BY <1>1, <1>2, UnindexFacts
<1>4. Base'
  BY <1>1, <1>2, <1>3, Fields, Reindexes
<1>5. Saves(n)' /\ Plain'
  BY <1>1, <1>2, <1>3, Stays, PlainStays, PlainUnindexed
<1> QED BY <1>3, <1>4, <1>5 DEF SetAdds

\* What the pass knows of the next occurrence of the member it fires.
LEMMA FiringFacts ==
  ASSUME Base, NEW m \in Members, Firing(m)
  PROVE  /\ Successor(m) \in Members /\ Known(Successor(m)) /\ Successor(m) # m
         /\ Clean(m.id) =>
              \A o \in Of(m.id) : o = m \/ (o = Successor(m) /\ m.rec)
<1>1. m.at <= clock /\ Known(m) /\ clock \in 0 .. Horizon
  BY DEF Firing, Fires, Base, RemindersTypeOK
<1>2. Successor(m) \in Members /\ Known(Successor(m)) /\ Successor(m) # m
  BY <1>1, NextOne, Fields DEF Known
<1>3. ASSUME Clean(m.id), NEW o \in Of(m.id)
      PROVE  o = m \/ (o = Successor(m) /\ m.rec)
  <2>1. m \in zset /\ o \in zset /\ o.id = m.id /\ m.at <= o.at /\ o \in Members
    BY <1>3 DEF Firing, Of, Base, RemindersTypeOK
  <2>2. o = m \/ Link(m, o) \/ Link(o, m)
    BY <1>3, <2>1 DEF Base, Chained
  <2>3. Link(o, m) => o.at < m.at
    BY <2>1, NextOne DEF Link
  <2> QED BY <2>1, <2>2, <2>3, Fields DEF Link
<1> QED BY <1>2, <1>3

\* The pass saves the next occurrence before it removes this one (scheduler.py:533-551).
LEMMA AtFireAdds ==
  ASSUME Base, NEW m \in Members, FireAdds(m), Command \/ CommandFails
  PROVE  Base' /\ (FireIndexes(m)' \/ FireRemoves(m)')
<1> DEFINE s == Successor(m)
           c == Cmd("zadd", s, "none") d == Cmd("zrem", m, "none") e == Cmd("exec", m, "none")
<1>1. /\ cmds = <<c, d, e>> /\ Firing(m) /\ m.rec /\ Indexed({}) /\ Ordered({m})
      /\ loop = "next" /\ m.at <= clock
      /\ d \in Commands /\ e \in Commands
  BY CmdType DEF FireAdds, Firing, Fires, RedisOps
<1>2. /\ s \in Members /\ Known(s) /\ s # m /\ s.id = m.id /\ s.at > m.at /\ UserOf(s) = UserOf(m)
      /\ s.at \in Nat /\ m.at \in Nat /\ m.id \in Rem
      /\ Clean(m.id) => \A o \in Of(m.id) : o = m \/ o = s
  BY <1>1, FiringFacts, NextOne, Fields
<1>3. Well /\ cmds' \in Seq(Commands) /\ (Succeeds(c, <<d, e>>) \/ Fails(c, <<d, e>>))
  BY <1>1, IssueFacts, ShortSequences
<1>6. InTime(s)
  BY <1>1 DEF InTime
<1>4. CASE Succeeds(c, <<d, e>>)
  <2>1. zset' = zset \cup {s} /\ index' = index /\ cmds' = <<Cmd("sadd", s, "none"), d, e>>
    BY <1>1, <1>2, <1>4, AddFacts
  <2>2. Clean(s.id) => /\ s.id \notin cancelled /\ RanBefore(s)
                       /\ \A o \in Of(s.id) :
                            o = s \/ (Link(o, s) /\ UserOf(s) \in index)
    <3> SUFFICES ASSUME Clean(m.id)
                 PROVE  /\ s.id \notin cancelled /\ RanBefore(s)
                        /\ \A o \in Of(s.id) :
                             o = s \/ (Link(o, s) /\ UserOf(s) \in index)
      BY <1>2
    <3>1. m \in zset /\ RanBefore(m)
      BY <1>1 DEF Firing, Fires
    <3>2. s.id \notin cancelled
      BY <1>2, <3>1 DEF Base, CancelHolds, Of, Clean
    <3>3. RanBefore(s)
      <4> SUFFICES ASSUME NEW o \in ran, o[1] = s.id PROVE o[2] < s.at
        BY DEF RanBefore
      <4>1. o[2] < m.at /\ o[2] \in Nat
        BY <1>2, <3>1, Bounds DEF RanBefore, Base, RemindersTypeOK, Times
      <4> QED BY <1>2, <4>1
    <3>4. Link(m, s) /\ UserOf(s) \in index
      BY <1>1, <1>2 DEF Link, Firing
    <3> QED BY <1>2, <3>2, <3>3, <3>4
  <2>4. Base'
    BY <1>2, <1>3, <1>6, <2>1, <2>2, Adds
  <2>5. Clean(s.id) => \A o \in Of(s.id) : o.at <= s.at /\ (o.at < s.at => o \in todo \cup {m})
    BY <1>2
  <2>6. Ordered({m})'
    BY <1>1, <1>2, <1>3, <2>1, <2>5, OrderedAdds
  <2>7. Firing(m)'
    <3>1. /\ \A r : Clean(r)' => Clean(r)
          /\ Fires(m)'
      BY <1>1, <1>3, <1>4 DEF Firing, Fires, Known, RanBefore, Clean, Well, loopVars, history, Succeeds
    <3>2. Clean(m.id)' => /\ m \in zset' /\ UserOf(m) \in index'
                          /\ \A o \in Of(m.id)' : m.at <= o.at
      BY <1>1, <1>2, <2>1, <3>1 DEF Firing, Of
    <3> QED BY <2>6, <3>1, <3>2 DEF Firing
  <2>8. Indexed({s})'
    BY <1>1, <1>4, <2>1 DEF Indexed, Succeeds
  <2> QED BY <1>1, <2>1, <2>4, <2>7, <2>8 DEF FireIndexes
<1>5. CASE Fails(c, <<d, e>>)
  <2>1. /\ zset' = zset \/ zset' = zset \cup {s}
        /\ index' = index /\ cmds' = <<d, e>> /\ mishaps' > 0 /\ m.id \in hurt' /\ hurt \subseteq hurt'
    BY <1>1, <1>2, <1>5, AddFacts
  <2>2. Base'
    BY <1>2, <1>3, <1>6, <2>1, Adds
  <2>3. Ordered({m})'
    BY <1>1, <1>2, <1>3, <2>1, OrderedAdds
  <2>4. Firing(m)'
    BY <1>1, <1>3, <2>1, <2>3 DEF Firing, Fires, Known, Clean, Well, loopVars, history
  <2>5. Indexed({})'
    BY <2>1 DEF Indexed
  <2> QED BY <1>1, <2>1, <2>2, <2>4, <2>5 DEF FireRemoves
<1> QED BY <1>3, <1>4, <1>5

\* The next occurrence is indexed, so removing this one breaks no chain.
LEMMA AtFireIndexes ==
  ASSUME Base, NEW m \in Members, FireIndexes(m), Command \/ CommandFails
  PROVE  Base' /\ FireRemoves(m)'
<1> DEFINE s == Successor(m)
           c == Cmd("sadd", s, "none") d == Cmd("zrem", m, "none") e == Cmd("exec", m, "none")
<1>1. /\ cmds = <<c, d, e>> /\ Firing(m) /\ m.rec /\ Indexed({s}) /\ s \in zset
      /\ d \in Commands /\ e \in Commands
  BY CmdType DEF FireIndexes, RedisOps
<1>2. s \in Members /\ s.id = m.id /\ UserOf(s) = UserOf(m)
  BY <1>1, FiringFacts, NextOne
<1>3. Well /\ cmds' \in Seq(Commands) /\ (Succeeds(c, <<d, e>>) \/ Fails(c, <<d, e>>))
  BY <1>1, IssueFacts, ShortSequences
<1>4. /\ zset' = zset /\ cmds' = <<d, e>>
      /\ index' = index \/ index' = index \cup {UserOf(m)}
      /\ \/ mishaps' > 0 /\ m.id \in hurt'
         \/ mishaps' = mishaps /\ index' = index \cup {UserOf(m)}
  BY <1>1, <1>2, <1>3, IndexFacts
<1>5. Base'
  BY <1>3, <1>4, Fields, Reindexes
<1>6. Firing(m)'
  BY <1>1, <1>3, <1>4, Stays
<1>7. Indexed({})'
  BY <1>1, <1>2, <1>4, Bounds DEF Indexed, Base, RemindersTypeOK
<1> QED BY <1>1, <1>4, <1>5, <1>6, <1>7 DEF FireRemoves, UserOf

\* The pass removes the member it fires; its next occurrence, if any, is saved.
LEMMA AtFireRemoves ==
  ASSUME Base, NEW m \in Members, FireRemoves(m), Command \/ CommandFails
  PROVE  Base' /\ (FireCounts(m)' \/ FireStarts(m)')
<1> DEFINE s == Successor(m) c == Cmd("zrem", m, "none") e == Cmd("exec", m, "none")
<1>1. /\ cmds = <<c, e>> /\ Firing(m) /\ Indexed({}) /\ Ordered({m})
      /\ Fires(m) /\ (Clean(m.id) => m \notin todo)
      /\ c \in Commands /\ e \in Commands
  BY CmdType DEF FireRemoves, Firing, Fires, RedisOps
<1>2. /\ s # m /\ s.id = m.id /\ s.at > m.at /\ m.id \in Rem
      /\ Clean(m.id) => \A o \in Of(m.id) : o = m \/ o = s
  BY <1>1, FiringFacts, NextOne, Fields
<1>3. Well /\ cmds' \in Seq(Commands) /\ (Succeeds(c, <<e>>) \/ Fails(c, <<e>>))
  BY <1>1, IssueFacts, ShortSequences
<1>4. <<e>> # <<>>
  BY ShortSequences
<1>5. (\A r : Clean(r)' => Clean(r)) /\ Fires(m)'
  BY <1>1, <1>3 DEF Fires, Known, RanBefore, Clean, Well, loopVars, history
<1>6. CASE Succeeds(c, <<e>>)
  <2>1. /\ zset' = zset \ {m} /\ index' = index /\ mishaps' = mishaps /\ hurt' = hurt
        /\ cmds' = <<Cmd("zcard", m, "none"), e>> \/ cmds' = <<e>>
    BY <1>1, <1>4, <1>6, RemoveFacts
  <2>2. m.id \in promised => m.id \in hurt \/ \E o \in Of(m.id) : o # m
    BY <1>2 DEF FireRemoves, Of
  <2>3. Base'
    BY <1>1, <1>3, <2>1, <2>2, Drops
  <2>4. Later(m)'
    BY <1>2, <1>5, <2>1 DEF Later, Of
  <2>5. Ordered({})'
    BY <1>1, <1>3, <2>1, OrderedDrops
  <2>6. Indexed({})'
    BY <1>1, <2>1 DEF Indexed
  <2> QED BY <1>5, <2>1, <2>3, <2>4, <2>5, <2>6 DEF FireCounts, FireStarts, Fired, Plain
<1>7. CASE Fails(c, <<e>>)
  <2>1. /\ zset' = zset \/ zset' = zset \ {m}
        /\ index' = index /\ cmds' = <<e>> /\ mishaps' > 0 /\ m.id \in hurt' /\ hurt \subseteq hurt'
    BY <1>1, <1>4, <1>7, RemoveFacts
  <2>2. Base'
    BY <1>1, <1>3, <2>1, Drops
  <2>3. Later(m)'
    BY <2>1 DEF Later, Clean
  <2>4. Ordered({})' /\ Indexed({})'
    BY <1>1, <1>3, <2>1, OrderedDrops DEF Indexed
  <2> QED BY <1>5, <2>1, <2>2, <2>3, <2>4 DEF FireStarts, Fired, Plain
<1> QED BY <1>3, <1>6, <1>7

\* It counts what is left of the user, before the execution.
LEMMA AtFireCounts ==
  ASSUME Base, NEW m \in Members, FireCounts(m), Command \/ CommandFails
  PROVE  Base' /\ (FireUnindexes(m)' \/ FireStarts(m)')
<1> DEFINE c == Cmd("zcard", m, "none") e == Cmd("exec", m, "none")
<1>1. cmds = <<c, e>> /\ Fires(m) /\ Later(m) /\ Plain /\ e \in Commands
  BY CmdType DEF FireCounts, Fired
<1>2. Well /\ cmds' \in Seq(Commands) /\ (Succeeds(c, <<e>>) \/ Fails(c, <<e>>))
  BY <1>1, IssueFacts, ShortSequences
<1>3. /\ zset' = zset /\ index' = index
      /\ \/ cmds' = <<e>>
         \/ cmds' = <<Cmd("srem", m, "none"), e>> /\ (NoneLeft(UserOf(m)) \/ NoneLeft(UserOf(m))')
  BY <1>1, <1>2, CountFacts
<1>4. Base'
  BY <1>2, <1>3, Fields, Reindexes
<1>5. Fired(m)' /\ (NoneLeft(UserOf(m)) => NoneLeft(UserOf(m))')
  BY <1>1, <1>2, <1>3, Stays, PlainStays DEF Fired, UserOf
<1> QED BY <1>3, <1>4, <1>5 DEF FireUnindexes, FireStarts

\* It takes the user out of the index, who has nothing left but hurt reminders.
LEMMA AtFireUnindexes ==
  ASSUME Base, NEW m \in Members, FireUnindexes(m), Command \/ CommandFails
  PROVE  Base' /\ FireStarts(m)'
<1> DEFINE c == Cmd("srem", m, "none") e == Cmd("exec", m, "none")
<1>1. /\ cmds = <<c, e>> /\ Fires(m) /\ Later(m) /\ Plain /\ NoneLeft(UserOf(m))
      /\ e \in Commands
  BY CmdType DEF FireUnindexes, Fired
<1>2. Well /\ cmds' \in Seq(Commands) /\ (Succeeds(c, <<e>>) \/ Fails(c, <<e>>))
  BY <1>1, IssueFacts, ShortSequences
<1>3. zset' = zset /\ (index' = index \/ index' = index \ {UserOf(m)}) /\ cmds' = <<e>>
  BY <1>1, <1>2, UnindexFacts
<1>4. Base'
  BY <1>1, <1>2, <1>3, Fields, Reindexes
<1>5. Fired(m)'
  BY <1>1, <1>2, <1>3, Stays, PlainStays, PlainUnindexed DEF Fired
<1> QED BY <1>3, <1>4, <1>5 DEF FireStarts

\* A command that is issued leads from one place to the next.
LEMMA CommandStep ==
  ASSUME RemindersInv, Command \/ CommandFails
  PROVE  RemindersInv'
<1>1. Base /\ cmds # <<>> /\ Head(cmds).op \in RedisOps
  BY DEF RemindersInv, Command, CommandFails
<1>2. \A n \in Members : ~SetTells(n) /\ ~CancelTells(n) /\ ~FireStarts(n)
  BY <1>1, CmdType, ShortSequences DEF SetTells, CancelTells, FireStarts, RedisOps
<1>3. CASE \E n \in Members : SetAdds(n) \/ SetIndexes(n)
  BY <1>1, <1>3, AtSetAdds, AtSetIndexes DEF RemindersInv, Where
<1>4. CASE \E m \in Members : CancelRemoves(m) \/ CancelCounts(m) \/ CancelUnindexes(m)
  BY <1>1, <1>4, AtCancelRemoves, AtCancelCounts, AtCancelUnindexes DEF RemindersInv, Where
<1>5. CASE \E m, n \in Members : UpdateRemoves(m, n) \/ UpdateCounts(m, n) \/ UpdateUnindexes(m, n)
  BY <1>1, <1>5, AtUpdateRemoves, AtUpdateCounts, AtUpdateUnindexes DEF RemindersInv, Where
<1>6. CASE \E m \in Members : \/ FireAdds(m) \/ FireIndexes(m) \/ FireRemoves(m)
                              \/ FireCounts(m) \/ FireUnindexes(m)
  BY <1>1, <1>6, AtFireAdds, AtFireIndexes, AtFireRemoves, AtFireCounts, AtFireUnindexes
     DEF RemindersInv, Where
<1> QED BY <1>1, <1>2, <1>3, <1>4, <1>5, <1>6 DEF RemindersInv, Where, Idle

-----------------------------------------------------------------------------
(* The other actions                                                       *)

\* No reminder is set and nothing is under way.
LEMMA RemindersStart == ASSUME RemindersInit PROVE RemindersInv
<1>1. RemindersTypeOK
  BY Bounds DEF RemindersInit, RemindersTypeOK
<1>2. /\ Drawn /\ Come /\ Faultless /\ HeldIsKept /\ DoubledIsIndexed /\ Chained /\ Fresh /\ WakesInTime
      /\ ChainKept /\ AtMostOnce /\ CancelHolds
  BY DEF RemindersInit, Drawn, Come, Faultless, HeldIsKept, DoubledIsIndexed, Chained, Fresh, WakesInTime,
         ChainKept, AtMostOnce, CancelHolds
<1>3. Where
  BY DEF RemindersInit, Where, Idle, Plain, Ordered, Indexed
<1> QED BY <1>1, <1>2, <1>3 DEF RemindersInv, Base

\* Only these are at the end of a tool, and of what precedes an execution.
LEMMA HeadOp ==
  ASSUME RemindersInv, cmds # <<>>
  PROVE  /\ Head(cmds).op = "told" => \E n \in Members : SetTells(n) \/ CancelTells(n)
         /\ Head(cmds).op = "exec" => \E m \in Members : FireStarts(m)
<1>1. \A n \in Members : SetAdds(n) \/ SetIndexes(n) => Head(cmds).op \in RedisOps
  BY ShortSequences DEF SetAdds, SetIndexes, Cmd, RedisOps
<1>2. \A n \in Members : SetTells(n) \/ CancelTells(n) => Head(cmds).op = "told"
  BY ShortSequences DEF SetTells, CancelTells, Cmd
<1>3. \A m \in Members : CancelRemoves(m) \/ CancelCounts(m) \/ CancelUnindexes(m)
         => Head(cmds).op \in RedisOps
  BY ShortSequences DEF CancelRemoves, CancelCounts, CancelUnindexes, Cmd, RedisOps
<1>4. \A m, n \in Members : UpdateRemoves(m, n) \/ UpdateCounts(m, n) \/ UpdateUnindexes(m, n)
         => Head(cmds).op \in RedisOps
  BY ShortSequences DEF UpdateRemoves, UpdateCounts, UpdateUnindexes, Cmd, RedisOps
<1>5. \A m \in Members : \/ FireAdds(m) \/ FireIndexes(m) \/ FireRemoves(m)
                         \/ FireCounts(m) \/ FireUnindexes(m)
         => Head(cmds).op \in RedisOps
  BY ShortSequences
     DEF FireAdds, FireIndexes, FireRemoves, FireCounts, FireUnindexes, Cmd, RedisOps
<1>6. \A m \in Members : FireStarts(m) => Head(cmds).op = "exec"
  BY ShortSequences DEF FireStarts, Cmd
<1>7. Where /\ ~Idle /\ "told" \notin RedisOps /\ "exec" \notin RedisOps
  BY DEF RemindersInv, Idle, RedisOps
<1> QED BY <1>1, <1>2, <1>3, <1>4, <1>5, <1>6, <1>7 DEF Where

\* The user reads that the reminder is set, or cancelled.
LEMMA ConfirmStep == ASSUME RemindersInv, Confirm PROVE RemindersInv'
<1> USE DEF redisVars, loopVars
<1>1. PICK n \in Members : SetTells(n) \/ CancelTells(n)
  BY HeadOp DEF Confirm
<1>2. /\ Base /\ Plain /\ Known(n) /\ n.id \in Rem
      /\ Head(cmds).m = n /\ cmds' = <<>>
      /\ Head(cmds).told = "set" \/ Head(cmds).told = "cancelled"
      /\ Head(cmds).told = "set" => n.id \in hurt \/ (Of(n.id) # {} /\ Owner[n.id] \in index)
      /\ Head(cmds).told = "cancelled" => Removed(n)
  <2>1. CASE SetTells(n)
    <3>1. Head(cmds) = Cmd("told", n, "set") /\ Tail(cmds) = <<>>
      BY <2>1, ShortSequences DEF SetTells
    <3>2. Head(cmds).m = n /\ Head(cmds).told = "set"
      BY <3>1 DEF Cmd
    <3>3. n.id \in hurt \/ (Of(n.id) # {} /\ Owner[n.id] \in index)
      BY <2>1 DEF SetTells, Of, UserOf
    <3> QED BY <2>1, <3>1, <3>2, <3>3, Fields DEF Confirm, RemindersInv, SetTells
  <2>2. CASE CancelTells(n)
    <3>1. Head(cmds) = Cmd("told", n, "cancelled") /\ Tail(cmds) = <<>>
      BY <2>2, ShortSequences DEF CancelTells
    <3>2. Head(cmds).m = n /\ Head(cmds).told = "cancelled"
      BY <3>1 DEF Cmd
    <3> QED BY <2>2, <3>1, <3>2, Fields DEF Confirm, RemindersInv, CancelTells, Removed
  <2> QED BY <1>1, <2>1, <2>2
<1>3. /\ promised' = promised \/ (promised' = promised \cup {n.id} /\ Head(cmds).told = "set")
      /\ cancelled' = cancelled \/ (cancelled' = cancelled \cup {n.id} /\ Head(cmds).told = "cancelled")
  BY <1>2 DEF Confirm
<1>4. RemindersTypeOK'
  <2>1. cmds' \in Seq(Commands)
    BY <1>2
  <2> QED BY <1>2, <1>3, <2>1 DEF Base, RemindersTypeOK, Confirm
<1>5. /\ Come' /\ Faultless' /\ HeldIsKept' /\ DoubledIsIndexed' /\ Chained' /\ Fresh' /\ WakesInTime'
      /\ AtMostOnce'
  BY <1>2 DEF Base, Confirm, Come, Faultless, HeldIsKept, DoubledIsIndexed, Chained, Fresh, WakesInTime,
              AtMostOnce, Clean, RanBefore, InTime, Occurrence, Link
<1>6. Drawn'
  BY <1>2, <1>3 DEF Base, Confirm, Drawn, Known
<1>7. ChainKept'
  BY <1>2, <1>3 DEF Base, Confirm, ChainKept, Of
<1>8. CancelHolds'
  BY <1>2, <1>3 DEF Base, Confirm, CancelHolds, Removed, Of, Clean
<1>9. Plain'
  BY <1>2 DEF Plain, Ordered, Indexed, Clean, Confirm
<1> QED BY <1>2, <1>4, <1>5, <1>6, <1>7, <1>8, <1>9 DEF RemindersInv, Base, Where, Idle

\* The execution that starts is of an occurrence later than any before it.
LEMMA ExecuteStep == ASSUME RemindersInv, Execute PROVE RemindersInv'
<1> USE DEF redisVars, loopVars
<1>1. PICK m \in Members : FireStarts(m)
  BY HeadOp DEF Execute
<1> DEFINE o == <<m.id, m.at>>
<1>2. /\ Base /\ Plain /\ Fires(m) /\ Later(m) /\ Known(m) /\ m.at <= clock
      /\ o = Occurrence(Head(cmds).m) /\ o \in Rem \X Times /\ o[1] = m.id /\ o[2] = m.at
      /\ cmds' = <<>> /\ cmds' \in Seq(Commands)
  BY <1>1, Fields, ShortSequences
     DEF Execute, RemindersInv, FireStarts, Fired, Fires, Cmd, Occurrence
<1> HIDE DEF o
<1>3. /\ ran' = ran \cup {o}
      /\ reran' = reran \/ (reran' = reran \cup {o} /\ o \in ran)
  BY <1>2 DEF Execute
<1>4. RemindersTypeOK'
  BY <1>2, <1>3 DEF Base, RemindersTypeOK, Execute
<1>5. /\ Faultless' /\ HeldIsKept' /\ DoubledIsIndexed' /\ Chained' /\ WakesInTime'
      /\ ChainKept' /\ CancelHolds'
  BY <1>2 DEF Base, Execute, Faultless, HeldIsKept, DoubledIsIndexed, Chained, WakesInTime,
              ChainKept, CancelHolds, Clean, InTime, Occurrence, Link, Of
<1>6. Drawn' /\ Come'
  BY <1>2, <1>3 DEF Base, Execute, Drawn, Come, Known
<1>7. Fresh'
  <2> SUFFICES ASSUME NEW n \in zset, Clean(n.id), NEW p \in ran \cup {o}, p[1] = n.id
               PROVE  p[2] < n.at
    BY <1>3 DEF Fresh, RanBefore, Clean, Execute
  <2>1. CASE p \in ran
    BY <1>2, <2>1 DEF Base, Fresh, RanBefore
  <2>2. CASE p = o
    BY <1>2, <2>2 DEF Later, Of
  <2> QED BY <2>1, <2>2
<1>8. AtMostOnce'
  <2>1. o \in ran => ~Clean(m.id)
    BY <1>2, Fields DEF Fires, RanBefore
  <2> QED BY <1>2, <1>3, <2>1 DEF Base, AtMostOnce, Clean, Execute
<1>9. Plain'
  BY <1>2 DEF Plain, Ordered, Indexed, Clean, Execute, Fires
<1> QED BY <1>2, <1>4, <1>5, <1>6, <1>7, <1>8, <1>9 DEF RemindersInv, Base, Where, Idle

\* What a tool's first step leaves of the invariant: it writes no member, forgets
\* what was promised, and may count as racing with the pass.
LEMMA ToolKeeps ==
  ASSUME Base, UNCHANGED <<clock, redisVars, loopVars, mishaps, cancelled, ran, reran, hurt>>,
         cmds' \in Seq(Commands), edits' \in 0 .. MaxEdits, unset' \subseteq unset,
         promised' \subseteq promised, raced \subseteq raced', raced' \subseteq Rem
  PROVE  /\ Base'
         /\ \A x : Ordered(x) => Ordered(x)'
         /\ \A x : Indexed(x) => Indexed(x)'
<1> USE DEF redisVars, loopVars
<1>1. RemindersTypeOK'
  BY DEF Base, RemindersTypeOK
<1>2. /\ \A r : Clean(r)' => Clean(r)
      /\ \A m, n : Link(m, n)' <=> Link(m, n)
      /\ \A m : (RanBefore(m)' <=> RanBefore(m)) /\ (InTime(m)' <=> InTime(m))
      /\ \A r : Of(r)' = Of(r)
  BY DEF Clean, Link, RanBefore, InTime, Occurrence, Of
<1>3. /\ Drawn' /\ Come' /\ Faultless' /\ HeldIsKept' /\ DoubledIsIndexed' /\ Chained' /\ Fresh'
      /\ WakesInTime'
  BY <1>2 DEF Base, Drawn, Come, Faultless, HeldIsKept, DoubledIsIndexed, Chained, Fresh, WakesInTime
<1>4. ChainKept' /\ AtMostOnce' /\ CancelHolds'
  BY <1>2 DEF Base, ChainKept, AtMostOnce, CancelHolds
<1>5. \A x : Ordered(x) => Ordered(x)'
  BY <1>2 DEF Ordered
<1>6. \A x : Indexed(x) => Indexed(x)'
  BY DEF Indexed
<1> QED BY <1>1, <1>3, <1>4, <1>5, <1>6 DEF Base

\* A tool starts between two synchronous parts of the loop.
LEMMA FreeMeans ==
  ASSUME RemindersInv, Free
  PROVE  Base /\ Plain /\ Awake /\ cmds = <<>> /\ clock \in Nat /\ clock < MaxTrigger
<1>1. cmds = <<>>
  BY DEF Free
<1>2. Plain
  BY <1>1, ShortSequences
     DEF RemindersInv, Where, Idle, SetAdds, SetIndexes, SetTells, CancelRemoves, CancelCounts,
         CancelUnindexes, CancelTells, UpdateRemoves, UpdateCounts, UpdateUnindexes,
         FireAdds, FireIndexes, FireRemoves, FireCounts, FireUnindexes, FireStarts
<1> QED BY <1>1, <1>2, Bounds DEF RemindersInv, Free, Awake, Base, RemindersTypeOK

\* A member for a time to come waits less than the longest sleep.
LEMMA FutureInTime ==
  ASSUME Base, NEW n \in Members, n.at > clock
  PROVE  InTime(n) /\ RanBefore(n)
<1>1. /\ clock \in Nat /\ n.at \in Nat /\ MaxSleep \in Nat /\ wake \in 0 .. clock + MaxSleep
      /\ \A o \in ran : o[2] \in Nat /\ o[2] <= clock
  BY Bounds, Fields DEF Base, RemindersTypeOK, Times, Come
<1>2. InTime(n)
  BY <1>1 DEF Base, InTime, Occurrence
<1>3. RanBefore(n)
  BY <1>1 DEF RanBefore
<1> QED BY <1>2, <1>3

\* A reminder set now has a new id and a time to come (reminder_ops.py).
LEMMA SetReminderStep == ASSUME RemindersInv, SetReminder PROVE RemindersInv'
<1> USE DEF redisVars, loopVars, history
<1>1. PICK r \in unset, rec \in BOOLEAN, at \in clock + 1 .. MaxTrigger :
        /\ Free /\ unset' = unset \ {r}
        /\ cmds' = Save([id |-> r, at |-> at, rec |-> rec, ver |-> 0], "set")
        /\ UNCHANGED <<clock, redisVars, loopVars, edits, mishaps, history, hurt>>
  BY DEF SetReminder
<1> DEFINE n == [id |-> r, at |-> at, rec |-> rec, ver |-> 0]
<1>2. Base /\ Plain /\ Awake /\ clock \in Nat
  BY <1>1, FreeMeans
<1>3. n \in Members /\ n.id = r /\ n.at > clock /\ r \in Rem
  BY <1>1, <1>2, Bounds DEF Members, Times, Base, RemindersTypeOK
<1> HIDE DEF n
<1>4. cmds' = <<Cmd("zadd", n, "set")>> /\ cmds' \in Seq(Commands)
  BY <1>1, <1>3, CmdType DEF Save, n, RedisOps
<1>5. Base' /\ Plain'
  BY <1>1, <1>2, <1>4, ToolKeeps DEF Plain, Base, RemindersTypeOK
<1>6. Saves(n)'
  <2>1. Of(r) = {} /\ NotHeld(r) /\ r \notin cancelled /\ r \notin promised
    BY <1>1, <1>2 DEF Base, Drawn, Of, NotHeld
  <2>2. InTime(n) /\ RanBefore(n)
    BY <1>2, <1>3, FutureInTime
  <2> QED BY <1>1, <1>2, <1>3, <2>1, <2>2 DEF Saves, Awake, Known, InTime, Occurrence, RanBefore, NotHeld, Of
<1> QED BY <1>3, <1>4, <1>5, <1>6 DEF RemindersInv, Where, SetAdds

\* The member a tool is about to remove is the only one of its reminder, or the
\* edit races with the pass.
LEMMA RaceFacts ==
  ASSUME Base, Plain, Awake, NEW m \in zset, Race(m.id), promised' = promised \ {m.id},
         UNCHANGED <<redisVars, loopVars, hurt>>
  PROVE  Removes(m)' /\ raced \subseteq raced' /\ raced' \subseteq Rem
<1>1. m.id \in Rem
  BY Fields DEF Base, RemindersTypeOK
<1>2. raced \subseteq raced' /\ raced' \subseteq Rem
  BY <1>1 DEF Race, Base, RemindersTypeOK
<1>3. Clean(m.id)' => ~Held(m.id)
  BY DEF Clean, Race
<1>4. ASSUME Clean(m.id), ~Held(m.id), NEW o \in Of(m.id) PROVE o = m
  <2>1. /\ o \in zset /\ o \in Members /\ m \in Members /\ o.id = m.id
        /\ m \notin todo /\ o \notin todo
    BY <1>4 DEF Of, Held, Base, RemindersTypeOK
  <2>2. ~(m.at < o.at) /\ ~(o.at < m.at)
    BY <1>4, <2>1 DEF Plain, Ordered, Awake
  <2>3. ~Link(m, o) /\ ~Link(o, m)
    BY <2>1, <2>2, NextOne DEF Link
  <2> QED BY <1>4, <2>1, <2>3 DEF Base, Chained
<1>5. Clean(m.id)' => Clean(m.id) /\ Of(m.id) = {m} /\ NotHeld(m.id)
  BY <1>2, <1>3, <1>4 DEF Clean, Of, Held, NotHeld
<1> QED BY <1>2, <1>5 DEF Removes, Awake, Of, NotHeld, redisVars, loopVars

\* A cancellation that does not race finds the only member of its reminder.
LEMMA CancelStep == ASSUME RemindersInv, CancelReminder PROVE RemindersInv'
<1>1. PICK r \in Rem, m \in zset :
        /\ Free /\ First(r, m)
        /\ cmds' = RemoveMember(m, "cancelled")
        /\ promised' = promised \ {r} /\ Race(r)
        /\ UNCHANGED <<clock, redisVars, loopVars, edits, mishaps, unset, cancelled, ran, reran, hurt>>
  BY DEF CancelReminder
<1>2. Base /\ Plain /\ Awake /\ m \in Members /\ r = m.id
  BY <1>1, FreeMeans DEF Base, RemindersTypeOK, First, Of
<1>3. cmds' = <<Cmd("zrem", m, "cancelled")>> /\ cmds' \in Seq(Commands)
  BY <1>1, <1>2, CmdType DEF RemoveMember, RedisOps
<1>4. Removes(m)' /\ raced \subseteq raced' /\ raced' \subseteq Rem
  BY <1>1, <1>2, RaceFacts
<1>5. Base' /\ Plain'
  BY <1>1, <1>2, <1>3, <1>4, ToolKeeps DEF Plain, Base, RemindersTypeOK
<1> QED BY <1>2, <1>3, <1>4, <1>5 DEF RemindersInv, Where, CancelRemoves

\* So does an edit; what it saves instead is of the same time or of one to come.
LEMMA UpdateStep == ASSUME RemindersInv, UpdateReminder PROVE RemindersInv'
<1>1. PICK r \in Rem, m \in zset :
        /\ Free /\ First(r, m) /\ edits < MaxEdits
        /\ \E n \in Edited(m) : cmds' = RemoveMember(m, "none") \o Save(n, "set")
        /\ edits' = edits + 1
        /\ promised' = promised \ {r} /\ Race(r)
        /\ UNCHANGED <<clock, redisVars, loopVars, mishaps, unset, cancelled, ran, reran, hurt>>
  BY DEF UpdateReminder
<1>2. /\ Base /\ Plain /\ Awake /\ m \in Members /\ r = m.id /\ clock \in Nat
      /\ edits \in 0 .. MaxEdits
  BY <1>1, FreeMeans DEF Base, RemindersTypeOK, First, Of
<1>3. PICK n \in Edited(m) : cmds' = RemoveMember(m, "none") \o Save(n, "set")
  BY <1>1
<1>4. n \in Members /\ n.id = m.id /\ (n.at = m.at \/ n.at > clock)
  BY <1>2, Bounds DEF Edited
<1>5. cmds' = <<Cmd("zrem", m, "none"), Cmd("zadd", n, "set")>> /\ cmds' \in Seq(Commands)
  <2> DEFINE c == Cmd("zrem", m, "none") d == Cmd("zadd", n, "set")
  <2>1. c \in Commands /\ d \in Commands /\ cmds' = <<c>> \o <<d>>
    BY <1>2, <1>3, <1>4, CmdType DEF RemoveMember, Save, RedisOps
  <2> HIDE DEF c, d
  <2>2. cmds' = <<c, d>>
    BY <2>1, Tuples
  <2>3. <<c, d>> \in Seq(Commands)
    BY <2>1
  <2> QED BY <2>2, <2>3 DEF c, d
<1>6. Removes(m)' /\ raced \subseteq raced' /\ raced' \subseteq Rem
  BY <1>1, <1>2, RaceFacts
<1>7. Base' /\ Plain'
  <2>1. edits' \in 0 .. MaxEdits
    BY <1>1, <1>2, Bounds
  <2> QED BY <1>1, <1>2, <1>5, <1>6, <2>1, ToolKeeps DEF Plain
<1>8. InTime(n) /\ (Clean(n.id) => RanBefore(n)) /\ Known(n)
  <2>1. CASE n.at > clock
    BY <1>1, <1>2, <1>4, <2>1, FutureInTime DEF Base, Drawn, Known
  <2>2. CASE n.at = m.at
    BY <1>1, <1>2, <1>4, <2>2 DEF Base, Drawn, Known, Fresh, WakesInTime, InTime, Occurrence, RanBefore
  <2> QED BY <1>4, <2>1, <2>2
<1>9. Replaces(m, n)'
  BY <1>1, <1>4, <1>6, <1>8 DEF Replaces, InTime, Occurrence, RanBefore, Known, Clean, loopVars
<1> QED BY <1>2, <1>4, <1>5, <1>7, <1>9 DEF RemindersInv, Where, UpdateRemoves

\* Nothing is under way when no command is to come.
LEMMA IdleMeans ==
  ASSUME RemindersInv, cmds = <<>>
  PROVE  Base /\ Plain
BY ShortSequences
   DEF RemindersInv, Where, Idle, SetAdds, SetIndexes, SetTells, CancelRemoves, CancelCounts,
       CancelUnindexes, CancelTells, UpdateRemoves, UpdateCounts, UpdateUnindexes,
       FireAdds, FireIndexes, FireRemoves, FireCounts, FireUnindexes, FireStarts

\* A pass reads the earlier one of two members as due, or it counts as failed.
LEMMA ReadStep == ASSUME RemindersInv, ReadDue \/ ReadDueFails PROVE RemindersInv'
<1> USE DEF redisVars, history
<1>1. /\ cmds = <<>> /\ cmds' = <<>> /\ loop' = "next" /\ unseen' = {}
      /\ UNCHANGED <<clock, redisVars, wake, edits, unset, history>>
      /\ \/ todo' = Due /\ hurt' = hurt /\ mishaps' = mishaps
         \/ /\ todo' = {} /\ hurt' = hurt \cup Doubled
            /\ mishaps < MaxMishaps /\ mishaps' = mishaps + 1
  BY DEF ReadDue, ReadDueFails, Mishap
<1>2. Base /\ Plain /\ clock \in Nat /\ mishaps \in Nat
  BY <1>1, IdleMeans, Bounds DEF Base, RemindersTypeOK
<1>3. \A m \in todo' : m \in zset /\ m.at <= clock /\ UserOf(m) \in index
  BY <1>1 DEF Due
<1>4. RemindersTypeOK'
  BY <1>1, <1>2, <1>3, Bounds DEF Base, RemindersTypeOK, Doubled
<1>5. /\ \A r : Clean(r)' => Clean(r)
      /\ \A m, n : Link(m, n)' <=> Link(m, n)
      /\ \A m : (RanBefore(m)' <=> RanBefore(m)) /\ InTime(m)'
      /\ \A r : Of(r)' = Of(r)
  BY <1>1 DEF Clean, Link, RanBefore, InTime, Occurrence, Of
<1>6. /\ Drawn' /\ Come' /\ HeldIsKept' /\ DoubledIsIndexed' /\ Chained' /\ Fresh'
      /\ WakesInTime'
  BY <1>1, <1>2, <1>3, <1>5
     DEF Base, Drawn, Come, HeldIsKept, DoubledIsIndexed, Chained, Fresh, WakesInTime
<1>7. Faultless' /\ ChainKept' /\ AtMostOnce' /\ CancelHolds'
  BY <1>1, <1>2, <1>5 DEF Base, Faultless, ChainKept, AtMostOnce, CancelHolds
<1>8. Ordered({})'
  <2> SUFFICES ASSUME NEW m \in zset, NEW n \in zset, Clean(m.id)', m.id = n.id, m.at < n.at
               PROVE  m \in todo'
    BY <1>1 DEF Ordered
  <2>1. m \in Members /\ n \in Members /\ m.at \in Nat /\ n.at \in Nat /\ m # n
    BY <1>2, Fields DEF Base, RemindersTypeOK
  <2>2. m.id \notin Doubled \/ todo' = Due
    BY <1>1 DEF Clean
  <2>3. m.id \in Doubled
    BY <2>1, Fields DEF Doubled, Of
  <2>4. ~Link(n, m)
    BY <2>1, NextOne DEF Link
  <2>5. m.at <= clock
    BY <1>2, <1>5, <2>1, <2>4 DEF Base, Chained, Link
  <2>6. UserOf(m) \in index
    BY <1>2, <1>5 DEF Base, DoubledIsIndexed
  <2> QED BY <2>2, <2>3, <2>5, <2>6 DEF Due
<1>9. Indexed({})'
  BY <1>1, <1>2 DEF Plain, Indexed
<1> QED BY <1>1, <1>4, <1>6, <1>7, <1>8, <1>9 DEF RemindersInv, Base, Where, Idle, Plain

\* The member whose turn it is is the earliest of its reminder that is left.
LEMMA FireStep == ASSUME RemindersInv, Fire PROVE RemindersInv'
<1> USE DEF redisVars
<1>1. PICK m \in todo :
        /\ loop = "next" /\ cmds = <<>> /\ Turn(m)
        /\ todo' = todo \ {m} /\ cmds' = FireJob(m)
        /\ promised' = IF m.rec THEN promised ELSE promised \ {m.id}
        /\ UNCHANGED <<clock, redisVars, loop, wake, unseen, edits, mishaps, unset,
                       cancelled, ran, reran, raced, hurt>>
  BY DEF Fire
<1>2. Base /\ Plain
  BY <1>1, IdleMeans
<1>3. /\ m \in Members /\ Known(m) /\ m.at <= clock /\ clock \in 0 .. Horizon
      /\ Clean(m.id) => m \in zset /\ UserOf(m) \in index /\ RanBefore(m)
      /\ m.id \in Rem
  BY <1>2, Fields DEF Base, RemindersTypeOK, Drawn, Known, Come, HeldIsKept, DoubledIsIndexed, Fresh
<1> DEFINE s == Successor(m)
           c == Cmd("zadd", s, "none") d == Cmd("zrem", m, "none") e == Cmd("exec", m, "none")
<1>4. s \in Members /\ c \in Commands /\ d \in Commands /\ e \in Commands
  BY <1>3, NextOne, CmdType DEF RedisOps
<1>5. /\ m.rec => cmds' = <<c, d, e>>
      /\ ~m.rec => cmds' = <<d, e>>
  <2>1. cmds' = (IF m.rec THEN <<c>> ELSE <<>>) \o <<d>> \o <<e>>
    BY <1>1 DEF FireJob, Save, RemoveMember
  <2> HIDE DEF s, c, d, e
  <2>2. <<c>> \o <<d>> = <<c, d>> /\ <<c, d>> \o <<e>> = <<c, d, e>>
    BY <1>4, Tuples
  <2>3. <<>> \o <<d>> = <<d>> /\ <<d>> \o <<e>> = <<d, e>>
    BY <1>4, Tuples
  <2> QED BY <2>1, <2>2, <2>3
<1>6. cmds' \in Seq(Commands)
  <2> HIDE DEF s, c, d, e
  <2>1. <<c, d, e>> \in Seq(Commands) /\ <<d, e>> \in Seq(Commands)
    BY <1>4
  <2> QED BY <1>5, <2>1
<1>7. RemindersTypeOK'
  BY <1>1, <1>2, <1>6 DEF Base, RemindersTypeOK
<1>8. /\ \A r : Clean(r)' <=> Clean(r)
      /\ \A a, b : Link(a, b)' <=> Link(a, b)
      /\ \A a : (RanBefore(a)' <=> RanBefore(a)) /\ (InTime(a)' <=> InTime(a))
      /\ \A r : Of(r)' = Of(r)
      /\ promised' \subseteq promised
  BY <1>1 DEF Clean, Link, RanBefore, InTime, Occurrence, Of
<1>9. Drawn' /\ Come' /\ HeldIsKept' /\ DoubledIsIndexed' /\ Chained' /\ Fresh' /\ WakesInTime'
  BY <1>1, <1>2, <1>8
     DEF Base, Drawn, Come, HeldIsKept, DoubledIsIndexed, Chained, Fresh, WakesInTime
<1>10. Faultless' /\ ChainKept' /\ AtMostOnce' /\ CancelHolds'
  BY <1>1, <1>2, <1>8
     DEF Base, RemindersTypeOK, Faultless, ChainKept, AtMostOnce, CancelHolds
<1>11. Ordered({m})' /\ Indexed({})'
  BY <1>1, <1>2, <1>8 DEF Plain, Ordered, Indexed
<1>12. ASSUME Clean(m.id), NEW o \in Of(m.id) PROVE m.at <= o.at
  <2>1. m \in zset /\ o \in zset /\ o \in Members /\ o.id = m.id
    BY <1>2, <1>3, <1>12 DEF Of, Base, RemindersTypeOK
  <2>2. m.at \in Nat /\ o.at \in Nat
    BY <1>3, <2>1, Fields
  <2>3. CASE o = m
    BY <2>2, <2>3
  <2>4. CASE Link(m, o)
    BY <1>3, <2>2, <2>4, NextOne DEF Link
  <2>5. CASE Link(o, m)
    <3>1. o.at < m.at
      BY <2>1, <2>5, NextOne DEF Link
    <3>2. o \in todo
      BY <1>1, <1>2, <1>12, <2>1, <3>1 DEF Plain, Ordered
    <3> QED BY <1>1, <2>1, <3>2 DEF Turn, UserOf
  <2> QED BY <1>2, <1>12, <2>1, <2>3, <2>4, <2>5 DEF Base, Chained
<1>13. Firing(m)'
  BY <1>1, <1>3, <1>8, <1>11, <1>12 DEF Firing, Fires, Known
<1>14. m.rec \in BOOLEAN
  BY <1>3, Fields
<1> QED BY <1>1, <1>3, <1>5, <1>7, <1>9, <1>10, <1>11, <1>13, <1>14
    DEF RemindersInv, Base, Where, FireAdds, FireRemoves

\* The pass goes on when an execution is over.
LEMMA ExecutedStep == ASSUME RemindersInv, Executed PROVE RemindersInv'
<1> USE DEF redisVars, history
<1>1. cmds = <<>> /\ cmds' = <<>> /\ loop' = "next" /\ Base /\ Plain
  BY IdleMeans DEF Executed
<1>2. /\ RemindersTypeOK' /\ Drawn' /\ Come' /\ Faultless' /\ HeldIsKept' /\ DoubledIsIndexed' /\ Chained' /\ Fresh'
      /\ WakesInTime' /\ ChainKept' /\ AtMostOnce' /\ CancelHolds'
  BY <1>1 DEF Executed, Base, RemindersTypeOK, Drawn, Come, Faultless, HeldIsKept, DoubledIsIndexed, Chained, Fresh,
       WakesInTime, ChainKept, AtMostOnce, CancelHolds,
       Clean, Link, RanBefore, InTime, Occurrence, Of
<1>3. Plain'
  BY <1>1 DEF Executed, Plain, Ordered, Indexed, Clean
<1> QED BY <1>1, <1>2, <1>3 DEF RemindersInv, Base, Where, Idle

\* A set of times that is not empty has a first one.
LEMMA Earliest ==
  ASSUME NEW S \in SUBSET Nat, S # {}
  PROVE  \E a \in S : \A b \in S : a <= b
<1>1. PICK a \in S : \A b \in S : ~(<<b, a>> \in OpToRel(<, Nat))
  BY NatLessThanWellFounded, WFMin
<1>2. ASSUME NEW b \in S PROVE a <= b
  <2>1. a \in Nat /\ b \in Nat
    OBVIOUS
  <2>2. b < a => <<b, a>> \in OpToRel(<, Nat)
    BY <2>1 DEF OpToRel
  <2>3. ~(b < a)
    BY <1>1, <2>2, Zenon
  <2> QED BY <2>1, <2>3
<1> QED BY <1>2

\* The loop falls asleep until the nearest trigger it could read, or for the
\* longest sleep.
LEMMA SleepStep == ASSUME RemindersInv, Sleep PROVE RemindersInv'
<1> USE DEF redisVars, history
<1>1. PICK read \in SUBSET index :
        /\ loop = "next" /\ cmds = <<>> /\ todo = {}
        /\ (read = index /\ UNCHANGED mishaps) \/ (read # index /\ Mishap)
        /\ loop' = "sleep"
        /\ wake' = WakeAt({m.at : m \in {n \in zset : UserOf(n) \in read}})
        /\ unseen' = {Occurrence(m) :
                        m \in {n \in zset : UserOf(n) \notin read /\ n.at <= clock}}
        /\ UNCHANGED <<clock, redisVars, todo, cmds, edits, unset, history, hurt>>
  BY DEF Sleep
<1> DEFINE nearest == {m.at : m \in {n \in zset : UserOf(n) \in read}}
<1>2. Base /\ Plain
  BY <1>1, IdleMeans
<1>3. /\ clock \in Nat /\ clock <= Horizon /\ Horizon \in Nat /\ MaxSleep \in Nat \ {0}
      /\ zset \subseteq Members /\ mishaps \in 0 .. MaxMishaps
  BY <1>2, Bounds DEF Base, RemindersTypeOK
<1>4. nearest \in SUBSET Nat
  BY <1>3, Fields
<1>5. mishaps' \in 0 .. MaxMishaps /\ (mishaps' = 0 => mishaps = 0)
  BY <1>1, <1>3, Bounds DEF Mishap
<1>6. /\ wake' \in Nat /\ wake' <= clock + MaxSleep
      /\ \A a \in nearest : wake' <= clock \/ wake' <= a
  <2> HIDE DEF nearest
  <2>0. wake' = WakeAt(nearest)
    BY <1>1 DEF nearest
  <2>1. CASE nearest = {}
    BY <1>3, <2>0, <2>1 DEF WakeAt
  <2>2. CASE nearest # {}
    <3> DEFINE t == CHOOSE a \in nearest : \A b \in nearest : a <= b
    <3>1. t \in nearest /\ \A b \in nearest : t <= b
      BY <1>4, <2>2, Earliest
    <3>2. wake' = IF t < clock THEN clock
                  ELSE IF t > clock + MaxSleep THEN clock + MaxSleep ELSE t
      BY <2>0, <2>2 DEF WakeAt
    <3> HIDE DEF t
    <3> QED BY <1>3, <1>4, <3>1, <3>2
  <2> QED BY <2>1, <2>2
<1>7. RemindersTypeOK'
  <2>1. wake' \in 0 .. clock + MaxSleep
    BY <1>3, <1>6
  <2>2. unseen' \subseteq Rem \X Times
    BY <1>1, <1>3, Fields DEF Occurrence
  <2> QED BY <1>1, <1>2, <1>5, <2>1, <2>2 DEF Base, RemindersTypeOK
<1>8. WakesInTime'
  <2> SUFFICES ASSUME NEW m \in zset, ~(wake' <= clock), ~(wake' - m.at < MaxSleep)
               PROVE  Occurrence(m) \in unseen'
    BY <1>1 DEF WakesInTime, InTime, Occurrence
  <2>1. m.at \in Nat
    BY <1>3, Fields
  <2>2. UserOf(m) \notin read
    <3> SUFFICES ASSUME UserOf(m) \in read PROVE FALSE
      OBVIOUS
    <3>1. m.at \in nearest
      OBVIOUS
    <3>2. wake' <= m.at
      BY <1>6, <3>1
    <3> HIDE DEF nearest
    <3> QED BY <1>3, <1>6, <2>1, <3>2
  <2>3. m.at <= clock
    BY <1>3, <1>6, <2>1
  <2> QED BY <1>1, <2>2, <2>3
<1>9. /\ Drawn' /\ Come' /\ Faultless' /\ HeldIsKept' /\ DoubledIsIndexed' /\ Chained' /\ Fresh'
      /\ ChainKept' /\ AtMostOnce' /\ CancelHolds'
  BY <1>1, <1>2, <1>5 DEF Base, Drawn, Come, Faultless, HeldIsKept, DoubledIsIndexed, Chained, Fresh,
     ChainKept, AtMostOnce, CancelHolds, Clean, Link, RanBefore, Of
<1>10. Plain'
  BY <1>1, <1>2, <1>5 DEF Plain, Ordered, Indexed, Clean
<1> QED BY <1>1, <1>7, <1>8, <1>9, <1>10 DEF RemindersInv, Base, Where, Idle

\* A death loses what the process held, and no member.
LEMMA CrashStep == ASSUME RemindersInv, Crash PROVE RemindersInv'
<1> USE DEF redisVars, history
<1>1. /\ loop' = "down" /\ todo' = {} /\ unseen' = {} /\ cmds' = <<>>
      /\ mishaps' \in 1 .. MaxMishaps
      /\ UNCHANGED <<clock, redisVars, wake, edits, unset, history, hurt>>
      /\ Base
  BY Bounds DEF Crash, Mishap, RemindersInv, Base, RemindersTypeOK
<1>2. RemindersTypeOK'
  <2>1. cmds' \in Seq(Commands)
    BY <1>1
  <2>2. mishaps' \in 0 .. MaxMishaps
    BY <1>1, Bounds
  <2> QED BY <1>1, <2>1, <2>2 DEF Base, RemindersTypeOK
<1>3. /\ Drawn' /\ Come' /\ Faultless' /\ HeldIsKept' /\ DoubledIsIndexed' /\ Chained' /\ Fresh'
      /\ WakesInTime' /\ ChainKept' /\ AtMostOnce' /\ CancelHolds'
  BY <1>1 DEF Base, Drawn, Come, Faultless, HeldIsKept, DoubledIsIndexed, Chained, Fresh, WakesInTime,
       ChainKept, AtMostOnce, CancelHolds, Clean, Link, RanBefore, InTime, Occurrence, Of
<1>4. Plain'
  BY <1>1 DEF Plain, Ordered, Indexed
<1> QED BY <1>1, <1>2, <1>3, <1>4 DEF RemindersInv, Base, Where, Idle

\* A process that is down has nothing under way.
LEMMA RestartStep == ASSUME RemindersInv, Restart PROVE RemindersInv'
<1> USE DEF redisVars, history
<1>1. /\ cmds = <<>> /\ todo = {} /\ loop' = "boot"
      /\ UNCHANGED <<clock, redisVars, wake, unseen, todo, cmds, edits, mishaps, unset, history, hurt>>
  BY ShortSequences DEF Restart, RemindersInv, Base, Come, Where, Idle,
       SetAdds, SetIndexes, SetTells, CancelRemoves, CancelCounts,
       CancelUnindexes, CancelTells, UpdateRemoves, UpdateCounts, UpdateUnindexes,
       FireAdds, FireIndexes, FireRemoves, FireCounts, FireUnindexes, FireStarts,
       Saves, Removes, Removed, Replaces, Fired, Firing, Fires, Awake
<1>2. Base /\ Plain
  BY <1>1, IdleMeans
<1>3. /\ RemindersTypeOK' /\ Drawn' /\ Come' /\ Faultless' /\ HeldIsKept' /\ DoubledIsIndexed' /\ Chained' /\ Fresh'
      /\ WakesInTime' /\ ChainKept' /\ AtMostOnce' /\ CancelHolds'
  BY <1>1, <1>2 DEF Base, RemindersTypeOK, Drawn, Come, Faultless, HeldIsKept, DoubledIsIndexed, Chained, Fresh,
       WakesInTime, ChainKept, AtMostOnce, CancelHolds,
       Clean, Link, RanBefore, InTime, Occurrence, Of
<1>4. Plain'
  BY <1>1, <1>2 DEF Plain, Ordered, Indexed, Clean
<1> QED BY <1>1, <1>3, <1>4 DEF RemindersInv, Base, Where, Idle

\* Time passes.
LEMMA ClockStep == ASSUME RemindersInv, ClockTicks PROVE RemindersInv'
<1> USE DEF redisVars, loopVars, history
<1>1. /\ cmds = <<>> /\ clock' = clock + 1 /\ clock < Horizon
      /\ UNCHANGED <<redisVars, loopVars, cmds, edits, mishaps, unset, history, hurt>>
      /\ Base /\ Plain
  BY IdleMeans DEF ClockTicks
<1>2. clock \in Nat /\ clock' \in 0 .. Horizon /\ wake \in Nat /\ MaxSleep \in Nat
  BY <1>1, Bounds DEF Base, RemindersTypeOK
<1>3. RemindersTypeOK'
  BY <1>1, <1>2 DEF Base, RemindersTypeOK
<1>4. /\ \A m \in zset \cup todo : m.at \in Nat
      /\ \A o \in ran : o[2] \in Nat
  BY <1>1, Fields, Bounds DEF Base, RemindersTypeOK, Times
<1>5. Come'
  BY <1>1, <1>2, <1>4 DEF Base, Come
<1>6. Chained'
  <2>1. \A m \in zset : \A n : Link(m, n) => Link(m, n)'
    BY <1>1, <1>2, <1>4 DEF Link
  <2> QED BY <1>1, <2>1 DEF Base, Chained, Clean
<1>7. WakesInTime'
  BY <1>1, <1>2 DEF Base, WakesInTime, InTime, Occurrence
<1>8. /\ Drawn' /\ Faultless' /\ HeldIsKept' /\ DoubledIsIndexed' /\ Fresh'
      /\ ChainKept' /\ AtMostOnce' /\ CancelHolds'
  BY <1>1 DEF Base, Drawn, Faultless, HeldIsKept, DoubledIsIndexed, Fresh, ChainKept, AtMostOnce, CancelHolds,
       Clean, RanBefore, Of
<1>9. Plain'
  BY <1>1 DEF Plain, Ordered, Indexed, Clean
<1> QED BY <1>1, <1>3, <1>5, <1>6, <1>7, <1>8, <1>9 DEF RemindersInv, Base, Where, Idle

\* Every step keeps the invariant: one lemma per action, one per command of Where.
LEMMA RemindersStep == ASSUME RemindersInv, [RemindersNext]_reminderVars PROVE RemindersInv'
<1>1. CASE Command \/ CommandFails
  BY <1>1, CommandStep
<1>2. CASE Tools \/ Confirm
  BY <1>2, SetReminderStep, CancelStep, UpdateStep, ConfirmStep DEF Tools
<1>3. CASE Loop
  BY <1>3, ReadStep, FireStep, ExecuteStep, ExecutedStep, SleepStep DEF Loop
<1>4. CASE Crash \/ Restart \/ ClockTicks
  BY <1>4, CrashStep, RestartStep, ClockStep
<1>5. CASE UNCHANGED reminderVars
  <2> USE <1>5 DEF reminderVars, redisVars, loopVars, history
  <2>1. Base'
    BY DEF RemindersInv, Base, RemindersTypeOK, Drawn, Come, Faultless, HeldIsKept, DoubledIsIndexed, Chained, Fresh,
         WakesInTime, ChainKept, AtMostOnce, CancelHolds,
         Clean, Link, RanBefore, InTime, Occurrence, Of
  <2>2. Where'
    <3>1. (Plain' <=> Plain) /\ (Awake' <=> Awake) /\ UNCHANGED cmds
      BY DEF Plain, Ordered, Indexed, Clean, Awake
    <3>2. \A x : (Ordered(x)' <=> Ordered(x)) /\ (Indexed(x)' <=> Indexed(x))
                  /\ (NoneLeft(x)' <=> NoneLeft(x))
      BY DEF Ordered, Indexed, Clean, NoneLeft, Of
    <3>3. \A m : /\ (Known(m)' <=> Known(m)) /\ (Saves(m)' <=> Saves(m)) /\ (Removes(m)' <=> Removes(m))
                 /\ (Removed(m)' <=> Removed(m)) /\ (Fires(m)' <=> Fires(m)) /\ (Later(m)' <=> Later(m))
                 /\ \A n : Replaces(m, n)' <=> Replaces(m, n)
      BY DEF Known, Saves, Removes, Removed, Fires, Later, Replaces, Awake, InTime, Occurrence, Clean, Of,
             NotHeld, RanBefore
    <3>4. \A m : (Firing(m)' <=> Firing(m)) /\ (Fired(m)' <=> Fired(m))
      BY <3>1, <3>2, <3>3 DEF Firing, Fired, Clean, Of
    <3>5. \A n : (SetAdds(n)' <=> SetAdds(n)) /\ (SetIndexes(n)' <=> SetIndexes(n)) /\ (SetTells(n)' <=> SetTells(n))
      BY <3>1, <3>2, <3>3 DEF SetAdds, SetIndexes, SetTells
    <3>6. \A m : /\ (CancelRemoves(m)' <=> CancelRemoves(m)) /\ (CancelCounts(m)' <=> CancelCounts(m))
                 /\ (CancelUnindexes(m)' <=> CancelUnindexes(m)) /\ (CancelTells(m)' <=> CancelTells(m))
      BY <3>1, <3>2, <3>3 DEF CancelRemoves, CancelCounts, CancelUnindexes, CancelTells, UserOf
    <3>7. \A m, n : /\ (UpdateRemoves(m, n)' <=> UpdateRemoves(m, n))
                    /\ (UpdateCounts(m, n)' <=> UpdateCounts(m, n))
                    /\ (UpdateUnindexes(m, n)' <=> UpdateUnindexes(m, n))
      BY <3>1, <3>2, <3>3 DEF UpdateRemoves, UpdateCounts, UpdateUnindexes, UserOf
    <3>8. \A m : /\ (FireAdds(m)' <=> FireAdds(m)) /\ (FireIndexes(m)' <=> FireIndexes(m))
                 /\ (FireRemoves(m)' <=> FireRemoves(m)) /\ (FireCounts(m)' <=> FireCounts(m))
                 /\ (FireUnindexes(m)' <=> FireUnindexes(m)) /\ (FireStarts(m)' <=> FireStarts(m))
      BY <3>1, <3>2, <3>4 DEF FireAdds, FireIndexes, FireRemoves, FireCounts, FireUnindexes, FireStarts, UserOf
    <3>9. Idle' <=> Idle
      BY <3>1 DEF Idle
    <3> QED BY <3>5, <3>6, <3>7, <3>8, <3>9 DEF RemindersInv, Where
  <2> QED BY <2>1, <2>2 DEF RemindersInv
<1> QED BY <1>1, <1>2, <1>3, <1>4, <1>5 DEF RemindersNext, Issue

\* Every reachable state has the right types and the process is at one of the
\* places of Where, with what its next command relies on.
THEOREM RemindersInvariant == RemindersSpec => []RemindersInv
<1>1. RemindersInit => RemindersInv
  BY RemindersStart
<1>2. RemindersInv /\ [RemindersNext]_reminderVars => RemindersInv'
  BY RemindersStep
<1> QED BY <1>1, <1>2, PTL DEF RemindersSpec

\* The types of the reminders' state; in particular what was executed twice had
\* been executed (scheduler.py:533-560).
THEOREM RemindersTyped == RemindersSpec => []RemindersTypeOK
<1>1. RemindersInv => RemindersTypeOK
  BY DEF RemindersInv, Base
<1> QED BY <1>1, RemindersInvariant, PTL

\* A confirmed reminder that is still owed has a member and an indexed owner,
\* whatever dies between the commands of the loop (scheduler.py:533-556), unless
\* a command about it failed.
THEOREM RemindersKeepTheirChain == RemindersSpec => []ChainKept
<1>1. RemindersInv => ChainKept
  BY DEF RemindersInv, Base
<1> QED BY <1>1, RemindersInvariant, PTL

\* No occurrence is executed twice, however many passes and processes see it
\* (scheduler.py:533-560), unless its reminder was edited while a pass held it or
\* a command about it failed.
THEOREM RemindersRunOnce == RemindersSpec => []AtMostOnce
<1>1. RemindersInv => AtMostOnce
  BY DEF RemindersInv, Base
<1> QED BY <1>1, RemindersInvariant, PTL

\* What the user was told is cancelled (reminder_ops.py:512) has no member left,
\* under the same conditions.
THEOREM CancellationsHold == RemindersSpec => []CancelHolds
<1>1. RemindersInv => CancelHolds
  BY DEF RemindersInv, Base
<1> QED BY <1>1, RemindersInvariant, PTL

\* The sleeping loop wakes less than the longest sleep after any trigger it sleeps
\* through (scheduler.py:613-627), whatever is set, edited or put back meanwhile and
\* whatever dies or fails, but for what was due already and could not be read when
\* it fell asleep.
THEOREM SleepIsShort == RemindersSpec => []LateUnderASleep
<1>1. RemindersInv => LateUnderASleep
  <2> SUFFICES ASSUME Base, loop = "sleep", clock < wake, NEW m \in Due
               PROVE  Occurrence(m) \in unseen \/ wake - m.at < MaxSleep
    BY DEF RemindersInv, LateUnderASleep
  <2>1. clock \in Nat /\ wake \in Nat /\ m \in zset
    BY Bounds DEF Base, RemindersTypeOK, Due
  <2>2. ~(wake <= clock)
    BY <2>1
  <2> QED BY <2>1, <2>2 DEF Base, WakesInTime, InTime
<1> QED BY <1>1, RemindersInvariant, PTL
=============================================================================
