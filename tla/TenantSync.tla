----------------------------- MODULE TenantSync -----------------------------
(***************************************************************************)
(* How the containers agree on the tenants added in the dashboard          *)
(* (app/services/tenant_sync.py): the configuration is kept in Redis, read *)
(* when a container starts, and every change is announced in a queue that  *)
(* the running containers read as a whole each minute, going by the time   *)
(* stamp of the last announcement they have seen, of whatever tenant.      *)
(* A configuration is a number, its version; 0 is "no such tenant".  What  *)
(* an announcement tells of it counts as the whole of it.                  *)
(* Redis: a command that fails answers nothing and raises nothing, so the  *)
(* next one follows it all the same.  publish_tenant_update sends GET, SET *)
(* and RPUSH one by one, and two containers can do so at once; within one  *)
(* container nothing else runs in between, for it never awaits.            *)
(***************************************************************************)
EXTENDS Naturals, Sequences, FiniteSets

CONSTANTS Containers, Tenants,
          MaxQueue,   \* _MAX_QUEUE_LEN
          MaxChanges, \* bound: changes of the configuration
          MaxSyncCrashes  \* bound: deaths of a container

VARIABLES
  cfg,     \* tenant_cfg in Redis
  queue,   \* the announcements: [ts, by, tenant, ver]
  writes,  \* the changes made so far: each is a version
  clock,   \* the time: the changes stamped so far
  running, \* the containers' state: "down" "loaded" "on"
  reg,     \* their registries
  mark,    \* their _last_processed_ts
  looked,  \* what an update has found in Redis: [tenant, seen], or Nothing
  draft,   \* what a container has sent to Redis and not stamped: [tenant, ver], or Nothing
  change,  \* the announcement it is about to push, or Nothing
  syncCrashes,
  behind   \* history: what a container will not learn before it restarts

syncVars == <<cfg, queue, writes, clock, running, reg, mark, looked, draft, change, syncCrashes, behind>>

ASSUME SyncConstants == MaxQueue \in Nat \ {0} /\ MaxChanges \in Nat /\ MaxSyncCrashes \in Nat

Versions == 0 .. MaxChanges
Changes == [ts: 1 .. MaxChanges, by: Containers, tenant: Tenants, ver: Versions]
Drafts == [tenant: Tenants, ver: Versions]
Looks == [tenant: Tenants, seen: Versions]
Nothing == [ts |-> 0]

SyncTypeOK ==
  /\ cfg \in [Tenants -> Versions]
  /\ queue \in Seq(Changes)
  /\ writes \in 0 .. MaxChanges /\ clock \in 0 .. MaxChanges
  /\ running \in [Containers -> {"down", "loaded", "on"}]
  /\ reg \in [Containers -> [Tenants -> Versions]]
  /\ mark \in [Containers -> 0 .. MaxChanges]
  /\ looked \in [Containers -> Looks \cup {Nothing}]
  /\ draft \in [Containers -> Drafts \cup {Nothing}]
  /\ change \in [Containers -> Changes \cup {Nothing}]
  /\ syncCrashes \in 0 .. MaxSyncCrashes
  /\ behind \subseteq Containers \X Tenants

SyncInit ==
  /\ cfg = [t \in Tenants |-> 0] /\ queue = <<>> /\ writes = 0 /\ clock = 0
  /\ running = [c \in Containers |-> "on"]
  /\ reg = [c \in Containers |-> [t \in Tenants |-> 0]]
  /\ mark = [c \in Containers |-> 0]
  /\ looked = [c \in Containers |-> Nothing] /\ draft = looked /\ change = looked
  /\ syncCrashes = 0 /\ behind = {}

Queued == {queue[i] : i \in DOMAIN queue}
Pending(c, t) == \E m \in Queued : m.tenant = t /\ m.ts > mark[c]

Busy(c) == looked[c] # Nothing \/ draft[c] # Nothing \/ change[c] # Nothing

\* One of D has yet to stamp the announcement of what Redis has.
Owed(t, D) == \E d \in D : draft[d] # Nothing /\ draft[d].tenant = t /\ draft[d].ver = cfg[t]

-----------------------------------------------------------------------------
(* publish_tenant_update                                                   *)

\* who edits or removes a tenant knows it or finds it in Redis
Editable(c, t) == reg[c][t] # 0 \/ cfg[t] # 0

\* an update reads what there is; a failed GET looks like no configuration
LookUp(c, t) ==
  /\ running[c] = "on" /\ ~Busy(c) /\ Editable(c, t) /\ writes < MaxChanges
  /\ \E seen \in {0, cfg[t]} : looked' = [looked EXCEPT ![c] = [tenant |-> t, seen |-> seen]]
  /\ UNCHANGED <<cfg, queue, writes, clock, running, reg, mark, draft, change, syncCrashes, behind>>

\* The SET or DEL of the configuration, if it is sent at all: done or failed.
Put(c, t, ver, sent) ==
  /\ writes < MaxChanges /\ writes' = writes + 1
  /\ \E done \in {FALSE, sent} : cfg' = IF done THEN [cfg EXCEPT ![t] = ver] ELSE cfg
  /\ draft' = [draft EXCEPT ![c] = [tenant |-> t, ver |-> ver]]
  /\ looked' = [looked EXCEPT ![c] = Nothing]
  /\ UNCHANGED <<queue, clock, running, reg, mark, change, syncCrashes>>

AddOrRemove(c, t, adds) ==
  /\ running[c] = "on" /\ ~Busy(c) /\ (adds \/ Editable(c, t))
  /\ Put(c, t, IF adds THEN writes + 1 ELSE 0, TRUE)
  /\ UNCHANGED behind

\* An update changes what it has read, and overwrites what another container
\* has made of it since; it writes nothing where it has read nothing.
Update(c) ==
  LET t == looked[c].tenant
      seen == looked[c].seen
  IN
  /\ looked[c] # Nothing
  /\ Put(c, t, writes + 1, seen # 0)
  /\ behind' = IF seen # cfg[t] /\ cfg' # cfg THEN behind \cup (Containers \X {t}) ELSE behind

\* The announcement gets its time, whatever has become of the SET.  It is then
\* too late for a container between loading and listening.
Stamp(c) ==
  LET t == draft[c].tenant
      ver == draft[c].ver
  IN
  /\ draft[c] # Nothing /\ draft' = [draft EXCEPT ![c] = Nothing]
  /\ clock < MaxChanges /\ clock' = clock + 1
  /\ change' = [change EXCEPT ![c] = [ts |-> clock + 1, by |-> c, tenant |-> t, ver |-> ver]]
  /\ behind' = behind \cup
       (IF Owed(t, Containers \ {c}) THEN {}
        ELSE {d \in Containers : ver # cfg[t] \/ (running[d] = "loaded" /\ reg[d][t] # cfg[t])}) \X {t}
  /\ UNCHANGED <<cfg, queue, writes, running, reg, mark, looked, syncCrashes>>

\* The tenants with a change stamped before m that will be announced after it:
\* who polls in between is past it.
Overtaken(m) ==
  {change[d].tenant : d \in {e \in Containers : change[e] # Nothing /\ change[e].ts < m.ts}}

\* The dashboard and the tools register the tenant in their own container or not.
Registers(c, own) == reg' = IF own THEN [reg EXCEPT ![c][change[c].tenant] = change[c].ver] ELSE reg

\* RPUSH and LTRIM, which can fail: then everything there is stays.  The
\* announcement does not make up for what the container has not registered,
\* nor for an older one, not polled yet, that it will apply over it.
Push(c, own, room) ==
  LET m == change[c]
      all == Append(queue, m)
      kept == SubSeq(all, IF Len(all) > room THEN Len(all) - room + 1 ELSE 1, Len(all))
      lost == {n \in Queued : \A i \in DOMAIN kept : kept[i] # n}
  IN
  /\ m # Nothing
  /\ queue' = kept
  /\ Registers(c, own)
  /\ change' = [change EXCEPT ![c] = Nothing]
  /\ behind' = behind
       \cup (IF own /\ ~Pending(c, m.tenant) THEN {} ELSE {<<c, m.tenant>>})
       \cup (Containers \X Overtaken(m))
       \cup {b \in Containers \X Tenants : \E n \in lost : n.tenant = b[2] /\ mark[b[1]] < n.ts}
  /\ UNCHANGED <<cfg, writes, clock, running, mark, looked, draft, syncCrashes>>

\* The RPUSH fails: nobody is told.
PushFails(c, own) ==
  /\ change[c] # Nothing
  /\ change' = [change EXCEPT ![c] = Nothing]
  /\ Registers(c, own)
  /\ behind' = behind \cup (Containers \X {change[c].tenant})
  /\ UNCHANGED <<cfg, queue, writes, clock, running, mark, looked, draft, syncCrashes>>

-----------------------------------------------------------------------------
(* _poll_loop                                                              *)

\* Mutant of NewMark: the mark is the time of the poll.
NewMarkNow(m) == clock

NewMark(m) == m.ts

\* _process_message: what the mark has passed is skipped, the container's own
\* announcements move the mark only
Processed(c, s, m) ==
  IF m.ts <= s.mark THEN s
  ELSE [mark |-> NewMark(m),
        reg |-> IF m.by = c THEN s.reg ELSE [s.reg EXCEPT ![m.tenant] = m.ver]]

After(c) ==
  LET f[i \in 0 .. Len(queue)] ==
        IF i = 0 THEN [mark |-> mark[c], reg |-> reg[c]] ELSE Processed(c, f[i - 1], queue[i])
  IN f[Len(queue)]

Poll(c) ==
  /\ running[c] = "on" /\ ~Busy(c)
  /\ queue # <<>>
  /\ mark' = [mark EXCEPT ![c] = After(c).mark]
  /\ reg' = [reg EXCEPT ![c] = After(c).reg]
  /\ UNCHANGED <<cfg, queue, writes, clock, running, looked, draft, change, syncCrashes, behind>>

-----------------------------------------------------------------------------
(* Restarts                                                                *)

\* a change that Redis has and nobody has announced stays unknown
SyncCrash(c) ==
  /\ running[c] # "down" /\ running' = [running EXCEPT ![c] = "down"]
  /\ syncCrashes < MaxSyncCrashes /\ syncCrashes' = syncCrashes + 1
  /\ looked' = [looked EXCEPT ![c] = Nothing]
  /\ draft' = [draft EXCEPT ![c] = Nothing]
  /\ change' = [change EXCEPT ![c] = Nothing]
  /\ behind' = behind \cup
       (Containers \X {t \in Tenants : Owed(t, {c}) \/ (change[c] # Nothing /\ change[c].tenant = t)})
  /\ UNCHANGED <<cfg, queue, writes, clock, reg, mark>>

\* load_persisted_tenants: a failed SCAN or GET leaves tenants out
Load(c, missing) ==
  /\ running[c] = "down" /\ running' = [running EXCEPT ![c] = "loaded"]
  /\ reg' = [reg EXCEPT ![c] = [t \in Tenants |-> IF t \in missing THEN 0 ELSE cfg[t]]]
  /\ behind' = {b \in behind : b[1] # c} \cup ({c} \X {t \in missing : cfg[t] # 0})
  /\ UNCHANGED <<cfg, queue, writes, clock, mark, looked, draft, change, syncCrashes>>

\* later in the startup: what was announced by now is taken to be known
Listen(c) ==
  /\ running[c] = "loaded" /\ running' = [running EXCEPT ![c] = "on"]
  /\ mark' = [mark EXCEPT ![c] = clock]
  /\ UNCHANGED <<cfg, queue, writes, clock, reg, looked, draft, change, syncCrashes, behind>>

-----------------------------------------------------------------------------
SyncNext == \E c \in Containers :
  \/ \E t \in Tenants : LookUp(c, t) \/ \E adds \in BOOLEAN : AddOrRemove(c, t, adds)
  \/ Update(c) \/ Stamp(c)
  \/ \E own \in BOOLEAN : PushFails(c, own) \/ \E room \in {MaxQueue, Len(queue) + 1} : Push(c, own, room)
  \/ Poll(c) \/ SyncCrash(c)
  \/ \E missing \in SUBSET Tenants : Load(c, missing)
  \/ Listen(c)

SyncSpec == SyncInit /\ [][SyncNext]_syncVars

-----------------------------------------------------------------------------
(* Properties                                                              *)

Underway(t) ==
  Owed(t, Containers) \/ \E c \in Containers : change[c] # Nothing /\ change[c].tenant = t

\* A container that has polled knows the configuration that is in Redis, unless
\* it missed a change for one of the reasons the code has.  The announcement did
\* not tell what Redis has: its SET or DEL failed, an update found or read
\* nothing, or two containers wrote and announced in opposite order, or updated
\* what the other was changing.  Or it did not come: the RPUSH failed, the
\* container died first, the queue was trimmed, the mark was past it because a
\* later one came first, it was stamped while the container was between loading
\* and listening.  Or the container did not register its own change, or too
\* early.  Or its load left the tenant out
\* (tenant_sync.py:154-201, 226-233, 275-285, 318, 338).
InStep ==
  \A c \in Containers, t \in Tenants :
    running[c] = "on" /\ ~Pending(c, t) /\ ~Underway(t) /\ <<c, t>> \notin behind
      => reg[c][t] = cfg[t]
=============================================================================
