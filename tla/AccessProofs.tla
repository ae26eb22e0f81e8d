----------------------------- MODULE AccessProofs -----------------------------
(***************************************************************************)
(* Proofs about what users are granted: their Feishu tokens, the bots they *)
(* ask for, the containers these run in and the configurations these share.*)
(* The four components share no state.                                     *)
(*                                                                         *)
(* OAuthTokens: with any number of threads, authorisations and restarts, a *)
(* refresh token that Feishu has exchanged is sent again only if its       *)
(* successor was lost, or Redis left with it.  The lock leaves one thread  *)
(* between the second look at its object and the end of its write (Alone). *)
(* So a spent token is in an object only while that thread is about to     *)
(* store its successor (SpentObjects), which no object holds yet (Fresh).  *)
(* The newest snapshot is that of memory, or someone has changed memory    *)
(* and is yet to take one (NewestGood); one that has a newer behind it     *)
(* waits for that (OldHasNew); and Redis is right, on record as left       *)
(* behind, or about to be written with what is (SavedGood).                *)
(*                                                                         *)
(* Provisioning: for any requests, containers and quotas, the quota is     *)
(* charged for instances only, and the status of a request tells what      *)
(* became of it, but for the overlapping and the broken reviews the        *)
(* property names.  A request that has had no such review is under one     *)
(* review at most (OneReview), is pending as long as it is, and has        *)
(* nothing made for it when that review is going to reject it (Undecided). *)
(*                                                                         *)
(* Instances: for any bots, corps and ports and any mishaps, two instances *)
(* share a port only if one is a ghost, and between operations the route   *)
(* of a bot that is not loose leads to its home.  What provision is going  *)
(* to register has a free port and lives alone (Founded); a container that *)
(* runs unregistered is a ghost or about to be registered (GhostsKnown);   *)
(* an owner lives at home (Owner) and whoever is not loose in one home at  *)
(* most (OneHome); and a route agrees with it unless the operation under   *)
(* way is about to write it, or has taken it away (Routed, OnItsWay).      *)
(*                                                                         *)
(* TenantSync: for any containers, tenants, queue length and crashes, a    *)
(* container that is not behind for one of the reasons in the code and has *)
(* nothing left to poll has the configuration that is in Redis.  The       *)
(* newest change it has still to learn tells what Redis has (Newest) or    *)
(* the one who wrote that has yet to announce it (Right, Owed), no newer   *)
(* one is announced before it (InTurn), and what the container has         *)
(* announced itself is not preceded by what it would yet apply over it     *)
(* (OwnFirst).  What a poll makes of the queue is a recursive function     *)
(* over its places: what is claimed of it is shown by a least              *)
(* counterexample (UpTo).                                                  *)
(***************************************************************************)
EXTENDS OAuthTokens, Provisioning, Instances, TenantSync, FiniteSetTheorems, SequenceTheorems,
        WellFoundedInduction, TLAPS

-----------------------------------------------------------------------------
(* OAuthTokens                                                             *)

Inside(h) == thread[h].at \in {"send", "store", "refused", "save"}
Objects == [Ids -> [rt: 0 .. MaxTokens, good: BOOLEAN]]

Alone ==
  /\ \A h \in Threads : Inside(h) => lock
  /\ \A h, k \in Threads : Inside(h) /\ Inside(k) => h = k

\* Identifiers are given out in order.
Fresh ==
  /\ spent \subseteq 1 .. issued /\ saved <= issued
  /\ \A k \in Savers : writing[k].rt <= issued
  /\ \A i \in Ids : objects[i].rt # 0 => objects[i].rt <= issued /\ i <= issued
  /\ token # 0 => token \in Ids /\ objects[token].rt # 0
  /\ \A h \in Threads : thread[h].at \notin {"idle", "save"} =>
       thread[h].obj \in Ids /\ objects[thread[h].obj].rt # 0
  /\ \A h \in Threads : thread[h].at = "store" =>
       /\ thread[h].rt \in 1 .. issued /\ thread[h].rt \notin spent
       /\ \A i \in Ids : objects[i].rt # thread[h].rt

Distinct == \A i, j \in Ids : objects[i].rt # 0 /\ objects[i].rt = objects[j].rt => i = j

Stores(h, i) == thread[h].at = "store" /\ thread[h].obj = i

SpentObjects ==
  \A i \in Ids : objects[i].rt \in spent => objects[i].rt \in lost \/ \E h \in Threads : Stores(h, i)

\* a token that a restart would send again, although nothing is known to be lost
Spoilt(v) ==
  /\ v \in spent /\ v \notin lost
  /\ \A h \in Threads : thread[h].at = "store" => objects[thread[h].obj].rt # v

Asked == \E k \in Savers : writing[k].at = "ask"

SaversInside == \A h \in Threads : writing[h].at # "no" => thread[h].at = "save"
NewestGood ==
  \A k \in Savers : writing[k].at = "new" =>
    Asked \/ (writing[k].rt = Current /\ ~Spoilt(writing[k].rt))
OldHasNew ==
  (\E k \in Savers : writing[k].at = "old") => \E k \in Savers : writing[k].at = "new"
SavedGood ==
  /\ Spoilt(saved) => Coming
  /\ ~outdated => saved = Current \/ Coming

Writes == SaversInside /\ NewestGood /\ OldHasNew /\ SavedGood

OAuthInv == OAuthTypeOK /\ RefreshOnce /\ Alone /\ Fresh /\ Distinct /\ SpentObjects /\ Writes

ThreadRecs == [at: {"idle", "wait", "send", "store", "refused", "save"}, obj: 0 .. MaxTokens, rt: 0 .. MaxTokens]
WriteRecs == [at: {"no", "ask", "new", "old", "late"}, rt: 0 .. MaxTokens]

-----------------------------------------------------------------------------
LEMMA ThreadTypes ==
  ASSUME OAuthTypeOK
  PROVE  /\ thread \in [Threads -> ThreadRecs] /\ objects \in Objects /\ writing \in [Savers -> WriteRecs]
         /\ Idle \in ThreadRecs /\ Idle.at = "idle"
         /\ NoWrite \in WriteRecs /\ NoWrite.at = "no" /\ NoWrite.rt = 0
         /\ [at |-> "ask", rt |-> 0] \in WriteRecs
         /\ [Idle EXCEPT !.at = "save"] \in ThreadRecs
BY OAuthConstants DEF OAuthTypeOK, ThreadRecs, WriteRecs, Idle, NoWrite, Objects

LEMMA OAuthStarts == ASSUME OAuthInit PROVE OAuthInv
<1>1. OAuthTypeOK
  <2>1. objects \in [Ids -> [rt: 0 .. MaxTokens, good: BOOLEAN]]
    BY OAuthConstants DEF OAuthInit, Ids
  <2>2. thread \in [Threads -> ThreadRecs]
    BY OAuthConstants DEF OAuthInit, Idle, ThreadRecs
  <2>3. writing \in [Savers -> WriteRecs]
    BY OAuthConstants DEF OAuthInit, NoWrite, WriteRecs
  <2>4. \A h \in {spent, resent, lost} : h \subseteq Ids
    BY DEF OAuthInit
  <2>5. lock \in BOOLEAN /\ dead \in BOOLEAN /\ outdated \in BOOLEAN /\ valid \subseteq Ids
    BY DEF OAuthInit
  <2>6. token \in 0 .. MaxTokens /\ saved \in 0 .. MaxTokens /\ issued \in 0 .. MaxTokens
        /\ oauthFaults \in 0 .. MaxOAuthFaults /\ oauthCrashes \in 0 .. MaxOAuthCrashes
    BY OAuthConstants DEF OAuthInit
  <2> QED BY <2>1, <2>2, <2>3, <2>4, <2>5, <2>6 DEF OAuthTypeOK, ThreadRecs, WriteRecs
<1>2. /\ \A h \in Threads : thread[h].at = "idle"
      /\ \A k \in Savers : writing[k].at = "no" /\ writing[k].rt = 0
      /\ \A i \in Ids : objects[i].rt = 0
  BY <1>1, ThreadTypes DEF OAuthInit, Savers
<1>3. RefreshOnce /\ Alone /\ Fresh /\ Distinct /\ SpentObjects
  BY <1>2 DEF OAuthInit, RefreshOnce, Alone, Inside, Fresh, Distinct, SpentObjects, Ids
<1>4. Writes
  BY <1>2 DEF OAuthInit, Writes, SaversInside, NewestGood, OldHasNew, SavedGood, Spoilt, Current, Savers
<1> QED BY <1>1, <1>3, <1>4 DEF OAuthInv

-----------------------------------------------------------------------------
(* Those who save                                                          *)

\* Who has changed memory has yet to take a snapshot of it, so nothing of what is
\* in Redis or on its way there need be right.
LEMMA AskedFor ==
  ASSUME OAuthInv, NEW k \in Savers, Saves(k), writing[k].at = "no",
         \A h \in Threads : IF h = k THEN thread'[h].at = "save" ELSE thread'[h] = thread[h]
  PROVE  Writes' /\ writing' \in [Savers -> WriteRecs]
         /\ \A j \in Savers : writing'[j].rt = 0 \/ writing'[j] = writing[j]
<1>1. PICK new : new = [at |-> "ask", rt |-> 0]
  OBVIOUS
<1>2. new \in WriteRecs /\ new.at = "ask" /\ new.rt = 0
  BY <1>1, ThreadTypes DEF OAuthInv
<1>3. /\ writing' \in [Savers -> WriteRecs]
      /\ \A j \in Savers : writing'[j] = IF j = k THEN new ELSE writing[j]
  BY <1>1, <1>2, ThreadTypes DEF OAuthInv, Saves
<1>4. Asked' /\ Coming'
  BY <1>2, <1>3 DEF Asked, Coming
<1>5. SaversInside'
  <2> SUFFICES ASSUME NEW h \in Threads, writing'[h].at # "no" PROVE thread'[h].at = "save"
    BY DEF SaversInside
  <2>1. CASE h = k
    BY <2>1
  <2>2. CASE h # k
    BY <2>2, <1>3 DEF OAuthInv, Writes, SaversInside, Savers
  <2> QED BY <2>1, <2>2
<1>6. OldHasNew'
  <2>1. \A j \in Savers : writing'[j].at = "old" => writing[j].at = "old"
    BY <1>2, <1>3
  <2>2. \A j \in Savers : writing[j].at = "new" => writing'[j].at = "new"
    BY <1>3
  <2> QED BY <2>1, <2>2 DEF OAuthInv, Writes, OldHasNew
<1> QED BY <1>2, <1>3, <1>4, <1>5, <1>6 DEF Writes, NewestGood, SavedGood

\* Steps that leave alone what is saved and being saved, and spoil nothing.
LEMMA WritesStay ==
  ASSUME OAuthInv, UNCHANGED <<writing, saved, outdated>>, Current' = Current,
         \A h \in Threads : thread[h].at = "save" => thread'[h].at = "save",
         \A v : Spoilt(v)' => Spoilt(v)
  PROVE  Writes'
<1>1. SaversInside' /\ OldHasNew' /\ (Asked' <=> Asked) /\ (Coming' <=> Coming)
  BY DEF OAuthInv, Writes, SaversInside, OldHasNew, Asked, Coming
<1>2. NewestGood'
  <2> SUFFICES ASSUME NEW k \in Savers, writing[k].at = "new", ~Asked
               PROVE  writing[k].rt = Current /\ ~Spoilt(writing[k].rt)'
    BY <1>1 DEF NewestGood
  <2>1. writing[k].rt = Current /\ ~Spoilt(writing[k].rt)
    BY DEF OAuthInv, Writes, NewestGood
  <2>2. PICK v : v = writing[k].rt
    OBVIOUS
  <2>3. ~Spoilt(v)'
    BY <2>1, <2>2
  <2> QED BY <2>1, <2>2, <2>3 DEF Spoilt
<1>3. SavedGood'
  <2>1. Spoilt(saved)' => Spoilt(saved)
    BY DEF Spoilt
  <2> QED BY <1>1, <2>1 DEF OAuthInv, Writes, SavedGood
<1> QED BY <1>1, <1>2, <1>3 DEF Writes

\* The newest snapshot is right, and has yet to be written (oauth_store.py:107-114).
LEMMA SnapshotStep == ASSUME OAuthInv, NEW k \in Savers, Snapshot(k) PROVE OAuthInv'
<1>1. /\ writing[k].at = "ask"
      /\ UNCHANGED <<token, objects, thread, lock, saved, issued, valid, dead, oauthFaults, oauthCrashes,
                     spent, resent, lost, outdated>>
  BY DEF Snapshot
<1>2. Current \in 0 .. MaxTokens /\ Current <= issued /\ ~Spoilt(Current) /\ issued \in Nat
  <2>1. issued \in Nat /\ token \in 0 .. MaxTokens /\ 0 \notin spent
    BY OAuthConstants DEF OAuthInv, OAuthTypeOK, Ids
  <2>2. CASE token = 0
    BY <2>1, <2>2, OAuthConstants DEF Current, Spoilt
  <2>3. CASE token # 0
    <3>1. token \in Ids /\ objects[token].rt \in 0 .. MaxTokens /\ objects[token].rt <= issued
      BY <2>3, ThreadTypes DEF OAuthInv, Fresh, Objects
    <3>2. ~Spoilt(objects[token].rt)
      BY <3>1 DEF OAuthInv, SpentObjects, Stores, Spoilt
    <3> QED BY <2>1, <2>3, <3>1, <3>2 DEF Current
  <2> QED BY <2>1, <2>2, <2>3
<1>3. PICK new : new = [at |-> "new", rt |-> Current]
  OBVIOUS
<1>4. new \in WriteRecs /\ new.at = "new" /\ new.rt = Current
  BY <1>2, <1>3 DEF WriteRecs
<1>5. /\ writing' \in [Savers -> WriteRecs] /\ writing'[k] = new
      /\ \A j \in Savers \ {k} :
           /\ writing'[j].at = IF writing[j].at \in {"new", "late"} THEN "old" ELSE writing[j].at
           /\ writing'[j].rt = writing[j].rt
  <2>1. \A j \in Savers : writing[j] \in WriteRecs /\ [writing[j] EXCEPT !.at = "old"] \in WriteRecs
    BY ThreadTypes DEF OAuthInv, WriteRecs
  <2>2. writing' = [j \in Savers |->
          IF j = k THEN new
          ELSE IF writing[j].at \in {"new", "late"} THEN [writing[j] EXCEPT !.at = "old"] ELSE writing[j]]
    BY <1>3 DEF Snapshot
  <2> QED BY <1>4, <2>1, <2>2 DEF WriteRecs
<1>6. OAuthTypeOK'
  BY <1>1, <1>5 DEF OAuthInv, OAuthTypeOK, WriteRecs
<1>7. Fresh'
  <2>1. \A j \in Savers : writing'[j].rt <= issued
    BY <1>2, <1>4, <1>5 DEF OAuthInv, Fresh
  <2> QED BY <1>1, <2>1 DEF OAuthInv, Fresh
<1>8. RefreshOnce' /\ Alone' /\ Distinct' /\ SpentObjects'
  BY <1>1 DEF OAuthInv, RefreshOnce, Alone, Inside, Distinct, SpentObjects, Stores
<1>9. Coming' /\ OldHasNew'
  BY <1>4, <1>5 DEF Coming, OldHasNew
<1>10. NewestGood'
  <2>1. \A j \in Savers : writing'[j].at = "new" => j = k
    BY <1>5
  <2>2. Current' = Current /\ ~Spoilt(Current)'
    BY <1>1, <1>2 DEF Current, Spoilt
  <2>3. ~Spoilt(writing[k].rt)'
    BY <1>4, <1>5, <2>2 DEF Spoilt
  <2> QED BY <1>4, <1>5, <2>1, <2>2, <2>3 DEF NewestGood
<1>11. SaversInside'
  <2> SUFFICES ASSUME NEW h \in Threads, writing'[h].at # "no" PROVE thread[h].at = "save"
    BY <1>1 DEF SaversInside
  <2>1. writing[h].at # "no"
    BY <1>1, <1>5 DEF Savers
  <2> QED BY <2>1 DEF OAuthInv, Writes, SaversInside
<1> QED BY <1>6, <1>7, <1>8, <1>9, <1>10, <1>11 DEF OAuthInv, Writes, SavedGood

\* What a write leaves in Redis is on record when it is not the newest
\* (oauth_store.py:114-127).
LEMMA WriteStep == ASSUME OAuthInv, NEW k \in Savers, Write(k) PROVE OAuthInv'
<1>0. PICK w : w = writing[k]
  OBVIOUS
<1>1. /\ w.at \in {"new", "old", "late"} /\ w \in WriteRecs
      /\ \/ saved' = (IF w.rt # 0 \/ Others THEN w.rt ELSE saved) /\ oauthFaults' = oauthFaults
         \/ oauthFaults < MaxOAuthFaults /\ oauthFaults' = oauthFaults + 1 /\ saved' = saved
      /\ outdated' = CASE w.at = "new" -> saved' # w.rt
                       [] w.at = "old" -> outdated
                       [] w.at = "late" -> outdated \/ saved' # saved
      /\ lost' = (IF outdated' /\ w.at # "old" THEN lost \cup ({saved'} \ {0}) ELSE lost)
      /\ IF k \in Threads THEN RefreshEnds(k) /\ lock' = FALSE ELSE UNCHANGED <<thread, lock>>
      /\ UNCHANGED <<token, objects, issued, valid, dead, oauthCrashes, spent, resent>>
  BY <1>0, ThreadTypes DEF Write, OAuthFault, OAuthInv
<1>2. /\ writing' \in [Savers -> WriteRecs] /\ writing'[k] = NoWrite
      /\ \A j \in Savers \ {k} :
           /\ writing'[j].at = IF w.at = "new" /\ writing[j].at = "old" THEN "late" ELSE writing[j].at
           /\ writing'[j].rt = writing[j].rt
  <2>1. \A j \in Savers : writing[j] \in WriteRecs /\ [writing[j] EXCEPT !.at = "late"] \in WriteRecs
    BY ThreadTypes DEF OAuthInv, WriteRecs
  <2>2. writing' = [j \in Savers |->
          IF j = k THEN NoWrite
          ELSE IF w.at = "new" /\ writing[j].at = "old" THEN [writing[j] EXCEPT !.at = "late"] ELSE writing[j]]
    BY <1>0 DEF Write
  <2> QED BY <2>1, <2>2, ThreadTypes DEF OAuthInv, WriteRecs
<1>3. /\ saved' \in 0 .. MaxTokens /\ oauthFaults' \in 0 .. MaxOAuthFaults
      /\ lost \subseteq lost' /\ lost' \subseteq Ids /\ outdated' \in BOOLEAN /\ saved' <= issued
      /\ saved' \in {w.rt, saved}
  <2>1. saved \in 0 .. MaxTokens /\ oauthFaults \in 0 .. MaxOAuthFaults /\ lost \subseteq Ids /\ outdated \in BOOLEAN
        /\ saved <= issued /\ w.rt <= issued /\ w.rt \in 0 .. MaxTokens
    BY <1>0, <1>1 DEF OAuthInv, OAuthTypeOK, Fresh, WriteRecs
  <2>2. saved' \in {w.rt, saved} /\ oauthFaults' \in 0 .. MaxOAuthFaults
    BY <1>1, <2>1, OAuthConstants
  <2>3. outdated' \in BOOLEAN
    BY <1>1, <2>1
  <2> QED BY <1>1, <2>1, <2>2, <2>3, OAuthConstants DEF Ids
<1>4. /\ thread' \in [Threads -> ThreadRecs] /\ lock' \in BOOLEAN
      /\ \A h \in Threads : thread'[h] = IF h = k THEN Idle ELSE thread[h]
  <2>1. thread \in [Threads -> ThreadRecs] /\ lock \in BOOLEAN /\ Idle \in ThreadRecs
    BY ThreadTypes DEF OAuthInv, OAuthTypeOK
  <2> QED BY <1>1, <2>1 DEF RefreshEnds
<1>5. k \in Threads => thread[k].at = "save"
  BY <1>0, <1>1 DEF OAuthInv, Writes, SaversInside
<1>6. \A h \in Threads : thread'[h].at = "store" <=> thread[h].at = "store"
  BY <1>4, <1>5, ThreadTypes DEF OAuthInv
<1>7. \A h \in Threads : thread'[h].at \notin {"idle", "save"} => thread'[h] = thread[h]
  BY <1>4, ThreadTypes DEF OAuthInv
<1>8. OAuthTypeOK'
  <2>1. \A x \in {spent', resent', lost'} : x \subseteq Ids
    BY <1>1, <1>3 DEF OAuthInv, OAuthTypeOK
  <2> QED BY <1>1, <1>2, <1>3, <1>4, <2>1 DEF OAuthInv, OAuthTypeOK, ThreadRecs, WriteRecs
<1>9. RefreshOnce' /\ Distinct'
  BY <1>1, <1>3 DEF OAuthInv, RefreshOnce, Distinct
<1>10. Alone'
  <2>1. CASE k \in Threads
    <3>1. \A h \in Threads : ~Inside(h)'
      BY <1>4, <1>5, <2>1, ThreadTypes DEF OAuthInv, Alone, Inside
    <3> QED BY <3>1 DEF Alone
  <2>2. CASE k \notin Threads
    BY <1>1, <2>2 DEF OAuthInv, Alone, Inside
  <2> QED BY <2>1, <2>2
<1>11. Fresh'
  <2>1. \A j \in Savers : writing'[j].rt <= issued
    <3>1. 0 <= issued
      BY DEF OAuthInv, OAuthTypeOK
    <3> QED BY <1>2, <3>1, ThreadTypes DEF OAuthInv, Fresh
  <2> QED BY <1>1, <1>3, <1>6, <1>7, <2>1 DEF OAuthInv, Fresh
<1>12. SpentObjects'
  <2>1. \A h \in Threads, i \in Ids : Stores(h, i) => Stores(h, i)'
    BY <1>6, <1>7 DEF Stores
  <2> QED BY <1>1, <1>3, <2>1 DEF OAuthInv, SpentObjects
<1>13. Current' = Current /\ \A v : Spoilt(v)' => Spoilt(v)
  <2>1. Current' = Current
    BY <1>1 DEF Current
  <2>2. ASSUME NEW v, Spoilt(v)' PROVE Spoilt(v)
    BY <1>1, <1>3, <1>6, <1>7, <2>2 DEF Spoilt
  <2> QED BY <2>1, <2>2
<1>14. (Asked' <=> Asked) /\ \A j \in Savers : writing'[j].at = "new" <=> writing[j].at = "new" /\ j # k
  BY <1>0, <1>1, <1>2, ThreadTypes DEF Asked, OAuthInv
<1>15. SaversInside'
  BY <1>2, <1>4, ThreadTypes DEF OAuthInv, Writes, SaversInside, Savers
<1>16. NewestGood'
  <2> SUFFICES ASSUME NEW j \in Savers, writing'[j].at = "new", ~Asked
               PROVE  writing'[j].rt = Current' /\ ~Spoilt(writing[j].rt)'
    BY <1>14 DEF NewestGood
  <2>1. writing[j].at = "new" /\ writing'[j].rt = writing[j].rt
    BY <1>2, <1>14
  <2>2. writing[j].rt = Current /\ ~Spoilt(writing[j].rt)
    BY <2>1 DEF OAuthInv, Writes, NewestGood
  <2>3. PICK v : v = writing[j].rt
    OBVIOUS
  <2>4. ~Spoilt(v)'
    BY <1>13, <2>2, <2>3
  <2> QED BY <1>13, <2>1, <2>2, <2>3, <2>4 DEF Spoilt
<1>17. PICK v : v = saved'
  OBVIOUS
<1>18. outdated' /\ w.at # "old" => ~Spoilt(v)'
  <2>1. 0 \notin spent'
    BY <1>8 DEF OAuthTypeOK, Ids
  <2> QED BY <1>1, <1>17, <2>1 DEF Spoilt
<1>19. (Spoilt(v)' => Coming') /\ (~outdated' => saved' = Current \/ Coming') /\ OldHasNew'
  <2>1. CASE w.at = "new"
    <3>1. OldHasNew'
      BY <1>2, <2>1, ThreadTypes DEF OAuthInv, OldHasNew
    <3>2. Asked' \/ (w.rt = Current /\ ~Spoilt(w.rt))
      BY <1>0, <1>14, <2>1 DEF OAuthInv, Writes, NewestGood
    <3>3. ~outdated' => v = w.rt
      BY <1>1, <1>17, <2>1
    <3>4. Asked' => Coming'
      BY DEF Asked, Coming
    <3> QED BY <1>13, <1>17, <1>18, <2>1, <3>1, <3>2, <3>3, <3>4
  <2>2. CASE w.at = "old"
    <3>1. PICK j \in Savers : writing[j].at = "new"
      BY <1>0, <2>2 DEF OAuthInv, Writes, OldHasNew
    <3>2. writing'[j].at = "new"
      BY <1>0, <1>14, <2>2, <3>1
    <3> QED BY <3>2 DEF Coming, OldHasNew
  <2>3. CASE w.at = "late"
    <3>1. OldHasNew'
      <4>1. \A j \in Savers : writing'[j].at = "old" => writing[j].at = "old"
        BY <1>2, <2>3, ThreadTypes DEF OAuthInv
      <4>2. \A j \in Savers : writing[j].at = "new" => writing'[j].at = "new"
        BY <1>0, <1>14, <2>3
      <4> QED BY <4>1, <4>2 DEF OAuthInv, Writes, OldHasNew
    <3>2. Coming => Coming'
      BY <1>0, <1>2, <2>3 DEF Coming
    <3>3. ~outdated' => ~outdated /\ saved' = saved
      BY <1>1, <2>3
    <3>4. ~outdated' => (Spoilt(v) => Coming) /\ (saved = Current \/ Coming)
      BY <1>17, <3>3 DEF OAuthInv, Writes, SavedGood
    <3> QED BY <1>13, <1>18, <2>3, <3>1, <3>2, <3>3, <3>4
  <2> QED BY <1>1, <2>1, <2>2, <2>3
<1>20. SavedGood'
  <2>1. Spoilt(saved)' => Spoilt(v)'
    BY <1>17 DEF Spoilt
  <2> QED BY <1>13, <1>19, <2>1 DEF SavedGood
<1> QED BY <1>8, <1>9, <1>10, <1>11, <1>12, <1>15, <1>16, <1>19, <1>20 DEF OAuthInv, Writes

-----------------------------------------------------------------------------
\* Steps that change nobody's refresh token, nor the histories, nor what is saved.
LEMMA NothingSent ==
  ASSUME OAuthInv, OAuthTypeOK',
         \A i \in Ids : objects'[i].rt = objects[i].rt,
         \A h \in Threads :
           \/ thread'[h] = thread[h]
           \/ /\ thread[h].at \notin {"store", "save"} /\ thread'[h].at \notin {"store", "save"}
              /\ thread'[h].at # "idle" => thread'[h].obj \in Ids /\ objects[thread'[h].obj].rt # 0,
         Alone', token' = token,
         UNCHANGED <<writing, saved, issued, spent, resent, lost, outdated>>
  PROVE  OAuthInv'
<1>1. \A h \in Threads : thread[h].at \in {"store", "save"} => thread'[h] = thread[h]
  OBVIOUS
<1>2. \A h \in Threads : thread'[h].at \in {"store", "save"} => thread'[h] = thread[h]
  OBVIOUS
<1>3. Fresh'
  <2>1. \A h \in Threads : thread'[h].at \notin {"idle", "save"} =>
          thread'[h].obj \in Ids /\ objects'[thread'[h].obj].rt # 0
    BY DEF OAuthInv, Fresh
  <2> QED BY <1>2, <2>1 DEF OAuthInv, Fresh
<1>4. SpentObjects' /\ Distinct' /\ RefreshOnce'
  BY <1>1 DEF OAuthInv, SpentObjects, Stores, Distinct, RefreshOnce
<1>5. Current' = Current
  BY DEF Current, OAuthInv, Fresh
<1>6. ASSUME NEW v, Spoilt(v)' PROVE Spoilt(v)
  <2> SUFFICES ASSUME NEW h \in Threads, thread[h].at = "store" PROVE objects[thread[h].obj].rt # v
    BY <1>6 DEF Spoilt
  <2>1. thread'[h] = thread[h] /\ thread[h].obj \in Ids
    BY <1>1 DEF OAuthInv, Fresh
  <2> QED BY <1>6, <2>1 DEF Spoilt
<1>7. Writes'
  BY <1>1, <1>5, <1>6, WritesStay
<1> QED BY <1>3, <1>4, <1>7 DEF OAuthInv

\* Steps after which someone is going to save, although no token has been
\* exchanged: the token of the user stays or is dropped (oauth_store.py:491-515).
LEMMA Dropped ==
  ASSUME OAuthInv, NEW k \in Savers, Saves(k), writing[k].at = "no",
         \A h \in Threads :
           IF h = k THEN thread'[h].at = "save" /\ thread[h].at # "store" ELSE thread'[h] = thread[h],
         writing' \in [Savers -> WriteRecs] => OAuthTypeOK', Alone', token' \in {0, token},
         UNCHANGED <<objects, issued, saved, spent, resent, lost>>
  PROVE  OAuthInv'
<1>1. /\ Writes' /\ writing' \in [Savers -> WriteRecs]
      /\ \A j \in Savers : writing'[j].rt = 0 \/ writing'[j] = writing[j]
  BY AskedFor
<1>2. \A h \in Threads : thread'[h].at \notin {"idle", "save"} => thread'[h] = thread[h]
  OBVIOUS
<1>3. Fresh'
  <2>1. \A j \in Savers : writing'[j].rt <= issued
    BY <1>1 DEF OAuthInv, Fresh, OAuthTypeOK
  <2>2. token' # 0 => token' \in Ids /\ objects[token'].rt # 0
    BY DEF OAuthInv, Fresh
  <2> QED BY <1>2, <2>1, <2>2 DEF OAuthInv, Fresh
<1>4. Distinct' /\ RefreshOnce'
  BY DEF OAuthInv, Distinct, RefreshOnce
<1>5. SpentObjects'
  <2>1. \A h \in Threads, i \in Ids : Stores(h, i) => Stores(h, i)'
    BY DEF Stores
  <2> QED BY <2>1 DEF OAuthInv, SpentObjects
<1> QED BY <1>1, <1>3, <1>4, <1>5 DEF OAuthInv

\* A new authorisation makes a new object (oauth_store.py:303-378).
LEMMA AuthoriseStep == ASSUME OAuthInv, Authorise PROVE OAuthInv'
<1>1. PICK n, objs : n = issued + 1 /\ objs = [objects EXCEPT ![n] = [rt |-> n, good |-> TRUE]]
  OBVIOUS
<1>2. /\ issued < MaxTokens /\ issued' = n /\ objects' = objs /\ token' = n
      /\ dead' = FALSE /\ Saves(EventLoop) /\ writing[EventLoop].at = "no"
      /\ UNCHANGED <<thread, lock, saved, oauthFaults, oauthCrashes, spent, resent, lost, outdated>>
      /\ valid' \subseteq valid \cup {n}
  BY <1>1 DEF Authorise
<1>3. /\ n \in Ids /\ n \in Nat /\ issued \in Nat /\ objects \in Objects /\ objs \in Objects
      /\ objs[n].rt = n /\ \A i \in Ids \ {n} : objs[i] = objects[i]
  <2>1. n \in Ids /\ n \in Nat /\ issued \in Nat /\ n # 0
    BY <1>1, <1>2, OAuthConstants DEF OAuthInv, OAuthTypeOK, Ids
  <2>2. objects \in Objects
    BY DEF OAuthInv, OAuthTypeOK, Objects
  <2>3. [rt |-> n, good |-> TRUE] \in [rt: 0 .. MaxTokens, good: BOOLEAN]
    BY <2>1 DEF Ids
  <2> QED BY <1>1, <2>1, <2>2, <2>3 DEF Objects
<1>4. /\ Writes' /\ writing' \in [Savers -> WriteRecs]
      /\ \A j \in Savers : writing'[j].rt = 0 \/ writing'[j] = writing[j]
  <2>1. EventLoop \in Savers /\ EventLoop \notin Threads
    BY OAuthConstants DEF Savers
  <2> QED BY <1>2, <2>1, AskedFor
<1>5. OAuthTypeOK'
  <2>1. objects' \in [Ids -> [rt: 0 .. MaxTokens, good: BOOLEAN]]
    BY <1>2, <1>3 DEF Objects
  <2>2. valid' \subseteq Ids /\ issued' \in 0 .. MaxTokens /\ token' \in 0 .. MaxTokens
    BY <1>2, <1>3 DEF OAuthInv, OAuthTypeOK, Ids
  <2>3. \A h \in {spent', resent', lost'} : h \subseteq Ids
    BY <1>2 DEF OAuthInv, OAuthTypeOK
  <2> QED BY <1>2, <1>4, <2>1, <2>2, <2>3 DEF OAuthInv, OAuthTypeOK, WriteRecs
<1>6. Alone' /\ Distinct' /\ RefreshOnce'
  <2>1. Alone' /\ RefreshOnce'
    BY <1>2 DEF OAuthInv, Alone, Inside, RefreshOnce
  <2>2. \A i \in Ids : objects[i].rt # n
    BY <1>1, <1>3 DEF OAuthInv, Fresh, OAuthTypeOK
  <2>3. ASSUME NEW i \in Ids, NEW j \in Ids, objs[i].rt # 0, objs[i].rt = objs[j].rt PROVE i = j
    <3>1. CASE i = n \/ j = n
      BY <2>2, <2>3, <3>1, <1>3
    <3>2. CASE i # n /\ j # n
      BY <2>3, <3>2, <1>3 DEF OAuthInv, Distinct
    <3> QED BY <3>1, <3>2
  <2> QED BY <2>1, <2>3, <1>2 DEF Distinct
<1>7. Fresh'
  <2>1. spent' \subseteq 1 .. issued' /\ saved' <= issued'
    BY <1>1, <1>2, <1>3 DEF OAuthInv, Fresh, OAuthTypeOK
  <2>2. \A i \in Ids : objects'[i].rt # 0 => objects'[i].rt <= issued' /\ i <= issued'
    BY <1>1, <1>2, <1>3 DEF OAuthInv, Fresh, OAuthTypeOK, Objects, Ids
  <2>3. token' # 0 => token' \in Ids /\ objects'[token'].rt # 0
    BY <1>2, <1>3 DEF Ids
  <2>4. \A h \in Threads : thread'[h].at \notin {"idle", "save"} =>
          thread'[h].obj \in Ids /\ objects'[thread'[h].obj].rt # 0
    BY <1>2, <1>3 DEF OAuthInv, Fresh, Ids
  <2>5. \A h \in Threads : thread'[h].at = "store" =>
          /\ thread'[h].rt \in 1 .. issued' /\ thread'[h].rt \notin spent'
          /\ \A i \in Ids : objects'[i].rt # thread'[h].rt
    BY <1>1, <1>2, <1>3 DEF OAuthInv, Fresh, Ids
  <2>6. \A j \in Savers : writing'[j].rt <= issued'
    <3>1. \A j \in Savers : writing[j].rt \in 0 .. MaxTokens /\ writing[j].rt <= issued
      BY ThreadTypes DEF OAuthInv, Fresh, WriteRecs
    <3> QED BY <1>1, <1>2, <1>3, <1>4, <3>1
  <2> QED BY <2>1, <2>2, <2>3, <2>4, <2>5, <2>6 DEF Fresh
<1>8. SpentObjects'
  <2>1. n \notin spent
    BY <1>1, <1>3 DEF OAuthInv, Fresh
  <2>2. ASSUME NEW i \in Ids, objs[i].rt \in spent
        PROVE  objs[i].rt \in lost \/ \E h \in Threads : Stores(h, i)
    <3>1. i # n
      BY <2>1, <2>2, <1>3
    <3> QED BY <2>2, <3>1, <1>3 DEF OAuthInv, SpentObjects
  <2> QED BY <2>2, <1>2 DEF SpentObjects, Stores
<1> QED BY <1>4, <1>5, <1>6, <1>7, <1>8 DEF OAuthInv

LEMMA ClearStep == ASSUME OAuthInv, Clear PROVE OAuthInv'
<1>1. /\ token' = 0 /\ Saves(EventLoop) /\ writing[EventLoop].at = "no"
      /\ UNCHANGED <<objects, thread, lock, saved, issued, valid, dead, oauthFaults, oauthCrashes,
                     spent, resent, lost, outdated>>
  BY DEF Clear
<1>2. ASSUME writing' \in [Savers -> WriteRecs] PROVE OAuthTypeOK'
  BY <1>1, <1>2, OAuthConstants DEF OAuthInv, OAuthTypeOK, WriteRecs
<1>3. Alone'
  BY <1>1 DEF OAuthInv, Alone, Inside
<1>4. EventLoop \in Savers /\ EventLoop \notin Threads
  BY OAuthConstants DEF Savers
<1> QED BY <1>1, <1>2, <1>3, <1>4, Dropped

\* A thread under the lock is the only one that saves.
LEMMA GoesToSave ==
  ASSUME OAuthInv, NEW h \in Threads, thread[h].at # "save", thread'[h].at = "save", lock' = TRUE,
         \A k \in Threads \ {h} : ~Inside(k) /\ thread'[k] = thread[k]
  PROVE  Alone' /\ h \in Savers /\ writing[h].at = "no"
BY DEF OAuthInv, Writes, SaversInside, Savers, Alone, Inside

LEMMA OthersStep == ASSUME OAuthInv, OthersSave PROVE OAuthInv'
<1>1. UNCHANGED <<token, objects, saved, issued, valid, dead, oauthFaults, oauthCrashes,
                  spent, resent, lost, outdated>>
  BY DEF OthersSave
<1>2. CASE writing[EventLoop].at = "no" /\ Saves(EventLoop) /\ UNCHANGED <<thread, lock>>
  <2>1. ASSUME writing' \in [Savers -> WriteRecs] PROVE OAuthTypeOK'
    BY <1>1, <1>2, <2>1 DEF OAuthInv, OAuthTypeOK, WriteRecs
  <2>2. Alone'
    BY <1>1, <1>2 DEF OAuthInv, Alone, Inside
  <2>3. EventLoop \in Savers /\ EventLoop \notin Threads
    BY OAuthConstants DEF Savers
  <2> QED BY <1>1, <1>2, <2>1, <2>2, <2>3, Dropped
<1>3. ASSUME NEW h \in Threads, At(h, "idle"), ~lock, lock' = TRUE, ThreadGoes(h, "save"), Saves(h)
      PROVE  OAuthInv'
  <2>1. PICK new : new = [thread[h] EXCEPT !.at = "save"]
    OBVIOUS
  <2>2. new \in ThreadRecs /\ new.at = "save" /\ thread[h].at = "idle"
    BY <1>3, <2>1, ThreadTypes DEF OAuthInv, ThreadRecs, At
  <2>3. thread' \in [Threads -> ThreadRecs] /\ \A k \in Threads : thread'[k] = IF k = h THEN new ELSE thread[k]
    BY <1>3, <2>1, <2>2, ThreadTypes DEF OAuthInv, ThreadGoes
  <2>4. \A k \in Threads : ~Inside(k)
    BY <1>3 DEF OAuthInv, Alone
  <2>5. Alone' /\ h \in Savers /\ writing[h].at = "no"
    BY <1>3, <2>2, <2>3, <2>4, GoesToSave
  <2>6. ASSUME writing' \in [Savers -> WriteRecs] PROVE OAuthTypeOK'
    BY <1>1, <1>3, <2>3, <2>6 DEF OAuthInv, OAuthTypeOK, WriteRecs, ThreadRecs
  <2> QED BY <1>1, <1>3, <2>2, <2>3, <2>5, <2>6, Dropped
<1> QED BY <1>2, <1>3 DEF OthersSave

-----------------------------------------------------------------------------
(* A thread's way through get_user_token_sync *)

LEMMA GetStep ==
  ASSUME OAuthInv, NEW h \in Threads, Get(h) PROVE OAuthInv'
<1>1. PICK new : new = [at |-> "wait", obj |-> token, rt |-> 0]
  OBVIOUS
<1>2. /\ thread' = [thread EXCEPT ![h] = new] /\ thread[h].at = "idle" /\ token # 0
      /\ UNCHANGED <<token, objects, lock, writing, saved, issued, valid, dead, oauthFaults, oauthCrashes, spent, resent, lost, outdated>>
  BY <1>1 DEF Get, At
<1>3. new \in ThreadRecs /\ new.at = "wait" /\ new.obj \in Ids /\ objects[new.obj].rt # 0
  BY <1>1, <1>2, OAuthConstants DEF OAuthInv, Fresh, OAuthTypeOK, ThreadRecs, Ids
<1>4. thread' \in [Threads -> ThreadRecs] /\ \A k \in Threads : thread'[k] = IF k = h THEN new ELSE thread[k]
  BY <1>2, <1>3, ThreadTypes DEF OAuthInv
<1>5. OAuthTypeOK'
  BY <1>2, <1>4 DEF OAuthInv, OAuthTypeOK, ThreadRecs
<1>6. Alone'
  BY <1>2, <1>3, <1>4 DEF OAuthInv, Alone, Inside
<1> QED BY <1>2, <1>3, <1>4, <1>5, <1>6, NothingSent

LEMMA EnterStep ==
  ASSUME OAuthInv, NEW h \in Threads, Enter(h) PROVE OAuthInv'
<1>1. /\ thread[h].at = "wait" /\ ~lock
      /\ UNCHANGED <<token, objects, writing, saved, issued, valid, dead, oauthFaults, oauthCrashes, spent, resent, lost, outdated>>
      /\ \A k \in Threads : ~Inside(k)
  BY DEF Enter, At, MayEnter, OAuthInv, Alone
<1>2. CASE RefreshEnds(h) /\ UNCHANGED lock
  <2>1. thread' \in [Threads -> ThreadRecs] /\ \A k \in Threads : thread'[k] = IF k = h THEN Idle ELSE thread[k]
    BY <1>2, ThreadTypes DEF OAuthInv, RefreshEnds
  <2>2. OAuthTypeOK'
    BY <1>1, <1>2, <2>1 DEF OAuthInv, OAuthTypeOK, ThreadRecs
  <2>3. Alone'
    BY <1>1, <2>1, ThreadTypes DEF OAuthInv, Alone, Inside
  <2> QED BY <1>1, <2>1, <2>2, <2>3, ThreadTypes, NothingSent DEF OAuthInv
<1>3. CASE ThreadGoes(h, "send") /\ lock' = TRUE
  <2>1. PICK new : new = [thread[h] EXCEPT !.at = "send"]
    OBVIOUS
  <2>2. new \in ThreadRecs /\ new.at = "send" /\ new.obj = thread[h].obj
    BY <2>1, ThreadTypes DEF OAuthInv, ThreadRecs
  <2>3. new.obj \in Ids /\ objects[new.obj].rt # 0
    BY <1>1, <2>2 DEF OAuthInv, Fresh
  <2>4. thread' \in [Threads -> ThreadRecs] /\ \A k \in Threads : thread'[k] = IF k = h THEN new ELSE thread[k]
    BY <1>3, <2>1, <2>2, ThreadTypes DEF OAuthInv, ThreadGoes
  <2>5. OAuthTypeOK'
    BY <1>1, <1>3, <2>4 DEF OAuthInv, OAuthTypeOK, ThreadRecs
  <2>6. Alone'
    BY <1>1, <1>3, <2>2, <2>4 DEF Alone, Inside
  <2> QED BY <1>1, <2>2, <2>3, <2>4, <2>5, <2>6, NothingSent
<1> QED BY <1>2, <1>3 DEF Enter

\* The exchange of a refresh token: the one thread inside sends one that has not
\* been spent, or one whose successor is lost (oauth_store.py:453-461).
LEMMA SendStep ==
  ASSUME OAuthInv, NEW h \in Threads, Send(h) PROVE OAuthInv'
<1>0. PICK o, rt : o = thread[h].obj /\ rt = objects[o].rt
  OBVIOUS
<1>1. /\ thread[h].at = "send" /\ resent' = (IF rt \in spent THEN resent \cup {rt} ELSE resent)
      /\ UNCHANGED <<token, objects, writing, saved, dead, oauthCrashes, outdated>>
      /\ o \in Ids /\ rt \in Ids
      /\ \A k \in Threads : Inside(k) => k = h
      /\ \A k \in Threads : thread[k].at # "store"
  BY <1>0, ThreadTypes, OAuthConstants DEF Send, At, OAuthInv, Fresh, Alone, Inside, Objects, Ids
<1>2. resent' = resent \/ (rt \in lost /\ resent' = resent \cup {rt})
  BY <1>0, <1>1 DEF OAuthInv, SpentObjects, Stores
<1>3. resent' \subseteq lost /\ resent' \subseteq Ids
  BY <1>1, <1>2 DEF OAuthInv, RefreshOnce, OAuthTypeOK
<1>4. \A i \in Ids : objects[i].rt \in spent => objects[i].rt \in lost
  BY <1>1 DEF OAuthInv, SpentObjects, Stores
<1>5. ASSUME \A k \in Threads : thread[k].at = "save" => thread'[k].at = "save",
             \A v : Spoilt(v)' => Spoilt(v)
      PROVE  Writes'
  <2>1. Current' = Current
    BY <1>1 DEF Current
  <2> QED BY <1>1, <1>5, <2>1, WritesStay
<1>6. \A i \in Ids : objects[i].rt = rt => i = o
  BY <1>0, <1>1 DEF OAuthInv, Distinct, Ids
<1>7. CASE /\ issued < MaxTokens /\ issued' = issued + 1
           /\ valid' = (valid \ {rt}) \cup {issued + 1} /\ spent' = spent \cup {rt}
           /\ thread' = [thread EXCEPT ![h].at = "store", ![h].rt = issued + 1]
           /\ UNCHANGED <<lock, oauthFaults, lost>>
  <2>1. PICK new : new = [thread[h] EXCEPT !.at = "store", !.rt = issued + 1]
    OBVIOUS
  <2>2. issued \in Nat /\ issued + 1 \in Ids /\ issued + 1 \in 0 .. MaxTokens
    BY <1>7, OAuthConstants DEF OAuthInv, OAuthTypeOK, Ids
  <2>3. new \in ThreadRecs /\ new.at = "store" /\ new.obj = o /\ new.rt = issued + 1
    BY <1>0, <2>1, <2>2, ThreadTypes DEF OAuthInv, ThreadRecs
  <2>4. thread' \in [Threads -> ThreadRecs] /\ \A k \in Threads : thread'[k] = IF k = h THEN new ELSE thread[k]
    BY <1>7, <2>1, <2>3, ThreadTypes DEF OAuthInv
  <2>5. OAuthTypeOK'
    <3>1. spent' \subseteq Ids /\ valid' \subseteq Ids /\ issued' \in 0 .. MaxTokens /\ lost' \subseteq Ids
      BY <1>1, <1>7, <2>2 DEF OAuthInv, OAuthTypeOK
    <3> QED BY <1>1, <1>3, <1>7, <2>4, <3>1 DEF OAuthInv, OAuthTypeOK, ThreadRecs
  <2>6. Alone'
    BY <1>1, <1>7, <2>3, <2>4 DEF OAuthInv, Alone, Inside
  <2>7. Fresh'
    <3>1. rt <= issued /\ rt \in Nat
      BY <1>0, <1>1 DEF OAuthInv, Fresh, Ids
    <3>2. spent' \subseteq 1 .. issued' /\ saved' <= issued'
      BY <1>1, <1>7, <2>2, <3>1 DEF OAuthInv, Fresh, OAuthTypeOK, Ids
    <3>3. \A i \in Ids : objects'[i].rt # 0 => objects'[i].rt <= issued' /\ i <= issued'
      BY <1>1, <1>7, <2>2, ThreadTypes DEF OAuthInv, Fresh, Objects, Ids
    <3>4. \A k \in Threads : thread'[k].at \notin {"idle", "save"} => thread'[k].obj \in Ids /\ objects'[thread'[k].obj].rt # 0
      BY <1>0, <1>1, <2>3, <2>4 DEF OAuthInv, Fresh, Ids
    <3>5. issued + 1 \notin spent' /\ \A i \in Ids : objects'[i].rt # issued + 1
      BY <1>1, <1>7, <2>2, <3>1, ThreadTypes DEF OAuthInv, Fresh, Objects, Ids
    <3>6. \A k \in Threads : thread'[k].at = "store" =>
            /\ thread'[k].rt \in 1 .. issued' /\ thread'[k].rt \notin spent'
            /\ \A i \in Ids : objects'[i].rt # thread'[k].rt
      BY <1>1, <1>7, <2>2, <2>3, <2>4, <3>5
    <3>7. token' # 0 => token' \in Ids /\ objects'[token'].rt # 0
      BY <1>1 DEF OAuthInv, Fresh
    <3>8. \A k \in Savers : writing'[k].rt <= issued'
      BY <1>1, <1>7, <2>2, ThreadTypes DEF OAuthInv, Fresh, WriteRecs
    <3> QED BY <3>2, <3>3, <3>4, <3>6, <3>7, <3>8 DEF Fresh
  <2>8. Distinct' /\ RefreshOnce'
    BY <1>1, <1>3, <1>7 DEF OAuthInv, Distinct, RefreshOnce
  <2>9. thread'[h].at = "store" /\ thread'[h].obj = o
    BY <2>3, <2>4
  <2>10. SpentObjects'
    BY <1>1, <1>4, <1>6, <1>7, <2>9 DEF SpentObjects, Stores
  <2>11. Writes'
    <3>1. ASSUME NEW v, Spoilt(v)' PROVE Spoilt(v)
      <4>1. v # rt
        BY <1>0, <1>1, <2>9, <3>1 DEF Spoilt
      <4> QED BY <1>1, <1>7, <3>1, <4>1 DEF Spoilt
    <3>2. \A k \in Threads : thread[k].at = "save" => thread'[k].at = "save"
      BY <1>1, <2>4
    <3> QED BY <1>5, <3>1, <3>2
  <2> QED BY <2>5, <2>6, <2>7, <2>8, <2>10, <2>11 DEF OAuthInv
<1>8. CASE ThreadGoes(h, "refused") /\ UNCHANGED <<lock, issued, valid, spent, oauthFaults, lost>>
  <2>1. PICK new : new = [thread[h] EXCEPT !.at = "refused"]
    OBVIOUS
  <2>2. new \in ThreadRecs /\ new.at = "refused" /\ new.obj = o
    BY <1>0, <2>1, ThreadTypes DEF OAuthInv, ThreadRecs
  <2>3. thread' \in [Threads -> ThreadRecs] /\ \A k \in Threads : thread'[k] = IF k = h THEN new ELSE thread[k]
    BY <1>8, <2>1, <2>2, ThreadTypes DEF OAuthInv, ThreadGoes
  <2>4. OAuthTypeOK'
    BY <1>1, <1>3, <1>8, <2>3 DEF OAuthInv, OAuthTypeOK, ThreadRecs
  <2>5. Alone'
    BY <1>1, <1>8, <2>2, <2>3 DEF OAuthInv, Alone, Inside
  <2>6. Fresh'
    BY <1>0, <1>1, <1>8, <2>2, <2>3 DEF OAuthInv, Fresh, Ids
  <2>7. Distinct' /\ RefreshOnce'
    BY <1>1, <1>3, <1>8 DEF OAuthInv, Distinct, RefreshOnce
  <2>8. SpentObjects' /\ Writes'
    <3>1. SpentObjects'
      BY <1>1, <1>4, <1>8 DEF SpentObjects
    <3>2. ASSUME NEW v, Spoilt(v)' PROVE Spoilt(v)
      BY <1>1, <1>8, <3>2 DEF Spoilt
    <3>3. \A k \in Threads : thread[k].at = "save" => thread'[k].at = "save"
      BY <1>1, <2>3
    <3> QED BY <1>5, <3>1, <3>2, <3>3
  <2> QED BY <2>4, <2>5, <2>6, <2>7, <2>8 DEF OAuthInv
<1>9. CASE /\ OAuthFault /\ RefreshEnds(h) /\ lock' = FALSE
           /\ \/ UNCHANGED <<issued, valid, spent, lost>>
              \/ /\ issued < MaxTokens /\ issued' = issued + 1
                 /\ valid' = (valid \ {rt}) \cup {issued + 1} /\ spent' = spent \cup {rt}
                 /\ lost' = lost \cup {rt}
  <2>1. thread' \in [Threads -> ThreadRecs] /\ \A k \in Threads : thread'[k] = IF k = h THEN Idle ELSE thread[k]
    BY <1>9, ThreadTypes DEF OAuthInv, RefreshEnds
  <2>2. \A k \in Threads : ~(thread'[k].at \in {"send", "store", "refused", "save"})
    BY <1>1, <2>1, ThreadTypes DEF OAuthInv, Inside
  <2>3. oauthFaults \in Nat /\ oauthFaults' = oauthFaults + 1 /\ oauthFaults' \in 0 .. MaxOAuthFaults
    BY <1>9, OAuthConstants DEF OAuthFault, OAuthInv, OAuthTypeOK
  <2>4. /\ issued' \in 0 .. MaxTokens /\ issued <= issued' /\ issued \in Nat
        /\ valid' \subseteq Ids /\ spent' \subseteq spent \cup {rt} /\ lost \subseteq lost' /\ lost' \subseteq Ids
        /\ spent' # spent => rt \in lost'
    <3>1. /\ issued \in 0 .. MaxTokens /\ issued \in Nat /\ valid \subseteq Ids /\ lost \subseteq Ids
      BY OAuthConstants DEF OAuthInv, OAuthTypeOK
    <3>2. CASE UNCHANGED <<issued, valid, spent, lost>>
      BY <3>1, <3>2
    <3>3. CASE /\ issued < MaxTokens /\ issued' = issued + 1
               /\ valid' = (valid \ {rt}) \cup {issued + 1} /\ spent' = spent \cup {rt}
               /\ lost' = lost \cup {rt}
      <4>1. issued + 1 \in Ids /\ issued + 1 \in 0 .. MaxTokens
        BY <3>1, <3>3, OAuthConstants DEF Ids
      <4> QED BY <1>1, <3>1, <3>3, <4>1
    <3> QED BY <1>9, <3>2, <3>3
  <2>5. OAuthTypeOK'
    <3>1. spent' \subseteq Ids
      BY <1>1, <2>4 DEF OAuthInv, OAuthTypeOK
    <3> QED BY <1>1, <1>3, <1>9, <2>1, <2>3, <2>4, <3>1 DEF OAuthInv, OAuthTypeOK, ThreadRecs
  <2>6. Alone'
    BY <2>2 DEF Alone, Inside
  <2>7. Fresh'
    <3>1. rt <= issued /\ rt \in Nat /\ rt >= 1
      BY <1>0, <1>1 DEF OAuthInv, Fresh, Ids
    <3>2. spent' \subseteq 1 .. issued' /\ saved' <= issued'
      BY <1>1, <2>4, <3>1 DEF OAuthInv, Fresh, OAuthTypeOK
    <3>3. \A i \in Ids : objects'[i].rt # 0 => objects'[i].rt <= issued' /\ i <= issued'
      BY <1>1, <2>4, ThreadTypes, OAuthConstants DEF OAuthInv, Fresh, Objects, Ids
    <3>4. \A k \in Threads : thread'[k].at \notin {"idle", "save"} => thread'[k].obj \in Ids /\ objects'[thread'[k].obj].rt # 0
      BY <1>1, <2>1, ThreadTypes DEF OAuthInv, Fresh
    <3>5. token' # 0 => token' \in Ids /\ objects'[token'].rt # 0
      BY <1>1 DEF OAuthInv, Fresh
    <3>6. \A k \in Savers : writing'[k].rt <= issued'
      BY <1>1, <2>4, ThreadTypes, OAuthConstants DEF OAuthInv, Fresh, WriteRecs
    <3> QED BY <2>2, <3>2, <3>3, <3>4, <3>5, <3>6 DEF Fresh
  <2>8. Distinct' /\ RefreshOnce'
    BY <1>1, <1>3, <2>3, <2>4 DEF OAuthInv, Distinct, RefreshOnce
  <2>9. SpentObjects' /\ Writes'
    <3>1. SpentObjects'
      BY <1>1, <1>4, <2>4 DEF SpentObjects
    <3>2. ASSUME NEW v, Spoilt(v)' PROVE Spoilt(v)
      BY <1>1, <2>4, <3>2 DEF Spoilt
    <3>3. \A k \in Threads : thread[k].at = "save" => thread'[k].at = "save"
      BY <1>1, <2>1 DEF Inside
    <3> QED BY <1>5, <3>1, <3>2, <3>3
  <2> QED BY <2>5, <2>6, <2>7, <2>8, <2>9 DEF OAuthInv
<1> QED BY <1>0, <1>7, <1>8, <1>9 DEF Send

\* The answer is stored under the object the thread has looked up, whatever is in
\* _tokens by now (oauth_store.py:463-468).
LEMMA StoreStep ==
  ASSUME OAuthInv, NEW h \in Threads, Store(h) PROVE OAuthInv'
<1>0. PICK o, rt, objs, new :
        /\ o = thread[h].obj /\ rt = thread[h].rt
        /\ objs = [objects EXCEPT ![o] = [rt |-> rt, good |-> TRUE]]
        /\ new = [Idle EXCEPT !.at = "save"]
  OBVIOUS
<1>1. /\ thread[h].at = "store" /\ objects' = objs /\ Saves(h)
      /\ thread' = [thread EXCEPT ![h] = new]
      /\ UNCHANGED <<token, lock, saved, issued, valid, dead, oauthFaults, oauthCrashes,
                     spent, resent, lost, outdated>>
  BY <1>0 DEF Store, At
<1>2. /\ o \in Ids /\ rt \in 1 .. issued /\ rt \notin spent /\ rt \in Ids /\ rt \in 0 .. MaxTokens
      /\ objects[o].rt # 0 /\ o <= issued /\ issued \in Nat
      /\ \A i \in Ids : objects[i].rt # rt
      /\ \A k \in Threads : Inside(k) => k = h
      /\ lock = TRUE
  <2>1. issued \in 0 .. MaxTokens /\ lock \in BOOLEAN
    BY DEF OAuthInv, OAuthTypeOK
  <2>2. o \in Ids /\ rt \in 1 .. issued /\ rt \notin spent /\ objects[o].rt # 0
        /\ \A i \in Ids : objects[i].rt # rt
    BY <1>0, <1>1 DEF OAuthInv, Fresh
  <2>3. o <= issued
    BY <2>2 DEF OAuthInv, Fresh
  <2>4. (\A k \in Threads : Inside(k) => k = h) /\ lock
    BY <1>1 DEF OAuthInv, Alone, Inside
  <2> QED BY <2>1, <2>2, <2>3, <2>4, OAuthConstants DEF Ids
<1>3. /\ objs \in Objects /\ objs[o].rt = rt /\ \A i \in Ids \ {o} : objs[i] = objects[i]
      /\ token \in 0 .. MaxTokens /\ (token # 0 => token \in Ids /\ objs[token].rt # 0)
  <2>1. [rt |-> rt, good |-> TRUE] \in [rt: 0 .. MaxTokens, good: BOOLEAN]
    BY <1>2
  <2>2. objs \in Objects /\ objs[o].rt = rt /\ \A i \in Ids \ {o} : objs[i] = objects[i]
    BY <1>0, <1>2, <2>1, ThreadTypes DEF OAuthInv, Objects
  <2>3. token \in 0 .. MaxTokens /\ (token # 0 => token \in Ids /\ objects[token].rt # 0)
    BY DEF OAuthInv, OAuthTypeOK, Fresh
  <2>4. token # 0 => objs[token].rt # 0
    BY <1>2, <2>2, <2>3 DEF Ids
  <2> QED BY <2>2, <2>3, <2>4
<1>4. /\ thread' \in [Threads -> ThreadRecs] /\ new.at = "save"
      /\ \A k \in Threads : thread'[k] = IF k = h THEN new ELSE thread[k]
  <2>1. new \in ThreadRecs /\ new.at = "save"
    BY <1>0, ThreadTypes DEF OAuthInv, Idle
  <2> QED BY <1>1, <2>1, ThreadTypes DEF OAuthInv
<1>5. Alone' /\ h \in Savers /\ writing[h].at = "no"
  <2>1. \A k \in Threads \ {h} : ~Inside(k) /\ thread'[k] = thread[k]
    BY <1>2, <1>4
  <2>2. thread'[h].at = "save" /\ thread[h].at # "save" /\ lock' = TRUE
    BY <1>1, <1>2, <1>4
  <2> QED BY <2>1, <2>2, GoesToSave
<1>6. /\ Writes' /\ writing' \in [Savers -> WriteRecs]
      /\ \A j \in Savers : writing'[j].rt = 0 \/ writing'[j] = writing[j]
  <2>1. \A k \in Threads : IF k = h THEN thread'[k].at = "save" ELSE thread'[k] = thread[k]
    BY <1>4
  <2> QED BY <1>1, <1>5, <2>1, AskedFor
<1>7. OAuthTypeOK'
  <2>1. \A x \in {spent', resent', lost'} : x \subseteq Ids
    BY <1>1 DEF OAuthInv, OAuthTypeOK
  <2> QED BY <1>1, <1>3, <1>4, <1>6, <2>1 DEF OAuthInv, OAuthTypeOK, ThreadRecs, WriteRecs, Objects
<1>8. \A i \in Ids : objs[i].rt # 0 => objs[i].rt <= issued /\ i <= issued
  BY <1>2, <1>3 DEF OAuthInv, Fresh
<1>9. \A k \in Threads : thread'[k].at # "store"
  BY <1>2, <1>4 DEF Inside
<1>10. Fresh'
  <2>1. \A j \in Savers : writing'[j].rt <= issued
    BY <1>2, <1>6 DEF OAuthInv, Fresh
  <2>2. \A k \in Threads : thread'[k].at \notin {"idle", "save"} =>
          thread'[k].obj \in Ids /\ objs[thread'[k].obj].rt # 0
    BY <1>2, <1>3, <1>4 DEF OAuthInv, Fresh, Ids
  <2>3. spent' \subseteq 1 .. issued' /\ saved' <= issued'
    BY <1>1 DEF OAuthInv, Fresh
  <2> QED BY <1>1, <1>3, <1>8, <1>9, <2>1, <2>2, <2>3 DEF Fresh
<1>11. Distinct' /\ RefreshOnce'
  <2>1. ASSUME NEW i \in Ids, NEW j \in Ids, objs[i].rt # 0, objs[i].rt = objs[j].rt PROVE i = j
    <3>1. CASE i = o \/ j = o
      BY <2>1, <3>1, <1>2, <1>3
    <3>2. CASE i # o /\ j # o
      BY <2>1, <3>2, <1>3 DEF OAuthInv, Distinct
    <3> QED BY <3>1, <3>2
  <2> QED BY <1>1, <2>1 DEF Distinct, OAuthInv, RefreshOnce
<1>12. SpentObjects'
  <2>1. ASSUME NEW i \in Ids, objs[i].rt \in spent PROVE objs[i].rt \in lost
    <3>1. i # o
      BY <2>1, <1>2, <1>3
    <3>2. objects[i].rt \in lost \/ \E k \in Threads : Stores(k, i)
      BY <2>1, <3>1, <1>3 DEF OAuthInv, SpentObjects
    <3>3. \A k \in Threads : ~Stores(k, i)
      BY <3>1, <1>0, <1>2 DEF Stores, Inside
    <3> QED BY <3>1, <3>2, <3>3, <1>3
  <2> QED BY <1>1, <2>1 DEF SpentObjects
<1> QED BY <1>5, <1>6, <1>7, <1>10, <1>11, <1>12 DEF OAuthInv

LEMMA RefusedStep ==
  ASSUME OAuthInv, NEW h \in Threads, Refused(h) PROVE OAuthInv'
<1>1. /\ thread[h].at = "refused"
      /\ UNCHANGED <<objects, saved, issued, valid, oauthFaults, oauthCrashes, spent, resent, lost, outdated>>
      /\ (\A k \in Threads : Inside(k) => k = h) /\ lock
  BY DEF Refused, At, OAuthInv, Alone, Inside
<1>2. CASE /\ token' = 0 /\ dead' = TRUE
           /\ thread' = [thread EXCEPT ![h] = [Idle EXCEPT !.at = "save"]] /\ Saves(h)
           /\ UNCHANGED lock
  <2>1. PICK new : new = [Idle EXCEPT !.at = "save"]
    OBVIOUS
  <2>2. new \in ThreadRecs /\ new.at = "save"
    BY <2>1, ThreadTypes DEF OAuthInv, Idle
  <2>3. thread' \in [Threads -> ThreadRecs] /\ \A k \in Threads : thread'[k] = IF k = h THEN new ELSE thread[k]
    BY <1>2, <2>1, <2>2, ThreadTypes DEF OAuthInv
  <2>4. lock' = TRUE
    BY <1>1, <1>2 DEF OAuthInv, OAuthTypeOK
  <2>5. Alone' /\ h \in Savers /\ writing[h].at = "no"
    <3>1. thread'[h].at = "save" /\ thread[h].at # "save"
      BY <1>1, <2>2, <2>3
    <3>2. \A k \in Threads \ {h} : ~Inside(k) /\ thread'[k] = thread[k]
      BY <1>1, <2>3
    <3> QED BY <2>4, <3>1, <3>2, GoesToSave
  <2>6. ASSUME writing' \in [Savers -> WriteRecs] PROVE OAuthTypeOK'
    BY <1>1, <1>2, <2>3, <2>6, OAuthConstants DEF OAuthInv, OAuthTypeOK, ThreadRecs, WriteRecs
  <2>7. \A k \in Threads :
          IF k = h THEN thread'[k].at = "save" /\ thread[k].at # "store" ELSE thread'[k] = thread[k]
    BY <1>1, <2>2, <2>3
  <2> QED BY <1>1, <1>2, <2>5, <2>6, <2>7, Dropped
<1>3. CASE RefreshEnds(h) /\ lock' = FALSE /\ UNCHANGED <<token, dead, writing>>
  <2>1. thread' \in [Threads -> ThreadRecs] /\ \A k \in Threads : thread'[k] = IF k = h THEN Idle ELSE thread[k]
    BY <1>3, ThreadTypes DEF OAuthInv, RefreshEnds
  <2>2. Alone'
    BY <1>1, <1>3, <2>1, ThreadTypes DEF OAuthInv, Alone, Inside
  <2>3. OAuthTypeOK'
    BY <1>1, <1>3, <2>1 DEF OAuthInv, OAuthTypeOK, ThreadRecs, WriteRecs
  <2> QED BY <1>1, <1>3, <2>1, <2>2, <2>3, ThreadTypes, NothingSent DEF OAuthInv
<1> QED BY <1>2, <1>3 DEF Refused

-----------------------------------------------------------------------------
\* A restart keeps what is in Redis and no thread: a token that was spent, and whose
\* successor was about to be stored or written, is lost (oauth_store.py:142-214).
LEMMA RestartStep == ASSUME OAuthInv, OAuthRestart PROVE OAuthInv'
<1>0. PICK gone, late :
        /\ gone = {objects[thread[h].obj].rt : h \in {x \in Threads : thread[x].at = "store"}}
        /\ late = IF Coming /\ saved # Current THEN {saved} \ {0} ELSE {}
  OBVIOUS
<1>1. PICK good \in BOOLEAN :
           objects' = [i \in Ids |-> IF i = token' THEN [rt |-> i, good |-> good]
                                     ELSE [rt |-> 0, good |-> FALSE]]
  BY DEF OAuthRestart
<1>2. /\ oauthCrashes < MaxOAuthCrashes /\ oauthCrashes' = oauthCrashes + 1
      /\ thread' = [h \in Threads |-> Idle] /\ lock' = FALSE /\ dead' = FALSE
      /\ writing' = [k \in Savers |-> NoWrite]
      /\ lost' = (lost \cup gone) \cup late
      /\ \/ token' = saved /\ oauthFaults' = oauthFaults
         \/ oauthFaults < MaxOAuthFaults /\ oauthFaults' = oauthFaults + 1 /\ token' = 0
      /\ outdated' = (token' # saved)
      /\ UNCHANGED <<saved, issued, valid, spent, resent>>
  BY <1>0 DEF OAuthRestart, At, OAuthFault
<1>3. /\ saved \in 0 .. MaxTokens /\ issued \in 0 .. MaxTokens /\ MaxTokens \in Nat /\ lost \subseteq Ids
      /\ (saved # 0 => saved \in Ids) /\ saved <= issued
      /\ token' \in {0, saved} /\ token' \in 0 .. MaxTokens
      /\ oauthFaults' \in 0 .. MaxOAuthFaults
  <2>1. saved \in 0 .. MaxTokens /\ issued \in 0 .. MaxTokens /\ lost \subseteq Ids /\ saved <= issued
        /\ oauthFaults \in 0 .. MaxOAuthFaults
    BY DEF OAuthInv, OAuthTypeOK, Fresh
  <2> QED BY <1>2, <2>1, OAuthConstants DEF Ids
<1>4. gone \subseteq Ids /\ late \subseteq Ids
  BY <1>0, <1>3, ThreadTypes, OAuthConstants DEF OAuthInv, Fresh, Objects, Ids
<1>5. \A i \in Ids : objects'[i].rt = IF i = token' THEN i ELSE 0
  BY <1>1
<1>6. /\ \A h \in Threads : thread'[h].at = "idle"
      /\ \A k \in Savers : writing'[k].at = "no" /\ writing'[k].rt = 0
  BY <1>2, ThreadTypes DEF OAuthInv
<1>7. OAuthTypeOK'
  <2>1. thread' \in [Threads -> ThreadRecs] /\ writing' \in [Savers -> WriteRecs]
    BY <1>2, ThreadTypes DEF OAuthInv
  <2>2. objects' \in Objects
    BY <1>1, <1>3 DEF Objects, Ids
  <2>3. \A x \in {spent', resent', lost'} : x \subseteq Ids
    BY <1>2, <1>3, <1>4 DEF OAuthInv, OAuthTypeOK
  <2>4. oauthCrashes' \in 0 .. MaxOAuthCrashes
    BY <1>2, OAuthConstants DEF OAuthInv, OAuthTypeOK
  <2>5. outdated' \in BOOLEAN
    BY <1>2
  <2> QED BY <1>2, <1>3, <2>1, <2>2, <2>3, <2>4, <2>5 DEF OAuthInv, OAuthTypeOK, ThreadRecs, WriteRecs, Objects
<1>8. Alone' /\ Distinct' /\ RefreshOnce'
  BY <1>2, <1>5, <1>6 DEF Alone, Inside, Distinct, OAuthInv, RefreshOnce
<1>9. Fresh'
  <2>1. \A i \in Ids : objects'[i].rt # 0 => objects'[i].rt <= issued' /\ i <= issued'
    BY <1>2, <1>3, <1>5 DEF Ids
  <2>2. token' # 0 => token' \in Ids /\ objects'[token'].rt # 0
    BY <1>2, <1>3, <1>5
  <2> QED BY <1>2, <1>3, <1>6, <2>1, <2>2 DEF OAuthInv, Fresh
<1>10. saved \in spent => saved \in lost'
  <2> SUFFICES ASSUME saved \in spent, saved \notin lost', Spoilt(saved) \/ ~Spoilt(saved) PROVE FALSE
    OBVIOUS
  <2>1. saved # 0
    BY DEF OAuthInv, OAuthTypeOK, Ids
  <2>2. \A h \in Threads : thread[h].at = "store" => objects[thread[h].obj].rt # saved
    BY <1>0, <1>2
  <2>3. Coming
    BY <1>2, <2>2 DEF OAuthInv, Writes, SavedGood, Spoilt
  <2>4. saved = Current
    BY <1>0, <1>2, <2>1, <2>3
  <2>5. token \in Ids /\ objects[token].rt = saved
    BY <2>1, <2>4 DEF Current, OAuthInv, Fresh
  <2>6. \E h \in Threads : Stores(h, token)
    BY <1>2, <2>5 DEF OAuthInv, SpentObjects
  <2> QED BY <2>2, <2>5, <2>6 DEF Stores
<1>11. 0 \notin spent
  BY DEF OAuthInv, OAuthTypeOK, Ids
<1>12. SpentObjects'
  BY <1>2, <1>3, <1>5, <1>10, <1>11 DEF SpentObjects
<1>13. Writes'
  <2>1. saved' = Current' \/ outdated'
    <3>1. CASE token' = 0
      BY <1>2, <3>1 DEF Current
    <3>2. CASE token' # 0
      BY <1>2, <1>3, <1>5, <3>2 DEF Current
    <3> QED BY <3>1, <3>2
  <2>2. ~Spoilt(saved)'
    BY <1>2, <1>10 DEF Spoilt
  <2> QED BY <1>6, <2>1, <2>2 DEF Writes, SaversInside, NewestGood, OldHasNew, SavedGood, Savers
<1> QED BY <1>7, <1>8, <1>9, <1>12, <1>13 DEF OAuthInv

LEMMA OAuthStep == ASSUME OAuthInv, [OAuthNext]_oauthVars PROVE OAuthInv'
<1>1. CASE AccessExpires
  <2>1. /\ token \in Ids /\ objects' = [objects EXCEPT ![token].good = FALSE]
        /\ UNCHANGED <<token, thread, lock, writing, saved, issued, valid, dead, oauthFaults, oauthCrashes,
                       spent, resent, lost, outdated>>
    BY <1>1 DEF AccessExpires, OAuthInv, Fresh
  <2>2. objects' \in Objects /\ \A i \in Ids : objects'[i].rt = objects[i].rt
    BY <2>1, ThreadTypes DEF OAuthInv, Objects
  <2>3. OAuthTypeOK' /\ Alone'
    BY <2>1, <2>2 DEF OAuthInv, OAuthTypeOK, Objects, Alone, Inside
  <2> QED BY <2>1, <2>2, <2>3, NothingSent
<1>2. CASE Revoke
  <2>1. valid' = {} /\ UNCHANGED <<token, objects, thread, lock, writing, saved, issued, dead, oauthFaults,
                                   oauthCrashes, spent, resent, lost, outdated>>
    BY <1>2 DEF Revoke
  <2>2. OAuthTypeOK' /\ Alone'
    BY <2>1 DEF OAuthInv, OAuthTypeOK, Alone, Inside
  <2> QED BY <2>1, <2>2, NothingSent
<1>3. CASE UNCHANGED oauthVars
  <2>1. UNCHANGED <<token, objects, thread, lock, writing, saved, issued, valid, dead, oauthFaults,
                    oauthCrashes, spent, resent, lost, outdated>>
    BY <1>3 DEF oauthVars
  <2>2. OAuthTypeOK' /\ Alone'
    BY <2>1 DEF OAuthInv, OAuthTypeOK, Alone, Inside
  <2> QED BY <2>1, <2>2, NothingSent
<1> QED BY <1>1, <1>2, <1>3, AuthoriseStep, ClearStep, OthersStep, SnapshotStep, WriteStep, RestartStep,
           GetStep, EnterStep, SendStep, StoreStep, RefusedStep DEF OAuthNext

-----------------------------------------------------------------------------
\* The invariant holds for any threads, with other users of the tenant or without,
\* and for any number of authorisations, faults and restarts
\* (oauth_store.py:97-214, 303-515).
THEOREM OAuthInvariant == OAuthSpec => []OAuthInv
<1>1. OAuthInit => OAuthInv
  BY OAuthStarts
<1>2. OAuthInv /\ [OAuthNext]_oauthVars => OAuthInv'
  BY OAuthStep
<1> QED BY <1>1, <1>2, PTL DEF OAuthSpec

\* A spent refresh token is sent again only if its successor was lost or Redis was
\* left with it, and when nobody saves Redis is left behind for the reasons of the
\* code only, however snapshots and writes interleave
\* (oauth_store.py:97-127, 372-378, 433-515).
THEOREM TokensAreSound == OAuthSpec => []TokensSound
<1>1. OAuthInv => TokensSound
  BY DEF OAuthInv, TokensSound, RefreshOnce, SavedIsCurrent, Writes, SavedGood, Coming
<1> QED BY <1>1, OAuthInvariant, PTL

-----------------------------------------------------------------------------
(* Provisioning                                                            *)

Reviewing(c, r) == review[c].at # "idle" /\ review[c].of = r
Clean(r) == r \notin contested \cup broken

OneReview ==
  \A r \in Requests \ contested : \A c, d \in Reviewers :
    Reviewing(c, r) /\ Reviewing(d, r) => c = d

Undecided ==
  \A r \in Requests, c \in Reviewers : Clean(r) /\ Reviewing(c, r) =>
    /\ status[r] = "pending"
    /\ review[c].at = "reject" => ~Made(r) /\ r \notin live

\* A quota that has been charged for instances only.
Fair(q) == (\A r \in q.deploys : Made(r)) /\ Cardinality(q.deploys) <= q.used

Charging ==
  \A c \in Reviewers :
    /\ review[c].at \in {"count", "pay"} => Made(review[c].of)
    /\ review[c].at = "pay" => Fair(review[c].seen)

ProvisioningInv ==
  ProvisionTypeOK /\ OutcomeMatches /\ ChargedForInstances /\ OneReview /\ Undecided /\ Charging

-----------------------------------------------------------------------------
\* A container at a review has a request, and a quota in hand when it is about
\* to write one (provision_approval.py:205-340).
LEMMA ReviewTypes ==
  ASSUME ProvisionTypeOK, NEW c \in Reviewers
  PROVE  /\ review[c] = NoReview \/ review[c].of \in Requests
         /\ review[c].at # "idle" => review[c].of \in Requests
         /\ review[c].at = "pay" => review[c].seen \in Quotas
         /\ NoReview \in Reviews /\ NoReview.at = "idle"
BY DEF ProvisionTypeOK, Reviews, NoReview

LEMMA UnderReviewMeans ==
  ASSUME NEW r
  PROVE  r \in UnderReview <=> \E c \in Reviewers : Reviewing(c, r)
BY DEF UnderReview, Reviewing

\* The next step of a review is about the same request.
LEMMA GoesFacts ==
  ASSUME ProvisionTypeOK, NEW c \in Reviewers, review[c].at # "idle",
         NEW to \in {"provision", "count", "publish", "save"}, ReviewGoes(c, to)
  PROVE  /\ review' \in [Reviewers -> Reviews]
         /\ review'[c].at = to /\ review'[c].of = review[c].of
         /\ \A d \in Reviewers \ {c} : review'[d] = review[d]
         /\ \A d \in Reviewers : \A r : Reviewing(d, r)' <=> Reviewing(d, r)
<1>1. review' = [review EXCEPT ![c] = [at |-> to, of |-> review[c].of]]
  BY DEF ReviewGoes
<1>2. review \in [Reviewers -> Reviews] /\ review[c].of \in Requests
  BY ReviewTypes DEF ProvisionTypeOK
<1>3. [at |-> to, of |-> review[c].of] \in Reviews
  BY <1>2 DEF Reviews
<1>4. review'[c] = [at |-> to, of |-> review[c].of]
  BY <1>1, <1>2
<1>5. \A d \in Reviewers \ {c} : review'[d] = review[d]
  BY <1>1, <1>2
<1>6. review' \in [Reviewers -> Reviews]
  BY <1>1, <1>2, <1>3
<1>7. review'[c].at = to /\ review'[c].of = review[c].of /\ to # "idle"
  BY <1>4
<1> QED BY <1>5, <1>6, <1>7 DEF Reviewing

\* A review that has ended is nobody's.
LEMMA EndsFacts ==
  ASSUME ProvisionTypeOK, NEW c \in Reviewers, ReviewEnds(c)
  PROVE  /\ review' \in [Reviewers -> Reviews] /\ review'[c].at = "idle"
         /\ \A d \in Reviewers \ {c} : review'[d] = review[d]
         /\ \A d \in Reviewers : \A r : Reviewing(d, r)' <=> Reviewing(d, r) /\ d # c
<1>1. review \in [Reviewers -> Reviews] /\ NoReview \in Reviews /\ NoReview.at = "idle"
  BY ReviewTypes DEF ProvisionTypeOK
<1>2. review' = [review EXCEPT ![c] = NoReview]
  BY DEF ReviewEnds
<1> QED BY <1>1, <1>2 DEF Reviewing

\* Charging a fair quota for an instance leaves a fair one
\* (deploy_quota.py:112-159).
LEMMA Charge ==
  ASSUME NEW q \in Quotas, Fair(q), NEW r \in Requests, Made(r),
         NEW p, p = [total |-> q.total, used |-> q.used + 1, deploys |-> q.deploys \cup {r}]
  PROVE  p \in Quotas /\ Fair(p)
<1>1. IsFiniteSet(q.deploys)
  BY FS_Subset, ProvisioningConstants DEF Quotas
<1>2. Cardinality(q.deploys \cup {r}) <= Cardinality(q.deploys) + 1 /\ Cardinality(q.deploys) \in Nat
      /\ Cardinality(q.deploys \cup {r}) \in Nat
  <2>1. PICK D : D = q.deploys
    OBVIOUS
  <2>2. /\ Cardinality(D \cup {r}) = IF r \in D THEN Cardinality(D) ELSE Cardinality(D) + 1
        /\ IsFiniteSet(D \cup {r})
    BY <1>1, <2>1, FS_AddElement
  <2>3. Cardinality(D) \in Nat
    BY <1>1, <2>1, FS_CardinalityType
  <2> QED BY <2>1, <2>2, <2>3
<1>3. q.used \in Nat /\ q.total \in Nat /\ q.deploys \subseteq Requests
  BY DEF Quotas
<1>4. p \in Quotas
  BY <1>3 DEF Quotas
<1>5. Cardinality(p.deploys) <= p.used
  <2>1. p.deploys = q.deploys \cup {r} /\ p.used = q.used + 1 /\ Cardinality(q.deploys) <= q.used
    BY DEF Fair
  <2> QED BY <1>2, <1>3, <2>1
<1>6. \A x \in p.deploys : Made(x)
  BY DEF Fair
<1> QED BY <1>4, <1>5, <1>6 DEF Fair

\* A step on the way from the first look at a request to its approval, which can
\* only add to what has been made for it (provision_approval.py:216-326).
LEMMA StepOfReview ==
  ASSUME ProvisioningInv, NEW c \in Reviewers, NEW r, r = review[c].of,
         review[c].at \notin {"idle", "reject"},
         NEW at, at \notin {"idle", "reject"},
         review'[c].at = at, review'[c].of = r,
         \A d \in Reviewers \ {c} : review'[d] = review[d],
         \A d \in Reviewers : made[d] \subseteq made'[d],
         \A x \in Requests \ {r} : Made(x)' => Made(x),
         live' \subseteq live \cup {r},
         UNCHANGED <<status, creds, contested, broken>>
  PROVE  OutcomeMatches' /\ OneReview' /\ Undecided' /\ (\A x \in Requests : Made(x) => Made(x)')
<1>1. \A d \in Reviewers : \A x : Reviewing(d, x)' <=> Reviewing(d, x)
  BY DEF Reviewing
<1>2. \A x : x \in UnderReview' <=> x \in UnderReview
  BY <1>1 DEF UnderReview, Reviewing
<1>3. r \in UnderReview
  BY DEF UnderReview
<1>4. OutcomeMatches'
  BY <1>2, <1>3 DEF ProvisioningInv, OutcomeMatches
<1>5. OneReview'
  BY <1>1 DEF ProvisioningInv, OneReview
<1>6. Undecided'
  <2> SUFFICES ASSUME NEW x \in Requests, NEW d \in Reviewers, Clean(x)', Reviewing(d, x)'
               PROVE  /\ status'[x] = "pending"
                      /\ review'[d].at = "reject" => ~Made(x)' /\ x \notin live'
    BY DEF Undecided
  <2>1. Clean(x) /\ Reviewing(d, x)
    BY <1>1 DEF Clean
  <2>2. CASE x = r
    <3>1. d = c
      BY <2>1, <2>2 DEF ProvisioningInv, OneReview, Clean, Reviewing
    <3> QED BY <2>1, <3>1 DEF ProvisioningInv, Undecided
  <2>3. CASE x # r
    <3>1. d # c /\ review'[d] = review[d]
      BY <2>1, <2>3 DEF Reviewing
    <3> QED BY <2>1, <2>3, <3>1 DEF ProvisioningInv, Undecided
  <2> QED BY <2>2, <2>3
<1>7. \A x \in Requests : Made(x) => Made(x)'
  BY DEF Made
<1> QED BY <1>4, <1>5, <1>6, <1>7

\* What has been charged stays fair while instances are only added.
LEMMA FairOn ==
  ASSUME NEW q \in Quotas, Fair(q), \A x \in Requests : Made(x) => Made(x)'
  PROVE  Fair(q)'
BY DEF Fair, Quotas

\* A review that ends leaves the others as they were.
LEMMA EndOfReview ==
  ASSUME ProvisioningInv, NEW c \in Reviewers, review[c].at # "idle", ReviewEnds(c),
         NEW r, r = review[c].of,
         UNCHANGED <<quota, made, live, contested>>, broken \subseteq broken',
         \A x \in Requests \ {r} : status'[x] = status[x] /\ (x \in creds' <=> x \in creds),
         Clean(r)' => /\ Made(r) \/ r \in live => status'[r] = "approved"
                      /\ r \notin creds'
  PROVE  OutcomeMatches' /\ OneReview' /\ Undecided' /\ Charging' /\ ChargedForInstances'
<1>1. /\ ProvisionTypeOK
      /\ \A d \in Reviewers \ {c} : review'[d] = review[d]
      /\ review'[c].at = "idle"
      /\ \A d \in Reviewers : \A x : Reviewing(d, x)' <=> Reviewing(d, x) /\ d # c
  BY EndsFacts DEF ProvisioningInv
<1>2. \A x \in Requests : Made(x)' <=> Made(x)
  BY DEF Made
<1>3. \A x \in Requests : x # r /\ x \in UnderReview => x \in UnderReview'
  <2> SUFFICES ASSUME NEW x \in Requests, x # r, x \in UnderReview PROVE x \in UnderReview'
    OBVIOUS
  <2>1. PICK d \in Reviewers : review[d].at # "idle" /\ review[d].of = x
    BY DEF UnderReview
  <2>2. review'[d] = review[d]
    BY <2>1, <1>1
  <2> QED BY <2>1, <2>2 DEF UnderReview
<1>4. OutcomeMatches'
  <2> SUFFICES ASSUME NEW x \in Requests, x \notin UnderReview', Clean(x)'
               PROVE  /\ Made(x)' \/ x \in live' => status'[x] = "approved"
                      /\ x \in creds' => status'[x] = "pending"
    BY DEF OutcomeMatches, Clean
  <2>1. CASE x = r
    BY <2>1, <1>2
  <2>2. CASE x # r
    BY <2>2, <1>2, <1>3 DEF ProvisioningInv, OutcomeMatches, Clean
  <2> QED BY <2>1, <2>2
<1>5. OneReview'
  BY <1>1 DEF ProvisioningInv, OneReview
<1>6. Undecided'
  <2> SUFFICES ASSUME NEW x \in Requests, NEW d \in Reviewers, Clean(x)', Reviewing(d, x)'
               PROVE  /\ status'[x] = "pending"
                      /\ review'[d].at = "reject" => ~Made(x)' /\ x \notin live'
    BY DEF Undecided
  <2>1. Clean(x) /\ Reviewing(d, x) /\ d # c /\ review'[d] = review[d]
    BY <1>1 DEF Clean
  <2>2. x # r
    BY <2>1 DEF ProvisioningInv, OneReview, Clean, Reviewing
  <2> QED BY <2>1, <2>2, <1>2 DEF ProvisioningInv, Undecided
<1>7. Charging'
  BY <1>1 DEF ProvisioningInv, Charging, Fair, Made
<1>8. ChargedForInstances'
  BY <1>2 DEF ProvisioningInv, ChargedForInstances, Made
<1> QED BY <1>4, <1>5, <1>6, <1>7, <1>8

\* Steps of a review that charge nothing.
LEMMA ChargesKept ==
  ASSUME ProvisioningInv, NEW c \in Reviewers, \A d \in Reviewers \ {c} : review'[d] = review[d],
         \A x \in Requests : Made(x) => Made(x)',
         review'[c].at # "pay", review'[c].at = "count" => Made(review[c].of)', quota' = quota
  PROVE  Charging' /\ ChargedForInstances'
<1>1. ASSUME NEW d \in Reviewers \ {c}
      PROVE  /\ review'[d].at \in {"count", "pay"} => Made(review[d].of)'
             /\ review'[d].at = "pay" => Fair(review[d].seen)'
  <2>1. review'[d] = review[d]
    OBVIOUS
  <2>2. /\ review[d].at # "idle" => review[d].of \in Requests
        /\ review[d].at = "pay" => review[d].seen \in Quotas
    BY ReviewTypes DEF ProvisioningInv
  <2>3. review'[d].at \in {"count", "pay"} => Made(review[d].of)'
    <3>1. ASSUME NEW x \in Requests, Made(x) PROVE Made(x)'
      BY <3>1
    <3>2. PICK x : x = review[d].of
      OBVIOUS
    <3> QED BY <2>1, <2>2, <3>1, <3>2 DEF ProvisioningInv, Charging, Made
  <2>4. ASSUME review'[d].at = "pay" PROVE Fair(review[d].seen)'
    <3>1. PICK q : q = review[d].seen
      OBVIOUS
    <3>2. q \in Quotas /\ Fair(q)
      BY <2>1, <2>2, <2>4, <3>1 DEF ProvisioningInv, Charging
    <3>3. Fair(q)'
      BY <3>2, FairOn
    <3> QED BY <2>1, <3>1, <3>3 DEF Fair, Made
  <2> QED BY <2>3, <2>4
<1>2. Charging'
  BY <1>1 DEF Charging
<1>3. ChargedForInstances'
  <2>1. quota.deploys \subseteq Requests
    BY DEF ProvisioningInv, ProvisionTypeOK, Quotas
  <2> QED BY <2>1 DEF ProvisioningInv, ChargedForInstances
<1> QED BY <1>2, <1>3

-----------------------------------------------------------------------------
\* A user whose hash is not there, or was not read, has been charged for nothing.
LEMMA NewUserFair == NewUser \in Quotas /\ Fair(NewUser)
<1>1. Cardinality({}) = 0
  BY FS_EmptySet
<1> QED BY <1>1, ProvisioningConstants DEF NewUser, Quotas, Fair, Made

LEMMA ProvisioningInit == ASSUME ProvisionInit PROVE ProvisioningInv
<1>1. NoReview \in Reviews /\ NoReview.at = "idle"
  BY DEF Reviews, NoReview
<1>2. Cardinality({}) = 0
  BY FS_EmptySet
<1>3. quota \in Quotas /\ quota.used = 0 /\ quota.deploys = {}
  BY ProvisioningConstants DEF ProvisionInit, NewUser, Quotas
<1>4. ProvisionTypeOK
  BY <1>1, <1>3, ProvisioningConstants DEF ProvisionInit, ProvisionTypeOK
<1>5. \A c \in Reviewers : review[c].at = "idle"
  BY <1>1 DEF ProvisionInit
<1>6. OutcomeMatches /\ ChargedForInstances
  BY <1>2, <1>3 DEF ProvisionInit, OutcomeMatches, ChargedForInstances, Made
<1>7. OneReview /\ Undecided /\ Charging
  BY <1>5 DEF OneReview, Undecided, Charging, Reviewing
<1> QED BY <1>4, <1>6, <1>7 DEF ProvisioningInv

\* A review that is opened is the only one, or the request is contested
\* (provision_approval.py:205-215, 346-354).
LEMMA OpenStep ==
  ASSUME ProvisioningInv, NEW c \in Reviewers, NEW r \in Requests,
         NEW first \in {"creds", "reject"}, Open(c, r, first)
  PROVE  ProvisioningInv'
<1>1. PICK new : new = [at |-> first, of |-> r]
  OBVIOUS
<1>2. new \in Reviews /\ new.at = first /\ new.of = r
  BY <1>1 DEF Reviews
<1>3. /\ review' = [review EXCEPT ![c] = new] /\ review[c].at = "idle" /\ status[r] = "pending"
      /\ UNCHANGED <<requestVars, made, live, provisionMishaps, broken>>
      /\ contested' = IF r \in UnderReview THEN contested \cup {r} ELSE contested
      /\ review \in [Reviewers -> Reviews]
  BY <1>1 DEF Open, Reviewable, ProvisioningInv, ProvisionTypeOK
<1>4. \A d \in Reviewers : \A x : Reviewing(d, x)' <=> Reviewing(d, x) \/ (d = c /\ x = r)
  BY <1>2, <1>3 DEF Reviewing
<1>5. \A x : x \in UnderReview' <=> x \in UnderReview \cup {r}
  <2>1. ASSUME NEW x PROVE x \in UnderReview' <=> \E d \in Reviewers : Reviewing(d, x)'
    BY DEF UnderReview, Reviewing
  <2>2. ASSUME NEW x PROVE x \in UnderReview <=> \E d \in Reviewers : Reviewing(d, x)
    BY UnderReviewMeans
  <2> QED BY <2>1, <2>2, <1>4
<1>6. ProvisionTypeOK'
  <2>1. review' \in [Reviewers -> Reviews] /\ contested' \subseteq Requests
    BY <1>2, <1>3 DEF ProvisioningInv, ProvisionTypeOK
  <2> QED BY <1>3, <2>1 DEF ProvisioningInv, ProvisionTypeOK, requestVars
<1>7. OutcomeMatches'
  BY <1>3, <1>5 DEF ProvisioningInv, OutcomeMatches, Made, requestVars
<1>8. OneReview'
  <2> SUFFICES ASSUME NEW x \in Requests \ contested', NEW d \in Reviewers, NEW e \in Reviewers,
                      Reviewing(d, x)', Reviewing(e, x)'
               PROVE  d = e
    BY DEF OneReview
  <2>1. x \notin contested
    BY <1>3
  <2>2. CASE x # r
    BY <2>1, <2>2, <1>4 DEF ProvisioningInv, OneReview
  <2>3. CASE x = r
    <3>1. ~Reviewing(d, r) /\ ~Reviewing(e, r)
      BY <2>3, <1>3, UnderReviewMeans
    <3> QED BY <3>1, <2>3, <1>4
  <2> QED BY <2>2, <2>3
<1>9. Undecided'
  <2> SUFFICES ASSUME NEW x \in Requests, NEW d \in Reviewers, Clean(x)', Reviewing(d, x)'
               PROVE  /\ status'[x] = "pending"
                      /\ review'[d].at = "reject" => ~Made(x)' /\ x \notin live'
    BY DEF Undecided
  <2>1. Clean(x) /\ status' = status /\ live' = live /\ (Made(x)' <=> Made(x))
    BY <1>3 DEF Clean, Made, requestVars
  <2>2. CASE Reviewing(d, x) /\ d # c
    BY <2>1, <2>2, <1>3 DEF ProvisioningInv, Undecided
  <2>3. CASE d = c /\ x = r
    <3>1. r \notin UnderReview
      BY <1>3, <2>3 DEF Clean
    <3>2. ~Made(r) /\ r \notin live
      BY <3>1, <2>1, <2>3, <1>3 DEF ProvisioningInv, OutcomeMatches, Clean
    <3> QED BY <3>2, <2>1, <2>3, <1>3
  <2>4. ~(Reviewing(d, x) /\ d = c)
    BY <1>3 DEF Reviewing
  <2> QED BY <2>2, <2>3, <2>4, <1>4
<1>10. Charging' /\ ChargedForInstances'
  <2>1. \A x \in Requests : Made(x) => Made(x)'
    BY <1>3 DEF Made
  <2>2. review'[c].at = first /\ \A d \in Reviewers \ {c} : review'[d] = review[d]
    BY <1>2, <1>3
  <2> QED BY <2>1, <2>2, <1>3, ChargesKept DEF requestVars
<1> QED BY <1>6, <1>7, <1>8, <1>9, <1>10 DEF ProvisioningInv

\* The steps of a review up to its last write (provision_approval.py:216-326,
\* deploy_quota.py:112-159).
LEMMA ReviewStep ==
  ASSUME ProvisioningInv, NEW c \in Reviewers,
         LoadCreds(c) \/ Provision(c) \/ Count(c) \/ Pay(c) \/ Publish(c)
  PROVE  ProvisioningInv'
<1>0. PICK r : r = review[c].of
  OBVIOUS
<1>1. ProvisionTypeOK /\ (review[c].at # "idle" => r \in Requests)
  BY <1>0, ReviewTypes DEF ProvisioningInv
<1>2. CASE LoadCreds(c)
  <2>1. PICK to \in {"provision", "publish"} : ReviewGoes(c, to)
    BY <1>2 DEF LoadCreds
  <2>2. /\ review' \in [Reviewers -> Reviews] /\ review'[c].at = to /\ review'[c].of = r
        /\ \A d \in Reviewers \ {c} : review'[d] = review[d]
    BY <1>0, <1>1, <1>2, <2>1, GoesFacts DEF LoadCreds
  <2>3. UNCHANGED <<status, creds, quota, made, live, provisionMishaps, contested, broken>>
    BY <1>2 DEF LoadCreds, requestVars
  <2>4. OutcomeMatches' /\ OneReview' /\ Undecided' /\ (\A x \in Requests : Made(x) => Made(x)')
    BY <1>0, <1>2, <2>2, <2>3, StepOfReview DEF LoadCreds, Made
  <2>5. Charging' /\ ChargedForInstances'
    BY <2>2, <2>3, <2>4, ChargesKept
  <2> QED BY <1>1, <2>2, <2>3, <2>4, <2>5 DEF ProvisioningInv, ProvisionTypeOK
<1>3. CASE Provision(c)
  <2>1. PICK to \in {"count", "publish"} : ReviewGoes(c, to) /\ (to = "count" => r \in made'[c])
    BY <1>0, <1>1, <1>3 DEF Provision, ProvisionTypeOK
  <2>2. /\ review' \in [Reviewers -> Reviews] /\ review'[c].at = to /\ review'[c].of = r
        /\ \A d \in Reviewers \ {c} : review'[d] = review[d]
    BY <1>0, <1>1, <1>3, <2>1, GoesFacts DEF Provision
  <2>3. /\ UNCHANGED <<status, creds, quota, live, contested, broken>>
        /\ made' \in {made, [made EXCEPT ![c] = @ \cup {r}]}
        /\ made' \in [Reviewers -> SUBSET Requests] /\ provisionMishaps' \in 0 .. MaxProvisionMishaps
    BY <1>0, <1>1, <1>3, ProvisioningConstants DEF Provision, requestVars, ProvisionTypeOK, Mishap
  <2>4. /\ \A d \in Reviewers : made[d] \subseteq made'[d]
        /\ \A x \in Requests \ {r} : Made(x)' => Made(x)
    BY <1>1, <2>3 DEF Made, ProvisionTypeOK
  <2>5. OutcomeMatches' /\ OneReview' /\ Undecided' /\ (\A x \in Requests : Made(x) => Made(x)')
    BY <1>0, <1>3, <2>2, <2>3, <2>4, StepOfReview DEF Provision
  <2>6. review'[c].at = "count" => Made(review[c].of)'
    BY <2>1, <2>2 DEF Made
  <2>7. Charging' /\ ChargedForInstances'
    BY <2>2, <2>3, <2>5, <2>6, ChargesKept
  <2> QED BY <1>1, <2>2, <2>3, <2>5, <2>7 DEF ProvisioningInv, ProvisionTypeOK
<1>4. CASE Count(c)
  <2>0. PICK seen \in {quota, NewUser} :
          /\ review' = [review EXCEPT ![c] = [at |-> "pay", of |-> r, seen |-> seen]]
          /\ (seen = quota /\ UNCHANGED provisionMishaps) \/ (seen = NewUser /\ Mishap)
    BY <1>0, <1>1, <1>4 DEF Count
  <2>1. PICK new : new = [at |-> "pay", of |-> r, seen |-> seen]
    OBVIOUS
  <2>2. new \in Reviews /\ new.at = "pay" /\ new.of = r /\ new.seen = seen
    BY <1>1, <1>4, <2>1, NewUserFair DEF Count, Reviews, ProvisionTypeOK
  <2>3. /\ review' = [review EXCEPT ![c] = new] /\ review[c].at = "count"
        /\ provisionMishaps' \in 0 .. MaxProvisionMishaps
        /\ UNCHANGED <<status, creds, quota, made, live, contested, broken>>
    <3>1. review' = [review EXCEPT ![c] = new] /\ review[c].at = "count"
      BY <1>4, <2>0, <2>1 DEF Count
    <3>2. provisionMishaps' \in 0 .. MaxProvisionMishaps
      BY <1>1, <2>0, ProvisioningConstants DEF Mishap, ProvisionTypeOK
    <3>3. UNCHANGED <<status, creds, quota, made, live, contested, broken>>
      BY <1>4 DEF Count, requestVars
    <3> QED BY <3>1, <3>2, <3>3
  <2>4. /\ review' \in [Reviewers -> Reviews] /\ review'[c] = new
        /\ \A d \in Reviewers \ {c} : review'[d] = review[d]
    BY <1>1, <2>2, <2>3 DEF ProvisionTypeOK
  <2>5. OutcomeMatches' /\ OneReview' /\ Undecided' /\ (\A x \in Requests : Made(x) => Made(x)')
    BY <1>0, <2>2, <2>3, <2>4, StepOfReview DEF Made
  <2>6. Fair(seen) /\ Made(r)
    <3>1. Fair(quota) /\ Made(r)
      BY <1>0, <2>3 DEF ProvisioningInv, ChargedForInstances, Charging, Fair
    <3> QED BY <3>1, NewUserFair
  <2>7. Charging'
    <3>1. \A d \in Reviewers \ {c} : review[d].at \in {"count", "pay"} => Made(review[d].of)
      BY DEF ProvisioningInv, Charging
    <3>2. \A d \in Reviewers \ {c} : review[d].at = "pay" => Fair(review[d].seen)
      BY DEF ProvisioningInv, Charging
    <3> QED BY <3>1, <3>2, <2>2, <2>3, <2>4, <2>6 DEF Charging, Fair, Made
  <2>8. ChargedForInstances'
    BY <2>3 DEF ProvisioningInv, ChargedForInstances, Made
  <2> QED BY <1>1, <2>3, <2>4, <2>5, <2>7, <2>8 DEF ProvisioningInv, ProvisionTypeOK
<1>5. CASE Pay(c)
  <2>1. PICK old, new : /\ old = review[c].seen
                        /\ new = [total |-> old.total, used |-> old.used + 1, deploys |-> old.deploys \cup {r}]
    OBVIOUS
  <2>2. /\ review' \in [Reviewers -> Reviews] /\ review'[c].at = "publish" /\ review'[c].of = r
        /\ \A d \in Reviewers \ {c} : review'[d] = review[d]
    BY <1>0, <1>1, <1>5, GoesFacts DEF Pay
  <2>3. /\ UNCHANGED <<status, creds, made, live, contested, broken>>
        /\ quota' \in {quota, new} /\ provisionMishaps' \in 0 .. MaxProvisionMishaps
    BY <1>0, <1>1, <1>5, <2>1, ProvisioningConstants DEF Pay, ProvisionTypeOK, Mishap
  <2>4. OutcomeMatches' /\ OneReview' /\ Undecided' /\ (\A x \in Requests : Made(x) => Made(x)')
    BY <1>0, <1>5, <2>2, <2>3, StepOfReview DEF Pay, Made
  <2>5. new \in Quotas /\ Fair(new)
    <3>1. old \in Quotas /\ Fair(old) /\ Made(r) /\ r \in Requests
      BY <1>0, <1>1, <1>5, <2>1, ReviewTypes DEF Pay, ProvisioningInv, Charging
    <3> QED BY <3>1, <2>1, Charge
  <2>6. quota' \in Quotas /\ ChargedForInstances'
    <3>1. quota \in Quotas /\ Fair(quota)
      BY <1>1 DEF ProvisionTypeOK, ProvisioningInv, ChargedForInstances, Fair
    <3>2. \A x : Made(x)' <=> Made(x)
      BY <2>3 DEF Made
    <3> QED BY <3>1, <3>2, <2>3, <2>5 DEF ChargedForInstances, Fair
  <2>7. Charging'
    BY <2>2, <2>3 DEF ProvisioningInv, Charging, Fair, Made
  <2> QED BY <1>1, <2>2, <2>3, <2>4, <2>6, <2>7 DEF ProvisioningInv, ProvisionTypeOK
<1>6. CASE Publish(c)
  <2>1. /\ review' \in [Reviewers -> Reviews] /\ review'[c].at = "save" /\ review'[c].of = r
        /\ \A d \in Reviewers \ {c} : review'[d] = review[d]
    BY <1>0, <1>1, <1>6, GoesFacts DEF Publish
  <2>2. /\ UNCHANGED <<status, creds, quota, made, contested, broken>>
        /\ live' \subseteq live \cup {r} /\ live' \subseteq Requests /\ provisionMishaps' \in 0 .. MaxProvisionMishaps
    BY <1>0, <1>1, <1>6, ProvisioningConstants DEF Publish, requestVars, ProvisionTypeOK, Mishap
  <2>3. OutcomeMatches' /\ OneReview' /\ Undecided' /\ (\A x \in Requests : Made(x) => Made(x)')
    BY <1>0, <1>6, <2>1, <2>2, StepOfReview DEF Publish, Made
  <2>4. Charging' /\ ChargedForInstances'
    BY <2>1, <2>2, <2>3, ChargesKept
  <2> QED BY <1>1, <2>1, <2>2, <2>3, <2>4 DEF ProvisioningInv, ProvisionTypeOK
<1> QED BY <1>2, <1>3, <1>4, <1>5, <1>6

LEMMA EndStep ==
  ASSUME ProvisioningInv, NEW c \in Reviewers, SaveReview(c) \/ SaveFails(c) \/ Die(c)
  PROVE  ProvisioningInv'
<1>0. PICK r : r = review[c].of
  OBVIOUS
<1>1. /\ ProvisionTypeOK /\ review[c].at # "idle" /\ r \in Requests /\ ReviewEnds(c) /\ review' \in [Reviewers -> Reviews]
      /\ UNCHANGED <<quota, made, live, contested>>
  BY <1>0, ReviewTypes, EndsFacts DEF ProvisioningInv, SaveReview, SaveFails, Die, requestVars
<1>2. CASE SaveReview(c)
  <2>1. /\ status' = [status EXCEPT ![r] = IF review[c].at = "save" THEN "approved" ELSE "rejected"]
        /\ creds' = creds \ {r} /\ UNCHANGED <<provisionMishaps, broken>>
        /\ review[c].at \in {"save", "reject"}
    BY <1>0, <1>2 DEF SaveReview
  <2>2. Clean(r)' => (Made(r) \/ r \in live => status'[r] = "approved") /\ r \notin creds'
    BY <1>0, <1>1, <2>1 DEF ProvisioningInv, Undecided, Clean, Reviewing, ProvisionTypeOK
  <2>3. \A x \in Requests \ {r} : status'[x] = status[x] /\ (x \in creds' <=> x \in creds)
    BY <1>1, <2>1 DEF ProvisionTypeOK
  <2>4. OutcomeMatches' /\ OneReview' /\ Undecided' /\ Charging' /\ ChargedForInstances'
    BY <1>0, <1>1, <2>1, <2>2, <2>3, EndOfReview
  <2> QED BY <1>1, <2>1, <2>4 DEF ProvisioningInv, ProvisionTypeOK
<1>3. CASE SaveFails(c) \/ Die(c)
  <2>1. /\ broken' = broken \cup {r} /\ UNCHANGED <<status, creds>>
        /\ provisionMishaps' \in 0 .. MaxProvisionMishaps
    BY <1>0, <1>1, <1>3, ProvisioningConstants DEF SaveFails, Die, Mishap, requestVars, ProvisionTypeOK
  <2>2. OutcomeMatches' /\ OneReview' /\ Undecided' /\ Charging' /\ ChargedForInstances'
    BY <1>0, <1>1, <2>1, EndOfReview DEF Clean
  <2> QED BY <1>1, <2>1, <2>2 DEF ProvisioningInv, ProvisionTypeOK
<1> QED BY <1>2, <1>3

-----------------------------------------------------------------------------
LEMMA ProvisioningStep ==
  ASSUME ProvisioningInv, [ProvisionNext]_provisionVars
  PROVE  ProvisioningInv'
<1>1. ASSUME NEW r \in Requests, CreateRequest(r) PROVE ProvisioningInv'
  <2>1. /\ status' = [status EXCEPT ![r] = "pending"] /\ status[r] = "none" /\ creds' = creds \cup {r}
        /\ provisionMishaps' \in 0 .. MaxProvisionMishaps
        /\ UNCHANGED <<quota, review, made, live, contested, broken>>
    BY <1>1, ProvisioningConstants DEF CreateRequest, Mishap, ProvisioningInv, ProvisionTypeOK
  <2>2. ProvisionTypeOK'
    BY <2>1 DEF ProvisioningInv, ProvisionTypeOK
  <2>3. OutcomeMatches'
    BY <2>1 DEF ProvisioningInv, OutcomeMatches, UnderReview, Made, ProvisionTypeOK
  <2>4. OneReview' /\ Undecided'
    BY <2>1 DEF ProvisioningInv, OneReview, Undecided, Clean, Reviewing, Made, ProvisionTypeOK
  <2>5. Charging' /\ ChargedForInstances'
    BY <2>1 DEF ProvisioningInv, Charging, ChargedForInstances, Fair, Made
  <2> QED BY <2>2, <2>3, <2>4, <2>5 DEF ProvisioningInv
<1>2. ASSUME NEW r \in Requests, CredsExpire(r) PROVE ProvisioningInv'
  <2>1. creds' \subseteq creds
        /\ UNCHANGED <<status, quota, review, made, live, provisionMishaps, contested, broken>>
    BY <1>2 DEF CredsExpire
  <2>2. ProvisionTypeOK' /\ OutcomeMatches'
    BY <2>1 DEF ProvisioningInv, ProvisionTypeOK, OutcomeMatches, UnderReview, Made
  <2>3. OneReview' /\ Undecided' /\ Charging' /\ ChargedForInstances'
    BY <2>1 DEF ProvisioningInv, OneReview, Undecided, Clean, Reviewing, Charging, ChargedForInstances, Fair, Made
  <2> QED BY <2>2, <2>3 DEF ProvisioningInv
<1>3. CASE SetUserQuota \/ ResetUserQuota
  <2>1. /\ quota' \in Quotas
        /\ UNCHANGED <<status, creds, review, made, live, provisionMishaps, contested, broken>>
        /\ \/ quota'.deploys = quota.deploys /\ quota'.used = quota.used
           \/ quota'.deploys = {} /\ quota'.used = 0
    <3>1. quota \in Quotas /\ Free + 1 \in Nat
      BY ProvisioningConstants DEF ProvisioningInv, ProvisionTypeOK
    <3>2. CASE SetUserQuota
      <4>1. PICK n : n = Free + 1
        OBVIOUS
      <4>2. quota' = [quota EXCEPT !.total = n]
        BY <3>2, <4>1 DEF SetUserQuota
      <4>3. quota' \in Quotas /\ quota'.deploys = quota.deploys /\ quota'.used = quota.used
        BY <3>1, <4>1, <4>2 DEF Quotas
      <4> QED BY <3>2, <4>3 DEF SetUserQuota
    <3>3. CASE ResetUserQuota
      BY <3>1, <3>3 DEF ResetUserQuota, Quotas
    <3> QED BY <1>3, <3>2, <3>3
  <2>2. ProvisionTypeOK' /\ OutcomeMatches'
    BY <2>1 DEF ProvisioningInv, ProvisionTypeOK, OutcomeMatches, UnderReview, Made
  <2>3. OneReview' /\ Undecided' /\ Charging'
    BY <2>1 DEF ProvisioningInv, OneReview, Undecided, Clean, Reviewing, Charging, Fair, Made
  <2>4. ChargedForInstances'
    <3>1. \A x : Made(x)' <=> Made(x)
      BY <2>1 DEF Made
    <3>2. (\A x \in quota.deploys : Made(x)) /\ Cardinality(quota.deploys) <= quota.used
      BY DEF ProvisioningInv, ChargedForInstances
    <3>3. CASE quota'.deploys = quota.deploys /\ quota'.used = quota.used
      BY <3>1, <3>2, <3>3 DEF ChargedForInstances
    <3>4. CASE quota'.deploys = {} /\ quota'.used = 0
      BY <3>4, FS_EmptySet DEF ChargedForInstances
    <3> QED BY <2>1, <3>3, <3>4
  <2> QED BY <2>2, <2>3, <2>4 DEF ProvisioningInv
<1>4. CASE UNCHANGED provisionVars
  <2>1. UNCHANGED <<status, creds, quota, review, made, live, provisionMishaps, contested, broken>>
    BY <1>4 DEF provisionVars, requestVars
  <2>2. ProvisionTypeOK' /\ OutcomeMatches'
    BY <2>1 DEF ProvisioningInv, ProvisionTypeOK, OutcomeMatches, UnderReview, Made
  <2>3. OneReview' /\ Undecided' /\ Charging' /\ ChargedForInstances'
    BY <2>1 DEF ProvisioningInv, OneReview, Undecided, Clean, Reviewing, Charging, ChargedForInstances, Fair, Made
  <2> QED BY <2>2, <2>3 DEF ProvisioningInv
<1> QED BY <1>1, <1>2, <1>3, <1>4, OpenStep, ReviewStep, EndStep DEF ProvisionNext

-----------------------------------------------------------------------------
\* The invariant holds for any finite set of requests and any containers
\* (provision_approval.py:205-354).
THEOREM ProvisioningInvariant == ProvisionSpec => []ProvisioningInv
<1>1. ProvisionInit => ProvisioningInv
  BY ProvisioningInit
<1>2. ProvisioningInv /\ [ProvisionNext]_provisionVars => ProvisioningInv'
  BY ProvisioningStep
<1> QED BY <1>1, <1>2, PTL DEF ProvisionSpec

\* The status of a request and the charges of its user agree with what has been
\* made (provision_approval.py:229-336, deploy_quota.py:112-159).
THEOREM ReviewsAreSound == ProvisionSpec => []ReviewsSound
<1>1. ProvisioningInv => ReviewsSound
  BY DEF ProvisioningInv, ReviewsSound
<1> QED BY <1>1, ProvisioningInvariant, PTL

-----------------------------------------------------------------------------
(* Instances                                                               *)

\* A container that runs without being registered is a ghost, or about to be
\* registered.
GhostsKnown ==
  \A b \in Bots : boxes[b] # 0 /\ ports[b] = 0 =>
    b \in ghosts \/ (deed.at = "register" /\ deed.bot = b)

\* What provision is going to register: a bot alone in its home, on a free port.
Founded ==
  deed.at \in {"up", "register"} =>
    /\ ports[deed.bot] = 0 /\ homes[deed.bot].bots = {deed.bot}
    /\ deed.port # 0 /\ \A c \in Bots : ports[c] # deed.port

\* An owner lives in its home, and whoever is not loose in one home at most, which
\* is registered or about to be.
Owner ==
  /\ \A h \in Bots : homes[h] # NoHome => h \in homes[h].bots
  /\ deed.at = "unroute" => deed.bot \in homes[deed.bot].bots
OneHome ==
  \A b \in Bots \ loose : \A g, h \in Homes(b) :
    /\ g = h
    /\ ports[h] # 0 \/ (deed.at \in {"up", "register"} /\ deed.bot = h)

\* A route leads home; who has a home has a route.
LeadsHome(b) == routes[b] # 0 => \E h \in Homes(b) : ports[h] = routes[b]
HasRoute(b) == Homes(b) \cap Registered # {} => routes[b] # 0

\* The bot whose route the operation under way has still to set, or has already
\* taken away.
Routing(b) ==
  deed.at \in {"route", "hosted", "left", "down", "unconf", "remove"} /\ deed.bot = b
OnItsWay(b) ==
  /\ deed.at \in {"route", "hosted"} => deed.port # 0 /\ \E h \in Homes(b) : ports[h] = deed.port
  /\ deed.at = "left" => Homes(b) = {}
  /\ deed.at \in {"down", "unconf", "remove"} =>
       /\ LeadsHome(b)
       /\ IF b \in homes[b].bots THEN routes[b] = 0 ELSE HasRoute(b)

Routed ==
  \A b \in Bots \ loose :
    IF Routing(b) THEN OnItsWay(b) ELSE LeadsHome(b) /\ HasRoute(b)

InstancesInv ==
  /\ InstancesTypeOK /\ PortsApart
  /\ GhostsKnown /\ Founded /\ Owner /\ OneHome /\ Routed

USE DEF boxVars

LEMMA Zero == 0 \in PortNumbers /\ Ports \subseteq PortNumbers
BY InstancesConstants DEF PortNumbers, PortUnknown, Ports

\* The parts of the type, and of an operation under way.
LEMMA InstanceTypes ==
  ASSUME InstancesTypeOK
  PROVE  /\ ports \in [Bots -> PortNumbers] /\ boxes \in [Bots -> PortNumbers]
         /\ confs \in [Bots -> PortNumbers] /\ nginx \in [Bots -> PortNumbers]
         /\ routes \in [Bots -> PortNumbers]
         /\ homes \in [Bots -> [bots: SUBSET Bots, port: PortNumbers]]
         /\ instanceMishaps \in 0 .. MaxInstanceMishaps
         /\ alive \subseteq Bots /\ promised \subseteq Bots /\ ghosts \subseteq Bots
         /\ loose \subseteq Bots
         /\ deed \in {NoDeed} \cup [at: Steps, bot: Bots, port: PortNumbers]
BY DEF InstancesTypeOK

LEMMA TypedInstances ==
  ASSUME ports' \in [Bots -> PortNumbers], boxes' \in [Bots -> PortNumbers],
         confs' \in [Bots -> PortNumbers], nginx' \in [Bots -> PortNumbers],
         routes' \in [Bots -> PortNumbers],
         homes' \in [Bots -> [bots: SUBSET Bots, port: PortNumbers]],
         instanceMishaps' \in 0 .. MaxInstanceMishaps,
         alive' \subseteq Bots, promised' \subseteq Bots, ghosts' \subseteq Bots, loose' \subseteq Bots,
         deed' \in {NoDeed} \cup [at: Steps, bot: Bots, port: PortNumbers]
  PROVE  InstancesTypeOK'
BY DEF InstancesTypeOK

LEMMA DeedIs ==
  ASSUME InstancesTypeOK
  PROVE  /\ deed = NoDeed <=> deed.at = "idle"
         /\ deed.at # "idle" => deed.bot \in Bots /\ deed.port \in PortNumbers /\ deed.at \in Steps
<1>1. CASE deed = NoDeed
  BY <1>1 DEF NoDeed
<1>2. CASE deed \in [at: Steps, bot: Bots, port: PortNumbers]
  <2>1. deed.at \in Steps /\ deed.at # "idle" /\ deed.bot \in Bots /\ deed.port \in PortNumbers
    BY <1>2 DEF Steps
  <2> QED BY <2>1 DEF NoDeed
<1> QED BY <1>1, <1>2, InstanceTypes

LEMMA ThenIs ==
  ASSUME NEW step \in Steps, NEW n \in Bots, NEW p \in PortNumbers, Then(step, n, p)
  PROVE  /\ deed' \in {NoDeed} \cup [at: Steps, bot: Bots, port: PortNumbers]
         /\ deed'.at = step /\ deed'.bot = n /\ deed'.port = p
BY DEF Then

LEMMA MishapCounted ==
  ASSUME InstancesTypeOK, InstanceMishap
  PROVE  instanceMishaps' \in 0 .. MaxInstanceMishaps
BY InstanceTypes, InstancesConstants DEF InstanceMishap

\* A bot about which, and about whose home, nothing changes.
LEMMA StaysRouted ==
  ASSUME NEW b \in Bots, LeadsHome(b), HasRoute(b), Homes(b)' = Homes(b), routes'[b] = routes[b],
         \A h \in Homes(b) : ports'[h] = ports[h]
  PROVE  LeadsHome(b)' /\ HasRoute(b)'
BY DEF LeadsHome, HasRoute, Registered, Homes

LEMMA NotRouting ==
  ASSUME InstancesInv, NEW b \in Bots \ loose,
         deed.at \in {"idle", "up", "register", "reload", "unroute"} \/ deed.bot # b
  PROVE  LeadsHome(b) /\ HasRoute(b)
BY DEF InstancesInv, Routed, Routing

-----------------------------------------------------------------------------
(* provision *)

\* allocate_port finds the least port that is not registered (provisioner.py:331).
LEMMA PortIsUnused == ASSUME Unused # {} PROVE Min(Unused) \in Unused
<1>1. Unused \subseteq Nat /\ Unused # {}
  BY InstancesConstants DEF Unused, Ports
<1> DEFINE S == Unused
<1> HIDE DEF S
<1>2. PICK s \in S : \A o \in S : ~(<<o, s>> \in OpToRel(<, Nat))
  BY <1>1, NatLessThanWellFounded, WFMin DEF S
<1>3. ASSUME NEW o \in S PROVE s <= o
  <2>1. s \in Nat /\ o \in Nat
    BY <1>1 DEF S
  <2>2. o < s => <<o, s>> \in OpToRel(<, Nat)
    BY <2>1 DEF OpToRel
  <2>3. ~(o < s)
    BY <1>2, <2>2, Zenon
  <2> QED BY <2>1, <2>3
<1>4. \E s2 \in S : \A y \in S : s2 <= y
  BY <1>3
<1>5. Min(S) = CHOOSE x \in S : \A y \in S : x <= y
  BY DEF Min
<1> QED BY <1>4, <1>5 DEF S

\* The home is made, for a bot that has none registered.
LEMMA ProvisionFilesStep ==
  ASSUME InstancesInv, NEW n \in Bots, ProvisionFiles(n)
  PROVE  InstancesInv'
<1> DEFINE p == Min(Unused)
           home == [bots |-> {n}, port |-> p]
<1>1. /\ deed = NoDeed /\ ports[n] = 0 /\ Unused # {}
      /\ homes' = [homes EXCEPT ![n] = home] /\ confs' = [confs EXCEPT ![n] = p]
      /\ Then("up", n, p)
      /\ loose' = loose \cup (homes[n].bots \ {n}) \cup (IF Homes(n) \subseteq {n} THEN {} ELSE {n})
      /\ UNCHANGED <<ports, boxVars, nginx, routes, instanceMishaps, promised, ghosts>>
  BY DEF ProvisionFiles, Registered
<1>2. p \in Ports /\ p # 0 /\ \A c \in Bots : ports[c] # p
  BY <1>1, PortIsUnused, InstancesConstants DEF Unused, Ports
<1> HIDE DEF p
<1>3. p \in PortNumbers
  BY <1>2, Zero
<1>4. /\ deed' \in {NoDeed} \cup [at: Steps, bot: Bots, port: PortNumbers]
      /\ deed'.at = "up" /\ deed'.bot = n /\ deed'.port = p
  BY <1>1, <1>3, ThenIs DEF Steps
<1>5. InstancesTypeOK /\ deed.at = "idle"
  BY <1>1, DeedIs DEF InstancesInv
<1>6. /\ homes \in [Bots -> [bots: SUBSET Bots, port: PortNumbers]]
      /\ home \in [bots: SUBSET Bots, port: PortNumbers] /\ home.bots = {n}
  BY <1>3, <1>5, InstanceTypes
<1> HIDE DEF home
<1>7. /\ homes'[n] = home /\ \A h \in Bots \ {n} : homes'[h] = homes[h]
      /\ homes' \in [Bots -> [bots: SUBSET Bots, port: PortNumbers]]
  BY <1>1, <1>6
<1>8. loose \subseteq loose' /\ loose' \subseteq Bots
  BY <1>1, <1>5, <1>6, InstanceTypes
<1>9. InstancesTypeOK'
  BY <1>1, <1>3, <1>4, <1>5, <1>7, <1>8, InstanceTypes, TypedInstances
<1>10. PortsApart' /\ GhostsKnown'
  BY <1>1, <1>5 DEF InstancesInv, PortsApart, GhostsKnown, Registered
<1>11. Founded' /\ Owner'
  BY <1>1, <1>2, <1>4, <1>6, <1>7 DEF InstancesInv, Founded, Owner
<1>12. \A b \in Bots \ loose' : b # n => Homes(b)' = Homes(b)
  BY <1>1, <1>6, <1>7 DEF Homes
<1>13. n \notin loose' => Homes(n) \subseteq {n} /\ Homes(n)' = {n}
  BY <1>1, <1>6, <1>7 DEF Homes
<1>14. OneHome'
  <2> SUFFICES ASSUME NEW b \in Bots \ loose', NEW g \in Homes(b)', NEW h \in Homes(b)'
               PROVE  g = h /\ (ports'[h] # 0 \/ (deed'.at \in {"up", "register"} /\ deed'.bot = h))
    BY DEF OneHome
  <2>1. CASE b = n
    BY <1>4, <1>13, <2>1
  <2>2. CASE b # n
    BY <1>1, <1>5, <1>8, <1>12, <2>2 DEF InstancesInv, OneHome
  <2> QED BY <2>1, <2>2
<1>15. ASSUME NEW b \in Bots \ loose' PROVE LeadsHome(b)' /\ HasRoute(b)'
  <2>1. LeadsHome(b) /\ HasRoute(b)
    BY <1>5, <1>8, NotRouting
  <2>2. CASE b # n
    BY <1>1, <1>12, <2>1, <2>2, StaysRouted
  <2>3. CASE b = n
    BY <1>1, <1>13, <2>1, <2>3 DEF LeadsHome, HasRoute, Registered
  <2> QED BY <2>2, <2>3
<1>16. Routed'
  BY <1>4, <1>15 DEF Routed, Routing
<1> QED BY <1>9, <1>10, <1>11, <1>14, <1>16 DEF InstancesInv

\* The number of an instance is new: whoever lives elsewhere keeps its way.
LEMMA NewPortStaysRouted ==
  ASSUME InstancesInv, deed.at \in {"up", "register"},
         ports' = [ports EXCEPT ![deed.bot] = deed.port],
         UNCHANGED <<homes, routes>>, NEW b \in Bots \ loose, b # deed.bot
  PROVE  LeadsHome(b)' /\ HasRoute(b)'
<1>1. InstancesTypeOK /\ Founded /\ deed.bot \in Bots /\ LeadsHome(b) /\ HasRoute(b)
  BY DeedIs, NotRouting DEF InstancesInv
<1>2. ports \in [Bots -> PortNumbers]
  BY <1>1, InstanceTypes
<1>3. Homes(b)' = Homes(b) /\ deed.bot \notin Homes(b)
  BY <1>1 DEF Homes, Founded
<1>4. \A h \in Homes(b) : ports'[h] = ports[h]
  BY <1>2, <1>3 DEF Homes
<1> QED BY <1>1, <1>3, <1>4, StaysRouted

\* The port that is registered was free: no two instances share it.
LEMMA NewPortIsApart ==
  ASSUME InstancesInv, deed.at \in {"up", "register"},
         ports' = [ports EXCEPT ![deed.bot] = deed.port], UNCHANGED ghosts
  PROVE  PortsApart' /\ ports' \in [Bots -> PortNumbers] /\ ports'[deed.bot] # 0
<1>1. /\ InstancesTypeOK /\ Founded /\ PortsApart /\ deed.bot \in Bots
      /\ deed.port \in PortNumbers
  BY DeedIs DEF InstancesInv
<1>2. ports \in [Bots -> PortNumbers]
  BY <1>1, InstanceTypes
<1>3. /\ ports'[deed.bot] = deed.port /\ deed.port # 0
      /\ \A c \in Bots : ports[c] # deed.port
      /\ \A c \in Bots \ {deed.bot} : ports'[c] = ports[c]
  BY <1>1, <1>2 DEF Founded
<1>4. \A b, c \in Bots : b # c /\ ports'[b] # 0 /\ ports'[c] # 0 /\ ports'[b] = ports'[c]
                                 /\ ports'[b] # PortUnknown
        => {b, c} \cap ghosts # {}
  BY <1>1, <1>3 DEF PortsApart, Registered
<1>5. PortsApart'
  BY <1>4 DEF PortsApart, Registered
<1> QED BY <1>1, <1>2, <1>3, <1>5

\* docker compose up succeeds.
LEMMA UpStep == ASSUME InstancesInv, Up PROVE InstancesInv'
<1> DEFINE n == deed.bot
<1>1. /\ deed.at = "up" /\ boxes' = [boxes EXCEPT ![n] = deed.port] /\ alive' = alive \cup {n}
      /\ Then("register", n, deed.port)
      /\ UNCHANGED <<ports, homes, pathVars, instanceMishaps, promised, ghosts, loose>>
  BY DEF Up, DeedAt, MakeBox, StartBox
<1>2. InstancesTypeOK /\ n \in Bots /\ deed.port \in PortNumbers
  BY <1>1, DeedIs DEF InstancesInv
<1>3. /\ deed' \in {NoDeed} \cup [at: Steps, bot: Bots, port: PortNumbers]
      /\ deed'.at = "register" /\ deed'.bot = n /\ deed'.port = deed.port
  BY <1>1, <1>2, ThenIs DEF Steps
<1>4. boxes' \in [Bots -> PortNumbers] /\ alive' \subseteq Bots /\ \A b \in Bots \ {n} : boxes'[b] = boxes[b]
  BY <1>1, <1>2, InstanceTypes
<1>5. InstancesTypeOK'
  BY <1>1, <1>2, <1>3, <1>4, InstanceTypes, TypedInstances DEF pathVars
<1>6. PortsApart' /\ GhostsKnown'
  BY <1>1, <1>3, <1>4 DEF InstancesInv, PortsApart, GhostsKnown, Registered
<1>7. Founded' /\ Owner'
  BY <1>1, <1>3 DEF InstancesInv, Founded, Owner
<1>8. OneHome'
  BY <1>1, <1>3 DEF InstancesInv, OneHome, Homes
<1>9. ASSUME NEW b \in Bots \ loose' PROVE LeadsHome(b)' /\ HasRoute(b)'
  BY <1>1, NotRouting, StaysRouted DEF Homes, pathVars
<1>10. Routed'
  BY <1>3, <1>9 DEF Routed, Routing
<1> QED BY <1>5, <1>6, <1>7, <1>8, <1>10 DEF InstancesInv

\* compose up fails: registered as an error, without a route.
LEMMA UpFailsStep == ASSUME InstancesInv, UpFails PROVE InstancesInv'
<1>1. /\ deed.at = "up" /\ alive' \subseteq alive
      /\ boxes' = boxes \/ \E p \in {0, deed.port} : boxes' = [boxes EXCEPT ![deed.bot] = p]
      /\ ports' = [ports EXCEPT ![deed.bot] = deed.port]
      /\ deed' = NoDeed /\ loose' = loose \cup {deed.bot}
      /\ UNCHANGED <<homes, pathVars, promised, ghosts>>
      /\ UNCHANGED instanceMishaps \/ InstanceMishap
  BY DEF UpFails, DeedAt, MakeBox, EndBox
<1>2. InstancesTypeOK /\ deed.bot \in Bots /\ deed.port \in PortNumbers
  BY <1>1, DeedIs DEF InstancesInv
<1>3. PortsApart' /\ ports' \in [Bots -> PortNumbers] /\ ports'[deed.bot] # 0
  BY <1>1, NewPortIsApart
<1>4. /\ boxes' \in [Bots -> PortNumbers] /\ alive' \subseteq Bots
      /\ \A b \in Bots \ {deed.bot} : boxes'[b] = boxes[b] /\ ports'[b] = ports[b]
  <2>1. boxes \in [Bots -> PortNumbers] /\ ports \in [Bots -> PortNumbers] /\ alive' \subseteq Bots
    BY <1>1, <1>2, InstanceTypes
  <2>2. \A b \in Bots \ {deed.bot} : ports'[b] = ports[b]
    BY <1>1, <2>1
  <2>3. CASE boxes' = boxes
    BY <2>1, <2>2, <2>3
  <2>4. ASSUME NEW p \in {0, deed.port}, boxes' = [boxes EXCEPT ![deed.bot] = p]
        PROVE  boxes' \in [Bots -> PortNumbers] /\ \A b \in Bots \ {deed.bot} : boxes'[b] = boxes[b]
    <3>1. p \in PortNumbers
      BY <1>2, Zero
    <3> QED BY <2>1, <2>4, <3>1
  <2> QED BY <1>1, <2>1, <2>2, <2>3, <2>4
<1>5. instanceMishaps' \in 0 .. MaxInstanceMishaps
  BY <1>1, <1>2, InstanceTypes, MishapCounted
<1>6. InstancesTypeOK'
  BY <1>1, <1>2, <1>3, <1>4, <1>5, InstanceTypes, TypedInstances DEF pathVars
<1>7. deed'.at = "idle"
  BY <1>1 DEF NoDeed
<1>8. GhostsKnown' /\ Founded' /\ Owner'
  BY <1>1, <1>3, <1>4, <1>7 DEF InstancesInv, GhostsKnown, Founded, Owner
<1>9. OneHome'
  BY <1>1, <1>3, <1>4 DEF InstancesInv, OneHome, Homes
<1>10. ASSUME NEW b \in Bots \ loose' PROVE LeadsHome(b)' /\ HasRoute(b)'
  BY <1>1, NewPortStaysRouted DEF pathVars
<1>11. Routed'
  BY <1>7, <1>10 DEF Routed, Routing
<1> QED BY <1>3, <1>6, <1>8, <1>9, <1>11 DEF InstancesInv

\* compose up hangs: nothing is registered, whether or not the container runs.
LEMMA UpTimesOutStep == ASSUME InstancesInv, UpTimesOut PROVE InstancesInv'
<1>1. /\ deed.at = "up" /\ InstanceMishap
      /\ boxes' \in {boxes, [boxes EXCEPT ![deed.bot] = deed.port]}
      /\ alive' \subseteq alive \cup {deed.bot}
      /\ ghosts' = ghosts \cup {deed.bot} /\ loose' = loose \cup {deed.bot}
      /\ deed' = NoDeed
      /\ UNCHANGED <<ports, homes, pathVars, promised>>
  BY DEF UpTimesOut, DeedAt, MakeBox, StartBox, EndBox
<1>2. InstancesTypeOK /\ deed.bot \in Bots /\ deed.port \in PortNumbers
  BY <1>1, DeedIs DEF InstancesInv
<1>3. /\ boxes' \in [Bots -> PortNumbers] /\ alive' \subseteq Bots
      /\ \A b \in Bots \ {deed.bot} : boxes'[b] = boxes[b]
  BY <1>1, <1>2, InstanceTypes
<1>4. ghosts' \subseteq Bots /\ loose' \subseteq Bots
  BY <1>1, <1>2, InstanceTypes
<1>5. InstancesTypeOK'
  BY <1>1, <1>2, <1>3, <1>4, InstanceTypes, MishapCounted, TypedInstances DEF pathVars
<1>6. deed'.at = "idle"
  BY <1>1 DEF NoDeed
<1>7. PortsApart' /\ GhostsKnown'
  BY <1>1, <1>3 DEF InstancesInv, PortsApart, GhostsKnown, Registered
<1>8. Founded' /\ Owner'
  BY <1>1, <1>6 DEF InstancesInv, Founded, Owner
<1>9. OneHome'
  BY <1>1 DEF InstancesInv, OneHome, Homes, Founded
<1>10. ASSUME NEW b \in Bots \ loose' PROVE LeadsHome(b)' /\ HasRoute(b)'
  BY <1>1, NotRouting, StaysRouted DEF Homes, pathVars
<1>11. Routed'
  BY <1>6, <1>10 DEF Routed, Routing
<1> QED BY <1>5, <1>7, <1>8, <1>9, <1>11 DEF InstancesInv

\* The registry has the instance; its route is still to be set.
LEMMA RegisterInstanceStep == ASSUME InstancesInv, RegisterInstance PROVE InstancesInv'
<1> DEFINE n == deed.bot
<1>1. /\ deed.at = "register" /\ ports' = [ports EXCEPT ![n] = deed.port]
      /\ Then("route", n, deed.port)
      /\ UNCHANGED <<homes, boxVars, pathVars, instanceMishaps, promised, ghosts, loose>>
  BY DEF RegisterInstance, DeedAt
<1>2. InstancesTypeOK /\ n \in Bots /\ deed.port \in PortNumbers
  BY <1>1, DeedIs DEF InstancesInv
<1>3. PortsApart' /\ ports' \in [Bots -> PortNumbers] /\ ports'[n] # 0
  BY <1>1, NewPortIsApart
<1>4. /\ deed' \in {NoDeed} \cup [at: Steps, bot: Bots, port: PortNumbers]
      /\ deed'.at = "route" /\ deed'.bot = n /\ deed'.port = deed.port
  BY <1>1, <1>2, ThenIs DEF Steps
<1>5. InstancesTypeOK'
  BY <1>1, <1>2, <1>3, <1>4, InstanceTypes, TypedInstances DEF pathVars
<1>6. ports'[n] = deed.port /\ \A b \in Bots \ {n} : ports'[b] = ports[b]
  BY <1>1, <1>2, InstanceTypes
<1>7. GhostsKnown' /\ Founded' /\ Owner'
  BY <1>1, <1>3, <1>4, <1>6 DEF InstancesInv, GhostsKnown, Founded, Owner
<1>8. OneHome'
  BY <1>1, <1>3, <1>4, <1>6 DEF InstancesInv, OneHome, Homes
<1>9. deed'.port # 0 /\ \E h \in Homes(n)' : ports'[h] = deed'.port
  BY <1>1, <1>2, <1>4, <1>6 DEF InstancesInv, Founded, Homes
<1>10. OnItsWay(n)'
  BY <1>4, <1>9 DEF OnItsWay
<1>11. ASSUME NEW b \in Bots \ loose', b # n PROVE LeadsHome(b)' /\ HasRoute(b)'
  BY <1>1, <1>11, NewPortStaysRouted DEF pathVars
<1>12. Routed'
  BY <1>4, <1>10, <1>11 DEF Routed, Routing
<1> QED BY <1>3, <1>5, <1>7, <1>8, <1>12 DEF InstancesInv

-----------------------------------------------------------------------------
(* Steps that leave the registry and the homes alone *)

\* Nothing runs that did not run, and nobody moves.
LEMMA QuietStep ==
  ASSUME InstancesInv, UNCHANGED <<ports, homes, ghosts>>, loose \subseteq loose',
         \A b \in Bots : boxes'[b] \in {boxes[b], 0},
         deed.at \notin {"up", "register"}, deed'.at \notin {"up", "register"},
         deed'.at = "unroute" => deed'.bot \in homes[deed'.bot].bots
  PROVE  PortsApart' /\ GhostsKnown' /\ Founded' /\ Owner' /\ OneHome'
<1>1. PortsApart' /\ GhostsKnown'
  BY DEF InstancesInv, PortsApart, GhostsKnown, Registered
<1>2. Founded' /\ Owner'
  BY DEF InstancesInv, Founded, Owner
<1>3. OneHome'
  BY DEF InstancesInv, OneHome, Homes
<1> QED BY <1>1, <1>2, <1>3

\* A write of the route of the operation's bot, or its failure.
LEMMA RouteIs ==
  ASSUME InstancesInv, deed.at # "idle", NEW p \in PortNumbers, RouteTo(p)
  PROVE  /\ routes' \in [Bots -> PortNumbers] /\ loose' \subseteq Bots /\ loose \subseteq loose'
         /\ instanceMishaps' \in 0 .. MaxInstanceMishaps
         /\ \A b \in Bots \ loose' : b # deed.bot => routes'[b] = routes[b]
         /\ deed.bot \notin loose' => routes'[deed.bot] = p
<1>1. InstancesTypeOK /\ deed.bot \in Bots
  BY DeedIs DEF InstancesInv
<1>2. /\ routes \in [Bots -> PortNumbers] /\ loose \subseteq Bots
      /\ instanceMishaps \in 0 .. MaxInstanceMishaps
  BY <1>1, InstanceTypes
<1>3. CASE routes' = [routes EXCEPT ![deed.bot] = p] /\ UNCHANGED <<instanceMishaps, loose>>
  BY <1>1, <1>2, <1>3
<1>4. CASE InstanceMishap /\ loose' = loose \cup {deed.bot} /\ UNCHANGED routes
  BY <1>1, <1>2, <1>4, MishapCounted
<1> QED BY <1>3, <1>4 DEF RouteTo

\* The route is written last: it leads to the bot's home, or there is none to lead to.
LEMMA LastWrite ==
  ASSUME InstancesInv, deed.at \in {"route", "hosted", "left"}, NEW p \in PortNumbers, RouteTo(p),
         p = IF deed.at = "left" THEN 0 ELSE deed.port,
         deed' \in {NoDeed} \cup [at: Steps, bot: Bots, port: PortNumbers],
         deed'.at \in {"idle", "reload"},
         UNCHANGED <<ports, homes, boxes, confs, nginx, promised, ghosts>>, alive' \subseteq Bots
  PROVE  InstancesInv'
<1>1. InstancesTypeOK /\ deed.bot \in Bots
  BY DeedIs DEF InstancesInv
<1> PICK n \in Bots : n = deed.bot
  BY <1>1
<1>2. /\ routes' \in [Bots -> PortNumbers] /\ loose' \subseteq Bots /\ loose \subseteq loose'
      /\ instanceMishaps' \in 0 .. MaxInstanceMishaps
      /\ \A b \in Bots \ loose' : b # n => routes'[b] = routes[b]
      /\ n \notin loose' => routes'[n] = p
  BY RouteIs
<1>3. InstancesTypeOK'
  BY <1>1, <1>2, InstanceTypes, TypedInstances
<1>4. PortsApart' /\ GhostsKnown' /\ Founded' /\ Owner' /\ OneHome'
  BY <1>2, QuietStep
<1>5. ASSUME NEW b \in Bots \ loose', b # n PROVE LeadsHome(b)' /\ HasRoute(b)'
  BY <1>2, <1>5, NotRouting, StaysRouted DEF Homes
<1>6. ASSUME n \notin loose' PROVE LeadsHome(n)' /\ HasRoute(n)'
  <2>1. OnItsWay(n) /\ Homes(n)' = Homes(n) /\ routes'[n] = p
    BY <1>1, <1>2, <1>6 DEF InstancesInv, Routed, Routing, Homes
  <2>2. CASE deed.at = "left"
    BY <2>1, <2>2 DEF OnItsWay, LeadsHome, HasRoute
  <2>3. CASE deed.at \in {"route", "hosted"}
    BY <2>1, <2>3 DEF OnItsWay, LeadsHome, HasRoute
  <2> QED BY <2>2, <2>3
<1>7. Routed'
  BY <1>5, <1>6 DEF Routed, Routing
<1> QED BY <1>3, <1>4, <1>7 DEF InstancesInv

LEMMA SetRouteStep == ASSUME InstancesInv, SetRoute PROVE InstancesInv'
<1>1. /\ deed.at = "route" /\ RouteTo(deed.port) /\ Then("reload", deed.bot, deed.port)
      /\ UNCHANGED <<ports, homes, boxVars, confs, nginx, promised, ghosts>>
  BY DEF SetRoute, DeedAt
<1>2. deed.bot \in Bots /\ deed.port \in PortNumbers
  BY <1>1, DeedIs DEF InstancesInv
<1>3. /\ deed' \in {NoDeed} \cup [at: Steps, bot: Bots, port: PortNumbers]
      /\ deed'.at = "reload"
  BY <1>1, <1>2, ThenIs DEF Steps
<1>4. alive' \subseteq Bots
  BY <1>1, InstanceTypes DEF InstancesInv
<1> QED BY <1>1, <1>2, <1>3, <1>4, LastWrite

\* A restart starts one container at most.
LEMMA RestartsIs ==
  ASSUME InstancesTypeOK, NEW h \in Bots, Restarts(h)
  PROVE  alive' \subseteq Bots
BY InstanceTypes DEF Restarts, StartBox

LEMMA MovedInStep == ASSUME InstancesInv, MovedIn PROVE InstancesInv'
<1>1. /\ deed.at = "hosted" /\ RouteTo(deed.port) /\ deed' = NoDeed
      /\ \E h \in Bots : Restarts(h)
      /\ UNCHANGED <<ports, homes, boxes, confs, nginx, promised, ghosts>>
  BY DEF MovedIn, DeedAt, Homes
<1>2. deed.port \in PortNumbers /\ deed'.at = "idle"
  BY <1>1, DeedIs DEF InstancesInv, NoDeed
<1>3. alive' \subseteq Bots
  BY <1>1, RestartsIs DEF InstancesInv
<1> QED BY <1>1, <1>2, <1>3, LastWrite

LEMMA MovedOutStep == ASSUME InstancesInv, MovedOut PROVE InstancesInv'
<1>1. /\ deed.at = "left" /\ RouteTo(0) /\ deed' = NoDeed
      /\ \E h \in Bots : Restarts(h)
      /\ UNCHANGED <<ports, homes, boxes, confs, nginx, promised, ghosts>>
  BY DEF MovedOut, DeedAt, Registered
<1>2. 0 \in PortNumbers /\ deed'.at = "idle"
  BY <1>1, Zero DEF NoDeed
<1>3. alive' \subseteq Bots
  BY <1>1, RestartsIs DEF InstancesInv
<1> QED BY <1>1, <1>2, <1>3, LastWrite

\* destroy_instance takes the owner's route away first.
LEMMA UnrouteStep == ASSUME InstancesInv, Unroute PROVE InstancesInv'
<1> DEFINE n == deed.bot
<1>1. /\ deed.at = "unroute" /\ RouteTo(0) /\ Then("down", n, 0)
      /\ UNCHANGED <<ports, homes, boxVars, confs, nginx, promised, ghosts>>
  BY DEF Unroute, DeedAt
<1>2. InstancesTypeOK /\ n \in Bots /\ n \in homes[n].bots /\ 0 \in PortNumbers
  BY <1>1, DeedIs, Zero DEF InstancesInv, Owner
<1>3. /\ deed' \in {NoDeed} \cup [at: Steps, bot: Bots, port: PortNumbers]
      /\ deed'.at = "down" /\ deed'.bot = n
  BY <1>1, <1>2, ThenIs DEF Steps
<1>4. /\ routes' \in [Bots -> PortNumbers] /\ loose' \subseteq Bots /\ loose \subseteq loose'
      /\ instanceMishaps' \in 0 .. MaxInstanceMishaps
      /\ \A b \in Bots \ loose' : b # n => routes'[b] = routes[b]
      /\ n \notin loose' => routes'[n] = 0
  BY <1>1, <1>2, RouteIs
<1>5. InstancesTypeOK'
  BY <1>1, <1>2, <1>3, <1>4, InstanceTypes, TypedInstances
<1>6. PortsApart' /\ GhostsKnown' /\ Founded' /\ Owner' /\ OneHome'
  BY <1>1, <1>3, <1>4, QuietStep
<1>7. ASSUME NEW b \in Bots \ loose', b # n PROVE LeadsHome(b)' /\ HasRoute(b)'
  BY <1>1, <1>4, <1>7, NotRouting, StaysRouted DEF Homes
<1>8. n \notin loose' => OnItsWay(n)'
  BY <1>1, <1>2, <1>3, <1>4 DEF OnItsWay, LeadsHome
<1>9. Routed'
  BY <1>3, <1>7, <1>8 DEF Routed, Routing
<1> QED BY <1>5, <1>6, <1>9 DEF InstancesInv

\* nginx reloads what it can.
LEMMA ReloadedIs ==
  ASSUME NEW files \in [Bots -> PortNumbers], nginx \in [Bots -> PortNumbers]
  PROVE  Reloaded(files) \in [Bots -> PortNumbers]
BY DEF Reloaded

LEMMA ReloadStep == ASSUME InstancesInv, Reload PROVE InstancesInv'
<1>1. /\ deed.at = "reload" /\ nginx' = Reloaded(confs) /\ promised' = promised \cup {deed.bot}
      /\ deed' = NoDeed
      /\ UNCHANGED <<ports, homes, boxVars, confs, routes, instanceMishaps, ghosts, loose>>
  BY DEF Reload, DeedAt
<1>2. InstancesTypeOK /\ deed.bot \in Bots /\ deed'.at = "idle"
  BY <1>1, DeedIs DEF InstancesInv, NoDeed
<1>3. nginx' \in [Bots -> PortNumbers] /\ promised' \subseteq Bots
  BY <1>1, <1>2, InstanceTypes, ReloadedIs
<1>4. InstancesTypeOK'
  BY <1>1, <1>2, <1>3, InstanceTypes, TypedInstances
<1>5. PortsApart' /\ GhostsKnown' /\ Founded' /\ Owner' /\ OneHome'
  BY <1>1, <1>2, QuietStep
<1>6. ASSUME NEW b \in Bots \ loose' PROVE LeadsHome(b)' /\ HasRoute(b)'
  BY <1>1, NotRouting, StaysRouted DEF Homes
<1>7. Routed'
  BY <1>2, <1>6 DEF Routed, Routing
<1> QED BY <1>4, <1>5, <1>7 DEF InstancesInv

\* Between the deletion of the route and that of the home nothing is decided.
LEMMA StillOnItsWay ==
  ASSUME InstancesInv, UNCHANGED <<ports, homes, routes, loose>>,
         deed.at \in {"down", "unconf"}, deed'.at \in {"unconf", "remove"}, deed'.bot = deed.bot
  PROVE  Routed'
<1>1. ASSUME NEW b \in Bots \ loose', b # deed.bot PROVE LeadsHome(b)' /\ HasRoute(b)'
  BY <1>1, NotRouting, StaysRouted DEF Homes
<1>2. ASSUME NEW b \in Bots \ loose', b = deed.bot PROVE OnItsWay(b)'
  <2>1. OnItsWay(b)
    BY <1>2 DEF InstancesInv, Routed, Routing
  <2> QED BY <2>1 DEF OnItsWay, LeadsHome, HasRoute, Homes, Registered
<1> QED BY <1>1, <1>2 DEF Routed, Routing

LEMMA DownStep == ASSUME InstancesInv, Down PROVE InstancesInv'
<1>1. /\ deed.at = "down" /\ Then("unconf", deed.bot, 0)
      /\ boxes' \in {boxes, [boxes EXCEPT ![deed.bot] = 0]} /\ alive' \subseteq alive
      /\ UNCHANGED instanceMishaps \/ InstanceMishap
      /\ UNCHANGED <<ports, homes, pathVars, promised, ghosts, loose>>
  BY DEF Down, DeedAt, MakeBox, EndBox
<1>2. InstancesTypeOK /\ deed.bot \in Bots /\ 0 \in PortNumbers
  BY <1>1, DeedIs, Zero DEF InstancesInv
<1>3. boxes \in [Bots -> PortNumbers] /\ alive' \subseteq Bots /\ instanceMishaps' \in 0 .. MaxInstanceMishaps
  BY <1>1, <1>2, InstanceTypes, MishapCounted
<1>4. boxes' \in [Bots -> PortNumbers] /\ \A b \in Bots : boxes'[b] \in {boxes[b], 0}
  BY <1>1, <1>2, <1>3
<1>5. /\ deed' \in {NoDeed} \cup [at: Steps, bot: Bots, port: PortNumbers]
      /\ deed'.at = "unconf" /\ deed'.bot = deed.bot
  BY <1>1, <1>2, ThenIs DEF Steps
<1>6. InstancesTypeOK'
  BY <1>1, <1>2, <1>3, <1>4, <1>5, InstanceTypes, TypedInstances DEF pathVars
<1>7. PortsApart' /\ GhostsKnown' /\ Founded' /\ Owner' /\ OneHome'
  BY <1>1, <1>4, <1>5, QuietStep
<1>8. Routed'
  BY <1>1, <1>5, StillOnItsWay DEF pathVars
<1> QED BY <1>6, <1>7, <1>8 DEF InstancesInv

LEMMA UnconfStep == ASSUME InstancesInv, Unconf PROVE InstancesInv'
<1>1. /\ deed.at = "unconf" /\ Then("remove", deed.bot, 0)
      /\ confs' = [confs EXCEPT ![deed.bot] = 0] /\ nginx' \in {nginx, Reloaded(confs')}
      /\ UNCHANGED <<ports, homes, boxVars, routes, instanceMishaps, promised, ghosts, loose>>
  BY DEF Unconf, DeedAt
<1>2. InstancesTypeOK /\ deed.bot \in Bots /\ 0 \in PortNumbers
  BY <1>1, DeedIs, Zero DEF InstancesInv
<1>3. confs' \in [Bots -> PortNumbers]
  BY <1>1, <1>2, InstanceTypes
<1>4. nginx' \in [Bots -> PortNumbers]
  BY <1>1, <1>2, <1>3, InstanceTypes, ReloadedIs
<1>5. /\ deed' \in {NoDeed} \cup [at: Steps, bot: Bots, port: PortNumbers]
      /\ deed'.at = "remove" /\ deed'.bot = deed.bot
  BY <1>1, <1>2, ThenIs DEF Steps
<1>6. InstancesTypeOK'
  BY <1>1, <1>2, <1>3, <1>4, <1>5, InstanceTypes, TypedInstances
<1>7. PortsApart' /\ GhostsKnown' /\ Founded' /\ Owner' /\ OneHome'
  BY <1>1, <1>5, QuietStep
<1>8. Routed'
  BY <1>1, <1>5, StillOnItsWay
<1> QED BY <1>6, <1>7, <1>8 DEF InstancesInv

\* destroy_instance begins; a container nobody made a home for has no route to lose.
LEMMA DestroyStep == ASSUME InstancesInv, NEW n \in Bots, Destroy(n) PROVE InstancesInv'
<1> DEFINE step == IF homes[n] = NoHome THEN "down" ELSE "unroute"
<1>1. /\ deed = NoDeed /\ Then(step, n, 0)
      /\ UNCHANGED <<ports, homes, boxVars, pathVars, instanceMishaps, promised, ghosts, loose>>
  BY DEF Destroy
<1>2. InstancesTypeOK /\ deed.at = "idle" /\ 0 \in PortNumbers
  BY <1>1, DeedIs, Zero DEF InstancesInv
<1>3. /\ step \in Steps /\ step \in {"down", "unroute"}
      /\ step = "unroute" => n \in homes[n].bots
      /\ step = "down" => n \notin homes[n].bots
  BY DEF Steps, InstancesInv, Owner, NoHome
<1> HIDE DEF step
<1>4. /\ deed' \in {NoDeed} \cup [at: Steps, bot: Bots, port: PortNumbers]
      /\ deed'.at = step /\ deed'.bot = n
  BY <1>1, <1>2, <1>3, ThenIs
<1>5. InstancesTypeOK'
  BY <1>1, <1>2, <1>4, InstanceTypes, TypedInstances DEF pathVars
<1>6. PortsApart' /\ GhostsKnown' /\ Founded' /\ Owner' /\ OneHome'
  BY <1>1, <1>2, <1>3, <1>4, QuietStep
<1>7. ASSUME NEW b \in Bots \ loose' PROVE LeadsHome(b)' /\ HasRoute(b)'
  BY <1>1, <1>2, NotRouting, StaysRouted DEF Homes, pathVars
<1>8. ASSUME NEW b \in Bots \ loose', Routing(b)' PROVE OnItsWay(b)'
  <2>1. b = n /\ step = "down" /\ deed'.at = "down" /\ b \notin (homes[b].bots)'
    BY <1>1, <1>3, <1>4, <1>8 DEF Routing
  <2> QED BY <1>7, <2>1 DEF OnItsWay
<1>9. Routed'
  BY <1>7, <1>8 DEF Routed
<1> QED BY <1>5, <1>6, <1>9 DEF InstancesInv

LEMMA StopStep == ASSUME InstancesInv, NEW n \in Bots, Stop(n) PROVE InstancesInv'
<1>1. /\ deed = NoDeed /\ boxes' \in {boxes, [boxes EXCEPT ![n] = 0]} /\ alive' = alive \ {n}
      /\ promised' = promised \ {n}
      /\ UNCHANGED <<ports, homes, pathVars, deed, instanceMishaps, ghosts, loose>>
  BY DEF Stop, EndBox
<1>2. InstancesTypeOK /\ deed.at = "idle" /\ deed'.at = "idle"
  BY <1>1, DeedIs DEF InstancesInv
<1>3. /\ boxes' \in [Bots -> PortNumbers] /\ \A b \in Bots : boxes'[b] \in {boxes[b], 0}
      /\ promised' \subseteq Bots /\ alive' \subseteq Bots
  BY <1>1, <1>2, InstanceTypes, Zero
<1>4. InstancesTypeOK'
  BY <1>1, <1>2, <1>3, InstanceTypes, TypedInstances DEF pathVars
<1>5. PortsApart' /\ GhostsKnown' /\ Founded' /\ Owner' /\ OneHome'
  BY <1>1, <1>2, <1>3, QuietStep
<1>6. ASSUME NEW b \in Bots \ loose' PROVE LeadsHome(b)' /\ HasRoute(b)'
  BY <1>1, <1>2, NotRouting, StaysRouted DEF Homes, pathVars
<1>7. Routed'
  BY <1>2, <1>6 DEF Routed, Routing
<1> QED BY <1>4, <1>5, <1>7 DEF InstancesInv

-----------------------------------------------------------------------------
(* Bots move, instances come and go *)

\* _cohost_tenant, for both callers (provisioner.py:1128, routes.py).
LEMMA MoveInStep ==
  ASSUME InstancesInv, NEW n \in Bots, NEW host \in Bots, MoveIn(n, host)
  PROVE  InstancesInv'
<1>1. /\ deed = NoDeed /\ ports[host] # 0 /\ homes[host].bots # {} /\ n \notin homes[host].bots
      /\ homes' = [homes EXCEPT ![host].bots = @ \cup {n}]
      /\ Then("hosted", n, ports[host])
      /\ loose' = IF Homes(n) = {} THEN loose ELSE loose \cup {n}
      /\ UNCHANGED <<ports, boxVars, pathVars, instanceMishaps, promised, ghosts>>
  BY DEF MoveIn, Registered
<1>2. InstancesTypeOK /\ deed.at = "idle" /\ ports[host] \in PortNumbers
  BY <1>1, DeedIs, InstanceTypes DEF InstancesInv
<1>3. /\ deed' \in {NoDeed} \cup [at: Steps, bot: Bots, port: PortNumbers]
      /\ deed'.at = "hosted" /\ deed'.bot = n /\ deed'.port = ports[host]
  BY <1>1, <1>2, ThenIs DEF Steps
<1>4. homes \in [Bots -> [bots: SUBSET Bots, port: PortNumbers]]
  BY <1>2, InstanceTypes
<1>5. /\ homes' \in [Bots -> [bots: SUBSET Bots, port: PortNumbers]]
      /\ homes'[host].bots = homes[host].bots \cup {n}
      /\ \A h \in Bots \ {host} : homes'[h] = homes[h]
  BY <1>1, <1>4
<1>6. loose \subseteq loose' /\ loose' \subseteq Bots
  BY <1>1, <1>2, InstanceTypes
<1>7. InstancesTypeOK'
  BY <1>1, <1>2, <1>3, <1>5, <1>6, InstanceTypes, TypedInstances DEF pathVars
<1>8. PortsApart' /\ GhostsKnown'
  BY <1>1, <1>2 DEF InstancesInv, PortsApart, GhostsKnown, Registered
<1>9. host \in homes[host].bots
  BY <1>1 DEF InstancesInv, Owner, NoHome
<1>10. Founded' /\ Owner'
  BY <1>3, <1>5, <1>9 DEF InstancesInv, Founded, Owner
<1>11. \A b \in Bots : b # n => Homes(b)' = Homes(b)
  BY <1>5 DEF Homes
<1>12. n \notin loose' => Homes(n)' = {host}
  BY <1>1, <1>5 DEF Homes
<1>13. OneHome'
  <2> SUFFICES ASSUME NEW b \in Bots \ loose', NEW g \in Homes(b)', NEW h \in Homes(b)'
               PROVE  g = h /\ ports'[h] # 0
    BY DEF OneHome
  <2>1. CASE b = n
    BY <1>1, <1>12, <2>1
  <2>2. CASE b # n
    BY <1>1, <1>2, <1>6, <1>11, <2>2 DEF InstancesInv, OneHome
  <2> QED BY <2>1, <2>2
<1>14. n \notin loose' => OnItsWay(n)'
  BY <1>1, <1>3, <1>12 DEF OnItsWay
<1>15. ASSUME NEW b \in Bots \ loose', b # n PROVE LeadsHome(b)' /\ HasRoute(b)'
  BY <1>1, <1>2, <1>6, <1>11, <1>15, NotRouting, StaysRouted DEF pathVars
<1>16. Routed'
  BY <1>3, <1>14, <1>15 DEF Routed, Routing
<1> QED BY <1>7, <1>8, <1>10, <1>13, <1>16 DEF InstancesInv

\* A co-tenant is taken out of the file; its route is next.
LEMMA RemoveCoTenantStep ==
  ASSUME InstancesInv, NEW n \in Bots, NEW host \in Bots, RemoveCoTenant(n, host)
  PROVE  InstancesInv'
<1>1. /\ deed = NoDeed /\ n # host /\ n \in homes[host].bots
      /\ homes' = [homes EXCEPT ![host].bots = @ \ {n}]
      /\ Then("left", n, ports[host])
      /\ UNCHANGED <<ports, boxVars, pathVars, instanceMishaps, promised, ghosts, loose>>
  BY DEF RemoveCoTenant
<1>2. InstancesTypeOK /\ deed.at = "idle" /\ ports[host] \in PortNumbers
  BY <1>1, DeedIs, InstanceTypes DEF InstancesInv
<1>3. /\ deed' \in {NoDeed} \cup [at: Steps, bot: Bots, port: PortNumbers]
      /\ deed'.at = "left" /\ deed'.bot = n
  BY <1>1, <1>2, ThenIs DEF Steps
<1>4. homes \in [Bots -> [bots: SUBSET Bots, port: PortNumbers]]
  BY <1>2, InstanceTypes
<1>5. /\ homes' \in [Bots -> [bots: SUBSET Bots, port: PortNumbers]]
      /\ homes'[host].bots = homes[host].bots \ {n}
      /\ \A h \in Bots \ {host} : homes'[h] = homes[h]
  BY <1>1, <1>4
<1>6. InstancesTypeOK'
  BY <1>1, <1>2, <1>3, <1>5, InstanceTypes, TypedInstances DEF pathVars
<1>7. PortsApart' /\ GhostsKnown'
  BY <1>1, <1>2 DEF InstancesInv, PortsApart, GhostsKnown, Registered
<1>8. host \in homes[host].bots
  BY <1>1 DEF InstancesInv, Owner, NoHome
<1>9. Founded' /\ Owner'
  BY <1>1, <1>3, <1>5, <1>8 DEF InstancesInv, Founded, Owner
<1>10. \A b \in Bots : b # n => Homes(b)' = Homes(b)
  BY <1>5 DEF Homes
<1>11. n \notin loose' => Homes(n)' = {}
  BY <1>1, <1>5 DEF Homes, InstancesInv, OneHome
<1>12. OneHome'
  <2> SUFFICES ASSUME NEW b \in Bots \ loose', NEW g \in Homes(b)', NEW h \in Homes(b)'
               PROVE  g = h /\ ports'[h] # 0
    BY DEF OneHome
  <2>1. b # n
    BY <1>11
  <2> QED BY <1>1, <1>2, <1>10, <2>1 DEF InstancesInv, OneHome
<1>13. n \notin loose' => OnItsWay(n)'
  BY <1>3, <1>11 DEF OnItsWay
<1>14. ASSUME NEW b \in Bots \ loose', b # n PROVE LeadsHome(b)' /\ HasRoute(b)'
  BY <1>1, <1>2, <1>10, <1>14, NotRouting, StaysRouted DEF pathVars
<1>15. Routed'
  BY <1>3, <1>13, <1>14 DEF Routed, Routing
<1> QED BY <1>6, <1>7, <1>9, <1>12, <1>15 DEF InstancesInv

\* The instance goes; whoever else lived there keeps a route to nowhere, and is loose.
LEMMA RemoveStep == ASSUME InstancesInv, Remove PROVE InstancesInv'
<1>1. InstancesTypeOK /\ deed.at = "remove" /\ deed.bot \in Bots
  BY DeedIs DEF InstancesInv, Remove, DeedAt
<1> PICK n \in Bots : n = deed.bot
  BY <1>1
<1>2. /\ homes' = [homes EXCEPT ![n] = NoHome] /\ ports' = [ports EXCEPT ![n] = 0]
      /\ ghosts' = IF boxes[n] = 0 THEN ghosts ELSE ghosts \cup {n}
      /\ loose' = loose \cup (homes[n].bots \ {n})
      /\ promised' = promised \ {n} /\ deed' = NoDeed
      /\ UNCHANGED <<boxVars, pathVars, instanceMishaps>>
  BY DEF Remove
<1>3. /\ homes \in [Bots -> [bots: SUBSET Bots, port: PortNumbers]]
      /\ ports \in [Bots -> PortNumbers] /\ 0 \in PortNumbers
      /\ NoHome \in [bots: SUBSET Bots, port: PortNumbers] /\ NoHome.bots = {}
  BY <1>1, InstanceTypes, Zero DEF NoHome
<1>4. /\ homes' \in [Bots -> [bots: SUBSET Bots, port: PortNumbers]]
      /\ homes'[n] = NoHome /\ \A h \in Bots \ {n} : homes'[h] = homes[h]
  BY <1>2, <1>3
<1>5. /\ ports' \in [Bots -> PortNumbers]
      /\ ports'[n] = 0 /\ \A h \in Bots \ {n} : ports'[h] = ports[h]
  BY <1>2, <1>3
<1>6. loose \subseteq loose' /\ loose' \subseteq Bots /\ ghosts \subseteq ghosts' /\ ghosts' \subseteq Bots
  BY <1>1, <1>2, <1>3, InstanceTypes
<1>7. deed'.at = "idle"
  BY <1>2 DEF NoDeed
<1>8. InstancesTypeOK'
  BY <1>1, <1>2, <1>4, <1>5, <1>6, InstanceTypes, TypedInstances DEF pathVars
<1>9. PortsApart'
  BY <1>5, <1>6 DEF InstancesInv, PortsApart, Registered
<1>10. GhostsKnown'
  BY <1>1, <1>2, <1>5 DEF InstancesInv, GhostsKnown
<1>11. Founded' /\ Owner'
  BY <1>4, <1>7 DEF InstancesInv, Founded, Owner
<1>12. \A b \in Bots : Homes(b)' = Homes(b) \ {n}
  BY <1>3, <1>4 DEF Homes
<1>13. OneHome'
  BY <1>1, <1>5, <1>6, <1>12 DEF InstancesInv, OneHome, Homes
<1>14. ASSUME NEW b \in Bots \ loose', b # n PROVE LeadsHome(b)' /\ HasRoute(b)'
  <2>1. n \notin Homes(b)
    BY <1>2, <1>14 DEF Homes
  <2>2. Homes(b)' = Homes(b) /\ \A h \in Homes(b) : ports'[h] = ports[h]
    BY <1>5, <1>12, <2>1 DEF Homes
  <2> QED BY <1>2, <1>6, <1>14, <2>2, NotRouting, StaysRouted DEF pathVars
<1>15. ASSUME n \notin loose' PROVE LeadsHome(n)' /\ HasRoute(n)'
  <2>1. LeadsHome(n) /\ IF n \in homes[n].bots THEN routes[n] = 0 ELSE HasRoute(n)
    BY <1>1, <1>6, <1>15 DEF InstancesInv, Routed, Routing, OnItsWay
  <2>2. CASE n \in homes[n].bots
    <3>1. Homes(n) = {n}
      BY <1>6, <1>15, <2>2 DEF InstancesInv, OneHome, Homes
    <3>2. Homes(n)' = {} /\ routes'[n] = 0
      BY <1>2, <1>12, <2>1, <2>2, <3>1 DEF pathVars
    <3> QED BY <3>2 DEF LeadsHome, HasRoute
  <2>3. CASE n \notin homes[n].bots
    <3>1. n \notin Homes(n)
      BY <2>3 DEF Homes
    <3>2. Homes(n)' = Homes(n) /\ \A h \in Homes(n) : ports'[h] = ports[h]
      BY <1>5, <1>12, <3>1 DEF Homes
    <3> QED BY <1>2, <2>1, <2>3, <3>2, StaysRouted DEF pathVars
  <2> QED BY <2>2, <2>3
<1>16. Routed'
  BY <1>7, <1>14, <1>15 DEF Routed, Routing
<1> QED BY <1>8, <1>9, <1>10, <1>11, <1>13, <1>16 DEF InstancesInv

\* The listing brings in every container, a ghost each, with the port on which it
\* runs or with none.
LEMMA DiscoverStep == ASSUME InstancesInv, Discover PROVE InstancesInv'
<1>1. /\ deed = NoDeed
      /\ ports' = [b \in Bots |-> IF ports[b] # 0 \/ boxes[b] = 0 THEN ports[b]
                                  ELSE IF b \in alive THEN boxes[b] ELSE PortUnknown]
      /\ UNCHANGED <<homes, boxVars, pathVars, deed, instanceMishaps, promised, ghosts, loose>>
  BY DEF Discover
<1>2. InstancesTypeOK /\ deed.at = "idle" /\ deed'.at = "idle"
  BY <1>1, DeedIs DEF InstancesInv
<1>3. \A b \in Bots : /\ ports[b] # 0 => ports'[b] = ports[b]
                      /\ ports[b] = 0 => ports'[b] \in {boxes[b], PortUnknown}
                      /\ boxes[b] # 0 => ports'[b] # 0
                      /\ boxes[b] = 0 => ports'[b] = ports[b]
  BY <1>1, Zero, InstancesConstants DEF PortUnknown
<1>4. ports' \in [Bots -> PortNumbers]
  <2>1. PortUnknown \in PortNumbers
    BY InstancesConstants DEF PortNumbers, PortUnknown
  <2> QED BY <1>1, <1>2, <2>1, InstanceTypes
<1>5. InstancesTypeOK'
  BY <1>1, <1>2, <1>4, InstanceTypes, TypedInstances DEF pathVars
<1>6. \A b \in Bots : ports[b] = 0 /\ ports'[b] # 0 => b \in ghosts
  BY <1>2, <1>3 DEF InstancesInv, GhostsKnown
<1>7. PortsApart'
  BY <1>1, <1>3, <1>6 DEF InstancesInv, PortsApart, Registered
<1>8. GhostsKnown' /\ Founded' /\ Owner'
  BY <1>1, <1>2, <1>3 DEF InstancesInv, GhostsKnown, Founded, Owner
<1>9. OneHome'
  BY <1>1, <1>2, <1>3 DEF InstancesInv, OneHome, Homes
<1>10. ASSUME NEW b \in Bots \ loose' PROVE LeadsHome(b)' /\ HasRoute(b)'
  <2>1. \A h \in Homes(b) : ports[h] # 0
    BY <1>1, <1>2 DEF InstancesInv, OneHome
  <2>2. Homes(b)' = Homes(b) /\ \A h \in Homes(b) : ports'[h] = ports[h]
    BY <1>1, <1>3, <2>1 DEF Homes
  <2> QED BY <1>1, <1>2, <2>2, NotRouting, StaysRouted DEF pathVars
<1>11. Routed'
  BY <1>2, <1>10 DEF Routed, Routing
<1> QED BY <1>5, <1>7, <1>8, <1>9, <1>11 DEF InstancesInv

\* Tenants become instances with port 0: no two of them are told apart, and no bot
\* that is not loose has its home among them.
LEMMA DiscoverTenantsStep == ASSUME InstancesInv, DiscoverTenants PROVE InstancesInv'
<1>1. /\ deed = NoDeed
      /\ UNCHANGED <<homes, boxVars, pathVars, deed, instanceMishaps, promised, ghosts, loose>>
  BY DEF DiscoverTenants
<1>2. PICK new \in SUBSET {b \in Bots : ports[b] = 0} :
        ports' = [b \in Bots |-> IF b \in new THEN PortUnknown ELSE ports[b]]
  BY DEF DiscoverTenants
<1>3. InstancesTypeOK /\ deed.at = "idle" /\ deed'.at = "idle"
  BY <1>1, DeedIs DEF InstancesInv
<1>4. PortUnknown \in PortNumbers /\ PortUnknown # 0
  BY InstancesConstants DEF PortNumbers, PortUnknown
<1>5. ports' \in [Bots -> PortNumbers]
  BY <1>2, <1>3, <1>4, InstanceTypes
<1>6. InstancesTypeOK'
  BY <1>1, <1>3, <1>5, InstanceTypes, TypedInstances DEF pathVars
<1>7. \A b \in Bots : /\ ports[b] # 0 => ports'[b] = ports[b]
                      /\ ports'[b] \in {ports[b], PortUnknown}
  BY <1>2
<1>8. PortsApart'
  BY <1>1, <1>7 DEF InstancesInv, PortsApart, Registered
<1>9. GhostsKnown' /\ Founded' /\ Owner'
  BY <1>1, <1>3, <1>4, <1>7 DEF InstancesInv, GhostsKnown, Founded, Owner
<1>10. OneHome'
  BY <1>1, <1>3, <1>7 DEF InstancesInv, OneHome, Homes
<1>11. ASSUME NEW b \in Bots \ loose' PROVE LeadsHome(b)' /\ HasRoute(b)'
  <2>1. \A h \in Homes(b) : ports[h] # 0
    BY <1>1, <1>3 DEF InstancesInv, OneHome
  <2>2. Homes(b)' = Homes(b) /\ \A h \in Homes(b) : ports'[h] = ports[h]
    BY <1>1, <1>7, <2>1 DEF Homes
  <2> QED BY <1>1, <1>3, <2>2, NotRouting, StaysRouted DEF pathVars
<1>12. Routed'
  BY <1>3, <1>11 DEF Routed, Routing
<1> QED BY <1>6, <1>8, <1>9, <1>10, <1>12 DEF InstancesInv

\* The process dies: the operation's bot and its house mates are loose, or, when
\* registry.json is lost, everybody is.
LEMMA InstancesDieStep == ASSUME InstancesInv, InstancesDie PROVE InstancesInv'
<1>1. /\ deed # NoDeed /\ InstanceMishap /\ deed' = NoDeed
      /\ ghosts' = ghosts \cup {b \in Bots : boxes[b] # 0 /\ ports'[b] = 0}
      /\ UNCHANGED <<homes, boxVars, pathVars, promised>>
      /\ \/ ports' = ports /\ loose' = loose \cup {deed.bot} \cup homes[deed.bot].bots
         \/ ports' = Nowhere /\ loose' = Bots
  BY DEF InstancesDie
<1>2. InstancesTypeOK /\ deed.bot \in Bots /\ deed'.at = "idle"
  BY <1>1, DeedIs DEF InstancesInv, NoDeed
<1>3. /\ ports \in [Bots -> PortNumbers] /\ ghosts \subseteq Bots /\ loose \subseteq Bots
      /\ homes[deed.bot].bots \subseteq Bots
  BY <1>2, InstanceTypes
<1>4. /\ ports' \in [Bots -> PortNumbers] /\ ghosts' \subseteq Bots /\ loose' \subseteq Bots
      /\ ghosts \subseteq ghosts' /\ loose \subseteq loose'
  BY <1>1, <1>2, <1>3, Zero DEF Nowhere
<1>5. InstancesTypeOK'
  BY <1>1, <1>2, <1>4, InstanceTypes, MishapCounted, TypedInstances DEF pathVars
<1>6. PortsApart'
  BY <1>1, <1>4 DEF InstancesInv, PortsApart, Registered, Nowhere
<1>7. GhostsKnown' /\ Founded' /\ Owner'
  BY <1>1, <1>2 DEF InstancesInv, GhostsKnown, Founded, Owner
<1>8. CASE ports' = Nowhere /\ loose' = Bots
  BY <1>5, <1>6, <1>7, <1>8 DEF InstancesInv, OneHome, Routed
<1>9. CASE ports' = ports /\ loose' = loose \cup {deed.bot} \cup homes[deed.bot].bots
  <2>1. OneHome'
    BY <1>1, <1>9 DEF InstancesInv, OneHome, Homes
  <2>2. ASSUME NEW b \in Bots \ loose' PROVE LeadsHome(b)' /\ HasRoute(b)'
    BY <1>1, <1>9, NotRouting, StaysRouted DEF Homes, pathVars
  <2>3. Routed'
    BY <1>2, <2>2 DEF Routed, Routing
  <2> QED BY <1>5, <1>6, <1>7, <2>1, <2>3 DEF InstancesInv
<1> QED BY <1>1, <1>8, <1>9

-----------------------------------------------------------------------------
LEMMA InstancesInitially == InstancesInit => InstancesInv
<1> SUFFICES ASSUME InstancesInit PROVE InstancesInv
  OBVIOUS
<1>1. /\ ports = Nowhere /\ boxes = Nowhere /\ confs = Nowhere /\ nginx = Nowhere
      /\ routes = Nowhere /\ homes = [b \in Bots |-> NoHome] /\ deed = NoDeed
      /\ instanceMishaps = 0 /\ alive = {} /\ promised = {} /\ ghosts = {} /\ loose = {}
  BY DEF InstancesInit
<1>2. Nowhere \in [Bots -> PortNumbers] /\ \A b \in Bots : Nowhere[b] = 0
  BY Zero DEF Nowhere
<1>3. NoHome \in [bots: SUBSET Bots, port: PortNumbers] /\ NoHome.bots = {}
  BY Zero DEF NoHome
<1>4. homes \in [Bots -> [bots: SUBSET Bots, port: PortNumbers]] /\ \A b \in Bots : Homes(b) = {}
  BY <1>1, <1>3 DEF Homes
<1>5. InstancesTypeOK
  BY <1>1, <1>2, <1>4, InstancesConstants DEF InstancesTypeOK
<1>6. deed.at = "idle"
  BY <1>1 DEF NoDeed
<1>7. PortsApart /\ GhostsKnown /\ Founded /\ Owner
  BY <1>1, <1>2, <1>6 DEF PortsApart, GhostsKnown, Founded, Owner, Registered
<1>8. OneHome /\ Routed
  BY <1>1, <1>2, <1>4, <1>6 DEF OneHome, Routed, Routing, LeadsHome, HasRoute
<1> QED BY <1>5, <1>7, <1>8 DEF InstancesInv

\* Containers end and start again: nothing else depends on it.
LEMMA InstancesIdle ==
  ASSUME InstancesInv, alive' \subseteq Bots, instanceMishaps' \in 0 .. MaxInstanceMishaps,
         UNCHANGED <<ports, homes, boxes, pathVars, deed, promised, ghosts, loose>>
  PROVE  InstancesInv'
<1> USE DEF pathVars
<1>1. InstancesTypeOK' /\ PortsApart' /\ GhostsKnown' /\ Founded' /\ Owner'
  BY DEF InstancesInv, InstancesTypeOK, PortsApart, GhostsKnown, Founded, Owner, Registered
<1>2. OneHome'
  BY DEF InstancesInv, OneHome, Homes
<1>3. Routed'
  BY DEF InstancesInv, Routed, Routing, OnItsWay, LeadsHome, HasRoute, Homes, Registered
<1> QED BY <1>1, <1>2, <1>3 DEF InstancesInv

LEMMA BoxSteps ==
  ASSUME InstancesInv, NEW h \in Bots, RestartInstance(h) \/ BoxExits(h)
  PROVE  InstancesInv'
<1>1. /\ InstancesTypeOK /\ alive \subseteq Bots
      /\ instanceMishaps \in 0 .. MaxInstanceMishaps
  BY InstanceTypes DEF InstancesInv
<1>2. CASE RestartInstance(h)
  BY <1>1, <1>2, RestartsIs, InstancesIdle DEF RestartInstance
<1>3. CASE BoxExits(h)
  BY <1>1, <1>3, MishapCounted, InstancesIdle DEF BoxExits, EndBox
<1> QED BY <1>2, <1>3

LEMMA InstancesStep == InstancesInv /\ [InstancesNext]_instanceVars => InstancesInv'
<1> SUFFICES ASSUME InstancesInv, [InstancesNext]_instanceVars PROVE InstancesInv'
  OBVIOUS
<1>1. CASE UNCHANGED instanceVars
  BY <1>1, InstancesIdle, InstanceTypes DEF InstancesInv, instanceVars
<1>2. ASSUME NEW b \in Bots,
             ProvisionFiles(b) \/ Destroy(b) \/ Stop(b) \/ RestartInstance(b) \/ BoxExits(b)
      PROVE  InstancesInv'
  BY <1>2, ProvisionFilesStep, DestroyStep, StopStep, BoxSteps
<1>3. ASSUME NEW b \in Bots, NEW h \in Bots,
             Cohost(b, h) \/ AddCoTenant(b, h) \/ RemoveCoTenant(b, h)
      PROVE  InstancesInv'
  BY <1>3, MoveInStep, RemoveCoTenantStep DEF Cohost, AddCoTenant
<1>4. CASE Up \/ UpFails \/ UpTimesOut \/ RegisterInstance \/ SetRoute \/ Reload
  BY <1>4, UpStep, UpFailsStep, UpTimesOutStep, RegisterInstanceStep, SetRouteStep, ReloadStep
<1>5. CASE MovedIn \/ MovedOut \/ Unroute \/ Down \/ Unconf \/ Remove
  BY <1>5, MovedInStep, MovedOutStep, UnrouteStep, DownStep, UnconfStep, RemoveStep
<1>6. CASE Discover \/ DiscoverTenants \/ InstancesDie
  BY <1>6, DiscoverStep, DiscoverTenantsStep, InstancesDieStep
<1> QED BY <1>1, <1>2, <1>3, <1>4, <1>5, <1>6 DEF InstancesNext

\* The invariant holds whatever the bots, their corps, the ports and the mishaps
\* (provisioner.py, every operation of the dashboard and the tools).
THEOREM InstancesInvariant == InstancesSpec => []InstancesInv
<1> QED BY InstancesInitially, InstancesStep, PTL DEF InstancesSpec

\* What the registry, the directories and Redis say of each other, for any number
\* of bots and ports and any number of mishaps: two registered instances share a
\* port only if one is a ghost, and between operations routes and homes agree for
\* every bot that is not loose (provisioner.py:113-129, :331, :417, :1128, :1460).
THEOREM InstancesAreSound == InstancesSpec => []InstancesSound
<1>1. ASSUME InstancesInv PROVE InstancesSound
  <2>1. PortsApart
    BY <1>1 DEF InstancesInv
  <2>2. ASSUME deed = NoDeed, NEW b \in Bots \ loose PROVE LeadsHome(b) /\ HasRoute(b)
    BY <1>1, <2>2, DeedIs, NotRouting DEF InstancesInv
  <2>3. RoutesLead
    BY <2>2 DEF RoutesLead, LeadsHome, HasRoute
  <2> QED BY <2>1, <2>3 DEF InstancesSound
<1>2. InstancesInv => InstancesSound
  BY <1>1
<1> QED BY <1>2, InstancesInvariant, PTL

-----------------------------------------------------------------------------
(* TenantSync                                                              *)

\* What has been stamped and not announced, and what of a tenant a container has
\* still to learn by polling.
Stamped == {change[d] : d \in Containers} \cap Changes
About(m, c, t) == m.tenant = t /\ m.ts > mark[c]
Awaited(c, t) == {m \in Queued \cup Stamped : About(m, c, t)}

\* v is what Redis has of the tenant, or someone is about to announce what it has.
Right(v, t) == v = cfg[t] \/ Owed(t, Containers)

\* A container that is up looks a tenant up, sends its change and announces it, one
\* after the other.
OneByOne ==
  \A c \in Containers :
    /\ Busy(c) => running[c] = "on"
    /\ looked[c] # Nothing => draft[c] = Nothing
    /\ looked[c] # Nothing \/ draft[c] # Nothing => change[c] = Nothing

\* Time stamps are of the past, those under way differ, and a container is not past
\* its own.
Stamps ==
  /\ \A c \in Containers : mark[c] <= clock
  /\ \A m \in Queued : m.ts <= clock
  /\ \A c \in Containers : change[c] # Nothing =>
       /\ running[c] = "on" /\ change[c].by = c /\ mark[c] < change[c].ts /\ change[c].ts <= clock
       /\ \A d \in Containers : change[d] # Nothing /\ change[d].ts = change[c].ts => c = d

\* Nothing newer is announced before an announcement that is awaited.
InTurn(c, t) ==
  /\ \A i \in DOMAIN queue : About(queue[i], c, t) => \A j \in 1 .. i - 1 : queue[j].ts < queue[i].ts
  /\ \A m \in Stamped : About(m, c, t) => \A n \in Queued : n.ts < m.ts

\* Nor anything of others before the container's own.
OwnFirst(c, t) ==
  \A i \in DOMAIN queue : About(queue[i], c, t) /\ queue[i].by = c =>
    \A j \in 1 .. i - 1 : About(queue[j], c, t) => queue[j].by = c

\* The newest that is awaited tells what Redis has.
Newest(c, t) ==
  /\ Awaited(c, t) = {} => Right(reg[c][t], t)
  /\ Awaited(c, t) # {} =>
       \E m \in Awaited(c, t) :
         /\ Right(m.ver, t) /\ \A n \in Awaited(c, t) : n.ts <= m.ts
         /\ m \in Queued /\ m.by = c => reg[c][t] = m.ver

Live(c, t) == running[c] = "on" /\ <<c, t>> \notin behind
Informed(c, t) == Live(c, t) => InTurn(c, t) /\ OwnFirst(c, t) /\ Newest(c, t)

SyncInv ==
  /\ SyncTypeOK /\ Stamps /\ OneByOne
  /\ \A c \in Containers, t \in Tenants :
       /\ Informed(c, t)
       /\ running[c] = "loaded" /\ <<c, t>> \notin behind => Right(reg[c][t], t)

-----------------------------------------------------------------------------
\* Induction up to a number.
LEMMA UpTo ==
  ASSUME NEW n \in Nat, NEW good, 0 \in good, \A i \in 1 .. n : i - 1 \in good => i \in good
  PROVE  0 .. n \subseteq good
<1> PICK bad : bad = {i \in 0 .. n : i \notin good}
  OBVIOUS
<1>1. SUFFICES ASSUME bad # {} PROVE FALSE
  OBVIOUS
<1>2. PICK i \in bad : \A j \in bad : ~(j < i)
  <2>1. bad \subseteq Nat
    OBVIOUS
  <2>2. PICK i \in bad : \A j \in bad : <<j, i>> \notin OpToRel(<, Nat)
    BY <1>1, <2>1, NatLessThanWellFounded, WFMin
  <2> QED BY <2>1, <2>2 DEF OpToRel
<1>3. i # 0 /\ i - 1 \in 0 .. n /\ i \in 1 .. n
  OBVIOUS
<1>4. i - 1 \in good
  BY <1>2, <1>3
<1> QED BY <1>3, <1>4

\* What is known after each message of the queue q.
Course(f, n, q, c, s) == f = [i \in 0 .. n |-> IF i = 0 THEN s ELSE Processed(c, f[i - 1], q[i])]

\* A poll has a result.
LEMMA PollExists ==
  ASSUME NEW n \in Nat, NEW q, NEW c, NEW s
  PROVE  \E f : Course(f, n, q, c, s)
<1> PICK good : good = {k \in 0 .. n : \E f : Course(f, k, q, c, s)}
  OBVIOUS
<1>1. 0 \in good
  <2> PICK f : f = [i \in 0 .. 0 |-> s]
    OBVIOUS
  <2>1. f = [i \in 0 .. 0 |-> IF i = 0 THEN s ELSE Processed(c, f[i - 1], q[i])]
    OBVIOUS
  <2> QED BY <2>1 DEF Course
<1>2. ASSUME NEW k \in 1 .. n, k - 1 \in good PROVE k \in good
  <2>1. PICK f : f = [i \in 0 .. k - 1 |-> IF i = 0 THEN s ELSE Processed(c, f[i - 1], q[i])]
    BY <1>2 DEF Course
  <2> PICK last : last = Processed(c, f[k - 1], q[k])
    OBVIOUS
  <2> PICK g : g = [i \in 0 .. k |-> IF i = k THEN last ELSE f[i]]
    OBVIOUS
  <2>2. ASSUME NEW i \in 0 .. k PROVE g[i] = IF i = 0 THEN s ELSE Processed(c, g[i - 1], q[i])
    <3>1. CASE i = k
      <4>1. g[i] = last /\ g[i - 1] = f[k - 1]
        BY <3>1
      <4> QED BY <3>1, <4>1
    <3>2. CASE i # k
      <4>1. i \in 0 .. k - 1 /\ g[i] = f[i] /\ (i # 0 => g[i - 1] = f[i - 1])
        BY <3>2
      <4> QED BY <2>1, <4>1
    <3> QED BY <3>1, <3>2
  <2>3. g = [i \in 0 .. k |-> IF i = 0 THEN s ELSE Processed(c, g[i - 1], q[i])]
    BY <2>2
  <2> QED BY <2>3 DEF Course
<1>3. \A i \in 1 .. n : i - 1 \in good => i \in good
  BY <1>2
<1>4. 0 .. n \subseteq good
  BY ONLY n \in Nat, <1>1, <1>3, UpTo
<1>5. n \in good
  BY ONLY n \in Nat, <1>4
<1> QED BY <1>5

States == [mark: 0 .. MaxChanges, reg: [Tenants -> Versions]]

\* What polling the queue q makes of the state s.
Polled(c, s, q, r) ==
  \E f \in [0 .. Len(q) -> States] :
    /\ f[0] = s /\ r = f[Len(q)]
    /\ \A i \in 1 .. Len(q) : f[i] = Processed(c, f[i - 1], q[i])

LEMMA ProcessedType ==
  ASSUME NEW c, NEW s \in States, NEW m \in Changes PROVE Processed(c, s, m) \in States
BY SyncConstants DEF Processed, NewMark, States, Changes, Versions

LEMMA PollOf ==
  ASSUME SyncTypeOK, NEW c \in Containers
  PROVE  Polled(c, [mark |-> mark[c], reg |-> reg[c]], queue, After(c))
<1> PICK s, q, n : s = [mark |-> mark[c], reg |-> reg[c]] /\ q = queue /\ n = Len(queue)
  OBVIOUS
<1>1. n \in Nat /\ s \in States /\ \A i \in 1 .. n : q[i] \in Changes
  BY DEF SyncTypeOK, States
<1>2. \E f : Course(f, n, q, c, s)
  BY <1>1, PollExists
<1> DEFINE g == CHOOSE f : f = [i \in 0 .. n |-> IF i = 0 THEN s ELSE Processed(c, f[i - 1], q[i])]
<1>3. g = [i \in 0 .. n |-> IF i = 0 THEN s ELSE Processed(c, g[i - 1], q[i])]
  BY <1>2 DEF Course
<1>4. After(c) = g[n]
  BY DEF After
<1> HIDE DEF g
<1>5. g[0] = s /\ \A i \in 1 .. n : g[i] = Processed(c, g[i - 1], q[i])
  BY <1>1, <1>3
<1>6. \A i \in 0 .. n : g[i] \in States
  <2> PICK good : good = {i \in 0 .. n : g[i] \in States}
    OBVIOUS
  <2>1. 0 \in good
    BY <1>1, <1>5
  <2>2. ASSUME NEW i \in 1 .. n, i - 1 \in good PROVE i \in good
    BY <1>1, <1>5, <2>2, ProcessedType
  <2>3. \A i \in 1 .. n : i - 1 \in good => i \in good
    BY <2>2
  <2>4. 0 .. n \subseteq good
    BY ONLY <1>1, <2>1, <2>3, UpTo
  <2> QED BY <2>4
<1>7. g \in [0 .. n -> States]
  BY <1>3, <1>6
<1> QED BY <1>4, <1>5, <1>7 DEF Polled

\* The mark goes with the time stamps.
Marked(f, q, i) ==
  /\ f[0].mark <= f[i].mark /\ \A j \in 1 .. i : q[j].ts <= f[i].mark
  /\ f[i].mark = f[0].mark \/ \E j \in 1 .. i : f[i].mark = q[j].ts

\* The messages of a queue.
LEMMA QueueTypes ==
  ASSUME NEW q \in Seq(Changes)
  PROVE  /\ Len(q) \in Nat /\ DOMAIN q = 1 .. Len(q)
         /\ \A i \in 1 .. Len(q) :
              /\ q[i] \in Changes /\ q[i].ts \in Nat /\ q[i].ts > 0
              /\ q[i].by \in Containers /\ q[i].tenant \in Tenants /\ q[i].ver \in Versions
<1>1. Len(q) \in Nat /\ DOMAIN q = 1 .. Len(q) /\ \A i \in 1 .. Len(q) : q[i] \in Changes
  BY LenProperties
<1>2. \A m \in Changes : /\ m.ts \in Nat /\ m.ts > 0 /\ m.by \in Containers
                         /\ m.tenant \in Tenants /\ m.ver \in Versions
  BY SyncConstants DEF Changes
<1> QED BY <1>1, <1>2

LEMMA CourseMarks ==
  ASSUME NEW q \in Seq(Changes), NEW f \in [0 .. Len(q) -> States], NEW c,
         \A i \in 1 .. Len(q) : f[i] = Processed(c, f[i - 1], q[i])
  PROVE  \A i \in 0 .. Len(q) : Marked(f, q, i)
<1> PICK n, good : n = Len(q) /\ good = {i \in 0 .. n : Marked(f, q, i)}
  OBVIOUS
<1>1. n \in Nat /\ \A i \in 1 .. n : q[i] \in Changes /\ q[i].ts \in Nat
  BY QueueTypes
<1>2. \A i \in 0 .. n : f[i] \in States /\ f[i].mark \in Nat
  BY SyncConstants DEF States
<1>3. 0 \in good
  BY <1>1, <1>2 DEF Marked
<1>4. ASSUME NEW i \in 1 .. n, i - 1 \in good PROVE i \in good
  <2>1. Marked(f, q, i - 1) /\ i - 1 \in 0 .. n
    BY <1>1, <1>4
  <2>2. f[i].mark = IF q[i].ts <= f[i - 1].mark THEN f[i - 1].mark ELSE q[i].ts
    BY DEF Processed, NewMark
  <2>3. f[i].mark \in Nat /\ f[i - 1].mark \in Nat /\ f[0].mark \in Nat /\ q[i].ts \in Nat
    BY <1>1, <1>2, <2>1
  <2>4. f[0].mark <= f[i].mark /\ f[i - 1].mark <= f[i].mark /\ q[i].ts <= f[i].mark
    BY <2>1, <2>2, <2>3 DEF Marked
  <2>5. ASSUME NEW j \in 1 .. i PROVE q[j].ts <= f[i].mark
    <3>1. CASE j = i
      BY <2>4, <3>1
    <3>2. CASE j # i
      <4>1. j \in 1 .. i - 1 /\ q[j].ts \in Nat
        BY <1>1, <3>2
      <4>2. q[j].ts <= f[i - 1].mark
        BY <2>1, <4>1 DEF Marked
      <4> QED BY <2>3, <2>4, <4>1, <4>2
    <3> QED BY <3>1, <3>2
  <2>6. f[i].mark = f[0].mark \/ \E j \in 1 .. i : f[i].mark = q[j].ts
    <3>1. CASE q[i].ts <= f[i - 1].mark
      BY <1>1, <2>1, <2>2, <3>1 DEF Marked
    <3>2. CASE ~(q[i].ts <= f[i - 1].mark)
      BY <1>1, <2>2, <3>2
    <3> QED BY <3>1, <3>2
  <2> QED BY <1>1, <2>4, <2>5, <2>6 DEF Marked
<1>5. \A i \in 1 .. n : i - 1 \in good => i \in good
  BY <1>4
<1>6. 0 .. n \subseteq good
  BY ONLY <1>1, <1>3, <1>5, UpTo
<1> QED BY <1>6

\* A poll leaves nothing of the queue before its mark, and no more than that.
Reached(s, q, r) ==
  /\ r \in States /\ s.mark <= r.mark /\ \A i \in 1 .. Len(q) : q[i].ts <= r.mark
  /\ r.mark = s.mark \/ \E i \in 1 .. Len(q) : r.mark = q[i].ts

LEMMA PollMarks ==
  ASSUME NEW c, NEW q \in Seq(Changes), NEW s, NEW r, Polled(c, s, q, r)
  PROVE  Reached(s, q, r)
<1>1. PICK f \in [0 .. Len(q) -> States] :
        /\ f[0] = s /\ r = f[Len(q)]
        /\ \A i \in 1 .. Len(q) : f[i] = Processed(c, f[i - 1], q[i])
  BY DEF Polled
<1>2. Len(q) \in 0 .. Len(q)
  OBVIOUS
<1>3. Marked(f, q, Len(q))
  BY <1>1, <1>2, CourseMarks
<1> QED BY <1>1, <1>2, <1>3 DEF Marked, Reached

\* What one message does to the entry of a tenant.
LEMMA ProcessedEntry ==
  ASSUME NEW c, NEW s \in States, NEW m \in Changes, NEW t \in Tenants
  PROVE  Processed(c, s, m).reg[t] =
           IF m.tenant = t /\ m.by # c /\ m.ts > s.mark THEN m.ver ELSE s.reg[t]
<1>1. m.ts \in Nat /\ s.mark \in Nat /\ s.reg \in [Tenants -> Versions]
  BY SyncConstants DEF States, Changes
<1>2. CASE m.ts <= s.mark
  BY <1>1, <1>2 DEF Processed
<1>3. CASE ~(m.ts <= s.mark)
  <2>1. m.ts > s.mark
    BY <1>1, <1>3
  <2>2. Processed(c, s, m).reg = IF m.by = c THEN s.reg ELSE [s.reg EXCEPT ![m.tenant] = m.ver]
    BY <1>3 DEF Processed
  <2> QED BY <1>1, <2>1, <2>2
<1> QED BY <1>2, <1>3

\* Where no message of the queue is about a tenant, its entry stays.
LEMMA EntryStays ==
  ASSUME NEW q \in Seq(Changes), NEW f \in [0 .. Len(q) -> States], NEW c, NEW t \in Tenants,
         \A i \in 1 .. Len(q) : f[i] = Processed(c, f[i - 1], q[i]),
         NEW k \in 0 .. Len(q),
         \A i \in k + 1 .. Len(q) : q[i].tenant = t /\ q[i].ts > f[0].mark => q[i].by = c
  PROVE  f[Len(q)].reg[t] = f[k].reg[t]
<1> PICK n, good : n = Len(q) /\ good = {i \in 0 .. n : i >= k => f[i].reg[t] = f[k].reg[t]}
  OBVIOUS
<1>1. n \in Nat /\ k \in 0 .. n /\ \A i \in 1 .. n : q[i] \in Changes /\ q[i].ts \in Nat
  BY QueueTypes
<1>2. \A i \in 0 .. n : f[i] \in States /\ f[i].mark \in Nat /\ f[0].mark <= f[i].mark
  <2>1. \A i \in 0 .. n : f[i] \in States /\ f[i].mark \in Nat
    BY SyncConstants DEF States
  <2>2. \A i \in 0 .. n : Marked(f, q, i)
    BY CourseMarks
  <2> QED BY <2>1, <2>2 DEF Marked
<1>3. 0 \in good
  BY <1>1
<1>4. ASSUME NEW i \in 1 .. n, i - 1 \in good PROVE i \in good
  <2>1. i - 1 \in 0 .. n /\ f[i] = Processed(c, f[i - 1], q[i])
    BY <1>1
  <2>2. CASE i - 1 >= k
    <3>1. f[i - 1].reg[t] = f[k].reg[t]
      BY <1>4, <2>2
    <3>2. ~(q[i].tenant = t /\ q[i].by # c /\ q[i].ts > f[i - 1].mark)
      <4>1. i \in k + 1 .. n
        BY <1>1, <2>2
      <4>2. q[i].ts > f[i - 1].mark => q[i].ts > f[0].mark
        BY <1>1, <1>2, <2>1
      <4> QED BY <4>1, <4>2
    <3>3. f[i].reg[t] = f[i - 1].reg[t]
      BY <1>1, <1>2, <2>1, <3>2, ProcessedEntry
    <3> QED BY <3>1, <3>3
  <2>3. CASE ~(i - 1 >= k)
    BY <1>1, <2>3
  <2> QED BY <2>2, <2>3
<1>5. \A i \in 1 .. n : i - 1 \in good => i \in good
  BY <1>4
<1>6. 0 .. n \subseteq good
  BY ONLY <1>1, <1>3, <1>5, UpTo
<1>7. n \in good /\ n >= k
  BY <1>1, <1>6
<1> QED BY <1>7

\* After place k, only c itself announces a change of t.
OnlyOwn(q, k, c, t, since) ==
  \A i \in k + 1 .. Len(q) : q[i].tenant = t /\ q[i].ts > since => q[i].by = c

\* What is announced before place k is older.
Rising(q, k) == \A j \in 1 .. k - 1 : q[j].ts < q[k].ts

\* What the state s says of the tenant t.
Entry(s, t) == s.reg[t]

\* A poll in which all that is new of a tenant is the container's own leaves its entry.
LEMMA PollLeaves ==
  ASSUME NEW c, NEW q \in Seq(Changes), NEW s, NEW r, Polled(c, s, q, r), NEW t \in Tenants,
         OnlyOwn(q, 0, c, t, s.mark)
  PROVE  Entry(r, t) = Entry(s, t)
<1>1. PICK f \in [0 .. Len(q) -> States] :
        /\ f[0] = s /\ r = f[Len(q)]
        /\ \A i \in 1 .. Len(q) : f[i] = Processed(c, f[i - 1], q[i])
  BY DEF Polled
<1>2. 0 \in 0 .. Len(q) /\ \A i \in 0 + 1 .. Len(q) : q[i].tenant = t /\ q[i].ts > s.mark => q[i].by = c
  BY DEF OnlyOwn
<1>3. f[Len(q)].reg[t] = f[0].reg[t]
  BY <1>1, <1>2, EntryStays
<1> QED BY <1>1, <1>3 DEF Entry

\* A poll learns the newest announcement, if none that is newer was announced before.
LEMMA PollLearns ==
  ASSUME NEW c, NEW q \in Seq(Changes), NEW s, NEW r, Polled(c, s, q, r), NEW t \in Tenants,
         NEW k \in 1 .. Len(q), q[k].tenant = t, q[k].by # c, q[k].ts > s.mark,
         Rising(q, k), OnlyOwn(q, k, c, t, s.mark)
  PROVE  Entry(r, t) = q[k].ver
<1>1. PICK f \in [0 .. Len(q) -> States] :
        /\ f[0] = s /\ r = f[Len(q)]
        /\ \A i \in 1 .. Len(q) : f[i] = Processed(c, f[i - 1], q[i])
  BY DEF Polled
<1>2. /\ k \in 0 .. Len(q) /\ k - 1 \in 0 .. Len(q) /\ q[k] \in Changes /\ f[k - 1] \in States
      /\ q[k].ts \in Nat /\ f[k - 1].mark \in Nat
  <2>1. k \in 0 .. Len(q) /\ k - 1 \in 0 .. Len(q) /\ q[k] \in Changes /\ q[k].ts \in Nat
    BY QueueTypes
  <2>2. f[k - 1] \in States
    BY <2>1
  <2>3. f[k - 1].mark \in Nat
    BY <2>2, SyncConstants DEF States
  <2> QED BY <2>1, <2>2, <2>3
<1>3. f[Len(q)].reg[t] = f[k].reg[t]
  <2>1. \A i \in k + 1 .. Len(q) : q[i].tenant = t /\ q[i].ts > f[0].mark => q[i].by = c
    BY <1>1 DEF OnlyOwn
  <2>2. \A i \in 1 .. Len(q) : f[i] = Processed(c, f[i - 1], q[i])
    BY <1>1
  <2>3. k \in 0 .. Len(q)
    BY <1>2
  <2>4. f \in [0 .. Len(q) -> States]
    BY <1>1
  <2> QED BY ONLY q \in Seq(Changes), t \in Tenants, <2>1, <2>2, <2>3, <2>4, EntryStays
<1>4. q[k].ts > f[k - 1].mark
  <2>1. Marked(f, q, k - 1)
    BY <1>1, <1>2, CourseMarks
  <2> QED BY <1>1, <1>2, <2>1 DEF Marked, Rising
<1>5. f[k].reg[t] = q[k].ver
  <2>1. f[k] = Processed(c, f[k - 1], q[k])
    BY <1>1
  <2>2. Processed(c, f[k - 1], q[k]).reg[t] = q[k].ver
    BY <1>2, <1>4, ProcessedEntry
  <2> QED BY <2>1, <2>2
<1> QED BY <1>1, <1>3, <1>5 DEF Entry

-----------------------------------------------------------------------------
\* The parts of the type.
LEMMA SyncTypes ==
  ASSUME SyncTypeOK
  PROVE  /\ cfg \in [Tenants -> Versions] /\ queue \in Seq(Changes)
         /\ clock \in 0 .. MaxChanges /\ clock \in Nat
         /\ running \in [Containers -> {"down", "loaded", "on"}]
         /\ reg \in [Containers -> [Tenants -> Versions]]
         /\ mark \in [Containers -> 0 .. MaxChanges] /\ \A c \in Containers : mark[c] \in Nat
         /\ change \in [Containers -> Changes \cup {Nothing}]
         /\ looked \in [Containers -> Looks \cup {Nothing}]
         /\ draft \in [Containers -> Drafts \cup {Nothing}]
         /\ \A c \in Containers : change[c] # Nothing => change[c] \in Stamped
         /\ behind \subseteq Containers \X Tenants
         /\ Queued \subseteq Changes /\ Stamped \subseteq Changes
         /\ \A m \in Changes : m.ts \in Nat /\ m.ts > 0 /\ m.tenant \in Tenants /\ m.ver \in Versions
         /\ Nothing \notin Changes
<1>1. /\ cfg \in [Tenants -> Versions] /\ queue \in Seq(Changes)
      /\ clock \in 0 .. MaxChanges /\ clock \in Nat
      /\ running \in [Containers -> {"down", "loaded", "on"}]
      /\ reg \in [Containers -> [Tenants -> Versions]]
      /\ mark \in [Containers -> 0 .. MaxChanges]
      /\ change \in [Containers -> Changes \cup {Nothing}]
      /\ looked \in [Containers -> Looks \cup {Nothing}]
      /\ draft \in [Containers -> Drafts \cup {Nothing}]
      /\ behind \subseteq Containers \X Tenants
  BY SyncConstants DEF SyncTypeOK
<1>2. \A c \in Containers : mark[c] \in Nat
  BY <1>1, SyncConstants
<1>3. Queued \subseteq Changes
  <2>1. DOMAIN queue = 1 .. Len(queue) /\ \A i \in 1 .. Len(queue) : queue[i] \in Changes
    BY <1>1, QueueTypes
  <2> QED BY <2>1 DEF Queued
<1>4. /\ \A m \in Changes : m.ts \in Nat /\ m.ts > 0 /\ m.tenant \in Tenants /\ m.ver \in Versions
      /\ Nothing \notin Changes
  BY SyncConstants DEF Changes, Nothing
<1>5. Stamped \subseteq Changes /\ \A c \in Containers : change[c] # Nothing => change[c] \in Stamped
  BY <1>1 DEF Stamped
<1> QED BY <1>1, <1>2, <1>3, <1>4, <1>5

\* What a step leaves alone of a container and a tenant.
LEMMA InformedStays ==
  ASSUME NEW c \in Containers, NEW t \in Tenants, Informed(c, t), Live(c, t)' => Live(c, t),
         queue' = queue, mark'[c] = mark[c], reg'[c][t] = reg[c][t],
         \A v : Right(v, t) => Right(v, t)',
         \A m : m.tenant = t => (m \in Stamped' <=> m \in Stamped)
  PROVE  Informed(c, t)'
<1> SUFFICES ASSUME Live(c, t)' PROVE InTurn(c, t)' /\ OwnFirst(c, t)' /\ Newest(c, t)'
  BY DEF Informed
<1>1. InTurn(c, t) /\ OwnFirst(c, t) /\ Newest(c, t)
  BY DEF Informed
<1>2. Queued' = Queued /\ \A m : About(m, c, t)' <=> About(m, c, t)
  BY DEF Queued, About
<1>3. \A m : m \in Stamped' /\ About(m, c, t) <=> m \in Stamped /\ About(m, c, t)
  BY DEF About
<1>4. Awaited(c, t)' = Awaited(c, t)
  BY <1>2, <1>3 DEF Awaited
<1>5. InTurn(c, t)'
  BY <1>1, <1>2, <1>3 DEF InTurn
<1>6. OwnFirst(c, t)'
  BY <1>1, <1>2 DEF OwnFirst
<1>7. Newest(c, t)'
  <2>1. Right(reg[c][t], t) => Right(reg[c][t], t)'
    <3> PICK v : v = reg[c][t]
      OBVIOUS
    <3>1. Right(v, t) => Right(v, t)'
      OBVIOUS
    <3> QED BY <3>1 DEF Right
  <2>2. ASSUME NEW m, Right(m.ver, t) PROVE Right(m.ver, t)'
    BY <2>2
  <2> QED BY <1>1, <1>2, <1>4, <2>1, <2>2 DEF Newest
<1> QED BY <1>5, <1>6, <1>7

LEMMA SyncStart == SyncInit => SyncInv
<1> SUFFICES ASSUME SyncInit PROVE SyncInv
  OBVIOUS
<1>1. /\ cfg = [t \in Tenants |-> 0] /\ queue = <<>> /\ writes = 0 /\ clock = 0 /\ syncCrashes = 0 /\ behind = {}
      /\ running = [c \in Containers |-> "on"] /\ reg = [c \in Containers |-> [t \in Tenants |-> 0]]
      /\ mark = [c \in Containers |-> 0] /\ change = [c \in Containers |-> Nothing]
      /\ looked = [c \in Containers |-> Nothing] /\ draft = [c \in Containers |-> Nothing]
  BY DEF SyncInit
<1>2. 0 \in Versions /\ 0 \in 0 .. MaxChanges /\ 0 \in 0 .. MaxSyncCrashes
  BY SyncConstants DEF Versions
<1>3. SyncTypeOK
  BY <1>1, <1>2 DEF SyncTypeOK
<1>4. Queued = {} /\ Stamped = {} /\ DOMAIN queue = {}
  <2>1. Stamped = {}
    BY <1>1, <1>3, SyncTypes DEF Stamped
  <2> QED BY <1>1, <2>1 DEF Queued
<1>5. Stamps /\ OneByOne
  BY <1>1, <1>4 DEF Stamps, OneByOne, Busy
<1>6. ASSUME NEW c \in Containers, NEW t \in Tenants
      PROVE  Informed(c, t) /\ reg[c][t] = cfg[t]
  <2>1. Awaited(c, t) = {} /\ reg[c][t] = cfg[t]
    BY <1>1, <1>4 DEF Awaited
  <2> QED BY <1>4, <2>1 DEF Informed, InTurn, OwnFirst, Newest, Right
<1> QED BY <1>3, <1>5, <1>6 DEF SyncInv, Right

-----------------------------------------------------------------------------
\* Who is about to announce what Redis has of a tenant stays so.
LEMMA RightStays ==
  ASSUME NEW t, cfg'[t] = cfg[t],
         \A d \in Containers : draft[d] # Nothing /\ draft[d].tenant = t => draft'[d] = draft[d]
  PROVE  \A v : Right(v, t) => Right(v, t)'
BY DEF Right, Owed

\* An update reads the configuration (tenant_sync.py:158-161).
LEMMA LookStep ==
  ASSUME SyncInv, NEW e \in Containers, NEW u \in Tenants, LookUp(e, u) PROVE SyncInv'
<1>0. SyncTypeOK /\ Stamps /\ OneByOne
  BY DEF SyncInv
<1>1. /\ running[e] = "on" /\ draft[e] = Nothing /\ change[e] = Nothing
      /\ UNCHANGED <<cfg, queue, writes, clock, running, reg, mark, draft, change, syncCrashes, behind>>
      /\ \E seen \in {0, cfg[u]} : looked' = [looked EXCEPT ![e] = [tenant |-> u, seen |-> seen]]
  BY DEF LookUp, Busy
<1>2. /\ looked' \in [Containers -> Looks \cup {Nothing}]
      /\ \A d \in Containers \ {e} : looked'[d] = looked[d]
  <2>1. 0 \in Versions /\ cfg[u] \in Versions
    BY <1>0, SyncConstants, SyncTypes DEF Versions
  <2>2. looked \in [Containers -> Looks \cup {Nothing}]
    BY <1>0, SyncTypes
  <2> QED BY <1>1, <2>1, <2>2 DEF Looks
<1>3. SyncTypeOK'
  BY <1>0, <1>1, <1>2 DEF SyncTypeOK
<1>4. Queued' = Queued /\ Stamped' = Stamped
  BY <1>1 DEF Queued, Stamped
<1>5. Stamps' /\ OneByOne'
  <2>1. Stamps'
    BY <1>0, <1>1, <1>4 DEF Stamps
  <2>2. OneByOne'
    BY <1>0, <1>1, <1>2 DEF OneByOne, Busy
  <2> QED BY <2>1, <2>2
<1>6. \A t, v : Right(v, t) => Right(v, t)'
  BY <1>1 DEF Right, Owed
<1>7. ASSUME NEW c \in Containers, NEW t \in Tenants PROVE Informed(c, t)'
  <2>1. Informed(c, t) /\ (Live(c, t)' => Live(c, t))
    BY <1>1 DEF SyncInv, Live
  <2> QED BY <1>1, <1>4, <1>6, <2>1, InformedStays
<1>8. ASSUME NEW c \in Containers, NEW t \in Tenants, running'[c] = "loaded", <<c, t>> \notin behind'
      PROVE  Right(reg[c][t], t)'
  BY <1>1, <1>8 DEF SyncInv, Right, Owed
<1> QED BY <1>3, <1>5, <1>7, <1>8 DEF SyncInv

\* The configuration is sent to Redis, and may not get there (tenant_sync.py:154-172).
LEMMA PutStep ==
  ASSUME SyncInv, NEW e \in Containers, NEW u \in Tenants, NEW ver \in Versions, NEW sent \in BOOLEAN,
         Put(e, u, ver, sent), running[e] = "on", draft[e] = Nothing, change[e] = Nothing,
         behind \subseteq behind', behind' \subseteq Containers \X Tenants
  PROVE  SyncInv'
<1> PICK new : new = [tenant |-> u, ver |-> ver]
  OBVIOUS
<1>0. SyncTypeOK /\ Stamps /\ OneByOne
  BY DEF SyncInv
<1>1. /\ writes < MaxChanges /\ writes' = writes + 1
      /\ draft' = [draft EXCEPT ![e] = new] /\ looked' = [looked EXCEPT ![e] = Nothing]
      /\ UNCHANGED <<queue, clock, running, reg, mark, change, syncCrashes>>
      /\ cfg' = cfg \/ cfg' = [cfg EXCEPT ![u] = ver]
  BY DEF Put
<1>2. /\ new \in Drafts /\ new # Nothing /\ new.tenant = u /\ new.ver = ver
      /\ cfg \in [Tenants -> Versions] /\ draft \in [Containers -> Drafts \cup {Nothing}]
      /\ looked \in [Containers -> Looks \cup {Nothing}]
      /\ writes' \in 0 .. MaxChanges
  <2>1. new \in Drafts /\ new # Nothing
    BY DEF Drafts, Nothing
  <2>2. writes' \in 0 .. MaxChanges
    BY <1>0, <1>1, SyncConstants DEF SyncTypeOK
  <2> QED BY <1>0, <2>1, <2>2, SyncTypes
<1>3. /\ draft' \in [Containers -> Drafts \cup {Nothing}] /\ looked' \in [Containers -> Looks \cup {Nothing}]
      /\ cfg' \in [Tenants -> Versions] /\ draft'[e] = new /\ looked'[e] = Nothing
      /\ \A d \in Containers \ {e} : draft'[d] = draft[d] /\ looked'[d] = looked[d]
      /\ \A t \in Tenants \ {u} : cfg'[t] = cfg[t]
      /\ cfg'[u] = ver \/ cfg'[u] = cfg[u]
  BY <1>1, <1>2
<1>4. SyncTypeOK'
  BY <1>0, <1>1, <1>2, <1>3 DEF SyncTypeOK
<1>5. Queued' = Queued /\ Stamped' = Stamped
  BY <1>1 DEF Queued, Stamped
<1>6. Stamps' /\ OneByOne'
  <2>1. Stamps'
    BY <1>0, <1>1, <1>5 DEF Stamps
  <2>2. OneByOne'
    BY <1>0, <1>1, <1>3 DEF OneByOne, Busy
  <2> QED BY <2>1, <2>2
<1>7. ASSUME NEW t \in Tenants PROVE \A v : Right(v, t) => Right(v, t)'
  <2>1. \A d \in Containers : draft[d] # Nothing => draft'[d] = draft[d]
    BY <1>3
  <2>2. CASE cfg'[t] = cfg[t]
    BY <2>1, <2>2, RightStays
  <2>3. CASE cfg'[t] # cfg[t]
    <3>1. t = u /\ cfg'[u] = ver
      BY <1>3, <2>3
    <3>2. Owed(t, Containers)'
      BY <1>2, <1>3, <3>1 DEF Owed
    <3> QED BY <3>2 DEF Right
  <2> QED BY <2>2, <2>3
<1>8. ASSUME NEW c \in Containers, NEW t \in Tenants PROVE Informed(c, t)'
  <2>1. Informed(c, t) /\ (Live(c, t)' => Live(c, t))
    BY <1>1 DEF SyncInv, Live
  <2> QED BY <1>1, <1>5, <1>7, <2>1, InformedStays
<1>9. ASSUME NEW c \in Containers, NEW t \in Tenants, running'[c] = "loaded", <<c, t>> \notin behind'
      PROVE  Right(reg[c][t], t)'
  <2> PICK v : v = reg[c][t]
    OBVIOUS
  <2>1. Right(v, t) => Right(v, t)'
    BY <1>7
  <2>2. Right(reg[c][t], t)
    BY <1>1, <1>9 DEF SyncInv
  <2> QED BY <1>1, <2>1, <2>2 DEF Right
<1> QED BY <1>4, <1>6, <1>8, <1>9 DEF SyncInv

\* An announcement gets its time (tenant_sync.py:191-196).
LEMMA StampStep ==
  ASSUME SyncInv, NEW e \in Containers, Stamp(e) PROVE SyncInv'
<1> PICK u, ver : u = draft[e].tenant /\ ver = draft[e].ver
  OBVIOUS
<1> PICK new : new = [ts |-> clock + 1, by |-> e, tenant |-> u, ver |-> ver]
  OBVIOUS
<1> PICK others : others = (Containers \ {e})
  OBVIOUS
<1> PICK out : out = (IF Owed(u, others) THEN {}
                      ELSE {d \in Containers : ver # cfg[u] \/ (running[d] = "loaded" /\ reg[d][u] # cfg[u])})
  OBVIOUS
<1>0. SyncTypeOK /\ Stamps /\ OneByOne
  BY DEF SyncInv
<1>1. /\ draft[e] # Nothing /\ draft' = [draft EXCEPT ![e] = Nothing]
      /\ clock < MaxChanges /\ clock' = clock + 1
      /\ change' = [change EXCEPT ![e] = new]
      /\ behind' = behind \cup (out \X {u})
      /\ UNCHANGED <<cfg, queue, writes, running, reg, mark, looked, syncCrashes>>
  BY DEF Stamp
<1>2. /\ new \in Changes /\ ver \in Versions /\ u \in Tenants /\ clock + 1 \in 0 .. MaxChanges
      /\ new.ts = clock + 1 /\ new.by = e /\ new.tenant = u /\ new.ver = ver /\ clock + 1 \in Nat
  <2>1. clock \in Nat /\ clock + 1 \in 1 .. MaxChanges /\ MaxChanges \in Nat
    BY <1>0, <1>1, SyncTypes, SyncConstants
  <2>2. draft[e] \in Drafts
    BY <1>0, <1>1, SyncTypes
  <2>3. ver \in Versions /\ u \in Tenants
    BY <2>2 DEF Drafts
  <2> QED BY <2>1, <2>3 DEF Changes
<1>3. /\ change'[e] = new /\ \A d \in Containers \ {e} : change'[d] = change[d]
      /\ change' \in [Containers -> Changes \cup {Nothing}]
      /\ draft'[e] = Nothing /\ \A d \in Containers \ {e} : draft'[d] = draft[d]
      /\ draft' \in [Containers -> Drafts \cup {Nothing}]
      /\ behind' \subseteq Containers \X Tenants /\ behind \subseteq behind'
      /\ running[e] = "on" /\ change[e] = Nothing /\ looked[e] = Nothing
  <2>1. out \subseteq Containers
    OBVIOUS
  <2>2. running[e] = "on" /\ change[e] = Nothing /\ looked[e] = Nothing
    BY <1>0, <1>1 DEF OneByOne, Busy
  <2> QED BY <1>0, <1>1, <1>2, <2>1, <2>2, SyncTypes
<1>4. SyncTypeOK'
  BY <1>0, <1>1, <1>2, <1>3 DEF SyncTypeOK
<1>5. Stamped' = Stamped \cup {new} /\ Queued' = Queued
  <2>1. Stamped' \subseteq Stamped \cup {new}
    BY <1>3 DEF Stamped
  <2>2. ASSUME NEW m \in Stamped PROVE m \in Stamped'
    <3>1. PICK d \in Containers : m = change[d] /\ m \in Changes
      BY DEF Stamped
    <3>2. d # e
      BY <1>0, <1>3, <3>1, SyncTypes
    <3> QED BY <1>3, <3>1, <3>2 DEF Stamped
  <2>3. new \in Stamped'
    BY <1>2, <1>3 DEF Stamped
  <2> QED BY <1>1, <2>1, <2>2, <2>3 DEF Queued
<1>6. Stamps'
  <2>1. \A c \in Containers : mark[c] \in Nat /\ mark[c] <= clock /\ mark[c] < clock + 1
    BY <1>0, SyncTypes DEF Stamps
  <2>2. \A m \in Queued : m.ts \in Nat /\ m.ts <= clock + 1
    BY <1>0, SyncTypes DEF Stamps
  <2>3. \A c \in Containers : change[c] # Nothing => change[c].ts \in Nat /\ change[c].ts < clock + 1
    <3> SUFFICES ASSUME NEW c \in Containers, change[c] # Nothing
                 PROVE  change[c].ts \in Nat /\ change[c].ts < clock + 1
      OBVIOUS
    <3>1. change[c].ts \in Nat /\ change[c].ts <= clock /\ clock \in Nat
      BY <1>0, SyncTypes DEF Stamps
    <3> QED BY <3>1
  <2>4. ASSUME NEW c \in Containers, change'[c] # Nothing
        PROVE  /\ running[c] = "on" /\ change'[c].by = c /\ mark[c] < change'[c].ts
               /\ change'[c].ts <= clock + 1
               /\ \A d \in Containers : change'[d] # Nothing /\ change'[d].ts = change'[c].ts => c = d
    <3>1. CASE c = e
      <4>1. change'[c] = new
        BY <1>3, <3>1
      <4>2. \A d \in Containers \ {e} : change'[d] # Nothing => change'[d].ts # clock + 1
        BY <1>2, <1>3, <2>3
      <4> QED BY <1>1, <1>2, <1>3, <2>1, <3>1, <4>1, <4>2
    <3>2. CASE c # e
      <4>1. change'[c] = change[c] /\ change[c] # Nothing
        BY <1>3, <2>4, <3>2
      <4>2. /\ running[c] = "on" /\ change[c].by = c /\ mark[c] < change[c].ts
            /\ \A d \in Containers : change[d] # Nothing /\ change[d].ts = change[c].ts => c = d
        BY <1>0, <4>1 DEF Stamps
      <4>3. change[c].ts \in Nat /\ change[c].ts < clock + 1
        BY <2>3, <4>1
      <4>4. \A d \in Containers : change'[d] # Nothing /\ change'[d].ts = change'[c].ts => c = d
        BY <1>2, <1>3, <4>1, <4>2, <4>3
      <4> QED BY <1>2, <4>1, <4>2, <4>3, <4>4
    <3> QED BY <3>1, <3>2
  <2> QED BY <1>1, <1>2, <1>5, <2>1, <2>2, <2>4 DEF Stamps
<1>11. OneByOne'
  BY <1>0, <1>1, <1>3 DEF OneByOne, Busy
<1>7. ASSUME NEW t \in Tenants, t # u PROVE \A v : Right(v, t) => Right(v, t)'
  <2>1. cfg'[t] = cfg[t] /\ \A d \in Containers : draft[d] # Nothing /\ draft[d].tenant = t => draft'[d] = draft[d]
    BY <1>1, <1>3, <1>7
  <2> QED BY ONLY <2>1, RightStays
<1>8. \/ Owed(u, Containers)'
      \/ out = {d \in Containers : ver # cfg[u] \/ (running[d] = "loaded" /\ reg[d][u] # cfg[u])}
  <2>1. CASE Owed(u, others)
    <3>1. PICK d \in others : draft[d] # Nothing /\ draft[d].tenant = u /\ draft[d].ver = cfg[u]
      BY <2>1 DEF Owed
    <3>2. d \in Containers /\ draft'[d] = draft[d] /\ cfg'[u] = cfg[u]
      BY <1>1, <1>3, <3>1
    <3> QED BY <3>1, <3>2 DEF Owed
  <2> QED BY <2>1
<1>9. ASSUME NEW c \in Containers, NEW t \in Tenants PROVE Informed(c, t)'
  <2>1. Informed(c, t) /\ (Live(c, t)' => Live(c, t))
    BY <1>1 DEF SyncInv, Live
  <2>2. CASE t # u
    <3>1. \A m : m.tenant = t => (m \in Stamped' <=> m \in Stamped)
      BY <1>2, <1>5, <2>2
    <3>2. queue' = queue /\ mark'[c] = mark[c] /\ reg'[c][t] = reg[c][t]
      BY <1>1
    <3> QED BY <1>7, <2>1, <2>2, <3>1, <3>2, InformedStays
  <2>3. CASE t = u
    <3> SUFFICES ASSUME Live(c, t)' PROVE InTurn(c, t)' /\ OwnFirst(c, t)' /\ Newest(c, t)'
      BY DEF Informed
    <3>1. InTurn(c, t) /\ OwnFirst(c, t) /\ c \notin out
      BY <1>1, <2>1, <2>3 DEF Live, Informed
    <3>2. \A m : About(m, c, t)' <=> About(m, c, t)
      BY <1>1 DEF About
    <3>3. \A n \in Queued \cup Stamped : n.ts \in Nat /\ n.ts < new.ts
      <4>1. \A n \in Queued : n.ts \in Nat /\ n.ts <= clock
        BY <1>0, SyncTypes DEF Stamps
      <4>2. \A n \in Stamped : n.ts \in Nat /\ n.ts <= clock
        BY <1>0, SyncTypes DEF Stamps, Stamped
      <4>3. clock \in Nat
        BY <1>0, SyncTypes
      <4> QED BY <1>2, <4>1, <4>2, <4>3
    <3>4. InTurn(c, t)'
      BY <1>1, <1>5, <3>1, <3>2, <3>3 DEF InTurn
    <3>5. OwnFirst(c, t)'
      BY <1>1, <3>1, <3>2 DEF OwnFirst
    <3>6. About(new, c, t)
      <4>1. mark[c] \in Nat /\ mark[c] <= clock /\ clock \in Nat
        BY <1>0, SyncTypes DEF Stamps
      <4> QED BY <1>2, <2>3, <4>1 DEF About
    <3>7. new \in Awaited(c, t)' /\ Awaited(c, t)' \subseteq Awaited(c, t) \cup {new}
      BY <1>5, <3>2, <3>6 DEF Awaited
    <3>8. \A n \in Awaited(c, t)' : n.ts <= new.ts
      BY <1>2, <3>3, <3>7 DEF Awaited
    <3>9. new \notin Queued'
      BY <1>5, <3>3
    <3>10. Right(new.ver, t)'
      BY <1>1, <1>2, <1>8, <2>3, <3>1 DEF Right
    <3>11. Newest(c, t)'
      BY <3>7, <3>8, <3>9, <3>10 DEF Newest
    <3> QED BY <3>4, <3>5, <3>11
  <2> QED BY <2>2, <2>3
<1>10. ASSUME NEW c \in Containers, NEW t \in Tenants, running'[c] = "loaded", <<c, t>> \notin behind'
       PROVE  Right(reg[c][t], t)'
  <2>1. running[c] = "loaded" /\ <<c, t>> \notin behind /\ Right(reg[c][t], t)
    BY <1>1, <1>10 DEF SyncInv
  <2>2. CASE t # u
    <3> PICK v : v = reg[c][t]
      OBVIOUS
    <3>1. Right(v, t) => Right(v, t)'
      BY <1>7, <2>2
    <3> QED BY <1>1, <2>1, <3>1 DEF Right
  <2>3. CASE t = u
    BY <1>1, <1>8, <1>10, <2>1, <2>3 DEF Right
  <2> QED BY <2>2, <2>3
<1> QED BY <1>4, <1>6, <1>9, <1>10, <1>11 DEF SyncInv

-----------------------------------------------------------------------------
LEMMA LastPart ==
  ASSUME NEW S, NEW s \in Seq(S), NEW a \in Int, NEW b \in Int, a <= b, a \in 1 .. Len(s), b <= Len(s),
         NEW r, r = SubSeq(s, a, b)
  PROVE  r \in Seq(S) /\ Len(r) = b - a + 1 /\ \A i \in 1 .. b - a + 1 : r[i] = s[a + i - 1]
OBVIOUS

\* RPUSH and LTRIM drop the oldest announcements, never the new one.
Appended(q, m, kept) ==
  \E d \in 0 .. Len(q) :
    /\ Len(kept) = Len(q) + 1 - d /\ kept[Len(q) + 1 - d] = m
    /\ \A i \in 1 .. Len(q) - d : kept[i] = q[i + d]

Kept(q, m, max) ==
  SubSeq(Append(q, m), IF Len(Append(q, m)) > max THEN Len(Append(q, m)) - max + 1 ELSE 1, Len(Append(q, m)))

LEMMA Trimmed ==
  ASSUME NEW S, NEW q \in Seq(S), NEW m \in S, NEW max \in Nat \ {0}
  PROVE  Kept(q, m, max) \in Seq(S) /\ Len(Kept(q, m, max)) <= max /\ Appended(q, m, Kept(q, m, max))
<1> PICK all, first, kept :
      /\ all = Append(q, m) /\ first = IF Len(all) > max THEN Len(all) - max + 1 ELSE 1
      /\ kept = SubSeq(all, first, Len(all))
  OBVIOUS
<1>0. kept = Kept(q, m, max)
  BY DEF Kept
<1> PICK n, last : n = Len(q) /\ last = n + 1
  OBVIOUS
<1>1. /\ n \in Nat /\ all \in Seq(S) /\ Len(all) = last /\ all[last] = m
      /\ \A i \in 1 .. n : all[i] = q[i]
  OBVIOUS
<1> PICK d : d = first - 1
  OBVIOUS
<1>2. /\ first \in Int /\ last \in Int /\ first = d + 1 /\ d \in 0 .. n
      /\ n + 1 - d <= max /\ first <= last /\ last - first + 1 = n + 1 - d
  BY <1>1
<1>3. kept = SubSeq(all, first, last)
  BY <1>1
<1>4. /\ kept \in Seq(S) /\ Len(kept) = n + 1 - d
      /\ \A i \in 1 .. n + 1 - d : kept[i] = all[i + d]
  <2>1. first \in 1 .. Len(all) /\ last <= Len(all)
    BY <1>1, <1>2
  <2>2. /\ kept \in Seq(S) /\ Len(kept) = last - first + 1
        /\ \A i \in 1 .. last - first + 1 : kept[i] = all[first + i - 1]
    BY ONLY <1>1, <1>2, <1>3, <2>1, LastPart
  <2>3. \A i \in 1 .. n + 1 - d : first + i - 1 = i + d
    BY <1>1, <1>2
  <2> QED BY ONLY <1>2, <2>2, <2>3
<1>5. kept[n + 1 - d] = m
  <2>1. n \in Nat /\ d \in 0 .. n /\ last = n + 1
    BY <1>1, <1>2
  <2>2. n + 1 - d \in 1 .. n + 1 - d /\ (n + 1 - d) + d = last
    BY ONLY <2>1
  <2> QED BY ONLY <1>1, <1>4, <2>2
<1>6. ASSUME NEW i \in 1 .. n - d PROVE kept[i] = q[i + d]
  <2>1. i \in 1 .. n + 1 - d /\ i + d \in 1 .. n
    BY <1>1, <1>2
  <2> QED BY ONLY <1>1, <1>4, <2>1
<1>7. Len(kept) <= max /\ n = Len(q)
  BY <1>1, <1>2, <1>4
<1>8. \A i \in 1 .. n - d : kept[i] = q[i + d]
  BY <1>6
<1>9. kept \in Seq(S) /\ Len(kept) <= max /\ Appended(q, m, kept)
  BY ONLY <1>2, <1>4, <1>5, <1>7, <1>8 DEF Appended
<1> QED BY <1>0, <1>9

\* What an announcement changes (tenant_sync.py:191-201).
LEMMA PushFacts ==
  ASSUME SyncTypeOK, Stamps, NEW e \in Containers, NEW own \in BOOLEAN,
         NEW room \in {MaxQueue, Len(queue) + 1}, Push(e, own, room), NEW m, m = change[e]
  PROVE  /\ m \in Changes /\ m \in Stamped /\ m.by = e /\ running[e] = "on" /\ mark[e] < m.ts
         /\ queue' \in Seq(Changes)
         /\ Appended(queue, m, queue')
         /\ Queued' \subseteq Queued \cup {m} /\ m \in Queued'
         /\ Stamped' \subseteq Stamped /\ Stamped \subseteq Stamped' \cup {m}
         /\ \A x \in Stamped' : x.ts # m.ts
         /\ change'[e] = Nothing /\ \A d \in Containers \ {e} : change'[d] = change[d]
         /\ change' \in [Containers -> Changes \cup {Nothing}]
         /\ reg' = (IF own THEN [reg EXCEPT ![e][m.tenant] = m.ver] ELSE reg)
         /\ behind \subseteq behind' /\ behind' \subseteq Containers \X Tenants
         /\ \A c \in Containers, t \in Tenants : <<c, t>> \notin behind' =>
              /\ c = e /\ t = m.tenant => own /\ ~Pending(c, t)
              /\ \A x \in Stamped : x.tenant = t => ~(x.ts < m.ts)
              /\ \A n \in Queued : n \notin Queued' /\ n.tenant = t => ~(mark[c] < n.ts)
         /\ UNCHANGED <<cfg, writes, clock, running, mark, looked, draft, syncCrashes>>
<1>1. /\ m # Nothing /\ m \in Changes /\ m \in Stamped
      /\ m.by = e /\ running[e] = "on" /\ mark[e] < m.ts
      /\ queue \in Seq(Changes) /\ change \in [Containers -> Changes \cup {Nothing}]
      /\ behind \subseteq Containers \X Tenants
  <2>1. m # Nothing
    BY DEF Push
  <2>2. running[e] = "on"
    BY <2>1 DEF Stamps
  <2> QED BY <2>1, <2>2, SyncTypes DEF Stamps
<1> PICK all, first : all = Append(queue, m) /\ first = IF Len(all) > room THEN Len(all) - room + 1 ELSE 1
  OBVIOUS
<1> PICK kept : kept = SubSeq(all, first, Len(all))
  OBVIOUS
<1> PICK dropped : dropped = {n \in Queued : \A i \in DOMAIN kept : kept[i] # n}
  OBVIOUS
<1>2. /\ queue' = kept
      /\ reg' = (IF own THEN [reg EXCEPT ![e][m.tenant] = m.ver] ELSE reg)
      /\ change' = [change EXCEPT ![e] = Nothing]
      /\ behind' = behind
           \cup (IF own /\ ~Pending(e, m.tenant) THEN {} ELSE {<<e, m.tenant>>})
           \cup (Containers \X Overtaken(m))
           \cup {b \in Containers \X Tenants : \E n \in dropped : n.tenant = b[2] /\ mark[b[1]] < n.ts}
      /\ UNCHANGED <<cfg, writes, clock, running, mark, looked, draft, syncCrashes>>
  BY DEF Push, Registers
<1>3. /\ kept \in Seq(Changes)
      /\ Appended(queue, m, kept)
  <2>1. room \in Nat \ {0}
    <3>1. Len(queue) \in Nat
      BY <1>1, QueueTypes
    <3> QED BY <3>1, SyncConstants
  <2>2. kept = Kept(queue, m, room)
    BY DEF Kept
  <2>3. queue \in Seq(Changes) /\ m \in Changes
    BY <1>1
  <2>4. /\ Kept(queue, m, room) \in Seq(Changes)
        /\ Appended(queue, m, Kept(queue, m, room))
    BY ONLY <2>1, <2>3, Trimmed
  <2> QED BY <2>2, <2>4
<1>4. Queued' \subseteq Queued \cup {m} /\ m \in Queued' /\ dropped = Queued \ Queued'
  <2> PICK d \in 0 .. Len(queue) :
        /\ Len(kept) = Len(queue) + 1 - d /\ kept[Len(queue) + 1 - d] = m
        /\ \A i \in 1 .. Len(queue) - d : kept[i] = queue[i + d]
    BY <1>3 DEF Appended
  <2> PICK n, k : n = Len(queue) /\ k = Len(queue) + 1 - d
    OBVIOUS
  <2>1. /\ n \in Nat /\ d \in 0 .. n /\ k = n + 1 - d /\ kept[k] = m /\ k \in 1 .. k
        /\ \A i \in 1 .. n - d : kept[i] = queue[i + d]
        /\ DOMAIN queue = 1 .. n /\ DOMAIN kept = 1 .. k
    <3>1. Len(queue) \in Nat /\ DOMAIN queue = 1 .. Len(queue) /\ DOMAIN kept = 1 .. Len(kept)
      BY <1>1, <1>3, QueueTypes
    <3>2. Len(queue) + 1 - d \in 1 .. Len(queue) + 1 - d
      BY <3>1
    <3> QED BY <3>1, <3>2
  <2>2. ASSUME NEW i \in 1 .. k PROVE kept[i] = m \/ kept[i] \in Queued
    <3>1. CASE i = k
      BY <2>1, <3>1
    <3>2. CASE i # k
      <4>1. i + d \in 1 .. n /\ i \in 1 .. n - d
        BY ONLY <2>1, <3>2, i \in 1 .. k
      <4> QED BY <2>1, <4>1 DEF Queued
    <3> QED BY <3>1, <3>2
  <2>3. Queued' = {kept[i] : i \in 1 .. k} /\ dropped = {x \in Queued : \A i \in 1 .. k : kept[i] # x}
    BY <1>2, <2>1 DEF Queued
  <2>4. Queued' \subseteq Queued \cup {m} /\ m \in Queued'
    <3>1. Queued' \subseteq Queued \cup {m}
      BY ONLY <2>2, <2>3
    <3>2. m \in Queued'
      BY ONLY <2>1, <2>3
    <3> QED BY <3>1, <3>2
  <2>5. dropped = Queued \ Queued'
    BY ONLY <2>3
  <2> QED BY <2>4, <2>5
<1>5. /\ change'[e] = Nothing /\ \A d \in Containers \ {e} : change'[d] = change[d]
      /\ change' \in [Containers -> Changes \cup {Nothing}]
  BY <1>1, <1>2
<1>6. /\ Stamped' \subseteq Stamped /\ Stamped \subseteq Stamped' \cup {m}
      /\ \A x \in Stamped' : x.ts # m.ts
  <2>1. Nothing \notin Changes
    BY SyncTypes
  <2>2. ASSUME NEW x \in Stamped' PROVE x \in Stamped /\ x.ts # m.ts
    <3>1. PICK d \in Containers : x = change'[d] /\ x \in Changes
      BY DEF Stamped
    <3>2. d # e /\ x = change[d] /\ x # Nothing
      BY <1>5, <2>1, <3>1
    <3> QED BY <1>1, <3>1, <3>2 DEF Stamped, Stamps
  <2>3. ASSUME NEW x \in Stamped, x # m PROVE x \in Stamped'
    <3>1. PICK d \in Containers : x = change[d] /\ x \in Changes
      BY DEF Stamped
    <3> QED BY <1>5, <2>3, <3>1 DEF Stamped
  <2> QED BY <2>2, <2>3
<1>7. behind \subseteq behind' /\ behind' \subseteq Containers \X Tenants
  <2>1. Overtaken(m) \subseteq Tenants /\ m.tenant \in Tenants
    BY <1>1, SyncTypes DEF Overtaken
  <2> QED BY <1>1, <1>2, <2>1
<1>8. ASSUME NEW c \in Containers, NEW t \in Tenants, <<c, t>> \notin behind'
      PROVE  /\ c = e /\ t = m.tenant => own /\ ~Pending(c, t)
             /\ \A x \in Stamped : x.tenant = t => ~(x.ts < m.ts)
             /\ \A n \in Queued : n \notin Queued' /\ n.tenant = t => ~(mark[c] < n.ts)
  <2>1. c = e /\ t = m.tenant => own /\ ~Pending(c, t)
    BY <1>2, <1>8
  <2>2. ASSUME NEW x \in Stamped, x.tenant = t, x.ts < m.ts PROVE FALSE
    <3>1. PICK d \in Containers : x = change[d] /\ x # Nothing
      BY SyncTypes DEF Stamped
    <3>2. t \in Overtaken(m)
      BY <2>2, <3>1 DEF Overtaken
    <3> QED BY <1>2, <1>8, <3>2
  <2>3. ASSUME NEW n \in Queued, n \notin Queued', n.tenant = t, mark[c] < n.ts PROVE FALSE
    <3>1. n \in dropped
      BY <1>4, <2>3
    <3>2. <<c, t>>[1] = c /\ <<c, t>>[2] = t /\ <<c, t>> \in Containers \X Tenants
      OBVIOUS
    <3> QED BY <1>2, <1>8, <2>3, <3>1, <3>2
  <2> QED BY <2>1, <2>2, <2>3
<1>9. /\ queue' \in Seq(Changes)
      /\ Appended(queue, m, queue')
  BY <1>2, <1>3
<1>10. \A c \in Containers, t \in Tenants : <<c, t>> \notin behind' =>
         /\ c = e /\ t = m.tenant => own /\ ~Pending(c, t)
         /\ \A x \in Stamped : x.tenant = t => ~(x.ts < m.ts)
         /\ \A n \in Queued : n \notin Queued' /\ n.tenant = t => ~(mark[c] < n.ts)
  BY <1>8
<1>11. /\ reg' = (IF own THEN [reg EXCEPT ![e][m.tenant] = m.ver] ELSE reg)
       /\ UNCHANGED <<cfg, writes, clock, running, mark, looked, draft, syncCrashes>>
  BY <1>2
<1> QED BY ONLY <1>1, <1>4, <1>5, <1>6, <1>7, <1>9, <1>10, <1>11, Zenon

\* Where the messages of the queue were before.
LEMMA Places ==
  ASSUME NEW q \in Seq(Changes), NEW kept \in Seq(Changes), NEW m, Appended(q, m, kept),
         NEW i \in DOMAIN kept
  PROVE  \/ kept[i] = m /\ \A j \in 1 .. i - 1 : \E l \in DOMAIN q : kept[j] = q[l]
         \/ \E k \in DOMAIN q : kept[i] = q[k] /\ \A j \in 1 .. i - 1 : \E l \in 1 .. k - 1 : kept[j] = q[l]
<1> PICK d \in 0 .. Len(q) :
      /\ Len(kept) = Len(q) + 1 - d /\ kept[Len(q) + 1 - d] = m
      /\ \A j \in 1 .. Len(q) - d : kept[j] = q[j + d]
  BY DEF Appended
<1> PICK n : n = Len(q)
  OBVIOUS
<1>1. /\ n \in Nat /\ d \in 0 .. n /\ kept[n + 1 - d] = m /\ \A j \in 1 .. n - d : kept[j] = q[j + d]
      /\ DOMAIN q = 1 .. n /\ i \in 1 .. n + 1 - d
  BY QueueTypes
<1>2. CASE i = n + 1 - d
  <2>1. \A j \in 1 .. i - 1 : j \in 1 .. n - d /\ j + d \in 1 .. n
    BY ONLY <1>1, <1>2
  <2> QED BY <1>1, <1>2, <2>1
<1>3. CASE i # n + 1 - d
  <2>1. i + d \in 1 .. n /\ i \in 1 .. n - d
    BY ONLY <1>1, <1>3
  <2>2. \A j \in 1 .. i - 1 : j \in 1 .. n - d /\ j + d \in 1 .. (i + d) - 1
    BY ONLY <1>1, <2>1
  <2>3. kept[i] = q[i + d] /\ \A j \in 1 .. i - 1 : \E l \in 1 .. (i + d) - 1 : kept[j] = q[l]
    BY ONLY <1>1, <2>1, <2>2
  <2> QED BY ONLY <1>1, <2>1, <2>3
<1> QED BY <1>2, <1>3

\* A container announces its change (tenant_sync.py:191-204).
LEMMA PushStep ==
  ASSUME SyncInv, NEW e \in Containers, NEW own \in BOOLEAN,
         NEW room \in {MaxQueue, Len(queue) + 1}, Push(e, own, room)
  PROVE  SyncInv'
<1> PICK m : m = change[e]
  OBVIOUS
<1>0. SyncTypeOK /\ Stamps /\ OneByOne
  BY DEF SyncInv
<1>1. /\ m \in Changes /\ m \in Stamped /\ m.by = e /\ running[e] = "on" /\ mark[e] < m.ts
      /\ queue' \in Seq(Changes)
      /\ Appended(queue, m, queue')
      /\ Queued' \subseteq Queued \cup {m} /\ m \in Queued'
      /\ Stamped' \subseteq Stamped /\ Stamped \subseteq Stamped' \cup {m}
      /\ \A x \in Stamped' : x.ts # m.ts
  BY <1>0, PushFacts
<1>2. /\ change'[e] = Nothing /\ \A d \in Containers \ {e} : change'[d] = change[d]
      /\ change' \in [Containers -> Changes \cup {Nothing}]
      /\ reg' = (IF own THEN [reg EXCEPT ![e][m.tenant] = m.ver] ELSE reg)
      /\ behind \subseteq behind' /\ behind' \subseteq Containers \X Tenants
      /\ UNCHANGED <<cfg, writes, clock, running, mark, looked, draft, syncCrashes>>
  BY <1>0, PushFacts
<1>3. ASSUME NEW c \in Containers, NEW t \in Tenants, <<c, t>> \notin behind'
      PROVE  /\ c = e /\ t = m.tenant => own /\ ~Pending(c, t)
             /\ \A x \in Stamped : x.tenant = t => ~(x.ts < m.ts)
             /\ \A n \in Queued : n \notin Queued' /\ n.tenant = t => ~(mark[c] < n.ts)
  BY <1>0, <1>3, PushFacts
<1>4. /\ m.ts \in Nat /\ m.tenant \in Tenants /\ m.ver \in Versions
      /\ \A x \in Queued \cup Stamped : x.ts \in Nat
      /\ queue \in Seq(Changes) /\ reg \in [Containers -> [Tenants -> Versions]]
      /\ clock \in Nat /\ \A c \in Containers : mark[c] \in Nat
  <2>1. \A x \in Changes : x.ts \in Nat /\ x.tenant \in Tenants /\ x.ver \in Versions
    BY <1>0, SyncTypes
  <2> QED BY <1>0, <1>1, <2>1, SyncTypes
<1>5. /\ reg' \in [Containers -> [Tenants -> Versions]]
      /\ \A c \in Containers, t \in Tenants :
           reg'[c][t] = IF own /\ c = e /\ t = m.tenant THEN m.ver ELSE reg[c][t]
  BY <1>2, <1>4
<1>6. SyncTypeOK'
  BY <1>0, <1>1, <1>2, <1>5 DEF SyncTypeOK
<1>7. Stamps'
  <2>1. \A c \in Containers : mark'[c] <= clock'
    BY <1>0, <1>2 DEF Stamps
  <2>2. \A x \in Queued' : x.ts <= clock'
    <3>1. m.ts <= clock /\ \A x \in Queued : x.ts <= clock
      <4>1. m # Nothing
        BY <1>0, <1>1, SyncTypes
      <4> QED BY <1>0, <4>1 DEF Stamps
    <3> QED BY <1>1, <1>2, <3>1
  <2>3. ASSUME NEW c \in Containers, change'[c] # Nothing
        PROVE  /\ running'[c] = "on" /\ change'[c].by = c /\ mark'[c] < change'[c].ts /\ change'[c].ts <= clock'
               /\ \A d \in Containers : change'[d] # Nothing /\ change'[d].ts = change'[c].ts => c = d
    <3>1. c # e /\ change'[c] = change[c]
      BY <1>2, <2>3
    <3>2. \A d \in Containers : change'[d] # Nothing => change'[d] = change[d]
      BY <1>2
    <3>3. /\ running[c] = "on" /\ change[c].by = c /\ mark[c] < change[c].ts /\ change[c].ts <= clock
          /\ \A d \in Containers : change[d] # Nothing /\ change[d].ts = change[c].ts => c = d
      BY <1>0, <2>3, <3>1 DEF Stamps
    <3> QED BY <1>2, <2>3, <3>1, <3>2, <3>3
  <2> QED BY <2>1, <2>2, <2>3 DEF Stamps
<1>11. OneByOne'
  BY <1>0, <1>2 DEF OneByOne, Busy
<1>10. \A v, t : Right(v, t) => Right(v, t)'
  BY <1>2 DEF Right, Owed
<1>8. ASSUME NEW c \in Containers, NEW t \in Tenants PROVE Informed(c, t)'
  <2> SUFFICES ASSUME Live(c, t)' PROVE InTurn(c, t)' /\ OwnFirst(c, t)' /\ Newest(c, t)'
    BY DEF Informed
  <2>1. <<c, t>> \notin behind' /\ InTurn(c, t) /\ OwnFirst(c, t) /\ Newest(c, t)
    BY <1>2 DEF SyncInv, Informed, Live
  <2>2. /\ c = e /\ t = m.tenant => own /\ ~Pending(c, t)
        /\ \A x \in Stamped : x.tenant = t => ~(x.ts < m.ts)
        /\ \A n \in Queued : n \notin Queued' /\ n.tenant = t => ~(mark[c] < n.ts)
    BY <1>3, <2>1
  <2>3. /\ \A x : About(x, c, t)' <=> About(x, c, t)
        /\ \A x : About(x, c, t) => x.tenant = t /\ x.ts > mark[c]
    BY <1>2 DEF About
  <2>4. \A i \in DOMAIN queue' :
          \/ queue'[i] = m /\ \A j \in 1 .. i - 1 : \E l \in DOMAIN queue : queue'[j] = queue[l]
          \/ \E k \in DOMAIN queue : queue'[i] = queue[k]
                                    /\ \A j \in 1 .. i - 1 : \E l \in 1 .. k - 1 : queue'[j] = queue[l]
    BY <1>1, <1>4, Places
  <2>5. \A l \in DOMAIN queue : queue[l] \in Queued
    BY DEF Queued
  <2>6. InTurn(c, t)'
    <3>1. ASSUME NEW i \in DOMAIN queue', About(queue'[i], c, t), NEW j \in 1 .. i - 1
          PROVE  queue'[j].ts < queue'[i].ts
      <4>1. CASE queue'[i] = m /\ \E l \in DOMAIN queue : queue'[j] = queue[l]
        <5>1. queue'[j] \in Queued
          BY <2>5, <4>1
        <5>2. \A n \in Queued : n.ts < m.ts
          BY <1>1, <2>1, <3>1, <4>1 DEF InTurn
        <5> QED BY <4>1, <5>1, <5>2
      <4>2. CASE \E k \in DOMAIN queue : queue'[i] = queue[k] /\ \E l \in 1 .. k - 1 : queue'[j] = queue[l]
        <5>1. PICK k \in DOMAIN queue : queue'[i] = queue[k] /\ \E l \in 1 .. k - 1 : queue'[j] = queue[l]
          BY <4>2
        <5>2. \A l \in 1 .. k - 1 : queue[l].ts < queue[k].ts
          BY <2>1, <3>1, <5>1 DEF InTurn
        <5> QED BY <5>1, <5>2
      <4> QED BY <2>4, <4>1, <4>2
    <3>2. ASSUME NEW x \in Stamped', About(x, c, t), NEW n \in Queued' PROVE n.ts < x.ts
      <4>1. x \in Stamped /\ x.ts # m.ts /\ ~(x.ts < m.ts) /\ x.ts \in Nat
        BY <1>1, <1>4, <2>2, <2>3, <3>2
      <4>2. n \in Queued \/ n = m
        BY <1>1
      <4>3. n \in Queued => n.ts < x.ts
        BY <2>1, <3>2, <4>1 DEF InTurn
      <4> QED BY <1>4, <4>1, <4>2, <4>3
    <3> QED BY <2>3, <3>1, <3>2 DEF InTurn
  <2>7. OwnFirst(c, t)'
    <3>1. ASSUME NEW i \in DOMAIN queue', About(queue'[i], c, t), queue'[i].by = c, NEW j \in 1 .. i - 1,
                 About(queue'[j], c, t)
          PROVE  queue'[j].by = c
      <4>1. CASE queue'[i] = m /\ \E l \in DOMAIN queue : queue'[j] = queue[l]
        <5>1. ~Pending(c, t)
          BY <1>1, <2>2, <2>3, <3>1, <4>1
        <5>2. queue'[j] \in Queued
          BY <2>5, <4>1
        <5> QED BY <3>1, <5>1, <5>2 DEF Pending, About
      <4>2. CASE \E k \in DOMAIN queue : queue'[i] = queue[k] /\ \E l \in 1 .. k - 1 : queue'[j] = queue[l]
        <5>1. PICK k \in DOMAIN queue : queue'[i] = queue[k] /\ \E l \in 1 .. k - 1 : queue'[j] = queue[l]
          BY <4>2
        <5>2. \A l \in 1 .. k - 1 : About(queue[l], c, t) => queue[l].by = c
          BY <2>1, <3>1, <5>1 DEF OwnFirst
        <5> QED BY <3>1, <5>1, <5>2
      <4> QED BY <2>4, <4>1, <4>2
    <3> QED BY <2>3, <3>1 DEF OwnFirst
  <2>8. Awaited(c, t)' = Awaited(c, t)
    <3>1. ASSUME NEW n, About(n, c, t) PROVE n \in Queued' \cup Stamped' <=> n \in Queued \cup Stamped
      <4>1. n.tenant = t /\ mark[c] < n.ts
        BY <2>3, <3>1
      <4>2. n \in Queued => n \in Queued'
        BY <2>2, <4>1
      <4> QED BY <1>1, <4>2
    <3> QED BY <2>3, <3>1 DEF Awaited
  <2>9. Newest(c, t)'
    <3>1. c = e /\ t = m.tenant => m \in Awaited(c, t)
      BY <1>1 DEF Awaited, About
    <3>2. Awaited(c, t) = {} => Right(reg[c][t], t)'
      <4>1. Awaited(c, t) = {} => reg'[c][t] = reg[c][t] /\ Right(reg[c][t], t)
        BY <1>5, <2>1, <3>1 DEF Newest
      <4> QED BY <1>2, <4>1 DEF Right, Owed
    <3>3. ASSUME NEW x \in Awaited(c, t), x \in Queued /\ x.by = c => reg[c][t] = x.ver,
                 x \in Queued', x.by = c
          PROVE  reg'[c][t] = x.ver
      <4>1. About(x, c, t) /\ (x \in Queued \/ x = m)
        BY <1>1, <3>3 DEF Awaited
      <4>2. CASE c = e /\ t = m.tenant
        <5>1. own /\ ~Pending(c, t)
          BY <2>2, <4>2
        <5>2. x = m
          BY <4>1, <5>1 DEF Pending, About
        <5> QED BY <1>5, <4>2, <5>1, <5>2
      <4>3. CASE ~(c = e /\ t = m.tenant)
        <5>1. x # m
          BY <1>1, <2>3, <3>3, <4>1, <4>3
        <5> QED BY <1>5, <3>3, <4>1, <4>3, <5>1
      <4> QED BY <4>2, <4>3
    <3>4. ASSUME Awaited(c, t) # {}
          PROVE  \E x \in Awaited(c, t) :
                   /\ Right(x.ver, t)' /\ \A n \in Awaited(c, t) : n.ts <= x.ts
                   /\ x \in Queued' /\ x.by = c => reg'[c][t] = x.ver
      <4>1. PICK x \in Awaited(c, t) :
              /\ Right(x.ver, t) /\ \A n \in Awaited(c, t) : n.ts <= x.ts
              /\ x \in Queued /\ x.by = c => reg[c][t] = x.ver
        BY <2>1, <3>4 DEF Newest
      <4>2. x \in Queued' /\ x.by = c => reg'[c][t] = x.ver
        BY <3>3, <4>1
      <4>3. Right(x.ver, t)'
        BY <1>10, <4>1
      <4> QED BY <4>1, <4>2, <4>3
    <3> QED BY <2>8, <3>2, <3>4 DEF Newest
  <2> QED BY <2>6, <2>7, <2>9
<1>9. ASSUME NEW c \in Containers, NEW t \in Tenants, running'[c] = "loaded", <<c, t>> \notin behind'
      PROVE  Right(reg[c][t], t)'
  <2>1. running[c] = "loaded" /\ <<c, t>> \notin behind /\ c # e
    BY <1>1, <1>2, <1>9
  <2>2. reg'[c][t] = reg[c][t] /\ Right(reg[c][t], t)
    BY <1>5, <2>1 DEF SyncInv
  <2> QED BY <1>2, <2>2 DEF Right, Owed
<1> QED BY <1>6, <1>7, <1>8, <1>9, <1>11 DEF SyncInv

-----------------------------------------------------------------------------
\* A change that is not announced, with its container or without
\* (tenant_sync.py:154-202).
LEMMA Unannounced ==
  ASSUME SyncInv, NEW e \in Containers, change' = [change EXCEPT ![e] = Nothing],
         looked' = looked \/ looked' = [looked EXCEPT ![e] = Nothing],
         draft' = draft \/ draft' = [draft EXCEPT ![e] = Nothing],
         running' = running \/ (running' = [running EXCEPT ![e] = "down"] /\ ~Busy(e)'),
         reg' \in [Containers -> [Tenants -> Versions]],
         behind \subseteq behind', behind' \subseteq Containers \X Tenants,
         \A c \in Containers, t \in Tenants : <<c, t>> \notin behind' =>
           /\ reg'[c][t] = reg[c][t]
           /\ change[e] # Nothing => change[e].tenant # t
           /\ draft'[e] # draft[e] => ~Owed(t, {e}),
         syncCrashes' \in 0 .. MaxSyncCrashes,
         UNCHANGED <<cfg, queue, writes, clock, mark>>
  PROVE  SyncInv'
<1>0. SyncTypeOK /\ Stamps /\ OneByOne
  BY DEF SyncInv
<1>1. /\ change'[e] = Nothing /\ \A d \in Containers \ {e} : change'[d] = change[d]
      /\ change' \in [Containers -> Changes \cup {Nothing}]
      /\ draft'[e] \in {draft[e], Nothing} /\ \A d \in Containers \ {e} : draft'[d] = draft[d]
      /\ draft' \in [Containers -> Drafts \cup {Nothing}]
      /\ looked'[e] \in {looked[e], Nothing} /\ \A d \in Containers \ {e} : looked'[d] = looked[d]
      /\ looked' \in [Containers -> Looks \cup {Nothing}]
  BY <1>0, SyncTypes
<1>2. /\ running' \in [Containers -> {"down", "loaded", "on"}]
      /\ \A c \in Containers : running'[c] = running[c] \/ (c = e /\ running'[c] = "down" /\ ~Busy(e)')
  BY <1>0, SyncTypes
<1>4. SyncTypeOK'
  BY <1>0, <1>1, <1>2 DEF SyncTypeOK
<1>5. Queued' = Queued /\ Stamped' \subseteq Stamped /\ \A x \in Stamped : x \in Stamped' \/ x = change[e]
  <2>1. Nothing \notin Changes
    BY <1>0, SyncTypes
  <2> QED BY <1>1, <2>1 DEF Queued, Stamped
<1>6. Stamps'
  <2>1. ASSUME NEW c \in Containers, change'[c] # Nothing
        PROVE  /\ running'[c] = "on" /\ change'[c].by = c /\ mark[c] < change'[c].ts /\ change'[c].ts <= clock
               /\ \A d \in Containers : change'[d] # Nothing /\ change'[d].ts = change'[c].ts => c = d
    <3>1. c # e /\ change'[c] = change[c] /\ running'[c] = running[c]
      BY <1>1, <1>2, <2>1
    <3>2. \A d \in Containers : change'[d] # Nothing => change'[d] = change[d]
      BY <1>1
    <3>3. /\ running[c] = "on" /\ change[c].by = c /\ mark[c] < change[c].ts /\ change[c].ts <= clock
          /\ \A d \in Containers : change[d] # Nothing /\ change[d].ts = change[c].ts => c = d
      BY <1>0, <2>1, <3>1 DEF Stamps
    <3> QED BY <2>1, <3>1, <3>2, <3>3
  <2> QED BY <1>0, <1>5, <2>1 DEF Stamps
<1>10. OneByOne'
  <2> SUFFICES ASSUME NEW c \in Containers
               PROVE  /\ Busy(c)' => running'[c] = "on"
                      /\ looked'[c] # Nothing => draft'[c] = Nothing
                      /\ looked'[c] # Nothing \/ draft'[c] # Nothing => change'[c] = Nothing
    BY DEF OneByOne
  <2>1. Busy(c)' => Busy(c)
    BY <1>1 DEF Busy
  <2>2. Busy(c)' => running'[c] = "on"
    BY <1>0, <1>2, <2>1 DEF OneByOne
  <2> QED BY <1>0, <1>1, <2>2 DEF OneByOne
<1>7. ASSUME NEW c \in Containers, NEW t \in Tenants, <<c, t>> \notin behind'
      PROVE  \A v : Right(v, t) => Right(v, t)'
  <2>1. Owed(t, Containers) => Owed(t, Containers)'
    <3> SUFFICES ASSUME NEW d \in Containers, draft[d] # Nothing, draft[d].tenant = t, draft[d].ver = cfg[t]
                 PROVE  Owed(t, Containers)'
      BY DEF Owed
    <3>1. draft'[d] = draft[d]
      BY <1>1, <1>7 DEF Owed
    <3> QED BY <3>1 DEF Owed
  <2> QED BY <2>1 DEF Right
<1>8. ASSUME NEW c \in Containers, NEW t \in Tenants PROVE Informed(c, t)'
  <2> SUFFICES ASSUME Live(c, t)' PROVE Informed(c, t)'
    BY DEF Informed
  <2>1. Live(c, t) /\ Informed(c, t) /\ <<c, t>> \notin behind' /\ reg'[c][t] = reg[c][t]
    BY <1>2 DEF Live, SyncInv
  <2>2. \A x : x.tenant = t => (x \in Stamped' <=> x \in Stamped)
    <3>1. change[e] # Nothing => change[e].tenant # t
      BY <2>1
    <3>2. Nothing \notin Stamped
      BY <1>0, SyncTypes
    <3> QED BY <1>5, <3>1, <3>2
  <2>3. \A v : Right(v, t) => Right(v, t)'
    BY <1>7, <2>1
  <2> QED BY <2>1, <2>2, <2>3, InformedStays
<1>9. ASSUME NEW c \in Containers, NEW t \in Tenants, running'[c] = "loaded", <<c, t>> \notin behind'
      PROVE  Right(reg[c][t], t)'
  <2> PICK v : v = reg[c][t]
    OBVIOUS
  <2>1. Right(v, t) => Right(v, t)'
    BY <1>7, <1>9
  <2>2. Right(v, t) /\ reg'[c][t] = v
    BY <1>2, <1>9 DEF SyncInv
  <2> QED BY <2>1, <2>2 DEF Right
<1> QED BY <1>4, <1>6, <1>8, <1>9, <1>10 DEF SyncInv

\* A container starts and reads the configuration (tenant_sync.py:211-264).
LEMMA LoadStep ==
  ASSUME SyncInv, NEW e \in Containers, NEW missing \in SUBSET Tenants, Load(e, missing) PROVE SyncInv'
<1> PICK read : read = [t \in Tenants |-> IF t \in missing THEN 0 ELSE cfg[t]]
  OBVIOUS
<1>0. SyncTypeOK /\ Stamps /\ OneByOne
  BY DEF SyncInv
<1>1. /\ running[e] = "down" /\ running' = [running EXCEPT ![e] = "loaded"]
      /\ reg' = [reg EXCEPT ![e] = read]
      /\ behind' = {b \in behind : b[1] # e} \cup ({e} \X {t \in missing : cfg[t] # 0})
      /\ UNCHANGED <<cfg, queue, writes, clock, mark, looked, draft, change, syncCrashes>>
  BY DEF Load
<1>2. /\ running' \in [Containers -> {"down", "loaded", "on"}]
      /\ read \in [Tenants -> Versions]
      /\ reg' \in [Containers -> [Tenants -> Versions]]
      /\ running'[e] = "loaded" /\ reg'[e] = read
      /\ \A c \in Containers \ {e} : running'[c] = running[c] /\ reg'[c] = reg[c]
      /\ behind' \subseteq Containers \X Tenants
  <2>1. 0 \in Versions
    BY SyncConstants DEF Versions
  <2>2. read \in [Tenants -> Versions]
    BY <1>0, <2>1, SyncTypes
  <2> QED BY <1>0, <1>1, <2>2, SyncTypes
<1>3. SyncTypeOK'
  BY <1>0, <1>1, <1>2 DEF SyncTypeOK
<1>4. Stamps' /\ OneByOne'
  <2>1. \A c \in Containers : change[c] # Nothing => running'[c] = "on"
    BY <1>0, <1>1, <1>2 DEF Stamps
  <2>2. Stamps'
    BY <1>0, <1>1, <2>1 DEF Stamps, Queued
  <2>3. OneByOne'
    BY <1>0, <1>1, <1>2 DEF OneByOne, Busy
  <2> QED BY <2>2, <2>3
<1>5. ASSUME NEW c \in Containers, NEW t \in Tenants, c # e
      PROVE  <<c, t>> \notin behind' => <<c, t>> \notin behind
  BY <1>1, <1>5
<1>6. \A v, t : Right(v, t) => Right(v, t)'
  BY <1>1 DEF Right, Owed
<1>7. ASSUME NEW c \in Containers, NEW t \in Tenants PROVE Informed(c, t)'
  <2> SUFFICES ASSUME Live(c, t)' PROVE Informed(c, t)'
    BY DEF Informed
  <2>1. c # e /\ Live(c, t) /\ Informed(c, t)
    BY <1>2, <1>5 DEF Live, SyncInv
  <2>2. Stamped' = Stamped
    BY <1>1 DEF Stamped
  <2> QED BY <1>1, <1>2, <1>6, <2>1, <2>2, InformedStays
<1>8. ASSUME NEW c \in Containers, NEW t \in Tenants, running'[c] = "loaded", <<c, t>> \notin behind'
      PROVE  Right(reg[c][t], t)'
  <2>1. CASE c = e
    <3>1. t \in missing => cfg[t] = 0
      BY <1>1, <1>8, <2>1
    <3>2. reg'[c][t] = cfg[t]
      BY <1>2, <2>1, <3>1
    <3> QED BY <1>1, <3>2 DEF Right
  <2>2. CASE c # e
    <3>1. reg'[c][t] = reg[c][t] /\ Right(reg[c][t], t)
      BY <1>2, <1>5, <1>8, <2>2 DEF SyncInv
    <3> QED BY <1>1, <3>1 DEF Right, Owed
  <2> QED BY <2>1, <2>2
<1> QED BY <1>3, <1>4, <1>7, <1>8 DEF SyncInv

\* Later in its start it takes what has been stamped to be known
\* (tenant_sync.py:334-337).
LEMMA ListenStep ==
  ASSUME SyncInv, NEW e \in Containers, Listen(e) PROVE SyncInv'
<1>0. SyncTypeOK /\ Stamps /\ OneByOne
  BY DEF SyncInv
<1>1. /\ running[e] = "loaded" /\ running' = [running EXCEPT ![e] = "on"]
      /\ mark' = [mark EXCEPT ![e] = clock]
      /\ UNCHANGED <<cfg, queue, writes, clock, reg, looked, draft, change, syncCrashes, behind>>
  BY DEF Listen
<1>2. /\ running' \in [Containers -> {"down", "loaded", "on"}]
      /\ mark' \in [Containers -> 0 .. MaxChanges]
      /\ running'[e] = "on" /\ mark'[e] = clock
      /\ \A c \in Containers \ {e} : running'[c] = running[c] /\ mark'[c] = mark[c]
  BY <1>0, <1>1, SyncTypes
<1>3. SyncTypeOK'
  BY <1>0, <1>1, <1>2 DEF SyncTypeOK
<1>4. Queued' = Queued /\ Stamped' = Stamped
  BY <1>1 DEF Queued, Stamped
<1>5. Stamps'
  <2>1. \A c \in Containers : change[c] # Nothing => c # e
    BY <1>0, <1>1 DEF Stamps, Busy
  <2>2. \A c \in Containers : mark'[c] <= clock
    <3>1. clock \in Nat /\ \A c \in Containers : mark[c] <= clock
      BY <1>0, SyncTypes DEF Stamps
    <3> QED BY <1>2, <3>1
  <2> QED BY <1>0, <1>1, <1>2, <1>4, <2>1, <2>2 DEF Stamps
<1>9. OneByOne'
  BY <1>0, <1>1, <1>2 DEF OneByOne, Busy
<1>8. \A v, t : Right(v, t) => Right(v, t)'
  BY <1>1 DEF Right, Owed
<1>6. ASSUME NEW c \in Containers, NEW t \in Tenants PROVE Informed(c, t)'
  <2> SUFFICES ASSUME Live(c, t)' PROVE Informed(c, t)'
    BY DEF Informed
  <2>1. CASE c # e
    <3>1. Live(c, t) /\ Informed(c, t)
      BY <1>1, <1>2, <2>1 DEF Live, SyncInv
    <3> QED BY <1>1, <1>2, <1>4, <1>8, <2>1, <3>1, InformedStays
  <2>2. CASE c = e
    <3>1. Right(reg[c][t], t)
      BY <1>1, <2>2 DEF Live, SyncInv
    <3>2. \A x \in Queued \cup Stamped : ~(x.tenant = t /\ x.ts > mark'[c])
      <4>1. \A x \in Queued \cup Stamped : x.ts \in Nat /\ x.ts <= clock /\ clock \in Nat
        <5>1. \A x \in Queued \cup Stamped : x.ts \in Nat
          BY <1>0, SyncTypes
        <5>2. \A x \in Queued \cup Stamped : x.ts <= clock
          BY <1>0, SyncTypes DEF Stamps, Stamped
        <5> QED BY <1>0, <5>1, <5>2, SyncTypes
      <4> QED BY <1>2, <2>2, <4>1
    <3>3. Awaited(c, t)' = {}
      BY <1>4, <3>2 DEF Awaited, About
    <3>4. \A i \in DOMAIN queue' : queue'[i] \in Queued
      BY <1>1 DEF Queued
    <3>5. InTurn(c, t)' /\ OwnFirst(c, t)'
      <4>1. InTurn(c, t)'
        BY <1>4, <3>2, <3>4 DEF InTurn, About
      <4>2. OwnFirst(c, t)'
        BY <3>2, <3>4 DEF OwnFirst, About
      <4> QED BY <4>1, <4>2
    <3>6. Newest(c, t)'
      BY <1>1, <3>1, <3>3 DEF Newest, Right, Owed
    <3> QED BY <3>5, <3>6 DEF Informed
  <2> QED BY <2>1, <2>2
<1>7. ASSUME NEW c \in Containers, NEW t \in Tenants, running'[c] = "loaded", <<c, t>> \notin behind'
      PROVE  Right(reg[c][t], t)'
  <2>1. running[c] = "loaded" /\ <<c, t>> \notin behind
    BY <1>1, <1>2, <1>7
  <2> QED BY <1>1, <2>1 DEF SyncInv, Right, Owed
<1> QED BY <1>3, <1>5, <1>6, <1>7, <1>9 DEF SyncInv

\* A container reads the queue (tenant_sync.py:271-361).
LEMMA PollStep ==
  ASSUME SyncInv, NEW e \in Containers, Poll(e) PROVE SyncInv'
<1>0. SyncTypeOK /\ Stamps /\ OneByOne
  BY DEF SyncInv
<1> PICK s, r : s = [mark |-> mark[e], reg |-> reg[e]] /\ r = After(e)
  OBVIOUS
<1>1. /\ running[e] = "on" /\ ~Busy(e) /\ change[e] = Nothing
      /\ mark' = [mark EXCEPT ![e] = r.mark] /\ reg' = [reg EXCEPT ![e] = r.reg]
      /\ UNCHANGED <<cfg, queue, writes, clock, running, looked, draft, change, syncCrashes, behind>>
  BY DEF Poll, Busy
<1>2. Polled(e, s, queue, r) /\ s.mark = mark[e] /\ s.reg = reg[e] /\ queue \in Seq(Changes)
  BY <1>0, PollOf, SyncTypes
<1>3. /\ r \in States /\ mark[e] <= r.mark /\ \A i \in 1 .. Len(queue) : queue[i].ts <= r.mark
      /\ r.mark = mark[e] \/ \E i \in 1 .. Len(queue) : r.mark = queue[i].ts
  <2>1. Reached(s, queue, r)
    BY ONLY <1>2, PollMarks
  <2> QED BY <1>2, <2>1 DEF Reached
<1>4. /\ r.mark \in 0 .. MaxChanges /\ r.mark \in Nat /\ r.reg \in [Tenants -> Versions]
      /\ mark[e] \in Nat /\ clock \in Nat
      /\ \A x \in Queued \cup Stamped : x.ts \in Nat
      /\ DOMAIN queue = 1 .. Len(queue) /\ Queued = {queue[i] : i \in 1 .. Len(queue)}
  <2>1. r.mark \in 0 .. MaxChanges /\ r.reg \in [Tenants -> Versions]
    BY <1>3 DEF States
  <2>2. r.mark \in Nat
    BY <2>1, SyncConstants
  <2>3. DOMAIN queue = 1 .. Len(queue)
    BY <1>2, QueueTypes
  <2> QED BY <1>0, <2>1, <2>2, <2>3, SyncTypes DEF Queued
<1>5. /\ mark' \in [Containers -> 0 .. MaxChanges] /\ reg' \in [Containers -> [Tenants -> Versions]]
      /\ mark'[e] = r.mark /\ reg'[e] = r.reg
      /\ \A c \in Containers \ {e} : mark'[c] = mark[c] /\ reg'[c] = reg[c]
  BY <1>0, <1>1, <1>4, SyncTypes
<1>6. SyncTypeOK'
  BY <1>0, <1>1, <1>5 DEF SyncTypeOK
<1>7. Queued' = Queued /\ Stamped' = Stamped
  BY <1>1 DEF Queued, Stamped
<1>8. Stamps'
  <2>1. r.mark <= clock
    BY <1>0, <1>3, <1>4 DEF Stamps
  <2> QED BY <1>0, <1>1, <1>5, <1>7, <2>1 DEF Stamps
<1>13. OneByOne'
  BY <1>0, <1>1 DEF OneByOne, Busy
<1>12. \A v, t : Right(v, t) <=> Right(v, t)'
  BY <1>1 DEF Right, Owed
<1>9. ASSUME NEW t \in Tenants, Live(e, t) PROVE Informed(e, t)'
  <2>1. InTurn(e, t) /\ OwnFirst(e, t) /\ Newest(e, t)
    BY <1>9 DEF SyncInv, Informed
  <2>2. \A x \in Queued : x.ts <= r.mark
    BY <1>3, <1>4
  <2>3. \A x \in Queued \cup Stamped : x.ts > r.mark => x \in Stamped /\ x.ts > mark[e]
    BY <1>3, <1>4, <2>2
  <2>4. \A i \in DOMAIN queue' : queue'[i] \in Queued
    BY <1>1 DEF Queued
  <2>5. InTurn(e, t)'
    <3>1. \A x \in Stamped : x.tenant = t /\ x.ts > r.mark => \A n \in Queued : n.ts < x.ts
      BY <2>1, <2>3 DEF InTurn, About
    <3>2. \A i \in DOMAIN queue' : ~(queue'[i].ts > r.mark)
      BY <1>4, <2>2, <2>4
    <3> QED BY <1>5, <1>7, <3>1, <3>2 DEF InTurn, About
  <2>6. OwnFirst(e, t)'
    <3>1. \A i \in DOMAIN queue' : ~(queue'[i].ts > r.mark)
      BY <1>4, <2>2, <2>4
    <3> QED BY <1>5, <3>1 DEF OwnFirst, About
  <2>7. Awaited(e, t)' = {x \in Stamped : x.tenant = t /\ x.ts > r.mark}
    BY <1>5, <1>7, <2>3 DEF Awaited, About
  <2>8. Awaited(e, t)' \subseteq Awaited(e, t)
    BY <2>3, <2>7 DEF Awaited, About
  <2>9. ASSUME Awaited(e, t)' = {} PROVE Right(r.reg[t], t)
    <3>1. CASE Awaited(e, t) = {}
      <4>1. OnlyOwn(queue, 0, e, t, s.mark)
        BY <1>2, <1>4, <3>1 DEF Awaited, About, OnlyOwn
      <4>2. Entry(r, t) = Entry(s, t)
        BY <1>2, <4>1, PollLeaves
      <4> QED BY <1>2, <2>1, <3>1, <4>2 DEF Newest, Entry
    <3>2. CASE Awaited(e, t) # {}
      <4>1. PICK x \in Awaited(e, t) :
              /\ Right(x.ver, t) /\ \A n \in Awaited(e, t) : n.ts <= x.ts
              /\ x \in Queued /\ x.by = e => reg[e][t] = x.ver
        BY <2>1, <3>2 DEF Newest
      <4>2. x.tenant = t /\ x.ts > mark[e] /\ x \in Queued \cup Stamped /\ x.ts \in Nat
        BY <1>4 DEF Awaited, About
      <4>3. x \in Queued
        <5>1. SUFFICES ASSUME x \in Stamped PROVE FALSE
          BY <4>2
        <5>2. \A n \in Queued : n.ts < x.ts
          BY <2>1, <4>2, <5>1 DEF InTurn, About
        <5>3. x.ts > r.mark
          BY <1>3, <1>4, <4>2, <5>2
        <5> QED BY <2>7, <2>9, <4>2, <5>1, <5>3
      <4>4. PICK k \in 1 .. Len(queue) : x = queue[k]
        BY <1>4, <4>3
      <4>5. \A j \in 1 .. k - 1 : queue[j].ts < queue[k].ts
        BY <1>4, <2>1, <4>2, <4>4 DEF InTurn, About
      <4>6. ASSUME NEW i \in k + 1 .. Len(queue), queue[i].tenant = t, queue[i].ts > s.mark PROVE FALSE
        <5>1. i \in 1 .. Len(queue) /\ k \in 1 .. i - 1
          BY <1>2, QueueTypes
        <5>2. About(queue[i], e, t) /\ queue[i] \in Awaited(e, t)
          BY <1>2, <1>4, <4>6, <5>1 DEF Awaited, About
        <5>3. queue[k].ts < queue[i].ts
          BY <1>4, <2>1, <5>1, <5>2 DEF InTurn
        <5>4. queue[i].ts <= queue[k].ts
          BY <4>1, <4>4, <5>2
        <5> QED BY <1>4, <5>1, <5>3, <5>4
      <4>7. CASE x.by = e
        <5>1. ASSUME NEW i \in 1 .. Len(queue), queue[i].tenant = t, queue[i].ts > s.mark
              PROVE  queue[i].by = e
          <6>1. i \in k + 1 .. Len(queue) \/ i = k \/ i \in 1 .. k - 1
            BY <1>2, QueueTypes
          <6>2. i \notin k + 1 .. Len(queue)
            BY <4>6, <5>1
          <6>3. i \in 1 .. k - 1 => queue[i].by = e
            BY <1>2, <1>4, <2>1, <4>2, <4>4, <4>7, <5>1 DEF OwnFirst, About
          <6> QED BY <4>4, <4>7, <6>1, <6>2, <6>3
        <5>2. OnlyOwn(queue, 0, e, t, s.mark)
          BY <5>1 DEF OnlyOwn
        <5>3. Entry(r, t) = Entry(s, t)
          BY <1>2, <5>2, PollLeaves
        <5> QED BY <1>2, <4>1, <4>3, <4>7, <5>3 DEF Entry
      <4>8. CASE x.by # e
        <5>1. queue[k].tenant = t /\ queue[k].by # e /\ queue[k].ts > s.mark
          BY <1>2, <4>2, <4>4, <4>8
        <5>2. OnlyOwn(queue, k, e, t, s.mark) /\ Rising(queue, k)
          BY <4>5, <4>6 DEF OnlyOwn, Rising
        <5>3. Entry(r, t) = queue[k].ver
          BY <1>2, <5>1, <5>2, PollLearns
        <5> QED BY <4>1, <4>4, <5>3 DEF Entry
      <4> QED BY <4>7, <4>8
    <3> QED BY <3>1, <3>2
  <2>10. ASSUME NEW y \in Awaited(e, t)'
         PROVE  \E x \in Awaited(e, t)' :
                  Right(x.ver, t) /\ (\A n \in Awaited(e, t)' : n.ts <= x.ts) /\ x \notin Queued
    <3>1. PICK x \in Awaited(e, t) : Right(x.ver, t) /\ \A n \in Awaited(e, t) : n.ts <= x.ts
      BY <2>1, <2>8, <2>10 DEF Newest
    <3>2. y.ts <= x.ts /\ y.ts > r.mark /\ y.ts \in Nat
      BY <1>4, <2>7, <2>8, <2>10, <3>1
    <3>3. x \in Queued \cup Stamped /\ x.ts \in Nat /\ x.tenant = t
      BY <1>4 DEF Awaited, About
    <3>4. x.ts > r.mark /\ x \in Stamped
      BY <1>4, <2>3, <3>2, <3>3
    <3>5. x \in Awaited(e, t)' /\ x \notin Queued
      BY <1>4, <2>2, <2>7, <3>3, <3>4
    <3> QED BY <2>8, <3>1, <3>5
  <2>11. Newest(e, t)'
    <3>1. Awaited(e, t)' = {} => Right(reg[e][t], t)'
      BY <1>1, <1>5, <2>9 DEF Right, Owed
    <3>2. Awaited(e, t)' # {} =>
            \E x \in Awaited(e, t)' :
              /\ Right(x.ver, t)' /\ \A n \in Awaited(e, t)' : n.ts <= x.ts
              /\ x \in Queued' /\ x.by = e => reg'[e][t] = x.ver
      BY <1>7, <1>12, <2>10
    <3> QED BY <3>1, <3>2 DEF Newest
  <2> QED BY <2>5, <2>6, <2>11 DEF Informed
<1>10. ASSUME NEW c \in Containers, NEW t \in Tenants PROVE Informed(c, t)'
  <2> SUFFICES ASSUME Live(c, t)' PROVE Informed(c, t)'
    BY DEF Informed
  <2>1. Live(c, t) /\ Informed(c, t)
    BY <1>1 DEF Live, SyncInv
  <2>2. CASE c = e
    BY <1>9, <2>1, <2>2
  <2>3. CASE c # e
    BY <1>1, <1>5, <1>7, <1>12, <2>1, <2>3, InformedStays
  <2> QED BY <2>2, <2>3
<1>11. ASSUME NEW c \in Containers, NEW t \in Tenants, running'[c] = "loaded", <<c, t>> \notin behind'
       PROVE  Right(reg[c][t], t)'
  <2>1. running[c] = "loaded" /\ <<c, t>> \notin behind /\ c # e
    BY <1>1, <1>11
  <2>2. reg'[c][t] = reg[c][t] /\ Right(reg[c][t], t)
    BY <1>5, <2>1 DEF SyncInv
  <2> QED BY <1>1, <2>2 DEF Right, Owed
<1> QED BY <1>6, <1>8, <1>10, <1>11, <1>13 DEF SyncInv

-----------------------------------------------------------------------------
LEMMA SyncStays == SyncInv /\ UNCHANGED syncVars => SyncInv'
<1> SUFFICES ASSUME SyncInv, UNCHANGED syncVars PROVE SyncInv'
  OBVIOUS
<1>1. UNCHANGED <<cfg, queue, writes, clock, running, reg, mark, looked, draft, change, syncCrashes, behind>>
  BY DEF syncVars
<1>2. SyncTypeOK' /\ Stamps' /\ OneByOne'
  <2>1. SyncTypeOK /\ Stamps /\ OneByOne
    BY DEF SyncInv
  <2>2. SyncTypeOK'
    BY <1>1, <2>1 DEF SyncTypeOK
  <2>3. Stamps'
    BY <1>1, <2>1 DEF Stamps, Queued
  <2>4. OneByOne'
    BY <1>1, <2>1 DEF OneByOne, Busy
  <2> QED BY <2>2, <2>3, <2>4
<1>6. \A v, t : Right(v, t) => Right(v, t)'
  BY <1>1 DEF Right, Owed
<1>3. ASSUME NEW c \in Containers, NEW t \in Tenants PROVE Informed(c, t)'
  <2>1. Stamped' = Stamped /\ Informed(c, t) /\ (Live(c, t)' => Live(c, t))
    BY <1>1 DEF Stamped, SyncInv, Live
  <2> QED BY <1>1, <1>6, <2>1, InformedStays
<1>4. \A c \in Containers, t \in Tenants :
        running'[c] = "loaded" /\ <<c, t>> \notin behind' => Right(reg[c][t], t)'
  BY <1>1 DEF SyncInv, Right, Owed
<1> QED BY <1>2, <1>3, <1>4 DEF SyncInv

LEMMA SyncStep == SyncInv /\ [SyncNext]_syncVars => SyncInv'
<1> SUFFICES ASSUME SyncInv, SyncNext PROVE SyncInv'
  BY SyncStays
<1>1. PICK e \in Containers :
        \/ \E t \in Tenants : LookUp(e, t) \/ \E adds \in BOOLEAN : AddOrRemove(e, t, adds)
        \/ Update(e) \/ Stamp(e)
        \/ \E own \in BOOLEAN : PushFails(e, own) \/ \E room \in {MaxQueue, Len(queue) + 1} : Push(e, own, room)
        \/ Poll(e) \/ SyncCrash(e)
        \/ \E missing \in SUBSET Tenants : Load(e, missing)
        \/ Listen(e)
  BY DEF SyncNext
<1>2. CASE \E t \in Tenants : LookUp(e, t)
  BY <1>2, LookStep
<1>3. /\ SyncTypeOK /\ OneByOne /\ syncCrashes \in 0 .. MaxSyncCrashes
      /\ behind \subseteq Containers \X Tenants /\ reg \in [Containers -> [Tenants -> Versions]]
      /\ writes < MaxChanges => writes + 1 \in Versions
      /\ 0 \in Versions
  BY SyncConstants DEF SyncInv, SyncTypeOK, Versions
<1>4. CASE \E t \in Tenants, adds \in BOOLEAN : AddOrRemove(e, t, adds)
  <2> PICK t \in Tenants, adds \in BOOLEAN : AddOrRemove(e, t, adds)
    BY <1>4
  <2> PICK ver : ver = IF adds THEN writes + 1 ELSE 0
    OBVIOUS
  <2>1. /\ Put(e, t, ver, TRUE) /\ running[e] = "on" /\ draft[e] = Nothing /\ change[e] = Nothing
        /\ behind' = behind
    BY DEF AddOrRemove, Busy
  <2>2. ver \in Versions
    BY <1>3, <2>1 DEF Put
  <2> QED BY <1>3, <2>1, <2>2, PutStep
<1>5. CASE Update(e)
  <2> PICK t, sent : t = looked[e].tenant /\ sent = (looked[e].seen # 0)
    OBVIOUS
  <2>1. looked[e] # Nothing /\ Put(e, t, writes + 1, sent)
    BY <1>5 DEF Update
  <2>2. looked[e] \in Looks
    BY <1>3, <2>1, SyncTypes
  <2>3. t \in Tenants
    BY <2>2 DEF Looks
  <2>4. running[e] = "on" /\ draft[e] = Nothing /\ change[e] = Nothing
    BY <1>3, <2>1 DEF OneByOne, Busy
  <2>5. behind \subseteq behind' /\ behind' \subseteq Containers \X Tenants
    BY <1>3, <1>5, <2>3 DEF Update
  <2>6. writes + 1 \in Versions /\ sent \in BOOLEAN
    BY <1>3, <2>1 DEF Put
  <2> QED BY <2>1, <2>3, <2>4, <2>5, <2>6, PutStep
<1>6. CASE Stamp(e)
  BY <1>6, StampStep
<1>7. CASE \E own \in BOOLEAN : PushFails(e, own)
  <2> PICK own \in BOOLEAN : PushFails(e, own)
    BY <1>7
  <2>1. /\ change[e] # Nothing /\ change' = [change EXCEPT ![e] = Nothing]
        /\ running' = running /\ looked' = looked /\ draft' = draft
        /\ behind' = behind \cup (Containers \X {change[e].tenant})
        /\ reg' = IF own THEN [reg EXCEPT ![e][change[e].tenant] = change[e].ver] ELSE reg
        /\ syncCrashes' \in 0 .. MaxSyncCrashes
        /\ UNCHANGED <<cfg, queue, writes, clock, mark>>
    BY <1>3 DEF PushFails, Registers
  <2>2. change[e].tenant \in Tenants /\ change[e].ver \in Versions
    BY <1>3, <2>1, SyncTypes
  <2>3. /\ reg' \in [Containers -> [Tenants -> Versions]]
        /\ \A c \in Containers, t \in Tenants : t # change[e].tenant => reg'[c][t] = reg[c][t]
    BY <1>3, <2>1, <2>2
  <2>4. \A c \in Containers, t \in Tenants : <<c, t>> \notin behind' => t # change[e].tenant
    BY <2>1
  <2>5. behind \subseteq behind' /\ behind' \subseteq Containers \X Tenants
    BY <1>3, <2>1, <2>2
  <2>6. \A c \in Containers, t \in Tenants : <<c, t>> \notin behind' =>
           /\ reg'[c][t] = reg[c][t]
           /\ change[e] # Nothing => change[e].tenant # t
           /\ draft'[e] # draft[e] => ~Owed(t, {e})
    BY <2>1, <2>3, <2>4
  <2> QED BY <2>1, <2>3, <2>5, <2>6, Unannounced
<1>8. CASE \E own \in BOOLEAN, room \in {MaxQueue, Len(queue) + 1} : Push(e, own, room)
  BY <1>8, PushStep
<1>9. CASE SyncCrash(e)
  <2>1. /\ change' = [change EXCEPT ![e] = Nothing] /\ running' = [running EXCEPT ![e] = "down"]
        /\ draft' = [draft EXCEPT ![e] = Nothing] /\ looked' = [looked EXCEPT ![e] = Nothing]
        /\ behind' = behind \cup
             (Containers \X {t \in Tenants : Owed(t, {e}) \/ (change[e] # Nothing /\ change[e].tenant = t)})
        /\ syncCrashes' \in 0 .. MaxSyncCrashes
        /\ UNCHANGED <<cfg, queue, writes, clock, reg, mark>>
    BY <1>3, <1>9, SyncConstants DEF SyncCrash
  <2>2. ~Busy(e)'
    BY <1>3, <2>1, SyncTypes DEF Busy
  <2>3. behind \subseteq behind' /\ behind' \subseteq Containers \X Tenants
    BY <1>3, <2>1
  <2>4. \A c \in Containers, t \in Tenants : <<c, t>> \notin behind' =>
           /\ reg'[c][t] = reg[c][t]
           /\ change[e] # Nothing => change[e].tenant # t
           /\ draft'[e] # draft[e] => ~Owed(t, {e})
    BY <2>1
  <2>5. reg' \in [Containers -> [Tenants -> Versions]]
    BY <1>3, <2>1
  <2> QED BY <2>1, <2>2, <2>3, <2>4, <2>5, Unannounced
<1>10. CASE Poll(e)
  BY <1>10, PollStep
<1>11. CASE \E missing \in SUBSET Tenants : Load(e, missing)
  BY <1>11, LoadStep
<1>12. CASE Listen(e)
  BY <1>12, ListenStep
<1> QED BY <1>1, <1>2, <1>4, <1>5, <1>6, <1>7, <1>8, <1>9, <1>10, <1>11, <1>12

\* For any containers and tenants: a container that is not behind has, of every
\* tenant, what is in Redis, or the newest change that the queue or a container
\* still holds for it tells that, or who wrote that has yet to announce it
\* (tenant_sync.py:144-361).
THEOREM SyncInvariant == SyncSpec => []SyncInv
<1>1. SyncInit => SyncInv
  BY SyncStart
<1>2. SyncInv /\ [SyncNext]_syncVars => SyncInv'
  BY SyncStep
<1> QED BY <1>1, <1>2, PTL DEF SyncSpec

\* A container that has polled knows the configuration that is in Redis, unless it
\* missed a change for one of the reasons the code has (tenant_sync.py:144-361).
THEOREM ContainersAreInStep == SyncSpec => []InStep
<1>1. ASSUME SyncInv PROVE InStep
  <2> SUFFICES ASSUME NEW c \in Containers, NEW t \in Tenants, running[c] = "on", ~Pending(c, t),
                      ~Underway(t), <<c, t>> \notin behind
               PROVE  reg[c][t] = cfg[t]
    BY DEF InStep
  <2>1. Newest(c, t)
    BY <1>1 DEF SyncInv, Informed, Live
  <2>2. \A x \in Queued : ~About(x, c, t)
    BY DEF Pending, About
  <2>3. \A x \in Stamped : ~About(x, c, t)
    <3>1. SyncTypeOK
      BY <1>1 DEF SyncInv
    <3>2. ASSUME NEW x \in Stamped, x.tenant = t PROVE FALSE
      <4>1. PICK d \in Containers : x = change[d] /\ x # Nothing
        BY <3>1, SyncTypes DEF Stamped
      <4> QED BY <3>2, <4>1 DEF Underway
    <3> QED BY <3>2 DEF About
  <2>4. Awaited(c, t) = {}
    BY <2>2, <2>3 DEF Awaited
  <2>5. ~Owed(t, Containers)
    BY DEF Underway
  <2> QED BY <2>1, <2>4, <2>5 DEF Newest, Right
<1> QED BY <1>1, SyncInvariant, PTL
=============================================================================
