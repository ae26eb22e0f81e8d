----------------------------- MODULE MCServices -----------------------------
(***************************************************************************)
(* Eleven components that share no state with one another, checked in      *)
(* one run: the initial state chooses the one that moves, so the states    *)
(* are those of the eleven added up, not multiplied.                       *)
(***************************************************************************)
EXTENDS WecomKf, TrialAccounts, Provisioning, TenantSync, TaskWatchdog,
        AgentLoop, MemoryJournal, XhsSessions, ChatHistory, KimiLoop, Instances, TLC

VARIABLE focus

\* three messages on one page, more than the dedup set holds; and two on two pages,
\* with a death of the container
OnePage == <<"image", "text", "image">>
KfPaged == INSTANCE WecomKf WITH Kind <- <<"image", "text">>, PageSize <- 1, MaxKfCrashes <- 1

\* two changes of two tenants, with a death; and three of one
Thrice == INSTANCE TenantSync WITH MaxChanges <- 3, MaxSyncCrashes <- 0
OneTenant ==
  \A d \in Containers : draft[d] # Nothing =>
    \A t \in Tenants \ {draft[d].tenant} : cfg[t] = 0 /\ \A c \in Containers : reg[c][t] = 0

\* three bots, two of them of one corp; and two of different corps, with a mishap
Failing == INSTANCE Instances WITH OneCorp <- {}, MaxInstanceMishaps <- 1

Init ==
  /\ focus \in {"kf", "kf paged", "trial", "provision", "sync", "sync thrice", "watchdog", "loop",
               "memory", "xhs", "chat", "kimi",
               "instances", "instances fail"}
  /\ KfInit /\ TrialInit /\ ProvisionInit /\ SyncInit /\ WatchdogInit
  /\ MemoryInit /\ XhsInit /\ ChatInit /\ KimiInit /\ InstancesInit
  /\ IF focus = "loop" THEN LoopInit ELSE LoopInit /\ pc = "round" /\ ~escalated

Next ==
  /\ UNCHANGED focus
  /\ \/ focus = "kf" /\ KfNext
     \/ focus = "kf paged" /\ KfPaged!KfNext
     \/ focus \notin {"kf", "kf paged"} /\ UNCHANGED kfVars
  /\ IF focus = "trial" THEN TrialNext ELSE UNCHANGED trialVars
  /\ IF focus = "provision" THEN ProvisionNext ELSE UNCHANGED provisionVars
  /\ \/ focus = "sync" /\ SyncNext
     \/ focus = "sync thrice" /\ Thrice!SyncNext /\ OneTenant'
     \/ focus \notin {"sync", "sync thrice"} /\ UNCHANGED syncVars
  /\ IF focus = "watchdog" THEN WatchdogNext ELSE UNCHANGED watchdogVars
  /\ IF focus = "loop" THEN LoopNext ELSE UNCHANGED loopVars
  /\ IF focus = "memory" THEN MemoryNext ELSE UNCHANGED memoryVars
  /\ IF focus = "xhs" THEN XhsNext ELSE UNCHANGED xhsVars
  /\ IF focus = "chat" THEN ChatNext ELSE UNCHANGED historyVars
  /\ IF focus = "kimi" THEN KimiNext ELSE UNCHANGED kimiVars
  /\ \/ focus = "instances" /\ InstancesNext
     \/ /\ focus = "instances fail" /\ Failing!InstancesNext
        /\ UNION {homes'[x].bots \cup {y \in Bots : ports'[y] # 0} : x \in Bots} \subseteq Requests
     \/ focus \notin {"instances", "instances fail"} /\ UNCHANGED instanceVars

vars == <<focus, kfVars, trialVars, provisionVars, syncVars, watchdogVars, loopVars,
          memoryVars, xhsVars, historyVars, kimiVars, instanceVars>>
Spec == Init /\ [][Next]_vars

\* no action of any component tells one process, or one thing, from another
Alike == Permutations(Pulls) \cup Permutations(Requests)

\* Every variable of the component that moves has its type.
TypesOK ==
  /\ focus = "kf" => KfTypeOK
  /\ focus = "kf paged" => KfPaged!KfTypeOK
  /\ focus = "trial" => TrialTypeOK
  /\ focus = "provision" => ProvisionTypeOK
  /\ focus = "sync" => SyncTypeOK
  /\ focus = "sync thrice" => Thrice!SyncTypeOK
  /\ focus = "watchdog" => WatchdogTypeOK
  /\ focus = "loop" => LoopTypeOK
  /\ focus = "memory" => MemoryTypeOK
  /\ focus = "xhs" => XhsTypeOK
  /\ focus = "chat" => ChatTypeOK
  /\ focus = "kimi" => KimiTypeOK
  /\ focus = "instances" => InstancesTypeOK
  /\ focus = "instances fail" => Failing!InstancesTypeOK
=============================================================================
