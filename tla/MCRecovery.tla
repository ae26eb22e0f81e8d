----------------------------- MODULE MCRecovery -----------------------------
(***************************************************************************)
(* Two lives of the bot in one run, of which the initial state chooses     *)
(* one.  In the first ("again") one text goes through two deaths, with     *)
(* heartbeats and deployments and under fairness; in the other ("failing") *)
(* a file and a command go through one, while Redis calls fail and keys    *)
(* expire.                                                                 *)
(***************************************************************************)
EXTENDS MCFeishuRecovery

VARIABLE life

Failing == INSTANCE FeishuRecovery WITH
    Kind <- FileAndCommand, RedisMayFail <- TRUE, TtlMayPass <- TRUE,
    MaxDeaths <- 1, BeatAllowed <- FALSE, FirstStage <- "done"

LifeInit ==
    \/ life = "again" /\ RecInit
    \/ life = "failing" /\ Failing!RecInit

\* the second message is never sent to the bot that dies twice
LifeNext ==
    /\ UNCHANGED life
    /\ \/ life = "again" /\ RecNext /\ m2 \notin seen'
       \/ life = "failing" /\ Failing!RecNext

\* RecFairness for the one message and user of the life it is about: in the
\* other no process dies twice, which is all that the liveness property speaks of.
Fairly(A) == life = "again" /\ A

LifeFairness ==
    /\ WF_pipeVars(Fairly(Ack(m1)))
    /\ WF_pipeVars(Fairly(\E t \in disp : t.id = m1 /\ DispatchStep(t)))
    /\ WF_pipeVars(Fairly(Flush(u1)))
    /\ WF_pipeVars(Fairly(InjectDeliver(u1) \/ InjectGiveUp(u1)))
    /\ WF_pipeVars(Fairly(FetchDone(u1)))
    /\ WF_pipeVars(Fairly(Activate(u1) \/ LookupFail(u1)))
    /\ WF_pipeVars(Fairly(EndSession(u1)))
    /\ WF_pipeVars(Fairly(Release(u1)))
    /\ WF_allVars(Fairly(RecStep))
    /\ WF_allVars(Fairly(Stop))
    /\ WF_allVars(Fairly(Start))

LifeSpec == LifeInit /\ [][LifeNext]_<<allVars, life>> /\ LifeFairness
=============================================================================
