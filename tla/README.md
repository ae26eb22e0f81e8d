# A TLA+ verification of 4d-bot

4d-bot is a multi-tenant assistant bot: Python processes (FastAPI, one asyncio
event loop each) receive chat messages through webhooks, feed them to LLM agent
loops that call tools, and answer. Redis (over Upstash's HTTP API) is the only
persistent store. This directory models the parts that keep promises across
concurrency, crashes and time, checks the models with TLC and proves theorems about
them with TLAPS. Paths are relative to `app/`; `:n` is a line.

## 1. The system

| part | code | state | what makes it correct | module |
|---|---|---|---|---|
| Feishu message pipeline | `webhook/handler.py`, `base.py` | dedup cache, batches and timers, mailboxes, in-flight records; the inbox hash in Redis | a message is taken once and ends in one place; nothing rests unattended | `FeishuPipeline`, `MessageLedger` |
| Shutdown and recovery | `main.py`, `tools/self_ops.py` | in Redis: inbox, in-flight set, pending batch, pending resume | what was saved is worked off, once; interrupted users are told | `FeishuRecovery` |
| Per-user locks | `webhook/base.py` | lock table with last-used stamps | serial and in order per user | `UserLocks` |
| Agent loops | `services/gemini_provider.py`, `kimi_coder.py` | the conversation of one call, its mailbox, retries and nudges | mail is answered, the loop ends | `AgentLoop`, `KimiLoop` |
| Reminders | `tools/reminder_ops.py`, `services/scheduler.py` | a sorted set per user, an index of users, the loop's snapshot and sleep | a confirmed reminder stays, fires once, in time; a cancelled one is gone | `Reminders` |
| Plans | `services/planner.py`, `scheduler.py`, `memory_store.py`, `tools/memory_ops.py` | plans, index and schedule as JSON values behind a cache of shared objects | steps in order, once, and the plan goes on | `PlanScheduler` |
| WeCom customer service | `webhook/wecom_kf_handler.py` | feed cursor, dedup set, batch, session | no message handled twice, or skipped unaccounted for | `WecomKf` |
| Task watchdog | `services/task_watchdog.py` | records of unfinished tasks | one retry | `TaskWatchdog` |
| Trial accounts | `services/trial.py` | a hash per user | the administrator's decision stands | `TrialAccounts` |
| Requests for a bot | `services/provision_approval.py`, `deploy_quota.py`, `tools/customer_ops.py` | requests, credentials, quota | status, instance and charge agree | `Provisioning` |
| Tenants | `services/tenant_sync.py` | registry per container; queue and configurations in Redis | containers converge | `TenantSync` |
| OAuth tokens | `services/oauth_store.py` | tokens in memory and in Redis | a single-use refresh token is spent once; Redis has the current one | `OAuthTokens` |
| Long-term memory | `services/memory.py`, `memory_store.py` | journal and index | nothing noted is lost unaccounted for; the index finds the newest | `MemoryJournal` |
| Conversation history | `services/history.py`, `router/intent.py` | list in memory, key with a life, the platform's copy | the last rounds are given to the agent; what was cleared stays away | `ChatHistory` |
| Xiaohongshu sessions | `tools/xhs_ops.py` | a browser and cookies per user | no browser lost; a logout holds | `XhsSessions` |
| Self-repair | `services/auto_fix.py`, `error_log.py` | debounced task, lock, cooldown, hourly count | repairs neither overlap nor follow closely | `AutoFix` |
| Instances | `services/provisioner.py` | registry file, homes of the bots, containers, nginx files, routes of co-hosted tenants | a port has one owner; a route leads to the instance that serves its tenant | `Instances` |
| the rest | Redis client, router, WeCom and QQ webhooks, harness, runtimes, most tools, admin | | | with reasons in `PROJECT.json` and section 6 |

**How the parts meet.** The webhook answers 200 and leaves a task behind; the task
batches or injects the message; a batch becomes a call of `_process_and_reply`,
which takes the user's lock, opens a session (`activate`) and runs the router
and an agent loop, which reads the session's mailbox between rounds. On SIGTERM
`_shutdown` saves what is in memory; the next process reads it back in
`_recover_missed_messages` while new webhooks already arrive. Reminder and plan
loops, watchdog, dream and self-repair are tasks on the same event loop that
start agent calls of their own. Several containers may share one Redis.

What is hard is interleaving at awaits, restarts between two Redis commands, a
Redis client that answers None instead of raising, values read before an await and
written after it, and time (TTLs, cooldowns, sleeps that nothing interrupts).
`PROJECT.json` lists the hazards at their lines with the properties about them.

## 2. The modules

One action stands for the code between two awaits, or between two Redis commands
where another container or a death can come between. Texts, names and model
verdicts are choices; how often and in which order the code acts on them is not.
Variables marked "history" exist for the properties only.

**FeishuPipeline.** A message's kind stands for how `_dispatch_message` treats
it: `text` is enqueued at once, `media` after a download; a text `file` is
processed without batching; a `command` is answered in the dispatch. `Webhook`
is `_handle_event_inner`, repeatable until `Ack`; `DispatchEnqueue/File/Reply` are
the ends of a dispatch task with its `finally`; `Flush` is `_flush_after_wait`,
which leaves later media to an `inject` task. A call fetches group history
(`FetchDone`), waits in `lockq`, opens its session (`Activate`), reads its mailbox
(`Drain`), asks the governor (`ExitCheck`, `Nudge`), closes the session
(`EndSession`, also the 600 s timeout) and replies (`Release`). It implements
**MessageLedger** (accepted once, then settled or dropped once) under the mapping
`Ledger`.

**FeishuRecovery** adds the saved sets, the stages of recovery and the life of the
process: `Stop` and `Kill` empty all memory, `Start` begins the recovery, each loop
of which handles one message per step next to the running pipeline. Recovery stops after
the saved batch, since the chat scan fails on a missing attribute (`main.py:1140`).

**UserLocks** shows what `FeishuPipeline` assumes of `lockq`: a release unlocks the
object and only schedules the first waiter; `OthersCleanup` may run in between.

**AgentLoop** is the inside of a call: delegation to a sub-agent and its hand-back
(`Sub*`, `HandBack`), the rounds with the two models, their retries and the circuit
breaker (`Timeout`, `ServerError`, `FallBack`), each exit with its nudge counter
(`TextAlone`, `Review`, `Empty`, `Safety`, `Strays`), the mailbox drained before an
exit or after the tools (`TextAndMail`, `DrainInbox`), and the tool calls (`Run`,
with the exception of `gemini_provider.py:2775`). **KimiLoop** is the same call on the older
provider, which the router takes for tenants with a coding model or another provider
(`router/intent.py:269`): it reads the mailbox after a text and after the tools, and ends in the exception of section 4.

**Reminders** keeps in `cmds` the Redis commands the running synchronous code still
has to issue; what follows one depends on its answer. A command can fail
with or without effect and the process can die between any two. Tools start while the
loop is suspended; the loop reads a snapshot of due members and fires them one by one.

**PlanScheduler** has two copies of plans, index and schedule: `mem`, what the
process sees through the cache that hands out its own objects, and `redis`; they
differ after a failed write until `CacheExpires`. The tools create, activate,
edit, cancel and schedule; the loop begins a pass for the tenant of its context
(`Begin`), takes up an entry (`Run`), reports, unschedules and makes the next entry
(`RunEnds`, `ScheduleNext`); `IdlePasses` are the other passes, which leave another
tenant behind; after a crash `RecoverPlan` is `recover_stale_steps`.

**WecomKf** walks one feed with several pulls: `Sync` a page from the cursor,
`Mark` and `Dispatch` each message, `Fetched` after the awaits in between (a download, an answer to
the customer), `PageDone` saves the cursor. `Mark` keeps the dedup set with its halving. Batch, timer, lock and
session are those of the Feishu pipeline without stores; `KfCrash` takes all of them and what was being
downloaded, which the history `missed` keeps if the cursor is past it.

**TrialAccounts** reads the hash in `Read`, or in `BlindRead`, a failed HGETALL that is taken for a new user,
and writes in `Answer` (`Unwritten` if the write fails), possibly much later; `Approve`, `Block`, `Reset` are the dashboard.
**Provisioning**: a review reads the status (`Open`), loads the credentials, provisions, counts and pays the quota in
separate commands, publishes and saves; `Mishap` is what may fail or die, and `Count` may read nothing.
**TenantSync** sends the commands of `publish_tenant_update` one by one, two containers at once: `LookUp` is the GET of
an update, `AddOrRemove` and `Update` the SET or DEL (`Put`, done, failed or not sent), `Stamp` the time of the announcement,
`Push` or `PushFails` RPUSH and LTRIM; the others `Poll` by the stamp of the last one seen; a restart may leave tenants out
in `Load`, before it begins to `Listen`. **OAuthTokens**: `Get` looks the token object up, `Enter` waits for the lock, `Send`, `Store`
or `Refused`; each save is three steps, the change of memory, the `Snapshot` as JSON and the SET (`Write`), and `Authorise`, `Clear`
and `OthersSave` make theirs on the event loop without the lock; the GET of a restart may fail.
**TaskWatchdog**: `Scan`, then per record `Skip`, `Exhausted` or `Retry`, `RetryEnds`.

**MemoryJournal**: `Diary` and `Note` push and index; `CompressRead`, `CompressBatch` and
`CompressWrite` read the journal, wait for the model and write it anew. The dream, which reads the journal too,
writes nothing: with a signal in it the prompt raises (section 4), without one there is nothing to write. **ChatHistory**: `Hear` puts a message into the platform's
memory, `BeginTurn` is the router up to the agent (clear, get with its lazy load and refill,
add), `EndTurn` adds the reply, `SendReply` shows it to the platform; turns overlap as in a group.
**XhsSessions**: a tool call looks for the browser (`Look`), opens one (`Launch`,
`LoadCookies`, `Insert`), checks, logs in, logs out or closes (`CloseSession`,
`SaveOnClose`); its commands (`Stores`, `LoggedOut`) may fail, which no tool looks at. **AutoFix**: `RecordError` and `Arm`, the debounced task (`Awaken`, `Classified`,
`FixRound`, `FixTold`), `FixRestart` and the check at startup. **Instances**: provisioning and co-hosting
(port, home, container, nginx file, route, registry), removal, `Stop`, `RestartInstance`, `Destroy`, containers that exit
(`BoxExits`), and the two listings that register what they find, `Discover` (`docker ps -a`) and `DiscoverTenants` (no docker), with
port 0, here `PortUnknown`, for what does not run; each operation broken where a step can fail or the process can die.

`MC*` modules give the instances. **MCServices** EXTENDS the modules of eleven components that share no
state: the initial state chooses a `focus`, whose Next moves while the variables of the
others stay, so the states add up instead of multiplying. EXTENDS (and not INSTANCE)
keeps every action and assumption a definition of the run. **MCWaiting** does the same with `UserLocks`,
`PlanScheduler` and `AutoFix`, **MCReminders** with `Reminders` and `OAuthTokens`; **MCRecovery** chooses between a
recovery whose Redis fails (`Failing`) and one that has two deaths; **MCWecomKf** has one image on the page.

## 3. The runs

| run | instance | shows | states |
|---|---|---|---|
| `pipeline_safe` | 1 sender, 4 messages: a file, a text in a group, two media | types; nothing unattended; one fate per message; the records a restart goes by (`RecordsHold`); mailboxes not overwritten; refinement of `MessageLedger` | 1.73 M |
| `pipeline_live` | 2 senders, 4 messages, inbox TTL may pass | `AckedIsSettled` | 90 k |
| `pipeline_exit` | 1 sender | violated: `ExitLosesNothing` | |
| `recovery` | a file and a command with one death, a deploy and a failing Redis; 1 text with 2 deaths, heartbeat and deploy | in-flight records, `OnlyDeathLoses`, `TellsOnlyUnrecovered`; `PersistedIsRecovered` of the second | 630 k |
| `recovery_resume` | 1 text, a deploy, one shutdown | violated: `ResumesUnfinished` | |
| `recovery_inflight` | 1 text, one shutdown | violated: `InterruptedIsTold` | |
| `waiting` | 8 calls of a user, locks expire after 5 units; 2 plans of 2 steps, 2 edits, 1 fault, 1 crash (one of the two when the user edits twice); self-repair: cooldown 3, debounce 1, 3 errors, 2 rounds, 6 ticks, 1 restart | `ServedInTurn`, `WaitersAreServed`; `DependenciesFirst`, `DoneOnce`, `ChainGoesOn`, `AppointmentsAreKept`; `FixesApart` | 477 k |
| `reminders` | 2 reminders of a user, 2 times of trigger, longest sleep 2, one edit, one crash or failed command; 2 threads and the event loop with 3 tokens (2 once a fault was met, or when others have tokens), 1 fault, 1 crash | `ChainKept`, `AtMostOnce`, `CancelHolds`, `LateUnderASleep`, `DueIsTaken`; `TokensSound` | 1.01 M |
| `services` | the eleven of `MCServices` | the table below | 1.29 M |
| `agent_effects` | one call of the agent | violated: `EffectsAreTold` | |
| `kf_restart` | 1 image, 2 pulls, 1 crash | violated: `RestartSkipsHandled` | |
| `webhooks` | 2 bots | violated: `BehindNginx` | |

| focus of `services` | bounds | property |
|---|---|---|
| kf | 3 messages on one page, 2 pulls, dedup set of 2; and 2 messages on 2 pages with a crash | `HandledOnce`, `NothingSkipped` |
| trial | 2 checks, any read or write may fail, trial 1, approval 1, hash life 2, 3 ticks | `DecisionHolds` |
| provision | 2 requests, 2 reviewers, quota 1, 1 mishap | `ReviewsSound` |
| sync | 2 containers, queue of 1; 2 changes of 2 tenants with 1 crash, and 3 changes of one tenant without | `InStep` |
| watchdog | 2 tasks, 2 loops, 1 fault, 1 crash | `RetriedOnce` |
| loop | 1 message, 6 rounds, 3 sub-rounds, 1 retry, breaker 2 | `LoopSound` |
| kimi | 2 messages, 3 rounds | types only (section 5) |
| instances | 3 bots, two of one company, 2 ports; and 2 bots with 1 mishap or death | `InstancesSound` |
| memory | 2 compressions, 6 entries, threshold 4, 3 kept, batch 2, ceiling 6 cut to 3, index of 3, 1 fault, 1 crash | `MemorySound` |
| xhs | 2 calls at once, 3 in all, 3 browsers, 2 scans, 1 fault | `LogoutHolds`, `NoBrowserLost` |
| chat | 2 turns, 1 round kept, life 1, 3 messages, 2 ticks, 1 crash, 1 failing step | `HistoryKept` |

**The bounds.** Three messages of one sender fill a batch, a session and a
waiting call at once; a second sender shares only the inbox. Counters of how often a
message is fed stop at 2, "twice or more". Two actors are the least that
interleave and every race of section 4 needs no more; one death reaches every point between two
commands, two the recovery of a recovery; limits are small enough to be hit
(dedup set, ceiling of the journal, queue, quota, cooldown, length of the history).
The idle limit of a lock is shorter than a queue of calls, so that a second lock object comes into being; the longest
sleep is 2 units, so that a trigger can be slept through.
Larger instances passed alone: `AgentLoop` with the code's own limits, 2 messages and 12
rounds (28.0 M states); `ChatHistory` with 4 messages, life 1 (512 k);
`PlanScheduler` with all of its bounds at once (651 k).
Every bound is a CONSTANT, described where it is declared.

`CHECK_DEADLOCK FALSE` is in every configuration because the bot is a server: when
everything has been delivered and worked off, or a bound is reached, nothing is left to do.
That nothing is left over then is what the liveness properties check.

**Fairness.** Weak fairness on what the event loop has ready: dispatch tasks,
timers, woken waiters, recovery, loops; on the end of a download, lookup, session or
execution, because each runs under a timeout (600 s around a session, 300 s per
attempt of a reminder's action, client timeouts on HTTP); on `Start` and
`Restart`, because the container is restarted. In `PlanScheduler` also strong fairness
of each plan's pass (`PassFor`): the context of the loop moves between tenants, and a
plan is seen when it is its tenant's turn; the code gives no more than that the
turn comes again. None on arrivals, users, deaths, faults, expiry or deploys; deaths and faults are
bounded, so liveness speaks of the time after the last one. Where a run joins several parts, its
fairness is about the one that moves. `services` has safety only.

## 4. What the runs and the modelling found

Six runs end in a violation of what the repository says of itself:

- `gemini_provider.py:2371`: the exit check sees an empty mailbox, then awaits the
  governor; what arrives meanwhile goes with the mailbox, against the comment at :2264.
- `main.py:900`: a deploy record names every call in flight; those answered
  before the process ends are done again after it (`self_ops.py:639`).
- `main.py:792`: the heartbeat of the new, idle process deletes the set that recovery is
  about to read (`main.py:1379`).
- `gemini_provider.py:2775`: the result of every tool of the main loop is recorded with
  `effective_chat_id`, a name defined nowhere: the tool has taken effect, the call dies.
- `wecom_kf_handler.py:424`: a pull that takes an image for a duplicate of one that another pull is still downloading
  saves the cursor behind it; if the process dies now, the restart goes on after a message nobody has dealt with,
  against :366-369 (it "skips messages already handled") and :423.
- `provisioner.py:276`: the nginx file of every instance repeats `location /webhook/channel/`, and
  `templates/nginx-site.conf:21` includes all of them in one server; from the second instance on the
  reload fails, against the reverse proxy that `provisioner.py:25` promises.

Several properties hold with an exception the formula names, because the code has it.
Without the exception TLC finds the case within seconds:

- *Reminders*: one cancelled or edited while a pass holds its old member fires and is put back
  (`scheduler.py:534`); so does one whose pass died between saving the next occurrence and removing the
  old (`scheduler.py:548`), when the first read of the new process fails and it is cancelled before the
  loop has seen it again: two members have its id and the tool removes one. The proof found that case,
  which takes two mishaps where the run has one; such a read counts as a failed command about the
  reminder (`Doubled`). A failed ZCARD reads as zero and drops the user from the index
  (`reminder_ops.py:67`); a reminder set during a sleep fires up to half an hour late.
- *Plans*: a timeout after the reported completion reopens the step; failed writes live on in
  the cache and are then forgotten; a death between `remove_schedule` and
  `_auto_schedule_next` strands the plan unless a step is in progress under the default tenant.
- *WeCom*: the dedup set is halved by the order of a set (`base.py:236`), not FIFO as its docstring says; the cursor
  may be past what was being downloaded at a death (`missed`, the finding above).
- *Trials*: a check that read the hash before a decision overwrites it; so does one whose HGETALL failed: None is taken for
  a new user, who is registered over the administrator's decision (`trial.py:66-71`); `_touch` after a reset
  recreates the hash without `first_seen`, a trial that never ends.
- *Provisioning*: two reviews can both find the request pending; a quota charge can be lost.
- *Tenants*: a container is left behind by SETs, stamps and pushes of two containers in opposite orders (`tenant_sync.py:154-201`),
  a SET or DEL that failed while its announcement goes out, an update that read nothing or what another was changing,
  a failed RPUSH, the trim, the gap between load and listen, and a SCAN or GET that leaves tenants out of the load (:226-233).
- *OAuth*: authorisations and removals save without the lock beside a refresh, so an older snapshot can be written last
  (`oauth_store.py:107-123`, :375-377); the clearing of a tenant's last token is never written; such a write, a failed one, a
  lost answer or a failed GET at startup brings a spent refresh token back after a restart.
- *Watchdog*: containers that all read before the count was written retry the same task.
- *Memory*: a compression drops what was pushed during its awaits (`overwritten`), and a summary compressed again has no
  text (`blurred`): `memory.py:1671` promises that nothing is lost.
- *History*: a clear empties memory and key and drops the mark of having been read, so the
  `get` eight lines further (`intent.py:188`, :196) refills the history with the platform's copy: the
  "clean state" of `clear`'s docstring lasts only until the same turn reads. `HistoryKept` therefore
  speaks of the router's own messages.
- *Xiaohongshu*: two overlapping calls open two browsers of which one is never closed; a sweep can
  save cookies after a logout; a DEL that fails leaves the cookies in Redis, and the tool says all the same that they are
  cleared (`xhs_ops.py:322`, :3267).
- *Instances*: destroying an instance deletes the route of its first tenant only (`provisioner.py:1474`), so those of
  co-hosted tenants name a port that the next instance gets; a docker timeout leaves a container that is in
  no registry and whose port is given away; `registry.json` is written in place;
  the listing registers containers that do not run, and without docker all local tenants, with port 0 (`provisioner.py:653-705`): such
  instances are not told apart by their port, and whoever moves in with one gets a route that leads nowhere.
- *Self-repair*: a restart, which a repair itself causes, forgets cooldown and count.
- *Locks*: the lock of a user can idle out of the table in the instant of a hand-off (`base.py:361`), and the next caller gets a
  second one: calls of one user then run side by side, against the docstring of the handler (`handler.py:1355`). `ServedInTurn` therefore speaks
  of each lock object. It takes an hour of back-to-back calls; the instance of `waiting` reaches it (8 calls, idle limit 5).

In the state space, though no property asks: `kimi_coder.py:296` cleans every text answer with `channel_platform`, a name that only
`_final_call` assigns, so in `KimiLoop` every answer of the model with a text (`KimiText`) ends the call with an exception, where
`kimi_coder.py:4` promises the text.

Met while reading and not in a model: the prompt of a dream is `str.format` of a template with unescaped JSON
braces (`dream.py:293`), so every dream that finds a signal raises KeyError, which `scheduler.py:394` swallows; the counter,
which is reset after that and, "防止反复触发", where there is no signal (:447), stays, so it tries again at every pass; the refill of the history restores nothing after an
expiry, since all it brings is older than `get` keeps, and does not run at all while the process
lives, and repeats the message of the current turn, which the platform already has; the inbox
entry goes when the batch has the text (`handler.py:717`) though :392-399 promises it
until the end; mail handed back by the sub-agent is put where the model no longer reads it
(`gemini_provider.py:1840`); `cron_agent.py:164` wants a dict of HGETALL, which is a flat list, so no cron
agent ever runs; undefined names at `gemini_provider.py:1341`, `main.py:931`,
`xhs_ops.py:1940`; `_send_text_to_user` is called without await (`xhs_ops.py:795`); the
administrator's repair (`auto_fix.py:801`) takes no lock although :1161 says that one repair runs at a
time; `self_safe_deploy` records its rollback point after the push;
`identity_ops.py` asks for a code of 6 characters where `identity.py` makes 8, so no
verification can be confirmed; `_remove_co_tenant` unregisters the tenant before it looks it up
(`customer_ops.py:705`), so its route is never deleted.

## 5. The proofs

| module | about | theorems | inductive invariant |
|---|---|---|---|
| `FeishuPipelineProofs` | pipeline | `TypeCorrect`, `SessionsOwnLocks`, `BatchesHaveTimers`, `AllIsAttended`, `MailboxesAreKept` | `TypeOK /\ SessionOwnsLock`, and `TimerIffPending` relative to it |
| | | `MessagesHaveOnePlace`, `MessagesHaveOneFate`, `PipelineIsALedger` | `FateInv`: a message is in one of five places, and in one position of it, or has ended |
| | | `CallsAreRecorded`, `RecordsAreKept` | `Records`: a user's calls and the in-flight records are the same set, without repetition |
| `FeishuRecoveryProofs` | restarts | `RecoveryInvariant`, `RecoveryTypes`, `RecordsAreOfCalls`, `OnlyUnrecoveredAreTold`, `OnlyDeathsLose` | `RecInv`: the pipeline's types and locks in every process; what is being told was not recovered |
| `WaitingProofs` | locks | `LocksTyped`, `LocksServeInTurn` | `EachLock`: `Typed` (an object is left for each call to come), `ArrivedInTurn`, `Queues` (the calls at an object), `ServedInTurn` |
| | self-repair | `FixInvariant`, `RepairsStayApart` | `FixInv`: one task armed or at work, the times that debounce, lock and cooldown keep apart, and what `MayFix` has seen still holds |
| | all three | `WaitingTyped` | `Typed`, `PlansInv`, `FixInv` |
| `RemindersProofs` | reminders | `RemindersInvariant`, `RemindersTyped`, `RemindersKeepTheirChain`, `RemindersRunOnce`, `CancellationsHold`, `SleepIsShort` | `RemindersInv`: `Base` (`Chained`, `Fresh`, `WakesInTime`) and `Where` (what each pending Redis command may rely on) |
| `PlanSchedulerProofs` | plans | `PlansInvariant`, `PlansTyped`, `DependenciesComeFirst`, `StepsAreDoneOnce`, `ChainsGoOn` | `PlansInv`: of each plan whether its copies agree (`Sound`), its appointments wait for nothing (`Ordered`), somebody attends to it (`Going`) |
| `MemoryJournalProofs` | memory | `MemoryInvariant`, `MemoryIsSound` | `MemoryInv`: what the journal and each copy of it tell of (`Complete`); without a fault, how near to the end (`InOrder`) |
| | chat history | `HistoryInvariant`, `HistoryIsKept` | `HistoryInv`: memory and key each end in the last of what was said (`Tracks`), and the key lives as long as what it tells (`KeyTracks`) |
| `AccessProofs` | requests | `ProvisioningInvariant`, `ReviewsAreSound` | who may be where while another reviews the same request; what a count has seen |
| | tokens | `OAuthInvariant`, `TokensAreSound` | `OAuthInv`: distinct tokens in distinct objects (`Distinct`, `Fresh`); one thread under the lock (`Alone`); where a spent one may still be (`SpentObjects`); what the saves under way will leave in Redis (`Writes`) |
| | instances | `InstancesInvariant`, `InstancesAreSound` | `InstancesInv`: what is registered next has a free port and a home of its own; a route agrees with the home or is being written |
| | synchronisation | `SyncInvariant`, `ContainersAreInStep` | `SyncInv`: stamps in order (`Stamps`, `OneByOne`); the newest change a container has still to learn tells what Redis has, and is the last to be polled (`Informed`) |
| `ServicesProofs` | trials | `TrialInvariant`, `DecisionsHold` | what a fresh check has read of a decided user |
| | watchdog | `WatchdogInvariant`, `TasksRetriedOnce` | a task whose retry began has none left in Redis, nor in a later reader's list |
| | Xiaohongshu | `XhsInvariant`, `LogoutsHold`, `BrowsersAreKept` | which call holds which browser, and which cookies are older than a logout |
| | WeCom | `KfInvariant`, `KfHandledOnce`, `KfCursorBehind`, `KfAttended`, `KfNothingSkipped` | `KfInv`: types, `Attended`, everything behind the cursor dealt with, in some pull's hands or `missed` (`Behind`), one owner per message |
| | agent loop | `LoopTypeCorrect`, `LoopAnswersMail`, `LoopIsBounded`, `LoopIsSound` | rounds and counters per exit; what was drained is in the prompt or seen |

Each holds for every value of the constants that satisfies the module's ASSUME, which gives the constants
their types and little more. One has a hypothesis of its own: `RecordsAreKept`, that Redis works and the 600 s do not
pass, without which a record cannot be kept.

The arguments have one shape: the
property alone is not inductive, because a value read before an await is used after it; the
strengthening says what such a value can still be. So `DecisionHolds` needs that a check which
is not stale has read the decision; `ReviewsSound` needs `OneReview` and `Undecided`, where a second
reviewer may stand; `RefreshOnce` needs that the object a thread holds under the lock
has the newest token or none that counts, and `SavedIsCurrent` that of the snapshots under way the newest is of the
token the process has now, while an older one has a newer behind it (`OldHasNew`) or has been counted as left behind; `RetriedOnce` needs that the count stands in Redis
and in every list read since; `HandledOnce` needs that whoever is past `Mark` owns the
message unless its id was pruned; `MailIsAnswered` needs that a drain leads to a round.

`ExactlyOneFate` counts over sets, the state is made of sequences: a batch with the same message
twice would look like one. So `FateInv` speaks of positions: at most one position of one queue has
a message, and the lemmas on `Append`, `Tail` and `RemoveAt` say what a step does to positions.
The refinement of `MessageLedger` uses the same invariant: each step is shown to accept one new
message, to settle or to drop some that wait, or to change nothing of the ledger; an interrupted lookup
drops, the end of a session drops what the mailbox still has. `OnlyDeathLoses` follows the same places
(`WaitsWith`) through recovery, which only adds to the dispatch (`Adds`).

`ChainKept`, `AtMostOnce` and `CancelHolds` depend on Redis commands that are still to come: a saved
occurrence and the one it replaces exist at once, and the process can die between the two. `Where`
names for each command list what is already true and what the rest will make true; `Chained`
bounds the members of a reminder (one, or one and its next), `Ordered` says that the pass holds the
earlier of two, which a death cannot upset because the next pass reads it first (`DoubledIsIndexed`),
and `Fresh` that every execution so far was of an earlier time than the members left.

`DependenciesFirst`, `DoneOnce` and `ChainGoesOn` each hold of a plan until a write about it fails or a
step of it is set back, while a step of the scheduler about another plan rewrites the whole index and
the whole schedule. So `PlansInv` speaks of one plan at a time, and `Frame` shows once
that what is written about another leaves it alone, which is all an action needs of the plans
it is not at. The order of dependencies rests on `IsFirst`: the loop appoints the first open step,
and what is over stays over (`Keeps`). `Going` lists who may still make the appointment: the loop
at `told`, the recovery for a step in progress that its list of visits has yet (`EachVisited`: as many visits as
entries, none twice, so none is missed).

`MemorySound` is about one list in Redis, but a compression writes it on the strength of an older one. So `MemoryInv` speaks
of the journal and of every copy that waits for the model: the copy tells of every entry but those that came since, were blurred
or cut (`Complete`). That the index finds the latest entries is a statement about distances from the end: an entry near the end of the
journal or of a copy is as near to the end of what was noted, give or take the entries that were overwritten or came since (`Follows`), and so is a line
of the index (`Newest`). The attempt showed on what this rests: `_INDEX_MAX` (500) must not exceed what a compression
keeps (`_KEEP_RECENT`, 500) nor what the ceiling leaves (1500). The code has these three in two files and no test compares
them; both are in `MemoryConstants`, as the code has them.

`InstancesSound` is about operations of several writes (port, home, container, route, registry), each of which can be
the last, while a listing may register what it finds at any time between two operations. `InstancesInv` says what the next write will
rely on: what is going to be registered lives alone on a port nobody has (`Founded`), so a
broken operation leaves a ghost and no second owner (`GhostsKnown`, `Owner`); who is not loose has one home at most
(`OneHome`), and its route leads there, or the operation under way has its port in hand (`Routed`, `OnItsWay`).

`HistoryKept` compares what a turn is given with all that was said, and memory and key are only ends of that: cut to
the last rounds, swept of what is too old, or filled from the platform's copy. So `HistoryInv` says of both
that their last `k` messages are the last `k` said, and that what was said before is stale or beyond the rounds
(`Tracks`). Appending and trimming keep this with `k + 1` or the whole list (`AddedTracks`), a sweep takes stale messages only
(`SweptTracks`), time makes more of them. A key that has ended had everything said by then in it, and each message with
a life no longer than the key's (`KeyTracks`): so a refill, which has none of the router's messages, misses nothing.
A key behind a failed save is exempt until a save succeeds; memory has what it misses, and a restart before that sets `amiss`.
The sweep was written with `SelectSeq`, a RECURSIVE operator; it is now the recursive function that goes through
the list as `_cleanup` does, and `UnexpiredIs` shows what it returns by the same least counterexample as below.

`InStep` speaks of a container when nothing is left to poll, so `SyncInv` says what it will have then: of the
changes it awaits, queued or stamped, the newest tells what Redis has (`Newest`), unless somebody has written and not
stamped yet, who will tell it (`Right`, `Owed`); nothing newer is queued before it (`InTurn`), so that the poll, which goes by
the stamp of the last message, comes to it, and none of its own comes after another's it has to apply (`OwnFirst`).
The poll is a recursive function over a queue of any length; without an induction theorem, what is claimed of its values is
shown from a least counterexample (`WFMin`). The history `behind` had to be exact for this: a change announced after a newer one is
skipped by whoever polled in between, and with three containers the queue can have dropped the newer one by then; so the
announcement of the newer one marks it (`Overtaken`).

`ServedInTurn` is about each lock object by itself: a call that asks for the lock comes behind all that
hold or await the same object (`ArrivedInTurn`), a release schedules the first of them and nobody else goes past
(`Queues`), also when the object has left the table.
`RepairsStayApart` rests on `MayFix`: what the debounced task saw of cooldown and count when it was armed still holds when it
begins, since no other repair can begin before it.

Each invariant has one step per action, and the shared helpers are lemmas. TLC checked the invariants on
larger or other instances than the runs before they were proved: `PlansInv` with two plans in one tenant
(197 k states), in two tenants with every status a user can set (1.24 M) and with a plan of 3 steps (290 k); `HistoryInv`
with 2 turns, 1 round and lives of 1 and 2 (137 k, 3.40 M) and with 1 turn, 2 rounds and 6 messages (2.46 M).

Only model-checked: all liveness (with fairness and ENABLED beyond the proof system); `MCServices.TypesOK` and
`MCReminders.TypesOK`, which put the types of their parts side by side: each but that of `KimiLoop` is a conjunct of
an invariant of the table, for every value of the constants; and `KimiLoop`, of which only the types are checked, since its question
is one the code answers with an exception.

## 6. Not modelled

Inside the modelled parts: the content of messages, mention detection, user modes, media
conversion, metrics and logs; several tenants, except in `PlanScheduler` and `TenantSync`;
several processes in `Reminders`; calendar arithmetic; in `AutoFix` the administrator's
trigger and the rollback at startup; of `self_ops` only the restart record; of the provisioner the
texts of the generated files, `update_instance_config`, the shared `tenants.json`, the upgrade of running instances and
the dashboard that edits tenants' homes; of memory the journal of distillations and the dream. In `FeishuPipeline` the webhook's
drop of stale messages (`handler.py:352-364`), which answers 200 before anything has been recorded, and the expiry of
dedup entries. In `WecomKf` an image without `media_id` (`wecom_kf_handler.py:607`), which is answered in place. In `TenantSync` the fields
of a configuration (a number here: what an announcement tells counts as the whole), an RPUSH that the client's retry applies
twice (the second is skipped by its stamp), the overlays of `tenants.json`, and that the load reads one tenant after another. In `OAuthTokens`
the file used without Redis and the migration of old keys; an exception of `_tokens.items()` while another thread changes it
counts as a failed write.

Whole parts, with the reasons in `PROJECT.json`: API clients and tools that only wrap them,
text classifiers and prompts (data without shared state), dashboards, deployment scripts;
the cron agent, of which nothing executes; the WeCom and QQ webhooks, which follow the session protocol of `FeishuPipeline`;
the Redis client. Its contract, that a command succeeds or answers None, with or without effect, and never raises, is built
into the modules that use Redis, with these exceptions: the heartbeat's SET and DEL in `FeishuRecovery` and the reads of
`PlanScheduler.Views` (`memory_store.py:75-77`, where None is taken for an empty list) always succeed; and a command that the
retry of the client applies twice is modelled where that changes something (`MemoryJournal`).

## 7. Plan

Next: `RedisClient` (two circuit breakers and retries that can apply a write twice);
`tools/browser_ops.py`, whose pool has the same table-and-awaits shape as `XhsSessions`;
`identity.py` and the linking of accounts; the
SMS mailbox of `wecom_kf_handler.py`; a second process in `Reminders`; the administrator's trigger in `AutoFix`.

To prove next: what the components added above promise; of the present ones the rest is beyond the provers (section 5).
