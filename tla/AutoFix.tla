------------------------------ MODULE AutoFix ------------------------------
(***************************************************************************)
(* The repair of the bot's own code (app/services/auto_fix.py), started by *)
(* the errors of app/services/error_log.py.  An error arms a debounced     *)
(* task, a later one cancels it and arms another; the task takes a lock,   *)
(* chooses what to repair, perhaps asks a model whether that is a bug at   *)
(* all, and runs an agent that edits the repository, whereupon CI deploys  *)
(* and restarts the process.  All on one event loop: an action is what     *)
(* happens between two awaits.                                             *)
(***************************************************************************)
EXTENDS Naturals

CONSTANTS Debounce, Cooldown, AskCooldown, Window,  \* 10 s, 600 s, 300 s, 3600 s
          MaxFixes,     \* _MAX_FIXES_PER_HOUR
          MaxFixRounds, \* _MAX_FIX_ROUNDS
          Horizon,      \* bound: time
          MaxErrors,    \* bound: errors recorded
          MaxFixDeaths  \* bound: restarts

ASSUME FixConstants ==
  /\ Debounce \in Nat \ {0} /\ Cooldown \in Nat \ {0} /\ AskCooldown \in Nat /\ Window \in Nat
  /\ MaxFixes \in Nat /\ MaxFixRounds \in Nat \ {0}
  /\ Horizon \in Nat /\ MaxErrors \in Nat /\ MaxFixDeaths \in Nat

VARIABLES
  fixClock,
  recent,   \* what the last ten errors hold: "code" to repair, "triage" to ask about
  fixer,    \* the task of _debounce_handle: [at, wake or round]
  lastFix, fixes, resetAt, lastAsk,  \* globals of the process; 0: never
  boot,     \* how far the health check of the start is
  errors, fixDeaths,
  lastStart, \* history: when this process last began a repair
  hasty,     \* history: a repair began within the cooldown of another
  cutOff     \* history: an error has cancelled a task that had the lock

fixVars == <<fixClock, recent, fixer, lastFix, fixes, resetAt, lastAsk, boot, errors, fixDeaths,
             lastStart, hasty, cutOff>>
fixHistory == <<lastStart, hasty, cutOff>>

\* the clock starts long after the epoch, so that 0 is out of every cooldown
Epoch == Cooldown + AskCooldown + 1
Clock == Epoch .. Epoch + Horizon
NoFixer == [at |-> "none"]
Fixers ==
  {NoFixer} \cup [at: {"asleep"}, wake: Nat] \cup [at: {"asking", "last", "telling"}]
            \cup [at: {"fixing"}, round: 0 .. MaxFixRounds - 1]

FixTypeOK ==
  /\ fixClock \in Clock /\ recent \subseteq {"code", "triage"}
  /\ fixer \in Fixers
  /\ lastFix \in Clock \cup {0} /\ lastAsk \in Clock \cup {0} /\ resetAt \in Nat /\ fixes \in 0 .. MaxFixes
  /\ boot \in {"check", "trigger", "over"}
  /\ errors \in 0 .. MaxErrors /\ fixDeaths \in 0 .. MaxFixDeaths
  /\ lastStart \in Clock \cup {0} /\ hasty \in BOOLEAN /\ cutOff \in BOOLEAN

FixInit ==
  /\ fixClock = Epoch /\ recent = {} /\ fixer = NoFixer
  /\ lastFix = 0 /\ fixes = 0 /\ resetAt = 0 /\ lastAsk = 0
  /\ boot = "check" /\ errors = 0 /\ fixDeaths = 0
  /\ lastStart = 0 /\ hasty = FALSE /\ cutOff = FALSE

FixTick ==
  /\ fixClock < Epoch + Horizon /\ fixClock' = fixClock + 1
  /\ UNCHANGED <<recent, fixer, lastFix, fixes, resetAt, lastAsk, boot, errors, fixDeaths, fixHistory>>

-----------------------------------------------------------------------------
(* An error                                                                *)

\* Mutant of Repairing: an error does not look whether a repair is under way.
RepairingNever == FALSE

Repairing == fixer.at \in {"asking", "fixing", "last", "telling"}

\* maybe_trigger_fix past the tests of the error's kind and tenant.  The window
\* of the hour is renewed here and nowhere else.
Arm ==
  LET anew == fixClock > resetAt
      count == IF anew THEN 0 ELSE fixes
      goes == count < MaxFixes /\ fixClock - lastFix >= Cooldown
  IN IF Repairing THEN UNCHANGED <<fixer, fixes, resetAt, cutOff>>
     ELSE /\ fixes' = count
          /\ resetAt' = IF anew THEN fixClock + Window ELSE resetAt
          /\ fixer' = IF goes THEN [at |-> "asleep", wake |-> fixClock + Debounce] ELSE fixer
          /\ cutOff' = (cutOff \/ (goes /\ fixer.at \in {"asking", "fixing", "last", "telling"}))

\* record_error: the ring is ten long for whoever looks, so any older error may
\* be out of sight; the callback arms a repair unless the kind of the error
\* ("other": transient, for a person, or of a repair) or its tenant forbids it
Noted(kind, allowed) ==
  /\ errors < MaxErrors /\ errors' = errors + 1
  /\ recent' \in {kept \cup ({kind} \ {"other"}) : kept \in SUBSET recent}
  /\ IF kind # "other" /\ allowed THEN Arm ELSE UNCHANGED <<fixer, fixes, resetAt, cutOff>>
  /\ UNCHANGED <<fixClock, lastFix, lastAsk, fixDeaths, lastStart, hasty>>

RecordError(kind, allowed) == Noted(kind, allowed) /\ UNCHANGED boot

-----------------------------------------------------------------------------
(* The debounced task                                                      *)

FixGoes(to) == fixer' = [at |-> to]

\* _last_fix_time and _hourly_fix_count are set when a repair begins
StartFix ==
  /\ lastFix' = fixClock /\ fixes' = fixes + 1
  /\ fixer' = [at |-> "fixing", round |-> 0]
  /\ lastStart' = fixClock
  /\ hasty' = (hasty \/ (lastStart # 0 /\ fixClock - lastStart < Cooldown))

\* The sleep is over.  An error to repair goes before those to ask about, old as
\* it may be; the question has a cooldown of its own, and is dropped within it.
Awaken ==
  /\ fixer.at = "asleep" /\ fixClock >= fixer.wake
  /\ \/ "code" \in recent /\ StartFix /\ UNCHANGED lastAsk
     \/ /\ recent = {"triage"} /\ fixClock - lastAsk >= AskCooldown
        /\ lastAsk' = fixClock /\ FixGoes("asking") /\ UNCHANGED <<lastFix, fixes, lastStart, hasty>>
     \/ /\ recent = {} \/ (recent = {"triage"} /\ fixClock - lastAsk < AskCooldown)
        /\ fixer' = NoFixer /\ UNCHANGED <<lastFix, fixes, lastAsk, lastStart, hasty>>
  /\ UNCHANGED <<fixClock, recent, resetAt, boot, errors, fixDeaths, cutOff>>

\* a failed classification is a no
Classified ==
  /\ fixer.at = "asking"
  /\ \/ StartFix
     \/ fixer' = NoFixer /\ UNCHANGED <<lastFix, fixes, lastStart, hasty>>
  /\ UNCHANGED <<fixClock, recent, resetAt, lastAsk, boot, errors, fixDeaths, cutOff>>

\* A round of the agent: it ends with an answer or a failure, or calls tools,
\* which may push to main, or clear the errors; a call repeated too often, and
\* with the OpenAI client the last round, brings one more answer without tools.
FixRound ==
  /\ fixer.at = "fixing"
  /\ \/ FixGoes("telling") /\ UNCHANGED recent
     \/ /\ recent' \in {recent, {}}
        /\ \/ FixGoes("last")
           \/ IF fixer.round + 1 = MaxFixRounds THEN FixGoes("telling")
              ELSE fixer' = [fixer EXCEPT !.round = @ + 1]
  /\ UNCHANGED <<fixClock, lastFix, fixes, resetAt, lastAsk, boot, errors, fixDeaths, fixHistory>>

LastAnswer ==
  /\ fixer.at = "last" /\ FixGoes("telling")
  /\ UNCHANGED <<fixClock, recent, lastFix, fixes, resetAt, lastAsk, boot, errors, fixDeaths, fixHistory>>

\* _notify_admins, and the lock is free
FixTold ==
  /\ fixer.at = "telling" /\ fixer' = NoFixer
  /\ UNCHANGED <<fixClock, recent, lastFix, fixes, resetAt, lastAsk, boot, errors, fixDeaths, fixHistory>>

-----------------------------------------------------------------------------
(* Restarts                                                                *)

\* A deployment, or a crash: every global starts anew, the cooldown with them.
FixRestart ==
  /\ fixDeaths < MaxFixDeaths /\ fixDeaths' = fixDeaths + 1
  /\ recent' = {} /\ fixer' = NoFixer
  /\ lastFix' = 0 /\ fixes' = 0 /\ resetAt' = 0 /\ lastAsk' = 0 /\ lastStart' = 0
  /\ boot' = "check"
  /\ UNCHANGED <<fixClock, errors, hasty, cutOff>>

\* startup_health_check: nothing to do; or errors in the logs of the deployment,
\* recorded, and after 5 s a trigger whatever their kind, if the tenant allows it
BootChecked ==
  /\ boot = "check"
  /\ \/ boot' = "over"
        /\ UNCHANGED <<fixClock, recent, fixer, lastFix, fixes, resetAt, lastAsk, errors, fixDeaths, fixHistory>>
     \/ boot' = "trigger" /\ \E kind \in {"code", "other"}, allowed \in BOOLEAN : Noted(kind, allowed)

BootTriggers ==
  /\ boot = "trigger" /\ boot' = "over"
  /\ Arm \/ UNCHANGED <<fixer, fixes, resetAt, cutOff>>
  /\ UNCHANGED <<fixClock, recent, lastFix, lastAsk, errors, fixDeaths, lastStart, hasty>>

-----------------------------------------------------------------------------
FixNext ==
  \/ FixTick
  \/ \E kind \in {"code", "triage", "other"}, allowed \in BOOLEAN : RecordError(kind, allowed)
  \/ Awaken \/ Classified \/ FixRound \/ LastAnswer \/ FixTold
  \/ FixRestart \/ BootChecked \/ BootTriggers

FixSpec == FixInit /\ [][FixNext]_fixVars

-----------------------------------------------------------------------------
(* Properties                                                              *)

\* The errors that pour in while the bot repairs itself neither cut the repair
\* off nor start another within the cooldown, however the debounced tasks, the
\* classification and the checks at their two ends interleave; a restart, which
\* forgets the last repair, excepted (auto_fix.py:1058-1248).
FixesApart == ~cutOff /\ ~hasty
=============================================================================
