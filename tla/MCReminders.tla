---------------------------- MODULE MCReminders -----------------------------
(***************************************************************************)
(* What runs beside the calls of the users: the loop that fires their      *)
(* reminders, and the thread that refreshes their Feishu tokens.  They     *)
(* share no state, and the initial state chooses the one that moves.       *)
(***************************************************************************)
EXTENDS Reminders, OAuthTokens

CONSTANTS u1, r1, r2

VARIABLE focus

\* Both reminders are of one user, whose index entry they share.
OneOwner == [r \in Rem |-> u1]

\* a user whose tenant has no other user with a token, and one with others
WithOthers == INSTANCE OAuthTokens WITH Others <- TRUE

backgroundVars == <<focus, reminderVars, oauthVars>>

BackgroundInit ==
  /\ focus \in {"reminders", "oauth", "oauth others"}
  /\ OAuthInit
  /\ RemindersInit /\ (focus # "reminders" => wake = 1)

\* a token less where a fault is met, or all tokens of a tenant are written
BackgroundNext ==
  /\ UNCHANGED focus
  /\ IF focus = "reminders" THEN RemindersNext ELSE UNCHANGED reminderVars
  /\ \/ focus = "oauth" /\ OAuthNext
     \/ focus = "oauth others" /\ WithOthers!OAuthNext
     \/ focus = "reminders" /\ UNCHANGED oauthVars
  /\ (focus # "oauth others" /\ oauthFaults' = 0) \/ issued' < MaxTokens

\* RemindersFairness, as long as the reminders move
BackgroundFairness ==
  /\ WF_reminderVars(focus = "reminders" /\ (Loop \/ Issue))
  /\ WF_reminderVars(focus = "reminders" /\ Restart)
  /\ WF_reminderVars(focus = "reminders" /\ ClockTicks)

BackgroundSpec == BackgroundInit /\ [][BackgroundNext]_backgroundVars /\ BackgroundFairness

\* Every variable of the component that moves has its type.
TypesOK == RemindersTypeOK /\ OAuthTypeOK
=============================================================================
