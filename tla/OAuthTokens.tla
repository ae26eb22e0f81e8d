----------------------------- MODULE OAuthTokens -----------------------------
(***************************************************************************)
(* The Feishu user token of one user (app/services/oauth_store.py).  The   *)
(* access token is refreshed with a refresh token that Feishu takes once   *)
(* and answers with the next one; the background thread and the threads of *)
(* the tools do so under a lock, each with the token object it looked up   *)
(* before it waited for the lock.  Tokens are kept in memory and written   *)
(* to Redis, all those of a tenant as one value: memory changes, a snapshot*)
(* is taken, and the SET sends it.  Authorisations and removals do so on   *)
(* the event loop, with no lock, beside a refresh.                         *)
(***************************************************************************)
EXTENDS Naturals, FiniteSets

CONSTANTS Threads,   \* those that may want the token at once
          EventLoop, \* where tokens are authorised and removed
          Others,    \* whether another user of the tenant has a token
          MaxTokens, \* bound: the refresh tokens Feishu issues
          MaxOAuthFaults, \* bound: lost answers, failed writes
          MaxOAuthCrashes \* bound: deaths of the process

ASSUME OAuthConstants ==
  /\ MaxTokens \in Nat /\ MaxOAuthFaults \in Nat /\ MaxOAuthCrashes \in Nat /\ Others \in BOOLEAN
  /\ EventLoop \notin Threads

VARIABLES
  token,    \* _tokens[open_id]: a token object, 0 if there is none
  objects,  \* the objects by name: the refresh token and whether the access
            \* token is still good
  thread,   \* [at, obj, rt]: where a thread is, its object, the new refresh token
  lock,     \* whether _refresh_lock is held
  writing,  \* [at, rt]: what who is saving has got to, and its snapshot.  "new" is
            \* the newest snapshot taken, "old" has a newer one still to be
            \* written, "late" has been overtaken by it
  saved,    \* the refresh token in Redis, 0 if there is none
  issued,   \* Feishu: refresh tokens issued so far
  valid,    \* Feishu: those it still accepts
  dead,     \* _dead_tokens
  oauthFaults, oauthCrashes,
  spent,    \* history: refresh tokens Feishu has exchanged
  resent,   \* history: those that were sent once more
  lost,     \* history: those whose successor was lost before it was stored, or
            \* that Redis was left with when the process had another token, or none
  outdated  \* history: whether it was left so by the last write: that failed, that of
            \* an older snapshot, or none, as the tenant's last token was removed

oauthVars == <<token, objects, thread, lock, writing, saved, issued, valid, dead,
          oauthFaults, oauthCrashes, spent, resent, lost, outdated>>

Ids == 1 .. MaxTokens
Savers == Threads \cup {EventLoop}
Idle == [at |-> "idle", obj |-> 0, rt |-> 0]
NoWrite == [at |-> "no", rt |-> 0]

OAuthTypeOK ==
  /\ token \in 0 .. MaxTokens
  /\ objects \in [Ids -> [rt: 0 .. MaxTokens, good: BOOLEAN]]
  /\ thread \in [Threads -> [at: {"idle", "wait", "send", "store", "refused", "save"},
                             obj: 0 .. MaxTokens, rt: 0 .. MaxTokens]]
  /\ writing \in [Savers -> [at: {"no", "ask", "new", "old", "late"}, rt: 0 .. MaxTokens]]
  /\ lock \in BOOLEAN /\ dead \in BOOLEAN /\ outdated \in BOOLEAN
  /\ saved \in 0 .. MaxTokens /\ issued \in 0 .. MaxTokens
  /\ valid \subseteq Ids
  /\ oauthFaults \in 0 .. MaxOAuthFaults /\ oauthCrashes \in 0 .. MaxOAuthCrashes
  /\ \A h \in {spent, resent, lost} : h \subseteq Ids

OAuthInit ==
  /\ token = 0
  /\ objects = [i \in Ids |-> [rt |-> 0, good |-> FALSE]]
  /\ thread = [h \in Threads |-> Idle]
  /\ writing = [k \in Savers |-> NoWrite]
  /\ lock = FALSE /\ saved = 0 /\ issued = 0 /\ valid = {} /\ dead = FALSE /\ outdated = FALSE
  /\ oauthFaults = 0 /\ oauthCrashes = 0
  /\ spent = {} /\ resent = {} /\ lost = {}

OAuthFault == oauthFaults < MaxOAuthFaults /\ oauthFaults' = oauthFaults + 1
At(h, at) == thread[h].at = at
ThreadGoes(h, at) == thread' = [thread EXCEPT ![h].at = at]
RefreshEnds(h) == thread' = [thread EXCEPT ![h] = Idle]

\* the refresh token in memory
Current == IF token = 0 THEN 0 ELSE objects[token].rt

Saves(k) == writing' = [writing EXCEPT ![k] = [at |-> "ask", rt |-> 0]]

-----------------------------------------------------------------------------
(* _save_tokens                                                            *)

\* the tokens are read out of memory; whoever did so before is behind now
Snapshot(k) ==
  /\ writing[k].at = "ask"
  /\ writing' = [j \in Savers |->
       IF j = k THEN [at |-> "new", rt |-> Current]
       ELSE IF writing[j].at \in {"new", "late"} THEN [writing[j] EXCEPT !.at = "old"] ELSE writing[j]]
  /\ UNCHANGED <<token, objects, thread, lock, saved, issued, valid, dead, oauthFaults, oauthCrashes, spent, resent, lost, outdated>>

\* the SET, which may fail.  The tokens are grouped by tenant: the value of a tenant
\* whose last token is gone is not written.  A thread then leaves the lock.
Write(k) ==
  LET w == writing[k] IN
  /\ w.at \in {"new", "old", "late"}
  /\ \/ saved' = (IF w.rt # 0 \/ Others THEN w.rt ELSE saved) /\ UNCHANGED oauthFaults
     \/ OAuthFault /\ UNCHANGED saved
  /\ outdated' = CASE w.at = "new" -> saved' # w.rt
                    [] w.at = "old" -> outdated
                    [] w.at = "late" -> outdated \/ saved' # saved
  /\ lost' = IF outdated' /\ w.at # "old" THEN lost \cup ({saved'} \ {0}) ELSE lost
  /\ writing' = [j \in Savers |->
       IF j = k THEN NoWrite
       ELSE IF w.at = "new" /\ writing[j].at = "old" THEN [writing[j] EXCEPT !.at = "late"] ELSE writing[j]]
  /\ IF k \in Threads THEN RefreshEnds(k) /\ lock' = FALSE ELSE UNCHANGED <<thread, lock>>
  /\ UNCHANGED <<token, objects, issued, valid, dead, oauthCrashes, spent, resent>>

-----------------------------------------------------------------------------
(* The user and Feishu                                                     *)

\* exchange_code: a new object, named after its refresh token; Feishu may
\* withdraw the earlier ones
Authorise ==
  LET n == issued + 1 IN
  /\ writing[EventLoop].at = "no"
  /\ issued < MaxTokens /\ issued' = n
  /\ \E kept \in {{}, valid} : valid' = kept \cup {n}
  /\ objects' = [objects EXCEPT ![n] = [rt |-> n, good |-> TRUE]]
  /\ token' = n /\ dead' = FALSE
  /\ Saves(EventLoop)
  /\ UNCHANGED <<thread, lock, saved, oauthFaults, oauthCrashes, spent, resent, lost, outdated>>

\* clear_user_token
Clear ==
  /\ writing[EventLoop].at = "no"
  /\ token # 0 /\ token' = 0
  /\ Saves(EventLoop)
  /\ UNCHANGED <<objects, thread, lock, saved, issued, valid, dead, oauthFaults, oauthCrashes, spent, resent, lost, outdated>>

\* another user is authorised or removed, or has a token refreshed: all are written
OthersSave ==
  /\ Others
  /\ \/ writing[EventLoop].at = "no" /\ Saves(EventLoop) /\ UNCHANGED <<thread, lock>>
     \/ \E h \in Threads : /\ At(h, "idle") /\ ~lock /\ lock' = TRUE
                           /\ ThreadGoes(h, "save") /\ Saves(h)
  /\ UNCHANGED <<token, objects, saved, issued, valid, dead, oauthFaults, oauthCrashes, spent, resent, lost, outdated>>

AccessExpires ==
  /\ token # 0 /\ objects[token].good
  /\ objects' = [objects EXCEPT ![token].good = FALSE]
  /\ UNCHANGED <<token, thread, lock, writing, saved, issued, valid, dead, oauthFaults, oauthCrashes, spent, resent, lost, outdated>>

Revoke ==
  /\ valid # {} /\ valid' = {}
  /\ UNCHANGED <<token, objects, thread, lock, writing, saved, issued, dead, oauthFaults, oauthCrashes, spent, resent, lost, outdated>>

-----------------------------------------------------------------------------
(* get_user_token_sync                                                     *)

Get(h) ==
  /\ At(h, "idle") /\ token # 0 /\ ~objects[token].good
  /\ thread' = [thread EXCEPT ![h] = [at |-> "wait", obj |-> token, rt |-> 0]]
  /\ UNCHANGED <<token, objects, lock, writing, saved, issued, valid, dead, oauthFaults, oauthCrashes, spent, resent, lost, outdated>>

\* Mutant of MayEnter: no lock.
MayEnterAlways == TRUE

MayEnter == ~lock

\* the lock, and the second look at the object
Enter(h) ==
  /\ At(h, "wait") /\ MayEnter
  /\ \/ objects[thread[h].obj].good /\ RefreshEnds(h) /\ UNCHANGED lock
     \/ ~objects[thread[h].obj].good /\ ThreadGoes(h, "send") /\ lock' = TRUE
  /\ UNCHANGED <<token, objects, writing, saved, issued, valid, dead, oauthFaults, oauthCrashes, spent, resent, lost, outdated>>

\* the request reaches Feishu and the answer comes back, or either is lost
Send(h) ==
  LET rt == objects[thread[h].obj].rt IN
  /\ At(h, "send")
  /\ resent' = IF rt \in spent THEN resent \cup {rt} ELSE resent
  /\ \/ /\ rt \in valid /\ issued < MaxTokens
        /\ issued' = issued + 1
        /\ valid' = (valid \ {rt}) \cup {issued + 1}
        /\ spent' = spent \cup {rt}
        /\ \/ thread' = [thread EXCEPT ![h].at = "store", ![h].rt = issued + 1]
              /\ UNCHANGED <<lock, oauthFaults, lost>>
           \/ OAuthFault /\ lost' = lost \cup {rt} /\ RefreshEnds(h) /\ lock' = FALSE
     \/ /\ rt \notin valid /\ ThreadGoes(h, "refused")
        /\ UNCHANGED <<lock, issued, valid, spent, oauthFaults, lost>>
     \/ /\ OAuthFault /\ RefreshEnds(h) /\ lock' = FALSE
        /\ UNCHANGED <<issued, valid, spent, lost>>
  /\ UNCHANGED <<token, objects, writing, saved, dead, oauthCrashes, outdated>>

\* the object the thread has looked up is changed
Store(h) ==
  /\ At(h, "store")
  /\ objects' = [objects EXCEPT ![thread[h].obj] = [rt |-> thread[h].rt, good |-> TRUE]]
  /\ thread' = [thread EXCEPT ![h] = [Idle EXCEPT !.at = "save"]] /\ Saves(h)
  /\ UNCHANGED <<token, lock, saved, issued, valid, dead, oauthFaults, oauthCrashes, spent, resent, lost, outdated>>

\* the token in _tokens is dropped, whichever it is by now; an error that does
\* not look like a revocation changes nothing
Refused(h) ==
  /\ At(h, "refused")
  /\ \/ /\ token' = 0 /\ dead' = TRUE
        /\ thread' = [thread EXCEPT ![h] = [Idle EXCEPT !.at = "save"]] /\ Saves(h)
        /\ UNCHANGED lock
     \/ RefreshEnds(h) /\ lock' = FALSE /\ UNCHANGED <<token, dead, writing>>
  /\ UNCHANGED <<objects, saved, issued, valid, oauthFaults, oauthCrashes, spent, resent, lost, outdated>>

-----------------------------------------------------------------------------
\* whether what Redis has is to be replaced by a snapshot that is not older
Coming == \E k \in Savers : writing[k].at \in {"ask", "new"}

\* a death, and init_tokens: one object for what was saved, none if the GET fails
OAuthRestart ==
  /\ oauthCrashes < MaxOAuthCrashes /\ oauthCrashes' = oauthCrashes + 1
  /\ thread' = [h \in Threads |-> Idle] /\ lock' = FALSE /\ dead' = FALSE
  /\ writing' = [k \in Savers |-> NoWrite]
  /\ lost' = lost \cup {objects[thread[h].obj].rt : h \in {x \in Threads : At(x, "store")}}
                 \cup (IF Coming /\ saved # Current THEN {saved} \ {0} ELSE {})
  /\ \/ token' = saved /\ UNCHANGED oauthFaults
     \/ OAuthFault /\ token' = 0
  /\ outdated' = (token' # saved)
  /\ \E good \in BOOLEAN :
       objects' = [i \in Ids |-> IF i = token' THEN [rt |-> i, good |-> good]
                                 ELSE [rt |-> 0, good |-> FALSE]]
  /\ UNCHANGED <<saved, issued, valid, spent, resent>>

OAuthNext ==
  \/ Authorise \/ Clear \/ OthersSave \/ AccessExpires \/ Revoke \/ OAuthRestart
  \/ \E k \in Savers : Snapshot(k) \/ Write(k)
  \/ \E h \in Threads : Get(h) \/ Enter(h) \/ Send(h) \/ Store(h) \/ Refused(h)

OAuthSpec == OAuthInit /\ [][OAuthNext]_oauthVars

-----------------------------------------------------------------------------
(* Properties                                                              *)

\* No refresh token is sent to Feishu again after it has been exchanged, however
\* the threads, the writes, new authorisations and restarts interleave, unless the
\* answer with its successor was lost, or the process died before that was stored
\* and written, or Redis was left with it: by a failed write, by the write of an
\* older snapshot after a newer one, or when a tenant's last user was removed
\* (oauth_store.py:435-449, 107-126).
RefreshOnce == resent \subseteq lost

\* When nobody is saving, Redis holds the refresh token of the process's own token
\* object, so a restart continues the chain: no refresh, refusal, authorisation or
\* removal has left it behind, save for a last write that failed, that was of an
\* older snapshot, or that left out a tenant without tokens, and for a process
\* that could not read it when it started (oauth_store.py:107-126, 172-189).
SavedIsCurrent ==
  (\A k \in Savers : writing[k].at = "no") /\ ~outdated => saved = Current

TokensSound == RefreshOnce /\ SavedIsCurrent
=============================================================================
