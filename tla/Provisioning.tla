---------------------------- MODULE Provisioning ----------------------------
(***************************************************************************)
(* Requests for a bot of one's own and their review                        *)
(* (app/services/provision_approval.py), with the deploy quota of the user *)
(* who asks (app/services/deploy_quota.py).  The dashboard and the         *)
(* administrator's agent run in several containers; a container does one   *)
(* review at a time, but its calls of Redis are interleaved with those of  *)
(* the others, and provisioning in between takes long.  Every request is   *)
(* for a tenant of its own and made by the same user.                      *)
(***************************************************************************)
EXTENDS Naturals, FiniteSets

CONSTANTS Requests,
          Reviewers,
          Free,       \* deploy_free_quota; not 0, which means no limit
          MaxProvisionMishaps  \* bound: failed commands and provisionings, deaths of a container

ASSUME ProvisioningConstants ==
  /\ IsFiniteSet(Requests) /\ Free \in Nat
  /\ MaxProvisionMishaps \in Nat

VARIABLES
  status,    \* of the request in Redis; "none": not made yet
  creds,     \* requests whose credentials are in Redis
  quota,     \* [total, used, deploys], the user's hash
  review,    \* the review a container is at: [at, of, has, seen]
  made,      \* the instances of each container's registry
  live,      \* tenants whose configuration has been published
  provisionMishaps,
  contested, \* history: requests under two reviews at once
  broken     \* history: requests with a review that a death or a failed write cut off

requestVars == <<status, creds, quota>>
provisionVars == <<requestVars, review, made, live, provisionMishaps, contested, broken>>

Quotas == [total: Nat, used: Nat, deploys: SUBSET Requests]
\* of a user without a hash, or whose hash could not be read
NewUser == [total |-> Free, used |-> 0, deploys |-> {}]
NoReview == [at |-> "idle"]
Reviews ==
  {NoReview} \cup
  [at: {"creds", "provision", "count", "publish", "save", "reject"}, of: Requests] \cup
  [at: {"pay"}, of: Requests, seen: Quotas]

ProvisionTypeOK ==
  /\ status \in [Requests -> {"none", "pending", "approved", "rejected"}]
  /\ creds \subseteq Requests /\ live \subseteq Requests
  /\ quota \in Quotas
  /\ review \in [Reviewers -> Reviews]
  /\ made \in [Reviewers -> SUBSET Requests]
  /\ provisionMishaps \in 0 .. MaxProvisionMishaps
  /\ contested \subseteq Requests /\ broken \subseteq Requests

ProvisionInit ==
  /\ status = [r \in Requests |-> "none"] /\ creds = {}
  /\ quota = NewUser
  /\ review = [c \in Reviewers |-> NoReview]
  /\ made = [c \in Reviewers |-> {}] /\ live = {}
  /\ provisionMishaps = 0 /\ contested = {} /\ broken = {}

Mishap == provisionMishaps < MaxProvisionMishaps /\ provisionMishaps' = provisionMishaps + 1
UnderReview == {review[c].of : c \in {d \in Reviewers : review[d].at # "idle"}}

-----------------------------------------------------------------------------
(* The user                                                                *)

\* _request_provision: the quota is looked at now and never again; if that fails,
\* the user counts as a new one
CreateRequest(r) ==
  /\ status[r] = "none"
  /\ (quota.used < quota.total /\ UNCHANGED provisionMishaps) \/ (Free > 0 /\ Mishap)
  /\ status' = [status EXCEPT ![r] = "pending"]
  /\ creds' = creds \cup {r}
  /\ UNCHANGED <<quota, review, made, live, contested, broken>>

\* after 7 days
CredsExpire(r) ==
  /\ r \in creds /\ creds' = creds \ {r}
  /\ UNCHANGED <<status, quota, review, made, live, provisionMishaps, contested, broken>>

-----------------------------------------------------------------------------
(* Reviews: each step is a call of Redis, or the provisioning              *)

ReviewGoes(c, to) == review' = [review EXCEPT ![c] = [at |-> to, of |-> review[c].of]]
ReviewEnds(c) == review' = [review EXCEPT ![c] = NoReview]

\* Mutant of Reviewable: a request that has been decided may be reviewed again.
ReviewableAlways(r) == status[r] # "none"

Reviewable(r) == status[r] = "pending"

\* the first call of approve_request and of reject_request reads the request
Open(c, r, first) ==
  /\ review[c].at = "idle" /\ Reviewable(r)
  /\ review' = [review EXCEPT ![c] = [at |-> first, of |-> r]]
  /\ contested' = IF r \in UnderReview THEN contested \cup {r} ELSE contested
  /\ UNCHANGED <<requestVars, made, live, provisionMishaps, broken>>

\* without credentials nothing is provisioned, and the tenant published all the same
LoadCreds(c) ==
  /\ review[c].at = "creds"
  /\ ReviewGoes(c, IF review[c].of \in creds THEN "provision" ELSE "publish")
  /\ UNCHANGED <<requestVars, made, live, provisionMishaps, contested, broken>>

\* provision: refused if this container knows the instance; may fail otherwise
Provision(c) ==
  LET r == review[c].of IN
  /\ review[c].at = "provision"
  /\ \/ r \notin made[c] /\ made' = [made EXCEPT ![c] = @ \cup {r}] /\ ReviewGoes(c, "count") /\ UNCHANGED provisionMishaps
     \/ r \in made[c] /\ ReviewGoes(c, "publish") /\ UNCHANGED <<made, provisionMishaps>>
     \/ r \notin made[c] /\ Mishap /\ ReviewGoes(c, "publish") /\ UNCHANGED made
  /\ UNCHANGED <<requestVars, live, contested, broken>>

\* consume_deploy_quota reads the hash, and writes it back with one more; if the
\* read fails, that is all the hash then says
Count(c) ==
  /\ review[c].at = "count"
  /\ \E seen \in {quota, NewUser} :
       /\ review' = [review EXCEPT ![c] = [at |-> "pay", of |-> @.of, seen |-> seen]]
       /\ (seen = quota /\ UNCHANGED provisionMishaps) \/ (seen = NewUser /\ Mishap)
  /\ UNCHANGED <<requestVars, made, live, contested, broken>>

Pay(c) ==
  LET old == review[c].seen IN
  /\ review[c].at = "pay"
  /\ \/ quota' = [total |-> old.total, used |-> old.used + 1, deploys |-> old.deploys \cup {review[c].of}]
        /\ UNCHANGED provisionMishaps
     \/ Mishap /\ UNCHANGED quota
  /\ ReviewGoes(c, "publish")
  /\ UNCHANGED <<status, creds, made, live, contested, broken>>

\* publish_tenant_update, whose failure is only logged
Publish(c) ==
  /\ review[c].at = "publish"
  /\ \/ live' = live \cup {review[c].of} /\ UNCHANGED provisionMishaps
     \/ Mishap /\ UNCHANGED live
  /\ ReviewGoes(c, "save")
  /\ UNCHANGED <<requestVars, made, contested, broken>>

\* the request as it was read, with its new status, and no credentials any more
SaveReview(c) ==
  LET r == review[c].of IN
  /\ review[c].at \in {"save", "reject"}
  /\ status' = [status EXCEPT ![r] = IF review[c].at = "save" THEN "approved" ELSE "rejected"]
  /\ creds' = creds \ {r}
  /\ ReviewEnds(c)
  /\ UNCHANGED <<quota, made, live, provisionMishaps, contested, broken>>

\* the exception is dropped, and the request looks as if nobody had reviewed it
SaveFails(c) ==
  /\ review[c].at \in {"save", "reject"} /\ Mishap
  /\ broken' = broken \cup {review[c].of}
  /\ ReviewEnds(c)
  /\ UNCHANGED <<requestVars, made, live, contested>>

\* the instances are in a file, the review is not
Die(c) ==
  /\ review[c].at # "idle" /\ Mishap
  /\ broken' = broken \cup {review[c].of}
  /\ ReviewEnds(c)
  /\ UNCHANGED <<requestVars, made, live, contested>>

-----------------------------------------------------------------------------
(* The administrator                                                       *)

SetUserQuota ==
  /\ quota' = [quota EXCEPT !.total = Free + 1]
  /\ UNCHANGED <<status, creds, review, made, live, provisionMishaps, contested, broken>>

ResetUserQuota ==
  /\ quota' = [quota EXCEPT !.used = 0, !.deploys = {}]
  /\ UNCHANGED <<status, creds, review, made, live, provisionMishaps, contested, broken>>

-----------------------------------------------------------------------------
ProvisionNext ==
  \/ \E r \in Requests : CreateRequest(r) \/ CredsExpire(r)
  \/ \E c \in Reviewers, r \in Requests : Open(c, r, "creds") \/ Open(c, r, "reject")
  \/ \E c \in Reviewers :
       LoadCreds(c) \/ Provision(c) \/ Count(c) \/ Pay(c) \/ Publish(c) \/ SaveReview(c) \/ SaveFails(c) \/ Die(c)
  \/ SetUserQuota \/ ResetUserQuota

ProvisionSpec == ProvisionInit /\ [][ProvisionNext]_provisionVars

-----------------------------------------------------------------------------
(* Properties                                                              *)

Made(r) == \E c \in Reviewers : r \in made[c]

\* The status of a request that nobody is reviewing tells what became of it:
\* only an approved one has an instance or a published tenant, and a reviewed
\* one has left no credentials behind - unless two reviews of it overlapped, or
\* one was cut off (provision_approval.py:229-336).
OutcomeMatches ==
  \A r \in Requests \ (UnderReview \cup contested \cup broken) :
    /\ Made(r) \/ r \in live => status[r] = "approved"
    /\ r \in creds => status[r] = "pending"

\* The quota is charged for instances that exist and for nothing else, a failed
\* or rejected request included (deploy_quota.py:124-146, base_agent.py:2150).
ChargedForInstances ==
  /\ \A r \in quota.deploys : Made(r)
  /\ Cardinality(quota.deploys) <= quota.used

ReviewsSound == OutcomeMatches /\ ChargedForInstances
=============================================================================
