------------------------------- MODULE Tenancy -------------------------------
(***************************************************************************)
(* The tenants of one store: their creation, their subscription gate, the  *)
(* review of the company profile, and the background jobs and webhooks of  *)
(* the demo tenant.  A request is made in the name of a tenant and checked *)
(* against the gate of that one (module Gate), also when it is about       *)
(* another, as the onboarding by an implementation partner is.             *)
(*                                                                         *)
(* A tenant is its place in the map of workspaces, the demo tenant the     *)
(* first: createTenant names a new one after the size of the map.  Nothing *)
(* is stored: a demo reset, like a restart, leaves the demo tenant alone.  *)
(*                                                                         *)
(* A legal identity is the profile change that wrote it, 0 when no change  *)
(* did.  Left out: plans, users, and what a profile says.                  *)
(***************************************************************************)
EXTENDS Naturals, Sequences, FiniteSetsExt, Gate

CONSTANTS MaxChanges, MaxJobs, MaxRetries  \* bounds

ASSUME TenancyAssumption ==
    /\ Tenants \subseteq Nat /\ 1 \in Tenants
    /\ {MaxChanges, MaxJobs, MaxRetries} \subseteq Nat

VARIABLES known,    \* workspaces.size
          profile,  \* per tenant: profileApprovalStatus, profileChanges, legalEntity
          jobs,     \* workspace.backgroundJobs of the demo tenant
          webhook   \* one webhook event of the demo tenant and its retry logs

tenancyVars == <<gate, known, profile, jobs, webhook>>

DemoTenant == 1
Known == {t \in Tenants : t <= known}
ChangeStatus == {"PENDING_REVIEW", "APPROVED"}
Profiles == [approved : BOOLEAN, changes : Seq(ChangeStatus), legal : Nat]
JobStatus == {"QUEUED", "DONE"}

NewProfile == [approved |-> TRUE, changes |-> <<>>, legal |-> 0]

\* A request other than a GET, outside /auth and the exports.
Asks(t, role) == t \in Known /\ HttpWriteAllowed(t, "POST", "other", role)

-----------------------------------------------------------------------------
CreateTenant(t, role) ==
    /\ Asks(t, role)
    /\ known + 1 \in Tenants
    /\ known' = known + 1
    /\ UNCHANGED <<gate, profile, jobs, webhook>>

Subscribe(t, role, g) ==
    /\ t \in Known
    /\ UpdateSubscriptionGate(t, role, g)
    /\ UNCHANGED <<known, profile, jobs, webhook>>

\* The new identity holds at once, before anybody has reviewed it.
UpdateCompanyProfile(t, role) ==
    /\ Asks(t, role) /\ CanWrite(t, role)
    /\ Len(profile[t].changes) < MaxChanges
    /\ profile' = [profile EXCEPT ![t] =
                     [approved |-> FALSE, changes |-> Append(@.changes, "PENDING_REVIEW"),
                      legal |-> Len(@.changes) + 1]]
    /\ UNCHANGED <<gate, known, jobs, webhook>>

Pending(t) == {c \in DOMAIN profile[t].changes : profile[t].changes[c] = "PENDING_REVIEW"}

\* The oldest first.
ReviewedMutant(t) == Min(Pending(t))
\* The last one that waits; the ones before it go on waiting.
Reviewed(t) == Max(Pending(t))

\* The handler does not ask assertCanWrite.
ApproveCompanyProfile(t, role) ==
    /\ Asks(t, role)
    /\ Pending(t) # {}
    /\ profile' = [profile EXCEPT ![t].approved = TRUE,
                                  ![t].changes[Reviewed(t)] = "APPROVED"]
    /\ UNCHANGED <<gate, known, jobs, webhook>>

\* By the tenant itself (POST /tenant/onboarding) or by a partner, in whose
\* name the request is checked.  No review, and the status stays.
CompleteTenantOnboarding(partner, t, role) ==
    /\ Asks(partner, role)
    /\ t \in Known
    /\ profile' = [profile EXCEPT ![t].legal = 0]
    /\ UNCHANGED <<gate, known, jobs, webhook>>

-----------------------------------------------------------------------------
EnqueueBackgroundJob(role) ==
    /\ Asks(DemoTenant, role)
    /\ Len(jobs) < MaxJobs
    /\ jobs' = Append(jobs, "QUEUED")
    /\ UNCHANGED <<gate, known, profile, webhook>>

Queued == {j \in DOMAIN jobs : jobs[j] = "QUEUED"}

\* The one that was queued last.
NextJobMutant == {j \in Queued : \A k \in Queued : k <= j}
\* The job that was queued first, if any waits.
NextJob == {j \in Queued : \A k \in Queued : j <= k}

\* RUNNING is passed through inside the handler, and an empty queue is no error.
RunNextBackgroundJob(role) ==
    /\ Asks(DemoTenant, role)
    /\ \E j \in NextJob : jobs' = [jobs EXCEPT ![j] = "DONE"]
    /\ UNCHANGED <<gate, known, profile, webhook>>

\* A retry is only scheduled: the event stays PENDING and is never sent.
RetryWebhook(role) ==
    /\ Asks(DemoTenant, role)
    /\ webhook.attempts < MaxRetries
    /\ webhook' = [attempts |-> webhook.attempts + 1,
                   logs |-> Append(webhook.logs, webhook.attempts + 1)]
    /\ UNCHANGED <<gate, known, profile, jobs>>

-----------------------------------------------------------------------------
NewStore ==
    /\ gate' = OpenGates
    /\ known' = 1
    /\ profile' = [t \in Tenants |-> NewProfile]
    /\ jobs' = <<>>
    /\ webhook' = [attempts |-> 0, logs |-> <<>>]

\* POST /tenant/demo-reset, in the name of any tenant; a restart asks nobody.
ResetDemoData(t, role) == Asks(t, role) /\ NewStore
Restart == NewStore

TenancyInit ==
    /\ gate = OpenGates
    /\ known = 1
    /\ profile = [t \in Tenants |-> NewProfile]
    /\ jobs = <<>>
    /\ webhook = [attempts |-> 0, logs |-> <<>>]

Request(t, role) ==
    \/ CreateTenant(t, role)
    \/ \E g \in Gates : Subscribe(t, role, g)
    \/ UpdateCompanyProfile(t, role)
    \/ ApproveCompanyProfile(t, role)
    \/ \E client \in Tenants : CompleteTenantOnboarding(t, client, role)
    \/ ResetDemoData(t, role)

DemoRequest(role) ==
    EnqueueBackgroundJob(role) \/ RunNextBackgroundJob(role) \/ RetryWebhook(role)

TenancyNext ==
    \/ \E t \in Tenants, role \in Roles : Request(t, role)
    \/ \E role \in Roles : DemoRequest(role)
    \/ Restart

TenancySpec == TenancyInit /\ [][TenancyNext]_tenancyVars

-----------------------------------------------------------------------------
TenancyTypeOK ==
    /\ gate \in [Tenants -> Gates]
    /\ known \in Tenants
    /\ profile \in [Tenants -> Profiles]
    /\ jobs \in Seq(JobStatus)
    /\ webhook \in [attempts : Nat, logs : Seq(Nat)]

\* A profile that shows as approved was approved as it stands, or written by an
\* onboarding, however many changes still wait for a review
\* (updateCompanyProfile, approveCompanyProfile).
ShownProfileReviewed ==
    \A t \in Tenants :
       profile[t].approved /\ profile[t].legal > 0
          => profile[t].changes[profile[t].legal] = "APPROVED"

\* Once a tenant is locked, no request made in its name opens it, and neither
\* its profile nor its jobs change: only the onboarding by a partner and a new
\* store still do (assertHttpWriteAllowed, updateSubscriptionGate).
LockLasts ==
    [][\A t \in Tenants : Locked(t) =>
          \/ known' = 1 /\ jobs' = <<>> /\ gate' = OpenGates
          \/ /\ gate'[t] = gate[t]
             /\ profile'[t] \in {profile[t], [profile[t] EXCEPT !.legal = 0]}
             /\ t = DemoTenant => jobs' = jobs /\ webhook' = webhook]_tenancyVars

\* The jobs are done in the order they were queued in, each once
\* (runNextBackgroundJob).
JobsInOrder ==
    \A i, j \in DOMAIN jobs : i < j /\ jobs[j] = "DONE" => jobs[i] = "DONE"
=============================================================================
