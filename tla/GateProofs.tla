------------------------------ MODULE GateProofs ------------------------------
(***************************************************************************)
(* Theorems about the three components that stand behind the gate of       *)
(* module Gate; each has its own behaviours, and its own section here.     *)
(*                                                                         *)
(* Access: for every number of users, sessions and tokens, whatever the    *)
(* clock does, sessions end with the password they were opened with and at *)
(* the latest a week after their login, and passwords change once per      *)
(* token.                                                                  *)
(*                                                                         *)
(* Tenancy: the profiles that show as approved, the order of the jobs, and *)
(* the lock that lasts.                                                    *)
(*                                                                         *)
(* Readiness, for any chain of workflows: the proofs look at one step of a *)
(* report and never at which step it is, so they hold for the chains of    *)
(* module Workflows and would for others.                                  *)
(***************************************************************************)
EXTENDS Access, Tenancy, Readiness, SequenceTheorems, FiniteSetTheorems, TLAPS

-----------------------------------------------------------------------------
\* Access.

\* A session can be refreshed for RefreshLife after its login, no longer, and
\* its access token never outlives that by more than AccessLife.
EndsInTime(session) ==
    /\ session.refreshExpires = session.created + RefreshLife
    /\ session.expires <= session.created + RefreshLife + AccessLife

SessionsInv ==
    /\ SessionsFollowPassword
    /\ \A s \in DOMAIN sessions : EndsInTime(sessions[s])

AccessInv == AccessTypeOK /\ SessionsInv /\ OneChangePerToken

LEMMA Lives ==
    /\ AccessLife \in Nat /\ ResetLife \in Nat /\ RefreshLife \in Nat
    /\ MaxResets \in Nat
BY AccessAssumption

-----------------------------------------------------------------------------
\* The first state and every new store.
LEMMA NothingKnownYet ==
    ASSUME gate' = OpenGates, users' = FirstAccounts, sessions' = <<>>, resets' = <<>>,
           now' \in Nat \ {0}
    PROVE  AccessInv'
<1>1. FirstAccounts \in [Users -> Accounts]
  BY Lives DEF FirstAccounts, Accounts, Passwords
<1>2. AccessTypeOK'
  BY <1>1 DEF AccessTypeOK, OpenGates, Gates, TenantStatus
<1>3. SessionsInv'
  BY DEF SessionsInv, SessionsFollowPassword
<1>4. \A u \in Users : UsedBy(u)' = {}
  BY DEF UsedBy
<1>5. \A u \in Users : Cardinality(UsedBy(u)') = 0
  BY <1>4, FS_EmptySet
<1>6. \A u \in Users : users'[u].password = 1
  BY DEF FirstAccounts
<1>7. OneChangePerToken'
  BY <1>5, <1>6 DEF OneChangePerToken
<1>. QED
  BY <1>2, <1>3, <1>7 DEF AccessInv

LEMMA UsedTokensFinite ==
    ASSUME resets \in Seq(Tokens), NEW u \in Users
    PROVE  IsFiniteSet(UsedBy(u))
<1>1. DOMAIN resets = 1..Len(resets) /\ Len(resets) \in Nat
  OBVIOUS
<1>2. IsFiniteSet(1..Len(resets))
  BY <1>1, FS_Interval
<1>. QED
  BY <1>1, <1>2, FS_Subset DEF UsedBy

LEMMA LoginKeepsInv ==
    ASSUME AccessInv, NEW u \in Users, NEW password \in Passwords, NEW code \in BOOLEAN,
           Login(u, password, code)
    PROVE  AccessInv'
<1>. USE DEF AccessInv, AccessTypeOK
<1>. DEFINE new == [user |-> u, password |-> password, created |-> now, expires |-> now + AccessLife,
                    refreshExpires |-> now + RefreshLife, revoked |-> FALSE]
<1>1. new \in Sessions /\ EndsInTime(new)
  BY Lives DEF Sessions, EndsInTime
<1>2. /\ sessions' = Append(sessions, new) /\ UNCHANGED <<gate, now, users, resets>>
      /\ new.user = u /\ new.password = users[u].password
  BY DEF Login
<1>. HIDE DEF new
<1>3. /\ sessions' \in Seq(Sessions)
      /\ DOMAIN sessions' = DOMAIN sessions \cup {Len(sessions) + 1}
      /\ sessions'[Len(sessions) + 1] = new
      /\ \A s \in DOMAIN sessions : sessions'[s] = sessions[s]
  BY <1>1, <1>2
<1>4. SessionsInv'
  BY <1>1, <1>2, <1>3 DEF SessionsInv, SessionsFollowPassword, EndsInTime
<1>5. OneChangePerToken'
  BY <1>2 DEF OneChangePerToken, UsedBy
<1>. QED
  BY <1>2, <1>3, <1>4, <1>5

\* A session becomes another one of the same user and login.
LEMMA SessionReplaced ==
    ASSUME AccessInv, NEW s \in DOMAIN sessions, NEW new \in Sessions, EndsInTime(new),
           new.user = sessions[s].user, new.password = sessions[s].password,
           ~new.revoked => ~sessions[s].revoked,
           sessions' = [sessions EXCEPT ![s] = new], UNCHANGED <<gate, now, users, resets>>
    PROVE  AccessInv'
<1>. USE DEF AccessInv, AccessTypeOK
<1>1. /\ sessions' \in Seq(Sessions) /\ DOMAIN sessions' = DOMAIN sessions
      /\ sessions'[s] = new
      /\ \A i \in DOMAIN sessions : i # s => sessions'[i] = sessions[i]
  OBVIOUS
<1>2. SessionsFollowPassword'
  BY <1>1 DEF SessionsInv, SessionsFollowPassword
<1>3. \A i \in DOMAIN sessions' : EndsInTime(sessions'[i])
  BY <1>1 DEF SessionsInv
<1>4. SessionsInv'
  BY <1>2, <1>3 DEF SessionsInv, EndsInTime
<1>5. OneChangePerToken'
  BY DEF OneChangePerToken, UsedBy
<1>. QED
  BY <1>1, <1>4, <1>5

LEMMA RefreshKeepsInv ==
    ASSUME AccessInv, NEW s \in DOMAIN sessions, RefreshSession(s)
    PROVE  AccessInv'
<1>. DEFINE old == sessions[s]
            new == Refreshed(old)
<1>1. old \in Sessions /\ EndsInTime(old) /\ now \in Nat
  BY DEF AccessInv, AccessTypeOK, SessionsInv
<1>2. /\ new \in Sessions /\ EndsInTime(new)
      /\ new.user = old.user /\ new.password = old.password
      /\ ~new.revoked => ~old.revoked
  <2>1. CASE old.refreshExpires < now
    BY <1>1, <2>1 DEF Refreshed, Sessions, EndsInTime
  <2>2. CASE ~(old.refreshExpires < now)
    BY <1>1, <2>2, Lives DEF Refreshed, Sessions, EndsInTime
  <2>. QED
    BY <2>1, <2>2
<1>3. sessions' = [sessions EXCEPT ![s] = new] /\ UNCHANGED <<gate, now, users, resets>>
  BY DEF RefreshSession
<1>. HIDE DEF new
<1>. QED
  BY <1>2, <1>3, SessionReplaced

LEMMA RevocationKeepsInv ==
    ASSUME AccessInv, NEW s \in DOMAIN sessions, NEW role \in Roles, RevokeSession(s, role)
    PROVE  AccessInv'
<1>. DEFINE old == sessions[s]
            new == [old EXCEPT !.revoked = TRUE]
<1>1. old \in Sessions /\ EndsInTime(old)
  BY DEF AccessInv, AccessTypeOK, SessionsInv
<1>2. /\ new \in Sessions /\ EndsInTime(new)
      /\ new.user = old.user /\ new.password = old.password /\ new.revoked
  BY <1>1 DEF Sessions, EndsInTime
<1>3. sessions' = [sessions EXCEPT ![s] = new] /\ UNCHANGED <<gate, now, users, resets>>
  BY DEF RevokeSession
<1>. HIDE DEF new
<1>. QED
  BY <1>2, <1>3, SessionReplaced

-----------------------------------------------------------------------------
LEMMA ResetRequestKeepsInv ==
    ASSUME AccessInv, NEW u \in Users, RequestPasswordReset(u)
    PROVE  AccessInv'
<1>. USE DEF AccessInv, AccessTypeOK
<1>. DEFINE new == [user |-> u, expires |-> now + ResetLife, usedAt |-> 0]
<1>1. new \in Tokens /\ new.usedAt = 0 /\ new.usedAt <= new.expires
  BY Lives DEF Tokens
<1>2. resets' = Append(resets, new) /\ UNCHANGED <<gate, now, users, sessions>>
  BY DEF RequestPasswordReset
<1>. HIDE DEF new
<1>3. /\ resets' \in Seq(Tokens)
      /\ DOMAIN resets' = DOMAIN resets \cup {Len(resets) + 1}
      /\ resets'[Len(resets) + 1] = new
      /\ \A r \in DOMAIN resets : resets'[r] = resets[r]
  BY <1>1, <1>2
<1>4. \A v \in Users : UsedBy(v)' = UsedBy(v)
  BY <1>1, <1>3 DEF UsedBy
<1>5. OneChangePerToken'
  BY <1>1, <1>2, <1>3, <1>4 DEF OneChangePerToken
<1>6. SessionsInv'
  BY <1>2 DEF SessionsInv, SessionsFollowPassword, EndsInTime
<1>. QED
  BY <1>2, <1>3, <1>5, <1>6

LEMMA ResetKeepsInv ==
    ASSUME AccessInv, NEW r \in DOMAIN resets, ResetPassword(r)
    PROVE  AccessInv'
<1>. USE DEF AccessInv, AccessTypeOK
<1>1. resets[r] \in Tokens
  OBVIOUS
<1>2. PICK u \in Users : u = resets[r].user
  BY <1>1 DEF Tokens
<1>3. /\ resets[r] \in Tokens /\ now \in Nat \ {0}
      /\ resets[r].usedAt = 0 /\ now <= resets[r].expires
      /\ users[u].password + 1 \in Passwords
      /\ users' = [users EXCEPT ![u].password = @ + 1]
      /\ resets' = [resets EXCEPT ![r].usedAt = now]
      /\ sessions' = RevokedFor(u)
      /\ UNCHANGED <<gate, now>>
  <2>1. resets[r].expires \in Nat
    BY <1>1 DEF Tokens
  <2>2. Redeemable(resets[r])
    BY DEF ResetPassword
  <2>3. resets[r].usedAt = 0 /\ now <= resets[r].expires
    BY <2>1, <2>2 DEF Redeemable
  <2>. QED
    BY <1>1, <1>2, <2>3 DEF ResetPassword
<1>4. /\ users' \in [Users -> Accounts]
      /\ users'[u].password = users[u].password + 1
      /\ \A v \in Users : v # u => users'[v] = users[v]
  BY <1>3 DEF Accounts
<1>5. /\ resets' \in Seq(Tokens)
      /\ DOMAIN resets' = DOMAIN resets
      /\ resets'[r].user = resets[r].user /\ resets'[r].expires = resets[r].expires
      /\ resets'[r].usedAt = now
      /\ \A i \in DOMAIN resets : i # r => resets'[i] = resets[i]
  <2>. DEFINE new == [resets[r] EXCEPT !.usedAt = now]
  <2>1. /\ new \in Tokens /\ new.user = resets[r].user /\ new.expires = resets[r].expires
        /\ new.usedAt = now
    BY <1>3 DEF Tokens
  <2>2. resets' = [resets EXCEPT ![r] = new]
    BY <1>3
  <2>. HIDE DEF new
  <2>. QED
    BY <2>1, <2>2
<1>6. ASSUME NEW s \in DOMAIN sessions
      PROVE  /\ sessions'[s] \in Sessions /\ EndsInTime(sessions'[s])
             /\ sessions'[s].user = sessions[s].user /\ sessions'[s].password = sessions[s].password
             /\ ~sessions'[s].revoked => ~sessions[s].revoked /\ sessions[s].user # u
  <2>1. sessions[s] \in Sessions /\ EndsInTime(sessions[s])
    BY DEF SessionsInv
  <2>2. sessions'[s] = IF sessions[s].user = u THEN [sessions[s] EXCEPT !.revoked = TRUE]
                                               ELSE sessions[s]
    BY <1>3 DEF RevokedFor
  <2>. QED
    BY <2>1, <2>2 DEF Sessions, EndsInTime
<1>7. /\ sessions' \in Seq(Sessions) /\ DOMAIN sessions' = DOMAIN sessions
  <2>1. DOMAIN sessions = 1..Len(sessions) /\ Len(sessions) \in Nat
    OBVIOUS
  <2>2. sessions' \in [1..Len(sessions) -> Sessions]
    BY <1>3, <1>6, <2>1 DEF RevokedFor
  <2>. QED
    BY <2>1, <2>2
<1>8. SessionsFollowPassword'
  <2>. SUFFICES ASSUME NEW s \in DOMAIN sessions, ~sessions'[s].revoked
                PROVE  sessions'[s].password = users'[sessions'[s].user].password
    BY <1>7 DEF SessionsFollowPassword
  <2>1. sessions[s] \in Sessions
    BY <1>7
  <2>2. sessions[s].user \in Users
    BY <2>1 DEF Sessions
  <2>3. ~sessions[s].revoked /\ sessions[s].user # u
    BY <1>6, <1>7
  <2>4. sessions[s].password = users[sessions[s].user].password
    BY <2>3 DEF SessionsInv, SessionsFollowPassword
  <2>. QED
    BY <1>4, <1>6, <2>2, <2>3, <2>4
<1>9. SessionsInv'
  BY <1>6, <1>7, <1>8 DEF SessionsInv, EndsInTime
<1>10. UsedBy(u)' = UsedBy(u) \cup {r} /\ r \notin UsedBy(u)
  BY <1>3, <1>5, <1>2 DEF UsedBy
<1>11. \A v \in Users : v # u => UsedBy(v)' = UsedBy(v)
  BY <1>3, <1>5, <1>2 DEF UsedBy
<1>12. /\ Cardinality(UsedBy(u)) \in Nat
       /\ Cardinality(UsedBy(u)') = Cardinality(UsedBy(u)) + 1
  <2>1. IsFiniteSet(UsedBy(u))
    BY <1>3, UsedTokensFinite
  <2>. QED
    BY <1>10, <2>1, FS_AddElement, FS_CardinalityType
<1>13. \A v \in Users : users'[v].password = 1 + Cardinality(UsedBy(v)')
  <2>1. users'[u].password = 1 + Cardinality(UsedBy(u)')
    BY <1>3, <1>4, <1>12 DEF OneChangePerToken
  <2>2. \A v \in Users : users[v].password = 1 + Cardinality(UsedBy(v))
    BY DEF OneChangePerToken
  <2>3. \A v \in Users : v # u => Cardinality(UsedBy(v)') = Cardinality(UsedBy(v))
    BY <1>11
  <2>. SUFFICES ASSUME NEW v \in Users, v # u
                PROVE  users'[v].password = 1 + Cardinality(UsedBy(v)')
    BY <2>1
  <2>4. users'[v] = users[v]
    BY <1>4
  <2>. QED
    BY <2>2, <2>3, <2>4
<1>14. \A i \in DOMAIN resets' : resets'[i].usedAt <= resets'[i].expires
  BY <1>3, <1>5 DEF OneChangePerToken
<1>15. OneChangePerToken'
  BY <1>13, <1>14 DEF OneChangePerToken
<1>. QED
  BY <1>3, <1>4, <1>5, <1>7, <1>9, <1>15

LEMMA TwoFactorKeepsInv ==
    ASSUME AccessInv, NEW u \in Users, EnableTwoFactor(u)
    PROVE  AccessInv'
<1>. USE DEF AccessInv, AccessTypeOK
<1>1. /\ users' = [users EXCEPT ![u].twoFactor = TRUE]
      /\ UNCHANGED <<gate, now, sessions, resets>>
  BY DEF EnableTwoFactor
<1>2. /\ users' \in [Users -> Accounts]
      /\ \A v \in Users : users'[v].password = users[v].password
  BY <1>1 DEF Accounts
<1>3. SessionsInv'
  BY <1>1, <1>2 DEF SessionsInv, SessionsFollowPassword, EndsInTime, Sessions
<1>4. OneChangePerToken'
  BY <1>1, <1>2 DEF OneChangePerToken, UsedBy
<1>. QED
  BY <1>1, <1>2, <1>3, <1>4

\* The clock and the gate concern no session.
LEMMA OthersKeepInv ==
    ASSUME AccessInv, gate' \in [Tenants -> Gates], now' \in Nat \ {0}, UNCHANGED identityVars
    PROVE  AccessInv'
BY DEF AccessInv, AccessTypeOK, identityVars, SessionsInv, SessionsFollowPassword, EndsInTime,
       OneChangePerToken, UsedBy

-----------------------------------------------------------------------------
LEMMA AccessInitially == AccessInit => AccessInv
<1>. SUFFICES ASSUME AccessInit
              PROVE  AccessInv
  OBVIOUS
<1>1. FirstAccounts \in [Users -> Accounts]
  BY Lives DEF FirstAccounts, Accounts, Passwords
<1>2. AccessTypeOK
  BY <1>1 DEF AccessInit, AccessTypeOK, OpenGates, Gates, TenantStatus
<1>3. SessionsInv
  BY DEF AccessInit, SessionsInv, SessionsFollowPassword
<1>4. \A u \in Users : UsedBy(u) = {}
  BY DEF AccessInit, UsedBy
<1>5. \A u \in Users : Cardinality(UsedBy(u)) = 0
  BY <1>4, FS_EmptySet
<1>6. \A u \in Users : users[u].password = 1
  BY DEF AccessInit, FirstAccounts
<1>7. OneChangePerToken
  BY <1>5, <1>6 DEF OneChangePerToken, AccessInit
<1>. QED
  BY <1>2, <1>3, <1>7 DEF AccessInv

LEMMA AccessSteps == AccessInv /\ [AccessNext]_vars => AccessInv'
<1>. SUFFICES ASSUME AccessInv, [AccessNext]_vars
              PROVE  AccessInv'
  OBVIOUS
<1>1. CASE IdentityStep
  BY <1>1, LoginKeepsInv, RefreshKeepsInv, ResetRequestKeepsInv, ResetKeepsInv, TwoFactorKeepsInv
     DEF IdentityStep
<1>2. CASE \E s \in DOMAIN sessions, role \in Roles : RevokeSession(s, role)
  BY <1>2, RevocationKeepsInv
<1>3. CASE \E role \in Roles, g \in Gates : SubscribeDemo(role, g)
  BY <1>3, OthersKeepInv, AccessAssumption
     DEF SubscribeDemo, UpdateSubscriptionGate, AccessInv, AccessTypeOK
<1>4. CASE ResetUsers \/ RestartUsers
  BY <1>4, NothingKnownYet DEF ResetUsers, RestartUsers, NewUsers, AccessInv, AccessTypeOK
<1>5. CASE Tick
  BY <1>5, OthersKeepInv DEF Tick, AccessInv, AccessTypeOK
<1>6. CASE UNCHANGED vars
  BY <1>6, OthersKeepInv DEF vars, identityVars, AccessInv, AccessTypeOK
<1>. QED
  BY <1>1, <1>2, <1>3, <1>4, <1>5, <1>6 DEF AccessNext

\* The type of the state (the fields of UserProfile, SessionRecord and
\* PasswordResetToken modelled here).
THEOREM AccessTypeCorrect == AccessSpec => []AccessTypeOK
<1>1. AccessInv => AccessTypeOK
  BY DEF AccessInv
<1>. QED
  BY <1>1, AccessInitially, AccessSteps, PTL DEF AccessSpec

\* A session that is not revoked was opened with the password in force
\* (resetPassword, refreshSession).
THEOREM SessionsFollow == AccessSpec => []SessionsFollowPassword
<1>1. AccessInv => SessionsFollowPassword
  BY DEF AccessInv, SessionsInv
<1>. QED
  BY <1>1, AccessInitially, AccessSteps, PTL DEF AccessSpec

\* No number of refreshes lets an access token outlive the seven days and
\* fifteen minutes after the login (refreshSession).
THEOREM SessionsAlwaysEnd == AccessSpec => []SessionsEnd
<1>1. AccessInv => SessionsEnd
  BY DEF AccessInv, SessionsInv, EndsInTime, SessionsEnd
<1>. QED
  BY <1>1, AccessInitially, AccessSteps, PTL DEF AccessSpec

\* A password changes once per token, while the token is good
\* (requestPasswordReset, resetPassword).
THEOREM TokensUsedOnce == AccessSpec => []OneChangePerToken
<1>1. AccessInv => OneChangePerToken
  BY DEF AccessInv
<1>. QED
  BY <1>1, AccessInitially, AccessSteps, PTL DEF AccessSpec

-----------------------------------------------------------------------------
\* Tenancy.

GatesTyped == gate \in [Tenants -> Gates]
ProfilesTyped == profile \in [Tenants -> Profiles]
OthersTyped ==
    /\ known \in Tenants
    /\ webhook \in [attempts : Nat, logs : Seq(Nat)]

\* What a profile that waits for a review looks like: its legal identity, if a
\* change wrote it, is the one of the last change, which nobody has approved.
ReviewInv(p) ==
    /\ p.legal <= Len(p.changes)
    /\ p.legal > 0 =>
          IF p.approved THEN p.changes[p.legal] = "APPROVED"
                        ELSE p.legal = Len(p.changes) /\ p.changes[p.legal] = "PENDING_REVIEW"

ProfilesInv == ProfilesTyped /\ \A t \in Tenants : ReviewInv(profile[t])
JobsInv == jobs \in Seq(JobStatus) /\ JobsInOrder
TenancyInv == GatesTyped /\ OthersTyped /\ ProfilesInv /\ JobsInv

-----------------------------------------------------------------------------
LEMMA FirstStore ==
    ASSUME gate' = OpenGates, known' = 1, profile' = [t \in Tenants |-> NewProfile],
           jobs' = <<>>, webhook' = [attempts |-> 0, logs |-> <<>>]
    PROVE  TenancyInv'
<1>1. GatesTyped'
  BY DEF GatesTyped, OpenGates, Gates, TenantStatus
<1>2. OthersTyped'
  BY TenancyAssumption DEF OthersTyped
<1>3. NewProfile \in Profiles /\ ReviewInv(NewProfile)
  BY DEF NewProfile, Profiles, ReviewInv
<1>4. ProfilesInv'
  BY <1>3 DEF ProfilesInv, ProfilesTyped
<1>5. JobsInv'
  BY DEF JobsInv, JobsInOrder
<1>. QED
  BY <1>1, <1>2, <1>4, <1>5 DEF TenancyInv

\* One profile is replaced by one that is as it should be.
LEMMA ProfileReplaced ==
    ASSUME ProfilesInv, NEW t \in Tenants, NEW p \in Profiles, ReviewInv(p),
           profile' = [profile EXCEPT ![t] = p]
    PROVE  ProfilesInv'
BY DEF ProfilesInv, ProfilesTyped

LEMMA ChangeRequested ==
    ASSUME ProfilesInv, NEW t \in Tenants, NEW role \in Roles, UpdateCompanyProfile(t, role)
    PROVE  ProfilesInv'
<1>. DEFINE old == profile[t]
            new == [approved |-> FALSE, changes |-> Append(old.changes, "PENDING_REVIEW"),
                    legal |-> Len(old.changes) + 1]
<1>1. old.changes \in Seq(ChangeStatus)
  BY DEF ProfilesInv, ProfilesTyped, Profiles
<1>2. /\ new.changes \in Seq(ChangeStatus)
      /\ Len(new.changes) = Len(old.changes) + 1
      /\ new.changes[Len(old.changes) + 1] = "PENDING_REVIEW"
  BY <1>1 DEF ChangeStatus
<1>3. new \in Profiles /\ ReviewInv(new)
  BY <1>1, <1>2 DEF Profiles, ReviewInv
<1>4. profile' = [profile EXCEPT ![t] = new]
  BY DEF UpdateCompanyProfile
<1>. QED
  BY <1>3, <1>4, ProfileReplaced

LEMMA MaxOfGreatest ==
    ASSUME NEW S \in SUBSET Nat, NEW n \in S, \A s \in S : s <= n
    PROVE  Max(S) = n
<1>1. \E x \in S : \A y \in S : x >= y
  OBVIOUS
<1>. DEFINE m == Max(S)
<1>2. m \in S /\ \A y \in S : m >= y
  BY <1>1 DEF Max
<1>. HIDE DEF m
<1>3. m \in Nat /\ n \in Nat /\ m >= n /\ m <= n
  BY <1>2
<1>4. m = n
  BY <1>3
<1>. QED
  BY <1>4 DEF m

LEMMA ExceptAnywhere ==
    ASSUME NEW S, NEW f \in Seq(S), NEW i, NEW v \in S
    PROVE  /\ [f EXCEPT ![i] = v] \in Seq(S)
           /\ Len([f EXCEPT ![i] = v]) = Len(f)
           /\ \A c \in 1..Len(f) : [f EXCEPT ![i] = v][c] = IF c = i THEN v ELSE f[c]
<1>1. f \in [1..Len(f) -> S] /\ Len(f) \in Nat
  OBVIOUS
<1>2. [f EXCEPT ![i] = v] \in [1..Len(f) -> S]
  BY <1>1
<1>. QED
  BY <1>1, <1>2

\* The review is one of the identity that holds, if that waits for one.
LEMMA ReviewGiven ==
    ASSUME ProfilesInv, NEW t \in Tenants, NEW role \in Roles, ApproveCompanyProfile(t, role)
    PROVE  ProfilesInv'
<1>. DEFINE old == profile[t]
            r == Reviewed(t)
            new == [old EXCEPT !.approved = TRUE, !.changes = [old.changes EXCEPT ![r] = "APPROVED"]]
<1>1. old \in Profiles /\ ReviewInv(old)
  BY DEF ProfilesInv, ProfilesTyped
<1>2. ASSUME ~old.approved, old.legal > 0
      PROVE  r = old.legal
  <2>1. /\ old.changes \in Seq(ChangeStatus) /\ old.legal = Len(old.changes)
        /\ old.changes[old.legal] = "PENDING_REVIEW" /\ old.legal \in Nat
    BY <1>1, <1>2 DEF ReviewInv, Profiles
  <2>2. /\ Pending(t) \subseteq Nat /\ old.legal \in Pending(t)
        /\ \A c \in Pending(t) : c <= old.legal
    BY <1>2, <2>1 DEF Pending
  <2>. QED
    BY <2>2, MaxOfGreatest DEF Reviewed
<1>. HIDE DEF r
<1>3. old.changes \in Seq(ChangeStatus) /\ old.legal \in Nat /\ old.approved \in BOOLEAN
  BY <1>1 DEF Profiles
<1>4. /\ new.changes = [old.changes EXCEPT ![r] = "APPROVED"]
      /\ new.approved = TRUE /\ new.legal = old.legal
  BY <1>1 DEF Profiles
<1>5. /\ new.changes \in Seq(ChangeStatus)
      /\ Len(new.changes) = Len(old.changes)
      /\ \A c \in 1..Len(old.changes) :
            new.changes[c] = IF c = r THEN "APPROVED" ELSE old.changes[c]
  <2>. DEFINE earlier == old.changes
               after == new.changes
  <2>1. earlier \in Seq(ChangeStatus) /\ after = [earlier EXCEPT ![r] = "APPROVED"]
    BY <1>3, <1>4
  <2>2. "APPROVED" \in ChangeStatus
    BY DEF ChangeStatus
  <2>. HIDE DEF earlier, after
  <2>3. /\ after \in Seq(ChangeStatus) /\ Len(after) = Len(earlier)
        /\ \A c \in 1..Len(earlier) : after[c] = IF c = r THEN "APPROVED" ELSE earlier[c]
    BY <2>1, <2>2, ExceptAnywhere
  <2>. QED
    BY <2>3 DEF earlier, after
<1>6. new \in Profiles
  BY <1>1, <1>4, <1>5 DEF Profiles
<1>7. ReviewInv(new)
  BY <1>1, <1>2, <1>3, <1>4, <1>5 DEF ReviewInv
<1>8. profile' = [profile EXCEPT ![t] = new]
  BY DEF ApproveCompanyProfile, ProfilesInv, ProfilesTyped, r
<1>. QED
  BY <1>6, <1>7, <1>8, ProfileReplaced

LEMMA OnboardingDone ==
    ASSUME ProfilesInv, NEW partner \in Tenants, NEW t \in Tenants, NEW role \in Roles,
           CompleteTenantOnboarding(partner, t, role)
    PROVE  ProfilesInv'
<1>. DEFINE old == profile[t]
            new == [old EXCEPT !.legal = 0]
<1>1. old \in Profiles /\ ReviewInv(old)
  BY DEF ProfilesInv, ProfilesTyped
<1>2. new \in Profiles /\ ReviewInv(new)
  BY <1>1 DEF Profiles, ReviewInv
<1>3. profile' = [profile EXCEPT ![t] = new]
  BY DEF CompleteTenantOnboarding
<1>. QED
  BY <1>2, <1>3, ProfileReplaced

-----------------------------------------------------------------------------
LEMMA JobsStayInOrder ==
    ASSUME JobsInv, NEW role \in Roles, DemoRequest(role)
    PROVE  JobsInv'
<1>. USE DEF JobsInv
<1>1. CASE EnqueueBackgroundJob(role)
  <2>1. /\ jobs' \in Seq(JobStatus)
        /\ DOMAIN jobs' = DOMAIN jobs \cup {Len(jobs) + 1}
        /\ jobs'[Len(jobs) + 1] = "QUEUED"
        /\ \A j \in DOMAIN jobs : jobs'[j] = jobs[j] /\ j < Len(jobs) + 1
    BY <1>1 DEF EnqueueBackgroundJob, JobStatus
  <2>. QED
    BY <2>1 DEF JobsInOrder
<1>2. CASE RunNextBackgroundJob(role)
  <2>1. PICK j \in NextJob : jobs' = [jobs EXCEPT ![j] = "DONE"]
    BY <1>2 DEF RunNextBackgroundJob
  <2>2. j \in DOMAIN jobs
    BY DEF NextJob, Queued
  <2>3. /\ jobs' \in Seq(JobStatus) /\ DOMAIN jobs' = DOMAIN jobs
        /\ \A i \in DOMAIN jobs : jobs'[i] = IF i = j THEN "DONE" ELSE jobs[i]
    BY <2>1, <2>2 DEF JobStatus
  <2>4. \A i \in DOMAIN jobs : i < j => jobs[i] = "DONE"
    BY <2>2 DEF NextJob, Queued, JobStatus
  <2>. QED
    BY <2>3, <2>4 DEF JobsInOrder
<1>3. CASE RetryWebhook(role)
  BY <1>3 DEF RetryWebhook, JobsInOrder
<1>. QED
  BY <1>1, <1>2, <1>3 DEF DemoRequest

-----------------------------------------------------------------------------
\* LockLasts, of one step.
LockedStep ==
    \A t \in Tenants : Locked(t) =>
       \/ known' = 1 /\ jobs' = <<>> /\ gate' = OpenGates
       \/ /\ gate'[t] = gate[t]
          /\ profile'[t] \in {profile[t], [profile[t] EXCEPT !.legal = 0]}
          /\ t = DemoTenant => jobs' = jobs /\ webhook' = webhook

LEMMA LockedAsksNothing ==
    ASSUME NEW t \in Tenants, NEW role \in Roles, Locked(t)
    PROVE  ~HttpWriteAllowed(t, "POST", "other", role) /\ ~Asks(t, role)
BY DEF HttpWriteAllowed, Asks

LEMMA RequestKeepsInv ==
    ASSUME TenancyInv, NEW t \in Tenants, NEW role \in Roles, Request(t, role)
    PROVE  TenancyInv' /\ LockedStep
<1>. USE DEF TenancyInv, GatesTyped, LockedStep
<1>0. UNCHANGED jobs => (JobsInv => JobsInv')
  BY DEF JobsInv, JobsInOrder
<1>1. CASE CreateTenant(t, role)
  BY <1>0, <1>1 DEF CreateTenant, OthersTyped, ProfilesInv, ProfilesTyped
<1>2. ASSUME NEW g \in Gates, Subscribe(t, role, g)
      PROVE  TenancyInv' /\ LockedStep
  <2>1. /\ gate' = [gate EXCEPT ![t] = g] /\ UNCHANGED <<known, profile, jobs, webhook>>
        /\ ~Locked(t)
    BY <1>2, LockedAsksNothing DEF Subscribe, UpdateSubscriptionGate
  <2>2. TenancyInv'
    BY <1>0, <2>1 DEF OthersTyped, ProfilesInv, ProfilesTyped
  <2>. QED
    BY <2>1, <2>2
<1>3. CASE UpdateCompanyProfile(t, role)
  <2>1. ProfilesInv'
    BY <1>3, ChangeRequested
  <2>2. UNCHANGED <<gate, known, jobs, webhook>> /\ ~Locked(t)
    BY <1>3, LockedAsksNothing DEF UpdateCompanyProfile
  <2>3. \A u \in Tenants : u # t => profile'[u] = profile[u]
    BY <1>3 DEF UpdateCompanyProfile, ProfilesInv, ProfilesTyped
  <2>. QED
    BY <1>0, <2>1, <2>2, <2>3 DEF OthersTyped
<1>4. CASE ApproveCompanyProfile(t, role)
  <2>1. ProfilesInv'
    BY <1>4, ReviewGiven
  <2>2. UNCHANGED <<gate, known, jobs, webhook>> /\ ~Locked(t)
    BY <1>4, LockedAsksNothing DEF ApproveCompanyProfile
  <2>3. \A u \in Tenants : u # t => profile'[u] = profile[u]
    BY <1>4 DEF ApproveCompanyProfile, ProfilesInv, ProfilesTyped
  <2>. QED
    BY <1>0, <2>1, <2>2, <2>3 DEF OthersTyped
<1>5. ASSUME NEW client \in Tenants, CompleteTenantOnboarding(t, client, role)
      PROVE  TenancyInv' /\ LockedStep
  <2>1. ProfilesInv'
    BY <1>5, OnboardingDone
  <2>2. /\ UNCHANGED <<gate, known, jobs, webhook>>
        /\ profile' = [profile EXCEPT ![client].legal = 0]
    BY <1>5 DEF CompleteTenantOnboarding
  <2>3. \A u \in Tenants : profile'[u] \in {profile[u], [profile[u] EXCEPT !.legal = 0]}
    BY <2>2 DEF ProfilesInv, ProfilesTyped
  <2>. QED
    BY <1>0, <2>1, <2>2, <2>3 DEF OthersTyped
<1>6. CASE ResetDemoData(t, role)
  BY <1>6, FirstStore DEF ResetDemoData, NewStore
<1>. QED
  BY <1>1, <1>2, <1>3, <1>4, <1>5, <1>6 DEF Request

LEMMA DemoRequestKeepsInv ==
    ASSUME TenancyInv, NEW role \in Roles, DemoRequest(role)
    PROVE  TenancyInv' /\ LockedStep
<1>. USE DEF TenancyInv, GatesTyped, LockedStep, DemoTenant
<1>1. JobsInv'
  BY JobsStayInOrder
<1>2. UNCHANGED <<gate, known, profile>> /\ ~Locked(1)
  BY LockedAsksNothing, TenancyAssumption
     DEF DemoRequest, EnqueueBackgroundJob, RunNextBackgroundJob, RetryWebhook
<1>3. webhook' \in [attempts : Nat, logs : Seq(Nat)]
  BY DEF DemoRequest, EnqueueBackgroundJob, RunNextBackgroundJob, RetryWebhook, OthersTyped
<1>. QED
  BY <1>1, <1>2, <1>3 DEF OthersTyped, ProfilesInv, ProfilesTyped

LEMMA TenancyInitially == TenancyInit => TenancyInv
BY TenancyAssumption
   DEF TenancyInit, TenancyInv, GatesTyped, OthersTyped, ProfilesInv, ProfilesTyped, JobsInv,
       JobsInOrder, OpenGates, Gates, TenantStatus, NewProfile, Profiles, ReviewInv

LEMMA TenancySteps == TenancyInv /\ [TenancyNext]_tenancyVars => TenancyInv' /\ LockedStep
<1>. SUFFICES ASSUME TenancyInv, [TenancyNext]_tenancyVars
              PROVE  TenancyInv' /\ LockedStep
  OBVIOUS
<1>1. CASE \E t \in Tenants, role \in Roles : Request(t, role)
  BY <1>1, RequestKeepsInv
<1>2. CASE \E role \in Roles : DemoRequest(role)
  BY <1>2, DemoRequestKeepsInv
<1>3. CASE Restart
  BY <1>3, FirstStore DEF Restart, NewStore, LockedStep
<1>4. CASE UNCHANGED tenancyVars
  BY <1>4 DEF tenancyVars, TenancyInv, GatesTyped, OthersTyped, ProfilesInv, ProfilesTyped, JobsInv,
              JobsInOrder, LockedStep
<1>. QED
  BY <1>1, <1>2, <1>3, <1>4 DEF TenancyNext

\* The type of the state (the fields of TenantWorkspace modelled here).
THEOREM TenancyTypeCorrect == TenancySpec => []TenancyTypeOK
<1>1. TenancyInv => TenancyTypeOK
  BY DEF TenancyInv, GatesTyped, OthersTyped, ProfilesInv, ProfilesTyped, JobsInv, TenancyTypeOK
<1>. QED
  BY <1>1, TenancyInitially, TenancySteps, PTL DEF TenancySpec

\* For any number of tenants and of changes, a profile that shows as approved
\* was approved as it stands (updateCompanyProfile, approveCompanyProfile).
THEOREM ShownProfilesReviewed == TenancySpec => []ShownProfileReviewed
<1>1. TenancyInv => ShownProfileReviewed
  BY DEF TenancyInv, ProfilesInv, ReviewInv, ShownProfileReviewed
<1>. QED
  BY <1>1, TenancyInitially, TenancySteps, PTL DEF TenancySpec

\* The jobs are done in the order they were queued in (runNextBackgroundJob).
THEOREM JobsDoneInOrder == TenancySpec => []JobsInOrder
<1>1. TenancyInv => JobsInOrder
  BY DEF TenancyInv, JobsInv
<1>. QED
  BY <1>1, TenancyInitially, TenancySteps, PTL DEF TenancySpec

\* No request made in the name of a locked tenant opens it or changes it
\* (assertHttpWriteAllowed, updateSubscriptionGate).
THEOREM LocksLast == TenancySpec => LockLasts
<1>1. TenancyInv /\ [TenancyNext]_tenancyVars => [LockedStep]_tenancyVars
  BY TenancySteps
<1>2. TenancySpec => [][LockedStep]_tenancyVars
  BY <1>1, TenancyInitially, TenancySteps, PTL DEF TenancySpec
<1>. QED
  BY <1>2 DEF LockLasts, LockedStep

-----------------------------------------------------------------------------
\* Readiness.

\* A rehearsal still has its copy, a report still has its month.
CopyKept ==
    Running => /\ request.report \in Reports
               /\ IF Rehearses(request.report) THEN request.snapshot = before
                                               ELSE month = before.month

\* A report that is not a rehearsal, so far: what a closed month, a locked
\* tenant and a lookup may gain.
Gained(have) ==
    /\ ~before.month => \A d \in Docs \cap Posting : have[d] <= Was(d)
    /\ ~CanWrite(Here, request.role) => \A d \in Docs \ Ungated : have[d] <= Was(d)
    /\ \A d \in OnlyLookedUp : have[d] <= Was(d) \/ have[d] <= Lot(d)

ReadinessInv ==
    /\ ReadinessTypeOK
    /\ CopyKept
    /\ Running /\ ~Rehearses(request.report) => Gained(docs)

\* What the end of a report must leave.
Left ==
    Ends => /\ Rehearses(request.report) => docs' = before.docs /\ month' = before.month
            /\ Gained(docs')

Goal == ReadinessInv' /\ Left

-----------------------------------------------------------------------------
\* A document is of its own kin, and its kin posts, or is unguarded, as it is.
LEMMA KinAlike ==
    ASSUME NEW doc, NEW d \in Kin(doc)
    PROVE  /\ d \in Posting => doc \in Posting
           /\ doc \in Ungated => d \in Ungated
           /\ Lot(d) = Lot(doc) /\ Lot(doc) \in 1..2
BY DEF Kin, Posting, Ungated, Lot

LEMMA LotType == \A doc : Lot(doc) \in Nat
BY DEF Lot

LEMMA CurrentStep ==
    ASSUME CopyKept, Running, ~Over
    PROVE  Current \in AllSteps
<1>1. request.report \in Reports /\ request.step \in DOMAIN Steps(request.report)
  BY DEF CopyKept, Over
<1>2. Current \in ToSet(Steps(request.report))
  BY <1>1 DEF Current, ToSet
<1>. QED
  BY <1>1, <1>2 DEF AllSteps

LEMMA BeforeType ==
    ASSUME ReadinessTypeOK, NEW d \in Docs
    PROVE  Was(d) \in Nat /\ docs[d] \in Nat /\ before.month \in BOOLEAN
BY DEF ReadinessTypeOK, Snapshots, Was

\* A creation that was missing and allowed.
LEMMA CreationGains ==
    ASSUME ReadinessInv, Running, ~Rehearses(request.report), ~Over, Missing(Current),
           Allowed(Current.doc, request.role)
    PROVE  LET after == With(Lot(Current.doc), Current.doc)
           IN  after \in [Docs -> Nat] /\ Gained(after)
<1>. DEFINE after == With(Lot(Current.doc), Current.doc)
<1>1. /\ after \in [Docs -> Nat]
      /\ \A d \in Docs : d \notin Kin(Current.doc) => after[d] = docs[d]
      /\ \A d \in Docs : d \in Kin(Current.doc) => after[d] = docs[d] + Lot(Current.doc)
  BY LotType DEF ReadinessInv, ReadinessTypeOK, With
<1>. HIDE DEF after
<1>2. Gained(docs) /\ Current \in AllSteps
  BY CurrentStep DEF ReadinessInv
<1>3. ASSUME ~before.month, NEW d \in Docs \cap Posting
      PROVE  after[d] <= Was(d)
  <2>1. ~month
    BY <1>3 DEF ReadinessInv, CopyKept
  <2>2. d \notin Kin(Current.doc)
    BY <1>3, <2>1, KinAlike DEF Allowed
  <2>. QED
    BY <1>1, <1>2, <1>3, <2>2 DEF Gained
<1>4. ASSUME ~CanWrite(Here, request.role), NEW d \in Docs \ Ungated
      PROVE  after[d] <= Was(d)
  <2>1. d \notin Kin(Current.doc)
    BY <1>4, KinAlike DEF Allowed
  <2>. QED
    BY <1>1, <1>2, <1>4, <2>1 DEF Gained
<1>5. ASSUME NEW d \in OnlyLookedUp
      PROVE  after[d] <= Was(d) \/ after[d] <= Lot(d)
  <2>1. d \in Docs /\ Was(d) \in Nat /\ (docs[d] <= Was(d) \/ docs[d] <= Lot(d))
    BY <1>2, BeforeType DEF ReadinessInv, OnlyLookedUp, Gained
  <2>2. CASE d \in Kin(Current.doc)
    <3>1. d \in Current.unless
      BY <1>2, <2>2 DEF OnlyLookedUp
    <3>2. docs[d] = 0
      BY <3>1 DEF Missing
    <3>3. after[d] = Lot(d)
      BY <1>1, <2>1, <2>2, <3>2, KinAlike, LotType
    <3>. QED
      BY <3>3, LotType
  <2>3. CASE d \notin Kin(Current.doc)
    BY <1>1, <2>1, <2>3
  <2>. QED
    BY <2>2, <2>3
<1>. QED
  BY <1>1, <1>3, <1>4, <1>5 DEF Gained, after

LEMMA ClosingGains ==
    ASSUME ReadinessInv, NEW doc, docs[doc] > 0
    PROVE  Without(doc) \in [Docs -> Nat] /\ (Gained(docs) => Gained(Without(doc)))
<1>. DEFINE after == Without(doc)
<1>1. /\ after \in [Docs -> Nat]
      /\ \A d \in Docs : after[d] <= docs[d]
  <2>1. \A d \in Docs : /\ docs[d] \in Nat
                        /\ after[d] = IF d = "sessionTickets" /\ doc = "openSessions" THEN 0
                                      ELSE IF d = doc THEN docs[d] - 1 ELSE docs[d]
    BY DEF ReadinessInv, ReadinessTypeOK, Without
  <2>2. \A d \in Docs : after[d] \in Nat /\ after[d] <= docs[d]
    BY <2>1
  <2>. QED
    BY <2>2 DEF Without
<1>. HIDE DEF after
<1>2. \A d \in Docs : Was(d) \in Nat /\ docs[d] \in Nat
  BY BeforeType DEF ReadinessInv
<1>3. OnlyLookedUp \subseteq Docs
  BY DEF OnlyLookedUp
<1>4. Gained(docs) => Gained(after)
  BY <1>1, <1>2, <1>3, LotType DEF Gained
<1>. QED
  BY <1>1, <1>4 DEF after

LEMMA WithType ==
    ASSUME ReadinessTypeOK, NEW doc, NEW many \in Nat
    PROVE  With(many, doc) \in [Docs -> Nat]
BY DEF ReadinessTypeOK, With

LEMMA CreationType ==
    ASSUME ReadinessTypeOK
    PROVE  With(Lot(Current.doc), Current.doc) \in [Docs -> Nat]
BY LotType, WithType

LEMMA RunningReport ==
    ASSUME ReadinessTypeOK, NEW r \in [report : Reports \cup {"NONE"}, role : Roles, step : Nat,
                                      snapshot : Snapshots \cup {Idle.snapshot}],
           r.report \in Reports
    PROVE  r # Idle
BY DEF Idle, Reports

-----------------------------------------------------------------------------
\* A report goes on with its next step.
LEMMA AdvanceKeeps ==
    ASSUME ReadinessInv, Running, Advance, docs' \in [Docs -> Nat],
           ~Rehearses(request.report) => Gained(docs')
    PROVE  Goal
<1>. USE DEF ReadinessInv, ReadinessTypeOK
<1>. DEFINE next == [request EXCEPT !.step = @ + 1]
<1>1. /\ next \in [report : Reports \cup {"NONE"}, role : Roles, step : Nat,
                   snapshot : Snapshots \cup {Idle.snapshot}]
      /\ next.report = request.report /\ next.role = request.role
      /\ next.snapshot = request.snapshot
  OBVIOUS
<1>2. request' = next /\ UNCHANGED <<gate, month, before, asked>>
  BY DEF Advance
<1>. HIDE DEF next
<1>3. request.report \in Reports
  BY DEF CopyKept
<1>4. request' # Idle
  BY <1>1, <1>2, <1>3, RunningReport
<1>5. ReadinessTypeOK'
  BY <1>1, <1>2
<1>6. CopyKept'
  BY <1>1, <1>2, <1>3 DEF CopyKept, Rehearses
<1>7. ~Rehearses(request'.report) => Gained(docs)'
  BY <1>1, <1>2 DEF Gained, Was, CanWrite, Locked, Rehearses
<1>. QED
  BY <1>4, <1>5, <1>6, <1>7 DEF Goal, Left, Ends

\* Between two reports nothing has to be kept but the types.
LEMMA IdleKeeps ==
    ASSUME ReadinessTypeOK, docs' \in [Docs -> Nat], month' \in BOOLEAN, request' = Idle,
           UNCHANGED <<gate, before, asked>>
    PROVE  ReadinessInv'
<1>1. request' \in [report : Reports \cup {"NONE"}, role : Roles, step : Nat,
                   snapshot : Snapshots \cup {Idle.snapshot}]
  BY DEF Idle, Roles
<1>2. ReadinessTypeOK'
  BY <1>1 DEF ReadinessTypeOK
<1>. QED
  BY <1>2 DEF ReadinessInv, CopyKept, Running

\* A report ends and leaves what it has, or what its copy has.
LEMMA LeavingKeeps ==
    ASSUME ReadinessInv, Running, NEW left \in [Docs -> Nat], Leave(left), request' = Idle,
           UNCHANGED <<gate, before, asked>>,
           ~Rehearses(request.report) => Gained(left)
    PROVE  Goal
<1>. USE DEF ReadinessInv
<1>1. CASE Rehearses(request.report)
  <2>1. docs' = before.docs /\ month' = before.month
    BY <1>1 DEF Leave, CopyKept
  <2>2. docs' \in [Docs -> Nat] /\ month' \in BOOLEAN
    BY <2>1 DEF ReadinessTypeOK, Snapshots
  <2>3. \A d \in Docs : docs'[d] = Was(d) /\ Was(d) \in Nat
    BY <2>1, BeforeType DEF Was
  <2>4. Gained(docs')
    BY <2>3 DEF Gained, OnlyLookedUp
  <2>. QED
    BY <1>1, <2>1, <2>2, <2>4, IdleKeeps DEF Goal, Left
<1>2. CASE ~Rehearses(request.report)
  <2>1. docs' = left /\ month' = month
    BY <1>2 DEF Leave
  <2>2. month' \in BOOLEAN
    BY <2>1 DEF ReadinessTypeOK
  <2>. QED
    BY <1>2, <2>1, <2>2, IdleKeeps DEF Goal, Left
<1>. QED
  BY <1>1, <1>2

LEMMA RunKeeps ==
    ASSUME ReadinessInv, RunReport
    PROVE  Goal
<1>. USE DEF ReadinessInv
<1>1. CASE CreateStep
  <2>1. /\ Running /\ ~Over /\ Missing(Current) /\ Allowed(Current.doc, request.role)
        /\ docs' = With(Lot(Current.doc), Current.doc) /\ Advance
    BY <1>1 DEF CreateStep
  <2>2. docs' \in [Docs -> Nat]
    BY <2>1, CreationType
  <2>3. ~Rehearses(request.report) => Gained(docs')
    BY <2>1, CreationGains
  <2>. QED
    BY <2>1, <2>2, <2>3, AdvanceKeeps
<1>2. CASE SkipStep
  <2>1. Running /\ docs' = docs /\ Advance
    BY <1>2 DEF SkipStep
  <2>2. docs' \in [Docs -> Nat]
    BY <2>1 DEF ReadinessTypeOK
  <2>3. ~Rehearses(request.report) => Gained(docs')
    BY <2>1
  <2>. QED
    BY <2>1, <2>2, <2>3, AdvanceKeeps
<1>3. CASE CloseStep
  <2>1. Running /\ docs[Current.doc] > 0 /\ docs' = Without(Current.doc) /\ Advance
    BY <1>3 DEF CloseStep
  <2>2. docs' \in [Docs -> Nat] /\ (~Rehearses(request.report) => Gained(docs'))
    BY <2>1, ClosingGains
  <2>. QED
    BY <2>1, <2>2, AdvanceKeeps
<1>4. CASE Return
  <2>1. Running /\ Leave(docs) /\ request' = Idle /\ UNCHANGED <<gate, before, asked>>
    BY <1>4 DEF Return
  <2>2. docs \in [Docs -> Nat]
    BY DEF ReadinessTypeOK
  <2>. QED
    BY <2>1, <2>2, LeavingKeeps
<1>5. CASE Throw
  <2>1. /\ Running /\ ~Over /\ Missing(Current)
        /\ request' = Idle /\ UNCHANGED <<gate, before, asked>>
        /\ \/ Leave(docs)
           \/ /\ Allowed(Current.doc, request.role)
              /\ \/ Leave(docs)
                 \/ Lot(Current.doc) = 1 /\ Leave(With(1, Current.doc))
    BY <1>5 DEF Throw, Leftover, Lot
  <2>2. docs \in [Docs -> Nat] /\ With(1, Current.doc) \in [Docs -> Nat]
    BY WithType DEF ReadinessTypeOK
  <2>3. CASE Leave(docs)
    BY <2>1, <2>2, <2>3, LeavingKeeps
  <2>4. CASE /\ Allowed(Current.doc, request.role)
             /\ Lot(Current.doc) = 1 /\ Leave(With(1, Current.doc))
    <3>1. ~Rehearses(request.report) => Gained(With(1, Current.doc))
      BY <2>1, <2>4, CreationGains
    <3>. QED
      BY <2>1, <2>2, <2>4, <3>1, LeavingKeeps
  <2>. QED
    BY <2>1, <2>3, <2>4
<1>. QED
  BY <1>1, <1>2, <1>3, <1>4, <1>5 DEF RunReport

\* A report begins: nothing is gained yet.
LEMMA AskKeeps ==
    ASSUME ReadinessInv, NEW report \in Reports, NEW role \in Roles, Ask(report, role)
    PROVE  Goal
<1>. USE DEF ReadinessInv, ReadinessTypeOK
<1>. DEFINE copy == [docs |-> docs, month |-> month]
<1>. DEFINE next == [report |-> report, role |-> role, step |-> 1,
                     snapshot |-> IF Rehearses(report) THEN copy ELSE Idle.snapshot]
<1>1. copy \in Snapshots /\ copy.docs = docs /\ copy.month = month
  BY DEF Snapshots
<1>2. /\ before' = copy /\ request' = next /\ ~Running
      /\ month' = (month \/ Rehearses(report))
      /\ asked' = [asked EXCEPT !.reports = @ + 1]
      /\ UNCHANGED <<gate, docs>>
  BY DEF Ask, Snapshot
<1>. HIDE DEF copy
<1>3. /\ next \in [report : Reports \cup {"NONE"}, role : Roles, step : Nat,
                   snapshot : Snapshots \cup {Idle.snapshot}]
      /\ next.report = report /\ next.role = role
      /\ next.snapshot = IF Rehearses(report) THEN copy ELSE Idle.snapshot
  BY <1>1
<1>. HIDE DEF next
<1>4. request' # Idle
  BY <1>2, <1>3, RunningReport
<1>5. asked' \in [reports : Nat, userDocs : Nat]
  BY <1>2
<1>6. ReadinessTypeOK'
  BY <1>1, <1>2, <1>3, <1>5 DEF Rehearses
<1>7. CopyKept'
  BY <1>1, <1>2, <1>3 DEF CopyKept, Rehearses
<1>8. \A d \in Docs : docs[d] \in Nat /\ docs'[d] = docs[d] /\ before'.docs[d] = docs[d]
  BY <1>1, <1>2
<1>9. Gained(docs)'
  BY <1>8 DEF Gained, Was, OnlyLookedUp
<1>. QED
  BY <1>2, <1>6, <1>7, <1>9 DEF Goal, Left, Ends

-----------------------------------------------------------------------------
LEMMA ReadinessInitially == ReadinessInit => ReadinessInv
<1>. SUFFICES ASSUME ReadinessInit
              PROVE  ReadinessInv
  OBVIOUS
<1>1. docs \in [Docs -> Nat] /\ month \in BOOLEAN /\ request = Idle
      /\ before = [docs |-> docs, month |-> month] /\ asked = [reports |-> 0, userDocs |-> 0]
  BY DEF ReadinessInit, Snapshot
<1>2. gate \in [Tenants -> Gates]
  BY DEF ReadinessInit, OpenGates, Gates, TenantStatus
<1>3. request \in [report : Reports \cup {"NONE"}, role : Roles, step : Nat,
                  snapshot : Snapshots \cup {Idle.snapshot}]
  BY <1>1 DEF Idle, Roles
<1>4. ReadinessTypeOK
  BY <1>1, <1>2, <1>3 DEF ReadinessTypeOK, Snapshots
<1>. QED
  BY <1>1, <1>4 DEF ReadinessInv, CopyKept, Running

LEMMA ReadinessSteps == ReadinessInv /\ [ReadinessNext]_readinessVars => ReadinessInv' /\ Left
<1>. SUFFICES ASSUME ReadinessInv, [ReadinessNext]_readinessVars
              PROVE  Goal
  BY DEF Goal
<1>. USE DEF ReadinessInv
<1>1. CASE \E report \in Reports, role \in Roles : Ask(report, role)
  BY <1>1, AskKeeps
<1>2. CASE RunReport
  BY <1>2, RunKeeps
<1>3. ASSUME NEW doc \in UserDocs, UserCreates(doc)
      PROVE  Goal
  <2>1. /\ ~Running /\ docs' = With(1, doc)
        /\ asked' = [asked EXCEPT !.userDocs = @ + 1]
        /\ UNCHANGED <<gate, month, request, before>>
    BY <1>3 DEF UserCreates
  <2>2. docs' \in [Docs -> Nat]
    BY <2>1, WithType
  <2>3. asked' \in [reports : Nat, userDocs : Nat]
    BY <2>1 DEF ReadinessTypeOK
  <2>4. ReadinessTypeOK'
    BY <2>1, <2>2, <2>3 DEF ReadinessTypeOK
  <2>. QED
    BY <2>1, <2>4 DEF Goal, Left, Ends, Running, CopyKept
<1>4. CASE \E role \in Roles : LockMonth(role)
  BY <1>4 DEF LockMonth, ReadinessTypeOK, Goal, Left, Ends, Running, CopyKept
<1>5. CASE \E role \in Roles, g \in Gates : SubscribeHere(role, g)
  BY <1>5 DEF SubscribeHere, UpdateSubscriptionGate, ReadinessTypeOK, Goal, Left, Ends, Running,
              CopyKept
<1>6. CASE UNCHANGED readinessVars
  BY <1>6 DEF readinessVars, ReadinessTypeOK, Goal, Left, Ends, Running, CopyKept, Gained, Was,
              CanWrite, Locked
<1>. QED
  BY <1>1, <1>2, <1>3, <1>4, <1>5, <1>6 DEF ReadinessNext

LEMMA ReadinessInvHolds == ReadinessSpec => []ReadinessInv
<1>1. ReadinessInv /\ [ReadinessNext]_readinessVars => ReadinessInv'
  BY ReadinessSteps
<1>. QED
  BY <1>1, ReadinessInitially, PTL DEF ReadinessSpec

\* The type of what the workspace holds, and of the report being executed.
THEOREM ReadinessTypeCorrect == ReadinessSpec => []ReadinessTypeOK
<1>1. ReadinessInv => ReadinessTypeOK
  BY DEF ReadinessInv
<1>. QED
  BY <1>1, ReadinessInvHolds, PTL

\* A rehearsal puts back the documents and the month, whichever of its steps
\* throws (moroccoEnterpriseExpansionReadiness, -AccelerationReadiness).
THEOREM RehearsalsPutBack == ReadinessSpec => RehearsalsLeaveNoTrace
<1>1. /\ ReadinessInv /\ [ReadinessNext]_readinessVars =>
            [Ends /\ Rehearses(request.report) => docs' = before.docs /\ month' = before.month
            ]_readinessVars
  BY ReadinessSteps DEF Left
<1>. QED
  BY <1>1, ReadinessInvHolds, PTL DEF ReadinessSpec, RehearsalsLeaveNoTrace

\* No chain of workflows whose creations ask like these posts into a closed
\* month or gives a locked tenant what its handlers guard
\* (assertPeriodOpen, assertCanWrite).
THEOREM LocksRespected == ReadinessSpec => ReportsRespectLocks
<1>1. /\ ReadinessInv /\ [ReadinessNext]_readinessVars =>
            [Ends => /\ ~before.month => \A d \in Docs \cap Posting : docs'[d] <= Was(d)
                     /\ ~CanWrite(Here, request.role) =>
                            \A d \in Docs \ Ungated : docs'[d] <= Was(d)]_readinessVars
  BY ReadinessSteps DEF Left, Gained
<1>. QED
  BY <1>1, ReadinessInvHolds, PTL DEF ReadinessSpec, ReportsRespectLocks

\* What every step of every report looks up before it creates it is created by one
\* workflow at most (the `?? create(...)` of the workflows).
THEOREM LookupsFindAgain == ReadinessSpec => FoundAgain
<1>1. /\ ReadinessInv /\ [ReadinessNext]_readinessVars =>
            [Ends => \A d \in OnlyLookedUp : docs'[d] <= Was(d) \/ docs'[d] <= Lot(d)
            ]_readinessVars
  BY ReadinessSteps DEF Left, Gained
<1>. QED
  BY <1>1, ReadinessInvHolds, PTL DEF ReadinessSpec, FoundAgain
=============================================================================
