-------------------------------- MODULE Access --------------------------------
(***************************************************************************)
(* The users of the demo tenant and their sessions: login, refresh,        *)
(* password reset, two-factor code and revocation.  No other tenant has    *)
(* users.  The paths under /auth pass the gate of module Gate; revoking a  *)
(* session does not.                                                       *)
(*                                                                         *)
(* Nothing is stored: a restart, like a demo reset, forgets every session  *)
(* and token and brings back the first passwords.  Handlers are atomic;    *)
(* what makes the order of requests matter is the clock and the tokens     *)
(* that are still around.                                                  *)
(*                                                                         *)
(* A password is the number of times it was chosen, and whoever logs in    *)
(* knows one of them.  Left out: devices, notifications, wrong tokens.     *)
(***************************************************************************)
EXTENDS Naturals, Sequences, FiniteSets, Gate

CONSTANTS Demo,  \* the tenant of the users
          Users,
          TwoFactorUsers,  \* those who start with a second factor
          AccessLife, ResetLife, RefreshLife,  \* 15 minutes, 30 minutes, 7 days
          MaxTime, MaxSessions, MaxResets  \* bounds

ASSUME AccessAssumption ==
    /\ Demo \in Tenants
    /\ TwoFactorUsers \subseteq Users
    /\ {AccessLife, ResetLife, RefreshLife} \subseteq Nat \ {0}
    /\ AccessLife < ResetLife /\ ResetLife < RefreshLife
    /\ {MaxTime, MaxSessions, MaxResets} \subseteq Nat

VARIABLES now,       \* new Date()
          users,     \* workspace.users of the demo tenant
          sessions,  \* workspace.sessions, in the order of the logins
          resets     \* workspace.passwordResetTokens

identityVars == <<users, sessions, resets>>
vars == <<gate, now, users, sessions, resets>>

Passwords == 1..(MaxResets + 1)
Accounts == [password : Passwords, twoFactor : BOOLEAN]
\* password and created are history: when and with what the user logged in.
Sessions == [user : Users, password : Passwords, created : Nat,
             expires : Nat, refreshExpires : Nat, revoked : BOOLEAN]
\* usedAt is 0 until the token is used.
Tokens == [user : Users, expires : Nat, usedAt : Nat]

FirstAccounts == [u \in Users |-> [password |-> 1, twoFactor |-> u \in TwoFactorUsers]]

-----------------------------------------------------------------------------
\* The code is asked when two-factor is on; what was refused leaves no session.
Login(u, password, code) ==
    /\ Len(sessions) < MaxSessions
    /\ password = users[u].password
    /\ users[u].twoFactor => code
    /\ sessions' = Append(sessions,
          [user |-> u, password |-> password, created |-> now, expires |-> now + AccessLife,
           refreshExpires |-> now + RefreshLife, revoked |-> FALSE])
    /\ UNCHANGED <<gate, now, users, resets>>

\* Every refresh starts the seven days again.
RefreshedMutant(session) ==
    [session EXCEPT !.expires = now + AccessLife, !.refreshExpires = now + RefreshLife]
\* Only the access token is renewed.
Refreshed(session) ==
    IF session.refreshExpires < now THEN [session EXCEPT !.revoked = TRUE]
                                    ELSE [session EXCEPT !.expires = now + AccessLife]

RefreshSession(s) ==
    /\ ~sessions[s].revoked
    /\ sessions' = [sessions EXCEPT ![s] = Refreshed(@)]
    /\ UNCHANGED <<gate, now, users, resets>>

\* Earlier tokens of the user stay good.
RequestPasswordReset(u) ==
    /\ Len(resets) < MaxResets
    /\ resets' = Append(resets, [user |-> u, expires |-> now + ResetLife, usedAt |-> 0])
    /\ UNCHANGED <<gate, now, users, sessions>>

RedeemableMutant(token) == ~(token.expires < now)
Redeemable(token) == token.usedAt = 0 /\ ~(token.expires < now)

RevokedForMutant(u) == sessions
RevokedFor(u) ==
    [s \in DOMAIN sessions |->
        IF sessions[s].user = u THEN [sessions[s] EXCEPT !.revoked = TRUE] ELSE sessions[s]]

ResetPassword(r) ==
    LET u == resets[r].user IN
    /\ Redeemable(resets[r])
    /\ users[u].password + 1 \in Passwords
    /\ users' = [users EXCEPT ![u].password = @ + 1]
    /\ resets' = [resets EXCEPT ![r].usedAt = now]
    /\ sessions' = RevokedFor(u)
    /\ UNCHANGED <<gate, now>>

\* The sessions of the user stay open.
EnableTwoFactor(u) ==
    /\ users' = [users EXCEPT ![u].twoFactor = TRUE]
    /\ UNCHANGED <<gate, now, sessions, resets>>

\* POST /tenant/sessions/revoke: refused while the tenant is locked.
RevokeSession(s, role) ==
    /\ HttpWriteAllowed(Demo, "POST", "other", role)
    /\ sessions' = [sessions EXCEPT ![s].revoked = TRUE]
    /\ UNCHANGED <<gate, now, users, resets>>

-----------------------------------------------------------------------------
SubscribeDemo(role, g) ==
    /\ UpdateSubscriptionGate(Demo, role, g)
    /\ UNCHANGED <<now, identityVars>>

\* A new store forgets what the users did.
NewUsers ==
    /\ gate' = OpenGates
    /\ users' = FirstAccounts
    /\ sessions' = <<>>
    /\ resets' = <<>>
    /\ UNCHANGED now

\* In the name of another tenant a reset passes whatever the gate here says.
ResetUsers == NewUsers
RestartUsers == NewUsers

Tick ==
    /\ now < MaxTime
    /\ now' = now + 1
    /\ UNCHANGED <<gate, identityVars>>

-----------------------------------------------------------------------------
AccessInit ==
    /\ gate = OpenGates
    /\ now = 1
    /\ users = FirstAccounts
    /\ sessions = <<>>
    /\ resets = <<>>

IdentityStep ==
    \/ \E u \in Users, password \in Passwords, code \in BOOLEAN : Login(u, password, code)
    \/ \E s \in DOMAIN sessions : RefreshSession(s)
    \/ \E u \in Users : RequestPasswordReset(u)
    \/ \E r \in DOMAIN resets : ResetPassword(r)
    \/ \E u \in Users : EnableTwoFactor(u)

AccessNext ==
    \/ IdentityStep
    \/ \E s \in DOMAIN sessions, role \in Roles : RevokeSession(s, role)
    \/ \E role \in Roles, g \in Gates : SubscribeDemo(role, g)
    \/ ResetUsers
    \/ RestartUsers
    \/ Tick

AccessSpec == AccessInit /\ [][AccessNext]_vars

-----------------------------------------------------------------------------
AccessTypeOK ==
    /\ gate \in [Tenants -> Gates]
    /\ now \in Nat \ {0}
    /\ users \in [Users -> Accounts]
    /\ sessions \in Seq(Sessions)
    /\ resets \in Seq(Tokens)

\* Whoever is still logged in, or can still refresh, logged in with the password
\* that is in force: no session survives a password reset, whatever was
\* refreshed, revoked or asked for before it (resetPassword, refreshSession).
SessionsFollowPassword ==
    \A s \in DOMAIN sessions :
       ~sessions[s].revoked => sessions[s].password = users[sessions[s].user].password

\* However often it is refreshed, a session ends: its access token expires at
\* most seven days and fifteen minutes after the login (refreshSession).
SessionsEnd ==
    \A s \in DOMAIN sessions :
       sessions[s].expires <= sessions[s].created + RefreshLife + AccessLife

UsedBy(u) == {r \in DOMAIN resets : resets[r].user = u /\ resets[r].usedAt > 0}

\* A password changes once per token, and only while the token is good: several
\* tokens of one user may be around, each used once at the most
\* (requestPasswordReset, resetPassword).
OneChangePerToken ==
    /\ \A u \in Users : users[u].password = 1 + Cardinality(UsedBy(u))
    /\ \A r \in DOMAIN resets : resets[r].usedAt <= resets[r].expires
=============================================================================
