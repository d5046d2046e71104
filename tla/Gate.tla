--------------------------------- MODULE Gate ---------------------------------
(***************************************************************************)
(* Who may change a tenant's workspace.  TenantInterceptor looks at the    *)
(* method, the path and the role of every request before its handler runs  *)
(* (assertHttpWriteAllowed); the handlers that ask themselves              *)
(* (assertCanWrite) ask about the role and the subscription again.         *)
(***************************************************************************)
CONSTANT Tenants

VARIABLE gate  \* per tenant: its status and featureGates.writeLocked

Roles == {"OWNER", "READ_ONLY"}  \* every other role writes as OWNER does
TenantStatus == {"ACTIVE", "PAST_DUE"}
Gates == [status : TenantStatus, writeLocked : BOOLEAN]

Locked(t) == gate[t].status # "ACTIVE" \/ gate[t].writeLocked

\* The interceptor tells GET from the other methods, which are all "POST" here,
\* and paths under /auth ("auth"), paths that hold "/export" or
\* "/tenant/data-export" ("export") and "other" ones.

\* A tenant that is past due goes on writing.
HttpWriteAllowedMutant(t, method, path, role) ==
    \/ method = "GET"
    \/ path = "auth"
    \/ role # "READ_ONLY" /\ (gate[t].writeLocked => path = "export")
HttpWriteAllowed(t, method, path, role) ==
    \/ method = "GET"
    \/ path = "auth"
    \/ role # "READ_ONLY" /\ (Locked(t) => path = "export")

\* assertCanWrite: without the exceptions for the method and the path.
CanWrite(t, role) == role # "READ_ONLY" /\ ~Locked(t)

OpenGates == [t \in Tenants |-> [status |-> "ACTIVE", writeLocked |-> FALSE]]

\* PATCH /tenant/subscription-gate; the handler itself asks nothing.
UpdateSubscriptionGate(t, role, g) ==
    /\ HttpWriteAllowed(t, "POST", "other", role)
    /\ gate' = [gate EXCEPT ![t] = g]
=============================================================================
