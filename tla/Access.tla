------------------------------- MODULE Access -------------------------------
(***************************************************************************)
(* Who may act for a tenant: its API keys and service accounts, its        *)
(* status, set with its subscription, and the rate limit of its runs in    *)
(* Redis.  One tenant: no transaction here touches two.                    *)
(*                                                                         *)
(* Nothing but a revocation locks a row.  A request authenticates in one   *)
(* transaction and acts in later ones, rotate_api_key and set_subscription *)
(* read in one statement and write in another, and the audit event of a    *)
(* change is written after its commit.  A process may die between any two  *)
(* steps; requests, administrators and the counter go on for ever.         *)
(***************************************************************************)
EXTENDS Naturals

CONSTANTS Keys, FirstKey, NoKey,
          Requests,
          Admins,
          SubscriptionStatuses,   \* those an administrator sets here
          Limit                   \* zomega_rate_limit_per_minute

ASSUME AccessAssumption ==
    /\ FirstKey \in Keys /\ NoKey \notin Keys
    /\ SubscriptionStatuses \subseteq
          {"active", "trialing", "past_due", "paused", "cancelled"}
    /\ Limit \in Nat

VARIABLES
    key,                    \* api_keys.active
    rotation, keysRead,     \* rotate_api_key: how far it is, what it read
    tenant, subscription,   \* tenants.status, subscriptions.status
    loaded,                 \* by each administrator, with the status it sets
    count, expires,         \* the Redis counter and whether it has an expiry
    pc, actor,              \* of each request; actor is its key
    change                  \* the audit event it has to write: action and key

keyVars == <<key, rotation, keysRead>>
tenantVars == <<tenant, subscription, loaded>>
limiter == <<count, expires>>
requestVars == <<pc, actor, change>>
accessVars == <<keyVars, tenantVars, limiter, requestVars>>

NotLoaded == [status |-> "none", tenant |-> "none", subscription |-> "none"]
NoChange == <<"none", NoKey>>

\* create_tenant makes an active tenant with one key and no subscription.
AccessInit ==
    /\ key = [k \in Keys |-> IF k = FirstKey THEN "active" ELSE "none"]
    /\ rotation = "idle" /\ keysRead = {}
    /\ tenant = "active" /\ subscription = "none"
    /\ loaded = [a \in Admins |-> NotLoaded]
    /\ count = 0 /\ expires = FALSE
    /\ pc = [q \in Requests |-> "idle"]
    /\ actor = [q \in Requests |-> NoKey]
    /\ change = [q \in Requests |-> NoChange]

Authenticates(k) == tenant = "active" /\ key[k] = "active"

Go(q, to) == pc' = [pc EXCEPT ![q] = to]

\* A request is answered, or its process dies.
Ends(q) ==
    /\ Go(q, "idle")
    /\ actor' = [actor EXCEPT ![q] = NoKey]
    /\ change' = [change EXCEPT ![q] = NoChange]

-----------------------------------------------------------------------------
Authenticate(q, k) ==
    /\ pc[q] = "idle"
    /\ Authenticates(k)
    /\ Go(q, "rehash")
    /\ actor' = [actor EXCEPT ![q] = k]
    /\ UNCHANGED <<keyVars, tenantVars, limiter, change>>

\* The session writes the digest of a key that needs a rehash, and nothing
\* else of the row it read.
RehashWholeRow(k) == [key EXCEPT ![k] = "active"]    \* mutation
Rehash(k) == key

CommitAuthentication(q) ==
    /\ pc[q] = "rehash"
    /\ key' = Rehash(actor[q])
    /\ Go(q, "act")
    /\ UNCHANGED <<rotation, keysRead, tenantVars, limiter, actor, change>>

\* A change and the wish to record it.
Changes(q, action, k) ==
    /\ Go(q, "audit")
    /\ change' = [change EXCEPT ![q] = <<action, k>>]
    /\ UNCHANGED <<actor, rotation, keysRead, tenantVars, limiter>>

CreateApiKey(q, k) ==
    /\ pc[q] = "act"
    /\ key[k] = "none"
    /\ key' = [key EXCEPT ![k] = "active"]
    /\ Changes(q, "created", k)

AuditsAttempt(k) == TRUE    \* mutation
Exists(k) == key[k] # "none"

OwnKeyToo(q, k) == TRUE    \* mutation
IsOther(q, k) == k # actor[q]

RevokeApiKey(q, k) ==
    /\ pc[q] = "act"
    /\ IsOther(q, k)
    /\ Exists(k)
    /\ key' = [key EXCEPT ![k] = IF @ = "none" THEN @ ELSE "inactive"]
    /\ Changes(q, "revoked", k)

RecordAudit(q) ==
    /\ pc[q] = "audit"
    /\ Ends(q)
    /\ UNCHANGED <<keyVars, tenantVars, limiter>>

Crash(q) ==
    /\ pc[q] # "idle"
    /\ Ends(q)
    /\ UNCHANGED <<keyVars, tenantVars, limiter>>

-----------------------------------------------------------------------------
(***************************************************************************)
(* rotate_api_key, on the operator's command line.                         *)
(***************************************************************************)
RotateReads ==
    /\ rotation = "idle"
    /\ rotation' = "read"
    /\ keysRead' = {k \in Keys : key[k] # "none"}
    /\ UNCHANGED <<key, tenantVars, limiter, requestVars>>

KeepsFirst(k) == k \in keysRead \ {FirstKey}    \* mutation
Deactivated(k) == k \in keysRead

RotateCommits(new) ==
    /\ rotation = "read"
    /\ key[new] = "none"
    /\ rotation' = "done"
    /\ key' = [k \in Keys |-> IF k = new THEN "active"
                              ELSE IF Deactivated(k) THEN "inactive" ELSE key[k]]
    /\ UNCHANGED <<keysRead, tenantVars, limiter, requestVars>>

-----------------------------------------------------------------------------
(***************************************************************************)
(* set_subscription.                                                       *)
(***************************************************************************)
StatusCopied(status) == status    \* mutation
TenantStatus(status) == IF status \in {"active", "trialing"} THEN "active" ELSE "suspended"

LoadSubscription(a, status) ==
    /\ loaded[a] = NotLoaded
    /\ loaded' = [loaded EXCEPT ![a] =
           [status |-> status, tenant |-> tenant, subscription |-> subscription]]
    /\ UNCHANGED <<keyVars, tenant, subscription, limiter, requestVars>>

\* The session emits an UPDATE only for a column whose value differs from
\* the value it loaded.
Emitted(new, old, now) == IF new = old THEN now ELSE new

\* Of two first subscriptions, the unique key of the tenant refuses one.
FlushSubscription(a) ==
    LET l == loaded[a]
    IN  /\ l # NotLoaded
        /\ loaded' = [loaded EXCEPT ![a] = NotLoaded]
        /\ IF l.subscription = "none" /\ subscription # "none"
           THEN UNCHANGED <<tenant, subscription>>
           ELSE /\ subscription' = Emitted(l.status, l.subscription, subscription)
                /\ tenant' = Emitted(TenantStatus(l.status), l.tenant, tenant)
        /\ UNCHANGED <<keyVars, limiter, requestVars>>

-----------------------------------------------------------------------------
(***************************************************************************)
(* enforce, before a run is created.  INCR and TTL are one transaction of  *)
(* Redis, EXPIRE another command; the counter is kept up to Limit + 1.     *)
(***************************************************************************)
ExpiryOnFirst(q) == count = 0    \* mutation
NeedsExpiry(q) == ~expires

CountRun(q) ==
    /\ pc[q] = "act"
    /\ count' = IF count > Limit THEN count ELSE count + 1
    /\ IF NeedsExpiry(q) THEN Go(q, "expire") /\ UNCHANGED <<actor, change>> ELSE Ends(q)
    /\ UNCHANGED <<keyVars, tenantVars, expires>>

\* EXPIRE does nothing to a key that is gone.
IsCounting == count > 0

SetExpiry(q) ==
    /\ pc[q] = "expire"
    /\ expires' = IsCounting
    /\ Ends(q)
    /\ UNCHANGED <<keyVars, tenantVars, count>>

WindowEnds ==
    /\ expires
    /\ count' = 0 /\ expires' = FALSE
    /\ UNCHANGED <<keyVars, tenantVars, requestVars>>

AccessNext ==
    \/ \E q \in Requests, k \in Keys :
          Authenticate(q, k) \/ CreateApiKey(q, k) \/ RevokeApiKey(q, k)
    \/ \E q \in Requests :
          \/ CommitAuthentication(q) \/ RecordAudit(q)
          \/ CountRun(q) \/ SetExpiry(q) \/ Crash(q)
    \/ RotateReads
    \/ \E k \in Keys : RotateCommits(k)
    \/ \E a \in Admins :
          FlushSubscription(a) \/ \E s \in SubscriptionStatuses : LoadSubscription(a, s)
    \/ WindowEnds

(***************************************************************************)
(* While someone can authenticate, clients go on asking for runs; not all  *)
(* of them die each time before EXPIRE; and Redis expires keys.            *)
(***************************************************************************)
AccessSpec ==
    /\ AccessInit /\ [][AccessNext]_accessVars
    /\ SF_pc(\E q \in Requests, k \in Keys : Authenticate(q, k))
    /\ SF_pc(\E q \in Requests : CommitAuthentication(q))
    /\ SF_pc(\E q \in Requests : CountRun(q))
    /\ SF_pc(\E q \in Requests : SetExpiry(q))
    /\ WF_pc(\E q \in Requests : RecordAudit(q))
    /\ WF_count(WindowEnds)

-----------------------------------------------------------------------------
AccessTypeOK ==
    /\ key \in [Keys -> {"none", "active", "inactive"}]
    /\ rotation \in {"idle", "read", "done"} /\ keysRead \subseteq Keys
    /\ tenant \in {"active", "suspended"}
    /\ subscription \in SubscriptionStatuses \cup {"none"}
    /\ count \in 0 .. Limit + 1 /\ expires \in BOOLEAN
    /\ pc \in [Requests -> {"idle", "rehash", "act", "audit", "expire"}]
    /\ actor \in [Requests -> Keys \cup {NoKey}]

\* A key that was revoked or rotated away never authenticates again, although
\* requests it authenticated before still write its row (auth.py:44-45,
\* key_service.py:159-167).
RevocationIsFinal == [][\A k \in Keys : key[k] = "inactive" => key'[k] = "inactive"]_accessVars

\* Whatever runs beside it, a rotation cuts off every key it read; only a key
\* created after the read outlives it (admin.py:52-64).
RotationCutsOff == rotation = "done" => \A k \in keysRead : key[k] = "inactive"

\* A tenant loses its last key only to a request whose own key was revoked
\* while it was being served: two keys may revoke each other, but no key
\* alone locks its tenant out, and no rotation does (key_service.py:156-167).
LastKeyFallsInFlight ==
    [][(\E k \in Keys : key[k] = "active") /\ (\A k \in Keys : key'[k] # "active") =>
          \E q \in Requests : pc[q] = "act" /\ key[actor[q]] = "inactive"]_accessVars

\* When an audit event is written, in a transaction of its own after the
\* change, a key it reports as revoked still is, and one it reports as
\* created exists, whatever happened in between (key_service.py:114-126,
\* 171-179).
KeyAuditTellsTruth ==
    \A q \in Requests :
        LET k == change[q][2]
        IN  /\ change[q][1] = "revoked" => key[k] = "inactive"
            /\ change[q][1] = "created" => key[k] # "none"

\* A tenant over its limit does not stay over it, even if the process that
\* made the counter died before it set the expiry: as long as someone can
\* call, a later call sets it (rate_limit.py:9-16).
LimitedIsTemporary ==
    count > Limit ~> (count = 0 \/ ~ \E k \in Keys : Authenticates(k))

\* docs/COMMERCIAL.md:24: only active and trialing subscriptions leave the
\* tenant active.  Two administrators read without a lock, and each writes
\* only what it changes (commercial.py:78-96).
OnlyPaidSubscriptionsActive ==
    subscription # "none" /\ tenant = "active" => subscription \in {"active", "trialing"}
=============================================================================
