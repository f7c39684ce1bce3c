---------------------------- MODULE AccessProofs ----------------------------
(***************************************************************************)
(* Theorems of Access for every set of keys, requests and administrators,  *)
(* and every limit.                                                        *)
(*                                                                         *)
(* What the key properties rest on is AccessInv: a key that a request uses *)
(* or that a rotation has read exists, and a key that exists never stops   *)
(* existing.                                                               *)
(***************************************************************************)
EXTENDS Access, TLAPS

RequestsKnown ==
    /\ pc \in [Requests -> {"idle", "rehash", "act", "audit", "expire"}]
    /\ actor \in [Requests -> Keys \cup {NoKey}]
    /\ \A q \in Requests :
          pc[q] # "idle" => actor[q] \in Keys /\ key[actor[q]] # "none"

RotationKnown ==
    /\ rotation \in {"idle", "read", "done"}
    /\ keysRead \subseteq Keys
    /\ rotation = "read" => \A k \in keysRead : key[k] # "none"

ChangesKnown ==
    /\ change \in [Requests -> {"none", "created", "revoked"} \X (Keys \cup {NoKey})]
    /\ \A q \in Requests : change[q][1] # "none" => change[q][2] \in Keys

KeysTyped == key \in [Keys -> {"none", "active", "inactive"}]

AccessInv ==
    /\ KeysTyped
    /\ RequestsKnown
    /\ RotationKnown
    /\ ChangesKnown

-----------------------------------------------------------------------------
(* One step of any actor.                                                  *)

\* No step takes a key out of the table or brings a revoked one back.
KeysOnlyAge ==
    \A k \in Keys : /\ key[k] # "none" => key'[k] # "none"
                    /\ key[k] = "inactive" => key'[k] = "inactive"

\* The steps that leave api_keys as it is.
LEMMA KeysSame ==
    ASSUME AccessInv, key' = key
    PROVE  KeysTyped' /\ KeysOnlyAge
  BY DEF AccessInv, KeysTyped, KeysOnlyAge

LEMMA CreateKeys ==
    ASSUME AccessInv, NEW q \in Requests, NEW k \in Keys, CreateApiKey(q, k)
    PROVE  KeysTyped' /\ KeysOnlyAge /\ key'[k] # "none"
  BY DEF AccessInv, KeysTyped, KeysOnlyAge, CreateApiKey

LEMMA RevokeKeys ==
    ASSUME AccessInv, NEW q \in Requests, NEW k \in Keys, RevokeApiKey(q, k)
    PROVE  KeysTyped' /\ KeysOnlyAge /\ key'[k] = "inactive"
  BY DEF AccessInv, KeysTyped, KeysOnlyAge, RevokeApiKey, Exists

LEMMA RotateKeys ==
    ASSUME AccessInv, NEW new \in Keys, RotateCommits(new)
    PROVE  /\ KeysTyped' /\ KeysOnlyAge
           /\ \A k \in keysRead : key'[k] = "inactive"
<1>1. new \notin keysRead
  BY DEF AccessInv, RotationKnown, RotateCommits
<1>2. key' = [k \in Keys |-> IF k = new THEN "active"
                             ELSE IF k \in keysRead THEN "inactive" ELSE key[k]]
  BY DEF RotateCommits, Deactivated
<1>3. key[new] = "none" /\ keysRead \subseteq Keys
  BY DEF AccessInv, RotationKnown, RotateCommits
<1> QED
  BY <1>1, <1>2, <1>3 DEF AccessInv, KeysTyped, KeysOnlyAge

LEMMA StepKeys ==
    ASSUME AccessInv, [AccessNext]_accessVars
    PROVE  KeysTyped' /\ KeysOnlyAge
<1>1. CASE key' = key
  BY <1>1, KeysSame
<1>2. ASSUME NEW q \in Requests, NEW k \in Keys,
             Authenticate(q, k) \/ CreateApiKey(q, k) \/ RevokeApiKey(q, k)
      PROVE  KeysTyped' /\ KeysOnlyAge
  BY <1>1, <1>2, CreateKeys, RevokeKeys DEF Authenticate, keyVars
<1>3. ASSUME NEW q \in Requests,
             \/ CommitAuthentication(q) \/ RecordAudit(q)
             \/ CountRun(q) \/ SetExpiry(q) \/ Crash(q)
      PROVE  KeysTyped' /\ KeysOnlyAge
  BY <1>1, <1>3
  DEF CommitAuthentication, Rehash, RecordAudit, CountRun, SetExpiry, Crash, keyVars
<1>4. CASE RotateReads \/ WindowEnds
  BY <1>1, <1>4 DEF RotateReads, WindowEnds, keyVars
<1>5. ASSUME NEW k \in Keys, RotateCommits(k)
      PROVE  KeysTyped' /\ KeysOnlyAge
  BY <1>5, RotateKeys
<1>6. ASSUME NEW a \in Admins,
             FlushSubscription(a) \/ \E s \in SubscriptionStatuses : LoadSubscription(a, s)
      PROVE  KeysTyped' /\ KeysOnlyAge
  BY <1>1, <1>6 DEF FlushSubscription, LoadSubscription, keyVars
<1>7. CASE UNCHANGED accessVars
  BY <1>1, <1>7 DEF accessVars, keyVars
<1> QED
  BY <1>2, <1>3, <1>4, <1>5, <1>6, <1>7 DEF AccessNext

\* What a step that only moves one request does to the rest of the invariant.
LEMMA EndsKnown ==
    ASSUME AccessInv, NEW q \in Requests, Ends(q), KeysOnlyAge
    PROVE  RequestsKnown' /\ ChangesKnown'
<1>1. RequestsKnown'
  BY DEF AccessInv, RequestsKnown, Ends, Go, KeysOnlyAge
<1>2. ChangesKnown'
  BY DEF AccessInv, ChangesKnown, Ends, NoChange
<1> QED
  BY <1>1, <1>2

LEMMA GoesOnKnown ==
    ASSUME AccessInv, KeysOnlyAge, NEW q \in Requests, pc[q] # "idle",
           NEW to \in {"rehash", "act", "audit", "expire"}, Go(q, to),
           actor' = actor, change' = change
    PROVE  RequestsKnown' /\ ChangesKnown'
<1>1. RequestsKnown'
  BY DEF AccessInv, RequestsKnown, Go, KeysOnlyAge
<1>2. ChangesKnown'
  BY DEF AccessInv, ChangesKnown
<1> QED
  BY <1>1, <1>2

LEMMA ChangesStep ==
    ASSUME AccessInv, KeysOnlyAge, NEW q \in Requests, NEW k \in Keys, pc[q] # "idle",
           NEW action \in {"created", "revoked"}, Changes(q, action, k)
    PROVE  RequestsKnown' /\ ChangesKnown' /\ RotationKnown'
<1>1. RequestsKnown'
  BY DEF AccessInv, RequestsKnown, Changes, Go, KeysOnlyAge
<1>2. ChangesKnown'
  BY DEF AccessInv, ChangesKnown, Changes
<1>3. RotationKnown'
  BY DEF AccessInv, RotationKnown, Changes, KeysOnlyAge
<1> QED
  BY <1>1, <1>2, <1>3

LEMMA RequestsSame ==
    ASSUME AccessInv, KeysOnlyAge, UNCHANGED requestVars
    PROVE  RequestsKnown' /\ ChangesKnown'
<1>1. RequestsKnown'
  BY DEF AccessInv, RequestsKnown, requestVars, KeysOnlyAge
<1>2. ChangesKnown'
  BY DEF AccessInv, ChangesKnown, requestVars
<1> QED
  BY <1>1, <1>2

LEMMA RotationSame ==
    ASSUME AccessInv, KeysOnlyAge, UNCHANGED <<rotation, keysRead>>
    PROVE  RotationKnown'
  BY DEF AccessInv, RotationKnown, KeysOnlyAge

LEMMA StepInv ==
    ASSUME AccessInv, [AccessNext]_accessVars
    PROVE  AccessInv'
<1>1. KeysTyped' /\ KeysOnlyAge
  BY StepKeys
<1>2. ASSUME NEW q \in Requests, NEW k \in Keys, Authenticate(q, k)
      PROVE  RequestsKnown' /\ ChangesKnown' /\ RotationKnown'
  <2>1. RequestsKnown'
    BY <1>1, <1>2
    DEF AccessInv, RequestsKnown, Authenticate, Authenticates, Go, KeysOnlyAge
  <2>2. ChangesKnown'
    BY <1>2 DEF AccessInv, ChangesKnown, Authenticate
  <2> QED
    BY <1>1, <1>2, <2>1, <2>2, RotationSame DEF Authenticate, keyVars
<1>3. ASSUME NEW q \in Requests, NEW k \in Keys, CreateApiKey(q, k) \/ RevokeApiKey(q, k)
      PROVE  RequestsKnown' /\ ChangesKnown' /\ RotationKnown'
  BY <1>1, <1>3, ChangesStep DEF CreateApiKey, RevokeApiKey
<1>4. ASSUME NEW q \in Requests,
             CommitAuthentication(q) \/ RecordAudit(q) \/ CountRun(q) \/ SetExpiry(q) \/ Crash(q)
      PROVE  RequestsKnown' /\ ChangesKnown' /\ RotationKnown'
  <2>1. RotationKnown'
    BY <1>1, <1>4, RotationSame
    DEF CommitAuthentication, RecordAudit, CountRun, SetExpiry, Crash, keyVars
  <2>2. CASE CommitAuthentication(q)
    BY <1>1, <2>1, <2>2, GoesOnKnown DEF CommitAuthentication
  <2>3. CASE RecordAudit(q) \/ SetExpiry(q) \/ Crash(q)
    BY <1>1, <2>1, <2>3, EndsKnown DEF RecordAudit, SetExpiry, Crash
  <2>4. CASE CountRun(q)
    <3>1. pc[q] # "idle"
      BY <2>4 DEF CountRun
    <3> QED
      BY <1>1, <2>1, <2>4, <3>1, GoesOnKnown, EndsKnown DEF CountRun
  <2> QED
    BY <1>4, <2>2, <2>3, <2>4
<1>5. CASE RotateReads
  <2>1. RotationKnown'
    BY <1>1, <1>5 DEF RotationKnown, RotateReads
  <2> QED
    BY <1>1, <1>5, <2>1, RequestsSame DEF RotateReads, AccessInv
<1>6. ASSUME NEW k \in Keys, RotateCommits(k)
      PROVE  RequestsKnown' /\ ChangesKnown' /\ RotationKnown'
  <2>1. RotationKnown'
    BY <1>6 DEF AccessInv, RotationKnown, RotateCommits
  <2> QED
    BY <1>1, <1>6, <2>1, RequestsSame DEF RotateCommits
<1>7. ASSUME NEW a \in Admins,
             FlushSubscription(a) \/ \E s \in SubscriptionStatuses : LoadSubscription(a, s)
      PROVE  RequestsKnown' /\ ChangesKnown' /\ RotationKnown'
  BY <1>1, <1>7, RequestsSame, RotationSame
  DEF FlushSubscription, LoadSubscription, keyVars
<1>8. CASE WindowEnds \/ UNCHANGED accessVars
  <2>1. key' = key /\ UNCHANGED <<rotation, keysRead>> /\ UNCHANGED requestVars
    BY <1>8 DEF WindowEnds, accessVars, keyVars
  <2> QED
    BY <1>1, <2>1, RequestsSame, RotationSame DEF AccessInv
<1> QED
  BY <1>1, <1>2, <1>3, <1>4, <1>5, <1>6, <1>7, <1>8 DEF AccessNext, AccessInv

LEMMA InitInv == AccessInit => AccessInv
<1> SUFFICES ASSUME AccessInit PROVE AccessInv
  OBVIOUS
<1>1. KeysTyped
  BY DEF AccessInit, KeysTyped
<1>2. RequestsKnown
  BY DEF AccessInit, RequestsKnown
<1>3. RotationKnown
  BY DEF AccessInit, RotationKnown
<1>4. ChangesKnown
  BY DEF AccessInit, ChangesKnown, NoChange
<1> QED
  BY <1>1, <1>2, <1>3, <1>4 DEF AccessInv

LEMMA AlwaysInv == AccessSpec => []AccessInv
<1>1. AccessInv /\ [AccessNext]_accessVars => AccessInv'
  BY StepInv
<1> QED
  BY <1>1, InitInv, PTL DEF AccessSpec

-----------------------------------------------------------------------------
(* Type correctness.                                                       *)

LoadedTyped ==
    loaded \in [Admins -> {NotLoaded} \cup
        [status : SubscriptionStatuses, tenant : {"active", "suspended"},
         subscription : SubscriptionStatuses \cup {"none"}]]

TenantTyped ==
    /\ tenant \in {"active", "suspended"}
    /\ subscription \in SubscriptionStatuses \cup {"none"}
    /\ LoadedTyped

LimiterTyped == count \in 0 .. Limit + 1 /\ expires \in BOOLEAN

LEMMA TenantStep ==
    ASSUME TenantTyped, [AccessNext]_accessVars
    PROVE  TenantTyped'
<1>1. CASE UNCHANGED tenantVars
  BY <1>1 DEF tenantVars, TenantTyped, LoadedTyped
<1>2. ASSUME NEW a \in Admins, NEW s \in SubscriptionStatuses, LoadSubscription(a, s)
      PROVE  TenantTyped'
  BY <1>2 DEF LoadSubscription, TenantTyped, LoadedTyped
<1>3. ASSUME NEW a \in Admins, FlushSubscription(a)
      PROVE  TenantTyped'
  <2>1. loaded[a].status \in SubscriptionStatuses /\ LoadedTyped'
    BY <1>3 DEF FlushSubscription, TenantTyped, LoadedTyped
  <2>2. /\ subscription' \in SubscriptionStatuses \cup {"none"}
        /\ tenant' \in {"active", "suspended"}
    BY <1>3, <2>1 DEF FlushSubscription, TenantTyped, Emitted, TenantStatus
  <2> QED
    BY <2>1, <2>2 DEF TenantTyped
<1>4. ASSUME NEW q \in Requests, NEW k \in Keys,
             Authenticate(q, k) \/ CreateApiKey(q, k) \/ RevokeApiKey(q, k)
      PROVE  TenantTyped'
  BY <1>1, <1>4 DEF Authenticate, CreateApiKey, RevokeApiKey, Changes
<1>5. ASSUME NEW q \in Requests,
             CommitAuthentication(q) \/ RecordAudit(q) \/ CountRun(q) \/ SetExpiry(q) \/ Crash(q)
      PROVE  TenantTyped'
  BY <1>1, <1>5 DEF CommitAuthentication, RecordAudit, CountRun, SetExpiry, Crash
<1>6. CASE RotateReads \/ WindowEnds \/ (\E k \in Keys : RotateCommits(k))
           \/ UNCHANGED accessVars
  BY <1>1, <1>6 DEF RotateReads, WindowEnds, RotateCommits, accessVars
<1> QED
  BY <1>2, <1>3, <1>4, <1>5, <1>6 DEF AccessNext

LEMMA LimiterStep ==
    ASSUME LimiterTyped, [AccessNext]_accessVars
    PROVE  LimiterTyped'
<1>1. CASE UNCHANGED limiter
  BY <1>1 DEF limiter, LimiterTyped
<1>2. ASSUME NEW q \in Requests, CountRun(q)
      PROVE  LimiterTyped'
  BY <1>2, AccessAssumption DEF CountRun, LimiterTyped
<1>3. ASSUME NEW q \in Requests, SetExpiry(q)
      PROVE  LimiterTyped'
  BY <1>3 DEF SetExpiry, IsCounting, LimiterTyped
<1>4. CASE WindowEnds
  <2>1. count' = 0 /\ expires' = FALSE
    BY <1>4 DEF WindowEnds
  <2>2. count' \in 0 .. Limit + 1
    BY <2>1, AccessAssumption
  <2> QED
    BY <2>1, <2>2, Zenon DEF LimiterTyped
<1>5. ASSUME NEW q \in Requests, NEW k \in Keys,
             Authenticate(q, k) \/ CreateApiKey(q, k) \/ RevokeApiKey(q, k)
      PROVE  LimiterTyped'
  BY <1>1, <1>5 DEF Authenticate, CreateApiKey, RevokeApiKey, Changes
<1>6. ASSUME NEW q \in Requests, CommitAuthentication(q) \/ RecordAudit(q) \/ Crash(q)
      PROVE  LimiterTyped'
  BY <1>1, <1>6 DEF CommitAuthentication, RecordAudit, Crash
<1>7. ASSUME NEW a \in Admins,
             FlushSubscription(a) \/ \E s \in SubscriptionStatuses : LoadSubscription(a, s)
      PROVE  LimiterTyped'
  BY <1>1, <1>7 DEF FlushSubscription, LoadSubscription
<1>8. CASE RotateReads \/ (\E k \in Keys : RotateCommits(k)) \/ UNCHANGED accessVars
  BY <1>1, <1>8 DEF RotateReads, RotateCommits, accessVars
<1> QED
  BY <1>2, <1>3, <1>4, <1>5, <1>6, <1>7, <1>8 DEF AccessNext

\* The table of keys, the rotation, the tenant's status, the counter and the
\* requests have their types for every instance; in particular a tenant is
\* active or suspended, whatever the status of its subscription
\* (key_service.py, commercial.py:78-96, rate_limit.py:9-16).
THEOREM AccessTypeCorrect == AccessSpec => []AccessTypeOK
<1>1. AccessInit => TenantTyped /\ LimiterTyped
  <2> SUFFICES ASSUME AccessInit PROVE TenantTyped /\ LimiterTyped
    OBVIOUS
  <2>1. TenantTyped
    BY DEF AccessInit, TenantTyped, LoadedTyped
  <2>2. count = 0 /\ expires = FALSE /\ count \in 0 .. Limit + 1
    BY AccessAssumption DEF AccessInit
  <2>3. LimiterTyped
    BY <2>2, Zenon DEF LimiterTyped
  <2> QED
    BY <2>1, <2>3
<1>2. TenantTyped /\ LimiterTyped /\ [AccessNext]_accessVars
        => TenantTyped' /\ LimiterTyped'
  BY TenantStep, LimiterStep
<1>3. AccessInv /\ TenantTyped /\ LimiterTyped => AccessTypeOK
  BY DEF AccessInv, KeysTyped, RequestsKnown, RotationKnown, TenantTyped,
         LimiterTyped, AccessTypeOK
<1> QED
  BY <1>1, <1>2, <1>3, AlwaysInv, PTL DEF AccessSpec

-----------------------------------------------------------------------------
\* No request, rotation or administrator ever brings a revoked key back, for
\* any number of keys and of requests in flight (auth.py:44-45,
\* key_service.py:159-167).
THEOREM RevokedForEver == AccessSpec => RevocationIsFinal
<1>1. AccessInv /\ [AccessNext]_accessVars =>
        [\A k \in Keys : key[k] = "inactive" => key'[k] = "inactive"]_accessVars
  BY StepKeys DEF KeysOnlyAge
<1> QED
  BY <1>1, AlwaysInv, PTL DEF AccessSpec, RevocationIsFinal

LEMMA RotationStep ==
    ASSUME AccessInv, RotationCutsOff, [AccessNext]_accessVars
    PROVE  RotationCutsOff'
<1>1. KeysOnlyAge
  BY StepKeys
<1>2. CASE UNCHANGED <<rotation, keysRead>>
  BY <1>1, <1>2 DEF RotationCutsOff, KeysOnlyAge, AccessInv, RotationKnown
<1>3. CASE RotateReads
  BY <1>3 DEF RotateReads, RotationCutsOff
<1>4. ASSUME NEW new \in Keys, RotateCommits(new)
      PROVE  RotationCutsOff'
  BY <1>4, RotateKeys DEF RotationCutsOff, RotateCommits
<1>5. ASSUME NEW q \in Requests, NEW k \in Keys,
             Authenticate(q, k) \/ CreateApiKey(q, k) \/ RevokeApiKey(q, k)
      PROVE  RotationCutsOff'
  BY <1>2, <1>5 DEF Authenticate, CreateApiKey, RevokeApiKey, Changes, keyVars
<1>6. ASSUME NEW q \in Requests,
             CommitAuthentication(q) \/ RecordAudit(q) \/ CountRun(q) \/ SetExpiry(q) \/ Crash(q)
      PROVE  RotationCutsOff'
  BY <1>2, <1>6
  DEF CommitAuthentication, RecordAudit, CountRun, SetExpiry, Crash, keyVars
<1>7. ASSUME NEW a \in Admins,
             FlushSubscription(a) \/ \E s \in SubscriptionStatuses : LoadSubscription(a, s)
      PROVE  RotationCutsOff'
  BY <1>2, <1>7 DEF FlushSubscription, LoadSubscription, keyVars
<1>8. CASE WindowEnds \/ UNCHANGED accessVars
  BY <1>2, <1>8 DEF WindowEnds, accessVars, keyVars
<1> QED
  BY <1>3, <1>4, <1>5, <1>6, <1>7, <1>8 DEF AccessNext

\* Every key a rotation read is cut off when it is done, and stays so,
\* whatever was created, revoked or authenticated between its read and its
\* commit (admin.py:52-64).
THEOREM RotationComplete == AccessSpec => []RotationCutsOff
<1>1. AccessInit => RotationCutsOff
  BY DEF AccessInit, RotationCutsOff
<1>2. AccessInv /\ RotationCutsOff /\ [AccessNext]_accessVars => RotationCutsOff'
  BY RotationStep
<1> QED
  BY <1>1, <1>2, AlwaysInv, PTL DEF AccessSpec

-----------------------------------------------------------------------------
LEMMA AuditStep ==
    ASSUME AccessInv, KeyAuditTellsTruth, [AccessNext]_accessVars
    PROVE  KeyAuditTellsTruth'
<1>1. KeysOnlyAge
  BY StepKeys
<1>2. CASE change' = change
  BY <1>1, <1>2 DEF KeyAuditTellsTruth, KeysOnlyAge, AccessInv, ChangesKnown
<1>3. ASSUME NEW q \in Requests, Ends(q)
      PROVE  KeyAuditTellsTruth'
  <2>1. \A p \in Requests : change'[p] = change[p] \/ change'[p] = NoChange
    BY <1>3 DEF Ends, AccessInv, ChangesKnown
  <2> QED
    BY <1>1, <2>1 DEF KeyAuditTellsTruth, KeysOnlyAge, AccessInv, ChangesKnown, NoChange
<1>4. ASSUME NEW q \in Requests, NEW k \in Keys, CreateApiKey(q, k) \/ RevokeApiKey(q, k)
      PROVE  KeyAuditTellsTruth'
  <2>1. \A p \in Requests : \/ change'[p] = change[p]
                            \/ change'[p] = <<"created", k>> /\ key'[k] # "none"
                            \/ change'[p] = <<"revoked", k>> /\ key'[k] = "inactive"
    BY <1>4, CreateKeys, RevokeKeys
    DEF CreateApiKey, RevokeApiKey, Changes, AccessInv, ChangesKnown
  <2> QED
    BY <1>1, <2>1 DEF KeyAuditTellsTruth, KeysOnlyAge, AccessInv, ChangesKnown
<1>5. ASSUME NEW q \in Requests,
             CommitAuthentication(q) \/ RecordAudit(q) \/ CountRun(q) \/ SetExpiry(q) \/ Crash(q)
      PROVE  KeyAuditTellsTruth'
  BY <1>2, <1>3, <1>5 DEF CommitAuthentication, RecordAudit, CountRun, SetExpiry, Crash
<1>6. ASSUME NEW q \in Requests, NEW k \in Keys, Authenticate(q, k)
      PROVE  KeyAuditTellsTruth'
  BY <1>2, <1>6 DEF Authenticate
<1>7. ASSUME NEW a \in Admins,
             FlushSubscription(a) \/ \E s \in SubscriptionStatuses : LoadSubscription(a, s)
      PROVE  KeyAuditTellsTruth'
  BY <1>2, <1>7 DEF FlushSubscription, LoadSubscription, requestVars
<1>8. CASE RotateReads \/ WindowEnds \/ (\E k \in Keys : RotateCommits(k))
           \/ UNCHANGED accessVars
  BY <1>2, <1>8 DEF RotateReads, WindowEnds, RotateCommits, accessVars, requestVars
<1> QED
  BY <1>4, <1>5, <1>6, <1>7, <1>8 DEF AccessNext

\* When the audit event of a revocation is written, some transactions after
\* the revocation, the key is still revoked; and a key reported as created
\* exists (key_service.py:114-126, 171-179).
THEOREM AuditOfKeysIsTrue == AccessSpec => []KeyAuditTellsTruth
<1>1. AccessInit => KeyAuditTellsTruth
  BY DEF AccessInit, KeyAuditTellsTruth, NoChange
<1>2. AccessInv /\ KeyAuditTellsTruth /\ [AccessNext]_accessVars => KeyAuditTellsTruth'
  BY AuditStep
<1> QED
  BY <1>1, <1>2, AlwaysInv, PTL DEF AccessSpec

-----------------------------------------------------------------------------
SomeActive == \E k \in Keys : key[k] = "active"

RevokedInFlight == \E q \in Requests : pc[q] = "act" /\ key[actor[q]] = "inactive"

LEMMA LastKeyStep ==
    ASSUME AccessInv, [AccessNext]_accessVars, SomeActive, ~SomeActive'
    PROVE  RevokedInFlight
<1>1. CASE key' = key
  BY <1>1 DEF SomeActive
<1>2. ASSUME NEW q \in Requests, NEW k \in Keys, CreateApiKey(q, k)
      PROVE  FALSE
  BY <1>2 DEF CreateApiKey, SomeActive, AccessInv, KeysTyped
<1>3. ASSUME NEW q \in Requests, NEW k \in Keys, RevokeApiKey(q, k)
      PROVE  RevokedInFlight
  <2>1. pc[q] = "act" /\ actor[q] \in Keys /\ key[actor[q]] # "none"
    BY <1>3 DEF RevokeApiKey, AccessInv, RequestsKnown
  <2>2. key'[actor[q]] = key[actor[q]]
    BY <1>3, <2>1 DEF RevokeApiKey, IsOther, AccessInv, KeysTyped
  <2>3. key[actor[q]] = "inactive"
    BY <2>1, <2>2 DEF SomeActive, AccessInv, KeysTyped
  <2> QED
    BY <2>1, <2>3 DEF RevokedInFlight
<1>4. ASSUME NEW new \in Keys, RotateCommits(new)
      PROVE  FALSE
  BY <1>4 DEF RotateCommits, SomeActive
<1>5. ASSUME NEW q \in Requests,
             \/ CommitAuthentication(q) \/ RecordAudit(q)
             \/ CountRun(q) \/ SetExpiry(q) \/ Crash(q)
      PROVE  RevokedInFlight
  BY <1>1, <1>5
  DEF CommitAuthentication, Rehash, RecordAudit, CountRun, SetExpiry, Crash, keyVars
<1>6. ASSUME NEW q \in Requests, NEW k \in Keys, Authenticate(q, k)
      PROVE  RevokedInFlight
  BY <1>1, <1>6 DEF Authenticate, keyVars
<1>7. ASSUME NEW a \in Admins,
             FlushSubscription(a) \/ \E s \in SubscriptionStatuses : LoadSubscription(a, s)
      PROVE  RevokedInFlight
  BY <1>1, <1>7 DEF FlushSubscription, LoadSubscription, keyVars
<1>8. CASE RotateReads \/ WindowEnds \/ UNCHANGED accessVars
  BY <1>1, <1>8 DEF RotateReads, WindowEnds, accessVars, keyVars
<1> QED
  BY <1>2, <1>3, <1>4, <1>5, <1>6, <1>7, <1>8 DEF AccessNext

\* Only a request whose own key was revoked while it was served can take a
\* tenant's last key, however many keys and requests there are
\* (key_service.py:156-167).
THEOREM NoKeyAloneLocksOut == AccessSpec => LastKeyFallsInFlight
<1>1. AccessInv /\ [AccessNext]_accessVars =>
        [(\E k \in Keys : key[k] = "active") /\ (\A k \in Keys : key'[k] # "active") =>
            \E q \in Requests : pc[q] = "act" /\ key[actor[q]] = "inactive"]_accessVars
  BY LastKeyStep DEF SomeActive, RevokedInFlight
<1> QED
  BY <1>1, AlwaysInv, PTL DEF AccessSpec, LastKeyFallsInFlight
=============================================================================
