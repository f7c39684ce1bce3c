---------------------------- MODULE Marketplace -----------------------------
(***************************************************************************)
(* The registry of signed skills and the marketplace that sells them, over *)
(* the money tables of Billing.  A signature is the public key it verifies *)
(* with.  A version is named by its unique key (publisher, skill, version) *)
(* and may be submitted more than once, signed with different keys.        *)
(*                                                                         *)
(* Publishing reads the publisher's profile without a lock and inserts the *)
(* version in a later statement; a change of the profile may be committed  *)
(* between.  Every other transaction here is one step: a unique key makes  *)
(* one of two inserts of a profile or a listing a refusal, and purchases   *)
(* are serial by Billing.  The audit event of a change is a transaction of *)
(* its own after the commit, and a crash may come first.                   *)
(***************************************************************************)
EXTENDS Billing

CONSTANTS Versions, PublicKeys, NoPublicKey,
          PublisherOf,    \* the tenant that publishes a version
          VersionOf       \* the version a listing sells

ASSUME MarketAssumption ==
    /\ PublisherOf \in [Versions -> Tenants]
    /\ VersionOf \in [Listings -> Versions]
    /\ \A l \in Listings : Seller[l] = PublisherOf[VersionOf[l]]
    /\ NoPublicKey \notin PublicKeys

VARIABLES
    profile,       \* publishers.ed25519_public_key_pem
    submitted,     \* verified submissions not inserted yet: version, signature, key read
    stored,        \* private_skill_versions: signature_b64, publisher_public_key_pem
    listed,        \* marketplace_listings
    granted,       \* private_skill_grants
    unaudited,     \* changes whose handler has still to record them
    audit          \* audit_events

registry == <<profile, submitted, stored>>
mvars == <<vars, registry, listed, granted, unaudited, audit>>

Publishers == {PublisherOf[v] : v \in Versions}
NotStored == [signature |-> NoPublicKey, key |-> NoPublicKey]

MarketInit ==
    /\ Init
    /\ profile = [t \in Tenants |-> NoPublicKey]
    /\ submitted = {}
    /\ stored = [v \in Versions |-> NotStored]
    /\ listed = {} /\ granted = {} /\ unaudited = {} /\ audit = {}

Changed(change) == unaudited' = unaudited \cup {change} /\ UNCHANGED audit

-----------------------------------------------------------------------------
CreateOrUpdatePublisher(t, key) ==
    /\ profile' = [profile EXCEPT ![t] = key]
    /\ Changed(<<"publisher.updated", t>>)
    /\ UNCHANGED <<vars, submitted, stored, listed, granted>>

\* The signature is verified with the key of the profile as it is read.
VerifySubmission(v, signature) ==
    /\ signature = profile[PublisherOf[v]]
    /\ submitted' = submitted \cup {<<v, signature, profile[PublisherOf[v]]>>}
    /\ UNCHANGED <<vars, profile, stored, listed, granted, unaudited, audit>>

SnapshotLate(v, read) == profile[PublisherOf[v]]    \* mutation
Snapshot(v, read) == read

\* The row replaces nothing: the unique key refuses a second one.
Replaces(v) == TRUE    \* mutation
IsNewVersion(v) == stored[v] = NotStored

InsertVersion(v, signature, read) ==
    /\ <<v, signature, read>> \in submitted
    /\ submitted' = submitted \ {<<v, signature, read>>}
    /\ IF IsNewVersion(v)
       THEN /\ stored' = [stored EXCEPT ![v] =
                   [signature |-> signature, key |-> Snapshot(v, read)]]
            /\ Changed(<<"private_skill.published", v, signature>>)
       ELSE UNCHANGED <<stored, unaudited, audit>>
    /\ UNCHANGED <<vars, profile, listed, granted>>

\* One listing of a version, by its publisher; the tenant is the caller.
CreateListing(t, l) ==
    /\ PublisherOf[VersionOf[l]] = t
    /\ stored[VersionOf[l]] # NotStored
    /\ \A m \in listed : VersionOf[m] # VersionOf[l]
    /\ listed' = listed \cup {l}
    /\ Changed(<<"marketplace.listing_created", t, l>>)
    /\ UNCHANGED <<vars, registry, granted>>

Pay(e) ==
    /\ ProcessVerifiedPayment(e, "verified")
    /\ UNCHANGED <<registry, listed, granted, unaudited, audit>>

\* ON CONFLICT DO NOTHING: one grant however often a version is bought.
Purchase(t, key, l) ==
    /\ l \in listed
    /\ PurchaseListing(t, key, l)
    /\ granted' = granted \cup {<<t, VersionOf[l]>>}
    /\ Changed(<<"marketplace.purchased", <<t, key>>, l>>)
    /\ UNCHANGED <<registry, listed>>

GrantsRequested(t, l) == granted \cup {<<t, VersionOf[l]>>}    \* mutation
ReplayGrants(t, l) == granted

\* A key used before is answered before the listing is looked at.
ReplayPurchase(t, key, l) ==
    /\ purchase[<<t, key>>] # NoListing
    /\ granted' = ReplayGrants(t, l)
    /\ UNCHANGED <<vars, registry, listed, unaudited, audit>>

RecordAudit(change) ==
    /\ change \in unaudited
    /\ unaudited' = unaudited \ {change}
    /\ audit' = audit \cup {change}
    /\ UNCHANGED <<vars, registry, listed, granted>>

\* The API process dies between two of its transactions or statements.
Crash ==
    /\ unaudited' = {}
    /\ submitted' = {}
    /\ UNCHANGED <<vars, profile, stored, listed, granted, audit>>

MarketNext ==
    \/ \E t \in Publishers, key \in PublicKeys : CreateOrUpdatePublisher(t, key)
    \/ \E v \in Versions, key \in PublicKeys : VerifySubmission(v, key)
    \/ \E s \in submitted : InsertVersion(s[1], s[2], s[3])
    \/ \E t \in Tenants, l \in Listings : CreateListing(t, l)
    \/ \E e \in Events : Pay(e)
    \/ \E t \in Tenants, key \in PurchaseKeys, l \in Listings :
          Purchase(t, key, l) \/ ReplayPurchase(t, key, l)
    \/ \E change \in unaudited : RecordAudit(change)
    \/ Crash

MarketSpec == MarketInit /\ [][MarketNext]_mvars

-----------------------------------------------------------------------------
VerifySkillVersion(v) == stored[v].signature = stored[v].key

Sales(t) == {p \in Purchases : purchase[p] # NoListing /\ Seller[purchase[p]] = t}

EarnedGross(t) ==    \* mutation
    Total([p \in Purchases |-> IF p \in Sales(t) THEN Price[purchase[p]] ELSE 0])

PublisherEarnings(t) ==
    Total([p \in Purchases |-> IF p \in Sales(t) THEN PublisherCredits(purchase[p]) ELSE 0])

MarketTypeOK ==
    /\ TypeOK
    /\ profile \in [Tenants -> PublicKeys \cup {NoPublicKey}]
    /\ submitted \subseteq Versions \X PublicKeys \X PublicKeys
    /\ stored \in [Versions -> [signature : PublicKeys \cup {NoPublicKey},
                                key : PublicKeys \cup {NoPublicKey}]]
    /\ listed \subseteq Listings
    /\ granted \subseteq Tenants \X Versions

\* A tenant is entitled to a version exactly when it paid for a listing of
\* it: a key replayed for another listing entitles to nothing new, and a
\* version bought is a version its publisher signed (marketplace.py:79-90,
\* 166-174).
EntitlementIsPaid ==
    /\ granted = {<<p[1], VersionOf[purchase[p]]>> :
                      p \in {q \in Purchases : purchase[q] # NoListing}}
    /\ \A g \in granted : stored[g[2]] # NotStored

\* Every version ever published still verifies, whatever its publisher has
\* done to its profile since or did while the version was being published
\* (registry.py:60-80, 89-104; docs/PRIVATE_REGISTRY.md:25-27).
HistoryVerifiable == \A v \in Versions : VerifySkillVersion(v)

\* What the marketplace tells a publisher it earned is what its wallet was
\* credited with (marketplace.py:129-165, 190-204).
EarningsAgree ==
    \A t \in Tenants : PublisherEarnings(t) = Total(RowsOf(t, {"marketplace_earning"}))

\* The audit log reports no publication, listing or purchase that did not
\* happen, whichever of two racing submissions won and whenever the API died
\* (registry.py:83-86, marketplace.py:177-180).
AuditTellsTruth ==
    \A change \in audit \cup unaudited :
        CASE change[1] = "private_skill.published" ->
                stored[change[2]].signature = change[3]
          [] change[1] = "marketplace.listing_created" ->
                change[3] \in listed /\ Seller[change[3]] = change[2]
          [] change[1] = "marketplace.purchased" -> purchase[change[2]] = change[3]
          [] OTHER -> profile[change[2]] # NoPublicKey
=============================================================================
