----------------------------- MODULE Admission ------------------------------
(***************************************************************************)
(* The admission of runs: idempotency keys, the tenant's controls and the  *)
(* quota of the calendar month, over the money tables of Billing.          *)
(*                                                                         *)
(* A request is named by the id its run would get.  Its transaction is one *)
(* step per statement where it matters (CheckRuns merges three), because   *)
(* READ COMMITTED gives each statement the data committed when it starts,  *)
(* and because the month may turn between them.  created is the            *)
(* transaction's now(), taken at its first statement; checked is the month *)
(* Python computes before it asks for the advisory lock of tenant and      *)
(* month.                                                                  *)
(***************************************************************************)
EXTENDS Billing

CONSTANTS Request,       \* key, agent, skill, amount, possible hashes of each request
          NoKey, NoRun,
          Controls,      \* what an administrator may set
          NoSkill, NoLimit,
          LastMonth      \* bound on the clock

ASSUME RequestAssumption ==
    /\ \A r \in Runs : Request[r].amount \in 1 .. MaxCredits
    /\ NoRun \notin Runs

\* A limit is absent or a number (tenant_controls' check constraints).
ASSUME ControlsAssumption ==
    \A c \in Controls : {c.runs, c.credits} \subseteq Nat \cup {NoLimit}
ASSUME MonthAssumption == LastMonth \in Nat \ {0}

\* No row admits what a row of defaults admits: get_control may insert one.
DefaultControl == [agents |-> {}, skills |-> {}, runs |-> NoLimit, credits |-> NoLimit]
Clients == {Owner[r] : r \in Runs}    \* the tenants that make requests
Keys == {Request[r].key : r \in Runs} \ {NoKey}
Months == 1 .. LastMonth

VARIABLES
    month,              \* the calendar
    control,            \* tenant_controls
    record,             \* idempotency_records.run_id by tenant and key
    body,               \* request hash of each request
    created, checked,   \* months of each request; 0 before
    chargedIn,          \* month of a run's charge row
    boughtIn,           \* month of a purchase's charge row
    pc, answer,
    limits, spent       \* locals of enforce_tenant_admission

clocks == <<chargedIn, boughtIn>>
locals == <<created, checked, limits, spent>>
avars == <<vars, month, control, record, clocks, body, locals, pc, answer>>

AdmissionInit ==
    /\ Init
    /\ month = 1
    /\ control = [t \in Tenants |-> DefaultControl]
    /\ record = [t \in Tenants |-> [k \in Keys |-> NoRun]]
    /\ created = [r \in Runs |-> 0]
    /\ checked = [r \in Runs |-> 0]
    /\ chargedIn = [r \in Runs |-> 0]
    /\ boughtIn = [p \in Purchases |-> 0]
    /\ body \in {b \in [Runs -> UNION {Request[r].bodies : r \in Runs}] :
                   \A r \in Runs : b[r] \in Request[r].bodies}
    /\ pc = [r \in Runs |-> "idle"]
    /\ answer = [r \in Runs |-> "none"]
    /\ limits = [r \in Runs |-> DefaultControl]
    /\ spent = [r \in Runs |-> 0]

Keyed(r) == Request[r].key # NoKey
SameKey(r, s) == Owner[r] = Owner[s] /\ Request[r].key = Request[s].key
Exists(r) == reservation[r].status # "none"

Go(r, to) == pc' = [pc EXCEPT ![r] = to]

\* The transaction is over, and with it what no run keeps.
Answer(r, a) ==
    /\ Go(r, "done")
    /\ answer' = [answer EXCEPT ![r] = a]
    /\ limits' = [limits EXCEPT ![r] = DefaultControl]
    /\ spent' = [spent EXCEPT ![r] = 0]
    /\ IF a = "created" THEN UNCHANGED <<created, checked>>
       ELSE /\ created' = [created EXCEPT ![r] = 0]
            /\ checked' = [checked EXCEPT ![r] = 0]

-----------------------------------------------------------------------------
(***************************************************************************)
(* The rest of the system, as admission sees it.                           *)
(***************************************************************************)
NextMonth ==
    /\ month < LastMonth
    /\ month' = month + 1
    /\ UNCHANGED <<vars, control, record, clocks, body, locals, pc, answer>>

SetControl(t, c) ==
    /\ control' = [control EXCEPT ![t] = c]
    /\ UNCHANGED <<vars, month, record, clocks, body, locals, pc, answer>>

Pay(e) ==
    /\ ProcessVerifiedPayment(e, "verified")
    /\ UNCHANGED <<month, control, record, clocks, body, locals, pc, answer>>

Settle(r, c) ==
    /\ SettleRun(r, c)
    /\ chargedIn' = [chargedIn EXCEPT ![r] = month]
    /\ UNCHANGED <<month, control, record, boughtIn, body, locals, pc, answer>>

Refund(r) ==
    /\ RefundRun(r)
    /\ UNCHANGED <<month, control, record, clocks, body, locals, pc, answer>>

Purchase(t, k, l) ==
    /\ PurchaseListing(t, k, l)
    /\ boughtIn' = [boughtIn EXCEPT ![<<t, k>>] = month]
    /\ UNCHANGED <<month, control, record, chargedIn, body, locals, pc, answer>>

-----------------------------------------------------------------------------
(***************************************************************************)
(* The advisory locks, held until the transaction ends.                    *)
(***************************************************************************)
HoldsKeyForEver(r) ==    \* mutation
    Keyed(r) /\ pc[r] \in {"quota", "spent", "open", "wallet", "done"}

HoldsKey(r) == Keyed(r) /\ pc[r] \in {"quota", "spent", "open", "wallet"}
HoldsQuota(r) == pc[r] \in {"spent", "open", "wallet"}

KeyIgnored(r) == TRUE    \* mutation
KeyFree(r) == \A s \in Runs \ {r} : SameKey(r, s) => ~HoldsKey(s)

QuotaUnlocked(r) == TRUE    \* mutation
QuotaFree(r) ==
    \A s \in Runs \ {r} :
        Owner[s] = Owner[r] /\ checked[s] = checked[r] => ~HoldsQuota(s)

(***************************************************************************)
(* The queries of enforce_tenant_admission: everything since a month began.*)
(***************************************************************************)
RunsSince(t, m) == Cardinality({r \in Runs : Owner[r] = t /\ Exists(r) /\ created[r] >= m})

SpentSince(t, m) ==
    Total([r \in Runs |-> IF Owner[r] = t /\ chargedIn[r] >= m
                          THEN reservation[r].settled_amount ELSE 0])
    + Total([p \in Purchases |-> IF p[1] = t /\ boughtIn[p] >= m
                                 THEN Price[purchase[p]] ELSE 0])

OpenSinceLast(t, m) ==    \* mutation
    Total([r \in Runs |-> IF Owner[r] = t /\ IsOpen(r) /\ created[r] > m
                          THEN reservation[r].amount ELSE 0])

OpenSince(t, m) ==
    Total([r \in Runs |-> IF Owner[r] = t /\ IsOpen(r) /\ created[r] >= m
                          THEN reservation[r].amount ELSE 0])

Permits(c, q) ==
    /\ c.agents = {} \/ q.agent \in c.agents
    /\ q.skill = NoSkill \/ c.skills = {} \/ q.skill \in c.skills

-----------------------------------------------------------------------------
(***************************************************************************)
(* _create_run.  With a key its first statement locks the key; without one *)
(* it locks the quota, of a month computed before.                         *)
(***************************************************************************)
Arrive(r) ==
    /\ pc[r] = "idle"
    /\ IF Keyed(r)
       THEN /\ created' = [created EXCEPT ![r] = month]
            /\ Go(r, "key")
            /\ UNCHANGED checked
       ELSE /\ checked' = [checked EXCEPT ![r] = month]
            /\ Go(r, "begin")
            /\ UNCHANGED created
    /\ UNCHANGED <<vars, month, control, record, clocks, body, limits, spent, answer>>

BeginUnkeyed(r) ==
    /\ pc[r] = "begin"
    /\ created' = [created EXCEPT ![r] = month]
    /\ Go(r, "quota")
    /\ UNCHANGED <<vars, month, control, record, clocks, body, checked, limits, spent, answer>>

ReplaysAnything(r, first) == TRUE    \* mutation
Replays(r, first) == body[first] = body[r]

LookUpKey(r) ==
    LET first == record[Owner[r]][Request[r].key]
    IN  /\ pc[r] = "key"
        /\ KeyFree(r)
        /\ IF first # NoRun
           THEN Answer(r, IF Replays(r, first) THEN "replayed" ELSE "conflict")
           ELSE /\ checked' = [checked EXCEPT ![r] = month]
                /\ Go(r, "quota")
                /\ UNCHANGED <<created, limits, spent, answer>>
        /\ UNCHANGED <<vars, month, control, record, clocks, body>>

\* The lock, the controls, the policy and the number of runs, three statements
\* in one step: no other request that holds this month's lock adds a run between
\* them, and a control set after the read is as good as set after the step.
CheckRuns(r) ==
    LET t == Owner[r]
        c == control[t]
    IN  /\ pc[r] = "quota"
        /\ QuotaFree(r)
        /\ IF /\ Permits(c, Request[r])
              /\ c.runs # NoLimit => RunsSince(t, checked[r]) < c.runs
           THEN /\ limits' = [limits EXCEPT ![r] = c]
                /\ Go(r, IF c.credits = NoLimit THEN "wallet" ELSE "spent")
                /\ UNCHANGED <<created, checked, spent, answer>>
           ELSE Answer(r, "refused")
        /\ UNCHANGED <<vars, month, control, record, clocks, body>>

ReadSpent(r) ==
    /\ pc[r] = "spent"
    /\ spent' = [spent EXCEPT ![r] = SpentSince(Owner[r], checked[r])]
    /\ Go(r, "open")
    /\ UNCHANGED <<vars, month, control, record, clocks, body, created, checked, limits, answer>>

CheckCredits(r) ==
    /\ pc[r] = "open"
    /\ IF spent[r] + OpenSince(Owner[r], checked[r]) + Request[r].amount <= limits[r].credits
       THEN Go(r, "wallet") /\ UNCHANGED <<locals, answer>>
       ELSE Answer(r, "refused")
    /\ UNCHANGED <<vars, month, control, record, clocks, body>>

\* The wallet is locked, checked and charged, the run, its reservation and
\* its idempotency record are inserted, and all of it is committed.  The
\* unique key of idempotency_records refuses a second record.
Admit(r) ==
    LET t == Owner[r]
        k == Request[r].key
    IN  /\ pc[r] = "wallet"
        /\ \/ /\ Keyed(r) => record[t][k] = NoRun
              /\ Reserve(r, Request[r].amount)
              /\ record' = IF Keyed(r) THEN [record EXCEPT ![t][k] = r] ELSE record
              /\ Answer(r, "created")
           \/ /\ ~Covers(t, Request[r].amount)
              /\ Answer(r, "refused")
              /\ UNCHANGED <<vars, record>>
           \/ /\ Keyed(r) /\ record[t][k] # NoRun
              /\ Answer(r, "failed")
              /\ UNCHANGED <<vars, record>>
        /\ UNCHANGED <<month, control, clocks, body>>

\* The API process dies and PostgreSQL rolls back.  (A process that dies
\* after the commit leaves a client without an answer, who asks again.)
Crash(r) ==
    /\ pc[r] \notin {"idle", "done"}
    /\ Answer(r, "none")
    /\ UNCHANGED <<vars, month, control, record, clocks, body>>

CreateRun(r) ==
    \/ BeginUnkeyed(r)
    \/ LookUpKey(r)
    \/ CheckRuns(r)
    \/ ReadSpent(r)
    \/ CheckCredits(r)
    \/ Admit(r)

AdmissionNext ==
    \/ NextMonth
    \/ \E t \in Clients, c \in Controls : SetControl(t, c)
    \/ \E e \in Events : Pay(e)
    \/ \E r \in Runs : Arrive(r) \/ CreateRun(r) \/ Crash(r)
    \/ \E r \in Runs : Refund(r) \/ \E c \in Credits : Settle(r, c)
    \/ \E t \in Tenants, k \in PurchaseKeys, l \in Listings : Purchase(t, k, l)

\* A request that is being served goes on; nobody has to make one.
AdmissionSpec ==
    /\ AdmissionInit /\ [][AdmissionNext]_avars
    /\ \A r \in Runs : WF_pc(CreateRun(r))

-----------------------------------------------------------------------------
AdmissionTypeOK ==
    /\ TypeOK
    /\ month \in Months
    /\ control \in [Tenants -> Controls \cup {DefaultControl}]
    /\ record \in [Tenants -> [Keys -> Runs \cup {NoRun}]]
    /\ created \in [Runs -> 0 .. LastMonth] /\ checked \in [Runs -> 0 .. LastMonth]
    /\ chargedIn \in [Runs -> 0 .. LastMonth] /\ boughtIn \in [Purchases -> 0 .. LastMonth]
    /\ pc \in [Runs -> {"idle", "begin", "key", "quota", "spent", "open", "wallet", "done"}]
    /\ answer \in [Runs -> {"none", "created", "replayed", "conflict", "refused", "failed"}]
    /\ limits \in [Runs -> Controls \cup {DefaultControl}]
    /\ spent \in [Runs -> Nat]

\* However many requests carry one key, and whenever they arrive, at most one
\* run exists for it; every other request is answered by that run: replayed
\* if it asks for the same, refused as a conflict if not, and none of them
\* runs into the unique key of idempotency_records (run_service.py:77-99).
OneRunPerKey ==
    \A r \in Runs : Keyed(r) =>
        LET first == record[Owner[r]][Request[r].key]
        IN  /\ Exists(r) => first = r
            /\ answer[r] = "replayed" => Exists(first) /\ body[first] = body[r]
            /\ answer[r] = "conflict" => Exists(first) /\ body[first] # body[r]
            /\ answer[r] # "failed"

Admits(r) == answer[r] = "none" /\ answer'[r] = "created"

\* The runs that one advisory lock admitted and that its queries can see.
AdmittedAlike(r) ==
    {s \in Runs : /\ Owner[s] = Owner[r] /\ Exists(s)
                  /\ checked[s] = checked[r] /\ created[s] >= checked[r]}

\* Concurrent requests never take more runs than the month allows, although
\* each counts the runs before it inserts its own, as long as they ask in the
\* same month (commercial.py:123-144).
RunLimitHolds ==
    [][\A r \in Runs :
          Admits(r) /\ limits[r].runs # NoLimit =>
              Cardinality(AdmittedAlike(r))' <= limits[r].runs]_avars

\* When a run is admitted, what had been spent when its request was checked
\* and all that is now on hold for runs checked in that month are within the
\* limit, whoever else reserved, settled or was refunded in between
\* (commercial.py:123-169, run_service.py:109-156).
HoldsWithinLimit ==
    [][\A r \in Runs :
          Admits(r) /\ limits[r].credits # NoLimit =>
              spent[r] + Total([s \in Runs |-> IF s \in AdmittedAlike(r) /\ IsOpen(s)
                                               THEN reservation[s].amount ELSE 0])'
                <= limits[r].credits]_avars

\* Requests wait for each other's advisory locks, first of the key and then
\* of the quota: no order of them waits for ever (run_service.py:78-83,
\* commercial.py:124).
EveryRequestEnds == \A r \in Runs : pc[r] # "idle" ~> pc[r] = "done"

\* docs/COMMERCIAL.md:18: the projected spend of an admission includes
\* settled run charges, purchases and open reservations.  The code sums them
\* in two statements (commercial.py:147-160): a run settled between the two
\* is in neither sum.
CreditLimitHolds ==
    [][\A r \in Runs :
          Admits(r) /\ limits[r].credits # NoLimit =>
              (SpentSince(Owner[r], checked[r]) + OpenSince(Owner[r], checked[r]))'
                <= limits[r].credits]_avars
=============================================================================
