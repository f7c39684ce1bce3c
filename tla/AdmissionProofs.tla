-------------------------- MODULE AdmissionProofs ---------------------------
(***************************************************************************)
(* Theorems of Admission for every set of tenants, requests, keys and      *)
(* controls.                                                               *)
(***************************************************************************)
EXTENDS Admission, LedgerProofs

-----------------------------------------------------------------------------
(* Admission does to the money tables what Billing does.                   *)

\* The statements of one request.
LEMMA RequestMoney ==
    ASSUME NEW r \in Runs, Arrive(r) \/ CreateRun(r) \/ Crash(r)
    PROVE  [Next]_vars
<1>1. CASE Arrive(r) \/ Crash(r) \/ BeginUnkeyed(r) \/ LookUpKey(r)
  BY <1>1 DEF Arrive, Crash, BeginUnkeyed, LookUpKey
<1>2. CASE CheckRuns(r) \/ ReadSpent(r) \/ CheckCredits(r)
  BY <1>2 DEF CheckRuns, ReadSpent, CheckCredits
<1>3. CASE Admit(r)
  <2>1. Request[r].amount \in Credits
    BY RequestAssumption, CreditsAssumption DEF Credits
  <2>2. Reserve(r, Request[r].amount) \/ UNCHANGED vars
    BY <1>3 DEF Admit
  <2> QED
    BY <2>1, <2>2 DEF Next
<1> QED
  BY <1>1, <1>2, <1>3 DEF CreateRun

LEMMA MoneyStep ==
    ASSUME [AdmissionNext]_avars
    PROVE  [Next]_vars
<1>1. CASE NextMonth \/ (\E t \in Clients, c \in Controls : SetControl(t, c))
           \/ UNCHANGED avars
  BY <1>1 DEF NextMonth, SetControl, avars
<1>2. ASSUME NEW e \in Events, Pay(e)
      PROVE  Next
  BY <1>2 DEF Pay, Next
<1>3. ASSUME NEW r \in Runs, Refund(r) \/ \E c \in Credits : Settle(r, c)
      PROVE  Next
  BY <1>3 DEF Refund, Settle, Next
<1>4. ASSUME NEW t \in Tenants, NEW k \in PurchaseKeys, NEW l \in Listings, Purchase(t, k, l)
      PROVE  Next
  BY <1>4 DEF Purchase, Next
<1> QED
  BY <1>1, <1>2, <1>3, <1>4, RequestMoney DEF AdmissionNext

\* However requests are checked, admission does to the money tables only
\* what Billing does: each theorem about Billing holds with quotas, keys and
\* the calendar in place (run_service.py:65-156).
THEOREM AdmissionImplementsBilling == AdmissionSpec => Spec
<1>1. AdmissionInit => Init
  BY DEF AdmissionInit
<1>2. [AdmissionNext]_avars => [Next]_vars
  BY MoneyStep
<1> QED
  BY <1>1, <1>2, PTL DEF AdmissionSpec, Spec

-----------------------------------------------------------------------------
(* One run per idempotency key.  The lock of a key is held by one request, *)
(* and while it is held the key has no record; a record is of a run that   *)
(* exists.                                                                 *)

KeyRecord(r) == record[Owner[r]][Request[r].key]

KeyTypes ==
    /\ record \in [Tenants -> [Keys -> Runs \cup {NoRun}]]
    /\ pc \in [Runs -> {"idle", "begin", "key", "quota", "spent", "open", "wallet", "done"}]
    /\ answer \in [Runs -> {"none", "created", "replayed", "conflict", "refused", "failed"}]

KeyLocks ==
    /\ \A r \in Runs : pc[r] = "begin" => ~Keyed(r)
    /\ \A r \in Runs : HoldsKey(r) => KeyRecord(r) = NoRun
    /\ \A r, s \in Runs : r # s /\ SameKey(r, s) => ~(HoldsKey(r) /\ HoldsKey(s))

RecordsExist ==
    \A t \in Tenants, k \in Keys : record[t][k] # NoRun => Exists(record[t][k])

AnsweredFromRecord ==
    \A r \in Runs :
        Keyed(r) /\ answer[r] \in {"replayed", "conflict"} => KeyRecord(r) # NoRun

KeyInv ==
    /\ TypeOK
    /\ KeyTypes
    /\ KeyLocks
    /\ RecordsExist
    /\ AnsweredFromRecord
    /\ OneRunPerKey

LEMMA KeyedTypes ==
    ASSUME NEW r \in Runs, Keyed(r)
    PROVE  Owner[r] \in Tenants /\ Request[r].key \in Keys
  BY RunsAssumption DEF Keyed, Keys

\* What no step of another process does to admission: it neither makes a run
\* nor touches a key, a request or an answer.
Quiet ==
    /\ UNCHANGED <<record, pc, answer, body>>
    /\ \A r \in Runs : Exists(r)' = Exists(r)

\* OneRunPerKey for one request.
KeyAnswered(r) ==
    /\ Exists(r) => KeyRecord(r) = r
    /\ answer[r] = "replayed" => Exists(KeyRecord(r)) /\ body[KeyRecord(r)] = body[r]
    /\ answer[r] = "conflict" => Exists(KeyRecord(r)) /\ body[KeyRecord(r)] # body[r]
    /\ answer[r] # "failed"

LEMMA AllAnswered == OneRunPerKey <=> \A r \in Runs : Keyed(r) => KeyAnswered(r)
  BY DEF OneRunPerKey, KeyAnswered, KeyRecord

LEMMA AllAnsweredNext ==
    ASSUME \A r \in Runs : Keyed(r) => KeyAnswered(r)'
    PROVE  OneRunPerKey'
  BY DEF OneRunPerKey, KeyAnswered, KeyRecord, Exists, Keyed

LEMMA RecordTypes ==
    ASSUME KeyInv, NEW r \in Runs, Keyed(r)
    PROVE  /\ KeyRecord(r) \in Runs \cup {NoRun}
           /\ KeyRecord(r) # NoRun => KeyRecord(r) \in Runs /\ Exists(KeyRecord(r))
           /\ KeyAnswered(r)
           /\ answer[r] \in {"replayed", "conflict"} => KeyRecord(r) # NoRun
<1>1. KeyRecord(r) \in Runs \cup {NoRun}
  BY KeyedTypes DEF KeyInv, KeyTypes, KeyRecord
<1>2. KeyRecord(r) # NoRun => Exists(KeyRecord(r))
  BY KeyedTypes DEF KeyInv, RecordsExist, KeyRecord
<1>3. KeyAnswered(r)
  BY AllAnswered DEF KeyInv
<1> QED
  BY <1>1, <1>2, <1>3 DEF KeyInv, AnsweredFromRecord

LEMMA QuietStep ==
    ASSUME KeyInv, TypeOK', Quiet
    PROVE  KeyInv'
<1>1. KeyTypes'
  BY DEF KeyInv, KeyTypes, Quiet
<1>2. KeyLocks'
  BY DEF KeyInv, KeyLocks, Quiet, HoldsKey, KeyRecord
<1>3. RecordsExist'
  BY DEF KeyInv, RecordsExist, Quiet, KeyTypes
<1>4. AnsweredFromRecord'
  BY DEF KeyInv, AnsweredFromRecord, Quiet, KeyRecord
<1>5. ASSUME NEW r \in Runs, Keyed(r)
      PROVE  KeyAnswered(r)'
  <2>1. KeyRecord(r)' = KeyRecord(r) /\ answer'[r] = answer[r] /\ body' = body
    BY DEF Quiet, KeyRecord
  <2>2. KeyRecord(r) # NoRun => (Exists(KeyRecord(r)))'
    BY <1>5, <2>1, RecordTypes DEF Quiet, Exists
  <2>3. Exists(r)' = Exists(r)
    BY DEF Quiet
  <2>4. Exists(KeyRecord(r))' <=> (Exists(KeyRecord(r)))'
    OBVIOUS
  <2> QED
    BY <1>5, <2>1, <2>2, <2>3, RecordTypes DEF KeyAnswered
<1> QED
  BY <1>1, <1>2, <1>3, <1>4, <1>5, AllAnsweredNext DEF KeyInv

\* One request moves: it takes the lock of its key only if it is free and the
\* key has no record, and it is answered by the record there is.
MayMove(r, to, a) ==
    /\ to = "begin" => ~Keyed(r)
    /\ Keyed(r) /\ to \in {"quota", "spent", "open", "wallet"} =>
          HoldsKey(r) \/ (KeyRecord(r) = NoRun /\ KeyFree(r))
    /\ Keyed(r) /\ a \in {"replayed", "conflict"} /\ a # answer[r] =>
          /\ KeyRecord(r) # NoRun
          /\ a = "replayed" <=> body[KeyRecord(r)] = body[r]
    /\ a = "failed" => ~Keyed(r)

LEMMA MoveStep ==
    ASSUME KeyInv, TypeOK', NEW r \in Runs, MayMove(r, pc'[r], answer'[r]),
           KeyTypes', UNCHANGED <<vars, record, body>>,
           \A s \in Runs \ {r} : pc'[s] = pc[s] /\ answer'[s] = answer[s]
    PROVE  KeyInv'
<1>1. \A s \in Runs : KeyRecord(s)' = KeyRecord(s) /\ Exists(s)' = Exists(s)
  BY DEF vars, KeyRecord, Exists
<1>2. KeyLocks'
  <2>1. \A s \in Runs : pc'[s] = "begin" => ~Keyed(s)
    BY DEF KeyInv, KeyLocks, MayMove
  <2>2. \A s \in Runs \ {r} : HoldsKey(s)' = HoldsKey(s)
    BY DEF HoldsKey, Keyed
  <2>3. HoldsKey(r)' => HoldsKey(r) \/ (KeyRecord(r) = NoRun /\ KeyFree(r))
    BY DEF MayMove, HoldsKey, Keyed
  <2>4. \A s \in Runs : HoldsKey(s)' => KeyRecord(s)' = NoRun
    BY <1>1, <2>2, <2>3 DEF KeyInv, KeyLocks
  <2>5. \A s, q \in Runs : SameKey(s, q) => SameKey(q, s)
    BY DEF SameKey
  <2>6. \A s, q \in Runs : s # q /\ SameKey(s, q) => ~(HoldsKey(s)' /\ HoldsKey(q)')
    BY <2>2, <2>3, <2>5 DEF KeyInv, KeyLocks, KeyFree
  <2> QED
    BY <2>1, <2>4, <2>6 DEF KeyLocks, Keyed, SameKey
<1>3. RecordsExist'
  BY <1>1 DEF KeyInv, RecordsExist, vars, Exists
<1>4. AnsweredFromRecord'
  BY <1>1 DEF KeyInv, AnsweredFromRecord, MayMove, Keyed
<1>5. ASSUME NEW s \in Runs, Keyed(s)
      PROVE  KeyAnswered(s)'
  <2>1. body' = body /\ reservation' = reservation
    BY DEF vars
  <2>2. CASE answer'[s] = answer[s]
    BY <1>1, <1>5, <2>1, <2>2, RecordTypes DEF KeyAnswered, Exists
  <2>3. CASE answer'[s] # answer[s]
    <3>1. s = r
      BY <2>3
    <3>2. /\ answer'[r] # "failed"
          /\ answer'[r] \in {"replayed", "conflict"} =>
                /\ KeyRecord(r) # NoRun
                /\ answer'[r] = "replayed" <=> body[KeyRecord(r)] = body[r]
      BY <1>5, <2>3, <3>1 DEF MayMove
    <3> QED
      BY <1>1, <1>5, <2>1, <3>1, <3>2, RecordTypes DEF KeyAnswered, Exists
  <2> QED
    BY <2>2, <2>3
<1> QED
  BY <1>2, <1>3, <1>4, <1>5, AllAnsweredNext DEF KeyInv

\* A request is admitted: its run exists from now on, and is the record of
\* its key.
LEMMA AdmitStep ==
    ASSUME KeyInv, TypeOK', NEW r \in Runs, pc[r] = "wallet", KeyTypes',
           Keyed(r) => KeyRecord(r) = NoRun,
           reservation[r].status = "none", reservation'[r].status # "none",
           \A s \in Runs \ {r} : reservation'[s] = reservation[s],
           record' = IF Keyed(r) THEN [record EXCEPT ![Owner[r]][Request[r].key] = r]
                     ELSE record,
           pc'[r] = "done", answer'[r] = "created", body' = body,
           \A s \in Runs \ {r} : pc'[s] = pc[s] /\ answer'[s] = answer[s]
    PROVE  KeyInv'
<1>1. ~Exists(r) /\ (Exists(r))' /\ \A s \in Runs \ {r} : Exists(s)' = Exists(s)
  BY DEF Exists
<1>2. \A s \in Runs : Keyed(s) =>
         KeyRecord(s)' = IF Keyed(r) /\ SameKey(s, r) THEN r ELSE KeyRecord(s)
  <2> SUFFICES ASSUME NEW s \in Runs, Keyed(s)
               PROVE  KeyRecord(s)' = IF Keyed(r) /\ SameKey(s, r) THEN r ELSE KeyRecord(s)
    OBVIOUS
  <2>1. CASE Keyed(r)
    <3>1. /\ Owner[r] \in Tenants /\ Request[r].key \in Keys
          /\ Owner[s] \in Tenants /\ Request[s].key \in Keys
      BY <2>1, KeyedTypes
    <3>2. record' = [record EXCEPT ![Owner[r]][Request[r].key] = r]
      BY <2>1
    <3> QED
      BY <2>1, <3>1, <3>2 DEF KeyInv, KeyTypes, KeyRecord, SameKey
  <2>2. CASE ~Keyed(r)
    BY <2>2 DEF KeyRecord
  <2> QED
    BY <2>1, <2>2
<1>3. \A s \in Runs : Keyed(s) /\ Keyed(r) /\ SameKey(s, r) => KeyRecord(s) = NoRun
  BY DEF SameKey, KeyRecord
<1>4. Keyed(r) => HoldsKey(r)
  BY DEF HoldsKey
<1>5. KeyLocks'
  <2>1. \A s \in Runs : HoldsKey(s)' => HoldsKey(s) /\ s # r
    BY DEF HoldsKey, Keyed
  <2>2. \A s \in Runs : HoldsKey(s)' => KeyRecord(s)' = NoRun
    <3> SUFFICES ASSUME NEW s \in Runs, HoldsKey(s)'
                 PROVE  KeyRecord(s)' = NoRun
      OBVIOUS
    <3>1. HoldsKey(s) /\ s # r /\ Keyed(s) /\ KeyRecord(s) = NoRun
      BY <2>1 DEF KeyInv, KeyLocks, HoldsKey
    <3>2. ~(Keyed(r) /\ SameKey(s, r))
      BY <1>4, <3>1 DEF KeyInv, KeyLocks
    <3> QED
      BY <1>2, <3>1, <3>2
  <2>3. \A s \in Runs : pc'[s] = "begin" => ~Keyed(s)
    BY DEF KeyInv, KeyLocks
  <2>4. \A s, q \in Runs : s # q /\ SameKey(s, q) => ~(HoldsKey(s)' /\ HoldsKey(q)')
    BY <2>1 DEF KeyInv, KeyLocks
  <2> QED
    BY <2>2, <2>3, <2>4 DEF KeyLocks, Keyed, SameKey
<1>6. RecordsExist'
  <2> SUFFICES ASSUME NEW t \in Tenants, NEW k \in Keys, record'[t][k] # NoRun
               PROVE  reservation'[record'[t][k]].status # "none"
    BY DEF RecordsExist, Exists
  <2>1. record'[t][k] = r \/ record'[t][k] = record[t][k]
    <3>1. CASE Keyed(r)
      <4>1. Owner[r] \in Tenants /\ Request[r].key \in Keys
        BY <3>1, KeyedTypes
      <4>2. record' = [record EXCEPT ![Owner[r]][Request[r].key] = r]
        BY <3>1
      <4> QED
        BY <4>1, <4>2 DEF KeyInv, KeyTypes
    <3> QED
      BY <3>1
  <2>2. CASE record'[t][k] = r
    BY <2>2
  <2>3. CASE record'[t][k] = record[t][k]
    <3>1. record[t][k] \in Runs /\ Exists(record[t][k])
      BY <2>3 DEF KeyInv, KeyTypes, RecordsExist
    <3> QED
      BY <2>3, <3>1 DEF Exists
  <2> QED
    BY <2>1, <2>2, <2>3
<1>7. ASSUME NEW s \in Runs, Keyed(s)
      PROVE  /\ KeyAnswered(s)'
             /\ answer'[s] \in {"replayed", "conflict"} => KeyRecord(s)' # NoRun
  <2>1. CASE s = r
    BY <1>1, <1>2, <1>7, <2>1 DEF KeyAnswered, SameKey
  <2>2. CASE s # r /\ Keyed(r) /\ SameKey(s, r)
    <3>1. KeyRecord(s) = NoRun /\ KeyRecord(s)' = r
      BY <1>2, <1>3, <1>7, <2>2
    <3>2. ~Exists(s) /\ answer[s] \notin {"replayed", "conflict", "failed"}
      BY <1>7, <3>1, RequestAssumption, RecordTypes DEF KeyAnswered
    <3> QED
      BY <1>1, <2>2, <3>1, <3>2, RequestAssumption DEF KeyAnswered
  <2>3. CASE s # r /\ ~(Keyed(r) /\ SameKey(s, r))
    <3>1. KeyRecord(s)' = KeyRecord(s) /\ answer'[s] = answer[s] /\ Exists(s)' = Exists(s)
      BY <1>1, <1>2, <1>7, <2>3
    <3>2. KeyRecord(s) # NoRun => (reservation'[KeyRecord(s)].status # "none")
      <4>1. KeyRecord(s) # NoRun => KeyRecord(s) \in Runs /\ Exists(KeyRecord(s))
        BY <1>7, RecordTypes
      <4> QED
        BY <4>1 DEF Exists
    <3> QED
      BY <1>7, <3>1, <3>2, RecordTypes DEF KeyAnswered, Exists
  <2> QED
    BY <2>1, <2>2, <2>3
<1>8. AnsweredFromRecord'
  BY <1>7 DEF AnsweredFromRecord, Keyed
<1> QED
  BY <1>5, <1>6, <1>7, <1>8, AllAnsweredNext DEF KeyInv

\* The two ways a statement leaves its request.
LEMMA GoMoves ==
    ASSUME KeyInv, TypeOK', NEW r \in Runs,
           NEW to \in {"begin", "key", "quota", "spent", "open", "wallet"},
           Go(r, to), answer' = answer, UNCHANGED <<vars, record, body>>,
           MayMove(r, to, answer[r])
    PROVE  KeyInv'
<1>1. pc'[r] = to /\ \A s \in Runs \ {r} : pc'[s] = pc[s]
  BY DEF Go, KeyInv, KeyTypes
<1>2. KeyTypes'
  BY DEF Go, KeyInv, KeyTypes
<1> QED
  BY <1>1, <1>2, MoveStep

LEMMA AnswerMoves ==
    ASSUME KeyInv, TypeOK', NEW r \in Runs,
           NEW a \in {"none", "replayed", "conflict", "refused", "failed"},
           Answer(r, a), UNCHANGED <<vars, record, body>>, MayMove(r, "done", a)
    PROVE  KeyInv'
<1>1. pc' = [pc EXCEPT ![r] = "done"] /\ answer' = [answer EXCEPT ![r] = a]
  BY DEF Answer, Go
<1>2. /\ pc'[r] = "done" /\ answer'[r] = a
      /\ \A s \in Runs \ {r} : pc'[s] = pc[s] /\ answer'[s] = answer[s]
  BY <1>1 DEF KeyInv, KeyTypes
<1>3. KeyTypes'
  BY <1>1 DEF KeyInv, KeyTypes
<1> QED
  BY <1>2, <1>3, MoveStep

LEMMA StatementStep ==
    ASSUME KeyInv, TypeOK', NEW r \in Runs, Arrive(r) \/ CreateRun(r) \/ Crash(r)
    PROVE  KeyInv'
<1>1. CASE Arrive(r)
  <2>1. /\ UNCHANGED <<vars, record, body>> /\ answer' = answer
        /\ IF Keyed(r) THEN Go(r, "key") ELSE Go(r, "begin")
    BY <1>1 DEF Arrive
  <2>2. MayMove(r, IF Keyed(r) THEN "key" ELSE "begin", answer[r])
    BY RecordTypes DEF MayMove, KeyAnswered
  <2> QED
    BY <2>1, <2>2, GoMoves
<1>2. CASE BeginUnkeyed(r)
  <2>1. /\ UNCHANGED <<vars, record, body>> /\ answer' = answer /\ Go(r, "quota")
        /\ ~Keyed(r)
    BY <1>2 DEF BeginUnkeyed, KeyInv, KeyLocks
  <2>2. MayMove(r, "quota", answer[r])
    BY <2>1 DEF MayMove
  <2> QED
    BY <2>1, <2>2, GoMoves
<1>3. CASE LookUpKey(r)
  <2>1. UNCHANGED <<vars, record, body>> /\ KeyFree(r)
    BY <1>3 DEF LookUpKey
  <2>2. CASE KeyRecord(r) = NoRun
    <3>1. Go(r, "quota") /\ answer' = answer
      BY <1>3, <2>2 DEF LookUpKey, KeyRecord
    <3>2. MayMove(r, "quota", answer[r])
      BY <2>1, <2>2, RecordTypes DEF MayMove, KeyAnswered
    <3> QED
      BY <2>1, <3>1, <3>2, GoMoves
  <2>3. CASE KeyRecord(r) # NoRun
    <3> DEFINE a == IF body[KeyRecord(r)] = body[r] THEN "replayed" ELSE "conflict"
    <3>1. Answer(r, a)
      BY <1>3, <2>3 DEF LookUpKey, Replays, KeyRecord
    <3>2. a \in {"replayed", "conflict"} /\ MayMove(r, "done", a)
      BY <2>3 DEF MayMove
    <3> HIDE DEF a
    <3> QED
      BY <2>1, <3>1, <3>2, AnswerMoves
  <2> QED
    BY <2>2, <2>3
<1>4. CASE CheckRuns(r) \/ ReadSpent(r) \/ CheckCredits(r)
  <2>1. UNCHANGED <<vars, record, body>>
    BY <1>4 DEF CheckRuns, ReadSpent, CheckCredits
  <2>2. Keyed(r) => HoldsKey(r)
    BY <1>4 DEF CheckRuns, ReadSpent, CheckCredits, HoldsKey
  <2>3. \/ Answer(r, "refused")
        \/ /\ answer' = answer
           /\ Go(r, "wallet") \/ Go(r, "spent") \/ Go(r, "open")
    BY <1>4 DEF CheckRuns, ReadSpent, CheckCredits, locals
  <2>4. /\ MayMove(r, "done", "refused")
        /\ \A to \in {"wallet", "spent", "open"} : MayMove(r, to, answer[r])
    BY <2>2, RecordTypes DEF MayMove, KeyAnswered
  <2> QED
    BY <2>1, <2>3, <2>4, GoMoves, AnswerMoves
<1>5. CASE Admit(r)
  <2>1. pc[r] = "wallet" /\ UNCHANGED body
    BY <1>5 DEF Admit
  <2>2. Keyed(r) => HoldsKey(r) /\ KeyRecord(r) = NoRun
    BY <2>1 DEF HoldsKey, KeyInv, KeyLocks
  <2>3. CASE Reserve(r, Request[r].amount)
             /\ record' = (IF Keyed(r) THEN [record EXCEPT ![Owner[r]][Request[r].key] = r]
                           ELSE record)
             /\ Answer(r, "created")
    <3>1. /\ reservation[r].status = "none" /\ reservation'[r].status # "none"
          /\ \A s \in Runs \ {r} : reservation'[s] = reservation[s]
      BY <2>3 DEF Reserve, KeyInv, TypeOK
    <3>2. pc' = [pc EXCEPT ![r] = "done"] /\ answer' = [answer EXCEPT ![r] = "created"]
      BY <2>3 DEF Answer, Go
    <3>3. /\ pc'[r] = "done" /\ answer'[r] = "created"
          /\ \A s \in Runs \ {r} : pc'[s] = pc[s] /\ answer'[s] = answer[s]
      BY <3>2 DEF KeyInv, KeyTypes
    <3>4. KeyTypes'
      <4>1. Keyed(r) => Owner[r] \in Tenants /\ Request[r].key \in Keys
        BY KeyedTypes
      <4>2. record' \in [Tenants -> [Keys -> Runs \cup {NoRun}]]
        BY <2>3, <4>1 DEF KeyInv, KeyTypes
      <4> QED
        BY <3>2, <4>2 DEF KeyInv, KeyTypes
    <3> QED
      BY <2>1, <2>2, <2>3, <3>1, <3>3, <3>4, AdmitStep
  <2>4. CASE Answer(r, "refused") /\ UNCHANGED <<vars, record>>
    <3>1. MayMove(r, "done", "refused")
      BY DEF MayMove
    <3> QED
      BY <2>1, <2>4, <3>1, AnswerMoves
  <2> QED
    BY <1>5, <2>2, <2>3, <2>4 DEF Admit, KeyRecord
<1>6. CASE Crash(r)
  <2>1. UNCHANGED <<vars, record, body>> /\ Answer(r, "none")
    BY <1>6 DEF Crash
  <2>2. MayMove(r, "done", "none")
    BY DEF MayMove
  <2> QED
    BY <2>1, <2>2, AnswerMoves
<1> QED
  BY <1>1, <1>2, <1>3, <1>4, <1>5, <1>6 DEF CreateRun

\* A transaction that closes a reservation makes and removes no run.
LEMMA OthersQuiet ==
    ASSUME KeyInv, [AdmissionNext]_avars,
           ~ \E r \in Runs : Arrive(r) \/ CreateRun(r) \/ Crash(r)
    PROVE  Quiet
<1>1. CASE NextMonth \/ (\E t \in Clients, c \in Controls : SetControl(t, c))
           \/ UNCHANGED avars
  BY <1>1 DEF NextMonth, SetControl, avars, Quiet, vars, Exists
<1>2. ASSUME NEW e \in Events, Pay(e)
      PROVE  Quiet
  BY <1>2 DEF Pay, ProcessVerifiedPayment, Quiet, Exists
<1>3. ASSUME NEW q \in Runs, NEW c \in Credits, Settle(q, c)
      PROVE  Quiet
  <2>1. \A r \in Runs : Exists(r)' = Exists(r)
    BY <1>3 DEF Settle, SettleRun, IsOpen, Exists, KeyInv, TypeOK
  <2> QED
    BY <1>3, <2>1 DEF Settle, Quiet
<1>4. ASSUME NEW q \in Runs, Refund(q)
      PROVE  Quiet
  <2>1. \A r \in Runs : Exists(r)' = Exists(r)
    BY <1>4 DEF Refund, RefundRun, IsOpen, Exists, KeyInv, TypeOK
  <2> QED
    BY <1>4, <2>1 DEF Refund, Quiet
<1>5. ASSUME NEW t \in Tenants, NEW k \in PurchaseKeys, NEW l \in Listings, Purchase(t, k, l)
      PROVE  Quiet
  BY <1>5 DEF Purchase, PurchaseListing, Quiet, Exists
<1> QED
  BY <1>1, <1>2, <1>3, <1>4, <1>5 DEF AdmissionNext

LEMMA InitKeyInv == AdmissionInit => KeyInv
<1> SUFFICES ASSUME AdmissionInit PROVE KeyInv
  OBVIOUS
<1>1. TypeOK
  BY InitType DEF AdmissionInit
<1>2. KeyTypes
  BY DEF AdmissionInit, KeyTypes
<1>3. KeyLocks
  BY DEF AdmissionInit, KeyLocks, HoldsKey
<1>4. \A t \in Tenants, k \in Keys : record[t][k] = NoRun
  BY DEF AdmissionInit
<1>5. \A r \in Runs : ~Exists(r) /\ answer[r] = "none"
  BY DEF AdmissionInit, Init, Exists
<1>6. RecordsExist /\ AnsweredFromRecord
  BY <1>4, <1>5 DEF RecordsExist, AnsweredFromRecord
<1>7. OneRunPerKey
  BY <1>5 DEF OneRunPerKey
<1> QED
  BY <1>1, <1>2, <1>3, <1>6, <1>7 DEF KeyInv

LEMMA KeyStep ==
    ASSUME KeyInv, [AdmissionNext]_avars
    PROVE  KeyInv'
<1>1. TypeOK'
  BY MoneyStep, StepType DEF KeyInv
<1>2. CASE \E r \in Runs : Arrive(r) \/ CreateRun(r) \/ Crash(r)
  BY <1>1, <1>2, StatementStep
<1>3. CASE ~ \E r \in Runs : Arrive(r) \/ CreateRun(r) \/ Crash(r)
  BY <1>1, <1>3, OthersQuiet, QuietStep
<1> QED
  BY <1>2, <1>3

LEMMA AlwaysKeyInv == AdmissionSpec => []KeyInv
<1>1. KeyInv /\ [AdmissionNext]_avars => KeyInv'
  BY KeyStep
<1> QED
  BY <1>1, InitKeyInv, PTL DEF AdmissionSpec

\* However many requests carry an idempotency key, in whatever order their
\* statements run and wherever they crash, the key makes at most one run, and
\* every other request is answered by it (run_service.py:77-99).
THEOREM OneRunForEachKey == AdmissionSpec => []OneRunPerKey
<1>1. KeyInv => OneRunPerKey
  BY DEF KeyInv
<1> QED
  BY <1>1, AlwaysKeyInv, PTL

-----------------------------------------------------------------------------
(* Type correctness.  The sum of purchases is one because every purchase   *)
(* it counts has a listing: a request asks for a month that is not 0.      *)

Checks == {"begin", "quota", "spent", "open", "wallet"}

ClockTypes ==
    /\ month \in Months
    /\ control \in [Tenants -> Controls \cup {DefaultControl}]
    /\ created \in [Runs -> 0 .. LastMonth] /\ checked \in [Runs -> 0 .. LastMonth]
    /\ chargedIn \in [Runs -> 0 .. LastMonth] /\ boughtIn \in [Purchases -> 0 .. LastMonth]
    /\ limits \in [Runs -> Controls \cup {DefaultControl}]
    /\ spent \in [Runs -> Nat]

Bought == \A p \in Purchases : boughtIn[p] # 0 => purchase[p] \in Listings

Checked == \A r \in Runs : pc[r] \in Checks => checked[r] # 0

TypedInv == KeyInv /\ ClockTypes /\ Bought /\ Checked

LEMMA AmountType ==
    ASSUME NEW r \in Runs
    PROVE  Request[r].amount \in Nat /\ Request[r].amount > 0 /\ Request[r].amount \in Credits
  BY RequestAssumption, CreditsAssumption DEF Credits

LEMMA SpentType ==
    ASSUME TypedInv, NEW t \in Tenants, NEW m \in Months
    PROVE  SpentSince(t, m) \in Nat
<1> DEFINE f == [r \in Runs |-> IF Owner[r] = t /\ chargedIn[r] >= m
                                THEN reservation[r].settled_amount ELSE 0]
           g == [p \in Purchases |-> IF p[1] = t /\ boughtIn[p] >= m
                                     THEN Price[purchase[p]] ELSE 0]
<1>1. f \in [Runs -> 0 .. MaxCredits]
  BY CreditsAssumption DEF TypedInv, KeyInv, TypeOK, Credits
<1>2. g \in [Purchases -> 0 .. MaxCredits]
  <2>1. ASSUME NEW p \in Purchases, boughtIn[p] >= m
        PROVE  Price[purchase[p]] \in 0 .. MaxCredits
    <3>1. boughtIn[p] # 0
      BY <2>1 DEF Months
    <3>2. purchase[p] \in Listings
      BY <3>1 DEF TypedInv, Bought
    <3> QED
      BY <3>2, PriceType DEF Credits
  <2> QED
    BY <2>1, CreditsAssumption
<1>3. IsFiniteSet(Purchases) /\ IsFiniteSet(Runs)
  BY FiniteAssumption, FS_Product DEF Purchases
<1> HIDE DEF f, g
<1>4. Total(f) \in Nat /\ Total(g) \in Nat
  BY <1>1, <1>2, <1>3, CreditsAssumption, TotalType
<1>5. SpentSince(t, m) = Total(f) + Total(g)
  BY Zenon DEF SpentSince, f, g
<1> QED
  BY <1>4, <1>5

\* What an answer leaves of a request.
LEMMA AnswerTypes ==
    ASSUME TypedInv, NEW r \in Runs, NEW a, Answer(r, a)
    PROVE  /\ created' \in [Runs -> 0 .. LastMonth] /\ checked' \in [Runs -> 0 .. LastMonth]
           /\ limits' \in [Runs -> Controls \cup {DefaultControl}] /\ spent' \in [Runs -> Nat]
           /\ pc'[r] = "done"
           /\ \A s \in Runs \ {r} : pc'[s] = pc[s] /\ checked'[s] = checked[s]
<1>1. /\ pc' = [pc EXCEPT ![r] = "done"]
      /\ limits' = [limits EXCEPT ![r] = DefaultControl]
      /\ spent' = [spent EXCEPT ![r] = 0]
      /\ \/ UNCHANGED <<created, checked>>
         \/ created' = [created EXCEPT ![r] = 0] /\ checked' = [checked EXCEPT ![r] = 0]
  BY DEF Answer, Go
<1>2. 0 \in 0 .. LastMonth
  BY MonthAssumption
<1> HIDE DEF DefaultControl
<1> QED
  BY <1>1, <1>2 DEF TypedInv, ClockTypes, KeyInv, KeyTypes

LEMMA RequestTypes ==
    ASSUME TypedInv, NEW r \in Runs, Arrive(r) \/ CreateRun(r) \/ Crash(r)
    PROVE  ClockTypes' /\ Checked'
<1> HIDE DEF DefaultControl
<1> DEFINE T == /\ created' \in [Runs -> 0 .. LastMonth] /\ checked' \in [Runs -> 0 .. LastMonth]
                /\ limits' \in [Runs -> Controls \cup {DefaultControl}] /\ spent' \in [Runs -> Nat]
           C == \A s \in Runs : pc'[s] \in Checks => checked'[s] # 0
<1>0. /\ ClockTypes /\ KeyTypes
      /\ \A s \in Runs : pc[s] \in Checks => checked[s] # 0
      /\ month \in 1 .. LastMonth /\ month \in 0 .. LastMonth /\ month # 0
  BY DEF TypedInv, KeyInv, KeyTypes, ClockTypes, Checked, Months, Checks
<1>u. UNCHANGED <<month, control, clocks>>
  BY DEF Arrive, CreateRun, Crash, BeginUnkeyed, LookUpKey, CheckRuns, ReadSpent, CheckCredits,
     Admit
<1> SUFFICES T /\ C
  BY <1>0, <1>u DEF ClockTypes, Checked, clocks
<1>a. ASSUME NEW a, Answer(r, a)
      PROVE  T /\ C
  BY <1>0, <1>a, AnswerTypes DEF Checks
<1>1. CASE Arrive(r)
  <2>1. /\ UNCHANGED <<limits, spent>>
        /\ \/ created' = [created EXCEPT ![r] = month] /\ checked' = checked
              /\ pc' = [pc EXCEPT ![r] = "key"]
           \/ created' = created /\ checked' = [checked EXCEPT ![r] = month]
              /\ pc' = [pc EXCEPT ![r] = "begin"]
    BY <1>1 DEF Arrive, Go
  <2> QED
    BY <1>0, <2>1 DEF ClockTypes, Checks, KeyTypes
<1>2. CASE BeginUnkeyed(r)
  <2>1. /\ UNCHANGED <<limits, spent, checked>> /\ created' = [created EXCEPT ![r] = month]
        /\ pc' = [pc EXCEPT ![r] = "quota"] /\ pc[r] = "begin"
    BY <1>2 DEF BeginUnkeyed, Go
  <2> QED
    BY <1>0, <2>1 DEF ClockTypes, Checks, KeyTypes
<1>3. CASE LookUpKey(r)
  <2>1. \/ \E a : Answer(r, a)
        \/ /\ UNCHANGED <<created, limits, spent>> /\ checked' = [checked EXCEPT ![r] = month]
           /\ pc' = [pc EXCEPT ![r] = "quota"]
    BY <1>3 DEF LookUpKey, Go
  <2> QED
    BY <1>0, <1>a, <2>1 DEF ClockTypes, Checks, KeyTypes
<1>4. CASE CheckRuns(r)
  <2>1. /\ pc[r] = "quota"
        /\ \/ \E a : Answer(r, a)
           \/ /\ UNCHANGED <<created, checked, spent>>
              /\ limits' = [limits EXCEPT ![r] = control[Owner[r]]]
              /\ \E to \in Checks : pc' = [pc EXCEPT ![r] = to]
    BY <1>4 DEF CheckRuns, Go, Checks
  <2>2. control[Owner[r]] \in Controls \cup {DefaultControl}
    BY <1>0, RunsAssumption DEF ClockTypes
  <2> QED
    BY <1>0, <1>a, <2>1, <2>2 DEF ClockTypes, Checks, KeyTypes
<1>5. CASE ReadSpent(r)
  <2>1. /\ pc[r] = "spent" /\ UNCHANGED <<created, checked, limits>>
        /\ spent' = [spent EXCEPT ![r] = SpentSince(Owner[r], checked[r])]
        /\ pc' = [pc EXCEPT ![r] = "open"]
    BY <1>5 DEF ReadSpent, Go
  <2>2. Owner[r] \in Tenants /\ checked[r] \in Months
    <3>1. checked[r] \in 0 .. LastMonth /\ checked[r] # 0
      BY <1>0, <2>1 DEF ClockTypes, Checks
    <3> QED
      BY <3>1, RunsAssumption, MonthAssumption DEF Months
  <2>3. SpentSince(Owner[r], checked[r]) \in Nat
    BY <2>2, SpentType
  <2> QED
    BY <1>0, <2>1, <2>3 DEF ClockTypes, Checks, KeyTypes
<1>6. CASE CheckCredits(r)
  <2>1. /\ pc[r] = "open"
        /\ \/ \E a : Answer(r, a)
           \/ UNCHANGED <<created, checked, limits, spent>> /\ pc' = [pc EXCEPT ![r] = "wallet"]
    BY <1>6 DEF CheckCredits, Go, locals
  <2> QED
    BY <1>0, <1>a, <2>1 DEF ClockTypes, Checks, KeyTypes
<1>7. CASE Admit(r) \/ Crash(r)
  <2>1. \E a : Answer(r, a)
    BY <1>7 DEF Admit, Crash
  <2> QED
    BY <1>a, <2>1
<1> QED
  BY <1>1, <1>2, <1>3, <1>4, <1>5, <1>6, <1>7 DEF CreateRun

LEMMA WorldTypes ==
    ASSUME TypedInv, [AdmissionNext]_avars,
           ~ \E r \in Runs : Arrive(r) \/ CreateRun(r) \/ Crash(r)
    PROVE  ClockTypes' /\ Checked'
<1>0. ClockTypes /\ Checked /\ month \in 0 .. LastMonth
  BY DEF TypedInv, ClockTypes, Months
<1>1. CASE UNCHANGED <<clocks, month, control>> /\ UNCHANGED <<locals, pc>>
  BY <1>0, <1>1 DEF ClockTypes, Checked, clocks, locals
<1>2. CASE NextMonth
  <2>1. month' = month + 1 /\ month < LastMonth /\ UNCHANGED <<control, clocks, locals, pc>>
    BY <1>2 DEF NextMonth
  <2>2. month' \in Months
    BY <1>0, <2>1, MonthAssumption DEF Months
  <2> QED
    BY <1>0, <2>1, <2>2 DEF ClockTypes, Checked, clocks, locals
<1>3. ASSUME NEW t \in Clients, NEW c \in Controls, SetControl(t, c)
      PROVE  ClockTypes' /\ Checked'
  <2>1. control' = [control EXCEPT ![t] = c] /\ UNCHANGED <<month, clocks, locals, pc>>
    BY <1>3 DEF SetControl
  <2>2. control' \in [Tenants -> Controls \cup {DefaultControl}]
    BY <1>0, <2>1 DEF ClockTypes
  <2> QED
    BY <1>0, <2>1, <2>2 DEF ClockTypes, Checked, clocks, locals
<1>4. ASSUME NEW r \in Runs, NEW c \in Credits, Settle(r, c)
      PROVE  ClockTypes' /\ Checked'
  <2>1. /\ chargedIn' = [chargedIn EXCEPT ![r] = month]
        /\ UNCHANGED <<month, control, boughtIn, locals, pc>>
    BY <1>4 DEF Settle
  <2> QED
    BY <1>0, <2>1 DEF ClockTypes, Checked, locals
<1>5. ASSUME NEW t \in Tenants, NEW k \in PurchaseKeys, NEW l \in Listings, Purchase(t, k, l)
      PROVE  ClockTypes' /\ Checked'
  <2>1. /\ boughtIn' = [boughtIn EXCEPT ![<<t, k>>] = month]
        /\ UNCHANGED <<month, control, chargedIn, locals, pc>>
    BY <1>5 DEF Purchase
  <2> QED
    BY <1>0, <2>1 DEF ClockTypes, Checked, locals
<1>6. ASSUME (\E e \in Events : Pay(e)) \/ (\E r \in Runs : Refund(r)) \/ UNCHANGED avars
      PROVE  UNCHANGED <<clocks, month, control>> /\ UNCHANGED <<locals, pc>>
  BY <1>6 DEF Pay, Refund, avars
<1> QED
  BY <1>1, <1>2, <1>3, <1>4, <1>5, <1>6 DEF AdmissionNext

\* A purchase that has a month has a listing.
LEMMA BoughtStep ==
    ASSUME TypedInv, [AdmissionNext]_avars
    PROVE  Bought'
<1>0. /\ purchase \in [Purchases -> Listings \cup {NoListing}]
      /\ boughtIn \in [Purchases -> 0 .. LastMonth] /\ Bought
  BY DEF TypedInv, KeyInv, TypeOK, ClockTypes
<1>k. UNCHANGED <<purchase, boughtIn>> => Bought'
  BY <1>0 DEF Bought
<1>1. CASE NextMonth \/ (\E t \in Clients, c \in Controls : SetControl(t, c))
           \/ UNCHANGED avars
  BY <1>k, <1>1 DEF NextMonth, SetControl, avars, vars, clocks
<1>2. ASSUME NEW e \in Events, Pay(e)
      PROVE  Bought'
  BY <1>k, <1>2 DEF Pay, ProcessVerifiedPayment, clocks
<1>3. ASSUME NEW r \in Runs, Refund(r) \/ \E c \in Credits : Settle(r, c)
      PROVE  Bought'
  BY <1>k, <1>3 DEF Refund, Settle, RefundRun, SettleRun, clocks
<1>4. ASSUME NEW t \in Tenants, NEW k \in PurchaseKeys, NEW l \in Listings, Purchase(t, k, l)
      PROVE  Bought'
  <2>1. /\ purchase' = [purchase EXCEPT ![<<t, k>>] = l]
        /\ boughtIn' = [boughtIn EXCEPT ![<<t, k>>] = month]
    BY <1>4 DEF Purchase, PurchaseListing
  <2> QED
    BY <1>0, <2>1 DEF Bought
<1>5. ASSUME NEW r \in Runs, Arrive(r) \/ CreateRun(r) \/ Crash(r)
      PROVE  Bought'
  <2>1. UNCHANGED clocks
    BY <1>5 DEF Arrive, CreateRun, Crash, BeginUnkeyed, LookUpKey, CheckRuns, ReadSpent,
       CheckCredits, Admit
  <2>2. CASE Admit(r)
    BY <1>k, <2>1, <2>2 DEF Admit, Reserve, clocks, vars
  <2>3. CASE ~Admit(r)
    BY <1>k, <1>5, <2>1, <2>3 DEF Arrive, CreateRun, Crash, BeginUnkeyed, LookUpKey, CheckRuns,
       ReadSpent, CheckCredits, clocks, vars
  <2> QED
    BY <2>2, <2>3
<1> QED
  BY <1>1, <1>2, <1>3, <1>4, <1>5 DEF AdmissionNext

LEMMA TypedInvStep ==
    ASSUME TypedInv, [AdmissionNext]_avars
    PROVE  TypedInv'
<1>1. KeyInv' /\ Bought'
  BY KeyStep, BoughtStep DEF TypedInv
<1>2. ClockTypes' /\ Checked'
  BY RequestTypes, WorldTypes
<1> QED
  BY <1>1, <1>2 DEF TypedInv

LEMMA AlwaysTypedInv == AdmissionSpec => []TypedInv
<1>1. AdmissionInit => TypedInv
  <2> SUFFICES ASSUME AdmissionInit PROVE TypedInv
    OBVIOUS
  <2> HIDE DEF DefaultControl
  <2>1. ClockTypes /\ Bought /\ Checked
    BY MonthAssumption DEF AdmissionInit, ClockTypes, Bought, Checked, Checks, Months
  <2> QED
    BY <2>1, InitKeyInv DEF TypedInv
<1>2. TypedInv /\ [AdmissionNext]_avars => TypedInv'
  BY TypedInvStep
<1> QED
  BY <1>1, <1>2, PTL DEF AdmissionSpec

\* Admission is type correct: whatever is asked for, in whatever month, no
\* query of the quota is over a row that is not there (commercial.py:136-160).
THEOREM AdmissionTypeCorrect == AdmissionSpec => []AdmissionTypeOK
<1>1. TypedInv => AdmissionTypeOK
  BY DEF TypedInv, KeyInv, KeyTypes, ClockTypes, AdmissionTypeOK
<1> QED
  BY <1>1, AlwaysTypedInv, PTL

-----------------------------------------------------------------------------
(* The limits of the month.  The advisory lock of a tenant and a month is  *)
(* held by one request; what it has counted is still true when it inserts  *)
(* its run, because only it may insert one that its queries would see.     *)

\* What is on hold for the runs one lock admitted.
HeldAlike(r) ==
    Total([s \in Runs |-> IF s \in AdmittedAlike(r) /\ IsOpen(s)
                          THEN reservation[s].amount ELSE 0])

RunsLeft(r) ==
    HoldsQuota(r) /\ limits[r].runs # NoLimit =>
        Cardinality(AdmittedAlike(r)) < limits[r].runs

CreditsLeft(r) ==
    pc[r] = "wallet" /\ limits[r].credits # NoLimit =>
        spent[r] + HeldAlike(r) + Request[r].amount <= limits[r].credits

NoRunYet(r) == pc[r] # "done" => ~Exists(r)

QuotaLocked(r, s) ==
    r # s /\ Owner[r] = Owner[s] /\ checked[r] = checked[s] => ~(HoldsQuota(r) /\ HoldsQuota(s))

QuotaInv ==
    /\ \A r \in Runs : NoRunYet(r) /\ RunsLeft(r) /\ CreditsLeft(r)
    /\ \A r, s \in Runs : QuotaLocked(r, s)

AdmissionInv == TypedInv /\ QuotaInv

\* What a step leaves of a request that does not move.
Same(s) ==
    /\ pc'[s] = pc[s] /\ created'[s] = created[s] /\ checked'[s] = checked[s]
    /\ limits'[s] = limits[s] /\ spent'[s] = spent[s]

\* No run comes into being, and no reservation is opened or changed.
NoneAdmitted ==
    \A s \in Runs :
        /\ Exists(s)' = Exists(s)
        /\ Exists(s) => created'[s] = created[s] /\ checked'[s] = checked[s]
        /\ reservation'[s].status = "reserved" =>
              reservation[s].status = "reserved" /\ reservation'[s].amount = reservation[s].amount

\* The statements of a request, as far as the quota is concerned.
PassesRuns(r) ==
    /\ pc[r] = "quota" /\ QuotaFree(r) /\ pc'[r] \in {"spent", "wallet"}
    /\ created' = created /\ checked' = checked
    /\ limits'[r].runs # NoLimit => RunsSince(Owner[r], checked[r]) < limits'[r].runs
    /\ pc'[r] = "wallet" => limits'[r].credits = NoLimit

PassesCredits(r) ==
    /\ pc[r] = "open" /\ pc'[r] = "wallet" /\ UNCHANGED locals
    /\ spent[r] + OpenSince(Owner[r], checked[r]) + Request[r].amount <= limits[r].credits

Reads(r) ==
    /\ pc[r] = "spent" /\ pc'[r] = "open"
    /\ limits' = limits /\ created' = created /\ checked' = checked

Inserts(r) ==
    /\ pc[r] = "wallet" /\ pc'[r] = "done" /\ UNCHANGED <<created, checked>>
    /\ reservation[r].status = "none"
    /\ reservation' = [reservation EXCEPT ![r] =
           [status |-> "reserved", amount |-> Request[r].amount, settled_amount |-> 0]]

LEMMA AnswerSame ==
    ASSUME TypedInv, NEW r \in Runs, NEW a, Answer(r, a), NEW s \in Runs, s # r
    PROVE  Same(s)
<1>1. /\ pc' = [pc EXCEPT ![r] = "done"]
      /\ limits' = [limits EXCEPT ![r] = DefaultControl]
      /\ spent' = [spent EXCEPT ![r] = 0]
      /\ \/ UNCHANGED <<created, checked>>
         \/ created' = [created EXCEPT ![r] = 0] /\ checked' = [checked EXCEPT ![r] = 0]
  BY DEF Answer, Go
<1> QED
  BY <1>1 DEF TypedInv, ClockTypes, KeyInv, KeyTypes, Same

LEMMA StatementSame ==
    ASSUME TypedInv, NEW r \in Runs, Arrive(r) \/ CreateRun(r) \/ Crash(r),
           NEW s \in Runs, s # r
    PROVE  Same(s)
<1>0. ClockTypes /\ KeyTypes
  BY DEF TypedInv, KeyInv
<1>1. CASE Arrive(r)
  BY <1>0, <1>1 DEF Arrive, Go, ClockTypes, KeyTypes, Same
<1>2. CASE BeginUnkeyed(r)
  BY <1>0, <1>2 DEF BeginUnkeyed, Go, ClockTypes, KeyTypes, Same
<1>3. CASE LookUpKey(r)
  <2>1. \/ \E a : Answer(r, a)
        \/ /\ UNCHANGED <<created, limits, spent>> /\ checked' = [checked EXCEPT ![r] = month]
           /\ pc' = [pc EXCEPT ![r] = "quota"]
    BY <1>3 DEF LookUpKey, Go
  <2> QED
    BY <1>0, <2>1, AnswerSame DEF ClockTypes, KeyTypes, Same
<1>4. CASE CheckRuns(r)
  <2>1. \/ \E a : Answer(r, a)
        \/ /\ UNCHANGED <<created, checked, spent>>
           /\ limits' = [limits EXCEPT ![r] = control[Owner[r]]]
           /\ \E to : pc' = [pc EXCEPT ![r] = to]
    BY <1>4 DEF CheckRuns, Go
  <2> QED
    BY <1>0, <2>1, AnswerSame DEF ClockTypes, KeyTypes, Same
<1>5. CASE ReadSpent(r)
  <2>1. /\ UNCHANGED <<created, checked, limits>> /\ \E n : spent' = [spent EXCEPT ![r] = n]
        /\ pc' = [pc EXCEPT ![r] = "open"]
    BY <1>5 DEF ReadSpent, Go
  <2> QED
    BY <1>0, <2>1 DEF ClockTypes, KeyTypes, Same
<1>6. CASE CheckCredits(r)
  <2>1. \/ \E a : Answer(r, a)
        \/ UNCHANGED locals /\ pc' = [pc EXCEPT ![r] = "wallet"]
    BY <1>6 DEF CheckCredits, Go
  <2> QED
    BY <1>0, <2>1, AnswerSame DEF ClockTypes, KeyTypes, Same, locals
<1>7. CASE Admit(r) \/ Crash(r)
  <2>1. \E a : Answer(r, a)
    BY <1>7 DEF Admit, Crash
  <2> QED
    BY <2>1, AnswerSame
<1> QED
  BY <1>1, <1>2, <1>3, <1>4, <1>5, <1>6, <1>7 DEF CreateRun

LEMMA Statements ==
    ASSUME TypedInv, NEW r \in Runs, Arrive(r) \/ CreateRun(r) \/ Crash(r)
    PROVE  /\ pc[r] # "done"
           /\ \/ Inserts(r)
              \/ /\ reservation' = reservation
                 /\ \/ pc'[r] \notin {"spent", "open", "wallet"}
                    \/ PassesRuns(r) \/ Reads(r) \/ PassesCredits(r)
<1>0. ClockTypes /\ KeyTypes
  BY DEF TypedInv, KeyInv
<1>a. ASSUME NEW a, Answer(r, a)
      PROVE  pc'[r] = "done"
  BY <1>a, AnswerTypes
<1>1. CASE Arrive(r) \/ BeginUnkeyed(r) \/ LookUpKey(r) \/ Crash(r)
  <2>1. /\ pc[r] # "done" /\ reservation' = reservation
        /\ (\E a : Answer(r, a)) \/ Go(r, "key") \/ Go(r, "begin") \/ Go(r, "quota")
    BY <1>1 DEF Arrive, BeginUnkeyed, LookUpKey, Crash, vars
  <2>2. pc'[r] \in {"done", "key", "begin", "quota"}
    BY <1>0, <1>a, <2>1 DEF Go, KeyTypes
  <2> QED
    BY <2>1, <2>2
<1>2. CASE CheckRuns(r)
  <2>1. pc[r] = "quota" /\ QuotaFree(r) /\ reservation' = reservation
    BY <1>2 DEF CheckRuns, vars
  <2>2. CASE \E a : Answer(r, a)
    BY <1>a, <2>1, <2>2
  <2>3. CASE /\ control[Owner[r]].runs # NoLimit =>
                   RunsSince(Owner[r], checked[r]) < control[Owner[r]].runs
             /\ limits' = [limits EXCEPT ![r] = control[Owner[r]]]
             /\ Go(r, IF control[Owner[r]].credits = NoLimit THEN "wallet" ELSE "spent")
             /\ UNCHANGED <<created, checked, spent, answer>>
    <3>1. limits'[r] = control[Owner[r]]
      BY <1>0, <2>3 DEF ClockTypes
    <3>2. pc'[r] = IF control[Owner[r]].credits = NoLimit THEN "wallet" ELSE "spent"
      BY <1>0, <2>3 DEF Go, KeyTypes
    <3>3. PassesRuns(r)
      BY <2>1, <2>3, <3>1, <3>2 DEF PassesRuns
    <3> QED
      BY <2>1, <3>3
  <2> QED
    BY <1>2, <2>2, <2>3 DEF CheckRuns
<1>3. CASE ReadSpent(r)
  <2>1. pc'[r] = "open"
    BY <1>0, <1>3 DEF ReadSpent, Go, KeyTypes
  <2> QED
    BY <1>3, <2>1 DEF ReadSpent, Reads, vars
<1>4. CASE CheckCredits(r)
  <2>1. pc[r] = "open" /\ reservation' = reservation
    BY <1>4 DEF CheckCredits, vars
  <2>2. CASE \E a : Answer(r, a)
    BY <1>a, <2>1, <2>2
  <2>3. CASE /\ spent[r] + OpenSince(Owner[r], checked[r]) + Request[r].amount
                  <= limits[r].credits
             /\ Go(r, "wallet") /\ UNCHANGED <<locals, answer>>
    <3>1. pc'[r] = "wallet"
      BY <1>0, <2>3 DEF Go, KeyTypes
    <3> QED
      BY <2>1, <2>3, <3>1 DEF PassesCredits
  <2> QED
    BY <1>4, <2>2, <2>3 DEF CheckCredits
<1>5. CASE Admit(r)
  <2>1. pc[r] = "wallet" /\ \E a : Answer(r, a)
    BY <1>5 DEF Admit
  <2>2. CASE UNCHANGED vars
    BY <1>a, <2>1, <2>2 DEF vars
  <2>3. CASE Reserve(r, Request[r].amount) /\ Answer(r, "created")
    BY <1>a, <2>1, <2>3 DEF Inserts, Reserve, Answer
  <2> QED
    BY <1>5, <2>2, <2>3 DEF Admit
<1> QED
  BY <1>1, <1>2, <1>3, <1>4, <1>5 DEF CreateRun

LEMMA WorldSame ==
    ASSUME TypedInv, [AdmissionNext]_avars,
           ~ \E r \in Runs : Arrive(r) \/ CreateRun(r) \/ Crash(r)
    PROVE  UNCHANGED <<locals, pc>> /\ NoneAdmitted
<1>0. TypeOK
  BY DEF TypedInv, KeyInv
<1>q. ASSUME UNCHANGED <<locals, pc>>, reservation' = reservation
      PROVE  UNCHANGED <<locals, pc>> /\ NoneAdmitted
  BY <1>q DEF NoneAdmitted, Exists, locals
<1>1. CASE NextMonth \/ (\E t \in Clients, c \in Controls : SetControl(t, c))
           \/ (\E e \in Events : Pay(e)) \/ UNCHANGED avars
  BY <1>q, <1>1 DEF NextMonth, SetControl, Pay, ProcessVerifiedPayment, avars, vars
<1>2. ASSUME NEW q \in Runs, NEW c \in Credits, Settle(q, c)
      PROVE  UNCHANGED <<locals, pc>> /\ NoneAdmitted
  <2>1. /\ UNCHANGED <<locals, pc>> /\ reservation[q].status = "reserved"
        /\ reservation' = [reservation EXCEPT ![q] =
               [status |-> "settled", amount |-> reservation[q].amount, settled_amount |-> c]]
    BY <1>2 DEF Settle, SettleRun, IsOpen
  <2> QED
    BY <1>0, <2>1 DEF NoneAdmitted, Exists, TypeOK, locals
<1>3. ASSUME NEW q \in Runs, Refund(q)
      PROVE  UNCHANGED <<locals, pc>> /\ NoneAdmitted
  <2>1. /\ UNCHANGED <<locals, pc>> /\ reservation[q].status = "reserved"
        /\ reservation' = [reservation EXCEPT ![q] =
               [status |-> "refunded", amount |-> reservation[q].amount,
                settled_amount |-> @.settled_amount]]
    BY <1>3 DEF Refund, RefundRun, IsOpen
  <2> QED
    BY <1>0, <2>1 DEF NoneAdmitted, Exists, TypeOK, locals
<1>4. ASSUME NEW t \in Tenants, NEW k \in PurchaseKeys, NEW l \in Listings, Purchase(t, k, l)
      PROVE  UNCHANGED <<locals, pc>> /\ NoneAdmitted
  BY <1>q, <1>4 DEF Purchase, PurchaseListing
<1> QED
  BY <1>1, <1>2, <1>3, <1>4 DEF AdmissionNext

HeldColumn(r) == [s \in Runs |-> IF s \in AdmittedAlike(r) /\ IsOpen(s)
                                 THEN reservation[s].amount ELSE 0]

LEMMA ColumnType ==
    ASSUME TypedInv, NEW r \in Runs
    PROVE  HeldColumn(r) \in [Runs -> 0 .. MaxCredits] /\ HeldAlike(r) \in Nat
<1>1. HeldColumn(r) \in [Runs -> 0 .. MaxCredits]
  BY CreditsAssumption DEF HeldColumn, TypedInv, KeyInv, TypeOK, Credits
<1>2. HeldAlike(r) = Total(HeldColumn(r))
  BY DEF HeldAlike, HeldColumn
<1> QED
  BY <1>1, <1>2, FiniteAssumption, CreditsAssumption, TotalType

LEMMA ColumnTypeNext ==
    ASSUME TypedInv', NEW r \in Runs
    PROVE  HeldColumn(r)' \in [Runs -> 0 .. MaxCredits]
<1>1. \A s \in Runs : reservation'[s].amount \in 0 .. MaxCredits
  BY DEF TypedInv, KeyInv, TypeOK, Credits
<1>2. 0 \in 0 .. MaxCredits
  BY CreditsAssumption
<1> QED
  BY <1>1, <1>2 DEF HeldColumn

LEMMA AlikeFinite ==
    ASSUME NEW r \in Runs
    PROVE  IsFiniteSet(AdmittedAlike(r)) /\ Cardinality(AdmittedAlike(r)) \in Nat
<1>1. AdmittedAlike(r) \in SUBSET Runs
  BY DEF AdmittedAlike
<1> QED
  BY <1>1, FiniteAssumption, FS_Subset, FS_CardinalityType

\* What a query counts is at least what its lock admitted.
LEMMA CountsAlike ==
    ASSUME NEW r \in Runs
    PROVE  Cardinality(AdmittedAlike(r)) <= RunsSince(Owner[r], checked[r])
<1> DEFINE seen == {s \in Runs : Owner[s] = Owner[r] /\ Exists(s) /\ created[s] >= checked[r]}
<1>1. seen \in SUBSET Runs /\ AdmittedAlike(r) \subseteq seen
  BY DEF AdmittedAlike
<1>2. IsFiniteSet(seen)
  BY <1>1, FiniteAssumption, FS_Subset
<1>3. Cardinality(AdmittedAlike(r)) <= Cardinality(seen)
  BY <1>1, <1>2, FS_Subset
<1> QED
  BY <1>3 DEF RunsSince

LEMMA HoldsAlike ==
    ASSUME TypedInv, NEW r \in Runs
    PROVE  /\ OpenSince(Owner[r], checked[r]) \in Nat
           /\ HeldAlike(r) <= OpenSince(Owner[r], checked[r])
<1> DEFINE g == [s \in Runs |-> IF Owner[s] = Owner[r] /\ IsOpen(s) /\ created[s] >= checked[r]
                                THEN reservation[s].amount ELSE 0]
           f == HeldColumn(r)
<1>1. g \in [Runs -> 0 .. MaxCredits]
  BY CreditsAssumption DEF TypedInv, KeyInv, TypeOK, Credits
<1>2. f \in [Runs -> 0 .. MaxCredits]
  BY ColumnType
<1>3. \A s \in Runs : f[s] <= g[s]
  <2>1. \A s \in Runs : reservation[s].amount \in Nat
    BY CreditsAssumption DEF TypedInv, KeyInv, TypeOK, Credits
  <2> QED
    BY <2>1 DEF HeldColumn, AdmittedAlike
<1>4. Total(f) = HeldAlike(r) /\ Total(g) = OpenSince(Owner[r], checked[r])
  BY Zenon DEF HeldColumn, HeldAlike, OpenSince
<1> HIDE DEF f, g
<1>5. Total(f) <= Total(g) /\ Total(g) \in Nat
  BY <1>1, <1>2, <1>3, FiniteAssumption, CreditsAssumption, TotalMonotone, TotalType
<1> QED
  BY <1>4, <1>5

LEMMA AlikeKept ==
    ASSUME TypedInv, NEW r \in Runs, checked'[r] = checked[r], NoneAdmitted
    PROVE  AdmittedAlike(r)' = AdmittedAlike(r)
  BY DEF NoneAdmitted, AdmittedAlike

LEMMA HeldKept ==
    ASSUME TypedInv, TypedInv', NEW r \in Runs, checked'[r] = checked[r], NoneAdmitted
    PROVE  HeldAlike(r)' \in Nat /\ HeldAlike(r)' <= HeldAlike(r)
<1>1. PICK f : f = HeldColumn(r)
  OBVIOUS
<1>2. PICK g : g = HeldColumn(r)'
  OBVIOUS
<1>3. AdmittedAlike(r)' = AdmittedAlike(r)
  BY AlikeKept
<1>4. f \in [Runs -> 0 .. MaxCredits] /\ g \in [Runs -> 0 .. MaxCredits]
  BY <1>1, <1>2, ColumnType, ColumnTypeNext
<1>5. ASSUME NEW s \in Runs
      PROVE  g[s] <= f[s]
  <2>1. f[s] = IF s \in AdmittedAlike(r) /\ reservation[s].status = "reserved"
               THEN reservation[s].amount ELSE 0
    BY <1>1 DEF HeldColumn, IsOpen
  <2>2. g[s] = IF s \in AdmittedAlike(r) /\ reservation'[s].status = "reserved"
               THEN reservation'[s].amount ELSE 0
    BY <1>2, <1>3 DEF HeldColumn, IsOpen
  <2>3. reservation'[s].status = "reserved" =>
           reservation[s].status = "reserved" /\ reservation'[s].amount = reservation[s].amount
    BY DEF NoneAdmitted
  <2> QED
    BY <1>4, <2>1, <2>2, <2>3
<1>6. Total(g) <= Total(f) /\ Total(g) \in Nat
  BY <1>4, <1>5, FiniteAssumption, CreditsAssumption, TotalMonotone, TotalType
<1>7. HeldAlike(r) = Total(f) /\ HeldAlike(r)' = Total(g)
  BY <1>1, <1>2 DEF HeldAlike, HeldColumn
<1> QED
  BY <1>6, <1>7

\* A run that another lock admits is none of these.
LEMMA InsertedAway ==
    ASSUME TypedInv, NEW p \in Runs, NEW r \in Runs, p # r, Inserts(p),
           ~(Owner[p] = Owner[r] /\ checked[p] = checked[r])
    PROVE  AdmittedAlike(r)' = AdmittedAlike(r) /\ HeldAlike(r)' = HeldAlike(r)
<1>1. /\ \A s \in Runs : s # p => reservation'[s] = reservation[s]
      /\ created' = created /\ checked' = checked
  BY DEF Inserts, TypedInv, KeyInv, TypeOK
<1>2. p \notin AdmittedAlike(r) /\ p \notin AdmittedAlike(r)'
  BY <1>1 DEF AdmittedAlike
<1>3. \A s \in Runs : s # p => (s \in AdmittedAlike(r)' <=> s \in AdmittedAlike(r))
  BY <1>1 DEF AdmittedAlike, Exists
<1>4. AdmittedAlike(r)' = AdmittedAlike(r)
  <2>1. AdmittedAlike(r) \subseteq Runs /\ AdmittedAlike(r)' \subseteq Runs
    BY DEF AdmittedAlike
  <2> QED
    BY <1>2, <1>3, <2>1
<1>5. HeldColumn(r)' = HeldColumn(r)
  BY <1>1, <1>2, <1>4 DEF HeldColumn, IsOpen
<1> QED
  BY <1>4, <1>5 DEF HeldAlike, HeldColumn

\* A run that is admitted counts once, with what it reserves.
LEMMA InsertedHere ==
    ASSUME TypedInv, TypedInv', NEW r \in Runs, Inserts(r)
    PROVE  /\ Cardinality(AdmittedAlike(r))' \in Nat
           /\ Cardinality(AdmittedAlike(r))' <= Cardinality(AdmittedAlike(r)) + 1
           /\ HeldAlike(r)' \in Nat
           /\ HeldAlike(r)' <= HeldAlike(r) + Request[r].amount
<1>1. /\ \A s \in Runs : s # r => reservation'[s] = reservation[s]
      /\ reservation[r].status = "none"
      /\ reservation'[r].status = "reserved" /\ reservation'[r].amount = Request[r].amount
      /\ created' = created /\ checked' = checked
  BY DEF Inserts, TypedInv, KeyInv, TypeOK
<1>2. /\ r \notin AdmittedAlike(r)
      /\ \A s \in Runs : s # r => (s \in AdmittedAlike(r)' <=> s \in AdmittedAlike(r))
  BY <1>1 DEF AdmittedAlike, Exists
<1>3. AdmittedAlike(r)' \subseteq AdmittedAlike(r) \cup {r}
  <2>1. AdmittedAlike(r)' \subseteq Runs
    BY DEF AdmittedAlike
  <2> QED
    BY <1>2, <2>1
<1>4. PICK new : new = AdmittedAlike(r)'
  OBVIOUS
<1>5. PICK old : old = AdmittedAlike(r)
  OBVIOUS
<1>6. IsFiniteSet(old) /\ IsFiniteSet(old \cup {r}) /\ Cardinality(old) \in Nat
      /\ Cardinality(old \cup {r}) = Cardinality(old) + 1
  <2>1. IsFiniteSet(old) /\ r \notin old /\ Cardinality(old) \in Nat
    BY <1>2, <1>5, AlikeFinite
  <2> QED
    BY <2>1, FS_AddElement
<1>7. Cardinality(new) \in Nat /\ Cardinality(new) <= Cardinality(old) + 1
  <2>1. new \in SUBSET (old \cup {r})
    BY <1>3, <1>4, <1>5
  <2> QED
    BY <1>6, <2>1, FS_Subset, FS_CardinalityType
<1>8. PICK f : f = HeldColumn(r)
  OBVIOUS
<1>9. PICK g : g = HeldColumn(r)'
  OBVIOUS
<1>10. /\ f \in [Runs -> 0 .. MaxCredits] /\ g \in [Runs -> 0 .. MaxCredits]
       /\ \A s \in Runs \ {r} : g[s] = f[s]
       /\ f[r] = 0 /\ g[r] \in {0, Request[r].amount}
  <2>1. f \in [Runs -> 0 .. MaxCredits] /\ g \in [Runs -> 0 .. MaxCredits]
    BY <1>8, <1>9, ColumnType, ColumnTypeNext
  <2>2. f[r] = 0
    BY <1>2, <1>8 DEF HeldColumn
  <2>3. g[r] \in {0, Request[r].amount}
    BY <1>1, <1>9 DEF HeldColumn
  <2>4. \A s \in Runs \ {r} : g[s] = f[s]
    BY <1>1, <1>2, <1>8, <1>9 DEF HeldColumn, IsOpen
  <2> QED
    BY <2>1, <2>2, <2>3, <2>4
<1>11. Total(g) = Total(f) - f[r] + g[r] /\ Total(f) \in Nat /\ Total(g) \in Nat
  BY <1>10, FiniteAssumption, CreditsAssumption, TotalUpdate, TotalType
<1>12. HeldAlike(r) = Total(f) /\ HeldAlike(r)' = Total(g)
  BY <1>8, <1>9 DEF HeldAlike, HeldColumn
<1>13. HeldAlike(r)' \in Nat /\ HeldAlike(r)' <= HeldAlike(r) + Request[r].amount
  <2>1. Request[r].amount \in Nat
    BY AmountType
  <2> QED
    BY <1>10, <1>11, <1>12, <2>1
<1> QED
  BY <1>4, <1>5, <1>7, <1>13

\* A request that does not move, while no run its lock would see is admitted.
LEMMA StillLeft ==
    ASSUME AdmissionInv, TypedInv', NEW r \in Runs, Same(r),
           \/ NoneAdmitted
           \/ \E p \in Runs : p # r /\ Inserts(p)
    PROVE  RunsLeft(r)' /\ CreditsLeft(r)'
<1>0. /\ HoldsQuota(r)' = HoldsQuota(r) /\ limits'[r] = limits[r] /\ spent'[r] = spent[r]
      /\ pc'[r] = pc[r] /\ checked'[r] = checked[r]
  BY DEF Same, HoldsQuota
<1>1. HoldsQuota(r) => /\ AdmittedAlike(r)' = AdmittedAlike(r)
                       /\ HeldAlike(r)' \in Nat /\ HeldAlike(r)' <= HeldAlike(r)
  <2>1. CASE NoneAdmitted
    BY <1>0, <2>1, AlikeKept, HeldKept DEF AdmissionInv
  <2>2. ASSUME NEW p \in Runs, p # r, Inserts(p), HoldsQuota(r)
        PROVE  AdmittedAlike(r)' = AdmittedAlike(r) /\ HeldAlike(r)' = HeldAlike(r)
    <3>1. HoldsQuota(p) /\ QuotaLocked(p, r)
      BY <2>2 DEF Inserts, HoldsQuota, AdmissionInv, QuotaInv
    <3>2. ~(Owner[p] = Owner[r] /\ checked[p] = checked[r])
      BY <2>2, <3>1 DEF QuotaLocked
    <3> QED
      BY <2>2, <3>2, InsertedAway DEF AdmissionInv
  <2>3. HeldAlike(r) \in Nat
    BY ColumnType DEF AdmissionInv
  <2> QED
    BY <2>1, <2>2, <2>3
<1>2. RunsLeft(r)'
  BY <1>0, <1>1 DEF RunsLeft, AdmissionInv, QuotaInv
<1>3. ASSUME pc[r] = "wallet", limits[r].credits # NoLimit
      PROVE  spent[r] + HeldAlike(r)' + Request[r].amount <= limits[r].credits
  <2>1. HoldsQuota(r) /\ spent[r] + HeldAlike(r) + Request[r].amount <= limits[r].credits
    BY <1>3 DEF HoldsQuota, CreditsLeft, AdmissionInv, QuotaInv
  <2>2. /\ spent[r] \in Nat /\ HeldAlike(r) \in Nat /\ Request[r].amount \in Nat
        /\ limits[r].credits \in Nat
    <3>1. limits[r] \in Controls \cup {DefaultControl}
      BY DEF AdmissionInv, TypedInv, ClockTypes
    <3>2. limits[r].credits \in Nat
      BY <1>3, <3>1, ControlsAssumption DEF DefaultControl
    <3> QED
      BY <3>2, ColumnType, AmountType DEF AdmissionInv, TypedInv, ClockTypes
  <2> QED
    BY <1>1, <2>1, <2>2
<1>4. CreditsLeft(r)'
  BY <1>0, <1>3 DEF CreditsLeft
<1> QED
  BY <1>2, <1>4

LEMMA LimitTypes ==
    ASSUME TypedInv, NEW r \in Runs
    PROVE  /\ limits[r].runs # NoLimit => limits[r].runs \in Nat
           /\ limits[r].credits # NoLimit => limits[r].credits \in Nat
<1>1. limits[r] \in Controls \cup {DefaultControl}
  BY DEF TypedInv, ClockTypes
<1> QED
  BY <1>1, ControlsAssumption DEF DefaultControl

LEMMA LimitTypesNext ==
    ASSUME TypedInv', NEW r \in Runs
    PROVE  /\ limits'[r].runs # NoLimit => limits'[r].runs \in Nat
           /\ limits'[r].credits # NoLimit => limits'[r].credits \in Nat
<1>1. limits'[r] \in Controls \cup {DefaultControl}
  BY DEF TypedInv, ClockTypes
<1> QED
  BY <1>1, ControlsAssumption DEF DefaultControl

\* The request that moves.
LEMMA MovedLeft ==
    ASSUME AdmissionInv, TypedInv', NEW r \in Runs, NoneAdmitted,
           \/ pc'[r] \notin {"spent", "open", "wallet"}
           \/ PassesRuns(r) \/ Reads(r) \/ PassesCredits(r)
    PROVE  RunsLeft(r)' /\ CreditsLeft(r)'
<1>1. CASE pc'[r] \notin {"spent", "open", "wallet"}
  BY <1>1 DEF RunsLeft, CreditsLeft, HoldsQuota
<1>2. CASE PassesRuns(r)
  <2>1. AdmittedAlike(r)' = AdmittedAlike(r)
    BY <1>2, AlikeKept DEF PassesRuns, AdmissionInv
  <2>2. limits'[r].runs # NoLimit => Cardinality(AdmittedAlike(r)) < limits'[r].runs
    <3>1. /\ Cardinality(AdmittedAlike(r)) <= RunsSince(Owner[r], checked[r])
          /\ RunsSince(Owner[r], checked[r]) \in Nat
      <4>1. {s \in Runs : Owner[s] = Owner[r] /\ Exists(s) /\ created[s] >= checked[r]}
               \in SUBSET Runs
        OBVIOUS
      <4> QED
        BY <4>1, CountsAlike, FiniteAssumption, FS_Subset, FS_CardinalityType DEF RunsSince
    <3>2. Cardinality(AdmittedAlike(r)) \in Nat
      BY AlikeFinite
    <3> QED
      BY <1>2, <3>1, <3>2, LimitTypesNext DEF PassesRuns
  <2>3. pc'[r] = "wallet" => limits'[r].credits = NoLimit
    BY <1>2 DEF PassesRuns
  <2> QED
    BY <2>1, <2>2, <2>3 DEF RunsLeft, CreditsLeft
<1>3. CASE Reads(r)
  <2>1. AdmittedAlike(r)' = AdmittedAlike(r) /\ limits'[r] = limits[r] /\ HoldsQuota(r)
        /\ pc'[r] = "open"
    BY <1>3, AlikeKept DEF Reads, AdmissionInv, HoldsQuota
  <2>2. RunsLeft(r)
    BY DEF AdmissionInv, QuotaInv
  <2> QED
    BY <2>1, <2>2 DEF RunsLeft, CreditsLeft
<1>4. CASE PassesCredits(r)
  <2>1. /\ AdmittedAlike(r)' = AdmittedAlike(r) /\ limits'[r] = limits[r] /\ HoldsQuota(r)
        /\ spent'[r] = spent[r] /\ HeldAlike(r)' \in Nat /\ HeldAlike(r)' <= HeldAlike(r)
    BY <1>4, AlikeKept, HeldKept DEF PassesCredits, AdmissionInv, HoldsQuota, locals
  <2>2. RunsLeft(r)
    BY DEF AdmissionInv, QuotaInv
  <2>3. limits[r].credits # NoLimit =>
           spent[r] + HeldAlike(r)' + Request[r].amount <= limits[r].credits
    <3>1. /\ spent[r] \in Nat /\ HeldAlike(r) \in Nat /\ Request[r].amount \in Nat
          /\ OpenSince(Owner[r], checked[r]) \in Nat
          /\ HeldAlike(r) <= OpenSince(Owner[r], checked[r])
      BY ColumnType, AmountType, HoldsAlike DEF AdmissionInv, TypedInv, ClockTypes
    <3>2. limits[r].credits # NoLimit => limits[r].credits \in Nat
      BY LimitTypes DEF AdmissionInv
    <3> QED
      BY <1>4, <2>1, <3>1, <3>2 DEF PassesCredits
  <2> QED
    BY <2>1, <2>2, <2>3 DEF RunsLeft, CreditsLeft
<1> QED
  BY <1>1, <1>2, <1>3, <1>4

\* The lock of a tenant and a month, when one request moves.
LEMMA LockStep ==
    ASSUME AdmissionInv, NEW p \in Runs, \A s \in Runs \ {p} : Same(s),
           \/ pc'[p] \notin {"spent", "open", "wallet"}
           \/ PassesRuns(p) \/ Reads(p) \/ PassesCredits(p)
    PROVE  \A r, s \in Runs : QuotaLocked(r, s)'
<1>1. \A r, s \in Runs : r # p /\ s # p => QuotaLocked(r, s)'
  BY DEF AdmissionInv, QuotaInv, QuotaLocked, Same, HoldsQuota
<1>2. ASSUME NEW s \in Runs, s # p
      PROVE  (QuotaLocked(p, s))'
  <2>1. /\ pc'[s] = pc[s] /\ checked'[s] = checked[s]
        /\ QuotaLocked(p, s)
    BY <1>2 DEF Same, AdmissionInv, QuotaInv
  <2>2. CASE pc'[p] \notin {"spent", "open", "wallet"}
    BY <2>2 DEF QuotaLocked, HoldsQuota
  <2>3. CASE PassesRuns(p)
    <3>1. Owner[s] = Owner[p] /\ checked[s] = checked[p] => ~HoldsQuota(s)
      BY <1>2, <2>3 DEF PassesRuns, QuotaFree
    <3> QED
      BY <2>1, <2>3, <3>1 DEF PassesRuns, QuotaLocked, HoldsQuota
  <2>4. CASE Reads(p) \/ PassesCredits(p)
    BY <2>1, <2>4 DEF Reads, PassesCredits, QuotaLocked, HoldsQuota, locals
  <2> QED
    BY <2>2, <2>3, <2>4
<1>3. \A s \in Runs : QuotaLocked(s, p)' <=> QuotaLocked(p, s)'
  BY DEF QuotaLocked
<1>4. QuotaLocked(p, p)'
  BY DEF QuotaLocked
<1> QED
  BY <1>1, <1>2, <1>3, <1>4

LEMMA QuotaStep ==
    ASSUME AdmissionInv, TypedInv', [AdmissionNext]_avars
    PROVE  QuotaInv'
<1>1. CASE ~ \E r \in Runs : Arrive(r) \/ CreateRun(r) \/ Crash(r)
  <2>1. UNCHANGED <<locals, pc>> /\ NoneAdmitted
    BY <1>1, WorldSame DEF AdmissionInv
  <2>2. \A s \in Runs : Same(s)
    BY <2>1 DEF Same, locals
  <2>3. \A r \in Runs : RunsLeft(r)' /\ CreditsLeft(r)'
    BY <2>1, <2>2, StillLeft
  <2>4. \A r \in Runs : NoRunYet(r)'
    BY <2>1, <2>2 DEF NoRunYet, NoneAdmitted, Same, AdmissionInv, QuotaInv
  <2>5. \A r, s \in Runs : QuotaLocked(r, s)'
    BY <2>2 DEF QuotaLocked, HoldsQuota, Same, AdmissionInv, QuotaInv
  <2> QED
    BY <2>3, <2>4, <2>5 DEF QuotaInv
<1>2. ASSUME NEW p \in Runs, Arrive(p) \/ CreateRun(p) \/ Crash(p)
      PROVE  QuotaInv'
  <2>1. \A s \in Runs \ {p} : Same(s)
    BY <1>2, StatementSame DEF AdmissionInv
  <2>2. /\ pc[p] # "done" /\ ~Exists(p)
        /\ \/ Inserts(p)
           \/ /\ reservation' = reservation
              /\ \/ pc'[p] \notin {"spent", "open", "wallet"}
                 \/ PassesRuns(p) \/ Reads(p) \/ PassesCredits(p)
    BY <1>2, Statements DEF AdmissionInv, QuotaInv, NoRunYet
  <2>3. CASE Inserts(p)
    <3>1. pc'[p] = "done" /\ \A s \in Runs \ {p} : reservation'[s] = reservation[s]
      BY <2>3 DEF Inserts, AdmissionInv, TypedInv, KeyInv, TypeOK
    <3>2. \A r \in Runs \ {p} : RunsLeft(r)' /\ CreditsLeft(r)'
      BY <2>1, <2>3, StillLeft
    <3>3. RunsLeft(p)' /\ CreditsLeft(p)' /\ NoRunYet(p)'
      BY <3>1 DEF RunsLeft, CreditsLeft, HoldsQuota, NoRunYet
    <3>4. \A r \in Runs \ {p} : NoRunYet(r)'
      BY <2>1, <3>1 DEF NoRunYet, Exists, Same, AdmissionInv, QuotaInv
    <3>5. \A r, s \in Runs : QuotaLocked(r, s)'
      BY <2>1, <3>1, LockStep
    <3> QED
      BY <3>2, <3>3, <3>4, <3>5 DEF QuotaInv
  <2>4. CASE /\ reservation' = reservation
             /\ \/ pc'[p] \notin {"spent", "open", "wallet"}
                \/ PassesRuns(p) \/ Reads(p) \/ PassesCredits(p)
    <3>1. NoneAdmitted
      BY <2>1, <2>2, <2>4 DEF NoneAdmitted, Exists, Same
    <3>2. \A r \in Runs \ {p} : RunsLeft(r)' /\ CreditsLeft(r)'
      BY <2>1, <3>1, StillLeft
    <3>3. RunsLeft(p)' /\ CreditsLeft(p)'
      BY <2>4, <3>1, MovedLeft
    <3>4. \A r \in Runs : NoRunYet(r)'
      BY <2>1, <2>2, <2>4 DEF NoRunYet, Exists, Same, AdmissionInv, QuotaInv
    <3>5. \A r, s \in Runs : QuotaLocked(r, s)'
      BY <2>1, <2>4, LockStep
    <3> QED
      BY <3>2, <3>3, <3>4, <3>5 DEF QuotaInv
  <2> QED
    BY <2>2, <2>3, <2>4
<1> QED
  BY <1>1, <1>2

LEMMA AlwaysAdmission == AdmissionSpec => []AdmissionInv
<1>1. AdmissionInit => QuotaInv
  BY DEF AdmissionInit, Init, QuotaInv, NoRunYet, RunsLeft, CreditsLeft, QuotaLocked, HoldsQuota,
         Exists
<1>2. TypedInv /\ TypedInv' /\ QuotaInv /\ [AdmissionNext]_avars => QuotaInv'
  BY QuotaStep DEF AdmissionInv
<1> QED
  BY <1>1, <1>2, AlwaysTypedInv, PTL DEF AdmissionSpec, AdmissionInv

\* The transaction that admits a request is the one that inserts its run.
LEMMA AdmitsInserts ==
    ASSUME AdmissionInv, [AdmissionNext]_avars, NEW r \in Runs, Admits(r)
    PROVE  Inserts(r)
<1>0. answer[r] = "none" /\ answer'[r] = "created" /\ KeyTypes
  BY DEF Admits, AdmissionInv, TypedInv, KeyInv
<1>1. \E p \in Runs : Arrive(p) \/ CreateRun(p) \/ Crash(p)
  <2>1. SUFFICES ASSUME ~ \E p \in Runs : Arrive(p) \/ CreateRun(p) \/ Crash(p)
                 PROVE  answer' = answer
    BY <1>0
  <2> QED
    BY <2>1, OthersQuiet DEF Quiet, AdmissionInv, TypedInv
<1>2. PICK p \in Runs : Arrive(p) \/ CreateRun(p) \/ Crash(p)
  BY <1>1
<1>3. ASSUME NEW a, Answer(p, a)
      PROVE  a = "created" /\ p = r
  BY <1>0, <1>3 DEF Answer, KeyTypes
<1>4. Admit(p)
  BY <1>0, <1>2, <1>3 DEF Arrive, CreateRun, Crash, BeginUnkeyed, LookUpKey, CheckRuns, ReadSpent,
     CheckCredits, Replays
<1>5. p = r /\ Reserve(r, Request[r].amount) /\ Answer(r, "created")
  BY <1>3, <1>4 DEF Admit
<1>6. pc'[r] = "done"
  BY <1>5, AnswerTypes DEF AdmissionInv
<1> QED
  BY <1>4, <1>5, <1>6 DEF Admit, Reserve, Answer, Inserts

\* However many requests are checked at the same time, the runs one month's
\* lock admits are never more than the control that was read with it allows
\* (commercial.py:123-144).
THEOREM RunLimitKept == AdmissionSpec => RunLimitHolds
<1>1. ASSUME AdmissionInv, TypedInv', [AdmissionNext]_avars
      PROVE  [\A r \in Runs :
                 Admits(r) /\ limits[r].runs # NoLimit =>
                     Cardinality(AdmittedAlike(r))' <= limits[r].runs]_avars
  <2>1. ASSUME NEW r \in Runs, Admits(r), limits[r].runs # NoLimit
        PROVE  Cardinality(AdmittedAlike(r))' <= limits[r].runs
    <3>1. Inserts(r)
      BY <1>1, <2>1, AdmitsInserts
    <3>2. /\ Cardinality(AdmittedAlike(r))' \in Nat
          /\ Cardinality(AdmittedAlike(r))' <= Cardinality(AdmittedAlike(r)) + 1
      BY <1>1, <3>1, InsertedHere DEF AdmissionInv
    <3>3. Cardinality(AdmittedAlike(r)) < limits[r].runs
      BY <1>1, <2>1, <3>1 DEF Inserts, HoldsQuota, RunsLeft, AdmissionInv, QuotaInv
    <3>4. Cardinality(AdmittedAlike(r)) \in Nat /\ limits[r].runs \in Nat
      BY <1>1, <2>1, AlikeFinite, LimitTypes DEF AdmissionInv
    <3> QED
      BY <3>2, <3>3, <3>4
  <2> QED
    BY <2>1
<1> QED
  BY <1>1, AlwaysAdmission, AlwaysTypedInv, PTL DEF AdmissionSpec, RunLimitHolds

\* When a run is admitted, what the tenant had spent when it was checked and
\* all that its lock's runs hold are within the control's credits, whatever
\* was settled, refunded or bought in between (commercial.py:146-169).
THEOREM CreditLimitKept == AdmissionSpec => HoldsWithinLimit
<1> DEFINE Within(r) ==
        spent[r] + Total([s \in Runs |-> IF s \in AdmittedAlike(r) /\ IsOpen(s)
                                         THEN reservation[s].amount ELSE 0])'
          <= limits[r].credits
<1>1. ASSUME AdmissionInv, TypedInv', [AdmissionNext]_avars
      PROVE  [\A r \in Runs : Admits(r) /\ limits[r].credits # NoLimit => Within(r)]_avars
  <2>1. ASSUME NEW r \in Runs, Admits(r), limits[r].credits # NoLimit
        PROVE  spent[r] + HeldAlike(r)' <= limits[r].credits
    <3>1. Inserts(r)
      BY <1>1, <2>1, AdmitsInserts
    <3>2. HeldAlike(r)' \in Nat /\ HeldAlike(r)' <= HeldAlike(r) + Request[r].amount
      BY <1>1, <3>1, InsertedHere DEF AdmissionInv
    <3>3. spent[r] + HeldAlike(r) + Request[r].amount <= limits[r].credits
      BY <1>1, <2>1, <3>1 DEF Inserts, CreditsLeft, AdmissionInv, QuotaInv
    <3>4. /\ HeldAlike(r) \in Nat /\ limits[r].credits \in Nat /\ Request[r].amount \in Nat
          /\ spent[r] \in Nat
      BY <1>1, <2>1, ColumnType, LimitTypes, AmountType DEF AdmissionInv, TypedInv, ClockTypes
    <3> QED
      BY <3>2, <3>3, <3>4
  <2> QED
    BY <2>1 DEF HeldAlike
<1> QED
  BY <1>1, AlwaysAdmission, AlwaysTypedInv, PTL DEF AdmissionSpec, HoldsWithinLimit
=============================================================================
