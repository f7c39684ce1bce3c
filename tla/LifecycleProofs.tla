-------------------------- MODULE LifecycleProofs ---------------------------
(***************************************************************************)
(* Theorems of RunLifecycle for any number of runs, skills, workers,       *)
(* dispatchers and operators, any costs and any set of faults.             *)
(***************************************************************************)
EXTENDS RunLifecycle, LedgerProofs

-----------------------------------------------------------------------------
(* Who moves.                                                              *)

WorkerStep(w) ==
    \/ \E r \in Runs : TakeJob(w, r)
    \/ ExecuteRun(w)
    \/ DatabaseRaises(w)
    \/ JobRaises(w)
    \/ JobTimesOut(w)
    \/ WorkerCrash(w)

\* The API, dispatchers, arq and the reaper.
OtherStep ==
    \/ \E e \in Events : ReceivePayment(e)
    \/ \E r \in Runs : \/ \E a \in Credits : CreateRun(r, a)
                       \/ CancelPending(r) \/ CancelActive(r)
                       \/ CancelRefund(r) \/ CancelCrash(r)
                       \/ AbandonJob(r) \/ ResultExpires(r) \/ Expire(r)
                       \/ Reap(r) \/ ReaperCrash(r)
    \/ \E d \in Dispatchers : Dispatch(d) \/ DispatcherCrash(d)
    \/ \E w \in Workers : LeaseExpires(w)

LEMMA StepCases ==
    ASSUME [LifecycleNext]_lvars
    PROVE  \/ OtherStep
           \/ \E w \in Workers : WorkerStep(w)
           \/ \E o \in Operators : Reconcile(o)
           \/ UNCHANGED lvars
  BY DEF LifecycleNext, OtherStep, WorkerStep

LEMMA OtherFrame ==
    ASSUME OtherStep
    PROVE  UNCHANGED <<worker, steps, operator>>
<1>1. ASSUME NEW e \in Events, ReceivePayment(e)
      PROVE  UNCHANGED <<worker, steps, operator>>
  BY <1>1 DEF ReceivePayment, control
<1>2. ASSUME NEW r \in Runs, NEW a \in Credits, CreateRun(r, a)
      PROVE  UNCHANGED <<worker, steps, operator>>
  BY <1>2 DEF CreateRun, control
<1>3. ASSUME NEW r \in Runs,
             CancelPending(r) \/ CancelActive(r) \/ CancelRefund(r) \/ CancelCrash(r)
      PROVE  UNCHANGED <<worker, steps, operator>>
  BY <1>3 DEF CancelPending, CancelActive, CancelRefund, CancelCrash, control
<1>4. ASSUME NEW r \in Runs, AbandonJob(r) \/ ResultExpires(r) \/ Expire(r)
      PROVE  UNCHANGED <<worker, steps, operator>>
  BY <1>4 DEF AbandonJob, ResultExpires, Expire, control
<1>5. ASSUME NEW r \in Runs, Reap(r) \/ ReaperCrash(r)
      PROVE  UNCHANGED <<worker, steps, operator>>
  BY <1>5 DEF Reap, ReaperCrash, ReaperSelect, ReaperRefund, ReaperRead, ReaperFail
<1>6. ASSUME NEW d \in Dispatchers, Dispatch(d) \/ DispatcherCrash(d)
      PROVE  UNCHANGED <<worker, steps, operator>>
  BY <1>6 DEF Dispatch, DispatchClaim, DispatchEnqueue, DispatchFails, DispatchRead,
              DispatchMark, DispatcherCrash, control
<1>7. ASSUME NEW w \in Workers, LeaseExpires(w)
      PROVE  UNCHANGED <<worker, steps, operator>>
  BY <1>7 DEF LeaseExpires, control
<1> QED
  BY <1>1, <1>2, <1>3, <1>4, <1>5, <1>6, <1>7 DEF OtherStep

LEMMA OperatorFrame ==
    ASSUME NEW o \in Operators, Reconcile(o)
    PROVE  UNCHANGED <<worker, steps>>
  BY DEF Reconcile, OperatorChecks, OperatorRefunds, OperatorFails, OperatorSettles,
         OperatorPartial, OperatorAborts

LEMMA WorkerFrame ==
    ASSUME NEW w \in Workers, WorkerStep(w)
    PROVE  UNCHANGED operator
<1>1. CASE (\E r \in Runs : TakeJob(w, r)) \/ JobRaises(w) \/ JobTimesOut(w) \/ WorkerCrash(w)
  BY <1>1 DEF TakeJob, JobRaises, JobTimesOut, WorkerCrash, control
<1>2. CASE BeginSkips(w) \/ BeginRuns(w) \/ BeginWedges(w) \/ Check(w) \/ Prepare(w)
  BY <1>2 DEF BeginSkips, BeginRuns, BeginWedges, Check, Prepare, control
<1>3. CASE Insert(w) \/ (\E c \in Charges : ProviderReturns(w, c)) \/ ProviderRaises(w)
  BY <1>3 DEF Insert, ProviderReturns, ProviderRaises, control
<1>4. CASE \/ Settle(w) \/ SettleRaises(w) \/ DatabaseRaises(w) \/ Record(w) \/ Finish(w)
           \/ RefundFailed(w)
           \/ Fail(w) \/ Block(w) \/ Return(w)
  BY <1>4 DEF Settle, SettleRaises, DatabaseRaises, Record, Finish, RefundFailed, Fail, Block,
     Return, control
<1> QED
  BY <1>1, <1>2, <1>3, <1>4 DEF WorkerStep, ExecuteRun

\* A failed transaction inside the try, and record(), only move the worker.
LEMMA OnlyMoves ==
    ASSUME NEW w \in Workers, DatabaseRaises(w) \/ Record(w)
    PROVE  /\ wpc[w] \in InsideTry \cup {"started"}
           /\ WorkerAt(w, "refund") \/ WorkerAt(w, "check") \/ WorkerAt(w, "done")
           /\ UNCHANGED <<money, runRow, expired, steps, outbox, queue, dispatcher, control>>
  BY DEF DatabaseRaises, Record, InsideTry

-----------------------------------------------------------------------------
(* What a worker and an operator have in hand.                             *)

WorkerPlaces == {"idle", "begin", "wedged", "started", "check", "prepare", "insert",
                 "await", "settle", "finish", "finished", "refund", "fail", "block", "done"}

InLoop == {"prepare", "insert", "await"}

WorkerInv ==
    /\ wpc \in [Workers -> WorkerPlaces]
    /\ wrun \in [Workers -> Runs \cup {NoRun}]
    /\ wstep \in [Workers -> Nat]
    /\ wtotal \in [Workers -> Nat]
    /\ stepCharge \in [Runs -> [Steps -> Nat]]
    /\ \A w \in Workers : /\ wpc[w] # "idle" => wrun[w] \in Runs
                          /\ wpc[w] \in InLoop => wstep[w] \in Steps

OperatorInv ==
    /\ opc \in [Operators -> {"idle", "act", "fail", "partial"}]
    /\ orun \in [Operators -> Runs \cup {NoRun}]
    /\ \A o \in Operators : opc[o] # "idle" => orun[o] \in Runs

LEMMA WorkerAtInv ==
    ASSUME WorkerInv, NEW w \in Workers, wpc[w] # "idle",
           NEW to \in WorkerPlaces, to \in InLoop => wstep[w] \in Steps,
           WorkerAt(w, to), stepCharge' \in [Runs -> [Steps -> Nat]]
    PROVE  WorkerInv'
  BY DEF WorkerInv, WorkerAt

LEMMA WorkerIdleInv ==
    ASSUME WorkerInv, NEW w \in Workers, WorkerIdle(w), stepCharge' = stepCharge
    PROVE  WorkerInv'
  BY DEF WorkerInv, WorkerIdle, WorkerPlaces, InLoop

LEMMA AccountInv ==
    ASSUME WorkerInv, NEW w \in Workers, wpc[w] # "idle", NEW cost \in Nat,
           Account(w, cost), stepCharge' \in [Runs -> [Steps -> Nat]]
    PROVE  WorkerInv'
<1>1. CASE cost > Remaining(w)
  BY <1>1, WorkerAtInv DEF Account, WorkerPlaces, InLoop
<1>2. CASE ~(cost > Remaining(w))
  <2>1. /\ wpc' = [wpc EXCEPT ![w] = "check"]
        /\ wtotal' = [wtotal EXCEPT ![w] = @ + cost]
        /\ wstep' = [wstep EXCEPT ![w] = @ + 1]
        /\ wrun' = wrun
    BY <1>2 DEF Account
  <2> QED
    BY <2>1 DEF WorkerInv, WorkerPlaces, InLoop
<1> QED
  BY <1>1, <1>2

LEMMA WorkerStepInv ==
    ASSUME WorkerInv, NEW w \in Workers, WorkerStep(w)
    PROVE  WorkerInv'
<1> USE DEF WorkerPlaces, InLoop
<1>1. stepCharge \in [Runs -> [Steps -> Nat]]
  BY DEF WorkerInv
<1>2. ASSUME NEW r \in Runs, TakeJob(w, r)
      PROVE  WorkerInv'
  BY <1>2 DEF TakeJob, WorkerInv, steps
<1>3. CASE BeginSkips(w) \/ JobRaises(w) \/ JobTimesOut(w) \/ WorkerCrash(w) \/ Return(w)
  BY <1>3, WorkerIdleInv DEF BeginSkips, JobRaises, JobTimesOut, WorkerCrash, Return, JobEnds, steps
<1>4. CASE BeginRuns(w) \/ BeginWedges(w)
  BY <1>1, <1>4, WorkerAtInv DEF BeginRuns, BeginWedges, steps
<1>5. CASE Check(w)
  <2>1. wpc[w] = "check" /\ stepCharge' = stepCharge
    BY <1>5 DEF Check, steps
  <2>2. CASE NextMove(w) = "execute"
    <3>1. wstep[w] \in Steps
      BY <2>2 DEF NextMove
    <3> QED
      BY <1>1, <1>5, <2>1, <2>2, <3>1, WorkerAtInv DEF Check
  <2>3. CASE NextMove(w) # "execute"
    BY <1>5, <2>1, <2>3 DEF Check, WorkerInv
  <2> QED
    BY <2>2, <2>3
<1>6. CASE Prepare(w)
  <2>1. /\ wpc[w] = "prepare" /\ stepCharge' = stepCharge
        /\ wrun[w] \in Runs /\ wstep[w] \in Steps
    BY <1>6 DEF Prepare, steps, WorkerInv
  <2>2. stepCharge[wrun[w]][wstep[w]] \in Nat
    BY <1>1, <2>1
  <2> QED
    BY <1>1, <1>6, <2>1, <2>2, WorkerAtInv, AccountInv DEF Prepare
<1>7. CASE Insert(w)
  <2>1. wpc[w] = "insert" /\ stepCharge' = stepCharge /\ wstep[w] \in Steps
    BY <1>7 DEF Insert, steps, WorkerInv
  <2> QED
    BY <1>1, <1>7, <2>1, WorkerAtInv DEF Insert
<1>8. ASSUME NEW c \in Charges, ProviderReturns(w, c)
      PROVE  WorkerInv'
  <2>1. c \in Nat
    BY ChargesAssumption, CreditsAssumption DEF Credits
  <2>2. stepCharge' \in [Runs -> [Steps -> Nat]]
    BY <1>1, <1>8, <2>1 DEF ProviderReturns
  <2> QED
    BY <1>8, <2>1, <2>2, AccountInv DEF ProviderReturns
<1>9. CASE ProviderRaises(w) \/ Settle(w) \/ SettleRaises(w) \/ Finish(w)
  BY <1>1, <1>9, WorkerAtInv DEF ProviderRaises, Settle, SettleRaises, Finish, steps
<1>11. CASE DatabaseRaises(w) \/ Record(w)
  BY <1>1, <1>11, OnlyMoves, WorkerAtInv DEF InsideTry, steps
<1>10. CASE RefundFailed(w) \/ Fail(w) \/ Block(w)
  BY <1>1, <1>10, WorkerAtInv DEF RefundFailed, Fail, Block, steps
<1> QED
  BY <1>2, <1>3, <1>4, <1>5, <1>6, <1>7, <1>8, <1>9, <1>10, <1>11 DEF WorkerStep, ExecuteRun

LEMMA OperatorStepInv ==
    ASSUME OperatorInv, NEW o \in Operators, Reconcile(o)
    PROVE  OperatorInv'
<1>1. ASSUME NEW r \in Runs, OperatorChecks(o, r)
      PROVE  OperatorInv'
  BY <1>1 DEF OperatorChecks, OperatorInv
<1>2. CASE OperatorRefunds(o) \/ (\E c \in Credits : OperatorSettles(o, c))
  BY <1>2 DEF OperatorRefunds, OperatorSettles, OperatorAt, OperatorInv
<1>3. CASE OperatorFails(o) \/ OperatorPartial(o) \/ OperatorAborts(o)
  BY <1>3 DEF OperatorFails, OperatorPartial, OperatorAborts, OperatorDone, OperatorInv
<1> QED
  BY <1>1, <1>2, <1>3 DEF Reconcile

HandsInv == WorkerInv /\ OperatorInv

LEMMA HandsStep ==
    ASSUME HandsInv, [LifecycleNext]_lvars
    PROVE  HandsInv'
<1>1. UNCHANGED <<worker, steps>> => WorkerInv'
  BY DEF HandsInv, WorkerInv, worker, steps
<1>2. UNCHANGED operator => OperatorInv'
  BY DEF HandsInv, OperatorInv, operator
<1>3. CASE OtherStep
  BY <1>1, <1>2, <1>3, OtherFrame DEF HandsInv
<1>4. ASSUME NEW w \in Workers, WorkerStep(w)
      PROVE  HandsInv'
  BY <1>2, <1>4, WorkerFrame, WorkerStepInv DEF HandsInv
<1>5. ASSUME NEW o \in Operators, Reconcile(o)
      PROVE  HandsInv'
  BY <1>1, <1>5, OperatorFrame, OperatorStepInv DEF HandsInv
<1>6. CASE UNCHANGED lvars
  BY <1>1, <1>2, <1>6 DEF HandsInv, lvars, control
<1> QED
  BY <1>3, <1>4, <1>5, <1>6, StepCases

LEMMA InitHands == LifecycleInit => HandsInv
<1> SUFFICES ASSUME LifecycleInit PROVE HandsInv
  OBVIOUS
<1>1. WorkerInv
  BY DEF LifecycleInit, WorkerInv, WorkerPlaces, InLoop
<1>2. OperatorInv
  BY DEF LifecycleInit, OperatorInv
<1> QED
  BY <1>1, <1>2 DEF HandsInv

-----------------------------------------------------------------------------
(* A run's life does to the money tables what Billing does.                *)

LEMMA RefundIfOpenMoney ==
    ASSUME NEW r \in Runs, RefundIfOpen(r)
    PROVE  [Next]_vars
  BY DEF RefundIfOpen, Next, money

LEMMA WorkerMoney ==
    ASSUME TypeOK, WorkerInv, NEW w \in Workers, WorkerStep(w)
    PROVE  [Next]_vars
<1>1. CASE (\E r \in Runs : TakeJob(w, r)) \/ JobRaises(w) \/ JobTimesOut(w) \/ WorkerCrash(w)
  BY <1>1 DEF TakeJob, JobRaises, JobTimesOut, WorkerCrash, money
<1>2. CASE BeginSkips(w) \/ BeginRuns(w) \/ BeginWedges(w) \/ Check(w) \/ Prepare(w)
  BY <1>2 DEF BeginSkips, BeginRuns, BeginWedges, Check, Prepare, money
<1>3. CASE Insert(w) \/ (\E c \in Charges : ProviderReturns(w, c)) \/ ProviderRaises(w)
  BY <1>3 DEF Insert, ProviderReturns, ProviderRaises, money
<1>4. CASE \/ SettleRaises(w) \/ DatabaseRaises(w) \/ Record(w) \/ Finish(w) \/ Fail(w)
           \/ Block(w) \/ Return(w)
  BY <1>4 DEF SettleRaises, DatabaseRaises, Record, Finish, Fail, Block, Return, money
<1>5. CASE Settle(w)
  <2>1. wrun[w] \in Runs /\ wtotal[w] \in Nat
    BY <1>5 DEF Settle, WorkerInv
  <2>2. reservation[wrun[w]].amount \in Credits
    BY <2>1 DEF TypeOK
  <2>3. SettleRun(wrun[w], wtotal[w]) /\ wtotal[w] <= reservation[wrun[w]].amount
    BY <1>5 DEF Settle, SettleRun
  <2>4. wtotal[w] \in Credits
    BY <2>1, <2>2, <2>3, CreditsAssumption DEF Credits
  <2> QED
    BY <2>1, <2>3, <2>4 DEF Next
<1>6. CASE RefundFailed(w)
  <2>1. wrun[w] \in Runs /\ RefundIfOpen(wrun[w])
    BY <1>6 DEF RefundFailed, WorkerInv
  <2> QED
    BY <2>1, RefundIfOpenMoney
<1> QED
  BY <1>1, <1>2, <1>3, <1>4, <1>5, <1>6 DEF WorkerStep, ExecuteRun

LEMMA OperatorMoney ==
    ASSUME OperatorInv, NEW o \in Operators, Reconcile(o)
    PROVE  [Next]_vars
<1>1. CASE (\E r \in Runs : OperatorChecks(o, r)) \/ OperatorFails(o)
           \/ OperatorPartial(o) \/ OperatorAborts(o)
  BY <1>1 DEF OperatorChecks, OperatorFails, OperatorPartial, OperatorAborts, money
<1>2. CASE OperatorRefunds(o)
  <2>1. orun[o] \in Runs /\ RefundIfOpen(orun[o])
    BY <1>2 DEF OperatorRefunds, OperatorInv
  <2> QED
    BY <2>1, RefundIfOpenMoney
<1>3. ASSUME NEW c \in Credits, OperatorSettles(o, c)
      PROVE  [Next]_vars
  <2>1. orun[o] \in Runs /\ SettleRun(orun[o], c)
    BY <1>3 DEF OperatorSettles, OperatorInv
  <2> QED
    BY <2>1 DEF Next
<1> QED
  BY <1>1, <1>2, <1>3 DEF Reconcile

LEMMA OtherMoney ==
    ASSUME OtherStep
    PROVE  [Next]_vars
<1>1. ASSUME NEW e \in Events, ReceivePayment(e)
      PROVE  [Next]_vars
  BY <1>1 DEF ReceivePayment, Next
<1>2. ASSUME NEW r \in Runs, NEW a \in Credits, CreateRun(r, a)
      PROVE  [Next]_vars
  BY <1>2 DEF CreateRun, Next
<1>3. ASSUME NEW r \in Runs, CancelRefund(r) \/ ReaperRefund(r)
      PROVE  [Next]_vars
  BY <1>3, RefundIfOpenMoney DEF CancelRefund, ReaperRefund
<1>4. ASSUME NEW r \in Runs,
             \/ CancelPending(r) \/ CancelActive(r) \/ CancelCrash(r)
             \/ AbandonJob(r) \/ ResultExpires(r) \/ Expire(r)
      PROVE  UNCHANGED vars
  BY <1>4 DEF CancelPending, CancelActive, CancelCrash, AbandonJob, ResultExpires,
              Expire, money
<1>5. ASSUME NEW r \in Runs,
             ReaperSelect(r) \/ ReaperRead(r) \/ ReaperFail(r) \/ ReaperCrash(r)
      PROVE  UNCHANGED vars
  BY <1>5 DEF ReaperSelect, ReaperRead, ReaperFail, ReaperCrash, money
<1>6. ASSUME NEW d \in Dispatchers, Dispatch(d) \/ DispatcherCrash(d)
      PROVE  UNCHANGED vars
  BY <1>6 DEF Dispatch, DispatchClaim, DispatchEnqueue, DispatchFails, DispatchRead,
              DispatchMark, DispatcherCrash, money
<1>7. ASSUME NEW w \in Workers, LeaseExpires(w)
      PROVE  UNCHANGED vars
  BY <1>7 DEF LeaseExpires, money
<1> QED
  BY <1>1, <1>2, <1>3, <1>4, <1>5, <1>6, <1>7 DEF OtherStep, Reap

LEMMA MoneyStep ==
    ASSUME TypeOK, HandsInv, [LifecycleNext]_lvars
    PROVE  [Next]_vars
<1>1. CASE UNCHANGED lvars
  BY <1>1 DEF lvars, money
<1> QED
  BY <1>1, StepCases, WorkerMoney, OperatorMoney, OtherMoney DEF HandsInv

\* Whatever crashes, stalls or is delivered twice, the workers, the reaper, a
\* cancellation and an operator do to the money tables only what Billing
\* does: each theorem about Billing holds of a run's whole life
\* (jobs.py:91-159, 205-244; api.py:258-274; cli.py:49-55).
THEOREM LifecycleImplementsBilling == LifecycleSpec => Spec
<1>1. LifecycleInit => Init
  BY DEF LifecycleInit
<1>2. LifecycleInit => TypeOK /\ HandsInv
  BY <1>1, InitType, InitHands
<1>3. TypeOK /\ HandsInv /\ [LifecycleNext]_lvars => (TypeOK /\ HandsInv)'
  BY MoneyStep, StepType, HandsStep
<1>4. TypeOK /\ HandsInv /\ [LifecycleNext]_lvars => [Next]_vars
  BY MoneyStep
<1> QED
  BY <1>1, <1>2, <1>3, <1>4, PTL DEF LifecycleSpec, Spec

-----------------------------------------------------------------------------
(* One provider call for each skill.  A step without a checkpoint has not  *)
(* been called, and its checkpoint is never taken away.                    *)

CallsInv ==
    /\ checkpoint \in [Runs -> [Steps -> {"none", "RUNNING", "PASS"}]]
    /\ calls \in [Runs -> [Steps -> Nat]]
    /\ \A r \in Runs, i \in Steps : checkpoint[r][i] = "none" => calls[r][i] = 0
    /\ ProviderCalledOnce

LEMMA CallsKept ==
    ASSUME CallsInv, UNCHANGED <<checkpoint, calls>>
    PROVE  CallsInv'
  BY DEF CallsInv, ProviderCalledOnce

LEMMA InsertCalls ==
    ASSUME CallsInv, WorkerInv, NEW w \in Workers, Insert(w)
    PROVE  CallsInv'
<1> DEFINE r == wrun[w]
           i == wstep[w]
<1>1. r \in Runs /\ i \in Steps
  BY DEF Insert, WorkerInv, InLoop
<1>2. CASE checkpoint[r][i] = "none"
  <2>1. /\ checkpoint' = [checkpoint EXCEPT ![r][i] = "RUNNING"]
        /\ calls' = [calls EXCEPT ![r][i] = @ + 1]
        /\ calls[r][i] = 0
    BY <1>1, <1>2 DEF Insert, Unclaimed, CallsInv
  <2> HIDE DEF r, i
  <2>2. /\ checkpoint' \in [Runs -> [Steps -> {"none", "RUNNING", "PASS"}]]
        /\ calls' \in [Runs -> [Steps -> Nat]]
    BY <1>1, <2>1 DEF CallsInv
  <2>3. ASSUME NEW q \in Runs, NEW j \in Steps
        PROVE  /\ checkpoint'[q][j] = "none" => calls'[q][j] = 0
               /\ calls'[q][j] <= 1
    <3>1. CASE q = r /\ j = i
      BY <1>1, <2>1, <3>1 DEF CallsInv
    <3>2. CASE ~(q = r /\ j = i)
      <4>1. checkpoint'[q][j] = checkpoint[q][j] /\ calls'[q][j] = calls[q][j]
        BY <1>1, <2>1, <3>2 DEF CallsInv
      <4> QED
        BY <4>1 DEF CallsInv, ProviderCalledOnce
    <3> QED
      BY <3>1, <3>2
  <2> QED
    BY <2>2, <2>3 DEF CallsInv, ProviderCalledOnce
<1>3. CASE checkpoint[r][i] # "none"
  BY <1>3, CallsKept DEF Insert, Unclaimed, steps
<1> QED
  BY <1>2, <1>3

LEMMA ReturnsCalls ==
    ASSUME CallsInv, WorkerInv, NEW w \in Workers, NEW c \in Charges, ProviderReturns(w, c)
    PROVE  CallsInv'
<1> DEFINE r == wrun[w]
           i == wstep[w]
<1>1. /\ r \in Runs /\ i \in Steps
      /\ checkpoint' = [checkpoint EXCEPT ![r][i] = "PASS"]
      /\ calls' = calls
  BY DEF ProviderReturns, WorkerInv, InLoop
<1> HIDE DEF r, i
<1> QED
  BY <1>1 DEF CallsInv, ProviderCalledOnce

LEMMA WorkerCalls ==
    ASSUME CallsInv, WorkerInv, NEW w \in Workers, WorkerStep(w)
    PROVE  CallsInv'
<1>1. CASE (\E r \in Runs : TakeJob(w, r)) \/ JobRaises(w) \/ JobTimesOut(w) \/ WorkerCrash(w)
  BY <1>1, CallsKept DEF TakeJob, JobRaises, JobTimesOut, WorkerCrash, steps
<1>2. CASE BeginSkips(w) \/ BeginRuns(w) \/ BeginWedges(w) \/ Check(w) \/ Prepare(w)
  BY <1>2, CallsKept DEF BeginSkips, BeginRuns, BeginWedges, Check, Prepare, steps
<1>3. CASE \/ ProviderRaises(w) \/ Settle(w) \/ SettleRaises(w) \/ DatabaseRaises(w)
           \/ Record(w) \/ Finish(w)
  BY <1>3, CallsKept DEF ProviderRaises, Settle, SettleRaises, DatabaseRaises, Record, Finish, steps
<1>4. CASE RefundFailed(w) \/ Fail(w) \/ Block(w) \/ Return(w)
  BY <1>4, CallsKept DEF RefundFailed, Fail, Block, Return, steps
<1> QED
  BY <1>1, <1>2, <1>3, <1>4, InsertCalls, ReturnsCalls DEF WorkerStep, ExecuteRun

LEMMA StepCalls ==
    ASSUME CallsInv, HandsInv, [LifecycleNext]_lvars
    PROVE  CallsInv'
<1>1. CASE OtherStep
  BY <1>1, OtherFrame, CallsKept DEF steps
<1>2. ASSUME NEW w \in Workers, WorkerStep(w)
      PROVE  CallsInv'
  BY <1>2, WorkerCalls DEF HandsInv
<1>3. ASSUME NEW o \in Operators, Reconcile(o)
      PROVE  CallsInv'
  BY <1>3, OperatorFrame, CallsKept DEF steps
<1>4. CASE UNCHANGED lvars
  BY <1>4, CallsKept DEF lvars, steps
<1> QED
  BY <1>1, <1>2, <1>3, <1>4, StepCases

LEMMA InitCalls == LifecycleInit => CallsInv
  BY DEF LifecycleInit, CallsInv, ProviderCalledOnce

\* However often arq delivers a run and to however many workers at a time,
\* whatever crashes or times out, no skill of it is sent to the provider
\* twice (jobs.py:26-51).
THEOREM CalledOnce == LifecycleSpec => []ProviderCalledOnce
<1>1. LifecycleInit => HandsInv /\ CallsInv
  BY InitHands, InitCalls
<1>2. HandsInv /\ CallsInv /\ [LifecycleNext]_lvars => (HandsInv /\ CallsInv)'
  BY HandsStep, StepCalls
<1>3. CallsInv => ProviderCalledOnce
  BY DEF CallsInv
<1> QED
  BY <1>1, <1>2, <1>3, PTL DEF LifecycleSpec

-----------------------------------------------------------------------------
(* Type correctness.                                                       *)

LEMMA WorkerAtType ==
    ASSUME LifecycleTypeOK, NEW w \in Workers, NEW to \in WorkerPlaces, WorkerAt(w, to)
    PROVE  /\ wpc' \in [Workers -> WorkerPlaces] /\ wrun' = wrun /\ wstep' = wstep
           /\ wtotal' = wtotal /\ woutcome' = woutcome
  BY DEF LifecycleTypeOK, WorkerAt, WorkerPlaces

LEMMA WorkerIdleType ==
    ASSUME LifecycleTypeOK, NEW w \in Workers, WorkerIdle(w)
    PROVE  /\ wpc' \in [Workers -> WorkerPlaces] /\ wrun' \in [Workers -> Runs \cup {NoRun}]
           /\ wstep' \in [Workers -> 1 .. Length + 1] /\ wtotal' \in [Workers -> Credits]
           /\ woutcome' \in [Workers -> {"none", "PASS", "PARTIAL", "CANCELLED"}]
  BY LengthAssumption, CreditsAssumption DEF LifecycleTypeOK, WorkerIdle, WorkerPlaces, Credits

\* The credits a worker has counted stay within what its run reserved.
LEMMA AccountType ==
    ASSUME LifecycleTypeOK, NEW w \in Workers, wrun[w] \in Runs, wstep[w] \in Steps,
           NEW cost \in Credits, Account(w, cost)
    PROVE  /\ wpc' \in [Workers -> WorkerPlaces] /\ wrun' = wrun
           /\ wstep' \in [Workers -> 1 .. Length + 1] /\ wtotal' \in [Workers -> Credits]
           /\ woutcome' = woutcome
<1>1. CASE cost > Remaining(w)
  BY <1>1, WorkerAtType DEF Account, WorkerPlaces, LifecycleTypeOK
<1>2. CASE ~(cost > Remaining(w))
  <2>1. /\ wpc' = [wpc EXCEPT ![w] = "check"]
        /\ wtotal' = [wtotal EXCEPT ![w] = @ + cost]
        /\ wstep' = [wstep EXCEPT ![w] = @ + 1]
        /\ wrun' = wrun /\ woutcome' = woutcome
    BY <1>2 DEF Account
  <2>2. wtotal[w] + cost \in Credits
    <3>1. /\ reservation[wrun[w]].amount \in 0 .. MaxCredits
          /\ wtotal[w] \in 0 .. MaxCredits /\ cost \in 0 .. MaxCredits
      BY DEF LifecycleTypeOK, TypeOK, Credits
    <3>2. ~(cost > reservation[wrun[w]].amount - wtotal[w])
      BY <1>2 DEF Remaining
    <3> QED
      BY <3>1, <3>2, CreditsAssumption DEF Credits
  <2>3. wstep[w] + 1 \in 1 .. Length + 1
    BY LengthAssumption DEF Steps
  <2> QED
    BY <2>1, <2>2, <2>3 DEF LifecycleTypeOK, WorkerPlaces
<1> QED
  BY <1>1, <1>2

\* The worker's columns, and what is left once they are typed.
WorkerTyped ==
    /\ wpc \in [Workers -> WorkerPlaces]
    /\ wrun \in [Workers -> Runs \cup {NoRun}]
    /\ wstep \in [Workers -> 1 .. Length + 1]
    /\ wtotal \in [Workers -> Credits]
    /\ woutcome \in [Workers -> {"none", "PASS", "PARTIAL", "CANCELLED"}]

StepsTyped ==
    /\ checkpoint \in [Runs -> [Steps -> {"none", "RUNNING", "PASS"}]]
    /\ stepCharge \in [Runs -> [Steps -> Credits]]
    /\ calls \in [Runs -> [Steps -> Nat]]

RunRowTyped ==
    /\ status \in [Runs -> Statuses]
    /\ cancelRequested \in [Runs -> BOOLEAN]
    /\ chargedCredits \in [Runs -> Credits]

QueueTyped ==
    /\ expired \in [Runs -> BOOLEAN]
    /\ outbox \in [Runs -> {"none", "pending", "dispatched"}]
    /\ job \in [Runs -> {"none", "queued", "active", "kept"}]
    /\ tries \in [Runs -> 0 .. MaxTries]
    /\ dpc \in [Dispatchers -> {"idle", "enqueue", "read", "mark"}]
    /\ drun \in [Dispatchers -> Runs \cup {NoRun}]
    /\ dseen \in [Dispatchers -> Statuses]
    /\ refunding \subseteq Runs
    /\ reaper \in [Runs -> {"idle", "refund", "read", "fail"}]

OperatorTyped ==
    /\ opc \in [Operators -> {"idle", "act", "fail", "partial"}]
    /\ orun \in [Operators -> Runs \cup {NoRun}]
    /\ ocharge \in [Operators -> Credits]

LEMMA TypeParts ==
    /\ LifecycleTypeOK <=> /\ TypeOK /\ WorkerTyped /\ StepsTyped /\ RunRowTyped /\ QueueTyped
                           /\ OperatorTyped
  BY DEF LifecycleTypeOK, WorkerTyped, StepsTyped, RunRowTyped, QueueTyped, OperatorTyped,
         WorkerPlaces

LEMMA TypePartsNext ==
    /\ LifecycleTypeOK' <=> /\ TypeOK' /\ WorkerTyped' /\ StepsTyped' /\ RunRowTyped'
                            /\ QueueTyped' /\ OperatorTyped'
  BY DEF LifecycleTypeOK, WorkerTyped, StepsTyped, RunRowTyped, QueueTyped, OperatorTyped,
         WorkerPlaces

LEMMA ActiveWorker ==
    ASSUME HandsInv, NEW w \in Workers, wpc[w] # "idle"
    PROVE  /\ wrun[w] \in Runs
           /\ wpc[w] \in InLoop => wstep[w] \in Steps
  BY DEF HandsInv, WorkerInv

LEMMA WorkerTypedStep ==
    ASSUME LifecycleTypeOK, HandsInv, NEW w \in Workers, WorkerStep(w)
    PROVE  WorkerTyped' /\ StepsTyped'
<1> USE DEF WorkerPlaces
<1>0. WorkerTyped /\ StepsTyped
  BY TypeParts
<1>1. UNCHANGED steps => StepsTyped'
  BY <1>0 DEF StepsTyped, steps
<1>2. ASSUME NEW r \in Runs, TakeJob(w, r)
      PROVE  WorkerTyped' /\ StepsTyped'
  BY <1>0, <1>1, <1>2 DEF TakeJob, WorkerTyped
<1>3. CASE BeginSkips(w) \/ JobRaises(w) \/ JobTimesOut(w) \/ WorkerCrash(w) \/ Return(w)
  BY <1>1, <1>3, WorkerIdleType DEF BeginSkips, JobRaises, JobTimesOut, WorkerCrash, Return,
     JobEnds, WorkerTyped
<1>4. ASSUME NEW to \in WorkerPlaces, WorkerAt(w, to)
      PROVE  WorkerTyped'
  BY <1>0, <1>4, WorkerAtType DEF WorkerTyped
<1>5. CASE BeginRuns(w) \/ BeginWedges(w)
  BY <1>1, <1>4, <1>5 DEF BeginRuns, BeginWedges
<1>6. CASE Check(w)
  <2>1. UNCHANGED steps
    BY <1>6 DEF Check
  <2>2. CASE NextMove(w) = "execute"
    BY <1>1, <1>4, <1>6, <2>1, <2>2 DEF Check
  <2>3. CASE NextMove(w) # "execute"
    <3>1. NextMove(w) \in {"PASS", "PARTIAL", "CANCELLED"}
      BY <2>3 DEF NextMove
    <3>2. /\ wpc' = [wpc EXCEPT ![w] = "settle"]
          /\ woutcome' = [woutcome EXCEPT ![w] = NextMove(w)]
          /\ UNCHANGED <<wrun, wstep, wtotal>>
      BY <1>6, <2>3 DEF Check
    <3> HIDE DEF NextMove
    <3> QED
      BY <1>0, <1>1, <2>1, <3>1, <3>2 DEF WorkerTyped
  <2> QED
    BY <2>2, <2>3
<1>7. ASSUME NEW cost \in Credits, Account(w, cost), wpc[w] \in InLoop
      PROVE  WorkerTyped'
  <2>1. wrun[w] \in Runs /\ wstep[w] \in Steps
    BY <1>7, ActiveWorker DEF InLoop
  <2> QED
    BY <1>0, <1>7, <2>1, AccountType DEF WorkerTyped
<1>8. CASE Prepare(w)
  <2>1. wpc[w] \in InLoop /\ UNCHANGED steps /\ stepCharge[wrun[w]][wstep[w]] \in Credits
    BY <1>0, <1>8, ActiveWorker DEF Prepare, InLoop, StepsTyped
  <2> QED
    BY <1>1, <1>4, <1>7, <1>8, <2>1 DEF Prepare
<1>9. CASE Insert(w)
  <2>1. WorkerTyped'
    BY <1>4, <1>9 DEF Insert
  <2>2. CASE UNCHANGED steps
    BY <1>1, <2>1, <2>2
  <2>3. CASE /\ checkpoint' = [checkpoint EXCEPT ![wrun[w]][wstep[w]] = "RUNNING"]
             /\ calls' = [calls EXCEPT ![wrun[w]][wstep[w]] = @ + 1]
             /\ UNCHANGED stepCharge
    <3>1. checkpoint' \in [Runs -> [Steps -> {"none", "RUNNING", "PASS"}]]
      BY <1>0, <2>3 DEF StepsTyped
    <3>2. calls' \in [Runs -> [Steps -> Nat]]
      <4>1. wrun[w] \in Runs /\ wstep[w] \in Steps
        BY <1>9, ActiveWorker DEF Insert, InLoop
      <4>2. calls[wrun[w]][wstep[w]] + 1 \in Nat
        BY <1>0, <4>1 DEF StepsTyped
      <4> QED
        BY <1>0, <2>3, <4>1, <4>2 DEF StepsTyped
    <3> QED
      BY <1>0, <2>1, <2>3, <3>1, <3>2 DEF StepsTyped
  <2> QED
    BY <1>9, <2>2, <2>3 DEF Insert
<1>10. ASSUME NEW c \in Charges, ProviderReturns(w, c)
       PROVE  WorkerTyped' /\ StepsTyped'
  <2>1. c \in Credits
    BY ChargesAssumption
  <2>2. wpc[w] \in InLoop /\ Account(w, c)
        /\ checkpoint' = [checkpoint EXCEPT ![wrun[w]][wstep[w]] = "PASS"]
        /\ stepCharge' = [stepCharge EXCEPT ![wrun[w]][wstep[w]] = c]
        /\ calls' = calls
    BY <1>10 DEF ProviderReturns, InLoop
  <2>3. WorkerTyped'
    BY <1>7, <2>1, <2>2
  <2>4. StepsTyped'
    BY <1>0, <2>1, <2>2 DEF StepsTyped
  <2> QED
    BY <2>3, <2>4
<1>11. CASE \/ ProviderRaises(w) \/ Settle(w) \/ SettleRaises(w) \/ DatabaseRaises(w)
            \/ Record(w) \/ Finish(w)
            \/ RefundFailed(w) \/ Fail(w) \/ Block(w)
  BY <1>1, <1>4, <1>11
  DEF ProviderRaises, Settle, SettleRaises, DatabaseRaises, Record, Finish, RefundFailed, Fail,
     Block
<1> QED
  BY <1>2, <1>3, <1>5, <1>6, <1>8, <1>9, <1>10, <1>11 DEF WorkerStep, ExecuteRun

LEMMA OperatorTypedStep ==
    ASSUME LifecycleTypeOK, NEW o \in Operators, Reconcile(o)
    PROVE  OperatorTyped'
<1>0. OperatorTyped /\ 0 \in Credits
  BY TypeParts, CreditsAssumption DEF Credits
<1>1. ASSUME NEW r \in Runs, OperatorChecks(o, r)
      PROVE  OperatorTyped'
  BY <1>0, <1>1 DEF OperatorChecks, OperatorTyped
<1>2. CASE OperatorRefunds(o) \/ (\E c \in Credits : OperatorSettles(o, c))
  BY <1>0, <1>2 DEF OperatorRefunds, OperatorSettles, OperatorAt, OperatorTyped
<1>3. CASE OperatorFails(o) \/ OperatorPartial(o) \/ OperatorAborts(o)
  BY <1>0, <1>3 DEF OperatorFails, OperatorPartial, OperatorAborts, OperatorDone, OperatorTyped
<1> QED
  BY <1>1, <1>2, <1>3 DEF Reconcile

LEMMA WriteStatusType ==
    ASSUME RunRowTyped, NEW r, NEW s \in Statuses, WriteStatus(r, s)
    PROVE  RunRowTyped'
  BY DEF RunRowTyped, WriteStatus

\* A dispatcher that is under way has a run.
DispatcherInv == \A d \in Dispatchers : dpc[d] # "idle" => drun[d] \in Runs

\* Nobody but a dispatcher moves it.
LEMMA DispatcherFrame ==
    ASSUME [LifecycleNext]_lvars
    PROVE  \/ UNCHANGED dispatcher
           \/ \E d \in Dispatchers : Dispatch(d) \/ DispatcherCrash(d)
<1>1. ASSUME NEW w \in Workers, WorkerStep(w)
      PROVE  UNCHANGED dispatcher
  <2>1. CASE (\E r \in Runs : TakeJob(w, r)) \/ JobRaises(w) \/ JobTimesOut(w) \/ WorkerCrash(w)
    BY <2>1 DEF TakeJob, JobRaises, JobTimesOut, WorkerCrash
  <2>2. CASE BeginSkips(w) \/ BeginRuns(w) \/ BeginWedges(w) \/ Check(w) \/ Prepare(w)
    BY <2>2 DEF BeginSkips, BeginRuns, BeginWedges, Check, Prepare
  <2>3. CASE Insert(w) \/ (\E c \in Charges : ProviderReturns(w, c)) \/ ProviderRaises(w)
    BY <2>3 DEF Insert, ProviderReturns, ProviderRaises
  <2>4. CASE \/ Settle(w) \/ SettleRaises(w) \/ DatabaseRaises(w) \/ Record(w)
             \/ Finish(w) \/ RefundFailed(w)
             \/ Fail(w) \/ Block(w) \/ Return(w)
    BY <2>4 DEF Settle, SettleRaises, DatabaseRaises, Record, Finish, RefundFailed, Fail, Block,
       Return
  <2> QED
    BY <1>1, <2>1, <2>2, <2>3, <2>4 DEF WorkerStep, ExecuteRun
<1>2. ASSUME NEW o \in Operators, Reconcile(o)
      PROVE  UNCHANGED dispatcher
  BY <1>2 DEF Reconcile, OperatorChecks, OperatorRefunds, OperatorFails, OperatorSettles,
              OperatorPartial, OperatorAborts
<1>3. ASSUME NEW r \in Runs, Reap(r) \/ ReaperCrash(r)
      PROVE  UNCHANGED dispatcher
  BY <1>3 DEF Reap, ReaperSelect, ReaperRefund, ReaperRead, ReaperFail, ReaperCrash
<1>4. CASE OtherStep
  BY <1>3, <1>4 DEF OtherStep, ReceivePayment, CreateRun, CancelPending, CancelActive,
     CancelRefund, CancelCrash, AbandonJob, ResultExpires, Expire, LeaseExpires
<1>5. CASE UNCHANGED lvars
  BY <1>5 DEF lvars
<1> QED
  BY <1>1, <1>2, <1>4, <1>5, StepCases

LEMMA DispatcherStep ==
    ASSUME DispatcherInv, dpc \in [Dispatchers -> {"idle", "enqueue", "read", "mark"}],
           drun \in [Dispatchers -> Runs \cup {NoRun}], [LifecycleNext]_lvars
    PROVE  DispatcherInv'
<1>1. CASE UNCHANGED dispatcher
  BY <1>1 DEF dispatcher, DispatcherInv
<1>2. ASSUME NEW d \in Dispatchers, Dispatch(d) \/ DispatcherCrash(d)
      PROVE  DispatcherInv'
  BY <1>2 DEF Dispatch, DispatchClaim, DispatchEnqueue, DispatchFails, DispatchRead, DispatchMark,
              DispatcherCrash, DispatcherDone, DispatcherInv
<1> QED
  BY <1>1, <1>2, DispatcherFrame

LEMMA OtherTypedStep ==
    ASSUME LifecycleTypeOK, DispatcherInv, OtherStep
    PROVE  RunRowTyped' /\ QueueTyped'
<1>0. RunRowTyped /\ QueueTyped
  BY TypeParts
<1>s. \A s \in {"PENDING_DISPATCH", "QUEUED", "CANCELLED", "CANCEL_REQUESTED", "FAIL", "none"} :
         s \in Statuses
  BY DEF Statuses, Terminal
<1>t. UNCHANGED runRow => RunRowTyped'
  BY <1>0 DEF RunRowTyped, runRow
<1>1. ASSUME NEW e \in Events, ReceivePayment(e)
      PROVE  RunRowTyped' /\ QueueTyped'
  BY <1>0, <1>t, <1>1 DEF ReceivePayment, QueueTyped, queue, dispatcher, control
<1>2. ASSUME NEW r \in Runs, NEW a \in Credits, CreateRun(r, a)
      PROVE  RunRowTyped' /\ QueueTyped'
  <2>1. RunRowTyped'
    BY <1>0, <1>s, <1>2, WriteStatusType DEF CreateRun
  <2> QED
    BY <1>0, <1>2, <2>1 DEF CreateRun, QueueTyped, queue, dispatcher, control
<1>3. ASSUME NEW r \in Runs, CancelPending(r) \/ CancelActive(r)
      PROVE  RunRowTyped' /\ QueueTyped'
  <2>1. RunRowTyped'
    BY <1>0, <1>s, <1>3 DEF CancelPending, CancelActive, RunRowTyped
  <2> QED
    BY <1>0, <1>3, <2>1 DEF CancelPending, CancelActive, QueueTyped, queue, dispatcher, control
<1>4. ASSUME NEW r \in Runs, CancelRefund(r) \/ CancelCrash(r)
      PROVE  RunRowTyped' /\ QueueTyped'
  BY <1>0, <1>t, <1>4 DEF CancelRefund, CancelCrash, QueueTyped, queue, dispatcher
<1>5. ASSUME NEW r \in Runs, AbandonJob(r) \/ ResultExpires(r) \/ Expire(r)
      PROVE  RunRowTyped' /\ QueueTyped'
  <2>1. RunRowTyped'
    BY <1>t, <1>5 DEF AbandonJob, ResultExpires, Expire
  <2>2. CASE AbandonJob(r)
    BY <1>0, <2>1, <2>2 DEF AbandonJob, QueueTyped, dispatcher, control
  <2>3. CASE ResultExpires(r)
    <3>1. 0 \in 0 .. MaxTries
      BY ProcessAssumption
    <3> QED
      BY <1>0, <2>1, <2>3, <3>1 DEF ResultExpires, QueueTyped, dispatcher, control
  <2>4. CASE Expire(r)
    BY <1>0, <2>1, <2>4 DEF Expire, QueueTyped, queue, dispatcher, control
  <2> QED
    BY <1>5, <2>2, <2>3, <2>4
<1>6. ASSUME NEW r \in Runs, Reap(r) \/ ReaperCrash(r)
      PROVE  RunRowTyped' /\ QueueTyped'
  <2>1. QueueTyped'
    BY <1>0, <1>6 DEF Reap, ReaperCrash, ReaperSelect, ReaperRefund, ReaperRead, ReaperFail,
                      ReaperAt, QueueTyped, queue, dispatcher
  <2>2. RunRowTyped'
    BY <1>0, <1>s, <1>t, <1>6, WriteStatusType
    DEF Reap, ReaperCrash, ReaperSelect, ReaperRefund, ReaperRead, ReaperFail
  <2> QED
    BY <2>1, <2>2
<1>7. ASSUME NEW d \in Dispatchers, NEW r \in Runs, DispatchClaim(d, r)
      PROVE  RunRowTyped' /\ QueueTyped'
  BY <1>0, <1>t, <1>7 DEF DispatchClaim, QueueTyped, queue, control
<1>8. ASSUME NEW d \in Dispatchers, DispatchEnqueue(d)
      PROVE  RunRowTyped' /\ QueueTyped'
  BY <1>0, <1>t, <1>8 DEF DispatchEnqueue, Enqueued, QueueTyped, queue, control
<1>9. ASSUME NEW d \in Dispatchers, DispatchFails(d) \/ DispatcherCrash(d)
      PROVE  RunRowTyped' /\ QueueTyped'
  BY <1>0, <1>s, <1>t, <1>9 DEF DispatchFails, DispatcherCrash, DispatcherDone, Enqueued,
     QueueTyped, queue, control
<1>10. ASSUME NEW d \in Dispatchers, DispatchRead(d)
       PROVE  RunRowTyped' /\ QueueTyped'
  <2>1. status[drun[d]] \in Statuses
    BY <1>10 DEF DispatchRead, DispatcherInv, LifecycleTypeOK
  <2> QED
    BY <1>0, <1>t, <1>10, <2>1 DEF DispatchRead, QueueTyped, queue, control
<1>11. ASSUME NEW d \in Dispatchers, DispatchMark(d)
       PROVE  RunRowTyped' /\ QueueTyped'
  <2>1. RunRowTyped'
    BY <1>0, <1>s, <1>t, <1>11, WriteStatusType DEF DispatchMark
  <2>2. QueueTyped'
    BY <1>0, <1>s, <1>11 DEF DispatchMark, DispatcherDone, QueueTyped, queue, control
  <2> QED
    BY <2>1, <2>2
<1>12. ASSUME NEW w \in Workers, LeaseExpires(w)
       PROVE  RunRowTyped' /\ QueueTyped'
  BY <1>0, <1>t, <1>12 DEF LeaseExpires, QueueTyped, queue, dispatcher, control
<1> QED
  BY <1>1, <1>2, <1>3, <1>4, <1>5, <1>6, <1>7, <1>8, <1>9, <1>10, <1>11, <1>12
  DEF OtherStep, Dispatch

LEMMA WorkerRowStep ==
    ASSUME LifecycleTypeOK, HandsInv, NEW w \in Workers, WorkerStep(w)
    PROVE  RunRowTyped' /\ QueueTyped'
<1>0. RunRowTyped /\ QueueTyped /\ WorkerTyped
  BY TypeParts
<1>s. \A s \in {"RUNNING", "PASS", "PARTIAL", "CANCELLED", "FAIL", "BLOCKED", "none"} :
         s \in Statuses
  BY DEF Statuses, Terminal
<1>t. UNCHANGED runRow => RunRowTyped'
  BY <1>0 DEF RunRowTyped, runRow
<1>q. UNCHANGED <<expired, outbox, queue, dispatcher, control>> => QueueTyped'
  BY <1>0 DEF QueueTyped, queue, dispatcher, control
<1>j. ASSUME UNCHANGED <<expired, outbox, dispatcher, control, tries>>,
             job' \in [Runs -> {"none", "queued", "active", "kept"}]
      PROVE  QueueTyped'
  BY <1>0, <1>j DEF QueueTyped, dispatcher, control
<1>1. ASSUME NEW r \in Runs, TakeJob(w, r)
      PROVE  RunRowTyped' /\ QueueTyped'
  <2>1. tries[r] + 1 \in 0 .. MaxTries
    BY <1>0, <1>1, ProcessAssumption DEF TakeJob, QueueTyped
  <2>2. RunRowTyped'
    BY <1>t, <1>1 DEF TakeJob
  <2>3. QueueTyped'
    BY <1>0, <1>1, <2>1 DEF TakeJob, QueueTyped, dispatcher, control
  <2> QED
    BY <2>2, <2>3
<1>2. CASE BeginSkips(w) \/ JobRaises(w) \/ JobTimesOut(w) \/ Return(w)
  <2>1. /\ UNCHANGED <<runRow, expired, outbox, dispatcher, control, tries>>
        /\ job' = [job EXCEPT ![wrun[w]] = "kept"]
    BY <1>2 DEF BeginSkips, JobRaises, JobTimesOut, Return, JobEnds
  <2>2. job' \in [Runs -> {"none", "queued", "active", "kept"}]
    BY <1>0, <2>1 DEF QueueTyped
  <2> QED
    BY <1>t, <1>j, <2>1, <2>2
<1>3. CASE WorkerCrash(w)
  <2>1. /\ UNCHANGED <<runRow, expired, outbox, dispatcher, control, tries>>
        /\ job' = [job EXCEPT ![wrun[w]] = "queued"] \/ job' = job
    BY <1>3 DEF WorkerCrash
  <2>2. job' \in [Runs -> {"none", "queued", "active", "kept"}]
    BY <1>0, <2>1 DEF QueueTyped
  <2> QED
    BY <1>t, <1>j, <2>1, <2>2
<1>4. CASE BeginRuns(w) \/ Fail(w) \/ Block(w)
  <2>1. RunRowTyped'
    BY <1>0, <1>s, <1>4, WriteStatusType DEF BeginRuns, Fail, Block
  <2> QED
    BY <1>q, <1>4, <2>1 DEF BeginRuns, Fail, Block
<1>5. CASE \/ BeginWedges(w) \/ Check(w) \/ Prepare(w) \/ Insert(w) \/ ProviderRaises(w)
           \/ Settle(w) \/ SettleRaises(w) \/ DatabaseRaises(w) \/ Record(w) \/ RefundFailed(w)
  BY <1>q, <1>t, <1>5
  DEF BeginWedges, Check, Prepare, Insert, ProviderRaises, Settle, SettleRaises, DatabaseRaises,
     Record, RefundFailed
<1>6. ASSUME NEW c \in Charges, ProviderReturns(w, c)
      PROVE  RunRowTyped' /\ QueueTyped'
  BY <1>q, <1>t, <1>6 DEF ProviderReturns
<1>7. CASE Finish(w)
  <2>1. woutcome[w] \in Statuses /\ wtotal[w] \in Credits
    BY <1>0, <1>s DEF WorkerTyped
  <2>2. /\ status' = [status EXCEPT ![wrun[w]] = woutcome[w]]
        /\ chargedCredits' = [chargedCredits EXCEPT ![wrun[w]] = wtotal[w]]
        /\ cancelRequested' = [cancelRequested EXCEPT ![wrun[w]] = @ \/ woutcome[w] = "CANCELLED"]
    BY <1>7 DEF Finish
  <2>3. wrun[w] \in Runs
    BY <1>7, ActiveWorker DEF Finish
  <2>4. PICK b : b = (cancelRequested[wrun[w]] \/ woutcome[w] = "CANCELLED")
    OBVIOUS
  <2>5. b \in BOOLEAN /\ cancelRequested' = [cancelRequested EXCEPT ![wrun[w]] = b]
    BY <2>2, <2>4
  <2>6. RunRowTyped'
    BY <1>0, <2>1, <2>2, <2>3, <2>5 DEF RunRowTyped
  <2> QED
    BY <1>q, <1>7, <2>6 DEF Finish
<1> QED
  BY <1>1, <1>2, <1>3, <1>4, <1>5, <1>6, <1>7 DEF WorkerStep, ExecuteRun

LEMMA OperatorRowStep ==
    ASSUME LifecycleTypeOK, NEW o \in Operators, Reconcile(o)
    PROVE  RunRowTyped' /\ QueueTyped'
<1>0. RunRowTyped /\ QueueTyped /\ OperatorTyped
  BY TypeParts
<1>s. "FAIL" \in Statuses /\ "PARTIAL" \in Statuses
  BY DEF Statuses, Terminal
<1>t. UNCHANGED runRow => RunRowTyped'
  BY <1>0 DEF RunRowTyped, runRow
<1>q. UNCHANGED <<expired, outbox, queue, dispatcher, refunding, reaper>> => QueueTyped'
  BY <1>0 DEF QueueTyped, queue, dispatcher
<1>1. CASE \/ \E r \in Runs : OperatorChecks(o, r)
           \/ OperatorRefunds(o) \/ (\E c \in Credits : OperatorSettles(o, c))
           \/ OperatorAborts(o)
  BY <1>q, <1>t, <1>1 DEF OperatorChecks, OperatorRefunds, OperatorSettles, OperatorAborts
<1>2. CASE OperatorFails(o)
  BY <1>0, <1>s, <1>q, <1>2, WriteStatusType DEF OperatorFails
<1>3. CASE OperatorPartial(o)
  <2>1. RunRowTyped'
    BY <1>0, <1>s, <1>3 DEF OperatorPartial, RunRowTyped, OperatorTyped
  <2> QED
    BY <1>q, <1>3, <2>1 DEF OperatorPartial
<1> QED
  BY <1>1, <1>2, <1>3 DEF Reconcile

Typed == LifecycleTypeOK /\ HandsInv /\ DispatcherInv

LEMMA TypedStep ==
    ASSUME Typed, [LifecycleNext]_lvars
    PROVE  Typed'
<1>0. LifecycleTypeOK /\ HandsInv /\ DispatcherInv
  BY DEF Typed
<1>1. /\ TypeOK /\ WorkerTyped /\ StepsTyped /\ RunRowTyped /\ QueueTyped
      /\ OperatorTyped
  BY <1>0, TypeParts
<1>2. TypeOK'
  BY <1>0, <1>1, MoneyStep, StepType
<1>3. HandsInv'
  BY <1>0, HandsStep
<1>4. DispatcherInv'
  BY <1>0, DispatcherStep DEF LifecycleTypeOK
<1>w. UNCHANGED <<worker, steps>> => WorkerTyped' /\ StepsTyped'
  BY <1>1 DEF WorkerTyped, StepsTyped, worker, steps
<1>o. UNCHANGED operator => OperatorTyped'
  BY <1>1 DEF OperatorTyped, operator
<1>5. ASSUME OtherStep PROVE LifecycleTypeOK'
  BY <1>0, <1>w, <1>o, <1>2, <1>5, OtherFrame, OtherTypedStep, TypePartsNext
<1>6. ASSUME NEW w \in Workers, WorkerStep(w)
      PROVE  LifecycleTypeOK'
  BY <1>0, <1>o, <1>2, <1>6, WorkerFrame, WorkerTypedStep, WorkerRowStep, TypePartsNext
<1>7. ASSUME NEW o \in Operators, Reconcile(o)
      PROVE  LifecycleTypeOK'
  BY <1>0, <1>w, <1>2, <1>7, OperatorFrame, OperatorTypedStep, OperatorRowStep, TypePartsNext
<1>8. ASSUME UNCHANGED lvars PROVE LifecycleTypeOK'
  <2>1. UNCHANGED <<worker, steps, operator, runRow, expired, outbox, queue, dispatcher, control>>
    BY <1>8 DEF lvars, control
  <2>2. RunRowTyped' /\ QueueTyped'
    BY <1>1, <2>1 DEF RunRowTyped, QueueTyped, runRow, queue, dispatcher, control
  <2> QED
    BY <1>w, <1>o, <1>2, <2>1, <2>2, TypePartsNext
<1>9. LifecycleTypeOK'
  BY <1>5, <1>6, <1>7, <1>8, StepCases
<1> QED
  BY <1>3, <1>4, <1>9 DEF Typed

LEMMA InitTyped == LifecycleInit => Typed
<1> SUFFICES ASSUME LifecycleInit PROVE Typed
  OBVIOUS
<1>1. TypeOK /\ HandsInv
  BY InitType, InitHands DEF LifecycleInit
<1>2. "none" \in Statuses /\ 0 \in Credits /\ 0 \in 0 .. MaxTries /\ 1 \in 1 .. Length + 1
  BY CreditsAssumption, ProcessAssumption, LengthAssumption DEF Statuses, Credits
<1>3. WorkerTyped
  BY <1>2 DEF LifecycleInit, WorkerTyped, WorkerPlaces
<1>4. StepsTyped /\ RunRowTyped
  BY <1>2 DEF LifecycleInit, StepsTyped, RunRowTyped
<1>5. QueueTyped /\ OperatorTyped /\ DispatcherInv
  BY <1>2 DEF LifecycleInit, QueueTyped, OperatorTyped, DispatcherInv
<1> QED
  BY <1>1, <1>3, <1>4, <1>5, TypeParts DEF Typed

LEMMA AlwaysTyped == LifecycleSpec => []Typed
<1>1. Typed /\ [LifecycleNext]_lvars => Typed'
  BY TypedStep
<1> QED
  BY <1>1, InitTyped, PTL DEF LifecycleSpec

\* Type correctness of a run's life, for any number of runs, skills and
\* processes: what a worker has counted, for one, never exceeds what a
\* reservation can hold.
THEOREM LifecycleTypeCorrect == LifecycleSpec => []LifecycleTypeOK
<1>1. Typed => LifecycleTypeOK
  BY DEF Typed
<1> QED
  BY <1>1, AlwaysTyped, PTL

-----------------------------------------------------------------------------
(* What a step leaves alone.                                               *)

\* A worker touches the row, the reservation and the checkpoints of its own
\* run only; arq's job it takes or gives back existed before.
LEMMA WorkerTouches ==
    ASSUME Typed, NEW w \in Workers, WorkerStep(w)
    PROVE  /\ UNCHANGED <<outbox, expired, dispatcher, refunding, reaper, operator>>
           /\ \A r \in Runs : r # wrun[w] =>
                 /\ status'[r] = status[r] /\ chargedCredits'[r] = chargedCredits[r]
                 /\ checkpoint'[r] = checkpoint[r] /\ stepCharge'[r] = stepCharge[r]
                 /\ reservation'[r] = reservation[r]
                 /\ job'[r] # "none" => job[r] # "none"
<1> DEFINE Same(r) == /\ status'[r] = status[r] /\ chargedCredits'[r] = chargedCredits[r]
                      /\ checkpoint'[r] = checkpoint[r] /\ stepCharge'[r] = stepCharge[r]
                      /\ reservation'[r] = reservation[r]
           Frame == UNCHANGED <<outbox, expired, dispatcher, refunding, reaper, operator>>
<1>0. /\ status \in [Runs -> Statuses] /\ chargedCredits \in [Runs -> Credits]
      /\ checkpoint \in [Runs -> [Steps -> {"none", "RUNNING", "PASS"}]]
      /\ stepCharge \in [Runs -> [Steps -> Credits]]
      /\ reservation \in [Runs -> [status : ReservationStatus, amount : Credits,
                                   settled_amount : Credits]]
      /\ job \in [Runs -> {"none", "queued", "active", "kept"}]
  BY DEF Typed, LifecycleTypeOK, TypeOK
<1>r. UNCHANGED <<money, runRow, steps>> => \A r \in Runs : Same(r)
  BY DEF money, vars, runRow, steps
<1>1. ASSUME NEW q \in Runs, TakeJob(w, q)
      PROVE  /\ Frame /\ \A r \in Runs : Same(r)
             /\ \A r \in Runs : job'[r] # "none" => job[r] # "none"
  <2>1. Frame /\ UNCHANGED <<money, runRow, steps>>
    BY <1>1 DEF TakeJob, control
  <2>2. \A r \in Runs : job'[r] # "none" => job[r] # "none"
    BY <1>0, <1>1 DEF TakeJob
  <2> QED
    BY <1>r, <2>1, <2>2
<1>2. CASE BeginSkips(w) \/ JobRaises(w) \/ JobTimesOut(w) \/ WorkerCrash(w) \/ Return(w)
  <2>1. /\ Frame /\ UNCHANGED <<money, runRow, steps>>
        /\ \/ job' = [job EXCEPT ![wrun[w]] = "kept"]
           \/ job' = [job EXCEPT ![wrun[w]] = "queued"]
           \/ job' = job
    BY <1>2 DEF BeginSkips, JobRaises, JobTimesOut, WorkerCrash, Return, JobEnds, control
  <2>2. \A r \in Runs : r # wrun[w] => (job'[r] # "none" => job[r] # "none")
    BY <1>0, <2>1
  <2> QED
    BY <1>r, <2>1, <2>2
<1>3. CASE \/ BeginWedges(w) \/ Check(w) \/ Prepare(w) \/ ProviderRaises(w)
           \/ SettleRaises(w) \/ DatabaseRaises(w) \/ Record(w)
  BY <1>r, <1>3 DEF BeginWedges, Check, Prepare, ProviderRaises, SettleRaises, DatabaseRaises,
     Record, control, queue
<1>4. CASE BeginRuns(w) \/ Fail(w) \/ Block(w)
  <2>1. /\ Frame /\ UNCHANGED <<money, steps, job, chargedCredits>>
        /\ \E s : status' = [status EXCEPT ![wrun[w]] = s]
    BY <1>4 DEF BeginRuns, Fail, Block, WriteStatus, control, queue
  <2>2. \A r \in Runs : r # wrun[w] => Same(r)
    BY <1>0, <2>1 DEF money, vars, steps
  <2> QED
    BY <2>1, <2>2
<1>5. CASE Finish(w)
  <2>1. /\ Frame /\ UNCHANGED <<money, steps, job>>
        /\ status' = [status EXCEPT ![wrun[w]] = woutcome[w]]
        /\ chargedCredits' = [chargedCredits EXCEPT ![wrun[w]] = wtotal[w]]
    BY <1>5 DEF Finish, control, queue
  <2>2. \A r \in Runs : r # wrun[w] => Same(r)
    BY <1>0, <2>1 DEF money, vars, steps
  <2> QED
    BY <2>1, <2>2
<1>6. CASE Settle(w) \/ RefundFailed(w)
  <2>1. /\ Frame /\ UNCHANGED <<runRow, steps, job>>
        /\ SettleRun(wrun[w], wtotal[w]) \/ RefundRun(wrun[w]) \/ UNCHANGED money
    BY <1>6 DEF Settle, RefundFailed, RefundIfOpen, control, queue
  <2>2. \A r \in Runs : r # wrun[w] => reservation'[r] = reservation[r]
    BY <1>0, <2>1 DEF SettleRun, RefundRun, money, vars
  <2> QED
    BY <2>1, <2>2 DEF runRow, steps
<1>7. ASSUME Insert(w) \/ \E c \in Charges : ProviderReturns(w, c)
      PROVE  Frame /\ job' = job /\ \A r \in Runs : r # wrun[w] => Same(r)
  <2>1. /\ Frame /\ UNCHANGED <<money, runRow, job>>
        /\ \/ UNCHANGED <<checkpoint, stepCharge>>
           \/ \E s, c : /\ checkpoint' = [checkpoint EXCEPT ![wrun[w]][wstep[w]] = s]
                        /\ \/ stepCharge' = [stepCharge EXCEPT ![wrun[w]][wstep[w]] = c]
                           \/ stepCharge' = stepCharge
    BY <1>7 DEF Insert, ProviderReturns, steps, control, queue
  <2>2. \A r \in Runs : r # wrun[w] =>
           checkpoint'[r] = checkpoint[r] /\ stepCharge'[r] = stepCharge[r]
    BY <1>0, <2>1
  <2> QED
    BY <2>1, <2>2 DEF money, vars, runRow
<1> QED
  BY <1>1, <1>2, <1>3, <1>4, <1>5, <1>6, <1>7 DEF WorkerStep, ExecuteRun

\* An operator touches the row and the reservation of its own run only.
LEMMA OperatorTouches ==
    ASSUME Typed, NEW o \in Operators, Reconcile(o)
    PROVE  /\ UNCHANGED <<worker, steps, outbox, job, dispatcher, refunding, reaper>>
           /\ \A r \in Runs : r # orun[o] =>
                 /\ status'[r] = status[r] /\ chargedCredits'[r] = chargedCredits[r]
                 /\ reservation'[r] = reservation[r]
<1>0. /\ status \in [Runs -> Statuses] /\ chargedCredits \in [Runs -> Credits]
      /\ reservation \in [Runs -> [status : ReservationStatus, amount : Credits,
                                   settled_amount : Credits]]
  BY DEF Typed, LifecycleTypeOK, TypeOK
<1>1. CASE (\E r \in Runs : OperatorChecks(o, r)) \/ OperatorAborts(o)
  BY <1>1 DEF OperatorChecks, OperatorAborts, money, vars, runRow, queue
<1>2. CASE OperatorRefunds(o) \/ (\E c \in Credits : OperatorSettles(o, c))
  <2>1. /\ UNCHANGED <<worker, steps, outbox, job, dispatcher, refunding, reaper, runRow>>
        /\ \/ RefundRun(orun[o]) \/ UNCHANGED money
           \/ \E c \in Credits : SettleRun(orun[o], c)
    BY <1>2 DEF OperatorRefunds, OperatorSettles, RefundIfOpen, queue
  <2>2. \A r \in Runs : r # orun[o] => reservation'[r] = reservation[r]
    BY <1>0, <2>1 DEF SettleRun, RefundRun, money, vars
  <2> QED
    BY <2>1, <2>2 DEF runRow
<1>3. CASE OperatorFails(o)
  <2>1. /\ UNCHANGED <<worker, steps, outbox, job, dispatcher, refunding, reaper, money>>
        /\ status' = [status EXCEPT ![orun[o]] = "FAIL"] /\ chargedCredits' = chargedCredits
    BY <1>3 DEF OperatorFails, WriteStatus, queue
  <2> QED
    BY <1>0, <2>1 DEF money, vars
<1>4. CASE OperatorPartial(o)
  <2>1. /\ UNCHANGED <<worker, steps, outbox, job, dispatcher, refunding, reaper, money>>
        /\ status' = [status EXCEPT ![orun[o]] = "PARTIAL"]
        /\ chargedCredits' = [chargedCredits EXCEPT ![orun[o]] = ocharge[o]]
    BY <1>4 DEF OperatorPartial, queue
  <2> QED
    BY <1>0, <2>1 DEF money, vars
<1> QED
  BY <1>1, <1>2, <1>3, <1>4 DEF Reconcile

\* A worker moves alone, and an idle one can only take a queued job.
LEMMA WorkerAlone ==
    ASSUME Typed, NEW w \in Workers, WorkerStep(w)
    PROVE  /\ \A v \in Workers \ {w} :
                 /\ wpc'[v] = wpc[v] /\ wrun'[v] = wrun[v] /\ wstep'[v] = wstep[v]
                 /\ wtotal'[v] = wtotal[v] /\ woutcome'[v] = woutcome[v]
           /\ \/ wpc'[w] = "idle"
              \/ wpc[w] # "idle" /\ wrun'[w] = wrun[w]
              \/ /\ wpc'[w] = "begin" /\ wrun'[w] \in Runs /\ job[wrun'[w]] = "queued"
<1> DEFINE Alone == /\ \A v \in Workers \ {w} :
                              /\ wpc'[v] = wpc[v] /\ wrun'[v] = wrun[v] /\ wstep'[v] = wstep[v]
                              /\ wtotal'[v] = wtotal[v] /\ woutcome'[v] = woutcome[v]
<1>0. WorkerTyped
  BY TypeParts DEF Typed
<1>1. ASSUME NEW r \in Runs, TakeJob(w, r)
      PROVE  Alone /\ wpc'[w] = "begin" /\ wrun'[w] = r /\ job[r] = "queued"
  BY <1>0, <1>1 DEF TakeJob, WorkerTyped
<1>2. CASE BeginSkips(w) \/ JobRaises(w) \/ JobTimesOut(w) \/ WorkerCrash(w) \/ Return(w)
  <2>1. WorkerIdle(w)
    BY <1>2 DEF BeginSkips, JobRaises, JobTimesOut, WorkerCrash, Return, JobEnds
  <2> QED
    BY <1>0, <2>1 DEF WorkerIdle, WorkerTyped
<1>3. ASSUME NEW to, WorkerAt(w, to)
      PROVE  Alone /\ wrun'[w] = wrun[w]
  BY <1>0, <1>3 DEF WorkerAt, WorkerTyped
<1>4. CASE BeginRuns(w) \/ BeginWedges(w)
  BY <1>3, <1>4 DEF BeginRuns, BeginWedges
<1>5. CASE Check(w)
  BY <1>0, <1>3, <1>5 DEF Check, WorkerTyped
<1>6. ASSUME NEW cost, Account(w, cost)
      PROVE  Alone /\ wrun'[w] = wrun[w]
  BY <1>0, <1>3, <1>6 DEF Account, WorkerTyped
<1>7. CASE Prepare(w) \/ (\E c \in Charges : ProviderReturns(w, c))
  BY <1>3, <1>6, <1>7 DEF Prepare, ProviderReturns
<1>8. CASE Insert(w)
  BY <1>3, <1>8 DEF Insert
<1>9. CASE \/ ProviderRaises(w) \/ Settle(w) \/ SettleRaises(w) \/ Finish(w)
           \/ RefundFailed(w) \/ Fail(w) \/ Block(w)
  BY <1>3, <1>9 DEF ProviderRaises, Settle, SettleRaises, Finish, RefundFailed, Fail, Block
<1>10. CASE DatabaseRaises(w) \/ Record(w)
  BY <1>3, <1>10, OnlyMoves DEF InsideTry
<1> QED
  BY <1>1, <1>2, <1>4, <1>5, <1>7, <1>8, <1>9, <1>10 DEF WorkerStep, ExecuteRun

\* The API, dispatchers, arq and the reaper never write what a run was charged.
LEMMA OtherCharges ==
    ASSUME OtherStep
    PROVE  chargedCredits' = chargedCredits
<1>1. ASSUME NEW r \in Runs, Reap(r) \/ ReaperCrash(r)
      PROVE  chargedCredits' = chargedCredits
  BY <1>1 DEF Reap, ReaperSelect, ReaperRefund, ReaperRead, ReaperFail, ReaperCrash, WriteStatus,
     runRow
<1>2. ASSUME NEW d \in Dispatchers, Dispatch(d) \/ DispatcherCrash(d)
      PROVE  chargedCredits' = chargedCredits
  BY <1>2 DEF Dispatch, DispatchClaim, DispatchEnqueue, DispatchFails, DispatchRead,
     DispatchMark, DispatcherCrash, WriteStatus, runRow
<1> QED
  BY <1>1, <1>2 DEF OtherStep, ReceivePayment, CreateRun, CancelPending, CancelActive,
     CancelRefund, CancelCrash, AbandonJob, ResultExpires, Expire, LeaseExpires, WriteStatus, runRow

-----------------------------------------------------------------------------
(* A run leaves a trace only once it has a reservation.                    *)

Known(r) == reservation[r].status # "none"

Touched(r) == \E i \in Steps : checkpoint[r][i] # "none"

Traced(r) == \/ status[r] # "none" \/ outbox[r] # "none" \/ job[r] # "none"
             \/ reaper[r] # "idle" \/ Touched(r)

KnownInv ==
    /\ \A r \in Runs : Traced(r) => Known(r)
    /\ \A d \in Dispatchers : dpc[d] # "idle" => Known(drun[d])
    /\ \A w \in Workers : wpc[w] # "idle" => Known(wrun[w])
    /\ \A o \in Operators : opc[o] # "idle" => Known(orun[o])

LEMMA KnownKept ==
    ASSUME Typed, [LifecycleNext]_lvars, NEW r \in Runs, Known(r)
    PROVE  Known(r)' /\ reservation'[r].amount = reservation[r].amount
  BY MoneyStep, StatusKept, ReservationStep DEF Typed, LifecycleTypeOK, Known

Begun == {"QUEUED", "RUNNING", "CANCEL_REQUESTED", "PASS", "PARTIAL", "BLOCKED"}

\* What the API, dispatchers, arq and the reaper do to a run: the status they
\* write only follows the outbox row, and they settle nothing.
OtherRow(r) ==
    /\ Traced(r)' => Traced(r) \/ Known(r) \/ Known(r)'
    /\ outbox[r] = "dispatched" /\ Known(r) => outbox'[r] = "dispatched"
    /\ \/ status'[r] = status[r]
       \/ status'[r] \notin Begun
       \/ status'[r] = "QUEUED" /\ outbox'[r] = "dispatched"
       \/ status'[r] = "CANCEL_REQUESTED" /\ status[r] \in Begun
    /\ reservation'[r].settled_amount \in {0, reservation[r].settled_amount}

LEMMA OtherTouches ==
    ASSUME Typed, KnownInv, OtherStep, NEW r \in Runs
    PROVE  OtherRow(r)
<1>0. /\ status \in [Runs -> Statuses]
      /\ outbox \in [Runs -> {"none", "pending", "dispatched"}]
      /\ job \in [Runs -> {"none", "queued", "active", "kept"}]
      /\ reaper \in [Runs -> {"idle", "refund", "read", "fail"}]
      /\ reservation \in [Runs -> [status : ReservationStatus, amount : Credits,
                                   settled_amount : Credits]]
  BY DEF Typed, LifecycleTypeOK, TypeOK
<1>c. checkpoint' = checkpoint
  BY OtherFrame DEF steps
<1>t. (Touched(r))' = Touched(r)
  BY <1>c DEF Touched
<1>m. UNCHANGED money => reservation' = reservation /\ Known(r)' = Known(r)
  BY DEF money, vars, Known
<1>s. /\ \A s \in {"PENDING_DISPATCH", "CANCELLED", "FAIL"} : s \notin Begun
      /\ "RUNNING" \in Begun /\ "CANCEL_REQUESTED" \in Begun
  BY DEF Begun
<1>f. ASSUME NEW q \in Runs, RefundIfOpen(q)
      PROVE  reservation'[r].settled_amount = reservation[r].settled_amount
  BY <1>0, <1>f DEF RefundIfOpen, RefundRun, money, vars
<1>1. ASSUME NEW e \in Events, ReceivePayment(e)
      PROVE  OtherRow(r)
  <2>1. UNCHANGED <<status, outbox, job, reaper, reservation>>
    BY <1>1 DEF ReceivePayment, ProcessVerifiedPayment, runRow, queue, control
  <2> QED
    BY <1>t, <2>1 DEF OtherRow, Traced
<1>2. ASSUME NEW q \in Runs, NEW a \in Credits, CreateRun(q, a)
      PROVE  OtherRow(r)
  <2>1. /\ status' = [status EXCEPT ![q] = "PENDING_DISPATCH"]
        /\ outbox' = [outbox EXCEPT ![q] = "pending"]
        /\ UNCHANGED <<job, reaper>>
        /\ reservation[q].status = "none"
        /\ reservation' = [reservation EXCEPT ![q] =
               [status |-> "reserved", amount |-> a, settled_amount |-> 0]]
    BY <1>2 DEF CreateRun, WriteStatus, Reserve, queue, control
  <2>2. CASE q = r
    <3>1. status'[r] = "PENDING_DISPATCH" /\ Known(r)' /\ ~Known(r)
          /\ reservation'[r].settled_amount = 0
      BY <1>0, <2>1, <2>2 DEF Known
    <3> QED
      BY <1>s, <3>1 DEF OtherRow
  <2>3. CASE q # r
    <3>1. status'[r] = status[r] /\ outbox'[r] = outbox[r] /\ job' = job /\ reaper' = reaper
          /\ reservation'[r] = reservation[r]
      BY <1>0, <2>1, <2>3
    <3> QED
      BY <1>t, <3>1 DEF OtherRow, Traced
  <2> QED
    BY <2>2, <2>3
<1>3. ASSUME NEW q \in Runs, CancelPending(q) \/ CancelActive(q)
      PROVE  OtherRow(r)
  <2>1. /\ UNCHANGED <<money, outbox, job, reaper>>
        /\ status[q] # "none"
        /\ \/ status' = [status EXCEPT ![q] = "CANCELLED"]
           \/ /\ status[q] \in {"RUNNING", "CANCEL_REQUESTED"}
              /\ status' = [status EXCEPT ![q] = "CANCEL_REQUESTED"]
    BY <1>3 DEF CancelPending, CancelActive, queue, control
  <2>2. \/ status'[r] = status[r]
        \/ status[r] # "none" /\ status'[r] = "CANCELLED"
        \/ status[r] \in {"RUNNING", "CANCEL_REQUESTED"} /\ status'[r] = "CANCEL_REQUESTED"
    BY <1>0, <2>1
  <2> QED
    BY <1>t, <1>m, <1>s, <2>1, <2>2 DEF OtherRow, Traced
<1>4. ASSUME NEW q \in Runs, CancelRefund(q) \/ CancelCrash(q) \/ ReaperRefund(q) \/ ReaperRead(q)
                             \/ ReaperCrash(q) \/ ReaperSelect(q)
      PROVE  OtherRow(r)
  <2>1. /\ UNCHANGED <<status, outbox, job>>
        /\ RefundIfOpen(q) \/ UNCHANGED money
        /\ \/ reaper' = reaper
           \/ reaper[q] # "idle" /\ \E s : reaper' = [reaper EXCEPT ![q] = s]
           \/ IsOpen(q) /\ \E s : reaper' = [reaper EXCEPT ![q] = s]
    BY <1>4 DEF CancelRefund, CancelCrash, ReaperRefund, ReaperRead, ReaperCrash, ReaperSelect,
                ReaperAt, runRow, queue
  <2>2. reaper'[r] = reaper[r] \/ reaper[r] # "idle" \/ IsOpen(r)
    BY <1>0, <2>1
  <2>3. reservation'[r].settled_amount = reservation[r].settled_amount
    BY <1>f, <1>m, <2>1
  <2>4. IsOpen(r) => Known(r)
    BY DEF IsOpen, Known
  <2>5. (Traced(r))' => Traced(r) \/ Known(r)
    BY <1>t, <2>1, <2>2, <2>4 DEF Traced
  <2> QED
    BY <2>1, <2>3, <2>5 DEF OtherRow
<1>5. ASSUME NEW q \in Runs, AbandonJob(q) \/ ResultExpires(q) \/ Expire(q)
      PROVE  OtherRow(r)
  <2>1. /\ UNCHANGED <<money, status, outbox, reaper>>
        /\ job' = job \/ (job[q] # "none" /\ \E s : job' = [job EXCEPT ![q] = s])
    BY <1>5 DEF AbandonJob, ResultExpires, Expire, runRow, queue, control
  <2>2. job'[r] = job[r] \/ job[r] # "none"
    BY <1>0, <2>1
  <2> QED
    BY <1>t, <1>m, <2>1, <2>2 DEF OtherRow, Traced
<1>6. ASSUME NEW q \in Runs, ReaperFail(q)
      PROVE  OtherRow(r)
  <2>1. /\ UNCHANGED <<money, outbox, job>> /\ reaper[q] # "idle"
        /\ status' = [status EXCEPT ![q] = "FAIL"] /\ reaper' = [reaper EXCEPT ![q] = "idle"]
    BY <1>6 DEF ReaperFail, ReaperAt, WriteStatus, queue
  <2>2. \/ status'[r] = status[r] /\ reaper'[r] = reaper[r]
        \/ status'[r] = "FAIL" /\ reaper[r] # "idle"
    BY <1>0, <2>1
  <2> QED
    BY <1>t, <1>m, <1>s, <2>1, <2>2 DEF OtherRow, Traced
<1>7. ASSUME NEW d \in Dispatchers, Dispatch(d) \/ DispatcherCrash(d)
      PROVE  OtherRow(r)
  <2>1. UNCHANGED <<money, reaper>>
    BY <1>7 DEF Dispatch, DispatchClaim, DispatchEnqueue, DispatchFails, DispatchRead,
                DispatchMark, DispatcherCrash, control
  <2>2. CASE DispatchMark(d)
    <3>1. /\ dpc[d] # "idle" /\ job' = job
          /\ outbox' = [outbox EXCEPT ![drun[d]] = "dispatched"]
          /\ \/ status' = status
             \/ status' = [status EXCEPT ![drun[d]] = "QUEUED"]
      BY <2>2 DEF DispatchMark, WriteStatus, runRow, queue
    <3>2. \/ UNCHANGED <<status[r], outbox[r]>>
          \/ r = drun[d] /\ outbox'[r] = "dispatched" /\ status'[r] = "QUEUED"
          \/ r = drun[d] /\ outbox'[r] = "dispatched" /\ status'[r] = status[r]
      BY <1>0, <3>1
    <3>3. r = drun[d] => Known(r)
      BY <3>1 DEF KnownInv
    <3> QED
      BY <1>t, <1>m, <2>1, <3>1, <3>2, <3>3 DEF OtherRow, Traced
  <2>3. CASE ~DispatchMark(d)
    <3>1. /\ UNCHANGED <<status, outbox>>
          /\ job' = job \/ (dpc[d] # "idle" /\ job' = Enqueued(drun[d]))
      BY <1>7, <2>3 DEF Dispatch, DispatchClaim, DispatchEnqueue, DispatchFails, DispatchRead,
                        DispatcherCrash, runRow, queue
    <3>2. job'[r] = job[r] \/ Known(r)
      BY <1>0, <3>1 DEF KnownInv, Enqueued
    <3> QED
      BY <1>t, <1>m, <2>1, <3>1, <3>2 DEF OtherRow, Traced
  <2> QED
    BY <2>2, <2>3
<1>8. ASSUME NEW w \in Workers, LeaseExpires(w)
      PROVE  OtherRow(r)
  <2>1. /\ UNCHANGED <<money, status, outbox, reaper>>
        /\ job[wrun[w]] = "active" /\ job' = [job EXCEPT ![wrun[w]] = "queued"]
    BY <1>8 DEF LeaseExpires, runRow, control
  <2>2. job'[r] = job[r] \/ job[r] # "none"
    BY <1>0, <2>1
  <2> QED
    BY <1>t, <1>m, <2>1, <2>2 DEF OtherRow, Traced
<1> QED
  BY <1>1, <1>2, <1>3, <1>4, <1>5, <1>6, <1>7, <1>8 DEF OtherStep, Reap

LEMMA InitKnown == LifecycleInit => KnownInv
  BY DEF LifecycleInit, KnownInv, Traced, Touched

\* Each conjunct of KnownInv, for one actor.
LEMMA TracedStep ==
    ASSUME Typed, KnownInv, [LifecycleNext]_lvars, NEW r \in Runs, Traced(r)'
    PROVE  Known(r)'
<1>1. Known(r) => Known(r)'
  BY KnownKept
<1>2. Traced(r) => Known(r)
  BY DEF KnownInv
<1>3. ASSUME OtherStep PROVE Known(r)'
  BY <1>1, <1>2, <1>3, OtherTouches DEF OtherRow
<1>4. ASSUME NEW w \in Workers, WorkerStep(w) PROVE Known(r)'
  <2>1. CASE r # wrun[w]
    <3>1. Traced(r)
      BY <1>4, <2>1, WorkerTouches DEF Traced, Touched
    <3> QED
      BY <1>1, <1>2, <3>1
  <2>2. CASE r = wrun[w] /\ wpc[w] # "idle"
    BY <1>1, <2>2 DEF KnownInv
  <2>3. CASE wpc[w] = "idle"
    <3>1. PICK q \in Runs : TakeJob(w, q)
      BY <1>4, <2>3, OnlyMoves
      DEF WorkerStep, ExecuteRun, InsideTry, OutsideTry, JobRaises, JobTimesOut, WorkerCrash,
         Active, BeginSkips, BeginRuns, BeginWedges, Check, Prepare, Insert, ProviderReturns,
         ProviderRaises, Settle, SettleRaises, Finish, RefundFailed, Fail, Block, Return
    <3>2. /\ UNCHANGED <<status, outbox, checkpoint, reaper>>
          /\ job[q] = "queued" /\ job' = [job EXCEPT ![q] = "active"]
      BY <3>1 DEF TakeJob, runRow, steps, control
    <3>3. job'[r] = job[r] \/ job[r] # "none"
      BY <3>2 DEF Typed, LifecycleTypeOK
    <3>4. Traced(r)
      BY <3>2, <3>3 DEF Traced, Touched
    <3> QED
      BY <1>1, <1>2, <3>4
  <2> QED
    BY <2>1, <2>2, <2>3
<1>5. ASSUME NEW o \in Operators, Reconcile(o) PROVE Known(r)'
  <2>1. UNCHANGED <<steps, outbox, job, reaper>>
    BY <1>5, OperatorTouches
  <2>2. CASE r # orun[o]
    <3>1. Traced(r)
      BY <1>5, <2>1, <2>2, OperatorTouches DEF Traced, Touched, steps
    <3> QED
      BY <1>1, <1>2, <3>1
  <2>3. CASE r = orun[o] /\ opc[o] # "idle"
    BY <1>1, <2>3 DEF KnownInv
  <2>4. CASE opc[o] = "idle"
    <3>1. UNCHANGED status
      BY <1>5, <2>4 DEF Reconcile, OperatorChecks, OperatorRefunds, OperatorFails, OperatorSettles,
         OperatorPartial, OperatorAborts, runRow
    <3>2. Traced(r)
      BY <2>1, <3>1 DEF Traced, Touched, steps
    <3> QED
      BY <1>1, <1>2, <3>2
  <2> QED
    BY <2>2, <2>3, <2>4
<1>6. ASSUME UNCHANGED lvars PROVE Known(r)'
  <2>1. UNCHANGED <<status, outbox, checkpoint, job, reaper>>
    BY <1>6 DEF lvars, runRow, steps, queue, control
  <2> QED
    BY <1>1, <1>2, <2>1 DEF Traced, Touched
<1> QED
  BY <1>3, <1>4, <1>5, <1>6, StepCases

\* What an operator has in hand: a run, that was blocked and open when it
\* began.
LEMMA OperatorAlone ==
    ASSUME Typed, NEW o \in Operators, Reconcile(o)
    PROVE  /\ \A p \in Operators \ {o} :
                 opc'[p] = opc[p] /\ orun'[p] = orun[p] /\ ocharge'[p] = ocharge[p]
           /\ \/ opc'[o] = "idle"
              \/ opc[o] # "idle" /\ orun'[o] = orun[o]
              \/ /\ opc'[o] = "act" /\ orun'[o] \in Runs /\ status[orun'[o]] = "BLOCKED"
                 /\ IsOpen(orun'[o])
<1>0. OperatorTyped
  BY TypeParts DEF Typed
<1>1. ASSUME NEW r \in Runs, OperatorChecks(o, r)
      PROVE  /\ \A p \in Operators \ {o} :
                   opc'[p] = opc[p] /\ orun'[p] = orun[p] /\ ocharge'[p] = ocharge[p]
             /\ opc'[o] = "act" /\ orun'[o] = r /\ status[r] = "BLOCKED" /\ IsOpen(r)
  BY <1>0, <1>1 DEF OperatorChecks, OperatorTyped
<1>2. CASE OperatorRefunds(o) \/ (\E c \in Credits : OperatorSettles(o, c))
  BY <1>0, <1>2 DEF OperatorRefunds, OperatorSettles, OperatorAt, OperatorTyped
<1>3. CASE OperatorFails(o) \/ OperatorPartial(o) \/ OperatorAborts(o)
  BY <1>0, <1>3 DEF OperatorFails, OperatorPartial, OperatorAborts, OperatorDone, OperatorTyped
<1> QED
  BY <1>1, <1>2, <1>3 DEF Reconcile

LEMMA DispatcherKnown ==
    ASSUME Typed, KnownInv, [LifecycleNext]_lvars, NEW d \in Dispatchers, dpc'[d] # "idle"
    PROVE  Known(drun[d])'
<1>0. /\ dpc \in [Dispatchers -> {"idle", "enqueue", "read", "mark"}]
      /\ drun \in [Dispatchers -> Runs \cup {NoRun}] /\ DispatcherInv
      /\ outbox \in [Runs -> {"none", "pending", "dispatched"}]
  BY DEF Typed, LifecycleTypeOK
<1>1. dpc[d] # "idle" => drun[d] \in Runs /\ Known(drun[d])
  BY <1>0 DEF DispatcherInv, KnownInv
<1>2. \/ dpc[d] # "idle" /\ drun'[d] = drun[d]
      \/ drun'[d] \in Runs /\ outbox[drun'[d]] = "pending"
  <2>1. CASE UNCHANGED dispatcher
    BY <2>1 DEF dispatcher
  <2>2. ASSUME NEW c \in Dispatchers, NEW r \in Runs, DispatchClaim(c, r)
        PROVE  \/ dpc[d] # "idle" /\ drun'[d] = drun[d]
               \/ drun'[d] \in Runs /\ outbox[drun'[d]] = "pending"
    BY <1>0, <2>2 DEF DispatchClaim, Pending
  <2>3. ASSUME NEW c \in Dispatchers, DispatchEnqueue(c) \/ DispatchRead(c)
        PROVE  dpc[d] # "idle" /\ drun'[d] = drun[d]
    BY <1>0, <2>3 DEF DispatchEnqueue, DispatchRead
  <2>4. ASSUME NEW c \in Dispatchers, DispatchFails(c) \/ DispatchMark(c) \/ DispatcherCrash(c)
        PROVE  dpc[d] # "idle" /\ drun'[d] = drun[d]
    BY <1>0, <2>4 DEF DispatchFails, DispatchMark, DispatcherCrash, DispatcherDone
  <2> QED
    BY <2>1, <2>2, <2>3, <2>4, DispatcherFrame DEF Dispatch
<1>3. drun'[d] \in Runs /\ Known(drun'[d])
  BY <1>1, <1>2 DEF KnownInv, Traced
<1>4. PICK r \in Runs : r = drun'[d]
  BY <1>3
<1>5. Known(r)'
  BY <1>3, <1>4, KnownKept
<1> QED
  BY <1>4, <1>5 DEF Known

LEMMA WorkerKnown ==
    ASSUME Typed, KnownInv, [LifecycleNext]_lvars, NEW v \in Workers, wpc'[v] # "idle"
    PROVE  Known(wrun[v])'
<1>1. wpc[v] # "idle" => wrun[v] \in Runs /\ Known(wrun[v])
  BY DEF Typed, HandsInv, WorkerInv, KnownInv
<1>2. \/ wpc[v] # "idle" /\ wrun'[v] = wrun[v]
      \/ wrun'[v] \in Runs /\ job[wrun'[v]] = "queued"
  <2>1. CASE UNCHANGED worker
    BY <2>1 DEF worker
  <2>2. ASSUME NEW w \in Workers, WorkerStep(w)
        PROVE  \/ wpc[v] # "idle" /\ wrun'[v] = wrun[v]
               \/ wrun'[v] \in Runs /\ job[wrun'[v]] = "queued"
    BY <2>2, WorkerAlone
  <2> QED
    BY <2>1, <2>2, StepCases, OtherFrame, OperatorFrame DEF lvars
<1>3. wrun'[v] \in Runs /\ Known(wrun'[v])
  BY <1>1, <1>2 DEF KnownInv, Traced
<1>4. PICK r \in Runs : r = wrun'[v]
  BY <1>3
<1>5. Known(r)'
  BY <1>3, <1>4, KnownKept
<1> QED
  BY <1>4, <1>5 DEF Known

LEMMA OperatorKnown ==
    ASSUME Typed, KnownInv, [LifecycleNext]_lvars, NEW p \in Operators, opc'[p] # "idle"
    PROVE  Known(orun[p])'
<1>1. opc[p] # "idle" => orun[p] \in Runs /\ Known(orun[p])
  BY DEF Typed, HandsInv, OperatorInv, KnownInv
<1>2. \/ opc[p] # "idle" /\ orun'[p] = orun[p]
      \/ orun'[p] \in Runs /\ status[orun'[p]] = "BLOCKED"
  <2>1. CASE UNCHANGED operator
    BY <2>1 DEF operator
  <2>2. ASSUME NEW o \in Operators, Reconcile(o)
        PROVE  \/ opc[p] # "idle" /\ orun'[p] = orun[p]
               \/ orun'[p] \in Runs /\ status[orun'[p]] = "BLOCKED"
    BY <2>2, OperatorAlone
  <2> QED
    BY <2>1, <2>2, StepCases, OtherFrame, WorkerFrame DEF lvars, control
<1>3. orun'[p] \in Runs /\ Known(orun'[p])
  BY <1>1, <1>2 DEF KnownInv, Traced
<1>4. PICK r \in Runs : r = orun'[p]
  BY <1>3
<1>5. Known(r)'
  BY <1>3, <1>4, KnownKept
<1> QED
  BY <1>4, <1>5 DEF Known

LEMMA KnownStep ==
    ASSUME Typed, KnownInv, [LifecycleNext]_lvars
    PROVE  KnownInv'
<1>1. \A r \in Runs : Traced(r)' => Known(r)'
  BY TracedStep
<1>2. \A d \in Dispatchers : dpc'[d] # "idle" => Known(drun[d])'
  BY DispatcherKnown DEF Known
<1>3. \A w \in Workers : wpc'[w] # "idle" => Known(wrun[w])'
  BY WorkerKnown DEF Known
<1>4. \A o \in Operators : opc'[o] # "idle" => Known(orun[o])'
  BY OperatorKnown DEF Known
<1> QED
  BY <1>1, <1>2, <1>3, <1>4 DEF KnownInv

-----------------------------------------------------------------------------
(* No run is started before its outbox event is marked.                    *)

DispatchedInv ==
    /\ StartedMeansDispatched
    /\ \A w \in Workers : wpc[w] \notin {"idle", "begin"} => outbox[wrun[w]] = "dispatched"
    /\ \A o \in Operators : opc[o] # "idle" => outbox[orun[o]] = "dispatched"

\* How a worker starts on a run.
LEMMA WorkerBegins ==
    ASSUME Typed, NEW w \in Workers, WorkerStep(w), wpc[w] \in {"idle", "begin"}
    PROVE  /\ UNCHANGED <<money, steps, chargedCredits>>
           /\ \/ status' = status /\ wpc'[w] \in {"idle", "begin"}
              \/ wpc[w] = "begin" /\ status[wrun[w]] \in Executable
<1>0. WorkerTyped
  BY TypeParts DEF Typed
<1>1. CASE \E r \in Runs : TakeJob(w, r)
  BY <1>0, <1>1 DEF TakeJob, runRow, WorkerTyped
<1>2. CASE BeginSkips(w)
  BY <1>0, <1>2 DEF BeginSkips, JobEnds, WorkerIdle, runRow, WorkerTyped
<1>3. CASE WorkerCrash(w) \/ JobRaises(w)
  BY <1>0, <1>3 DEF WorkerCrash, JobRaises, JobEnds, WorkerIdle, runRow, WorkerTyped
<1>4. CASE BeginRuns(w) \/ BeginWedges(w)
  BY <1>4 DEF BeginRuns, BeginWedges, WriteStatus, Executable, runRow
<1> QED
  BY <1>1, <1>2, <1>3, <1>4, OnlyMoves
  DEF WorkerStep, ExecuteRun, InsideTry, JobTimesOut, Check, Prepare, Insert, ProviderReturns,
      ProviderRaises, Settle, SettleRaises, Finish, RefundFailed, Fail, Block, Return

LEMMA DispatchedStep ==
    ASSUME Typed, KnownInv, DispatchedInv, [LifecycleNext]_lvars
    PROVE  DispatchedInv'
<1>0. \A r \in Runs : status[r] \in Begun => outbox[r] = "dispatched" /\ Known(r)
  BY DEF DispatchedInv, StartedMeansDispatched, Begun, KnownInv, Traced
<1>h. /\ \A w \in Workers : wpc[w] # "idle" => wrun[w] \in Runs /\ Known(wrun[w])
      /\ \A o \in Operators : opc[o] # "idle" => orun[o] \in Runs /\ Known(orun[o])
  BY DEF Typed, HandsInv, WorkerInv, OperatorInv, KnownInv
<1>1. ASSUME OtherStep
      PROVE  DispatchedInv'
  <2>1. \A r \in Runs : OtherRow(r)
    BY <1>1, OtherTouches
  <2>2. UNCHANGED <<wpc, wrun, opc, orun>>
    BY <1>1, OtherFrame DEF worker, operator
  <2>3. \A r \in Runs : status'[r] \in Begun => outbox'[r] = "dispatched"
    BY <1>0, <2>1 DEF OtherRow
  <2>4. \A w \in Workers : wpc[w] \notin {"idle", "begin"} => outbox'[wrun[w]] = "dispatched"
    BY <1>h, <2>1 DEF OtherRow, DispatchedInv
  <2>5. \A o \in Operators : opc[o] # "idle" => outbox'[orun[o]] = "dispatched"
    BY <1>h, <2>1 DEF OtherRow, DispatchedInv
  <2> QED
    BY <2>2, <2>3, <2>4, <2>5 DEF DispatchedInv, StartedMeansDispatched, Begun
<1>2. ASSUME NEW w \in Workers, WorkerStep(w)
      PROVE  DispatchedInv'
  <2>1. outbox' = outbox /\ opc' = opc /\ orun' = orun
    BY <1>2, WorkerTouches DEF operator
  <2>2. \/ outbox[wrun[w]] = "dispatched"
        \/ status' = status /\ wpc'[w] \in {"idle", "begin"}
    <3>1. CASE wpc[w] \in {"idle", "begin"}
      <4>1. ASSUME wpc[w] = "begin", status[wrun[w]] \in Executable
            PROVE  outbox[wrun[w]] = "dispatched"
        BY <1>0, <1>h, <4>1 DEF Executable, Begun
      <4> QED
        BY <1>2, <3>1, <4>1, WorkerBegins
    <3>2. CASE wpc[w] \notin {"idle", "begin"}
      BY <3>2 DEF DispatchedInv
    <3> QED
      BY <3>1, <3>2
  <2>3. ASSUME NEW r \in Runs, status'[r] \in Begun
        PROVE  outbox[r] = "dispatched"
    BY <1>0, <1>2, <2>2, <2>3, WorkerTouches
  <2>4. ASSUME NEW v \in Workers, wpc'[v] \notin {"idle", "begin"}
        PROVE  outbox[wrun'[v]] = "dispatched"
    <3>1. CASE v # w
      BY <1>2, <2>4, <3>1, WorkerAlone DEF DispatchedInv
    <3>2. CASE v = w
      <4>1. wrun'[w] = wrun[w]
        BY <1>2, <2>4, <3>2, WorkerAlone
      <4> QED
        BY <2>2, <2>4, <3>2, <4>1
    <3> QED
      BY <3>1, <3>2
  <2> QED
    BY <2>1, <2>3, <2>4 DEF DispatchedInv, StartedMeansDispatched, Begun
<1>3. ASSUME NEW o \in Operators, Reconcile(o)
      PROVE  DispatchedInv'
  <2>1. outbox' = outbox /\ wpc' = wpc /\ wrun' = wrun
    BY <1>3, OperatorTouches DEF worker
  <2>2. ASSUME NEW p \in Operators, opc'[p] # "idle"
        PROVE  outbox[orun'[p]] = "dispatched"
    BY <1>0, <1>3, <2>2, OperatorAlone DEF DispatchedInv, Begun
  <2>3. ASSUME NEW r \in Runs, status'[r] \in Begun
        PROVE  outbox[r] = "dispatched"
    <3>1. CASE r # orun[o]
      BY <1>0, <1>3, <2>3, <3>1, OperatorTouches
    <3>2. CASE opc[o] # "idle" /\ r = orun[o]
      BY <3>2 DEF DispatchedInv
    <3>3. CASE opc[o] = "idle"
      <4>1. UNCHANGED status
        BY <1>3, <3>3 DEF Reconcile, OperatorChecks, OperatorRefunds, OperatorFails,
           OperatorSettles,
           OperatorPartial, OperatorAborts, runRow
      <4> QED
        BY <1>0, <2>3, <4>1
    <3> QED
      BY <3>1, <3>2, <3>3
  <2> QED
    BY <2>1, <2>2, <2>3 DEF DispatchedInv, StartedMeansDispatched, Begun
<1>4. ASSUME UNCHANGED lvars
      PROVE  DispatchedInv'
  BY <1>4 DEF lvars, runRow, worker, control, operator, DispatchedInv, StartedMeansDispatched
<1> QED
  BY <1>1, <1>2, <1>3, <1>4, StepCases

\* No run is executed, reported or reconciled before its outbox event is
\* marked dispatched, whichever dispatcher marks it and however the others
\* are interleaved: the mark and the status are written together
\* (outbox.py:49-62), and everything later reads that status.
THEOREM StartedAfterDispatch == LifecycleSpec => []StartedMeansDispatched
<1>1. LifecycleInit => Typed /\ KnownInv /\ DispatchedInv
  <2>1. LifecycleInit => DispatchedInv
    BY DEF LifecycleInit, DispatchedInv, StartedMeansDispatched
  <2> QED
    BY <2>1, InitTyped, InitKnown
<1>2. Typed /\ KnownInv /\ DispatchedInv /\ [LifecycleNext]_lvars
        => (Typed /\ KnownInv /\ DispatchedInv)'
  BY TypedStep, KnownStep, DispatchedStep
<1>3. DispatchedInv => StartedMeansDispatched
  BY DEF DispatchedInv
<1> QED
  BY <1>1, <1>2, <1>3, PTL DEF LifecycleSpec

-----------------------------------------------------------------------------
(* What the skills before one cost, row being a run's charges.             *)

CostOf(row, i) == Total([j \in 1 .. i - 1 |-> row[j]])

LEMMA CostType ==
    ASSUME NEW row \in [Steps -> Credits], NEW i \in 1 .. Length + 1
    PROVE  CostOf(row, i) \in Nat
<1>1. IsFiniteSet(1 .. i - 1)
  BY FS_Interval
<1>2. [j \in 1 .. i - 1 |-> row[j]] \in [1 .. i - 1 -> 0 .. MaxCredits]
  BY LengthAssumption DEF Steps, Credits
<1> QED
  BY <1>1, <1>2, CreditsAssumption, TotalType DEF CostOf

LEMMA CostFirst == ASSUME NEW row PROVE CostOf(row, 1) = 0
<1> DEFINE part == [j \in 1 .. 1 - 1 |-> row[j]]
<1>1. DOMAIN part = {}
  OBVIOUS
<1> HIDE DEF part
<1>2. Total(part) = 0
  BY <1>1, TotalEmpty
<1> QED
  BY <1>2 DEF CostOf, part

LEMMA CostNext ==
    ASSUME NEW row \in [Steps -> Credits], NEW i \in Steps
    PROVE  CostOf(row, i + 1) = CostOf(row, i) + row[i]
<1> DEFINE n == i - 1
           f == [j \in 1 .. n + 1 |-> row[j]]
           g == [j \in 1 .. n |-> f[j]]
<1>1. n \in Nat /\ n + 1 = i /\ i + 1 - 1 = i /\ \A j \in 1 .. i : j \in Steps
  BY LengthAssumption DEF Steps
<1>2. f \in [1 .. n + 1 -> 0 .. MaxCredits]
  BY <1>1 DEF Credits
<1>3. g = [j \in 1 .. i - 1 |-> row[j]]
  BY <1>1
<1>4. f[n + 1] = row[i]
  BY <1>1
<1>5. PICK k : k = i + 1
  OBVIOUS
<1>6. f = [j \in 1 .. k - 1 |-> row[j]]
  BY <1>1, <1>5
<1> HIDE DEF n, f
<1>7. Total(f) = Total(g) + f[n + 1]
  BY <1>1, <1>2, CreditsAssumption, TotalLast
<1>8. CostOf(row, k) = Total(f)
  BY <1>6, Zenon DEF CostOf
<1>9. CostOf(row, i) = Total(g)
  BY <1>3, Zenon DEF CostOf
<1> HIDE DEF g
<1> QED
  BY <1>4, <1>5, <1>7, <1>8, <1>9, Zenon

\* It depends on those skills only.
LEMMA CostSame ==
    ASSUME NEW row, NEW new, NEW i, \A j \in 1 .. i - 1 : new[j] = row[j]
    PROVE  CostOf(new, i) = CostOf(row, i)
  BY DEF CostOf

LEMMA CostWhole ==
    ASSUME NEW row \in [Steps -> Credits]
    PROVE  CostOf(row, Length + 1) = Total(row)
<1>1. PICK k : k = Length + 1
  OBVIOUS
<1>2. row = [j \in 1 .. k - 1 |-> row[j]]
  BY <1>1, LengthAssumption DEF Steps
<1>3. CostOf(row, k) = Total(row)
  BY <1>2, Zenon DEF CostOf
<1> QED
  BY <1>1, <1>3, Zenon

-----------------------------------------------------------------------------
(* The skills of a run are executed in order, and each worker counts what  *)
(* the ones before its own cost.                                           *)

Prefix(r, i) == \A j \in 1 .. i - 1 : checkpoint[r][j] = "PASS"

RunSeq(r) ==
    \A i \in Steps :
        /\ checkpoint[r][i] # "none" => Prefix(r, i)
        /\ checkpoint[r][i] # "PASS" => stepCharge[r][i] = 0
        /\ checkpoint[r][i] = "RUNNING" =>
              CostOf(stepCharge[r], i) + Required[i] <= reservation[r].amount

Counted(r, i, n) ==
    /\ Prefix(r, i)
    /\ n = CostOf(stepCharge[r], i)
    /\ n <= reservation[r].amount

WorkerSeq(w) ==
    /\ wpc[w] = "idle" => wstep[w] = 1 /\ wtotal[w] = 0
    /\ wpc[w] # "idle" => Counted(wrun[w], wstep[w], wtotal[w])
    /\ wpc[w] \in {"prepare", "insert"} =>
          wtotal[w] + Required[wstep[w]] <= reservation[wrun[w]].amount
    /\ wpc[w] = "await" => checkpoint[wrun[w]][wstep[w]] = "RUNNING"

SequenceInv ==
    /\ \A r \in Runs : RunSeq(r)
    /\ \A w \in Workers : WorkerSeq(w)
    /\ \A v, w \in Workers :
          v # w /\ wpc[v] = "await" /\ wpc[w] = "await" /\ wrun[v] = wrun[w]
             => wstep[v] # wstep[w]

\* The two actions that write a checkpoint, without the rest of the step.
Claims(w, r, i) ==
    /\ wpc[w] = "insert" /\ r = wrun[w] /\ i = wstep[w]
    /\ checkpoint[r][i] = "none"
    /\ checkpoint' = [checkpoint EXCEPT ![r][i] = "RUNNING"]
    /\ stepCharge' = stepCharge
    /\ WorkerAt(w, "await")

Returns(w, r, i, c) ==
    /\ wpc[w] = "await" /\ r = wrun[w] /\ i = wstep[w]
    /\ checkpoint' = [checkpoint EXCEPT ![r][i] = "PASS"]
    /\ stepCharge' = [stepCharge EXCEPT ![r][i] = c]
    /\ Account(w, c)

LEMMA WorkerMarks ==
    ASSUME Typed, NEW w \in Workers, WorkerStep(w)
    PROVE  \/ UNCHANGED <<checkpoint, stepCharge>>
           \/ \E r \in Runs, i \in Steps : Claims(w, r, i)
           \/ \E r \in Runs, i \in Steps, c \in Charges : Returns(w, r, i, c)
<1>h. wpc[w] \in InLoop => wrun[w] \in Runs /\ wstep[w] \in Steps
  BY DEF Typed, HandsInv, WorkerInv, InLoop
<1>1. CASE (\E r \in Runs : TakeJob(w, r)) \/ JobRaises(w) \/ JobTimesOut(w) \/ WorkerCrash(w)
  BY <1>1 DEF TakeJob, JobRaises, JobTimesOut, WorkerCrash, steps
<1>2. CASE BeginSkips(w) \/ BeginRuns(w) \/ BeginWedges(w) \/ Check(w) \/ Prepare(w)
  BY <1>2 DEF BeginSkips, BeginRuns, BeginWedges, Check, Prepare, steps
<1>3. CASE \/ ProviderRaises(w) \/ Settle(w) \/ SettleRaises(w) \/ DatabaseRaises(w)
           \/ Record(w) \/ Finish(w)
  BY <1>3 DEF ProviderRaises, Settle, SettleRaises, DatabaseRaises, Record, Finish, steps
<1>4. CASE RefundFailed(w) \/ Fail(w) \/ Block(w) \/ Return(w)
  BY <1>4 DEF RefundFailed, Fail, Block, Return, steps
<1>5. CASE Insert(w)
  <2>1. wrun[w] \in Runs /\ wstep[w] \in Steps
    BY <1>h, <1>5 DEF Insert, InLoop
  <2>2. UNCHANGED <<checkpoint, stepCharge>> \/ Claims(w, wrun[w], wstep[w])
    BY <1>5 DEF Insert, Unclaimed, Claims, steps
  <2> QED
    BY <2>1, <2>2
<1>6. ASSUME NEW c \in Charges, ProviderReturns(w, c)
      PROVE  \E r \in Runs, i \in Steps : Returns(w, r, i, c)
  <2>1. wrun[w] \in Runs /\ wstep[w] \in Steps
    BY <1>h, <1>6 DEF ProviderReturns, InLoop
  <2>2. Returns(w, wrun[w], wstep[w], c)
    BY <1>6 DEF ProviderReturns, Returns
  <2> QED
    BY <2>1, <2>2
<1> QED
  BY <1>1, <1>2, <1>3, <1>4, <1>5, <1>6 DEF WorkerStep, ExecuteRun

\* A completed skill stays completed, at the price it had.
LEMMA StepsGrow ==
    ASSUME Typed, SequenceInv, [LifecycleNext]_lvars, NEW r \in Runs, NEW i \in Steps,
           checkpoint[r][i] = "PASS"
    PROVE  checkpoint'[r][i] = "PASS" /\ stepCharge'[r][i] = stepCharge[r][i]
<1>0. /\ checkpoint \in [Runs -> [Steps -> {"none", "RUNNING", "PASS"}]]
      /\ stepCharge \in [Runs -> [Steps -> Credits]]
  BY DEF Typed, LifecycleTypeOK
<1>1. CASE UNCHANGED <<checkpoint, stepCharge>>
  BY <1>1
<1>2. ASSUME NEW w \in Workers, WorkerStep(w)
      PROVE  checkpoint'[r][i] = "PASS" /\ stepCharge'[r][i] = stepCharge[r][i]
  <2>1. ASSUME NEW q \in Runs, NEW j \in Steps, Claims(w, q, j)
        PROVE  checkpoint'[r][i] = "PASS" /\ stepCharge'[r][i] = stepCharge[r][i]
    BY <1>0, <2>1 DEF Claims
  <2>2. ASSUME NEW q \in Runs, NEW j \in Steps, NEW c \in Charges, Returns(w, q, j, c)
        PROVE  checkpoint'[r][i] = "PASS" /\ stepCharge'[r][i] = stepCharge[r][i]
    <3>1. checkpoint[q][j] = "RUNNING"
      BY <2>2 DEF Returns, SequenceInv, WorkerSeq
    <3> QED
      BY <1>0, <2>2, <3>1 DEF Returns
  <2> QED
    BY <1>1, <1>2, <2>1, <2>2, WorkerMarks
<1> QED
  BY <1>1, <1>2, StepCases, OtherFrame, OperatorFrame DEF steps, lvars

\* So what was counted stays true.
LEMMA CountedKept ==
    ASSUME Typed, SequenceInv, [LifecycleNext]_lvars, NEW r \in Runs, Known(r),
           NEW i \in 1 .. Length + 1, NEW n, Counted(r, i, n)
    PROVE  Counted(r, i, n)'
<1>1. \A j \in 1 .. i - 1 : j \in Steps
  BY LengthAssumption DEF Steps
<1>2. \A j \in 1 .. i - 1 : checkpoint'[r][j] = "PASS" /\ stepCharge'[r][j] = stepCharge[r][j]
  BY <1>1, StepsGrow DEF Counted, Prefix
<1>3. CostOf(stepCharge'[r], i) = CostOf(stepCharge[r], i)
  BY <1>2, CostSame
<1>4. reservation'[r].amount = reservation[r].amount
  BY KnownKept
<1> QED
  BY <1>2, <1>3, <1>4 DEF Counted, Prefix

SequencedInv == Typed /\ KnownInv /\ SequenceInv

\* A worker at another place of the same skill.
LEMMA WorkerStays ==
    ASSUME SequencedInv, [LifecycleNext]_lvars, NEW w \in Workers, wpc[w] # "idle",
           wpc'[w] # "idle", wrun'[w] = wrun[w], wstep'[w] = wstep[w], wtotal'[w] = wtotal[w],
           wpc'[w] \in {"prepare", "insert"} =>
              wtotal[w] + Required[wstep[w]] <= reservation[wrun[w]].amount,
           wpc'[w] = "await" => checkpoint'[wrun[w]][wstep[w]] = "RUNNING"
    PROVE  WorkerSeq(w)'
<1>1. PICK r \in Runs : r = wrun[w]
  BY DEF SequencedInv, Typed, HandsInv, WorkerInv
<1>2. PICK i \in 1 .. Length + 1 : i = wstep[w]
  BY DEF SequencedInv, Typed, LifecycleTypeOK
<1>3. PICK n : n = wtotal[w]
  OBVIOUS
<1>4. Known(r) /\ Counted(r, i, n)
  BY <1>1, <1>2, <1>3 DEF SequencedInv, KnownInv, SequenceInv, WorkerSeq
<1>5. Counted(r, i, n)' /\ reservation'[r].amount = reservation[r].amount
  BY <1>4, CountedKept, KnownKept DEF SequencedInv
<1>6. Counted(wrun[w], wstep[w], wtotal[w])'
  BY <1>1, <1>2, <1>3, <1>5 DEF Counted, Prefix
<1> QED
  BY <1>1, <1>5, <1>6 DEF WorkerSeq

\* A worker at the beginning of the next skill.
LEMMA WorkerCounts ==
    ASSUME SequencedInv, Typed', [LifecycleNext]_lvars, NEW w \in Workers, wpc[w] \in InLoop,
           NEW cost \in Credits, Account(w, cost),
           checkpoint'[wrun[w]][wstep[w]] = "PASS", stepCharge'[wrun[w]][wstep[w]] = cost
    PROVE  WorkerSeq(w)'
<1>0. WorkerTyped
  BY TypeParts DEF SequencedInv, Typed
<1>1. PICK r \in Runs : r = wrun[w]
  BY DEF SequencedInv, Typed, HandsInv, WorkerInv, InLoop
<1>2. PICK i \in Steps : i = wstep[w]
  BY DEF SequencedInv, Typed, HandsInv, WorkerInv
<1>3. PICK n \in Nat : n = wtotal[w]
  BY DEF SequencedInv, Typed, HandsInv, WorkerInv
<1>4. wpc[w] # "idle"
  BY DEF InLoop
<1>5. CASE cost > Remaining(w)
  <2>1. WorkerAt(w, "refund")
    BY <1>5 DEF Account
  <2>2. wpc'[w] = "refund" /\ wrun'[w] = wrun[w] /\ wstep'[w] = wstep[w] /\ wtotal'[w] = wtotal[w]
    BY <1>0, <2>1 DEF WorkerAt, WorkerTyped
  <2> QED
    BY <1>4, <2>2, WorkerStays
<1>6. CASE ~(cost > Remaining(w))
  <2>1. wpc'[w] = "check" /\ wrun'[w] = r /\ wstep'[w] = i + 1 /\ wtotal'[w] = n + cost
    BY <1>0, <1>1, <1>2, <1>3, <1>6 DEF Account, WorkerTyped
  <2>2. i \in 1 .. Length + 1 /\ i + 1 \in 1 .. Length + 1
    BY LengthAssumption DEF Steps
  <2>3. Known(r) /\ Counted(r, i, n)
    BY <1>1, <1>2, <1>3, <1>4 DEF SequencedInv, KnownInv, SequenceInv, WorkerSeq
  <2>4. Counted(r, i, n)' /\ reservation'[r].amount = reservation[r].amount
    BY <2>2, <2>3, CountedKept, KnownKept DEF SequencedInv
  <2>5. n = CostOf(stepCharge'[r], i) /\ \A j \in 1 .. i - 1 : checkpoint'[r][j] = "PASS"
    BY <2>4 DEF Counted, Prefix
  <2>6. stepCharge'[r] \in [Steps -> Credits]
    BY DEF Typed, LifecycleTypeOK
  <2>7. CostOf(stepCharge'[r], i + 1) = n + cost
    BY <1>1, <1>2, <2>5, <2>6, CostNext
  <2>8. \A j \in 1 .. (i + 1) - 1 : checkpoint'[r][j] = "PASS"
    BY <1>1, <1>2, <2>5 DEF Steps
  <2>9. n + cost <= reservation'[r].amount
    <3>1. ~(cost > reservation[r].amount - n) /\ cost \in Nat /\ reservation[r].amount \in Nat
      BY <1>1, <1>3, <1>6 DEF Remaining, SequencedInv, Typed, LifecycleTypeOK, TypeOK, Credits
    <3> QED
      BY <2>4, <3>1
  <2>10. PICK k : k = i + 1
    OBVIOUS
  <2>11. Counted(r, k, n + cost)'
    BY <2>7, <2>8, <2>9, <2>10 DEF Counted, Prefix
  <2>12. Counted(wrun[w], wstep[w], wtotal[w])'
    BY <2>1, <2>10, <2>11 DEF Counted, Prefix
  <2> QED
    BY <2>1, <2>12 DEF WorkerSeq
<1> QED
  BY <1>5, <1>6

LEMMA WorkerSeqStep ==
    ASSUME SequencedInv, Typed', NEW w \in Workers, WorkerStep(w), [LifecycleNext]_lvars
    PROVE  WorkerSeq(w)'
<1>0. WorkerTyped /\ StepsTyped
  BY TypeParts DEF SequencedInv, Typed
<1>h. wpc[w] # "idle" => wrun[w] \in Runs /\ (wpc[w] \in InLoop => wstep[w] \in Steps)
  BY DEF SequencedInv, Typed, HandsInv, WorkerInv, InLoop
<1>1. ASSUME WorkerIdle(w)
      PROVE  WorkerSeq(w)'
  <2>1. wpc'[w] = "idle" /\ wstep'[w] = 1 /\ wtotal'[w] = 0
    BY <1>0, <1>1 DEF WorkerIdle, WorkerTyped
  <2> QED
    BY <2>1 DEF WorkerSeq
<1>2. ASSUME NEW r \in Runs, TakeJob(w, r)
      PROVE  WorkerSeq(w)'
  <2>1. /\ wpc'[w] = "begin" /\ wrun'[w] = r /\ wstep'[w] = wstep[w] /\ wtotal'[w] = wtotal[w]
        /\ wpc[w] = "idle"
    BY <1>0, <1>2 DEF TakeJob, Active, WorkerTyped
  <2>2. wstep[w] = 1 /\ wtotal[w] = 0
    BY <2>1 DEF SequencedInv, SequenceInv, WorkerSeq
  <2>3. reservation'[r].amount \in Nat
    BY DEF Typed, LifecycleTypeOK, TypeOK, Credits
  <2>4. CostOf(stepCharge'[r], 1) = 0
    BY CostFirst
  <2>5. \A j \in 1 .. 1 - 1 : checkpoint'[r][j] = "PASS"
    OBVIOUS
  <2>6. Counted(wrun[w], wstep[w], wtotal[w])'
    BY <2>1, <2>2, <2>3, <2>4, <2>5 DEF Counted, Prefix
  <2> QED
    BY <2>1, <2>6 DEF WorkerSeq
<1>3. ASSUME NEW to \in WorkerPlaces \ {"idle", "prepare", "insert", "await"}, WorkerAt(w, to),
             wpc[w] # "idle"
      PROVE  WorkerSeq(w)'
  <2>1. wpc'[w] = to /\ wrun'[w] = wrun[w] /\ wstep'[w] = wstep[w] /\ wtotal'[w] = wtotal[w]
    BY <1>0, <1>3 DEF WorkerAt, WorkerTyped
  <2> QED
    BY <1>3, <2>1, WorkerStays
<1>4. CASE BeginSkips(w) \/ JobRaises(w) \/ JobTimesOut(w) \/ WorkerCrash(w) \/ Return(w)
  BY <1>1, <1>4 DEF BeginSkips, JobRaises, JobTimesOut, WorkerCrash, Return, JobEnds
<1>5. CASE BeginRuns(w) \/ BeginWedges(w)
  BY <1>3, <1>5 DEF BeginRuns, BeginWedges, WorkerPlaces
<1>6. CASE Check(w)
  <2>1. wpc[w] = "check"
    BY <1>6 DEF Check
  <2>2. CASE NextMove(w) = "execute"
    <3>1. /\ wpc'[w] = "prepare" /\ wrun'[w] = wrun[w]
          /\ wstep'[w] = wstep[w] /\ wtotal'[w] = wtotal[w]
      BY <1>0, <1>6, <2>2 DEF Check, WorkerAt, WorkerTyped
    <3>2. wstep[w] \in Steps /\ ~(Required[wstep[w]] > Remaining(w))
      BY <2>2 DEF NextMove
    <3>3. wtotal[w] + Required[wstep[w]] <= reservation[wrun[w]].amount
      <4>1. wrun[w] \in Runs
        BY <1>h, <2>1
      <4>2. reservation[wrun[w]].amount \in Nat /\ wtotal[w] \in Nat /\ Required[wstep[w]] \in Nat
        BY <1>0, <3>2, <4>1, RequiredAssumption
        DEF SequencedInv, Typed, LifecycleTypeOK, TypeOK, WorkerTyped, Credits
      <4> QED
        BY <3>2, <4>2 DEF Remaining
    <3> QED
      BY <2>1, <3>1, <3>3, WorkerStays
  <2>3. CASE NextMove(w) # "execute"
    <3>1. /\ wpc'[w] = "settle" /\ wrun'[w] = wrun[w]
          /\ wstep'[w] = wstep[w] /\ wtotal'[w] = wtotal[w]
      BY <1>0, <1>6, <2>3 DEF Check, WorkerTyped
    <3> QED
      BY <2>1, <3>1, WorkerStays
  <2> QED
    BY <2>2, <2>3
<1>7. CASE Prepare(w)
  <2>1. wpc[w] = "prepare" /\ UNCHANGED <<checkpoint, stepCharge>>
    BY <1>7 DEF Prepare, steps
  <2>2. wrun[w] \in Runs /\ wstep[w] \in Steps
    BY <1>h, <2>1 DEF InLoop
  <2>3. CASE checkpoint[wrun[w]][wstep[w]] = "PASS" /\ Account(w, stepCharge[wrun[w]][wstep[w]])
    <3>1. stepCharge[wrun[w]][wstep[w]] \in Credits
      BY <1>0, <2>2 DEF StepsTyped
    <3> QED
      BY <2>1, <2>3, <3>1, WorkerCounts DEF InLoop
  <2>4. CASE WorkerAt(w, "block")
    BY <1>3, <2>1, <2>4 DEF WorkerPlaces
  <2>5. CASE WorkerAt(w, "insert")
    <3>1. /\ wpc'[w] = "insert" /\ wrun'[w] = wrun[w]
          /\ wstep'[w] = wstep[w] /\ wtotal'[w] = wtotal[w]
      BY <1>0, <2>5 DEF WorkerAt, WorkerTyped
    <3>2. wtotal[w] + Required[wstep[w]] <= reservation[wrun[w]].amount
      BY <2>1 DEF SequencedInv, SequenceInv, WorkerSeq
    <3> QED
      BY <2>1, <3>1, <3>2, WorkerStays
  <2> QED
    BY <1>7, <2>3, <2>4, <2>5 DEF Prepare
<1>8. CASE Insert(w)
  <2>1. wpc[w] = "insert" /\ wrun[w] \in Runs /\ wstep[w] \in Steps
    BY <1>h, <1>8 DEF Insert, InLoop
  <2>2. CASE WorkerAt(w, "refund")
    BY <1>3, <2>1, <2>2 DEF WorkerPlaces
  <2>3. CASE /\ WorkerAt(w, "await")
             /\ checkpoint' = [checkpoint EXCEPT ![wrun[w]][wstep[w]] = "RUNNING"]
    <3>1. /\ wpc'[w] = "await" /\ wrun'[w] = wrun[w]
          /\ wstep'[w] = wstep[w] /\ wtotal'[w] = wtotal[w]
      BY <1>0, <2>3 DEF WorkerAt, WorkerTyped
    <3>2. checkpoint'[wrun[w]][wstep[w]] = "RUNNING"
      BY <1>0, <2>1, <2>3 DEF StepsTyped
    <3> QED
      BY <2>1, <3>1, <3>2, WorkerStays
  <2> QED
    BY <1>8, <2>2, <2>3 DEF Insert
<1>9. ASSUME NEW c \in Charges, ProviderReturns(w, c)
      PROVE  WorkerSeq(w)'
  <2>1. /\ wpc[w] \in InLoop /\ Account(w, c)
        /\ checkpoint' = [checkpoint EXCEPT ![wrun[w]][wstep[w]] = "PASS"]
        /\ stepCharge' = [stepCharge EXCEPT ![wrun[w]][wstep[w]] = c]
    BY <1>9 DEF ProviderReturns, InLoop
  <2>2. c \in Credits /\ wrun[w] \in Runs /\ wstep[w] \in Steps
    BY <1>h, <2>1, ChargesAssumption DEF InLoop
  <2>3. checkpoint'[wrun[w]][wstep[w]] = "PASS" /\ stepCharge'[wrun[w]][wstep[w]] = c
    BY <1>0, <2>1, <2>2 DEF StepsTyped
  <2> QED
    BY <2>1, <2>2, <2>3, WorkerCounts
<1>10. CASE \/ ProviderRaises(w) \/ Settle(w) \/ SettleRaises(w) \/ Finish(w)
            \/ RefundFailed(w) \/ Fail(w) \/ Block(w)
  BY <1>3, <1>10
  DEF ProviderRaises, Settle, SettleRaises, Finish, RefundFailed, Fail, Block, WorkerPlaces
<1>11. CASE DatabaseRaises(w) \/ Record(w)
  BY <1>3, <1>11, OnlyMoves DEF InsideTry, WorkerPlaces
<1> QED
  BY <1>2, <1>4, <1>5, <1>6, <1>7, <1>8, <1>9, <1>10, <1>11 DEF WorkerStep, ExecuteRun

\* The other workers stay where they are.
LEMMA OthersSeqStep ==
    ASSUME SequencedInv, NEW w \in Workers, WorkerStep(w), [LifecycleNext]_lvars,
           NEW v \in Workers, v # w
    PROVE  WorkerSeq(v)'
<1>0. StepsTyped
  BY TypeParts DEF SequencedInv, Typed
<1>1. /\ wpc'[v] = wpc[v] /\ wrun'[v] = wrun[v] /\ wstep'[v] = wstep[v]
      /\ wtotal'[v] = wtotal[v]
  BY WorkerAlone DEF SequencedInv
<1>2. WorkerSeq(v)
  BY DEF SequencedInv, SequenceInv
<1>3. CASE wpc[v] = "idle"
  BY <1>1, <1>2, <1>3 DEF WorkerSeq
<1>4. CASE wpc[v] # "idle"
  <2>1. ASSUME wpc[v] = "await"
        PROVE  checkpoint'[wrun[v]][wstep[v]] = "RUNNING"
    <3>1. wrun[v] \in Runs /\ wstep[v] \in Steps /\ checkpoint[wrun[v]][wstep[v]] = "RUNNING"
      BY <1>2, <2>1 DEF WorkerSeq, SequencedInv, Typed, HandsInv, WorkerInv, InLoop
    <3>2. ASSUME NEW r \in Runs, NEW i \in Steps, Claims(w, r, i)
          PROVE  checkpoint'[wrun[v]][wstep[v]] = "RUNNING"
      BY <1>0, <3>1, <3>2 DEF Claims, StepsTyped
    <3>3. ASSUME NEW r \in Runs, NEW i \in Steps, NEW c \in Charges, Returns(w, r, i, c)
          PROVE  checkpoint'[wrun[v]][wstep[v]] = "RUNNING"
      <4>1. ~(wrun[v] = r /\ wstep[v] = i)
        BY <2>1, <3>3 DEF Returns, SequencedInv, SequenceInv
      <4> QED
        BY <1>0, <3>1, <3>3, <4>1 DEF Returns, StepsTyped
    <3> QED
      BY <3>1, <3>2, <3>3, WorkerMarks DEF SequencedInv
  <2>2. wpc[v] \in {"prepare", "insert"} =>
           wtotal[v] + Required[wstep[v]] <= reservation[wrun[v]].amount
    BY <1>2 DEF WorkerSeq
  <2> QED
    BY <1>1, <1>4, <2>1, <2>2, WorkerStays
<1> QED
  BY <1>3, <1>4

\* While nobody but the API, a dispatcher, the reaper or an operator moves,
\* every worker's account stays right.
LEMMA QuietSeqStep ==
    ASSUME SequencedInv, [LifecycleNext]_lvars, UNCHANGED <<worker, steps>>, NEW v \in Workers
    PROVE  WorkerSeq(v)'
<1>1. UNCHANGED <<wpc, wrun, wstep, wtotal, checkpoint>>
  BY DEF worker, steps
<1>2. WorkerSeq(v)
  BY DEF SequencedInv, SequenceInv
<1>3. CASE wpc[v] = "idle"
  BY <1>1, <1>2, <1>3 DEF WorkerSeq
<1>4. CASE wpc[v] # "idle"
  BY <1>1, <1>2, <1>4, WorkerStays DEF WorkerSeq
<1> QED
  BY <1>3, <1>4

\* A run whose checkpoints are left alone: what it reserved stays.
LEMMA QuietRunStep ==
    ASSUME SequencedInv, [LifecycleNext]_lvars, NEW r \in Runs,
           checkpoint'[r] = checkpoint[r], stepCharge'[r] = stepCharge[r]
    PROVE  RunSeq(r)'
<1>1. RunSeq(r)
  BY DEF SequencedInv, SequenceInv
<1>2. ASSUME NEW i \in Steps, checkpoint[r][i] # "none"
      PROVE  reservation'[r].amount = reservation[r].amount
  <2>1. Known(r)
    BY <1>2 DEF SequencedInv, KnownInv, Traced, Touched
  <2> QED
    BY <2>1, KnownKept DEF SequencedInv
<1> QED
  BY <1>1, <1>2 DEF RunSeq, Prefix

LEMMA ClaimRunStep ==
    ASSUME SequencedInv, [LifecycleNext]_lvars, NEW w \in Workers, NEW r \in Runs, NEW i \in Steps,
           Claims(w, r, i)
    PROVE  RunSeq(r)'
<1>0. StepsTyped
  BY TypeParts DEF SequencedInv, Typed
<1>1. RunSeq(r)
  BY DEF SequencedInv, SequenceInv
<1>2. Counted(r, i, wtotal[w]) /\ wtotal[w] + Required[i] <= reservation[r].amount
  BY DEF SequencedInv, SequenceInv, WorkerSeq, Claims
<1>3. Known(r)
  BY DEF SequencedInv, KnownInv, Claims
<1>4. reservation'[r].amount = reservation[r].amount
  BY <1>3, KnownKept DEF SequencedInv
<1>5. /\ stepCharge' = stepCharge
      /\ checkpoint'[r][i] = "RUNNING" /\ checkpoint[r][i] = "none"
      /\ \A j \in Steps : j # i => checkpoint'[r][j] = checkpoint[r][j]
  BY <1>0 DEF Claims, StepsTyped
<1>6. ASSUME NEW k \in Steps, Prefix(r, k)
      PROVE  Prefix(r, k)'
  <2>1. \A j \in 1 .. k - 1 : j \in Steps
    BY LengthAssumption DEF Steps
  <2> QED
    BY <1>5, <1>6, <2>1 DEF Prefix
<1>7. ASSUME NEW k \in Steps
      PROVE  /\ checkpoint'[r][k] # "none" => Prefix(r, k)'
             /\ checkpoint'[r][k] # "PASS" => stepCharge'[r][k] = 0
             /\ checkpoint'[r][k] = "RUNNING" =>
                   CostOf(stepCharge'[r], k) + Required[k] <= reservation'[r].amount
  <2>1. CASE k = i
    BY <1>1, <1>2, <1>4, <1>5, <1>6, <2>1 DEF RunSeq, Counted
  <2>2. CASE k # i
    BY <1>1, <1>4, <1>5, <1>6, <2>2 DEF RunSeq
  <2> QED
    BY <2>1, <2>2
<1> QED
  BY <1>7 DEF RunSeq, Prefix

LEMMA ReturnRunStep ==
    ASSUME SequencedInv, [LifecycleNext]_lvars, NEW w \in Workers, NEW r \in Runs, NEW i \in Steps,
           NEW c \in Charges, Returns(w, r, i, c)
    PROVE  RunSeq(r)'
<1>0. StepsTyped
  BY TypeParts DEF SequencedInv, Typed
<1>1. RunSeq(r)
  BY DEF SequencedInv, SequenceInv
<1>2. checkpoint[r][i] = "RUNNING"
  BY DEF SequencedInv, SequenceInv, WorkerSeq, Returns
<1>3. Known(r)
  BY <1>2 DEF SequencedInv, KnownInv, Traced, Touched
<1>4. reservation'[r].amount = reservation[r].amount
  BY <1>3, KnownKept DEF SequencedInv
<1>5. /\ checkpoint'[r][i] = "PASS"
      /\ \A j \in Steps : j # i => /\ checkpoint'[r][j] = checkpoint[r][j]
                                   /\ stepCharge'[r][j] = stepCharge[r][j]
  BY <1>0 DEF Returns, StepsTyped
<1>6. ASSUME NEW k \in Steps, Prefix(r, k)
      PROVE  Prefix(r, k)' /\ CostOf(stepCharge'[r], k) = CostOf(stepCharge[r], k)
  <2>1. \A j \in 1 .. k - 1 : j \in Steps
    BY LengthAssumption DEF Steps
  <2>2. \A j \in 1 .. k - 1 : j # i
    BY <1>2, <1>6 DEF Prefix
  <2>3. \A j \in 1 .. k - 1 : checkpoint'[r][j] = "PASS" /\ stepCharge'[r][j] = stepCharge[r][j]
    BY <1>5, <1>6, <2>1, <2>2 DEF Prefix
  <2> QED
    BY <2>3, CostSame DEF Prefix
<1>7. ASSUME NEW k \in Steps
      PROVE  /\ checkpoint'[r][k] # "none" => Prefix(r, k)'
             /\ checkpoint'[r][k] # "PASS" => stepCharge'[r][k] = 0
             /\ checkpoint'[r][k] = "RUNNING" =>
                   CostOf(stepCharge'[r], k) + Required[k] <= reservation'[r].amount
  <2>1. CASE k = i
    BY <1>1, <1>2, <1>5, <1>6, <2>1 DEF RunSeq
  <2>2. CASE k # i
    BY <1>1, <1>4, <1>5, <1>6, <2>2 DEF RunSeq
  <2> QED
    BY <2>1, <2>2
<1> QED
  BY <1>7 DEF RunSeq, Prefix

\* Two workers never wait for the same skill: the second finds its checkpoint.
LEMMA AwaitStep ==
    ASSUME SequencedInv, NEW u \in Workers, WorkerStep(u), NEW v \in Workers, NEW w \in Workers,
           v # w, wpc'[v] = "await", wpc'[w] = "await", wrun'[v] = wrun'[w]
    PROVE  wstep'[v] # wstep'[w]
<1>0. WorkerTyped
  BY TypeParts DEF SequencedInv, Typed
<1>1. \A x \in Workers \ {u} :
         wpc'[x] = wpc[x] /\ wrun'[x] = wrun[x] /\ wstep'[x] = wstep[x]
  BY WorkerAlone DEF SequencedInv
<1>2. \A x \in Workers : wpc[x] = "await" => checkpoint[wrun[x]][wstep[x]] = "RUNNING"
  BY DEF SequencedInv, SequenceInv, WorkerSeq
<1>3. wpc'[u] = "await" =>
         /\ checkpoint[wrun[u]][wstep[u]] = "none"
         /\ wrun'[u] = wrun[u] /\ wstep'[u] = wstep[u]
  <2>1. CASE (\E r \in Runs : TakeJob(u, r)) \/ Check(u)
    BY <1>0, <2>1 DEF TakeJob, Check, WorkerAt, WorkerTyped
  <2>2. CASE BeginSkips(u) \/ JobRaises(u) \/ JobTimesOut(u) \/ WorkerCrash(u) \/ Return(u)
    <3>1. wpc' = [wpc EXCEPT ![u] = "idle"]
      BY <2>2 DEF BeginSkips, JobRaises, JobTimesOut, WorkerCrash, Return, JobEnds, WorkerIdle
    <3> QED
      BY <1>0, <3>1 DEF WorkerTyped
  <2>3. CASE \/ BeginRuns(u) \/ BeginWedges(u) \/ Prepare(u)
             \/ \E c \in Charges : ProviderReturns(u, c)
    BY <1>0, <2>3 DEF BeginRuns, BeginWedges, Prepare, ProviderReturns, Account, WorkerAt,
       WorkerTyped
  <2>4. CASE Insert(u)
    BY <1>0, <2>4 DEF Insert, Unclaimed, WorkerAt, WorkerTyped
  <2>5. CASE \/ ProviderRaises(u) \/ Settle(u) \/ SettleRaises(u) \/ DatabaseRaises(u)
             \/ Record(u) \/ Finish(u)
             \/ RefundFailed(u) \/ Fail(u) \/ Block(u)
    BY <1>0, <2>5 DEF ProviderRaises, Settle, SettleRaises, DatabaseRaises, Record, Finish,
       RefundFailed, Fail, Block,
                      WorkerAt, WorkerTyped
  <2> QED
    BY <2>1, <2>2, <2>3, <2>4, <2>5 DEF WorkerStep, ExecuteRun
<1>4. CASE v # u /\ w # u
  BY <1>1, <1>4 DEF SequencedInv, SequenceInv
<1>5. CASE v = u
  BY <1>1, <1>2, <1>3, <1>5
<1>6. CASE w = u
  BY <1>1, <1>2, <1>3, <1>6
<1> QED
  BY <1>4, <1>5, <1>6

LEMMA SequenceStep ==
    ASSUME SequencedInv, Typed', [LifecycleNext]_lvars
    PROVE  SequenceInv'
<1>0. StepsTyped
  BY TypeParts DEF SequencedInv, Typed
<1>1. ASSUME UNCHANGED <<worker, steps>>
      PROVE  SequenceInv'
  <2>1. \A r \in Runs : RunSeq(r)'
    BY <1>1, QuietRunStep DEF steps
  <2>2. \A v \in Workers : WorkerSeq(v)'
    BY <1>1, QuietSeqStep
  <2>3. UNCHANGED <<wpc, wrun, wstep>>
    BY <1>1 DEF worker
  <2> QED
    BY <2>1, <2>2, <2>3 DEF SequencedInv, SequenceInv
<1>2. ASSUME NEW w \in Workers, WorkerStep(w)
      PROVE  SequenceInv'
  <2>1. ASSUME NEW v \in Workers PROVE WorkerSeq(v)'
    BY <1>2, WorkerSeqStep, OthersSeqStep
  <2>2. ASSUME NEW r \in Runs PROVE RunSeq(r)'
    <3>1. CASE UNCHANGED <<checkpoint, stepCharge>>
      BY <3>1, QuietRunStep
    <3>2. ASSUME NEW q \in Runs, NEW i \in Steps, Claims(w, q, i)
          PROVE  RunSeq(r)'
      <4>1. CASE q = r
        BY <3>2, <4>1, ClaimRunStep
      <4>2. CASE q # r
        BY <1>0, <3>2, <4>2, QuietRunStep DEF Claims, StepsTyped
      <4> QED
        BY <4>1, <4>2
    <3>3. ASSUME NEW q \in Runs, NEW i \in Steps, NEW c \in Charges, Returns(w, q, i, c)
          PROVE  RunSeq(r)'
      <4>1. CASE q = r
        BY <3>3, <4>1, ReturnRunStep
      <4>2. CASE q # r
        BY <1>0, <3>3, <4>2, QuietRunStep DEF Returns, StepsTyped
      <4> QED
        BY <4>1, <4>2
    <3> QED
      BY <1>2, <3>1, <3>2, <3>3, WorkerMarks DEF SequencedInv
  <2>3. \A u, v \in Workers :
           u # v /\ wpc'[u] = "await" /\ wpc'[v] = "await" /\ wrun'[u] = wrun'[v]
              => wstep'[u] # wstep'[v]
    BY <1>2, AwaitStep
  <2>4. (\A r \in Runs : RunSeq(r)') /\ (\A v \in Workers : WorkerSeq(v)')
    BY <2>1, <2>2
  <2> QED
    BY <2>3, <2>4 DEF SequenceInv
<1>3. UNCHANGED lvars => UNCHANGED <<worker, steps>>
  BY DEF lvars
<1> QED
  BY <1>1, <1>2, <1>3, StepCases, OtherFrame, OperatorFrame

LEMMA SequencedStep ==
    ASSUME SequencedInv, [LifecycleNext]_lvars
    PROVE  SequencedInv'
<1>1. Typed' /\ KnownInv'
  BY TypedStep, KnownStep DEF SequencedInv
<1>2. SequenceInv'
  BY <1>1, SequenceStep
<1> QED
  BY <1>1, <1>2 DEF SequencedInv

LEMMA InitSequenced == LifecycleInit => SequencedInv
<1> SUFFICES ASSUME LifecycleInit PROVE SequencedInv
  OBVIOUS
<1>1. Typed /\ KnownInv
  BY InitTyped, InitKnown
<1>2. SequenceInv
  BY DEF LifecycleInit, SequenceInv, RunSeq, WorkerSeq
<1> QED
  BY <1>1, <1>2 DEF SequencedInv

\* When a skill is in flight, what those before it cost and its own
\* skill_reservation fit in the amount the run reserved, however many workers have the run
\* and whatever was resumed after a crash (jobs.py:149-151).  It says nothing of
\* whether the reservation is still open.
THEOREM CallsFit == LifecycleSpec => []CallsFitReservation
<1>1. SequencedInv /\ [LifecycleNext]_lvars => SequencedInv'
  BY SequencedStep
<1>2. SequencedInv => CallsFitReservation
  BY DEF SequencedInv, SequenceInv, RunSeq, CallsFitReservation, CostOf
<1> QED
  BY <1>1, <1>2, InitSequenced, PTL DEF LifecycleSpec

-----------------------------------------------------------------------------
(* Who is charged, and what for.                                           *)

Settled(r, n) == reservation[r].status = "settled" /\ reservation[r].settled_amount = n

RunPaid(r) ==
    /\ status[r] = "BLOCKED" => Touched(r)
    /\ reservation[r].settled_amount > 0 => Touched(r)
    /\ chargedCredits[r] # 0 => Settled(r, chargedCredits[r])
    /\ status[r] = "PASS" => /\ \A i \in Steps : checkpoint[r][i] = "PASS"
                             /\ Settled(r, Total(stepCharge[r]))
                             /\ Settled(r, chargedCredits[r])

WorkerPaid(w) ==
    /\ woutcome[w] = "PASS" => wstep[w] = Length + 1
    /\ wpc[w] = "finish" => Settled(wrun[w], wtotal[w])
    /\ wpc[w] = "block" => Touched(wrun[w])

OperatorPaid(o) ==
    /\ opc[o] = "act" => Touched(orun[o])
    /\ opc[o] = "partial" => Settled(orun[o], ocharge[o])

PaidInv ==
    /\ \A r \in Runs : RunPaid(r)
    /\ \A w \in Workers : WorkerPaid(w)
    /\ \A o \in Operators : OperatorPaid(o)

AccountedInv == SequencedInv /\ PaidInv

LEMMA SettledKept ==
    ASSUME Typed, [LifecycleNext]_lvars, NEW r \in Runs, NEW n, Settled(r, n)
    PROVE  Settled(r, n)'
<1>1. reservation'[r] = reservation[r]
  BY MoneyStep, ReservationStep DEF Typed, LifecycleTypeOK, Settled
<1> QED
  BY <1>1 DEF Settled

LEMMA TouchedKept ==
    ASSUME SequencedInv, [LifecycleNext]_lvars, NEW r \in Runs, Touched(r)
    PROVE  Touched(r)'
<1>0. StepsTyped
  BY TypeParts DEF SequencedInv, Typed
<1>1. CASE UNCHANGED checkpoint
  BY <1>1 DEF Touched
<1>2. ASSUME NEW w \in Workers, WorkerStep(w)
      PROVE  Touched(r)'
  <2>1. ASSUME NEW q \in Runs, NEW i \in Steps, Claims(w, q, i)
        PROVE  \A j \in Steps : checkpoint[r][j] # "none" => checkpoint'[r][j] # "none"
    BY <1>0, <2>1 DEF Claims, StepsTyped
  <2>2. ASSUME NEW q \in Runs, NEW i \in Steps, NEW c \in Charges, Returns(w, q, i, c)
        PROVE  \A j \in Steps : checkpoint[r][j] # "none" => checkpoint'[r][j] # "none"
    BY <1>0, <2>2 DEF Returns, StepsTyped
  <2>3. \A j \in Steps : checkpoint[r][j] # "none" => checkpoint'[r][j] # "none"
    BY <1>2, <2>1, <2>2, WorkerMarks DEF SequencedInv
  <2> QED
    BY <2>3 DEF Touched
<1> QED
  BY <1>1, <1>2, StepCases, OtherFrame, OperatorFrame DEF steps, lvars

\* A worker that has counted anything has completed a skill.
LEMMA CountedTouched ==
    ASSUME SequencedInv, NEW w \in Workers, wpc[w] # "idle", wtotal[w] > 0
    PROVE  Touched(wrun[w])
<1>1. Counted(wrun[w], wstep[w], wtotal[w])
  BY DEF SequencedInv, SequenceInv, WorkerSeq
<1>2. wstep[w] \in 1 .. Length + 1
  BY DEF SequencedInv, Typed, LifecycleTypeOK
<1>3. wstep[w] # 1
  BY <1>1, CostFirst DEF Counted
<1>4. 1 \in Steps /\ 1 \in 1 .. wstep[w] - 1
  BY <1>2, <1>3, LengthAssumption DEF Steps
<1>5. checkpoint[wrun[w]][1] = "PASS"
  BY <1>1, <1>4 DEF Counted, Prefix
<1> QED
  BY <1>4, <1>5 DEF Touched

\* What a step writes on a run's row and on its reservation.
Written(r) ==
    \/ /\ chargedCredits'[r] = chargedCredits[r]
       /\ \/ status'[r] = status[r]
          \/ status'[r] \notin {"PASS", "BLOCKED"}
          \/ status'[r] = "BLOCKED" /\ Touched(r)
    \/ \E w \in Workers : /\ wpc[w] = "finish" /\ wrun[w] = r
                          /\ chargedCredits'[r] = wtotal[w]
                          /\ status'[r] = woutcome[w]
    \/ \E o \in Operators : /\ opc[o] = "partial" /\ orun[o] = r
                            /\ chargedCredits'[r] = ocharge[o]
                            /\ status'[r] = "PARTIAL"

Billed(r) ==
    \/ reservation'[r].settled_amount \in {0, reservation[r].settled_amount}
    \/ Touched(r)

LEMMA WorkerWrites ==
    ASSUME AccountedInv, NEW w \in Workers, WorkerStep(w), NEW r \in Runs
    PROVE  Written(r) /\ Billed(r)
<1>0. /\ status \in [Runs -> Statuses] /\ chargedCredits \in [Runs -> Credits]
      /\ reservation \in [Runs -> [status : ReservationStatus, amount : Credits,
                                   settled_amount : Credits]]
      /\ wtotal \in [Workers -> Credits]
  BY DEF AccountedInv, SequencedInv, Typed, LifecycleTypeOK, TypeOK
<1>1. CASE r # wrun[w]
  <2>1. /\ status'[r] = status[r] /\ chargedCredits'[r] = chargedCredits[r]
        /\ reservation'[r] = reservation[r]
    BY <1>1, WorkerTouches DEF AccountedInv, SequencedInv
  <2> QED
    BY <2>1 DEF Written, Billed
<1>m. UNCHANGED money => Billed(r)
  BY DEF money, vars, Billed
<1>r. UNCHANGED runRow => Written(r)
  BY DEF runRow, Written
<1>2. CASE (\E q \in Runs : TakeJob(w, q)) \/ JobRaises(w) \/ JobTimesOut(w) \/ WorkerCrash(w)
  BY <1>m, <1>r, <1>2 DEF TakeJob, JobRaises, JobTimesOut, WorkerCrash
<1>3. CASE BeginSkips(w) \/ BeginWedges(w) \/ Check(w) \/ Prepare(w) \/ Insert(w)
  BY <1>m, <1>r, <1>3 DEF BeginSkips, BeginWedges, Check, Prepare, Insert
<1>4. CASE \/ (\E c \in Charges : ProviderReturns(w, c)) \/ ProviderRaises(w)
           \/ SettleRaises(w) \/ DatabaseRaises(w) \/ Record(w)
           \/ Return(w)
  BY <1>m, <1>r, <1>4 DEF ProviderReturns, ProviderRaises, SettleRaises, DatabaseRaises, Record,
     Return
<1>5. ASSUME wrun[w] = r, BeginRuns(w) \/ Fail(w)
      PROVE  Written(r) /\ Billed(r)
  <2>1. /\ UNCHANGED <<money, chargedCredits>>
        /\ \/ status' = [status EXCEPT ![r] = "RUNNING"]
           \/ status' = [status EXCEPT ![r] = "FAIL"]
    BY <1>5 DEF BeginRuns, Fail, WriteStatus
  <2>2. status'[r] \in {"RUNNING", "FAIL"}
    BY <1>0, <2>1
  <2> QED
    BY <1>m, <2>1, <2>2 DEF Written
<1>6. ASSUME wrun[w] = r, Block(w)
      PROVE  Written(r) /\ Billed(r)
  <2>1. UNCHANGED <<money, chargedCredits>> /\ status'[r] = "BLOCKED" /\ wpc[w] = "block"
    BY <1>0, <1>6 DEF Block, WriteStatus
  <2>2. Touched(r)
    BY <1>6, <2>1 DEF AccountedInv, PaidInv, WorkerPaid
  <2> QED
    BY <1>m, <2>1, <2>2 DEF Written
<1>7. ASSUME wrun[w] = r, Finish(w)
      PROVE  Written(r) /\ Billed(r)
  <2>1. /\ UNCHANGED money /\ wpc[w] = "finish"
        /\ status'[r] = woutcome[w] /\ chargedCredits'[r] = wtotal[w]
    BY <1>0, <1>7 DEF Finish
  <2> QED
    BY <1>m, <1>7, <2>1 DEF Written
<1>8. ASSUME wrun[w] = r, Settle(w)
      PROVE  Written(r) /\ Billed(r)
  <2>1. UNCHANGED runRow /\ wpc[w] = "settle" /\ reservation'[r].settled_amount = wtotal[w]
    BY <1>0, <1>8 DEF Settle, SettleRun
  <2>2. wtotal[w] = 0 \/ Touched(r)
    BY <1>0, <1>8, <2>1, CountedTouched DEF AccountedInv, Credits
  <2> QED
    BY <1>r, <2>1, <2>2 DEF Billed
<1>9. CASE RefundFailed(w)
  <2>1. UNCHANGED runRow /\ RefundIfOpen(wrun[w])
    BY <1>9 DEF RefundFailed
  <2>2. reservation'[r].settled_amount = reservation[r].settled_amount
    BY <1>0, <2>1 DEF RefundIfOpen, RefundRun, money, vars
  <2> QED
    BY <1>r, <2>1, <2>2 DEF Billed
<1> QED
  BY <1>1, <1>2, <1>3, <1>4, <1>5, <1>6, <1>7, <1>8, <1>9 DEF WorkerStep, ExecuteRun

LEMMA OperatorWrites ==
    ASSUME AccountedInv, NEW o \in Operators, Reconcile(o), NEW r \in Runs
    PROVE  Written(r) /\ Billed(r)
<1>0. /\ status \in [Runs -> Statuses] /\ chargedCredits \in [Runs -> Credits]
      /\ reservation \in [Runs -> [status : ReservationStatus, amount : Credits,
                                   settled_amount : Credits]]
  BY DEF AccountedInv, SequencedInv, Typed, LifecycleTypeOK, TypeOK
<1>1. CASE r # orun[o]
  <2>1. /\ status'[r] = status[r] /\ chargedCredits'[r] = chargedCredits[r]
        /\ reservation'[r] = reservation[r]
    BY <1>1, OperatorTouches DEF AccountedInv, SequencedInv
  <2> QED
    BY <2>1 DEF Written, Billed
<1>m. UNCHANGED money => Billed(r)
  BY DEF money, vars, Billed
<1>r. UNCHANGED runRow => Written(r)
  BY DEF runRow, Written
<1>2. CASE (\E q \in Runs : OperatorChecks(o, q)) \/ OperatorAborts(o)
  BY <1>m, <1>r, <1>2 DEF OperatorChecks, OperatorAborts
<1>3. CASE OperatorRefunds(o)
  <2>1. UNCHANGED runRow /\ RefundIfOpen(orun[o])
    BY <1>3 DEF OperatorRefunds
  <2>2. reservation'[r].settled_amount = reservation[r].settled_amount
    BY <1>0, <2>1 DEF RefundIfOpen, RefundRun, money, vars
  <2> QED
    BY <1>r, <2>1, <2>2 DEF Billed
<1>4. ASSUME orun[o] = r, OperatorFails(o)
      PROVE  Written(r) /\ Billed(r)
  <2>1. UNCHANGED <<money, chargedCredits>> /\ status'[r] = "FAIL"
    BY <1>0, <1>4 DEF OperatorFails, WriteStatus
  <2> QED
    BY <1>m, <2>1 DEF Written
<1>5. ASSUME orun[o] = r, NEW c \in Credits, OperatorSettles(o, c)
      PROVE  Written(r) /\ Billed(r)
  <2>1. UNCHANGED runRow /\ opc[o] = "act"
    BY <1>5 DEF OperatorSettles
  <2>2. Touched(r)
    BY <1>5, <2>1 DEF AccountedInv, PaidInv, OperatorPaid
  <2> QED
    BY <1>r, <2>1, <2>2 DEF Billed
<1>6. ASSUME orun[o] = r, OperatorPartial(o)
      PROVE  Written(r) /\ Billed(r)
  <2>1. /\ UNCHANGED money /\ opc[o] = "partial"
        /\ status'[r] = "PARTIAL" /\ chargedCredits'[r] = ocharge[o]
    BY <1>0, <1>6 DEF OperatorPartial
  <2> QED
    BY <1>m, <1>6, <2>1 DEF Written
<1> QED
  BY <1>1, <1>2, <1>3, <1>4, <1>5, <1>6 DEF Reconcile

LEMMA StepWrites ==
    ASSUME AccountedInv, [LifecycleNext]_lvars, NEW r \in Runs
    PROVE  Written(r) /\ Billed(r)
<1>1. ASSUME OtherStep
      PROVE  Written(r) /\ Billed(r)
  <2>1. OtherRow(r) /\ chargedCredits' = chargedCredits
    BY <1>1, OtherTouches, OtherCharges DEF AccountedInv, SequencedInv
  <2>2. status'[r] = status[r] \/ status'[r] \notin {"PASS", "BLOCKED"}
    BY <2>1 DEF OtherRow, Begun
  <2> QED
    BY <2>1, <2>2 DEF OtherRow, Written, Billed
<1>2. CASE UNCHANGED lvars
  BY <1>2 DEF lvars, money, vars, runRow, Written, Billed
<1> QED
  BY <1>1, <1>2, StepCases, WorkerWrites, OperatorWrites

LEMMA RunPaidStep ==
    ASSUME AccountedInv, [LifecycleNext]_lvars, NEW r \in Runs
    PROVE  RunPaid(r)'
<1>0. /\ SequencedInv /\ Typed /\ RunPaid(r) /\ Written(r) /\ Billed(r)
      /\ StepsTyped /\ StepsTyped'
  <2>1. Typed /\ Typed'
    BY TypedStep DEF AccountedInv, SequencedInv
  <2>2. StepsTyped /\ StepsTyped'
    BY <2>1 DEF Typed, LifecycleTypeOK, StepsTyped
  <2> QED
    BY <2>1, <2>2, StepWrites DEF AccountedInv, PaidInv
<1>t. Touched(r) => Touched(r)'
  BY <1>0, TouchedKept
<1>s. ASSUME NEW n, Settled(r, n) PROVE Settled(r, n)'
  BY <1>0, <1>s, SettledKept
<1>w. \A w \in Workers : wpc[w] = "finish" /\ wrun[w] = r => Settled(r, wtotal[w])
  BY DEF AccountedInv, PaidInv, WorkerPaid
<1>o. \A o \in Operators : opc[o] = "partial" /\ orun[o] = r => Settled(r, ocharge[o])
  BY DEF AccountedInv, PaidInv, OperatorPaid
<1>1. status'[r] = "BLOCKED" => Touched(r)'
  <2>1. \A w \in Workers : woutcome[w] # "BLOCKED"
    BY <1>0 DEF Typed, LifecycleTypeOK
  <2> QED
    BY <1>0, <1>t, <2>1 DEF Written, RunPaid
<1>2. reservation'[r].settled_amount > 0 => Touched(r)'
  BY <1>0, <1>t DEF Billed, RunPaid
<1>3. chargedCredits'[r] # 0 => Settled(r, chargedCredits'[r])
  BY <1>0, <1>w, <1>o DEF Written, RunPaid
<1>4. PICK n : n = chargedCredits'[r]
  OBVIOUS
<1>5. n # 0 => Settled(r, n)'
  BY <1>3, <1>4, <1>s
<1>6. ASSUME status'[r] = "PASS"
      PROVE  /\ \A i \in Steps : checkpoint[r][i] = "PASS"
             /\ Settled(r, Total(stepCharge[r]))
             /\ Settled(r, n)
  <2>1. CASE status[r] = "PASS" /\ chargedCredits'[r] = chargedCredits[r]
    BY <1>0, <1>4, <2>1 DEF RunPaid
  <2>2. ASSUME NEW w \in Workers, wpc[w] = "finish", wrun[w] = r,
               chargedCredits'[r] = wtotal[w], woutcome[w] = "PASS"
        PROVE  /\ \A i \in Steps : checkpoint[r][i] = "PASS"
               /\ Settled(r, Total(stepCharge[r]))
               /\ Settled(r, n)
    <3>1. wstep[w] = Length + 1 /\ Settled(r, wtotal[w])
      BY <2>2 DEF AccountedInv, PaidInv, WorkerPaid
    <3>2. Counted(r, wstep[w], wtotal[w])
      BY <1>0, <2>2 DEF SequencedInv, SequenceInv, WorkerSeq
    <3>3. stepCharge[r] \in [Steps -> Credits]
      BY <1>0 DEF StepsTyped
    <3>4. wtotal[w] = Total(stepCharge[r])
      BY <3>1, <3>2, <3>3, CostWhole DEF Counted
    <3>5. \A i \in Steps : checkpoint[r][i] = "PASS"
      BY <3>1, <3>2, LengthAssumption DEF Counted, Prefix, Steps
    <3> QED
      BY <1>4, <2>2, <3>1, <3>4, <3>5
  <2> QED
    BY <1>0, <1>6, <2>1, <2>2 DEF Written
<1>7. ASSUME status'[r] = "PASS"
      PROVE  /\ \A i \in Steps : checkpoint'[r][i] = "PASS"
             /\ Settled(r, Total(stepCharge[r]))'
             /\ Settled(r, n)'
  <2>1. \A i \in Steps : checkpoint'[r][i] = "PASS" /\ stepCharge'[r][i] = stepCharge[r][i]
    BY <1>0, <1>6, <1>7, StepsGrow DEF SequencedInv
  <2>2. stepCharge'[r] = stepCharge[r]
    <3>1. stepCharge[r] \in [Steps -> Credits] /\ stepCharge'[r] \in [Steps -> Credits]
      BY <1>0 DEF StepsTyped
    <3> QED
      BY <2>1, <3>1
  <2>3. PICK m : m = Total(stepCharge[r])
    OBVIOUS
  <2>4. Settled(r, m)' /\ Settled(r, n)'
    BY <1>6, <1>7, <1>s, <2>3
  <2> QED
    BY <2>1, <2>2, <2>3, <2>4 DEF Settled
<1>8. chargedCredits'[r] # 0 => Settled(r, chargedCredits[r])'
  BY <1>4, <1>5 DEF Settled
<1>9. status'[r] = "PASS" => Settled(r, chargedCredits[r])'
  BY <1>4, <1>7 DEF Settled
<1> QED
  BY <1>1, <1>2, <1>7, <1>8, <1>9 DEF RunPaid

LEMMA WorkerPaidStep ==
    ASSUME AccountedInv, [LifecycleNext]_lvars, NEW w \in Workers
    PROVE  WorkerPaid(w)'
<1>0. /\ SequencedInv /\ Typed /\ WorkerPaid(w) /\ WorkerTyped
  <2>1. Typed
    BY DEF AccountedInv, SequencedInv
  <2>2. WorkerTyped
    BY <2>1, TypeParts DEF Typed
  <2> QED
    BY <2>1, <2>2 DEF AccountedInv, PaidInv
<1>h. wpc[w] # "idle" => wrun[w] \in Runs
  BY <1>0 DEF Typed, HandsInv, WorkerInv
<1>k. ASSUME wpc'[w] = wpc[w], wrun'[w] = wrun[w], wstep'[w] = wstep[w], wtotal'[w] = wtotal[w],
             woutcome'[w] = woutcome[w]
      PROVE  WorkerPaid(w)'
  <2>1. wpc[w] = "finish" => Settled(wrun[w], wtotal[w])'
    <3>1. PICK r : r = wrun[w]
      OBVIOUS
    <3>2. PICK n : n = wtotal[w]
      OBVIOUS
    <3>3. wpc[w] = "finish" => Settled(r, n)'
      BY <1>0, <1>h, <3>1, <3>2, SettledKept DEF WorkerPaid
    <3> QED
      BY <1>k, <3>1, <3>2, <3>3 DEF Settled
  <2>2. wpc[w] = "block" => Touched(wrun[w])'
    <3>1. PICK r : r = wrun[w]
      OBVIOUS
    <3>2. wpc[w] = "block" => Touched(r)'
      BY <1>0, <1>h, <3>1, TouchedKept DEF WorkerPaid
    <3> QED
      BY <1>k, <3>1, <3>2 DEF Touched
  <2> QED
    BY <1>0, <1>k, <2>1, <2>2 DEF WorkerPaid
<1>1. ASSUME NEW v \in Workers, v # w, WorkerStep(v)
      PROVE  WorkerPaid(w)'
  BY <1>0, <1>1, <1>k, WorkerAlone
<1>2. CASE UNCHANGED worker
  BY <1>2, <1>k DEF worker
<1>3. ASSUME WorkerStep(w)
      PROVE  WorkerPaid(w)'
  <2>1. ASSUME WorkerIdle(w)
        PROVE  WorkerPaid(w)'
    <3>1. wpc'[w] = "idle" /\ woutcome'[w] = "none"
      BY <1>0, <2>1 DEF WorkerIdle, WorkerTyped
    <3> QED
      BY <3>1 DEF WorkerPaid
  <2>2. ASSUME NEW to \in WorkerPlaces \ {"finish", "block"}, WorkerAt(w, to)
        PROVE  WorkerPaid(w)'
    <3>1. wpc'[w] = to /\ wstep'[w] = wstep[w] /\ woutcome'[w] = woutcome[w]
      BY <1>0, <2>2 DEF WorkerAt, WorkerTyped
    <3> QED
      BY <1>0, <2>2, <3>1 DEF WorkerPaid
  <2>3. ASSUME NEW cost, Account(w, cost), wpc[w] \in InLoop
        PROVE  WorkerPaid(w)'
    <3>1. CASE cost > Remaining(w)
      BY <2>2, <2>3, <3>1 DEF Account, WorkerPlaces
    <3>2. CASE ~(cost > Remaining(w))
      <4>1. wpc'[w] = "check" /\ woutcome'[w] = woutcome[w]
        BY <1>0, <2>3, <3>2 DEF Account, WorkerTyped
      <4>2. woutcome[w] # "PASS"
        <5>1. wstep[w] \in Steps
          BY <1>0, <2>3 DEF Typed, HandsInv, WorkerInv
        <5>2. wstep[w] # Length + 1
          BY <5>1, LengthAssumption DEF Steps
        <5> QED
          BY <1>0, <5>2 DEF WorkerPaid
      <4> QED
        BY <4>1, <4>2 DEF WorkerPaid
    <3> QED
      BY <3>1, <3>2
  <2>4. CASE \E r \in Runs : TakeJob(w, r)
    <3>1. wpc'[w] = "begin" /\ wstep'[w] = wstep[w] /\ woutcome'[w] = woutcome[w]
      BY <1>0, <2>4 DEF TakeJob, WorkerTyped
    <3> QED
      BY <1>0, <3>1 DEF WorkerPaid
  <2>5. CASE BeginSkips(w) \/ JobRaises(w) \/ JobTimesOut(w) \/ WorkerCrash(w) \/ Return(w)
    BY <2>1, <2>5 DEF BeginSkips, JobRaises, JobTimesOut, WorkerCrash, Return, JobEnds
  <2>6. CASE BeginRuns(w) \/ BeginWedges(w) \/ Insert(w) \/ ProviderRaises(w)
    BY <2>2, <2>6 DEF BeginRuns, BeginWedges, Insert, ProviderRaises, WorkerPlaces
  <2>7. CASE \/ SettleRaises(w) \/ DatabaseRaises(w) \/ Record(w) \/ Finish(w)
             \/ RefundFailed(w) \/ Fail(w) \/ Block(w)
    BY <2>2, <2>7 DEF SettleRaises, DatabaseRaises, Record, Finish, RefundFailed, Fail, Block,
       WorkerPlaces
  <2>8. CASE Check(w)
    <3>1. CASE NextMove(w) = "execute"
      BY <2>2, <2>8, <3>1 DEF Check, WorkerPlaces
    <3>2. CASE NextMove(w) # "execute"
      <4>1. /\ wpc'[w] = "settle" /\ woutcome'[w] = NextMove(w) /\ wstep'[w] = wstep[w]
        BY <1>0, <2>8, <3>2 DEF Check, WorkerTyped
      <4>2. NextMove(w) = "PASS" => wstep[w] \notin Steps
        BY DEF NextMove
      <4>3. wstep[w] \notin Steps => wstep[w] = Length + 1
        BY <1>0, LengthAssumption DEF WorkerTyped, Steps
      <4> HIDE DEF NextMove
      <4> QED
        BY <4>1, <4>2, <4>3 DEF WorkerPaid
    <3> QED
      BY <3>1, <3>2
  <2>9. CASE Prepare(w)
    <3>1. CASE WorkerAt(w, "block") /\ checkpoint[wrun[w]][wstep[w]] = "RUNNING"
      <4>1. PICK r \in Runs : r = wrun[w]
        BY <1>h, <2>9 DEF Prepare
      <4>2. wstep[w] \in Steps
        BY <1>0, <2>9 DEF Prepare, Typed, HandsInv, WorkerInv, InLoop
      <4>3. Touched(r)'
        BY <1>0, <3>1, <4>1, <4>2, TouchedKept DEF Touched
      <4>4. wpc'[w] = "block" /\ wrun'[w] = r /\ wstep'[w] = wstep[w] /\ woutcome'[w] = woutcome[w]
        BY <1>0, <3>1, <4>1 DEF WorkerAt, WorkerTyped
      <4>5. Touched(wrun[w])'
        BY <4>3, <4>4 DEF Touched
      <4> QED
        BY <1>0, <4>4, <4>5 DEF WorkerPaid
    <3> QED
      BY <2>2, <2>3, <2>9, <3>1 DEF Prepare, InLoop, WorkerPlaces
  <2>10. CASE \E c \in Charges : ProviderReturns(w, c)
    BY <2>3, <2>10 DEF ProviderReturns, InLoop
  <2>11. CASE Settle(w)
    <3>1. /\ wpc'[w] = "finish" /\ wrun'[w] = wrun[w] /\ wtotal'[w] = wtotal[w]
          /\ wstep'[w] = wstep[w] /\ woutcome'[w] = woutcome[w]
      BY <1>0, <2>11 DEF Settle, WorkerAt, WorkerTyped
    <3>2. PICK r \in Runs : r = wrun[w]
      BY <1>h, <2>11 DEF Settle
    <3>3. reservation'[r].status = "settled" /\ reservation'[r].settled_amount = wtotal[w]
      BY <1>0, <2>11, <3>2 DEF Settle, SettleRun, Typed, LifecycleTypeOK, TypeOK
    <3>4. Settled(wrun[w], wtotal[w])'
      BY <3>1, <3>2, <3>3 DEF Settled
    <3> QED
      BY <1>0, <3>1, <3>4 DEF WorkerPaid
  <2> QED
    BY <1>3, <2>4, <2>5, <2>6, <2>7, <2>8, <2>9, <2>10, <2>11 DEF WorkerStep, ExecuteRun
<1>4. UNCHANGED lvars => UNCHANGED worker
  BY DEF lvars
<1> QED
  BY <1>1, <1>2, <1>3, <1>4, StepCases, OtherFrame, OperatorFrame

LEMMA OperatorPaidStep ==
    ASSUME AccountedInv, [LifecycleNext]_lvars, NEW o \in Operators
    PROVE  OperatorPaid(o)'
<1>0. SequencedInv /\ Typed /\ OperatorPaid(o) /\ OperatorTyped
  <2>1. Typed
    BY DEF AccountedInv, SequencedInv
  <2>2. OperatorTyped
    BY <2>1, TypeParts DEF Typed
  <2> QED
    BY <2>1, <2>2 DEF AccountedInv, PaidInv
<1>h. opc[o] # "idle" => orun[o] \in Runs
  BY <1>0 DEF Typed, HandsInv, OperatorInv
<1>k. ASSUME opc'[o] = opc[o], orun'[o] = orun[o], ocharge'[o] = ocharge[o]
      PROVE  OperatorPaid(o)'
  <2>1. PICK r : r = orun[o]
    OBVIOUS
  <2>2. PICK n : n = ocharge[o]
    OBVIOUS
  <2>3. opc[o] = "partial" => Settled(r, n)'
    BY <1>0, <1>h, <2>1, <2>2, SettledKept DEF OperatorPaid
  <2>4. opc[o] = "act" => Touched(r)'
    BY <1>0, <1>h, <2>1, TouchedKept DEF OperatorPaid
  <2>5. opc[o] = "partial" => Settled(orun[o], ocharge[o])'
    BY <1>k, <2>1, <2>2, <2>3 DEF Settled
  <2>6. opc[o] = "act" => Touched(orun[o])'
    BY <1>k, <2>1, <2>4 DEF Touched
  <2> QED
    BY <1>k, <2>5, <2>6 DEF OperatorPaid
<1>1. ASSUME NEW p \in Operators, p # o, Reconcile(p)
      PROVE  OperatorPaid(o)'
  BY <1>0, <1>1, <1>k, OperatorAlone
<1>2. CASE UNCHANGED operator
  BY <1>2, <1>k DEF operator
<1>3. ASSUME Reconcile(o)
      PROVE  OperatorPaid(o)'
  <2>1. ASSUME NEW r \in Runs, OperatorChecks(o, r)
        PROVE  OperatorPaid(o)'
    <3>1. Touched(r)
      BY <2>1 DEF OperatorChecks, AccountedInv, PaidInv, RunPaid
    <3>2. Touched(r)' /\ opc'[o] = "act" /\ orun'[o] = r
      BY <1>0, <2>1, <3>1, TouchedKept DEF OperatorChecks, OperatorTyped
    <3>3. Touched(orun[o])'
      BY <3>2 DEF Touched
    <3> QED
      BY <3>2, <3>3 DEF OperatorPaid
  <2>2. CASE OperatorRefunds(o) \/ OperatorFails(o) \/ OperatorPartial(o) \/ OperatorAborts(o)
    <3>1. opc'[o] \in {"fail", "idle"}
      BY <1>0, <2>2 DEF OperatorRefunds, OperatorFails, OperatorPartial, OperatorAborts,
                        OperatorAt, OperatorDone, OperatorTyped
    <3> QED
      BY <3>1 DEF OperatorPaid
  <2>3. ASSUME NEW c \in Credits, OperatorSettles(o, c)
        PROVE  OperatorPaid(o)'
    <3>1. opc'[o] = "partial" /\ orun'[o] = orun[o] /\ ocharge'[o] = c
      BY <1>0, <2>3 DEF OperatorSettles, OperatorTyped
    <3>2. PICK r \in Runs : r = orun[o]
      BY <1>h, <2>3 DEF OperatorSettles
    <3>3. reservation'[r].status = "settled" /\ reservation'[r].settled_amount = c
      BY <1>0, <2>3, <3>2 DEF OperatorSettles, SettleRun, Typed, LifecycleTypeOK, TypeOK
    <3>4. Settled(orun[o], ocharge[o])'
      BY <3>1, <3>2, <3>3 DEF Settled
    <3> QED
      BY <3>1, <3>4 DEF OperatorPaid
  <2> QED
    BY <1>3, <2>1, <2>2, <2>3 DEF Reconcile
<1>4. UNCHANGED lvars => UNCHANGED operator
  BY DEF lvars, control
<1> QED
  BY <1>1, <1>2, <1>3, <1>4, StepCases, OtherFrame, WorkerFrame

LEMMA AccountedStep ==
    ASSUME AccountedInv, [LifecycleNext]_lvars
    PROVE  AccountedInv'
<1>1. SequencedInv'
  BY SequencedStep DEF AccountedInv
<1>2. (\A r \in Runs : RunPaid(r)') /\ (\A w \in Workers : WorkerPaid(w)')
      /\ (\A o \in Operators : OperatorPaid(o)')
  BY RunPaidStep, WorkerPaidStep, OperatorPaidStep
<1>3. PaidInv'
  BY <1>2 DEF PaidInv
<1> QED
  BY <1>1, <1>3 DEF AccountedInv

LEMMA InitAccounted == LifecycleInit => AccountedInv
<1> SUFFICES ASSUME LifecycleInit PROVE AccountedInv
  OBVIOUS
<1>1. PaidInv
  BY DEF LifecycleInit, Init, PaidInv, RunPaid, WorkerPaid, OperatorPaid
<1> QED
  BY <1>1, InitSequenced DEF AccountedInv

LEMMA AlwaysAccounted == LifecycleSpec => []AccountedInv
<1>1. AccountedInv /\ [LifecycleNext]_lvars => AccountedInv'
  BY AccountedStep
<1> QED
  BY <1>1, InitAccounted, PTL DEF LifecycleSpec

\* A run reported PASS executed all of its skills, and its tenant was charged
\* exactly what they cost, whatever raced with the worker that finished it
\* (jobs.py:188-200).
THEOREM PassPaid == LifecycleSpec => []PassIsPaid
<1>1. AccountedInv => PassIsPaid
  BY DEF AccountedInv, PaidInv, RunPaid, PassIsPaid, Settled
<1> QED
  BY <1>1, AlwaysAccounted, PTL

\* A charge on a run row is the charge of its settlement, whoever wrote either
\* (jobs.py:94-103, 151-159; cli.py:49-55).
THEOREM ChargesSettled == LifecycleSpec => []ChargeIsSettled
<1>1. AccountedInv => ChargeIsSettled
  BY DEF AccountedInv, PaidInv, RunPaid, ChargeIsSettled, Settled
<1> QED
  BY <1>1, AlwaysAccounted, PTL

\* A tenant is charged only for a run of which some skill was started: not
\* for one that was cancelled, reaped or abandoned before (api.py:258-273).
THEOREM NothingCharged == LifecycleSpec => []NothingForNothing
<1>1. AccountedInv => NothingForNothing
  BY DEF AccountedInv, PaidInv, RunPaid, NothingForNothing, Touched
<1> QED
  BY <1>1, AlwaysAccounted, PTL

-----------------------------------------------------------------------------
(* A run's life implements PaidRun.                                        *)

AccountOf == [r \in Runs |->
    CASE reservation[r].status = "none" -> "none"
      [] reservation[r].status = "reserved" -> "held"
      [] reservation[r].status = "settled" -> "billed"
      [] reservation[r].status = "refunded" -> "released"]
StateOf(s) ==
    CASE s = "none" -> "none"
      [] s = "reserved" -> "held"
      [] s = "settled" -> "billed"
      [] s = "refunded" -> "released"
AmountOf == [r \in Runs |-> reservation[r].amount]
BillOf == [r \in Runs |-> reservation[r].settled_amount]
StartedOf == [r \in Runs |-> {i \in Steps : checkpoint[r][i] # "none"}]
DoubtfulOf == {r \in Runs :
    status[r] = "BLOCKED" \/ \E o \in Operators : opc[o] = "act" /\ orun[o] = r}

\* What a run had to be charged for nothing.
Unbilled == \A r \in Runs :
    reservation[r].status \in {"none", "reserved"} => reservation[r].settled_amount = 0

LEMMA States ==
    /\ StateOf("none") = "none" /\ StateOf("reserved") = "held"
    /\ StateOf("settled") = "billed" /\ StateOf("refunded") = "released"
  BY DEF StateOf

LEMMA Accounts ==
    AccountOf = [r \in Runs |-> StateOf(reservation[r].status)]
  BY Zenon DEF AccountOf, StateOf

LEMMA AccountsNext ==
    AccountOf' = [r \in Runs |-> StateOf(reservation'[r].status)]
  BY Zenon DEF AccountOf, StateOf

LEMMA AccountChange ==
    ASSUME NEW r \in Runs, \A q \in Runs : q # r => reservation'[q] = reservation[q]
    PROVE  /\ AccountOf[r] = StateOf(reservation[r].status)
           /\ AccountOf' = [AccountOf EXCEPT ![r] = StateOf(reservation'[r].status)]
<1>1. PICK old : old = AccountOf
  OBVIOUS
<1>2. PICK new : new = AccountOf'
  OBVIOUS
<1>3. old = [q \in Runs |-> StateOf(reservation[q].status)]
  BY <1>1, Accounts
<1>4. new = [q \in Runs |-> StateOf(reservation'[q].status)]
  BY <1>2, AccountsNext
<1>5. new = [old EXCEPT ![r] = StateOf(reservation'[r].status)]
  BY <1>3, <1>4
<1> QED
  BY <1>1, <1>2, <1>3, <1>5

LEMMA ViewSameCardinality == ASSUME NEW S PROVE View!Cardinality(S) = Cardinality(S)
  BY DEF View!Cardinality, Cardinality, View!IsFiniteSet, IsFiniteSet

LEMMA ViewCost ==
    ASSUME NEW r, NEW i
    PROVE  View!CostBefore(r, i) = CostOf(stepCharge[r], i)
  BY ViewSameCardinality DEF View!CostBefore, View!Total, View!Units, CostOf, Total, Units

LEMMA DoubtfulTouched ==
    ASSUME AccountedInv, NEW r \in DoubtfulOf
    PROVE  r \in Runs /\ Touched(r)
  BY DEF AccountedInv, PaidInv, RunPaid, OperatorPaid, DoubtfulOf

LEMMA StartedTouched ==
    ASSUME NEW r \in Runs
    PROVE  Touched(r) <=> StartedOf[r] # {}
  BY DEF Touched, StartedOf

\* The columns the doubts are read from.
LEMMA SameDoubts ==
    ASSUME UNCHANGED <<status, operator>>
    PROVE  DoubtfulOf' = DoubtfulOf
  BY DEF DoubtfulOf, operator

\* At most one run comes into doubt or out of it.
LEMMA OneDoubt ==
    ASSUME NEW r \in Runs, \A q \in Runs : q # r => (q \in DoubtfulOf' <=> q \in DoubtfulOf)
    PROVE  DoubtfulOf' = DoubtfulOf \cup {r} \/ DoubtfulOf' = DoubtfulOf \ {r}
<1>1. DoubtfulOf \subseteq Runs /\ DoubtfulOf' \subseteq Runs
  BY DEF DoubtfulOf
<1> QED
  BY <1>1

LEMMA QuietView ==
    ASSUME AccountedInv', UNCHANGED <<reservation, checkpoint, stepCharge>>,
           NEW r \in Runs, \A q \in Runs : q # r => (q \in DoubtfulOf' <=> q \in DoubtfulOf)
    PROVE  [View!Next]_(View!vars)
<1>1. AccountOf' = AccountOf /\ AmountOf' = AmountOf /\ BillOf' = BillOf /\ StartedOf' = StartedOf
  BY DEF AccountOf, AmountOf, BillOf, StartedOf
<1>2. CASE DoubtfulOf' = DoubtfulOf
  BY <1>1, <1>2 DEF View!vars, AccountOf, AmountOf, BillOf, StartedOf, DoubtfulOf
<1>3. CASE DoubtfulOf' = DoubtfulOf \ {r}
  <2>1. View!Clear(r)
    BY <1>1, <1>3 DEF View!Clear, AccountOf, AmountOf, BillOf, StartedOf, DoubtfulOf
  <2> QED
    BY <2>1 DEF View!Next
<1>4. CASE DoubtfulOf' = DoubtfulOf \cup {r}
  <2>1. Touched(r)'
    <3>1. r \in DoubtfulOf'
      BY <1>4
    <3> QED
      BY <3>1 DEF AccountedInv, PaidInv, RunPaid, OperatorPaid, DoubtfulOf, Touched
  <2>2. StartedOf[r] # {}
    BY <2>1 DEF Touched, StartedOf
  <2>3. View!Doubt(r)
    BY <1>1, <1>4, <2>2 DEF View!Doubt, View!Steps, Steps, AccountOf, AmountOf, BillOf,
       StartedOf, DoubtfulOf
  <2> QED
    BY <2>3 DEF View!Next
<1> QED
  BY <1>2, <1>3, <1>4, OneDoubt

LEMMA AdmitView ==
    ASSUME TypeOK, Unbilled, NEW r \in Runs, NEW a \in Credits, Reserve(r, a),
           UNCHANGED <<checkpoint, stepCharge>>, DoubtfulOf' = DoubtfulOf
    PROVE  View!Next
<1>1. /\ reservation[r].status = "none" /\ reservation[r].settled_amount = 0
      /\ reservation' = [reservation EXCEPT ![r] =
             [status |-> "reserved", amount |-> a, settled_amount |-> 0]]
      /\ a \in 1 .. MaxCredits
  BY CreditsAssumption DEF Reserve, Unbilled, Credits
<1>2. /\ \A q \in Runs : q # r => reservation'[q] = reservation[q]
      /\ reservation'[r].status = "reserved" /\ reservation'[r].amount = a
      /\ reservation'[r].settled_amount = 0
  BY <1>1 DEF TypeOK
<1>3. AccountOf[r] = "none" /\ AccountOf' = [AccountOf EXCEPT ![r] = "held"]
  BY <1>1, <1>2, States, AccountChange
<1>4. AmountOf' = [AmountOf EXCEPT ![r] = a]
  BY <1>2 DEF AmountOf
<1>5. BillOf' = BillOf /\ StartedOf' = StartedOf
  BY <1>1, <1>2 DEF BillOf, StartedOf
<1>6. View!Admit(r, a)
  BY <1>3, <1>4, <1>5 DEF View!Admit, AccountOf, AmountOf, BillOf, StartedOf, DoubtfulOf
<1> QED
  BY <1>1, <1>6 DEF View!Next

LEMMA ReleaseView ==
    ASSUME TypeOK, NEW r \in Runs, RefundRun(r),
           UNCHANGED <<checkpoint, stepCharge>>, DoubtfulOf' \in {DoubtfulOf, DoubtfulOf \ {r}}
    PROVE  View!Next
<1>1. /\ reservation[r].status = "reserved"
      /\ reservation' = [reservation EXCEPT ![r] =
             [status |-> "refunded", amount |-> reservation[r].amount,
              settled_amount |-> @.settled_amount]]
  BY DEF RefundRun, IsOpen
<1>2. /\ \A q \in Runs : q # r => reservation'[q] = reservation[q]
      /\ reservation'[r].status = "refunded" /\ reservation'[r].amount = reservation[r].amount
      /\ reservation'[r].settled_amount = reservation[r].settled_amount
  BY <1>1 DEF TypeOK
<1>3. AccountOf[r] = "held" /\ AccountOf' = [AccountOf EXCEPT ![r] = "released"]
  BY <1>1, <1>2, States, AccountChange
<1>4. AmountOf' = AmountOf /\ BillOf' = BillOf /\ StartedOf' = StartedOf
  BY <1>2 DEF AmountOf, BillOf, StartedOf
<1>5. View!Release(r)
  BY <1>3, <1>4 DEF View!Release, AccountOf, AmountOf, BillOf, StartedOf, DoubtfulOf
<1> QED
  BY <1>5 DEF View!Next

\* Settling an open reservation, for a reason the tenant was promised.
LEMMA BillView ==
    ASSUME TypeOK, NEW r \in Runs, NEW c \in Credits, SettleRun(r, c),
           UNCHANGED <<checkpoint, stepCharge>>,
           \/ /\ DoubtfulOf' = DoubtfulOf
              /\ \E i \in StartedOf[r] \cup {0} : c = CostOf(stepCharge[r], i + 1)
           \/ r \in DoubtfulOf /\ DoubtfulOf' \in {DoubtfulOf, DoubtfulOf \ {r}}
    PROVE  View!Next
<1>1. /\ reservation[r].status = "reserved" /\ c <= reservation[r].amount
      /\ reservation' = [reservation EXCEPT ![r] =
             [status |-> "settled", amount |-> reservation[r].amount, settled_amount |-> c]]
  BY DEF SettleRun, IsOpen
<1>2. /\ \A q \in Runs : q # r => reservation'[q] = reservation[q]
      /\ reservation'[r].status = "settled" /\ reservation'[r].amount = reservation[r].amount
      /\ reservation'[r].settled_amount = c
  BY <1>1 DEF TypeOK
<1>3. AccountOf[r] = "held" /\ AccountOf' = [AccountOf EXCEPT ![r] = "billed"]
  BY <1>1, <1>2, States, AccountChange
<1>4. BillOf' = [BillOf EXCEPT ![r] = c] /\ AmountOf' = AmountOf /\ StartedOf' = StartedOf
  BY <1>2 DEF AmountOf, BillOf, StartedOf
<1>5. c <= AmountOf[r]
  BY <1>1 DEF AmountOf
<1>6. \/ DoubtfulOf' = DoubtfulOf /\ \E i \in StartedOf[r] \cup {0} : c = View!CostBefore(r, i + 1)
      \/ r \in DoubtfulOf /\ DoubtfulOf' \in {DoubtfulOf, DoubtfulOf \ {r}}
  BY ViewCost
<1>7. View!Bill(r, c)
  BY <1>3, <1>4, <1>5, <1>6
  DEF View!Bill, View!Steps, Steps, AccountOf, AmountOf, BillOf, StartedOf, DoubtfulOf
<1> QED
  BY <1>7 DEF View!Next, Credits

LEMMA ClaimView ==
    ASSUME AccountedInv, NEW w \in Workers, NEW r \in Runs, NEW i \in Steps, Claims(w, r, i),
           UNCHANGED <<reservation, status, operator>>
    PROVE  View!Next
<1>0. /\ Typed /\ KnownInv /\ SequenceInv /\ StepsTyped
      /\ reservation \in [Runs -> [status : ReservationStatus, amount : Credits,
                                   settled_amount : Credits]]
      /\ wtotal \in [Workers -> Credits]
  BY DEF AccountedInv, SequencedInv, Typed, LifecycleTypeOK, TypeOK, StepsTyped
<1>1. /\ wpc[w] = "insert" /\ wrun[w] = r /\ wstep[w] = i /\ checkpoint[r][i] = "none"
      /\ checkpoint' = [checkpoint EXCEPT ![r][i] = "RUNNING"] /\ stepCharge' = stepCharge
  BY DEF Claims
<1>2. /\ Known(r) /\ Counted(r, i, wtotal[w])
      /\ wtotal[w] + Required[i] <= reservation[r].amount
  BY <1>0, <1>1 DEF KnownInv, SequenceInv, WorkerSeq
<1>3. AccountOf[r] # "none"
  <2>1. reservation[r].status \in ReservationStatus
    BY <1>0
  <2> QED
    BY <1>2, <2>1, States, Accounts DEF Known, ReservationStatus
<1>4. StartedOf[r] = 1 .. i - 1
  <2>1. \A j \in 1 .. i - 1 : j \in Steps /\ checkpoint[r][j] # "none"
    BY <1>2, LengthAssumption DEF Counted, Prefix, Steps
  <2>2. \A j \in Steps : checkpoint[r][j] # "none" => j \in 1 .. i - 1
    <3>1. ASSUME NEW j \in Steps, checkpoint[r][j] # "none", j \notin 1 .. i - 1
          PROVE  FALSE
      <4>1. i \in 1 .. j - 1
        BY <1>1, <3>1, LengthAssumption DEF Steps
      <4>2. Prefix(r, j)
        BY <1>0, <3>1 DEF SequenceInv, RunSeq
      <4> QED
        BY <1>1, <4>1, <4>2 DEF Prefix
    <3> QED
      BY <3>1
  <2> QED
    BY <2>1, <2>2 DEF StartedOf
<1>5. CostOf(stepCharge[r], i) < AmountOf[r]
  <2>1. /\ wtotal[w] \in Nat /\ Required[i] \in Nat \ {0} /\ reservation[r].amount \in Nat
        /\ AmountOf[r] = reservation[r].amount /\ wtotal[w] = CostOf(stepCharge[r], i)
    BY <1>0, <1>2, RequiredAssumption DEF Credits, AmountOf, Counted
  <2> QED
    BY <1>2, <2>1
<1>6. StartedOf' = [StartedOf EXCEPT ![r] = @ \cup {i}]
  <2>1. /\ \A q \in Runs, j \in Steps : ~(q = r /\ j = i) => checkpoint'[q][j] = checkpoint[q][j]
        /\ checkpoint'[r][i] = "RUNNING"
    BY <1>0, <1>1 DEF StepsTyped
  <2>2. \A q \in Runs : q # r => {j \in Steps : checkpoint'[q][j] # "none"}
                                = {j \in Steps : checkpoint[q][j] # "none"}
    BY <2>1
  <2>3. {j \in Steps : checkpoint'[r][j] # "none"}
        = {j \in Steps : checkpoint[r][j] # "none"} \cup {i}
    BY <2>1
  <2> QED
    BY <2>2, <2>3 DEF StartedOf
<1>7. AccountOf' = AccountOf /\ AmountOf' = AmountOf /\ BillOf' = BillOf /\ DoubtfulOf' = DoubtfulOf
  BY SameDoubts DEF AccountOf, AmountOf, BillOf
<1>8. View!CostBefore(r, i) < AmountOf[r]
  BY <1>5, ViewCost
<1>9. View!Execute(r, i)
  BY <1>1, <1>3, <1>4, <1>6, <1>7, <1>8
  DEF View!Execute, AccountOf, AmountOf, BillOf, StartedOf, DoubtfulOf
<1> QED
  BY <1>9 DEF View!Next, View!Steps, Steps

LEMMA ReturnView ==
    ASSUME AccountedInv, NEW w \in Workers, NEW r \in Runs, NEW i \in Steps, NEW c \in Charges,
           Returns(w, r, i, c), UNCHANGED <<reservation, status, operator>>
    PROVE  View!Next
<1>0. SequenceInv /\ StepsTyped
  BY DEF AccountedInv, SequencedInv, Typed, LifecycleTypeOK, StepsTyped
<1>1. /\ wpc[w] = "await" /\ wrun[w] = r /\ wstep[w] = i
      /\ checkpoint' = [checkpoint EXCEPT ![r][i] = "PASS"]
      /\ stepCharge' = [stepCharge EXCEPT ![r][i] = c]
  BY DEF Returns
<1>2. checkpoint[r][i] = "RUNNING" /\ stepCharge[r][i] = 0
  BY <1>0, <1>1 DEF SequenceInv, WorkerSeq, RunSeq
<1>3. i \in StartedOf[r]
  BY <1>2 DEF StartedOf
<1>4. StartedOf' = StartedOf
  <2>1. \A q \in Runs, j \in Steps : checkpoint'[q][j] # "none" <=> checkpoint[q][j] # "none"
    BY <1>0, <1>1, <1>2 DEF StepsTyped
  <2> QED
    BY <2>1 DEF StartedOf
<1>5. AccountOf' = AccountOf /\ AmountOf' = AmountOf /\ BillOf' = BillOf /\ DoubtfulOf' = DoubtfulOf
  BY SameDoubts DEF AccountOf, AmountOf, BillOf
<1>6. View!Complete(r, i, c)
  BY <1>1, <1>2, <1>3, <1>4, <1>5
  DEF View!Complete, AccountOf, AmountOf, BillOf, StartedOf, DoubtfulOf
<1> QED
  BY <1>6 DEF View!Next, View!Steps, Steps

LEMMA StillView ==
    ASSUME UNCHANGED <<reservation, checkpoint, stepCharge, status, operator>>
    PROVE  UNCHANGED View!vars
<1>1. DoubtfulOf' = DoubtfulOf
  BY SameDoubts
<1> QED
  BY <1>1 DEF View!vars, DoubtfulOf

\* Which runs are in doubt can only change for the run whose status changes
\* and the run of the operator who moves.
LEMMA StatusDoubts ==
    ASSUME NEW r \in Runs, UNCHANGED operator,
           \A q \in Runs : q # r => status'[q] = status[q]
    PROVE  \A q \in Runs : q # r => (q \in DoubtfulOf' <=> q \in DoubtfulOf)
  BY DEF DoubtfulOf, operator

LEMMA OperatorDoubts ==
    ASSUME NEW o \in Operators, NEW r \in Runs,
           opc[o] = "act" => orun[o] = r, opc'[o] = "act" => orun'[o] = r,
           \A p \in Operators \ {o} : opc'[p] = opc[p] /\ orun'[p] = orun[p],
           \A q \in Runs : q # r => status'[q] = status[q]
    PROVE  \A q \in Runs : q # r => (q \in DoubtfulOf' <=> q \in DoubtfulOf)
<1>1. ASSUME NEW q \in Runs, q # r
      PROVE  (\E p \in Operators : opc'[p] = "act" /\ orun'[p] = q)
                <=> (\E p \in Operators : opc[p] = "act" /\ orun[p] = q)
  <2>1. \A p \in Operators : opc'[p] = "act" /\ orun'[p] = q
                                <=> opc[p] = "act" /\ orun[p] = q
    BY <1>1
  <2> QED
    BY <2>1
<1> QED
  BY <1>1 DEF DoubtfulOf

LEMMA OtherView ==
    ASSUME AccountedInv, AccountedInv', Unbilled, OtherStep
    PROVE  [View!Next]_(View!vars)
<1>0. /\ TypeOK /\ status \in [Runs -> Statuses] /\ KnownInv
      /\ UNCHANGED <<checkpoint, stepCharge, operator>>
  <2>1. UNCHANGED <<steps, operator>>
    BY OtherFrame
  <2> QED
    BY <2>1 DEF AccountedInv, SequencedInv, Typed, LifecycleTypeOK, steps
<1>q. ASSUME NEW r, NEW s, status' = [status EXCEPT ![r] = s], UNCHANGED money
      PROVE  [View!Next]_(View!vars)
  <2>1. reservation' = reservation
    BY <1>q DEF money, vars
  <2>2. CASE r \in Runs
    <3>1. \A q \in Runs : q # r => status'[q] = status[q]
      BY <1>0, <1>q
    <3> QED
      BY <1>0, <2>1, <2>2, <3>1, StatusDoubts, QuietView
  <2>3. CASE r \notin Runs
    <3>1. status' = status
      BY <1>0, <1>q, <2>3
    <3> QED
      BY <1>0, <2>1, <3>1, StillView
  <2> QED
    BY <2>2, <2>3
<1>s. UNCHANGED <<reservation, status>> => [View!Next]_(View!vars)
  BY <1>0, StillView
<1>m. UNCHANGED <<money, status>> => [View!Next]_(View!vars)
  BY <1>s DEF money, vars
<1>r. ASSUME NEW r \in Runs, RefundIfOpen(r), status' = status
      PROVE  [View!Next]_(View!vars)
  <2>1. CASE RefundRun(r)
    <3>1. DoubtfulOf' = DoubtfulOf
      BY <1>0, <1>r, SameDoubts
    <3> QED
      BY <1>0, <2>1, <3>1, ReleaseView
  <2> QED
    BY <1>m, <1>r, <2>1 DEF RefundIfOpen
<1>1. ASSUME NEW e \in Events, ReceivePayment(e)
      PROVE  [View!Next]_(View!vars)
  BY <1>s, <1>1 DEF ReceivePayment, ProcessVerifiedPayment, runRow
<1>2. ASSUME NEW r \in Runs, NEW a \in Credits, CreateRun(r, a)
      PROVE  [View!Next]_(View!vars)
  <2>1. /\ Reserve(r, a) /\ status' = [status EXCEPT ![r] = "PENDING_DISPATCH"]
        /\ reservation[r].status = "none"
    BY <1>2 DEF CreateRun, WriteStatus, Reserve
  <2>2. status[r] = "none"
    BY <1>0, <2>1 DEF KnownInv, Known, Traced
  <2>3. /\ status'[r] = "PENDING_DISPATCH"
        /\ \A q \in Runs : q # r => status'[q] = status[q]
    BY <1>0, <2>1
  <2>4. r \in DoubtfulOf' <=> r \in DoubtfulOf
    BY <1>0, <2>2, <2>3 DEF DoubtfulOf, operator
  <2>5. DoubtfulOf' = DoubtfulOf
    <3>1. \A q \in Runs : q \in DoubtfulOf' <=> q \in DoubtfulOf
      BY <1>0, <2>3, <2>4, StatusDoubts
    <3>2. DoubtfulOf \subseteq Runs /\ DoubtfulOf' \subseteq Runs
      BY DEF DoubtfulOf
    <3> QED
      BY <3>1, <3>2
  <2> QED
    BY <1>0, <2>1, <2>5, AdmitView
<1>3. ASSUME NEW r \in Runs, CancelPending(r) \/ CancelActive(r) \/ ReaperFail(r)
      PROVE  [View!Next]_(View!vars)
  <2>1. UNCHANGED money /\ \E s : status' = [status EXCEPT ![r] = s]
    BY <1>3 DEF CancelPending, CancelActive, ReaperFail, WriteStatus
  <2> QED
    BY <1>q, <2>1
<1>4. ASSUME NEW r \in Runs, CancelRefund(r) \/ ReaperRefund(r)
      PROVE  [View!Next]_(View!vars)
  <2>1. RefundIfOpen(r) /\ status' = status
    BY <1>4 DEF CancelRefund, ReaperRefund, runRow
  <2> QED
    BY <1>r, <2>1
<1>5. ASSUME NEW r \in Runs, \/ CancelCrash(r) \/ AbandonJob(r) \/ ResultExpires(r) \/ Expire(r)
                             \/ ReaperSelect(r) \/ ReaperRead(r) \/ ReaperCrash(r)
      PROVE  [View!Next]_(View!vars)
  <2>1. UNCHANGED <<money, status>>
    BY <1>5 DEF CancelCrash, AbandonJob, ResultExpires, Expire, ReaperSelect, ReaperRead,
                ReaperCrash, runRow
  <2> QED
    BY <1>m, <2>1
<1>6. ASSUME NEW d \in Dispatchers, Dispatch(d) \/ DispatcherCrash(d)
      PROVE  [View!Next]_(View!vars)
  <2>1. UNCHANGED money /\ (UNCHANGED status \/ \E s : status' = [status EXCEPT ![drun[d]] = s])
    BY <1>6 DEF Dispatch, DispatchClaim, DispatchEnqueue, DispatchFails, DispatchRead,
                DispatchMark, DispatcherCrash, WriteStatus, runRow
  <2> QED
    BY <1>m, <1>q, <2>1
<1>7. ASSUME NEW w \in Workers, LeaseExpires(w)
      PROVE  [View!Next]_(View!vars)
  <2>1. UNCHANGED <<money, status>>
    BY <1>7 DEF LeaseExpires, runRow
  <2> QED
    BY <1>m, <2>1
<1> QED
  BY <1>1, <1>2, <1>3, <1>4, <1>5, <1>6, <1>7 DEF OtherStep, Reap

\* A worker settles what the skills it has passed cost.
LEMMA SettleView ==
    ASSUME AccountedInv, NEW w \in Workers, Settle(w), UNCHANGED operator
    PROVE  View!Next
<1>0. TypeOK /\ SequenceInv /\ WorkerTyped
  BY TypeParts DEF AccountedInv, SequencedInv, Typed
<1>1. /\ wpc[w] = "settle" /\ SettleRun(wrun[w], wtotal[w])
      /\ UNCHANGED <<status, checkpoint, stepCharge>>
  BY DEF Settle, runRow, steps
<1>2. PICK r \in Runs : r = wrun[w]
  BY <1>1 DEF AccountedInv, SequencedInv, Typed, HandsInv, WorkerInv
<1>3. wtotal[w] \in Credits /\ wstep[w] \in 1 .. Length + 1
  BY <1>0 DEF WorkerTyped
<1>4. Counted(r, wstep[w], wtotal[w])
  BY <1>0, <1>1, <1>2 DEF SequenceInv, WorkerSeq
<1>5. \E i \in StartedOf[r] \cup {0} : wtotal[w] = CostOf(stepCharge[r], i + 1)
  <2>1. PICK i : i = wstep[w] - 1
    OBVIOUS
  <2>2. i + 1 = wstep[w] /\ i \in 0 .. Length
    BY <1>3, <2>1, LengthAssumption
  <2>3. i # 0 => i \in Steps /\ i \in 1 .. wstep[w] - 1
    BY <2>1, <2>2, LengthAssumption DEF Steps
  <2>4. i \in StartedOf[r] \cup {0}
    BY <1>4, <2>3 DEF StartedOf, Counted, Prefix
  <2>5. wtotal[w] = CostOf(stepCharge[r], i + 1)
    BY <1>4, <2>2 DEF Counted
  <2> QED
    BY <2>4, <2>5
<1>6. DoubtfulOf' = DoubtfulOf
  BY <1>1, SameDoubts
<1> QED
  BY <1>0, <1>1, <1>2, <1>3, <1>5, <1>6, BillView

LEMMA WorkerView ==
    ASSUME AccountedInv, AccountedInv', NEW w \in Workers, WorkerStep(w)
    PROVE  [View!Next]_(View!vars)
<1>0. /\ TypeOK /\ status \in [Runs -> Statuses] /\ UNCHANGED operator
      /\ wpc[w] # "idle" => wrun[w] \in Runs
      /\ wpc[w] \in InLoop => wstep[w] \in Steps
  BY WorkerFrame DEF AccountedInv, SequencedInv, Typed, LifecycleTypeOK, HandsInv, WorkerInv
<1>s. UNCHANGED <<money, runRow, steps>> => [View!Next]_(View!vars)
  BY <1>0, StillView DEF money, vars, runRow, steps
<1>1. CASE (\E r \in Runs : TakeJob(w, r)) \/ JobRaises(w) \/ JobTimesOut(w) \/ WorkerCrash(w)
  BY <1>s, <1>1 DEF TakeJob, JobRaises, JobTimesOut, WorkerCrash
<1>2. CASE BeginSkips(w) \/ BeginWedges(w) \/ Check(w) \/ Prepare(w)
  BY <1>s, <1>2 DEF BeginSkips, BeginWedges, Check, Prepare
<1>3. CASE ProviderRaises(w) \/ SettleRaises(w) \/ DatabaseRaises(w) \/ Record(w) \/ Return(w)
  BY <1>s, <1>3 DEF ProviderRaises, SettleRaises, DatabaseRaises, Record, Return
<1>4. CASE BeginRuns(w) \/ Fail(w) \/ Block(w) \/ Finish(w)
  <2>1. /\ wrun[w] \in Runs /\ UNCHANGED <<reservation, checkpoint, stepCharge>>
        /\ \E s : status' = [status EXCEPT ![wrun[w]] = s]
    BY <1>0, <1>4 DEF BeginRuns, Fail, Block, Finish, WriteStatus, money, vars, steps
  <2>2. \A q \in Runs : q # wrun[w] => status'[q] = status[q]
    BY <1>0, <2>1
  <2>3. \A q \in Runs : q # wrun[w] => (q \in DoubtfulOf' <=> q \in DoubtfulOf)
    BY <1>0, <2>1, <2>2, StatusDoubts
  <2> QED
    BY <2>1, <2>3, QuietView
<1>5. CASE Insert(w)
  <2>1. CASE Claims(w, wrun[w], wstep[w])
    <3>1. wrun[w] \in Runs /\ wstep[w] \in Steps /\ UNCHANGED <<reservation, status>>
      BY <1>0, <1>5 DEF Insert, InLoop, money, vars, runRow
    <3> QED
      BY <1>0, <2>1, <3>1, ClaimView
  <2>2. CASE UNCHANGED steps
    BY <1>s, <1>5, <2>2 DEF Insert
  <2> QED
    BY <1>5, <2>1, <2>2 DEF Insert, Unclaimed, Claims
<1>6. ASSUME NEW c \in Charges, ProviderReturns(w, c)
      PROVE  [View!Next]_(View!vars)
  <2>1. wrun[w] \in Runs /\ wstep[w] \in Steps /\ UNCHANGED <<reservation, status>>
    BY <1>0, <1>6 DEF ProviderReturns, InLoop, money, vars, runRow
  <2>2. Returns(w, wrun[w], wstep[w], c)
    BY <1>6 DEF ProviderReturns, Returns
  <2> QED
    BY <1>0, <2>1, <2>2, ReturnView
<1>7. CASE Settle(w)
  BY <1>0, <1>7, SettleView
<1>8. CASE RefundFailed(w)
  <2>1. /\ wrun[w] \in Runs /\ UNCHANGED <<runRow, steps>>
        /\ RefundRun(wrun[w]) \/ UNCHANGED money
    BY <1>0, <1>8 DEF RefundFailed, RefundIfOpen
  <2>2. UNCHANGED <<checkpoint, stepCharge>> /\ DoubtfulOf' = DoubtfulOf
    BY <1>0, <2>1, SameDoubts DEF runRow, steps
  <2> QED
    BY <1>0, <1>s, <2>1, <2>2, ReleaseView
<1> QED
  BY <1>1, <1>2, <1>3, <1>4, <1>5, <1>6, <1>7, <1>8 DEF WorkerStep, ExecuteRun

LEMMA OperatorView ==
    ASSUME AccountedInv, AccountedInv', NEW o \in Operators, Reconcile(o)
    PROVE  [View!Next]_(View!vars)
<1>0. /\ TypeOK /\ status \in [Runs -> Statuses] /\ OperatorTyped
      /\ opc[o] # "idle" => orun[o] \in Runs
      /\ UNCHANGED <<checkpoint, stepCharge>>
      /\ \A p \in Operators \ {o} : opc'[p] = opc[p] /\ orun'[p] = orun[p]
  <2>1. UNCHANGED steps
    BY OperatorFrame
  <2> QED
    BY <2>1, OperatorAlone DEF AccountedInv, SequencedInv, Typed, LifecycleTypeOK, HandsInv,
       OperatorInv, OperatorTyped, steps
<1>1. ASSUME NEW r \in Runs, OperatorChecks(o, r)
      PROVE  [View!Next]_(View!vars)
  <2>1. /\ UNCHANGED <<reservation, status>> /\ opc[o] = "idle" /\ orun'[o] = r
    BY <1>0, <1>1 DEF OperatorChecks, OperatorTyped, money, vars, runRow
  <2>2. \A q \in Runs : q # r => (q \in DoubtfulOf' <=> q \in DoubtfulOf)
    BY <1>0, <2>1, OperatorDoubts
  <2> QED
    BY <1>0, <2>1, <2>2, QuietView
<1>2. CASE OperatorFails(o) \/ OperatorPartial(o) \/ OperatorAborts(o)
  <2>1. PICK r \in Runs : r = orun[o]
    BY <1>0, <1>2 DEF OperatorFails, OperatorPartial, OperatorAborts
  <2>2. /\ reservation' = reservation /\ opc'[o] = "idle"
        /\ status' = status \/ \E s : status' = [status EXCEPT ![r] = s]
    BY <1>0, <1>2, <2>1 DEF OperatorFails, OperatorPartial, OperatorAborts, OperatorDone,
       OperatorTyped, WriteStatus, money, vars, runRow
  <2>3. \A q \in Runs : q # r => status'[q] = status[q]
    BY <1>0, <2>2
  <2>4. \A q \in Runs : q # r => (q \in DoubtfulOf' <=> q \in DoubtfulOf)
    BY <1>0, <2>1, <2>2, <2>3, OperatorDoubts
  <2> QED
    BY <1>0, <2>2, <2>4, QuietView
<1>3. ASSUME OperatorRefunds(o) \/ \E c \in Credits : OperatorSettles(o, c)
      PROVE  [View!Next]_(View!vars)
  <2>1. PICK r \in Runs : r = orun[o]
    BY <1>0, <1>3 DEF OperatorRefunds, OperatorSettles
  <2>2. /\ opc[o] = "act" /\ opc'[o] \in {"fail", "partial"} /\ status' = status
        /\ \/ RefundIfOpen(r)
           \/ \E c \in Credits : SettleRun(r, c)
    BY <1>0, <1>3, <2>1 DEF OperatorRefunds, OperatorSettles, OperatorAt, OperatorTyped, runRow
  <2>3. \A q \in Runs : q # r => (q \in DoubtfulOf' <=> q \in DoubtfulOf)
    BY <1>0, <2>1, <2>2, OperatorDoubts
  <2>4. r \in DoubtfulOf
    BY <2>1, <2>2 DEF DoubtfulOf
  <2>5. DoubtfulOf' \in {DoubtfulOf, DoubtfulOf \ {r}}
    <3>1. DoubtfulOf \cup {r} = DoubtfulOf
      BY <2>4
    <3> QED
      BY <2>3, <3>1, OneDoubt
  <2>6. CASE RefundRun(r)
    BY <1>0, <2>5, <2>6, ReleaseView
  <2>7. CASE UNCHANGED money
    <3>1. reservation' = reservation
      BY <2>7 DEF money, vars
    <3> QED
      BY <1>0, <2>3, <3>1, QuietView
  <2>8. ASSUME NEW c \in Credits, SettleRun(r, c)
        PROVE  View!Next
    BY <1>0, <2>4, <2>5, <2>8, BillView
  <2> QED
    BY <2>2, <2>6, <2>7, <2>8 DEF RefundIfOpen
<1> QED
  BY <1>1, <1>2, <1>3 DEF Reconcile

LEMMA InitView == LifecycleInit => View!Init
<1> SUFFICES ASSUME LifecycleInit PROVE View!Init
  OBVIOUS
<1>1. /\ reservation = [r \in Runs |-> [status |-> "none", amount |-> 0, settled_amount |-> 0]]
      /\ status = [r \in Runs |-> "none"] /\ opc = [o \in Operators |-> "idle"]
      /\ checkpoint = [r \in Runs |-> [i \in Steps |-> "none"]]
      /\ stepCharge = [r \in Runs |-> [i \in Steps |-> 0]]
  BY DEF LifecycleInit, Init
<1>2. AccountOf = [r \in Runs |-> "none"]
  <2>1. \A r \in Runs : StateOf(reservation[r].status) = "none"
    BY <1>1, States
  <2> QED
    BY <2>1, Accounts
<1>3. AmountOf = [r \in Runs |-> 0] /\ BillOf = [r \in Runs |-> 0]
  BY <1>1 DEF AmountOf, BillOf
<1>4. StartedOf = [r \in Runs |-> {}]
  <2>1. \A r \in Runs : {i \in Steps : checkpoint[r][i] # "none"} = {}
    BY <1>1
  <2> QED
    BY <2>1 DEF StartedOf
<1>5. DoubtfulOf = {}
  BY <1>1 DEF DoubtfulOf
<1> QED
  BY <1>1, <1>2, <1>3, <1>4, <1>5
  DEF View!Init, View!Steps, Steps, AccountOf, AmountOf, BillOf, StartedOf, DoubtfulOf

\* A run's whole life is one the tenant was promised: credits are held before
\* the first skill is executed, each skill is executed at most once, in order
\* and only while credits of the hold are left, and the hold ends once, billed what a prefix of
\* the skills cost, released, or, if the run was blocked, as an operator
\* decides (jobs.py:26-159; api.py:249-274; cli.py:38-55).
THEOREM LifecycleImplementsPaidRun == LifecycleSpec => PaidRunSpec
<1>1. LifecycleSpec => []TypeOK
  <2>1. AccountedInv => TypeOK
    BY DEF AccountedInv, SequencedInv, Typed, LifecycleTypeOK
  <2> QED
    BY <2>1, AlwaysAccounted, PTL
<1>2. LifecycleSpec => []RunLedgerBalanced
  BY LifecycleImplementsBilling, LedgerTellsRuns, PTL
<1>3. TypeOK /\ RunLedgerBalanced => Unbilled
  BY BalancedRuns, NoClosingRow DEF Unbilled
<1>4. LifecycleSpec => []Unbilled
  BY <1>1, <1>2, <1>3, PTL
<1>5. ASSUME AccountedInv, AccountedInv', Unbilled, [LifecycleNext]_lvars
      PROVE  [View!Next]_(View!vars)
  <2>1. UNCHANGED lvars => UNCHANGED View!vars
    BY StillView DEF lvars, money, vars, runRow, steps, control
  <2> QED
    BY <1>5, <2>1, StepCases, OtherView, WorkerView, OperatorView
<1> QED
  BY <1>4, <1>5, AlwaysAccounted, InitView, PTL DEF LifecycleSpec, PaidRunSpec, View!Spec

-----------------------------------------------------------------------------
(* Calm: while every job is executed by one worker, PASS is the last word. *)

\* No worker is killed or stalled, and no job times out or ends because a
\* transaction outside the try raised.
Calm == Faults \cap {"worker", "stall", "timeout", "job"} = {}

Working == {"started", "check", "prepare", "insert", "await", "settle", "finish", "block"}
Executing == Working \cup {"finished", "refund", "fail"}

InExecution(r) == \E w \in Workers : wrun[w] = r /\ wpc[w] \in Executing

\* A job is with one worker, until its coroutine ends.
DeliveryInv ==
    /\ \A w \in Workers : wpc[w] # "idle" => job[wrun[w]] = "active" /\ wpc[w] # "wedged"
    /\ \A v, w \in Workers :
          v # w /\ wpc[v] # "idle" /\ wpc[w] # "idle" => wrun[v] # wrun[w]

\* The status of a run with its worker: a handler may also find the outcome the
\* worker has written.
Ongoing == {"RUNNING", "CANCEL_REQUESTED", "FAIL"}

WorkedOn(w) ==
    /\ wpc[w] \in Working => status[wrun[w]] \in Ongoing
    /\ wpc[w] = "finished" => status[wrun[w]] \in {"FAIL", woutcome[w]}
    /\ wpc[w] \in {"refund", "fail"} => status[wrun[w]] \in Ongoing \cup {woutcome[w]}

\* The status of a run says whether it is executed, or may be.
ExecutionInv ==
    /\ \A r \in Runs : status[r] \in {"RUNNING", "CANCEL_REQUESTED"} => InExecution(r)
    /\ \A w \in Workers : wpc[w] \in Executing => WorkedOn(w)
    /\ \A o \in Operators : opc[o] # "idle" =>
          /\ status[orun[o]] \in {"BLOCKED", "FAIL", "PARTIAL"}
          /\ ~InExecution(orun[o])

\* A dispatcher that has still to write QUEUED is the first to mark the run's
\* event.
MarkInv ==
    /\ \A d \in Dispatchers : dpc[d] = "mark" =>
          IF dseen[d] = "PENDING_DISPATCH" THEN outbox[drun[d]] # "dispatched"
                                           ELSE status[drun[d]] # "PENDING_DISPATCH"
    /\ \A d, e \in Dispatchers :
          d # e /\ dpc[d] = "mark" /\ dpc[e] = "mark" => drun[d] # drun[e]
    /\ \A r \in Runs : outbox[r] = "dispatched" => status[r] # "PENDING_DISPATCH"

\* The reaper has still to write FAIL only where it refunded.
RefundInv ==
    \A r \in Runs :
        /\ reaper[r] = "fail" => reservation[r].status = "refunded"
        /\ reaper[r] = "read" => reservation[r].status \in {"settled", "refunded"}
        /\ reservation[r].status = "settled" =>
              outbox[r] = "dispatched" /\ status[r] \notin {"PENDING_DISPATCH", "QUEUED"}

CalmInv == /\ AccountedInv /\ DispatchedInv
           /\ DeliveryInv /\ ExecutionInv /\ MarkInv /\ RefundInv

LEMMA CalmParts ==
    ASSUME CalmInv
    PROVE  /\ Typed /\ KnownInv /\ DispatchedInv /\ PaidInv
           /\ DeliveryInv /\ ExecutionInv /\ MarkInv /\ RefundInv
           /\ TypeOK /\ WorkerTyped /\ RunRowTyped /\ QueueTyped /\ OperatorTyped
           /\ \A w \in Workers : wpc[w] # "idle" => wrun[w] \in Runs
           /\ \A o \in Operators : opc[o] # "idle" => orun[o] \in Runs
           /\ \A d \in Dispatchers : dpc[d] # "idle" => drun[d] \in Runs
<1>1. Typed /\ KnownInv /\ PaidInv
  BY DEF CalmInv, AccountedInv, SequencedInv
<1> QED
  BY <1>1, TypeParts DEF CalmInv, Typed, HandsInv, WorkerInv, OperatorInv, DispatcherInv

\* What the API, the dispatchers and the reaper may write on a run row.
OtherWrites(r) ==
    \/ status'[r] = status[r]
    \/ ~Known(r) /\ status'[r] = "PENDING_DISPATCH" /\ outbox'[r] = "pending"
    \/ status[r] \in {"PENDING_DISPATCH", "QUEUED"} /\ status'[r] = "CANCELLED"
    \/ /\ status[r] \in {"RUNNING", "CANCEL_REQUESTED"}
       /\ status'[r] = "CANCEL_REQUESTED"
    \/ reaper[r] = "fail" /\ status'[r] = "FAIL"
    \/ /\ status'[r] = "QUEUED"
       /\ \E d \in Dispatchers :
             dpc[d] = "mark" /\ dseen[d] = "PENDING_DISPATCH" /\ drun[d] = r

LEMMA OtherStatus ==
    ASSUME Typed, OtherStep, NEW r \in Runs
    PROVE  /\ OtherWrites(r)
           /\ reservation'[r].status = "settled" => reservation[r].status = "settled"
<1>0. RunRowTyped /\ QueueTyped /\ TypeOK
  BY TypeParts DEF Typed
<1> DEFINE Goal == /\ OtherWrites(r)
                   /\ reservation'[r].status = "settled" => reservation[r].status = "settled"
<1>f. ASSUME NEW q \in Runs, RefundIfOpen(q)
      PROVE  reservation'[r].status = "settled" => reservation[r].status = "settled"
  BY <1>0, <1>f DEF RefundIfOpen, RefundRun, money, vars, TypeOK
<1>1. ASSUME NEW e \in Events, ReceivePayment(e)
      PROVE  Goal
  BY <1>1 DEF ReceivePayment, ProcessVerifiedPayment, runRow, OtherWrites
<1>2. ASSUME NEW q \in Runs, NEW a \in Credits, CreateRun(q, a)
      PROVE  Goal
  <2>1. /\ status' = [status EXCEPT ![q] = "PENDING_DISPATCH"]
        /\ outbox' = [outbox EXCEPT ![q] = "pending"]
        /\ reservation[q].status = "none"
        /\ reservation' = [reservation EXCEPT ![q] =
               [status |-> "reserved", amount |-> a, settled_amount |-> 0]]
    BY <1>2 DEF CreateRun, WriteStatus, Reserve
  <2>2. CASE q = r
    <3>1. ~Known(r) /\ status'[r] = "PENDING_DISPATCH" /\ outbox'[r] = "pending"
          /\ reservation'[r].status = "reserved"
      BY <1>0, <2>1, <2>2 DEF Known, RunRowTyped, QueueTyped, TypeOK
    <3> QED
      BY <3>1 DEF OtherWrites
  <2>3. CASE q # r
    BY <1>0, <2>1, <2>3 DEF RunRowTyped, TypeOK, OtherWrites
  <2> QED
    BY <2>2, <2>3
<1>3. ASSUME NEW q \in Runs, CancelPending(q)
      PROVE  Goal
  BY <1>0, <1>3 DEF CancelPending, RunRowTyped, money, vars, OtherWrites
<1>4. ASSUME NEW q \in Runs, CancelActive(q)
      PROVE  Goal
  BY <1>0, <1>4 DEF CancelActive, RunRowTyped, money, vars, OtherWrites
<1>5. ASSUME NEW q \in Runs, CancelRefund(q) \/ ReaperRefund(q)
      PROVE  Goal
  BY <1>5, <1>f DEF CancelRefund, ReaperRefund, runRow, OtherWrites
<1>6. ASSUME UNCHANGED <<money, runRow>>
      PROVE  Goal
  BY <1>6 DEF money, vars, runRow, OtherWrites
<1>7. ASSUME NEW q \in Runs, \/ CancelCrash(q) \/ AbandonJob(q) \/ ResultExpires(q) \/ Expire(q)
                             \/ ReaperSelect(q) \/ ReaperRead(q) \/ ReaperCrash(q)
      PROVE  Goal
  <2>1. UNCHANGED <<money, runRow>>
    BY <1>7 DEF CancelCrash, AbandonJob, ResultExpires, Expire, ReaperSelect, ReaperRead,
                ReaperCrash
  <2> QED
    BY <1>6, <2>1
<1>8. ASSUME NEW q \in Runs, ReaperFail(q)
      PROVE  Goal
  BY <1>0, <1>8 DEF ReaperFail, WriteStatus, RunRowTyped, money, vars, OtherWrites
<1>9. ASSUME NEW d \in Dispatchers, \/ \E q \in Runs : DispatchClaim(d, q)
                                    \/ DispatchEnqueue(d) \/ DispatchFails(d) \/ DispatchRead(d)
                                    \/ DispatcherCrash(d)
      PROVE  Goal
  <2>1. UNCHANGED <<money, runRow>>
    BY <1>9 DEF DispatchClaim, DispatchEnqueue, DispatchFails, DispatchRead, DispatcherCrash
  <2> QED
    BY <1>6, <2>1
<1>10. ASSUME NEW d \in Dispatchers, DispatchMark(d)
       PROVE  Goal
  <2>1. /\ dpc[d] = "mark"
        /\ \/ status' = status
           \/ dseen[d] = "PENDING_DISPATCH" /\ status' = [status EXCEPT ![drun[d]] = "QUEUED"]
        /\ UNCHANGED money
    BY <1>10 DEF DispatchMark, WriteStatus, Undispatched, runRow
  <2>2. reservation' = reservation
    BY <2>1 DEF money, vars
  <2>3. CASE drun[d] = r /\ dseen[d] = "PENDING_DISPATCH"
    <3>1. status'[r] = status[r] \/ status'[r] = "QUEUED"
      BY <1>0, <2>1, <2>3 DEF RunRowTyped
    <3> QED
      BY <2>1, <2>2, <2>3, <3>1 DEF OtherWrites
  <2>4. CASE ~(drun[d] = r /\ dseen[d] = "PENDING_DISPATCH")
    <3>1. status'[r] = status[r]
      BY <1>0, <2>1, <2>4 DEF RunRowTyped
    <3> QED
      BY <2>2, <3>1 DEF OtherWrites
  <2> QED
    BY <2>3, <2>4
<1>11. ASSUME NEW w \in Workers, LeaseExpires(w)
       PROVE  Goal
  BY <1>6, <1>11 DEF LeaseExpires
<1> HIDE DEF Goal
<1>12. Goal
  BY <1>1, <1>2, <1>3, <1>4, <1>5, <1>7, <1>8, <1>9, <1>10, <1>11
     DEF OtherStep, Dispatch, Reap
<1> QED
  BY <1>12 DEF Goal

\* The moves of a worker that nothing interrupts, and what each writes on the
\* row of its run.
WorkerMoves(w) ==
    \/ /\ wpc[w] = "idle" /\ wpc'[w] = "begin"
       /\ status' = status
    \/ /\ wpc[w] = "begin" /\ wpc'[w] = "idle"
       /\ status' = status
    \/ /\ wpc[w] = "begin" /\ wpc'[w] = "started" /\ wrun'[w] = wrun[w]
       /\ status[wrun[w]] \in Executable /\ status'[wrun[w]] = "RUNNING"
    \/ /\ wpc[w] \in Working /\ wpc'[w] \in Working \cup {"refund"} /\ wrun'[w] = wrun[w]
       /\ status' = status
    \/ /\ wpc[w] = "finish" /\ wpc'[w] = "finished" /\ wrun'[w] = wrun[w]
       /\ woutcome'[w] = woutcome[w] /\ status'[wrun[w]] = woutcome[w]
    \/ /\ \/ wpc[w] = "finished" /\ wpc'[w] = "refund"
          \/ wpc[w] = "refund" /\ wpc'[w] = "fail"
       /\ wrun'[w] = wrun[w] /\ woutcome'[w] = woutcome[w] /\ status' = status
    \/ /\ wpc[w] = "finished" /\ wpc'[w] = "done" /\ wrun'[w] = wrun[w]
       /\ status' = status
    \/ /\ wpc[w] = "fail" /\ wpc'[w] = "done" /\ wrun'[w] = wrun[w]
       /\ status'[wrun[w]] = "FAIL"
    \/ /\ wpc[w] = "block" /\ wpc'[w] = "done" /\ wrun'[w] = wrun[w]
       /\ status'[wrun[w]] = "BLOCKED"
    \/ /\ wpc[w] = "done" /\ wpc'[w] = "idle"
       /\ status' = status

LEMMA WorkerStatus ==
    ASSUME Calm, CalmInv, NEW w \in Workers, WorkerStep(w)
    PROVE  /\ WorkerMoves(w)
           /\ \A r \in Runs : reservation'[r].status = "settled" =>
                 reservation[r].status = "settled" \/ (wpc[w] = "settle" /\ wrun[w] = r)
<1>0. /\ TypeOK /\ WorkerTyped /\ RunRowTyped
      /\ wpc[w] # "idle" => wrun[w] \in Runs
  BY CalmParts
<1> DEFINE Moves == WorkerMoves(w)
           Bills == \A r \in Runs : reservation'[r].status = "settled" =>
                         reservation[r].status = "settled" \/ (wpc[w] = "settle" /\ wrun[w] = r)
<1>m. UNCHANGED money => Bills
  BY DEF money, vars
<1>1. ASSUME NEW r \in Runs, TakeJob(w, r)
      PROVE  Moves /\ Bills
  BY <1>0, <1>m, <1>1 DEF TakeJob, Active, WorkerTyped, runRow, WorkerMoves
<1>2. ~JobTimesOut(w) /\ ~WorkerCrash(w) /\ ~JobRaises(w)
  BY DEF Calm, JobTimesOut, WorkerCrash, JobRaises
<1>3. CASE BeginSkips(w)
  BY <1>0, <1>m, <1>3 DEF BeginSkips, JobEnds, WorkerIdle, WorkerTyped, runRow, WorkerMoves
<1>4. CASE BeginRuns(w)
  <2>1. wrun[w] \in Runs
    BY <1>0, <1>4 DEF BeginRuns
  <2> QED
    BY <1>0, <1>m, <1>4, <2>1 DEF BeginRuns, WriteStatus, WorkerAt, WorkerTyped, RunRowTyped,
       WorkerMoves
<1>5. ~BeginWedges(w)
  <2> SUFFICES ASSUME BeginWedges(w) PROVE FALSE
    OBVIOUS
  <2>1. wpc[w] = "begin" /\ status[wrun[w]] = "RUNNING" /\ wrun[w] \in Runs
    BY <1>0 DEF BeginWedges
  <2>2. PICK v \in Workers : wrun[v] = wrun[w] /\ wpc[v] \in Executing
    BY <2>1, CalmParts DEF ExecutionInv, InExecution
  <2>3. v # w /\ wpc[v] # "idle"
    BY <2>1, <2>2 DEF Executing, Working
  <2> QED
    BY <2>1, <2>2, <2>3, CalmParts DEF DeliveryInv
<1>6. CASE Check(w)
  BY <1>0, <1>m, <1>6 DEF Check, WorkerAt, WorkerTyped, runRow, WorkerMoves, Working
<1>7. CASE Prepare(w)
  BY <1>0, <1>m, <1>7 DEF Prepare, Account, WorkerAt, WorkerTyped, runRow, WorkerMoves, Working
<1>8. CASE Insert(w)
  BY <1>0, <1>m, <1>8 DEF Insert, WorkerAt, WorkerTyped, runRow, WorkerMoves, Working
<1>9. ASSUME NEW c \in Charges, ProviderReturns(w, c)
      PROVE  Moves /\ Bills
  BY <1>0, <1>m, <1>9 DEF ProviderReturns, Account, WorkerAt, WorkerTyped, runRow, WorkerMoves,
     Working
<1>10. CASE ProviderRaises(w) \/ SettleRaises(w)
  BY <1>0, <1>m, <1>10 DEF ProviderRaises, SettleRaises, WorkerAt, WorkerTyped, runRow,
     WorkerMoves, Working
<1>11. CASE Settle(w)
  <2>1. wrun[w] \in Runs /\ wpc[w] = "settle"
    BY <1>0, <1>11 DEF Settle
  <2>2. Bills
    BY <1>0, <1>11, <2>1 DEF Settle, SettleRun, TypeOK
  <2>3. Moves
    BY <1>0, <1>11 DEF Settle, WorkerAt, WorkerTyped, runRow, WorkerMoves, Working
  <2> QED
    BY <2>2, <2>3
<1>12. CASE Finish(w)
  <2>1. wrun[w] \in Runs
    BY <1>0, <1>12 DEF Finish
  <2> QED
    BY <1>0, <1>m, <1>12, <2>1 DEF Finish, WorkerAt, WorkerTyped, RunRowTyped, WorkerMoves,
       Working
<1>13. CASE RefundFailed(w)
  <2>1. wrun[w] \in Runs
    BY <1>0, <1>13 DEF RefundFailed
  <2>2. Bills
    BY <1>0, <1>m, <1>13, <2>1 DEF RefundFailed, RefundIfOpen, RefundRun, TypeOK
  <2>3. Moves
    BY <1>0, <1>13 DEF RefundFailed, WorkerAt, WorkerTyped, runRow, WorkerMoves, Working
  <2> QED
    BY <2>2, <2>3
<1>14. CASE Fail(w) \/ Block(w)
  <2>1. wrun[w] \in Runs
    BY <1>0, <1>14 DEF Fail, Block
  <2> QED
    BY <1>0, <1>m, <1>14, <2>1 DEF Fail, Block, WriteStatus, WorkerAt, WorkerTyped, RunRowTyped,
       WorkerMoves, Working
<1>15. CASE Return(w)
  BY <1>0, <1>m, <1>15 DEF Return, JobEnds, WorkerIdle, WorkerTyped, runRow, WorkerMoves
<1>16. CASE Record(w)
  BY <1>0, <1>m, <1>16 DEF Record, WorkerAt, WorkerTyped, runRow, WorkerMoves, Working
<1>17. CASE DatabaseRaises(w)
  BY <1>0, <1>m, <1>17 DEF DatabaseRaises, InsideTry, WorkerAt, WorkerTyped, runRow,
     WorkerMoves, Working
<1> QED
  BY <1>1, <1>2, <1>3, <1>4, <1>5, <1>6, <1>7, <1>8, <1>9, <1>10, <1>11, <1>12, <1>13, <1>14,
     <1>15, <1>16, <1>17 DEF WorkerStep, ExecuteRun

-----------------------------------------------------------------------------
LEMMA OperatorStatus ==
    ASSUME Typed, NEW o \in Operators, Reconcile(o)
    PROVE  /\ opc[o] = "idle" => status' = status
           /\ opc[o] # "idle" => \/ status'[orun[o]] = status[orun[o]]
                                 \/ status'[orun[o]] \in {"FAIL", "PARTIAL"}
           /\ \A r \in Runs : reservation'[r].status = "settled" =>
                 reservation[r].status = "settled" \/ (opc[o] # "idle" /\ orun[o] = r)
<1>0. /\ TypeOK /\ RunRowTyped
      /\ opc[o] # "idle" => orun[o] \in Runs
  BY TypeParts DEF Typed, HandsInv, OperatorInv
<1>1. CASE (\E r \in Runs : OperatorChecks(o, r)) \/ OperatorAborts(o)
  BY <1>1 DEF OperatorChecks, OperatorAborts, runRow, money, vars
<1>2. CASE OperatorRefunds(o)
  <2>1. orun[o] \in Runs /\ opc[o] # "idle" /\ status' = status
    BY <1>0, <1>2 DEF OperatorRefunds, runRow
  <2>2. \A r \in Runs : reservation'[r].status = "settled" => reservation[r].status = "settled"
    BY <1>0, <1>2, <2>1 DEF OperatorRefunds, RefundIfOpen, RefundRun, TypeOK, money, vars
  <2> QED
    BY <2>1, <2>2
<1>3. ASSUME NEW c \in Credits, OperatorSettles(o, c)
      PROVE  /\ opc[o] # "idle" /\ status' = status
             /\ \A r \in Runs : reservation'[r].status = "settled" =>
                   reservation[r].status = "settled" \/ orun[o] = r
  <2>1. orun[o] \in Runs /\ opc[o] # "idle" /\ status' = status
    BY <1>0, <1>3 DEF OperatorSettles, runRow
  <2>2. \A r \in Runs : r # orun[o] => reservation'[r] = reservation[r]
    BY <1>0, <1>3, <2>1 DEF OperatorSettles, SettleRun, TypeOK
  <2> QED
    BY <2>1, <2>2
<1>4. CASE OperatorFails(o)
  <2>1. orun[o] \in Runs /\ opc[o] # "idle"
    BY <1>0, <1>4 DEF OperatorFails
  <2> QED
    BY <1>0, <1>4, <2>1 DEF OperatorFails, WriteStatus, RunRowTyped, money, vars
<1>5. CASE OperatorPartial(o)
  <2>1. orun[o] \in Runs /\ opc[o] # "idle"
    BY <1>0, <1>5 DEF OperatorPartial
  <2> QED
    BY <1>0, <1>5, <2>1 DEF OperatorPartial, RunRowTyped, money, vars
<1> QED
  BY <1>1, <1>2, <1>3, <1>4, <1>5 DEF Reconcile

-----------------------------------------------------------------------------
(* Deliveries.                                                             *)

LEMMA OtherJobs ==
    ASSUME Calm, CalmInv, OtherStep, NEW r \in Runs, job[r] = "active"
    PROVE  job'[r] = "active"
<1>0. QueueTyped
  BY CalmParts
<1>1. CASE UNCHANGED job
  BY <1>1
<1>2. ASSUME NEW q \in Runs, AbandonJob(q) \/ ResultExpires(q)
      PROVE  job'[r] = "active"
  BY <1>0, <1>2 DEF AbandonJob, ResultExpires, QueueTyped
<1>3. ASSUME NEW d \in Dispatchers, DispatchEnqueue(d) \/ DispatchFails(d)
      PROVE  job'[r] = "active"
  BY <1>0, <1>3 DEF DispatchEnqueue, DispatchFails, Enqueued, QueueTyped
<1>4. ASSUME NEW w \in Workers, LeaseExpires(w)
      PROVE  FALSE
  BY <1>4, CalmParts DEF LeaseExpires, Active, Calm, DeliveryInv
<1>5. ASSUME NEW d \in Dispatchers, \/ \E q \in Runs : DispatchClaim(d, q)
                                    \/ DispatchRead(d) \/ DispatchMark(d) \/ DispatcherCrash(d)
      PROVE  UNCHANGED job
  BY <1>5 DEF DispatchClaim, DispatchRead, DispatchMark, DispatcherCrash, queue
<1>6. ASSUME NEW q \in Runs, Reap(q) \/ ReaperCrash(q)
      PROVE  UNCHANGED job
  BY <1>6 DEF Reap, ReaperSelect, ReaperRefund, ReaperRead, ReaperFail, ReaperCrash, queue
<1>7. ASSUME NEW q \in Runs,
             \/ \E a \in Credits : CreateRun(q, a)
             \/ CancelPending(q) \/ CancelActive(q) \/ CancelRefund(q) \/ CancelCrash(q)
             \/ Expire(q)
      PROVE  UNCHANGED job
  BY <1>7 DEF CreateRun, CancelPending, CancelActive, CancelRefund, CancelCrash, Expire, queue
<1>8. ASSUME NEW e \in Events, ReceivePayment(e)
      PROVE  UNCHANGED job
  BY <1>8 DEF ReceivePayment, queue
<1> QED
  BY <1>1, <1>2, <1>3, <1>4, <1>5, <1>6, <1>7, <1>8 DEF OtherStep, Dispatch

LEMMA WorkerJobs ==
    ASSUME Calm, CalmInv, NEW w \in Workers, WorkerStep(w)
    PROVE  /\ \A r \in Runs : r # wrun[w] /\ job[r] = "active" => job'[r] = "active"
           /\ wpc'[w] # "idle" => /\ job'[wrun'[w]] = "active"
                                  /\ wpc[w] # "idle" \/ job[wrun'[w]] = "queued"
<1>0. /\ WorkerTyped /\ QueueTyped
      /\ wpc[w] # "idle" => wrun[w] \in Runs /\ job[wrun[w]] = "active"
  BY CalmParts DEF DeliveryInv
<1>1. ASSUME NEW r \in Runs, TakeJob(w, r)
      PROVE  /\ \A q \in Runs : job[q] = "active" => job'[q] = "active"
             /\ job'[wrun'[w]] = "active" /\ job[wrun'[w]] = "queued"
  BY <1>0, <1>1 DEF TakeJob, WorkerTyped, QueueTyped
<1>2. ~JobTimesOut(w) /\ ~WorkerCrash(w) /\ ~JobRaises(w)
  BY DEF Calm, JobTimesOut, WorkerCrash, JobRaises
<1>3. CASE BeginSkips(w) \/ Return(w)
  BY <1>0, <1>3 DEF BeginSkips, Return, JobEnds, WorkerIdle, WorkerTyped, QueueTyped
<1>4. ASSUME job' = job, wpc[w] # "idle", wrun' = wrun
      PROVE  /\ \A r \in Runs : r # wrun[w] /\ job[r] = "active" => job'[r] = "active"
             /\ wpc'[w] # "idle" => /\ job'[wrun'[w]] = "active"
                                    /\ wpc[w] # "idle" \/ job[wrun'[w]] = "queued"
  BY <1>0, <1>4
<1>5. ASSUME BeginRuns(w) \/ BeginWedges(w) \/ Check(w) \/ Prepare(w) \/ Insert(w)
      PROVE  job' = job /\ wpc[w] # "idle" /\ wrun' = wrun
  BY <1>5 DEF BeginRuns, BeginWedges, Check, Prepare, Insert, Account, WorkerAt, queue
<1>6. ASSUME (\E c \in Charges : ProviderReturns(w, c)) \/ ProviderRaises(w) \/ Settle(w)
             \/ SettleRaises(w)
      PROVE  job' = job /\ wpc[w] # "idle" /\ wrun' = wrun
  BY <1>6 DEF ProviderReturns, ProviderRaises, Settle, SettleRaises, Account, WorkerAt, queue
<1>7. ASSUME Finish(w) \/ RefundFailed(w) \/ Fail(w) \/ Block(w)
      PROVE  job' = job /\ wpc[w] # "idle" /\ wrun' = wrun
  BY <1>7 DEF Finish, RefundFailed, Fail, Block, WorkerAt, queue
<1>8. ASSUME Record(w) \/ DatabaseRaises(w)
      PROVE  job' = job /\ wpc[w] # "idle" /\ wrun' = wrun
  BY <1>8, OnlyMoves DEF WorkerAt, queue, InsideTry
<1> QED
  BY <1>1, <1>2, <1>3, <1>4, <1>5, <1>6, <1>7, <1>8 DEF WorkerStep, ExecuteRun

LEMMA DeliveryStep ==
    ASSUME Calm, CalmInv, [LifecycleNext]_lvars
    PROVE  DeliveryInv'
<1>0. DeliveryInv /\ \A w \in Workers : wpc[w] # "idle" => wrun[w] \in Runs
  BY CalmParts
<1>1. ASSUME OtherStep
      PROVE  DeliveryInv'
  <2>1. wpc' = wpc /\ wrun' = wrun
    BY <1>1, OtherFrame DEF worker
  <2> QED
    BY <1>0, <1>1, <2>1, OtherJobs DEF DeliveryInv
<1>2. ASSUME NEW w \in Workers, WorkerStep(w)
      PROVE  DeliveryInv'
  <2>1. /\ \A v \in Workers \ {w} : wpc'[v] = wpc[v] /\ wrun'[v] = wrun[v]
        /\ \/ wpc'[w] = "idle"
           \/ wpc[w] # "idle" /\ wrun'[w] = wrun[w]
           \/ wpc'[w] = "begin" /\ job[wrun'[w]] = "queued"
    BY <1>2, CalmParts, WorkerAlone
  <2>2. /\ \A r \in Runs : r # wrun[w] /\ job[r] = "active" => job'[r] = "active"
        /\ wpc'[w] # "idle" => job'[wrun'[w]] = "active"
        /\ wpc'[w] # "idle" /\ wpc[w] = "idle" => job[wrun'[w]] = "queued"
    BY <1>2, WorkerJobs
  <2>3. wpc'[w] # "wedged"
    BY <1>2, WorkerStatus DEF WorkerMoves, Working
  <2>4. ASSUME NEW v \in Workers \ {w}, wpc[v] # "idle"
        PROVE  job'[wrun[v]] = "active" \/ wrun[v] = wrun[w]
    BY <1>0, <2>2, <2>4 DEF DeliveryInv
  <2>5. ASSUME NEW v \in Workers \ {w}, wpc[v] # "idle", wpc'[w] # "idle"
        PROVE  wrun[v] # wrun'[w]
    BY <1>0, <2>1, <2>2, <2>5 DEF DeliveryInv
  <2>6. ASSUME NEW v \in Workers \ {w}, wpc[v] # "idle"
        PROVE  job'[wrun[v]] = "active"
    <3>1. CASE wpc[w] # "idle"
      BY <1>0, <2>4, <2>6, <3>1 DEF DeliveryInv
    <3>2. CASE wpc[w] = "idle"
      <4>1. wpc'[w] = "begin"
        BY <1>2, <3>2, WorkerStatus DEF WorkerMoves, Working
      <4>2. wrun[v] # wrun'[w] /\ job[wrun[v]] = "active"
        BY <1>0, <2>5, <2>6, <4>1 DEF DeliveryInv
      <4>3. PICK r \in Runs : TakeJob(w, r)
        BY <1>2, <3>2, OnlyMoves DEF WorkerStep, ExecuteRun, JobTimesOut, JobRaises, OutsideTry,
           InsideTry, WorkerCrash, Active, BeginSkips, BeginRuns, BeginWedges, Check, Prepare,
           Insert, ProviderReturns, ProviderRaises, Settle, SettleRaises, Finish, RefundFailed,
           Fail, Block, Return
      <4> QED
        BY <1>0, <2>6, <4>2, <4>3, CalmParts DEF TakeJob, QueueTyped
    <3> QED
      BY <3>1, <3>2
  <2> QED
    BY <1>0, <2>1, <2>2, <2>3, <2>5, <2>6 DEF DeliveryInv
<1>3. ASSUME NEW o \in Operators, Reconcile(o)
      PROVE  DeliveryInv'
  <2>1. wpc' = wpc /\ wrun' = wrun /\ job' = job
    BY <1>3, OperatorTouches, CalmParts DEF worker
  <2> QED
    BY <1>0, <2>1 DEF DeliveryInv
<1>4. ASSUME UNCHANGED lvars
      PROVE  DeliveryInv'
  BY <1>0, <1>4 DEF lvars, worker, queue, DeliveryInv
<1> QED
  BY <1>1, <1>2, <1>3, <1>4, StepCases

\* A dispatcher that writes QUEUED finds the run as nobody has begun it.
LEMMA QueuedFresh ==
    ASSUME CalmInv, NEW r \in Runs, NEW d \in Dispatchers,
           dpc[d] = "mark", dseen[d] = "PENDING_DISPATCH", drun[d] = r
    PROVE  /\ outbox[r] # "dispatched" /\ status[r] \notin Begun
           /\ ~InExecution(r) /\ reservation[r].status # "settled"
           /\ \A o \in Operators : opc[o] # "idle" => orun[o] # r
<1>1. outbox[r] # "dispatched"
  BY CalmParts DEF MarkInv
<1>2. status[r] \notin Begun
  BY <1>1, CalmParts DEF DispatchedInv, StartedMeansDispatched, Begun
<1>3. ~InExecution(r)
  BY <1>1, CalmParts DEF DispatchedInv, InExecution, Executing, Working
<1> QED
  BY <1>1, <1>2, <1>3, CalmParts DEF DispatchedInv, RefundInv

\* The statuses the step of a process leaves its run in.
LEMMA ExecutionOther ==
    ASSUME Calm, CalmInv, OtherStep
    PROVE  ExecutionInv'
<1>0. /\ wpc' = wpc /\ wrun' = wrun /\ opc' = opc /\ orun' = orun /\ woutcome' = woutcome
      /\ \A r \in Runs : OtherWrites(r)
      /\ \A w \in Workers : wpc[w] # "idle" => wrun[w] \in Runs /\ Known(wrun[w])
      /\ \A o \in Operators : opc[o] # "idle" => orun[o] \in Runs /\ Known(orun[o])
  BY OtherFrame, OtherStatus, CalmParts DEF worker, operator, KnownInv
<1>1. \A r : InExecution(r)' <=> InExecution(r)
  BY <1>0 DEF InExecution
<1>2. ASSUME NEW r \in Runs, status'[r] \in {"RUNNING", "CANCEL_REQUESTED"}
      PROVE  InExecution(r)
  BY <1>0, <1>2, CalmParts DEF OtherWrites, ExecutionInv
<1>3. ASSUME NEW w \in Workers, wpc[w] \in Executing
      PROVE  WorkedOn(w)'
  <2>1. PICK r \in Runs : r = wrun[w]
    BY <1>0, <1>3 DEF Executing, Working
  <2>2. InExecution(r) /\ Known(r) /\ WorkedOn(w)
    BY <1>0, <1>3, <2>1, CalmParts DEF InExecution, ExecutionInv, Executing, Working
  <2>3. \/ status'[r] = status[r]
        \/ status[r] \in {"RUNNING", "CANCEL_REQUESTED"} /\ status'[r] = "CANCEL_REQUESTED"
        \/ status'[r] = "FAIL"
    <3>1. status[r] \notin {"PENDING_DISPATCH", "QUEUED"}
      BY <1>3, <2>1, <2>2, CalmParts DEF WorkedOn, Ongoing, Executing, WorkerTyped
    <3> QED
      BY <1>0, <2>2, <3>1, QueuedFresh DEF OtherWrites
  <2>4. woutcome[w] \notin {"RUNNING", "CANCEL_REQUESTED"}
    BY CalmParts DEF WorkerTyped
  <2> QED
    BY <1>0, <1>3, <2>1, <2>2, <2>3, <2>4 DEF WorkedOn, Ongoing
<1>4. ASSUME NEW o \in Operators, opc[o] # "idle"
      PROVE  status'[orun[o]] \in {"BLOCKED", "FAIL", "PARTIAL"} /\ ~InExecution(orun[o])
  <2>1. PICK r \in Runs : r = orun[o]
    BY <1>0, <1>4
  <2>2. ~InExecution(r) /\ Known(r) /\ status[r] \in {"BLOCKED", "FAIL", "PARTIAL"}
    BY <1>0, <1>4, <2>1, CalmParts DEF ExecutionInv
  <2> QED
    BY <1>0, <1>4, <2>1, <2>2, QueuedFresh DEF OtherWrites
<1> QED
  BY <1>0, <1>1, <1>2, <1>3, <1>4 DEF ExecutionInv

LEMMA ExecutionWorker ==
    ASSUME Calm, CalmInv, NEW w \in Workers, WorkerStep(w)
    PROVE  ExecutionInv'
<1>0. /\ WorkerMoves(w)
      /\ \A v \in Workers \ {w} : wpc'[v] = wpc[v] /\ wrun'[v] = wrun[v]
      /\ \A r \in Runs : r # wrun[w] => status'[r] = status[r]
      /\ opc' = opc /\ orun' = orun
      /\ \A v \in Workers : wpc[v] # "idle" => wrun[v] \in Runs
      /\ \A o \in Operators : opc[o] # "idle" => orun[o] \in Runs
      /\ ExecutionInv /\ DeliveryInv
      /\ \A v \in Workers \ {w} : woutcome'[v] = woutcome[v]
      /\ woutcome[w] \in {"none", "PASS", "PARTIAL", "CANCELLED"}
  BY WorkerStatus, WorkerTouches, WorkerAlone, CalmParts DEF operator, WorkerTyped
<1>s. /\ Executing \cap {"idle", "begin", "done"} = {}
      /\ Executing = Working \cup {"finished", "refund", "fail"}
      /\ Working \cap {"finished", "refund", "fail"} = {}
      /\ {"started", "finish", "block"} \subseteq Working
  BY DEF Executing, Working
<1>1. ASSUME NEW r \in Runs, status'[r] \in {"RUNNING", "CANCEL_REQUESTED"}
      PROVE  InExecution(r)'
  <2>1. CASE wpc[w] = "begin" /\ wpc'[w] = "started" /\ wrun'[w] = r
    BY <1>s, <2>1 DEF InExecution
  <2>2. CASE ~(wpc[w] = "begin" /\ wpc'[w] = "started" /\ wrun'[w] = r)
    <3>1. status[r] = status'[r]
      BY <1>0, <1>1, <2>2 DEF WorkerMoves
    <3>2. PICK v \in Workers : wrun[v] = r /\ wpc[v] \in Executing
      BY <1>0, <1>1, <3>1 DEF ExecutionInv, InExecution
    <3>3. CASE v # w
      BY <1>0, <3>2, <3>3 DEF InExecution
    <3>4. CASE v = w
      <4>1. wpc'[w] \in Executing /\ wrun'[w] = r
        <5>1. WorkedOn(w)
          BY <1>0, <3>2, <3>4 DEF ExecutionInv
        <5> QED
          BY <1>0, <1>1, <1>s, <3>1, <3>2, <3>4, <5>1 DEF WorkerMoves, WorkedOn
      <4> QED
        BY <4>1 DEF InExecution
    <3> QED
      BY <3>3, <3>4
  <2> QED
    BY <2>1, <2>2
<1>2. ASSUME NEW v \in Workers, wpc'[v] \in Executing
      PROVE  WorkedOn(v)'
  <2>1. CASE v = w
    <3>1. wpc[w] \in Executing => WorkedOn(w)
      BY <1>0 DEF ExecutionInv
    <3> QED
      BY <1>0, <1>2, <1>s, <2>1, <3>1 DEF WorkerMoves, WorkedOn, Ongoing
  <2>2. CASE v # w
    <3>1. wpc[v] \in Executing /\ wrun'[v] = wrun[v] /\ wrun[v] \in Runs /\ WorkedOn(v)
      BY <1>0, <1>2, <1>s, <2>2 DEF ExecutionInv
    <3>2. status'[wrun[v]] = status[wrun[v]]
      BY <1>0, <1>s, <2>2, <3>1 DEF DeliveryInv, WorkerMoves
    <3> QED
      BY <1>0, <2>2, <3>1, <3>2 DEF WorkedOn
  <2> QED
    BY <2>1, <2>2
<1>3. ASSUME NEW o \in Operators, opc[o] # "idle"
      PROVE  /\ status'[orun[o]] \in {"BLOCKED", "FAIL", "PARTIAL"}
             /\ ~ \E v \in Workers : wrun'[v] = orun[o] /\ wpc'[v] \in Executing
  <2>1. /\ orun[o] \in Runs /\ status[orun[o]] \in {"BLOCKED", "FAIL", "PARTIAL"}
        /\ \A v \in Workers : ~(wrun[v] = orun[o] /\ wpc[v] \in Executing)
    BY <1>0, <1>3 DEF ExecutionInv, InExecution
  <2>2. status[orun[o]] \notin Executable
    BY <2>1 DEF Executable
  <2>3. status'[orun[o]] = status[orun[o]]
    <3>1. CASE orun[o] = wrun[w]
      BY <1>0, <1>s, <2>1, <2>2, <3>1 DEF WorkerMoves
    <3> QED
      BY <1>0, <2>1, <3>1
  <2>4. ~(wrun'[w] = orun[o] /\ wpc'[w] \in Executing)
    BY <1>0, <1>s, <2>1, <2>2 DEF WorkerMoves
  <2> QED
    BY <1>0, <2>1, <2>3, <2>4
<1> QED
  BY <1>0, <1>1, <1>2, <1>3 DEF ExecutionInv, InExecution

LEMMA ExecutionOperator ==
    ASSUME Calm, CalmInv, NEW o \in Operators, Reconcile(o)
    PROVE  ExecutionInv'
<1>0. /\ wpc' = wpc /\ wrun' = wrun /\ woutcome' = woutcome
      /\ \A p \in Operators \ {o} : opc'[p] = opc[p] /\ orun'[p] = orun[p]
      /\ \/ opc'[o] = "idle"
         \/ opc[o] # "idle" /\ orun'[o] = orun[o]
         \/ orun'[o] \in Runs /\ status[orun'[o]] = "BLOCKED"
      /\ \A r \in Runs : r # orun[o] => status'[r] = status[r]
      /\ opc[o] = "idle" => status' = status
      /\ opc[o] # "idle" => \/ status'[orun[o]] = status[orun[o]]
                            \/ status'[orun[o]] \in {"FAIL", "PARTIAL"}
      /\ \A w \in Workers : wpc[w] # "idle" => wrun[w] \in Runs
      /\ \A p \in Operators : opc[p] # "idle" => orun[p] \in Runs
      /\ ExecutionInv
  BY OperatorStatus, OperatorTouches, OperatorAlone, CalmParts DEF worker
<1>1. \A r : InExecution(r)' <=> InExecution(r)
  BY <1>0 DEF InExecution
<1>2. ASSUME NEW r \in Runs
      PROVE  \/ status'[r] = status[r]
             \/ opc[o] # "idle" /\ r = orun[o] /\ status'[r] \in {"FAIL", "PARTIAL"}
  BY <1>0
<1>3. ASSUME NEW w \in Workers, wpc[w] \in Executing
      PROVE  WorkedOn(w)'
  <2>1. wrun[w] \in Runs /\ InExecution(wrun[w]) /\ WorkedOn(w)
    BY <1>0, <1>3 DEF InExecution, Executing, Working, ExecutionInv
  <2>2. status'[wrun[w]] = status[wrun[w]]
    BY <1>0, <1>2, <2>1 DEF ExecutionInv
  <2> QED
    BY <1>0, <2>1, <2>2 DEF WorkedOn
<1>4. ASSUME NEW p \in Operators, opc'[p] # "idle"
      PROVE  /\ status'[orun'[p]] \in {"BLOCKED", "FAIL", "PARTIAL"}
             /\ ~InExecution(orun'[p])
  <2>1. /\ orun'[p] \in Runs /\ ~InExecution(orun'[p])
        /\ status[orun'[p]] \in {"BLOCKED", "FAIL", "PARTIAL"}
    <3>1. CASE opc[p] # "idle" /\ orun'[p] = orun[p]
      BY <1>0, <3>1 DEF ExecutionInv
    <3>2. CASE orun'[p] \in Runs /\ status[orun'[p]] = "BLOCKED"
      <4>1. ~InExecution(orun'[p])
        BY <1>0, <3>2, CalmParts
           DEF ExecutionInv, InExecution, WorkedOn, Ongoing, Executing, WorkerTyped
      <4> QED
        BY <3>2, <4>1
    <3> QED
      BY <1>0, <1>4, <3>1, <3>2
  <2> QED
    BY <1>2, <2>1
<1>5. \A p \in Operators : opc'[p] # "idle" => ~InExecution(orun[p])'
  <2>1. \A p \in Operators : opc'[p] # "idle" =>
           ~ \E w \in Workers : wrun[w] = orun'[p] /\ wpc[w] \in Executing
    BY <1>4 DEF InExecution
  <2> QED
    BY <1>0, <2>1 DEF InExecution
<1>6. \A r \in Runs : status'[r] \in {"RUNNING", "CANCEL_REQUESTED"} => InExecution(r)'
  BY <1>0, <1>1, <1>2 DEF ExecutionInv
<1> QED
  BY <1>0, <1>3, <1>4, <1>5, <1>6 DEF ExecutionInv

LEMMA ExecutionStep ==
    ASSUME Calm, CalmInv, [LifecycleNext]_lvars
    PROVE  ExecutionInv'
<1>1. CASE UNCHANGED lvars
  BY <1>1, CalmParts DEF lvars, worker, control, operator, runRow, ExecutionInv, InExecution,
     WorkedOn
<1> QED
  BY <1>1, ExecutionOther, ExecutionWorker, ExecutionOperator, StepCases

\* What a step may write over the status of a run.
Executed(r) ==
    /\ status[r] \notin {"none", "PENDING_DISPATCH", "PASS"}
    /\ status'[r] \notin {"PENDING_DISPATCH", "QUEUED"}

\* A worker that failed after it had written the outcome replaces it.
Overwritten(r) ==
    /\ status'[r] = "FAIL"
    /\ \E w \in Workers : wrun[w] = r /\ wpc[w] = "fail" /\ woutcome[w] = status[r]

LEMMA StatusChange ==
    ASSUME Calm, CalmInv, [LifecycleNext]_lvars, NEW r \in Runs
    PROVE  status'[r] = status[r] \/ OtherWrites(r) \/ Executed(r) \/ Overwritten(r)
<1>1. ASSUME NEW w \in Workers, WorkerStep(w)
      PROVE  status'[r] = status[r] \/ Executed(r) \/ Overwritten(r)
  <2>1. CASE r # wrun[w]
    BY <1>1, <2>1, WorkerTouches, CalmParts
  <2>2. CASE r = wrun[w]
    <3>1. wpc[w] \in Executing => WorkedOn(w)
      BY <2>2, CalmParts DEF ExecutionInv
    <3>2. /\ wpc[w] \in Working => status[r] \in Ongoing
          /\ wpc[w] = "fail" => status[r] \in Ongoing \cup {woutcome[w]}
          /\ woutcome[w] \in {"none", "PASS", "PARTIAL", "CANCELLED"}
      BY <2>2, <3>1, CalmParts DEF WorkedOn, Executing, WorkerTyped
    <3>3. {"finish", "block"} \subseteq Working
      BY DEF Working
    <3> QED
      BY <1>1, <2>2, <3>2, <3>3, WorkerStatus DEF WorkerMoves, Executed, Overwritten, Executable,
         Ongoing
  <2> QED
    BY <2>1, <2>2
<1>2. ASSUME NEW o \in Operators, Reconcile(o)
      PROVE  status'[r] = status[r] \/ Executed(r)
  <2>1. CASE r # orun[o]
    BY <1>2, <2>1, OperatorTouches, CalmParts
  <2>2. CASE r = orun[o] /\ opc[o] # "idle"
    <3>1. status[r] \in {"BLOCKED", "FAIL", "PARTIAL"}
      BY <2>2, CalmParts DEF ExecutionInv
    <3> QED
      BY <1>2, <2>2, <3>1, OperatorStatus, CalmParts DEF Executed
  <2>3. CASE opc[o] = "idle"
    BY <1>2, <2>3, OperatorStatus, CalmParts
  <2> QED
    BY <2>1, <2>2, <2>3
<1>3. CASE OtherStep
  BY <1>3, OtherStatus, CalmParts
<1>4. CASE UNCHANGED lvars
  BY <1>4 DEF lvars, runRow
<1> QED
  BY <1>1, <1>2, <1>3, <1>4, StepCases

\* Who marks an event.
LEMMA OutboxChange ==
    ASSUME Typed, [LifecycleNext]_lvars, NEW r \in Runs, outbox'[r] = "dispatched"
    PROVE  \/ outbox[r] = "dispatched"
           \/ \E d \in Dispatchers : DispatchMark(d) /\ drun[d] = r
<1>0. QueueTyped
  BY TypeParts DEF Typed
<1>1. CASE UNCHANGED outbox
  BY <1>1
<1>2. ASSUME NEW q \in Runs, NEW a \in Credits, CreateRun(q, a)
      PROVE  outbox[r] = "dispatched"
  BY <1>0, <1>2 DEF CreateRun, QueueTyped
<1>3. ASSUME NEW d \in Dispatchers, DispatchMark(d), drun[d] # r
      PROVE  outbox[r] = "dispatched"
  BY <1>0, <1>3 DEF DispatchMark, QueueTyped
<1>4. ASSUME NEW d \in Dispatchers, \/ \E q \in Runs : DispatchClaim(d, q)
                                    \/ DispatchEnqueue(d) \/ DispatchFails(d) \/ DispatchRead(d)
                                    \/ DispatcherCrash(d)
      PROVE  UNCHANGED outbox
  BY <1>4 DEF DispatchClaim, DispatchEnqueue, DispatchFails, DispatchRead, DispatcherCrash
<1>5. ASSUME NEW q \in Runs, Reap(q) \/ ReaperCrash(q)
      PROVE  UNCHANGED outbox
  BY <1>5 DEF Reap, ReaperSelect, ReaperRefund, ReaperRead, ReaperFail, ReaperCrash
<1>6. ASSUME NEW q \in Runs,
             \/ CancelPending(q) \/ CancelActive(q) \/ CancelRefund(q) \/ CancelCrash(q)
             \/ AbandonJob(q) \/ ResultExpires(q) \/ Expire(q)
      PROVE  UNCHANGED outbox
  BY <1>6 DEF CancelPending, CancelActive, CancelRefund, CancelCrash, AbandonJob,
     ResultExpires, Expire
<1>7. ASSUME NEW e \in Events, ReceivePayment(e)
      PROVE  UNCHANGED outbox
  BY <1>7 DEF ReceivePayment
<1>8. ASSUME NEW w \in Workers, LeaseExpires(w)
      PROVE  UNCHANGED outbox
  BY <1>8 DEF LeaseExpires
<1>9. ASSUME OtherStep
      PROVE  \/ outbox[r] = "dispatched"
             \/ \E d \in Dispatchers : DispatchMark(d) /\ drun[d] = r
  BY <1>1, <1>2, <1>3, <1>4, <1>5, <1>6, <1>7, <1>8, <1>9 DEF OtherStep, Dispatch
<1>10. CASE UNCHANGED lvars
  BY <1>1, <1>10 DEF lvars
<1> QED
  BY <1>1, <1>9, <1>10, StepCases, WorkerTouches, OperatorTouches

\* How a dispatcher comes to hold its event's lock.
ReadsNow(d) ==
    /\ ~EventLocked(drun[d]) /\ drun'[d] = drun[d] /\ dseen'[d] = status[drun[d]]
    /\ dpc[d] # "idle" /\ status' = status /\ outbox' = outbox
    /\ \A e \in Dispatchers \ {d} : dpc'[e] = dpc[e]
    /\ drun' = drun

LEMMA DispatcherMoves ==
    ASSUME Typed, [LifecycleNext]_lvars, NEW d \in Dispatchers, dpc'[d] = "mark"
    PROVE  \/ dpc[d] = "mark" /\ drun'[d] = drun[d] /\ dseen'[d] = dseen[d]
           \/ ReadsNow(d)
<1>0. QueueTyped
  BY TypeParts DEF Typed
<1> DEFINE Kept == dpc[d] = "mark" /\ drun'[d] = drun[d] /\ dseen'[d] = dseen[d]
<1>1. UNCHANGED dispatcher => Kept
  BY DEF dispatcher
<1>2. ASSUME NEW c \in Dispatchers, NEW q \in Runs, DispatchClaim(c, q)
      PROVE  Kept
  BY <1>0, <1>2 DEF DispatchClaim, QueueTyped
<1>3. ASSUME NEW c \in Dispatchers, DispatchEnqueue(c)
      PROVE  Kept
  BY <1>0, <1>3 DEF DispatchEnqueue, QueueTyped
<1>4. ASSUME NEW c \in Dispatchers, DispatchFails(c) \/ DispatchMark(c) \/ DispatcherCrash(c)
      PROVE  Kept
  BY <1>0, <1>4 DEF DispatchFails, DispatchMark, DispatcherCrash, DispatcherDone, QueueTyped
<1>5. ASSUME NEW c \in Dispatchers, DispatchRead(c), c # d
      PROVE  Kept
  BY <1>0, <1>5 DEF DispatchRead, QueueTyped
<1>6. ASSUME DispatchRead(d)
      PROVE  ReadsNow(d)
  BY <1>0, <1>6 DEF DispatchRead, QueueTyped, ReadsNow, runRow
<1>7. Kept \/ ReadsNow(d)
  BY <1>1, <1>2, <1>3, <1>4, <1>5, <1>6, DispatcherFrame DEF Dispatch
<1> QED
  BY <1>7

LEMMA MarkStep ==
    ASSUME Calm, CalmInv, [LifecycleNext]_lvars
    PROVE  MarkInv'
<1>0. /\ Typed /\ MarkInv /\ QueueTyped
      /\ \A d \in Dispatchers : dpc[d] # "idle" => drun[d] \in Runs /\ Known(drun[d])
  BY CalmParts DEF KnownInv
<1>1. ASSUME NEW d \in Dispatchers, DispatchMark(d)
      PROVE  dpc[d] = "mark" /\ dpc'[d] = "idle"
  BY <1>0, <1>1 DEF DispatchMark, DispatcherDone, QueueTyped
<1>2. ASSUME NEW r \in Runs, status'[r] = "PENDING_DISPATCH"
      PROVE  status[r] = "PENDING_DISPATCH" \/ (~Known(r) /\ outbox'[r] = "pending")
  BY <1>2, StatusChange DEF OtherWrites, Executed, Overwritten
<1>3. ASSUME NEW d \in Dispatchers, dpc[d] = "mark", dpc'[d] = "mark",
             outbox'[drun[d]] = "dispatched"
      PROVE  outbox[drun[d]] = "dispatched"
  <2>1. PICK r \in Runs : r = drun[d]
    BY <1>0, <1>3
  <2>2. ASSUME NEW e \in Dispatchers, DispatchMark(e), drun[e] = r
        PROVE  FALSE
    BY <1>0, <1>1, <1>3, <2>1, <2>2 DEF MarkInv
  <2> QED
    BY <1>0, <1>3, <2>1, <2>2, OutboxChange
<1>4. ASSUME NEW d \in Dispatchers, dpc'[d] = "mark"
      PROVE  IF dseen'[d] = "PENDING_DISPATCH" THEN outbox'[drun'[d]] # "dispatched"
                                               ELSE status'[drun'[d]] # "PENDING_DISPATCH"
  <2>1. CASE dpc[d] = "mark" /\ drun'[d] = drun[d] /\ dseen'[d] = dseen[d]
    <3>1. drun[d] \in Runs /\ Known(drun[d])
      BY <1>0, <2>1
    <3> QED
      BY <1>0, <1>2, <1>3, <1>4, <2>1, <3>1 DEF MarkInv
  <2>2. CASE ReadsNow(d)
    BY <1>0, <2>2 DEF MarkInv, ReadsNow
  <2> QED
    BY <1>0, <1>4, <2>1, <2>2, DispatcherMoves
<1>5. ASSUME NEW d \in Dispatchers, NEW e \in Dispatchers, d # e, dpc'[d] = "mark",
             dpc'[e] = "mark"
      PROVE  drun'[d] # drun'[e]
  <2>1. CASE ReadsNow(d)
    BY <1>5, <2>1 DEF ReadsNow, EventLocked
  <2>2. CASE ReadsNow(e)
    BY <1>5, <2>2 DEF ReadsNow, EventLocked
  <2>3. CASE ~ReadsNow(d) /\ ~ReadsNow(e)
    BY <1>0, <1>5, <2>3, DispatcherMoves DEF MarkInv
  <2> QED
    BY <2>1, <2>2, <2>3
<1>6. ASSUME NEW r \in Runs, outbox'[r] = "dispatched"
      PROVE  status'[r] # "PENDING_DISPATCH"
  <2>1. CASE outbox[r] = "dispatched"
    BY <1>0, <1>2, <1>6, <2>1 DEF MarkInv
  <2>2. ASSUME NEW d \in Dispatchers, DispatchMark(d), drun[d] = r
        PROVE  status'[r] # "PENDING_DISPATCH"
    <3>1. CASE dseen[d] = "PENDING_DISPATCH"
      <4>1. status' = [status EXCEPT ![r] = "QUEUED"]
        BY <2>2, <3>1 DEF DispatchMark, Undispatched, WriteStatus
      <4> QED
        BY <4>1, CalmParts DEF RunRowTyped
    <3>2. CASE dseen[d] # "PENDING_DISPATCH"
      <4>1. status' = status
        BY <2>2, <3>2 DEF DispatchMark, Undispatched, runRow
      <4> QED
        BY <1>0, <1>1, <2>2, <3>2, <4>1 DEF MarkInv
    <3> QED
      BY <3>1, <3>2
  <2> QED
    BY <1>0, <1>6, <2>1, <2>2, OutboxChange
<1> QED
  BY <1>4, <1>5, <1>6 DEF MarkInv

\* How far the reaper is with a run, and what it knows of the reservation.
ReaperTurns(r) ==
    \/ reaper'[r] = reaper[r]
    \/ reaper'[r] \in {"idle", "refund"}
    \/ reaper'[r] = "read" /\ reservation'[r].status \in {"settled", "refunded"}
    \/ /\ reaper[r] = "read" /\ reaper'[r] = "fail"
       /\ status[r] \in {"PENDING_DISPATCH", "QUEUED"} /\ reservation' = reservation

LEMMA ReaperMoves ==
    ASSUME CalmInv, [LifecycleNext]_lvars, NEW r \in Runs
    PROVE  ReaperTurns(r)
<1>0. QueueTyped /\ TypeOK /\ Typed /\ (reaper[r] # "idle" => Known(r))
  BY CalmParts DEF KnownInv, Traced
<1>1. UNCHANGED reaper => ReaperTurns(r)
  BY DEF ReaperTurns
<1>2. ASSUME NEW q \in Runs, ReaperSelect(q) \/ ReaperFail(q) \/ ReaperCrash(q)
      PROVE  ReaperTurns(r)
  BY <1>0, <1>2 DEF ReaperSelect, ReaperFail, ReaperCrash, ReaperAt, QueueTyped, ReaperTurns
<1>3. ASSUME NEW q \in Runs, ReaperRefund(q)
      PROVE  ReaperTurns(r)
  <2>1. CASE q # r
    BY <1>0, <1>3, <2>1 DEF ReaperRefund, ReaperAt, QueueTyped, ReaperTurns
  <2>2. CASE q = r
    <3>1. reaper'[r] = "read" /\ Known(r)
      BY <1>0, <1>3, <2>2 DEF ReaperRefund, ReaperAt, QueueTyped
    <3>2. CASE IsOpen(r)
      <4>1. reservation'[r].status = "refunded"
        BY <1>0, <1>3, <2>2, <3>2 DEF ReaperRefund, RefundIfOpen, RefundRun, TypeOK
      <4> QED
        BY <3>1, <4>1 DEF ReaperTurns
    <3>3. CASE ~IsOpen(r)
      <4>1. reservation' = reservation
        BY <1>3, <2>2, <3>3 DEF ReaperRefund, RefundIfOpen, money, vars
      <4>2. reservation[r].status \in {"settled", "refunded"}
        BY <1>0, <3>1, <3>3 DEF IsOpen, Known, TypeOK, ReservationStatus
      <4> QED
        BY <3>1, <4>1, <4>2 DEF ReaperTurns
    <3> QED
      BY <3>2, <3>3
  <2> QED
    BY <2>1, <2>2
<1>4. ASSUME NEW q \in Runs, ReaperRead(q)
      PROVE  ReaperTurns(r)
  <2>1. /\ reaper[q] = "read" /\ reservation' = reservation
        /\ reaper' = [reaper EXCEPT ![q] = IF status[q] \in {"PENDING_DISPATCH", "QUEUED"}
                                           THEN "fail" ELSE "idle"]
    BY <1>4 DEF ReaperRead, ReaperAt, money, vars
  <2> QED
    BY <1>0, <2>1 DEF QueueTyped, ReaperTurns
<1>5. ASSUME NEW q \in Runs,
             \/ \E a \in Credits : CreateRun(q, a)
             \/ CancelPending(q) \/ CancelActive(q) \/ CancelRefund(q) \/ CancelCrash(q)
             \/ AbandonJob(q) \/ ResultExpires(q) \/ Expire(q)
      PROVE  UNCHANGED reaper
  BY <1>5 DEF CreateRun, CancelPending, CancelActive, CancelRefund, CancelCrash, AbandonJob,
     ResultExpires, Expire, control
<1>6. ASSUME NEW d \in Dispatchers, Dispatch(d) \/ DispatcherCrash(d)
      PROVE  UNCHANGED reaper
  BY <1>6 DEF Dispatch, DispatchClaim, DispatchEnqueue, DispatchFails, DispatchRead,
     DispatchMark, DispatcherCrash, control
<1>7. (\E e \in Events : ReceivePayment(e)) \/ (\E w \in Workers : LeaseExpires(w))
        => UNCHANGED reaper
  BY DEF ReceivePayment, LeaseExpires, control
<1>8. OtherStep => ReaperTurns(r)
  BY <1>1, <1>2, <1>3, <1>4, <1>5, <1>6, <1>7 DEF OtherStep, Reap
<1>9. UNCHANGED lvars => UNCHANGED reaper
  BY DEF lvars, control
<1> QED
  BY <1>0, <1>1, <1>8, <1>9, StepCases, WorkerTouches, OperatorTouches

\* A reservation is settled only while its run is executed or reconciled.
LEMMA SettledWhile ==
    ASSUME Calm, CalmInv, [LifecycleNext]_lvars, NEW r \in Runs,
           reservation'[r].status = "settled", reservation[r].status # "settled"
    PROVE  /\ outbox'[r] = "dispatched" /\ Known(r)
           /\ status'[r] \notin {"PENDING_DISPATCH", "QUEUED"}
<1>1. ASSUME NEW w \in Workers, WorkerStep(w)
      PROVE  /\ outbox'[r] = "dispatched" /\ Known(r)
             /\ status'[r] \notin {"PENDING_DISPATCH", "QUEUED"}
  <2>1. wpc[w] = "settle" /\ wrun[w] = r
    BY <1>1, WorkerStatus
  <2>2. outbox[r] = "dispatched" /\ Known(r)
    BY <2>1, CalmParts DEF DispatchedInv, KnownInv
  <2>3. status[r] \in Ongoing
    BY <2>1, CalmParts DEF ExecutionInv, WorkedOn, Executing, Working
  <2>4. outbox' = outbox
    BY <1>1, WorkerTouches, CalmParts
  <2>5. status'[r] = status[r] \/ status'[r] \notin {"PENDING_DISPATCH", "QUEUED"}
    BY <1>1, <2>1, WorkerStatus DEF WorkerMoves
  <2> QED
    BY <2>2, <2>3, <2>4, <2>5 DEF Ongoing
<1>2. ASSUME NEW o \in Operators, Reconcile(o)
      PROVE  /\ outbox'[r] = "dispatched" /\ Known(r)
             /\ status'[r] \notin {"PENDING_DISPATCH", "QUEUED"}
  <2>1. opc[o] # "idle" /\ orun[o] = r
    BY <1>2, OperatorStatus, CalmParts
  <2>2. /\ outbox[r] = "dispatched" /\ Known(r)
        /\ status[r] \in {"BLOCKED", "FAIL", "PARTIAL"}
    BY <2>1, CalmParts DEF DispatchedInv, KnownInv, ExecutionInv
  <2>3. outbox' = outbox
    BY <1>2, OperatorTouches, CalmParts
  <2>4. status'[r] = status[r] \/ status'[r] \in {"FAIL", "PARTIAL"}
    BY <1>2, <2>1, OperatorStatus, CalmParts
  <2> QED
    BY <2>2, <2>3, <2>4
<1>3. ~OtherStep
  BY OtherStatus, CalmParts
<1>4. ~UNCHANGED lvars
  BY DEF lvars, money, vars
<1> QED
  BY <1>1, <1>2, <1>3, <1>4, StepCases

LEMMA RefundStep ==
    ASSUME Calm, CalmInv, [LifecycleNext]_lvars
    PROVE  RefundInv'
<1> SUFFICES ASSUME NEW r \in Runs
             PROVE  /\ reaper'[r] = "fail" => reservation'[r].status = "refunded"
                    /\ reaper'[r] = "read" => reservation'[r].status \in {"settled", "refunded"}
                    /\ reservation'[r].status = "settled" =>
                          /\ outbox'[r] = "dispatched"
                          /\ status'[r] \notin {"PENDING_DISPATCH", "QUEUED"}
  BY DEF RefundInv
<1>0. /\ Typed /\ TypeOK /\ RefundInv /\ HandsInv /\ ReaperTurns(r)
      /\ reaper[r] = "fail" => reservation[r].status = "refunded"
      /\ reaper[r] = "read" => reservation[r].status \in {"settled", "refunded"}
      /\ reservation[r].status = "settled" =>
            outbox[r] = "dispatched" /\ status[r] \notin {"PENDING_DISPATCH", "QUEUED"}
  BY ReaperMoves, CalmParts DEF RefundInv, Typed
<1>1. reservation[r].status \in {"settled", "refunded"} => reservation'[r] = reservation[r]
  BY <1>0, MoneyStep, ReservationStep
<1>2. reaper'[r] = "fail" => reservation'[r].status = "refunded"
  BY <1>0, <1>1 DEF ReaperTurns
<1>3. reaper'[r] = "read" => reservation'[r].status \in {"settled", "refunded"}
  BY <1>0, <1>1 DEF ReaperTurns
<1>4. ASSUME reservation[r].status = "settled"
      PROVE  outbox'[r] = "dispatched" /\ status'[r] \notin {"PENDING_DISPATCH", "QUEUED"}
  <2>1. Known(r) /\ outbox[r] = "dispatched"
    BY <1>0, <1>4 DEF Known
  <2>2. outbox'[r] = "dispatched"
    <3>1. OtherStep => outbox'[r] = "dispatched"
      BY <2>1, OtherTouches, CalmParts DEF OtherRow
    <3>2. UNCHANGED lvars => UNCHANGED outbox
      BY DEF lvars
    <3> QED
      BY <1>0, <2>1, <3>1, <3>2, StepCases, WorkerTouches, OperatorTouches
  <2>3. ~(status'[r] = "QUEUED" /\
            \E d \in Dispatchers :
               dpc[d] = "mark" /\ dseen[d] = "PENDING_DISPATCH" /\ drun[d] = r)
    BY <1>4, QueuedFresh
  <2>4. status'[r] \notin {"PENDING_DISPATCH", "QUEUED"}
    BY <1>0, <1>4, <2>1, <2>3, StatusChange DEF OtherWrites, Executed, Overwritten
  <2> QED
    BY <2>2, <2>4
<1> QED
  BY <1>2, <1>3, <1>4, SettledWhile

LEMMA CalmStep ==
    ASSUME Calm, CalmInv, [LifecycleNext]_lvars
    PROVE  CalmInv'
<1>1. AccountedInv' /\ DispatchedInv'
  BY AccountedStep, DispatchedStep, CalmParts DEF CalmInv
<1>2. DeliveryInv' /\ ExecutionInv' /\ MarkInv' /\ RefundInv'
  BY DeliveryStep, ExecutionStep, MarkStep, RefundStep
<1> QED
  BY <1>1, <1>2 DEF CalmInv

LEMMA InitCalm == LifecycleInit => CalmInv
<1> SUFFICES ASSUME LifecycleInit PROVE CalmInv
  OBVIOUS
<1>1. DispatchedInv /\ DeliveryInv
  BY DEF LifecycleInit, DispatchedInv, StartedMeansDispatched, DeliveryInv
<1>2. ExecutionInv
  BY DEF LifecycleInit, ExecutionInv, InExecution, Executing, Working
<1>3. MarkInv /\ RefundInv
  BY DEF LifecycleInit, Init, MarkInv, RefundInv
<1> QED
  BY <1>1, <1>2, <1>3, InitAccounted DEF CalmInv

LEMMA PassKept ==
    ASSUME Calm, CalmInv, [LifecycleNext]_lvars, NEW r \in Runs, status[r] = "PASS"
    PROVE  \/ status'[r] = "PASS"
           \/ /\ status'[r] = "FAIL"
              /\ \E w \in Workers : wrun[w] = r /\ wpc[w] = "fail" /\ woutcome[w] = "PASS"
<1>1. Known(r) /\ reservation[r].status = "settled"
  BY CalmParts DEF KnownInv, Traced, PaidInv, RunPaid, Settled
<1>2. reaper[r] # "fail"
  BY <1>1, CalmParts DEF RefundInv
<1>3. ~ \E d \in Dispatchers : dpc[d] = "mark" /\ dseen[d] = "PENDING_DISPATCH" /\ drun[d] = r
  BY <1>1, QueuedFresh
<1> QED
  BY <1>1, <1>2, <1>3, StatusChange DEF OtherWrites, Executed, Overwritten

\* While no worker loses a job, so that a run is executed by one worker at a
\* time, the reaper's late FAIL, a dispatcher's late QUEUED, a cancellation and
\* an operator come too late to replace PASS; only the worker that wrote it
\* may, with FAIL, when it could not record the completion (jobs.py:188-216,
\* 236-244; outbox.py:49-62; cli.py:49-55).
THEOREM PassStays == ASSUME Calm PROVE LifecycleSpec => PassStands
<1>1. CalmInv /\ [LifecycleNext]_lvars => CalmInv'
  BY CalmStep
<1>2. CalmInv /\ [LifecycleNext]_lvars
        => [\A r \in Runs : status[r] = "PASS" =>
               \/ status'[r] = "PASS"
               \/ /\ status'[r] = "FAIL"
                  /\ \E w \in Workers :
                         wrun[w] = r /\ wpc[w] = "fail" /\ woutcome[w] = "PASS"]_lvars
  BY PassKept
<1> QED
  BY <1>1, <1>2, InitCalm, PTL DEF LifecycleSpec, PassStands
=============================================================================
