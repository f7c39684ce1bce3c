---------------------------- MODULE RunLifecycle ----------------------------
(***************************************************************************)
(* A paid run from admission to the end of its reservation: the API that   *)
(* creates and cancels it, the outbox dispatcher that hands it to arq, the *)
(* workers that execute it skill by skill, the reservation reaper and the  *)
(* operator's reconcile-run command, over the money tables of Billing.     *)
(*                                                                         *)
(* A step is one database transaction, one Redis call or one provider      *)
(* call.  A row read without FOR UPDATE and written later in the same      *)
(* transaction is two steps when what is written depends on what was read, *)
(* because another transaction may commit in between.  A process may die   *)
(* between any two steps.                                                  *)
(***************************************************************************)
EXTENDS Billing

CONSTANTS Length,       \* how many skills a run executes
          Required,     \* skill_reservation of each step
          Charges,      \* what a provider call can turn out to cost
          Workers,      \* worker processes, each executing one job at a time
          Dispatchers,  \* executions of dispatch_run: the API's, the cron's
          Operators,    \* invocations of zomega reconcile-run
          NoRun,
          MaxTries,     \* arq's max_tries
          Faults        \* which faults can happen, of FaultKinds

FaultKinds == {"crash",      \* an API request, dispatcher, reaper or command dies
               "worker",     \* a worker process dies
               "database",   \* a transaction inside execute_run's try raises
               "job",        \* one outside it raises, which ends the job
               "redis",      \* a Redis call raises
               "provider",   \* a provider call raises
               "timeout",    \* arq's job_timeout cancels a job at its await
               "stall"}      \* a worker outlives its in-progress key

Steps == 1 .. Length    \* skill_executions.sequence_no

ASSUME LengthAssumption == Length \in Nat \ {0}
ASSUME RequiredAssumption == Required \in [Steps -> Nat \ {0}]
ASSUME ChargesAssumption == Charges \subseteq Credits
ASSUME ProcessAssumption == NoRun \notin Runs /\ MaxTries \in Nat
ASSUME FaultsAssumption == Faults \subseteq FaultKinds

VARIABLES
    status, cancelRequested, chargedCredits,   \* runs
    expired,                                   \* reservations.expires_at < now
    checkpoint, stepCharge,                    \* skill_executions
    calls,              \* history: provider calls made for each step
    outbox,             \* outbox_events.status
    job, tries,         \* the arq job with the run's id, and its job_try
    dpc, drun, dseen,   \* dispatchers, and the run status they have read
    wpc, wrun, wstep, wtotal, woutcome,        \* workers and their locals
    refunding,          \* runs whose cancellation has still to refund
    reaper,             \* where the reaper is with each run
    opc, orun, ocharge  \* operators

money == vars
runRow == <<status, cancelRequested, chargedCredits>>
steps == <<checkpoint, stepCharge, calls>>
queue == <<job, tries>>
dispatcher == <<dpc, drun, dseen>>
worker == <<wpc, wrun, wstep, wtotal, woutcome>>
operator == <<opc, orun, ocharge>>
control == <<refunding, reaper, operator>>
lvars == <<money, runRow, expired, steps, outbox, queue, dispatcher, worker, control>>

Terminal == {"PASS", "PARTIAL", "FAIL", "BLOCKED", "CANCELLED"}
Statuses == {"none", "PENDING_DISPATCH", "QUEUED", "RUNNING", "CANCEL_REQUESTED"}
            \cup Terminal

LifecycleInit ==
    /\ Init
    /\ status = [r \in Runs |-> "none"]
    /\ cancelRequested = [r \in Runs |-> FALSE]
    /\ chargedCredits = [r \in Runs |-> 0]
    /\ expired = [r \in Runs |-> FALSE]
    /\ checkpoint = [r \in Runs |-> [i \in Steps |-> "none"]]
    /\ stepCharge = [r \in Runs |-> [i \in Steps |-> 0]]
    /\ calls = [r \in Runs |-> [i \in Steps |-> 0]]
    /\ outbox = [r \in Runs |-> "none"]
    /\ job = [r \in Runs |-> "none"]
    /\ tries = [r \in Runs |-> 0]
    /\ dpc = [d \in Dispatchers |-> "idle"]
    /\ drun = [d \in Dispatchers |-> NoRun]
    /\ dseen = [d \in Dispatchers |-> "none"]
    /\ wpc = [w \in Workers |-> "idle"]
    /\ wrun = [w \in Workers |-> NoRun]
    /\ wstep = [w \in Workers |-> 1]
    /\ wtotal = [w \in Workers |-> 0]
    /\ woutcome = [w \in Workers |-> "none"]
    /\ refunding = {}
    /\ reaper = [r \in Runs |-> "idle"]
    /\ opc = [o \in Operators |-> "idle"]
    /\ orun = [o \in Operators |-> NoRun]
    /\ ocharge = [o \in Operators |-> 0]

-----------------------------------------------------------------------------
(***************************************************************************)
(* Shared pieces.                                                          *)
(***************************************************************************)

\* refund_run, as every caller uses it: a closed reservation is left alone.
RefundIfOpen(r) == IF IsOpen(r) THEN RefundRun(r) ELSE UNCHANGED money

\* A wedged worker holds the run row FOR UPDATE; nobody else can lock or
\* update it, or insert a row that references it, until that worker dies.
RowFree(r) == \A w \in Workers : ~(wpc[w] = "wedged" /\ wrun[w] = r)

\* Writing only the status column of the run row.
WriteStatus(r, s) ==
    /\ RowFree(r)
    /\ status' = [status EXCEPT ![r] = s]
    /\ UNCHANGED <<cancelRequested, chargedCredits>>

WholeReservation(w) == reservation[wrun[w]].amount    \* mutation
Remaining(w) == reservation[wrun[w]].amount - wtotal[w]

-----------------------------------------------------------------------------
(***************************************************************************)
(* API: payments, admission, cancellation.                                 *)
(***************************************************************************)
ReceivePayment(e) ==
    /\ ProcessVerifiedPayment(e, "verified")
    /\ UNCHANGED <<runRow, expired, steps, outbox, queue, dispatcher, worker, control>>

\* The transaction of _create_run; its dispatch_run is a dispatcher's.
CreateRun(r, amount) ==
    /\ Reserve(r, amount)
    /\ WriteStatus(r, "PENDING_DISPATCH")
    /\ outbox' = [outbox EXCEPT ![r] = "pending"]
    /\ UNCHANGED <<expired, steps, queue, dispatcher, worker, control>>

\* The first transaction of cancel_run; a terminal run is left alone.
CancelPending(r) ==
    /\ status[r] \in {"PENDING_DISPATCH", "QUEUED"}
    /\ RowFree(r)
    /\ status' = [status EXCEPT ![r] = "CANCELLED"]
    /\ cancelRequested' = [cancelRequested EXCEPT ![r] = TRUE]
    /\ refunding' = refunding \cup {r}
    /\ UNCHANGED <<money, chargedCredits, expired, steps, outbox, queue,
                   dispatcher, worker, reaper, operator>>

CancelActive(r) ==
    /\ status[r] \in {"RUNNING", "CANCEL_REQUESTED"}
    /\ RowFree(r)
    /\ status' = [status EXCEPT ![r] = "CANCEL_REQUESTED"]
    /\ cancelRequested' = [cancelRequested EXCEPT ![r] = TRUE]
    /\ UNCHANGED <<money, chargedCredits, expired, steps, outbox, queue,
                   dispatcher, worker, control>>

\* cancel_run's refund, in a transaction of its own.
CancelRefund(r) ==
    /\ r \in refunding
    /\ RefundIfOpen(r)
    /\ refunding' = refunding \ {r}
    /\ UNCHANGED <<runRow, expired, steps, outbox, queue, dispatcher, worker,
                   reaper, operator>>

CancelCrash(r) ==
    /\ "crash" \in Faults
    /\ r \in refunding
    /\ refunding' = refunding \ {r}
    /\ UNCHANGED <<money, runRow, expired, steps, outbox, queue, dispatcher,
                   worker, reaper, operator>>

-----------------------------------------------------------------------------
(***************************************************************************)
(* dispatch_run.  Its first transaction locks the pending event but commits*)
(* before the enqueue, so two dispatchers can be past it for one run.      *)
(***************************************************************************)
DispatcherDone(d) ==
    /\ dpc' = [dpc EXCEPT ![d] = "idle"]
    /\ drun' = [drun EXCEPT ![d] = NoRun]
    /\ dseen' = [dseen EXCEPT ![d] = "none"]

EventLocked(r) == \E d \in Dispatchers : dpc[d] = "mark" /\ drun[d] = r

Unstarted(r) == outbox[r] = "pending" /\ status[r] = "PENDING_DISPATCH"    \* mutation
Pending(r) == outbox[r] = "pending"

DispatchClaim(d, r) ==
    /\ dpc[d] = "idle"
    /\ Pending(r)
    /\ ~EventLocked(r)
    /\ dpc' = [dpc EXCEPT ![d] = "enqueue"]
    /\ drun' = [drun EXCEPT ![d] = r]
    /\ UNCHANGED <<money, runRow, expired, steps, outbox, queue, dseen, worker, control>>

\* enqueue_job with _job_id: nothing happens while arq still has the job or
\* its result, and dispatch_run does not look at what it returned.
Enqueued(r) == [job EXCEPT ![r] = IF @ = "none" THEN "queued" ELSE @]

DispatchEnqueue(d) ==
    /\ dpc[d] = "enqueue"
    /\ job' = Enqueued(drun[d])
    /\ dpc' = [dpc EXCEPT ![d] = "read"]
    /\ UNCHANGED <<money, runRow, expired, steps, outbox, tries, drun, dseen,
                   worker, control>>

\* The call raises, before or after Redis took the job; the event stays
\* pending for a later attempt.
DispatchFails(d) ==
    /\ "redis" \in Faults
    /\ dpc[d] = "enqueue"
    /\ job' \in {job, Enqueued(drun[d])}
    /\ DispatcherDone(d)
    /\ UNCHANGED <<money, runRow, expired, steps, outbox, tries, worker, control>>

\* The last transaction locks the event, then reads the run without a lock.
DispatchRead(d) ==
    /\ dpc[d] = "read"
    /\ ~EventLocked(drun[d])
    /\ dseen' = [dseen EXCEPT ![d] = status[drun[d]]]
    /\ dpc' = [dpc EXCEPT ![d] = "mark"]
    /\ UNCHANGED <<money, runRow, expired, steps, outbox, queue, drun, worker, control>>

Unfinal(s) == s \notin Terminal    \* mutation
Undispatched(s) == s = "PENDING_DISPATCH"

DispatchMark(d) ==
    /\ dpc[d] = "mark"
    /\ outbox' = [outbox EXCEPT ![drun[d]] = "dispatched"]
    /\ IF Undispatched(dseen[d])
       THEN WriteStatus(drun[d], "QUEUED")
       ELSE UNCHANGED runRow
    /\ DispatcherDone(d)
    /\ UNCHANGED <<money, expired, steps, queue, worker, control>>

DispatcherCrash(d) ==
    /\ "crash" \in Faults
    /\ dpc[d] # "idle"
    /\ DispatcherDone(d)
    /\ UNCHANGED <<money, runRow, expired, steps, outbox, queue, worker, control>>

-----------------------------------------------------------------------------
(***************************************************************************)
(* arq, as the code depends on it: a job is delivered until the coroutine  *)
(* returns or raises; then only its result is kept, for an hour.           *)
(***************************************************************************)
Active(w) == wpc[w] # "idle"

WorkerAt(w, pc) ==
    /\ wpc' = [wpc EXCEPT ![w] = pc]
    /\ UNCHANGED <<wrun, wstep, wtotal, woutcome>>

WorkerIdle(w) ==
    /\ wpc' = [wpc EXCEPT ![w] = "idle"]
    /\ wrun' = [wrun EXCEPT ![w] = NoRun]
    /\ wstep' = [wstep EXCEPT ![w] = 1]
    /\ wtotal' = [wtotal EXCEPT ![w] = 0]
    /\ woutcome' = [woutcome EXCEPT ![w] = "none"]

\* The coroutine ended, in whatever way: arq will not deliver it again.
JobEnds(w) ==
    /\ job' = [job EXCEPT ![wrun[w]] = "kept"]
    /\ WorkerIdle(w)
    /\ UNCHANGED tries

TakeJob(w, r) ==
    /\ ~Active(w)
    /\ job[r] = "queued" /\ tries[r] < MaxTries
    /\ job' = [job EXCEPT ![r] = "active"]
    /\ tries' = [tries EXCEPT ![r] = @ + 1]
    /\ wpc' = [wpc EXCEPT ![w] = "begin"]
    /\ wrun' = [wrun EXCEPT ![w] = r]
    /\ UNCHANGED <<money, runRow, expired, steps, outbox, dispatcher,
                   wstep, wtotal, woutcome, control>>

\* "max retries exceeded": the job fails without being run.
AbandonJob(r) ==
    /\ job[r] = "queued" /\ tries[r] = MaxTries
    /\ job' = [job EXCEPT ![r] = "kept"]
    /\ UNCHANGED <<money, runRow, expired, steps, outbox, tries, dispatcher,
                   worker, control>>

ResultExpires(r) ==
    /\ job[r] = "kept"
    /\ job' = [job EXCEPT ![r] = "none"]
    /\ tries' = [tries EXCEPT ![r] = 0]
    /\ UNCHANGED <<money, runRow, expired, steps, outbox, dispatcher, worker, control>>

\* The worker process dies; unless another one has the job it is queued again.
WorkerCrash(w) ==
    /\ "worker" \in Faults
    /\ Active(w)
    /\ job' = IF /\ job[wrun[w]] = "active"
                 /\ \A v \in Workers \ {w} : wrun[v] # wrun[w]
              THEN [job EXCEPT ![wrun[w]] = "queued"]
              ELSE job
    /\ WorkerIdle(w)
    /\ UNCHANGED <<money, runRow, expired, steps, outbox, tries, dispatcher, control>>

\* The in-progress key lapses while its worker is stalled, as that of a
\* wedged worker must: the job is delivered to another worker as well.
LeaseExpires(w) ==
    /\ Active(w)
    /\ "stall" \in Faults \/ wpc[w] = "wedged"
    /\ job[wrun[w]] = "active"
    /\ job' = [job EXCEPT ![wrun[w]] = "queued"]
    /\ UNCHANGED <<money, runRow, expired, steps, outbox, tries, dispatcher,
                   worker, control>>

-----------------------------------------------------------------------------
(***************************************************************************)
(* execute_run.                                                            *)
(***************************************************************************)
Ambiguous(r) == \E i \in Steps : checkpoint[r][i] = "RUNNING"

\* The first transaction, run row FOR UPDATE.
ExecutableEarly == {"PENDING_DISPATCH", "QUEUED", "RUNNING"}    \* mutation
Executable == {"QUEUED", "RUNNING"}

BeginSkips(w) ==
    /\ wpc[w] = "begin"
    /\ RowFree(wrun[w])
    /\ status[wrun[w]] \notin Executable
    /\ JobEnds(w)
    /\ UNCHANGED <<money, runRow, expired, steps, outbox, dispatcher, control>>

BeginRuns(w) ==
    /\ wpc[w] = "begin"
    /\ status[wrun[w]] \in Executable
    /\ status[wrun[w]] = "RUNNING" => ~Ambiguous(wrun[w])
    /\ WriteStatus(wrun[w], "RUNNING")
    /\ WorkerAt(w, "started")
    /\ UNCHANGED <<money, expired, steps, outbox, queue, dispatcher, control>>

\* A redelivered run with an unresolved checkpoint.  Before it commits, the
\* transaction calls record(), whose own session inserts an evidence row; the
\* insert needs a key-share lock on the run row, which this transaction holds
\* FOR UPDATE, and the transaction cannot go on until record() returns.
BeginWedges(w) ==
    /\ wpc[w] = "begin"
    /\ RowFree(wrun[w])
    /\ status[wrun[w]] = "RUNNING" /\ Ambiguous(wrun[w])
    /\ WorkerAt(w, "wedged")
    /\ UNCHANGED <<money, runRow, expired, steps, outbox, queue, dispatcher, control>>

\* The top of the loop, and the code after it: cancellation, end of the
\* sequence, budget, in that order.
NextMoveSkipsLast(w) ==    \* mutation
    IF cancelRequested[wrun[w]] THEN "CANCELLED"
    ELSE IF wstep[w] >= Length THEN "PASS"
    ELSE IF Required[wstep[w]] > Remaining(w) THEN "PARTIAL"
    ELSE "execute"

NextMoveUnfunded(w) ==     \* mutation
    IF cancelRequested[wrun[w]] THEN "CANCELLED"
    ELSE IF wstep[w] \notin Steps THEN "PASS"
    ELSE "execute"

NextMove(w) ==
    IF cancelRequested[wrun[w]] THEN "CANCELLED"
    ELSE IF wstep[w] \notin Steps THEN "PASS"
    ELSE IF Required[wstep[w]] > Remaining(w) THEN "PARTIAL"
    ELSE "execute"

\* It is reached past record() of the step before, which waits for a wedged
\* worker.
Check(w) ==
    /\ wpc[w] = "check"
    /\ wstep[w] > 1 => RowFree(wrun[w])
    /\ IF NextMove(w) = "execute"
       THEN WorkerAt(w, "prepare")
       ELSE /\ wpc' = [wpc EXCEPT ![w] = "settle"]
            /\ woutcome' = [woutcome EXCEPT ![w] = NextMove(w)]
            /\ UNCHANGED <<wrun, wstep, wtotal>>
    /\ UNCHANGED <<money, runRow, expired, steps, outbox, queue, dispatcher, control>>

\* A step that costs more than is left raises.
Account(w, cost) ==
    IF cost > Remaining(w)
    THEN WorkerAt(w, "refund")
    ELSE /\ wpc' = [wpc EXCEPT ![w] = "check"]
         /\ wtotal' = [wtotal EXCEPT ![w] = @ + cost]
         /\ wstep' = [wstep EXCEPT ![w] = @ + 1]
         /\ UNCHANGED <<wrun, woutcome>>

\* _prepare_execution looks the checkpoint up ...
Prepare(w) ==
    LET r == wrun[w]
        i == wstep[w]
    IN  /\ wpc[w] = "prepare"
        /\ \/ checkpoint[r][i] = "PASS" /\ Account(w, stepCharge[r][i])
           \/ checkpoint[r][i] = "RUNNING" /\ WorkerAt(w, "block")
           \/ checkpoint[r][i] = "none" /\ WorkerAt(w, "insert")
        /\ UNCHANGED <<money, runRow, expired, steps, outbox, queue, dispatcher, control>>

\* The unique key (run_id, sequence_no) of skill_executions.
Unfinished(r, i) == checkpoint[r][i] # "PASS"    \* mutation
Unclaimed(r, i) == checkpoint[r][i] = "none"

\* ... and inserts it if there was none; the unique key refuses a second one
\* and the call raises.  Once the insert commits the provider is called.
Insert(w) ==
    LET r == wrun[w]
        i == wstep[w]
    IN  /\ wpc[w] = "insert"
        /\ RowFree(r)
        /\ IF Unclaimed(r, i)
           THEN /\ checkpoint' = [checkpoint EXCEPT ![r][i] = "RUNNING"]
                /\ calls' = [calls EXCEPT ![r][i] = @ + 1]
                /\ WorkerAt(w, "await")
                /\ UNCHANGED stepCharge
           ELSE /\ WorkerAt(w, "refund")
                /\ UNCHANGED steps
        /\ UNCHANGED <<money, runRow, expired, outbox, queue, dispatcher, control>>

ProviderReturns(w, cost) ==
    LET r == wrun[w]
        i == wstep[w]
    IN  /\ wpc[w] = "await"
        /\ checkpoint' = [checkpoint EXCEPT ![r][i] = "PASS"]
        /\ stepCharge' = [stepCharge EXCEPT ![r][i] = cost]
        /\ Account(w, cost)
        /\ UNCHANGED <<money, runRow, expired, calls, outbox, queue, dispatcher, control>>

\* A provider exception leaves the checkpoint RUNNING.
ProviderRaises(w) ==
    /\ "provider" \in Faults
    /\ wpc[w] = "await"
    /\ WorkerAt(w, "refund")
    /\ UNCHANGED <<money, runRow, expired, steps, outbox, queue, dispatcher, control>>

\* CancelledError is no Exception: no handler of execute_run sees it.
JobTimesOut(w) ==
    /\ "timeout" \in Faults
    /\ wpc[w] = "await"
    /\ JobEnds(w)
    /\ UNCHANGED <<money, runRow, expired, steps, outbox, dispatcher, control>>

\* settle_run, for each of the three outcomes.
SettleAll(w) ==    \* mutation
    /\ wpc[w] = "settle"
    /\ SettleRun(wrun[w], reservation[wrun[w]].amount)
    /\ WorkerAt(w, "finish")
    /\ UNCHANGED <<runRow, expired, steps, outbox, queue, dispatcher, control>>

Settle(w) ==
    /\ wpc[w] = "settle"
    /\ SettleRun(wrun[w], wtotal[w])
    /\ WorkerAt(w, "finish")
    /\ UNCHANGED <<runRow, expired, steps, outbox, queue, dispatcher, control>>

SettledAlready(w) ==    \* mutation
    /\ wpc[w] = "settle"
    /\ ~IsOpen(wrun[w])
    /\ WorkerAt(w, "finish")
    /\ UNCHANGED <<money, runRow, expired, steps, outbox, queue, dispatcher, control>>

SettleRaises(w) ==
    /\ wpc[w] = "settle"
    /\ ~IsOpen(wrun[w])
    /\ WorkerAt(w, "refund")
    /\ UNCHANGED <<money, runRow, expired, steps, outbox, queue, dispatcher, control>>

\* The transaction after settle_run.
Finish(w) ==
    LET r == wrun[w]
    IN  /\ wpc[w] = "finish"
        /\ RowFree(r)
        /\ status' = [status EXCEPT ![r] = woutcome[w]]
        /\ chargedCredits' = [chargedCredits EXCEPT ![r] = wtotal[w]]
        /\ cancelRequested' = [cancelRequested EXCEPT
               ![r] = @ \/ woutcome[w] = "CANCELLED"]
        /\ WorkerAt(w, "finished")
        /\ UNCHANGED <<money, expired, steps, outbox, queue, dispatcher, control>>

\* except Exception: refund_run, then FAIL, in two transactions.
RefundFailed(w) ==
    /\ wpc[w] = "refund"
    /\ RefundIfOpen(wrun[w])
    /\ WorkerAt(w, "fail")
    /\ UNCHANGED <<runRow, expired, steps, outbox, queue, dispatcher, control>>

FailRunning(w) ==    \* mutation
    /\ wpc[w] = "fail"
    /\ IF status[wrun[w]] = "RUNNING" THEN WriteStatus(wrun[w], "FAIL") ELSE UNCHANGED runRow
    /\ WorkerAt(w, "done")
    /\ UNCHANGED <<money, expired, steps, outbox, queue, dispatcher, control>>

Fail(w) ==
    /\ wpc[w] = "fail"
    /\ WriteStatus(wrun[w], "FAIL")
    /\ WorkerAt(w, "done")
    /\ UNCHANGED <<money, expired, steps, outbox, queue, dispatcher, control>>

\* except AmbiguousProviderState.
Block(w) ==
    /\ wpc[w] = "block"
    /\ WriteStatus(wrun[w], "BLOCKED")
    /\ WorkerAt(w, "done")
    /\ UNCHANGED <<money, expired, steps, outbox, queue, dispatcher, control>>

\* record() of "run.started", and of the outcome: a transaction of its own,
\* whose evidence row references the run.
Record(w) ==
    /\ wpc[w] \in {"started", "finished"}
    /\ RowFree(wrun[w])
    /\ WorkerAt(w, IF wpc[w] = "started" THEN "check" ELSE "done")
    /\ UNCHANGED <<money, runRow, expired, steps, outbox, queue, dispatcher, control>>

\* A transaction, a read or a record() raises.  Inside the try, which the
\* outcome's record() still is, the handler takes over and fails the run
\* whatever its status is by then.  A transaction that raises though it was
\* committed is one that raises at the place after it.
InsideTry == {"check", "prepare", "insert", "await", "settle", "finish", "finished"}

DatabaseRaises(w) ==
    /\ "database" \in Faults
    /\ wpc[w] \in InsideTry
    /\ WorkerAt(w, "refund")
    /\ UNCHANGED <<money, runRow, expired, steps, outbox, queue, dispatcher, control>>

\* Before the try, and inside a handler, it ends the job: arq retries no
\* other exception than its own.
OutsideTry == {"begin", "started", "refund", "fail", "block"}

JobRaises(w) ==
    /\ "job" \in Faults
    /\ wpc[w] \in OutsideTry
    /\ JobEnds(w)
    /\ UNCHANGED <<money, runRow, expired, steps, outbox, dispatcher, control>>

\* The coroutine ends after its last commit: it returns, or the handler raises
\* again, with or without the evidence of the failure.
Return(w) ==
    /\ wpc[w] = "done"
    /\ JobEnds(w)
    /\ UNCHANGED <<money, runRow, expired, steps, outbox, dispatcher, control>>

-----------------------------------------------------------------------------
(***************************************************************************)
(* reservation_reaper: selects, then for each run refunds in one           *)
(* transaction and, in another, reads the run without a lock and fails it. *)
(***************************************************************************)
ReaperAt(r, pc) == reaper' = [reaper EXCEPT ![r] = pc]

Expire(r) ==
    /\ status[r] # "none" /\ ~expired[r]
    /\ expired' = [expired EXCEPT ![r] = TRUE]
    /\ UNCHANGED <<money, runRow, steps, outbox, queue, dispatcher, worker, control>>

ReapableUncancelled == {"PENDING_DISPATCH", "QUEUED", "FAIL"}    \* mutation
Reapable == {"PENDING_DISPATCH", "QUEUED", "FAIL", "CANCELLED"}

ReaperSelect(r) ==
    /\ reaper[r] = "idle"
    /\ IsOpen(r) /\ expired[r]
    /\ status[r] \in Reapable
    /\ ReaperAt(r, "refund")
    /\ UNCHANGED <<money, runRow, expired, steps, outbox, queue, dispatcher,
                   worker, refunding, operator>>

ReaperRefund(r) ==
    /\ reaper[r] = "refund"
    /\ RefundIfOpen(r)
    /\ ReaperAt(r, "read")
    /\ UNCHANGED <<runRow, expired, steps, outbox, queue, dispatcher, worker,
                   refunding, operator>>

ReaperRead(r) ==
    /\ reaper[r] = "read"
    /\ ReaperAt(r, IF status[r] \in {"PENDING_DISPATCH", "QUEUED"} THEN "fail" ELSE "idle")
    /\ UNCHANGED <<money, runRow, expired, steps, outbox, queue, dispatcher,
                   worker, refunding, operator>>

ReaperFail(r) ==
    /\ reaper[r] = "fail"
    /\ WriteStatus(r, "FAIL")
    /\ ReaperAt(r, "idle")
    /\ UNCHANGED <<money, expired, steps, outbox, queue, dispatcher, worker,
                   refunding, operator>>

ReaperCrash(r) ==
    /\ "crash" \in Faults
    /\ reaper[r] # "idle"
    /\ ReaperAt(r, "idle")
    /\ UNCHANGED <<money, runRow, expired, steps, outbox, queue, dispatcher,
                   worker, refunding, operator>>

-----------------------------------------------------------------------------
(***************************************************************************)
(* zomega reconcile-run: the check, the money and the status are three     *)
(* transactions, none of which locks the run row.                          *)
(***************************************************************************)
OperatorAt(o, pc) ==
    /\ opc' = [opc EXCEPT ![o] = pc]
    /\ UNCHANGED <<orun, ocharge>>

OperatorDone(o) ==
    /\ opc' = [opc EXCEPT ![o] = "idle"]
    /\ orun' = [orun EXCEPT ![o] = NoRun]
    /\ ocharge' = [ocharge EXCEPT ![o] = 0]

OperatorChecks(o, r) ==
    /\ opc[o] = "idle"
    /\ IsOpen(r) /\ status[r] = "BLOCKED"
    /\ opc' = [opc EXCEPT ![o] = "act"]
    /\ orun' = [orun EXCEPT ![o] = r]
    /\ UNCHANGED <<money, runRow, expired, steps, outbox, queue, dispatcher,
                   worker, refunding, reaper, ocharge>>

OperatorRefunds(o) ==
    /\ opc[o] = "act"
    /\ RefundIfOpen(orun[o])
    /\ OperatorAt(o, "fail")
    /\ UNCHANGED <<runRow, expired, steps, outbox, queue, dispatcher, worker,
                   refunding, reaper>>

OperatorFails(o) ==
    /\ opc[o] = "fail"
    /\ WriteStatus(orun[o], "FAIL")
    /\ OperatorDone(o)
    /\ UNCHANGED <<money, expired, steps, outbox, queue, dispatcher, worker,
                   refunding, reaper>>

OperatorSettles(o, charge) ==
    /\ opc[o] = "act"
    /\ SettleRun(orun[o], charge)
    /\ opc' = [opc EXCEPT ![o] = "partial"]
    /\ ocharge' = [ocharge EXCEPT ![o] = charge]
    /\ UNCHANGED <<runRow, expired, steps, outbox, queue, dispatcher, worker,
                   refunding, reaper, orun>>

OperatorPartial(o) ==
    LET r == orun[o]
    IN  /\ opc[o] = "partial"
        /\ RowFree(r)
        /\ status' = [status EXCEPT ![r] = "PARTIAL"]
        /\ chargedCredits' = [chargedCredits EXCEPT ![r] = ocharge[o]]
        /\ OperatorDone(o)
        /\ UNCHANGED <<money, cancelRequested, expired, steps, outbox, queue,
                       dispatcher, worker, refunding, reaper>>

\* The command is killed, or settle_run raises because the reservation is
\* closed by now.
OperatorAborts(o) ==
    /\ opc[o] # "idle"
    /\ "crash" \in Faults \/ (opc[o] = "act" /\ ~IsOpen(orun[o]))
    /\ OperatorDone(o)
    /\ UNCHANGED <<money, runRow, expired, steps, outbox, queue, dispatcher,
                   worker, refunding, reaper>>

-----------------------------------------------------------------------------
Dispatch(d) ==
    \/ \E r \in Runs : DispatchClaim(d, r)
    \/ DispatchEnqueue(d)
    \/ DispatchFails(d)
    \/ DispatchRead(d)
    \/ DispatchMark(d)

ExecuteRun(w) ==
    \/ BeginSkips(w)
    \/ BeginRuns(w)
    \/ BeginWedges(w)
    \/ Check(w)
    \/ Prepare(w)
    \/ Insert(w)
    \/ \E c \in Charges : ProviderReturns(w, c)
    \/ ProviderRaises(w)
    \/ Settle(w)
    \/ SettleRaises(w)
    \/ Finish(w)
    \/ RefundFailed(w)
    \/ Fail(w)
    \/ Block(w)
    \/ Record(w)
    \/ Return(w)

Reap(r) ==
    \/ ReaperSelect(r)
    \/ ReaperRefund(r)
    \/ ReaperRead(r)
    \/ ReaperFail(r)

Reconcile(o) ==
    \/ \E r \in Runs : OperatorChecks(o, r)
    \/ OperatorRefunds(o)
    \/ OperatorFails(o)
    \/ \E c \in Credits : OperatorSettles(o, c)
    \/ OperatorPartial(o)
    \/ OperatorAborts(o)

LifecycleNext ==
    \/ \E e \in Events : ReceivePayment(e)
    \/ \E r \in Runs : \/ \E a \in Credits : CreateRun(r, a)
                       \/ CancelPending(r)
                       \/ CancelActive(r)
                       \/ CancelRefund(r)
                       \/ CancelCrash(r)
                       \/ AbandonJob(r)
                       \/ ResultExpires(r)
                       \/ Expire(r)
                       \/ Reap(r)
                       \/ ReaperCrash(r)
    \/ \E d \in Dispatchers : Dispatch(d) \/ DispatcherCrash(d)
    \/ \E w \in Workers : \/ \E r \in Runs : TakeJob(w, r)
                          \/ ExecuteRun(w)
                          \/ DatabaseRaises(w)
                          \/ JobRaises(w)
                          \/ JobTimesOut(w)
                          \/ WorkerCrash(w)
                          \/ LeaseExpires(w)
    \/ \E o \in Operators : Reconcile(o)

LifecycleSpec == LifecycleInit /\ [][LifecycleNext]_lvars

(***************************************************************************)
(* What keeps going: the crons run every few seconds or minutes, arq       *)
(* delivers a queued job when a worker is free, a worker does not stop     *)
(* inside a job, time passes, a Redis outage ends, and the dispatch and    *)
(* the reaping of a run are not killed at the same place for ever.  Nobody *)
(* has to pay, create, cancel or reconcile anything.                       *)
(***************************************************************************)
Fairness ==
    /\ \A d \in Dispatchers : WF_lvars(Dispatch(d))
    /\ \A r \in Runs :
           /\ SF_lvars(\E d \in Dispatchers : drun[d] = r /\ DispatchEnqueue(d))
           /\ SF_lvars(\E d \in Dispatchers : drun[d] = r /\ DispatchRead(d))
           /\ SF_lvars(\E d \in Dispatchers : drun[d] = r /\ DispatchMark(d))
    /\ \A w \in Workers : WF_lvars(ExecuteRun(w))
    /\ \A r \in Runs : /\ SF_lvars(\E w \in Workers : TakeJob(w, r))
                     /\ WF_lvars(AbandonJob(r))
                     /\ WF_lvars(CancelRefund(r))
                     /\ WF_lvars(Expire(r))
                     /\ WF_lvars(Reap(r))
                     /\ SF_lvars(ReaperRefund(r))

FairLifecycleSpec == LifecycleSpec /\ Fairness

-----------------------------------------------------------------------------
(***************************************************************************)
(* Properties.                                                             *)
(***************************************************************************)
LifecycleTypeOK ==
    /\ TypeOK
    /\ status \in [Runs -> Statuses]
    /\ cancelRequested \in [Runs -> BOOLEAN]
    /\ chargedCredits \in [Runs -> Credits]
    /\ expired \in [Runs -> BOOLEAN]
    /\ checkpoint \in [Runs -> [Steps -> {"none", "RUNNING", "PASS"}]]
    /\ stepCharge \in [Runs -> [Steps -> Credits]]
    /\ calls \in [Runs -> [Steps -> Nat]]
    /\ outbox \in [Runs -> {"none", "pending", "dispatched"}]
    /\ job \in [Runs -> {"none", "queued", "active", "kept"}]
    /\ tries \in [Runs -> 0 .. MaxTries]
    /\ dpc \in [Dispatchers -> {"idle", "enqueue", "read", "mark"}]
    /\ drun \in [Dispatchers -> Runs \cup {NoRun}]
    /\ dseen \in [Dispatchers -> Statuses]
    /\ wpc \in [Workers -> {"idle", "begin", "wedged", "started", "check", "prepare",
                            "insert", "await", "settle", "finish", "finished", "refund",
                            "fail", "block", "done"}]
    /\ wrun \in [Workers -> Runs \cup {NoRun}]
    /\ wstep \in [Workers -> 1 .. Length + 1]
    /\ wtotal \in [Workers -> Credits]
    /\ woutcome \in [Workers -> {"none", "PASS", "PARTIAL", "CANCELLED"}]
    /\ refunding \subseteq Runs
    /\ reaper \in [Runs -> {"idle", "refund", "read", "fail"}]
    /\ opc \in [Operators -> {"idle", "act", "fail", "partial"}]
    /\ orun \in [Operators -> Runs \cup {NoRun}]
    /\ ocharge \in [Operators -> Credits]

\* However often the job is delivered, and to however many workers at a time,
\* no skill of a run is sent to the provider twice: the unique checkpoint is
\* committed before the call and never removed (jobs.py:26-51).
ProviderCalledOnce == \A r \in Runs, i \in Steps : calls[r][i] <= 1

\* A run reported PASS executed every skill, and the tenant was charged what
\* the skills cost, no more and no less, by the settlement as well as on the
\* run row, whatever the reaper, operators and other workers did meanwhile
\* (jobs.py:188-200).
PassIsPaid ==
    \A r \in Runs : status[r] = "PASS" =>
        /\ \A i \in Steps : checkpoint[r][i] = "PASS"
        /\ reservation[r].status = "settled"
        /\ reservation[r].settled_amount = Total(stepCharge[r])
        /\ chargedCredits[r] = reservation[r].settled_amount

\* What a run row says was charged was settled: no status is written over a
\* charge the reservation does not have (jobs.py:94-103, 151-159; cli.py:49-55).
ChargeIsSettled ==
    \A r \in Runs : chargedCredits[r] # 0 =>
        /\ reservation[r].status = "settled"
        /\ chargedCredits[r] = reservation[r].settled_amount

\* However often a job is taken up again, a skill is sent to the provider only
\* if what the skills before it cost and its own skill_reservation fit in the
\* amount the run reserved (jobs.py:149-151, 168-171).  Not that the credits
\* are still held: a reaper that selected the run before it was started, or an
\* operator, may close the reservation while the call is made.
CallsFitReservation ==
    \A r \in Runs, i \in Steps : checkpoint[r][i] = "RUNNING" =>
        Total([j \in 1 .. i - 1 |-> stepCharge[r][j]]) + Required[i]
            <= reservation[r].amount

\* A cancelled run that was never started is free (api.py:258-273): whoever
\* touches it afterwards, nothing is charged.
NothingForNothing ==
    \A r \in Runs :
        reservation[r].settled_amount > 0 => \E i \in Steps : checkpoint[r][i] # "none"

\* While no worker loses a job (it is killed, stalled or timed out, or a
\* transaction before the try or in a handler raises), PASS stands: neither the
\* reaper's late write nor a dispatcher's nor an operator's replaces it.  Only
\* the worker that wrote it may, with FAIL, because it could not record the
\* completion (jobs.py:201-216, 236-244; outbox.py:49-62; cli.py:49-55).
PassStands ==
    [][\A r \in Runs : status[r] = "PASS" =>
           \/ status'[r] = "PASS"
           \/ /\ status'[r] = "FAIL"
              /\ \E w \in Workers :
                     wrun[w] = r /\ wpc[w] = "fail" /\ woutcome[w] = "PASS"]_lvars

\* No run is started, let alone finished, before its outbox event is marked:
\* the two are written by the same transaction (outbox.py:49-62).
StartedMeansDispatched ==
    \A r \in Runs :
        status[r] \in {"QUEUED", "RUNNING", "CANCEL_REQUESTED", "PASS", "PARTIAL", "BLOCKED"}
            => outbox[r] = "dispatched"

\* No tenant's credits stay reserved for ever, unless a worker loses the job:
\* whatever raises inside execute_run's try, and whenever the API, a dispatcher
\* or the reaper dies, the worker, a cancellation or the reaper closes the
\* reservation (jobs.py:134-244).  A job is lost when its worker is killed or
\* stalled, when it times out, or when a transaction before the try or in a
\* handler raises (jobs.py:106-132, 204-217): the run may then stay RUNNING,
\* which the reaper does not select.
EveryHoldEnds == \A r \in Runs : IsOpen(r) ~> ~IsOpen(r)

\* A run admitted while Redis is down is dispatched once it is back
\* (outbox.py:65-81).
EveryEventDispatched == \A r \in Runs : outbox[r] = "pending" ~> outbox[r] = "dispatched"

\* A cancellation that was acknowledged ends the run, unless a worker loses
\* its job as above: nothing executes for it any more (api.py:249-274;
\* jobs.py:144-146, 188-190).
CancellationEndsRun ==
    \A r \in Runs : status[r] = "CANCEL_REQUESTED" ~> status[r] \in Terminal

\* The tenant's view of a run.  A settled reservation is billed, a refunded
\* one released; a blocked run is in doubt, and so is one that was when an
\* operator who has not acted yet looked at it.
View == INSTANCE PaidRun WITH
    account <- [r \in Runs |->
        CASE reservation[r].status = "none" -> "none"
          [] reservation[r].status = "reserved" -> "held"
          [] reservation[r].status = "settled" -> "billed"
          [] reservation[r].status = "refunded" -> "released"],
    amount <- [r \in Runs |-> reservation[r].amount],
    bill <- [r \in Runs |-> reservation[r].settled_amount],
    started <- [r \in Runs |-> {i \in Steps : checkpoint[r][i] # "none"}],
    cost <- stepCharge,
    doubtful <- {r \in Runs :
        status[r] = "BLOCKED" \/ \E o \in Operators : opc[o] = "act" /\ orun[o] = r}

\* Through crashes, redeliveries and races the run is one the tenant was
\* promised: held first, each skill once and in order, and billed once, and
\* only a blocked run is ever billed anything but what its skills cost.
PaidRunSpec == View!Spec
=============================================================================
