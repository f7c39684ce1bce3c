--------------------------- MODULE DocumentedRun ----------------------------
(***************************************************************************)
(* What the repository's documents, and its own transition table, say of a *)
(* run and the code does not do.  Each property has a run of its own that  *)
(* shows how it fails.                                                     *)
(***************************************************************************)
EXTENDS RunLifecycle

\* state.py:1-12, which no code path consults.
VALID(s) ==
    CASE s = "none" -> {"PENDING_DISPATCH"}
      [] s = "PENDING_DISPATCH" -> {"QUEUED", "CANCELLED", "FAIL"}
      [] s = "QUEUED" -> {"RUNNING", "CANCELLED", "FAIL"}
      [] s = "RUNNING" -> {"PASS", "PARTIAL", "FAIL", "BLOCKED", "CANCEL_REQUESTED"}
      [] s = "CANCEL_REQUESTED" -> {"CANCELLED", "FAIL", "BLOCKED"}
      [] OTHER -> {}

\* A run's status moves along the table, and a terminal status is final
\* (state.py:1-18, tests/test_state.py).  The code writes statuses it read
\* before another transaction changed them.
ValidTransitions ==
    [][\A r \in Runs : status'[r] # status[r] => status'[r] \in VALID(status[r])]_lvars

\* A retry that meets an unresolved RUNNING checkpoint becomes BLOCKED
\* (docs/ARCHITECTURE.md), unless the worker dies first.
AmbiguousRetryIsBlocked ==
    \A w \in Workers, r \in Runs :
        (wpc[w] = "begin" /\ wrun[w] = r /\ status[r] = "RUNNING" /\ Ambiguous(r))
            ~> (status[r] = "BLOCKED" \/ wpc[w] = "idle")

\* Checkpoints make a retry safe (docs/adr/0001): a run whose skills all
\* passed and were settled is not reported as failed and uncharged.
CompletedRunNotFailed ==
    \A r \in Runs :
        /\ \A i \in Steps : checkpoint[r][i] = "PASS"
        /\ reservation[r].status = "settled"
        => ~(status[r] = "FAIL" /\ chargedCredits[r] = 0)
=============================================================================
