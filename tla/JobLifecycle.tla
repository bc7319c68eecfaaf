--------------------------- MODULE JobLifecycle ---------------------------
(***************************************************************************)
(* What the queue promises about one background job, as the API and the    *)
(* billing pages see it: the job's state, the attempts it has cost and the *)
(* reservation that pays for it.  Streams, workers, locks and dispatcher   *)
(* passes are not visible here; JobQueue implements this specification for *)
(* every job that no operator reopens, as long as every worker that is     *)
(* alive keeps its heartbeat.                                              *)
(***************************************************************************)
EXTENDS Integers

CONSTANTS
    Limit,      \* attempts a job may cost
    Charged     \* whether the job's type costs credits

VARIABLES
    state,      \* "none", "waiting", "running" or how the job ended
    attempts,   \* attempts it has cost
    hold        \* its reservation

vars == <<state, attempts, hold>>

Ended == {"DONE", "FAILED", "DEAD", "CANCELLED"}

Init ==
    /\ state = "none"
    /\ attempts = 0
    /\ hold = "none"

\* The job and its reservation appear together.
Submit ==
    /\ state = "none"
    /\ state' = "waiting"
    /\ hold' = IF Charged THEN "RESERVED" ELSE "none"
    /\ UNCHANGED attempts

Start ==
    /\ state = "waiting"
    /\ state' = "running"
    /\ UNCHANGED <<attempts, hold>>

\* A worker gives the job back unharmed: its conversation or its user is busy,
\* or the worker shuts down.
HandBack ==
    /\ state = "running"
    /\ state' = "waiting"
    /\ UNCHANGED <<attempts, hold>>

\* A failed or lost run costs an attempt; the job waits for another one ...
Retry ==
    /\ state = "running"
    /\ attempts + 1 < Limit
    /\ attempts' = attempts + 1
    /\ state' = "waiting"
    /\ UNCHANGED hold

\* ... or has had its last, when the reservation may be given up at once.
Die ==
    /\ state = "running"
    /\ attempts + 1 = Limit
    /\ attempts' = attempts + 1
    /\ state' = "DEAD"
    /\ hold' \in {hold, IF hold = "RESERVED" THEN "RELEASED" ELSE hold}

\* The handler answers, or rejects the job for good.
Answer ==
    /\ state = "running"
    /\ state' \in {"DONE", "FAILED"}
    /\ UNCHANGED <<attempts, hold>>

Cancel ==
    /\ state \in {"waiting", "running"}
    /\ state' = "CANCELLED"
    /\ UNCHANGED <<attempts, hold>>

\* A job is charged once, after its answer (which a cancellation may overtake).
Charge ==
    /\ state \in {"DONE", "CANCELLED"}
    /\ hold = "RESERVED"
    /\ hold' = "SETTLED"
    /\ UNCHANGED <<state, attempts>>

\* What ended without an answer costs nothing.
Refund ==
    /\ state \in {"FAILED", "DEAD", "CANCELLED"}
    /\ hold = "RESERVED"
    /\ hold' = "RELEASED"
    /\ UNCHANGED <<state, attempts>>

Next ==
    \/ Submit \/ Start \/ HandBack \/ Retry \/ Die \/ Answer \/ Cancel
    \/ Charge \/ Refund

Spec == Init /\ [][Next]_vars
=============================================================================
