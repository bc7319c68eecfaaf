------------------------------ MODULE Credits ------------------------------
(***************************************************************************)
(* The credits of one owner: the ledger of purchases with its running      *)
(* balance, the requests that reserve credits when they enqueue a job, the *)
(* Stripe webhook that records purchases, and the worker that meters and   *)
(* settles the jobs.                                                       *)
(*                                                                         *)
(* The core Worker has no transaction around a request: each statement is  *)
(* one of its own.  An INSERT ... SELECT is two steps, the snapshot its    *)
(* SELECT reads and the row it adds.  A ledger row is dated by the clock   *)
(* its request read when it began, which is what "last" goes by.           *)
(***************************************************************************)
EXTENDS Integers, FiniteSets, FiniteSetsExt

CONSTANTS
    Requests,       \* POST requests that enqueue a paid job
    KeyOf,          \* idempotency key of each request, or NoKey
    Deliveries,     \* deliveries of Stripe's checkout events
    EventOf,        \* the event of each delivery, named as its checkout session
    Monthly,        \* reference of this month's grant
    Amount,         \* what each reference is worth
    Estimate,       \* what a job reserves; a job costs no more
    MaxOpen,        \* bound: requests and deliveries open at once
    MaxErrors,      \* bound: ledger inserts that raise
    NoKey, NoJob

Agents == Requests \cup Deliveries

References == {EventOf[d] : d \in Deliveries} \cup {Monthly}

ASSUME CreditsAssumption ==
    /\ Requests \cap Deliveries = {}
    /\ IsFiniteSet(Requests) /\ IsFiniteSet(Deliveries)
    /\ Amount \in [References -> Nat]
    /\ Estimate \in Nat \ {0}
    /\ MaxOpen \in Nat /\ MaxErrors \in Nat
    /\ NoJob \notin Requests

\* The phases of a request and of a delivery.  A request looks its key up,
\* makes sure of the monthly grant (two steps), reads what is charged, settled
\* and reserved, and inserts; a delivery claims its event and writes its row
\* (two steps).  "overtaken": it failed when the event had been acknowledged.
RequestPhase == {"lookup", "grant", "granting", "charged", "settled", "reserved", "insert"}
DeliveryPhase == {"claim", "grant", "granting"}

VARIABLES
    ledger,     \* billing_ledger: the reference of a row, when its request began,
                \* balance_after and, a history, how many had begun when it was
                \* inserted
    events,     \* stripe_events
    hold,       \* credit_reservations.status of the job of each request
    usage,      \* ai_usage, SETTLED rows of each job
    phase,      \* where each request and delivery is
    stamp,      \* the clock reading each began with
    seen,       \* what its last read added up to
    answer,     \* the job each request was told
    acked,      \* events Stripe was told 200 for
    clock, errors

vars == <<ledger, events, hold, usage, phase, stamp, seen, answer, acked, clock, errors>>

Init ==
    /\ ledger = {}
    /\ events = {}
    /\ hold = [r \in Requests |-> "none"]
    /\ usage = [r \in Requests |-> 0]
    /\ phase = [a \in Agents |-> "new"]
    /\ stamp = [a \in Agents |-> 0]
    /\ seen = [a \in Agents |-> 0]
    /\ answer = [r \in Requests |-> NoJob]
    /\ acked = {}
    /\ clock = 0
    /\ errors = 0

Open == {a \in Agents : phase[a] \in RequestPhase \cup DeliveryPhase}

Goto(a, p) == phase' = [phase EXCEPT ![a] = p]

-----------------------------------------------------------------------------
(***************************************************************************)
(* The sums.                                                               *)
(***************************************************************************)

\* balance_after of the row ORDER BY created_at DESC LIMIT 1, or 0.
FirstBalance ==
    IF ledger = {} THEN 0
    ELSE (CHOOSE l \in ledger : \A k \in ledger : l.at <= k.at).after
LastBalance ==
    IF ledger = {} THEN 0
    ELSE (CHOOSE l \in ledger : \A k \in ledger : k.at <= l.at).after

Settled == MapThenSumSet(LAMBDA r : usage[r], Requests)

Reserved == Estimate * Cardinality({r \in Requests : hold[r] = "RESERVED"})

-----------------------------------------------------------------------------
(***************************************************************************)
(* Writing a row of the ledger: USER_GRANT and the like.                   *)
(***************************************************************************)

\* ON CONFLICT (user_id, type, reference_id) DO NOTHING.
NoConflict(ref) == FALSE
Conflict(ref) == \E l \in ledger : l.ref = ref

ReadBalance(a) ==
    /\ phase[a] = "grant"
    /\ seen' = [seen EXCEPT ![a] = LastBalance]
    /\ Goto(a, "granting")
    /\ UNCHANGED <<ledger, events, hold, usage, stamp, answer, acked, clock, errors>>

AddRow(a, ref) ==
    ledger' = IF Conflict(ref) THEN ledger
              ELSE ledger \cup
                   {[ref |-> ref, at |-> stamp[a], after |-> seen[a] + Amount[ref],
                     done |-> clock]}

-----------------------------------------------------------------------------
(***************************************************************************)
(* enqueueJob.                                                             *)
(***************************************************************************)

\* The job of this request's key, if any.
NoJobOfKey(r) == {}
JobOfKey(r) ==
    {j \in Requests : KeyOf[r] # NoKey /\ KeyOf[j] = KeyOf[r] /\ hold[j] # "none"}

BeginRequest(r) ==
    /\ phase[r] = "new"
    /\ Cardinality(Open) < MaxOpen
    /\ Goto(r, "lookup")
    /\ UNCHANGED <<ledger, events, hold, usage, stamp, seen, answer, acked, clock, errors>>

\* A known key is answered with its job; otherwise the clock is read for the
\* grant.
Lookup(r) ==
    /\ phase[r] = "lookup"
    /\ IF JobOfKey(r) # {}
       THEN /\ \E j \in JobOfKey(r) : answer' = [answer EXCEPT ![r] = j]
            /\ Goto(r, "answered")
            /\ UNCHANGED <<stamp, clock>>
       ELSE /\ clock' = clock + 1
            /\ stamp' = [stamp EXCEPT ![r] = clock']
            /\ Goto(r, "grant")
            /\ UNCHANGED answer
    /\ UNCHANGED <<ledger, events, hold, usage, seen, acked, errors>>

\* ensureMonthlyGrant's row.
AddGrant(r) ==
    /\ phase[r] = "granting"
    /\ AddRow(r, Monthly)
    /\ Goto(r, "charged")
    /\ UNCHANGED <<events, hold, usage, stamp, seen, answer, acked, clock, errors>>

\* availableMicro: three reads ...
ReadCharged(r) ==
    /\ phase[r] = "charged"
    /\ seen' = [seen EXCEPT ![r] = LastBalance]
    /\ Goto(r, "settled")
    /\ UNCHANGED <<ledger, events, hold, usage, stamp, answer, acked, clock, errors>>

ReadSettled(r) ==
    /\ phase[r] = "settled"
    /\ seen' = [seen EXCEPT ![r] = @ - Settled]
    /\ Goto(r, "reserved")
    /\ UNCHANGED <<ledger, events, hold, usage, stamp, answer, acked, clock, errors>>

\* ... and reserveCredits' comparison after the third.
ReadReserved(r) ==
    /\ phase[r] = "reserved"
    /\ seen' = [seen EXCEPT ![r] = @ - Reserved]
    /\ Goto(r, IF seen'[r] < Estimate THEN "refused" ELSE "insert")
    /\ UNCHANGED <<ledger, events, hold, usage, stamp, answer, acked, clock, errors>>

\* INSERT_WITH_RESERVE; a key used meanwhile violates UNIQUE (user_id,
\* idempotency_key) and is answered with the job that has it.
InsertJob(r) ==
    /\ phase[r] = "insert"
    /\ IF JobOfKey(r) # {}
       THEN /\ \E j \in JobOfKey(r) : answer' = [answer EXCEPT ![r] = j]
            /\ UNCHANGED hold
       ELSE /\ hold' = [hold EXCEPT ![r] = "RESERVED"]
            /\ answer' = [answer EXCEPT ![r] = r]
    /\ Goto(r, "answered")
    /\ UNCHANGED <<ledger, events, usage, stamp, seen, acked, clock, errors>>

Request(r) ==
    \/ BeginRequest(r) \/ Lookup(r) \/ ReadBalance(r) \/ AddGrant(r)
    \/ ReadCharged(r) \/ ReadSettled(r) \/ ReadReserved(r) \/ InsertJob(r)

-----------------------------------------------------------------------------
(***************************************************************************)
(* webhook, for a paid checkout session.  Stripe delivers an event again,  *)
(* also while an earlier delivery is still being handled, until one is     *)
(* answered 200.                                                           *)
(***************************************************************************)

BeginDelivery(d) ==
    /\ phase[d] = "new"
    /\ EventOf[d] \notin acked
    /\ Cardinality(Open) < MaxOpen
    /\ clock' = clock + 1
    /\ stamp' = [stamp EXCEPT ![d] = clock']
    /\ Goto(d, "claim")
    /\ UNCHANGED <<ledger, events, hold, usage, seen, answer, acked, errors>>

\* INSERT INTO stripe_events; an event already there is answered at once.
ClaimEvent(d) ==
    /\ phase[d] = "claim"
    /\ events' = events \cup {EventOf[d]}
    /\ IF EventOf[d] \in events
       THEN Goto(d, "answered") /\ acked' = acked \cup {EventOf[d]}
       ELSE Goto(d, "grant") /\ UNCHANGED acked
    /\ UNCHANGED <<ledger, hold, usage, stamp, seen, answer, clock, errors>>

AddPurchase(d) ==
    /\ phase[d] = "granting"
    /\ AddRow(d, EventOf[d])
    /\ Goto(d, "answered")
    /\ acked' = acked \cup {EventOf[d]}
    /\ UNCHANGED <<events, hold, usage, stamp, seen, answer, clock, errors>>

\* What the catch block leaves of stripe_events.
KeepEvent(e) == events
ForgetEvent(e) == events \ {e}

\* The insert raised: the event is forgotten and Stripe is told 500; it may have
\* been told 200 by a delivery that found the event claimed.
PurchaseFails(d) ==
    /\ phase[d] = "granting"
    /\ errors < MaxErrors
    /\ errors' = errors + 1
    /\ events' = ForgetEvent(EventOf[d])
    /\ Goto(d, IF EventOf[d] \in acked THEN "overtaken" ELSE "failed")
    /\ UNCHANGED <<ledger, hold, usage, stamp, seen, answer, acked, clock>>

Delivery(d) ==
    \/ BeginDelivery(d) \/ ClaimEvent(d) \/ ReadBalance(d) \/ AddPurchase(d)
    \/ PurchaseFails(d)

-----------------------------------------------------------------------------
(***************************************************************************)
(* The worker's side of a job.                                             *)
(***************************************************************************)

\* ai_usage rows become SETTLED while the handler runs, the reservation after.
Meter(j) ==
    /\ hold[j] = "RESERVED"
    /\ usage[j] = 0
    /\ \E cost \in 1 .. Estimate : usage' = [usage EXCEPT ![j] = cost]
    /\ UNCHANGED <<ledger, events, hold, phase, stamp, seen, answer, acked, clock, errors>>

\* settle_job and release_job.
Close(j) ==
    /\ hold[j] = "RESERVED"
    /\ \E as \in {"SETTLED", "RELEASED"} : hold' = [hold EXCEPT ![j] = as]
    /\ UNCHANGED <<ledger, events, usage, phase, stamp, seen, answer, acked, clock, errors>>

Next ==
    \/ \E r \in Requests : Request(r) \/ Meter(r) \/ Close(r)
    \/ \E d \in Deliveries : Delivery(d)

Spec == Init /\ [][Next]_vars

-----------------------------------------------------------------------------
(***************************************************************************)
(* What the credits promise.                                               *)
(***************************************************************************)

\* Requests with one idempotency key are told one job, and it has its
\* reservation, whichever of them gets past the lookup.
OneJobPerKey ==
    \A r, s \in Requests :
        /\ answer[r] # NoJob => hold[answer[r]] # "none"
        /\ (/\ KeyOf[r] = KeyOf[s] /\ KeyOf[r] # NoKey
            /\ answer[r] # NoJob /\ answer[s] # NoJob)
             => answer[r] = answer[s]

\* A purchase is credited once, however often it is delivered and however many
\* requests find the month's grant missing.
OneRowPerReference == \A k, l \in ledger : k.ref = l.ref => k = l

\* The running balance is the sum of what was credited, unless the writers of
\* two rows overlapped: then the later-dated row may lack the other, and so may
\* every row after it.
Overlapped(k, l) == k # l /\ k.at <= l.done /\ l.at <= k.done
BalanceIsSum ==
    \/ LastBalance = MapThenSumSet(LAMBDA l : Amount[l.ref], ledger)
    \/ \E k, l \in ledger : Overlapped(k, l)

\* What a job holds of the owner's credits: its estimate, then its cost.
Committed ==
    MapThenSumSet(LAMBDA r : IF hold[r] = "RESERVED" THEN Estimate ELSE usage[r],
                  Requests)

\* Jobs are admitted only while the balance covers what they reserve.
NoOverdraft == Committed <= LastBalance

\* Once Stripe has been told 200 for a session and no delivery of it is being
\* handled, the purchase is in the ledger: nobody will deliver it again.  The
\* exception: a delivery that found the event claimed was told 200, and the one
\* that had claimed it then failed.
PaidIsGranted ==
    \A e \in acked :
        \/ Conflict(e)
        \/ \E d \in Deliveries : EventOf[d] = e /\ (d \in Open \/ phase[d] = "overtaken")
=============================================================================
