---------------------------- MODULE BudgetProofs ----------------------------
(***************************************************************************)
(* Theorems about what is counted: the credits of a user, for every number *)
(* of requests and deliveries and every overlap of them; and the leases of *)
(* a rate limit, for any isolates, tokens, requests, minutes, limits and   *)
(* numbers of mishaps.                                                     *)
(***************************************************************************)
EXTENDS Credits, RateLease, TLAPS

(***************************************************************************)
(* The ledger: a step adds at most one row, of a reference it lacks.       *)
(***************************************************************************)

LEMMA AddRowKeepsReferences ==
    ASSUME OneRowPerReference, NEW a, NEW ref, AddRow(a, ref)
    PROVE  OneRowPerReference'
<1> DEFINE new == [ref |-> ref, at |-> stamp[a], after |-> seen[a] + Amount[ref],
                   done |-> clock]
<1>1. CASE Conflict(ref)
  BY <1>1 DEF AddRow, OneRowPerReference
<1>2. CASE ~Conflict(ref)
  <2>1. ledger' = ledger \cup {new}
    BY <1>2 DEF AddRow
  <2>2. new.ref = ref /\ (\A l \in ledger : l.ref # ref)
    BY <1>2 DEF Conflict
  <2> HIDE DEF new
  <2> QED
    BY <2>1, <2>2 DEF OneRowPerReference
<1> QED
  BY <1>1, <1>2

LEMMA LedgerSteps ==
    ASSUME [Next]_vars
    PROVE  UNCHANGED ledger \/ \E a, ref : AddRow(a, ref)
<1>1. CASE UNCHANGED vars
  BY <1>1 DEF vars
<1>2. ASSUME NEW r \in Requests, Request(r) \/ Meter(r) \/ Close(r)
      PROVE  UNCHANGED ledger \/ \E a, ref : AddRow(a, ref)
  BY <1>2 DEF Request, BeginRequest, Lookup, ReadBalance, AddGrant, ReadCharged,
     ReadSettled, ReadReserved, InsertJob, Meter, Close
<1>3. ASSUME NEW d \in Deliveries, Delivery(d)
      PROVE  UNCHANGED ledger \/ \E a, ref : AddRow(a, ref)
  BY <1>3 DEF Delivery, BeginDelivery, ClaimEvent, ReadBalance, AddPurchase,
     PurchaseFails
<1> QED
  BY <1>1, <1>2, <1>3 DEF Next

\* No purchase and no monthly grant is credited twice, whatever is delivered
\* again and however many requests find the grant missing at once.
THEOREM CreditedOnce == Spec => []OneRowPerReference
<1>1. Init => OneRowPerReference
  BY DEF Init, OneRowPerReference
<1>2. OneRowPerReference /\ [Next]_vars => OneRowPerReference'
  <2> SUFFICES ASSUME OneRowPerReference, [Next]_vars
               PROVE  OneRowPerReference'
    OBVIOUS
  <2>1. CASE UNCHANGED ledger
    BY <2>1 DEF OneRowPerReference
  <2>2. CASE \E a, ref : AddRow(a, ref)
    BY <2>2, AddRowKeepsReferences
  <2> QED
    BY <2>1, <2>2, LedgerSteps
<1> QED
  BY <1>1, <1>2, PTL DEF Spec

(***************************************************************************)
(* The jobs: a key has at most one, and its requests are told that one.    *)
(***************************************************************************)

KeysAreUnique ==
    \A i, j \in Requests :
        (KeyOf[i] = KeyOf[j] /\ KeyOf[i] # NoKey /\ hold[i] # "none" /\ hold[j] # "none")
            => i = j

AnswersFit ==
    \A r \in Requests :
        answer[r] # NoJob =>
            /\ answer[r] \in Requests /\ hold[answer[r]] # "none"
            /\ KeyOf[r] # NoKey => KeyOf[answer[r]] = KeyOf[r]

JobsInv ==
    /\ hold \in [Requests -> {"none", "RESERVED", "SETTLED", "RELEASED"}]
    /\ answer \in [Requests -> Requests \cup {NoJob}]
    /\ KeysAreUnique
    /\ AnswersFit

LEMMA InitJobs == Init => JobsInv
  BY CreditsAssumption DEF Init, JobsInv, KeysAreUnique, AnswersFit

\* A request told of the job of its key.
LEMMA TellKeepsJobs ==
    ASSUME JobsInv, NEW r \in Requests, NEW j \in JobOfKey(r),
           answer' = [answer EXCEPT ![r] = j], UNCHANGED hold
    PROVE  JobsInv'
  BY DEF JobsInv, KeysAreUnique, AnswersFit, JobOfKey

LEMMA InsertKeepsJobs ==
    ASSUME JobsInv, NEW r \in Requests, InsertJob(r)
    PROVE  JobsInv'
<1>1. CASE JobOfKey(r) # {}
  BY <1>1, TellKeepsJobs DEF InsertJob
<1>2. CASE JobOfKey(r) = {}
  <2>1. /\ hold' = [hold EXCEPT ![r] = "RESERVED"]
        /\ answer' = [answer EXCEPT ![r] = r]
    BY <1>2 DEF InsertJob
  <2>2. \A j \in Requests : KeyOf[r] # NoKey /\ KeyOf[j] = KeyOf[r] => hold[j] = "none"
    BY <1>2 DEF JobOfKey
  <2>3. KeysAreUnique'
    BY <2>1, <2>2 DEF JobsInv, KeysAreUnique
  <2>4. AnswersFit'
    BY <2>1 DEF JobsInv, AnswersFit
  <2> QED
    BY <2>1, <2>3, <2>4 DEF JobsInv
<1> QED
  BY <1>1, <1>2

LEMMA NextJobs == JobsInv /\ [Next]_vars => JobsInv'
<1> SUFFICES ASSUME JobsInv, [Next]_vars
             PROVE  JobsInv'
  OBVIOUS
<1>1. CASE UNCHANGED <<hold, answer>>
  BY <1>1 DEF JobsInv, KeysAreUnique, AnswersFit
<1>2. ASSUME NEW r \in Requests, InsertJob(r)
      PROVE  JobsInv'
  BY <1>2, InsertKeepsJobs
<1>3. ASSUME NEW r \in Requests, Lookup(r)
      PROVE  JobsInv'
  BY <1>1, <1>3, TellKeepsJobs DEF Lookup
<1>4. ASSUME NEW r \in Requests, Close(r)
      PROVE  JobsInv'
  <2>1. \A j \in Requests : hold'[j] # "none" <=> hold[j] # "none"
    BY <1>4 DEF Close, JobsInv
  <2>2. hold' \in [Requests -> {"none", "RESERVED", "SETTLED", "RELEASED"}]
    BY <1>4 DEF Close, JobsInv
  <2> QED
    BY <1>4, <2>1, <2>2 DEF Close, JobsInv, KeysAreUnique, AnswersFit
<1>5. ASSUME NEW a, \/ BeginRequest(a) \/ ReadBalance(a) \/ AddGrant(a)
                    \/ ReadCharged(a) \/ ReadSettled(a) \/ ReadReserved(a)
                    \/ Meter(a) \/ Delivery(a)
      PROVE  UNCHANGED <<hold, answer>>
  BY <1>5 DEF BeginRequest, ReadBalance, AddGrant, ReadCharged, ReadSettled,
     ReadReserved, Meter, Delivery, BeginDelivery, ClaimEvent, AddPurchase,
     PurchaseFails
<1> QED
  BY <1>1, <1>2, <1>3, <1>4, <1>5 DEF Next, Request, vars

\* Requests with one idempotency key are told one job, which has its
\* reservation, however they overlap.
THEOREM OneJob == Spec => []OneJobPerKey
<1>1. JobsInv => OneJobPerKey
  BY DEF JobsInv, KeysAreUnique, AnswersFit, OneJobPerKey
<1> QED
  BY <1>1, InitJobs, NextJobs, PTL DEF Spec

(***************************************************************************)
(* The purchases: an event that is claimed is in the ledger or with the    *)
(* delivery that claimed it.                                               *)
(***************************************************************************)

Handling(d) == phase[d] \in {"grant", "granting"}

ClaimsAreServed ==
    \A e \in events :
        Conflict(e) \/ \E d \in Deliveries : EventOf[d] = e /\ Handling(d)

PaidInv ==
    /\ phase = [a \in Agents |-> phase[a]]
    /\ ClaimsAreServed
    /\ PaidIsGranted

\* A row once written stays, and the row asked for is there afterwards.
LEMMA RowsStay ==
    ASSUME NEW a, NEW ref, AddRow(a, ref), NEW e
    PROVE  (Conflict(e) \/ e = ref) => Conflict(e)'
<1> DEFINE new == [ref |-> ref, at |-> stamp[a], after |-> seen[a] + Amount[ref],
                   done |-> clock]
<1>1. CASE Conflict(ref)
  BY <1>1 DEF AddRow, Conflict
<1>2. CASE ~Conflict(ref)
  <2>1. ledger' = ledger \cup {new} /\ new.ref = ref
    BY <1>2 DEF AddRow
  <2> HIDE DEF new
  <2> QED
    BY <2>1 DEF Conflict
<1> QED
  BY <1>1, <1>2

\* A step that claims no event, acknowledges none and ends no delivery that was
\* under way.
LEMMA PaidFrame ==
    ASSUME PaidInv, phase' = [a \in Agents |-> phase'[a]], events' = events, acked' = acked,
           \A e : Conflict(e) => Conflict(e)',
           \A d \in Deliveries : /\ Handling(d) => Handling(d)'
                                 /\ d \in Open => d \in Open'
                                 /\ phase[d] = "overtaken" => phase'[d] = "overtaken"
    PROVE  PaidInv'
<1>1. ClaimsAreServed'
  BY DEF PaidInv, ClaimsAreServed
<1>2. PaidIsGranted'
  BY DEF PaidInv, PaidIsGranted
<1> QED
  BY <1>1, <1>2 DEF PaidInv

\* No request touches a delivery.
LEMMA RequestsKeepPaid ==
    ASSUME PaidInv, NEW r \in Requests, Request(r) \/ Meter(r) \/ Close(r)
    PROVE  PaidInv'
<1>1. UNCHANGED <<events, acked>> /\ phase' = [a \in Agents |-> phase'[a]]
  BY DEF PaidInv, Request, BeginRequest, Lookup, ReadBalance, AddGrant, ReadCharged, ReadSettled,
     ReadReserved, InsertJob, Meter, Close, Goto
<1>2. \A d \in Deliveries : phase'[d] = phase[d]
  BY CreditsAssumption DEF PaidInv, Request, BeginRequest, Lookup, ReadBalance, AddGrant,
     ReadCharged, ReadSettled, ReadReserved, InsertJob, Meter, Close, Goto, Agents
<1>3. \A e : Conflict(e) => Conflict(e)'
  <2>1. UNCHANGED ledger \/ AddRow(r, Monthly)
    BY DEF Request, BeginRequest, Lookup, ReadBalance, AddGrant, ReadCharged, ReadSettled,
       ReadReserved, InsertJob, Meter, Close
  <2> QED
    BY <2>1, RowsStay DEF Conflict
<1> QED
  BY <1>1, <1>2, <1>3, PaidFrame DEF Handling, Open, Agents

LEMMA ClaimKeepsPaid ==
    ASSUME PaidInv, NEW d \in Deliveries, ClaimEvent(d)
    PROVE  PaidInv'
<1> DEFINE e == EventOf[d]
<1>1. /\ phase[d] = "claim" /\ ~Handling(d)
      /\ \A c \in Deliveries \ {d} : phase'[c] = phase[c]
      /\ phase' = [a \in Agents |-> phase'[a]]
      /\ events' = events \cup {e}
      /\ \A x : Conflict(x)' <=> Conflict(x)
  BY DEF ClaimEvent, Goto, PaidInv, Handling, Conflict, Agents
<1>2. CASE e \in events
  <2>1. acked' = acked \cup {e} /\ events' = events
    BY <1>1, <1>2 DEF ClaimEvent
  <2>2. ClaimsAreServed'
    BY <1>1, <2>1 DEF PaidInv, ClaimsAreServed, Handling
  <2>3. Conflict(e) \/ \E c \in Deliveries : EventOf[c] = e /\ c \in Open'
    BY <1>1, <1>2 DEF PaidInv, ClaimsAreServed, Handling, Open, Agents, DeliveryPhase
  <2>4. ASSUME NEW x \in acked, x # e
        PROVE  \/ Conflict(x)'
               \/ \E c \in Deliveries : EventOf[c] = x /\ (c \in Open' \/ phase'[c] = "overtaken")
    BY <1>1, <2>4 DEF PaidInv, PaidIsGranted, Open, Agents
  <2> QED
    BY <1>1, <2>1, <2>2, <2>3, <2>4 DEF PaidInv, PaidIsGranted
<1>3. CASE e \notin events
  <2>1. acked' = acked /\ phase'[d] = "grant"
    BY <1>3 DEF ClaimEvent, Goto, PaidInv, Agents
  <2>2. ClaimsAreServed'
    BY <1>1, <2>1 DEF PaidInv, ClaimsAreServed, Handling
  <2>3. \A c \in Deliveries : /\ c \in Open => c \in Open'
                              /\ phase[c] = "overtaken" => phase'[c] = "overtaken"
    BY <1>1, <2>1 DEF Open, Agents, DeliveryPhase
  <2> QED
    BY <1>1, <2>1, <2>2, <2>3 DEF PaidInv, PaidIsGranted
<1> QED
  BY <1>2, <1>3

LEMMA DeliveriesKeepPaid ==
    ASSUME PaidInv, NEW d \in Deliveries, Delivery(d)
    PROVE  PaidInv'
<1> DEFINE e == EventOf[d]
<1>1. CASE BeginDelivery(d) \/ ReadBalance(d)
  <2>1. /\ \A c \in Deliveries \ {d} : phase'[c] = phase[c]
        /\ phase' = [a \in Agents |-> phase'[a]]
        /\ phase[d] # "overtaken"
        /\ Handling(d) => Handling(d)'
        /\ d \in Open'
        /\ UNCHANGED <<ledger, events, acked>>
    BY <1>1 DEF BeginDelivery, ReadBalance, Goto, PaidInv, Handling, Open, Agents, DeliveryPhase
  <2> QED
    BY <2>1, PaidFrame DEF Conflict, Handling, Open
<1>2. CASE ClaimEvent(d)
  BY <1>2, ClaimKeepsPaid
<1>3. CASE AddPurchase(d)
  <2>1. /\ phase[d] = "granting"
        /\ \A c \in Deliveries \ {d} : phase'[c] = phase[c]
        /\ phase' = [a \in Agents |-> phase'[a]]
        /\ events' = events /\ acked' = acked \cup {e}
    BY <1>3 DEF AddPurchase, Goto, PaidInv, Agents
  <2>2. \A x : (Conflict(x) \/ x = e) => Conflict(x)'
    BY <1>3, RowsStay DEF AddPurchase
  <2>3. ClaimsAreServed'
    BY <2>1, <2>2 DEF PaidInv, ClaimsAreServed, Handling
  <2>4. PaidIsGranted'
    BY <2>1, <2>2 DEF PaidInv, PaidIsGranted, Open, Agents
  <2> QED
    BY <2>1, <2>3, <2>4 DEF PaidInv
<1>4. CASE PurchaseFails(d)
  <2>1. /\ phase[d] = "granting"
        /\ \A c \in Deliveries \ {d} : phase'[c] = phase[c]
        /\ phase' = [a \in Agents |-> phase'[a]]
        /\ e \in acked => phase'[d] = "overtaken"
        /\ events' = events \ {e} /\ acked' = acked
        /\ \A x : Conflict(x)' <=> Conflict(x)
    BY <1>4 DEF PurchaseFails, ForgetEvent, Goto, PaidInv, Agents, Conflict
  <2>2. ClaimsAreServed'
    BY <2>1 DEF PaidInv, ClaimsAreServed, Handling
  <2>3. PaidIsGranted'
    BY <2>1 DEF PaidInv, PaidIsGranted, Open, Agents
  <2> QED
    BY <2>1, <2>2, <2>3 DEF PaidInv
<1> QED
  BY <1>1, <1>2, <1>3, <1>4 DEF Delivery

\* A purchase Stripe has been told 200 for is in the ledger once nobody handles
\* it, unless a delivery failed that another had been told of: for every number
\* of events and of deliveries of each, however they overlap and fail.
THEOREM PaidForIsGranted == Spec => []PaidIsGranted
<1>1. Init => PaidInv
  BY DEF Init, PaidInv, ClaimsAreServed, PaidIsGranted
<1>2. PaidInv /\ [Next]_vars => PaidInv'
  <2> SUFFICES ASSUME PaidInv, [Next]_vars
               PROVE  PaidInv'
    OBVIOUS
  <2>1. CASE UNCHANGED vars
    BY <2>1, PaidFrame DEF vars, PaidInv, Conflict, Handling, Open
  <2> QED
    BY <2>1, RequestsKeepPaid, DeliveriesKeepPaid DEF Next
<1>3. PaidInv => PaidIsGranted
  BY DEF PaidInv
<1> QED
  BY <1>1, <1>2, <1>3, PTL DEF Spec

-----------------------------------------------------------------------------
(***************************************************************************)
(* Leases.  That hits are never given back twice is about sums over pools  *)
(* and statements, and stays with TLC.                                     *)
(***************************************************************************)

\* p has the fields of a pool.  The property compares no numbers but a pool's
\* own, so that their types play no part.
IsPool(p) == DOMAIN p = {"remaining", "size", "spent", "expired", "timer", "hits"}

Pools ==
    /\ pool = [k \in Keys |-> pool[k]]
    /\ \A k \in Keys : IsPool(pool[k])

LeaseInv == Pools /\ LeftoversGoBack

LEMMA NoPoolIsIdle == IsPool(NoPool) /\ ~WorthReturning(NoPool)
BY DEF NoPool, IsPool, WorthReturning

LEMMA EmptiedIsIdle ==
    ASSUME NEW p, IsPool(p)
    PROVE  IsPool(Emptied(p)) /\ ~WorthReturning(Emptied(p))
BY DEF IsPool, Emptied, WorthReturning

-----------------------------------------------------------------------------
(***************************************************************************)
(* The two ways a step changes pools.                                      *)
(***************************************************************************)

\* armRelease leaves a timer for a pool that is worth one, whatever the pool was
\* before.
LEMMA Armed ==
    ASSUME LeaseInv, NEW k, NEW p, IsPool(p), ArmRelease(k, p)
    PROVE  LeaseInv'
<1> DEFINE q == [p EXCEPT !.timer = @ + 1]
<1>1. IsPool(q) /\ q.timer = p.timer + 1
    BY DEF IsPool
<1>2. CASE WorthReturning(p)
    <2>1. pool' = [pool EXCEPT ![k] = q] /\ timers' = timers \cup {<<k, p.timer + 1>>}
        BY <1>2 DEF ArmRelease
    <2> HIDE DEF q
    <2>2. Pools' /\ \A d \in Keys : pool'[d] = IF d = k THEN q ELSE pool[d]
        BY <2>1, <1>1 DEF LeaseInv, Pools, Keys
    <2>3. ASSUME NEW d \in Keys, WorthReturning(pool'[d])
          PROVE  <<d, pool'[d].timer>> \in timers'
        <3>1. CASE d = k
            BY <3>1, <2>1, <2>2, <1>1
        <3>2. CASE d # k
            BY <3>2, <2>1, <2>2, <2>3 DEF LeaseInv, LeftoversGoBack
        <3> QED BY <3>1, <3>2
    <2> QED BY <2>2, <2>3 DEF LeaseInv, LeftoversGoBack, WorthReturning, ReadCap, Keys
<1>3. CASE ~WorthReturning(p)
    <2>1. pool' = [pool EXCEPT ![k] = p] /\ timers' = timers
        BY <1>3 DEF ArmRelease
    <2>2. Pools' /\ \A d \in Keys : pool'[d] = IF d = k THEN p ELSE pool[d]
        BY <2>1 DEF LeaseInv, Pools, Keys
    <2> QED BY <2>1, <2>2, <1>3 DEF LeaseInv, LeftoversGoBack, WorthReturning, ReadCap, Keys
<1> QED BY <1>2, <1>3

\* The other steps keep the property: each pool they leave worth an update is the
\* one that was there, but for what no timer reads, and its timer still sleeps.
LEMMA Kept ==
    ASSUME LeaseInv, Pools',
           \A d \in Keys : WorthReturning(pool'[d]) =>
               /\ WorthReturning(pool[d]) /\ pool'[d].timer = pool[d].timer
               /\ <<d, pool[d].timer>> \in timers => <<d, pool[d].timer>> \in timers'
    PROVE  LeaseInv'
BY DEF LeaseInv, LeftoversGoBack, WorthReturning, ReadCap, Keys

LEMMA PutAway ==
    ASSUME LeaseInv, timers' = timers, NEW k, NEW p, IsPool(p),
           pool' = [pool EXCEPT ![k] = p],
           \/ ~WorthReturning(p)
           \/ /\ p.remaining = pool[k].remaining /\ p.hits = pool[k].hits
              /\ p.timer = pool[k].timer
    PROVE  LeaseInv'
<1>1. Pools' /\ \A d \in Keys : pool'[d] = IF d = k THEN p ELSE pool[d]
    BY DEF LeaseInv, Pools, Keys
<1>2. \A d \in Keys : WorthReturning(pool'[d]) =>
        WorthReturning(pool[d]) /\ pool'[d].timer = pool[d].timer
    BY <1>1 DEF WorthReturning
<1> QED BY <1>1, <1>2, Kept

-----------------------------------------------------------------------------
(***************************************************************************)
(* The steps.                                                              *)
(***************************************************************************)

LEMMA LeasesInit == LeaseInit => LeaseInv
<1> SUFFICES ASSUME LeaseInit PROVE LeaseInv
    OBVIOUS
<1>1. pool = [k \in Keys |-> pool[k]] /\ \A k \in Keys : pool[k] = NoPool
    BY DEF LeaseInit
<1> QED BY <1>1, NoPoolIsIdle DEF LeaseInv, Pools, LeftoversGoBack

LEMMA SpendHolds ==
    ASSUME LeaseInv, NEW r \in Calls, NEW k \in Keys, SpendLease(r, k)
    PROVE  LeaseInv'
<1>1. IsPool(pool[k])
    BY DEF LeaseInv, Pools
<1>2. IsPool(Spent(pool[k]))
    BY <1>1 DEF IsPool, Spent
<1> QED BY <1>2, Armed DEF SpendLease

LEMMA AcceptHolds ==
    ASSUME LeaseInv, NEW r \in Calls, AcceptGrant(r)
    PROVE  LeaseInv'
<1>1. IsPool(Joined(req[r].key, req[r]))
    BY DEF IsPool, Joined
<1> QED BY <1>1, Armed DEF AcceptGrant

LEMMA WakeHolds ==
    ASSUME LeaseInv, NEW t \in timers, Wake(t)
    PROVE  LeaseInv'
<1> DEFINE k == t[1]
<1>1. timers' = timers \ {t}
    BY DEF Wake
<1>2. CASE pool[k].timer = t[2] /\ WorthReturning(pool[k])
    <2>1. pool' = [pool EXCEPT ![k] = Emptied(pool[k])]
        BY <1>2 DEF Wake
    <2>2. \A d \in Keys : pool'[d] = IF d = k THEN Emptied(pool[k]) ELSE pool[d]
        BY <2>1 DEF LeaseInv, Pools
    <2>3. Pools'
        BY <2>1, <2>2, EmptiedIsIdle DEF LeaseInv, Pools, Keys
    <2>4. ASSUME NEW d \in Keys, WorthReturning(pool'[d])
          PROVE  d # t[1] /\ pool'[d] = pool[d]
        BY <2>2, <2>4, EmptiedIsIdle DEF LeaseInv, Pools
    <2>5. \A d \in Keys : d # t[1] => <<d, pool[d].timer>> # t
        OBVIOUS
    <2> QED BY <1>1, <2>3, <2>4, <2>5, Kept
<1>3. CASE ~(pool[k].timer = t[2] /\ WorthReturning(pool[k]))
    <2>1. pool' = pool
        BY <1>3 DEF Wake
    <2>2. \A d \in Keys : WorthReturning(pool[d]) => <<d, pool[d].timer>> # t
        BY <1>3
    <2> QED BY <1>1, <2>1, <2>2, Kept DEF LeaseInv, Pools, Keys
<1> QED BY <1>2, <1>3

LEMMA EvictHolds ==
    ASSUME LeaseInv, NEW i \in Isolates, Evict(i)
    PROVE  LeaseInv'
<1>1. pool' = [k \in Keys |-> IF k[1] = i THEN NoPool ELSE pool[k]]
    BY DEF Evict
<1>2. timers' = {t \in timers : t[1][1] # i}
    BY DEF Evict
<1>3. Pools'
    BY <1>1, NoPoolIsIdle DEF LeaseInv, Pools, Keys
<1>4. ASSUME NEW d \in Keys, WorthReturning(pool'[d])
      PROVE  d[1] # i /\ pool'[d] = pool[d]
    BY <1>1, <1>4, NoPoolIsIdle
<1>5. \A d \in Keys : <<d, pool[d].timer>>[1] = d
    OBVIOUS
<1> QED BY <1>2, <1>3, <1>4, <1>5, Kept

LEMMA SweepHolds ==
    ASSUME LeaseInv, NEW k \in Keys, Sweep(k)
    PROVE  LeaseInv'
<1>1. pool' = Swept(k) /\ timers' = timers
    BY Zenon DEF Sweep
<1>2. Pools'
    BY <1>1, NoPoolIsIdle DEF LeaseInv, Pools, Swept, Keys
<1>3. ASSUME NEW d \in Keys, WorthReturning(pool'[d])
      PROVE  pool'[d] = pool[d]
    BY <1>1, <1>3, NoPoolIsIdle DEF Swept
<1> QED BY <1>1, <1>2, <1>3, Kept

\* The actions that put a pool away, empty it or mark it expired, and those that
\* leave the pools and the timers alone.
LEMMA ClaimHolds ==
    ASSUME LeaseInv, NEW r \in Calls, NEW k \in Keys, StartClaim(r, k)
    PROVE  LeaseInv'
<1>1. timers' = timers /\ IsPool(pool[k])
    BY DEF StartClaim, LeaseInv, Pools
<1>2. CASE pool[k].expired
    <2> DEFINE p == [pool[k] EXCEPT !.remaining = 0, !.spent = FALSE]
    <2>1. pool' = [pool EXCEPT ![k] = p]
        BY <1>2 DEF StartClaim
    <2>2. IsPool(p) /\ ~WorthReturning(p)
        BY <1>1 DEF IsPool, WorthReturning
    <2> QED BY <1>1, <2>1, <2>2, PutAway
<1>3. CASE ~pool[k].expired
    <2>1. pool' = [pool EXCEPT ![k] = pool[k]]
        BY <1>3 DEF StartClaim
    <2> QED BY <1>1, <2>1, PutAway
<1> QED BY <1>2, <1>3

LEMMA ExpireHolds ==
    ASSUME LeaseInv, NEW k \in Keys, Expire(k)
    PROVE  LeaseInv'
<1> DEFINE p == [pool[k] EXCEPT !.expired = TRUE]
<1>1. timers' = timers /\ pool' = [pool EXCEPT ![k] = p]
    BY DEF Expire
<1>2. IsPool(p) /\ p.remaining = pool[k].remaining /\ p.hits = pool[k].hits
      /\ p.timer = pool[k].timer
    BY DEF LeaseInv, Pools, IsPool
<1> HIDE DEF p
<1> QED BY <1>1, <1>2, PutAway

LEMMA ClearHolds ==
    ASSUME LeaseInv, NEW k \in Keys, ClearLease(k)
    PROVE  LeaseInv'
<1>1. timers' = timers /\ IsPool(pool[k])
    BY DEF ClearLease, LeaseInv, Pools
<1>2. CASE pool[k].remaining > 0
    <2>1. pool' = [pool EXCEPT ![k] = Emptied(pool[k])]
        BY <1>2 DEF ClearLease
    <2> QED BY <1>1, <2>1, EmptiedIsIdle, PutAway
<1>3. CASE ~(pool[k].remaining > 0)
    <2>1. pool' = [pool EXCEPT ![k] = pool[k]]
        BY <1>3 DEF ClearLease
    <2> QED BY <1>1, <2>1, PutAway
<1> QED BY <1>2, <1>3

LEMMA SamePools ==
    ASSUME LeaseInv, UNCHANGED <<pool, timers>>
    PROVE  LeaseInv'
BY Kept DEF LeaseInv, Pools, Keys

LEMMA PoolGone ==
    ASSUME LeaseInv, NEW k, pool' = [pool EXCEPT ![k] = NoPool], timers' = timers
    PROVE  LeaseInv'
BY NoPoolIsIdle, PutAway

LEMMA LeasesStep == LeaseInv /\ [LeaseNext]_leaseVars => LeaseInv'
<1> SUFFICES ASSUME LeaseInv, [LeaseNext]_leaseVars PROVE LeaseInv'
    OBVIOUS
<1>1. ASSUME NEW r \in Calls, NEW k \in Keys, SpendLease(r, k) \/ StartClaim(r, k)
      PROVE  LeaseInv'
    BY <1>1, SpendHolds, ClaimHolds
<1>2. ASSUME NEW r \in Calls,
             Revalidate(r) \/ Claim(r) \/ AcceptGrant(r) \/ RefuseGrant(r) \/ ClaimFails(r)
      PROVE  LeaseInv'
    <2>1. CASE Revalidate(r)
        <3>1. timers' = timers
            BY <2>1, Zenon DEF Revalidate
        <3>2. pool' = [pool EXCEPT ![req[r].key] = NoPool] \/ pool' = pool
            BY <2>1, Zenon DEF Revalidate
        <3> QED BY <3>1, <3>2, PoolGone, SamePools
    <2>2. CASE Claim(r)
        BY <2>2, SamePools, Zenon DEF Claim
    <2>3. CASE AcceptGrant(r)
        BY <2>3, AcceptHolds
    <2>4. CASE RefuseGrant(r)
        <3>1. timers' = timers /\ pool' = [pool EXCEPT ![req[r].key] = NoPool]
            BY <2>4, Zenon DEF RefuseGrant
        <3> QED BY <3>1, PoolGone
    <2>5. CASE ClaimFails(r)
        BY <2>5, SamePools DEF ClaimFails
    <2> QED BY <1>2, <2>1, <2>2, <2>3, <2>4, <2>5
<1>3. ASSUME NEW k \in Keys, Expire(k) \/ Closed(k) \/ ClearLease(k)
      PROVE  LeaseInv'
    <2>1. CASE Closed(k)
        BY <2>1, PoolGone DEF Closed
    <2> QED BY <1>3, <2>1, ExpireHolds, ClearHolds
<1>4. ASSUME NEW k \in Keys, Sweep(k)
      PROVE  LeaseInv'
    BY <1>4, SweepHolds
<1>5. ASSUME NEW t \in timers, Wake(t)
      PROVE  LeaseInv'
    BY <1>5, WakeHolds
<1>6. ASSUME NEW w \in Windows, NEW n \in 1 .. ReadCap, Returned(w, n)
      PROVE  LeaseInv'
    BY <1>6, SamePools DEF Returned
<1>7. ASSUME NEW t \in Tokens, TokenEnds(t) \/ \E i \in Isolates : Logout(i, t)
      PROVE  LeaseInv'
    BY <1>7, SamePools DEF TokenEnds, Logout
<1>8. ASSUME Cleared PROVE LeaseInv'
    <2>1. timers' = timers /\ pool' = [pool EXCEPT ![logout.key] = NoPool]
        BY <1>8, Zenon DEF Cleared
    <2> QED BY <2>1, PoolGone
<1>9. ASSUME LogoutDone \/ Consume \/ NextMinute PROVE LeaseInv'
    BY <1>9, SamePools DEF LogoutDone, Consume, NextMinute
<1>10. ASSUME NEW i \in Isolates, Evict(i) PROVE LeaseInv'
    BY <1>10, EvictHolds
<1>11. CASE UNCHANGED leaseVars
    BY <1>11, SamePools DEF leaseVars
<1> QED BY <1>1, <1>2, <1>3, <1>4, <1>5, <1>6, <1>7, <1>8, <1>9, <1>10, <1>11 DEF LeaseNext

\* Whatever timers, claims, sweeps, logouts and evictions do to each other, the
\* timer that armRelease left for a pool still sleeps while the pool is worth an
\* update: the check of `timer` in the timer's callback drops no pool.
THEOREM LeftoversReturn == LeaseSpec => []LeftoversGoBack
<1>1. LeaseInv => LeftoversGoBack
    BY DEF LeaseInv
<1> QED BY LeasesInit, LeasesStep, <1>1, PTL DEF LeaseSpec

=============================================================================
