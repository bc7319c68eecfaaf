----------------------------- MODULE RateLease -----------------------------
(***************************************************************************)
(* The requests of one user are counted per minute in one row that the     *)
(* core Worker, the Python API and every isolate of the gateway share.     *)
(* The others add one per request.  A gateway isolate claims several hits  *)
(* at once with the statement that reads the token, keeps what is left of  *)
(* them in a pool for the next requests of the token, and gives back what  *)
(* no request came for: by a timer, with its next claim, when another      *)
(* request finds the pool expired or of an earlier minute, or at logout.   *)
(*                                                                         *)
(* An isolate runs one callback at a time, so a step is what happens       *)
(* between two awaits, or one statement.  How much time has passed is left *)
(* open: any pool may have expired, any sleeping timer may be due.         *)
(***************************************************************************)
EXTENDS Integers, FiniteSets, FiniteSetsExt

CONSTANTS
    Isolates,       \* isolates of the gateway
    Tokens,         \* access tokens of the user
    Calls,          \* what one isolate or another may be handling at once
    Windows,        \* bound: the minutes, 1 .. n
    Limit,          \* limits.user
    MaxLease,       \* MAX_LEASE, 8 in the code
    Share,          \* a claim takes this share of the room left, 16 in the code
    Lone,           \* a lone hit goes back above this share of the cap, 4 in the code
    MaxMishaps      \* bound: statements that raise, isolates evicted

ASSUME RateLeaseAssumption ==
    /\ 1 \in Windows /\ \A w \in Windows : w \in Nat /\ 1 .. w \subseteq Windows
    /\ \A c \in {Limit, MaxLease, Share, Lone} : c \in Nat /\ c > 0
    /\ MaxMishaps \in Nat

\* A token in a minute, as one isolate knows it.
Keys == Isolates \X Tokens \X Windows

\* Reads stop under the limit, so that writes find room.
ReadCap == IF Limit < 10 THEN Limit ELSE Limit - Limit \div 10

NoPool == [remaining |-> 0, size |-> 0, spent |-> FALSE, expired |-> FALSE,
           timer |-> 0, hits |-> -1]

Idle == [at |-> "idle"]

VARIABLES
    hits,       \* rate_limits.hits of each minute; no row is 0
    served,     \* requests let through on a hit of the row, a history
    pool,       \* leases
    full,       \* keys whose remoteHits is at the cap
    timers,     \* sleeping: the key and the epoch it was armed with.  Two with
                \* one epoch do what one does
    closing,    \* hits a timer is giving back for the pool still in the map
    returning,  \* other RELEASE_SQLs under way: how many of each amount
    req,        \* requests that wait for a statement
    logout,     \* clearLease of a request that follows a logout or a refresh
    ended,      \* tokens that are expired or revoked
    now, mishaps

leaseVars == <<hits, served, pool, full, timers, closing, returning, req, logout,
               ended, now, mishaps>>

LeaseInit ==
    /\ hits = [w \in Windows |-> 0]
    /\ served = [w \in Windows |-> 0]
    /\ pool = [k \in Keys |-> NoPool]
    /\ full = {}
    /\ timers = {}
    /\ closing = [k \in Keys |-> 0]
    /\ returning = [w \in Windows |-> [n \in 1 .. ReadCap |-> 0]]
    /\ req = [r \in Calls |-> Idle]
    /\ logout = Idle
    /\ ended = {}
    /\ now = 1
    /\ mishaps = 0

-----------------------------------------------------------------------------
(***************************************************************************)
(* The pools of an isolate.                                                *)
(***************************************************************************)

Least(a, b) == IF a <= b THEN a ELSE b
Most(a, b) == IF a <= b THEN b ELSE a

\* One unused hit is not worth an update while most of the cap is free.
WorthReturning(p) ==
    /\ p.remaining > 0
    /\ p.remaining > 1 \/ p.hits >= ReadCap \div Lone

\* Nothing is armed for the small change, whatever was armed before.
ArmFewer(k, p) ==
    IF p.remaining > 1
    THEN /\ pool' = [pool EXCEPT ![k] = [p EXCEPT !.timer = @ + 1]]
         /\ timers' = timers \cup {<<k, p.timer + 1>>}
    ELSE pool' = [pool EXCEPT ![k] = p] /\ UNCHANGED timers

\* armRelease: the key's pool becomes p, with a timer of its own.
ArmRelease(k, p) ==
    IF WorthReturning(p)
    THEN /\ pool' = [pool EXCEPT ![k] = [p EXCEPT !.timer = @ + 1]]
         /\ timers' = timers \cup {<<k, p.timer + 1>>}
    ELSE pool' = [pool EXCEPT ![k] = p] /\ UNCHANGED timers

\* The statements that give back the pools of ks, n(k) hits for key k.
Started(ks, n(_)) ==
    [w \in Windows |-> [a \in 1 .. ReadCap |->
        returning[w][a] + Cardinality({k \in ks : k[3] = w /\ n(k) = a})]]

\* A pool leaves the map: what a timer is giving back of it arrives all the same.
Forget(k) ==
    /\ returning' = Started({k}, LAMBDA d : closing[d])
    /\ closing' = [closing EXCEPT ![k] = 0]

\* releaseExpired: the isolate's other pools that expired or are of an earlier
\* minute.
Due(k) ==
    {d \in Keys \ {k} :
        d[1] = k[1] /\ pool[d].remaining > 0 /\ (d[3] # k[3] \/ pool[d].expired)}

\* releaseLease takes the hits out before it awaits.
Swept(k) == [d \in Keys |-> IF d \in Due(k) THEN NoPool ELSE pool[d]]

Sweep(k) ==
    /\ pool' = Swept(k)
    /\ full' = full \ Due(k)
    /\ returning' = Started(Due(k), LAMBDA d : pool[d].remaining)
    /\ UNCHANGED <<hits, served, timers, closing, req, logout, ended, now,
                   mishaps>>

Expire(k) ==
    /\ pool[k] # NoPool /\ ~pool[k].expired
    /\ pool' = [pool EXCEPT ![k].expired = TRUE]
    /\ UNCHANGED <<hits, served, full, timers, closing, returning, req, logout,
                   ended, now, mishaps>>

-----------------------------------------------------------------------------
(***************************************************************************)
(* tokenContext.  It returns other pools first, in a step of its own: the  *)
(* rest finds none that is due.                                            *)
(***************************************************************************)

Left(k) == IF pool[k].expired THEN 0 ELSE pool[k].remaining

Leftover(k) == IF pool[k].expired THEN pool[k].remaining ELSE 0

\* A pool used up before it expired doubles the next claim.
NextBatch(k) ==
    IF pool[k].spent /\ ~pool[k].expired
    THEN Least(MaxLease, 2 * Most(1, pool[k].size))
    ELSE 1

Arrives(r, k) == req[r].at = "idle" /\ k[3] = now /\ Due(k) = {}

\* A hit is left: it is taken before anything is awaited.  The token is known
\* to the isolate, or read again.
Spent(p) == [p EXCEPT !.remaining = @ - 1, !.expired = FALSE, !.spent = (p.remaining = 1)]
SpendLease(r, k) ==
    /\ Arrives(r, k)
    /\ Left(k) > 0
    /\ ArmRelease(k, Spent(pool[k]))
    /\ served' = [served EXCEPT ![now] = @ + 1]
    /\ req' \in {req, [req EXCEPT ![r] = [at |-> "revalidate", key |-> k]]}
    /\ UNCHANGED <<hits, full, closing, returning, logout, ended, now,
                   mishaps>>

\* The token is read again; one that ended takes the pool with it.
Revalidate(r) ==
    /\ req[r].at = "revalidate"
    /\ LET k == req[r].key IN
        IF k[2] \in ended
        THEN pool' = [pool EXCEPT ![k] = NoPool] /\ Forget(k)
        ELSE UNCHANGED <<pool, closing, returning>>
    /\ req' = [req EXCEPT ![r] = Idle]
    /\ UNCHANGED <<hits, served, full, timers, logout, ended, now, mishaps>>

\* None is left: unless the isolate knows that the row is full, the claim takes
\* what an expired pool had along.
StartClaim(r, k) ==
    /\ Arrives(r, k)
    /\ Left(k) = 0
    /\ k \in full => Leftover(k) > 0
    /\ req' = [req EXCEPT ![r] = [at |-> "claim", key |-> k, batch |-> NextBatch(k),
                                  release |-> Leftover(k)]]
    /\ pool' = [pool EXCEPT ![k] =
                    IF @.expired THEN [@ EXCEPT !.remaining = 0, !.spent = FALSE] ELSE @]
    /\ UNCHANGED <<hits, served, full, timers, closing, returning, logout,
                   ended, now, mishaps>>

-----------------------------------------------------------------------------
(***************************************************************************)
(* AUTH_RATE_SQL, and what the isolate makes of its row.                   *)
(***************************************************************************)

After(w, back) == Most(0, hits[w] - back)

Granted(w, batch, back) ==
    LET room == Most(0, ReadCap - After(w, back)) IN
    IF room = 0 THEN 0 ELSE Least(Least(batch, room), Most(1, room \div Share))

\* Nothing is counted for a token that ended, and nothing given back.
Claim(r) ==
    /\ req[r].at = "claim"
    /\ LET k == req[r].key  w == k[3]  back == req[r].release
           grant == Granted(w, req[r].batch, back)
           found(h, g) == [req EXCEPT ![r] = [at |-> "claimed", key |-> k, hits |-> h,
                                              granted |-> g]]
       IN  IF k[2] \in ended
           THEN req' = [req EXCEPT ![r] = Idle] /\ UNCHANGED hits
           ELSE IF back > 0 \/ hits[w] < ReadCap
           THEN /\ hits' = [hits EXCEPT ![w] = After(w, back) + grant]
                /\ req' = found(hits'[w], grant)
           ELSE req' = found(ReadCap, 0) /\ UNCHANGED hits
    /\ UNCHANGED <<served, pool, full, timers, closing, returning, logout,
                   ended, now, mishaps>>

\* acceptGrant: one hit is for this request, the others join the pool that is
\* there by now.
Joined(k, row) ==
    [remaining |-> pool[k].remaining + row.granted - 1,
     size |-> row.granted,
     spent |-> pool[k].remaining + row.granted = 1,
     expired |-> FALSE,
     timer |-> pool[k].timer,
     hits |-> row.hits]

AcceptGrant(r) ==
    /\ req[r].at = "claimed"
    /\ req[r].granted > 0 /\ req[r].hits <= ReadCap
    /\ LET k == req[r].key IN
        /\ ArmRelease(k, Joined(k, req[r]))
        /\ Forget(k)
        /\ full' = IF req[r].hits >= ReadCap THEN full \cup {k} ELSE full \ {k}
        /\ served' = [served EXCEPT ![k[3]] = @ + 1]
    /\ req' = [req EXCEPT ![r] = Idle]
    /\ UNCHANGED <<hits, logout, ended, now, mishaps>>

RefuseGrant(r) ==
    /\ req[r].at = "claimed"
    /\ req[r].granted = 0 \/ req[r].hits > ReadCap
    /\ LET k == req[r].key IN
        /\ pool' = [pool EXCEPT ![k] = NoPool]
        /\ Forget(k)
        /\ full' = full \cup {k}
    /\ req' = [req EXCEPT ![r] = Idle]
    /\ UNCHANGED <<hits, served, timers, logout, ended, now, mishaps>>

\* The statement raises, before or after it took effect: the request is counted
\* in the isolate's memory instead.
ClaimFails(r) ==
    /\ req[r].at \in {"claim", "claimed"}
    /\ mishaps < MaxMishaps
    /\ mishaps' = mishaps + 1
    /\ req' = [req EXCEPT ![r] = Idle]
    /\ UNCHANGED <<hits, served, pool, full, timers, closing, returning, logout,
                   ended, now>>

-----------------------------------------------------------------------------
(***************************************************************************)
(* Giving back: RELEASE_SQL.                                               *)
(***************************************************************************)

StillThere(p) == [p EXCEPT !.spent = FALSE]
Emptied(p) == [p EXCEPT !.remaining = 0, !.spent = FALSE]

\* A timer wakes up; all but the newest find another epoch.
Wake(t) ==
    /\ t \in timers
    /\ timers' = timers \ {t}
    /\ LET k == t[1] IN
        IF pool[k].timer = t[2] /\ WorthReturning(pool[k])
        THEN /\ closing' = [closing EXCEPT ![k] = pool[k].remaining]
             /\ pool' = [pool EXCEPT ![k] = Emptied(@)]
        ELSE UNCHANGED <<pool, closing>>
    /\ UNCHANGED <<hits, served, full, returning, req, logout, ended, now,
                   mishaps>>

\* Its statement is done, or raised, and the pool, which no grant has replaced,
\* leaves the map.
Closed(k) ==
    /\ closing[k] > 0
    /\ \/ hits' = [hits EXCEPT ![k[3]] = After(k[3], closing[k])] /\ UNCHANGED mishaps
       \/ mishaps < MaxMishaps /\ mishaps' = mishaps + 1 /\ UNCHANGED hits
    /\ closing' = [closing EXCEPT ![k] = 0]
    /\ pool' = [pool EXCEPT ![k] = NoPool]
    /\ full' = full \ {k}
    /\ UNCHANGED <<served, timers, returning, req, logout, ended, now>>

Returned(w, n) ==
    /\ returning[w][n] > 0
    /\ \/ hits' = [hits EXCEPT ![w] = After(w, n)] /\ UNCHANGED mishaps
       \/ mishaps < MaxMishaps /\ mishaps' = mishaps + 1 /\ UNCHANGED hits
    /\ returning' = [returning EXCEPT ![w][n] = @ - 1]
    /\ UNCHANGED <<served, pool, full, timers, closing, req, logout, ended, now,
                   mishaps>>

\* A logout or refresh through the gateway: the token ends, then clearLease gives
\* its pools back one after the other and removes what the map has by then.
Logout(i, t) ==
    /\ logout.at = "idle"
    /\ t \notin ended
    /\ ended' = ended \cup {t}
    /\ logout' = [at |-> "next", isolate |-> i,
                  keys |-> {k \in Keys : k[1] = i /\ k[2] = t /\ pool[k] # NoPool}]
    /\ UNCHANGED <<hits, served, pool, full, timers, closing, returning, req,
                   now, mishaps>>

ClearLease(k) ==
    /\ logout.at = "next"
    /\ k \in logout.keys
    /\ logout' = [at |-> "removing", isolate |-> k[1], key |-> k,
                  amount |-> pool[k].remaining, keys |-> logout.keys \ {k}]
    /\ pool' = [pool EXCEPT ![k] = IF @.remaining > 0 THEN Emptied(@) ELSE @]
    /\ UNCHANGED <<hits, served, full, timers, closing, returning, req, ended,
                   now, mishaps>>

Cleared ==
    /\ logout.at = "removing"
    /\ LET k == logout.key IN
        /\ \/ /\ hits' = [hits EXCEPT ![k[3]] = After(k[3], logout.amount)]
              /\ UNCHANGED mishaps
           \/ /\ logout.amount > 0 /\ mishaps < MaxMishaps
              /\ mishaps' = mishaps + 1
              /\ UNCHANGED hits
        /\ pool' = [pool EXCEPT ![k] = NoPool]
        /\ full' = full \ {k}
        /\ Forget(k)
    /\ logout' = [at |-> "next", isolate |-> logout.isolate, keys |-> logout.keys]
    /\ UNCHANGED <<served, timers, req, ended, now>>

LogoutDone ==
    /\ logout.at = "next" /\ logout.keys = {}
    /\ logout' = Idle
    /\ UNCHANGED <<hits, served, pool, full, timers, closing, returning, req,
                   ended, now, mishaps>>

-----------------------------------------------------------------------------
(***************************************************************************)
(* The surroundings.                                                       *)
(***************************************************************************)

\* CONSUME_SQL of the core Worker and of the Python API.
Consume ==
    /\ hits[now] < Limit
    /\ hits' = [hits EXCEPT ![now] = @ + 1]
    /\ served' = [served EXCEPT ![now] = @ + 1]
    /\ UNCHANGED <<pool, full, timers, closing, returning, req, logout, ended,
                   now, mishaps>>

NextMinute ==
    /\ now + 1 \in Windows
    /\ now' = now + 1
    /\ UNCHANGED <<hits, served, pool, full, timers, closing, returning, req,
                   logout, ended, mishaps>>

\* The isolate is gone: its maps, timers, requests and statements not yet sent.
Evict(i) ==
    /\ mishaps < MaxMishaps
    /\ mishaps' = mishaps + 1
    /\ pool' = [k \in Keys |-> IF k[1] = i THEN NoPool ELSE pool[k]]
    /\ closing' = [k \in Keys |-> IF k[1] = i THEN 0 ELSE closing[k]]
    /\ full' = {k \in full : k[1] # i}
    /\ timers' = {t \in timers : t[1][1] # i}
    /\ req' = [r \in Calls |->
                IF req[r].at # "idle" /\ req[r].key[1] = i THEN Idle ELSE req[r]]
    /\ logout' = IF logout.at # "idle" /\ logout.isolate = i THEN Idle ELSE logout
    /\ UNCHANGED <<hits, served, returning, ended, now>>

\* The token expires, or is revoked elsewhere.
TokenEnds(t) ==
    /\ t \notin ended
    /\ ended' = ended \cup {t}
    /\ UNCHANGED <<hits, served, pool, full, timers, closing, returning, req,
                   logout, now, mishaps>>

LeaseNext ==
    \/ \E r \in Calls, k \in Keys : SpendLease(r, k) \/ StartClaim(r, k)
    \/ \E r \in Calls :
        Revalidate(r) \/ Claim(r) \/ AcceptGrant(r) \/ RefuseGrant(r) \/ ClaimFails(r)
    \/ \E k \in Keys : Expire(k) \/ Closed(k) \/ ClearLease(k)
    \/ \E k \in Keys : k[3] = now /\ Due(k) # {} /\ Sweep(k)
    \/ \E t \in timers : Wake(t)
    \/ \E w \in Windows, n \in 1 .. ReadCap : Returned(w, n)
    \/ \E t \in Tokens : TokenEnds(t) \/ \E i \in Isolates : Logout(i, t)
    \/ Cleared \/ LogoutDone
    \/ Consume \/ NextMinute
    \/ \E i \in Isolates : Evict(i)

LeaseSpec == LeaseInit /\ [][LeaseNext]_leaseVars

-----------------------------------------------------------------------------
(***************************************************************************)
(* What the shared counter promises.                                       *)
(***************************************************************************)

\* Hits of a minute that were claimed and may still be served or given back.
Outstanding(w) ==
    MapThenSumSet(LAMBDA k : pool[k].remaining + closing[k], {k \in Keys : k[3] = w})
    + MapThenSumSet(LAMBDA n : n * returning[w][n], 1 .. ReadCap)
    + MapThenSumSet(LAMBDA r : IF req[r].at = "claim" THEN req[r].release
                               ELSE IF req[r].at = "claimed" THEN req[r].granted ELSE 0,
                    {r \in Calls : req[r].at # "idle" /\ req[r].key[3] = w})
    + (IF logout.at = "removing" /\ logout.key[3] = w THEN logout.amount ELSE 0)

\* The row never counts fewer hits than were served and can still be: however
\* timers, claims, sweeps and logouts overlap, no hit is given back twice or given
\* back and served.  So the user's requests stay within the limit wherever they
\* are handled, but for those counted in memory when a statement raised.
RowCoversUse ==
    \A w \in Windows :
        /\ hits[w] >= served[w] + Outstanding(w)
        /\ hits[w] <= Limit

\* A pool worth an update never sits in an isolate that no request visits again:
\* a timer with its epoch sleeps, whatever older timers did.
LeftoversGoBack ==
    \A k \in Keys : WorthReturning(pool[k]) => <<k, pool[k].timer>> \in timers
=============================================================================
