----------------------------- MODULE Idempotency -----------------------------
(***************************************************************************)
(* Idempotent POST requests: the requests of one user for one path with    *)
(* one Idempotency-Key, hence one row of idempotency_keys.  The path is    *)
(* answered by the core Worker, idempotent() of handler.ts, or by the      *)
(* Python API, whose middleware keeps its records in the same table and    *)
(* treats a stale one otherwise.  Every statement is a step of its own,    *)
(* and a request may be killed anywhere.                                   *)
(***************************************************************************)
EXTENDS Integers

CONSTANTS
    Requests,       \* the requests; each has an id of its own for the row
    HashOf,         \* request_hash of each
    PendingMs,      \* PENDING_MS, in ticks of the clock
    MaxClock,       \* bound: ticks of the clock
    MaxErrors,      \* bound: statements that raise, and requests killed
    NoRow, NoRequest

ASSUME IdempotencyAssumption ==
    /\ PendingMs \in Nat /\ MaxClock \in Nat /\ MaxErrors \in Nat
    /\ NoRequest \notin Requests
    /\ NoRow \notin [id : Requests, at : 0 .. MaxClock, stored : BOOLEAN]

\* id, created_at, and whether response_status is set; the response stored is
\* the one of the run of request id.
Row == [id : Requests, at : 0 .. MaxClock, stored : BOOLEAN]

VARIABLES
    api,        \* who answers the path: "core" or "python"
    row,        \* the row of the key, or NoRow
    pc, now,    \* where each request is, and ctx.now
    found,      \* the stale row a request is about to delete
    answer,     \* whose response the request was answered with
    begun,      \* clock when the handler began, a history
    done,       \* requests whose handler ended with a 2xx, a history
    clock, errors

vars == <<api, row, pc, now, found, answer, begun, done, clock, errors>>

\* Every variable stays in its domain, and a request about to delete a stale row
\* knows which.
TypeOK ==
    /\ api \in {"core", "python"}
    /\ row \in Row \cup {NoRow}
    /\ pc \in [Requests -> {"new", "insert", "read", "drop", "reinsert", "run",
                            "store", "forget", "answered", "conflict", "failed"}]
    /\ now \in [Requests -> 0 .. MaxClock]
    /\ found \in [Requests -> Requests \cup {NoRequest}]
    /\ \A r \in Requests : pc[r] = "drop" => found[r] \in Requests
    /\ answer \in [Requests -> Requests \cup {NoRequest}]
    /\ begun \in [Requests -> 0 .. MaxClock]
    /\ done \subseteq Requests
    /\ clock \in 0 .. MaxClock
    /\ errors \in 0 .. MaxErrors

Init ==
    /\ api \in {"core", "python"}
    /\ row = NoRow
    /\ pc = [r \in Requests |-> "new"]
    /\ now = [r \in Requests |-> 0]
    /\ found = [r \in Requests |-> NoRequest]
    /\ answer = [r \in Requests |-> NoRequest]
    /\ begun = [r \in Requests |-> 0]
    /\ done = {}
    /\ clock = 0
    /\ errors = 0

Goto(r, step) == pc' = [pc EXCEPT ![r] = step]

Err ==
    /\ errors < MaxErrors
    /\ errors' = errors + 1

-----------------------------------------------------------------------------
(***************************************************************************)
(* The statements.                                                         *)
(***************************************************************************)

\* INSERT ... ON CONFLICT DO NOTHING.
InsertRow(r) ==
    row' = IF row = NoRow THEN [id |-> r, at |-> now[r], stored |-> FALSE] ELSE row

\* DELETE ... WHERE id = i AND response_status IS NULL; the mutation
\* loses the id.
DropByKey(i) == row' = IF row # NoRow /\ ~row.stored THEN NoRow ELSE row
DropPending(i) ==
    row' = IF row # NoRow /\ row.id = i /\ ~row.stored THEN NoRow ELSE row

\* UPDATE ... WHERE id = r; the mutation finds the row by its key.
StoreByKey(r) ==
    row' = IF row # NoRow THEN [row EXCEPT !.id = r, !.stored = TRUE] ELSE row
StoreResponse(r) ==
    row' = IF row # NoRow /\ row.id = r THEN [row EXCEPT !.stored = TRUE] ELSE row

\* What the SELECT found, as request r judges it: the core Worker has read the
\* clock when the request came, the Python API reads it again.
Judged(r) == IF api = "core" THEN now[r] ELSE clock
Stale(r) == ~row.stored /\ Judged(r) - row.at > PendingMs

AnyBody(r) == row.stored
Replayable(r) == row.stored /\ HashOf[row.id] = HashOf[r]

FoundId == row.id

-----------------------------------------------------------------------------
(***************************************************************************)
(* idempotent.                                                             *)
(***************************************************************************)

Arrive(r) ==
    /\ pc[r] = "new"
    /\ now' = [now EXCEPT ![r] = clock]
    /\ Goto(r, "insert")
    /\ UNCHANGED <<api, row, found, answer, begun, done, clock, errors>>

Insert(r) ==
    /\ pc[r] = "insert"
    /\ InsertRow(r)
    /\ IF row = NoRow
       THEN Goto(r, "run") /\ begun' = [begun EXCEPT ![r] = clock]
       ELSE Goto(r, "read") /\ UNCHANGED begun
    /\ UNCHANGED <<api, now, found, answer, done, clock, errors>>

\* No row any more is a 500.
ReadExisting(r) ==
    /\ pc[r] = "read"
    /\ \/ /\ row = NoRow
          /\ Goto(r, "failed")
          /\ UNCHANGED <<found, answer>>
       \/ /\ row # NoRow /\ Stale(r)
          /\ found' = [found EXCEPT ![r] = FoundId]
          /\ Goto(r, "drop")
          /\ UNCHANGED answer
       \/ /\ row # NoRow /\ ~Stale(r) /\ Replayable(r)
          /\ answer' = [answer EXCEPT ![r] = row.id]
          /\ Goto(r, "answered")
          /\ UNCHANGED found
       \/ /\ row # NoRow /\ ~Stale(r) /\ ~Replayable(r)
          /\ Goto(r, "conflict")
          /\ UNCHANGED <<found, answer>>
    /\ UNCHANGED <<api, row, now, begun, done, clock, errors>>

\* The stale row goes, unless its response has been stored meanwhile; then the
\* core Worker starts over, and the Python API inserts its record once more.
DropStale(r) ==
    /\ pc[r] = "drop"
    /\ DropPending(found[r])
    /\ Goto(r, IF api = "core" THEN "insert" ELSE "reinsert")
    /\ UNCHANGED <<api, now, found, answer, begun, done, clock, errors>>

\* Without the row the Python API answers from the record it read before, which
\* had no response.
Reinsert(r) ==
    /\ pc[r] = "reinsert"
    /\ InsertRow(r)
    /\ IF row = NoRow
       THEN Goto(r, "run") /\ begun' = [begun EXCEPT ![r] = clock]
       ELSE Goto(r, "conflict") /\ UNCHANGED begun
    /\ UNCHANGED <<api, now, found, answer, done, clock, errors>>

\* dispatch answers a 2xx, or anything else, or throws.
EndRun(r) ==
    /\ pc[r] = "run"
    /\ \/ Goto(r, "store") /\ done' = done \cup {r}
       \/ Goto(r, "forget") /\ UNCHANGED done
    /\ UNCHANGED <<api, row, now, found, answer, begun, clock, errors>>

Store(r) ==
    /\ pc[r] = "store"
    /\ StoreResponse(r)
    /\ answer' = [answer EXCEPT ![r] = r]
    /\ Goto(r, "answered")
    /\ UNCHANGED <<api, now, found, begun, done, clock, errors>>

Forget(r) ==
    /\ pc[r] = "forget"
    /\ DropPending(r)
    /\ Goto(r, "failed")
    /\ UNCHANGED <<api, now, found, answer, begun, done, clock, errors>>

\* A statement raises, before or after it took effect.  The UPDATE's error is
\* swallowed, the client has its response all the same; and so is what the
\* Python API meets when it takes over, where the record it read decides.
StatementFails(r) ==
    /\ \/ pc[r] = "insert" /\ (InsertRow(r) \/ UNCHANGED row)
       \/ pc[r] = "read" /\ UNCHANGED row
       \/ pc[r] = "drop" /\ (DropPending(found[r]) \/ UNCHANGED row)
       \/ pc[r] = "reinsert" /\ (InsertRow(r) \/ UNCHANGED row)
       \/ pc[r] = "store" /\ (StoreResponse(r) \/ UNCHANGED row)
       \/ pc[r] = "forget" /\ (DropPending(r) \/ UNCHANGED row)
    /\ Err
    /\ IF pc[r] = "store"
       THEN Goto(r, "answered") /\ answer' = [answer EXCEPT ![r] = r]
       ELSE /\ Goto(r, IF api = "python" /\ pc[r] \in {"drop", "reinsert"}
                       THEN "conflict" ELSE "failed")
            /\ UNCHANGED answer
    /\ UNCHANGED <<api, now, found, begun, done, clock>>

\* The runtime drops the request, which leaves the row as it is.
Killed(r) ==
    /\ pc[r] \in {"run", "store", "forget"}
    /\ Err
    /\ Goto(r, "failed")
    /\ UNCHANGED <<api, row, now, found, answer, begun, done, clock>>

Tick ==
    /\ clock < MaxClock
    /\ clock' = clock + 1
    /\ UNCHANGED <<api, row, pc, now, found, answer, begun, done, errors>>

Next ==
    \/ \E r \in Requests :
        \/ Arrive(r) \/ Insert(r) \/ ReadExisting(r) \/ DropStale(r) \/ Reinsert(r)
        \/ EndRun(r) \/ Store(r) \/ Forget(r) \/ StatementFails(r) \/ Killed(r)
    \/ Tick

Spec == Init /\ [][Next]_vars

-----------------------------------------------------------------------------
(***************************************************************************)
(* What a key promises.                                                    *)
(***************************************************************************)

Ran == {r \in Requests : pc[r] = "run" \/ r \in done}

\* The handler works twice for one key only when PENDING_MS have passed since
\* the earlier request: no slow, killed or failing owner of the row, and no pair
\* of requests that both find it stale, lets a third one in early.
RunsApart ==
    \A r, s \in Ran :
        r # s => \/ begun[s] - now[r] > PendingMs
                 \/ begun[r] - now[s] > PendingMs

\* A response once stored stays as it is: a request that judged the row stale
\* before, or an owner that comes back late, neither deletes nor rewrites it.
StoredStays ==
    [][row # NoRow /\ row.stored => row' = row]_vars

\* A request is answered only with the response of a handler that ended well on
\* the same body, and all replays are of one response.
ReplaysAgree ==
    /\ \A r \in Requests :
        answer[r] # NoRequest => answer[r] \in done /\ HashOf[answer[r]] = HashOf[r]
    /\ \A r, s \in Requests :
        (answer[r] \notin {r, NoRequest} /\ answer[s] \notin {s, NoRequest})
            => answer[r] = answer[s]
=============================================================================
