--------------------------- MODULE IdempotencyProofs ---------------------------
(***************************************************************************)
(* Theorems about Idempotency, for every number of requests, whatever      *)
(* their bodies, PENDING_MS and the bounds.                                *)
(***************************************************************************)
EXTENDS Idempotency, TLAPS

Owns(i) == row # NoRow /\ row.id = i

\* PENDING_MS have passed since request i came.
Late(i) == clock - now[i] > PendingMs

(***************************************************************************)
(* The inductive invariant: a request that worked owns the row until it is *)
(* late, and a row with a response belongs to a request that has answered. *)
(***************************************************************************)

\* The clock readings are readings of the past, and a row has its owner's.
Dated ==
    /\ \A r \in Requests : now[r] <= clock
    /\ row # NoRow => pc[row.id] # "new" /\ row.at = now[row.id]

\* A request whose handler ended well is past its run.
Ended ==
    /\ \A r \in done : pc[r] \in {"store", "answered", "failed"}
    /\ \A r \in Requests : pc[r] = "store" => r \in done

\* A response is stored by the request that answers with it.
StoredByOwner ==
    row # NoRow /\ row.stored => pc[row.id] = "answered" /\ row.id \in done

\* A request that worked has the row unless it is late.
LateOrOwner == \A r \in Ran : Owns(r) \/ Late(r)

\* A row about to be deleted as stale belongs to a late request.
DropsLate ==
    \A r \in Requests : pc[r] = "drop" => pc[found[r]] # "new" /\ Late(found[r])

\* The response replayed is the one stored.
ReplayIsStored ==
    \A r \in Requests :
        answer[r] \notin {r, NoRequest} => Owns(answer[r]) /\ row.stored

IInv ==
    /\ TypeOK /\ Dated /\ Ended /\ StoredByOwner /\ LateOrOwner /\ DropsLate
    /\ ReplayIsStored /\ RunsApart /\ ReplaysAgree

LEMMA InitIInv == Init => IInv
  BY IdempotencyAssumption
  DEF Init, IInv, TypeOK, Dated, Ended, StoredByOwner, LateOrOwner, DropsLate,
      ReplayIsStored, RunsApart, ReplaysAgree, Ran, Owns, Late

\* What each statement leaves of the row.
LEMMA Statements ==
    ASSUME TypeOK, NEW r \in Requests
    PROVE  /\ InsertRow(r) => row' \in Row /\ row' # NoRow
           /\ InsertRow(r) /\ row = NoRow => Owns(r)'
           /\ InsertRow(r) /\ row # NoRow => row' = row
           /\ \A i : DropPending(i) => /\ row' \in {row, NoRow}
                                       /\ ~Owns(i) => row' = row
           /\ StoreResponse(r) => row' \in Row \cup {NoRow}
           /\ StoreResponse(r) => \A i : Owns(i) => Owns(i)'
<1> USE IdempotencyAssumption DEF TypeOK, Row
<1>1. ASSUME InsertRow(r)
      PROVE  /\ row' \in Row /\ row' # NoRow
             /\ row = NoRow => Owns(r)'
             /\ row # NoRow => row' = row
  <2>1. [id |-> r, at |-> now[r], stored |-> FALSE] \in Row
    OBVIOUS
  <2> QED
    BY <1>1, <2>1 DEF InsertRow, Owns
<1>2. \A i : DropPending(i) => row' \in {row, NoRow} /\ (~Owns(i) => row' = row)
  BY DEF DropPending, Owns
<1>3. ASSUME StoreResponse(r)
      PROVE  row' \in Row \cup {NoRow} /\ (\A i : Owns(i) => Owns(i)')
  BY <1>3 DEF StoreResponse, Owns
<1> QED
  BY <1>1, <1>2, <1>3

\* What a request's step does to the row, and only to a row without a response.
LEMMA RowStep ==
    ASSUME IInv, NEW r \in Requests,
           \/ InsertRow(r) \/ UNCHANGED row
           \/ pc[r] = "drop" /\ DropPending(found[r])
           \/ pc[r] = "store" /\ StoreResponse(r)
           \/ pc[r] = "forget" /\ DropPending(r)
    PROVE  row # NoRow /\ row.stored => row' = row
  BY DEF IInv, StoredByOwner, InsertRow, DropPending, StoreResponse

LEMMA StoredStaysStep ==
    ASSUME IInv, [Next]_vars
    PROVE  row # NoRow /\ row.stored => row' = row
<1>1. CASE UNCHANGED vars
  BY <1>1 DEF vars
<1>2. CASE Tick
  BY <1>2 DEF Tick
<1>3. ASSUME NEW r \in Requests,
             \/ Arrive(r) \/ Insert(r) \/ ReadExisting(r) \/ DropStale(r) \/ Reinsert(r)
             \/ EndRun(r) \/ Store(r) \/ Forget(r) \/ StatementFails(r) \/ Killed(r)
      PROVE  row # NoRow /\ row.stored => row' = row
  BY <1>3, RowStep
  DEF Arrive, Insert, ReadExisting, DropStale, Reinsert, EndRun, Store, Forget,
      StatementFails, Killed
<1> QED
  BY <1>1, <1>2, <1>3 DEF Next

LEMMA ArriveIInv ==
    ASSUME IInv, NEW r \in Requests, Arrive(r)
    PROVE  IInv'
<1> USE IdempotencyAssumption
<1>1. TypeOK'
  BY DEF IInv, TypeOK, Row, Arrive, Goto
<1>2. Dated'
  BY DEF IInv, TypeOK, Row, Dated, Arrive, Goto
<1>3. Ended'
  BY DEF IInv, TypeOK, Ended, Arrive, Goto
<1>4. StoredByOwner'
  BY DEF IInv, TypeOK, Row, Ended, StoredByOwner, Arrive, Goto
<1>5. LateOrOwner'
  BY DEF IInv, TypeOK, Row, Dated, Ended, StoredByOwner, LateOrOwner,
         DropsLate, Ran, Owns, Late, Arrive, Goto
<1>6. DropsLate'
  BY DEF IInv, TypeOK, Row, Dated, DropsLate, Late, Arrive, Goto
<1>7. ReplayIsStored'
  BY DEF IInv, TypeOK, Row, StoredByOwner, ReplayIsStored, Replayable, Owns,
         Arrive, Goto
<1>8. RunsApart'
  BY DEF IInv, TypeOK, Dated, Ended, LateOrOwner, RunsApart, Ran, Owns, Late,
         Arrive, Goto
<1>9. ReplaysAgree'
  BY DEF IInv, TypeOK, Row, Ended, StoredByOwner, ReplayIsStored, ReplaysAgree,
         Owns, Arrive, Goto
<1> QED
  BY <1>1, <1>2, <1>3, <1>4, <1>5, <1>6, <1>7, <1>8, <1>9 DEF IInv

LEMMA InsertIInv ==
    ASSUME IInv, NEW r \in Requests, Insert(r)
    PROVE  IInv'
<1> USE IdempotencyAssumption
<1>1. TypeOK'
  BY DEF IInv, TypeOK, Row, Insert, InsertRow, Goto
<1>2. Dated'
  BY DEF IInv, TypeOK, Row, Dated, Insert, InsertRow, Goto
<1>3. Ended'
  BY DEF IInv, TypeOK, Ended, Insert, InsertRow, Goto
<1>4. StoredByOwner'
  BY DEF IInv, TypeOK, Row, Ended, StoredByOwner, Insert, InsertRow, Goto
<1>5. LateOrOwner'
  <2>1. CASE row = NoRow
    <3>1. Ran' = Ran \cup {r}
      BY <2>1 DEF IInv, TypeOK, Ran, Insert, Goto
    <3>2. Owns(r)'
      BY <2>1, Statements DEF IInv, Insert
    <3>3. \A s \in Ran : Late(s)'
      BY <2>1 DEF IInv, LateOrOwner, Owns, Late, Insert
    <3> QED
      BY <3>1, <3>2, <3>3 DEF LateOrOwner
  <2>2. CASE row # NoRow
    <3>1. Ran' = Ran /\ UNCHANGED <<row, now, clock>>
      BY <2>2 DEF IInv, TypeOK, Ran, Insert, InsertRow, Goto
    <3> QED
      BY <3>1 DEF IInv, LateOrOwner, Owns, Late
  <2> QED
    BY <2>1, <2>2
<1>6. DropsLate'
  BY DEF IInv, TypeOK, Row, Dated, DropsLate, Late, Insert, InsertRow, Goto
<1>7. ReplayIsStored'
  BY DEF IInv, TypeOK, Row, StoredByOwner, ReplayIsStored, Replayable, Owns,
         Insert, InsertRow, Goto
<1>8. RunsApart'
  BY DEF IInv, TypeOK, Dated, Ended, LateOrOwner, RunsApart, Ran, Owns, Late,
         Insert, InsertRow, Goto
<1>9. ReplaysAgree'
  BY DEF IInv, TypeOK, Row, Ended, StoredByOwner, ReplayIsStored, ReplaysAgree,
         Owns, Insert, InsertRow, Goto
<1> QED
  BY <1>1, <1>2, <1>3, <1>4, <1>5, <1>6, <1>7, <1>8, <1>9 DEF IInv

LEMMA ReadExistingIInv ==
    ASSUME IInv, NEW r \in Requests, ReadExisting(r)
    PROVE  IInv'
<1> USE IdempotencyAssumption
<1>1. TypeOK'
  BY DEF IInv, TypeOK, Row, ReadExisting, FoundId, Replayable, Stale, Judged, Goto
<1>2. Dated'
  BY DEF IInv, TypeOK, Row, Dated, ReadExisting, FoundId, Replayable, Stale, Judged, Goto
<1>3. Ended'
  BY DEF IInv, TypeOK, Ended, ReadExisting, FoundId, Replayable, Stale, Judged, Goto
<1>4. StoredByOwner'
  BY DEF IInv, TypeOK, Row, Ended, StoredByOwner, ReadExisting, FoundId,
         Replayable, Stale, Judged, Goto
<1>5. LateOrOwner'
  BY DEF IInv, TypeOK, Row, Dated, Ended, StoredByOwner, LateOrOwner,
         DropsLate, Ran, Owns, Late, ReadExisting, FoundId, Replayable, Stale, Judged,
         Goto
<1>6. DropsLate'
  BY DEF IInv, TypeOK, Row, Dated, DropsLate, Late, ReadExisting, FoundId,
         Replayable, Stale, Judged, Goto
<1>7. ReplayIsStored'
  BY DEF IInv, TypeOK, Row, StoredByOwner, ReplayIsStored, Replayable, Owns,
         ReadExisting, FoundId, Replayable, Stale, Judged, Goto
<1>8. RunsApart'
  BY DEF IInv, TypeOK, Dated, Ended, LateOrOwner, RunsApart, Ran, Owns, Late,
         ReadExisting, FoundId, Replayable, Stale, Judged, Goto
<1>9. ReplaysAgree'
  BY DEF IInv, TypeOK, Row, Ended, StoredByOwner, ReplayIsStored, ReplaysAgree,
         Owns, ReadExisting, FoundId, Replayable, Stale, Judged, Goto
<1> QED
  BY <1>1, <1>2, <1>3, <1>4, <1>5, <1>6, <1>7, <1>8, <1>9 DEF IInv

LEMMA DropStaleIInv ==
    ASSUME IInv, NEW r \in Requests, DropStale(r)
    PROVE  IInv'
<1> USE IdempotencyAssumption
<1>1. TypeOK'
  BY DEF IInv, TypeOK, Row, DropStale, DropPending, Goto
<1>2. Dated'
  BY DEF IInv, TypeOK, Row, Dated, DropStale, DropPending, Goto
<1>3. Ended'
  BY DEF IInv, TypeOK, Ended, DropStale, DropPending, Goto
<1>4. StoredByOwner'
  BY DEF IInv, TypeOK, Row, Ended, StoredByOwner, DropStale, DropPending, Goto
<1>5. LateOrOwner'
  BY DEF IInv, TypeOK, Row, Dated, Ended, StoredByOwner, LateOrOwner,
         DropsLate, Ran, Owns, Late, DropStale, DropPending, Goto
<1>6. DropsLate'
  BY DEF IInv, TypeOK, Row, Dated, DropsLate, Late, DropStale, DropPending, Goto
<1>7. ReplayIsStored'
  BY DEF IInv, TypeOK, Row, StoredByOwner, ReplayIsStored, Replayable, Owns,
         DropStale, DropPending, Goto
<1>8. RunsApart'
  BY DEF IInv, TypeOK, Dated, Ended, LateOrOwner, RunsApart, Ran, Owns, Late,
         DropStale, DropPending, Goto
<1>9. ReplaysAgree'
  BY DEF IInv, TypeOK, Row, Ended, StoredByOwner, ReplayIsStored, ReplaysAgree,
         Owns, DropStale, DropPending, Goto
<1> QED
  BY <1>1, <1>2, <1>3, <1>4, <1>5, <1>6, <1>7, <1>8, <1>9 DEF IInv

LEMMA ReinsertIInv ==
    ASSUME IInv, NEW r \in Requests, Reinsert(r)
    PROVE  IInv'
<1> USE IdempotencyAssumption
<1>1. TypeOK'
  BY DEF IInv, TypeOK, Row, Reinsert, InsertRow, Goto
<1>2. Dated'
  BY DEF IInv, TypeOK, Row, Dated, Reinsert, InsertRow, Goto
<1>3. Ended'
  BY DEF IInv, TypeOK, Ended, Reinsert, InsertRow, Goto
<1>4. StoredByOwner'
  BY DEF IInv, TypeOK, Row, Ended, StoredByOwner, Reinsert, InsertRow, Goto
<1>5. LateOrOwner'
  <2>1. CASE row = NoRow
    <3>1. Ran' = Ran \cup {r}
      BY <2>1 DEF IInv, TypeOK, Ran, Reinsert, Goto
    <3>2. Owns(r)'
      BY <2>1, Statements DEF IInv, Reinsert
    <3>3. \A s \in Ran : Late(s)'
      BY <2>1 DEF IInv, LateOrOwner, Owns, Late, Reinsert
    <3> QED
      BY <3>1, <3>2, <3>3 DEF LateOrOwner
  <2>2. CASE row # NoRow
    <3>1. Ran' = Ran /\ UNCHANGED <<row, now, clock>>
      BY <2>2 DEF IInv, TypeOK, Ran, Reinsert, InsertRow, Goto
    <3> QED
      BY <3>1 DEF IInv, LateOrOwner, Owns, Late
  <2> QED
    BY <2>1, <2>2
<1>6. DropsLate'
  BY DEF IInv, TypeOK, Row, Dated, DropsLate, Late, Reinsert, InsertRow, Goto
<1>7. ReplayIsStored'
  BY DEF IInv, TypeOK, Row, StoredByOwner, ReplayIsStored, Replayable, Owns,
         Reinsert, InsertRow, Goto
<1>8. RunsApart'
  BY DEF IInv, TypeOK, Dated, Ended, LateOrOwner, RunsApart, Ran, Owns, Late,
         Reinsert, InsertRow, Goto
<1>9. ReplaysAgree'
  BY DEF IInv, TypeOK, Row, Ended, StoredByOwner, ReplayIsStored, ReplaysAgree,
         Owns, Reinsert, InsertRow, Goto
<1> QED
  BY <1>1, <1>2, <1>3, <1>4, <1>5, <1>6, <1>7, <1>8, <1>9 DEF IInv

LEMMA EndRunIInv ==
    ASSUME IInv, NEW r \in Requests, EndRun(r)
    PROVE  IInv'
<1> USE IdempotencyAssumption
<1>1. TypeOK'
  BY DEF IInv, TypeOK, Row, EndRun, Goto
<1>2. Dated'
  BY DEF IInv, TypeOK, Row, Dated, EndRun, Goto
<1>3. Ended'
  BY DEF IInv, TypeOK, Ended, EndRun, Goto
<1>4. StoredByOwner'
  BY DEF IInv, TypeOK, Row, Ended, StoredByOwner, EndRun, Goto
<1>5. LateOrOwner'
  BY DEF IInv, TypeOK, Row, Dated, Ended, StoredByOwner, LateOrOwner,
         DropsLate, Ran, Owns, Late, EndRun, Goto
<1>6. DropsLate'
  BY DEF IInv, TypeOK, Row, Dated, DropsLate, Late, EndRun, Goto
<1>7. ReplayIsStored'
  BY DEF IInv, TypeOK, Row, StoredByOwner, ReplayIsStored, Replayable, Owns,
         EndRun, Goto
<1>8. RunsApart'
  BY DEF IInv, TypeOK, Dated, Ended, LateOrOwner, RunsApart, Ran, Owns, Late,
         EndRun, Goto
<1>9. ReplaysAgree'
  BY DEF IInv, TypeOK, Row, Ended, StoredByOwner, ReplayIsStored, ReplaysAgree,
         Owns, EndRun, Goto
<1> QED
  BY <1>1, <1>2, <1>3, <1>4, <1>5, <1>6, <1>7, <1>8, <1>9 DEF IInv

LEMMA StoreIInv ==
    ASSUME IInv, NEW r \in Requests, Store(r)
    PROVE  IInv'
<1> USE IdempotencyAssumption
<1>1. TypeOK'
  BY DEF IInv, TypeOK, Row, Store, StoreResponse, Goto
<1>2. Dated'
  BY DEF IInv, TypeOK, Row, Dated, Store, StoreResponse, Goto
<1>3. Ended'
  BY DEF IInv, TypeOK, Ended, Store, StoreResponse, Goto
<1>4. StoredByOwner'
  BY DEF IInv, TypeOK, Row, Ended, StoredByOwner, Store, StoreResponse, Goto
<1>5. LateOrOwner'
  BY DEF IInv, TypeOK, Row, Dated, Ended, StoredByOwner, LateOrOwner,
         DropsLate, Ran, Owns, Late, Store, StoreResponse, Goto
<1>6. DropsLate'
  BY DEF IInv, TypeOK, Row, Dated, DropsLate, Late, Store, StoreResponse, Goto
<1>7. ReplayIsStored'
  BY DEF IInv, TypeOK, Row, StoredByOwner, ReplayIsStored, Replayable, Owns,
         Store, StoreResponse, Goto
<1>8. RunsApart'
  BY DEF IInv, TypeOK, Dated, Ended, LateOrOwner, RunsApart, Ran, Owns, Late,
         Store, StoreResponse, Goto
<1>9. ReplaysAgree'
  BY DEF IInv, TypeOK, Row, Ended, StoredByOwner, ReplayIsStored, ReplaysAgree,
         Owns, Store, StoreResponse, Goto
<1> QED
  BY <1>1, <1>2, <1>3, <1>4, <1>5, <1>6, <1>7, <1>8, <1>9 DEF IInv

LEMMA ForgetIInv ==
    ASSUME IInv, NEW r \in Requests, Forget(r)
    PROVE  IInv'
<1> USE IdempotencyAssumption
<1>1. TypeOK'
  BY DEF IInv, TypeOK, Row, Forget, DropPending, Goto
<1>2. Dated'
  BY DEF IInv, TypeOK, Row, Dated, Forget, DropPending, Goto
<1>3. Ended'
  BY DEF IInv, TypeOK, Ended, Forget, DropPending, Goto
<1>4. StoredByOwner'
  BY DEF IInv, TypeOK, Row, Ended, StoredByOwner, Forget, DropPending, Goto
<1>5. LateOrOwner'
  BY DEF IInv, TypeOK, Row, Dated, Ended, StoredByOwner, LateOrOwner,
         DropsLate, Ran, Owns, Late, Forget, DropPending, Goto
<1>6. DropsLate'
  BY DEF IInv, TypeOK, Row, Dated, DropsLate, Late, Forget, DropPending, Goto
<1>7. ReplayIsStored'
  BY DEF IInv, TypeOK, Row, StoredByOwner, ReplayIsStored, Replayable, Owns,
         Forget, DropPending, Goto
<1>8. RunsApart'
  BY DEF IInv, TypeOK, Dated, Ended, LateOrOwner, RunsApart, Ran, Owns, Late,
         Forget, DropPending, Goto
<1>9. ReplaysAgree'
  BY DEF IInv, TypeOK, Row, Ended, StoredByOwner, ReplayIsStored, ReplaysAgree,
         Owns, Forget, DropPending, Goto
<1> QED
  BY <1>1, <1>2, <1>3, <1>4, <1>5, <1>6, <1>7, <1>8, <1>9 DEF IInv

LEMMA StatementFailsIInv ==
    ASSUME IInv, NEW r \in Requests, StatementFails(r)
    PROVE  IInv'
<1> USE IdempotencyAssumption
<1>a. PICK step \in {"answered", "failed", "conflict"} : pc' = [pc EXCEPT ![r] = step]
  BY DEF StatementFails, Goto
<1>b. UNCHANGED api /\ UNCHANGED <<now, found, begun, done, clock>>
  BY DEF StatementFails
<1>c. pc[r] \in {"insert", "read", "drop", "reinsert", "store", "forget"}
  BY DEF StatementFails
<1>0. /\ pc' = [pc EXCEPT ![r] = step]
     /\ now' = now /\ found' = found /\ begun' = begun /\ done' = done /\ clock' = clock
     /\ api' = api
     /\ pc[r] \in {"insert", "read", "drop", "reinsert", "store", "forget"}
  BY <1>a, <1>b, <1>c
<1>1. TypeOK'
  <2>1. row' \in Row \cup {NoRow}
    BY Statements DEF IInv, TypeOK, StatementFails
  <2>2. errors' \in 0 .. MaxErrors
    BY DEF IInv, TypeOK, StatementFails, Err
  <2>3. answer' \in [Requests -> Requests \cup {NoRequest}]
    BY DEF IInv, TypeOK, StatementFails
  <2> QED
    BY <1>0, <2>1, <2>2, <2>3 DEF IInv, TypeOK
<1>2. Dated'
  BY DEF IInv, TypeOK, Row, Dated, StatementFails, InsertRow, DropPending,
         StoreResponse, Err, Goto
<1>3. Ended'
  BY DEF IInv, TypeOK, Ended, StatementFails, InsertRow, DropPending,
         StoreResponse, Err, Goto
<1>4. StoredByOwner'
  BY DEF IInv, TypeOK, Row, Ended, StoredByOwner, StatementFails, InsertRow,
         DropPending, StoreResponse, Err, Goto
<1>5. LateOrOwner'
  <2>1. Ran' = Ran
    BY <1>0 DEF IInv, TypeOK, Ran
  <2>2. \A s \in Requests : Late(s)' = Late(s)
    BY <1>0 DEF Late
  <2>3. ASSUME NEW s \in Ran, Owns(s), ~Late(s)
        PROVE  Owns(s)'
    <3>1. pc[r] = "forget" => s # r
      BY <1>0 DEF IInv, Ended, Ran
    <3>2. pc[r] = "drop" => s # found[r]
      BY <2>3 DEF IInv, DropsLate
    <3> QED
      <4>1. CASE UNCHANGED row
        BY <2>3, <4>1 DEF Owns
      <4>2. CASE pc[r] \in {"insert", "reinsert"} /\ InsertRow(r)
        BY <2>3, <4>2, Statements DEF IInv, Owns
      <4>3. CASE pc[r] = "drop" /\ DropPending(found[r])
        BY <2>3, <3>2, <4>3, Statements DEF IInv, Owns
      <4>4. CASE pc[r] = "store" /\ StoreResponse(r)
        BY <2>3, <4>4, Statements DEF IInv
      <4>5. CASE pc[r] = "forget" /\ DropPending(r)
        BY <2>3, <3>1, <4>5, Statements DEF IInv, Owns
      <4> QED
        BY <4>1, <4>2, <4>3, <4>4, <4>5 DEF StatementFails
  <2> QED
    BY <2>1, <2>2, <2>3 DEF IInv, LateOrOwner, Ran
<1>6. DropsLate'
  BY DEF IInv, TypeOK, Row, Dated, DropsLate, Late, StatementFails, InsertRow,
         DropPending, StoreResponse, Err, Goto
<1>7. ReplayIsStored'
  BY DEF IInv, TypeOK, Row, StoredByOwner, ReplayIsStored, Replayable, Owns,
         StatementFails, InsertRow, DropPending, StoreResponse, Err, Goto
<1>8. RunsApart'
  BY DEF IInv, TypeOK, Dated, Ended, LateOrOwner, RunsApart, Ran, Owns, Late,
         StatementFails, InsertRow, DropPending, StoreResponse, Err, Goto
<1>9. ReplaysAgree'
  BY DEF IInv, TypeOK, Row, Ended, StoredByOwner, ReplayIsStored, ReplaysAgree,
         Owns, StatementFails, InsertRow, DropPending, StoreResponse, Err, Goto
<1> QED
  BY <1>1, <1>2, <1>3, <1>4, <1>5, <1>6, <1>7, <1>8, <1>9 DEF IInv

LEMMA KilledIInv ==
    ASSUME IInv, NEW r \in Requests, Killed(r)
    PROVE  IInv'
<1> USE IdempotencyAssumption
<1>1. TypeOK'
  BY DEF IInv, TypeOK, Row, Killed, Err, Goto
<1>2. Dated'
  BY DEF IInv, TypeOK, Row, Dated, Killed, Err, Goto
<1>3. Ended'
  BY DEF IInv, TypeOK, Ended, Killed, Err, Goto
<1>4. StoredByOwner'
  BY DEF IInv, TypeOK, Row, Ended, StoredByOwner, Killed, Err, Goto
<1>5. LateOrOwner'
  BY DEF IInv, TypeOK, Row, Dated, Ended, StoredByOwner, LateOrOwner,
         DropsLate, Ran, Owns, Late, Killed, Err, Goto
<1>6. DropsLate'
  BY DEF IInv, TypeOK, Row, Dated, DropsLate, Late, Killed, Err, Goto
<1>7. ReplayIsStored'
  BY DEF IInv, TypeOK, Row, StoredByOwner, ReplayIsStored, Replayable, Owns,
         Killed, Err, Goto
<1>8. RunsApart'
  BY DEF IInv, TypeOK, Dated, Ended, LateOrOwner, RunsApart, Ran, Owns, Late,
         Killed, Err, Goto
<1>9. ReplaysAgree'
  BY DEF IInv, TypeOK, Row, Ended, StoredByOwner, ReplayIsStored, ReplaysAgree,
         Owns, Killed, Err, Goto
<1> QED
  BY <1>1, <1>2, <1>3, <1>4, <1>5, <1>6, <1>7, <1>8, <1>9 DEF IInv

LEMMA TickIInv ==
    ASSUME IInv, Tick
    PROVE  IInv'
  BY IdempotencyAssumption
  DEF IInv, TypeOK, Row, Dated, Ended, StoredByOwner, LateOrOwner, DropsLate,
      ReplayIsStored, RunsApart, ReplaysAgree, Ran, Owns, Late, Tick

LEMMA NextIInv == IInv /\ [Next]_vars => IInv'
<1> SUFFICES ASSUME IInv, [Next]_vars
             PROVE  IInv'
  OBVIOUS
<1>1. CASE UNCHANGED vars
  BY <1>1
  DEF vars, IInv, TypeOK, Dated, Ended, StoredByOwner, LateOrOwner, DropsLate,
      ReplayIsStored, RunsApart, ReplaysAgree, Ran, Owns, Late
<1>2. CASE Next
  BY <1>2, ArriveIInv, InsertIInv, ReadExistingIInv, DropStaleIInv, ReinsertIInv,
     EndRunIInv, StoreIInv, ForgetIInv, StatementFailsIInv, KilledIInv, TickIInv
  DEF Next
<1> QED
  BY <1>1, <1>2

\* The inductive invariant holds in every behaviour.
THEOREM Invariant == Spec => []IInv
  BY InitIInv, NextIInv, PTL DEF Spec

\* Every variable of the idempotency protocol stays in its domain.
THEOREM TypeCorrect == Spec => []TypeOK
  BY Invariant, PTL DEF IInv

\* idempotent(), and its Python twin, let the handler work twice for one key only
\* PENDING_MS apart, however many requests come and whatever fails.
THEOREM RunsAreApart == Spec => []RunsApart
  BY Invariant, PTL DEF IInv

\* Replays are faithful to the body and all of one response.
THEOREM ReplaysAreOne == Spec => []ReplaysAgree
  BY Invariant, PTL DEF IInv

\* A stored response is never deleted nor rewritten by a request that judged the
\* row stale before, or by an owner that comes back late.
THEOREM ResponsesStay == Spec => StoredStays
<1>1. IInv /\ [Next]_vars => [row # NoRow /\ row.stored => row' = row]_vars
  BY StoredStaysStep
<1> QED
  BY <1>1, Invariant, PTL DEF Spec, StoredStays
=============================================================================
