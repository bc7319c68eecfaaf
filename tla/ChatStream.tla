----------------------------- MODULE ChatStream -----------------------------
(***************************************************************************)
(* How a client follows a turn of a chat.  The AI worker's handler         *)
(* (run_queue_turn in harness/jobs.py) writes what happens to chat_events  *)
(* and ends the job by its outcome; the gateway (routes/conversations.ts)  *)
(* reads the events for the client, which comes back with the last id it   *)
(* has seen, and cancels the turn for it.  The queue backend is Redis; how *)
(* the queue gets a job to one worker is the module JobQueue.  A worker's  *)
(* run of the job, a cancel and a client are requests here.                *)
(***************************************************************************)
EXTENDS Approvals

CONSTANT MaxTokens  \* bound: events of a run before the one that ends it

\* A client that was told nothing was not told an ending.
ASSUME ChatAssumption == Nil \notin {"cancelled", "204"}

\* The job's row; chat_events, a row [id, kind, by] of each, whose ids are taken
\* before they are committed; and what each client has received.
ChatTables ==
    [turn   |-> [status |-> "QUEUED", attempts |-> 0],
     chat   |-> {},
     seq    |-> 0,
     client |-> [r \in Requests |-> [after |-> 0, seen |-> {}, told |-> Nil]]]

Closing == {"done", "error", "cancelled"}

\* PENDING or RUNNING in the view chat_jobs.
Active == {"QUEUED", "RETRY", "RUNNING"}
AnyRun(turn) == TRUE
IsRunning(turn) == turn.status = "RUNNING"
InStatus(status) == [db EXCEPT !.turn.status = status]

-----------------------------------------------------------------------------
(***************************************************************************)
(* A run.                                                                  *)
(***************************************************************************)

ClaimTurn(r) ==
    /\ At(r, "runTurn")
    /\ IF db.turn.status \in {"QUEUED", "RETRY"}
       THEN Do(r, "graph", [left |-> MaxTokens, kind |-> Nil, id |-> 0], InStatus("RUNNING"))
       ELSE Refuse(r)

\* The graph's next chunk.  A cancel is looked for once a second, and always
\* before the one that ends the turn.
Graph(r) ==
    /\ At(r, "graph")
    /\ LET v == req[r].v IN
       \/ /\ v.left > 0
          /\ \E next \in {"emit", "lookForCancel"} :
                GoOn(r, next, [v EXCEPT !.left = @ - 1, !.kind = "token"])
       \/ GoOn(r, "lookForCancel", [v EXCEPT !.kind = "done"])
       \/ GoOn(r, "emit", [v EXCEPT !.kind = "error"])
       \/ GoOn(r, "failTurn", v)

LookForCancel(r) ==
    /\ At(r, "lookForCancel")
    /\ GoOn(r, "emit", IF db.turn.status = "CANCELLED" THEN [req[r].v EXCEPT !.kind = "cancelled"]
                       ELSE req[r].v)

AfterEmit(kind) ==
    CASE kind = "token" -> "graph" [] kind = "done" -> "finishTurn"
      [] kind = "error" -> "failFinal" [] kind = "cancelled" -> "cancelRow"

\* The INSERT takes the row's id; an error is not written once the job has ended.
Emit(r) ==
    /\ At(r, "emit")
    /\ IF req[r].v.kind = "error" /\ db.turn.status \in {"DONE", "FAILED", "DEAD"}
       THEN GoOn(r, "failFinal", req[r].v)
       ELSE Do(r, "emitted", [req[r].v EXCEPT !.id = db.seq + 1], [db EXCEPT !.seq = @ + 1])

ChatRow(id, kind, r) == [id |-> id, kind |-> kind, by |-> r]

Emitted(r) ==
    /\ At(r, "emitted")
    /\ LET v == req[r].v IN
       Do(r, AfterEmit(v.kind), v, [db EXCEPT !.chat = @ \cup {ChatRow(v.id, v.kind, r)}])

\* The rest of the graph may still raise, and so may the statement.
FinishTurn(r) ==
    /\ At(r, "finishTurn")
    /\ \/ End(r, IF IsRunning(db.turn) THEN InStatus("DONE") ELSE db)
       \/ GoOn(r, "failTurn", req[r].v)

FailFinal(r) ==
    /\ At(r, "failFinal")
    /\ End(r, IF IsRunning(db.turn) THEN InStatus("FAILED") ELSE db)

CancelRow(r) ==
    /\ At(r, "cancelRow")
    /\ End(r, IF db.turn.status \in Active THEN InStatus("CANCELLED") ELSE db)

\* worker_fail and mark_retry.
TriedAgain ==
    [db EXCEPT !.turn = [status |-> IF @.attempts + 1 >= MaxTries THEN "DEAD" ELSE "RETRY",
                         attempts |-> @.attempts + 1]]

FailTurn(r) ==
    /\ At(r, "failTurn")
    /\ Do(r, "refused", Nil, IF IsRunning(db.turn) THEN TriedAgain ELSE db)

\* The dispatcher finds that nobody keeps the job alive.
RequeueTurn ==
    /\ IsRunning(db.turn)
    /\ \A r \in Doing("runTurn") : ~Open(r)
    /\ db' = TriedAgain
    /\ UNCHANGED <<req, prior, mix>>

-----------------------------------------------------------------------------
(***************************************************************************)
(* CANCEL_SQL: what its snapshot says of the job; the row, by the view's   *)
(* trigger, and the event's id; the commit of both.  Another's UPDATE of   *)
(* the row waits for the commit, as if it had come before the second step, *)
(* and another cancel's does so here.                                      *)
(***************************************************************************)

CancelTurn(r) ==
    /\ At(r, "cancelTurn")
    /\ IF db.turn.status \in Active THEN GoOn(r, "cancelWrite", Nil) ELSE Refuse(r)

CancelWrite(r) ==
    /\ At(r, "cancelWrite")
    /\ \A s \in Requests : ~At(s, "cancelCommit")
    /\ Do(r, "cancelCommit", [id |-> db.seq + 1], [db EXCEPT !.seq = @ + 1])

CancelCommit(r) ==
    /\ At(r, "cancelCommit")
    /\ End(r, [InStatus("CANCELLED") EXCEPT !.chat = @ \cup {ChatRow(req[r].v.id, "cancelled", r)}])

-----------------------------------------------------------------------------
(***************************************************************************)
(* streamActive, jobEvents, and a client that comes back.  Its first       *)
(* connection, by streamMessage, is one while the job waits.               *)
(***************************************************************************)

\* 204 when no job is active.
StreamActive(r) ==
    /\ At(r, "streamActive")
    /\ IF db.turn.status \in Active THEN GoOn(r, "poll", Nil)
       ELSE End(r, [db EXCEPT !.client[r].told = "204"])

Unread(r) == {e \in db.chat : e.id > db.client[r].after}
UpToClosing(events) ==
    {e \in events : \A f \in events : f.kind \in Closing => e.id <= f.id}

\* A page in the order of ids, up to the event that ends the turn.  The client
\* may get the first part only, and the connection may close after it; a query
\* that raises ends the stream with an error of no id.
Poll(r) ==
    /\ At(r, "poll")
    /\ \/ Refuse(r)
       \/ \E last \in {e.id : e \in UpToClosing(Unread(r))} \cup {db.client[r].after} :
            LET sent == {e \in UpToClosing(Unread(r)) : e.id <= last}
                ends == {e.kind : e \in sent} \cap Closing
                got  == [after |-> last, seen |-> db.client[r].seen \cup sent,
                         told |-> IF ends = {} THEN Nil ELSE CHOOSE kind \in ends : TRUE]
            IN \E next \in IF ends = {} THEN {"poll", "streamActive"} ELSE {"ok"} :
                  Do(r, next, Nil, [db EXCEPT !.client[r] = got])

-----------------------------------------------------------------------------
ArriveChat(r) == \E h \in {"runTurn", "cancelTurn", "streamActive"} : Begin(r, h, Nil)

ChatStep(r) ==
    \/ ArriveChat(r) \/ ClaimTurn(r) \/ Graph(r) \/ LookForCancel(r) \/ Emit(r) \/ Emitted(r)
    \/ FinishTurn(r) \/ FailFinal(r) \/ CancelRow(r) \/ FailTurn(r) \/ CancelTurn(r) \/ CancelWrite(r)
    \/ CancelCommit(r) \/ StreamActive(r) \/ Poll(r)

-----------------------------------------------------------------------------
Outcome(kind) == IF kind = "done" THEN "DONE" ELSE "FAILED"

Crossed(r) == MetAny(r, {"cancelTurn"})

\* A client is told the truth: "cancelled" of a turn that is and stays so, 204
\* once no run can come, "done" and "error" as the job ended, if the run that
\* said so came to its end and no cancel crossed it.  Nothing is skipped, though
\* ids are taken before they are seen: an event with a smaller id than one the
\* client has was received, unless the two were written at once.
StreamIsTrue ==
    \A r \in Doing("streamActive") :
        LET client == db.client[r] IN
        /\ client.told = "cancelled" => db.turn.status = "CANCELLED"
        /\ client.told = "204" => db.turn.status \notin Active
        /\ client.told \in {"done", "error"} =>
              \A e \in client.seen : e.kind = client.told =>
                  db.turn.status = Outcome(e.kind) \/ ~At(e.by, "ok") \/ Crossed(e.by)
        /\ \A e \in db.chat : e.id < client.after =>
              e \in client.seen \/ \E f \in client.seen : Met(e.by, f.by)
=============================================================================
