----------------------------- MODULE Approvals -----------------------------
(***************************************************************************)
(* Approvals: the AI service's ApprovalService, which makes and decides    *)
(* those of documents, submissions and runs, its sweep of the expired, and *)
(* the core Worker's routes/conversations.ts, which answers the cards of a *)
(* chat.  The queue backend is Redis.  A payload hash covers content that  *)
(* is never rewritten, and is left out.                                    *)
(***************************************************************************)
EXTENDS CoreWorker

CONSTANTS
    Rows,       \* the rows a behaviour starts with
    MaxTries    \* bound: ai_jobs.max_attempts

Ids     == Rows \cup Requests
NoRows  == [i \in Ids |-> Nil]
Doing(h) == {r \in Requests : req[r].do = h /\ ~At(r, "new")}
MetAny(r, handlers) == \E s \in Requests : req[s].do \in handlers /\ Met(r, s)

\* The row a request names, read by its first statement.  The caller's
\* expectedRevision is the row's, or the handler refuses.
Load(r, handler, table, IsFit(_), next) ==
    /\ At(r, handler)
    /\ LET row == db[table][req[r].arg.id] IN
       IF row # Nil /\ IsFit(row) THEN GoOn(r, next, row) ELSE Refuse(r)

AnyRow(row) == TRUE

\* UPDATE ... WHERE revision = the one read.
Exists(table, i, row) == db[table][i] # Nil
Same(table, i, row) == db[table][i] # Nil /\ db[table][i].rev = row.rev
Bumped(row) == [row EXCEPT !.rev = @ + 1]
Save(r, table, row) ==
    IF Same(table, req[r].arg.id, row)
    THEN End(r, [db EXCEPT ![table][req[r].arg.id] = Bumped(row)]) ELSE Refuse(r)

\* A row of approvals; "late": expires_at has passed.  A row of ai_jobs, by the
\* idempotency key of the card it resumes.
ApprovalRecord ==
    [rev: Nat, kind: {"card", "finalize", "submit", "execute"}, target: Ids \cup {Nil},
     state: {"PENDING", "APPROVED", "REJECTED", "DENIED", "EXPIRED", "CONSUMED"}, late: BOOLEAN,
     option: {Nil, "go", "reject"}]
JobRecord == [by: Requests, option: {Nil, "go", "reject"}]

ASSUME ApprovalAssumption == Nil \notin ApprovalRecord /\ Nil \notin JobRecord /\ Nil \notin Rows

Approval(kind, target, state) ==
    [rev |-> 1, kind |-> kind, target |-> target, state |-> state, late |-> FALSE, option |-> Nil]
ApprovalTables == [approval |-> NoRows, job |-> NoRows]

Approvals(kind, state) ==
    {a \in Ids : db.approval[a] # Nil /\ db.approval[a].kind = kind /\ db.approval[a].state = state}

-----------------------------------------------------------------------------
(***************************************************************************)
(* ApprovalService: create, decide.                                        *)
(***************************************************************************)

Create(r) ==
    /\ At(r, "createApproval")
    /\ End(r, [db EXCEPT !.approval[r] = Approval(req[r].arg.kind, req[r].arg.target, "PENDING")])

IsPending(row) == row.state = "PENDING"
Decide(r) == Load(r, "decide", "approval", IsPending, "decideRow")

DecideRow(r) ==
    /\ At(r, "decideRow")
    /\ LET row == req[r].v  a == req[r].arg.id
           decided == [db.approval[a] EXCEPT !.state = IF row.late THEN "EXPIRED" ELSE req[r].arg.to] IN
       Do(r, IF Same("approval", a, row) /\ ~row.late THEN "ok" ELSE "refused", row,
          IF Same("approval", a, row) THEN [db EXCEPT !.approval[a] = Bumped(decided)] ELSE db)

\* What a consumer asks of the approval it is given.
Covers(a, kind, target) ==
    /\ db.approval[a].kind = kind /\ db.approval[a].target = target
    /\ db.approval[a].state = "APPROVED" /\ ~db.approval[a].late

\* Time passes, and the workers' sweep, which leaves the revision alone.
Lapse ==
    /\ "expiry" \in mix
    /\ \E a \in Ids : db.approval[a] # Nil /\ ~db.approval[a].late
                        /\ db' = [db EXCEPT !.approval[a].late = TRUE]
    /\ UNCHANGED <<req, prior, mix>>

Sweep ==
    LET due == {a \in Ids : db.approval[a] # Nil /\ IsPending(db.approval[a]) /\ db.approval[a].late} IN
    /\ due # {}
    /\ db' = [db EXCEPT !.approval = [a \in Ids |-> IF a \notin due THEN @[a]
                                                    ELSE [@[a] EXCEPT !.state = "EXPIRED"]]]
    /\ UNCHANGED <<req, prior, mix>>

-----------------------------------------------------------------------------
(***************************************************************************)
(* resolveApproval and enqueueResumeJob.                                   *)
(***************************************************************************)

Resolve(r) == Load(r, "resolve", "approval", IsPending, "answer")

Chosen(r) == IF req[r].arg.option = "reject" THEN "REJECTED" ELSE "APPROVED"

Answer(r) ==
    /\ At(r, "answer")
    /\ LET a == req[r].arg.id  now == db.approval[a] IN
       IF req[r].v.late
       THEN Do(r, "refused", Nil, IF IsPending(now) THEN [db EXCEPT !.approval[a].state = "EXPIRED"]
                                                    ELSE db)
       ELSE IF ~IsPending(now) THEN Refuse(r)
       ELSE Do(r, "storeJob", Nil,
               [db EXCEPT !.approval[a] = Bumped([now EXCEPT !.state = Chosen(r),
                                                             !.option = req[r].arg.option])])

\* The job of the key is there, or is stored, unless a statement raises.
StoreJob(r) ==
    /\ At(r, "storeJob")
    /\ LET a == req[r].arg.id IN
       \/ GoOn(r, "undo", Nil)
       \/ Do(r, "tellWaiting", Nil,
             IF db.job[a] # Nil THEN db
             ELSE [db EXCEPT !.job[a] = [by |-> r, option |-> req[r].arg.option]])

TellWaiting(r) == At(r, "tellWaiting") /\ (End(r, db) \/ GoOn(r, "undo", Nil))

KeepAnswer(r) == db
Unanswered(r) ==
    LET a == req[r].arg.id IN
    IF db.approval[a].state # Chosen(r) THEN db
    ELSE [db EXCEPT !.approval[a].state = "PENDING", !.approval[a].option = Nil]
Undo(r) == At(r, "undo") /\ Do(r, "refused", Nil, Unanswered(r))

\* postMessage: the consent, the plan's limit and the company may refuse it.
PostMessage(r) == At(r, "postMessage") /\ (Refuse(r) \/ GoOn(r, "enqueueMessage", Nil))

\* enqueueChatMessage: the job is stored, or the queue or the credits refuse it;
\* then one statement turns down the cards that wait, or raises and leaves the
\* job.
EnqueueMessage(r) ==
    /\ At(r, "enqueueMessage")
    /\ \/ Refuse(r)
       \/ Do(r, "tellTurn", Nil, [db EXCEPT !.job[r] = [by |-> r, option |-> Nil]])

TellTurn(r) ==
    /\ At(r, "tellTurn")
    /\ \/ Refuse(r)
       \/ LET waiting == Approvals("card", "PENDING") IN
          End(r, [db EXCEPT !.approval = [a \in Ids |->
                    IF a \in waiting THEN Bumped([@[a] EXCEPT !.state = "REJECTED"]) ELSE @[a]]])

-----------------------------------------------------------------------------
\* Targets are the rows an approval of each kind may be of.
ArriveApproval(r, Targets(_)) ==
    \/ \E kind \in {"finalize", "submit", "execute"} : \E target \in Targets(kind) :
           Begin(r, "createApproval", [kind |-> kind, target |-> target])
    \/ \E a \in Ids, to \in {"APPROVED", "DENIED"} :
           db.approval[a] # Nil /\ db.approval[a].kind # "card" /\ Begin(r, "decide", [id |-> a, to |-> to])
    \/ \E a \in Approvals("card", "PENDING"), option \in {"go", "reject"} :
           Begin(r, "resolve", [id |-> a, option |-> option])
    \/ Begin(r, "postMessage", Nil)

ApprovalStep(r, Targets(_)) ==
    \/ ArriveApproval(r, Targets) \/ Create(r) \/ Decide(r) \/ DecideRow(r) \/ Resolve(r)
    \/ Answer(r) \/ StoreJob(r) \/ TellWaiting(r) \/ Undo(r) \/ PostMessage(r)
    \/ EnqueueMessage(r) \/ TellTurn(r)

\* An answered card is resumed: once no answer to it is under way, the job of
\* its key is stored and holds the option the card shows.  The exceptions: the
\* Worker is dropped after the answer, or an answer that was taken back had
\* already stored its job, and the next one finds that.
AnswerIsResumed ==
    \A a \in Ids :
        LET card == db.approval[a]
            answers == {r \in Doing("resolve") : req[r].arg.id = a} IN
        card # Nil /\ card.option # Nil /\ (\A r \in answers : ~Open(r)) =>
            \/ db.job[a] # Nil /\ db.job[a].option = card.option
            \/ \E r \in answers : At(r, "killed")
            \/ db.job[a] # Nil /\ At(db.job[a].by, "refused")
=============================================================================
