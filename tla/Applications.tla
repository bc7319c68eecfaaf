---------------------------- MODULE Applications ----------------------------
(***************************************************************************)
(* Applications and their submissions (routes/applications.ts), and the    *)
(* employer's side (routes/postings.ts): postings, applying to one and the *)
(* stage of an applicant.                                                  *)
(***************************************************************************)
EXTENDS Documents

CONSTANT Applicants

Application(u, posting, stage) == [rev |-> 1, by |-> u, posting |-> posting, stage |-> stage]
Posting(status) == [rev |-> 1, status |-> status, closed |-> status = "CLOSED"]

ApplicationTables ==
    [application |-> NoRows, draft |-> NoRows, submission |-> NoRows, posting |-> NoRows]

\* The stages, a few of them; APPLIED is the third of the order.
Order == <<"PREPARING", "READY", "APPLIED", "SCREENING", "ACCEPTED">>
Terminal == {"ACCEPTED", "REJECTED", "WITHDRAWN"}
Stages == Terminal \cup {"PREPARING", "READY", "APPLIED", "SCREENING"}
Applied(stage) == stage \notin {"PREPARING", "READY"}
EmployerStages == {"SCREENING", "REJECTED"}

ApplicationRecord == [rev : Nat, by : Applicants, posting : Ids \cup {Nil}, stage : Stages]
DraftRecord == [application : Ids, atRev : Nat, version : Ids]
SubmissionRecord == [application : Ids, approval : Ids, draft : Ids]

ASSUME ApplicationAssumption ==
    Nil \notin Stages /\ Nil \notin ApplicationRecord /\ Nil \notin DraftRecord /\ Nil \notin SubmissionRecord

CanPatchStage(from, to) ==
    \/ from = to
    \/ /\ from \notin Terminal
       /\ \/ to \in {"REJECTED", "WITHDRAWN"}
          \/ /\ to # "APPLIED"
             /\ \E n \in 2..5 : Order[n - 1] = from /\ Order[n] = to

-----------------------------------------------------------------------------
(***************************************************************************)
(* patchApplication, createSubmissionDraft, submitApplication.             *)
(***************************************************************************)

\* Without a stage, the one that was read is written back.
PatchApplication(r) ==
    Load(r, "patchApplication", "application",
         LAMBDA row : req[r].arg.to = Nil \/ CanPatchStage(row.stage, req[r].arg.to), "applicationRow")

ApplicationRow(r) ==
    /\ At(r, "applicationRow")
    /\ Save(r, "application", IF req[r].arg.to = Nil THEN req[r].v
                              ELSE [req[r].v EXCEPT !.stage = req[r].arg.to])

CreateDraft(r) == Load(r, "createDraft", "application", AnyRow, "draftVersions")

DraftVersions(r) ==
    /\ At(r, "draftVersions")
    /\ LET w == req[r].arg.version IN
       IF db.document[db.version[w].document].final = w THEN GoOn(r, "draftRow", req[r].v)
       ELSE Refuse(r)

DraftRow(r) ==
    /\ At(r, "draftRow")
    /\ End(r, [db EXCEPT !.draft[r] =
                [application |-> req[r].arg.id, atRev |-> req[r].v.rev, version |-> req[r].arg.version]])

Submit(r) == Load(r, "submit", "application", AnyRow, "submitDraft")

SubmitDraft(r) ==
    /\ At(r, "submitDraft")
    /\ LET d == db.draft[req[r].arg.draft] IN
       IF d.application = req[r].arg.id /\ d.atRev = req[r].v.rev THEN GoOn(r, "submitCheck", req[r].v)
       ELSE Refuse(r)

SubmitCheck(r) ==
    /\ At(r, "submitCheck")
    /\ IF Covers(req[r].arg.approval, "submit", req[r].arg.draft) /\ req[r].v.stage \notin Terminal
       THEN GoOn(r, "spend", [app |-> req[r].v, approval |-> db.approval[req[r].arg.approval]])
       ELSE Refuse(r)

SpendSubmit(r) == req[r].do = "submit" /\ At(r, "spend") /\ Spend(r, "application", req[r].v.app)

\* The submission needs the approval alone; the application moves if it still
\* has its revision and has not applied yet.
SubmitRows(r) ==
    /\ req[r].do = "submit" /\ At(r, "spendRows")
    /\ LET a == req[r].arg.approval  i == req[r].arg.id
           moves == Same("application", i, req[r].v.app) /\ ~Applied(req[r].v.app.stage) IN
       IF ~Same("approval", a, req[r].v.approval) THEN Refuse(r)
       ELSE End(r, [db EXCEPT
                !.approval[a] = Consumed(a),
                !.submission[r] = [application |-> i, approval |-> a, draft |-> req[r].arg.draft],
                !.application[i] = IF moves THEN Bumped([@ EXCEPT !.stage = "APPLIED"]) ELSE @])

-----------------------------------------------------------------------------
(***************************************************************************)
(* applyPosting, patchPosting, closePosting, patchApplicant.               *)
(***************************************************************************)

\* openClause.
IsOpen(row) == row.status = "OPEN" /\ ~row.closed
Existing(u, p) ==
    {i \in Ids : db.application[i] # Nil /\ db.application[i].by = u /\ db.application[i].posting = p}
FindsNothing(r) == {}
Finds(r) == Existing(req[r].arg.by, req[r].arg.id)

Apply(r) == Load(r, "apply", "posting", IsOpen, "applyExisting")

\* An application of the caller is the answer; so again in the statement, whose
\* NOT EXISTS sees its snapshot, and no index stands behind it.
ApplyLook(r, statement, next) ==
    /\ At(r, statement)
    /\ IF Finds(r) # {} THEN End(r, db) ELSE GoOn(r, next, Nil)

ApplyRows(r) ==
    /\ At(r, "applyRows")
    /\ ThenIngest(r, <<"text", r>>,
            [db EXCEPT !.application[r] = Application(req[r].arg.by, req[r].arg.id, "APPLIED"),
                       !.text[r] = Text("job")])

PatchPosting(r) ==
    Load(r, "patchPosting", "posting", LAMBDA row : ~(row.closed /\ req[r].arg.to = "OPEN"), "postingRow")

PostingRow(r) ==
    /\ At(r, "postingRow")
    /\ Save(r, "posting", IF req[r].arg.to = Nil THEN req[r].v
                          ELSE [req[r].v EXCEPT !.status = req[r].arg.to])

ClosePosting(r) == Load(r, "closePosting", "posting", LAMBDA row : ~row.closed, "closeRow")

CloseRow(r) ==
    At(r, "closeRow") /\ Save(r, "posting", [req[r].v EXCEPT !.status = "CLOSED", !.closed = TRUE])

PatchApplicant(r) ==
    /\ At(r, "patchApplicant")
    /\ LET stage == db.application[req[r].arg.id].stage IN
       \/ stage = req[r].arg.to /\ End(r, db)
       \/ stage # req[r].arg.to /\ stage \in Terminal /\ Refuse(r)
       \/ stage # req[r].arg.to /\ stage \notin Terminal /\ GoOn(r, "applicantRow", Nil)

\* The UPDATE asks for no revision and no stage.
ApplicantRow(r) ==
    /\ At(r, "applicantRow")
    /\ End(r, [db EXCEPT !.application[req[r].arg.id] = Bumped([@ EXCEPT !.stage = req[r].arg.to])])

-----------------------------------------------------------------------------
ArriveApplication(r) ==
    \/ \E i \in Ids :
          /\ db.application[i] # Nil
          /\ \/ \E to \in Stages \cup {Nil} : Begin(r, "patchApplication", [id |-> i, to |-> to])
             \/ \E w \in Ids : db.version[w] # Nil /\ Begin(r, "createDraft", [id |-> i, version |-> w])
             \/ \E d \in Ids, a \in Ids :
                    /\ db.draft[d] # Nil /\ db.approval[a] # Nil
                    /\ Begin(r, "submit", [id |-> i, draft |-> d, approval |-> a])
             \/ \E to \in EmployerStages : db.application[i].posting # Nil
                    /\ Begin(r, "patchApplicant", [id |-> i, to |-> to])
    \/ \E p \in Ids :
          /\ db.posting[p] # Nil
          /\ \/ \E u \in Applicants : Begin(r, "apply", [id |-> p, by |-> u])
             \/ \E to \in {"DRAFT", "OPEN", Nil} : Begin(r, "patchPosting", [id |-> p, to |-> to])
             \/ Begin(r, "closePosting", [id |-> p])

ApplicationStep(r) ==
    \/ ArriveApplication(r) \/ PatchApplication(r) \/ ApplicationRow(r) \/ CreateDraft(r)
    \/ DraftVersions(r) \/ DraftRow(r) \/ Submit(r) \/ SubmitDraft(r) \/ SubmitCheck(r)
    \/ SpendSubmit(r) \/ SubmitRows(r) \/ Apply(r) \/ ApplyLook(r, "applyExisting", "applySnapshot")
    \/ ApplyLook(r, "applySnapshot", "applyRows") \/ ApplyRows(r) \/ PatchPosting(r)
    \/ PostingRow(r) \/ ClosePosting(r) \/ CloseRow(r) \/ PatchApplicant(r) \/ ApplicantRow(r)

\* Nobody applies to a posting twice, which applyPosting looks for twice; only
\* two requests to apply at once make two applications.
OneApply ==
    \A u \in Applicants, p \in Ids :
        db.posting[p] # Nil =>
            \/ Cardinality(Existing(u, p)) <= 1
            \/ \E r \in Doing("apply") : MetAny(r, {"apply"})
=============================================================================
