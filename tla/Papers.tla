------------------------------- MODULE Papers -------------------------------
(***************************************************************************)
(* Documents, approvals, submissions, runs and the index, together.  The   *)
(* handlers of the modules Approvals, Documents, Applications, Projects    *)
(* and Index, and of Edits that of a posting a user keeps, run in any mix, *)
(* with the jobs they store, by any number of requests, from any tables    *)
(* that fit together.  References, AllAgree and AllSpent say what fits, and *)
(* PaperStatement what a request relies on between its statements.         *)
(***************************************************************************)
EXTENDS Decisions, Index

Editors == {"createVersion", "applyEdits", "applyRevision"}
Spenders == {"finalize", "submit", "startRun"}
Reporters == {"reportLaunch", "recoverRun", "reportResult"}
KindOf(h) == IF h = "finalize" THEN "finalize" ELSE IF h = "submit" THEN "submit" ELSE "execute"

PaperShape ==
    /\ {"document", "version", "finalized", "approval", "ingest", "application", "draft", "submission", "run"}
         \subseteq DOMAIN db
    /\ db.document \in [Ids -> DocumentRecord \cup {Nil}]
    /\ db.version \in [Ids -> VersionRecord \cup {Nil}]
    /\ db.finalized \in [Ids -> Ids \cup {Nil}]
    /\ db.approval \in [Ids -> ApprovalRecord \cup {Nil}]
    /\ db.application \in [Ids -> ApplicationRecord \cup {Nil}]
    /\ db.draft \in [Ids -> DraftRecord \cup {Nil}]
    /\ db.submission \in [Ids -> SubmissionRecord \cup {Nil}]
    /\ db.run \in [Ids -> LaunchRecord \cup {Nil}]
    /\ db.ingest \in [Requests -> IngestRecord \cup {Nil}]

\* A row refers to rows that are there.
TargetThere(kind, target) ==
    /\ kind = "finalize" => target \in Ids /\ db.version[target] # Nil
    /\ kind = "submit" => target \in Ids /\ db.draft[target] # Nil
    /\ kind = "execute" => target \in Ids /\ db.run[target] # Nil
RefersRight(a) == TargetThere(db.approval[a].kind, db.approval[a].target)
References ==
    /\ \A w \in Ids : db.version[w] # Nil => db.document[db.version[w].document] # Nil
    /\ \A e \in Ids : db.finalized[e] # Nil => db.version[db.finalized[e]] # Nil
    /\ \A a \in Ids : db.approval[a] # Nil => RefersRight(a)

\* DocumentAgrees, of one document, and that the numbers of its versions begin
\* with 1.
Newest(d) ==
    \A w \in VersionsOf(d) : w # db.document[d].latest =>
        db.document[d].latest # Nil /\ db.version[w].number < db.version[db.document[d].latest].number
FinalIsTrue(d) ==
    LET final == db.document[d].final IN
    final # Nil =>
        /\ final \in VersionsOf(d)
        /\ \E e \in Ids : db.finalized[e] = final
        /\ \E a \in Approvals("finalize", "CONSUMED") : db.approval[a].target = final
Agrees(d) ==
    LET row == db.document[d] IN
    /\ row.status # "ARCHIVED" => (row.status = "FINALIZED" <=> row.final # Nil)
    /\ FinalIsTrue(d)
    /\ Unfilled(d) \/ Newest(d)
    /\ row.latest # Nil => row.latest \in VersionsOf(d)
    /\ VersionsOf(d) # {} => \E w \in VersionsOf(d) : db.version[w].number = 1
AllAgree == \A d \in Ids : db.document[d] # Nil => Agrees(d)

\* SpentApprovals, of one row.
FinalizedAs(w) == {e \in Ids : db.finalized[e] = w}
SpentOn(w) == {a \in Approvals("finalize", "CONSUMED") : db.approval[a].target = w}
SpentOnce(w) ==
    \/ Cardinality(SpentOn(w)) = Cardinality(FinalizedAs(w))
    \/ LostAll("finalize", db.version[w].document, DocumentWriters)
SubmittedBy(a) == {s \in Ids : db.submission[s] # Nil /\ db.submission[s].approval = a}
SubmissionIsTrue(s) ==
    LET sub == db.submission[s] IN
    /\ db.draft[sub.draft] # Nil /\ db.application[sub.application] # Nil
    /\ sub.approval \in Approvals("submit", "CONSUMED")
    /\ db.approval[sub.approval].target = sub.draft
    /\ \/ Applied(db.application[sub.application].stage)
       \/ Lost("submit", sub.application, {"patchApplication"})
DraftIsFinal(d) == \E e \in Ids : db.finalized[e] = db.draft[d].version
RunIsTrue(i) ==
    LET run == db.run[i] IN
    /\ run.state = "APPROVAL_REQUIRED" <=> run.approval = Nil
    /\ run.state = "APPROVAL_REQUIRED" => run.launch = "NOT_CLAIMED"
    /\ run.approval # Nil => /\ run.approval \in Approvals("execute", "CONSUMED")
                             /\ db.approval[run.approval].target = i
StartedBy(a) ==
    \/ db.run[db.approval[a].target].approval = a
    \/ LostAll("startRun", db.approval[a].target, {"startRun"})
AllSpent ==
    /\ \A w \in Ids : db.version[w] # Nil => SpentOnce(w)
    /\ \A a \in Approvals("submit", "CONSUMED") : \E s \in Ids : SubmittedBy(a) = {s}
    /\ \A s \in Ids : db.submission[s] # Nil => SubmissionIsTrue(s)
    /\ \A d \in Ids : db.draft[d] # Nil => DraftIsFinal(d)
    /\ \A a \in Approvals("execute", "CONSUMED") : StartedBy(a)
    /\ \A i \in Ids : db.run[i] # Nil => RunIsTrue(i)

PaperRowsOf(r) ==
    {db.document[r], db.version[r], db.finalized[r], db.approval[r], db.application[r], db.draft[r],
     db.submission[r], db.run[r]}

PaperInit ==
    /\ RequestsInit /\ IsFiniteSet(Ids)
    /\ PaperShape /\ References /\ AllAgree /\ AllSpent
    /\ \A r \in Requests : PaperRowsOf(r) = {Nil} /\ db.ingest[r] = Nil

\* An approval is asked for of a row that is there.
Targets(kind) == {i \in Ids : TargetThere(kind, i)}

\* Of the rows that are edited, those that are indexed.
ArrivePatch(r) ==
    \E i \in Ids, c \in {"name", "text"} :
        db.edited[i] # Nil /\ Begin(r, "patchJob", [id |-> i, set |-> {c}, expected |-> db.edited[i].rev])
PatchStep(r) == ArrivePatch(r) \/ PatchJob(r) \/ JobRow(r)

PaperMove(r) ==
    \/ ApprovalStep(r, Targets) \/ DocumentStep(r) \/ ApplicationStep(r) \/ ProjectStep(r) \/ TextStep(r)
    \/ PatchStep(r) \/ Killed(r)
PaperNext == (\E r \in Requests : PaperMove(r)) \/ Lapse \/ Sweep \/ IngestStep
PaperSpec == PaperInit /\ [][PaperNext]_vars

\* What a request of handler h was called with.
CalledFor(h, arg) ==
    /\ h \in DocumentWriters \cup {"createExport"} => arg.id \in Ids /\ db.document[arg.id] # Nil
    /\ h \in Spenders => arg.approval \in Ids /\ db.approval[arg.approval] # Nil
    /\ h = "finalize" => arg.version \in VersionsOf(arg.id)
    /\ h = "createApproval" =>
          /\ arg.kind \in {"finalize", "submit", "execute"} /\ arg.target \in Ids
          /\ TargetThere(arg.kind, arg.target)
    /\ h = "decide" => /\ arg.id \in Ids /\ db.approval[arg.id] # Nil /\ db.approval[arg.id].kind # "card"
                       /\ arg.to \in {"APPROVED", "DENIED"}
    /\ h = "resolve" => /\ arg.id \in Ids /\ db.approval[arg.id] # Nil /\ db.approval[arg.id].kind = "card"
                        /\ arg.option \in {"go", "reject"}
    /\ h \in {"patchApplication", "patchApplicant", "createDraft", "submit"} =>
          arg.id \in Ids /\ db.application[arg.id] # Nil
    /\ h = "patchApplication" => arg.to \in Stages \cup {Nil}
    /\ h = "patchApplicant" => arg.to \in EmployerStages
    /\ h = "createDraft" => arg.version \in Ids /\ db.version[arg.version] # Nil
    /\ h = "submit" => arg.draft \in Ids /\ db.draft[arg.draft] # Nil
    /\ h = "apply" => arg.id \in Ids /\ arg.by \in Applicants
    /\ h \in {"startRun"} \cup Reporters => arg.id \in Ids /\ db.run[arg.id] # Nil
    /\ h = "startRun" => arg.device \in Devices
    /\ h = "reportLaunch" => arg.to \in {"CLAIMED", "STARTED", "UNKNOWN"}
    /\ h = "reportResult" => arg.to \in {"VERIFYING", "FAILED"}
    /\ h \in {"selectProject", "createRun", "patchJob", "archiveEvidence", "deleteSource"} => arg.id \in Ids

PaperHandlers ==
    DocumentWriters \cup Spenders \cup Reporters
      \cup {"createDocument", "createApproval", "decide", "resolve", "patchApplication", "patchApplicant", "createDraft",
            "apply", "createRun", "convertSource", "createSource", "createEvidence", "createPosting", "createJob",
            "archiveEvidence", "deleteSource", "patchJob"}

\* The handlers a statement is of.
AtHome(h, statement) ==
    /\ statement = "patchRow" => h = "patchDocument"
    /\ statement = "saveVersion" => h \in Editors
    /\ statement = "readProposal" => h = "applyRevision"
    /\ statement = "finalizeCheck" => h = "finalize"
    /\ statement = "archiveRow" => h = "archive"
    /\ statement = "convertRow" => h = "convertDocument"
    /\ statement = "decideRow" => h = "decide"
    /\ statement \in {"answer", "storeJob", "tellWaiting", "undo"} => h = "resolve"
    /\ statement = "applicationRow" => h = "patchApplication"
    /\ statement = "applicantRow" => h = "patchApplicant"
    /\ statement \in {"draftVersions", "draftRow"} => h = "createDraft"
    /\ statement \in {"submitDraft", "submitCheck"} => h = "submit"
    /\ statement \in {"applyExisting", "applySnapshot", "applyRows"} => h = "apply"
    /\ statement = "startCheck" => h = "startRun"
    /\ statement \in {"spend", "spendRows"} => h \in Spenders
    /\ statement \in {"runGuard", "runRows"} => h = "createRun"
    /\ statement = "saveRun" => h \in Reporters
    /\ statement = "archiveText" => h = "archiveEvidence"
    /\ statement = "jobRow" => h = "patchJob"
    /\ statement \in PaperHandlers => h = statement
\* Row h of a document is as it is now, but for a version that a job has filled in.
DocumentHeld(d, h) ==
    LET row == db.document[d] IN
    /\ h \in DocumentRecord /\ h.rev <= row.rev
    /\ h.rev = row.rev =>
          \/ row = h
          \/ /\ h.latest = Nil /\ row = [h EXCEPT !.latest = d]
             /\ VersionsOf(d) = {d} /\ d \in Requests /\ db.ingest[d] # Nil
MutableHeld(d, h) == DocumentHeld(d, h) /\ Mutable(h)
RowHeld(table, i, h) == h.rev <= db[table][i].rev /\ (h.rev = db[table][i].rev => db[table][i] = h)
\* h is a run that goes on as no other may.
RunHeld(i, h) ==
    LET row == db.run[i] IN
    /\ h \in LaunchRecord /\ h.rev <= row.rev /\ h.state # "APPROVAL_REQUIRED" /\ row.state # "APPROVAL_REQUIRED"
    /\ h.rev = row.rev => h.approval = row.approval /\ h.device = row.device /\ row.launch # "FINISHED"

\* What the request has read, at the statement it is at.
HasRead(r) ==
    LET v == req[r].v  d == req[r].arg.id IN
    /\ req[r].at \in {"patchRow", "saveVersion", "readProposal", "finalizeCheck"} => MutableHeld(d, v)
    /\ req[r].at \in {"archiveRow", "convertRow"} => DocumentHeld(d, v)
    /\ At(r, "archiveRow") => Mutable(v)
    /\ At(r, "decideRow") =>
          /\ v \in ApprovalRecord /\ v.rev <= db.approval[d].rev
          /\ v.rev = db.approval[d].rev => db.approval[d].state \in {"PENDING", "EXPIRED"}
    /\ req[r].at \in {"applicationRow", "draftVersions", "draftRow", "submitDraft", "submitCheck"} =>
          v \in ApplicationRecord /\ RowHeld("application", d, v)
    /\ At(r, "applicationRow") => req[r].arg.to = Nil \/ CanPatchStage(v.stage, req[r].arg.to)
    /\ At(r, "draftRow") => \E e \in Ids : db.finalized[e] = req[r].arg.version
    /\ At(r, "startCheck") => v \in LaunchRecord /\ RowHeld("run", d, v) /\ v.state = "APPROVAL_REQUIRED"
    /\ At(r, "saveRun") => RunHeld(d, v)
    /\ At(r, "ingestJob") => IngestJob(v.of) \in IngestRecord
    /\ At(r, "ingestJob") /\ v.of[1] = "fill" => v.of = <<"fill", r>> /\ req[r].do = "convertSource"

\* What a request that spends an approval has read.
Covered(r) ==
    IF req[r].do = "finalize" THEN req[r].arg.version
    ELSE IF req[r].do = "submit" THEN req[r].arg.draft ELSE req[r].arg.id
Spends(r) ==
    LET v == req[r].v  d == req[r].arg.id  now == db.approval[req[r].arg.approval] IN
    req[r].at \in {"spend", "spendRows"} =>
        /\ v.approval \in ApprovalRecord /\ v.approval.rev <= now.rev
        /\ now.kind = KindOf(req[r].do) /\ now.target = Covered(r)
        /\ v.approval.rev = now.rev => now.state = "APPROVED"
        /\ req[r].do = "finalize" => MutableHeld(d, v.doc)
        /\ req[r].do = "submit" => v.app \in ApplicationRecord /\ RowHeld("application", d, v.app)
        /\ req[r].do = "startRun" => v.run \in LaunchRecord /\ RowHeld("run", d, v.run) /\ v.run.state = "APPROVAL_REQUIRED"
\* Where the row has another revision by now, r has met who gave it.
Overtaken(r) ==
    LET v == req[r].v  d == req[r].arg.id IN
    At(r, "spendRows") =>
        /\ req[r].do = "finalize" => db.document[d].rev = v.doc.rev \/ MetAny(r, DocumentWriters)
        /\ req[r].do = "submit" => \/ db.application[d].rev = v.app.rev
                                   \/ Applied(db.application[d].stage)
                                   \/ MetAny(r, {"patchApplication"})
        /\ req[r].do = "startRun" => db.run[d].rev = v.run.rev \/ MetAny(r, {"startRun"})

\* Of a request that has yet to write there are no rows.
Fresh(r) ==
    /\ ~Ended(r) /\ ~At(r, "ingestJob") => PaperRowsOf(r) = {Nil}
    /\ ~Ended(r) => db.ingest[r] = Nil
    /\ req[r].do = "convertSource" /\ db.version[r] # Nil => db.version[r].document = r
    /\ db.document[r] # Nil => req[r].do \in {"createDocument", "convertSource"}
    /\ At(r, "ingestJob") /\ req[r].do = "convertSource" => db.document[r] # Nil
    /\ db.ingest[r] # Nil /\ db.ingest[r].of[1] = "fill" =>
          db.ingest[r].of = <<"fill", r>> /\ req[r].do = "convertSource" /\ db.document[r] # Nil

PaperStatement(r) ==
    /\ At(r, "new") => req[r].do = "none"
    /\ ~At(r, "new") => CalledFor(req[r].do, req[r].arg)
    /\ AtHome(req[r].do, req[r].at)
    /\ HasRead(r) /\ Spends(r) /\ Overtaken(r) /\ Fresh(r)
=============================================================================
