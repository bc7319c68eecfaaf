----------------------------- MODULE Decisions -----------------------------
(***************************************************************************)
(* What the routes of documents, applications, interviews and projects     *)
(* decide, and that it stays.                                              *)
(***************************************************************************)
EXTENDS Projects, Schedule

\* patchApplicant's UPDATE follows its reads without asking again.
ApplicationIsKept(i) ==
    db.application[i] # Nil /\ db.application[i].stage \in Terminal =>
        \/ db'.application[i].stage = db.application[i].stage
        \/ \E r \in Requests : At(r, "applicantRow") /\ At(r, "ok")'

PostingIsKept(i) ==
    db.posting[i] # Nil /\ db.posting[i].closed => db'.posting[i].closed /\ db'.posting[i].status # "OPEN"

OfferIsKept(i) == db.offer[i] \in {"ACCEPTED", "DECLINED"} => db'.offer[i] = db.offer[i]

ExportIsKept(i) == db.export[i] # Nil /\ ~IsReady(db.export[i]) => db'.export[i] = db.export[i]

ProposalIsKept(i) == db.proposal[i] # Nil /\ db.proposal[i].applied => db'.proposal[i].applied

DocumentIsKept(i) ==
    db.document[i] # Nil /\ ~Mutable(db.document[i]) =>
        db'.document[i].status = "ARCHIVED" /\ db'.document[i].final = db.document[i].final

\* An approval that was swept after it was read may be decided.
ApprovalIsKept(i) ==
    db.approval[i] # Nil /\ db.approval[i].state \in {"CONSUMED", "DENIED", "EXPIRED"} =>
        \/ db'.approval[i].state = db.approval[i].state
        \/ db.approval[i].state = "EXPIRED" /\ \E r \in Requests : At(r, "decideRow") /\ At(r, "ok")'

RunIsKept(i) ==
    db.run[i] # Nil =>
        /\ db.run[i].launch = "FINISHED" => db'.run[i] = db.run[i]
        /\ db.run[i].device \in {Nil, db'.run[i].device}

\* What was decided stays: an application's last stage, a closed posting, an
\* answered offer, a recorded export, an applied proposal, an archived
\* document, an approval that was consumed, denied or has expired, a finished
\* run and the device of a run, but for the two exceptions above.
DecisionsStay ==
    [][\A i \in Ids : /\ ApplicationIsKept(i) /\ PostingIsKept(i) /\ OfferIsKept(i) /\ ExportIsKept(i)
                      /\ ProposalIsKept(i) /\ DocumentIsKept(i) /\ ApprovalIsKept(i) /\ RunIsKept(i)]_vars
=============================================================================
