----------------------------- MODULE WorkProofs -----------------------------
(***************************************************************************)
(* Theorems about the routes of the core Worker, for any number of         *)
(* requests, rows and users.  Each component runs by a specification of    *)
(* its own here: all its handlers in any mix, any request dropped at any   *)
(* moment, from any tables that fit together.                              *)
(***************************************************************************)
EXTENDS Applications, Index, Schedule, ChatStream, Listings, Notices, CoreWorkerProofs, FiniteSetTheorems

-----------------------------------------------------------------------------
(***************************************************************************)
(* Applications: nobody applies twice.                                     *)
(***************************************************************************)

ApplicationsShape ==
    /\ "application" \in DOMAIN db
    /\ db.application \in [Ids -> ApplicationRecord \cup {Nil}]

AtMostOne(u, p) == \A i, k \in Existing(u, p) : i = k

ApplicationInit ==
    /\ RequestsInit
    /\ ApplicationsShape
    /\ \A r \in Requests : db.application[r] = Nil
    /\ \A u \in Applicants, p \in Ids : AtMostOne(u, p)

ApplicationSpec ==
    ApplicationInit /\ [][\E r \in Requests : ApplicationStep(r) \/ StoreIngest(r) \/ Killed(r)]_vars

ApplicationHandlers ==
    {"patchApplication", "createDraft", "submit", "patchApplicant", "apply", "patchPosting", "closePosting"}

LEMMA ApplicationMoves ==
    ASSUME NEW r \in Requests, ApplicationStep(r) \/ StoreIngest(r) \/ Killed(r)
    PROVE  Moves(r)
<1>1. CASE ArriveApplication(r)
  <2>1. \A h, arg : h \in ApplicationHandlers /\ Begin(r, h, arg) => Moves(r)
    BY BeginMoves DEF ApplicationHandlers, Ends
  <2> QED
    BY <1>1, <2>1 DEF ArriveApplication, ApplicationHandlers
<1>2. CASE Killed(r)
  BY <1>2, DoMoves DEF Killed
<1>3. CASE StoreIngest(r)
  BY <1>3, DoMoves DEF StoreIngest, End, Open, Ended, At, Ends
<1>4. CASE PatchApplication(r) \/ ApplicationRow(r) \/ CreateDraft(r) \/ DraftVersions(r) \/ DraftRow(r)
  BY <1>4, DoMoves DEF PatchApplication, ApplicationRow, CreateDraft, DraftVersions, DraftRow, Load, Save,
     GoOn, End, Refuse, Open, Ended, At, Ends
<1>5. CASE Submit(r) \/ SubmitDraft(r) \/ SubmitCheck(r) \/ SpendSubmit(r) \/ SubmitRows(r)
  BY <1>5, DoMoves DEF Submit, SubmitDraft, SubmitCheck, SpendSubmit, SubmitRows, Load, Spend,
     GoOn, End, Refuse, Open, Ended, At, Ends
<1>6. CASE \/ Apply(r) \/ ApplyLook(r, "applyExisting", "applySnapshot")
           \/ ApplyLook(r, "applySnapshot", "applyRows") \/ ApplyRows(r)
  BY <1>6, DoMoves DEF Apply, ApplyLook, ApplyRows, ThenIngest, Load,
     GoOn, End, Refuse, Open, Ended, At, Ends
<1>7. CASE PatchPosting(r) \/ PostingRow(r) \/ ClosePosting(r) \/ CloseRow(r)
  BY <1>7, DoMoves DEF PatchPosting, PostingRow, ClosePosting, CloseRow, Load, Save,
     GoOn, End, Refuse, Open, Ended, At, Ends
<1>8. CASE PatchApplicant(r) \/ ApplicantRow(r)
  BY <1>8, DoMoves DEF PatchApplicant, ApplicantRow, GoOn, End, Refuse, Open, Ended, At, Ends
<1> QED
  BY <1>1, <1>2, <1>3, <1>4, <1>5, <1>6, <1>7, <1>8 DEF ApplicationStep

\* Which handler a statement is of, and what its request names.
ApplicationStatements ==
    \A r \in Requests :
        /\ At(r, "apply") \/ At(r, "applyExisting") \/ At(r, "applySnapshot") \/ At(r, "applyRows")
              => req[r].do = "apply"
        /\ At(r, "patchApplication") \/ At(r, "applicationRow") => req[r].do = "patchApplication"
        /\ At(r, "patchApplicant") \/ At(r, "applicantRow") => req[r].do = "patchApplicant"
        /\ req[r].do \in {"patchApplication", "createDraft", "submit", "patchApplicant"}
              => /\ req[r].arg.id \in Ids
                 /\ db.application[req[r].arg.id] \in ApplicationRecord
        /\ req[r].do = "patchApplication" => req[r].arg.to \in Stages \cup {Nil}
        /\ req[r].do = "patchApplicant" => req[r].arg.to \in EmployerStages
        /\ req[r].do = "apply" => req[r].arg.by \in Applicants /\ req[r].arg.id \in Ids
        /\ At(r, "new") => req[r].do = "none"

\* The ids of new rows are fresh.
FreshApplications ==
    \A r \in Requests : db.application[r] # Nil =>
        req[r].do = "apply" /\ req[r].at \in {"ingestJob"} \cup Ends

\* What patchApplication has read and writes back is of the same applicant and
\* posting as the row.
ReadsItsApplication ==
    \A r \in Requests : At(r, "applicationRow") =>
        LET row == db.application[req[r].arg.id] IN
        /\ req[r].v \in ApplicationRecord
        /\ req[r].v.by = row.by
        /\ req[r].v.posting = row.posting

ApplyOverlap == \E r \in Doing("apply") : MetAny(r, {"apply"})

\* Who is past the statement's NOT EXISTS has still not applied, unless another
\* applies at once.
FoundNothing ==
    \A r \in Requests : At(r, "applyRows") => Finds(r) = {} \/ ApplyOverlap

OncePerPosting == ApplyOverlap \/ \A u \in Applicants, p \in Ids : AtMostOne(u, p)

ApplicationInv ==
    /\ HistoryOK /\ ApplicationsShape
    /\ ApplicationStatements /\ FreshApplications /\ ReadsItsApplication
    /\ FoundNothing /\ OncePerPosting

LEMMA ApplicationInvInit == ApplicationInit => ApplicationInv
<1> SUFFICES ASSUME ApplicationInit PROVE ApplicationInv
  OBVIOUS
<1>1. HistoryOK
  BY HistoryInit DEF ApplicationInit
<1>2. \A r \in Requests : req[r].at = "new" /\ req[r].do = "none"
  BY DEF ApplicationInit, RequestsInit
<1> QED
  BY <1>1, <1>2 DEF ApplicationInit, ApplicationInv, ApplicationStatements, ReadsItsApplication,
     FreshApplications, FoundNothing, OncePerPosting, At

LEMMA OverlapStays ==
    ASSUME HistoryOK, NEW r \in Requests, Moves(r), ApplyOverlap
    PROVE  ApplyOverlap'
<1>1. PICK s, t \in Requests : /\ req[s].do = "apply" /\ ~At(s, "new") /\ req[t].do = "apply" /\ Met(s, t)
  BY DEF ApplyOverlap, Doing, MetAny
<1>2. ~At(t, "new")
  BY <1>1 DEF Met
<1>3. Met(s, t)'
  BY <1>1, MetStays
<1>4. req'[s].do = "apply" /\ ~At(s, "new")' /\ req'[t].do = "apply"
  BY <1>1, <1>2, OthersStay
<1> QED
  BY <1>3, <1>4 DEF ApplyOverlap, Doing, MetAny

LEMMA ApplyMeets ==
    ASSUME HistoryOK, NEW r \in Requests, NEW s \in Requests, r # s, Open(r), Open(s),
           req[r].do = "apply", req[s].do = "apply"
    PROVE  ApplyOverlap
  BY OpenMeet DEF ApplyOverlap, Doing, MetAny, Open

\* A step other than applyRows leaves every application to its applicant and
\* posting.
ApplicationsKept ==
    /\ ApplicationsShape'
    /\ \A i \in Ids : db.application[i] = Nil => db'.application[i] = Nil
    /\ \A i \in Ids : db.application[i] \in ApplicationRecord =>
            /\ db'.application[i] \in ApplicationRecord
            /\ db'.application[i].by = db.application[i].by
            /\ db'.application[i].posting = db.application[i].posting

LEMMA BumpedApplication ==
    ASSUME ApplicationsShape, NEW i \in Ids, db.application[i] \in ApplicationRecord,
           NEW row \in ApplicationRecord,
           row.by = db.application[i].by, row.posting = db.application[i].posting,
           DOMAIN db' = DOMAIN db,
           db'.application = [db.application EXCEPT ![i] = Bumped(row)]
    PROVE  ApplicationsKept
<1>1. /\ Bumped(row) \in ApplicationRecord
      /\ Bumped(row).by = row.by /\ Bumped(row).posting = row.posting
  BY DEF Bumped, ApplicationRecord
<1> QED
  BY <1>1, ApplicationAssumption DEF ApplicationsKept, ApplicationsShape

LEMMA SameApplications ==
    ASSUME ApplicationsShape, DOMAIN db' = DOMAIN db, db'.application = db.application
    PROVE  ApplicationsKept
  BY ApplicationAssumption DEF ApplicationsKept, ApplicationsShape

\* Whatever a request does but insert an application.
LEMMA StepKeepsApplications ==
    ASSUME ApplicationInv, NEW r \in Requests, ApplicationStep(r) \/ StoreIngest(r) \/ Killed(r),
           ~ApplyRows(r)
    PROVE  ApplicationsKept
<1>0. ApplicationsShape /\ HistoryOK /\ ApplicationStatements /\ ReadsItsApplication
  BY DEF ApplicationInv
<1>1. CASE ArriveApplication(r)
  BY SMTT(30), <1>0, <1>1, SameApplications DEF ArriveApplication, Begin
<1>2. CASE \/ Killed(r) \/ StoreIngest(r) \/ PatchApplication(r) \/ CreateDraft(r) \/ DraftVersions(r)
           \/ DraftRow(r) \/ Submit(r) \/ SubmitDraft(r) \/ SubmitCheck(r) \/ SpendSubmit(r) \/ Apply(r)
           \/ ApplyLook(r, "applyExisting", "applySnapshot") \/ ApplyLook(r, "applySnapshot", "applyRows")
           \/ PatchPosting(r) \/ PostingRow(r) \/ ClosePosting(r) \/ CloseRow(r) \/ PatchApplicant(r)
  BY <1>0, <1>2, SameApplications
  DEF ApplicationsShape, Killed, StoreIngest, PatchApplication, CreateDraft, DraftVersions, DraftRow,
     Submit, SubmitDraft, SubmitCheck, SpendSubmit, Apply, ApplyLook, PatchPosting, PostingRow,
     ClosePosting, CloseRow, PatchApplicant, Load, Spend, Save, GoOn, End, Refuse, Do
<1>3. CASE ApplicationRow(r)
  <2> DEFINE i == req[r].arg.id
             row == IF req[r].arg.to = Nil THEN req[r].v ELSE [req[r].v EXCEPT !.stage = req[r].arg.to]
  <2>1. /\ i \in Ids /\ db.application[i] \in ApplicationRecord
        /\ req[r].arg.to \in Stages \cup {Nil}
        /\ req[r].v \in ApplicationRecord
        /\ req[r].v.by = db.application[i].by /\ req[r].v.posting = db.application[i].posting
    BY <1>0, <1>3 DEF ApplicationRow, ApplicationStatements, ReadsItsApplication
  <2>2. row \in ApplicationRecord /\ row.by = req[r].v.by /\ row.posting = req[r].v.posting
    BY <2>1 DEF ApplicationRecord
  <2>3. Save(r, "application", row)
    BY <1>3 DEF ApplicationRow
  <2>4. \/ db' = db
        \/ db' = [db EXCEPT !["application"][i] = Bumped(row)]
    BY <2>3 DEF Save, End, Refuse, Do
  <2>5. \/ db' = db
        \/ DOMAIN db' = DOMAIN db /\ db'.application = [db.application EXCEPT ![i] = Bumped(row)]
    <3> HIDE DEF i, row
    <3> QED
      BY <1>0, <2>4 DEF ApplicationsShape
  <2>6. CASE db' = db
    BY <1>0, <2>6, SameApplications
  <2>7. CASE db' # db
    <3> HIDE DEF i, row
    <3> QED
      BY <1>0, <2>1, <2>2, <2>5, <2>7, BumpedApplication
  <2> QED
    BY <2>6, <2>7
<1>4. CASE SubmitRows(r)
  <2> DEFINE i == req[r].arg.id
             row == [db.application[i] EXCEPT !.stage = "APPLIED"]
  <2>1. i \in Ids /\ db.application[i] \in ApplicationRecord
    BY <1>0, <1>4 DEF SubmitRows, ApplicationStatements
  <2>2. /\ row \in ApplicationRecord
        /\ row.by = db.application[i].by /\ row.posting = db.application[i].posting
    BY <2>1 DEF ApplicationRecord, Stages
  <2>3. DOMAIN db' = DOMAIN db
    BY <1>4 DEF SubmitRows, End, Refuse, Do
  <2>4. \/ db'.application = db.application
        \/ db'.application = [db.application EXCEPT ![i] = Bumped(row)]
    <3>1. \/ db' = db
          \/ \E e \in {Bumped(row), db.application[i]} :
                db'.application = [db.application EXCEPT ![i] = e]
      BY <1>0, <1>4 DEF SubmitRows, End, Refuse, Do, ApplicationsShape
    <3>2. [db.application EXCEPT ![i] = db.application[i]] = db.application
      BY <1>0, <2>1 DEF ApplicationsShape
    <3> QED
      BY <3>1, <3>2
  <2>5. CASE db'.application = db.application
    BY <1>0, <2>3, <2>5, SameApplications
  <2>6. CASE db'.application = [db.application EXCEPT ![i] = Bumped(row)]
    <3> HIDE DEF i, row
    <3> QED
      BY <1>0, <2>1, <2>2, <2>3, <2>6, BumpedApplication
  <2> QED
    BY <2>4, <2>5, <2>6
<1>5. CASE ApplicantRow(r)
  <2> DEFINE i == req[r].arg.id
             row == [db.application[i] EXCEPT !.stage = req[r].arg.to]
  <2>1. i \in Ids /\ db.application[i] \in ApplicationRecord /\ req[r].arg.to \in Stages
    BY <1>0, <1>5 DEF ApplicantRow, ApplicationStatements, EmployerStages, Stages, Terminal
  <2>2. /\ row \in ApplicationRecord
        /\ row.by = db.application[i].by /\ row.posting = db.application[i].posting
    BY <2>1 DEF ApplicationRecord
  <2>3. DOMAIN db' = DOMAIN db /\ db'.application = [db.application EXCEPT ![i] = Bumped(row)]
    BY <1>0, <1>5 DEF ApplicantRow, End, Do, ApplicationsShape
  <2> QED
    BY <1>0, <2>1, <2>2, <2>3, BumpedApplication
<1> QED
  BY <1>1, <1>2, <1>3, <1>4, <1>5 DEF ApplicationStep

\* Which statement a request is at after a step.
LEMMA ApplicationGoesTo ==
    ASSUME ApplicationInv, NEW r \in Requests, ApplicationStep(r) \/ StoreIngest(r) \/ Killed(r)
    PROVE  /\ \/ req'[r].at \notin {"new", "apply", "applyExisting", "applySnapshot", "applyRows",
                                    "patchApplication", "applicationRow", "patchApplicant", "applicantRow"}
              \/ ArriveApplication(r)
              \/ At(r, "apply") /\ At(r, "applyExisting")'
              \/ At(r, "applyExisting") /\ At(r, "applySnapshot")'
              \/ At(r, "applySnapshot") /\ At(r, "applyRows")' /\ Finds(r) = {}
              \/ At(r, "patchApplication") /\ At(r, "applicationRow")' /\ PatchApplication(r)
              \/ At(r, "patchApplicant") /\ At(r, "applicantRow")'
           /\ ~ArriveApplication(r) =>
                 Open(r) /\ req'[r].do = req[r].do /\ req'[r].arg = req[r].arg
<1>0. HistoryOK
  BY DEF ApplicationInv
<1>1. \A statement, v, tables : Do(r, statement, v, tables) =>
          /\ req'[r].do = req[r].do /\ req'[r].arg = req[r].arg /\ req'[r].at = statement
  BY <1>0, DoEffect
<1>2. CASE Killed(r)
  BY <1>1, <1>2 DEF Killed
<1>3. CASE StoreIngest(r)
  BY <1>1, <1>3 DEF StoreIngest, End, Open, Ended, At, Ends
<1>4. CASE PatchApplication(r) \/ ApplicationRow(r) \/ CreateDraft(r) \/ DraftVersions(r) \/ DraftRow(r)
  BY <1>1, <1>4 DEF PatchApplication, ApplicationRow, CreateDraft, DraftVersions, DraftRow, Load, Save,
     GoOn, End, Refuse, Open, Ended, At, Ends
<1>5. CASE Submit(r) \/ SubmitDraft(r) \/ SubmitCheck(r) \/ SpendSubmit(r) \/ SubmitRows(r)
  BY <1>1, <1>5 DEF Submit, SubmitDraft, SubmitCheck, SpendSubmit, SubmitRows, Load, Spend,
     GoOn, End, Refuse, Open, Ended, At, Ends
<1>6. CASE \/ Apply(r) \/ ApplyLook(r, "applyExisting", "applySnapshot")
           \/ ApplyLook(r, "applySnapshot", "applyRows") \/ ApplyRows(r)
  BY <1>1, <1>6 DEF Apply, ApplyLook, ApplyRows, ThenIngest, Load,
     GoOn, End, Refuse, Open, Ended, At, Ends
<1>7. CASE PatchPosting(r) \/ PostingRow(r) \/ ClosePosting(r) \/ CloseRow(r)
  BY <1>1, <1>7 DEF PatchPosting, PostingRow, ClosePosting, CloseRow, Load, Save,
     GoOn, End, Refuse, Open, Ended, At, Ends
<1>8. CASE PatchApplicant(r) \/ ApplicantRow(r)
  BY <1>1, <1>8 DEF PatchApplicant, ApplicantRow, GoOn, End, Refuse, Open, Ended, At, Ends
<1> QED
  BY <1>2, <1>3, <1>4, <1>5, <1>6, <1>7, <1>8 DEF ApplicationStep

LEMMA InsertsApplication ==
    ASSUME ApplicationInv, NEW r \in Requests, ApplyRows(r)
    PROVE  /\ ApplicationsShape'
           /\ db'.application = [db.application EXCEPT
                    ![r] = Application(req[r].arg.by, req[r].arg.id, "APPLIED")]
           /\ Application(req[r].arg.by, req[r].arg.id, "APPLIED") \in ApplicationRecord
           /\ req[r].do = "apply" /\ Open(r)
<1>1. req[r].do = "apply" /\ Open(r) /\ req[r].arg.by \in Applicants /\ req[r].arg.id \in Ids
  BY DEF ApplyRows, ApplicationInv, ApplicationStatements, Open, Ended, At, Ends
<1>2. Application(req[r].arg.by, req[r].arg.id, "APPLIED") \in ApplicationRecord
  BY <1>1 DEF Application, ApplicationRecord, Stages
<1>3. /\ DOMAIN db' = DOMAIN db
      /\ db'.application = [db.application EXCEPT
                ![r] = Application(req[r].arg.by, req[r].arg.id, "APPLIED")]
  BY DEF ApplyRows, ThenIngest, Do, ApplicationInv, ApplicationsShape
<1> QED
  BY <1>1, <1>2, <1>3 DEF ApplicationInv, ApplicationsShape

\* Rows of applications stay rows.
LEMMA RecordsStay ==
    ASSUME ApplicationInv, NEW r \in Requests, ApplicationStep(r) \/ StoreIngest(r) \/ Killed(r)
    PROVE  /\ ApplicationsShape'
           /\ \A i \in Ids : db.application[i] \in ApplicationRecord =>
                                db'.application[i] \in ApplicationRecord
<1>1. CASE ApplyRows(r)
  BY <1>1, InsertsApplication DEF ApplicationInv, ApplicationsShape
<1>2. CASE ~ApplyRows(r)
  BY <1>2, StepKeepsApplications DEF ApplicationsKept
<1> QED
  BY <1>1, <1>2

LEMMA StatementsStep ==
    ASSUME ApplicationInv, NEW r \in Requests, ApplicationStep(r) \/ StoreIngest(r) \/ Killed(r)
    PROVE  ApplicationStatements'
<1>0. HistoryOK /\ ApplicationsShape /\ ApplicationStatements
  BY DEF ApplicationInv
<1>1. Moves(r)
  BY ApplicationMoves
<1> DEFINE Fits(q, rows) ==
        /\ q.at \in {"apply", "applyExisting", "applySnapshot", "applyRows"} => q.do = "apply"
        /\ q.at \in {"patchApplication", "applicationRow"} => q.do = "patchApplication"
        /\ q.at \in {"patchApplicant", "applicantRow"} => q.do = "patchApplicant"
        /\ q.do \in {"patchApplication", "createDraft", "submit", "patchApplicant"}
              => q.arg.id \in Ids /\ rows[q.arg.id] \in ApplicationRecord
        /\ q.do = "patchApplication" => q.arg.to \in Stages \cup {Nil}
        /\ q.do = "patchApplicant" => q.arg.to \in EmployerStages
        /\ q.do = "apply" => q.arg.by \in Applicants /\ q.arg.id \in Ids
        /\ q.at = "new" => q.do = "none"
<1>2. \A s \in Requests : Fits(req[s], db.application)
  BY <1>0 DEF ApplicationStatements, At
<1>3. \A s \in Requests : Fits(req[s], db'.application)
  BY <1>2, RecordsStay
<1>4. Fits(req'[r], db'.application)
  <2>1. CASE ArriveApplication(r)
    <3>1. \A h, arg : Begin(r, h, arg) => req'[r].do = h /\ req'[r].at = h /\ req'[r].arg = arg
      BY <1>0, BeginRequest
    <3>2. \A i \in Ids : db.application[i] # Nil => db'.application[i] \in ApplicationRecord
      BY <1>0, RecordsStay DEF ApplicationsShape
    <3>3. ASSUME NEW i \in Ids, db.application[i] # Nil,
                 \/ \E to \in Stages \cup {Nil} : Begin(r, "patchApplication", [id |-> i, to |-> to])
                 \/ \E w \in Ids : Begin(r, "createDraft", [id |-> i, version |-> w])
                 \/ \E d, a \in Ids : Begin(r, "submit", [id |-> i, draft |-> d, approval |-> a])
                 \/ \E to \in EmployerStages : Begin(r, "patchApplicant", [id |-> i, to |-> to])
          PROVE  Fits(req'[r], db'.application)
      <4>1. CASE \E to \in Stages \cup {Nil} : Begin(r, "patchApplication", [id |-> i, to |-> to])
        BY <3>1, <3>2, <3>3, <4>1
      <4>2. CASE \E w \in Ids : Begin(r, "createDraft", [id |-> i, version |-> w])
        BY <3>1, <3>2, <3>3, <4>2
      <4>3. CASE \E d, a \in Ids : Begin(r, "submit", [id |-> i, draft |-> d, approval |-> a])
        BY <3>1, <3>2, <3>3, <4>3
      <4>4. CASE \E to \in EmployerStages : Begin(r, "patchApplicant", [id |-> i, to |-> to])
        BY <3>1, <3>2, <3>3, <4>4
      <4> QED
        BY <3>3, <4>1, <4>2, <4>3, <4>4
    <3>4. ASSUME NEW p \in Ids,
                 \/ \E u \in Applicants : Begin(r, "apply", [id |-> p, by |-> u])
                 \/ \E to : Begin(r, "patchPosting", [id |-> p, to |-> to])
                 \/ Begin(r, "closePosting", [id |-> p])
          PROVE  Fits(req'[r], db'.application)
      <4>1. CASE \E u \in Applicants : Begin(r, "apply", [id |-> p, by |-> u])
        BY <3>1, <3>4, <4>1
      <4>2. CASE \E to : Begin(r, "patchPosting", [id |-> p, to |-> to])
        BY <3>1, <4>2
      <4>3. CASE Begin(r, "closePosting", [id |-> p])
        BY <3>1, <4>3
      <4> QED
        BY <3>4, <4>1, <4>2, <4>3
    <3> QED
      BY <2>1, <3>3, <3>4 DEF ArriveApplication
  <2>2. CASE ~ArriveApplication(r)
    BY <1>3, <2>2, ApplicationGoesTo DEF At
  <2> QED
    BY <2>1, <2>2
<1>5. \A s \in Requests : Fits(req'[s], db'.application)
  BY <1>0, <1>1, <1>3, <1>4, OthersStay
<1> QED
  BY <1>5 DEF ApplicationStatements, At

LEMMA ReadsStep ==
    ASSUME ApplicationInv, NEW r \in Requests, ApplicationStep(r) \/ StoreIngest(r) \/ Killed(r)
    PROVE  ReadsItsApplication'
<1>0. /\ HistoryOK /\ ApplicationsShape /\ ApplicationStatements /\ ReadsItsApplication
      /\ Moves(r) /\ ApplicationsShape'
  BY ApplicationMoves, RecordsStay DEF ApplicationInv
<1> SUFFICES ASSUME NEW s \in Requests, req'[s].at = "applicationRow"
             PROVE  /\ req'[s].v \in ApplicationRecord
                    /\ req'[s].v.by = db'.application[req'[s].arg.id].by
                    /\ req'[s].v.posting = db'.application[req'[s].arg.id].posting
  BY DEF ReadsItsApplication, At
<1>1. CASE s = r
  <2>1. PatchApplication(r) /\ At(r, "patchApplication")
    <3>1. \A h, arg : Begin(r, h, arg) => req'[r].at = h
      BY <1>0, BeginRequest
    <3>2. ~ArriveApplication(r)
      BY <1>1, <3>1 DEF ArriveApplication
    <3> QED
      BY <1>1, <3>2, ApplicationGoesTo DEF At
  <2>2. req'[r].v = db.application[req[r].arg.id] /\ req'[r].arg = req[r].arg /\ db' = db
    BY <1>0, <1>1, <2>1, DoEffect DEF PatchApplication, Load, GoOn, Refuse, Ends
  <2>3. req[r].arg.id \in Ids /\ db.application[req[r].arg.id] \in ApplicationRecord
    BY <1>0, <2>1 DEF ApplicationStatements
  <2> QED
    BY <1>1, <2>2, <2>3
<1>2. CASE s # r
  <2>1. req'[s] = req[s]
    BY <1>0, <1>2, OthersStay
  <2>2. /\ req[s].v \in ApplicationRecord
        /\ req[s].v.by = db.application[req[s].arg.id].by
        /\ req[s].v.posting = db.application[req[s].arg.id].posting
        /\ req[s].arg.id \in Ids /\ db.application[req[s].arg.id] \in ApplicationRecord
    BY <1>0, <2>1 DEF ReadsItsApplication, ApplicationStatements, At
  <2>3. CASE ~ApplyRows(r)
    BY <2>1, <2>2, <2>3, StepKeepsApplications DEF ApplicationsKept
  <2>4. CASE ApplyRows(r)
    <3>1. req[s].arg.id # r
      BY <2>2, <2>4, ApplicationAssumption
      DEF ApplicationInv, FreshApplications, ApplyRows, At, Ends
    <3> QED
      BY <1>0, <2>1, <2>2, <2>4, <3>1, InsertsApplication DEF ApplicationsShape
  <2> QED
    BY <2>3, <2>4
<1> QED
  BY <1>1, <1>2

LEMMA FreshStep ==
    ASSUME ApplicationInv, NEW r \in Requests, ApplicationStep(r) \/ StoreIngest(r) \/ Killed(r)
    PROVE  FreshApplications'
<1>0. /\ HistoryOK /\ ApplicationsShape /\ FreshApplications /\ Moves(r)
  BY ApplicationMoves DEF ApplicationInv
<1> SUFFICES ASSUME NEW s \in Requests, db'.application[s] # Nil
             PROVE  req'[s].do = "apply" /\ req'[s].at \in {"ingestJob"} \cup Ends
  BY DEF FreshApplications
<1>1. CASE s = r /\ ApplyRows(r)
  BY <1>0, <1>1, InsertsApplication, DoEffect DEF ApplyRows, ThenIngest
<1>2. CASE ~(s = r /\ ApplyRows(r))
  <2>1. db.application[s] # Nil
    <3>1. CASE ApplyRows(r)
      BY <1>0, <1>2, <3>1, InsertsApplication DEF ApplicationsShape, Ids
    <3>2. CASE ~ApplyRows(r)
      BY <3>2, StepKeepsApplications DEF ApplicationsKept, Ids
    <3> QED
      BY <3>1, <3>2
  <2>2. req[s].do = "apply" /\ req[s].at \in {"ingestJob"} \cup Ends
    BY <1>0, <2>1 DEF FreshApplications
  <2>3. CASE s # r \/ Ended(s)
    BY <1>0, <2>2, <2>3, OthersStay
  <2>4. CASE s = r /\ req[r].at = "ingestJob"
    <3>1. \A h, arg : ~Begin(r, h, arg)
      BY <2>4 DEF Begin, At
    <3>2. ~ArriveApplication(r)
      BY <3>1 DEF ArriveApplication
    <3>3. Killed(r) \/ StoreIngest(r)
      BY <2>4, <3>2 DEF ApplicationStep, PatchApplication, ApplicationRow, CreateDraft, DraftVersions,
         DraftRow, Submit, SubmitDraft, SubmitCheck, SpendSubmit, SubmitRows, Apply, ApplyLook, ApplyRows,
         PatchPosting, PostingRow, ClosePosting, CloseRow, PatchApplicant, ApplicantRow, Load, At
    <3>4. PICK statement, v, tables : statement \in Ends /\ Do(r, statement, v, tables)
      BY <3>3 DEF Killed, StoreIngest, End, Ends
    <3> QED
      BY <1>0, <2>2, <2>4, <3>4, DoEffect
  <2> QED
    BY <2>2, <2>3, <2>4 DEF Ended, At
<1> QED
  BY <1>1, <1>2

LEMMA SameFinds ==
    ASSUME ApplicationsShape, ApplicationsKept, NEW u, NEW p
    PROVE  Existing(u, p)' = Existing(u, p)
  BY ApplicationAssumption DEF ApplicationsShape, ApplicationsKept, Existing

LEMMA FoundNothingStep ==
    ASSUME ApplicationInv, NEW r \in Requests, ApplicationStep(r) \/ StoreIngest(r) \/ Killed(r)
    PROVE  FoundNothing'
<1>0. /\ HistoryOK /\ ApplicationsShape /\ ApplicationStatements /\ FoundNothing /\ Moves(r)
  BY ApplicationMoves DEF ApplicationInv
<1> SUFFICES ASSUME NEW s \in Requests, At(s, "applyRows")', ~ApplyOverlap',
                    NEW u, NEW p, u = req'[s].arg.by, p = req'[s].arg.id
             PROVE  Existing(u, p)' = {}
  BY DEF FoundNothing, Finds
<1>1. ~ApplyOverlap
  BY <1>0, OverlapStays
<1>2. CASE s = r
  <2>1. ~ArriveApplication(r)
    <3>1. \A h, arg : Begin(r, h, arg) => req'[r].at = h
      BY <1>0, BeginRequest
    <3> QED
      BY <1>2, <3>1 DEF ArriveApplication, At
  <2>2. At(r, "applySnapshot") /\ Finds(r) = {} /\ req'[r].arg = req[r].arg
    BY <1>2, <2>1, ApplicationGoesTo DEF At
  <2>3. ApplicationsKept
    BY <2>2, StepKeepsApplications DEF ApplyRows, At
  <2> QED
    BY <1>0, <1>2, <2>2, <2>3, SameFinds DEF Finds
<1>3. CASE s # r
  <2>1. req'[s] = req[s]
    BY <1>0, <1>3, OthersStay
  <2>2. At(s, "applyRows") /\ Finds(s) = {} /\ Open(s) /\ req[s].do = "apply"
    BY <1>0, <1>1, <2>1 DEF FoundNothing, ApplicationStatements, At, Open, Ended, Ends
  <2>3. ~ApplyRows(r)
    BY <1>0, <1>1, <1>3, <2>2, InsertsApplication, ApplyMeets
  <2>4. ApplicationsKept
    BY <2>3, StepKeepsApplications
  <2> QED
    BY <1>0, <2>1, <2>2, <2>4, SameFinds DEF Finds
<1> QED
  BY <1>2, <1>3

LEMMA OncePerPostingStep ==
    ASSUME ApplicationInv, NEW r \in Requests, ApplicationStep(r) \/ StoreIngest(r) \/ Killed(r)
    PROVE  OncePerPosting'
<1>0. /\ HistoryOK /\ ApplicationsShape /\ FoundNothing /\ OncePerPosting /\ Moves(r)
  BY ApplicationMoves DEF ApplicationInv
<1> SUFFICES ASSUME ~ApplyOverlap', NEW u \in Applicants, NEW p \in Ids,
                    NEW i \in Existing(u, p)', NEW k \in Existing(u, p)'
             PROVE  i = k
  BY DEF OncePerPosting, AtMostOne
<1>1. ~ApplyOverlap
  BY <1>0, OverlapStays
<1>2. AtMostOne(u, p)
  BY <1>0, <1>1 DEF OncePerPosting
<1>3. CASE ~ApplyRows(r)
  BY <1>0, <1>2, <1>3, StepKeepsApplications, SameFinds DEF AtMostOne
<1>4. CASE ApplyRows(r)
  <2>1. Existing(req[r].arg.by, req[r].arg.id) = {}
    BY <1>0, <1>1, <1>4 DEF FoundNothing, Finds, ApplyRows
  <2>2. \A j \in Existing(u, p)' : j \in Existing(u, p) \/ (j = r /\ u = req[r].arg.by /\ p = req[r].arg.id)
    <3>1. /\ r \in Ids
          /\ db'.application[r].by = req[r].arg.by /\ db'.application[r].posting = req[r].arg.id
      <4>1. r \in Ids /\ db'.application[r] = Application(req[r].arg.by, req[r].arg.id, "APPLIED")
        BY <1>0, <1>4, InsertsApplication DEF ApplicationsShape, Ids
      <4>2. \A a, b, c : Application(a, b, c).by = a /\ Application(a, b, c).posting = b
        BY DEF Application
      <4> QED
        BY <4>1, <4>2
    <3>2. \A j \in Ids \ {r} : db'.application[j] = db.application[j]
      BY <1>0, <1>4, InsertsApplication DEF ApplicationsShape
    <3> QED
      BY <3>1, <3>2 DEF Existing
  <2> QED
    BY <1>2, <2>1, <2>2 DEF AtMostOne
<1> QED
  BY <1>3, <1>4

LEMMA ApplicationInvStep ==
    ASSUME ApplicationInv, [\E r \in Requests : ApplicationStep(r) \/ StoreIngest(r) \/ Killed(r)]_vars
    PROVE  ApplicationInv'
<1>1. CASE UNCHANGED vars
  BY <1>1 DEF vars, ApplicationInv, HistoryOK, RequestShape, PriorHasEnded, ApplicationsShape,
     ApplicationStatements, FreshApplications, ReadsItsApplication, FoundNothing, OncePerPosting,
     ApplyOverlap, Doing, MetAny, Met, Ended, At, AtMostOne, Existing, Finds
<1>2. ASSUME NEW r \in Requests, ApplicationStep(r) \/ StoreIngest(r) \/ Killed(r)
      PROVE  ApplicationInv'
  <2>1. HistoryOK'
    BY <1>2, ApplicationMoves, HistoryStep DEF ApplicationInv
  <2> QED
    BY <1>2, <2>1, RecordsStay, StatementsStep, FreshStep, ReadsStep, FoundNothingStep, OncePerPostingStep
    DEF ApplicationInv
<1> QED
  BY <1>1, <1>2

LEMMA AtMostOneCounts ==
    ASSUME NEW S, \A i, k \in S : i = k
    PROVE  Cardinality(S) <= 1
<1>1. CASE S = {}
  BY <1>1, FS_EmptySet
<1>2. CASE S # {}
  <2>1. PICK x : S = {x}
    BY <1>2
  <2> QED
    BY <2>1, FS_Singleton
<1> QED
  BY <1>1, <1>2

\* Whatever applications, submissions, postings and employers' changes go on at
\* once, and wherever a request is dropped: nobody has two applications to one
\* posting unless two requests to apply met, though applyPosting's NOT EXISTS
\* sees its snapshot and no index stands behind it.
THEOREM OneApplication == ApplicationSpec => []OneApply
<1>1. ApplicationInv => OneApply
  BY AtMostOneCounts DEF ApplicationInv, OncePerPosting, ApplyOverlap, AtMostOne, OneApply
<1> QED
  BY <1>1, ApplicationInvInit, ApplicationInvStep, PTL DEF ApplicationSpec

-----------------------------------------------------------------------------
(***************************************************************************)
(* Interviews: the calendar follows.                                       *)
(***************************************************************************)

ScheduleShape ==
    /\ {"interview", "event"} \subseteq DOMAIN db
    /\ db.interview \in [Ids -> InterviewRecord \cup {Nil}]
    /\ db.event \in [Ids -> EventRecord \cup {Nil}]

\* An interview and its event are inserted together and have one id here.
OwnEvents == \A i \in Ids : db.interview[i] # Nil => db.interview[i].event = i

OneTime(i) ==
    db.interview[i] # Nil /\ db.event[i] # Nil => db.event[i].at = db.interview[i].at

ScheduleInit ==
    /\ RequestsInit
    /\ ScheduleShape /\ OwnEvents
    /\ \A r \in Requests : db.interview[r] = Nil /\ db.event[r] = Nil
    /\ \A i \in Ids : OneTime(i)

ScheduleSpec == ScheduleInit /\ [][\E r \in Requests : ScheduleStep(r) \/ Killed(r)]_vars

ScheduleHandlers ==
    {"createInterview", "patchInterview", "patchEvent", "deleteEvent", "getOffer", "decideOffer"}

LEMMA ScheduleMoves ==
    ASSUME NEW r \in Requests, ScheduleStep(r) \/ Killed(r)
    PROVE  Moves(r)
<1>1. CASE ArriveSchedule(r)
  <2>1. \A h, arg : h \in ScheduleHandlers /\ Begin(r, h, arg) => Moves(r)
    BY BeginMoves DEF ScheduleHandlers, Ends
  <2> QED
    BY <1>1, <2>1 DEF ArriveSchedule, ScheduleHandlers
<1>2. CASE Killed(r)
  BY <1>2, DoMoves DEF Killed
<1>3. CASE \/ CreateInterview(r) \/ PatchInterview(r) \/ InterviewRow(r) \/ PatchEvent(r) \/ EventRow(r)
           \/ DeleteEvent(r)
  BY <1>3, DoMoves DEF CreateInterview, PatchInterview, InterviewRow, PatchEvent, EventRow, DeleteEvent,
     Load, Save, GoOn, End, Refuse, Open, Ended, At, Ends
<1>4. CASE ReadOffer(r) \/ ReadRow(r) \/ DecideOffer(r) \/ OfferRow(r)
  BY <1>4, DoMoves DEF ReadOffer, ReadRow, DecideOffer, OfferRow, GoOn, End, Refuse, Open, Ended, At, Ends
<1> QED
  BY <1>1, <1>2, <1>3, <1>4 DEF ScheduleStep

LEMMA ScheduleGoesTo ==
    ASSUME HistoryOK, NEW r \in Requests, ScheduleStep(r) \/ Killed(r)
    PROVE  \/ ArriveSchedule(r)
           \/ /\ Open(r) /\ req'[r].do = req[r].do /\ req'[r].arg = req[r].arg
              /\ ~At(r, "createInterview")'
              /\ At(r, "interviewRow")' => PatchInterview(r)
              /\ At(r, "eventRow")' => PatchEvent(r)
              /\ req'[r].at \in {"interviewRow", "eventRow", "readRow", "offerRow"} \cup Ends
              /\ req[r].do = "createInterview" /\ At(r, "createInterview") => Ended(r)'
<1>1. \A statement, v, tables : Do(r, statement, v, tables) =>
          /\ req'[r].do = req[r].do /\ req'[r].arg = req[r].arg /\ req'[r].at = statement
  BY DoEffect
<1>2. CASE Killed(r)
  BY <1>1, <1>2 DEF Killed, Open, At, Ends, Ended
<1>3. CASE \/ CreateInterview(r) \/ PatchInterview(r) \/ InterviewRow(r) \/ PatchEvent(r) \/ EventRow(r)
           \/ DeleteEvent(r)
  BY <1>1, <1>3 DEF CreateInterview, PatchInterview, InterviewRow, PatchEvent, EventRow, DeleteEvent,
     Load, Save, GoOn, End, Refuse, Open, Ended, At, Ends
<1>4. CASE ReadOffer(r) \/ ReadRow(r) \/ DecideOffer(r) \/ OfferRow(r)
  BY <1>1, <1>4 DEF ReadOffer, ReadRow, DecideOffer, OfferRow, GoOn, End, Refuse, Open, Ended, At, Ends
<1> QED
  BY <1>2, <1>3, <1>4 DEF ScheduleStep

\* Which handler a statement is of, and what its request names.  The id of a
\* new row is fresh: nobody names it before it is there.
ScheduleStatements ==
    \A r \in Requests :
        /\ At(r, "createInterview") => req[r].do = "createInterview"
        /\ At(r, "patchInterview") \/ At(r, "interviewRow") => req[r].do = "patchInterview"
        /\ At(r, "patchEvent") \/ At(r, "eventRow") => req[r].do = "patchEvent"
        /\ At(r, "deleteEvent") => req[r].do = "deleteEvent"
        /\ At(r, "new") => req[r].do = "none"
        /\ req[r].do = "createInterview" =>
              req[r].arg.at \in Times /\ (At(r, "createInterview") \/ Ended(r))
        /\ req[r].do \in {"patchInterview", "patchEvent", "deleteEvent"} => req[r].arg.id \in Ids
        /\ req[r].do = "patchInterview" =>
              /\ req[r].arg.at \in Times \cup {Nil}
              /\ db.interview[req[r].arg.id] # Nil
        /\ req[r].do = "patchEvent" =>
              /\ req[r].arg.at \in Times \cup {Nil}
              /\ req[r].arg.id \in Requests => req[req[r].arg.id].do = "createInterview"
                                               /\ Ended(req[r].arg.id)

FreshInterviews ==
    \A r \in Requests : db.interview[r] # Nil \/ db.event[r] # Nil =>
        req[r].do = "createInterview" /\ Ended(r)

\* What patchInterview has read is the row, or the row has gone on.
ReadsItsInterview ==
    \A r \in Requests : At(r, "interviewRow") =>
        LET row == db.interview[req[r].arg.id] IN
        /\ req[r].v \in InterviewRecord
        /\ req[r].v.rev <= row.rev
        /\ req[r].v.rev = row.rev => req[r].v = row

\* The event patchEvent has read shows the time of the row, or the row has gone
\* on, or an interview was moved meanwhile.
ReadsItsEvent ==
    \A r \in Requests : At(r, "eventRow") =>
        LET row == db.event[req[r].arg.id] IN
        /\ req[r].v \in EventRecord
        /\ row # Nil => /\ req[r].v.rev <= row.rev
                        /\ \/ req[r].v.rev < row.rev
                           \/ req[r].v.at = row.at
                           \/ MetAny(r, {"patchInterview"})

EventMoved ==
    \E r \in Doing("patchEvent") :
        At(r, "ok") /\ (req[r].arg.at # Nil \/ MetAny(r, {"patchInterview"}))

ScheduleInv ==
    /\ HistoryOK /\ ScheduleShape /\ OwnEvents
    /\ ScheduleStatements /\ FreshInterviews
    /\ ReadsItsInterview /\ ReadsItsEvent
    /\ EventMoved \/ \A i \in Ids : OneTime(i)

LEMMA ScheduleInvInit == ScheduleInit => ScheduleInv
<1> SUFFICES ASSUME ScheduleInit PROVE ScheduleInv
  OBVIOUS
<1>1. HistoryOK
  BY HistoryInit DEF ScheduleInit
<1>2. \A r \in Requests : req[r].at = "new" /\ req[r].do = "none"
  BY DEF ScheduleInit, RequestsInit
<1> QED
  BY <1>1, <1>2 DEF ScheduleInit, ScheduleInv, ScheduleStatements, FreshInterviews, ReadsItsInterview,
     ReadsItsEvent, At

RowsKept(i) == db'.interview[i] = db.interview[i] /\ db'.event[i] = db.event[i]

LEMMA CreateEffect ==
    ASSUME ScheduleInv, NEW r \in Requests, CreateInterview(r)
    PROVE  /\ ScheduleShape'
           /\ \A i \in Ids \ {r} : RowsKept(i)
           /\ db'.interview[r] \in InterviewRecord /\ db'.event[r] \in EventRecord
           /\ db'.interview[r].event = r
           /\ db'.event[r].at = db'.interview[r].at
<1> DEFINE at == req[r].arg.at
<1>1. at \in Times /\ r \in Ids
  BY DEF ScheduleInv, ScheduleStatements, CreateInterview, Ids
<1>2. Interview(r, at) \in InterviewRecord /\ Event(at) \in EventRecord
  BY <1>1 DEF Interview, Event, InterviewRecord, EventRecord
<1>3. Interview(r, at).event = r /\ Interview(r, at).at = at /\ Event(at).at = at
  BY DEF Interview, Event
<1>4. DOMAIN db' = DOMAIN db /\ db'.interview = [db.interview EXCEPT ![r] = Interview(r, at)]
      /\ db'.event = [db.event EXCEPT ![r] = Event(at)]
  BY DEF CreateInterview, End, Do, ScheduleInv, ScheduleShape
<1> HIDE DEF at
<1> QED
  BY <1>1, <1>2, <1>3, <1>4 DEF ScheduleInv, ScheduleShape, RowsKept

LEMMA InterviewRowEffect ==
    ASSUME ScheduleInv, NEW r \in Requests, InterviewRow(r), db' # db
    PROVE  LET i == req[r].arg.id  to == req[r].arg.at IN
           /\ ScheduleShape'
           /\ i \in Ids /\ \A k \in Ids \ {i} : RowsKept(k)
           /\ db.interview[i] \in InterviewRecord /\ db'.interview[i] \in InterviewRecord
           /\ db'.interview[i].event = i
           /\ db'.interview[i].rev = db.interview[i].rev + 1
           /\ db.event[i] = Nil => db'.event[i] = Nil
           /\ db.event[i] # Nil =>
                 /\ db'.event[i] \in EventRecord
                 /\ db'.event[i].rev = db.event[i].rev
                 /\ to # Nil => db'.event[i].at = db'.interview[i].at
                 /\ to = Nil => /\ db'.event[i] = db.event[i]
                                /\ db'.interview[i].at = db.interview[i].at
<1> DEFINE i == req[r].arg.id
           to == req[r].arg.at
           row == [req[r].v EXCEPT !.at = IF to = Nil THEN @ ELSE to]
           event == IF to = Nil \/ db.event[i] = Nil THEN db.event[i] ELSE [db.event[i] EXCEPT !.at = to]
<1>1. i \in Ids /\ to \in Times \cup {Nil} /\ db.interview[i] \in InterviewRecord
  BY DEF ScheduleInv, ScheduleShape, ScheduleStatements, InterviewRow
<1>2. InterviewRead(r)
  BY DEF InterviewRow, Refuse, Do
<1>3. req[r].v = db.interview[i] /\ req[r].v.event = i
  BY <1>1, <1>2, ScheduleAssumption
  DEF InterviewRead, Same, ScheduleInv, ReadsItsInterview, OwnEvents, InterviewRow
<1>4. DOMAIN db' = DOMAIN db /\ db'.interview = [db.interview EXCEPT ![i] = Bumped(row)]
      /\ db'.event = [db.event EXCEPT ![i] = event]
  BY <1>2, <1>3 DEF InterviewRow, End, Do, ScheduleInv, ScheduleShape
<1>5. /\ Bumped(row) \in InterviewRecord
      /\ Bumped(row).event = i
      /\ Bumped(row).rev = db.interview[i].rev + 1
      /\ to # Nil => Bumped(row).at = to
      /\ to = Nil => Bumped(row).at = db.interview[i].at
  <2> DEFINE at == IF to = Nil THEN req[r].v.at ELSE to
  <2>1. row = [req[r].v EXCEPT !.at = at]
    OBVIOUS
  <2>2. at \in Times
    BY <1>1, <1>3 DEF InterviewRecord
  <2> HIDE DEF at, row
  <2>3. /\ row \in InterviewRecord /\ row.at = at
        /\ row.event = req[r].v.event /\ row.rev = req[r].v.rev
    BY <1>1, <1>3, <2>1, <2>2 DEF InterviewRecord
  <2>4. /\ Bumped(row) \in InterviewRecord /\ Bumped(row).at = at
        /\ Bumped(row).event = row.event /\ Bumped(row).rev = row.rev + 1
    BY <2>3 DEF Bumped, InterviewRecord
  <2> QED
    BY <1>1, <1>3, <2>3, <2>4 DEF at
<1>6. db.event[i] # Nil => /\ event \in EventRecord
                           /\ event.rev = db.event[i].rev
                           /\ to # Nil => event.at = to
                           /\ to = Nil => event = db.event[i]
  BY <1>1 DEF EventRecord, ScheduleInv, ScheduleShape
<1>7. db.event[i] = Nil => event = Nil
  OBVIOUS
<1> HIDE DEF i, to, row, event
<1>8. db'.interview[i] = Bumped(row) /\ db'.event[i] = event /\ \A k \in Ids \ {i} : RowsKept(k)
  BY <1>1, <1>4 DEF ScheduleInv, ScheduleShape, RowsKept
<1>9. ScheduleShape'
  BY <1>1, <1>4, <1>5, <1>6, <1>7 DEF ScheduleInv, ScheduleShape
<1> QED
  BY <1>1, <1>5, <1>6, <1>7, <1>8, <1>9 DEF i, to

LEMMA EventRowEffect ==
    ASSUME ScheduleInv, NEW r \in Requests, EventRow(r), db' # db
    PROVE  LET e == req[r].arg.id  to == req[r].arg.at IN
           /\ ScheduleShape'
           /\ e \in Ids /\ \A k \in Ids \ {e} : RowsKept(k)
           /\ db'.interview[e] = db.interview[e]
           /\ db.event[e] \in EventRecord /\ db'.event[e] \in EventRecord
           /\ db'.event[e].rev = db.event[e].rev + 1
           /\ to = Nil => db'.event[e].at = req[r].v.at /\ req[r].v.rev = db.event[e].rev
           /\ At(r, "ok")'
<1> DEFINE e == req[r].arg.id
           to == req[r].arg.at
           row == IF to = Nil THEN req[r].v ELSE [req[r].v EXCEPT !.at = to]
<1>1. e \in Ids /\ to \in Times \cup {Nil} /\ req[r].v \in EventRecord
  BY DEF ScheduleInv, ScheduleStatements, ReadsItsEvent, EventRow
<1>2. row.rev = req[r].v.rev /\ row \in EventRecord /\ (to = Nil => row.at = req[r].v.at)
  BY <1>1 DEF EventRecord
<1>3. Save(r, "event", row)
  BY DEF EventRow
<1> HIDE DEF e, to, row
<1>4. /\ db.event[e] # Nil /\ db.event[e].rev = row.rev
      /\ End(r, [db EXCEPT !["event"][e] = Bumped(row)])
  BY <1>3 DEF Save, Same, Refuse, Do, e
<1>5. DOMAIN db' = DOMAIN db /\ db'.interview = db.interview
      /\ db'.event = [db.event EXCEPT ![e] = Bumped(row)]
  BY <1>4 DEF End, Do, ScheduleInv, ScheduleShape
<1>6. Bumped(row) \in EventRecord /\ Bumped(row).rev = row.rev + 1 /\ Bumped(row).at = row.at
  BY <1>2 DEF Bumped, EventRecord
<1>7. db.event[e] \in EventRecord
  BY <1>1, <1>4 DEF ScheduleInv, ScheduleShape
<1>8. At(r, "ok")'
  <2>1. PICK tables : Do(r, "ok", req[r].v, tables)
    BY <1>4 DEF End
  <2> QED
    BY <2>1, DoEffect DEF At, ScheduleInv
<1>9. /\ db'.event[e] = Bumped(row)
      /\ \A k \in Ids \ {e} : RowsKept(k)
      /\ ScheduleShape'
  BY <1>1, <1>5, <1>6 DEF ScheduleInv, ScheduleShape, RowsKept
<1> QED
  BY <1>1, <1>2, <1>4, <1>5, <1>6, <1>7, <1>8, <1>9 DEF e, to

LEMMA DeleteEventEffect ==
    ASSUME ScheduleInv, NEW r \in Requests, DeleteEvent(r), db' # db
    PROVE  /\ ScheduleShape'
           /\ db'.interview = db.interview
           /\ \A k \in Ids : db'.event[k] \in {Nil, db.event[k]}
<1>1. req[r].arg.id \in Ids
  BY DEF ScheduleInv, ScheduleStatements, DeleteEvent
<1>2. DOMAIN db' = DOMAIN db /\ db'.interview = db.interview
      /\ db'.event = [db.event EXCEPT ![req[r].arg.id] = Nil]
  BY DEF DeleteEvent, End, Refuse, Do, ScheduleInv, ScheduleShape
<1> QED
  BY <1>1, <1>2 DEF ScheduleInv, ScheduleShape

LEMMA ScheduleKept ==
    ASSUME ScheduleInv, NEW r \in Requests, ScheduleStep(r) \/ Killed(r),
           ~CreateInterview(r), ~DeleteEvent(r), ~(InterviewRow(r) /\ db' # db), ~(EventRow(r) /\ db' # db)
    PROVE  ScheduleShape' /\ \A i \in Ids : RowsKept(i)
<1>1. DOMAIN db' = DOMAIN db /\ db'.interview = db.interview /\ db'.event = db.event
  BY DEF ScheduleStep, ArriveSchedule, Begin, Killed, PatchInterview, PatchEvent, ReadOffer, ReadRow,
     DecideOffer, OfferRow, Load, GoOn, End, Refuse, Do, ScheduleInv, ScheduleShape
<1> QED
  BY <1>1 DEF ScheduleInv, ScheduleShape, RowsKept

\* The tables after a step: an interview stays, and its revision only grows.
LEMMA ScheduleTablesStep ==
    ASSUME ScheduleInv, NEW r \in Requests, ScheduleStep(r) \/ Killed(r)
    PROVE  /\ ScheduleShape' /\ OwnEvents'
           /\ \A i \in Ids : db.interview[i] # Nil => db'.interview[i] # Nil
<1>0. ScheduleShape /\ OwnEvents
  BY DEF ScheduleInv
<1>1. CASE CreateInterview(r)
  <2>1. ScheduleShape' /\ db'.interview[r] \in InterviewRecord /\ db'.interview[r].event = r
    BY <1>1, CreateEffect
  <2>2. \A i \in Ids \ {r} : db'.interview[i] = db.interview[i]
    BY <1>1, CreateEffect DEF RowsKept
  <2> QED
    BY <1>0, <2>1, <2>2, ScheduleAssumption DEF OwnEvents
<1>2. CASE InterviewRow(r) /\ db' # db
  <2> DEFINE i == req[r].arg.id
  <2>1. ScheduleShape' /\ db'.interview[i] \in InterviewRecord /\ db'.interview[i].event = i
    BY <1>2, InterviewRowEffect
  <2>2. \A k \in Ids \ {i} : db'.interview[k] = db.interview[k]
    BY <1>2, InterviewRowEffect DEF RowsKept
  <2> HIDE DEF i
  <2> QED
    BY <1>0, <2>1, <2>2, ScheduleAssumption DEF OwnEvents
<1>3. CASE EventRow(r) /\ db' # db
  <2> DEFINE e == req[r].arg.id
  <2>1. ScheduleShape' /\ db'.interview[e] = db.interview[e]
    BY <1>3, EventRowEffect
  <2>2. \A k \in Ids \ {e} : db'.interview[k] = db.interview[k]
    BY <1>3, EventRowEffect DEF RowsKept
  <2> HIDE DEF e
  <2> QED
    BY <1>0, <2>1, <2>2 DEF OwnEvents
<1>4. CASE DeleteEvent(r)
  <2>1. CASE db' = db
    BY <1>0, <2>1 DEF ScheduleShape, OwnEvents
  <2>2. CASE db' # db
    BY <1>0, <1>4, <2>2, DeleteEventEffect DEF OwnEvents
  <2> QED
    BY <2>1, <2>2
<1>5. CASE /\ ~CreateInterview(r) /\ ~DeleteEvent(r)
           /\ ~(InterviewRow(r) /\ db' # db) /\ ~(EventRow(r) /\ db' # db)
  BY <1>0, <1>5, ScheduleKept DEF OwnEvents, RowsKept
<1> QED
  BY <1>1, <1>2, <1>3, <1>4, <1>5

LEMMA ScheduleStatementsStep ==
    ASSUME ScheduleInv, NEW r \in Requests, ScheduleStep(r) \/ Killed(r)
    PROVE  ScheduleStatements'
<1>0. HistoryOK /\ ScheduleShape /\ ScheduleStatements /\ FreshInterviews /\ Moves(r)
  BY ScheduleMoves DEF ScheduleInv
<1> DEFINE Made(i, all) == i \in Requests => all[i].do = "createInterview" /\ all[i].at \in Ends
           Fits(q, rows) ==
        /\ q.at = "createInterview" => q.do = "createInterview"
        /\ q.at \in {"patchInterview", "interviewRow"} => q.do = "patchInterview"
        /\ q.at \in {"patchEvent", "eventRow"} => q.do = "patchEvent"
        /\ q.at = "deleteEvent" => q.do = "deleteEvent"
        /\ q.at = "new" => q.do = "none"
        /\ q.do = "createInterview" => q.arg.at \in Times /\ (q.at = "createInterview" \/ q.at \in Ends)
        /\ q.do \in {"patchInterview", "patchEvent", "deleteEvent"} => q.arg.id \in Ids
        /\ q.do = "patchInterview" => q.arg.at \in Times \cup {Nil} /\ rows[q.arg.id] # Nil
        /\ q.do = "patchEvent" => q.arg.at \in Times \cup {Nil}
<1>2. \A s \in Requests : Fits(req[s], db.interview)
                          /\ (req[s].do = "patchEvent" => Made(req[s].arg.id, req))
  BY <1>0 DEF ScheduleStatements, At, Ended
<1>3. \A s \in Requests : Fits(req[s], db'.interview)
  BY <1>2, ScheduleTablesStep
<1>4. \A i : Made(i, req) => Made(i, req')
  BY <1>0, OthersStay DEF Ended, At
<1>5. Fits(req'[r], db'.interview) /\ (req'[r].do = "patchEvent" => Made(req'[r].arg.id, req'))
  <2>1. CASE ArriveSchedule(r)
    <3>1. \A h, arg : Begin(r, h, arg) => /\ req'[r].do = h /\ req'[r].at = h /\ req'[r].arg = arg
                                          /\ db' = db
      BY <1>0, BeginRequest, BeginEffect
    <3>2. \A i \in Ids : db.event[i] # Nil => Made(i, req)
      BY <1>0 DEF FreshInterviews, Ended, At
    <3>3. CASE \E t \in Times : Begin(r, "createInterview", [at |-> t])
      BY <3>1, <3>3
    <3>4. ASSUME NEW i \in Ids, NEW t \in Times \cup {Nil}, db.interview[i] # Nil,
                 Begin(r, "patchInterview", [id |-> i, at |-> t])
          PROVE  Fits(req'[r], db'.interview) /\ req'[r].do # "patchEvent"
      BY <3>1, <3>4
    <3>5. ASSUME NEW i \in Ids, NEW t \in Times \cup {Nil}, db.event[i] # Nil,
                 Begin(r, "patchEvent", [id |-> i, at |-> t])
          PROVE  Fits(req'[r], db'.interview) /\ Made(req'[r].arg.id, req')
      BY <1>4, <3>1, <3>2, <3>5
    <3>6. ASSUME NEW e \in Ids, Begin(r, "deleteEvent", [id |-> e, rev |-> db.event[e].rev])
          PROVE  Fits(req'[r], db'.interview) /\ req'[r].do # "patchEvent"
      BY <3>1, <3>6
    <3>7. ASSUME NEW o \in Ids, \/ Begin(r, "getOffer", [id |-> o])
                                \/ \E to : Begin(r, "decideOffer", [id |-> o, to |-> to])
          PROVE  Fits(req'[r], db'.interview) /\ req'[r].do # "patchEvent"
      <4>1. CASE Begin(r, "getOffer", [id |-> o])
        BY <3>1, <4>1
      <4>2. CASE \E to : Begin(r, "decideOffer", [id |-> o, to |-> to])
        BY <3>1, <4>2
      <4> QED
        BY <3>7, <4>1, <4>2
    <3> HIDE DEF Fits, Made
    <3>8. \/ \E t \in Times : Begin(r, "createInterview", [at |-> t])
          \/ \E i \in Ids, t \in Times \cup {Nil} :
                \/ db.interview[i] # Nil /\ Begin(r, "patchInterview", [id |-> i, at |-> t])
                \/ db.event[i] # Nil /\ Begin(r, "patchEvent", [id |-> i, at |-> t])
          \/ \E e \in Ids : Begin(r, "deleteEvent", [id |-> e, rev |-> db.event[e].rev])
          \/ \E o \in Ids : \/ Begin(r, "getOffer", [id |-> o])
                            \/ \E to : Begin(r, "decideOffer", [id |-> o, to |-> to])
      BY <2>1 DEF ArriveSchedule
    <3> QED
      BY <3>3, <3>4, <3>5, <3>6, <3>7, <3>8
  <2>2. CASE ~ArriveSchedule(r)
    <3>1. /\ req'[r].do = req[r].do /\ req'[r].arg = req[r].arg
          /\ req'[r].at # "createInterview"
          /\ req'[r].at = "interviewRow" => req[r].at = "patchInterview"
          /\ req'[r].at = "eventRow" => req[r].at = "patchEvent"
          /\ req'[r].at \in {"interviewRow", "eventRow", "readRow", "offerRow"} \cup Ends
          /\ req[r].do = "createInterview" /\ At(r, "createInterview") => req'[r].at \in Ends
      BY <1>0, <2>2, ScheduleGoesTo DEF At, PatchInterview, PatchEvent, Load, Ended
    <3>2. req[r].at \notin Ends
      BY <1>0, <2>2, ScheduleGoesTo DEF Open, Ended, At
    <3> QED
      BY <1>2, <1>3, <1>4, <3>1, <3>2 DEF Ends, At
  <2> QED
    BY <2>1, <2>2
<1>6. ASSUME NEW s \in Requests
      PROVE  Fits(req'[s], db'.interview) /\ (req'[s].do = "patchEvent" => Made(req'[s].arg.id, req'))
  BY <1>0, <1>2, <1>3, <1>4, <1>5, OthersStay
<1> QED
  BY <1>6 DEF ScheduleStatements, At, Ended

LEMMA FreshInterviewsStep ==
    ASSUME ScheduleInv, NEW r \in Requests, ScheduleStep(r) \/ Killed(r)
    PROVE  FreshInterviews'
<1>0. HistoryOK /\ ScheduleShape /\ ScheduleStatements /\ FreshInterviews /\ Moves(r) /\ Requests \subseteq Ids
  BY ScheduleMoves DEF ScheduleInv, Ids
<1> SUFFICES ASSUME NEW s \in Requests, db'.interview[s] # Nil \/ db'.event[s] # Nil
             PROVE  req'[s].do = "createInterview" /\ Ended(s)'
  BY DEF FreshInterviews
<1>1. CASE s = r /\ CreateInterview(r)
  <2>1. PICK tables : Do(r, "ok", req[r].v, tables)
    BY <1>1 DEF CreateInterview, End
  <2>2. req[r].do = "createInterview"
    BY <1>0, <1>1 DEF ScheduleStatements, CreateInterview
  <2> QED
    BY <1>0, <1>1, <2>1, <2>2, DoEffect DEF Ended, At, Ends
<1>2. CASE ~(s = r /\ CreateInterview(r))
  <2>1. db.interview[s] # Nil \/ db.event[s] # Nil
    <3>1. CASE CreateInterview(r)
      BY <1>0, <1>2, <3>1, CreateEffect DEF RowsKept
    <3>2. CASE InterviewRow(r) /\ db' # db
      <4> DEFINE i == req[r].arg.id
      <4>1. db.interview[i] \in InterviewRecord /\ \A k \in Ids \ {i} : RowsKept(k)
        BY <3>2, InterviewRowEffect
      <4> HIDE DEF i
      <4> QED
        BY <1>0, <4>1, ScheduleAssumption DEF RowsKept
    <3>3. CASE EventRow(r) /\ db' # db
      <4> DEFINE e == req[r].arg.id
      <4>1. db.event[e] \in EventRecord /\ \A k \in Ids \ {e} : RowsKept(k)
        BY <3>3, EventRowEffect
      <4> HIDE DEF e
      <4> QED
        BY <1>0, <4>1, ScheduleAssumption DEF RowsKept
    <3>4. CASE DeleteEvent(r) /\ db' # db
      BY <1>0, <3>4, DeleteEventEffect
    <3>5. CASE ~CreateInterview(r) /\ ~DeleteEvent(r) /\ db' # db /\ ~InterviewRow(r) /\ ~EventRow(r)
      BY <1>0, <3>5, ScheduleKept DEF RowsKept
    <3> QED
      BY <3>1, <3>2, <3>3, <3>4, <3>5
  <2>2. req[s].do = "createInterview" /\ Ended(s)
    BY <1>0, <2>1 DEF FreshInterviews
  <2> QED
    BY <1>0, <2>2, OthersStay DEF Ended, At
<1> QED
  BY <1>1, <1>2

\* What changes an interview that is there.
LEMMA InterviewChange ==
    ASSUME ScheduleInv, NEW r \in Requests, ScheduleStep(r) \/ Killed(r),
           NEW i \in Ids, db.interview[i] # Nil
    PROVE  \/ db'.interview[i] = db.interview[i]
           \/ /\ db.interview[i] \in InterviewRecord
              /\ db'.interview[i].rev = db.interview[i].rev + 1
<1>1. CASE CreateInterview(r)
  <2>1. i # r
    BY <1>1 DEF ScheduleInv, FreshInterviews, CreateInterview, Ended, At, Ends
  <2> QED
    BY <1>1, <2>1, CreateEffect DEF RowsKept
<1>2. CASE InterviewRow(r) /\ db' # db
  <2> DEFINE k == req[r].arg.id
  <2>1. /\ \A j \in Ids \ {k} : RowsKept(j)
        /\ db.interview[k] \in InterviewRecord /\ db'.interview[k].rev = db.interview[k].rev + 1
    BY <1>2, InterviewRowEffect
  <2> HIDE DEF k
  <2> QED
    BY <2>1 DEF RowsKept
<1>3. CASE EventRow(r) /\ db' # db
  <2> DEFINE k == req[r].arg.id
  <2>1. (\A j \in Ids \ {k} : RowsKept(j)) /\ db'.interview[k] = db.interview[k]
    BY <1>3, EventRowEffect
  <2> HIDE DEF k
  <2> QED
    BY <2>1 DEF RowsKept
<1>4. CASE DeleteEvent(r) /\ db' # db
  BY <1>4, DeleteEventEffect
<1>5. CASE db' = db
  BY <1>5
<1>6. CASE ~CreateInterview(r) /\ ~DeleteEvent(r) /\ ~InterviewRow(r) /\ ~EventRow(r)
  BY <1>6, ScheduleKept DEF RowsKept
<1> QED
  BY <1>1, <1>2, <1>3, <1>4, <1>5, <1>6

LEMMA ReadsItsInterviewStep ==
    ASSUME ScheduleInv, NEW r \in Requests, ScheduleStep(r) \/ Killed(r)
    PROVE  ReadsItsInterview'
<1>0. HistoryOK /\ ScheduleShape /\ ScheduleStatements /\ ReadsItsInterview /\ Moves(r) /\ ScheduleShape'
  BY ScheduleMoves, ScheduleTablesStep DEF ScheduleInv
<1> SUFFICES ASSUME NEW s \in Requests, req'[s].at = "interviewRow", NEW i, i = req'[s].arg.id,
                    NEW v, v = req'[s].v
             PROVE  /\ v \in InterviewRecord
                    /\ v.rev <= db'.interview[i].rev
                    /\ v.rev = db'.interview[i].rev => v = db'.interview[i]
  BY DEF ReadsItsInterview, At
<1>1. CASE s = r
  <2>1. PatchInterview(r)
    <3>1. \A h, arg : Begin(r, h, arg) => req'[r].at = h
      BY <1>0, BeginRequest
    <3>2. ~ArriveSchedule(r)
      BY <1>1, <3>1 DEF ArriveSchedule
    <3> QED
      BY <1>0, <1>1, <3>2, ScheduleGoesTo DEF At
  <2>2. v = db.interview[req[r].arg.id] /\ i = req[r].arg.id /\ db' = db
    BY <1>0, <1>1, <2>1, DoEffect DEF PatchInterview, Load, GoOn, Refuse, Ends
  <2>3. i \in Ids /\ db.interview[i] # Nil
    BY <1>0, <2>1, <2>2 DEF ScheduleStatements, PatchInterview, Load
  <2>4. v \in InterviewRecord /\ v = db'.interview[i]
    BY <1>0, <2>2, <2>3 DEF ScheduleShape
  <2> QED
    BY <2>4 DEF InterviewRecord
<1>2. CASE s # r
  <2>1. req'[s] = req[s]
    BY <1>0, <1>2, OthersStay
  <2>2. i \in Ids /\ db.interview[i] # Nil
    BY <1>0, <2>1 DEF ScheduleStatements, At
  <2>3. /\ v \in InterviewRecord
        /\ v.rev <= db.interview[i].rev
        /\ v.rev = db.interview[i].rev => v = db.interview[i]
    BY <1>0, <2>1 DEF ReadsItsInterview, At
  <2>4. CASE db'.interview[i] = db.interview[i]
    BY <2>3, <2>4
  <2>5. CASE db.interview[i] \in InterviewRecord /\ db'.interview[i].rev = db.interview[i].rev + 1
    BY <2>3, <2>5 DEF InterviewRecord
  <2> QED
    BY <2>2, <2>4, <2>5, InterviewChange
<1> QED
  BY <1>1, <1>2

\* What changes an event that nobody creates now.
LEMMA EventChange ==
    ASSUME ScheduleInv, NEW r \in Requests, ScheduleStep(r) \/ Killed(r),
           NEW e \in Ids, ~(CreateInterview(r) /\ e = r)
    PROVE  \/ db'.event[e] \in {Nil, db.event[e]}
           \/ /\ db.event[e] \in EventRecord
              /\ \/ db'.event[e].rev = db.event[e].rev + 1
                 \/ InterviewRow(r) /\ db'.event[e].rev = db.event[e].rev
<1>1. CASE CreateInterview(r)
  BY <1>1, CreateEffect DEF RowsKept
<1>2. CASE InterviewRow(r) /\ db' # db
  <2> DEFINE k == req[r].arg.id
  <2>1. /\ k \in Ids /\ \A j \in Ids \ {k} : RowsKept(j)
        /\ db.event[k] = Nil => db'.event[k] = Nil
        /\ db.event[k] # Nil => db'.event[k].rev = db.event[k].rev
    BY <1>2, InterviewRowEffect
  <2> HIDE DEF k
  <2> QED
    BY <1>2, <2>1 DEF RowsKept, ScheduleInv, ScheduleShape
<1>3. CASE EventRow(r) /\ db' # db
  <2> DEFINE k == req[r].arg.id
  <2>1. /\ \A j \in Ids \ {k} : RowsKept(j)
        /\ db.event[k] \in EventRecord /\ db'.event[k].rev = db.event[k].rev + 1
    BY <1>3, EventRowEffect
  <2> HIDE DEF k
  <2> QED
    BY <2>1 DEF RowsKept
<1>4. CASE DeleteEvent(r) /\ db' # db
  BY <1>4, DeleteEventEffect
<1>5. CASE db' = db
  BY <1>5
<1>6. CASE ~CreateInterview(r) /\ ~DeleteEvent(r) /\ ~InterviewRow(r) /\ ~EventRow(r)
  BY <1>6, ScheduleKept DEF RowsKept
<1> QED
  BY <1>1, <1>2, <1>3, <1>4, <1>5, <1>6

LEMMA MeetingStays ==
    ASSUME HistoryOK, NEW r \in Requests, Moves(r), NEW s \in Requests, MetAny(s, {"patchInterview"})
    PROVE  MetAny(s, {"patchInterview"})'
<1>1. PICK t \in Requests : req[t].do = "patchInterview" /\ Met(s, t)
  BY DEF MetAny
<1>2. Met(s, t)' /\ req'[t].do = "patchInterview"
  BY <1>1, MetStays, OthersStay DEF Met
<1> QED
  BY <1>2 DEF MetAny

LEMMA ReadsItsEventStep ==
    ASSUME ScheduleInv, NEW r \in Requests, ScheduleStep(r) \/ Killed(r)
    PROVE  ReadsItsEvent'
<1>0. HistoryOK /\ ScheduleShape /\ ScheduleStatements /\ ReadsItsEvent /\ Moves(r) /\ HistoryOK'
  BY ScheduleMoves, HistoryStep DEF ScheduleInv
<1> SUFFICES ASSUME NEW s \in Requests, req'[s].at = "eventRow", NEW e, e = req'[s].arg.id,
                    NEW v, v = req'[s].v
             PROVE  /\ v \in EventRecord
                    /\ db'.event[e] # Nil => /\ v.rev <= db'.event[e].rev
                                             /\ \/ v.rev < db'.event[e].rev
                                                \/ v.at = db'.event[e].at
                                                \/ MetAny(s, {"patchInterview"})'
  BY DEF ReadsItsEvent, At
<1>1. CASE s = r
  <2>1. PatchEvent(r)
    <3>1. \A h, arg : Begin(r, h, arg) => req'[r].at = h
      BY <1>0, BeginRequest
    <3>2. ~ArriveSchedule(r)
      BY <1>1, <3>1 DEF ArriveSchedule
    <3> QED
      BY <1>0, <1>1, <3>2, ScheduleGoesTo DEF At
  <2>2. v = db.event[req[r].arg.id] /\ v # Nil /\ e = req[r].arg.id /\ db' = db
    BY <1>0, <1>1, <2>1, DoEffect DEF PatchEvent, Load, GoOn, Refuse, Ends
  <2>3. e \in Ids
    BY <1>0, <2>1, <2>2 DEF ScheduleStatements, PatchEvent, Load
  <2>4. v \in EventRecord /\ v = db'.event[e]
    BY <1>0, <2>2, <2>3 DEF ScheduleShape
  <2> QED
    BY <2>4 DEF EventRecord
<1>2. CASE s # r
  <2>1. req'[s] = req[s]
    BY <1>0, <1>2, OthersStay
  <2>2. e \in Ids /\ req[s].do = "patchEvent" /\ Open(s)
    BY <1>0, <2>1 DEF ScheduleStatements, At, Open, Ended, Ends
  <2>3. ~(CreateInterview(r) /\ e = r)
    BY <1>0, <2>1, <2>2 DEF ScheduleStatements, CreateInterview, At, Ended, Ends
  <2>4. /\ v \in EventRecord
        /\ db.event[e] # Nil => /\ v.rev <= db.event[e].rev
                                /\ \/ v.rev < db.event[e].rev
                                   \/ v.at = db.event[e].at
                                   \/ MetAny(s, {"patchInterview"})
    BY <1>0, <2>1 DEF ReadsItsEvent, At
  <2>5. MetAny(s, {"patchInterview"}) => MetAny(s, {"patchInterview"})'
    BY <1>0, MeetingStays
  <2>6. CASE db'.event[e] \in {Nil, db.event[e]}
    BY <2>4, <2>5, <2>6
  <2>7. CASE db.event[e] \in EventRecord /\ db'.event[e].rev = db.event[e].rev + 1
    BY <2>4, <2>7, ScheduleAssumption DEF EventRecord
  <2>8. CASE db.event[e] \in EventRecord /\ InterviewRow(r) /\ db'.event[e].rev = db.event[e].rev
    <3>1. Open(r) /\ req[r].do = "patchInterview"
      BY <1>0, <2>8 DEF ScheduleStatements, InterviewRow, Open, Ended, At, Ends
    <3>2. MetAny(s, {"patchInterview"})
      BY <1>0, <1>2, <2>2, <3>1, OpenMeet DEF MetAny
    <3> QED
      BY <2>4, <2>5, <2>8, <3>2, ScheduleAssumption
  <2> QED
    BY <2>2, <2>3, <2>6, <2>7, <2>8, EventChange
<1> QED
  BY <1>1, <1>2

LEMMA MovedStays ==
    ASSUME HistoryOK, NEW r \in Requests, Moves(r), EventMoved
    PROVE  EventMoved'
<1>1. PICK s \in Requests : /\ req[s].do = "patchEvent" /\ At(s, "ok")
                            /\ req[s].arg.at # Nil \/ MetAny(s, {"patchInterview"})
  BY DEF EventMoved, Doing
<1>2. req'[s] = req[s]
  BY <1>1, OthersStay DEF Ended, Ends, At
<1>3. MetAny(s, {"patchInterview"}) => MetAny(s, {"patchInterview"})'
  BY MeetingStays
<1> QED
  BY <1>1, <1>2, <1>3 DEF EventMoved, Doing, At

LEMMA OneTimeStep ==
    ASSUME ScheduleInv, NEW r \in Requests, ScheduleStep(r) \/ Killed(r)
    PROVE  EventMoved' \/ \A i \in Ids : OneTime(i)'
<1>0. HistoryOK /\ ScheduleShape /\ ScheduleStatements /\ ReadsItsEvent /\ Moves(r)
  BY ScheduleMoves DEF ScheduleInv
<1> SUFFICES ASSUME ~EventMoved', NEW i \in Ids, db'.interview[i] # Nil, db'.event[i] # Nil
             PROVE  db'.event[i].at = db'.interview[i].at
  BY DEF OneTime
<1>1. OneTime(i)
  BY <1>0, MovedStays DEF ScheduleInv
<1>2. CASE RowsKept(i)
  BY <1>1, <1>2 DEF RowsKept, OneTime
<1>3. CASE ~RowsKept(i) /\ CreateInterview(r)
  BY <1>3, CreateEffect
<1>4. CASE ~RowsKept(i) /\ InterviewRow(r) /\ db' # db
  <2>1. i = req[r].arg.id
    BY <1>4, InterviewRowEffect
  <2>2. /\ db.interview[i] \in InterviewRecord /\ db.event[i] # Nil
        /\ req[r].arg.at # Nil => db'.event[i].at = db'.interview[i].at
        /\ req[r].arg.at = Nil => db'.event[i] = db.event[i] /\ db'.interview[i].at = db.interview[i].at
    BY <1>4, <2>1, InterviewRowEffect
  <2> QED
    BY <1>1, <2>2, ScheduleAssumption DEF OneTime
<1>5. CASE ~RowsKept(i) /\ EventRow(r) /\ db' # db
  <2>1. i = req[r].arg.id
    BY <1>5, EventRowEffect
  <2>2. /\ db'.interview[i] = db.interview[i] /\ db.event[i] \in EventRecord
        /\ req[r].arg.at = Nil => db'.event[i].at = req[r].v.at /\ req[r].v.rev = db.event[i].rev
        /\ At(r, "ok")'
    BY <1>5, <2>1, EventRowEffect
  <2>3. req[r].do = "patchEvent" /\ req'[r].do = "patchEvent" /\ req'[r].arg = req[r].arg /\ ~At(r, "new")'
    BY <1>0, <1>5, OthersStay DEF ScheduleStatements, EventRow, At
  <2>4. req[r].arg.at = Nil /\ ~MetAny(r, {"patchInterview"})'
    BY <2>2, <2>3 DEF EventMoved, Doing
  <2>5. ~MetAny(r, {"patchInterview"})
    BY <1>0, <2>4, MeetingStays
  <2>6. req[r].v.at = db.event[i].at
    <3>1. req[r].v \in EventRecord /\ db.event[i] # Nil
      BY <1>0, <1>5, <2>2, ScheduleAssumption DEF ReadsItsEvent, EventRow
    <3>2. \/ req[r].v.rev < db.event[i].rev
          \/ req[r].v.at = db.event[i].at
          \/ MetAny(r, {"patchInterview"})
      BY <1>0, <1>5, <2>1, <3>1 DEF ReadsItsEvent, EventRow
    <3> QED
      BY <2>2, <2>4, <2>5, <3>1, <3>2 DEF EventRecord
  <2> QED
    BY <1>1, <2>2, <2>4, <2>6, ScheduleAssumption DEF OneTime
<1>6. CASE ~RowsKept(i) /\ DeleteEvent(r) /\ db' # db
  BY <1>6, DeleteEventEffect DEF RowsKept
<1> QED
  BY <1>2, <1>3, <1>4, <1>5, <1>6, ScheduleKept DEF RowsKept

LEMMA ScheduleInvStep ==
    ASSUME ScheduleInv, [\E r \in Requests : ScheduleStep(r) \/ Killed(r)]_vars
    PROVE  ScheduleInv'
<1>1. CASE UNCHANGED vars
  BY <1>1 DEF vars, ScheduleInv, HistoryOK, RequestShape, PriorHasEnded, ScheduleShape, OwnEvents,
     ScheduleStatements, FreshInterviews, ReadsItsInterview, ReadsItsEvent, EventMoved, OneTime,
     Doing, MetAny, Met, Ended, At
<1>2. ASSUME NEW r \in Requests, ScheduleStep(r) \/ Killed(r)
      PROVE  ScheduleInv'
  <2>1. HistoryOK'
    BY <1>2, ScheduleMoves, HistoryStep DEF ScheduleInv
  <2> QED
    BY <1>2, <2>1, ScheduleTablesStep, ScheduleStatementsStep, FreshInterviewsStep, ReadsItsInterviewStep,
       ReadsItsEventStep, OneTimeStep DEF ScheduleInv
<1> QED
  BY <1>1, <1>2

\* Whatever interviews and events are created, moved and deleted at once, and
\* wherever a request is dropped: the calendar shows the time of the interview
\* unless somebody moved the event itself, or wrote back a time read before the
\* interview was moved, which moving it does not tell (the event's revision
\* stays).
THEOREM CalendarIsRight == ScheduleSpec => []CalendarFollows
<1>1. ScheduleInv => CalendarFollows
  BY DEF ScheduleInv, OwnEvents, OneTime, EventMoved, CalendarFollows
<1> QED
  BY <1>1, ScheduleInvInit, ScheduleInvStep, PTL DEF ScheduleSpec

-----------------------------------------------------------------------------
(***************************************************************************)
(* Approvals: a card that was answered is resumed.                         *)
(***************************************************************************)

\* An approval of any kind may be of any row.
AnyRowOf(kind) == Ids

Undecided(a) == db.approval[a].option = Nil

ApprovalShape ==
    /\ {"approval", "job"} \subseteq DOMAIN db
    /\ db.approval \in [Ids -> ApprovalRecord \cup {Nil}]
    /\ db.job \in [Ids -> JobRecord \cup {Nil}]

ApprovalInit ==
    /\ RequestsInit
    /\ ApprovalShape
    /\ \A a \in Ids : db.approval[a] # Nil => Undecided(a)
    /\ \A a \in Ids : db.job[a] = Nil
    /\ \A r \in Requests : db.approval[r] = Nil

ApprovalMove(r) == ApprovalStep(r, AnyRowOf) \/ Killed(r)
ApprovalSpec == ApprovalInit /\ [][(\E r \in Requests : ApprovalMove(r)) \/ Lapse \/ Sweep]_vars

ApprovalHandlers == {"createApproval", "decide", "resolve", "postMessage"}

LEMMA ApprovalMoves ==
    ASSUME NEW r \in Requests, ApprovalMove(r)
    PROVE  Moves(r)
<1>1. CASE ArriveApproval(r, AnyRowOf)
  <2>1. \A h, arg : h \in ApprovalHandlers /\ Begin(r, h, arg) => Moves(r)
    BY BeginMoves DEF ApprovalHandlers, Ends
  <2> QED
    BY <1>1, <2>1 DEF ArriveApproval, ApprovalHandlers
<1>2. CASE Killed(r)
  BY <1>2, DoMoves DEF Killed
<1>3. CASE Create(r) \/ Decide(r) \/ DecideRow(r) \/ Resolve(r)
  BY <1>3, DoMoves DEF Create, Decide, DecideRow, Resolve, Load, Save, GoOn, End, Refuse, Open, Ended, At, Ends
<1>4. CASE Answer(r) \/ StoreJob(r) \/ TellWaiting(r) \/ Undo(r)
  BY <1>4, DoMoves DEF Answer, StoreJob, TellWaiting, Undo, GoOn, End, Refuse, Open, Ended, At, Ends
<1>5. CASE PostMessage(r) \/ EnqueueMessage(r) \/ TellTurn(r)
  BY <1>5, DoMoves DEF PostMessage, EnqueueMessage, TellTurn, GoOn, End, Refuse, Open, Ended, At, Ends
<1> QED
  BY <1>1, <1>2, <1>3, <1>4, <1>5 DEF ApprovalMove, ApprovalStep

-----------------------------------------------------------------------------
\* What the requests work on.
ApprovalStatements ==
    \A r \in Requests :
        /\ At(r, "new") => req[r].do = "none"
        /\ req[r].at \in {"resolve", "answer", "storeJob", "tellWaiting", "undo"} => req[r].do = "resolve"
        /\ req[r].at \in {"decide", "decideRow"} => req[r].do = "decide"
        /\ req[r].at \in {"postMessage", "enqueueMessage", "tellTurn"} => req[r].do = "postMessage"
        /\ req[r].at = "createApproval" => req[r].do = "createApproval"
        /\ req[r].do = "createApproval" =>
              req[r].arg.kind \in {"finalize", "submit", "execute"} /\ req[r].arg.target \in Ids
        /\ req[r].do = "decide" => req[r].arg.to \in {"APPROVED", "DENIED"}
        /\ req[r].do = "resolve" => req[r].arg.option \in {"go", "reject"}
        /\ req[r].do \in {"decide", "resolve"} =>
              /\ req[r].arg.id \in Ids
              /\ db.approval[req[r].arg.id] \in ApprovalRecord
              /\ db.approval[req[r].arg.id].kind = "card" <=> req[r].do = "resolve"
        /\ At(r, "decideRow") =>
              /\ req[r].v \in ApprovalRecord
              /\ req[r].v.kind = db.approval[req[r].arg.id].kind /\ req[r].v.option = Nil

\* Only cards are answered, and no request makes one.
OnlyCards ==
    /\ \A a \in Ids : db.approval[a] \in ApprovalRecord /\ ~Undecided(a) => db.approval[a].kind = "card"
    /\ \A r \in Requests : db.approval[r] \in ApprovalRecord =>
          db.approval[r].kind # "card" /\ req[r].do = "createApproval" /\ At(r, "ok")

\* The answer of r is the card's.
Holds(r) == req[r].do = "resolve" /\ req[r].at \in {"storeJob", "tellWaiting", "undo", "ok"}
Of(r) == req[r].arg.id

OneAnswer == \A r, s \in Requests : Holds(r) /\ Holds(s) /\ Of(r) = Of(s) => r = s

HeldAnswer ==
    \A r \in Requests : Holds(r) =>
        /\ db.approval[Of(r)].state = Chosen(r)
        /\ db.approval[Of(r)].option = req[r].arg.option
        /\ req[r].at \in {"tellWaiting", "ok"} => db.job[Of(r)] # Nil

AnsweredBy(a, r) ==
    /\ req[r].do = "resolve" /\ Of(r) = a
    /\ At(r, "killed") \/ (Holds(r) /\ req[r].arg.option = db.approval[a].option)

SomebodyAnswered ==
    \A a \in Ids : db.approval[a] \in ApprovalRecord /\ ~Undecided(a) =>
        \E r \in Requests : AnsweredBy(a, r)

\* The job of a card was stored by an answer to it.
StoredBy(a, r) ==
    /\ req[r].do = "resolve" /\ Of(r) = a
    /\ req[r].at \in {"tellWaiting", "undo", "ok", "refused", "killed"}
    /\ req[r].arg.option = db.job[a].option
JobsOfAnswers == \A a \in Ids \ Requests : db.job[a] # Nil => db.job[a].by \in Requests /\ StoredBy(a, db.job[a].by)

ApprovalInv ==
    /\ HistoryOK /\ ApprovalShape /\ ApprovalStatements /\ OnlyCards
    /\ OneAnswer /\ HeldAnswer /\ SomebodyAnswered /\ JobsOfAnswers

LEMMA ApprovalInvInit == ApprovalInit => ApprovalInv
<1> SUFFICES ASSUME ApprovalInit PROVE ApprovalInv
  OBVIOUS
<1>1. \A r \in Requests : req[r] = [do |-> "none", at |-> "new", arg |-> Nil, v |-> Nil]
  BY DEF ApprovalInit, RequestsInit
<1>2. HistoryOK
  BY HistoryInit DEF ApprovalInit
<1>3. ApprovalStatements /\ OneAnswer /\ HeldAnswer
  BY <1>1 DEF ApprovalStatements, OneAnswer, HeldAnswer, Holds, At
<1>4. OnlyCards /\ SomebodyAnswered /\ JobsOfAnswers
  BY ApprovalAssumption DEF ApprovalInit, OnlyCards, SomebodyAnswered, JobsOfAnswers, Ids
<1> QED
  BY <1>2, <1>3, <1>4 DEF ApprovalInv, ApprovalInit

-----------------------------------------------------------------------------
\* Rows stay rows, whatever is set in them.
LEMMA BumpedApproval ==
    ASSUME NEW row \in ApprovalRecord
    PROVE  /\ Bumped(row) \in ApprovalRecord
           /\ Bumped(row).kind = row.kind /\ Bumped(row).state = row.state /\ Bumped(row).option = row.option
<1>1. Bumped(row) = [row EXCEPT !.rev = row.rev + 1]
  BY DEF Bumped
<1> QED
  BY <1>1 DEF ApprovalRecord

LEMMA StateSet ==
    ASSUME NEW row \in ApprovalRecord,
           NEW state \in {"PENDING", "APPROVED", "REJECTED", "DENIED", "EXPIRED", "CONSUMED"}
    PROVE  LET set == [row EXCEPT !.state = state] IN
           /\ set \in ApprovalRecord
           /\ set.kind = row.kind /\ set.state = state /\ set.option = row.option
  BY DEF ApprovalRecord

LEMMA OptionSet ==
    ASSUME NEW row \in ApprovalRecord, NEW option \in {Nil, "go", "reject"}
    PROVE  LET set == [row EXCEPT !.option = option] IN
           /\ set \in ApprovalRecord
           /\ set.kind = row.kind /\ set.state = row.state /\ set.option = option
  BY DEF ApprovalRecord

LEMMA LateSet ==
    ASSUME NEW row \in ApprovalRecord
    PROVE  LET set == [row EXCEPT !.late = TRUE] IN
           /\ set \in ApprovalRecord
           /\ set.kind = row.kind /\ set.state = row.state /\ set.option = row.option
  BY DEF ApprovalRecord

\* What a step may do to a row of approvals.
Turned(a) == /\ db.approval[a].state = "PENDING" /\ db'.approval[a].state # "PENDING"
             /\ db'.approval[a].option = db.approval[a].option
Settled(a, r) == /\ At(r, "answer") /\ At(r, "storeJob")' /\ Of(r) = a
                 /\ db.approval[a].state = "PENDING"
                 /\ db'.approval[a].state = Chosen(r) /\ db'.approval[a].option = req[r].arg.option
TakenBack(a, r) == /\ At(r, "undo") /\ At(r, "refused")' /\ Of(r) = a
                   /\ db.approval[a].state = Chosen(r)
                   /\ db'.approval[a].state = "PENDING" /\ db'.approval[a].option = Nil
RowStays(a) == /\ db'.approval[a].state = db.approval[a].state
               /\ db'.approval[a].option = db.approval[a].option
ApprovalsKept ==
    /\ ApprovalShape'
    /\ \A a \in Ids : db.approval[a] \in ApprovalRecord =>
          db'.approval[a] \in ApprovalRecord /\ db'.approval[a].kind = db.approval[a].kind

LEMMA OneRowSet ==
    ASSUME ApprovalShape, NEW a \in Ids, db.approval[a] \in ApprovalRecord,
           NEW row \in ApprovalRecord, row.kind = db.approval[a].kind,
           db' = [db EXCEPT !.approval[a] = row]
    PROVE  /\ ApprovalsKept
           /\ db'.job = db.job /\ db'.approval[a] = row
           /\ \A b \in Ids \ {a} : db'.approval[b] = db.approval[b]
<1>1. /\ DOMAIN db' = DOMAIN db /\ db'.job = db.job
      /\ db'.approval = [db.approval EXCEPT ![a] = row]
  BY DEF ApprovalShape
<1> QED
  BY <1>1 DEF ApprovalShape, ApprovalsKept

LEMMA DecideEffect ==
    ASSUME ApprovalInv, NEW r \in Requests, DecideRow(r)
    PROVE  /\ ApprovalsKept /\ db'.job = db.job
           /\ \A a \in Ids : \/ db'.approval[a] = db.approval[a]
                             \/ /\ a = Of(r) /\ db.approval[a] \in ApprovalRecord
                                /\ db.approval[a].kind # "card" /\ db'.approval[a].option = Nil
<1> DEFINE a == Of(r)
           state == IF req[r].v.late THEN "EXPIRED" ELSE req[r].arg.to
           decided == [db.approval[a] EXCEPT !.state = state]
<1>1. /\ a \in Ids /\ db.approval[a] \in ApprovalRecord /\ db.approval[a].kind # "card"
      /\ req[r].arg.to \in {"APPROVED", "DENIED"} /\ ApprovalShape
  BY DEF DecideRow, ApprovalInv, ApprovalStatements, At, Of
<1>2. db.approval[a].option = Nil
  BY <1>1 DEF ApprovalInv, OnlyCards, Undecided
<1>3. db' = db \/ db' = [db EXCEPT !.approval[a] = Bumped(decided)]
  BY DEF DecideRow, Do, Of
<1>4. CASE db' = db
  BY <1>1, <1>4 DEF ApprovalsKept, ApprovalShape
<1>5. CASE db' = [db EXCEPT !.approval[a] = Bumped(decided)]
  <2>1. state \in {"PENDING", "APPROVED", "REJECTED", "DENIED", "EXPIRED", "CONSUMED"}
    BY <1>1
  <2> HIDE DEF state
  <2>2. decided \in ApprovalRecord /\ decided.kind = db.approval[a].kind /\ decided.option = Nil
    BY <1>1, <1>2, <2>1, StateSet
  <2> HIDE DEF decided
  <2>3. Bumped(decided) \in ApprovalRecord /\ Bumped(decided).kind = db.approval[a].kind /\ Bumped(decided).option = Nil
    BY <2>2, BumpedApproval
  <2> HIDE DEF a
  <2>4. /\ ApprovalsKept /\ db'.job = db.job /\ db'.approval[a] = Bumped(decided)
        /\ \A b \in Ids \ {a} : db'.approval[b] = db.approval[b]
    BY <1>1, <1>5, <2>3, OneRowSet
  <2> QED
    BY <1>1, <2>3, <2>4 DEF a
<1> QED
  BY <1>3, <1>4, <1>5

LEMMA AnswerEffect ==
    ASSUME ApprovalInv, NEW r \in Requests, Answer(r)
    PROVE  /\ ApprovalsKept /\ db'.job = db.job /\ Of(r) \in Ids /\ db.approval[Of(r)] \in ApprovalRecord
           /\ \A a \in Ids \ {Of(r)} : db'.approval[a] = db.approval[a]
           /\ \/ At(r, "refused")' /\ (db' = db \/ Turned(Of(r)))
              \/ Settled(Of(r), r)
<1> DEFINE a == Of(r)
           late == [db.approval[a] EXCEPT !.state = "EXPIRED"]
           settled == [db.approval[a] EXCEPT !.state = Chosen(r), !.option = req[r].arg.option]
<1>1. /\ a \in Ids /\ db.approval[a] \in ApprovalRecord /\ req[r].arg.option \in {"go", "reject"}
      /\ ApprovalShape /\ HistoryOK /\ At(r, "answer")
  BY DEF Answer, ApprovalInv, ApprovalStatements, At, Of
<1>2. Chosen(r) \in {"REJECTED", "APPROVED"}
  BY DEF Chosen
<1>3. \/ At(r, "refused")' /\ db' = db
      \/ At(r, "refused")' /\ db.approval[a].state = "PENDING" /\ db' = [db EXCEPT !.approval[a] = late]
      \/ At(r, "storeJob")' /\ db.approval[a].state = "PENDING" /\ db' = [db EXCEPT !.approval[a] = Bumped(settled)]
  <2>1. \A statement, v, tables : Do(r, statement, v, tables) => At(r, statement)' /\ db' = tables
    BY <1>1, DoEffect DEF At
  <2>2. [db EXCEPT !.approval[a].state = "EXPIRED"] = [db EXCEPT !.approval[a] = late]
    OBVIOUS
  <2> QED
    BY <1>1, <2>1, <2>2 DEF Answer, IsPending, Refuse, Of
<1>4. late \in ApprovalRecord /\ late.kind = db.approval[a].kind /\ late.state = "EXPIRED"
      /\ late.option = db.approval[a].option
  BY <1>1, BumpedApproval, StateSet, OptionSet
<1>5. /\ Bumped(settled) \in ApprovalRecord /\ Bumped(settled).kind = db.approval[a].kind
      /\ Bumped(settled).state = Chosen(r) /\ Bumped(settled).option = req[r].arg.option
  <2> DEFINE first == [db.approval[a] EXCEPT !.state = Chosen(r)]
  <2>1. first \in ApprovalRecord /\ first.kind = db.approval[a].kind /\ first.state = Chosen(r)
    BY <1>1, <1>2 DEF ApprovalRecord
  <2>2. settled = [first EXCEPT !.option = req[r].arg.option]
    OBVIOUS
  <2>3. settled \in ApprovalRecord /\ settled.kind = first.kind /\ settled.state = first.state
        /\ settled.option = req[r].arg.option
    <3> HIDE DEF first, settled
    <3> QED
      BY <1>1, <2>1, <2>2 DEF ApprovalRecord
  <2> HIDE DEF first, settled
  <2> QED
    BY <2>1, <2>3, BumpedApproval, StateSet, OptionSet
<1> HIDE DEF a, late, settled
<1>6. CASE At(r, "refused")' /\ db' = db
  BY <1>1, <1>6 DEF ApprovalsKept, a, ApprovalShape
<1>7. CASE At(r, "refused")' /\ db.approval[a].state = "PENDING" /\ db' = [db EXCEPT !.approval[a] = late]
  <2>1. ApprovalsKept /\ db'.job = db.job /\ db'.approval[a] = late /\ \A b \in Ids \ {a} : db'.approval[b] = db.approval[b]
    BY <1>1, <1>4, <1>7, OneRowSet
  <2> QED
    BY <1>1, <1>4, <1>7, <2>1 DEF Turned, a
<1>8. CASE At(r, "storeJob")' /\ db.approval[a].state = "PENDING" /\ db' = [db EXCEPT !.approval[a] = Bumped(settled)]
  <2>1. ApprovalsKept /\ db'.job = db.job /\ db'.approval[a] = Bumped(settled)
        /\ \A b \in Ids \ {a} : db'.approval[b] = db.approval[b]
    BY <1>1, <1>5, <1>8, OneRowSet
  <2> QED
    BY <1>1, <1>5, <1>8, <2>1 DEF Settled, a
<1> QED
  BY <1>3, <1>6, <1>7, <1>8

\* An answer that is taken back is still the card's.
LEMMA UndoEffect ==
    ASSUME ApprovalInv, NEW r \in Requests, Undo(r)
    PROVE  /\ ApprovalsKept /\ db'.job = db.job /\ Of(r) \in Ids /\ db.approval[Of(r)] \in ApprovalRecord
           /\ \A a \in Ids \ {Of(r)} : db'.approval[a] = db.approval[a]
           /\ TakenBack(Of(r), r)
<1> DEFINE a == Of(r)
           first == [db.approval[a] EXCEPT !.state = "PENDING"]
           back == [first EXCEPT !.option = Nil]
<1>1. /\ a \in Ids /\ db.approval[a] \in ApprovalRecord /\ db.approval[a].state = Chosen(r)
      /\ ApprovalShape /\ HistoryOK /\ At(r, "undo")
  BY DEF Undo, ApprovalInv, ApprovalStatements, HeldAnswer, Holds, At, Of
<1>2. At(r, "refused")' /\ db' = Unanswered(r)
  BY <1>1, DoEffect DEF Undo, At
<1>3. db' = [db EXCEPT !.approval[a] = back]
  BY <1>1, <1>2 DEF Unanswered, Of
<1>4. first \in ApprovalRecord /\ first.kind = db.approval[a].kind /\ first.state = "PENDING"
  BY <1>1, BumpedApproval, StateSet, OptionSet
<1> HIDE DEF first
<1>5. back \in ApprovalRecord /\ back.kind = db.approval[a].kind /\ back.state = "PENDING" /\ back.option = Nil
  BY <1>1, <1>4, BumpedApproval, StateSet, OptionSet
<1> HIDE DEF a, back
<1>6. ApprovalsKept /\ db'.job = db.job /\ db'.approval[a] = back /\ \A b \in Ids \ {a} : db'.approval[b] = db.approval[b]
  BY <1>1, <1>3, <1>5, OneRowSet
<1> QED
  BY <1>1, <1>2, <1>5, <1>6 DEF TakenBack, a

\* An approval that is made is of no card.
LEMMA CreateApprovalEffect ==
    ASSUME ApprovalInv, NEW r \in Requests, Create(r)
    PROVE  /\ ApprovalsKept /\ db'.job = db.job
           /\ db.approval[r] = Nil
           /\ db'.approval[r] \in ApprovalRecord /\ db'.approval[r].kind # "card" /\ db'.approval[r].option = Nil
           /\ \A a \in Ids \ {r} : db'.approval[a] = db.approval[a]
<1> DEFINE row == Approval(req[r].arg.kind, req[r].arg.target, "PENDING")
<1>1. /\ ApprovalShape /\ At(r, "createApproval") /\ r \in Ids
      /\ req[r].arg.kind \in {"finalize", "submit", "execute"} /\ req[r].arg.target \in Ids
  BY DEF Create, ApprovalInv, ApprovalStatements, At, Ids
<1>2. row \in ApprovalRecord /\ row.kind # "card" /\ row.option = Nil
  BY <1>1 DEF Approval, ApprovalRecord
<1>3. db.approval[r] \notin ApprovalRecord
  BY <1>1 DEF ApprovalInv, OnlyCards, At
<1>4. db' = [db EXCEPT !.approval[r] = row]
  BY DEF Create, End, Do
<1> HIDE DEF row
<1>5. /\ DOMAIN db' = DOMAIN db /\ db'.job = db.job
      /\ db'.approval = [db.approval EXCEPT ![r] = row]
  BY <1>1, <1>4 DEF ApprovalShape
<1> QED
  BY <1>1, <1>2, <1>3, <1>5 DEF ApprovalShape, ApprovalsKept

\* A new message turns down every card that waits.
LEMMA TurnEffect ==
    ASSUME ApprovalInv, NEW r \in Requests, TellTurn(r)
    PROVE  /\ ApprovalsKept /\ db'.job = db.job
           /\ \A a \in Ids : \/ db'.approval[a] = db.approval[a]
                             \/ /\ db.approval[a] \in ApprovalRecord /\ Turned(a)
                                /\ db.approval[a].kind = "card" /\ db'.approval[a].kind = "card"
<1> DEFINE row(a) == Bumped([db.approval[a] EXCEPT !.state = "REJECTED"])
           waiting == Approvals("card", "PENDING")
<1>1. ApprovalShape
  BY DEF ApprovalInv
<1>2. \A a \in waiting : a \in Ids /\ db.approval[a] \in ApprovalRecord
                          /\ db.approval[a].kind = "card" /\ db.approval[a].state = "PENDING"
  BY <1>1 DEF ApprovalShape, Approvals
<1>3. ASSUME NEW a \in waiting
      PROVE  /\ row(a) \in ApprovalRecord /\ row(a).kind = "card" /\ row(a).state = "REJECTED"
             /\ row(a).option = db.approval[a].option
  <2> DEFINE set == [db.approval[a] EXCEPT !.state = "REJECTED"]
  <2>1. set \in ApprovalRecord /\ set.kind = "card" /\ set.state = "REJECTED" /\ set.option = db.approval[a].option
    BY <1>2 DEF ApprovalRecord
  <2> HIDE DEF set
  <2>2. Bumped(set) \in ApprovalRecord /\ Bumped(set).kind = "card" /\ Bumped(set).state = "REJECTED"
        /\ Bumped(set).option = db.approval[a].option
    BY <2>1, BumpedApproval
  <2> QED
    BY <2>2 DEF set
<1> HIDE DEF row
<1>4. \/ db' = db
      \/ db' = [db EXCEPT !.approval = [a \in Ids |-> IF a \in waiting THEN row(a) ELSE @[a]]]
  BY DEF TellTurn, End, Refuse, Do, row
<1> HIDE DEF waiting
<1>5. CASE db' = db
  BY <1>1, <1>5 DEF ApprovalsKept, ApprovalShape
<1>6. CASE db' = [db EXCEPT !.approval = [a \in Ids |-> IF a \in waiting THEN row(a) ELSE db.approval[a]]]
  <2>1. /\ DOMAIN db' = DOMAIN db /\ db'.job = db.job
        /\ db'.approval = [a \in Ids |-> IF a \in waiting THEN row(a) ELSE db.approval[a]]
    BY <1>1, <1>6 DEF ApprovalShape
  <2> QED
    BY <1>1, <1>2, <1>3, <2>1 DEF ApprovalShape, ApprovalsKept, Turned
<1> QED
  BY <1>4, <1>5, <1>6

Stored(a, r) ==
    /\ At(r, "storeJob") /\ At(r, "tellWaiting")' /\ Of(r) = a
    /\ db.job[a] = Nil /\ db'.job[a] = [by |-> r, option |-> req[r].arg.option]

LEMMA StoreJobEffect ==
    ASSUME ApprovalInv, NEW r \in Requests, StoreJob(r) \/ EnqueueMessage(r)
    PROVE  /\ ApprovalShape' /\ db'.approval = db.approval
           /\ \A a \in Ids : db.job[a] # Nil => db'.job[a] = db.job[a] \/ a = r
           /\ \A a \in Ids \ Requests : db'.job[a] = db.job[a] \/ Stored(a, r)
           /\ At(r, "storeJob") /\ At(r, "tellWaiting")' => db'.job[Of(r)] # Nil
<1>0. ApprovalShape /\ HistoryOK /\ r \in Ids
  BY DEF ApprovalInv, Ids
<1>1. CASE StoreJob(r)
  <2> DEFINE row == [by |-> r, option |-> req[r].arg.option]
             a == Of(r)
  <2>1. a \in Ids /\ req[r].arg.option \in {"go", "reject"} /\ At(r, "storeJob")
    BY <1>1 DEF StoreJob, ApprovalInv, ApprovalStatements, At, Of
  <2>2. row \in JobRecord /\ row # Nil
    BY <2>1, ApprovalAssumption DEF JobRecord
  <2>3. \/ db' = db /\ At(r, "undo")'
        \/ db' = db /\ db.job[a] # Nil /\ At(r, "tellWaiting")'
        \/ db' = [db EXCEPT !.job[a] = row] /\ db.job[a] = Nil /\ At(r, "tellWaiting")'
    <3>1. \A statement, v, tables : Do(r, statement, v, tables) => At(r, statement)' /\ db' = tables
      BY <1>0, DoEffect DEF At
    <3> QED
      BY <1>1, <3>1 DEF StoreJob, GoOn, Of
  <2>4. CASE db' = db /\ (At(r, "undo")' \/ db.job[a] # Nil)
    BY <1>0, <2>4 DEF ApprovalShape, At
  <2>5. CASE db' = [db EXCEPT !.job[a] = row] /\ db.job[a] = Nil /\ At(r, "tellWaiting")'
    <3> HIDE DEF a, row
    <3>1. DOMAIN db' = DOMAIN db /\ db'.approval = db.approval /\ db'.job = [db.job EXCEPT ![a] = row]
      BY <1>0, <2>1, <2>5 DEF ApprovalShape
    <3>2. db'.job[a] = row /\ \A b \in Ids \ {a} : db'.job[b] = db.job[b]
      BY <1>0, <2>1, <3>1 DEF ApprovalShape
    <3>3. ApprovalShape'
      BY <1>0, <2>1, <2>2, <3>1 DEF ApprovalShape
    <3>4. Stored(a, r)
      BY <2>1, <2>5, <3>2 DEF Stored, a, row
    <3> QED
      BY <2>2, <2>5, <3>1, <3>2, <3>3, <3>4 DEF a
  <2> QED
    BY <2>3, <2>4, <2>5
<1>2. CASE EnqueueMessage(r)
  <2> DEFINE row == [by |-> r, option |-> Nil]
  <2>1. row \in JobRecord
    BY DEF JobRecord
  <2>2. ~At(r, "storeJob") /\ (db' = db \/ db' = [db EXCEPT !.job[r] = row])
    BY <1>2 DEF EnqueueMessage, Refuse, Do, At
  <2>3. CASE db' = db
    BY <1>0, <2>2, <2>3 DEF ApprovalShape
  <2>4. CASE db' = [db EXCEPT !.job[r] = row]
    <3> HIDE DEF row
    <3>1. DOMAIN db' = DOMAIN db /\ db'.approval = db.approval /\ db'.job = [db.job EXCEPT ![r] = row]
      BY <1>0, <2>4 DEF ApprovalShape
    <3> QED
      BY <1>0, <2>1, <2>2, <3>1 DEF ApprovalShape
  <2> QED
    BY <2>2, <2>3, <2>4
<1> QED
  BY <1>1, <1>2

\* What any step of a request does to the rows and the jobs of the cards.
LEMMA MoveEffect ==
    ASSUME ApprovalInv, NEW r \in Requests, ApprovalMove(r)
    PROVE  /\ ApprovalsKept
           /\ \A a \in Ids : db.approval[a] \in ApprovalRecord /\ db.approval[a].kind = "card" =>
                 RowStays(a) \/ Turned(a) \/ Settled(a, r) \/ TakenBack(a, r)
           /\ \A a \in Ids : db'.approval[a] \in ApprovalRecord =>
                 \/ db.approval[a] \in ApprovalRecord
                 \/ a = r /\ Create(r) /\ db'.approval[a].kind # "card" /\ db'.approval[a].option = Nil
           /\ \A a \in Ids : db.approval[a] \in ApprovalRecord /\ db.approval[a].kind # "card" /\ db.approval[a].option = Nil
                 => db'.approval[a].option = Nil
           /\ \A a \in Ids \ Requests : db'.job[a] = db.job[a] \/ Stored(a, r)
           /\ \A a \in Ids \ Requests : db.job[a] # Nil => db'.job[a] = db.job[a]
           /\ At(r, "storeJob") /\ At(r, "tellWaiting")' => db'.job[Of(r)] # Nil
<1>0. ApprovalShape /\ HistoryOK
  BY DEF ApprovalInv
<1>1. CASE ArriveApproval(r, AnyRowOf)
  <2>1. \A h, arg : Begin(r, h, arg) => db' = db /\ At(r, "new")
    BY DEF Begin
  <2>2. db' = db /\ At(r, "new")
    BY <1>1, <2>1 DEF ArriveApproval
  <2> QED
    BY <1>0, <2>2 DEF ApprovalsKept, RowStays, ApprovalShape, At
<1>2. CASE Killed(r) \/ Decide(r) \/ Resolve(r) \/ PostMessage(r) \/ TellWaiting(r)
  <2>1. \A statement, v, tables : Do(r, statement, v, tables) => At(r, statement)'
    BY <1>0, DoEffect DEF At
  <2>2. db' = db /\ ~(At(r, "storeJob") /\ At(r, "tellWaiting")')
    BY <1>2, <2>1 DEF Killed, Decide, Resolve, PostMessage, TellWaiting, Load, GoOn, End, Refuse, Do, At
  <2> QED
    BY <1>0, <2>2 DEF ApprovalsKept, RowStays, ApprovalShape
<1>3. CASE Create(r)
  <2>1. ~At(r, "storeJob")
    BY <1>3 DEF Create, At
  <2> QED
    BY <1>0, <1>3, <2>1, CreateApprovalEffect, ApprovalAssumption DEF RowStays, ApprovalShape
<1>4. CASE DecideRow(r)
  <2>1. ~At(r, "storeJob")
    BY <1>4 DEF DecideRow, At
  <2> QED
    BY <1>0, <1>4, <2>1, DecideEffect DEF RowStays, ApprovalShape
<1>5. CASE Answer(r)
  <2>1. ~At(r, "storeJob")
    BY <1>5 DEF Answer, At
  <2>2. db.approval[Of(r)].kind = "card"
    BY <1>5 DEF Answer, ApprovalInv, ApprovalStatements, At, Of
  <2> QED
    BY <1>0, <1>5, <2>1, <2>2, AnswerEffect DEF RowStays, ApprovalShape
<1>6. CASE Undo(r)
  <2>1. ~At(r, "storeJob")
    BY <1>6 DEF Undo, At
  <2>2. db.approval[Of(r)].kind = "card"
    BY <1>6 DEF Undo, ApprovalInv, ApprovalStatements, At, Of
  <2> QED
    BY <1>0, <1>6, <2>1, <2>2, UndoEffect DEF RowStays, ApprovalShape
<1>7. CASE TellTurn(r)
  <2>1. ~At(r, "storeJob")
    BY <1>7 DEF TellTurn, At
  <2> QED
    BY <1>0, <1>7, <2>1, TurnEffect DEF RowStays, ApprovalShape
<1>8. CASE StoreJob(r) \/ EnqueueMessage(r)
  BY <1>0, <1>8, StoreJobEffect DEF ApprovalsKept, RowStays, ApprovalShape
<1> QED
  BY <1>1, <1>2, <1>3, <1>4, <1>5, <1>6, <1>7, <1>8 DEF ApprovalMove, ApprovalStep

\* Which statement a request is at after a step.
LEMMA ApprovalGoesTo ==
    ASSUME ApprovalInv, NEW r \in Requests, ApprovalMove(r), ~ArriveApproval(r, AnyRowOf)
    PROVE  /\ Open(r) /\ req'[r].do = req[r].do /\ req'[r].arg = req[r].arg
           /\ \/ At(r, "killed")'
              \/ At(r, "refused")' /\ req[r].at \notin {"storeJob", "tellWaiting", "undo"}
              \/ At(r, "undo") /\ At(r, "refused")' /\ Undo(r)
              \/ At(r, "ok")' /\ req[r].at \in {"decideRow", "tellTurn", "tellWaiting"}
              \/ At(r, "createApproval") /\ At(r, "ok")' /\ Create(r)
              \/ At(r, "decide") /\ At(r, "decideRow")' /\ req'[r].v = db.approval[Of(r)] /\ db' = db
              \/ At(r, "resolve") /\ At(r, "answer")'
              \/ At(r, "answer") /\ At(r, "storeJob")' /\ Answer(r)
              \/ At(r, "storeJob") /\ req'[r].at \in {"tellWaiting", "undo"}
              \/ At(r, "tellWaiting") /\ At(r, "undo")'
              \/ At(r, "postMessage") /\ At(r, "enqueueMessage")'
              \/ At(r, "enqueueMessage") /\ At(r, "tellTurn")'
<1>0. HistoryOK
  BY DEF ApprovalInv
<1>1. \A statement, v, tables : Do(r, statement, v, tables) =>
          /\ req'[r].do = req[r].do /\ req'[r].arg = req[r].arg /\ req'[r].at = statement
          /\ statement \notin Ends => req'[r].v = v
          /\ db' = tables
  BY <1>0, DoEffect
<1>2. CASE Killed(r)
  BY <1>1, <1>2 DEF Killed, At
<1>3. CASE Create(r)
  BY <1>1, <1>3 DEF Create, End, Open, Ended, At, Ends
<1>4. CASE Decide(r) \/ Resolve(r)
  BY <1>1, <1>4 DEF Decide, Resolve, Load, GoOn, Refuse, Open, Ended, At, Ends, Of
<1>5. CASE DecideRow(r)
  BY <1>1, <1>5 DEF DecideRow, Save, End, Refuse, Open, Ended, At, Ends
<1>6. CASE Answer(r)
  BY <1>1, <1>6 DEF Answer, Refuse, Open, Ended, At, Ends
<1>7. CASE StoreJob(r) \/ TellWaiting(r)
  BY <1>1, <1>7 DEF StoreJob, TellWaiting, GoOn, End, Open, Ended, At, Ends
<1>8. CASE Undo(r)
  BY <1>1, <1>8 DEF Undo, Open, Ended, At, Ends
<1>9. CASE PostMessage(r) \/ EnqueueMessage(r) \/ TellTurn(r)
  BY <1>1, <1>9 DEF PostMessage, EnqueueMessage, TellTurn, GoOn, End, Refuse, Open, Ended, At, Ends
<1> QED
  BY <1>2, <1>3, <1>4, <1>5, <1>6, <1>7, <1>8, <1>9 DEF ApprovalMove, ApprovalStep

LEMMA ApprovalArrives ==
    ASSUME ApprovalInv, NEW r \in Requests, ArriveApproval(r, AnyRowOf)
    PROVE  /\ db' = db /\ req'[r].at = req'[r].do /\ req'[r].do \in ApprovalHandlers
           /\ req'[r].do = "createApproval" =>
                 req'[r].arg.kind \in {"finalize", "submit", "execute"} /\ req'[r].arg.target \in Ids
           /\ req'[r].do = "decide" => req'[r].arg.to \in {"APPROVED", "DENIED"}
           /\ req'[r].do = "resolve" => req'[r].arg.option \in {"go", "reject"}
           /\ req'[r].do \in {"decide", "resolve"} =>
                 /\ req'[r].arg.id \in Ids
                 /\ db.approval[req'[r].arg.id] \in ApprovalRecord
                 /\ db.approval[req'[r].arg.id].kind = "card" <=> req'[r].do = "resolve"
<1>0. HistoryOK /\ \A a \in Ids : db.approval[a] # Nil => db.approval[a] \in ApprovalRecord
  BY DEF ApprovalInv, ApprovalShape
<1>1. \A h, arg : Begin(r, h, arg) =>
          db' = db /\ req'[r].do = h /\ req'[r].at = h /\ req'[r].arg = arg
  BY <1>0, BeginRequest DEF Begin
<1>2. CASE \E kind \in {"finalize", "submit", "execute"} : \E target \in Ids :
              Begin(r, "createApproval", [kind |-> kind, target |-> target])
  BY <1>1, <1>2 DEF ApprovalHandlers
<1>3. CASE \E a \in Ids, to \in {"APPROVED", "DENIED"} :
              db.approval[a] # Nil /\ db.approval[a].kind # "card" /\ Begin(r, "decide", [id |-> a, to |-> to])
  BY <1>0, <1>1, <1>3 DEF ApprovalHandlers
<1>4. CASE \E a \in Approvals("card", "PENDING"), option \in {"go", "reject"} :
              Begin(r, "resolve", [id |-> a, option |-> option])
  BY <1>0, <1>1, <1>4 DEF ApprovalHandlers, Approvals
<1>5. CASE Begin(r, "postMessage", Nil)
  BY <1>1, <1>5 DEF ApprovalHandlers
<1> QED
  BY <1>2, <1>3, <1>4, <1>5 DEF ArriveApproval, AnyRowOf

LEMMA ApprovalStatementsStep ==
    ASSUME ApprovalInv, NEW r \in Requests, ApprovalMove(r)
    PROVE  ApprovalStatements'
<1>0. HistoryOK /\ ApprovalShape /\ ApprovalStatements /\ Moves(r) /\ OnlyCards
  BY ApprovalMoves DEF ApprovalInv
<1> DEFINE Fits(q, rows) ==
        /\ q.at = "new" => q.do = "none"
        /\ q.at \in {"resolve", "answer", "storeJob", "tellWaiting", "undo"} => q.do = "resolve"
        /\ q.at \in {"decide", "decideRow"} => q.do = "decide"
        /\ q.at \in {"postMessage", "enqueueMessage", "tellTurn"} => q.do = "postMessage"
        /\ q.at = "createApproval" => q.do = "createApproval"
        /\ q.do = "createApproval" =>
              q.arg.kind \in {"finalize", "submit", "execute"} /\ q.arg.target \in Ids
        /\ q.do = "decide" => q.arg.to \in {"APPROVED", "DENIED"}
        /\ q.do = "resolve" => q.arg.option \in {"go", "reject"}
        /\ q.do \in {"decide", "resolve"} =>
              /\ q.arg.id \in Ids
              /\ rows[q.arg.id] \in ApprovalRecord
              /\ rows[q.arg.id].kind = "card" <=> q.do = "resolve"
        /\ q.at = "decideRow" =>
              /\ q.v \in ApprovalRecord
              /\ q.v.kind = rows[q.arg.id].kind /\ q.v.option = Nil
<1>1. \A s \in Requests : Fits(req[s], db.approval)
  BY <1>0 DEF ApprovalStatements, At
<1>2. \A s \in Requests : Fits(req[s], db'.approval)
  BY <1>1, MoveEffect DEF ApprovalsKept
<1>3. CASE ArriveApproval(r, AnyRowOf)
  BY <1>0, <1>2, <1>3, ApprovalArrives, OthersStay DEF ApprovalStatements, ApprovalHandlers, At
<1>4. CASE ~ArriveApproval(r, AnyRowOf)
  <2>1. Fits(req'[r], db'.approval)
    <3>1. CASE At(r, "decide") /\ At(r, "decideRow")'
      <4>1. req'[r].v = db.approval[Of(r)] /\ db' = db /\ req'[r].do = req[r].do /\ req'[r].arg = req[r].arg
        BY <1>4, <3>1, ApprovalGoesTo DEF At
      <4>2. db.approval[Of(r)] \in ApprovalRecord /\ db.approval[Of(r)].kind # "card" /\ Of(r) \in Ids
        BY <1>1, <3>1 DEF At, Of
      <4>3. db.approval[Of(r)].option = Nil
        BY <1>0, <4>2 DEF OnlyCards, Undecided
      <4> QED
        BY <1>1, <3>1, <4>1, <4>2, <4>3 DEF At, Of
    <3>2. CASE ~(At(r, "decide") /\ At(r, "decideRow")')
      <4>1. /\ req'[r].do = req[r].do /\ req'[r].arg = req[r].arg
            /\ \/ req'[r].at \in {"killed", "refused", "ok"}
               \/ At(r, "postMessage") /\ At(r, "enqueueMessage")'
               \/ At(r, "enqueueMessage") /\ At(r, "tellTurn")'
               \/ At(r, "resolve") /\ At(r, "answer")'
               \/ At(r, "answer") /\ At(r, "storeJob")'
               \/ At(r, "storeJob") /\ req'[r].at \in {"tellWaiting", "undo"}
               \/ At(r, "tellWaiting") /\ At(r, "undo")'
        BY <1>4, <3>2, ApprovalGoesTo DEF At
      <4> QED
        BY <1>2, <4>1 DEF At
    <3> QED
      BY <3>1, <3>2
  <2>2. \A s \in Requests : Fits(req'[s], db'.approval)
    BY <1>0, <1>2, <2>1, OthersStay
  <2> QED
    BY <2>2 DEF ApprovalStatements, At
<1> QED
  BY <1>3, <1>4

LEMMA OnlyCardsStep ==
    ASSUME ApprovalInv, NEW r \in Requests, ApprovalMove(r)
    PROVE  OnlyCards'
<1>0. HistoryOK /\ OnlyCards /\ Moves(r)
  BY ApprovalMoves DEF ApprovalInv
<1>1. ASSUME NEW a \in Ids, db'.approval[a] \in ApprovalRecord, db'.approval[a].option # Nil
      PROVE  db'.approval[a].kind = "card"
  <2>1. db.approval[a] \in ApprovalRecord
    BY <1>1, MoveEffect
  <2>2. db.approval[a].kind = "card"
    BY <1>0, <1>1, <2>1, MoveEffect DEF OnlyCards, Undecided
  <2> QED
    BY <2>1, <2>2, MoveEffect DEF ApprovalsKept
<1>2. ASSUME NEW s \in Requests, db'.approval[s] \in ApprovalRecord
      PROVE  db'.approval[s].kind # "card" /\ req'[s].do = "createApproval" /\ At(s, "ok")'
  <2>1. s \in Ids
    BY DEF Ids
  <2>2. CASE db.approval[s] \in ApprovalRecord
    <3>1. db.approval[s].kind # "card" /\ req[s].do = "createApproval" /\ At(s, "ok") /\ Ended(s)
      BY <1>0, <2>2 DEF OnlyCards, Ended, Ends, At
    <3>2. req'[s] = req[s]
      BY <1>0, <3>1, OthersStay
    <3> QED
      BY <2>1, <2>2, <3>1, <3>2, MoveEffect DEF ApprovalsKept, At
  <2>3. CASE db.approval[s] \notin ApprovalRecord
    <3>1. s = r /\ Create(r) /\ db'.approval[s].kind # "card"
      BY <1>2, <2>1, <2>3, MoveEffect
    <3>2. At(r, "createApproval") /\ req[r].do = "createApproval"
      BY <3>1 DEF Create, ApprovalInv, ApprovalStatements, At
    <3>3. At(r, "ok")' /\ req'[r].do = req[r].do
      BY <1>0, <3>1, DoEffect DEF Create, End, At
    <3> QED
      BY <3>1, <3>2, <3>3
  <2> QED
    BY <2>2, <2>3
<1> QED
  BY <1>1, <1>2 DEF OnlyCards, Undecided

\* A request begins to hold a card by answering it.
LEMMA BeginsToHold ==
    ASSUME ApprovalInv, NEW r \in Requests, ApprovalMove(r), Holds(r)'
    PROVE  /\ req[r].do = "resolve" /\ req'[r].arg = req[r].arg /\ Of(r)' = Of(r) /\ Chosen(r)' = Chosen(r)
           /\ \/ At(r, "answer") /\ At(r, "storeJob")' /\ Settled(Of(r), r)
              \/ Holds(r) /\ ~At(r, "undo") /\ (At(r, "storeJob") => ~At(r, "ok")')
<1>1. ~ArriveApproval(r, AnyRowOf)
  BY ApprovalArrives DEF Holds, ApprovalHandlers
<1>2. req[r].do = "resolve" /\ req'[r].arg = req[r].arg
  BY <1>1, ApprovalGoesTo DEF Holds
<1>4. CASE At(r, "answer") /\ At(r, "storeJob")' /\ Answer(r)
  <2>1. ~At(r, "refused")'
    BY <1>4 DEF At
  <2> QED
    BY <1>2, <1>4, <2>1, AnswerEffect DEF Of, Chosen
<1>5. CASE ~(At(r, "answer") /\ At(r, "storeJob")' /\ Answer(r))
  <2>1. \/ At(r, "ok")' /\ At(r, "tellWaiting")
        \/ At(r, "storeJob") /\ req'[r].at \in {"tellWaiting", "undo"}
        \/ At(r, "tellWaiting") /\ At(r, "undo")'
    BY <1>1, <1>2, <1>5, ApprovalGoesTo DEF ApprovalInv, ApprovalStatements, Holds, At
  <2> QED
    BY <1>2, <2>1 DEF Holds, At, Of, Chosen
<1> QED
  BY <1>4, <1>5

\* What stays of a card and its answers while others move.
LEMMA HolderOfCard ==
    ASSUME ApprovalInv, NEW r \in Requests, Holds(r)
    PROVE  /\ Of(r) \in Ids \ Requests /\ db.approval[Of(r)] \in ApprovalRecord
           /\ db.approval[Of(r)].kind = "card" /\ db.approval[Of(r)].state # "PENDING"
<1>1. /\ Of(r) \in Ids /\ db.approval[Of(r)] \in ApprovalRecord
      /\ db.approval[Of(r)].kind = "card" /\ db.approval[Of(r)].state = Chosen(r)
  BY DEF ApprovalInv, ApprovalStatements, HeldAnswer, Holds, Of
<1> QED
  BY <1>1 DEF ApprovalInv, OnlyCards, Chosen

LEMMA OneAnswerStep ==
    ASSUME ApprovalInv, NEW r \in Requests, ApprovalMove(r)
    PROVE  OneAnswer'
<1>0. HistoryOK /\ OneAnswer /\ HeldAnswer /\ Moves(r)
  BY ApprovalMoves DEF ApprovalInv
<1>1. \A s \in Requests \ {r} : Holds(s)' => Holds(s) /\ Of(s)' = Of(s)
  BY <1>0, OthersStay DEF Holds, Of
<1>2. ASSUME NEW s \in Requests \ {r}, Holds(s)', Holds(r)', Of(s)' = Of(r)'
      PROVE  FALSE
  <2>1. Holds(s) /\ Of(s) = Of(r)
    BY <1>1, <1>2, BeginsToHold
  <2>2. ~Holds(r)
    BY <1>0, <2>1 DEF OneAnswer
  <2>3. db.approval[Of(r)].state = "PENDING"
    BY <1>2, <2>2, BeginsToHold DEF Settled
  <2> QED
    BY <2>1, <2>3, HolderOfCard
<1>3. \A s, t \in Requests \ {r} : Holds(s)' /\ Holds(t)' /\ Of(s)' = Of(t)' => s = t
  BY <1>0, <1>1 DEF OneAnswer
<1> QED
  BY <1>2, <1>3 DEF OneAnswer

LEMMA HeldAnswerStep ==
    ASSUME ApprovalInv, NEW r \in Requests, ApprovalMove(r)
    PROVE  HeldAnswer'
<1>0. HistoryOK /\ OneAnswer /\ HeldAnswer /\ Moves(r)
  BY ApprovalMoves DEF ApprovalInv
<1> SUFFICES ASSUME NEW s \in Requests, Holds(s)'
             PROVE  /\ db'.approval[Of(s)'].state = Chosen(s)'
                    /\ db'.approval[Of(s)'].option = req'[s].arg.option
                    /\ req'[s].at \in {"tellWaiting", "ok"} => db'.job[Of(s)'] # Nil
  BY DEF HeldAnswer
<1>1. ASSUME Holds(s), s = r => ~At(r, "undo")
      PROVE  RowStays(Of(s))
  <2>1. /\ Of(s) \in Ids /\ db.approval[Of(s)] \in ApprovalRecord
        /\ db.approval[Of(s)].kind = "card" /\ db.approval[Of(s)].state # "PENDING"
    BY <1>1, HolderOfCard
  <2>2. ~TakenBack(Of(s), r)
    <3>1. CASE At(r, "undo") /\ Of(r) = Of(s)
      <4>1. Holds(r)
        BY <3>1 DEF ApprovalInv, ApprovalStatements, Holds, At
      <4> QED
        BY <1>0, <1>1, <3>1, <4>1 DEF OneAnswer
    <3> QED
      BY <3>1 DEF TakenBack
  <2> QED
    BY <2>1, <2>2, MoveEffect DEF Turned, Settled
<1>2. CASE s # r
  <2>1. req'[s] = req[s]
    BY <1>0, <1>2, OthersStay
  <2>2. Holds(s) /\ Of(s)' = Of(s) /\ Chosen(s)' = Chosen(s)
    BY <2>1 DEF Holds, Of, Chosen
  <2>3. RowStays(Of(s))
    BY <1>1, <1>2, <2>2
  <2>4. db.job[Of(s)] # Nil => db'.job[Of(s)] # Nil
    BY <2>2, HolderOfCard, MoveEffect
  <2> QED
    BY <1>0, <2>1, <2>2, <2>3, <2>4 DEF HeldAnswer, RowStays
<1>3. CASE s = r
  <2>1. req'[r].arg = req[r].arg /\ Of(r)' = Of(r) /\ Chosen(r)' = Chosen(r)
    BY <1>3, BeginsToHold
  <2>2. CASE At(r, "answer") /\ At(r, "storeJob")' /\ Settled(Of(r), r)
    BY <1>3, <2>1, <2>2 DEF Settled, At
  <2>3. CASE Holds(r) /\ ~At(r, "undo") /\ (At(r, "storeJob") => ~At(r, "ok")')
    <3>1. RowStays(Of(r))
      BY <1>1, <1>3, <2>3
    <3>2. db.job[Of(r)] # Nil => db'.job[Of(r)] # Nil
      BY <2>3, HolderOfCard, MoveEffect
    <3>3. req'[r].at \in {"tellWaiting", "ok"} => db'.job[Of(r)] # Nil
      <4>1. CASE At(r, "storeJob")
        BY <2>3, <4>1, MoveEffect DEF At
      <4>2. CASE ~At(r, "storeJob")
        BY <1>0, <2>3, <3>2, <4>2 DEF HeldAnswer, Holds, At
      <4> QED
        BY <4>1, <4>2
    <3> QED
      BY <1>0, <1>3, <2>1, <2>3, <3>1, <3>3 DEF HeldAnswer, RowStays
  <2> QED
    BY <1>3, <2>2, <2>3, BeginsToHold
<1> QED
  BY <1>2, <1>3

LEMMA SomebodyAnsweredStep ==
    ASSUME ApprovalInv, NEW r \in Requests, ApprovalMove(r)
    PROVE  SomebodyAnswered'
<1>0. HistoryOK /\ ApprovalStatements /\ OnlyCards /\ SomebodyAnswered /\ Moves(r)
  BY ApprovalMoves DEF ApprovalInv
<1> SUFFICES ASSUME NEW a \in Ids, db'.approval[a] \in ApprovalRecord, db'.approval[a].option # Nil
             PROVE  \E s \in Requests : AnsweredBy(a, s)'
  BY DEF SomebodyAnswered, Undecided
<1>1. db.approval[a] \in ApprovalRecord
  BY MoveEffect
<1>2. db.approval[a].kind = "card"
  BY <1>0, <1>1, MoveEffect DEF OnlyCards, Undecided
<1>3. CASE Settled(a, r)
  <2>1. req[r].do = "resolve" /\ Of(r) = a
    BY <1>0, <1>3 DEF Settled, ApprovalStatements, At
  <2>2. ~ArriveApproval(r, AnyRowOf)
    BY <1>3, ApprovalArrives DEF Settled, At, ApprovalHandlers
  <2>3. req'[r].do = req[r].do /\ req'[r].arg = req[r].arg
    BY <2>2, ApprovalGoesTo
  <2> QED
    BY <1>3, <2>1, <2>3 DEF Settled, AnsweredBy, Holds, Of, At
<1>4. CASE db'.approval[a].option = db.approval[a].option /\ ~TakenBack(a, r)
  <2>1. PICK s \in Requests : AnsweredBy(a, s)
    BY <1>0, <1>1, <1>4 DEF SomebodyAnswered, Undecided
  <2>2. CASE s # r \/ At(s, "killed")
    <3>1. req'[s] = req[s]
      BY <1>0, <2>2, OthersStay DEF Ended, Ends, At
    <3>2. AnsweredBy(a, s)'
      BY <1>4, <2>1, <3>1 DEF AnsweredBy, Holds, Of, At
    <3> QED
      BY <3>2
  <2>3. CASE s = r /\ ~At(s, "killed")
    <3>1. Holds(r) /\ Of(r) = a /\ req[r].arg.option = db.approval[a].option
      BY <2>1, <2>3 DEF AnsweredBy
    <3>2. ~ArriveApproval(r, AnyRowOf)
      <4>1. \A h, arg : ~Begin(r, h, arg)
        BY <3>1 DEF Begin, Holds, At
      <4> QED
        BY <4>1 DEF ArriveApproval
    <3>3. ~(At(r, "undo") /\ At(r, "refused")' /\ Undo(r))
      BY <1>4, <3>1, UndoEffect
    <3>4. /\ req'[r].do = req[r].do /\ req'[r].arg = req[r].arg
          /\ At(r, "killed")' \/ req'[r].at \in {"storeJob", "tellWaiting", "undo", "ok"}
      BY <3>1, <3>2, <3>3, ApprovalGoesTo DEF Holds, Open, Ended, Ends, At
    <3>5. AnsweredBy(a, r)'
      BY <1>4, <3>1, <3>4 DEF AnsweredBy, Holds, Of, At
    <3> QED
      BY <3>5
  <2> QED
    BY <2>2, <2>3
<1>5. CASE TakenBack(a, r)
  BY <1>5 DEF TakenBack
<1> QED
  BY <1>1, <1>2, <1>3, <1>4, <1>5, MoveEffect DEF RowStays, Turned

LEMMA JobsOfAnswersStep ==
    ASSUME ApprovalInv, NEW r \in Requests, ApprovalMove(r)
    PROVE  JobsOfAnswers'
<1>0. HistoryOK /\ ApprovalStatements /\ JobsOfAnswers /\ Moves(r)
  BY ApprovalMoves DEF ApprovalInv
<1> SUFFICES ASSUME NEW a \in Ids \ Requests, db'.job[a] # Nil
             PROVE  \E s \in Requests : db'.job[a].by = s /\ StoredBy(a, s)'
  BY DEF JobsOfAnswers
<1>1. CASE Stored(a, r)
  <2>1. req[r].do = "resolve" /\ Of(r) = a /\ db'.job[a].by = r /\ db'.job[a].option = req[r].arg.option
        /\ At(r, "tellWaiting")' /\ At(r, "storeJob")
    BY <1>0, <1>1 DEF Stored, ApprovalStatements, At
  <2>2. ~ArriveApproval(r, AnyRowOf)
    BY <2>1, ApprovalArrives DEF At, ApprovalHandlers
  <2>3. req'[r].do = req[r].do /\ req'[r].arg = req[r].arg
    BY <2>2, ApprovalGoesTo
  <2>4. StoredBy(a, r)'
    BY <2>1, <2>3 DEF StoredBy, Of, At
  <2> QED
    BY <2>1, <2>4
<1>2. CASE db'.job[a] = db.job[a]
  <2>1. PICK s \in Requests : s = db.job[a].by /\ StoredBy(a, s)
    BY <1>0, <1>2 DEF JobsOfAnswers
  <2>2. CASE s # r \/ Ended(s)
    <3>1. req'[s] = req[s]
      BY <1>0, <2>1, <2>2, OthersStay
    <3>2. StoredBy(a, s)'
      BY <1>2, <2>1, <3>1 DEF StoredBy, Of
    <3> QED
      BY <1>2, <2>1, <3>2
  <2>3. CASE s = r /\ ~Ended(s)
    <3>1. req[r].do = "resolve" /\ Of(r) = a /\ req[r].at \in {"tellWaiting", "undo"}
          /\ req[r].arg.option = db.job[a].option
      BY <2>1, <2>3 DEF StoredBy, Ended, Ends, At
    <3>2. ~ArriveApproval(r, AnyRowOf)
      <4>1. \A h, arg : ~Begin(r, h, arg)
        BY <3>1 DEF Begin, At
      <4> QED
        BY <4>1 DEF ArriveApproval
    <3>3. /\ req'[r].do = req[r].do /\ req'[r].arg = req[r].arg
          /\ req'[r].at \in {"killed", "refused", "undo", "ok"}
      BY <3>1, <3>2, ApprovalGoesTo DEF At
    <3>4. StoredBy(a, r)'
      BY <1>2, <3>1, <3>3 DEF StoredBy, Of
    <3> QED
      BY <1>2, <2>1, <2>3, <3>4
  <2> QED
    BY <2>2, <2>3
<1> QED
  BY <1>1, <1>2, MoveEffect

-----------------------------------------------------------------------------
\* Time and the sweep leave the cards' answers alone.
LEMMA SweepEffect ==
    ASSUME ApprovalInv, Lapse \/ Sweep
    PROVE  /\ ApprovalsKept /\ req' = req /\ prior' = prior /\ db'.job = db.job
           /\ \A a \in Ids : db'.approval[a] \in ApprovalRecord => db.approval[a] \in ApprovalRecord
           /\ \A a \in Ids : db.approval[a] \in ApprovalRecord => RowStays(a) \/ Turned(a)
<1>0. ApprovalShape
  BY DEF ApprovalInv
<1>1. CASE Lapse
  <2>1. PICK a \in Ids : db.approval[a] # Nil /\ db' = [db EXCEPT !.approval[a].late = TRUE]
    BY <1>1 DEF Lapse
  <2> DEFINE row == [db.approval[a] EXCEPT !.late = TRUE]
  <2>2. db.approval[a] \in ApprovalRecord
    BY <1>0, <2>1 DEF ApprovalShape
  <2>3. row \in ApprovalRecord /\ row.kind = db.approval[a].kind /\ row.state = db.approval[a].state
        /\ row.option = db.approval[a].option
    BY <2>2, LateSet
  <2>4. db' = [db EXCEPT !.approval[a] = row]
    BY <2>1
  <2> HIDE DEF row
  <2>5. ApprovalsKept /\ db'.job = db.job /\ db'.approval[a] = row /\ \A b \in Ids \ {a} : db'.approval[b] = db.approval[b]
    BY <1>0, <2>2, <2>3, <2>4, OneRowSet
  <2> QED
    BY <1>1, <2>2, <2>3, <2>5 DEF Lapse, RowStays
<1>2. CASE Sweep
  <2> DEFINE due == {a \in Ids : db.approval[a] # Nil /\ IsPending(db.approval[a]) /\ db.approval[a].late}
             row(a) == [db.approval[a] EXCEPT !.state = "EXPIRED"]
  <2>1. \A a \in due : a \in Ids /\ db.approval[a] \in ApprovalRecord /\ db.approval[a].state = "PENDING"
    BY <1>0 DEF ApprovalShape, IsPending
  <2>2. \A a \in due : /\ row(a) \in ApprovalRecord /\ row(a).kind = db.approval[a].kind
                       /\ row(a).state = "EXPIRED" /\ row(a).option = db.approval[a].option
    BY <2>1, StateSet
  <2>3. db' = [db EXCEPT !.approval = [a \in Ids |-> IF a \notin due THEN db.approval[a] ELSE row(a)]]
    BY <1>2 DEF Sweep
  <2> HIDE DEF due, row
  <2>4. /\ DOMAIN db' = DOMAIN db /\ db'.job = db.job
        /\ db'.approval = [a \in Ids |-> IF a \notin due THEN db.approval[a] ELSE row(a)]
    BY <1>0, <2>3 DEF ApprovalShape
  <2>5. req' = req /\ prior' = prior
    BY <1>2 DEF Sweep
  <2> QED
    BY <1>0, <2>1, <2>2, <2>4, <2>5 DEF ApprovalShape, ApprovalsKept, RowStays, Turned
<1> QED
  BY <1>1, <1>2

LEMMA SweepStep ==
    ASSUME ApprovalInv, Lapse \/ Sweep
    PROVE  ApprovalInv'
<1>0. HistoryOK' /\ ApprovalShape'
  BY SweepEffect DEF ApprovalInv, HistoryOK, RequestShape, PriorHasEnded, Ended, At, ApprovalsKept
<1>1. \A s \in Requests : Of(s)' = Of(s) /\ Chosen(s)' = Chosen(s) /\ (Holds(s)' <=> Holds(s))
  BY SweepEffect DEF Of, Chosen, Holds
<1>2. ApprovalStatements'
  BY SweepEffect DEF ApprovalInv, ApprovalStatements, At, ApprovalsKept
<1>3. OnlyCards'
  <2>1. \A a \in Ids : db'.approval[a] \in ApprovalRecord =>
            /\ db.approval[a] \in ApprovalRecord /\ db'.approval[a].kind = db.approval[a].kind
            /\ db'.approval[a].option = db.approval[a].option
    BY SweepEffect DEF ApprovalsKept, RowStays, Turned
  <2> QED
    BY <2>1, SweepEffect DEF ApprovalInv, OnlyCards, Undecided, At, Ids
<1>4. OneAnswer' /\ JobsOfAnswers'
  BY <1>1, SweepEffect DEF ApprovalInv, OneAnswer, JobsOfAnswers, StoredBy, Of
<1>5. HeldAnswer'
  <2>1. \A s \in Requests : Holds(s) => RowStays(Of(s))
    BY HolderOfCard, SweepEffect DEF Turned
  <2> QED
    BY <1>1, <2>1, SweepEffect DEF ApprovalInv, HeldAnswer, RowStays
<1>6. SomebodyAnswered'
  <2>1. \A a \in Ids : db'.approval[a] \in ApprovalRecord =>
            db.approval[a] \in ApprovalRecord /\ db'.approval[a].option = db.approval[a].option
    BY SweepEffect DEF RowStays, Turned
  <2>2. \A a \in Ids, s \in Requests : AnsweredBy(a, s) /\ db'.approval[a].option = db.approval[a].option
            => AnsweredBy(a, s)'
    BY <1>1, SweepEffect DEF AnsweredBy, At
  <2> QED
    BY <2>1, <2>2 DEF ApprovalInv, SomebodyAnswered, Undecided
<1> QED
  BY <1>0, <1>2, <1>3, <1>4, <1>5, <1>6 DEF ApprovalInv

LEMMA ApprovalInvStep ==
    ASSUME ApprovalInv, [(\E r \in Requests : ApprovalMove(r)) \/ Lapse \/ Sweep]_vars
    PROVE  ApprovalInv'
<1>1. CASE UNCHANGED vars
  BY <1>1 DEF vars, ApprovalInv, HistoryOK, RequestShape, PriorHasEnded, ApprovalShape, ApprovalStatements,
     OnlyCards, Undecided, OneAnswer, HeldAnswer, SomebodyAnswered, AnsweredBy, JobsOfAnswers, StoredBy,
     Holds, Of, Chosen, Ended, At
<1>2. ASSUME NEW r \in Requests, ApprovalMove(r)
      PROVE  ApprovalInv'
  <2>1. HistoryOK'
    BY <1>2, ApprovalMoves, HistoryStep DEF ApprovalInv
  <2>2. ApprovalShape'
    BY <1>2, MoveEffect DEF ApprovalsKept
  <2> QED
    BY <1>2, <2>1, <2>2, ApprovalStatementsStep, OnlyCardsStep, OneAnswerStep, HeldAnswerStep,
       SomebodyAnsweredStep, JobsOfAnswersStep DEF ApprovalInv
<1> QED
  BY <1>1, <1>2, SweepStep

\* The property follows.
LEMMA ApprovalInvHolds == ApprovalInv => AnswerIsResumed
<1> SUFFICES ASSUME ApprovalInv, NEW a \in Ids, db.approval[a] # Nil, db.approval[a].option # Nil,
                    \A r \in Doing("resolve") : req[r].arg.id = a => ~Open(r)
             PROVE  \/ db.job[a] # Nil /\ db.job[a].option = db.approval[a].option
                    \/ \E r \in Doing("resolve") : req[r].arg.id = a /\ At(r, "killed")
                    \/ db.job[a] # Nil /\ At(db.job[a].by, "refused")
  BY DEF AnswerIsResumed
<1>1. db.approval[a] \in ApprovalRecord /\ a \notin Requests
  BY DEF ApprovalInv, ApprovalShape, OnlyCards, Undecided
<1>2. PICK r \in Requests : AnsweredBy(a, r)
  BY <1>1 DEF ApprovalInv, SomebodyAnswered, Undecided
<1>3. \A s \in Requests : req[s].do = "resolve" => s \in Doing("resolve")
  BY DEF Doing, ApprovalInv, ApprovalStatements, At
<1>4. CASE At(r, "killed")
  BY <1>2, <1>3, <1>4 DEF AnsweredBy, Of
<1>5. CASE ~At(r, "killed")
  <2>1. Holds(r) /\ At(r, "ok") /\ Of(r) = a /\ req[r].arg.option = db.approval[a].option
    BY <1>2, <1>3, <1>5 DEF AnsweredBy, Holds, Of, Open, Ended, Ends, At
  <2>2. db.job[a] # Nil
    BY <2>1 DEF ApprovalInv, HeldAnswer, At
  <2>3. db.job[a].by \in Requests /\ StoredBy(a, db.job[a].by)
    BY <1>1, <2>2 DEF ApprovalInv, JobsOfAnswers
  <2> DEFINE s == db.job[a].by
  <2> HIDE DEF s
  <2>4. s \in Requests /\ StoredBy(a, s)
    BY <2>3 DEF s
  <2>5. req[s].at \in {"ok", "refused", "killed"}
    BY <1>3, <2>4 DEF StoredBy, Of, Open, Ended, Ends, At
  <2>6. CASE req[s].at = "ok"
    <3>1. s = r
      BY <2>1, <2>4, <2>6 DEF ApprovalInv, OneAnswer, StoredBy, Holds
    <3> QED
      BY <2>1, <2>2, <2>4, <3>1 DEF StoredBy
  <2>7. CASE req[s].at = "refused"
    BY <2>2, <2>7 DEF s, At
  <2>8. CASE req[s].at = "killed"
    BY <1>3, <2>4, <2>8 DEF StoredBy, Of, At
  <2> QED
    BY <2>5, <2>6, <2>7, <2>8
<1> QED
  BY <1>4, <1>5

\* A card that was answered is resumed, however many answers, messages and
\* sweeps cross: an answer settles the card only while it waits, so that one
\* request holds it until it has stored the job or taken its answer back.
THEOREM AnswersResume == ApprovalSpec => []AnswerIsResumed
<1> QED
  BY ApprovalInvInit, ApprovalInvStep, ApprovalInvHolds, PTL DEF ApprovalSpec

-----------------------------------------------------------------------------
(***************************************************************************)
(* Chats: a client is told the truth.                                      *)
(***************************************************************************)

EventKinds == {"token", "done", "error", "cancelled"}
Statuses == {"QUEUED", "RETRY", "RUNNING", "DONE", "FAILED", "DEAD", "CANCELLED"}

ChatRecord == [id : Nat \ {0}, kind : EventKinds, by : Requests]

ShapeOf(tables) ==
    /\ {"turn", "chat", "seq", "client"} \subseteq DOMAIN tables
    /\ DOMAIN tables.turn = {"status", "attempts"} /\ tables.turn.status \in Statuses
    /\ tables.seq \in Nat
    /\ \A e \in tables.chat : e \in ChatRecord /\ e.id <= tables.seq
    /\ DOMAIN tables.client = Requests
    /\ \A r \in Requests :
          /\ DOMAIN tables.client[r] = {"after", "seen", "told"}
          /\ tables.client[r].after \in Nat /\ tables.client[r].seen \subseteq tables.chat

ChatShape == ShapeOf(db)

ChatInit ==
    /\ RequestsInit /\ ChatShape
    /\ db.turn.status = "QUEUED" /\ db.chat = {}
    /\ \A r \in Requests : db.client[r] = [after |-> 0, seen |-> {}, told |-> Nil]

ChatMove(r) == ChatStep(r) \/ Killed(r)
ChatSpec == ChatInit /\ [][(\E r \in Requests : ChatMove(r)) \/ RequeueTurn]_vars

\* A run that has claimed the job, and a writer that has taken an event's id.
RunsTurn(r) ==
    req[r].at \in {"graph", "lookForCancel", "emit", "emitted", "finishTurn", "failFinal", "cancelRow", "failTurn"}
Cancels(c) == req[c].at \in {"cancelWrite", "cancelCommit"}
Writing(w) == req[w].at \in {"emitted", "cancelCommit"}

\* The statements of a handler, and what a request has in its hand there.
ChatStatement(r) ==
    /\ At(r, "runTurn") \/ RunsTurn(r) => req[r].do = "runTurn"
    /\ At(r, "cancelTurn") \/ Cancels(r) => req[r].do = "cancelTurn"
    /\ At(r, "new") => req[r].do = "none"
    /\ RunsTurn(r) => DOMAIN req[r].v = {"left", "kind", "id"}
    /\ At(r, "lookForCancel") => req[r].v.kind \in {"token", "done"}
    /\ req[r].at \in {"emit", "emitted"} =>
          /\ req[r].v.kind \in EventKinds
          /\ req[r].v.kind = "cancelled" => db.turn.status = "CANCELLED"
    /\ At(r, "cancelRow") => db.turn.status = "CANCELLED"
    /\ Writing(r) => req[r].v.id \in Nat \ {0} /\ req[r].v.id <= db.seq

\* One run has the job at a time, and it runs until a cancel crosses it.
OneRunsIt ==
    /\ \A r, s \in Requests : RunsTurn(r) /\ RunsTurn(s) => r = s
    /\ \A r \in Requests : RunsTurn(r) =>
          db.turn.status = "RUNNING" \/ (db.turn.status = "CANCELLED" /\ Crossed(r))

\* An event that ends the turn is its run's last, and says how the job ended.
SaysTheEnd(e) == e.kind \in {"done", "error"} /\ At(e.by, "ok")
EndingsAreTrue ==
    \A e \in db.chat :
        /\ e.kind = "cancelled" => db.turn.status = "CANCELLED"
        /\ e.kind = "done" => req[e.by].at \in {"finishTurn", "failTurn"} \cup Ends
        /\ e.kind = "error" => req[e.by].at \in {"failFinal"} \cup Ends
        /\ SaysTheEnd(e) => db.turn.status = Outcome(e.kind) \/ Crossed(e.by)
CancelsCross ==
    \A c \in Requests : Cancels(c) =>
        db.turn.status \in Active \/ \A e \in db.chat : SaysTheEnd(e) => Crossed(e.by)

\* Who has taken an id meets whoever shows a later one.
LateOnesMeet == \A w \in Requests : Writing(w) => \A f \in db.chat : f.id >= req[w].v.id => Met(w, f.by)

ClientHas(r) ==
    LET client == db.client[r] IN
    /\ client.after = 0 \/ \E f \in client.seen : f.id = client.after
    /\ \A e \in db.chat : e.id <= client.after => e \in client.seen \/ \E f \in client.seen : Met(e.by, f.by)
    /\ client.told = "cancelled" => db.turn.status = "CANCELLED"
    /\ client.told = "204" => db.turn.status \notin Active

ChatInv ==
    /\ HistoryOK /\ ChatShape
    /\ \A r \in Requests : ChatStatement(r) /\ ClientHas(r)
    /\ OneRunsIt /\ EndingsAreTrue /\ CancelsCross /\ LateOnesMeet

LEMMA ChatInvInit == ChatInit => ChatInv
<1> SUFFICES ASSUME ChatInit PROVE ChatInv
  OBVIOUS
<1>1. HistoryOK /\ ChatShape
  BY HistoryInit DEF ChatInit
<1>2. \A r \in Requests : req[r].at = "new" /\ req[r].do = "none"
  BY DEF ChatInit, RequestsInit
<1>3. \A r \in Requests : ChatStatement(r)
  BY <1>2 DEF ChatStatement, RunsTurn, Cancels, Writing, At
<1>4. db.chat = {} /\ \A r \in Requests : db.client[r].after = 0 /\ db.client[r].told = Nil
  BY DEF ChatInit
<1>5. \A r \in Requests : ClientHas(r)
  BY <1>4, ChatAssumption DEF ClientHas
<1>6. OneRunsIt /\ EndingsAreTrue /\ CancelsCross /\ LateOnesMeet
  BY <1>2, <1>4 DEF OneRunsIt, EndingsAreTrue, CancelsCross, LateOnesMeet, RunsTurn, Cancels, Writing
<1> QED
  BY <1>1, <1>3, <1>5, <1>6 DEF ChatInv

ChatHandlers == {"runTurn", "cancelTurn", "streamActive"}

LEMMA ChatMoves ==
    ASSUME HistoryOK, NEW r \in Requests, ChatStatement(r), ChatMove(r)
    PROVE  /\ Moves(r)
           /\ ~ArriveChat(r) => Open(r)
           /\ ArriveChat(r) => /\ At(r, "new") /\ db' = db /\ req'[r].v = Nil
                               /\ req'[r].do \in ChatHandlers /\ req'[r].at = req'[r].do
<1>1. CASE ArriveChat(r)
  <2>1. PICK h \in ChatHandlers : Begin(r, h, Nil)
    BY <1>1 DEF ArriveChat, ChatHandlers
  <2>2. req'[r] = [do |-> h, at |-> h, arg |-> Nil, v |-> Nil] /\ db' = db /\ At(r, "new")
    BY <2>1, BeginEffect
  <2>3. Moves(r)
    BY <2>1, BeginMoves DEF ChatHandlers, Ends
  <2> QED
    BY <1>1, <2>1, <2>2, <2>3
<1>2. CASE ~ArriveChat(r)
  <2>1. Open(r)
    BY <1>2 DEF ChatMove, ChatStep, Killed, ClaimTurn, Graph, LookForCancel, Emit, Emitted, FinishTurn,
                FailFinal, CancelRow, FailTurn, CancelTurn, CancelWrite, CancelCommit, StreamActive, Poll,
                Open, Ended, Ends, At
  <2>2. \E statement, v, tables : statement # "new" /\ Do(r, statement, v, tables)
    <3>1. CASE ClaimTurn(r) \/ Graph(r) \/ LookForCancel(r) \/ Emit(r)
      BY <3>1 DEF ClaimTurn, Graph, LookForCancel, Emit, GoOn, Refuse
    <3>2. CASE Emitted(r)
      <4>1. req[r].v.kind \in EventKinds
        BY <3>2 DEF Emitted, ChatStatement, At
      <4>2. AfterEmit(req[r].v.kind) # "new"
        BY <4>1 DEF AfterEmit, EventKinds
      <4> QED
        BY <3>2, <4>2 DEF Emitted
    <3>3. CASE FinishTurn(r) \/ FailFinal(r) \/ CancelRow(r) \/ FailTurn(r)
      BY <3>3 DEF FinishTurn, FailFinal, CancelRow, FailTurn, GoOn, End
    <3>4. CASE CancelTurn(r) \/ CancelWrite(r) \/ CancelCommit(r) \/ StreamActive(r)
      BY <3>4 DEF CancelTurn, CancelWrite, CancelCommit, StreamActive, GoOn, End, Refuse
    <3>5. CASE Poll(r)
      BY <3>5 DEF Poll, Refuse
    <3>6. CASE Killed(r)
      BY <3>6 DEF Killed
    <3> QED
      BY <1>2, <3>1, <3>2, <3>3, <3>4, <3>5, <3>6 DEF ChatMove, ChatStep
  <2> QED
    BY <1>2, <2>1, <2>2, DoMoves
<1> QED
  BY <1>1, <1>2

Went(r, from, to) == req[r].at = from /\ req'[r].at = to

HasLocals(v) == DOMAIN v = {"left", "kind", "id"}

\* The statements that write the job's row.
LEMMA TurnSet ==
    ASSUME NEW tables, ShapeOf(tables), NEW turn,
           DOMAIN turn = {"status", "attempts"}, turn.status \in Statuses
    PROVE  /\ ShapeOf([tables EXCEPT !.turn = turn])
           /\ [tables EXCEPT !.turn = turn].turn = turn
           /\ [tables EXCEPT !.turn = turn].chat = tables.chat
           /\ [tables EXCEPT !.turn = turn].seq = tables.seq
           /\ [tables EXCEPT !.turn = turn].client = tables.client
  BY DEF ShapeOf

LEMMA StatusSet ==
    ASSUME ChatShape, NEW status \in Statuses
    PROVE  /\ ShapeOf(InStatus(status))
           /\ InStatus(status).turn.status = status
           /\ InStatus(status).chat = db.chat
           /\ InStatus(status).seq = db.seq
           /\ InStatus(status).client = db.client
<1> DEFINE turn == [db.turn EXCEPT !.status = status]
<1>1. InStatus(status) = [db EXCEPT !.turn = turn]
  BY DEF InStatus, ChatShape, ShapeOf
<1>2. ShapeOf(db) /\ DOMAIN turn = {"status", "attempts"} /\ turn.status = status
  BY DEF ChatShape, ShapeOf
<1> HIDE DEF turn
<1> QED
  BY <1>1, <1>2, TurnSet

LEMMA TriedAgainSet ==
    ASSUME ChatShape
    PROVE  /\ ShapeOf(TriedAgain)
           /\ TriedAgain.turn.status \in {"DEAD", "RETRY"}
           /\ TriedAgain.chat = db.chat
           /\ TriedAgain.seq = db.seq
           /\ TriedAgain.client = db.client
<1> DEFINE turn == [status |-> IF db.turn.attempts + 1 >= MaxTries THEN "DEAD" ELSE "RETRY",
                    attempts |-> db.turn.attempts + 1]
<1>1. TriedAgain = [db EXCEPT !.turn = turn]
  BY DEF TriedAgain
<1>2. ShapeOf(db) /\ DOMAIN turn = {"status", "attempts"} /\ turn.status \in {"DEAD", "RETRY"}
  BY DEF ChatShape, ShapeOf
<1>3. turn.status \in Statuses
  BY <1>2 DEF Statuses
<1> HIDE DEF turn
<1> QED
  BY <1>1, <1>2, <1>3, TurnSet

LEMMA SeqSet ==
    ASSUME NEW tables, ShapeOf(tables), NEW next, next = [tables EXCEPT !.seq = tables.seq + 1]
    PROVE  /\ ShapeOf(next) /\ next.turn = tables.turn /\ next.chat = tables.chat
           /\ next.seq = tables.seq + 1 /\ next.client = tables.client
<1>1. /\ {"turn", "chat", "seq", "client"} \subseteq DOMAIN next /\ next.turn = tables.turn /\ next.chat = tables.chat
      /\ next.seq = tables.seq + 1 /\ next.client = tables.client
  BY DEF ShapeOf
<1> QED
  BY <1>1 DEF ShapeOf, ChatRecord

LEMMA ChatSet ==
    ASSUME NEW tables, ShapeOf(tables), NEW e \in ChatRecord, e.id <= tables.seq,
           NEW next, next = [tables EXCEPT !.chat = tables.chat \cup {e}]
    PROVE  /\ ShapeOf(next) /\ next.turn = tables.turn /\ next.chat = tables.chat \cup {e}
           /\ next.seq = tables.seq /\ next.client = tables.client
<1>1. /\ {"turn", "chat", "seq", "client"} \subseteq DOMAIN next /\ next.turn = tables.turn
      /\ next.chat = tables.chat \cup {e}
      /\ next.seq = tables.seq /\ next.client = tables.client
  BY DEF ShapeOf
<1> QED
  BY <1>1 DEF ShapeOf

LEMMA ClientSet ==
    ASSUME NEW tables, ShapeOf(tables), NEW r \in Requests, NEW client,
           DOMAIN client = {"after", "seen", "told"}, client.after \in Nat, client.seen \subseteq tables.chat,
           NEW next, next = [tables EXCEPT !.client[r] = client]
    PROVE  /\ ShapeOf(next) /\ next.turn = tables.turn /\ next.chat = tables.chat /\ next.seq = tables.seq
           /\ next.client[r] = client /\ \A s \in Requests \ {r} : next.client[s] = tables.client[s]
<1>1. /\ {"turn", "chat", "seq", "client"} \subseteq DOMAIN next /\ next.turn = tables.turn
      /\ next.chat = tables.chat /\ next.seq = tables.seq /\ DOMAIN next.client = Requests
      /\ next.client[r] = client /\ \A s \in Requests \ {r} : next.client[s] = tables.client[s]
  BY DEF ShapeOf
<1>2. \A s \in Requests : /\ DOMAIN next.client[s] = {"after", "seen", "told"}
                          /\ next.client[s].after \in Nat /\ next.client[s].seen \subseteq next.chat
  BY <1>1 DEF ShapeOf
<1> QED
  BY <1>1, <1>2 DEF ShapeOf

\* What a statement leaves a request with.
ChatGoes(r, w) ==
    \/ req'[r].at \in Ends
    \/ Went(r, "runTurn", "graph") /\ db.turn.status \in {"QUEUED", "RETRY"} /\ HasLocals(w)
    \/ /\ req[r].at = "graph" /\ HasLocals(w)
       /\ \/ req'[r].at = "emit" /\ w.kind \in {"token", "error"}
          \/ req'[r].at = "lookForCancel" /\ w.kind \in {"token", "done"}
          \/ req'[r].at = "failTurn"
    \/ /\ Went(r, "lookForCancel", "emit") /\ HasLocals(w)
       /\ \/ w.kind = req[r].v.kind
          \/ db.turn.status = "CANCELLED" /\ w.kind = "cancelled"
    \/ Went(r, "emit", "failFinal") /\ w = req[r].v
    \/ /\ Went(r, "emit", "emitted") /\ HasLocals(w) /\ w.kind = req[r].v.kind
       /\ w.id = db.seq + 1 /\ db'.seq = db.seq + 1
    \/ Went(r, "emitted", AfterEmit(req[r].v.kind)) /\ w = req[r].v
    \/ Went(r, "finishTurn", "failTurn") /\ w = req[r].v
    \/ Went(r, "cancelTurn", "cancelWrite") /\ db.turn.status \in Active
    \/ Went(r, "cancelWrite", "cancelCommit") /\ w.id = db.seq + 1 /\ db'.seq = db.seq + 1
    \/ req[r].at \in {"streamActive", "poll"} /\ req'[r].at \in {"poll", "streamActive"}

LEMMA ChatGoesTo ==
    ASSUME HistoryOK, ChatShape, NEW r \in Requests, ChatStatement(r), ChatMove(r), ~ArriveChat(r),
           NEW w, w = req'[r].v
    PROVE  /\ req'[r].do = req[r].do
           /\ \A s \in Requests \ {r} : req'[s] = req[s]
           /\ ChatGoes(r, w)
<1>0. /\ \A statement, v, tables : Do(r, statement, v, tables) =>
            /\ req'[r].at = statement
            /\ statement \notin Ends => w = v
            /\ db' = tables
      /\ ChatMove(r) /\ ~ArriveChat(r)
  BY DoEffect
<1>1. /\ req'[r].do = req[r].do
      /\ \A s \in Requests \ {r} : req'[s] = req[s]
  <2>1. Open(r) /\ Moves(r)
    BY ChatMoves
  <2>2. ~At(r, "new")
    BY <2>1 DEF Open
  <2> QED
    BY <2>1, <2>2, OthersStay
<1> DEFINE u == req[r].v
<1>u. RunsTurn(r) => HasLocals(u)
  BY DEF ChatStatement, HasLocals
<1> HIDE DEF u
<1>2. CASE ClaimTurn(r)
  BY <1>0, <1>1, <1>2 DEF ClaimTurn, Refuse, Ends, Went, At, HasLocals, ChatGoes
<1>3. CASE Graph(r)
  <2>1. At(r, "graph") /\ HasLocals(u)
    BY <1>3, <1>u DEF Graph, RunsTurn, At
  <2>2. CASE \E next \in {"emit", "lookForCancel"} :
                GoOn(r, next, [u EXCEPT !.left = u.left - 1, !.kind = "token"])
    <3> DEFINE v == [[u EXCEPT !.left = u.left - 1] EXCEPT !.kind = "token"]
    <3>1. HasLocals(v) /\ v.kind = "token"
      BY <2>1 DEF HasLocals
    <3> HIDE DEF v
    <3>2. PICK next \in {"emit", "lookForCancel"} : GoOn(r, next, v)
      BY <2>2 DEF v
    <3>3. req'[r].at = next /\ w = v /\ db' = db
      BY <1>0, <3>2 DEF GoOn, Ends
    <3> QED
      BY <1>1, <2>1, <3>1, <3>2, <3>3 DEF At, ChatGoes
  <2>3. CASE \/ GoOn(r, "lookForCancel", [u EXCEPT !.kind = "done"])
             \/ GoOn(r, "emit", [u EXCEPT !.kind = "error"])
    <3>1. ASSUME NEW k, NEW next, next \notin Ends, GoOn(r, next, [u EXCEPT !.kind = k])
          PROVE  req'[r].at = next /\ HasLocals(w) /\ w.kind = k /\ db' = db
      <4> DEFINE v == [u EXCEPT !.kind = k]
      <4>1. HasLocals(v) /\ v.kind = k
        BY <2>1 DEF HasLocals
      <4>2. GoOn(r, next, v)
        BY <3>1
      <4> HIDE DEF v
      <4> QED
        BY <1>0, <3>1, <4>1, <4>2 DEF GoOn
    <3>2. CASE GoOn(r, "lookForCancel", [u EXCEPT !.kind = "done"])
      <4>0. "lookForCancel" \notin Ends
        BY DEF Ends
      <4>1. req'[r].at = "lookForCancel" /\ HasLocals(w) /\ w.kind = "done" /\ db' = db
        BY <3>1, <3>2, <4>0
      <4> QED
        BY <1>1, <2>1, <4>1 DEF At, ChatGoes
    <3>3. CASE GoOn(r, "emit", [u EXCEPT !.kind = "error"])
      <4>1. req'[r].at = "emit" /\ HasLocals(w) /\ w.kind = "error" /\ db' = db
        BY SMTT(30), <3>1, <3>3 DEF Ends
      <4> QED
        BY <1>1, <2>1, <4>1 DEF At, ChatGoes
    <3> QED
      BY <2>3, <3>2, <3>3
  <2>4. CASE GoOn(r, "failTurn", u)
    BY <1>0, <1>1, <2>1, <2>4 DEF GoOn, Ends, At, ChatGoes
  <2> QED
    BY <1>3, <2>2, <2>3, <2>4 DEF Graph, u
<1>4. CASE LookForCancel(r)
  <2>1. At(r, "lookForCancel") /\ HasLocals(u)
    BY <1>4, <1>u DEF LookForCancel, RunsTurn, At
  <2>2. HasLocals([u EXCEPT !.kind = "cancelled"]) /\ [u EXCEPT !.kind = "cancelled"].kind = "cancelled"
    BY <2>1 DEF HasLocals
  <2>3. req'[r].at = "emit" /\ db' = db
        /\ w = IF db.turn.status = "CANCELLED" THEN [u EXCEPT !.kind = "cancelled"] ELSE u
    BY <1>0, <1>4 DEF LookForCancel, GoOn, Ends, u
  <2> QED
    BY <1>1, <2>1, <2>2, <2>3 DEF Went, At, u, ChatGoes
<1>5. CASE Emit(r)
  <2>1. At(r, "emit") /\ HasLocals(u)
    BY <1>5, <1>u DEF Emit, RunsTurn, At
  <2>2. \A i : HasLocals([u EXCEPT !.id = i]) /\ [u EXCEPT !.id = i].id = i /\ [u EXCEPT !.id = i].kind = u.kind
    BY <2>1 DEF HasLocals
  <2>3. CASE GoOn(r, "failFinal", u)
    BY <1>0, <1>1, <2>1, <2>3 DEF GoOn, Ends, Went, At, u, ChatGoes
  <2>4. CASE Do(r, "emitted", [u EXCEPT !.id = db.seq + 1], [db EXCEPT !.seq = db.seq + 1])
    <3> DEFINE v == [u EXCEPT !.id = db.seq + 1]
    <3>1. HasLocals(v) /\ v.id = db.seq + 1 /\ v.kind = u.kind
      BY <2>2
    <3>2. Do(r, "emitted", v, [db EXCEPT !.seq = db.seq + 1])
      BY <2>4
    <3> HIDE DEF v
    <3>3. req'[r].at = "emitted" /\ w = v /\ db'.seq = db.seq + 1
      BY <1>0, <3>2, SeqSet DEF Ends, ChatShape
    <3> QED
      BY <1>1, <1>5, <2>1, <3>1, <3>3 DEF Went, At, u, ChatGoes
  <2> QED
    BY <1>5, <2>3, <2>4 DEF Emit, u
<1>6. CASE Emitted(r)
  BY <1>0, <1>1, <1>6 DEF Emitted, AfterEmit, Ends, Went, At, ChatGoes
<1>7. CASE FinishTurn(r) \/ FailFinal(r) \/ CancelRow(r) \/ FailTurn(r)
  <2>1. CASE FinishTurn(r)
    BY <1>0, <1>1, <2>1 DEF FinishTurn, GoOn, End, Ends, Went, At, ChatGoes
  <2>2. CASE FailFinal(r) \/ CancelRow(r) \/ FailTurn(r)
    BY <1>0, <1>1, <2>2 DEF FailFinal, CancelRow, FailTurn, End, Ends, ChatGoes
  <2> QED
    BY <1>7, <2>1, <2>2
<1>8. CASE CancelTurn(r) \/ CancelWrite(r) \/ CancelCommit(r)
  <2>1. CASE CancelTurn(r)
    BY <1>0, <1>1, <2>1 DEF CancelTurn, GoOn, Refuse, Ends, Went, At, ChatGoes
  <2>2. CASE CancelWrite(r)
    <3>1. w = [id |-> db.seq + 1] /\ Went(r, "cancelWrite", "cancelCommit") /\ db'.seq = db.seq + 1
      BY <1>0, <2>2, SeqSet DEF CancelWrite, Ends, Went, At, ChatShape
    <3> QED
      BY <1>1, <3>1 DEF ChatGoes
  <2>3. CASE CancelCommit(r)
    BY <1>0, <1>1, <2>3 DEF CancelCommit, End, Ends, ChatGoes
  <2> QED
    BY <1>8, <2>1, <2>2, <2>3
<1>9. CASE StreamActive(r) \/ Poll(r)
  <2>1. CASE StreamActive(r)
    BY <1>0, <1>1, <2>1 DEF StreamActive, GoOn, End, Ends, At, ChatGoes
  <2>2. CASE Poll(r)
    BY <1>0, <1>1, <2>2 DEF Poll, Refuse, Ends, At, ChatGoes
  <2> QED
    BY <1>9, <2>1, <2>2
<1>10. CASE Killed(r)
  BY <1>0, <1>1, <1>10 DEF Killed, Ends, ChatGoes
<1> QED
  BY <1>0, <1>2, <1>3, <1>4, <1>5, <1>6, <1>7, <1>8, <1>9, <1>10 DEF ChatMove, ChatStep, ChatGoes

StatusMoves(r) ==
    \/ db'.turn.status = db.turn.status
    \/ Went(r, "runTurn", "graph") /\ db.turn.status \in {"QUEUED", "RETRY"} /\ db'.turn.status = "RUNNING"
    \/ Went(r, "finishTurn", "ok") /\ db.turn.status = "RUNNING" /\ db'.turn.status = "DONE"
    \/ Went(r, "failFinal", "ok") /\ db.turn.status = "RUNNING" /\ db'.turn.status = "FAILED"
    \/ Went(r, "failTurn", "refused") /\ db.turn.status = "RUNNING" /\ db'.turn.status \in {"RETRY", "DEAD"}
    \/ Went(r, "cancelCommit", "ok") /\ db'.turn.status = "CANCELLED"

\* A claim leaves the job running; a statement that ends the turn well leaves its
\* outcome, if the job ran still.
Concludes(r) ==
    /\ ~Went(r, "failTurn", "ok")
    /\ Went(r, "runTurn", "graph") => db'.turn.status = "RUNNING"
    /\ Went(r, "finishTurn", "ok") /\ db.turn.status = "RUNNING" => db'.turn.status = "DONE"
    /\ Went(r, "failFinal", "ok") /\ db.turn.status = "RUNNING" => db'.turn.status = "FAILED"

\* An event is shown by the run that wrote it, or with the cancel's row.
Shows(r, kind) ==
    /\ db'.chat = db.chat \cup {ChatRow(req[r].v.id, kind, r)}
    /\ \/ Went(r, "emitted", AfterEmit(kind)) /\ kind = req[r].v.kind /\ db'.turn.status = db.turn.status
       \/ Went(r, "cancelCommit", "ok") /\ kind = "cancelled" /\ db'.turn.status = "CANCELLED"

LEMMA PollEffect ==
    ASSUME HistoryOK, ChatShape, NEW r \in Requests, Poll(r)
    PROVE  \/ db' = db
           \/ \E last \in {e.id : e \in UpToClosing(Unread(r))} \cup {db.client[r].after} :
              \E sent, ends, told :
                /\ sent = {e \in UpToClosing(Unread(r)) : e.id <= last}
                /\ ends = {e.kind : e \in sent} \cap Closing
                /\ told \in ends \cup {Nil}
                /\ db' = [db EXCEPT !.client[r] = [after |-> last, seen |-> db.client[r].seen \cup sent,
                                                   told |-> told]]
<1>1. CASE Refuse(r)
  BY <1>1, DoEffect DEF Refuse
<1>2. CASE ~Refuse(r)
  <2>1. PICK last \in {e.id : e \in UpToClosing(Unread(r))} \cup {db.client[r].after} :
            LET sent == {e \in UpToClosing(Unread(r)) : e.id <= last}
                ends == {e.kind : e \in sent} \cap Closing
                got  == [after |-> last, seen |-> db.client[r].seen \cup sent,
                         told |-> IF ends = {} THEN Nil ELSE CHOOSE kind \in ends : TRUE]
            IN \E next \in IF ends = {} THEN {"poll", "streamActive"} ELSE {"ok"} :
                  Do(r, next, Nil, [db EXCEPT !.client[r] = got])
    BY <1>2 DEF Poll
  <2> DEFINE sent == {e \in UpToClosing(Unread(r)) : e.id <= last}
             ends == {e.kind : e \in sent} \cap Closing
             told == IF ends = {} THEN Nil ELSE CHOOSE kind \in ends : TRUE
             got == [after |-> last, seen |-> db.client[r].seen \cup sent, told |-> told]
  <2>2. told \in ends \cup {Nil}
    <3> HIDE DEF ends
    <3> QED
      BY DEF told
  <2>3. \A next : Do(r, next, Nil, [db EXCEPT !.client[r] = got]) => db' = [db EXCEPT !.client[r] = got]
    <3> HIDE DEF got
    <3> QED
      BY DoEffect
  <2>4. PICK next : Do(r, next, Nil, [db EXCEPT !.client[r] = got])
    BY <2>1
  <2>5. db' = [db EXCEPT !.client[r] = got]
    BY <2>3, <2>4
  <2> QED
    BY <2>2, <2>5
<1> QED
  BY <1>1, <1>2

LEMMA ChatTablesStep ==
    ASSUME HistoryOK, ChatShape, NEW r \in Requests, ChatStatement(r), ChatMove(r)
    PROVE  /\ ChatShape'
           /\ StatusMoves(r) /\ Concludes(r)
           /\ db'.chat = db.chat \/ \E kind \in EventKinds : Shows(r, kind)
           /\ db'.seq >= db.seq
           /\ \A s \in Requests \ {r} : db'.client[s] = db.client[s]
           /\ db'.client[r] = db.client[r] \/ StreamActive(r) \/ Poll(r)
           /\ (db'.turn.status # db.turn.status \/ db'.chat # db.chat) => db'.client = db.client
<1>0. /\ \A statement, v, tables : Do(r, statement, v, tables) => req'[r].at = statement /\ db' = tables
      /\ ShapeOf(db)
  BY DoEffect DEF ChatShape
<1> DEFINE Goal == /\ ShapeOf(db') /\ StatusMoves(r) /\ Concludes(r)
                   /\ db'.chat = db.chat \/ \E kind \in EventKinds : Shows(r, kind)
                   /\ db'.seq >= db.seq
                   /\ \A s \in Requests \ {r} : db'.client[s] = db.client[s]
                   /\ db'.client[r] = db.client[r] \/ StreamActive(r) \/ Poll(r)
                   /\ (db'.turn.status # db.turn.status \/ db'.chat # db.chat) => db'.client = db.client
<1> SUFFICES Goal
  BY DEF ChatShape
<1>s. db.seq \in Nat /\ db.turn.status \in Statuses
  BY <1>0 DEF ShapeOf
<1>1. ASSUME db' = db, ~Went(r, "runTurn", "graph"), ~Went(r, "failTurn", "ok"), ~Went(r, "finishTurn", "ok") \/ db.turn.status # "RUNNING",
             ~Went(r, "failFinal", "ok") \/ db.turn.status # "RUNNING"
      PROVE  Goal
  BY <1>0, <1>1, <1>s DEF StatusMoves, Concludes
<1>2. ASSUME NEW status \in Statuses, db' = InStatus(status), StatusMoves(r), Concludes(r)
      PROVE  Goal
  <2>1. /\ ShapeOf(db') /\ db'.chat = db.chat /\ db'.seq = db.seq /\ db'.client = db.client
    BY <1>2, StatusSet
  <2> QED
    BY <1>2, <1>s, <2>1
<1>3. CASE ArriveChat(r)
  BY <1>1, <1>3, ChatMoves DEF Went, At
<1>4. CASE ClaimTurn(r)
  <2>1. CASE db.turn.status \in {"QUEUED", "RETRY"}
    <3>1. db' = InStatus("RUNNING") /\ Went(r, "runTurn", "graph")
      BY <1>0, <1>4, <2>1 DEF ClaimTurn, Went, At
    <3>2. db'.turn.status = "RUNNING"
      BY <3>1, StatusSet DEF Statuses
    <3> QED
      BY <1>2, <2>1, <3>1, <3>2 DEF Statuses, StatusMoves, Concludes, Went
  <2>2. CASE db.turn.status \notin {"QUEUED", "RETRY"}
    BY <1>0, <1>1, <1>4, <2>2 DEF ClaimTurn, Refuse, Went, At
  <2> QED
    BY <2>1, <2>2
<1>5. CASE Graph(r) \/ LookForCancel(r)
  <2>1. req[r].at \in {"graph", "lookForCancel"} /\ db' = db
    BY <1>0, <1>5 DEF Graph, LookForCancel, GoOn, At
  <2> QED
    BY <1>1, <2>1 DEF Went
<1>6. CASE Emit(r) \/ CancelWrite(r)
  <2>1. req[r].at \in {"emit", "cancelWrite"}
    BY <1>6 DEF Emit, CancelWrite, At
  <2>2. CASE db' = db
    BY <1>1, <2>1, <2>2 DEF Went
  <2>3. CASE db' # db
    <3>1. db' = [db EXCEPT !.seq = db.seq + 1]
      BY <1>0, <1>6, <2>3 DEF Emit, CancelWrite, GoOn
    <3>2. /\ ShapeOf(db') /\ db'.turn = db.turn /\ db'.chat = db.chat
          /\ db'.seq = db.seq + 1 /\ db'.client = db.client
      BY <1>0, <3>1, SeqSet
    <3> QED
      BY <1>s, <2>1, <3>2 DEF StatusMoves, Concludes, Went
  <2> QED
    BY <2>2, <2>3
<1>7. CASE Emitted(r)
  <2> DEFINE v == req[r].v
             e == ChatRow(v.id, v.kind, r)
  <2>1. v.kind \in EventKinds /\ v.id \in Nat \ {0} /\ v.id <= db.seq /\ At(r, "emitted")
    BY <1>7 DEF ChatStatement, Emitted, At, Writing
  <2>2. e \in ChatRecord /\ e.id <= db.seq
    BY <2>1 DEF ChatRow, ChatRecord
  <2>3. db' = [db EXCEPT !.chat = db.chat \cup {e}] /\ Went(r, "emitted", AfterEmit(v.kind))
    BY <1>0, <1>7 DEF Emitted, Went, At
  <2>4. ShapeOf(db') /\ db'.turn = db.turn /\ db'.chat = db.chat \cup {e} /\ db'.seq = db.seq /\ db'.client = db.client
    <3> HIDE DEF e, v
    <3> QED
      BY <1>0, <2>2, <2>3, ChatSet
  <2>5. Shows(r, v.kind)
    BY <2>3, <2>4 DEF Shows
  <2> QED
    BY <1>s, <2>1, <2>3, <2>4, <2>5 DEF StatusMoves, Concludes, Went
<1>8. CASE FinishTurn(r)
  <2>1. CASE GoOn(r, "failTurn", req[r].v)
    BY <1>0, <1>1, <1>8, <2>1 DEF FinishTurn, GoOn, Went, At
  <2>2. CASE End(r, db) /\ ~IsRunning(db.turn)
    BY <1>0, <1>1, <1>8, <2>2 DEF FinishTurn, End, IsRunning, Went, At
  <2>3. CASE End(r, InStatus("DONE")) /\ IsRunning(db.turn)
    <3>1. db' = InStatus("DONE") /\ Went(r, "finishTurn", "ok") /\ db.turn.status = "RUNNING"
      BY <1>0, <1>8, <2>3 DEF FinishTurn, End, IsRunning, Went, At
    <3>2. db'.turn.status = "DONE"
      BY <3>1, StatusSet DEF Statuses
    <3> QED
      BY <1>2, <3>1, <3>2 DEF Statuses, StatusMoves, Concludes, Went
  <2> QED
    BY <1>8, <2>1, <2>2, <2>3 DEF FinishTurn
<1>9. CASE FailFinal(r)
  <2>1. CASE ~IsRunning(db.turn)
    BY <1>0, <1>1, <1>9, <2>1 DEF FailFinal, End, IsRunning, Went, At
  <2>2. CASE IsRunning(db.turn)
    <3>1. db' = InStatus("FAILED") /\ Went(r, "failFinal", "ok") /\ db.turn.status = "RUNNING"
      BY <1>0, <1>9, <2>2 DEF FailFinal, End, IsRunning, Went, At
    <3>2. db'.turn.status = "FAILED"
      BY <3>1, StatusSet DEF Statuses
    <3> QED
      BY <1>2, <3>1, <3>2 DEF Statuses, StatusMoves, Concludes, Went
  <2> QED
    BY <2>1, <2>2
<1>10. CASE CancelRow(r)
  <2>1. db.turn.status = "CANCELLED" /\ req[r].at = "cancelRow"
    BY <1>10 DEF ChatStatement, CancelRow, At
  <2>2. db' = db
    BY <1>0, <1>10, <2>1 DEF CancelRow, End, Active
  <2> QED
    BY <1>1, <2>1, <2>2 DEF Went
<1>11. CASE FailTurn(r)
  <2>1. Went(r, "failTurn", "refused")
    BY <1>0, <1>11 DEF FailTurn, Went, At
  <2>2. CASE ~IsRunning(db.turn)
    BY <1>0, <1>1, <1>11, <2>1, <2>2 DEF FailTurn, Went
  <2>3. CASE IsRunning(db.turn)
    <3>1. db' = TriedAgain
      BY <1>0, <1>11, <2>3 DEF FailTurn
    <3>2. /\ ShapeOf(db') /\ db'.turn.status \in {"DEAD", "RETRY"} /\ db'.chat = db.chat
          /\ db'.seq = db.seq /\ db'.client = db.client
      BY <3>1, TriedAgainSet
    <3> QED
      BY <1>s, <2>1, <2>3, <3>2 DEF StatusMoves, Concludes, Went, IsRunning
  <2> QED
    BY <2>2, <2>3
<1>12. CASE CancelTurn(r)
  <2>1. req[r].at = "cancelTurn" /\ db' = db
    BY <1>0, <1>12 DEF CancelTurn, GoOn, Refuse, At
  <2> QED
    BY <1>1, <2>1 DEF Went
<1>13. CASE CancelCommit(r)
  <2> DEFINE v == req[r].v
             e == ChatRow(v.id, "cancelled", r)
             tables == InStatus("CANCELLED")
  <2>1. v.id \in Nat \ {0} /\ v.id <= db.seq /\ At(r, "cancelCommit")
    BY <1>13 DEF ChatStatement, CancelCommit, At, Writing
  <2>2. /\ ShapeOf(tables) /\ tables.turn.status = "CANCELLED" /\ tables.chat = db.chat /\ tables.seq = db.seq
        /\ tables.client = db.client
    BY StatusSet DEF Statuses
  <2>3. e \in ChatRecord /\ e.id <= tables.seq
    BY <2>1, <2>2 DEF ChatRow, ChatRecord, EventKinds
  <2>4. db' = [tables EXCEPT !.chat = tables.chat \cup {e}] /\ Went(r, "cancelCommit", "ok")
    BY <1>0, <1>13 DEF CancelCommit, End, Went, At
  <2>5. /\ ShapeOf(db') /\ db'.turn = tables.turn /\ db'.chat = tables.chat \cup {e}
        /\ db'.seq = tables.seq /\ db'.client = tables.client
    <3> HIDE DEF e, v, tables
    <3> QED
      BY <2>2, <2>3, <2>4, ChatSet
  <2>6. Shows(r, "cancelled")
    BY <2>2, <2>4, <2>5 DEF Shows
  <2> HIDE DEF tables
  <2> QED
    BY <1>s, <2>2, <2>4, <2>5, <2>6 DEF StatusMoves, Concludes, Went, EventKinds
<1>14. CASE StreamActive(r) \/ Poll(r)
  <2>1. req[r].at \in {"streamActive", "poll"}
    BY <1>14 DEF StreamActive, Poll, At
  <2>2. CASE db' = db
    BY <1>1, <2>1, <2>2 DEF Went
  <2>3. CASE db' # db
    <3>1. \E client : /\ DOMAIN client = {"after", "seen", "told"} /\ client.after \in Nat
                      /\ client.seen \subseteq db.chat /\ db' = [db EXCEPT !.client[r] = client]
      <4>1. CASE StreamActive(r)
        <5> DEFINE client == [db.client[r] EXCEPT !.told = "204"]
        <5>1. db' = [db EXCEPT !.client[r].told = "204"]
          BY <1>0, <2>3, <4>1 DEF StreamActive, GoOn, End
        <5>2. db' = [db EXCEPT !.client[r] = client]
          BY <5>1
        <5>3. DOMAIN client = {"after", "seen", "told"} /\ client.after \in Nat /\ client.seen \subseteq db.chat
          BY <1>0 DEF ShapeOf
        <5> QED
          BY <5>2, <5>3
      <4>2. CASE Poll(r)
        <5>1. PICK last \in {e.id : e \in UpToClosing(Unread(r))} \cup {db.client[r].after} :
              \E sent, ends, told :
                /\ sent = {e \in UpToClosing(Unread(r)) : e.id <= last}
                /\ db' = [db EXCEPT !.client[r] = [after |-> last, seen |-> db.client[r].seen \cup sent,
                                                   told |-> told]]
          BY <2>3, <4>2, PollEffect
        <5>2. last \in Nat
          BY <1>0, <5>1 DEF ShapeOf, ChatRecord, Unread, UpToClosing
        <5>3. PICK sent, told :
                /\ sent = {e \in UpToClosing(Unread(r)) : e.id <= last}
                /\ db' = [db EXCEPT !.client[r] = [after |-> last, seen |-> db.client[r].seen \cup sent,
                                                   told |-> told]]
          BY <5>1
        <5>4. sent \subseteq db.chat
          BY <5>3 DEF Unread, UpToClosing
        <5> DEFINE client == [after |-> last, seen |-> db.client[r].seen \cup sent, told |-> told]
        <5>5. DOMAIN client = {"after", "seen", "told"} /\ client.after \in Nat /\ client.seen \subseteq db.chat
          BY <1>0, <5>2, <5>4 DEF ShapeOf
        <5>6. db' = [db EXCEPT !.client[r] = client]
          BY <5>3
        <5> QED
          BY <5>5, <5>6
      <4> QED
        BY <1>14, <4>1, <4>2
    <3>2. PICK client : /\ DOMAIN client = {"after", "seen", "told"} /\ client.after \in Nat
                        /\ client.seen \subseteq db.chat /\ db' = [db EXCEPT !.client[r] = client]
      BY <3>1
    <3>3. /\ ShapeOf(db') /\ db'.turn = db.turn /\ db'.chat = db.chat /\ db'.seq = db.seq
          /\ \A s \in Requests \ {r} : db'.client[s] = db.client[s]
      BY <1>0, <3>2, ClientSet
    <3> QED
      BY <1>14, <1>s, <2>1, <3>3 DEF StatusMoves, Concludes, Went
  <2> QED
    BY <2>2, <2>3
<1>15. CASE Killed(r)
  <2>1. req'[r].at = "killed" /\ db' = db
    BY <1>0, <1>15 DEF Killed
  <2> QED
    BY <1>1, <2>1 DEF Went
<1> HIDE DEF Goal
<1> QED
  BY <1>3, <1>4, <1>5, <1>6, <1>7, <1>8, <1>9, <1>10, <1>11, <1>12, <1>13, <1>14, <1>15 DEF ChatMove, ChatStep

LEMMA CrossedStays ==
    ASSUME HistoryOK, NEW r \in Requests, Moves(r), NEW s \in Requests, Crossed(s)
    PROVE  Crossed(s)'
<1>1. PICK c \in Requests : req[c].do = "cancelTurn" /\ Met(s, c)
  BY DEF Crossed, MetAny
<1>2. Met(s, c)' /\ req'[c].do = "cancelTurn"
  BY <1>1, MetStays, OthersStay DEF Met
<1> QED
  BY <1>2 DEF Crossed, MetAny

\* A run that is open when a cancel is has met it.
LEMMA CancelCrosses ==
    ASSUME HistoryOK, NEW s \in Requests, NEW c \in Requests, ChatStatement(s), ChatStatement(c), RunsTurn(s), Cancels(c)
    PROVE  Crossed(s)
<1>1. Open(s) /\ Open(c) /\ req[s].do = "runTurn" /\ req[c].do = "cancelTurn"
  BY DEF ChatStatement, RunsTurn, Cancels, Open, Ended, Ends, At
<1>2. Met(s, c)
  BY <1>1, OpenMeet
<1> QED
  BY <1>1, <1>2 DEF Crossed, MetAny

\* A job that has been cancelled, and one that can run no more, stays so.
LEMMA StatusStays ==
    ASSUME NEW r, StatusMoves(r)
    PROVE  /\ db.turn.status = "CANCELLED" => db'.turn.status = "CANCELLED"
           /\ db.turn.status \notin Active => db'.turn.status \notin Active
  BY DEF StatusMoves, Active

LEMMA ChatStatementStep ==
    ASSUME ChatInv, NEW r \in Requests, ChatMove(r)
    PROVE  \A s \in Requests : ChatStatement(s)'
<1>0. /\ HistoryOK /\ ChatShape /\ ChatStatement(r) /\ Moves(r) /\ ChatShape' /\ StatusMoves(r)
      /\ db.seq \in Nat /\ db'.seq \in Nat /\ db'.seq >= db.seq
  BY ChatMoves, ChatTablesStep DEF ChatInv, ChatShape, ShapeOf
<1> DEFINE cancelled == db.turn.status = "CANCELLED"
           cancelledNow == db'.turn.status = "CANCELLED"
<1>c. cancelled => cancelledNow
  BY <1>0, StatusStays
<1> DEFINE Fits(q, isCancelled, seq) ==
    /\ (q.at = "runTurn" \/ q.at \in {"graph", "lookForCancel", "emit", "emitted", "finishTurn", "failFinal",
                                      "cancelRow", "failTurn"}) => q.do = "runTurn"
    /\ (q.at = "cancelTurn" \/ q.at \in {"cancelWrite", "cancelCommit"}) => q.do = "cancelTurn"
    /\ q.at = "new" => q.do = "none"
    /\ q.at \in {"graph", "lookForCancel", "emit", "emitted", "finishTurn", "failFinal", "cancelRow", "failTurn"} =>
         HasLocals(q.v)
    /\ q.at = "lookForCancel" => q.v.kind \in {"token", "done"}
    /\ q.at \in {"emit", "emitted"} => /\ q.v.kind \in EventKinds
                                       /\ q.v.kind = "cancelled" => isCancelled
    /\ q.at = "cancelRow" => isCancelled
    /\ q.at \in {"emitted", "cancelCommit"} => q.v.id \in Nat \ {0} /\ q.v.id <= seq
<1>1. \A s \in Requests : Fits(req[s], cancelled, db.seq)
  BY DEF ChatInv, ChatStatement, RunsTurn, Cancels, Writing, At, HasLocals
<1>2. Fits(req'[r], cancelledNow, db'.seq)
  <2>1. CASE ArriveChat(r)
    <3>1. req'[r].do \in ChatHandlers /\ req'[r].at = req'[r].do
      BY <1>0, <2>1, ChatMoves
    <3> QED
      BY <3>1 DEF ChatHandlers
  <2>2. CASE ~ArriveChat(r)
    <3> DEFINE w == req'[r].v
               at == req'[r].at
    <3>a. Fits(req[r], cancelled, db.seq)
      BY <1>1
    <3>1. req'[r].do = req[r].do /\ ChatGoes(r, w)
      <4> HIDE DEF w
      <4>1. \A x : x = req'[r].v => req'[r].do = req[r].do /\ ChatGoes(r, x)
        BY <1>0, <2>2, ChatGoesTo
      <4> QED
        BY <4>1 DEF w
    <3>2. \A kind \in EventKinds : AfterEmit(kind) \in {"graph", "finishTurn", "failFinal", "cancelRow"}
                                   /\ (AfterEmit(kind) = "cancelRow" => kind = "cancelled")
      BY DEF EventKinds, AfterEmit
    <3>3. db.seq \in Nat /\ db'.seq \in Nat /\ db'.seq >= db.seq
      BY <1>0
    <3> HIDE DEF w
    <3>4. w = req'[r].v
      BY DEF w
    <3>5. CASE at \in Ends
      BY <3>5 DEF Ends
    <3>6. CASE Went(r, "runTurn", "graph") /\ HasLocals(w)
      BY <3>a, <3>1, <3>4, <3>6 DEF Went
    <3>7. CASE /\ req[r].at = "graph" /\ HasLocals(w)
               /\ \/ at = "emit" /\ w.kind \in {"token", "error"}
                  \/ at = "lookForCancel" /\ w.kind \in {"token", "done"}
                  \/ at = "failTurn"
      BY <3>a, <3>1, <3>4, <3>7 DEF EventKinds
    <3>8. CASE Went(r, "lookForCancel", "emit") /\ HasLocals(w)
               /\ (w.kind = req[r].v.kind \/ (db.turn.status = "CANCELLED" /\ w.kind = "cancelled"))
      BY <1>c, <3>a, <3>1, <3>4, <3>8 DEF Went, EventKinds
    <3>9. CASE Went(r, "emit", "failFinal") /\ w = req[r].v
      BY <3>a, <3>1, <3>4, <3>9 DEF Went
    <3>10. CASE Went(r, "emit", "emitted") /\ HasLocals(w) /\ w.kind = req[r].v.kind
                /\ w.id = db.seq + 1 /\ db'.seq = db.seq + 1
      BY <1>c, <3>a, <3>1, <3>3, <3>4, <3>10 DEF Went
    <3>11. CASE Went(r, "emitted", AfterEmit(req[r].v.kind)) /\ w = req[r].v
      BY <1>c, <3>a, <3>1, <3>2, <3>4, <3>11 DEF Went
    <3>12. CASE Went(r, "finishTurn", "failTurn") /\ w = req[r].v
      BY <3>a, <3>1, <3>4, <3>12 DEF Went
    <3>13. CASE Went(r, "cancelTurn", "cancelWrite")
      BY <3>a, <3>1, <3>13 DEF Went
    <3>14. CASE Went(r, "cancelWrite", "cancelCommit") /\ w.id = db.seq + 1 /\ db'.seq = db.seq + 1
      BY <3>a, <3>1, <3>3, <3>4, <3>14 DEF Went
    <3>15. CASE req[r].at \in {"streamActive", "poll"} /\ at \in {"poll", "streamActive"}
      BY <3>15
    <3> HIDE DEF Fits, cancelledNow
    <3> QED
      BY <3>1, <3>5, <3>6, <3>7, <3>8, <3>9, <3>10, <3>11, <3>12, <3>13, <3>14, <3>15 DEF ChatGoes, Went
  <2> QED
    BY <2>1, <2>2
<1>3. \A s \in Requests : Fits(req'[s], cancelledNow, db'.seq)
  <2> SUFFICES ASSUME NEW s \in Requests, s # r PROVE Fits(req'[s], cancelledNow, db'.seq)
    BY <1>2
  <2>1. req'[s] = req[s]
    BY <1>0, OthersStay
  <2>2. Fits(req[s], cancelled, db.seq)
    BY <1>1
  <2>3. Fits(req[s], cancelledNow, db'.seq)
    <3> HIDE DEF cancelled, cancelledNow
    <3> QED
      BY <1>0, <1>c, <2>2
  <2> QED
    BY <2>1, <2>3
<1> QED
  BY <1>3 DEF ChatStatement, RunsTurn, Cancels, Writing, At, HasLocals

\* A run begins on a job that waits, and so on one that no other runs.
LEMMA RunsGoesOn ==
    ASSUME ChatInv, NEW r \in Requests, ChatMove(r)
    PROVE  /\ RunsTurn(r)' => RunsTurn(r) \/ (Went(r, "runTurn", "graph") /\ db.turn.status \in {"QUEUED", "RETRY"})
           /\ Cancels(r)' => Cancels(r) \/ db.turn.status \in Active
           /\ Writing(r)' => req'[r].v.id = db.seq + 1
<1>0. HistoryOK /\ ChatShape /\ ChatStatement(r)
  BY DEF ChatInv
<1>1. CASE ArriveChat(r)
  BY <1>0, <1>1, ChatMoves DEF ChatHandlers, RunsTurn, Cancels, Writing
<1>2. CASE ~ArriveChat(r)
  <2>1. \A w : w = req'[r].v => ChatGoes(r, w)
    BY <1>0, <1>2, ChatGoesTo
  <2> DEFINE w == req'[r].v
  <2>2. ChatGoes(r, w)
    BY <2>1
  <2> HIDE DEF w
  <2>3. \A kind \in EventKinds : AfterEmit(kind) \in {"graph", "finishTurn", "failFinal", "cancelRow"}
    BY DEF EventKinds, AfterEmit
  <2>4. req[r].at = "emitted" => req[r].v.kind \in EventKinds
    BY <1>0 DEF ChatStatement
  <2>5. Writing(r)' => w.id = db.seq + 1
    BY <2>2, <2>3, <2>4 DEF ChatGoes, Went, Writing, Ends
  <2>6. RunsTurn(r)' => RunsTurn(r) \/ (Went(r, "runTurn", "graph") /\ db.turn.status \in {"QUEUED", "RETRY"})
    BY <2>2, <2>3, <2>4 DEF ChatGoes, Went, RunsTurn, Ends
  <2>7. Cancels(r)' => Cancels(r) \/ db.turn.status \in Active
    BY <2>2, <2>3, <2>4 DEF ChatGoes, Went, Cancels, Ends
  <2> QED
    BY <2>5, <2>6, <2>7 DEF w
<1> QED
  BY <1>1, <1>2

LEMMA OneRunsItStep ==
    ASSUME ChatInv, NEW r \in Requests, ChatMove(r)
    PROVE  OneRunsIt'
<1>0. /\ HistoryOK /\ ChatShape /\ Moves(r) /\ OneRunsIt /\ StatusMoves(r) /\ Concludes(r)
      /\ \A s \in Requests : ChatStatement(s)
  BY ChatMoves, ChatTablesStep DEF ChatInv
<1>1. \A s \in Requests \ {r} : RunsTurn(s)' = RunsTurn(s)
  BY <1>0, OthersStay DEF RunsTurn
<1>2. \A s, t \in Requests : RunsTurn(s)' /\ RunsTurn(t)' => s = t
  <2>1. CASE RunsTurn(r)' => RunsTurn(r)
    BY <1>0, <1>1, <2>1 DEF OneRunsIt
  <2>2. CASE Went(r, "runTurn", "graph") /\ db.turn.status \in {"QUEUED", "RETRY"}
    BY <1>0, <1>1, <2>2 DEF OneRunsIt
  <2> QED
    BY <2>1, <2>2, RunsGoesOn
<1>3. ASSUME NEW s \in Requests, RunsTurn(s)'
      PROVE  db'.turn.status = "RUNNING" \/ (db'.turn.status = "CANCELLED" /\ Crossed(s)')
  <2>1. CASE RunsTurn(s)
    <3>1. db.turn.status = "RUNNING" \/ (db.turn.status = "CANCELLED" /\ Crossed(s))
      BY <1>0, <2>1 DEF OneRunsIt
    <3>2. CASE db.turn.status = "CANCELLED" /\ Crossed(s)
      BY <1>0, <3>2, StatusStays, CrossedStays
    <3>3. CASE db.turn.status = "RUNNING" /\ db'.turn.status = "RUNNING"
      BY <3>3
    <3>4. CASE Went(r, "cancelCommit", "ok") /\ db'.turn.status = "CANCELLED"
      <4>1. Crossed(s)
        BY <1>0, <2>1, <3>4, CancelCrosses DEF Cancels, Went
      <4> QED
        BY <1>0, <3>4, <4>1, CrossedStays
    <3>5. CASE \/ Went(r, "finishTurn", "ok")
               \/ Went(r, "failFinal", "ok")
               \/ Went(r, "failTurn", "refused")
      <4>1. RunsTurn(r) /\ ~RunsTurn(r)'
        BY <3>5 DEF Went, RunsTurn
      <4> QED
        BY <1>0, <1>3, <2>1, <4>1 DEF OneRunsIt
    <3> QED
      BY <1>0, <3>1, <3>2, <3>3, <3>4, <3>5 DEF StatusMoves
  <2>2. CASE ~RunsTurn(s)
    <3>1. s = r
      BY <1>1, <1>3, <2>2
    <3>2. Went(r, "runTurn", "graph") /\ db.turn.status \in {"QUEUED", "RETRY"}
      BY <1>3, <2>2, <3>1, RunsGoesOn
    <3> QED
      BY <1>0, <3>2 DEF Concludes
  <2> QED
    BY <2>1, <2>2
<1> QED
  BY <1>2, <1>3 DEF OneRunsIt

LEMMA SaysTheEndNow ==
    ASSUME ChatInv, NEW r \in Requests, ChatMove(r), NEW e \in db'.chat, SaysTheEnd(e)'
    PROVE  /\ e \in db.chat
           /\ \/ SaysTheEnd(e)
              \/ e.by = r /\ (Went(r, "finishTurn", "ok") /\ e.kind = "done")
              \/ e.by = r /\ (Went(r, "failFinal", "ok") /\ e.kind = "error")
<1>0. /\ HistoryOK /\ ChatShape /\ Moves(r) /\ EndingsAreTrue /\ Concludes(r) /\ ChatStatement(r)
      /\ db'.chat = db.chat \/ \E kind \in EventKinds : Shows(r, kind)
  BY ChatMoves, ChatTablesStep DEF ChatInv
<1>1. e.kind \in {"done", "error"} /\ req'[e.by].at = "ok"
  BY DEF SaysTheEnd, At
<1>2. e \in db.chat
  <2> SUFFICES ASSUME NEW kind \in EventKinds, Shows(r, kind), e = ChatRow(req[r].v.id, kind, r)
               PROVE  FALSE
    BY <1>0 DEF Shows
  <2>1. e.kind = kind /\ e.by = r
    BY DEF ChatRow
  <2>2. req'[r].at \in {"finishTurn", "failFinal"}
    BY <1>1, <2>1 DEF Shows, Went, AfterEmit
  <2> QED
    BY <1>1, <2>1, <2>2
<1>3. /\ e.kind = "done" => req[e.by].at \in {"finishTurn", "failTurn"} \cup Ends
      /\ e.kind = "error" => req[e.by].at \in {"failFinal"} \cup Ends
      /\ e.by \in Requests
  BY <1>0, <1>2 DEF EndingsAreTrue, ChatShape, ShapeOf, ChatRecord
<1>4. CASE req'[e.by] = req[e.by]
  BY <1>1, <1>2, <1>4 DEF SaysTheEnd, At
<1>5. CASE e.by = r /\ ~Ended(r)
  BY <1>0, <1>1, <1>2, <1>3, <1>5 DEF Ended, Ends, At, Went, Concludes
<1> QED
  BY <1>0, <1>2, <1>3, <1>4, <1>5, OthersStay

\* Where the run of an event that ends the turn goes.
LEMMA EnderGoes ==
    ASSUME ChatInv, NEW r \in Requests, ChatMove(r)
    PROVE  /\ req[r].at \in {"finishTurn", "failTurn"} => req'[r].at \in {"failTurn"} \cup Ends
           /\ req[r].at = "failFinal" => req'[r].at \in Ends
<1>0. HistoryOK /\ ChatShape /\ ChatStatement(r)
  BY DEF ChatInv
<1>1. CASE ArriveChat(r)
  BY <1>0, <1>1, ChatMoves DEF At
<1>2. CASE ~ArriveChat(r)
  <2>1. \A w : w = req'[r].v => ChatGoes(r, w)
    BY <1>0, <1>2, ChatGoesTo
  <2> DEFINE w == req'[r].v
  <2>2. ChatGoes(r, w)
    BY <2>1
  <2> HIDE DEF w
  <2> QED
    BY <2>2 DEF ChatGoes, Went
<1> QED
  BY <1>1, <1>2

LEMMA EndingsStep ==
    ASSUME ChatInv, NEW r \in Requests, ChatMove(r)
    PROVE  EndingsAreTrue'
<1>0. /\ HistoryOK /\ ChatShape /\ Moves(r) /\ EndingsAreTrue /\ Concludes(r) /\ StatusMoves(r)
      /\ ChatStatement(r) /\ OneRunsIt /\ CancelsCross
      /\ db'.chat = db.chat \/ \E kind \in EventKinds : Shows(r, kind)
  BY ChatMoves, ChatTablesStep DEF ChatInv
<1>1. \A s \in Requests : Crossed(s) => Crossed(s)'
  BY <1>0, CrossedStays
<1> SUFFICES ASSUME NEW e \in db'.chat
             PROVE  /\ e.kind = "cancelled" => db'.turn.status = "CANCELLED"
                    /\ e.kind = "done" => req'[e.by].at \in {"finishTurn", "failTurn"} \cup Ends
                    /\ e.kind = "error" => req'[e.by].at \in {"failFinal"} \cup Ends
                    /\ SaysTheEnd(e)' => db'.turn.status = Outcome(e.kind) \/ Crossed(e.by)'
  BY DEF EndingsAreTrue
<1>2. ASSUME SaysTheEnd(e)'
      PROVE  db'.turn.status = Outcome(e.kind) \/ Crossed(e.by)'
  <2>1. e \in db.chat /\ e.by \in Requests /\ e.kind \in {"done", "error"}
    BY <1>0, <1>2, SaysTheEndNow DEF ChatShape, ShapeOf, ChatRecord, SaysTheEnd
  <2>2. CASE SaysTheEnd(e)
    <3>1. db.turn.status = Outcome(e.kind) \/ Crossed(e.by)
      BY <1>0, <2>1, <2>2 DEF EndingsAreTrue
    <3>2. CASE Crossed(e.by)
      BY <1>1, <2>1, <3>2
    <3>3. CASE db.turn.status = Outcome(e.kind)
      <4>1. db.turn.status \notin Active
        BY <3>3 DEF Outcome, Active
      <4>2. CASE db'.turn.status = db.turn.status
        BY <3>3, <4>2
      <4>3. CASE Went(r, "cancelCommit", "ok")
        <5>1. Crossed(e.by)
          BY <1>0, <2>1, <2>2, <4>1, <4>3 DEF CancelsCross, Cancels, Went
        <5> QED
          BY <1>1, <2>1, <5>1
      <4> QED
        BY <1>0, <4>1, <4>2, <4>3 DEF StatusMoves, Active
    <3> QED
      BY <3>1, <3>2, <3>3
  <2>3. CASE ~SaysTheEnd(e)
    <3>1. /\ e.by = r
          /\ (Went(r, "finishTurn", "ok") /\ e.kind = "done") \/ (Went(r, "failFinal", "ok") /\ e.kind = "error")
      BY <1>2, <2>3, SaysTheEndNow
    <3>2. RunsTurn(r)
      BY <3>1 DEF RunsTurn, Went
    <3>3. CASE db.turn.status = "RUNNING"
      BY <1>0, <3>1, <3>3 DEF Concludes, Outcome
    <3>4. CASE Crossed(r)
      BY <1>1, <3>1, <3>4
    <3> QED
      BY <1>0, <3>2, <3>3, <3>4 DEF OneRunsIt
  <2> QED
    BY <2>2, <2>3
<1>3. CASE e \in db.chat
  <2>1. /\ e.by \in Requests
        /\ e.kind = "cancelled" => db.turn.status = "CANCELLED"
        /\ e.kind = "done" => req[e.by].at \in {"finishTurn", "failTurn"} \cup Ends
        /\ e.kind = "error" => req[e.by].at \in {"failFinal"} \cup Ends
    BY <1>0, <1>3 DEF EndingsAreTrue, ChatShape, ShapeOf, ChatRecord
  <2>2. db.turn.status = "CANCELLED" => db'.turn.status = "CANCELLED"
    BY <1>0, StatusStays
  <2>3. CASE req'[e.by] = req[e.by]
    BY <1>2, <2>1, <2>2, <2>3
  <2>4. CASE e.by = r /\ ~Ended(r)
    BY <1>2, <2>1, <2>2, <2>4, EnderGoes DEF Ended, At
  <2> QED
    BY <1>0, <2>1, <2>3, <2>4, OthersStay
<1>4. CASE e \notin db.chat
  <2>1. PICK kind \in EventKinds : Shows(r, kind)
    BY <1>0, <1>4
  <2>2. e = ChatRow(req[r].v.id, kind, r)
    BY <1>4, <2>1 DEF Shows
  <2>3. e.kind = kind /\ e.by = r
    BY <2>2 DEF ChatRow
  <2>4. CASE Went(r, "emitted", AfterEmit(kind)) /\ kind = req[r].v.kind /\ db'.turn.status = db.turn.status
    <3>1. kind = "cancelled" => db.turn.status = "CANCELLED"
      BY <1>0, <2>4 DEF ChatStatement, Went
    <3> QED
      BY <1>2, <2>3, <2>4, <3>1 DEF Went, AfterEmit
  <2>5. CASE kind = "cancelled" /\ db'.turn.status = "CANCELLED"
    BY <1>2, <2>3, <2>5
  <2> QED
    BY <2>1, <2>4, <2>5 DEF Shows
<1> QED
  BY <1>3, <1>4

LEMMA CancelsCrossStep ==
    ASSUME ChatInv, NEW r \in Requests, ChatMove(r)
    PROVE  CancelsCross'
<1>0. /\ HistoryOK /\ ChatShape /\ Moves(r) /\ EndingsAreTrue /\ StatusMoves(r) /\ CancelsCross
      /\ \A s \in Requests : ChatStatement(s)
  BY ChatMoves, ChatTablesStep DEF ChatInv
<1>1. \A s \in Requests : Crossed(s) => Crossed(s)'
  BY <1>0, CrossedStays
<1> SUFFICES ASSUME NEW c \in Requests, Cancels(c)'
             PROVE  db'.turn.status \in Active \/ \A e \in db'.chat : SaysTheEnd(e)' => Crossed(e.by)'
  BY DEF CancelsCross
<1>2. CASE Cancels(c)
  <2> SUFFICES ASSUME NEW e \in db'.chat, SaysTheEnd(e)'
               PROVE  Crossed(e.by)'
    OBVIOUS
  <2>1. e \in db.chat /\ e.by \in Requests /\ e.kind \in {"done", "error"}
    BY <1>0, SaysTheEndNow DEF ChatShape, ShapeOf, ChatRecord, SaysTheEnd
  <2>2. Crossed(e.by)
    <3>1. CASE SaysTheEnd(e)
      <4>1. db.turn.status = Outcome(e.kind) \/ Crossed(e.by)
        BY <1>0, <2>1, <3>1 DEF EndingsAreTrue
      <4>2. Outcome(e.kind) \notin Active
        BY DEF Outcome, Active
      <4> QED
        BY <1>0, <1>2, <2>1, <3>1, <4>1, <4>2 DEF CancelsCross
    <3>2. CASE ~SaysTheEnd(e)
      <4>1. e.by = r /\ (Went(r, "finishTurn", "ok") \/ Went(r, "failFinal", "ok"))
        BY <3>2, SaysTheEndNow
      <4>2. RunsTurn(r)
        BY <4>1 DEF RunsTurn, Went
      <4> QED
        BY <1>0, <1>2, <4>1, <4>2, CancelCrosses
    <3> QED
      BY <3>1, <3>2
  <2> QED
    BY <1>1, <2>1, <2>2
<1>3. CASE ~Cancels(c)
  <2>1. c = r
    BY <1>0, <1>3, OthersStay DEF Cancels
  <2>2. db.turn.status \in Active
    BY <1>3, <2>1, RunsGoesOn
  <2>3. db'.turn.status = db.turn.status \/ db'.turn.status = "RUNNING"
    BY <1>0, <2>1 DEF StatusMoves, Went, Cancels
  <2> QED
    BY <2>2, <2>3 DEF Active
<1> QED
  BY <1>2, <1>3

LEMMA LateOnesMeetStep ==
    ASSUME ChatInv, NEW r \in Requests, ChatMove(r)
    PROVE  LateOnesMeet'
<1>0. /\ HistoryOK /\ ChatShape /\ Moves(r) /\ LateOnesMeet
      /\ \A s \in Requests : ChatStatement(s)
      /\ db'.chat = db.chat \/ \E kind \in EventKinds : Shows(r, kind)
      /\ db.seq \in Nat
  BY ChatMoves, ChatTablesStep DEF ChatInv, ChatShape, ShapeOf
<1> SUFFICES ASSUME NEW w \in Requests, Writing(w)', NEW f \in db'.chat, f.id >= req'[w].v.id
             PROVE  Met(w, f.by)'
  BY DEF LateOnesMeet
<1>1. f \in db.chat => f.id \in Nat /\ f.id <= db.seq /\ f.by \in Requests
  BY <1>0 DEF ChatShape, ShapeOf, ChatRecord
<1>2. CASE w = r
  <2>1. req'[r].v.id = db.seq + 1
    BY <1>2, RunsGoesOn
  <2>2. \A kind \in EventKinds : ~Shows(r, kind)
    BY <1>2 DEF Shows, Went, Writing, EventKinds, AfterEmit
  <2> QED
    BY <1>0, <1>1, <1>2, <2>1, <2>2
<1>3. CASE w # r
  <2>1. req'[w] = req[w]
    BY <1>0, <1>3, OthersStay
  <2>2. Writing(w)
    BY <2>1 DEF Writing
  <2>3. CASE f \in db.chat
    <3>1. Met(w, f.by)
      BY <1>0, <2>1, <2>2, <2>3 DEF LateOnesMeet
    <3> QED
      BY <1>0, <1>1, <2>3, <3>1, MetStays
  <2>4. CASE f \notin db.chat
    <3>1. PICK kind \in EventKinds : Shows(r, kind)
      BY <1>0, <2>4
    <3>2. f = ChatRow(req[r].v.id, kind, r)
      BY <2>4, <3>1 DEF Shows
    <3>3. f.by = r /\ Writing(r)
      BY <3>1, <3>2 DEF ChatRow, Shows, Went, Writing
    <3>4. Met(w, r)
      BY <1>0, <1>3, <2>2, <3>3, OpenMeet DEF Writing, Open, Ended, Ends, At
    <3>5. Met(w, r)'
      BY <1>0, <3>4, MetStays
    <3> QED
      BY <3>3, <3>5
  <2> QED
    BY <2>3, <2>4
<1> QED
  BY <1>2, <1>3

\* What a client has, whatever happens elsewhere.
LEMMA ClientStays ==
    ASSUME ChatInv, NEW r \in Requests, ChatMove(r), NEW s \in Requests, db'.client[s] = db.client[s]
    PROVE  ClientHas(s)'
<1>0. /\ HistoryOK /\ ChatShape /\ Moves(r) /\ LateOnesMeet /\ StatusMoves(r)
      /\ \A t \in Requests : ChatStatement(t) /\ ClientHas(t)
      /\ db'.chat = db.chat \/ \E kind \in EventKinds : Shows(r, kind)
  BY ChatMoves, ChatTablesStep DEF ChatInv
<1> DEFINE client == db.client[s]
<1>1. /\ client.after \in Nat /\ client.seen \subseteq db.chat
      /\ \A e \in db.chat : e.id \in Nat \ {0} /\ e.by \in Requests
  BY <1>0 DEF ChatShape, ShapeOf, ChatRecord
<1>2. /\ client.after = 0 \/ \E f \in client.seen : f.id = client.after
      /\ \A e \in db.chat : e.id <= client.after => e \in client.seen \/ \E f \in client.seen : Met(e.by, f.by)
      /\ client.told = "cancelled" => db.turn.status = "CANCELLED"
      /\ client.told = "204" => db.turn.status \notin Active
  BY <1>0 DEF ClientHas
<1> HIDE DEF client
<1>3. \A t, u \in Requests : Met(t, u) => Met(t, u)'
  BY <1>0, MetStays
<1>4. ASSUME NEW e \in db'.chat, e.id <= client.after
      PROVE  e \in client.seen \/ \E f \in client.seen : Met(e.by, f.by)'
  <2>1. CASE e \in db.chat
    BY <1>1, <1>2, <1>3, <1>4, <2>1
  <2>2. CASE e \notin db.chat
    <3>1. PICK kind \in EventKinds : Shows(r, kind)
      BY <1>0, <2>2
    <3>2. e = ChatRow(req[r].v.id, kind, r)
      BY <2>2, <3>1 DEF Shows
    <3>3. e.by = r /\ e.id = req[r].v.id /\ Writing(r)
      BY <3>1, <3>2 DEF ChatRow, Shows, Went, Writing
    <3>4. e.id \in Nat \ {0}
      BY <1>0, <3>3 DEF ChatStatement
    <3>5. PICK f \in client.seen : f.id = client.after
      BY <1>1, <1>2, <1>4, <3>4
    <3>6. Met(r, f.by)
      BY <1>0, <1>1, <1>4, <3>3, <3>5 DEF LateOnesMeet
    <3> QED
      BY <1>1, <1>3, <3>3, <3>5, <3>6
  <2> QED
    BY <2>1, <2>2
<1>5. /\ client.told = "cancelled" => db'.turn.status = "CANCELLED"
      /\ client.told = "204" => db'.turn.status \notin Active
  BY <1>0, <1>2, StatusStays
<1> QED
  BY <1>2, <1>4, <1>5 DEF ClientHas, client

LEMMA ClientGets ==
    ASSUME ChatInv, NEW r \in Requests, ChatMove(r), db'.client[r] # db.client[r]
    PROVE  ClientHas(r)'
<1>0. /\ HistoryOK /\ ChatShape /\ Moves(r) /\ ShapeOf(db)
      /\ EndingsAreTrue /\ ClientHas(r)
      /\ db'.turn.status = db.turn.status /\ db'.chat = db.chat
      /\ StreamActive(r) \/ Poll(r)
  BY ChatMoves, ChatTablesStep DEF ChatInv, ChatShape
<1>1. \A t, u \in Requests : Met(t, u) => Met(t, u)'
  BY <1>0, MetStays
<1> DEFINE had == db.client[r]
           has == db'.client[r]
<1>2. /\ had.after \in Nat /\ had.seen \subseteq db.chat /\ DOMAIN had = {"after", "seen", "told"}
      /\ \A e \in db.chat : e.id \in Nat \ {0} /\ e.by \in Requests
  BY <1>0 DEF ShapeOf, ChatRecord
<1>3. /\ had.after = 0 \/ \E f \in had.seen : f.id = had.after
      /\ \A e \in db.chat : e.id <= had.after => e \in had.seen \/ \E f \in had.seen : Met(e.by, f.by)'
      /\ had.told = "cancelled" => db.turn.status = "CANCELLED"
  BY <1>0, <1>1, <1>2 DEF ClientHas
<1>4. CASE StreamActive(r)
  <2> DEFINE client == [had EXCEPT !.told = "204"]
  <2>1. /\ client.after = had.after /\ client.seen = had.seen /\ client.told = "204"
        /\ DOMAIN client = {"after", "seen", "told"}
    BY <1>2
  <2>2. db' = [db EXCEPT !.client[r].told = "204"] /\ db.turn.status \notin Active
    <3>1. \A statement, v, tables : Do(r, statement, v, tables) => db' = tables
      BY <1>0, DoEffect
    <3> QED
      BY <1>4, <3>1 DEF StreamActive, GoOn, End
  <2>3. db' = [db EXCEPT !.client[r] = client]
    BY <2>2
  <2> HIDE DEF client, had
  <2>4. has = client
    BY <1>0, <1>2, <2>1, <2>3, ClientSet
  <2> HIDE DEF has
  <2>5. /\ has.after = 0 \/ \E f \in has.seen : f.id = has.after
        /\ \A e \in db'.chat : e.id <= has.after => e \in has.seen \/ \E f \in has.seen : Met(e.by, f.by)'
        /\ has.told = "204" /\ db'.turn.status \notin Active
    BY <1>0, <1>3, <2>1, <2>2, <2>4
  <2> QED
    BY <2>5 DEF ClientHas, has
<1>5. CASE Poll(r)
  <2> DEFINE unread == UpToClosing(Unread(r))
  <2>1. PICK last \in {e.id : e \in unread} \cup {had.after} :
          \E sent, ends, told :
            /\ sent = {e \in unread : e.id <= last}
            /\ ends = {e.kind : e \in sent} \cap Closing
            /\ told \in ends \cup {Nil}
            /\ db' = [db EXCEPT !.client[r] = [after |-> last, seen |-> had.seen \cup sent, told |-> told]]
    BY <1>0, <1>5, PollEffect
  <2>2. PICK sent, ends, told :
            /\ sent = {e \in unread : e.id <= last}
            /\ ends = {e.kind : e \in sent} \cap Closing
            /\ told \in ends \cup {Nil}
            /\ db' = [db EXCEPT !.client[r] = [after |-> last, seen |-> had.seen \cup sent, told |-> told]]
    BY <2>1
  <2>3. unread = {e \in db.chat : /\ e.id > had.after
                                  /\ \A f \in db.chat : f.id > had.after /\ f.kind \in Closing => e.id <= f.id}
    BY DEF Unread, UpToClosing
  <2> HIDE DEF unread, had
  <2>4. last \in Nat /\ last >= had.after /\ sent \subseteq db.chat
    BY <1>2, <2>1, <2>2, <2>3
  <2>5. ASSUME NEW e \in db.chat, e.id > had.after, e.id <= last
        PROVE  e \in sent
    <3>1. PICK g \in unread : g.id = last
      BY <1>2, <2>1, <2>5
    <3>2. e \in unread
      BY <1>2, <2>3, <2>5, <3>1
    <3> QED
      BY <2>2, <2>5, <3>2
  <2>6. last = 0 \/ \E f \in had.seen \cup sent : f.id = last
    <3>1. CASE last = had.after
      BY <1>3, <3>1
    <3>2. CASE last # had.after
      <4>1. PICK g \in unread : g.id = last
        BY <2>1, <3>2
      <4>2. g \in sent
        BY <1>2, <2>2, <2>3, <4>1
      <4> QED
        BY <4>1, <4>2
    <3> QED
      BY <3>1, <3>2
  <2>7. told = "cancelled" => db.turn.status = "CANCELLED"
    <3>1. told = "cancelled" => \E e \in sent : e.kind = "cancelled"
      BY <2>2, ChatAssumption
    <3> QED
      BY <1>0, <2>4, <3>1 DEF EndingsAreTrue
  <2>8. told # "204"
    BY <2>2, ChatAssumption DEF Closing
  <2> DEFINE got == [after |-> last, seen |-> had.seen \cup sent, told |-> told]
  <2>9. /\ DOMAIN got = {"after", "seen", "told"} /\ got.after = last /\ got.seen = had.seen \cup sent
        /\ got.told = told
    OBVIOUS
  <2>10. db' = [db EXCEPT !.client[r] = got]
    BY <2>2
  <2> HIDE DEF got
  <2>11. has = got
    <3>1. got.after \in Nat /\ got.seen \subseteq db.chat
      BY <1>2, <2>4, <2>9
    <3> QED
      BY <1>0, <2>9, <2>10, <3>1, ClientSet
  <2> HIDE DEF has
  <2>12. ASSUME NEW e \in db'.chat, e.id <= has.after
         PROVE  e \in has.seen \/ \E f \in has.seen : Met(e.by, f.by)'
    <3>1. e \in db.chat /\ e.id <= last /\ has.seen = had.seen \cup sent
      BY <1>0, <2>9, <2>11, <2>12
    <3>2. CASE e.id > had.after
      BY <2>5, <3>1, <3>2
    <3>3. CASE ~(e.id > had.after)
      BY <1>2, <1>3, <3>1, <3>3
    <3> QED
      BY <3>2, <3>3
  <2>13. /\ has.after = 0 \/ \E f \in has.seen : f.id = has.after
         /\ has.told = "cancelled" => db'.turn.status = "CANCELLED"
         /\ has.told # "204"
    BY <1>0, <2>6, <2>7, <2>8, <2>9, <2>11
  <2> QED
    BY <2>12, <2>13 DEF ClientHas, has
<1> QED
  BY <1>0, <1>4, <1>5

LEMMA ChatInvStep ==
    ASSUME ChatInv, NEW r \in Requests, ChatMove(r)
    PROVE  ChatInv'
<1>0. HistoryOK /\ ChatShape /\ ChatStatement(r)
  BY DEF ChatInv
<1>1. HistoryOK' /\ ChatShape'
  BY <1>0, ChatMoves, HistoryStep, ChatTablesStep
<1>2. ASSUME NEW s \in Requests
      PROVE  ClientHas(s)'
  <2>1. CASE db'.client[s] = db.client[s]
    BY <2>1, ClientStays
  <2>2. CASE db'.client[s] # db.client[s]
    <3>1. s = r
      BY <1>0, <2>2, ChatTablesStep
    <3> QED
      BY <2>2, <3>1, ClientGets
  <2> QED
    BY <2>1, <2>2
<1>3. \A s \in Requests : ChatStatement(s)'
  BY ChatStatementStep
<1> QED
  BY <1>1, <1>2, <1>3, OneRunsItStep, EndingsStep, CancelsCrossStep, LateOnesMeetStep DEF ChatInv

\* Nobody runs the job that the dispatcher takes back.
LEMMA RequeueKeeps == ChatInv /\ RequeueTurn => ChatInv'
<1> SUFFICES ASSUME ChatInv, RequeueTurn PROVE ChatInv'
  OBVIOUS
<1>0. /\ HistoryOK /\ ChatShape /\ OneRunsIt /\ EndingsAreTrue /\ CancelsCross /\ LateOnesMeet
      /\ \A r \in Requests : ChatStatement(r) /\ ClientHas(r)
      /\ req' = req /\ prior' = prior /\ db.turn.status = "RUNNING"
  BY DEF ChatInv, RequeueTurn, IsRunning
<1>1. /\ ShapeOf(db') /\ db'.turn.status \in {"DEAD", "RETRY"} /\ db'.chat = db.chat
      /\ db'.seq = db.seq /\ db'.client = db.client
  BY <1>0, TriedAgainSet DEF RequeueTurn
<1>2. \A r \in Requests : ~RunsTurn(r)
  BY <1>0 DEF RequeueTurn, ChatStatement, Doing, RunsTurn, Open, Ended, Ends, At
<1>3. HistoryOK' /\ ChatShape'
  BY <1>0, <1>1 DEF HistoryOK, RequestShape, PriorHasEnded, Ended, At, ChatShape
<1>4. \A r, s : Met(r, s)' = Met(r, s)
  BY <1>0 DEF Met, At
<1>5. \A r : Crossed(r)' = Crossed(r)
  BY <1>0, <1>4 DEF Crossed, MetAny
<1>6. \A r \in Requests : ChatStatement(r)'
  BY <1>0, <1>1, <1>2 DEF ChatStatement, RunsTurn, Cancels, Writing, At
<1>7. OneRunsIt' /\ LateOnesMeet'
  BY <1>0, <1>1, <1>2, <1>4 DEF OneRunsIt, LateOnesMeet, RunsTurn, Writing
<1>8. EndingsAreTrue'
  <2>1. \A e \in db.chat : SaysTheEnd(e) => Crossed(e.by)
    BY <1>0 DEF EndingsAreTrue, Outcome
  <2> QED
    BY <1>0, <1>1, <1>5, <2>1 DEF EndingsAreTrue, SaysTheEnd, At
<1>9. CancelsCross'
  <2>1. \A e \in db.chat : SaysTheEnd(e) => Crossed(e.by)
    BY <1>0 DEF EndingsAreTrue, Outcome
  <2> QED
    BY <1>0, <1>1, <1>5, <2>1 DEF CancelsCross, SaysTheEnd, At
<1>10. \A r \in Requests : ClientHas(r)'
  BY <1>0, <1>1, <1>4 DEF ClientHas, Active
<1> QED
  BY <1>3, <1>6, <1>7, <1>8, <1>9, <1>10 DEF ChatInv

LEMMA ChatInvHolds == ChatInv => StreamIsTrue
<1> SUFFICES ASSUME ChatInv, NEW r \in Requests
             PROVE  LET client == db.client[r] IN
                    /\ client.told = "cancelled" => db.turn.status = "CANCELLED"
                    /\ client.told = "204" => db.turn.status \notin Active
                    /\ client.told \in {"done", "error"} =>
                          \A e \in client.seen : e.kind = client.told =>
                              db.turn.status = Outcome(e.kind) \/ ~At(e.by, "ok") \/ Crossed(e.by)
                    /\ \A e \in db.chat : e.id < client.after =>
                          e \in client.seen \/ \E f \in client.seen : Met(e.by, f.by)
  BY DEF StreamIsTrue, Doing
<1> DEFINE client == db.client[r]
<1>1. client.seen \subseteq db.chat /\ client.after \in Nat /\ \A e \in db.chat : e.id \in Nat
  BY DEF ChatInv, ChatShape, ShapeOf, ChatRecord
<1>2. ClientHas(r) /\ EndingsAreTrue
  BY DEF ChatInv
<1>3. \A e \in client.seen : e.kind \in {"done", "error"} =>
          db.turn.status = Outcome(e.kind) \/ ~At(e.by, "ok") \/ Crossed(e.by)
  BY <1>1, <1>2 DEF EndingsAreTrue, SaysTheEnd
<1> QED
  BY <1>1, <1>2, <1>3 DEF ClientHas

\* A client is told the truth, and nothing is skipped, whatever runs, cancels and
\* clients there are, wherever they are dropped.
THEOREM StreamsAreTrue == ChatSpec => []StreamIsTrue
<1>1. ChatInv /\ [(\E r \in Requests : ChatMove(r)) \/ RequeueTurn]_vars => ChatInv'
  <2> SUFFICES ASSUME ChatInv, [(\E r \in Requests : ChatMove(r)) \/ RequeueTurn]_vars PROVE ChatInv'
    OBVIOUS
  <2>1. CASE \E r \in Requests : ChatMove(r)
    BY <2>1, ChatInvStep
  <2>2. CASE RequeueTurn
    BY <2>2, RequeueKeeps
  <2>3. CASE UNCHANGED vars
    BY <2>3 DEF vars, ChatInv, HistoryOK, RequestShape, PriorHasEnded, ChatShape, ChatStatement, RunsTurn, Cancels,
                Writing, OneRunsIt, EndingsAreTrue, SaysTheEnd, CancelsCross, LateOnesMeet, ClientHas, Crossed,
                MetAny, Met, Ended, At
  <2> QED
    BY <2>1, <2>2, <2>3
<1> QED
  BY <1>1, ChatInvInit, ChatInvHolds, PTL DEF ChatSpec

-----------------------------------------------------------------------------
(***************************************************************************)
(* Listings: pages of any size, any number of rows, clients and writers.   *)
(***************************************************************************)

\* R orders S strictly and totally.
IsOrder(R, S) ==
    /\ \A i \in S : <<i, i>> \notin R
    /\ \A i, j, k \in S : <<i, j>> \in R /\ <<j, k>> \in R => <<i, k>> \in R
    /\ \A i, j \in S : i = j \/ <<i, j>> \in R \/ <<j, i>> \in R

Below(R, S, i) == {j \in S : <<j, i>> \in R}

\* Any of a finite set's subsets has a first element.
LEMMA HasFirst ==
    ASSUME NEW S, IsFiniteSet(S), NEW R, IsOrder(R, S), NEW X, X \subseteq S, X # {}
    PROVE  \E f \in X : \A j \in X \ {f} : <<f, j>> \in R
<1> DEFINE T == {Below(R, S, i) : i \in X}
<1>1. T \subseteq FiniteSubsetsOf(S) /\ T # {}
  <2>1. \A i \in X : Below(R, S, i) \in SUBSET S
    BY DEF Below
  <2>2. \A i \in X : IsFiniteSet(Below(R, S, i))
    BY <2>1, FS_Subset
  <2> QED
    BY <2>1, <2>2 DEF FiniteSubsetsOf
<1>2. PICK m \in T : \A y \in T : ~(<<y, m>> \in StrictSubsetOrdering(S))
  <2> HIDE DEF T
  <2> QED
    BY <1>1, FS_StrictSubsetOrderingWellFounded, WFMin
<1>3. PICK f \in X : m = Below(R, S, f)
  OBVIOUS
<1>4. ASSUME NEW j \in X, <<j, f>> \in R
      PROVE  FALSE
  <2>1. Below(R, S, j) \subseteq Below(R, S, f)
    BY <1>4 DEF Below, IsOrder
  <2>2. j \in Below(R, S, f) /\ j \notin Below(R, S, j)
    BY <1>4 DEF Below, IsOrder
  <2>3. <<Below(R, S, j), m>> \in StrictSubsetOrdering(S)
    BY <1>3, <2>1, <2>2 DEF StrictSubsetOrdering, Below
  <2> QED
    BY <1>2, <2>3
<1> QED
  BY <1>4 DEF IsOrder

LEMMA HasLast ==
    ASSUME NEW S, IsFiniteSet(S), NEW R, IsOrder(R, S), NEW X, X \subseteq S, X # {}
    PROVE  \E f \in X : \A j \in X \ {f} : <<j, f>> \in R
<1> DEFINE Q == {p \in S \X S : <<p[2], p[1]>> \in R}
<1>1. \A i, j \in S : <<i, j>> \in Q <=> <<j, i>> \in R
  OBVIOUS
<1> HIDE DEF Q
<1>2. IsOrder(Q, S)
  BY <1>1 DEF IsOrder
<1>3. PICK f \in X : \A j \in X \ {f} : <<f, j>> \in Q
  BY <1>2, HasFirst
<1> QED
  BY <1>1, <1>3

LEMMA BelowCounts ==
    ASSUME NEW S, IsFiniteSet(S), NEW R, IsOrder(R, S), NEW i \in S, NEW j \in S, <<i, j>> \in R
    PROVE  Cardinality(Below(R, S, i)) < Cardinality(Below(R, S, j))
<1>1. Below(R, S, i) \subseteq Below(R, S, j) \ {i}
  BY DEF Below, IsOrder
<1>2. i \in Below(R, S, j) /\ IsFiniteSet(Below(R, S, j))
  BY FS_Subset DEF Below
<1>3. /\ IsFiniteSet(Below(R, S, j) \ {i})
      /\ Cardinality(Below(R, S, j) \ {i}) = Cardinality(Below(R, S, j)) - 1
  BY <1>2, FS_RemoveElement
<1>4. Cardinality(Below(R, S, i)) <= Cardinality(Below(R, S, j) \ {i})
  BY <1>1, <1>3, FS_Subset
<1>5. Cardinality(Below(R, S, j)) \in Nat /\ Cardinality(Below(R, S, i)) \in Nat
  BY <1>1, <1>2, <1>3, FS_Subset, FS_CardinalityType
<1> QED
  BY <1>3, <1>4, <1>5

\* The first n of S.
FirstOf(R, S, n) == {i \in S : Cardinality(Below(R, S, i)) < n}

\* They come before all others; and they are all of S, or n of them at least.
LEMMA FirstComeFirst ==
    ASSUME NEW S, IsFiniteSet(S), NEW R, IsOrder(R, S), NEW n \in Nat,
           NEW i \in FirstOf(R, S, n), NEW j \in S \ FirstOf(R, S, n)
    PROVE  <<i, j>> \in R
<1>1. \A k \in S : Cardinality(Below(R, S, k)) \in Nat
  BY FS_Subset, FS_CardinalityType DEF Below
<1>2. <<j, i>> \notin R /\ i # j
  BY <1>1, BelowCounts DEF FirstOf
<1> QED
  BY <1>2 DEF IsOrder, FirstOf

LEMMA FirstAreAll ==
    ASSUME NEW S, IsFiniteSet(S), NEW R, IsOrder(R, S), NEW n \in Nat,
           Cardinality(FirstOf(R, S, n)) < n
    PROVE  FirstOf(R, S, n) = S
<1> DEFINE F == FirstOf(R, S, n)
<1>1. F \subseteq S /\ IsFiniteSet(F)
  BY FS_Subset DEF FirstOf
<1> SUFFICES ASSUME F # S PROVE FALSE
  OBVIOUS
<1>2. PICK x \in S \ F : \A j \in (S \ F) \ {x} : <<x, j>> \in R
  <2>1. S \ F # {} /\ S \ F \subseteq S
    BY <1>1
  <2> HIDE DEF F
  <2> QED
    BY <2>1, HasFirst
<1>3. Below(R, S, x) \subseteq F
  BY <1>2 DEF Below, IsOrder
<1>4. Cardinality(Below(R, S, x)) <= Cardinality(F)
  BY <1>1, <1>3, FS_Subset
<1>5. ~(Cardinality(Below(R, S, x)) < n)
  BY <1>2 DEF FirstOf
<1>6. Cardinality(Below(R, S, x)) \in Nat /\ Cardinality(F) \in Nat
  BY <1>1, <1>3, FS_Subset, FS_CardinalityType
<1> QED
  BY <1>4, <1>5, <1>6

LEMMA AllAreFirst ==
    ASSUME NEW S, IsFiniteSet(S), NEW R, IsOrder(R, S), NEW n \in Nat, Cardinality(S) <= n
    PROVE  FirstOf(R, S, n) = S
<1> SUFFICES ASSUME NEW i \in S PROVE Cardinality(Below(R, S, i)) < n
  BY DEF FirstOf
<1>1. Below(R, S, i) \subseteq S \ {i}
  BY DEF Below, IsOrder
<1>2. IsFiniteSet(S \ {i}) /\ Cardinality(S \ {i}) = Cardinality(S) - 1
  BY FS_RemoveElement
<1>3. Cardinality(Below(R, S, i)) <= Cardinality(S \ {i})
  BY <1>1, <1>2, FS_Subset
<1>4. Cardinality(Below(R, S, i)) \in Nat /\ Cardinality(S) \in Nat
  BY <1>1, <1>2, FS_Subset, FS_CardinalityType
<1> QED
  BY <1>2, <1>3, <1>4

LEMMA FirstIsThere ==
    ASSUME NEW S, IsFiniteSet(S), NEW R, IsOrder(R, S), NEW n \in Nat \ {0}, S # {}
    PROVE  FirstOf(R, S, n) # {}
<1>1. PICK f \in S : \A j \in S \ {f} : <<f, j>> \in R
  BY HasFirst
<1>2. Below(R, S, f) = {}
  BY <1>1 DEF Below, IsOrder
<1> QED
  BY <1>2, FS_EmptySet DEF FirstOf

-----------------------------------------------------------------------------
(***************************************************************************)
(* One page.                                                               *)
(***************************************************************************)

ListShape == "listed" \in DOMAIN db /\ db.listed \in [Uuids -> ListedRow \cup {Nil}]

Clocks == {"created", "updated"}
OrderOf(l) == {p \in Uuids \X Uuids : Precedes(l, p[1], p[2])}

LEMMA KeysetShape ==
    ASSUME NEW c
    PROVE  /\ Keyset(c).order = <<c>> /\ Keyset(c).after = c /\ Keyset(c).stamp = c
           /\ ~Keyset(c).drops
  BY DEF Keyset, Listing

LEMMA KeysetPrecedes ==
    ASSUME ListShape, NEW c \in Clocks, NEW i \in Listed, NEW j \in Listed
    PROVE  /\ Precedes(Keyset(c), i, j) <=>
                 \/ db.listed[i][c] > db.listed[j][c]
                 \/ db.listed[i][c] = db.listed[j][c] /\ i > j
           /\ db.listed[i][c] \in Int /\ db.listed[j][c] \in Int /\ i \in Int /\ j \in Int
<1>1. db.listed[i][c] \in Int /\ db.listed[j][c] \in Int /\ i \in Int /\ j \in Int
  BY ListingAssumption DEF ListShape, Clocks, Listed, ListedRow
<1>2. 1..0 = {} /\ 1..1 = {1} /\ Len(<<c>>) = 1 /\ <<c>>[1] = c
  OBVIOUS
<1> DEFINE tied(n) == \A k \in 1..n : db.listed[i][<<c>>[k]] = db.listed[j][<<c>>[k]]
<1>3. tied(0) /\ (tied(1) <=> db.listed[i][c] = db.listed[j][c])
  <2>1. tied(0)
    BY <1>2
  <2>2. tied(1) <=> db.listed[i][<<c>>[1]] = db.listed[j][<<c>>[1]]
    BY <1>2
  <2> QED
    BY <1>2, <2>1, <2>2
<1>4. Precedes(Keyset(c), i, j) <=>
          \/ \E k \in 1..1 : tied(k - 1) /\ db.listed[i][<<c>>[k]] > db.listed[j][<<c>>[k]]
          \/ tied(1) /\ i > j
  <2>1. ASSUME NEW l, l.order = <<c>>
        PROVE  Precedes(l, i, j) <=>
                  \/ \E k \in 1..1 : tied(k - 1) /\ db.listed[i][<<c>>[k]] > db.listed[j][<<c>>[k]]
                  \/ tied(1) /\ i > j
    <3>1. Precedes(l, i, j) <=>
              \/ \E k \in 1..Len(<<c>>) : tied(k - 1) /\ db.listed[i][<<c>>[k]] > db.listed[j][<<c>>[k]]
              \/ tied(Len(<<c>>)) /\ i > j
      BY <2>1, Zenon DEF Precedes
    <3> HIDE DEF tied
    <3> QED
      BY <1>2, <3>1
  <2> QED
    BY <2>1, KeysetShape
<1> HIDE DEF tied
<1>5. (\E k \in 1..1 : tied(k - 1) /\ db.listed[i][<<c>>[k]] > db.listed[j][<<c>>[k]])
      <=> tied(0) /\ db.listed[i][c] > db.listed[j][c]
  BY <1>2
<1> QED
  BY <1>1, <1>3, <1>4, <1>5

LEMMA KeysetOrders ==
    ASSUME ListShape, NEW c \in Clocks, NEW S, S \subseteq Listed
    PROVE  IsOrder(OrderOf(Keyset(c)), S) /\ IsFiniteSet(S)
<1>1. \A i, j \in S : <<i, j>> \in OrderOf(Keyset(c)) <=> Precedes(Keyset(c), i, j)
  BY DEF OrderOf, Listed
<1>2. IsFiniteSet(S)
  BY ListingAssumption, FS_Subset DEF Listed
<1> QED
  BY <1>1, <1>2, KeysetPrecedes DEF IsOrder

LEMMA FirstInOrder ==
    ASSUME NEW l, NEW S, S \subseteq Listed, NEW n
    PROVE  First(l, S, n) = FirstOf(OrderOf(l), S, n)
<1>1. \A i \in S : {j \in S : Precedes(l, j, i)} = Below(OrderOf(l), S, i)
  BY DEF Below, OrderOf, Listed
<1> QED
  BY <1>1 DEF First, FirstOf

\* The rows that are due are the page, or there are more than it holds: then
\* the last row of the page divides those before it from the rest.
LEMMA PageDivides ==
    ASSUME ListShape, NEW c \in Clocks, NEW due, due \subseteq Listed,
           NEW rows, rows = First(Keyset(c), due, PageLimit + 1),
           NEW page, page = First(Keyset(c), rows, PageLimit)
    PROVE  /\ page \subseteq due
           /\ ~(Cardinality(rows) > PageLimit) => page = due
           /\ Cardinality(rows) > PageLimit =>
                 \E last \in page : /\ \A j \in page \ {last} : Precedes(Keyset(c), j, last)
                                    /\ \A j \in due \ page : Precedes(Keyset(c), last, j)
<1> DEFINE R == OrderOf(Keyset(c))
<1>1. rows = FirstOf(R, due, PageLimit + 1) /\ rows \subseteq due
  BY FirstInOrder DEF FirstOf
<1>2. page = FirstOf(R, rows, PageLimit) /\ page \subseteq rows
  BY <1>1, FirstInOrder DEF FirstOf
<1>3. /\ IsFiniteSet(due) /\ IsOrder(R, due)
      /\ IsFiniteSet(rows) /\ IsOrder(R, rows)
      /\ Cardinality(rows) \in Nat
      /\ PageLimit \in Nat \ {0} /\ PageLimit + 1 \in Nat
  BY <1>1, KeysetOrders, FS_CardinalityType, ListingAssumption
<1>4. \A i, j : <<i, j>> \in R => Precedes(Keyset(c), i, j)
  BY DEF OrderOf
<1> HIDE DEF R
<1>5. ASSUME ~(Cardinality(rows) > PageLimit)
      PROVE  page = due
  <2>1. rows = due
    BY <1>1, <1>3, <1>5, FirstAreAll
  <2> QED
    BY <1>2, <1>3, <1>5, <2>1, AllAreFirst
<1>6. ASSUME Cardinality(rows) > PageLimit
      PROVE  \E last \in page : /\ \A j \in page \ {last} : Precedes(Keyset(c), j, last)
                                /\ \A j \in due \ page : Precedes(Keyset(c), last, j)
  <2>1. page # {}
    BY <1>2, <1>3, <1>6, FirstIsThere, FS_EmptySet
  <2>2. PICK last \in page : \A j \in page \ {last} : <<j, last>> \in R
    BY <1>2, <1>3, <2>1, HasLast
  <2>3. \A j \in rows \ page : <<last, j>> \in R
    BY <1>2, <1>3, FirstComeFirst
  <2>4. \A j \in due \ rows : <<last, j>> \in R
    BY <1>1, <1>2, <1>3, FirstComeFirst
  <2> QED
    BY <1>4, <2>2, <2>3, <2>4
<1> QED
  BY <1>1, <1>2, <1>5, <1>6

-----------------------------------------------------------------------------
(***************************************************************************)
(* All pages of a client.                                                  *)
(***************************************************************************)

ListingInit ==
    /\ RequestsInit
    /\ ListShape
    /\ \A i \in Listed : db.listed[i].by = Nil

\* Any number of clients, where ListStep has one.
ListingNext(r) == ListStep(r) \/ (\E l \in Listings : Begin(r, "list", l)) \/ Killed(r)

ListingSpec == ListingInit /\ [][\E r \in Requests : ListingNext(r)]_vars

\* What has been written was written by a request that is done with it.
Written(row) == row = Nil \/ row.by = Nil \/ (row.by \in Requests /\ Ended(row.by))

Unchanged(v) == {i \in Listed : db.listed[i] = v.there[i]}

ListStatements ==
    \A r \in Requests :
        /\ At(r, "list") \/ At(r, "nextPage") \/ At(r, "listed") => req[r].do = "list" /\ req[r].arg \in Listings
        /\ At(r, "list") \/ At(r, "changeRow") \/ At(r, "nextPage") \/ At(r, "listed") \/ At(r, "new") \/ Ended(r)

ClientShape(v) ==
    /\ DOMAIN v = {"cursor", "there", "seen", "again"}
    /\ \A i \in Uuids : Written(v.there[i])

\* Of the rows that stayed as they were, those before the cursor have been
\* shown once, and those past it not yet.
ShownSoFar(c, v) ==
    /\ v.cursor \in [at : Int, id : Int]
    /\ \A i \in Unchanged(v) :
          /\ i \notin v.again
          /\ Past(Keyset(c), i, v.cursor) <=> i \notin v.seen

ClientInv ==
    \A r \in Requests :
        /\ At(r, "nextPage") \/ At(r, "listed") => ClientShape(req[r].v)
        /\ \A c \in Clocks : req[r].arg = Keyset(c) =>
              /\ At(r, "nextPage") => ShownSoFar(c, req[r].v)
              /\ At(r, "listed") => \A i \in Unchanged(req[r].v) : i \in req[r].v.seen /\ i \notin req[r].v.again

ListInv ==
    /\ HistoryOK /\ ListShape /\ ListStatements
    /\ \A i \in Uuids : Written(db.listed[i])
    /\ ClientInv

LEMMA PlainListings ==
    ASSUME NEW l \in Listings, l \notin Approximate
    PROVE  \E c \in Clocks : l = Keyset(c)
<1>1. CASE l \in {listProfiles(q, sort) : q \in BOOLEAN, sort \in Sorts}
  <2>1. PICK q \in BOOLEAN, sort \in Sorts : l = listProfiles(q, sort)
    BY <1>1
  <2>2. listProfiles(TRUE, "relevance") \in Approximate
    BY DEF Approximate
  <2> QED
    BY <2>1, <2>2 DEF listProfiles, Clocks
<1>2. CASE l \in UNION {{listPosts(sort), listPostings(sort), searchPosts(sort), searchPostings(sort)} : sort \in Sorts}
  <2>1. PICK sort \in Sorts : l \in {listPosts(sort), listPostings(sort), searchPosts(sort), searchPostings(sort)}
    BY <1>2
  <2>2. {searchPosts("relevance"), listPosts("popular")} \subseteq Approximate
    BY DEF Approximate
  <2> QED
    BY <2>1, <2>2 DEF listPosts, listPostings, searchPosts, searchPostings, Clocks
<1>3. CASE ~(l \in {listProfiles(q, sort) : q \in BOOLEAN, sort \in Sorts})
           /\ ~(l \in UNION {{listPosts(sort), listPostings(sort), searchPosts(sort), searchPostings(sort)} :
                               sort \in Sorts})
  <2>1. l \notin {listSources}
    BY DEF Approximate
  <2> QED
    BY <1>3, <2>1 DEF Listings, Clocks, listPage, listApplications, listDocuments, listProjects, googleMessages,
       googleEvents, listSubmissions, listVersions, listExports, listRuns, applicationTimeline,
       listProjectEvidence, listJobs, listAnalyses, listLinks, listNotifications, listBookmarks,
       listComments, listMyPosts, listCommentedPosts, listOffers, listOfferMessages, listBlocks,
       listRelation, listEvents, listInterviews, listEvidence, ledger, listUsage, listCompanyPostings,
       listApplicants, listMessages, listConversations, listPostingViews
<1> QED
  BY <1>1, <1>2, <1>3

LEMMA ListingMoves ==
    ASSUME NEW r \in Requests, ListingNext(r)
    PROVE  Moves(r)
<1>1. \A l : Begin(r, "list", l) => Moves(r)
  BY BeginMoves DEF Ends
<1>2. \A l : Begin(r, "changeRow", l) => Moves(r)
  BY BeginMoves DEF Ends
<1>3. CASE Killed(r)
  BY <1>3, DoMoves DEF Killed
<1>4. CASE ReadPage(r) \/ ChangeRow(r)
  BY <1>4, DoMoves DEF ReadPage, ChangeRow, GoOn, End, Open, Ended, At, Ends
<1> QED
  BY <1>1, <1>2, <1>3, <1>4 DEF ListingNext, ListStep

LEMMA ChangeRowEffect ==
    ASSUME ListInv, NEW r \in Requests, ChangeRow(r)
    PROVE  /\ \E i \in Uuids, row \in ListedRow \cup {Nil} :
                 /\ row # Nil => row.by = r
                 /\ db'.listed = [db.listed EXCEPT ![i] = row]
           /\ DOMAIN db' = DOMAIN db
           /\ At(r, "ok")' /\ Open(r)
<1>1. PICK tables : End(r, tables) /\ \E i \in Uuids, row \in ListedRow \cup {Nil} :
          (row # Nil => row.by = r) /\ tables = [db EXCEPT !.listed[i] = row]
  <2>1. PICK i \in Uuids :
          \/ \E at \in Moments : End(r, [db EXCEPT !.listed[i] = ListRow(i, at, r)])
          \/ End(r, [db EXCEPT !.listed[i] = Nil])
          \/ /\ db.listed[i] # Nil
             /\ \E at \in Moments, rank \in {0, 1} :
                  End(r, [db EXCEPT !.listed[i] = [@ EXCEPT !.updated = at, !.rank = rank, !.by = r]])
    BY DEF ChangeRow
  <2>2. CASE \E at \in Moments : End(r, [db EXCEPT !.listed[i] = ListRow(i, at, r)])
    <3>1. PICK at \in Moments : End(r, [db EXCEPT !.listed[i] = ListRow(i, at, r)])
      BY <2>2
    <3>2. ListRow(i, at, r) \in ListedRow /\ ListRow(i, at, r).by = r
      <4>1. i \in Int /\ at \in Int /\ (i = 2) \in BOOLEAN
        BY ListingAssumption
      <4>2. i % 2 \in Int
        BY <4>1
      <4>3. \A n \in Int, h \in BOOLEAN :
                [created |-> at, updated |-> at, rank |-> n, hidden |-> h, by |-> r] \in ListedRow
        BY <4>1 DEF ListedRow
      <4> QED
        BY <4>1, <4>2, <4>3 DEF ListRow
    <3> QED
      BY <3>1, <3>2
  <2>3. CASE End(r, [db EXCEPT !.listed[i] = Nil])
    BY <2>3
  <2>4. CASE /\ db.listed[i] # Nil
             /\ \E at \in Moments, rank \in {0, 1} :
                  End(r, [db EXCEPT !.listed[i] = [@ EXCEPT !.updated = at, !.rank = rank, !.by = r]])
    <3>1. PICK at \in Moments, rank \in {0, 1} :
              End(r, [db EXCEPT !.listed[i] = [@ EXCEPT !.updated = at, !.rank = rank, !.by = r]])
      BY <2>4
    <3> DEFINE row == [db.listed[i] EXCEPT !.updated = at, !.rank = rank, !.by = r]
    <3>2. db.listed[i] \in ListedRow
      BY <2>4 DEF ListInv, ListShape
    <3>3. row \in ListedRow /\ row.by = r
      <4>1. at \in Int /\ rank \in Int
        BY ListingAssumption
      <4> QED
        BY <3>2, <4>1 DEF ListedRow
    <3>4. End(r, [db EXCEPT !.listed[i] = row])
      BY <3>1
    <3> QED
      BY <3>3, <3>4
  <2> QED
    BY ZenonT(60), <2>1, <2>2, <2>3, <2>4
<1>2. db' = tables /\ At(r, "ok")'
  BY <1>1, DoEffect DEF End, ListInv, At
<1>3. Open(r)
  BY DEF ChangeRow, Open, Ended, At, Ends
<1> QED
  BY <1>1, <1>2, <1>3 DEF ListInv, ListShape

LEMMA PastIsAfter ==
    ASSUME ListShape, NEW c \in Clocks, NEW i \in Listed, NEW last \in Listed
    PROVE  /\ Past(Keyset(c), i, [at |-> db.listed[last][c], id |-> last]) <=> Precedes(Keyset(c), last, i)
           /\ i # last => (Precedes(Keyset(c), last, i) <=> ~Precedes(Keyset(c), i, last))
           /\ ~Precedes(Keyset(c), i, i)
           /\ [at |-> db.listed[last][c], id |-> last] \in [at : Int, id : Int]
  BY KeysetPrecedes, KeysetShape DEF Past

\* What is past a cursor comes after what is not.
LEMMA PastComesLater ==
    ASSUME ListShape, NEW c \in Clocks, NEW i \in Listed, NEW j \in Listed,
           NEW cursor \in [at : Int, id : Int],
           ~Past(Keyset(c), i, cursor), Past(Keyset(c), j, cursor)
    PROVE  Precedes(Keyset(c), i, j)
<1>1. cursor.at \in Int /\ cursor.id \in Int
  OBVIOUS
<1> QED
  BY <1>1, KeysetPrecedes, KeysetShape DEF Past

\* A page of a listing, from what the client has read before: v, as ReadPage
\* names it.
LEMMA PageOfClient ==
    ASSUME ListInv, NEW c \in Clocks, NEW v, ClientShape(v),
           NEW due, due \subseteq Listed,
           \A i \in Unchanged(v) : i \notin v.again /\ (i \in due <=> i \notin v.seen),
           \A i \in Unchanged(v) \ due, j \in due : Precedes(Keyset(c), i, j),
           NEW rows, rows = First(Keyset(c), due, PageLimit + 1),
           NEW page, page = First(Keyset(c), rows, PageLimit),
           NEW last, (\E i \in page : \A j \in page \ {i} : Precedes(Keyset(c), j, i)) =>
                        last \in page /\ \A j \in page \ {last} : Precedes(Keyset(c), j, last),
           NEW w, w.seen = v.seen \cup page, w.again = v.again \cup (page \cap v.seen), w.there = v.there,
           Cardinality(rows) > PageLimit => w.cursor = [at |-> db.listed[last][c], id |-> last]
    PROVE  /\ Cardinality(rows) > PageLimit => ShownSoFar(c, w)
           /\ ~(Cardinality(rows) > PageLimit) => \A i \in Unchanged(w) : i \in w.seen /\ i \notin w.again
<1> DEFINE more == Cardinality(rows) > PageLimit
<1>1. /\ w.seen = v.seen \cup page /\ w.again = v.again \cup (page \cap v.seen) /\ w.there = v.there
      /\ more => w.cursor = [at |-> db.listed[last][c], id |-> last]
  OBVIOUS
<1>2. Unchanged(w) = Unchanged(v) /\ Unchanged(v) \subseteq Listed
  BY <1>1 DEF Unchanged
<1>3. /\ page \subseteq due
      /\ ~more => page = due
      /\ more => \E m \in page : /\ \A j \in page \ {m} : Precedes(Keyset(c), j, m)
                                 /\ \A j \in due \ page : Precedes(Keyset(c), m, j)
  BY PageDivides DEF ListInv
<1>4. \A i \in Unchanged(w) : i \notin w.again
  BY <1>1, <1>2, <1>3
<1>5. ASSUME ~more, NEW i \in Unchanged(w)
      PROVE  i \in w.seen
  BY <1>1, <1>2, <1>3, <1>5
<1>6. ASSUME more
      PROVE  ShownSoFar(c, w)
  <2>1. PICK m \in page : /\ \A j \in page \ {m} : Precedes(Keyset(c), j, m)
                          /\ \A j \in due \ page : Precedes(Keyset(c), m, j)
    BY <1>3, <1>6
  <2>2. \A j \in page \ {last} : Precedes(Keyset(c), j, last)
    BY <2>1
  <2>3. last \in page
    BY <2>1
  <2>4. last = m
    <3> SUFFICES ASSUME last # m PROVE FALSE
      OBVIOUS
    <3>1. Precedes(Keyset(c), m, last) /\ Precedes(Keyset(c), last, m)
      BY <2>1, <2>2, <2>3
    <3> QED
      BY <1>3, <2>3, <3>1, PastIsAfter DEF ListInv
  <2>5. last \in Listed /\ w.cursor = [at |-> db.listed[last][c], id |-> last]
    BY <1>1, <1>3, <1>6, <2>3
  <2>6. w.cursor \in [at : Int, id : Int]
    BY <2>5, PastIsAfter DEF ListInv
  <2>7. ASSUME NEW i \in Unchanged(w)
        PROVE  Past(Keyset(c), i, w.cursor) <=> i \notin w.seen
    <3>1. i \in Listed /\ (Past(Keyset(c), i, w.cursor) <=> Precedes(Keyset(c), last, i))
      <4>1. i \in Listed
        BY <1>2, <2>7
      <4> DEFINE cursor == [at |-> db.listed[last][c], id |-> last]
      <4>2. Past(Keyset(c), i, cursor) <=> Precedes(Keyset(c), last, i)
        BY <2>5, <4>1, PastIsAfter DEF ListInv
      <4> QED
        BY <2>5, <4>1, <4>2
    <3>2. CASE i \in page
      <4>1. ~Precedes(Keyset(c), last, i)
        BY <2>2, <2>5, <3>1, <3>2, PastIsAfter DEF ListInv
      <4> QED
        BY <1>1, <3>1, <3>2, <4>1
    <3>3. CASE i \in due \ page
      BY <1>1, <1>2, <2>1, <2>4, <2>7, <3>1, <3>3
    <3>4. CASE i \notin due
      <4>1. Precedes(Keyset(c), i, last) /\ i # last
        BY <1>2, <1>3, <2>3, <2>7, <3>4
      <4>2. ~Precedes(Keyset(c), last, i)
        BY <2>5, <3>1, <4>1, PastIsAfter DEF ListInv
      <4> QED
        BY <1>1, <1>2, <2>7, <3>1, <3>4, <4>2
    <3> QED
      BY <3>2, <3>3, <3>4
  <2> QED
    BY <1>4, <2>6, <2>7 DEF ShownSoFar
<1> QED
  BY <1>4, <1>5, <1>6

LEMMA WrittenStays ==
    ASSUME HistoryOK, NEW r \in Requests, Moves(r), NEW row, Written(row)
    PROVE  Written(row)'
  BY OthersStay DEF Written, Ended, At

\* A page is read.
LEMMA ReadPageStep ==
    ASSUME ListInv, NEW r \in Requests, ReadPage(r)
    PROVE  /\ db' = db
           /\ req'[r].do = req[r].do /\ req'[r].arg = req[r].arg
           /\ req'[r].at \in {"nextPage", "listed"}
           /\ ClientShape(req'[r].v)
           /\ \A c \in Clocks : req[r].arg = Keyset(c) =>
                 /\ req'[r].at = "nextPage" => ShownSoFar(c, req'[r].v)
                 /\ req'[r].at = "listed" =>
                       \A i \in Unchanged(req'[r].v) : i \in req'[r].v.seen /\ i \notin req'[r].v.again
<1> DEFINE l == req[r].arg
           v == IF At(r, "list") THEN [cursor |-> Nil, there |-> db.listed, seen |-> {}, again |-> {}]
                ELSE req[r].v
           due == IF v.cursor = Nil \/ l.after = Nil THEN Listed
                  ELSE {i \in Listed : Past(l, i, v.cursor)}
           rows == {i \in First(l, due, PageLimit + 1) : ~(l.drops /\ db.listed[i].hidden)}
           page == First(l, rows, PageLimit)
           last == CHOOSE i \in page : \A j \in page \ {i} : Precedes(l, j, i)
           w == [v EXCEPT !.seen = @ \cup page, !.again = @ \cup (page \cap v.seen),
                          !.cursor = IF Cardinality(rows) > PageLimit
                                     THEN [at |-> db.listed[last][l.stamp], id |-> last] ELSE Nil]
<1>1. GoOn(r, IF Cardinality(rows) > PageLimit THEN "nextPage" ELSE "listed", w)
  BY ZenonT(60) DEF ReadPage
<1>2. ClientShape(v) /\ due \subseteq Listed
  BY DEF ReadPage, ListInv, ClientInv, ClientShape
<1> HIDE DEF w, last, page, rows, due, v, l
<1>3. /\ db' = db /\ req'[r].do = req[r].do /\ req'[r].arg = req[r].arg
      /\ req'[r].at = IF Cardinality(rows) > PageLimit THEN "nextPage" ELSE "listed"
      /\ req'[r].v = w
  BY <1>1, DoEffect DEF GoOn, ListInv, Ends
<1>4. ClientShape(w)
  BY <1>2 DEF ClientShape, w
<1>5. ASSUME NEW c \in Clocks, req[r].arg = Keyset(c)
      PROVE  /\ Cardinality(rows) > PageLimit => ShownSoFar(c, w)
             /\ ~(Cardinality(rows) > PageLimit) => \A i \in Unchanged(w) : i \in w.seen /\ i \notin w.again
  <2>1. l = Keyset(c) /\ l.after = c /\ l.stamp = c /\ ~l.drops /\ c # Nil
    BY <1>5, KeysetShape, RowAssumption DEF l, Clocks
  <2>2. /\ \A i \in Unchanged(v) : i \notin v.again /\ (i \in due <=> i \notin v.seen)
        /\ \A i \in Unchanged(v) \ due, j \in due : Precedes(Keyset(c), i, j)
    <3>1. CASE At(r, "list")
      <4>1. v.cursor = Nil /\ v.seen = {} /\ v.again = {}
        BY <3>1 DEF v
      <4>2. due = Listed
        BY <4>1 DEF due
      <4> QED
        BY <4>1, <4>2 DEF Unchanged
    <3>2. CASE ~At(r, "list")
      <4>1. v = req[r].v /\ ShownSoFar(c, v)
        BY <1>5, <3>2 DEF v, ReadPage, ListInv, ClientInv
      <4>2. v.cursor \in [at : Int, id : Int] /\ v.cursor # Nil
        BY <4>1, RowAssumption DEF ShownSoFar
      <4>3. due = {i \in Listed : Past(Keyset(c), i, v.cursor)}
        BY <2>1, <4>2 DEF due
      <4> QED
        BY SMTT(30), <4>1, <4>2, <4>3, PastComesLater DEF ShownSoFar, Unchanged, ListInv
    <3> QED
      BY <3>1, <3>2
  <2>3. rows = First(Keyset(c), due, PageLimit + 1)
    BY <2>1 DEF rows
  <2>4. page = First(Keyset(c), rows, PageLimit)
    BY <2>1 DEF page
  <2>5. (\E i \in page : \A j \in page \ {i} : Precedes(Keyset(c), j, i)) =>
            last \in page /\ \A j \in page \ {last} : Precedes(Keyset(c), j, last)
    BY <2>1 DEF last
  <2>6. /\ w.seen = v.seen \cup page /\ w.again = v.again \cup (page \cap v.seen) /\ w.there = v.there
        /\ Cardinality(rows) > PageLimit => w.cursor = [at |-> db.listed[last][c], id |-> last]
    BY <1>2, <2>1 DEF w, ClientShape
  <2> QED
    BY <1>2, <2>2, <2>3, <2>4, <2>5, <2>6, PageOfClient
<1> QED
  BY SMTT(30), <1>3, <1>4, <1>5

LEMMA ListInvInit == ListingInit => ListInv
<1> SUFFICES ASSUME ListingInit PROVE ListInv
  OBVIOUS
<1>1. HistoryOK
  BY HistoryInit DEF ListingInit
<1>2. \A r \in Requests : req[r].at = "new"
  BY DEF ListingInit, RequestsInit
<1> QED
  BY <1>1, <1>2 DEF ListingInit, ListInv, ListStatements, ClientInv, Written, Listed, At

\* What happens in a step, besides the reading of a page.
LEMMA ListingCases ==
    ASSUME ListInv, NEW r \in Requests, ListingNext(r)
    PROVE  \/ ReadPage(r)
           \/ ChangeRow(r)
           \/ /\ db' = db
              /\ \/ req'[r].at = "list" /\ req'[r].do = "list" /\ req'[r].arg \in Listings
                 \/ req'[r].at \in {"changeRow", "killed"}
<1>1. HistoryOK
  BY DEF ListInv
<1>2. \A l : Begin(r, "list", l) => db' = db /\ req'[r].at = "list" /\ req'[r].do = "list" /\ req'[r].arg = l
  BY <1>1, BeginRequest, BeginEffect
<1>3. Begin(r, "changeRow", Nil) => db' = db /\ req'[r].at = "changeRow"
  BY <1>1, BeginRequest, BeginEffect
<1>4. Killed(r) => db' = db /\ req'[r].at = "killed"
  BY <1>1, DoEffect DEF Killed
<1> QED
  BY <1>2, <1>3, <1>4 DEF ListingNext, ListStep

LEMMA ListStatementsStep ==
    ASSUME ListInv, NEW r \in Requests, ListingNext(r)
    PROVE  ListStatements'
<1>1. HistoryOK /\ ListStatements /\ Moves(r)
  BY ListingMoves DEF ListInv
<1>2. ASSUME NEW s \in Requests
      PROVE  /\ req'[s].at \in {"list", "nextPage", "listed"} => req'[s].do = "list" /\ req'[s].arg \in Listings
             /\ req'[s].at \in {"list", "changeRow", "nextPage", "listed", "new"} \cup Ends
  <2>1. CASE s # r
    BY SMTT(30), <1>1, <2>1, OthersStay DEF ListStatements, At, Ended
  <2>2. CASE s = r /\ ReadPage(r)
    BY <1>1, <2>2, ReadPageStep DEF ListStatements, ReadPage, At
  <2>3. CASE s = r /\ ChangeRow(r)
    BY <2>3, ChangeRowEffect DEF At, Ends
  <2>4. CASE s = r /\ ~ReadPage(r) /\ ~ChangeRow(r)
    BY <2>4, ListingCases DEF Ends
  <2> QED
    BY <2>1, <2>2, <2>3, <2>4
<1> QED
  BY <1>2 DEF ListStatements, At, Ended

LEMMA ListTablesStep ==
    ASSUME ListInv, NEW r \in Requests, ListingNext(r)
    PROVE  /\ ListShape'
           /\ \A i \in Uuids : Written(db.listed[i])'
           /\ \A i \in Uuids : \/ db'.listed[i] = db.listed[i]
                               \/ db'.listed[i] = Nil
                               \/ db'.listed[i].by = r /\ Open(r) /\ ChangeRow(r)
<1>1. HistoryOK /\ ListShape /\ Moves(r) /\ \A i \in Uuids : Written(db.listed[i])
  BY ListingMoves DEF ListInv
<1>2. CASE ChangeRow(r)
  <2>1. PICK k \in Uuids, row \in ListedRow \cup {Nil} :
            (row # Nil => row.by = r) /\ db'.listed = [db.listed EXCEPT ![k] = row]
    BY <1>2, ChangeRowEffect
  <2>2. DOMAIN db' = DOMAIN db /\ At(r, "ok")' /\ Open(r)
    BY <1>2, ChangeRowEffect
  <2>3. ListShape'
    BY <1>1, <2>1, <2>2 DEF ListShape
  <2>4. \A i \in Uuids : db'.listed[i] = IF i = k THEN row ELSE db.listed[i]
    BY <1>1, <2>1 DEF ListShape
  <2>5. ASSUME NEW i \in Uuids
        PROVE  Written(db.listed[i])'
    <3>1. CASE i = k
      BY <2>1, <2>2, <2>4, <3>1 DEF Written, Ended, Ends, At
    <3>2. CASE i # k
      <4>1. \A x : Written(x) => Written(x)'
        BY <1>1, WrittenStays
      <4> QED
        BY <1>1, <2>4, <3>2, <4>1 DEF Written
    <3> QED
      BY <3>1, <3>2
  <2> QED
    BY <1>2, <2>1, <2>2, <2>3, <2>4, <2>5
<1>3. CASE ~ChangeRow(r)
  <2>1. db' = db
    BY <1>3, ListingCases, ReadPageStep
  <2>2. \A i \in Uuids : Written(db.listed[i])'
    BY <1>1, <2>1, OthersStay DEF Written, Ended, At
  <2> QED
    BY <1>1, <2>1, <2>2 DEF ListShape
<1> QED
  BY <1>2, <1>3

\* A client's rows that are unchanged after a step were so before it.
LEMMA StillUnchanged ==
    ASSUME ListInv, NEW r \in Requests, ListingNext(r), NEW v, ClientShape(v)
    PROVE  /\ Unchanged(v)' \subseteq Unchanged(v)
           /\ \A i \in Unchanged(v)' : db'.listed[i] = db.listed[i]
<1> SUFFICES ASSUME NEW i \in Unchanged(v)'
             PROVE  i \in Unchanged(v) /\ db'.listed[i] = db.listed[i]
  OBVIOUS
<1>1. i \in Uuids /\ db'.listed[i] # Nil /\ db'.listed[i] = v.there[i]
  BY DEF Unchanged, Listed
<1>2. Written(v.there[i])
  BY <1>1 DEF ClientShape
<1>3. db'.listed[i] = db.listed[i]
  BY <1>1, <1>2, ListTablesStep, CoreWorkerAssumption DEF Written, Open
<1> QED
  BY <1>1, <1>3 DEF Unchanged, Listed

LEMMA ReaderStays ==
    ASSUME ListInv, NEW r \in Requests, ListingNext(r), NEW v, ClientShape(v)
    PROVE  /\ ClientShape(v)'
           /\ \A c \in Clocks : ShownSoFar(c, v) => ShownSoFar(c, v)'
<1>1. ClientShape(v)'
  <2>1. HistoryOK /\ Moves(r)
    BY ListingMoves DEF ListInv
  <2>2. \A i \in Uuids : Written(v.there[i]) => Written(v.there[i])'
    BY <2>1, WrittenStays
  <2> QED
    BY <2>2 DEF ClientShape
<1>2. \A c \in Clocks, i \in Unchanged(v)' : Past(Keyset(c), i, v.cursor)' <=> Past(Keyset(c), i, v.cursor)
  BY StillUnchanged DEF Past
<1> QED
  BY <1>1, <1>2, StillUnchanged DEF ShownSoFar

LEMMA ClientInvStep ==
    ASSUME ListInv, NEW r \in Requests, ListingNext(r)
    PROVE  ClientInv'
<1>1. HistoryOK /\ ClientInv /\ Moves(r)
  BY ListingMoves DEF ListInv
<1> SUFFICES ASSUME NEW s \in Requests, NEW v, v = req'[s].v, req'[s].at \in {"nextPage", "listed"}
             PROVE  /\ ClientShape(v)'
                    /\ \A c \in Clocks : req'[s].arg = Keyset(c) =>
                          /\ req'[s].at = "nextPage" => ShownSoFar(c, v)'
                          /\ req'[s].at = "listed" => \A i \in Unchanged(v)' : i \in v.seen /\ i \notin v.again
  BY DEF ClientInv, At
<1>2. /\ ClientShape(v)
      /\ \A c \in Clocks : req'[s].arg = Keyset(c) =>
            /\ req'[s].at = "nextPage" => ShownSoFar(c, v)
            /\ req'[s].at = "listed" => \A i \in Unchanged(v) : i \in v.seen /\ i \notin v.again
  <2>1. CASE s # r
    <3>1. req'[s] = req[s]
      BY <1>1, <2>1, OthersStay
    <3> QED
      BY <1>1, <3>1 DEF ClientInv, At
  <2>2. CASE s = r
    <3>1. ReadPage(r)
      BY <2>2, ListingCases, ChangeRowEffect DEF At
    <3> QED
      BY <2>2, <3>1, ReadPageStep
  <2> QED
    BY <2>1, <2>2
<1> QED
  BY <1>2, ReaderStays, StillUnchanged

LEMMA ListInvStep ==
    ASSUME ListInv, [\E r \in Requests : ListingNext(r)]_vars
    PROVE  ListInv'
<1>1. CASE UNCHANGED vars
  BY <1>1 DEF vars, ListInv, HistoryOK, RequestShape, PriorHasEnded, ListShape, ListStatements, Written,
     ClientInv, ClientShape, ShownSoFar, Unchanged, Listed, Past, Ended, At
<1>2. ASSUME NEW r \in Requests, ListingNext(r)
      PROVE  ListInv'
  <2>1. HistoryOK'
    BY <1>2, ListingMoves, HistoryStep DEF ListInv
  <2> QED
    BY <1>2, <2>1, ListTablesStep, ListStatementsStep, ClientInvStep DEF ListInv
<1> QED
  BY <1>1, <1>2

\* Every listing but the seven in Approximate, read to its last page by any
\* number of clients while any number of rows are inserted, removed and moved:
\* a client is shown every row that stayed as it was, and shown it once.  The
\* cursor is the column the listing is sorted by and the id that breaks its ties,
\* so that a row that stays is past the cursor until its page is read.
THEOREM PagesComplete == ListingSpec => []PagesAreComplete
<1>1. ListInv => PagesAreComplete
  <2> SUFFICES ASSUME ListInv, NEW r \in Requests, At(r, "listed"), req[r].arg \notin Approximate,
                      NEW i \in Listed, db.listed[i] = req[r].v.there[i]
               PROVE  i \in req[r].v.seen /\ i \notin req[r].v.again
    BY DEF PagesAreComplete
  <2>1. PICK c \in Clocks : req[r].arg = Keyset(c)
    BY PlainListings DEF ListInv, ListStatements
  <2> QED
    BY <2>1 DEF ListInv, ClientInv, Unchanged
<1> QED
  BY <1>1, ListInvInit, ListInvStep, PTL DEF ListingSpec

-----------------------------------------------------------------------------
(***************************************************************************)
(* Notices: each is told once, to who wants it.                            *)
(***************************************************************************)

DueRecord == [kind : Kinds, to : People]
Tell == [of : {"news", "reply"}, to : People]
Named == Requests \X (Ids \cup {"news", "reply"})
Tellers == {"createComment", "aiDone", "offerProfile", "postOfferMessage"}
ToOne == {"offerProfile", "postOfferMessage"}
Pairs == {"blockUser", "unblockUser"}
Registers == {"registerDevice"}
NoticeHandlers == {"notificationRun", "mute", "registerDevice", "deleteDevice"} \cup Tellers \cup Pairs

NoticeShape ==
    /\ {"due", "claimed", "muted", "blocks", "post", "offered", "device", "notice"} \subseteq DOMAIN db
    /\ DOMAIN db.due = Ids /\ \A i \in Ids : db.due[i] \in DueRecord \cup {Nil}
    /\ DOMAIN db.claimed = Ids
    /\ DOMAIN db.post = Ids /\ \A i \in Ids : db.post[i] \in People \cup {Nil}
    /\ DOMAIN db.offered = Ids
    /\ DOMAIN db.notice = Named /\ \A n \in Named : db.notice[n] \in NoticeRecord \cup {Nil}

NoticeInit ==
    /\ RequestsInit /\ NoticeShape
    /\ \A i \in Ids : db.claimed[i] \notin Requests
    /\ \A n \in Named : db.notice[n] = Nil
    /\ \A u, w \in db.device : u = w

NoticeMove(r) == NoticeStep(r) \/ Killed(r)
NoticeSpec == NoticeInit /\ [][(\E r \in Requests : NoticeMove(r)) \/ NoticeJob]_vars

\* What a request came with, and what it has in its hand.
NoticeStatement(r) ==
    /\ At(r, "new") => req[r].do = "none"
    /\ ~At(r, "new") => req[r].do \in NoticeHandlers
    /\ req[r].do \in Tellers =>
          /\ req[r].at \in {req[r].do, "profileOfferRow", "messageRow", "notify", "send"} \cup Ends
          /\ req[r].arg.by \in People \cup {Nil}
    /\ req[r].do = "createComment" => req[r].arg.parent \in People \cup {Nil} /\ req[r].arg.id \in Ids
                                      /\ db.post[req[r].arg.id] # Nil
    /\ req[r].do \in Pairs => req[r].at \in {req[r].do} \cup Ends
    /\ req[r].do \in ToOne \cup Pairs => req[r].arg \in [by : People, to : People]
    /\ req[r].do = "aiDone" => req[r].arg.to \in People
    /\ req[r].at \in {"profileOfferRow", "messageRow"} => req[r].do \in ToOne
    /\ req[r].at \in {"notify", "send"} =>
          /\ req[r].do \in Tellers /\ req[r].v \in Seq(Tell)
          /\ At(r, "send") => req[r].v # <<>>
          /\ req[r].do \in ToOne => \A k \in 1..Len(req[r].v) : req[r].v[k].to = req[r].arg.to
    /\ req[r].do = "mute" => req[r].at \in {"mute"} \cup Ends
    /\ req[r].do = "deleteDevice" => req[r].at \in {"deleteDevice"} \cup Ends
    /\ req[r].do = "registerDevice" => req[r].at \in {"registerDevice", "deviceRow"} \cup Ends
    /\ req[r].do = "notificationRun" =>
          /\ req[r].at \in {"notificationRun", "tellDue"} \cup Ends
          /\ At(r, "notificationRun") => req[r].v \in RunRecord \cup {Nil}
          /\ At(r, "tellDue") => req[r].v \in RunRecord

\* Of a run, the kinds of dues it has yet to claim and the dues it has yet to tell.
ToClaim(r) ==
    IF At(r, "notificationRun") THEN IF req[r].v = Nil THEN Kinds ELSE req[r].v.kinds ELSE {}
ToTell(r) ==
    IF At(r, "notificationRun") THEN IF req[r].v = Nil THEN {} ELSE req[r].v.won
    ELSE IF At(r, "tellDue") THEN req[r].v.won ELSE {}

Heard(r, u) == Before(r, "mute", u) = {}

ClaimsWell(r) ==
    req[r].do = "notificationRun" /\ ~At(r, "killed") =>
        /\ \A i \in ToTell(r) : db.claimed[i] = r
        /\ \A i \in Ids : db.due[i] # Nil =>
              /\ db.claimed[i] = r => i \in ToTell(r) \/ db.notice[<<r, i>>] # Nil
              /\ db.claimed[i] # Nil \/ db.due[i].to \in db.muted \/ db.due[i].kind \in ToClaim(r)

Claimed ==
    \A r \in Requests, i \in Ids : db.claimed[i] = r =>
        db.due[i] # Nil /\ req[r].do = "notificationRun" /\ ~At(r, "new") /\ Heard(r, db.due[i].to)

\* Once its sender has looked at the blocks.
Passed(r) == req[r].do \in ToOne /\ req[r].at \in {"profileOfferRow", "messageRow", "notify", "send"}
Unblocked(r) ==
    \A b \in Before(r, "blockUser", req[r].arg.to) :
        req[b].arg.to = req[r].arg.by =>
            \E s \in Doing("unblockUser") : s \notin prior[b] /\ req[s].arg = req[b].arg

BlocksStand ==
    \A b \in Requests : Answered(b, "blockUser") =>
        \/ <<req[b].arg.by, req[b].arg.to>> \in db.blocks
        \/ \E s \in Doing("unblockUser") : s \notin prior[b] /\ req[s].arg = req[b].arg
MutesStand == \A s \in Requests : Answered(s, "mute") => req[s].arg.by \in db.muted

Sends(r) ==
    /\ At(r, "send") => Heard(r, Head(req[r].v).to)
    /\ Passed(r) => Unblocked(r)

NoticeRow(r, of) ==
    LET notice == db.notice[<<r, of>>] IN
    notice # Nil =>
        /\ ~At(r, "new")
        /\ of \in Ids => db.claimed[of] = r
        /\ Heard(r, notice.to)
        /\ req[r].do \in ToOne => Unblocked(r) /\ notice.to = req[r].arg.to
        /\ notice.pushing + notice.pushed <= (IF notice.stored THEN 1 ELSE 0)
NoticeRows == \A r \in Requests, of \in Ids \cup {"news", "reply"} : NoticeRow(r, of)

MetRegister(r) == MetAny(r, Registers)
DeviceMoves(r) ==
    At(r, "deviceRow") => MetRegister(r) \/ db.device \subseteq req[r].v \cup {req[r].arg.by}
DeviceShared ==
    \A u, w \in db.device :
        u = w \/ \E s \in Doing("registerDevice") : req[s].arg.by \in {u, w} /\ MetRegister(s)

NoticeInv ==
    /\ HistoryOK /\ NoticeShape
    /\ \A r \in Requests : NoticeStatement(r) /\ ClaimsWell(r) /\ Sends(r) /\ DeviceMoves(r)
    /\ Claimed /\ BlocksStand /\ MutesStand /\ NoticeRows /\ DeviceShared

LEMMA NoticeInvInit == NoticeInit => NoticeInv
<1> SUFFICES ASSUME NoticeInit PROVE NoticeInv
  OBVIOUS
<1>1. HistoryOK /\ NoticeShape
  BY HistoryInit DEF NoticeInit
<1>2. \A r \in Requests : req[r].at = "new" /\ req[r].do = "none"
  BY DEF NoticeInit, RequestsInit
<1>3. \A r \in Requests : NoticeStatement(r) /\ ClaimsWell(r) /\ Sends(r) /\ DeviceMoves(r)
  BY <1>2 DEF NoticeStatement, ClaimsWell, Sends, Passed, DeviceMoves, At, Tellers, Pairs, ToOne
<1>4. Claimed /\ NoticeRows
  BY DEF NoticeInit, Claimed, NoticeRows, NoticeRow, Named
<1>5. BlocksStand /\ MutesStand
  BY <1>2 DEF BlocksStand, MutesStand, Answered
<1>6. DeviceShared
  BY DEF NoticeInit, DeviceShared
<1> QED
  BY <1>1, <1>3, <1>4, <1>5, <1>6 DEF NoticeInv

\* What a handler is called with.
CalledWith(h, arg) ==
    /\ h \in NoticeHandlers
    /\ h \in Tellers => arg.by \in People \cup {Nil}
    /\ h = "createComment" => arg.parent \in People \cup {Nil} /\ arg.id \in Ids /\ db.post[arg.id] # Nil
    /\ h \in ToOne \cup Pairs => arg \in [by : People, to : People]
    /\ h = "aiDone" => arg.to \in People

LEMMA ArrivesNotice ==
    ASSUME HistoryOK, NEW r \in Requests, ArriveNotice(r)
    PROVE  /\ Moves(r) /\ At(r, "new") /\ db' = db /\ req'[r].v = Nil
           /\ req'[r].at = req'[r].do /\ CalledWith(req'[r].do, req'[r].arg)
<1>1. \E h, arg : CalledWith(h, arg) /\ Begin(r, h, arg)
  <2>1. CASE Begin(r, "notificationRun", Nil)
    <3>1. CalledWith("notificationRun", Nil)
      BY DEF CalledWith, NoticeHandlers, Tellers, Pairs, ToOne
    <3> QED
      BY <2>1, <3>1
  <2>2. ASSUME NEW by \in People, NEW i \in Ids, db.post[i] # Nil, NEW parent \in People \cup {Nil},
               Begin(r, "createComment", [by |-> by, id |-> i, parent |-> parent])
        PROVE  \E h, arg : CalledWith(h, arg) /\ Begin(r, h, arg)
    <3>1. CalledWith("createComment", [by |-> by, id |-> i, parent |-> parent])
      BY <2>2 DEF CalledWith, NoticeHandlers, Tellers, Pairs, ToOne
    <3> QED
      BY <2>2, <3>1
  <2>3. ASSUME NEW by \in People, NEW h \in {"offerProfile", "postOfferMessage", "blockUser", "unblockUser"},
               NEW to \in People, Begin(r, h, [by |-> by, to |-> to])
        PROVE  \E k, arg : CalledWith(k, arg) /\ Begin(r, k, arg)
    <3>1. CalledWith(h, [by |-> by, to |-> to])
      BY DEF CalledWith, NoticeHandlers, Tellers, Pairs, ToOne
    <3> QED
      BY <2>3, <3>1
  <2>4. ASSUME NEW by \in People, Begin(r, "aiDone", [by |-> Nil, to |-> by])
        PROVE  \E h, arg : CalledWith(h, arg) /\ Begin(r, h, arg)
    <3>1. CalledWith("aiDone", [by |-> Nil, to |-> by])
      BY DEF CalledWith, NoticeHandlers, Tellers, Pairs, ToOne
    <3> QED
      BY <2>4, <3>1
  <2>5. ASSUME NEW by \in People, NEW h \in {"mute", "registerDevice", "deleteDevice"}, Begin(r, h, [by |-> by])
        PROVE  \E k, arg : CalledWith(k, arg) /\ Begin(r, k, arg)
    <3>1. CalledWith(h, [by |-> by])
      BY DEF CalledWith, NoticeHandlers, Tellers, Pairs, ToOne
    <3> QED
      BY <2>5, <3>1
  <2> QED
    BY <2>1, <2>2, <2>3, <2>4, <2>5 DEF ArriveNotice
<1>2. PICK h, arg : CalledWith(h, arg) /\ Begin(r, h, arg)
  BY <1>1
<1>3. req'[r] = [do |-> h, at |-> h, arg |-> arg, v |-> Nil] /\ db' = db /\ At(r, "new")
  BY <1>2, BeginEffect
<1>4. h \notin Ends \cup {"new"}
  BY <1>2 DEF CalledWith, NoticeHandlers, Ends, Tellers, Pairs
<1>5. Moves(r)
  BY <1>2, <1>4, BeginMoves
<1> QED
  BY <1>2, <1>3, <1>5

LEMMA NoticeMoves ==
    ASSUME HistoryOK, NEW r \in Requests, NoticeMove(r)
    PROVE  /\ Moves(r)
           /\ ~ArriveNotice(r) => Open(r)
<1>1. CASE ArriveNotice(r)
  BY <1>1, ArrivesNotice
<1>2. CASE ~ArriveNotice(r)
  <2>1. Open(r)
    BY <1>2 DEF NoticeMove, NoticeStep, Killed, Claim, TellDue, Notify, Send, CreateComment, AiDone, OfferProfile,
                ProfileOfferRow, PostOfferMessage, MessageRow, BlockUser, UnblockUser, Mute, RegisterDevice, DeviceRow,
                DeleteDevice, Open, Ended, Ends, At
  <2>2. \E statement, v, tables : statement # "new" /\ Do(r, statement, v, tables)
    <3>1. CASE Claim(r)
      BY <3>1 DEF Claim
    <3>2. CASE TellDue(r)
      BY <3>2 DEF TellDue, End
    <3>3. CASE Notify(r) \/ Send(r) \/ CreateComment(r) \/ AiDone(r)
      BY <3>3 DEF Notify, Send, CreateComment, AiDone, GoOn, End
    <3>4. CASE OfferProfile(r) \/ ProfileOfferRow(r) \/ PostOfferMessage(r) \/ MessageRow(r)
      BY <3>4 DEF OfferProfile, ProfileOfferRow, PostOfferMessage, MessageRow, GoOn, Refuse
    <3>5. CASE BlockUser(r) \/ UnblockUser(r) \/ Mute(r) \/ RegisterDevice(r) \/ DeviceRow(r) \/ DeleteDevice(r)
      BY <3>5 DEF BlockUser, UnblockUser, Mute, RegisterDevice, DeviceRow, DeleteDevice, GoOn, End
    <3>6. CASE Killed(r)
      BY <3>6 DEF Killed
    <3> QED
      BY <1>2, <3>1, <3>2, <3>3, <3>4, <3>5, <3>6 DEF NoticeMove, NoticeStep
  <2> QED
    BY <1>2, <2>1, <2>2, DoMoves
<1> QED
  BY <1>1, <1>2

-----------------------------------------------------------------------------
\* What a request has met with or come after, it has for good.
LEMMA HeardStays ==
    ASSUME HistoryOK, NEW m \in Requests, Moves(m), NEW r \in Requests, ~At(r, "new")
    PROVE  /\ \A u : Heard(r, u) => Heard(r, u)'
           /\ Unblocked(r) => Unblocked(r)'
           /\ MetRegister(r) => MetRegister(r)'
<1>1. prior'[r] = prior[r] /\ req'[r].do = req[r].do /\ req'[r].arg = req[r].arg /\ ~At(r, "new")'
  BY OthersStay
<1>2. \A s \in prior[r] : s \in Requests /\ Ended(s) /\ req'[s] = req[s] /\ prior'[s] = prior[s]
  BY OthersStay DEF HistoryOK, PriorHasEnded, Ended, Ends, At
<1>3. \A h, u : Before(r, h, u)' = Before(r, h, u)
  BY <1>1, <1>2 DEF Before, Answered, At
<1>4. ASSUME NEW s \in Doing("unblockUser") PROVE s \in Doing("unblockUser")' /\ req'[s].arg = req[s].arg
  BY OthersStay DEF Doing
<1>5. Unblocked(r) => Unblocked(r)'
  <2> SUFFICES ASSUME Unblocked(r), NEW b \in Before(r, "blockUser", req[r].arg.to), req[b].arg.to = req[r].arg.by
               PROVE  \E s \in Doing("unblockUser")' : s \notin prior'[b] /\ req'[s].arg = req'[b].arg
    <3>1. \A u : Before(r, "blockUser", u) \subseteq prior[r]
      BY DEF Before
    <3> QED
      BY <1>1, <1>2, <1>3, <3>1 DEF Unblocked
  <2>1. PICK s \in Doing("unblockUser") : s \notin prior[b] /\ req[s].arg = req[b].arg
    BY DEF Unblocked
  <2>2. b \in prior[r]
    BY DEF Before
  <2> QED
    BY <1>2, <1>4, <2>1, <2>2
<1>6. MetRegister(r) => MetRegister(r)'
  <2> SUFFICES ASSUME NEW s \in Requests, req[s].do \in Registers, Met(r, s) PROVE MetRegister(r)'
    BY DEF MetRegister, MetAny
  <2>1. Met(r, s)' /\ req'[s].do = req[s].do
    BY MetStays, OthersStay DEF Met
  <2> QED
    BY <2>1 DEF MetRegister, MetAny
<1> QED
  BY <1>3, <1>5, <1>6 DEF Heard

\* What a step of m may do to the tables.
ClaimsRow(m, i) ==
    /\ At(m, "notificationRun") /\ db.claimed[i] = Nil /\ db'.claimed[i] = m
    /\ db.due[i] # Nil /\ db.due[i].to \notin db.muted
WritesNotice(m, of) ==
    /\ db'.notice[<<m, of>>] # Nil
    /\ \E to \in People : db'.notice[<<m, of>>] = NewNotice(to)
    /\ \/ At(m, "tellDue") /\ of \in ToTell(m) /\ db'.notice[<<m, of>>].to = db.due[of].to
       \/ At(m, "send") /\ of = Head(req[m].v).of /\ db'.notice[<<m, of>>].to = Head(req[m].v).to
Claims(m) == \A i \in Ids : db'.claimed[i] = db.claimed[i] \/ ClaimsRow(m, i)
Notifies(m) ==
    \A r \in Requests, of \in Ids \cup {"news", "reply"} :
        db'.notice[<<r, of>>] = db.notice[<<r, of>>] \/ (r = m /\ WritesNotice(m, of))
Unblocks(m) ==
    \A pair \in db.blocks : pair \in db'.blocks \/ (At(m, "unblockUser") /\ pair = <<req[m].arg.by, req[m].arg.to>>)
Moved(m) ==
    \/ db'.device \subseteq db.device
    \/ At(m, "deviceRow") /\ db'.device = (db.device \ OtherRows(m)) \cup {req[m].arg.by}
Frame(m) ==
    /\ NoticeShape' /\ db'.due = db.due /\ db'.post = db.post /\ db.muted \subseteq db'.muted
    /\ Claims(m) /\ Notifies(m) /\ Unblocks(m) /\ Moved(m)

\* What m comes to, in its own affairs.
Mine(m) ==
    /\ NoticeStatement(m)' /\ ClaimsWell(m)'
    /\ At(m, "send")' => At(m, "notify") /\ req'[m].v = req[m].v /\ Head(req[m].v).to \notin db.muted
    /\ Passed(m)' => Passed(m) \/ (req[m].do \in Tellers /\ <<req[m].arg.to, req[m].arg.by>> \notin db.blocks)
    /\ At(m, "deviceRow")' => req'[m].v = db'.device
    /\ Answered(m, "blockUser")' /\ ~Answered(m, "blockUser") => <<req[m].arg.by, req[m].arg.to>> \in db'.blocks
    /\ Answered(m, "mute")' /\ ~Answered(m, "mute") => req[m].arg.by \in db'.muted

LEMMA NoticeInvStep ==
    ASSUME NoticeInv, NEW m \in Requests, Moves(m), Frame(m), Mine(m)
    PROVE  NoticeInv'
<1>0. HistoryOK /\ NoticeShape
  BY DEF NoticeInv
<1>1. HistoryOK'
  BY <1>0, HistoryStep
<1>2. \A r \in Requests \ {m} : req'[r] = req[r]
  BY <1>0, OthersStay
<1>3. \A r \in Requests : ~At(r, "new") =>
         ~At(r, "new")' /\ req'[r].do = req[r].do /\ req'[r].arg = req[r].arg /\ prior'[r] = prior[r]
  BY <1>0, OthersStay
<1>4. \A r \in Requests : ~At(r, "new") =>
         /\ \A u : Heard(r, u) => Heard(r, u)'
         /\ Unblocked(r) => Unblocked(r)'
         /\ MetRegister(r) => MetRegister(r)'
  BY <1>0, HeardStays
<1>e. At(m, "new") => ~Ended(m)'
  <2>1. ASSUME NEW h, NEW arg, h \notin Ends \cup {"new"}, Begin(m, h, arg) PROVE ~Ended(m)'
    BY <1>0, <2>1, BeginRequest DEF Ended, At
  <2>2. At(m, "new") => ~Open(m)
    BY DEF Open
  <2> QED
    BY <2>1, <2>2 DEF Moves, Begins, GoesOn
<1>5. ASSUME NEW r \in Requests PROVE NoticeStatement(r)'
  <2>1. CASE r = m
    BY <2>1 DEF Mine
  <2>2. CASE r # m
    <3>1. req'[r] = req[r] /\ NoticeStatement(r) /\ db'.post = db.post
      BY <1>2, <2>2 DEF NoticeInv, Frame
    <3> QED
      BY <3>1 DEF NoticeStatement, At
  <2> QED
    BY <2>1, <2>2
<1>6. ASSUME NEW r \in Requests PROVE ClaimsWell(r)'
  <2>1. CASE r = m
    BY <2>1 DEF Mine
  <2>2. CASE r # m
    <3>1. req'[r] = req[r] /\ ClaimsWell(r) /\ db'.due = db.due /\ db.muted \subseteq db'.muted
      BY <1>2, <2>2 DEF NoticeInv, Frame
    <3>2. ToTell(r)' = ToTell(r) /\ ToClaim(r)' = ToClaim(r)
      BY <3>1 DEF ToTell, ToClaim, At
    <3>3. \A i \in Ids : /\ db.claimed[i] = r <=> db'.claimed[i] = r
                         /\ db.claimed[i] # Nil => db'.claimed[i] # Nil
                         /\ db'.notice[<<r, i>>] = db.notice[<<r, i>>]
      BY <2>2, CoreWorkerAssumption DEF Frame, Claims, ClaimsRow, Notifies
    <3>4. req[r].do = "notificationRun" => ToTell(r) \subseteq Ids
      BY DEF NoticeInv, NoticeStatement, ToTell, RunRecord, At
    <3> QED
      BY <3>1, <3>2, <3>3, <3>4 DEF ClaimsWell, At
  <2> QED
    BY <2>1, <2>2
<1>7. ASSUME NEW r \in Requests PROVE Sends(r)'
  <2>1. CASE r # m
    <3>1. req'[r] = req[r] /\ Sends(r) /\ NoticeStatement(r)
      BY <1>2, <2>1 DEF NoticeInv
    <3>2. At(r, "send") \/ Passed(r) => ~At(r, "new")
      BY DEF At, Passed
    <3> QED
      BY <1>4, <3>1, <3>2 DEF Sends, Passed, At
  <2>2. CASE r = m
    <3>1. Sends(m) /\ NoticeStatement(m) /\ Mine(m)
      BY DEF NoticeInv
    <3>2. ASSUME At(m, "send")' PROVE Heard(m, Head(req[m].v).to)'
      <4>1. At(m, "notify") /\ req'[m].v = req[m].v /\ Head(req[m].v).to \notin db.muted
        BY <3>1, <3>2 DEF Mine
      <4>2. Heard(m, Head(req[m].v).to)
        BY <4>1, <1>0 DEF Heard, Before, NoticeInv, MutesStand, HistoryOK, PriorHasEnded
      <4>3. ~At(m, "new")
        BY <4>1 DEF At
      <4>4. PICK u : u = Head(req[m].v).to
        OBVIOUS
      <4>5. Heard(m, u)' /\ u = Head(req'[m].v).to
        BY <1>4, <4>1, <4>2, <4>3, <4>4
      <4> QED
        BY <4>5 DEF Heard, Before
    <3>3. ASSUME Passed(m)' PROVE Unblocked(m)'
      <4>1. ~At(m, "new")
        BY <3>1, <3>3 DEF Mine, Passed, NoticeStatement, At, Tellers
      <4>2. Unblocked(m)
        <5>1. CASE Passed(m)
          BY <3>1, <5>1 DEF Sends
        <5>2. CASE <<req[m].arg.to, req[m].arg.by>> \notin db.blocks
          BY <1>0, <5>2 DEF Unblocked, Before, NoticeInv, BlocksStand, HistoryOK, PriorHasEnded
        <5> QED
          BY <3>1, <3>3, <5>1, <5>2 DEF Mine
      <4> QED
        BY <1>4, <4>1, <4>2
    <3>4. Sends(m)'
      BY <3>2, <3>3 DEF Sends
    <3> QED
      BY <2>2, <3>4
  <2> QED
    BY <2>1, <2>2
<1>8. ASSUME NEW r \in Requests PROVE DeviceMoves(r)'
  <2>1. CASE r = m
    BY <2>1 DEF Mine, DeviceMoves
  <2>2. CASE r # m
    <3>1. req'[r] = req[r] /\ DeviceMoves(r)
      BY <1>2, <2>2 DEF NoticeInv
    <3>2. SUFFICES ASSUME At(r, "deviceRow"), ~MetRegister(r), ~MetRegister(r)'
                   PROVE  db'.device \subseteq req[r].v \cup {req[r].arg.by}
      BY <1>4, <3>1 DEF DeviceMoves, At
    <3>3. ~At(m, "deviceRow")
      <4>1. ASSUME At(m, "deviceRow") PROVE FALSE
        <5>1. Open(m) /\ Open(r)
          BY <3>2, <4>1 DEF Open, Ended, Ends, At
        <5>2. Met(r, m)
          BY <1>0, <2>2, <5>1, OpenMeet
        <5>3. req[m].do = "registerDevice"
          BY <4>1 DEF NoticeInv, NoticeStatement, NoticeHandlers, Tellers, Pairs, Ends, At
        <5> QED
          BY <3>2, <5>2, <5>3 DEF MetRegister, MetAny, Registers
      <4> QED
        BY <4>1
    <3> QED
      BY <3>1, <3>2, <3>3 DEF Frame, Moved, DeviceMoves
  <2> QED
    BY <2>1, <2>2
<1>9. Claimed'
  <2> SUFFICES ASSUME NEW r \in Requests, NEW i \in Ids, db'.claimed[i] = r, NEW u, u = db.due[i].to
               PROVE  db.due[i] # Nil /\ req'[r].do = "notificationRun" /\ ~At(r, "new")' /\ Heard(r, u)'
    BY DEF Claimed, Frame, Heard, Before
  <2>1. CASE db.claimed[i] = r
    BY <1>3, <1>4, <2>1 DEF NoticeInv, Claimed
  <2>2. CASE ClaimsRow(m, i) /\ r = m
    <3>1. ~At(m, "new") /\ req[m].do = "notificationRun"
      BY <2>2 DEF ClaimsRow, NoticeInv, NoticeStatement, NoticeHandlers, Tellers, Pairs, Ends, At
    <3>2. Heard(m, u)
      BY <1>0, <2>2 DEF ClaimsRow, Heard, Before, NoticeInv, MutesStand, HistoryOK, PriorHasEnded
    <3> QED
      BY <1>3, <1>4, <2>2, <3>1, <3>2 DEF ClaimsRow
  <2> QED
    BY <2>1, <2>2 DEF Frame, Claims, ClaimsRow
<1>10. BlocksStand'
  <2> SUFFICES ASSUME NEW b \in Requests, Answered(b, "blockUser")'
               PROVE  \/ <<req'[b].arg.by, req'[b].arg.to>> \in db'.blocks
                      \/ \E s \in Doing("unblockUser")' : s \notin prior'[b] /\ req'[s].arg = req'[b].arg
    BY DEF BlocksStand
  <2>1. CASE ~Answered(b, "blockUser")
    <3>1. b = m
      BY <1>2, <2>1 DEF Answered, At
    <3>2. ~At(m, "new")
      BY <1>e, <2>1, <3>1 DEF Answered, At, Ended, Ends
    <3> QED
      BY <1>3, <2>1, <3>1, <3>2 DEF Mine
  <2>2. CASE Answered(b, "blockUser")
    <3>1. ~At(b, "new") /\ prior'[b] = prior[b] /\ req'[b].arg = req[b].arg
      BY <1>3, <2>2 DEF Answered, At
    <3>2. CASE \E s \in Doing("unblockUser") : s \notin prior[b] /\ req[s].arg = req[b].arg
      BY <1>3, <3>1, <3>2 DEF Doing
    <3>3. CASE <<req[b].arg.by, req[b].arg.to>> \in db.blocks
      <4>1. CASE At(m, "unblockUser") /\ <<req[b].arg.by, req[b].arg.to>> = <<req[m].arg.by, req[m].arg.to>>
        <5>1. req[m].do = "unblockUser" /\ ~At(m, "new")
          BY <4>1 DEF NoticeInv, NoticeStatement, NoticeHandlers, Tellers, Pairs, Ends, At
        <5>2. req[m].arg = req[b].arg
          BY <2>2, <4>1, <5>1 DEF NoticeInv, NoticeStatement, Pairs, Answered
        <5>3. m \notin prior[b]
          BY <1>0, <4>1 DEF HistoryOK, PriorHasEnded, Ended, Ends, At
        <5> QED
          BY <1>3, <3>1, <5>1, <5>2, <5>3 DEF Doing
      <4> QED
        BY <3>1, <3>3, <4>1 DEF Frame, Unblocks
    <3> QED
      BY <2>2, <3>2, <3>3 DEF NoticeInv, BlocksStand
  <2> QED
    BY <2>1, <2>2
<1>11. MutesStand'
  <2> SUFFICES ASSUME NEW s \in Requests, Answered(s, "mute")' PROVE req'[s].arg.by \in db'.muted
    BY DEF MutesStand
  <2>1. CASE ~Answered(s, "mute")
    <3>1. s = m
      BY <1>2, <2>1 DEF Answered, At
    <3>2. ~At(m, "new")
      BY <1>e, <2>1, <3>1 DEF Answered, At, Ended, Ends
    <3> QED
      BY <1>3, <2>1, <3>1, <3>2 DEF Mine
  <2>2. CASE Answered(s, "mute")
    BY <1>3, <2>2 DEF NoticeInv, MutesStand, Frame, Answered, At
  <2> QED
    BY <2>1, <2>2
<1>12. ASSUME NEW r \in Requests, NEW of \in Ids \cup {"news", "reply"} PROVE NoticeRow(r, of)'
  <2>1. CASE db'.notice[<<r, of>>] = db.notice[<<r, of>>]
    <3>1. NoticeRow(r, of)
      BY DEF NoticeInv, NoticeRows
    <3> SUFFICES ASSUME NEW notice, notice = db.notice[<<r, of>>], notice # Nil, NEW u, u = notice.to
                 PROVE  /\ ~At(r, "new")'
                        /\ of \in Ids => db'.claimed[of] = r
                        /\ Heard(r, u)'
                        /\ req'[r].do \in ToOne => Unblocked(r)' /\ u = req'[r].arg.to
                        /\ notice.pushing + notice.pushed <= (IF notice.stored THEN 1 ELSE 0)
      BY <2>1 DEF NoticeRow, Heard, Before
    <3>2. /\ ~At(r, "new")
          /\ of \in Ids => db.claimed[of] = r
          /\ Heard(r, u)
          /\ req[r].do \in ToOne => Unblocked(r) /\ u = req[r].arg.to
          /\ notice.pushing + notice.pushed <= (IF notice.stored THEN 1 ELSE 0)
      BY <3>1 DEF NoticeRow
    <3>3. of \in Ids => db'.claimed[of] = r
      BY <3>2, CoreWorkerAssumption DEF Frame, Claims, ClaimsRow
    <3> QED
      BY <1>3, <1>4, <3>2, <3>3
  <2>2. CASE r = m /\ WritesNotice(m, of)
    <3> SUFFICES ASSUME NEW u \in People, db'.notice[<<m, of>>] = NewNotice(u)
                 PROVE  /\ ~At(m, "new")'
                        /\ of \in Ids => db'.claimed[of] = m
                        /\ Heard(m, u)'
                        /\ req'[m].do \in ToOne => Unblocked(m)' /\ u = req'[m].arg.to
      BY <2>2 DEF WritesNotice, NewNotice, NoticeRow, Heard, Before
    <3>1. NoticeStatement(m) /\ ClaimsWell(m) /\ Sends(m) /\ db'.notice[<<m, of>>].to = u
      BY DEF NoticeInv, NewNotice
    <3>2. CASE At(m, "tellDue") /\ of \in ToTell(m) /\ u = db.due[of].to
      <4>1. req[m].do = "notificationRun" /\ req[m].v \in RunRecord /\ ~At(m, "new") /\ ~At(m, "killed")
        BY <3>1, <3>2 DEF NoticeStatement, NoticeHandlers, Tellers, Pairs, Ends, At
      <4>2. of \in Ids /\ db.claimed[of] = m
        BY <3>1, <3>2, <4>1 DEF ClaimsWell, ToTell, RunRecord, At
      <4>3. Heard(m, u)
        BY <3>2, <4>2 DEF NoticeInv, Claimed
      <4>4. db'.claimed[of] = m
        BY <4>2, CoreWorkerAssumption DEF Frame, Claims, ClaimsRow
      <4> QED
        BY <1>3, <1>4, <4>1, <4>2, <4>3, <4>4 DEF ToOne
    <3>3. CASE At(m, "send") /\ of = Head(req[m].v).of /\ u = Head(req[m].v).to
      <4>1. req[m].do \in Tellers /\ req[m].v \in Seq(Tell) /\ req[m].v # <<>> /\ ~At(m, "new")
        BY <3>1, <3>3 DEF NoticeStatement, At
      <4>2. Head(req[m].v) = req[m].v[1] /\ Head(req[m].v) \in Tell /\ 1 \in 1..Len(req[m].v)
        BY <4>1
      <4>3. of \notin Ids
        BY <3>3, <4>2, NoticesAssumption DEF Tell
      <4>4. Heard(m, u)
        BY <3>1, <3>3 DEF Sends
      <4>5. req[m].do \in ToOne => Unblocked(m) /\ u = req[m].arg.to
        BY <3>1, <3>3, <4>2 DEF Sends, Passed, NoticeStatement, At
      <4> QED
        BY <1>3, <1>4, <4>1, <4>3, <4>4, <4>5
    <3> QED
      BY <2>2, <3>1, <3>2, <3>3 DEF WritesNotice
  <2> QED
    BY <2>1, <2>2 DEF Frame, Notifies
<1>13. DeviceShared'
  <2> SUFFICES ASSUME NEW u \in db'.device, NEW w \in db'.device, u # w
               PROVE  \E s \in Doing("registerDevice")' : req'[s].arg.by \in {u, w} /\ MetRegister(s)'
    BY DEF DeviceShared
  <2>1. CASE u \in db.device /\ w \in db.device
    <3>1. PICK s \in Doing("registerDevice") : req[s].arg.by \in {u, w} /\ MetRegister(s)
      BY <2>1 DEF NoticeInv, DeviceShared
    <3> QED
      BY <1>3, <1>4, <3>1 DEF Doing
  <2>2. CASE At(m, "deviceRow") /\ db'.device = (db.device \ OtherRows(m)) \cup {req[m].arg.by}
    <3>1. req[m].do = "registerDevice" /\ ~At(m, "new")
      BY <2>2 DEF NoticeInv, NoticeStatement, NoticeHandlers, Tellers, Pairs, Ends, At
    <3>2. CASE MetRegister(m) /\ req[m].arg.by \in {u, w}
      BY <1>3, <1>4, <3>1, <3>2 DEF Doing
    <3>3. CASE db.device \subseteq req[m].v \cup {req[m].arg.by}
      BY <2>2, <3>3 DEF OtherRows
    <3> QED
      BY <2>1, <2>2, <3>2, <3>3 DEF NoticeInv, DeviceMoves
  <2> QED
    BY <2>1, <2>2 DEF Frame, Moved
<1> QED
  BY <1>1, <1>5, <1>6, <1>7, <1>8, <1>9, <1>10, <1>11, <1>12, <1>13 DEF NoticeInv, NoticeRows, Frame

-----------------------------------------------------------------------------
LEMMA SameTables ==
    ASSUME NoticeInv, NEW m, db' = db
    PROVE  Frame(m)
  BY DEF NoticeInv, NoticeShape, Frame, Claims, Notifies, Unblocks, Moved

LEMMA Does ==
    ASSUME HistoryOK, NEW m \in Requests
    PROVE  \A statement, v, tables : Do(m, statement, v, tables) =>
              /\ req'[m].do = req[m].do /\ req'[m].arg = req[m].arg /\ req'[m].at = statement
              /\ statement \notin Ends => req'[m].v = v
              /\ db' = tables
  BY DoEffect

\* A run stays well where neither claims nor its own notices change.
LEMMA EndsWell ==
    ASSUME NoticeInv, NEW m \in Requests, Moves(m), req'[m].do = req[m].do, req[m].do # "notificationRun"
    PROVE  ClaimsWell(m)'
  BY DEF ClaimsWell

LEMMA ArriveGoes ==
    ASSUME NoticeInv, NEW m \in Requests, ArriveNotice(m)
    PROVE  Frame(m) /\ Mine(m)
<1>1. /\ At(m, "new") /\ db' = db /\ req'[m].v = Nil
      /\ req'[m].at = req'[m].do /\ CalledWith(req'[m].do, req'[m].arg)
  BY ArrivesNotice DEF NoticeInv
<1>2. Frame(m)
  BY <1>1, SameTables
<1>3. req'[m].at \in NoticeHandlers
  BY <1>1 DEF CalledWith
<1>4. NoticeStatement(m)'
  BY <1>1, <1>3 DEF CalledWith, NoticeStatement, NoticeHandlers, Tellers, Pairs, ToOne, Ends, At
<1>5. ClaimsWell(m)'
  <2>1. \A i \in Ids : db.claimed[i] # m /\ (db.due[i] # Nil => db.due[i].kind \in Kinds)
    BY <1>1 DEF NoticeInv, Claimed, NoticeShape, DueRecord
  <2>2. req'[m].do = "notificationRun" => ToTell(m)' = {} /\ ToClaim(m)' = Kinds
    BY <1>1 DEF ToTell, ToClaim, At
  <2> QED
    BY <1>1, <2>1, <2>2 DEF ClaimsWell
<1>6. ~At(m, "send")' /\ ~Passed(m)' /\ ~At(m, "deviceRow")' /\ ~At(m, "ok")'
  BY <1>3 DEF Passed, NoticeHandlers, Tellers, Pairs, At
<1> QED
  BY <1>2, <1>4, <1>5, <1>6 DEF Mine, Answered

\* A request that ends without a word changes nothing.
LEMMA StopsWell ==
    ASSUME NoticeInv, NEW m \in Requests, req'[m].do = req[m].do, req'[m].arg = req[m].arg, db' = db,
           NEW end \in {"refused", "killed"}, req'[m].at = end, ~At(m, "new"),
           end = "killed" \/ req[m].do # "notificationRun"
    PROVE  Frame(m) /\ Mine(m)
<1>1. Frame(m)
  BY SameTables
<1>2. NoticeStatement(m)'
  BY DEF NoticeInv, NoticeStatement, NoticeHandlers, Tellers, Pairs, ToOne, Ends, At
<1>3. ClaimsWell(m)'
  BY DEF ClaimsWell, At
<1> QED
  BY <1>1, <1>2, <1>3 DEF Mine, Passed, Answered, At

LEMMA ClaimGoes ==
    ASSUME NoticeInv, NEW m \in Requests, Claim(m)
    PROVE  Frame(m) /\ Mine(m)
<1>0. req[m].do = "notificationRun" /\ req[m].v \in RunRecord \cup {Nil} /\ At(m, "notificationRun")
  BY DEF Claim, NoticeInv, NoticeStatement, NoticeHandlers, Tellers, Pairs, Ends, At
<1> DEFINE run == IF req[m].v = Nil THEN [kinds |-> Kinds, won |-> {}] ELSE req[m].v
<1>1. run \in RunRecord /\ run.kinds = ToClaim(m) /\ run.won = ToTell(m)
  BY <1>0 DEF RunRecord, ToClaim, ToTell
<1>2. PICK kind \in run.kinds :
         Do(m, IF run.kinds = {kind} THEN "tellDue" ELSE "notificationRun",
            [kinds |-> run.kinds \ {kind}, won |-> run.won \cup Found(kind)],
            [db EXCEPT !.claimed = [i \in Ids |-> IF i \in Found(kind) THEN m ELSE @[i]]])
  BY DEF Claim
<1> HIDE DEF run
<1>3. /\ req'[m].do = req[m].do /\ req'[m].arg = req[m].arg
      /\ req'[m].at = IF run.kinds = {kind} THEN "tellDue" ELSE "notificationRun"
      /\ req'[m].v = [kinds |-> run.kinds \ {kind}, won |-> run.won \cup Found(kind)]
      /\ db' = [db EXCEPT !.claimed = [i \in Ids |-> IF i \in Found(kind) THEN m ELSE db.claimed[i]]]
  BY <1>2, Does DEF NoticeInv, Ends
<1>4. /\ \A i \in Ids : db'.claimed[i] = IF i \in Found(kind) THEN m ELSE db.claimed[i]
      /\ DOMAIN db'.claimed = Ids
      /\ DOMAIN db' = DOMAIN db /\ db'.due = db.due /\ db'.muted = db.muted /\ db'.blocks = db.blocks
      /\ db'.post = db.post /\ db'.offered = db.offered /\ db'.device = db.device /\ db'.notice = db.notice
  BY <1>3 DEF NoticeInv, NoticeShape
<1>5. Frame(m)
  BY <1>0, <1>4 DEF NoticeInv, NoticeShape, Frame, Claims, ClaimsRow, Found, Unclaimed, Notifies, Unblocks, Moved
<1>6. NoticeStatement(m)'
  <2>1. req'[m].v \in RunRecord
    BY <1>1, <1>3 DEF RunRecord, Found
  <2> QED
    BY <1>0, <1>3, <2>1 DEF NoticeInv, NoticeStatement, NoticeHandlers, Tellers, Pairs, ToOne, Ends, At
<1>7. ClaimsWell(m)'
  <2>1. req'[m].v # Nil
    BY <1>1, <1>3, NoticesAssumption DEF RunRecord, Found
  <2>2. ToTell(m)' = ToTell(m) \cup Found(kind)
    BY <1>1, <1>3, <2>1 DEF ToTell, At
  <2>3. ToClaim(m)' = ToClaim(m) \ {kind}
    BY <1>1, <1>3, <2>1 DEF ToClaim, At
  <2>4. ClaimsWell(m) /\ ~At(m, "killed")
    BY <1>0 DEF NoticeInv, At
  <2>5. \A i \in ToTell(m) : i \in Ids
    BY <1>1 DEF RunRecord
  <2>6. \A i \in Found(kind) : i \in Ids
    BY DEF Found
  <2>7. \A i \in ToTell(m)' : db'.claimed[i] = m
    BY <1>0, <1>4, <2>2, <2>4, <2>5, <2>6 DEF ClaimsWell
  <2>8. ASSUME NEW i \in Ids, db.due[i] # Nil, db'.claimed[i] = m PROVE i \in ToTell(m)' \/ db.notice[<<m, i>>] # Nil
    BY <1>0, <1>4, <2>2, <2>4, <2>8 DEF ClaimsWell
  <2>9. ASSUME NEW i \in Ids, db.due[i] # Nil
        PROVE  db'.claimed[i] # Nil \/ db.due[i].to \in db.muted \/ db.due[i].kind \in ToClaim(m)'
    BY <1>0, <1>4, <2>3, <2>4, <2>9, CoreWorkerAssumption DEF ClaimsWell, Found, Unclaimed
  <2> QED
    BY <1>4, <2>7, <2>8, <2>9 DEF ClaimsWell
<1> QED
  BY <1>3, <1>5, <1>6, <1>7 DEF Mine, Passed, Answered, At

\* A notice is written, of a new row.
LEMMA SentFrame ==
    ASSUME NoticeInv, NEW m \in Requests, NEW of \in Ids \cup {"news", "reply"}, NEW to \in People,
           db' = Sent(m, of, to),
           \/ At(m, "tellDue") /\ of \in ToTell(m) /\ to = db.due[of].to
           \/ At(m, "send") /\ of = Head(req[m].v).of /\ to = Head(req[m].v).to
    PROVE  Frame(m) /\ db'.notice[<<m, of>>] # Nil /\ db'.claimed = db.claimed /\ db'.due = db.due
           /\ db'.muted = db.muted /\ \A n \in Named \ {<<m, of>>} : db'.notice[n] = db.notice[n]
<1>0. <<m, of>> \in Named /\ NewNotice(to) \in NoticeRecord /\ NewNotice(to).to = to /\ NewNotice(to) # Nil
  <2>1. <<m, of>> \in Named
    BY DEF Named
  <2>2. NewNotice(to) \in NoticeRecord /\ NewNotice(to).to = to
    BY DEF NewNotice, NoticeRecord
  <2> QED
    BY <2>1, <2>2, NoticesAssumption
<1>1. /\ DOMAIN db' = DOMAIN db /\ db'.due = db.due /\ db'.claimed = db.claimed /\ db'.muted = db.muted
      /\ db'.blocks = db.blocks
      /\ db'.post = db.post /\ db'.offered = db.offered /\ db'.device = db.device
      /\ DOMAIN db'.notice = Named /\ db'.notice[<<m, of>>] = NewNotice(to)
      /\ \A n \in Named \ {<<m, of>>} : db'.notice[n] = db.notice[n]
  BY <1>0 DEF NoticeInv, NoticeShape, Sent
<1>2. NoticeShape'
  BY <1>0, <1>1 DEF NoticeInv, NoticeShape
<1>3. WritesNotice(m, of)
  BY <1>0, <1>1 DEF WritesNotice
<1>4. Notifies(m)
  <2> SUFFICES ASSUME NEW r \in Requests, NEW o \in Ids \cup {"news", "reply"},
                      db'.notice[<<r, o>>] # db.notice[<<r, o>>]
               PROVE  r = m /\ WritesNotice(m, o)
    BY DEF Notifies
  <2>1. <<r, o>> \in Named
    BY DEF Named
  <2>2. r = m /\ o = of
    BY <1>1, <2>1
  <2> QED
    BY <1>3, <2>2
<1> QED
  BY <1>0, <1>1, <1>2, <1>4 DEF Frame, Claims, Unblocks, Moved

LEMMA TellGoes ==
    ASSUME NoticeInv, NEW m \in Requests, TellDue(m)
    PROVE  Frame(m) /\ Mine(m)
<1>0. /\ At(m, "tellDue") /\ req[m].do = "notificationRun" /\ req[m].v \in RunRecord
      /\ ToTell(m) = req[m].v.won /\ ToClaim(m) = {} /\ ClaimsWell(m) /\ ~At(m, "killed")
  BY DEF TellDue, NoticeInv, NoticeStatement, NoticeHandlers, Tellers, Pairs, Ends, At, ToTell, ToClaim
<1>1. CASE req[m].v.won = {} /\ End(m, db)
  <2>1. req'[m].do = req[m].do /\ req'[m].arg = req[m].arg /\ req'[m].at = "ok" /\ db' = db
    BY <1>1, Does DEF NoticeInv, End
  <2>2. NoticeStatement(m)'
    BY <1>0, <2>1 DEF NoticeStatement, NoticeHandlers, Tellers, Pairs, ToOne, Ends, At
  <2>3. ToTell(m)' = {} /\ ToClaim(m)' = {}
    BY <2>1 DEF ToTell, ToClaim, At
  <2>4. ClaimsWell(m)'
    BY <1>0, <1>1, <2>1, <2>3 DEF ClaimsWell
  <2>5. Frame(m)
    BY <2>1, SameTables
  <2> QED
    BY <1>0, <2>1, <2>2, <2>4, <2>5 DEF Mine, Passed, Answered, At, ToOne
<1>2. ASSUME NEW i \in req[m].v.won,
             Do(m, "tellDue", [req[m].v EXCEPT !.won = @ \ {i}], Sent(m, i, db.due[i].to))
      PROVE  Frame(m) /\ Mine(m)
  <2>1. /\ req'[m].do = req[m].do /\ req'[m].arg = req[m].arg /\ req'[m].at = "tellDue"
        /\ req'[m].v = [req[m].v EXCEPT !.won = @ \ {i}] /\ db' = Sent(m, i, db.due[i].to)
    BY <1>2, Does DEF NoticeInv, Ends
  <2>2. i \in Ids /\ db.claimed[i] = m /\ db.due[i] # Nil /\ db.due[i].to \in People
    <3>1. i \in Ids /\ db.claimed[i] = m
      BY <1>0 DEF ClaimsWell, RunRecord
    <3>2. db.due[i] # Nil
      BY <3>1 DEF NoticeInv, Claimed
    <3> QED
      BY <3>1, <3>2 DEF NoticeInv, NoticeShape, DueRecord
  <2>3. /\ Frame(m) /\ db'.notice[<<m, i>>] # Nil /\ db'.claimed = db.claimed /\ db'.due = db.due
        /\ db'.muted = db.muted /\ \A n \in Named \ {<<m, i>>} : db'.notice[n] = db.notice[n]
    BY <1>0, <2>1, <2>2, SentFrame
  <2>4. req'[m].v \in RunRecord /\ req'[m].v.won = req[m].v.won \ {i}
    BY <1>0, <2>1 DEF RunRecord
  <2>5. NoticeStatement(m)'
    BY <1>0, <2>1, <2>4 DEF NoticeStatement, NoticeHandlers, Tellers, Pairs, ToOne, Ends, At
  <2>6. ToTell(m)' = ToTell(m) \ {i} /\ ToClaim(m)' = {}
    BY <1>0, <2>1, <2>4 DEF ToTell, ToClaim, At
  <2>7. \A j \in Ids \ {i} : db'.notice[<<m, j>>] = db.notice[<<m, j>>]
    BY <2>3 DEF Named
  <2>8. ClaimsWell(m)'
    BY <1>0, <2>3, <2>6, <2>7 DEF ClaimsWell
  <2> QED
    BY <1>0, <2>1, <2>3, <2>5, <2>8 DEF Mine, Passed, Answered, At, ToOne
<1> QED
  BY <1>0, <1>1, <1>2 DEF TellDue

\* Who tells others, and what is left to tell.
LEMMA NotifyGoes ==
    ASSUME NoticeInv, NEW m \in Requests, Moves(m), Notify(m)
    PROVE  Frame(m) /\ Mine(m)
<1>0. At(m, "notify") /\ req[m].do \in Tellers /\ req[m].v \in Seq(Tell) /\ NoticeStatement(m)
  <2>1. NoticeStatement(m)
    BY DEF NoticeInv
  <2> QED
    BY <2>1 DEF Notify, NoticeStatement, At
<1>1. /\ req'[m].do = req[m].do /\ req'[m].arg = req[m].arg /\ db' = db
      /\ \/ req'[m].at = "ok" /\ req[m].v = <<>>
         \/ req'[m].at = "send" /\ req'[m].v = req[m].v /\ req[m].v # <<>> /\ Head(req[m].v).to \notin db.muted
         \/ req'[m].at = "notify" /\ req'[m].v = Tail(req[m].v) /\ req[m].v # <<>>
  BY Does DEF NoticeInv, Notify, GoOn, End, Wants, Ends
<1>2. req[m].v # <<>> => /\ Tail(req[m].v) \in Seq(Tell) /\ Len(Tail(req[m].v)) = Len(req[m].v) - 1
                         /\ \A k \in 1..Len(Tail(req[m].v)) : Tail(req[m].v)[k] = req[m].v[k + 1] /\ k + 1 \in 1..Len(req[m].v)
  BY <1>0
<1>3. NoticeStatement(m)'
  <2>1. CASE req'[m].at = "ok"
    BY <1>0, <1>1, <2>1 DEF NoticeStatement, NoticeHandlers, Tellers, Pairs, ToOne, Ends, At
  <2>2. CASE req'[m].at = "send" /\ req'[m].v = req[m].v /\ req[m].v # <<>>
    BY <1>0, <1>1, <2>2 DEF NoticeStatement, NoticeHandlers, Tellers, Pairs, ToOne, Ends, At
  <2>3. CASE req'[m].at = "notify" /\ req'[m].v = Tail(req[m].v) /\ req[m].v # <<>>
    <3>1. req[m].do \in ToOne => \A k \in 1..Len(Tail(req[m].v)) : Tail(req[m].v)[k].to = req[m].arg.to
      BY <1>0, <1>2, <2>3 DEF NoticeStatement, At
    <3> QED
      BY <1>0, <1>1, <1>2, <2>3, <3>1 DEF NoticeStatement, NoticeHandlers, Tellers, Pairs, ToOne, Ends, At
  <2> QED
    BY <1>1, <2>1, <2>2, <2>3
<1>4. ClaimsWell(m)'
  BY <1>0, <1>1, EndsWell DEF Tellers
<1>5. Frame(m)
  BY <1>1, SameTables
<1>6. Passed(m)' => Passed(m)
  BY <1>0, <1>1 DEF Passed, At
<1> QED
  BY <1>0, <1>1, <1>3, <1>4, <1>5, <1>6 DEF Mine, Answered, At, Tellers

LEMMA SendGoes ==
    ASSUME NoticeInv, NEW m \in Requests, Moves(m), Send(m)
    PROVE  Frame(m) /\ Mine(m)
<1>0. At(m, "send") /\ req[m].do \in Tellers /\ req[m].v \in Seq(Tell) /\ req[m].v # <<>> /\ NoticeStatement(m)
  <2>1. NoticeStatement(m)
    BY DEF NoticeInv
  <2> QED
    BY <2>1 DEF Send, NoticeStatement, At
<1>1. /\ req'[m].do = req[m].do /\ req'[m].arg = req[m].arg
      /\ req'[m].at = "notify" /\ req'[m].v = Tail(req[m].v) /\ db' = Sent(m, Head(req[m].v).of, Head(req[m].v).to)
  BY Does DEF NoticeInv, Send, Ends
<1>2. /\ Tail(req[m].v) \in Seq(Tell) /\ Len(Tail(req[m].v)) = Len(req[m].v) - 1
      /\ \A k \in 1..Len(Tail(req[m].v)) : Tail(req[m].v)[k] = req[m].v[k + 1] /\ k + 1 \in 1..Len(req[m].v)
      /\ Head(req[m].v) \in Tell
  BY <1>0
<1>3. Frame(m)
  <2>1. PICK of, to : of = Head(req[m].v).of /\ to = Head(req[m].v).to
    OBVIOUS
  <2>2. of \in {"news", "reply"} /\ to \in People
    BY <1>2, <2>1 DEF Tell
  <2> QED
    BY <1>0, <1>1, <2>1, <2>2, SentFrame
<1>4. NoticeStatement(m)'
  <2>1. db'.post = db.post
    BY <1>3 DEF Frame
  <2>2. req[m].do \in ToOne => \A k \in 1..Len(Tail(req[m].v)) : Tail(req[m].v)[k].to = req[m].arg.to
    BY <1>0, <1>2 DEF NoticeStatement, At
  <2> QED
    BY <1>0, <1>1, <1>2, <2>1, <2>2 DEF NoticeStatement, NoticeHandlers, Tellers, Pairs, ToOne, Ends, At
<1>5. ClaimsWell(m)'
  BY <1>0, <1>1, EndsWell DEF Tellers
<1>6. Passed(m)' => Passed(m)
  BY <1>0, <1>1 DEF Passed, At
<1> QED
  BY <1>0, <1>1, <1>3, <1>4, <1>5, <1>6 DEF Mine, Answered, At, Tellers

\* Who comes to tell somebody.
LEMMA TellersGo ==
    ASSUME NoticeInv, NEW m \in Requests, Moves(m),
           CreateComment(m) \/ AiDone(m) \/ MessageRow(m) \/ ProfileOfferRow(m)
    PROVE  Frame(m) /\ Mine(m)
<1>1. NoticeStatement(m) /\ HistoryOK /\ req[m].do \in NoticeHandlers
  BY DEF NoticeInv, NoticeStatement, CreateComment, AiDone, MessageRow, ProfileOfferRow, At
<1>2. CASE ProfileOfferRow(m) /\ req'[m].at = "refused"
  <2>1. req'[m].do = req[m].do /\ req'[m].arg = req[m].arg /\ db' = db /\ ~At(m, "new") /\ req[m].do # "notificationRun"
    BY <1>1, <1>2, Does DEF ProfileOfferRow, Refuse, NoticeStatement, ToOne, At
  <2> QED
    BY <1>2, <2>1, StopsWell
<1>3. ASSUME NEW w, w \in Seq(Tell), req[m].do \in Tellers, req'[m].do = req[m].do, req'[m].arg = req[m].arg,
             req'[m].at = "notify", req'[m].v = w,
             req[m].do \in ToOne => Passed(m) /\ \A k \in 1..Len(w) : w[k].to = req[m].arg.to,
             Frame(m)
      PROVE  Frame(m) /\ Mine(m)
  <2>1. db'.post = db.post
    BY <1>3 DEF Frame
  <2>2. NoticeStatement(m)'
    BY <1>1, <1>3, <2>1 DEF NoticeStatement, NoticeHandlers, Tellers, Pairs, ToOne, Ends, At
  <2>3. ClaimsWell(m)'
    BY <1>3, EndsWell DEF Tellers
  <2>4. Passed(m)' => Passed(m)
    BY <1>3 DEF Passed
  <2> QED
    BY <1>3, <2>2, <2>3, <2>4 DEF Mine, Answered, At
<1>4. CASE CreateComment(m)
  <2>1. At(m, "createComment") /\ req[m].do = "createComment"
    BY <1>1, <1>4 DEF CreateComment, NoticeStatement, NoticeHandlers, Tellers, Pairs, Ends, At
  <2>2. PICK author, parent : author = db.post[req[m].arg.id] /\ parent = req[m].arg.parent
    OBVIOUS
  <2>3. author \in People /\ parent \in People \cup {Nil}
    BY <1>1, <2>1, <2>2 DEF NoticeInv, NoticeShape, NoticeStatement
  <2>4. PICK w : /\ w = (IF parent = Nil THEN <<News(author)>> ELSE <<News(author), [of |-> "reply", to |-> parent]>>)
                 /\ Do(m, "notify", w, db)
    BY <1>4, <2>2 DEF CreateComment, GoOn
  <2>5. w \in Seq(Tell)
    <3>1. News(author) \in Tell /\ (parent # Nil => [of |-> "reply", to |-> parent] \in Tell)
      BY <2>3 DEF News, Tell
    <3> QED
      BY <2>4, <3>1
  <2>6. req'[m].do = req[m].do /\ req'[m].arg = req[m].arg /\ req'[m].at = "notify" /\ req'[m].v = w /\ db' = db
    BY <1>1, <2>4, Does DEF Ends
  <2>7. Frame(m)
    BY <2>6, SameTables
  <2>8. req[m].do \in Tellers /\ req[m].do \notin ToOne
    BY <2>1 DEF Tellers, ToOne
  <2> QED
    BY <1>3, <2>5, <2>6, <2>7, <2>8
<1>5. CASE AiDone(m) \/ MessageRow(m)
  <2>1. req[m].do \in {"aiDone"} \cup ToOne /\ req[m].arg.to \in People /\ (req[m].do \in ToOne => Passed(m))
    BY <1>1, <1>5 DEF AiDone, MessageRow, NoticeStatement, NoticeHandlers, Tellers, ToOne, Pairs, Ends, At, Passed
  <2>2. PICK w : w = <<News(req[m].arg.to)>> /\ Do(m, "notify", w, db)
    BY <1>5 DEF AiDone, MessageRow, GoOn
  <2>3. News(req[m].arg.to) \in Tell /\ News(req[m].arg.to).to = req[m].arg.to
    BY <2>1 DEF News, Tell
  <2>4. w \in Seq(Tell) /\ \A k \in 1..Len(w) : w[k].to = req[m].arg.to
    BY <2>2, <2>3
  <2>5. req'[m].do = req[m].do /\ req'[m].arg = req[m].arg /\ req'[m].at = "notify" /\ req'[m].v = w /\ db' = db
    BY <1>1, <2>2, Does DEF Ends
  <2>6. Frame(m)
    BY <2>5, SameTables
  <2>7. req[m].do \in Tellers
    BY <2>1 DEF Tellers, ToOne
  <2> QED
    BY <1>3, <2>1, <2>4, <2>5, <2>6, <2>7
<1>6. CASE ProfileOfferRow(m) /\ req'[m].at # "refused"
  <2>1. req[m].do \in ToOne /\ req[m].arg.to \in People /\ Passed(m) /\ At(m, "profileOfferRow")
    BY <1>1, <1>6 DEF ProfileOfferRow, NoticeStatement, NoticeHandlers, Tellers, ToOne, Pairs, Ends, At, Passed
  <2>2. PICK w, offer : w = <<News(req[m].arg.to)>> /\ Do(m, "notify", w, [db EXCEPT !.offered[m] = offer])
    <3>1. ~Refuse(m)
      BY <1>1, <1>6, Does DEF Refuse
    <3> QED
      BY <1>6, <3>1 DEF ProfileOfferRow
  <2>3. News(req[m].arg.to) \in Tell /\ News(req[m].arg.to).to = req[m].arg.to
    BY <2>1 DEF News, Tell
  <2>4. w \in Seq(Tell) /\ \A k \in 1..Len(w) : w[k].to = req[m].arg.to
    BY <2>2, <2>3
  <2>5. /\ req'[m].do = req[m].do /\ req'[m].arg = req[m].arg /\ req'[m].at = "notify" /\ req'[m].v = w
        /\ db' = [db EXCEPT !.offered[m] = offer]
    BY <1>1, <2>2, Does DEF Ends
  <2>6. Frame(m)
    BY <2>5 DEF NoticeInv, NoticeShape, Frame, Claims, Notifies, Unblocks, Moved
  <2>7. req[m].do \in Tellers
    BY <2>1 DEF Tellers, ToOne
  <2> QED
    BY <1>3, <2>1, <2>4, <2>5, <2>6, <2>7
<1> QED
  BY <1>2, <1>4, <1>5, <1>6

\* Who opens a conversation with somebody, who blocks, and who turns notices off.
LEMMA OthersGo ==
    ASSUME NoticeInv, NEW m \in Requests, Moves(m),
           \/ OfferProfile(m) \/ PostOfferMessage(m) \/ BlockUser(m) \/ UnblockUser(m)
           \/ Mute(m) \/ RegisterDevice(m) \/ DeviceRow(m) \/ DeleteDevice(m) \/ Killed(m)
    PROVE  Frame(m) /\ Mine(m)
<1>1. NoticeStatement(m) /\ HistoryOK
  BY DEF NoticeInv
<1>2. CASE Killed(m)
  <2>1. req'[m].do = req[m].do /\ req'[m].arg = req[m].arg /\ db' = db /\ req'[m].at = "killed" /\ ~At(m, "new")
    BY <1>1, <1>2, Does DEF Killed, Open
  <2> QED
    BY <2>1, StopsWell
<1>3. CASE (OfferProfile(m) \/ PostOfferMessage(m)) /\ Refuse(m)
  <2>1. /\ req'[m].do = req[m].do /\ req'[m].arg = req[m].arg /\ db' = db /\ req'[m].at = "refused"
        /\ ~At(m, "new") /\ req[m].do # "notificationRun"
    BY <1>1, <1>3, Does DEF OfferProfile, PostOfferMessage, Refuse, NoticeStatement, At, Ends
  <2> QED
    BY <2>1, StopsWell
<1>4. CASE (OfferProfile(m) \/ PostOfferMessage(m)) /\ ~Refuse(m)
  <2>1. /\ req'[m].do = req[m].do /\ req'[m].arg = req[m].arg /\ db' = db
        /\ req'[m].at \in {"profileOfferRow", "messageRow"}
        /\ <<req[m].arg.to, req[m].arg.by>> \notin db.blocks
    BY <1>1, <1>4, Does DEF OfferProfile, PostOfferMessage, GoOn, Blocked, Ends
  <2>2. req[m].do \in ToOne /\ req[m].do \in Tellers /\ req[m].do \notin Pairs
    BY <1>1, <1>4 DEF OfferProfile, PostOfferMessage, NoticeStatement, NoticeHandlers, ToOne, Tellers, Pairs, Ends, At
  <2>3. Frame(m)
    BY <2>1, SameTables
  <2>4. NoticeStatement(m)'
    BY <1>1, <1>4, <2>1, <2>2 DEF OfferProfile, PostOfferMessage, NoticeStatement, NoticeHandlers, ToOne, Tellers, Pairs, Ends, At
  <2>5. ClaimsWell(m)'
    BY <2>1, <2>2, EndsWell DEF ToOne
  <2> QED
    BY <2>1, <2>2, <2>3, <2>4, <2>5 DEF Mine, Answered, At
<1>5. CASE BlockUser(m) \/ UnblockUser(m)
  <2>1. PICK blocks : db' = [db EXCEPT !.blocks = blocks]
    BY <1>1, <1>5, Does DEF BlockUser, UnblockUser, End
  <2>2. /\ req'[m].do = req[m].do /\ req'[m].arg = req[m].arg /\ req'[m].at = "ok" /\ req[m].do \in Pairs
        /\ ~At(m, "new") /\ ~At(m, "ok") /\ At(m, req[m].do)
    BY <1>1, <1>5, Does DEF BlockUser, UnblockUser, End, NoticeStatement, NoticeHandlers, Tellers, Pairs, ToOne, Ends, At
  <2>3. db'.blocks = blocks /\ blocks = IF At(m, "blockUser") THEN db.blocks \cup {<<req[m].arg.by, req[m].arg.to>>}
                                        ELSE db.blocks \ {<<req[m].arg.by, req[m].arg.to>>}
    <3>1. db'.blocks = IF At(m, "blockUser") THEN db.blocks \cup {<<req[m].arg.by, req[m].arg.to>>}
                                        ELSE db.blocks \ {<<req[m].arg.by, req[m].arg.to>>}
      <4>1. CASE BlockUser(m)
        <5>1. At(m, "blockUser") /\ db' = [db EXCEPT !.blocks = @ \cup {<<req[m].arg.by, req[m].arg.to>>}]
          BY <1>1, <4>1, Does DEF BlockUser, End
        <5> QED
          BY <5>1 DEF NoticeInv, NoticeShape
      <4>2. CASE UnblockUser(m)
        <5>1. ~At(m, "blockUser") /\ db' = [db EXCEPT !.blocks = @ \ {<<req[m].arg.by, req[m].arg.to>>}]
          BY <1>1, <4>2, Does DEF UnblockUser, End, At
        <5> QED
          BY <5>1 DEF NoticeInv, NoticeShape
      <4> QED
        BY <1>5, <4>1, <4>2
    <3>2. db'.blocks = blocks
      BY <2>1 DEF NoticeInv, NoticeShape
    <3> QED
      BY <3>1, <3>2
  <2>4. Frame(m)
    <3>1. Unblocks(m)
      BY <1>5, <2>3 DEF Unblocks, BlockUser, UnblockUser, At
    <3> QED
      BY <2>1, <3>1 DEF NoticeInv, NoticeShape, Frame, Claims, Notifies, Moved
  <2>5. NoticeStatement(m)'
    BY <1>1, <2>2 DEF NoticeStatement, NoticeHandlers, Tellers, Pairs, ToOne, Ends, At
  <2>6. ClaimsWell(m)'
    BY <2>2, EndsWell DEF Pairs
  <2>7. Answered(m, "blockUser")' => <<req[m].arg.by, req[m].arg.to>> \in db'.blocks
    BY <2>2, <2>3 DEF Answered, At
  <2> QED
    BY <2>2, <2>4, <2>5, <2>6, <2>7 DEF Mine, Passed, Answered, Pairs, ToOne, At
<1>6. CASE Mute(m)
  <2>1. /\ req'[m].do = req[m].do /\ req'[m].arg = req[m].arg /\ req'[m].at = "ok" /\ req[m].do = "mute"
        /\ db' = [db EXCEPT !.muted = @ \cup {req[m].arg.by}]
    BY <1>1, <1>6, Does DEF Mute, End, NoticeStatement, NoticeHandlers, Tellers, Pairs, ToOne, Ends, At
  <2>2. Frame(m) /\ req[m].arg.by \in db'.muted
    BY <2>1 DEF NoticeInv, NoticeShape, Frame, Claims, Notifies, Unblocks, Moved
  <2>3. NoticeStatement(m)'
    BY <1>1, <2>1 DEF NoticeStatement, NoticeHandlers, Tellers, Pairs, ToOne, Ends, At
  <2>4. ClaimsWell(m)'
    BY <2>1, EndsWell
  <2> QED
    BY <2>1, <2>2, <2>3, <2>4 DEF Mine, Passed, Answered, ToOne, At
<1>7. CASE RegisterDevice(m)
  <2>1. /\ req'[m].do = req[m].do /\ req'[m].arg = req[m].arg /\ req'[m].at = "deviceRow" /\ req'[m].v = db.device
        /\ req[m].do = "registerDevice" /\ db' = db
    BY <1>1, <1>7, Does DEF RegisterDevice, GoOn, NoticeStatement, NoticeHandlers, Tellers, Pairs, ToOne, Ends, At
  <2>2. Frame(m)
    BY <2>1, SameTables
  <2>3. NoticeStatement(m)'
    BY <1>1, <2>1 DEF NoticeStatement, NoticeHandlers, Tellers, Pairs, ToOne, Ends, At
  <2>4. ClaimsWell(m)'
    BY <2>1, EndsWell
  <2> QED
    BY <2>1, <2>2, <2>3, <2>4 DEF Mine, Passed, Answered, ToOne, At
<1>8. CASE DeviceRow(m) \/ DeleteDevice(m)
  <2>1. /\ req'[m].do = req[m].do /\ req'[m].arg = req[m].arg /\ req'[m].at = "ok"
        /\ req[m].do \in {"registerDevice", "deleteDevice"}
    BY <1>1, <1>8, Does DEF DeviceRow, DeleteDevice, End, NoticeStatement, NoticeHandlers, Tellers, Pairs, ToOne, Ends, At
  <2>2. PICK device : db' = [db EXCEPT !.device = device]
    BY <1>1, <1>8, Does DEF DeviceRow, DeleteDevice, End
  <2>3. Moved(m)
    <3>1. \/ At(m, "deviceRow") /\ db'.device = (db.device \ OtherRows(m)) \cup {req[m].arg.by}
          \/ db'.device = db.device \ {req[m].arg.by}
      BY <1>1, <1>8, Does DEF DeviceRow, DeleteDevice, End, NoticeInv, NoticeShape
    <3> QED
      BY <3>1 DEF Moved
  <2>4. Frame(m)
    BY <2>2, <2>3 DEF NoticeInv, NoticeShape, Frame, Claims, Notifies, Unblocks
  <2>5. NoticeStatement(m)'
    BY <1>1, <2>1 DEF NoticeStatement, NoticeHandlers, Tellers, Pairs, ToOne, Ends, At
  <2>6. ClaimsWell(m)'
    BY <2>1, EndsWell
  <2> QED
    BY <2>1, <2>4, <2>5, <2>6 DEF Mine, Passed, Answered, ToOne, At
<1> QED
  BY <1>2, <1>3, <1>4, <1>5, <1>6, <1>7, <1>8

\* A notice with some of its fields changed.
AsStored(old, runs, pushing) == [old EXCEPT !.runs = runs, !.stored = TRUE, !.pushing = pushing]
AsPushed(old, pushing, pushed) == [old EXCEPT !.pushing = pushing, !.pushed = pushed]

LEMMA StoredNotice ==
    ASSUME NEW old \in NoticeRecord, NEW runs \in Nat, NEW pushing \in Nat, NEW notice,
           notice = AsStored(old, runs, pushing)
    PROVE  /\ notice \in NoticeRecord /\ notice.to = old.to /\ notice.stored
           /\ notice.pushing = pushing /\ notice.pushed = old.pushed
<1>1. old = [to |-> old.to, runs |-> old.runs, stored |-> old.stored, pushing |-> old.pushing, pushed |-> old.pushed]
  BY DEF NoticeRecord
<1>2. notice = [to |-> old.to, runs |-> runs, stored |-> TRUE, pushing |-> pushing, pushed |-> old.pushed]
  BY <1>1 DEF AsStored
<1>3. old.to \in People /\ old.pushed \in Nat
  BY DEF NoticeRecord
<1> QED
  BY <1>2, <1>3 DEF NoticeRecord

LEMMA PushedNotice ==
    ASSUME NEW old \in NoticeRecord, NEW pushed \in Nat, NEW pushing \in Nat, NEW notice,
           notice = AsPushed(old, pushing, pushed)
    PROVE  /\ notice \in NoticeRecord /\ notice.to = old.to /\ notice.stored = old.stored
           /\ notice.pushing = pushing /\ notice.pushed = pushed
<1>1. old = [to |-> old.to, runs |-> old.runs, stored |-> old.stored, pushing |-> old.pushing, pushed |-> old.pushed]
  BY DEF NoticeRecord
<1>2. notice = [to |-> old.to, runs |-> old.runs, stored |-> old.stored, pushing |-> pushing, pushed |-> pushed]
  BY <1>1 DEF AsPushed
<1>3. old.to \in People /\ old.runs \in Nat /\ old.stored \in BOOLEAN
  BY DEF NoticeRecord
<1> QED
  BY <1>2, <1>3 DEF NoticeRecord

\* A run of the notify job touches one notice, and pushes it in the run that stored it.
LEMMA NoticeJobGoes ==
    ASSUME NoticeInv, NoticeJob
    PROVE  NoticeInv'
<1>1. PICK n \in Notices : StoreNotice(n) \/ PushNotice(n)
  BY DEF NoticeJob
<1>2. req' = req /\ prior' = prior
  BY <1>1 DEF StoreNotice, PushNotice
<1>3. n \in Named /\ db.notice[n] # Nil /\ db.notice[n] \in NoticeRecord
  BY DEF NoticeInv, NoticeShape, Notices
<1>f. /\ DOMAIN db.notice[n] = {"to", "runs", "stored", "pushing", "pushed"} /\ db.notice[n].to \in People
      /\ db.notice[n].runs \in Nat /\ db.notice[n].stored \in BOOLEAN /\ db.notice[n].pushing \in Nat
      /\ db.notice[n].pushed \in Nat
  BY <1>3 DEF NoticeRecord
<1>4. PICK notice : /\ db' = [db EXCEPT !.notice[n] = notice] /\ notice \in NoticeRecord /\ notice.to = db.notice[n].to
                    /\ db.notice[n].pushing + db.notice[n].pushed <= (IF db.notice[n].stored THEN 1 ELSE 0) =>
                          notice.pushing + notice.pushed <= (IF notice.stored THEN 1 ELSE 0)
  <2>1. CASE StoreNotice(n)
    <3>1. PICK old, runs, pushing, notice :
             /\ old = db.notice[n] /\ runs = old.runs + 1 /\ pushing = old.pushing + (IF Stores(old) THEN 1 ELSE 0)
             /\ notice = [old EXCEPT !.runs = runs, !.stored = TRUE, !.pushing = pushing]
             /\ db' = [db EXCEPT !.notice[n] = notice]
      BY <2>1 DEF StoreNotice
    <3>2. old \in NoticeRecord /\ runs \in Nat /\ pushing \in Nat
      BY <1>3, <1>f, <3>1
    <3>3. notice \in NoticeRecord /\ notice.to = old.to /\ notice.stored /\ notice.pushing = pushing
          /\ notice.pushed = old.pushed
      <4>1. notice = AsStored(old, runs, pushing)
        BY <3>1 DEF AsStored
      <4> QED
        BY <3>2, <4>1, StoredNotice
    <3>4. old = db.notice[n] /\ pushing = old.pushing + (IF ~old.stored THEN 1 ELSE 0)
      BY <3>1 DEF Stores
    <3>5. old.pushing + old.pushed <= (IF old.stored THEN 1 ELSE 0) => notice.pushing + notice.pushed <= 1
      BY <1>f, <3>3, <3>4
    <3> QED
      BY <3>1, <3>3, <3>4, <3>5
  <2>2. CASE PushNotice(n)
    <3>1. PICK old, pushed, pushing, notice :
             /\ old = db.notice[n] /\ pushed = old.pushed + 1 /\ pushing = old.pushing - 1 /\ old.pushing > 0
             /\ notice = [old EXCEPT !.pushing = pushing, !.pushed = pushed]
             /\ db' = [db EXCEPT !.notice[n] = notice]
      BY <2>2 DEF PushNotice
    <3>2. old \in NoticeRecord /\ pushed \in Nat /\ pushing \in Nat
      BY <1>3, <1>f, <3>1
    <3>3. notice \in NoticeRecord /\ notice.to = old.to /\ notice.stored = old.stored /\ notice.pushing = pushing
          /\ notice.pushed = pushed
      <4>1. notice = AsPushed(old, pushing, pushed)
        BY <3>1 DEF AsPushed
      <4> QED
        BY <3>2, <4>1, PushedNotice
    <3>4. old = db.notice[n] /\ pushing = old.pushing - 1 /\ pushed = old.pushed + 1
      BY <3>1
    <3>5. notice.pushing + notice.pushed = old.pushing + old.pushed
      BY <1>f, <3>3, <3>4
    <3> QED
      BY <3>1, <3>3, <3>4, <3>5
  <2> QED
    BY <1>1, <2>1, <2>2
<1>5. /\ DOMAIN db' = DOMAIN db /\ db'.due = db.due /\ db'.claimed = db.claimed /\ db'.muted = db.muted
      /\ db'.blocks = db.blocks /\ db'.post = db.post /\ db'.offered = db.offered /\ db'.device = db.device
      /\ DOMAIN db'.notice = Named /\ db'.notice[n] = notice
      /\ \A k \in Named \ {n} : db'.notice[k] = db.notice[k]
  BY <1>3, <1>4 DEF NoticeInv, NoticeShape
<1>6. notice # Nil
  BY <1>4, NoticesAssumption
<1>7. NoticeShape'
  BY <1>4, <1>5 DEF NoticeInv, NoticeShape
<1>8. HistoryOK'
  BY <1>2 DEF NoticeInv, HistoryOK, RequestShape, PriorHasEnded, Ended, At
<1>9. \A r \in Requests, i \in Ids : db.notice[<<r, i>>] # Nil => db'.notice[<<r, i>>] # Nil
  BY <1>5, <1>6 DEF Named
<1>10. \A r \in Requests : NoticeStatement(r)' /\ ClaimsWell(r)' /\ Sends(r)' /\ DeviceMoves(r)'
  <2> SUFFICES ASSUME NEW r \in Requests PROVE NoticeStatement(r)' /\ ClaimsWell(r)' /\ Sends(r)' /\ DeviceMoves(r)'
    OBVIOUS
  <2>1. NoticeStatement(r) /\ ClaimsWell(r) /\ Sends(r) /\ DeviceMoves(r)
    BY DEF NoticeInv
  <2>2. NoticeStatement(r)'
    BY <1>2, <1>5, <2>1 DEF NoticeStatement, At
  <2>3. ClaimsWell(r)'
    BY <1>2, <1>5, <1>9, <2>1 DEF ClaimsWell, ToTell, ToClaim, At
  <2>4. Sends(r)'
    BY <1>2, <2>1 DEF Sends, Passed, Unblocked, Heard, Before, Answered, Doing, At
  <2>5. DeviceMoves(r)'
    BY <1>2, <1>5, <2>1 DEF DeviceMoves, MetRegister, MetAny, Met, At
  <2> QED
    BY <2>2, <2>3, <2>4, <2>5
<1>11. Claimed' /\ BlocksStand' /\ MutesStand' /\ DeviceShared'
  BY <1>2, <1>5 DEF NoticeInv, Claimed, BlocksStand, MutesStand, DeviceShared, MetRegister, MetAny, Met, Heard,
     Before, Answered, Doing, At
<1>12. NoticeRows'
  <2> SUFFICES ASSUME NEW r \in Requests, NEW of \in Ids \cup {"news", "reply"} PROVE NoticeRow(r, of)'
    BY DEF NoticeRows
  <2>1. NoticeRow(r, of) /\ <<r, of>> \in Named
    BY DEF NoticeInv, NoticeRows, Named
  <2>2. db'.notice[<<r, of>>] # Nil => db.notice[<<r, of>>] # Nil /\ db'.notice[<<r, of>>].to = db.notice[<<r, of>>].to
        /\ db'.notice[<<r, of>>].pushing + db'.notice[<<r, of>>].pushed
              <= (IF db'.notice[<<r, of>>].stored THEN 1 ELSE 0)
    BY <1>3, <1>4, <1>5, <2>1 DEF NoticeRow
  <2> QED
    BY <1>2, <1>5, <2>1, <2>2 DEF NoticeRow, Heard, Unblocked, Before, Answered, Doing, At
<1> QED
  BY <1>7, <1>8, <1>10, <1>11, <1>12 DEF NoticeInv

LEMMA NoticesTold == NoticeInv => ToldOnce
<1> SUFFICES ASSUME NoticeInv PROVE ToldOnce
  OBVIOUS
<1>1. ASSUME NEW i \in Ids, db.due[i] # Nil
      PROVE  Cardinality({r \in Requests : db.notice[<<r, i>>] # Nil}) <= 1
  <2>1. \A r \in Requests : db.notice[<<r, i>>] # Nil => db.claimed[i] = r
    BY DEF NoticeInv, NoticeRows, NoticeRow
  <2> DEFINE told == {r \in Requests : db.notice[<<r, i>>] # Nil}
  <2>2. told = {} \/ \E r : told = {r}
    BY <2>1
  <2> HIDE DEF told
  <2>3. Cardinality(told) = 0 \/ Cardinality(told) = 1
    <3>1. CASE told = {}
      BY <3>1, FS_EmptySet
    <3>2. ASSUME NEW r, told = {r} PROVE Cardinality(told) = 1
      BY <3>2, FS_Singleton
    <3> QED
      BY <2>2, <3>1, <3>2
  <2>4. Cardinality(told) <= 1
    BY <2>3
  <2> QED
    BY <2>4 DEF told
<1>2. ASSUME NEW i \in Ids, db.due[i] # Nil, NEW r \in Doing("notificationRun"), At(r, "ok")
      PROVE  /\ db.claimed[i] = r => db.notice[<<r, i>>] # Nil
             /\ db.claimed[i] # Nil \/ db.due[i].to \in db.muted
  <2>1. r \in Requests /\ req[r].do = "notificationRun" /\ ~At(r, "killed") /\ ToTell(r) = {} /\ ToClaim(r) = {}
    BY <1>2 DEF Doing, At, ToTell, ToClaim
  <2> QED
    BY <1>2, <2>1 DEF NoticeInv, ClaimsWell
<1>3. ASSUME NEW n \in Notices
      PROVE  /\ db.notice[n].pushed <= 1
             /\ Before(n[1], "mute", db.notice[n].to) = {}
             /\ req[n[1]].do \in {"offerProfile", "postOfferMessage"} =>
                   \A b \in Before(n[1], "blockUser", db.notice[n].to) :
                       req[b].arg.to = req[n[1]].arg.by =>
                           \E s \in Doing("unblockUser") : s \notin prior[b] /\ req[s].arg = req[b].arg
  <2>1. PICK r \in Requests, of \in Ids \cup {"news", "reply"} : n = <<r, of>>
    BY DEF NoticeInv, NoticeShape, Notices, Named
  <2>2. n \in Named /\ NoticeRow(r, of) /\ db.notice[n] # Nil /\ db.notice[n] \in NoticeRecord /\ n[1] = r
    BY <2>1 DEF NoticeInv, NoticeShape, Notices, NoticeRows
  <2>3. db.notice[n].pushing \in Nat /\ db.notice[n].pushed \in Nat
    BY <2>2 DEF NoticeRecord
  <2>4. db.notice[n].pushed <= 1
    BY <2>1, <2>2, <2>3 DEF NoticeRow
  <2>5. Before(r, "mute", db.notice[n].to) = {}
    BY <2>1, <2>2 DEF NoticeRow, Heard
  <2>6. req[r].do \in ToOne => Unblocked(r) /\ db.notice[n].to = req[r].arg.to
    BY <2>1, <2>2 DEF NoticeRow
  <2> QED
    BY <2>2, <2>4, <2>5, <2>6 DEF ToOne, Unblocked
<1>4. \A u, w \in db.device :
          u = w \/ \E s \in Doing("registerDevice") :
                       req[s].arg.by \in {u, w} /\ MetAny(s, {"registerDevice"})
  BY DEF NoticeInv, DeviceShared, MetRegister, Registers
<1> QED
  BY <1>1, <1>2, <1>3, <1>4 DEF ToldOnce

LEMMA NoticeStays ==
    ASSUME NoticeInv, UNCHANGED vars
    PROVE  NoticeInv'
<1>1. db' = db /\ req' = req /\ prior' = prior
  BY DEF vars
<1>2. HistoryOK' /\ NoticeShape'
  BY <1>1 DEF NoticeInv, HistoryOK, RequestShape, PriorHasEnded, Ended, At, NoticeShape
<1>3. ASSUME NEW r \in Requests PROVE NoticeStatement(r)' /\ ClaimsWell(r)' /\ Sends(r)' /\ DeviceMoves(r)'
  <2>1. NoticeStatement(r) /\ ClaimsWell(r) /\ Sends(r) /\ DeviceMoves(r)
    BY DEF NoticeInv
  <2>2. NoticeStatement(r)' /\ ClaimsWell(r)'
    BY <1>1, <2>1 DEF NoticeStatement, ClaimsWell, ToTell, ToClaim, At
  <2>3. Sends(r)' /\ DeviceMoves(r)'
    BY <1>1, <2>1 DEF Sends, Passed, Unblocked, Heard, Before, Answered, Doing, DeviceMoves, MetRegister, MetAny, Met, At
  <2> QED
    BY <2>2, <2>3
<1>4. Claimed' /\ BlocksStand' /\ MutesStand' /\ DeviceShared'
  BY <1>1 DEF NoticeInv, Claimed, BlocksStand, MutesStand, DeviceShared, MetRegister, MetAny, Met, Heard,
     Before, Answered, Doing, At
<1>5. NoticeRows'
  <2> SUFFICES ASSUME NEW r \in Requests, NEW of \in Ids \cup {"news", "reply"} PROVE NoticeRow(r, of)'
    BY DEF NoticeRows
  <2>1. NoticeRow(r, of)
    BY DEF NoticeInv, NoticeRows
  <2> QED
    BY <1>1, <2>1 DEF NoticeRow, Heard, Unblocked, Before, Answered, Doing, At
<1> QED
  BY <1>2, <1>3, <1>4, <1>5 DEF NoticeInv

\* Every notice is told as its user would have it, whatever runs at once: any
\* number of notification runs claim each due notice for one of them, which
\* tells it unless it was dropped; what a request sends is pushed at most once
\* however often its job runs; and nobody hears of what began after they had
\* turned notices off, or from somebody they had blocked.  The claim is the key
\* of the due notice, and a push is left only to the run that stored the row.
THEOREM NoticesAreTold == NoticeSpec => []ToldOnce
<1>1. ASSUME NoticeInv, NEW r \in Requests, NoticeMove(r)
      PROVE  NoticeInv'
  <2>1. Moves(r)
    BY <1>1, NoticeMoves DEF NoticeInv
  <2>2. Frame(r) /\ Mine(r)
    BY <1>1, <2>1, ArriveGoes, ClaimGoes, TellGoes, NotifyGoes, SendGoes, TellersGo, OthersGo DEF NoticeMove, NoticeStep
  <2> QED
    BY <1>1, <2>1, <2>2, NoticeInvStep
<1>2. NoticeInv /\ [(\E r \in Requests : NoticeMove(r)) \/ NoticeJob]_vars => NoticeInv'
  BY <1>1, NoticeJobGoes, NoticeStays
<1> QED
  BY <1>2, NoticeInvInit, NoticesTold, PTL DEF NoticeSpec


-----------------------------------------------------------------------------
(***************************************************************************)
(* Edits: what a request has read of a row against the row as it is.       *)
(***************************************************************************)

\* The handlers of the rows with a revision, and of those without.
Revised ==
    {"createJob", "patchJob", "patchConversation", "archiveConversation", "deleteConversation", "postAttachment"}
Unrevised == {"patchCompany", "patchSettings", "patchMyProfile", "setBaseProfile"}
EditHandlers == Revised \cup Unrevised

\* A behaviour edits rows that are all with a revision, or of one table.
OneTable ==
    \E table \in {Revised, {"patchCompany"}, {"patchSettings"}, {"patchMyProfile", "setBaseProfile"}} :
        mix \cap EditHandlers \subseteq table

EditHome(h, statement) ==
    \/ statement \in Ends
    \/ h = "none" /\ statement = "new"
    \/ h = "createJob" /\ statement \in {"createJob", "ingestJob"}
    \/ h = "patchJob" /\ statement \in {"patchJob", "jobRow", "ingestJob"}
    \/ h = "patchConversation" /\ statement \in {"patchConversation", "conversationRow"}
    \/ h = "archiveConversation" /\ statement \in {"archiveConversation", "archiveConversationRow", "dropFiles"}
    \/ h = "deleteConversation" /\ statement \in {"deleteConversation", "dropConversation"}
    \/ h = "postAttachment" /\ statement \in {"postAttachment", "storeFile"}
    \/ h = "patchCompany" /\ statement \in {"patchCompany", "companyRow"}
    \/ h = "patchSettings" /\ statement \in {"patchSettings", "localeRow", "settingsRow"}
    \/ h = "patchMyProfile" /\ statement \in {"patchMyProfile", "nameRow", "profileRow", "contactRow"}
    \/ h = "setBaseProfile" /\ statement \in {"setBaseProfile", "baseProfileRow"}

EditsAtHome(r) ==
    /\ EditHome(req[r].do, req[r].at)
    /\ req[r].do # "none" => req[r].do \in mix \cap EditHandlers

EditRow(r) == db.edited[req[r].arg.id]

\* The row a request names was there when it began, and only a conversation
\* goes away.
NamesRow(r) ==
    req[r].do \in EditHandlers \ {"createJob"} =>
        /\ req[r].arg.id \in Ids
        /\ req[r].arg.id \in Requests => ~At(req[r].arg.id, "new") /\ ~At(req[r].arg.id, "createJob")
        /\ EditRow(r) = Nil => "deleteConversation" \in mix
        /\ req[r].do = "patchJob" =>
              /\ req[r].arg.expected \in Nat
              /\ EditRow(r) # Nil => req[r].arg.expected <= EditRow(r).rev

RevisedRows == {"jobRow", "conversationRow", "archiveConversationRow"}
UnrevisedRows == {"companyRow", "localeRow", "settingsRow", "nameRow", "profileRow", "contactRow", "baseProfileRow"}
EditHolds(r) == req[r].at \in RevisedRows \cup UnrevisedRows => req[r].v \in EditedRecord

\* The same revision is the same row.
AsRead(r) ==
    req[r].at \in RevisedRows /\ EditRow(r) # Nil =>
        /\ req[r].v.rev <= EditRow(r).rev
        /\ req[r].v.rev = EditRow(r).rev => req[r].v.cols = EditRow(r).cols
        /\ At(r, "jobRow") => req[r].arg.expected <= req[r].v.rev

\* The columns that are yet to be written back are as they were read, or a
\* request that may have set them was open at the same time.
EditCrossed(r) == MetAny(r, {req[r].do, "setBaseProfile"})
OrCrossed(r) ==
    /\ req[r].at \in {"localeRow", "settingsRow", "nameRow", "profileRow"} =>
          req[r].v.cols["text"] = EditRow(r).cols["text"] \/ EditCrossed(r)
    /\ req[r].at \in {"localeRow", "settingsRow", "nameRow"} =>
          req[r].v.cols["name"] = EditRow(r).cols["name"] \/ EditCrossed(r)

\* A row a request inserts is not there before.
Unborn(r) == At(r, "new") \/ At(r, "createJob") => db.edited[r] = Nil

EditKept(r) == EditsAtHome(r) /\ NamesRow(r) /\ EditHolds(r) /\ AsRead(r) /\ OrCrossed(r) /\ Unborn(r)

EditFields == {"edited", "files", "ingest", "reads", "node", "behind", "document", "version"}
EditShape == EditFields \subseteq DOMAIN db /\ db.edited \in [Ids -> EditedRecord \cup {Nil}]

EditInv == HistoryOK /\ OneTable /\ EditShape /\ \A r \in Requests : EditKept(r)

EditInit ==
    RequestsInit /\ OneTable /\ EditShape /\ \A r \in Requests : db.edited[r] = Nil

EditMove(r) == EditStep(r) \/ Begin(r, "createJob", Nil) \/ CreateJob(r) \/ StoreIngest(r) \/ Killed(r)
EditNext == (\E r \in Requests : EditMove(r)) \/ IngestStep
EditSpec == EditInit /\ [][EditNext]_vars

-----------------------------------------------------------------------------
\* What a statement may do to a row: a row with a revision gets the next one; and
\* only what was asked for is changed, or undone by a request that crossed.
RowMoves(m, i, row) ==
    \/ row = db.edited[i]
    \/ At(m, "createJob") /\ i = m
    \/ At(m, "dropConversation") /\ row = Nil
    \/ /\ Open(m) /\ db.edited[i] # Nil /\ row # Nil
       /\ \/ req[m].do \in Revised /\ row.rev = db.edited[i].rev + 1
          \/ req[m].do \in Unrevised /\ row.rev = db.edited[i].rev

AskedOrCrossed(m, row, next) ==
    \A c \in Columns :
        next.cols[c] # row.cols[c] =>
            \/ next.cols[c] = m /\ c \in Asked(m)
            \/ req[m].do \in {"patchSettings", "patchMyProfile"} /\ EditCrossed(m)

EditWrites(m) ==
    \E i \in Ids : \E row \in EditedRecord \cup {Nil} :
        /\ db'.edited = [db.edited EXCEPT ![i] = row]
        /\ RowMoves(m, i, row)
        /\ db.edited[i] # Nil /\ row \notin {Nil, db.edited[i]} =>
              AskedOrCrossed(m, db.edited[i], row) /\ req'[m].at # req[m].at

EditGoes(m) ==
    /\ Moves(m) /\ EditWrites(m) /\ EditKept(m)' /\ mix' = mix
    /\ At(m, "createJob")' => At(m, "new")
    /\ DOMAIN db' = DOMAIN db

LEMMA EditThere ==
    ASSUME EditInv, NEW r \in Requests
    PROVE  /\ HistoryOK /\ EditsAtHome(r) /\ NamesRow(r) /\ EditHolds(r) /\ AsRead(r) /\ OrCrossed(r) /\ Unborn(r)
           /\ EditFields \subseteq DOMAIN db /\ db.edited \in [Ids -> EditedRecord \cup {Nil}]
           /\ r \in Ids
  BY DEF EditInv, EditKept, EditShape, Ids

LEMMA EditCrossedStays ==
    ASSUME HistoryOK, NEW m \in Requests, Moves(m), NEW r \in Requests, EditCrossed(r)
    PROVE  EditCrossed(r)'
<1>1. PICK s \in Requests : req[s].do \in {req[r].do, "setBaseProfile"} /\ Met(r, s)
  BY DEF EditCrossed, MetAny
<1>2. ~At(r, "new") /\ ~At(s, "new")
  BY <1>1 DEF Met
<1>3. req'[r].do = req[r].do /\ req'[s].do = req[s].do
  BY <1>2, OthersStay
<1>4. Met(r, s)'
  BY <1>1, MetStays
<1> QED
  BY <1>1, <1>3, <1>4 DEF EditCrossed, MetAny

\* A request that edits a row another has read crosses it.
LEMMA OpenCross ==
    ASSUME EditInv, NEW m \in Requests, NEW r \in Requests, m # r, Open(m), Open(r), Moves(m),
           req[m].do \in {req[r].do, "setBaseProfile"}
    PROVE  EditCrossed(r)'
<1>1. Met(r, m)
  BY OpenMeet DEF EditInv
<1>2. EditCrossed(r)
  BY <1>1 DEF EditCrossed, MetAny
<1> QED
  BY <1>2, EditCrossedStays DEF EditInv

-----------------------------------------------------------------------------
(***************************************************************************)
(* The other requests keep what they have read of the row.                 *)
(***************************************************************************)

LEMMA OneTableTogether ==
    ASSUME EditInv, NEW m \in Requests, NEW r \in Requests, req[m].do \in EditHandlers, req[r].do \in EditHandlers
    PROVE  /\ req[r].do \in Revised => req[m].do \notin Unrevised
           /\ req[r].do \in Unrevised => req[m].do \notin Revised
           /\ req[r].do \in {"patchSettings", "patchMyProfile"} => req[m].do \in {req[r].do, "setBaseProfile"}
<1>1. req[m].do \in mix \cap EditHandlers /\ req[r].do \in mix \cap EditHandlers
  BY EditThere DEF EditsAtHome, EditHandlers, Revised, Unrevised
<1>2. PICK table \in {Revised, {"patchCompany"}, {"patchSettings"}, {"patchMyProfile", "setBaseProfile"}} :
         mix \cap EditHandlers \subseteq table
  BY DEF EditInv, OneTable
<1>3. req[m].do \in table /\ req[r].do \in table
  BY <1>1, <1>2
<1> QED
  BY <1>2, <1>3 DEF Revised, Unrevised

LEMMA EditOthers ==
    ASSUME EditInv, NEW m \in Requests, Moves(m), EditWrites(m), mix' = mix,
           At(m, "createJob")' => At(m, "new"), NEW r \in Requests, r # m
    PROVE  EditKept(r)'
<1>1. PICK i \in Ids, row \in EditedRecord \cup {Nil} :
         db'.edited = [db.edited EXCEPT ![i] = row] /\ RowMoves(m, i, row)
  BY DEF EditWrites
<1>2. req'[r] = req[r]
  BY OthersStay, EditThere
<1>3. /\ HistoryOK /\ EditsAtHome(r) /\ NamesRow(r) /\ EditHolds(r) /\ AsRead(r) /\ OrCrossed(r) /\ Unborn(r)
      /\ EditsAtHome(m)
      /\ db.edited \in [Ids -> EditedRecord \cup {Nil}]
  BY EditThere
<1>4. \A j \in Ids : db'.edited[j] = IF j = i THEN row ELSE db.edited[j]
  BY <1>1, <1>3
<1>5. EditsAtHome(r)' /\ EditHolds(r)'
  BY <1>2, <1>3 DEF EditsAtHome, EditHolds, EditHome
<1>6. Unborn(r)'
  <2>1. CASE ~(At(r, "new") \/ At(r, "createJob"))
    BY <1>2, <2>1 DEF Unborn, At
  <2>2. CASE At(r, "new") \/ At(r, "createJob")
    <3>1. db.edited[r] = Nil /\ r \in Ids
      BY <1>3, <2>2 DEF Unborn, Ids
    <3>2. db'.edited[r] = Nil
      BY <1>1, <1>4, <3>1 DEF RowMoves
    <3> QED
      BY <3>2 DEF Unborn
  <2> QED
    BY <2>1, <2>2
<1>7. ASSUME req[r].do \in EditHandlers \ {"createJob"}
      PROVE  /\ req[r].arg.id \in Ids
             /\ ~(At(m, "createJob") /\ i = m /\ req[r].arg.id = i)
             /\ EditRow(r)' = IF req[r].arg.id = i THEN row ELSE EditRow(r)
  <2>1. req[r].arg.id \in Ids
    BY <1>3, <1>7 DEF NamesRow
  <2>2. EditRow(r)' = db'.edited[req[r].arg.id]
    BY <1>2 DEF EditRow
  <2>3. ~(At(m, "createJob") /\ i = m /\ req[r].arg.id = i)
    BY <1>3, <1>7 DEF NamesRow
  <2> QED
    BY <1>4, <2>1, <2>2, <2>3 DEF EditRow
<1>8. NamesRow(r)'
  <2> SUFFICES ASSUME req[r].do \in EditHandlers \ {"createJob"}
               PROVE  NamesRow(r)'
    BY <1>2 DEF NamesRow
  <2>1. \A s \in Requests : s = req[r].arg.id => ~At(s, "new")' /\ ~At(s, "createJob")'
    <3>1. \A s \in Requests : ~At(s, "new") => ~At(s, "new")'
      BY OthersStay, <1>3
    <3>2. \A s \in Requests : s # m => req'[s] = req[s]
      BY OthersStay, <1>3
    <3>3. \A s \in Requests : ~At(s, "new") /\ ~At(s, "createJob") => ~At(s, "createJob")'
      BY <3>2 DEF At
    <3>4. \A s \in Requests : s = req[r].arg.id => ~At(s, "new") /\ ~At(s, "createJob")
      BY <1>3 DEF NamesRow
    <3> QED
      BY <3>1, <3>3, <3>4
  <2>2. EditRow(r)' = Nil => "deleteConversation" \in mix'
    <3>1. row = Nil /\ db.edited[i] # Nil /\ req[r].arg.id = i => At(m, "dropConversation") \/ (At(m, "createJob") /\ i = m)
      BY <1>1 DEF RowMoves
    <3>2. At(m, "dropConversation") => "deleteConversation" \in mix
      BY <1>3 DEF EditsAtHome, EditHome, At, Ends
    <3>3. EditRow(r) = Nil => "deleteConversation" \in mix
      BY <1>3 DEF NamesRow
    <3> QED
      BY <1>7, <3>1, <3>2, <3>3 DEF EditRow
  <2>3. ASSUME req[r].do = "patchJob"
        PROVE  /\ req[r].arg.expected \in Nat
               /\ EditRow(r)' # Nil => req[r].arg.expected <= EditRow(r)'.rev
    <3>1. req[r].arg.expected \in Nat /\ (EditRow(r) # Nil => req[r].arg.expected <= EditRow(r).rev)
      BY <1>3, <2>3 DEF NamesRow
    <3>2. CASE EditRow(r)' = EditRow(r)
      BY <3>1, <3>2
    <3>3. CASE EditRow(r)' # EditRow(r)
      <4>1. req[r].arg.id = i /\ EditRow(r)' = row /\ EditRow(r) = db.edited[i]
        BY <1>7, <3>3 DEF EditRow
      <4>2. row # Nil => db.edited[i] # Nil /\ row.rev \in {db.edited[i].rev, db.edited[i].rev + 1}
        BY <1>1, <1>7, <3>3, <4>1 DEF RowMoves
      <4>3. row # Nil => db.edited[i].rev \in Nat
        BY <1>3, <4>2 DEF EditedRecord
      <4> QED
        BY <3>1, <4>1, <4>2, <4>3
    <3> QED
      BY <3>2, <3>3
  <2> QED
    BY <1>2, <1>7, <2>1, <2>2, <2>3 DEF NamesRow
<1>9. AsRead(r)'
  <2>1. CASE req[r].at \notin RevisedRows
    BY <1>2, <2>1 DEF AsRead
  <2>2. CASE req[r].at \in RevisedRows
    <3>1. req[r].do \in Revised \ {"createJob"} /\ Open(r)
      BY <1>3, <2>2 DEF EditsAtHome, EditHome, RevisedRows, Revised, Ends, Open, Ended, At
    <3>2. req[r].do \in EditHandlers \ {"createJob"}
      BY <3>1 DEF EditHandlers
    <3>3. CASE EditRow(r)' = EditRow(r)
      BY <1>2, <1>3, <3>3 DEF AsRead, At
    <3>4. CASE EditRow(r)' # EditRow(r)
      <4>1. req[r].arg.id = i /\ EditRow(r)' = row /\ EditRow(r) = db.edited[i]
        BY <1>7, <3>2, <3>4 DEF EditRow
      <4>2. req[m].do \notin Unrevised
        BY <3>1, <3>2, OneTableTogether DEF EditHandlers
      <4>3. row # Nil => db.edited[i] # Nil /\ row.rev = db.edited[i].rev + 1
        BY <1>1, <1>7, <3>2, <3>4, <4>1, <4>2 DEF RowMoves
      <4>4. CASE row # Nil
        <5>1. db.edited[i].rev \in Nat /\ req[r].v.rev \in Nat
          BY <1>3, <2>2, <4>3, <4>4 DEF EditedRecord, EditHolds
        <5>2. req[r].v.rev <= db.edited[i].rev /\ (At(r, "jobRow") => req[r].arg.expected <= req[r].v.rev)
          BY <1>3, <2>2, <4>1, <4>3, <4>4 DEF AsRead
        <5>3. req[r].v.rev <= row.rev /\ req[r].v.rev # row.rev
          BY <4>3, <4>4, <5>1, <5>2
        <5> QED
          BY <1>2, <4>1, <5>2, <5>3 DEF AsRead, At
      <4>5. CASE row = Nil
        BY <4>1, <4>5 DEF AsRead
      <4> QED
        BY <4>4, <4>5
    <3> QED
      BY <3>3, <3>4
  <2> QED
    BY <2>1, <2>2
<1>10. OrCrossed(r)'
  <2>1. CASE req[r].at \notin {"localeRow", "settingsRow", "nameRow", "profileRow"}
    BY <1>2, <2>1 DEF OrCrossed
  <2>2. CASE req[r].at \in {"localeRow", "settingsRow", "nameRow", "profileRow"}
    <3>1. req[r].do \in {"patchSettings", "patchMyProfile"} /\ Open(r)
      BY <1>3, <2>2 DEF EditsAtHome, EditHome, Ends, Open, Ended, At
    <3>2. req[r].do \in EditHandlers \ {"createJob"} /\ req[r].do \in Unrevised
      BY <3>1 DEF EditHandlers, Revised, Unrevised
    <3>3. CASE EditRow(r)' = EditRow(r)
      <4>1. EditCrossed(r) => EditCrossed(r)'
        BY EditCrossedStays, <1>3
      <4> QED
        BY <1>2, <1>3, <3>3, <4>1 DEF OrCrossed
    <3>4. CASE EditRow(r)' # EditRow(r)
      <4>1. req[r].arg.id = i /\ EditRow(r)' = row /\ EditRow(r) = db.edited[i]
        BY <1>7, <3>2, <3>4 DEF EditRow
      <4>2. \/ At(m, "dropConversation")
            \/ Open(m) /\ req[m].do \in Revised \cup Unrevised
        BY <1>1, <1>7, <3>2, <3>4, <4>1 DEF RowMoves
      <4>3. Open(m) /\ req[m].do \in EditHandlers
        <5>1. At(m, "dropConversation") => Open(m) /\ req[m].do = "deleteConversation"
          BY <1>3 DEF EditsAtHome, EditHome, Ends, Open, Ended, At
        <5> QED
          BY <4>2, <5>1 DEF EditHandlers, Revised
      <4>4. req[m].do \in {req[r].do, "setBaseProfile"}
        BY <3>1, <3>2, <4>3, OneTableTogether
      <4>5. EditCrossed(r)'
        BY <3>1, <4>3, <4>4, OpenCross
      <4> QED
        BY <4>5 DEF OrCrossed
    <3> QED
      BY <3>3, <3>4
  <2> QED
    BY <2>1, <2>2
<1> QED
  BY <1>5, <1>6, <1>8, <1>9, <1>10 DEF EditKept

LEMMA EditInvStep ==
    ASSUME EditInv, NEW m \in Requests, EditGoes(m)
    PROVE  EditInv'
<1>1. HistoryOK'
  BY HistoryStep DEF EditGoes, EditInv
<1>2. OneTable'
  BY DEF EditInv, OneTable, EditGoes
<1>3. EditShape'
  <2>1. PICK i \in Ids, row \in EditedRecord \cup {Nil} : db'.edited = [db.edited EXCEPT ![i] = row]
    BY DEF EditGoes, EditWrites
  <2> QED
    BY <2>1 DEF EditInv, EditShape, EditGoes
<1>4. ASSUME NEW r \in Requests PROVE EditKept(r)'
  BY EditOthers DEF EditGoes
<1> QED
  BY <1>1, <1>2, <1>3, <1>4 DEF EditInv

-----------------------------------------------------------------------------
(***************************************************************************)
(* The statements.                                                         *)
(***************************************************************************)

\* A statement that goes on and leaves the rows as they are.
LEMMA EditLeaves ==
    ASSUME EditInv, NEW m \in Requests, Open(m), NEW statement, NEW v, NEW tables, Do(m, statement, v, tables),
           tables.edited = db.edited, DOMAIN tables = DOMAIN db,
           EditHome(req[m].do, statement), statement \notin {"new", "createJob"},
           EditHolds(m)', AsRead(m)', OrCrossed(m)'
    PROVE  EditGoes(m)
<1>1. /\ HistoryOK /\ EditsAtHome(m) /\ NamesRow(m) /\ Unborn(m) /\ m \in Ids
      /\ db.edited \in [Ids -> EditedRecord \cup {Nil}]
  BY EditThere
<1>2. req'[m].do = req[m].do /\ req'[m].at = statement /\ req'[m].arg = req[m].arg /\ db' = tables /\ mix' = mix
      /\ \A s \in Requests \ {m} : req'[s] = req[s]
  BY <1>1, DoEffect DEF Do
<1>3. Moves(m)
  BY DoMoves
<1>4. EditsAtHome(m)' /\ Unborn(m)'
  BY <1>1, <1>2 DEF EditsAtHome, Unborn, At
<1>5. EditRow(m)' = EditRow(m)
  BY <1>2 DEF EditRow
<1>6. NamesRow(m)'
  <2>1. \A s \in Requests : ~At(s, "new") /\ ~At(s, "createJob") => ~At(s, "new")' /\ ~At(s, "createJob")'
    BY <1>2 DEF At
  <2> QED
    BY <1>1, <1>2, <1>5, <2>1 DEF NamesRow
<1>7. EditWrites(m)
  <2>1. db'.edited = [db.edited EXCEPT ![m] = db.edited[m]] /\ db.edited[m] \in EditedRecord \cup {Nil}
    BY <1>1, <1>2
  <2>2. RowMoves(m, m, db.edited[m])
    BY DEF RowMoves
  <2> QED
    BY <1>1, <2>1, <2>2 DEF EditWrites
<1> QED
  BY <1>2, <1>3, <1>4, <1>6, <1>7 DEF EditGoes, EditKept, At

LEMMA EditEnds ==
    ASSUME EditInv, NEW m \in Requests, Open(m), NEW statement \in Ends, NEW v, NEW tables,
           Do(m, statement, v, tables), tables.edited = db.edited, DOMAIN tables = DOMAIN db
    PROVE  EditGoes(m)
<1>1. req'[m].at = statement
  BY EditThere, DoEffect
<1>2. EditHolds(m)' /\ AsRead(m)' /\ OrCrossed(m)'
  BY <1>1 DEF EditHolds, AsRead, OrCrossed, RevisedRows, UnrevisedRows, Ends
<1>3. EditHome(req[m].do, statement) /\ statement \notin {"new", "createJob"}
  BY DEF EditHome, Ends
<1> QED
  BY <1>2, <1>3, EditLeaves

LEMMA EditRefuses ==
    ASSUME EditInv, NEW m \in Requests, Open(m), Refuse(m) \/ End(m, db) \/ Killed(m)
    PROVE  EditGoes(m)
  BY EditEnds DEF Refuse, End, Killed, Ends

\* The row is read.
LEMMA EditLoads ==
    ASSUME EditInv, NEW m \in Requests, Open(m), req[m].do \in EditHandlers \ {"createJob"},
           NEW statement, statement \notin {"new", "createJob"} \cup Ends, EditHome(req[m].do, statement),
           EditRow(m) # Nil, GoOn(m, statement, EditRow(m))
    PROVE  EditGoes(m)
<1>1. /\ HistoryOK /\ NamesRow(m) /\ db.edited \in [Ids -> EditedRecord \cup {Nil}]
  BY EditThere
<1>2. /\ req'[m].do = req[m].do /\ req'[m].at = statement /\ req'[m].arg = req[m].arg
      /\ req'[m].v = EditRow(m) /\ db' = db
  BY <1>1, DoEffect DEF GoOn
<1>3. req[m].arg.id \in Ids
  BY <1>1 DEF NamesRow
<1>4. EditRow(m) \in EditedRecord /\ EditRow(m).rev \in Nat
  BY <1>1, <1>3 DEF EditRow, EditedRecord
<1>5. EditRow(m)' = EditRow(m)
  BY <1>2 DEF EditRow
<1>6. AsRead(m)'
  <2>1. At(m, "jobRow")' => req[m].arg.expected <= EditRow(m).rev
    <3>1. statement = "jobRow" => req[m].do = "patchJob"
      BY DEF EditHome, Ends
    <3> QED
      BY <1>1, <1>2, <3>1 DEF NamesRow, At
  <2> QED
    BY <1>2, <1>4, <1>5, <2>1 DEF AsRead
<1>7. EditHolds(m)' /\ OrCrossed(m)'
  BY <1>2, <1>4, <1>5 DEF EditHolds, OrCrossed
<1> QED
  BY <1>6, <1>7, EditLeaves DEF GoOn

\* Where the row names what a request has written.
LEMMA RowWritten ==
    ASSUME EditInv, NEW m \in Requests, Open(m), req[m].do \in EditHandlers \ {"createJob"},
           NEW statement, statement \notin {"new", "createJob"}, EditHome(req[m].do, statement), req[m].at # statement,
           NEW v, NEW tables, Do(m, statement, v, tables), DOMAIN tables = DOMAIN db,
           NEW row \in EditedRecord \cup {Nil},
           tables.edited = [db.edited EXCEPT ![req[m].arg.id] = row],
           RowMoves(m, req[m].arg.id, row), EditRow(m) # Nil, row # Nil => AskedOrCrossed(m, EditRow(m), row),
           EditHolds(m)', AsRead(m)', OrCrossed(m)'
    PROVE  EditGoes(m)
<1>1. /\ HistoryOK /\ EditsAtHome(m) /\ NamesRow(m) /\ Unborn(m) /\ m \in Ids
      /\ db.edited \in [Ids -> EditedRecord \cup {Nil}]
  BY EditThere
<1>2. req'[m].do = req[m].do /\ req'[m].at = statement /\ req'[m].arg = req[m].arg /\ db' = tables /\ mix' = mix
      /\ \A s \in Requests \ {m} : req'[s] = req[s]
  BY <1>1, DoEffect DEF Do
<1>3. Moves(m)
  BY DoMoves
<1>4. EditsAtHome(m)' /\ Unborn(m)'
  BY <1>1, <1>2 DEF EditsAtHome, Unborn, At
<1>5. req[m].arg.id \in Ids
  BY <1>1 DEF NamesRow
<1>6. EditRow(m)' = row
  BY <1>1, <1>2, <1>5 DEF EditRow
<1>7. NamesRow(m)'
  <2>1. \A s \in Requests : ~At(s, "new") /\ ~At(s, "createJob") => ~At(s, "new")' /\ ~At(s, "createJob")'
    BY <1>2 DEF At
  <2>2. row = Nil => "deleteConversation" \in mix
    <3>1. row = Nil => At(m, "dropConversation") \/ At(m, "createJob")
      BY DEF RowMoves, EditRow
    <3> QED
      BY <1>1, <3>1 DEF EditsAtHome, EditHome, At, Ends
  <2>3. req[m].do = "patchJob" =>
           req[m].arg.expected \in Nat /\ (row # Nil => req[m].arg.expected <= row.rev)
    <3> SUFFICES ASSUME req[m].do = "patchJob"
                 PROVE  req[m].arg.expected \in Nat /\ (row # Nil => req[m].arg.expected <= row.rev)
      OBVIOUS
    <3>1. req[m].arg.expected \in Nat /\ req[m].arg.expected <= EditRow(m).rev
      BY <1>1 DEF NamesRow
    <3>2. ~At(m, "createJob") /\ ~At(m, "dropConversation")
      BY <1>1 DEF EditsAtHome, EditHome, At, Ends
    <3>3. row # Nil => row.rev \in {EditRow(m).rev, EditRow(m).rev + 1}
      BY <3>2 DEF RowMoves, EditRow
    <3>4. EditRow(m).rev \in Nat
      BY <1>1, <1>5 DEF EditRow, EditedRecord
    <3> QED
      BY <3>1, <3>3, <3>4
  <2> QED
    BY <1>1, <1>2, <1>5, <1>6, <2>1, <2>2, <2>3 DEF NamesRow
<1>8. EditWrites(m)
  BY <1>2, <1>5 DEF EditWrites, EditRow
<1> QED
  BY <1>2, <1>3, <1>4, <1>7, <1>8 DEF EditGoes, EditKept, At

LEMMA EditOpen ==
    ASSUME EditInv, NEW m \in Requests, NEW statement, At(m, statement), statement # "new", statement \notin Ends
    PROVE  Open(m) /\ EditHome(req[m].do, statement) /\ req[m].at = statement
  BY EditThere DEF Open, Ended, At, EditsAtHome

LEMMA EditReads ==
    ASSUME EditInv, NEW m \in Requests,
           \/ PatchJob(m) \/ PatchConversation(m) \/ ArchiveConversation(m) \/ DeleteConversation(m)
           \/ PostAttachment(m) \/ PatchCompany(m) \/ PatchSettings(m) \/ PatchMyProfile(m)
    PROVE  EditGoes(m)
<1>1. ASSUME NEW h \in EditHandlers \ {"createJob"}, NEW next,
             next \notin {"new", "createJob"} \cup Ends, EditHome(h, next), At(m, h),
             (EditRow(m) # Nil /\ GoOn(m, next, EditRow(m))) \/ Refuse(m)
      PROVE  EditGoes(m)
  <2>1. h \notin Ends \cup {"new"}
    BY DEF EditHandlers, Revised, Unrevised, Ends
  <2>2. Open(m) /\ EditHome(req[m].do, h)
    BY <1>1, <2>1, EditOpen
  <2>3. req[m].do = h
    BY <2>2 DEF EditHome, EditHandlers, Revised, Unrevised, Ends
  <2> QED
    BY <1>1, <2>2, <2>3, EditRefuses, EditLoads
<1> USE DEF Load, AnyRow, EditRow, EditHandlers, Revised, Unrevised, EditHome, Ends
<1>2. CASE PatchJob(m)
  BY <1>1, <1>2 DEF PatchJob
<1>3. CASE PatchConversation(m)
  BY <1>1, <1>3 DEF PatchConversation
<1>4. CASE ArchiveConversation(m)
  BY <1>1, <1>4 DEF ArchiveConversation
<1>5. CASE DeleteConversation(m)
  BY <1>1, <1>5 DEF DeleteConversation
<1>6. CASE PostAttachment(m)
  BY <1>1, <1>6 DEF PostAttachment
<1>7. CASE PatchCompany(m)
  BY <1>1, <1>7 DEF PatchCompany
<1>8. CASE PatchSettings(m)
  BY <1>1, <1>8 DEF PatchSettings
<1>9. CASE PatchMyProfile(m)
  BY <1>1, <1>9 DEF PatchMyProfile
<1> QED
  BY <1>2, <1>3, <1>4, <1>5, <1>6, <1>7, <1>8, <1>9

\* What a request is asked to set, in the row it has read.
LEMMA WithIs ==
    ASSUME NEW row \in EditedRecord, NEW m \in Requests, NEW columns
    PROVE  /\ With(row, m, columns) \in EditedRecord
           /\ With(row, m, columns).rev = row.rev
           /\ \A c \in Columns : With(row, m, columns).cols[c] = IF c \in columns \cap Asked(m) THEN m ELSE row.cols[c]
<1> DEFINE cols == [c \in Columns |-> IF c \in columns \cap Asked(m) THEN m ELSE row.cols[c]]
<1>1. row.cols \in [Columns -> Requests \cup {Nil}] /\ row.rev \in Nat /\ row = [rev |-> row.rev, cols |-> row.cols]
  BY DEF EditedRecord, Setters
<1>2. cols \in [Columns -> Requests \cup {Nil}]
  BY <1>1
<1>3. \A c \in Columns : cols[c] = IF c \in columns \cap Asked(m) THEN m ELSE row.cols[c]
  OBVIOUS
<1>4. With(row, m, columns) = [row EXCEPT !.cols = cols]
  BY DEF With
<1> HIDE DEF cols
<1>5. With(row, m, columns) = [rev |-> row.rev, cols |-> cols]
  BY <1>1, <1>4
<1> QED
  BY <1>1, <1>2, <1>3, <1>5 DEF EditedRecord, Setters

\* The revisions agree, so what was read is the row.
LEMMA EditRevises ==
    ASSUME EditInv, NEW m \in Requests, req[m].at \in RevisedRows,
           NEW statement \in {"ok", "ingestJob", "dropFiles"}, EditHome(req[m].do, statement),
           NEW v, NEW tables, Do(m, statement, v, tables), DOMAIN tables = DOMAIN db,
           EditRow(m) # Nil, EditRow(m).rev = req[m].v.rev, NEW columns, NEW row,
           row = [With(req[m].v, m, columns) EXCEPT !.rev = req[m].v.rev + 1],
           tables.edited = [db.edited EXCEPT ![req[m].arg.id] = row]
    PROVE  EditGoes(m)
<1>1. /\ EditsAtHome(m) /\ NamesRow(m) /\ EditHolds(m) /\ AsRead(m)
      /\ db.edited \in [Ids -> EditedRecord \cup {Nil}]
  BY EditThere
<1>2. req[m].v \in EditedRecord /\ req[m].v.rev \in Nat
  BY <1>1 DEF EditHolds, EditedRecord
<1>3. Open(m) /\ req[m].do \in Revised \ {"createJob"} /\ req[m].do \in EditHandlers \ {"createJob"} /\ req[m].at # statement
  BY <1>1 DEF EditsAtHome, EditHome, RevisedRows, EditHandlers, Revised, Ends, Open, Ended, At
<1>4. req[m].arg.id \in Ids
  BY <1>1, <1>3 DEF NamesRow
<1> DEFINE with == With(req[m].v, m, columns)
<1>5. /\ with \in EditedRecord /\ with.rev = req[m].v.rev
      /\ \A c \in Columns : with.cols[c] = IF c \in columns \cap Asked(m) THEN m ELSE req[m].v.cols[c]
  BY <1>2, WithIs
<1> HIDE DEF with
<1>6. row \in EditedRecord /\ row.rev = EditRow(m).rev + 1 /\ row.cols = with.cols
  <2>1. row = [with EXCEPT !.rev = req[m].v.rev + 1]
    BY DEF with
  <2> QED
    BY <1>2, <1>5, <2>1 DEF EditedRecord
<1>7. req[m].v.cols = EditRow(m).cols
  BY <1>1 DEF AsRead
<1>8. AskedOrCrossed(m, EditRow(m), row)
  BY <1>5, <1>6, <1>7 DEF AskedOrCrossed
<1>9. RowMoves(m, req[m].arg.id, row)
  <2>1. row # Nil
    BY <1>6, EditAssumption
  <2> QED
    BY <1>3, <1>6, <2>1 DEF RowMoves, EditRow
<1>10. req'[m].at = statement
  BY EditThere, DoEffect
<1>11. EditHolds(m)' /\ AsRead(m)' /\ OrCrossed(m)'
  BY <1>10 DEF EditHolds, AsRead, OrCrossed, RevisedRows, UnrevisedRows
<1> QED
  BY <1>3, <1>6, <1>8, <1>9, <1>11, RowWritten

LEMMA EditSaves ==
    ASSUME EditInv, NEW m \in Requests, JobRow(m) \/ ConversationRow(m) \/ ArchiveConversationRow(m)
    PROVE  EditGoes(m)
<1> DEFINE i == req[m].arg.id
           v == req[m].v
<1>1. Open(m) /\ req[m].at \in RevisedRows /\ EditHome(req[m].do, req[m].at)
  BY EditOpen DEF JobRow, ConversationRow, ArchiveConversationRow, RevisedRows, Ends, At
<1>2. EditFields \subseteq DOMAIN db /\ v \in EditedRecord /\ AsRead(m) /\ NamesRow(m)
      /\ db.edited \in [Ids -> EditedRecord \cup {Nil}]
  BY <1>1, EditThere DEF EditHolds
<1>3. \A columns : With(v, m, columns) \in EditedRecord /\ With(v, m, columns).rev = v.rev
  BY <1>2, WithIs
<1>4. \A x : DOMAIN [db EXCEPT !.edited[i] = x] = DOMAIN db
             /\ [db EXCEPT !.edited[i] = x].edited = [db.edited EXCEPT ![i] = x]
  BY <1>2 DEF EditFields
<1>5. CASE Refuse(m)
  BY <1>1, <1>5, EditRefuses
<1>6. CASE JobRow(m) /\ ~Refuse(m)
  <2> DEFINE row == [With(v, m, Columns) EXCEPT !.rev = db.edited[i].rev + 1]
             tables == [db EXCEPT !.edited[i] = row]
  <2>1. /\ At(m, "jobRow") /\ EditRow(m) # Nil /\ EditRow(m).rev = req[m].arg.expected
        /\ ThenIngest(m, <<"edited", i>>, tables)
    BY <1>6 DEF JobRow, IsThere, AsExpected, EditRow
  <2>2. req[m].do = "patchJob"
    BY <1>1, <2>1 DEF EditHome, At, Ends
  <2>3. EditRow(m).rev = v.rev
    <3>1. v.rev <= EditRow(m).rev /\ req[m].arg.expected <= v.rev
      BY <1>1, <1>2, <2>1 DEF AsRead
    <3>2. v.rev \in Nat /\ req[m].arg.expected \in Nat
      BY <1>2, <2>2 DEF NamesRow, EditedRecord, EditHandlers, Revised
    <3> QED
      BY <2>1, <3>1, <3>2
  <2>4. row = [With(v, m, Columns) EXCEPT !.rev = v.rev + 1]
    BY <2>3 DEF EditRow
  <2>5. DOMAIN tables = DOMAIN db /\ tables.edited = [db.edited EXCEPT ![i] = row]
    BY <1>4
  <2>6. EditHome(req[m].do, "ingestJob")
    BY <2>2 DEF EditHome
  <2> HIDE DEF row, tables
  <2> QED
    BY <1>1, <2>1, <2>3, <2>4, <2>5, <2>6, EditRevises DEF ThenIngest
<1>7. CASE ConversationRow(m) /\ ~Refuse(m)
  <2> DEFINE with == With(v, m, {"name", "text"})
             row == Bumped(with)
             tables == [db EXCEPT !.edited[i] = row]
  <2>1. EditRow(m) # Nil /\ EditRow(m).rev = with.rev /\ End(m, tables)
    BY <1>7 DEF ConversationRow, Save, Same, EditRow
  <2>2. EditRow(m).rev = v.rev /\ row = [with EXCEPT !.rev = v.rev + 1]
    <3>1. with.rev = v.rev
      BY <1>3
    <3> QED
      BY <2>1, <3>1 DEF Bumped
  <2>3. DOMAIN tables = DOMAIN db /\ tables.edited = [db.edited EXCEPT ![i] = row]
    BY <1>4
  <2>4. EditHome(req[m].do, "ok")
    BY DEF EditHome, Ends
  <2> HIDE DEF row, tables
  <2> QED
    BY <1>1, <2>1, <2>2, <2>3, <2>4, EditRevises DEF End
<1>8. CASE ArchiveConversationRow(m) /\ ~Refuse(m)
  <2> DEFINE with == With(v, m, {"apart"})
             row == Bumped(with)
             tables == [db EXCEPT !.edited[i] = row]
  <2>1. EditRow(m) # Nil /\ EditRow(m).rev = v.rev /\ Do(m, "dropFiles", Nil, tables) /\ At(m, "archiveConversationRow")
    BY <1>8 DEF ArchiveConversationRow, Same, EditRow
  <2>2. row = [with EXCEPT !.rev = v.rev + 1]
    <3>1. with.rev = v.rev
      BY <1>3
    <3> QED
      BY <3>1 DEF Bumped
  <2>3. DOMAIN tables = DOMAIN db /\ tables.edited = [db.edited EXCEPT ![i] = row]
    BY <1>4
  <2>4. EditHome(req[m].do, "dropFiles")
    BY <1>1, <2>1 DEF EditHome, Ends, At
  <2> HIDE DEF row, tables
  <2> QED
    BY <1>1, <2>1, <2>2, <2>3, <2>4, EditRevises
<1> QED
  BY <1>5, <1>6, <1>7, <1>8

LEMMA EditDrops ==
    ASSUME EditInv, NEW m \in Requests, DropConversation(m) \/ DropFiles(m) \/ StoreFile(m) \/ StoreIngest(m)
    PROVE  EditGoes(m)
<1>1. Open(m) /\ EditHome(req[m].do, req[m].at)
  BY EditOpen DEF DropConversation, DropFiles, StoreFile, StoreIngest, Ends, At
<1>2. EditFields \subseteq DOMAIN db
  BY EditThere
<1>3. CASE Refuse(m)
  BY <1>1, <1>3, EditRefuses
<1>4. CASE DropFiles(m) \/ (StoreFile(m) /\ ~Refuse(m)) \/ StoreIngest(m)
  <2>1. PICK tables : End(m, tables) /\ tables.edited = db.edited /\ DOMAIN tables = DOMAIN db
    BY <1>2, <1>4 DEF DropFiles, StoreFile, StoreIngest, EditFields
  <2> QED
    BY <1>1, <2>1, EditEnds DEF End, Ends
<1>5. CASE DropConversation(m) /\ ~Refuse(m)
  <2> DEFINE i == req[m].arg.id
             tables == [db EXCEPT !.edited[i] = Nil, !.files[i] = {}]
  <2>1. At(m, "dropConversation") /\ EditRow(m) # Nil /\ End(m, tables)
    BY <1>5 DEF DropConversation, IsThere, EditRow
  <2>2. DOMAIN tables = DOMAIN db /\ tables.edited = [db.edited EXCEPT ![i] = Nil]
    BY <1>2 DEF EditFields
  <2> HIDE DEF tables
  <2>3. req[m].do = "deleteConversation"
    BY <1>1, <2>1 DEF EditHome, At, Ends
  <2>4. req'[m].at = "ok"
    BY <2>1, EditThere, DoEffect DEF End
  <2>5. EditHolds(m)' /\ AsRead(m)' /\ OrCrossed(m)'
    BY <2>4 DEF EditHolds, AsRead, OrCrossed, RevisedRows, UnrevisedRows
  <2>6. RowMoves(m, i, Nil)
    BY <2>1 DEF RowMoves
  <2>7. req[m].do \in EditHandlers \ {"createJob"} /\ EditHome(req[m].do, "ok") /\ req[m].at # "ok"
    BY <2>1, <2>3 DEF EditHandlers, Revised, EditHome, Ends, At
  <2> QED
    BY <1>1, <2>1, <2>2, <2>5, <2>6, <2>7, RowWritten DEF End
<1> QED
  BY <1>3, <1>4, <1>5 DEF DropConversation, StoreFile

LEMMA UnrevisedThere ==
    ASSUME EditInv, NEW m \in Requests, req[m].do \in Unrevised
    PROVE  req[m].arg.id \in Ids /\ EditRow(m) # Nil
<1>1. EditsAtHome(m) /\ NamesRow(m)
  BY EditThere
<1>2. req[m].do \in EditHandlers \ {"createJob"} /\ "deleteConversation" \in Revised
      /\ Revised \cap Unrevised = {} /\ "deleteConversation" \in EditHandlers
      /\ req[m].do # "none"
  BY DEF EditHandlers, Revised, Unrevised
<1>3. req[m].do \in mix \cap EditHandlers
  BY <1>1, <1>2 DEF EditsAtHome
<1>4. PICK table \in {Revised, {"patchCompany"}, {"patchSettings"}, {"patchMyProfile", "setBaseProfile"}} :
         mix \cap EditHandlers \subseteq table
  BY DEF EditInv, OneTable
<1>5. "deleteConversation" \notin {"patchCompany"} \cup {"patchSettings"} \cup {"patchMyProfile", "setBaseProfile"}
  OBVIOUS
<1>6. "deleteConversation" \notin mix
  BY <1>2, <1>3, <1>4, <1>5
<1> QED
  BY <1>1, <1>2, <1>6 DEF NamesRow

\* Of a row without a revision some columns are written, as they were read or
\* as they are asked to be.
LEMMA EditRewrites ==
    ASSUME EditInv, NEW m \in Requests, Open(m), req[m].do \in Unrevised, req[m].v \in EditedRecord,
           NEW columns, NEW next \in {"settingsRow", "profileRow", "contactRow", "ok"},
           EditHome(req[m].do, next), req[m].at # next, Write(m, columns, next),
           next = "settingsRow" => At(m, "localeRow") /\ columns \subseteq {"apart"},
           next = "profileRow" => At(m, "nameRow") /\ columns = {"name"},
           \/ columns \subseteq Asked(m)
           \/ /\ req[m].do \in {"patchSettings", "patchMyProfile"}
              /\ \A c \in columns : req[m].v.cols[c] = EditRow(m).cols[c] \/ EditCrossed(m)
    PROVE  EditGoes(m)
<1>1. /\ HistoryOK /\ EditsAtHome(m) /\ NamesRow(m) /\ OrCrossed(m)
      /\ db.edited \in [Ids -> EditedRecord \cup {Nil}] /\ EditFields \subseteq DOMAIN db
  BY EditThere
<1>2. req[m].do \in EditHandlers \ {"createJob"}
  BY DEF EditHandlers, Revised, Unrevised
<1>3. req[m].arg.id \in Ids /\ EditRow(m) # Nil
  BY UnrevisedThere
<1> DEFINE i == req[m].arg.id
           was == EditRow(m)
           with == With(req[m].v, m, columns)
           cols == [c \in Columns |-> IF c \in columns THEN with.cols[c] ELSE was.cols[c]]
           row == [was EXCEPT !.cols = cols]
           tables == [db EXCEPT !.edited[i] = row]
<1>4. /\ with \in EditedRecord
      /\ \A c \in Columns : with.cols[c] = IF c \in columns \cap Asked(m) THEN m ELSE req[m].v.cols[c]
  BY WithIs
<1>5. was \in EditedRecord
  BY <1>1, <1>3 DEF EditRow
<1>6. /\ row \in EditedRecord /\ row.rev = was.rev
      /\ \A c \in Columns : row.cols[c] = IF c \in columns THEN with.cols[c] ELSE was.cols[c]
  <2> HIDE DEF with, was
  <2>1. with.cols \in [Columns -> Requests \cup {Nil}] /\ was.cols \in [Columns -> Requests \cup {Nil}]
        /\ was.rev \in Nat /\ was = [rev |-> was.rev, cols |-> was.cols]
    BY <1>4, <1>5 DEF EditedRecord, Setters
  <2>2. cols \in [Columns -> Requests \cup {Nil}]
    BY <2>1
  <2>3. \A c \in Columns : cols[c] = IF c \in columns THEN with.cols[c] ELSE was.cols[c]
    OBVIOUS
  <2> HIDE DEF cols
  <2>4. row = [rev |-> was.rev, cols |-> cols]
    BY SMTT(30), <2>1
  <2> QED
    BY <2>1, <2>2, <2>3, <2>4 DEF EditedRecord, Setters
<1>7. Do(m, next, req[m].v, tables) /\ DOMAIN tables = DOMAIN db /\ tables.edited = [db.edited EXCEPT ![i] = row]
  <2>1. Do(m, next, req[m].v, [db EXCEPT !.edited[i].cols = [c \in Columns |-> IF c \in columns THEN with.cols[c] ELSE @[c]]])
    BY <1>3 DEF Write, IsThere, EditRow
  <2>2. [db EXCEPT !.edited[i].cols = [c \in Columns |-> IF c \in columns THEN with.cols[c] ELSE @[c]]] = tables
    BY DEF EditRow
  <2>3. DOMAIN tables = DOMAIN db /\ tables.edited = [db.edited EXCEPT ![i] = row]
    <3> HIDE DEF row
    <3> QED
      BY <1>1 DEF EditFields
  <2> QED
    BY ZenonT(60), <2>1, <2>2, <2>3
<1> HIDE DEF row, cols, with, tables
<1>8. row # Nil /\ RowMoves(m, i, row)
  <2>1. row # Nil
    BY <1>6, EditAssumption
  <2> QED
    BY <1>3, <1>6, <2>1 DEF RowMoves, EditRow
<1>9. AskedOrCrossed(m, was, row)
  <2> SUFFICES ASSUME NEW c \in Columns, row.cols[c] # was.cols[c]
               PROVE  \/ row.cols[c] = m /\ c \in Asked(m)
                      \/ req[m].do \in {"patchSettings", "patchMyProfile"} /\ EditCrossed(m)
    BY DEF AskedOrCrossed
  <2>1. c \in columns /\ row.cols[c] = with.cols[c]
    BY <1>6
  <2> QED
    BY <1>4, <2>1
<1>10. /\ req'[m].do = req[m].do /\ req'[m].at = next /\ req'[m].arg = req[m].arg
       /\ req'[m].v = IF next \in Ends THEN Nil ELSE req[m].v
  BY <1>1, <1>7, DoEffect
<1>11. AsRead(m)' /\ EditHolds(m)'
  BY <1>10 DEF AsRead, RevisedRows, EditHolds, UnrevisedRows, Ends
<1>12. OrCrossed(m)'
  <2>1. EditRow(m)' = row
    BY <1>1, <1>3, <1>7, <1>10 DEF EditRow, Do
  <2>2. EditCrossed(m) => EditCrossed(m)'
    <3>1. Moves(m)
      BY <1>7, DoMoves
    <3> QED
      BY <1>1, <3>1, EditCrossedStays
  <2>3. "text" \in Columns /\ "name" \in Columns
    BY DEF Columns
  <2>4. CASE next = "settingsRow"
    <3>1. row.cols["text"] = was.cols["text"] /\ row.cols["name"] = was.cols["name"]
      BY <1>6, <2>3, <2>4
    <3> QED
      BY <1>1, <1>10, <2>1, <2>2, <2>4, <3>1 DEF OrCrossed, At, Ends
  <2>5. CASE next = "profileRow"
    <3>1. row.cols["text"] = was.cols["text"]
      BY <1>6, <2>3, <2>5
    <3> QED
      BY <1>1, <1>10, <2>1, <2>2, <2>5, <3>1 DEF OrCrossed, At, Ends
  <2>6. CASE next \in {"contactRow", "ok"}
    BY <1>10, <2>6 DEF OrCrossed
  <2> QED
    BY <2>4, <2>5, <2>6
<1> QED
  BY <1>2, <1>3, <1>6, <1>7, <1>8, <1>9, <1>11, <1>12, RowWritten DEF Ends

LEMMA EditUnrevised ==
    ASSUME EditInv, NEW m \in Requests,
           \/ CompanyRow(m) \/ LocaleRow(m) \/ SettingsRow(m) \/ NameRow(m) \/ ProfileRow(m) \/ ContactRow(m)
           \/ BaseProfileRow(m)
    PROVE  EditGoes(m)
<1>1. Open(m) /\ EditHome(req[m].do, req[m].at) /\ req[m].at \in UnrevisedRows
  BY EditOpen DEF CompanyRow, LocaleRow, SettingsRow, NameRow, ProfileRow, ContactRow, BaseProfileRow, UnrevisedRows, Ends, At
<1>2. req[m].v \in EditedRecord /\ req[m].do \in Unrevised /\ OrCrossed(m) /\ NamesRow(m)
  BY <1>1, EditThere DEF EditHolds, EditHome, UnrevisedRows, Unrevised, Ends
<1>3. EditHome(req[m].do, "ok") /\ req[m].at # "ok"
  BY <1>1 DEF EditHome, UnrevisedRows, Ends
<1>4. CASE CompanyRow(m) \/ BaseProfileRow(m)
  <2>1. Write(m, Asked(m), "ok")
    BY <1>4 DEF CompanyRow, BaseProfileRow
  <2> QED
    BY <1>1, <1>2, <1>3, <2>1, EditRewrites
<1>5. CASE LocaleRow(m)
  <2>1. At(m, "localeRow") /\ Write(m, Asked(m) \cap {"apart"}, "settingsRow")
    BY <1>5 DEF LocaleRow
  <2>2. EditHome(req[m].do, "settingsRow") /\ req[m].at # "settingsRow"
    BY <1>1, <2>1 DEF EditHome, Ends, At
  <2> QED
    BY <1>1, <1>2, <2>1, <2>2, EditRewrites
<1>6. CASE SettingsRow(m)
  <2>1. At(m, "settingsRow") /\ Write(m, {"name", "text"}, "ok")
    BY <1>6 DEF SettingsRow
  <2>2. req[m].do = "patchSettings"
    BY <1>1, <2>1 DEF EditHome, Ends, At
  <2>3. \A c \in {"name", "text"} : req[m].v.cols[c] = EditRow(m).cols[c] \/ EditCrossed(m)
    BY <1>2, <2>1 DEF OrCrossed, At
  <2> QED
    BY <1>1, <1>2, <1>3, <2>1, <2>2, <2>3, EditRewrites
<1>7. CASE NameRow(m)
  <2>1. At(m, "nameRow") /\ Write(m, {"name"}, "profileRow")
    BY <1>7 DEF NameRow
  <2>2. req[m].do = "patchMyProfile" /\ EditHome(req[m].do, "profileRow") /\ req[m].at # "profileRow"
    BY <1>1, <2>1 DEF EditHome, Ends, At
  <2>3. \A c \in {"name"} : req[m].v.cols[c] = EditRow(m).cols[c] \/ EditCrossed(m)
    BY <1>2, <2>1 DEF OrCrossed, At
  <2> QED
    BY <1>1, <1>2, <2>1, <2>2, <2>3, EditRewrites
<1>8. CASE ProfileRow(m)
  <2>1. At(m, "profileRow") /\ Write(m, {"text"}, "contactRow")
    BY <1>8 DEF ProfileRow
  <2>2. req[m].do = "patchMyProfile" /\ EditHome(req[m].do, "contactRow") /\ req[m].at # "contactRow"
    BY <1>1, <2>1 DEF EditHome, Ends, At
  <2>3. \A c \in {"text"} : req[m].v.cols[c] = EditRow(m).cols[c] \/ EditCrossed(m)
    BY <1>2, <2>1 DEF OrCrossed, At
  <2> QED
    BY <1>1, <1>2, <2>1, <2>2, <2>3, EditRewrites
<1>9. CASE ContactRow(m)
  <2>1. Write(m, Asked(m) \cap {"apart"}, "ok")
    BY <1>9 DEF ContactRow
  <2> QED
    BY <1>1, <1>2, <1>3, <2>1, EditRewrites
<1> QED
  BY <1>4, <1>5, <1>6, <1>7, <1>8, <1>9

LEMMA EditBases ==
    ASSUME EditInv, NEW m \in Requests, SetBaseProfile(m)
    PROVE  EditGoes(m)
<1>1. At(m, "setBaseProfile")
  BY DEF SetBaseProfile
<1>2. Open(m) /\ EditHome(req[m].do, "setBaseProfile")
  BY <1>1, EditOpen DEF Ends
<1>3. req[m].do = "setBaseProfile"
  BY <1>2 DEF EditHome, Ends
<1>4. req[m].do \in EditHandlers \ {"createJob"} /\ req[m].do \in Unrevised
  BY <1>3 DEF EditHandlers, Revised, Unrevised
<1>5. EditRow(m) # Nil
  BY <1>4, UnrevisedThere
<1>6. CASE GoOn(m, "baseProfileRow", db.edited[req[m].arg.id])
  <2>1. EditHome(req[m].do, "baseProfileRow") /\ "baseProfileRow" \notin {"new", "createJob"} \cup Ends
    BY <1>3 DEF EditHome, Ends
  <2> QED
    BY <1>2, <1>4, <1>5, <1>6, <2>1, EditLoads DEF EditRow
<1> QED
  BY <1>2, <1>6, EditRefuses DEF SetBaseProfile

LEMMA EditBegins ==
    ASSUME EditInv, NEW m \in Requests, ArriveEdit(m)
    PROVE  EditGoes(m)
<1>1. PICK i \in Ids, h \in EditHandlers \ {"createJob"}, arg \in {req'[m].arg} :
         /\ Begin(m, h, arg) /\ db.edited[i] # Nil /\ arg.id = i
         /\ h = "patchJob" => arg.expected = db.edited[i].rev
  <2>1. PICK i \in Ids : db.edited[i] # Nil /\
           \/ \E c \in {"name", "text"} :
                  Begin(m, "patchJob", [id |-> i, set |-> {c}, expected |-> db.edited[i].rev])
           \/ \E h \in {"patchConversation", "patchCompany"}, set \in SUBSET {"name", "text"} \ {{}} :
                  Begin(m, h, [id |-> i, set |-> set])
           \/ Begin(m, "setBaseProfile", [id |-> i, set |-> {"text"}])
           \/ \E back \in BOOLEAN : Begin(m, "archiveConversation", [id |-> i, set |-> {"apart"}, back |-> back])
           \/ \E h \in {"deleteConversation", "postAttachment"} : Begin(m, h, [id |-> i, set |-> {}])
           \/ \E h \in {"patchSettings", "patchMyProfile"}, set \in {{c} : c \in Columns} \cup {Columns} :
                  Begin(m, h, [id |-> i, set |-> set])
    BY DEF ArriveEdit
  <2> DEFINE Calls(h, arg) == Begin(m, h, arg) /\ arg.id = i /\ (h = "patchJob" => arg.expected = db.edited[i].rev)
  <2>2. \E h \in EditHandlers \ {"createJob"} : \E arg : Calls(h, arg)
    <3> USE DEF EditHandlers, Revised, Unrevised
    <3>1. ASSUME NEW c, Begin(m, "patchJob", [id |-> i, set |-> {c}, expected |-> db.edited[i].rev])
          PROVE  \E h \in EditHandlers \ {"createJob"} : \E arg : Calls(h, arg)
      BY <3>1
    <3>2. ASSUME NEW h \in EditHandlers \ {"createJob", "patchJob"}, NEW set, Begin(m, h, [id |-> i, set |-> set])
          PROVE  \E hh \in EditHandlers \ {"createJob"} : \E arg : Calls(hh, arg)
      BY <3>2
    <3>3. ASSUME NEW back, Begin(m, "archiveConversation", [id |-> i, set |-> {"apart"}, back |-> back])
          PROVE  \E h \in EditHandlers \ {"createJob"} : \E arg : Calls(h, arg)
      BY <3>3
    <3> HIDE DEF Calls
    <3> QED
      BY <2>1, <3>1, <3>2, <3>3
  <2>3. PICK h \in EditHandlers \ {"createJob"} : \E arg : Calls(h, arg)
    BY <2>2
  <2>4. PICK arg : Calls(h, arg)
    BY <2>3
  <2>5. arg = req'[m].arg
    BY <2>4, EditThere, BeginRequest
  <2> QED
    BY <2>1, <2>4, <2>5
<1>2. /\ HistoryOK /\ Unborn(m) /\ EditFields \subseteq DOMAIN db
      /\ db.edited \in [Ids -> EditedRecord \cup {Nil}] /\ m \in Ids
  BY EditThere
<1>3. /\ req'[m].do = h /\ req'[m].at = h /\ req'[m].arg = arg /\ db' = db /\ At(m, "new") /\ mix' = mix /\ h \in mix
      /\ \A s \in Requests \ {m} : req'[s] = req[s]
  BY <1>1, <1>2, BeginEffect, BeginRequest DEF Begin
<1>4. h \notin Ends \cup {"new"} /\ EditHome(h, h) /\ h \notin RevisedRows \cup UnrevisedRows
  BY DEF EditHandlers, Revised, Unrevised, EditHome, Ends, RevisedRows, UnrevisedRows
<1>5. Moves(m)
  BY <1>1, <1>4, BeginMoves
<1>6. EditRow(m)' = db.edited[i] /\ db.edited[i] \in EditedRecord /\ db.edited[i].rev \in Nat
  BY <1>1, <1>2, <1>3 DEF EditRow, EditedRecord
<1>7. i \in Requests => ~At(i, "new")' /\ ~At(i, "createJob")'
  <2>1. \A s \in Requests : At(s, "new") \/ At(s, "createJob") => db.edited[s] = Nil
    BY EditThere DEF Unborn
  <2>2. i # m
    BY <1>1, <1>3, <2>1
  <2> QED
    BY <1>1, <1>3, <2>1, <2>2 DEF At
<1>8. NamesRow(m)'
  BY <1>1, <1>3, <1>6, <1>7 DEF NamesRow
<1>9. EditsAtHome(m)' /\ EditHolds(m)' /\ AsRead(m)' /\ OrCrossed(m)' /\ Unborn(m)'
  <2>1. EditsAtHome(m)'
    BY <1>3, <1>4 DEF EditsAtHome
  <2>2. EditHolds(m)' /\ AsRead(m)'
    BY <1>3, <1>4 DEF EditHolds, AsRead
  <2>3. OrCrossed(m)'
    BY <1>3, <1>4 DEF OrCrossed, UnrevisedRows
  <2>4. Unborn(m)'
    BY <1>3, <1>4 DEF Unborn, At
  <2> QED
    BY <2>1, <2>2, <2>3, <2>4
<1>10. EditWrites(m)
  <2>1. db'.edited = [db.edited EXCEPT ![m] = db.edited[m]] /\ db.edited[m] \in EditedRecord \cup {Nil}
    BY <1>2, <1>3
  <2>2. RowMoves(m, m, db.edited[m])
    BY DEF RowMoves
  <2> QED
    BY <1>2, <2>1, <2>2 DEF EditWrites
<1> QED
  BY <1>3, <1>5, <1>8, <1>9, <1>10 DEF EditGoes, EditKept, At

LEMMA JobBegins ==
    ASSUME EditInv, NEW m \in Requests, Begin(m, "createJob", Nil)
    PROVE  EditGoes(m)
<1>1. /\ HistoryOK /\ Unborn(m) /\ db.edited \in [Ids -> EditedRecord \cup {Nil}] /\ m \in Ids
  BY EditThere
<1>2. /\ req'[m].do = "createJob" /\ req'[m].at = "createJob" /\ db' = db /\ At(m, "new") /\ mix' = mix
      /\ "createJob" \in mix
  BY <1>1, BeginEffect, BeginRequest DEF Begin
<1>3. Moves(m)
  BY BeginMoves DEF Ends
<1>4. EditKept(m)'
  <2>1. EditsAtHome(m)' /\ NamesRow(m)'
    BY <1>2 DEF EditsAtHome, EditHome, NamesRow, EditHandlers, Revised
  <2>2. EditHolds(m)' /\ AsRead(m)' /\ OrCrossed(m)'
    BY <1>2 DEF EditHolds, AsRead, OrCrossed, RevisedRows, UnrevisedRows
  <2>3. Unborn(m)'
    BY <1>1, <1>2 DEF Unborn
  <2> QED
    BY <2>1, <2>2, <2>3 DEF EditKept
<1>5. EditWrites(m)
  <2>1. db'.edited = [db.edited EXCEPT ![m] = db.edited[m]] /\ db.edited[m] \in EditedRecord \cup {Nil}
    BY <1>1, <1>2
  <2>2. RowMoves(m, m, db.edited[m])
    BY DEF RowMoves
  <2> QED
    BY <1>1, <2>1, <2>2 DEF EditWrites
<1> QED
  BY <1>2, <1>3, <1>4, <1>5 DEF EditGoes

LEMMA JobCreated ==
    ASSUME EditInv, NEW m \in Requests, CreateJob(m)
    PROVE  EditGoes(m)
<1> DEFINE tables == [db EXCEPT !.edited[m] = Edited]
<1>1. /\ HistoryOK /\ Unborn(m) /\ EditsAtHome(m) /\ EditFields \subseteq DOMAIN db
      /\ db.edited \in [Ids -> EditedRecord \cup {Nil}] /\ m \in Ids
  BY EditThere
<1>2. At(m, "createJob") /\ Do(m, "ingestJob", [of |-> <<"edited", m>>], tables)
  BY DEF CreateJob, ThenIngest
<1>3. DOMAIN tables = DOMAIN db /\ tables.edited = [db.edited EXCEPT ![m] = Edited]
  BY <1>1 DEF EditFields
<1> HIDE DEF tables
<1>4. Open(m) /\ req[m].do = "createJob"
  BY <1>1, <1>2 DEF EditsAtHome, EditHome, Open, Ended, Ends, At
<1>5. req'[m].do = req[m].do /\ req'[m].at = "ingestJob" /\ db' = tables /\ mix' = mix
  BY <1>1, <1>2, DoEffect DEF Do
<1>6. Moves(m)
  BY <1>2, <1>4, DoMoves
<1>7. EditKept(m)'
  <2>1. EditsAtHome(m)' /\ NamesRow(m)'
    BY <1>1, <1>4, <1>5 DEF EditsAtHome, EditHome, NamesRow
  <2>2. EditHolds(m)' /\ AsRead(m)' /\ OrCrossed(m)' /\ Unborn(m)'
    BY <1>5 DEF EditHolds, AsRead, OrCrossed, RevisedRows, UnrevisedRows, Unborn, At
  <2> QED
    BY <2>1, <2>2 DEF EditKept
<1>8. EditWrites(m)
  <2>1. Edited \in EditedRecord
    BY DEF Edited, EditedRecord, Setters
  <2>2. db.edited[m] = Nil
    BY <1>1, <1>2 DEF Unborn
  <2>3. RowMoves(m, m, Edited)
    BY <1>2 DEF RowMoves
  <2> QED
    BY <1>1, <1>3, <1>5, <2>1, <2>2, <2>3 DEF EditWrites
<1> QED
  BY <1>3, <1>5, <1>6, <1>7, <1>8 DEF EditGoes, At

LEMMA EditMoves ==
    ASSUME EditInv, NEW m \in Requests, EditMove(m)
    PROVE  EditGoes(m)
<1>1. CASE EditStep(m)
  BY <1>1, EditBegins, EditReads, EditSaves, EditDrops, EditUnrevised, EditBases DEF EditStep
<1>2. CASE Begin(m, "createJob", Nil) \/ CreateJob(m) \/ StoreIngest(m)
  BY <1>2, JobBegins, JobCreated, EditDrops
<1>3. CASE Killed(m)
  <2>1. Open(m)
    BY <1>3 DEF Killed
  <2> QED
    BY <1>3, <2>1, EditRefuses
<1> QED
  BY <1>1, <1>2, <1>3 DEF EditMove

\* The runs of ingest jobs leave the rows alone.
LEMMA WorkersLeaveRows ==
    ASSUME EditFields \subseteq DOMAIN db, IngestStep
    PROVE  DOMAIN db' = DOMAIN db /\ db'.edited = db.edited /\ UNCHANGED <<req, prior, mix>>
<1> SUFFICES DOMAIN db' = DOMAIN db /\ db'.edited = db.edited
  BY DEF IngestStep
<1>1. PICK j \in Requests : FillDocument(j) \/ ReadText(j) \/ StoreNodes(j) \/ FailIngest(j)
  BY DEF IngestStep
<1>4. CASE FillDocument(j)
  <2>1. CASE db' = Over(j, "failed") \/ db' = Raised(j)
    <3>1. Raised(j) = Over(j, "dead") \/ Raised(j) = Over(j, Nil)
      BY DEF Raised
    <3>2. db' = Over(j, "failed") \/ db' = Over(j, "dead") \/ db' = Over(j, Nil)
      BY <2>1, <3>1
    <3>3. /\ DOMAIN Over(j, "failed") = DOMAIN db /\ Over(j, "failed").edited = db.edited
          /\ DOMAIN Over(j, "dead") = DOMAIN db /\ Over(j, "dead").edited = db.edited
          /\ DOMAIN Over(j, Nil) = DOMAIN db /\ Over(j, Nil).edited = db.edited
      BY DEF Over, EditFields
    <3> QED
      BY <3>2, <3>3
  <2>2. CASE ~(db' = Over(j, "failed") \/ db' = Raised(j))
    <3>1. PICK how \in {"done", Nil} :
             db' = [Over(j, how) EXCEPT !.version[j] = Version(j, 1), !.document[j].latest = j,
                                        !.behind = @ \cup {<<"document", j>>}]
      BY <1>4, <2>2 DEF FillDocument
    <3>2. PICK over : over = Over(j, how)
      OBVIOUS
    <3>3. DOMAIN over = DOMAIN db /\ over.edited = db.edited
      BY <3>2 DEF Over, EditFields
    <3>4. db' = [over EXCEPT !.version[j] = Version(j, 1), !.document[j].latest = j,
                             !.behind = @ \cup {<<"document", j>>}]
      BY <3>1, <3>2
    <3> QED
      BY <3>3, <3>4 DEF EditFields
  <2> QED
    BY <2>1, <2>2
<1>5. CASE ReadText(j)
  <2> DEFINE of == db.ingest[j].of
  <2>1. CASE db' = Over(j, "failed")
    <3>1. DOMAIN Over(j, "failed") = DOMAIN db /\ Over(j, "failed").edited = db.edited
      BY DEF Over, EditFields
    <3> QED
      BY <2>1, <3>1
  <2>2. CASE db' # Over(j, "failed")
    <3>1. db' = [Over(j, Nil) EXCEPT !.reads[j] = @ \cup {TextOf(of)},
                                     !.behind = IF Reading(of) = {} THEN @ ELSE @ \cup {of}]
      BY <1>5, <2>2 DEF ReadText
    <3>2. PICK over : over = Over(j, Nil)
      OBVIOUS
    <3>3. DOMAIN over = DOMAIN db /\ over.edited = db.edited
      BY <3>2 DEF Over, EditFields
    <3>4. db' = [over EXCEPT !.reads[j] = @ \cup {TextOf(of)},
                             !.behind = IF Reading(of) = {} THEN @ ELSE @ \cup {of}]
      BY <3>1, <3>2
    <3> QED
      BY <3>3, <3>4 DEF EditFields
  <2> QED
    BY <2>1, <2>2
<1>6. CASE StoreNodes(j) \/ FailIngest(j)
  <2> DEFINE Leaves(tables) == DOMAIN tables = DOMAIN db /\ tables.edited = db.edited
  <2>1. CASE StoreNodes(j)
    <3>1. PICK text \in db.reads[j] :
             db' = [Without(j, text) EXCEPT !.node[db.ingest[j].of] = text, !.ingest[j].over = "done"]
      BY <2>1 DEF StoreNodes
    <3>2. PICK base : base = [db EXCEPT !.reads[j] = @ \ {text}]
      OBVIOUS
    <3>3. Leaves(base)
      BY <3>2 DEF EditFields
    <3>4. db' = [base EXCEPT !.node[db.ingest[j].of] = text, !.ingest[j].over = "done"]
      BY <3>1, <3>2 DEF Without
    <3> QED
      BY <3>3, <3>4 DEF EditFields
  <2>2. CASE FailIngest(j)
    <3>1. PICK text \in db.reads[j] :
             LET last == db.ingest[j].runs = MaxTries /\ db.reads[j] = {text} IN
             db' = [Without(j, text) EXCEPT !.ingest[j].over = IF @ = Nil /\ last THEN "dead" ELSE @]
      BY <2>2 DEF FailIngest
    <3>2. PICK base : base = [db EXCEPT !.reads[j] = @ \ {text}]
      OBVIOUS
    <3>3. Leaves(base)
      BY <3>2 DEF EditFields
    <3>4. PICK ingest : db' = [base EXCEPT !.ingest = ingest]
      BY <3>1, <3>2 DEF Without
    <3> QED
      BY <3>3, <3>4 DEF EditFields
  <2> QED
    BY <1>6, <2>1, <2>2
<1> QED
  BY <1>1, <1>4, <1>5, <1>6

LEMMA EditInvNext ==
    ASSUME EditInv, [EditNext]_vars
    PROVE  EditInv'
<1>1. ASSUME NEW m \in Requests, EditMove(m) PROVE EditInv'
  BY <1>1, EditMoves, EditInvStep
<1>2. ASSUME UNCHANGED <<req, prior, mix>>, DOMAIN db' = DOMAIN db, db'.edited = db.edited PROVE EditInv'
  <2>1. HistoryOK' /\ OneTable' /\ EditShape'
    BY <1>2 DEF EditInv, HistoryOK, RequestShape, PriorHasEnded, Ended, OneTable, EditShape
  <2>2. ASSUME NEW r \in Requests PROVE EditKept(r)'
    <3>1. EditRow(r)' = EditRow(r) /\ EditCrossed(r)' = EditCrossed(r)
      BY <1>2 DEF EditRow, EditCrossed, MetAny, Met, At
    <3>2. EditKept(r)
      BY DEF EditInv
    <3> QED
      BY <1>2, <3>1, <3>2 DEF EditKept, EditsAtHome, NamesRow, EditHolds, AsRead, OrCrossed, Unborn, At
  <2> QED
    BY <2>1, <2>2 DEF EditInv
<1>3. CASE IngestStep
  BY <1>2, <1>3, WorkersLeaveRows DEF EditInv, EditShape
<1>4. CASE UNCHANGED vars
  BY <1>2, <1>4 DEF vars
<1> QED
  BY <1>1, <1>3, <1>4 DEF EditNext

LEMMA EditInvInit == EditInit => EditInv
<1> SUFFICES ASSUME EditInit PROVE EditInv
  OBVIOUS
<1>1. HistoryOK
  BY HistoryInit DEF EditInit
<1>2. ASSUME NEW r \in Requests PROVE EditKept(r)
  <2>1. req[r].do = "none" /\ req[r].at = "new" /\ db.edited[r] = Nil
    BY DEF EditInit, RequestsInit
  <2>2. EditsAtHome(r) /\ NamesRow(r) /\ Unborn(r)
    BY <2>1 DEF EditsAtHome, EditHome, NamesRow, Unborn, EditHandlers, Revised, Unrevised
  <2>3. EditHolds(r) /\ AsRead(r) /\ OrCrossed(r)
    BY <2>1 DEF EditHolds, AsRead, OrCrossed, RevisedRows, UnrevisedRows
  <2> QED
    BY <2>2, <2>3 DEF EditKept
<1> QED
  BY <1>1, <1>2 DEF EditInit, EditInv

\* OnlyAskedIsChanged: a column of a row changes only to what the request that
\* changes it was asked to set; patchSettings and patchMyProfile may undo what
\* the requests they overlap have set.
THEOREM EditsChangeWhatIsAsked == EditSpec => OnlyAskedIsChanged
<1> DEFINE Changed ==
      \A i \in Ids : \A c \in Columns :
          LET was == db.edited[i].cols[c]  is == db'.edited[i].cols[c] IN
          db.edited[i] # Nil /\ db'.edited[i] # Nil /\ is # was =>
              \/ is # Nil /\ c \in Asked(is) /\ req'[is].at # req[is].at
              \/ \E r \in Requests : /\ req'[r].at # req[r].at
                                     /\ \E h \in {"patchSettings", "patchMyProfile"} :
                                           req[r].do = h /\ MetAny(r, {h, "setBaseProfile"})
<1>1. EditInv /\ [EditNext]_vars => [Changed]_vars
  <2>1. ASSUME EditInv, NEW m \in Requests, EditMove(m),
               NEW i \in Ids, NEW c \in Columns, db.edited[i] # Nil, db'.edited[i] # Nil,
               db'.edited[i].cols[c] # db.edited[i].cols[c]
        PROVE  \/ db'.edited[i].cols[c] = m /\ c \in Asked(m) /\ req'[m].at # req[m].at
               \/ /\ req'[m].at # req[m].at
                  /\ \E h \in {"patchSettings", "patchMyProfile"} : req[m].do = h /\ MetAny(m, {h, "setBaseProfile"})
    <3>1. EditGoes(m)
      BY <2>1, EditMoves
    <3>2. PICK j \in Ids, row \in EditedRecord \cup {Nil} :
             /\ db'.edited = [db.edited EXCEPT ![j] = row]
             /\ db.edited[j] # Nil /\ row \notin {Nil, db.edited[j]} =>
                   AskedOrCrossed(m, db.edited[j], row) /\ req'[m].at # req[m].at
      BY <3>1 DEF EditGoes, EditWrites
    <3>3. db.edited \in [Ids -> EditedRecord \cup {Nil}]
      BY <2>1, EditThere
    <3>4. j = i /\ row = db'.edited[i] /\ row # Nil /\ row # db.edited[i]
      BY <2>1, <3>2, <3>3
    <3>5. AskedOrCrossed(m, db.edited[i], row) /\ req'[m].at # req[m].at
      BY <2>1, <3>2, <3>4
    <3> QED
      BY <2>1, <3>4, <3>5 DEF AskedOrCrossed, EditCrossed
  <2>2. ASSUME EditInv, NEW m \in Requests, EditMove(m) PROVE Changed
    <3>1. m # Nil
      BY CoreWorkerAssumption
    <3> QED
      BY <2>1, <2>2, <3>1
  <2>3. ASSUME EditInv, IngestStep PROVE Changed
    <3>1. db'.edited = db.edited
      BY <2>3, WorkersLeaveRows DEF EditInv, EditShape
    <3> QED
      BY <3>1
  <2> QED
    BY <2>2, <2>3 DEF EditNext
<1>2. EditInv /\ [EditNext]_vars => EditInv'
  BY EditInvNext
<1>3. OnlyAskedIsChanged <=> [][Changed]_vars
  BY PTL DEF OnlyAskedIsChanged
<1> QED
  BY EditInvInit, <1>1, <1>2, <1>3, PTL DEF EditSpec
=============================================================================
