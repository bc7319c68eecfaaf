---------------------------- MODULE PaperProofs ----------------------------
(***************************************************************************)
(* Theorems about documents, approvals, submissions, runs and the index,   *)
(* together, under the specification PaperSpec of the module Papers:       *)
(* documents agree with their versions, approvals are spent on what they   *)
(* are of, the index follows the texts, and, with the handlers of Schedule *)
(* among the others, what was decided stays.                               *)
(***************************************************************************)
EXTENDS Papers, CoreWorkerProofs, FiniteSetTheorems

PaperInv ==
    /\ HistoryOK /\ IsFiniteSet(Ids)
    /\ PaperShape /\ References /\ AllAgree /\ AllSpent
    /\ \A r \in Requests : PaperStatement(r)

\* One request moves, or none does (m is Nil).
Goes(m) ==
    \/ m \in Requests /\ Moves(m)
    \/ m = Nil /\ req' = req /\ prior' = prior

LEMMA GoesOthers ==
    ASSUME HistoryOK, NEW m, Goes(m)
    PROVE  /\ HistoryOK'
           /\ \A r \in Requests : r # m => req'[r] = req[r]
           /\ \A r \in Requests : ~At(r, "new") =>
                 /\ ~At(r, "new")' /\ req'[r].do = req[r].do /\ req'[r].arg = req[r].arg
                 /\ Ended(r) => req'[r] = req[r]
           /\ \A r, s \in Requests : Met(r, s) => Met(r, s)'
<1>1. CASE m \in Requests /\ Moves(m)
  <2>1. HistoryOK'
    BY <1>1, HistoryStep
  <2>2. \A r \in Requests : /\ r # m => req'[r] = req[r]
                            /\ Ended(r) => req'[r] = req[r]
                            /\ ~At(r, "new") => ~At(r, "new")' /\ req'[r].do = req[r].do /\ req'[r].arg = req[r].arg
    BY <1>1, OthersStay
  <2>3. \A r, s \in Requests : Met(r, s) => Met(r, s)'
    BY <1>1, MetStays
  <2> QED
    BY <2>1, <2>2, <2>3
<1>2. CASE m = Nil /\ req' = req /\ prior' = prior
  <2>1. HistoryOK'
    BY <1>2 DEF HistoryOK, RequestShape, PriorHasEnded, Ended, At
  <2>2. \A r, s \in Requests : Met(r, s) => Met(r, s)'
    BY <1>2 DEF Met, At
  <2> QED
    BY <1>2, <2>1, <2>2 DEF At, Ended
<1> QED
  BY <1>1, <1>2 DEF Goes

LEMMA MeetingsStay ==
    ASSUME HistoryOK, NEW m, Goes(m)
    PROVE  /\ \A r \in Requests : \A handlers : MetAny(r, handlers) => MetAny(r, handlers)'
           /\ \A h : \A r \in Doing(h) : r \in Doing(h)' /\ req'[r].arg = req[r].arg
           /\ \A h, i, writers : /\ Lost(h, i, writers) => Lost(h, i, writers)'
                                 /\ LostAll(h, i, writers) => LostAll(h, i, writers)'
<1>1. ASSUME NEW r \in Requests, NEW handlers, MetAny(r, handlers) PROVE MetAny(r, handlers)'
  <2>1. PICK s \in Requests : req[s].do \in handlers /\ Met(r, s)
    BY <1>1 DEF MetAny
  <2>2. Met(r, s)' /\ req'[s].do = req[s].do
    BY <2>1, GoesOthers DEF Met
  <2> QED
    BY <2>1, <2>2 DEF MetAny
<1>2. ASSUME NEW h, NEW r \in Doing(h) PROVE r \in Doing(h)' /\ req'[r].arg = req[r].arg
  BY GoesOthers DEF Doing
<1>3. ASSUME NEW h, NEW i, NEW writers, Lost(h, i, writers) PROVE Lost(h, i, writers)'
  <2>1. PICK r \in Doing(h) : req[r].arg.id = i /\ MetAny(r, writers)
    BY <1>3 DEF Lost
  <2>2. r \in Requests /\ MetAny(r, writers)' /\ r \in Doing(h)' /\ req'[r].arg = req[r].arg
    BY <1>1, <1>2, <2>1 DEF Doing
  <2> QED
    BY <2>1, <2>2 DEF Lost
<1>4. ASSUME NEW h, NEW i, NEW writers, LostAll(h, i, writers) PROVE LostAll(h, i, writers)'
  <2>1. PICK r \in Doing(h) : At(r, "refused")
    BY <1>4 DEF LostAll
  <2>2. r \in Doing(h)' /\ At(r, "refused")'
    BY <1>2, <2>1, GoesOthers DEF Doing, Ended, Ends, At
  <2> QED
    BY <1>3, <1>4, <2>2 DEF LostAll
<1> QED
  BY <1>1, <1>2, <1>3, <1>4

-----------------------------------------------------------------------------
\* How a step leaves the rows that were there.
FilledNow(d) ==
    /\ VersionsOf(d) = {} /\ VersionsOf(d)' = {d} /\ d \in Requests /\ db.ingest[d] # Nil
    /\ db'.document[d] = [db.document[d] EXCEPT !.latest = d]
DocumentGrows(m, d) ==
    db.document[d] # Nil =>
        /\ db'.document[d] # Nil /\ db.document[d].rev <= db'.document[d].rev
        /\ db'.document[d].rev = db.document[d].rev =>
              FilledNow(d) \/ (db'.document[d] = db.document[d] /\ VersionsOf(d)' = VersionsOf(d))
        /\ db'.document[d].rev # db.document[d].rev =>
              m \in Requests /\ Open(m) /\ req[m].do \in DocumentWriters
ApprovalGrows(a) ==
    LET old == db.approval[a]  new == db'.approval[a] IN
    old # Nil =>
        /\ new # Nil /\ new.kind = old.kind /\ new.target = old.target
        /\ old.kind # "card" =>
              /\ old.rev <= new.rev
              /\ new.rev = old.rev => new.state = old.state \/ (old.state = "PENDING" /\ new.state = "EXPIRED")
              /\ old.state = "CONSUMED" => new.state = "CONSUMED"
ApplicationGrows(m, i) ==
    LET old == db.application[i]  new == db'.application[i] IN
    old # Nil =>
        /\ new # Nil /\ old.rev <= new.rev /\ (new.rev = old.rev => new = old)
        /\ Applied(old.stage) => Applied(new.stage)
        /\ new.rev # old.rev =>
              Applied(new.stage) \/ (m \in Requests /\ Open(m) /\ req[m].do = "patchApplication")
RunGrows(m, i) ==
    LET old == db.run[i]  new == db'.run[i] IN
    old # Nil =>
        /\ new # Nil /\ old.rev <= new.rev /\ (new.rev = old.rev => new = old)
        /\ old.state # "APPROVAL_REQUIRED" => new.state # "APPROVAL_REQUIRED"
        /\ old.approval # Nil => new.approval = old.approval
        /\ new.rev # old.rev =>
              old.state # "APPROVAL_REQUIRED" \/ (m \in Requests /\ Open(m) /\ req[m].do = "startRun")
IngestGrows(r) ==
    db.ingest[r] # Nil => db'.ingest[r] # Nil /\ db'.ingest[r].of = db.ingest[r].of
\* Of another request than m, the rows that are new.
NamesKept(m) ==
    \A r \in Requests : r # m =>
        /\ PaperRowsOf(r) = {Nil} /\ db.ingest[r] = Nil => PaperRowsOf(r)' = {Nil}
        /\ db.ingest[r] = Nil <=> db'.ingest[r] = Nil
        /\ db.document[r] = Nil <=> db'.document[r] = Nil
        /\ db'.version[r] = db.version[r] \/ db'.version[r].document = r
Grows(m) ==
    /\ PaperShape'
    /\ \A i \in Ids : /\ DocumentGrows(m, i) /\ ApprovalGrows(i) /\ ApplicationGrows(m, i) /\ RunGrows(m, i)
                      /\ db.version[i] # Nil => db'.version[i] = db.version[i]
                      /\ db.finalized[i] # Nil => db'.finalized[i] = db.finalized[i]
                      /\ db.draft[i] # Nil => db'.draft[i] = db.draft[i]
                      /\ db.submission[i] # Nil => db'.submission[i] = db.submission[i]
    /\ \A r \in Requests : IngestGrows(r)
    /\ NamesKept(m)

LEMMA VersionsStay ==
    ASSUME PaperInv, NEW m, Grows(m), NEW d
    PROVE  VersionsOf(d) \subseteq VersionsOf(d)'
  BY DEF VersionsOf, Grows

LEMMA TargetStays ==
    ASSUME NEW m, Grows(m), NEW kind, NEW target, TargetThere(kind, target)
    PROVE  TargetThere(kind, target)'
  BY DEF Grows, TargetThere, RunGrows

LEMMA CalledForStays ==
    ASSUME PaperInv, NEW m, Grows(m), NEW h, NEW arg, CalledFor(h, arg)
    PROVE  CalledFor(h, arg)'
<1>1. \A i \in Ids : /\ db.document[i] # Nil => db'.document[i] # Nil
                     /\ db.application[i] # Nil => db'.application[i] # Nil
                     /\ db.run[i] # Nil => db'.run[i] # Nil
                     /\ db.version[i] # Nil => db'.version[i] # Nil
                     /\ db.draft[i] # Nil => db'.draft[i] # Nil
                     /\ db.approval[i] # Nil => db'.approval[i] # Nil /\ db'.approval[i].kind = db.approval[i].kind
  BY DEF Grows, DocumentGrows, ApplicationGrows, RunGrows, ApprovalGrows
<1>2. \A d : VersionsOf(d) \subseteq VersionsOf(d)'
  BY VersionsStay
<1>3. \A kind, target : TargetThere(kind, target) => TargetThere(kind, target)'
  BY TargetStays
<1> QED
  BY <1>1, <1>2, <1>3 DEF CalledFor

LEMMA DocumentHeldStays ==
    ASSUME PaperInv, NEW m, Grows(m), NEW d \in Ids, db.document[d] # Nil, NEW h, DocumentHeld(d, h)
    PROVE  DocumentHeld(d, h)'
<1>1. db.document[d] \in DocumentRecord /\ db'.document[d] \in DocumentRecord
  BY DEF PaperInv, PaperShape, Grows, DocumentGrows
<1>2. h \in DocumentRecord /\ h.rev <= db.document[d].rev /\ db.document[d].rev <= db'.document[d].rev
  BY DEF DocumentHeld, Grows, DocumentGrows
<1>3. h.rev \in Nat /\ db.document[d].rev \in Nat /\ db'.document[d].rev \in Nat
  BY <1>1, <1>2 DEF DocumentRecord
<1>4. h.rev <= db'.document[d].rev
  BY <1>2, <1>3
<1>5. ASSUME h.rev = db'.document[d].rev
      PROVE  \/ db'.document[d] = h
             \/ /\ h.latest = Nil /\ db'.document[d] = [h EXCEPT !.latest = d]
                /\ VersionsOf(d)' = {d} /\ d \in Requests /\ db'.ingest[d] # Nil
  <2>1. h.rev = db.document[d].rev /\ db'.document[d].rev = db.document[d].rev
    BY <1>2, <1>3, <1>5
  <2>2. FilledNow(d) \/ (db'.document[d] = db.document[d] /\ VersionsOf(d)' = VersionsOf(d))
    BY <2>1 DEF Grows, DocumentGrows
  <2>3. \/ db.document[d] = h
        \/ /\ h.latest = Nil /\ db.document[d] = [h EXCEPT !.latest = d]
           /\ VersionsOf(d) = {d} /\ d \in Requests /\ db.ingest[d] # Nil
    BY <2>1 DEF DocumentHeld
  <2>4. d \in Requests /\ db.ingest[d] # Nil => db'.ingest[d] # Nil
    BY DEF Grows, IngestGrows
  <2>5. CASE FilledNow(d)
    <3>1. db.document[d] = h
      BY <2>3, <2>5 DEF FilledNow
    <3>2. db.document[d].latest \notin VersionsOf(d)
      BY <2>5 DEF FilledNow
    <3>3. db.document[d].latest = Nil
      BY <3>2 DEF PaperInv, AllAgree, Agrees
    <3> QED
      BY <2>4, <2>5, <3>1, <3>3 DEF FilledNow
  <2> QED
    BY <2>2, <2>3, <2>4, <2>5
<1> QED
  BY <1>2, <1>4, <1>5 DEF DocumentHeld

LEMMA RowsHeldStay ==
    ASSUME PaperInv, NEW m, Grows(m), NEW i \in Ids, NEW h
    PROVE  /\ db.application[i] # Nil /\ h \in ApplicationRecord /\ RowHeld("application", i, h) =>
                 RowHeld("application", i, h)'
           /\ db.run[i] # Nil /\ h \in LaunchRecord /\ RowHeld("run", i, h) => RowHeld("run", i, h)'
           /\ db.run[i] # Nil /\ RunHeld(i, h) => RunHeld(i, h)'
<1>1. ASSUME db.application[i] # Nil, h \in ApplicationRecord, RowHeld("application", i, h)
      PROVE  RowHeld("application", i, h)'
  <2>1. /\ db.application[i] \in ApplicationRecord /\ db'.application[i] \in ApplicationRecord
        /\ db.application[i].rev <= db'.application[i].rev
        /\ db'.application[i].rev = db.application[i].rev => db'.application[i] = db.application[i]
    BY <1>1 DEF PaperInv, PaperShape, Grows, ApplicationGrows
  <2>2. h.rev \in Nat /\ db.application[i].rev \in Nat /\ db'.application[i].rev \in Nat
    BY <1>1, <2>1 DEF ApplicationRecord
  <2> QED
    BY <1>1, <2>1, <2>2 DEF RowHeld
<1>2. db.run[i] # Nil =>
         /\ db.run[i] \in LaunchRecord /\ db'.run[i] \in LaunchRecord
         /\ db.run[i].rev <= db'.run[i].rev
         /\ db'.run[i].rev = db.run[i].rev => db'.run[i] = db.run[i]
         /\ db.run[i].state # "APPROVAL_REQUIRED" => db'.run[i].state # "APPROVAL_REQUIRED"
  BY DEF PaperInv, PaperShape, Grows, RunGrows
<1>3. ASSUME db.run[i] # Nil, h \in LaunchRecord
      PROVE  h.rev \in Nat /\ db.run[i].rev \in Nat /\ db'.run[i].rev \in Nat
  BY <1>2, <1>3 DEF LaunchRecord
<1>4. ASSUME db.run[i] # Nil, h \in LaunchRecord, RowHeld("run", i, h) PROVE RowHeld("run", i, h)'
  BY <1>2, <1>3, <1>4 DEF RowHeld
<1>5. ASSUME db.run[i] # Nil, RunHeld(i, h) PROVE RunHeld(i, h)'
  <2>1. h \in LaunchRecord
    BY <1>5 DEF RunHeld
  <2> QED
    BY <1>2, <1>3, <1>5, <2>1 DEF RunHeld
<1> QED
  BY <1>1, <1>4, <1>5

\* An approval, once it may be spent, is spent or stays.
LEMMA ApprovalHeldStays ==
    ASSUME PaperInv, NEW m, Grows(m), NEW a \in Ids, db.approval[a] # Nil, db.approval[a].kind # "card",
           NEW h \in ApprovalRecord, h.rev <= db.approval[a].rev
    PROVE  /\ h.rev <= db'.approval[a].rev
           /\ db'.approval[a].kind = db.approval[a].kind /\ db'.approval[a].target = db.approval[a].target
           /\ h.rev = db'.approval[a].rev =>
                 /\ h.rev = db.approval[a].rev
                 /\ \/ db'.approval[a].state = db.approval[a].state
                    \/ db.approval[a].state = "PENDING" /\ db'.approval[a].state = "EXPIRED"
<1>1. ApprovalGrows(a) /\ db.approval[a] \in ApprovalRecord /\ db'.approval[a] \in ApprovalRecord
  BY DEF PaperInv, PaperShape, Grows, ApprovalGrows
<1>2. h.rev \in Nat /\ db.approval[a].rev \in Nat /\ db'.approval[a].rev \in Nat
  BY <1>1 DEF ApprovalRecord
<1> QED
  BY <1>1, <1>2 DEF ApprovalGrows

-----------------------------------------------------------------------------
LEMMA CalledWell ==
    ASSUME PaperInv, NEW r \in Requests, ~At(r, "new")
    PROVE  CalledFor(req[r].do, req[r].arg) /\ AtHome(req[r].do, req[r].at)
  BY DEF PaperInv, PaperStatement

LEMMA OthersHaveRead ==
    ASSUME PaperInv, NEW m, Goes(m), Grows(m), NEW r \in Requests, req'[r] = req[r], ~At(r, "new")
    PROVE  HasRead(r)' /\ Spends(r)' /\ CalledFor(req[r].do, req[r].arg)'
<1>0. HasRead(r) /\ Spends(r)
  BY DEF PaperInv, PaperStatement
<1>1. CalledFor(req[r].do, req[r].arg) /\ AtHome(req[r].do, req[r].at)
  BY CalledWell
<1>2. CalledFor(req[r].do, req[r].arg)'
  <2>1. \A h, arg : CalledFor(h, arg) => CalledFor(h, arg)'
    BY CalledForStays
  <2> QED
    BY <1>1, <2>1
<1> DEFINE v == req[r].v  d == req[r].arg.id
<1>d. req[r].do \in DocumentWriters => d \in Ids /\ db.document[d] # Nil
  BY <1>1 DEF CalledFor
<1>3. \A h : req[r].do \in DocumentWriters /\ DocumentHeld(d, h) => DocumentHeld(d, h)'
  BY <1>d, DocumentHeldStays
<1>4. \A h : req[r].do \in DocumentWriters /\ MutableHeld(d, h) => MutableHeld(d, h)'
  BY <1>3 DEF MutableHeld
<1>5. req[r].do \in {"patchApplication", "createDraft", "submit"} => d \in Ids /\ db.application[d] # Nil
  BY <1>1 DEF CalledFor
<1>6. req[r].do \in {"startRun"} \cup Reporters => d \in Ids /\ db.run[d] # Nil
  BY <1>1 DEF CalledFor
<1>7. \A h \in ApplicationRecord : req[r].do \in {"patchApplication", "createDraft", "submit"} /\ RowHeld("application", d, h) =>
          RowHeld("application", d, h)'
  BY <1>5, RowsHeldStay
<1>8. \A h \in LaunchRecord : req[r].do = "startRun" /\ RowHeld("run", d, h) => RowHeld("run", d, h)'
  BY <1>6, RowsHeldStay
<1>9. \A h : req[r].do \in Reporters /\ RunHeld(d, h) => RunHeld(d, h)'
  BY <1>6, RowsHeldStay
<1>10. HasRead(r)'
  <2>1. req[r].at \in {"patchRow", "saveVersion", "readProposal", "finalizeCheck"} => MutableHeld(d, v)'
    BY <1>0, <1>1, <1>4 DEF HasRead, AtHome, DocumentWriters, Editors
  <2>2. req[r].at \in {"archiveRow", "convertRow"} => DocumentHeld(d, v)'
    BY <1>0, <1>1, <1>3 DEF HasRead, AtHome, DocumentWriters
  <2>3. At(r, "decideRow") => /\ v \in ApprovalRecord /\ v.rev <= db'.approval[d].rev
                              /\ v.rev = db'.approval[d].rev => db'.approval[d].state \in {"PENDING", "EXPIRED"}
    <3> SUFFICES ASSUME At(r, "decideRow")
                 PROVE  /\ v \in ApprovalRecord /\ v.rev <= db'.approval[d].rev
                        /\ v.rev = db'.approval[d].rev => db'.approval[d].state \in {"PENDING", "EXPIRED"}
      OBVIOUS
    <3>1. req[r].do = "decide"
      BY <1>1 DEF AtHome, At
    <3>2. d \in Ids /\ db.approval[d] # Nil /\ db.approval[d].kind # "card"
      BY <1>1, <3>1 DEF CalledFor
    <3>3. /\ v \in ApprovalRecord /\ v.rev <= db.approval[d].rev
          /\ v.rev = db.approval[d].rev => db.approval[d].state \in {"PENDING", "EXPIRED"}
      BY <1>0 DEF HasRead
    <3>4. /\ v.rev <= db'.approval[d].rev
          /\ v.rev = db'.approval[d].rev =>
                 /\ v.rev = db.approval[d].rev
                 /\ \/ db'.approval[d].state = db.approval[d].state
                    \/ db.approval[d].state = "PENDING" /\ db'.approval[d].state = "EXPIRED"
      BY <3>2, <3>3, ApprovalHeldStays
    <3> QED
      BY <3>3, <3>4
  <2>4. req[r].at \in {"applicationRow", "draftVersions", "draftRow", "submitDraft", "submitCheck"} =>
          v \in ApplicationRecord /\ RowHeld("application", d, v)'
    BY <1>0, <1>1, <1>7 DEF HasRead, AtHome
  <2>5. At(r, "draftRow") => \E e \in Ids : db'.finalized[e] = req[r].arg.version
    <3> SUFFICES ASSUME At(r, "draftRow") PROVE \E e \in Ids : db'.finalized[e] = req[r].arg.version
      OBVIOUS
    <3>1. PICK e \in Ids : db.finalized[e] = req[r].arg.version
      BY <1>0 DEF HasRead
    <3>2. req[r].arg.version \in Ids
      BY <1>1 DEF CalledFor, AtHome, At
    <3>3. Nil \notin Ids
      BY CoreWorkerAssumption, ApprovalAssumption DEF Ids
    <3>4. db'.finalized[e] = db.finalized[e]
      BY <3>1, <3>2, <3>3 DEF Grows
    <3> QED
      BY <3>1, <3>4
  <2>6. At(r, "startCheck") => v \in LaunchRecord /\ RowHeld("run", d, v)' /\ v.state = "APPROVAL_REQUIRED"
    BY <1>0, <1>1, <1>8 DEF HasRead, AtHome, At
  <2>7. At(r, "saveRun") => RunHeld(d, v)'
    BY <1>0, <1>1, <1>9 DEF HasRead, AtHome, At
  <2>8. /\ At(r, "archiveRow") => Mutable(v)
        /\ At(r, "applicationRow") => req[r].arg.to = Nil \/ CanPatchStage(v.stage, req[r].arg.to)
        /\ At(r, "ingestJob") /\ v.of[1] = "fill" => v.of = <<"fill", r>> /\ req[r].do = "convertSource"
    BY <1>0 DEF HasRead
  <2> QED
    <3>1. At(r, "ingestJob") => IngestJob(v.of) \in IngestRecord
      BY <1>0 DEF HasRead
    <3> QED
      BY <2>1, <2>2, <2>3, <2>4, <2>5, <2>6, <2>7, <2>8, <3>1 DEF HasRead, At
<1>11. Spends(r)'
  <2> SUFFICES ASSUME req[r].at \in {"spend", "spendRows"} PROVE Spends(r)'
    BY DEF Spends
  <2>1. req[r].do \in Spenders
    BY <1>1 DEF AtHome
  <2> DEFINE a == req[r].arg.approval
  <2>2. a \in Ids /\ db.approval[a] # Nil
    BY <1>1, <2>1 DEF CalledFor
  <2>3. /\ v.approval \in ApprovalRecord /\ v.approval.rev <= db.approval[a].rev
        /\ db.approval[a].kind = KindOf(req[r].do) /\ db.approval[a].target = Covered(r)
        /\ v.approval.rev = db.approval[a].rev => db.approval[a].state = "APPROVED"
        /\ req[r].do = "finalize" => MutableHeld(d, v.doc)
        /\ req[r].do = "submit" => v.app \in ApplicationRecord /\ RowHeld("application", d, v.app)
        /\ req[r].do = "startRun" => v.run \in LaunchRecord /\ RowHeld("run", d, v.run) /\ v.run.state = "APPROVAL_REQUIRED"
    BY <1>0 DEF Spends
  <2>4. db.approval[a].kind # "card"
    BY <2>3 DEF KindOf
  <2>5. /\ v.approval.rev <= db'.approval[a].rev
        /\ db'.approval[a].kind = db.approval[a].kind /\ db'.approval[a].target = db.approval[a].target
        /\ v.approval.rev = db'.approval[a].rev => db'.approval[a].state = "APPROVED"
    BY <2>2, <2>3, <2>4, ApprovalHeldStays
  <2>6. Covered(r)' = Covered(r)
    BY DEF Covered
  <2>7. req[r].do = "finalize" => MutableHeld(d, v.doc)'
    BY <1>4, <2>3 DEF DocumentWriters
  <2>8. req[r].do = "submit" => v.app \in ApplicationRecord /\ RowHeld("application", d, v.app)'
    BY <1>7, <2>3
  <2>9. req[r].do = "startRun" =>
           v.run \in LaunchRecord /\ RowHeld("run", d, v.run)' /\ v.run.state = "APPROVAL_REQUIRED"
    BY <1>8, <2>3
  <2> QED
    BY <2>3, <2>5, <2>6, <2>7, <2>8, <2>9 DEF Spends
<1> QED
  BY <1>2, <1>10, <1>11

LEMMA OvertakenStays ==
    ASSUME PaperInv, NEW m, Goes(m), Grows(m), NEW r \in Requests, r # m
    PROVE  Overtaken(r)'
<1>0. HistoryOK /\ Overtaken(r) /\ req'[r] = req[r]
  BY GoesOthers DEF PaperInv, PaperStatement
<1> SUFFICES ASSUME At(r, "spendRows") PROVE Overtaken(r)'
  BY <1>0 DEF Overtaken, At
<1>1. CalledFor(req[r].do, req[r].arg) /\ AtHome(req[r].do, req[r].at) /\ Spends(r) /\ Open(r)
  BY CalledWell DEF PaperInv, PaperStatement, At, Open, Ended, Ends
<1> DEFINE v == req[r].v  d == req[r].arg.id
<1>2. \A handlers : MetAny(r, handlers) => MetAny(r, handlers)'
  BY <1>0, MeetingsStay
<1>3. ASSUME NEW handlers, m \in Requests, Open(m), req[m].do \in handlers PROVE MetAny(r, handlers)
  <2>1. Met(r, m)
    BY <1>0, <1>1, <1>3, OpenMeet
  <2> QED
    BY <1>3, <2>1 DEF MetAny
<1>4. ASSUME req[r].do = "finalize", ~MetAny(r, DocumentWriters)' PROVE db'.document[d].rev = v.doc.rev
  <2>1. d \in Ids /\ db.document[d] # Nil
    BY <1>1, <1>4 DEF CalledFor, DocumentWriters
  <2>2. db.document[d].rev = v.doc.rev
    BY <1>0, <1>2, <1>4 DEF Overtaken
  <2> QED
    BY <1>2, <1>3, <1>4, <2>1, <2>2 DEF Grows, DocumentGrows
<1>5. ASSUME req[r].do = "submit", ~MetAny(r, {"patchApplication"})', ~Applied(db'.application[d].stage)
      PROVE  db'.application[d].rev = v.app.rev
  <2>1. d \in Ids /\ db.application[d] # Nil
    BY <1>1, <1>5 DEF CalledFor
  <2>2. db.application[d].rev = v.app.rev
    BY <1>0, <1>2, <1>5, <2>1 DEF Overtaken, Grows, ApplicationGrows
  <2>3. db'.application[d].rev # db.application[d].rev => m \in Requests /\ Open(m) /\ req[m].do \in {"patchApplication"}
    BY <1>5, <2>1 DEF Grows, ApplicationGrows
  <2> QED
    BY <1>2, <1>3, <1>5, <2>1, <2>2, <2>3
<1>6. ASSUME req[r].do = "startRun", ~MetAny(r, {"startRun"})' PROVE db'.run[d].rev = v.run.rev
  <2>1. d \in Ids /\ db.run[d] # Nil
    BY <1>1, <1>6 DEF CalledFor
  <2>2. db.run[d].rev = v.run.rev
    BY <1>0, <1>2, <1>6 DEF Overtaken
  <2>3. db.run[d].state = "APPROVAL_REQUIRED"
    BY <1>1, <1>6, <2>2 DEF Spends, RowHeld, At
  <2>4. db'.run[d].rev # db.run[d].rev => m \in Requests /\ Open(m) /\ req[m].do \in {"startRun"}
    BY <2>1, <2>3 DEF Grows, RunGrows
  <2> QED
    BY <1>2, <1>3, <1>6, <2>2, <2>4
<1> QED
  BY <1>0, <1>4, <1>5, <1>6 DEF Overtaken, At

LEMMA FreshStays ==
    ASSUME PaperInv, NEW m, Goes(m), Grows(m), NEW r \in Requests, r # m
    PROVE  Fresh(r)'
<1>0. Fresh(r) /\ req'[r] = req[r]
  BY GoesOthers DEF PaperInv, PaperStatement
<1>1. /\ PaperRowsOf(r) = {Nil} /\ db.ingest[r] = Nil => PaperRowsOf(r)' = {Nil}
      /\ db.ingest[r] = Nil <=> db'.ingest[r] = Nil
      /\ db.document[r] = Nil <=> db'.document[r] = Nil
      /\ db'.version[r] = db.version[r] \/ db'.version[r].document = r
  BY DEF Grows, NamesKept
<1>2. db.ingest[r] # Nil => db'.ingest[r].of = db.ingest[r].of
  BY DEF Grows, IngestGrows
<1> QED
  BY <1>0, <1>1, <1>2 DEF Fresh, At, Ended

LEMMA OthersStand ==
    ASSUME PaperInv, NEW m, Goes(m), Grows(m), NEW r \in Requests, r # m
    PROVE  PaperStatement(r)'
<1>0. req'[r] = req[r]
  BY GoesOthers DEF PaperInv
<1>1. Overtaken(r)' /\ Fresh(r)'
  BY OvertakenStays, FreshStays
<1>2. AtHome(req'[r].do, req'[r].at) /\ (At(r, "new")' => req'[r].do = "none")
  BY <1>0 DEF PaperInv, PaperStatement, At
<1>3. CASE ~At(r, "new")
  BY <1>0, <1>1, <1>2, <1>3, OthersHaveRead DEF PaperStatement
<1>4. CASE At(r, "new")
  BY <1>0, <1>1, <1>2, <1>4 DEF PaperStatement, HasRead, Spends, At
<1> QED
  BY <1>3, <1>4

-----------------------------------------------------------------------------
\* What an approval was spent on, it was spent on for good.
LEMMA NilIsNoId == Nil \notin Ids
  BY CoreWorkerAssumption, ApprovalAssumption DEF Ids

LEMMA ConsumedStay ==
    ASSUME PaperInv, NEW m, Grows(m), NEW kind, kind # "card", NEW a \in Approvals(kind, "CONSUMED")
    PROVE  a \in Approvals(kind, "CONSUMED")' /\ db'.approval[a].target = db.approval[a].target
<1>1. a \in Ids /\ ApprovalGrows(a)
  BY DEF Approvals, Grows
<1> QED
  BY <1>1 DEF Approvals, ApprovalGrows

LEMMA FinalizedStay ==
    ASSUME PaperInv, NEW m, Grows(m), NEW e \in Ids, NEW w \in Ids, db.finalized[e] = w
    PROVE  db'.finalized[e] = w
  BY NilIsNoId DEF Grows

LEMMA FinalStays ==
    ASSUME PaperInv, NEW m, Grows(m), NEW w \in Ids,
           \E e \in Ids : db.finalized[e] = w,
           \E a \in Approvals("finalize", "CONSUMED") : db.approval[a].target = w
    PROVE  /\ \E e \in Ids : db'.finalized[e] = w
           /\ \E a \in Approvals("finalize", "CONSUMED")' : db'.approval[a].target = w
<1>1. PICK e \in Ids : db.finalized[e] = w
  OBVIOUS
<1>2. db'.finalized[e] = w
  BY <1>1, FinalizedStay
<1>3. PICK a \in Approvals("finalize", "CONSUMED") : db.approval[a].target = w
  OBVIOUS
<1>4. a \in Approvals("finalize", "CONSUMED")' /\ db'.approval[a].target = w
  BY <1>3, ConsumedStay
<1> QED
  BY <1>2, <1>4

LEMMA VersionKept ==
    ASSUME PaperInv, NEW m, Grows(m), NEW d, NEW w \in VersionsOf(d)
    PROVE  w \in VersionsOf(d)' /\ db'.version[w] = db.version[w] /\ w \in Ids
  BY DEF VersionsOf, Grows

LEMMA UnfilledStays ==
    ASSUME PaperInv, NEW m, Goes(m), Grows(m), NEW d \in Ids, Unfilled(d), db.document[d] # Nil,
           VersionsOf(d)' = VersionsOf(d), db'.document[d].latest = Nil
    PROVE  Unfilled(d)'
<1>1. PICK r \in Doing("patchDocument") : At(r, "ok") /\ req[r].arg.id = d
  BY DEF Unfilled
<1>2. r \in Requests /\ Ended(r)
  BY <1>1 DEF Doing, Ended, Ends, At
<1>3. req'[r] = req[r]
  BY <1>1, <1>2, GoesOthers DEF PaperInv, Ended, Ends, At
<1>4. d \in Requests
  BY DEF Unfilled
<1>5. db'.ingest[d] # Nil
  BY <1>4 DEF Unfilled, Grows, IngestGrows
<1>6. r \in Doing("patchDocument")' /\ At(r, "ok")' /\ req'[r].arg.id = d
  BY <1>1, <1>3 DEF Doing, At
<1> QED
  BY <1>5, <1>6 DEF Unfilled

\* A document agrees still that nobody writes.
LEMMA AgreesStays ==
    ASSUME PaperInv, NEW m, Goes(m), Grows(m), NEW d \in Ids, db.document[d] # Nil,
           db'.document[d] = db.document[d], VersionsOf(d)' = VersionsOf(d)
    PROVE  Agrees(d)'
<1>0. Agrees(d) /\ db.document[d] \in DocumentRecord
  BY DEF PaperInv, AllAgree, PaperShape
<1>1. \A w \in VersionsOf(d) : db'.version[w] = db.version[w] /\ w \in Ids
  BY VersionKept
<1>2. FinalIsTrue(d)'
  <2> SUFFICES ASSUME db.document[d].final # Nil PROVE FinalIsTrue(d)'
    BY DEF FinalIsTrue
  <2>1. FinalIsTrue(d) /\ db.document[d].final \in Ids
    BY <1>0 DEF Agrees, DocumentRecord
  <2> QED
    BY <2>1, FinalStays DEF FinalIsTrue
<1>3. (Unfilled(d) \/ Newest(d))'
  <2>1. CASE Unfilled(d)
    BY <2>1, UnfilledStays DEF Unfilled
  <2>2. CASE Newest(d)
    <3>1. db.document[d].latest # Nil => db'.version[db.document[d].latest] = db.version[db.document[d].latest]
      BY <1>0, <1>1 DEF Agrees
    <3>2. Newest(d)'
      BY <1>1, <2>2, <3>1 DEF Newest
    <3> QED
      BY <3>2
  <2> QED
    BY <1>0, <2>1, <2>2 DEF Agrees
<1>4. /\ db'.document[d].latest # Nil => db'.document[d].latest \in VersionsOf(d)'
      /\ VersionsOf(d)' # {} => \E w \in VersionsOf(d)' : db'.version[w].number = 1
      /\ db'.document[d].status # "ARCHIVED" => (db'.document[d].status = "FINALIZED" <=> db'.document[d].final # Nil)
  BY <1>0, <1>1 DEF Agrees
<1> QED
  BY <1>2, <1>3, <1>4 DEF Agrees

ConsumedKept(kind) == Approvals(kind, "CONSUMED")' = Approvals(kind, "CONSUMED")

LEMMA SpentOnceKept ==
    ASSUME PaperInv, NEW m, Goes(m), Grows(m), NEW w \in Ids, db'.version[w] # Nil,
           SpentOn(w)' = SpentOn(w), FinalizedAs(w)' = FinalizedAs(w)
    PROVE  SpentOnce(w)'
<1>4. CASE db.version[w] = Nil
  <2>1. SpentOn(w) = {}
    <3> SUFFICES ASSUME NEW a \in SpentOn(w) PROVE FALSE
      OBVIOUS
    <3>1. a \in Ids /\ db.approval[a] # Nil /\ db.approval[a].kind = "finalize" /\ db.approval[a].target = w
      BY DEF SpentOn, Approvals
    <3>2. RefersRight(a)
      BY <3>1 DEF PaperInv, References
    <3> QED
      BY <1>4, <3>1, <3>2 DEF RefersRight, TargetThere
  <2>2. FinalizedAs(w) = {}
    BY <1>4, NilIsNoId DEF FinalizedAs, PaperInv, References
  <2> QED
    BY <2>1, <2>2 DEF SpentOnce
<1>5. CASE db.version[w] # Nil
  <2>1. SpentOnce(w) /\ db'.version[w] = db.version[w]
    BY <1>5 DEF PaperInv, AllSpent, Grows
  <2>2. ASSUME NEW d, d = db.version[w].document, LostAll("finalize", d, DocumentWriters)
        PROVE  LostAll("finalize", db.version[w].document, DocumentWriters)'
    <3>1. LostAll("finalize", d, DocumentWriters)'
      BY <2>2, MeetingsStay DEF PaperInv
    <3>2. d = db'.version[w].document
      BY <2>1, <2>2
    <3> QED
      BY <3>1, <3>2
  <2>3. ASSUME LostAll("finalize", db.version[w].document, DocumentWriters) PROVE SpentOnce(w)'
    BY <2>2, <2>3 DEF SpentOnce
  <2> QED
    BY <2>1, <2>3 DEF SpentOnce
<1> QED
  BY <1>4, <1>5

LEMMA SpentOnceStays ==
    ASSUME PaperInv, NEW m, Goes(m), Grows(m), ConsumedKept("finalize"), db'.finalized = db.finalized,
           NEW w \in Ids, db'.version[w] # Nil
    PROVE  SpentOnce(w)'
<1>1. ASSUME NEW a \in Approvals("finalize", "CONSUMED") PROVE db'.approval[a].target = db.approval[a].target
  BY ConsumedStay
<1>2. SpentOn(w)' = SpentOn(w)
  BY <1>1 DEF SpentOn, ConsumedKept
<1>3. FinalizedAs(w)' = FinalizedAs(w)
  BY DEF FinalizedAs
<1> QED
  BY <1>2, <1>3, SpentOnceKept

LEMMA SubmittedStay ==
    ASSUME PaperInv, ConsumedKept("submit"), db'.submission = db.submission,
           NEW a \in Approvals("submit", "CONSUMED")'
    PROVE  \E s \in Ids : SubmittedBy(a)' = {s}
  BY DEF PaperInv, AllSpent, ConsumedKept, SubmittedBy

LEMMA SubmissionStays ==
    ASSUME PaperInv, NEW m, Goes(m), Grows(m), NEW s \in Ids, db.submission[s] # Nil
    PROVE  SubmissionIsTrue(s)'
<1> DEFINE sub == db.submission[s]
<1>1. SubmissionIsTrue(s) /\ db'.submission[s] = sub /\ sub \in SubmissionRecord
  BY DEF PaperInv, PaperShape, AllSpent, Grows
<1>2. sub.draft \in Ids /\ sub.application \in Ids
  BY <1>1 DEF SubmissionRecord
<1>3. sub.approval \in Approvals("submit", "CONSUMED")' /\ db'.approval[sub.approval].target = sub.draft
  BY <1>1, ConsumedStay DEF SubmissionIsTrue
<1>4. db'.draft[sub.draft] # Nil /\ db'.application[sub.application] # Nil
      /\ (Applied(db.application[sub.application].stage) => Applied(db'.application[sub.application].stage))
  BY <1>1, <1>2 DEF SubmissionIsTrue, Grows, ApplicationGrows
<1>5. ASSUME NEW i, i = sub.application, Lost("submit", i, {"patchApplication"})
      PROVE  Lost("submit", db.submission[s].application, {"patchApplication"})'
  <2>1. Lost("submit", i, {"patchApplication"})'
    BY <1>5, MeetingsStay DEF PaperInv
  <2>2. i = db'.submission[s].application
    BY <1>1, <1>5
  <2> QED
    BY <2>1, <2>2
<1> QED
  BY <1>1, <1>3, <1>4, <1>5 DEF SubmissionIsTrue

LEMMA DraftStays ==
    ASSUME PaperInv, NEW m, Grows(m), NEW d \in Ids, db.draft[d] # Nil
    PROVE  DraftIsFinal(d)'
<1>1. DraftIsFinal(d) /\ db'.draft[d] = db.draft[d] /\ db.draft[d].version \in Ids
  BY DEF PaperInv, PaperShape, AllSpent, Grows, DraftRecord
<1> QED
  BY <1>1, FinalizedStay DEF DraftIsFinal

LEMMA StartedStays ==
    ASSUME PaperInv, NEW m, Goes(m), Grows(m), NEW a \in Approvals("execute", "CONSUMED")
    PROVE  StartedBy(a)'
<1> DEFINE i == db.approval[a].target
<1>1. StartedBy(a) /\ a \in Ids /\ db'.approval[a].target = i
  BY ConsumedStay DEF PaperInv, AllSpent, Approvals
<1>2. i \in Ids /\ db.run[i] # Nil
  BY DEF PaperInv, References, RefersRight, Approvals, TargetThere
<1>3. db.run[i].approval = a => db'.run[i].approval = a
  BY <1>1, <1>2, NilIsNoId DEF Grows, RunGrows
<1>4. ASSUME NEW j, j = db.approval[a].target, LostAll("startRun", j, {"startRun"})
      PROVE  LostAll("startRun", db.approval[a].target, {"startRun"})'
  <2>1. LostAll("startRun", j, {"startRun"})'
    BY <1>4, MeetingsStay DEF PaperInv
  <2>2. j = db'.approval[a].target
    BY <1>1, <1>4
  <2> QED
    BY <2>1, <2>2
<1> QED
  BY <1>1, <1>3, <1>4 DEF StartedBy

LEMMA RunStays ==
    ASSUME PaperInv, NEW m, Grows(m), NEW i \in Ids, db.run[i] # Nil, db'.run[i] = db.run[i]
    PROVE  RunIsTrue(i)'
<1>1. RunIsTrue(i)
  BY DEF PaperInv, AllSpent
<1>2. db.run[i].approval # Nil =>
         /\ db.run[i].approval \in Approvals("execute", "CONSUMED")'
         /\ db'.approval[db.run[i].approval].target = i
  BY <1>1, ConsumedStay DEF RunIsTrue
<1> QED
  BY <1>1, <1>2 DEF RunIsTrue

\* What holds of every step but one that spends an approval.
LEMMA SpentStep ==
    ASSUME PaperInv, NEW m, Goes(m), Grows(m), db'.finalized = db.finalized, db'.submission = db.submission,
           \A kind : ConsumedKept(kind),
           \A d \in Ids : db.draft[d] = Nil /\ db'.draft[d] # Nil => DraftIsFinal(d)',
           \A i \in Ids : db'.run[i] # db.run[i] => RunIsTrue(i)'
    PROVE  AllSpent'
<1>1. \A w \in Ids : db'.version[w] # Nil => SpentOnce(w)'
  BY SpentOnceStays
<1>2. \A a \in Approvals("submit", "CONSUMED")' : \E s \in Ids : SubmittedBy(a)' = {s}
  BY SubmittedStay
<1>3. \A s \in Ids : db'.submission[s] # Nil => SubmissionIsTrue(s)'
  BY SubmissionStays
<1>4. \A d \in Ids : db'.draft[d] # Nil => DraftIsFinal(d)'
  BY DraftStays
<1>5. \A a \in Approvals("execute", "CONSUMED")' : StartedBy(a)'
  BY StartedStays DEF ConsumedKept
<1>6. \A i \in Ids : db'.run[i] # Nil => RunIsTrue(i)'
  BY RunStays
<1> QED
  BY <1>1, <1>2, <1>3, <1>4, <1>5, <1>6 DEF AllSpent

LEMMA ReferencesStep ==
    ASSUME PaperInv, NEW m, Grows(m),
           \A w \in Ids : db.version[w] = Nil /\ db'.version[w] # Nil => db'.document[db'.version[w].document] # Nil,
           \A e \in Ids : db.finalized[e] = Nil /\ db'.finalized[e] # Nil => db'.version[db'.finalized[e]] # Nil,
           \A a \in Ids : db.approval[a] = Nil /\ db'.approval[a] # Nil =>
               RefersRight(a)'
    PROVE  References'
<1>1. ASSUME NEW w \in Ids, db.version[w] # Nil PROVE db'.document[db'.version[w].document] # Nil
  <2>1. db.version[w].document \in Ids /\ db.document[db.version[w].document] # Nil
    BY <1>1 DEF PaperInv, PaperShape, References, VersionRecord
  <2> QED
    BY <1>1, <2>1 DEF Grows, DocumentGrows
<1>2. ASSUME NEW e \in Ids, db.finalized[e] # Nil PROVE db'.version[db'.finalized[e]] # Nil
  <2>1. db.finalized[e] \in Ids /\ db.version[db.finalized[e]] # Nil
    BY <1>2 DEF PaperInv, PaperShape, References
  <2> QED
    BY <1>2, <2>1 DEF Grows
<1>3. ASSUME NEW a \in Ids, db.approval[a] # Nil
      PROVE  RefersRight(a)'
  <2>1. \A kind, target : kind = db.approval[a].kind /\ target = db.approval[a].target => TargetThere(kind, target)
    BY <1>3 DEF PaperInv, References, RefersRight
  <2>2. \A kind, target : kind = db.approval[a].kind /\ target = db.approval[a].target => TargetThere(kind, target)'
    BY <2>1, TargetStays
  <2>3. db'.approval[a].kind = db.approval[a].kind /\ db'.approval[a].target = db.approval[a].target
    BY <1>3 DEF Grows, ApprovalGrows
  <2> QED
    BY <2>2, <2>3 DEF RefersRight, TargetThere
<1> QED
  BY <1>1, <1>2, <1>3 DEF References

-----------------------------------------------------------------------------
Callable ==
    PaperHandlers \cup
    {"createExport", "recordExport", "postMessage", "patchPosting", "closePosting", "selectProject", "createSource",
     "createEvidence", "createPosting", "createJob", "createInterview", "patchInterview", "patchEvent", "deleteEvent",
     "getOffer", "decideOffer"}

LEMMA CallsAtHome ==
    ASSUME NEW h \in Callable
    PROVE  /\ AtHome(h, h) /\ h \notin Ends \cup {"new", "ingestJob", "none"}
           /\ h \notin {"patchRow", "saveVersion", "readProposal", "finalizeCheck", "archiveRow", "convertRow", "decideRow",
                        "applicationRow", "draftVersions", "draftRow", "submitDraft", "submitCheck", "startCheck",
                        "saveRun", "spend", "spendRows"}
  BY DEF Callable, PaperHandlers, DocumentWriters, Spenders, Reporters, AtHome, Ends, Editors

Called(r) == \E h, arg : h \in Callable /\ CalledFor(h, arg) /\ Begin(r, h, arg)

LEMMA BeginsCalled ==
    ASSUME NEW r, NEW h \in Callable, NEW arg, CalledFor(h, arg), Begin(r, h, arg)
    PROVE  Called(r)
  BY DEF Called

\* All that a handler is called with is there.
LEMMA ArrivesApproval ==
    ASSUME PaperInv, NEW r, ArriveApproval(r, Targets)
    PROVE  Called(r)
<1>1. ASSUME NEW kind \in {"finalize", "submit", "execute"}, NEW target \in Targets(kind),
             Begin(r, "createApproval", [kind |-> kind, target |-> target])
      PROVE  Called(r)
  <2>1. CalledFor("createApproval", [kind |-> kind, target |-> target])
    BY <1>1 DEF CalledFor, Targets, DocumentWriters, Spenders, Reporters
  <2> QED
    BY <1>1, <2>1, BeginsCalled DEF Callable, PaperHandlers
<1>2. ASSUME NEW a \in Ids, NEW to \in {"APPROVED", "DENIED"}, db.approval[a] # Nil, db.approval[a].kind # "card",
             Begin(r, "decide", [id |-> a, to |-> to])
      PROVE  Called(r)
  <2>1. CalledFor("decide", [id |-> a, to |-> to])
    BY <1>2 DEF CalledFor, DocumentWriters, Spenders, Reporters
  <2> QED
    BY <1>2, <2>1, BeginsCalled DEF Callable, PaperHandlers
<1>3. ASSUME NEW a \in Approvals("card", "PENDING"), NEW option \in {"go", "reject"},
             Begin(r, "resolve", [id |-> a, option |-> option])
      PROVE  Called(r)
  <2>1. CalledFor("resolve", [id |-> a, option |-> option])
    BY <1>3 DEF CalledFor, Approvals, DocumentWriters, Spenders, Reporters
  <2> QED
    BY <1>3, <2>1, BeginsCalled DEF Callable, PaperHandlers
<1>4. CASE Begin(r, "postMessage", Nil)
  <2>1. CalledFor("postMessage", Nil)
    BY DEF CalledFor, DocumentWriters, Spenders, Reporters
  <2> QED
    BY <1>4, <2>1, BeginsCalled DEF Callable
<1> QED
  BY <1>1, <1>2, <1>3, <1>4 DEF ArriveApproval

LEMMA ArrivesDocument ==
    ASSUME PaperInv, NEW r, ArriveDocument(r)
    PROVE  Called(r)
<1>1. ASSUME NEW d \in Ids, db.document[d] # Nil, NEW h \in DocumentWriters \cup {"createExport"}, NEW arg, arg.id = d,
             h = "finalize" => arg.version \in VersionsOf(d) /\ arg.approval \in Ids /\ db.approval[arg.approval] # Nil,
             Begin(r, h, arg)
      PROVE  Called(r)
  <2>1. CalledFor(h, arg)
    BY <1>1 DEF CalledFor, DocumentWriters, Spenders, Reporters
  <2> QED
    BY <1>1, <2>1, BeginsCalled DEF Callable, PaperHandlers
<1>2. ASSUME NEW e \in Ids, NEW to, Begin(r, "recordExport", [id |-> e, to |-> to])
      PROVE  Called(r)
  <2>1. CalledFor("recordExport", [id |-> e, to |-> to])
    BY DEF CalledFor, DocumentWriters, Spenders, Reporters
  <2> QED
    BY <1>2, <2>1, BeginsCalled DEF Callable
<1>3. CASE Begin(r, "createDocument", Nil)
  <2>1. CalledFor("createDocument", Nil)
    BY DEF CalledFor, DocumentWriters, Spenders, Reporters
  <2> QED
    BY <1>3, <2>1, BeginsCalled DEF Callable, PaperHandlers
<1>4. ASSUME NEW d \in Ids, db.document[d] # Nil,
             \/ \E template \in BOOLEAN : Begin(r, "patchDocument", [id |-> d, template |-> template])
             \/ Begin(r, "createVersion", [id |-> d, proposal |-> Nil])
             \/ \E w \in VersionsOf(d) \cup {Nil} :
                    Begin(r, "applyEdits", [id |-> d, version |-> w, proposal |-> Nil])
             \/ \E p \in Ids : Begin(r, "applyRevision", [id |-> d, proposal |-> p])
             \/ \E w \in VersionsOf(d), a \in Ids :
                    /\ db.approval[a] # Nil
                    /\ Begin(r, "finalize", [id |-> d, version |-> w, approval |-> a])
             \/ \E h \in {"archive", "convertDocument"} : Begin(r, h, [id |-> d])
             \/ \E w \in VersionsOf(d) : Begin(r, "createExport", [id |-> d, version |-> w])
      PROVE  \E h, arg :
                 /\ h \in DocumentWriters \cup {"createExport"} /\ arg.id = d /\ Begin(r, h, arg)
                 /\ h = "finalize" => arg.version \in VersionsOf(d) /\ arg.approval \in Ids /\ db.approval[arg.approval] # Nil
  <2>1. ASSUME NEW h \in DocumentWriters \cup {"createExport"}, h # "finalize", NEW arg, arg.id = d, Begin(r, h, arg)
        PROVE  \E k, a :
                 /\ k \in DocumentWriters \cup {"createExport"} /\ a.id = d /\ Begin(r, k, a)
                 /\ k = "finalize" => a.version \in VersionsOf(d) /\ a.approval \in Ids /\ db.approval[a.approval] # Nil
    BY <2>1
  <2>2. ASSUME NEW w \in VersionsOf(d), NEW a \in Ids, db.approval[a] # Nil,
               Begin(r, "finalize", [id |-> d, version |-> w, approval |-> a])
        PROVE  \E k, b :
                 /\ k \in DocumentWriters \cup {"createExport"} /\ b.id = d /\ Begin(r, k, b)
                 /\ k = "finalize" => b.version \in VersionsOf(d) /\ b.approval \in Ids /\ db.approval[b.approval] # Nil
    BY <2>2 DEF DocumentWriters
  <2>3. \A h \in DocumentWriters \cup {"createExport"} : h = "finalize" \/ h # "finalize"
    OBVIOUS
  <2>4. {"patchDocument", "createVersion", "applyEdits", "applyRevision", "archive", "convertDocument", "createExport"}
          \subseteq DocumentWriters \cup {"createExport"}
    BY DEF DocumentWriters
  <2> QED
    BY <1>4, <2>1, <2>2, <2>4
<1> QED
  BY <1>1, <1>2, <1>3, <1>4 DEF ArriveDocument

LEMMA ArrivesApplication ==
    ASSUME PaperInv, NEW r, ArriveApplication(r)
    PROVE  Called(r)
<1>1. ASSUME NEW i \in Ids, db.application[i] # Nil, NEW to \in Stages \cup {Nil},
             Begin(r, "patchApplication", [id |-> i, to |-> to])
      PROVE  Called(r)
  <2>1. CalledFor("patchApplication", [id |-> i, to |-> to])
    BY <1>1 DEF CalledFor, DocumentWriters, Spenders, Reporters
  <2> QED
    BY <1>1, <2>1, BeginsCalled DEF Callable, PaperHandlers
<1>2. ASSUME NEW i \in Ids, db.application[i] # Nil, NEW w \in Ids, db.version[w] # Nil,
             Begin(r, "createDraft", [id |-> i, version |-> w])
      PROVE  Called(r)
  <2>1. CalledFor("createDraft", [id |-> i, version |-> w])
    BY <1>2 DEF CalledFor, DocumentWriters, Spenders, Reporters
  <2> QED
    BY <1>2, <2>1, BeginsCalled DEF Callable, PaperHandlers
<1>3. ASSUME NEW i \in Ids, db.application[i] # Nil, NEW d \in Ids, NEW a \in Ids, db.draft[d] # Nil, db.approval[a] # Nil,
             Begin(r, "submit", [id |-> i, draft |-> d, approval |-> a])
      PROVE  Called(r)
  <2>1. CalledFor("submit", [id |-> i, draft |-> d, approval |-> a])
    BY <1>3 DEF CalledFor, DocumentWriters, Spenders, Reporters
  <2> QED
    BY <1>3, <2>1, BeginsCalled DEF Callable, PaperHandlers, Spenders
<1>4. ASSUME NEW i \in Ids, db.application[i] # Nil, NEW to \in EmployerStages,
             Begin(r, "patchApplicant", [id |-> i, to |-> to])
      PROVE  Called(r)
  <2>1. CalledFor("patchApplicant", [id |-> i, to |-> to])
    BY <1>4 DEF CalledFor, DocumentWriters, Spenders, Reporters
  <2> QED
    BY <1>4, <2>1, BeginsCalled DEF Callable, PaperHandlers
<1>5. ASSUME NEW p \in Ids, NEW by \in Applicants, Begin(r, "apply", [id |-> p, by |-> by])
      PROVE  Called(r)
  <2>1. CalledFor("apply", [id |-> p, by |-> by])
    BY <1>5 DEF CalledFor, DocumentWriters, Spenders, Reporters
  <2> QED
    BY <1>5, <2>1, BeginsCalled DEF Callable, PaperHandlers
<1>6. ASSUME NEW h \in {"patchPosting", "closePosting"}, NEW arg, Begin(r, h, arg)
      PROVE  Called(r)
  <2>1. CalledFor(h, arg)
    BY DEF CalledFor, DocumentWriters, Spenders, Reporters
  <2> QED
    BY <1>6, <2>1, BeginsCalled DEF Callable
<1> QED
  BY <1>1, <1>2, <1>3, <1>4, <1>5, <1>6 DEF ArriveApplication

LEMMA ArrivesProject ==
    ASSUME PaperInv, NEW r, ArriveProject(r)
    PROVE  Called(r)
<1>1. ASSUME NEW b \in Ids, NEW h \in {"selectProject", "createRun"}, Begin(r, h, [id |-> b])
      PROVE  Called(r)
  <2>1. CalledFor(h, [id |-> b])
    BY DEF CalledFor, DocumentWriters, Spenders, Reporters
  <2> QED
    BY <1>1, <2>1, BeginsCalled DEF Callable, PaperHandlers
<1>2. ASSUME NEW i \in Ids, db.run[i] # Nil, NEW a \in Ids, db.approval[a] # Nil, NEW dev \in Devices,
             Begin(r, "startRun", [id |-> i, approval |-> a, device |-> dev])
      PROVE  Called(r)
  <2>1. CalledFor("startRun", [id |-> i, approval |-> a, device |-> dev])
    BY <1>2 DEF CalledFor, DocumentWriters, Spenders, Reporters
  <2> QED
    BY <1>2, <2>1, BeginsCalled DEF Callable, PaperHandlers, Spenders
<1>3. ASSUME NEW i \in Ids, db.run[i] # Nil, NEW h \in Reporters, NEW arg, arg.id = i, Begin(r, h, arg),
             h = "reportLaunch" => arg.to \in {"CLAIMED", "STARTED", "UNKNOWN"},
             h = "reportResult" => arg.to \in {"VERIFYING", "FAILED"}
      PROVE  Called(r)
  <2>1. CalledFor(h, arg)
    BY <1>3 DEF CalledFor, DocumentWriters, Spenders, Reporters
  <2> QED
    BY <1>3, <2>1, BeginsCalled DEF Callable, PaperHandlers
<1>4. ASSUME NEW i \in Ids, db.run[i] # Nil, NEW dev, NEW to \in {"CLAIMED", "STARTED", "UNKNOWN"},
             Begin(r, "reportLaunch", [id |-> i, device |-> dev, to |-> to])
      PROVE  Called(r)
  BY <1>3, <1>4 DEF Reporters
<1>5. ASSUME NEW i \in Ids, db.run[i] # Nil, NEW dev, NEW to, Begin(r, "recoverRun", [id |-> i, device |-> dev, to |-> to])
      PROVE  Called(r)
  BY <1>3, <1>5 DEF Reporters
<1>6. ASSUME NEW i \in Ids, db.run[i] # Nil, NEW to \in {"VERIFYING", "FAILED"}, Begin(r, "reportResult", [id |-> i, to |-> to])
      PROVE  Called(r)
  BY <1>3, <1>6 DEF Reporters
<1> QED
  BY <1>1, <1>2, <1>4, <1>5, <1>6 DEF ArriveProject

LEMMA ArrivesText ==
    ASSUME PaperInv, NEW r, ArriveText(r)
    PROVE  Called(r)
<1>1. ASSUME NEW h \in {"createSource", "createEvidence", "createPosting", "createJob", "archiveEvidence", "deleteSource",
                        "convertSource"}, NEW arg, Begin(r, h, arg),
             h \in {"archiveEvidence", "deleteSource"} => arg.id \in Ids
      PROVE  Called(r)
  <2>1. CalledFor(h, arg)
    BY <1>1 DEF CalledFor, DocumentWriters, Spenders, Reporters
  <2> QED
    BY <1>1, <2>1, BeginsCalled DEF Callable, PaperHandlers
<1> QED
  BY <1>1 DEF ArriveText

LEMMA ArrivesPatch ==
    ASSUME PaperInv, NEW r, ArrivePatch(r)
    PROVE  Called(r)
<1>1. PICK arg : Begin(r, "patchJob", arg) /\ arg.id \in Ids
  BY DEF ArrivePatch
<1>2. CalledFor("patchJob", arg)
  BY <1>1 DEF CalledFor, DocumentWriters, Spenders, Reporters
<1> QED
  BY <1>1, <1>2, BeginsCalled DEF Callable, PaperHandlers

ArrivesPaper(r) ==
    \/ ArriveApproval(r, Targets) \/ ArriveDocument(r) \/ ArriveApplication(r) \/ ArriveProject(r) \/ ArriveText(r)
    \/ ArrivePatch(r)
\* The statements of the handlers, by what they do.
ApprovalStatement(r) ==
    \/ Create(r) \/ Decide(r) \/ DecideRow(r) \/ Resolve(r) \/ Answer(r) \/ StoreJob(r) \/ TellWaiting(r) \/ Undo(r)
    \/ PostMessage(r) \/ EnqueueMessage(r) \/ TellTurn(r)
DocumentStatement(r) ==
    \/ PatchDocument(r) \/ PatchRow(r) \/ SaveVersion(r) \/ CreateVersion(r)
    \/ ApplyEdits(r) \/ ApplyRevision(r) \/ ReadProposal(r) \/ Finalize(r) \/ FinalizeCheck(r)
    \/ SpendFinalize(r) \/ FinalizeRows(r) \/ Archive(r) \/ ArchiveRow(r) \/ ConvertDocument(r) \/ ConvertRow(r)
    \/ CreateDocument(r) \/ Export(r) \/ ExportRow(r) \/ RecordExport(r) \/ RecordRow(r)
ApplicationStatement(r) ==
    \/ PatchApplication(r) \/ ApplicationRow(r) \/ CreateDraft(r)
    \/ DraftVersions(r) \/ DraftRow(r) \/ Submit(r) \/ SubmitDraft(r) \/ SubmitCheck(r)
    \/ SpendSubmit(r) \/ SubmitRows(r) \/ Apply(r) \/ ApplyLook(r, "applyExisting", "applySnapshot")
    \/ ApplyLook(r, "applySnapshot", "applyRows") \/ ApplyRows(r) \/ PatchPosting(r)
    \/ PostingRow(r) \/ ClosePosting(r) \/ CloseRow(r) \/ PatchApplicant(r) \/ ApplicantRow(r)
ProjectStatement(r) ==
    \/ SelectProject(r) \/ SelectRow(r) \/ CreateRun(r) \/ RunGuard(r) \/ RunRows(r)
    \/ StartRun(r) \/ StartCheck(r) \/ SpendStart(r) \/ StartRows(r) \/ SaveRun(r) \/ ReportLaunch(r)
    \/ RecoverRun(r) \/ ReportResult(r)
TextStatement(r) ==
    \/ CreateSource(r) \/ CreateEvidence(r) \/ CreatePosting(r) \/ CreateJob(r)
    \/ ArchiveEvidence(r) \/ ArchiveText(r) \/ DeleteSource(r) \/ ConvertSource(r) \/ StoreIngest(r)
    \/ PatchJob(r) \/ JobRow(r)

LEMMA PaperCases ==
    ASSUME NEW r, PaperMove(r)
    PROVE  \/ ArrivesPaper(r) \/ ApprovalStatement(r) \/ DocumentStatement(r) \/ ApplicationStatement(r)
           \/ ProjectStatement(r) \/ TextStatement(r) \/ Killed(r)
  BY DEF PaperMove, ArrivesPaper, ApprovalStep, DocumentStep, ApplicationStep, ProjectStep, TextStep, PatchStep,
     ApprovalStatement, DocumentStatement, ApplicationStatement, ProjectStatement, TextStatement

Takes(r) == \E statement, v, tables : statement # "new" /\ Do(r, statement, v, tables)

LEMMA ApprovalDoes ==
    ASSUME NEW r, ApprovalStatement(r)
    PROVE  Open(r) /\ Takes(r)
<1>1. CASE Create(r) \/ Decide(r) \/ DecideRow(r) \/ Resolve(r)
  BY <1>1 DEF Create, Decide, DecideRow, Resolve, Load, GoOn, End, Refuse, Takes, Open, Ended, Ends, At
<1>2. CASE Answer(r)
  BY <1>2 DEF Answer, Refuse, Takes, Open, Ended, Ends, At
<1>3. CASE StoreJob(r) \/ TellWaiting(r) \/ Undo(r)
  BY <1>3 DEF StoreJob, TellWaiting, Undo, GoOn, End, Takes, Open, Ended, Ends, At
<1>4. CASE PostMessage(r) \/ EnqueueMessage(r) \/ TellTurn(r)
  BY <1>4 DEF PostMessage, EnqueueMessage, TellTurn, GoOn, End, Refuse, Takes, Open, Ended, Ends, At
<1> QED
  BY <1>1, <1>2, <1>3, <1>4 DEF ApprovalStatement

LEMMA DocumentDoes ==
    ASSUME NEW r, DocumentStatement(r)
    PROVE  Open(r) /\ Takes(r)
<1>1. CASE PatchDocument(r) \/ CreateVersion(r) \/ ApplyEdits(r) \/ ApplyRevision(r) \/ Finalize(r) \/ ConvertDocument(r)
  BY <1>1 DEF PatchDocument, CreateVersion, ApplyEdits, ApplyRevision, Finalize, ConvertDocument, Load, GoOn, Refuse,
              Takes, Open, Ended, Ends, At
<1>2. CASE PatchRow(r) \/ ReadProposal(r) \/ ArchiveRow(r) \/ ConvertRow(r)
  BY <1>2 DEF PatchRow, ReadProposal, ArchiveRow, ConvertRow, SetColumn, Save, GoOn, End, Refuse, Takes, Open, Ended, Ends, At
<1>3. CASE SaveVersion(r)
  BY <1>3 DEF SaveVersion, ThenIngest, Refuse, Takes, Open, Ended, Ends, At
<1>4. CASE FinalizeCheck(r) \/ SpendFinalize(r) \/ Archive(r) \/ CreateDocument(r)
  BY <1>4 DEF FinalizeCheck, SpendFinalize, Spend, Archive, CreateDocument, GoOn, End, Refuse, Takes, Open, Ended, Ends, At
<1>5. CASE FinalizeRows(r)
  BY <1>5 DEF FinalizeRows, End, Refuse, Takes, Open, Ended, Ends, At
<1>6. CASE Export(r) \/ ExportRow(r) \/ RecordExport(r) \/ RecordRow(r)
  BY <1>6 DEF Export, ExportRow, RecordExport, RecordRow, Load, GoOn, End, Refuse, Takes, Open, Ended, Ends, At
<1> QED
  BY <1>1, <1>2, <1>3, <1>4, <1>5, <1>6 DEF DocumentStatement

LEMMA ApplicationDoes ==
    ASSUME NEW r, ApplicationStatement(r)
    PROVE  Open(r) /\ Takes(r)
<1>1. CASE PatchApplication(r) \/ CreateDraft(r) \/ Submit(r) \/ Apply(r) \/ PatchPosting(r) \/ ClosePosting(r)
  BY <1>1 DEF PatchApplication, CreateDraft, Submit, Apply, PatchPosting, ClosePosting, Load, GoOn, Refuse,
              Takes, Open, Ended, Ends, At
<1>2. CASE ApplicationRow(r) \/ PostingRow(r) \/ CloseRow(r) \/ PatchApplicant(r) \/ ApplicantRow(r)
  BY <1>2 DEF ApplicationRow, PostingRow, CloseRow, PatchApplicant, ApplicantRow, Save, GoOn, End, Refuse,
              Takes, Open, Ended, Ends, At
<1>3. CASE DraftVersions(r) \/ DraftRow(r) \/ SubmitDraft(r) \/ SubmitCheck(r) \/ SpendSubmit(r)
  BY <1>3 DEF DraftVersions, DraftRow, SubmitDraft, SubmitCheck, SpendSubmit, Spend, GoOn, End, Refuse,
              Takes, Open, Ended, Ends, At
<1>4. CASE SubmitRows(r)
  BY <1>4 DEF SubmitRows, End, Refuse, Takes, Open, Ended, Ends, At
<1>5. CASE ApplyLook(r, "applyExisting", "applySnapshot") \/ ApplyLook(r, "applySnapshot", "applyRows") \/ ApplyRows(r)
  BY <1>5 DEF ApplyLook, ApplyRows, ThenIngest, GoOn, End, Takes, Open, Ended, Ends, At
<1> QED
  BY <1>1, <1>2, <1>3, <1>4, <1>5 DEF ApplicationStatement

LEMMA ProjectDoes ==
    ASSUME NEW r, ProjectStatement(r)
    PROVE  Open(r) /\ Takes(r)
<1>1. CASE SelectProject(r) \/ CreateRun(r) \/ StartRun(r) \/ SelectRow(r) \/ SaveRun(r)
  BY SMTT(30), <1>1 DEF SelectProject, CreateRun, StartRun, SelectRow, SaveRun, Load, Save, GoOn, End, Refuse, Takes, Open, Ended, Ends, At
<1>2. CASE RunGuard(r) \/ StartCheck(r) \/ SpendStart(r) \/ ReportLaunch(r) \/ RecoverRun(r) \/ ReportResult(r)
  BY <1>2 DEF RunGuard, StartCheck, SpendStart, Spend, ReportLaunch, RecoverRun, ReportResult, Report, GoOn, Refuse,
              Takes, Open, Ended, Ends, At
<1>3. CASE RunRows(r)
  BY <1>3 DEF RunRows, End, Takes, Open, Ended, Ends, At
<1>4. CASE StartRows(r)
  BY <1>4 DEF StartRows, End, Refuse, Takes, Open, Ended, Ends, At
<1> QED
  BY <1>1, <1>2, <1>3, <1>4 DEF ProjectStatement

LEMMA TextDoes ==
    ASSUME NEW r, TextStatement(r)
    PROVE  Open(r) /\ Takes(r)
<1>1. CASE CreateSource(r) \/ CreateEvidence(r) \/ CreatePosting(r) \/ CreateJob(r)
  BY <1>1 DEF CreateSource, CreateEvidence, CreatePosting, CreateJob, NewText, ThenIngest, Refuse, Takes, Open, Ended, Ends, At
<1>2. CASE ArchiveEvidence(r) \/ ArchiveText(r) \/ DeleteSource(r) \/ StoreIngest(r)
  BY <1>2 DEF ArchiveEvidence, ArchiveText, DeleteSource, StoreIngest, Load, Save, GoOn, End, Refuse,
              Takes, Open, Ended, Ends, At
<1>3. CASE ConvertSource(r)
  BY <1>3 DEF ConvertSource, ThenIngest, End, Refuse, Takes, Open, Ended, Ends, At
<1>4. CASE PatchJob(r) \/ JobRow(r)
  BY <1>4 DEF PatchJob, JobRow, Load, ThenIngest, GoOn, Refuse, Takes, Open, Ended, Ends, At
<1> QED
  BY <1>1, <1>2, <1>3, <1>4 DEF TextStatement

LEMMA KilledDoes ==
    ASSUME NEW r, Killed(r)
    PROVE  Open(r) /\ Takes(r)
  BY DEF Killed, Takes

LEMMA TakesGo ==
    ASSUME NEW r \in Requests, Open(r), Takes(r)
    PROVE  Goes(r) /\ Moves(r)
  BY DEF Takes, Moves, GoesOn, Goes

-----------------------------------------------------------------------------
Stands(m) == Grows(m) /\ References' /\ AllAgree' /\ AllSpent'

LEMMA PaperInvStep ==
    ASSUME PaperInv, NEW m, Goes(m), Stands(m), m \in Requests => PaperStatement(m)'
    PROVE  PaperInv'
<1>1. \A r \in Requests : PaperStatement(r)'
  BY OthersStand DEF Stands
<1>2. HistoryOK' /\ IsFiniteSet(Ids)'
  BY GoesOthers DEF PaperInv
<1> QED
  BY <1>1, <1>2 DEF PaperInv, Stands, Grows

DocumentsKept == db'.document = db.document /\ db'.version = db.version /\ db'.finalized = db.finalized
PaperKept ==
    /\ DocumentsKept /\ db'.approval = db.approval /\ db'.application = db.application
    /\ db'.draft = db.draft /\ db'.submission = db.submission /\ db'.run = db.run
PaperThere ==
    {"document", "version", "finalized", "approval", "ingest", "application", "draft", "submission", "run"}
         \subseteq DOMAIN db'

LEMMA AllAgreeStay ==
    ASSUME PaperInv, NEW m, Goes(m), Grows(m), DocumentsKept
    PROVE  AllAgree'
<1>1. \A d \in Ids : VersionsOf(d)' = VersionsOf(d)
  BY DEF VersionsOf, DocumentsKept
<1> QED
  BY <1>1, AgreesStays DEF AllAgree, DocumentsKept

LEMMA KeptGrows ==
    ASSUME PaperInv, NEW m, PaperKept, PaperThere, db'.ingest \in [Requests -> IngestRecord \cup {Nil}],
           \A r \in Requests : IngestGrows(r) /\ (r # m => (db.ingest[r] = Nil <=> db'.ingest[r] = Nil))
    PROVE  Grows(m)
<1>1. PaperShape'
  BY DEF PaperInv, PaperShape, PaperThere, PaperKept, DocumentsKept
<1>2. \A d : VersionsOf(d)' = VersionsOf(d)
  BY DEF VersionsOf, PaperKept, DocumentsKept
<1>3. ASSUME NEW i \in Ids PROVE DocumentGrows(m, i) /\ ApprovalGrows(i) /\ ApplicationGrows(m, i) /\ RunGrows(m, i)
  <2>1. db.document[i] # Nil => db.document[i].rev \in Nat
    BY DEF PaperInv, PaperShape, DocumentRecord
  <2>2. db.approval[i] # Nil => db.approval[i].rev \in Nat
    BY DEF PaperInv, PaperShape, ApprovalRecord
  <2>3. db.application[i] # Nil => db.application[i].rev \in Nat
    BY DEF PaperInv, PaperShape, ApplicationRecord
  <2>4. db.run[i] # Nil => db.run[i].rev \in Nat
    BY DEF PaperInv, PaperShape, LaunchRecord
  <2>5. DocumentGrows(m, i)
    BY <1>2, <2>1 DEF DocumentGrows, PaperKept, DocumentsKept
  <2>6. ApprovalGrows(i)
    BY <2>2 DEF ApprovalGrows, PaperKept
  <2>7. ApplicationGrows(m, i)
    BY <2>3 DEF ApplicationGrows, PaperKept
  <2>8. RunGrows(m, i)
    BY <2>4 DEF RunGrows, PaperKept
  <2> QED
    BY <2>5, <2>6, <2>7, <2>8
<1>4. NamesKept(m)
  BY DEF NamesKept, PaperRowsOf, PaperKept, DocumentsKept
<1> QED
  BY <1>1, <1>3, <1>4 DEF Grows, PaperKept, DocumentsKept

LEMMA KeptStands ==
    ASSUME PaperInv, NEW m, Goes(m), PaperKept, PaperThere, db'.ingest \in [Requests -> IngestRecord \cup {Nil}],
           \A r \in Requests : IngestGrows(r) /\ (r # m => (db.ingest[r] = Nil <=> db'.ingest[r] = Nil))
    PROVE  Stands(m)
<1>1. Grows(m)
  BY KeptGrows
<1>2. AllAgree'
  BY <1>1, AllAgreeStay DEF PaperKept
<1>3. References'
  BY <1>1, ReferencesStep DEF PaperKept, DocumentsKept
<1>4. \A kind : ConsumedKept(kind)
  BY DEF ConsumedKept, Approvals, PaperKept
<1>5. AllSpent'
  BY <1>1, <1>4, SpentStep DEF PaperKept, DocumentsKept
<1> QED
  BY <1>1, <1>2, <1>3, <1>5 DEF Stands

\* A statement of m that writes none of these tables.
PaperSame == PaperKept /\ PaperThere /\ db'.ingest = db.ingest

LEMMA SameStands ==
    ASSUME PaperInv, NEW m, Goes(m), PaperSame
    PROVE  Stands(m)
<1>1. \A r \in Requests : IngestGrows(r)
  BY DEF IngestGrows, PaperSame
<1> QED
  BY <1>1, KeptStands DEF PaperSame, PaperInv, PaperShape

LEMMA CallStays ==
    ASSUME PaperInv, NEW m \in Requests, Goes(m), Grows(m), ~At(m, "new"), req'[m].do = req[m].do, req'[m].arg = req[m].arg
    PROVE  CalledFor(req[m].do, req[m].arg)'
<1>1. \A h, arg : CalledFor(h, arg) => CalledFor(h, arg)'
  BY CalledForStays
<1>2. CalledFor(req[m].do, req[m].arg)
  BY CalledWell
<1> QED
  BY <1>1, <1>2

\* A statement of m that has ended has nothing more to say.
LEMMA PaperEndsWell ==
    ASSUME PaperInv, NEW m \in Requests, Goes(m), Grows(m), ~At(m, "new"), req'[m].do = req[m].do, req'[m].arg = req[m].arg,
           req'[m].at \in Ends, Fresh(m)'
    PROVE  PaperStatement(m)'
<1>1. CalledFor(req[m].do, req[m].arg)'
  BY CallStays
<1>2. ~At(m, "new")' /\ AtHome(req'[m].do, req'[m].at)
  BY DEF Ends, AtHome, PaperHandlers, DocumentWriters, Spenders, Reporters, At
<1>3. HasRead(m)' /\ Spends(m)' /\ Overtaken(m)'
  BY DEF HasRead, Spends, Overtaken, Ends, At
<1> QED
  BY <1>1, <1>2, <1>3 DEF PaperStatement

LEMMA FreshOn ==
    ASSUME PaperInv, NEW m \in Requests, PaperSame, Open(m), req'[m].do = req[m].do,
           \/ req'[m].at \in Ends
           \/ req'[m].at # "ingestJob" /\ ~At(m, "ingestJob")
           \/ req'[m].at = "ingestJob" /\ req[m].do # "convertSource"
    PROVE  Fresh(m)'
<1>1. Fresh(m) /\ ~Ended(m)
  BY DEF PaperInv, PaperStatement, Open
<1>2. PaperRowsOf(m)' = PaperRowsOf(m) /\ db'.ingest[m] = db.ingest[m] /\ db'.document[m] = db.document[m]
      /\ db'.version[m] = db.version[m]
  BY DEF PaperSame, PaperKept, DocumentsKept, PaperRowsOf
<1>3. ~Ended(m)' /\ ~At(m, "ingestJob")' => PaperRowsOf(m)' = {Nil}
  BY <1>1, <1>2 DEF Fresh, Ended, At
<1>4. ~(At(m, "ingestJob")' /\ req'[m].do = "convertSource")
  BY DEF At, Ends
<1>5. db.ingest[m] = Nil
  BY <1>1 DEF Fresh
<1> QED
  BY <1>1, <1>2, <1>3, <1>4, <1>5 DEF Fresh

LEMMA QuietWell ==
    ASSUME PaperInv, NEW m \in Requests, Open(m), Goes(m), PaperSame,
           req'[m].do = req[m].do, req'[m].arg = req[m].arg, req'[m].at # "new",
           \/ req'[m].at \in Ends
           \/ /\ req'[m].at # "ingestJob" /\ ~At(m, "ingestJob")
              /\ AtHome(req[m].do, req'[m].at) /\ HasRead(m)' /\ Spends(m)' /\ Overtaken(m)'
    PROVE  Stands(m) /\ PaperStatement(m)'
<1>1. Stands(m) /\ Grows(m)
  BY SameStands DEF Stands
<1>2. Fresh(m)'
  BY FreshOn
<1>3. ~At(m, "new")
  BY DEF Open
<1>4. CASE req'[m].at \in Ends
  BY <1>1, <1>2, <1>3, <1>4, PaperEndsWell
<1>5. CASE req'[m].at \notin Ends
  <2>1. CalledFor(req[m].do, req[m].arg)'
    BY <1>1, <1>3, CallStays
  <2> QED
    BY <1>1, <1>2, <1>5, <2>1 DEF PaperStatement, At
<1> QED
  BY <1>4, <1>5

-----------------------------------------------------------------------------
LEMMA DoneBy ==
    ASSUME PaperInv, NEW m \in Requests
    PROVE  \A statement, v, tables : Do(m, statement, v, tables) =>
              /\ req'[m].do = req[m].do /\ req'[m].arg = req[m].arg /\ req'[m].at = statement
              /\ statement \notin Ends => req'[m].v = v
              /\ db' = tables
  BY DoEffect DEF PaperInv

\* Statements at which nothing that was read counts.
StatementsOfRead == {"patchRow", "saveVersion", "readProposal", "finalizeCheck", "archiveRow", "convertRow", "decideRow",
             "applicationRow", "draftVersions", "draftRow", "submitDraft", "submitCheck", "startCheck", "saveRun",
             "spend", "spendRows", "ingestJob"}

LEMMA PlainWell ==
    ASSUME PaperInv, NEW m \in Requests, Open(m), Goes(m), PaperSame,
           req'[m].do = req[m].do, req'[m].arg = req[m].arg, req'[m].at # "new",
           \/ req'[m].at \in Ends
           \/ ~At(m, "ingestJob") /\ req'[m].at \notin StatementsOfRead /\ AtHome(req[m].do, req'[m].at)
    PROVE  Stands(m) /\ PaperStatement(m)'
<1>1. CASE req'[m].at \in Ends
  BY <1>1, QuietWell
<1>2. CASE ~At(m, "ingestJob") /\ req'[m].at \notin StatementsOfRead /\ AtHome(req[m].do, req'[m].at)
  <2>1. HasRead(m)' /\ Spends(m)' /\ Overtaken(m)' /\ req'[m].at # "ingestJob"
    BY <1>2 DEF HasRead, Spends, Overtaken, StatementsOfRead, At
  <2> QED
    BY <1>2, <2>1, QuietWell
<1> QED
  BY <1>1, <1>2

LEMMA UnchangedIsSame == ASSUME PaperInv, db' = db PROVE PaperSame
  BY DEF PaperInv, PaperShape, PaperSame, PaperKept, DocumentsKept, PaperThere

LEMMA OtherTableIsSame ==
    ASSUME PaperInv, NEW table, table \notin {"document", "version", "finalized", "approval", "ingest", "application",
                                              "draft", "submission", "run"},
           NEW to, db' = [db EXCEPT ![table] = to]
    PROVE  PaperSame
  BY DEF PaperInv, PaperShape, PaperSame, PaperKept, DocumentsKept, PaperThere

LEMMA PlainApproval ==
    ASSUME PaperInv, NEW m \in Requests, Open(m), Goes(m),
           Resolve(m) \/ StoreJob(m) \/ TellWaiting(m) \/ PostMessage(m) \/ EnqueueMessage(m)
    PROVE  Stands(m) /\ PaperStatement(m)'
<1>0. AtHome(req[m].do, req[m].at)
  BY CalledWell DEF Open
<1>1. CASE Resolve(m)
  <2>1. /\ req'[m].do = req[m].do /\ req'[m].arg = req[m].arg /\ req'[m].at \in {"answer", "refused"} /\ db' = db
        /\ At(m, "resolve")
    BY <1>1, DoneBy DEF Resolve, Load, GoOn, Refuse
  <2>2. AtHome(req[m].do, "answer")
    BY <1>0, <2>1 DEF AtHome, At, PaperHandlers, DocumentWriters, Spenders, Reporters
  <2> QED
    BY <2>1, <2>2, PlainWell, UnchangedIsSame DEF At, Ends, StatementsOfRead
<1>2. CASE StoreJob(m)
  <2>1. /\ req'[m].do = req[m].do /\ req'[m].arg = req[m].arg /\ req'[m].at \in {"undo", "tellWaiting"} /\ At(m, "storeJob")
        /\ db' = db \/ \E to : db' = [db EXCEPT !.job = to]
    BY <1>2, DoneBy DEF StoreJob, GoOn
  <2>2. AtHome(req[m].do, req'[m].at)
    BY <1>0, <2>1 DEF AtHome, At, PaperHandlers, DocumentWriters, Spenders, Reporters
  <2>3. PaperSame
    BY <2>1, UnchangedIsSame, OtherTableIsSame
  <2> QED
    BY <2>1, <2>2, <2>3, PlainWell DEF At, Ends, StatementsOfRead
<1>3. CASE TellWaiting(m)
  <2>1. /\ req'[m].do = req[m].do /\ req'[m].arg = req[m].arg /\ req'[m].at \in {"ok", "undo"} /\ db' = db
        /\ At(m, "tellWaiting")
    BY <1>3, DoneBy DEF TellWaiting, GoOn, End
  <2>2. AtHome(req[m].do, "undo")
    BY <1>0, <2>1 DEF AtHome, At, PaperHandlers, DocumentWriters, Spenders, Reporters
  <2> QED
    BY <2>1, <2>2, PlainWell, UnchangedIsSame DEF At, Ends, StatementsOfRead
<1>4. CASE PostMessage(m)
  <2>1. /\ req'[m].do = req[m].do /\ req'[m].arg = req[m].arg /\ req'[m].at \in {"refused", "enqueueMessage"} /\ db' = db
        /\ At(m, "postMessage")
    BY <1>4, DoneBy DEF PostMessage, GoOn, Refuse
  <2>2. AtHome(req[m].do, "enqueueMessage")
    BY <1>0, <2>1 DEF AtHome, At, PaperHandlers, DocumentWriters, Spenders, Reporters
  <2> QED
    BY <2>1, <2>2, PlainWell, UnchangedIsSame DEF At, Ends, StatementsOfRead
<1>5. CASE EnqueueMessage(m)
  <2>1. /\ req'[m].do = req[m].do /\ req'[m].arg = req[m].arg /\ req'[m].at \in {"refused", "tellTurn"}
        /\ At(m, "enqueueMessage") /\ (db' = db \/ \E to : db' = [db EXCEPT !.job = to])
    BY <1>5, DoneBy DEF EnqueueMessage, Refuse
  <2>2. AtHome(req[m].do, "tellTurn")
    BY <1>0, <2>1 DEF AtHome, At, PaperHandlers, DocumentWriters, Spenders, Reporters
  <2>3. PaperSame
    BY <2>1, UnchangedIsSame, OtherTableIsSame
  <2> QED
    BY <2>1, <2>2, <2>3, PlainWell DEF At, Ends, StatementsOfRead
<1> QED
  BY <1>1, <1>2, <1>3, <1>4, <1>5

LEMMA PlainDocument ==
    ASSUME PaperInv, NEW m \in Requests, Open(m), Goes(m),
           Export(m) \/ ExportRow(m) \/ RecordExport(m) \/ RecordRow(m)
    PROVE  Stands(m) /\ PaperStatement(m)'
<1>0. AtHome(req[m].do, req[m].at)
  BY CalledWell DEF Open
<1>1. CASE Export(m) \/ RecordExport(m)
  <2>1. /\ req'[m].do = req[m].do /\ req'[m].arg = req[m].arg /\ req'[m].at \in {"exportRow", "recordRow", "refused"}
        /\ db' = db /\ ~At(m, "ingestJob")
    BY <1>1, DoneBy DEF Export, RecordExport, Load, GoOn, Refuse, At
  <2>2. AtHome(req[m].do, "exportRow") /\ AtHome(req[m].do, "recordRow")
    BY DEF AtHome, PaperHandlers, DocumentWriters, Spenders, Reporters
  <2> QED
    BY <2>1, <2>2, PlainWell, UnchangedIsSame DEF Ends, StatementsOfRead
<1>2. CASE ExportRow(m)
  <2>1. /\ req'[m].do = req[m].do /\ req'[m].arg = req[m].arg /\ req'[m].at = "ok"
        /\ \E to : db' = [db EXCEPT !.export = to]
    BY <1>2, DoneBy DEF ExportRow, End
  <2>2. PaperSame
    BY <2>1, OtherTableIsSame
  <2> QED
    BY <2>1, <2>2, PlainWell DEF Ends
<1>3. CASE RecordRow(m)
  <2>1. /\ req'[m].do = req[m].do /\ req'[m].arg = req[m].arg /\ req'[m].at \in {"ok", "refused"}
        /\ db' = db \/ \E to : db' = [db EXCEPT !.export = to]
    BY <1>3, DoneBy DEF RecordRow, End, Refuse
  <2>2. PaperSame
    BY <2>1, OtherTableIsSame, UnchangedIsSame
  <2> QED
    BY <2>1, <2>2, PlainWell DEF Ends
<1> QED
  BY <1>1, <1>2, <1>3

LEMMA PlainApplication ==
    ASSUME PaperInv, NEW m \in Requests, Open(m), Goes(m),
           \/ Apply(m) \/ ApplyLook(m, "applyExisting", "applySnapshot") \/ ApplyLook(m, "applySnapshot", "applyRows")
           \/ PatchPosting(m) \/ PostingRow(m) \/ ClosePosting(m) \/ CloseRow(m) \/ PatchApplicant(m)
    PROVE  Stands(m) /\ PaperStatement(m)'
<1>0. AtHome(req[m].do, req[m].at)
  BY CalledWell DEF Open
<1>1. CASE Apply(m)
  <2>1. /\ req'[m].do = req[m].do /\ req'[m].arg = req[m].arg /\ req'[m].at \in {"applyExisting", "refused"}
        /\ db' = db /\ At(m, "apply")
    BY <1>1, DoneBy DEF Apply, Load, GoOn, Refuse
  <2>2. AtHome(req[m].do, "applyExisting")
    BY <1>0, <2>1 DEF AtHome, At, PaperHandlers, DocumentWriters, Spenders, Reporters
  <2> QED
    BY <2>1, <2>2, PlainWell, UnchangedIsSame DEF At, Ends, StatementsOfRead
<1>2. ASSUME NEW from \in {"applyExisting", "applySnapshot"}, NEW next \in {"applySnapshot", "applyRows"},
             ApplyLook(m, from, next)
      PROVE  Stands(m) /\ PaperStatement(m)'
  <2>1. /\ req'[m].do = req[m].do /\ req'[m].arg = req[m].arg /\ req'[m].at \in {"ok", next}
        /\ db' = db /\ At(m, from)
    BY <1>2, DoneBy DEF ApplyLook, GoOn, End
  <2>2. AtHome(req[m].do, next)
    BY <1>0, <2>1 DEF AtHome, At, PaperHandlers, DocumentWriters, Spenders, Reporters
  <2> QED
    BY <2>1, <2>2, PlainWell, UnchangedIsSame DEF At, Ends, StatementsOfRead
<1>3. CASE PatchPosting(m) \/ ClosePosting(m)
  <2>1. /\ req'[m].do = req[m].do /\ req'[m].arg = req[m].arg /\ req'[m].at \in {"postingRow", "closeRow", "refused"}
        /\ db' = db /\ ~At(m, "ingestJob")
    BY <1>3, DoneBy DEF PatchPosting, ClosePosting, Load, GoOn, Refuse, At
  <2>2. AtHome(req[m].do, "postingRow") /\ AtHome(req[m].do, "closeRow")
    BY DEF AtHome, PaperHandlers, DocumentWriters, Spenders, Reporters
  <2> QED
    BY <2>1, <2>2, PlainWell, UnchangedIsSame DEF Ends, StatementsOfRead
<1>4. ASSUME NEW row, Save(m, "posting", row) PROVE Stands(m) /\ PaperStatement(m)'
  <2>1. /\ req'[m].do = req[m].do /\ req'[m].arg = req[m].arg /\ req'[m].at \in {"ok", "refused"}
        /\ db' = db \/ db' = [db EXCEPT !["posting"][req[m].arg.id] = Bumped(row)]
    BY <1>4, DoneBy DEF Save, End, Refuse
  <2>2. PaperSame
    BY <2>1, OtherTableIsSame, UnchangedIsSame
  <2> QED
    BY <2>1, <2>2, PlainWell DEF Ends
<1>5. CASE PatchApplicant(m)
  <2>1. /\ req'[m].do = req[m].do /\ req'[m].arg = req[m].arg /\ req'[m].at \in {"ok", "refused", "applicantRow"}
        /\ db' = db /\ At(m, "patchApplicant")
    BY <1>5, DoneBy DEF PatchApplicant, GoOn, End, Refuse
  <2>2. AtHome(req[m].do, "applicantRow")
    BY <1>0, <2>1 DEF AtHome, At, PaperHandlers, DocumentWriters, Spenders, Reporters
  <2> QED
    BY <2>1, <2>2, PlainWell, UnchangedIsSame DEF At, Ends, StatementsOfRead
<1> QED
  BY <1>1, <1>2, <1>3, <1>4, <1>5 DEF PostingRow, CloseRow

LEMMA PlainProject ==
    ASSUME PaperInv, NEW m \in Requests, Open(m), Goes(m),
           SelectProject(m) \/ SelectRow(m) \/ CreateRun(m) \/ RunGuard(m)
    PROVE  Stands(m) /\ PaperStatement(m)'
<1>0. AtHome(req[m].do, req[m].at)
  BY CalledWell DEF Open
<1>1. CASE SelectProject(m)
  <2>1. /\ req'[m].do = req[m].do /\ req'[m].arg = req[m].arg /\ req'[m].at \in {"selectRow", "refused"}
        /\ db' = db /\ At(m, "selectProject")
    BY <1>1, DoneBy DEF SelectProject, Load, GoOn, Refuse
  <2>2. AtHome(req[m].do, "selectRow")
    BY DEF AtHome, PaperHandlers, DocumentWriters, Spenders, Reporters
  <2> QED
    BY <2>1, <2>2, PlainWell, UnchangedIsSame DEF At, Ends, StatementsOfRead
<1>2. CASE SelectRow(m)
  <2>1. /\ req'[m].do = req[m].do /\ req'[m].arg = req[m].arg /\ req'[m].at \in {"ok", "refused"}
        /\ db' = db \/ \E to : db' = [db EXCEPT !.blueprint = to]
    BY <1>2, DoneBy DEF SelectRow, Save, End, Refuse
  <2>2. PaperSame
    BY <2>1, OtherTableIsSame, UnchangedIsSame
  <2> QED
    BY <2>1, <2>2, PlainWell DEF Ends
<1>3. CASE CreateRun(m) \/ RunGuard(m)
  <2>1. /\ req'[m].do = req[m].do /\ req'[m].arg = req[m].arg /\ req'[m].at \in {"runGuard", "runRows", "refused"}
        /\ db' = db /\ req[m].at \in {"createRun", "runGuard"}
    BY <1>3, DoneBy DEF CreateRun, RunGuard, Load, GoOn, Refuse, At
  <2>2. AtHome(req[m].do, "runGuard") /\ AtHome(req[m].do, "runRows")
    BY <1>0, <2>1 DEF AtHome, PaperHandlers, DocumentWriters, Spenders, Reporters
  <2> QED
    BY <2>1, <2>2, PlainWell, UnchangedIsSame DEF At, Ends, StatementsOfRead
<1> QED
  BY <1>1, <1>2, <1>3

\* A text is written, and its job is stored next.
LEMMA TextWell ==
    ASSUME PaperInv, NEW m \in Requests, Open(m), Goes(m), PaperSame,
           req'[m].do = req[m].do, req'[m].arg = req[m].arg, req[m].do # "convertSource",
           req'[m].at = "ingestJob", req'[m].v.of[1] # "fill", IngestJob(req'[m].v.of) \in IngestRecord
    PROVE  Stands(m) /\ PaperStatement(m)'
<1>1. Stands(m) /\ Grows(m)
  BY SameStands DEF Stands
<1>2. Fresh(m)'
  BY FreshOn
<1>3. CalledFor(req[m].do, req[m].arg)'
  BY <1>1, CallStays DEF Open
<1>4. AtHome(req[m].do, "ingestJob")
  BY DEF AtHome, PaperHandlers, DocumentWriters, Spenders, Reporters
<1>5. HasRead(m)' /\ Spends(m)' /\ Overtaken(m)'
  BY DEF HasRead, Spends, Overtaken, At
<1> QED
  BY <1>1, <1>2, <1>3, <1>4, <1>5 DEF PaperStatement, At

LEMMA PlainText ==
    ASSUME PaperInv, NEW m \in Requests, Open(m), Goes(m),
           \/ CreateSource(m) \/ CreateEvidence(m) \/ CreatePosting(m) \/ CreateJob(m)
           \/ ArchiveEvidence(m) \/ ArchiveText(m) \/ DeleteSource(m)
    PROVE  Stands(m) /\ PaperStatement(m)'
<1>0. AtHome(req[m].do, req[m].at)
  BY CalledWell DEF Open
<1>1. CASE CreateSource(m) \/ CreateEvidence(m) \/ CreatePosting(m) \/ CreateJob(m)
  <2>1. /\ req'[m].do = req[m].do /\ req'[m].arg = req[m].arg /\ req[m].at \in PaperHandlers \cup Callable
        /\ req[m].at \in {"createSource", "createEvidence", "createPosting", "createJob"}
    BY <1>1, DoneBy DEF CreateSource, CreateEvidence, CreatePosting, CreateJob, NewText, ThenIngest, Refuse, At, Callable
  <2>2. \/ req'[m].at = "refused" /\ db' = db
        \/ /\ req'[m].at = "ingestJob" /\ (req'[m].v = [of |-> <<"text", m>>] \/ req'[m].v = [of |-> <<"edited", m>>])
           /\ (\E to : db' = [db EXCEPT !.text = to]) \/ (\E to : db' = [db EXCEPT !.edited = to])
    BY <1>1, DoneBy DEF CreateSource, CreateEvidence, CreatePosting, CreateJob, NewText, ThenIngest, Refuse, Ends
  <2>3. PaperSame
    BY <2>2, OtherTableIsSame, UnchangedIsSame
  <2>4. req[m].do # "convertSource"
    BY <1>0, <2>1 DEF AtHome, PaperHandlers
  <2>5. CASE req'[m].at = "refused"
    BY <2>1, <2>3, <2>5, PlainWell DEF Ends
  <2>6. CASE req'[m].at = "ingestJob"
    <3>1. req'[m].v.of[1] # "fill" /\ IngestJob(req'[m].v.of) \in IngestRecord
      BY <2>2, <2>6 DEF IngestJob, IngestRecord, Texts, Ids
    <3> QED
      BY <2>1, <2>3, <2>4, <2>6, <3>1, TextWell
  <2> QED
    BY <2>2, <2>5, <2>6
<1>2. CASE ArchiveEvidence(m)
  <2>1. /\ req'[m].do = req[m].do /\ req'[m].arg = req[m].arg /\ req'[m].at \in {"archiveText", "refused"}
        /\ db' = db /\ At(m, "archiveEvidence")
    BY <1>2, DoneBy DEF ArchiveEvidence, Load, GoOn, Refuse
  <2>2. AtHome(req[m].do, "archiveText")
    BY <1>0, <2>1 DEF At, AtHome, PaperHandlers, DocumentWriters, Spenders, Reporters
  <2> QED
    BY <2>1, <2>2, PlainWell, UnchangedIsSame DEF At, Ends, StatementsOfRead
<1>3. CASE ArchiveText(m)
  <2>1. /\ req'[m].do = req[m].do /\ req'[m].arg = req[m].arg /\ req'[m].at \in {"ok", "refused"}
        /\ db' = db \/ \E to : db' = [db EXCEPT !.text = to]
    BY <1>3, DoneBy DEF ArchiveText, Save, End, Refuse
  <2>2. PaperSame
    BY <2>1, OtherTableIsSame, UnchangedIsSame
  <2> QED
    BY <2>1, <2>2, PlainWell DEF Ends
<1>4. CASE DeleteSource(m)
  <2>1. /\ req'[m].do = req[m].do /\ req'[m].arg = req[m].arg /\ req'[m].at \in {"ok", "refused"}
    BY <1>4, DoneBy DEF DeleteSource, End, Refuse
  <2>2. \/ db' = db
        \/ \E node, behind : db' = [db EXCEPT !.text[req[m].arg.id] = Nil, !.node = node, !.behind = behind]
    <3>1. CASE Refuse(m)
      BY <3>1, DoneBy DEF Refuse
    <3>2. ASSUME NEW node, NEW behind, End(m, [db EXCEPT !.text[req[m].arg.id] = Nil, !.node = node, !.behind = behind])
          PROVE  db' = [db EXCEPT !.text[req[m].arg.id] = Nil, !.node = node, !.behind = behind]
      BY <3>2, DoneBy DEF End
    <3>3. Refuse(m) \/ \E node, behind : End(m, [db EXCEPT !.text[req[m].arg.id] = Nil, !.node = node, !.behind = behind])
      <4> DEFINE of == <<"text", req[m].arg.id>>
                 node == DroppedNodes(of)  behind == IF Reading(of) = {} THEN db.behind ELSE db.behind \cup {of}
      <4>1. Refuse(m) \/ End(m, [db EXCEPT !.text[req[m].arg.id] = Nil, !.node = node, !.behind = behind])
        BY <1>4 DEF DeleteSource, PaperInv, PaperShape
      <4> QED
        BY <4>1
    <3> QED
      BY <3>1, <3>2, <3>3
  <2>3. PaperSame
    BY <2>2, UnchangedIsSame DEF PaperInv, PaperShape, PaperSame, PaperKept, DocumentsKept, PaperThere
  <2> QED
    BY <2>1, <2>3, PlainWell DEF Ends
<1> QED
  BY <1>1, <1>2, <1>3, <1>4

LEMMA PatchingJob ==
    ASSUME PaperInv, NEW m \in Requests, Open(m), Goes(m), PatchJob(m) \/ JobRow(m)
    PROVE  Stands(m) /\ PaperStatement(m)'
<1>0. AtHome(req[m].do, req[m].at)
  BY CalledWell DEF Open
<1>1. CASE PatchJob(m)
  <2>1. /\ req'[m].do = req[m].do /\ req'[m].arg = req[m].arg /\ req'[m].at \in {"jobRow", "refused"}
        /\ db' = db /\ At(m, "patchJob")
    BY <1>1, DoneBy DEF PatchJob, Load, GoOn, Refuse
  <2>2. AtHome(req[m].do, "jobRow")
    BY <1>0, <2>1 DEF AtHome, At, PaperHandlers, DocumentWriters, Spenders, Reporters
  <2> QED
    BY <2>1, <2>2, PlainWell, UnchangedIsSame DEF At, Ends, StatementsOfRead
<1>2. CASE JobRow(m)
  <2> DEFINE i == req[m].arg.id
  <2>1. /\ req'[m].do = req[m].do /\ req'[m].arg = req[m].arg /\ At(m, "jobRow")
        /\ \/ req'[m].at = "refused" /\ db' = db
           \/ /\ req'[m].at = "ingestJob" /\ req'[m].v = [of |-> <<"edited", i>>]
              /\ \E to : db' = [db EXCEPT !.edited = to]
    BY <1>2, DoneBy DEF JobRow, ThenIngest, Refuse, Ends
  <2>2. PaperSame
    BY <2>1, OtherTableIsSame, UnchangedIsSame
  <2>3. req[m].do = "patchJob"
    BY <1>0, <2>1 DEF AtHome, At
  <2>4. CASE req'[m].at = "refused"
    BY <2>1, <2>2, <2>4, PlainWell DEF Ends
  <2>5. CASE req'[m].at = "ingestJob"
    <3>1. i \in Ids
      BY <2>3, CalledWell DEF CalledFor, Open
    <3>2. req'[m].v.of[1] # "fill" /\ IngestJob(req'[m].v.of) \in IngestRecord
      BY <2>1, <2>5, <3>1 DEF IngestJob, IngestRecord, Texts
    <3> QED
      BY <2>1, <2>2, <2>3, <2>5, <3>2, TextWell
  <2> QED
    BY <2>1, <2>4, <2>5
<1> QED
  BY <1>1, <1>2

LEMMA KilledWell ==
    ASSUME PaperInv, NEW m \in Requests, Open(m), Goes(m), Killed(m)
    PROVE  Stands(m) /\ PaperStatement(m)'
<1>1. req'[m].do = req[m].do /\ req'[m].arg = req[m].arg /\ req'[m].at = "killed" /\ db' = db
  BY DoneBy DEF Killed
<1> QED
  BY <1>1, PlainWell, UnchangedIsSame DEF Ends

LEMMA CalledGoes ==
    ASSUME NEW m \in Requests, Called(m)
    PROVE  Goes(m)
<1>1. PICK h, arg : h \in Callable /\ Begin(m, h, arg)
  BY DEF Called
<1>2. h \notin Ends \cup {"new"}
  BY <1>1, CallsAtHome
<1> QED
  BY <1>1, <1>2, BeginMoves DEF Goes

LEMMA CalledStands ==
    ASSUME PaperInv, NEW m \in Requests, Called(m)
    PROVE  Stands(m) /\ PaperStatement(m)'
<1>1. PICK h, arg : h \in Callable /\ CalledFor(h, arg) /\ Begin(m, h, arg)
  BY DEF Called
<1>2. /\ AtHome(h, h) /\ h \notin Ends \cup {"new", "ingestJob", "none"}
      /\ h \notin {"patchRow", "saveVersion", "readProposal", "finalizeCheck", "archiveRow", "convertRow", "decideRow",
                   "applicationRow", "draftVersions", "draftRow", "submitDraft", "submitCheck", "startCheck",
                   "saveRun", "spend", "spendRows"}
  BY <1>1, CallsAtHome
<1>3. /\ req'[m].do = h /\ req'[m].at = h /\ req'[m].arg = arg /\ db' = db /\ At(m, "new")
  BY <1>1, BeginRequest, BeginEffect DEF PaperInv
<1>4. Stands(m) /\ Grows(m)
  BY <1>3, CalledGoes, UnchangedIsSame, SameStands DEF Stands
<1>5. CalledFor(h, arg)'
  <2>1. \A k, a : CalledFor(k, a) => CalledFor(k, a)'
    BY <1>4, CalledForStays
  <2> QED
    BY <1>1, <2>1
<1>6. HasRead(m)' /\ Spends(m)' /\ Overtaken(m)'
  BY <1>2, <1>3 DEF HasRead, Spends, Overtaken, At
<1>7. Fresh(m)'
  <2>1. PaperRowsOf(m) = {Nil} /\ db.ingest[m] = Nil
    BY <1>3 DEF PaperInv, PaperStatement, Fresh, Ended, Ends, At
  <2>2. PaperRowsOf(m)' = {Nil} /\ db'.ingest[m] = Nil /\ db'.version[m] = Nil /\ db'.document[m] = Nil
    BY <1>3, <2>1 DEF PaperRowsOf
  <2> QED
    BY <1>2, <1>3, <2>2 DEF Fresh, Ended, At
<1>8. AtHome(req'[m].do, req'[m].at)
  BY <1>2, <1>3
<1> QED
  BY <1>2, <1>3, <1>4, <1>5, <1>6, <1>7, <1>8 DEF PaperStatement, At

-----------------------------------------------------------------------------
\* The statement of one handler goes on to another that the handler has.
LEMMA NextAtHome ==
    ASSUME PaperInv, NEW m \in Requests, Open(m)
    PROVE  /\ AtHome(req[m].do, req[m].at)
           /\ req[m].at \in PaperHandlers => req[m].do = req[m].at
           /\ CalledFor(req[m].do, req[m].arg)
  BY CalledWell DEF Open, AtHome

LEMMA DocumentIsHeld ==
    ASSUME PaperInv, NEW d \in Ids, db.document[d] # Nil
    PROVE  DocumentHeld(d, db.document[d])
  BY DEF PaperInv, PaperShape, DocumentHeld, DocumentRecord

\* m has read the row of its document, and goes on.
LEMMA ReadsDocument ==
    ASSUME PaperInv, NEW m \in Requests, Open(m), Goes(m), ~At(m, "ingestJob"),
           NEW statement \in {"patchRow", "saveVersion", "readProposal", "finalizeCheck", "archiveRow", "convertRow"},
           NEW v, GoOn(m, statement, v), AtHome(req[m].do, statement),
           DocumentHeld(req[m].arg.id, v), statement # "convertRow" => Mutable(v)
    PROVE  Stands(m) /\ PaperStatement(m)'
<1>1. /\ req'[m].do = req[m].do /\ req'[m].arg = req[m].arg /\ req'[m].at = statement /\ req'[m].v = v /\ db' = db
  BY DoneBy DEF GoOn, Ends
<1>2. DocumentHeld(req[m].arg.id, v)' /\ (statement # "convertRow" => Mutable(v))
  BY <1>1 DEF DocumentHeld, VersionsOf
<1>3. HasRead(m)'
  BY <1>1, <1>2 DEF HasRead, MutableHeld, At
<1>4. Spends(m)' /\ Overtaken(m)'
  BY <1>1 DEF Spends, Overtaken, At
<1> QED
  BY <1>1, <1>3, <1>4, QuietWell, UnchangedIsSame DEF Ends

LEMMA RefusesWell ==
    ASSUME PaperInv, NEW m \in Requests, Open(m), Goes(m), Refuse(m) \/ End(m, db)
    PROVE  Stands(m) /\ PaperStatement(m)'
<1>1. /\ req'[m].do = req[m].do /\ req'[m].arg = req[m].arg /\ req'[m].at \in {"refused", "ok"} /\ db' = db
  BY DoneBy DEF Refuse, End
<1> QED
  BY <1>1, PlainWell, UnchangedIsSame DEF Ends

LEMMA ReadingDocument ==
    ASSUME PaperInv, NEW m \in Requests, Open(m), Goes(m),
           \/ PatchDocument(m) \/ CreateVersion(m) \/ ApplyEdits(m) \/ ApplyRevision(m) \/ ReadProposal(m)
           \/ Finalize(m) \/ Archive(m) \/ ConvertDocument(m)
    PROVE  Stands(m) /\ PaperStatement(m)'
<1>0. /\ AtHome(req[m].do, req[m].at)
      /\ req[m].at \in PaperHandlers => req[m].do = req[m].at
      /\ CalledFor(req[m].do, req[m].arg)
  BY NextAtHome
<1> DEFINE d == req[m].arg.id
<1>1. ASSUME NEW h \in DocumentWriters, At(m, h), NEW next,
             \/ h = "patchDocument" /\ next = "patchRow"
             \/ h \in {"createVersion", "applyEdits"} /\ next = "saveVersion"
             \/ h = "applyRevision" /\ next = "readProposal"
             \/ h = "finalize" /\ next = "finalizeCheck"
             \/ h = "archive" /\ next = "archiveRow"
             \/ h = "convertDocument" /\ next = "convertRow",
             GoOn(m, next, db.document[d]), next # "convertRow" => Mutable(db.document[d])
      PROVE  Stands(m) /\ PaperStatement(m)'
  <2>1. req[m].do = h
    BY <1>0, <1>1 DEF At, PaperHandlers
  <2>2. d \in Ids /\ db.document[d] # Nil
    BY <1>0, <1>1, <2>1 DEF CalledFor
  <2>3. DocumentHeld(d, db.document[d])
    BY <2>2, DocumentIsHeld
  <2>4. AtHome(h, next)
    BY <1>1 DEF AtHome, PaperHandlers, DocumentWriters, Spenders, Reporters, Editors
  <2>5. ~At(m, "ingestJob") /\ next \in {"patchRow", "saveVersion", "readProposal", "finalizeCheck", "archiveRow", "convertRow"}
    BY <1>1 DEF At, DocumentWriters
  <2> QED
    BY <1>1, <2>1, <2>3, <2>4, <2>5, ReadsDocument
<1>3. CASE Refuse(m) \/ End(m, db)
  BY <1>3, RefusesWell
<1>4. CASE PatchDocument(m) /\ ~Refuse(m)
  <2>1. At(m, "patchDocument") /\ Mutable(db.document[d]) /\ GoOn(m, "patchRow", db.document[d])
    BY <1>4 DEF PatchDocument, Load
  <2> QED
    BY <1>1, <2>1 DEF DocumentWriters
<1>5. CASE CreateVersion(m) /\ ~Refuse(m)
  <2>1. At(m, "createVersion") /\ Mutable(db.document[d]) /\ GoOn(m, "saveVersion", db.document[d])
    BY <1>5 DEF CreateVersion, Load
  <2> QED
    BY <1>1, <2>1 DEF DocumentWriters
<1>6. CASE ApplyEdits(m) /\ ~Refuse(m)
  <2>1. At(m, "applyEdits") /\ Mutable(db.document[d]) /\ GoOn(m, "saveVersion", db.document[d])
    BY <1>6 DEF ApplyEdits, Load
  <2> QED
    BY <1>1, <2>1 DEF DocumentWriters
<1>7. CASE ApplyRevision(m) /\ ~Refuse(m)
  <2>1. At(m, "applyRevision") /\ Mutable(db.document[d]) /\ GoOn(m, "readProposal", db.document[d])
    BY <1>7 DEF ApplyRevision, Load
  <2> QED
    BY <1>1, <2>1 DEF DocumentWriters
<1>8. CASE Finalize(m) /\ ~Refuse(m)
  <2>1. At(m, "finalize") /\ Mutable(db.document[d]) /\ GoOn(m, "finalizeCheck", db.document[d])
    BY <1>8 DEF Finalize, Load
  <2> QED
    BY <1>1, <2>1 DEF DocumentWriters
<1>9. CASE Archive(m) /\ ~End(m, db)
  <2>1. At(m, "archive") /\ Mutable(db.document[d]) /\ GoOn(m, "archiveRow", db.document[d])
    BY <1>9 DEF Archive, Mutable
  <2> QED
    BY <1>1, <2>1 DEF DocumentWriters
<1>10. CASE ConvertDocument(m) /\ ~Refuse(m)
  <2>1. At(m, "convertDocument") /\ GoOn(m, "convertRow", db.document[d])
    BY <1>10 DEF ConvertDocument, Load
  <2> QED
    BY <1>1, <2>1 DEF DocumentWriters
<1>11. CASE ReadProposal(m) /\ ~Refuse(m)
  <2>1. At(m, "readProposal") /\ GoOn(m, "saveVersion", req[m].v)
    BY <1>11 DEF ReadProposal
  <2>2. MutableHeld(d, req[m].v)
    BY <2>1 DEF PaperInv, PaperStatement, HasRead, At
  <2>3. AtHome(req[m].do, "saveVersion")
    BY <1>0, <2>1 DEF AtHome, At, PaperHandlers, DocumentWriters, Spenders, Reporters, Editors
  <2>4. ~At(m, "ingestJob")
    BY <2>1 DEF At
  <2> QED
    BY <2>1, <2>2, <2>3, <2>4, ReadsDocument DEF MutableHeld
<1> QED
  BY <1>3, <1>4, <1>5, <1>6, <1>7, <1>8, <1>9, <1>10, <1>11

LEMMA Deciding ==
    ASSUME PaperInv, NEW m \in Requests, Open(m), Goes(m), Decide(m)
    PROVE  Stands(m) /\ PaperStatement(m)'
<1> DEFINE a == req[m].arg.id
<1>1. CASE Refuse(m)
  BY <1>1, RefusesWell
<1>2. CASE ~Refuse(m)
  <2>1. At(m, "decide") /\ IsPending(db.approval[a]) /\ GoOn(m, "decideRow", db.approval[a])
    BY <1>2 DEF Decide, Load
  <2>2. req[m].do = "decide" /\ CalledFor("decide", req[m].arg)
    BY <2>1, NextAtHome DEF At, PaperHandlers
  <2>3. a \in Ids /\ db.approval[a] # Nil
    BY <2>2 DEF CalledFor
  <2>4. db.approval[a] \in ApprovalRecord /\ db.approval[a].rev \in Nat
    BY <2>3 DEF PaperInv, PaperShape, ApprovalRecord
  <2>5. /\ req'[m].do = req[m].do /\ req'[m].arg = req[m].arg /\ req'[m].at = "decideRow" /\ req'[m].v = db.approval[a]
        /\ db' = db
    BY <2>1, DoneBy DEF GoOn, Ends
  <2>6. HasRead(m)' /\ Spends(m)' /\ Overtaken(m)'
    BY <2>1, <2>4, <2>5 DEF HasRead, Spends, Overtaken, At, IsPending
  <2>7. AtHome("decide", "decideRow")
    BY DEF AtHome, PaperHandlers, DocumentWriters, Spenders, Reporters
  <2> QED
    BY <2>1, <2>2, <2>5, <2>6, <2>7, QuietWell, UnchangedIsSame DEF At, Ends
<1> QED
  BY <1>1, <1>2

-----------------------------------------------------------------------------
\* m has read an approval it may spend, and the row it is of.
LEMMA ToSpend ==
    ASSUME PaperInv, NEW m \in Requests, Open(m), Goes(m), ~At(m, "ingestJob"), req[m].do \in Spenders,
           NEW v, GoOn(m, "spend", v), v.approval = db.approval[req[m].arg.approval],
           Covers(req[m].arg.approval, KindOf(req[m].do), Covered(m)),
           req[m].do = "finalize" => MutableHeld(req[m].arg.id, v.doc),
           req[m].do = "submit" => v.app \in ApplicationRecord /\ RowHeld("application", req[m].arg.id, v.app),
           req[m].do = "startRun" => /\ v.run \in LaunchRecord /\ RowHeld("run", req[m].arg.id, v.run)
                                     /\ v.run.state = "APPROVAL_REQUIRED"
    PROVE  Stands(m) /\ PaperStatement(m)'
<1> DEFINE a == req[m].arg.approval  d == req[m].arg.id
<1>1. /\ req'[m].do = req[m].do /\ req'[m].arg = req[m].arg /\ req'[m].at = "spend" /\ req'[m].v = v /\ db' = db
  BY DoneBy DEF GoOn, Ends
<1>2. a \in Ids /\ db.approval[a] # Nil
  BY NextAtHome DEF CalledFor
<1>3. db.approval[a] \in ApprovalRecord /\ db.approval[a].rev \in Nat
  BY <1>2 DEF PaperInv, PaperShape, ApprovalRecord
<1>4. db.approval[a].kind = KindOf(req[m].do) /\ db.approval[a].target = Covered(m) /\ db.approval[a].state = "APPROVED"
  BY DEF Covers
<1>5. Covered(m)' = Covered(m)
  BY <1>1 DEF Covered
<1>6. req[m].do = "finalize" => MutableHeld(d, v.doc)'
  BY <1>1 DEF MutableHeld, DocumentHeld, VersionsOf
<1>7. req[m].do = "submit" => RowHeld("application", d, v.app)'
  BY <1>1 DEF RowHeld
<1>8. req[m].do = "startRun" => RowHeld("run", d, v.run)'
  BY <1>1 DEF RowHeld
<1>9. Spends(m)'
  BY <1>1, <1>3, <1>4, <1>5, <1>6, <1>7, <1>8 DEF Spends
<1>10. HasRead(m)' /\ Overtaken(m)'
  BY <1>1 DEF HasRead, Overtaken, At
<1>11. AtHome(req[m].do, "spend")
  BY DEF AtHome, PaperHandlers, DocumentWriters, Spenders, Reporters
<1> QED
  BY <1>1, <1>9, <1>10, <1>11, QuietWell, UnchangedIsSame DEF Ends

\* The first step of the statement finds both rows as they were read.
LEMMA ToSpendRows ==
    ASSUME PaperInv, NEW m \in Requests, Open(m), Goes(m), At(m, "spend"),
           \/ req[m].do = "finalize" /\ Spend(m, "document", req[m].v.doc)
           \/ req[m].do = "submit" /\ Spend(m, "application", req[m].v.app)
           \/ req[m].do = "startRun" /\ Spend(m, "run", req[m].v.run)
    PROVE  Stands(m) /\ PaperStatement(m)'
<1> DEFINE v == req[m].v  d == req[m].arg.id
<1>1. CASE Refuse(m)
  BY <1>1, RefusesWell
<1>2. CASE ~Refuse(m)
  <2>1. /\ GoOn(m, "spendRows", req[m].v) /\ req[m].do \in Spenders
        /\ req[m].do = "finalize" => db.document[d].rev = v.doc.rev
        /\ req[m].do = "submit" => db.application[d].rev = v.app.rev
        /\ req[m].do = "startRun" => db.run[d].rev = v.run.rev
    BY <1>2 DEF Spend, Same, Spenders
  <2>2. /\ req'[m].do = req[m].do /\ req'[m].arg = req[m].arg /\ req'[m].at = "spendRows" /\ req'[m].v = req[m].v /\ db' = db
    BY <2>1, DoneBy DEF GoOn, Ends
  <2>3. Spends(m)
    BY DEF PaperInv, PaperStatement
  <2>4. Covered(m)' = Covered(m)
    BY <2>2 DEF Covered
  <2>5. req[m].do = "finalize" => MutableHeld(d, v.doc)'
    BY <2>2, <2>3 DEF Spends, At, MutableHeld, DocumentHeld, VersionsOf
  <2>6. req[m].do = "submit" => RowHeld("application", d, v.app)'
    BY <2>2, <2>3 DEF Spends, At, RowHeld
  <2>7. req[m].do = "startRun" => RowHeld("run", d, v.run)'
    BY <2>2, <2>3 DEF Spends, At, RowHeld
  <2>8. Spends(m)'
    BY <2>2, <2>3, <2>4, <2>5, <2>6, <2>7 DEF Spends, At
  <2>9. HasRead(m)' /\ Overtaken(m)'
    BY <2>1, <2>2 DEF HasRead, Overtaken, At
  <2>10. AtHome(req[m].do, "spendRows")
    BY <2>1 DEF AtHome, PaperHandlers, DocumentWriters, Spenders, Reporters
  <2> QED
    BY <2>2, <2>8, <2>9, <2>10, QuietWell, UnchangedIsSame DEF At, Ends
<1> QED
  BY <1>1, <1>2

LEMMA Spending ==
    ASSUME PaperInv, NEW m \in Requests, Open(m), Goes(m),
           FinalizeCheck(m) \/ SpendFinalize(m) \/ SubmitCheck(m) \/ SpendSubmit(m) \/ StartCheck(m) \/ SpendStart(m)
    PROVE  Stands(m) /\ PaperStatement(m)'
<1> DEFINE a == req[m].arg.approval  d == req[m].arg.id  v == req[m].v
<1>0. AtHome(req[m].do, req[m].at) /\ HasRead(m)
  BY NextAtHome DEF PaperInv, PaperStatement
<1>1. CASE Refuse(m)
  BY <1>1, RefusesWell
<1>2. CASE FinalizeCheck(m) /\ ~Refuse(m)
  <2>1. /\ At(m, "finalizeCheck") /\ Covers(a, "finalize", req[m].arg.version)
        /\ GoOn(m, "spend", [doc |-> v, approval |-> db.approval[a]])
    BY <1>2 DEF FinalizeCheck
  <2>2. req[m].do = "finalize" /\ MutableHeld(d, v)
    BY <1>0, <2>1 DEF AtHome, At, HasRead
  <2> QED
    BY <2>1, <2>2, ToSpend DEF At, Spenders, KindOf, Covered
<1>3. CASE SubmitCheck(m) /\ ~Refuse(m)
  <2>1. /\ At(m, "submitCheck") /\ Covers(a, "submit", req[m].arg.draft)
        /\ GoOn(m, "spend", [app |-> v, approval |-> db.approval[a]])
    BY <1>3 DEF SubmitCheck
  <2>2. req[m].do = "submit" /\ v \in ApplicationRecord /\ RowHeld("application", d, v)
    BY <1>0, <2>1 DEF AtHome, At, HasRead
  <2> QED
    BY <2>1, <2>2, ToSpend DEF At, Spenders, KindOf, Covered
<1>4. CASE StartCheck(m) /\ ~Refuse(m)
  <2>1. /\ At(m, "startCheck") /\ Covers(a, "execute", d)
        /\ GoOn(m, "spend", [run |-> v, approval |-> db.approval[a]])
    BY <1>4 DEF StartCheck
  <2>2. /\ req[m].do = "startRun" /\ v \in LaunchRecord /\ RowHeld("run", d, v) /\ v.state = "APPROVAL_REQUIRED"
    BY <1>0, <2>1 DEF AtHome, At, HasRead
  <2> QED
    BY <2>1, <2>2, ToSpend DEF At, Spenders, KindOf, Covered
<1>5. CASE SpendFinalize(m) \/ SpendSubmit(m) \/ SpendStart(m)
  BY <1>5, ToSpendRows DEF SpendFinalize, SpendSubmit, SpendStart
<1> QED
  BY <1>1, <1>2, <1>3, <1>4, <1>5

-----------------------------------------------------------------------------
\* m has read an application, and goes on.
LEMMA ReadsApplication ==
    ASSUME PaperInv, NEW m \in Requests, Open(m), Goes(m), ~At(m, "ingestJob"),
           NEW statement \in {"applicationRow", "draftVersions", "draftRow", "submitDraft", "submitCheck"},
           NEW v \in ApplicationRecord, GoOn(m, statement, v), AtHome(req[m].do, statement),
           RowHeld("application", req[m].arg.id, v),
           statement = "applicationRow" => req[m].arg.to = Nil \/ CanPatchStage(v.stage, req[m].arg.to),
           statement = "draftRow" => \E e \in Ids : db.finalized[e] = req[m].arg.version
    PROVE  Stands(m) /\ PaperStatement(m)'
<1>1. /\ req'[m].do = req[m].do /\ req'[m].arg = req[m].arg /\ req'[m].at = statement /\ req'[m].v = v /\ db' = db
  BY DoneBy DEF GoOn, Ends
<1>2. RowHeld("application", req[m].arg.id, v)'
  BY <1>1 DEF RowHeld
<1>3. statement = "applicationRow" =>
         req'[m].arg.to = Nil \/ CanPatchStage(req'[m].v.stage, req'[m].arg.to)
  BY <1>1
<1>4. HasRead(m)'
  BY <1>1, <1>2, <1>3 DEF HasRead, At
<1>5. Spends(m)' /\ Overtaken(m)'
  BY <1>1 DEF Spends, Overtaken, At
<1> QED
  BY <1>1, <1>4, <1>5, QuietWell, UnchangedIsSame DEF Ends

LEMMA ReadingApplication ==
    ASSUME PaperInv, NEW m \in Requests, Open(m), Goes(m),
           PatchApplication(m) \/ CreateDraft(m) \/ DraftVersions(m) \/ Submit(m) \/ SubmitDraft(m)
    PROVE  Stands(m) /\ PaperStatement(m)'
<1>0. /\ AtHome(req[m].do, req[m].at)
      /\ req[m].at \in PaperHandlers => req[m].do = req[m].at
      /\ CalledFor(req[m].do, req[m].arg)
  BY NextAtHome
<1> DEFINE i == req[m].arg.id
<1>1. CASE Refuse(m)
  BY <1>1, RefusesWell
<1>2. ASSUME NEW h, At(m, h), NEW next,
             \/ h = "patchApplication" /\ next = "applicationRow"
             \/ h = "createDraft" /\ next = "draftVersions"
             \/ h = "submit" /\ next = "submitDraft",
             GoOn(m, next, db.application[i]),
             h = "patchApplication" => req[m].arg.to = Nil \/ CanPatchStage(db.application[i].stage, req[m].arg.to)
      PROVE  Stands(m) /\ PaperStatement(m)'
  <2>1. req[m].do = h
    BY <1>0, <1>2 DEF At, PaperHandlers, Spenders
  <2>2. i \in Ids /\ db.application[i] # Nil
    BY <1>0, <1>2, <2>1 DEF CalledFor
  <2>3. db.application[i] \in ApplicationRecord /\ RowHeld("application", i, db.application[i])
    BY <2>2 DEF PaperInv, PaperShape, ApplicationRecord, RowHeld
  <2>4. AtHome(h, next)
    BY <1>2 DEF AtHome, PaperHandlers, DocumentWriters, Spenders, Reporters, Editors
  <2>5. ~At(m, "ingestJob")
    BY <1>2 DEF At
  <2>6. next \in {"applicationRow", "draftVersions", "draftRow", "submitDraft", "submitCheck"} /\ next # "draftRow"
        /\ (next = "applicationRow" => h = "patchApplication")
    BY <1>2
  <2> QED
    BY <1>2, <2>1, <2>3, <2>4, <2>5, <2>6, ReadsApplication
<1>3. CASE PatchApplication(m) /\ ~Refuse(m)
  <2>1. /\ At(m, "patchApplication") /\ GoOn(m, "applicationRow", db.application[i])
        /\ req[m].arg.to = Nil \/ CanPatchStage(db.application[i].stage, req[m].arg.to)
    BY <1>3 DEF PatchApplication, Load
  <2> QED
    BY <1>2, <2>1
<1>4. CASE CreateDraft(m) /\ ~Refuse(m)
  <2>1. At(m, "createDraft") /\ GoOn(m, "draftVersions", db.application[i])
    BY <1>4 DEF CreateDraft, Load
  <2> QED
    BY <1>2, <2>1
<1>5. CASE Submit(m) /\ ~Refuse(m)
  <2>1. At(m, "submit") /\ GoOn(m, "submitDraft", db.application[i])
    BY <1>5 DEF Submit, Load
  <2> QED
    BY <1>2, <2>1
<1>6. CASE DraftVersions(m) /\ ~Refuse(m)
  <2> DEFINE w == req[m].arg.version
  <2>1. At(m, "draftVersions") /\ GoOn(m, "draftRow", req[m].v) /\ db.document[db.version[w].document].final = w
    BY SMTT(30), <1>6 DEF DraftVersions
  <2>2. req[m].v \in ApplicationRecord /\ RowHeld("application", i, req[m].v)
    BY <2>1 DEF PaperInv, PaperStatement, HasRead, At
  <2>3. req[m].do = "createDraft"
    BY <1>0, <2>1 DEF AtHome, At
  <2>4. w \in Ids /\ db.version[w] # Nil
    BY <1>0, <2>3 DEF CalledFor
  <2>5. db.version[w].document \in Ids /\ db.document[db.version[w].document] # Nil
    BY <2>4 DEF PaperInv, PaperShape, References, VersionRecord
  <2>6. FinalIsTrue(db.version[w].document)
    BY <2>5 DEF PaperInv, AllAgree, Agrees
  <2>7. \E e \in Ids : db.finalized[e] = w
    BY <2>1, <2>4, <2>6, NilIsNoId DEF FinalIsTrue
  <2>8. AtHome("createDraft", "draftRow")
    BY DEF AtHome, PaperHandlers, DocumentWriters, Spenders, Reporters
  <2> QED
    BY <2>1, <2>2, <2>3, <2>7, <2>8, ReadsApplication DEF At
<1>7. CASE SubmitDraft(m) /\ ~Refuse(m)
  <2>1. At(m, "submitDraft") /\ GoOn(m, "submitCheck", req[m].v)
    BY <1>7 DEF SubmitDraft
  <2>2. req[m].v \in ApplicationRecord /\ RowHeld("application", i, req[m].v)
    BY <2>1 DEF PaperInv, PaperStatement, HasRead, At
  <2>3. req[m].do = "submit"
    BY <1>0, <2>1 DEF AtHome, At
  <2>4. AtHome("submit", "submitCheck")
    BY DEF AtHome, PaperHandlers, DocumentWriters, Spenders, Reporters
  <2> QED
    BY <2>1, <2>2, <2>3, <2>4, ReadsApplication DEF At
<1> QED
  BY <1>1, <1>3, <1>4, <1>5, <1>6, <1>7

-----------------------------------------------------------------------------
LEMMA Starting ==
    ASSUME PaperInv, NEW m \in Requests, Open(m), Goes(m), StartRun(m)
    PROVE  Stands(m) /\ PaperStatement(m)'
<1> DEFINE i == req[m].arg.id
<1>1. CASE Refuse(m)
  BY <1>1, RefusesWell
<1>2. CASE ~Refuse(m)
  <2>1. At(m, "startRun") /\ GoOn(m, "startCheck", db.run[i]) /\ db.run[i].state = "APPROVAL_REQUIRED"
    BY <1>2 DEF StartRun, Load
  <2>2. req[m].do = "startRun" /\ CalledFor("startRun", req[m].arg)
    BY <2>1, NextAtHome DEF At, PaperHandlers, Spenders
  <2>3. i \in Ids /\ db.run[i] # Nil
    BY <2>2 DEF CalledFor
  <2>4. db.run[i] \in LaunchRecord /\ RowHeld("run", i, db.run[i])
    BY <2>3 DEF PaperInv, PaperShape, LaunchRecord, RowHeld
  <2>5. /\ req'[m].do = req[m].do /\ req'[m].arg = req[m].arg /\ req'[m].at = "startCheck" /\ req'[m].v = db.run[i]
        /\ db' = db
    BY <2>1, DoneBy DEF GoOn, Ends
  <2>6. RowHeld("run", i, db.run[i])'
    BY <2>4, <2>5 DEF RowHeld
  <2>7. HasRead(m)' /\ Spends(m)' /\ Overtaken(m)'
    BY <2>1, <2>4, <2>5, <2>6 DEF HasRead, Spends, Overtaken, At, RowHeld
  <2>8. AtHome("startRun", "startCheck")
    BY DEF AtHome, PaperHandlers, DocumentWriters, Spenders, Reporters
  <2> QED
    BY <2>1, <2>2, <2>5, <2>7, <2>8, QuietWell, UnchangedIsSame DEF At, Ends
<1> QED
  BY <1>1, <1>2

LEMMA FinishesHeld ==
    ASSUME PaperInv, NEW i \in Ids, db.run[i] \in LaunchRecord, db.run[i].state # "APPROVAL_REQUIRED",
           db.run[i].launch # "FINISHED", NEW to \in {"VERIFYING", "FAILED"}
    PROVE  RunHeld(i, [db.run[i] EXCEPT !.launch = "FINISHED", !.state = to])
<1> DEFINE v == [db.run[i] EXCEPT !.launch = "FINISHED", !.state = to]
<1>1. v \in LaunchRecord
  BY DEF LaunchRecord
<1>2. v.rev = db.run[i].rev /\ v.state = to /\ v.approval = db.run[i].approval /\ v.device = db.run[i].device
      /\ db.run[i].rev \in Nat
  BY DEF LaunchRecord
<1> HIDE DEF v
<1>3. RunHeld(i, v)
  BY <1>1, <1>2 DEF RunHeld
<1> QED
  BY <1>3 DEF v

LEMMA Reporting ==
    ASSUME PaperInv, NEW m \in Requests, Open(m), Goes(m), ReportLaunch(m) \/ RecoverRun(m) \/ ReportResult(m)
    PROVE  Stands(m) /\ PaperStatement(m)'
<1> DEFINE i == req[m].arg.id
<1>1. CASE Refuse(m)
  BY <1>1, RefusesWell
<1>2. CASE ~Refuse(m)
  <2>0. req[m].at \in Reporters
    BY DEF ReportLaunch, RecoverRun, ReportResult, Report, At, Reporters
  <2>1. req[m].do = req[m].at /\ CalledFor(req[m].do, req[m].arg)
    BY <2>0, NextAtHome DEF At, PaperHandlers
  <2>2. i \in Ids /\ db.run[i] # Nil
    BY <2>0, <2>1 DEF CalledFor
  <2>3. db.run[i] \in LaunchRecord /\ RunIsTrue(i)
    BY <2>2 DEF PaperInv, PaperShape, AllSpent
  <2>4. \E v : GoOn(m, "saveRun", v) /\ RunHeld(i, v)
    <3>1. CASE ReportLaunch(m)
      <4> DEFINE v == [db.run[i] EXCEPT !.launch = req[m].arg.to]
      <4>1. GoOn(m, "saveRun", v) /\ db.run[i].state = "RUNNING"
            /\ (db.run[i].launch = req[m].arg.to \/ <<db.run[i].launch, req[m].arg.to>> \in LaunchNext)
        BY <1>2, <3>1 DEF ReportLaunch, Report
      <4>2. req[m].do = "reportLaunch"
        BY <2>1, <3>1 DEF ReportLaunch, Report, At
      <4>3. req[m].arg.to \in {"CLAIMED", "STARTED", "UNKNOWN"}
        BY <2>1, <4>2 DEF CalledFor
      <4>4. db.run[i].launch # "FINISHED"
        BY <4>1, <4>3 DEF LaunchNext
      <4>5. RunHeld(i, v)
        BY <2>3, <4>1, <4>3, <4>4 DEF RunHeld, LaunchRecord
      <4> QED
        BY <4>1, <4>5
    <3>2. CASE RecoverRun(m)
      <4> DEFINE v == IF req[m].arg.to = "REATTACH" THEN [db.run[i] EXCEPT !.launch = "STARTED"]
                      ELSE [db.run[i] EXCEPT !.launch = "FINISHED", !.state = "FAILED"]
      <4>1. GoOn(m, "saveRun", v) /\ db.run[i].launch = "UNKNOWN"
        BY SMTT(30), <1>2, <3>2 DEF RecoverRun, Report
      <4>2. db.run[i].state # "APPROVAL_REQUIRED"
        BY <2>3, <4>1 DEF RunIsTrue
      <4>3. CASE req[m].arg.to = "REATTACH"
        <5>1. v = [db.run[i] EXCEPT !.launch = "STARTED"]
          BY SMTT(30), <4>3
        <5>2. RunHeld(i, [db.run[i] EXCEPT !.launch = "STARTED"])
          BY <2>3, <4>1, <4>2 DEF RunHeld, LaunchRecord
        <5> QED
          BY <4>1, <5>1, <5>2
      <4>4. CASE req[m].arg.to # "REATTACH"
        <5>1. v = [db.run[i] EXCEPT !.launch = "FINISHED", !.state = "FAILED"]
          BY SMTT(30), <4>4
        <5>2. RunHeld(i, [db.run[i] EXCEPT !.launch = "FINISHED", !.state = "FAILED"])
          BY <2>2, <2>3, <4>1, <4>2, FinishesHeld
        <5> QED
          BY <4>1, <5>1, <5>2
      <4> QED
        BY <4>3, <4>4
    <3>3. CASE ReportResult(m)
      <4> DEFINE v == [db.run[i] EXCEPT !.launch = "FINISHED", !.state = req[m].arg.to]
      <4>1. GoOn(m, "saveRun", v) /\ db.run[i].state = "RUNNING" /\ db.run[i].launch = "STARTED"
        BY <1>2, <3>3 DEF ReportResult, Report
      <4>2. req[m].do = "reportResult"
        BY <2>1, <3>3 DEF ReportResult, Report, At
      <4>3. req[m].arg.to \in {"VERIFYING", "FAILED"}
        BY SMTT(30), <2>1, <4>2 DEF CalledFor
      <4>4. RunHeld(i, v)
        BY <2>2, <2>3, <4>1, <4>3, FinishesHeld
      <4> QED
        BY <4>1, <4>4
    <3> QED
      BY <3>1, <3>2, <3>3
  <2>5. PICK v : GoOn(m, "saveRun", v) /\ RunHeld(i, v)
    BY <2>4
  <2>6. /\ req'[m].do = req[m].do /\ req'[m].arg = req[m].arg /\ req'[m].at = "saveRun" /\ req'[m].v = v /\ db' = db
    BY <2>5, DoneBy DEF GoOn, Ends
  <2>7. RunHeld(i, v)'
    BY <2>5, <2>6 DEF RunHeld
  <2>8. HasRead(m)' /\ Spends(m)' /\ Overtaken(m)'
    BY <2>6, <2>7 DEF HasRead, Spends, Overtaken, At
  <2>9. AtHome(req[m].do, "saveRun")
    BY <2>0, <2>1 DEF AtHome, PaperHandlers, DocumentWriters, Spenders, Reporters
  <2> QED
    BY SMTT(30), <2>0, <2>6, <2>8, <2>9, QuietWell, UnchangedIsSame DEF At, Ends, Reporters
<1> QED
  BY <1>1, <1>2

-----------------------------------------------------------------------------
LEMMA KeptRowsGrow ==
    ASSUME PaperInv, NEW m, NEW i \in Ids
    PROVE  /\ db'.document[i] = db.document[i] /\ VersionsOf(i)' = VersionsOf(i) => DocumentGrows(m, i)
           /\ db'.approval[i] = db.approval[i] => ApprovalGrows(i)
           /\ db'.application[i] = db.application[i] => ApplicationGrows(m, i)
           /\ db'.run[i] = db.run[i] => RunGrows(m, i)
<1>1. db.document[i] # Nil => db.document[i].rev \in Nat
  BY DEF PaperInv, PaperShape, DocumentRecord
<1>2. db.approval[i] # Nil => db.approval[i].rev \in Nat
  BY DEF PaperInv, PaperShape, ApprovalRecord
<1>3. db.application[i] # Nil => db.application[i].rev \in Nat
  BY DEF PaperInv, PaperShape, ApplicationRecord
<1>4. db.run[i] # Nil => db.run[i].rev \in Nat
  BY DEF PaperInv, PaperShape, LaunchRecord
<1>5. db'.document[i] = db.document[i] /\ VersionsOf(i)' = VersionsOf(i) => DocumentGrows(m, i)
  BY <1>1 DEF DocumentGrows
<1>6. db'.approval[i] = db.approval[i] => ApprovalGrows(i)
  BY <1>2 DEF ApprovalGrows
<1>7. db'.application[i] = db.application[i] => ApplicationGrows(m, i)
  BY <1>3 DEF ApplicationGrows
<1>8. db'.run[i] = db.run[i] => RunGrows(m, i)
  BY <1>4 DEF RunGrows
<1> QED
  BY <1>5, <1>6, <1>7, <1>8

\* m's rows of before its statement.
LEMMA NothingYet ==
    ASSUME PaperInv, NEW m \in Requests, Open(m)
    PROVE  /\ db.ingest[m] = Nil
           /\ ~At(m, "ingestJob") => PaperRowsOf(m) = {Nil}
           /\ m \in Ids
  BY DEF PaperInv, PaperStatement, Fresh, Open, Ids

LEMMA EndsKept ==
    ASSUME PaperInv, NEW m \in Requests, Open(m), Goes(m), Stands(m),
           req'[m].do = req[m].do, req'[m].arg = req[m].arg, req'[m].at \in Ends,
           db'.ingest[m] = db.ingest[m], db'.version[m] = db.version[m], db.document[m] = Nil => db'.document[m] = Nil
    PROVE  PaperStatement(m)'
<1>1. Grows(m) /\ ~At(m, "new")
  BY DEF Stands, Open
<1>2. db.ingest[m] = Nil /\ Fresh(m)
  BY NothingYet DEF PaperInv, PaperStatement
<1>3. req'[m].at # "ingestJob"
  BY DEF Ends
<1>4. Fresh(m)'
  BY <1>2, <1>3 DEF Fresh, Ended, At
<1> QED
  BY <1>1, <1>4, PaperEndsWell

LEMMA GoesOnPlain ==
    ASSUME PaperInv, NEW m \in Requests, Open(m), Goes(m), Stands(m), ~At(m, "ingestJob"),
           req'[m].do = req[m].do, req'[m].arg = req[m].arg, req'[m].at \notin StatementsOfRead \cup Ends \cup {"new"},
           AtHome(req[m].do, req'[m].at), db'.ingest[m] = db.ingest[m], PaperRowsOf(m)' = PaperRowsOf(m)
    PROVE  PaperStatement(m)'
<1>1. HasRead(m)' /\ Spends(m)' /\ Overtaken(m)' /\ req'[m].at # "ingestJob"
  BY DEF HasRead, Spends, Overtaken, StatementsOfRead, At
<1>2. CalledFor(req[m].do, req[m].arg)'
  BY CallStays DEF Stands, Open
<1>3. PaperRowsOf(m)' = {Nil} /\ db'.ingest[m] = Nil
  BY NothingYet
<1>4. db'.version[m] = Nil /\ db'.document[m] = Nil
  BY <1>3 DEF PaperRowsOf
<1>5. Fresh(m)'
  BY <1>1, <1>3, <1>4 DEF Fresh, Ended, At
<1> QED
  BY <1>1, <1>2, <1>5 DEF PaperStatement, At

-----------------------------------------------------------------------------
\* Statements that write approvals alone, and spend none.
OthersKept ==
    /\ DocumentsKept /\ db'.application = db.application /\ db'.draft = db.draft /\ db'.submission = db.submission
    /\ db'.run = db.run /\ PaperThere /\ db'.ingest = db.ingest
ApprovalChanges(m, a) ==
    LET old == db.approval[a]  new == db'.approval[a] IN
    /\ new \in ApprovalRecord \cup {Nil}
    /\ ApprovalGrows(a)
    /\ old # Nil => (new.state = "CONSUMED" <=> old.state = "CONSUMED")
    /\ old = Nil /\ new # Nil => a = m /\ new.state # "CONSUMED" /\ RefersRight(a)'

LEMMA ApprovalsGrow ==
    ASSUME PaperInv, NEW m, OthersKept, db'.approval \in [Ids -> ApprovalRecord \cup {Nil}],
           \A a \in Ids : ApprovalGrows(a) /\ (db.approval[a] = Nil /\ db'.approval[a] # Nil => a = m)
    PROVE  Grows(m)
<1>1. PaperShape'
  BY DEF PaperInv, PaperShape, PaperThere, OthersKept, DocumentsKept
<1>2. \A d : VersionsOf(d)' = VersionsOf(d)
  BY DEF VersionsOf, OthersKept, DocumentsKept
<1>3. \A i \in Ids : DocumentGrows(m, i) /\ ApplicationGrows(m, i) /\ RunGrows(m, i)
  BY <1>2, KeptRowsGrow DEF OthersKept, DocumentsKept
<1>4. NamesKept(m)
  BY DEF NamesKept, PaperRowsOf, OthersKept, DocumentsKept, Ids
<1>5. \A r \in Requests : IngestGrows(r)
  BY DEF IngestGrows, OthersKept
<1> QED
  BY <1>1, <1>3, <1>4, <1>5 DEF Grows, OthersKept, DocumentsKept

LEMMA ApprovalsStand ==
    ASSUME PaperInv, NEW m, Goes(m), OthersKept, db'.approval \in [Ids -> ApprovalRecord \cup {Nil}],
           \A a \in Ids : ApprovalChanges(m, a)
    PROVE  Stands(m)
<1>1. Grows(m)
  BY ApprovalsGrow DEF ApprovalChanges
<1>2. AllAgree'
  BY <1>1, AllAgreeStay DEF OthersKept
<1>3. References'
  BY <1>1, ReferencesStep DEF OthersKept, DocumentsKept, ApprovalChanges
<1>4. ASSUME NEW kind PROVE ConsumedKept(kind)
  <2>1. ASSUME NEW a \in Ids
        PROVE  (db'.approval[a] # Nil /\ db'.approval[a].kind = kind /\ db'.approval[a].state = "CONSUMED")
               <=> (db.approval[a] # Nil /\ db.approval[a].kind = kind /\ db.approval[a].state = "CONSUMED")
    BY DEF ApprovalChanges, ApprovalGrows
  <2> QED
    BY <2>1 DEF ConsumedKept, Approvals
<1>5. AllSpent'
  BY <1>1, <1>4, SpentStep DEF OthersKept, DocumentsKept
<1> QED
  BY <1>1, <1>2, <1>3, <1>5 DEF Stands

LEMMA ApprovalKept ==
    ASSUME PaperInv, NEW m, NEW a \in Ids, db'.approval[a] = db.approval[a]
    PROVE  ApprovalChanges(m, a)
<1>1. ApprovalGrows(a) /\ db.approval[a] \in ApprovalRecord \cup {Nil}
  BY KeptRowsGrow DEF PaperInv, PaperShape
<1> QED
  BY <1>1 DEF ApprovalChanges

\* One row of approvals, or none, is written.
LEMMA OneApprovalStands ==
    ASSUME PaperInv, NEW m, Goes(m), NEW a \in Ids, NEW new \in ApprovalRecord, db' = [db EXCEPT !.approval[a] = new],
           db'.approval[a] = new => ApprovalChanges(m, a)
    PROVE  Stands(m) /\ OthersKept /\ db'.approval = [db.approval EXCEPT ![a] = new]
<1>1. OthersKept /\ db'.approval = [db.approval EXCEPT ![a] = new]
  BY DEF PaperInv, PaperShape, OthersKept, DocumentsKept, PaperThere
<1>2. db'.approval \in [Ids -> ApprovalRecord \cup {Nil}]
  BY <1>1 DEF PaperInv, PaperShape
<1>3. db'.approval[a] = new /\ \A b \in Ids : b # a => db'.approval[b] = db.approval[b]
  BY <1>1 DEF PaperInv, PaperShape
<1>4. \A b \in Ids : ApprovalChanges(m, b)
  BY <1>3, ApprovalKept
<1> QED
  BY <1>1, <1>2, <1>4, ApprovalsStand

LEMMA Creating ==
    ASSUME PaperInv, NEW m \in Requests, Open(m), Goes(m), Create(m)
    PROVE  Stands(m) /\ PaperStatement(m)'
<1> DEFINE new == Approval(req[m].arg.kind, req[m].arg.target, "PENDING")
<1>1. /\ req'[m].do = req[m].do /\ req'[m].arg = req[m].arg /\ req'[m].at = "ok" /\ db' = [db EXCEPT !.approval[m] = new]
      /\ At(m, "createApproval")
  BY DoneBy DEF Create, End
<1>2. CalledFor("createApproval", req[m].arg)
  BY <1>1, NextAtHome DEF At, PaperHandlers
<1>3. /\ req[m].arg.kind \in {"finalize", "submit", "execute"} /\ req[m].arg.target \in Ids
      /\ TargetThere(req[m].arg.kind, req[m].arg.target)
  BY <1>2 DEF CalledFor
<1>4. PaperRowsOf(m) = {Nil} /\ m \in Ids
  BY <1>1, NothingYet DEF At
<1>5. db.approval[m] = Nil /\ new # Nil /\ new \in ApprovalRecord
  <2>1. new \in ApprovalRecord
    BY <1>3 DEF Approval, ApprovalRecord
  <2>2. db.approval[m] = Nil
    BY <1>4 DEF PaperRowsOf
  <2> QED
    BY <2>1, <2>2, ApprovalAssumption
<1>6. new.kind = req[m].arg.kind /\ new.target = req[m].arg.target /\ new.state = "PENDING"
  BY DEF Approval
<1>7. db'.version = db.version /\ db'.draft = db.draft /\ db'.run = db.run
  BY <1>1 DEF PaperInv, PaperShape
<1> HIDE DEF new
<1>8. db'.approval[m] = new => RefersRight(m)'
  BY <1>3, <1>6, <1>7 DEF RefersRight, TargetThere
<1>9. db'.approval[m] = new => ApprovalChanges(m, m)
  BY <1>5, <1>6, <1>8 DEF ApprovalChanges, ApprovalGrows
<1>10. Stands(m) /\ OthersKept
  BY <1>1, <1>4, <1>5, <1>9, OneApprovalStands
<1> QED
  BY <1>1, <1>10, EndsKept DEF Ends, OthersKept, DocumentsKept

LEMMA ApprovalBumped ==
    ASSUME NEW row \in ApprovalRecord
    PROVE  /\ Bumped(row) \in ApprovalRecord /\ Bumped(row) # Nil /\ Bumped(row).rev = row.rev + 1 /\ row.rev \in Nat
           /\ Bumped(row).state = row.state /\ Bumped(row).kind = row.kind /\ Bumped(row).target = row.target
<1>1. /\ Bumped(row) \in ApprovalRecord /\ Bumped(row).rev = row.rev + 1 /\ Bumped(row).state = row.state
      /\ Bumped(row).kind = row.kind /\ Bumped(row).target = row.target /\ row.rev \in Nat
  BY DEF Bumped, ApprovalRecord
<1> QED
  BY <1>1, ApprovalAssumption

LEMMA DecidesRow ==
    ASSUME PaperInv, NEW m \in Requests, Open(m), Goes(m), DecideRow(m)
    PROVE  Stands(m) /\ PaperStatement(m)'
<1> DEFINE a == req[m].arg.id  row == req[m].v
           to == IF row.late THEN "EXPIRED" ELSE req[m].arg.to
           said == [db.approval[a] EXCEPT !.state = to]  new == Bumped(said)
<1>1. /\ req'[m].do = req[m].do /\ req'[m].arg = req[m].arg /\ req'[m].at \in {"ok", "refused"}
      /\ At(m, "decideRow") /\ db' = IF Same("approval", a, row) THEN [db EXCEPT !.approval[a] = new] ELSE db
  BY DoneBy DEF DecideRow
<1>2. CASE ~Same("approval", a, row)
  BY <1>1, <1>2, PlainWell, UnchangedIsSame DEF Ends
<1>3. CASE Same("approval", a, row)
  <2>1. req[m].do = "decide"
    BY <1>1, NextAtHome DEF AtHome, At
  <2>2. a \in Ids /\ db.approval[a] # Nil /\ db.approval[a].kind # "card" /\ to \in {"APPROVED", "DENIED", "EXPIRED"}
    BY <2>1, NextAtHome DEF CalledFor
  <2>3. db.approval[a] \in ApprovalRecord /\ db.approval[a].state \in {"PENDING", "EXPIRED"}
    BY <1>1, <1>3, <2>2 DEF PaperInv, PaperShape, PaperStatement, HasRead, Same
  <2>4. /\ new \in ApprovalRecord /\ new # Nil /\ new.rev = db.approval[a].rev + 1 /\ db.approval[a].rev \in Nat
        /\ new.state = to /\ new.kind = db.approval[a].kind /\ new.target = db.approval[a].target
    <3>1. /\ said \in ApprovalRecord /\ said.state = to /\ said.rev = db.approval[a].rev
          /\ said.kind = db.approval[a].kind /\ said.target = db.approval[a].target
      <4> HIDE DEF to
      <4> QED
        BY <2>2, <2>3 DEF ApprovalRecord
    <3> HIDE DEF said
    <3> QED
      BY <3>1, ApprovalBumped
  <2>5. db' = [db EXCEPT !.approval[a] = new]
    BY <1>1, <1>3
  <2> HIDE DEF new, to
  <2>6. db'.approval[a] = new => ApprovalChanges(m, a)
    BY <2>2, <2>3, <2>4 DEF ApprovalChanges, ApprovalGrows
  <2>7. Stands(m) /\ OthersKept
    BY <2>2, <2>4, <2>5, <2>6, OneApprovalStands
  <2> QED
    BY <1>1, <2>7, EndsKept DEF Ends, OthersKept, DocumentsKept
<1> QED
  BY <1>2, <1>3

\* What is written of a card is no matter.
LEMMA CardStands ==
    ASSUME PaperInv, NEW m, Goes(m), NEW a \in Ids, db.approval[a] # Nil, db.approval[a].kind = "card",
           db.approval[a].state # "CONSUMED",
           NEW new \in ApprovalRecord, new.kind = "card", new.target = db.approval[a].target, new.state # "CONSUMED",
           db' = [db EXCEPT !.approval[a] = new]
    PROVE  Stands(m) /\ OthersKept /\ db'.approval = [db.approval EXCEPT ![a] = new]
<1>1. db'.approval[a] = new => ApprovalChanges(m, a)
  BY ApprovalAssumption DEF ApprovalChanges, ApprovalGrows
<1> QED
  BY <1>1, OneApprovalStands

LEMMA Answering ==
    ASSUME PaperInv, NEW m \in Requests, Open(m), Goes(m), Answer(m)
    PROVE  Stands(m) /\ PaperStatement(m)'
<1> DEFINE a == req[m].arg.id  now == db.approval[a]
           late == [now EXCEPT !.state = "EXPIRED"]
           said == [now EXCEPT !.state = Chosen(m), !.option = req[m].arg.option]
<1>1. At(m, "answer")
  BY DEF Answer
<1>2. req[m].do = "resolve"
  BY <1>1, NextAtHome DEF AtHome, At
<1>3. a \in Ids /\ now # Nil /\ now.kind = "card" /\ req[m].arg.option \in {"go", "reject"}
  BY <1>2, NextAtHome DEF CalledFor
<1>4. now \in ApprovalRecord
  BY <1>3 DEF PaperInv, PaperShape
<1>5. CASE Refuse(m)
  BY <1>5, RefusesWell
<1>6. CASE req[m].v.late
  <2>1. /\ req'[m].do = req[m].do /\ req'[m].arg = req[m].arg /\ req'[m].at = "refused"
        /\ IsPending(now) => db' = [db EXCEPT !.approval[a].state = "EXPIRED"]
        /\ ~IsPending(now) => db' = db
    BY <1>6, DoneBy DEF Answer
  <2>2. CASE ~IsPending(now)
    BY <2>1, <2>2, PlainWell, UnchangedIsSame DEF Ends
  <2>3. CASE IsPending(now)
    <3>1. late \in ApprovalRecord /\ late.kind = "card" /\ late.target = now.target /\ late.state = "EXPIRED"
      BY <1>3, <1>4 DEF ApprovalRecord
    <3>2. db' = [db EXCEPT !.approval[a] = late]
      BY <2>1, <2>3
    <3> HIDE DEF late
    <3>3. Stands(m) /\ OthersKept
      BY <1>3, <2>3, <3>1, <3>2, CardStands DEF IsPending
    <3> QED
      BY <2>1, <3>3, EndsKept DEF Ends, OthersKept, DocumentsKept
  <2> QED
    BY <2>2, <2>3
<1>7. CASE ~req[m].v.late /\ ~Refuse(m)
  <2>1. /\ req'[m].do = req[m].do /\ req'[m].arg = req[m].arg /\ req'[m].at = "storeJob"
        /\ db' = [db EXCEPT !.approval[a] = Bumped(said)] /\ IsPending(now)
    BY <1>7, DoneBy DEF Answer
  <2>2. said \in ApprovalRecord /\ said.kind = "card" /\ said.target = now.target /\ said.state \in {"REJECTED", "APPROVED"}
    BY <1>3, <1>4 DEF ApprovalRecord, Chosen
  <2> HIDE DEF said
  <2>3. /\ Bumped(said) \in ApprovalRecord /\ Bumped(said).kind = "card" /\ Bumped(said).target = now.target
        /\ Bumped(said).state \in {"REJECTED", "APPROVED"}
    BY <2>2 DEF ApprovalRecord, Bumped
  <2>4. Stands(m) /\ OthersKept /\ db'.approval = [db.approval EXCEPT ![a] = Bumped(said)]
    BY <1>3, <2>1, <2>3, CardStands DEF IsPending
  <2>5. PaperRowsOf(m) = {Nil} /\ m \in Ids
    BY <1>1, NothingYet DEF At
  <2>6. PaperRowsOf(m)' = PaperRowsOf(m)
    BY <1>3, <2>4, <2>5 DEF PaperRowsOf, OthersKept, DocumentsKept, PaperInv, PaperShape
  <2>7. AtHome("resolve", "storeJob") /\ "storeJob" \notin StatementsOfRead \cup Ends \cup {"new"}
    BY DEF AtHome, PaperHandlers, DocumentWriters, Spenders, Reporters, StatementsOfRead, Ends
  <2> QED
    BY <1>1, <1>2, <2>1, <2>4, <2>6, <2>7, GoesOnPlain DEF At, OthersKept
<1> QED
  BY <1>5, <1>6, <1>7

LEMMA Undoing ==
    ASSUME PaperInv, NEW m \in Requests, Open(m), Goes(m), Undo(m)
    PROVE  Stands(m) /\ PaperStatement(m)'
<1> DEFINE a == req[m].arg.id  now == db.approval[a]
           back == [now EXCEPT !.state = "PENDING", !.option = Nil]
<1>1. /\ req'[m].do = req[m].do /\ req'[m].arg = req[m].arg /\ req'[m].at = "refused" /\ db' = Unanswered(m)
      /\ At(m, "undo")
  BY DoneBy DEF Undo
<1>2. req[m].do = "resolve"
  BY <1>1, NextAtHome DEF AtHome, At
<1>3. a \in Ids /\ now # Nil /\ now.kind = "card"
  BY <1>2, NextAtHome DEF CalledFor
<1>4. now \in ApprovalRecord
  BY <1>3 DEF PaperInv, PaperShape
<1>5. CASE now.state # Chosen(m)
  BY <1>1, <1>5, PlainWell, UnchangedIsSame DEF Ends, Unanswered
<1>6. CASE now.state = Chosen(m)
  <2>1. back \in ApprovalRecord /\ back.kind = "card" /\ back.target = now.target /\ back.state = "PENDING"
    BY <1>3, <1>4 DEF ApprovalRecord
  <2>2. db' = [db EXCEPT !.approval[a] = back]
    BY <1>1, <1>3, <1>6 DEF Unanswered, PaperInv, PaperShape
  <2> HIDE DEF back
  <2>3. Stands(m) /\ OthersKept
    BY <1>3, <1>6, <2>1, <2>2, CardStands DEF Chosen
  <2> QED
    BY <1>1, <2>3, EndsKept DEF Ends, OthersKept, DocumentsKept
<1> QED
  BY <1>5, <1>6

\* Statements and steps that write many rows of approvals.
LEMMA ManyApprovalsStand ==
    ASSUME PaperInv, NEW m, Goes(m), NEW new, db' = [db EXCEPT !.approval = [a \in Ids |-> new[a]]],
           \A a \in Ids : db'.approval[a] = new[a] => ApprovalChanges(m, a)
    PROVE  Stands(m) /\ OthersKept
<1>1. OthersKept /\ db'.approval = [a \in Ids |-> new[a]]
  BY DEF PaperInv, PaperShape, OthersKept, DocumentsKept, PaperThere
<1>2. \A a \in Ids : ApprovalChanges(m, a)
  BY <1>1
<1>3. db'.approval \in [Ids -> ApprovalRecord \cup {Nil}]
  BY <1>1, <1>2 DEF ApprovalChanges
<1> QED
  BY <1>1, <1>2, <1>3, ApprovalsStand

LEMMA Telling ==
    ASSUME PaperInv, NEW m \in Requests, Open(m), Goes(m), TellTurn(m)
    PROVE  Stands(m) /\ PaperStatement(m)'
<1>1. CASE Refuse(m)
  BY <1>1, RefusesWell
<1>2. CASE ~Refuse(m)
  <2> DEFINE new == [a \in Ids |-> IF a \in Approvals("card", "PENDING")
                                   THEN Bumped([db.approval[a] EXCEPT !.state = "REJECTED"]) ELSE db.approval[a]]
  <2>1. /\ req'[m].do = req[m].do /\ req'[m].arg = req[m].arg /\ req'[m].at = "ok"
        /\ db' = [db EXCEPT !.approval = new]
    BY <1>2, DoneBy DEF TellTurn, End, PaperInv, PaperShape
  <2>2. ASSUME NEW a \in Ids, db'.approval[a] = new[a] PROVE ApprovalChanges(m, a)
    <3>1. CASE a \notin Approvals("card", "PENDING")
      BY <2>2, <3>1, ApprovalKept
    <3>2. CASE a \in Approvals("card", "PENDING")
      <4>1. db.approval[a] \in ApprovalRecord /\ db.approval[a].kind = "card" /\ db.approval[a].state = "PENDING"
        BY <3>2 DEF Approvals, PaperInv, PaperShape
      <4> DEFINE said == [db.approval[a] EXCEPT !.state = "REJECTED"]  told == Bumped(said)
      <4>2. /\ told \in ApprovalRecord /\ told # Nil /\ told.state = "REJECTED"
            /\ told.kind = db.approval[a].kind /\ told.target = db.approval[a].target
        <5>1. /\ said \in ApprovalRecord /\ said.state = "REJECTED"
              /\ said.kind = db.approval[a].kind /\ said.target = db.approval[a].target
          BY <4>1 DEF ApprovalRecord
        <5> HIDE DEF said
        <5> QED
          BY <5>1, ApprovalBumped
      <4>3. db'.approval[a] = told
        BY <2>2, <3>2
      <4> HIDE DEF told
      <4> QED
        BY <3>2, <4>1, <4>2, <4>3 DEF ApprovalChanges, ApprovalGrows, Approvals
    <3> QED
      BY <3>1, <3>2
  <2> HIDE DEF new
  <2>3. db' = [db EXCEPT !.approval = [a \in Ids |-> new[a]]]
    BY <2>1 DEF new
  <2>4. Stands(m) /\ OthersKept
    BY <2>2, <2>3, ManyApprovalsStand
  <2> QED
    BY <2>1, <2>4, EndsKept DEF Ends, OthersKept, DocumentsKept
<1> QED
  BY <1>1, <1>2

LEMMA LapseStands ==
    ASSUME PaperInv, Lapse
    PROVE  Goes(Nil) /\ Stands(Nil)
<1>1. Goes(Nil)
  BY DEF Lapse, Goes
<1>2. PICK a \in Ids : db.approval[a] # Nil /\ db' = [db EXCEPT !.approval[a].late = TRUE]
  BY DEF Lapse
<1> DEFINE lapsed == [db.approval[a] EXCEPT !.late = TRUE]
<1>3. db.approval[a] \in ApprovalRecord
  BY <1>2 DEF PaperInv, PaperShape
<1>4. /\ lapsed \in ApprovalRecord /\ lapsed.rev = db.approval[a].rev /\ lapsed.state = db.approval[a].state
      /\ lapsed.kind = db.approval[a].kind /\ lapsed.target = db.approval[a].target /\ lapsed.rev \in Nat
  BY <1>3 DEF ApprovalRecord
<1>5. db' = [db EXCEPT !.approval[a] = lapsed]
  BY <1>2 DEF PaperInv, PaperShape
<1> HIDE DEF lapsed
<1>6. db'.approval[a] = lapsed => ApprovalChanges(Nil, a)
  <2>1. db.approval[a] # Nil
    BY <1>2
  <2> QED
    BY <2>1, <1>4, ApprovalAssumption DEF ApprovalChanges, ApprovalGrows
<1> QED
  BY <1>1, <1>4, <1>5, <1>6, OneApprovalStands

LEMMA SweepStands ==
    ASSUME PaperInv, Sweep
    PROVE  Goes(Nil) /\ Stands(Nil)
<1>1. Goes(Nil)
  BY DEF Sweep, Goes
<1> DEFINE due == {a \in Ids : db.approval[a] # Nil /\ IsPending(db.approval[a]) /\ db.approval[a].late}
           new == [a \in Ids |-> IF a \notin due THEN db.approval[a] ELSE [db.approval[a] EXCEPT !.state = "EXPIRED"]]
<1>2. db' = [db EXCEPT !.approval = new]
  BY DEF Sweep, PaperInv, PaperShape
<1>3. ASSUME NEW a \in Ids, db'.approval[a] = new[a] PROVE ApprovalChanges(Nil, a)
  <2>1. CASE a \notin due
    BY <1>3, <2>1, ApprovalKept
  <2>2. CASE a \in due
    <3>1. db.approval[a] \in ApprovalRecord /\ db.approval[a].state = "PENDING"
      BY <2>2 DEF PaperInv, PaperShape, IsPending
    <3> DEFINE swept == [db.approval[a] EXCEPT !.state = "EXPIRED"]
    <3>2. /\ swept \in ApprovalRecord /\ swept.rev = db.approval[a].rev /\ swept.state = "EXPIRED"
          /\ swept.kind = db.approval[a].kind /\ swept.target = db.approval[a].target /\ swept.rev \in Nat
      BY <3>1 DEF ApprovalRecord
    <3>3. db'.approval[a] = swept
      BY <1>3, <2>2
    <3> HIDE DEF swept
    <3> QED
      BY <2>2, <3>1, <3>2, <3>3, ApprovalAssumption DEF ApprovalChanges, ApprovalGrows
  <2> QED
    BY <2>1, <2>2
<1> HIDE DEF new
<1>4. db' = [db EXCEPT !.approval = [a \in Ids |-> new[a]]]
  BY <1>2 DEF new
<1> QED
  BY <1>1, <1>3, <1>4, ManyApprovalsStand

-----------------------------------------------------------------------------
\* The row of a document is written; its versions stay.
LEMMA RowAgrees ==
    ASSUME PaperInv, NEW m, Goes(m), Grows(m), NEW d \in Ids, db.document[d] # Nil, NEW new, db'.document[d] = new,
           VersionsOf(d)' = VersionsOf(d),
           new.status # "ARCHIVED" => (new.status = "FINALIZED" <=> new.final # Nil),
           new.final = Nil \/ new.final = db.document[d].final \/ FinalIsTrue(d)',
           new.latest = db.document[d].latest \/ (new.latest = Nil /\ Unfilled(d)')
    PROVE  Agrees(d)'
<1>0. Agrees(d) /\ db.document[d] \in DocumentRecord
  BY DEF PaperInv, AllAgree, PaperShape
<1>1. \A w \in VersionsOf(d) : db'.version[w] = db.version[w] /\ w \in Ids
  BY VersionKept
<1>2. FinalIsTrue(d)'
  <2> SUFFICES ASSUME new.final # Nil, new.final = db.document[d].final PROVE FinalIsTrue(d)'
    BY DEF FinalIsTrue
  <2>1. FinalIsTrue(d) /\ db.document[d].final \in Ids /\ new.final = db.document[d].final
    BY <1>0 DEF Agrees, DocumentRecord
  <2> QED
    BY <2>1, FinalStays DEF FinalIsTrue
<1>3. (Unfilled(d) \/ Newest(d))'
  <2> SUFFICES ASSUME new.latest = db.document[d].latest PROVE (Unfilled(d) \/ Newest(d))'
    OBVIOUS
  <2>1. CASE Unfilled(d)
    BY <2>1, UnfilledStays DEF Unfilled
  <2>2. CASE Newest(d)
    <3>1. db.document[d].latest # Nil => db'.version[db.document[d].latest] = db.version[db.document[d].latest]
      BY <1>0, <1>1 DEF Agrees
    <3>2. Newest(d)'
      BY <1>1, <2>2, <3>1 DEF Newest
    <3> QED
      BY <3>2
  <2> QED
    BY <1>0, <2>1, <2>2 DEF Agrees
<1>4. /\ db'.document[d].latest # Nil => db'.document[d].latest \in VersionsOf(d)'
      /\ VersionsOf(d)' # {} => \E w \in VersionsOf(d)' : db'.version[w].number = 1
      /\ db'.document[d].status # "ARCHIVED" => (db'.document[d].status = "FINALIZED" <=> db'.document[d].final # Nil)
  BY <1>0, <1>1 DEF Agrees
<1> QED
  BY <1>2, <1>3, <1>4 DEF Agrees

DocumentRowWritten(d, new) ==
    /\ db'.document = [db.document EXCEPT ![d] = new]
    /\ db'.version = db.version /\ db'.finalized = db.finalized /\ db'.approval = db.approval
    /\ db'.application = db.application /\ db'.draft = db.draft /\ db'.submission = db.submission /\ db'.run = db.run
    /\ PaperThere /\ db'.ingest = db.ingest

LEMMA DocumentRowGrows ==
    ASSUME PaperInv, NEW m \in Requests, Open(m), req[m].do \in DocumentWriters, NEW d \in Ids, db.document[d] # Nil,
           NEW new \in DocumentRecord, new.rev = db.document[d].rev + 1, DocumentRowWritten(d, new)
    PROVE  Grows(m)
<1>0. db'.document \in [Ids -> DocumentRecord \cup {Nil}] /\ db'.document[d] = new
      /\ \A e \in Ids : e # d => db'.document[e] = db.document[e]
  BY DEF PaperInv, PaperShape, DocumentRowWritten
<1>1. PaperShape'
  BY <1>0 DEF PaperInv, PaperShape, PaperThere, DocumentRowWritten
<1>2. \A e : VersionsOf(e)' = VersionsOf(e)
  BY DEF VersionsOf, DocumentRowWritten
<1>3. \A i \in Ids : /\ i # d => DocumentGrows(m, i)
                     /\ ApprovalGrows(i) /\ ApplicationGrows(m, i) /\ RunGrows(m, i)
  BY <1>0, <1>2, KeptRowsGrow DEF DocumentRowWritten
<1>4. db.document[d].rev \in Nat /\ new # Nil
  BY DocumentAssumption DEF PaperInv, PaperShape, DocumentRecord
<1>5. DocumentGrows(m, d)
  BY <1>0, <1>4 DEF DocumentGrows
<1>6. NamesKept(m)
  BY <1>0, <1>4 DEF NamesKept, PaperRowsOf, DocumentRowWritten, Ids
<1>7. \A r \in Requests : IngestGrows(r)
  BY DEF IngestGrows, DocumentRowWritten
<1> QED
  BY <1>1, <1>3, <1>5, <1>6, <1>7 DEF Grows, DocumentRowWritten

LEMMA DocumentRowStands ==
    ASSUME PaperInv, NEW m \in Requests, Open(m), Goes(m), ~At(m, "ingestJob"), req[m].do \in DocumentWriters,
           NEW d \in Ids, db.document[d] # Nil,
           NEW new \in DocumentRecord, new.rev = db.document[d].rev + 1, db' = [db EXCEPT !.document[d] = new],
           req'[m].do = req[m].do, req'[m].arg = req[m].arg, req'[m].at \in Ends,
           new.status # "ARCHIVED" => (new.status = "FINALIZED" <=> new.final # Nil),
           new.final = Nil \/ new.final = db.document[d].final,
           new.latest = db.document[d].latest \/ (new.latest = Nil /\ (db'.document[d] = new => Unfilled(d)'))
    PROVE  Stands(m) /\ PaperStatement(m)'
<1>1. DocumentRowWritten(d, new)
  BY DEF PaperInv, PaperShape, DocumentRowWritten, PaperThere
<1>2. Grows(m)
  BY <1>1, DocumentRowGrows
<1>3. db'.document[d] = new /\ (\A e \in Ids : e # d => db'.document[e] = db.document[e]) /\ new # Nil
  BY <1>1, DocumentAssumption DEF PaperInv, PaperShape, DocumentRowWritten
<1>4. \A e : VersionsOf(e)' = VersionsOf(e)
  BY <1>1 DEF VersionsOf, DocumentRowWritten
<1>5. Agrees(d)'
  BY <1>2, <1>3, <1>4, RowAgrees
<1>6. ASSUME NEW e \in Ids, e # d, db'.document[e] # Nil PROVE Agrees(e)'
  BY <1>2, <1>3, <1>4, <1>6, AgreesStays
<1>7. AllAgree'
  BY <1>5, <1>6 DEF AllAgree
<1>8. \A i \in Ids : db.document[i] # Nil => db'.document[i] # Nil
  BY <1>3
<1>9. References'
  BY <1>1, <1>2, ReferencesStep DEF DocumentRowWritten
<1>10. \A kind : ConsumedKept(kind)
  BY <1>1 DEF ConsumedKept, Approvals, DocumentRowWritten
<1>11. AllSpent'
  BY <1>1, <1>2, <1>10, SpentStep DEF DocumentRowWritten
<1>12. Stands(m)
  BY <1>2, <1>7, <1>9, <1>11 DEF Stands
<1>13. db'.document[m] = db.document[m]
  BY <1>3, NothingYet DEF PaperRowsOf
<1> QED
  BY <1>1, <1>12, <1>13, EndsKept DEF DocumentRowWritten

LEMMA BumpedDocument ==
    ASSUME NEW row \in DocumentRecord
    PROVE  /\ Bumped(row) \in DocumentRecord /\ Bumped(row) # Nil /\ Bumped(row).rev = row.rev + 1 /\ row.rev \in Nat
           /\ Bumped(row).status = row.status /\ Bumped(row).latest = row.latest /\ Bumped(row).final = row.final
<1>1. /\ Bumped(row) \in DocumentRecord /\ Bumped(row).rev = row.rev + 1 /\ row.rev \in Nat
      /\ Bumped(row).status = row.status /\ Bumped(row).latest = row.latest /\ Bumped(row).final = row.final
  BY DEF Bumped, DocumentRecord
<1> QED
  BY <1>1, DocumentAssumption

LEMMA ReopenedDocument ==
    ASSUME NEW row \in DocumentRecord
    PROVE  /\ Reopened(row) \in DocumentRecord /\ Reopened(row).rev = row.rev
           /\ Reopened(row).final = Nil /\ Reopened(row).latest = row.latest
           /\ Reopened(row).status # "FINALIZED"
           /\ Reopened(row).status = "ARCHIVED" <=> row.status = "ARCHIVED"
<1> DEFINE status == IF row.status = "FINALIZED" THEN "DRAFT" ELSE row.status
<1>1. Reopened(row) = [row EXCEPT !.final = Nil, !.status = status]
  BY DEF Reopened, DocumentRecord
<1>2. status \in {"DRAFT", "ARCHIVED"} /\ (status = "ARCHIVED" <=> row.status = "ARCHIVED")
  BY DEF DocumentRecord
<1> HIDE DEF status
<1> QED
  BY <1>1, <1>2 DEF DocumentRecord

\* m is to write the document it has read.
LEMMA HoldsDocument ==
    ASSUME PaperInv, NEW m \in Requests, Open(m), req[m].at \in {"patchRow", "saveVersion", "archiveRow", "convertRow"}
    PROVE  LET d == req[m].arg.id IN
           /\ d \in Ids /\ db.document[d] # Nil /\ db.document[d] \in DocumentRecord
           /\ req[m].do \in DocumentWriters /\ DocumentHeld(d, req[m].v) /\ Agrees(d)
           /\ req[m].at # "convertRow" => Mutable(req[m].v)
           /\ ~At(m, "ingestJob")
<1> DEFINE d == req[m].arg.id
<1>1. req[m].do \in DocumentWriters
  BY NextAtHome DEF AtHome, DocumentWriters, Editors
<1>2. d \in Ids /\ db.document[d] # Nil
  BY <1>1, NextAtHome DEF CalledFor
<1>3. db.document[d] \in DocumentRecord /\ Agrees(d)
  BY <1>2 DEF PaperInv, PaperShape, AllAgree
<1>4. DocumentHeld(d, req[m].v) /\ (req[m].at # "convertRow" => Mutable(req[m].v))
  BY DEF PaperInv, PaperStatement, HasRead, MutableHeld, At
<1> QED
  BY <1>1, <1>2, <1>3, <1>4 DEF At

LEMMA Patching ==
    ASSUME PaperInv, NEW m \in Requests, Open(m), Goes(m), PatchRow(m)
    PROVE  Stands(m) /\ PaperStatement(m)'
<1> DEFINE d == req[m].arg.id  v == req[m].v  row == IF req[m].arg.template THEN Reopened(v) ELSE v
<1>1. At(m, "patchRow") /\ Save(m, "document", row)
  BY DEF PatchRow
<1>2. /\ d \in Ids /\ db.document[d] # Nil /\ db.document[d] \in DocumentRecord
      /\ req[m].do \in DocumentWriters /\ DocumentHeld(d, v) /\ Agrees(d) /\ Mutable(v) /\ ~At(m, "ingestJob")
  BY <1>1, HoldsDocument DEF At
<1>3. CASE Refuse(m)
  BY <1>3, RefusesWell
<1>4. CASE ~Refuse(m)
  <2>1. /\ Same("document", d, row) /\ End(m, [db EXCEPT !["document"][d] = Bumped(row)])
    BY <1>1, <1>4 DEF Save
  <2>2. v \in DocumentRecord /\ v.status # "ARCHIVED"
    BY <1>2 DEF DocumentHeld, Mutable
  <2>3. /\ row \in DocumentRecord /\ row.rev = v.rev /\ row.latest = v.latest
        /\ row.final = Nil \/ (row.final = v.final /\ row.status = v.status)
        /\ row.final = Nil => row.status # "FINALIZED" \/ row = v
    <3>1. CASE req[m].arg.template
      <4>1. row = Reopened(v)
        BY <3>1
      <4> QED
        BY <2>2, <4>1, ReopenedDocument
    <3>2. CASE ~req[m].arg.template
      <4>1. row = v
        BY <3>2
      <4> QED
        BY <2>2, <4>1
    <3> QED
      BY <3>1, <3>2
  <2> HIDE DEF row
  <2>4. row.rev = db.document[d].rev
    BY <2>1 DEF Same
  <2>5. /\ req'[m].do = req[m].do /\ req'[m].arg = req[m].arg /\ req'[m].at = "ok"
        /\ db' = [db EXCEPT !.document[d] = Bumped(row)]
    BY <2>1, DoneBy DEF End
  <2>6. /\ Bumped(row) \in DocumentRecord /\ Bumped(row).rev = row.rev + 1
        /\ Bumped(row).status = row.status /\ Bumped(row).latest = row.latest /\ Bumped(row).final = row.final
    BY <2>3, BumpedDocument
  <2>7. \/ db.document[d] = v
        \/ /\ v.latest = Nil /\ db.document[d] = [v EXCEPT !.latest = d]
           /\ VersionsOf(d) = {d} /\ d \in Requests /\ db.ingest[d] # Nil
    BY <1>2, <2>3, <2>4 DEF DocumentHeld
  <2>8. db.document[d].final = v.final /\ db.document[d].status = v.status
    BY <2>2, <2>7 DEF DocumentRecord
  <2>9. v.status = "FINALIZED" <=> v.final # Nil
    BY <1>2, <2>2, <2>8 DEF Agrees
  <2>10. Bumped(row).status = "FINALIZED" <=> Bumped(row).final # Nil
    BY <2>3, <2>6, <2>9
  <2>11. Bumped(row).final = Nil \/ Bumped(row).final = db.document[d].final
    BY <2>3, <2>6, <2>8
  <2>12. \/ Bumped(row).latest = db.document[d].latest
         \/ Bumped(row).latest = Nil /\ (db'.document[d] = Bumped(row) => Unfilled(d)')
    <3>1. CASE db.document[d] = v
      BY <2>3, <2>6, <3>1
    <3>2. CASE /\ v.latest = Nil
               /\ VersionsOf(d) = {d} /\ d \in Requests /\ db.ingest[d] # Nil
      <4>1. db'.version = db.version /\ db'.ingest = db.ingest
        BY <2>5 DEF PaperInv, PaperShape
      <4>2. VersionsOf(d)' = {d}
        <5>1. VersionsOf(d)' = VersionsOf(d)
          BY <2>5, <4>1 DEF VersionsOf
        <5> QED
          BY <3>2, <5>1
      <4>3. req[m].do = "patchDocument"
        BY <1>1, NextAtHome DEF AtHome, At
      <4>4. m \in Doing("patchDocument")' /\ At(m, "ok")' /\ req'[m].arg.id = d
        BY <2>5, <4>3 DEF Doing, At
      <4>5. db'.document[d] = Bumped(row) => Unfilled(d)'
        BY <2>3, <2>6, <3>2, <4>1, <4>2, <4>4 DEF Unfilled
      <4> QED
        BY <2>3, <2>6, <3>2, <4>5
    <3> QED
      BY <2>7, <3>1, <3>2
  <2>13. Bumped(row).rev = db.document[d].rev + 1 /\ req'[m].at \in Ends
    BY <2>4, <2>5, <2>6 DEF Ends
  <2> QED
    BY <1>2, <2>5, <2>6, <2>10, <2>11, <2>12, <2>13, DocumentRowStands
<1> QED
  BY <1>3, <1>4

LEMMA Archiving ==
    ASSUME PaperInv, NEW m \in Requests, Open(m), Goes(m), ArchiveRow(m) \/ ConvertRow(m)
    PROVE  Stands(m) /\ PaperStatement(m)'
<1> DEFINE d == req[m].arg.id  old == db.document[d]  shelved == [old EXCEPT !.status = "ARCHIVED"]
<1>1. req[m].at \in {"archiveRow", "convertRow"}
  BY DEF ArchiveRow, ConvertRow, At
<1>2. /\ d \in Ids /\ old # Nil /\ old \in DocumentRecord /\ req[m].do \in DocumentWriters /\ Agrees(d)
      /\ ~At(m, "ingestJob")
  BY <1>1, HoldsDocument
<1>3. CASE Refuse(m)
  BY <1>3, RefusesWell
<1>4. CASE ArchiveRow(m) /\ ~Refuse(m)
  <2>1. End(m, [db EXCEPT !["document"][d] = Bumped([@ EXCEPT !["status"] = "ARCHIVED"])])
    BY <1>4 DEF ArchiveRow, SetColumn
  <2>2. End(m, [db EXCEPT !.document[d] = Bumped(shelved)])
    BY <1>2, <2>1 DEF PaperInv, PaperShape
  <2>3. /\ shelved \in DocumentRecord /\ shelved.rev = old.rev /\ shelved.status = "ARCHIVED" /\ shelved.final = old.final
        /\ shelved.latest = old.latest
    BY <1>2 DEF DocumentRecord
  <2> HIDE DEF shelved
  <2>4. /\ Bumped(shelved) \in DocumentRecord /\ Bumped(shelved).rev = old.rev + 1 /\ Bumped(shelved).status = "ARCHIVED"
        /\ Bumped(shelved).final = old.final /\ Bumped(shelved).latest = old.latest
    BY <2>3, BumpedDocument
  <2>5. /\ req'[m].do = req[m].do /\ req'[m].arg = req[m].arg /\ req'[m].at \in Ends
        /\ db' = [db EXCEPT !.document[d] = Bumped(shelved)]
    BY SMTT(30), <2>2, DoneBy DEF End, Ends
  <2> QED
    BY <1>2, <2>4, <2>5, DocumentRowStands
<1>5. CASE ConvertRow(m) /\ ~Refuse(m)
  <2>1. End(m, [db EXCEPT !.document[d] = Bumped(old)])
    BY <1>2, <1>5 DEF ConvertRow, PaperInv, PaperShape
  <2>2. /\ Bumped(old) \in DocumentRecord /\ Bumped(old).rev = old.rev + 1 /\ Bumped(old).status = old.status
        /\ Bumped(old).final = old.final /\ Bumped(old).latest = old.latest
    BY <1>2, BumpedDocument
  <2>3. /\ req'[m].do = req[m].do /\ req'[m].arg = req[m].arg /\ req'[m].at \in Ends
        /\ db' = [db EXCEPT !.document[d] = Bumped(old)]
    BY <2>1, DoneBy DEF End, Ends
  <2>4. old.status # "ARCHIVED" => (old.status = "FINALIZED" <=> old.final # Nil)
    BY <1>2 DEF Agrees
  <2> QED
    BY <1>2, <2>2, <2>3, <2>4, DocumentRowStands
<1> QED
  BY <1>3, <1>4, <1>5

-----------------------------------------------------------------------------
\* The highest number of the versions of a document.
LEMMA LastIsHighest ==
    ASSUME PaperInv, NEW d \in Ids, db.document[d] # Nil,
           NEW last, last = Max({0} \cup {db.version[w].number : w \in VersionsOf(d)})
    PROVE  /\ last \in Nat /\ \A w \in VersionsOf(d) : db.version[w].number \in Nat /\ db.version[w].number <= last
           /\ VersionsOf(d) = {} => last = 0
<1> DEFINE numbers == {0} \cup {db.version[w].number : w \in VersionsOf(d)}
<1>1. \A w \in VersionsOf(d) : db.version[w].number \in Nat /\ w \in Ids
  BY DEF VersionsOf, PaperInv, PaperShape, VersionRecord
<1>2. Agrees(d)
  BY DEF PaperInv, AllAgree
<1>3. numbers \subseteq Nat
  BY <1>1
<1>4. \E top \in numbers : \A n \in numbers : top >= n
  <2>1. CASE VersionsOf(d) = {}
    BY <2>1
  <2>2. CASE Newest(d) /\ VersionsOf(d) # {}
    <3> DEFINE latest == db.document[d].latest
    <3>1. latest \in VersionsOf(d)
      BY <1>1, <1>2, <2>2, NilIsNoId DEF Newest, Agrees
    <3>2. \A w \in VersionsOf(d) : db.version[latest].number >= db.version[w].number
      BY <1>1, <2>2, <3>1 DEF Newest
    <3>3. db.version[latest].number \in numbers /\ db.version[latest].number >= 0
      BY <1>1, <3>1
    <3> QED
      BY <3>2, <3>3
  <2>3. CASE Unfilled(d)
    <3>1. VersionsOf(d) = {d} /\ db.version[d].number \in Nat
      BY <1>1, <2>3 DEF Unfilled
    <3>2. numbers = {0, db.version[d].number}
      BY <3>1
    <3> QED
      BY <3>1, <3>2
  <2> QED
    BY <1>2, <2>1, <2>2, <2>3 DEF Agrees
<1>5. last = Max(numbers)
  OBVIOUS
<1> HIDE DEF numbers
<1>6. last \in numbers /\ \A n \in numbers : last >= n
  BY <1>4, <1>5 DEF Max
<1>7. last \in Nat
  BY <1>3, <1>6
<1>8. ASSUME NEW w \in VersionsOf(d) PROVE db.version[w].number \in Nat /\ db.version[w].number <= last
  <2>1. db.version[w].number \in numbers
    BY DEF numbers
  <2> QED
    BY <1>1, <1>6, <1>7, <2>1
<1>9. VersionsOf(d) = {} => last = 0
  BY <1>6 DEF numbers
<1> QED
  BY <1>7, <1>8, <1>9

\* Document d alone is written, it and its versions.
OnlyDocument(d) ==
    /\ \A e \in Ids : e # d => db'.document[e] = db.document[e]
    /\ \A w \in Ids : \/ db'.version[w] = db.version[w]
                      \/ db.version[w] = Nil /\ db'.version[w] # Nil /\ db'.version[w].document = d
    /\ db'.finalized = db.finalized /\ db'.approval = db.approval /\ db'.application = db.application
    /\ db'.draft = db.draft /\ db'.submission = db.submission /\ db'.run = db.run

LEMMA DocumentStands ==
    ASSUME PaperInv, NEW m, Goes(m), NEW d \in Ids, OnlyDocument(d), PaperShape', DocumentGrows(m, d), NamesKept(m),
           \A r \in Requests : IngestGrows(r), db'.document[d] # Nil, Agrees(d)'
    PROVE  Stands(m)
<1>1. ASSUME NEW e \in Ids, e # d PROVE VersionsOf(e)' = VersionsOf(e)
  BY <1>1 DEF VersionsOf, OnlyDocument
<1>2. ASSUME NEW i \in Ids PROVE DocumentGrows(m, i) /\ ApprovalGrows(i) /\ ApplicationGrows(m, i) /\ RunGrows(m, i)
  BY <1>1, KeptRowsGrow DEF OnlyDocument
<1>3. \A w \in Ids : db.version[w] # Nil => db'.version[w] = db.version[w]
  BY DEF OnlyDocument
<1>4. Grows(m)
  BY <1>2, <1>3 DEF Grows, OnlyDocument
<1>5. ASSUME NEW e \in Ids, e # d, db'.document[e] # Nil PROVE Agrees(e)'
  BY <1>1, <1>4, <1>5, AgreesStays DEF OnlyDocument
<1>6. AllAgree'
  BY <1>5 DEF AllAgree
<1>7. References'
  BY <1>4, ReferencesStep DEF OnlyDocument
<1>8. \A kind : ConsumedKept(kind)
  BY DEF ConsumedKept, Approvals, OnlyDocument
<1>9. AllSpent'
  BY <1>4, <1>8, SpentStep DEF OnlyDocument
<1> QED
  BY <1>4, <1>6, <1>7, <1>9 DEF Stands

LEMMA Saving ==
    ASSUME PaperInv, NEW m \in Requests, Open(m), Goes(m), SaveVersion(m)
    PROVE  Stands(m) /\ PaperStatement(m)'
<1> DEFINE d == req[m].arg.id  v == req[m].v  old == db.document[d]
           last == Max({0} \cup {db.version[w].number : w \in VersionsOf(d)})
           open == [Reopened(old) EXCEPT !.latest = m]
           new == Bumped(open)
           version == Version(d, last + 1)
<1>0. At(m, "saveVersion")
  BY DEF SaveVersion
<1>1. /\ d \in Ids /\ old # Nil /\ old \in DocumentRecord
      /\ req[m].do \in DocumentWriters /\ DocumentHeld(d, v) /\ Agrees(d) /\ Mutable(v) /\ ~At(m, "ingestJob")
  BY <1>0, HoldsDocument DEF At
<1>2. CASE Refuse(m)
  BY <1>2, RefusesWell
<1>3. CASE ~Refuse(m)
  <2>1. /\ db'.document = [db.document EXCEPT ![d] = new] /\ db'.version = [db.version EXCEPT ![m] = version]
        /\ db'.finalized = db.finalized /\ db'.approval = db.approval /\ db'.application = db.application
        /\ db'.draft = db.draft /\ db'.submission = db.submission /\ db'.run = db.run /\ db'.ingest = db.ingest
        /\ PaperThere
        /\ old.rev = v.rev
    <3>1. /\ ~Refuse(m) /\ Same("document", d, v)
          /\ \E proposal : ThenIngest(m, <<"document", d>>,
                 [db EXCEPT !.document[d] = new, !.version[m] = version, !.proposal = proposal])
      <4>1. Same("document", d, v)
        BY <1>3 DEF SaveVersion
      <4>2. ThenIngest(m, <<"document", d>>,
                 [db EXCEPT !.document[d] = new, !.version[m] = version,
                            !.proposal = IF req[m].arg.proposal = Nil THEN db.proposal
                                         ELSE [db.proposal EXCEPT ![req[m].arg.proposal].applied = TRUE]])
        BY <1>3, <4>1 DEF SaveVersion, PaperInv, PaperShape
      <4> QED
        BY <1>3, <4>1, <4>2
    <3>2. PICK proposal : db' = [db EXCEPT !.document[d] = new, !.version[m] = version, !.proposal = proposal]
      BY <3>1, DoneBy DEF ThenIngest
    <3> HIDE DEF new, version
    <3> QED
      BY <3>1, <3>2 DEF PaperInv, PaperShape, PaperThere, Same
  <2>2. /\ req'[m].do = req[m].do /\ req'[m].arg = req[m].arg /\ req'[m].at = "ingestJob"
        /\ req'[m].v = [of |-> <<"document", d>>]
    BY <1>3, DoneBy DEF SaveVersion, ThenIngest, Ends
  <2>3. PaperRowsOf(m) = {Nil} /\ m \in Ids /\ db.ingest[m] = Nil
    BY <1>1, NothingYet
  <2>4. db.document[m] = Nil /\ db.version[m] = Nil /\ m # d
    BY <1>1, <2>3 DEF PaperRowsOf
  <2>5. old.status # "ARCHIVED"
    <3>1. v \in DocumentRecord /\ v.status # "ARCHIVED" /\ (old = v \/ old = [v EXCEPT !.latest = d])
      BY <1>1, <2>1 DEF DocumentHeld, Mutable
    <3> QED
      BY <3>1 DEF DocumentRecord
  <2>6. /\ open \in DocumentRecord /\ open.rev = old.rev /\ open.final = Nil /\ open.latest = m
        /\ open.status \notin {"FINALIZED", "ARCHIVED"}
    <3>1. /\ Reopened(old) \in DocumentRecord /\ Reopened(old).rev = old.rev
          /\ Reopened(old).final = Nil /\ Reopened(old).status \notin {"FINALIZED", "ARCHIVED"}
      BY <1>1, <2>5, ReopenedDocument
    <3> QED
      BY <2>3, <3>1 DEF DocumentRecord
  <2> HIDE DEF open
  <2>7. /\ new \in DocumentRecord /\ new # Nil /\ new.rev = old.rev + 1 /\ new.final = Nil /\ new.latest = m
        /\ new.status \notin {"FINALIZED", "ARCHIVED"} /\ old.rev \in Nat
    BY <2>6, BumpedDocument
  <2> HIDE DEF new
  <2>8. /\ last \in Nat /\ \A w \in VersionsOf(d) : db.version[w].number \in Nat /\ db.version[w].number <= last
        /\ VersionsOf(d) = {} => last = 0
    BY <1>1, LastIsHighest
  <2> HIDE DEF last
  <2>9. version \in VersionRecord /\ version # Nil /\ version.document = d /\ version.number = last + 1
    <3>1. version \in VersionRecord /\ version.document = d /\ version.number = last + 1
      BY <1>1, <2>8 DEF Version, VersionRecord
    <3> QED
      BY <3>1, DocumentAssumption
  <2> HIDE DEF version
  <2>10. /\ db'.document[d] = new /\ (\A e \in Ids : e # d => db'.document[e] = db.document[e])
         /\ db'.version[m] = version /\ \A w \in Ids : w # m => db'.version[w] = db.version[w]
    BY <1>1, <2>1, <2>3 DEF PaperInv, PaperShape
  <2>11. OnlyDocument(d)
    BY <2>1, <2>4, <2>9, <2>10 DEF OnlyDocument
  <2>12. PaperShape'
    <3>1. db'.document \in [Ids -> DocumentRecord \cup {Nil}]
      <4>1. PICK e : e = d
        OBVIOUS
      <4>2. db'.document = [db.document EXCEPT ![e] = new]
        BY <2>1, <4>1
      <4> HIDE DEF d
      <4>3. db.document \in [Ids -> DocumentRecord \cup {Nil}] /\ new \in DocumentRecord
        BY <2>7 DEF PaperInv, PaperShape
      <4> QED
        BY <4>2, <4>3
    <3>2. db'.version \in [Ids -> VersionRecord \cup {Nil}]
      BY <2>1, <2>9 DEF PaperInv, PaperShape
    <3> QED
      BY <2>1, <3>1, <3>2 DEF PaperInv, PaperShape, PaperThere
  <2>13. DocumentGrows(m, d)
    BY <1>1, <2>7, <2>10 DEF DocumentGrows
  <2>14. NamesKept(m)
    <3> SUFFICES ASSUME NEW r \in Requests, r # m
                 PROVE  /\ PaperRowsOf(r) = {Nil} /\ db.ingest[r] = Nil => PaperRowsOf(r)' = {Nil}
                        /\ db.ingest[r] = Nil <=> db'.ingest[r] = Nil
                        /\ db.document[r] = Nil <=> db'.document[r] = Nil
                        /\ db'.version[r] = db.version[r] \/ db'.version[r].document = r
      BY DEF NamesKept
    <3>1. r \in Ids
      BY DEF Ids
    <3>2. db.document[r] = Nil <=> db'.document[r] = Nil
      BY <1>1, <2>7, <2>10, <3>1
    <3>3. db'.version[r] = db.version[r]
      BY <2>10, <3>1
    <3>4. PaperRowsOf(r) = {Nil} => PaperRowsOf(r)' = {Nil}
      BY <2>1, <3>2, <3>3 DEF PaperRowsOf
    <3> QED
      BY <2>1, <3>2, <3>3, <3>4
  <2>15. \A r \in Requests : IngestGrows(r)
    BY <2>1 DEF IngestGrows
  <2>16. ASSUME NEW e, e = d PROVE VersionsOf(e)' = VersionsOf(e) \cup {m} /\ m \notin VersionsOf(e)
    BY <2>3, <2>4, <2>9, <2>10, <2>16 DEF VersionsOf
  <2>17. ASSUME NEW e, e = d PROVE Agrees(e)'
    <3>1. Newest(e)'
      <4>1. ASSUME NEW w \in VersionsOf(e)', w # m PROVE db'.version[w].number < db'.version[m].number
        <5>1. w \in VersionsOf(e) /\ w \in Ids
          BY <2>16, <2>17, <4>1 DEF VersionsOf
        <5>2. db.version[w].number \in Nat /\ db.version[w].number <= last
          BY <2>8, <2>17, <5>1
        <5>3. db'.version[w].number = db.version[w].number /\ db'.version[m].number = last + 1
          BY <2>9, <2>10, <4>1, <5>1
        <5> QED
          BY <2>8, <5>2, <5>3
      <4>2. db'.document[e].latest = m /\ m # Nil
        BY <2>3, <2>7, <2>10, <2>17, NilIsNoId
      <4> QED
        BY <4>1, <4>2 DEF Newest
    <3>2. db'.document[e].final = Nil /\ db'.document[e].status # "FINALIZED" /\ db'.document[e].latest \in VersionsOf(e)'
      BY <2>7, <2>10, <2>16, <2>17
    <3>3. FinalIsTrue(e)'
      BY <3>2 DEF FinalIsTrue
    <3>4. \E w \in VersionsOf(e)' : db'.version[w].number = 1
      <4>1. CASE VersionsOf(e) = {}
        BY <2>8, <2>9, <2>10, <2>16, <2>17, <4>1
      <4>2. CASE VersionsOf(e) # {}
        <5>1. PICK w \in VersionsOf(e) : db.version[w].number = 1
          BY <1>1, <2>17, <4>2 DEF Agrees
        <5>2. w \in VersionsOf(e)' /\ db'.version[w] = db.version[w]
          BY <2>10, <2>16, <2>17, <5>1 DEF VersionsOf
        <5> QED
          BY <5>1, <5>2
      <4> QED
        BY <4>1, <4>2
    <3> QED
      BY <3>1, <3>2, <3>3, <3>4 DEF Agrees
  <2>18. Stands(m)
    <3>1. PICK e : e = d
      OBVIOUS
    <3>2. Agrees(e)' /\ e \in Ids /\ OnlyDocument(e) /\ DocumentGrows(m, e) /\ db'.document[e] # Nil
      BY <1>1, <2>7, <2>10, <2>11, <2>13, <2>17, <3>1
    <3> QED
      BY <2>12, <2>14, <2>15, <3>2, DocumentStands
  <2>19. HasRead(m)' /\ Spends(m)' /\ Overtaken(m)'
    <3>1. req'[m].v.of[1] # "fill"
      BY <2>2
    <3>2. IngestJob(req'[m].v.of) \in IngestRecord
      BY <1>1, <2>2 DEF IngestJob, IngestRecord, Texts
    <3> QED
      BY <2>2, <3>1, <3>2 DEF HasRead, Spends, Overtaken, At
  <2>20. req[m].do \in Editors
    BY <1>0, NextAtHome DEF AtHome, At
  <2>21. Fresh(m)'
    <3>1. db'.ingest[m] = Nil /\ db'.document[m] = Nil /\ req[m].do # "convertSource"
      BY <2>1, <2>3, <2>4, <2>10, <2>20 DEF Editors
    <3> QED
      BY <2>2, <3>1 DEF Fresh, Ended, Ends, At
  <2>22. CalledFor(req[m].do, req[m].arg)'
    BY <2>2, <2>18, CallStays DEF Stands, Open
  <2>23. AtHome(req[m].do, "ingestJob")
    BY DEF AtHome, PaperHandlers, DocumentWriters, Spenders, Reporters
  <2> QED
    BY <2>2, <2>18, <2>19, <2>21, <2>22, <2>23 DEF PaperStatement, At
<1> QED
  BY <1>2, <1>3

-----------------------------------------------------------------------------
\* m makes a document, with a first version or none.
NewRows(m, new) ==
    /\ db'.document = [db.document EXCEPT ![m] = new]
    /\ \/ db'.version = db.version /\ new.latest = Nil
       \/ db'.version = [db.version EXCEPT ![m] = Version(m, 1)] /\ new.latest = m
    /\ db'.finalized = db.finalized /\ db'.approval = db.approval
    /\ db'.application = db.application /\ db'.draft = db.draft /\ db'.submission = db.submission /\ db'.run = db.run
    /\ PaperThere /\ db'.ingest = db.ingest

LEMMA FirstVersion ==
    ASSUME NEW d \in Ids
    PROVE  Version(d, 1) \in VersionRecord /\ Version(d, 1) # Nil /\ Version(d, 1).document = d /\ Version(d, 1).number = 1
<1>1. Version(d, 1) \in VersionRecord /\ Version(d, 1).document = d /\ Version(d, 1).number = 1
  BY DEF Version, VersionRecord
<1> QED
  BY <1>1, DocumentAssumption

LEMMA NewDocument ==
    ASSUME PaperInv, NEW m \in Requests, Open(m), Goes(m), ~At(m, "ingestJob"),
           NEW new \in DocumentRecord, new.status = "DRAFT", new.final = Nil, NewRows(m, new)
    PROVE  Stands(m) /\ db'.document[m] # Nil /\ (db'.version[m] # Nil => db'.version[m].document = m)
<1>1. m \in Ids /\ db.document[m] = Nil /\ db.version[m] = Nil /\ new # Nil
  BY NothingYet, DocumentAssumption DEF PaperRowsOf
<1>2. VersionsOf(m) = {}
  BY <1>1 DEF VersionsOf, PaperInv, References
<1>3. /\ Version(m, 1) \in VersionRecord /\ Version(m, 1) # Nil /\ Version(m, 1).document = m /\ Version(m, 1).number = 1
  BY <1>1, FirstVersion
<1>4. /\ db'.document[m] = new /\ \A e \in Ids : e # m => db'.document[e] = db.document[e]
      /\ \A w \in Ids : w # m => db'.version[w] = db.version[w]
      /\ \/ db'.version[m] = Nil /\ new.latest = Nil
         \/ db'.version[m] = Version(m, 1) /\ new.latest = m
  BY <1>1 DEF NewRows, PaperInv, PaperShape
<1>5. OnlyDocument(m)
  BY <1>1, <1>3, <1>4 DEF OnlyDocument, NewRows
<1>6. PaperShape'
  <2>1. db'.document \in [Ids -> DocumentRecord \cup {Nil}]
    BY ZenonT(60) DEF NewRows, PaperInv, PaperShape
  <2>2. db'.version \in [Ids -> VersionRecord \cup {Nil}]
    BY <1>3 DEF NewRows, PaperInv, PaperShape
  <2> QED
    BY <2>1, <2>2 DEF NewRows, PaperInv, PaperShape, PaperThere
<1>7. DocumentGrows(m, m)
  BY <1>1 DEF DocumentGrows
<1>8. NamesKept(m)
  BY <1>4 DEF NamesKept, PaperRowsOf, NewRows, Ids
<1>9. \A r \in Requests : IngestGrows(r)
  BY DEF IngestGrows, NewRows
<1>10. Agrees(m)'
  <2>1. VersionsOf(m)' = IF db'.version[m] = Nil THEN {} ELSE {m}
    BY <1>1, <1>2, <1>3, <1>4 DEF VersionsOf
  <2>2. /\ db'.document[m].status = "DRAFT" /\ db'.document[m].final = Nil
        /\ db'.version[m] = Nil => db'.document[m].latest = Nil
        /\ db'.version[m] # Nil => db'.document[m].latest = m /\ db'.version[m].number = 1
    BY <1>3, <1>4
  <2>3. Newest(m)' /\ FinalIsTrue(m)'
    BY <2>1, <2>2 DEF Newest, FinalIsTrue
  <2> QED
    BY <2>1, <2>2, <2>3 DEF Agrees
<1> QED
  BY <1>1, <1>3, <1>4, <1>5, <1>6, <1>7, <1>8, <1>9, <1>10, DocumentStands

LEMMA Drafting ==
    ASSUME PaperInv, NEW m \in Requests, Open(m), Goes(m), CreateDocument(m) \/ ConvertSource(m)
    PROVE  Stands(m) /\ PaperStatement(m)'
<1> DEFINE shell == Document("DRAFT", Nil, Nil)  filled == [shell EXCEPT !.latest = m]
<1>1. req[m].at \in {"createDocument", "convertSource"} /\ ~At(m, "ingestJob") /\ ~At(m, "new")
  BY DEF CreateDocument, ConvertSource, At
<1>2. req[m].do = req[m].at
  BY <1>1, NextAtHome DEF PaperHandlers
<1>3. m \in Ids /\ db.ingest[m] = Nil
  BY NothingYet
<1>4. /\ shell \in DocumentRecord /\ shell.status = "DRAFT" /\ shell.final = Nil /\ shell.latest = Nil
      /\ filled \in DocumentRecord /\ filled.status = "DRAFT" /\ filled.final = Nil /\ filled.latest = m
  BY <1>3 DEF Document, DocumentRecord
<1>5. CASE Refuse(m)
  BY <1>5, RefusesWell
<1>6. CASE End(m, [db EXCEPT !.document[m] = shell])
  <2>1. /\ req'[m].do = req[m].do /\ req'[m].arg = req[m].arg /\ req'[m].at = "ok" /\ db' = [db EXCEPT !.document[m] = shell]
    BY <1>6, DoneBy DEF End
  <2> HIDE DEF shell, filled
  <2>2. NewRows(m, shell)
    BY <1>4, <2>1 DEF NewRows, PaperThere, PaperInv, PaperShape
  <2>3. Stands(m) /\ db'.document[m] # Nil /\ (db'.version[m] # Nil => db'.version[m].document = m)
    BY <1>1, <1>4, <2>2, NewDocument
  <2>4. Fresh(m)'
    BY <1>1, <1>2, <1>3, <2>1, <2>2, <2>3 DEF Fresh, Ended, Ends, At, NewRows
  <2> QED
    BY <1>1, <2>1, <2>3, <2>4, PaperEndsWell DEF Stands, Ends
<1>7. CASE ConvertSource(m) /\ ~Refuse(m) /\ ~req[m].arg.pdf
  <2>1. \E behind : End(m, [db EXCEPT !.document[m] = filled, !.version[m] = Version(m, 1), !.behind = behind])
    <3> DEFINE behind == db.behind \cup {<<"document", m>>}
    <3>1. End(m, [[db EXCEPT !.document[m] = shell] EXCEPT !.document[m].latest = m, !.version[m] = Version(m, 1),
                                  !.behind = @ \cup {<<"document", m>>}])
      BY <1>7 DEF ConvertSource
    <3>2. [[db EXCEPT !.document[m] = shell] EXCEPT !.document[m].latest = m, !.version[m] = Version(m, 1),
                                  !.behind = @ \cup {<<"document", m>>}]
          = [db EXCEPT !.document[m] = filled, !.version[m] = Version(m, 1), !.behind = behind]
      <4> HIDE DEF shell
      <4> QED
        BY <1>3 DEF PaperInv, PaperShape
    <3> HIDE DEF shell, filled
    <3>3. End(m, [db EXCEPT !.document[m] = filled, !.version[m] = Version(m, 1), !.behind = behind])
      BY <3>1, <3>2
    <3> QED
      BY <3>3
  <2> HIDE DEF shell, filled
  <2>2. /\ req'[m].do = req[m].do /\ req'[m].arg = req[m].arg /\ req'[m].at = "ok"
        /\ \E behind : db' = [db EXCEPT !.document[m] = filled, !.version[m] = Version(m, 1), !.behind = behind]
    BY <2>1, DoneBy DEF End
  <2>3. NewRows(m, filled)
    BY <1>4, <2>2 DEF NewRows, PaperThere, PaperInv, PaperShape
  <2>4. Stands(m) /\ db'.document[m] # Nil /\ (db'.version[m] # Nil => db'.version[m].document = m)
    BY <1>1, <1>4, <2>3, NewDocument
  <2>5. Fresh(m)'
    BY <1>1, <1>2, <1>3, <2>2, <2>3, <2>4 DEF Fresh, Ended, Ends, At, NewRows
  <2> QED
    BY <1>1, <2>2, <2>4, <2>5, PaperEndsWell DEF Stands, Ends
<1>8. CASE ConvertSource(m) /\ ~Refuse(m) /\ req[m].arg.pdf
  <2>1. /\ req'[m].do = req[m].do /\ req'[m].arg = req[m].arg /\ req'[m].at = "ingestJob" /\ req'[m].v = [of |-> <<"fill", m>>]
        /\ db' = [db EXCEPT !.document[m] = shell]
    BY <1>8, DoneBy DEF ConvertSource, ThenIngest, Ends
  <2>2. At(m, "convertSource")
    BY <1>8 DEF ConvertSource
  <2> HIDE DEF shell, filled
  <2>3. NewRows(m, shell)
    BY <1>4, <2>1 DEF NewRows, PaperThere, PaperInv, PaperShape
  <2>4. Stands(m) /\ db'.document[m] # Nil /\ (db'.version[m] # Nil => db'.version[m].document = m)
    BY <1>1, <1>4, <2>3, NewDocument
  <2>5. Fresh(m)'
    BY <1>1, <1>2, <1>3, <2>1, <2>2, <2>3, <2>4 DEF Fresh, Ended, Ends, At, NewRows
  <2>6. HasRead(m)' /\ Spends(m)' /\ Overtaken(m)'
    <3>1. IngestJob(req'[m].v.of) \in IngestRecord /\ req'[m].v.of = <<"fill", m>>
      BY <2>1 DEF IngestJob, IngestRecord
    <3>2. req'[m].do = "convertSource"
      BY <1>2, <2>1, <2>2 DEF At
    <3> QED
      BY <2>1, <3>1, <3>2 DEF HasRead, Spends, Overtaken, At
  <2>7. CalledFor(req[m].do, req[m].arg)'
    BY <1>1, <2>1, <2>4, CallStays DEF Stands
  <2>8. AtHome(req[m].do, "ingestJob")
    BY DEF AtHome, PaperHandlers, DocumentWriters, Spenders, Reporters
  <2> QED
    BY <2>1, <2>4, <2>5, <2>6, <2>7, <2>8 DEF PaperStatement, At
<1>9. CreateDocument(m) => End(m, [db EXCEPT !.document[m] = shell])
  BY DEF CreateDocument
<1> QED
  BY <1>5, <1>6, <1>7, <1>8, <1>9

\* The job of a text is stored.
LEMMA Storing ==
    ASSUME PaperInv, NEW m \in Requests, Open(m), Goes(m), StoreIngest(m)
    PROVE  Stands(m) /\ PaperStatement(m)'
<1> DEFINE job == IngestJob(req[m].v.of)
<1>1. /\ req'[m].do = req[m].do /\ req'[m].arg = req[m].arg /\ req'[m].at = "ok" /\ db' = [db EXCEPT !.ingest[m] = job]
      /\ At(m, "ingestJob")
  BY DoneBy DEF StoreIngest, End
<1>2. HasRead(m) /\ Fresh(m) /\ db.ingest[m] = Nil
  BY NothingYet DEF PaperInv, PaperStatement
<1>3. job \in IngestRecord /\ job.of = req[m].v.of
  BY <1>1, <1>2 DEF HasRead, IngestJob
<1> HIDE DEF job
<1>4. PaperKept /\ PaperThere /\ db'.ingest = [db.ingest EXCEPT ![m] = job]
  BY <1>1 DEF PaperKept, DocumentsKept, PaperThere, PaperInv, PaperShape
<1>5. /\ db'.ingest \in [Requests -> IngestRecord \cup {Nil}] /\ db'.ingest[m] = job
      /\ \A r \in Requests : r # m => db'.ingest[r] = db.ingest[r]
  BY <1>3, <1>4 DEF PaperInv, PaperShape
<1>6. \A r \in Requests : IngestGrows(r) /\ (r # m => (db.ingest[r] = Nil <=> db'.ingest[r] = Nil))
  BY <1>2, <1>5 DEF IngestGrows
<1>7. Stands(m)
  BY <1>4, <1>5, <1>6, KeptStands
<1>8. Fresh(m)'
  <2>1. db'.document = db.document /\ db'.version = db.version
    BY <1>4 DEF PaperKept, DocumentsKept
  <2>2. job.of[1] = "fill" => job.of = <<"fill", m>> /\ req[m].do = "convertSource" /\ db.document[m] # Nil
    BY <1>1, <1>2, <1>3 DEF HasRead, Fresh
  <2> QED
    BY <1>1, <1>2, <1>5, <2>1, <2>2 DEF Fresh, Ended, Ends, At
<1> QED
  BY <1>1, <1>7, <1>8, PaperEndsWell DEF Stands, Ends, Open

-----------------------------------------------------------------------------
\* A step of the workers: job j goes on, and writes nothing else.
LEMMA JobStands ==
    ASSUME PaperInv, Goes(Nil), PaperKept, PaperThere, NEW j \in Requests, db.ingest[j] # Nil,
           NEW job \in IngestRecord, job.of = db.ingest[j].of, db'.ingest = [db.ingest EXCEPT ![j] = job]
    PROVE  Stands(Nil)
<1>1. /\ db'.ingest \in [Requests -> IngestRecord \cup {Nil}] /\ db'.ingest[j] = job
      /\ \A r \in Requests : r # j => db'.ingest[r] = db.ingest[r]
  BY DEF PaperInv, PaperShape
<1>2. \A r \in Requests : IngestGrows(r) /\ (db.ingest[r] = Nil <=> db'.ingest[r] = Nil)
  BY <1>1, IngestAssumption DEF IngestGrows
<1> QED
  BY <1>1, <1>2, KeptStands

Later(job, how) == [job EXCEPT !.runs = @ + 1, !.over = how]

LEMMA LaterJob ==
    ASSUME NEW job \in IngestRecord, NEW how \in {Nil, "done", "failed", "dead"}
    PROVE  Later(job, how) \in IngestRecord /\ Later(job, how).of = job.of
<1> DEFINE runs == job.runs + 1
<1>1. Later(job, how) = [[job EXCEPT !.runs = runs] EXCEPT !.over = how]
  BY DEF Later, IngestRecord
<1>2. runs \in Nat
  BY DEF IngestRecord
<1> HIDE DEF runs
<1>3. [job EXCEPT !.runs = runs] \in IngestRecord /\ [job EXCEPT !.runs = runs].of = job.of
  BY <1>2 DEF IngestRecord
<1> DEFINE more == [job EXCEPT !.runs = runs]
<1> HIDE DEF more
<1>4. more \in IngestRecord => [more EXCEPT !.over = how] \in IngestRecord /\ [more EXCEPT !.over = how].of = more.of
  BY DEF IngestRecord
<1> QED
  BY <1>1, <1>3, <1>4 DEF more

LEMMA OverTables ==
    ASSUME PaperInv, NEW j \in Requests, NEW how
    PROVE  Over(j, how) = [db EXCEPT !.ingest = [db.ingest EXCEPT ![j] = Later(db.ingest[j], how)]]
  BY DEF Over, Later, PaperInv, PaperShape

LEMMA OverStands ==
    ASSUME PaperInv, Goes(Nil), NEW j \in Requests, db.ingest[j] # Nil, NEW how \in {Nil, "done", "failed", "dead"},
           NEW reads, NEW behind,
           db' = Over(j, how) \/ db' = [Over(j, how) EXCEPT !.reads = reads, !.behind = behind]
    PROVE  Stands(Nil)
<1> DEFINE job == Later(db.ingest[j], how)
<1>1. db.ingest[j] \in IngestRecord
  BY DEF PaperInv, PaperShape
<1>2. job \in IngestRecord /\ job.of = db.ingest[j].of
  BY <1>1, LaterJob
<1>3. Over(j, how) = [db EXCEPT !.ingest = [db.ingest EXCEPT ![j] = job]]
  BY OverTables
<1> HIDE DEF job
<1>4. PaperKept /\ PaperThere /\ db'.ingest = [db.ingest EXCEPT ![j] = job]
  BY <1>3 DEF PaperKept, DocumentsKept, PaperThere, PaperInv, PaperShape
<1> QED
  BY <1>2, <1>4, JobStands

Filled(old, new, j) == new = [old EXCEPT !.latest = j]
FilledRows(j, new, job) ==
    /\ db'.document = [db.document EXCEPT ![j] = new] /\ db'.version = [db.version EXCEPT ![j] = Version(j, 1)]
    /\ db'.finalized = db.finalized /\ db'.approval = db.approval
    /\ db'.application = db.application /\ db'.draft = db.draft /\ db'.submission = db.submission /\ db'.run = db.run
    /\ PaperThere /\ db'.ingest = [db.ingest EXCEPT ![j] = job]

\* A run fills a document that has no version yet.
LEMMA FillingStands ==
    ASSUME PaperInv, Goes(Nil), NEW j \in Requests, db.ingest[j] # Nil, db.ingest[j].of[1] = "fill",
           NEW new \in DocumentRecord, Filled(db.document[j], new, j),
           NEW job \in IngestRecord, job.of = db.ingest[j].of, FilledRows(j, new, job),
           ~\E w \in VersionsOf(j) : db.version[w].number = 1
    PROVE  Stands(Nil)
<1> DEFINE old == db.document[j]
<1>1. Fresh(j) /\ j \in Ids
  BY DEF PaperInv, PaperStatement, Ids
<1>2. old # Nil /\ old \in DocumentRecord /\ Agrees(j)
  BY <1>1 DEF Fresh, PaperInv, PaperShape, AllAgree
<1>3. VersionsOf(j) = {} /\ req[j].do = "convertSource"
  BY <1>1, <1>2 DEF Agrees, Fresh
<1>4. db.version[j] = Nil
  BY <1>1, <1>3 DEF Fresh, VersionsOf
<1>5. old.latest = Nil /\ old.final = Nil
  BY <1>2, <1>3 DEF Agrees, FinalIsTrue
<1>6. /\ Version(j, 1) \in VersionRecord /\ Version(j, 1) # Nil /\ Version(j, 1).document = j /\ Version(j, 1).number = 1
  BY <1>1, FirstVersion
<1>7. /\ new.rev = old.rev /\ new.status = old.status /\ new.final = Nil /\ new.latest = j
      /\ old.rev \in Nat /\ new = [old EXCEPT !.latest = j] /\ new # Nil /\ job # Nil
  BY <1>2, <1>5, DocumentAssumption, IngestAssumption DEF Filled, DocumentRecord
<1>12. /\ db'.document[j] = new /\ \A e \in Ids : e # j => db'.document[e] = db.document[e]
       /\ db'.version[j] = Version(j, 1) /\ \A w \in Ids : w # j => db'.version[w] = db.version[w]
       /\ db'.ingest[j] = job /\ \A r \in Requests : r # j => db'.ingest[r] = db.ingest[r]
  BY <1>1 DEF PaperInv, PaperShape, FilledRows
<1>13. OnlyDocument(j)
  BY <1>4, <1>6, <1>12 DEF OnlyDocument, FilledRows
<1>14. PaperShape'
  <2>1. db'.document \in [Ids -> DocumentRecord \cup {Nil}]
    <3>1. db.document \in [Ids -> DocumentRecord \cup {Nil}] /\ db'.document = [db.document EXCEPT ![j] = new]
      BY DEF FilledRows, PaperInv, PaperShape
    <3> QED
      BY <3>1
  <2>3. db'.ingest \in [Requests -> IngestRecord \cup {Nil}]
    <3>1. db.ingest \in [Requests -> IngestRecord \cup {Nil}] /\ db'.ingest = [db.ingest EXCEPT ![j] = job]
      BY DEF FilledRows, PaperInv, PaperShape
    <3> QED
      BY <3>1
  <2>2. db'.version \in [Ids -> VersionRecord \cup {Nil}]
    BY <1>6 DEF FilledRows, PaperInv, PaperShape
  <2> QED
    BY <2>1, <2>2, <2>3 DEF PaperInv, PaperShape, PaperThere, FilledRows
<1>15. VersionsOf(j)' = {j}
  BY <1>1, <1>3, <1>6, <1>12 DEF VersionsOf
<1>16. DocumentGrows(Nil, j)
  <2>1. FilledNow(j)
    BY <1>3, <1>7, <1>12, <1>15 DEF FilledNow
  <2> QED
    BY <1>7, <1>12, <2>1 DEF DocumentGrows
<1>18. NamesKept(Nil)
  <2> SUFFICES ASSUME NEW r \in Requests
               PROVE  /\ PaperRowsOf(r) = {Nil} /\ db.ingest[r] = Nil => PaperRowsOf(r)' = {Nil}
                      /\ db.ingest[r] = Nil <=> db'.ingest[r] = Nil
                      /\ db.document[r] = Nil <=> db'.document[r] = Nil
                      /\ db'.version[r] = db.version[r] \/ db'.version[r].document = r
    BY DEF NamesKept
  <2>1. r \in Ids
    BY DEF Ids
  <2>2. /\ db.ingest[r] = Nil <=> db'.ingest[r] = Nil
        /\ db.document[r] = Nil <=> db'.document[r] = Nil
    BY <1>2, <1>7, <1>12, <2>1
  <2>3. db'.version[r] = db.version[r] \/ db'.version[r].document = r
    BY <1>6, <1>12, <2>1
  <2>4. ASSUME r # j, PaperRowsOf(r) = {Nil} PROVE PaperRowsOf(r)' = {Nil}
    BY <1>12, <2>1, <2>4 DEF PaperRowsOf, FilledRows
  <2> QED
    BY <2>2, <2>3, <2>4
<1>19. \A r \in Requests : IngestGrows(r)
  BY <1>7, <1>12 DEF IngestGrows
<1>20. Agrees(j)'
  <2>1. Newest(j)' /\ FinalIsTrue(j)'
    BY <1>7, <1>12, <1>15 DEF Newest, FinalIsTrue
  <2>2. new.status # "ARCHIVED" => (new.status = "FINALIZED" <=> new.final # Nil)
    BY <1>2, <1>5, <1>7 DEF Agrees
  <2>3. db'.version[j].number = 1 /\ new.latest = j
    BY <1>6, <1>7, <1>12
  <2> QED
    BY <1>12, <1>15, <2>1, <2>2, <2>3 DEF Agrees
<1> QED
  BY <1>1, <1>7, <1>12, <1>13, <1>14, <1>16, <1>18, <1>19, <1>20, DocumentStands

LEMMA Filling ==
    ASSUME PaperInv, Goes(Nil), NEW j \in Requests, db.ingest[j] # Nil, db.ingest[j].of[1] = "fill",
           NEW how \in {Nil, "done"}, NEW behind,
           ~\E w \in VersionsOf(j) : db.version[w].number = 1,
           db' = [Over(j, how) EXCEPT !.version[j] = Version(j, 1), !.document[j].latest = j, !.behind = behind]
    PROVE  Stands(Nil)
<1> DEFINE job == Later(db.ingest[j], how)  old == db.document[j]  new == [old EXCEPT !.latest = j]
<1>1. Fresh(j) /\ j \in Ids
  BY DEF PaperInv, PaperStatement, Ids
<1>2. old # Nil /\ old \in DocumentRecord
  BY <1>1 DEF Fresh, PaperInv, PaperShape
<1>3. new \in DocumentRecord /\ Filled(old, new, j)
  BY <1>1, <1>2 DEF DocumentRecord, Filled
<1>4. job \in IngestRecord /\ job.of = db.ingest[j].of
  <2>1. db.ingest[j] \in IngestRecord
    BY DEF PaperInv, PaperShape
  <2> QED
    BY <2>1, LaterJob
<1>5. Over(j, how) = [db EXCEPT !.ingest = [db.ingest EXCEPT ![j] = job]]
  BY OverTables
<1> HIDE DEF job
<1>6. FilledRows(j, new, job)
  BY <1>1, <1>5 DEF PaperThere, PaperInv, PaperShape, FilledRows
<1> HIDE DEF new
<1> QED
  BY <1>3, <1>4, <1>6, FillingStands

LEMMA FailStands ==
    ASSUME PaperInv, Goes(Nil), NEW j \in Requests, db.ingest[j] # Nil, NEW text,
           NEW over \in {Nil, "done", "failed", "dead"}, db' = [Without(j, text) EXCEPT !.ingest[j].over = over]
    PROVE  Stands(Nil)
<1> DEFINE job == [db.ingest[j] EXCEPT !.over = over]
<1>1. db.ingest[j] \in IngestRecord
  BY DEF PaperInv, PaperShape
<1>2. job \in IngestRecord /\ job.of = db.ingest[j].of
  BY <1>1 DEF IngestRecord
<1>3. PaperKept /\ PaperThere /\ db'.ingest = [db.ingest EXCEPT ![j] = job]
  BY DEF Without, PaperKept, DocumentsKept, PaperThere, PaperInv, PaperShape
<1> HIDE DEF job
<1> QED
  BY <1>2, <1>3, JobStands

LEMMA JobsStand ==
    ASSUME PaperInv, IngestStep
    PROVE  Goes(Nil) /\ Stands(Nil)
<1>1. Goes(Nil)
  BY DEF IngestStep, Goes
<1>2. PICK j \in Requests : db.ingest[j] # Nil /\ (FillDocument(j) \/ ReadText(j) \/ StoreNodes(j) \/ FailIngest(j))
  BY DEF IngestStep
<1>3. db.ingest[j] \in IngestRecord
  BY <1>2 DEF PaperInv, PaperShape
<1>4. ASSUME NEW how \in {Nil, "failed", "dead"}, db' = Over(j, how) PROVE Stands(Nil)
  BY <1>1, <1>2, <1>4, OverStands
<1>5. CASE FillDocument(j)
  <2>1. CASE db' = Over(j, "failed") \/ db' = Raised(j)
    <3>1. Raised(j) = Over(j, "dead") \/ Raised(j) = Over(j, Nil)
      BY DEF Raised
    <3>2. CASE db' = Over(j, "failed")
      BY <1>1, <1>2, <3>2, OverStands
    <3>3. CASE db' = Over(j, "dead")
      BY <1>1, <1>2, <3>3, OverStands
    <3>4. CASE db' = Over(j, Nil)
      BY <1>1, <1>2, <3>4, OverStands
    <3> QED
      BY <2>1, <3>1, <3>2, <3>3, <3>4
  <2>2. CASE ~(db' = Over(j, "failed") \/ db' = Raised(j))
    <3>1. /\ db.ingest[j].of[1] = "fill" /\ ~\E w \in VersionsOf(j) : db.version[w].number = 1
          /\ \E how \in {"done", Nil} :
                db' = [Over(j, how) EXCEPT !.version[j] = Version(j, 1), !.document[j].latest = j,
                                           !.behind = @ \cup {<<"document", j>>}]
      BY <1>5, <2>2 DEF FillDocument
    <3>2. PICK how \in {"done", Nil} :
                db' = [Over(j, how) EXCEPT !.version[j] = Version(j, 1), !.document[j].latest = j,
                                           !.behind = @ \cup {<<"document", j>>}]
      BY <3>1
    <3> DEFINE behind == Over(j, how).behind \cup {<<"document", j>>}
    <3>3. db' = [Over(j, how) EXCEPT !.version[j] = Version(j, 1), !.document[j].latest = j, !.behind = behind]
      BY <3>2
    <3> QED
      BY <1>1, <1>2, <3>1, <3>3, Filling
  <2> QED
    BY <2>1, <2>2
<1>6. CASE ReadText(j)
  <2> DEFINE of == db.ingest[j].of
             reads == [Over(j, Nil).reads EXCEPT ![j] = @ \cup {TextOf(of)}]
             behind == IF Reading(of) = {} THEN Over(j, Nil).behind ELSE Over(j, Nil).behind \cup {of}
  <2>1. \/ db' = Over(j, "failed")
        \/ db' = [Over(j, Nil) EXCEPT !.reads = reads, !.behind = behind]
    BY <1>6 DEF ReadText
  <2> QED
    BY <1>1, <1>2, <1>4, <2>1, OverStands
<1>7. CASE StoreNodes(j)
  <2> DEFINE job == [db.ingest[j] EXCEPT !.over = "done"]
  <2>1. job \in IngestRecord /\ job.of = db.ingest[j].of
    BY <1>3 DEF IngestRecord
  <2>2. \E reads, node : db' = [db EXCEPT !.reads = reads, !.node = node, !.ingest = [db.ingest EXCEPT ![j] = job]]
    <3>1. PICK text \in db.reads[j] :
             db' = [Without(j, text) EXCEPT !.node[db.ingest[j].of] = text, !.ingest[j].over = "done"]
      BY <1>7 DEF StoreNodes
    <3> DEFINE reads == [db.reads EXCEPT ![j] = @ \ {text}]  node == [db.node EXCEPT ![db.ingest[j].of] = text]
    <3>2. db' = [db EXCEPT !.reads = reads, !.node = node, !.ingest = [db.ingest EXCEPT ![j] = job]]
      BY <3>1 DEF Without, PaperInv, PaperShape
    <3> QED
      BY <3>2
  <2> HIDE DEF job
  <2>3. PaperKept /\ PaperThere /\ db'.ingest = [db.ingest EXCEPT ![j] = job]
    BY <2>2 DEF PaperKept, DocumentsKept, PaperThere, PaperInv, PaperShape
  <2> QED
    BY <1>1, <1>2, <2>1, <2>3, JobStands
<1>8. CASE FailIngest(j)
  <2>1. PICK text \in db.reads[j] :
           LET last == db.ingest[j].runs = MaxTries /\ db.reads[j] = {text} IN
           db' = [Without(j, text) EXCEPT !.ingest[j].over = IF @ = Nil /\ last THEN "dead" ELSE @]
    BY <1>8 DEF FailIngest
  <2> DEFINE was == Without(j, text).ingest[j].over
  <2>2. was = db.ingest[j].over /\ was \in {Nil, "done", "failed", "dead"}
    BY <1>3 DEF Without, PaperInv, PaperShape, IngestRecord
  <2>3. db' = [Without(j, text) EXCEPT !.ingest[j].over = was] \/ db' = [Without(j, text) EXCEPT !.ingest[j].over = "dead"]
    BY <2>1
  <2> HIDE DEF was
  <2>4. CASE db' = [Without(j, text) EXCEPT !.ingest[j].over = was]
    BY <1>1, <1>2, <2>2, <2>4, FailStands
  <2>5. CASE db' = [Without(j, text) EXCEPT !.ingest[j].over = "dead"]
    BY <1>1, <1>2, <2>5, FailStands
  <2> QED
    BY <2>3, <2>4, <2>5
<1> QED
  BY <1>1, <1>2, <1>5, <1>6, <1>7, <1>8

-----------------------------------------------------------------------------
\* Statements that write applications, drafts and runs, and spend nothing.
StillNone(i) ==
    /\ db.application[i] = Nil => db'.application[i] = Nil
    /\ db.draft[i] = Nil => db'.draft[i] = Nil
    /\ db.run[i] = Nil => db'.run[i] = Nil
RowsMove(m) ==
    /\ DocumentsKept /\ db'.approval = db.approval /\ db'.submission = db.submission /\ db'.ingest = db.ingest
    /\ PaperThere
    /\ \A i \in Ids : /\ ApplicationGrows(m, i) /\ RunGrows(m, i)
                      /\ db.draft[i] # Nil => db'.draft[i] = db.draft[i]
                      /\ db.draft[i] = Nil /\ db'.draft[i] # Nil => DraftIsFinal(i)'
                      /\ db'.run[i] # db.run[i] => RunIsTrue(i)'
                      /\ i # m => StillNone(i)

LEMMA RowsStand ==
    ASSUME PaperInv, NEW m, Goes(m), RowsMove(m),
           db'.application \in [Ids -> ApplicationRecord \cup {Nil}], db'.draft \in [Ids -> DraftRecord \cup {Nil}],
           db'.run \in [Ids -> LaunchRecord \cup {Nil}]
    PROVE  Stands(m)
<1>1. PaperShape'
  BY DEF PaperInv, PaperShape, PaperThere, RowsMove, DocumentsKept
<1>2. \A d : VersionsOf(d)' = VersionsOf(d)
  BY DEF VersionsOf, RowsMove, DocumentsKept
<1>3. \A i \in Ids : DocumentGrows(m, i) /\ ApprovalGrows(i)
  BY <1>2, KeptRowsGrow DEF RowsMove, DocumentsKept
<1>4. NamesKept(m)
  <2> SUFFICES ASSUME NEW r \in Requests, r # m, PaperRowsOf(r) = {Nil} PROVE PaperRowsOf(r)' = {Nil}
    BY DEF NamesKept, RowsMove, DocumentsKept
  <2>1. r \in Ids /\ StillNone(r)
    BY DEF Ids, RowsMove
  <2> QED
    BY <2>1 DEF PaperRowsOf, StillNone, RowsMove, DocumentsKept
<1>5. \A r \in Requests : IngestGrows(r)
  BY DEF IngestGrows, RowsMove
<1>6. Grows(m)
  BY <1>1, <1>3, <1>4, <1>5 DEF Grows, RowsMove, DocumentsKept
<1>7. AllAgree'
  BY <1>6, AllAgreeStay DEF RowsMove
<1>8. References'
  BY <1>6, ReferencesStep DEF RowsMove, DocumentsKept
<1>9. \A kind : ConsumedKept(kind)
  BY DEF ConsumedKept, Approvals, RowsMove
<1>10. AllSpent'
  BY <1>6, <1>9, SpentStep DEF RowsMove, DocumentsKept
<1> QED
  BY <1>6, <1>7, <1>8, <1>10 DEF Stands

\* The applications change, and no other table.
LEMMA ApplicationsStand ==
    ASSUME PaperInv, NEW m, Goes(m), NEW i \in Ids, NEW new \in ApplicationRecord, NEW text,
           \/ db' = [db EXCEPT !.application[i] = new]
           \/ db' = [db EXCEPT !.application[i] = new, !.text = text],
           db'.application[i] = new => ApplicationGrows(m, i),
           db.application[i] = Nil => i = m
    PROVE  Stands(m) /\ db'.ingest = db.ingest /\ db'.version = db.version /\ db'.document = db.document
<1>1. /\ db'.application = [db.application EXCEPT ![i] = new] /\ db'.draft = db.draft /\ db'.run = db.run
      /\ DocumentsKept /\ db'.approval = db.approval /\ db'.submission = db.submission /\ db'.ingest = db.ingest
      /\ PaperThere
  BY DEF PaperInv, PaperShape, PaperThere, DocumentsKept
<1>2. db'.application \in [Ids -> ApplicationRecord \cup {Nil}]
  <2>1. db.application \in [Ids -> ApplicationRecord \cup {Nil}]
    BY DEF PaperInv, PaperShape
  <2> QED
    BY <1>1, <2>1
<1>3. db'.application[i] = new /\ \A j \in Ids : j # i => db'.application[j] = db.application[j]
  BY <1>1 DEF PaperInv, PaperShape
<1>4. \A j \in Ids : ApplicationGrows(m, j) /\ RunGrows(m, j)
  BY <1>1, <1>3, KeptRowsGrow
<1>5. \A j \in Ids : j # m => StillNone(j)
  BY <1>1, <1>3 DEF StillNone
<1>6. RowsMove(m)
  BY <1>1, <1>4, <1>5 DEF RowsMove
<1> QED
  BY <1>1, <1>2, <1>6, RowsStand DEF PaperInv, PaperShape, DocumentsKept

LEMMA ApplicationBumped ==
    ASSUME NEW row \in ApplicationRecord
    PROVE  /\ Bumped(row) \in ApplicationRecord /\ Bumped(row) # Nil /\ Bumped(row).rev = row.rev + 1 /\ row.rev \in Nat
           /\ Bumped(row).stage = row.stage
<1> DEFINE rev == row.rev + 1
<1>1. Bumped(row) = [row EXCEPT !.rev = rev] /\ rev \in Nat
  BY DEF Bumped, ApplicationRecord
<1> HIDE DEF rev
<1>2. Bumped(row) \in ApplicationRecord /\ Bumped(row).rev = rev /\ Bumped(row).stage = row.stage
  BY <1>1 DEF ApplicationRecord
<1> QED
  BY <1>2, ApplicationAssumption DEF rev, ApplicationRecord

LEMMA StaysApplied ==
    ASSUME NEW from, NEW to, CanPatchStage(from, to), Applied(from)
    PROVE  Applied(to)
  BY DEF CanPatchStage, Applied, Order, Terminal

LEMMA PatchingApplication ==
    ASSUME PaperInv, NEW m \in Requests, Open(m), Goes(m), ApplicationRow(m) \/ ApplicantRow(m)
    PROVE  Stands(m) /\ PaperStatement(m)'
<1> DEFINE i == req[m].arg.id  v == req[m].v  to == req[m].arg.to  old == db.application[i]
<1>1. CASE Refuse(m)
  BY <1>1, RefusesWell
<1>2. AtHome(req[m].do, req[m].at) /\ CalledFor(req[m].do, req[m].arg) /\ HasRead(m)
  BY NextAtHome DEF PaperInv, PaperStatement
<1>3. req[m].do \in {"patchApplication", "patchApplicant"}
  BY <1>2 DEF ApplicationRow, ApplicantRow, At, AtHome
<1>4. i \in Ids /\ old # Nil /\ old \in ApplicationRecord
  BY <1>2, <1>3 DEF CalledFor, PaperInv, PaperShape
<1>5. ASSUME NEW row \in ApplicationRecord, row.rev = old.rev, Applied(old.stage) => Applied(row.stage),
             Applied(row.stage) \/ req[m].do = "patchApplication",
             End(m, [db EXCEPT !.application[i] = Bumped(row)])
      PROVE  Stands(m) /\ PaperStatement(m)'
  <2> DEFINE new == Bumped(row)
  <2>1. /\ new \in ApplicationRecord /\ new # Nil /\ new.rev = old.rev + 1 /\ old.rev \in Nat
        /\ new.stage = row.stage
    BY <1>5, ApplicationBumped
  <2> HIDE DEF new
  <2>2. /\ req'[m].do = req[m].do /\ req'[m].arg = req[m].arg /\ req'[m].at = "ok" /\ db' = [db EXCEPT !.application[i] = new]
    BY <1>5, DoneBy DEF End, new
  <2>3. db'.application[i] = new => ApplicationGrows(m, i)
    BY <1>5, <2>1 DEF ApplicationGrows
  <2>4. Stands(m) /\ db'.ingest = db.ingest /\ db'.version = db.version /\ db'.document = db.document
    BY <1>4, <2>1, <2>2, <2>3, ApplicationsStand
  <2> QED
    BY <2>2, <2>4, EndsKept DEF Ends
<1>6. CASE ApplicationRow(m) /\ ~Refuse(m)
  <2>1. /\ req[m].do = "patchApplication" /\ v \in ApplicationRecord /\ RowHeld("application", i, v)
        /\ to = Nil \/ CanPatchStage(v.stage, to)
    BY <1>2, <1>6 DEF ApplicationRow, At, AtHome, HasRead
  <2> DEFINE row == IF to = Nil THEN v ELSE [v EXCEPT !.stage = to]
  <2>2. to \in Stages \cup {Nil}
    BY <1>2, <2>1 DEF CalledFor
  <2>3. row \in ApplicationRecord /\ row.rev = v.rev /\ row.stage = (IF to = Nil THEN v.stage ELSE to)
    BY <2>1, <2>2 DEF ApplicationRecord
  <2>4. Save(m, "application", row)
    BY <1>6 DEF ApplicationRow
  <2> HIDE DEF row
  <2>5. Same("application", i, row) /\ End(m, [db EXCEPT !.application[i] = Bumped(row)])
    BY <1>6, <2>4 DEF Save
  <2>6. row.rev = old.rev /\ old = v
    BY <2>1, <2>3, <2>5 DEF Same, RowHeld
  <2>7. Applied(old.stage) => Applied(row.stage)
    BY <2>1, <2>3, <2>6, StaysApplied
  <2> QED
    BY <1>5, <2>1, <2>3, <2>5, <2>6, <2>7
<1>7. CASE ApplicantRow(m)
  <2>1. req[m].do = "patchApplicant" /\ to \in EmployerStages
    <3>1. req[m].do = "patchApplicant"
      BY <1>2, <1>7 DEF ApplicantRow, At, AtHome
    <3> QED
      BY <1>2, <3>1 DEF CalledFor
  <2> DEFINE row == [old EXCEPT !.stage = to]
  <2>2. row \in ApplicationRecord /\ row.rev = old.rev /\ row.stage = to
    BY <1>4, <2>1 DEF ApplicationRecord, EmployerStages, Stages, Terminal
  <2>3. End(m, [db EXCEPT !.application[i] = Bumped(row)])
    BY <1>7 DEF ApplicantRow, PaperInv, PaperShape
  <2>4. Applied(to)
    BY <2>1 DEF EmployerStages, Applied
  <2> HIDE DEF row
  <2> QED
    BY <1>5, <2>2, <2>3, <2>4
<1> QED
  BY <1>1, <1>6, <1>7

LEMMA Applying ==
    ASSUME PaperInv, NEW m \in Requests, Open(m), Goes(m), ApplyRows(m)
    PROVE  Stands(m) /\ PaperStatement(m)'
<1> DEFINE new == Application(req[m].arg.by, req[m].arg.id, "APPLIED")  text == [db.text EXCEPT ![m] = Text("job")]
<1>1. /\ req'[m].do = req[m].do /\ req'[m].arg = req[m].arg /\ req'[m].at = "ingestJob" /\ req'[m].v = [of |-> <<"text", m>>]
      /\ db' = [db EXCEPT !.application[m] = new, !.text = text] /\ At(m, "applyRows")
  BY DoneBy DEF ApplyRows, ThenIngest, Ends
<1>2. req[m].do = "apply" /\ CalledFor("apply", req[m].arg)
  BY <1>1, NextAtHome DEF AtHome, At
<1>3. PaperRowsOf(m) = {Nil} /\ m \in Ids /\ db.ingest[m] = Nil
  BY <1>1, NothingYet DEF At
<1>4. new \in ApplicationRecord
  BY <1>2 DEF CalledFor, Application, ApplicationRecord, Stages
<1>5. db.application[m] = Nil /\ db.document[m] = Nil /\ db.version[m] = Nil
  BY <1>3 DEF PaperRowsOf
<1> HIDE DEF new, text
<1>6. Stands(m) /\ db'.ingest = db.ingest /\ db'.version = db.version /\ db'.document = db.document
  <2>1. db'.application[m] = new => ApplicationGrows(m, m)
    BY <1>5 DEF ApplicationGrows
  <2> QED
    BY <1>1, <1>3, <1>4, <2>1, ApplicationsStand
<1>7. HasRead(m)' /\ Spends(m)' /\ Overtaken(m)'
  <2>1. IngestJob(req'[m].v.of) \in IngestRecord /\ req'[m].v.of[1] # "fill"
    BY <1>1, <1>3 DEF IngestJob, IngestRecord, Texts
  <2> QED
    BY <1>1, <2>1 DEF HasRead, Spends, Overtaken, At
<1>8. Fresh(m)'
  BY <1>1, <1>2, <1>3, <1>5, <1>6 DEF Fresh, Ended, Ends, At
<1>9. CalledFor(req[m].do, req[m].arg)'
  BY <1>1, <1>6, CallStays DEF Stands, Open
<1>10. AtHome(req[m].do, "ingestJob")
  BY DEF AtHome, PaperHandlers, DocumentWriters, Spenders, Reporters
<1> QED
  BY <1>1, <1>6, <1>7, <1>8, <1>9, <1>10 DEF PaperStatement, At

-----------------------------------------------------------------------------
LEMMA Drawing ==
    ASSUME PaperInv, NEW m \in Requests, Open(m), Goes(m), DraftRow(m)
    PROVE  Stands(m) /\ PaperStatement(m)'
<1> DEFINE i == req[m].arg.id  w == req[m].arg.version
           new == [application |-> i, atRev |-> req[m].v.rev, version |-> w]
<1>1. /\ req'[m].do = req[m].do /\ req'[m].arg = req[m].arg /\ req'[m].at = "ok"
      /\ db' = [db EXCEPT !.draft[m] = new] /\ At(m, "draftRow")
  BY DoneBy DEF DraftRow, End
<1>2. req[m].do = "createDraft" /\ CalledFor("createDraft", req[m].arg) /\ HasRead(m)
  BY <1>1, NextAtHome DEF AtHome, At, PaperInv, PaperStatement
<1>3. PaperRowsOf(m) = {Nil} /\ m \in Ids /\ db.ingest[m] = Nil
  BY <1>1, NothingYet DEF At
<1>4. i \in Ids /\ w \in Ids /\ req[m].v \in ApplicationRecord /\ \E e \in Ids : db.finalized[e] = w
  BY <1>1, <1>2 DEF CalledFor, HasRead, At
<1>5. new \in DraftRecord /\ new.version = w
  BY <1>4 DEF DraftRecord, ApplicationRecord
<1> HIDE DEF new
<1>6. /\ db'.draft = [db.draft EXCEPT ![m] = new] /\ db'.application = db.application /\ db'.run = db.run
      /\ DocumentsKept /\ db'.approval = db.approval /\ db'.submission = db.submission /\ db'.ingest = db.ingest
      /\ PaperThere
  BY <1>1 DEF PaperInv, PaperShape, PaperThere, DocumentsKept
<1>7. db'.draft \in [Ids -> DraftRecord \cup {Nil}]
  <2>1. db.draft \in [Ids -> DraftRecord \cup {Nil}]
    BY DEF PaperInv, PaperShape
  <2> QED
    BY <1>5, <1>6, <2>1
<1>8. db'.draft[m] = new /\ (\A j \in Ids : j # m => db'.draft[j] = db.draft[j]) /\ db.draft[m] = Nil
  BY <1>3, <1>6 DEF PaperInv, PaperShape, PaperRowsOf
<1>9. \A j \in Ids : ApplicationGrows(m, j) /\ RunGrows(m, j)
  BY <1>6, KeptRowsGrow
<1>10. DraftIsFinal(m)'
  BY <1>4, <1>5, <1>6, <1>8 DEF DraftIsFinal, DocumentsKept
<1>11. RowsMove(m)
  BY <1>6, <1>8, <1>9, <1>10 DEF RowsMove, StillNone
<1>12. Stands(m)
  BY <1>6, <1>7, <1>11, RowsStand DEF PaperInv, PaperShape
<1> QED
  BY <1>1, <1>6, <1>12, EndsKept DEF Ends, DocumentsKept

\* One run changes, and no other row of these tables.
LEMMA RunsStand ==
    ASSUME PaperInv, NEW m \in Requests, Open(m), Goes(m), NEW i \in Ids, NEW new \in LaunchRecord, NEW blueprint,
           \/ db' = [db EXCEPT !.run[i] = new]
           \/ db' = [db EXCEPT !.run[i] = new, !.blueprint = blueprint],
           db'.run[i] = new => RunGrows(m, i),
           db'.run[i] = new /\ db'.approval = db.approval => RunIsTrue(i)',
           db.run[i] = Nil => i = m,
           req'[m].do = req[m].do, req'[m].arg = req[m].arg, req'[m].at \in Ends
    PROVE  Stands(m) /\ PaperStatement(m)'
<1>1. /\ db'.run = [db.run EXCEPT ![i] = new] /\ db'.draft = db.draft /\ db'.application = db.application
      /\ DocumentsKept /\ db'.approval = db.approval /\ db'.submission = db.submission /\ db'.ingest = db.ingest
      /\ PaperThere
  BY DEF PaperInv, PaperShape, PaperThere, DocumentsKept
<1>2. db'.run \in [Ids -> LaunchRecord \cup {Nil}]
  <2>1. db.run \in [Ids -> LaunchRecord \cup {Nil}]
    BY DEF PaperInv, PaperShape
  <2> QED
    BY <1>1, <2>1
<1>3. db'.run[i] = new /\ \A j \in Ids : j # i => db'.run[j] = db.run[j]
  BY <1>1 DEF PaperInv, PaperShape
<1>4. \A j \in Ids : ApplicationGrows(m, j) /\ RunGrows(m, j)
  BY <1>1, <1>3, KeptRowsGrow
<1>5. \A j \in Ids : j # m => StillNone(j)
  BY <1>1, <1>3 DEF StillNone
<1>6. RowsMove(m)
  BY <1>1, <1>3, <1>4, <1>5 DEF RowsMove
<1>7. Stands(m)
  BY <1>1, <1>2, <1>6, RowsStand DEF PaperInv, PaperShape
<1> QED
  BY <1>1, <1>7, EndsKept DEF DocumentsKept

LEMMA BumpedRun ==
    ASSUME NEW row \in LaunchRecord
    PROVE  /\ Bumped(row) \in LaunchRecord /\ Bumped(row) # Nil /\ Bumped(row).rev = row.rev + 1 /\ row.rev \in Nat
           /\ Bumped(row).state = row.state /\ Bumped(row).approval = row.approval /\ Bumped(row).launch = row.launch
<1> DEFINE rev == row.rev + 1
<1>1. Bumped(row) = [row EXCEPT !.rev = rev] /\ rev \in Nat
  BY DEF Bumped, LaunchRecord
<1> HIDE DEF rev
<1>2. /\ Bumped(row) \in LaunchRecord /\ Bumped(row).rev = rev /\ Bumped(row).state = row.state
      /\ Bumped(row).approval = row.approval /\ Bumped(row).launch = row.launch
  BY <1>1 DEF LaunchRecord
<1> QED
  BY <1>2, ProjectAssumption DEF rev, LaunchRecord

LEMMA Launching ==
    ASSUME PaperInv, NEW m \in Requests, Open(m), Goes(m), RunRows(m)
    PROVE  Stands(m) /\ PaperStatement(m)'
<1> DEFINE b == req[m].arg.id  new == Run(b)
           moved == [db.blueprint EXCEPT ![b] = Bumped([@ EXCEPT !.state = "IN_PROGRESS"])]
<1>1. At(m, "runRows")
  BY DEF RunRows
<1>2. req[m].do = "createRun" /\ CalledFor("createRun", req[m].arg)
  BY <1>1, NextAtHome DEF AtHome, At
<1>3. b \in Ids
  BY <1>2 DEF CalledFor
<1>4. /\ new \in LaunchRecord /\ new.state = "APPROVAL_REQUIRED" /\ new.launch = "NOT_CLAIMED" /\ new.approval = Nil
  BY <1>3 DEF Run, LaunchRecord
<1>5. \/ End(m, [db EXCEPT !.run[m] = new])
      \/ Do(m, "refused", Nil, [db EXCEPT !.run[m] = new])
      \/ End(m, [db EXCEPT !.run[m] = new, !.blueprint = moved])
  <2>1. [[db EXCEPT !.run[m] = new] EXCEPT !.blueprint[b] = Bumped([@ EXCEPT !.state = "IN_PROGRESS"])]
           = [db EXCEPT !.run[m] = new, !.blueprint = moved]
    BY DEF PaperInv, PaperShape
  <2> QED
    BY <2>1 DEF RunRows
<1> HIDE DEF new, moved
<1>6. /\ req'[m].do = req[m].do /\ req'[m].arg = req[m].arg /\ req'[m].at \in Ends
      /\ db' = [db EXCEPT !.run[m] = new] \/ db' = [db EXCEPT !.run[m] = new, !.blueprint = moved]
  BY <1>5, DoneBy DEF End, Ends
<1>7. db.run[m] = Nil /\ m \in Ids
  BY <1>1, NothingYet DEF At, PaperRowsOf
<1>8. db'.run[m] = new => RunGrows(m, m) /\ RunIsTrue(m)'
  BY <1>4, <1>7 DEF RunGrows, RunIsTrue
<1> QED
  BY <1>4, <1>6, <1>7, <1>8, RunsStand

LEMMA SavingRun ==
    ASSUME PaperInv, NEW m \in Requests, Open(m), Goes(m), SaveRun(m)
    PROVE  Stands(m) /\ PaperStatement(m)'
<1> DEFINE i == req[m].arg.id  v == req[m].v  old == db.run[i]  new == Bumped(v)
<1>1. At(m, "saveRun")
  BY DEF SaveRun
<1>2. req[m].do \in Reporters /\ CalledFor(req[m].do, req[m].arg) /\ RunHeld(i, v)
  BY <1>1, NextAtHome DEF AtHome, At, PaperInv, PaperStatement, HasRead
<1>3. i \in Ids /\ old # Nil /\ old \in LaunchRecord /\ RunIsTrue(i)
  BY <1>2 DEF CalledFor, PaperInv, PaperShape, AllSpent
<1>4. CASE Refuse(m)
  BY <1>4, RefusesWell
<1>5. CASE ~Refuse(m)
  <2>1. Same("run", i, v) /\ End(m, [db EXCEPT !.run[i] = new])
    BY <1>5 DEF SaveRun, Save
  <2>2. /\ v \in LaunchRecord /\ v.state # "APPROVAL_REQUIRED" /\ old.state # "APPROVAL_REQUIRED"
        /\ v.approval = old.approval /\ v.rev = old.rev
    BY <1>2, <2>1 DEF RunHeld, Same
  <2>3. /\ new \in LaunchRecord /\ new # Nil /\ new.rev = old.rev + 1 /\ old.rev \in Nat
        /\ new.state # "APPROVAL_REQUIRED" /\ new.approval = old.approval
    BY <2>2, BumpedRun
  <2> HIDE DEF new
  <2>4. /\ req'[m].do = req[m].do /\ req'[m].arg = req[m].arg /\ req'[m].at \in Ends /\ db' = [db EXCEPT !.run[i] = new]
    BY <2>1, DoneBy DEF End, Ends, new
  <2>5. db'.run[i] = new => RunGrows(m, i)
    BY <2>2, <2>3 DEF RunGrows
  <2>6. ASSUME NEW j, j = i PROVE db'.run[j] = new /\ db'.approval = db.approval => RunIsTrue(j)'
    BY <1>3, <2>2, <2>3, <2>6 DEF RunIsTrue, Approvals
  <2>7. PICK j : j = i
    OBVIOUS
  <2>8. j \in Ids /\ db' = [db EXCEPT !.run[j] = new] /\ (db'.run[j] = new => RunGrows(m, j)) /\ db.run[j] # Nil
    BY <1>3, <2>4, <2>5, <2>7
  <2>9. db'.run[j] = new /\ db'.approval = db.approval => RunIsTrue(j)'
    BY <2>6, <2>7
  <2> QED
    BY <2>3, <2>4, <2>8, <2>9, RunsStand
<1> QED
  BY <1>4, <1>5

-----------------------------------------------------------------------------
(***************************************************************************)
(* The statements that spend an approval.                                  *)
(***************************************************************************)

\* Approval a becomes row new, which is CONSUMED.
SpendsRow(a, new) ==
    LET old == db.approval[a] IN
    /\ old # Nil /\ old.state = "APPROVED" /\ old.rev \in Nat
    /\ new \in ApprovalRecord /\ new # Nil /\ new.kind = old.kind /\ new.target = old.target
    /\ new.state = "CONSUMED" /\ new.rev = old.rev + 1

LEMMA SpendsOne ==
    ASSUME PaperInv, NEW m \in Requests, Open(m), At(m, "spendRows"), Same("approval", req[m].arg.approval, req[m].v.approval)
    PROVE  LET a == req[m].arg.approval IN
           /\ a \in Ids /\ SpendsRow(a, Consumed(a)) /\ req[m].do \in Spenders
           /\ db.approval[a].kind = KindOf(req[m].do) /\ db.approval[a].target = Covered(m)
<1> DEFINE a == req[m].arg.approval  old == db.approval[a]  row == [old EXCEPT !.state = "CONSUMED"]
<1>1. req[m].do \in Spenders /\ CalledFor(req[m].do, req[m].arg) /\ Spends(m)
  BY NextAtHome DEF AtHome, At, PaperInv, PaperStatement
<1>2. a \in Ids /\ old # Nil
  BY <1>1 DEF CalledFor
<1>3. /\ old.kind = KindOf(req[m].do) /\ old.target = Covered(m)
      /\ req[m].v.approval.rev = old.rev => old.state = "APPROVED"
  BY <1>1 DEF Spends, At
<1>4. old.state = "APPROVED"
  BY <1>3 DEF Same
<1>5. old \in ApprovalRecord
  BY <1>2 DEF PaperInv, PaperShape
<1>6. /\ row \in ApprovalRecord /\ row.rev = old.rev /\ row.state = "CONSUMED" /\ row.kind = old.kind
      /\ row.target = old.target
  BY <1>5 DEF ApprovalRecord
<1>7. Consumed(a) = Bumped(row)
  BY DEF Consumed
<1> HIDE DEF row
<1>8. SpendsRow(a, Consumed(a))
  BY <1>2, <1>4, <1>6, <1>7, ApprovalBumped DEF SpendsRow
<1> QED
  BY <1>1, <1>2, <1>3, <1>8

\* What it says of the approvals.
SpentNow(a) ==
    /\ db'.approval \in [Ids -> ApprovalRecord \cup {Nil}]
    /\ \A b \in Ids : /\ ApprovalGrows(b) /\ (db.approval[b] = Nil <=> db'.approval[b] = Nil)
                      /\ db'.approval[b].target = db.approval[b].target
    /\ \A kind : kind # db.approval[a].kind => ConsumedKept(kind)
    /\ \A kind : kind = db.approval[a].kind =>
           /\ a \notin Approvals(kind, "CONSUMED")
           /\ Approvals(kind, "CONSUMED")' = Approvals(kind, "CONSUMED") \cup {a}

LEMMA SpendsNow ==
    ASSUME PaperInv, NEW a \in Ids, NEW new, SpendsRow(a, new), db'.approval = [db.approval EXCEPT ![a] = new]
    PROVE  SpentNow(a)
<1>0. new \in ApprovalRecord
  BY DEF SpendsRow
<1>1. db'.approval \in [Ids -> ApprovalRecord \cup {Nil}]
  <2>1. db.approval \in [Ids -> ApprovalRecord \cup {Nil}]
    BY DEF PaperInv, PaperShape
  <2> QED
    BY <1>0, <2>1
<1>2. db'.approval[a] = new /\ \A b \in Ids : b # a => db'.approval[b] = db.approval[b]
  BY DEF PaperInv, PaperShape
<1>3. ASSUME NEW b \in Ids
      PROVE  /\ ApprovalGrows(b) /\ (db.approval[b] = Nil <=> db'.approval[b] = Nil)
             /\ db'.approval[b].target = db.approval[b].target
  <2>1. CASE b # a
    BY <1>2, <2>1, KeptRowsGrow
  <2>2. CASE b = a
    <3>1. ApprovalGrows(b)
      BY <1>2, <2>2 DEF ApprovalGrows, SpendsRow
    <3> QED
      BY <1>2, <2>2, <3>1 DEF SpendsRow
  <2> QED
    BY <2>1, <2>2
<1>4. ASSUME NEW kind, kind # db.approval[a].kind PROVE ConsumedKept(kind)
  BY <1>2, <1>4 DEF ConsumedKept, Approvals, SpendsRow
<1>5. ASSUME NEW kind, kind = db.approval[a].kind
      PROVE  /\ a \notin Approvals(kind, "CONSUMED")
             /\ Approvals(kind, "CONSUMED")' = Approvals(kind, "CONSUMED") \cup {a}
  BY <1>2, <1>5 DEF Approvals, SpendsRow
<1> QED
  BY <1>1, <1>3, <1>4, <1>5 DEF SpentNow

\* m has met who took the row away.
LEMMA LostNow ==
    ASSUME PaperInv, NEW m \in Requests, Open(m), Goes(m), NEW h, req[m].do = h, NEW i, i = req[m].arg.id, NEW writers,
           MetAny(m, writers), req'[m].do = req[m].do, req'[m].arg = req[m].arg
    PROVE  Lost(h, i, writers)' /\ (At(m, "refused")' => LostAll(h, i, writers)')
<1>1. MetAny(m, writers)'
  BY MeetingsStay DEF PaperInv
<1>2. m \in Doing(h) /\ m \in Doing(h)'
  BY MeetingsStay DEF Doing, Open, PaperInv
<1>3. Lost(h, i, writers)'
  BY <1>1, <1>2 DEF Lost
<1> QED
  BY <1>2, <1>3 DEF LostAll

\* The rows that a submission or a start writes.
SpendsOn(m) ==
    /\ DocumentsKept /\ db'.draft = db.draft /\ db'.ingest = db.ingest /\ PaperThere
    /\ \A i \in Ids : /\ ApplicationGrows(m, i) /\ RunGrows(m, i)
                      /\ db.submission[i] # Nil => db'.submission[i] = db.submission[i]
                      /\ db'.run[i] # db.run[i] => RunIsTrue(i)'
                      /\ db.submission[i] = Nil /\ db'.submission[i] # Nil => SubmissionIsTrue(i)'
                      /\ i # m => /\ StillNone(i)
                                  /\ db.submission[i] = Nil => db'.submission[i] = Nil

LEMMA SpendsOnStand ==
    ASSUME PaperInv, NEW m \in Requests, Goes(m), NEW a \in Ids, db.approval[a] # Nil, SpentNow(a), SpendsOn(m),
           db.approval[a].kind # "finalize",
           db'.application \in [Ids -> ApplicationRecord \cup {Nil}], db'.run \in [Ids -> LaunchRecord \cup {Nil}],
           db'.submission \in [Ids -> SubmissionRecord \cup {Nil}],
           \A b \in Approvals("submit", "CONSUMED")' : \E s \in Ids : SubmittedBy(b)' = {s},
           db.approval[a].kind = "execute" => StartedBy(a)'
    PROVE  Stands(m)
<1>1. PaperShape'
  BY DEF PaperInv, PaperShape, PaperThere, SpendsOn, DocumentsKept, SpentNow
<1>2. \A d : VersionsOf(d)' = VersionsOf(d)
  BY DEF VersionsOf, SpendsOn, DocumentsKept
<1>3. \A i \in Ids : DocumentGrows(m, i) /\ ApprovalGrows(i)
  BY <1>2, KeptRowsGrow DEF SpendsOn, DocumentsKept, SpentNow
<1>4. NamesKept(m)
  <2> SUFFICES ASSUME NEW r \in Requests, r # m, PaperRowsOf(r) = {Nil} PROVE PaperRowsOf(r)' = {Nil}
    BY DEF NamesKept, SpendsOn, DocumentsKept
  <2>1. /\ r \in Ids /\ StillNone(r) /\ (db.submission[r] = Nil => db'.submission[r] = Nil)
        /\ (db.approval[r] = Nil <=> db'.approval[r] = Nil)
    BY DEF Ids, SpendsOn, SpentNow
  <2> QED
    BY <2>1 DEF PaperRowsOf, StillNone, SpendsOn, DocumentsKept
<1>5. \A r \in Requests : IngestGrows(r)
  BY DEF IngestGrows, SpendsOn
<1>6. Grows(m)
  BY <1>1, <1>3, <1>4, <1>5 DEF Grows, SpendsOn, DocumentsKept
<1>7. AllAgree'
  BY <1>6, AllAgreeStay DEF SpendsOn
<1>8. References'
  BY <1>6, ReferencesStep DEF SpendsOn, DocumentsKept, SpentNow
<1>9. AllSpent'
  <2>1. ConsumedKept("finalize")
    BY DEF SpentNow
  <2>2. \A w \in Ids : db'.version[w] # Nil => SpentOnce(w)'
    BY <1>6, <2>1, SpentOnceStays DEF SpendsOn, DocumentsKept
  <2>3. \A s \in Ids : db'.submission[s] # Nil => SubmissionIsTrue(s)'
    BY <1>6, SubmissionStays DEF SpendsOn
  <2>4. \A d \in Ids : db'.draft[d] # Nil => DraftIsFinal(d)'
    BY <1>6, DraftStays DEF SpendsOn
  <2>5. ASSUME NEW b \in Approvals("execute", "CONSUMED")' PROVE StartedBy(b)'
    <3>1. CASE b \in Approvals("execute", "CONSUMED")
      BY <1>6, <3>1, StartedStays
    <3>2. CASE b \notin Approvals("execute", "CONSUMED")
      BY <2>5, <3>2 DEF SpentNow, ConsumedKept
    <3> QED
      BY <3>1, <3>2
  <2>6. \A i \in Ids : db'.run[i] # Nil => RunIsTrue(i)'
    BY <1>6, RunStays DEF SpendsOn
  <2> QED
    BY <2>2, <2>3, <2>4, <2>5, <2>6 DEF AllSpent
<1> QED
  BY <1>6, <1>7, <1>8, <1>9 DEF Stands

LEMMA StartsRun ==
    ASSUME PaperInv, NEW m \in Requests, Open(m), Goes(m), StartRows(m)
    PROVE  Stands(m) /\ PaperStatement(m)'
<1>0. PICK a, i : a = req[m].arg.approval /\ i = req[m].arg.id
  OBVIOUS
<1> DEFINE v == req[m].v.run  old == db.run[i]  row == Consumed(a)
           next == [old EXCEPT !.state = "RUNNING", !.approval = a, !.device = req[m].arg.device]  new == Bumped(next)
<1>1. CASE Refuse(m)
  BY <1>1, RefusesWell
<1>2. CASE ~Refuse(m)
  <2>1. At(m, "spendRows") /\ Same("approval", a, req[m].v.approval) /\ req[m].do = "startRun"
    BY <1>0, <1>2 DEF StartRows
  <2>2. /\ a \in Ids /\ SpendsRow(a, row) /\ db.approval[a].kind = "execute" /\ db.approval[a].target = i
    BY <1>0, <2>1, SpendsOne DEF KindOf, Covered
  <2>3. CalledFor("startRun", req[m].arg) /\ Spends(m) /\ Overtaken(m)
    BY <2>1, NextAtHome DEF PaperInv, PaperStatement
  <2>4. /\ i \in Ids /\ old # Nil /\ old \in LaunchRecord /\ RunIsTrue(i) /\ req[m].arg.device \in Devices
        /\ RowHeld("run", i, v) /\ v.state = "APPROVAL_REQUIRED"
    BY <1>0, <2>1, <2>3 DEF CalledFor, PaperInv, PaperShape, AllSpent, Spends, At
  <2>5. db.submission[m] = Nil /\ m \in Ids
    BY <2>1, NothingYet DEF At, PaperRowsOf
  <2>6. ASSUME db'.submission = db.submission, ConsumedKept("submit"),
               NEW b \in Approvals("submit", "CONSUMED")'
        PROVE  \E s \in Ids : SubmittedBy(b)' = {s}
    BY <2>6, SubmittedStay
  <2>7. CASE ~Same("run", i, v)
    <3>1. /\ req'[m].do = req[m].do /\ req'[m].arg = req[m].arg /\ req'[m].at = "refused"
          /\ db' = [db EXCEPT !.approval[a] = row]
      BY <1>0, <1>2, <2>1, <2>7, DoneBy DEF StartRows
    <3> HIDE DEF row
    <3>2. /\ db'.approval = [db.approval EXCEPT ![a] = row] /\ DocumentsKept /\ db'.draft = db.draft
          /\ db'.ingest = db.ingest /\ PaperThere /\ db'.application = db.application /\ db'.submission = db.submission
          /\ db'.run = db.run
      BY <3>1 DEF PaperInv, PaperShape, PaperThere, DocumentsKept
    <3>3. SpentNow(a)
      BY <2>2, <3>2, SpendsNow
    <3>4. SpendsOn(m)
      <4>1. \A j \in Ids : ApplicationGrows(m, j) /\ RunGrows(m, j)
        BY <3>2, KeptRowsGrow
      <4> QED
        BY <3>2, <4>1 DEF SpendsOn, StillNone
    <3>5. StartedBy(a)'
      <4>1. MetAny(m, {"startRun"})
        BY <1>0, <2>1, <2>3, <2>4, <2>7 DEF Overtaken, Same
      <4>2. LostAll("startRun", i, {"startRun"})'
        BY <1>0, <2>1, <3>1, <4>1, LostNow DEF At
      <4>3. db'.approval[a].target = i
        BY <2>2, <3>3 DEF SpentNow
      <4> QED
        BY <4>2, <4>3 DEF StartedBy
    <3>6. Stands(m)
      BY <2>2, <2>6, <3>2, <3>3, <3>4, <3>5, SpendsOnStand DEF SpendsRow, SpentNow, PaperInv, PaperShape
    <3> QED
      BY <3>1, <3>2, <3>6, EndsKept DEF Ends, DocumentsKept
  <2>8. CASE Same("run", i, v)
    <3>1. /\ next \in LaunchRecord /\ next.rev = old.rev /\ next.state = "RUNNING" /\ next.approval = a
      BY <2>2, <2>4 DEF LaunchRecord
    <3>2. /\ req'[m].do = req[m].do /\ req'[m].arg = req[m].arg /\ req'[m].at = "ok"
          /\ db' = [db EXCEPT !.approval[a] = row, !.run[i] = new]
      <4>1. End(m, [[db EXCEPT !.approval[a] = row] EXCEPT !.run[i] = new])
        BY <1>0, <1>2, <2>1, <2>8 DEF StartRows, PaperInv, PaperShape
      <4> HIDE DEF row, new
      <4>2. [[db EXCEPT !.approval[a] = row] EXCEPT !.run[i] = new] = [db EXCEPT !.approval[a] = row, !.run[i] = new]
        BY DEF PaperInv, PaperShape
      <4> QED
        BY <4>1, <4>2, DoneBy DEF End
    <3> HIDE DEF next
    <3>3. /\ new \in LaunchRecord /\ new # Nil /\ new.rev = old.rev + 1 /\ old.rev \in Nat /\ new.state = "RUNNING"
          /\ new.approval = a
      BY <3>1, BumpedRun
    <3> HIDE DEF row, new
    <3>4. /\ db'.approval = [db.approval EXCEPT ![a] = row] /\ DocumentsKept /\ db'.draft = db.draft
          /\ db'.ingest = db.ingest /\ PaperThere /\ db'.application = db.application /\ db'.submission = db.submission
          /\ db'.run = [db.run EXCEPT ![i] = new]
      BY <3>2 DEF PaperInv, PaperShape, PaperThere, DocumentsKept
    <3>5. SpentNow(a)
      BY <2>2, <3>4, SpendsNow
    <3>6. db'.run \in [Ids -> LaunchRecord \cup {Nil}]
      <4>1. db.run \in [Ids -> LaunchRecord \cup {Nil}]
        BY DEF PaperInv, PaperShape
      <4> QED
        BY <3>3, <3>4, <4>1
    <3>7. db'.run[i] = new /\ \A j \in Ids : j # i => db'.run[j] = db.run[j]
      BY <2>4, <3>4 DEF PaperInv, PaperShape
    <3>8. old.state = "APPROVAL_REQUIRED" /\ old.approval = Nil
      BY <2>4, <2>8 DEF Same, RowHeld, RunIsTrue
    <3>9. RunGrows(m, i)
      BY <2>1, <3>3, <3>7, <3>8 DEF RunGrows
    <3>10. a \in Approvals("execute", "CONSUMED")' /\ db'.approval[a].target = i
      BY <2>2, <3>5 DEF SpentNow
    <3>11. RunIsTrue(i)'
      BY <2>2, <3>3, <3>7, <3>10, NilIsNoId DEF RunIsTrue
    <3>12. SpendsOn(m)
      <4>1. \A j \in Ids : ApplicationGrows(m, j) /\ RunGrows(m, j)
        BY <3>4, <3>7, <3>9, KeptRowsGrow
      <4>2. \A j \in Ids : db'.run[j] # db.run[j] => RunIsTrue(j)'
        BY <3>7, <3>11
      <4>3. \A j \in Ids : StillNone(j)
        BY <2>4, <3>4, <3>7 DEF StillNone
      <4> QED
        BY <3>4, <4>1, <4>2, <4>3 DEF SpendsOn
    <3>13. StartedBy(a)'
      BY <3>3, <3>7, <3>10 DEF StartedBy
    <3>14. Stands(m)
      BY <2>2, <2>6, <3>4, <3>5, <3>6, <3>12, <3>13, SpendsOnStand DEF SpendsRow, SpentNow, PaperInv, PaperShape
    <3> QED
      BY <3>2, <3>4, <3>14, EndsKept DEF Ends, DocumentsKept
  <2> QED
    BY <2>7, <2>8
<1> QED
  BY <1>1, <1>2

LEMMA Submits ==
    ASSUME PaperInv, NEW m \in Requests, Open(m), Goes(m), SubmitRows(m)
    PROVE  Stands(m) /\ PaperStatement(m)'
<1>0. PICK a, i, d : a = req[m].arg.approval /\ i = req[m].arg.id /\ d = req[m].arg.draft
  OBVIOUS
<1> DEFINE v == req[m].v.app  old == db.application[i]  row == Consumed(a)
           moves == Same("application", i, v) /\ ~Applied(v.stage)
           next == [old EXCEPT !.stage = "APPLIED"]  new == IF moves THEN Bumped(next) ELSE old
           sub == [application |-> i, approval |-> a, draft |-> d]
<1>1. CASE Refuse(m)
  BY <1>1, RefusesWell
<1>2. CASE ~Refuse(m)
  <2>1. At(m, "spendRows") /\ Same("approval", a, req[m].v.approval) /\ req[m].do = "submit"
    BY <1>0, <1>2 DEF SubmitRows
  <2>2. /\ a \in Ids /\ SpendsRow(a, row) /\ db.approval[a].kind = "submit" /\ db.approval[a].target = d
    BY <1>0, <2>1, SpendsOne DEF KindOf, Covered
  <2>3. CalledFor("submit", req[m].arg) /\ Spends(m) /\ Overtaken(m)
    BY <2>1, NextAtHome DEF PaperInv, PaperStatement
  <2>4. /\ i \in Ids /\ old # Nil /\ old \in ApplicationRecord /\ d \in Ids /\ db.draft[d] # Nil
        /\ RowHeld("application", i, v)
    BY <1>0, <2>1, <2>3 DEF CalledFor, PaperInv, PaperShape, Spends, At
  <2>5. db.submission[m] = Nil /\ m \in Ids
    BY <2>1, NothingYet DEF At, PaperRowsOf
  <2>6. sub \in SubmissionRecord /\ sub.application = i /\ sub.approval = a /\ sub.draft = d
    BY <2>2, <2>4 DEF SubmissionRecord
  <2>7. sub # Nil
    BY <2>6, ApplicationAssumption
  <2>8. /\ req'[m].do = req[m].do /\ req'[m].arg = req[m].arg /\ req'[m].at = "ok"
        /\ db' = [db EXCEPT !.approval[a] = row, !.submission[m] = sub, !.application[i] = new]
    <3>1. End(m, [db EXCEPT !.approval[a] = row, !.submission[m] = sub, !.application[i] = new])
      BY <1>0, <1>2, <2>1 DEF SubmitRows, PaperInv, PaperShape
    <3> HIDE DEF row, new, sub
    <3> QED
      BY <3>1, DoneBy DEF End
  <2>9. /\ new \in ApplicationRecord /\ new # Nil /\ old.rev \in Nat
        /\ moves => new.rev = old.rev + 1 /\ new.stage = "APPLIED"
        /\ ~moves => new = old
    <3>1. next \in ApplicationRecord /\ next.rev = old.rev /\ next.stage = "APPLIED" /\ old.rev \in Nat
      BY <2>4 DEF ApplicationRecord, Stages
    <3> HIDE DEF next
    <3> QED
      BY <2>4, <3>1, ApplicationBumped
  <2> HIDE DEF row, new, sub
  <2>10. /\ db'.approval = [db.approval EXCEPT ![a] = row] /\ DocumentsKept /\ db'.draft = db.draft
         /\ db'.ingest = db.ingest /\ PaperThere /\ db'.run = db.run
         /\ db'.application = [db.application EXCEPT ![i] = new]
         /\ db'.submission = [db.submission EXCEPT ![m] = sub]
    BY <2>8 DEF PaperInv, PaperShape, PaperThere, DocumentsKept
  <2>11. SpentNow(a)
    BY <2>2, <2>10, SpendsNow
  <2>12. db'.application \in [Ids -> ApplicationRecord \cup {Nil}]
    <3>1. db.application \in [Ids -> ApplicationRecord \cup {Nil}]
      BY DEF PaperInv, PaperShape
    <3> QED
      BY <2>9, <2>10, <3>1
  <2>13. db'.submission \in [Ids -> SubmissionRecord \cup {Nil}]
    <3>1. db.submission \in [Ids -> SubmissionRecord \cup {Nil}]
      BY DEF PaperInv, PaperShape
    <3> QED
      BY <2>6, <2>10, <3>1
  <2>14. /\ db'.application[i] = new /\ \A j \in Ids : j # i => db'.application[j] = db.application[j]
         /\ db'.submission[m] = sub /\ \A j \in Ids : j # m => db'.submission[j] = db.submission[j]
    BY <2>4, <2>5, <2>10 DEF PaperInv, PaperShape
  <2>15. ApplicationGrows(m, i)
    BY <2>9, <2>14 DEF ApplicationGrows, Applied
  <2>16. a \in Approvals("submit", "CONSUMED")' /\ db'.approval[a].target = d /\ a \notin Approvals("submit", "CONSUMED")
    BY <2>2, <2>11 DEF SpentNow
  <2>17. SubmissionIsTrue(m)'
    <3>1. Applied(db'.application[i].stage) \/ Lost("submit", i, {"patchApplication"})'
      <4>1. CASE moves
        BY <2>9, <2>14, <4>1 DEF Applied
      <4>2. CASE ~Same("application", i, v)
        <5>1. Applied(old.stage) \/ MetAny(m, {"patchApplication"})
          BY <1>0, <2>1, <2>3, <2>4, <4>2 DEF Overtaken, Same
        <5>2. CASE Applied(old.stage)
          BY <2>9, <2>14, <4>2, <5>2
        <5>3. CASE MetAny(m, {"patchApplication"})
          BY <1>0, <2>1, <2>8, <5>3, LostNow
        <5> QED
          BY <5>1, <5>2, <5>3
      <4>3. CASE Same("application", i, v) /\ Applied(v.stage)
        <5>1. old = v
          BY <2>4, <4>3 DEF Same, RowHeld
        <5> QED
          BY <2>9, <2>14, <4>3, <5>1
      <4> QED
        BY <4>1, <4>2, <4>3
    <3>2. /\ db'.submission[m].application = i /\ db'.submission[m].approval = a /\ db'.submission[m].draft = d
          /\ db'.draft[d] # Nil /\ db'.application[i] # Nil
      BY <2>4, <2>6, <2>9, <2>10, <2>14
    <3> QED
      BY <2>16, <3>1, <3>2 DEF SubmissionIsTrue
  <2>18. ASSUME NEW b \in Approvals("submit", "CONSUMED")' PROVE \E s \in Ids : SubmittedBy(b)' = {s}
    <3>1. CASE b = a
      <4>1. \A s \in Ids : db.submission[s] # Nil => db.submission[s].approval # a
        BY <2>16 DEF PaperInv, AllSpent, SubmissionIsTrue
      <4>2. \A s \in Ids : s \in SubmittedBy(b)' => s = m
        BY <2>14, <3>1, <4>1 DEF SubmittedBy
      <4>3. m \in SubmittedBy(b)'
        BY <2>5, <2>6, <2>7, <2>14, <3>1 DEF SubmittedBy
      <4>4. SubmittedBy(b)' \subseteq Ids
        BY DEF SubmittedBy
      <4> QED
        BY <2>5, <4>2, <4>3, <4>4
    <3>2. CASE b # a
      <4>1. b \in Approvals("submit", "CONSUMED")
        BY <2>2, <2>11, <2>18, <3>2 DEF SpentNow
      <4>2. SubmittedBy(b)' = SubmittedBy(b)
        BY <2>5, <2>6, <2>14, <3>2 DEF SubmittedBy
      <4> QED
        BY <4>1, <4>2 DEF PaperInv, AllSpent
    <3> QED
      BY <3>1, <3>2
  <2>19. SpendsOn(m)
    <3>1. \A j \in Ids : ApplicationGrows(m, j) /\ RunGrows(m, j)
      BY <2>10, <2>14, <2>15, KeptRowsGrow
    <3>2. \A j \in Ids : StillNone(j)
      BY <2>4, <2>10, <2>14 DEF StillNone
    <3>3. \A j \in Ids : /\ db.submission[j] # Nil => db'.submission[j] = db.submission[j]
                         /\ j # m /\ db.submission[j] = Nil => db'.submission[j] = Nil
                         /\ db.submission[j] = Nil /\ db'.submission[j] # Nil => j = m
      BY <2>5, <2>14
    <3>4. \A j \in Ids : db.submission[j] = Nil /\ db'.submission[j] # Nil => SubmissionIsTrue(j)'
      BY <2>17, <3>3
    <3> QED
      BY <2>10, <3>1, <3>2, <3>3, <3>4 DEF SpendsOn
  <2>20. Stands(m)
    BY <2>2, <2>10, <2>11, <2>12, <2>13, <2>18, <2>19, SpendsOnStand DEF SpendsRow, PaperInv, PaperShape
  <2> QED
    BY <2>8, <2>10, <2>20, EndsKept DEF Ends, DocumentsKept
<1> QED
  BY <1>1, <1>2

\* The approval of a finalization is spent: what the other tables say stands.
LEMMA FinalizingSpends ==
    ASSUME PaperInv, NEW m, Goes(m), Grows(m), NEW a \in Ids, SpentNow(a), db.approval[a].kind = "finalize",
           db'.submission = db.submission, db'.draft = db.draft, db'.run = db.run,
           \A w \in Ids : db'.version[w] # Nil => SpentOnce(w)'
    PROVE  AllSpent'
<1>1. ConsumedKept("submit") /\ ConsumedKept("execute")
  BY DEF SpentNow
<1>2. \A b \in Approvals("submit", "CONSUMED")' : \E s \in Ids : SubmittedBy(b)' = {s}
  BY <1>1, SubmittedStay
<1>3. \A s \in Ids : db'.submission[s] # Nil => SubmissionIsTrue(s)'
  BY SubmissionStays
<1>4. \A d \in Ids : db'.draft[d] # Nil => DraftIsFinal(d)'
  BY DraftStays
<1>5. \A b \in Approvals("execute", "CONSUMED")' : StartedBy(b)'
  BY <1>1, StartedStays DEF ConsumedKept
<1>6. \A i \in Ids : db'.run[i] # Nil => RunIsTrue(i)'
  BY RunStays
<1> QED
  BY <1>2, <1>3, <1>4, <1>5, <1>6 DEF AllSpent

LEMMA SpentOnOne ==
    ASSUME PaperInv, NEW a \in Ids, SpentNow(a), db.approval[a].kind = "finalize", NEW w \in Ids
    PROVE  /\ db.approval[a].target = w => SpentOn(w)' = SpentOn(w) \cup {a}
           /\ db.approval[a].target # w => SpentOn(w)' = SpentOn(w)
           /\ a \notin SpentOn(w)
<1>1. /\ a \notin Approvals("finalize", "CONSUMED")
      /\ Approvals("finalize", "CONSUMED")' = Approvals("finalize", "CONSUMED") \cup {a}
      /\ \A b \in Ids : db'.approval[b].target = db.approval[b].target
  BY DEF SpentNow
<1>2. Approvals("finalize", "CONSUMED") \subseteq Ids
  BY DEF Approvals
<1> QED
  BY <1>1, <1>2 DEF SpentOn

\* Another writer has the document: the approval alone is written.
LEMMA FinalizesNothing ==
    ASSUME PaperInv, NEW m \in Requests, Open(m), Goes(m), NEW a \in Ids, NEW row, SpendsRow(a, row),
           db.approval[a].kind = "finalize", NEW w \in Ids, db.approval[a].target = w,
           NEW d, d = req[m].arg.id, w \in VersionsOf(d), req[m].do = "finalize", MetAny(m, DocumentWriters),
           req'[m].do = req[m].do, req'[m].arg = req[m].arg, req'[m].at = "refused",
           db' = [db EXCEPT !.approval[a] = row]
    PROVE  Stands(m) /\ PaperStatement(m)'
<1>1. OthersKept /\ db'.approval = [db.approval EXCEPT ![a] = row]
  BY DEF OthersKept, DocumentsKept, PaperThere, PaperInv, PaperShape
<1>2. SpentNow(a)
  BY <1>1, SpendsNow
<1>3. Grows(m)
  BY <1>1, <1>2, ApprovalsGrow DEF SpentNow
<1>4. AllAgree'
  BY <1>1, <1>3, AllAgreeStay DEF OthersKept
<1>5. References'
  BY <1>1, <1>2, <1>3, ReferencesStep DEF OthersKept, DocumentsKept, SpentNow
<1>6. ASSUME NEW u \in Ids, db'.version[u] # Nil PROVE SpentOnce(u)'
  <2>1. CASE u = w
    <3>1. LostAll("finalize", d, DocumentWriters)'
      BY LostNow DEF At
    <3>2. db'.version[u].document = d
      BY <1>1, <2>1 DEF VersionsOf, OthersKept, DocumentsKept
    <3> QED
      BY <3>1, <3>2 DEF SpentOnce
  <2>2. CASE u # w
    <3>1. SpentOn(u)' = SpentOn(u)
      BY <1>2, <2>2, SpentOnOne
    <3>2. FinalizedAs(u)' = FinalizedAs(u)
      BY <1>1 DEF FinalizedAs, OthersKept, DocumentsKept
    <3> QED
      BY <1>3, <1>6, <3>1, <3>2, SpentOnceKept
  <2> QED
    BY <2>1, <2>2
<1>7. AllSpent'
  BY <1>1, <1>2, <1>3, <1>6, FinalizingSpends DEF OthersKept
<1>8. Stands(m)
  BY <1>3, <1>4, <1>5, <1>7 DEF Stands
<1> QED
  BY <1>1, <1>8, EndsKept DEF Ends, OthersKept, DocumentsKept

\* The document is written, the finalization and the approval.
FinalWritten(m, a, row, d, new, w) ==
    /\ db'.approval = [db.approval EXCEPT ![a] = row] /\ db'.document = [db.document EXCEPT ![d] = new]
    /\ db'.finalized = [db.finalized EXCEPT ![m] = w]
    /\ db'.version = db.version /\ db'.application = db.application /\ db'.draft = db.draft
    /\ db'.submission = db.submission /\ db'.run = db.run /\ PaperThere /\ db'.ingest = db.ingest

LEMMA FinalizedOnce ==
    ASSUME PaperInv, NEW m \in Requests, Goes(m), Grows(m), m \in Ids, db.finalized[m] = Nil,
           NEW a \in Ids, SpentNow(a), db.approval[a].kind = "finalize", NEW w \in Ids, db.approval[a].target = w,
           db'.finalized[m] = w, \A e \in Ids : e # m => db'.finalized[e] = db.finalized[e],
           NEW u \in Ids, db'.version[u] # Nil, db'.version = db.version
    PROVE  SpentOnce(u)'
<1>1. CASE u # w
  <2>1. SpentOn(u)' = SpentOn(u)
    BY <1>1, SpentOnOne
  <2>2. FinalizedAs(u)' = FinalizedAs(u)
    BY <1>1, NilIsNoId DEF FinalizedAs
  <2> QED
    BY <2>1, <2>2, SpentOnceKept
<1>2. CASE u = w
  <2>1. SpentOn(w)' = SpentOn(w) \cup {a} /\ a \notin SpentOn(w)
    BY SpentOnOne
  <2>2. FinalizedAs(w)' = FinalizedAs(w) \cup {m} /\ m \notin FinalizedAs(w)
    BY NilIsNoId DEF FinalizedAs
  <2>3. IsFiniteSet(SpentOn(w)) /\ IsFiniteSet(FinalizedAs(w))
    <3>1. SpentOn(w) \subseteq Ids /\ FinalizedAs(w) \subseteq Ids
      BY DEF SpentOn, Approvals, FinalizedAs
    <3> QED
      BY <3>1, FS_Subset DEF PaperInv
  <2>4. /\ Cardinality(SpentOn(w) \cup {a}) = Cardinality(SpentOn(w)) + 1
        /\ Cardinality(FinalizedAs(w) \cup {m}) = Cardinality(FinalizedAs(w)) + 1
    BY <2>1, <2>2, <2>3, FS_AddElement
  <2>5. SpentOnce(w)
    BY <1>2 DEF PaperInv, AllSpent
  <2>6. CASE Cardinality(SpentOn(w)) = Cardinality(FinalizedAs(w))
    BY <1>2, <2>1, <2>2, <2>4, <2>6 DEF SpentOnce
  <2>7. CASE LostAll("finalize", db.version[w].document, DocumentWriters)
    <3>1. PICK d : d = db.version[w].document
      OBVIOUS
    <3>2. LostAll("finalize", d, DocumentWriters)'
      BY <2>7, <3>1, MeetingsStay DEF PaperInv
    <3>3. d = db'.version[u].document
      BY <1>2, <3>1
    <3> QED
      BY <3>2, <3>3 DEF SpentOnce
  <2> QED
    BY <2>5, <2>6, <2>7 DEF SpentOnce
<1> QED
  BY <1>1, <1>2

LEMMA FinalizesOne ==
    ASSUME PaperInv, NEW m \in Requests, Open(m), Goes(m), NEW a \in Ids, NEW row, SpendsRow(a, row),
           db.approval[a].kind = "finalize", NEW w \in Ids, db.approval[a].target = w,
           NEW d \in Ids, w \in VersionsOf(d), db.document[d] # Nil, req[m].do = "finalize", ~At(m, "ingestJob"),
           NEW new \in DocumentRecord, new.rev = db.document[d].rev + 1, new.status = "FINALIZED", new.final = w,
           new.latest = db.document[d].latest, FinalWritten(m, a, row, d, new, w)
    PROVE  Stands(m)
<1>1. /\ PaperRowsOf(m) = {Nil} /\ m \in Ids /\ new # Nil /\ db.document[d].rev \in Nat
  BY NothingYet, DocumentAssumption DEF PaperInv, PaperShape, DocumentRecord
<1>2. db.finalized[m] = Nil /\ db.version[w] # Nil /\ db.version[w].document = d
  BY <1>1 DEF PaperRowsOf, VersionsOf
<1>3. /\ db'.document[d] = new /\ \A e \in Ids : e # d => db'.document[e] = db.document[e]
      /\ db'.finalized[m] = w /\ \A e \in Ids : e # m => db'.finalized[e] = db.finalized[e]
  BY <1>1 DEF FinalWritten, PaperInv, PaperShape
<1>4. SpentNow(a)
  BY SpendsNow DEF FinalWritten
<1>5. PaperShape'
  <2>1. db'.document \in [Ids -> DocumentRecord \cup {Nil}]
    <3>1. db.document \in [Ids -> DocumentRecord \cup {Nil}] /\ db'.document = [db.document EXCEPT ![d] = new]
      BY DEF FinalWritten, PaperInv, PaperShape
    <3> QED
      BY <3>1
  <2>2. db'.finalized \in [Ids -> Ids \cup {Nil}]
    <3>1. db.finalized \in [Ids -> Ids \cup {Nil}] /\ db'.finalized = [db.finalized EXCEPT ![m] = w]
      BY DEF FinalWritten, PaperInv, PaperShape
    <3> QED
      BY <3>1
  <2>3. db'.approval \in [Ids -> ApprovalRecord \cup {Nil}]
    BY <1>4 DEF SpentNow
  <2> QED
    BY <2>1, <2>2, <2>3 DEF FinalWritten, PaperInv, PaperShape, PaperThere
<1>6. \A e : VersionsOf(e)' = VersionsOf(e)
  BY DEF VersionsOf, FinalWritten
<1>7. Grows(m)
  <2>1. DocumentGrows(m, d)
    BY <1>1, <1>3 DEF DocumentGrows, DocumentWriters
  <2>2. \A i \in Ids : i # d => DocumentGrows(m, i)
    BY <1>3, <1>6, KeptRowsGrow
  <2>3. \A i \in Ids : ApprovalGrows(i) /\ ApplicationGrows(m, i) /\ RunGrows(m, i)
    BY <1>4, KeptRowsGrow DEF SpentNow, FinalWritten
  <2>4. NamesKept(m)
    <3> SUFFICES ASSUME NEW r \in Requests, r # m
                 PROVE  /\ PaperRowsOf(r) = {Nil} => PaperRowsOf(r)' = {Nil}
                        /\ db.document[r] = Nil <=> db'.document[r] = Nil
      BY DEF NamesKept, FinalWritten
    <3>1. r \in Ids
      BY DEF Ids
    <3>2. db.document[r] = Nil <=> db'.document[r] = Nil
      BY <1>1, <1>3, <3>1
    <3>3. db.approval[r] = Nil <=> db'.approval[r] = Nil
      BY <1>4, <3>1 DEF SpentNow
    <3>4. db'.finalized[r] = db.finalized[r]
      BY <1>3, <3>1
    <3> QED
      BY <3>2, <3>3, <3>4 DEF PaperRowsOf, FinalWritten
  <2>5. \A r \in Requests : IngestGrows(r)
    BY DEF IngestGrows, FinalWritten
  <2>6. \A i \in Ids : db.finalized[i] # Nil => db'.finalized[i] = db.finalized[i]
    BY <1>2, <1>3
  <2> QED
    BY <1>5, <2>1, <2>2, <2>3, <2>4, <2>5, <2>6 DEF Grows, FinalWritten
<1>8. FinalIsTrue(d)'
  <2>1. a \in Approvals("finalize", "CONSUMED")' /\ db'.approval[a].target = w
    BY <1>4 DEF SpentNow
  <2>2. w \in VersionsOf(d)' /\ \E e \in Ids : db'.finalized[e] = w
    BY <1>1, <1>3, <1>6
  <2>3. db'.document[d].final = w
    BY <1>3
  <2> QED
    BY <2>1, <2>2, <2>3 DEF FinalIsTrue
<1>9. Agrees(d)'
  <2>1. w # Nil
    BY NilIsNoId
  <2>2. new.status # "ARCHIVED" => (new.status = "FINALIZED" <=> new.final # Nil)
    BY <2>1
  <2> QED
    BY <1>3, <1>6, <1>7, <1>8, <2>2, RowAgrees
<1>10. ASSUME NEW e \in Ids, e # d, db'.document[e] # Nil PROVE Agrees(e)'
  BY <1>3, <1>6, <1>7, <1>10, AgreesStays
<1>11. AllAgree'
  BY <1>9, <1>10 DEF AllAgree
<1>12. References'
  <2>1. \A e \in Ids : db.finalized[e] = Nil /\ db'.finalized[e] # Nil => db'.version[db'.finalized[e]] # Nil
    BY <1>2, <1>3 DEF FinalWritten
  <2>2. \A b \in Ids : ~(db.approval[b] = Nil /\ db'.approval[b] # Nil)
    BY <1>4 DEF SpentNow
  <2> QED
    BY <1>7, <2>1, <2>2, ReferencesStep DEF FinalWritten
<1>13. \A u \in Ids : db'.version[u] # Nil => SpentOnce(u)'
  BY <1>1, <1>2, <1>3, <1>4, <1>7, FinalizedOnce DEF FinalWritten
<1>14. AllSpent'
  BY <1>4, <1>7, <1>13, FinalizingSpends DEF FinalWritten
<1> QED
  BY <1>7, <1>11, <1>12, <1>14 DEF Stands

LEMMA Finalizes ==
    ASSUME PaperInv, NEW m \in Requests, Open(m), Goes(m), FinalizeRows(m)
    PROVE  Stands(m) /\ PaperStatement(m)'
<1>0. PICK a, d, w : a = req[m].arg.approval /\ d = req[m].arg.id /\ w = req[m].arg.version
  OBVIOUS
<1> DEFINE v == req[m].v.doc  old == db.document[d]  row == Consumed(a)
           next == [old EXCEPT !.status = "FINALIZED", !.final = w]  new == Bumped(next)
<1>1. CASE Refuse(m)
  BY <1>1, RefusesWell
<1>2. CASE ~Refuse(m)
  <2>1. At(m, "spendRows") /\ Same("approval", a, req[m].v.approval) /\ req[m].do = "finalize" /\ ~At(m, "ingestJob")
    BY <1>0, <1>2 DEF FinalizeRows, At
  <2>2. a \in Ids /\ SpendsRow(a, row) /\ db.approval[a].kind = "finalize" /\ db.approval[a].target = w
    BY <1>0, <2>1, SpendsOne DEF KindOf, Covered
  <2>3. CalledFor("finalize", req[m].arg) /\ Overtaken(m)
    BY <2>1, NextAtHome DEF PaperInv, PaperStatement
  <2>4. d \in Ids /\ old # Nil /\ old \in DocumentRecord /\ w \in VersionsOf(d) /\ w \in Ids
    BY <1>0, <2>3 DEF CalledFor, DocumentWriters, PaperInv, PaperShape, VersionsOf
  <2>5. CASE ~Same("document", d, v)
    <3>1. /\ req'[m].do = req[m].do /\ req'[m].arg = req[m].arg /\ req'[m].at = "refused"
          /\ db' = [db EXCEPT !.approval[a] = row]
      BY <1>0, <1>2, <2>1, <2>5, DoneBy DEF FinalizeRows
    <3>2. MetAny(m, DocumentWriters)
      BY <1>0, <2>1, <2>3, <2>4, <2>5 DEF Overtaken, Same
    <3> HIDE DEF row
    <3> QED
      BY <1>0, <2>1, <2>2, <2>4, <3>1, <3>2, FinalizesNothing
  <2>6. CASE Same("document", d, v)
    <3>1. /\ next \in DocumentRecord /\ next.rev = old.rev /\ next.status = "FINALIZED" /\ next.final = w
          /\ next.latest = old.latest
      BY <2>4 DEF DocumentRecord
    <3>2. \E behind : End(m, [db EXCEPT !.approval[a] = row, !.document[d] = new, !.finalized[m] = w, !.behind = behind])
      <4> DEFINE behind == IF w = db.document[d].latest THEN db.behind ELSE db.behind \cup {<<"document", d>>}
      <4>1. End(m, [db EXCEPT !.approval[a] = row, !.document[d] = new, !.finalized[m] = w, !.behind = behind])
        BY <1>0, <1>2, <2>1, <2>6 DEF FinalizeRows, PaperInv, PaperShape
      <4> QED
        BY <4>1
    <3> HIDE DEF next
    <3>3. /\ new \in DocumentRecord /\ new.rev = old.rev + 1 /\ new.status = "FINALIZED" /\ new.final = w
          /\ new.latest = old.latest
      BY <3>1, BumpedDocument
    <3> HIDE DEF new, row
    <3>4. PICK behind : End(m, [db EXCEPT !.approval[a] = row, !.document[d] = new, !.finalized[m] = w, !.behind = behind])
      BY <3>2
    <3>5. /\ req'[m].do = req[m].do /\ req'[m].arg = req[m].arg /\ req'[m].at = "ok"
          /\ db' = [db EXCEPT !.approval[a] = row, !.document[d] = new, !.finalized[m] = w, !.behind = behind]
      BY <3>4, DoneBy DEF End
    <3>6. FinalWritten(m, a, row, d, new, w)
      BY <3>5 DEF FinalWritten, PaperThere, PaperInv, PaperShape
    <3>7. Stands(m)
      BY <2>1, <2>2, <2>4, <3>3, <3>6, FinalizesOne
    <3>8. db.document[m] = Nil /\ m # d /\ m \in Ids
      BY <2>1, <2>4, NothingYet DEF PaperRowsOf
    <3>9. db'.document[m] = Nil
      BY <2>4, <3>6, <3>8 DEF FinalWritten, PaperInv, PaperShape
    <3> QED
      BY <3>5, <3>6, <3>7, <3>9, EndsKept DEF Ends, FinalWritten
  <2> QED
    BY <2>5, <2>6
<1> QED
  BY <1>1, <1>2

-----------------------------------------------------------------------------
\* Every statement of a request keeps what holds.
LEMMA ApprovalsKeep ==
    ASSUME PaperInv, NEW m \in Requests, Open(m), Goes(m), ApprovalStatement(m)
    PROVE  Stands(m) /\ PaperStatement(m)'
  BY Creating, Deciding, DecidesRow, PlainApproval, Answering, Undoing, Telling DEF ApprovalStatement

LEMMA DocumentsKeep ==
    ASSUME PaperInv, NEW m \in Requests, Open(m), Goes(m), DocumentStatement(m)
    PROVE  Stands(m) /\ PaperStatement(m)'
<1>1. CASE PatchDocument(m) \/ CreateVersion(m) \/ ApplyEdits(m) \/ ApplyRevision(m) \/ ReadProposal(m) \/ Finalize(m)
           \/ Archive(m) \/ ConvertDocument(m)
  BY <1>1, ReadingDocument
<1>2. CASE FinalizeCheck(m) \/ SpendFinalize(m)
  BY <1>2, Spending
<1>3. CASE CreateDocument(m)
  BY <1>3, Drafting
<1>4. CASE Export(m) \/ ExportRow(m) \/ RecordExport(m) \/ RecordRow(m)
  BY <1>4, PlainDocument
<1> QED
  BY <1>1, <1>2, <1>3, <1>4, Patching, Saving, Finalizes, Archiving DEF DocumentStatement

LEMMA ApplicationsKeep ==
    ASSUME PaperInv, NEW m \in Requests, Open(m), Goes(m), ApplicationStatement(m)
    PROVE  Stands(m) /\ PaperStatement(m)'
<1>1. CASE PatchApplication(m) \/ CreateDraft(m) \/ DraftVersions(m) \/ Submit(m) \/ SubmitDraft(m)
  BY <1>1, ReadingApplication
<1>2. CASE SubmitCheck(m) \/ SpendSubmit(m)
  BY <1>2, Spending
<1>3. CASE ApplicationRow(m) \/ ApplicantRow(m)
  BY <1>3, PatchingApplication
<1>4. CASE Apply(m) \/ ApplyLook(m, "applyExisting", "applySnapshot") \/ ApplyLook(m, "applySnapshot", "applyRows")
           \/ PatchPosting(m) \/ PostingRow(m) \/ ClosePosting(m) \/ CloseRow(m) \/ PatchApplicant(m)
  BY <1>4, PlainApplication
<1> QED
  BY <1>1, <1>2, <1>3, <1>4, Drawing, Submits, Applying DEF ApplicationStatement

LEMMA ProjectsKeep ==
    ASSUME PaperInv, NEW m \in Requests, Open(m), Goes(m), ProjectStatement(m)
    PROVE  Stands(m) /\ PaperStatement(m)'
<1>1. CASE SelectProject(m) \/ SelectRow(m) \/ CreateRun(m) \/ RunGuard(m)
  BY <1>1, PlainProject
<1>2. CASE StartCheck(m) \/ SpendStart(m)
  BY <1>2, Spending
<1>3. CASE ReportLaunch(m) \/ RecoverRun(m) \/ ReportResult(m)
  BY <1>3, Reporting
<1> QED
  BY <1>1, <1>2, <1>3, Launching, Starting, StartsRun, SavingRun DEF ProjectStatement

LEMMA TextsKeep ==
    ASSUME PaperInv, NEW m \in Requests, Open(m), Goes(m), TextStatement(m)
    PROVE  Stands(m) /\ PaperStatement(m)'
<1>1. CASE CreateSource(m) \/ CreateEvidence(m) \/ CreatePosting(m) \/ CreateJob(m) \/ ArchiveEvidence(m) \/ ArchiveText(m)
           \/ DeleteSource(m)
  BY <1>1, PlainText
<1> QED
  BY <1>1, Drafting, Storing, PatchingJob DEF TextStatement

LEMMA PaperMovesKeep ==
    ASSUME PaperInv, NEW m \in Requests, PaperMove(m)
    PROVE  PaperInv'
<1>1. CASE ArrivesPaper(m)
  <2>1. Called(m)
    BY <1>1, ArrivesApproval, ArrivesDocument, ArrivesApplication, ArrivesProject, ArrivesText, ArrivesPatch DEF ArrivesPaper
  <2> QED
    BY <2>1, CalledGoes, CalledStands, PaperInvStep
<1>2. ASSUME Open(m), Takes(m),
             Goes(m) => Stands(m) /\ PaperStatement(m)'
      PROVE  PaperInv'
  BY <1>2, TakesGo, PaperInvStep
<1>3. CASE ApprovalStatement(m)
  BY <1>2, <1>3, ApprovalDoes, ApprovalsKeep
<1>4. CASE DocumentStatement(m)
  BY <1>2, <1>4, DocumentDoes, DocumentsKeep
<1>5. CASE ApplicationStatement(m)
  BY <1>2, <1>5, ApplicationDoes, ApplicationsKeep
<1>6. CASE ProjectStatement(m)
  BY <1>2, <1>6, ProjectDoes, ProjectsKeep
<1>7. CASE TextStatement(m)
  BY <1>2, <1>7, TextDoes, TextsKeep
<1>8. CASE Killed(m)
  BY <1>2, <1>8, KilledDoes, KilledWell
<1> QED
  BY <1>1, <1>3, <1>4, <1>5, <1>6, <1>7, <1>8, PaperCases

LEMMA PaperInvNext ==
    ASSUME PaperInv, [PaperNext]_vars
    PROVE  PaperInv'
<1>0. Nil \notin Requests
  BY CoreWorkerAssumption
<1>1. ASSUME NEW r \in Requests, PaperMove(r) PROVE PaperInv'
  BY <1>1, PaperMovesKeep
<1>2. CASE Lapse \/ Sweep \/ IngestStep
  BY <1>0, <1>2, LapseStands, SweepStands, JobsStand, PaperInvStep
<1>3. CASE UNCHANGED vars
  <2>1. Goes(Nil) /\ db' = db
    BY <1>3 DEF Goes, vars
  <2> QED
    BY <1>0, <2>1, UnchangedIsSame, SameStands, PaperInvStep
<1> QED
  BY <1>1, <1>2, <1>3 DEF PaperNext

LEMMA PaperInvInit == PaperInit => PaperInv
<1> SUFFICES ASSUME PaperInit PROVE PaperInv
  OBVIOUS
<1>1. HistoryOK
  BY HistoryInit DEF PaperInit
<1>2. ASSUME NEW r \in Requests PROVE PaperStatement(r)
  <2>1. req[r].at = "new" /\ req[r].do = "none" /\ PaperRowsOf(r) = {Nil} /\ db.ingest[r] = Nil
    BY DEF PaperInit, RequestsInit
  <2>2. AtHome("none", "new") /\ "none" # "convertSource"
    BY DEF AtHome, PaperHandlers, DocumentWriters, Spenders, Reporters
  <2>3. HasRead(r) /\ Spends(r) /\ Overtaken(r)
    BY <2>1 DEF HasRead, Spends, Overtaken, At
  <2>4. Fresh(r)
    BY <2>1 DEF Fresh, PaperRowsOf, At
  <2> QED
    BY <2>1, <2>2, <2>3, <2>4 DEF PaperStatement, At
<1> QED
  BY <1>1, <1>2 DEF PaperInit, PaperInv

LEMMA PaperHolds == PaperSpec => []PaperInv
<1>1. PaperInv /\ [PaperNext]_vars => PaperInv'
  BY PaperInvNext
<1> QED
  BY PaperInvInit, <1>1, PTL DEF PaperSpec

\* DocumentAgrees: what a document says is final or newest is so, whatever
\* edits, finalizations, conversions and jobs cross.
THEOREM DocumentsAgree == PaperSpec => []DocumentAgrees
<1>1. PaperInv => DocumentAgrees
  BY DEF PaperInv, AllAgree, Agrees, FinalIsTrue, Newest, DocumentAgrees
<1> QED
  BY <1>1, PaperHolds, PTL

\* SpentApprovals: an approval is spent once, on what it was given for, and
\* nothing final, submitted or started goes without one.
THEOREM ApprovalsAreSpent == PaperSpec => []SpentApprovals
<1>1. PaperInv => SpentApprovals
  <2> SUFFICES ASSUME PaperInv PROVE SpentApprovals
    OBVIOUS
  <2>1. ASSUME NEW w \in Ids, db.version[w] # Nil
        PROVE  \/ Cardinality({a \in Approvals("finalize", "CONSUMED") : db.approval[a].target = w})
                  = Cardinality({e \in Ids : db.finalized[e] = w})
               \/ LostAll("finalize", db.version[w].document, DocumentWriters)
    BY <2>1 DEF PaperInv, AllSpent, SpentOnce, SpentOn, FinalizedAs
  <2>2. ASSUME NEW a \in Approvals("submit", "CONSUMED")
        PROVE  Cardinality({s \in Ids : db.submission[s] # Nil /\ db.submission[s].approval = a}) = 1
    <3>1. PICK s \in Ids : {t \in Ids : db.submission[t] # Nil /\ db.submission[t].approval = a} = {s}
      BY DEF PaperInv, AllSpent, SubmittedBy
    <3> QED
      BY <3>1, FS_Singleton
  <2>3. ASSUME NEW s \in Ids, db.submission[s] # Nil
        PROVE  LET sub == db.submission[s] IN
               /\ sub.approval \in Approvals("submit", "CONSUMED")
               /\ db.approval[sub.approval].target = sub.draft
               /\ \E e \in Ids : db.finalized[e] = db.draft[sub.draft].version
               /\ \/ Applied(db.application[sub.application].stage)
                  \/ Lost("submit", sub.application, {"patchApplication"})
    <3>1. SubmissionIsTrue(s) /\ db.submission[s].draft \in Ids
      BY <2>3 DEF PaperInv, AllSpent, PaperShape, SubmissionRecord
    <3>2. DraftIsFinal(db.submission[s].draft)
      BY <3>1 DEF PaperInv, AllSpent, SubmissionIsTrue
    <3> QED
      BY <3>1, <3>2 DEF SubmissionIsTrue, DraftIsFinal
  <2>4. ASSUME NEW a \in Approvals("execute", "CONSUMED")
        PROVE  \/ db.run[db.approval[a].target].approval = a
               \/ LostAll("startRun", db.approval[a].target, {"startRun"})
    BY DEF PaperInv, AllSpent, StartedBy
  <2>5. ASSUME NEW i \in Ids, db.run[i] # Nil
        PROVE  LET run == db.run[i] IN
               /\ run.state = "APPROVAL_REQUIRED" <=> run.approval = Nil
               /\ run.approval # Nil => /\ run.approval \in Approvals("execute", "CONSUMED")
                                        /\ db.approval[run.approval].target = i
    BY <2>5 DEF PaperInv, AllSpent, RunIsTrue
  <2> QED
    BY <2>1, <2>2, <2>3, <2>4, <2>5 DEF SpentApprovals
<1> QED
  BY <1>1, PaperHolds, PTL

-----------------------------------------------------------------------------
(***************************************************************************)
(* The index.                                                              *)
(***************************************************************************)

IndexShape ==
    /\ {"text", "edited", "node", "reads", "behind"} \subseteq DOMAIN db
    /\ db.text \in [Ids -> TextRecord \cup {Nil}]
    /\ db.edited \in [Ids -> EditedRecord \cup {Nil}]
    /\ DOMAIN db.node = Texts
    /\ DOMAIN db.reads = Requests

Shelved(of) == of[1] = "text" /\ db.text[of[2]] # Nil /\ db.text[of[2]].archived
Excused(of) == of \in db.behind \/ \E r \in Requests : At(r, "killed")

\* A job of the text will be stored, is there and has read nothing older; or its
\* nodes are of the text as it is.
WillStore(of) == \E r \in Requests : At(r, "ingestJob") /\ req[r].v.of = of
WillRead(of) ==
    \E j \in Requests : /\ db.ingest[j] # Nil /\ db.ingest[j].of = of /\ db.ingest[j].over \in {Nil, "dead"}
                        /\ db.reads[j] \subseteq {TextOf(of)}
IsIndexed(of) == db.node[of] = TextOf(of) /\ \A j \in Reading(of) : db.reads[j] = {TextOf(of)}

\* One run at a time is about to write nodes, and none is where there is no text.
OneReads(of) == \A j \in Reading(of) : (\E text \in db.reads[j] : db.reads[j] = {text}) /\ \A k \in Reading(of) : k = j
NoText(of) == TextOf(of) = Nil => db.node[of] = Nil /\ Reading(of) = {}

Tended(of) == (WillStore(of) \/ WillRead(of) \/ IsIndexed(of)) /\ NoText(of)
IndexNow(of) == Excused(of) \/ (OneReads(of) /\ (Shelved(of) \/ Tended(of)))

\* A document's text is its latest version's, a job's first version is in no
\* index, and what a handler writes back is a row.
FinalIsLatest(d) ==
    \/ db.document[d] = Nil \/ db.document[d].final \in {Nil, db.document[d].latest}
    \/ <<"document", d>> \in db.behind
FilledIsBehind(r) == db.version[r] # Nil /\ db.version[r].document = r => <<"document", r>> \in db.behind
WritesBack(r) ==
    /\ At(r, "jobRow") => req[r].v \in EditedRecord
    /\ At(r, "archiveText") => req[r].v \in TextRecord

IndexInv ==
    /\ PaperInv /\ IndexShape
    /\ \A of \in Texts : IndexNow(of)
    /\ \A d \in Ids : FinalIsLatest(d)
    /\ \A r \in Requests : FilledIsBehind(r) /\ WritesBack(r) /\ (db.ingest[r] = Nil => db.reads[r] = {})

\* As a behaviour begins, no job is under way.
IndexInit ==
    /\ PaperInit /\ IndexShape
    /\ \A r \in Requests : db.reads[r] = {}
    /\ \A of \in Texts : Excused(of) \/ Shelved(of) \/ db.node[of] = TextOf(of)
    /\ \A d \in Ids : FinalIsLatest(d)
IndexSpec == IndexInit /\ [][PaperNext]_vars

-----------------------------------------------------------------------------
IndexTables == {"text", "edited", "node", "ingest", "reads", "behind", "document", "version"}

SameIndex(tables) ==
    /\ DOMAIN tables = DOMAIN db
    /\ tables.text = db.text /\ tables.edited = db.edited /\ tables.node = db.node
    /\ tables.ingest = db.ingest /\ tables.reads = db.reads /\ tables.behind = db.behind
    /\ tables.document = db.document /\ tables.version = db.version

\* A statement that writes no text and nothing of the index, and reads no row
\* to write it back.
Untexted(r) ==
    /\ Open(r) /\ ~At(r, "ingestJob")
    /\ \E statement, v, tables :
           statement \notin {"new", "jobRow", "archiveText"} /\ SameIndex(tables) /\ Do(r, statement, v, tables)

LEMMA UntextedTables ==
    ASSUME IndexTables \subseteq DOMAIN db, NEW x
    PROVE  /\ SameIndex(db)
           /\ SameIndex([db EXCEPT !.approval = x])
           /\ SameIndex([db EXCEPT !.job = x])
           /\ SameIndex([db EXCEPT !.proposal = x])
           /\ SameIndex([db EXCEPT !.export = x])
           /\ SameIndex([db EXCEPT !.application = x])
           /\ SameIndex([db EXCEPT !.draft = x])
           /\ SameIndex([db EXCEPT !.submission = x])
           /\ SameIndex([db EXCEPT !.posting = x])
           /\ SameIndex([db EXCEPT !.blueprint = x])
           /\ SameIndex([db EXCEPT !.run = x])
  BY DEF IndexTables, SameIndex

LEMMA UntextedDo ==
    ASSUME IndexTables \subseteq DOMAIN db, NEW r \in Requests, Open(r), ~At(r, "ingestJob"),
           NEW statement, statement \notin {"new", "jobRow", "archiveText"}, NEW v, NEW x
    PROVE  /\ GoOn(r, statement, v) => Untexted(r)
           /\ Do(r, statement, v, [db EXCEPT !.approval = x]) => Untexted(r)
           /\ Do(r, statement, v, [db EXCEPT !.job = x]) => Untexted(r)
           /\ Do(r, statement, v, [db EXCEPT !.proposal = x]) => Untexted(r)
           /\ Do(r, statement, v, [db EXCEPT !.export = x]) => Untexted(r)
           /\ Do(r, statement, v, [db EXCEPT !.application = x]) => Untexted(r)
           /\ Do(r, statement, v, [db EXCEPT !.draft = x]) => Untexted(r)
           /\ Do(r, statement, v, [db EXCEPT !.submission = x]) => Untexted(r)
           /\ Do(r, statement, v, [db EXCEPT !.posting = x]) => Untexted(r)
           /\ Do(r, statement, v, [db EXCEPT !.blueprint = x]) => Untexted(r)
           /\ Do(r, statement, v, [db EXCEPT !.run = x]) => Untexted(r)
  BY UntextedTables DEF Untexted, GoOn

LEMMA ApprovalsUntexted ==
    ASSUME IndexTables \subseteq DOMAIN db, NEW r \in Requests,
           ApprovalStatement(r)
    PROVE  Untexted(r)
<1>1. \A statement, v, x :
         /\ Open(r) /\ ~At(r, "ingestJob") /\ statement \notin {"new", "jobRow", "archiveText"} =>
               /\ GoOn(r, statement, v) => Untexted(r)
               /\ Do(r, statement, v, [db EXCEPT !.approval = x]) => Untexted(r)
               /\ Do(r, statement, v, [db EXCEPT !.job = x]) => Untexted(r)
  BY UntextedDo
<1> USE <1>1 DEF Refuse, GoOn, End, Open, Ended, Ends, At
<1>2. CASE Create(r) \/ Decide(r) \/ DecideRow(r) \/ Resolve(r)
  BY <1>2 DEF Create, Decide, DecideRow, Resolve, Load
<1>3. CASE Answer(r) \/ StoreJob(r) \/ TellWaiting(r)
  BY <1>3 DEF Answer, StoreJob, TellWaiting
<1>4. CASE PostMessage(r) \/ EnqueueMessage(r) \/ TellTurn(r)
  BY <1>4 DEF PostMessage, EnqueueMessage, TellTurn
<1>5. CASE Undo(r)
  <2>1. Open(r) /\ ~At(r, "ingestJob") /\ Do(r, "refused", Nil, Unanswered(r))
    BY <1>5 DEF Undo
  <2>2. SameIndex(Unanswered(r))
    BY DEF Unanswered, SameIndex, IndexTables
  <2> QED
    BY <2>1, <2>2 DEF Untexted
<1> QED
  BY <1>2, <1>3, <1>4, <1>5 DEF ApprovalStatement

LEMMA DocumentsUntexted ==
    ASSUME IndexTables \subseteq DOMAIN db, NEW r \in Requests,
           \/ PatchDocument(r) \/ CreateVersion(r) \/ ApplyEdits(r) \/ ApplyRevision(r) \/ ReadProposal(r) \/ Finalize(r)
           \/ FinalizeCheck(r) \/ SpendFinalize(r) \/ Archive(r) \/ ConvertDocument(r)
           \/ Export(r) \/ ExportRow(r) \/ RecordExport(r) \/ RecordRow(r)
    PROVE  Untexted(r)
<1>1. \A statement, v, x :
         /\ Open(r) /\ ~At(r, "ingestJob") /\ statement \notin {"new", "jobRow", "archiveText"} =>
               /\ GoOn(r, statement, v) => Untexted(r)
               /\ Do(r, statement, v, [db EXCEPT !.export = x]) => Untexted(r)
  BY UntextedDo
<1> USE <1>1 DEF Refuse, GoOn, End, Open, Ended, Ends, At
<1>2. CASE PatchDocument(r) \/ CreateVersion(r) \/ ApplyEdits(r) \/ ApplyRevision(r) \/ ReadProposal(r)
  BY <1>2 DEF PatchDocument, CreateVersion, ApplyEdits, ApplyRevision, ReadProposal, Load
<1>3. CASE Finalize(r) \/ FinalizeCheck(r) \/ SpendFinalize(r) \/ Archive(r) \/ ConvertDocument(r)
  BY <1>3 DEF Finalize, FinalizeCheck, SpendFinalize, Spend, Archive, ConvertDocument, Load
<1>4. CASE Export(r) \/ ExportRow(r) \/ RecordExport(r) \/ RecordRow(r)
  BY <1>4 DEF Export, ExportRow, RecordExport, RecordRow, Load
<1> QED
  BY <1>2, <1>3, <1>4

LEMMA ApplicationsUntexted ==
    ASSUME IndexTables \subseteq DOMAIN db, NEW r \in Requests,
           ApplicationStatement(r), ~ApplyRows(r)
    PROVE  Untexted(r)
<1>1. \A statement, v, x :
         /\ Open(r) /\ ~At(r, "ingestJob") /\ statement \notin {"new", "jobRow", "archiveText"} =>
               /\ GoOn(r, statement, v) => Untexted(r)
               /\ Do(r, statement, v, [db EXCEPT !.application = x]) => Untexted(r)
               /\ Do(r, statement, v, [db EXCEPT !.draft = x]) => Untexted(r)
               /\ Do(r, statement, v, [db EXCEPT !.posting = x]) => Untexted(r)
               /\ Do(r, statement, v, [db EXCEPT !.submission = x]) => Untexted(r)
               /\ Do(r, statement, v, [db EXCEPT !.approval = x]) => Untexted(r)
  BY UntextedDo
<1> USE <1>1 DEF Refuse, GoOn, End, Open, Ended, Ends, At
<1>2. CASE PatchApplication(r) \/ ApplicationRow(r) \/ CreateDraft(r) \/ DraftVersions(r) \/ DraftRow(r)
  BY <1>2 DEF PatchApplication, ApplicationRow, CreateDraft, DraftVersions, DraftRow, Load, Save
<1>3. CASE Submit(r) \/ SubmitDraft(r) \/ SubmitCheck(r) \/ SpendSubmit(r)
  BY <1>3 DEF Submit, SubmitDraft, SubmitCheck, SpendSubmit, Spend, Load
<1>4. CASE SubmitRows(r)
  <2>1. Open(r) /\ ~At(r, "ingestJob")
    BY <1>4 DEF SubmitRows
  <2>2. CASE Refuse(r)
    BY <2>1, <2>2
  <2>3. CASE ~Refuse(r)
    <3>1. PICK x, y, z : Do(r, "ok", req[r].v, [[[db EXCEPT !.approval = x] EXCEPT !.submission = y] EXCEPT !.application = z])
      BY <1>4, <2>3 DEF SubmitRows
    <3>2. SameIndex([[[db EXCEPT !.approval = x] EXCEPT !.submission = y] EXCEPT !.application = z])
      BY DEF SameIndex, IndexTables
    <3> QED
      BY <2>1, <3>1, <3>2 DEF Untexted
  <2> QED
    BY <2>2, <2>3
<1>5. CASE \/ Apply(r) \/ ApplyLook(r, "applyExisting", "applySnapshot") \/ ApplyLook(r, "applySnapshot", "applyRows")
  BY <1>5 DEF Apply, ApplyLook, Load
<1>6. CASE PatchPosting(r) \/ PostingRow(r) \/ ClosePosting(r) \/ CloseRow(r) \/ PatchApplicant(r) \/ ApplicantRow(r)
  BY <1>6 DEF PatchPosting, PostingRow, ClosePosting, CloseRow, PatchApplicant, ApplicantRow, Load, Save
<1> QED
  BY <1>2, <1>3, <1>4, <1>5, <1>6 DEF ApplicationStatement

LEMMA ProjectsUntexted ==
    ASSUME IndexTables \subseteq DOMAIN db, NEW r \in Requests,
           ProjectStatement(r)
    PROVE  Untexted(r)
<1>1. \A statement, v, x :
         /\ Open(r) /\ ~At(r, "ingestJob") /\ statement \notin {"new", "jobRow", "archiveText"} =>
               /\ GoOn(r, statement, v) => Untexted(r)
               /\ Do(r, statement, v, [db EXCEPT !.blueprint = x]) => Untexted(r)
               /\ Do(r, statement, v, [db EXCEPT !.run = x]) => Untexted(r)
               /\ Do(r, statement, v, [db EXCEPT !.approval = x]) => Untexted(r)
  BY UntextedDo
<1> USE <1>1 DEF Refuse, GoOn, End, Open, Ended, Ends, At
<1>2. CASE SelectProject(r) \/ SelectRow(r) \/ CreateRun(r) \/ RunGuard(r)
  BY <1>2 DEF SelectProject, SelectRow, CreateRun, RunGuard, Load, Save
<1>3. CASE StartRun(r) \/ StartCheck(r) \/ SpendStart(r)
  BY <1>3 DEF StartRun, StartCheck, SpendStart, Spend, Load
<1>4. CASE SaveRun(r) \/ ReportLaunch(r) \/ RecoverRun(r) \/ ReportResult(r)
  BY <1>4 DEF SaveRun, ReportLaunch, RecoverRun, ReportResult, Report, Save
<1>5. CASE RunRows(r)
  <2> DEFINE b == req[r].arg.id
             ran == [db EXCEPT !.run[r] = Run(b)]
             moved == [ran EXCEPT !.blueprint[b] = Bumped([@ EXCEPT !.state = "IN_PROGRESS"])]
  <2>1. Open(r) /\ ~At(r, "ingestJob")
    BY <1>5 DEF RunRows
  <2>2. SameIndex(ran) /\ SameIndex(moved)
    BY DEF SameIndex, IndexTables
  <2>3. End(r, ran) \/ Do(r, "refused", Nil, ran) \/ End(r, moved)
    BY <1>5 DEF RunRows
  <2> HIDE DEF ran, moved
  <2> QED
    BY <2>1, <2>2, <2>3 DEF Untexted
<1>6. CASE StartRows(r)
  <2> DEFINE a == req[r].arg.approval
             i == req[r].arg.id
             spent == [db EXCEPT !.approval[a] = Consumed(a)]
             started == [spent EXCEPT !.run[i] = Bumped([@ EXCEPT !.state = "RUNNING", !.approval = a,
                                                                   !.device = req[r].arg.device])]
  <2>1. Open(r) /\ ~At(r, "ingestJob")
    BY <1>6 DEF StartRows
  <2>2. SameIndex(spent) /\ SameIndex(started)
    BY DEF SameIndex, IndexTables
  <2>3. Refuse(r) \/ Do(r, "refused", Nil, spent) \/ End(r, started)
    BY <1>6 DEF StartRows
  <2> HIDE DEF spent, started
  <2>4. CASE Refuse(r)
    BY <2>1, <2>4
  <2> QED
    BY <2>1, <2>2, <2>3, <2>4 DEF Untexted
<1> QED
  BY <1>2, <1>3, <1>4, <1>5, <1>6 DEF ProjectStatement

-----------------------------------------------------------------------------
LEMMA TextParts ==
    ASSUME NEW of \in Texts
    PROVE  /\ of[1] \in {"document", "edited", "text"} /\ of[2] \in Ids /\ of = <<of[1], of[2]>>
  BY DEF Texts

LEMMA TextsAre ==
    ASSUME NEW i
    PROVE  /\ TextOf(<<"document", i>>) =
                 IF db.document[i] = Nil THEN Nil
                 ELSE IF db.document[i].final # Nil THEN db.document[i].final ELSE db.document[i].latest
           /\ TextOf(<<"edited", i>>) = IF db.edited[i] = Nil THEN Nil ELSE db.edited[i].cols
           /\ TextOf(<<"text", i>>) =
                 IF db.text[i] = Nil THEN Nil ELSE IF db.text[i].archived THEN Nil ELSE db.text[i].kind
           /\ TextOf(<<"document", i>>)' =
                 IF db'.document[i] = Nil THEN Nil
                 ELSE IF db'.document[i].final # Nil THEN db'.document[i].final ELSE db'.document[i].latest
           /\ TextOf(<<"edited", i>>)' = IF db'.edited[i] = Nil THEN Nil ELSE db'.edited[i].cols
           /\ TextOf(<<"text", i>>)' =
                 IF db'.text[i] = Nil THEN Nil ELSE IF db'.text[i].archived THEN Nil ELSE db'.text[i].kind
<1>1. TextOf(<<"document", i>>) =
         IF db.document[i] = Nil THEN Nil
         ELSE IF db.document[i].final # Nil THEN db.document[i].final ELSE db.document[i].latest
  BY DEF TextOf
<1>2. TextOf(<<"edited", i>>) = IF db.edited[i] = Nil THEN Nil ELSE db.edited[i].cols
  BY DEF TextOf
<1>3. TextOf(<<"text", i>>) = IF db.text[i] = Nil THEN Nil ELSE IF db.text[i].archived THEN Nil ELSE db.text[i].kind
  BY DEF TextOf
<1>4. TextOf(<<"document", i>>)' =
         IF db'.document[i] = Nil THEN Nil
         ELSE IF db'.document[i].final # Nil THEN db'.document[i].final ELSE db'.document[i].latest
  BY DEF TextOf
<1>5. TextOf(<<"edited", i>>)' = IF db'.edited[i] = Nil THEN Nil ELSE db'.edited[i].cols
  BY DEF TextOf
<1>6. TextOf(<<"text", i>>)' =
         IF db'.text[i] = Nil THEN Nil ELSE IF db'.text[i].archived THEN Nil ELSE db'.text[i].kind
  BY DEF TextOf
<1> QED
  BY <1>1, <1>2, <1>3, <1>4, <1>5, <1>6

\* A text whose row is as it was.
SameRow(of) == db'[of[1]][of[2]] = db[of[1]][of[2]]

LEMMA TextStays ==
    ASSUME NEW of \in Texts, SameRow(of)
    PROVE  TextOf(of)' = TextOf(of) /\ Shelved(of)' = Shelved(of)
<1>1. TextOf(of)' = TextOf(of)
  BY DEF TextOf, SameRow
<1>2. Shelved(of)' = Shelved(of)
  BY DEF Shelved, SameRow
<1> QED
  BY <1>1, <1>2

LEMMA ExcusedStays ==
    ASSUME HistoryOK, NEW m, Goes(m), db.behind \subseteq db'.behind, NEW of, Excused(of)
    PROVE  Excused(of)'
<1>1. ASSUME NEW r \in Requests, At(r, "killed") PROVE At(r, "killed")'
  BY <1>1, GoesOthers DEF At, Ended, Ends
<1> QED
  BY <1>1 DEF Excused

\* Whoever stands before its job goes on to store it.
StillThere(m) == m \in Requests => ~At(m, "ingestJob") \/ At(m, "killed")'

LEMMA WillStoreStays ==
    ASSUME HistoryOK, NEW m, Goes(m), StillThere(m), NEW of, WillStore(of)
    PROVE  WillStore(of)' \/ Excused(of)'
<1>1. PICK r \in Requests : At(r, "ingestJob") /\ req[r].v.of = of
  BY DEF WillStore
<1>2. CASE r # m
  <2>1. req'[r] = req[r]
    BY <1>2, GoesOthers
  <2> QED
    BY <1>1, <2>1 DEF WillStore, At
<1>3. CASE r = m
  BY <1>1, <1>3 DEF StillThere, Excused
<1> QED
  BY <1>2, <1>3

JobsSame == db'.ingest = db.ingest /\ db'.reads = db.reads /\ db.behind \subseteq db'.behind

\* How a statement that is no ingest job's may leave a text.
TextGoes(of) ==
    \/ TextOf(of)' = TextOf(of) /\ db'.node[of] = db.node[of] /\ (Shelved(of) => Shelved(of)')
    \/ Excused(of)'
    \/ Shelved(of)'
    \/ WillStore(of)' /\ TextOf(of)' # Nil
    \/ db'.node[of] = Nil /\ TextOf(of)' = Nil /\ Reading(of) = {}

LEMMA IndexNowStays ==
    ASSUME HistoryOK, NEW m, Goes(m), StillThere(m), JobsSame, NEW of, IndexNow(of), TextGoes(of)
    PROVE  IndexNow(of)'
<1>1. Excused(of) => Excused(of)'
  BY ExcusedStays DEF JobsSame
<1>2. Reading(of)' = Reading(of) /\ \A j : db'.reads[j] = db.reads[j] /\ db'.ingest[j] = db.ingest[j]
  BY DEF Reading, JobsSame
<1>3. OneReads(of) => OneReads(of)'
  BY <1>2 DEF OneReads
<1>4. CASE Excused(of)'
  BY <1>4 DEF IndexNow
<1> SUFFICES ASSUME ~Excused(of)', OneReads(of), OneReads(of)', Shelved(of) \/ Tended(of), ~Shelved(of)'
             PROVE  Tended(of)'
  BY <1>1, <1>3, <1>4 DEF IndexNow
<1>5. CASE TextOf(of)' = TextOf(of) /\ db'.node[of] = db.node[of] /\ (Shelved(of) => Shelved(of)')
  <2>1. Tended(of)
    BY <1>5
  <2>2. NoText(of)'
    BY <1>2, <1>5, <2>1 DEF Tended, NoText
  <2>3. CASE WillStore(of)
    BY <2>2, <2>3, WillStoreStays DEF Tended
  <2>4. CASE WillRead(of)
    <3>1. WillRead(of)'
      BY <1>2, <1>5, <2>4 DEF WillRead
    <3> QED
      BY <2>2, <3>1 DEF Tended
  <2>5. CASE IsIndexed(of)
    <3>1. IsIndexed(of)'
      BY <1>2, <1>5, <2>5 DEF IsIndexed
    <3> QED
      BY <2>2, <3>1 DEF Tended
  <2> QED
    BY <2>1, <2>3, <2>4, <2>5 DEF Tended
<1>6. CASE WillStore(of)' /\ TextOf(of)' # Nil
  BY <1>6 DEF Tended, NoText
<1>7. CASE db'.node[of] = Nil /\ TextOf(of)' = Nil /\ Reading(of) = {}
  <2>1. NoText(of)' /\ IsIndexed(of)'
    BY <1>2, <1>7 DEF NoText, IsIndexed
  <2> QED
    BY <2>1 DEF Tended
<1> QED
  BY <1>5, <1>6, <1>7 DEF TextGoes

LEMMA IndexStep ==
    ASSUME IndexInv, NEW m, Goes(m), PaperInv', IndexShape', \A of \in Texts : IndexNow(of)',
           \A d \in Ids : FinalIsLatest(d)', \A r \in Requests : FilledIsBehind(r)',
           \A r \in Requests : db'.ingest[r] = Nil => db'.reads[r] = {},
           m \in Requests => WritesBack(m)'
    PROVE  IndexInv'
<1>1. ASSUME NEW r \in Requests PROVE WritesBack(r)'
  <2>1. CASE r = m
    BY <2>1
  <2>2. CASE r # m
    <3>1. req'[r] = req[r]
      BY <2>2, GoesOthers DEF IndexInv, PaperInv
    <3> QED
      BY <3>1 DEF IndexInv, WritesBack, At
  <2> QED
    BY <2>1, <2>2
<1> QED
  BY <1>1 DEF IndexInv

\* A statement that writes no text, and is no ingest job's.
LEMMA SameIndexWell ==
    ASSUME IndexInv, PaperInv', NEW m, Goes(m), StillThere(m), SameIndex(db'), m \in Requests => WritesBack(m)'
    PROVE  IndexInv'
<1>1. IndexShape'
  BY DEF SameIndex, IndexInv, IndexShape
<1>2. ASSUME NEW of \in Texts PROVE IndexNow(of)'
  <2>1. SameRow(of)
    BY TextParts DEF SameIndex, SameRow
  <2>2. TextGoes(of)
    BY <2>1, TextStays DEF TextGoes, SameIndex
  <2>3. JobsSame /\ HistoryOK /\ IndexNow(of)
    BY DEF SameIndex, JobsSame, IndexInv, PaperInv
  <2> QED
    BY <2>2, <2>3, IndexNowStays
<1>3. \A d \in Ids : FinalIsLatest(d)'
  BY DEF SameIndex, IndexInv, FinalIsLatest
<1>4. \A r \in Requests : FilledIsBehind(r)' /\ (db'.ingest[r] = Nil => db'.reads[r] = {})
  BY DEF SameIndex, IndexInv, FilledIsBehind
<1> QED
  BY <1>1, <1>2, <1>3, <1>4, IndexStep

LEMMA UnchangedIndex == SameIndex(db)
  BY DEF SameIndex

LEMMA UntextedWell ==
    ASSUME IndexInv, PaperInv', NEW m \in Requests, Untexted(m)
    PROVE  IndexInv'
<1>1. PICK statement, v, tables :
         statement \notin {"new", "jobRow", "archiveText"} /\ SameIndex(tables) /\ Do(m, statement, v, tables)
  BY DEF Untexted
<1>2. db' = tables /\ req'[m].at = statement
  BY <1>1, DoneBy DEF IndexInv
<1>3. Goes(m)
  BY <1>1, TakesGo DEF Untexted, Takes
<1>4. StillThere(m) /\ WritesBack(m)'
  BY <1>1, <1>2 DEF Untexted, StillThere, WritesBack, At
<1> QED
  BY <1>1, <1>2, <1>3, <1>4, SameIndexWell

LEMMA IndexThere ==
    ASSUME IndexInv
    PROVE  /\ IndexTables \subseteq DOMAIN db
           /\ db.text \in [Ids -> TextRecord \cup {Nil}] /\ db.edited \in [Ids -> EditedRecord \cup {Nil}]
           /\ DOMAIN db.node = Texts /\ DOMAIN db.reads = Requests
           /\ PaperInv /\ HistoryOK
  BY DEF IndexInv, IndexShape, PaperInv, PaperShape, IndexTables

-----------------------------------------------------------------------------
\* A statement that writes one text: the others are as they were.
LEMMA RowWell ==
    ASSUME IndexInv, PaperInv', NEW m \in Requests, Goes(m), StillThere(m), JobsSame, IndexShape', WritesBack(m)',
           NEW written \in Texts, TextGoes(written),
           \A of \in Texts : of # written => SameRow(of) /\ db'.node[of] = db.node[of],
           written[1] = "document" => FinalIsLatest(written[2])',
           \A r \in Requests : FilledIsBehind(r)'
    PROVE  IndexInv'
<1>1. ASSUME NEW of \in Texts PROVE IndexNow(of)'
  <2>1. TextGoes(of)
    BY TextStays DEF TextGoes
  <2>2. HistoryOK /\ IndexNow(of)
    BY DEF IndexInv, PaperInv
  <2> QED
    BY <2>1, <2>2, IndexNowStays
<1>2. ASSUME NEW d \in Ids PROVE FinalIsLatest(d)'
  <2> DEFINE of == <<"document", d>>
  <2>1. of \in Texts /\ of[1] = "document" /\ of[2] = d
    BY DEF Texts
  <2>2. CASE of = written
    BY <2>1, <2>2
  <2>3. CASE of # written
    <3>1. db'.document[d] = db.document[d]
      BY <2>1, <2>3 DEF SameRow
    <3> QED
      BY <3>1 DEF IndexInv, FinalIsLatest, JobsSame
  <2> QED
    BY <2>2, <2>3
<1>3. \A r \in Requests : db'.ingest[r] = Nil => db'.reads[r] = {}
  BY DEF IndexInv, JobsSame
<1> QED
  BY <1>1, <1>2, <1>3, IndexStep

SameDocuments ==
    db'.document = db.document /\ db'.version = db.version /\ DOMAIN db' = DOMAIN db /\ JobsSame

LEMMA TextWritten ==
    ASSUME IndexInv, PaperInv', NEW m \in Requests, Goes(m), StillThere(m), WritesBack(m)', SameDocuments,
           NEW i \in Ids, NEW row \in TextRecord \cup {Nil},
           db'.text = [db.text EXCEPT ![i] = row], db'.edited = db.edited, DOMAIN db'.node = Texts,
           \A of \in Texts : of # <<"text", i>> => db'.node[of] = db.node[of],
           TextGoes(<<"text", i>>)
    PROVE  IndexInv'
<1>1. <<"text", i>> \in Texts /\ <<"text", i>>[1] = "text"
  BY DEF Texts
<1>2. IndexShape'
  BY IndexThere DEF SameDocuments, JobsSame, IndexShape, IndexTables
<1>3. \A of \in Texts : of # <<"text", i>> => SameRow(of)
  BY TextParts, IndexThere DEF SameDocuments, SameRow
<1>4. \A r \in Requests : FilledIsBehind(r)'
  BY DEF IndexInv, FilledIsBehind, SameDocuments, JobsSame
<1> QED
  BY <1>1, <1>2, <1>3, <1>4, RowWell DEF SameDocuments

LEMMA EditedWritten ==
    ASSUME IndexInv, PaperInv', NEW m \in Requests, Goes(m), StillThere(m), WritesBack(m)', SameDocuments,
           NEW i \in Ids, NEW row \in EditedRecord,
           db'.edited = [db.edited EXCEPT ![i] = row], db'.text = db.text, db'.node = db.node,
           WillStore(<<"edited", i>>)'
    PROVE  IndexInv'
<1>1. <<"edited", i>> \in Texts /\ <<"edited", i>>[1] = "edited"
  BY DEF Texts
<1>2. IndexShape'
  BY IndexThere DEF SameDocuments, JobsSame, IndexShape, IndexTables
<1>3. \A of \in Texts : of # <<"edited", i>> => SameRow(of)
  BY TextParts, IndexThere DEF SameDocuments, SameRow
<1>4. \A r \in Requests : FilledIsBehind(r)'
  BY DEF IndexInv, FilledIsBehind, SameDocuments, JobsSame
<1>5. TextGoes(<<"edited", i>>)
  <2>1. db'.edited[i] = row /\ row # Nil /\ row.cols # Nil
    BY IndexThere, EditAssumption DEF EditedRecord
  <2>2. TextOf(<<"edited", i>>)' # Nil
    BY <2>1, TextsAre
  <2> QED
    BY <2>2 DEF TextGoes
<1> QED
  BY <1>1, <1>2, <1>3, <1>4, <1>5, RowWell DEF SameDocuments

LEMMA RefusedIndex ==
    ASSUME IndexInv, PaperInv', NEW m \in Requests, Open(m), ~At(m, "ingestJob"),
           NEW statement, statement \notin {"new", "jobRow", "archiveText"}, NEW v, GoOn(m, statement, v)
    PROVE  IndexInv'
  BY UntextedDo, UntextedWell, IndexThere

\* A text that is new: its job is stored with the next statement.
LEMMA NewTextWell ==
    ASSUME IndexInv, PaperInv', NEW m \in Requests, Open(m), ~At(m, "ingestJob"),
           NEW kind \in {"source", "evidence", "posting", "job"}, NEW tables,
           DOMAIN tables = DOMAIN db, tables.text = [db.text EXCEPT ![m] = Text(kind)],
           tables.edited = db.edited, tables.node = db.node, tables.ingest = db.ingest, tables.reads = db.reads,
           tables.behind = db.behind, tables.document = db.document, tables.version = db.version,
           ThenIngest(m, <<"text", m>>, tables)
    PROVE  IndexInv'
<1>1. req'[m].at = "ingestJob" /\ req'[m].v = [of |-> <<"text", m>>] /\ db' = tables
  BY DoneBy DEF ThenIngest, IndexInv, Ends
<1>2. Goes(m)
  BY TakesGo DEF Takes, ThenIngest
<1>3. StillThere(m) /\ WritesBack(m)' /\ SameDocuments
  BY <1>1 DEF StillThere, WritesBack, SameDocuments, JobsSame, At
<1>4. m \in Ids /\ Text(kind) \in TextRecord
  BY DEF Ids, Text, TextRecord
<1>5. WillStore(<<"text", m>>)'
  BY <1>1 DEF WillStore, At
<1>6. TextOf(<<"text", m>>)' # Nil
  <2>1. db'.text[m] = Text(kind) /\ Text(kind) # Nil /\ ~Text(kind).archived /\ Text(kind).kind # Nil
    BY <1>1, <1>4, IndexThere, IngestAssumption DEF Text
  <2>2. TextOf(<<"text", m>>)' =
           IF db'.text[m] = Nil THEN Nil ELSE IF db'.text[m].archived THEN Nil ELSE db'.text[m].kind
    BY TextsAre
  <2> QED
    BY <2>1, <2>2
<1> QED
  BY <1>1, <1>2, <1>3, <1>4, <1>5, <1>6, TextWritten, IndexThere DEF TextGoes

LEMMA TextsWell ==
    ASSUME IndexInv, PaperInv', NEW m \in Requests, CreateSource(m) \/ CreateEvidence(m) \/ CreatePosting(m) \/ ApplyRows(m)
    PROVE  IndexInv'
<1>1. Open(m) /\ ~At(m, "ingestJob")
  BY DEF CreateSource, CreateEvidence, CreatePosting, ApplyRows, Open, Ended, Ends, At
<1>2. CASE Refuse(m)
  BY <1>1, <1>2, RefusedIndex DEF Refuse, GoOn
<1>3. ASSUME NEW kind \in {"source", "evidence", "posting"}, NewText(m, kind) PROVE IndexInv'
  <2> DEFINE tables == [db EXCEPT !.text[m] = Text(kind)]
  <2>1. /\ DOMAIN tables = DOMAIN db /\ tables.text = [db.text EXCEPT ![m] = Text(kind)]
        /\ tables.edited = db.edited /\ tables.node = db.node /\ tables.ingest = db.ingest /\ tables.reads = db.reads
        /\ tables.behind = db.behind /\ tables.document = db.document /\ tables.version = db.version
    BY IndexThere DEF IndexTables
  <2>2. ThenIngest(m, <<"text", m>>, tables)
    BY <1>3 DEF NewText
  <2> HIDE DEF tables
  <2> QED
    BY <1>1, <2>1, <2>2, NewTextWell
<1>4. CASE ApplyRows(m)
  <2> DEFINE tables == [db EXCEPT !.application[m] = Application(req[m].arg.by, req[m].arg.id, "APPLIED"),
                                  !.text[m] = Text("job")]
  <2>1. /\ DOMAIN tables = DOMAIN db /\ tables.text = [db.text EXCEPT ![m] = Text("job")]
        /\ tables.edited = db.edited /\ tables.node = db.node /\ tables.ingest = db.ingest /\ tables.reads = db.reads
        /\ tables.behind = db.behind /\ tables.document = db.document /\ tables.version = db.version
    BY IndexThere DEF IndexTables
  <2>2. ThenIngest(m, <<"text", m>>, tables)
    BY <1>4 DEF ApplyRows
  <2> HIDE DEF tables
  <2> QED
    BY <1>1, <2>1, <2>2, NewTextWell
<1> QED
  BY <1>2, <1>3, <1>4 DEF CreateSource, CreateEvidence, CreatePosting

LEMMA EditsWell ==
    ASSUME IndexInv, PaperInv', NEW m \in Requests, CreateJob(m) \/ PatchJob(m) \/ JobRow(m)
    PROVE  IndexInv'
<1>1. Open(m) /\ ~At(m, "ingestJob")
  BY DEF CreateJob, PatchJob, JobRow, Load, Open, Ended, Ends, At
<1>2. CASE Refuse(m)
  BY <1>1, <1>2, RefusedIndex DEF Refuse, GoOn
<1>3. ASSUME NEW i \in Ids, NEW row \in EditedRecord, ThenIngest(m, <<"edited", i>>, [db EXCEPT !.edited[i] = row])
      PROVE  IndexInv'
  <2>1. /\ req'[m].at = "ingestJob" /\ req'[m].v = [of |-> <<"edited", i>>]
        /\ db' = [db EXCEPT !.edited[i] = row]
    BY <1>3, DoneBy DEF ThenIngest, IndexInv, Ends
  <2>2. Goes(m)
    BY <1>1, <1>3, TakesGo DEF Takes, ThenIngest
  <2>3. /\ db'.edited = [db.edited EXCEPT ![i] = row] /\ db'.text = db.text /\ db'.node = db.node /\ SameDocuments
    BY <2>1, IndexThere DEF SameDocuments, JobsSame, IndexTables
  <2>4. StillThere(m) /\ WritesBack(m)' /\ WillStore(<<"edited", i>>)'
    BY <1>1, <2>1 DEF StillThere, WritesBack, WillStore, At
  <2> QED
    BY <2>2, <2>3, <2>4, EditedWritten
<1>4. CASE CreateJob(m)
  <2>1. Edited \in EditedRecord /\ m \in Ids
    BY DEF Edited, EditedRecord, Setters, Ids
  <2> QED
    BY <1>3, <1>4, <2>1 DEF CreateJob
<1>5. CASE PatchJob(m)
  <2> DEFINE i == req[m].arg.id
  <2>1. CASE db.edited[i] # Nil /\ GoOn(m, "jobRow", db.edited[i])
    <3>1. req'[m].at = "jobRow" /\ req'[m].v = db.edited[i] /\ db' = db
      BY <2>1, DoneBy DEF GoOn, IndexInv, Ends
    <3>2. i \in Ids
      <4>1. req[m].do = "patchJob" /\ CalledFor(req[m].do, req[m].arg)
        BY <1>1, <1>5, NextAtHome, IndexThere DEF PatchJob, Load, At, PaperHandlers
      <4> QED
        BY <4>1 DEF CalledFor
    <3>3. db.edited[i] \in EditedRecord
      BY <2>1, <3>2, IndexThere
    <3>4. Goes(m)
      BY <1>1, <2>1, TakesGo DEF Takes, GoOn
    <3> QED
      BY <1>1, <3>1, <3>3, <3>4, SameIndexWell, UnchangedIndex DEF StillThere, WritesBack, At
  <2> QED
    BY <1>2, <1>5, <2>1 DEF PatchJob, Load
<1>6. CASE JobRow(m)
  <2> DEFINE i == req[m].arg.id
             row == [With(req[m].v, m, Columns) EXCEPT !.rev = db.edited[i].rev + 1]
  <2>1. CASE db.edited[i] # Nil /\ ThenIngest(m, <<"edited", i>>, [db EXCEPT !.edited[i] = row])
    <3>1. i \in Ids
      <4>1. req[m].do = "patchJob" /\ CalledFor(req[m].do, req[m].arg)
        BY <1>1, <1>6, NextAtHome, IndexThere DEF JobRow, At, AtHome
      <4> QED
        BY <4>1 DEF CalledFor
    <3>2. db.edited[i] \in EditedRecord /\ req[m].v \in EditedRecord
      BY <1>6, <2>1, <3>1, IndexThere DEF JobRow, IndexInv, WritesBack
    <3>3. row \in EditedRecord
      <4>1. req[m].v.rev \in Nat /\ req[m].v.cols \in [Columns -> Requests \cup {Nil}] /\ db.edited[i].rev \in Nat
        BY <3>2 DEF EditedRecord, Setters
      <4> DEFINE cols == [c \in Columns |-> IF c \in Columns \cap Asked(m) THEN m ELSE req[m].v.cols[c]]
      <4>2. cols \in [Columns -> Requests \cup {Nil}]
        BY <4>1
      <4>3. row = [[req[m].v EXCEPT !.cols = cols] EXCEPT !.rev = db.edited[i].rev + 1]
        BY DEF With
      <4> HIDE DEF row, cols
      <4>4. db.edited[i].rev + 1 \in Nat
        BY <4>1
      <4> QED
        BY <3>2, <4>2, <4>3, <4>4 DEF EditedRecord, Setters
    <3> HIDE DEF row
    <3> QED
      BY <1>3, <2>1, <3>1, <3>3
  <2> QED
    BY <1>2, <1>6, <2>1 DEF JobRow, IsThere
<1> QED
  BY <1>4, <1>5, <1>6

LEMMA ShelvingWell ==
    ASSUME IndexInv, PaperInv', NEW m \in Requests, ArchiveEvidence(m) \/ ArchiveText(m) \/ DeleteSource(m)
    PROVE  IndexInv'
<1>1. Open(m) /\ ~At(m, "ingestJob")
  BY DEF ArchiveEvidence, ArchiveText, DeleteSource, Load, Open, Ended, Ends, At
<1>2. req[m].arg.id \in Ids
  <2>1. req[m].do \in {"archiveEvidence", "deleteSource"} /\ CalledFor(req[m].do, req[m].arg)
    BY <1>1, NextAtHome, IndexThere DEF ArchiveEvidence, ArchiveText, DeleteSource, Load, At, AtHome, PaperHandlers
  <2> QED
    BY <2>1 DEF CalledFor
<1> PICK i \in Ids : i = req[m].arg.id
  BY <1>2
<1> DEFINE of == <<"text", i>>
<1>3. CASE Refuse(m)
  BY <1>1, <1>3, RefusedIndex DEF Refuse, GoOn
<1>4. CASE ArchiveEvidence(m) /\ ~Refuse(m)
  <2>1. db.text[i] # Nil /\ GoOn(m, "archiveText", db.text[i])
    BY <1>4 DEF ArchiveEvidence, Load
  <2>2. req'[m].at = "archiveText" /\ req'[m].v = db.text[i] /\ db' = db
    BY <2>1, DoneBy DEF GoOn, IndexInv, Ends
  <2>3. db.text[i] \in TextRecord
    BY <1>2, <2>1, IndexThere
  <2>4. Goes(m)
    BY <1>1, <2>1, TakesGo DEF Takes, GoOn
  <2> QED
    BY <1>1, <2>2, <2>3, <2>4, SameIndexWell, UnchangedIndex DEF StillThere, WritesBack, At
<1>5. CASE ArchiveText(m) /\ ~Refuse(m)
  <2> DEFINE v == req[m].v  shelved == [v EXCEPT !.archived = TRUE]  row == Bumped(shelved)
  <2>1. v \in TextRecord
    BY <1>5 DEF ArchiveText, IndexInv, WritesBack
  <2>2. row \in TextRecord /\ row.archived
    <3>1. shelved \in TextRecord /\ shelved.archived
      BY <2>1 DEF TextRecord
    <3> HIDE DEF shelved
    <3> QED
      BY <3>1 DEF TextRecord, Bumped
  <2>3. CASE v.archived
    <3>1. GoOn(m, "ok", v)
      BY <1>5, <2>3 DEF ArchiveText, End, GoOn
    <3> QED
      BY <1>1, <3>1, RefusedIndex
  <2>4. CASE ~v.archived
    <3>1. End(m, [db EXCEPT !.text[i] = row])
      BY <1>5, <2>4 DEF ArchiveText, Save
    <3> HIDE DEF row
    <3>2. req'[m].at = "ok" /\ db' = [db EXCEPT !.text[i] = row]
      BY <3>1, DoneBy DEF End, IndexInv
    <3>3. Goes(m)
      BY <1>1, <3>1, TakesGo DEF Takes, End
    <3>4. /\ db'.text = [db.text EXCEPT ![i] = row] /\ db'.edited = db.edited /\ db'.node = db.node /\ SameDocuments
      BY <3>2, IndexThere DEF SameDocuments, JobsSame, IndexTables
    <3>5. StillThere(m) /\ WritesBack(m)'
      BY <1>1, <3>2 DEF StillThere, WritesBack, At
    <3>6. TextGoes(of)
      <4>1. db'.text[i] = row /\ row # Nil
        BY <1>2, <2>2, <3>4, IndexThere, IngestAssumption
      <4>2. Shelved(of)'
        BY <2>2, <4>1 DEF Shelved
      <4> QED
        BY <4>2 DEF TextGoes
    <3> QED
      BY <1>2, <2>2, <3>3, <3>4, <3>5, <3>6, IndexThere, TextWritten
  <2> QED
    BY <2>3, <2>4
<1>6. CASE DeleteSource(m) /\ ~Refuse(m)
  <2> DEFINE node == DroppedNodes(of)  behind == IF Reading(of) = {} THEN db.behind ELSE db.behind \cup {of}
             tables == [db EXCEPT !.text[i] = Nil, !.node = node, !.behind = behind]
  <2>1. End(m, tables)
    BY <1>6, IndexThere DEF DeleteSource, IndexTables
  <2>2. /\ DOMAIN tables = DOMAIN db /\ tables.text = [db.text EXCEPT ![i] = Nil]
        /\ tables.edited = db.edited /\ tables.node = node /\ tables.ingest = db.ingest /\ tables.reads = db.reads
        /\ tables.behind = behind /\ tables.document = db.document /\ tables.version = db.version
    BY IndexThere DEF IndexTables
  <2>3. node = [db.node EXCEPT ![of] = Nil]
    BY DEF DroppedNodes
  <2>4. db.behind \subseteq behind /\ (Reading(of) # {} => of \in behind)
    OBVIOUS
  <2> HIDE DEF tables, node, behind
  <2>5. req'[m].at = "ok" /\ db' = tables
    BY <2>1, DoneBy DEF End, IndexInv
  <2>6. Goes(m)
    BY <1>1, <2>1, TakesGo DEF Takes, End
  <2>7. StillThere(m) /\ WritesBack(m)' /\ SameDocuments
    BY <1>1, <2>2, <2>4, <2>5 DEF StillThere, WritesBack, SameDocuments, JobsSame, At
  <2>8. of \in Texts
    BY DEF Texts
  <2>9. DOMAIN db'.node = Texts /\ db'.node[of] = Nil /\ \A t \in Texts : t # of => db'.node[t] = db.node[t]
    BY <2>2, <2>3, <2>5, <2>8, IndexThere
  <2>10. TextGoes(of)
    <3>1. CASE Reading(of) = {}
      <4>1. db'.text[i] = Nil
        BY <1>2, <2>2, <2>5, IndexThere
      <4>2. TextOf(of)' = Nil
        BY <4>1, TextsAre
      <4> QED
        BY <2>9, <3>1, <4>2 DEF TextGoes
    <3>2. CASE Reading(of) # {}
      BY <2>2, <2>4, <2>5, <3>2 DEF TextGoes, Excused
    <3> QED
      BY <3>1, <3>2
  <2> QED
    BY <1>2, <2>2, <2>5, <2>6, <2>7, <2>9, <2>10, TextWritten
<1> QED
  BY <1>3, <1>4, <1>5, <1>6

-----------------------------------------------------------------------------
\* A statement that writes one document.
LEMMA DocumentWritten ==
    ASSUME IndexInv, PaperInv', NEW m \in Requests, Goes(m), StillThere(m), WritesBack(m)', DOMAIN db' = DOMAIN db,
           JobsSame, db'.text = db.text, db'.edited = db.edited, db'.node = db.node,
           NEW d \in Ids, NEW row, db'.document = [db.document EXCEPT ![d] = row],
           TextGoes(<<"document", d>>), FinalIsLatest(d)', \A r \in Requests : FilledIsBehind(r)'
    PROVE  IndexInv'
<1>1. <<"document", d>> \in Texts /\ <<"document", d>>[1] = "document" /\ <<"document", d>>[2] = d
  BY DEF Texts
<1>2. IndexShape'
  BY IndexThere DEF JobsSame, IndexShape, IndexTables
<1>3. DOMAIN db.document = Ids
  BY DEF IndexInv, PaperInv, PaperShape
<1>4. \A of \in Texts : of # <<"document", d>> => SameRow(of) /\ db'.node[of] = db.node[of]
  BY <1>3, TextParts DEF SameRow
<1> QED
  BY <1>1, <1>2, <1>4, RowWell

\* The row of a document is written, and its text is the same, or is behind.
LEMMA RewrittenWell ==
    ASSUME IndexInv, PaperInv', NEW m \in Requests, Open(m), ~At(m, "ingestJob"),
           NEW d \in Ids, db.document[d] # Nil, NEW row \in DocumentRecord, End(m, [db EXCEPT !.document[d] = row]),
           \/ row.latest = db.document[d].latest /\ row.final \in {Nil, db.document[d].final}
           \/ <<"document", d>> \in db.behind
    PROVE  IndexInv'
<1> DEFINE of == <<"document", d>>  old == db.document[d]
<1>1. req'[m].at = "ok" /\ db' = [db EXCEPT !.document[d] = row]
  BY DoneBy DEF End, IndexInv
<1>2. Goes(m)
  BY TakesGo DEF Takes, End
<1>3. /\ DOMAIN db' = DOMAIN db /\ db'.document = [db.document EXCEPT ![d] = row] /\ db'.version = db.version
      /\ db'.text = db.text /\ db'.edited = db.edited /\ db'.node = db.node /\ JobsSame /\ db'.behind = db.behind
  BY <1>1, IndexThere DEF JobsSame, IndexTables
<1>4. StillThere(m) /\ WritesBack(m)'
  BY <1>1 DEF StillThere, WritesBack, At
<1>5. db'.document[d] = row /\ row # Nil
  BY <1>3, DocumentAssumption DEF IndexInv, PaperInv, PaperShape
<1>6. \A r \in Requests : FilledIsBehind(r)'
  BY <1>3 DEF IndexInv, FilledIsBehind
<1>7. of \in db.behind \/ old.final \in {Nil, old.latest}
  BY DEF IndexInv, FinalIsLatest
<1>8. TextGoes(of) /\ FinalIsLatest(d)'
  <2>1. CASE of \in db.behind
    BY <1>3, <2>1 DEF TextGoes, Excused, FinalIsLatest
  <2>2. CASE of \notin db.behind
    <3>1. row.latest = old.latest /\ row.final \in {Nil, old.latest} /\ old.final \in {Nil, old.latest}
      BY <1>7, <2>2
    <3>2. TextOf(of)' = TextOf(of)
      <4>1. TextOf(<<"document", d>>) = old.latest
        BY <3>1, TextsAre
      <4>2. TextOf(<<"document", d>>)' = old.latest
        BY <1>5, <3>1, TextsAre
      <4> QED
        BY <4>1, <4>2
    <3>3. db'.node[of] = db.node[of] /\ ~Shelved(of)
      BY <1>3 DEF Shelved
    <3>4. FinalIsLatest(d)'
      BY <1>5, <3>1 DEF FinalIsLatest
    <3> QED
      BY <3>2, <3>3, <3>4 DEF TextGoes
  <2> QED
    BY <2>1, <2>2
<1> QED
  BY <1>2, <1>3, <1>4, <1>6, <1>8, DocumentWritten

LEMMA RewritingWell ==
    ASSUME IndexInv, PaperInv', NEW m \in Requests, PatchRow(m) \/ ArchiveRow(m) \/ ConvertRow(m)
    PROVE  IndexInv'
<1>1. Open(m) /\ req[m].at \in {"patchRow", "archiveRow", "convertRow"}
  BY DEF PatchRow, ArchiveRow, ConvertRow, Open, Ended, Ends, At
<1>2. PICK d \in Ids : d = req[m].arg.id
  BY <1>1, HoldsDocument, IndexThere
<1> DEFINE v == req[m].v  old == db.document[d]
<1>3. /\ old # Nil /\ old \in DocumentRecord /\ DocumentHeld(d, v) /\ ~At(m, "ingestJob")
  BY <1>1, <1>2, HoldsDocument, IndexThere
<1>4. CASE Refuse(m)
  BY <1>1, <1>3, <1>4, RefusedIndex DEF Refuse, GoOn
<1>5. CASE PatchRow(m) /\ ~Refuse(m)
  <2> DEFINE row == IF req[m].arg.template THEN Reopened(v) ELSE v
  <2>1. Same("document", d, row) /\ End(m, [db EXCEPT !["document"][d] = Bumped(row)])
    BY <1>2, <1>5 DEF PatchRow, Save
  <2>2. v \in DocumentRecord
    BY <1>3 DEF DocumentHeld
  <2>3. row \in DocumentRecord /\ row.rev = v.rev /\ row.latest = v.latest /\ row.final \in {Nil, v.final}
    BY <2>2, ReopenedDocument
  <2> HIDE DEF row
  <2>4. /\ Bumped(row) \in DocumentRecord /\ Bumped(row).latest = v.latest /\ Bumped(row).final \in {Nil, v.final}
    BY <2>3, BumpedDocument
  <2>5. \/ old = v
        \/ old = [v EXCEPT !.latest = d] /\ VersionsOf(d) = {d} /\ d \in Requests
    BY <1>3, <2>1, <2>3 DEF DocumentHeld, Same
  <2>6. CASE old = v
    BY <1>1, <1>3, <2>1, <2>4, <2>6, RewrittenWell
  <2>7. CASE VersionsOf(d) = {d} /\ d \in Requests
    <3>1. FilledIsBehind(d) /\ db.version[d] # Nil /\ db.version[d].document = d
      BY <2>7 DEF VersionsOf, IndexInv
    <3> QED
      BY <1>1, <1>3, <2>1, <2>4, <3>1, RewrittenWell DEF FilledIsBehind
  <2> QED
    BY <2>5, <2>6, <2>7
<1>6. CASE ArchiveRow(m) /\ ~Refuse(m)
  <2> DEFINE shelved == [old EXCEPT !.status = "ARCHIVED"]
  <2>1. End(m, [db EXCEPT !["document"][d] = Bumped([@ EXCEPT !["status"] = "ARCHIVED"])])
    BY <1>2, <1>6 DEF ArchiveRow, SetColumn
  <2>2. End(m, [db EXCEPT !.document[d] = Bumped(shelved)])
    BY <1>3, <2>1 DEF IndexInv, PaperInv, PaperShape
  <2>3. shelved \in DocumentRecord /\ shelved.final = old.final /\ shelved.latest = old.latest
    BY <1>3 DEF DocumentRecord
  <2> HIDE DEF shelved
  <2> QED
    BY <1>1, <1>3, <2>2, <2>3, BumpedDocument, RewrittenWell
<1>7. CASE ConvertRow(m) /\ ~Refuse(m)
  <2>1. End(m, [db EXCEPT !.document[d] = Bumped(old)])
    BY <1>2, <1>3, <1>7 DEF ConvertRow, IndexInv, PaperInv, PaperShape
  <2> QED
    BY <1>1, <1>3, <2>1, BumpedDocument, RewrittenWell
<1> QED
  BY <1>4, <1>5, <1>6, <1>7

LEMMA SavingWell ==
    ASSUME IndexInv, PaperInv', NEW m \in Requests, SaveVersion(m)
    PROVE  IndexInv'
<1>1. Open(m) /\ req[m].at = "saveVersion"
  BY DEF SaveVersion, Open, Ended, Ends, At
<1>2. PICK d \in Ids : d = req[m].arg.id
  BY <1>1, HoldsDocument, IndexThere
<1> DEFINE of == <<"document", d>>  old == db.document[d]
           last == Max({0} \cup {db.version[w].number : w \in VersionsOf(d)})
           open == [Reopened(old) EXCEPT !.latest = m]
           new == Bumped(open)
           version == Version(d, last + 1)
           proposal == IF req[m].arg.proposal = Nil THEN db.proposal
                       ELSE [db.proposal EXCEPT ![req[m].arg.proposal].applied = TRUE]
           tables == [db EXCEPT !.document[d] = new, !.version[m] = version, !.proposal = proposal]
<1>3. /\ old # Nil /\ old \in DocumentRecord /\ ~At(m, "ingestJob") /\ m \in Ids /\ PaperRowsOf(m) = {Nil}
  BY <1>1, <1>2, HoldsDocument, NothingYet, IndexThere
<1>4. CASE Refuse(m)
  BY <1>1, <1>3, <1>4, RefusedIndex DEF Refuse, GoOn
<1>5. CASE ~Refuse(m)
  <2>1. ThenIngest(m, of, tables)
    BY <1>2, <1>5, IndexThere DEF SaveVersion, IndexTables
  <2>2. /\ DOMAIN tables = DOMAIN db /\ tables.document = [db.document EXCEPT ![d] = new]
        /\ tables.version = [db.version EXCEPT ![m] = version]
        /\ tables.text = db.text /\ tables.edited = db.edited /\ tables.node = db.node
        /\ tables.ingest = db.ingest /\ tables.reads = db.reads /\ tables.behind = db.behind
    <3> HIDE DEF new, version, proposal
    <3> QED
      BY IndexThere DEF IndexTables
  <2>3. new # Nil /\ new.final = Nil /\ new.latest = m
    <3>1. open \in DocumentRecord /\ open.final = Nil /\ open.latest = m
      <4>1. Reopened(old) \in DocumentRecord /\ Reopened(old).final = Nil
        BY <1>3, ReopenedDocument
      <4> QED
        BY <1>3, <4>1 DEF DocumentRecord
    <3> HIDE DEF open
    <3> QED
      BY <3>1, BumpedDocument
  <2>4. version.document = d
    BY DEF Version
  <2> HIDE DEF tables, new, version
  <2>5. req'[m].at = "ingestJob" /\ req'[m].v = [of |-> of] /\ db' = tables
    BY <2>1, DoneBy DEF ThenIngest, IndexInv, Ends
  <2>6. Goes(m)
    BY <1>1, <2>1, TakesGo DEF Takes, ThenIngest
  <2>7. StillThere(m) /\ WritesBack(m)' /\ WillStore(of)' /\ JobsSame
    BY <1>3, <2>2, <2>5 DEF StillThere, WritesBack, WillStore, JobsSame, At
  <2>8. db'.document[d] = new
    BY <2>2, <2>5 DEF IndexInv, PaperInv, PaperShape
  <2>9. TextGoes(of) /\ FinalIsLatest(d)'
    <3>1. TextOf(of)' = m /\ m # Nil
      BY <2>3, <2>8, TextsAre, CoreWorkerAssumption
    <3> QED
      BY <2>3, <2>7, <2>8, <3>1 DEF TextGoes, FinalIsLatest
  <2>10. ASSUME NEW r \in Requests PROVE FilledIsBehind(r)'
    <3>1. d # m
      BY <1>3 DEF PaperRowsOf
    <3>2. db'.version[r] = IF r = m THEN version ELSE db.version[r]
      BY <1>3, <2>2, <2>5 DEF IndexInv, PaperInv, PaperShape, Ids
    <3> QED
      BY <2>2, <2>4, <2>5, <3>1, <3>2 DEF FilledIsBehind, IndexInv
  <2> QED
    BY <2>2, <2>5, <2>6, <2>7, <2>9, <2>10, DocumentWritten
<1> QED
  BY <1>4, <1>5

LEMMA FinalizingWell ==
    ASSUME IndexInv, PaperInv', NEW m \in Requests, FinalizeRows(m)
    PROVE  IndexInv'
<1>1. Open(m) /\ At(m, "spendRows") /\ req[m].do = "finalize" /\ ~At(m, "ingestJob")
  BY DEF FinalizeRows, Open, Ended, Ends, At
<1>2. CalledFor("finalize", req[m].arg)
  BY <1>1, NextAtHome, IndexThere
<1>3. PICK d \in Ids, w \in Ids : d = req[m].arg.id /\ w = req[m].arg.version
  BY <1>2 DEF CalledFor, DocumentWriters, VersionsOf
<1> DEFINE of == <<"document", d>>  old == db.document[d]  a == req[m].arg.approval
           final == [old EXCEPT !.status = "FINALIZED", !.final = w]
           new == Bumped(final)
           behind == IF w = old.latest THEN db.behind ELSE db.behind \cup {of}
           tables == [db EXCEPT !.approval[a] = Consumed(a), !.document[d] = new, !.finalized[m] = w, !.behind = behind]
<1>4. old # Nil /\ old \in DocumentRecord
  BY <1>2, <1>3 DEF CalledFor, DocumentWriters, IndexInv, PaperInv, PaperShape
<1>5. CASE Refuse(m)
  BY <1>1, <1>5, RefusedIndex DEF Refuse, GoOn
<1>6. CASE Do(m, "refused", Nil, [db EXCEPT !.approval[a] = Consumed(a)])
  BY <1>1, <1>6, UntextedDo, UntextedWell, IndexThere
<1>7. CASE ~Refuse(m) /\ ~Do(m, "refused", Nil, [db EXCEPT !.approval[a] = Consumed(a)])
  <2>1. End(m, tables)
    BY <1>3, <1>7, IndexThere DEF FinalizeRows, IndexTables, IndexInv, PaperInv, PaperShape
  <2>2. /\ DOMAIN tables = DOMAIN db /\ tables.document = [db.document EXCEPT ![d] = new] /\ tables.version = db.version
        /\ tables.text = db.text /\ tables.edited = db.edited /\ tables.node = db.node
        /\ tables.ingest = db.ingest /\ tables.reads = db.reads /\ tables.behind = behind
    <3> HIDE DEF new, behind
    <3> QED
      BY IndexThere DEF IndexTables, IndexInv, PaperInv, PaperShape
  <2>3. new # Nil /\ new.final = w /\ new.latest = old.latest
    <3>1. final \in DocumentRecord /\ final.final = w /\ final.latest = old.latest
      BY <1>4 DEF DocumentRecord
    <3> HIDE DEF final
    <3> QED
      BY <3>1, BumpedDocument
  <2>4. db.behind \subseteq behind /\ (w # old.latest => of \in behind)
    OBVIOUS
  <2> HIDE DEF tables, new, behind
  <2>5. req'[m].at = "ok" /\ db' = tables
    BY <2>1, DoneBy DEF End, IndexInv
  <2>6. Goes(m)
    BY <1>1, <2>1, TakesGo DEF Takes, End
  <2>7. StillThere(m) /\ WritesBack(m)' /\ JobsSame
    BY <1>1, <2>2, <2>4, <2>5 DEF StillThere, WritesBack, JobsSame, At
  <2>8. db'.document[d] = new
    BY <2>2, <2>5 DEF IndexInv, PaperInv, PaperShape
  <2>9. TextGoes(of) /\ FinalIsLatest(d)'
    <3>1. CASE of \in behind
      BY <2>2, <2>5, <3>1 DEF TextGoes, Excused, FinalIsLatest
    <3>2. CASE of \notin behind
      <4>1. w = old.latest /\ old.final \in {Nil, old.latest} /\ w # Nil
        BY <1>4, <2>4, <3>2, NilIsNoId DEF IndexInv, FinalIsLatest
      <4>2. TextOf(of)' = TextOf(of)
        <5>1. TextOf(<<"document", d>>) = old.latest
          BY <1>4, <4>1, TextsAre
        <5>2. TextOf(<<"document", d>>)' = old.latest
          BY <2>3, <2>8, <4>1, TextsAre
        <5> QED
          BY <5>1, <5>2
      <4>3. db'.node[of] = db.node[of] /\ ~Shelved(of)
        BY <2>2, <2>5 DEF Shelved
      <4>4. FinalIsLatest(d)'
        BY <2>3, <2>8, <4>1 DEF FinalIsLatest
      <4> QED
        BY <4>2, <4>3, <4>4 DEF TextGoes
    <3> QED
      BY <3>1, <3>2
  <2>10. \A r \in Requests : FilledIsBehind(r)'
    BY <2>2, <2>4, <2>5 DEF IndexInv, FilledIsBehind
  <2> QED
    BY <2>2, <2>5, <2>6, <2>7, <2>9, <2>10, DocumentWritten
<1> QED
  BY <1>5, <1>6, <1>7

LEMMA DraftingWell ==
    ASSUME IndexInv, PaperInv', NEW m \in Requests, CreateDocument(m) \/ ConvertSource(m)
    PROVE  IndexInv'
<1> DEFINE of == <<"document", m>>  shell == Document("DRAFT", Nil, Nil)  filled == [shell EXCEPT !.latest = m]
           empty == [db EXCEPT !.document[m] = shell]
<1>1. Open(m) /\ ~At(m, "ingestJob")
  BY DEF CreateDocument, ConvertSource, Open, Ended, Ends, At
<1>2. m \in Ids /\ db.document[m] = Nil
  BY <1>1, NothingYet, IndexThere DEF PaperRowsOf
<1>3. shell \in DocumentRecord /\ shell.latest = Nil /\ shell.final = Nil
  BY DEF Document, DocumentRecord
<1>4. CASE Refuse(m)
  BY <1>1, <1>4, RefusedIndex DEF Refuse, GoOn
<1>5. CASE End(m, empty) \/ ThenIngest(m, <<"fill", m>>, empty)
  <2> HIDE DEF shell
  <2>1. /\ DOMAIN empty = DOMAIN db /\ empty.document = [db.document EXCEPT ![m] = shell] /\ empty.version = db.version
        /\ empty.text = db.text /\ empty.edited = db.edited /\ empty.node = db.node
        /\ empty.ingest = db.ingest /\ empty.reads = db.reads /\ empty.behind = db.behind
    BY IndexThere DEF IndexTables
  <2> HIDE DEF empty
  <2>2. req'[m].at \in {"ok", "ingestJob"} /\ db' = empty
    BY <1>5, DoneBy DEF End, ThenIngest, IndexInv
  <2>3. Goes(m)
    BY <1>1, <1>5, TakesGo DEF Takes, End, ThenIngest
  <2>4. StillThere(m) /\ WritesBack(m)' /\ JobsSame
    BY <1>1, <2>1, <2>2 DEF StillThere, WritesBack, JobsSame, At
  <2>5. db'.document[m] = shell
    BY <1>2, <2>1, <2>2 DEF IndexInv, PaperInv, PaperShape
  <2>6. TextGoes(of) /\ FinalIsLatest(m)'
    <3>1. TextOf(<<"document", m>>) = Nil
      BY <1>2, TextsAre
    <3>2. TextOf(<<"document", m>>)' = Nil
      BY <1>3, <2>5, TextsAre
    <3>3. db'.node[of] = db.node[of] /\ ~Shelved(of)
      BY <2>1, <2>2 DEF Shelved
    <3>4. FinalIsLatest(m)'
      BY <1>3, <2>5 DEF FinalIsLatest
    <3> QED
      BY <3>1, <3>2, <3>3, <3>4 DEF TextGoes
  <2>7. \A r \in Requests : FilledIsBehind(r)'
    BY <2>1, <2>2 DEF IndexInv, FilledIsBehind
  <2> QED
    BY <1>2, <2>1, <2>2, <2>3, <2>4, <2>6, <2>7, DocumentWritten
<1>6. CASE ConvertSource(m) /\ ~Refuse(m) /\ ~req[m].arg.pdf
  <2> DEFINE behind == db.behind \cup {of}  version == Version(m, 1)
             tables == [db EXCEPT !.document[m] = filled, !.version[m] = version, !.behind = behind]
  <2>1. End(m, tables)
    <3>1. End(m, [empty EXCEPT !.document[m].latest = m, !.version[m] = Version(m, 1), !.behind = @ \cup {<<"document", m>>}])
      BY <1>6 DEF ConvertSource
    <3>2. [empty EXCEPT !.document[m].latest = m, !.version[m] = Version(m, 1), !.behind = @ \cup {<<"document", m>>}] = tables
      <4> HIDE DEF shell
      <4> QED
        BY <1>2, IndexThere DEF IndexTables, IndexInv, PaperInv, PaperShape
    <3> HIDE DEF shell, filled, empty, tables
    <3> QED
      BY <3>1, <3>2
  <2> HIDE DEF shell, filled
  <2>2. /\ DOMAIN tables = DOMAIN db /\ tables.document = [db.document EXCEPT ![m] = filled]
        /\ tables.version = [db.version EXCEPT ![m] = version]
        /\ tables.text = db.text /\ tables.edited = db.edited /\ tables.node = db.node
        /\ tables.ingest = db.ingest /\ tables.reads = db.reads /\ tables.behind = behind
    <3> HIDE DEF version, behind
    <3> QED
      BY IndexThere DEF IndexTables
  <2>3. db.behind \subseteq behind /\ of \in behind
    OBVIOUS
  <2> HIDE DEF tables, behind, version
  <2>4. req'[m].at = "ok" /\ db' = tables
    BY <2>1, DoneBy DEF End, IndexInv
  <2>5. Goes(m)
    BY <1>1, <2>1, TakesGo DEF Takes, End
  <2>6. StillThere(m) /\ WritesBack(m)' /\ JobsSame
    BY <1>1, <2>2, <2>3, <2>4 DEF StillThere, WritesBack, JobsSame, At
  <2>7. TextGoes(of) /\ FinalIsLatest(m)'
    BY <2>2, <2>3, <2>4 DEF TextGoes, Excused, FinalIsLatest
  <2>8. ASSUME NEW r \in Requests PROVE FilledIsBehind(r)'
    <3>1. r # m => db'.version[r] = db.version[r]
      BY <2>2, <2>4 DEF IndexInv, PaperInv, PaperShape, Ids
    <3> QED
      BY <2>2, <2>3, <2>4, <3>1 DEF FilledIsBehind, IndexInv
  <2> QED
    BY <1>2, <2>2, <2>4, <2>5, <2>6, <2>7, <2>8, DocumentWritten
<1>7. CASE ConvertSource(m) /\ ~Refuse(m) /\ req[m].arg.pdf
  <2>1. ThenIngest(m, <<"fill", m>>, empty)
    BY <1>7 DEF ConvertSource
  <2> QED
    BY <1>5, <2>1
<1>8. CreateDocument(m) => End(m, empty)
  BY DEF CreateDocument
<1> QED
  BY <1>4, <1>5, <1>6, <1>7, <1>8

-----------------------------------------------------------------------------
\* Job j is stored or goes on, and no row of text is written.
JobMoves(j) ==
    /\ DOMAIN db' = DOMAIN db /\ db'.text = db.text /\ db'.edited = db.edited
    /\ DOMAIN db'.node = Texts /\ DOMAIN db'.reads = Requests /\ db.behind \subseteq db'.behind
    /\ \A k \in Requests : k # j => db'.ingest[k] = db.ingest[k] /\ db'.reads[k] = db.reads[k]
    /\ db'.ingest[j] # Nil /\ (db.ingest[j] # Nil => db.ingest[j].of = db'.ingest[j].of)
    /\ \A of \in Texts : of # db'.ingest[j].of => db'.node[of] = db.node[of]

LEMMA OtherTexts ==
    ASSUME IndexInv, NEW m, Goes(m), NEW j \in Requests, JobMoves(j), NEW of \in Texts, of # db'.ingest[j].of, SameRow(of),
           WillStore(of) => WillStore(of)' \/ Excused(of)'
    PROVE  IndexNow(of)'
<1>1. Excused(of) => Excused(of)'
  BY ExcusedStays DEF JobMoves, IndexInv, PaperInv
<1>2. Reading(of)' = Reading(of) /\ \A k \in Reading(of) : k # j /\ db'.reads[k] = db.reads[k]
  BY DEF Reading, JobMoves
<1>3. TextOf(of)' = TextOf(of) /\ Shelved(of)' = Shelved(of) /\ db'.node[of] = db.node[of]
  BY TextStays DEF JobMoves
<1>4. OneReads(of) => OneReads(of)'
  BY <1>2 DEF OneReads
<1>5. NoText(of) => NoText(of)'
  BY <1>2, <1>3 DEF NoText
<1>6. IsIndexed(of) => IsIndexed(of)'
  BY <1>2, <1>3 DEF IsIndexed
<1>7. ASSUME WillRead(of) PROVE WillRead(of)'
  <2>1. PICK k \in Requests : /\ db.ingest[k] # Nil /\ db.ingest[k].of = of /\ db.ingest[k].over \in {Nil, "dead"}
                              /\ db.reads[k] \subseteq {TextOf(of)}
    BY <1>7 DEF WillRead
  <2>2. k # j
    BY <2>1 DEF JobMoves
  <2>3. db'.ingest[k] = db.ingest[k] /\ db'.reads[k] = db.reads[k]
    BY <2>2 DEF JobMoves
  <2> QED
    BY <1>3, <2>1, <2>3 DEF WillRead
<1>8. IndexNow(of)
  BY DEF IndexInv
<1> QED
  BY <1>1, <1>3, <1>4, <1>5, <1>6, <1>7, <1>8 DEF IndexNow, Tended

LEMMA JobWell ==
    ASSUME IndexInv, PaperInv', NEW m, Goes(m), m \in Requests => WritesBack(m)', NEW j \in Requests, JobMoves(j),
           \A of \in Texts : IndexNow(of)', \A d \in Ids : FinalIsLatest(d)', \A r \in Requests : FilledIsBehind(r)'
    PROVE  IndexInv'
<1>1. IndexShape'
  BY IndexThere DEF JobMoves, IndexShape, IndexTables
<1>2. \A r \in Requests : db'.ingest[r] = Nil => db'.reads[r] = {}
  BY DEF JobMoves, IndexInv
<1> QED
  BY <1>1, <1>2, IndexStep

LEMMA StoringWell ==
    ASSUME IndexInv, PaperInv', NEW m \in Requests, StoreIngest(m)
    PROVE  IndexInv'
<1> PICK t : t = req[m].v.of
  OBVIOUS
<1> DEFINE job == IngestJob(t)
<1>1. At(m, "ingestJob") /\ Open(m) /\ req'[m].at = "ok" /\ db' = [db EXCEPT !.ingest[m] = job]
  BY DoneBy DEF StoreIngest, End, IndexInv, Open, Ended, Ends, At
<1>2. Goes(m)
  BY <1>1, TakesGo DEF Takes, StoreIngest, End
<1>3. db.ingest[m] = Nil /\ db.reads[m] = {}
  BY <1>1, NothingYet DEF IndexInv
<1>4. job.of = t /\ job.over = Nil /\ job # Nil
  <2>1. HasRead(m)
    BY DEF IndexInv, PaperInv, PaperStatement
  <2>2. job \in IngestRecord
    BY <1>1, <2>1 DEF HasRead
  <2> QED
    BY <2>2, IngestAssumption DEF IngestJob
<1> HIDE DEF job
<1>5. /\ DOMAIN db' = DOMAIN db /\ db'.document = db.document /\ db'.version = db.version
      /\ db'.text = db.text /\ db'.edited = db.edited /\ db'.node = db.node
      /\ db'.ingest = [db.ingest EXCEPT ![m] = job] /\ db'.reads = db.reads /\ db'.behind = db.behind
  BY <1>1, IndexThere DEF IndexTables
<1>6. db'.ingest[m] = job /\ \A k \in Requests : k # m => db'.ingest[k] = db.ingest[k]
  BY <1>5 DEF IndexInv, PaperInv, PaperShape
<1>7. JobMoves(m)
  BY <1>3, <1>4, <1>5, <1>6, IndexThere DEF JobMoves
<1>8. ASSUME NEW of \in Texts PROVE SameRow(of)
  BY <1>5, TextParts DEF SameRow
<1>9. ASSUME NEW of \in Texts, of # t PROVE IndexNow(of)'
  <2>1. ASSUME WillStore(of) PROVE WillStore(of)'
    <3>1. PICK r \in Requests : At(r, "ingestJob") /\ req[r].v.of = of
      BY <2>1 DEF WillStore
    <3>2. req'[r] = req[r]
      BY <1>2, <1>9, <3>1, GoesOthers, IndexThere
    <3> QED
      BY <3>1, <3>2 DEF WillStore, At
  <2> QED
    BY <1>2, <1>4, <1>6, <1>7, <1>8, <1>9, <2>1, OtherTexts
<1>10. ASSUME NEW of \in Texts, of = t PROVE IndexNow(of)'
  <2>1. Excused(of) => Excused(of)'
    BY <1>2, <1>5, ExcusedStays, IndexThere
  <2>2. Reading(of)' = Reading(of) /\ \A k : db'.reads[k] = db.reads[k]
    BY <1>3, <1>5, <1>6 DEF Reading
  <2>3. TextOf(of)' = TextOf(of) /\ Shelved(of)' = Shelved(of) /\ db'.node[of] = db.node[of]
    BY <1>5, <1>8, TextStays
  <2>4. OneReads(of) => OneReads(of)'
    BY <2>2 DEF OneReads
  <2>5. NoText(of) => NoText(of)'
    BY <2>2, <2>3 DEF NoText
  <2>6. WillRead(of)'
    BY <1>3, <1>4, <1>5, <1>6, <1>10 DEF WillRead
  <2>7. IndexNow(of)
    BY DEF IndexInv
  <2> QED
    BY <2>1, <2>3, <2>4, <2>5, <2>6, <2>7 DEF IndexNow, Tended
<1>11. WritesBack(m)'
  BY <1>1 DEF WritesBack, At
<1>12. (\A d \in Ids : FinalIsLatest(d)') /\ \A r \in Requests : FilledIsBehind(r)'
  BY <1>5 DEF IndexInv, FinalIsLatest, FilledIsBehind
<1> QED
  BY <1>2, <1>7, <1>9, <1>10, <1>11, <1>12, JobWell

-----------------------------------------------------------------------------
\* The runs of the workers.
LEMMA WorkersStore ==
    ASSUME IndexInv, Goes(Nil), NEW of, WillStore(of)
    PROVE  WillStore(of)' \/ Excused(of)'
<1>1. StillThere(Nil)
  BY CoreWorkerAssumption DEF StillThere
<1> QED
  BY <1>1, WillStoreStays, IndexThere

LEMMA LaterIs ==
    ASSUME IndexInv, NEW j \in Requests, db.ingest[j] # Nil, NEW how \in {Nil, "done", "failed", "dead"}
    PROVE  LET job == Later(db.ingest[j], how) IN
           /\ job \in IngestRecord /\ job # Nil /\ job.of = db.ingest[j].of /\ job.over = how
           /\ Over(j, how) = [db EXCEPT !.ingest = [db.ingest EXCEPT ![j] = job]]
<1>1. db.ingest[j] \in IngestRecord
  BY DEF IndexInv, PaperInv, PaperShape
<1>2. Later(db.ingest[j], how) \in IngestRecord /\ Later(db.ingest[j], how).of = db.ingest[j].of
  BY <1>1, LaterJob
<1>3. Later(db.ingest[j], how).over = how
  BY <1>1 DEF Later, IngestRecord
<1>4. Over(j, how) = [db EXCEPT !.ingest = [db.ingest EXCEPT ![j] = Later(db.ingest[j], how)]]
  BY OverTables, IndexThere
<1> QED
  BY <1>2, <1>3, <1>4, IngestAssumption

\* A run that ends, or fails, and has written nothing.
LEMMA OverWell ==
    ASSUME IndexInv, PaperInv', Goes(Nil), NEW j \in Requests, db.ingest[j] # Nil,
           NEW how \in {Nil, "done", "failed", "dead"}, db' = Over(j, how),
           db.ingest[j].of \in Texts => TextOf(db.ingest[j].of) = Nil
    PROVE  IndexInv'
<1> DEFINE job == Later(db.ingest[j], how)
<1>1. /\ job \in IngestRecord /\ job # Nil /\ job.of = db.ingest[j].of
      /\ Over(j, how) = [db EXCEPT !.ingest = [db.ingest EXCEPT ![j] = job]]
  BY LaterIs
<1> HIDE DEF job
<1>2. /\ DOMAIN db' = DOMAIN db /\ db'.document = db.document /\ db'.version = db.version
      /\ db'.text = db.text /\ db'.edited = db.edited /\ db'.node = db.node
      /\ db'.ingest = [db.ingest EXCEPT ![j] = job] /\ db'.reads = db.reads /\ db'.behind = db.behind
  BY <1>1, IndexThere DEF IndexTables
<1>3. db'.ingest[j] = job /\ \A k \in Requests : k # j => db'.ingest[k] = db.ingest[k]
  BY <1>2 DEF IndexInv, PaperInv, PaperShape
<1>4. JobMoves(j)
  BY <1>1, <1>2, <1>3, IndexThere DEF JobMoves
<1>5. ASSUME NEW of \in Texts PROVE SameRow(of)
  BY <1>2, TextParts DEF SameRow
<1>6. ASSUME NEW of \in Texts, of # job.of PROVE IndexNow(of)'
  BY <1>3, <1>4, <1>5, <1>6, WorkersStore, OtherTexts
<1>7. ASSUME NEW of \in Texts, of = db.ingest[j].of PROVE IndexNow(of)'
  <2>1. Excused(of) => Excused(of)'
    BY <1>2, ExcusedStays, IndexThere
  <2>2. Reading(of)' = Reading(of) /\ \A k : db'.reads[k] = db.reads[k]
    BY <1>1, <1>2, <1>3 DEF Reading
  <2>3. TextOf(of)' = TextOf(of) /\ Shelved(of)' = Shelved(of) /\ db'.node[of] = db.node[of]
    BY <1>2, <1>5, TextStays
  <2>4. OneReads(of) => OneReads(of)'
    BY <2>2 DEF OneReads
  <2>5. TextOf(of) = Nil
    BY <1>7
  <2>6. NoText(of) => NoText(of)' /\ IsIndexed(of)'
    BY <2>2, <2>3, <2>5 DEF NoText, IsIndexed
  <2>7. IndexNow(of)
    BY DEF IndexInv
  <2> QED
    BY <2>1, <2>3, <2>4, <2>6, <2>7 DEF IndexNow, Tended
<1>8. (\A d \in Ids : FinalIsLatest(d)') /\ \A r \in Requests : FilledIsBehind(r)'
  BY <1>2 DEF IndexInv, FinalIsLatest, FilledIsBehind
<1> QED
  BY <1>1, <1>4, <1>6, <1>7, <1>8, JobWell, CoreWorkerAssumption

LEMMA FillingWell ==
    ASSUME IndexInv, PaperInv', Goes(Nil), NEW j \in Requests, db.ingest[j] # Nil, FillDocument(j)
    PROVE  IndexInv'
<1> DEFINE of == <<"document", j>>
<1>1. \A t \in Texts : t # db.ingest[j].of
  BY TextParts DEF FillDocument
<1>2. CASE db' = Over(j, "failed") \/ db' = Raised(j)
  <2>1. Raised(j) = Over(j, "dead") \/ Raised(j) = Over(j, Nil)
    BY DEF Raised
  <2>2. CASE db' = Over(j, "failed")
    BY <1>1, <2>2, OverWell
  <2>3. CASE db' = Over(j, "dead")
    BY <1>1, <2>3, OverWell
  <2>4. CASE db' = Over(j, Nil)
    BY <1>1, <2>4, OverWell
  <2> QED
    BY <1>2, <2>1, <2>2, <2>3, <2>4
<1>3. CASE ~(db' = Over(j, "failed") \/ db' = Raised(j))
  <2>1. PICK how \in {"done", Nil} :
          db' = [Over(j, how) EXCEPT !.version[j] = Version(j, 1), !.document[j].latest = j, !.behind = @ \cup {of}]
    BY <1>3 DEF FillDocument
  <2> DEFINE job == Later(db.ingest[j], how)  base == [db EXCEPT !.ingest = [db.ingest EXCEPT ![j] = job]]
             version == Version(j, 1)
  <2>2. job \in IngestRecord /\ job # Nil /\ job.of = db.ingest[j].of /\ Over(j, how) = base
    BY LaterIs
  <2> HIDE DEF job
  <2>3. /\ DOMAIN base = DOMAIN db /\ base.document = db.document /\ base.version = db.version
        /\ base.text = db.text /\ base.edited = db.edited /\ base.node = db.node
        /\ base.ingest = [db.ingest EXCEPT ![j] = job] /\ base.reads = db.reads /\ base.behind = db.behind
    BY IndexThere DEF IndexTables
  <2> HIDE DEF base
  <2>4. /\ DOMAIN db' = DOMAIN db /\ db'.document = [db.document EXCEPT ![j].latest = j]
        /\ db'.version = [db.version EXCEPT ![j] = version]
        /\ db'.text = db.text /\ db'.edited = db.edited /\ db'.node = db.node
        /\ db'.ingest = [db.ingest EXCEPT ![j] = job] /\ db'.reads = db.reads /\ db'.behind = db.behind \cup {of}
    <3> HIDE DEF version, of
    <3>1. db' = [base EXCEPT !.version[j] = version, !.document[j].latest = j, !.behind = @ \cup {of}]
      BY <2>1, <2>2 DEF version
    <3> QED
      BY <2>3, <3>1, IndexThere DEF IndexTables
  <2> HIDE DEF version
  <2>5. db'.ingest[j] = job /\ \A k \in Requests : k # j => db'.ingest[k] = db.ingest[k]
    BY <2>4 DEF IndexInv, PaperInv, PaperShape
  <2>6. JobMoves(j)
    BY <2>2, <2>4, <2>5, IndexThere DEF JobMoves
  <2>7. DOMAIN db.document = Ids /\ DOMAIN db.version = Ids
    BY DEF IndexInv, PaperInv, PaperShape
  <2>8. ASSUME NEW t \in Texts PROVE IndexNow(t)'
    <3>1. CASE t = of
      BY <2>4, <3>1 DEF IndexNow, Excused
    <3>2. CASE t # of
      <4>1. SameRow(t)
        BY <2>4, <2>7, <3>2, TextParts DEF SameRow
      <4> QED
        BY <1>1, <2>2, <2>5, <2>6, <4>1, WorkersStore, OtherTexts
    <3> QED
      BY <3>1, <3>2
  <2>9. ASSUME NEW d \in Ids PROVE FinalIsLatest(d)'
    <3>1. d # j => db'.document[d] = db.document[d]
      BY <2>4, <2>7
    <3> QED
      BY <2>4, <3>1 DEF IndexInv, FinalIsLatest
  <2>10. ASSUME NEW r \in Requests PROVE FilledIsBehind(r)'
    <3>1. r # j => db'.version[r] = db.version[r]
      BY <2>4, <2>7 DEF Ids
    <3> QED
      BY <2>4, <3>1 DEF IndexInv, FilledIsBehind
  <2> QED
    BY <2>6, <2>8, <2>9, <2>10, JobWell, CoreWorkerAssumption
<1> QED
  BY <1>2, <1>3

LEMMA ReadingWell ==
    ASSUME IndexInv, PaperInv', Goes(Nil), NEW j \in Requests, db.ingest[j] # Nil, ReadText(j)
    PROVE  IndexInv'
<1> PICK of : of = db.ingest[j].of
  OBVIOUS
<1>1. of \in Texts /\ db.ingest[j].over = Nil
  BY DEF ReadText, MayRun
<1>2. CASE TextOf(of) = Nil
  <2>1. db' = Over(j, "failed")
    BY <1>2 DEF ReadText
  <2> QED
    BY <1>2, <2>1, OverWell
<1>3. CASE TextOf(of) # Nil
  <2> DEFINE job == Later(db.ingest[j], Nil)  base == [db EXCEPT !.ingest = [db.ingest EXCEPT ![j] = job]]
             read == db.reads[j] \cup {TextOf(of)}
             behind == IF Reading(of) = {} THEN db.behind ELSE db.behind \cup {of}
  <2>1. job \in IngestRecord /\ job # Nil /\ job.of = of /\ job.over = Nil /\ Over(j, Nil) = base
    BY LaterIs
  <2> HIDE DEF job
  <2>2. /\ DOMAIN base = DOMAIN db /\ base.document = db.document /\ base.version = db.version
        /\ base.text = db.text /\ base.edited = db.edited /\ base.node = db.node
        /\ base.ingest = [db.ingest EXCEPT ![j] = job] /\ base.reads = db.reads /\ base.behind = db.behind
    BY IndexThere DEF IndexTables
  <2> HIDE DEF base
  <2>3. /\ DOMAIN db' = DOMAIN db /\ db'.document = db.document /\ db'.version = db.version
        /\ db'.text = db.text /\ db'.edited = db.edited /\ db'.node = db.node
        /\ db'.ingest = [db.ingest EXCEPT ![j] = job] /\ db'.reads = [db.reads EXCEPT ![j] = read] /\ db'.behind = behind
    <3>1. db' = [base EXCEPT !.reads[j] = @ \cup {TextOf(of)}, !.behind = IF Reading(of) = {} THEN @ ELSE @ \cup {of}]
      BY <1>3, <2>1 DEF ReadText
    <3> QED
      BY <2>2, <3>1, IndexThere DEF IndexTables
  <2>4. /\ db.behind \subseteq behind /\ (Reading(of) # {} => of \in behind)
    OBVIOUS
  <2> HIDE DEF behind
  <2>5. /\ db'.ingest[j] = job /\ db'.reads[j] = read
        /\ \A k \in Requests : k # j => db'.ingest[k] = db.ingest[k] /\ db'.reads[k] = db.reads[k]
    BY <2>3, IndexThere DEF IndexInv, PaperInv, PaperShape
  <2>6. JobMoves(j)
    BY <2>1, <2>3, <2>4, <2>5, IndexThere DEF JobMoves
  <2>7. ASSUME NEW t \in Texts PROVE SameRow(t)
    BY <2>3, TextParts DEF SameRow
  <2>8. ASSUME NEW t \in Texts, t # of PROVE IndexNow(t)'
    BY <2>1, <2>5, <2>6, <2>7, <2>8, WorkersStore, OtherTexts
  <2>9. IndexNow(of)'
    <3>1. CASE Excused(of) \/ Reading(of) # {}
      <4>1. Excused(of)'
        BY <2>3, <2>4, <3>1, ExcusedStays, IndexThere DEF Excused
      <4> QED
        BY <4>1 DEF IndexNow
    <3>2. CASE ~Excused(of) /\ Reading(of) = {}
      <4>1. TextOf(of)' = TextOf(of) /\ Shelved(of)' = Shelved(of) /\ db'.node[of] = db.node[of]
        BY <1>1, <2>3, <2>7, TextStays
      <4>2. db.reads[j] = {}
        BY <3>2 DEF Reading
      <4>3. db'.reads[j] = {TextOf(of)}
        BY <2>5, <4>2
      <4>4. Reading(of)' = {j}
        <5>1. j \in Reading(of)'
          BY <2>1, <2>5, <4>3 DEF Reading
        <5>2. ASSUME NEW k \in Requests, k # j PROVE k \notin Reading(of)'
          BY <2>5, <3>2, <5>2 DEF Reading
        <5>3. Reading(of)' \subseteq Requests
          BY DEF Reading
        <5> QED
          BY <5>1, <5>2, <5>3
      <4>5. OneReads(of)'
        BY <4>3, <4>4 DEF OneReads
      <4>6. NoText(of)'
        BY <1>3, <4>1 DEF NoText
      <4>7. ~Shelved(of)
        <5>1. of = <<"text", of[2]>> => TextOf(of) = IF db.text[of[2]] = Nil THEN Nil
                                                 ELSE IF db.text[of[2]].archived THEN Nil ELSE db.text[of[2]].kind
          BY ZenonT(60), TextsAre
        <5> QED
          BY <1>1, <1>3, <5>1, TextParts DEF Shelved
      <4>8. Tended(of)
        BY <1>1, <3>2, <4>7 DEF IndexInv, IndexNow
      <4>9. CASE WillStore(of)
        BY <4>5, <4>6, <4>9, WorkersStore DEF IndexNow, Tended
      <4>10. CASE WillRead(of)
        <5>1. PICK k \in Requests : /\ db.ingest[k] # Nil /\ db.ingest[k].of = of /\ db.ingest[k].over \in {Nil, "dead"}
                                    /\ db.reads[k] \subseteq {TextOf(of)}
          BY <4>10 DEF WillRead
        <5>2. /\ db'.ingest[k] # Nil /\ db'.ingest[k].of = of /\ db'.ingest[k].over \in {Nil, "dead"}
              /\ db'.reads[k] \subseteq {TextOf(of)}
          BY <2>1, <2>5, <4>3, <5>1
        <5>3. WillRead(of)'
          BY <4>1, <5>2 DEF WillRead
        <5> QED
          BY <4>5, <4>6, <5>3 DEF IndexNow, Tended
      <4>11. CASE IsIndexed(of)
        <5>1. IsIndexed(of)'
          BY <4>1, <4>3, <4>4, <4>11 DEF IsIndexed
        <5> QED
          BY <4>5, <4>6, <5>1 DEF IndexNow, Tended
      <4> QED
        BY <4>8, <4>9, <4>10, <4>11 DEF Tended
    <3> QED
      BY <3>1, <3>2
  <2>10. (\A d \in Ids : FinalIsLatest(d)') /\ \A r \in Requests : FilledIsBehind(r)'
    BY <2>3, <2>4 DEF IndexInv, FinalIsLatest, FilledIsBehind
  <2> QED
    BY <2>6, <2>8, <2>9, <2>10, JobWell, CoreWorkerAssumption
<1> QED
  BY <1>2, <1>3

\* A run that has read the text ends: it writes the nodes, or fails.
LEMMA RunEndsWell ==
    ASSUME IndexInv, PaperInv', Goes(Nil), NEW j \in Requests, db.ingest[j] # Nil, NEW text \in db.reads[j],
           NEW job \in IngestRecord, job.of = db.ingest[j].of,
           DOMAIN db' = DOMAIN db, db'.document = db.document, db'.version = db.version, db'.text = db.text,
           db'.edited = db.edited, db'.ingest = [db.ingest EXCEPT ![j] = job],
           db'.reads = [db.reads EXCEPT ![j] = @ \ {text}], db'.behind = db.behind,
           \/ db'.node = [db.node EXCEPT ![db.ingest[j].of] = text]
           \/ db'.node = db.node /\ (db.ingest[j].over \in {Nil, "dead"} => job.over \in {Nil, "dead"})
    PROVE  IndexInv'
<1> PICK of : of = db.ingest[j].of
  OBVIOUS
<1>1. job # Nil
  BY IngestAssumption
<1>2. /\ db'.ingest[j] = job /\ db'.reads[j] = db.reads[j] \ {text}
      /\ \A k \in Requests : k # j => db'.ingest[k] = db.ingest[k] /\ db'.reads[k] = db.reads[k]
  BY IndexThere DEF IndexInv, PaperInv, PaperShape
<1>3. JobMoves(j)
  BY <1>1, <1>2, IndexThere DEF JobMoves
<1>4. ASSUME NEW t \in Texts PROVE SameRow(t)
  BY TextParts DEF SameRow
<1>5. ASSUME NEW t \in Texts, t # of PROVE IndexNow(t)'
  BY <1>2, <1>3, <1>4, <1>5, WorkersStore, OtherTexts
<1>6. ASSUME of \in Texts PROVE IndexNow(of)'
  <2>1. Excused(of) => Excused(of)'
    BY ExcusedStays, IndexThere
  <2>2. IndexNow(of)
    BY <1>6 DEF IndexInv
  <2> SUFFICES ASSUME ~Excused(of), OneReads(of) PROVE IndexNow(of)'
    BY <2>1, <2>2 DEF IndexNow
  <2>3. Reading(of) = {j} /\ db.reads[j] = {text}
    <3>1. j \in Reading(of)
      BY DEF Reading
    <3> QED
      BY <3>1 DEF OneReads
  <2>4. db'.reads[j] = {}
    BY <1>2, <2>3
  <2>5. Reading(of)' = {}
    <3>1. j \notin Reading(of)'
      BY <2>4 DEF Reading
    <3>2. ASSUME NEW k \in Requests, k # j PROVE k \notin Reading(of)'
      <4>1. k \notin Reading(of)
        BY <2>3, <3>2
      <4> QED
        BY <1>2, <3>2, <4>1 DEF Reading
    <3>3. Reading(of)' \subseteq Requests
      BY DEF Reading
    <3> QED
      BY <3>1, <3>2, <3>3
  <2>6. OneReads(of)'
    BY <2>5 DEF OneReads
  <2>7. TextOf(of)' = TextOf(of) /\ Shelved(of)' = Shelved(of)
    BY <1>4, <1>6, TextStays
  <2>8. CASE Shelved(of)
    BY <2>6, <2>7, <2>8 DEF IndexNow
  <2>9. CASE Tended(of)
    <3>1. NoText(of)'
      BY <2>3, <2>7, <2>9 DEF Tended, NoText
    <3>2. CASE WillStore(of)
      BY <2>6, <3>1, <3>2, WorkersStore DEF IndexNow, Tended
    <3>3. CASE db'.node = [db.node EXCEPT ![db.ingest[j].of] = text] /\ text = TextOf(of)
      <4>1. db'.node[of] = text
        BY <1>6, <3>3, IndexThere
      <4>2. IsIndexed(of)'
        BY <2>5, <2>7, <3>3, <4>1 DEF IsIndexed
      <4> QED
        BY <2>6, <3>1, <4>2 DEF IndexNow, Tended
    <3>4. CASE WillRead(of)
      <4>1. PICK k \in Requests : /\ db.ingest[k] # Nil /\ db.ingest[k].of = of /\ db.ingest[k].over \in {Nil, "dead"}
                                  /\ db.reads[k] \subseteq {TextOf(of)}
        BY <3>4 DEF WillRead
      <4>2. CASE k # j \/ job.over \in {Nil, "dead"}
        <5>1. /\ db'.ingest[k] # Nil /\ db'.ingest[k].of = of /\ db'.ingest[k].over \in {Nil, "dead"}
              /\ db'.reads[k] \subseteq {TextOf(of)}
          BY <1>1, <1>2, <2>4, <4>1, <4>2
        <5>2. WillRead(of)'
          BY <2>7, <5>1 DEF WillRead
        <5> QED
          BY <2>6, <3>1, <5>2 DEF IndexNow, Tended
      <4>3. CASE k = j /\ job.over \notin {Nil, "dead"}
        <5>1. text = TextOf(of)
          BY <4>1, <4>3
        <5> QED
          BY <3>3, <4>1, <4>3, <5>1
      <4> QED
        BY <4>2, <4>3
    <3>5. CASE IsIndexed(of)
      <4>1. text = TextOf(of)
        BY <2>3, <3>5 DEF IsIndexed
      <4>2. CASE db'.node = db.node
        <5>1. IsIndexed(of)'
          BY <2>5, <2>7, <3>5, <4>2 DEF IsIndexed
        <5> QED
          BY <2>6, <3>1, <5>1 DEF IndexNow, Tended
      <4> QED
        BY <3>3, <4>1, <4>2
    <3> QED
      BY <2>9, <3>2, <3>4, <3>5 DEF Tended
  <2> QED
    BY <2>2, <2>8, <2>9 DEF IndexNow
<1>7. (\A d \in Ids : FinalIsLatest(d)') /\ \A r \in Requests : FilledIsBehind(r)'
  BY DEF IndexInv, FinalIsLatest, FilledIsBehind
<1> QED
  BY <1>3, <1>5, <1>6, <1>7, JobWell, CoreWorkerAssumption

LEMMA WorkersKeepIndex ==
    ASSUME IndexInv, PaperInv', IngestStep
    PROVE  IndexInv'
<1>1. Goes(Nil)
  BY DEF IngestStep, Goes
<1>2. PICK j \in Requests : db.ingest[j] # Nil /\ (FillDocument(j) \/ ReadText(j) \/ StoreNodes(j) \/ FailIngest(j))
  BY DEF IngestStep
<1>3. db.ingest[j] \in IngestRecord
  BY <1>2 DEF IndexInv, PaperInv, PaperShape
<1>4. ASSUME NEW text \in db.reads[j], NEW over \in {Nil, "done", "failed", "dead"},
             \/ db' = [Without(j, text) EXCEPT !.node[db.ingest[j].of] = text, !.ingest[j].over = over]
             \/ /\ db' = [Without(j, text) EXCEPT !.ingest[j].over = over]
                /\ db.ingest[j].over \in {Nil, "dead"} => over \in {Nil, "dead"}
      PROVE  IndexInv'
  <2> DEFINE job == [db.ingest[j] EXCEPT !.over = over]  without == Without(j, text)
  <2>1. job \in IngestRecord /\ job.of = db.ingest[j].of /\ job.over = over
    BY <1>3 DEF IngestRecord
  <2>2. /\ DOMAIN without = DOMAIN db /\ without.document = db.document /\ without.version = db.version
        /\ without.text = db.text /\ without.edited = db.edited /\ without.node = db.node
        /\ without.ingest = db.ingest /\ without.reads = [db.reads EXCEPT ![j] = @ \ {text}]
        /\ without.behind = db.behind
    BY IndexThere DEF Without, IndexTables
  <2> HIDE DEF without
  <2>3. /\ DOMAIN db' = DOMAIN db /\ db'.document = db.document /\ db'.version = db.version
        /\ db'.text = db.text /\ db'.edited = db.edited
        /\ db'.ingest = [db.ingest EXCEPT ![j] = job] /\ db'.reads = [db.reads EXCEPT ![j] = @ \ {text}]
        /\ db'.behind = db.behind
        /\ \/ db'.node = [db.node EXCEPT ![db.ingest[j].of] = text]
           \/ db'.node = db.node /\ (db.ingest[j].over \in {Nil, "dead"} => over \in {Nil, "dead"})
    <3>1. \/ db' = [without EXCEPT !.node[db.ingest[j].of] = text, !.ingest[j].over = over]
          \/ /\ db' = [without EXCEPT !.ingest[j].over = over]
             /\ db.ingest[j].over \in {Nil, "dead"} => over \in {Nil, "dead"}
      BY <1>4 DEF without
    <3> QED
      BY ZenonT(60), <2>2, <3>1, IndexThere DEF IndexTables
  <2> HIDE DEF job
  <2> QED
    BY <1>1, <1>2, <2>1, <2>3, RunEndsWell
<1>5. CASE StoreNodes(j)
  BY <1>4, <1>5 DEF StoreNodes
<1>6. CASE FailIngest(j)
  <2>1. PICK text \in db.reads[j] :
           LET last == db.ingest[j].runs = MaxTries /\ db.reads[j] = {text} IN
           db' = [Without(j, text) EXCEPT !.ingest[j].over = IF @ = Nil /\ last THEN "dead" ELSE @]
    BY <1>6 DEF FailIngest
  <2> DEFINE was == Without(j, text).ingest[j].over
  <2>2. was = db.ingest[j].over /\ was \in {Nil, "done", "failed", "dead"}
    BY <1>3, IndexThere DEF Without, IndexTables, IngestRecord
  <2>3. db' = [Without(j, text) EXCEPT !.ingest[j].over = was] \/ db' = [Without(j, text) EXCEPT !.ingest[j].over = "dead"]
    BY <2>1
  <2> HIDE DEF was
  <2>4. CASE db' = [Without(j, text) EXCEPT !.ingest[j].over = was]
    BY <1>4, <2>2, <2>4
  <2>5. CASE db' = [Without(j, text) EXCEPT !.ingest[j].over = "dead"]
    BY <1>4, <2>5
  <2> QED
    BY <2>3, <2>4, <2>5
<1> QED
  BY <1>1, <1>2, <1>5, <1>6, FillingWell, ReadingWell

-----------------------------------------------------------------------------
LEMMA IndexMovesKeep ==
    ASSUME IndexInv, PaperInv', NEW m \in Requests, PaperMove(m)
    PROVE  IndexInv'
<1>1. CASE ArrivesPaper(m)
  <2>1. Called(m)
    BY <1>1, ArrivesApproval, ArrivesDocument, ArrivesApplication, ArrivesProject, ArrivesText, ArrivesPatch, IndexThere
       DEF ArrivesPaper
  <2>2. PICK h, arg : h \in Callable /\ Begin(m, h, arg)
    BY <2>1 DEF Called
  <2>3. h \notin {"jobRow", "archiveText"}
    BY <2>2 DEF Callable, PaperHandlers, DocumentWriters, Spenders, Reporters
  <2>4. req'[m].at = h /\ db' = db /\ At(m, "new")
    BY <2>2, BeginRequest, BeginEffect, IndexThere
  <2>5. Goes(m)
    BY <2>1, CalledGoes
  <2>6. StillThere(m) /\ WritesBack(m)'
    BY <2>3, <2>4 DEF StillThere, WritesBack, At
  <2> QED
    BY <2>4, <2>5, <2>6, UnchangedIndex, SameIndexWell
<1>2. CASE ApprovalStatement(m)
  BY <1>2, ApprovalsUntexted, UntextedWell, IndexThere
<1>3. CASE DocumentStatement(m)
  <2>1. CASE \/ PatchDocument(m) \/ CreateVersion(m) \/ ApplyEdits(m) \/ ApplyRevision(m) \/ ReadProposal(m) \/ Finalize(m)
             \/ FinalizeCheck(m) \/ SpendFinalize(m) \/ Archive(m) \/ ConvertDocument(m)
             \/ Export(m) \/ ExportRow(m) \/ RecordExport(m) \/ RecordRow(m)
    BY <2>1, DocumentsUntexted, UntextedWell, IndexThere
  <2>2. CASE PatchRow(m) \/ ArchiveRow(m) \/ ConvertRow(m)
    BY <2>2, RewritingWell
  <2>3. CASE SaveVersion(m) \/ FinalizeRows(m) \/ CreateDocument(m)
    BY <2>3, SavingWell, FinalizingWell, DraftingWell
  <2> QED
    BY <1>3, <2>1, <2>2, <2>3 DEF DocumentStatement
<1>4. CASE ApplicationStatement(m)
  BY <1>4, ApplicationsUntexted, UntextedWell, TextsWell, IndexThere
<1>5. CASE ProjectStatement(m)
  BY <1>5, ProjectsUntexted, UntextedWell, IndexThere
<1>6. CASE TextStatement(m)
  BY <1>6, TextsWell, EditsWell, ShelvingWell, DraftingWell, StoringWell DEF TextStatement
<1>7. CASE Killed(m)
  <2>1. req'[m].at = "killed" /\ db' = db
    BY <1>7, DoneBy DEF Killed, IndexInv
  <2>2. Goes(m)
    BY <1>7, KilledDoes, TakesGo
  <2> QED
    BY <2>1, <2>2, UnchangedIndex, SameIndexWell DEF StillThere, WritesBack, At
<1> QED
  BY <1>1, <1>2, <1>3, <1>4, <1>5, <1>6, <1>7, PaperCases

LEMMA IndexInvNext ==
    ASSUME IndexInv, [PaperNext]_vars
    PROVE  IndexInv'
<1>1. PaperInv'
  BY PaperInvNext DEF IndexInv
<1>2. ASSUME NEW r \in Requests, PaperMove(r) PROVE IndexInv'
  BY <1>1, <1>2, IndexMovesKeep
<1>3. Nil \notin Requests /\ StillThere(Nil)
  BY CoreWorkerAssumption DEF StillThere
<1>4. CASE Lapse \/ Sweep \/ UNCHANGED vars
  <2>1. Goes(Nil)
    BY <1>4 DEF Lapse, Sweep, vars, Goes
  <2>2. (\E approval : db' = [db EXCEPT !.approval = approval]) \/ db' = db
    BY <1>4 DEF Lapse, Sweep, vars
  <2>3. SameIndex(db')
    BY <2>2, UntextedTables, IndexThere
  <2> QED
    BY <1>1, <1>3, <2>1, <2>3, SameIndexWell
<1>5. CASE IngestStep
  BY <1>1, <1>5, WorkersKeepIndex
<1> QED
  BY <1>2, <1>4, <1>5 DEF PaperNext

LEMMA IndexInvInit == IndexInit => IndexInv
<1> SUFFICES ASSUME IndexInit PROVE IndexInv
  OBVIOUS
<1>1. PaperInv
  BY PaperInvInit DEF IndexInit
<1>2. ASSUME NEW r \in Requests PROVE FilledIsBehind(r) /\ WritesBack(r)
  <2>1. db.version[r] = Nil /\ req[r].at = "new"
    BY DEF IndexInit, PaperInit, PaperRowsOf, RequestsInit
  <2> QED
    BY <2>1 DEF FilledIsBehind, WritesBack, At
<1>3. ASSUME NEW of \in Texts PROVE IndexNow(of)
  <2>1. Reading(of) = {}
    BY DEF IndexInit, Reading
  <2>2. OneReads(of)
    BY <2>1 DEF OneReads
  <2>3. db.node[of] = TextOf(of) => Tended(of)
    BY <2>1 DEF Tended, IsIndexed, NoText
  <2> QED
    BY <2>2, <2>3 DEF IndexInit, IndexNow
<1> QED
  BY <1>1, <1>2, <1>3 DEF IndexInit, IndexInv

\* IndexFollows: the nodes of a text are of the text as it is once nothing is
\* under way about it, whatever handlers and runs of its jobs cross.
THEOREM TextsAreIndexed == IndexSpec => []IndexFollows
<1>1. IndexInv => IndexFollows
  <2> SUFFICES ASSUME IndexInv, NEW of \in Texts,
                      \A j \in {k \in Requests : db.ingest[k] # Nil /\ db.ingest[k].of = of} :
                          db.ingest[j].over \in {"done", "failed"} /\ db.reads[j] = {},
                      \A r \in Requests : ~At(r, "killed") /\ ~(At(r, "ingestJob") /\ req[r].v.of = of),
                      of \notin db.behind,
                      of[1] = "text" /\ db[of[1]][of[2]] # Nil => ~db[of[1]][of[2]].archived
               PROVE  db.node[of] = TextOf(of)
    BY DEF IndexFollows
  <2>1. ~Excused(of) /\ ~WillStore(of)
    BY DEF Excused, WillStore
  <2>2. ~Shelved(of)
    BY DEF Shelved
  <2>3. ~WillRead(of)
    BY IngestAssumption DEF WillRead
  <2>4. IndexNow(of)
    BY DEF IndexInv
  <2> QED
    BY <2>1, <2>2, <2>3, <2>4 DEF IndexNow, Tended, IsIndexed
<1>2. IndexInv /\ [PaperNext]_vars => IndexInv'
  BY IndexInvNext
<1> QED
  BY IndexInvInit, <1>1, <1>2, PTL DEF IndexSpec

-----------------------------------------------------------------------------
(***************************************************************************)
(* What was decided stays.                                                 *)
(***************************************************************************)
PostingRecord == [rev : Nat, status : {"DRAFT", "OPEN", "CLOSED"}, closed : BOOLEAN]
ProposalRecord == [document : Ids, source : Ids \cup {Nil}, atRev : Nat, applied : BOOLEAN]

DecisionShape ==
    /\ {"posting", "offer", "export", "proposal"} \subseteq DOMAIN db
    /\ db.posting \in [Ids -> PostingRecord \cup {Nil}]
    /\ db.proposal \in [Ids -> ProposalRecord \cup {Nil}]
    /\ DOMAIN db.offer = Ids /\ DOMAIN db.export = Ids

\* A closed posting is not open to applicants, and a run has no device before
\* it is started.
ClosedIsShut(i) == db.posting[i] # Nil /\ db.posting[i].closed => db.posting[i].status # "OPEN"
UnstartedIsFree(i) == db.run[i] # Nil /\ db.run[i].state = "APPROVAL_REQUIRED" => db.run[i].device = Nil

DecisionCalled(h, arg) ==
    /\ h \in {"patchPosting", "closePosting"} => arg.id \in Ids
    /\ h = "patchPosting" => arg.to \in {"DRAFT", "OPEN", Nil}
    /\ h \in {"createVersion", "applyEdits"} => arg.proposal = Nil
    /\ h = "applyRevision" => arg.proposal \in Ids /\ db.proposal[arg.proposal] \in ProposalRecord

DecisionHome(h, statement) ==
    /\ statement \in {"patchPosting", "postingRow"} => h = "patchPosting"
    /\ statement \in {"closePosting", "closeRow"} => h = "closePosting"

\* h is the row of a posting as a request has read it.
PostingHeld(i, h) ==
    LET row == db.posting[i] IN
    /\ h \in PostingRecord /\ row \in PostingRecord /\ h.rev <= row.rev
    /\ h.rev = row.rev => row = h

\* What a request of postings or exports has read: a reported export is not one
\* of a request that has yet to make it.
DecisionStatement(r) ==
    /\ ~At(r, "new") => DecisionCalled(req[r].do, req[r].arg) /\ DecisionHome(req[r].do, req[r].at)
    /\ req[r].at \in {"postingRow", "closeRow"} => PostingHeld(req[r].arg.id, req[r].v)
    /\ At(r, "postingRow") => ~(req[r].v.closed /\ req[r].arg.to = "OPEN")
    /\ At(r, "recordRow") => \A s \in Requests : s = req[r].arg.id => Ended(s)
    /\ ~Ended(r) => db.export[r] = Nil

DecisionInv ==
    /\ PaperInv /\ DecisionShape
    /\ \A i \in Ids : ClosedIsShut(i) /\ UnstartedIsFree(i)
    /\ \A r \in Requests : DecisionStatement(r)

DecisionInit ==
    /\ PaperInit /\ DecisionShape
    /\ \A i \in Ids : ClosedIsShut(i) /\ UnstartedIsFree(i)
    /\ \A r \in Requests : db.export[r] = Nil

\* The handlers of papers, with those of the calendar and of offers.
DecisionMove(r) == PaperMove(r) \/ ScheduleStep(r)
DecisionNext == (\E r \in Requests : DecisionMove(r)) \/ Lapse \/ Sweep \/ IngestStep
DecisionSpec == DecisionInit /\ [][DecisionNext]_vars

-----------------------------------------------------------------------------
\* What a step of m does to the tables of decisions.
PostingGrows(i) ==
    LET old == db.posting[i]  new == db'.posting[i] IN
    old \in PostingRecord =>
        new \in PostingRecord /\ old.rev <= new.rev /\ (new.rev = old.rev => new = old)
PostingsSettle ==
    /\ db'.posting \in [Ids -> PostingRecord \cup {Nil}]
    /\ \A i \in Ids : PostingGrows(i) /\ ClosedIsShut(i)' /\ PostingIsKept(i)
ProposalsSettle ==
    /\ db'.proposal \in [Ids -> ProposalRecord \cup {Nil}]
    /\ \A i \in Ids : /\ db.proposal[i] \in ProposalRecord => db'.proposal[i] \in ProposalRecord
                      /\ ProposalIsKept(i)
ExportsSettle(m) ==
    /\ DOMAIN db'.export = Ids
    /\ \A i \in Ids : ExportIsKept(i)
    /\ \A r \in Requests : r # m /\ ~Ended(r) => db'.export[r] = Nil
OffersSettle == DOMAIN db'.offer = Ids /\ \A i \in Ids : OfferIsKept(i)
RunsSettle == \A i \in Ids : UnstartedIsFree(i)' /\ RunIsKept(i)
ApplicationsSettle == \A i \in Ids : ApplicationIsKept(i)
DocumentsSettle == \A i \in Ids : DocumentIsKept(i)
ApprovalsSettle == \A i \in Ids : ApprovalIsKept(i)
TablesStay == {"posting", "offer", "export", "proposal"} \subseteq DOMAIN db'
Settles(m) ==
    /\ TablesStay /\ PostingsSettle /\ ProposalsSettle /\ ExportsSettle(m) /\ OffersSettle /\ RunsSettle
    /\ ApplicationsSettle /\ DocumentsSettle /\ ApprovalsSettle

LEMMA SameSettle ==
    ASSUME DecisionInv, NEW m
    PROVE  /\ db'.posting = db.posting => PostingsSettle
           /\ db'.proposal = db.proposal => ProposalsSettle
           /\ db'.export = db.export => ExportsSettle(m)
           /\ db'.offer = db.offer => OffersSettle
           /\ db'.run = db.run => RunsSettle
           /\ db'.application = db.application => ApplicationsSettle
           /\ db'.document = db.document => DocumentsSettle
           /\ db'.approval = db.approval => ApprovalsSettle
<1>1. db'.posting = db.posting => PostingsSettle
  <2>1. \A i \in Ids : db.posting[i] \in PostingRecord => db.posting[i].rev \in Nat
    BY DEF PostingRecord
  <2> QED
    BY <2>1 DEF DecisionInv, DecisionShape, PostingsSettle, PostingGrows, ClosedIsShut, PostingIsKept
<1>2. db'.proposal = db.proposal => ProposalsSettle
  BY DEF DecisionInv, DecisionShape, ProposalsSettle, ProposalIsKept
<1>3. db'.export = db.export => ExportsSettle(m)
  BY DEF DecisionInv, DecisionShape, ExportsSettle, ExportIsKept, DecisionStatement
<1>4. db'.offer = db.offer => OffersSettle
  BY DEF DecisionInv, DecisionShape, OffersSettle, OfferIsKept
<1>5. db'.run = db.run => RunsSettle
  BY DEF DecisionInv, RunsSettle, RunIsKept, UnstartedIsFree
<1>6. db'.application = db.application => ApplicationsSettle
  BY DEF ApplicationsSettle, ApplicationIsKept
<1>7. db'.document = db.document => DocumentsSettle
  BY DEF DecisionInv, PaperInv, PaperShape, DocumentRecord, DocumentsSettle, DocumentIsKept, Mutable
<1>8. db'.approval = db.approval => ApprovalsSettle
  BY DEF ApprovalsSettle, ApprovalIsKept
<1> QED
  BY <1>1, <1>2, <1>3, <1>4, <1>5, <1>6, <1>7, <1>8

LEMMA DecisionStep ==
    ASSUME DecisionInv, PaperInv', NEW m, Goes(m), Settles(m), m \in Requests => DecisionStatement(m)'
    PROVE  /\ DecisionInv'
           /\ \A i \in Ids : /\ ApplicationIsKept(i) /\ PostingIsKept(i) /\ OfferIsKept(i) /\ ExportIsKept(i)
                             /\ ProposalIsKept(i) /\ DocumentIsKept(i) /\ ApprovalIsKept(i) /\ RunIsKept(i)
<1>1. DecisionShape'
  BY DEF Settles, TablesStay, PostingsSettle, ProposalsSettle, ExportsSettle, OffersSettle, DecisionShape
<1>2. \A i \in Ids : ClosedIsShut(i)' /\ UnstartedIsFree(i)'
  BY DEF Settles, PostingsSettle, RunsSettle
<1>3. ASSUME NEW r \in Requests, r # m PROVE DecisionStatement(r)'
  <2>1. req'[r] = req[r] /\ (\A s \in Requests : Ended(s) => Ended(s)')
    BY <1>3, GoesOthers DEF DecisionInv, PaperInv, Ended, At, Ends
  <2>2. DecisionStatement(r)
    BY DEF DecisionInv
  <2>3. \A h, arg : DecisionCalled(h, arg) => DecisionCalled(h, arg)'
    BY DEF DecisionCalled, Settles, ProposalsSettle
  <2>4. \A h : \A i \in Ids : PostingHeld(i, h) => PostingHeld(i, h)'
    <3>1. \A h \in PostingRecord : h.rev \in Nat
      BY DEF PostingRecord
    <3> QED
      BY <3>1 DEF PostingHeld, Settles, PostingsSettle, PostingGrows
  <2>5. ~Ended(r)' => db'.export[r] = Nil
    BY <1>3, <2>1, <2>2 DEF Ended, At, Settles, ExportsSettle, DecisionStatement
  <2>6. ~At(r, "new")' => DecisionCalled(req[r].do, req[r].arg)' /\ DecisionHome(req'[r].do, req'[r].at)
    BY <2>1, <2>2, <2>3 DEF DecisionStatement, At
  <2>7. req'[r].at \in {"postingRow", "closeRow"} => PostingHeld(req[r].arg.id, req[r].v)'
    <3> SUFFICES ASSUME req'[r].at \in {"postingRow", "closeRow"} PROVE PostingHeld(req[r].arg.id, req[r].v)'
      OBVIOUS
    <3>1. PICK j, k : j = req[r].arg.id /\ k = req[r].v
      OBVIOUS
    <3>2. j \in Ids /\ PostingHeld(j, k)
      BY <2>1, <2>2, <3>1 DEF DecisionStatement, DecisionCalled, DecisionHome, At
    <3>3. PostingHeld(j, k)'
      BY <2>4, <3>2
    <3>4. req'[r].arg.id = j /\ req'[r].v = k
      BY <2>1, <3>1
    <3> QED
      BY <3>3, <3>4 DEF PostingHeld
  <2>8. At(r, "postingRow")' => ~(req'[r].v.closed /\ req'[r].arg.to = "OPEN")
    BY <2>1, <2>2 DEF DecisionStatement, At
  <2>9. At(r, "recordRow")' => \A s \in Requests : s = req'[r].arg.id => Ended(s)'
    BY <2>1, <2>2 DEF DecisionStatement, At
  <2> QED
    BY <2>5, <2>6, <2>7, <2>8, <2>9 DEF DecisionStatement
<1>4. \A r \in Requests : DecisionStatement(r)'
  BY <1>3
<1>5. \A i \in Ids : /\ ApplicationIsKept(i) /\ PostingIsKept(i) /\ OfferIsKept(i) /\ ExportIsKept(i)
                     /\ ProposalIsKept(i) /\ DocumentIsKept(i) /\ ApprovalIsKept(i) /\ RunIsKept(i)
  BY DEF Settles, PostingsSettle, ProposalsSettle, ExportsSettle, OffersSettle, RunsSettle, ApplicationsSettle,
     DocumentsSettle, ApprovalsSettle
<1> QED
  BY <1>1, <1>2, <1>4, <1>5 DEF DecisionInv

\* Statements that what was read or given counts at, or that name a handler.
Particular == {"new", "patchPosting", "postingRow", "closePosting", "closeRow", "recordRow"}

LEMMA StatementSettles ==
    ASSUME DecisionInv, NEW m \in Requests, Open(m), Goes(m), ProposalsSettle,
           req'[m].do = req[m].do, req'[m].arg = req[m].arg, req'[m].at \notin Particular,
           Ended(m)' \/ db'.export[m] = db.export[m]
    PROVE  DecisionStatement(m)'
<1>1. DecisionStatement(m)
  BY DEF DecisionInv
<1>2. \A h, arg : DecisionCalled(h, arg) => DecisionCalled(h, arg)'
  BY DEF DecisionCalled, ProposalsSettle
<1>3. DecisionCalled(req[m].do, req[m].arg)
  BY <1>1 DEF DecisionStatement, Open
<1>4. DecisionHome(req'[m].do, req'[m].at)
  BY DEF DecisionHome, Particular
<1>5. DecisionCalled(req[m].do, req[m].arg)'
  <2>1. PICK h, arg : h = req[m].do /\ arg = req[m].arg
    OBVIOUS
  <2>2. DecisionCalled(h, arg)'
    BY <1>2, <1>3, <2>1
  <2>3. req'[m].do = h /\ req'[m].arg = arg
    BY <2>1
  <2> QED
    BY <2>2, <2>3 DEF DecisionCalled
<1>6. ~Ended(m)' => db'.export[m] = Nil
  BY <1>1 DEF DecisionStatement, Open
<1> QED
  BY <1>4, <1>5, <1>6 DEF DecisionStatement, Particular, At

-----------------------------------------------------------------------------
DecisionTables == {"application", "posting", "offer", "export", "proposal", "document", "approval", "run"}

SameDecisions(tables) ==
    /\ DOMAIN tables = DOMAIN db
    /\ tables.application = db.application /\ tables.posting = db.posting /\ tables.offer = db.offer
    /\ tables.export = db.export /\ tables.proposal = db.proposal /\ tables.document = db.document
    /\ tables.approval = db.approval /\ tables.run = db.run

\* A statement that decides nothing.
DecidesNothing(r) ==
    Open(r) /\ \E statement, v, tables :
                   statement \notin Particular /\ SameDecisions(tables) /\ Do(r, statement, v, tables)

LEMMA DecisionTablesThere == ASSUME DecisionInv PROVE DecisionTables \subseteq DOMAIN db
  BY DEF DecisionInv, DecisionShape, PaperInv, PaperShape, DecisionTables

LEMMA SameDecisionsSettle ==
    ASSUME DecisionInv, NEW m, SameDecisions(db')
    PROVE  Settles(m)
<1>1. TablesStay
  BY DEF DecisionInv, DecisionShape, TablesStay, SameDecisions
<1> QED
  BY <1>1, SameSettle DEF Settles, SameDecisions

LEMMA UndecidedSettles ==
    ASSUME DecisionInv, NEW m \in Requests, Goes(m), DecidesNothing(m)
    PROVE  Settles(m) /\ DecisionStatement(m)'
<1>1. PICK statement, v, tables : statement \notin Particular /\ SameDecisions(tables) /\ Do(m, statement, v, tables)
  BY DEF DecidesNothing
<1>2. req'[m].do = req[m].do /\ req'[m].arg = req[m].arg /\ req'[m].at = statement /\ db' = tables
  BY <1>1, DoneBy DEF DecisionInv
<1>3. SameDecisions(db')
  BY <1>1, <1>2
<1>4. Settles(m) /\ ProposalsSettle
  BY <1>3, SameDecisionsSettle DEF Settles
<1> QED
  BY <1>1, <1>2, <1>3, <1>4, StatementSettles DEF DecidesNothing, SameDecisions

LEMMA UndecidedTables ==
    ASSUME DecisionTables \subseteq DOMAIN db, NEW x
    PROVE  /\ SameDecisions(db)
           /\ SameDecisions([db EXCEPT !.job = x])
           /\ SameDecisions([db EXCEPT !.draft = x])
           /\ SameDecisions([db EXCEPT !.blueprint = x])
           /\ SameDecisions([db EXCEPT !.text = x])
           /\ SameDecisions([db EXCEPT !.edited = x])
           /\ SameDecisions([db EXCEPT !.ingest = x])
           /\ SameDecisions([db EXCEPT !.event = x])
  BY DEF DecisionTables, SameDecisions

LEMMA UndecidedDo ==
    ASSUME DecisionTables \subseteq DOMAIN db, NEW r, Open(r),
           NEW statement, statement \notin Particular, NEW v, NEW x
    PROVE  /\ GoOn(r, statement, v) => DecidesNothing(r)
           /\ Do(r, statement, v, [db EXCEPT !.job = x]) => DecidesNothing(r)
           /\ Do(r, statement, v, [db EXCEPT !.draft = x]) => DecidesNothing(r)
           /\ Do(r, statement, v, [db EXCEPT !.blueprint = x]) => DecidesNothing(r)
           /\ Do(r, statement, v, [db EXCEPT !.text = x]) => DecidesNothing(r)
           /\ Do(r, statement, v, [db EXCEPT !.edited = x]) => DecidesNothing(r)
           /\ Do(r, statement, v, [db EXCEPT !.ingest = x]) => DecidesNothing(r)
           /\ Do(r, statement, v, [db EXCEPT !.event = x]) => DecidesNothing(r)
  BY UndecidedTables DEF DecidesNothing, GoOn

LEMMA ApprovalsUndecided ==
    ASSUME DecisionTables \subseteq DOMAIN db, NEW r,
           Decide(r) \/ Resolve(r) \/ StoreJob(r) \/ TellWaiting(r) \/ PostMessage(r) \/ EnqueueMessage(r)
    PROVE  DecidesNothing(r)
<1>1. \A statement, v, x :
         /\ Open(r) /\ statement \notin Particular =>
               /\ GoOn(r, statement, v) => DecidesNothing(r)
               /\ Do(r, statement, v, [db EXCEPT !.job = x]) => DecidesNothing(r)
  BY UndecidedDo
<1> USE <1>1 DEF Refuse, GoOn, End, Open, Ended, Ends, At, Particular
<1>2. CASE Decide(r) \/ Resolve(r)
  BY <1>2 DEF Decide, Resolve, Load
<1>3. CASE StoreJob(r) \/ TellWaiting(r)
  BY <1>3 DEF StoreJob, TellWaiting
<1>4. CASE PostMessage(r) \/ EnqueueMessage(r)
  BY <1>4 DEF PostMessage, EnqueueMessage
<1> QED
  BY <1>2, <1>3, <1>4

LEMMA DocumentsUndecided ==
    ASSUME DecisionTables \subseteq DOMAIN db, NEW r,
           \/ PatchDocument(r) \/ CreateVersion(r) \/ ApplyEdits(r) \/ ApplyRevision(r) \/ ReadProposal(r) \/ Finalize(r)
           \/ FinalizeCheck(r) \/ SpendFinalize(r) \/ Archive(r) \/ ConvertDocument(r) \/ Export(r)
    PROVE  DecidesNothing(r)
<1>1. \A statement, v : Open(r) /\ statement \notin Particular /\ GoOn(r, statement, v) => DecidesNothing(r)
  BY UndecidedDo
<1> USE <1>1 DEF Refuse, GoOn, End, Open, Ended, Ends, At, Particular
<1>2. CASE PatchDocument(r) \/ CreateVersion(r) \/ ApplyEdits(r) \/ ApplyRevision(r) \/ ReadProposal(r)
  BY <1>2 DEF PatchDocument, CreateVersion, ApplyEdits, ApplyRevision, ReadProposal, Load
<1>3. CASE Finalize(r) \/ FinalizeCheck(r) \/ SpendFinalize(r) \/ Archive(r) \/ ConvertDocument(r) \/ Export(r)
  BY <1>3 DEF Finalize, FinalizeCheck, SpendFinalize, Spend, Archive, ConvertDocument, Export, Load
<1> QED
  BY <1>2, <1>3

LEMMA ApplicationsUndecided ==
    ASSUME DecisionTables \subseteq DOMAIN db, NEW r,
           \/ PatchApplication(r) \/ CreateDraft(r) \/ DraftVersions(r) \/ DraftRow(r) \/ Submit(r) \/ SubmitDraft(r)
           \/ SubmitCheck(r) \/ SpendSubmit(r) \/ Apply(r) \/ ApplyLook(r, "applyExisting", "applySnapshot")
           \/ ApplyLook(r, "applySnapshot", "applyRows") \/ PatchApplicant(r)
    PROVE  DecidesNothing(r)
<1>1. \A statement, v, x :
         /\ Open(r) /\ statement \notin Particular =>
               /\ GoOn(r, statement, v) => DecidesNothing(r)
               /\ Do(r, statement, v, [db EXCEPT !.draft = x]) => DecidesNothing(r)
  BY UndecidedDo
<1> USE <1>1 DEF Refuse, GoOn, End, Open, Ended, Ends, At, Particular
<1>2. CASE PatchApplication(r) \/ CreateDraft(r) \/ Submit(r) \/ Apply(r)
  BY <1>2 DEF PatchApplication, CreateDraft, Submit, Apply, Load
<1>3. CASE DraftVersions(r) \/ DraftRow(r) \/ SubmitDraft(r)
  BY <1>3 DEF DraftVersions, DraftRow, SubmitDraft
<1>4. CASE SubmitCheck(r) \/ SpendSubmit(r)
  BY <1>4 DEF SubmitCheck, SpendSubmit, Spend
<1>5. CASE ApplyLook(r, "applyExisting", "applySnapshot") \/ ApplyLook(r, "applySnapshot", "applyRows") \/ PatchApplicant(r)
  BY <1>5 DEF ApplyLook, PatchApplicant
<1> QED
  BY <1>2, <1>3, <1>4, <1>5

LEMMA ProjectsUndecided ==
    ASSUME DecisionTables \subseteq DOMAIN db, NEW r,
           \/ SelectProject(r) \/ SelectRow(r) \/ CreateRun(r) \/ RunGuard(r) \/ StartRun(r) \/ StartCheck(r) \/ SpendStart(r)
           \/ ReportLaunch(r) \/ RecoverRun(r) \/ ReportResult(r)
    PROVE  DecidesNothing(r)
<1>1. \A statement, v, x :
         /\ Open(r) /\ statement \notin Particular =>
               /\ GoOn(r, statement, v) => DecidesNothing(r)
               /\ Do(r, statement, v, [db EXCEPT !.blueprint = x]) => DecidesNothing(r)
  BY UndecidedDo
<1> USE <1>1 DEF Refuse, GoOn, End, Open, Ended, Ends, At, Particular
<1>2. CASE SelectProject(r) \/ CreateRun(r) \/ StartRun(r)
  BY <1>2 DEF SelectProject, CreateRun, StartRun, Load
<1>3. CASE SelectRow(r)
  BY <1>3 DEF SelectRow, Save
<1>4. CASE RunGuard(r) \/ StartCheck(r) \/ SpendStart(r)
  BY <1>4 DEF RunGuard, StartCheck, SpendStart, Spend
<1>5. CASE ReportLaunch(r) \/ RecoverRun(r) \/ ReportResult(r)
  BY <1>5 DEF ReportLaunch, RecoverRun, ReportResult, Report
<1> QED
  BY <1>2, <1>3, <1>4, <1>5

LEMMA TextsUndecided ==
    ASSUME DecisionTables \subseteq DOMAIN db, NEW r, TextStatement(r), ~ConvertSource(r)
    PROVE  DecidesNothing(r)
<1>1. \A statement, v, x :
         /\ Open(r) /\ statement \notin Particular =>
               /\ GoOn(r, statement, v) => DecidesNothing(r)
               /\ Do(r, statement, v, [db EXCEPT !.text = x]) => DecidesNothing(r)
               /\ Do(r, statement, v, [db EXCEPT !.edited = x]) => DecidesNothing(r)
               /\ Do(r, statement, v, [db EXCEPT !.ingest = x]) => DecidesNothing(r)
  BY UndecidedDo
<1> USE <1>1 DEF Refuse, GoOn, End, Open, Ended, Ends, At, Particular
<1>2. CASE CreateSource(r) \/ CreateEvidence(r) \/ CreatePosting(r) \/ CreateJob(r)
  BY <1>2 DEF CreateSource, CreateEvidence, CreatePosting, CreateJob, NewText, ThenIngest
<1>3. CASE ArchiveEvidence(r) \/ ArchiveText(r)
  BY <1>3 DEF ArchiveEvidence, ArchiveText, Load, Save
<1>4. CASE DeleteSource(r)
  <2>1. Open(r)
    BY <1>4 DEF DeleteSource
  <2>2. ASSUME NEW text, NEW node, NEW behind
        PROVE  SameDecisions([db EXCEPT !.text = text, !.node = node, !.behind = behind])
    BY DEF SameDecisions, DecisionTables
  <2>3. Refuse(r) \/ \E text, node, behind : End(r, [db EXCEPT !.text = text, !.node = node, !.behind = behind])
    BY <1>4 DEF DeleteSource
  <2> QED
    BY <2>1, <2>2, <2>3 DEF DecidesNothing
<1>5. CASE StoreIngest(r)
  BY <1>5 DEF StoreIngest
<1>6. CASE PatchJob(r) \/ JobRow(r)
  BY <1>6 DEF PatchJob, JobRow, Load, ThenIngest
<1> QED
  BY <1>2, <1>3, <1>4, <1>5, <1>6 DEF TextStatement

LEMMA SchedulesUndecided ==
    ASSUME DecisionTables \subseteq DOMAIN db, NEW r,
           \/ CreateInterview(r) \/ PatchInterview(r) \/ InterviewRow(r) \/ PatchEvent(r) \/ EventRow(r) \/ DeleteEvent(r)
           \/ ReadOffer(r) \/ DecideOffer(r)
    PROVE  DecidesNothing(r)
<1>1. \A statement, v, x :
         /\ Open(r) /\ statement \notin Particular =>
               /\ GoOn(r, statement, v) => DecidesNothing(r)
               /\ Do(r, statement, v, [db EXCEPT !.event = x]) => DecidesNothing(r)
  BY UndecidedDo
<1>a. ASSUME NEW event, NEW interview, NEW v, Open(r), Do(r, "ok", v, [db EXCEPT !.event = event, !.interview = interview])
      PROVE  DecidesNothing(r)
  <2>1. SameDecisions([db EXCEPT !.event = event, !.interview = interview])
    BY DEF SameDecisions, DecisionTables
  <2> QED
    BY <1>a, <2>1 DEF DecidesNothing, Particular
<1> USE <1>1 DEF Refuse, GoOn, End, Open, Ended, Ends, At, Particular
<1>2. CASE CreateInterview(r)
  BY <1>2, <1>a DEF CreateInterview
<1>3. CASE InterviewRow(r)
  <2>1. \/ Refuse(r)
        \/ \E event, interview : End(r, [db EXCEPT !.interview = interview, !.event = event])
    BY <1>3 DEF InterviewRow
  <2>2. ASSUME NEW event, NEW interview
        PROVE  SameDecisions([db EXCEPT !.interview = interview, !.event = event])
    BY DEF SameDecisions, DecisionTables
  <2> QED
    BY <1>3, <2>1, <2>2 DEF DecidesNothing, InterviewRow
<1>4. CASE PatchInterview(r) \/ PatchEvent(r) \/ EventRow(r)
  BY <1>4 DEF PatchInterview, PatchEvent, EventRow, Load, Save
<1>5. CASE DeleteEvent(r) \/ ReadOffer(r) \/ DecideOffer(r)
  BY <1>5 DEF DeleteEvent, ReadOffer, DecideOffer
<1> QED
  BY <1>2, <1>3, <1>4, <1>5

LEMMA KilledUndecided ==
    ASSUME DecisionTables \subseteq DOMAIN db, NEW r, Killed(r)
    PROVE  DecidesNothing(r)
<1>1. \A statement, v : Open(r) /\ statement \notin Particular /\ GoOn(r, statement, v) => DecidesNothing(r)
  BY UndecidedDo
<1> QED
  BY <1>1 DEF Killed, GoOn, Particular

-----------------------------------------------------------------------------
\* What handlers are called with, where that counts here.
CalledToDecide(r) == \E h, arg : h \in Callable /\ DecisionCalled(h, arg) /\ Begin(r, h, arg)

LEMMA BeginsToDecide ==
    ASSUME NEW r, NEW h \in Callable, NEW arg, Begin(r, h, arg),
           h \notin {"patchPosting", "closePosting", "createVersion", "applyEdits", "applyRevision"}
    PROVE  CalledToDecide(r)
  BY DEF CalledToDecide, DecisionCalled

LEMMA DocumentsToDecide ==
    ASSUME DecisionInv, NEW r, ArriveDocument(r)
    PROVE  CalledToDecide(r)
<1>0. {"patchDocument", "finalize", "archive", "convertDocument", "createExport", "recordExport", "createDocument",
       "createVersion", "applyEdits", "applyRevision"} \subseteq Callable
  BY DEF Callable, PaperHandlers, DocumentWriters
<1>1. ASSUME NEW d \in Ids, Begin(r, "createVersion", [id |-> d, proposal |-> Nil])
      PROVE  CalledToDecide(r)
  BY <1>0, <1>1 DEF CalledToDecide, DecisionCalled
<1>2. ASSUME NEW d \in Ids, NEW w, Begin(r, "applyEdits", [id |-> d, version |-> w, proposal |-> Nil])
      PROVE  CalledToDecide(r)
  BY <1>0, <1>2 DEF CalledToDecide, DecisionCalled
<1>3. ASSUME NEW d \in Ids, NEW p \in Ids, db.proposal[p] # Nil, Begin(r, "applyRevision", [id |-> d, proposal |-> p])
      PROVE  CalledToDecide(r)
  <2>1. db.proposal[p] \in ProposalRecord
    BY <1>3 DEF DecisionInv, DecisionShape
  <2>2. DecisionCalled("applyRevision", [id |-> d, proposal |-> p])
    BY <2>1 DEF DecisionCalled
  <2> QED
    BY <1>0, <1>3, <2>2 DEF CalledToDecide
<1>4. ASSUME NEW h \in {"patchDocument", "finalize", "archive", "convertDocument", "createExport", "recordExport",
                        "createDocument"}, NEW arg, Begin(r, h, arg)
      PROVE  CalledToDecide(r)
  BY <1>0, <1>4, BeginsToDecide
<1> QED
  BY <1>1, <1>2, <1>3, <1>4 DEF ArriveDocument

LEMMA ApplicationsToDecide ==
    ASSUME DecisionInv, NEW r, ArriveApplication(r)
    PROVE  CalledToDecide(r)
<1>0. {"patchApplication", "createDraft", "submit", "patchApplicant", "apply", "patchPosting", "closePosting"}
        \subseteq Callable
  BY DEF Callable, PaperHandlers, Spenders
<1>1. ASSUME NEW p \in Ids, NEW to \in {"DRAFT", "OPEN", Nil}, Begin(r, "patchPosting", [id |-> p, to |-> to])
      PROVE  CalledToDecide(r)
  <2>1. DecisionCalled("patchPosting", [id |-> p, to |-> to])
    BY <1>1 DEF DecisionCalled
  <2> QED
    BY <1>0, <1>1, <2>1 DEF CalledToDecide
<1>2. ASSUME NEW p \in Ids, Begin(r, "closePosting", [id |-> p])
      PROVE  CalledToDecide(r)
  BY <1>0, <1>2 DEF CalledToDecide, DecisionCalled
<1>3. ASSUME NEW h \in {"patchApplication", "createDraft", "submit", "patchApplicant", "apply"}, NEW arg, Begin(r, h, arg)
      PROVE  CalledToDecide(r)
  BY <1>0, <1>3, BeginsToDecide
<1> QED
  BY <1>1, <1>2, <1>3 DEF ArriveApplication

LEMMA OthersToDecide ==
    ASSUME NEW r, ArriveApproval(r, Targets) \/ ArriveProject(r) \/ ArriveText(r) \/ ArrivePatch(r) \/ ArriveSchedule(r)
    PROVE  CalledToDecide(r)
<1>0. {"createApproval", "decide", "resolve", "postMessage", "selectProject", "createRun", "startRun", "reportLaunch",
       "recoverRun", "reportResult", "createSource", "createEvidence", "createPosting", "createJob", "archiveEvidence",
       "deleteSource", "convertSource", "patchJob", "createInterview", "patchInterview", "patchEvent", "deleteEvent",
       "getOffer", "decideOffer"} \subseteq Callable
  BY DEF Callable, PaperHandlers, Spenders, Reporters
<1>1. ASSUME NEW h \in {"createApproval", "decide", "resolve", "postMessage", "selectProject", "createRun", "startRun",
                        "reportLaunch", "recoverRun", "reportResult", "createSource", "createEvidence", "createPosting",
                        "createJob", "archiveEvidence", "deleteSource", "convertSource", "patchJob", "createInterview",
                        "patchInterview", "patchEvent", "deleteEvent", "getOffer", "decideOffer"},
             NEW arg, Begin(r, h, arg)
      PROVE  CalledToDecide(r)
  BY <1>0, <1>1, BeginsToDecide
<1>2. CASE ArriveApproval(r, Targets)
  BY <1>1, <1>2 DEF ArriveApproval
<1>3. CASE ArriveProject(r)
  BY <1>1, <1>3 DEF ArriveProject
<1>4. CASE ArriveText(r) \/ ArrivePatch(r)
  BY <1>1, <1>4 DEF ArriveText, ArrivePatch
<1>5. CASE ArriveSchedule(r)
  BY <1>1, <1>5 DEF ArriveSchedule
<1> QED
  BY <1>2, <1>3, <1>4, <1>5

LEMMA CalledSettles ==
    ASSUME DecisionInv, NEW m \in Requests, CalledToDecide(m)
    PROVE  Goes(m) /\ Settles(m) /\ DecisionStatement(m)'
<1>1. PICK h, arg : h \in Callable /\ DecisionCalled(h, arg) /\ Begin(m, h, arg)
  BY DEF CalledToDecide
<1>2. h \notin Ends \cup {"new"} /\ h \notin {"postingRow", "closeRow", "recordRow"}
  BY <1>1, CallsAtHome DEF Callable, PaperHandlers, DocumentWriters, Spenders, Reporters
<1>3. /\ req'[m].do = h /\ req'[m].at = h /\ req'[m].arg = arg /\ db' = db /\ At(m, "new")
  BY <1>1, BeginRequest, BeginEffect DEF DecisionInv, PaperInv
<1>4. Goes(m)
  BY <1>1, <1>2, BeginMoves DEF Goes
<1>5. Settles(m)
  BY <1>3, SameDecisionsSettle DEF SameDecisions
<1>6. DecisionCalled(h, arg)'
  BY <1>1, <1>3 DEF DecisionCalled
<1>7. DecisionHome(h, h)
  BY <1>2 DEF DecisionHome
<1>8. db'.export[m] = Nil
  BY <1>3 DEF DecisionInv, DecisionStatement, Ended, Ends, At
<1> QED
  BY <1>2, <1>3, <1>4, <1>5, <1>6, <1>7, <1>8 DEF DecisionStatement, DecisionCalled, At

-----------------------------------------------------------------------------
\* The calendar and the offers leave the papers alone.
ScheduleStatement(r) ==
    \/ CreateInterview(r) \/ PatchInterview(r) \/ InterviewRow(r) \/ PatchEvent(r)
    \/ EventRow(r) \/ DeleteEvent(r) \/ ReadOffer(r) \/ ReadRow(r) \/ DecideOffer(r) \/ OfferRow(r)
CalendarStatements == {"interviewRow", "eventRow", "readRow", "offerRow"}
Scheduled(r) ==
    /\ Open(r) /\ ~At(r, "ingestJob")
    /\ \E statement, v : statement \in Ends \cup CalendarStatements /\ \E tables : Do(r, statement, v, tables)
    /\ \/ db' = db
       \/ \E x : db' = [db EXCEPT !.event = x]
       \/ \E x : db' = [db EXCEPT !.offer = x]
       \/ \E x, y : db' = [db EXCEPT !.event = x, !.interview = y]
       \/ \E x, y : db' = [db EXCEPT !.interview = x, !.event = y]

LEMMA ScheduleDoes ==
    ASSUME NEW r, ScheduleStatement(r)
    PROVE  Scheduled(r)
<1> USE DEF Refuse, GoOn, End, Do, Open, Ended, Ends, At, CalendarStatements, Scheduled
<1>1. CASE CreateInterview(r)
  BY <1>1 DEF CreateInterview
<1>2. CASE InterviewRow(r)
  BY <1>2 DEF InterviewRow
<1>3. CASE PatchInterview(r) \/ PatchEvent(r)
  BY <1>3 DEF PatchInterview, PatchEvent, Load
<1>4. CASE EventRow(r)
  BY <1>4 DEF EventRow, Save
<1>5. CASE DeleteEvent(r) \/ ReadOffer(r) \/ DecideOffer(r)
  BY <1>5 DEF DeleteEvent, ReadOffer, DecideOffer
<1>6. CASE ReadRow(r) \/ OfferRow(r)
  BY <1>6 DEF ReadRow, OfferRow
<1> QED
  BY <1>1, <1>2, <1>3, <1>4, <1>5, <1>6 DEF ScheduleStatement

LEMMA SchedulesKeep ==
    ASSUME PaperInv, NEW m \in Requests, Scheduled(m)
    PROVE  Goes(m) /\ Stands(m) /\ PaperStatement(m)'
<1>1. PICK statement, v, tables : statement \in Ends \cup CalendarStatements /\ Do(m, statement, v, tables)
  BY DEF Scheduled
<1>2. req'[m].do = req[m].do /\ req'[m].arg = req[m].arg /\ req'[m].at = statement
  BY <1>1, DoneBy
<1>3. Goes(m)
  BY <1>1, TakesGo DEF Takes, Scheduled, Ends, CalendarStatements
<1>4. ASSUME NEW x, NEW y,
             db' = [db EXCEPT !.event = x, !.interview = y] \/ db' = [db EXCEPT !.interview = x, !.event = y]
      PROVE  PaperSame
    BY <1>4 DEF PaperInv, PaperShape, PaperSame, PaperKept, DocumentsKept, PaperThere
<1>5. PaperSame
  BY <1>4, UnchangedIsSame, OtherTableIsSame DEF Scheduled
<1>6. statement \in CalendarStatements => statement \notin StatementsOfRead \cup {"new"} /\ AtHome(req[m].do, statement)
  BY DEF CalendarStatements, StatementsOfRead, AtHome, PaperHandlers, DocumentWriters, Spenders, Reporters
<1> QED
  BY <1>1, <1>2, <1>3, <1>5, <1>6, PlainWell DEF Scheduled, Ends

LEMMA ScheduleCalled ==
    ASSUME NEW r, ArriveSchedule(r)
    PROVE  Called(r)
<1>1. ASSUME NEW h \in {"createInterview", "patchInterview", "patchEvent", "deleteEvent", "getOffer", "decideOffer"},
             NEW arg, Begin(r, h, arg)
      PROVE  Called(r)
  <2>1. CalledFor(h, arg)
    BY <1>1 DEF CalledFor, DocumentWriters, Spenders, Reporters
  <2> QED
    BY <1>1, <2>1, BeginsCalled DEF Callable
<1> QED
  BY <1>1 DEF ArriveSchedule

LEMMA SchedulesKeepPapers ==
    ASSUME PaperInv, NEW m \in Requests, ScheduleStep(m)
    PROVE  PaperInv'
<1>1. CASE ArriveSchedule(m)
  BY <1>1, ScheduleCalled, CalledGoes, CalledStands, PaperInvStep
<1>2. CASE ScheduleStatement(m)
  BY <1>2, ScheduleDoes, SchedulesKeep, PaperInvStep
<1> QED
  BY <1>1, <1>2 DEF ScheduleStep, ScheduleStatement

-----------------------------------------------------------------------------
\* A step that writes one of the tables.
LEMMA OnlyOneSettles ==
    ASSUME DecisionInv, NEW m, NEW x
    PROVE  /\ db' = [db EXCEPT !.approval = x] /\ ApprovalsSettle => Settles(m)
           /\ db' = [db EXCEPT !.application = x] /\ ApplicationsSettle => Settles(m)
           /\ db' = [db EXCEPT !.posting = x] /\ PostingsSettle => Settles(m)
           /\ db' = [db EXCEPT !.offer = x] /\ OffersSettle => Settles(m)
           /\ db' = [db EXCEPT !.export = x] /\ ExportsSettle(m) => Settles(m)
           /\ db' = [db EXCEPT !.document = x] /\ DocumentsSettle => Settles(m)
           /\ db' = [db EXCEPT !.run = x] /\ RunsSettle => Settles(m)
<1>1. DecisionTables \subseteq DOMAIN db
  BY DecisionTablesThere
<1> USE SameSettle, <1>1 DEF Settles, TablesStay, DecisionTables
<1>2. db' = [db EXCEPT !.approval = x] /\ ApprovalsSettle => Settles(m)
  OBVIOUS
<1>3. db' = [db EXCEPT !.application = x] /\ ApplicationsSettle => Settles(m)
  OBVIOUS
<1>4. db' = [db EXCEPT !.posting = x] /\ PostingsSettle => Settles(m)
  OBVIOUS
<1>5. db' = [db EXCEPT !.offer = x] /\ OffersSettle => Settles(m)
  OBVIOUS
<1>6. db' = [db EXCEPT !.export = x] /\ ExportsSettle(m) => Settles(m)
  OBVIOUS
<1>7. db' = [db EXCEPT !.document = x] /\ DocumentsSettle => Settles(m)
  OBVIOUS
<1>8. db' = [db EXCEPT !.run = x] /\ RunsSettle => Settles(m)
  OBVIOUS
<1> QED
  BY <1>2, <1>3, <1>4, <1>5, <1>6, <1>7, <1>8

\* The statement of m writes the table x as given, and ends or goes on.
LEMMA EndingSettles ==
    ASSUME DecisionInv, NEW m \in Requests, Open(m), Goes(m), Settles(m),
           NEW statement, statement \notin Particular, NEW v, NEW tables, Do(m, statement, v, tables),
           statement \in Ends \/ db'.export[m] = db.export[m]
    PROVE  DecisionStatement(m)'
<1>1. req'[m].do = req[m].do /\ req'[m].arg = req[m].arg /\ req'[m].at = statement
  BY DoneBy DEF DecisionInv
<1> QED
  BY <1>1, StatementSettles DEF Settles, Ended, At

LEMMA KeptApprovals ==
    ASSUME DecisionInv, NEW i \in Ids, NEW new, db'.approval = [db.approval EXCEPT ![i] = new],
           \/ db.approval[i] = Nil
           \/ db.approval[i].state \in {"PENDING", "APPROVED", "REJECTED"}
           \/ new.state = db.approval[i].state
           \/ db.approval[i].state = "EXPIRED" /\ \E r \in Requests : At(r, "decideRow") /\ At(r, "ok")'
    PROVE  ApprovalsSettle
<1>1. ApprovalIsKept(i)
  BY DEF ApprovalIsKept, DecisionInv, PaperInv, PaperShape
<1>2. \A k \in Ids \ {i} : db'.approval[k] = db.approval[k]
  BY DEF DecisionInv, PaperInv, PaperShape
<1> QED
  BY <1>1, <1>2 DEF ApprovalsSettle, ApprovalIsKept

LEMMA CreatingDecides ==
    ASSUME DecisionInv, NEW m \in Requests, Open(m), Goes(m), Create(m)
    PROVE  Settles(m) /\ DecisionStatement(m)'
<1> DEFINE new == Approval(req[m].arg.kind, req[m].arg.target, "PENDING")
<1>1. Do(m, "ok", req[m].v, [db EXCEPT !.approval[m] = new]) /\ At(m, "createApproval")
  BY DEF Create, End
<1> HIDE DEF new
<1>2. m \in Ids /\ db.approval[m] = Nil
  BY <1>1, NothingYet DEF At, DecisionInv, PaperRowsOf
<1>3. db' = [db EXCEPT !.approval = [@ EXCEPT ![m] = new]]
  BY <1>1, DoneBy DEF DecisionInv
<1>4. db'.approval = [db.approval EXCEPT ![m] = new]
  BY <1>3 DEF DecisionInv, PaperInv, PaperShape
<1>5. Settles(m)
  BY <1>2, <1>3, <1>4, KeptApprovals, OnlyOneSettles
<1> QED
  BY <1>1, <1>5, EndingSettles DEF Ends, Particular

LEMMA DecidingDecides ==
    ASSUME DecisionInv, NEW m \in Requests, Open(m), Goes(m), DecideRow(m)
    PROVE  Settles(m) /\ DecisionStatement(m)'
<1> DEFINE a == req[m].arg.id  row == req[m].v
           to == IF row.late THEN "EXPIRED" ELSE req[m].arg.to
           said == [db.approval[a] EXCEPT !.state = to]  new == Bumped(said)
<1>0. At(m, "decideRow") /\ DecisionInv /\ PaperInv
  BY DEF DecideRow, DecisionInv
<1>1. PICK statement \in {"ok", "refused"} :
         /\ Do(m, statement, row, IF Same("approval", a, row) THEN [db EXCEPT !.approval[a] = new] ELSE db)
         /\ Same("approval", a, row) /\ ~row.late => statement = "ok"
  BY DEF DecideRow
<1>2. req'[m].at = statement /\ db' = IF Same("approval", a, row) THEN [db EXCEPT !.approval[a] = new] ELSE db
  BY <1>0, <1>1, DoneBy
<1>3. CASE ~Same("approval", a, row)
  BY <1>2, <1>3, SameDecisionsSettle, EndingSettles, <1>1 DEF SameDecisions, Ends, Particular
<1>4. CASE Same("approval", a, row)
  <2>1. req[m].do = "decide"
    BY <1>0, NextAtHome DEF AtHome, At
  <2>2. a \in Ids /\ db.approval[a] # Nil
    BY <1>0, <2>1, NextAtHome DEF CalledFor
  <2>3. db.approval[a] \in ApprovalRecord /\ db.approval[a].state \in {"PENDING", "EXPIRED"}
    BY <1>0, <1>4, <2>2 DEF PaperInv, PaperShape, PaperStatement, HasRead, Same
  <2>4. new.state = to
    BY <2>3 DEF Bumped, ApprovalRecord
  <2>5. row.late => to = "EXPIRED"
    OBVIOUS
  <2>6. ~row.late => At(m, "decideRow") /\ At(m, "ok")'
    BY <1>0, <1>1, <1>2, <1>4 DEF At
  <2> HIDE DEF new, to
  <2>7. db' = [db EXCEPT !.approval = [@ EXCEPT ![a] = new]]
    BY <1>2, <1>4
  <2>8. db'.approval = [db.approval EXCEPT ![a] = new]
    BY <1>0, <2>7 DEF PaperInv, PaperShape
  <2> HIDE DEF a, row
  <2>a. \/ db.approval[a].state = "PENDING"
        \/ new.state = db.approval[a].state
        \/ db.approval[a].state = "EXPIRED" /\ \E r \in Requests : At(r, "decideRow") /\ At(r, "ok")'
    BY <2>3, <2>4, <2>5, <2>6
  <2>b. ApprovalsSettle
    BY <2>2, <2>8, <2>a, KeptApprovals
  <2>9. Settles(m)
    BY <2>7, <2>b, OnlyOneSettles
  <2> QED
    BY <1>1, <2>9, EndingSettles DEF Ends, Particular
<1> QED
  BY <1>3, <1>4

LEMMA AnsweringDecides ==
    ASSUME DecisionInv, NEW m \in Requests, Open(m), Goes(m), Answer(m) \/ Undo(m)
    PROVE  Settles(m) /\ DecisionStatement(m)'
<1> DEFINE a == req[m].arg.id  now == db.approval[a]
<1>0. PaperInv /\ (At(m, "answer") \/ At(m, "undo"))
  BY DEF Answer, Undo, DecisionInv
<1>1. req[m].do = "resolve"
  BY <1>0, NextAtHome DEF AtHome, At
<1>2. a \in Ids /\ now # Nil
  BY <1>0, <1>1, NextAtHome DEF CalledFor
<1>3. ASSUME NEW new, db' = [db EXCEPT !.approval = [@ EXCEPT ![a] = new]],
             now.state \in {"PENDING", "APPROVED", "REJECTED"}
      PROVE  Settles(m)
  <2>1. db'.approval = [db.approval EXCEPT ![a] = new]
    BY <1>0, <1>3 DEF PaperInv, PaperShape
  <2> QED
    BY <1>2, <1>3, <2>1, KeptApprovals, OnlyOneSettles
<1>4. \E statement, v :
         /\ statement \in Ends \cup {"storeJob"}
         /\ \/ Do(m, statement, v, db)
            \/ /\ now.state \in {"PENDING", "APPROVED", "REJECTED"}
               /\ \E new : Do(m, statement, v, [db EXCEPT !.approval = [@ EXCEPT ![a] = new]])
  <2>1. CASE Answer(m)
    <3>1. \/ Refuse(m)
          \/ Do(m, "refused", Nil, db)
          \/ IsPending(now) /\ \E new : Do(m, "refused", Nil, [db EXCEPT !.approval = [@ EXCEPT ![a] = new]])
          \/ IsPending(now) /\ \E new : Do(m, "storeJob", Nil, [db EXCEPT !.approval = [@ EXCEPT ![a] = new]])
      BY <2>1 DEF Answer
    <3> QED
      BY <3>1 DEF Refuse, Ends, IsPending
  <2>2. CASE Undo(m)
    <3>1. Do(m, "refused", Nil, Unanswered(m))
      BY <2>2 DEF Undo
    <3>2. CASE now.state # Chosen(m)
      BY <3>1, <3>2 DEF Unanswered, Ends
    <3>3. CASE now.state = Chosen(m)
      <4> DEFINE new == [now EXCEPT !.state = "PENDING", !.option = Nil]
      <4>1. Unanswered(m) = [db EXCEPT !.approval = [@ EXCEPT ![a] = new]]
        BY <1>0, <1>2, <3>3 DEF Unanswered, PaperInv, PaperShape
      <4> HIDE DEF new
      <4>2. Do(m, "refused", Nil, [db EXCEPT !.approval = [@ EXCEPT ![a] = new]])
        BY <3>1, <4>1
      <4> QED
        BY <3>3, <4>2 DEF Chosen, Ends
    <3> QED
      BY <3>2, <3>3
  <2> QED
    BY <2>1, <2>2
<1>5. PICK statement, v, new :
         /\ statement \in Ends \cup {"storeJob"}
         /\ \/ Do(m, statement, v, db)
            \/ /\ now.state \in {"PENDING", "APPROVED", "REJECTED"}
               /\ Do(m, statement, v, [db EXCEPT !.approval = [@ EXCEPT ![a] = new]])
  BY <1>4, Zenon
<1>6. statement \notin Particular
  BY <1>5 DEF Ends, Particular
<1>7. CASE Do(m, statement, v, db)
  <2>1. db' = db
    BY <1>0, <1>7, DoneBy
  <2>2. Settles(m)
    BY <2>1, SameDecisionsSettle DEF SameDecisions
  <2> QED
    BY <1>6, <1>7, <2>1, <2>2, EndingSettles
<1>8. CASE ~Do(m, statement, v, db)
  <2>1. /\ now.state \in {"PENDING", "APPROVED", "REJECTED"}
        /\ Do(m, statement, v, [db EXCEPT !.approval = [@ EXCEPT ![a] = new]])
    BY <1>5, <1>8, Zenon
  <2>2. db' = [db EXCEPT !.approval = [@ EXCEPT ![a] = new]]
    BY <1>0, <2>1, DoneBy
  <2>3. Settles(m)
    BY <1>3, <2>1, <2>2
  <2>4. db'.export = db.export
    BY <1>0, <2>2 DEF DecisionInv, DecisionShape
  <2> QED
    BY <1>6, <2>1, <2>3, <2>4, EndingSettles
<1> QED
  BY <1>7, <1>8

LEMMA TellingDecides ==
    ASSUME DecisionInv, NEW m \in Requests, Open(m), Goes(m), TellTurn(m)
    PROVE  Settles(m) /\ DecisionStatement(m)'
<1>0. PaperInv
  BY DEF DecisionInv
<1>1. CASE Refuse(m)
  <2>1. db' = db
    BY <1>0, <1>1, DoneBy DEF Refuse
  <2>2. Settles(m)
    BY <2>1, SameDecisionsSettle DEF SameDecisions
  <2> QED
    BY <1>1, <2>2, EndingSettles DEF Refuse, Ends, Particular
<1>2. CASE ~Refuse(m)
  <2> DEFINE new == [a \in Ids |-> IF a \in Approvals("card", "PENDING")
                                   THEN Bumped([db.approval[a] EXCEPT !.state = "REJECTED"]) ELSE db.approval[a]]
  <2>1. Do(m, "ok", req[m].v, [db EXCEPT !.approval = new])
    BY <1>0, <1>2 DEF TellTurn, End, PaperInv, PaperShape
  <2>2. \A a \in Ids : new[a] = db.approval[a] \/ db.approval[a].state = "PENDING"
    BY DEF Approvals
  <2> HIDE DEF new
  <2>3. db' = [db EXCEPT !.approval = new] /\ db'.approval = new
    BY <1>0, <2>1, DoneBy DEF PaperInv, PaperShape
  <2>4. ApprovalsSettle
    BY <2>2, <2>3 DEF ApprovalsSettle, ApprovalIsKept
  <2>5. Settles(m)
    BY <2>3, <2>4, OnlyOneSettles
  <2> QED
    BY <2>1, <2>5, EndingSettles DEF Ends, Particular
<1> QED
  BY <1>1, <1>2

LEMMA ExpiryDecides ==
    ASSUME DecisionInv, Lapse \/ Sweep
    PROVE  Settles(Nil)
<1>0. PaperInv
  BY DEF DecisionInv
<1>1. CASE Lapse
  <2>1. PICK a \in Ids : db.approval[a] # Nil /\ db' = [db EXCEPT !.approval[a].late = TRUE]
    BY <1>1 DEF Lapse
  <2> DEFINE new == [db.approval[a] EXCEPT !.late = TRUE]
  <2>2. db.approval[a] \in ApprovalRecord
    BY <1>0, <2>1 DEF PaperInv, PaperShape
  <2>3. new.state = db.approval[a].state
    BY <2>2 DEF ApprovalRecord
  <2>4. db' = [db EXCEPT !.approval = [@ EXCEPT ![a] = new]]
    BY <1>0, <2>1 DEF PaperInv, PaperShape
  <2> HIDE DEF new
  <2>5. db'.approval = [db.approval EXCEPT ![a] = new]
    BY <1>0, <2>4 DEF PaperInv, PaperShape
  <2> QED
    BY <2>3, <2>4, <2>5, KeptApprovals, OnlyOneSettles
<1>2. CASE Sweep
  <2> DEFINE due == {a \in Ids : db.approval[a] # Nil /\ IsPending(db.approval[a]) /\ db.approval[a].late}
             new == [a \in Ids |-> IF a \notin due THEN db.approval[a] ELSE [db.approval[a] EXCEPT !.state = "EXPIRED"]]
  <2>1. db' = [db EXCEPT !.approval = new]
    BY <1>0, <1>2 DEF Sweep, PaperInv, PaperShape
  <2>2. \A a \in Ids : new[a] = db.approval[a] \/ db.approval[a].state = "PENDING"
    BY DEF IsPending
  <2> HIDE DEF new
  <2>3. db'.approval = new
    BY <1>0, <2>1 DEF PaperInv, PaperShape
  <2>4. ApprovalsSettle
    BY <2>2, <2>3 DEF ApprovalsSettle, ApprovalIsKept
  <2> QED
    BY <2>1, <2>4, OnlyOneSettles
<1> QED
  BY <1>1, <1>2

\* What a statement that refuses leaves, and one that writes a row.
LEMMA RefusingDecides ==
    ASSUME DecisionInv, NEW m \in Requests, Open(m), Goes(m), Refuse(m) \/ End(m, db)
    PROVE  Settles(m) /\ DecisionStatement(m)'
<1>0. PaperInv
  BY DEF DecisionInv
<1>1. \E statement, v : statement \in Ends /\ Do(m, statement, v, db)
  BY DEF Refuse, End, Ends
<1>2. PICK statement, v : statement \in Ends /\ Do(m, statement, v, db)
  BY <1>1
<1>3. db' = db
  BY <1>0, <1>2, DoneBy
<1>4. Settles(m)
  BY <1>3, SameDecisionsSettle DEF SameDecisions
<1> QED
  BY <1>2, <1>4, EndingSettles DEF Ends, Particular

LEMMA KeptApplications ==
    ASSUME DecisionInv, NEW i \in Ids, NEW new, db'.application = [db.application EXCEPT ![i] = new],
           \/ db.application[i] = Nil
           \/ db.application[i].stage \notin Terminal
           \/ new.stage = db.application[i].stage
           \/ \E r \in Requests : At(r, "applicantRow") /\ At(r, "ok")'
    PROVE  ApplicationsSettle
<1>1. ApplicationIsKept(i)
  BY DEF ApplicationIsKept, DecisionInv, PaperInv, PaperShape
<1>2. \A k \in Ids \ {i} : db'.application[k] = db.application[k]
  BY DEF DecisionInv, PaperInv, PaperShape
<1> QED
  BY <1>1, <1>2 DEF ApplicationsSettle, ApplicationIsKept

LEMMA KeptDocuments ==
    ASSUME DecisionInv, NEW i \in Ids, NEW new, db'.document = [db.document EXCEPT ![i] = new],
           \/ db.document[i] = Nil
           \/ Mutable(db.document[i])
           \/ new.status = db.document[i].status /\ new.final = db.document[i].final
    PROVE  DocumentsSettle
<1>1. DocumentIsKept(i)
  BY DEF DocumentIsKept, DecisionInv, PaperInv, PaperShape, Mutable
<1>2. \A k \in Ids \ {i} : db'.document[k] = db.document[k]
  BY DEF DecisionInv, PaperInv, PaperShape
<1> QED
  BY <1>1, <1>2 DEF DocumentsSettle, DocumentIsKept, Mutable

LEMMA KeptRuns ==
    ASSUME DecisionInv, NEW i \in Ids, NEW new, db'.run = [db.run EXCEPT ![i] = new],
           new # Nil => (new.state = "APPROVAL_REQUIRED" => new.device = Nil),
           \/ db.run[i] = Nil
           \/ db.run[i].launch # "FINISHED" /\ db.run[i].device \in {Nil, new.device}
    PROVE  RunsSettle
<1>1. UnstartedIsFree(i)' /\ RunIsKept(i)
  BY DEF UnstartedIsFree, RunIsKept, DecisionInv, PaperInv, PaperShape
<1>2. \A k \in Ids \ {i} : db'.run[k] = db.run[k]
  BY DEF DecisionInv, PaperInv, PaperShape
<1>3. \A k \in Ids : UnstartedIsFree(k)
  BY DEF DecisionInv
<1> QED
  BY <1>1, <1>2, <1>3 DEF RunsSettle, RunIsKept, UnstartedIsFree

LEMMA KeptPostings ==
    ASSUME DecisionInv, NEW i \in Ids, NEW new \in PostingRecord, db'.posting = [db.posting EXCEPT ![i] = new],
           db.posting[i] \in PostingRecord, new.rev = db.posting[i].rev + 1,
           db.posting[i].closed => new.closed, new.closed => new.status # "OPEN"
    PROVE  PostingsSettle
<1>1. db'.posting \in [Ids -> PostingRecord \cup {Nil}]
  <2>1. db.posting \in [Ids -> PostingRecord \cup {Nil}]
    BY DEF DecisionInv, DecisionShape
  <2> QED
    BY <2>1
<1>2. db'.posting[i] = new /\ \A k \in Ids \ {i} : db'.posting[k] = db.posting[k]
  BY DEF DecisionInv, DecisionShape
<1>3. \A row \in PostingRecord : row.rev \in Nat
  BY DEF PostingRecord
<1>4. \A k \in Ids : PostingGrows(k)
  BY <1>2, <1>3 DEF PostingGrows
<1>5. \A k \in Ids : ClosedIsShut(k)' /\ PostingIsKept(k)
  BY <1>2 DEF ClosedIsShut, PostingIsKept, DecisionInv
<1> QED
  BY <1>1, <1>4, <1>5 DEF PostingsSettle

-----------------------------------------------------------------------------
\* Applications and postings.
LEMMA StagingDecides ==
    ASSUME DecisionInv, NEW m \in Requests, Open(m), Goes(m), ApplicationRow(m) \/ ApplicantRow(m)
    PROVE  Settles(m) /\ DecisionStatement(m)'
<1> DEFINE i == req[m].arg.id  v == req[m].v  to == req[m].arg.to  old == db.application[i]
<1>0. PaperInv
  BY DEF DecisionInv
<1>1. CASE Refuse(m)
  BY <1>1, RefusingDecides
<1>2. AtHome(req[m].do, req[m].at) /\ CalledFor(req[m].do, req[m].arg) /\ HasRead(m)
  BY <1>0, NextAtHome DEF PaperInv, PaperStatement
<1>3. req[m].do \in {"patchApplication", "patchApplicant"}
  BY <1>2 DEF ApplicationRow, ApplicantRow, At, AtHome
<1>4. i \in Ids /\ old # Nil /\ old \in ApplicationRecord
  BY <1>0, <1>2, <1>3 DEF CalledFor, PaperInv, PaperShape
<1>5. ASSUME NEW new, End(m, [db EXCEPT !.application = [@ EXCEPT ![i] = new]]),
             \/ old.stage \notin Terminal
             \/ new.stage = old.stage
             \/ At(m, "applicantRow")
      PROVE  Settles(m) /\ DecisionStatement(m)'
  <2>1. db' = [db EXCEPT !.application = [@ EXCEPT ![i] = new]] /\ At(m, "ok")'
    BY <1>0, <1>5, DoneBy DEF End, At
  <2>2. db'.application = [db.application EXCEPT ![i] = new]
    BY <1>0, <2>1 DEF PaperInv, PaperShape
  <2>3. Settles(m)
    BY <1>4, <1>5, <2>1, <2>2, KeptApplications, OnlyOneSettles
  <2> QED
    BY <1>5, <2>3, EndingSettles DEF End, Ends, Particular
<1>6. CASE ApplicationRow(m) /\ ~Refuse(m)
  <2>1. /\ v \in ApplicationRecord /\ RowHeld("application", i, v)
        /\ to = Nil \/ CanPatchStage(v.stage, to)
    BY <1>2, <1>6 DEF ApplicationRow, At, HasRead
  <2>2. to \in Stages \cup {Nil}
    <3>1. req[m].do = "patchApplication"
      BY <1>2, <1>6 DEF ApplicationRow, At, AtHome
    <3> QED
      BY <1>2, <3>1 DEF CalledFor
  <2> DEFINE row == IF to = Nil THEN v ELSE [v EXCEPT !.stage = to]  new == Bumped(row)
  <2>3. row \in ApplicationRecord /\ row.rev = v.rev /\ row.stage = (IF to = Nil THEN v.stage ELSE to)
    BY <2>1, <2>2 DEF ApplicationRecord
  <2>4. Same("application", i, row) /\ End(m, [db EXCEPT !.application[i] = new])
    BY <1>6 DEF ApplicationRow, Save
  <2> HIDE DEF row
  <2>5. new.stage = row.stage
    BY <2>3, ApplicationBumped
  <2>6. old = v
    BY <2>1, <2>3, <2>4 DEF Same, RowHeld
  <2>7. old.stage \in Terminal => new.stage = old.stage
    BY <2>1, <2>3, <2>5, <2>6 DEF CanPatchStage
  <2> HIDE DEF new
  <2>8. End(m, [db EXCEPT !.application = [@ EXCEPT ![i] = new]])
    BY <2>4
  <2> QED
    BY <1>5, <2>7, <2>8
<1>7. CASE ApplicantRow(m)
  <2> DEFINE new == Bumped([old EXCEPT !.stage = to])
  <2>1. At(m, "applicantRow") /\ End(m, [db EXCEPT !.application[i] = Bumped([@ EXCEPT !.stage = to])])
    BY <1>7 DEF ApplicantRow
  <2>2. End(m, [db EXCEPT !.application = [@ EXCEPT ![i] = new]])
    BY <1>0, <2>1 DEF PaperInv, PaperShape
  <2> HIDE DEF new
  <2> QED
    BY <1>5, <2>1, <2>2
<1> QED
  BY <1>1, <1>6, <1>7

LEMMA ApplyingDecides ==
    ASSUME DecisionInv, NEW m \in Requests, Open(m), Goes(m), ApplyRows(m)
    PROVE  Settles(m) /\ DecisionStatement(m)'
<1> DEFINE new == Application(req[m].arg.by, req[m].arg.id, "APPLIED")  text == [db.text EXCEPT ![m] = Text("job")]
<1>0. PaperInv
  BY DEF DecisionInv
<1>1. At(m, "applyRows") /\ Do(m, "ingestJob", [of |-> <<"text", m>>], [db EXCEPT !.application[m] = new, !.text = text])
  BY DEF ApplyRows, ThenIngest
<1>2. db' = [db EXCEPT !.application[m] = new, !.text = text]
  BY <1>0, <1>1, DoneBy
<1> HIDE DEF new, text
<1>3. m \in Ids /\ db.application[m] = Nil
  BY <1>0, <1>1, NothingYet DEF At, PaperRowsOf
<1>4. db'.application = [db.application EXCEPT ![m] = new]
  BY <1>0, <1>2 DEF PaperInv, PaperShape
<1>5. ApplicationsSettle
  BY <1>3, <1>4, KeptApplications
<1>6. /\ db'.posting = db.posting /\ db'.offer = db.offer /\ db'.export = db.export /\ db'.proposal = db.proposal
      /\ db'.document = db.document /\ db'.approval = db.approval /\ db'.run = db.run /\ DOMAIN db' = DOMAIN db
  BY <1>2
<1>7. Settles(m)
  BY <1>5, <1>6, SameSettle, DecisionTablesThere DEF Settles, TablesStay, DecisionTables
<1> QED
  BY <1>1, <1>6, <1>7, EndingSettles DEF Ends, Particular

LEMMA SubmittingDecides ==
    ASSUME DecisionInv, NEW m \in Requests, Open(m), Goes(m), SubmitRows(m)
    PROVE  Settles(m) /\ DecisionStatement(m)'
<1>0. PICK a, i, d : a = req[m].arg.approval /\ i = req[m].arg.id /\ d = req[m].arg.draft
  OBVIOUS
<1> DEFINE v == req[m].v.app  old == db.application[i]  row == Consumed(a)
           moves == Same("application", i, v) /\ ~Applied(v.stage)
           new == IF moves THEN Bumped([old EXCEPT !.stage = "APPLIED"]) ELSE old
           sub == [application |-> i, approval |-> a, draft |-> d]
<1>p. PaperInv
  BY DEF DecisionInv
<1>1. CASE Refuse(m)
  BY <1>1, RefusingDecides
<1>2. CASE ~Refuse(m)
  <2>1. At(m, "spendRows") /\ Same("approval", a, req[m].v.approval) /\ req[m].do = "submit"
    BY <1>0, <1>2 DEF SubmitRows
  <2>2. a \in Ids /\ SpendsRow(a, row)
    BY <1>0, <1>p, <2>1, SpendsOne
  <2>3. CalledFor("submit", req[m].arg) /\ Spends(m)
    BY <1>p, <2>1, NextAtHome DEF PaperInv, PaperStatement
  <2>4. i \in Ids /\ RowHeld("application", i, v)
    BY <1>0, <2>1, <2>3 DEF CalledFor, Spends, At
  <2>5. End(m, [db EXCEPT !.approval[a] = row, !.submission[m] = sub, !.application[i] = new])
    BY <1>0, <1>2, <1>p, <2>1 DEF SubmitRows, PaperInv, PaperShape
  <2>6. old.stage \notin Terminal \/ new.stage = old.stage
    BY <2>4 DEF Same, RowHeld, Applied, Terminal
  <2> HIDE DEF row, new, sub
  <2>7. db' = [db EXCEPT !.approval[a] = row, !.submission[m] = sub, !.application[i] = new]
    BY <1>p, <2>5, DoneBy DEF End
  <2>8. /\ db'.posting = db.posting /\ db'.offer = db.offer /\ db'.export = db.export /\ db'.proposal = db.proposal
        /\ db'.document = db.document /\ db'.run = db.run /\ DOMAIN db' = DOMAIN db
        /\ db'.approval = [db.approval EXCEPT ![a] = row]
        /\ db'.application = [db.application EXCEPT ![i] = new]
    BY <1>p, <2>7 DEF PaperInv, PaperShape
  <2>9. ApprovalsSettle
    BY <2>2, <2>8, KeptApprovals DEF SpendsRow
  <2>10. ApplicationsSettle
    BY <2>4, <2>6, <2>8, KeptApplications
  <2>11. Settles(m)
    BY <2>8, <2>9, <2>10, SameSettle, DecisionTablesThere DEF Settles, TablesStay, DecisionTables
  <2> QED
    BY <2>5, <2>11, EndingSettles DEF End, Ends, Particular
<1> QED
  BY <1>1, <1>2

LEMMA PostingsCalled ==
    ASSUME DecisionInv, NEW m \in Requests, Open(m),
           req[m].at \in {"patchPosting", "postingRow", "closePosting", "closeRow"}
    PROVE  /\ req[m].arg.id \in Ids /\ DecisionCalled(req[m].do, req[m].arg)
           /\ req[m].at \in {"patchPosting", "postingRow"} =>
                 req[m].do = "patchPosting" /\ req[m].arg.to \in {"DRAFT", "OPEN", Nil}
           /\ req[m].at \in {"closePosting", "closeRow"} => req[m].do = "closePosting"
  BY DEF DecisionInv, DecisionStatement, DecisionCalled, DecisionHome, Open

LEMMA LoadingPostings ==
    ASSUME DecisionInv, NEW m \in Requests, Open(m), Goes(m), PatchPosting(m) \/ ClosePosting(m)
    PROVE  Settles(m) /\ DecisionStatement(m)'
<1> DEFINE i == req[m].arg.id  row == db.posting[i]
<1>0. PaperInv
  BY DEF DecisionInv
<1>1. CASE Refuse(m)
  BY <1>1, RefusingDecides
<1>2. CASE ~Refuse(m)
  <2>1. /\ row # Nil
        /\ \/ At(m, "patchPosting") /\ GoOn(m, "postingRow", row) /\ ~(row.closed /\ req[m].arg.to = "OPEN")
           \/ At(m, "closePosting") /\ GoOn(m, "closeRow", row)
    BY <1>2 DEF PatchPosting, ClosePosting, Load
  <2>2. /\ i \in Ids /\ DecisionCalled(req[m].do, req[m].arg)
        /\ At(m, "patchPosting") => req[m].do = "patchPosting"
        /\ At(m, "closePosting") => req[m].do = "closePosting"
    BY <2>1, PostingsCalled DEF At
  <2>3. row \in PostingRecord /\ row.rev \in Nat
    BY <2>1, <2>2 DEF DecisionInv, DecisionShape, PostingRecord
  <2>4. /\ req'[m].do = req[m].do /\ req'[m].arg = req[m].arg /\ req'[m].v = row /\ db' = db
        /\ \/ At(m, "patchPosting") /\ req'[m].at = "postingRow" /\ ~(row.closed /\ req[m].arg.to = "OPEN")
           \/ At(m, "closePosting") /\ req'[m].at = "closeRow"
    BY <1>0, <2>1, DoneBy DEF GoOn, Ends
  <2>5. Settles(m)
    BY <2>4, SameDecisionsSettle DEF SameDecisions
  <2>6. DecisionCalled(req[m].do, req[m].arg)' /\ DecisionHome(req'[m].do, req'[m].at)
    BY <2>2, <2>4 DEF DecisionCalled, DecisionHome
  <2>7. PostingHeld(req[m].arg.id, req[m].v)'
    BY <2>3, <2>4 DEF PostingHeld
  <2>8. db'.export[m] = Nil
    BY <2>4 DEF DecisionInv, DecisionStatement, Open
  <2>9. ~At(m, "recordRow")' /\ (At(m, "postingRow")' => ~(req'[m].v.closed /\ req'[m].arg.to = "OPEN"))
    BY <2>4 DEF At
  <2> QED
    BY <2>5, <2>6, <2>7, <2>8, <2>9 DEF DecisionStatement
<1> QED
  BY <1>1, <1>2

LEMMA SavingPostings ==
    ASSUME DecisionInv, NEW m \in Requests, Open(m), Goes(m), PostingRow(m) \/ CloseRow(m)
    PROVE  Settles(m) /\ DecisionStatement(m)'
<1> DEFINE i == req[m].arg.id  v == req[m].v  old == db.posting[i]  to == req[m].arg.to
           row == IF At(m, "closeRow") THEN [v EXCEPT !.status = "CLOSED", !.closed = TRUE]
                  ELSE IF to = Nil THEN v ELSE [v EXCEPT !.status = to]
           new == Bumped(row)
<1>0. PaperInv
  BY DEF DecisionInv
<1>1. CASE Refuse(m)
  BY <1>1, RefusingDecides
<1>2. CASE ~Refuse(m)
  <2>1. req[m].at \in {"postingRow", "closeRow"} /\ Save(m, "posting", row)
    BY DEF PostingRow, CloseRow, At
  <2>2. /\ i \in Ids /\ PostingHeld(i, v)
        /\ At(m, "postingRow") => to \in {"DRAFT", "OPEN", Nil} /\ ~(v.closed /\ to = "OPEN")
    BY <2>1, PostingsCalled DEF DecisionInv, DecisionStatement, At
  <2>3. v \in PostingRecord /\ old \in PostingRecord /\ (v.rev = old.rev => old = v)
    BY <2>2 DEF PostingHeld
  <2>4. row \in PostingRecord /\ row.rev = v.rev /\ (v.closed => row.closed)
    BY <2>1, <2>2, <2>3 DEF PostingRecord, At
  <2>5. old = v => (row.closed => row.status # "OPEN")
    <3>1. ClosedIsShut(i)
      BY <2>2 DEF DecisionInv
    <3>2. old # Nil
      BY <1>2, <2>1 DEF Save, Same
    <3>3. CASE At(m, "closeRow")
      BY <2>3, <3>3 DEF PostingRecord
    <3>4. CASE ~At(m, "closeRow") /\ to = Nil
      <4>1. row = v
        BY <3>4
      <4> HIDE DEF row
      <4> QED
        BY <3>1, <3>2, <4>1 DEF ClosedIsShut
    <3>5. CASE ~At(m, "closeRow") /\ to # Nil
      BY <2>1, <2>2, <2>3, <3>5 DEF PostingRecord, At
    <3> QED
      BY <3>3, <3>4, <3>5
  <2> HIDE DEF row
  <2>6. Same("posting", i, row) /\ End(m, [db EXCEPT !.posting[i] = new])
    BY <1>2, <2>1 DEF Save
  <2>7. old = v
    BY <2>3, <2>4, <2>6 DEF Same
  <2>8. /\ new \in PostingRecord /\ new.rev = row.rev + 1 /\ new.closed = row.closed /\ new.status = row.status
    BY <2>4 DEF Bumped, PostingRecord
  <2> HIDE DEF new
  <2>9. End(m, [db EXCEPT !.posting = [@ EXCEPT ![i] = new]])
    BY <2>6
  <2>10. db' = [db EXCEPT !.posting = [@ EXCEPT ![i] = new]]
    BY <1>0, <2>9, DoneBy DEF End
  <2>11. db'.posting = [db.posting EXCEPT ![i] = new]
    BY <2>10 DEF DecisionInv, DecisionShape
  <2>12. PostingsSettle
    BY <2>2, <2>3, <2>4, <2>5, <2>7, <2>8, <2>11, KeptPostings
  <2>13. Settles(m)
    BY <2>10, <2>12, OnlyOneSettles
  <2> QED
    BY <2>9, <2>13, EndingSettles DEF End, Ends, Particular
<1> QED
  BY <1>1, <1>2

-----------------------------------------------------------------------------
\* Exports and offers.
LEMMA ExportingDecides ==
    ASSUME DecisionInv, NEW m \in Requests, Open(m), Goes(m), ExportRow(m)
    PROVE  Settles(m) /\ DecisionStatement(m)'
<1> DEFINE new == [version |-> req[m].arg.version, state |-> "READY_TO_RENDER"]
<1>0. PaperInv
  BY DEF DecisionInv
<1>1. End(m, [db EXCEPT !.export = [@ EXCEPT ![m] = new]])
  BY DEF ExportRow
<1> HIDE DEF new
<1>2. db' = [db EXCEPT !.export = [@ EXCEPT ![m] = new]]
  BY <1>0, <1>1, DoneBy DEF End
<1>3. db'.export = [db.export EXCEPT ![m] = new]
  BY <1>2 DEF DecisionInv, DecisionShape
<1>4. db.export[m] = Nil
  BY DEF DecisionInv, DecisionStatement, Open
<1>5. \A k \in Ids : k # m => db'.export[k] = db.export[k]
  BY <1>3 DEF DecisionInv, DecisionShape
<1>6. \A r \in Requests : r \in Ids /\ (~Ended(r) => db.export[r] = Nil)
  BY DEF DecisionInv, DecisionStatement, Ids
<1>7. ExportsSettle(m)
  BY <1>3, <1>4, <1>5, <1>6 DEF ExportsSettle, ExportIsKept, DecisionInv, DecisionShape
<1>8. Settles(m)
  BY <1>2, <1>7, OnlyOneSettles
<1> QED
  BY <1>1, <1>8, EndingSettles DEF End, Ends, Particular

LEMMA LoadingExports ==
    ASSUME DecisionInv, NEW m \in Requests, Open(m), Goes(m), RecordExport(m)
    PROVE  Settles(m) /\ DecisionStatement(m)'
<1> DEFINE e == req[m].arg.id  row == db.export[e]
<1>0. PaperInv
  BY DEF DecisionInv
<1>1. CASE Refuse(m)
  BY <1>1, RefusingDecides
<1>2. CASE ~Refuse(m)
  <2>1. row # Nil /\ At(m, "recordExport") /\ GoOn(m, "recordRow", row)
    BY <1>2 DEF RecordExport, Load
  <2>2. req'[m].do = req[m].do /\ req'[m].arg = req[m].arg /\ req'[m].at = "recordRow" /\ db' = db
    BY <1>0, <2>1, DoneBy DEF GoOn
  <2>3. Settles(m)
    BY <2>2, SameDecisionsSettle DEF SameDecisions
  <2>4. DecisionCalled(req[m].do, req[m].arg) /\ ~Ended(m) /\ db.export[m] = Nil
    BY DEF DecisionInv, DecisionStatement, Open
  <2>5. DecisionCalled(req[m].do, req[m].arg)' /\ DecisionHome(req'[m].do, req'[m].at)
    BY <2>2, <2>4 DEF DecisionCalled, DecisionHome
  <2>6. ASSUME NEW s \in Requests, s = e PROVE Ended(s)'
    <3>1. db.export[s] # Nil
      BY <2>1, <2>6
    <3>2. Ended(s) /\ s # m
      BY <2>4, <3>1 DEF DecisionInv, DecisionStatement
    <3>3. req'[s] = req[s]
      BY <1>0, <3>2, GoesOthers DEF PaperInv
    <3> QED
      BY <3>2, <3>3 DEF Ended, At
  <2>7. \A s \in Requests : s = req'[m].arg.id => Ended(s)'
    BY <2>2, <2>6
  <2>8. db'.export[m] = Nil /\ req'[m].at \notin {"postingRow", "closeRow"}
    BY <2>2, <2>4
  <2> QED
    BY <2>3, <2>5, <2>7, <2>8 DEF DecisionStatement, At
<1> QED
  BY <1>1, <1>2

LEMMA RecordingDecides ==
    ASSUME DecisionInv, NEW m \in Requests, Open(m), Goes(m), RecordRow(m)
    PROVE  Settles(m) /\ DecisionStatement(m)'
<1> DEFINE e == req[m].arg.id  new == [db.export[e] EXCEPT !.state = req[m].arg.to]
<1>0. PaperInv
  BY DEF DecisionInv
<1>1. CASE Refuse(m)
  BY <1>1, RefusingDecides
<1>2. CASE ~Refuse(m)
  <2>1. IsReady(db.export[e]) /\ End(m, [db EXCEPT !.export[e].state = req[m].arg.to]) /\ At(m, "recordRow")
    BY <1>2 DEF RecordRow
  <2>2. End(m, [db EXCEPT !.export = [@ EXCEPT ![e] = new]])
    BY <2>1 DEF DecisionInv, DecisionShape
  <2> HIDE DEF new
  <2>3. db' = [db EXCEPT !.export = [@ EXCEPT ![e] = new]]
    BY <1>0, <2>2, DoneBy DEF End
  <2>4. db'.export = [db.export EXCEPT ![e] = new]
    BY <2>3 DEF DecisionInv, DecisionShape
  <2>5. \A k \in Ids : k # e => db'.export[k] = db.export[k]
    BY <2>4 DEF DecisionInv, DecisionShape
  <2>6. \A r \in Requests : r \in Ids /\ (~Ended(r) => db.export[r] = Nil /\ r # e)
    BY <2>1 DEF DecisionInv, DecisionStatement, Ids
  <2>7. \A k \in Ids : ExportIsKept(k)
    BY <2>1, <2>5 DEF ExportIsKept
  <2>8. ExportsSettle(m)
    BY <2>4, <2>5, <2>6, <2>7 DEF ExportsSettle, DecisionInv, DecisionShape
  <2>9. Settles(m)
    BY <2>3, <2>8, OnlyOneSettles
  <2> QED
    BY <2>2, <2>9, EndingSettles DEF End, Ends, Particular
<1> QED
  BY <1>1, <1>2

LEMMA OfferingDecides ==
    ASSUME DecisionInv, NEW m \in Requests, Open(m), Goes(m), ReadRow(m) \/ OfferRow(m)
    PROVE  Settles(m) /\ DecisionStatement(m)'
<1> DEFINE o == req[m].arg.id
<1>0. PaperInv
  BY DEF DecisionInv
<1>1. CASE Refuse(m) \/ End(m, db)
  BY <1>1, RefusingDecides
<1>2. CASE ~(Refuse(m) \/ End(m, db))
  <2>1. db.offer[o] \in {"SENT", "READ"} /\ \E new : End(m, [db EXCEPT !.offer = [@ EXCEPT ![o] = new]])
    BY <1>2 DEF ReadRow, OfferRow, OfferOpen
  <2>2. PICK new : End(m, [db EXCEPT !.offer = [@ EXCEPT ![o] = new]])
    BY <2>1
  <2>3. db' = [db EXCEPT !.offer = [@ EXCEPT ![o] = new]]
    BY <1>0, <2>2, DoneBy DEF End
  <2>4. db'.offer = [db.offer EXCEPT ![o] = new]
    BY <2>3 DEF DecisionInv, DecisionShape
  <2>5. \A k \in Ids : k # o => db'.offer[k] = db.offer[k]
    BY <2>4 DEF DecisionInv, DecisionShape
  <2>6. OffersSettle
    BY <2>1, <2>4, <2>5 DEF OffersSettle, OfferIsKept, DecisionInv, DecisionShape
  <2>7. Settles(m)
    BY <2>3, <2>6, OnlyOneSettles
  <2> QED
    BY <2>2, <2>7, EndingSettles DEF End, Ends, Particular
<1> QED
  BY <1>1, <1>2

-----------------------------------------------------------------------------
\* Documents.
LEMMA StillMutable ==
    ASSUME PaperInv, NEW d \in Ids, NEW v, DocumentHeld(d, v), Mutable(v), db.document[d].rev = v.rev
    PROVE  Mutable(db.document[d])
  BY DEF DocumentHeld, DocumentRecord, Mutable

\* m writes its document alone, and ends.
LEMMA DocumentDecides ==
    ASSUME DecisionInv, NEW m \in Requests, Open(m), Goes(m), NEW d \in Ids, NEW new,
           End(m, [db EXCEPT !.document = [@ EXCEPT ![d] = new]]),
           \/ db.document[d] = Nil
           \/ Mutable(db.document[d])
           \/ new.status = db.document[d].status /\ new.final = db.document[d].final
    PROVE  Settles(m) /\ DecisionStatement(m)'
<1>0. PaperInv
  BY DEF DecisionInv
<1>1. db' = [db EXCEPT !.document = [@ EXCEPT ![d] = new]]
  BY <1>0, DoneBy DEF End
<1>2. db'.document = [db.document EXCEPT ![d] = new]
  BY <1>0, <1>1 DEF PaperInv, PaperShape
<1>3. Settles(m)
  BY <1>1, <1>2, KeptDocuments, OnlyOneSettles
<1> QED
  BY <1>3, EndingSettles DEF End, Ends, Particular

LEMMA RewritingDecides ==
    ASSUME DecisionInv, NEW m \in Requests, Open(m), Goes(m),
           PatchRow(m) \/ ArchiveRow(m) \/ ConvertRow(m) \/ CreateDocument(m)
    PROVE  Settles(m) /\ DecisionStatement(m)'
<1> DEFINE d == req[m].arg.id  v == req[m].v  old == db.document[d]
<1>0. PaperInv
  BY DEF DecisionInv
<1>1. CASE Refuse(m)
  BY <1>1, RefusingDecides
<1>2. CASE CreateDocument(m)
  <2> DEFINE shell == Document("DRAFT", Nil, Nil)
  <2>1. At(m, "createDocument") /\ End(m, [db EXCEPT !.document = [@ EXCEPT ![m] = shell]])
    BY <1>2 DEF CreateDocument
  <2> HIDE DEF shell
  <2>2. m \in Ids /\ db.document[m] = Nil
    BY <1>0, <2>1, NothingYet DEF At, PaperRowsOf
  <2> QED
    BY <2>1, <2>2, DocumentDecides
<1>3. CASE ~CreateDocument(m) /\ ~Refuse(m)
  <2>1. req[m].at \in {"patchRow", "archiveRow", "convertRow"}
    BY <1>3 DEF PatchRow, ArchiveRow, ConvertRow, At
  <2>2. /\ d \in Ids /\ old # Nil /\ old \in DocumentRecord /\ DocumentHeld(d, v)
        /\ req[m].at # "convertRow" => Mutable(v)
    BY <1>0, <2>1, HoldsDocument
  <2>3. CASE PatchRow(m)
    <3> DEFINE row == IF req[m].arg.template THEN Reopened(v) ELSE v
    <3>1. At(m, "patchRow") /\ Same("document", d, row) /\ End(m, [db EXCEPT !.document[d] = Bumped(row)])
      BY <1>3, <2>3 DEF PatchRow, Save
    <3>2. row.rev = v.rev
      BY <2>2, ReopenedDocument DEF DocumentHeld
    <3>3. Mutable(v)
      BY <2>2, <3>1 DEF At
    <3> DEFINE new == Bumped(row)
    <3>4. End(m, [db EXCEPT !.document = [@ EXCEPT ![d] = new]])
      BY <3>1
    <3> HIDE DEF row, new
    <3>5. Mutable(old)
      BY <1>0, <2>2, <3>1, <3>2, <3>3, StillMutable DEF Same
    <3> QED
      BY <2>2, <3>4, <3>5, DocumentDecides
  <2>4. CASE ArchiveRow(m)
    <3> DEFINE new == Bumped([old EXCEPT !.status = "ARCHIVED"])
    <3>1. /\ At(m, "archiveRow") /\ Same("document", d, v)
          /\ End(m, [db EXCEPT !["document"][d] = Bumped([@ EXCEPT !["status"] = "ARCHIVED"])])
      BY <1>3, <2>4 DEF ArchiveRow, SetColumn
    <3>2. End(m, [db EXCEPT !.document = [@ EXCEPT ![d] = new]])
      BY <1>0, <2>2, <3>1 DEF PaperInv, PaperShape
    <3> HIDE DEF new
    <3>3. Mutable(v)
      BY <2>2, <3>1 DEF At
    <3>4. Mutable(old)
      BY <1>0, <2>2, <3>1, <3>3, StillMutable DEF Same
    <3> QED
      BY <2>2, <3>2, <3>4, DocumentDecides
  <2>5. CASE ConvertRow(m)
    <3> DEFINE new == Bumped(old)
    <3>1. End(m, [db EXCEPT !.document = [@ EXCEPT ![d] = new]])
      BY <1>0, <1>3, <2>2, <2>5 DEF ConvertRow, PaperInv, PaperShape
    <3>2. new.status = old.status /\ new.final = old.final
      BY <2>2, BumpedDocument
    <3> HIDE DEF new
    <3> QED
      BY <2>2, <3>1, <3>2, DocumentDecides
  <2> QED
    BY <1>3, <2>3, <2>4, <2>5
<1> QED
  BY <1>1, <1>2, <1>3

LEMMA SavingDecides ==
    ASSUME DecisionInv, NEW m \in Requests, Open(m), Goes(m), SaveVersion(m)
    PROVE  Settles(m) /\ DecisionStatement(m)'
<1>0. PICK d, p : d = req[m].arg.id /\ p = req[m].arg.proposal
  OBVIOUS
<1>p. PaperInv
  BY DEF DecisionInv
<1> DEFINE v == req[m].v  old == db.document[d]
           last == Max({0} \cup {db.version[w].number : w \in VersionsOf(d)})
           new == Bumped([Reopened(old) EXCEPT !.latest = m])
           version == [db.version EXCEPT ![m] = Version(d, last + 1)]
           applied == IF p = Nil THEN db.proposal ELSE [db.proposal EXCEPT ![p].applied = TRUE]
<1>1. CASE Refuse(m)
  BY <1>1, RefusingDecides
<1>2. CASE ~Refuse(m)
  <2>1. /\ At(m, "saveVersion") /\ Same("document", d, v)
        /\ ThenIngest(m, <<"document", d>>, [db EXCEPT !.document[d] = new, !.version = version, !.proposal = applied])
    BY <1>0, <1>2, <1>p DEF SaveVersion, PaperInv, PaperShape
  <2>2. /\ d \in Ids /\ DocumentHeld(d, v) /\ Mutable(v) /\ req[m].do \in Editors
    BY <1>0, <1>p, <2>1, HoldsDocument, NextAtHome DEF At, AtHome
  <2>3. Mutable(old)
    BY <1>p, <2>1, <2>2, StillMutable DEF Same
  <2>4. p = Nil \/ (p \in Ids /\ db.proposal[p] \in ProposalRecord)
    BY <1>0, <2>2 DEF DecisionInv, DecisionStatement, DecisionCalled, Editors, Open
  <2> HIDE DEF new, version, last
  <2>5. db' = [db EXCEPT !.document[d] = new, !.version = version, !.proposal = applied]
    BY <1>p, <2>1, DoneBy DEF ThenIngest
  <2> HIDE DEF applied
  <2>6. /\ db'.posting = db.posting /\ db'.offer = db.offer /\ db'.export = db.export /\ db'.application = db.application
        /\ db'.approval = db.approval /\ db'.run = db.run /\ DOMAIN db' = DOMAIN db
        /\ db'.document = [db.document EXCEPT ![d] = new]
        /\ db'.proposal = applied
    BY <1>p, <2>5 DEF PaperInv, PaperShape, DecisionInv, DecisionShape
  <2>7. DocumentsSettle
    BY <2>2, <2>3, <2>6, KeptDocuments
  <2>8. ProposalsSettle
    <3>1. CASE p = Nil
      BY <2>6, <3>1, SameSettle DEF applied
    <3>2. CASE p # Nil
      <4> DEFINE row == [db.proposal[p] EXCEPT !.applied = TRUE]
      <4>1. row \in ProposalRecord /\ row.applied /\ p \in Ids
        BY <2>4, <3>2 DEF ProposalRecord
      <4>2. db.proposal \in [Ids -> ProposalRecord \cup {Nil}]
        BY DEF DecisionInv, DecisionShape
      <4>3. db'.proposal = [db.proposal EXCEPT ![p] = row]
        BY <2>6, <3>2 DEF applied
      <4> HIDE DEF row
      <4>4. db'.proposal \in [Ids -> ProposalRecord \cup {Nil}]
        BY <4>1, <4>2, <4>3
      <4>5. db'.proposal[p] = row /\ \A k \in Ids : k # p => db'.proposal[k] = db.proposal[k]
        BY <4>1, <4>2, <4>3
      <4> QED
        BY <4>1, <4>4, <4>5 DEF ProposalsSettle, ProposalIsKept
    <3> QED
      BY <3>1, <3>2
  <2>9. Settles(m)
    BY <2>6, <2>7, <2>8, SameSettle, DecisionTablesThere DEF Settles, TablesStay, DecisionTables
  <2> QED
    BY <2>1, <2>6, <2>9, EndingSettles DEF ThenIngest, Ends, Particular
<1> QED
  BY <1>1, <1>2

LEMMA FinalizingDecides ==
    ASSUME DecisionInv, NEW m \in Requests, Open(m), Goes(m), FinalizeRows(m)
    PROVE  Settles(m) /\ DecisionStatement(m)'
<1>0. PICK a, d, w : a = req[m].arg.approval /\ d = req[m].arg.id /\ w = req[m].arg.version
  OBVIOUS
<1>p. PaperInv
  BY DEF DecisionInv
<1> DEFINE v == req[m].v.doc  old == db.document[d]  row == Consumed(a)
           new == Bumped([old EXCEPT !.status = "FINALIZED", !.final = w])
           behind == IF w = db.document[d].latest THEN db.behind ELSE db.behind \cup {<<"document", d>>}
<1>1. CASE Refuse(m)
  BY <1>1, RefusingDecides
<1>2. CASE ~Refuse(m)
  <2>1. At(m, "spendRows") /\ Same("approval", a, req[m].v.approval) /\ req[m].do = "finalize"
    BY <1>0, <1>2 DEF FinalizeRows, At
  <2>2. a \in Ids /\ SpendsRow(a, row)
    BY <1>0, <1>p, <2>1, SpendsOne
  <2>3. CalledFor("finalize", req[m].arg) /\ MutableHeld(d, v)
    BY <1>0, <1>p, <2>1, NextAtHome DEF PaperInv, PaperStatement, Spends, At
  <2>4. d \in Ids
    BY <1>0, <2>3 DEF CalledFor, DocumentWriters
  <2>5. CASE ~Same("document", d, v)
    <3>1. Do(m, "refused", Nil, [db EXCEPT !.approval = [@ EXCEPT ![a] = row]])
      BY <1>0, <1>2, <2>1, <2>5 DEF FinalizeRows
    <3> HIDE DEF row
    <3>2. db' = [db EXCEPT !.approval = [@ EXCEPT ![a] = row]]
      BY <1>p, <3>1, DoneBy
    <3>3. db'.approval = [db.approval EXCEPT ![a] = row]
      BY <1>p, <3>2 DEF PaperInv, PaperShape
    <3>4. Settles(m)
      BY <2>2, <3>2, <3>3, KeptApprovals, OnlyOneSettles DEF SpendsRow
    <3> QED
      BY <3>1, <3>4, EndingSettles DEF Ends, Particular
  <2>6. CASE Same("document", d, v)
    <3>1. End(m, [db EXCEPT !.approval[a] = row, !.document[d] = new, !.finalized[m] = w, !.behind = behind])
      BY <1>0, <1>2, <1>p, <2>1, <2>6 DEF FinalizeRows, PaperInv, PaperShape
    <3>2. Mutable(old)
      BY <1>p, <2>3, <2>4, <2>6, StillMutable DEF MutableHeld, Same
    <3> HIDE DEF new, row, behind
    <3>3. db' = [db EXCEPT !.approval[a] = row, !.document[d] = new, !.finalized[m] = w, !.behind = behind]
      BY <1>p, <3>1, DoneBy DEF End
    <3>4. /\ db'.posting = db.posting /\ db'.offer = db.offer /\ db'.export = db.export /\ db'.application = db.application
          /\ db'.proposal = db.proposal /\ db'.run = db.run /\ DOMAIN db' = DOMAIN db
          /\ db'.approval = [db.approval EXCEPT ![a] = row]
          /\ db'.document = [db.document EXCEPT ![d] = new]
      BY <1>p, <3>3 DEF PaperInv, PaperShape
    <3>5. ApprovalsSettle
      BY <2>2, <3>4, KeptApprovals DEF SpendsRow
    <3>6. DocumentsSettle
      BY <2>4, <3>2, <3>4, KeptDocuments
    <3>7. Settles(m)
      BY <3>4, <3>5, <3>6, SameSettle, DecisionTablesThere DEF Settles, TablesStay, DecisionTables
    <3> QED
      BY <3>1, <3>7, EndingSettles DEF End, Ends, Particular
  <2> QED
    BY <2>5, <2>6
<1> QED
  BY <1>1, <1>2

LEMMA ConvertingDecides ==
    ASSUME DecisionInv, NEW m \in Requests, Open(m), Goes(m), ConvertSource(m)
    PROVE  Settles(m) /\ DecisionStatement(m)'
<1> DEFINE shell == Document("DRAFT", Nil, Nil)
           OnlyTheDocument(tables) ==
               /\ tables.posting = db.posting /\ tables.offer = db.offer /\ tables.export = db.export
               /\ tables.application = db.application /\ tables.proposal = db.proposal /\ tables.run = db.run
               /\ tables.approval = db.approval /\ DOMAIN tables = DOMAIN db
               /\ \A k \in Ids : k # m => tables.document[k] = db.document[k]
<1>0. PaperInv
  BY DEF DecisionInv
<1>1. m \in Ids /\ db.document[m] = Nil
  BY <1>0, NothingYet DEF ConvertSource, At, PaperRowsOf
<1>2. CASE Refuse(m)
  BY <1>2, RefusingDecides
<1>3. ASSUME NEW statement \in {"ok", "ingestJob"}, NEW v, NEW tables, Do(m, statement, v, tables),
             OnlyTheDocument(tables)
      PROVE  Settles(m) /\ DecisionStatement(m)'
  <2>1. OnlyTheDocument(db')
    <3>1. db' = tables
      BY <1>0, <1>3, DoneBy
    <3> QED
      BY <1>3, <3>1
  <2>2. /\ db'.posting = db.posting /\ db'.offer = db.offer /\ db'.export = db.export /\ db'.application = db.application
        /\ db'.proposal = db.proposal /\ db'.run = db.run /\ db'.approval = db.approval /\ DOMAIN db' = DOMAIN db
    BY <2>1
  <2>3. DocumentsSettle
    BY <1>0, <1>1, <2>1 DEF DocumentsSettle, DocumentIsKept, Mutable, PaperInv, PaperShape, DocumentRecord
  <2>4. Settles(m)
    BY <2>2, <2>3, SameSettle, DecisionTablesThere DEF Settles, TablesStay, DecisionTables
  <2> QED
    BY <1>3, <2>2, <2>4, EndingSettles DEF Ends, Particular
<1>4. CASE ~Refuse(m) /\ req[m].arg.pdf
  <2> DEFINE tables == [db EXCEPT !.document[m] = shell]
  <2>1. Do(m, "ingestJob", [of |-> <<"fill", m>>], tables)
    BY <1>4 DEF ConvertSource, ThenIngest
  <2>2. OnlyTheDocument(tables)
    <3> HIDE DEF shell
    <3> QED
      BY <1>0 DEF PaperInv, PaperShape
  <2> HIDE DEF tables, OnlyTheDocument
  <2> QED
    BY <1>3, <2>1, <2>2
<1>5. CASE ~Refuse(m) /\ ~req[m].arg.pdf
  <2> DEFINE tables == [[db EXCEPT !.document[m] = shell] EXCEPT !.document[m].latest = m, !.version[m] = Version(m, 1),
                              !.behind = @ \cup {<<"document", m>>}]
  <2>1. Do(m, "ok", req[m].v, tables)
    BY <1>5 DEF ConvertSource, End
  <2>2. OnlyTheDocument(tables)
    <3> HIDE DEF shell
    <3> QED
      BY <1>0, <1>1 DEF PaperInv, PaperShape
  <2> HIDE DEF tables, OnlyTheDocument
  <2> QED
    BY <1>3, <2>1, <2>2
<1> QED
  BY <1>2, <1>4, <1>5

-----------------------------------------------------------------------------
\* Runs of projects.
LEMMA RunningDecides ==
    ASSUME DecisionInv, NEW m \in Requests, Open(m), Goes(m), RunRows(m)
    PROVE  Settles(m) /\ DecisionStatement(m)'
<1> DEFINE b == req[m].arg.id  new == Run(b)
           moved == [db.blueprint EXCEPT ![b] = Bumped([@ EXCEPT !.state = "IN_PROGRESS"])]
<1>0. PaperInv
  BY DEF DecisionInv
<1>1. m \in Ids /\ db.run[m] = Nil
  BY <1>0, NothingYet DEF RunRows, At, PaperRowsOf
<1>2. new.device = Nil
  BY DEF Run
<1>3. ASSUME NEW statement \in {"ok", "refused"}, NEW v, NEW tables, Do(m, statement, v, tables),
             tables = [db EXCEPT !.run[m] = new] \/ tables = [db EXCEPT !.run[m] = new, !.blueprint = moved]
      PROVE  Settles(m) /\ DecisionStatement(m)'
  <2> HIDE DEF new, moved
  <2>1. db' = [db EXCEPT !.run[m] = new] \/ db' = [db EXCEPT !.run[m] = new, !.blueprint = moved]
    BY <1>0, <1>3, DoneBy
  <2>2. /\ db'.posting = db.posting /\ db'.offer = db.offer /\ db'.export = db.export /\ db'.application = db.application
        /\ db'.proposal = db.proposal /\ db'.document = db.document /\ db'.approval = db.approval /\ DOMAIN db' = DOMAIN db
        /\ db'.run = [db.run EXCEPT ![m] = new]
    <3>1. CASE db' = [db EXCEPT !.run[m] = new]
      BY <1>0, <3>1 DEF PaperInv, PaperShape
    <3>2. CASE db' = [db EXCEPT !.run[m] = new, !.blueprint = moved]
      BY <1>0, <3>2 DEF PaperInv, PaperShape
    <3> QED
      BY <2>1, <3>1, <3>2
  <2>3. RunsSettle
    BY <1>1, <1>2, <2>2, KeptRuns
  <2>4. Settles(m)
    BY <2>2, <2>3, SameSettle, DecisionTablesThere DEF Settles, TablesStay, DecisionTables
  <2> QED
    BY <1>3, <2>4, EndingSettles DEF Ends, Particular
<1>4. [[db EXCEPT !.run[m] = new] EXCEPT !.blueprint[b] = Bumped([@ EXCEPT !.state = "IN_PROGRESS"])]
           = [db EXCEPT !.run[m] = new, !.blueprint = moved]
  BY <1>0 DEF PaperInv, PaperShape
<1>5. \/ Do(m, "ok", req[m].v, [db EXCEPT !.run[m] = new])
      \/ Do(m, "refused", Nil, [db EXCEPT !.run[m] = new])
      \/ Do(m, "ok", req[m].v, [db EXCEPT !.run[m] = new, !.blueprint = moved])
  BY <1>4 DEF RunRows, End
<1> DEFINE one == [db EXCEPT !.run[m] = new]  two == [db EXCEPT !.run[m] = new, !.blueprint = moved]
<1>6. CASE Do(m, "ok", req[m].v, one)
  BY <1>3, <1>6
<1>7. CASE Do(m, "refused", Nil, one)
  BY <1>3, <1>7
<1>8. CASE Do(m, "ok", req[m].v, two)
  BY <1>3, <1>8
<1> QED
  BY <1>5, <1>6, <1>7, <1>8

LEMMA StartingDecides ==
    ASSUME DecisionInv, NEW m \in Requests, Open(m), Goes(m), StartRows(m)
    PROVE  Settles(m) /\ DecisionStatement(m)'
<1>0. PICK a, i : a = req[m].arg.approval /\ i = req[m].arg.id
  OBVIOUS
<1>p. PaperInv
  BY DEF DecisionInv
<1> DEFINE v == req[m].v.run  old == db.run[i]  row == Consumed(a)
           next == [old EXCEPT !.state = "RUNNING", !.approval = a, !.device = req[m].arg.device]  new == Bumped(next)
<1>1. CASE Refuse(m)
  BY <1>1, RefusingDecides
<1>2. CASE ~Refuse(m)
  <2>1. At(m, "spendRows") /\ Same("approval", a, req[m].v.approval) /\ req[m].do = "startRun"
    BY <1>0, <1>2 DEF StartRows
  <2>2. a \in Ids /\ SpendsRow(a, row)
    BY <1>0, <1>p, <2>1, SpendsOne
  <2>3. CalledFor("startRun", req[m].arg) /\ Spends(m)
    BY <1>p, <2>1, NextAtHome DEF PaperInv, PaperStatement
  <2>4. /\ i \in Ids /\ old # Nil /\ old \in LaunchRecord /\ RunIsTrue(i) /\ req[m].arg.device \in Devices
        /\ RowHeld("run", i, v) /\ v.state = "APPROVAL_REQUIRED" /\ UnstartedIsFree(i)
    BY <1>0, <1>p, <2>1, <2>3 DEF CalledFor, PaperInv, PaperShape, AllSpent, Spends, At, DecisionInv
  <2>5. CASE ~Same("run", i, v)
    <3>1. Do(m, "refused", Nil, [db EXCEPT !.approval = [@ EXCEPT ![a] = row]])
      BY <1>0, <1>2, <2>1, <2>5 DEF StartRows
    <3> HIDE DEF row
    <3>2. db' = [db EXCEPT !.approval = [@ EXCEPT ![a] = row]]
      BY <1>p, <3>1, DoneBy
    <3>3. db'.approval = [db.approval EXCEPT ![a] = row]
      BY <1>p, <3>2 DEF PaperInv, PaperShape
    <3>4. Settles(m)
      BY <2>2, <3>2, <3>3, KeptApprovals, OnlyOneSettles DEF SpendsRow
    <3> QED
      BY <3>1, <3>4, EndingSettles DEF Ends, Particular
  <2>6. CASE Same("run", i, v)
    <3>1. /\ next \in LaunchRecord /\ next.state = "RUNNING"
      BY <2>2, <2>4 DEF LaunchRecord
    <3>2. old.launch # "FINISHED" /\ old.device = Nil
      BY <2>4, <2>6 DEF Same, RowHeld, RunIsTrue, UnstartedIsFree
    <3>3. End(m, [db EXCEPT !.approval[a] = row, !.run[i] = new])
      <4>1. End(m, [[db EXCEPT !.approval[a] = row] EXCEPT !.run[i] = new])
        BY <1>0, <1>2, <1>p, <2>1, <2>6 DEF StartRows, PaperInv, PaperShape
      <4> HIDE DEF row, new
      <4>2. [[db EXCEPT !.approval[a] = row] EXCEPT !.run[i] = new] = [db EXCEPT !.approval[a] = row, !.run[i] = new]
        BY <1>p DEF PaperInv, PaperShape
      <4> QED
        BY <4>1, <4>2
    <3> HIDE DEF next
    <3>4. new.state = "RUNNING"
      BY <3>1, BumpedRun
    <3> HIDE DEF row, new
    <3>5. db' = [db EXCEPT !.approval[a] = row, !.run[i] = new]
      BY <1>p, <3>3, DoneBy DEF End
    <3>6. /\ db'.posting = db.posting /\ db'.offer = db.offer /\ db'.export = db.export /\ db'.application = db.application
          /\ db'.proposal = db.proposal /\ db'.document = db.document /\ DOMAIN db' = DOMAIN db
          /\ db'.approval = [db.approval EXCEPT ![a] = row]
          /\ db'.run = [db.run EXCEPT ![i] = new]
      BY <1>p, <3>5 DEF PaperInv, PaperShape
    <3>7. ApprovalsSettle
      BY <2>2, <3>6, KeptApprovals DEF SpendsRow
    <3>8. RunsSettle
      BY <2>4, <3>2, <3>4, <3>6, KeptRuns
    <3>9. Settles(m)
      BY <3>6, <3>7, <3>8, SameSettle, DecisionTablesThere DEF Settles, TablesStay, DecisionTables
    <3> QED
      BY <3>3, <3>9, EndingSettles DEF End, Ends, Particular
  <2> QED
    BY <2>5, <2>6
<1> QED
  BY <1>1, <1>2

LEMMA ReportingDecides ==
    ASSUME DecisionInv, NEW m \in Requests, Open(m), Goes(m), SaveRun(m)
    PROVE  Settles(m) /\ DecisionStatement(m)'
<1> DEFINE i == req[m].arg.id  v == req[m].v  old == db.run[i]  new == Bumped(v)
<1>0. PaperInv /\ At(m, "saveRun")
  BY DEF DecisionInv, SaveRun
<1>1. CASE Refuse(m)
  BY <1>1, RefusingDecides
<1>2. CASE ~Refuse(m)
  <2>1. Same("run", i, v) /\ End(m, [db EXCEPT !.run = [@ EXCEPT ![i] = new]])
    BY <1>2 DEF SaveRun, Save
  <2>2. req[m].do \in Reporters /\ CalledFor(req[m].do, req[m].arg) /\ RunHeld(i, v)
    BY <1>0, NextAtHome DEF AtHome, At, PaperInv, PaperStatement, HasRead
  <2>3. i \in Ids
    BY <2>2 DEF CalledFor
  <2>4. v \in LaunchRecord /\ v.state # "APPROVAL_REQUIRED" /\ old.device = v.device /\ old.launch # "FINISHED"
    BY <2>1, <2>2 DEF RunHeld, Same
  <2>5. new.state # "APPROVAL_REQUIRED" /\ new.device = v.device
    BY <2>4 DEF Bumped, LaunchRecord
  <2> HIDE DEF new
  <2>6. db' = [db EXCEPT !.run = [@ EXCEPT ![i] = new]]
    BY <1>0, <2>1, DoneBy DEF End
  <2>7. db'.run = [db.run EXCEPT ![i] = new]
    BY <1>0, <2>6 DEF PaperInv, PaperShape
  <2>8. RunsSettle
    BY <2>3, <2>4, <2>5, <2>7, KeptRuns
  <2>9. Settles(m)
    BY <2>6, <2>8, OnlyOneSettles
  <2> QED
    BY <2>1, <2>9, EndingSettles DEF End, Ends, Particular
<1> QED
  BY <1>1, <1>2

-----------------------------------------------------------------------------
\* The jobs decide nothing; that which fills a document leaves its status.
LEMMA ReadingDecides ==
    ASSUME DecisionTables \subseteq DOMAIN db, NEW j, ReadText(j)
    PROVE  SameDecisions(db')
<1>1. ASSUME NEW how PROVE SameDecisions(Over(j, how))
  BY DEF Over, SameDecisions, DecisionTables
<1>2. PICK t, failed : t = Over(j, Nil) /\ failed = Over(j, "failed")
  OBVIOUS
<1>3. SameDecisions(t) /\ SameDecisions(failed)
  BY <1>1, <1>2
<1> DEFINE of == db.ingest[j].of
           reads == [t.reads EXCEPT ![j] = @ \cup {TextOf(of)}]
           behind == IF Reading(of) = {} THEN t.behind ELSE t.behind \cup {of}
<1>4. db' = failed \/ db' = [t EXCEPT !.reads = reads, !.behind = behind]
  BY <1>2 DEF ReadText
<1> HIDE DEF reads, behind
<1>5. CASE db' = failed
  BY <1>3, <1>5
<1>6. CASE db' = [t EXCEPT !.reads = reads, !.behind = behind]
  BY <1>3, <1>6 DEF SameDecisions
<1> QED
  BY <1>4, <1>5, <1>6

LEMMA WritingDecides ==
    ASSUME DecisionTables \subseteq DOMAIN db, NEW j, StoreNodes(j) \/ FailIngest(j)
    PROVE  SameDecisions(db')
<1>1. ASSUME NEW text PROVE SameDecisions(Without(j, text))
  BY DEF Without, SameDecisions, DecisionTables
<1>2. CASE StoreNodes(j)
  <2>1. PICK text \in db.reads[j] :
           db' = [Without(j, text) EXCEPT !.node[db.ingest[j].of] = text, !.ingest[j].over = "done"]
    BY <1>2, Zenon DEF StoreNodes
  <2>2. PICK t : t = Without(j, text)
    OBVIOUS
  <2> DEFINE node == [t.node EXCEPT ![db.ingest[j].of] = text]
             ingest == [t.ingest EXCEPT ![j] = [@ EXCEPT !.over = "done"]]
  <2>3. db' = [t EXCEPT !.node = node, !.ingest = ingest]
    BY <2>1, <2>2
  <2> HIDE DEF node, ingest
  <2> QED
    BY <1>1, <2>2, <2>3 DEF SameDecisions
<1>3. CASE FailIngest(j)
  <2>1. PICK text \in db.reads[j] :
           LET last == db.ingest[j].runs = MaxTries /\ db.reads[j] = {text} IN
           db' = [Without(j, text) EXCEPT !.ingest[j].over = IF @ = Nil /\ last THEN "dead" ELSE @]
    BY <1>3 DEF FailIngest
  <2> DEFINE was == Without(j, text).ingest[j].over
  <2>2. db' = [Without(j, text) EXCEPT !.ingest[j].over = was] \/ db' = [Without(j, text) EXCEPT !.ingest[j].over = "dead"]
    BY <2>1
  <2>3. PICK t, over : t = Without(j, text) /\ over = was
    OBVIOUS
  <2> HIDE DEF was
  <2>4. db' = [t EXCEPT !.ingest[j].over = over] \/ db' = [t EXCEPT !.ingest[j].over = "dead"]
    BY <2>2, <2>3
  <2>5. ASSUME NEW z, db' = [t EXCEPT !.ingest[j].over = z] PROVE SameDecisions(db')
    <3> DEFINE ingest == [t.ingest EXCEPT ![j] = [@ EXCEPT !.over = z]]
    <3>1. db' = [t EXCEPT !.ingest = ingest]
      BY <2>5
    <3> HIDE DEF ingest
    <3> QED
      BY <1>1, <2>3, <3>1 DEF SameDecisions
  <2> QED
    BY <2>4, <2>5
<1> QED
  BY <1>2, <1>3

LEMMA JobsDecide ==
    ASSUME DecisionInv, IngestStep
    PROVE  Settles(Nil)
<1>0. PaperInv
  BY DEF DecisionInv
<1>1. PICK j \in Requests : db.ingest[j] # Nil /\ (FillDocument(j) \/ ReadText(j) \/ StoreNodes(j) \/ FailIngest(j))
  BY DEF IngestStep
<1>2. DecisionTables \subseteq DOMAIN db
  BY DecisionTablesThere
<1>3. ASSUME NEW how PROVE SameDecisions(Over(j, how))
  BY <1>2 DEF Over, SameDecisions, DecisionTables
<1>4. ASSUME NEW text PROVE SameDecisions(Without(j, text))
  BY <1>2 DEF Without, SameDecisions, DecisionTables
<1>5. CASE SameDecisions(db')
  BY <1>5, SameDecisionsSettle
<1>6. CASE ~SameDecisions(db')
  <2>1. ASSUME ReadText(j) PROVE FALSE
    BY <1>0, <1>2, <1>6, <2>1, ReadingDecides
  <2>2. ASSUME StoreNodes(j) \/ FailIngest(j) PROVE FALSE
    BY <1>0, <1>2, <1>6, <2>2, WritingDecides
  <2>3. FillDocument(j) /\ \A how : db' # Over(j, how)
    BY <1>1, <1>3, <1>6, <2>1, <2>2
  <2>4. /\ db.ingest[j].of[1] = "fill"
        /\ \E how \in {"done", Nil} :
              db' = [Over(j, how) EXCEPT !.version[j] = Version(j, 1), !.document[j].latest = j,
                                         !.behind = @ \cup {<<"document", j>>}]
    BY <2>3 DEF FillDocument, Raised
  <2>a. PICK how \in {"done", Nil} :
           db' = [Over(j, how) EXCEPT !.version[j] = Version(j, 1), !.document[j].latest = j,
                                      !.behind = @ \cup {<<"document", j>>}]
    BY <2>4
  <2> DEFINE new == [db.document[j] EXCEPT !.latest = j]
  <2>5. j \in Ids /\ db.document[j] \in DocumentRecord
    BY <1>0, <1>1, <2>4 DEF PaperInv, PaperStatement, Fresh, PaperShape, Ids
  <2>6. new.status = db.document[j].status /\ new.final = db.document[j].final
    BY <2>5 DEF DocumentRecord
  <2>7. /\ db'.posting = db.posting /\ db'.offer = db.offer /\ db'.export = db.export /\ db'.application = db.application
        /\ db'.proposal = db.proposal /\ db'.run = db.run /\ db'.approval = db.approval /\ DOMAIN db' = DOMAIN db
        /\ db'.document = [db.document EXCEPT ![j] = new]
    BY <1>0, <1>3, <2>a DEF SameDecisions, PaperInv, PaperShape
  <2> HIDE DEF new
  <2>8. DocumentsSettle
    BY <2>5, <2>6, <2>7, KeptDocuments
  <2> QED
    BY <1>2, <2>7, <2>8, SameSettle DEF Settles, TablesStay, DecisionTables
<1> QED
  BY <1>5, <1>6

-----------------------------------------------------------------------------
\* Every statement.
LEMMA ApprovalsDecide ==
    ASSUME DecisionInv, NEW m \in Requests, Open(m), Goes(m), ApprovalStatement(m)
    PROVE  Settles(m) /\ DecisionStatement(m)'
<1>1. CASE Decide(m) \/ Resolve(m) \/ StoreJob(m) \/ TellWaiting(m) \/ PostMessage(m) \/ EnqueueMessage(m)
  BY <1>1, DecisionTablesThere, ApprovalsUndecided, UndecidedSettles
<1>2. CASE Create(m) \/ DecideRow(m) \/ Answer(m) \/ Undo(m) \/ TellTurn(m)
  BY <1>2, CreatingDecides, DecidingDecides, AnsweringDecides, TellingDecides
<1> QED
  BY <1>1, <1>2 DEF ApprovalStatement

LEMMA DocumentsDecide ==
    ASSUME DecisionInv, NEW m \in Requests, Open(m), Goes(m), DocumentStatement(m)
    PROVE  Settles(m) /\ DecisionStatement(m)'
<1>1. CASE \/ PatchDocument(m) \/ CreateVersion(m) \/ ApplyEdits(m) \/ ApplyRevision(m) \/ ReadProposal(m)
           \/ Finalize(m) \/ FinalizeCheck(m) \/ SpendFinalize(m) \/ Archive(m) \/ ConvertDocument(m) \/ Export(m)
  BY <1>1, DecisionTablesThere, DocumentsUndecided, UndecidedSettles
<1>2. CASE PatchRow(m) \/ ArchiveRow(m) \/ ConvertRow(m) \/ CreateDocument(m)
  BY <1>2, RewritingDecides
<1>3. CASE SaveVersion(m) \/ FinalizeRows(m)
  BY <1>3, SavingDecides, FinalizingDecides
<1>4. CASE ExportRow(m) \/ RecordExport(m) \/ RecordRow(m)
  BY <1>4, ExportingDecides, LoadingExports, RecordingDecides
<1> QED
  BY <1>1, <1>2, <1>3, <1>4 DEF DocumentStatement

LEMMA ApplicationsDecide ==
    ASSUME DecisionInv, NEW m \in Requests, Open(m), Goes(m), ApplicationStatement(m)
    PROVE  Settles(m) /\ DecisionStatement(m)'
<1>1. CASE \/ PatchApplication(m) \/ CreateDraft(m) \/ DraftVersions(m) \/ DraftRow(m) \/ Submit(m)
           \/ SubmitDraft(m) \/ SubmitCheck(m) \/ SpendSubmit(m) \/ Apply(m)
           \/ ApplyLook(m, "applyExisting", "applySnapshot") \/ ApplyLook(m, "applySnapshot", "applyRows")
           \/ PatchApplicant(m)
  BY <1>1, DecisionTablesThere, ApplicationsUndecided, UndecidedSettles
<1>2. CASE ApplicationRow(m) \/ ApplicantRow(m)
  BY <1>2, StagingDecides
<1>3. CASE ApplyRows(m) \/ SubmitRows(m)
  BY <1>3, ApplyingDecides, SubmittingDecides
<1>4. CASE PatchPosting(m) \/ ClosePosting(m)
  BY <1>4, LoadingPostings
<1>5. CASE PostingRow(m) \/ CloseRow(m)
  BY <1>5, SavingPostings
<1> QED
  BY <1>1, <1>2, <1>3, <1>4, <1>5 DEF ApplicationStatement

LEMMA ProjectsDecide ==
    ASSUME DecisionInv, NEW m \in Requests, Open(m), Goes(m), ProjectStatement(m)
    PROVE  Settles(m) /\ DecisionStatement(m)'
<1>1. CASE \/ SelectProject(m) \/ SelectRow(m) \/ CreateRun(m) \/ RunGuard(m) \/ StartRun(m) \/ StartCheck(m)
           \/ SpendStart(m) \/ ReportLaunch(m) \/ RecoverRun(m) \/ ReportResult(m)
  BY <1>1, DecisionTablesThere, ProjectsUndecided, UndecidedSettles
<1>2. CASE RunRows(m) \/ StartRows(m) \/ SaveRun(m)
  BY <1>2, RunningDecides, StartingDecides, ReportingDecides
<1> QED
  BY <1>1, <1>2 DEF ProjectStatement

LEMMA OthersDecide ==
    ASSUME DecisionInv, NEW m \in Requests, Open(m), Goes(m), TextStatement(m) \/ Killed(m) \/ ScheduleStatement(m)
    PROVE  Settles(m) /\ DecisionStatement(m)'
<1>1. CASE ConvertSource(m)
  BY <1>1, ConvertingDecides
<1>2. CASE TextStatement(m) /\ ~ConvertSource(m)
  BY <1>2, DecisionTablesThere, TextsUndecided, UndecidedSettles
<1>3. CASE Killed(m)
  BY <1>3, DecisionTablesThere, KilledUndecided, UndecidedSettles
<1>4. CASE ReadRow(m) \/ OfferRow(m)
  BY <1>4, OfferingDecides
<1>5. CASE \/ CreateInterview(m) \/ PatchInterview(m) \/ InterviewRow(m) \/ PatchEvent(m) \/ EventRow(m)
           \/ DeleteEvent(m) \/ ReadOffer(m) \/ DecideOffer(m)
  BY <1>5, DecisionTablesThere, SchedulesUndecided, UndecidedSettles
<1> QED
  BY <1>1, <1>2, <1>3, <1>4, <1>5 DEF ScheduleStatement

LEMMA MovesDecide ==
    ASSUME DecisionInv, NEW m \in Requests, DecisionMove(m)
    PROVE  Goes(m) /\ Settles(m) /\ DecisionStatement(m)'
<1>0. PaperInv
  BY DEF DecisionInv
<1>1. CASE ArrivesPaper(m) \/ ArriveSchedule(m)
  <2>1. CalledToDecide(m)
    BY <1>1, DocumentsToDecide, ApplicationsToDecide, OthersToDecide DEF ArrivesPaper
  <2> QED
    BY <2>1, CalledSettles
<1>2. CASE ApprovalStatement(m)
  BY <1>2, ApprovalDoes, TakesGo, ApprovalsDecide
<1>3. CASE DocumentStatement(m)
  BY <1>3, DocumentDoes, TakesGo, DocumentsDecide
<1>4. CASE ApplicationStatement(m)
  BY <1>4, ApplicationDoes, TakesGo, ApplicationsDecide
<1>5. CASE ProjectStatement(m)
  BY <1>5, ProjectDoes, TakesGo, ProjectsDecide
<1>6. CASE TextStatement(m)
  BY <1>6, TextDoes, TakesGo, OthersDecide
<1>7. CASE Killed(m)
  BY <1>7, KilledDoes, TakesGo, OthersDecide
<1>8. CASE ScheduleStatement(m)
  <2>1. Scheduled(m)
    BY <1>8, ScheduleDoes
  <2>2. Goes(m)
    BY <1>0, <2>1, SchedulesKeep
  <2>3. Open(m)
    BY <2>1, Zenon DEF Scheduled
  <2> QED
    BY <1>8, <2>2, <2>3, OthersDecide
<1>9. ScheduleStep(m) => ArriveSchedule(m) \/ ScheduleStatement(m)
  BY DEF ScheduleStep, ScheduleStatement
<1> QED
  BY <1>1, <1>2, <1>3, <1>4, <1>5, <1>6, <1>7, <1>8, <1>9, PaperCases DEF DecisionMove

LEMMA DecisionInvNext ==
    ASSUME DecisionInv, [DecisionNext]_vars
    PROVE  /\ DecisionInv'
           /\ \A i \in Ids : /\ ApplicationIsKept(i) /\ PostingIsKept(i) /\ OfferIsKept(i) /\ ExportIsKept(i)
                             /\ ProposalIsKept(i) /\ DocumentIsKept(i) /\ ApprovalIsKept(i) /\ RunIsKept(i)
<1>0. PaperInv /\ Nil \notin Requests
  BY CoreWorkerAssumption DEF DecisionInv
<1>1. ASSUME NEW m \in Requests, DecisionMove(m) PROVE PaperInv' /\ Goes(m) /\ Settles(m) /\ DecisionStatement(m)'
  BY <1>0, <1>1, PaperMovesKeep, SchedulesKeepPapers, MovesDecide DEF DecisionMove
<1>2. CASE \E m \in Requests : DecisionMove(m)
  BY <1>1, <1>2, DecisionStep
<1>3. CASE Lapse \/ Sweep \/ IngestStep
  <2>1. PaperInv'
    BY <1>0, <1>3, PaperInvNext DEF PaperNext
  <2>2. Goes(Nil) /\ Settles(Nil)
    BY <1>0, <1>3, LapseStands, SweepStands, JobsStand, ExpiryDecides, JobsDecide
  <2> QED
    BY <1>0, <2>1, <2>2, DecisionStep
<1>4. CASE UNCHANGED vars
  <2>1. PaperInv'
    BY <1>0, <1>4, PaperInvNext
  <2>2. Goes(Nil) /\ db' = db
    BY <1>4 DEF Goes, vars
  <2>3. Settles(Nil)
    BY <2>2, SameDecisionsSettle DEF SameDecisions
  <2> QED
    BY <1>0, <2>1, <2>2, <2>3, DecisionStep
<1> QED
  BY <1>2, <1>3, <1>4 DEF DecisionNext

LEMMA DecisionInvInit == DecisionInit => DecisionInv
<1> SUFFICES ASSUME DecisionInit PROVE DecisionInv
  OBVIOUS
<1>1. PaperInv /\ PaperInit
  BY PaperInvInit DEF DecisionInit
<1>2. ASSUME NEW r \in Requests PROVE DecisionStatement(r)
  BY <1>1 DEF PaperInit, RequestsInit, DecisionInit, DecisionStatement, At
<1> QED
  BY <1>1, <1>2 DEF DecisionInit, DecisionInv

\* DecisionsStay: no later step of any request, of the sweep or of a job undoes
\* what was decided about an application, a posting, an offer, an export, a
\* proposal, a document, an approval or a run, but for its two exceptions.
THEOREM DecisionsAreKept == DecisionSpec => DecisionsStay
<1>1. DecisionInv /\ [DecisionNext]_vars =>
         /\ DecisionInv'
         /\ [\A i \in Ids : /\ ApplicationIsKept(i) /\ PostingIsKept(i) /\ OfferIsKept(i) /\ ExportIsKept(i)
                            /\ ProposalIsKept(i) /\ DocumentIsKept(i) /\ ApprovalIsKept(i) /\ RunIsKept(i)]_vars
  BY DecisionInvNext
<1> QED
  BY DecisionInvInit, <1>1, PTL DEF DecisionSpec, DecisionsStay
=============================================================================
