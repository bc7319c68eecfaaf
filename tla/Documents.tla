----------------------------- MODULE Documents -----------------------------
(***************************************************************************)
(* Documents, their versions, proposals and exports: routes/documents.ts.  *)
(* A document is of an application; what its blocks claim is left to       *)
(* chance.                                                                 *)
(***************************************************************************)
EXTENDS Ingest, FiniteSetsExt

\* A row of documents: its latest version and, while it is FINALIZED, the final
\* one; and a row of document_versions.
DocumentRecord ==
    [rev: Nat, status: {"DRAFT", "FINALIZED", "ARCHIVED"}, latest: Ids \cup {Nil}, final: Ids \cup {Nil}]
VersionRecord == [document: Ids, number: Nat]

ASSUME DocumentAssumption == Nil \notin DocumentRecord /\ Nil \notin VersionRecord

Document(status, latest, final) ==
    [rev |-> 1, status |-> status, latest |-> latest, final |-> final]
Version(d, number) == [document |-> d, number |-> number]
Proposal(d, source, rev) == [document |-> d, source |-> source, atRev |-> rev, applied |-> FALSE]

DocumentTables ==
    [document |-> NoRows, version |-> NoRows, proposal |-> NoRows, export |-> NoRows,
     finalized |-> NoRows]      \* events DOCUMENT_FINALIZED: the version of each

VersionsOf(d) == {w \in Ids : db.version[w] # Nil /\ db.version[w].document = d}

\* loadMutable: archived documents take no writes.
Mutable(row) == row.status # "ARCHIVED"
Reopened(row) ==
    [row EXCEPT !.final = Nil, !.status = IF @ = "FINALIZED" THEN "DRAFT" ELSE @]

-----------------------------------------------------------------------------
PatchDocument(r) == Load(r, "patchDocument", "document", Mutable, "patchRow")

\* Another template reopens the document; the other columns are written back.
PatchRow(r) ==
    /\ At(r, "patchRow")
    /\ Save(r, "document", IF req[r].arg.template THEN Reopened(req[r].v) ELSE req[r].v)

\* saveVersion: the version and the document, and the proposal it applies.
SaveVersion(r) ==
    /\ At(r, "saveVersion")
    /\ LET d == req[r].arg.id  p == req[r].arg.proposal
           last == Max({0} \cup {db.version[w].number : w \in VersionsOf(d)}) IN
       IF ~Same("document", d, req[r].v) THEN Refuse(r)
       ELSE ThenIngest(r, <<"document", d>>, [db EXCEPT
                !.document[d] = Bumped([Reopened(@) EXCEPT !.latest = r]),
                !.version[r] = Version(d, last + 1),
                !.proposal = IF p = Nil THEN @ ELSE [@ EXCEPT ![p].applied = TRUE]])

CreateVersion(r) == Load(r, "createVersion", "document", Mutable, "saveVersion")

\* Edits of a chat name the version they are of, or none.
ApplyEdits(r) ==
    Load(r, "applyEdits", "document",
         LAMBDA row : Mutable(row) /\ row.latest # Nil /\ req[r].arg.version \in {Nil, row.latest},
         "saveVersion")

ApplyRevision(r) == Load(r, "applyRevision", "document", Mutable, "readProposal")

ReadProposal(r) ==
    /\ At(r, "readProposal")
    /\ LET p == db.proposal[req[r].arg.proposal] IN
       IF p.applied \/ p.source # req[r].v.latest \/ p.atRev # req[r].v.rev THEN Refuse(r)
       ELSE GoOn(r, "saveVersion", req[r].v)

-----------------------------------------------------------------------------
(***************************************************************************)
(* finalizeDocument.                                                       *)
(***************************************************************************)

\* The evidence of the version is approved, or not.
Finalize(r) == Load(r, "finalize", "document", Mutable, "finalizeCheck")

FinalizeCheck(r) ==
    /\ At(r, "finalizeCheck")
    /\ \/ Refuse(r)
       \/ /\ Covers(req[r].arg.approval, "finalize", req[r].arg.version)
          /\ GoOn(r, "spend", [doc |-> req[r].v, approval |-> db.approval[req[r].arg.approval]])

\* One statement in two steps: what its snapshot says of the other table
\* (EXISTS), then the rows, each if it still has the revision that was read.
Spend(r, table, row) ==
    IF /\ Same("approval", req[r].arg.approval, req[r].v.approval)
       /\ Same(table, req[r].arg.id, row)
    THEN GoOn(r, "spendRows", req[r].v) ELSE Refuse(r)

SpendFinalize(r) == req[r].do = "finalize" /\ At(r, "spend") /\ Spend(r, "document", req[r].v.doc)

ConsumedUnbumped(a) == [db.approval[a] EXCEPT !.state = "CONSUMED"]
Consumed(a) == Bumped([db.approval[a] EXCEPT !.state = "CONSUMED"])

FinalizeRows(r) ==
    /\ req[r].do = "finalize" /\ At(r, "spendRows")
    /\ LET a == req[r].arg.approval  d == req[r].arg.id  w == req[r].arg.version IN
       IF ~Same("approval", a, req[r].v.approval) THEN Refuse(r)
       ELSE IF ~Same("document", d, req[r].v.doc)
       THEN Do(r, "refused", Nil, [db EXCEPT !.approval[a] = Consumed(a)])
       ELSE End(r, [db EXCEPT !.approval[a] = Consumed(a),
                              !.document[d] = Bumped([@ EXCEPT !.status = "FINALIZED", !.final = w]),
                              !.finalized[r] = w,
                              !.behind = IF w = db.document[d].latest THEN @
                                         ELSE @ \cup {<<"document", d>>}])

-----------------------------------------------------------------------------
Archive(r) ==
    /\ At(r, "archive")
    /\ LET row == db.document[req[r].arg.id] IN
       IF row.status = "ARCHIVED" THEN End(r, db) ELSE GoOn(r, "archiveRow", row)

\* The other columns of the row stay as they are.
SetColumn(r, table, column, to) ==
    LET i == req[r].arg.id IN
    IF Same(table, i, req[r].v) THEN End(r, [db EXCEPT ![table][i] = Bumped([@ EXCEPT ![column] = to])])
    ELSE Refuse(r)

ArchiveRow(r) == At(r, "archiveRow") /\ SetColumn(r, "document", "status", "ARCHIVED")

\* A hub profile is given an application, whatever its status.
ConvertDocument(r) == Load(r, "convertDocument", "document", AnyRow, "convertRow")
ConvertRow(r) ==
    /\ At(r, "convertRow")
    /\ LET d == req[r].arg.id IN
       IF Same("document", d, req[r].v) THEN End(r, [db EXCEPT !.document[d] = Bumped(@)]) ELSE Refuse(r)

CreateDocument(r) ==
    /\ At(r, "createDocument")
    /\ End(r, [db EXCEPT !.document[r] = Document("DRAFT", Nil, Nil)])

\* createExport, of the finalized version.
Export(r) == Load(r, "createExport", "document", LAMBDA row : row.final = req[r].arg.version, "exportRow")

ExportRow(r) ==
    /\ At(r, "exportRow")
    /\ End(r, [db EXCEPT !.export[r] = [version |-> req[r].arg.version, state |-> "READY_TO_RENDER"]])

IsReady(row) == row.state = "READY_TO_RENDER"
RecordExport(r) == Load(r, "recordExport", "export", IsReady, "recordRow")

RecordRow(r) ==
    /\ At(r, "recordRow")
    /\ IF IsReady(db.export[req[r].arg.id])
       THEN End(r, [db EXCEPT !.export[req[r].arg.id].state = req[r].arg.to]) ELSE Refuse(r)

-----------------------------------------------------------------------------
ArriveDocument(r) ==
    \/ \E d \in Ids :
          /\ db.document[d] # Nil
          /\ \/ \E template \in BOOLEAN : Begin(r, "patchDocument", [id |-> d, template |-> template])
             \/ Begin(r, "createVersion", [id |-> d, proposal |-> Nil])
             \/ \E w \in VersionsOf(d) \cup {Nil} :
                    Begin(r, "applyEdits", [id |-> d, version |-> w, proposal |-> Nil])
             \/ \E p \in Ids : /\ db.proposal[p] # Nil /\ db.proposal[p].document = d
                               /\ Begin(r, "applyRevision", [id |-> d, proposal |-> p])
             \/ \E w \in VersionsOf(d), a \in Ids :
                    /\ db.approval[a] # Nil
                    /\ Begin(r, "finalize", [id |-> d, version |-> w, approval |-> a])
             \/ \E h \in {"archive", "convertDocument"} : Begin(r, h, [id |-> d])
             \/ \E w \in VersionsOf(d) : Begin(r, "createExport", [id |-> d, version |-> w])
    \/ \E e \in Ids, to \in {"SUCCEEDED", "FAILED"} :
           db.export[e] # Nil /\ Begin(r, "recordExport", [id |-> e, to |-> to])
    \/ Begin(r, "createDocument", Nil)

DocumentStep(r) ==
    \/ ArriveDocument(r) \/ PatchDocument(r) \/ PatchRow(r) \/ SaveVersion(r) \/ CreateVersion(r)
    \/ ApplyEdits(r) \/ ApplyRevision(r) \/ ReadProposal(r) \/ Finalize(r) \/ FinalizeCheck(r)
    \/ SpendFinalize(r) \/ FinalizeRows(r) \/ Archive(r) \/ ArchiveRow(r) \/ ConvertDocument(r) \/ ConvertRow(r)
    \/ CreateDocument(r) \/ Export(r) \/ ExportRow(r) \/ RecordExport(r) \/ RecordRow(r)

DocumentWriters ==
    {"patchDocument", "createVersion", "applyEdits", "applyRevision", "finalize", "archive", "convertDocument"}

\* A patchDocument that read the document before a job filled it has written
\* back that it has no version.
Unfilled(d) ==
    /\ d \in Requests /\ db.document[d].latest = Nil /\ VersionsOf(d) = {d} /\ db.ingest[d] # Nil
    /\ \E r \in Doing("patchDocument") : At(r, "ok") /\ req[r].arg.id = d

\* A document agrees with its versions whatever edits overlap: it is FINALIZED
\* exactly while a version of it is final, and that version was once finalized
\* with an approval; its latest version is the one of the highest number, unless it
\* is Unfilled.
DocumentAgrees ==
    \A d \in {i \in Ids : db.document[i] # Nil} :
        LET row == db.document[d] IN
        /\ row.status # "ARCHIVED" => (row.status = "FINALIZED" <=> row.final # Nil)
        /\ row.final # Nil =>
              /\ row.final \in VersionsOf(d)
              /\ \E e \in Ids : db.finalized[e] = row.final
              /\ \E a \in Approvals("finalize", "CONSUMED") : db.approval[a].target = row.final
        /\ Unfilled(d) \/ \A w \in VersionsOf(d) :
              w # row.latest => row.latest # Nil /\ db.version[w].number < db.version[row.latest].number
=============================================================================
