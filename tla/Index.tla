------------------------------- MODULE Index -------------------------------
(***************************************************************************)
(* How the index follows the texts: the handlers that bring and take away  *)
(* texts (routes/sources.ts, evidence.ts, jobs.ts, postings.ts and the     *)
(* conversions of routes/documents.ts), and the runs of the AI worker's    *)
(* ingest handler (workers/handlers/ingest.py, rag/store.py).              *)
(***************************************************************************)
EXTENDS Documents, Edits

CONSTANT MaxRuns    \* bound: runs of ingest jobs in a behaviour

NewText(r, kind) == ThenIngest(r, <<"text", r>>, [db EXCEPT !.text[r] = Text(kind)])

CreateSource(r) == At(r, "createSource") /\ NewText(r, "source")

\* The evidence it supersedes may be unknown.
CreateEvidence(r) == At(r, "createEvidence") /\ (Refuse(r) \/ NewText(r, "evidence"))

\* The caller's company may not be verified.
CreatePosting(r) == At(r, "createPosting") /\ (Refuse(r) \/ NewText(r, "posting"))

CreateJob(r) ==
    /\ At(r, "createJob")
    /\ ThenIngest(r, <<"edited", r>>, [db EXCEPT !.edited[r] = Edited])

ArchiveEvidence(r) ==
    Load(r, "archiveEvidence", "text", LAMBDA row : row.kind = "evidence", "archiveText")
ArchiveText(r) ==
    /\ At(r, "archiveText")
    /\ IF req[r].v.archived THEN End(r, db) ELSE Save(r, "text", [req[r].v EXCEPT !.archived = TRUE])

\* Runs of ingest jobs that have read the text and have yet to write its nodes.
Reading(of) == {j \in Requests : db.ingest[j] # Nil /\ db.ingest[j].of = of /\ db.reads[j] # {}}

\* Evidence may refer to it.  The nodes go by a trigger.
KeptNodes(of) == db.node
DroppedNodes(of) == [db.node EXCEPT ![of] = Nil]
DeleteSource(r) ==
    /\ At(r, "deleteSource")
    /\ LET i == req[r].arg.id  of == <<"text", i>> IN
       \/ Refuse(r)
       \/ /\ Exists("text", i, Nil)
          /\ End(r, [db EXCEPT !.text[i] = Nil, !.node = DroppedNodes(of),
                               !.behind = IF Reading(of) = {} THEN @ ELSE @ \cup {of}])

-----------------------------------------------------------------------------
(***************************************************************************)
(* convertOwnedSource: a source becomes a document.  A text makes its      *)
(* first version, which no job indexes; of a PDF an ingest job makes it.   *)
(***************************************************************************)

ConvertSource(r) ==
    /\ At(r, "convertSource")
    /\ LET shell == [db EXCEPT !.document[r] = Document("DRAFT", Nil, Nil)] IN
       \/ db.text[req[r].arg.id] = Nil /\ Refuse(r)
       \/ /\ db.text[req[r].arg.id] # Nil /\ ~req[r].arg.pdf
          /\ End(r, [shell EXCEPT !.document[r].latest = r, !.version[r] = Version(r, 1),
                                  !.behind = @ \cup {<<"document", r>>}])
       \/ /\ db.text[req[r].arg.id] # Nil /\ req[r].arg.pdf
          /\ ThenIngest(r, <<"fill", r>>, shell)

Runs == MapThenSumSet(LAMBDA j : db.ingest[j].runs, {j \in Requests : db.ingest[j] # Nil})
MayRun(j) == db.ingest[j].over = Nil /\ db.ingest[j].runs < MaxTries /\ Runs < MaxRuns

Over(j, how) ==
    LET job == db.ingest[j] IN [db EXCEPT !.ingest[j] = [job EXCEPT !.runs = @ + 1, !.over = how]]

\* The run raises; after the last one the job is dead.
Raised(j) == Over(j, IF db.ingest[j].runs + 1 >= MaxTries THEN "dead" ELSE Nil)

\* _fill_profile_document: version 1, unless the document has one; it leaves the
\* document's revision alone.  The run may stop before it ends the job.
FillDocument(j) ==
    /\ db.ingest[j].of[1] = "fill" /\ MayRun(j)
    /\ \/ db.text[req[j].arg.id] = Nil /\ db' = Over(j, "failed")
       \/ /\ db.text[req[j].arg.id] # Nil
          /\ IF \E w \in VersionsOf(j) : db.version[w].number = 1 THEN db' = Raised(j)
             ELSE \E how \in {"done", Nil} :
                    db' = [Over(j, how) EXCEPT !.version[j] = Version(j, 1), !.document[j].latest = j,
                                               !.behind = @ \cup {<<"document", j>>}]

-----------------------------------------------------------------------------
(***************************************************************************)
(* A run of an ingest job reads the text, and after a while (it embeds     *)
(* the text) writes the nodes; nothing says that it is still the newest.   *)
(***************************************************************************)

\* read_source, read_evidence, read_posting, read_document, read_job.
TextOf(of) ==
    LET row == db[of[1]][of[2]] IN
    IF row = Nil THEN Nil
    ELSE CASE of[1] = "document" -> IF row.final # Nil THEN row.final ELSE row.latest
           [] of[1] = "edited" -> row.cols
           [] of[1] = "text" -> IF row.archived THEN Nil ELSE row.kind

ReadText(j) ==
    LET of == db.ingest[j].of IN
    /\ of \in Texts /\ MayRun(j)
    /\ db' = IF TextOf(of) = Nil THEN Over(j, "failed")
             ELSE [Over(j, Nil) EXCEPT !.reads[j] = @ \cup {TextOf(of)},
                                       !.behind = IF Reading(of) = {} THEN @ ELSE @ \cup {of}]

Without(j, text) == [db EXCEPT !.reads[j] = @ \ {text}]

StoreNodes(j) ==
    \E text \in db.reads[j] :
        db' = [Without(j, text) EXCEPT !.node[db.ingest[j].of] = text, !.ingest[j].over = "done"]

FailIngest(j) ==
    \E text \in db.reads[j] :
        LET last == db.ingest[j].runs = MaxTries /\ db.reads[j] = {text} IN
        db' = [Without(j, text) EXCEPT !.ingest[j].over = IF @ = Nil /\ last THEN "dead" ELSE @]

IngestStep ==
    /\ "ingest" \in mix
    /\ \E j \in Requests : /\ db.ingest[j] # Nil
                           /\ FillDocument(j) \/ ReadText(j) \/ StoreNodes(j) \/ FailIngest(j)
    /\ UNCHANGED <<req, prior, mix>>

-----------------------------------------------------------------------------
ArriveText(r) ==
    \/ \E h \in {"createSource", "createEvidence", "createPosting", "createJob"} : Begin(r, h, Nil)
    \/ \E i \in {j \in Ids : db.text[j] # Nil} :
          \/ Begin(r, "archiveEvidence", [id |-> i])
          \/ db.text[i].kind = "source" /\ Begin(r, "deleteSource", [id |-> i])
          \/ \E pdf \in BOOLEAN : /\ db.text[i].kind = "source"
                                  /\ Begin(r, "convertSource", [id |-> i, pdf |-> pdf])

TextStep(r) ==
    \/ ArriveText(r) \/ CreateSource(r) \/ CreateEvidence(r) \/ CreatePosting(r) \/ CreateJob(r)
    \/ ArchiveEvidence(r) \/ ArchiveText(r) \/ DeleteSource(r) \/ ConvertSource(r) \/ StoreIngest(r)

\* The index follows the texts: once nothing is under way about a text and its
\* ingest jobs are over, its nodes are of the text as it is, and there are none
\* of a source that is gone.  The exceptions: a request dropped between its
\* text and its job, a job that is dead, and what "behind" holds; and evidence
\* that is archived keeps its nodes.
IndexFollows ==
    "ingest" \in mix =>
        \A of \in Texts :
            LET jobs == {j \in Requests : db.ingest[j] # Nil /\ db.ingest[j].of = of}
                row == db[of[1]][of[2]] IN
            /\ \A j \in jobs : db.ingest[j].over \in {"done", "failed"} /\ db.reads[j] = {}
            /\ \A r \in Requests : ~At(r, "killed") /\ ~(At(r, "ingestJob") /\ req[r].v.of = of)
            /\ of \notin db.behind
            /\ of[1] = "text" /\ row # Nil => ~row.archived
            => db.node[of] = TextOf(of)
=============================================================================
