------------------------------- MODULE Ingest -------------------------------
(***************************************************************************)
(* What is kept for retrieval: rows with a text, the jobs that index them  *)
(* (jobs/ingest.ts) and the nodes of the index (rag_nodes).  A handler     *)
(* that writes a text stores its ingest job with the next statement.  The  *)
(* workers' side is the module Index.                                      *)
(***************************************************************************)
EXTENDS Approvals

\* A text, by the table and the row it is in: "edited" is jobs, the postings a
\* user keeps, "text" is sources, career_evidence and job_postings.
Texts == {"document", "edited", "text"} \X Ids

\* A row of "text", whose text is never rewritten.
TextRecord == [rev : Nat, kind : {"source", "evidence", "posting", "job"}, archived : BOOLEAN]
Text(kind) == [rev |-> 1, kind |-> kind, archived |-> FALSE]

\* A row of ai_jobs, by the request that stores it: its runs so far, and how it
\* ended.
IngestRecord ==
    [of : Texts \cup ({"fill"} \X Requests), runs : Nat, over : {Nil, "done", "failed", "dead"}]

ASSUME IngestAssumption ==
    /\ Nil \notin IngestRecord /\ Nil \notin TextRecord
    /\ Nil \notin {"done", "failed", "dead", "source", "evidence", "posting", "job"}

IngestJob(of) == [of |-> of, runs |-> 0, over |-> Nil]

IngestTables ==
    [text   |-> NoRows,
     ingest |-> [r \in Requests |-> Nil],
     reads  |-> [r \in Requests |-> {}],  \* what the job's runs that go on have read
     node   |-> [t \in Texts |-> Nil],    \* the text each one's nodes are of
     behind |-> {}]     \* a history: texts two runs read at once, or that
                        \* changed with no job stored

ThenIngest(r, of, tables) == Do(r, "ingestJob", [of |-> of], tables)

\* enqueueIngest.  These jobs cost nothing, and none is refused.
StoreIngest(r) ==
    /\ At(r, "ingestJob")
    /\ End(r, [db EXCEPT !.ingest[r] = IngestJob(req[r].v.of)])
=============================================================================
