------------------------------- MODULE MCWork -------------------------------
(***************************************************************************)
(* Small instances of the routes of documents, applications, interviews,   *)
(* projects, approvals, chats, edits, listings, notices and the index for  *)
(* TLC.  A row is named x, y or z in its own table: the document x has the *)
(* versions x and y, the application x is to the posting x, the run x is   *)
(* of the blueprint x.                                                     *)
(***************************************************************************)
EXTENDS Decisions, ChatStream, Edits, Listings, Notices, Index, Routing, TLC

CONSTANTS x, y, z, u, m1, m2, t1, t2, d1, d2, r1, r2, r3

Symmetry == Permutations(Requests)

\* The handlers that run against each other in one behaviour.
DocumentMixes ==
    {{"patchDocument", "createVersion", "finalize"}, {"finalize", "archive", "applyEdits"},
     {"applyRevision", "applyEdits", "patchDocument"}, {"createExport", "recordExport", "createDocument", "createVersion", "convertDocument"}}
ApprovalMixes ==
    {{"createApproval", "decide", "finalize"}, {"decide", "expiry", "finalize"},
     {"resolve", "postMessage", "expiry", "killed"}}
ApplicationMixes ==
    {{"submit", "patchApplication", "patchApplicant"}, {"submit", "createVersion", "createDraft"},
     {"apply", "closePosting", "patchPosting"}}
ScheduleMixes ==
    {{"createInterview", "patchInterview", "patchEvent", "deleteEvent"}, {"getOffer", "decideOffer"}}
ProjectMixes ==
    {{"selectProject", "createRun"}, {"startRun", "decide", "reportLaunch"},
     {"reportLaunch", "recoverRun", "reportResult"}}
ChatMixes == {{"runTurn", "cancelTurn", "streamActive", "killed"}}
EditMixes ==
    {{"patchJob"}, {"patchCompany"}, {"patchSettings"}, {"patchMyProfile", "setBaseProfile"},
     {"patchConversation", "archiveConversation", "deleteConversation"}, {"archiveConversation", "postAttachment"}}
NoticeMixes ==
    {{"notificationRun", "mute", "notifyJob", "killed"}, {"offerProfile", "blockUser", "unblockUser", "mute"},
     {"postOfferMessage", "blockUser", "unblockUser"}, {"createComment", "aiDone", "mute"},
     {"registerDevice", "deleteDevice"}}
IndexMixes ==
    {{"createEvidence", "archiveEvidence", "createPosting", "ingest"},
     {"createJob", "createSource", "deleteSource", "ingest", "killed"}, {"patchJob", "ingest"},
     {"createVersion", "finalize", "ingest"},
     {"convertSource", "patchDocument", "createVersion", "deleteSource", "ingest"}}
ListMixes == {{"list", "changeRow"}}
RoutingMixes == {{"call"}}
\* Where only two requests meet, for the sake of the size.
PairMixes == {{"submit", "patchApplication", "patchApplicant"}, {"decide", "expiry", "finalize"},
              {"startRun", "decide", "reportLaunch"}, {"createComment", "aiDone", "mute"},
              {"createVersion", "finalize", "ingest"}, {"patchJob", "ingest"}}
TextMixes == DocumentMixes \cup ApprovalMixes \cup ApplicationMixes \cup ProjectMixes \cup IndexMixes
AllMixes == DocumentMixes \cup ApprovalMixes \cup ApplicationMixes \cup ScheduleMixes \cup ProjectMixes
            \cup ChatMixes \cup EditMixes \cup NoticeMixes \cup IndexMixes
            \cup ListMixes \cup RoutingMixes

Empty ==
    ApprovalTables @@ DocumentTables @@ ApplicationTables @@ ScheduleTables @@ ProjectTables @@ ChatTables
    @@ EditTables @@ ListTables @@ NoticeTables @@ IngestTables

\* The version y is the latest and may be finalized with either of two approvals.
Drafted ==
    [Empty EXCEPT
        !.version[x] = Version(x, 1), !.version[y] = Version(x, 2),
        !.document[x] = Document("DRAFT", y, Nil),
        !.proposal[x] = Proposal(x, y, 1), !.proposal[y] = Proposal(x, y, 1),
        !.approval[x] = Approval("finalize", y, IF "decide" \in mix THEN "PENDING" ELSE "APPROVED"),
        !.approval[y] = Approval("finalize", y, "APPROVED"),
        !.posting[x] = Posting("OPEN")]

\* y was finalized and may be submitted with either of two approvals.
Finalized ==
    [Drafted EXCEPT
        !.document[x] = [Document("FINALIZED", y, y) EXCEPT !.rev = 2],
        !.finalized[x] = y,
        !.approval[x].state = "CONSUMED",
        !.approval[y] = Approval("submit", x, "APPROVED"),
        !.approval[z] = Approval("submit", x, "APPROVED"),
        !.export[x] = [version |-> y, state |-> "READY_TO_RENDER"],
        !.application[x] = Application(u, x, "READY"),
        !.draft[x] = [application |-> x, atRev |-> 1, version |-> y]]

Called ==   \* an applicant who has applied
    [Finalized EXCEPT !.application[x].stage = "APPLIED",
                      !.event[x] = Event(t1), !.interview[x] = Interview(x, t1), !.offer[x] = "SENT"]

Cards == [Empty EXCEPT !.approval[x] = Approval("card", Nil, "PENDING")]

Planned == [Empty EXCEPT !.blueprint[x] = Blueprint("SELECTED")]

Awaited ==  \* a run that may be started with either of two approvals
    [Empty EXCEPT !.blueprint[x] = Blueprint("IN_PROGRESS"), !.run[x] = Run(x),
                  !.approval[x] = Approval("execute", x, "PENDING"),
                  !.approval[y] = Approval("execute", x, "APPROVED"),
                  !.approval[z] = Approval("execute", x, "APPROVED")]

Running(launch) ==
    [Awaited EXCEPT !.run[x] = [Run(x) EXCEPT !.state = "RUNNING", !.launch = launch, !.approval = y,
                                              !.device = d1],
                    !.approval[y].state = "CONSUMED"]

\* Two rows of one time.
Rowed == [Empty EXCEPT !.listed = [i \in Uuids |-> IF i > 3 THEN Nil ELSE ListRow(i, IF i = 1 THEN 1 ELSE 2, Nil)]]

\* A posting near its deadline and a reminder.
Noticed == [Empty EXCEPT !.due[x] = Due("deadline", m1), !.due[y] = Due("reminder", m2), !.post[x] = m1]

\* The nodes of a document, a posting that is kept and a source.
Indexed ==
    [Drafted EXCEPT !.edited[x] = Edited, !.text[x] = Text("source"), !.node[<<"text", x>>] = "source",
                    !.node[<<"document", x>>] = y, !.node[<<"edited", x>>] = Edited.cols]

Worlds ==
    CASE mix \in IndexMixes -> {Indexed}
      [] "apply" \in mix \/ mix \cap {"finalize", "applyRevision"} # {} -> {Drafted}
      [] mix \in ScheduleMixes -> {Called}
      [] "patchApplicant" \in mix -> {Finalized, Called}
      [] "resolve" \in mix -> {Cards}
      [] "recoverRun" \in mix -> {Running("CLAIMED"), Running("UNKNOWN")}
      [] "startRun" \in mix -> {Awaited}
      [] mix \in ProjectMixes -> {Planned}
      [] mix \in ChatMixes \cup RoutingMixes -> {Empty}
      [] mix \in EditMixes -> {[Empty EXCEPT !.edited[x] = Edited]}
      [] mix \in NoticeMixes -> {Noticed}
      [] mix \in ListMixes -> {Rowed}
      [] OTHER -> {Finalized}

Init == RequestsInit /\ db \in Worlds

Targets(kind) ==
    {i \in Ids : db[IF kind = "finalize" THEN "version" ELSE IF kind = "submit" THEN "draft" ELSE "run"][i]
                 # Nil}

\* A component's handlers are tried in the behaviours that have them.
Step ==
    \/ \E r \in Requests :
          \/ mix \in TextMixes /\ (ApprovalStep(r, Targets) \/ DocumentStep(r))
          \/ mix \in ApplicationMixes /\ ApplicationStep(r)
          \/ mix \in ScheduleMixes /\ ScheduleStep(r)
          \/ mix \in ProjectMixes /\ ProjectStep(r)
          \/ mix \in ChatMixes /\ ChatStep(r)
          \/ mix \in EditMixes \cup IndexMixes /\ EditStep(r)
          \/ mix \in ListMixes /\ ListStep(r)
          \/ mix \in RoutingMixes /\ RoutingStep(r)
          \/ mix \in NoticeMixes /\ NoticeStep(r)
          \/ mix \in TextMixes \cup EditMixes /\ TextStep(r)
          \/ Killed(r)
    \/ Lapse \/ Sweep \/ RequeueTurn \/ NoticeJob \/ IngestStep

Next == Step /\ (mix \in PairMixes => Cardinality({r \in Requests : req'[r].at # "new"}) < 3)

Spec == Init /\ [][Next]_vars
=============================================================================
