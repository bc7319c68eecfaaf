------------------------------ MODULE Routing ------------------------------
(***************************************************************************)
(* Who answers a call: the gateway's own routes (gateway/src/handler.ts),  *)
(* the lists of what it forwards (routes/owner.ts), the Python API's       *)
(* routers, and the core Worker's chain of dispatchers with the lists of   *)
(* what it answers without a token (core-api/src/handler.ts) and for the   *)
(* AI worker (internal-auth.ts).  The lists are kept by hand in three      *)
(* services.  A path is the sequence of its words after /api/v1; a pattern *)
(* has a set of words for each.                                            *)
(***************************************************************************)
EXTENDS CoreWorker, SequencesExt

Free == {"*"}            \* [^/]+
Uuid == {"id"}          \* the one word that is a UUID
Fits(path, pattern) ==
    /\ Len(path) = Len(pattern)
    /\ \A i \in DOMAIN path : pattern[i] = Free \/ path[i] \in pattern[i]

\* Routes are tried in their order: the first that fits answers.
Route(method, pattern, handler) == [on |-> method, path |-> pattern, to |-> handler]
Get(pattern, handler) == Route("GET", pattern, handler)
Post(pattern, handler) == Route("POST", pattern, handler)
Patch(pattern, handler) == Route("PATCH", pattern, handler)
Put(pattern, handler) == Route("PUT", pattern, handler)
Drop(pattern, handler) == Route("DELETE", pattern, handler)

Answering(routes, method, path) ==
    LET fits == {i \in DOMAIN routes : routes[i].on = method /\ Fits(path, routes[i].path)} IN
    IF fits = {} THEN Nil ELSE routes[CHOOSE i \in fits : \A j \in fits : i <= j].to

\* A list tells only whether a path is served.
On(methods, patterns) == methods \X patterns
Serves(list, method, path) == \E e \in list : e[1] = method /\ Fits(path, e[2])

-----------------------------------------------------------------------------
(***************************************************************************)
(* The gateway.                                                            *)
(***************************************************************************)

Chat == {"conversations"}
Doc == {"documents"}
Files == {"sources"}
Proof == {"career-evidence"}
Work == {"projects"}


\* route.
GatewayRoutes ==
    <<Get(<<{"healthz"}>>, "health"), Get(<<{"auth"}, {"me"}>>, "authMe"), Get(<<Chat>>, "listConversations"),
      Get(<<Chat, Free>>, "getConversation"), Get(<<Chat, Free, {"messages"}>>, "listMessages"),
      Get(<<Chat, Free, {"messages"}, {"stream"}, {"active"}>>, "streamActive"),
      Post(<<Chat, Free, {"messages"}, {"stream"}>>, "streamMessage"),
      Post(<<Chat, Free, {"stream"}, {"cancel"}>>, "streamCancel"),
      Get(<<{"ai"}, {"models"}>>, "aiModels"), Get(<<{"integrations"}, {"job-sites"}>>, "jobSites")>>

PythonPaths ==
    On({"POST"}, {<<{"ai"}, {"generate"}>>, <<{"applications"}, Free, {"resume-run"}>>, <<{"jobs"}, Free, {"analyze"}>>,
                  <<{"interviews"}, Free, {"prepare"}>>, <<Doc, Free, {"revisions"}>>, <<Proof, {"import"}>>,
                  <<Work, {"blueprints"}>>, <<Work, Free, {"evidence"}, Free, {"verify"}>>,
                  <<{"operations"}, Free, {"input", "cancel"}>>, <<{"approvals"}>>,
                  <<{"approvals"}, Free, {"decision"}>>, <<Chat, Free, {"share"}>>})
    \cup On({"GET"}, {<<Doc, Free, {"versions"}, Free, {"export"}>>, <<Files, Free, {"profile-draft"}>>,
                      <<{"operations"}, Free>>, <<{"operations"}, Free, {"events"}>>, <<{"approvals"}>>,
                      <<{"approvals"}, Free>>, <<Chat, {"shared"}, Free>>, <<Chat, Free, {"artifacts", "turns"}>>})

\* Lists of isCore by method; what these words begin is forwarded whatever
\* follows, and three words that look like ids are not.
Whole == {"companies", "postings", "profiles", "me", "posts"}
NotIds == {<<"career-evidence", "import">>, <<"projects", "blueprints">>, <<"applications", "import">>}
CorePaths ==
    On({"GET"}, {<<{"auth"}, Free, {"start", "callback"}>>, <<{"billing"}>>, <<{"billing"}, {"ledger"}>>,
                 <<{"ai"}, {"usage"}>>, <<{"ai"}, {"jobs"}, Free>>, <<Chat, Free, {"artifacts"}, Free>>,
                 <<Doc, {"shared"}, Free>>, <<Doc, Free, {"versions"}, Free>>, <<Files, Free, {"content"}>>,
                 <<{"uploads"}, {"images"}, Free>>, <<Proof, Free>>,
                 <<{"experiments"}, Free, {"assignment", "stats", "results"}>>, <<Work>>, <<Work, Free>>,
                 <<{"integrations"}, {"google"}, {"callback", "messages", "events"}>>,
                 <<{"applications"}, Free, {"timeline", "checklist"}>>, <<{"jobs"}, Free, {"analyses"}>>})
    \cup On({"POST"}, {<<{"auth"}, {"apple"}, {"callback", "native"}>>, <<{"auth"}, {"exchange", "refresh", "logout"}>>,
                       <<{"auth"}, {"email"}, {"signup", "verify", "login", "password-reset"}>>,
                       <<{"auth"}, {"email"}, {"password-reset"}, {"confirm"}>>, <<{"auth"}, {"phone"}, {"send", "verify"}>>,
                       <<Chat>>, <<Chat, Free, {"archive", "unarchive", "messages", "attachments"}>>,
                       <<Chat, Free, {"messages"}, {"stream"}>>, <<Chat, Free, {"approvals"}, Free>>,
                       <<{"billing"}, {"checkout", "portal", "webhook", "topup"}>>, <<{"billing"}, {"iap"}, {"verify"}>>,
                       <<{"billing"}, {"webhook"}, {"app-store", "google-play"}>>,
                       <<Doc, Free, {"generate", "edits", "profile", "base-profile", "review", "finalize", "archive"}>>,
                       <<Doc, Free, {"revisions"}, Free, {"apply"}>>, <<Doc, Free, {"exports"}, Free, {"result"}>>,
                       <<{"uploads"}, {"images"}>>, <<Proof, Free, {"archive"}>>, <<{"experiments"}, Free, {"events"}>>,
                       <<Work, Free, {"select"}>>, <<Work, Free, {"runs"}, Free, {"start", "launch", "recover", "result"}>>,
                       <<{"integrations"}, {"google"}, {"connect", "complete", "sync"}>>,
                       <<{"integrations"}, {"google"}, {"messages"}, Free, {"link"}>>,
                       <<{"applications"}, Free, {"submission-drafts"}>>,
                       <<{"internal"}, {"notifications"}, {"ai-done", "run"}>>})
    \cup On({"GET", "POST"}, {<<Doc>>, <<Doc, Free, {"versions", "exports"}>>, <<Files>>, <<Proof>>, <<{"interviews"}>>,
                              <<Work, Free, {"runs", "evidence"}>>, <<{"applications"}>>,
                              <<{"applications"}, Free, {"submissions"}>>, <<{"jobs"}>>, <<{"calendar"}, {"events"}>>})
    \cup On({"GET", "PATCH"}, {<<Doc, Free>>, <<{"interviews"}, Free>>, <<{"applications"}, Free>>, <<{"jobs"}, Free>>})
    \cup On({"GET", "DELETE"}, {<<Files, Free>>, <<{"integrations"}, {"google"}>>})
    \cup On({"PATCH", "DELETE"}, {<<Chat, Free>>, <<{"calendar"}, {"events"}, Free>>})
    \cup On({"POST", "DELETE"}, {<<Doc, Free, {"share"}>>})

IsRecruiting(path) ==
    \/ Head(path) \in Whole \ {"companies"}
    \/ \E p \in {<<{"skills"}>>, <<{"search"}>>, <<{"search"}, {"counts", "trending"}>>, <<{"users"}, Free, {"follow"}>>} :
           Fits(path, p)

\* Without the line for the one of NotIds that is served.
IsCoreByShape(method, path) ==
    \/ path \notin NotIds /\ Serves(CorePaths, method, path)
    \/ Head(path) = "companies"
    \/ IsRecruiting(path)
IsCore(method, path) ==
    \/ path \notin NotIds /\ Serves(CorePaths, method, path)
    \/ method = "POST" /\ path = <<"applications", "import">>
    \/ Head(path) = "companies"
    \/ IsRecruiting(path)

\* A word that could become two behind the proxy, and what only the services'
\* own network may call.
Ambiguous(path) == "%2F" \in ToSet(path)
OwnerOf(method, path) ==
    IF Ambiguous(path) \/ Head(path) = "/internal" THEN "deny"
    ELSE IF Serves(PythonPaths, method, path) THEN "python"
    ELSE IF IsCore(method, path) THEN "core"
    ELSE "deny"

-----------------------------------------------------------------------------
(***************************************************************************)
(* The core Worker: dispatch, in its order.                                *)
(***************************************************************************)

Auth == {"auth"}
Mail == {"email"}
EmailRoutes == <<Post(<<Auth, Mail, {"signup"}>>, "signup"), Post(<<Auth, Mail, {"verify"}>>, "verify"),
                 Post(<<Auth, Mail, {"login"}>>, "login"), Post(<<Auth, Mail, {"password-reset"}>>, "requestReset"),
                 Post(<<Auth, Mail, {"password-reset"}, {"confirm"}>>, "confirmReset")>>
PhoneRoutes == <<Post(<<Auth, {"phone"}, {"send"}>>, "sendPhone"), Post(<<Auth, {"phone"}, {"verify"}>>, "verifyPhone")>>
AppleRoutes == <<Post(<<Auth, {"apple"}, {"callback"}>>, "appleCallback"), Post(<<Auth, {"apple"}, {"native"}>>, "appleNative")>>

Jobs == {"postings"}
PostingRoutes ==
    <<Get(<<Jobs>>, "listPostings"), Post(<<Jobs>>, "createPosting"), Get(<<Jobs, {"facets"}>>, "listPostingFacets"),
      Get(<<{"skills"}>>, "listSkills"), Get(<<Jobs, {"locations"}>>, "listPostingLocations"),
      Post(<<Jobs, Free, {"bookmark"}>>, "bookmarkPosting"), Drop(<<Jobs, Free, {"bookmark"}>>, "unbookmarkPosting"),
      Post(<<Jobs, Free, {"apply"}>>, "applyPosting"), Get(<<{"companies"}, {"me"}, {"postings"}>>, "listCompanyPostings"),
      Post(<<Jobs, Free, {"close"}>>, "closePosting"),
      Get(<<Jobs, Free, {"applicants"}, Free, {"files"}, Free>>, "streamApplicationFile"),
      Get(<<Jobs, Free, {"applicants"}, Free>>, "getApplicant"), Patch(<<Jobs, Free, {"applicants"}, Free>>, "patchApplicant"),
      Get(<<Jobs, Free, {"applicants"}>>, "listApplicants"), Get(<<Jobs, Free, {"applicant-counts"}>>, "postingApplicantCounts"),
      Get(<<Jobs, Free>>, "getPosting"), Patch(<<Jobs, Free>>, "patchPosting")>>
SearchRoutes == <<Get(<<{"search"}, {"counts"}>>, "searchCounts"), Get(<<{"search"}, {"trending"}>>, "searchTrending"),
                  Get(<<{"search"}>>, "search")>>

Me == {"me"}
ProfileRoutes ==
    <<Get(<<{"profiles"}>>, "listProfiles"), Post(<<{"profiles"}, Free, {"offer"}>>, "offerProfile"),
      Get(<<{"profiles"}, Free>>, "getProfile"), Post(<<{"users"}, Free, {"follow"}>>, "followUser"),
      Drop(<<{"users"}, Free, {"follow"}>>, "unfollowUser"), Get(<<Me, {"profile"}>>, "getMyProfile"),
      Patch(<<Me, {"profile"}>>, "patchMyProfile"), Get(<<Me, {"follows", "followers"}>>, "listRelation")>>
Offers == {"offers"}
OfferRoutes ==
    <<Get(<<Me, Offers>>, "listOffers"), Get(<<Me, Offers, Free, {"messages"}>>, "listOfferMessages"),
      Post(<<Me, Offers, Free, {"messages"}>>, "postOfferMessage"), Post(<<Me, Offers, Free, {"accept", "decline"}>>, "decideOffer"),
      Post(<<Me, Offers, Free, {"archive", "unarchive"}>>, "archiveOffer"), Post(<<Me, Offers, Free, {"report"}>>, "reportOffer"),
      Get(<<Me, Offers, Free>>, "getOffer")>>
BlockRoutes == <<Post(<<Me, {"blocks"}>>, "blockUser"), Get(<<Me, {"blocks"}>>, "listBlocks"),
                 Drop(<<Me, {"blocks"}, Free>>, "unblockUser")>>
PostRoutes ==
    <<Get(<<Me, {"posts"}>>, "listMyPosts"), Get(<<Me, {"commented-posts"}>>, "listCommentedPosts"),
      Get(<<{"posts"}>>, "listPosts"), Post(<<{"posts"}>>, "createPost"), Get(<<{"posts"}, Free, {"comments"}>>, "listComments"),
      Post(<<{"posts"}, Free, {"comments"}>>, "createComment"), Get(<<{"posts"}, Free>>, "getPost")>>
MeRoutes ==
    <<Get(<<Me, {"links"}>>, "listLinks"), Post(<<Me, {"links"}>>, "createLink"), Patch(<<Me, {"links"}, Free>>, "updateLink"),
      Drop(<<Me, {"links"}, Free>>, "deleteLink"), Post(<<Me, {"links"}, Free, {"restore"}>>, "restoreLink"),
      Post(<<Me, {"devices"}>>, "registerDevice"), Drop(<<Me, {"devices"}, Free>>, "deleteDevice"),
      Get(<<Me, {"notifications"}, {"unread"}>>, "unreadNotifications"), Get(<<Me, {"notifications"}>>, "listNotifications"),
      Post(<<Me, {"notifications"}, {"read"}>>, "readNotifications"), Get(<<Me, {"settings"}>>, "getSettings"),
      Patch(<<Me, {"settings"}>>, "patchSettings"), Get(<<Me, {"bookmarks"}>>, "listBookmarks"),
      Get(<<Me, {"posting-views"}>>, "listPostingViews"), Get(<<Me, {"posting-document-status"}>>, "listPostingDocumentStatus"),
      Get(<<Me, {"suggested-experiences"}>>, "listSuggestedExperiences"), Get(<<Me, {"career-topics"}>>, "listCareerTopics"),
      Get(<<Me, {"match-chips"}>>, "listMatchChips")>>

\* A member's id that is no UUID is answered with 400, whatever the method.
Firm == {"companies"}
CompanyRoutes ==
    <<Post(<<Firm, {"verify"}>>, "verifyBusiness"), Get(<<Firm, Me>>, "myCompany"), Patch(<<Firm, Me>>, "patchCompany"),
      Get(<<Firm, Me, {"members"}>>, "listMembers"), Get(<<Firm, Me, {"invites"}>>, "listInvites"),
      Post(<<Firm, Me, {"invites"}>>, "invite"), Get(<<Firm, {"invites"}, Free>>, "previewInvite"),
      Post(<<Firm, {"invites"}, Free, {"accept"}>>, "acceptInvite"), Drop(<<Firm, Me, {"members"}, Uuid>>, "removeMember"),
      Patch(<<Firm, Me, {"members"}, Uuid>>, "transferAdmin"), Get(<<Firm, Me, {"members"}, {"name"}>>, "badId"),
      Post(<<Firm, Me, {"members"}, {"name"}>>, "badId"), Patch(<<Firm, Me, {"members"}, {"name"}>>, "badId"),
      Drop(<<Firm, Me, {"members"}, {"name"}>>, "badId")>>
ConsentRoutes == <<Put(<<Me, {"consents"}, {"terms"}>>, "putTerms"), Get(<<Me, {"consents"}>>, "getConsents"),
                   Put(<<Me, {"consents"}>>, "putConsents")>>

Apps == {"applications"}
ApplicationRoutes ==
    <<Get(<<Apps>>, "listApplications"), Post(<<Apps>>, "createApplication"), Post(<<Apps, {"import"}>>, "importApplication"),
      Get(<<Apps, Free>>, "getApplication"), Patch(<<Apps, Free>>, "patchApplication"), Get(<<Apps, Free, {"timeline"}>>, "applicationTimeline"),
      Get(<<Apps, Free, {"checklist"}>>, "applicationChecklist"), Post(<<Apps, Free, {"submission-drafts"}>>, "createSubmissionDraft"),
      Post(<<Apps, Free, {"submissions"}>>, "submitApplication"), Get(<<Apps, Free, {"submissions"}>>, "listSubmissions")>>
SourceRoutes ==
    <<Get(<<Files>>, "listSources"), Post(<<Files>>, "createSource"), Get(<<Files, Free, {"content"}>>, "getSourceContent"),
      Get(<<Files, Free>>, "getSource"), Drop(<<Files, Free>>, "deleteSource")>>
Images == <<{"uploads"}, {"images"}>>
ImageRoutes == <<Post(Images, "uploadImage"), Get(Append(Images, Free), "getImage")>>
EvidenceRoutes == <<Get(<<Proof>>, "listEvidence"), Post(<<Proof>>, "createEvidence"), Get(<<Proof, Free>>, "getEvidence"),
                    Post(<<Proof, Free, {"archive"}>>, "archiveEvidence")>>
Trial == {"experiments"}
ExperimentRoutes == <<Get(<<Trial, Free, {"assignment"}>>, "getAssignment"), Post(<<Trial, Free, {"events"}>>, "recordEvent"),
                      Get(<<Trial, Free, {"stats"}>>, "experimentStats"), Get(<<Trial, Free, {"results"}>>, "experimentResults")>>
InterviewRoutes == <<Get(<<{"interviews"}>>, "listInterviews"), Post(<<{"interviews"}>>, "createInterview"),
                     Get(<<{"interviews"}, Free>>, "getInterview"), Patch(<<{"interviews"}, Free>>, "patchInterview")>>
RunPaths == <<Work, Free, {"runs"}>>
ProjectRoutes ==
    <<Get(<<Work>>, "listProjects"), Post(RunPaths \o <<Free, {"start"}>>, "startRun"), Post(RunPaths \o <<Free, {"launch"}>>, "reportLaunch"),
      Post(RunPaths \o <<Free, {"recover"}>>, "recoverRun"), Post(RunPaths \o <<Free, {"result"}>>, "reportResult"),
      Get(<<Work, Free>>, "getProject"), Post(<<Work, Free, {"select"}>>, "selectProject"), Get(RunPaths, "listRuns"),
      Post(RunPaths, "createRun"), Get(<<Work, Free, {"evidence"}>>, "listProjectEvidence"),
      Post(<<Work, Free, {"evidence"}>>, "createProjectEvidence")>>
ToGoogle == <<{"integrations"}, {"google"}>>
IntegrationRoutes ==
    <<Get(ToGoogle, "googleStatus"), Drop(ToGoogle, "googleDisconnect"), Post(Append(ToGoogle, {"connect"}), "googleConnect"),
      Get(Append(ToGoogle, {"callback"}), "googleCallback"), Post(Append(ToGoogle, {"complete"}), "googleComplete"),
      Post(Append(ToGoogle, {"sync"}), "googleSync"), Get(Append(ToGoogle, {"messages"}), "googleMessages"),
      Get(Append(ToGoogle, {"events"}), "googleEvents"), Post(ToGoogle \o <<{"messages"}, Free, {"link"}>>, "googleLinkMessage")>>
DocumentRoutes ==
    <<Get(<<Doc>>, "listDocuments"), Post(<<Doc>>, "createDocument"), Get(<<Doc, Free, {"versions"}>>, "listVersions"),
      Post(<<Doc, Free, {"versions"}>>, "createVersion"), Get(<<Doc, Free, {"versions"}, Free>>, "getVersion"),
      Post(<<Doc, Free, {"revisions"}, Free, {"apply"}>>, "applyRevision"), Post(<<Doc, Free, {"exports"}, Free, {"result"}>>, "recordExportResult"),
      Get(<<Doc, {"shared"}, Free>>, "readShare"), Post(<<Doc, Free, {"share"}>>, "shareDocument"), Drop(<<Doc, Free, {"share"}>>, "revokeShare"),
      Post(<<Doc, Free, {"base-profile"}>>, "setBaseProfile"), Post(<<Doc, Free, {"profile"}>>, "convertProfile"),
      Get(<<Doc, Free>>, "getDocument"), Patch(<<Doc, Free>>, "patchDocument"), Post(<<Doc, Free, {"edits"}>>, "applyEdits"),
      Post(<<Doc, Free, {"review"}>>, "reviewDocument"), Post(<<Doc, Free, {"finalize"}>>, "finalizeDocument"),
      Post(<<Doc, Free, {"archive"}>>, "archiveDocument"), Get(<<Doc, Free, {"exports"}>>, "listExports"),
      Post(<<Doc, Free, {"exports"}>>, "createExport")>>

Bill == {"billing"}
OwnRoutes ==
    <<Post(<<Chat>>, "createConversation"), Patch(<<Chat, Free>>, "patchConversation"), Drop(<<Chat, Free>>, "deleteConversation"),
      Post(<<Chat, Free, {"archive", "unarchive"}>>, "archiveConversation"), Post(<<Chat, Free, {"messages"}>>, "postMessage"),
      Post(<<Chat, Free, {"messages"}, {"stream"}>>, "postMessage"), Post(<<Chat, Free, {"attachments"}>>, "postAttachment"),
      Post(<<Chat, Free, {"approvals"}, Free>>, "resolveApproval"), Get(<<Chat, Free, {"artifacts"}, Free>>, "getArtifact"),
      Get(<<Bill>>, "billingStatus"), Post(<<Bill, {"checkout"}>>, "checkout"), Post(<<Bill, {"topup"}>>, "topup"),
      Post(<<Bill, {"portal"}>>, "portal"), Post(<<Bill, {"iap"}, {"verify"}>>, "verifyIap"), Get(<<Bill, {"ledger"}>>, "ledger"),
      Post(<<Bill, {"webhook"}>>, "webhook"), Post(<<Bill, {"webhook"}, {"app-store"}>>, "appleWebhook"),
      Post(<<Bill, {"webhook"}, {"google-play"}>>, "googleWebhook"), Get(<<{"ai"}, {"usage"}>>, "listUsage"),
      Get(<<{"ai"}, {"jobs"}, Free>>, "getQueueJob"), Post(<<Doc, Free, {"generate"}>>, "enqueueDocumentGenerate"),
      Post(<<Jobs, Free, {"fit"}>>, "enqueueFit"), Get(<<{"jobs"}>>, "listJobs"), Post(<<{"jobs"}>>, "createJob"),
      Get(<<{"jobs"}, Free, {"analyses"}>>, "listAnalyses"), Get(<<{"jobs"}, Free>>, "getJob"), Patch(<<{"jobs"}, Free>>, "patchJob")>>
EventRoutes == <<Get(<<{"calendar"}, {"events"}>>, "listEvents"), Post(<<{"calendar"}, {"events"}>>, "createEvent"),
                 Patch(<<{"calendar"}, {"events"}, Free>>, "patchEvent"), Drop(<<{"calendar"}, {"events"}, Free>>, "deleteEvent")>>

CoreRoutes ==
    <<Get(<<Auth, Free, {"start"}>>, "oauthStart"), Get(<<Auth, {"apple"}, {"callback"}>>, "badCallback"),
      Get(<<Auth, Free, {"callback"}>>, "oauthCallback"), Post(<<Auth, {"exchange"}>>, "exchange"),
      Post(<<Auth, {"refresh"}>>, "refresh"), Post(<<Auth, {"logout"}>>, "logout"), Get(<<Auth, Me>>, "me"),
      Drop(<<Me>>, "deleteAccount")>>
    \o EmailRoutes \o PhoneRoutes \o AppleRoutes \o OwnRoutes \o PostingRoutes \o SearchRoutes \o ProfileRoutes
    \o OfferRoutes \o BlockRoutes \o PostRoutes \o MeRoutes \o CompanyRoutes \o EventRoutes \o ConsentRoutes
    \o ApplicationRoutes \o SourceRoutes \o ImageRoutes \o EvidenceRoutes \o ExperimentRoutes \o InterviewRoutes
    \o ProjectRoutes \o IntegrationRoutes \o DocumentRoutes
JobRoutes == <<Post(<<{"internal"}, {"notifications"}, {"ai-done"}>>, "recordAiDone"),
               Post(<<{"internal"}, {"notifications"}, {"run"}>>, "runNotificationJobs")>>

\* isPublic: what is answered whoever calls, and what a guest may read.
GuestReads ==
    On({"GET"}, {<<Jobs>>, <<Jobs, {"locations", "facets"}>>, <<{"skills"}>>, <<{"search"}>>,
                 <<{"search"}, {"counts", "trending"}>>, <<Jobs, Uuid>>, <<Jobs, Uuid, {"applicant-counts"}>>})
PublicPaths ==
    On({"GET"}, {<<Auth, Free, {"start", "callback"}>>, <<Firm, {"invites"}, Free>>, Append(Images, Free),
                 Append(ToGoogle, {"callback"}), <<Doc, {"shared"}, Free>>})
    \cup On({"POST"}, {<<Auth, {"apple"}, {"callback", "native"}>>, <<Auth, Mail, {"password-reset"}, {"confirm"}>>,
                       <<Auth, Mail, {"signup", "verify", "login", "password-reset"}>>, <<Auth, {"phone"}, {"send", "verify"}>>})
    \cup On({"GET", "POST", "PATCH", "PUT", "DELETE"},
            {<<Auth, {"exchange", "refresh", "logout"}>>, <<Bill, {"webhook"}>>, <<Bill, {"webhook"}, {"app-store", "google-play"}>>})

\* What the AI worker may do in the name of a user.
ActAsRoutes ==
    On({"GET", "POST"}, {<<Jobs>>, <<{"calendar"}, {"events"}>>, <<{"posts"}>>})
    \cup On({"GET", "PATCH"}, {<<Jobs, Free>>, <<Jobs, Free, {"applicants"}, Free>>, <<Me, {"profile"}>>})
    \cup On({"POST", "DELETE"}, {<<Jobs, Free, {"bookmark"}>>})
    \cup On({"PATCH", "DELETE"}, {<<{"calendar"}, {"events"}, Free>>})
    \cup On({"GET"}, {<<Jobs, Free, {"applicants", "applicant-counts"}>>, <<Me, {"bookmarks", "offers"}>>, <<Me, Offers, Free>>,
                      <<Firm, Me>>, <<Firm, Me, {"postings"}>>, <<{"profiles"}>>, <<{"profiles"}, Free>>})
    \cup On({"POST"}, {<<Jobs, Free, {"apply", "close"}>>, <<Me, Offers, Free, {"accept", "decline", "messages"}>>,
                       <<{"posts"}, Free, {"comments"}>>, <<{"users"}, Free, {"follow"}>>, <<{"profiles"}, Free, {"offer"}>>,
                       <<Doc, Free, {"edits"}>>})

-----------------------------------------------------------------------------
(***************************************************************************)
(* The Python API: the routers main.py mounts.                             *)
(***************************************************************************)

PythonRoutes ==
    <<Post(<<Proof, {"import"}>>, "import_evidence"), Get(<<Files, Free, {"profile-draft"}>>, "get_source_profile_draft"),
      Post(<<{"jobs"}, Free, {"analyze"}>>, "analyze_job"), Post(<<Apps, Free, {"resume-run"}>>, "resume_run"),
      Get(<<Doc, Free, {"versions"}, Free, {"export"}>>, "export_version"), Post(<<Doc, Free, {"revisions"}>>, "create_revision"),
      Post(<<Work, {"blueprints"}>>, "generate_blueprints"), Post(<<Work, Free, {"evidence"}, Free, {"verify"}>>, "verify_project_evidence"),
      Post(<<{"interviews"}, Free, {"prepare"}>>, "prepare_interview"), Post(<<Chat, Free, {"share"}>>, "share_conversation"),
      Get(<<Chat, {"shared"}, Free>>, "get_shared_conversation"), Get(<<Chat, Free, {"artifacts"}>>, "list_conversation_artifacts"),
      Get(<<Chat, Free, {"turns"}>>, "list_conversation_turns"), Get(<<{"approvals"}>>, "list_approvals"),
      Post(<<{"approvals"}>>, "create_approval"), Get(<<{"approvals"}, Free>>, "get_approval"),
      Post(<<{"approvals"}, Free, {"decision"}>>, "decide_approval"), Get(<<{"operations"}, Free>>, "get_operation"),
      Post(<<{"operations"}, Free, {"input"}>>, "operation_input"), Post(<<{"operations"}, Free, {"cancel"}>>, "cancel_operation"),
      Get(<<{"operations"}, Free, {"events"}>>, "operation_events"), Get(<<{"ai"}, {"models"}>>, "ai_models"),
      Post(<<{"ai"}, {"generate"}>>, "ai_generate"), Post(<<{"/internal"}, {"chat"}, {"schedule"}>>, "schedule_chat"),
      Get(<<{"healthz"}>>, "_healthz")>>

PythonPublic == On({"GET"}, {<<{"healthz"}>>, <<Chat, {"shared"}, Free>>})

-----------------------------------------------------------------------------
(***************************************************************************)
(* A call.  "as" is whom its headers speak for: nobody, a user, the AI     *)
(* worker in the name of a user (the internal secret and act-as headers),  *)
(* or the scheduler of notifications (a bearer token that is no user's).   *)
(***************************************************************************)

\* The handler of a service answers, for a user or not.  (A POST of a user is
\* answered once for its key: Idempotency.)
AnswerBy(r, by, handler, user) == GoOn(r, "answered", [by |-> by, to |-> handler, user |-> user])

Call(r) == req[r].arg

\* The gateway reads its own routes' user itself, and keeps the AI worker's
\* headers only for what goes to the core Worker.
Gateway(r) ==
    /\ At(r, "call")
    /\ LET c == Call(r)  own == Answering(GatewayRoutes, c.method, c.path)  owner == OwnerOf(c.method, c.path) IN
       \/ own = "streamMessage" /\ GoOn(r, "core", IF c.as = "worker" THEN "nobody" ELSE c.as)
       \/ own = "health" /\ AnswerBy(r, "gateway", own, "nobody")
       \/ /\ own \notin {Nil, "streamMessage", "health"}
          /\ IF c.as = "user" THEN AnswerBy(r, "gateway", own, "user") ELSE Refuse(r)
       \/ own = Nil /\ owner = "deny" /\ Refuse(r)
       \/ own = Nil /\ owner = "core" /\ GoOn(r, "core", c.as)
       \/ own = Nil /\ owner = "python" /\ GoOn(r, "python", IF c.as = "worker" THEN "nobody" ELSE c.as)

\* ApiMiddleware.
Python(r) ==
    /\ At(r, "python")
    /\ LET c == Call(r)  handler == Answering(PythonRoutes, c.method, c.path) IN
       IF Serves(PythonPublic, c.method, c.path) THEN AnswerBy(r, "python", handler, "nobody")
       ELSE IF req[r].v = "user" THEN AnswerBy(r, "python", handler, "user") ELSE Refuse(r)

\* handle.
Core(r) ==
    /\ At(r, "core")
    /\ LET c == Call(r)  as == req[r].v  job == Answering(JobRoutes, c.method, c.path)
           handler == Answering(CoreRoutes, c.method, c.path) IN
       IF job # Nil THEN IF as = "job" THEN AnswerBy(r, "core", job, "nobody") ELSE Refuse(r)
       ELSE IF as = "worker" THEN
           IF Serves(ActAsRoutes, c.method, c.path) THEN AnswerBy(r, "core", handler, "user") ELSE Refuse(r)
       ELSE IF Serves(PublicPaths, c.method, c.path) THEN AnswerBy(r, "core", handler, "nobody")
       ELSE IF as = "nobody" /\ Serves(GuestReads, c.method, c.path) THEN AnswerBy(r, "core", handler, "guest")
       ELSE IF as = "user" THEN AnswerBy(r, "core", handler, "user")
       ELSE Refuse(r)

\* The paths tried: every route and every path of a list, with an id or a name
\* for each word that is free.
RoutePatterns == {e[2] : e \in PythonPaths \cup CorePaths \cup GuestReads \cup PublicPaths \cup ActAsRoutes}
    \cup {e.path : e \in ToSet(GatewayRoutes \o CoreRoutes \o JobRoutes \o PythonRoutes)}
PathsOf(pattern) ==
    FoldLeft(LAMBDA paths, words : {Append(p, w) : p \in paths, w \in IF words = Free THEN {"id", "name"} ELSE words},
             {<<>>}, pattern)
Paths == UNION {PathsOf(p) : p \in RoutePatterns} \cup {<<"documents", "%2F">>, <<"me", "name">>, <<"name">>}

\* One call in a behaviour.
ArriveCall(r) ==
    /\ \A s \in Requests : At(s, "new")
    /\ \E method \in {"GET", "POST", "PATCH", "PUT", "DELETE"}, path \in Paths, as \in {"nobody", "user", "worker", "job"} :
           Begin(r, "call", [method |-> method, path |-> path, as |-> as])

RoutingStep(r) == ArriveCall(r) \/ Gateway(r) \/ Python(r) \/ Core(r)

\* The handlers that look for no user, and those that take guests.
ForNobody == {"health", "oauthStart", "badCallback", "oauthCallback", "exchange", "refresh", "logout", "signup", "verify",
    "login", "requestReset", "confirmReset", "sendPhone", "verifyPhone", "appleCallback", "appleNative", "previewInvite",
    "getImage", "googleCallback", "readShare", "webhook", "appleWebhook", "googleWebhook", "recordAiDone",
    "runNotificationJobs", "_healthz", "get_shared_conversation"}
ForGuests == {"listPostings", "listPostingFacets", "listPostingLocations", "listSkills", "search", "searchCounts",
    "searchTrending", "getPosting", "postingApplicantCounts"}

\* The paths of the core Worker's routes that lead to their handlers, but for
\* the one that the gateway answers itself.
EveryHandlerIsReached ==
    \A route \in ToSet(CoreRoutes \o JobRoutes) \ {Get(<<Auth, Me>>, "me")} :
        \E path \in PathsOf(route.path) :
            /\ OwnerOf(route.on, path) = "core" \/ Answering(GatewayRoutes, route.on, path) = "streamMessage"
            /\ Answering(CoreRoutes \o JobRoutes, route.on, path) = route.to

\* The lists agree.  What the gateway forwards has a handler in the service it is
\* forwarded to, but for the words whose paths are all forwarded; a handler that
\* looks for no user is reached without one, and any other never is, except by
\* a guest who may read it; whatever the AI worker may do is there to be done;
\* a user is refused nothing that is forwarded but the scheduler's routes; and
\* each of the core Worker's handlers has a path on which it is reached.
CallsFindTheirHandler ==
    /\ EveryHandlerIsReached
    /\ \A r \in Requests :
        LET c == Call(r)  a == req[r].v IN
        /\ At(r, "answered") =>
              /\ a.to = Nil => c.as # "worker" /\ (IsRecruiting(c.path) \/ Head(c.path) = "companies")
              /\ a.user = "nobody" <=> a.to \in ForNobody
              /\ a.user = "guest" => a.to \in ForGuests
        /\ req[r].do = "call" /\ At(r, "refused") /\ OwnerOf(c.method, c.path) # "deny" /\ c.as \in {"nobody", "user"} =>
              \/ Answering(JobRoutes, c.method, c.path) # Nil
              \/ c.as = "nobody" /\ Answering(CoreRoutes, c.method, c.path) \notin ForNobody
=============================================================================
