------------------------------ MODULE Listings ------------------------------
(***************************************************************************)
(* Listings: the GET handlers of the core Worker and the gateway that hand *)
(* out rows page by page.  Every page is a request and a statement of its  *)
(* own: rows come, leave and change between two pages of one client.  The  *)
(* filters of a listing are left out: a row is listed or it is not.        *)
(***************************************************************************)
EXTENDS CoreWorker, Sequences

CONSTANTS
    Uuids,      \* ids of listed rows, as the numbers that sort like them
    Moments,    \* values of created_at and updated_at; a handler writes the
                \* time it read when it began, so that a later write may
                \* carry an earlier one
    PageLimit   \* rows of a page

ASSUME ListingAssumption ==
    /\ Uuids \subseteq Int /\ IsFiniteSet(Uuids)
    /\ Moments \subseteq Int
    /\ PageLimit \in Nat \ {0}

\* A listed row; "rank" is what relevance, popularity or a deadline sort by,
\* "hidden" marks an upload listSources does not show, "by" is the request that
\* wrote the row last, Nil if it was there before, a history.
ListRow(id, at, by) ==
    [created |-> at, updated |-> at, rank |-> id % 2, hidden |-> id = 2, by |-> by]
ListedRow ==
    [created : Int, updated : Int, rank : Int, hidden : BOOLEAN, by : Requests \cup {Nil}]
ASSUME RowAssumption == Nil \notin ListedRow \cup [at : Int, id : Int] \cup {"created", "updated"}

ListTables == [listed |-> [i \in Uuids |-> Nil]]

Listed == {i \in Uuids : db.listed[i] # Nil}

-----------------------------------------------------------------------------
(***************************************************************************)
(* What each handler sorts by, descending and then by id; the column it    *)
(* compares with the cursor, if it does; the column it puts into the next  *)
(* cursor; and whether it drops rows after the LIMIT.                      *)
(***************************************************************************)
Listing(order, after, stamp) ==
    [order |-> order, after |-> after, stamp |-> stamp, drops |-> FALSE]

Keyset(column) == Listing(<<column>>, column, column)
Ranked(column) == Listing(<<"rank", column>>, column, column)
Uncursored     == Listing(<<"rank", "created">>, Nil, "created")

listPage == Keyset("created")

listApplications == listPage
listDocuments    == listPage
listProjects     == listPage
googleMessages   == listPage
googleEvents     == listPage
listSubmissions  == listPage
listVersions     == listPage
listExports      == listPage
listRuns         == listPage
applicationTimeline == listPage
listProjectEvidence == listPage

listJobs            == Keyset("created")
listAnalyses        == Keyset("created")
listLinks           == Keyset("created")
listNotifications   == Keyset("created")
listBookmarks       == Keyset("created")
listComments        == Keyset("created")
listMyPosts         == Keyset("created")
listCommentedPosts  == Keyset("created")
listOffers          == Keyset("created")
listOfferMessages   == Keyset("created")
listBlocks          == Keyset("created")
listRelation        == Keyset("created")
listEvents          == Keyset("created")
listInterviews      == Keyset("created")
listEvidence        == Keyset("created")
ledger              == Keyset("created")
listUsage           == Keyset("created")
listCompanyPostings == Keyset("created")
listApplicants      == Keyset("created")    \* applied_at
listMessages        == Keyset("created")

listConversations == Keyset("updated")
listPostingViews  == Keyset("updated")      \* the last day it was viewed

listProfiles(q, sort) == IF q /\ sort # "latest" THEN Ranked("updated") ELSE Keyset("updated")

listPosts(sort)      == IF sort = "latest" THEN Keyset("created") ELSE Uncursored
listPostings(sort)   == IF sort = "latest" THEN Keyset("created") ELSE Uncursored
searchPosts(sort)    == IF sort = "latest" THEN Keyset("created") ELSE Ranked("created")
searchPostings(sort) == IF sort = "latest" THEN Keyset("created") ELSE Ranked("created")

listSources == [Keyset("created") EXCEPT !.drops = TRUE]

Sorts == {"latest", "relevance", "popular", "deadline"}

Listings ==
    {listApplications, listDocuments, listProjects, googleMessages, googleEvents, listSubmissions,
     listVersions, listExports, listRuns, applicationTimeline, listProjectEvidence, listJobs, listAnalyses, listLinks,
     listNotifications, listBookmarks, listComments, listMyPosts, listCommentedPosts, listOffers,
     listOfferMessages, listBlocks, listRelation, listEvents, listInterviews, listEvidence, ledger,
     listUsage, listCompanyPostings, listApplicants, listMessages, listConversations, listPostingViews,
     listSources}
    \cup {listProfiles(q, sort) : q \in BOOLEAN, sort \in Sorts}
    \cup UNION {{listPosts(sort), listPostings(sort), searchPosts(sort), searchPostings(sort)} : sort \in Sorts}

-----------------------------------------------------------------------------
(***************************************************************************)
(* A client that asks for page after page.                                 *)
(***************************************************************************)

\* i is sorted before j.
Precedes(l, i, j) ==
    LET a == db.listed[i]  b == db.listed[j]
        tied(n) == \A k \in 1..n : a[l.order[k]] = b[l.order[k]] IN
    \/ \E k \in 1..Len(l.order) : tied(k - 1) /\ a[l.order[k]] > b[l.order[k]]
    \/ tied(Len(l.order)) /\ i > j

\* The first n of some rows.
First(l, rows, n) == {i \in rows : Cardinality({j \in rows : Precedes(l, j, i)}) < n}

\* (column, id) < (cursor.at, cursor.id)
PastColumn(l, i, cursor) == db.listed[i][l.after] < cursor.at
Past(l, i, cursor) ==
    LET at == db.listed[i][l.after] IN
    at < cursor.at \/ (at = cursor.at /\ i < cursor.id)

\* pageResult: one row more than the page holds tells that there is a next page.
ReadPage(r) ==
    /\ At(r, "list") \/ At(r, "nextPage")
    /\ LET l == req[r].arg
           v == IF At(r, "list") THEN [cursor |-> Nil, there |-> db.listed, seen |-> {}, again |-> {}]
                ELSE req[r].v
           due == IF v.cursor = Nil \/ l.after = Nil THEN Listed
                  ELSE {i \in Listed : Past(l, i, v.cursor)}
           rows == {i \in First(l, due, PageLimit + 1) : ~(l.drops /\ db.listed[i].hidden)}
           page == First(l, rows, PageLimit)
           last == CHOOSE i \in page : \A j \in page \ {i} : Precedes(l, j, i)
           more == Cardinality(rows) > PageLimit IN
       GoOn(r, IF more THEN "nextPage" ELSE "listed",
            [v EXCEPT !.seen = @ \cup page, !.again = @ \cup (page \cap v.seen),
                      !.cursor = IF more THEN [at |-> db.listed[last][l.stamp], id |-> last] ELSE Nil])

\* A statement of another handler: a row is inserted, leaves the listing, or is
\* written, which moves it where updated_at or a rank counts.
ChangeRow(r) ==
    /\ At(r, "changeRow")
    /\ \E i \in Uuids :
          \/ /\ db.listed[i] = Nil
             /\ \E at \in Moments : End(r, [db EXCEPT !.listed[i] = ListRow(i, at, r)])
          \/ /\ db.listed[i] # Nil
             /\ End(r, [db EXCEPT !.listed[i] = Nil])
          \/ /\ db.listed[i] # Nil
             /\ \E at \in Moments, rank \in {0, 1} :
                   End(r, [db EXCEPT !.listed[i] = [@ EXCEPT !.updated = at, !.rank = rank, !.by = r]])

\* Bound: one client, since what another reads changes nothing.
ListStep(r) ==
    \/ (\A s \in Requests : req[s].do # "list") /\ \E l \in Listings : Begin(r, "list", l)
    \/ Begin(r, "changeRow", Nil)
    \/ ReadPage(r) \/ ChangeRow(r)

\* Where the cursor does not say where the last page ended, or rows are dropped
\* after they were counted.
Approximate ==
    {listProfiles(TRUE, "relevance"), searchPosts("relevance"), searchPostings("relevance"),
     listPosts("popular"), listPostings("popular"), listPostings("deadline"), listSources}

\* A client that has read to the last page was shown every row that was listed
\* all along and not written meanwhile, and none of them twice: whatever was
\* inserted, removed or moved between its pages, with rows of one time on
\* either side of a cursor.
PagesAreComplete ==
    \A r \in Requests :
        At(r, "listed") /\ req[r].arg \notin Approximate =>
            \A i \in Listed :
                db.listed[i] = req[r].v.there[i] => i \in req[r].v.seen /\ i \notin req[r].v.again
=============================================================================
