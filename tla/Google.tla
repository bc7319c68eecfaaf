------------------------------- MODULE Google -------------------------------
(***************************************************************************)
(* The Google connection of an account: routes/integrations.ts.  What is   *)
(* synchronised is one event of the calendar at Google, whose version n is *)
(* its n-th change there; a sync token stands for the changes it was given *)
(* after.  Messages are upserted and wiped by the statements that do it to *)
(* events, and have no token; they and the row of the operation, which     *)
(* tells the client how its sync goes, are left out.  A connection is      *)
(* named by the request that completed it: its tokens and scopes.          *)
(***************************************************************************)
EXTENDS Companies

CONSTANT MaxChanges     \* bound: changes of the event at Google

ConnectionRow == [grant : Users, token : Nat \cup {Nil}]

ASSUME GoogleAssumption == Nil \notin Nat \cup ConnectionRow

\* integration_codes, google_integrations, and the row of the event in
\* calendar_events with source GOOGLE; then what Google has: the changes of
\* the event, and the sync token up to which it answers 410.
GoogleTables ==
    [asked  |-> AsTable(Nil),                       \* oauth_states.user_id
     icode  |-> AsTable([state |-> "none", user |-> Nil]),
     google |-> AsTable(Nil),
     synced |-> AsTable(Nil),
     relisted |-> AsTable(FALSE),   \* a history: listed without a token over a row
     change |-> [n \in {} |-> "gone"],
     stale  |-> 0]

Latest == Cardinality(DOMAIN db.change)
Version(n) == IF n = 0 \/ db.change[n] = "gone" THEN Nil ELSE n

-----------------------------------------------------------------------------
(***************************************************************************)
(* connect, callback, complete.                                            *)
(***************************************************************************)

GoogleConnect(r) ==
    /\ At(r, "googleConnect")
    /\ End(r, [db EXCEPT !.oauth[r] = "open", !.asked[r] = By(r)])

\* DELETE ... RETURNING, whatever the state was asked for.
GoogleCallback(r) ==
    /\ At(r, "googleCallback")
    /\ LET s == req[r].arg.state IN
       IF db.oauth[s] # "open" THEN Refuse(r)
       ELSE \E next \in {"googleCode", "refused"} :
               /\ next = "googleCode" => db.asked[s] # Nil
               /\ Do(r, next, db.asked[s], [db EXCEPT !.oauth[s] = "gone"])

\* Google exchanges the code, or does not.
GoogleCode(r) ==
    /\ At(r, "googleCode")
    /\ \/ Refuse(r)
       \/ End(r, [db EXCEPT !.icode[r] = [state |-> "open", user |-> req[r].v]])

GoogleComplete(r) ==
    /\ At(r, "googleComplete")
    /\ LET code == db.icode[req[r].arg.code] IN
       \/ code.state = "open" /\ code.user = By(r) /\ GoOn(r, "useIntegrationCode", Nil)
       \/ Refuse(r)

IntegrationCodeUnused(i) == db.icode[i].state = "open"
UseIntegrationCode(r) ==
    /\ At(r, "useIntegrationCode")
    /\ LET i == req[r].arg.code IN
       IF IntegrationCodeUnused(i)
       THEN Do(r, "connection", Nil, [db EXCEPT !.icode[i].state = "used"]) ELSE Refuse(r)

\* putIntegration: the whole row, inserted or replaced.
PutIntegration(r, gi) == [db EXCEPT !.google[By(r)] = gi]

Connection(r) ==
    /\ At(r, "connection")
    /\ End(r, PutIntegration(r, [grant |-> r, token |-> Nil]))

-----------------------------------------------------------------------------
(***************************************************************************)
(* disconnect.                                                             *)
(***************************************************************************)

\* The tokens are revoked at Google if they can be, before the rows go.
GoogleDisconnect(r) ==
    /\ At(r, "googleDisconnect")
    /\ IF db.google[By(r)] = Nil THEN End(r, db) ELSE GoOn(r, "wipe", Nil)

Wiped(u) == [db EXCEPT !.google[u] = Nil, !.synced[u] = Nil, !.relisted[u] = FALSE]
Wipe(r) == At(r, "wipe") /\ End(r, Wiped(By(r)))

-----------------------------------------------------------------------------
(***************************************************************************)
(* sync.                                                                   *)
(***************************************************************************)

\* The access token is good, is to be refreshed, or cannot be had.
GoogleSync(r) ==
    /\ At(r, "googleSync")
    /\ \/ Refuse(r)
       \/ /\ db.google[By(r)] # Nil
          /\ \E next \in {"list", "refreshed"} : GoOn(r, next, db.google[By(r)])

Refreshed(r) ==
    /\ At(r, "refreshed")
    /\ Refuse(r) \/ Do(r, "list", req[r].v, PutIntegration(r, req[r].v))

\* listEvents: what changed after the token, deletions too; or, without one or
\* when Google forgot it, what is there.  Pages after the first are not read, and
\* the next token is on the last.
Incremental(token) == token # Nil /\ token > db.stale
Listed(token) ==
    IF Incremental(token) THEN IF token = Latest THEN {} ELSE {Version(Latest)}
    ELSE {Version(Latest)} \ {Nil}

List(r) ==
    /\ At(r, "list")
    /\ LET gi == req[r].v
           over == ~Incremental(gi.token) /\ db.synced[By(r)] # Nil IN
       \/ Refuse(r)
       \/ \E events \in {{}, Listed(gi.token)}, token \in {gi.token, Latest} :
             /\ token # gi.token => events = Listed(gi.token)
             /\ Do(r, "persist", [gi |-> [gi EXCEPT !.token = token], events |-> events],
                   [db EXCEPT !.relisted[By(r)] = @ \/ over])

\* SYNC_SQL: a cancelled event's row is deleted, another's upserted.
WithoutCancelled(events) == events \ {Nil}
Written(events) == events
Persist(r) ==
    /\ At(r, "persist")
    /\ \/ Refuse(r)
       \/ Written(req[r].v.events) = {} /\ GoOn(r, "syncRow", req[r].v)
       \/ \E n \in Written(req[r].v.events) :
             Do(r, "syncRow", req[r].v, [db EXCEPT !.synced[By(r)] = n])

\* The operation may still fail to be closed.
SyncRow(r) ==
    /\ At(r, "syncRow")
    /\ \/ Refuse(r)
       \/ \E answer \in {"ok", "refused"} : Do(r, answer, Nil, PutIntegration(r, req[r].v.gi))

-----------------------------------------------------------------------------
\* At Google the event is changed or deleted, and sync tokens expire.  Only List
\* sees it, so it is enough that it happens when a request is about to.
AtGoogle ==
    /\ \E r \in Requests : At(r, "list")
    /\ UNCHANGED <<req, prior, mix>>
    /\ \/ /\ Latest < MaxChanges
          /\ \E what \in {"there", "gone"} :
                /\ what = "gone" => Version(Latest) # Nil
                /\ db' = [db EXCEPT !.change = [n \in 1..(Latest + 1) |->
                                                  IF n > Latest THEN what ELSE db.change[n]]]
       \/ db.stale < Latest /\ db' = [db EXCEPT !.stale = Latest]

ArriveGoogle(r) ==
    \/ \E u \in Accounts : SignedIn(u) /\
          \/ \E h \in {"googleConnect", "googleDisconnect", "googleSync"} : Begin(r, h, [by |-> u])
          \/ \E i \in Users : db.icode[i].state # "none"
                              /\ Begin(r, "googleComplete", [by |-> u, code |-> i])
    \/ \E s \in Users : db.oauth[s] # "none" /\ Begin(r, "googleCallback", [state |-> s])

GoogleStep(r) ==
    \/ ArriveGoogle(r) \/ GoogleConnect(r) \/ GoogleCallback(r) \/ GoogleCode(r)
    \/ GoogleComplete(r) \/ UseIntegrationCode(r) \/ Connection(r) \/ GoogleDisconnect(r)
    \/ Wipe(r) \/ GoogleSync(r) \/ Refreshed(r) \/ List(r)
    \/ Persist(r) \/ SyncRow(r)

-----------------------------------------------------------------------------
(***************************************************************************)
(* Properties.                                                             *)
(***************************************************************************)

Overlaps(u) ==
    \E r \in Doing("googleSync") :
        By(r) = u /\ \E s \in Requests : req[s].do \in {"googleSync", "googleComplete", "googleDisconnect"}
                                         /\ By(s) = u /\ Met(r, s)

\* A connection's sync token never runs ahead of the calendar: the row of the
\* event is as Google had it when the token was given or later, and no row is
\* left without a connection, nor does a connection come back that was replaced
\* or ended.  The exceptions: a sync that ran beside another request about
\* the connection, whose row it writes back as it read it; and an event deleted at
\* Google, of which a listing without a token does not tell, when one is made
\* again: after another connection or an expired token, or when there was none.
CalendarIsSynced ==
    \A u \in Accounts :
        \/ Overlaps(u)
        \/ db.google[u] = Nil /\ db.synced[u] = Nil
        \/ /\ db.google[u] # Nil
           /\ \A r \in Doing("googleComplete") : At(r, "ok") /\ By(r) = u =>
                 db.google[u].grant \notin prior[r] \cup Accounts
           /\ LET first == IF db.google[u].token = Nil THEN 0 ELSE db.google[u].token IN
              \/ \E n \in first..Latest : db.synced[u] = Version(n)
              \/ /\ db.relisted[u]
                 /\ \E n \in 1..first : db.change[n] = "gone" /\ db.synced[u] \in 1..(n-1)
=============================================================================
