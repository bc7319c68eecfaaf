----------------------------- MODULE CoreWorker -----------------------------
(***************************************************************************)
(* The requests of the core Worker.  A request runs one handler, which     *)
(* awaits its statements one after the other; there is no transaction      *)
(* around them, so that between two statements of one request any other    *)
(* request may run any of its own, and the runtime may drop a request      *)
(* there.  The modules of the routes extend this one: "db" is a record     *)
(* with a field for every table they use, and every action is a statement. *)
(***************************************************************************)
EXTENDS Integers, FiniteSets

CONSTANTS
    Requests,       \* the requests of a behaviour; rows a request inserts are
                    \* named by the request, which stands for their fresh ids
    Mixes,          \* bound: the sets of handlers explored against each other,
                    \* with "killed" where requests may be dropped
    MaxKills,       \* bound: requests dropped between two statements
    Nil

ASSUME CoreWorkerAssumption == MaxKills \in Nat /\ Nil \notin Requests

VARIABLES
    db,     \* the tables
    req,    \* of each request: the handler, the statement it is at, its input
            \* and what it has read
    prior,  \* the requests that had ended when this one began, a history
    mix     \* the handlers of this behaviour

vars == <<db, req, prior, mix>>

RequestsInit ==
    /\ req = [r \in Requests |-> [do |-> "none", at |-> "new", arg |-> Nil, v |-> Nil]]
    /\ prior = [r \in Requests |-> {}]
    /\ mix \in Mixes

At(r, statement) == req[r].at = statement

Ends == {"ok", "refused", "killed"}

Ended(r) == req[r].at \in Ends

Open(r) == ~At(r, "new") /\ ~Ended(r)

\* Both were open at some time.
Met(r, s) ==
    r # s /\ ~At(r, "new") /\ ~At(s, "new") /\ r \notin prior[s] /\ s \notin prior[r]

\* Handler h ended well for r.
Answered(r, h) == req[r].do = h /\ At(r, "ok")

Begin(r, h, arg) ==
    /\ At(r, "new")
    /\ h \in mix
    /\ req' = [req EXCEPT ![r] = [do |-> h, at |-> h, arg |-> arg, v |-> Nil]]
    /\ prior' = [prior EXCEPT ![r] = {s \in Requests : Ended(s)}]
    /\ UNCHANGED <<db, mix>>

\* The statement r is at leaves the tables as given; r goes on to another, with
\* v in its local variables, or ends.
Do(r, statement, v, tables) ==
    /\ req' = [req EXCEPT ![r].at = statement,
                          ![r].v = IF statement \in Ends THEN Nil ELSE v]
    /\ db' = tables
    /\ UNCHANGED <<prior, mix>>

GoOn(r, statement, v) == Do(r, statement, v, db)

End(r, tables) == Do(r, "ok", req[r].v, tables)

Refuse(r) == Do(r, "refused", req[r].v, db)

\* The runtime drops the request, or a statement raises and the handler does
\* not catch it.
Killed(r) ==
    /\ Open(r) /\ "killed" \in mix
    /\ Cardinality({s \in Requests : At(s, "killed")}) < MaxKills
    /\ Do(r, "killed", req[r].v, db)
=============================================================================
