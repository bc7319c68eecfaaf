-------------------------- MODULE CoreWorkerProofs --------------------------
(***************************************************************************)
(* Lemmas about the requests of CoreWorker, whatever their handlers do: a  *)
(* request that has ended stays as it is, and two that are open at once    *)
(* have met for good.  The proofs of the routes' modules rest on them.     *)
(***************************************************************************)
EXTENDS CoreWorker, TLAPS

\* One request begins or goes on by a statement.
Begins(r) == \E h, arg : h \notin Ends \cup {"new"} /\ Begin(r, h, arg)
GoesOn(r) == Open(r) /\ \E statement, v, tables : statement # "new" /\ Do(r, statement, v, tables)
Moves(r)  == Begins(r) \/ GoesOn(r)

LEMMA DoMoves ==
    ASSUME NEW r, Open(r), NEW statement, NEW v, NEW tables, statement # "new",
           Do(r, statement, v, tables)
    PROVE  Moves(r)
  BY DEF Moves, GoesOn

LEMMA BeginMoves ==
    ASSUME NEW r, NEW h, NEW arg, h \notin Ends \cup {"new"}, Begin(r, h, arg)
    PROVE  Moves(r)
  BY DEF Moves, Begins

RequestShape ==
    /\ DOMAIN req = Requests
    /\ DOMAIN prior = Requests
    /\ \A r \in Requests : DOMAIN req[r] = {"do", "at", "arg", "v"}

\* A request that had ended before another began has ended still.
PriorHasEnded == \A r \in Requests : \A s \in prior[r] : s \in Requests /\ Ended(s)

HistoryOK == RequestShape /\ PriorHasEnded

LEMMA HistoryInit == RequestsInit => HistoryOK
  BY DEF RequestsInit, HistoryOK, RequestShape, PriorHasEnded

LEMMA BeginEffect ==
    ASSUME HistoryOK, NEW r \in Requests, NEW h, NEW arg, Begin(r, h, arg)
    PROVE  /\ req'[r] = [do |-> h, at |-> h, arg |-> arg, v |-> Nil]
           /\ \A s \in Requests \ {r} : req'[s] = req[s] /\ prior'[s] = prior[s]
           /\ prior'[r] = {s \in Requests : Ended(s)}
           /\ db' = db
           /\ At(r, "new")
  BY DEF HistoryOK, RequestShape, Begin

LEMMA BeginRequest ==
    ASSUME HistoryOK, NEW r \in Requests, NEW h, NEW arg, Begin(r, h, arg)
    PROVE  req'[r].do = h /\ req'[r].at = h /\ req'[r].arg = arg
<1>1. req'[r] = [do |-> h, at |-> h, arg |-> arg, v |-> Nil]
  BY BeginEffect
<1> QED
  BY <1>1

LEMMA DoEffect ==
    ASSUME HistoryOK, NEW r \in Requests, NEW statement, NEW v, NEW tables,
           Do(r, statement, v, tables)
    PROVE  /\ req'[r].do = req[r].do
           /\ req'[r].at = statement
           /\ req'[r].arg = req[r].arg
           /\ req'[r].v = IF statement \in Ends THEN Nil ELSE v
           /\ DOMAIN req'[r] = DOMAIN req[r]
           /\ \A s \in Requests \ {r} : req'[s] = req[s]
           /\ prior' = prior
           /\ db' = tables
<1>1. \A s \in Requests \ {r} : req'[s] = req[s]
  BY DEF HistoryOK, RequestShape, Do
<1>2. req'[r] = [[req[r] EXCEPT !.at = statement] EXCEPT !.v = IF statement \in Ends THEN Nil ELSE v]
  BY DEF HistoryOK, RequestShape, Do
<1>3. DOMAIN req[r] = {"do", "at", "arg", "v"}
  BY DEF HistoryOK, RequestShape
<1> DEFINE next == IF statement \in Ends THEN Nil ELSE v
<1>4. /\ req'[r].do = req[r].do
      /\ req'[r].at = statement
      /\ req'[r].arg = req[r].arg
      /\ req'[r].v = next
      /\ DOMAIN req'[r] = DOMAIN req[r]
  <2> HIDE DEF next
  <2>1. req'[r] = [[req[r] EXCEPT !.at = statement] EXCEPT !.v = next]
    BY <1>2 DEF next
  <2> QED
    BY <1>3, <2>1
<1> QED
  BY <1>1, <1>4 DEF Do

LEMMA HistoryStep ==
    ASSUME HistoryOK, NEW r \in Requests, Moves(r)
    PROVE  HistoryOK'
<1>1. CASE Begins(r)
  <2>1. PICK h, arg : h \notin Ends \cup {"new"} /\ Begin(r, h, arg)
    BY <1>1 DEF Begins
  <2>2. RequestShape'
    BY <2>1 DEF HistoryOK, RequestShape, Begin
  <2>3. \A s \in Requests : Ended(s) => Ended(s)'
    BY <2>1, BeginEffect DEF Ended, At, Ends
  <2>4. PriorHasEnded'
    BY <2>1, <2>3, BeginEffect DEF HistoryOK, PriorHasEnded
  <2> QED
    BY <2>2, <2>4 DEF HistoryOK
<1>2. CASE GoesOn(r)
  <2>1. PICK statement, v, tables : statement # "new" /\ Do(r, statement, v, tables)
    BY <1>2 DEF GoesOn
  <2>2. DOMAIN req' = Requests /\ DOMAIN prior' = Requests
    BY <2>1 DEF HistoryOK, RequestShape, Do
  <2>3. RequestShape'
    BY <2>1, <2>2, DoEffect DEF HistoryOK, RequestShape
  <2>4. \A s \in Requests : Ended(s) => Ended(s)'
    BY <1>2, <2>1, DoEffect DEF GoesOn, Open, Ended, At
  <2>5. PriorHasEnded'
    BY <2>1, <2>4, DoEffect DEF HistoryOK, PriorHasEnded
  <2> QED
    BY <2>3, <2>5 DEF HistoryOK
<1> QED
  BY <1>1, <1>2 DEF Moves

\* Only the request that moves changes, and one that has ended does not move.
LEMMA OthersStay ==
    ASSUME HistoryOK, NEW r \in Requests, Moves(r), NEW s \in Requests
    PROVE  /\ s # r => req'[s] = req[s]
           /\ Ended(s) => req'[s] = req[s]
           /\ ~At(s, "new") => ~At(s, "new")' /\ req'[s].do = req[s].do /\ req'[s].arg = req[s].arg
           /\ ~At(s, "new") => prior'[s] = prior[s]
<1>1. CASE Begins(r)
  BY <1>1, BeginEffect DEF Begins, Ended, Ends, At
<1>2. CASE GoesOn(r)
  BY <1>2, DoEffect DEF GoesOn, Open, Ended, At
<1> QED
  BY <1>1, <1>2 DEF Moves

LEMMA OpenMeet ==
    ASSUME HistoryOK, NEW r \in Requests, NEW s \in Requests, r # s, Open(r), Open(s)
    PROVE  Met(r, s)
  BY DEF HistoryOK, PriorHasEnded, Open, Met

LEMMA MetStays ==
    ASSUME HistoryOK, NEW m \in Requests, Moves(m), NEW r \in Requests, NEW s \in Requests, Met(r, s)
    PROVE  Met(r, s)'
<1>1. ~At(r, "new") /\ ~At(s, "new")
  BY DEF Met
<1> QED
  BY <1>1, OthersStay DEF Met, At

=============================================================================
