------------------------------ MODULE Schedule ------------------------------
(***************************************************************************)
(* Interviews and the calendar event of each: routes/interviews.ts and     *)
(* routes/calendar.ts; and offers, which their recipient reads and         *)
(* answers: routes/offers.ts.                                              *)
(***************************************************************************)
EXTENDS Approvals

CONSTANT Times

Interview(event, at) == [rev |-> 1, event |-> event, at |-> at]
Event(at) == [rev |-> 1, at |-> at]

InterviewRecord == [rev : Nat, event : Ids, at : Times]
EventRecord == [rev : Nat, at : Times]
ASSUME ScheduleAssumption ==
    Nil \notin Times /\ Nil \notin InterviewRecord /\ Nil \notin EventRecord

ScheduleTables == [interview |-> NoRows, event |-> NoRows, offer |-> NoRows]

-----------------------------------------------------------------------------
CreateInterview(r) ==
    /\ At(r, "createInterview")
    /\ LET at == req[r].arg.at IN
       End(r, [db EXCEPT !.event[r] = Event(at), !.interview[r] = Interview(r, at)])

PatchInterview(r) == Load(r, "patchInterview", "interview", AnyRow, "interviewRow")

\* The statement moves the event along with the interview, if that is moved,
\* and leaves the event's revision alone.
UnguardedRow(r) == db.interview[req[r].arg.id] # Nil
InterviewRead(r) == Same("interview", req[r].arg.id, req[r].v)

InterviewRow(r) ==
    /\ At(r, "interviewRow")
    /\ LET i == req[r].arg.id  to == req[r].arg.at  e == req[r].v.event IN
       IF ~InterviewRead(r) THEN Refuse(r)
       ELSE End(r, [db EXCEPT
                !.interview[i] = Bumped([req[r].v EXCEPT !.at = IF to = Nil THEN @ ELSE to]),
                !.event[e] = IF to = Nil \/ @ = Nil THEN @ ELSE [@ EXCEPT !.at = to]])

PatchEvent(r) == Load(r, "patchEvent", "event", AnyRow, "eventRow")

\* Without a time, the one that was read is written back.
EventRow(r) ==
    /\ At(r, "eventRow")
    /\ Save(r, "event", IF req[r].arg.at = Nil THEN req[r].v ELSE [req[r].v EXCEPT !.at = req[r].arg.at])

\* The event goes if it has the revision its caller saw.
DeleteEvent(r) ==
    /\ At(r, "deleteEvent")
    /\ IF Same("event", req[r].arg.id, req[r].arg) THEN End(r, [db EXCEPT !.event[req[r].arg.id] = Nil])
       ELSE Refuse(r)

-----------------------------------------------------------------------------
AnyOffer(state) == TRUE
OfferOpen(state) == state \in {"SENT", "READ"}

ReadOffer(r) ==
    /\ At(r, "getOffer")
    /\ IF db.offer[req[r].arg.id] = "SENT" THEN GoOn(r, "readRow", Nil) ELSE End(r, db)

ReadRow(r) ==
    /\ At(r, "readRow")
    /\ End(r, IF db.offer[req[r].arg.id] = "SENT" THEN [db EXCEPT !.offer[req[r].arg.id] = "READ"] ELSE db)

DecideOffer(r) ==
    /\ At(r, "decideOffer")
    /\ IF db.offer[req[r].arg.id] \in {"SENT", "READ"} THEN GoOn(r, "offerRow", Nil) ELSE Refuse(r)

OfferRow(r) ==
    /\ At(r, "offerRow")
    /\ IF OfferOpen(db.offer[req[r].arg.id]) THEN End(r, [db EXCEPT !.offer[req[r].arg.id] = req[r].arg.to])
       ELSE Refuse(r)

-----------------------------------------------------------------------------
ArriveSchedule(r) ==
    \/ \E t \in Times : Begin(r, "createInterview", [at |-> t])
    \/ \E i \in Ids, t \in Times \cup {Nil} :
          \/ db.interview[i] # Nil /\ Begin(r, "patchInterview", [id |-> i, at |-> t])
          \/ db.event[i] # Nil /\ Begin(r, "patchEvent", [id |-> i, at |-> t])
    \/ \E e \in Ids : db.event[e] # Nil /\ Begin(r, "deleteEvent", [id |-> e, rev |-> db.event[e].rev])
    \/ \E o \in Ids : db.offer[o] # Nil /\
          \/ Begin(r, "getOffer", [id |-> o])
          \/ \E to \in {"ACCEPTED", "DECLINED"} : Begin(r, "decideOffer", [id |-> o, to |-> to])

ScheduleStep(r) ==
    \/ ArriveSchedule(r) \/ CreateInterview(r) \/ PatchInterview(r) \/ InterviewRow(r) \/ PatchEvent(r)
    \/ EventRow(r) \/ DeleteEvent(r) \/ ReadOffer(r) \/ ReadRow(r) \/ DecideOffer(r) \/ OfferRow(r)

\* An interview and its event show one time, while there is the event.  The
\* exceptions: somebody moved the event itself, or changed it while the
\* interview was being moved and so wrote the old time back.
CalendarFollows ==
    \A i \in Ids :
        LET row == db.interview[i] IN
        row # Nil /\ db.event[row.event] # Nil =>
            \/ db.event[row.event].at = row.at
            \/ \E r \in Doing("patchEvent") :
                  At(r, "ok") /\ (req[r].arg.at # Nil \/ MetAny(r, {"patchInterview"}))
=============================================================================
