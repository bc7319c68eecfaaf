----------------------------- MODULE FirmProofs -----------------------------
(***************************************************************************)
(* A theorem about companies, for any number of requests, users and seats  *)
(* and any length of time: a company keeps an ADMIN, its seats suffice,    *)
(* and one whose last user leaves goes with him.  The handlers of sessions *)
(* and accounts run beside those of companies; plans stay as they are.     *)
(***************************************************************************)
EXTENDS AccountProofs

Employer(u) == Known(u) /\ db.user[u].kind = "EMPLOYER"
Personal(u) == Known(u) /\ db.user[u].kind = "PERSONAL"

\* A company that is there for good.
Standing(c) == c \in Companies /\ db.company[c].exists /\ (c \in Requests => At(c, "ok"))

FirmShape ==
    /\ {"company", "member", "invite", "mailed"} \subseteq DOMAIN db
    /\ DOMAIN db.company = Companies /\ DOMAIN db.member = Users /\ DOMAIN db.invite = Users
    /\ \A c \in Companies :
          DOMAIN db.company[c] = {"exists", "number", "plan", "marked"} /\ db.company[c].marked \in BOOLEAN
    /\ \A i \in Users : DOMAIN db.invite[i] = {"state", "company", "to", "token"}

\* The tables: who is a member, employers all, and of what.
Rows ==
    /\ \A u \in Users : db.member[u] # Nil =>
          db.member[u] \in MemberRow /\ Standing(db.member[u].company) /\ Employer(u)
    /\ \A i \in Users : db.invite[i].state = "open" => Standing(db.invite[i].company)
    /\ \A c \in Companies : IsFiniteSet(In(c)) /\ IsFiniteSet(Invited(c))
    /\ \A u \in Users : Known(u) /\ db.user[u].phone \in Phones => Personal(u)

\* What the rows of a request's own are before it comes to them.
Born == {"insertAdmin", "undoFirm", "killed", "ok"}
Mailed == {"inviteMail", "inviteUndo"} \cup Ends
FreshRows(r) ==
    /\ db.company[r].exists => req[r].at \in Born
    /\ db.invite[r].state # "none" => req[r].at \in Mailed

\* The exceptions, which never end.
TransferredAway == \E r \in Doing("removeMember") : MetAny(r, "transferAdmin")
RemovedBoth     == Crossed /\ \E r \in Doing("removeMember") : MetAny(r, "removeMember")
InvitedBoth     == \E r \in Doing("invite") : MetAny(r, "invite")
Disturbers      == {"acceptInvite", "transferAdmin", "removeMember", "login", "exchange"}
DeletionMet ==
    \E r \in Doing("deleteAccount") :
        \/ \E h \in Disturbers : MetAny(r, h)
        \/ \E s \in Doing("deleteAccount") \ {r} : By(s) = By(r)

\* The handler of a place, and who its caller is.
FirmPlace(r) ==
    /\ req[r].at \in {"verifyBusiness", "completeFirm", "insertFirm", "insertAdmin", "undoFirm"} => req[r].do = "verifyBusiness"
    /\ req[r].at \in {"invite", "inviteMember", "invitePending", "inviteCount", "inviteRow"} => req[r].do = "invite"
    /\ req[r].at \in {"acceptInvite", "acceptUser", "join"} => req[r].do = "acceptInvite"
    /\ req[r].at \in {"removeMember", "removeTarget", "countAdmins", "removeRow"} => req[r].do = "removeMember"
    /\ req[r].at \in {"transferAdmin", "transferTarget", "transfer", "transferWrite"} => req[r].do = "transferAdmin"
    /\ req[r].at = "markFirm" => req[r].do = "deleteAccount"
    /\ req[r].at \in {"useCode", "oauthIdentity", "oauthEmail", "oauthLogin", "oauthInsert"} => req[r].do = "exchange"
    /\ req[r].at = "login" => req[r].do = "login"
    /\ ~At(r, "new") /\ req[r].do \in {"verifyBusiness", "acceptInvite"} => Employer(By(r))
    /\ ~At(r, "new") /\ req[r].do \in {"invite", "removeMember", "transferAdmin", "deleteAccount"} => Known(By(r))
    /\ req[r].at \in Links \cup {"bindPhone", "bindPhoneInsert"} => Personal(req[r].v)
    /\ At(r, "clear") /\ req[r].do \notin {"login", "exchange"} => Personal(req[r].v)

\* What the requests of a company have read of it, and count on.
Asking == {"inviteMember", "invitePending", "inviteCount", "inviteRow"}
AtFirm == Asking \cup {"removeTarget", "countAdmins", "removeRow", "transferTarget", "transfer", "transferWrite"}

OfFirm(r) ==
    req[r].at \in AtFirm => \E c \in Companies :
        c = req[r].v.c /\ Standing(c) /\ (req[r].at \in Asking => req[r].v.plan = db.company[c].plan)

Inviting(r) ==
    \A c \in Companies : At(r, "inviteRow") /\ c = req[r].v.c =>
        InvitedBoth \/ Crossed \/ TransferredAway \/ SeatsUsed(c) < SeatLimit(db.company[c].plan)

Removing(r) ==
    \A c \in Companies : At(r, "removeRow") /\ c = req[r].v.c =>
        TransferredAway \/ RemovedBoth \/ InRole(c, "ADMIN") \ {req[r].arg.to} # {}

Transferring(r) ==
    \A c \in Companies : req[r].at \in {"transfer", "transferWrite"} /\ c = req[r].v.c =>
        /\ TransferredAway \/ req[r].arg.to \in In(c)
        /\ TransferredAway \/ Crossed \/ req[r].arg.to \in InRole(c, "MEMBER")
        /\ At(r, "transferWrite") =>
              /\ TransferredAway \/ req[r].arg.to \in req[r].v.rows
              /\ Crossed \/ InRole(c, "ADMIN") \subseteq req[r].v.rows

Accepting(r) ==
    req[r].at \in {"acceptUser", "join"} =>
        req[r].v \in Users /\ (req[r].v \in Requests => req[req[r].v].at \in Mailed)

\* The deletion of a company: nobody comes or goes.
Alone(u, c) == In(c) = {u} /\ InRole(c, "ADMIN") = {u}

Deleting(r) ==
    /\ req[r].at \in {"markUser", "cancelPlans", "markFirm"} /\ req[r].v.firm # Nil =>
          \E c \in Companies, u \in Users :
             /\ c = req[r].v.firm /\ u = By(r) /\ Standing(c)
             /\ DeletionMet \/ (Alone(u, c) /\ (At(r, "markUser") \/ db.user[u].marked))
    /\ At(r, "markFirm") => req[r].v.firm # Nil

Clearing(u) ==
    \E r \in Requests :
        /\ ~At(r, "new") /\ req[r].do \in {"login", "exchange"}
        /\ At(r, "killed") \/ (At(r, "clearCompany") /\ req[r].v = u)
Deleted(r) == req[r].do = "deleteAccount" /\ req[r].at \in {"revokeAll", "ok", "killed"}

Marked(c) ==
    db.company[c].marked =>
        \/ DeletionMet
        \/ \E r \in Requests, u \in Users :
              Deleted(r) /\ u = By(r) /\ Alone(u, c) /\ (db.user[u].marked \/ Clearing(u))

\* Whoever is about to change the members of a company that is marked met its
\* deletion.
AboutTo(r, c) ==
    \/ req[r].at \in {"removeRow", "transfer", "transferWrite"} /\ c = req[r].v.c
    \/ /\ req[r].at \in {"acceptUser", "join"}
       /\ \E i \in Users : i = req[r].v /\ db.invite[i].state = "open" /\ db.invite[i].company = c
Unhurried(r) == DeletionMet \/ \A c \in Companies : AboutTo(r, c) => ~db.company[c].marked

\* A company waits for its first ADMIN.
Founding(r) == At(r, "insertAdmin") => db.company[r].exists

Works(r) == OfFirm(r) /\ Inviting(r) /\ Removing(r) /\ Transferring(r) /\ Accepting(r)
Hand(r)  == Works(r) /\ Deleting(r) /\ Unhurried(r) /\ Founding(r)

Staffed(c) ==
    /\ Crossed \/ Cardinality(InRole(c, "ADMIN")) <= 1
    /\ Standing(c) => TransferredAway \/ RemovedBoth \/ InRole(c, "ADMIN") # {}
    /\ InvitedBoth \/ Crossed \/ TransferredAway \/ SeatsUsed(c) <= SeatLimit(db.company[c].plan)
FirmRow(c) == Staffed(c) /\ Marked(c)

FirmInv ==
    /\ FirmShape /\ Rows
    /\ \A r \in Requests : FreshRows(r) /\ FirmPlace(r) /\ Hand(r)
    /\ \A c \in Companies : FirmRow(c)

-----------------------------------------------------------------------------
FirmSpecInit ==
    /\ AccountInit /\ FirmShape
    /\ \A u \in Users : db.member[u] # Nil =>
          db.member[u] \in MemberRow /\ db.member[u].company = Firm /\ Employer(u)
    /\ \A i \in Users : db.invite[i].state = "open" => db.invite[i].company = Firm /\ i \notin Requests
    /\ \A r \in Requests : ~db.company[r].exists /\ db.invite[r].state = "none"
    /\ IsFiniteSet(In(Firm)) /\ IsFiniteSet(Invited(Firm))
    /\ \A u \in Users : Known(u) /\ db.user[u].phone \in Phones => Personal(u)
    /\ In(Firm) # {} \/ Invited(Firm) # {} => db.company[Firm].exists
    /\ db.company[Firm].exists => \E u \in Users : InRole(Firm, "ADMIN") = {u}
    /\ SeatsUsed(Firm) <= SeatLimit(db.company[Firm].plan)
    /\ \A c \in Companies : ~db.company[c].marked
    /\ \A r \in Requests : db.company[r].plan = Nil

\* What has met once has met for good.
LEMMA ExceptionsStay ==
    ASSUME HistoryOK, NEW m \in Requests, Moves(m)
    PROVE  /\ TransferredAway => TransferredAway'
           /\ Crossed => Crossed'
           /\ RemovedBoth => RemovedBoth'
           /\ InvitedBoth => InvitedBoth'
           /\ DeletionMet => DeletionMet'
<1>1. \A h : Doing(h) \subseteq Doing(h)'
  BY OthersStay DEF Doing
<1>2. ASSUME NEW h, NEW r \in Requests, MetAny(r, h) PROVE MetAny(r, h)'
  <2>1. PICK s \in Doing(h) : Met(r, s)
    BY <1>2 DEF MetAny
  <2>2. s \in Requests
    BY DEF Doing
  <2> QED
    BY <1>1, <2>1, <2>2, MetStays DEF MetAny
<1>3. \A h : \A r \in Doing(h) : r \in Requests
  BY DEF Doing
<1>4. \A r \in Requests : ~At(r, "new") => By(r)' = By(r)
  BY OthersStay DEF By
<1>5. \A h : \A r \in Doing(h) : ~At(r, "new")
  BY DEF Doing
<1>6. Crossed => Crossed'
  BY <1>1, <1>2, <1>3 DEF Crossed
<1>7. DeletionMet => DeletionMet'
  <2> SUFFICES ASSUME NEW r \in Doing("deleteAccount"),
                      \/ \E h \in Disturbers : MetAny(r, h)
                      \/ \E s \in Doing("deleteAccount") \ {r} : By(s) = By(r)
               PROVE  DeletionMet'
    BY DEF DeletionMet
  <2>1. r \in Doing("deleteAccount")' /\ r \in Requests /\ Disturbers' = Disturbers
    BY <1>1, <1>3 DEF Disturbers
  <2>2. CASE \E h \in Disturbers : MetAny(r, h)
    BY <1>2, <2>1, <2>2 DEF DeletionMet
  <2>3. CASE \E s \in Doing("deleteAccount") \ {r} : By(s) = By(r)
    <3>1. PICK s \in Doing("deleteAccount") \ {r} : By(s) = By(r)
      BY <2>3
    <3>2. s \in Doing("deleteAccount")' /\ By(s)' = By(r)'
      BY <1>1, <1>3, <1>4, <1>5, <3>1
    <3> QED
      BY <2>1, <3>1, <3>2 DEF DeletionMet
  <2> QED
    BY <2>2, <2>3
<1> QED
  BY <1>1, <1>2, <1>3, <1>6, <1>7 DEF TransferredAway, RemovedBoth, InvitedBoth

\* Two that are open at once are an exception.
LEMMA OpenExceptions ==
    ASSUME HistoryOK, NEW r \in Requests, NEW s \in Requests, r # s, Open(r), Open(s)
    PROVE  /\ req[r].do = "removeMember" /\ req[s].do = "transferAdmin" => TransferredAway
           /\ req[r].do = "transferAdmin" /\ req[s].do = "transferAdmin" => Crossed
           /\ req[r].do = "removeMember" /\ req[s].do = "removeMember" /\ Crossed => RemovedBoth
           /\ req[r].do = "invite" /\ req[s].do = "invite" => InvitedBoth
           /\ req[r].do = "deleteAccount" /\ req[s].do \in Disturbers => DeletionMet
<1>1. Met(r, s) /\ r \in Doing(req[r].do) /\ s \in Doing(req[s].do)
  BY OpenMeet DEF Doing, Open
<1>2. MetAny(r, req[s].do)
  BY <1>1 DEF MetAny
<1> QED
  BY <1>1, <1>2 DEF TransferredAway, Crossed, RemovedBoth, InvitedBoth, DeletionMet

-----------------------------------------------------------------------------
\* The rest of the tables, and of the core Worker.
SameFirms(t, b) == DOMAIN t = DOMAIN b /\ t.company = b.company /\ t.member = b.member /\ t.invite = b.invite
FirmFields == {"user", "company", "member", "invite"}

LEMMA OtherFirmTables ==
    ASSUME NEW b, FirmFields \subseteq DOMAIN b, NEW f, f \notin FirmFields, NEW x
    PROVE  SameFirms([b EXCEPT ![f] = x], b) /\ [b EXCEPT ![f] = x].user = b.user
  BY DEF SameFirms, FirmFields

RowKept(u) ==
    \/ db'.user[u] = db.user[u]
    \/ Known(u) /\ Known(u)' /\ \A f \in {"kind", "phone", "marked"} : db'.user[u][f] = db.user[u][f]
RowNew(u) ==
    /\ db.user[u] = Nil /\ Known(u)'
    /\ db'.user[u].phone \in Phones \/ req[u].at \notin {"oauthInsert", "insertEmail"} => db'.user[u].kind = "PERSONAL"
UsersKept(m) == \A u \in Users : RowKept(u) \/ (u = m /\ RowNew(u))

Aside(m) == SameFirms(db', db) /\ UsersKept(m)

LEMMA SignsAside ==
    ASSUME NamesInv, FirmShape, HistoryOK, NEW r \in Requests,
           NEW statement, NEW v, NEW kind \in {"PERSONAL", "EMPLOYER"}, NEW l, NEW phone, NEW email, NEW pw,
           Do(r, statement, v, [db EXCEPT !.user[r] = UserRow(kind, l, phone, email, pw)]),
           db.user[r] = Nil, phone \in Phones \/ req[r].at \notin {"oauthInsert", "insertEmail"} => kind = "PERSONAL",
           l \in Logins \cup {Nil}, phone \in Phones \cup {Nil}, email \in BOOLEAN, pw \in Users \cup {Nil}
    PROVE  Aside(r)
<1> DEFINE row == UserRow(kind, l, phone, email, pw)
           table == [db.user EXCEPT ![r] = row]
<1>1. DOMAIN db.user = Users /\ r \in Users
  BY DEF NamesInv, UserShape, Users
<1>2. row \in UserRecord /\ row.kind = kind /\ row.phone = phone
  BY DEF UserRecord, UserRow
<1>3. db' = [db EXCEPT !.user = table]
  BY DoEffect
<1> HIDE DEF row
<1>4. /\ DOMAIN table = Users /\ table[r] = row
      /\ \A t \in Users : t # r => table[t] = db.user[t]
  BY <1>1
<1> HIDE DEF table
<1>5. db'.user = table /\ SameFirms(db', db)
  BY <1>3 DEF FirmShape, SameFirms, NamesInv, UserShape
<1>6. db'.user[r] # Nil /\ RowNew(r)
  BY <1>1, <1>2, <1>4, <1>5, SignUpAssumption DEF RowNew, Known
<1> QED
  BY <1>4, <1>5, <1>6 DEF Aside, UsersKept, RowKept

-----------------------------------------------------------------------------
\* What a step leaves of the users.
UsersStay == \A u \in Users : (Known(u) => Known(u)') /\ (Employer(u) => Employer(u)') /\ (Personal(u) => Personal(u)')

\* A step of a handler, and what a step may do to a company, by the handler it is of.
Busy(m, h) == Open(m) /\ req[m].do = h

Changes(m, c) ==
    /\ Standing(c)' /\ db'.company[c].plan = db.company[c].plan
    /\ SeatsUsed(c)' <= SeatsUsed(c) \/ Busy(m, "invite") \/ Crossed \/ TransferredAway
    /\ InRole(c, "ADMIN") \subseteq InRole(c, "ADMIN")' \/ Busy(m, "transferAdmin") \/ ((Crossed \/ TransferredAway) /\ Busy(m, "removeMember"))
    /\ In(c) \subseteq In(c)' \/ Busy(m, "removeMember")
    /\ InRole(c, "MEMBER") \subseteq InRole(c, "MEMBER")' \/ Busy(m, "removeMember") \/ Busy(m, "transferAdmin")
    /\ InRole(c, "ADMIN")' \subseteq InRole(c, "ADMIN") \/ Busy(m, "transferAdmin")

SameMembers(c) == In(c)' = In(c) /\ InRole(c, "ADMIN")' = InRole(c, "ADMIN")

\* ... and to the marks.
Unmarks(m, u) ==
    \/ Clearing(u)' /\ (Busy(m, "login") \/ Busy(m, "exchange"))
    \/ Busy(m, "deleteAccount") /\ At(m, "unmark") /\ By(m) = u

MarkMove(m) ==
    /\ \A u \in Users : db.member[u] # Nil /\ db.user[u].marked => db'.user[u].marked \/ Unmarks(m, u)
    /\ \A c \in Companies : \A u : Clearing(u) /\ Alone(u, c) /\ db'.company[c].marked => Clearing(u)'
    /\ Deleted(m) => Deleted(m)'
    /\ \A c \in Companies : db'.company[c].marked => db.company[c].marked \/ Busy(m, "deleteAccount")
    /\ \A c \in Companies : db'.company[c].marked => db.company[c].marked \/ Marked(c)'

\* The rows named by a request appear by a step of its own.
OwnRows(m) ==
    /\ \A i \in Users : db'.invite[i].state = "open" =>
          (db.invite[i].state = "open" /\ db'.invite[i].company = db.invite[i].company) \/ (i = m /\ At(m, "inviteRow"))
    /\ req[m].at \in Mailed => req'[m].at \in Mailed
    /\ \A r \in Requests : r # m =>
          (db'.company[r].exists <=> db.company[r].exists) /\ (db'.invite[r].state # "none" => db.invite[r].state # "none")

FirmMove(m) ==
    /\ UsersStay /\ MarkMove(m) /\ OwnRows(m)
    /\ \A c : Standing(c) => Changes(m, c)
    /\ \A c \in Companies :
          SameMembers(c) \/ ~Standing(c) \/ ((\E h \in Disturbers : Busy(m, h)) /\ (DeletionMet \/ ~db.company[c].marked))

\* It leaves what the others have read true.
LEMMA SeatsAreNat ==
    ASSUME Rows, NEW c \in Companies
    PROVE  SeatsUsed(c) \in Nat /\ SeatLimit(db.company[c].plan) \in Nat
<1>1. IsFiniteSet(InRole(c, "MEMBER")) /\ IsFiniteSet(Invited(c))
  BY FS_Subset DEF Rows, InRole
<1> QED
  BY <1>1, FS_CardinalityType DEF SeatsUsed, SeatLimit

LEMMA SeatsStayNat ==
    ASSUME Rows', NEW c \in Companies
    PROVE  SeatsUsed(c)' \in Nat
<1>1. IsFiniteSet(InRole(c, "MEMBER")') /\ IsFiniteSet(Invited(c)')
  BY FS_Subset DEF Rows, InRole
<1> QED
  BY <1>1, FS_CardinalityType DEF SeatsUsed

LEMMA BusyMeets ==
    ASSUME HistoryOK, NEW m \in Requests, Moves(m), NEW r \in Requests, r # m, Open(r)
    PROVE  /\ req[r].do = "removeMember" /\ Busy(m, "transferAdmin") => TransferredAway'
           /\ req[r].do = "transferAdmin" /\ Busy(m, "removeMember") => TransferredAway'
           /\ req[r].do = "transferAdmin" /\ Busy(m, "transferAdmin") => Crossed'
           /\ req[r].do = "removeMember" /\ Busy(m, "removeMember") /\ Crossed => RemovedBoth'
           /\ req[r].do = "invite" /\ Busy(m, "invite") => InvitedBoth'
           /\ req[r].do = "deleteAccount" /\ (\E h \in Disturbers : Busy(m, h)) => DeletionMet'
           /\ req[r].do \in Disturbers /\ Busy(m, "deleteAccount") => DeletionMet'
  BY OpenExceptions, ExceptionsStay DEF Busy

LEMMA OthersWork ==
    ASSUME FirmInv, HistoryOK, Rows', NEW m \in Requests, Moves(m), FirmMove(m), NEW r \in Requests, r # m
    PROVE  Works(r)'
<1>1. req'[r] = req[r] /\ Works(r) /\ FirmPlace(r)
  BY OthersStay DEF FirmInv, Hand
<1>2. /\ TransferredAway => TransferredAway'
      /\ Crossed => Crossed'
      /\ RemovedBoth => RemovedBoth'
      /\ InvitedBoth => InvitedBoth'
  BY ExceptionsStay
<1>3. req[r].at \notin Ends \cup {"new"} => Open(r)
  BY DEF Open, Ended, At
<1>4. \A c : Standing(c) => Changes(m, c) /\ c \in Companies
  BY DEF FirmMove, Standing
<1>5. OfFirm(r)'
  BY <1>1, <1>4 DEF Works, OfFirm, Changes
<1>6. ASSUME NEW c \in Companies, At(r, "inviteRow"), c = req[r].v.c
      PROVE  InvitedBoth' \/ Crossed' \/ TransferredAway' \/ SeatsUsed(c)' < SeatLimit(db'.company[c].plan)
  <2>1. Open(r) /\ req[r].do = "invite" /\ Standing(c)
    BY <1>1, <1>3, <1>6 DEF At, Ends, FirmPlace, Works, OfFirm, AtFirm, Asking
  <2>2. SeatsUsed(c) \in Nat /\ SeatLimit(db.company[c].plan) \in Nat /\ SeatsUsed(c)' \in Nat
    BY SeatsAreNat, SeatsStayNat DEF FirmInv
  <2>3. SeatsUsed(c)' <= SeatsUsed(c) \/ InvitedBoth' \/ Crossed' \/ TransferredAway'
    BY <1>2, <1>4, <2>1, BusyMeets DEF Changes
  <2>4. InvitedBoth \/ Crossed \/ TransferredAway \/ SeatsUsed(c) < SeatLimit(db.company[c].plan)
    BY <1>1, <1>6 DEF Works, Inviting
  <2>5. db'.company[c].plan = db.company[c].plan
    BY <1>4, <2>1 DEF Changes
  <2> QED
    BY <1>2, <2>2, <2>3, <2>4, <2>5
<1>7. ASSUME NEW c \in Companies, At(r, "removeRow"), c = req[r].v.c
      PROVE  TransferredAway' \/ RemovedBoth' \/ InRole(c, "ADMIN")' \ {req[r].arg.to} # {}
  <2>1. Open(r) /\ req[r].do = "removeMember" /\ Standing(c)
    BY <1>1, <1>3, <1>7 DEF At, Ends, FirmPlace, Works, OfFirm, AtFirm, Asking
  <2>2. InRole(c, "ADMIN") \subseteq InRole(c, "ADMIN")' \/ TransferredAway' \/ RemovedBoth'
    BY <1>2, <1>4, <2>1, BusyMeets DEF Changes
  <2>3. TransferredAway \/ RemovedBoth \/ InRole(c, "ADMIN") \ {req[r].arg.to} # {}
    BY <1>1, <1>7 DEF Works, Removing
  <2> QED
    BY <1>2, <2>2, <2>3
<1>8. ASSUME NEW c \in Companies, req[r].at \in {"transfer", "transferWrite"}, c = req[r].v.c
      PROVE  /\ TransferredAway' \/ req[r].arg.to \in In(c)'
             /\ TransferredAway' \/ Crossed' \/ req[r].arg.to \in InRole(c, "MEMBER")'
             /\ At(r, "transferWrite") =>
                   /\ TransferredAway' \/ req[r].arg.to \in req[r].v.rows
                   /\ Crossed' \/ InRole(c, "ADMIN")' \subseteq req[r].v.rows
  <2>1. Open(r) /\ req[r].do = "transferAdmin" /\ Standing(c)
    BY <1>1, <1>3, <1>8 DEF At, Ends, FirmPlace, Works, OfFirm, AtFirm, Asking
  <2>2. /\ TransferredAway \/ req[r].arg.to \in In(c)
        /\ TransferredAway \/ Crossed \/ req[r].arg.to \in InRole(c, "MEMBER")
        /\ At(r, "transferWrite") =>
              /\ TransferredAway \/ req[r].arg.to \in req[r].v.rows
              /\ Crossed \/ InRole(c, "ADMIN") \subseteq req[r].v.rows
    BY <1>1, <1>8 DEF Works, Transferring
  <2>3. /\ In(c) \subseteq In(c)' \/ TransferredAway'
        /\ InRole(c, "MEMBER") \subseteq InRole(c, "MEMBER")' \/ TransferredAway' \/ Crossed'
        /\ InRole(c, "ADMIN")' \subseteq InRole(c, "ADMIN") \/ Crossed'
    BY <1>4, <2>1, BusyMeets DEF Changes
  <2> QED
    BY <1>2, <2>2, <2>3
<1>9. Accepting(r)'
  <2>1. req[r].at \in {"acceptUser", "join"} => req[r].v \in Users /\ (req[r].v \in Requests => req[req[r].v].at \in Mailed)
    BY <1>1 DEF Works, Accepting
  <2>2. \A s \in Requests : req[s].at \in Mailed => req'[s].at \in Mailed
    BY OthersStay DEF FirmMove, OwnRows
  <2> QED
    BY <1>1, <2>1, <2>2 DEF Accepting
<1>10. Companies' = Companies
  BY DEF Companies
<1>11. Inviting(r)' /\ Removing(r)'
  BY <1>1, <1>6, <1>7 DEF Inviting, Removing, At
<1>12. Transferring(r)'
  BY <1>1, <1>8 DEF Transferring, At
<1> QED
  BY <1>5, <1>9, <1>11, <1>12 DEF Works

LEMMA OthersHand ==
    ASSUME FirmInv, HistoryOK, Rows', NEW m \in Requests, Moves(m), FirmMove(m), NEW r \in Requests, r # m, InHand(r)
    PROVE  FreshRows(r)' /\ FirmPlace(r)' /\ Hand(r)'
<1>1. req'[r] = req[r] /\ FreshRows(r) /\ FirmPlace(r) /\ Deleting(r) /\ Unhurried(r)
  BY OthersStay DEF FirmInv, Hand
<1>2. DeletionMet => DeletionMet'
  BY ExceptionsStay
<1>3. req[r].at \notin Ends \cup {"new"} => Open(r)
  BY DEF Open, Ended, At
<1>4. FreshRows(r)'
  BY <1>1 DEF FreshRows, FirmMove, OwnRows
<1>5. FirmPlace(r)'
  BY <1>1 DEF FirmPlace, FirmMove, UsersStay, Employer, Personal, Known, At, By
<1>6. Deleting(r)'
  <2>1. ASSUME req[r].at \in {"markUser", "cancelPlans", "markFirm"}, req[r].v.firm # Nil
        PROVE  \E c \in Companies, u \in Users :
                  /\ c = req[r].v.firm /\ u = By(r) /\ Standing(c)'
                  /\ DeletionMet' \/ (Alone(u, c)' /\ (At(r, "markUser") \/ db'.user[u].marked))
    <3>1. PICK c \in Companies, u \in Users :
             /\ c = req[r].v.firm /\ u = By(r) /\ Standing(c)
             /\ DeletionMet \/ (Alone(u, c) /\ (At(r, "markUser") \/ db.user[u].marked))
      BY <1>1, <2>1 DEF Deleting
    <3>2. Open(r) /\ req[r].do = "deleteAccount"
      BY <1>1, <1>3, <2>1 DEF InHand, FirmPlace, Ends
    <3>3. (\E h \in Disturbers : Busy(m, h)) => DeletionMet'
      BY <3>2, BusyMeets
    <3>4. SameMembers(c) \/ DeletionMet'
      BY <3>1, <3>3 DEF FirmMove
    <3>5. Alone(u, c) => Alone(u, c)' \/ DeletionMet'
      BY <3>4 DEF Alone, SameMembers
    <3>6. Alone(u, c) => db.member[u] # Nil
      BY DEF Alone, In
    <3>7. Unmarks(m, u) => DeletionMet'
      <4>1. CASE Busy(m, "login") \/ Busy(m, "exchange")
        BY <3>3, <4>1 DEF Disturbers
      <4>2. CASE Busy(m, "deleteAccount") /\ By(m) = u
        <5>1. r \in Doing("deleteAccount") /\ m \in Doing("deleteAccount") \ {r} /\ By(m) = By(r)
          BY <3>1, <3>2, <4>2 DEF Doing, Busy, Open
        <5> QED
          BY <1>2, <5>1 DEF DeletionMet
      <4> QED
        BY <4>1, <4>2 DEF Unmarks
    <3>8. Alone(u, c) /\ db.user[u].marked => db'.user[u].marked \/ DeletionMet'
      BY <3>6, <3>7 DEF FirmMove, MarkMove
    <3>9. Standing(c)'
      BY <3>1 DEF FirmMove, Changes
    <3> QED
      BY <1>2, <3>1, <3>5, <3>8, <3>9
  <2>2. At(r, "markFirm") => req[r].v.firm # Nil
    BY <1>1 DEF Deleting
  <2> QED
    BY <1>1, <2>1, <2>2 DEF Deleting, At, By
<1>7. Unhurried(r)'
  <2> SUFFICES ASSUME ~DeletionMet', NEW c \in Companies, AboutTo(r, c)', db'.company[c].marked PROVE FALSE
    BY DEF Unhurried, Companies
  <2>1. AboutTo(r, c)
    <3>1. CASE req[r].at \in {"removeRow", "transfer", "transferWrite"}
      BY <1>1, <3>1 DEF AboutTo
    <3>2. CASE req[r].at \in {"acceptUser", "join"}
      <4>1. PICK i \in Users : i = req[r].v /\ db'.invite[i].state = "open" /\ db'.invite[i].company = c
        BY <1>1, <3>2 DEF AboutTo
      <4>2. ~(i = m /\ At(m, "inviteRow"))
        <5>1. Accepting(r)
          BY DEF FirmInv, Hand, Works
        <5> QED
          BY <3>2, <4>1, <5>1 DEF Accepting, At, Mailed, Ends
      <4>3. db.invite[i].state = "open" /\ db.invite[i].company = c
        BY <4>1, <4>2 DEF FirmMove, OwnRows
      <4> QED
        BY <3>2, <4>1, <4>3 DEF AboutTo
    <3> QED
      BY <1>1, <3>1, <3>2 DEF AboutTo
  <2>2. Open(r) /\ req[r].do \in Disturbers
    BY <1>1, <1>3, <2>1 DEF AboutTo, FirmPlace, Disturbers, Ends
  <2>3. ~Busy(m, "deleteAccount")
    BY <2>2, BusyMeets
  <2>4. db.company[c].marked
    BY <2>3 DEF FirmMove, MarkMove
  <2> QED
    BY <1>1, <1>2, <2>1, <2>4 DEF Unhurried
<1>8. Founding(r)'
  <2>1. Founding(r)
    BY DEF FirmInv, Hand
  <2> QED
    BY <1>1, <2>1 DEF Founding, At, FirmMove, OwnRows
<1> QED
  BY <1>4, <1>5, <1>6, <1>7, <1>8, OthersWork DEF Hand

\* A company that waits for deletion has its deletion still.
LEMMA MarkedStays ==
    ASSUME FirmInv, HistoryOK, NEW m \in Requests, Moves(m), FirmMove(m), NEW c \in Companies
    PROVE  Marked(c)'
<1> SUFFICES ASSUME db'.company[c].marked, db.company[c].marked, ~DeletionMet' PROVE Marked(c)'
  BY DEF FirmMove, MarkMove, Marked
<1>1. DeletionMet => DeletionMet'
  BY ExceptionsStay
<1>2. PICK r \in Requests, u \in Users :
         Deleted(r) /\ u = By(r) /\ Alone(u, c) /\ (db.user[u].marked \/ Clearing(u))
  BY <1>1 DEF FirmInv, FirmRow, Marked
<1>3. SameMembers(c)
  BY <1>1, <1>2 DEF FirmMove, Standing, Alone, In, FirmInv, Rows
<1>4. Alone(u, c)'
  BY <1>2, <1>3 DEF Alone, SameMembers
<1>5. Deleted(r)' /\ By(r)' = u /\ ~At(r, "new")
  BY <1>2, OthersStay DEF Deleted, FirmMove, MarkMove, By, At
<1>6. Clearing(u) => Clearing(u)'
  BY <1>2 DEF FirmMove, MarkMove
<1>7. db.member[u] # Nil
  BY <1>2 DEF Alone, In
<1>8. ~(Busy(m, "deleteAccount") /\ At(m, "unmark") /\ By(m) = u)
  <2> SUFFICES ASSUME Busy(m, "deleteAccount"), At(m, "unmark"), By(m) = u PROVE FALSE
    OBVIOUS
  <2>1. m # r
    BY <1>2 DEF Deleted, At
  <2>2. r \in Doing("deleteAccount") /\ m \in Doing("deleteAccount") \ {r} /\ By(m) = By(r)
    BY <1>2, <1>5, <2>1 DEF Doing, Busy, Open, Deleted
  <2> QED
    BY <1>1, <2>2 DEF DeletionMet
<1>9. db'.user[u].marked \/ Clearing(u)'
  BY <1>2, <1>6, <1>7, <1>8 DEF FirmMove, MarkMove, Unmarks
<1> QED
  BY <1>4, <1>5, <1>9 DEF Marked, Users

LEMMA FirmStep ==
    ASSUME FirmInv, NamesInv, HistoryOK, NEW m \in Requests, Moves(m), FirmMove(m), FirmShape', Rows',
           FreshRows(m)', FirmPlace(m)', Hand(m)', \A c \in Companies : Staffed(c)'
    PROVE  FirmInv'
<1>1. \A r \in Requests : r # m => FreshRows(r)' /\ FirmPlace(r)' /\ Hand(r)'
  BY OthersHand DEF NamesInv
<1>2. \A c \in Companies : Marked(c)'
  BY MarkedStays
<1> QED
  BY <1>1, <1>2 DEF FirmInv, FirmRow, Companies

-----------------------------------------------------------------------------
\* Steps that leave the members and the invitations as they are, and the
\* companies but one that is being made.
Stays(m) ==
    /\ FirmShape' /\ db'.member = db.member
    /\ \A i \in Users : db'.invite[i].state = db.invite[i].state /\ db'.invite[i].company = db.invite[i].company
    /\ \A c \in Companies :
          \/ db'.company[c].exists = db.company[c].exists /\ db'.company[c].plan = db.company[c].plan
          \/ c = m
    /\ req'[m].at = "ok" => ~db'.company[m].exists
    /\ req[m].at \in Mailed => req'[m].at \in Mailed

KindKept(u) ==
    \/ db'.user[u] = db.user[u]
    \/ Known(u) /\ Known(u)' /\ db'.user[u].kind = db.user[u].kind /\ db'.user[u].phone = db.user[u].phone
PeopleKept(m) == \A u \in Users : KindKept(u) \/ (u = m /\ RowNew(u))

LEMMA PeopleStay ==
    ASSUME NEW m, PeopleKept(m)
    PROVE  UsersStay
<1>1. \A u \in Users : RowNew(u) => ~Known(u)
  BY DEF RowNew, Known
<1>2. \A u \in Users : KindKept(u) => (Known(u) => Known(u)') /\ (Employer(u) => Employer(u)') /\ (Personal(u) => Personal(u)')
  BY DEF KindKept, Known, Employer, Personal
<1> QED
  BY <1>1, <1>2 DEF PeopleKept, UsersStay, Employer, Personal

LEMMA StandingSame ==
    ASSUME HistoryOK, NEW m \in Requests, Moves(m), Stays(m)
    PROVE  /\ ~Standing(m) /\ \A c : Standing(c)' <=> Standing(c)
           /\ \A c : Standing(c) => db'.company[c].plan = db.company[c].plan
<1>1. ~Ended(m)
  BY DEF Moves, Begins, Begin, GoesOn, Open, Ended, At, Ends
<1>2. ~Standing(m) /\ ~Standing(m)'
  BY <1>1 DEF Standing, Stays, Ended, Ends, At
<1>3. ASSUME NEW c \in Companies, c # m PROVE Standing(c)' <=> Standing(c)
  <2>1. c \in Requests => (At(c, "ok")' <=> At(c, "ok"))
    BY <1>3, OthersStay DEF At
  <2> QED
    BY <1>3, <2>1 DEF Stays, Standing, Companies
<1>4. \A c : Standing(c) \/ Standing(c)' => c \in Companies
  BY DEF Standing, Companies
<1>5. \A c : Standing(c) => db'.company[c].plan = db.company[c].plan
  BY <1>2, <1>4 DEF Stays
<1> QED
  BY <1>2, <1>3, <1>4, <1>5

LEMMA MembersSame ==
    ASSUME NEW m, Stays(m), NEW c
    PROVE  /\ In(c)' = In(c) /\ Invited(c)' = Invited(c) /\ \A role : InRole(c, role)' = InRole(c, role)
           /\ SeatsUsed(c)' = SeatsUsed(c)
<1>1. In(c)' = In(c) /\ Invited(c)' = Invited(c)
  BY DEF Stays, In, Invited, Users
<1>2. \A role : InRole(c, role)' = InRole(c, role)
  BY <1>1 DEF Stays, InRole
<1> QED
  BY <1>1, <1>2 DEF SeatsUsed

\* Nobody is in a company that does not stand.
LEMMA NobodyThere ==
    ASSUME Rows, NEW c \in Companies, ~Standing(c)
    PROVE  In(c) = {} /\ Invited(c) = {} /\ (\A role : InRole(c, role) = {}) /\ SeatsUsed(c) = 0
<1>1. In(c) = {} /\ Invited(c) = {}
  BY DEF Rows, In, Invited
<1>2. \A role : InRole(c, role) = {}
  BY <1>1 DEF InRole
<1> QED
  BY <1>1, <1>2, FS_EmptySet DEF SeatsUsed

LEMMA StaysMove ==
    ASSUME FirmInv, HistoryOK, NEW m \in Requests, Moves(m), Stays(m), PeopleKept(m), MarkMove(m)
    PROVE  FirmMove(m) /\ Rows' /\ \A c \in Companies : Staffed(c)'
<1>1. /\ ~Standing(m) /\ \A c : Standing(c)' <=> Standing(c)
      /\ \A c : Standing(c) => db'.company[c].plan = db.company[c].plan
  BY StandingSame
<1>2. \A c : /\ In(c)' = In(c) /\ Invited(c)' = Invited(c) /\ \A role : InRole(c, role)' = InRole(c, role)
             /\ SeatsUsed(c)' = SeatsUsed(c)
  BY MembersSame
<1>3. UsersStay
  BY PeopleStay
<1>4. \A c \in Companies : SeatsUsed(c) \in Nat
  BY SeatsAreNat DEF FirmInv
<1>5. \A c : Standing(c) => Changes(m, c)
  BY <1>1, <1>2, <1>4 DEF Changes, Standing
<1>6. OwnRows(m)
  BY DEF Stays, OwnRows, Companies, Users
<1>7. FirmMove(m)
  BY <1>2, <1>3, <1>5, <1>6 DEF FirmMove, SameMembers
<1>8. Rows'
  <2>1. \A u \in Users : db'.member[u] # Nil => db'.member[u] \in MemberRow /\ Standing(db'.member[u].company) /\ Employer(u)'
    BY <1>3 DEF FirmInv, Rows, Stays, UsersStay
  <2>2. \A c : c \in Companies => IsFiniteSet(In(c)') /\ IsFiniteSet(Invited(c)')
    BY <1>2 DEF FirmInv, Rows
  <2>3. \A u \in Users : Known(u)' /\ db'.user[u].phone \in Phones => Personal(u)'
    <3> SUFFICES ASSUME NEW u \in Users, Known(u)', db'.user[u].phone \in Phones PROVE Personal(u)'
      OBVIOUS
    <3>1. CASE RowNew(u)
      BY <3>1 DEF RowNew, Personal
    <3>2. CASE KindKept(u)
      BY <3>2 DEF KindKept, Personal, Known, FirmInv, Rows
    <3> QED
      BY <3>1, <3>2 DEF PeopleKept
  <2>4. \A u \in Users : \A c : db'.member[u] # Nil /\ c = db'.member[u].company => Standing(c)'
    BY <1>1, <2>1
  <2>5. \A i \in Users : \A c : db'.invite[i].state = "open" /\ c = db'.invite[i].company => Standing(c)'
    BY <1>1 DEF FirmInv, Rows, Stays
  <2> QED
    BY <2>1, <2>2, <2>3, <2>4, <2>5 DEF Rows
<1>9. ASSUME NEW c \in Companies PROVE Staffed(c)'
  <2>1. Staffed(c)
    BY DEF FirmInv, FirmRow
  <2>2. /\ TransferredAway => TransferredAway'
        /\ Crossed => Crossed'
        /\ RemovedBoth => RemovedBoth'
        /\ InvitedBoth => InvitedBoth'
    BY ExceptionsStay
  <2>3. InvitedBoth' \/ Crossed' \/ TransferredAway' \/ SeatsUsed(c)' <= SeatLimit(db'.company[c].plan)
    <3>1. CASE Standing(c)
      BY <1>1, <1>2, <2>1, <2>2, <3>1 DEF Staffed
    <3>2. CASE ~Standing(c)
      BY <1>2, <3>2, NobodyThere DEF FirmInv, SeatLimit
    <3> QED
      BY <3>1, <3>2
  <2> QED
    BY <1>1, <1>2, <2>1, <2>2, <2>3 DEF Staffed
<1> QED
  BY <1>7, <1>8, <1>9

LEMMA TablesAside ==
    ASSUME NamesInv, FirmShape, NEW r
    PROVE  \A x :
              /\ db' = db => Aside(r)
              /\ db' = [db EXCEPT !.token = x] => Aside(r)
              /\ db' = [db EXCEPT !.link = x] => Aside(r)
              /\ db' = [db EXCEPT !.oauth = x] => Aside(r)
              /\ db' = [db EXCEPT !.code = x] => Aside(r)
              /\ db' = [db EXCEPT !.pending = x] => Aside(r)
              /\ db' = [db EXCEPT !.identity = x] => Aside(r)
              /\ db' = [db EXCEPT !.sms = x] => Aside(r)
              /\ db' = [db EXCEPT !.signup = x] => Aside(r)
              /\ db' = [db EXCEPT !.bound = x] => Aside(r)
              /\ db' = [db EXCEPT !.icode = x] => Aside(r)
              /\ db' = [db EXCEPT !.google = x] => Aside(r)
              /\ db' = [db EXCEPT !.synced = x] => Aside(r)
              /\ db' = [db EXCEPT !.mailed = x] => Aside(r)
<1>1. FirmFields \subseteq DOMAIN db
  BY DEF FirmShape, NamesInv, UserShape, FirmFields
<1>2. ASSUME NEW f, f \notin FirmFields, NEW x, db' = [db EXCEPT ![f] = x] PROVE Aside(r)
  BY <1>1, <1>2, OtherFirmTables DEF Aside, UsersKept, RowKept
<1>3. db' = db => Aside(r)
  BY DEF Aside, SameFirms, UsersKept, RowKept
<1>4. \A f \in {"token", "link", "oauth", "code", "pending", "identity", "sms", "signup", "bound", "icode", "google", "synced", "mailed"} : f \notin FirmFields
  BY DEF FirmFields
<1> HIDE DEF FirmFields
<1> QED
  BY <1>2, <1>3, <1>4

\* A step that writes a user's password or login.
LEMMA RowAside ==
    ASSUME NamesInv, FirmShape, NEW r, NEW u, Known(u), NEW field \in {"pw", "login"}, NEW w,
           db' = [db EXCEPT !.user[u][field] = w], field = "pw" => w \in Users, field = "login" => w \in Logins
    PROVE  Aside(r)
<1> DEFINE row == [db.user[u] EXCEPT ![field] = w]
           table == [db.user EXCEPT ![u] = row]
<1>1. DOMAIN db.user = Users /\ u \in Users /\ db.user[u] \in UserRecord
  BY DEF NamesInv, UserShape, Known
<1>2. row \in UserRecord /\ \A f \in {"kind", "phone", "marked"} : row[f] = db.user[u][f]
  BY <1>1 DEF UserRecord
<1>3. db' = [db EXCEPT !.user = table]
  OBVIOUS
<1> HIDE DEF row
<1>4. /\ DOMAIN table = Users /\ table[u] = row
      /\ \A t \in Users : t # u => table[t] = db.user[t]
  BY <1>1
<1> HIDE DEF table
<1>5. db'.user = table /\ SameFirms(db', db)
  BY <1>3 DEF FirmShape, SameFirms, NamesInv, UserShape
<1>6. RowKept(u)
  BY <1>1, <1>2, <1>4, <1>5, SignUpAssumption DEF RowKept, Known
<1> QED
  BY <1>4, <1>5, <1>6 DEF Aside, UsersKept, RowKept

LEMMA SessionAside ==
    ASSUME NamesInv, CredentialInv, FirmShape, NEW r \in Requests, SessionStep(r), ~ArriveSession(r), ~ClearUser(r), ~ClearCompany(r)
    PROVE  Aside(r)
<1>0. HistoryOK /\ CameWith(r) /\ InHand(r) /\ r \in Users
  BY DEF CredentialInv, NamesInv, Users
<1>1. \A statement, v, tables : Do(r, statement, v, tables) => db' = tables
  BY <1>0, DoEffect
<1>2. \A x :
         /\ db' = db => Aside(r)
         /\ db' = [db EXCEPT !.token = x] => Aside(r)
         /\ db' = [db EXCEPT !.link = x] => Aside(r)
         /\ db' = [db EXCEPT !.oauth = x] => Aside(r)
         /\ db' = [db EXCEPT !.code = x] => Aside(r)
         /\ db' = [db EXCEPT !.pending = x] => Aside(r)
  BY TablesAside
<1>3. CASE Issue(r) \/ RevokeAll(r) \/ Refresh(r) \/ Rotate(r) \/ Logout(r) \/ Login(r)
  BY <1>1, <1>2, <1>3 DEF Issue, RevokeAll, Refresh, Rotate, Logout, Login, GoOn, End, Refuse
<1>4. CASE RequestReset(r) \/ IssueLink(r) \/ LinkRow(r) \/ ConfirmReset(r) \/ ConsumeLink(r, "consumeReset", "setPassword")
  BY <1>1, <1>2, <1>4 DEF RequestReset, IssueLink, LinkRow, ConfirmReset, ConsumeLink, GoOn, End, Refuse
<1>5. CASE OauthStart(r) \/ OauthCallback(r) \/ AppleCallback(r) \/ MintCode(r) \/ Exchange(r) \/ UseCode(r) \/ AppleNative(r)
  BY <1>1, <1>2, <1>5 DEF OauthStart, OauthCallback, AppleCallback, TakeState, MintCode, Exchange, UseCode, AppleNative, GoOn, End, Refuse
<1>6. CASE FindIdentity(r) \/ FindLogin(r) \/ OauthIdentity(r) \/ OauthEmail(r) \/ OauthLogin(r)
  BY <1>1, <1>2, <1>6 DEF FindIdentity, FindLogin, OauthIdentity, OauthEmail, OauthLogin, Found, GoOn, End, Refuse
<1>7. CASE SetPassword(r)
  <2>1. Known(req[r].v)
    BY <1>0, <1>7 DEF InHand, HasUser, SetPassword, At
  <2>2. db' = [db EXCEPT !.user[req[r].v]["pw"] = r]
    BY <1>1, <1>7 DEF SetPassword
  <2> QED
    BY <1>0, <2>1, <2>2, RowAside
<1>8. CASE OauthInsert(r)
  <2>1. req[r].v \in Logins /\ db.user[r] = Nil /\ Nil \notin Phones /\ At(r, "oauthInsert")
    BY <1>0, <1>8, SignUpAssumption DEF InHand, OauthInsert, Looks, At, NamesInv, FreshUsers, Inserted, Ends
  <2>2. Do(r, "clear", r, [db EXCEPT !.user[r] = UserRow("EMPLOYER", req[r].v, Nil, TRUE, Nil)]) => Aside(r)
    BY <1>0, <2>1, SignsAside DEF At
  <2> QED
    BY <1>1, <1>2, <1>8, <2>2 DEF OauthInsert, Found, GoOn, Refuse
<1> QED
  BY <1>3, <1>4, <1>5, <1>6, <1>7, <1>8 DEF SessionStep

LEMMA SignUpAside ==
    ASSUME NamesInv, CredentialInv, FirmShape, NEW r \in Requests, SignUpStep(r), ~ArriveSignUp(r)
    PROVE  Aside(r)
<1>0. HistoryOK /\ CameWith(r) /\ InHand(r) /\ r \in Users
  BY DEF CredentialInv, NamesInv, Users
<1>1. \A statement, v, tables : Do(r, statement, v, tables) => db' = tables
  BY <1>0, DoEffect
<1>2. \A x :
         /\ db' = db => Aside(r)
         /\ db' = [db EXCEPT !.sms = x] => Aside(r)
         /\ db' = [db EXCEPT !.identity = x] => Aside(r)
         /\ db' = [db EXCEPT !.bound = x] => Aside(r)
         /\ db' = [db EXCEPT !.link = x] => Aside(r)
         /\ db' = [db EXCEPT !.signup = x] => Aside(r)
  BY TablesAside
<1>3. CASE SendPhone(r) \/ ConsumeOpen(r) \/ InsertCode(r) \/ VerifyPhone(r) \/ Bump(r) \/ ConsumeCode(r) \/ Owner(r)
  BY <1>1, <1>2, <1>3 DEF SendPhone, ConsumeOpen, InsertCode, VerifyPhone, Bump, ConsumeCode, Owner, GoOn, End, Refuse
<1>4. CASE Me(r) \/ Providers(r) \/ Taken(r) \/ BindLogin(r) \/ BindLoginInsert(r) \/ BindPhone(r) \/ BindPhoneInsert(r) \/ RacedUser(r)
  BY <1>1, <1>2, <1>4 DEF Me, Providers, Taken, BindLogin, BindLoginInsert, BindPhone, BindPhoneInsert, RacedUser, GoOn, End, Refuse
<1>5. CASE Signup(r) \/ UpsertSignup(r) \/ Verify(r) \/ ConsumeLink(r, "consumeVerify", "emailOwner") \/ EmailOwner(r)
  BY <1>1, <1>2, <1>5 DEF Signup, UpsertSignup, Verify, ConsumeLink, EmailOwner, GoOn, End, Refuse
<1>6. CASE SetSocial(r)
  <2>1. Known(req[r].v) /\ req[r].arg.login \in Logins
    BY <1>0, <1>6 DEF InHand, CameWith, HasUser, Links, SetSocial, At
  <2>2. db' = [db EXCEPT !.user[req[r].v]["login"] = req[r].arg.login] => Aside(r)
    BY <2>1, RowAside
  <2> QED
    BY <1>1, <1>2, <1>6, <2>2 DEF SetSocial, Pending, Refuse, GoOn
<1>7. CASE DropSignup(r)
  <2>1. PICK x, y : db' = [[db EXCEPT !.signup = x] EXCEPT !.link = y]
    BY <1>1, <1>7 DEF DropSignup
  <2>2. SameFirms(db', db) /\ db'.user = db.user
    BY <2>1 DEF FirmShape, SameFirms, NamesInv, UserShape
  <2> QED
    BY <2>2 DEF Aside, UsersKept, RowKept
<1>8. req[r].at \in {"insertUser", "insertSocial", "insertPlain", "insertEmail"} => db.user[r] = Nil
  BY DEF NamesInv, FreshUsers, Inserted, Ends
<1>9. \A statement, v, kind, l, phone, email, pw :
         /\ Do(r, statement, v, [db EXCEPT !.user[r] = UserRow(kind, l, phone, email, pw)])
         /\ kind \in {"PERSONAL", "EMPLOYER"} /\ db.user[r] = Nil
         /\ (phone \in Phones \/ req[r].at \notin {"oauthInsert", "insertEmail"} => kind = "PERSONAL")
         /\ l \in Logins \cup {Nil} /\ phone \in Phones \cup {Nil} /\ email \in BOOLEAN /\ pw \in Users \cup {Nil}
         => Aside(r)
  BY <1>0, SignsAside
<1>10. CASE InsertUser(r)
  <2>1. req[r].arg.phone \in Phones /\ db.user[r] = Nil
    BY <1>0, <1>8, <1>10 DEF InHand, CameWith, InsertUser, Verifies, At
  <2>2. Do(r, "bindPhone", r, [db EXCEPT !.user[r] = UserRow("PERSONAL", Nil, req[r].arg.phone, FALSE, Nil)]) => Aside(r)
    BY <1>9, <2>1
  <2> QED
    BY <1>1, <1>2, <1>10, <2>2 DEF InsertUser, GoOn
<1>11. CASE InsertEmail(r)
  <2>1. req[r].v.pw \in Users \cup {Nil} /\ db.user[r] = Nil /\ Nil \notin Phones /\ req[r].at = "insertEmail"
    BY <1>0, <1>8, <1>11, SignUpAssumption DEF InHand, InsertEmail, At
  <2>2. Do(r, "dropSignup", req[r].v, [db EXCEPT !.user[r] = UserRow("EMPLOYER", Nil, Nil, TRUE, req[r].v.pw)]) => Aside(r)
    BY <1>9, <2>1
  <2> QED
    BY <1>1, <1>2, <1>11, <2>2 DEF InsertEmail, Refuse, GoOn
<1>12. ASSUME NEW at \in {"insertSocial", "insertPlain"}, NEW raced, NEW email \in BOOLEAN, InsertSocial(r, at, raced, email)
       PROVE  Aside(r)
  <2>1. req[r].arg.phone \in Phones /\ req[r].arg.login \in Logins /\ db.user[r] = Nil
    BY <1>0, <1>8, <1>12 DEF InHand, CameWith, InsertSocial, Creates, Links, At
  <2>2. Do(r, "bindLogin", r, [db EXCEPT !.user[r] = UserRow("PERSONAL", req[r].arg.login, req[r].arg.phone, email, Nil)]) => Aside(r)
    BY <1>9, <2>1
  <2> QED
    BY <1>1, <1>2, <1>12, <2>2 DEF InsertSocial, Pending, GoOn
<1>13. CASE CreateFromPending(r)
  <2>1. (req[r].do = "verifyPhone" /\ Pending(r) \in WithEmail) \in BOOLEAN
    OBVIOUS
  <2>2. \A at, raced, retry : CreateRaced(r, at, retry) => Aside(r)
    BY <1>1, <1>2 DEF CreateRaced, GoOn, Refuse
  <2> QED
    BY <1>12, <1>13, <2>1, <2>2 DEF CreateFromPending
<1> QED
  BY <1>3, <1>4, <1>5, <1>6, <1>7, <1>10, <1>11, <1>13 DEF SignUpStep

LEMMA GoogleAside ==
    ASSUME NamesInv, CredentialInv, FirmShape, NEW r \in Requests, GoogleStep(r), ~ArriveGoogle(r)
    PROVE  Aside(r)
<1>0. HistoryOK
  BY DEF CredentialInv
<1>1. \A statement, v, tables : Do(r, statement, v, tables) => db' = tables
  BY <1>0, DoEffect
<1>2. \A x :
         /\ db' = db => Aside(r)
         /\ db' = [db EXCEPT !.oauth = x] => Aside(r)
         /\ db' = [db EXCEPT !.icode = x] => Aside(r)
         /\ db' = [db EXCEPT !.google = x] => Aside(r)
         /\ db' = [db EXCEPT !.synced = x] => Aside(r)
  BY TablesAside
<1>3. ASSUME NEW x, NEW y, NEW z,
             \/ db' = [[db EXCEPT !.oauth = x] EXCEPT !.asked = y]
             \/ db' = [[[db EXCEPT !.google = x] EXCEPT !.synced = y] EXCEPT !.relisted = z]
             \/ db' = [[db EXCEPT !.synced = x] EXCEPT !.relisted = y]
      PROVE  Aside(r)
  <2>1. SameFirms(db', db) /\ db'.user = db.user
    BY <1>3 DEF FirmShape, SameFirms, NamesInv, UserShape
  <2> QED
    BY <2>1 DEF Aside, UsersKept, RowKept
<1>4. CASE GoogleConnect(r)
  <2>1. PICK x, y : db' = [[db EXCEPT !.oauth = x] EXCEPT !.asked = y]
    BY <1>1, <1>4 DEF GoogleConnect, End
  <2> QED
    BY <1>3, <2>1
<1>5. CASE Wipe(r)
  <2>1. PICK x, y, z : db' = [[[db EXCEPT !.google = x] EXCEPT !.synced = y] EXCEPT !.relisted = z]
    BY <1>1, <1>5 DEF Wipe, Wiped, End
  <2> QED
    BY <1>3, <2>1
<1>6. CASE GoogleCallback(r) \/ GoogleCode(r) \/ GoogleComplete(r) \/ UseIntegrationCode(r) \/ Connection(r) \/ GoogleDisconnect(r)
  BY <1>1, <1>2, <1>6 DEF GoogleCallback, GoogleCode, GoogleComplete, UseIntegrationCode, Connection, PutIntegration,
     GoogleDisconnect, GoOn, End, Refuse
<1>7. CASE GoogleSync(r) \/ Refreshed(r) \/ SyncRow(r)
  BY <1>1, <1>2, <1>7 DEF GoogleSync, Refreshed, SyncRow, PutIntegration, GoOn, End, Refuse
<1>9. CASE List(r)
  <2>1. \A x : db' = [db EXCEPT !.relisted = x] => Aside(r)
    <3>1. FirmFields \subseteq DOMAIN db /\ "relisted" \notin FirmFields
      BY DEF FirmShape, NamesInv, UserShape, FirmFields
    <3> QED
      BY <3>1, OtherFirmTables DEF Aside, UsersKept, RowKept
  <2> QED
    BY <1>1, <1>2, <1>9, <2>1 DEF List, GoOn, Refuse
<1>8. CASE Persist(r)
  BY <1>1, <1>2, <1>3, <1>8 DEF Persist, GoOn, End, Refuse
<1> QED
  BY <1>4, <1>5, <1>6, <1>7, <1>8, <1>9 DEF GoogleStep

-----------------------------------------------------------------------------
\* Where a step leads.
BusinessPlaces == {"verifyBusiness", "completeFirm", "insertFirm", "insertAdmin", "undoFirm"}
InvitePlaces   == {"invite", "inviteMember", "invitePending", "inviteCount", "inviteRow"}
AcceptPlaces   == {"acceptInvite", "acceptUser", "join"}
RemovePlaces   == {"removeMember", "removeTarget", "countAdmins", "removeRow"}
TransferPlaces == {"transferAdmin", "transferTarget", "transfer", "transferWrite"}
ExchangePlaces == {"useCode", "oauthIdentity", "oauthEmail", "oauthLogin", "oauthInsert"}
PersonPlaces   == Links \cup {"bindPhone", "bindPhoneInsert"}
NamedPlaces    == BusinessPlaces \cup InvitePlaces \cup AcceptPlaces \cup RemovePlaces \cup TransferPlaces \cup ExchangePlaces \cup
                  PersonPlaces \cup {"markFirm", "login", "clear"}
HandPlaces     == {"inviteMember", "invitePending", "inviteCount", "inviteRow", "removeTarget", "countAdmins", "removeRow",
                   "transferTarget", "transfer", "transferWrite", "acceptUser", "join", "markUser", "cancelPlans", "markFirm", "insertAdmin"}

LEMMA PlaceLands ==
    ASSUME HistoryOK, NEW r \in Requests, Open(r), FirmPlace(r), UsersStay,
           NEW statement, NEW v, NEW tables, Do(r, statement, v, tables)
    PROVE  /\ statement \notin NamedPlaces => FirmPlace(r)'
           /\ statement \in BusinessPlaces /\ req[r].do = "verifyBusiness" => FirmPlace(r)'
           /\ statement \in InvitePlaces /\ req[r].do = "invite" => FirmPlace(r)'
           /\ statement \in AcceptPlaces /\ req[r].do = "acceptInvite" => FirmPlace(r)'
           /\ statement \in RemovePlaces /\ req[r].do = "removeMember" => FirmPlace(r)'
           /\ statement \in TransferPlaces /\ req[r].do = "transferAdmin" => FirmPlace(r)'
           /\ statement = "markFirm" /\ req[r].do = "deleteAccount" => FirmPlace(r)'
           /\ statement \in ExchangePlaces /\ req[r].do = "exchange" => FirmPlace(r)'
           /\ statement \in PersonPlaces /\ Personal(v)' => FirmPlace(r)'
           /\ statement = "clear" /\ (req[r].do \in {"login", "exchange"} \/ Personal(v)') => FirmPlace(r)'
<1>1. /\ req'[r].do = req[r].do /\ req'[r].arg = req[r].arg /\ req'[r].at = statement
      /\ statement \notin Ends => req'[r].v = v
  BY DoEffect
<1>2. By(r)' = By(r) /\ ~At(r, "new")
  BY <1>1 DEF By, Open
<1>3. /\ req'[r].do \in {"verifyBusiness", "acceptInvite"} => Employer(By(r))'
      /\ req'[r].do \in {"invite", "removeMember", "transferAdmin", "deleteAccount"} => Known(By(r))'
  <2>1. req[r].do \in {"verifyBusiness", "acceptInvite"} => Employer(By(r)) /\ By(r) \in Users
    BY <1>2 DEF FirmPlace, Employer, Known
  <2>2. req[r].do \in {"invite", "removeMember", "transferAdmin", "deleteAccount"} => Known(By(r)) /\ By(r) \in Users
    BY <1>2 DEF FirmPlace, Known
  <2>3. \A u : u = By(r) /\ u \in Users => (Known(u) => Known(u)') /\ (Employer(u) => Employer(u)')
    BY DEF UsersStay
  <2>4. \A u : u = By(r) => (Known(u)' => Known(By(r))') /\ (Employer(u)' => Employer(By(r))')
    BY <1>2
  <2> QED
    BY <1>1, <2>1, <2>2, <2>3, <2>4
<1>4. statement \notin Ends /\ Personal(v)' => Personal(req[r].v)'
  BY <1>1 DEF Personal, Known
<1>5. statement \notin NamedPlaces => FirmPlace(r)'
  BY <1>1, <1>3 DEF FirmPlace, At, NamedPlaces, BusinessPlaces, InvitePlaces, AcceptPlaces, RemovePlaces, TransferPlaces, ExchangePlaces, PersonPlaces
<1>6. /\ statement \in BusinessPlaces /\ req[r].do = "verifyBusiness" => FirmPlace(r)'
      /\ statement \in InvitePlaces /\ req[r].do = "invite" => FirmPlace(r)'
      /\ statement \in AcceptPlaces /\ req[r].do = "acceptInvite" => FirmPlace(r)'
  BY <1>1, <1>3 DEF FirmPlace, At, BusinessPlaces, InvitePlaces, AcceptPlaces, Links
<1>7. /\ statement \in RemovePlaces /\ req[r].do = "removeMember" => FirmPlace(r)'
      /\ statement \in TransferPlaces /\ req[r].do = "transferAdmin" => FirmPlace(r)'
      /\ statement = "markFirm" /\ req[r].do = "deleteAccount" => FirmPlace(r)'
      /\ statement \in ExchangePlaces /\ req[r].do = "exchange" => FirmPlace(r)'
  BY <1>1, <1>3 DEF FirmPlace, At, RemovePlaces, TransferPlaces, ExchangePlaces, Links
<1>8. /\ statement \in PersonPlaces /\ Personal(v)' => FirmPlace(r)'
      /\ statement = "clear" /\ (req[r].do \in {"login", "exchange"} \/ Personal(v)') => FirmPlace(r)'
  BY <1>1, <1>3, <1>4 DEF FirmPlace, At, PersonPlaces, Links, Ends
<1> QED
  BY <1>5, <1>6, <1>7, <1>8

\* It leads to places of this section's.
Landed(r) == req'[r].at \notin HandPlaces /\ FirmPlace(r)'

LEMMA SessionPlaces ==
    ASSUME NamesInv, CredentialInv, NEW r \in Requests, SessionStep(r), ~ArriveSession(r), FirmPlace(r), UsersStay
    PROVE  Landed(r)
<1>0. HistoryOK /\ InHand(r) /\ NamesLead
  BY DEF CredentialInv, NamesInv
<1>1. \A statement, v, tables : Do(r, statement, v, tables) => req'[r].at = statement
  BY <1>0, DoEffect
<1>2. ASSUME NEW statement \in {"ok", "refused", "killed", "revokeAll", "clearCompany", "issue", "rotate", "issueLink", "linkRow",
                                "consumeReset", "setPassword", "mint", "findIdentity", "findLogin"},
             NEW v, NEW tables, Do(r, statement, v, tables), Open(r)
      PROVE  Landed(r)
  <2>1. statement \notin NamedPlaces \cup HandPlaces
    BY <1>2 DEF NamedPlaces, HandPlaces, BusinessPlaces, InvitePlaces, AcceptPlaces, RemovePlaces, TransferPlaces, ExchangePlaces,
       PersonPlaces, Links
  <2> QED
    BY <1>0, <1>1, <1>2, <2>1, PlaceLands DEF Landed
<1>3. ASSUME NEW statement \in ExchangePlaces, NEW v, NEW tables, Do(r, statement, v, tables), Open(r), req[r].do = "exchange"
      PROVE  Landed(r)
  <2>1. statement \notin HandPlaces
    BY <1>3 DEF HandPlaces, ExchangePlaces
  <2> QED
    BY <1>0, <1>1, <1>3, <2>1, PlaceLands DEF Landed
<1>4. ASSUME NEW v, NEW tables, Do(r, "clear", v, tables), Open(r), req[r].do \in {"login", "exchange"} \/ Personal(v)'
      PROVE  Landed(r)
  BY <1>0, <1>1, <1>4, PlaceLands DEF Landed, HandPlaces
<1>5. CASE Issue(r) \/ RevokeAll(r) \/ ClearUser(r) \/ ClearCompany(r) \/ Refresh(r) \/ Rotate(r) \/ Logout(r)
  <2>1. Open(r)
    BY <1>5 DEF Issue, RevokeAll, ClearUser, ClearCompany, Refresh, Rotate, Logout, Open, Ended, Ends, At
  <2> QED
    BY <1>2, <1>5, <2>1 DEF Issue, RevokeAll, ClearUser, ClearCompany, Refresh, Rotate, Logout, GoOn, End, Refuse
<1>6. CASE Login(r)
  <2>1. Open(r) /\ req[r].do = "login"
    BY <1>6 DEF Login, Open, Ended, Ends, At, FirmPlace
  <2> QED
    BY <1>2, <1>4, <1>6, <2>1 DEF Login, GoOn, Refuse
<1>7. CASE RequestReset(r) \/ IssueLink(r) \/ LinkRow(r) \/ ConfirmReset(r) \/ ConsumeLink(r, "consumeReset", "setPassword") \/ SetPassword(r)
  <2>1. Open(r)
    BY <1>7 DEF RequestReset, IssueLink, LinkRow, ConfirmReset, ConsumeLink, SetPassword, Open, Ended, Ends, At
  <2> QED
    BY <1>2, <1>7, <2>1 DEF RequestReset, IssueLink, LinkRow, ConfirmReset, ConsumeLink, SetPassword, GoOn, End, Refuse
<1>8. CASE OauthStart(r) \/ OauthCallback(r) \/ AppleCallback(r) \/ MintCode(r) \/ AppleNative(r)
  <2>1. Open(r)
    BY <1>8 DEF OauthStart, OauthCallback, AppleCallback, TakeState, MintCode, AppleNative, Open, Ended, Ends, At
  <2> QED
    BY <1>2, <1>8, <2>1 DEF OauthStart, OauthCallback, AppleCallback, TakeState, MintCode, AppleNative, GoOn, End, Refuse
<1>9. CASE Exchange(r) \/ UseCode(r)
  <2>1. Open(r) /\ req[r].do = "exchange" /\ "useCode" \in ExchangePlaces /\ "oauthIdentity" \in ExchangePlaces
    BY <1>0, <1>9 DEF Exchange, UseCode, Open, Ended, Ends, At, FirmPlace, InHand, ExchangePlaces
  <2> QED
    BY <1>2, <1>3, <1>9, <2>1 DEF Exchange, UseCode, GoOn, Refuse
<1>10. ASSUME NEW u, Known(u), Found(r, u, "PERSONAL"), Open(r) PROVE Landed(r)
  <2>1. db.user[u].kind = "PERSONAL" => Personal(u)'
    BY <1>10 DEF UsersStay, Personal, Known
  <2> QED
    BY <1>2, <1>4, <1>10, <2>1 DEF Found, GoOn, Refuse
<1>11. CASE FindIdentity(r) \/ FindLogin(r)
  <2>1. Open(r) /\ req[r].v \in Logins
    BY <1>0, <1>11 DEF FindIdentity, FindLogin, Open, Ended, Ends, At, InHand, Looks
  <2>2. (db.identity[req[r].v] # Nil => Known(db.identity[req[r].v])) /\ \A u \in ByLogin(req[r].v) : Known(u)
    BY <1>0, <2>1 DEF NamesLead, Known, ByLogin
  <2> QED
    BY <1>2, <1>10, <1>11, <2>1, <2>2 DEF FindIdentity, FindLogin, GoOn, End, Refuse
<1>12. CASE OauthIdentity(r) \/ OauthEmail(r) \/ OauthLogin(r) \/ OauthInsert(r)
  <2>1. Open(r) /\ req[r].do = "exchange" /\ {"oauthEmail", "oauthLogin", "oauthInsert"} \subseteq ExchangePlaces
    BY <1>0, <1>12 DEF OauthIdentity, OauthEmail, OauthLogin, OauthInsert, Open, Ended, Ends, At, FirmPlace, ExchangePlaces
  <2>2. \A u, kind : Found(r, u, kind) => Landed(r)
    BY <1>2, <1>4, <2>1 DEF Found, GoOn, Refuse
  <2> QED
    BY <1>2, <1>3, <1>4, <1>12, <2>1, <2>2 DEF OauthIdentity, OauthEmail, OauthLogin, OauthInsert, GoOn, Refuse
<1> QED
  BY <1>5, <1>6, <1>7, <1>8, <1>9, <1>11, <1>12 DEF SessionStep

LEMMA SignUpPlaces ==
    ASSUME NamesInv, CredentialInv, NEW r \in Requests, SignUpStep(r), ~ArriveSignUp(r), FirmPlace(r), UsersStay,
           \A u \in Users : Known(u) /\ db.user[u].phone \in Phones => Personal(u),
           req[r].at \in {"insertUser", "insertSocial", "insertPlain"} /\ Known(r)' => Personal(r)'
    PROVE  Landed(r)
<1>0. HistoryOK /\ InHand(r) /\ CameWith(r) /\ r \in Users
  BY DEF CredentialInv, NamesInv, Users
<1>1. \A statement, v, tables : Do(r, statement, v, tables) => req'[r].at = statement
  BY <1>0, DoEffect
<1>2. ASSUME NEW statement \in {"ok", "refused", "killed", "consumeOpen", "insertCode", "bump", "expireCode", "consumeCode", "owner",
                                "insertUser", "racedUser", "insertSocial", "raced", "insertPlain", "racedAgain", "upsertSignup",
                                "issueLink", "consumeVerify", "emailOwner", "insertEmail", "dropSignup", "issue"},
             NEW v, NEW tables, Do(r, statement, v, tables), Open(r)
      PROVE  Landed(r)
  <2>1. statement \notin NamedPlaces \cup HandPlaces
    BY <1>2 DEF NamedPlaces, HandPlaces, BusinessPlaces, InvitePlaces, AcceptPlaces, RemovePlaces, TransferPlaces, ExchangePlaces,
       PersonPlaces, Links
  <2> QED
    BY <1>0, <1>1, <1>2, <2>1, PlaceLands DEF Landed
<1>3. ASSUME NEW statement \in PersonPlaces \cup {"clear"}, NEW v, NEW tables, Do(r, statement, v, tables), Open(r), Personal(v) \/ Personal(v)'
      PROVE  Landed(r)
  <2>1. statement \notin HandPlaces
    BY <1>3 DEF HandPlaces, PersonPlaces, Links
  <2>2. Personal(v)'
    BY <1>3 DEF UsersStay, Personal, Known
  <2> QED
    BY <1>0, <1>1, <1>3, <2>1, <2>2, PlaceLands DEF Landed
<1>4. /\ {"me", "providers", "taken", "setSocial", "bindLogin", "bindLoginInsert", "bindPhone", "bindPhoneInsert"} \subseteq PersonPlaces
      /\ {"insertSocial", "raced", "insertPlain", "racedAgain"} = Creates
  BY DEF PersonPlaces, Links, Creates
<1>5. CASE SendPhone(r) \/ ConsumeOpen(r) \/ InsertCode(r) \/ VerifyPhone(r) \/ Bump(r) \/ ConsumeCode(r)
  <2>1. Open(r)
    BY <1>5 DEF SendPhone, ConsumeOpen, InsertCode, VerifyPhone, Bump, ConsumeCode, Open, Ended, Ends, At
  <2> QED
    BY <1>2, <1>5, <2>1 DEF SendPhone, ConsumeOpen, InsertCode, VerifyPhone, Bump, ConsumeCode, GoOn, Refuse
<1>6. req[r].do = "verifyPhone" /\ Open(r) => \A u \in ByPhone(req[r].arg.phone) : Personal(u)
  BY <1>0 DEF CameWith, ByPhone, Known, Open
<1>7. CASE Owner(r) \/ RacedUser(r)
  <2>1. Open(r) /\ req[r].do = "verifyPhone"
    BY <1>0, <1>7 DEF Owner, RacedUser, Open, Ended, Ends, At, InHand, Verifies
  <2> QED
    BY <1>2, <1>3, <1>4, <1>6, <1>7, <2>1 DEF Owner, RacedUser, GoOn
<1>8. CASE Me(r) \/ Providers(r) \/ Taken(r) \/ SetSocial(r) \/ BindLogin(r) \/ BindLoginInsert(r) \/ BindPhone(r) \/ BindPhoneInsert(r)
  <2>1. Open(r) /\ Personal(req[r].v)
    BY <1>8 DEF Me, Providers, Taken, SetSocial, BindLogin, BindLoginInsert, BindPhone, BindPhoneInsert, Open, Ended, Ends, At,
       FirmPlace, Links
  <2>2. CASE Me(r) \/ Providers(r) \/ Taken(r) \/ SetSocial(r)
    BY <1>2, <1>3, <1>4, <2>1, <2>2 DEF Me, Providers, Taken, SetSocial, GoOn, Refuse
  <2>3. CASE BindLogin(r) \/ BindLoginInsert(r) \/ BindPhone(r) \/ BindPhoneInsert(r)
    BY <1>2, <1>3, <1>4, <2>1, <2>3 DEF BindLogin, BindLoginInsert, BindPhone, BindPhoneInsert, GoOn, Refuse
  <2> QED
    BY <1>8, <2>2, <2>3
<1>9. \A statement, tables :
         /\ Do(r, statement, r, tables) /\ statement \in {"bindPhone", "bindLogin"}
         /\ req[r].at \in {"insertUser", "insertSocial", "insertPlain"}
         => Landed(r)
  <2> SUFFICES ASSUME NEW statement \in {"bindPhone", "bindLogin"}, NEW tables, Do(r, statement, r, tables),
                      req[r].at \in {"insertUser", "insertSocial", "insertPlain"}
               PROVE  Landed(r)
    OBVIOUS
  <2>1. Open(r) /\ statement \in PersonPlaces
    BY <1>4 DEF Open, Ended, Ends, At
  <2>2. Known(r)'
    <3>1. InHand(r)'
      BY SignUpLands DEF Lands, UsersStay, Known
    <3>2. req'[r].at = statement /\ req'[r].v = r
      BY <1>0, DoEffect DEF Ends
    <3> QED
      BY <3>1, <3>2 DEF InHand, HasUser, Links
  <2> QED
    BY <1>3, <2>1, <2>2
<1>10. CASE InsertUser(r)
  <2>1. Open(r)
    BY <1>10 DEF InsertUser, Open, Ended, Ends, At
  <2> QED
    BY <1>2, <1>9, <1>10, <2>1 DEF InsertUser, GoOn, At
<1>11. CASE CreateFromPending(r)
  <2>1. Open(r) /\ req[r].do = "verifyPhone"
    BY <1>0, <1>4, <1>11 DEF CreateFromPending, InsertSocial, CreateRaced, Open, Ended, Ends, At, InHand, Creates
  <2>2. \A at \in {"insertSocial", "insertPlain"} : \A raced \in {"raced", "racedAgain"} : \A email : InsertSocial(r, at, raced, email) => Landed(r)
    BY <1>2, <1>9, <2>1 DEF InsertSocial, GoOn, At
  <2>3. \A at, retry : CreateRaced(r, at, retry) => Landed(r)
    BY <1>2, <1>3, <1>4, <1>6, <2>1 DEF CreateRaced, GoOn, Refuse
  <2> QED
    BY <1>11, <2>2, <2>3 DEF CreateFromPending
<1>12. CASE Signup(r) \/ UpsertSignup(r) \/ Verify(r) \/ ConsumeLink(r, "consumeVerify", "emailOwner")
  <2>1. Open(r)
    BY <1>12 DEF Signup, UpsertSignup, Verify, ConsumeLink, Open, Ended, Ends, At
  <2> QED
    BY <1>2, <1>12, <2>1 DEF Signup, UpsertSignup, Verify, ConsumeLink, GoOn, Refuse
<1>13. CASE EmailOwner(r) \/ InsertEmail(r) \/ DropSignup(r)
  <2>1. Open(r)
    BY <1>13 DEF EmailOwner, InsertEmail, DropSignup, Open, Ended, Ends, At
  <2> QED
    BY <1>2, <1>13, <2>1 DEF EmailOwner, InsertEmail, DropSignup, GoOn, Refuse
<1> QED
  BY <1>5, <1>7, <1>8, <1>10, <1>11, <1>12, <1>13 DEF SignUpStep

LEMMA GooglePlacesLand ==
    ASSUME HistoryOK, NEW r \in Requests, GoogleStep(r), ~ArriveGoogle(r), FirmPlace(r), UsersStay
    PROVE  Landed(r)
<1>1. \A statement, v, tables : Do(r, statement, v, tables) => req'[r].at = statement
  BY DoEffect
<1>2. ASSUME NEW statement \in GooglePlaces, NEW v, NEW tables, Do(r, statement, v, tables), Open(r)
      PROVE  Landed(r)
  <2>1. statement \notin NamedPlaces \cup HandPlaces
    BY <1>2 DEF GooglePlaces, NamedPlaces, HandPlaces, BusinessPlaces, InvitePlaces, AcceptPlaces, RemovePlaces, TransferPlaces, ExchangePlaces,
       PersonPlaces, Links
  <2> QED
    BY <1>1, <1>2, <2>1, PlaceLands DEF Landed
<1>3. GooglePlaces = {"ok", "refused", "googleCode", "useIntegrationCode", "connection", "wipe", "refreshed", "list", "persist", "syncRow"}
  BY DEF GooglePlaces
<1>4. CASE \/ GoogleConnect(r) \/ GoogleCallback(r) \/ GoogleCode(r) \/ GoogleComplete(r)
           \/ UseIntegrationCode(r) \/ Connection(r) \/ GoogleDisconnect(r) \/ Wipe(r)
  <2>1. Open(r)
    BY <1>4 DEF GoogleConnect, GoogleCallback, GoogleCode, GoogleComplete, UseIntegrationCode, Connection,
       GoogleDisconnect, Wipe, Open, Ended, Ends, At
  <2> QED
    BY <1>2, <1>3, <1>4, <2>1 DEF GoogleConnect, GoogleCallback, GoogleCode, GoogleComplete, UseIntegrationCode, Connection,
       GoogleDisconnect, Wipe, Refuse, GoOn, End
<1>5. CASE GoogleSync(r) \/ Refreshed(r) \/ List(r) \/ Persist(r) \/ SyncRow(r)
  <2>1. Open(r)
    BY <1>5 DEF GoogleSync, Refreshed, List, Persist, SyncRow, Open, Ended, Ends, At
  <2>2. CASE GoogleSync(r) \/ Refreshed(r)
    BY <1>2, <1>3, <2>1, <2>2 DEF GoogleSync, Refreshed, Refuse, GoOn
  <2>3. CASE List(r)
    BY <1>2, <1>3, <2>1, <2>3 DEF List, Refuse
  <2>4. CASE Persist(r)
    BY <1>2, <1>3, <2>1, <2>4 DEF Persist, Refuse, GoOn
  <2>5. CASE SyncRow(r)
    BY <1>2, <1>3, <2>1, <2>5 DEF SyncRow, Refuse
  <2> QED
    BY <1>5, <2>2, <2>3, <2>4, <2>5
<1> QED
  BY <1>4, <1>5 DEF GoogleStep

LEMMA StaysStep ==
    ASSUME FirmInv, NamesInv, HistoryOK, NEW m \in Requests, Moves(m), Stays(m), PeopleKept(m), MarkMove(m),
           FreshRows(m)', FirmPlace(m)', Hand(m)'
    PROVE  FirmInv'
<1>1. FirmMove(m) /\ Rows' /\ \A c \in Companies : Staffed(c)'
  BY StaysMove
<1> QED
  BY <1>1, FirmStep DEF Stays

\* The places that lead to few others.
Ways(m) ==
    /\ At(m, "clearCompany") => req'[m].at = "killed"
    /\ At(m, "revokeAll") /\ req[m].do = "deleteAccount" => req'[m].at \in {"ok", "killed"}
    /\ req[m].at \in Mailed => req'[m].at \in Mailed

SameMarks ==
    /\ \A c \in Companies : db'.company[c].marked => db.company[c].marked
    /\ \A u \in Users : db.member[u] # Nil /\ db.user[u].marked => db'.user[u].marked

LEMMA ClearingStays ==
    ASSUME HistoryOK, NEW m \in Requests, Moves(m), Ways(m)
    PROVE  (Deleted(m) => Deleted(m)') /\ \A u : (Clearing(u) => Clearing(u)')
<1>1. ~Ended(m)
  BY DEF Moves, Begins, Begin, GoesOn, Open, Ended, At, Ends
<1>2. Deleted(m) => Deleted(m)'
  BY <1>1, OthersStay DEF Deleted, Ways, Ended, Ends, At
<1>3. ASSUME NEW u, Clearing(u) PROVE Clearing(u)'
  <2>1. PICK r \in Requests :
           /\ ~At(r, "new") /\ req[r].do \in {"login", "exchange"}
           /\ At(r, "killed") \/ (At(r, "clearCompany") /\ req[r].v = u)
    BY <1>3 DEF Clearing
  <2>2. ~At(r, "new")' /\ req'[r].do \in {"login", "exchange"}
    BY <2>1, OthersStay
  <2>3. At(r, "killed")' \/ (At(r, "clearCompany")' /\ req'[r].v = u)
    BY <2>1, OthersStay DEF Ways, At, Ended, Ends
  <2> QED
    BY <2>2, <2>3 DEF Clearing
<1> QED
  BY <1>2, <1>3

LEMMA MarksSame ==
    ASSUME HistoryOK, NEW m \in Requests, Moves(m), Ways(m), SameMarks
    PROVE  MarkMove(m)
  BY ClearingStays DEF MarkMove, SameMarks

LEMMA HandEmpty ==
    ASSUME NEW r, req'[r].at \notin HandPlaces
    PROVE  Hand(r)'
  BY DEF HandPlaces, Hand, Founding, Works, OfFirm, AtFirm, Asking, Inviting, Removing, Transferring, Accepting, Deleting, Unhurried, AboutTo, At

LEMMA OwnRowsFresh ==
    ASSUME FirmInv, HistoryOK, NEW m \in Requests, Moves(m), Ways(m),
           db'.company[m].exists => db.company[m].exists,
           db'.invite[m].state # "none" => db.invite[m].state # "none",
           req[m].at \in {"insertAdmin", "undoFirm"} => req'[m].at \in {"undoFirm", "killed"}
    PROVE  FreshRows(m)' /\ (req'[m].at = "ok" => ~db'.company[m].exists)
<1>1. ~Ended(m) /\ FreshRows(m)
  BY DEF Moves, Begins, Begin, GoesOn, Open, Ended, At, Ends, FirmInv
<1> QED
  BY <1>1 DEF FreshRows, Born, Ways, Ended, Ends, At

LEMMA AsideStep ==
    ASSUME FirmInv, NamesInv, HistoryOK, NEW m \in Requests, Moves(m), Aside(m), Ways(m), FirmPlace(m)', Hand(m)',
           req[m].at \in {"insertAdmin", "undoFirm"} => req'[m].at \in {"undoFirm", "killed"}
    PROVE  FirmInv'
<1>1. m \in Companies /\ m \in Users
  BY DEF Companies, Users
<1>2. FreshRows(m)' /\ (req'[m].at = "ok" => ~db'.company[m].exists)
  BY <1>1, OwnRowsFresh DEF Aside, SameFirms
<1>3. Stays(m)
  BY <1>2 DEF Stays, Aside, SameFirms, FirmInv, FirmShape, Ways
<1>4. PeopleKept(m)
  BY DEF Aside, UsersKept, RowKept, PeopleKept, KindKept
<1>5. SameMarks
  <2>1. ASSUME NEW u \in Users, db.member[u] # Nil, db.user[u].marked PROVE db'.user[u].marked
    BY <2>1 DEF FirmInv, Rows, Employer, Known, Aside, UsersKept, RowKept, RowNew
  <2> QED
    BY <2>1 DEF SameMarks, Aside, SameFirms
<1> QED
  BY <1>2, <1>3, <1>4, <1>5, MarksSame, StaysStep

-----------------------------------------------------------------------------
\* The handlers of the other sections.
LEMMA SessionWays ==
    ASSUME HistoryOK, NEW r \in Requests, SessionStep(r), ~ArriveSession(r), ~ClearUser(r), ~ClearCompany(r)
    PROVE  /\ req[r].at \notin {"clear", "clearCompany", "inviteMail", "inviteUndo", "insertAdmin", "undoFirm"} \cup Ends
           /\ At(r, "revokeAll") /\ req[r].do = "deleteAccount" => req'[r].at = "ok"
<1>1. \A statement, v, tables : Do(r, statement, v, tables) => req'[r].at = statement
  BY DoEffect
<1>2. CASE Issue(r) \/ RevokeAll(r) \/ Refresh(r) \/ Rotate(r) \/ Logout(r) \/ Login(r)
  BY <1>1, <1>2 DEF Issue, RevokeAll, Refresh, Rotate, Logout, Login, At, Ends
<1>3. CASE \/ RequestReset(r) \/ IssueLink(r) \/ LinkRow(r) \/ ConfirmReset(r)
           \/ ConsumeLink(r, "consumeReset", "setPassword") \/ SetPassword(r) \/ OauthStart(r)
  BY <1>3 DEF RequestReset, IssueLink, LinkRow, ConfirmReset, ConsumeLink, SetPassword, OauthStart, At, Ends
<1>4. CASE OauthCallback(r) \/ AppleCallback(r) \/ MintCode(r) \/ Exchange(r) \/ UseCode(r) \/ AppleNative(r)
  BY <1>4 DEF OauthCallback, AppleCallback, TakeState, MintCode, Exchange, UseCode, AppleNative, At, Ends
<1>5. CASE FindIdentity(r) \/ FindLogin(r) \/ OauthIdentity(r) \/ OauthEmail(r) \/ OauthLogin(r) \/ OauthInsert(r)
  BY <1>5 DEF FindIdentity, FindLogin, OauthIdentity, OauthEmail, OauthLogin, OauthInsert, At, Ends
<1> QED
  BY <1>2, <1>3, <1>4, <1>5 DEF SessionStep

SignUpPlace == {"sendPhone", "consumeOpen", "insertCode", "verifyPhone", "bump", "expireCode", "consumeCode", "owner",
                "insertUser", "racedUser", "signup", "upsertSignup", "verify", "consumeVerify", "emailOwner", "insertEmail",
                "dropSignup", "bindPhone", "bindPhoneInsert"} \cup Links \cup Creates

LEMMA SignUpWays ==
    ASSUME NEW r \in Requests, SignUpStep(r), ~ArriveSignUp(r)
    PROVE  req[r].at \in SignUpPlace
<1>1. CASE SendPhone(r) \/ ConsumeOpen(r) \/ InsertCode(r) \/ VerifyPhone(r) \/ Bump(r) \/ ConsumeCode(r) \/ Owner(r)
  BY <1>1 DEF SendPhone, ConsumeOpen, InsertCode, VerifyPhone, Bump, ConsumeCode, Owner, At, SignUpPlace
<1>2. CASE Me(r) \/ Providers(r) \/ Taken(r) \/ SetSocial(r) \/ BindLogin(r) \/ BindLoginInsert(r)
  BY <1>2 DEF Me, Providers, Taken, SetSocial, BindLogin, BindLoginInsert, At, SignUpPlace, Links
<1>3. CASE BindPhone(r) \/ BindPhoneInsert(r) \/ InsertUser(r) \/ RacedUser(r) \/ CreateFromPending(r)
  BY <1>3 DEF BindPhone, BindPhoneInsert, InsertUser, RacedUser, CreateFromPending, InsertSocial, CreateRaced, At, SignUpPlace, Creates
<1>4. CASE \/ Signup(r) \/ UpsertSignup(r) \/ Verify(r) \/ ConsumeLink(r, "consumeVerify", "emailOwner")
           \/ EmailOwner(r) \/ InsertEmail(r) \/ DropSignup(r)
  BY <1>4 DEF Signup, UpsertSignup, Verify, ConsumeLink, EmailOwner, InsertEmail, DropSignup, At, SignUpPlace
<1> QED
  BY <1>1, <1>2, <1>3, <1>4 DEF SignUpStep

LEMMA GoogleWays ==
    ASSUME NEW r \in Requests, GoogleStep(r), ~ArriveGoogle(r)
    PROVE  req[r].at \in {"googleConnect", "googleCallback", "googleComplete", "googleDisconnect", "googleSync", "googleCode",
                          "useIntegrationCode", "connection", "wipe", "refreshed", "list", "persist", "syncRow"}
<1>1. CASE \/ GoogleConnect(r) \/ GoogleCallback(r) \/ GoogleCode(r) \/ GoogleComplete(r)
           \/ UseIntegrationCode(r) \/ Connection(r) \/ GoogleDisconnect(r) \/ Wipe(r)
  BY <1>1 DEF GoogleConnect, GoogleCallback, GoogleCode, GoogleComplete, UseIntegrationCode, Connection, GoogleDisconnect, Wipe, At
<1>2. CASE GoogleSync(r) \/ Refreshed(r) \/ List(r) \/ Persist(r) \/ SyncRow(r)
  BY <1>2 DEF GoogleSync, Refreshed, List, Persist, SyncRow, At
<1> QED
  BY <1>1, <1>2 DEF GoogleStep

LEMMA AsideUsers ==
    ASSUME NEW m, Aside(m)
    PROVE  PeopleKept(m) /\ UsersStay
<1>1. PeopleKept(m)
  BY DEF Aside, UsersKept, RowKept, PeopleKept, KindKept
<1> QED
  BY <1>1, PeopleStay

LEMMA AsideMoves ==
    ASSUME FirmInv, NamesInv, CredentialInv, NEW r \in Requests, Moves(r),
           \/ SessionStep(r) /\ ~ArriveSession(r) /\ ~ClearUser(r) /\ ~ClearCompany(r)
           \/ SignUpStep(r) /\ ~ArriveSignUp(r)
           \/ GoogleStep(r) /\ ~ArriveGoogle(r)
    PROVE  FirmInv'
<1>0. HistoryOK /\ FirmShape /\ FirmPlace(r) /\ Rows /\ r \in Users
  BY DEF CredentialInv, FirmInv, Users
<1>1. Aside(r)
  BY <1>0, SessionAside, SignUpAside, GoogleAside
<1>2. UsersStay
  BY <1>1, AsideUsers
<1>3. req[r].at \in {"insertUser", "insertSocial", "insertPlain"} /\ Known(r)' => Personal(r)'
  <2> SUFFICES ASSUME req[r].at \in {"insertUser", "insertSocial", "insertPlain"}, Known(r)' PROVE Personal(r)'
    OBVIOUS
  <2>1. db.user[r] = Nil
    BY DEF NamesInv, FreshUsers, Inserted, Ends
  <2>2. RowNew(r)
    BY <1>0, <1>1, <2>1 DEF Aside, UsersKept, RowKept, Known
  <2> QED
    BY <2>2 DEF RowNew, Personal
<1>4. Landed(r)
  BY <1>0, <1>2, <1>3, SessionPlaces, SignUpPlaces, GooglePlacesLand DEF Rows
<1>5. Ways(r) /\ req[r].at \notin {"insertAdmin", "undoFirm"}
  <2>1. CASE SessionStep(r) /\ ~ArriveSession(r) /\ ~ClearUser(r) /\ ~ClearCompany(r)
    BY <1>0, <2>1, SessionWays DEF Ways, Mailed, Ends, At
  <2>2. CASE SignUpStep(r) /\ ~ArriveSignUp(r)
    BY <2>2, SignUpWays DEF SignUpPlace, Links, Creates, Ways, Mailed, Ends, At
  <2>3. CASE GoogleStep(r) /\ ~ArriveGoogle(r)
    BY <2>3, GoogleWays DEF Ways, Mailed, Ends, At
  <2> QED
    BY <2>1, <2>2, <2>3
<1>6. Hand(r)'
  BY <1>4, HandEmpty DEF Landed
<1> QED
  BY <1>0, <1>1, <1>4, <1>5, <1>6, AsideStep DEF Landed

LEMMA ClearsUser ==
    ASSUME FirmInv, NamesInv, CredentialInv, NEW r \in Requests, Moves(r), ClearUser(r)
    PROVE  FirmInv'
<1>0. /\ HistoryOK /\ FirmShape /\ FirmPlace(r) /\ Rows /\ InHand(r) /\ Open(r)
      /\ NamesInv /\ CredentialInv /\ SessionStep(r) /\ ~ArriveSession(r)
  <2>1. SessionStep(r) /\ ~ArriveSession(r) /\ Open(r)
    BY DEF SessionStep, ArriveSession, ClearUser, Begin, Open, Ended, Ends, At
  <2> QED
    BY <2>1 DEF CredentialInv, FirmInv, NamesInv
<1>1. PICK v : v = req[r].v
  OBVIOUS
<1>2. Known(v) /\ v \in Users /\ db.user[v] \in UserRecord /\ DOMAIN db.user = Users
  <2>1. Known(req[r].v)
    BY <1>0 DEF ClearUser, At, InHand, HasUser
  <2> QED
    BY <1>0, <1>1, <2>1 DEF Known, NamesInv, UserShape
<1>3. db' = [db EXCEPT !.user[v].marked = FALSE] /\ req'[r].at = "clearCompany" /\ req'[r].v = v /\ req'[r].do = req[r].do
  <2>1. Do(r, "clearCompany", req[r].v, [db EXCEPT !.user[req[r].v].marked = FALSE])
    BY DEF ClearUser
  <2>a. \A statement, x, tables : Do(r, statement, x, tables) =>
           /\ db' = tables /\ req'[r].at = statement /\ req'[r].do = req[r].do
           /\ req'[r].v = IF statement \in Ends THEN Nil ELSE x
    BY <1>0, DoEffect
  <2>2. /\ db' = [db EXCEPT !.user[req[r].v].marked = FALSE] /\ req'[r].at = "clearCompany" /\ req'[r].do = req[r].do
        /\ req'[r].v = IF "clearCompany" \in Ends THEN Nil ELSE req[r].v
    BY <2>1, <2>a
  <2> QED
    BY <1>1, <2>2 DEF Ends
<1> DEFINE row == [db.user[v] EXCEPT !.marked = FALSE]
           table == [db.user EXCEPT ![v] = row]
<1>4. row \in UserRecord /\ row.kind = db.user[v].kind /\ row.phone = db.user[v].phone
  BY <1>2 DEF UserRecord
<1>a. db' = [db EXCEPT !.user = table]
  BY <1>3
<1> HIDE DEF row
<1>5. /\ db' = [db EXCEPT !.user = table] /\ DOMAIN table = Users /\ table[v] = row
      /\ \A t \in Users : t # v => table[t] = db.user[t]
  BY <1>2, <1>a
<1> HIDE DEF table
<1>6. db'.user = table /\ SameFirms(db', db)
  BY <1>5 DEF FirmShape, SameFirms, NamesInv, UserShape
<1>7. PeopleKept(r)
  BY <1>2, <1>4, <1>5, <1>6, SignUpAssumption DEF PeopleKept, KindKept, Known
<1>8. UsersStay
  BY <1>7, PeopleStay
<1>9. Landed(r)
  BY <1>0, <1>8, SessionPlaces
<1>10. Ways(r) /\ At(r, "clear")
  BY DEF ClearUser, Ways, Mailed, Ends, At
<1>11. FreshRows(r)' /\ (req'[r].at = "ok" => ~db'.company[r].exists)
  BY <1>0, <1>6, <1>10, OwnRowsFresh DEF SameFirms, At
<1>12. Stays(r)
  BY <1>0, <1>6, <1>10, <1>11 DEF Stays, SameFirms, FirmShape, Ways
<1>13. MarkMove(r)
  <2>1. ASSUME NEW u \in Users, db.member[u] # Nil, db.user[u].marked PROVE db'.user[u].marked \/ Unmarks(r, u)
    <3>1. CASE u # v
      BY <1>5, <1>6, <2>1, <3>1
    <3>2. CASE u = v
      <4>1. Employer(v)
        BY <1>0, <2>1, <3>2 DEF Rows
      <4>2. ~Personal(v)
        BY <4>1 DEF Employer, Personal
      <4>3. req[r].do \in {"login", "exchange"}
        <5>1. Personal(v) <=> Personal(req[r].v)
          BY <1>1
        <5> QED
          BY <1>0, <1>10, <4>2, <5>1 DEF FirmPlace
      <4>4. Clearing(v)'
        BY <1>3, <4>3 DEF Clearing, At
      <4> QED
        BY <1>0, <3>2, <4>3, <4>4 DEF Unmarks, Busy
    <3> QED
      BY <3>1, <3>2
  <2>2. ASSUME NEW u, Clearing(u) PROVE Clearing(u)'
    <3>1. PICK s \in Requests :
           /\ ~At(s, "new") /\ req[s].do \in {"login", "exchange"}
           /\ At(s, "killed") \/ (At(s, "clearCompany") /\ req[s].v = u)
      BY <2>2 DEF Clearing
    <3>2. s # r /\ req'[s] = req[s]
      BY <1>0, <1>10, <3>1, OthersStay DEF At
    <3> QED
      BY <3>1, <3>2 DEF Clearing, At
  <2>3. ~Deleted(r)
    BY <1>10 DEF Deleted, At
  <2> QED
    BY <1>6, <2>1, <2>2, <2>3 DEF MarkMove, SameFirms
<1>14. Hand(r)'
  BY <1>9, HandEmpty DEF Landed
<1> QED
  BY <1>0, <1>7, <1>9, <1>11, <1>12, <1>13, <1>14, StaysStep DEF Landed

LEMMA ClearsCompany ==
    ASSUME FirmInv, NamesInv, CredentialInv, NEW r \in Requests, Moves(r), ClearCompany(r)
    PROVE  FirmInv'
<1>0. /\ HistoryOK /\ FirmShape /\ FirmPlace(r) /\ Rows /\ Open(r)
      /\ SessionStep(r) /\ ~ArriveSession(r) /\ At(r, "clearCompany")
  <2>1. SessionStep(r) /\ ~ArriveSession(r) /\ Open(r) /\ At(r, "clearCompany")
    BY DEF SessionStep, ArriveSession, ClearCompany, Begin, Open, Ended, Ends, At
  <2> QED
    BY <2>1 DEF CredentialInv, FirmInv
<1>1. PICK v : v = req[r].v
  OBVIOUS
<1> DEFINE table == ClearedCompany(v)
<1>2. db' = [db EXCEPT !.company = table] /\ req'[r].at = "issue"
  BY <1>0, <1>1, DoEffect DEF ClearCompany
<1>3. /\ DOMAIN table = Companies
      /\ \A c \in Companies :
            /\ table[c] = IF AdminOf(v, c) THEN [db.company[c] EXCEPT !.marked = FALSE] ELSE db.company[c]
  BY DEF ClearedCompany
<1> HIDE DEF table
<1>4. \A c \in Companies :
         /\ DOMAIN table[c] = {"exists", "number", "plan", "marked"} /\ table[c].marked \in BOOLEAN
         /\ table[c].exists = db.company[c].exists /\ table[c].plan = db.company[c].plan
         /\ table[c].marked = IF AdminOf(v, c) THEN FALSE ELSE db.company[c].marked
  BY <1>0, <1>3 DEF FirmShape
<1>5. /\ db'.company = table /\ db'.user = db.user /\ db'.member = db.member /\ db'.invite = db.invite
      /\ DOMAIN db' = DOMAIN db
  BY <1>0, <1>2 DEF FirmShape, NamesInv, UserShape
<1>6. PeopleKept(r)
  BY <1>5 DEF PeopleKept, KindKept
<1>7. Landed(r)
  BY <1>0, <1>6, PeopleStay, SessionPlaces
<1>8. r \in Companies /\ r \in Users
  BY DEF Companies, Users
<1>9. FreshRows(r)'
  <2>1. ~db.company[r].exists /\ db.invite[r].state = "none"
    BY <1>0, <1>8 DEF FirmInv, FreshRows, Born, Mailed, Ends, At
  <2> QED
    BY <1>4, <1>5, <1>8, <2>1 DEF FreshRows
<1>10. Stays(r)
  BY <1>0, <1>2, <1>3, <1>4, <1>5, <1>8 DEF Stays, FirmShape, Mailed, Ends, At
<1>11. MarkMove(r)
  <2>1. ASSUME NEW c \in Companies, NEW u, Clearing(u), Alone(u, c), db'.company[c].marked PROVE Clearing(u)'
    <3>1. PICK s \in Requests :
           /\ ~At(s, "new") /\ req[s].do \in {"login", "exchange"}
           /\ At(s, "killed") \/ (At(s, "clearCompany") /\ req[s].v = u)
      BY <2>1 DEF Clearing
    <3>2. s # r
      <4> SUFFICES ASSUME s = r PROVE FALSE
        OBVIOUS
      <4>1. u = v
        BY <1>0, <1>1, <3>1 DEF At
      <4>2. db.member[u] \in MemberRow /\ db.member[u].company = c /\ db.member[u].role = "ADMIN"
        BY <1>0, <2>1 DEF Alone, In, InRole, Rows
      <4>3. AdminOf(v, c)
        BY <4>1, <4>2 DEF AdminOf, MemberRow
      <4> QED
        BY <1>4, <1>5, <2>1, <4>3
    <3>3. req'[s] = req[s]
      BY <1>0, <3>2, OthersStay
    <3> QED
      BY <3>1, <3>3 DEF Clearing, At
  <2>2. ~Deleted(r)
    BY <1>0 DEF Deleted, At
  <2> QED
    BY <1>4, <1>5, <2>1, <2>2 DEF MarkMove
<1>12. Hand(r)'
  BY <1>7, HandEmpty DEF Landed
<1> QED
  BY <1>0, <1>6, <1>7, <1>9, <1>10, <1>11, <1>12, StaysStep DEF Landed

LEMMA KillsFirm ==
    ASSUME FirmInv, NamesInv, CredentialInv, NEW r \in Requests, Moves(r), Killed(r)
    PROVE  FirmInv'
<1>0. HistoryOK /\ FirmShape /\ FirmPlace(r) /\ Open(r) /\ Do(r, "killed", req[r].v, db)
  BY DEF CredentialInv, FirmInv, Killed
<1>1. db' = db /\ req'[r].at = "killed"
  BY <1>0, DoEffect
<1>2. Aside(r)
  BY <1>0, <1>1, TablesAside
<1>3. UsersStay
  BY <1>2, AsideUsers
<1>4. "killed" \notin NamedPlaces \cup HandPlaces
  BY DEF NamedPlaces, HandPlaces, BusinessPlaces, InvitePlaces, AcceptPlaces, RemovePlaces, TransferPlaces, ExchangePlaces,
       PersonPlaces, Links
<1>5. FirmPlace(r)' /\ Hand(r)'
  BY <1>0, <1>1, <1>3, <1>4, PlaceLands, HandEmpty
<1>6. Ways(r)
  BY <1>1 DEF Ways, Mailed, Ends
<1> QED
  BY <1>0, <1>1, <1>2, <1>5, <1>6, AsideStep

LEMMA BeginsFirm ==
    ASSUME FirmInv, NamesInv, CredentialInv, NEW r \in Requests, NEW h \in CredentialHandlers, NEW arg, Begin(r, h, arg),
           h \in {"verifyBusiness", "acceptInvite"} => Employer(arg.by),
           h \in {"invite", "removeMember", "transferAdmin", "deleteAccount"} => Known(arg.by)
    PROVE  FirmInv'
<1>0. HistoryOK /\ FirmShape /\ Moves(r)
  BY BeginMoves DEF CredentialInv, FirmInv, CredentialHandlers, OneUse, Ends
<1>1. db' = db /\ req'[r].at = h /\ req'[r].do = h /\ req'[r].arg = arg /\ At(r, "new")
  BY <1>0, BeginEffect, BeginRequest
<1>2. Aside(r)
  BY <1>0, <1>1, TablesAside
<1>3. h \notin HandPlaces \cup PersonPlaces \cup ExchangePlaces \cup {"clear", "markFirm"}
  BY DEF HandPlaces, PersonPlaces, ExchangePlaces, Links, CredentialHandlers, OneUse
<1>4. FirmPlace(r)'
  <2>1. h \in {"verifyBusiness", "acceptInvite"} => Employer(By(r))'
    BY <1>1 DEF By, Employer, Known
  <2>2. h \in {"invite", "removeMember", "transferAdmin", "deleteAccount"} => Known(By(r))'
    BY <1>1 DEF By, Known
  <2>3. h \in BusinessPlaces \cup InvitePlaces \cup AcceptPlaces \cup RemovePlaces \cup TransferPlaces =>
           h \in {"verifyBusiness", "invite", "acceptInvite", "removeMember", "transferAdmin"}
    BY DEF CredentialHandlers, OneUse, BusinessPlaces, InvitePlaces, AcceptPlaces, RemovePlaces, TransferPlaces
  <2> QED
    BY <1>1, <1>3, <2>1, <2>2, <2>3 DEF FirmPlace, At, PersonPlaces, ExchangePlaces, BusinessPlaces, InvitePlaces, AcceptPlaces,
       RemovePlaces, TransferPlaces
<1>5. Hand(r)'
  BY <1>1, <1>3, HandEmpty
<1>6. Ways(r) /\ req[r].at \notin {"insertAdmin", "undoFirm"}
  BY <1>1 DEF Ways, Mailed, Ends, At
<1> QED
  BY <1>0, <1>2, <1>4, <1>5, <1>6, AsideStep

LEMMA ArrivalsFirm ==
    ASSUME FirmInv, NamesInv, CredentialInv, NEW r \in Requests,
           ArriveSession(r) \/ ArriveSignUp(r) \/ ArriveCompany(r) \/ ArriveGoogle(r)
    PROVE  FirmInv'
<1> DEFINE Firms == {"verifyBusiness", "acceptInvite", "invite", "removeMember", "transferAdmin", "deleteAccount"}
<1>1. \A h, arg : h \in CredentialHandlers \ Firms /\ Begin(r, h, arg) => FirmInv'
  BY BeginsFirm
<1>2. Firms \subseteq CredentialHandlers
  BY DEF CredentialHandlers
<1>3. \A u : SignedIn(u) => Known(u)
  <2> SUFFICES ASSUME NEW u, SignedIn(u) PROVE Known(u)
    OBVIOUS
  <2>1. PICK t \in Users : db.token[t] = [state |-> "live", user |-> u]
    BY DEF SignedIn
  <2>2. db.token[t].state = "live" /\ db.token[t].user = u
    BY <2>1
  <2> QED
    BY <2>2 DEF NamesInv, NamesLead
<1>4. \A u : SignedIn(u) /\ u \in {w \in Accounts : db.user[w] # Nil /\ db.user[w].kind = "EMPLOYER"} => Employer(u)
  BY <1>3 DEF Employer
<1>5. \A h, arg : h \in {"verifyBusiness", "acceptInvite"} /\ Employer(arg.by) /\ Begin(r, h, arg) => FirmInv'
  BY <1>2, BeginsFirm
<1>6. \A h, arg : h \in {"invite", "removeMember", "transferAdmin", "deleteAccount"} /\ Known(arg.by) /\ Begin(r, h, arg) => FirmInv'
  BY <1>2, BeginsFirm
<1> HIDE DEF FirmInv
<1>7. CASE ArriveSession(r)
  <2>1. {"login", "requestReset", "oauthStart", "refresh", "logout", "exchange", "confirmReset", "oauthCallback", "appleCallback",
         "appleNative"} \subseteq CredentialHandlers \ Firms
    BY DEF CredentialHandlers, OneUse
  <2> HIDE DEF Firms
  <2> QED
    BY <1>1, <1>7, <2>1 DEF ArriveSession
<1>8. CASE ArriveSignUp(r)
  <2>1. {"sendPhone", "verifyPhone", "signup", "verify"} \subseteq CredentialHandlers \ Firms
    BY DEF CredentialHandlers, OneUse
  <2> HIDE DEF Firms
  <2> QED
    BY <1>1, <1>8, <2>1 DEF ArriveSignUp
<1>9. CASE ArriveGoogle(r)
  <2>1. {"googleConnect", "googleCallback", "googleComplete", "googleDisconnect", "googleSync"} \subseteq CredentialHandlers \ Firms
    BY DEF CredentialHandlers, OneUse
  <2> HIDE DEF Firms
  <2> QED
    BY <1>1, <1>9, <2>1 DEF ArriveGoogle
<1>10. CASE ArriveCompany(r)
  <2>1. ASSUME NEW u, Known(u), Begin(r, "deleteAccount", [by |-> u]) PROVE FirmInv'
    BY <1>6, <2>1
  <2>2. ASSUME NEW u, Employer(u), NEW n, Begin(r, "verifyBusiness", [by |-> u, number |-> n]) PROVE FirmInv'
    <3>1. Employer([by |-> u, number |-> n].by) <=> Employer(u)
      BY DEF Employer, Known
    <3> QED
      BY <1>5, <2>2, <3>1
  <2>3. ASSUME NEW u, Employer(u), NEW t, Begin(r, "acceptInvite", [by |-> u, token |-> t]) PROVE FirmInv'
    <3>1. Employer([by |-> u, token |-> t].by) <=> Employer(u)
      BY DEF Employer, Known
    <3> QED
      BY <1>5, <2>3, <3>1
  <2>4. ASSUME NEW u, Known(u), NEW to, NEW h \in {"invite", "removeMember", "transferAdmin"}, Begin(r, h, [by |-> u, to |-> to]) PROVE FirmInv'
    <3>1. Known([by |-> u, to |-> to].by) <=> Known(u)
      BY DEF Known
    <3> QED
      BY <1>6, <2>4, <3>1
  <2> QED
    BY <1>3, <1>4, <1>10, <2>1, <2>2, <2>3, <2>4 DEF ArriveCompany
<1> QED
  BY <1>7, <1>8, <1>9, <1>10

-----------------------------------------------------------------------------
\* The handlers of a company: the steps that read.
Fits(statement, h) ==
    \/ statement \notin NamedPlaces
    \/ statement \in BusinessPlaces /\ h = "verifyBusiness"
    \/ statement \in InvitePlaces /\ h = "invite"
    \/ statement \in AcceptPlaces /\ h = "acceptInvite"
    \/ statement \in RemovePlaces /\ h = "removeMember"
    \/ statement \in TransferPlaces /\ h = "transferAdmin"
    \/ statement = "markFirm" /\ h = "deleteAccount"

LEMMA FitsLands ==
    ASSUME HistoryOK, NEW r \in Requests, Open(r), FirmPlace(r), UsersStay,
           NEW statement, NEW v, NEW tables, Do(r, statement, v, tables), Fits(statement, req[r].do)
    PROVE  FirmPlace(r)'
  BY PlaceLands DEF Fits

LEMMA ReadStep ==
    ASSUME FirmInv, NamesInv, CredentialInv, NEW r \in Requests, Open(r),
           NEW statement, NEW v, NEW tables, statement # "new", Do(r, statement, v, tables), Aside(r),
           Fits(statement, req[r].do), Ways(r), req[r].at \notin {"insertAdmin", "undoFirm"}, Hand(r)'
    PROVE  FirmInv'
<1>1. HistoryOK /\ FirmPlace(r) /\ Moves(r) /\ UsersStay
  BY DoMoves, AsideUsers DEF CredentialInv, FirmInv
<1> QED
  BY <1>1, FitsLands, AsideStep

LEMMA GoOnSame ==
    ASSUME HistoryOK, NEW r \in Requests, Open(r), NEW statement, statement \notin Ends \cup {"new"}, NEW v, GoOn(r, statement, v)
    PROVE  /\ db' = db /\ req'[r].at = statement /\ req'[r].v = v /\ req'[r].do = req[r].do /\ req'[r].arg = req[r].arg
           /\ \A s \in Requests \ {r} : req'[s] = req[s]
           /\ \A c : /\ In(c)' = In(c) /\ (\A role : InRole(c, role)' = InRole(c, role)) /\ SeatsUsed(c)' = SeatsUsed(c)
                     /\ Standing(c) => Standing(c)'
                     /\ \A u : Alone(u, c) => Alone(u, c)'
           /\ (TransferredAway => TransferredAway') /\ (Crossed => Crossed') /\ (RemovedBoth => RemovedBoth')
           /\ (InvitedBoth => InvitedBoth') /\ (DeletionMet => DeletionMet')
<1>1. Do(r, statement, v, db) /\ Moves(r)
  BY DoMoves DEF GoOn
<1>2. /\ db' = db /\ req'[r].at = statement /\ req'[r].v = v /\ req'[r].do = req[r].do /\ req'[r].arg = req[r].arg
      /\ \A s \in Requests \ {r} : req'[s] = req[s]
  BY <1>1, DoEffect
<1>3. \A c : In(c)' = In(c) /\ (\A role : InRole(c, role)' = InRole(c, role)) /\ Invited(c)' = Invited(c)
  BY <1>2 DEF In, InRole, Invited
<1>4. \A c : SeatsUsed(c)' = SeatsUsed(c)
  BY <1>3 DEF SeatsUsed
<1>5. \A c : Standing(c) => Standing(c)'
  BY <1>2 DEF Standing, At, Open, Ended, Ends, Companies
<1>6. \A c, u : Alone(u, c) => Alone(u, c)'
  BY <1>3 DEF Alone
<1>7. /\ (TransferredAway => TransferredAway') /\ (Crossed => Crossed') /\ (RemovedBoth => RemovedBoth')
      /\ (InvitedBoth => InvitedBoth') /\ (DeletionMet => DeletionMet')
  BY <1>1, ExceptionsStay
<1> QED
  BY <1>2, <1>3, <1>4, <1>5, <1>6, <1>7

\* A step that goes on and reads.
LEMMA GoOnStep ==
    ASSUME FirmInv, NamesInv, CredentialInv, NEW r \in Requests, Open(r), NEW statement, statement \notin Ends \cup {"new"}, NEW v,
           GoOn(r, statement, v), Fits(statement, req[r].do),
           req[r].at \notin Mailed \cup {"clearCompany", "revokeAll", "insertAdmin", "undoFirm"}, Hand(r)'
    PROVE  FirmInv'
<1>1. HistoryOK /\ FirmShape /\ Do(r, statement, v, db)
  BY DEF CredentialInv, FirmInv, GoOn
<1>2. Aside(r) /\ Ways(r)
  BY <1>1, GoOnSame, TablesAside DEF Ways, At
<1> QED
  BY <1>1, <1>2, ReadStep

LEMMA EndStep ==
    ASSUME FirmInv, NamesInv, CredentialInv, NEW r \in Requests, Open(r), NEW statement \in {"ok", "refused"}, NEW v, NEW tables,
           Do(r, statement, v, tables), Aside(r), req[r].at \notin {"clearCompany", "revokeAll", "insertAdmin", "undoFirm"}
    PROVE  FirmInv'
<1>1. HistoryOK /\ req'[r].at = statement
  BY DoEffect DEF CredentialInv
<1>2. statement \notin NamedPlaces \cup HandPlaces
  BY DEF HandPlaces, NamedPlaces, BusinessPlaces, InvitePlaces, AcceptPlaces, RemovePlaces, TransferPlaces, ExchangePlaces,
     PersonPlaces, Links
<1>3. Hand(r)' /\ Ways(r) /\ Fits(statement, req[r].do)
  BY <1>1, <1>2, HandEmpty DEF Ways, Mailed, Ends, At, Fits
<1> QED
  BY <1>3, ReadStep

LEMMA RefuseStep ==
    ASSUME FirmInv, NamesInv, CredentialInv, NEW r \in Requests, Open(r), Refuse(r),
           req[r].at \notin {"clearCompany", "revokeAll", "insertAdmin", "undoFirm"}
    PROVE  FirmInv'
<1>1. Do(r, "refused", req[r].v, db)
  BY DEF Refuse
<1>2. db' = db
  BY <1>1, DoEffect DEF CredentialInv
<1>3. Aside(r)
  BY <1>2, TablesAside DEF FirmInv
<1> QED
  BY <1>1, <1>3, EndStep

\* A place where nothing is counted on but the company.
LEMMA JustAsks ==
    ASSUME NEW r, req'[r].at \in AtFirm \ {"inviteRow", "removeRow", "transfer", "transferWrite"}, OfFirm(r)'
    PROVE  Hand(r)'
  BY DEF Hand, Founding, Works, Inviting, Removing, Transferring, Accepting, Deleting, Unhurried, AboutTo, AtFirm, Asking, At

LEMMA RequireAdminKeeps ==
    ASSUME FirmInv, NamesInv, CredentialInv, NEW r \in Requests,
           \/ RequireAdmin(r, "invite", "inviteMember")
           \/ RequireAdmin(r, "removeMember", "removeTarget")
           \/ RequireAdmin(r, "transferAdmin", "transferTarget")
    PROVE  FirmInv'
<1>0. HistoryOK /\ FirmPlace(r) /\ Rows
  BY DEF CredentialInv, FirmInv
<1>1. PICK h, next : RequireAdmin(r, h, next) /\ <<h, next>> \in {<<"invite", "inviteMember">>, <<"removeMember", "removeTarget">>, <<"transferAdmin", "transferTarget">>}
  OBVIOUS
<1>2. At(r, h) /\ Open(r) /\ req[r].do = h /\ req[r].at \notin Mailed \cup {"clearCompany", "revokeAll", "insertAdmin", "undoFirm"}
  BY <1>0, <1>1 DEF RequireAdmin, FirmPlace, At, Open, Ended, Ends, Mailed
<1>3. CASE Refuse(r)
  BY <1>2, <1>3, RefuseStep
<1>4. CASE ~Refuse(r)
  <2>1. PICK c, v : /\ GoOn(r, next, v) /\ v.c = c /\ v.plan = db.company[c].plan
                    /\ c = Mine(r) /\ db.member[By(r)] # Nil
    BY <1>1, <1>4 DEF RequireAdmin
  <2>2. Known(By(r))
    BY <1>0, <1>1, <1>2 DEF FirmPlace, At
  <2>3. Standing(c) /\ c \in Companies
    BY <1>0, <2>1, <2>2 DEF Rows, Mine, Known, Standing
  <2>4. next \in AtFirm \ {"inviteRow", "removeRow", "transfer", "transferWrite"} /\ next \notin Ends \cup {"new"}
    BY <1>1 DEF AtFirm, Asking, Ends
  <2>5. /\ db' = db /\ req'[r].at = next /\ req'[r].v = v
        /\ Standing(c)'
    BY <1>0, <1>2, <2>1, <2>3, <2>4, GoOnSame
  <2>6. OfFirm(r)'
    BY <2>1, <2>3, <2>5 DEF OfFirm, Companies
  <2>7. Fits(next, req[r].do)
    BY <1>1, <1>2 DEF Fits, InvitePlaces, RemovePlaces, TransferPlaces
  <2>8. Hand(r)'
    BY <2>4, <2>5, <2>6, JustAsks
  <2> QED
    BY <1>2, <2>1, <2>4, <2>7, <2>8, GoOnStep
<1> QED
  BY <1>3, <1>4

LEMMA InviteReads ==
    ASSUME FirmInv, NamesInv, CredentialInv, NEW r \in Requests, InviteMember(r) \/ InvitePending(r) \/ InviteCount(r)
    PROVE  FirmInv'
<1>0. HistoryOK /\ FirmPlace(r) /\ OfFirm(r)
  BY DEF CredentialInv, FirmInv, Hand, Works
<1>1. /\ req[r].at \in {"inviteMember", "invitePending", "inviteCount"} /\ Open(r) /\ req[r].do = "invite"
      /\ req[r].at \notin Mailed \cup {"clearCompany", "revokeAll", "insertAdmin", "undoFirm"}
  BY <1>0 DEF InviteMember, InvitePending, InviteCount, FirmPlace, At, Open, Ended, Ends, Mailed
<1>2. CASE Refuse(r)
  BY <1>1, <1>2, RefuseStep
<1>3. CASE \E x : GoOn(r, "resendMail", x)
  <2>1. PICK x : GoOn(r, "resendMail", x)
    BY <1>3
  <2>2. "resendMail" \notin Ends \cup {"new"} \cup NamedPlaces \cup HandPlaces
    BY DEF Ends, HandPlaces, NamedPlaces, BusinessPlaces, InvitePlaces, AcceptPlaces, RemovePlaces, TransferPlaces, ExchangePlaces,
     PersonPlaces, Links
  <2>3. Hand(r)'
    BY <1>0, <1>1, <2>1, <2>2, GoOnSame, HandEmpty
  <2> QED
    BY <1>1, <2>1, <2>2, <2>3, GoOnStep DEF Fits
<1>4. PICK c \in Companies : c = req[r].v.c /\ Standing(c) /\ req[r].v.plan = db.company[c].plan
  BY <1>0, <1>1 DEF OfFirm, AtFirm, Asking
<1>5. ASSUME NEW next \in {"invitePending", "inviteCount", "inviteRow"}, GoOn(r, next, req[r].v),
             next = "inviteRow" => SeatsUsed(c) < SeatLimit(db.company[c].plan)
      PROVE  FirmInv'
  <2>1. next \notin Ends \cup {"new"} /\ next \in Asking /\ next \in AtFirm
    BY <1>5 DEF Ends, AtFirm, Asking
  <2>2. /\ db' = db /\ req'[r].at = next /\ req'[r].v = req[r].v
        /\ Standing(c)' /\ SeatsUsed(c)' = SeatsUsed(c)
    BY <1>0, <1>1, <1>4, <1>5, <2>1, GoOnSame
  <2>3. OfFirm(r)'
    BY <1>4, <2>1, <2>2 DEF OfFirm, Companies
  <2>4. Hand(r)'
    <3>1. CASE next # "inviteRow"
      BY <1>5, <2>1, <2>2, <2>3, <3>1, JustAsks
    <3>2. CASE next = "inviteRow"
      <4>1. Inviting(r)'
        BY <1>4, <1>5, <2>2, <3>2 DEF Inviting
      <4> QED
        BY <2>2, <2>3, <3>2, <4>1 DEF Hand, Founding, Works, Removing, Transferring, Accepting, Deleting, Unhurried, AboutTo, At
    <3> QED
      BY <3>1, <3>2
  <2>5. Fits(next, req[r].do)
    BY <1>1, <1>5 DEF Fits, InvitePlaces
  <2> QED
    BY <1>1, <1>5, <2>1, <2>4, <2>5, GoOnStep
<1>6. CASE InviteMember(r)
  BY <1>2, <1>5, <1>6 DEF InviteMember
<1>7. CASE InvitePending(r)
  BY <1>2, <1>3, <1>5, <1>7 DEF InvitePending
<1>8. CASE InviteCount(r)
  <2>1. SeatsUsed(req[r].v.c) < SeatLimit(req[r].v.plan) => SeatsUsed(c) < SeatLimit(db.company[c].plan)
    BY <1>4
  <2> QED
    BY <1>2, <1>5, <1>8, <2>1 DEF InviteCount
<1> QED
  BY <1>6, <1>7, <1>8

\* A marked company whose ADMIN is alone is not one whose members change.
LEMMA NotAlone ==
    ASSUME FirmInv, NEW c \in Companies, \A u : ~Alone(u, c)
    PROVE  DeletionMet \/ ~db.company[c].marked
  BY DEF FirmInv, FirmRow, Marked

LEMMA RemoveReads ==
    ASSUME FirmInv, NamesInv, CredentialInv, NEW r \in Requests, RemoveTarget(r) \/ CountAdmins(r)
    PROVE  FirmInv'
<1>0. HistoryOK /\ FirmPlace(r) /\ OfFirm(r) /\ Rows
  BY DEF CredentialInv, FirmInv, Hand, Works
<1>1. /\ req[r].at \in {"removeTarget", "countAdmins"} /\ Open(r) /\ req[r].do = "removeMember"
      /\ req[r].at \notin Mailed \cup {"clearCompany", "revokeAll", "insertAdmin", "undoFirm"}
  BY <1>0 DEF RemoveTarget, CountAdmins, FirmPlace, At, Open, Ended, Ends, Mailed
<1>2. CASE Refuse(r)
  BY <1>1, <1>2, RefuseStep
<1>4. PICK c \in Companies : c = req[r].v.c /\ Standing(c)
  BY <1>0, <1>1 DEF OfFirm, AtFirm, Asking
<1>5. ASSUME NEW next \in {"countAdmins", "removeRow"}, GoOn(r, next, req[r].v),
             next = "removeRow" =>
                 /\ \A u : ~Alone(u, c)
                 /\ TransferredAway \/ RemovedBoth \/ InRole(c, "ADMIN") \ {req[r].arg.to} # {}
      PROVE  FirmInv'
  <2>1. next \notin Ends \cup {"new"} /\ next \notin Asking /\ next \in AtFirm
    BY <1>5 DEF Ends, AtFirm, Asking
  <2>2. /\ db' = db /\ req'[r].at = next /\ req'[r].v = req[r].v /\ req'[r].arg = req[r].arg
        /\ Standing(c)' /\ InRole(c, "ADMIN")' = InRole(c, "ADMIN")
        /\ (TransferredAway => TransferredAway') /\ (RemovedBoth => RemovedBoth') /\ (DeletionMet => DeletionMet')
    BY <1>0, <1>1, <1>4, <1>5, <2>1, GoOnSame
  <2>3. OfFirm(r)'
    BY <1>4, <2>1, <2>2 DEF OfFirm, Companies
  <2>4. Hand(r)'
    <3>1. CASE next # "removeRow"
      BY <1>5, <2>1, <2>2, <2>3, <3>1, JustAsks
    <3>2. CASE next = "removeRow"
      <4>1. Removing(r)'
        BY <1>4, <1>5, <2>2, <3>2 DEF Removing
      <4>2. Unhurried(r)'
        <5>1. DeletionMet \/ ~db.company[c].marked
          BY <1>5, <3>2, NotAlone
        <5> QED
          BY <1>4, <2>2, <3>2, <5>1 DEF Unhurried, AboutTo
      <4> QED
        BY <2>2, <2>3, <3>2, <4>1, <4>2 DEF Hand, Founding, Works, Inviting, Transferring, Accepting, Deleting, At
    <3> QED
      BY <3>1, <3>2
  <2>5. Fits(next, req[r].do)
    BY <1>1, <1>5 DEF Fits, RemovePlaces
  <2> QED
    BY <1>1, <1>5, <2>1, <2>4, <2>5, GoOnStep
<1>6. CASE RemoveTarget(r) /\ ~Refuse(r)
  <2>1. /\ req[r].arg.to \in In(c)
        /\ GoOn(r, IF db.member[req[r].arg.to].role = "ADMIN" THEN "countAdmins" ELSE "removeRow", req[r].v)
    BY <1>4, <1>6 DEF RemoveTarget
  <2>2. CASE db.member[req[r].arg.to].role = "ADMIN"
    BY <1>5, <2>1, <2>2
  <2>3. CASE db.member[req[r].arg.to].role # "ADMIN"
    <3>1. req[r].arg.to \notin InRole(c, "ADMIN")
      BY <2>3 DEF InRole
    <3>2. \A u : ~Alone(u, c)
      BY <2>1, <3>1 DEF Alone
    <3>3. TransferredAway \/ RemovedBoth \/ InRole(c, "ADMIN") # {}
      BY <1>4 DEF FirmInv, FirmRow, Staffed
    <3> QED
      BY <1>5, <2>1, <2>3, <3>1, <3>2, <3>3
  <2> QED
    BY <2>2, <2>3
<1>7. CASE CountAdmins(r) /\ ~Refuse(r)
  <2>1. ~(Cardinality(InRole(c, "ADMIN")) <= 1) /\ GoOn(r, "removeRow", req[r].v)
    BY <1>4, <1>7 DEF CountAdmins, LastAdmin
  <2>2. \A u : ~(InRole(c, "ADMIN") \subseteq {u})
    <3> SUFFICES ASSUME NEW u, InRole(c, "ADMIN") \subseteq {u} PROVE FALSE
      OBVIOUS
    <3>1. Cardinality({}) = 0 /\ Cardinality({u}) = 1
      BY FS_EmptySet, FS_Singleton
    <3>2. CASE InRole(c, "ADMIN") = {}
      BY <2>1, <3>1, <3>2
    <3>3. CASE InRole(c, "ADMIN") = {u}
      BY <2>1, <3>1, <3>3
    <3> QED
      BY <3>2, <3>3
  <2>3. \A u : ~Alone(u, c)
    BY <2>2 DEF Alone
  <2>4. InRole(c, "ADMIN") \ {req[r].arg.to} # {}
    BY <2>2
  <2> QED
    BY <1>5, <2>1, <2>3, <2>4
<1> QED
  BY <1>2, <1>6, <1>7

LEMMA TransferReads ==
    ASSUME FirmInv, NamesInv, CredentialInv, NEW r \in Requests, TransferTarget(r) \/ Transfer(r)
    PROVE  FirmInv'
<1>0. HistoryOK /\ FirmPlace(r) /\ OfFirm(r) /\ Rows /\ Transferring(r) /\ Unhurried(r) /\ FirmShape
  BY DEF CredentialInv, FirmInv, Hand, Works
<1>1. /\ req[r].at \in {"transferTarget", "transfer"} /\ Open(r) /\ req[r].do = "transferAdmin"
      /\ req[r].at \notin Mailed \cup {"clearCompany", "revokeAll", "insertAdmin", "undoFirm"}
  BY <1>0 DEF TransferTarget, Transfer, FirmPlace, At, Open, Ended, Ends, Mailed
<1>2. CASE Refuse(r)
  BY <1>1, <1>2, RefuseStep
<1>3. CASE End(r, db)
  <2>1. Do(r, "ok", req[r].v, db)
    BY <1>3 DEF End
  <2>2. Aside(r)
    BY <1>0, <2>1, DoEffect, TablesAside
  <2> QED
    BY <1>1, <2>1, <2>2, EndStep
<1>4. PICK c \in Companies : c = req[r].v.c /\ Standing(c)
  BY <1>0, <1>1 DEF OfFirm, AtFirm, Asking
<1>5. ASSUME NEW next \in {"transfer", "transferWrite"}, NEW v, GoOn(r, next, v), v.c = c,
             TransferredAway \/ req[r].arg.to \in In(c),
             TransferredAway \/ Crossed \/ req[r].arg.to \in InRole(c, "MEMBER"),
             next = "transferWrite" =>
                 /\ TransferredAway \/ req[r].arg.to \in v.rows
                 /\ InRole(c, "ADMIN") \subseteq v.rows,
             DeletionMet \/ ~db.company[c].marked
      PROVE  FirmInv'
  <2>1. next \notin Ends \cup {"new"} /\ next \notin Asking /\ next \in AtFirm
    BY <1>5 DEF Ends, AtFirm, Asking
  <2>2. /\ db' = db /\ req'[r].at = next /\ req'[r].v = v /\ req'[r].arg = req[r].arg
        /\ Standing(c)' /\ In(c)' = In(c) /\ InRole(c, "ADMIN")' = InRole(c, "ADMIN") /\ InRole(c, "MEMBER")' = InRole(c, "MEMBER")
        /\ (TransferredAway => TransferredAway') /\ (Crossed => Crossed') /\ (DeletionMet => DeletionMet')
    BY <1>0, <1>1, <1>4, <1>5, <2>1, GoOnSame
  <2>3. OfFirm(r)'
    BY <1>4, <1>5, <2>1, <2>2 DEF OfFirm, Companies
  <2>4. Transferring(r)'
    BY <1>5, <2>2 DEF Transferring, At
  <2>5. Unhurried(r)'
    BY <1>5, <2>2 DEF Unhurried, AboutTo
  <2>6. Hand(r)'
    BY <1>5, <2>2, <2>3, <2>4, <2>5 DEF Hand, Founding, Works, Inviting, Removing, Accepting, Deleting, At
  <2>7. Fits(next, req[r].do)
    BY <1>1, <1>5 DEF Fits, TransferPlaces
  <2> QED
    BY <1>1, <1>5, <2>1, <2>6, <2>7, GoOnStep
<1>6. CASE TransferTarget(r) /\ ~Refuse(r) /\ ~End(r, db)
  <2>1. req[r].arg.to \in In(c) /\ db.member[req[r].arg.to].role # "ADMIN" /\ GoOn(r, "transfer", req[r].v)
    BY <1>4, <1>6 DEF TransferTarget
  <2>2. req[r].arg.to \notin InRole(c, "ADMIN") /\ req[r].arg.to \in InRole(c, "MEMBER")
    <3>1. db.member[req[r].arg.to] \in MemberRow
      BY <1>0, <2>1 DEF Rows, In
    <3> QED
      BY <2>1, <3>1 DEF InRole, MemberRow
  <2>3. \A u : ~Alone(u, c)
    BY <2>1, <2>2 DEF Alone
  <2> QED
    BY <1>4, <1>5, <2>1, <2>2, <2>3, NotAlone
<1>7. CASE Transfer(r)
  <2>1. PICK v : /\ GoOn(r, "transferWrite", v) /\ v.c = c
                 /\ v.rows = InRole(c, "ADMIN") \cup (In(c) \cap {req[r].arg.to})
    <3> DEFINE v == [c |-> c, rows |-> InRole(c, "ADMIN") \cup (In(c) \cap {req[r].arg.to})]
    <3>1. GoOn(r, "transferWrite", v)
      BY <1>4, <1>7 DEF Transfer
    <3>2. v.c = c /\ v.rows = InRole(c, "ADMIN") \cup (In(c) \cap {req[r].arg.to})
      OBVIOUS
    <3> QED
      BY <3>1, <3>2
  <2>2. /\ TransferredAway \/ req[r].arg.to \in In(c)
        /\ TransferredAway \/ Crossed \/ req[r].arg.to \in InRole(c, "MEMBER")
    BY <1>0, <1>4, <1>7 DEF Transferring, Transfer, At
  <2>3. DeletionMet \/ ~db.company[c].marked
    BY <1>0, <1>4, <1>7 DEF Unhurried, AboutTo, Transfer, At
  <2> QED
    BY <1>5, <2>1, <2>2, <2>3
<1> QED
  BY <1>2, <1>3, <1>6, <1>7

LEMMA LeadsOn ==
    ASSUME FirmInv, NamesInv, CredentialInv, NEW r \in Requests, Open(r),
           NEW statement, statement \notin Ends \cup {"new"} \cup HandPlaces, NEW v, GoOn(r, statement, v),
           Fits(statement, req[r].do), req[r].at \notin Mailed \cup {"clearCompany", "revokeAll", "insertAdmin", "undoFirm"}
    PROVE  FirmInv'
<1>1. HistoryOK
  BY DEF CredentialInv
<1>2. Hand(r)'
  BY <1>1, GoOnSame, HandEmpty
<1> QED
  BY <1>2, GoOnStep

LEMMA VerifiesFirm ==
    ASSUME FirmInv, NamesInv, CredentialInv, NEW r \in Requests, VerifyBusiness(r)
    PROVE  FirmInv'
<1>0. FirmPlace(r)
  BY DEF FirmInv
<1>1. /\ At(r, "verifyBusiness") /\ Open(r) /\ req[r].do = "verifyBusiness"
      /\ req[r].at \notin Mailed \cup {"clearCompany", "revokeAll", "insertAdmin", "undoFirm"}
  BY <1>0 DEF VerifyBusiness, FirmPlace, At, Open, Ended, Ends, Mailed
<1>2. ASSUME NEW next \in {"insertFirm", "completeFirm"} PROVE next \notin Ends \cup {"new"} \cup HandPlaces /\ Fits(next, req[r].do)
  BY <1>1, <1>2 DEF Ends, HandPlaces, Fits, BusinessPlaces
<1>3. CASE Refuse(r)
  BY <1>1, <1>3, RefuseStep
<1>4. CASE \E v : GoOn(r, "insertFirm", v)
  BY <1>1, <1>2, <1>4, LeadsOn
<1>5. CASE \E v : GoOn(r, "completeFirm", v)
  BY <1>1, <1>2, <1>5, LeadsOn
<1> QED
  BY <1>3, <1>4, <1>5 DEF VerifyBusiness

LEMMA MailsInvites ==
    ASSUME FirmInv, NamesInv, CredentialInv, NEW r \in Requests, ResendMail(r) \/ InviteMail(r)
    PROVE  FirmInv'
<1>0. HistoryOK /\ FirmPlace(r) /\ FirmShape
  BY DEF CredentialInv, FirmInv
<1>1. Open(r) /\ req[r].at \in {"resendMail", "inviteMail"} /\ req[r].at \notin {"clearCompany", "revokeAll", "insertAdmin", "undoFirm"}
  BY DEF ResendMail, InviteMail, At, Open, Ended, Ends
<1>2. ASSUME NEW next \in {"resendRow", "inviteUndo"} PROVE next # "new" /\ Fits(next, req[r].do) /\ next \notin HandPlaces
  BY <1>2 DEF HandPlaces, Fits, NamedPlaces, BusinessPlaces, InvitePlaces, AcceptPlaces, RemovePlaces, TransferPlaces,
     ExchangePlaces, PersonPlaces, Links
<1>3. ASSUME NEW next, NEW x, Do(r, next, req[r].v, [db EXCEPT !.mailed = x]) PROVE Aside(r)
  <2>1. db' = [db EXCEPT !.mailed = x]
    BY <1>0, <1>3, DoEffect
  <2> QED
    BY <1>0, <2>1, TablesAside
<1>4. CASE ResendMail(r)
  <2>1. CASE Do(r, "resendRow", req[r].v, [db EXCEPT !.mailed = @ \cup {r}])
    <3>1. req'[r].at = "resendRow" /\ At(r, "resendMail")
      BY <1>0, <1>4, <2>1, DoEffect DEF ResendMail
    <3>2. Ways(r) /\ Hand(r)'
      BY <1>2, <3>1, HandEmpty DEF Ways, Mailed, Ends, At
    <3> QED
      BY <1>1, <1>2, <1>3, <2>1, <3>2, ReadStep
  <2> QED
    BY <1>1, <1>4, <2>1, RefuseStep DEF ResendMail
<1>5. CASE InviteMail(r)
  <2>1. CASE End(r, [db EXCEPT !.mailed = @ \cup {r}])
    <3>1. Do(r, "ok", req[r].v, [db EXCEPT !.mailed = @ \cup {r}])
      BY <2>1 DEF End
    <3> QED
      BY <1>1, <1>3, <3>1, EndStep
  <2>2. CASE GoOn(r, "inviteUndo", req[r].v)
    <3>1. Do(r, "inviteUndo", req[r].v, db)
      BY <2>2 DEF GoOn
    <3>2. db' = db /\ req'[r].at = "inviteUndo" /\ At(r, "inviteMail")
      BY <1>0, <1>5, <3>1, DoEffect DEF InviteMail
    <3>3. Aside(r)
      BY <1>0, <3>2, TablesAside
    <3>4. Ways(r) /\ Hand(r)'
      BY <1>2, <3>2, HandEmpty DEF Ways, Mailed, At
    <3> QED
      BY <1>1, <1>2, <3>1, <3>3, <3>4, ReadStep
  <2> QED
    BY <1>5, <2>1, <2>2 DEF InviteMail
<1> QED
  BY <1>4, <1>5

LEMMA AcceptReads ==
    ASSUME FirmInv, NamesInv, CredentialInv, NEW r \in Requests, AcceptInvite(r) \/ AcceptUser(r)
    PROVE  FirmInv'
<1>0. HistoryOK /\ FirmPlace(r) /\ Accepting(r) /\ Unhurried(r)
  BY DEF CredentialInv, FirmInv, Hand, Works
<1>1. /\ req[r].at \in {"acceptInvite", "acceptUser"} /\ Open(r) /\ req[r].do = "acceptInvite"
      /\ req[r].at \notin Mailed \cup {"clearCompany", "revokeAll", "insertAdmin", "undoFirm"}
  BY <1>0 DEF AcceptInvite, AcceptUser, FirmPlace, At, Open, Ended, Ends, Mailed
<1>2. CASE Refuse(r)
  BY <1>1, <1>2, RefuseStep
<1>3. ASSUME NEW next \in {"acceptUser", "join"}, NEW i \in Users, GoOn(r, next, i), i \in Requests => req[i].at \in Mailed,
             db.invite[i].state = "open" => DeletionMet \/ \A c \in Companies : db.invite[i].company = c => ~db.company[c].marked
      PROVE  FirmInv'
  <2>1. next \notin Ends \cup {"new"} /\ Fits(next, req[r].do)
    BY <1>1, <1>3 DEF Ends, Fits, AcceptPlaces
  <2>2. /\ db' = db /\ req'[r].at = next /\ req'[r].v = i /\ \A s \in Requests \ {r} : req'[s] = req[s]
        /\ (DeletionMet => DeletionMet')
    BY <1>0, <1>1, <1>3, <2>1, GoOnSame
  <2>3. Accepting(r)'
    BY <1>1, <1>3, <2>2 DEF Accepting, Users
  <2>4. Unhurried(r)'
    BY <1>3, <2>2 DEF Unhurried, AboutTo
  <2>5. Hand(r)'
    BY <1>3, <2>2, <2>3, <2>4 DEF Hand, Founding, Works, OfFirm, AtFirm, Asking, Inviting, Removing, Transferring, Deleting, At
  <2> QED
    BY <1>1, <1>3, <2>1, <2>5, GoOnStep
<1>4. CASE AcceptInvite(r) /\ ~Refuse(r)
  <2>1. PICK i \in Users : /\ GoOn(r, "acceptUser", i) /\ db.invite[i].state = "open"
                           /\ ~db.company[db.invite[i].company].marked
    BY <1>4 DEF AcceptInvite
  <2>2. i \in Requests => req[i].at \in Mailed
    BY <2>1 DEF FirmInv, FreshRows
  <2> QED
    BY <1>3, <2>1, <2>2
<1>5. CASE AcceptUser(r) /\ ~Refuse(r)
  <2>1. PICK i : i = req[r].v /\ At(r, "acceptUser") /\ GoOn(r, "join", i)
    BY <1>5 DEF AcceptUser
  <2>2. i \in Users /\ (i \in Requests => req[i].at \in Mailed)
    BY <1>0, <2>1 DEF Accepting, At
  <2>3. db.invite[i].state = "open" => DeletionMet \/ \A c \in Companies : db.invite[i].company = c => ~db.company[c].marked
    BY <1>0, <2>1, <2>2 DEF Unhurried, AboutTo, At
  <2> QED
    BY <1>3, <2>1, <2>2, <2>3
<1> QED
  BY <1>2, <1>4, <1>5

LEMMA DeleteReads ==
    ASSUME FirmInv, NamesInv, CredentialInv, NEW r \in Requests, DeleteAccount(r) \/ CancelPlans(r)
    PROVE  FirmInv'
<1>0. HistoryOK /\ FirmPlace(r) /\ Deleting(r) /\ InHand(r) /\ Rows
  BY DEF CredentialInv, FirmInv, Hand, NamesInv
<1>1. /\ req[r].at \in {"deleteAccount", "cancelPlans"} /\ Open(r) /\ req[r].do = "deleteAccount"
      /\ req[r].at \notin Mailed \cup {"clearCompany", "revokeAll", "insertAdmin", "undoFirm"}
  BY <1>0 DEF DeleteAccount, CancelPlans, InHand, At, Open, Ended, Ends, Mailed
<1>2. CASE Refuse(r)
  BY <1>1, <1>2, RefuseStep
<1>3. ASSUME NEW next \in {"markUser", "markFirm"}, NEW v, GoOn(r, next, v), next = "markFirm" => v.firm # Nil,
             v.firm # Nil => \E c \in Companies : c = v.firm /\ Standing(c) /\
                                (DeletionMet \/ (Alone(By(r), c) /\ (next = "markUser" \/ db.user[By(r)].marked)))
      PROVE  FirmInv'
  <2>1. next \notin Ends \cup {"new"} /\ Fits(next, req[r].do)
    BY <1>1, <1>3 DEF Ends, Fits, NamedPlaces, BusinessPlaces, InvitePlaces, AcceptPlaces, RemovePlaces, TransferPlaces,
       ExchangePlaces, PersonPlaces, Links
  <2>2. /\ db' = db /\ req'[r].at = next /\ req'[r].v = v /\ req'[r].arg = req[r].arg
        /\ (DeletionMet => DeletionMet') /\ \A c : (Standing(c) => Standing(c)') /\ \A u : (Alone(u, c) => Alone(u, c)')
    BY <1>0, <1>1, <1>3, <2>1, GoOnSame
  <2>3. Deleting(r)'
    <3>1. ASSUME v.firm # Nil
          PROVE  \E c \in Companies, u \in Users :
                    /\ c = v.firm /\ u = By(r) /\ Standing(c)'
                    /\ DeletionMet' \/ (Alone(u, c)' /\ (next = "markUser" \/ db'.user[u].marked))
      <4>1. PICK c \in Companies : c = v.firm /\ Standing(c) /\
                                (DeletionMet \/ (Alone(By(r), c) /\ (next = "markUser" \/ db.user[By(r)].marked)))
        BY <1>3, <3>1
      <4>2. PICK u : u = By(r)
        OBVIOUS
      <4>3. u \in Users
        BY <1>0, <1>1, <4>2 DEF FirmPlace, At, Known
      <4>4. Alone(By(r), c) => Alone(u, c)
        BY <4>2 DEF Alone
      <4>5. Alone(u, c) => Alone(u, c)'
        BY <2>2
      <4> QED
        BY <2>2, <4>1, <4>2, <4>3, <4>4, <4>5
    <3> QED
      BY <1>3, <2>2, <3>1 DEF Deleting, At, By
  <2>4. Hand(r)'
    BY <1>3, <2>2, <2>3 DEF Hand, Founding, Works, OfFirm, AtFirm, Asking, Inviting, Removing, Transferring, Accepting, Unhurried, AboutTo, At
  <2> QED
    BY <1>1, <1>3, <2>1, <2>4, GoOnStep
<1>4. CASE DeleteAccount(r) /\ ~Refuse(r)
  <2>1. CASE GoOn(r, "markUser", [u |-> By(r), firm |-> Nil])
    <3>1. [u |-> By(r), firm |-> Nil].firm = Nil
      OBVIOUS
    <3> QED
      BY <1>3, <2>1, <3>1
  <2>2. CASE /\ GoOn(r, "markUser", [u |-> By(r), firm |-> Mine(r)]) /\ db.member[By(r)] # Nil
             /\ db.member[By(r)].role # "MEMBER" /\ In(Mine(r)) = {By(r)}
    <3>1. [u |-> By(r), firm |-> Mine(r)].firm = Mine(r)
      OBVIOUS
    <3>2. PICK c : c = Mine(r)
      OBVIOUS
    <3>3. Known(By(r)) /\ By(r) \in Users
      BY <1>0, <1>1 DEF FirmPlace, At, Known
    <3>4. db.member[By(r)] \in MemberRow /\ Standing(db.member[By(r)].company)
      BY <1>0, <2>2, <3>3 DEF Rows
    <3>5. Standing(c) /\ c \in Companies /\ db.member[By(r)].role = "ADMIN"
      BY <2>2, <3>2, <3>4 DEF Mine, MemberRow, Standing
    <3>6. In(c) = {By(r)}
      BY <2>2, <3>2
    <3>7. Alone(By(r), c)
      BY <3>3, <3>5, <3>6 DEF Alone, InRole
    <3> QED
      BY <1>3, <2>2, <3>1, <3>2, <3>5, <3>7
  <2> QED
    BY <1>4, <2>1, <2>2 DEF DeleteAccount, Mine
<1>5. CASE CancelPlans(r)
  <2>1. ASSUME NEW next \in {"unmark", "revokeAll"} PROVE next \notin Ends \cup {"new"} \cup HandPlaces /\ Fits(next, req[r].do)
    BY <2>1 DEF Ends, HandPlaces, Fits, NamedPlaces, BusinessPlaces, InvitePlaces, AcceptPlaces, RemovePlaces, TransferPlaces,
       ExchangePlaces, PersonPlaces, Links
  <2>2. CASE GoOn(r, "unmark", req[r].v) \/ GoOn(r, "revokeAll", By(r))
    BY <1>1, <2>1, <2>2, LeadsOn
  <2>3. CASE req[r].v.firm # Nil /\ GoOn(r, "markFirm", req[r].v)
    <3>1. PICK c \in Companies, u \in Users :
             /\ c = req[r].v.firm /\ u = By(r) /\ Standing(c)
             /\ DeletionMet \/ (Alone(u, c) /\ db.user[u].marked)
      BY <1>0, <1>5, <2>3 DEF Deleting, CancelPlans, At
    <3>2. Alone(u, c) => Alone(By(r), c)
      BY <3>1 DEF Alone
    <3> QED
      BY <1>3, <2>3, <3>1, <3>2
  <2> QED
    BY <1>5, <2>2, <2>3 DEF CancelPlans
<1> QED
  BY <1>2, <1>4, <1>5

-----------------------------------------------------------------------------
\* The steps that write a company, a mark or a token.
LEMMA FirmTable ==
    ASSUME NamesInv, FirmShape, NEW m, NEW table, db' = [db EXCEPT !.company = table], DOMAIN table = Companies,
           \A c \in Companies : DOMAIN table[c] = {"exists", "number", "plan", "marked"} /\ table[c].marked \in BOOLEAN
    PROVE  /\ FirmShape' /\ PeopleKept(m) /\ UsersStay
           /\ db'.company = table /\ db'.member = db.member /\ db'.invite = db.invite /\ db'.user = db.user
<1>1. /\ db'.company = table /\ db'.member = db.member /\ db'.invite = db.invite /\ db'.user = db.user
      /\ DOMAIN db' = DOMAIN db
  BY DEF FirmShape, NamesInv, UserShape
<1>2. PeopleKept(m)
  BY <1>1 DEF PeopleKept, KindKept
<1>3. FirmShape'
  BY <1>1 DEF FirmShape, Companies, Users
<1> QED
  BY <1>1, <1>2, <1>3, PeopleStay

LEMMA FirmWritten ==
    ASSUME FirmInv, NamesInv, CredentialInv, NEW r \in Requests, Open(r),
           NEW statement, statement # "new", NEW v, NEW tables,
           Do(r, statement, v, tables), Fits(statement, req[r].do), Ways(r),
           NEW table, db' = [db EXCEPT !.company = table], DOMAIN table = Companies,
           \A c \in Companies : /\ DOMAIN table[c] = {"exists", "number", "plan", "marked"} /\ table[c].marked \in BOOLEAN
                                /\ table[c].marked => db.company[c].marked
                                /\ c = r \/ (table[c].exists = db.company[c].exists /\ table[c].plan = db.company[c].plan),
           statement = "ok" => ~table[r].exists, FreshRows(r)',
           statement \in HandPlaces => statement = "insertAdmin" /\ table[r].exists
    PROVE  FirmInv'
<1>1. HistoryOK /\ FirmShape /\ FirmPlace(r) /\ Moves(r) /\ req'[r].at = statement
  BY DoMoves, DoEffect DEF CredentialInv, FirmInv
<1>2. /\ FirmShape' /\ PeopleKept(r) /\ UsersStay
      /\ db'.company = table /\ db'.member = db.member /\ db'.invite = db.invite /\ db'.user = db.user
  BY <1>1, FirmTable
<1>3. Stays(r)
  BY <1>1, <1>2 DEF Stays, Ways
<1>4. SameMarks
  BY <1>2 DEF SameMarks
<1>5. FirmPlace(r)'
  BY <1>1, <1>2, FitsLands
<1>6. Hand(r)'
  <2>1. CASE statement \notin HandPlaces
    BY <1>1, <2>1, HandEmpty
  <2>2. CASE statement = "insertAdmin" /\ table[r].exists
    BY <1>1, <1>2, <2>2 DEF Hand, Founding, Works, OfFirm, AtFirm, Asking, Inviting, Removing, Transferring, Accepting, Deleting,
       Unhurried, AboutTo, At
  <2> QED
    BY <2>1, <2>2
<1> QED
  BY <1>1, <1>2, <1>3, <1>4, <1>5, <1>6, MarksSame, StaysStep

LEMMA BusinessWrites ==
    ASSUME FirmInv, NamesInv, CredentialInv, NEW r \in Requests, CompleteFirm(r) \/ InsertFirm(r) \/ UndoFirm(r)
    PROVE  FirmInv'
<1>0. HistoryOK /\ FirmPlace(r) /\ FreshRows(r) /\ FirmShape /\ r \in Companies
  BY DEF CredentialInv, FirmInv, Companies
<1>1. /\ req[r].at \in {"completeFirm", "insertFirm", "undoFirm"} /\ Open(r) /\ req[r].do = "verifyBusiness"
      /\ req[r].at \notin Mailed \cup {"clearCompany", "revokeAll"}
  BY <1>0 DEF CompleteFirm, InsertFirm, UndoFirm, FirmPlace, At, Open, Ended, Ends, Mailed
<1>2. ASSUME NEW next \in {"ok", "refused", "insertAdmin"} PROVE next # "new" /\ Fits(next, req[r].do) /\ (next \in HandPlaces => next = "insertAdmin")
  BY <1>1, <1>2 DEF HandPlaces, Fits, NamedPlaces, BusinessPlaces, InvitePlaces, AcceptPlaces, RemovePlaces, TransferPlaces,
     ExchangePlaces, PersonPlaces, Links
<1>3. Ways(r) /\ db.invite[r].state = "none"
  BY <1>0, <1>1 DEF Ways, At, FreshRows
<1>4. ASSUME NEW table, NEW next \in {"ok", "refused", "insertAdmin"}, Do(r, next, req[r].v, [db EXCEPT !.company = table]),
             DOMAIN table = Companies,
             \A c \in Companies : /\ DOMAIN table[c] = {"exists", "number", "plan", "marked"} /\ table[c].marked \in BOOLEAN
                                  /\ table[c].marked => db.company[c].marked
                                  /\ c = r \/ (table[c].exists = db.company[c].exists /\ table[c].plan = db.company[c].plan),
             next # "insertAdmin" <=> ~table[r].exists
      PROVE  FirmInv'
  <2>1. db' = [db EXCEPT !.company = table] /\ req'[r].at = next
    BY <1>0, <1>4, DoEffect
  <2>2. db'.company = table /\ db'.invite = db.invite
    BY <1>0, <2>1 DEF FirmShape
  <2>3. FreshRows(r)'
    BY <1>3, <1>4, <2>1, <2>2 DEF FreshRows, Born
  <2> QED
    BY <1>1, <1>2, <1>3, <1>4, <2>1, <2>3, FirmWritten
<1>5. CASE Refuse(r) /\ ~UndoFirm(r)
  <2>1. req[r].at \notin {"clearCompany", "revokeAll", "insertAdmin", "undoFirm"}
    BY <1>1, <1>5 DEF CompleteFirm, InsertFirm, UndoFirm, At
  <2> QED
    BY <1>1, <1>5, <2>1, RefuseStep
<1>6. CASE CompleteFirm(r) /\ ~Refuse(r)
  <2> DEFINE table == [db.company EXCEPT ![req[r].v.c].number = req[r].arg.number]
  <2>1. Do(r, "ok", req[r].v, [db EXCEPT !.company[req[r].v.c].number = req[r].arg.number])
    BY <1>6 DEF CompleteFirm, End
  <2>a. Do(r, "ok", req[r].v, [db EXCEPT !.company = table])
    BY <2>1
  <2>2. DOMAIN table = Companies
    BY <1>0 DEF FirmShape
  <2>3. ASSUME NEW c \in Companies
        PROVE  /\ DOMAIN table[c] = {"exists", "number", "plan", "marked"} /\ table[c].marked = db.company[c].marked
               /\ table[c].exists = db.company[c].exists /\ table[c].plan = db.company[c].plan
    <3>1. CASE c = req[r].v.c
      <4>1. table[c] = [db.company[c] EXCEPT !.number = req[r].arg.number]
        BY <1>0, <3>1 DEF FirmShape
      <4> HIDE DEF table
      <4> QED
        BY <1>0, <4>1 DEF FirmShape
    <3>2. CASE c # req[r].v.c
      <4>1. table[c] = db.company[c]
        BY <1>0, <3>2 DEF FirmShape
      <4> HIDE DEF table
      <4> QED
        BY <1>0, <4>1 DEF FirmShape
    <3> QED
      BY <3>1, <3>2
  <2>4. ~db.company[r].exists
    BY <1>0, <1>6 DEF FreshRows, Born, CompleteFirm, At
  <2> HIDE DEF table
  <2> QED
    BY <1>0, <1>4, <2>a, <2>2, <2>3, <2>4 DEF FirmShape
<1>7. ASSUME NEW row, NEW next \in {"refused", "insertAdmin"}, Do(r, next, req[r].v, [db EXCEPT !.company[r] = row]),
             DOMAIN row = {"exists", "number", "plan", "marked"}, row.marked = FALSE, next = "refused" <=> ~row.exists
      PROVE  FirmInv'
  <2> DEFINE table == [db.company EXCEPT ![r] = row]
  <2>1. Do(r, next, req[r].v, [db EXCEPT !.company = table])
    BY <1>7
  <2>2. DOMAIN table = Companies /\ table[r] = row /\ \A c \in Companies : c # r => table[c] = db.company[c]
    BY <1>0 DEF FirmShape
  <2> HIDE DEF table
  <2>3. ASSUME NEW c \in Companies
        PROVE  /\ DOMAIN table[c] = {"exists", "number", "plan", "marked"} /\ table[c].marked \in BOOLEAN
               /\ table[c].marked => db.company[c].marked
               /\ c = r \/ (table[c].exists = db.company[c].exists /\ table[c].plan = db.company[c].plan)
    <3>1. CASE c = r
      BY <1>7, <2>2, <3>1
    <3>2. CASE c # r
      BY <1>0, <2>2, <3>2 DEF FirmShape
    <3> QED
      BY <3>1, <3>2
  <2>4. next # "insertAdmin" <=> ~table[r].exists
    BY <1>7, <2>2
  <2> QED
    BY <1>4, <1>7, <2>1, <2>2, <2>3, <2>4
<1>8. CASE InsertFirm(r) /\ ~Refuse(r)
  <2> DEFINE row == [NoFirm EXCEPT !.exists = TRUE, !.number = req[r].arg.number]
  <2>1. Do(r, "insertAdmin", req[r].v, [db EXCEPT !.company[r] = row])
    BY <1>8 DEF InsertFirm
  <2>2. DOMAIN row = {"exists", "number", "plan", "marked"} /\ row.marked = FALSE /\ row.exists
    BY DEF NoFirm
  <2> HIDE DEF row
  <2> QED
    BY <1>7, <2>1, <2>2
<1>9. CASE UndoFirm(r)
  <2>1. Do(r, "refused", req[r].v, [db EXCEPT !.company[r] = NoFirm])
    BY <1>9 DEF UndoFirm, WithoutFirm
  <2>2. DOMAIN NoFirm = {"exists", "number", "plan", "marked"} /\ NoFirm.marked = FALSE /\ NoFirm.exists = FALSE
    BY DEF NoFirm
  <2> QED
    BY <1>7, <2>1, <2>2
<1> QED
  BY <1>5, <1>6, <1>8, <1>9

LEMMA ResendsRow ==
    ASSUME FirmInv, NamesInv, CredentialInv, NEW r \in Requests, ResendRow(r)
    PROVE  FirmInv'
<1>0. HistoryOK /\ FirmPlace(r) /\ FirmShape /\ Open(r) /\ At(r, "resendRow")
  BY DEF CredentialInv, FirmInv, ResendRow, At, Open, Ended, Ends
<1>1. PICK i : i = req[r].v.invite
  OBVIOUS
<1>2. Ways(r) /\ req[r].at \notin {"clearCompany", "revokeAll", "insertAdmin", "undoFirm"}
  BY <1>0 DEF Ways, Mailed, Ends, At
<1>3. CASE db.invite[i] = NoInvite
  <2>1. Do(r, "ok", req[r].v, db)
    BY <1>1, <1>3 DEF ResendRow, End
  <2>2. Aside(r)
    BY <1>0, <2>1, DoEffect, TablesAside
  <2> QED
    BY <1>0, <1>2, <2>1, <2>2, EndStep
<1>4. CASE db.invite[i] # NoInvite
  <2> DEFINE table == [db.invite EXCEPT ![i].token = r]
  <2>1. Do(r, "ok", req[r].v, [db EXCEPT !.invite[i].token = r])
    BY <1>1, <1>4 DEF ResendRow, End
  <2>a. Do(r, "ok", req[r].v, [db EXCEPT !.invite = table])
    BY <2>1
  <2>2. DOMAIN table = Users
    BY <1>0 DEF FirmShape
  <2>3. ASSUME NEW j \in Users
        PROVE  DOMAIN table[j] = DOMAIN db.invite[j] /\ table[j].state = db.invite[j].state /\ table[j].company = db.invite[j].company
    <3>1. CASE j = i
      <4>1. table[j] = [db.invite[j] EXCEPT !.token = r]
        BY <1>0, <3>1 DEF FirmShape
      <4> HIDE DEF table
      <4> QED
        BY <1>0, <4>1 DEF FirmShape
    <3>2. CASE j # i
      BY <1>0, <3>2 DEF FirmShape
    <3> QED
      BY <3>1, <3>2
  <2> HIDE DEF table
  <2>4. db' = [db EXCEPT !.invite = table] /\ req'[r].at = "ok" /\ Moves(r)
    BY <1>0, <2>a, DoEffect, DoMoves
  <2>5. /\ db'.invite = table /\ db'.company = db.company /\ db'.member = db.member /\ db'.user = db.user
        /\ DOMAIN db' = DOMAIN db
    BY <1>0, <2>4 DEF FirmShape, NamesInv, UserShape
  <2>6. FirmShape'
    BY <1>0, <2>2, <2>3, <2>5 DEF FirmShape, Companies, Users
  <2>7. r \in Companies /\ r \in Users
    BY DEF Companies, Users
  <2>8. FreshRows(r)' /\ (req'[r].at = "ok" => ~db'.company[r].exists)
    BY <1>0, <1>2, <2>3, <2>4, <2>5, <2>7, OwnRowsFresh
  <2>9. Stays(r)
    BY <1>2, <2>3, <2>5, <2>6, <2>8 DEF Stays, Ways
  <2>10. PeopleKept(r) /\ SameMarks
    BY <2>5 DEF PeopleKept, KindKept, SameMarks
  <2>11. "ok" \notin NamedPlaces \cup HandPlaces
    BY DEF HandPlaces, NamedPlaces, BusinessPlaces, InvitePlaces, AcceptPlaces, RemovePlaces, TransferPlaces, ExchangePlaces,
       PersonPlaces, Links
  <2>12. FirmPlace(r)' /\ Hand(r)'
    BY <1>0, <2>a, <2>4, <2>10, <2>11, PeopleStay, PlaceLands, HandEmpty
  <2> QED
    BY <1>0, <1>2, <2>4, <2>8, <2>9, <2>10, <2>12, MarksSame, StaysStep
<1> QED
  BY <1>3, <1>4

\* A mark of a user.
LEMMA UserMarked ==
    ASSUME FirmInv, NamesInv, NEW r \in Requests, NEW u, Known(u), NEW mark \in BOOLEAN,
           db' = [db EXCEPT !.user[u].marked = mark]
    PROVE  /\ SameFirms(db', db) /\ FirmShape' /\ PeopleKept(r) /\ UsersStay
           /\ db'.user[u].marked = mark /\ \A w \in Users : w # u => db'.user[w] = db.user[w]
<1> DEFINE row == [db.user[u] EXCEPT !.marked = mark]
           table == [db.user EXCEPT ![u] = row]
<1>1. u \in Users /\ db.user[u] \in UserRecord /\ DOMAIN db.user = Users
  BY DEF Known, NamesInv, UserShape
<1>2. row \in UserRecord /\ row.kind = db.user[u].kind /\ row.phone = db.user[u].phone /\ row.marked = mark
  BY <1>1 DEF UserRecord
<1>3. db' = [db EXCEPT !.user = table]
  OBVIOUS
<1> HIDE DEF row
<1>4. DOMAIN table = Users /\ table[u] = row /\ \A t \in Users : t # u => table[t] = db.user[t]
  BY <1>1
<1> HIDE DEF table
<1>5. db'.user = table /\ SameFirms(db', db)
  BY <1>3 DEF FirmInv, FirmShape, SameFirms, NamesInv, UserShape
<1>6. PeopleKept(r)
  BY <1>1, <1>2, <1>4, <1>5, SignUpAssumption DEF PeopleKept, KindKept, Known
<1>7. FirmShape'
  BY <1>5 DEF FirmInv, FirmShape, SameFirms, Companies, Users
<1> QED
  BY <1>1, <1>2, <1>4, <1>5, <1>6, <1>7, PeopleStay

LEMMA DeleteMarks ==
    ASSUME FirmInv, NamesInv, CredentialInv, NEW r \in Requests, MarkUser(r) \/ Unmark(r)
    PROVE  FirmInv'
<1>0. /\ HistoryOK /\ FirmPlace(r) /\ Deleting(r) /\ InHand(r) /\ FirmShape /\ r \in Companies /\ r \in Users
      /\ req[r].at \in {"markUser", "unmark"} /\ Open(r)
  BY DEF CredentialInv, FirmInv, Hand, NamesInv, Companies, Users, MarkUser, Unmark, At, Open, Ended, Ends
<1>1. req[r].do = "deleteAccount" /\ Known(By(r))
  BY <1>0 DEF InHand, FirmPlace, At
<1>2. PICK u : u = By(r)
  OBVIOUS
<1>3. Known(u) /\ u \in Users
  BY <1>1, <1>2 DEF Known
<1>4. PICK mark \in BOOLEAN, next \in {"cancelPlans", "refused"} :
         /\ (mark <=> next = "cancelPlans") /\ (mark <=> At(r, "markUser"))
         /\ Do(r, next, req[r].v, [db EXCEPT !.user[u].marked = mark])
  <2>1. CASE MarkUser(r)
    BY <1>2, <2>1 DEF MarkUser, At
  <2>2. CASE Unmark(r)
    BY <1>2, <2>2 DEF Unmark, Unmarked, At
  <2> QED
    BY <2>1, <2>2
<1>5. /\ db' = [db EXCEPT !.user[u].marked = mark] /\ req'[r].at = next /\ req'[r].do = req[r].do /\ req'[r].arg = req[r].arg
      /\ next = "cancelPlans" => req'[r].v = req[r].v
  BY <1>0, <1>4, DoEffect DEF Ends
<1>6. /\ SameFirms(db', db) /\ FirmShape' /\ PeopleKept(r) /\ UsersStay
      /\ db'.user[u].marked = mark /\ \A w \in Users : w # u => db'.user[w] = db.user[w]
  BY <1>3, <1>5, UserMarked
<1>7. Ways(r) /\ Moves(r)
  BY <1>0, <1>4, DoMoves DEF Ways, Mailed, Ends, At
<1>8. FreshRows(r)' /\ (req'[r].at = "ok" => ~db'.company[r].exists)
  BY <1>0, <1>6, <1>7, OwnRowsFresh DEF SameFirms
<1>9. Stays(r)
  BY <1>6, <1>7, <1>8 DEF Stays, SameFirms, Ways
<1>10. MarkMove(r)
  <2>1. At(r, "unmark") => Unmarks(r, u)
    BY <1>0, <1>1, <1>2 DEF Unmarks, Busy
  <2>2. \A w \in Users : db.member[w] # Nil /\ db.user[w].marked => db'.user[w].marked \/ Unmarks(r, w)
    BY <1>0, <1>4, <1>6, <2>1 DEF At
  <2> QED
    BY <1>0, <1>6, <1>7, <2>2, ClearingStays DEF MarkMove, SameFirms
<1>11. FirmPlace(r)'
  <2>1. Fits(next, req[r].do)
    BY DEF Fits, NamedPlaces, BusinessPlaces, InvitePlaces, AcceptPlaces, RemovePlaces, TransferPlaces, ExchangePlaces,
       PersonPlaces, Links
  <2> QED
    BY <1>0, <1>4, <1>6, <2>1, FitsLands
<1>12. Hand(r)'
  <2>1. CASE next = "refused"
    BY <1>5, <2>1, HandEmpty DEF HandPlaces
  <2>2. CASE next = "cancelPlans"
    <3>1. ASSUME req[r].v.firm # Nil
          PROVE  \E c \in Companies, w \in Users :
                    c = req[r].v.firm /\ w = By(r) /\ Standing(c)' /\ (DeletionMet' \/ (Alone(w, c)' /\ db'.user[w].marked))
      <4>1. PICK c \in Companies, w \in Users :
               c = req[r].v.firm /\ w = By(r) /\ Standing(c) /\ (DeletionMet \/ Alone(w, c))
        BY <1>0, <1>4, <2>2, <3>1 DEF Deleting, At
      <4>2. Standing(c)' /\ (DeletionMet => DeletionMet')
        BY <1>0, <1>7, <1>9, <4>1, StandingSame, ExceptionsStay
      <4>3. Alone(w, c) => Alone(w, c)'
        BY <1>9, MembersSame DEF Alone
      <4>4. db'.user[w].marked
        BY <1>2, <1>4, <1>6, <2>2, <4>1
      <4> QED
        BY <4>1, <4>2, <4>3, <4>4
    <3>2. Deleting(r)'
      BY <1>5, <2>2, <3>1 DEF Deleting, At, By
    <3> QED
      BY <1>5, <2>2, <3>2 DEF Hand, Founding, Works, OfFirm, AtFirm, Asking, Inviting, Removing, Transferring, Accepting, Unhurried, AboutTo, At
  <2> QED
    BY <2>1, <2>2
<1> QED
  BY <1>0, <1>6, <1>7, <1>8, <1>9, <1>10, <1>11, <1>12, StaysStep

LEMMA MarksFirm ==
    ASSUME FirmInv, NamesInv, CredentialInv, NEW r \in Requests, MarkFirm(r)
    PROVE  FirmInv'
<1>0. /\ HistoryOK /\ FirmPlace(r) /\ Deleting(r) /\ FirmShape /\ r \in Companies /\ r \in Users
      /\ At(r, "markFirm") /\ Open(r)
  BY DEF CredentialInv, FirmInv, Hand, Companies, Users, MarkFirm, At, Open, Ended, Ends
<1>1. PICK c \in Companies, u \in Users :
         /\ c = req[r].v.firm /\ u = By(r) /\ Standing(c)
         /\ DeletionMet \/ (Alone(u, c) /\ db.user[u].marked)
  BY <1>0 DEF Deleting, At
<1>2. Do(r, "revokeAll", By(r), [db EXCEPT !.company[c].marked = @ \/ db.company[c].exists])
  BY <1>1 DEF MarkFirm
<1>3. db.company[c].exists
  BY <1>1 DEF Standing
<1>4. Do(r, "revokeAll", By(r), [db EXCEPT !.company[c].marked = TRUE])
  <2>1. (db.company[c].marked \/ db.company[c].exists) = TRUE
    BY <1>3
  <2> QED
    BY <1>2, <2>1
<1> DEFINE row == [db.company[c] EXCEPT !.marked = TRUE]
           table == [db.company EXCEPT ![c] = row]
<1>5. /\ DOMAIN row = {"exists", "number", "plan", "marked"} /\ row.marked = TRUE
      /\ row.exists = db.company[c].exists /\ row.plan = db.company[c].plan
  BY <1>0 DEF FirmShape
<1>6. /\ db' = [db EXCEPT !.company = table] /\ req'[r].at = "revokeAll" /\ req'[r].do = req[r].do /\ req'[r].arg = req[r].arg
      /\ Moves(r)
  BY <1>0, <1>4, DoEffect, DoMoves
<1> HIDE DEF row
<1>7. DOMAIN table = Companies /\ table[c] = row /\ \A d \in Companies : d # c => table[d] = db.company[d]
  BY <1>0 DEF FirmShape
<1> HIDE DEF table
<1>8. \A d \in Companies : /\ DOMAIN table[d] = {"exists", "number", "plan", "marked"} /\ table[d].marked \in BOOLEAN
                           /\ table[d].exists = db.company[d].exists /\ table[d].plan = db.company[d].plan
  BY <1>0, <1>5, <1>7 DEF FirmShape
<1>9. /\ FirmShape' /\ PeopleKept(r) /\ UsersStay
      /\ db'.company = table /\ db'.member = db.member /\ db'.invite = db.invite /\ db'.user = db.user
  BY <1>0, <1>6, <1>7, <1>8, FirmTable
<1>10. Ways(r) /\ req[r].do = "deleteAccount"
  BY <1>0 DEF Ways, Mailed, Ends, At, FirmPlace
<1>11. FreshRows(r)' /\ (req'[r].at = "ok" => ~db'.company[r].exists)
  BY <1>0, <1>6, <1>8, <1>9, <1>10, OwnRowsFresh DEF At
<1>12. Stays(r)
  BY <1>8, <1>9, <1>10, <1>11 DEF Stays, Ways
<1>13. MarkMove(r)
  <2>1. Marked(c)'
    <3>1. Alone(u, c) => Alone(u, c)'
      BY <1>12, MembersSame DEF Alone
    <3>2. DeletionMet => DeletionMet'
      BY <1>0, <1>6, ExceptionsStay
    <3>3. Deleted(r)' /\ By(r)' = u
      BY <1>1, <1>6, <1>10 DEF Deleted, By
    <3> QED
      BY <1>1, <1>9, <3>1, <3>2, <3>3 DEF Marked
  <2>2. \A d \in Companies : db'.company[d].marked => db.company[d].marked \/ d = c
    BY <1>7, <1>9
  <2>3. Busy(r, "deleteAccount")
    BY <1>0, <1>10 DEF Busy
  <2> QED
    BY <1>0, <1>6, <1>9, <1>10, <2>1, <2>2, <2>3, ClearingStays DEF MarkMove
<1>14. FirmPlace(r)' /\ Hand(r)'
  <2>1. Fits("revokeAll", req[r].do)
    BY DEF Fits, NamedPlaces, BusinessPlaces, InvitePlaces, AcceptPlaces, RemovePlaces, TransferPlaces, ExchangePlaces,
       PersonPlaces, Links
  <2>2. "revokeAll" \notin HandPlaces
    BY DEF HandPlaces
  <2> QED
    BY <1>0, <1>2, <1>6, <1>9, <2>1, <2>2, FitsLands, HandEmpty
<1> QED
  BY <1>0, <1>6, <1>9, <1>10, <1>11, <1>12, <1>13, <1>14, StaysStep

-----------------------------------------------------------------------------
\* The steps that write a membership or an invitation.
LEMMA MembersWrite ==
    ASSUME FirmInv, NamesInv, CredentialInv, NEW r \in Requests, Open(r),
           NEW next, next \notin HandPlaces \cup {"new"}, NEW v, NEW tables, Do(r, next, v, tables), Fits(next, req[r].do),
           Ways(r), NEW member, NEW invite, db' = [db EXCEPT !.member = member, !.invite = invite],
           DOMAIN member = Users, DOMAIN invite = Users,
           \A i \in Users : DOMAIN invite[i] = {"state", "company", "to", "token"}
    PROVE  /\ FirmShape' /\ UsersStay /\ MarkMove(r) /\ FirmPlace(r)' /\ Hand(r)'
           /\ req'[r].at = next /\ Moves(r) /\ HistoryOK /\ ~Standing(r)
           /\ db'.member = member /\ db'.invite = invite /\ db'.company = db.company /\ db'.user = db.user
           /\ \A c : Standing(c) => Standing(c)' /\ c \in Companies
           /\ \A c : Standing(c)' => Standing(c) \/ c = r
           /\ (TransferredAway => TransferredAway') /\ (Crossed => Crossed') /\ (RemovedBoth => RemovedBoth')
           /\ (InvitedBoth => InvitedBoth') /\ (DeletionMet => DeletionMet')
<1>1. HistoryOK /\ FirmShape /\ FirmPlace(r) /\ Moves(r) /\ req'[r].at = next
  BY DoMoves, DoEffect DEF CredentialInv, FirmInv
<1>2. /\ db'.member = member /\ db'.invite = invite /\ db'.company = db.company /\ db'.user = db.user
      /\ DOMAIN db' = DOMAIN db
  BY <1>1 DEF FirmShape, NamesInv, UserShape
<1>3. FirmShape'
  BY <1>1, <1>2 DEF FirmShape, Companies, Users
<1>4. UsersStay
  BY <1>2 DEF UsersStay, Employer, Personal, Known
<1>5. MarkMove(r)
  BY <1>1, <1>2, MarksSame DEF SameMarks
<1>6. FirmPlace(r)' /\ Hand(r)'
  BY <1>1, <1>4, FitsLands, HandEmpty
<1>7. ~Standing(r)
  BY DEF Standing, At, Open, Ended, Ends
<1>8. \A c : Standing(c) => Standing(c)' /\ c \in Companies
  <2> SUFFICES ASSUME NEW c, Standing(c) PROVE Standing(c)' /\ c \in Companies
    OBVIOUS
  <2>1. c # r
    BY <1>7
  <2> QED
    BY <1>1, <1>2, <2>1, OthersStay DEF Standing, At, Companies
<1>9. \A c : Standing(c)' => Standing(c) \/ c = r
  BY <1>1, <1>2, OthersStay DEF Standing, At, Companies
<1> QED
  BY <1>1, <1>2, <1>3, <1>4, <1>5, <1>6, <1>7, <1>8, <1>9, ExceptionsStay

\* What two sets of rows come to.
LEMMA FewerSeats ==
    ASSUME Rows, NEW c \in Companies, InRole(c, "MEMBER")' \subseteq InRole(c, "MEMBER"), Invited(c)' \subseteq Invited(c)
    PROVE  SeatsUsed(c)' <= SeatsUsed(c)
<1>1. IsFiniteSet(InRole(c, "MEMBER")) /\ IsFiniteSet(Invited(c))
  BY FS_Subset DEF Rows, InRole
<1>2. IsFiniteSet(InRole(c, "MEMBER")') /\ IsFiniteSet(Invited(c)')
  BY <1>1, FS_Subset
<1>3. Cardinality(InRole(c, "MEMBER")') <= Cardinality(InRole(c, "MEMBER")) /\ Cardinality(Invited(c)') <= Cardinality(Invited(c))
  BY <1>1, FS_Subset
<1> QED
  BY <1>1, <1>2, <1>3, FS_CardinalityType DEF SeatsUsed

LEMMA FewerAdmins ==
    ASSUME Rows, NEW c \in Companies, InRole(c, "ADMIN")' \subseteq InRole(c, "ADMIN"), Cardinality(InRole(c, "ADMIN")) <= 1
    PROVE  Cardinality(InRole(c, "ADMIN")') <= 1
<1>1. IsFiniteSet(InRole(c, "ADMIN"))
  BY FS_Subset DEF Rows, InRole
<1>2. IsFiniteSet(InRole(c, "ADMIN")')
  BY <1>1, FS_Subset
<1>3. Cardinality(InRole(c, "ADMIN")') <= Cardinality(InRole(c, "ADMIN"))
  BY <1>1, FS_Subset
<1> QED
  BY <1>1, <1>2, <1>3, FS_CardinalityType

\* A company whose rows are as they were, or fewer but for the last ADMIN.
LEMMA StaffedStill ==
    ASSUME FirmInv, NEW c \in Companies, db'.company = db.company, Standing(c)' => Standing(c),
           InRole(c, "ADMIN")' \subseteq InRole(c, "ADMIN"),
           InRole(c, "MEMBER")' \subseteq InRole(c, "MEMBER"), Invited(c)' \subseteq Invited(c),
           Standing(c) => TransferredAway' \/ RemovedBoth' \/ InRole(c, "ADMIN")' # {} \/ InRole(c, "ADMIN") = {},
           (TransferredAway => TransferredAway') /\ (Crossed => Crossed') /\ (RemovedBoth => RemovedBoth') /\ (InvitedBoth => InvitedBoth')
    PROVE  Staffed(c)' /\ SeatsUsed(c)' <= SeatsUsed(c)
<1>1. Staffed(c) /\ Rows
  BY DEF FirmInv, FirmRow
<1>2. Cardinality(InRole(c, "ADMIN")) <= 1 => Cardinality(InRole(c, "ADMIN")') <= 1
  BY <1>1, FewerAdmins
<1>3. SeatsUsed(c)' <= SeatsUsed(c)
  BY <1>1, FewerSeats
<1>4. SeatsUsed(c)' \in Nat /\ SeatsUsed(c) \in Nat /\ SeatLimit(db.company[c].plan) \in Nat
  <2>1. IsFiniteSet(InRole(c, "MEMBER")) /\ IsFiniteSet(Invited(c))
    BY <1>1, FS_Subset DEF Rows, InRole
  <2>2. IsFiniteSet(InRole(c, "MEMBER")') /\ IsFiniteSet(Invited(c)')
    BY <2>1, FS_Subset
  <2>3. SeatsUsed(c)' \in Nat
    BY <2>2, FS_CardinalityType DEF SeatsUsed
  <2> QED
    BY <1>1, <2>3, SeatsAreNat
<1>5. InvitedBoth' \/ Crossed' \/ TransferredAway' \/ SeatsUsed(c)' <= SeatLimit(db'.company[c].plan)
  BY <1>1, <1>3, <1>4 DEF Staffed
<1> QED
  BY <1>1, <1>2, <1>3, <1>5 DEF Staffed

LEMMA InsertsAdmin ==
    ASSUME FirmInv, NamesInv, CredentialInv, NEW r \in Requests, InsertAdmin(r)
    PROVE  FirmInv'
<1>0. /\ HistoryOK /\ FirmPlace(r) /\ FreshRows(r) /\ FirmShape /\ Founding(r) /\ Rows /\ r \in Companies /\ r \in Users
      /\ At(r, "insertAdmin") /\ Open(r)
  BY DEF CredentialInv, FirmInv, Hand, Companies, Users, InsertAdmin, At, Open, Ended, Ends
<1>1. /\ req[r].do = "verifyBusiness" /\ Employer(By(r)) /\ db.company[r].exists /\ db.invite[r].state = "none"
  BY <1>0 DEF FirmPlace, At, Founding, FreshRows, Mailed, Ends
<1>2. Fits("ok", req[r].do) /\ "ok" \notin HandPlaces /\ Fits("undoFirm", req[r].do) /\ "undoFirm" \notin HandPlaces
  BY <1>1 DEF Fits, HandPlaces, NamedPlaces, BusinessPlaces, InvitePlaces, AcceptPlaces, RemovePlaces, TransferPlaces,
     ExchangePlaces, PersonPlaces, Links
<1>3. CASE GoOn(r, "undoFirm", req[r].v)
  <2>1. Do(r, "undoFirm", req[r].v, db)
    BY <1>3 DEF GoOn
  <2>2. db' = db /\ req'[r].at = "undoFirm" /\ Moves(r)
    BY <1>0, <2>1, DoEffect, DoMoves
  <2>3. Aside(r)
    BY <1>0, <2>2, TablesAside
  <2>4. UsersStay
    BY <2>3, AsideUsers
  <2>5. Ways(r) /\ FirmPlace(r)' /\ Hand(r)'
    BY <1>0, <1>2, <2>1, <2>2, <2>4, FitsLands, HandEmpty DEF Ways, Mailed, Ends, At
  <2> QED
    BY <1>0, <2>2, <2>3, <2>5, AsideStep
<1>4. CASE db.member[By(r)] = Nil /\ End(r, [db EXCEPT !.member[By(r)] = Member(r, "ADMIN")])
  <2>1. PICK u : u = By(r)
    OBVIOUS
  <2>2. u \in Users /\ Employer(u) /\ db.member[u] = Nil
    BY <1>1, <1>4, <2>1 DEF Employer, Known
  <2> DEFINE row == Member(r, "ADMIN")
             table == [db.member EXCEPT ![u] = row]
  <2>3. row \in MemberRow /\ row.company = r /\ row.role = "ADMIN" /\ row # Nil
    BY <1>0, CompaniesAssumption DEF Member, MemberRow
  <2>4. Do(r, "ok", req[r].v, [db EXCEPT !.member = table])
    BY <1>4, <2>1 DEF End
  <2> HIDE DEF row
  <2>5. DOMAIN table = Users /\ table[u] = row /\ \A w \in Users : w # u => table[w] = db.member[w]
    BY <1>0, <2>2 DEF FirmShape
  <2> HIDE DEF table
  <2>6. db' = [db EXCEPT !.member = table, !.invite = db.invite]
    <3>1. db' = [db EXCEPT !.member = table]
      BY <1>0, <2>4, DoEffect
    <3> QED
      BY <1>0, <3>1 DEF FirmShape
  <2>7. Ways(r)
    BY <1>0 DEF Ways, Mailed, Ends, At
  <2>8. /\ FirmShape' /\ UsersStay /\ MarkMove(r) /\ FirmPlace(r)' /\ Hand(r)'
        /\ req'[r].at = "ok" /\ Moves(r) /\ HistoryOK /\ ~Standing(r)
        /\ db'.member = table /\ db'.invite = db.invite /\ db'.company = db.company /\ db'.user = db.user
        /\ \A c : Standing(c) => Standing(c)' /\ c \in Companies
        /\ \A c : Standing(c)' => Standing(c) \/ c = r
        /\ (TransferredAway => TransferredAway') /\ (Crossed => Crossed') /\ (RemovedBoth => RemovedBoth')
        /\ (InvitedBoth => InvitedBoth') /\ (DeletionMet => DeletionMet')
    <3>1. DOMAIN db.invite = Users /\ \A i \in Users : DOMAIN db.invite[i] = {"state", "company", "to", "token"}
      BY <1>0 DEF FirmShape
    <3>2. "ok" \notin HandPlaces \cup {"new"}
      BY <1>2
    <3> QED
      BY <1>0, <1>2, <2>4, <2>5, <2>6, <2>7, <3>1, <3>2, MembersWrite
  <2>9. Standing(r)'
    BY <1>0, <1>1, <2>8 DEF Standing, At, Companies
  <2>10. \A c \in Companies : c # r =>
            In(c)' = In(c) /\ (\A role : InRole(c, role)' = InRole(c, role)) /\ Invited(c)' = Invited(c)
    <3> SUFFICES ASSUME NEW c \in Companies, c # r
                 PROVE  In(c)' = In(c) /\ (\A role : InRole(c, role)' = InRole(c, role)) /\ Invited(c)' = Invited(c)
      OBVIOUS
    <3>1. In(c)' = In(c)
      BY <2>2, <2>3, <2>5, <2>8 DEF In, Users
    <3>2. \A w \in In(c) : db'.member[w] = db.member[w]
      BY <2>2, <2>5, <2>8 DEF In
    <3>3. Invited(c)' = Invited(c)
      BY <2>8 DEF Invited, Users
    <3> QED
      BY <3>1, <3>2, <3>3 DEF InRole
  <2>11. In(r) = {} /\ Invited(r) = {}
    BY <1>0, <2>8, NobodyThere
  <2>12. In(r)' = {u} /\ InRole(r, "ADMIN")' = {u} /\ InRole(r, "MEMBER")' = {} /\ Invited(r)' = {}
    <3>1. In(r)' = {u}
      BY <2>2, <2>3, <2>5, <2>8, <2>11 DEF In, Users
    <3>2. db'.member[u].role = "ADMIN"
      BY <2>3, <2>5, <2>8
    <3>3. Invited(r)' = {}
      BY <2>8, <2>11 DEF Invited, Users
    <3> QED
      BY <3>1, <3>2, <3>3 DEF InRole
  <2>13. Cardinality(InRole(r, "ADMIN")') = 1 /\ SeatsUsed(r)' = 0 /\ IsFiniteSet(In(r)') /\ IsFiniteSet(Invited(r)')
    <3>1. Cardinality({}) = 0 /\ Cardinality({u}) = 1 /\ IsFiniteSet({}) /\ IsFiniteSet({u})
      BY FS_EmptySet, FS_Singleton
    <3>2. SeatsUsed(r)' = 0
      BY <2>12, <3>1 DEF SeatsUsed
    <3> QED
      BY <2>12, <3>1, <3>2
  <2>14. Staffed(r)'
    <3>1. InRole(r, "ADMIN")' # {}
      BY <2>12
    <3> QED
      BY <2>13, <3>1 DEF Staffed, SeatLimit
  <2>15. ASSUME NEW c \in Companies, c # r PROVE Staffed(c)' /\ SeatsUsed(c)' <= SeatsUsed(c)
    BY <2>8, <2>10, <2>15, StaffedStill
  <2>16. \A c : Standing(c) => Changes(r, c)
    BY <2>8, <2>10, <2>15 DEF Changes
  <2>17. OwnRows(r)
    BY <2>8 DEF OwnRows, Users, Mailed, Ends
  <2>18. FirmMove(r)
    BY <2>8, <2>10, <2>16, <2>17 DEF FirmMove, SameMembers
  <2>19. Rows'
    <3>1. ASSUME NEW w \in Users, db'.member[w] # Nil
          PROVE  db'.member[w] \in MemberRow /\ Employer(w)' /\ \A c : c = db'.member[w].company => Standing(c)'
      <4>1. CASE w = u
        BY <2>2, <2>3, <2>5, <2>8, <2>9, <4>1 DEF UsersStay
      <4>2. CASE w # u
        BY <1>0, <2>5, <2>8, <3>1, <4>2 DEF Rows, UsersStay
      <4> QED
        BY <4>1, <4>2
    <3>2. \A i \in Users : \A c : db'.invite[i].state = "open" /\ c = db'.invite[i].company => Standing(c)'
      BY <1>0, <2>8 DEF Rows
    <3>3. \A c \in Companies : IsFiniteSet(In(c)') /\ IsFiniteSet(Invited(c)')
      BY <1>0, <2>10, <2>13 DEF Rows
    <3>4. \A w \in Users : Known(w)' /\ db'.user[w].phone \in Phones => Personal(w)'
      BY <1>0, <2>8 DEF Rows, Known, Personal
    <3> QED
      BY <3>1, <3>2, <3>3, <3>4 DEF Rows, Users, Companies
  <2>20. FreshRows(r)'
    BY <2>8 DEF FreshRows, Born, Mailed, Ends
  <2> QED
    BY <2>8, <2>14, <2>15, <2>18, <2>19, <2>20, FirmStep
<1> QED
  BY <1>3, <1>4 DEF InsertAdmin

LEMMA RowsWritten ==
    ASSUME FirmInv, UsersStay, db'.user = db.user, \A c : Standing(c) => Standing(c)',
           \A w \in Users : db'.member[w] # Nil =>
              db'.member[w] \in MemberRow /\ Employer(w) /\ \A c : c = db'.member[w].company => Standing(c),
           \A i \in Users : \A c : db'.invite[i].state = "open" /\ c = db'.invite[i].company => Standing(c),
           \A c \in Companies : \E u, i : In(c)' \subseteq In(c) \cup {u} /\ Invited(c)' \subseteq Invited(c) \cup {i}
    PROVE  Rows'
<1>1. ASSUME NEW w \in Users, db'.member[w] # Nil
      PROVE  db'.member[w] \in MemberRow /\ Employer(w)' /\ \A c : c = db'.member[w].company => Standing(c)'
  BY <1>1 DEF UsersStay
<1>2. \A i \in Users : \A c : db'.invite[i].state = "open" /\ c = db'.invite[i].company => Standing(c)'
  OBVIOUS
<1>3. \A c \in Companies : IsFiniteSet(In(c)') /\ IsFiniteSet(Invited(c)')
  <2> SUFFICES ASSUME NEW c \in Companies PROVE IsFiniteSet(In(c)') /\ IsFiniteSet(Invited(c)')
    OBVIOUS
  <2>1. IsFiniteSet(In(c)) /\ IsFiniteSet(Invited(c))
    BY DEF FirmInv, Rows
  <2>2. \A u : IsFiniteSet(In(c) \cup {u}) /\ IsFiniteSet(Invited(c) \cup {u})
    BY <2>1, FS_AddElement
  <2> QED
    BY <2>2, FS_Subset
<1>4. \A u \in Users : Known(u)' /\ db'.user[u].phone \in Phones => Personal(u)'
  BY DEF FirmInv, Rows, Known, Personal
<1> QED
  BY <1>1, <1>2, <1>3, <1>4 DEF Rows, Users, Companies

\* An invitation comes or goes: the members stay.
LEMMA InvitesWrite ==
    ASSUME FirmInv, NamesInv, CredentialInv, NEW r \in Requests, InviteRow(r) \/ InviteUndo(r)
    PROVE  FirmInv'
<1>0. /\ HistoryOK /\ FirmPlace(r) /\ FreshRows(r) /\ FirmShape /\ OfFirm(r) /\ Inviting(r) /\ Rows /\ r \in Companies /\ r \in Users
      /\ req[r].at \in {"inviteRow", "inviteUndo"} /\ Open(r)
  BY DEF CredentialInv, FirmInv, Hand, Works, Companies, Users, InviteRow, InviteUndo, At, Open, Ended, Ends
<1>1. PICK row, next :
         /\ next \in {"inviteMail", "refused"}
         /\ Do(r, next, req[r].v, [db EXCEPT !.invite[r] = row])
         /\ DOMAIN row = {"state", "company", "to", "token"}
         /\ (At(r, "inviteRow") <=> next = "inviteMail") /\ (row.state = "open" <=> next = "inviteMail")
         /\ At(r, "inviteRow") => row.company = req[r].v.c
  <2>1. CASE InviteRow(r)
    <3> DEFINE row == [state |-> "open", company |-> req[r].v.c, to |-> req[r].arg.to, token |-> r]
    <3>1. Do(r, "inviteMail", req[r].v, [db EXCEPT !.invite[r] = row]) /\ At(r, "inviteRow")
      BY <2>1 DEF InviteRow
    <3>2. DOMAIN row = {"state", "company", "to", "token"} /\ row.state = "open" /\ row.company = req[r].v.c
      OBVIOUS
    <3> HIDE DEF row
    <3> QED
      BY <3>1, <3>2
  <2>2. CASE InviteUndo(r)
    <3>1. Do(r, "refused", req[r].v, [db EXCEPT !.invite[r] = NoInvite]) /\ ~At(r, "inviteRow")
      BY <2>2 DEF InviteUndo, At
    <3>2. DOMAIN NoInvite = {"state", "company", "to", "token"} /\ NoInvite.state # "open"
      BY DEF NoInvite
    <3> QED
      BY <3>1, <3>2
  <2> QED
    BY <2>1, <2>2
<1> DEFINE table == [db.invite EXCEPT ![r] = row]
<1>2. DOMAIN table = Users /\ table[r] = row /\ \A i \in Users : i # r => table[i] = db.invite[i]
  BY <1>0 DEF FirmShape
<1>3. Do(r, next, req[r].v, [db EXCEPT !.invite = table])
  BY <1>1
<1> HIDE DEF table
<1>4. db' = [db EXCEPT !.member = db.member, !.invite = table]
  <2>1. db' = [db EXCEPT !.invite = table]
    BY <1>0, <1>3, DoEffect
  <2> QED
    BY <1>0, <2>1 DEF FirmShape
<1>5. next \notin HandPlaces \cup {"new"} /\ Fits(next, req[r].do)
  BY <1>1 DEF Fits, HandPlaces, NamedPlaces, BusinessPlaces, InvitePlaces, AcceptPlaces, RemovePlaces, TransferPlaces,
     ExchangePlaces, PersonPlaces, Links
<1>6. Ways(r) /\ req'[r].at = next
  <2>1. req'[r].at = next
    BY <1>0, <1>3, DoEffect
  <2> QED
    BY <1>0, <1>1, <2>1 DEF Ways, Mailed, Ends, At
<1>7. /\ FirmShape' /\ UsersStay /\ MarkMove(r) /\ FirmPlace(r)' /\ Hand(r)'
      /\ req'[r].at = next /\ Moves(r) /\ HistoryOK /\ ~Standing(r)
      /\ db'.member = db.member /\ db'.invite = table /\ db'.company = db.company /\ db'.user = db.user
      /\ \A c : Standing(c) => Standing(c)' /\ c \in Companies
      /\ \A c : Standing(c)' => Standing(c) \/ c = r
      /\ (TransferredAway => TransferredAway') /\ (Crossed => Crossed') /\ (RemovedBoth => RemovedBoth')
      /\ (InvitedBoth => InvitedBoth') /\ (DeletionMet => DeletionMet')
  <2>1. DOMAIN db.member = Users
    BY <1>0 DEF FirmShape
  <2>2. \A i \in Users : DOMAIN table[i] = {"state", "company", "to", "token"}
    BY <1>0, <1>1, <1>2 DEF FirmShape
  <2> QED
    <3>1. PICK member : member = db.member
      OBVIOUS
    <3>2. DOMAIN member = Users /\ db' = [db EXCEPT !.member = member, !.invite = table]
      BY <1>4, <2>1, <3>1
    <3>3. /\ FirmShape' /\ UsersStay /\ MarkMove(r) /\ FirmPlace(r)' /\ Hand(r)'
          /\ req'[r].at = next /\ Moves(r) /\ HistoryOK /\ ~Standing(r)
          /\ db'.member = member /\ db'.invite = table /\ db'.company = db.company /\ db'.user = db.user
          /\ \A c : Standing(c) => Standing(c)' /\ c \in Companies
          /\ \A c : Standing(c)' => Standing(c) \/ c = r
          /\ (TransferredAway => TransferredAway') /\ (Crossed => Crossed') /\ (RemovedBoth => RemovedBoth')
          /\ (InvitedBoth => InvitedBoth') /\ (DeletionMet => DeletionMet')
      <4>1. FirmInv /\ NamesInv /\ CredentialInv /\ Open(r) /\ Ways(r) /\ Fits(next, req[r].do) /\ next \notin HandPlaces \cup {"new"}
        BY <1>0, <1>5, <1>6
      <4>2. PICK w : w = req[r].v
        OBVIOUS
      <4>3. PICK tables : tables = [db EXCEPT !.invite = table]
        OBVIOUS
      <4>4. Do(r, next, w, tables)
        BY <1>3, <4>2, <4>3
      <4> QED
        BY <1>2, <2>2, <3>2, <4>1, <4>4, MembersWrite
    <3> QED
      BY <3>1, <3>3
<1>8. \A c : In(c)' = In(c) /\ \A role : InRole(c, role)' = InRole(c, role)
  <2>1. \A c : In(c)' = In(c)
    BY <1>7 DEF In, Users
  <2> QED
    BY <1>7, <2>1 DEF InRole
<1>9. ~db.company[r].exists /\ ~Standing(r)'
  <2>1. ~db.company[r].exists
    BY <1>0 DEF FreshRows, Born
  <2> QED
    BY <1>7, <2>1 DEF Standing
<1>10. \A c : Standing(c)' => Standing(c)
  BY <1>7, <1>9
<1>11. ASSUME NEW c \in Companies, At(r, "inviteRow") => c # req[r].v.c
       PROVE  Invited(c)' \subseteq Invited(c) /\ Staffed(c)' /\ SeatsUsed(c)' <= SeatsUsed(c)
  <2>1. Invited(c)' \subseteq Invited(c)
    BY <1>1, <1>2, <1>7, <1>11 DEF Invited, Users
  <2> QED
    BY <1>7, <1>8, <1>10, <2>1, StaffedStill
<1>12. ASSUME NEW c \in Companies, At(r, "inviteRow"), c = req[r].v.c
       PROVE  /\ Invited(c)' \subseteq Invited(c) \cup {r} /\ Staffed(c)' /\ Busy(r, "invite") /\ Standing(c)
  <2>1. Invited(c)' \subseteq Invited(c) \cup {r}
    BY <1>2, <1>7 DEF Invited, Users
  <2>2. Busy(r, "invite") /\ Standing(c)
    BY <1>0, <1>12 DEF Busy, FirmPlace, OfFirm, AtFirm, Asking, At
  <2>3. Staffed(c)
    BY DEF FirmInv, FirmRow
  <2>4. SeatsUsed(c)' <= SeatsUsed(c) + 1
    <3>1. IsFiniteSet(Invited(c)) /\ IsFiniteSet(InRole(c, "MEMBER"))
      BY <1>0, FS_Subset DEF Rows, InRole
    <3>2. IsFiniteSet(Invited(c) \cup {r}) /\ Cardinality(Invited(c) \cup {r}) <= Cardinality(Invited(c)) + 1
      <4>1. Cardinality(Invited(c)) \in Nat
        BY <3>1, FS_CardinalityType
      <4>2. /\ IsFiniteSet(Invited(c) \cup {r})
            /\ Cardinality(Invited(c) \cup {r}) = IF r \in Invited(c) THEN Cardinality(Invited(c)) ELSE Cardinality(Invited(c)) + 1
        BY <3>1, FS_AddElement
      <4> QED
        BY <4>1, <4>2
    <3>3. IsFiniteSet(Invited(c)') /\ Cardinality(Invited(c)') <= Cardinality(Invited(c) \cup {r})
      BY <2>1, <3>2, FS_Subset
    <3> QED
      BY <1>8, <3>1, <3>2, <3>3, FS_CardinalityType DEF SeatsUsed
  <2>5. SeatsUsed(c) \in Nat /\ SeatLimit(db.company[c].plan) \in Nat /\ SeatsUsed(c)' \in Nat
    <3>1. IsFiniteSet(Invited(c)) /\ IsFiniteSet(InRole(c, "MEMBER"))
      BY <1>0, FS_Subset DEF Rows, InRole
    <3>2. IsFiniteSet(Invited(c) \cup {r})
      BY <3>1, FS_AddElement
    <3>3. IsFiniteSet(Invited(c)')
      BY <2>1, <3>2, FS_Subset
    <3>4. SeatsUsed(c)' \in Nat
      BY <1>8, <3>1, <3>3, FS_CardinalityType DEF SeatsUsed
    <3> QED
      BY <1>0, <3>4, SeatsAreNat
  <2>6. InvitedBoth' \/ Crossed' \/ TransferredAway' \/ SeatsUsed(c)' <= SeatLimit(db'.company[c].plan)
    <3>1. InvitedBoth \/ Crossed \/ TransferredAway \/ SeatsUsed(c) < SeatLimit(db.company[c].plan)
      BY <1>0, <1>12 DEF Inviting
    <3>2. CASE InvitedBoth \/ Crossed \/ TransferredAway
      BY <1>7, <3>2
    <3>3. CASE SeatsUsed(c) < SeatLimit(db.company[c].plan)
      <4>1. SeatsUsed(c)' <= SeatLimit(db.company[c].plan)
        BY <2>4, <2>5, <3>3
      <4> QED
        BY <1>7, <4>1
    <3> QED
      BY <3>1, <3>2, <3>3
  <2>7. Staffed(c)'
    BY <1>7, <1>8, <1>10, <2>3, <2>6 DEF Staffed
  <2> QED
    BY <2>1, <2>2, <2>7
<1>13. \A c : Standing(c) => Changes(r, c)
  BY <1>7, <1>8, <1>11, <1>12 DEF Changes
<1>14. OwnRows(r)
  <2>1. ASSUME NEW i \in Users, db'.invite[i].state = "open"
        PROVE  (db.invite[i].state = "open" /\ db'.invite[i].company = db.invite[i].company) \/ (i = r /\ At(r, "inviteRow"))
    BY <1>1, <1>2, <1>7, <2>1
  <2> QED
    BY <1>2, <1>6, <1>7, <2>1 DEF OwnRows, Users, Ways
<1>15. FirmMove(r)
  BY <1>7, <1>8, <1>13, <1>14 DEF FirmMove, SameMembers
<1>16. Rows'
  <2>1. \A w \in Users : db'.member[w] # Nil =>
              db'.member[w] \in MemberRow /\ Employer(w) /\ \A c : c = db'.member[w].company => Standing(c)
    BY <1>0, <1>7 DEF Rows
  <2>2. ASSUME NEW i \in Users, NEW c, db'.invite[i].state = "open", c = db'.invite[i].company PROVE Standing(c)
    <3>1. CASE i = r
      <4>1. At(r, "inviteRow") /\ c = req[r].v.c
        BY <1>1, <1>2, <1>7, <2>2, <3>1
      <4> QED
        BY <1>0, <4>1 DEF OfFirm, AtFirm, Asking, At
    <3>2. CASE i # r
      BY <1>0, <1>2, <1>7, <2>2, <3>2 DEF Rows
    <3> QED
      BY <3>1, <3>2
  <2>3. \A c \in Companies : In(c)' \subseteq In(c) \cup {r} /\ Invited(c)' \subseteq Invited(c) \cup {r}
    BY <1>8, <1>11, <1>12
  <2> QED
    BY <1>7, <2>1, <2>2, <2>3, RowsWritten
<1>17. FreshRows(r)'
  BY <1>1, <1>7, <1>9 DEF FreshRows, Mailed, Ends
<1>18. \A c \in Companies : Staffed(c)'
  BY <1>11, <1>12
<1> QED
  BY <1>7, <1>15, <1>16, <1>17, <1>18, FirmStep

LEMMA JoinsFirm ==
    ASSUME FirmInv, NamesInv, CredentialInv, NEW r \in Requests, Join(r)
    PROVE  FirmInv'
<1>0. /\ HistoryOK /\ FirmPlace(r) /\ FreshRows(r) /\ FirmShape /\ Accepting(r) /\ Unhurried(r) /\ Rows /\ r \in Companies /\ r \in Users
      /\ At(r, "join") /\ Open(r) /\ req[r].at \notin {"clearCompany", "revokeAll", "insertAdmin", "undoFirm"}
  BY DEF CredentialInv, FirmInv, Hand, Works, Companies, Users, Join, At, Open, Ended, Ends
<1>1. CASE Refuse(r)
  BY <1>0, <1>1, RefuseStep
<1>2. CASE ~Refuse(r)
  <2>1. PICK i, u, c : i = req[r].v /\ u = By(r) /\ c = db.invite[i].company
    OBVIOUS
  <2>2. /\ db.invite[i].state = "open" /\ db.member[u] = Nil
        /\ Do(r, "ok", req[r].v, [db EXCEPT !.invite[i].state = "accepted", !.member[u] = Member(c, "MEMBER")])
    BY <1>2, <2>1 DEF Join, End
  <2>3. i \in Users /\ Standing(c) /\ c \in Companies /\ req[r].do = "acceptInvite" /\ Employer(u) /\ u \in Users
    BY <1>0, <2>1, <2>2 DEF Accepting, At, Rows, FirmPlace, Employer, Known, Standing
  <2> DEFINE row == Member(c, "MEMBER")
             member == [db.member EXCEPT ![u] = row]
             invite == [db.invite EXCEPT ![i].state = "accepted"]
  <2>4. row \in MemberRow /\ row.company = c /\ row.role = "MEMBER" /\ row # Nil
    BY <2>3, CompaniesAssumption DEF Member, MemberRow
  <2>5. db' = [db EXCEPT !.member = member, !.invite = invite] /\ Do(r, "ok", req[r].v, [db EXCEPT !.member = member, !.invite = invite])
    <3>1. [db EXCEPT !.invite[i].state = "accepted", !.member[u] = row] = [db EXCEPT !.member = member, !.invite = invite]
      BY <1>0 DEF FirmShape
    <3>2. Do(r, "ok", req[r].v, [db EXCEPT !.member = member, !.invite = invite])
      BY <2>2, <3>1
    <3> QED
      BY <1>0, <3>2, DoEffect
  <2> HIDE DEF row
  <2>6. DOMAIN member = Users /\ member[u] = row /\ \A w \in Users : w # u => member[w] = db.member[w]
    BY <1>0, <2>3 DEF FirmShape
  <2>7. /\ DOMAIN invite = Users /\ invite[i].state = "accepted" /\ \A j \in Users : j # i => invite[j] = db.invite[j]
        /\ DOMAIN invite[i] = {"state", "company", "to", "token"}
    <3>1. "state" \in DOMAIN db.invite[i] /\ DOMAIN db.invite[i] = {"state", "company", "to", "token"} /\ DOMAIN db.invite = Users
      BY <1>0, <2>3 DEF FirmShape
    <3> QED
      BY <2>3, <3>1
  <2> HIDE DEF member, invite
  <2>8. "ok" \notin HandPlaces \cup {"new"} /\ Fits("ok", req[r].do) /\ Ways(r)
    <3>1. "ok" \notin HandPlaces \cup NamedPlaces
      BY DEF HandPlaces, NamedPlaces, BusinessPlaces, InvitePlaces, AcceptPlaces, RemovePlaces, TransferPlaces,
     ExchangePlaces, PersonPlaces, Links
    <3> QED
      BY <1>0, <3>1 DEF Ways, Fits, Mailed, Ends, At
  <2>9. /\ FirmShape' /\ UsersStay /\ MarkMove(r) /\ FirmPlace(r)' /\ Hand(r)'
        /\ req'[r].at = "ok" /\ Moves(r) /\ HistoryOK /\ ~Standing(r)
        /\ db'.member = member /\ db'.invite = invite /\ db'.company = db.company /\ db'.user = db.user
        /\ \A d : Standing(d) => Standing(d)' /\ d \in Companies
        /\ \A d : Standing(d)' => Standing(d) \/ d = r
        /\ (TransferredAway => TransferredAway') /\ (Crossed => Crossed') /\ (RemovedBoth => RemovedBoth')
        /\ (InvitedBoth => InvitedBoth') /\ (DeletionMet => DeletionMet')
    <3>1. \A j \in Users : DOMAIN invite[j] = {"state", "company", "to", "token"}
      BY <1>0, <2>7 DEF FirmShape
    <3>2. PICK w : w = req[r].v
      OBVIOUS
    <3>3. PICK tables : tables = [db EXCEPT !.member = member, !.invite = invite]
      OBVIOUS
    <3>4. Do(r, "ok", w, tables)
      BY <2>5, <3>2, <3>3
    <3>5. /\ FirmInv /\ NamesInv /\ CredentialInv /\ Open(r) /\ Ways(r) /\ Fits("ok", req[r].do) /\ "ok" \notin HandPlaces \cup {"new"}
          /\ DOMAIN member = Users /\ DOMAIN invite = Users /\ db' = [db EXCEPT !.member = member, !.invite = invite]
      BY <1>0, <2>5, <2>6, <2>7, <2>8
    <3> QED
      BY <3>1, <3>4, <3>5, MembersWrite
  <2>10. ~Standing(r)'
    <3>1. ~db.company[r].exists
      BY <1>0 DEF FreshRows, Born, At
    <3> QED
      BY <2>9, <3>1 DEF Standing
  <2>11. \A d : Standing(d)' => Standing(d)
    BY <2>9, <2>10
  <2>12. ASSUME NEW d, d # c
         PROVE  /\ In(d)' = In(d) /\ (\A role : InRole(d, role)' = InRole(d, role)) /\ Invited(d)' = Invited(d)
    <3>1. In(d)' = In(d)
      BY <2>2, <2>4, <2>6, <2>9, <2>12 DEF In, Users
    <3>2. \A w \in In(d) : db'.member[w] = db.member[w]
      BY <2>2, <2>6, <2>9 DEF In
    <3>3. Invited(d)' = Invited(d)
      BY <2>1, <2>7, <2>9, <2>12 DEF Invited, Users
    <3> QED
      BY <3>1, <3>2, <3>3 DEF InRole
  <2>13. /\ In(c)' = In(c) \cup {u} /\ u \notin In(c) /\ i \in Invited(c) /\ Invited(c)' \subseteq Invited(c) \ {i}
         /\ InRole(c, "ADMIN")' = InRole(c, "ADMIN") /\ InRole(c, "MEMBER")' = InRole(c, "MEMBER") \cup {u}
    <3>1. In(c)' = In(c) \cup {u} /\ u \notin In(c)
      BY <2>2, <2>3, <2>4, <2>6, <2>9 DEF In, Users
    <3>2. \A w \in In(c) : db'.member[w] = db.member[w]
      BY <2>2, <2>6, <2>9 DEF In
    <3>3. i \in Invited(c) /\ Invited(c)' \subseteq Invited(c) \ {i}
      BY <2>1, <2>2, <2>3, <2>7, <2>9 DEF Invited, Users
    <3>4. db'.member[u].role = "MEMBER"
      BY <2>4, <2>6, <2>9
    <3> QED
      BY <3>1, <3>2, <3>3, <3>4 DEF InRole
  <2>14. /\ SeatsUsed(c)' <= SeatsUsed(c) /\ SeatsUsed(c)' \in Nat /\ SeatsUsed(c) \in Nat
         /\ SeatLimit(db.company[c].plan) \in Nat
    <3>1. IsFiniteSet(InRole(c, "MEMBER")) /\ IsFiniteSet(Invited(c))
      BY <1>0, <2>3, FS_Subset DEF Rows, InRole
    <3>2. Cardinality(InRole(c, "MEMBER")) \in Nat /\ Cardinality(Invited(c)) \in Nat
      BY <3>1, FS_CardinalityType
    <3>3. u \notin InRole(c, "MEMBER")
      BY <2>13 DEF InRole
    <3>4. Cardinality(InRole(c, "MEMBER")') = Cardinality(InRole(c, "MEMBER")) + 1
      BY <2>13, <3>1, <3>3, FS_AddElement
    <3>5. IsFiniteSet(Invited(c) \ {i}) /\ Cardinality(Invited(c) \ {i}) = Cardinality(Invited(c)) - 1
      BY <2>13, <3>1, FS_RemoveElement
    <3>6. IsFiniteSet(Invited(c)') /\ Cardinality(Invited(c)') <= Cardinality(Invited(c)) - 1
      BY <2>13, <3>5, FS_Subset
    <3>7. Cardinality(Invited(c)') \in Nat
      BY <3>6, FS_CardinalityType
    <3> QED
      BY <1>0, <2>3, <3>2, <3>4, <3>6, <3>7, SeatsAreNat DEF SeatsUsed
  <2>15. Staffed(c)'
    <3>1. Staffed(c)
      BY <2>3 DEF FirmInv, FirmRow
    <3>2. InvitedBoth' \/ Crossed' \/ TransferredAway' \/ SeatsUsed(c)' <= SeatLimit(db'.company[c].plan)
      BY <2>9, <2>14, <3>1 DEF Staffed
    <3> QED
      BY <2>9, <2>11, <2>13, <3>1, <3>2 DEF Staffed
  <2>16. ASSUME NEW d \in Companies, d # c PROVE Staffed(d)' /\ SeatsUsed(d)' <= SeatsUsed(d)
    BY <2>9, <2>11, <2>12, <2>16, StaffedStill
  <2>17. \A d : Standing(d) => Changes(r, d)
    <3> SUFFICES ASSUME NEW d, Standing(d) PROVE Changes(r, d)
      OBVIOUS
    <3>1. CASE d = c
      BY <2>9, <2>13, <2>14, <3>1 DEF Changes
    <3>2. CASE d # c
      BY <2>9, <2>12, <2>16, <3>2 DEF Changes
    <3> QED
      BY <3>1, <3>2
  <2>18. OwnRows(r)
    <3>1. ASSUME NEW j \in Users, db'.invite[j].state = "open"
          PROVE  db.invite[j].state = "open" /\ db'.invite[j].company = db.invite[j].company
      BY <2>7, <2>9, <3>1
    <3>2. \A s \in Requests : db'.invite[s].state # "none" => db.invite[s].state # "none"
      BY <2>2, <2>7, <2>9 DEF Users
    <3> QED
      BY <2>9, <3>1, <3>2 DEF OwnRows, Mailed, Ends
  <2>19. DeletionMet \/ ~db.company[c].marked
    BY <1>0, <2>1, <2>2, <2>3 DEF Unhurried, AboutTo, At
  <2>20. FirmMove(r)
    <3>1. \E h \in Disturbers : Busy(r, h)
      BY <1>0, <2>3 DEF Busy, Disturbers
    <3>2. \A d : d = c => (DeletionMet \/ ~db.company[d].marked)
      BY <2>19
    <3>3. \A d \in Companies : SameMembers(d) \/ d = c
      BY <2>12 DEF SameMembers
    <3> QED
      BY <2>9, <2>17, <2>18, <3>1, <3>2, <3>3 DEF FirmMove
  <2>21. Rows'
    <3>1. ASSUME NEW w \in Users, db'.member[w] # Nil
          PROVE  db'.member[w] \in MemberRow /\ Employer(w) /\ \A d : d = db'.member[w].company => Standing(d)
      <4>1. CASE w = u
        BY <2>3, <2>4, <2>6, <2>9, <4>1
      <4>2. CASE w # u
        BY <1>0, <2>6, <2>9, <3>1, <4>2 DEF Rows
      <4> QED
        BY <4>1, <4>2
    <3>2. \A j \in Users : \A d : db'.invite[j].state = "open" /\ d = db'.invite[j].company => Standing(d)
      BY <1>0, <2>7, <2>9 DEF Rows
    <3>3. \A d \in Companies : In(d)' \subseteq In(d) \cup {u} /\ Invited(d)' \subseteq Invited(d) \cup {u}
      BY <2>12, <2>13
    <3> QED
      BY <2>9, <3>1, <3>2, <3>3, RowsWritten
  <2>22. FreshRows(r)'
    BY <2>9 DEF FreshRows, Born, Mailed, Ends
  <2> QED
    BY <2>9, <2>15, <2>16, <2>20, <2>21, <2>22, FirmStep
<1> QED
  BY <1>1, <1>2

\* What removeRow and transferWrite make of the members of one company.
OneFirmWritten(r, c, member) ==
    /\ FirmShape' /\ UsersStay /\ MarkMove(r) /\ FirmPlace(r)' /\ Hand(r)' /\ FreshRows(r)' /\ OwnRows(r) /\ Rows'
    /\ req'[r].at = "ok" /\ Moves(r) /\ HistoryOK /\ Standing(c)
    /\ db'.member = member /\ db'.company = db.company
    /\ \A d : Standing(d) => Standing(d)' /\ d \in Companies
    /\ \A d : Standing(d)' => Standing(d)
    /\ (TransferredAway => TransferredAway') /\ (Crossed => Crossed') /\ (RemovedBoth => RemovedBoth')
    /\ (InvitedBoth => InvitedBoth') /\ (DeletionMet => DeletionMet')
    /\ \A d \in Companies : d # c => Staffed(d)' /\ (Standing(d) => Changes(r, d))
    /\ \A d \in Companies : d # c => SameMembers(d)
    /\ In(c)' = {u \in In(c) : member[u] # Nil}
    /\ \A role : InRole(c, role)' = {u \in In(c) : member[u] # Nil /\ member[u].role = role}
    /\ Invited(c)' = Invited(c)
    /\ DeletionMet \/ ~db.company[c].marked
    /\ IsFiniteSet(InRole(c, "MEMBER")) /\ IsFiniteSet(InRole(c, "ADMIN")) /\ IsFiniteSet(Invited(c))

LEMMA OneFirmWrites ==
    ASSUME FirmInv, NamesInv, CredentialInv, NEW r \in Requests, Open(r), At(r, "removeRow") \/ At(r, "transferWrite"),
           NEW c \in Companies, c = req[r].v.c, NEW member, Do(r, "ok", req[r].v, [db EXCEPT !.member = member]), DOMAIN member = Users,
           \A u \in Users : u \notin In(c) => member[u] = db.member[u],
           \A u \in In(c) : member[u] # Nil => member[u] \in MemberRow /\ member[u].company = c
    PROVE  OneFirmWritten(r, c, member)
<1>0. /\ HistoryOK /\ FirmPlace(r) /\ FreshRows(r) /\ FirmShape /\ OfFirm(r) /\ Unhurried(r) /\ Rows /\ r \in Companies /\ r \in Users
      /\ req[r].at \notin {"clearCompany", "revokeAll", "insertAdmin", "undoFirm"}
  BY DEF CredentialInv, FirmInv, Hand, Works, Companies, Users, At
<1>1. "ok" \notin HandPlaces \cup {"new"} /\ Fits("ok", req[r].do) /\ Ways(r)
  <2>1. "ok" \notin HandPlaces \cup NamedPlaces
    BY DEF HandPlaces, NamedPlaces, BusinessPlaces, InvitePlaces, AcceptPlaces, RemovePlaces, TransferPlaces,
     ExchangePlaces, PersonPlaces, Links
  <2> QED
    BY <1>0, <2>1 DEF Ways, Fits, Mailed, Ends, At
<1>2. /\ FirmShape' /\ UsersStay /\ MarkMove(r) /\ FirmPlace(r)' /\ Hand(r)'
      /\ req'[r].at = "ok" /\ Moves(r) /\ HistoryOK /\ ~Standing(r)
      /\ db'.member = member /\ db'.invite = db.invite /\ db'.company = db.company /\ db'.user = db.user
      /\ \A d : Standing(d) => Standing(d)' /\ d \in Companies
      /\ \A d : Standing(d)' => Standing(d) \/ d = r
      /\ (TransferredAway => TransferredAway') /\ (Crossed => Crossed') /\ (RemovedBoth => RemovedBoth')
      /\ (InvitedBoth => InvitedBoth') /\ (DeletionMet => DeletionMet')
  <2>1. PICK invite : invite = db.invite
    OBVIOUS
  <2>2. db' = [db EXCEPT !.member = member, !.invite = invite]
    <3>1. db' = [db EXCEPT !.member = member]
      BY <1>0, DoEffect
    <3> QED
      BY <1>0, <2>1, <3>1 DEF FirmShape
  <2>3. DOMAIN invite = Users /\ \A j \in Users : DOMAIN invite[j] = {"state", "company", "to", "token"}
    BY <1>0, <2>1 DEF FirmShape
  <2>4. PICK w, tables : w = req[r].v /\ tables = [db EXCEPT !.member = member]
    OBVIOUS
  <2>5. Do(r, "ok", w, tables)
    BY <2>4
  <2>6. /\ FirmInv /\ NamesInv /\ CredentialInv /\ Open(r) /\ Ways(r) /\ Fits("ok", req[r].do) /\ "ok" \notin HandPlaces \cup {"new"}
        /\ DOMAIN member = Users /\ DOMAIN invite = Users
    BY <1>1, <2>3
  <2>7. /\ FirmShape' /\ UsersStay /\ MarkMove(r) /\ FirmPlace(r)' /\ Hand(r)'
        /\ req'[r].at = "ok" /\ Moves(r) /\ HistoryOK /\ ~Standing(r)
        /\ db'.member = member /\ db'.invite = invite /\ db'.company = db.company /\ db'.user = db.user
        /\ \A d : Standing(d) => Standing(d)' /\ d \in Companies
        /\ \A d : Standing(d)' => Standing(d) \/ d = r
        /\ (TransferredAway => TransferredAway') /\ (Crossed => Crossed') /\ (RemovedBoth => RemovedBoth')
        /\ (InvitedBoth => InvitedBoth') /\ (DeletionMet => DeletionMet')
    BY <2>2, <2>3, <2>5, <2>6, MembersWrite
  <2> QED
    BY <2>1, <2>7
<1>3. Standing(c) /\ req[r].do \in {"removeMember", "transferAdmin"} /\ (DeletionMet \/ ~db.company[c].marked)
  BY <1>0 DEF OfFirm, AtFirm, Asking, At, FirmPlace, Unhurried, AboutTo
<1>4. \A d : Standing(d)' => Standing(d)
  <2>1. ~db.company[r].exists
    BY <1>0 DEF FreshRows, Born, At
  <2> QED
    BY <1>2, <2>1 DEF Standing
<1>5. FreshRows(r)'
  BY <1>2 DEF FreshRows, Born, Mailed, Ends
<1>6. OwnRows(r)
  BY <1>2 DEF OwnRows, Mailed, Ends, Users
<1>7. \A d : Invited(d)' = Invited(d)
  BY <1>2 DEF Invited, Users
<1>8. /\ In(c)' = {u \in In(c) : member[u] # Nil}
      /\ \A role : InRole(c, role)' = {u \in In(c) : member[u] # Nil /\ member[u].role = role}
  <2>1. In(c)' = {u \in In(c) : member[u] # Nil}
    BY <1>2 DEF In, Users
  <2> QED
    BY <1>2, <2>1 DEF InRole
<1>9. ASSUME NEW d, d # c
      PROVE  In(d)' = In(d) /\ (\A role : InRole(d, role)' = InRole(d, role))
  <2>1. \A u \in Users : u \in In(c) => u \notin In(d)
    BY <1>9 DEF In
  <2>2. In(d)' \subseteq In(d)
    BY <1>2, <1>9 DEF In, Users
  <2>3. \A u \in In(d) : u \in Users /\ member[u] = db.member[u]
    BY <2>1 DEF In
  <2>4. In(d)' = In(d)
    BY <1>2, <2>2, <2>3 DEF In, Users
  <2> QED
    BY <1>2, <2>3, <2>4 DEF InRole
<1>10. ASSUME NEW d \in Companies, d # c PROVE Staffed(d)' /\ (Standing(d) => Changes(r, d)) /\ SameMembers(d)
  <2>1. Staffed(d)' /\ SeatsUsed(d)' <= SeatsUsed(d)
    BY <1>2, <1>4, <1>7, <1>9, <1>10, StaffedStill
  <2> QED
    BY <1>2, <1>9, <1>10, <2>1 DEF Changes, SameMembers
<1>11. Rows'
  <2>1. ASSUME NEW w \in Users, db'.member[w] # Nil
        PROVE  db'.member[w] \in MemberRow /\ Employer(w) /\ \A d : d = db'.member[w].company => Standing(d)
    <3>1. CASE w \in In(c)
      BY <1>0, <1>2, <1>3, <2>1, <3>1 DEF Rows, In
    <3>2. CASE w \notin In(c)
      BY <1>0, <1>2, <2>1, <3>2 DEF Rows
    <3> QED
      BY <3>1, <3>2
  <2>2. \A j \in Users : \A d : db'.invite[j].state = "open" /\ d = db'.invite[j].company => Standing(d)
    BY <1>0, <1>2 DEF Rows
  <2>3. \A d \in Companies : In(d)' \subseteq In(d) \cup {r} /\ Invited(d)' \subseteq Invited(d) \cup {r}
    BY <1>7, <1>8, <1>9
  <2> QED
    BY <1>2, <2>1, <2>2, <2>3, RowsWritten
<1>12. IsFiniteSet(InRole(c, "MEMBER")) /\ IsFiniteSet(InRole(c, "ADMIN")) /\ IsFiniteSet(Invited(c))
  BY <1>0, FS_Subset DEF Rows, InRole
<1> QED
  BY <1>2, <1>3, <1>4, <1>5, <1>6, <1>7, <1>8, <1>10, <1>11, <1>12 DEF OneFirmWritten

LEMMA RemovesRow ==
    ASSUME FirmInv, NamesInv, CredentialInv, NEW r \in Requests, RemoveRow(r)
    PROVE  FirmInv'
<1>0. /\ HistoryOK /\ FirmShape /\ FirmPlace(r) /\ OfFirm(r) /\ Removing(r) /\ Rows /\ At(r, "removeRow") /\ Open(r)
      /\ req[r].at \notin {"clearCompany", "revokeAll", "insertAdmin", "undoFirm"}
  BY DEF CredentialInv, FirmInv, Hand, Works, RemoveRow, At, Open, Ended, Ends
<1>1. PICK c \in Companies : c = req[r].v.c
  BY <1>0 DEF OfFirm, AtFirm, At
<1>2. PICK to : to = req[r].arg.to
  OBVIOUS
<1>3. CASE to \notin In(c)
  <2>1. Do(r, "ok", req[r].v, db)
    BY <1>1, <1>2, <1>3 DEF RemoveRow, End
  <2>2. Aside(r)
    BY <1>0, <2>1, DoEffect, TablesAside
  <2> QED
    BY <1>0, <2>1, <2>2, EndStep
<1>4. CASE to \in In(c)
  <2> DEFINE member == [db.member EXCEPT ![to] = Nil]
  <2>1. Do(r, "ok", req[r].v, [db EXCEPT !.member = member])
    BY <1>1, <1>2, <1>4 DEF RemoveRow, End
  <2>2. /\ DOMAIN member = Users /\ member[to] = Nil /\ \A u \in Users : u # to => member[u] = db.member[u]
    BY <1>0, <1>4 DEF FirmShape, In
  <2> HIDE DEF member
  <2>3. \A u \in Users : u \notin In(c) => member[u] = db.member[u]
    BY <1>4, <2>2
  <2>4. \A u \in In(c) : member[u] # Nil => member[u] \in MemberRow /\ member[u].company = c
    BY <1>0, <2>2 DEF In, Rows
  <2>a. OneFirmWritten(r, c, member)
    BY <1>0, <1>1, <2>1, <2>2, <2>3, <2>4, OneFirmWrites
  <2>5. /\ FirmShape' /\ UsersStay /\ MarkMove(r) /\ FirmPlace(r)' /\ Hand(r)' /\ FreshRows(r)' /\ OwnRows(r) /\ Rows'
        /\ req'[r].at = "ok" /\ Moves(r) /\ HistoryOK /\ Standing(c)
        /\ db'.member = member /\ db'.company = db.company
        /\ \A d : Standing(d) => Standing(d)' /\ d \in Companies
        /\ \A d : Standing(d)' => Standing(d)
        /\ (TransferredAway => TransferredAway') /\ (Crossed => Crossed') /\ (RemovedBoth => RemovedBoth')
        /\ (InvitedBoth => InvitedBoth') /\ (DeletionMet => DeletionMet')
        /\ \A d \in Companies : d # c => Staffed(d)' /\ (Standing(d) => Changes(r, d))
        /\ \A d \in Companies : d # c => SameMembers(d)
        /\ In(c)' = {u \in In(c) : member[u] # Nil}
        /\ \A role : InRole(c, role)' = {u \in In(c) : member[u] # Nil /\ member[u].role = role}
        /\ Invited(c)' = Invited(c)
        /\ DeletionMet \/ ~db.company[c].marked
    BY <2>a DEF OneFirmWritten
  <2>6. \A role : InRole(c, role)' = InRole(c, role) \ {to}
    <3>1. \A u \in In(c) : u \in Users /\ db.member[u] # Nil
      BY DEF In
    <3>2. \A role : InRole(c, role) \ {to} = {u \in In(c) : u # to /\ db.member[u].role = role}
      BY DEF InRole
    <3> QED
      BY <2>2, <2>5, <3>1, <3>2
  <2>7. TransferredAway \/ RemovedBoth \/ InRole(c, "ADMIN") \ {to} # {}
    BY <1>0, <1>1, <1>2 DEF Removing
  <2>8. Staffed(c)' /\ SeatsUsed(c)' <= SeatsUsed(c)
    BY <2>5, <2>6, <2>7, StaffedStill
  <2>9. InRole(c, "ADMIN") \subseteq InRole(c, "ADMIN")' \/ Crossed \/ TransferredAway
    <3>1. CASE Crossed \/ TransferredAway
      BY <3>1
    <3>2. CASE ~Crossed /\ ~TransferredAway
      <4>1. Cardinality(InRole(c, "ADMIN")) <= 1 /\ InRole(c, "ADMIN") \ {to} # {}
        BY <2>7, <3>2 DEF FirmInv, FirmRow, Staffed, RemovedBoth
      <4>2. to \notin InRole(c, "ADMIN")
        <5> SUFFICES ASSUME to \in InRole(c, "ADMIN") PROVE FALSE
          OBVIOUS
        <5>1. IsFiniteSet(InRole(c, "ADMIN"))
          BY <1>0, FS_Subset DEF Rows, InRole
        <5>2. IsFiniteSet(InRole(c, "ADMIN") \ {to}) /\ Cardinality(InRole(c, "ADMIN") \ {to}) = Cardinality(InRole(c, "ADMIN")) - 1
          BY <5>1, FS_RemoveElement
        <5>3. Cardinality(InRole(c, "ADMIN") \ {to}) # 0
          BY <4>1, <5>2, FS_EmptySet
        <5>4. Cardinality(InRole(c, "ADMIN") \ {to}) \in Nat /\ Cardinality(InRole(c, "ADMIN")) \in Nat
          BY <5>1, <5>2, FS_CardinalityType
        <5> QED
          BY <4>1, <5>2, <5>3, <5>4
      <4> QED
        BY <2>6, <4>2
    <3> QED
      BY <3>1, <3>2
  <2>10. Busy(r, "removeMember")
    BY <1>0 DEF Busy, FirmPlace, At
  <2>11. \A d : Standing(d) => Changes(r, d)
    <3>1. Changes(r, c)
      BY <2>5, <2>6, <2>8, <2>9, <2>10 DEF Changes
    <3> QED
      BY <2>5, <3>1
  <2>12. FirmMove(r)
    <3>1. \E h \in Disturbers : Busy(r, h)
      BY <2>10 DEF Disturbers
    <3>2. \A d : d = c => (DeletionMet \/ ~db.company[d].marked)
      BY <2>5
    <3> QED
      BY <2>5, <2>11, <3>1, <3>2 DEF FirmMove
  <2>13. \A d \in Companies : Staffed(d)'
    BY <2>5, <2>8
  <2> QED
    BY <2>5, <2>12, <2>13, FirmStep
<1> QED
  BY <1>3, <1>4

LEMMA TransfersRows ==
    ASSUME FirmInv, NamesInv, CredentialInv, NEW r \in Requests, TransferWrite(r)
    PROVE  FirmInv'
<1>0. /\ HistoryOK /\ FirmShape /\ FirmPlace(r) /\ OfFirm(r) /\ Transferring(r) /\ Rows /\ At(r, "transferWrite") /\ Open(r)
  BY DEF CredentialInv, FirmInv, Hand, Works, TransferWrite, At, Open, Ended, Ends
<1>1. PICK c \in Companies : c = req[r].v.c
  BY <1>0 DEF OfFirm, AtFirm, At
<1>2. PICK to, rows : to = req[r].arg.to /\ rows = req[r].v.rows
  OBVIOUS
<1> DEFINE member == [u \in Users |->
              IF u \notin rows \cap In(c) THEN db.member[u]
              ELSE IF u = to THEN Member(c, "ADMIN")
              ELSE IF u \in InRole(c, "ADMIN") THEN Member(c, "MEMBER") ELSE db.member[u]]
<1>3. Do(r, "ok", req[r].v, [db EXCEPT !.member = member])
  BY <1>1, <1>2 DEF TransferWrite, End
<1>4. \A role \in {"ADMIN", "MEMBER"} : Member(c, role) \in MemberRow /\ Member(c, role).company = c /\ Member(c, role).role = role /\ Member(c, role) # Nil
  BY CompaniesAssumption DEF Member, MemberRow
<1>5. \A u \in In(c) : u \in Users /\ db.member[u] # Nil /\ db.member[u] \in MemberRow /\ db.member[u].company = c
  BY <1>0 DEF In, Rows
<1>6. /\ DOMAIN member = Users
      /\ \A u \in Users : u \notin In(c) => member[u] = db.member[u]
      /\ \A u \in In(c) : member[u] = IF u \notin rows THEN db.member[u]
                                      ELSE IF u = to THEN Member(c, "ADMIN")
                                      ELSE IF u \in InRole(c, "ADMIN") THEN Member(c, "MEMBER") ELSE db.member[u]
  BY <1>5
<1> HIDE DEF member
<1>7. \A u \in In(c) : member[u] # Nil /\ member[u] \in MemberRow /\ member[u].company = c
  BY <1>4, <1>5, <1>6
<1>8. /\ FirmShape' /\ UsersStay /\ MarkMove(r) /\ FirmPlace(r)' /\ Hand(r)' /\ FreshRows(r)' /\ OwnRows(r) /\ Rows'
      /\ req'[r].at = "ok" /\ Moves(r) /\ HistoryOK /\ Standing(c)
      /\ db'.member = member /\ db'.company = db.company
      /\ \A d : Standing(d) => Standing(d)' /\ d \in Companies
      /\ \A d : Standing(d)' => Standing(d)
      /\ (TransferredAway => TransferredAway') /\ (Crossed => Crossed') /\ (RemovedBoth => RemovedBoth')
      /\ (InvitedBoth => InvitedBoth') /\ (DeletionMet => DeletionMet')
      /\ \A d \in Companies : d # c => Staffed(d)' /\ (Standing(d) => Changes(r, d))
      /\ \A d \in Companies : d # c => SameMembers(d)
      /\ In(c)' = {u \in In(c) : member[u] # Nil}
      /\ \A role : InRole(c, role)' = {u \in In(c) : member[u] # Nil /\ member[u].role = role}
      /\ Invited(c)' = Invited(c)
      /\ DeletionMet \/ ~db.company[c].marked
      /\ IsFiniteSet(InRole(c, "MEMBER")) /\ IsFiniteSet(InRole(c, "ADMIN")) /\ IsFiniteSet(Invited(c))
  <2>1. /\ DOMAIN member = Users
        /\ \A u \in Users : u \notin In(c) => member[u] = db.member[u]
        /\ \A u \in In(c) : member[u] # Nil => member[u] \in MemberRow /\ member[u].company = c
    BY <1>6, <1>7
  <2>2. Open(r) /\ (At(r, "removeRow") \/ At(r, "transferWrite"))
    BY <1>0
  <2>3. PICK m : m = member
    OBVIOUS
  <2>4. /\ Do(r, "ok", req[r].v, [db EXCEPT !.member = m]) /\ DOMAIN m = Users
        /\ \A u \in Users : u \notin In(c) => m[u] = db.member[u]
        /\ \A u \in In(c) : m[u] # Nil => m[u] \in MemberRow /\ m[u].company = c
    BY <1>3, <2>1, <2>3
  <2>5. OneFirmWritten(r, c, m)
    BY <1>1, <2>2, <2>4, OneFirmWrites
  <2> QED
    BY <2>3, <2>5 DEF OneFirmWritten
<1>9. In(c)' = In(c)
  BY <1>7, <1>8
<1>10. /\ TransferredAway \/ to \in In(c)
       /\ TransferredAway \/ Crossed \/ to \in InRole(c, "MEMBER")
       /\ TransferredAway \/ to \in rows
       /\ Crossed \/ InRole(c, "ADMIN") \subseteq rows
  BY <1>0, <1>1, <1>2 DEF Transferring, At
<1>11. TransferredAway \/ to \in InRole(c, "ADMIN")'
  BY <1>4, <1>6, <1>7, <1>8, <1>10
<1>12. Crossed \/ InRole(c, "ADMIN")' \subseteq {to}
  <2> SUFFICES ASSUME ~Crossed, NEW u \in InRole(c, "ADMIN")', u # to PROVE FALSE
    OBVIOUS
  <2>1. u \in In(c) /\ member[u].role = "ADMIN"
    BY <1>8
  <2>2. CASE u \notin rows
    <3>1. u \in InRole(c, "ADMIN")
      BY <1>6, <2>1, <2>2 DEF InRole
    <3> QED
      BY <1>10, <2>2, <3>1
  <2>3. CASE u \in rows
    <3>1. u \notin InRole(c, "ADMIN")
      BY <1>4, <1>6, <2>1, <2>3
    <3>2. member[u] = db.member[u]
      BY <1>6, <2>1, <2>3, <3>1
    <3> QED
      BY <2>1, <3>1, <3>2 DEF InRole
  <2> QED
    BY <2>2, <2>3
<1>13. Crossed' \/ Cardinality(InRole(c, "ADMIN")') <= 1
  <2>1. ASSUME InRole(c, "ADMIN")' \subseteq {to} PROVE Cardinality(InRole(c, "ADMIN")') <= 1
    <3>1. IsFiniteSet({to}) /\ Cardinality({to}) = 1
      BY FS_Singleton
    <3>2. Cardinality(InRole(c, "ADMIN")') <= Cardinality({to})
      BY <2>1, <3>1, FS_Subset
    <3> QED
      BY <3>1, <3>2
  <2> QED
    BY <1>8, <1>12, <2>1
<1>14. TransferredAway \/ Crossed \/ SeatsUsed(c)' <= SeatsUsed(c)
  <2> SUFFICES ASSUME ~TransferredAway, ~Crossed PROVE SeatsUsed(c)' <= SeatsUsed(c)
    OBVIOUS
  <2> DEFINE old == InRole(c, "MEMBER") \ {to}
             admins == InRole(c, "ADMIN")
  <2>1. to \in InRole(c, "MEMBER") /\ to \in rows /\ to \in In(c) /\ to \notin admins
    BY <1>10 DEF InRole
  <2>2. Cardinality(admins) <= 1
    BY DEF FirmInv, FirmRow, Staffed
  <2>3. InRole(c, "MEMBER")' \subseteq old \cup admins
    <3> SUFFICES ASSUME NEW u \in InRole(c, "MEMBER")' PROVE u \in old \cup admins
      OBVIOUS
    <3>1. u \in In(c) /\ member[u].role = "MEMBER"
      BY <1>8
    <3>2. u # to
      BY <1>4, <1>6, <2>1, <3>1
    <3>3. CASE u \in admins
      BY <3>3
    <3>4. CASE u \notin admins
      <4>1. member[u] = db.member[u]
        BY <1>6, <3>1, <3>2, <3>4
      <4> QED
        BY <3>1, <3>2, <4>1 DEF InRole
    <3> QED
      BY <3>3, <3>4
  <2>4. IsFiniteSet(old) /\ Cardinality(old) = Cardinality(InRole(c, "MEMBER")) - 1
    BY <1>8, <2>1, FS_RemoveElement
  <2>5. IsFiniteSet(admins)
    BY <1>8
  <2>6. IsFiniteSet(old \cup admins) /\ Cardinality(old \cup admins) = Cardinality(old) + Cardinality(admins) - Cardinality(old \cap admins)
    BY <2>4, <2>5, FS_Union
  <2>7. /\ Cardinality(old) \in Nat /\ Cardinality(admins) \in Nat /\ Cardinality(old \cup admins) \in Nat
        /\ Cardinality(InRole(c, "MEMBER")) \in Nat /\ Cardinality(Invited(c)) \in Nat
    BY <1>8, <2>4, <2>5, <2>6, FS_CardinalityType
  <2>8. IsFiniteSet(old \cap admins) /\ Cardinality(old \cap admins) \in Nat
    <3>1. IsFiniteSet(old \cap admins)
      BY <2>4, FS_Subset
    <3> QED
      BY <3>1, FS_CardinalityType
  <2>9. IsFiniteSet(InRole(c, "MEMBER")') /\ Cardinality(InRole(c, "MEMBER")') <= Cardinality(old \cup admins)
    BY <2>3, <2>6, FS_Subset
  <2>10. Cardinality(InRole(c, "MEMBER")') \in Nat
    BY <2>9, FS_CardinalityType
  <2> HIDE DEF old, admins
  <2>11. Cardinality(InRole(c, "MEMBER")') <= Cardinality(InRole(c, "MEMBER"))
    BY <2>2, <2>4, <2>6, <2>7, <2>8, <2>9, <2>10
  <2> QED
    BY <1>8, <2>7, <2>10, <2>11 DEF SeatsUsed
<1>15. Staffed(c)'
  <2>1. Staffed(c) /\ SeatsUsed(c) \in Nat /\ SeatLimit(db.company[c].plan) \in Nat
    BY <1>0, SeatsAreNat DEF FirmInv, FirmRow
  <2>2. SeatsUsed(c)' \in Nat
    BY <1>8, SeatsStayNat
  <2>3. InvitedBoth' \/ Crossed' \/ TransferredAway' \/ SeatsUsed(c)' <= SeatLimit(db'.company[c].plan)
    BY <1>8, <1>14, <2>1, <2>2 DEF Staffed
  <2>4. TransferredAway' \/ InRole(c, "ADMIN")' # {}
    BY <1>8, <1>11
  <2> QED
    BY <1>13, <2>3, <2>4 DEF Staffed
<1>16. Busy(r, "transferAdmin")
  BY <1>0 DEF Busy, FirmPlace, At
<1>17. \A d : Standing(d) => Changes(r, d)
  <2>1. Changes(r, c)
    BY <1>8, <1>9, <1>14, <1>16 DEF Changes
  <2> QED
    BY <1>8, <2>1
<1>18. FirmMove(r)
  <2>1. \E h \in Disturbers : Busy(r, h)
    BY <1>16 DEF Disturbers
  <2>2. \A d : d = c => (DeletionMet \/ ~db.company[d].marked)
    BY <1>8
  <2> QED
    BY <1>8, <1>17, <2>1, <2>2 DEF FirmMove
<1>19. \A d \in Companies : Staffed(d)'
  BY <1>8, <1>15
<1> QED
  BY <1>8, <1>18, <1>19, FirmStep

-----------------------------------------------------------------------------
\* What happens at Google, or nothing at all, leaves every company as it was.
LEMMA FirmRest ==
    ASSUME FirmInv, SameFirms(db', db), db'.user = db.user, UNCHANGED <<req, prior>>
    PROVE  FirmInv'
<1>1. db'.company = db.company /\ db'.member = db.member /\ db'.invite = db.invite /\ DOMAIN db' = DOMAIN db
  BY DEF SameFirms
<1>2. \A u : (Known(u)' <=> Known(u)) /\ (Employer(u)' <=> Employer(u)) /\ (Personal(u)' <=> Personal(u))
  BY DEF Known, Employer, Personal, Users
<1>3. \A c : Standing(c)' <=> Standing(c)
  BY <1>1 DEF Standing, At, Companies
<1>4. \A c : In(c)' = In(c) /\ (\A role : InRole(c, role)' = InRole(c, role)) /\ Invited(c)' = Invited(c)
  BY <1>1 DEF In, InRole, Invited, Users
<1>5. \A c : SeatsUsed(c)' = SeatsUsed(c) /\ \A u : Alone(u, c)' <=> Alone(u, c)
  BY <1>4 DEF SeatsUsed, Alone
<1>6. \A h : Doing(h)' = Doing(h) /\ \A r, s : Met(r, s)' <=> Met(r, s)
  BY DEF Doing, At, Met
<1>7. \A r, h : MetAny(r, h)' <=> MetAny(r, h)
  BY <1>6 DEF MetAny
<1>8. Crossed' <=> Crossed
  BY <1>6, <1>7 DEF Crossed
<1>9. (TransferredAway' <=> TransferredAway) /\ (InvitedBoth' <=> InvitedBoth) /\ (RemovedBoth' <=> RemovedBoth)
  BY <1>6, <1>7, <1>8 DEF TransferredAway, InvitedBoth, RemovedBoth
<1>10. DeletionMet' <=> DeletionMet
  BY <1>6, <1>7 DEF DeletionMet, By
<1>11. FirmShape'
  BY <1>1 DEF FirmInv, FirmShape, Companies, Users
<1>12. Rows'
  <2>1. \A u \in Users : db.member[u] # Nil =>
           db.member[u] \in MemberRow /\ Employer(u)' /\ \A c : c = db.member[u].company => Standing(c)'
    BY <1>2, <1>3 DEF FirmInv, Rows
  <2>2. \A i \in Users : \A c : db.invite[i].state = "open" /\ c = db.invite[i].company => Standing(c)'
    BY <1>3 DEF FirmInv, Rows
  <2>3. \A c : c \in Companies => IsFiniteSet(In(c)') /\ IsFiniteSet(Invited(c)')
    BY <1>4 DEF FirmInv, Rows
  <2>4. \A u \in Users : Known(u)' /\ db'.user[u].phone \in Phones => Personal(u)'
    BY <1>2 DEF FirmInv, Rows
  <2> QED
    BY <1>1, <2>1, <2>2, <2>3, <2>4 DEF Rows, Users, Companies
<1>13. ASSUME NEW r \in Requests PROVE FreshRows(r)' /\ FirmPlace(r)'
  <2>1. FreshRows(r) /\ FirmPlace(r)
    BY DEF FirmInv
  <2>2. (Employer(By(r))' <=> Employer(By(r))) /\ (Known(By(r))' <=> Known(By(r))) /\ (Personal(req[r].v)' <=> Personal(req[r].v))
    BY DEF By, Employer, Known, Personal, Users
  <2> QED
    BY <1>1, <2>1, <2>2 DEF FreshRows, FirmPlace, At
<1>14. ASSUME NEW r \in Requests PROVE Hand(r)'
  <2>1. OfFirm(r) /\ Inviting(r) /\ Removing(r) /\ Transferring(r) /\ Accepting(r) /\ Deleting(r) /\ Unhurried(r) /\ Founding(r)
    BY DEF FirmInv, Hand, Works
  <2>2. OfFirm(r)'
    BY <1>1, <1>3, <2>1 DEF OfFirm, Companies
  <2>3. Inviting(r)'
    BY <1>1, <1>5, <1>8, <1>9, <2>1 DEF Inviting, At, Companies
  <2>4. Removing(r)' /\ Transferring(r)'
    BY <1>4, <1>8, <1>9, <2>1 DEF Removing, Transferring, At, Companies
  <2>5. Accepting(r)' /\ Founding(r)'
    BY <1>1, <2>1 DEF Accepting, Founding, At, Users
  <2>6. Deleting(r)'
    BY <1>3, <1>5, <1>10, <2>1 DEF Deleting, At, By, Companies, Users
  <2>7. Unhurried(r)'
    BY <1>1, <1>10, <2>1 DEF Unhurried, AboutTo, Companies, Users
  <2> QED
    BY <2>2, <2>3, <2>4, <2>5, <2>6, <2>7 DEF Hand, Works
<1>15. ASSUME NEW c \in Companies PROVE Staffed(c)' /\ Marked(c)'
  <2>1. Staffed(c) /\ Marked(c)
    BY DEF FirmInv, FirmRow
  <2>2. Staffed(c)'
    BY <1>1, <1>3, <1>4, <1>5, <1>8, <1>9, <2>1 DEF Staffed
  <2>3. \A u : Clearing(u)' <=> Clearing(u)
    BY DEF Clearing, At
  <2>4. \A r : Deleted(r)' <=> Deleted(r)
    BY DEF Deleted
  <2> QED
    BY <1>1, <1>5, <1>10, <2>1, <2>2, <2>3, <2>4 DEF Marked, By, Users
<1> QED
  BY <1>11, <1>12, <1>13, <1>14, <1>15 DEF FirmInv, FirmRow, Companies

LEMMA FirmInvInit == FirmSpecInit => FirmInv
<1> SUFFICES ASSUME FirmSpecInit PROVE FirmInv
  OBVIOUS
<1>1. \A r \in Requests : req[r] = [do |-> "none", at |-> "new", arg |-> Nil, v |-> Nil]
  BY DEF FirmSpecInit, AccountInit, CredentialInit, RequestsInit
<1>2. \A r \in Requests : req[r].at = "new"
  BY <1>1
<1>3. \A r \in Requests : FreshRows(r) /\ FirmPlace(r) /\ Hand(r)
  BY <1>2 DEF FirmSpecInit, FreshRows, FirmPlace, Hand, Works, OfFirm, AtFirm, Asking, Inviting, Removing, Transferring, Accepting,
     Deleting, Unhurried, AboutTo, Founding, Links, At
<1>4. Firm \in Companies /\ Firm \notin Requests /\ \A c \in Companies : c = Firm \/ c \in Requests
  BY CompaniesAssumption DEF Companies
<1>5. \A c \in Companies : c # Firm => In(c) = {} /\ Invited(c) = {} /\ ~db.company[c].exists
  BY <1>4 DEF FirmSpecInit, In, Invited
<1>6. In(Firm) # {} \/ Invited(Firm) # {} => Standing(Firm)
  BY <1>4 DEF FirmSpecInit, Standing
<1>7. Rows
  <2>1. \A u \in Users : db.member[u] # Nil => db.member[u] \in MemberRow /\ Standing(db.member[u].company) /\ Employer(u)
    BY <1>6 DEF FirmSpecInit, In
  <2>2. \A i \in Users : db.invite[i].state = "open" => Standing(db.invite[i].company)
    BY <1>6 DEF FirmSpecInit, Invited
  <2>3. IsFiniteSet({})
    BY FS_EmptySet
  <2>4. \A c \in Companies : IsFiniteSet(In(c)) /\ IsFiniteSet(Invited(c))
    BY <1>5, <2>3 DEF FirmSpecInit
  <2> QED
    BY <2>1, <2>2, <2>4 DEF Rows, FirmSpecInit
<1>8. ASSUME NEW c \in Companies PROVE Staffed(c) /\ Marked(c)
  <2>1. Marked(c)
    BY DEF FirmSpecInit, Marked
  <2>2. CASE In(c) = {} /\ Invited(c) = {} /\ ~db.company[c].exists
    <3>1. InRole(c, "ADMIN") = {} /\ InRole(c, "MEMBER") = {}
      BY <2>2 DEF InRole
    <3>2. Cardinality({}) = 0
      BY FS_EmptySet
    <3>3. SeatsUsed(c) = 0
      BY <2>2, <3>1, <3>2 DEF SeatsUsed
    <3> QED
      BY <2>1, <2>2, <3>1, <3>2, <3>3 DEF Staffed, Standing, SeatLimit
  <2>3. CASE c = Firm /\ db.company[c].exists
    <3>1. PICK u \in Users : InRole(Firm, "ADMIN") = {u}
      BY <2>3 DEF FirmSpecInit
    <3>2. Cardinality({u}) = 1
      BY FS_Singleton
    <3>3. Cardinality(InRole(Firm, "ADMIN")) = 1 /\ InRole(Firm, "ADMIN") # {}
      BY <3>1, <3>2
    <3> QED
      BY <2>1, <2>3, <3>3 DEF Staffed, FirmSpecInit
  <2> QED
    BY <1>5, <1>6, <2>2, <2>3 DEF Standing
<1> QED
  BY <1>3, <1>7, <1>8 DEF FirmInv, FirmRow, FirmSpecInit

LEMMA FirmMoves ==
    ASSUME FirmInv, NamesInv, CredentialInv, NEW r \in Requests, CredentialMove(r)
    PROVE  FirmInv'
<1>1. Moves(r)
  BY CredentialMoves
<1>2. CASE ArriveSession(r) \/ ArriveSignUp(r) \/ ArriveCompany(r) \/ ArriveGoogle(r)
  BY <1>2, ArrivalsFirm
<1>3. CASE Killed(r)
  BY <1>1, <1>3, KillsFirm
<1>4. CASE SessionStep(r) /\ ~ArriveSession(r)
  BY <1>1, <1>4, AsideMoves, ClearsUser, ClearsCompany
<1>5. CASE (SignUpStep(r) /\ ~ArriveSignUp(r)) \/ (GoogleStep(r) /\ ~ArriveGoogle(r))
  BY <1>1, <1>5, AsideMoves
<1>6. CASE CompanyStep(r) /\ ~ArriveCompany(r)
  <2>1. CASE VerifyBusiness(r) \/ CompleteFirm(r) \/ InsertFirm(r) \/ InsertAdmin(r) \/ UndoFirm(r)
    BY <2>1, VerifiesFirm, BusinessWrites, InsertsAdmin
  <2>2. CASE \/ RequireAdmin(r, "invite", "inviteMember") \/ RequireAdmin(r, "removeMember", "removeTarget")
             \/ RequireAdmin(r, "transferAdmin", "transferTarget")
    BY <2>2, RequireAdminKeeps
  <2>3. CASE \/ InviteMember(r) \/ InvitePending(r) \/ ResendMail(r) \/ ResendRow(r) \/ InviteCount(r) \/ InviteRow(r)
             \/ InviteMail(r) \/ InviteUndo(r)
    BY <2>3, InviteReads, MailsInvites, ResendsRow, InvitesWrite
  <2>4. CASE AcceptInvite(r) \/ AcceptUser(r) \/ Join(r)
    BY <2>4, AcceptReads, JoinsFirm
  <2>5. CASE RemoveTarget(r) \/ CountAdmins(r) \/ RemoveRow(r) \/ TransferTarget(r) \/ Transfer(r) \/ TransferWrite(r)
    BY <2>5, RemoveReads, RemovesRow, TransferReads, TransfersRows
  <2>6. CASE DeleteAccount(r) \/ MarkUser(r) \/ CancelPlans(r) \/ Unmark(r) \/ MarkFirm(r)
    BY <2>6, DeleteReads, DeleteMarks, MarksFirm
  <2> QED
    BY <1>6, <2>1, <2>2, <2>3, <2>4, <2>5, <2>6 DEF CompanyStep
<1> QED
  BY <1>2, <1>3, <1>4, <1>5, <1>6 DEF CredentialMove

FirmSpec == FirmSpecInit /\ [][(\E r \in Requests : CredentialMove(r)) \/ AtGoogle]_vars

LEMMA FirmInvAlways == FirmSpec => []FirmInv
<1>1. AccountInv /\ FirmInv /\ [(\E r \in Requests : CredentialMove(r)) \/ AtGoogle]_vars => FirmInv'
  <2> SUFFICES ASSUME AccountInv, FirmInv, [(\E r \in Requests : CredentialMove(r)) \/ AtGoogle]_vars PROVE FirmInv'
    OBVIOUS
  <2>1. CASE \E r \in Requests : CredentialMove(r)
    BY <2>1, FirmMoves DEF AccountInv
  <2>2. CASE AtGoogle
    <3>1. PICK x : db' = [db EXCEPT !.change = x] \/ db' = [db EXCEPT !.stale = x]
      BY <2>2 DEF AtGoogle
    <3>2. SameFirms(db', db) /\ db'.user = db.user
      BY <3>1 DEF SameFirms, FirmInv, FirmShape, AccountInv, NamesInv, UserShape
    <3> QED
      BY <2>2, <3>2, FirmRest DEF AtGoogle
  <2>3. CASE UNCHANGED vars
    BY <2>3, FirmRest DEF vars, SameFirms
  <2> QED
    BY <2>1, <2>2, <2>3
<1>2. FirmSpec => AccountSpec
  BY DEF FirmSpec, AccountSpec, FirmSpecInit
<1> QED
  BY <1>1, <1>2, AccountInvAlways, FirmInvInit, PTL DEF FirmSpec

LEMMA FirmInvHolds == FirmInv => FirmHolds
<1> SUFFICES ASSUME FirmInv PROVE FirmHolds
  OBVIOUS
<1>1. OneAdmin
  BY DEF FirmInv, FirmRow, Staffed, OneAdmin
<1>2. CompanyHasAdmin
  <2> SUFFICES ASSUME NEW c \in Companies, db.company[c].exists, InRole(c, "ADMIN") = {}, ~TransferredAway, ~RemovedBoth
               PROVE  c \in Requests /\ (Open(c) \/ At(c, "killed"))
    BY DEF CompanyHasAdmin, TransferredAway, RemovedBoth
  <2>1. ~Standing(c)
    BY DEF FirmInv, FirmRow, Staffed
  <2>2. c \in Requests /\ ~At(c, "ok")
    BY <2>1 DEF Standing
  <2> QED
    BY <2>2 DEF FirmInv, FreshRows, Born, Open, Ended, Ends, At
<1>3. SeatsKept
  <2>1. TransferredAway => \E r \in Doing("transferAdmin") : MetAny(r, "removeMember")
    BY DEF TransferredAway, MetAny, Met, Doing
  <2> QED
    BY <2>1 DEF SeatsKept, FirmInv, FirmRow, Staffed, InvitedBoth
<1>4. DeletionTakesFirm
  <2> SUFFICES ASSUME NEW c \in Companies, db.company[c].marked, ~DeletionMet
               PROVE  \/ \E u \in InRole(c, "ADMIN") : db.user[u].marked /\ In(c) = {u}
                      \/ \E r \in Doing("login") \cup Doing("exchange") : Open(r) \/ At(r, "killed")
    BY DEF DeletionTakesFirm, DeletionMet, Disturbers
  <2>1. PICK u \in Users : Alone(u, c) /\ (db.user[u].marked \/ Clearing(u))
    BY DEF FirmInv, FirmRow, Marked
  <2>2. CASE db.user[u].marked
    BY <2>1, <2>2 DEF Alone
  <2>3. CASE Clearing(u)
    BY <2>3 DEF Clearing, Doing, Open, Ended, Ends, At
  <2> QED
    BY <2>1, <2>2, <2>3
<1> QED
  BY <1>1, <1>2, <1>3, <1>4 DEF FirmHolds

\* However requests meet, and whichever are dropped, a company has one ADMIN, the
\* members and invitations of its seats, and is marked for deletion with its ADMIN,
\* but for the exceptions FirmHolds names.
THEOREM FirmsHold == FirmSpec => []FirmHolds
<1> QED
  BY FirmInvAlways, FirmInvHolds, PTL

=============================================================================
