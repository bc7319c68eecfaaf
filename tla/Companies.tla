----------------------------- MODULE Companies ------------------------------
(***************************************************************************)
(* Companies: routes/companies.ts, and deleteAccount of routes/auth.ts,    *)
(* which takes the company of a sole ADMIN along.                          *)
(* "arg.by" is the user of a request, who has a session when it arrives.   *)
(***************************************************************************)
EXTENDS Sessions

CONSTANT Numbers    \* business numbers the tax office knows

NoFirm == [exists |-> FALSE, number |-> Nil, plan |-> Nil, marked |-> FALSE]

\* A row of company_members, and of company_invites: whom it is for and the
\* request that mailed the token in it.
Member(c, role) == [company |-> c, role |-> role]
MemberRow == [company : Companies, role : {"ADMIN", "MEMBER"}]
NoInvite == [state |-> "none", company |-> Nil, to |-> Nil, token |-> Nil]

ASSUME CompaniesAssumption == Nil \notin MemberRow /\ Firm \notin Requests

CompanyTables ==
    [company |-> [c \in Companies |-> NoFirm],
     member  |-> [u \in Users |-> Nil],
     invite  |-> AsTable(NoInvite),
     mailed  |-> {}]                \* tokens sent in an invitation

In(c) == {u \in Users : db.member[u] # Nil /\ db.member[u].company = c}
InRole(c, role) == {u \in In(c) : db.member[u].role = role}
Invited(c) == {i \in Users : db.invite[i].company = c /\ db.invite[i].state = "open"}

By(r)   == req[r].arg.by
Mine(r) == db.member[By(r)].company
SeatLimit(plan) == IF plan = "PRO" THEN 2 ELSE IF plan = "ULTRA" THEN 5 ELSE 0
SeatsTaken(c) == Cardinality(InRole(c, "MEMBER"))
SeatsUsed(c) == Cardinality(InRole(c, "MEMBER")) + Cardinality(Invited(c))

\* loadMine and requireAdmin: the company is read once and not again.
RequireAdmin(r, handler, next) ==
    /\ At(r, handler)
    /\ IF db.member[By(r)] # Nil /\ db.member[By(r)].role = "ADMIN"
       THEN GoOn(r, next, [c |-> Mine(r), plan |-> db.company[Mine(r)].plan,
                           used |-> SeatsUsed(Mine(r))])
       ELSE Refuse(r)

-----------------------------------------------------------------------------
(***************************************************************************)
(* verifyBusiness.                                                         *)
(***************************************************************************)

\* The membership read first decides whether a shell company is completed or a
\* company is made; the two calls to the tax office end well or not.
VerifyBusiness(r) ==
    /\ At(r, "verifyBusiness")
    /\ \/ Refuse(r)
       \/ db.member[By(r)] = Nil /\ GoOn(r, "insertFirm", [c |-> r])
       \/ /\ db.member[By(r)] # Nil
          /\ db.member[By(r)].role = "ADMIN" /\ db.company[Mine(r)].number = Nil
          /\ GoOn(r, "completeFirm", [c |-> Mine(r)])

\* The unique index of the business number.
NumberTaken(n) == \E c \in Companies : db.company[c].number = n

CompleteFirm(r) ==
    /\ At(r, "completeFirm")
    /\ LET c == req[r].v.c  n == req[r].arg.number IN
       IF NumberTaken(n) \/ db.company[c].number # Nil THEN Refuse(r)
       ELSE End(r, [db EXCEPT !.company[c].number = n])

InsertFirm(r) ==
    /\ At(r, "insertFirm")
    /\ LET n == req[r].arg.number IN
       IF NumberTaken(n) THEN Refuse(r)
       ELSE Do(r, "insertAdmin", req[r].v,
               [db EXCEPT !.company[r] = [NoFirm EXCEPT !.exists = TRUE, !.number = n]])

InsertAdmin(r) ==
    /\ At(r, "insertAdmin")
    /\ IF db.member[By(r)] = Nil THEN End(r, [db EXCEPT !.member[By(r)] = Member(r, "ADMIN")])
       ELSE GoOn(r, "undoFirm", req[r].v)

\* The company goes again; its members would cascade.
WithoutFirm(r) == [db EXCEPT !.company[r] = NoFirm]
UndoFirm(r) == At(r, "undoFirm") /\ Do(r, "refused", req[r].v, WithoutFirm(r))

-----------------------------------------------------------------------------
(***************************************************************************)
(* invite.                                                                 *)
(***************************************************************************)

InviteMember(r) ==
    /\ At(r, "inviteMember")
    /\ IF req[r].arg.to \in In(req[r].v.c) THEN Refuse(r) ELSE GoOn(r, "invitePending", req[r].v)

\* A pending invitation is mailed with a new token; otherwise the seats counted
\* by requireAdmin must leave one.
InvitePending(r) ==
    /\ At(r, "invitePending")
    /\ LET pending == {i \in Invited(req[r].v.c) : db.invite[i].to = req[r].arg.to} IN
       \/ \E i \in pending : GoOn(r, "resendMail", [c |-> req[r].v.c, invite |-> i])
       \/ /\ pending = {}
          /\ IF req[r].v.used >= SeatLimit(req[r].v.plan) THEN Refuse(r)
             ELSE GoOn(r, "inviteCount", req[r].v)

ResendMail(r) ==
    /\ At(r, "resendMail")
    /\ \/ Do(r, "resendRow", req[r].v, [db EXCEPT !.mailed = @ \cup {r}])
       \/ Refuse(r)

ResendRow(r) ==
    /\ At(r, "resendRow")
    /\ LET i == req[r].v.invite IN
       End(r, IF db.invite[i] = NoInvite THEN db ELSE [db EXCEPT !.invite[i].token = r])

\* INSERT ... SELECT ... WHERE INVITE_SEAT: the snapshot its counts see, then
\* the row.
InviteCount(r) ==
    /\ At(r, "inviteCount")
    /\ IF SeatsUsed(req[r].v.c) < SeatLimit(req[r].v.plan) THEN GoOn(r, "inviteRow", req[r].v)
       ELSE Refuse(r)

InviteRow(r) ==
    /\ At(r, "inviteRow")
    /\ Do(r, "inviteMail", req[r].v,
          [db EXCEPT !.invite[r] = [state |-> "open", company |-> req[r].v.c,
                                    to |-> req[r].arg.to, token |-> r]])

InviteMail(r) ==
    /\ At(r, "inviteMail")
    /\ \/ End(r, [db EXCEPT !.mailed = @ \cup {r}])
       \/ GoOn(r, "inviteUndo", req[r].v)

InviteUndo(r) ==
    /\ At(r, "inviteUndo")
    /\ Do(r, "refused", req[r].v, [db EXCEPT !.invite[r] = NoInvite])

-----------------------------------------------------------------------------
(***************************************************************************)
(* acceptInvite.                                                           *)
(***************************************************************************)

\* Answered by whether the company is marked; the mutation does not look.
AcceptInvite(r) ==
    /\ At(r, "acceptInvite")
    /\ LET found == {i \in Users : db.invite[i].token = req[r].arg.token} IN
       \/ found = {} /\ Refuse(r)
       \/ \E i \in found :
            IF db.invite[i].state # "open" \/ db.company[db.invite[i].company].marked
            THEN Refuse(r) ELSE GoOn(r, "acceptUser", i)

\* The caller's address and membership; an invitation is for one address.
AcceptUser(r) ==
    /\ At(r, "acceptUser")
    /\ IF db.invite[req[r].v].to # By(r) \/ db.member[By(r)] # Nil THEN Refuse(r)
       ELSE GoOn(r, "join", req[r].v)

\* ACCEPT_INVITE: claims and joins in one statement, or neither.
Join(r) ==
    /\ At(r, "join")
    /\ LET i == db.invite[req[r].v] IN
       IF i.state # "open" \/ db.member[By(r)] # Nil THEN Refuse(r)
       ELSE End(r, [db EXCEPT !.invite[req[r].v].state = "accepted",
                              !.member[By(r)] = Member(i.company, "MEMBER")])

-----------------------------------------------------------------------------
(***************************************************************************)
(* removeMember, transferAdmin.                                            *)
(***************************************************************************)

NeverLast(c) == FALSE
LastAdmin(c) == Cardinality(InRole(c, "ADMIN")) <= 1

RemoveTarget(r) ==
    /\ At(r, "removeTarget")
    /\ IF req[r].arg.to \notin In(req[r].v.c) THEN Refuse(r)
       ELSE GoOn(r, IF db.member[req[r].arg.to].role = "ADMIN" THEN "countAdmins" ELSE "removeRow",
                 req[r].v)

CountAdmins(r) ==
    /\ At(r, "countAdmins")
    /\ IF LastAdmin(req[r].v.c) THEN Refuse(r) ELSE GoOn(r, "removeRow", req[r].v)

RemoveRow(r) ==
    /\ At(r, "removeRow")
    /\ End(r, IF req[r].arg.to \in In(req[r].v.c)
              THEN [db EXCEPT !.member[req[r].arg.to] = Nil] ELSE db)

TransferTarget(r) ==
    /\ At(r, "transferTarget")
    /\ LET to == req[r].arg.to IN
       IF to \notin In(req[r].v.c) THEN Refuse(r)
       ELSE IF db.member[to].role = "ADMIN" THEN End(r, db)
       ELSE GoOn(r, "transfer", req[r].v)

\* TRANSFER_ADMIN: the rows its snapshot matches, then those that still match.
Transfer(r) ==
    /\ At(r, "transfer")
    /\ GoOn(r, "transferWrite",
            [c |-> req[r].v.c,
             rows |-> InRole(req[r].v.c, "ADMIN") \cup (In(req[r].v.c) \cap {req[r].arg.to})])

TransferWrite(r) ==
    /\ At(r, "transferWrite")
    /\ LET c == req[r].v.c  to == req[r].arg.to IN
       End(r, [db EXCEPT !.member = [u \in Users |->
            IF u \notin req[r].v.rows \cap In(c) THEN db.member[u]
            ELSE IF u = to THEN Member(c, "ADMIN")
            ELSE IF u \in InRole(c, "ADMIN") THEN Member(c, "MEMBER") ELSE db.member[u]]])

-----------------------------------------------------------------------------
(***************************************************************************)
(* deleteAccount.                                                          *)
(***************************************************************************)

DeleteAccount(r) ==
    /\ At(r, "deleteAccount")
    /\ LET m == db.member[By(r)] IN
       IF m = Nil \/ m.role = "MEMBER" THEN GoOn(r, "markUser", [u |-> By(r), firm |-> Nil])
       ELSE IF In(m.company) = {By(r)} THEN GoOn(r, "markUser", [u |-> By(r), firm |-> m.company])
       ELSE Refuse(r)

MarkUser(r) ==
    /\ At(r, "markUser")
    /\ Do(r, "cancelPlans", req[r].v, [db EXCEPT !.user[By(r)].marked = TRUE])

\* cancelSubscriptions, of the user and of the company, succeeds or not.
CancelPlans(r) ==
    /\ At(r, "cancelPlans")
    /\ GoOn(r, "unmark", req[r].v)
       \/ IF req[r].v.firm = Nil THEN GoOn(r, "revokeAll", By(r))
          ELSE GoOn(r, "markFirm", req[r].v)

KeepMark(u) == db
Unmarked(u) == [db EXCEPT !.user[u].marked = FALSE]
Unmark(r) == At(r, "unmark") /\ Do(r, "refused", req[r].v, Unmarked(By(r)))

MarkFirm(r) ==
    /\ At(r, "markFirm")
    /\ Do(r, "revokeAll", By(r), [db EXCEPT !.company[req[r].v.firm].marked = @ \/ db.company[req[r].v.firm].exists])

-----------------------------------------------------------------------------
\* Employers call these routes, signed in; deleteAccount is everybody's.
ArriveCompany(r) ==
    LET caller == {u \in Accounts : SignedIn(u)}
        employer == {u \in Accounts : db.user[u] # Nil /\ db.user[u].kind = "EMPLOYER"} IN
    \/ \E u \in caller : Begin(r, "deleteAccount", [by |-> u])
    \/ \E u \in caller \cap employer, n \in Numbers :
           Begin(r, "verifyBusiness", [by |-> u, number |-> n])
    \/ \E u \in caller \cap employer, t \in db.mailed :
           Begin(r, "acceptInvite", [by |-> u, token |-> t])
    \/ \E u \in caller \cap employer :
           /\ db.member[u] # Nil
           /\ \/ \E to \in employer, h \in {"removeMember", "transferAdmin"} :
                    Begin(r, h, [by |-> u, to |-> to])
              \/ \E to \in employer \cup {Nil} :   \* Nil: an address without an account
                    Begin(r, "invite", [by |-> u, to |-> to])

CompanyStep(r) ==
    \/ ArriveCompany(r) \/ VerifyBusiness(r) \/ CompleteFirm(r) \/ InsertFirm(r)
    \/ InsertAdmin(r) \/ UndoFirm(r)
    \/ RequireAdmin(r, "invite", "inviteMember") \/ InviteMember(r) \/ InvitePending(r)
    \/ ResendMail(r) \/ ResendRow(r) \/ InviteCount(r) \/ InviteRow(r) \/ InviteMail(r)
    \/ InviteUndo(r) \/ AcceptInvite(r) \/ AcceptUser(r) \/ Join(r)
    \/ RequireAdmin(r, "removeMember", "removeTarget") \/ RemoveTarget(r) \/ CountAdmins(r)
    \/ RemoveRow(r) \/ RequireAdmin(r, "transferAdmin", "transferTarget")
    \/ TransferTarget(r) \/ Transfer(r) \/ TransferWrite(r) \/ DeleteAccount(r)
    \/ MarkUser(r) \/ CancelPlans(r) \/ Unmark(r) \/ MarkFirm(r)

-----------------------------------------------------------------------------
(***************************************************************************)
(* Properties.                                                             *)
(***************************************************************************)

Doing(h) == {r \in Requests : req[r].do = h /\ ~At(r, "new")}
MetAny(r, h) == \E s \in Doing(h) : Met(r, s)

\* Two transfers at once: both match the old ADMIN, and the second to write
\* does not see the first one's heir.
Crossed == \E r \in Doing("transferAdmin") : MetAny(r, "transferAdmin")

\* transferAdmin makes one ADMIN and unmakes the other in one statement: two are
\* left only by two transfers at once.
OneAdmin == \A c \in Companies : Cardinality(InRole(c, "ADMIN")) <= 1 \/ Crossed

\* A company that exists has an ADMIN: removeMember refuses the last one, and
\* verifyBusiness takes a company it cannot join away again.  The exceptions:
\* a removal whose two reads a transfer came between, two removals at once of
\* two ADMINs, and a verifyBusiness that is still open or was dropped before its
\* second INSERT.
CompanyHasAdmin ==
    \A c \in Companies :
        db.company[c].exists =>
            \/ InRole(c, "ADMIN") # {}
            \/ c \in Requests /\ (Open(c) \/ At(c, "killed"))
            \/ \E r \in Doing("removeMember") :
                  MetAny(r, "transferAdmin") \/ (Crossed /\ MetAny(r, "removeMember"))

\* Members and open invitations stay within the seats of the plan, which
\* invite counts twice.  The exceptions: two invitations at once take the last
\* seat, a transfer that met another or the removal of its heir makes one MEMBER
\* more than it unmakes, and the plan may end while there are members.
SeatsKept ==
    \A c \in Companies :
        \/ SeatsUsed(c) <= SeatLimit(db.company[c].plan)
        \/ \E r \in Doing("invite") : MetAny(r, "invite")
        \/ Crossed \/ \E r \in Doing("transferAdmin") : MetAny(r, "removeMember")
        \/ Doing("webhook") # {}

\* A company waits for deletion only while its ADMIN does, alone: the purge may
\* take both.  The exceptions: somebody accepts an invitation while the account
\* is being deleted, or a transfer or a removal that began with more members
\* ends then, or a login clears the two marks around one of a deletion or is
\* dropped between them, or the account is deleted twice, and the second fails
\* and takes back the mark of the first.
DeletionTakesFirm ==
    \A c \in Companies :
        db.company[c].marked =>
            \/ \E u \in InRole(c, "ADMIN") : db.user[u].marked /\ In(c) = {u}
            \/ \E r \in Doing("deleteAccount") :
                  \/ \E h \in {"acceptInvite", "transferAdmin", "removeMember", "login", "exchange"} :
                        MetAny(r, h)
                  \/ \E s \in Doing("deleteAccount") \ {r} : By(s) = By(r)
            \/ \E r \in Doing("login") \cup Doing("exchange") : Open(r) \/ At(r, "killed")

\* A company always has somebody to answer for it, and one, within its seats, and
\* ends with that somebody's account.
FirmHolds == OneAdmin /\ CompanyHasAdmin /\ SeatsKept /\ DeletionTakesFirm
=============================================================================
