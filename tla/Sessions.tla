------------------------------ MODULE Sessions ------------------------------
(***************************************************************************)
(* Sessions of the core Worker: routes/auth.ts, apple-auth.ts and the      *)
(* logins and resets of email-auth.ts.  A row of any table, or a password, *)
(* is named by the request that made it, or, when it is there at the       *)
(* start, by an account.  A refresh token and its access token are revoked *)
(* by one statement, so that one status stands for both.  "Expired" is a   *)
(* choice: a request compares the row with its own clock.                  *)
(***************************************************************************)
EXTENDS CoreWorker

CONSTANTS
    Accounts,       \* users there are at the start
    Logins,         \* provider subjects, of the social providers
    WithEmail,      \* the logins whose verified e-mail is the address below
    Firm            \* the company there is at the start

ASSUME SessionsAssumption ==
    Nil \notin {"RESET", "VERIFY"} \cup Accounts \cup Logins /\ Accounts \cap Requests = {}

Users     == Accounts \cup Requests
Companies == Requests \cup {Firm}
SignedIn(u) == \E t \in Users : db.token[t] = [state |-> "live", user |-> u]
AsTable(row) == [u \in Users |-> row]

\* users: social login, phone, whether it has the one e-mail address of the
\* model, password (named by the request that set it), and the deletion mark.
UserRow(kind, login, phone, email, pw) ==
    [kind |-> kind, login |-> login, phone |-> phone, email |-> email, pw |-> pw,
     marked |-> FALSE]

ByEmail == {u \in Users : db.user[u] # Nil /\ db.user[u].email}
ByLogin(l) == {u \in Users : db.user[u] # Nil /\ db.user[u].login = l}

SessionTables ==
    [token    |-> AsTable([state |-> "none", user |-> Nil]),
     link     |-> AsTable([state |-> "none", kind |-> Nil, owner |-> Nil]),
     oauth    |-> AsTable("none"),                  \* oauth_states
     code     |-> AsTable([state |-> "none", kind |-> Nil, login |-> Nil]),
     pending  |-> {},                               \* pendingTokens handed out
     identity |-> [l \in Logins |-> Nil]]           \* user_identities

-----------------------------------------------------------------------------
(***************************************************************************)
(* issue, revokeAll, clearDeletion.                                        *)
(***************************************************************************)

Issue(r) ==
    /\ At(r, "issue")
    /\ End(r, [db EXCEPT !.token[r] = [state |-> "live", user |-> req[r].v]])

NoneEnded(u) == db.token
EndAll(u) == [t \in Users |-> IF db.token[t].user = u /\ db.token[t].state = "live"
                               THEN [db.token[t] EXCEPT !.state = "revoked"]
                               ELSE db.token[t]]

\* REVOKE_ALL; what it follows decides the answer.
RevokeAll(r) ==
    /\ At(r, "revokeAll")
    /\ Do(r, IF req[r].do = "refresh" THEN "refused" ELSE "ok", req[r].v,
          [db EXCEPT !.token = EndAll(req[r].v)])

\* clearDeletion: the user's mark, then the mark of the company it is ADMIN of.
ClearUser(r) ==
    /\ At(r, "clear")
    /\ Do(r, "clearCompany", req[r].v, [db EXCEPT !.user[req[r].v].marked = FALSE])

AdminOf(u, c) == db.member[u] = [company |-> c, role |-> "ADMIN"]

NoClear(u) == db.company
ClearedCompany(u) ==
    [c \in Companies |-> IF AdminOf(u, c) THEN [db.company[c] EXCEPT !.marked = FALSE]
                         ELSE db.company[c]]

ClearCompany(r) ==
    /\ At(r, "clearCompany")
    /\ Do(r, "issue", req[r].v, [db EXCEPT !.company = ClearedCompany(req[r].v)])

-----------------------------------------------------------------------------
(***************************************************************************)
(* refresh, logout.                                                        *)
(***************************************************************************)

\* The row of the token decides: revoked, expired, or to be rotated.
Refresh(r) ==
    /\ At(r, "refresh")
    /\ LET t == db.token[req[r].arg] IN
       \/ t.state = "revoked" /\ GoOn(r, "revokeAll", t.user)
       \/ t.state = "live" /\ GoOn(r, "rotate", t.user)
       \/ t.state = "live" /\ Refuse(r)

\* ROTATE_REFRESH; no row means that somebody else revoked it.
AnyToken(t) == TRUE
StillLive(t) == db.token[t].state = "live"
Rotate(r) ==
    /\ At(r, "rotate")
    /\ IF StillLive(req[r].arg)
       THEN Do(r, "issue", req[r].v, [db EXCEPT !.token[req[r].arg].state = "revoked"])
       ELSE GoOn(r, "revokeAll", req[r].v)

Logout(r) ==
    /\ At(r, "logout")
    /\ End(r, [db EXCEPT !.token[req[r].arg].state = "revoked"])

-----------------------------------------------------------------------------
(***************************************************************************)
(* E-mail login and password reset.                                        *)
(***************************************************************************)

Login(r) ==
    /\ At(r, "login")
    /\ \/ \E u \in ByEmail : db.user[u].pw = req[r].arg /\ GoOn(r, "clear", u)
       \/ (\A u \in ByEmail : db.user[u].pw # req[r].arg) /\ Refuse(r)

\* requestReset answers 202 also when nobody has the address.
RequestReset(r) ==
    /\ At(r, "requestReset")
    /\ IF ByEmail = {} THEN End(r, db)
       ELSE \E u \in ByEmail : GoOn(r, "issueLink", [kind |-> "RESET", owner |-> u])

\* ISSUE_EMAIL_TOKEN: the owner's open links of the kind its snapshot sees go,
\* and the new one is inserted; then the mail is sent, or fails.
KeptLinks(kind, owner) == {}
OpenLinks(kind, owner) ==
    {t \in Users : db.link[t] = [state |-> "open", kind |-> kind, owner |-> owner]}

IssueLink(r) ==
    /\ At(r, "issueLink")
    /\ LET k == req[r].v.kind  o == req[r].v.owner IN
       GoOn(r, "linkRow", [kind |-> k, owner |-> o, old |-> OpenLinks(k, o)])

LinkRow(r) ==
    /\ At(r, "linkRow")
    /\ LET v == req[r].v IN
       IF v.kind = "VERIFY" /\ db.signup.id # v.owner THEN Refuse(r) \* the sign-up is gone
       ELSE \E answer \in {"ok", "refused"} :
           Do(r, answer, v,
              [db EXCEPT !.link = [t \in Users |->
                  IF t = r THEN [state |-> "open", kind |-> v.kind, owner |-> v.owner]
                  ELSE IF t \in v.old /\ db.link[t].state = "open"
                       THEN [db.link[t] EXCEPT !.state = "gone"] ELSE db.link[t]]])

ConfirmReset(r) ==
    /\ At(r, "confirmReset")
    /\ LET l == db.link[req[r].arg] IN
       IF l.state = "open" THEN GoOn(r, "consumeReset", l.owner) ELSE Refuse(r)

\* consumeToken, for a reset and for a verification.
LinkOpen(l) == db.link[l].state = "open"
ConsumeLink(r, at, next) ==
    /\ At(r, at)
    /\ IF LinkOpen(req[r].arg)
       THEN Do(r, next, req[r].v, [db EXCEPT !.link[req[r].arg].state = "used"])
       ELSE Refuse(r)

SetPassword(r) ==
    /\ At(r, "setPassword")
    /\ Do(r, "revokeAll", req[r].v, [db EXCEPT !.user[req[r].v].pw = r])

-----------------------------------------------------------------------------
(***************************************************************************)
(* OAuth: start, callback, exchange.                                       *)
(***************************************************************************)

OauthStart(r) ==
    /\ At(r, "oauthStart")
    /\ End(r, [db EXCEPT !.oauth[r] = "open"])

\* DELETE ... RETURNING takes the state, also when it is expired or of another
\* provider.
TakeState(r, callback) ==
    /\ At(r, callback)
    /\ IF db.oauth[req[r].arg.state] # "open" THEN Refuse(r)
       ELSE \E next \in {"mint", "refused"} :
               Do(r, next, req[r].v, [db EXCEPT !.oauth[req[r].arg.state] = "gone"])

OauthCallback(r) == TakeState(r, "oauthCallback")
AppleCallback(r) == TakeState(r, "appleCallback")

\* The provider's two answers come before the INSERT, or one of them fails.
MintCode(r) ==
    /\ At(r, "mint")
    /\ \/ End(r, [db EXCEPT !.code[r] = [state |-> "open", kind |-> req[r].arg.kind,
                                         login |-> req[r].arg.login]])
       \/ Refuse(r)

\* The code is unused and fresh and the verifier fits, or not.
Exchange(r) ==
    /\ At(r, "exchange")
    /\ LET c == db.code[req[r].arg] IN
       \/ c.state = "open" /\ GoOn(r, "useCode", c)
       \/ Refuse(r)

CodeUnused(c) == db.code[c].state = "open"
UseCode(r) ==
    /\ At(r, "useCode")
    /\ IF CodeUnused(req[r].arg)
       THEN Do(r, IF req[r].v.kind = "PERSONAL" THEN "findIdentity" ELSE "oauthIdentity",
               req[r].v.login, [db EXCEPT !.code[req[r].arg].state = "used"])
       ELSE Refuse(r)

\* The account found, if it is of the wanted kind.
Found(r, u, kind) ==
    IF db.user[u].kind = kind THEN GoOn(r, "clear", u) ELSE Refuse(r)

\* appleNative verifies Apple's token and goes straight on.
AppleNative(r) == At(r, "appleNative") /\ GoOn(r, "findIdentity", req[r].arg)

\* completePersonalSocial: by identity, by the users row, or a pendingToken.
FindIdentity(r) ==
    /\ At(r, "findIdentity")
    /\ LET l == req[r].v IN
       IF db.identity[l] # Nil THEN Found(r, db.identity[l], "PERSONAL")
       ELSE GoOn(r, "findLogin", l)

FindLogin(r) ==
    /\ At(r, "findLogin")
    /\ LET l == req[r].v IN
       \/ \E u \in ByLogin(l) : Found(r, u, "PERSONAL")
       \/ ByLogin(l) = {} /\ End(r, [db EXCEPT !.pending = @ \cup {l}])
       \/ ByLogin(l) = {} /\ l \notin WithEmail /\ Refuse(r)

\* resolveOAuthUser, for employers: by identity, by e-mail, by the users row,
\* or a new user.
OauthIdentity(r) ==
    /\ At(r, "oauthIdentity")
    /\ LET l == req[r].v IN
       IF l \notin WithEmail THEN Refuse(r)
       ELSE IF db.identity[l] # Nil THEN Found(r, db.identity[l], "EMPLOYER")
       ELSE GoOn(r, "oauthEmail", l)

OauthEmail(r) ==
    /\ At(r, "oauthEmail")
    /\ \/ \E u \in ByEmail : Found(r, u, "EMPLOYER")
       \/ ByEmail = {} /\ GoOn(r, "oauthLogin", req[r].v)

OauthLogin(r) ==
    /\ At(r, "oauthLogin")
    /\ \/ \E u \in ByLogin(req[r].v) : Found(r, u, "EMPLOYER")
       \/ ByLogin(req[r].v) = {} /\ GoOn(r, "oauthInsert", req[r].v)

\* A unique violation is looked up by e-mail once more; rows do not go away.
OauthInsert(r) ==
    /\ At(r, "oauthInsert")
    /\ LET l == req[r].v IN
       \/ \E u \in ByEmail : Found(r, u, "EMPLOYER")
       \/ ByEmail = {} /\ ByLogin(l) # {} /\ Refuse(r)
       \/ /\ ByEmail \cup ByLogin(l) = {}
          /\ Do(r, "clear", r,
                [db EXCEPT !.user[r] = UserRow("EMPLOYER", l, Nil, TRUE, Nil)])

-----------------------------------------------------------------------------
ArriveSession(r) ==
    \/ \E t \in Users, h \in {"refresh", "logout"} :
           db.token[t].state # "none" /\ Begin(r, h, t)
    \/ \E p \in Users : (p \in Requests => req[p].do \in {"signup", "confirmReset"}) /\ Begin(r, "login", p)
    \/ Begin(r, "requestReset", Nil) \/ Begin(r, "oauthStart", Nil)
    \/ \E l \in Users :
           db.link[l].state # "none" /\ db.link[l].kind = "RESET" /\ Begin(r, "confirmReset", l)
    \/ \E s \in Users, l \in Logins, k \in {"PERSONAL", "EMPLOYER"} :
           db.oauth[s] # "none"
           /\ Begin(r, "oauthCallback", [state |-> s, login |-> l, kind |-> k])
    \/ \E s \in Users, l \in Logins :
           db.oauth[s] # "none"
           /\ Begin(r, "appleCallback", [state |-> s, login |-> l, kind |-> "PERSONAL"])
    \/ \E c \in Users : db.code[c].state # "none" /\ Begin(r, "exchange", c)
    \/ \E l \in Logins : Begin(r, "appleNative", l)

SessionStep(r) ==
    \/ ArriveSession(r) \/ Issue(r) \/ RevokeAll(r) \/ ClearUser(r) \/ ClearCompany(r)
    \/ Refresh(r) \/ Rotate(r) \/ Logout(r) \/ Login(r) \/ RequestReset(r)
    \/ IssueLink(r) \/ LinkRow(r) \/ ConfirmReset(r) \/ ConsumeLink(r, "consumeReset", "setPassword")
    \/ SetPassword(r) \/ OauthStart(r) \/ OauthCallback(r) \/ AppleCallback(r)
    \/ MintCode(r) \/ Exchange(r) \/ UseCode(r) \/ AppleNative(r) \/ FindIdentity(r)
    \/ FindLogin(r) \/ OauthIdentity(r) \/ OauthEmail(r) \/ OauthLogin(r) \/ OauthInsert(r)

-----------------------------------------------------------------------------
(***************************************************************************)
(* Properties.                                                             *)
(***************************************************************************)

\* The credentials that are good for once, by the handler that takes them.
OneUse == {"refresh", "exchange", "confirmReset", "verify", "oauthCallback", "appleCallback",
           "googleCallback", "googleComplete"}

Took(r) == req[r].do \in OneUse /\ At(r, "ok")

\* A refresh token, an exchange code, a reset or verification link is good for
\* one request, however many arrive with it together: each handler reads the
\* row first and takes it by a conditional UPDATE.
TokensUsedOnce ==
    \A r, s \in Requests :
        r # s /\ Took(r) /\ Took(s) => req[r].do # req[s].do \/ req[r].arg # req[s].arg

\* After a reset is answered nothing of before is left: a session that was
\* issued before the reset began is dead, and a login that begins afterwards
\* needs a password at least as new.  Sessions being issued while the reset
\* runs may outlive it.
ResetTakesOver ==
    \A r \in Requests :
        Answered(r, "confirmReset") =>
            LET u == db.link[req[r].arg].owner IN
            /\ \A t \in Users : db.token[t] = [state |-> "live", user |-> u] =>
                    t \in Requests /\ t \notin prior[r]
            /\ \A s \in Requests :
                    Answered(s, "login") /\ r \in prior[s] /\ db.token[s].user = u =>
                        req[s].arg \notin Accounts \cup prior[r]
=============================================================================
