------------------------------- MODULE SignUp -------------------------------
(***************************************************************************)
(* How accounts come to be: routes/phone-auth.ts and the sign-up and       *)
(* verification of routes/email-auth.ts.  They end as a login does.        *)
(***************************************************************************)
EXTENDS Sessions

CONSTANTS
    Phones,
    MaxAttempts     \* PHONE_CODE_MAX_ATTEMPTS

UserRecord ==
    [kind : {"PERSONAL", "EMPLOYER"}, login : Logins \cup {Nil}, phone : Phones \cup {Nil},
     email : BOOLEAN, pw : Users \cup {Nil}, marked : BOOLEAN]

ASSUME SignUpAssumption == MaxAttempts \in Nat /\ Nil \notin UserRecord \cup Phones

ByPhone(p) == {u \in Users : db.user[u] # Nil /\ db.user[u].phone = p}

\* phone_codes, named by the request that sent them, email_signups of the one
\* address, and user_identities of the phones.
SignUpTables ==
    [sms    |-> AsTable([state |-> "none", phone |-> Nil, tries |-> 0]),
     signup |-> [id |-> Nil, pw |-> Nil],
     bound  |-> [p \in Phones |-> Nil]]

-----------------------------------------------------------------------------
(***************************************************************************)
(* sendPhone.                                                              *)
(***************************************************************************)

\* The last code was sent long ago, or the request is told to wait.
SendPhone(r) ==
    /\ At(r, "sendPhone")
    /\ \/ GoOn(r, "consumeOpen", Nil)
       \/ (\E c \in Users : db.sms[c].phone = req[r].arg) /\ Refuse(r)

ConsumeOpen(r) ==
    /\ At(r, "consumeOpen")
    /\ Do(r, "insertCode", Nil,
          [db EXCEPT !.sms = [c \in Users |->
                IF db.sms[c].phone = req[r].arg
                THEN [db.sms[c] EXCEPT !.state = "consumed"] ELSE db.sms[c]]])

\* The message is sent, or the provider fails after the row is there.
InsertCode(r) ==
    /\ At(r, "insertCode")
    /\ \E answer \in {"ok", "refused"} :
           Do(r, answer, Nil,
              [db EXCEPT !.sms[r] = [state |-> "open", phone |-> req[r].arg, tries |-> 0]])

-----------------------------------------------------------------------------
(***************************************************************************)
(* verifyPhone: the code.                                                  *)
(***************************************************************************)

\* The login of the pendingToken sent along, or Nil.
Pending(r) == req[r].arg.login

\* ACTIVE_CODE: the open code sent last.
Active(p) ==
    LET open == {c \in Users : db.sms[c].state = "open" /\ db.sms[c].phone = p} IN
    {c \in open : \A d \in open \cap Requests : c \notin Accounts \cup prior[d]}

AtLimit(c) == db.sms[c].tries > MaxAttempts
Exhausted(c) == db.sms[c].tries >= MaxAttempts
\* The code may be expired, and so may a pendingToken.
VerifyPhone(r) ==
    /\ At(r, "verifyPhone")
    /\ \/ Active(req[r].arg.phone) = {} /\ Refuse(r)
       \/ \E c \in Active(req[r].arg.phone) :
            \/ GoOn(r, "expireCode", c)
            \/ Exhausted(c) /\ Refuse(r)
            \/ ~Exhausted(c) /\ GoOn(r, IF req[r].arg.right THEN "consumeCode" ELSE "bump", c)
            \/ ~Exhausted(c) /\ req[r].arg.right /\ Pending(r) # Nil /\ Refuse(r)

Bump(r) ==
    /\ At(r, "bump")
    /\ Do(r, "refused", req[r].v, [db EXCEPT !.sms[req[r].v].tries = @ + 1])

\* CONSUME_ONE; nobody looks at how many rows it updated.
ConsumeCode(r) ==
    /\ At(r, "expireCode") \/ At(r, "consumeCode")
    /\ Do(r, IF At(r, "expireCode") THEN "refused" ELSE "owner", req[r].v,
          [db EXCEPT !.sms[req[r].v].state = "consumed"])

-----------------------------------------------------------------------------
(***************************************************************************)
(* verifyPhone: the account.                                               *)
(***************************************************************************)

\* BY_PHONE: link the pending login, or sign in, or create.
Owner(r) ==
    /\ At(r, "owner")
    /\ LET p == req[r].arg.phone IN
       IF ByPhone(p) # {}
       THEN \E u \in ByPhone(p) : GoOn(r, IF Pending(r) = Nil THEN "bindPhone" ELSE "me", u)
       ELSE GoOn(r, IF Pending(r) = Nil THEN "insertUser" ELSE "insertSocial", Nil)

\* linkOrBlock: socialProviders reads the users row, then the identities ...
NoneShown(u) == FALSE
ShowsLogin(u) == db.user[u].login # Nil
Me(r) ==
    /\ At(r, "me")
    /\ IF ShowsLogin(req[r].v) THEN Refuse(r) ELSE GoOn(r, "providers", req[r].v)

Social(u) == {l \in Logins : db.identity[l] = u}

Providers(r) ==
    /\ At(r, "providers")
    /\ IF Social(req[r].v) # {} THEN Refuse(r) ELSE GoOn(r, "taken", req[r].v)

\* ... then whether the login is somebody else's ...
Taken(r) ==
    /\ At(r, "taken")
    /\ IF db.identity[Pending(r)] \in {req[r].v, Nil} THEN GoOn(r, "setSocial", req[r].v) ELSE Refuse(r)

\* ... and SET_SOCIAL writes a row that is still of provider "phone".
SetSocial(r) ==
    /\ At(r, "setSocial")
    /\ LET u == req[r].v IN
       IF db.user[u].login # Nil THEN GoOn(r, "bindLogin", u)
       ELSE IF ByLogin(Pending(r)) # {} THEN Refuse(r)
       ELSE Do(r, "bindLogin", u, [db EXCEPT !.user[u].login = Pending(r)])

\* bindIdentity: the identity is read, inserted if there is none, and read once
\* more when the insert finds it taken.  It never changes once it is there, so
\* that the second read is taken together with the insert.
BindLogin(r) ==
    /\ At(r, "bindLogin")
    /\ LET l == Pending(r)  u == req[r].v IN
       IF db.identity[l] = Nil THEN GoOn(r, "bindLoginInsert", u)
       ELSE IF db.identity[l] = u THEN GoOn(r, "bindPhone", u) ELSE Refuse(r)

BindLoginInsert(r) ==
    /\ At(r, "bindLoginInsert")
    /\ LET l == Pending(r)  u == req[r].v IN
       IF db.identity[l] \in {u, Nil}
       THEN Do(r, "bindPhone", u, [db EXCEPT !.identity[l] = u]) ELSE Refuse(r)

BindPhone(r) ==
    /\ At(r, "bindPhone")
    /\ LET p == req[r].arg.phone  u == req[r].v IN
       IF db.bound[p] = Nil THEN GoOn(r, "bindPhoneInsert", u)
       ELSE IF db.bound[p] = u THEN GoOn(r, "clear", u) ELSE Refuse(r)

BindPhoneInsert(r) ==
    /\ At(r, "bindPhoneInsert")
    /\ LET p == req[r].arg.phone  u == req[r].v IN
       IF db.bound[p] \in {u, Nil}
       THEN Do(r, "clear", u, [db EXCEPT !.bound[p] = u]) ELSE Refuse(r)

\* INSERT_USER; on a unique violation the phone's owner signs in.
InsertUser(r) ==
    /\ At(r, "insertUser")
    /\ LET p == req[r].arg.phone IN
       IF ByPhone(p) = {}
       THEN Do(r, "bindPhone", r, [db EXCEPT !.user[r] = UserRow("PERSONAL", Nil, p, FALSE, Nil)])
       ELSE GoOn(r, "racedUser", Nil)

RacedUser(r) ==
    /\ At(r, "racedUser")
    /\ \E u \in ByPhone(req[r].arg.phone) : GoOn(r, "bindPhone", u)

\* createFromPending: with the login's e-mail, then without, looking the phone's
\* owner up after each unique violation.
InsertSocial(r, at, raced, email) ==
    /\ At(r, at)
    /\ LET p == req[r].arg.phone  l == Pending(r) IN
       IF ByPhone(p) = {} /\ ByLogin(l) = {} /\ (email => ByEmail = {})
       THEN Do(r, "bindLogin", r, [db EXCEPT !.user[r] = UserRow("PERSONAL", l, p, email, Nil)])
       ELSE GoOn(r, raced, Nil)

CreateRaced(r, at, retry) ==
    /\ At(r, at)
    /\ LET p == req[r].arg.phone IN
       \/ \E u \in ByPhone(p) : GoOn(r, "me", u)
       \/ ByPhone(p) = {} /\ retry /\ GoOn(r, "insertPlain", Nil)
       \/ ByPhone(p) = {} /\ ~retry /\ Refuse(r)

CreateFromPending(r) ==
    LET email == req[r].do = "verifyPhone" /\ Pending(r) \in WithEmail IN
    \/ InsertSocial(r, "insertSocial", "raced", email)
    \/ CreateRaced(r, "raced", email)
    \/ InsertSocial(r, "insertPlain", "racedAgain", FALSE)
    \/ CreateRaced(r, "racedAgain", FALSE)

-----------------------------------------------------------------------------
(***************************************************************************)
(* signup, verify.                                                         *)
(***************************************************************************)

Signup(r) ==
    /\ At(r, "signup")
    /\ IF ByEmail # {} THEN Refuse(r) ELSE GoOn(r, "upsertSignup", Nil)

\* A second sign-up of the address takes over the row and keeps its id.
UpsertSignup(r) ==
    /\ At(r, "upsertSignup")
    /\ LET id == IF db.signup.id = Nil THEN r ELSE db.signup.id IN
       Do(r, "issueLink", [kind |-> "VERIFY", owner |-> id],
          [db EXCEPT !.signup = [id |-> id, pw |-> r]])

\* The link joined with its sign-up.
Verify(r) ==
    /\ At(r, "verify")
    /\ LET l == db.link[req[r].arg] IN
       IF l.state = "open" /\ db.signup.id = l.owner
       THEN GoOn(r, "consumeVerify", db.signup) ELSE Refuse(r)

EmailOwner(r) ==
    /\ At(r, "emailOwner")
    /\ IF ByEmail # {} THEN Refuse(r) ELSE GoOn(r, "insertEmail", req[r].v)

\* A unique violation is answered EMAIL_TAKEN.
InsertEmail(r) ==
    /\ At(r, "insertEmail")
    /\ IF ByEmail # {} THEN Refuse(r)
       ELSE Do(r, "dropSignup", req[r].v,
               [db EXCEPT !.user[r] = UserRow("EMPLOYER", Nil, Nil, TRUE, req[r].v.pw)])

\* DELETE email_signups, whose links cascade.
DropSignup(r) ==
    /\ At(r, "dropSignup")
    /\ LET s == req[r].v.id IN
       Do(r, "issue", r,
          [db EXCEPT !.signup = IF @.id = s THEN [id |-> Nil, pw |-> Nil] ELSE @,
                     !.link = [t \in Users |->
                         IF db.link[t].kind = "VERIFY" /\ db.link[t].owner = s
                         THEN [db.link[t] EXCEPT !.state = "gone"] ELSE db.link[t]]])

-----------------------------------------------------------------------------
ArriveSignUp(r) ==
    \/ \E p \in Phones : Begin(r, "sendPhone", p)
    \/ \E p \in Phones, right \in BOOLEAN, l \in db.pending \cup {Nil} :
           /\ \E c \in Users : db.sms[c].phone = p
           /\ right \/ l = Nil      \* with a wrong code the token is not looked at
           /\ Begin(r, "verifyPhone", [phone |-> p, right |-> right, login |-> l])
    \/ Begin(r, "signup", Nil)
    \/ \E l \in Users :
           db.link[l].state # "none" /\ db.link[l].kind = "VERIFY" /\ Begin(r, "verify", l)

SignUpStep(r) ==
    \/ ArriveSignUp(r) \/ SendPhone(r) \/ ConsumeOpen(r) \/ InsertCode(r)
    \/ VerifyPhone(r) \/ Bump(r) \/ ConsumeCode(r) \/ Owner(r) \/ Me(r) \/ Providers(r)
    \/ Taken(r) \/ SetSocial(r) \/ BindLogin(r) \/ BindLoginInsert(r) \/ BindPhone(r)
    \/ BindPhoneInsert(r) \/ InsertUser(r) \/ RacedUser(r) \/ CreateFromPending(r)
    \/ Signup(r) \/ UpsertSignup(r) \/ Verify(r) \/ ConsumeLink(r, "consumeVerify", "emailOwner")
    \/ EmailOwner(r) \/ InsertEmail(r) \/ DropSignup(r)

-----------------------------------------------------------------------------
(***************************************************************************)
(* Properties.                                                             *)
(***************************************************************************)

Verifying == {r \in Requests : req[r].do = "verifyPhone" /\ ~At(r, "new")}

\* A phone code is worth MaxAttempts wrong guesses as long as they come one
\* after the other; the count is read before it is bumped.
CodeSpent ==
    (\A r, s \in Verifying : ~Met(r, s)) =>
        \A c \in Users : db.sms[c].tries <= MaxAttempts

\* What lets a user in is good for one use: every token, code or link for one
\* request, and a phone code for so many guesses.
CredentialsUsedOnce == TokensUsedOnce /\ CodeSpent

\* The social accounts that lead to u.
Leads(u) == {l \in Logins : db.identity[l] = u \/ db.user[u].login = l}

\* Identities and users rows never disagree for long: a login leads to one
\* account and an account has one social login, unless two verifications of it
\* ran at once.
OneLoginOneAccount ==
    \/ \E r, s \in Verifying : Met(r, s)
    \/ /\ \A u \in Users : db.user[u] # Nil => Cardinality(Leads(u)) <= 1
       /\ \A l \in Logins : db.identity[l] # Nil => ByLogin(l) \subseteq {db.identity[l]}

\* An account signs in with the password of the sign-up whose mail was
\* answered, until a reset sets another: an older mail is dead.  The exception
\* is a second sign-up of the address that was under way, or was dropped
\* between its two statements.
MailBringsItsPassword ==
    \A r \in Requests :
        Answered(r, "verify") =>
            \/ db.user[r].pw = req[r].arg
            \/ \E s \in Requests : req[s].do = "confirmReset" /\ db.user[r].pw = s
            \/ \E s \in Requests :
                  /\ req[s].do = "signup"
                  /\ Met(s, r) \/ Met(s, req[r].arg) \/ At(s, "killed")
=============================================================================
