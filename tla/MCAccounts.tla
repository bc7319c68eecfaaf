----------------------------- MODULE MCAccounts -----------------------------
(***************************************************************************)
(* Small instances of the account routes for TLC.  ann is an employer with *)
(* the e-mail address and a password, ADMIN of the firm acme; ben is       *)
(* another employer, a MEMBER of acme or invited to it; cho is a person    *)
(* with the phone p1.                                                      *)
(***************************************************************************)
EXTENDS SignUp, Plans, Google, Receipts, TLC

CONSTANTS ann, ben, cho, acme, n1, n2, p1, p2, l1, l2, t1, t2, r1, r2, r3

Symmetry == Permutations(Requests)

\* The handlers that run against each other in one behaviour.
SessionMixes ==
    {{"refresh", "logout", "confirmReset"}, {"login", "requestReset", "confirmReset", "killed"},
     {"oauthStart", "oauthCallback", "exchange"}, {"oauthStart", "appleCallback"}}
SignUpMixes ==
    {{"signup", "verify", "exchange", "killed"}, {"sendPhone", "verifyPhone"},
     {"verifyPhone"}, {"verifyPhone", "appleNative"}}
FirmMixes ==
    {{"invite", "acceptInvite", "removeMember"}, {"removeMember", "transferAdmin"},
     {"deleteAccount", "acceptInvite", "login", "killed"}, {"deleteAccount", "transferAdmin"},
     {"verifyBusiness", "acceptInvite", "killed"}}
PlanMixes ==
    {{"checkout", "webhook", "killed"}, {"topup", "webhook"}, {"webhook"},
     {"verifyIap", "note", "killed"}}
GoogleMixes ==
    {{"googleConnect", "googleCallback", "oauthCallback", "googleComplete"},
     {"googleSync", "googleComplete"}, {"googleSync", "googleDisconnect"}}
ReceiptMixes ==
    {{"identity"}, {"googleNote"}, {"appleReceipt"}, {"playReceipt"},
     {"identity", "googleNote", "appleReceipt", "appleNote", "stripeEvent", "pending", "flaws"}}
AllMixes == SessionMixes \cup SignUpMixes \cup FirmMixes \cup PlanMixes \cup GoogleMixes \cup ReceiptMixes
\* Where only two requests meet, for the sake of the size.
PairMixes == ReceiptMixes \ {{"appleReceipt"}}

StoreKind == t1 :> "PLAN" @@ t2 :> "TOPUP"

\* Nobody has signed up but cho, with a social login in its users row or without;
\* codes are on their way, and a pendingToken for the other login.
Fresh(login) ==
    [user |-> [AsTable(Nil) EXCEPT ![cho] = UserRow("PERSONAL", login, p1, FALSE, Nil)]]
    @@ [SessionTables EXCEPT
            !.token[cho] = [state |-> "live", user |-> cho],
            !.pending = IF mix = {"verifyPhone"} THEN {l1} ELSE {},
            !.code[ann] = [state |-> "open", kind |-> "EMPLOYER", login |-> l1],
            !.code[cho] = [state |-> "open", kind |-> "PERSONAL", login |-> l1]]
    @@ [SignUpTables EXCEPT !.sms[ann] = [state |-> "open", phone |-> p1, tries |-> 0],
                            !.sms[ben] = [state |-> IF login = Nil THEN "open" ELSE "consumed",
                                        phone |-> IF login = Nil THEN p2 ELSE p1, tries |-> 0]]
    @@ CompanyTables @@ PlanTables @@ GoogleTables @@ ReceiptTables

\* ann and ben have signed up, and acme is ann's.
Alone ==
    [Fresh(Nil) EXCEPT
        !.user[ann] = UserRow("EMPLOYER", Nil, Nil, TRUE, ann),
        !.user[ben] = UserRow("EMPLOYER", Nil, Nil, FALSE, Nil),
        !.token[ann] = [state |-> "live", user |-> ann],
        !.token[ben] = [state |-> "live", user |-> ben],
        !.link[ann] = [state |-> "open", kind |-> "RESET", owner |-> ann],
        !.company[acme] = [exists |-> TRUE, number |-> n1, plan |-> "PRO", marked |-> FALSE],
        !.member[ann] = Member(acme, "ADMIN"),
        !.invite[ben] = [state |-> "open", company |-> acme, to |-> ben, token |-> ben],
        !.mailed = {ben}]

Pair  == [Alone EXCEPT !.member[ben] = Member(acme, "MEMBER"), !.invite[ben] = NoInvite, !.mailed = {}]
Shell == [Alone EXCEPT !.company[acme] = [@ EXCEPT !.number = Nil, !.plan = Nil],
                       !.invite[ben] = NoInvite, !.mailed = {}]

\* acme has nobody else and no plan; ann paid for one, and cho for one of its own.
Paid(w) ==
    LET paid(o) == [state |-> "paid", kind |-> "PLAN", owner |-> o, customer |-> o] IN
    [w EXCEPT !.session = [w.session EXCEPT ![ann] = [paid(acme) EXCEPT !.customer = ann], ![cho] = paid(cho)],
              !.sub = [w.sub EXCEPT ![ann] = "active", ![cho] = "active"]]
Solo == [Alone EXCEPT !.company[acme].plan = Nil, !.user[ben].kind = "PERSONAL", !.invite[ben] = NoInvite, !.mailed = {}]

\* cho has a connection that was never synchronised, and the code of another.
Connected ==
    [Fresh(Nil) EXCEPT !.google[cho] = [grant |-> cho, token |-> Nil],
                       !.icode[cho] = [state |-> "open", user |-> cho],
                       !.change = [n \in {1} |-> "there"]]

Worlds == IF mix \in GoogleMixes THEN {IF "googleSync" \in mix THEN Connected ELSE Fresh(Nil)}
          ELSE IF mix \in PlanMixes THEN {IF mix = {"webhook"} THEN Paid(Solo) ELSE Solo}
          ELSE IF mix = {"verifyPhone"} THEN {Fresh(l2)}
          ELSE IF mix \in SignUpMixes THEN {Fresh(Nil)}
          ELSE IF mix \in SessionMixes THEN {Alone}
          ELSE IF "verifyBusiness" \in mix THEN {Shell, Alone}
          ELSE IF "acceptInvite" \in mix THEN {Alone} ELSE {Alone, Pair}

Init == RequestsInit /\ db \in Worlds

\* A component's handlers are tried in the behaviours that have them.
Step ==
    \/ \E r \in Requests :
          \/ mix \notin PlanMixes \cup ReceiptMixes /\ SessionStep(r)
          \/ mix \in SessionMixes \cup SignUpMixes /\ SignUpStep(r)
          \/ mix \in SessionMixes \cup FirmMixes /\ CompanyStep(r)
          \/ mix \in PlanMixes /\ PlanStep(r)
          \/ mix \in GoogleMixes /\ GoogleStep(r)
          \/ mix \in ReceiptMixes /\ ReceiptStep(r)
          \/ Killed(r)
    \/ Payment \/ AtGoogle
    \/ mix \in ReceiptMixes /\ Elsewhere

Next == Step /\ (mix \in PairMixes => Cardinality({r \in Requests : req'[r].at # "new"}) < 3)

Spec == Init /\ [][Next]_vars
=============================================================================
