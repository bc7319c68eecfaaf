------------------------------- MODULE Plans --------------------------------
(***************************************************************************)
(* Plans and who pays for them: routes/billing.ts.  A company's plan is    *)
(* bought by a checkout at Stripe, a person's from a store; Stripe and the *)
(* stores tell of what happens there by webhooks that may be repeated,     *)
(* late and out of order.  A session at Stripe, and the subscription and   *)
(* the customer it brings, are named by the request that made it.  What a  *)
(* ledger row does to the balance is the module Credits.                   *)
(***************************************************************************)
EXTENDS Companies

CONSTANTS
    Purchases,      \* original transactions of the stores
    Kind            \* of each: "PLAN" or "TOPUP"

Owners == Users \cup Companies

PlanTables ==
    [session  |-> AsTable([state |-> "none", kind |-> Nil, owner |-> Nil, customer |-> Nil]),
     sub      |-> AsTable("none"),                     \* at Stripe
     event    |-> {},                                  \* stripe_events
     customer |-> [o \in Owners |-> Nil],              \* stripe_customer_id
     paid     |-> AsTable([plan |-> "FREE", status |-> "NONE"]),    \* of users
     iap      |-> [t \in Purchases |-> [user |-> Nil, state |-> "none"]],
     ledger   |-> {}]                                  \* PURCHASE rows: owner, reference

-----------------------------------------------------------------------------
(***************************************************************************)
(* checkout and topup; what the payer and Stripe do.                       *)
(***************************************************************************)

\* The company's customer, if it has one, is sent along.
NoCustomer(o) == Nil
KnownCustomer(o) == db.customer[o]

Checkout(r) ==
    /\ At(r, "checkout") \/ At(r, "topup")
    /\ IF AdminOf(By(r), req[r].arg.company)
       THEN GoOn(r, "stripeSession", KnownCustomer(req[r].arg.company)) ELSE Refuse(r)

StripeSession(r) ==
    /\ At(r, "stripeSession")
    /\ \/ Refuse(r)
       \/ End(r, [db EXCEPT !.session[r] =
              [state |-> "open", kind |-> IF req[r].do = "topup" THEN "TOPUP" ELSE "PLAN",
               owner |-> req[r].arg.company,
               customer |-> IF req[r].v = Nil THEN r ELSE req[r].v]])

Outside(tables) == db' = tables /\ UNCHANGED <<req, prior, mix>>

Pay(s) ==
    /\ db.session[s].state = "open"
    /\ Outside([db EXCEPT !.session[s].state = "paid",
                          !.sub[s] = IF db.session[s].kind = "PLAN" THEN "active" ELSE "none"])

EndSubscription(s) ==
    /\ db.sub[s] = "active" /\ \E h \in {"webhook", "deleteAccount"} : h \in mix
    /\ Outside([db EXCEPT !.sub[s] = "ended"])

-----------------------------------------------------------------------------
(***************************************************************************)
(* webhook: checkoutCompleted and subscriptionChanged.                     *)
(***************************************************************************)

Session(r) == db.session[req[r].arg.of]

\* INSERT INTO stripe_events ... ON CONFLICT DO NOTHING.
Webhook(r) ==
    /\ At(r, "webhook")
    /\ LET e == req[r].arg IN
       IF e \in db.event THEN End(r, db)
       ELSE Do(r, IF e.type # "checkout" THEN "companySub"
                  ELSE IF Session(r).kind = "TOPUP" THEN "credit"
                  ELSE IF Session(r).owner \in Companies THEN "planRow" ELSE "personalRow",
               Nil, [db EXCEPT !.event = @ \cup {e}])

PlanRow(r) ==
    /\ At(r, "planRow")
    /\ LET o == Session(r).owner IN
       \/ GoOn(r, "forget", Nil)
       \/ ~db.company[o].exists /\ GoOn(r, "credit", Nil)
       \/ /\ db.company[o].exists
          /\ Do(r, "credit", Nil, [db EXCEPT !.company[o].plan = "PRO",
                                             !.customer[o] = Session(r).customer])

\* userLedger, companyLedger: ON CONFLICT DO NOTHING.
Credit(r) ==
    /\ At(r, "credit")
    /\ \/ GoOn(r, "forget", Nil)
       \/ End(r, [db EXCEPT !.ledger = @ \cup {[owner |-> Session(r).owner, of |-> req[r].arg.of]}])

PersonalRow(r) ==
    /\ At(r, "personalRow")
    /\ LET u == Session(r).owner IN
       \/ GoOn(r, "forget", Nil)
       \/ End(r, [db EXCEPT !.paid[u] = [plan |-> "PRO", status |-> "ACTIVE"],
                            !.customer[u] = Session(r).customer,
                            !.ledger = @ \cup {[owner |-> u, of |-> req[r].arg.of]}])

Payers(r) == {o \in Owners : db.customer[o] = Session(r).customer}

\* The plan an event of a subscription leaves: none when it ended, and else
\* what its price says, or the plan there is.
PlanKept(type, plan) == plan
PlanAfter(type, plan) == IF type = "ended" THEN Nil ELSE "PRO"

CompanySub(r) ==
    /\ At(r, "companySub")
    /\ LET cs == Payers(r) \cap Companies  type == req[r].arg.type IN
       \/ GoOn(r, "forget", Nil)
       \/ cs = {} /\ GoOn(r, "userSub", Nil)
       \/ /\ cs # {}
          /\ End(r, [db EXCEPT !.company = [c \in Companies |->
                IF c \in cs THEN [@[c] EXCEPT !.plan = PlanAfter(type, @)] ELSE @[c]]])

\* Nobody has the customer: 500, and Stripe will come again.
UserSub(r) ==
    /\ At(r, "userSub")
    /\ LET us == Payers(r) \cap Users  type == req[r].arg.type IN
       \/ GoOn(r, "forget", Nil)
       \/ /\ us # {}
          /\ End(r, [db EXCEPT !.paid = [u \in Users |->
                IF u \notin us THEN @[u]
                ELSE IF type = "ended" THEN [plan |-> "FREE", status |-> "CANCELED"]
                ELSE [plan |-> "PRO", status |-> "ACTIVE"]]])

KeptEvent(e) == db.event
WithoutEvent(e) == db.event \ {e}
Forget(r) ==
    /\ At(r, "forget")
    /\ Do(r, "refused", Nil, [db EXCEPT !.event = WithoutEvent(req[r].arg)])

-----------------------------------------------------------------------------
(***************************************************************************)
(* verifyIap, and grantNote of the two stores' webhooks.                   *)
(***************************************************************************)

Tx(r) == req[r].arg.tx

\* A person with a live subscription at Stripe buys no other; the receipt is
\* the store's, or not.
VerifyIap(r) ==
    /\ At(r, "verifyIap")
    /\ \/ Refuse(r)
       \/ /\ ~(Kind[Tx(r)] = "PLAN" /\ db.paid[By(r)].status = "ACTIVE"
               /\ db.customer[By(r)] # Nil)
          /\ GoOn(r, "claimPurchase", By(r))

\* CLAIM_PURCHASE: a transaction is the first account's that brings it.
Anybodys(t, u) == TRUE
FirstOwners(t, u) == db.iap[t].user \in {Nil, u}
ClaimPurchase(r) ==
    /\ At(r, "claimPurchase")
    /\ LET t == Tx(r)  u == By(r) IN
       IF ~FirstOwners(t, u) THEN Refuse(r)
       ELSE Do(r, IF Kind[t] = "TOPUP" THEN "iapCredit" ELSE "iapPlan", u,
               [db EXCEPT !.iap[t] =
                   [user |-> u, state |-> IF Kind[t] = "TOPUP" THEN "CONSUMED" ELSE "ACTIVE"]])

NotGranted(u) == db.paid[u]
Granted(u) == [plan |-> "PRO", status |-> "ACTIVE"]
IapPlan(r) ==
    /\ At(r, "iapPlan")
    /\ Do(r, "iapCredit", req[r].v, [db EXCEPT !.paid[req[r].v] = Granted(req[r].v)])

IapCredit(r) ==
    /\ At(r, "iapCredit")
    /\ End(r, [db EXCEPT !.ledger = @ \cup {[owner |-> req[r].v, of |-> Tx(r)]}])

\* The transaction's account is read first; nobody's is answered 200.
Note(r) ==
    /\ At(r, "note")
    /\ LET u == db.iap[Tx(r)].user IN
       IF req[r].arg.type = "drop" THEN GoOn(r, "noteCancel", u)
       ELSE IF u = Nil THEN End(r, db)
       ELSE GoOn(r, IF Kind[Tx(r)] = "TOPUP" THEN "iapCredit" ELSE "noteActive", u)

NoteActive(r) ==
    /\ At(r, "noteActive")
    /\ Do(r, "iapPlan", req[r].v, [db EXCEPT !.iap[Tx(r)].state = "ACTIVE"])

NoteCancel(r) ==
    /\ At(r, "noteCancel")
    /\ Do(r, IF req[r].v = Nil THEN "ok" ELSE "noteFree", req[r].v,
          IF db.iap[Tx(r)].user = Nil THEN db ELSE [db EXCEPT !.iap[Tx(r)].state = "CANCELED"])

\* Whatever was refunded or expired, and whatever else the user pays for.
NoteFree(r) ==
    /\ At(r, "noteFree")
    /\ End(r, [db EXCEPT !.paid[req[r].v] = [plan |-> "FREE", status |-> "CANCELED"]])

-----------------------------------------------------------------------------
\* Stripe sends an event until it is answered 200; the stores' notes say what
\* becomes of a transaction.
ArrivePlan(r) ==
    \/ \E u \in Accounts, h \in {"checkout", "topup"} :
           /\ SignedIn(u) /\ db.member[u] # Nil
           /\ Begin(r, h, [by |-> u, company |-> db.member[u].company])
    \/ \E s \in Users, type \in {"checkout", "updated", "ended"} :
           /\ type = "checkout" => db.session[s].state = "paid"
           /\ type = "updated" => db.sub[s] # "none"
           /\ type = "ended" => db.sub[s] = "ended"
           /\ \A q \in Requests : Answered(q, "webhook") => req[q].arg # [type |-> type, of |-> s]
           /\ Begin(r, "webhook", [type |-> type, of |-> s])
    \/ \E u \in Accounts, t \in Purchases :
           SignedIn(u) /\ db.user[u].kind = "PERSONAL" /\ Begin(r, "verifyIap", [by |-> u, tx |-> t])
    \/ \E t \in Purchases, type \in {"grant", "drop"} :
           Begin(r, "note", [type |-> type, tx |-> t])

PlanStep(r) ==
    \/ ArrivePlan(r) \/ Checkout(r) \/ StripeSession(r) \/ Webhook(r) \/ PlanRow(r)
    \/ Credit(r) \/ PersonalRow(r) \/ CompanySub(r) \/ UserSub(r) \/ Forget(r)
    \/ VerifyIap(r) \/ ClaimPurchase(r) \/ IapPlan(r) \/ IapCredit(r) \/ Note(r)
    \/ NoteActive(r) \/ NoteCancel(r) \/ NoteFree(r)

Payment == \E s \in Users : Pay(s) \/ EndSubscription(s)

-----------------------------------------------------------------------------
(***************************************************************************)
(* Properties.                                                             *)
(***************************************************************************)

Told(type, s) == {r \in Doing("webhook") : req[r].arg = [type |-> type, of |-> s]}
Delivered(s) ==
    \A type \in {"checkout", "updated", "ended"} : \A r, q \in Told(type, s) :
        At(r, "ok") \/ (At(r, "refused") /\ ~Met(r, q))
Before(s, first, then) == \A r \in Told(first, s), q \in Told(then, s) : r \in prior[q]
InOrder(s) == /\ Before(s, "checkout", "updated") /\ Before(s, "checkout", "ended")
              /\ Before(s, "updated", "ended")

\* Checkout q began when s's had been answered, its deliveries one at a time.
Follows(q, s) ==
    /\ \E r \in Told("checkout", s) : At(r, "ok") /\ q \in Requests /\ r \in prior[q]
    /\ \A r, d \in Told("checkout", s) : ~At(r, "killed") /\ ~Met(r, d)

\* A subscription is found by its customer, and so ended with the account, once
\* its checkout is answered: a second checkout uses the customer of the first.
\* The exceptions: deliveries of the first at once, of which one is answered
\* before the customer is there, or a dropped one; and sessions of the owner
\* that do not follow each other, which bring two customers.
CustomerIsKnown ==
    \A s \in Users, q \in Requests :
        LET o == db.session[s].owner
            others == {x \in Users \ {s, q} : db.sub[x] # "none" /\ db.session[x].owner = o} IN
        (/\ db.sub[s] # "none" /\ db.sub[q] # "none" /\ db.session[q].owner = o
         /\ Follows(q, s)
         /\ \A x \in others : Follows(x, s) \/ Follows(s, x)) =>
            db.session[q].customer = db.session[s].customer

\* When Stripe's events of a subscription are answered, its company has a plan
\* exactly as long as it pays.  The exceptions: a delivery that was dropped, or
\* that failed while another one was told that the event had been seen; events
\* out of order or at once; and another subscription of the company, which
\* shares its one plan.  And its customer is known, so that it can be found.
PlanIsPaidFor ==
    /\ CustomerIsKnown
    /\ \A s \in Users :
           LET o == db.session[s].owner
               only == \A q \in Users \ {s} : db.sub[q] # "none" => db.session[q].owner # o IN
           (db.session[s].kind = "PLAN" /\ o \in Companies /\ only /\ Delivered(s) /\ InOrder(s)) =>
               /\ (db.sub[s] = "active" /\ \E r \in Told("checkout", s) : At(r, "ok"))
                      => db.company[o].plan # Nil
               /\ (db.sub[s] = "ended" /\ \E r \in Told("ended", s) : At(r, "ok"))
                      => db.company[o].plan = Nil

\* A store purchase is credited to one account, and its account has a plan
\* while it is active.  The exceptions: two requests about it at once, one of
\* them dropped, and another purchase of the account that is refunded.
PurchaseIsOnes ==
    \A t \in Purchases :
        /\ Cardinality({l.owner : l \in {k \in db.ledger : k.of = t}}) <= 1
        /\ (Kind[t] = "PLAN" /\ db.iap[t].state = "ACTIVE") =>
              \/ db.paid[db.iap[t].user].plan # "FREE"
              \/ \E r \in Doing("note") \cup Doing("verifyIap") :
                    \/ Tx(r) = t /\ (Open(r) \/ At(r, "killed"))
                    \/ Tx(r) = t /\ (MetAny(r, "note") \/ MetAny(r, "verifyIap"))
                    \/ Tx(r) # t /\ req[r].do = "note" /\ req[r].arg.type = "drop"
              \/ \E r \in Doing("webhook") : req[r].arg.type = "ended"

\* Stripe's plans and the stores' purchases agree with what was paid.
PaidIsKept == PlanIsPaidFor /\ PurchaseIsOnes
=============================================================================
