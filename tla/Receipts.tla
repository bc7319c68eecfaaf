------------------------------ MODULE Receipts ------------------------------
(***************************************************************************)
(* What the core Worker believes of others: Apple's identity tokens        *)
(* (routes/apple-auth.ts), the stores' receipts and notes                  *)
(* (billing/stores.ts), Stripe's events (verifyStripe) and its own pending *)
(* signups (auth/pending-signup.ts).  Apple and Google change their keys,  *)
(* the Worker keeps the keys it has fetched and the Play store's access    *)
(* token for a while, and a purchase may be revoked meanwhile.  A signed   *)
(* message is what it says and by whom it is signed.                       *)
(***************************************************************************)
EXTENDS CoreWorker, Sequences

CONSTANTS
    MaxNow,     \* the last hour of a behaviour
    MaxAge      \* for how many hours fetched keys, and the Play store's token, are kept at most

ASSUME ReceiptsAssumption == MaxNow \in Nat /\ MaxAge \in Nat \ {0} /\ Nil \notin {"believed", "refused"}

KeyHolders == {"apple", "google"}
Hours == 0..MaxNow

ReceiptTables ==
    [now      |-> 0,
     withdrawn |-> Nil,      \* the hour in which a provider withdrew its old key
     shown    |-> Nil,       \* and in which it published its new one
     cache    |-> [p \in KeyHolders |-> [keys |-> {}, until |-> 0]],     \* jwksCache
     play     |-> [until |-> 0, ends |-> 0],                            \* playToken, and its end at Google
     purchase |-> [side |-> "Production", revoked |-> Nil],             \* at the store
     verdict  |-> [r \in Requests |-> Nil]]                             \* a history

Says(r) == req[r].arg
Start(r) == Says(r).now      \* ctx.now
Provider(r) == IF req[r].do = "identity" THEN "apple" ELSE "google"

Say(r, word, tables) ==
    Do(r, IF word = "believed" THEN "ok" ELSE "refused", Nil, [tables EXCEPT !.verdict[r] = word])
Judge(r, holds) == Say(r, IF holds THEN "believed" ELSE "refused", db)

-----------------------------------------------------------------------------
(***************************************************************************)
(* Tokens signed with a published key: verifyIdentity, verifyGoogleOidc.   *)
(***************************************************************************)

Published == (IF db.withdrawn = Nil THEN {"old"} ELSE {}) \cup (IF db.shown = Nil THEN {} ELSE {"new"})

\* The hours are coarser than Apple's skew of a minute.
IdentityHolds(r) == Says(r).expires >= Start(r)
OidcHolds(r) == Says(r).expires > Start(r) /\ Says(r).noted
Holds(r, keys) ==
    /\ Says(r).kid \in keys /\ Says(r).signed /\ Says(r).ours
    /\ IF Provider(r) = "apple" THEN IdentityHolds(r) ELSE OidcHolds(r)

\* loadJwks keeps what it has for its time; googleJwk asks again for a key it
\* has not.
Forever(r) == db.cache[Provider(r)].keys # {}
Kept(r) == db.cache[Provider(r)].until > Start(r)
LoadKeys(r) ==
    /\ At(r, "identity") \/ At(r, "googleNote")
    /\ LET keys == db.cache[Provider(r)].keys IN
       IF Kept(r) /\ (Says(r).kid \in keys \/ Provider(r) = "apple")
       THEN Judge(r, Holds(r, keys)) ELSE GoOn(r, "fetchKeys", Nil)

FetchKeys(r) ==
    /\ At(r, "fetchKeys")
    /\ \/ Say(r, "failed", db)
       \/ GoOn(r, "storeKeys", Published)

\* Kept from the time the request came; how long, Google says with its answer.
KeptFromAnswer(r) == db.now
KeptFrom(r) == Start(r)
StoreKeys(r) ==
    /\ At(r, "storeKeys")
    /\ \E age \in IF Provider(r) = "apple" THEN {MaxAge} ELSE 0..MaxAge :
           Say(r, IF Holds(r, req[r].v) THEN "believed" ELSE "refused",
               [db EXCEPT !.cache[Provider(r)] = [keys |-> req[r].v, until |-> KeptFrom(r) + age]])

-----------------------------------------------------------------------------
(***************************************************************************)
(* The stores.                                                             *)
(***************************************************************************)

\* A chain of certificates, each issued by the next and the last by Apple's root.
Issuer == [leaf |-> "middle", leaf2 |-> "middle", middle |-> "root", foreign |-> "foreign"]
AppleVerified(m) ==
    /\ m.chain # <<>> /\ m.signer = Head(m.chain)
    /\ \A i \in 1..(Len(m.chain) - 1) : Issuer[m.chain[i]] = m.chain[i + 1]
    /\ Issuer[m.chain[Len(m.chain)]] = "root"

VerifyApple(r) ==
    /\ At(r, "appleReceipt")
    /\ IF AppleVerified(Says(r)) /\ Says(r).ours /\ ~Says(r).revoked
       THEN GoOn(r, "confirm", Nil) ELSE Judge(r, FALSE)

\* confirmApple asks the side the receipt names.
AnyRevoked == TRUE
NotRevoked == db.purchase.revoked = Nil
ConfirmApple(r) ==
    /\ At(r, "confirm")
    /\ \/ Say(r, "failed", db)
       \/ Says(r).side = db.purchase.side /\ Judge(r, NotRevoked)

\* googleAccessToken.
VerifyGoogle(r) ==
    /\ At(r, "playReceipt")
    /\ IF db.play.until > Start(r) THEN GoOn(r, "playPurchase", db.play.ends) ELSE GoOn(r, "accessToken", Nil)

AccessToken(r) ==
    /\ At(r, "accessToken")
    /\ \/ Say(r, "failed", db)
       \/ GoOn(r, "storeToken", db.now + MaxAge)

StoreToken(r) ==
    /\ At(r, "storeToken")
    /\ Do(r, "playPurchase", req[r].v, [db EXCEPT !.play = [until |-> KeptFrom(r) + MaxAge, ends |-> req[r].v]])

PlayPurchase(r) ==
    /\ At(r, "playPurchase")
    /\ \/ Say(r, "failed", db)
       \/ req[r].v > db.now /\ Judge(r, NotRevoked)

\* The transaction in a note is read with the leaf of the note.
AppleNote(r) ==
    /\ At(r, "appleNote")
    /\ Judge(r, AppleVerified(Says(r)) /\ Says(r).inner \in {Nil, Says(r).signer})

-----------------------------------------------------------------------------
(***************************************************************************)
(* Shared secrets: Stripe's events, and the tokens of pending signups.     *)
(***************************************************************************)

Distance(i, j) == IF i < j THEN j - i ELSE i - j
StripeEvent(r) ==
    /\ At(r, "stripeEvent")
    /\ Judge(r, Distance(Says(r).stamp, Start(r)) <= MaxAge /\ "old" \in Says(r).signedWith)

PendingToken(h, key) == [expires |-> h + MaxAge, key |-> key]
ReadPending(r) ==
    /\ At(r, "pending")
    /\ Judge(r, Says(r).token.key = "old" /\ Says(r).token.expires > Start(r))

-----------------------------------------------------------------------------
\* What comes is sound, or one thing about it is wrong, and then nothing else
\* comes; a token of the new key comes once there is one.
Flaws == "flaws" \in mix
Token(kid) == [now |-> db.now, kid |-> kid, signed |-> TRUE, ours |-> TRUE, expires |-> db.now + 1, noted |-> TRUE]
Tokened(kid) ==
    LET t == Token(kid) IN
    {t} \cup IF ~Flaws THEN {} ELSE {[t EXCEPT !.signed = FALSE], [t EXCEPT !.ours = FALSE], [t EXCEPT !.expires = @ - 1], [t EXCEPT !.expires = @ - 2]}

Chains == {<<"leaf", "middle">>, <<"leaf">>, <<"foreign">>, <<"leaf", "foreign">>}
Receipt == [now |-> db.now, chain |-> <<"leaf", "middle">>, signer |-> "leaf", ours |-> TRUE, revoked |-> FALSE,
            side |-> "Production"]
ReceiptsSent ==
    {[Receipt EXCEPT !.chain = c] : c \in Chains}
    \cup {[Receipt EXCEPT !.signer = "leaf2"], [Receipt EXCEPT !.ours = FALSE], [Receipt EXCEPT !.side = "Sandbox"]}
    \cup {[Receipt EXCEPT !.revoked = TRUE] : x \in {db.purchase.revoked} \ {Nil}}

ArriveReceipt(r) ==
    /\ Flaws => \A s \in Requests : At(s, "new")
    /\ \/ \E kid \in {"old"} \cup Published : \E t \in Tokened(kid) :
              \/ Begin(r, "identity", t)
              \/ Begin(r, "googleNote", t)
              \/ Flaws /\ Begin(r, "googleNote", [t EXCEPT !.noted = FALSE])
       \/ \E m \in IF Flaws THEN ReceiptsSent ELSE {Receipt} :
              \/ Begin(r, "appleReceipt", m)
              \/ \E inner \in {Nil, "leaf", "leaf2"} :
                     Begin(r, "appleNote", [now |-> db.now, chain |-> m.chain, signer |-> m.signer, inner |-> inner])
       \/ Begin(r, "playReceipt", [now |-> db.now])
       \/ \E h \in Hours, keys \in {{"old"}, {"new"}, {"old", "new"}} :
              Begin(r, "stripeEvent", [now |-> db.now, stamp |-> h, signedWith |-> keys])
       \/ \E h \in 0..db.now, key \in {"old", "new"} : Begin(r, "pending", [now |-> db.now, token |-> PendingToken(h, key)])

ReceiptStep(r) ==
    \/ ArriveReceipt(r) \/ LoadKeys(r) \/ FetchKeys(r) \/ StoreKeys(r) \/ VerifyApple(r) \/ ConfirmApple(r)
    \/ VerifyGoogle(r) \/ AccessToken(r) \/ StoreToken(r) \/ PlayPurchase(r) \/ AppleNote(r) \/ StripeEvent(r)
    \/ ReadPending(r)

\* Time passes; a provider publishes a new key and withdraws the old one; the
\* store revokes the purchase.
Elsewhere ==
    /\ \/ db.now < MaxNow /\ db' = [db EXCEPT !.now = @ + 1]
       \/ /\ mix \cap {"identity", "googleNote"} # {} /\ db.shown = Nil
          /\ db' = [db EXCEPT !.shown = db.now]
       \/ /\ db.shown # Nil /\ db.withdrawn = Nil
          /\ db' = [db EXCEPT !.withdrawn = db.now]
       \/ /\ mix \cap {"appleReceipt", "playReceipt"} # {} /\ db.purchase.revoked = Nil
          /\ db' = [db EXCEPT !.purchase.revoked = db.now]
    /\ UNCHANGED <<req, prior, mix>>

-----------------------------------------------------------------------------
(***************************************************************************)
(* Properties.                                                             *)
(***************************************************************************)

Tokens(r) == req[r].do \in {"identity", "googleNote"}

\* Nothing is believed that was not said: a token's key was published, and not
\* withdrawn for longer than keys are kept when the request came; it had not
\* expired; a purchase was not revoked before the request; and an event and a
\* pending signup are as old as they may be at most.
BelievedIsSaid ==
    \A r \in Requests : db.verdict[r] = "believed" =>
        /\ Tokens(r) =>
              /\ Says(r).signed /\ Says(r).ours /\ Says(r).expires >= Start(r)
              /\ Says(r).kid = "old" /\ db.withdrawn # Nil => db.withdrawn + MaxAge > Start(r)
        /\ req[r].do \in {"appleReceipt", "playReceipt"} /\ db.purchase.revoked # Nil =>
              db.purchase.revoked >= Start(r)
        /\ req[r].do \in {"appleReceipt", "appleNote"} => Says(r).signer = "leaf" /\ Says(r).chain = <<"leaf", "middle">>
        /\ req[r].do = "stripeEvent" => Says(r).stamp + MaxAge >= Start(r)
        /\ req[r].do = "pending" => Says(r).token.expires \in (Start(r) + 1)..(Start(r) + MaxAge)

\* And what was said is believed: nothing is refused but for the provider's
\* failure, that is signed with a key published while the request lasts, in
\* time, for this program.  The exceptions: a key of Apple's younger than the keys
\* that are kept, a note of Apple's in which a transaction is signed with
\* another leaf, and an event of Stripe's signed with the new secret alone.  And an
\* access token is kept no longer than it lives.
SaidIsBelieved ==
    /\ \A r \in Requests : db.verdict[r] = "refused" =>
        /\ Tokens(r) /\ Says(r).signed /\ Says(r).ours /\ Says(r).expires > Start(r) /\ Says(r).noted =>
              \/ Says(r).kid = "old" /\ db.withdrawn # Nil
              \/ Says(r).kid = "new" /\ Provider(r) = "apple" /\ db.shown + MaxAge > Start(r)
        /\ req[r].do \in {"appleReceipt", "playReceipt"} =>
              \/ db.purchase.revoked # Nil
              \/ req[r].do = "appleReceipt" /\ ~(Says(r).ours /\ Says(r).signer = "leaf" /\ Says(r).chain = <<"leaf", "middle">>)
        /\ req[r].do = "appleNote" /\ Says(r).signer = "leaf" /\ Says(r).chain = <<"leaf", "middle">> =>
              Says(r).inner = "leaf2"
        /\ req[r].do = "stripeEvent" /\ Distance(Says(r).stamp, Start(r)) <= MaxAge => Says(r).signedWith = {"new"}
    /\ db.play.until <= db.play.ends
=============================================================================
