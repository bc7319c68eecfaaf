--------------------------- MODULE AccountProofs ---------------------------
(***************************************************************************)
(* Theorems about accounts, their credentials and what the core Worker     *)
(* believes, for any number of requests and users and any length of time.  *)
(* Each component runs by a specification of its own here: all its         *)
(* handlers in any mix, any request dropped at any moment.                 *)
(***************************************************************************)
EXTENDS SignUp, Google, Receipts, CoreWorkerProofs, FiniteSetTheorems

-----------------------------------------------------------------------------
(***************************************************************************)
(* Receipts: what is believed was said, and what was said is believed.     *)
(***************************************************************************)

ReceiptInit == RequestsInit /\ db = ReceiptTables

ReceiptMove(r) == ReceiptStep(r) \/ Killed(r)
ReceiptSpec == ReceiptInit /\ [][(\E r \in Requests : ReceiptMove(r)) \/ Elsewhere]_vars

ReceiptHandlers == {"identity", "googleNote", "appleReceipt", "appleNote", "playReceipt", "stripeEvent", "pending"}
Keys == {"old", "new"}

LEMMA ReceiptMoves ==
    ASSUME NEW r \in Requests, ReceiptMove(r)
    PROVE  Moves(r)
<1>1. CASE ArriveReceipt(r)
  <2>1. \A h, arg : h \in ReceiptHandlers /\ Begin(r, h, arg) => Moves(r)
    BY BeginMoves DEF ReceiptHandlers, Ends
  <2> QED
    BY <1>1, <2>1 DEF ArriveReceipt, ReceiptHandlers
<1>2. CASE Killed(r)
  BY <1>2, DoMoves DEF Killed
<1>3. CASE LoadKeys(r) \/ FetchKeys(r) \/ StoreKeys(r)
  BY <1>3, DoMoves DEF LoadKeys, FetchKeys, StoreKeys, Judge, Say, GoOn, Open, Ended, At, Ends
<1>4. CASE VerifyApple(r) \/ ConfirmApple(r) \/ AppleNote(r) \/ StripeEvent(r) \/ ReadPending(r)
  BY <1>4, DoMoves DEF VerifyApple, ConfirmApple, AppleNote, StripeEvent, ReadPending, Judge, Say, GoOn,
     Open, Ended, At, Ends
<1>5. CASE VerifyGoogle(r) \/ AccessToken(r) \/ StoreToken(r) \/ PlayPurchase(r)
  BY <1>5, DoMoves DEF VerifyGoogle, AccessToken, StoreToken, PlayPurchase, Judge, Say, GoOn,
     Open, Ended, At, Ends
<1> QED
  BY <1>1, <1>2, <1>3, <1>4, <1>5 DEF ReceiptMove, ReceiptStep

-----------------------------------------------------------------------------
Hour == Nat \cup {Nil}

ReceiptShape ==
    /\ {"now", "withdrawn", "shown", "cache", "play", "purchase", "verdict"} \subseteq DOMAIN db
    /\ db.now \in Nat /\ db.withdrawn \in Hour /\ db.shown \in Hour
    /\ DOMAIN db.cache = KeyHolders
    /\ \A p \in KeyHolders : db.cache[p] \in [keys : SUBSET Keys, until : Int]
    /\ db.play \in [until : Int, ends : Int]
    /\ DOMAIN db.purchase = {"side", "revoked"} /\ db.purchase.revoked \in Hour
    /\ DOMAIN db.verdict = Requests

\* The statements of the handlers.
StatementOf(r) ==
    /\ At(r, "new") => req[r].do = "none"
    /\ req[r].at \in {"identity", "googleNote", "fetchKeys", "storeKeys"} => Tokens(r)
    /\ req[r].at \in {"appleReceipt", "confirm"} => req[r].do = "appleReceipt"
    /\ req[r].at \in {"playReceipt", "accessToken", "storeToken", "playPurchase"} => req[r].do = "playReceipt"
    /\ req[r].at = "appleNote" => req[r].do = "appleNote"
    /\ req[r].at = "stripeEvent" => req[r].do = "stripeEvent"
    /\ req[r].at = "pending" => req[r].do = "pending"
ReceiptStatements == \A r \in Requests : StatementOf(r)

\* What a request says: a token of the new key came after the key, and a
\* receipt is marked as revoked after the purchase was.
Sent(r) ==
    /\ ~At(r, "new") => Start(r) \in Nat /\ Start(r) <= db.now
    /\ Tokens(r) =>
          /\ Says(r).kid \in Keys /\ Says(r).expires \in Int
          /\ Says(r).kid = "new" => db.shown # Nil
    /\ req[r].do \in {"appleReceipt", "appleNote"} =>
          Says(r).chain \in Chains /\ Says(r).signer \in {"leaf", "leaf2"}
    /\ req[r].do = "appleReceipt" => (Says(r).revoked => db.purchase.revoked # Nil)
    /\ req[r].do = "appleNote" => Says(r).inner \in {Nil, "leaf", "leaf2"}
    /\ req[r].do = "stripeEvent" => Says(r).stamp \in Nat /\ Says(r).signedWith \in {{"old"}, {"new"}, {"old", "new"}}
    /\ req[r].do = "pending" => Says(r).token.expires \in Int /\ Says(r).token.expires <= Start(r) + MaxAge
AllSent == \A r \in Requests : Sent(r)

\* Keys fetched since the hour "since" and until now.
FetchedSince(keys, since) ==
    /\ since <= db.now
    /\ "old" \in keys /\ db.withdrawn # Nil => since <= db.withdrawn
    /\ "old" \notin keys => db.withdrawn # Nil
    /\ "new" \notin keys /\ db.shown # Nil => since <= db.shown

\* What a request has read and goes on with.
Has(r) ==
    /\ At(r, "storeKeys") =>
          /\ req[r].v \in SUBSET Keys
          /\ FetchedSince(req[r].v, Start(r))
          /\ Says(r).kid = "new" => "new" \in req[r].v
    /\ At(r, "confirm") => Says(r).ours /\ AppleVerified(Says(r))
    /\ At(r, "storeToken") => req[r].v \in Int /\ req[r].v >= Start(r) + MaxAge
AllHave == \A r \in Requests : Has(r)

\* The keys that are kept were fetched for at most their time.
CacheIsFetched ==
    \A p \in KeyHolders : db.cache[p].until > 0 => FetchedSince(db.cache[p].keys, db.cache[p].until - MaxAge)

PlayTokenLives == db.play.until <= db.play.ends

VerdictEnds == \A r \in Requests : db.verdict[r] \in {"believed", "refused"} => Ended(r)

BelievedWell(r) ==
    /\ Tokens(r) =>
          /\ Says(r).signed /\ Says(r).ours /\ Says(r).expires >= Start(r)
          /\ Says(r).kid = "old" /\ db.withdrawn # Nil => db.withdrawn + MaxAge > Start(r)
    /\ req[r].do \in {"appleReceipt", "playReceipt"} /\ db.purchase.revoked # Nil =>
          db.purchase.revoked >= Start(r)
    /\ req[r].do \in {"appleReceipt", "appleNote"} => Says(r).signer = "leaf" /\ Says(r).chain = <<"leaf", "middle">>
    /\ req[r].do = "stripeEvent" => Says(r).stamp + MaxAge >= Start(r)
    /\ req[r].do = "pending" => Says(r).token.expires \in (Start(r) + 1)..(Start(r) + MaxAge)

RefusedWell(r) ==
    /\ Tokens(r) /\ Says(r).signed /\ Says(r).ours /\ Says(r).expires > Start(r) /\ Says(r).noted =>
          \/ Says(r).kid = "old" /\ db.withdrawn # Nil
          \/ Says(r).kid = "new" /\ Provider(r) = "apple" /\ db.shown + MaxAge > Start(r)
    /\ req[r].do \in {"appleReceipt", "playReceipt"} =>
          \/ db.purchase.revoked # Nil
          \/ req[r].do = "appleReceipt" /\ ~(Says(r).ours /\ Says(r).signer = "leaf" /\ Says(r).chain = <<"leaf", "middle">>)
    /\ req[r].do = "appleNote" /\ Says(r).signer = "leaf" /\ Says(r).chain = <<"leaf", "middle">> =>
          Says(r).inner = "leaf2"
    /\ req[r].do = "stripeEvent" /\ Distance(Says(r).stamp, Start(r)) <= MaxAge => Says(r).signedWith = {"new"}

JudgedWell ==
    \A r \in Requests :
        /\ db.verdict[r] = "believed" => BelievedWell(r)
        /\ db.verdict[r] = "refused" => RefusedWell(r)

ReceiptInv ==
    /\ HistoryOK /\ ReceiptShape /\ ReceiptStatements
    /\ AllSent /\ AllHave /\ CacheIsFetched /\ PlayTokenLives /\ VerdictEnds /\ JudgedWell

LEMMA ReceiptInvInit == ReceiptInit => ReceiptInv
<1> SUFFICES ASSUME ReceiptInit PROVE ReceiptInv
  OBVIOUS
<1>1. \A r \in Requests : req[r] = [do |-> "none", at |-> "new", arg |-> Nil, v |-> Nil]
  BY DEF ReceiptInit, RequestsInit
<1>2. HistoryOK
  BY HistoryInit DEF ReceiptInit
<1>3. ReceiptShape /\ CacheIsFetched /\ PlayTokenLives
  BY DEF ReceiptInit, ReceiptTables, ReceiptShape, CacheIsFetched, PlayTokenLives, Hour, Keys
<1>4. ReceiptStatements /\ AllSent /\ AllHave
  BY <1>1 DEF ReceiptStatements, StatementOf, AllSent, Sent, AllHave, Has, At, Tokens
<1>5. VerdictEnds /\ JudgedWell
  BY ReceiptsAssumption DEF ReceiptInit, ReceiptTables, VerdictEnds, JudgedWell
<1> QED
  BY <1>2, <1>3, <1>4, <1>5 DEF ReceiptInv

LEMMA ReceiptInvHolds == ReceiptInv => BelievedIsSaid /\ SaidIsBelieved
<1>1. ReceiptInv => BelievedIsSaid
  BY DEF ReceiptInv, JudgedWell, BelievedWell, BelievedIsSaid
<1>2. ReceiptInv => SaidIsBelieved
  BY DEF ReceiptInv, JudgedWell, RefusedWell, PlayTokenLives, SaidIsBelieved
<1> QED
  BY <1>1, <1>2

\* Of the chains that come, one leads to Apple's root, and it is of one leaf.
LEMMA VerifiedChain ==
    ASSUME NEW m, m.chain \in Chains, m.signer \in {"leaf", "leaf2"}
    PROVE  AppleVerified(m) <=> m.chain = <<"leaf", "middle">> /\ m.signer = "leaf"
<1>1. CASE m.chain = <<"leaf", "middle">>
  BY <1>1 DEF AppleVerified, Issuer
<1>2. CASE m.chain = <<"leaf">>
  BY <1>2 DEF AppleVerified, Issuer
<1>3. CASE m.chain = <<"foreign">>
  BY <1>3 DEF AppleVerified, Issuer
<1>4. CASE m.chain = <<"leaf", "foreign">>
  BY <1>4 DEF AppleVerified, Issuer
<1> QED
  BY <1>1, <1>2, <1>3, <1>4 DEF Chains
-----------------------------------------------------------------------------
\* What a step of r leaves alone, and what it comes to.
Beside(r) ==
    /\ db'.now = db.now /\ db'.withdrawn = db.withdrawn /\ db'.shown = db.shown /\ db'.purchase = db.purchase
    /\ \A s \in Requests \ {r} : db'.verdict[s] = db.verdict[s]

Progress(r) ==
    /\ Beside(r) /\ ReceiptShape' /\ CacheIsFetched' /\ PlayTokenLives'
    /\ StatementOf(r)' /\ Sent(r)' /\ Has(r)'
    /\ db'.verdict[r] \in {"believed", "refused"} => Ended(r)'
    /\ db'.verdict[r] = "believed" => BelievedWell(r)'
    /\ db'.verdict[r] = "refused" => RefusedWell(r)'

\* What is true of a request depends on nothing that a step beside it changes.
LEMMA SameRequest ==
    ASSUME NEW s \in Requests, req'[s].do = req[s].do, req'[s].arg = req[s].arg,
           db'.now = db.now, db'.withdrawn = db.withdrawn, db'.shown = db.shown, db'.purchase = db.purchase
    PROVE  /\ BelievedWell(s) => BelievedWell(s)'
           /\ RefusedWell(s) => RefusedWell(s)'
           /\ ~At(s, "new") /\ Sent(s) => Sent(s)'
           /\ req'[s] = req[s] /\ Sent(s) => Sent(s)'
           /\ req'[s] = req[s] /\ Has(s) => Has(s)'
           /\ req'[s] = req[s] /\ StatementOf(s) => StatementOf(s)'
<1>1. Start(s)' = Start(s) /\ Says(s)' = Says(s) /\ Tokens(s)' = Tokens(s) /\ Provider(s)' = Provider(s)
  BY DEF Start, Says, Tokens, Provider
<1>2. BelievedWell(s) => BelievedWell(s)'
  BY <1>1 DEF BelievedWell
<1>3. RefusedWell(s) => RefusedWell(s)'
  BY <1>1 DEF RefusedWell
<1>4. ~At(s, "new") /\ Sent(s) => Sent(s)'
  BY <1>1 DEF Sent
<1>5. ASSUME req'[s] = req[s]
      PROVE  /\ Sent(s) => Sent(s)'
             /\ Has(s) => Has(s)'
             /\ StatementOf(s) => StatementOf(s)'
  BY <1>1, <1>5 DEF Sent, Has, StatementOf, At, FetchedSince
<1> QED
  BY <1>2, <1>3, <1>4, <1>5

LEMMA ProgressStep ==
    ASSUME ReceiptInv, NEW r \in Requests, Moves(r), Progress(r)
    PROVE  ReceiptInv'
<1>1. HistoryOK /\ HistoryOK'
  BY HistoryStep DEF ReceiptInv
<1>2. \A s \in Requests \ {r} : req'[s] = req[s]
  BY <1>1, OthersStay
<1>3. \A s \in Requests \ {r} : Sent(s)' /\ Has(s)' /\ StatementOf(s)'
  <2> SUFFICES ASSUME NEW s \in Requests \ {r} PROVE Sent(s)' /\ Has(s)' /\ StatementOf(s)'
    OBVIOUS
  <2> QED
    BY <1>2, SameRequest DEF Progress, Beside, ReceiptInv, AllSent, AllHave, ReceiptStatements
<1>4. ReceiptStatements' /\ AllSent' /\ AllHave'
  BY <1>3 DEF Progress, ReceiptStatements, AllSent, AllHave
<1>5. VerdictEnds'
  BY <1>2 DEF Progress, Beside, ReceiptInv, VerdictEnds, Ended, At
<1>6. \A s \in Requests \ {r} :
          /\ db'.verdict[s] = "believed" => BelievedWell(s)'
          /\ db'.verdict[s] = "refused" => RefusedWell(s)'
  <2> SUFFICES ASSUME NEW s \in Requests \ {r}
      PROVE  /\ db'.verdict[s] = "believed" => BelievedWell(s)'
             /\ db'.verdict[s] = "refused" => RefusedWell(s)'
    OBVIOUS
  <2> QED
    BY <1>2, SameRequest DEF Progress, Beside, ReceiptInv, JudgedWell
<1>7. JudgedWell'
  BY <1>6 DEF Progress, JudgedWell
<1> QED
  BY <1>1, <1>4, <1>5, <1>7 DEF Progress, ReceiptInv

\* A step that goes on, or is dropped, and tells nothing.
LEMMA Continues ==
    ASSUME ReceiptInv, NEW r \in Requests, Open(r), NEW statement, NEW v, statement # "new",
           Do(r, statement, v, db), StatementOf(r)', Has(r)'
    PROVE  Progress(r)
<1>1. /\ req'[r].do = req[r].do /\ req'[r].arg = req[r].arg /\ db' = db
  BY DoEffect DEF ReceiptInv
<1>2. db.verdict[r] \notin {"believed", "refused"}
  BY DEF ReceiptInv, VerdictEnds, Open
<1>3. Beside(r) /\ ReceiptShape' /\ CacheIsFetched' /\ PlayTokenLives'
  BY <1>1 DEF ReceiptInv, Beside, ReceiptShape, CacheIsFetched, PlayTokenLives, FetchedSince
<1>4. Sent(r)'
  BY <1>1, SameRequest DEF Open, ReceiptInv, AllSent
<1> QED
  BY <1>1, <1>2, <1>3, <1>4 DEF Progress

\* A step that judges, and at most keeps keys.
LEMMA Settles ==
    ASSUME ReceiptInv, NEW r \in Requests, Open(r), NEW word \in {"believed", "refused", "failed"},
           NEW tables, Say(r, word, tables),
           tables.now = db.now, tables.withdrawn = db.withdrawn, tables.shown = db.shown,
           tables.purchase = db.purchase, tables.play = db.play, tables.verdict = db.verdict,
           DOMAIN tables = DOMAIN db, DOMAIN tables.cache = KeyHolders,
           \A p \in KeyHolders :
              /\ tables.cache[p] \in [keys : SUBSET Keys, until : Int]
              /\ tables.cache[p].until > 0 =>
                    FetchedSince(tables.cache[p].keys, tables.cache[p].until - MaxAge),
           word = "believed" => BelievedWell(r),
           word = "refused" => RefusedWell(r)
    PROVE  Progress(r)
<1> DEFINE statement == IF word = "believed" THEN "ok" ELSE "refused"
           after == [tables EXCEPT !.verdict[r] = word]
<1>1. Do(r, statement, Nil, after)
  BY DEF Say
<1>2. statement \in Ends
  BY DEF Ends
<1> HIDE DEF statement
<1>3. /\ req'[r].do = req[r].do /\ req'[r].arg = req[r].arg /\ req'[r].at = statement /\ db' = after
  BY <1>1, DoEffect DEF ReceiptInv
<1>4. ReceiptShape
  BY DEF ReceiptInv
<1>5. /\ DOMAIN after = DOMAIN db /\ after.now = db.now /\ after.withdrawn = db.withdrawn
      /\ after.shown = db.shown /\ after.purchase = db.purchase /\ after.play = db.play /\ after.cache = tables.cache
      /\ after.verdict = [db.verdict EXCEPT ![r] = word]
  BY <1>4 DEF ReceiptShape
<1> HIDE DEF after
<1>6. /\ DOMAIN db'.verdict = Requests /\ db'.verdict[r] = word
      /\ \A s \in Requests \ {r} : db'.verdict[s] = db.verdict[s]
  BY <1>3, <1>4, <1>5 DEF ReceiptShape
<1>7. Beside(r) /\ ReceiptShape' /\ PlayTokenLives'
  BY <1>3, <1>4, <1>5, <1>6 DEF ReceiptInv, Beside, ReceiptShape, PlayTokenLives
<1>8. CacheIsFetched'
  BY <1>3, <1>5 DEF CacheIsFetched, FetchedSince
<1>9. Sent(r)' /\ (word = "believed" => BelievedWell(r)') /\ (word = "refused" => RefusedWell(r)')
  BY <1>3, <1>5, SameRequest DEF Open, ReceiptInv, AllSent
<1>10. Ended(r)' /\ StatementOf(r)' /\ Has(r)'
  BY <1>2, <1>3 DEF Ended, At, StatementOf, Has, Ends
<1> QED
  BY <1>6, <1>7, <1>8, <1>9, <1>10 DEF Progress

-----------------------------------------------------------------------------
\* What comes.
LEMMA Comes ==
    ASSUME ReceiptInv, NEW r \in Requests, NEW h \in ReceiptHandlers, NEW arg, Begin(r, h, arg), Sent(r)'
    PROVE  Progress(r)
<1>1. At(r, "new") /\ db' = db /\ req'[r].do = h /\ req'[r].at = h
  BY BeginEffect, BeginRequest DEF ReceiptInv
<1>2. db.verdict[r] \notin {"believed", "refused"}
  BY <1>1 DEF ReceiptInv, VerdictEnds, Ended, Ends, At
<1>3. Beside(r) /\ ReceiptShape' /\ CacheIsFetched' /\ PlayTokenLives'
  BY <1>1 DEF ReceiptInv, Beside, ReceiptShape, CacheIsFetched, PlayTokenLives, FetchedSince
<1>4. StatementOf(r)' /\ Has(r)'
  BY <1>1 DEF StatementOf, Has, At, ReceiptHandlers, Tokens
<1> QED
  BY <1>1, <1>2, <1>3, <1>4 DEF Progress

LEMMA TokenComes ==
    ASSUME ReceiptInv, NEW r \in Requests, NEW h \in {"identity", "googleNote"}, NEW arg, Begin(r, h, arg),
           arg.now = db.now, arg.kid \in {"old"} \cup Published, arg.expires \in Int
    PROVE  Progress(r)
<1>1. req'[r].do = h /\ req'[r].at = h /\ req'[r].arg = arg /\ db' = db
  BY BeginEffect, BeginRequest DEF ReceiptInv
<1>2. arg.kid \in Keys /\ (arg.kid = "new" => db.shown # Nil) /\ db.now \in Nat
  BY DEF Published, Keys, ReceiptInv, ReceiptShape
<1>3. Sent(r)'
  BY <1>1, <1>2 DEF Sent, Start, Says, Tokens, At
<1> QED
  BY <1>3, Comes DEF ReceiptHandlers

LEMMA ReceiptComes ==
    ASSUME ReceiptInv, NEW r \in Requests, NEW arg, Begin(r, "appleReceipt", arg),
           arg.now = db.now, arg.chain \in Chains, arg.signer \in {"leaf", "leaf2"},
           arg.revoked => db.purchase.revoked # Nil
    PROVE  Progress(r)
<1>1. req'[r].do = "appleReceipt" /\ req'[r].at = "appleReceipt" /\ req'[r].arg = arg /\ db' = db
  BY BeginEffect, BeginRequest DEF ReceiptInv
<1>2. db.now \in Nat
  BY DEF ReceiptInv, ReceiptShape
<1>3. Sent(r)'
  BY <1>1, <1>2 DEF Sent, Start, Says, Tokens, At
<1> QED
  BY <1>3, Comes DEF ReceiptHandlers

LEMMA NoteComes ==
    ASSUME ReceiptInv, NEW r \in Requests, NEW arg, Begin(r, "appleNote", arg),
           arg.now = db.now, arg.chain \in Chains, arg.signer \in {"leaf", "leaf2"}, arg.inner \in {Nil, "leaf", "leaf2"}
    PROVE  Progress(r)
<1>1. req'[r].do = "appleNote" /\ req'[r].at = "appleNote" /\ req'[r].arg = arg /\ db' = db
  BY BeginEffect, BeginRequest DEF ReceiptInv
<1>2. db.now \in Nat
  BY DEF ReceiptInv, ReceiptShape
<1>3. Sent(r)'
  BY <1>1, <1>2 DEF Sent, Start, Says, Tokens, At
<1> QED
  BY <1>3, Comes DEF ReceiptHandlers

\* What comes to a store has the fields of a receipt.
LEMMA SentReceipt ==
    ASSUME ReceiptInv, NEW m \in ReceiptsSent \cup {Receipt}
    PROVE  /\ m.now = db.now /\ m.chain \in Chains /\ m.signer \in {"leaf", "leaf2"}
           /\ m.revoked => db.purchase.revoked # Nil
<1>1. Receipt = [now |-> db.now, chain |-> <<"leaf", "middle">>, signer |-> "leaf", ours |-> TRUE,
                 revoked |-> FALSE, side |-> "Production"]
  BY DEF Receipt
<1>2. <<"leaf", "middle">> \in Chains
  BY DEF Chains
<1>3. CASE m = Receipt
  BY <1>1, <1>2, <1>3
<1>4. CASE \E c \in Chains : m = [Receipt EXCEPT !.chain = c]
  BY <1>1, <1>4
<1>5. CASE m = [Receipt EXCEPT !.signer = "leaf2"] \/ m = [Receipt EXCEPT !.ours = FALSE]
           \/ m = [Receipt EXCEPT !.side = "Sandbox"]
  BY <1>1, <1>2, <1>5
<1>6. CASE m = [Receipt EXCEPT !.revoked = TRUE] /\ db.purchase.revoked # Nil
  BY <1>1, <1>2, <1>6
<1> QED
  BY <1>3, <1>4, <1>5, <1>6 DEF ReceiptsSent

LEMMA SentToken ==
    ASSUME ReceiptInv, NEW kid, NEW t \in Tokened(kid)
    PROVE  /\ t.now = db.now /\ t.kid = kid /\ t.expires \in Int
           /\ LET u == [t EXCEPT !.noted = FALSE] IN u.now = db.now /\ u.kid = kid /\ u.expires \in Int
<1>1. Token(kid) = [now |-> db.now, kid |-> kid, signed |-> TRUE, ours |-> TRUE, expires |-> db.now + 1, noted |-> TRUE]
      /\ db.now \in Nat
  BY DEF Token, ReceiptInv, ReceiptShape
<1>2. CASE t = Token(kid)
  BY <1>1, <1>2
<1>3. CASE t = [Token(kid) EXCEPT !.signed = FALSE] \/ t = [Token(kid) EXCEPT !.ours = FALSE]
  BY <1>1, <1>3
<1>4. CASE t = [Token(kid) EXCEPT !.expires = @ - 1] \/ t = [Token(kid) EXCEPT !.expires = @ - 2]
  BY <1>1, <1>4
<1> QED
  BY <1>2, <1>3, <1>4 DEF Tokened

LEMMA ArrivalProgress ==
    ASSUME ReceiptInv, NEW r \in Requests, ArriveReceipt(r)
    PROVE  Progress(r)
<1>0. db.now \in Nat /\ MaxAge \in Nat \ {0}
  BY ReceiptsAssumption DEF ReceiptInv, ReceiptShape
<1>1. ASSUME NEW kid \in {"old"} \cup Published, NEW t \in Tokened(kid),
             \/ Begin(r, "identity", t) \/ Begin(r, "googleNote", t)
             \/ Begin(r, "googleNote", [t EXCEPT !.noted = FALSE])
      PROVE  Progress(r)
  <2> DEFINE u == [t EXCEPT !.noted = FALSE]
  <2>1. /\ t.now = db.now /\ t.kid = kid /\ t.expires \in Int
        /\ u.now = db.now /\ u.kid = kid /\ u.expires \in Int
    BY SentToken
  <2> HIDE DEF u
  <2> QED
    BY <1>1, <2>1, TokenComes DEF u
<1>2. ASSUME NEW m \in ReceiptsSent \cup {Receipt}, Begin(r, "appleReceipt", m)
      PROVE  Progress(r)
  BY <1>2, SentReceipt, ReceiptComes
<1>3. ASSUME NEW m \in ReceiptsSent \cup {Receipt}, NEW inner \in {Nil, "leaf", "leaf2"},
             Begin(r, "appleNote", [now |-> db.now, chain |-> m.chain, signer |-> m.signer, inner |-> inner])
      PROVE  Progress(r)
  BY <1>3, SentReceipt, NoteComes
<1>4. ASSUME Begin(r, "playReceipt", [now |-> db.now])
      PROVE  Progress(r)
  <2>1. req'[r].do = "playReceipt" /\ req'[r].arg = [now |-> db.now] /\ db' = db
    BY <1>4, BeginEffect, BeginRequest DEF ReceiptInv
  <2>2. Sent(r)'
    BY <1>0, <2>1 DEF Sent, Start, Says, Tokens
  <2> QED
    BY <1>4, <2>2, Comes DEF ReceiptHandlers
<1>5. ASSUME NEW h \in Hours, NEW keys \in {{"old"}, {"new"}, {"old", "new"}},
             Begin(r, "stripeEvent", [now |-> db.now, stamp |-> h, signedWith |-> keys])
      PROVE  Progress(r)
  <2>1. req'[r].do = "stripeEvent" /\ req'[r].arg = [now |-> db.now, stamp |-> h, signedWith |-> keys] /\ db' = db
    BY <1>5, BeginEffect, BeginRequest DEF ReceiptInv
  <2>2. Sent(r)'
    BY <1>0, <2>1 DEF Sent, Start, Says, Tokens, Hours
  <2> QED
    BY <1>5, <2>2, Comes DEF ReceiptHandlers
<1>6. ASSUME NEW h \in 0..db.now, NEW key \in {"old", "new"},
             Begin(r, "pending", [now |-> db.now, token |-> PendingToken(h, key)])
      PROVE  Progress(r)
  <2>1. req'[r].do = "pending" /\ req'[r].arg = [now |-> db.now, token |-> PendingToken(h, key)] /\ db' = db
    BY <1>6, BeginEffect, BeginRequest DEF ReceiptInv
  <2>2. req'[r].arg.now = db.now /\ req'[r].arg.token.expires = h + MaxAge
    BY <2>1 DEF PendingToken
  <2>3. Sent(r)'
    BY <1>0, <2>1, <2>2 DEF Sent, Start, Says, Tokens
  <2> QED
    BY <1>6, <2>3, Comes DEF ReceiptHandlers
<1> QED
  BY <1>1, <1>2, <1>3, <1>4, <1>5, <1>6 DEF ArriveReceipt

-----------------------------------------------------------------------------
\* A judgement that changes nothing else.
LEMMA Judges ==
    ASSUME ReceiptInv, NEW r \in Requests, Open(r), NEW word \in {"believed", "refused", "failed"},
           Say(r, word, db),
           word = "believed" => BelievedWell(r),
           word = "refused" => RefusedWell(r)
    PROVE  Progress(r)
<1>1. /\ DOMAIN db.cache = KeyHolders
      /\ \A p \in KeyHolders :
            /\ db.cache[p] \in [keys : SUBSET Keys, until : Int]
            /\ db.cache[p].until > 0 => FetchedSince(db.cache[p].keys, db.cache[p].until - MaxAge)
  BY DEF ReceiptInv, ReceiptShape, CacheIsFetched
<1> QED
  BY <1>1, Settles

LEMMA JudgesBy ==
    ASSUME ReceiptInv, NEW r \in Requests, Open(r), NEW holds, Judge(r, holds),
           holds => BelievedWell(r), ~holds => RefusedWell(r)
    PROVE  Progress(r)
<1>1. CASE holds
  BY <1>1, Judges DEF Judge
<1>2. CASE ~holds
  BY <1>2, Judges DEF Judge
<1> QED
  BY <1>1, <1>2

\* A token judged by keys that were fetched at most MaxAge before it came.
LEMMA TokenJudged ==
    ASSUME ReceiptInv, NEW r \in Requests, ~At(r, "new"), Tokens(r), NEW keys \in SUBSET Keys, NEW since \in Int,
           FetchedSince(keys, since), since + MaxAge > Start(r),
           Provider(r) = "apple" \/ Says(r).kid \in keys \/ Says(r).kid = "old"
    PROVE  /\ Holds(r, keys) => BelievedWell(r)
           /\ ~Holds(r, keys) => RefusedWell(r)
<1>1. /\ Says(r).kid \in Keys /\ Says(r).expires \in Int /\ Start(r) \in Nat
      /\ Says(r).kid = "new" => db.shown # Nil
      /\ MaxAge \in Nat /\ db.withdrawn \in Hour /\ db.shown \in Hour
  BY ReceiptsAssumption DEF ReceiptInv, AllSent, Sent, ReceiptShape
<1>2. req[r].do \notin {"appleReceipt", "playReceipt", "appleNote", "stripeEvent", "pending"}
  BY DEF Tokens
<1>3. Holds(r, keys) => BelievedWell(r)
  BY <1>1, <1>2 DEF Holds, BelievedWell, IdentityHolds, OidcHolds, FetchedSince, Hour, Keys
<1>4. ASSUME ~Holds(r, keys), Says(r).signed, Says(r).ours, Says(r).expires > Start(r), Says(r).noted
      PROVE  \/ Says(r).kid = "old" /\ db.withdrawn # Nil
             \/ Says(r).kid = "new" /\ Provider(r) = "apple" /\ db.shown + MaxAge > Start(r)
  <2>1. Says(r).kid \notin keys
    BY <1>1, <1>4 DEF Holds, IdentityHolds, OidcHolds
  <2> QED
    BY <1>1, <2>1 DEF FetchedSince, Hour, Keys, Provider
<1>5. ~Holds(r, keys) => RefusedWell(r)
  BY <1>2, <1>4 DEF RefusedWell
<1> QED
  BY <1>3, <1>5

LEMMA LoadProgress ==
    ASSUME ReceiptInv, NEW r \in Requests, LoadKeys(r)
    PROVE  Progress(r)
<1> DEFINE p == Provider(r)
           keys == db.cache[p].keys
           since == db.cache[p].until - MaxAge
<1>1. Tokens(r) /\ Open(r) /\ ~At(r, "new")
  BY DEF LoadKeys, ReceiptInv, ReceiptStatements, StatementOf, Open, Ended, Ends, At
<1>2. /\ p \in KeyHolders /\ Start(r) \in Nat /\ MaxAge \in Nat
      /\ db.cache[p] \in [keys : SUBSET Keys, until : Int]
  BY <1>1, ReceiptsAssumption DEF Provider, KeyHolders, ReceiptInv, ReceiptShape, AllSent, Sent
<1>3. CASE Kept(r) /\ (Says(r).kid \in keys \/ p = "apple")
  <2>1. Judge(r, Holds(r, keys))
    BY <1>3 DEF LoadKeys
  <2>2. keys \in SUBSET Keys /\ since \in Int /\ since + MaxAge > Start(r) /\ FetchedSince(keys, since)
    BY <1>2, <1>3 DEF Kept, ReceiptInv, CacheIsFetched
  <2> HIDE DEF keys, since
  <2>3. (Holds(r, keys) => BelievedWell(r)) /\ (~Holds(r, keys) => RefusedWell(r))
    BY <1>1, <1>3, <2>2, TokenJudged
  <2> QED
    BY <1>1, <2>1, <2>3, JudgesBy
<1>4. CASE ~(Kept(r) /\ (Says(r).kid \in keys \/ p = "apple"))
  <2>1. Do(r, "fetchKeys", Nil, db)
    BY <1>4 DEF LoadKeys, GoOn
  <2>2. req'[r].at = "fetchKeys" /\ Tokens(r)'
    BY <1>1, <2>1, DoEffect DEF ReceiptInv, Tokens
  <2>3. StatementOf(r)' /\ Has(r)'
    BY <2>2 DEF StatementOf, Has, At
  <2> QED
    BY <1>1, <2>1, <2>3, Continues
<1> QED
  BY <1>3, <1>4

LEMMA FetchProgress ==
    ASSUME ReceiptInv, NEW r \in Requests, FetchKeys(r)
    PROVE  Progress(r)
<1>1. Tokens(r) /\ Open(r) /\ ~At(r, "new")
  BY DEF FetchKeys, ReceiptInv, ReceiptStatements, StatementOf, Open, Ended, Ends, At
<1>2. CASE Say(r, "failed", db)
  BY <1>1, <1>2, Judges
<1>3. CASE GoOn(r, "storeKeys", Published)
  <2>1. Do(r, "storeKeys", Published, db)
    BY <1>3 DEF GoOn
  <2>2. /\ req'[r].at = "storeKeys" /\ req'[r].v = Published /\ req'[r].do = req[r].do /\ req'[r].arg = req[r].arg
        /\ db' = db
    BY <2>1, DoEffect DEF ReceiptInv, Ends
  <2>3. /\ Start(r) \in Nat /\ Start(r) <= db.now /\ db.now \in Nat
        /\ Says(r).kid = "new" => db.shown # Nil
    BY <1>1 DEF ReceiptInv, ReceiptShape, AllSent, Sent
  <2>4. Published \in SUBSET Keys /\ FetchedSince(Published, Start(r))
    BY <2>3 DEF Published, Keys, FetchedSince
  <2>5. Has(r)'
    BY <2>2, <2>3, <2>4 DEF Has, At, Start, Says, FetchedSince, Published
  <2>6. StatementOf(r)'
    BY <1>1, <2>2 DEF StatementOf, At, Tokens
  <2> QED
    BY <1>1, <2>1, <2>5, <2>6, Continues
<1> QED
  BY <1>2, <1>3 DEF FetchKeys

LEMMA StoreProgress ==
    ASSUME ReceiptInv, NEW r \in Requests, StoreKeys(r)
    PROVE  Progress(r)
<1> DEFINE p == Provider(r)
           keys == req[r].v
           word == IF Holds(r, keys) THEN "believed" ELSE "refused"
<1>1. Tokens(r) /\ Open(r) /\ ~At(r, "new") /\ At(r, "storeKeys") /\ ReceiptShape /\ CacheIsFetched
  BY DEF StoreKeys, ReceiptInv, ReceiptStatements, StatementOf, Open, Ended, Ends, At
<1>2. /\ p \in KeyHolders /\ Start(r) \in Nat /\ MaxAge \in Nat \ {0}
      /\ keys \in SUBSET Keys /\ FetchedSince(keys, Start(r)) /\ Says(r).kid \in Keys
      /\ Says(r).kid = "new" => "new" \in keys
      /\ db.withdrawn \in Hour /\ db.shown \in Hour /\ db.now \in Nat
  BY <1>1, ReceiptsAssumption DEF Provider, KeyHolders, ReceiptInv, ReceiptShape, AllSent, Sent, AllHave, Has
<1>3. PICK age \in 0..MaxAge : Say(r, word, [db EXCEPT !.cache[p] = [keys |-> keys, until |-> Start(r) + age]])
  BY <1>2 DEF StoreKeys, KeptFrom
<1> DEFINE row == [keys |-> keys, until |-> Start(r) + age]
           tables == [db EXCEPT !.cache[p] = row]
<1>4. (Holds(r, keys) => BelievedWell(r)) /\ (~Holds(r, keys) => RefusedWell(r))
  <2>1. Says(r).kid \in keys \/ Says(r).kid = "old"
    BY <1>2 DEF Keys
  <2>2. Start(r) + MaxAge > Start(r) /\ Start(r) \in Int
    BY <1>2
  <2> HIDE DEF keys
  <2> QED
    BY <1>1, <1>2, <2>1, <2>2, TokenJudged
<1>5. row \in [keys : SUBSET Keys, until : Int] /\ row.keys = keys /\ row.until = Start(r) + age
  BY <1>2
<1>6. FetchedSince(keys, row.until - MaxAge)
  BY <1>2, <1>5 DEF FetchedSince, Hour
<1> HIDE DEF row, keys, p
<1>7. /\ DOMAIN tables = DOMAIN db /\ tables.now = db.now /\ tables.withdrawn = db.withdrawn
      /\ tables.shown = db.shown /\ tables.purchase = db.purchase /\ tables.play = db.play
      /\ tables.verdict = db.verdict /\ tables.cache = [db.cache EXCEPT ![p] = row]
  BY <1>1 DEF ReceiptShape
<1>8. Say(r, word, tables)
  BY <1>3 DEF row
<1> HIDE DEF tables
<1>9. /\ DOMAIN tables.cache = KeyHolders
      /\ \A q \in KeyHolders :
            /\ tables.cache[q] \in [keys : SUBSET Keys, until : Int]
            /\ tables.cache[q].until > 0 => FetchedSince(tables.cache[q].keys, tables.cache[q].until - MaxAge)
  BY <1>1, <1>2, <1>5, <1>6, <1>7 DEF ReceiptShape, CacheIsFetched
<1>10. /\ word \in {"believed", "refused", "failed"}
       /\ word = "believed" => BelievedWell(r)
       /\ word = "refused" => RefusedWell(r)
  BY <1>4
<1> HIDE DEF word
<1> QED
  BY <1>1, <1>7, <1>8, <1>9, <1>10, Settles

LEMMA AppleProgress ==
    ASSUME ReceiptInv, NEW r \in Requests, VerifyApple(r) \/ ConfirmApple(r) \/ AppleNote(r)
    PROVE  Progress(r)
<1>1. CASE VerifyApple(r)
  <2>1. /\ req[r].do = "appleReceipt" /\ Open(r) /\ Says(r).chain \in Chains /\ Says(r).signer \in {"leaf", "leaf2"}
        /\ Says(r).revoked => db.purchase.revoked # Nil
    BY <1>1 DEF VerifyApple, ReceiptInv, ReceiptStatements, StatementOf, AllSent, Sent, Open, Ended, Ends, At
  <2>2. CASE AppleVerified(Says(r)) /\ Says(r).ours /\ ~Says(r).revoked
    <3>1. Do(r, "confirm", Nil, db)
      BY <1>1, <2>2 DEF VerifyApple, GoOn
    <3>2. req'[r].at = "confirm" /\ req'[r].do = "appleReceipt" /\ req'[r].arg = req[r].arg
      BY <2>1, <3>1, DoEffect DEF ReceiptInv
    <3>3. AppleVerified(Says(r))' /\ Says(r)'.ours
      BY <2>2, <3>2 DEF AppleVerified, Says
    <3>4. StatementOf(r)' /\ Has(r)'
      BY <3>2, <3>3 DEF StatementOf, Has, At
    <3> QED
      BY <2>1, <3>1, <3>4, Continues
  <2>3. CASE ~(AppleVerified(Says(r)) /\ Says(r).ours /\ ~Says(r).revoked)
    <3>1. Say(r, "refused", db)
      BY <1>1, <2>3 DEF VerifyApple, Judge
    <3>2. RefusedWell(r)
      BY <2>1, <2>3, VerifiedChain DEF RefusedWell, Tokens
    <3> QED
      BY <2>1, <3>1, <3>2, Judges
  <2> QED
    BY <2>2, <2>3
<1>2. CASE ConfirmApple(r)
  <2>1. /\ req[r].do = "appleReceipt" /\ Open(r) /\ Says(r).chain \in Chains /\ Says(r).signer \in {"leaf", "leaf2"}
        /\ AppleVerified(Says(r))
    BY <1>2 DEF ConfirmApple, ReceiptInv, ReceiptStatements, StatementOf, AllSent, Sent, AllHave, Has,
       Open, Ended, Ends, At
  <2>2. db.purchase.revoked = Nil => BelievedWell(r)
    BY <2>1, VerifiedChain DEF BelievedWell, Tokens
  <2>3. db.purchase.revoked # Nil => RefusedWell(r)
    BY <2>1 DEF RefusedWell, Tokens
  <2>4. Say(r, "failed", db) \/ Judge(r, db.purchase.revoked = Nil)
    BY <1>2 DEF ConfirmApple, NotRevoked
  <2> QED
    BY <2>1, <2>2, <2>3, <2>4, Judges DEF Judge
<1>3. CASE AppleNote(r)
  <2>1. /\ req[r].do = "appleNote" /\ Open(r) /\ Says(r).chain \in Chains /\ Says(r).signer \in {"leaf", "leaf2"}
        /\ Says(r).inner \in {Nil, "leaf", "leaf2"}
    BY <1>3 DEF AppleNote, ReceiptInv, ReceiptStatements, StatementOf, AllSent, Sent, Open, Ended, Ends, At
  <2> DEFINE holds == AppleVerified(Says(r)) /\ Says(r).inner \in {Nil, Says(r).signer}
  <2>2. holds => BelievedWell(r)
    BY <2>1, VerifiedChain DEF BelievedWell, Tokens
  <2>3. ~holds => RefusedWell(r)
    BY <2>1, VerifiedChain DEF RefusedWell, Tokens
  <2>4. Judge(r, holds)
    BY <1>3 DEF AppleNote
  <2> HIDE DEF holds
  <2> QED
    BY <2>1, <2>2, <2>3, <2>4, Judges DEF Judge
<1> QED
  BY <1>1, <1>2, <1>3

LEMMA SecretProgress ==
    ASSUME ReceiptInv, NEW r \in Requests, StripeEvent(r) \/ ReadPending(r)
    PROVE  Progress(r)
<1>0. MaxAge \in Nat
  BY ReceiptsAssumption
<1>1. CASE StripeEvent(r)
  <2>1. /\ req[r].do = "stripeEvent" /\ Open(r) /\ Start(r) \in Nat /\ Says(r).stamp \in Nat
        /\ Says(r).signedWith \in {{"old"}, {"new"}, {"old", "new"}}
    BY <1>1 DEF StripeEvent, ReceiptInv, ReceiptStatements, StatementOf, AllSent, Sent, Open, Ended, Ends, At
  <2> DEFINE holds == Distance(Says(r).stamp, Start(r)) <= MaxAge /\ "old" \in Says(r).signedWith
  <2>2. holds => BelievedWell(r)
    BY <1>0, <2>1 DEF BelievedWell, Tokens, Distance
  <2>3. ~holds => RefusedWell(r)
    BY <1>0, <2>1 DEF RefusedWell, Tokens
  <2>4. Judge(r, holds)
    BY <1>1 DEF StripeEvent
  <2> HIDE DEF holds
  <2> QED
    BY <2>1, <2>2, <2>3, <2>4, Judges DEF Judge
<1>2. CASE ReadPending(r)
  <2>1. /\ req[r].do = "pending" /\ Open(r) /\ Start(r) \in Nat
        /\ Says(r).token.expires \in Int /\ Says(r).token.expires <= Start(r) + MaxAge
    BY <1>2 DEF ReadPending, ReceiptInv, ReceiptStatements, StatementOf, AllSent, Sent, Open, Ended, Ends, At
  <2> DEFINE holds == Says(r).token.key = "old" /\ Says(r).token.expires > Start(r)
  <2>2. holds => BelievedWell(r)
    BY <1>0, <2>1 DEF BelievedWell, Tokens
  <2>3. ~holds => RefusedWell(r)
    BY <2>1 DEF RefusedWell, Tokens
  <2>4. Judge(r, holds)
    BY <1>2 DEF ReadPending
  <2> HIDE DEF holds
  <2> QED
    BY <2>1, <2>2, <2>3, <2>4, Judges DEF Judge
<1> QED
  BY <1>1, <1>2

LEMMA PlayProgress ==
    ASSUME ReceiptInv, NEW r \in Requests, VerifyGoogle(r) \/ AccessToken(r) \/ PlayPurchase(r)
    PROVE  Progress(r)
<1>1. req[r].do = "playReceipt" /\ Open(r) /\ Start(r) \in Nat /\ Start(r) <= db.now /\ db.now \in Nat /\ MaxAge \in Nat
  BY ReceiptsAssumption DEF VerifyGoogle, AccessToken, PlayPurchase, ReceiptInv, ReceiptShape, ReceiptStatements,
     StatementOf, AllSent, Sent, Open, Ended, Ends, At
<1>2. CASE VerifyGoogle(r)
  <2>1. PICK statement \in {"playPurchase", "accessToken"}, v \in {db.play.ends, Nil} : Do(r, statement, v, db)
    BY <1>2 DEF VerifyGoogle, GoOn
  <2>2. req'[r].at = statement /\ req'[r].do = "playReceipt"
    BY <1>1, <2>1, DoEffect DEF ReceiptInv
  <2>3. StatementOf(r)' /\ Has(r)'
    BY <2>2 DEF StatementOf, Has, At
  <2> QED
    BY <1>1, <2>1, <2>3, Continues
<1>3. CASE AccessToken(r) /\ ~Say(r, "failed", db)
  <2>1. Do(r, "storeToken", db.now + MaxAge, db)
    BY <1>3 DEF AccessToken, GoOn
  <2>2. /\ req'[r].at = "storeToken" /\ req'[r].do = "playReceipt" /\ req'[r].v = db.now + MaxAge
        /\ req'[r].arg = req[r].arg
    BY <1>1, <2>1, DoEffect DEF ReceiptInv, Ends
  <2>3. StatementOf(r)' /\ Has(r)'
    BY <1>1, <2>2 DEF StatementOf, Has, At, Start, Says
  <2> QED
    BY <1>1, <2>1, <2>3, Continues
<1>4. CASE Say(r, "failed", db)
  BY <1>1, <1>4, Judges
<1>5. CASE PlayPurchase(r) /\ ~Say(r, "failed", db)
  <2>1. db.purchase.revoked = Nil => BelievedWell(r)
    BY <1>1 DEF BelievedWell, Tokens
  <2>2. db.purchase.revoked # Nil => RefusedWell(r)
    BY <1>1 DEF RefusedWell, Tokens
  <2>3. Judge(r, db.purchase.revoked = Nil)
    BY <1>5 DEF PlayPurchase, NotRevoked
  <2> QED
    BY <1>1, <2>1, <2>2, <2>3, Judges DEF Judge
<1> QED
  BY <1>2, <1>3, <1>4, <1>5

LEMMA PlayTokenProgress ==
    ASSUME ReceiptInv, NEW r \in Requests, StoreToken(r)
    PROVE  Progress(r)
<1> DEFINE row == [until |-> Start(r) + MaxAge, ends |-> req[r].v]
           tables == [db EXCEPT !.play = row]
<1>1. /\ At(r, "storeToken") /\ Open(r) /\ req[r].do = "playReceipt" /\ ReceiptShape
      /\ Start(r) \in Nat /\ MaxAge \in Nat /\ req[r].v \in Int /\ req[r].v >= Start(r) + MaxAge
  BY ReceiptsAssumption DEF StoreToken, ReceiptInv, ReceiptStatements, StatementOf, AllSent, Sent, AllHave, Has,
     Open, Ended, Ends, At
<1>2. row \in [until : Int, ends : Int] /\ row.until <= row.ends
  BY <1>1
<1>3. Do(r, "playPurchase", req[r].v, tables)
  BY DEF StoreToken, KeptFrom
<1> HIDE DEF row
<1>4. /\ DOMAIN tables = DOMAIN db /\ tables.now = db.now /\ tables.withdrawn = db.withdrawn
      /\ tables.shown = db.shown /\ tables.purchase = db.purchase /\ tables.play = row
      /\ tables.verdict = db.verdict /\ tables.cache = db.cache
  BY <1>1 DEF ReceiptShape
<1> HIDE DEF tables
<1>5. /\ req'[r].do = "playReceipt" /\ req'[r].arg = req[r].arg /\ req'[r].at = "playPurchase" /\ db' = tables
  BY <1>1, <1>3, DoEffect DEF ReceiptInv
<1>6. db.verdict[r] \notin {"believed", "refused"}
  BY <1>1 DEF ReceiptInv, VerdictEnds, Open
<1>7. Beside(r) /\ ReceiptShape'
  BY <1>1, <1>2, <1>4, <1>5 DEF Beside, ReceiptShape
<1>8. CacheIsFetched' /\ PlayTokenLives'
  BY <1>2, <1>4, <1>5 DEF ReceiptInv, CacheIsFetched, FetchedSince, PlayTokenLives
<1>9. Sent(r)'
  BY <1>1, <1>4, <1>5, SameRequest DEF Open, ReceiptInv, AllSent
<1>10. StatementOf(r)' /\ Has(r)'
  BY <1>5 DEF StatementOf, Has, At
<1> QED
  BY <1>4, <1>5, <1>6, <1>7, <1>8, <1>9, <1>10 DEF Progress

LEMMA ReceiptInvStep ==
    ASSUME ReceiptInv, NEW r \in Requests, ReceiptMove(r)
    PROVE  ReceiptInv'
<1>1. Moves(r)
  BY ReceiptMoves
<1>2. CASE Killed(r)
  <2>1. Open(r) /\ Do(r, "killed", req[r].v, db)
    BY <1>2 DEF Killed
  <2>2. req'[r].at = "killed"
    BY <2>1, DoEffect DEF ReceiptInv
  <2>3. StatementOf(r)' /\ Has(r)'
    BY <2>2 DEF StatementOf, Has, At
  <2> QED
    BY <1>1, <2>1, <2>3, Continues, ProgressStep
<1>3. CASE ReceiptStep(r)
  <2>1. Progress(r)
    BY <1>3, ArrivalProgress, LoadProgress, FetchProgress, StoreProgress, AppleProgress, SecretProgress,
       PlayProgress, PlayTokenProgress DEF ReceiptStep
  <2> QED
    BY <1>1, <2>1, ProgressStep
<1> QED
  BY <1>2, <1>3 DEF ReceiptMove

\* Time passes, and what is withdrawn or revoked is so from now on: later than
\* every request that has come.
LEMMA ElsewhereStep ==
    ASSUME ReceiptInv, Elsewhere
    PROVE  ReceiptInv'
<1>1. /\ req' = req /\ prior' = prior /\ ReceiptShape /\ db.now \in Nat /\ MaxAge \in Nat \ {0}
  BY ReceiptsAssumption DEF Elsewhere, ReceiptInv, ReceiptShape
<1>2. /\ DOMAIN db' = DOMAIN db /\ db'.cache = db.cache /\ db'.play = db.play /\ db'.verdict = db.verdict
      /\ db'.now \in Nat /\ db'.now >= db.now /\ DOMAIN db'.purchase = DOMAIN db.purchase
      /\ db'.withdrawn \in {db.withdrawn, db.now} /\ (db.withdrawn # Nil => db'.withdrawn = db.withdrawn)
      /\ db'.shown \in {db.shown, db.now} /\ (db.shown # Nil => db'.shown = db.shown)
      /\ db'.purchase.revoked \in {db.purchase.revoked, db.now}
      /\ (db.purchase.revoked # Nil => db'.purchase.revoked = db.purchase.revoked)
  <2>1. CASE db' = [db EXCEPT !.now = @ + 1]
    BY <1>1, <2>1 DEF ReceiptShape
  <2>2. CASE db.shown = Nil /\ db' = [db EXCEPT !.shown = db.now]
    BY <1>1, <2>2 DEF ReceiptShape
  <2>3. CASE db.withdrawn = Nil /\ db' = [db EXCEPT !.withdrawn = db.now]
    BY <1>1, <2>3 DEF ReceiptShape
  <2>4. CASE db.purchase.revoked = Nil /\ db' = [db EXCEPT !.purchase.revoked = db.now]
    <3>1. /\ DOMAIN db' = DOMAIN db /\ db'.cache = db.cache /\ db'.play = db.play /\ db'.verdict = db.verdict
          /\ db'.now = db.now /\ db'.shown = db.shown /\ db'.withdrawn = db.withdrawn
          /\ db'.purchase = [db.purchase EXCEPT !.revoked = db.now]
      BY <1>1, <2>4 DEF ReceiptShape
    <3> QED
      BY <1>1, <2>4, <3>1 DEF ReceiptShape
  <2> QED
    BY <2>1, <2>2, <2>3, <2>4 DEF Elsewhere
<1>3. HistoryOK'
  BY <1>1 DEF ReceiptInv, HistoryOK, RequestShape, PriorHasEnded, Ended, At
<1>4. ReceiptShape'
  BY <1>1, <1>2 DEF ReceiptShape, Hour
<1>5. ReceiptStatements' /\ VerdictEnds' /\ PlayTokenLives'
  BY <1>1, <1>2 DEF ReceiptInv, ReceiptStatements, StatementOf, VerdictEnds, PlayTokenLives, Ended, At, Tokens
<1>6. ASSUME NEW keys, NEW since \in Int, FetchedSince(keys, since)
      PROVE  FetchedSince(keys, since)'
  BY <1>1, <1>2, <1>6 DEF FetchedSince
<1>7. CacheIsFetched'
  <2> SUFFICES ASSUME NEW p \in KeyHolders, db.cache[p].until > 0
      PROVE  FetchedSince(db.cache[p].keys, db.cache[p].until - MaxAge)'
    BY <1>2 DEF CacheIsFetched
  <2>1. db.cache[p].until - MaxAge \in Int
    BY <1>1 DEF ReceiptShape
  <2>2. FetchedSince(db.cache[p].keys, db.cache[p].until - MaxAge)
    BY DEF ReceiptInv, CacheIsFetched
  <2> QED
    BY <1>2, <1>6, <2>1, <2>2 DEF FetchedSince
<1>8. ASSUME NEW r \in Requests
      PROVE  /\ Sent(r)' /\ Has(r)'
             /\ db'.verdict[r] = "believed" => BelievedWell(r)'
             /\ db'.verdict[r] = "refused" => RefusedWell(r)'
  <2>1. /\ Says(r)' = Says(r) /\ Start(r)' = Start(r) /\ Provider(r)' = Provider(r) /\ Tokens(r)' = Tokens(r)
    BY <1>1 DEF Says, Start, Provider, Tokens
  <2>2. Sent(r) /\ Has(r)
    BY DEF ReceiptInv, AllSent, AllHave
  <2>3. Sent(r)'
    BY <1>1, <1>2, <2>1, <2>2 DEF Sent, At
  <2>4. Has(r)'
    BY <1>1, <1>2, <1>6, <2>1, <2>2 DEF Has, Sent, At, AppleVerified
  <2>5. /\ db.verdict[r] \in {"believed", "refused"} => Start(r) \in Nat /\ Start(r) <= db.now
    BY <2>2 DEF ReceiptInv, VerdictEnds, Sent, Ended, Ends, At
  <2>6. ASSUME db'.verdict[r] = "believed" PROVE BelievedWell(r)'
    <3>1. BelievedWell(r) /\ Start(r) \in Nat /\ Start(r) <= db.now
      BY <1>2, <2>5, <2>6 DEF ReceiptInv, JudgedWell
    <3> QED
      BY <1>1, <1>2, <2>1, <3>1 DEF BelievedWell
  <2>7. ASSUME db'.verdict[r] = "refused" PROVE RefusedWell(r)'
    <3>1. RefusedWell(r) /\ Start(r) \in Nat /\ Start(r) <= db.now
      BY <1>2, <2>5, <2>7 DEF ReceiptInv, JudgedWell
    <3>2. Says(r).kid = "new" /\ Tokens(r) => db.shown # Nil
      BY <2>2 DEF Sent
    <3> QED
      BY <1>1, <1>2, <2>1, <3>1, <3>2 DEF RefusedWell
  <2> QED
    BY <2>3, <2>4, <2>6, <2>7
<1>9. AllSent' /\ AllHave' /\ JudgedWell'
  BY <1>8 DEF AllSent, AllHave, JudgedWell
<1> QED
  BY <1>3, <1>4, <1>5, <1>7, <1>9 DEF ReceiptInv

LEMMA ReceiptInvAlways == ReceiptSpec => []ReceiptInv
<1>1. ReceiptInv /\ UNCHANGED vars => ReceiptInv'
  <2> SUFFICES ASSUME ReceiptInv, UNCHANGED vars PROVE ReceiptInv'
    OBVIOUS
  <2> USE DEF vars, ReceiptInv
  <2>1. HistoryOK' /\ ReceiptStatements' /\ VerdictEnds'
    BY DEF HistoryOK, RequestShape, PriorHasEnded, Ended, At, ReceiptStatements, StatementOf, Tokens, VerdictEnds
  <2>2. ReceiptShape' /\ CacheIsFetched' /\ PlayTokenLives'
    BY DEF ReceiptShape, CacheIsFetched, FetchedSince, PlayTokenLives
  <2>3. AllSent' /\ AllHave'
    BY DEF AllSent, Sent, AllHave, Has, At, Start, Says, Tokens, FetchedSince, AppleVerified
  <2>4. JudgedWell'
    BY DEF JudgedWell, BelievedWell, RefusedWell, Start, Says, Tokens, Provider
  <2> QED
    BY <2>1, <2>2, <2>3, <2>4
<1>2. ReceiptInv /\ [(\E r \in Requests : ReceiptMove(r)) \/ Elsewhere]_vars => ReceiptInv'
  BY <1>1, ReceiptInvStep, ElsewhereStep
<1> QED
  BY <1>2, ReceiptInvInit, PTL DEF ReceiptSpec

\* Whatever keys come and go and however long it takes, no token, receipt,
\* event or pending signup is believed that its issuer did not sign, that had
\* expired, or whose key had been withdrawn for longer than keys are kept.
THEOREM NothingElseIsBelieved == ReceiptSpec => []BelievedIsSaid
<1> QED
  BY ReceiptInvAlways, ReceiptInvHolds, PTL

\* And none is refused that was said, but for the exceptions the property names.
THEOREM NothingElseIsRefused == ReceiptSpec => []SaidIsBelieved
<1> QED
  BY ReceiptInvAlways, ReceiptInvHolds, PTL

-----------------------------------------------------------------------------
(***************************************************************************)
(* Credentials: what lets a user in is good for one use.                   *)
(***************************************************************************)

CredentialTables == {"token", "code", "link", "oauth", "icode", "sms"}

CredentialShape ==
    /\ CredentialTables \subseteq DOMAIN db
    /\ DOMAIN db.token = Users /\ DOMAIN db.code = Users /\ DOMAIN db.link = Users
    /\ DOMAIN db.oauth = Users /\ DOMAIN db.icode = Users /\ DOMAIN db.sms = Users
    /\ \A u \in Users :
          /\ DOMAIN db.token[u] = {"state", "user"}
          /\ DOMAIN db.code[u] = {"state", "kind", "login"}
          /\ DOMAIN db.link[u] = {"state", "kind", "owner"}
          /\ DOMAIN db.icode[u] = {"state", "user"}
          /\ DOMAIN db.sms[u] = {"state", "phone", "tries"}
          /\ db.sms[u].tries \in Nat

\* The state of a credential, whichever table it is in.
Kinds == {"token", "code", "link", "oauth", "icode"}
State(k, u) ==
    IF k = "oauth" THEN db.oauth[u]
    ELSE IF k = "token" THEN db.token[u].state
    ELSE IF k = "code" THEN db.code[u].state
    ELSE IF k = "link" THEN db.link[u].state ELSE db.icode[u].state
IsSpent(k, u) == State(k, u) \notin {"none", "live", "open"}

\* The credential a request comes with.
Callbacks == {"oauthCallback", "appleCallback", "googleCallback"}
KindOf(h) ==
    IF h \in {"refresh", "logout"} THEN "token"
    ELSE IF h = "exchange" THEN "code"
    ELSE IF h \in {"confirmReset", "verify"} THEN "link"
    ELSE IF h \in Callbacks THEN "oauth" ELSE "icode"
NameIn(h, arg) == IF h \in Callbacks THEN arg.state ELSE IF h = "googleComplete" THEN arg.code ELSE arg
NameOf(r) == NameIn(req[r].do, req[r].arg)

\* Where a request has not taken its credential.
Before(h) ==
    CASE h = "refresh" -> {"refresh", "rotate", "revokeAll"}
      [] h = "exchange" -> {"exchange", "useCode"}
      [] h = "confirmReset" -> {"confirmReset", "consumeReset"}
      [] h = "verify" -> {"verify", "consumeVerify"}
      [] h = "googleComplete" -> {"googleComplete", "useIntegrationCode"}
      [] OTHER -> {h}
EveryBefore ==
    {"refresh", "rotate", "revokeAll", "exchange", "useCode", "confirmReset", "consumeReset", "verify",
     "consumeVerify", "googleComplete", "useIntegrationCode"} \cup Callbacks
HasTaken(r) == req[r].do \in OneUse /\ req[r].at \notin Before(req[r].do) \cup {"new", "refused", "killed"}

\* A request that comes with a credential comes with one there is.
CredentialThere(r) ==
    req[r].do \in OneUse \cup {"logout"} /\ ~At(r, "new") =>
        NameOf(r) \in Users /\ State(KindOf(req[r].do), NameOf(r)) # "none"

\* A request makes a credential in its last step.
FreshCredentials == \A r \in Requests, k \in Kinds : ~Ended(r) => State(k, r) = "none"

TakenIsSpent == \A r \in Requests : HasTaken(r) => IsSpent(KindOf(req[r].do), NameOf(r))
TakenOnce ==
    \A r, s \in Requests :
        HasTaken(r) /\ HasTaken(s) /\ req[r].do = req[s].do /\ req[r].arg = req[s].arg => r = s

\* A verification is of the kind by which it is unmade.
LinksAreOfAKind == \A u \in Users : db.link[u].kind = "VERIFY" => db.link[u].state # "none"

\* A wrong guess is counted before the next begins, unless two met.
VerifyMet == \E r, s \in Verifying : Met(r, s)
GuessesLeft ==
    \A r \in Requests :
        /\ At(r, "new") => req[r].do = "none"
        /\ At(r, "verifyPhone") => req[r].do = "verifyPhone"
        /\ At(r, "logout") => req[r].do = "logout"
        /\ At(r, "bump") =>
              /\ req[r].do = "verifyPhone" /\ req[r].v \in Users
              /\ VerifyMet \/ db.sms[req[r].v].tries < MaxAttempts
GuessesCounted == VerifyMet \/ \A c \in Users : db.sms[c].tries <= MaxAttempts

CredentialInv ==
    /\ HistoryOK /\ CredentialShape
    /\ (\A r \in Requests : CredentialThere(r)) /\ FreshCredentials
    /\ TakenIsSpent /\ TakenOnce /\ LinksAreOfAKind
    /\ GuessesLeft /\ GuessesCounted

CredentialInit ==
    /\ RequestsInit /\ CredentialShape /\ LinksAreOfAKind
    /\ \A r \in Requests, k \in Kinds : State(k, r) = "none"
    /\ \A c \in Users : db.sms[c].tries <= MaxAttempts

CredentialMove(r) == SessionStep(r) \/ SignUpStep(r) \/ CompanyStep(r) \/ GoogleStep(r) \/ Killed(r)
CredentialSpec == CredentialInit /\ [][(\E r \in Requests : CredentialMove(r)) \/ AtGoogle]_vars

LEMMA CredentialInvInit == CredentialInit => CredentialInv
<1> SUFFICES ASSUME CredentialInit PROVE CredentialInv
  OBVIOUS
<1>1. \A r \in Requests : req[r] = [do |-> "none", at |-> "new", arg |-> Nil, v |-> Nil]
  BY DEF CredentialInit, RequestsInit
<1>2. HistoryOK
  BY HistoryInit DEF CredentialInit
<1>3. (\A r \in Requests : CredentialThere(r)) /\ TakenIsSpent /\ TakenOnce
  BY <1>1 DEF CredentialThere, TakenIsSpent, TakenOnce, HasTaken, At
<1>4. FreshCredentials /\ GuessesLeft /\ GuessesCounted
  BY <1>1 DEF CredentialInit, FreshCredentials, GuessesLeft, GuessesCounted, At
<1> QED
  BY <1>2, <1>3, <1>4 DEF CredentialInv, CredentialInit

LEMMA CredentialInvHolds == CredentialInv => CredentialsUsedOnce
<1> SUFFICES ASSUME CredentialInv PROVE CredentialsUsedOnce
  OBVIOUS
<1>1. ASSUME NEW r \in Requests, Took(r) PROVE HasTaken(r)
  BY <1>1 DEF Took, HasTaken, At, Before, OneUse
<1>2. TokensUsedOnce
  BY <1>1 DEF CredentialInv, TakenOnce, TokensUsedOnce, Took
<1>3. CodeSpent
  BY DEF CredentialInv, GuessesCounted, VerifyMet, CodeSpent
<1> QED
  BY <1>2, <1>3 DEF CredentialsUsedOnce

-----------------------------------------------------------------------------
\* What a step of r may do to the credentials.
Turns(r) ==
    /\ CredentialShape' /\ LinksAreOfAKind'
    /\ \A k \in Kinds, u \in Users :
          \/ State(k, u)' = State(k, u)
          \/ u = r /\ Ended(r)'
          \/ State(k, u) # "none" /\ State(k, u)' # "none" /\ IsSpent(k, u)'
    /\ \A c \in Users :
          \/ db'.sms[c].tries = db.sms[c].tries
          \/ db'.sms[c].tries = 0
          \/ At(r, "bump") /\ c = req[r].v /\ db'.sms[c].tries = db.sms[c].tries + 1

\* And where it leads.
Arrives(r) ==
    /\ CredentialThere(r)'
    /\ HasTaken(r)' /\ ~HasTaken(r) =>
          /\ ~IsSpent(KindOf(req[r].do), NameOf(r))
          /\ IsSpent(KindOf(req[r].do), NameOf(r))'
          /\ req'[r].do = req[r].do /\ req'[r].arg = req[r].arg
    /\ At(r, "new")' => req'[r].do = "none"
    /\ At(r, "verifyPhone")' => req'[r].do = "verifyPhone"
    /\ At(r, "logout")' => req'[r].do = "logout"
    /\ At(r, "bump")' =>
          /\ req'[r].do = "verifyPhone" /\ req'[r].v \in Users
          /\ db' = db /\ db.sms[req'[r].v].tries < MaxAttempts

LEMMA VerifyMetStays ==
    ASSUME HistoryOK, NEW m \in Requests, Moves(m), VerifyMet
    PROVE  VerifyMet'
<1>1. PICK r, s \in Verifying : Met(r, s)
  BY DEF VerifyMet
<1>2. r \in Requests /\ s \in Requests /\ ~At(r, "new") /\ ~At(s, "new")
  BY DEF Verifying
<1>3. Met(r, s)' /\ r \in Verifying' /\ s \in Verifying'
  BY <1>1, <1>2, MetStays, OthersStay DEF Verifying
<1> QED
  BY <1>3 DEF VerifyMet

LEMMA VerifiersMeet ==
    ASSUME HistoryOK, NEW r \in Requests, NEW s \in Requests, r # s, Open(r), Open(s),
           req[r].do = "verifyPhone", req[s].do = "verifyPhone"
    PROVE  VerifyMet
  BY OpenMeet DEF VerifyMet, Verifying, Open

LEMMA TurnsStep ==
    ASSUME CredentialInv, NEW r \in Requests, Moves(r), Turns(r), Arrives(r)
    PROVE  CredentialInv'
<1>1. HistoryOK /\ HistoryOK' /\ \A s \in Requests \ {r} : req'[s] = req[s]
  BY HistoryStep, OthersStay DEF CredentialInv
<1>2. ~Ended(r)
  BY DEF Moves, Begins, GoesOn, Begin, Open, Ended, Ends, At
<1>3. \A k \in Kinds, u \in Users :
         /\ State(k, u) # "none" => State(k, u)' # "none"
         /\ IsSpent(k, u) => IsSpent(k, u)'
  <2> SUFFICES ASSUME NEW k \in Kinds, NEW u \in Users
      PROVE  /\ State(k, u) # "none" => State(k, u)' # "none"
             /\ IsSpent(k, u) => IsSpent(k, u)'
    OBVIOUS
  <2>1. u = r => State(k, u) = "none"
    BY <1>2 DEF CredentialInv, FreshCredentials
  <2> QED
    BY <2>1 DEF Turns, IsSpent
<1>4. \A h : KindOf(h) \in Kinds
  BY DEF KindOf, Kinds
<1>5. ASSUME NEW s \in Requests PROVE CredentialThere(s)'
  <2>1. CASE s = r
    BY <2>1 DEF Arrives
  <2>2. CASE s # r
    <3>1. req'[s] = req[s] /\ NameOf(s)' = NameOf(s) /\ At(s, "new")' = At(s, "new")
      BY <1>1, <2>2 DEF NameOf, At
    <3> QED
      BY <1>3, <1>4, <3>1 DEF CredentialThere, CredentialInv
  <2> QED
    BY <2>1, <2>2
<1>6. FreshCredentials'
  <2> SUFFICES ASSUME NEW s \in Requests, NEW k \in Kinds, ~Ended(s)' PROVE State(k, s)' = "none"
    BY DEF FreshCredentials
  <2>1. ~Ended(s) /\ s \in Users
    BY <1>1, <1>2 DEF Ended, At, Users
  <2>2. State(k, s) = "none"
    BY <2>1 DEF CredentialInv, FreshCredentials
  <2> QED
    BY <2>1, <2>2 DEF Turns
<1>7. ASSUME NEW s \in Requests, HasTaken(s)'
      PROVE  /\ HasTaken(s) \/ (s = r /\ ~IsSpent(KindOf(req[r].do), NameOf(r)))
             /\ IsSpent(KindOf(req[s].do), NameOf(s))'
             /\ req'[s].do = req[s].do /\ req'[s].arg = req[s].arg
  <2>1. CASE HasTaken(s)
    <3>1. s \in Requests /\ ~At(s, "new") /\ IsSpent(KindOf(req[s].do), NameOf(s)) /\ NameOf(s) \in Users
      BY <2>1 DEF HasTaken, At, CredentialInv, TakenIsSpent, CredentialThere
    <3>2. req'[s].do = req[s].do /\ req'[s].arg = req[s].arg
      BY <1>1, <3>1, OthersStay
    <3>3. IsSpent(KindOf(req[s].do), NameOf(s))'
      BY <1>3, <1>4, <3>1, <3>2 DEF NameOf, IsSpent
    <3> QED
      BY <2>1, <3>2, <3>3
  <2>2. CASE ~HasTaken(s)
    <3>1. s = r
      BY <1>1, <1>7, <2>2 DEF HasTaken
    <3> QED
      BY <1>7, <2>2, <3>1 DEF Arrives
  <2> QED
    BY <2>1, <2>2
<1>8. TakenIsSpent'
  BY <1>7 DEF TakenIsSpent
<1>9. TakenOnce'
  <2> SUFFICES ASSUME NEW s \in Requests, NEW t \in Requests, HasTaken(s)', HasTaken(t)',
                      req'[s].do = req'[t].do, req'[s].arg = req'[t].arg
      PROVE  s = t
    BY DEF TakenOnce
  <2>1. req[s].do = req[t].do /\ req[s].arg = req[t].arg /\ NameOf(s) = NameOf(t)
    BY <1>7 DEF NameOf
  <2>2. CASE HasTaken(s) /\ HasTaken(t)
    BY <2>1, <2>2 DEF CredentialInv, TakenOnce
  <2>3. CASE HasTaken(s) /\ ~HasTaken(t)
    <3>1. t = r /\ ~IsSpent(KindOf(req[r].do), NameOf(r))
      BY <1>7, <2>3
    <3>2. IsSpent(KindOf(req[s].do), NameOf(s))
      BY <2>3 DEF CredentialInv, TakenIsSpent
    <3> QED
      BY <2>1, <3>1, <3>2
  <2>4. CASE ~HasTaken(s) /\ HasTaken(t)
    <3>1. s = r /\ ~IsSpent(KindOf(req[r].do), NameOf(r))
      BY <1>7, <2>4
    <3>2. IsSpent(KindOf(req[t].do), NameOf(t))
      BY <2>4 DEF CredentialInv, TakenIsSpent
    <3> QED
      BY <2>1, <3>1, <3>2
  <2>5. CASE ~HasTaken(s) /\ ~HasTaken(t)
    BY <1>7, <2>5
  <2> QED
    BY <2>2, <2>3, <2>4, <2>5
<1>10. /\ MaxAttempts \in Nat
       /\ \A c \in Users : db.sms[c].tries \in Nat /\ db'.sms[c].tries \in Nat
  BY SignUpAssumption DEF CredentialInv, CredentialShape, Turns
<1>11. GuessesLeft'
  <2> SUFFICES ASSUME NEW s \in Requests
      PROVE  /\ At(s, "new")' => req'[s].do = "none"
             /\ At(s, "verifyPhone")' => req'[s].do = "verifyPhone"
             /\ At(s, "logout")' => req'[s].do = "logout"
             /\ At(s, "bump")' =>
                   /\ req'[s].do = "verifyPhone" /\ req'[s].v \in Users
                   /\ VerifyMet' \/ db'.sms[req'[s].v].tries < MaxAttempts
    BY DEF GuessesLeft
  <2>1. CASE s = r
    BY <2>1 DEF Arrives
  <2>2. CASE s # r
    <3>1. req'[s] = req[s]
      BY <1>1, <2>2
    <3>2. ASSUME At(s, "bump")'
          PROVE  VerifyMet' \/ db'.sms[req'[s].v].tries < MaxAttempts
      <4>1. At(s, "bump") /\ req[s].do = "verifyPhone" /\ req[s].v \in Users
        BY <3>1, <3>2 DEF At, CredentialInv, GuessesLeft
      <4>2. CASE VerifyMet
        BY <1>1, <4>2, VerifyMetStays
      <4>3. CASE ~VerifyMet
        <5>1. db.sms[req[s].v].tries < MaxAttempts
          BY <4>1, <4>3 DEF CredentialInv, GuessesLeft
        <5>2. ~At(r, "bump")
          BY <1>1, <2>2, <4>1, <4>3, VerifiersMeet DEF CredentialInv, GuessesLeft, Open, Ended, Ends, At
        <5>3. db'.sms[req[s].v].tries \in {db.sms[req[s].v].tries, 0}
          BY <4>1, <5>2 DEF Turns
        <5> QED
          BY <1>10, <3>1, <4>1, <5>1, <5>3
      <4> QED
        BY <4>2, <4>3
    <3> QED
      BY <3>1, <3>2 DEF CredentialInv, GuessesLeft, At
  <2> QED
    BY <2>1, <2>2
<1>12. GuessesCounted'
  <2>1. CASE VerifyMet
    BY <1>1, <2>1, VerifyMetStays DEF GuessesCounted
  <2>2. CASE ~VerifyMet
    <3>1. \A c \in Users : db'.sms[c].tries <= MaxAttempts
      <4> SUFFICES ASSUME NEW c \in Users PROVE db'.sms[c].tries <= MaxAttempts
        OBVIOUS
      <4>1. db.sms[c].tries <= MaxAttempts
        BY <2>2 DEF CredentialInv, GuessesCounted
      <4>2. At(r, "bump") /\ c = req[r].v => db.sms[c].tries < MaxAttempts
        BY <2>2 DEF CredentialInv, GuessesLeft
      <4> QED
        BY <1>10, <4>1, <4>2 DEF Turns
    <3> QED
      BY <3>1 DEF GuessesCounted
  <2> QED
    BY <2>1, <2>2
<1> QED
  BY <1>1, <1>5, <1>6, <1>8, <1>9, <1>11, <1>12 DEF CredentialInv, Turns

-----------------------------------------------------------------------------
CredentialHandlers ==
    OneUse \cup {"logout", "login", "requestReset", "oauthStart", "appleNative", "sendPhone", "verifyPhone", "signup",
     "deleteAccount", "verifyBusiness", "acceptInvite", "removeMember", "transferAdmin", "invite",
     "googleConnect", "googleDisconnect", "googleSync"}

LEMMA CredentialMoves ==
    ASSUME NEW r \in Requests, CredentialMove(r)
    PROVE  Moves(r)
<1>1. \A h, arg : h \in CredentialHandlers /\ Begin(r, h, arg) => Moves(r)
  BY BeginMoves DEF CredentialHandlers, OneUse, Ends
<1>2. CASE ArriveSession(r)
  BY <1>1, <1>2 DEF ArriveSession, CredentialHandlers, OneUse
<1>3. CASE ArriveSignUp(r)
  BY <1>1, <1>3 DEF ArriveSignUp, CredentialHandlers, OneUse
<1>4. CASE ArriveCompany(r)
  BY <1>1, <1>4 DEF ArriveCompany, CredentialHandlers, OneUse
<1>5. CASE ArriveGoogle(r)
  BY <1>1, <1>5 DEF ArriveGoogle, CredentialHandlers, OneUse
<1>6. CASE Killed(r)
  BY <1>6, DoMoves DEF Killed
<1>7. CASE SessionStep(r) /\ ~ArriveSession(r)
  <2>1. CASE Issue(r) \/ RevokeAll(r) \/ ClearUser(r) \/ ClearCompany(r) \/ Refresh(r) \/ Rotate(r) \/ Logout(r) \/ Login(r)
    BY <2>1, DoMoves DEF Issue, RevokeAll, ClearUser, ClearCompany, Refresh, Rotate, Logout, Login,
       GoOn, End, Refuse, Open, Ended, At, Ends
  <2>2. CASE \/ RequestReset(r) \/ IssueLink(r) \/ LinkRow(r) \/ ConfirmReset(r)
             \/ ConsumeLink(r, "consumeReset", "setPassword") \/ SetPassword(r) \/ OauthStart(r)
    BY <2>2, DoMoves DEF RequestReset, IssueLink, LinkRow, ConfirmReset, ConsumeLink, SetPassword, OauthStart,
       GoOn, End, Refuse, Open, Ended, At, Ends
  <2>3. CASE OauthCallback(r) \/ AppleCallback(r) \/ MintCode(r) \/ Exchange(r) \/ UseCode(r) \/ AppleNative(r)
    BY <2>3, DoMoves DEF OauthCallback, AppleCallback, TakeState, MintCode, Exchange, UseCode, AppleNative,
       GoOn, End, Refuse, Open, Ended, At, Ends
  <2>4. CASE FindIdentity(r) \/ FindLogin(r) \/ OauthIdentity(r) \/ OauthEmail(r) \/ OauthLogin(r) \/ OauthInsert(r)
    BY <2>4, DoMoves DEF FindIdentity, FindLogin, OauthIdentity, OauthEmail, OauthLogin, OauthInsert, Found,
       GoOn, End, Refuse, Open, Ended, At, Ends
  <2> QED
    BY <1>7, <2>1, <2>2, <2>3, <2>4 DEF SessionStep
<1>8. CASE SignUpStep(r) /\ ~ArriveSignUp(r)
  <2>1. CASE SendPhone(r) \/ ConsumeOpen(r) \/ InsertCode(r) \/ VerifyPhone(r) \/ Bump(r) \/ ConsumeCode(r) \/ Owner(r)
    BY <2>1, DoMoves DEF SendPhone, ConsumeOpen, InsertCode, VerifyPhone, Bump, ConsumeCode, Owner,
       GoOn, End, Refuse, Open, Ended, At, Ends
  <2>2. CASE Me(r) \/ Providers(r) \/ Taken(r) \/ SetSocial(r) \/ BindLogin(r) \/ BindLoginInsert(r)
    BY <2>2, DoMoves DEF Me, Providers, Taken, SetSocial, BindLogin, BindLoginInsert,
       GoOn, End, Refuse, Open, Ended, At, Ends
  <2>3. CASE BindPhone(r) \/ BindPhoneInsert(r) \/ InsertUser(r) \/ RacedUser(r)
    BY <2>3, DoMoves DEF BindPhone, BindPhoneInsert, InsertUser, RacedUser, GoOn, End, Refuse, Open, Ended, At, Ends
  <2>4. CASE CreateFromPending(r)
    BY <2>4, DoMoves DEF CreateFromPending, InsertSocial, CreateRaced, GoOn, End, Refuse, Open, Ended, At, Ends
  <2>5. CASE \/ Signup(r) \/ UpsertSignup(r) \/ Verify(r) \/ ConsumeLink(r, "consumeVerify", "emailOwner")
             \/ EmailOwner(r) \/ InsertEmail(r) \/ DropSignup(r)
    BY <2>5, DoMoves DEF Signup, UpsertSignup, Verify, ConsumeLink, EmailOwner, InsertEmail, DropSignup,
       GoOn, End, Refuse, Open, Ended, At, Ends
  <2> QED
    BY <1>8, <2>1, <2>2, <2>3, <2>4, <2>5 DEF SignUpStep
<1>9. CASE CompanyStep(r) /\ ~ArriveCompany(r)
  <2>1. CASE \/ VerifyBusiness(r) \/ CompleteFirm(r) \/ InsertFirm(r) \/ InsertAdmin(r) \/ UndoFirm(r)
             \/ RequireAdmin(r, "invite", "inviteMember") \/ InviteMember(r) \/ InvitePending(r)
    BY <2>1, DoMoves DEF VerifyBusiness, CompleteFirm, InsertFirm, InsertAdmin, UndoFirm, RequireAdmin,
       InviteMember, InvitePending, GoOn, End, Refuse, Open, Ended, At, Ends
  <2>2. CASE \/ ResendMail(r) \/ ResendRow(r) \/ InviteCount(r) \/ InviteRow(r) \/ InviteMail(r)
             \/ InviteUndo(r) \/ AcceptInvite(r) \/ AcceptUser(r) \/ Join(r)
    BY <2>2, DoMoves DEF ResendMail, ResendRow, InviteCount, InviteRow, InviteMail, InviteUndo, AcceptInvite,
       AcceptUser, Join, GoOn, End, Refuse, Open, Ended, At, Ends
  <2>3. CASE \/ RequireAdmin(r, "removeMember", "removeTarget") \/ RemoveTarget(r) \/ CountAdmins(r)
             \/ RemoveRow(r) \/ RequireAdmin(r, "transferAdmin", "transferTarget")
             \/ TransferTarget(r) \/ Transfer(r) \/ TransferWrite(r)
    BY <2>3, DoMoves DEF RequireAdmin, RemoveTarget, CountAdmins, RemoveRow, TransferTarget, Transfer, TransferWrite,
       GoOn, End, Refuse, Open, Ended, At, Ends
  <2>4. CASE DeleteAccount(r) \/ MarkUser(r) \/ CancelPlans(r) \/ Unmark(r) \/ MarkFirm(r)
    BY <2>4, DoMoves DEF DeleteAccount, MarkUser, CancelPlans, Unmark, MarkFirm, GoOn, End, Refuse, Open, Ended, At, Ends
  <2> QED
    BY <1>9, <2>1, <2>2, <2>3, <2>4 DEF CompanyStep
<1>10. CASE GoogleStep(r) /\ ~ArriveGoogle(r)
  <2>1. CASE \/ GoogleConnect(r) \/ GoogleCallback(r) \/ GoogleCode(r) \/ GoogleComplete(r)
             \/ UseIntegrationCode(r) \/ Connection(r) \/ GoogleDisconnect(r) \/ Wipe(r)
    BY <2>1, DoMoves DEF GoogleConnect, GoogleCallback, GoogleCode, GoogleComplete, UseIntegrationCode, Connection,
       GoogleDisconnect, Wipe, GoOn, End, Refuse, Open, Ended, At, Ends
  <2>2. CASE GoogleSync(r) \/ Refreshed(r) \/ List(r) \/ Persist(r) \/ SyncRow(r)
    BY <2>2, DoMoves DEF GoogleSync, Refreshed, List, Persist, SyncRow, GoOn, End, Refuse, Open, Ended, At, Ends
  <2> QED
    BY <1>10, <2>1, <2>2 DEF GoogleStep
<1> QED
  BY <1>2, <1>3, <1>4, <1>5, <1>6, <1>7, <1>8, <1>9, <1>10 DEF CredentialMove

-----------------------------------------------------------------------------
\* A step that leaves the credentials alone and takes none.
SameCredentials(tables) ==
    /\ DOMAIN tables = DOMAIN db
    /\ tables.token = db.token /\ tables.code = db.code /\ tables.link = db.link
    /\ tables.oauth = db.oauth /\ tables.icode = db.icode /\ tables.sms = db.sms

LEMMA SameStates ==
    ASSUME CredentialInv, SameCredentials(db')
    PROVE  /\ CredentialShape' /\ LinksAreOfAKind'
           /\ \A k, u : State(k, u)' = State(k, u)
  BY DEF CredentialInv, SameCredentials, CredentialShape, LinksAreOfAKind, State

LEMMA QuietStep ==
    ASSUME CredentialInv, NEW r \in Requests, Open(r), NEW statement, NEW v, NEW tables,
           Do(r, statement, v, tables), SameCredentials(tables), statement \notin {"new", "logout", "verifyPhone", "bump"},
           req[r].at \notin EveryBefore \/ (HasTaken(r)' => HasTaken(r))
    PROVE  Turns(r) /\ Arrives(r)
<1>1. /\ req'[r].do = req[r].do /\ req'[r].arg = req[r].arg /\ req'[r].at = statement /\ db' = tables
  BY DoEffect DEF CredentialInv
<1>2. CredentialShape' /\ LinksAreOfAKind' /\ \A k, u : State(k, u)' = State(k, u)
  BY <1>1, SameStates DEF SameCredentials
<1>3. Turns(r)
  BY <1>1, <1>2 DEF Turns, SameCredentials
<1>4. CredentialThere(r)'
  <2>1. NameOf(r)' = NameOf(r) /\ ~At(r, "new")
    BY <1>1 DEF NameOf, Open
  <2> QED
    BY <1>1, <1>2, <2>1 DEF CredentialInv, CredentialThere
<1>5. HasTaken(r)' => HasTaken(r)
  BY <1>1 DEF HasTaken, Before, EveryBefore, OneUse, Callbacks, Open, Ended, Ends, At
<1> QED
  BY <1>1, <1>3, <1>4, <1>5 DEF Arrives, At

LEMMA QuietGoOn ==
    ASSUME CredentialInv, NEW r \in Requests, Open(r), NEW statement, NEW v, GoOn(r, statement, v),
           statement \notin {"new", "logout", "verifyPhone", "bump"},
           req[r].at \notin EveryBefore \/ (HasTaken(r)' => HasTaken(r))
    PROVE  Turns(r) /\ Arrives(r)
  BY QuietStep DEF GoOn, SameCredentials

\* A step that refuses takes nothing.
LEMMA QuietRefuse ==
    ASSUME CredentialInv, NEW r \in Requests, Open(r), NEW v, NEW tables, NEW word \in {"refused", "killed"},
           Do(r, word, v, tables), SameCredentials(tables)
    PROVE  Turns(r) /\ Arrives(r)
<1>1. req'[r].at = word
  BY DoEffect DEF CredentialInv
<1>2. ~HasTaken(r)'
  BY <1>1 DEF HasTaken
<1> QED
  BY <1>2, QuietStep

\* Tables that are no credentials'.
LEMMA OtherTables ==
    ASSUME CredentialShape, NEW x
    PROVE  /\ SameCredentials(db)
           /\ SameCredentials([db EXCEPT !.user = x])
           /\ SameCredentials([db EXCEPT !.company = x])
           /\ SameCredentials([db EXCEPT !.member = x])
           /\ SameCredentials([db EXCEPT !.invite = x])
           /\ SameCredentials([db EXCEPT !.mailed = x])
           /\ SameCredentials([db EXCEPT !.pending = x])
           /\ SameCredentials([db EXCEPT !.identity = x])
           /\ SameCredentials([db EXCEPT !.bound = x])
           /\ SameCredentials([db EXCEPT !.signup = x])
           /\ SameCredentials([db EXCEPT !.google = x])
           /\ SameCredentials([db EXCEPT !.synced = x])
           /\ SameCredentials([db EXCEPT !.relisted = x])
  BY DEF CredentialShape, CredentialTables, SameCredentials

LEMMA QuietSessions ==
    ASSUME CredentialInv, NEW r \in Requests,
           \/ ClearUser(r) \/ ClearCompany(r) \/ Login(r) \/ RequestReset(r) \/ IssueLink(r) \/ SetPassword(r)
           \/ AppleNative(r) \/ FindIdentity(r) \/ FindLogin(r) \/ OauthIdentity(r) \/ OauthEmail(r) \/ OauthLogin(r)
           \/ OauthInsert(r)
    PROVE  Turns(r) /\ Arrives(r)
<1>0. CredentialShape
  BY DEF CredentialInv
<1>1. \A statement, v, x :
         /\ Open(r) /\ req[r].at \notin EveryBefore /\ statement \notin {"new", "logout", "verifyPhone", "bump"} =>
               /\ GoOn(r, statement, v) => Turns(r) /\ Arrives(r)
               /\ Do(r, statement, v, [db EXCEPT !.user = x]) => Turns(r) /\ Arrives(r)
               /\ Do(r, statement, v, [db EXCEPT !.company = x]) => Turns(r) /\ Arrives(r)
               /\ Do(r, statement, v, [db EXCEPT !.pending = x]) => Turns(r) /\ Arrives(r)
  BY <1>0, QuietGoOn, QuietStep, OtherTables
<1>2. CASE ClearUser(r) \/ ClearCompany(r) \/ SetPassword(r)
  BY <1>1, <1>2 DEF ClearUser, ClearCompany, SetPassword, Open, Ended, Ends, At, EveryBefore, Callbacks
<1>3. CASE Login(r) \/ RequestReset(r) \/ IssueLink(r) \/ AppleNative(r)
  BY <1>1, <1>3 DEF Login, RequestReset, IssueLink, AppleNative, Refuse, End, GoOn, Open, Ended, Ends, At, EveryBefore, Callbacks
<1>4. CASE FindIdentity(r) \/ FindLogin(r) \/ OauthIdentity(r) \/ OauthEmail(r) \/ OauthLogin(r)
  BY <1>1, <1>4 DEF FindIdentity, FindLogin, OauthIdentity, OauthEmail, OauthLogin, Found, Refuse, End, GoOn,
     Open, Ended, Ends, At, EveryBefore, Callbacks
<1>5. CASE OauthInsert(r)
  BY <1>1, <1>5 DEF OauthInsert, Found, Refuse, GoOn, Open, Ended, Ends, At, EveryBefore, Callbacks
<1> QED
  BY <1>2, <1>3, <1>4, <1>5

LEMMA QuietSignUps ==
    ASSUME CredentialInv, NEW r \in Requests,
           \/ SendPhone(r) \/ Owner(r) \/ Me(r) \/ Providers(r) \/ Taken(r) \/ SetSocial(r) \/ BindLogin(r)
           \/ BindLoginInsert(r) \/ BindPhone(r) \/ BindPhoneInsert(r) \/ InsertUser(r) \/ RacedUser(r)
           \/ CreateFromPending(r) \/ Signup(r) \/ UpsertSignup(r) \/ EmailOwner(r) \/ InsertEmail(r)
    PROVE  Turns(r) /\ Arrives(r)
<1>0. CredentialShape
  BY DEF CredentialInv
<1>1. \A statement, v, x :
         /\ Open(r) /\ req[r].at \notin EveryBefore /\ statement \notin {"new", "logout", "verifyPhone", "bump"} =>
               /\ GoOn(r, statement, v) => Turns(r) /\ Arrives(r)
               /\ Do(r, statement, v, [db EXCEPT !.user = x]) => Turns(r) /\ Arrives(r)
               /\ Do(r, statement, v, [db EXCEPT !.identity = x]) => Turns(r) /\ Arrives(r)
               /\ Do(r, statement, v, [db EXCEPT !.bound = x]) => Turns(r) /\ Arrives(r)
               /\ Do(r, statement, v, [db EXCEPT !.signup = x]) => Turns(r) /\ Arrives(r)
  BY <1>0, QuietGoOn, QuietStep, OtherTables
<1>2. CASE SendPhone(r) \/ Owner(r) \/ Me(r) \/ Providers(r) \/ Taken(r)
  BY <1>1, <1>2 DEF SendPhone, Owner, Me, Providers, Taken, Refuse, GoOn, Open, Ended, Ends, At, EveryBefore, Callbacks
<1>3. CASE SetSocial(r) \/ BindLogin(r) \/ BindLoginInsert(r)
  BY <1>1, <1>3 DEF SetSocial, BindLogin, BindLoginInsert, Refuse, GoOn, Open, Ended, Ends, At, EveryBefore, Callbacks
<1>4. CASE BindPhone(r) \/ BindPhoneInsert(r) \/ InsertUser(r) \/ RacedUser(r)
  BY <1>1, <1>4 DEF BindPhone, BindPhoneInsert, InsertUser, RacedUser, Refuse, GoOn,
     Open, Ended, Ends, At, EveryBefore, Callbacks
<1>5. CASE CreateFromPending(r)
  BY <1>1, <1>5 DEF CreateFromPending, InsertSocial, CreateRaced, Refuse, GoOn,
     Open, Ended, Ends, At, EveryBefore, Callbacks
<1>6. CASE Signup(r) \/ UpsertSignup(r) \/ EmailOwner(r) \/ InsertEmail(r)
  BY <1>1, <1>6 DEF Signup, UpsertSignup, EmailOwner, InsertEmail, Refuse, GoOn,
     Open, Ended, Ends, At, EveryBefore, Callbacks
<1> QED
  BY <1>2, <1>3, <1>4, <1>5, <1>6

LEMMA QuietCompanies ==
    ASSUME CredentialInv, NEW r \in Requests, CompanyStep(r), ~ArriveCompany(r)
    PROVE  Turns(r) /\ Arrives(r)
<1>0. CredentialShape
  BY DEF CredentialInv
<1>1. \A statement, v, x :
         /\ Open(r) /\ req[r].at \notin EveryBefore /\ statement \notin {"new", "logout", "verifyPhone", "bump"} =>
               /\ GoOn(r, statement, v) => Turns(r) /\ Arrives(r)
               /\ Do(r, statement, v, [db EXCEPT !.user = x]) => Turns(r) /\ Arrives(r)
               /\ Do(r, statement, v, [db EXCEPT !.company = x]) => Turns(r) /\ Arrives(r)
               /\ Do(r, statement, v, [db EXCEPT !.member = x]) => Turns(r) /\ Arrives(r)
               /\ Do(r, statement, v, [db EXCEPT !.invite = x]) => Turns(r) /\ Arrives(r)
               /\ Do(r, statement, v, [db EXCEPT !.mailed = x]) => Turns(r) /\ Arrives(r)
  BY <1>0, QuietGoOn, QuietStep, OtherTables
<1>2. CASE \/ VerifyBusiness(r) \/ CompleteFirm(r) \/ InsertFirm(r) \/ InsertAdmin(r) \/ UndoFirm(r)
  BY <1>1, <1>2 DEF VerifyBusiness, CompleteFirm, InsertFirm, InsertAdmin, UndoFirm, WithoutFirm, Refuse, GoOn, End,
     Open, Ended, Ends, At, EveryBefore, Callbacks
<1>3. CASE \/ RequireAdmin(r, "invite", "inviteMember") \/ InviteMember(r) \/ InvitePending(r) \/ ResendMail(r) \/ ResendRow(r)
  BY <1>1, <1>3 DEF RequireAdmin, InviteMember, InvitePending, ResendMail, ResendRow, Refuse, GoOn, End,
     Open, Ended, Ends, At, EveryBefore, Callbacks
<1>4. CASE InviteCount(r) \/ InviteRow(r) \/ InviteMail(r) \/ InviteUndo(r) \/ AcceptInvite(r) \/ AcceptUser(r)
  BY <1>1, <1>4 DEF InviteCount, InviteRow, InviteMail, InviteUndo, AcceptInvite, AcceptUser, Refuse, GoOn, End,
     Open, Ended, Ends, At, EveryBefore, Callbacks
<1>5. CASE Join(r)
  <2>1. CASE Refuse(r)
    BY <1>1, <1>5, <2>1 DEF Join, Refuse, GoOn, Open, Ended, Ends, At, EveryBefore, Callbacks
  <2>2. CASE ~Refuse(r)
    <3>1. PICK x, y : Do(r, "ok", req[r].v, [[db EXCEPT !.invite = x] EXCEPT !.member = y])
      BY <1>5, <2>2 DEF Join, End
    <3>2. SameCredentials([[db EXCEPT !.invite = x] EXCEPT !.member = y])
      BY <1>0 DEF SameCredentials, CredentialShape, CredentialTables
    <3> QED
      BY <1>5, <3>1, <3>2, QuietStep DEF Join, Open, Ended, Ends, At, EveryBefore, Callbacks
  <2> QED
    BY <2>1, <2>2
<1>6. CASE \/ RequireAdmin(r, "removeMember", "removeTarget") \/ RemoveTarget(r) \/ CountAdmins(r) \/ RemoveRow(r)
           \/ RequireAdmin(r, "transferAdmin", "transferTarget") \/ TransferTarget(r) \/ Transfer(r)
  BY <1>1, <1>6 DEF RequireAdmin, RemoveTarget, CountAdmins, RemoveRow, TransferTarget, Transfer, Refuse, GoOn, End,
     Open, Ended, Ends, At, EveryBefore, Callbacks
<1>7. CASE TransferWrite(r) \/ DeleteAccount(r) \/ MarkUser(r) \/ CancelPlans(r) \/ Unmark(r) \/ MarkFirm(r)
  BY <1>1, <1>7 DEF TransferWrite, DeleteAccount, MarkUser, CancelPlans, Unmark, Unmarked, MarkFirm, Refuse, GoOn, End,
     Open, Ended, Ends, At, EveryBefore, Callbacks
<1> QED
  BY <1>2, <1>3, <1>4, <1>5, <1>6, <1>7 DEF CompanyStep

LEMMA QuietGoogles ==
    ASSUME CredentialInv, NEW r \in Requests,
           \/ Connection(r) \/ GoogleDisconnect(r) \/ Wipe(r) \/ GoogleSync(r) \/ Refreshed(r) \/ List(r)
           \/ Persist(r) \/ SyncRow(r)
    PROVE  Turns(r) /\ Arrives(r)
<1>0. CredentialShape
  BY DEF CredentialInv
<1>1. \A statement, v, x :
         /\ Open(r) /\ req[r].at \notin EveryBefore /\ statement \notin {"new", "logout", "verifyPhone", "bump"} =>
               /\ GoOn(r, statement, v) => Turns(r) /\ Arrives(r)
               /\ Do(r, statement, v, [db EXCEPT !.google = x]) => Turns(r) /\ Arrives(r)
               /\ Do(r, statement, v, [db EXCEPT !.synced = x]) => Turns(r) /\ Arrives(r)
               /\ Do(r, statement, v, [db EXCEPT !.relisted = x]) => Turns(r) /\ Arrives(r)
  BY <1>0, QuietGoOn, QuietStep, OtherTables
<1>2. CASE Connection(r) \/ GoogleDisconnect(r) \/ GoogleSync(r) \/ Refreshed(r)
  BY <1>1, <1>2 DEF Connection, GoogleDisconnect, GoogleSync, Refreshed, PutIntegration, Refuse, GoOn, End,
     Open, Ended, Ends, At, EveryBefore, Callbacks
<1>3. CASE List(r)
  BY <1>1, <1>3 DEF List, Refuse, GoOn, Open, Ended, Ends, At, EveryBefore, Callbacks
<1>4. CASE Persist(r)
  BY <1>1, <1>4 DEF Persist, Refuse, GoOn, Open, Ended, Ends, At, EveryBefore, Callbacks
<1>5. CASE SyncRow(r)
  BY <1>1, <1>5 DEF SyncRow, PutIntegration, Refuse, GoOn, Open, Ended, Ends, At, EveryBefore, Callbacks
<1>6. CASE Wipe(r)
  <2>1. PICK x, y, z : Do(r, "ok", req[r].v, [[[db EXCEPT !.google = x] EXCEPT !.synced = y] EXCEPT !.relisted = z])
    BY <1>6 DEF Wipe, Wiped, End
  <2>2. SameCredentials([[[db EXCEPT !.google = x] EXCEPT !.synced = y] EXCEPT !.relisted = z])
    BY <1>0 DEF SameCredentials, CredentialShape, CredentialTables
  <2> QED
    BY <1>6, <2>1, <2>2, QuietStep DEF Wipe, Open, Ended, Ends, At, EveryBefore, Callbacks
<1> QED
  BY <1>2, <1>3, <1>4, <1>5, <1>6

\* A step that reads a credential, which another will take.
LEMMA CredentialReads ==
    ASSUME CredentialInv, NEW r \in Requests,
           Refresh(r) \/ Exchange(r) \/ ConfirmReset(r) \/ Verify(r) \/ GoogleComplete(r) \/ Killed(r)
    PROVE  Turns(r) /\ Arrives(r)
<1>0. CredentialShape /\ HistoryOK
  BY DEF CredentialInv
<1>1. \A v : Open(r) /\ GoOn(r, "refused", v) => Turns(r) /\ Arrives(r)
  BY <1>0, OtherTables, QuietRefuse DEF GoOn
<1>2. CASE Killed(r)
  BY <1>0, <1>2, OtherTables, QuietRefuse DEF Killed
<1>3. \A statement, v : GoOn(r, statement, v) => req'[r].at = statement /\ req'[r].do = req[r].do
  BY <1>0, DoEffect DEF GoOn
<1>4. ASSUME NEW before, NEW statement, NEW v, At(r, before), GoOn(r, statement, v),
             \/ before = "refresh" /\ statement \in {"revokeAll", "rotate"}
             \/ before = "exchange" /\ statement = "useCode"
             \/ before = "confirmReset" /\ statement = "consumeReset"
             \/ before = "verify" /\ statement = "consumeVerify"
             \/ before = "googleComplete" /\ statement = "useIntegrationCode"
      PROVE  Turns(r) /\ Arrives(r)
  <2>1. Open(r) /\ req'[r].at = statement /\ req'[r].do = req[r].do /\ req[r].at = before
    BY <1>3, <1>4 DEF Open, Ended, Ends, At
  <2>2. HasTaken(r)' => HasTaken(r)
    BY <1>4, <2>1 DEF HasTaken, Before, OneUse, Callbacks
  <2> QED
    BY <1>4, <2>1, <2>2, QuietGoOn
<1>5. CASE Refresh(r)
  BY <1>1, <1>4, <1>5 DEF Refresh, Refuse, GoOn, Open, Ended, Ends, At
<1>6. CASE Exchange(r)
  BY <1>1, <1>4, <1>6 DEF Exchange, Refuse, GoOn, Open, Ended, Ends, At
<1>7. CASE ConfirmReset(r)
  BY <1>1, <1>4, <1>7 DEF ConfirmReset, Refuse, GoOn, Open, Ended, Ends, At
<1>8. CASE Verify(r)
  BY <1>1, <1>4, <1>8 DEF Verify, Refuse, GoOn, Open, Ended, Ends, At
<1>9. CASE GoogleComplete(r)
  BY <1>1, <1>4, <1>9 DEF GoogleComplete, Refuse, GoOn, Open, Ended, Ends, At
<1> QED
  BY <1>2, <1>5, <1>6, <1>7, <1>8, <1>9

\* The guess is let through while there are some left.
LEMMA VerifyPhoneReads ==
    ASSUME CredentialInv, NEW r \in Requests, VerifyPhone(r)
    PROVE  Turns(r) /\ Arrives(r)
<1>0. /\ CredentialShape /\ HistoryOK /\ At(r, "verifyPhone") /\ Open(r) /\ req[r].do = "verifyPhone"
      /\ req[r].at \notin EveryBefore
  BY DEF VerifyPhone, CredentialInv, GuessesLeft, Open, Ended, Ends, At, EveryBefore, Callbacks
<1>1. \A statement, v : GoOn(r, statement, v) /\ statement \notin {"new", "logout", "verifyPhone", "bump"} => Turns(r) /\ Arrives(r)
  BY <1>0, QuietGoOn
<1>2. ASSUME NEW c \in Active(req[r].arg.phone), ~Exhausted(c), GoOn(r, "bump", c)
      PROVE  Turns(r) /\ Arrives(r)
  <2>1. /\ req'[r].at = "bump" /\ req'[r].v = c /\ req'[r].do = "verifyPhone" /\ db' = db
        /\ req'[r].arg = req[r].arg
    BY <1>0, <1>2, DoEffect DEF GoOn, Ends
  <2>2. c \in Users /\ db.sms[c].tries < MaxAttempts
    BY <1>0, <1>2, SignUpAssumption DEF Active, Exhausted, CredentialShape
  <2>3. CredentialShape' /\ LinksAreOfAKind' /\ \A k, u : State(k, u)' = State(k, u)
    BY <1>0, <2>1, OtherTables, SameStates
  <2>4. Turns(r)
    BY <2>1, <2>3 DEF Turns
  <2> QED
    BY <2>1, <2>2, <2>4 DEF Arrives, At, CredentialThere, HasTaken, OneUse
<1> QED
  BY <1>1, <1>2 DEF VerifyPhone, Refuse, GoOn

-----------------------------------------------------------------------------
\* Steps that write a table of credentials.

LEMMA TokensWritten ==
    ASSUME CredentialInv, NEW table, db' = [db EXCEPT !.token = table], DOMAIN table = Users,
           \A u \in Users : DOMAIN table[u] = {"state", "user"}
    PROVE  /\ CredentialShape' /\ LinksAreOfAKind' /\ db'.sms = db.sms
           /\ \A u : State("token", u)' = table[u].state
           /\ \A u : \A k \in Kinds \ {"token"} : State(k, u)' = State(k, u)
<1>1. /\ DOMAIN db' = DOMAIN db /\ db'.token = table
      /\ db'.code = db.code /\ db'.link = db.link /\ db'.oauth = db.oauth /\ db'.icode = db.icode /\ db'.sms = db.sms
  BY DEF CredentialInv, CredentialShape, CredentialTables
<1> QED
  BY <1>1 DEF CredentialInv, CredentialShape, LinksAreOfAKind, State, Kinds

LEMMA CodesWritten ==
    ASSUME CredentialInv, NEW table, db' = [db EXCEPT !.code = table], DOMAIN table = Users,
           \A u \in Users : DOMAIN table[u] = {"state", "kind", "login"}
    PROVE  /\ CredentialShape' /\ LinksAreOfAKind' /\ db'.sms = db.sms
           /\ \A u : State("code", u)' = table[u].state
           /\ \A u : \A k \in Kinds \ {"code"} : State(k, u)' = State(k, u)
<1>1. /\ DOMAIN db' = DOMAIN db /\ db'.code = table
      /\ db'.token = db.token /\ db'.link = db.link /\ db'.oauth = db.oauth /\ db'.icode = db.icode /\ db'.sms = db.sms
  BY DEF CredentialInv, CredentialShape, CredentialTables
<1> QED
  BY <1>1 DEF CredentialInv, CredentialShape, LinksAreOfAKind, State, Kinds

LEMMA LinksWritten ==
    ASSUME CredentialInv, NEW table, db' = [db EXCEPT !.link = table], DOMAIN table = Users,
           \A u \in Users : DOMAIN table[u] = {"state", "kind", "owner"},
           \A u \in Users : table[u].kind = "VERIFY" => table[u].state # "none"
    PROVE  /\ CredentialShape' /\ LinksAreOfAKind' /\ db'.sms = db.sms
           /\ \A u : State("link", u)' = table[u].state
           /\ \A u : \A k \in Kinds \ {"link"} : State(k, u)' = State(k, u)
<1>1. /\ DOMAIN db' = DOMAIN db /\ db'.link = table
      /\ db'.token = db.token /\ db'.code = db.code /\ db'.oauth = db.oauth /\ db'.icode = db.icode /\ db'.sms = db.sms
  BY DEF CredentialInv, CredentialShape, CredentialTables
<1> QED
  BY <1>1 DEF CredentialInv, CredentialShape, LinksAreOfAKind, State, Kinds

LEMMA OauthsWritten ==
    ASSUME CredentialInv, NEW table, db' = [db EXCEPT !.oauth = table], DOMAIN table = Users
    PROVE  /\ CredentialShape' /\ LinksAreOfAKind' /\ db'.sms = db.sms
           /\ \A u : State("oauth", u)' = table[u]
           /\ \A u : \A k \in Kinds \ {"oauth"} : State(k, u)' = State(k, u)
<1>1. /\ DOMAIN db' = DOMAIN db /\ db'.oauth = table
      /\ db'.token = db.token /\ db'.code = db.code /\ db'.link = db.link /\ db'.icode = db.icode /\ db'.sms = db.sms
  BY DEF CredentialInv, CredentialShape, CredentialTables
<1> QED
  BY <1>1 DEF CredentialInv, CredentialShape, LinksAreOfAKind, State, Kinds

LEMMA IntegrationCodesWritten ==
    ASSUME CredentialInv, NEW table, db' = [db EXCEPT !.icode = table], DOMAIN table = Users,
           \A u \in Users : DOMAIN table[u] = {"state", "user"}
    PROVE  /\ CredentialShape' /\ LinksAreOfAKind' /\ db'.sms = db.sms
           /\ \A u : State("icode", u)' = table[u].state
           /\ \A u : \A k \in Kinds \ {"icode"} : State(k, u)' = State(k, u)
<1>1. /\ DOMAIN db' = DOMAIN db /\ db'.icode = table
      /\ db'.token = db.token /\ db'.code = db.code /\ db'.link = db.link /\ db'.oauth = db.oauth /\ db'.sms = db.sms
  BY DEF CredentialInv, CredentialShape, CredentialTables
<1> QED
  BY <1>1 DEF CredentialInv, CredentialShape, LinksAreOfAKind, State, Kinds

LEMMA Spends ==
    ASSUME NEW r, NEW k, NEW a, req'[r].do = req[r].do, req'[r].arg = req[r].arg,
           KindOf(req[r].do) = k, NameOf(r) = a, ~IsSpent(k, a), IsSpent(k, a)'
    PROVE  /\ ~IsSpent(KindOf(req[r].do), NameOf(r))
           /\ IsSpent(KindOf(req[r].do), NameOf(r))'
<1>1. KindOf(req[r].do)' = k /\ NameOf(r)' = a
  BY DEF NameOf
<1> QED
  BY <1>1 DEF IsSpent

LEMMA TakesStep ==
    ASSUME CredentialInv, NEW r \in Requests, Open(r), NEW statement, NEW v, NEW tables,
           Do(r, statement, v, tables), statement \notin {"new", "logout", "verifyPhone", "bump"},
           CredentialShape', LinksAreOfAKind', db'.sms = db.sms,
           NEW k \in Kinds,
           \A u : \A j \in Kinds \ {k} : State(j, u)' = State(j, u),
           \A u \in Users :
              \/ State(k, u)' = State(k, u)
              \/ u = r /\ statement \in Ends
              \/ State(k, u) # "none" /\ IsSpent(k, u)',
           HasTaken(r)' /\ ~HasTaken(r) =>
              ~IsSpent(KindOf(req[r].do), NameOf(r)) /\ IsSpent(KindOf(req[r].do), NameOf(r))'
    PROVE  Turns(r) /\ Arrives(r)
<1>1. req'[r].do = req[r].do /\ req'[r].arg = req[r].arg /\ req'[r].at = statement
  BY DoEffect DEF CredentialInv
<1>2. Turns(r)
  BY <1>1 DEF Turns, Ended, At, IsSpent
<1>3. CredentialThere(r)'
  <2>1. NameOf(r)' = NameOf(r) /\ ~At(r, "new") /\ KindOf(req[r].do) \in Kinds
    BY <1>1 DEF NameOf, Open, KindOf, Kinds
  <2> SUFFICES ASSUME req[r].do \in OneUse \cup {"logout"}
      PROVE  NameOf(r) \in Users /\ State(KindOf(req[r].do), NameOf(r))' # "none"
    BY <1>1, <2>1 DEF CredentialThere
  <2>2. NameOf(r) \in Users /\ State(KindOf(req[r].do), NameOf(r)) # "none"
    BY <2>1 DEF CredentialInv, CredentialThere
  <2>3. NameOf(r) # r
    BY <2>1, <2>2 DEF CredentialInv, FreshCredentials, Open
  <2>4. \A u \in Users : \A j \in Kinds : State(j, u) # "none" /\ u # r => State(j, u)' # "none"
    <3> SUFFICES ASSUME NEW u \in Users, NEW j \in Kinds, State(j, u) # "none", u # r PROVE State(j, u)' # "none"
      OBVIOUS
    <3>1. CASE j = k
      BY <3>1 DEF IsSpent
    <3>2. CASE j # k
      BY <3>2
    <3> QED
      BY <3>1, <3>2
  <2> QED
    BY <1>1, <2>1, <2>2, <2>3, <2>4
<1> QED
  BY <1>1, <1>2, <1>3 DEF Arrives, At

LEMMA TokenWrites ==
    ASSUME CredentialInv, NEW r \in Requests, Issue(r) \/ RevokeAll(r) \/ Rotate(r) \/ Logout(r)
    PROVE  Turns(r) /\ Arrives(r)
<1>0. /\ CredentialShape /\ HistoryOK /\ DOMAIN db.token = Users
      /\ \A u \in Users : DOMAIN db.token[u] = {"state", "user"}
      /\ "token" \in Kinds
      /\ \A u : State("token", u) = db.token[u].state
  BY DEF CredentialInv, CredentialShape, Kinds, State
<1>1. \A statement, v, tables :
         Do(r, statement, v, tables) => /\ req'[r].at = statement /\ req'[r].do = req[r].do
                                        /\ req'[r].arg = req[r].arg /\ db' = tables
  BY <1>0, DoEffect
<1>2. CASE Issue(r)
  <2> DEFINE table == [db.token EXCEPT ![r] = [state |-> "live", user |-> req[r].v]]
  <2>1. Do(r, "ok", req[r].v, [db EXCEPT !.token = table]) /\ Open(r) /\ req[r].at = "issue"
    BY <1>2 DEF Issue, End, Open, Ended, Ends, At
  <2>2. DOMAIN table = Users /\ \A u \in Users : DOMAIN table[u] = {"state", "user"} /\ (u # r => table[u] = db.token[u])
    BY <1>0
  <2> HIDE DEF table
  <2>3. /\ CredentialShape' /\ LinksAreOfAKind' /\ db'.sms = db.sms
        /\ \A u : State("token", u)' = table[u].state
        /\ \A u : \A k \in Kinds \ {"token"} : State(k, u)' = State(k, u)
    BY <1>1, <2>1, <2>2, TokensWritten
  <2>4. HasTaken(r)' => HasTaken(r)
    BY <1>1, <2>1 DEF HasTaken, Before, OneUse, Callbacks
  <2>5. \A u \in Users : State("token", u)' = State("token", u) \/ u = r
    BY <1>0, <2>2, <2>3
  <2> QED
    BY <1>0, <2>1, <2>3, <2>4, <2>5, TakesStep DEF Ends
<1>3. CASE RevokeAll(r)
  <2> DEFINE table == EndAll(req[r].v)
             next == IF req[r].do = "refresh" THEN "refused" ELSE "ok"
  <2>1. Do(r, next, req[r].v, [db EXCEPT !.token = table]) /\ Open(r) /\ req[r].at = "revokeAll"
    BY <1>3 DEF RevokeAll, Open, Ended, Ends, At
  <2>2. /\ DOMAIN table = Users
        /\ \A u \in Users : /\ DOMAIN table[u] = {"state", "user"}
                            /\ table[u] = db.token[u] \/ (db.token[u].state = "live" /\ table[u].state = "revoked")
    BY <1>0 DEF EndAll
  <2> HIDE DEF table
  <2>3. /\ CredentialShape' /\ LinksAreOfAKind' /\ db'.sms = db.sms
        /\ \A u : State("token", u)' = table[u].state
        /\ \A u : \A k \in Kinds \ {"token"} : State(k, u)' = State(k, u)
    BY <1>1, <2>1, <2>2, TokensWritten
  <2>4. HasTaken(r)' => HasTaken(r)
    BY <1>1, <2>1 DEF HasTaken, Before, OneUse, Callbacks
  <2>5. \A u \in Users : \/ State("token", u)' = State("token", u)
                         \/ State("token", u) # "none" /\ IsSpent("token", u)'
    BY <1>0, <2>2, <2>3 DEF IsSpent
  <2>6. next \notin {"new", "logout", "verifyPhone", "bump"}
    OBVIOUS
  <2> HIDE DEF next
  <2> QED
    BY <1>0, <2>1, <2>3, <2>4, <2>5, <2>6, TakesStep
<1>4. ASSUME NEW statement, NEW v,
             Do(r, statement, v, [db EXCEPT !.token[req[r].arg].state = "revoked"]),
             \/ At(r, "rotate") /\ statement = "issue" /\ db.token[req[r].arg].state = "live"
             \/ At(r, "logout") /\ statement = "ok"
      PROVE  Turns(r) /\ Arrives(r)
  <2> DEFINE a == req[r].arg
             table == [db.token EXCEPT ![a] = [db.token[a] EXCEPT !.state = "revoked"]]
  <2>1. Do(r, statement, v, [db EXCEPT !.token = table]) /\ Open(r) /\ req[r].at \in {"rotate", "logout"}
    BY <1>4 DEF Open, Ended, Ends, At
  <2>2. /\ DOMAIN table = Users
        /\ \A u \in Users : /\ DOMAIN table[u] = {"state", "user"}
                            /\ u # a => table[u] = db.token[u]
                            /\ u = a => table[u].state = "revoked"
    BY <1>0
  <2>3. a \in Users => db.token[a].state # "none"
    <3>1. CASE At(r, "rotate")
      BY <1>4, <3>1 DEF At
    <3>2. CASE At(r, "logout")
      BY <1>0, <3>2 DEF At, CredentialInv, GuessesLeft, CredentialThere, NameOf, NameIn, KindOf, Callbacks
    <3> QED
      BY <1>4, <3>1, <3>2
  <2> HIDE DEF table
  <2>4. /\ CredentialShape' /\ LinksAreOfAKind' /\ db'.sms = db.sms
        /\ \A u : State("token", u)' = table[u].state
        /\ \A u : \A k \in Kinds \ {"token"} : State(k, u)' = State(k, u)
    BY <1>1, <2>1, <2>2, TokensWritten
  <2>5. \A u \in Users : \/ State("token", u)' = State("token", u)
                         \/ State("token", u) # "none" /\ IsSpent("token", u)'
    BY <1>0, <2>2, <2>3, <2>4 DEF IsSpent
  <2>6. ASSUME HasTaken(r)', ~HasTaken(r)
        PROVE  ~IsSpent(KindOf(req[r].do), NameOf(r)) /\ IsSpent(KindOf(req[r].do), NameOf(r))'
    <3>1. req[r].do = "refresh" /\ At(r, "rotate")
      BY <1>1, <1>4, <2>1, <2>6 DEF HasTaken, Before, OneUse, Callbacks, At
    <3>2. PICK b : b = req[r].arg
      OBVIOUS
    <3>3. KindOf(req[r].do) = "token" /\ NameOf(r) = b
      BY <3>1, <3>2 DEF KindOf, NameOf, NameIn, Callbacks
    <3>4. b \in Users
      BY <3>1, <3>3 DEF CredentialInv, CredentialThere, OneUse, At
    <3>5. ~IsSpent("token", b) /\ IsSpent("token", b)'
      BY <1>0, <1>4, <2>2, <2>4, <3>1, <3>2, <3>4 DEF IsSpent, At
    <3> QED
      BY <1>1, <2>1, <3>3, <3>5, Spends
  <2> QED
    BY <1>0, <1>4, <2>1, <2>4, <2>5, <2>6, TakesStep
<1>5. CASE Rotate(r) /\ ~StillLive(req[r].arg)
  <2>1. GoOn(r, "revokeAll", req[r].v) /\ Open(r) /\ req[r].at = "rotate"
    BY <1>5 DEF Rotate, Open, Ended, Ends, At
  <2>2. HasTaken(r)' => HasTaken(r)
    BY <1>1, <2>1 DEF GoOn, HasTaken, Before, OneUse, Callbacks
  <2> QED
    BY <2>1, <2>2, QuietGoOn
<1>6. CASE Rotate(r) /\ StillLive(req[r].arg)
  BY <1>4, <1>6 DEF Rotate, StillLive
<1>7. CASE Logout(r)
  BY <1>4, <1>7 DEF Logout, End
<1> QED
  BY <1>2, <1>3, <1>5, <1>6, <1>7

LEMMA LinkWrites ==
    ASSUME CredentialInv, NEW r \in Requests,
           \/ LinkRow(r) \/ DropSignup(r)
           \/ ConsumeLink(r, "consumeReset", "setPassword") \/ ConsumeLink(r, "consumeVerify", "emailOwner")
    PROVE  Turns(r) /\ Arrives(r)
<1>0. /\ CredentialShape /\ HistoryOK /\ DOMAIN db.link = Users /\ LinksAreOfAKind
      /\ \A u \in Users : DOMAIN db.link[u] = {"state", "kind", "owner"}
      /\ "link" \in Kinds
      /\ \A u : State("link", u) = db.link[u].state
  BY DEF CredentialInv, CredentialShape, Kinds, State
<1>1. \A statement, v, tables :
         Do(r, statement, v, tables) => /\ req'[r].at = statement /\ req'[r].do = req[r].do
                                        /\ req'[r].arg = req[r].arg /\ db' = tables
  BY <1>0, DoEffect
<1>2. \A v : Open(r) /\ GoOn(r, "refused", v) => Turns(r) /\ Arrives(r)
  BY <1>0, OtherTables, QuietRefuse DEF GoOn
<1>3. CASE LinkRow(r) /\ ~Refuse(r)
  <2> DEFINE v == req[r].v
             table == [t \in Users |->
                         IF t = r THEN [state |-> "open", kind |-> v.kind, owner |-> v.owner]
                         ELSE IF t \in v.old /\ db.link[t].state = "open"
                              THEN [db.link[t] EXCEPT !.state = "gone"] ELSE db.link[t]]
  <2>1. PICK answer \in {"ok", "refused"} : Do(r, answer, v, [db EXCEPT !.link = table])
    BY <1>3 DEF LinkRow
  <2> DEFINE row == [state |-> "open", kind |-> v.kind, owner |-> v.owner]
             gone(u) == [db.link[u] EXCEPT !.state = "gone"]
  <2>2. /\ DOMAIN table = Users
        /\ \A u \in Users : /\ DOMAIN table[u] = {"state", "kind", "owner"}
                            /\ \/ table[u] = db.link[u]
                               \/ u = r /\ table[u].state # "none"
                               \/ db.link[u].state # "none" /\ table[u].state = "gone"
    <3>1. DOMAIN row = {"state", "kind", "owner"} /\ row.state = "open"
      OBVIOUS
    <3>2. \A u \in Users : DOMAIN gone(u) = {"state", "kind", "owner"} /\ gone(u).state = "gone"
      BY <1>0
    <3>3. table = [t \in Users |-> IF t = r THEN row
                                  ELSE IF t \in v.old /\ db.link[t].state = "open" THEN gone(t) ELSE db.link[t]]
      OBVIOUS
    <3> HIDE DEF table, row, gone
    <3> QED
      BY <1>0, <3>1, <3>2, <3>3
  <2>3. \A u \in Users : table[u].kind = "VERIFY" => table[u].state # "none"
    BY <1>0, <2>2 DEF LinksAreOfAKind
  <2> HIDE DEF table, v
  <2>4. /\ CredentialShape' /\ LinksAreOfAKind' /\ db'.sms = db.sms
        /\ \A u : State("link", u)' = table[u].state
        /\ \A u : \A k \in Kinds \ {"link"} : State(k, u)' = State(k, u)
    BY <1>1, <2>1, <2>2, <2>3, LinksWritten
  <2>5. Open(r) /\ req[r].at = "linkRow"
    BY <1>3 DEF LinkRow, Open, Ended, Ends, At
  <2>6. HasTaken(r)' => HasTaken(r)
    BY <1>1, <2>1, <2>5 DEF HasTaken, Before, OneUse, Callbacks
  <2>7. \A u \in Users : \/ State("link", u)' = State("link", u)
                         \/ u = r /\ answer \in Ends
                         \/ State("link", u) # "none" /\ IsSpent("link", u)'
    BY <1>0, <2>1, <2>2, <2>4 DEF IsSpent, Ends
  <2> QED
    BY <1>0, <2>1, <2>4, <2>5, <2>6, <2>7, TakesStep
<1>4. CASE DropSignup(r)
  <2> DEFINE s == req[r].v.id
             table == [t \in Users |-> IF db.link[t].kind = "VERIFY" /\ db.link[t].owner = s
                                       THEN [db.link[t] EXCEPT !.state = "gone"] ELSE db.link[t]]
  <2>1. PICK x : Do(r, "issue", r, [[db EXCEPT !.signup = x] EXCEPT !.link = table])
    BY <1>4 DEF DropSignup
  <2>2. /\ DOMAIN table = Users
        /\ \A u \in Users : /\ DOMAIN table[u] = {"state", "kind", "owner"}
                            /\ \/ table[u] = db.link[u]
                               \/ db.link[u].state # "none" /\ table[u].state = "gone"
    BY <1>0 DEF LinksAreOfAKind
  <2>3. \A u \in Users : table[u].kind = "VERIFY" => table[u].state # "none"
    BY <1>0, <2>2 DEF LinksAreOfAKind
  <2> HIDE DEF table, s
  <2>4. /\ db'.link = table /\ DOMAIN db' = DOMAIN db
        /\ db'.token = db.token /\ db'.code = db.code /\ db'.oauth = db.oauth /\ db'.icode = db.icode /\ db'.sms = db.sms
    <3>1. db' = [[db EXCEPT !.signup = x] EXCEPT !.link = table]
      BY <1>1, <2>1
    <3> QED
      BY <1>0, <3>1 DEF CredentialShape, CredentialTables
  <2>5. /\ CredentialShape' /\ LinksAreOfAKind'
        /\ \A u : State("link", u)' = table[u].state
        /\ \A u : \A k \in Kinds \ {"link"} : State(k, u)' = State(k, u)
    BY <1>0, <2>2, <2>3, <2>4 DEF CredentialShape, LinksAreOfAKind, State, Kinds
  <2>6. Open(r) /\ req[r].at = "dropSignup"
    BY <1>4 DEF DropSignup, Open, Ended, Ends, At
  <2>7. HasTaken(r)' => HasTaken(r)
    BY <1>1, <2>1, <2>6 DEF HasTaken, Before, OneUse, Callbacks
  <2>8. \A u \in Users : \/ State("link", u)' = State("link", u)
                         \/ State("link", u) # "none" /\ IsSpent("link", u)'
    BY <1>0, <2>2, <2>5 DEF IsSpent
  <2> QED
    BY <1>0, <2>1, <2>4, <2>5, <2>6, <2>7, <2>8, TakesStep
<1>5. ASSUME NEW h, NEW before, NEW statement, At(r, before),
             \/ h = "confirmReset" /\ before = "consumeReset" /\ statement = "setPassword"
             \/ h = "verify" /\ before = "consumeVerify" /\ statement = "emailOwner",
             ConsumeLink(r, before, statement), ~Refuse(r)
      PROVE  Turns(r) /\ Arrives(r)
  <2>1. PICK a : a = req[r].arg
    OBVIOUS
  <2> DEFINE table == [db.link EXCEPT ![a] = [db.link[a] EXCEPT !.state = "used"]]
  <2>2. Do(r, statement, req[r].v, [db EXCEPT !.link = table]) /\ db.link[a].state = "open"
    BY <1>5, <2>1 DEF ConsumeLink, LinkOpen
  <2>3. /\ DOMAIN table = Users
        /\ \A u \in Users : /\ DOMAIN table[u] = {"state", "kind", "owner"}
                            /\ u # a => table[u] = db.link[u]
                            /\ u = a => table[u].state = "used"
    BY <1>0
  <2>4. \A u \in Users : table[u].kind = "VERIFY" => table[u].state # "none"
    BY <1>0, <2>3 DEF LinksAreOfAKind
  <2> HIDE DEF table
  <2>5. /\ CredentialShape' /\ LinksAreOfAKind' /\ db'.sms = db.sms
        /\ \A u : State("link", u)' = table[u].state
        /\ \A u : \A k \in Kinds \ {"link"} : State(k, u)' = State(k, u)
    BY <1>1, <2>2, <2>3, <2>4, LinksWritten
  <2>6. Open(r) /\ req[r].at = before /\ req'[r].at = statement /\ req'[r].do = req[r].do /\ req'[r].arg = req[r].arg
    BY <1>1, <1>5, <2>2 DEF Open, Ended, Ends, At
  <2>7. \A u \in Users : \/ State("link", u)' = State("link", u)
                         \/ State("link", u) # "none" /\ IsSpent("link", u)'
    BY <1>0, <2>2, <2>3, <2>5 DEF IsSpent
  <2>8. ASSUME HasTaken(r)', ~HasTaken(r)
        PROVE  ~IsSpent(KindOf(req[r].do), NameOf(r)) /\ IsSpent(KindOf(req[r].do), NameOf(r))'
    <3>1. req[r].do = h
      BY <1>5, <2>6, <2>8 DEF HasTaken, Before, OneUse, Callbacks
    <3>2. KindOf(req[r].do) = "link" /\ NameOf(r) = a
      BY <1>5, <2>1, <3>1 DEF KindOf, NameOf, NameIn, Callbacks
    <3>3. a \in Users
      BY <1>5, <3>1, <3>2 DEF CredentialInv, CredentialThere, OneUse, At
    <3>4. ~IsSpent("link", a) /\ IsSpent("link", a)'
      BY <1>0, <2>2, <2>3, <2>5, <3>3 DEF IsSpent
    <3> QED
      BY <2>6, <3>2, <3>4, Spends
  <2> QED
    BY <1>0, <1>5, <2>2, <2>5, <2>6, <2>7, <2>8, TakesStep
<1>6. CASE Refuse(r) /\ Open(r)
  BY <1>2, <1>6 DEF Refuse, GoOn
<1>7. Open(r)
  BY DEF LinkRow, DropSignup, ConsumeLink, Open, Ended, Ends, At
<1>8. CASE ConsumeLink(r, "consumeReset", "setPassword") /\ ~Refuse(r)
  BY <1>5, <1>8 DEF ConsumeLink
<1>9. CASE ConsumeLink(r, "consumeVerify", "emailOwner") /\ ~Refuse(r)
  BY <1>5, <1>9 DEF ConsumeLink
<1> QED
  BY <1>3, <1>4, <1>6, <1>7, <1>8, <1>9

LEMMA OauthWrites ==
    ASSUME CredentialInv, NEW r \in Requests,
           OauthStart(r) \/ GoogleConnect(r) \/ OauthCallback(r) \/ AppleCallback(r) \/ GoogleCallback(r)
    PROVE  Turns(r) /\ Arrives(r)
<1>0. /\ CredentialShape /\ HistoryOK /\ DOMAIN db.oauth = Users
      /\ "oauth" \in Kinds
      /\ \A u : State("oauth", u) = db.oauth[u]
  BY DEF CredentialInv, CredentialShape, Kinds, State
<1>1. \A statement, v, tables :
         Do(r, statement, v, tables) => /\ req'[r].at = statement /\ req'[r].do = req[r].do
                                        /\ req'[r].arg = req[r].arg /\ db' = tables
  BY <1>0, DoEffect
<1>2. \A v : Open(r) /\ GoOn(r, "refused", v) => Turns(r) /\ Arrives(r)
  BY <1>0, OtherTables, QuietRefuse DEF GoOn
<1>3. Open(r)
  BY DEF OauthStart, GoogleConnect, OauthCallback, AppleCallback, TakeState, GoogleCallback, Open, Ended, Ends, At
<1>4. CASE OauthStart(r) \/ GoogleConnect(r)
  <2> DEFINE table == [db.oauth EXCEPT ![r] = "open"]
  <2>1. /\ req[r].at \in {"oauthStart", "googleConnect"}
        /\ \/ Do(r, "ok", req[r].v, [db EXCEPT !.oauth = table])
           \/ \E x : Do(r, "ok", req[r].v, [[db EXCEPT !.oauth = table] EXCEPT !.asked = x])
    BY <1>4 DEF OauthStart, GoogleConnect, End, At
  <2>2. DOMAIN table = Users /\ \A u \in Users : u # r => table[u] = db.oauth[u]
    BY <1>0
  <2> HIDE DEF table
  <2>3. PICK tables : /\ Do(r, "ok", req[r].v, tables)
                      /\ tables = [db EXCEPT !.oauth = table] \/ \E x : tables = [[db EXCEPT !.oauth = table] EXCEPT !.asked = x]
    BY <2>1
  <2>4. /\ db'.oauth = table /\ DOMAIN db' = DOMAIN db
        /\ db'.token = db.token /\ db'.code = db.code /\ db'.link = db.link /\ db'.icode = db.icode /\ db'.sms = db.sms
    <3>1. db' = tables
      BY <1>1, <2>3
    <3>2. CASE tables = [db EXCEPT !.oauth = table]
      BY <1>0, <3>1, <3>2 DEF CredentialShape, CredentialTables
    <3>3. ASSUME NEW x, tables = [[db EXCEPT !.oauth = table] EXCEPT !.asked = x]
          PROVE  /\ db'.oauth = table /\ DOMAIN db' = DOMAIN db
                 /\ db'.token = db.token /\ db'.code = db.code /\ db'.link = db.link /\ db'.icode = db.icode /\ db'.sms = db.sms
      BY <1>0, <3>1, <3>3 DEF CredentialShape, CredentialTables
    <3> QED
      BY <2>3, <3>2, <3>3
  <2>5. /\ CredentialShape' /\ LinksAreOfAKind'
        /\ \A u : State("oauth", u)' = table[u]
        /\ \A u : \A k \in Kinds \ {"oauth"} : State(k, u)' = State(k, u)
    BY <1>0, <2>2, <2>4 DEF CredentialInv, CredentialShape, LinksAreOfAKind, State, Kinds
  <2>6. HasTaken(r)' => HasTaken(r)
    BY <1>1, <2>1, <2>3 DEF HasTaken, Before, OneUse, Callbacks
  <2>7. \A u \in Users : State("oauth", u)' = State("oauth", u) \/ u = r
    BY <1>0, <2>2, <2>5
  <2> QED
    BY <1>0, <1>3, <2>3, <2>4, <2>5, <2>6, <2>7, TakesStep DEF Ends
<1>5. ASSUME NEW h \in Callbacks, At(r, h), NEW next \in {"mint", "googleCode", "refused"}, NEW v,
             db.oauth[req[r].arg.state] = "open",
             Do(r, next, v, [db EXCEPT !.oauth[req[r].arg.state] = "gone"])
      PROVE  Turns(r) /\ Arrives(r)
  <2>1. PICK a : a = req[r].arg.state
    OBVIOUS
  <2> DEFINE table == [db.oauth EXCEPT ![a] = "gone"]
  <2>2. Do(r, next, v, [db EXCEPT !.oauth = table]) /\ db.oauth[a] = "open"
    BY <1>5, <2>1
  <2>3. DOMAIN table = Users /\ \A u \in Users : (u # a => table[u] = db.oauth[u]) /\ (u = a => table[u] = "gone")
    BY <1>0
  <2> HIDE DEF table
  <2>4. /\ CredentialShape' /\ LinksAreOfAKind' /\ db'.sms = db.sms
        /\ \A u : State("oauth", u)' = table[u]
        /\ \A u : \A k \in Kinds \ {"oauth"} : State(k, u)' = State(k, u)
    BY <1>1, <2>2, <2>3, OauthsWritten
  <2>5. req[r].at = h /\ req'[r].at = next /\ req'[r].do = req[r].do /\ req'[r].arg = req[r].arg
    BY <1>1, <1>5, <2>2 DEF At
  <2>6. \A u \in Users : \/ State("oauth", u)' = State("oauth", u)
                         \/ State("oauth", u) # "none" /\ IsSpent("oauth", u)'
    BY <1>0, <2>2, <2>3, <2>4 DEF IsSpent
  <2>7. ASSUME HasTaken(r)', ~HasTaken(r)
        PROVE  ~IsSpent(KindOf(req[r].do), NameOf(r)) /\ IsSpent(KindOf(req[r].do), NameOf(r))'
    <3>1. req[r].do = h
      BY <1>5, <2>5, <2>7 DEF HasTaken, Before, OneUse, Callbacks
    <3>2. KindOf(req[r].do) = "oauth" /\ NameOf(r) = a
      BY <1>5, <2>1, <3>1 DEF KindOf, NameOf, NameIn, Callbacks
    <3>3. a \in Users
      BY <1>5, <3>1, <3>2 DEF CredentialInv, CredentialThere, OneUse, Callbacks, At
    <3>4. ~IsSpent("oauth", a) /\ IsSpent("oauth", a)'
      BY <1>0, <2>2, <2>3, <2>4, <3>3 DEF IsSpent
    <3> QED
      BY <2>5, <3>2, <3>4, Spends
  <2> QED
    BY <1>0, <1>3, <2>2, <2>4, <2>6, <2>7, TakesStep
<1>6. CASE Refuse(r)
  BY <1>2, <1>3, <1>6 DEF Refuse, GoOn
<1>7. CASE OauthCallback(r) /\ ~Refuse(r)
  BY <1>5, <1>7 DEF OauthCallback, TakeState, Callbacks
<1>8. CASE AppleCallback(r) /\ ~Refuse(r)
  BY <1>5, <1>8 DEF AppleCallback, TakeState, Callbacks
<1>9. CASE GoogleCallback(r) /\ ~Refuse(r)
  BY <1>5, <1>9 DEF GoogleCallback, Callbacks
<1> QED
  BY <1>4, <1>6, <1>7, <1>8, <1>9

LEMMA CodeWrites ==
    ASSUME CredentialInv, NEW r \in Requests, MintCode(r) \/ UseCode(r)
    PROVE  Turns(r) /\ Arrives(r)
<1>0. /\ CredentialShape /\ HistoryOK /\ DOMAIN db.code = Users
      /\ \A u \in Users : DOMAIN db.code[u] = {"state", "kind", "login"}
      /\ "code" \in Kinds
      /\ \A u : State("code", u) = db.code[u].state
  BY DEF CredentialInv, CredentialShape, Kinds, State
<1>1. \A statement, v, tables :
         Do(r, statement, v, tables) => /\ req'[r].at = statement /\ req'[r].do = req[r].do
                                        /\ req'[r].arg = req[r].arg /\ db' = tables
  BY <1>0, DoEffect
<1>2. \A v : Open(r) /\ GoOn(r, "refused", v) => Turns(r) /\ Arrives(r)
  BY <1>0, OtherTables, QuietRefuse DEF GoOn
<1>3. Open(r)
  BY DEF MintCode, UseCode, Open, Ended, Ends, At
<1>4. CASE MintCode(r) /\ ~Refuse(r)
  <2> DEFINE row == [state |-> "open", kind |-> req[r].arg.kind, login |-> req[r].arg.login]
             table == [db.code EXCEPT ![r] = row]
  <2>1. req[r].at = "mint" /\ Do(r, "ok", req[r].v, [db EXCEPT !.code = table])
    BY <1>4 DEF MintCode, End, At
  <2>2. DOMAIN row = {"state", "kind", "login"}
    OBVIOUS
  <2> HIDE DEF row
  <2>3. DOMAIN table = Users /\ \A u \in Users : DOMAIN table[u] = {"state", "kind", "login"} /\ (u # r => table[u] = db.code[u])
    BY <1>0, <2>2
  <2> HIDE DEF table
  <2>4. /\ CredentialShape' /\ LinksAreOfAKind' /\ db'.sms = db.sms
        /\ \A u : State("code", u)' = table[u].state
        /\ \A u : \A k \in Kinds \ {"code"} : State(k, u)' = State(k, u)
    BY <1>1, <2>1, <2>3, CodesWritten
  <2>5. HasTaken(r)' => HasTaken(r)
    BY <1>1, <2>1 DEF HasTaken, Before, OneUse, Callbacks
  <2>6. \A u \in Users : State("code", u)' = State("code", u) \/ u = r
    BY <1>0, <2>3, <2>4
  <2> QED
    BY <1>0, <1>3, <2>1, <2>4, <2>5, <2>6, TakesStep DEF Ends
<1>5. CASE UseCode(r) /\ ~Refuse(r)
  <2>1. PICK a : a = req[r].arg
    OBVIOUS
  <2> DEFINE table == [db.code EXCEPT ![a] = [db.code[a] EXCEPT !.state = "used"]]
  <2>2. /\ req[r].at = "useCode" /\ db.code[a].state = "open"
        /\ \E v : \E next \in {"findIdentity", "oauthIdentity"} : Do(r, next, v, [db EXCEPT !.code = table])
    BY <1>5, <2>1 DEF UseCode, CodeUnused, At
  <2>3. PICK next, v : next \in {"findIdentity", "oauthIdentity"} /\ Do(r, next, v, [db EXCEPT !.code = table])
    BY <2>2
  <2>4. /\ DOMAIN table = Users
        /\ \A u \in Users : /\ DOMAIN table[u] = {"state", "kind", "login"}
                            /\ u # a => table[u] = db.code[u]
                            /\ u = a => table[u].state = "used"
    BY <1>0
  <2> HIDE DEF table
  <2>5. /\ CredentialShape' /\ LinksAreOfAKind' /\ db'.sms = db.sms
        /\ \A u : State("code", u)' = table[u].state
        /\ \A u : \A k \in Kinds \ {"code"} : State(k, u)' = State(k, u)
    BY <1>1, <2>3, <2>4, CodesWritten
  <2>6. req'[r].at = next /\ req'[r].do = req[r].do /\ req'[r].arg = req[r].arg
    BY <1>1, <2>3
  <2>7. \A u \in Users : \/ State("code", u)' = State("code", u)
                         \/ State("code", u) # "none" /\ IsSpent("code", u)'
    BY <1>0, <2>2, <2>4, <2>5 DEF IsSpent
  <2>8. ASSUME HasTaken(r)', ~HasTaken(r)
        PROVE  ~IsSpent(KindOf(req[r].do), NameOf(r)) /\ IsSpent(KindOf(req[r].do), NameOf(r))'
    <3>1. req[r].do = "exchange"
      BY <2>2, <2>6, <2>8 DEF HasTaken, Before, OneUse, Callbacks
    <3>2. KindOf(req[r].do) = "code" /\ NameOf(r) = a
      BY <2>1, <3>1 DEF KindOf, NameOf, NameIn, Callbacks
    <3>3. a \in Users
      BY <2>2, <3>1, <3>2 DEF CredentialInv, CredentialThere, OneUse, At
    <3>4. ~IsSpent("code", a) /\ IsSpent("code", a)'
      BY <1>0, <2>2, <2>4, <2>5, <3>3 DEF IsSpent
    <3> QED
      BY <2>6, <3>2, <3>4, Spends
  <2> QED
    BY <1>0, <1>3, <2>3, <2>5, <2>7, <2>8, TakesStep
<1>6. CASE Refuse(r)
  BY <1>2, <1>3, <1>6 DEF Refuse, GoOn
<1> QED
  BY <1>4, <1>5, <1>6

LEMMA IntegrationCodeWrites ==
    ASSUME CredentialInv, NEW r \in Requests, GoogleCode(r) \/ UseIntegrationCode(r)
    PROVE  Turns(r) /\ Arrives(r)
<1>0. /\ CredentialShape /\ HistoryOK /\ DOMAIN db.icode = Users
      /\ \A u \in Users : DOMAIN db.icode[u] = {"state", "user"}
      /\ "icode" \in Kinds
      /\ \A u : State("icode", u) = db.icode[u].state
  BY DEF CredentialInv, CredentialShape, Kinds, State
<1>1. \A statement, v, tables :
         Do(r, statement, v, tables) => /\ req'[r].at = statement /\ req'[r].do = req[r].do
                                        /\ req'[r].arg = req[r].arg /\ db' = tables
  BY <1>0, DoEffect
<1>2. \A v : Open(r) /\ GoOn(r, "refused", v) => Turns(r) /\ Arrives(r)
  BY <1>0, OtherTables, QuietRefuse DEF GoOn
<1>3. Open(r)
  BY DEF GoogleCode, UseIntegrationCode, Open, Ended, Ends, At
<1>4. CASE GoogleCode(r) /\ ~Refuse(r)
  <2> DEFINE row == [state |-> "open", user |-> req[r].v]
             table == [db.icode EXCEPT ![r] = row]
  <2>1. req[r].at = "googleCode" /\ Do(r, "ok", req[r].v, [db EXCEPT !.icode = table])
    BY <1>4 DEF GoogleCode, End, At
  <2>2. DOMAIN row = {"state", "user"}
    OBVIOUS
  <2> HIDE DEF row
  <2>3. DOMAIN table = Users /\ \A u \in Users : DOMAIN table[u] = {"state", "user"} /\ (u # r => table[u] = db.icode[u])
    BY <1>0, <2>2
  <2> HIDE DEF table
  <2>4. /\ CredentialShape' /\ LinksAreOfAKind' /\ db'.sms = db.sms
        /\ \A u : State("icode", u)' = table[u].state
        /\ \A u : \A k \in Kinds \ {"icode"} : State(k, u)' = State(k, u)
    BY <1>1, <2>1, <2>3, IntegrationCodesWritten
  <2>5. HasTaken(r)' => HasTaken(r)
    BY <1>1, <2>1 DEF HasTaken, Before, OneUse, Callbacks
  <2>6. \A u \in Users : State("icode", u)' = State("icode", u) \/ u = r
    BY <1>0, <2>3, <2>4
  <2> QED
    BY <1>0, <1>3, <2>1, <2>4, <2>5, <2>6, TakesStep DEF Ends
<1>5. CASE UseIntegrationCode(r) /\ ~Refuse(r)
  <2>1. PICK a : a = req[r].arg.code
    OBVIOUS
  <2> DEFINE table == [db.icode EXCEPT ![a] = [db.icode[a] EXCEPT !.state = "used"]]
  <2>2. /\ req[r].at = "useIntegrationCode" /\ db.icode[a].state = "open"
        /\ \E v : \E next \in {"connection"} : Do(r, next, v, [db EXCEPT !.icode = table])
    BY <1>5, <2>1 DEF UseIntegrationCode, IntegrationCodeUnused, At
  <2>3. PICK next, v : next \in {"connection"} /\ Do(r, next, v, [db EXCEPT !.icode = table])
    BY <2>2
  <2>4. /\ DOMAIN table = Users
        /\ \A u \in Users : /\ DOMAIN table[u] = {"state", "user"}
                            /\ u # a => table[u] = db.icode[u]
                            /\ u = a => table[u].state = "used"
    BY <1>0
  <2> HIDE DEF table
  <2>5. /\ CredentialShape' /\ LinksAreOfAKind' /\ db'.sms = db.sms
        /\ \A u : State("icode", u)' = table[u].state
        /\ \A u : \A k \in Kinds \ {"icode"} : State(k, u)' = State(k, u)
    BY <1>1, <2>3, <2>4, IntegrationCodesWritten
  <2>6. req'[r].at = next /\ req'[r].do = req[r].do /\ req'[r].arg = req[r].arg
    BY <1>1, <2>3
  <2>7. \A u \in Users : \/ State("icode", u)' = State("icode", u)
                         \/ State("icode", u) # "none" /\ IsSpent("icode", u)'
    BY <1>0, <2>2, <2>4, <2>5 DEF IsSpent
  <2>8. ASSUME HasTaken(r)', ~HasTaken(r)
        PROVE  ~IsSpent(KindOf(req[r].do), NameOf(r)) /\ IsSpent(KindOf(req[r].do), NameOf(r))'
    <3>1. req[r].do = "googleComplete"
      BY <2>2, <2>6, <2>8 DEF HasTaken, Before, OneUse, Callbacks
    <3>2. KindOf(req[r].do) = "icode" /\ NameOf(r) = a
      BY <2>1, <3>1 DEF KindOf, NameOf, NameIn, Callbacks
    <3>3. a \in Users
      BY <2>2, <3>1, <3>2 DEF CredentialInv, CredentialThere, OneUse, At
    <3>4. ~IsSpent("icode", a) /\ IsSpent("icode", a)'
      BY <1>0, <2>2, <2>4, <2>5, <3>3 DEF IsSpent
    <3> QED
      BY <2>6, <3>2, <3>4, Spends
  <2> QED
    BY <1>0, <1>3, <2>3, <2>5, <2>7, <2>8, TakesStep
<1>6. CASE Refuse(r)
  BY <1>2, <1>3, <1>6 DEF Refuse, GoOn
<1> QED
  BY <1>4, <1>5, <1>6

LEMMA GuessWrites ==
    ASSUME CredentialInv, NEW r \in Requests, ConsumeOpen(r) \/ InsertCode(r) \/ Bump(r) \/ ConsumeCode(r)
    PROVE  Turns(r) /\ Arrives(r)
<1>0. /\ CredentialShape /\ HistoryOK /\ DOMAIN db.sms = Users
      /\ \A u \in Users : DOMAIN db.sms[u] = {"state", "phone", "tries"} /\ db.sms[u].tries \in Nat
  BY DEF CredentialInv, CredentialShape
<1>1. ASSUME NEW statement, NEW v, NEW table, Do(r, statement, v, [db EXCEPT !.sms = table]), Open(r),
             req[r].at \notin EveryBefore, statement \notin {"new", "logout", "verifyPhone", "bump"},
             DOMAIN table = Users,
             \A c \in Users : /\ DOMAIN table[c] = {"state", "phone", "tries"} /\ table[c].tries \in Nat
                              /\ \/ table[c].tries = db.sms[c].tries
                                 \/ table[c].tries = 0
                                 \/ At(r, "bump") /\ c = req[r].v /\ table[c].tries = db.sms[c].tries + 1
      PROVE  Turns(r) /\ Arrives(r)
  <2>1. /\ req'[r].at = statement /\ req'[r].do = req[r].do /\ req'[r].arg = req[r].arg
        /\ db' = [db EXCEPT !.sms = table]
    BY <1>0, <1>1, DoEffect
  <2>2. /\ db'.sms = table /\ DOMAIN db' = DOMAIN db
        /\ db'.token = db.token /\ db'.code = db.code /\ db'.link = db.link /\ db'.oauth = db.oauth /\ db'.icode = db.icode
    BY <1>0, <2>1 DEF CredentialShape, CredentialTables
  <2>3. CredentialShape' /\ LinksAreOfAKind' /\ \A k, u : State(k, u)' = State(k, u)
    BY <1>1, <2>2 DEF CredentialInv, CredentialShape, LinksAreOfAKind, State
  <2>4. Turns(r)
    BY <1>1, <2>2, <2>3 DEF Turns
  <2>5. HasTaken(r)' => HasTaken(r)
    BY <1>1, <2>1 DEF HasTaken, Before, EveryBefore, OneUse, Callbacks, Open, Ended, Ends, At
  <2>6. CredentialThere(r)'
    <3>1. NameOf(r)' = NameOf(r) /\ ~At(r, "new")
      BY <1>1, <2>1 DEF NameOf, Open
    <3> QED
      BY <2>1, <2>3, <3>1 DEF CredentialInv, CredentialThere
  <2> QED
    BY <1>1, <2>1, <2>4, <2>5, <2>6 DEF Arrives, At
<1>2. CASE ConsumeOpen(r)
  <2> DEFINE table == [c \in Users |-> IF db.sms[c].phone = req[r].arg
                                       THEN [db.sms[c] EXCEPT !.state = "consumed"] ELSE db.sms[c]]
  <2>1. Do(r, "insertCode", Nil, [db EXCEPT !.sms = table]) /\ Open(r) /\ req[r].at \notin EveryBefore
    BY <1>2 DEF ConsumeOpen, Open, Ended, Ends, At, EveryBefore, Callbacks
  <2>2. DOMAIN table = Users /\ \A c \in Users : /\ DOMAIN table[c] = {"state", "phone", "tries"}
                                                 /\ table[c].tries = db.sms[c].tries
    BY <1>0
  <2> HIDE DEF table
  <2> QED
    BY <1>0, <1>1, <2>1, <2>2
<1>3. CASE InsertCode(r)
  <2> DEFINE row == [state |-> "open", phone |-> req[r].arg, tries |-> 0]
             table == [db.sms EXCEPT ![r] = row]
  <2>1. PICK answer \in {"ok", "refused"} : Do(r, answer, Nil, [db EXCEPT !.sms = table])
    BY <1>3 DEF InsertCode
  <2>2. Open(r) /\ req[r].at \notin EveryBefore
    BY <1>3 DEF InsertCode, Open, Ended, Ends, At, EveryBefore, Callbacks
  <2>3. DOMAIN row = {"state", "phone", "tries"} /\ row.tries = 0
    OBVIOUS
  <2> HIDE DEF row
  <2>4. DOMAIN table = Users /\ \A c \in Users : /\ DOMAIN table[c] = {"state", "phone", "tries"}
                                                 /\ table[c].tries \in {db.sms[c].tries, 0}
    BY <1>0, <2>3
  <2> HIDE DEF table
  <2> QED
    BY <1>0, <1>1, <2>1, <2>2, <2>4
<1>4. CASE Bump(r)
  <2>1. PICK a : a = req[r].v
    OBVIOUS
  <2> DEFINE row == [db.sms[a] EXCEPT !.tries = db.sms[a].tries + 1]
             table == [db.sms EXCEPT ![a] = row]
  <2>2. /\ Do(r, "refused", req[r].v, [db EXCEPT !.sms = table]) /\ Open(r) /\ req[r].at \notin EveryBefore
        /\ At(r, "bump")
    BY <1>4, <2>1 DEF Bump, Open, Ended, Ends, At, EveryBefore, Callbacks
  <2>3. a \in Users => DOMAIN row = {"state", "phone", "tries"} /\ row.tries = db.sms[a].tries + 1
    BY <1>0
  <2> HIDE DEF row
  <2>4. DOMAIN table = Users
        /\ \A c \in Users : /\ DOMAIN table[c] = {"state", "phone", "tries"} /\ table[c].tries \in Nat
                            /\ table[c].tries = db.sms[c].tries \/ (c = a /\ table[c].tries = db.sms[c].tries + 1)
    BY <1>0, <2>3
  <2> HIDE DEF table
  <2> QED
    BY <1>1, <2>1, <2>2, <2>4
<1>5. CASE ConsumeCode(r)
  <2> DEFINE table == [db.sms EXCEPT ![req[r].v] = [db.sms[req[r].v] EXCEPT !.state = "consumed"]]
             next == IF At(r, "expireCode") THEN "refused" ELSE "owner"
  <2>1. Do(r, next, req[r].v, [db EXCEPT !.sms = table]) /\ Open(r) /\ req[r].at \notin EveryBefore
    BY <1>5 DEF ConsumeCode, Open, Ended, Ends, At, EveryBefore, Callbacks
  <2>2. DOMAIN table = Users /\ \A c \in Users : /\ DOMAIN table[c] = {"state", "phone", "tries"}
                                                 /\ table[c].tries = db.sms[c].tries
    BY <1>0
  <2>3. next \notin {"new", "logout", "verifyPhone", "bump"}
    OBVIOUS
  <2> HIDE DEF table, next
  <2> QED
    BY <1>0, <1>1, <2>1, <2>2, <2>3
<1> QED
  BY <1>2, <1>3, <1>4, <1>5

-----------------------------------------------------------------------------
\* A request begins with a credential there is.
LEMMA BeginTurns ==
    ASSUME CredentialInv, NEW r \in Requests, NEW h \in CredentialHandlers, NEW arg, Begin(r, h, arg),
           h \in OneUse \cup {"logout"} =>
              NameIn(h, arg) \in Users /\ State(KindOf(h), NameIn(h, arg)) # "none"
    PROVE  Turns(r) /\ Arrives(r)
<1>0. CredentialShape /\ HistoryOK
  BY DEF CredentialInv
<1>1. req'[r].do = h /\ req'[r].at = h /\ req'[r].arg = arg /\ db' = db
  BY <1>0, BeginRequest, BeginEffect
<1>2. CredentialShape' /\ LinksAreOfAKind' /\ \A k, u : State(k, u)' = State(k, u)
  BY <1>0, <1>1, SameStates, OtherTables
<1>3. Turns(r)
  BY <1>1, <1>2 DEF Turns
<1>4. h \notin {"new", "bump"}
  BY DEF CredentialHandlers, OneUse
<1>5. ~HasTaken(r)'
  BY <1>1 DEF HasTaken, Before, OneUse
<1>6. NameOf(r)' = NameIn(h, arg)
  BY <1>1 DEF NameOf, NameIn
<1>7. CredentialThere(r)'
  BY <1>1, <1>2, <1>6 DEF CredentialThere
<1> QED
  BY <1>1, <1>3, <1>4, <1>5, <1>7 DEF Arrives, At

LEMMA ArrivalTurns ==
    ASSUME CredentialInv, NEW r \in Requests,
           ArriveSession(r) \/ ArriveSignUp(r) \/ ArriveCompany(r) \/ ArriveGoogle(r)
    PROVE  Turns(r) /\ Arrives(r)
<1>1. \A h, arg : h \in CredentialHandlers \ (OneUse \cup {"logout"}) /\ Begin(r, h, arg) => Turns(r) /\ Arrives(r)
  BY BeginTurns
<1>2. /\ {"login", "requestReset", "oauthStart", "appleNative", "sendPhone", "verifyPhone", "signup",
          "deleteAccount", "verifyBusiness", "acceptInvite", "removeMember", "transferAdmin", "invite",
          "googleConnect", "googleDisconnect", "googleSync"} \subseteq CredentialHandlers \ (OneUse \cup {"logout"})
      /\ {"refresh", "logout", "confirmReset", "oauthCallback", "appleCallback", "exchange", "verify",
          "googleComplete", "googleCallback"} \subseteq CredentialHandlers
  BY DEF CredentialHandlers, OneUse
<1>3. ASSUME NEW h \in {"refresh", "logout"}, NEW t \in Users, db.token[t].state # "none", Begin(r, h, t)
      PROVE  Turns(r) /\ Arrives(r)
  <2>1. NameIn(h, t) = t /\ KindOf(h) = "token"
    BY DEF NameIn, KindOf, Callbacks
  <2> QED
    BY <1>2, <1>3, <2>1, BeginTurns DEF State
<1>4. ASSUME NEW h \in {"confirmReset", "verify"}, NEW l \in Users, db.link[l].state # "none", Begin(r, h, l)
      PROVE  Turns(r) /\ Arrives(r)
  <2>1. NameIn(h, l) = l /\ KindOf(h) = "link"
    BY DEF NameIn, KindOf, Callbacks
  <2> QED
    BY <1>2, <1>4, <2>1, BeginTurns DEF State
<1>5. ASSUME NEW h \in Callbacks, NEW s \in Users, db.oauth[s] # "none", NEW arg, arg.state = s, Begin(r, h, arg)
      PROVE  Turns(r) /\ Arrives(r)
  <2>1. NameIn(h, arg) = s /\ KindOf(h) = "oauth"
    BY <1>5 DEF NameIn, KindOf, Callbacks
  <2> QED
    BY <1>2, <1>5, <2>1, BeginTurns DEF State, Callbacks
<1>6. ASSUME NEW c \in Users, db.code[c].state # "none", Begin(r, "exchange", c) PROVE Turns(r) /\ Arrives(r)
  <2>1. NameIn("exchange", c) = c /\ KindOf("exchange") = "code"
    BY DEF NameIn, KindOf, Callbacks
  <2> QED
    BY <1>2, <1>6, <2>1, BeginTurns DEF State
<1>7. ASSUME NEW i \in Users, NEW u, db.icode[i].state # "none", Begin(r, "googleComplete", [by |-> u, code |-> i])
      PROVE  Turns(r) /\ Arrives(r)
  <2>1. NameIn("googleComplete", [by |-> u, code |-> i]) = i /\ KindOf("googleComplete") = "icode"
    BY DEF NameIn, KindOf, Callbacks
  <2> QED
    BY <1>2, <1>7, <2>1, BeginTurns DEF State
<1>8. CASE ArriveSession(r)
  <2>1. ASSUME NEW s \in Users, NEW l, NEW k, db.oauth[s] # "none", NEW h \in {"oauthCallback", "appleCallback"},
               Begin(r, h, [state |-> s, login |-> l, kind |-> k])
        PROVE  Turns(r) /\ Arrives(r)
    BY <1>5, <2>1 DEF Callbacks
  <2> QED
    BY <1>1, <1>2, <1>3, <1>4, <1>6, <1>8, <2>1 DEF ArriveSession
<1>9. CASE ArriveSignUp(r)
  BY <1>1, <1>2, <1>4, <1>9 DEF ArriveSignUp
<1>10. CASE ArriveCompany(r)
  BY <1>1, <1>2, <1>10 DEF ArriveCompany
<1>11. CASE ArriveGoogle(r)
  <2>1. ASSUME NEW s \in Users, db.oauth[s] # "none", Begin(r, "googleCallback", [state |-> s])
        PROVE  Turns(r) /\ Arrives(r)
    BY <1>5, <2>1 DEF Callbacks
  <2> QED
    BY <1>1, <1>2, <1>7, <1>11, <2>1 DEF ArriveGoogle
<1> QED
  BY <1>8, <1>9, <1>10, <1>11

LEMMA CredentialTurns ==
    ASSUME CredentialInv, NEW r \in Requests, CredentialMove(r)
    PROVE  Turns(r) /\ Arrives(r)
<1>1. CASE ArriveSession(r) \/ ArriveSignUp(r) \/ ArriveCompany(r) \/ ArriveGoogle(r)
  BY <1>1, ArrivalTurns
<1>2. CASE SessionStep(r) /\ ~ArriveSession(r)
  BY <1>2, QuietSessions, CredentialReads, TokenWrites, LinkWrites, OauthWrites, CodeWrites DEF SessionStep
<1>3. CASE SignUpStep(r) /\ ~ArriveSignUp(r)
  BY <1>3, QuietSignUps, CredentialReads, VerifyPhoneReads, LinkWrites, GuessWrites DEF SignUpStep
<1>4. CASE CompanyStep(r) /\ ~ArriveCompany(r)
  BY <1>4, QuietCompanies
<1>5. CASE GoogleStep(r) /\ ~ArriveGoogle(r)
  BY <1>5, QuietGoogles, CredentialReads, OauthWrites, IntegrationCodeWrites DEF GoogleStep
<1>6. CASE Killed(r)
  BY <1>6, CredentialReads
<1> QED
  BY <1>1, <1>2, <1>3, <1>4, <1>5, <1>6 DEF CredentialMove

\* What happens at Google, or nothing at all, leaves every credential as it was.
LEMMA CredentialsRest ==
    ASSUME CredentialInv, SameCredentials(db'), UNCHANGED <<req, prior>>
    PROVE  CredentialInv'
<1>1. CredentialShape' /\ LinksAreOfAKind' /\ (\A k, u : State(k, u)' = State(k, u)) /\ db'.sms = db.sms
  BY SameStates DEF SameCredentials
<1>2. HistoryOK' /\ FreshCredentials'
  BY <1>1 DEF CredentialInv, HistoryOK, RequestShape, PriorHasEnded, Ended, At, FreshCredentials
<1>3. (\A r \in Requests : CredentialThere(r)')
  BY <1>1 DEF CredentialInv, CredentialThere, At, NameOf
<1>4. TakenIsSpent' /\ TakenOnce'
  BY <1>1 DEF CredentialInv, TakenIsSpent, TakenOnce, HasTaken, IsSpent, NameOf
<1>5. GuessesLeft' /\ GuessesCounted'
  BY <1>1 DEF CredentialInv, GuessesLeft, GuessesCounted, VerifyMet, Verifying, Met, At
<1> QED
  BY <1>1, <1>2, <1>3, <1>4, <1>5 DEF CredentialInv

LEMMA CredentialInvAlways == CredentialSpec => []CredentialInv
<1>1. CredentialInv /\ (\E r \in Requests : CredentialMove(r)) => CredentialInv'
  BY CredentialMoves, CredentialTurns, TurnsStep
<1>2. CredentialInv /\ AtGoogle => CredentialInv'
  <2> SUFFICES ASSUME CredentialInv, AtGoogle PROVE CredentialInv'
    OBVIOUS
  <2>1. PICK x : db' = [db EXCEPT !.change = x] \/ db' = [db EXCEPT !.stale = x]
    BY DEF AtGoogle
  <2>2. SameCredentials(db')
    BY <2>1 DEF SameCredentials, CredentialInv, CredentialShape, CredentialTables
  <2> QED
    BY <2>2, CredentialsRest DEF AtGoogle
<1>3. CredentialInv /\ UNCHANGED vars => CredentialInv'
  BY CredentialsRest DEF vars, SameCredentials
<1>4. CredentialInv /\ [(\E r \in Requests : CredentialMove(r)) \/ AtGoogle]_vars => CredentialInv'
  BY <1>1, <1>2, <1>3
<1> QED
  BY <1>4, CredentialInvInit, PTL DEF CredentialSpec

\* However requests are interleaved and dropped, no refresh token, login code,
\* link, state of a sign-in or integration code is taken by two requests, and
\* no phone code is guessed at more than MaxAttempts times, unless two verifications
\* met.
THEOREM NothingIsUsedTwice == CredentialSpec => []CredentialsUsedOnce
<1> QED
  BY CredentialInvAlways, CredentialInvHolds, PTL

-----------------------------------------------------------------------------
(***************************************************************************)
(* Users: every name of a user leads to a row, and rows never go.          *)
(***************************************************************************)

Known(u) == u \in Users /\ db.user[u] # Nil

UserShape ==
    /\ {"user", "identity", "pending", "signup"} \subseteq DOMAIN db
    /\ DOMAIN db.user = Users /\ \A u \in Users : db.user[u] # Nil => db.user[u] \in UserRecord
    /\ DOMAIN db.identity = Logins /\ db.pending \subseteq Logins
    /\ DOMAIN db.signup = {"id", "pw"} /\ db.signup.pw \in Users \cup {Nil}

NamesLead ==
    /\ \A l \in Logins : db.identity[l] # Nil => Known(db.identity[l])
    /\ \A t \in Users :
          /\ db.token[t].state # "none" => Known(db.token[t].user)
          /\ db.link[t].kind = "RESET" => Known(db.link[t].owner)
          /\ db.code[t].state # "none" => db.code[t].login \in Logins

\* Where a request may have inserted its user.
Inserted == {"clear", "clearCompany", "issue", "bindLogin", "bindLoginInsert", "bindPhone", "bindPhoneInsert",
             "dropSignup"} \cup Ends
FreshUsers == \A r \in Requests : req[r].at \notin Inserted => db.user[r] = Nil

\* The places of the handlers, by what a request has in its hand there.
Verifies == {"verifyPhone", "expireCode", "consumeCode", "owner", "insertUser", "racedUser", "bindPhone", "bindPhoneInsert"}
Links    == {"me", "providers", "taken", "setSocial", "bindLogin", "bindLoginInsert"}
Creates  == {"insertSocial", "raced", "insertPlain", "racedAgain"}
Looks    == {"findIdentity", "findLogin", "oauthIdentity", "oauthEmail", "oauthLogin", "oauthInsert"}
HasUser  == {"clear", "clearCompany", "issue", "setPassword", "consumeReset", "rotate", "bindPhone",
             "bindPhoneInsert"} \cup Links
Places   == Verifies \cup Links \cup Creates \cup Looks \cup HasUser \cup
            {"new", "dropSignup", "issueLink", "linkRow", "consumeVerify", "emailOwner", "insertEmail", "mint",
             "useCode", "appleNative", "oauthCallback", "appleCallback", "exchange", "confirmReset", "deleteAccount",
             "markUser", "cancelPlans", "unmark", "refresh"}

\* What a request came with ...
CameWith(r) ==
    ~At(r, "new") =>
        /\ req[r].do = "verifyPhone" => req[r].arg.phone \in Phones /\ req[r].arg.login \in Logins \cup {Nil}
        /\ req[r].do = "deleteAccount" => Known(req[r].arg.by)
        /\ req[r].do \in {"oauthCallback", "appleCallback"} => req[r].arg.login \in Logins
        /\ req[r].do = "appleNative" => req[r].arg \in Logins
        /\ req[r].do = "confirmReset" => db.link[req[r].arg].kind = "RESET"

\* ... and what it has read.
InHand(r) ==
    /\ req[r].at \in Verifies \cup Links \cup Creates => req[r].do = "verifyPhone"
    /\ req[r].at \in Links \cup Creates => req[r].arg.login # Nil
    /\ At(r, "mint") => req[r].do \in {"oauthCallback", "appleCallback"}
    /\ req[r].at \in {"refresh", "appleNative", "oauthCallback", "appleCallback", "exchange", "confirmReset"} =>
          req[r].do = req[r].at
    /\ req[r].at \in {"deleteAccount", "markUser", "cancelPlans", "unmark"} => req[r].do = "deleteAccount"
    /\ req[r].at \in Looks => req[r].v \in Logins
    /\ At(r, "useCode") => req[r].v.login \in Logins
    /\ req[r].at \in HasUser => Known(req[r].v)
    /\ At(r, "dropSignup") => Known(r)
    /\ req[r].at \in {"issueLink", "linkRow"} => (req[r].v.kind = "RESET" => Known(req[r].v.owner))
    /\ req[r].at \in {"consumeVerify", "emailOwner", "insertEmail"} => req[r].v.pw \in Users \cup {Nil}

NamesInv ==
    /\ UserShape /\ NamesLead /\ FreshUsers
    /\ \A r \in Requests : CameWith(r) /\ InHand(r)

\* A login is in one row, and an identity of the login is the row's.
LoginOf(u) == db.user[u].login
OneRow == \A u, w \in Users : Known(u) /\ Known(w) /\ LoginOf(u) = LoginOf(w) /\ LoginOf(u) \in Logins => u = w
IdentityAgrees == \A l \in Logins : db.identity[l] # Nil => LoginOf(db.identity[l]) = l
LinkedWell(r) ==
    /\ req[r].at \in {"providers", "taken", "setSocial"} => LoginOf(req[r].v) = Nil
    /\ req[r].at \in {"bindLogin", "bindLoginInsert"} => LoginOf(req[r].v) = req[r].arg.login
LinksWell == \A r \in Requests : LinkedWell(r)
LoginInv == OneRow /\ (VerifyMet \/ (IdentityAgrees /\ LinksWell))

-----------------------------------------------------------------------------
\* What a step may do to the rows of users and to what leads to them.
RowSame(u) ==
    \/ db'.user[u] = db.user[u]
    \/ /\ Known(u) /\ Known(u)'
       /\ db'.user[u].login = db.user[u].login /\ db'.user[u].pw = db.user[u].pw
Inserting == {"oauthInsert", "insertUser", "insertSocial", "insertPlain", "insertEmail"}
Signs(r) ==
    /\ req[r].at \in Inserting /\ db.user[r] = Nil /\ db'.user[r] # Nil /\ req'[r].at \in Inserted
    /\ LoginOf(r)' \in Logins => ByLogin(LoginOf(r)') = {}
    /\ db'.user[r].pw = IF At(r, "insertEmail") THEN req[r].v.pw ELSE Nil
SetsPassword(r, u) ==
    /\ At(r, "setPassword") /\ u = req[r].v /\ Known(u) /\ Known(u)'
    /\ db'.user[u].pw = r /\ LoginOf(u)' = LoginOf(u)
SetsLogin(r, u) ==
    /\ At(r, "setSocial") /\ u = req[r].v /\ Known(u) /\ Known(u)' /\ LoginOf(u) = Nil
    /\ LoginOf(u)' = req[r].arg.login /\ ByLogin(req[r].arg.login) = {} /\ db'.user[u].pw = db.user[u].pw

UserWrites(r) == \A u \in Users : RowSame(u) \/ (u = r /\ Signs(r)) \/ SetsPassword(r, u) \/ SetsLogin(r, u)
IdentityWrites(r) ==
    \/ db'.identity = db.identity
    \/ At(r, "bindLoginInsert") /\ db'.identity = [db.identity EXCEPT ![req[r].arg.login] = req[r].v]
TokenWritten(r) ==
    \A t \in Users :
        \/ db'.token[t] = db.token[t]
        \/ db'.token[t].user = db.token[t].user /\ db.token[t].state # "none" /\ db'.token[t].state = "revoked"
        \/ t = r /\ At(r, "issue") /\ db'.token[t] = [state |-> "live", user |-> req[r].v]
IsLink(row) == row = [state |-> row.state, kind |-> row.kind, owner |-> row.owner]
LinkWritten(r) ==
    \A t \in Users :
        /\ db'.link[t] = db.link[t] \/ IsLink(db'.link[t])
        /\ \/ db'.link[t].kind = db.link[t].kind /\ db'.link[t].owner = db.link[t].owner
           \/ t = r /\ At(r, "linkRow") /\ db'.link[t].kind = req[r].v.kind /\ db'.link[t].owner = req[r].v.owner
CodeWritten(r) ==
    \A t \in Users :
        \/ db'.code[t].login = db.code[t].login /\ (db'.code[t].state # "none" => db.code[t].state # "none")
        \/ t = r /\ At(r, "mint") /\ db'.code[t].login = req[r].arg.login
SignupWritten(r) ==
    \/ db'.signup = db.signup
    \/ /\ At(r, "upsertSignup")
       /\ db'.signup = [id |-> IF db.signup.id = Nil THEN r ELSE db.signup.id, pw |-> r]
    \/ At(r, "dropSignup") /\ db'.signup = [id |-> Nil, pw |-> Nil]
Writes(r) ==
    /\ UserShape' /\ UserWrites(r) /\ IdentityWrites(r) /\ SignupWritten(r)
    /\ TokenWritten(r) /\ LinkWritten(r) /\ CodeWritten(r)

SameUsers(tables) ==
    /\ DOMAIN tables = DOMAIN db
    /\ tables.identity = db.identity /\ tables.pending = db.pending /\ tables.signup = db.signup
SameLeads(tables) == tables.token = db.token /\ tables.link = db.link /\ tables.code = db.code

LEMMA SameWrites ==
    ASSUME NamesInv, NEW r, SameUsers(db'), SameLeads(db'), db'.user = db.user
    PROVE  Writes(r)
  BY DEF NamesInv, UserShape, SameUsers, SameLeads, Writes, UserWrites, RowSame, IdentityWrites, SignupWritten, TokenWritten,
     LinkWritten, CodeWritten

LEMMA OtherUserTables ==
    ASSUME NamesInv, CredentialShape, NEW x,
           \/ db' = [db EXCEPT !.company = x]
           \/ db' = [db EXCEPT !.member = x]
           \/ db' = [db EXCEPT !.invite = x]
           \/ db' = [db EXCEPT !.mailed = x]
           \/ db' = [db EXCEPT !.bound = x]
           \/ db' = [db EXCEPT !.sms = x]
           \/ db' = [db EXCEPT !.oauth = x]
           \/ db' = [db EXCEPT !.icode = x]
           \/ db' = [db EXCEPT !.google = x]
           \/ db' = [db EXCEPT !.synced = x]
           \/ db' = [db EXCEPT !.relisted = x]
    PROVE  SameUsers(db') /\ SameLeads(db') /\ db'.user = db.user
  BY DEF NamesInv, UserShape, CredentialShape, CredentialTables, SameUsers, SameLeads

\* A step that writes rows of users only.
LEMMA UsersWritten ==
    ASSUME NamesInv, CredentialShape, NEW r, NEW table, db' = [db EXCEPT !.user = table], DOMAIN table = Users,
           \A u \in Users : table[u] # Nil => table[u] \in UserRecord
    PROVE  /\ db'.user = table /\ SameLeads(db') /\ SameUsers(db')
           /\ UserWrites(r) => Writes(r)
<1>1. db'.user = table /\ SameLeads(db') /\ SameUsers(db')
  BY DEF NamesInv, UserShape, CredentialShape, CredentialTables, SameUsers, SameLeads
<1>2. UserShape'
  BY <1>1 DEF NamesInv, UserShape, SameUsers
<1> QED
  BY <1>1, <1>2 DEF Writes, SameUsers, SameLeads, IdentityWrites, SignupWritten, TokenWritten, LinkWritten, CodeWritten

\* A row that changes in its marks or its password is the row of a user still.
LEMMA RowWritten ==
    ASSUME NamesInv, CredentialShape, NEW r, NEW u, Known(u), NEW field \in {"marked", "pw", "login"}, NEW w,
           db' = [db EXCEPT !.user[u][field] = w],
           field = "marked" => w \in BOOLEAN,
           field = "pw" => w \in Users /\ At(r, "setPassword") /\ u = req[r].v /\ w = r,
           field = "login" => w \in Logins /\ At(r, "setSocial") /\ u = req[r].v /\ w = req[r].arg.login
                              /\ ByLogin(w) = {} /\ LoginOf(u) = Nil
    PROVE  Writes(r)
<1> DEFINE row == [db.user[u] EXCEPT ![field] = w]
           table == [db.user EXCEPT ![u] = row]
<1>1. DOMAIN db.user = Users /\ db.user[u] \in UserRecord /\ u \in Users /\ (\A t \in Users : db.user[t] # Nil => db.user[t] \in UserRecord)
  BY DEF NamesInv, UserShape, Known
<1>2. row \in UserRecord /\ \A f \in {"login", "pw"} \ {field} : row[f] = db.user[u][f]
  BY <1>1 DEF UserRecord
<1>3. row[field] = w
  BY <1>1 DEF UserRecord
<1>4. db' = [db EXCEPT !.user = table]
  OBVIOUS
<1> HIDE DEF row
<1>5. /\ DOMAIN table = Users /\ table[u] = row
      /\ \A t \in Users : t # u => table[t] = db.user[t]
  BY <1>1
<1>6. \A t \in Users : table[t] # Nil => table[t] \in UserRecord
  BY <1>1, <1>2, <1>5
<1> HIDE DEF table
<1>7. db'.user = table /\ (UserWrites(r) => Writes(r))
  BY <1>4, <1>5, <1>6, UsersWritten
<1>8. row # Nil
  BY <1>2, SignUpAssumption
<1>9. \A t \in Users : t # u => RowSame(t)
  BY <1>5, <1>7 DEF RowSame
<1>10. Known(u)'
  BY <1>1, <1>5, <1>7, <1>8 DEF Known
<1>11. CASE field = "marked"
  BY <1>1, <1>2, <1>5, <1>7, <1>9, <1>10, <1>11 DEF UserWrites, RowSame
<1>12. CASE field = "pw"
  <2>1. SetsPassword(r, u)
    BY <1>1, <1>2, <1>3, <1>5, <1>7, <1>10, <1>12 DEF SetsPassword, LoginOf
  <2> QED
    BY <1>7, <1>9, <2>1 DEF UserWrites
<1>13. CASE field = "login"
  <2>1. SetsLogin(r, u)
    BY <1>1, <1>2, <1>3, <1>5, <1>7, <1>10, <1>13 DEF SetsLogin, LoginOf
  <2> QED
    BY <1>7, <1>9, <2>1 DEF UserWrites
<1> QED
  BY <1>11, <1>12, <1>13

LEMMA RowInserted ==
    ASSUME NamesInv, CredentialShape, NEW r \in Requests, NEW kind \in {"PERSONAL", "EMPLOYER"}, NEW l, NEW phone, NEW email, NEW pw,
           db' = [db EXCEPT !.user[r] = UserRow(kind, l, phone, email, pw)],
           l \in Logins \cup {Nil}, phone \in Phones \cup {Nil}, email \in BOOLEAN, pw \in Users \cup {Nil},
           l \in Logins => ByLogin(l) = {},
           db.user[r] = Nil, req[r].at \in Inserting, req'[r].at \in Inserted, pw = IF At(r, "insertEmail") THEN req[r].v.pw ELSE Nil
    PROVE  Writes(r) /\ Known(r)'
<1> DEFINE row == UserRow(kind, l, phone, email, pw)
           table == [db.user EXCEPT ![r] = row]
<1>1. DOMAIN db.user = Users /\ r \in Users /\ (\A t \in Users : db.user[t] # Nil => db.user[t] \in UserRecord)
  BY DEF NamesInv, UserShape, Users
<1>2. row \in UserRecord /\ row.login = l /\ row.pw = pw
  BY DEF UserRecord, UserRow
<1>3. db' = [db EXCEPT !.user = table]
  OBVIOUS
<1> HIDE DEF row
<1>4. /\ DOMAIN table = Users /\ table[r] = row
      /\ \A t \in Users : t # r => table[t] = db.user[t]
  BY <1>1
<1>5. \A t \in Users : table[t] # Nil => table[t] \in UserRecord
  BY <1>1, <1>2, <1>4
<1> HIDE DEF table
<1>6. db'.user = table /\ (UserWrites(r) => Writes(r))
  BY <1>3, <1>4, <1>5, UsersWritten
<1>7. Signs(r)
  BY <1>2, <1>4, <1>6, SignUpAssumption DEF Signs, LoginOf
<1>8. \A t \in Users : t # r => RowSame(t)
  BY <1>4, <1>6 DEF RowSame
<1>9. Known(r)'
  BY <1>1, <1>6, <1>7 DEF Signs, Known
<1> QED
  BY <1>6, <1>7, <1>8, <1>9 DEF UserWrites

LEMMA UserInserts ==
    ASSUME NamesInv, CredentialShape, HistoryOK, NEW r \in Requests, SessionStep(r) \/ SignUpStep(r),
           req[r].at \in Inserting
    PROVE  /\ Writes(r)
           /\ At(r, "dropSignup")' \/ (req'[r].at \in {"clear", "bindPhone", "bindLogin"} /\ req'[r].v = r) => Known(r)'
<1> DEFINE G == /\ Writes(r)
                /\ At(r, "dropSignup")' \/ (req'[r].at \in {"clear", "bindPhone", "bindLogin"} /\ req'[r].v = r) => Known(r)'
<1>1. req[r].at \notin Inserted /\ db.user[r] = Nil
  BY DEF NamesInv, FreshUsers, Inserted, Inserting, Ends
<1>2. \A statement, v, tables : Do(r, statement, v, tables) =>
         req'[r].at = statement /\ db' = tables /\ (statement \notin Ends => req'[r].v = v)
  BY DoEffect
<1>3. \A statement, v :
         GoOn(r, statement, v) /\ (statement \notin {"clear", "bindPhone", "bindLogin", "dropSignup"} \/ (statement = "clear" /\ v # r)) => G
  BY <1>2, SameWrites DEF GoOn, SameUsers, SameLeads, At, Ends
<1>4. \A statement, v, kind, l, phone, email, pw :
         /\ Do(r, statement, v, [db EXCEPT !.user[r] = UserRow(kind, l, phone, email, pw)])
         /\ kind \in {"PERSONAL", "EMPLOYER"} /\ statement \in {"clear", "bindPhone", "bindLogin", "dropSignup"}
         /\ l \in Logins \cup {Nil} /\ phone \in Phones \cup {Nil} /\ email \in BOOLEAN /\ pw \in Users \cup {Nil}
         /\ (l \in Logins => ByLogin(l) = {})
         /\ pw = IF At(r, "insertEmail") THEN req[r].v.pw ELSE Nil
         => G
  BY <1>1, <1>2, RowInserted DEF Inserted, Inserting
<1>5. CameWith(r) /\ InHand(r) /\ Nil \notin Logins /\ Nil \in Logins \cup {Nil} /\ Nil \in Phones \cup {Nil} /\ Nil \in Users \cup {Nil}
  BY SessionsAssumption DEF NamesInv
<1> HIDE DEF G
<1>r. Refuse(r) => G
  BY <1>3 DEF Refuse, GoOn
<1>6. \/ OauthInsert(r) \/ InsertUser(r) \/ InsertEmail(r)
      \/ \E email \in BOOLEAN : \E at \in {"insertSocial", "insertPlain"} : \E raced \in {"raced", "racedAgain"} : InsertSocial(r, at, raced, email)
  <2>1. ~ArriveSession(r) /\ ~ArriveSignUp(r)
    BY DEF ArriveSession, ArriveSignUp, Begin, At, Inserting
  <2>2. CASE SessionStep(r)
    BY <2>1, <2>2 DEF SessionStep, Issue, RevokeAll, ClearUser, ClearCompany, Refresh, Rotate, Logout, Login, RequestReset,
       IssueLink, LinkRow, ConfirmReset, ConsumeLink, SetPassword, OauthStart, OauthCallback, AppleCallback, TakeState, MintCode,
       Exchange, UseCode, AppleNative, FindIdentity, FindLogin, OauthIdentity, OauthEmail, OauthLogin, At, Inserting
  <2>3. CASE SignUpStep(r)
    <3>1. CreateFromPending(r) => \E email \in BOOLEAN : \E at \in {"insertSocial", "insertPlain"} : \E raced \in {"raced", "racedAgain"} : InsertSocial(r, at, raced, email)
      BY DEF CreateFromPending, CreateRaced, At, Inserting
    <3> QED
      BY <2>1, <2>3, <3>1 DEF SignUpStep, SendPhone, ConsumeOpen, InsertCode, VerifyPhone, Bump, ConsumeCode, Owner, Me, Providers,
       Taken, SetSocial, BindLogin, BindLoginInsert, BindPhone, BindPhoneInsert, RacedUser, Signup, UpsertSignup, Verify,
       ConsumeLink, EmailOwner, DropSignup, At, Inserting
  <2> QED
    BY <2>2, <2>3
<1>7. CASE OauthInsert(r)
  <2>1. req[r].v \in Logins
    BY <1>5, <1>7 DEF InHand, OauthInsert, Looks, At
  <2>2. ByEmail \cup ByLogin(req[r].v) = {} => ByLogin(req[r].v) = {}
    OBVIOUS
  <2>3. ~At(r, "insertEmail") /\ r \notin ByEmail
    BY <1>1, <1>7 DEF OauthInsert, At, ByEmail
  <2>4. \A u \in ByEmail : Found(r, u, "EMPLOYER") => G
    BY <1>3, <1>r, <2>3 DEF Found
  <2>5. ByLogin(req[r].v) = {} /\ Do(r, "clear", r, [db EXCEPT !.user[r] = UserRow("EMPLOYER", req[r].v, Nil, TRUE, Nil)]) => G
    BY <1>4, <1>5, <2>1, <2>3
  <2> QED
    BY <1>7, <1>r, <2>2, <2>4, <2>5 DEF OauthInsert, G
<1>8. CASE InsertUser(r)
  <2>1. req[r].arg.phone \in Phones /\ ~At(r, "insertEmail")
    BY <1>5, <1>8 DEF InHand, CameWith, InsertUser, Verifies, At
  <2>2. Do(r, "bindPhone", r, [db EXCEPT !.user[r] = UserRow("PERSONAL", Nil, req[r].arg.phone, FALSE, Nil)]) => G
    BY <1>4, <1>5, <2>1
  <2>3. GoOn(r, "racedUser", Nil) => G
    BY <1>3
  <2> QED
    BY <1>8, <2>2, <2>3 DEF InsertUser, G
<1>9. CASE InsertEmail(r)
  <2>1. req[r].v.pw \in Users \cup {Nil} /\ At(r, "insertEmail")
    BY <1>5, <1>9 DEF InHand, InsertEmail, At
  <2>2. Do(r, "dropSignup", req[r].v, [db EXCEPT !.user[r] = UserRow("EMPLOYER", Nil, Nil, TRUE, req[r].v.pw)]) => G
    BY <1>4, <1>5, <2>1
  <2> QED
    BY <1>9, <1>r, <2>2 DEF InsertEmail, G
<1>10. ASSUME NEW at \in {"insertSocial", "insertPlain"}, NEW raced \in {"raced", "racedAgain"}, NEW email \in BOOLEAN, InsertSocial(r, at, raced, email)
       PROVE  G
  <2>1. req[r].arg.phone \in Phones /\ req[r].arg.login \in Logins /\ ~At(r, "insertEmail")
    BY <1>5, <1>10 DEF InHand, CameWith, InsertSocial, Creates, Links, At
  <2>2. ByLogin(req[r].arg.login) = {} /\ Do(r, "bindLogin", r, [db EXCEPT !.user[r] = UserRow("PERSONAL", req[r].arg.login, req[r].arg.phone, email, Nil)]) => G
    BY <1>4, <1>5, <1>10, <2>1
  <2>3. GoOn(r, raced, Nil) => G
    BY <1>3, <1>10
  <2> QED
    BY <1>10, <2>2, <2>3 DEF InsertSocial, Pending
<1> QED
  BY <1>6, <1>7, <1>8, <1>9, <1>10 DEF G

LEMMA UserChanges ==
    ASSUME NamesInv, CredentialShape, HistoryOK, NEW r \in Requests,
           ClearUser(r) \/ SetPassword(r) \/ MarkUser(r) \/ Unmark(r) \/ SetSocial(r)
    PROVE  Writes(r)
<1>1. \A statement, v, tables : Do(r, statement, v, tables) => req'[r].at = statement /\ db' = tables
  BY DoEffect
<1>2. \A statement, v : GoOn(r, statement, v) => Writes(r)
  BY <1>1, SameWrites DEF GoOn, SameUsers, SameLeads
<1>3. CameWith(r) /\ InHand(r) /\ r \in Users
  BY DEF NamesInv, Users
<1>4. CASE ClearUser(r)
  <2>1. Known(req[r].v)
    BY <1>3, <1>4 DEF InHand, HasUser, ClearUser, At
  <2>2. db' = [db EXCEPT !.user[req[r].v]["marked"] = FALSE]
    BY <1>1, <1>4 DEF ClearUser
  <2> QED
    BY <2>1, <2>2, RowWritten
<1>5. CASE SetPassword(r)
  <2>1. Known(req[r].v) /\ At(r, "setPassword")
    BY <1>3, <1>5 DEF InHand, HasUser, SetPassword, At
  <2>2. db' = [db EXCEPT !.user[req[r].v]["pw"] = r]
    BY <1>1, <1>5 DEF SetPassword
  <2> QED
    BY <1>3, <2>1, <2>2, RowWritten
<1>6. CASE MarkUser(r) \/ Unmark(r)
  <2>1. Known(By(r))
    BY <1>3, <1>6 DEF InHand, CameWith, MarkUser, Unmark, At, By
  <2>2. \E w \in BOOLEAN : db' = [db EXCEPT !.user[By(r)]["marked"] = w]
    BY <1>1, <1>6 DEF MarkUser, Unmark, Unmarked
  <2> QED
    BY <2>1, <2>2, RowWritten
<1>7. CASE SetSocial(r)
  <2>1. Known(req[r].v) /\ At(r, "setSocial") /\ req[r].arg.login \in Logins
    BY <1>3, <1>7 DEF InHand, CameWith, HasUser, Links, SetSocial, At
  <2>2. CASE db' = [db EXCEPT !.user[req[r].v]["login"] = req[r].arg.login] /\ ByLogin(req[r].arg.login) = {} /\ LoginOf(req[r].v) = Nil
    BY <2>1, <2>2, RowWritten
  <2> QED
    BY <1>1, <1>2, <1>7, <2>2 DEF SetSocial, Pending, LoginOf, Refuse, GoOn
<1> QED
  BY <1>4, <1>5, <1>6, <1>7

\* A step that writes no rows of users.
LEMMA RowsRest ==
    ASSUME NEW r, db'.user = db.user
    PROVE  UserWrites(r)
  BY DEF UserWrites, RowSame

LEMMA SocialTables ==
    ASSUME NamesInv, CredentialShape, HistoryOK, NEW r \in Requests,
           BindLoginInsert(r) \/ FindLogin(r) \/ UpsertSignup(r)
    PROVE  Writes(r)
<1>1. \A statement, v, tables : Do(r, statement, v, tables) => req'[r].at = statement /\ db' = tables
  BY DoEffect
<1>2. \A statement, v : GoOn(r, statement, v) => Writes(r)
  BY <1>1, SameWrites DEF GoOn, SameUsers, SameLeads
<1>3. CameWith(r) /\ InHand(r) /\ UserShape /\ r \in Users
  BY DEF NamesInv, Users
<1>4. CASE BindLoginInsert(r)
  <2>1. Known(req[r].v) /\ At(r, "bindLoginInsert") /\ req[r].arg.login \in Logins
    BY <1>3, <1>4 DEF InHand, CameWith, HasUser, Links, BindLoginInsert, At
  <2>2. CASE db' = [db EXCEPT !.identity[req[r].arg.login] = req[r].v]
    <3>1. /\ db'.identity = [db.identity EXCEPT ![req[r].arg.login] = req[r].v] /\ db'.user = db.user /\ SameLeads(db')
          /\ DOMAIN db' = DOMAIN db /\ db'.pending = db.pending /\ db'.signup = db.signup
      BY <1>3, <2>2 DEF CredentialShape, CredentialTables, UserShape, SameLeads
    <3>2. UserShape'
      BY <1>3, <3>1 DEF UserShape
    <3> QED
      BY <2>1, <3>1, <3>2, RowsRest DEF Writes, IdentityWrites, SignupWritten, SameLeads, TokenWritten, LinkWritten, CodeWritten
  <2> QED
    BY <1>1, <1>2, <1>4, <2>2 DEF BindLoginInsert, Pending, Refuse, GoOn
<1>5. CASE FindLogin(r)
  <2>1. req[r].v \in Logins
    BY <1>3, <1>5 DEF InHand, Looks, FindLogin, At
  <2>2. CASE db' = [db EXCEPT !.pending = db.pending \cup {req[r].v}]
    <3>1. /\ db'.pending = db.pending \cup {req[r].v} /\ db'.user = db.user /\ SameLeads(db')
          /\ DOMAIN db' = DOMAIN db /\ db'.identity = db.identity /\ db'.signup = db.signup
      BY <1>3, <2>2 DEF CredentialShape, CredentialTables, UserShape, SameLeads
    <3>2. UserShape'
      BY <1>3, <2>1, <3>1 DEF UserShape
    <3> QED
      BY <3>1, <3>2, RowsRest DEF Writes, IdentityWrites, SignupWritten, SameLeads, TokenWritten, LinkWritten, CodeWritten
  <2> QED
    BY <1>1, <1>2, <1>5, <2>2 DEF FindLogin, Found, End, Refuse, GoOn
<1>6. CASE UpsertSignup(r)
  <2> DEFINE id == IF db.signup.id = Nil THEN r ELSE db.signup.id
  <2>1. db' = [db EXCEPT !.signup = [id |-> id, pw |-> r]] /\ At(r, "upsertSignup")
    BY <1>1, <1>6 DEF UpsertSignup
  <2>2. /\ db'.signup = [id |-> id, pw |-> r] /\ db'.user = db.user /\ SameLeads(db')
        /\ DOMAIN db' = DOMAIN db /\ db'.identity = db.identity /\ db'.pending = db.pending
    BY <1>3, <2>1 DEF CredentialShape, CredentialTables, UserShape, SameLeads
  <2>3. UserShape'
    BY <1>3, <2>2 DEF UserShape
  <2>4. SignupWritten(r)
    BY <2>1, <2>2 DEF SignupWritten
  <2> QED
    BY <2>2, <2>3, <2>4, RowsRest DEF Writes, IdentityWrites, SameLeads, TokenWritten, LinkWritten, CodeWritten
<1> QED
  BY <1>4, <1>5, <1>6

\* Steps that write tokens, links or codes.
LEMMA LeadsWritten ==
    ASSUME NamesInv, CredentialShape, NEW r, NEW table,
           \/ db' = [db EXCEPT !.token = table] /\ (db'.token = table => TokenWritten(r))
           \/ db' = [db EXCEPT !.link = table] /\ (db'.link = table => LinkWritten(r))
           \/ db' = [db EXCEPT !.code = table] /\ (db'.code = table => CodeWritten(r))
    PROVE  Writes(r)
<1>1. /\ DOMAIN db' = DOMAIN db /\ db'.user = db.user
      /\ db'.identity = db.identity /\ db'.pending = db.pending /\ db'.signup = db.signup
  BY DEF NamesInv, UserShape, CredentialShape, CredentialTables
<1>2. UserShape'
  BY <1>1 DEF NamesInv, UserShape
<1>3. TokenWritten(r) /\ LinkWritten(r) /\ CodeWritten(r)
  <2>1. CASE db' = [db EXCEPT !.token = table] /\ (db'.token = table => TokenWritten(r))
    BY <2>1 DEF CredentialShape, CredentialTables, LinkWritten, CodeWritten
  <2>2. CASE db' = [db EXCEPT !.link = table] /\ (db'.link = table => LinkWritten(r))
    BY <2>2 DEF CredentialShape, CredentialTables, TokenWritten, CodeWritten
  <2>3. CASE db' = [db EXCEPT !.code = table] /\ (db'.code = table => CodeWritten(r))
    BY <2>3 DEF CredentialShape, CredentialTables, TokenWritten, LinkWritten
  <2> QED
    BY <2>1, <2>2, <2>3
<1> QED
  BY <1>1, <1>2, <1>3, RowsRest DEF Writes, IdentityWrites, SignupWritten

LEMMA TokenLeads ==
    ASSUME NamesInv, CredentialInv, NEW r \in Requests, Issue(r) \/ RevokeAll(r) \/ Rotate(r) \/ Logout(r)
    PROVE  Writes(r)
<1>0. CredentialShape /\ HistoryOK /\ DOMAIN db.token = Users /\ \A u \in Users : DOMAIN db.token[u] = {"state", "user"}
  BY DEF CredentialInv, CredentialShape
<1>1. \A statement, v, tables : Do(r, statement, v, tables) => db' = tables
  BY <1>0, DoEffect
<1>2. \A statement, v : GoOn(r, statement, v) => Writes(r)
  BY <1>1, SameWrites DEF GoOn, SameUsers, SameLeads
<1>3. CASE Issue(r)
  <2> DEFINE table == [db.token EXCEPT ![r] = [state |-> "live", user |-> req[r].v]]
  <2>1. db' = [db EXCEPT !.token = table] /\ At(r, "issue")
    BY <1>1, <1>3 DEF Issue, End
  <2>2. \A u \in Users : table[u] = IF u = r THEN [state |-> "live", user |-> req[r].v] ELSE db.token[u]
    BY <1>0
  <2> HIDE DEF table
  <2>3. db'.token = table => TokenWritten(r)
    BY <1>0, <2>1, <2>2 DEF TokenWritten
  <2> QED
    BY <1>0, <2>1, <2>3, LeadsWritten
<1>4. CASE RevokeAll(r)
  <2>1. db' = [db EXCEPT !.token = EndAll(req[r].v)]
    BY <1>1, <1>4 DEF RevokeAll
  <2>2. \A u \in Users : \/ EndAll(req[r].v)[u] = db.token[u]
                         \/ /\ EndAll(req[r].v)[u].user = db.token[u].user
                            /\ db.token[u].state # "none" /\ EndAll(req[r].v)[u].state = "revoked"
    BY <1>0 DEF EndAll
  <2>3. db'.token = EndAll(req[r].v) => TokenWritten(r)
    BY <1>0, <2>1, <2>2 DEF TokenWritten
  <2> QED
    BY <1>0, <2>1, <2>3, LeadsWritten
<1>5. ASSUME db' = [db EXCEPT !.token[req[r].arg].state = "revoked"], db.token[req[r].arg].state # "none"
      PROVE  Writes(r)
  <2> DEFINE a == req[r].arg
             row == [db.token[a] EXCEPT !.state = "revoked"]
             table == [db.token EXCEPT ![a] = row]
  <2>1. db' = [db EXCEPT !.token = table]
    BY <1>5
  <2>2. a \in Users => row.user = db.token[a].user /\ row.state = "revoked"
    BY <1>0
  <2> HIDE DEF row
  <2>3. \A u \in Users : table[u] = IF u = a THEN row ELSE db.token[u]
    BY <1>0
  <2> HIDE DEF table
  <2>4. db'.token = table => TokenWritten(r)
    BY <1>0, <1>5, <2>1, <2>2, <2>3 DEF TokenWritten
  <2> QED
    BY <1>0, <2>1, <2>4, LeadsWritten
<1>6. CASE Rotate(r)
  BY <1>1, <1>2, <1>5, <1>6 DEF Rotate, StillLive
<1>7. CASE Logout(r)
  <2>1. req[r].do = "logout" /\ req[r].arg \in Users /\ db.token[req[r].arg].state # "none"
    BY <1>7 DEF Logout, CredentialInv, GuessesLeft, CredentialThere, NameOf, NameIn, KindOf, State, Callbacks, At
  <2> QED
    BY <1>1, <1>5, <1>7, <2>1 DEF Logout, End
<1> QED
  BY <1>3, <1>4, <1>6, <1>7

LEMMA LinkLeads ==
    ASSUME NamesInv, CredentialInv, NEW r \in Requests,
           \/ LinkRow(r) \/ DropSignup(r)
           \/ ConsumeLink(r, "consumeReset", "setPassword") \/ ConsumeLink(r, "consumeVerify", "emailOwner")
    PROVE  Writes(r)
<1>0. /\ CredentialShape /\ HistoryOK /\ DOMAIN db.link = Users
      /\ \A u \in Users : DOMAIN db.link[u] = {"state", "kind", "owner"}
  BY DEF CredentialInv, CredentialShape
<1>1. \A statement, v, tables : Do(r, statement, v, tables) => db' = tables
  BY <1>0, DoEffect
<1>2. \A statement, v : GoOn(r, statement, v) => Writes(r)
  BY <1>1, SameWrites DEF GoOn, SameUsers, SameLeads
<1>3. CASE LinkRow(r) /\ ~Refuse(r)
  <2> DEFINE v == req[r].v
             gone(t) == [db.link[t] EXCEPT !.state = "gone"]
             table == [t \in Users |->
                  IF t = r THEN [state |-> "open", kind |-> v.kind, owner |-> v.owner]
                  ELSE IF t \in v.old /\ db.link[t].state = "open" THEN gone(t) ELSE db.link[t]]
  <2>1. db' = [db EXCEPT !.link = table] /\ At(r, "linkRow")
    BY <1>1, <1>3 DEF LinkRow
  <2>2. \A t \in Users : IsLink(gone(t)) /\ gone(t).kind = db.link[t].kind /\ gone(t).owner = db.link[t].owner
    BY <1>0 DEF IsLink
  <2> HIDE DEF gone
  <2>3. \A t \in Users :
           /\ table[t] = db.link[t] \/ IsLink(table[t])
           /\ \/ table[t].kind = db.link[t].kind /\ table[t].owner = db.link[t].owner
              \/ t = r /\ table[t].kind = v.kind /\ table[t].owner = v.owner
    BY <2>2 DEF IsLink
  <2> HIDE DEF table
  <2>4. db'.link = table => LinkWritten(r)
    BY <1>0, <2>1, <2>3 DEF LinkWritten
  <2> QED
    BY <1>0, <2>1, <2>4, LeadsWritten
<1>4. CASE DropSignup(r)
  <2> DEFINE s == req[r].v.id
             gone(t) == [db.link[t] EXCEPT !.state = "gone"]
             table == [t \in Users |-> IF db.link[t].kind = "VERIFY" /\ db.link[t].owner = s
                                       THEN gone(t) ELSE db.link[t]]
             left == IF db.signup.id = s THEN [id |-> Nil, pw |-> Nil] ELSE db.signup
  <2>1. db' = [[db EXCEPT !.signup = left] EXCEPT !.link = table] /\ At(r, "dropSignup")
    BY <1>1, <1>4 DEF DropSignup
  <2>2. \A t \in Users : IsLink(gone(t)) /\ gone(t).kind = db.link[t].kind /\ gone(t).owner = db.link[t].owner
    BY <1>0 DEF IsLink
  <2> HIDE DEF gone
  <2>3. \A t \in Users : /\ table[t] = db.link[t] \/ IsLink(table[t])
                         /\ table[t].kind = db.link[t].kind /\ table[t].owner = db.link[t].owner
    BY <2>2
  <2>4. /\ DOMAIN left = {"id", "pw"} /\ left.pw \in Users \cup {Nil}
        /\ left = db.signup \/ left = [id |-> Nil, pw |-> Nil]
    BY DEF NamesInv, UserShape
  <2> HIDE DEF left, table
  <2>5. /\ DOMAIN db' = DOMAIN db /\ db'.user = db.user /\ db'.identity = db.identity /\ db'.pending = db.pending
        /\ db'.signup = left /\ db'.link = table /\ db'.token = db.token /\ db'.code = db.code
    BY <1>0, <2>1 DEF NamesInv, UserShape, CredentialShape, CredentialTables
  <2>6. UserShape'
    BY <2>4, <2>5 DEF NamesInv, UserShape
  <2> QED
    BY <2>1, <2>3, <2>4, <2>5, <2>6, RowsRest DEF Writes, IdentityWrites, SignupWritten, TokenWritten, LinkWritten, CodeWritten
<1>5. ASSUME NEW at, NEW next, ConsumeLink(r, at, next) PROVE Writes(r)
  <2>1. CASE Refuse(r)
    BY <1>2, <2>1 DEF Refuse, GoOn
  <2>2. CASE ~Refuse(r)
    <3> DEFINE a == req[r].arg
               row == [db.link[a] EXCEPT !.state = "used"]
               table == [db.link EXCEPT ![a] = row]
    <3>1. db' = [db EXCEPT !.link = table]
      BY <1>1, <1>5, <2>2 DEF ConsumeLink
    <3>2. a \in Users => IsLink(row) /\ row.kind = db.link[a].kind /\ row.owner = db.link[a].owner
      BY <1>0 DEF IsLink
    <3> HIDE DEF row
    <3>3. \A u \in Users : table[u] = IF u = a THEN row ELSE db.link[u]
      BY <1>0
    <3> HIDE DEF table
    <3>4. db'.link = table => LinkWritten(r)
      BY <1>0, <3>1, <3>2, <3>3 DEF LinkWritten
    <3> QED
      BY <1>0, <3>1, <3>4, LeadsWritten
  <2> QED
    BY <2>1, <2>2
<1> QED
  BY <1>2, <1>3, <1>4, <1>5 DEF Refuse, GoOn

LEMMA CodeLeads ==
    ASSUME NamesInv, CredentialInv, NEW r \in Requests, MintCode(r) \/ UseCode(r)
    PROVE  Writes(r)
<1>0. /\ CredentialShape /\ HistoryOK /\ DOMAIN db.code = Users
      /\ \A u \in Users : DOMAIN db.code[u] = {"state", "kind", "login"}
  BY DEF CredentialInv, CredentialShape
<1>1. \A statement, v, tables : Do(r, statement, v, tables) => db' = tables
  BY <1>0, DoEffect
<1>2. \A statement, v : GoOn(r, statement, v) => Writes(r)
  BY <1>1, SameWrites DEF GoOn, SameUsers, SameLeads
<1>3. CASE MintCode(r) /\ ~Refuse(r)
  <2> DEFINE row == [state |-> "open", kind |-> req[r].arg.kind, login |-> req[r].arg.login]
             table == [db.code EXCEPT ![r] = row]
  <2>1. db' = [db EXCEPT !.code = table] /\ At(r, "mint")
    BY <1>1, <1>3 DEF MintCode, End
  <2>2. row.login = req[r].arg.login
    OBVIOUS
  <2> HIDE DEF row
  <2>3. \A u \in Users : table[u] = IF u = r THEN row ELSE db.code[u]
    BY <1>0
  <2> HIDE DEF table
  <2>4. db'.code = table => CodeWritten(r)
    BY <1>0, <2>1, <2>2, <2>3 DEF CodeWritten
  <2> QED
    BY <1>0, <2>1, <2>4, LeadsWritten
<1>4. CASE UseCode(r) /\ ~Refuse(r)
  <2> DEFINE a == req[r].arg
             row == [db.code[a] EXCEPT !.state = "used"]
             table == [db.code EXCEPT ![a] = row]
  <2>1. db' = [db EXCEPT !.code = table] /\ db.code[a].state = "open"
    BY <1>1, <1>4 DEF UseCode, CodeUnused
  <2>2. a \in Users => row.login = db.code[a].login
    BY <1>0
  <2> HIDE DEF row
  <2>3. \A u \in Users : table[u] = IF u = a THEN row ELSE db.code[u]
    BY <1>0
  <2> HIDE DEF table
  <2>4. db'.code = table => CodeWritten(r)
    BY <1>0, <2>1, <2>2, <2>3 DEF CodeWritten
  <2> QED
    BY <1>0, <2>1, <2>4, LeadsWritten
<1> QED
  BY <1>2, <1>3, <1>4 DEF Refuse, GoOn

LEMMA AccountWrites ==
    ASSUME NamesInv, CredentialInv, NEW r \in Requests, CredentialMove(r)
    PROVE  Writes(r)
<1>0. CredentialShape /\ HistoryOK
  BY DEF CredentialInv
<1>1. \A statement, v, tables : Do(r, statement, v, tables) => db' = tables
  BY <1>0, DoEffect
<1>2. db' = db => Writes(r)
  BY SameWrites DEF SameUsers, SameLeads
<1>3. \A x :
          /\ db' = [db EXCEPT !.company = x] => Writes(r)
          /\ db' = [db EXCEPT !.member = x] => Writes(r)
          /\ db' = [db EXCEPT !.invite = x] => Writes(r)
          /\ db' = [db EXCEPT !.mailed = x] => Writes(r)
          /\ db' = [db EXCEPT !.bound = x] => Writes(r)
          /\ db' = [db EXCEPT !.sms = x] => Writes(r)
          /\ db' = [db EXCEPT !.oauth = x] => Writes(r)
          /\ db' = [db EXCEPT !.icode = x] => Writes(r)
          /\ db' = [db EXCEPT !.google = x] => Writes(r)
          /\ db' = [db EXCEPT !.synced = x] => Writes(r)
          /\ db' = [db EXCEPT !.relisted = x] => Writes(r)
  BY <1>0, OtherUserTables, SameWrites
<1>4. \A h, arg : Begin(r, h, arg) => Writes(r)
  BY <1>0, <1>2, BeginEffect
<1>5. CASE ArriveSession(r) \/ ArriveSignUp(r) \/ ArriveCompany(r) \/ ArriveGoogle(r)
  BY <1>4, <1>5 DEF ArriveSession, ArriveSignUp, ArriveCompany, ArriveGoogle
<1>6. CASE Killed(r)
  BY <1>1, <1>2, <1>6 DEF Killed
<1>7. CASE SessionStep(r) /\ ~ArriveSession(r)
  <2>1. CASE Refresh(r) \/ Login(r) \/ RequestReset(r) \/ IssueLink(r) \/ ConfirmReset(r) \/ Exchange(r) \/ AppleNative(r)
    BY <1>1, <1>2, <2>1 DEF Refresh, Login, RequestReset, IssueLink, ConfirmReset, Exchange, AppleNative, GoOn, End, Refuse
  <2>2. CASE FindIdentity(r) \/ OauthIdentity(r) \/ OauthEmail(r) \/ OauthLogin(r)
    BY <1>1, <1>2, <2>2 DEF FindIdentity, OauthIdentity, OauthEmail, OauthLogin, Found, GoOn, End, Refuse
  <2>3. CASE ClearCompany(r) \/ OauthStart(r) \/ OauthCallback(r) \/ AppleCallback(r)
    BY <1>1, <1>2, <1>3, <2>3 DEF ClearCompany, OauthStart, OauthCallback, AppleCallback, TakeState, GoOn, End, Refuse
  <2>4. CASE OauthInsert(r)
    BY <1>0, <1>7, <2>4, UserInserts DEF OauthInsert, At, Inserting
  <2> QED
    BY <1>0, <1>7, <2>1, <2>2, <2>3, <2>4, UserChanges, SocialTables, TokenLeads, LinkLeads, CodeLeads DEF SessionStep
<1>8. CASE SignUpStep(r) /\ ~ArriveSignUp(r)
  <2>1. CASE VerifyPhone(r) \/ Owner(r) \/ Me(r) \/ Providers(r) \/ Taken(r) \/ BindLogin(r) \/ BindPhone(r) \/ RacedUser(r)
    BY <1>1, <1>2, <2>1 DEF VerifyPhone, Owner, Me, Providers, Taken, BindLogin, BindPhone, RacedUser, GoOn, End, Refuse
  <2>2. CASE SendPhone(r) \/ Signup(r) \/ Verify(r) \/ EmailOwner(r)
    BY <1>1, <1>2, <2>2 DEF SendPhone, Signup, Verify, EmailOwner, GoOn, End, Refuse
  <2>3. CASE ConsumeOpen(r) \/ InsertCode(r) \/ Bump(r) \/ ConsumeCode(r) \/ BindPhoneInsert(r)
    BY <1>1, <1>2, <1>3, <2>3 DEF ConsumeOpen, InsertCode, Bump, ConsumeCode, BindPhoneInsert, GoOn, End, Refuse
  <2>4. CASE InsertUser(r) \/ InsertEmail(r) \/ CreateFromPending(r)
    <3>1. CASE req[r].at \in {"insertUser", "insertSocial", "insertPlain", "insertEmail"}
      BY <1>0, <1>8, <3>1, UserInserts DEF Inserting
    <3>2. CASE req[r].at \notin {"insertUser", "insertSocial", "insertPlain", "insertEmail"}
      BY <1>1, <1>2, <2>4, <3>2 DEF InsertUser, InsertEmail, CreateFromPending, InsertSocial, CreateRaced, At, GoOn, Refuse
    <3> QED
      BY <3>1, <3>2
  <2> QED
    BY <1>0, <1>8, <2>1, <2>2, <2>3, <2>4, UserChanges, SocialTables, LinkLeads DEF SignUpStep
<1>9. CASE CompanyStep(r) /\ ~ArriveCompany(r)
  <2>1. CASE \/ VerifyBusiness(r) \/ CompleteFirm(r) \/ InsertFirm(r) \/ InsertAdmin(r) \/ UndoFirm(r)
             \/ RequireAdmin(r, "invite", "inviteMember") \/ InviteMember(r) \/ InvitePending(r) \/ ResendMail(r)
    BY <1>1, <1>2, <1>3, <2>1 DEF VerifyBusiness, CompleteFirm, InsertFirm, InsertAdmin, UndoFirm, WithoutFirm, RequireAdmin,
       InviteMember, InvitePending, ResendMail, GoOn, End, Refuse
  <2>2. CASE ResendRow(r) \/ InviteCount(r) \/ InviteRow(r) \/ InviteMail(r) \/ InviteUndo(r) \/ AcceptInvite(r) \/ AcceptUser(r)
    BY <1>1, <1>2, <1>3, <2>2 DEF ResendRow, InviteCount, InviteRow, InviteMail, InviteUndo, AcceptInvite, AcceptUser,
       GoOn, End, Refuse
  <2>3. CASE Join(r)
    <3>1. CASE db' = db
      BY <1>2, <3>1
    <3>2. CASE db' # db
      <4>1. PICK x, y : db' = [[db EXCEPT !.invite = x] EXCEPT !.member = y]
        BY <1>1, <2>3, <3>2 DEF Join, Refuse, GoOn, End
      <4>2. SameUsers(db') /\ SameLeads(db') /\ db'.user = db.user
        BY <1>0, <4>1 DEF NamesInv, UserShape, CredentialShape, CredentialTables, SameUsers, SameLeads
      <4> QED
        BY <4>2, SameWrites
    <3> QED
      BY <3>1, <3>2
  <2>4. CASE \/ RequireAdmin(r, "removeMember", "removeTarget") \/ RemoveTarget(r) \/ CountAdmins(r)
             \/ RemoveRow(r) \/ RequireAdmin(r, "transferAdmin", "transferTarget")
             \/ TransferTarget(r) \/ Transfer(r) \/ TransferWrite(r)
    BY <1>1, <1>2, <1>3, <2>4 DEF RequireAdmin, RemoveTarget, CountAdmins, RemoveRow, TransferTarget, Transfer, TransferWrite,
       GoOn, End, Refuse
  <2>5. CASE DeleteAccount(r) \/ CancelPlans(r) \/ MarkFirm(r)
    BY <1>1, <1>2, <1>3, <2>5 DEF DeleteAccount, CancelPlans, MarkFirm, GoOn, End, Refuse
  <2> QED
    BY <1>0, <1>9, <2>1, <2>2, <2>3, <2>4, <2>5, UserChanges DEF CompanyStep
<1>10. CASE GoogleStep(r) /\ ~ArriveGoogle(r)
  <2>1. CASE GoogleConnect(r)
    <3>1. PICK x, y : db' = [[db EXCEPT !.oauth = x] EXCEPT !.asked = y]
      BY <1>1, <2>1 DEF GoogleConnect, End
    <3>2. SameUsers(db') /\ SameLeads(db') /\ db'.user = db.user
      BY <1>0, <3>1 DEF NamesInv, UserShape, CredentialShape, CredentialTables, SameUsers, SameLeads
    <3> QED
      BY <3>2, SameWrites
  <2>2. CASE Wipe(r)
    <3>1. PICK x, y, z : db' = [[[db EXCEPT !.google = x] EXCEPT !.synced = y] EXCEPT !.relisted = z]
      BY <1>1, <2>2 DEF Wipe, Wiped, End
    <3>2. SameUsers(db') /\ SameLeads(db') /\ db'.user = db.user
      BY <1>0, <3>1 DEF NamesInv, UserShape, CredentialShape, CredentialTables, SameUsers, SameLeads
    <3> QED
      BY <3>2, SameWrites
  <2>3. CASE GoogleCallback(r) \/ GoogleCode(r) \/ GoogleComplete(r) \/ UseIntegrationCode(r) \/ Connection(r) \/ GoogleDisconnect(r)
    BY <1>1, <1>2, <1>3, <2>3 DEF GoogleCallback, GoogleCode, GoogleComplete, UseIntegrationCode, Connection, PutIntegration,
       GoogleDisconnect, GoOn, End, Refuse
  <2>4. CASE GoogleSync(r) \/ Refreshed(r) \/ List(r) \/ Persist(r) \/ SyncRow(r)
    BY <1>1, <1>2, <1>3, <2>4 DEF GoogleSync, Refreshed, List, Persist, SyncRow, PutIntegration, GoOn, End, Refuse
  <2> QED
    BY <1>10, <2>1, <2>2, <2>3, <2>4 DEF GoogleStep
<1> QED
  BY <1>5, <1>6, <1>7, <1>8, <1>9, <1>10 DEF CredentialMove

\* The rows stay, and what leads to them is kept.
LEMMA NamesKept ==
    ASSUME NamesInv, CredentialInv, NEW r \in Requests, Open(r), CameWith(r), InHand(r), Writes(r)
    PROVE  /\ UserShape' /\ NamesLead'
           /\ \A u : Known(u) => Known(u)'
           /\ \A u \in Users : u # r /\ db.user[u] = Nil => db'.user[u] = Nil
           /\ db.user[r] = Nil /\ req'[r].at \notin Inserted => db'.user[r] = Nil
<1>1. UserShape' /\ UserShape /\ NamesLead /\ r \in Users
  BY DEF Writes, NamesInv, Users
<1>2. \A u : Known(u) => Known(u)'
  BY DEF Writes, UserWrites, RowSame, Signs, SetsPassword, SetsLogin, Known
<1>3. /\ \A u \in Users : u # r /\ db.user[u] = Nil => db'.user[u] = Nil
      /\ db.user[r] = Nil /\ req'[r].at \notin Inserted => db'.user[r] = Nil
  BY <1>1 DEF Writes, UserWrites, RowSame, Signs, SetsPassword, SetsLogin, Known
<1>4. \A u : \A l \in Logins : db'.identity[l] = u /\ u # Nil => Known(u)'
  <2>1. At(r, "bindLoginInsert") => Known(req[r].v)
    BY DEF InHand, HasUser, Links, At
  <2> QED
    BY <1>1, <1>2, <2>1 DEF Writes, IdentityWrites, UserShape, NamesLead
<1>5. \A u : \A t \in Users : db'.token[t].state # "none" /\ db'.token[t].user = u => Known(u)'
  <2>1. At(r, "issue") => Known(req[r].v)
    BY DEF InHand, HasUser, At
  <2> QED
    BY <1>1, <1>2, <2>1 DEF Writes, TokenWritten, NamesLead
<1>6. \A u : \A t \in Users : db'.link[t].kind = "RESET" /\ db'.link[t].owner = u => Known(u)'
  <2>1. At(r, "linkRow") => (req[r].v.kind = "RESET" => Known(req[r].v.owner))
    BY DEF InHand, At
  <2> QED
    BY <1>1, <1>2, <2>1 DEF Writes, LinkWritten, NamesLead
<1>7. \A t \in Users : db'.code[t].state # "none" => db'.code[t].login \in Logins
  <2>1. At(r, "mint") => req[r].arg.login \in Logins
    BY DEF InHand, CameWith, At, Open
  <2> QED
    BY <1>1, <2>1 DEF Writes, CodeWritten, NamesLead
<1>8. NamesLead'
  BY <1>4, <1>5, <1>6, <1>7 DEF NamesLead, Known
<1> QED
  BY <1>1, <1>2, <1>3, <1>8

\* What a request came with stays so.
LEMMA CameWithStays ==
    ASSUME NamesInv, CredentialInv, NEW m \in Requests, Open(m), Writes(m), NEW r \in Requests, ~At(r, "new"),
           \A u : Known(u) => Known(u)'
    PROVE  /\ req'[r].do = req[r].do /\ req'[r].arg = req[r].arg => CameWith(r)'
<1>1. CameWith(r) /\ CredentialThere(r)
  BY DEF NamesInv, CredentialInv
<1>2. ASSUME req[r].do = "confirmReset" PROVE db'.link[req[r].arg].kind = "RESET"
  <2>1. req[r].arg \in Users /\ db.link[req[r].arg].state # "none" /\ db.link[req[r].arg].kind = "RESET"
    BY <1>1, <1>2 DEF CredentialThere, OneUse, NameOf, NameIn, KindOf, State, CameWith, Callbacks
  <2>2. db.link[m].state = "none"
    BY DEF CredentialInv, FreshCredentials, Kinds, State, Open
  <2> QED
    BY <2>1, <2>2 DEF Writes, LinkWritten
<1> QED
  BY <1>1, <1>2 DEF CameWith

LEMMA NamesStep ==
    ASSUME NamesInv, CredentialInv, NEW r \in Requests, Moves(r), Open(r), Writes(r), InHand(r)',
           req'[r].do = req[r].do, req'[r].arg = req[r].arg,
           req[r].at \in Inserted => req'[r].at \in Inserted
    PROVE  NamesInv'
<1>1. CameWith(r) /\ InHand(r)
  BY DEF NamesInv
<1>2. /\ UserShape' /\ NamesLead'
      /\ \A u : Known(u) => Known(u)'
      /\ \A u \in Users : u # r /\ db.user[u] = Nil => db'.user[u] = Nil
      /\ db.user[r] = Nil /\ req'[r].at \notin Inserted => db'.user[r] = Nil
  BY <1>1, NamesKept
<1>3. \A s \in Requests : s # r => req'[s] = req[s]
  BY OthersStay DEF CredentialInv
<1>4. FreshUsers'
  <2> SUFFICES ASSUME NEW s \in Requests, req'[s].at \notin Inserted PROVE db'.user[s] = Nil
    BY DEF FreshUsers
  <2>1. s \in Users /\ (req[s].at \notin Inserted => db.user[s] = Nil)
    BY DEF NamesInv, FreshUsers, Users
  <2> QED
    BY <1>2, <1>3, <2>1
<1>5. ASSUME NEW s \in Requests PROVE CameWith(s)' /\ InHand(s)'
  <2>1. CASE s = r
    <3>1. ~At(r, "new")
      BY DEF Open
    <3> QED
      BY <1>2, <2>1, <3>1, CameWithStays
  <2>2. CASE s # r
    <3>1. CameWith(s) /\ InHand(s) /\ req'[s] = req[s]
      BY <1>3, <2>2 DEF NamesInv
    <3>2. CameWith(s)'
      BY <1>2, <3>1, CameWithStays DEF CameWith, At
    <3>3. InHand(s)'
      BY <1>2, <3>1 DEF InHand, At
    <3> QED
      BY <3>2, <3>3
  <2> QED
    BY <2>1, <2>2
<1> QED
  BY <1>2, <1>4, <1>5 DEF NamesInv

\* What a request has in its hand at the place it goes on to.
LEMMA Handed ==
    ASSUME CredentialInv, NEW r \in Requests, Open(r), \A u : Known(u) => Known(u)',
           NEW statement, NEW v, NEW tables, Do(r, statement, v, tables)
    PROVE  /\ statement \notin Places => InHand(r)'
           /\ statement \in HasUser \ (Links \cup Verifies) /\ (Known(v) \/ Known(v)') => InHand(r)'
           /\ statement \in Looks /\ v \in Logins => InHand(r)'
           /\ statement \in Verifies \ HasUser /\ req[r].do = "verifyPhone" => InHand(r)'
           /\ statement \in Creates /\ req[r].do = "verifyPhone" /\ req[r].arg.login # Nil => InHand(r)'
           /\ statement \in Links /\ req[r].do = "verifyPhone" /\ req[r].arg.login # Nil /\ (Known(v) \/ Known(v)') => InHand(r)'
           /\ statement \in {"bindPhone", "bindPhoneInsert"} /\ req[r].do = "verifyPhone" /\ (Known(v) \/ Known(v)') => InHand(r)'
           /\ statement = "dropSignup" /\ Known(r)' => InHand(r)'
           /\ statement \in {"issueLink", "linkRow"} /\ (v.kind = "RESET" => Known(v.owner)) => InHand(r)'
           /\ statement \in {"consumeVerify", "emailOwner", "insertEmail"} /\ v.pw \in Users \cup {Nil} => InHand(r)'
           /\ statement = "mint" /\ req[r].do \in {"oauthCallback", "appleCallback"} => InHand(r)'
           /\ statement = "useCode" /\ v.login \in Logins => InHand(r)'
           /\ statement \in {"markUser", "cancelPlans", "unmark"} /\ req[r].do = "deleteAccount" => InHand(r)'
<1>1. /\ req'[r].do = req[r].do /\ req'[r].arg = req[r].arg /\ req'[r].at = statement
      /\ statement \notin Ends => req'[r].v = v
  BY DoEffect DEF CredentialInv
<1>2. statement \in Places => req'[r].v = v
  BY <1>1 DEF Places, Verifies, Links, Creates, Looks, HasUser, Ends
<1>3. statement \notin Places => InHand(r)'
  BY <1>1 DEF InHand, At, Places
<1>4. statement \in HasUser \ (Links \cup Verifies) /\ (Known(v) \/ Known(v)') => InHand(r)'
  BY <1>1, <1>2 DEF InHand, At, Places, Verifies, Links, Creates, Looks, HasUser, Known
<1>5. statement \in Looks /\ v \in Logins => InHand(r)'
  BY <1>1, <1>2 DEF InHand, At, Places, Verifies, Links, Creates, Looks, HasUser
<1>6. statement \in Verifies \ HasUser /\ req[r].do = "verifyPhone" => InHand(r)'
  BY <1>1, <1>2 DEF InHand, At, Places, Verifies, Links, Creates, Looks, HasUser
<1>7. statement \in Creates /\ req[r].do = "verifyPhone" /\ req[r].arg.login # Nil => InHand(r)'
  BY <1>1, <1>2 DEF InHand, At, Places, Verifies, Links, Creates, Looks, HasUser
<1>8. statement \in Links /\ req[r].do = "verifyPhone" /\ req[r].arg.login # Nil /\ (Known(v) \/ Known(v)') => InHand(r)'
  BY <1>1, <1>2 DEF InHand, At, Places, Verifies, Links, Creates, Looks, HasUser, Known
<1>9. statement \in {"bindPhone", "bindPhoneInsert"} /\ req[r].do = "verifyPhone" /\ (Known(v) \/ Known(v)') => InHand(r)'
  BY <1>1, <1>2 DEF InHand, At, Places, Verifies, Links, Creates, Looks, HasUser, Known
<1>10. statement = "dropSignup" /\ Known(r)' => InHand(r)'
  BY <1>1, <1>2 DEF InHand, At, Places, Verifies, Links, Creates, Looks, HasUser, Known
<1>11. statement \in {"issueLink", "linkRow"} /\ (v.kind = "RESET" => Known(v.owner)) => InHand(r)'
  BY <1>1, <1>2 DEF InHand, At, Places, Verifies, Links, Creates, Looks, HasUser, Known
<1>12. /\ statement \in {"consumeVerify", "emailOwner", "insertEmail"} /\ v.pw \in Users \cup {Nil} => InHand(r)'
       /\ statement = "mint" /\ req[r].do \in {"oauthCallback", "appleCallback"} => InHand(r)'
       /\ statement = "useCode" /\ v.login \in Logins => InHand(r)'
       /\ statement \in {"markUser", "cancelPlans", "unmark"} /\ req[r].do = "deleteAccount" => InHand(r)'
  BY <1>1, <1>2 DEF InHand, At, Places, Verifies, Links, Creates, Looks, HasUser
<1> QED
  BY <1>3, <1>4, <1>5, <1>6, <1>7, <1>8, <1>9, <1>10, <1>11, <1>12

Lands(r) == Open(r) /\ InHand(r)' /\ (req[r].at \in Inserted => req'[r].at \in Inserted)

LEMMA SessionLands ==
    ASSUME NamesInv, CredentialInv, NEW r \in Requests, SessionStep(r), ~ArriveSession(r), \A u : Known(u) => Known(u)',
           Writes(r)
    PROVE  Lands(r)
<1>0. HistoryOK /\ CameWith(r) /\ InHand(r) /\ NamesLead /\ CredentialThere(r)
  BY DEF CredentialInv, NamesInv
<1>1. \A statement, v, tables : Do(r, statement, v, tables) => req'[r].at = statement
  BY <1>0, DoEffect
<1>2. ASSUME NEW statement \in {"ok", "refused", "killed", "revokeAll"}, NEW v, NEW tables, Do(r, statement, v, tables), Open(r),
             statement = "revokeAll" => req[r].at \notin Inserted
      PROVE  Lands(r)
  BY <1>1, <1>2, Handed DEF Lands, Inserted, Ends, Places, Verifies, Links, Creates, Looks, HasUser
<1>3. ASSUME NEW statement \in HasUser \ (Links \cup Verifies), NEW v, NEW tables, Do(r, statement, v, tables), Open(r), Known(v),
             statement \in Inserted \/ req[r].at \notin Inserted
      PROVE  Lands(r)
  BY <1>1, <1>3, Handed DEF Lands
<1>4. ASSUME NEW statement \in Looks, NEW v \in Logins, NEW tables, Do(r, statement, v, tables), Open(r), req[r].at \notin Inserted
      PROVE  Lands(r)
  BY <1>1, <1>4, Handed DEF Lands
<1>5. /\ {"clear", "clearCompany", "issue", "setPassword", "consumeReset", "rotate"} = HasUser \ (Links \cup Verifies)
      /\ {"clear", "clearCompany", "issue"} \subseteq Inserted
  BY DEF HasUser, Links, Verifies, Inserted
<1>6. CASE ClearUser(r) \/ ClearCompany(r) \/ Issue(r) \/ RevokeAll(r) \/ Logout(r)
  <2>1. Open(r)
    BY <1>6 DEF ClearUser, ClearCompany, Issue, RevokeAll, Logout, Open, Ended, Ends, At
  <2>2. CASE Issue(r) \/ RevokeAll(r) \/ Logout(r)
    BY <1>2, <2>1, <2>2 DEF Issue, RevokeAll, Logout, End
  <2>3. CASE ClearUser(r) \/ ClearCompany(r)
    <3>1. Known(req[r].v)
      BY <1>0, <2>3 DEF ClearUser, ClearCompany, InHand, HasUser, At
    <3> QED
      BY <1>3, <1>5, <2>1, <2>3, <3>1 DEF ClearUser, ClearCompany
  <2> QED
    BY <1>6, <2>2, <2>3
<1>7. CASE Refresh(r) \/ Rotate(r)
  <2>1. Open(r) /\ req[r].at \notin Inserted
    BY <1>7 DEF Refresh, Rotate, Open, Ended, Ends, At, Inserted
  <2>2. CASE Refresh(r)
    <3>1. req[r].do = "refresh" /\ req[r].arg \in Users
      BY <1>0, <2>1, <2>2 DEF Refresh, InHand, At, CredentialThere, OneUse, NameOf, NameIn, Callbacks, Open
    <3>2. db.token[req[r].arg].state = "live" => Known(db.token[req[r].arg].user)
      BY <1>0, <3>1 DEF NamesLead
    <3> QED
      BY <1>2, <1>3, <1>5, <2>1, <2>2, <3>2 DEF Refresh, GoOn, Refuse
  <2>3. CASE Rotate(r)
    <3>1. Known(req[r].v)
      BY <1>0, <2>3 DEF Rotate, InHand, HasUser, At
    <3> QED
      BY <1>2, <1>3, <1>5, <2>1, <2>3, <3>1 DEF Rotate, GoOn
  <2> QED
    BY <1>7, <2>2, <2>3
<1>8. CASE Login(r) \/ RequestReset(r) \/ IssueLink(r) \/ LinkRow(r)
  <2>1. Open(r) /\ req[r].at \notin Inserted /\ \A u \in ByEmail : Known(u)
    BY <1>8 DEF Login, RequestReset, IssueLink, LinkRow, Open, Ended, Ends, At, Inserted, ByEmail, Known
  <2>2. \A statement, v : GoOn(r, statement, v) /\ statement \in {"issueLink", "linkRow"} /\ (v.kind = "RESET" => Known(v.owner)) => Lands(r)
    BY <1>1, <2>1, Handed DEF GoOn, Lands
  <2>3. CASE Login(r)
    BY <1>2, <1>3, <1>5, <2>1, <2>3 DEF Login, GoOn, Refuse
  <2>4. CASE RequestReset(r)
    BY <1>2, <2>1, <2>2, <2>4 DEF RequestReset, End
  <2>5. CASE IssueLink(r)
    <3>1. req[r].v.kind = "RESET" => Known(req[r].v.owner)
      BY <1>0, <2>5 DEF IssueLink, InHand, At
    <3> QED
      BY <2>2, <2>5, <3>1 DEF IssueLink
  <2>6. CASE LinkRow(r)
    BY <1>2, <2>1, <2>6 DEF LinkRow, Refuse
  <2> QED
    BY <1>8, <2>3, <2>4, <2>5, <2>6
<1>9. CASE ConfirmReset(r) \/ ConsumeLink(r, "consumeReset", "setPassword") \/ SetPassword(r)
  <2>1. Open(r) /\ req[r].at \notin Inserted
    BY <1>9 DEF ConfirmReset, ConsumeLink, SetPassword, Open, Ended, Ends, At, Inserted
  <2>2. CASE ConfirmReset(r)
    <3>1. req[r].do = "confirmReset" /\ req[r].arg \in Users
      BY <1>0, <2>1, <2>2 DEF ConfirmReset, InHand, At, CredentialThere, OneUse, NameOf, NameIn, Callbacks, Open
    <3>2. Known(db.link[req[r].arg].owner)
      BY <1>0, <2>1, <3>1 DEF NamesLead, CameWith, Open
    <3> QED
      BY <1>2, <1>3, <1>5, <2>1, <2>2, <3>2 DEF ConfirmReset, GoOn, Refuse
  <2>3. CASE ConsumeLink(r, "consumeReset", "setPassword")
    <3>1. Known(req[r].v)
      BY <1>0, <2>3 DEF ConsumeLink, InHand, HasUser, At
    <3> QED
      BY <1>2, <1>3, <1>5, <2>1, <2>3, <3>1 DEF ConsumeLink, Refuse
  <2>4. CASE SetPassword(r)
    BY <1>2, <2>1, <2>4 DEF SetPassword
  <2> QED
    BY <1>9, <2>2, <2>3, <2>4
<1>10. CASE OauthStart(r) \/ OauthCallback(r) \/ AppleCallback(r) \/ MintCode(r)
  <2>1. Open(r) /\ req[r].at \notin Inserted
    BY <1>10 DEF OauthStart, OauthCallback, AppleCallback, TakeState, MintCode, Open, Ended, Ends, At, Inserted
  <2>2. CASE OauthStart(r) \/ MintCode(r)
    BY <1>2, <2>1, <2>2 DEF OauthStart, MintCode, End, Refuse
  <2>3. CASE OauthCallback(r) \/ AppleCallback(r)
    <3>1. req[r].do \in {"oauthCallback", "appleCallback"}
      BY <1>0, <2>3 DEF InHand, OauthCallback, AppleCallback, TakeState, At
    <3>2. \A v, tables : Do(r, "mint", v, tables) => Lands(r)
      BY <1>1, <2>1, <3>1, Handed DEF Lands
    <3> QED
      BY <1>2, <2>1, <2>3, <3>2 DEF OauthCallback, AppleCallback, TakeState, Refuse
  <2> QED
    BY <1>10, <2>2, <2>3
<1>11. CASE Exchange(r) \/ UseCode(r) \/ AppleNative(r)
  <2>1. Open(r) /\ req[r].at \notin Inserted /\ {"findIdentity", "oauthIdentity"} \subseteq Looks
    BY <1>11 DEF Exchange, UseCode, AppleNative, Open, Ended, Ends, At, Inserted, Looks
  <2>2. CASE Exchange(r)
    <3>1. req[r].do = "exchange" /\ req[r].arg \in Users
      BY <1>0, <2>1, <2>2 DEF Exchange, InHand, At, CredentialThere, OneUse, NameOf, NameIn, Callbacks, Open
    <3>2. db.code[req[r].arg].state = "open" => db.code[req[r].arg].login \in Logins
      BY <1>0, <3>1 DEF NamesLead
    <3>3. \A v : GoOn(r, "useCode", v) /\ v.login \in Logins => Lands(r)
      BY <1>1, <2>1, Handed DEF GoOn, Lands
    <3> QED
      BY <1>2, <2>1, <2>2, <3>2, <3>3 DEF Exchange, Refuse
  <2>3. CASE UseCode(r)
    <3>1. req[r].v.login \in Logins
      BY <1>0, <2>3 DEF UseCode, InHand, At
    <3> QED
      BY <1>2, <1>4, <2>1, <2>3, <3>1 DEF UseCode, Refuse
  <2>4. CASE AppleNative(r)
    <3>1. req[r].arg \in Logins
      BY <1>0, <2>1, <2>4 DEF AppleNative, InHand, CameWith, At, Open
    <3> QED
      BY <1>4, <2>1, <2>4, <3>1 DEF AppleNative, GoOn
  <2> QED
    BY <1>11, <2>2, <2>3, <2>4
<1>12. CASE FindIdentity(r) \/ FindLogin(r) \/ OauthIdentity(r) \/ OauthEmail(r) \/ OauthLogin(r)
  <2>1. /\ Open(r) /\ req[r].at \notin Inserted /\ req[r].v \in Logins
        /\ {"findLogin", "oauthEmail", "oauthLogin", "oauthInsert"} \subseteq Looks
    BY <1>0, <1>12 DEF FindIdentity, FindLogin, OauthIdentity, OauthEmail, OauthLogin, InHand, Open, Ended, Ends, At, Inserted, Looks
  <2>2. \A u, kind : Found(r, u, kind) /\ Known(u) => Lands(r)
    BY <1>2, <1>3, <1>5, <2>1 DEF Found, GoOn, Refuse
  <2>3. (\A u \in ByEmail \cup ByLogin(req[r].v) : Known(u)) /\ (db.identity[req[r].v] # Nil => Known(db.identity[req[r].v]))
    BY <1>0, <2>1 DEF ByEmail, ByLogin, Known, NamesLead
  <2>4. CASE FindIdentity(r) \/ OauthIdentity(r)
    BY <1>2, <1>4, <2>1, <2>2, <2>3, <2>4 DEF FindIdentity, OauthIdentity, GoOn, Refuse
  <2>5. CASE FindLogin(r) \/ OauthEmail(r) \/ OauthLogin(r)
    BY <1>2, <1>4, <2>1, <2>2, <2>3, <2>5 DEF FindLogin, OauthEmail, OauthLogin, GoOn, Refuse, End
  <2> QED
    BY <1>12, <2>4, <2>5
<1>13. CASE OauthInsert(r)
  <2>1. /\ Open(r) /\ req[r].at = "oauthInsert" /\ req[r].at \notin Inserted /\ "clear" \in HasUser \ (Links \cup Verifies)
    BY <1>5, <1>13 DEF OauthInsert, Open, Ended, Ends, At, Inserted
  <2>2. \A u : Found(r, u, "EMPLOYER") /\ Known(u) => Lands(r)
    BY <1>2, <1>3, <1>5, <2>1 DEF Found, GoOn, Refuse
  <2>3. \A u \in ByEmail : Known(u)
    BY DEF ByEmail, Known
  <2>4. \A tables : Do(r, "clear", r, tables) => Lands(r)
    <3> SUFFICES ASSUME NEW tables, Do(r, "clear", r, tables) PROVE Lands(r)
      OBVIOUS
    <3>1. req'[r].at = "clear" /\ req'[r].v = r
      BY <1>0, DoEffect DEF Ends
    <3>2. Known(r)'
      BY <1>0, <1>13, <2>1, <3>1, UserInserts DEF SessionStep, CredentialInv, Inserting
    <3> QED
      BY <2>1, <3>1, <3>2, Handed DEF Lands
  <2> QED
    BY <1>2, <1>13, <2>1, <2>2, <2>3, <2>4 DEF OauthInsert, Refuse
<1> QED
  BY <1>6, <1>7, <1>8, <1>9, <1>10, <1>11, <1>12, <1>13 DEF SessionStep

LEMMA SignUpLands ==
    ASSUME NamesInv, CredentialInv, NEW r \in Requests, SignUpStep(r), ~ArriveSignUp(r), \A u : Known(u) => Known(u)'
    PROVE  Lands(r)
<1>0. HistoryOK /\ CredentialShape /\ CameWith(r) /\ InHand(r) /\ UserShape
  BY DEF CredentialInv, NamesInv
<1>1. \A statement, v, tables : Do(r, statement, v, tables) => req'[r].at = statement
  BY <1>0, DoEffect
<1>2. ASSUME NEW statement \in {"ok", "refused", "consumeOpen", "insertCode", "bump", "upsertSignup"}, NEW v, NEW tables,
             Do(r, statement, v, tables), Open(r), statement \notin {"ok", "refused"} => req[r].at \notin Inserted
      PROVE  Lands(r)
  BY <1>1, <1>2, Handed DEF Lands, Inserted, Ends, Places, Verifies, Links, Creates, Looks, HasUser
<1>3. ASSUME NEW statement \in {"expireCode", "consumeCode", "owner", "insertUser", "racedUser"}, NEW v, NEW tables,
             Do(r, statement, v, tables), Open(r), req[r].do = "verifyPhone", req[r].at \notin Inserted
      PROVE  Lands(r)
  <2>1. statement \in Verifies \ HasUser
    BY <1>3 DEF Verifies, HasUser, Links
  <2> QED
    BY <1>3, <2>1, Handed DEF Lands
<1>4. ASSUME NEW statement \in Creates, NEW v, NEW tables, Do(r, statement, v, tables), Open(r),
             req[r].do = "verifyPhone", req[r].arg.login # Nil, req[r].at \notin Inserted
      PROVE  Lands(r)
  BY <1>4, Handed DEF Lands
<1>5. ASSUME NEW statement \in Links, NEW v, NEW tables, Do(r, statement, v, tables), Open(r),
             req[r].do = "verifyPhone", req[r].arg.login # Nil, Known(v) \/ Known(v)',
             statement \in Inserted \/ req[r].at \notin Inserted
      PROVE  Lands(r)
  BY <1>1, <1>5, Handed DEF Lands
<1>6. ASSUME NEW statement \in {"bindPhone", "bindPhoneInsert"}, NEW v, NEW tables, Do(r, statement, v, tables), Open(r),
             req[r].do = "verifyPhone", Known(v) \/ Known(v)'
      PROVE  Lands(r)
  BY <1>1, <1>6, Handed DEF Lands, Inserted
<1>7. ASSUME NEW statement \in {"clear", "issue"}, NEW v, NEW tables, Do(r, statement, v, tables), Open(r), Known(v) \/ Known(v)'
      PROVE  Lands(r)
  <2>1. statement \in HasUser \ (Links \cup Verifies)
    BY <1>7 DEF HasUser, Links, Verifies
  <2> QED
    BY <1>1, <1>7, <2>1, Handed DEF Lands, Inserted
<1>8. \A u \in ByPhone(req[r].arg.phone) : Known(u)
  BY DEF ByPhone, Known
<1>9. CASE SendPhone(r) \/ ConsumeOpen(r) \/ InsertCode(r)
  <2>1. Open(r) /\ req[r].at \notin Inserted
    BY <1>9 DEF SendPhone, ConsumeOpen, InsertCode, Open, Ended, Ends, At, Inserted
  <2> QED
    BY <1>2, <1>9, <2>1 DEF SendPhone, ConsumeOpen, InsertCode, GoOn, Refuse
<1>10. CASE VerifyPhone(r) \/ Bump(r) \/ ConsumeCode(r)
  <2>1. Open(r) /\ req[r].at \notin Inserted
    BY <1>10 DEF VerifyPhone, Bump, ConsumeCode, Open, Ended, Ends, At, Inserted
  <2>2. CASE Bump(r)
    BY <1>2, <2>1, <2>2 DEF Bump
  <2>3. CASE VerifyPhone(r) \/ ConsumeCode(r)
    <3>1. req[r].do = "verifyPhone"
      BY <1>0, <2>3 DEF VerifyPhone, ConsumeCode, InHand, Verifies, At
    <3> QED
      BY <1>2, <1>3, <2>1, <2>3, <3>1 DEF VerifyPhone, ConsumeCode, GoOn, Refuse
  <2> QED
    BY <1>10, <2>2, <2>3
<1>11. CASE Owner(r)
  <2>1. Open(r) /\ req[r].at \notin Inserted /\ req[r].do = "verifyPhone" /\ "me" \in Links /\ "insertSocial" \in Creates
    BY <1>0, <1>11 DEF Owner, InHand, Verifies, Links, Creates, Open, Ended, Ends, At, Inserted
  <2> QED
    BY <1>3, <1>4, <1>5, <1>6, <1>8, <1>11, <2>1 DEF Owner, Pending, GoOn
<1>12. CASE Me(r) \/ Providers(r) \/ Taken(r) \/ SetSocial(r)
  <2>1. /\ Open(r) /\ req[r].at \notin Inserted /\ req[r].do = "verifyPhone" /\ req[r].arg.login # Nil /\ Known(req[r].v)
        /\ {"providers", "taken", "setSocial", "bindLogin"} \subseteq Links
    BY <1>0, <1>12 DEF Me, Providers, Taken, SetSocial, InHand, HasUser, Links, Open, Ended, Ends, At, Inserted
  <2> QED
    BY <1>2, <1>5, <1>12, <2>1 DEF Me, Providers, Taken, SetSocial, GoOn, Refuse
<1>13. CASE BindLogin(r) \/ BindLoginInsert(r)
  <2>1. /\ Open(r) /\ req[r].do = "verifyPhone" /\ req[r].arg.login # Nil /\ Known(req[r].v)
        /\ "bindLoginInsert" \in Links \cap Inserted
    BY <1>0, <1>13 DEF BindLogin, BindLoginInsert, InHand, HasUser, Links, Open, Ended, Ends, At, Inserted
  <2> QED
    BY <1>2, <1>5, <1>6, <1>13, <2>1 DEF BindLogin, BindLoginInsert, GoOn, Refuse
<1>14. CASE BindPhone(r) \/ BindPhoneInsert(r)
  <2>1. Open(r) /\ req[r].do = "verifyPhone" /\ Known(req[r].v)
    BY <1>0, <1>14 DEF BindPhone, BindPhoneInsert, InHand, Verifies, HasUser, Open, Ended, Ends, At
  <2> QED
    BY <1>2, <1>6, <1>7, <1>14, <2>1 DEF BindPhone, BindPhoneInsert, GoOn, Refuse
<1>15. \A statement, tables : Do(r, statement, r, tables) /\ statement \in {"bindPhone", "bindLogin"} /\ req[r].at \in {"insertUser", "insertSocial", "insertPlain"} => Known(r)'
  <2> SUFFICES ASSUME NEW statement, NEW tables, Do(r, statement, r, tables), statement \in {"bindPhone", "bindLogin"},
                      req[r].at \in {"insertUser", "insertSocial", "insertPlain"}
               PROVE  Known(r)'
    OBVIOUS
  <2>1. req'[r].at = statement /\ req'[r].v = r
    BY <1>0, DoEffect DEF Ends
  <2> QED
    BY <1>0, <2>1, UserInserts DEF Inserting
<1>16. CASE InsertUser(r) \/ RacedUser(r)
  <2>1. Open(r) /\ req[r].at \notin Inserted /\ req[r].do = "verifyPhone"
    BY <1>0, <1>16 DEF InsertUser, RacedUser, InHand, Verifies, Open, Ended, Ends, At, Inserted
  <2>2. CASE InsertUser(r)
    BY <1>3, <1>6, <1>15, <2>1, <2>2 DEF InsertUser, GoOn, At
  <2>3. CASE RacedUser(r)
    BY <1>6, <1>8, <2>1, <2>3 DEF RacedUser, GoOn
  <2> QED
    BY <1>16, <2>2, <2>3
<1>17. CASE CreateFromPending(r)
  <2>1. /\ Open(r) /\ req[r].at \notin Inserted /\ req[r].do = "verifyPhone" /\ req[r].arg.login # Nil
        /\ {"insertSocial", "raced", "insertPlain", "racedAgain"} = Creates /\ {"me", "bindLogin"} \subseteq Links
    BY <1>0, <1>17 DEF CreateFromPending, InsertSocial, CreateRaced, InHand, Creates, Links, Open, Ended, Ends, At, Inserted
  <2>2. ASSUME NEW at \in {"insertSocial", "insertPlain"}, NEW raced \in Creates, NEW email, InsertSocial(r, at, raced, email)
        PROVE  Lands(r)
    BY <1>4, <1>5, <1>15, <2>1, <2>2 DEF InsertSocial, GoOn, At
  <2>3. ASSUME NEW at, NEW retry, CreateRaced(r, at, retry)
        PROVE  Lands(r)
    BY <1>2, <1>4, <1>5, <1>8, <2>1, <2>3 DEF CreateRaced, GoOn, Refuse
  <2> QED
    BY <1>17, <2>1, <2>2, <2>3 DEF CreateFromPending
<1>18. ASSUME NEW statement \in {"consumeVerify", "emailOwner", "insertEmail"}, NEW v, NEW tables, Do(r, statement, v, tables), Open(r),
              v.pw \in Users \cup {Nil}, req[r].at \notin Inserted
       PROVE  Lands(r)
  BY <1>18, Handed DEF Lands
<1>19. CASE Signup(r) \/ UpsertSignup(r)
  <2>1. Open(r) /\ req[r].at \notin Inserted
    BY <1>19 DEF Signup, UpsertSignup, Open, Ended, Ends, At, Inserted
  <2>2. \A v, tables : Do(r, "issueLink", v, tables) /\ v.kind = "VERIFY" => Lands(r)
    BY <2>1, Handed DEF Lands
  <2> QED
    BY <1>2, <1>19, <2>1, <2>2 DEF Signup, UpsertSignup, GoOn, Refuse
<1>20. CASE Verify(r) \/ ConsumeLink(r, "consumeVerify", "emailOwner") \/ EmailOwner(r)
  <2>1. Open(r) /\ req[r].at \notin Inserted /\ db.signup.pw \in Users \cup {Nil}
    BY <1>0, <1>20 DEF Verify, ConsumeLink, EmailOwner, Open, Ended, Ends, At, Inserted, UserShape
  <2>2. CASE Verify(r)
    BY <1>2, <1>18, <2>1, <2>2 DEF Verify, GoOn, Refuse
  <2>3. CASE ConsumeLink(r, "consumeVerify", "emailOwner") \/ EmailOwner(r)
    <3>1. req[r].v.pw \in Users \cup {Nil}
      BY <1>0, <2>3 DEF ConsumeLink, EmailOwner, InHand, At
    <3> QED
      BY <1>2, <1>18, <2>1, <2>3, <3>1 DEF ConsumeLink, EmailOwner, GoOn, Refuse
  <2> QED
    BY <1>20, <2>2, <2>3
<1>21. CASE InsertEmail(r)
  <2>1. Open(r) /\ req[r].at = "insertEmail" /\ req[r].at \notin Inserted
    BY <1>21 DEF InsertEmail, Open, Ended, Ends, At, Inserted
  <2>2. \A v, tables : Do(r, "dropSignup", v, tables) => Lands(r)
    <3> SUFFICES ASSUME NEW v, NEW tables, Do(r, "dropSignup", v, tables) PROVE Lands(r)
      OBVIOUS
    <3>1. Known(r)'
      BY <1>0, <1>1, <2>1, UserInserts DEF At, Inserting
    <3> QED
      BY <2>1, <3>1, Handed DEF Lands
  <2> QED
    BY <1>2, <1>21, <2>1, <2>2 DEF InsertEmail, Refuse
<1>22. CASE DropSignup(r)
  <2>1. Open(r) /\ Known(r)
    BY <1>0, <1>22 DEF DropSignup, InHand, Open, Ended, Ends, At
  <2> QED
    BY <1>7, <1>22, <2>1 DEF DropSignup
<1> QED
  BY <1>9, <1>10, <1>11, <1>12, <1>13, <1>14, <1>16, <1>17, <1>19, <1>20, <1>21, <1>22 DEF SignUpStep

FirmPlaces == {"ok", "refused", "revokeAll", "completeFirm", "insertFirm", "insertAdmin", "undoFirm", "inviteMember", "invitePending", "resendMail",
               "resendRow", "inviteCount", "inviteRow", "inviteMail", "inviteUndo", "acceptUser", "join", "removeTarget",
               "countAdmins", "removeRow", "transferTarget", "transfer", "transferWrite", "markFirm"}
GooglePlaces == {"ok", "refused", "googleCode", "useIntegrationCode", "connection", "wipe", "refreshed", "list", "persist", "syncRow"}

LEMMA CompanyLands ==
    ASSUME NamesInv, CredentialInv, NEW r \in Requests, CompanyStep(r), ~ArriveCompany(r), \A u : Known(u) => Known(u)'
    PROVE  Lands(r)
<1>0. HistoryOK /\ InHand(r)
  BY DEF CredentialInv, NamesInv
<1>1. ASSUME NEW statement \in FirmPlaces, NEW v, NEW tables, Do(r, statement, v, tables), Open(r), req[r].at \notin Inserted
      PROVE  Lands(r)
  <2>1. statement \notin Places
    BY <1>1 DEF FirmPlaces, Places, Verifies, Links, Creates, Looks, HasUser
  <2> QED
    BY <1>1, <2>1, Handed DEF Lands
<1>2. FirmPlaces = {"ok", "refused", "revokeAll", "completeFirm", "insertFirm", "insertAdmin", "undoFirm", "inviteMember", "invitePending", "resendMail",
               "resendRow", "inviteCount", "inviteRow", "inviteMail", "inviteUndo", "acceptUser", "join", "removeTarget",
               "countAdmins", "removeRow", "transferTarget", "transfer", "transferWrite", "markFirm"}
  BY DEF FirmPlaces
<1>3. CASE \/ VerifyBusiness(r) \/ CompleteFirm(r) \/ InsertFirm(r) \/ InsertAdmin(r) \/ UndoFirm(r)
  <2>1. Open(r) /\ req[r].at \notin Inserted
    BY <1>3 DEF VerifyBusiness, CompleteFirm, InsertFirm, InsertAdmin, UndoFirm, Open, Ended, Ends, At, Inserted
  <2> QED
    BY <1>1, <1>2, <1>3, <2>1 DEF VerifyBusiness, CompleteFirm, InsertFirm, InsertAdmin, UndoFirm, Refuse, GoOn, End
<1>4. CASE \/ RequireAdmin(r, "invite", "inviteMember") \/ InviteMember(r) \/ InvitePending(r) \/ ResendMail(r) \/ ResendRow(r)
  <2>1. Open(r) /\ req[r].at \notin Inserted
    BY <1>4 DEF RequireAdmin, InviteMember, InvitePending, ResendMail, ResendRow, Open, Ended, Ends, At, Inserted
  <2> QED
    BY <1>1, <1>2, <1>4, <2>1 DEF RequireAdmin, InviteMember, InvitePending, ResendMail, ResendRow, Refuse, GoOn, End
<1>5. CASE InviteCount(r) \/ InviteRow(r) \/ InviteMail(r) \/ InviteUndo(r) \/ AcceptInvite(r) \/ AcceptUser(r) \/ Join(r)
  <2>1. Open(r) /\ req[r].at \notin Inserted
    BY <1>5 DEF InviteCount, InviteRow, InviteMail, InviteUndo, AcceptInvite, AcceptUser, Join, Open, Ended, Ends, At, Inserted
  <2> QED
    BY <1>1, <1>2, <1>5, <2>1 DEF InviteCount, InviteRow, InviteMail, InviteUndo, AcceptInvite, AcceptUser, Join, Refuse, GoOn, End
<1>6. CASE \/ RequireAdmin(r, "removeMember", "removeTarget") \/ RemoveTarget(r) \/ CountAdmins(r) \/ RemoveRow(r)
           \/ RequireAdmin(r, "transferAdmin", "transferTarget") \/ TransferTarget(r) \/ Transfer(r) \/ TransferWrite(r)
  <2>1. Open(r) /\ req[r].at \notin Inserted
    BY <1>6 DEF RequireAdmin, RemoveTarget, CountAdmins, RemoveRow, TransferTarget, Transfer, TransferWrite, Open, Ended, Ends, At, Inserted
  <2> QED
    BY <1>1, <1>2, <1>6, <2>1 DEF RequireAdmin, RemoveTarget, CountAdmins, RemoveRow, TransferTarget, Transfer, TransferWrite,
       Refuse, GoOn, End
<1>7. CASE DeleteAccount(r) \/ MarkUser(r) \/ CancelPlans(r) \/ Unmark(r) \/ MarkFirm(r)
  <2>1. Open(r) /\ req[r].at \notin Inserted
    BY <1>7 DEF DeleteAccount, MarkUser, CancelPlans, Unmark, MarkFirm, Open, Ended, Ends, At, Inserted
  <2>2. ~At(r, "markFirm") => req[r].do = "deleteAccount"
    BY <1>0, <1>7 DEF DeleteAccount, MarkUser, CancelPlans, Unmark, MarkFirm, InHand, At
  <2>3. \A statement, v, tables :
           Do(r, statement, v, tables) /\ statement \in {"markUser", "cancelPlans", "unmark"} /\ req[r].do = "deleteAccount" =>
              Lands(r)
    BY <2>1, Handed DEF Lands
  <2>4. CASE DeleteAccount(r)
    BY <1>1, <1>2, <2>1, <2>2, <2>3, <2>4 DEF DeleteAccount, Refuse, GoOn, At
  <2>5. CASE CancelPlans(r)
    BY <1>1, <1>2, <2>1, <2>2, <2>3, <2>5 DEF CancelPlans, GoOn, At
  <2>6. CASE MarkUser(r) \/ Unmark(r) \/ MarkFirm(r)
    BY <1>1, <1>2, <2>1, <2>2, <2>3, <2>6 DEF MarkUser, Unmark, MarkFirm, At
  <2> QED
    BY <1>7, <2>4, <2>5, <2>6
<1> QED
  BY <1>3, <1>4, <1>5, <1>6, <1>7 DEF CompanyStep

LEMMA GoogleLands ==
    ASSUME NamesInv, CredentialInv, NEW r \in Requests, GoogleStep(r), ~ArriveGoogle(r), \A u : Known(u) => Known(u)'
    PROVE  Lands(r)
<1>0. HistoryOK
  BY DEF CredentialInv
<1>1. ASSUME NEW statement \in GooglePlaces, NEW v, NEW tables, Do(r, statement, v, tables), Open(r), req[r].at \notin Inserted
      PROVE  Lands(r)
  <2>1. statement \notin Places
    BY <1>1 DEF GooglePlaces, Places, Verifies, Links, Creates, Looks, HasUser
  <2> QED
    BY <1>1, <2>1, Handed DEF Lands
<1>2. GooglePlaces = {"ok", "refused", "googleCode", "useIntegrationCode", "connection", "wipe", "refreshed", "list", "persist", "syncRow"}
  BY DEF GooglePlaces
<1>3. CASE \/ GoogleConnect(r) \/ GoogleCallback(r) \/ GoogleCode(r) \/ GoogleComplete(r)
           \/ UseIntegrationCode(r) \/ Connection(r) \/ GoogleDisconnect(r) \/ Wipe(r)
  <2>1. Open(r) /\ req[r].at \notin Inserted
    BY <1>3 DEF GoogleConnect, GoogleCallback, GoogleCode, GoogleComplete, UseIntegrationCode, Connection,
       GoogleDisconnect, Wipe, Open, Ended, Ends, At, Inserted
  <2> QED
    BY <1>1, <1>2, <1>3, <2>1 DEF GoogleConnect, GoogleCallback, GoogleCode, GoogleComplete, UseIntegrationCode, Connection,
       GoogleDisconnect, Wipe, Refuse, GoOn, End
<1>4. CASE GoogleSync(r) \/ Refreshed(r) \/ List(r) \/ Persist(r) \/ SyncRow(r)
  <2>1. Open(r) /\ req[r].at \notin Inserted
    BY <1>4 DEF GoogleSync, Refreshed, List, Persist, SyncRow, Open, Ended, Ends, At, Inserted
  <2>2. CASE GoogleSync(r) \/ Refreshed(r)
    BY <1>1, <1>2, <2>1, <2>2 DEF GoogleSync, Refreshed, Refuse, GoOn
  <2>3. CASE List(r)
    BY <1>1, <1>2, <2>1, <2>3 DEF List, Refuse
  <2>4. CASE Persist(r)
    BY <1>1, <1>2, <2>1, <2>4 DEF Persist, Refuse, GoOn
  <2>5. CASE SyncRow(r)
    BY <1>1, <1>2, <2>1, <2>5 DEF SyncRow, Refuse
  <2> QED
    BY <1>4, <2>2, <2>3, <2>4, <2>5
<1> QED
  BY <1>3, <1>4 DEF GoogleStep

LEMMA BeginNames ==
    ASSUME NamesInv, CredentialInv, NEW r \in Requests, NEW h \in CredentialHandlers, NEW arg, Begin(r, h, arg),
           h = "verifyPhone" => arg.phone \in Phones /\ arg.login \in Logins \cup {Nil},
           h = "deleteAccount" => Known(arg.by),
           h \in {"oauthCallback", "appleCallback"} => arg.login \in Logins,
           h = "appleNative" => arg \in Logins,
           h = "confirmReset" => db.link[arg].kind = "RESET"
    PROVE  NamesInv'
<1>1. /\ req'[r].do = h /\ req'[r].at = h /\ req'[r].arg = arg /\ db' = db /\ req[r].at = "new"
      /\ \A s \in Requests : s # r => req'[s] = req[s]
  BY BeginRequest, BeginEffect DEF CredentialInv, At
<1>2. UserShape' /\ NamesLead' /\ \A u : Known(u)' <=> Known(u)
  BY <1>1 DEF NamesInv, UserShape, NamesLead, Known
<1>3. FreshUsers'
  BY <1>1 DEF NamesInv, FreshUsers, Inserted, Ends
<1>4. CameWith(r)'
  BY <1>1, <1>2 DEF CameWith
<1>5. h \in CredentialHandlers /\ h \notin Links \cup Creates \cup Looks \cup HasUser \cup
         {"mint", "markUser", "cancelPlans", "unmark", "useCode", "dropSignup", "issueLink", "linkRow", "consumeVerify",
          "emailOwner", "insertEmail"}
  BY DEF CredentialHandlers, OneUse, Links, Creates, Looks, HasUser
<1>6. h \in Verifies => h = "verifyPhone"
  BY <1>5 DEF Verifies, CredentialHandlers, OneUse
<1>7. InHand(r)'
  BY <1>1, <1>5, <1>6 DEF InHand, At
<1>8. ASSUME NEW s \in Requests, s # r PROVE CameWith(s)' /\ InHand(s)'
  <2>1. CameWith(s) /\ InHand(s) /\ req'[s] = req[s]
    BY <1>1, <1>8 DEF NamesInv
  <2>2. CameWith(s)'
    BY <1>1, <1>2, <2>1 DEF CameWith, At
  <2>3. InHand(s)'
    BY <1>1, <1>2, <2>1 DEF InHand, At
  <2> QED
    BY <2>2, <2>3
<1> QED
  BY <1>2, <1>3, <1>4, <1>7, <1>8 DEF NamesInv

LEMMA ArrivalNames ==
    ASSUME NamesInv, CredentialInv, NEW r \in Requests,
           ArriveSession(r) \/ ArriveSignUp(r) \/ ArriveCompany(r) \/ ArriveGoogle(r)
    PROVE  NamesInv'
<1>1. \A h, arg :
         /\ h \in CredentialHandlers \ {"verifyPhone", "deleteAccount", "oauthCallback", "appleCallback", "appleNative", "confirmReset"}
         /\ Begin(r, h, arg)
         => NamesInv'
  BY BeginNames
<1>2. /\ {"login", "requestReset", "oauthStart", "sendPhone", "signup", "verifyBusiness", "acceptInvite", "removeMember",
          "transferAdmin", "invite", "googleConnect", "googleDisconnect", "googleSync", "refresh", "logout", "exchange", "verify",
          "googleComplete", "googleCallback"} \subseteq
             CredentialHandlers \ {"verifyPhone", "deleteAccount", "oauthCallback", "appleCallback", "appleNative", "confirmReset"}
      /\ {"verifyPhone", "deleteAccount", "oauthCallback", "appleCallback", "appleNative", "confirmReset"} \subseteq CredentialHandlers
  BY DEF CredentialHandlers, OneUse
<1>3. \A l : db.link[l].kind = "RESET" /\ Begin(r, "confirmReset", l) => NamesInv'
  BY <1>2, BeginNames
<1>4. \A l \in Logins : Begin(r, "appleNative", l) => NamesInv'
  BY <1>2, BeginNames
<1>5. ASSUME NEW h \in {"oauthCallback", "appleCallback"}, NEW s, NEW l \in Logins, NEW k,
             Begin(r, h, [state |-> s, login |-> l, kind |-> k])
      PROVE  NamesInv'
  <2>1. [state |-> s, login |-> l, kind |-> k].login \in Logins
    OBVIOUS
  <2> HIDE DEF NamesInv
  <2> QED
    BY <1>2, <1>5, <2>1, BeginNames
<1>6. ASSUME NEW p \in Phones, NEW right, NEW l \in Logins \cup {Nil},
             Begin(r, "verifyPhone", [phone |-> p, right |-> right, login |-> l])
      PROVE  NamesInv'
  <2>1. [phone |-> p, right |-> right, login |-> l].phone \in Phones /\ [phone |-> p, right |-> right, login |-> l].login \in Logins \cup {Nil}
    OBVIOUS
  <2> QED
    BY <1>2, <1>6, <2>1, BeginNames
<1>7. ASSUME NEW u, SignedIn(u), Begin(r, "deleteAccount", [by |-> u]) PROVE NamesInv'
  <2>1. PICK t \in Users : db.token[t] = [state |-> "live", user |-> u]
    BY <1>7 DEF SignedIn
  <2>2. db.token[t].state = "live" /\ db.token[t].user = u
    BY <2>1
  <2>3. Known([by |-> u].by)
    BY <2>2 DEF NamesInv, NamesLead
  <2> QED
    BY <1>2, <1>7, <2>3, BeginNames
<1>8. db.pending \subseteq Logins
  BY DEF NamesInv, UserShape
<1> HIDE DEF NamesInv
<1>9. CASE ArriveSession(r)
  BY <1>1, <1>2, <1>3, <1>4, <1>5, <1>9 DEF ArriveSession
<1>10. CASE ArriveSignUp(r)
  BY <1>1, <1>2, <1>6, <1>8, <1>10 DEF ArriveSignUp
<1>11. CASE ArriveCompany(r)
  BY <1>1, <1>2, <1>7, <1>11 DEF ArriveCompany
<1>12. CASE ArriveGoogle(r)
  BY <1>1, <1>2, <1>12 DEF ArriveGoogle
<1> QED
  BY <1>9, <1>10, <1>11, <1>12

LEMMA NamesMove ==
    ASSUME NamesInv, CredentialInv, NEW r \in Requests, CredentialMove(r)
    PROVE  NamesInv'
<1>1. Writes(r) /\ Moves(r)
  BY AccountWrites, CredentialMoves
<1>2. CASE ArriveSession(r) \/ ArriveSignUp(r) \/ ArriveCompany(r) \/ ArriveGoogle(r)
  BY <1>2, ArrivalNames
<1>3. CASE ~(ArriveSession(r) \/ ArriveSignUp(r) \/ ArriveCompany(r) \/ ArriveGoogle(r))
  <2>1. \A u : Known(u) => Known(u)'
    BY <1>1 DEF Writes, UserWrites, RowSame, Signs, SetsPassword, SetsLogin, Known
  <2>2. Lands(r)
    <3>1. CASE Killed(r)
      <4>1. Open(r) /\ Do(r, "killed", req[r].v, db) /\ "killed" \notin Places /\ "killed" \in Inserted
        BY <3>1 DEF Killed, Places, Verifies, Links, Creates, Looks, HasUser, Inserted, Ends
      <4>2. req'[r].at = "killed"
        BY <4>1, DoEffect DEF CredentialInv
      <4> QED
        BY <2>1, <4>1, <4>2, Handed DEF Lands
    <3> QED
      BY <1>1, <1>3, <2>1, <3>1, SessionLands, SignUpLands, CompanyLands, GoogleLands DEF CredentialMove
  <2>3. req'[r].do = req[r].do /\ req'[r].arg = req[r].arg
    BY <1>1, <2>2, OthersStay DEF Lands, Open, CredentialInv
  <2> QED
    BY <1>1, <2>2, <2>3, NamesStep DEF Lands
<1> QED
  BY <1>2, <1>3

\* What happens at Google, or nothing at all, leaves the users alone.
SameAccounts ==
    SameUsers(db') /\ SameLeads(db') /\ db'.user = db.user /\ UNCHANGED <<req, prior>>

LEMMA NamesRest ==
    ASSUME NamesInv, SameAccounts
    PROVE  NamesInv'
<1>1. UserShape' /\ NamesLead' /\ \A u : Known(u)' <=> Known(u)
  BY DEF NamesInv, SameAccounts, SameUsers, SameLeads, UserShape, NamesLead, Known
<1>2. FreshUsers'
  BY DEF NamesInv, SameAccounts, FreshUsers
<1>3. \A r \in Requests : CameWith(r)' /\ InHand(r)'
  BY <1>1 DEF NamesInv, SameAccounts, SameLeads, CameWith, InHand, At
<1> QED
  BY <1>1, <1>2, <1>3 DEF NamesInv

LEMMA AtGoogleRests ==
    ASSUME NamesInv, CredentialInv, AtGoogle
    PROVE  SameAccounts
<1>1. PICK x : db' = [db EXCEPT !.change = x] \/ db' = [db EXCEPT !.stale = x]
  BY DEF AtGoogle
<1> QED
  BY <1>1 DEF AtGoogle, SameAccounts, SameUsers, SameLeads, CredentialInv, CredentialShape, CredentialTables, NamesInv, UserShape

-----------------------------------------------------------------------------
(***************************************************************************)
(* A login leads to one account.                                           *)
(***************************************************************************)

Linking == {"providers", "taken", "setSocial", "bindLogin", "bindLoginInsert"}
Linker(r) ==
    \/ Me(r) \/ Providers(r) \/ Taken(r) \/ SetSocial(r) \/ BindLogin(r)
    \/ \E email : \E at \in {"insertSocial", "insertPlain"} : \E raced \in {"raced", "racedAgain"} : InsertSocial(r, at, raced, email)

\* Only these lead to the places where a login is linked.
LEMMA LinkersLink ==
    ASSUME CredentialInv, NEW r \in Requests, CredentialMove(r), req'[r].at \in Linking
    PROVE  Linker(r)
<1>0. HistoryOK
  BY DEF CredentialInv
<1>1. \A statement, v, tables : Do(r, statement, v, tables) => statement \in Linking
  BY <1>0, DoEffect
<1>n. \A v, tables :
         /\ \A statement \in {"ok", "refused"} : ~Do(r, statement, v, tables)
         /\ ~Do(r, "issueLink", v, tables) /\ ~Do(r, "linkRow", v, tables)
         /\ ~Do(r, "resendMail", v, tables) /\ ~Do(r, "inviteCount", v, tables) /\ ~Do(r, "persist", v, tables)
  BY <1>1 DEF Linking
<1>2. \A h \in CredentialHandlers : \A arg : ~Begin(r, h, arg)
  BY <1>0, BeginRequest DEF CredentialHandlers, OneUse, Linking
<1>h. {"login", "requestReset", "oauthStart", "appleNative", "sendPhone", "verifyPhone", "signup",
       "deleteAccount", "verifyBusiness", "acceptInvite", "removeMember", "transferAdmin", "invite",
       "googleConnect", "googleDisconnect", "googleSync", "refresh", "logout", "confirmReset", "oauthCallback", "appleCallback",
       "exchange", "verify", "googleComplete", "googleCallback"} \subseteq CredentialHandlers
  BY DEF CredentialHandlers, OneUse
<1>3. ~ArriveSession(r) /\ ~ArriveSignUp(r) /\ ~ArriveCompany(r) /\ ~ArriveGoogle(r)
  <2>1. ~ArriveSession(r)
    BY <1>2, <1>h DEF ArriveSession
  <2>2. ~ArriveSignUp(r)
    BY <1>2, <1>h DEF ArriveSignUp
  <2>3. ~ArriveCompany(r)
    BY <1>2, <1>h DEF ArriveCompany
  <2>4. ~ArriveGoogle(r)
    BY <1>2, <1>h DEF ArriveGoogle
  <2> QED
    BY <2>1, <2>2, <2>3, <2>4
<1>4. CASE SessionStep(r)
  <2>1. ~(Issue(r) \/ RevokeAll(r) \/ ClearUser(r) \/ ClearCompany(r) \/ Refresh(r) \/ Rotate(r) \/ Logout(r) \/ Login(r))
    BY <1>1 DEF Issue, RevokeAll, ClearUser, ClearCompany, Refresh, Rotate, Logout, Login, GoOn, End, Refuse, Linking
  <2>2. ~(RequestReset(r) \/ IssueLink(r) \/ LinkRow(r) \/ ConfirmReset(r) \/ SetPassword(r) \/ OauthStart(r)
          \/ ConsumeLink(r, "consumeReset", "setPassword"))
    <3>1. ~RequestReset(r) /\ ~IssueLink(r) /\ ~LinkRow(r)
      BY <1>n DEF RequestReset, IssueLink, LinkRow, GoOn, End, Refuse
    <3>2. ~ConfirmReset(r) /\ ~SetPassword(r) /\ ~OauthStart(r) /\ ~ConsumeLink(r, "consumeReset", "setPassword")
      BY <1>1 DEF ConfirmReset, ConsumeLink, SetPassword, OauthStart, GoOn, End, Refuse, Linking
    <3> QED
      BY <3>1, <3>2
  <2>3. ~(OauthCallback(r) \/ AppleCallback(r) \/ MintCode(r) \/ Exchange(r) \/ UseCode(r) \/ AppleNative(r))
    BY <1>1 DEF OauthCallback, AppleCallback, TakeState, MintCode, Exchange, UseCode, AppleNative, GoOn, End, Refuse, Linking
  <2>4. ~(FindIdentity(r) \/ FindLogin(r) \/ OauthIdentity(r) \/ OauthEmail(r) \/ OauthLogin(r) \/ OauthInsert(r))
    BY <1>1 DEF FindIdentity, FindLogin, OauthIdentity, OauthEmail, OauthLogin, OauthInsert, Found, GoOn, End, Refuse, Linking
  <2> QED
    BY <1>3, <1>4, <2>1, <2>2, <2>3, <2>4 DEF SessionStep
<1>5. CASE SignUpStep(r)
  <2>1. ~(SendPhone(r) \/ ConsumeOpen(r) \/ InsertCode(r) \/ VerifyPhone(r) \/ Bump(r) \/ ConsumeCode(r) \/ Owner(r))
    BY <1>1 DEF SendPhone, ConsumeOpen, InsertCode, VerifyPhone, Bump, ConsumeCode, Owner, GoOn, End, Refuse, Linking
  <2>2. ~(BindLoginInsert(r) \/ BindPhone(r) \/ BindPhoneInsert(r) \/ InsertUser(r) \/ RacedUser(r))
    BY <1>1 DEF BindLoginInsert, BindPhone, BindPhoneInsert, InsertUser, RacedUser, GoOn, End, Refuse, Linking
  <2>3. ~(Signup(r) \/ UpsertSignup(r) \/ Verify(r) \/ ConsumeLink(r, "consumeVerify", "emailOwner")
          \/ EmailOwner(r) \/ InsertEmail(r) \/ DropSignup(r))
    BY <1>1 DEF Signup, UpsertSignup, Verify, ConsumeLink, EmailOwner, InsertEmail, DropSignup, GoOn, End, Refuse, Linking
  <2>4. CreateFromPending(r) => Linker(r)
    <3>1. \A at, retry : ~CreateRaced(r, at, retry)
      BY <1>1 DEF CreateRaced, GoOn, Refuse, Linking
    <3> QED
      BY <3>1 DEF CreateFromPending, Linker
  <2> QED
    BY <1>3, <1>5, <2>1, <2>2, <2>3, <2>4 DEF SignUpStep, Linker
<1>6. ~CompanyStep(r)
  <2>1. ~(VerifyBusiness(r) \/ CompleteFirm(r) \/ InsertFirm(r) \/ InsertAdmin(r) \/ UndoFirm(r))
    BY <1>1 DEF VerifyBusiness, CompleteFirm, InsertFirm, InsertAdmin, UndoFirm, GoOn, End, Refuse, Linking
  <2>2. ~(RequireAdmin(r, "invite", "inviteMember") \/ InviteMember(r) \/ InvitePending(r) \/ ResendMail(r) \/ ResendRow(r))
    <3>1. ~RequireAdmin(r, "invite", "inviteMember") /\ ~InviteMember(r)
      BY <1>1 DEF RequireAdmin, InviteMember, GoOn, Refuse, Linking
    <3>2. ~InvitePending(r)
      BY <1>n DEF InvitePending, GoOn, Refuse
    <3>3. ~ResendMail(r) /\ ~ResendRow(r)
      BY <1>1 DEF ResendMail, ResendRow, End, Refuse, Linking
    <3> QED
      BY <3>1, <3>2, <3>3
  <2>3. ~(InviteCount(r) \/ InviteRow(r) \/ InviteMail(r) \/ InviteUndo(r) \/ AcceptInvite(r) \/ AcceptUser(r) \/ Join(r))
    BY <1>1 DEF InviteCount, InviteRow, InviteMail, InviteUndo, AcceptInvite, AcceptUser, Join, GoOn, End, Refuse, Linking
  <2>4. ~(RequireAdmin(r, "removeMember", "removeTarget") \/ RemoveTarget(r) \/ CountAdmins(r) \/ RemoveRow(r)
          \/ RequireAdmin(r, "transferAdmin", "transferTarget") \/ TransferTarget(r) \/ Transfer(r) \/ TransferWrite(r))
    BY <1>1 DEF RequireAdmin, RemoveTarget, CountAdmins, RemoveRow, TransferTarget, Transfer, TransferWrite, GoOn, End, Refuse, Linking
  <2>5. ~(DeleteAccount(r) \/ MarkUser(r) \/ CancelPlans(r) \/ Unmark(r) \/ MarkFirm(r))
    BY <1>1 DEF DeleteAccount, MarkUser, CancelPlans, Unmark, MarkFirm, GoOn, End, Refuse, Linking
  <2> QED
    BY <1>3, <2>1, <2>2, <2>3, <2>4, <2>5 DEF CompanyStep
<1>7. ~GoogleStep(r)
  <2>1. ~(GoogleConnect(r) \/ GoogleCallback(r) \/ GoogleCode(r) \/ GoogleComplete(r) \/ UseIntegrationCode(r)
          \/ Connection(r) \/ GoogleDisconnect(r) \/ Wipe(r))
    BY <1>1 DEF GoogleConnect, GoogleCallback, GoogleCode, GoogleComplete, UseIntegrationCode, Connection, GoogleDisconnect, Wipe,
       GoOn, End, Refuse, Linking
  <2>2. ~(GoogleSync(r) \/ Refreshed(r) \/ List(r) \/ Persist(r) \/ SyncRow(r))
    <3>1. ~GoogleSync(r) /\ ~Refreshed(r)
      BY <1>1 DEF GoogleSync, Refreshed, GoOn, Refuse, Linking
    <3>2. ~List(r)
      <4>1. ~Refuse(r) /\ \A v, tables : ~Do(r, "persist", v, tables)
        BY <1>n DEF Refuse
      <4> QED
        BY <4>1 DEF List
    <3>3. ~Persist(r) /\ ~SyncRow(r)
      <4>1. ~Refuse(r) /\ \A v, tables : ~Do(r, "syncRow", v, tables) /\ ~GoOn(r, "syncRow", v)
        BY <1>1 DEF Refuse, GoOn, Linking
      <4>2. ~Persist(r)
        BY <4>1 DEF Persist
      <4>3. ~SyncRow(r)
        BY <4>1, <1>n DEF SyncRow
      <4> QED
        BY <4>2, <4>3
    <3> QED
      BY <3>1, <3>2, <3>3
  <2> QED
    BY <1>3, <2>1, <2>2 DEF GoogleStep
<1>8. ~Killed(r)
  BY <1>1 DEF Killed, Linking
<1> QED
  BY <1>4, <1>5, <1>6, <1>7, <1>8 DEF CredentialMove

\* A linker has read, or has just written, the login of the user it goes on with.
LEMMA LinkersSee ==
    ASSUME NamesInv, CredentialInv, NEW r \in Requests, Linker(r), LinkedWell(r)
    PROVE  LinkedWell(r)'
<1>0. /\ HistoryOK /\ UserShape /\ CameWith(r) /\ InHand(r) /\ r \in Users /\ Nil \notin Logins
      /\ DOMAIN db.user = Users /\ "user" \in DOMAIN db
  BY SessionsAssumption DEF CredentialInv, NamesInv, UserShape, Users
<1>1. \A statement, v, tables : Do(r, statement, v, tables) =>
         /\ req'[r].at = statement /\ db' = tables /\ req'[r].arg = req[r].arg
         /\ statement \notin Ends => req'[r].v = v
  BY <1>0, DoEffect
<1>2. ASSUME Refuse(r) PROVE LinkedWell(r)'
  BY <1>1, <1>2 DEF Refuse, LinkedWell
<1>3. ASSUME NEW statement \in {"providers", "taken", "setSocial"}, NEW v, GoOn(r, statement, v), LoginOf(v) = Nil
      PROVE  LinkedWell(r)'
  <2>1. req'[r].at = statement /\ db' = db /\ req'[r].v = v
    BY <1>1, <1>3 DEF GoOn, Ends
  <2> QED
    BY <1>3, <2>1 DEF LinkedWell, LoginOf
<1>4. ASSUME NEW statement \in {"bindLogin", "bindLoginInsert"}, NEW v, GoOn(r, statement, v), LoginOf(v) = req[r].arg.login
      PROVE  LinkedWell(r)'
  <2>1. req'[r].at = statement /\ db' = db /\ req'[r].v = v /\ req'[r].arg = req[r].arg
    BY <1>1, <1>4 DEF GoOn, Ends
  <2> QED
    BY <1>4, <2>1 DEF LinkedWell, LoginOf
<1>5. CASE Me(r)
  BY <1>2, <1>3, <1>5 DEF Me, ShowsLogin, LoginOf
<1>6. CASE Providers(r) \/ Taken(r)
  <2>1. LoginOf(req[r].v) = Nil
    BY <1>6 DEF LinkedWell, Providers, Taken, At
  <2> QED
    BY <1>2, <1>3, <1>6, <2>1 DEF Providers, Taken
<1>7. CASE SetSocial(r)
  <2>1. LoginOf(req[r].v) = Nil /\ Known(req[r].v)
    BY <1>0, <1>7 DEF LinkedWell, SetSocial, InHand, HasUser, Links, At
  <2>2. ASSUME Do(r, "bindLogin", req[r].v, [db EXCEPT !.user[req[r].v].login = Pending(r)]) PROVE LinkedWell(r)'
    <3> DEFINE u == req[r].v
               row == [db.user[u] EXCEPT !.login = req[r].arg.login]
    <3>1. db.user[u] \in UserRecord /\ u \in Users
      BY <1>0, <2>1 DEF UserShape, Known
    <3>2. row.login = req[r].arg.login
      BY <3>1 DEF UserRecord
    <3>3. db' = [db EXCEPT !.user[u] = row]
      BY <1>1, <2>2 DEF Pending
    <3> HIDE DEF row
    <3>4. db'.user[u] = row
      BY <1>0, <3>1, <3>3
    <3>5. req'[r].at = "bindLogin" /\ req'[r].v = req[r].v /\ req'[r].arg = req[r].arg
      BY <1>1, <2>2 DEF Ends
    <3> QED
      BY <3>2, <3>4, <3>5 DEF LinkedWell, LoginOf
  <2> QED
    BY <1>2, <1>7, <2>1, <2>2 DEF SetSocial, LoginOf
<1>8. CASE BindLogin(r)
  <2>1. LoginOf(req[r].v) = req[r].arg.login
    BY <1>8 DEF LinkedWell, BindLogin, At
  <2>2. \A v : GoOn(r, "bindPhone", v) => LinkedWell(r)'
    BY <1>1 DEF GoOn, LinkedWell
  <2> QED
    BY <1>2, <1>4, <1>8, <2>1, <2>2 DEF BindLogin
<1>9. ASSUME NEW at, NEW raced \in {"raced", "racedAgain"}, NEW email, InsertSocial(r, at, raced, email)
      PROVE  LinkedWell(r)'
  <2> DEFINE row == UserRow("PERSONAL", Pending(r), req[r].arg.phone, email, Nil)
  <2>1. row.login = req[r].arg.login
    BY DEF UserRow, Pending
  <2> HIDE DEF row
  <2>2. CASE Do(r, "bindLogin", r, [db EXCEPT !.user[r] = row])
    <3>1. db'.user[r] = row
      BY <1>0, <1>1, <2>2
    <3>2. req'[r].at = "bindLogin" /\ req'[r].v = r /\ req'[r].arg = req[r].arg
      BY <1>1, <2>2 DEF Ends
    <3> QED
      BY <2>1, <3>1, <3>2 DEF LinkedWell, LoginOf
  <2>3. CASE GoOn(r, raced, Nil)
    BY <1>1, <2>3 DEF GoOn, LinkedWell
  <2> QED
    BY <1>9, <2>2, <2>3 DEF InsertSocial, row
<1> QED
  BY <1>5, <1>6, <1>7, <1>8, <1>9 DEF Linker

LEMMA LoginsStep ==
    ASSUME NamesInv, CredentialInv, LoginInv, NEW r \in Requests, CredentialMove(r)
    PROVE  LoginInv'
<1>0. /\ HistoryOK /\ Writes(r) /\ Moves(r) /\ UserShape /\ NamesLead /\ Nil \notin Logins
      /\ CameWith(r) /\ InHand(r)
  BY AccountWrites, CredentialMoves, SessionsAssumption DEF CredentialInv, NamesInv
<1>1. ASSUME NEW u \in Users
      PROVE  \/ LoginOf(u)' = LoginOf(u) /\ (Known(u) <=> Known(u)')
             \/ u = r /\ Signs(r)
             \/ SetsLogin(r, u)
  BY <1>0 DEF Writes, UserWrites, RowSame, SetsPassword, Known, LoginOf
<1>2. OneRow'
  <2> SUFFICES ASSUME NEW u \in Users, NEW w \in Users, Known(u)', Known(w)', LoginOf(u)' = LoginOf(w)', LoginOf(u)' \in Logins
               PROVE  u = w
    BY DEF OneRow
  <2>1. ASSUME NEW a \in Users, NEW b \in Users, LoginOf(b)' = LoginOf(a)', LoginOf(a)' \in Logins, Known(b)',
               (a = r /\ Signs(r)) \/ SetsLogin(r, a)
        PROVE  a = b
    <3>1. ByLogin(LoginOf(a)') = {}
      BY <1>0, <2>1 DEF Signs, SetsLogin
    <3>2. CASE LoginOf(b)' = LoginOf(b) /\ (Known(b) <=> Known(b)')
      BY <2>1, <3>1, <3>2 DEF ByLogin, Known, LoginOf
    <3>3. CASE (b = r /\ Signs(r)) \/ SetsLogin(r, b)
      BY <2>1, <3>3 DEF Signs, SetsLogin, Inserting, At
    <3> QED
      BY <1>1, <3>2, <3>3
  <2>2. CASE LoginOf(u)' = LoginOf(u) /\ (Known(u) <=> Known(u)') /\ LoginOf(w)' = LoginOf(w) /\ (Known(w) <=> Known(w)')
    BY <2>2 DEF LoginInv, OneRow
  <2> QED
    BY <1>1, <2>1, <2>2
<1>3. CASE VerifyMet
  BY <1>0, <1>2, <1>3, VerifyMetStays DEF LoginInv
<1>4. CASE ~VerifyMet
  <2>0. IdentityAgrees /\ LinksWell
    BY <1>4 DEF LoginInv
  <2>1. ASSUME NEW u, Known(u), LoginOf(u) # Nil PROVE LoginOf(u)' = LoginOf(u)
    BY <1>1, <2>1 DEF Signs, SetsLogin, Known
  <2>2. IdentityAgrees'
    <3> SUFFICES ASSUME NEW l \in Logins, NEW u, db'.identity[l] = u, u # Nil PROVE LoginOf(u)' = l
      BY DEF IdentityAgrees, LoginOf
    <3>1. CASE db.identity[l] = u
      <4>1. Known(u) /\ LoginOf(u) = l
        BY <1>0, <2>0, <3>1 DEF NamesLead, IdentityAgrees
      <4> QED
        BY <1>0, <2>1, <4>1
    <3>2. CASE db.identity[l] # u
      <4>1. At(r, "bindLoginInsert") /\ l = req[r].arg.login /\ u = req[r].v
        <5>1. IdentityWrites(r) /\ DOMAIN db.identity = Logins
          BY <1>0 DEF Writes, UserShape
        <5> QED
          BY <3>1, <3>2, <5>1 DEF IdentityWrites
      <4>2. Known(u) /\ LoginOf(u) = l
        BY <1>0, <2>0, <4>1 DEF InHand, HasUser, Links, LinksWell, LinkedWell, At
      <4> QED
        BY <1>0, <2>1, <4>2
    <3> QED
      BY <3>1, <3>2
  <2>3. ASSUME NEW s \in Requests PROVE LinkedWell(s)'
    <3>1. CASE s = r
      <4>1. CASE req'[r].at \in Linking
        BY <2>0, <3>1, <4>1, LinkersLink, LinkersSee DEF LinksWell
      <4>2. CASE req'[r].at \notin Linking
        BY <3>1, <4>2 DEF LinkedWell, Linking
      <4> QED
        BY <4>1, <4>2
    <3>2. CASE s # r /\ req[s].at \in Linking
      <4>1. /\ req'[s] = req[s] /\ LinkedWell(s) /\ req[s].do = "verifyPhone" /\ Known(req[s].v)
            /\ req[s].arg.login # Nil /\ Open(s)
        BY <1>0, <2>0, <3>2, OthersStay DEF NamesInv, LinksWell, Linking, Links, InHand, HasUser, Open, Ended, Ends, At
      <4>2. \A v : ~SetsLogin(r, v)
        <5> SUFFICES ASSUME At(r, "setSocial") PROVE FALSE
          BY DEF SetsLogin
        <5>1. req[r].do = "verifyPhone" /\ Open(r)
          BY <1>0 DEF InHand, Links, Open, Ended, Ends, At
        <5> QED
          BY <1>0, <1>4, <3>2, <4>1, <5>1, VerifiersMeet
      <4>3. ASSUME NEW v, v = req[s].v PROVE LoginOf(v)' = LoginOf(v)
        <5>1. v \in Users /\ db.user[v] # Nil
          BY <4>1, <4>3 DEF Known
        <5> QED
          BY <1>1, <4>2, <5>1 DEF Signs
      <4> QED
        BY <4>1, <4>3 DEF LinkedWell, LoginOf
    <3>3. CASE s # r /\ req[s].at \notin Linking
      <4>1. req'[s] = req[s]
        BY <1>0, <3>3, OthersStay
      <4> QED
        BY <3>3, <4>1 DEF LinkedWell, Linking
    <3> QED
      BY <3>1, <3>2, <3>3
  <2> QED
    BY <1>2, <2>2, <2>3 DEF LoginInv, LinksWell
<1> QED
  BY <1>3, <1>4

AccountInv == CredentialInv /\ NamesInv /\ LoginInv

\* A token that was not issued is nobody's.
TokensNamed == \A t \in Users : db.token[t].state = "none" => db.token[t].user = Nil

AccountInit ==
    /\ CredentialInit /\ UserShape /\ NamesLead /\ OneRow /\ IdentityAgrees /\ TokensNamed
    /\ \A r \in Requests : db.user[r] = Nil
AccountSpec == AccountInit /\ [][(\E r \in Requests : CredentialMove(r)) \/ AtGoogle]_vars

LEMMA AccountInvInit == AccountInit => AccountInv
<1> SUFFICES ASSUME AccountInit PROVE AccountInv
  OBVIOUS
<1>1. \A r \in Requests : req[r] = [do |-> "none", at |-> "new", arg |-> Nil, v |-> Nil]
  BY DEF AccountInit, CredentialInit, RequestsInit
<1>2. \A r \in Requests : req[r].at = "new" /\ CameWith(r)
  BY <1>1 DEF CameWith, At
<1>3. \A r \in Requests : InHand(r)
  BY <1>2 DEF InHand, At, Verifies, Links, Creates, Looks, HasUser
<1>4. NamesInv
  BY <1>2, <1>3 DEF AccountInit, NamesInv, FreshUsers
<1>5. LoginInv
  BY <1>2 DEF AccountInit, LoginInv, LinksWell, LinkedWell
<1> QED
  BY <1>4, <1>5, CredentialInvInit DEF AccountInit, AccountInv

LEMMA AccountInvAlways == AccountSpec => []AccountInv
<1>1. AccountInv /\ (\E r \in Requests : CredentialMove(r)) => AccountInv'
  <2> SUFFICES ASSUME AccountInv, NEW r \in Requests, CredentialMove(r) PROVE AccountInv'
    OBVIOUS
  <2>1. CredentialInv'
    BY CredentialMoves, CredentialTurns, TurnsStep DEF AccountInv
  <2>2. NamesInv'
    BY NamesMove DEF AccountInv
  <2>3. LoginInv'
    BY LoginsStep DEF AccountInv
  <2> QED
    BY <2>1, <2>2, <2>3 DEF AccountInv
<1>2. ASSUME AccountInv, SameAccounts, CredentialInv' PROVE AccountInv'
  <2>1. NamesInv'
    BY <1>2, NamesRest DEF AccountInv
  <2>2. OneRow'
    BY <1>2 DEF AccountInv, LoginInv, OneRow, SameAccounts, Known, LoginOf
  <2>3. IdentityAgrees => IdentityAgrees'
    BY <1>2 DEF IdentityAgrees, SameAccounts, SameUsers, LoginOf
  <2>4. LinksWell => LinksWell'
    BY <1>2 DEF LinksWell, LinkedWell, SameAccounts, LoginOf
  <2>5. VerifyMet => VerifyMet'
    BY <1>2 DEF VerifyMet, Verifying, Met, SameAccounts, At
  <2> QED
    BY <1>2, <2>1, <2>2, <2>3, <2>4, <2>5 DEF AccountInv, LoginInv
<1>3. AccountInv /\ AtGoogle => AccountInv'
  <2> SUFFICES ASSUME AccountInv, AtGoogle PROVE AccountInv'
    OBVIOUS
  <2>1. SameAccounts
    BY AtGoogleRests DEF AccountInv
  <2>2. PICK x : db' = [db EXCEPT !.change = x] \/ db' = [db EXCEPT !.stale = x]
    BY DEF AtGoogle
  <2>3. SameCredentials(db')
    BY <2>2 DEF SameCredentials, AccountInv, CredentialInv, CredentialShape, CredentialTables
  <2>4. CredentialInv'
    BY <2>3, CredentialsRest DEF AccountInv, AtGoogle
  <2> QED
    BY <1>2, <2>1, <2>4
<1>4. AccountInv /\ UNCHANGED vars => AccountInv'
  <2> SUFFICES ASSUME AccountInv, UNCHANGED vars PROVE AccountInv'
    OBVIOUS
  <2>1. CredentialInv'
    BY CredentialsRest DEF AccountInv, vars, SameCredentials
  <2> QED
    BY <1>2, <2>1 DEF vars, SameAccounts, SameUsers, SameLeads
<1>5. AccountInv /\ [(\E r \in Requests : CredentialMove(r)) \/ AtGoogle]_vars => AccountInv'
  BY <1>1, <1>3, <1>4
<1> QED
  BY <1>5, AccountInvInit, PTL DEF AccountSpec

LEMMA LoginInvHolds == AccountInv => OneLoginOneAccount
<1> SUFFICES ASSUME AccountInv, ~VerifyMet PROVE OneLoginOneAccount
  BY DEF VerifyMet, OneLoginOneAccount
<1>1. OneRow /\ IdentityAgrees /\ NamesLead /\ Nil \notin Users
  BY SessionsAssumption, CoreWorkerAssumption DEF AccountInv, LoginInv, NamesInv, Users
<1>2. ASSUME NEW u \in Users PROVE Cardinality(Leads(u)) <= 1
  <2>1. Leads(u) \subseteq {LoginOf(u)}
    BY <1>1 DEF Leads, IdentityAgrees, LoginOf
  <2>2. Cardinality({LoginOf(u)}) = 1 /\ IsFiniteSet({LoginOf(u)})
    BY FS_Singleton
  <2>3. Cardinality(Leads(u)) <= Cardinality({LoginOf(u)})
    BY <2>1, <2>2, FS_Subset
  <2> QED
    BY <2>2, <2>3
<1>3. ASSUME NEW l \in Logins, db.identity[l] # Nil PROVE ByLogin(l) \subseteq {db.identity[l]}
  <2>1. Known(db.identity[l]) /\ LoginOf(db.identity[l]) = l
    BY <1>1, <1>3 DEF NamesLead, IdentityAgrees
  <2> QED
    BY <1>1, <2>1 DEF OneRow, ByLogin, Known, LoginOf
<1> QED
  BY <1>2, <1>3 DEF OneLoginOneAccount

\* However sign-ups, sign-ins, links and deletions of accounts are interleaved
\* and dropped, a social login leads to one account and an account has one
\* login, in the users rows and in the identities alike, unless two
\* verifications of phone codes met.
THEOREM OneAccountEach == AccountSpec => []OneLoginOneAccount
<1> QED
  BY AccountInvAlways, LoginInvHolds, PTL

-----------------------------------------------------------------------------
(***************************************************************************)
(* A reset takes the account over.                                         *)
(***************************************************************************)

ResetPlaces == {"confirmReset", "consumeReset", "setPassword", "revokeAll"}
LoginPlaces == {"login", "clear", "clearCompany", "issue"}

OwnerOf(r) == db.link[req[r].arg].owner
Older(r) == Accounts \cup prior[r]

\* Where a reset stands ...
Resets(r) ==
    req[r].do = "confirmReset" =>
        /\ req[r].at \in ResetPlaces \cup Ends
        /\ req[r].at \in ResetPlaces \ {"confirmReset"} => req[r].v = OwnerOf(r)
        /\ req[r].at \in {"revokeAll", "ok"} => db.user[OwnerOf(r)].pw \notin Older(r)
        /\ At(r, "ok") => \A t \in Users : db.token[t] = [state |-> "live", user |-> OwnerOf(r)] => t \notin Older(r)

\* ... and what a login after it has shown.
NotOlder(s, u) ==
    \A r \in Requests : Answered(r, "confirmReset") /\ r \in prior[s] /\ OwnerOf(r) = u => req[s].arg \notin Older(r)
LogsIn(s) ==
    req[s].do = "login" =>
        /\ req[s].at \in LoginPlaces \cup Ends
        /\ req[s].at \in LoginPlaces \ {"login"} => NotOlder(s, req[s].v)
        /\ db.token[s].state # "none" => NotOlder(s, db.token[s].user)

ResetInv == TokensNamed /\ \A r \in Requests : Resets(r) /\ LogsIn(r)

ResetStep(r) == ConfirmReset(r) \/ ConsumeLink(r, "consumeReset", "setPassword") \/ SetPassword(r) \/ RevokeAll(r)
LoginStep(r) == Login(r) \/ ClearUser(r) \/ ClearCompany(r) \/ Issue(r)

\* What runs at the places of a reset or a login.
LEMMA WayActions ==
    ASSUME NEW r \in Requests, CredentialMove(r), req[r].at \in ResetPlaces \cup LoginPlaces
    PROVE  ResetStep(r) \/ LoginStep(r) \/ Killed(r)
<1>0. req[r].at \in {"confirmReset", "consumeReset", "setPassword", "revokeAll", "login", "clear", "clearCompany", "issue"}
  BY DEF ResetPlaces, LoginPlaces
<1>1. ~ArriveSession(r) /\ ~ArriveSignUp(r) /\ ~ArriveCompany(r) /\ ~ArriveGoogle(r)
  <2>1. \A h, arg : ~Begin(r, h, arg)
    BY <1>0 DEF Begin, At
  <2> QED
    BY <2>1 DEF ArriveSession, ArriveSignUp, ArriveCompany, ArriveGoogle
<1>2. CASE SessionStep(r)
  BY <1>0, <1>1, <1>2 DEF SessionStep, ResetStep, LoginStep, Refresh, Rotate, Logout, RequestReset, IssueLink, LinkRow,
     OauthStart, OauthCallback, AppleCallback, TakeState, MintCode, Exchange, UseCode, AppleNative, FindIdentity, FindLogin,
     OauthIdentity, OauthEmail, OauthLogin, OauthInsert, At
<1>3. ~SignUpStep(r)
  <2>1. ~(SendPhone(r) \/ ConsumeOpen(r) \/ InsertCode(r) \/ VerifyPhone(r) \/ Bump(r) \/ ConsumeCode(r) \/ Owner(r) \/ Me(r))
    BY <1>0 DEF SendPhone, ConsumeOpen, InsertCode, VerifyPhone, Bump, ConsumeCode, Owner, Me, At
  <2>2. ~(Providers(r) \/ Taken(r) \/ SetSocial(r) \/ BindLogin(r) \/ BindLoginInsert(r) \/ BindPhone(r) \/ BindPhoneInsert(r))
    BY <1>0 DEF Providers, Taken, SetSocial, BindLogin, BindLoginInsert, BindPhone, BindPhoneInsert, At
  <2>3. ~(InsertUser(r) \/ RacedUser(r) \/ CreateFromPending(r) \/ Signup(r) \/ UpsertSignup(r) \/ Verify(r))
    BY <1>0 DEF InsertUser, RacedUser, CreateFromPending, InsertSocial, CreateRaced, Signup, UpsertSignup, Verify, At
  <2>4. ~(ConsumeLink(r, "consumeVerify", "emailOwner") \/ EmailOwner(r) \/ InsertEmail(r) \/ DropSignup(r))
    BY <1>0 DEF ConsumeLink, EmailOwner, InsertEmail, DropSignup, At
  <2> QED
    BY <1>1, <2>1, <2>2, <2>3, <2>4 DEF SignUpStep
<1>4. ~CompanyStep(r)
  <2>1. ~(VerifyBusiness(r) \/ CompleteFirm(r) \/ InsertFirm(r) \/ InsertAdmin(r) \/ UndoFirm(r) \/ RequireAdmin(r, "invite", "inviteMember")
          \/ InviteMember(r) \/ InvitePending(r) \/ ResendMail(r) \/ ResendRow(r) \/ InviteCount(r) \/ InviteRow(r))
    BY <1>0 DEF VerifyBusiness, CompleteFirm, InsertFirm, InsertAdmin, UndoFirm, RequireAdmin, InviteMember, InvitePending,
       ResendMail, ResendRow, InviteCount, InviteRow, At
  <2>2. ~(InviteMail(r) \/ InviteUndo(r) \/ AcceptInvite(r) \/ AcceptUser(r) \/ Join(r) \/ RequireAdmin(r, "removeMember", "removeTarget")
          \/ RemoveTarget(r) \/ CountAdmins(r) \/ RemoveRow(r) \/ RequireAdmin(r, "transferAdmin", "transferTarget")
          \/ TransferTarget(r) \/ Transfer(r) \/ TransferWrite(r))
    BY <1>0 DEF InviteMail, InviteUndo, AcceptInvite, AcceptUser, Join, RequireAdmin, RemoveTarget, CountAdmins, RemoveRow,
       TransferTarget, Transfer, TransferWrite, At
  <2>3. ~(DeleteAccount(r) \/ MarkUser(r) \/ CancelPlans(r) \/ Unmark(r) \/ MarkFirm(r))
    BY <1>0 DEF DeleteAccount, MarkUser, CancelPlans, Unmark, MarkFirm, At
  <2> QED
    BY <1>1, <2>1, <2>2, <2>3 DEF CompanyStep
<1>5. ~GoogleStep(r)
  BY <1>0, <1>1 DEF GoogleStep, GoogleConnect, GoogleCallback, GoogleCode, GoogleComplete, UseIntegrationCode, Connection,
     GoogleDisconnect, Wipe, GoogleSync, Refreshed, List, Persist, SyncRow, At
<1> QED
  BY <1>2, <1>3, <1>4, <1>5 DEF CredentialMove

\* What a reset names, and what stands there, as another request moves.
LEMMA OwnerStays ==
    ASSUME NamesInv, CredentialInv, NEW m \in Requests, Open(m), Writes(m), NEW r \in Requests,
           req[r].do = "confirmReset", ~At(r, "new")
    PROVE  db'.link[req[r].arg].owner = OwnerOf(r)
<1>1. req[r].arg \in Users /\ db.link[req[r].arg].state # "none"
  BY DEF CredentialInv, CredentialThere, OneUse, NameOf, NameIn, KindOf, State, Callbacks
<1>2. db.link[m].state = "none"
  BY DEF CredentialInv, FreshCredentials, Kinds, State, Open
<1> QED
  BY <1>1, <1>2 DEF Writes, LinkWritten, OwnerOf

LEMMA PasswordStays ==
    ASSUME NamesInv, NEW m \in Requests, Writes(m), NEW u, Known(u)
    PROVE  db'.user[u].pw = db.user[u].pw \/ (At(m, "setPassword") /\ u = req[m].v /\ db'.user[u].pw = m)
  BY DEF Known, Writes, UserWrites, RowSame, Signs, SetsPassword, SetsLogin

LEMMA TokensStay ==
    ASSUME NamesInv, NEW m \in Requests, Writes(m), NEW t \in Users
    PROVE  /\ \A u : db'.token[t] = [state |-> "live", user |-> u] =>
                  db.token[t] = [state |-> "live", user |-> u] \/ (t = m /\ At(m, "issue") /\ u = req[m].v)
           /\ db'.token[t].state # "none" =>
                 \/ db.token[t].state # "none" /\ db'.token[t].user = db.token[t].user
                 \/ t = m /\ At(m, "issue") /\ db'.token[t].user = req[m].v
           /\ db'.token[t].state = "none" => db'.token[t] = db.token[t]
<1>1. [state |-> "live", user |-> req[m].v].state = "live" /\ [state |-> "live", user |-> req[m].v].user = req[m].v
  OBVIOUS
<1>2. \A u : [state |-> "live", user |-> u].state = "live" /\ [state |-> "live", user |-> u].user = u
  OBVIOUS
<1> QED
  BY <1>1, <1>2 DEF Writes, TokenWritten

\* A request that moves on was open, so that it is not older than a reset ...
LEMMA MoverIsNew ==
    ASSUME CredentialInv, NEW m \in Requests, Open(m), NEW r \in Requests
    PROVE  m \notin Older(r)
<1>1. m \notin Accounts
  BY SessionsAssumption
<1>2. m \notin prior[r]
  BY DEF CredentialInv, HistoryOK, PriorHasEnded, Open
<1> QED
  BY <1>1, <1>2 DEF Older

\* ... and leaves what other resets and logins have done.
LEMMA ResetsStay ==
    ASSUME NamesInv, CredentialInv, NEW m \in Requests, Open(m), Moves(m), Writes(m),
           NEW r \in Requests, Resets(r), req'[r] = req[r], prior'[r] = prior[r]
    PROVE  Resets(r)'
<1> SUFFICES ASSUME req[r].do = "confirmReset", ~At(r, "new") PROVE Resets(r)'
  <2>1. At(r, "new") => req[r].do = "none"
    BY DEF CredentialInv, GuessesLeft
  <2> QED
    BY <2>1 DEF Resets
<1>1. OwnerOf(r)' = OwnerOf(r) /\ Older(r)' = Older(r)
  BY OwnerStays DEF OwnerOf, Older
<1>2. Known(OwnerOf(r))
  <2>1. db.link[req[r].arg].kind = "RESET" /\ req[r].arg \in Users
    BY DEF NamesInv, CameWith, CredentialInv, CredentialThere, OneUse, NameOf, NameIn, KindOf, Callbacks
  <2> QED
    BY <2>1 DEF NamesInv, NamesLead, OwnerOf
<1>3. m \notin Older(r)
  BY MoverIsNew
<1>4. ASSUME NEW u, u = OwnerOf(r), db.user[u].pw \notin Older(r) PROVE db'.user[u].pw \notin Older(r)
  BY <1>2, <1>3, <1>4, PasswordStays
<1>5. ASSUME NEW t \in Users, NEW u, db'.token[t] = [state |-> "live", user |-> u],
             db.token[t] = [state |-> "live", user |-> u] => t \notin Older(r)
      PROVE  t \notin Older(r)
  BY <1>3, <1>5, TokensStay
<1>6. req[r].at \in {"revokeAll", "ok"} => (db.user[OwnerOf(r)].pw \notin Older(r))'
  BY <1>1, <1>4 DEF Resets
<1>7. At(r, "ok") => \A t \in Users : db'.token[t] = [state |-> "live", user |-> OwnerOf(r)] => t \notin Older(r)
  BY <1>5 DEF Resets
<1> QED
  BY <1>1, <1>6, <1>7 DEF Resets, At

LEMMA NotOlderStays ==
    ASSUME NamesInv, CredentialInv, NEW m \in Requests, Open(m), Moves(m), Writes(m),
           NEW s \in Requests, ~At(s, "new"), NEW u, NotOlder(s, u)
    PROVE  \A w : w = u => NotOlder(s, w)'
<1> SUFFICES ASSUME NEW r \in Requests, Answered(r, "confirmReset")', r \in prior'[s], OwnerOf(r)' = u
             PROVE  req'[s].arg \notin Older(r)'
  BY DEF NotOlder
<1>1. prior'[s] = prior[s] /\ req'[s].arg = req[s].arg
  BY OthersStay DEF CredentialInv
<1>2. Ended(r)
  BY <1>1 DEF CredentialInv, HistoryOK, PriorHasEnded
<1>3. ~At(r, "new")
  BY <1>2 DEF Ended, Ends, At
<1>4. req'[r] = req[r] /\ prior'[r] = prior[r]
  BY <1>2, <1>3, OthersStay DEF CredentialInv
<1>5. Answered(r, "confirmReset")
  BY <1>4 DEF Answered, At
<1>6. OwnerOf(r)' = OwnerOf(r) /\ Older(r)' = Older(r)
  BY <1>3, <1>4, <1>5, OwnerStays DEF OwnerOf, Older, Answered
<1> QED
  BY <1>1, <1>5, <1>6 DEF NotOlder

\* A reset sets a password of its own and ends every session there is ...
LEMMA ResetGoesOn ==
    ASSUME NamesInv, CredentialInv, NEW m \in Requests, Open(m), Resets(m), CredentialMove(m), Moves(m), Writes(m),
           req[m].do = "confirmReset"
    PROVE  Resets(m)'
<1>0. HistoryOK /\ req'[m].do = req[m].do /\ req'[m].arg = req[m].arg /\ prior'[m] = prior[m]
  BY OthersStay DEF CredentialInv, Open
<1>1. OwnerOf(m)' = OwnerOf(m) /\ Older(m)' = Older(m)
  BY <1>0, OwnerStays DEF OwnerOf, Older, Open
<1>2. req[m].at \in ResetPlaces
  BY DEF Resets, Open, Ended
<1>3. ResetStep(m) \/ LoginStep(m) \/ Killed(m)
  BY <1>2, WayActions
<1>4. ~LoginStep(m)
  BY <1>2 DEF ResetPlaces, LoginStep, Login, ClearUser, ClearCompany, Issue, At
<1>5. m \notin Older(m)
  BY MoverIsNew
<1>6. \A statement, v, tables :
         Do(m, statement, v, tables) =>
             /\ req'[m].at = statement /\ db' = tables /\ req'[m].v = IF statement \in Ends THEN Nil ELSE v
  BY <1>0, DoEffect
<1>7. ASSUME req'[m].at \in {"refused", "killed"} PROVE Resets(m)'
  BY <1>7 DEF Resets, ResetPlaces, Ends, At
<1>8. CASE Killed(m)
  BY <1>6, <1>7, <1>8 DEF Killed
<1>9. CASE ConfirmReset(m)
  <2>1. Refuse(m) \/ GoOn(m, "consumeReset", OwnerOf(m))
    BY <1>9 DEF ConfirmReset, OwnerOf
  <2>2. CASE GoOn(m, "consumeReset", OwnerOf(m))
    <3>1. req'[m].at = "consumeReset" /\ req'[m].v = OwnerOf(m)
      BY <1>6, <2>2 DEF GoOn, Ends
    <3> QED
      BY <1>1, <3>1 DEF Resets, ResetPlaces, Ends, At
  <2> QED
    BY <1>6, <1>7, <2>1, <2>2 DEF Refuse
<1>10. CASE ConsumeLink(m, "consumeReset", "setPassword")
  <2>1. At(m, "consumeReset") /\ req[m].v = OwnerOf(m)
    BY <1>0, <1>10 DEF ConsumeLink, Resets, ResetPlaces, At
  <2>2. CASE req'[m].at = "setPassword" /\ req'[m].v = req[m].v
    BY <1>1, <2>1, <2>2 DEF Resets, ResetPlaces, Ends, At
  <2> QED
    BY <1>6, <1>7, <1>10, <2>2 DEF ConsumeLink, Refuse, Ends
<1>11. CASE SetPassword(m)
  <2>1. At(m, "setPassword") /\ req[m].v = OwnerOf(m)
    BY <1>0, <1>11 DEF SetPassword, Resets, ResetPlaces, At
  <2>2. Known(OwnerOf(m))
    BY <2>1 DEF NamesInv, InHand, HasUser, At
  <2>3. \A u : u = OwnerOf(m) => db'.user[u].pw = m
    <3>1. db' = [db EXCEPT !.user[req[m].v].pw = m]
      BY <1>6, <1>11 DEF SetPassword
    <3>2. "user" \in DOMAIN db /\ DOMAIN db.user = Users /\ req[m].v \in Users /\ db.user[req[m].v] \in UserRecord
      BY <2>1, <2>2 DEF NamesInv, UserShape, Known
    <3>3. db'.user[req[m].v] = [db.user[req[m].v] EXCEPT !.pw = m]
      BY <3>1, <3>2
    <3>4. DOMAIN db.user[req[m].v] = {"kind", "login", "phone", "email", "pw", "marked"}
      BY <3>2 DEF UserRecord
    <3> QED
      BY <2>1, <3>3, <3>4
  <2>4. req'[m].at = "revokeAll" /\ req'[m].v = req[m].v
    BY <1>6, <1>11 DEF SetPassword, Ends
  <2>5. (db.user[OwnerOf(m)].pw \notin Older(m))'
    BY <1>1, <1>5, <2>3
  <2> QED
    BY <1>1, <2>1, <2>4, <2>5 DEF Resets, ResetPlaces, Ends, At
<1>12. CASE RevokeAll(m)
  <2>1. At(m, "revokeAll") /\ req[m].v = OwnerOf(m) /\ db.user[OwnerOf(m)].pw \notin Older(m)
    BY <1>0, <1>12 DEF RevokeAll, Resets, ResetPlaces, At
  <2>2. req'[m].at = "ok" /\ db'.user = db.user /\ db'.token = EndAll(req[m].v)
    <3>1. db' = [db EXCEPT !.token = EndAll(req[m].v)] /\ req'[m].at = "ok"
      BY <1>6, <1>12 DEF RevokeAll
    <3>2. {"user", "token"} \subseteq DOMAIN db
      BY DEF NamesInv, UserShape, CredentialInv, CredentialShape, CredentialTables
    <3> QED
      BY <3>1, <3>2
  <2>3. ASSUME NEW t \in Users, NEW u, u = OwnerOf(m), db'.token[t] = [state |-> "live", user |-> u] PROVE FALSE
    <3>1. db'.token[t].state = "live" /\ db'.token[t].user = u
      BY <2>3
    <3>2. db.token[t].user = u /\ db.token[t].state = "live" => db'.token[t] = [db.token[t] EXCEPT !.state = "revoked"]
      BY <2>1, <2>2, <2>3 DEF EndAll
    <3>3. ~(db.token[t].user = u /\ db.token[t].state = "live") => db'.token[t] = db.token[t]
      BY <2>1, <2>2, <2>3 DEF EndAll
    <3>4. DOMAIN db.token[t] = {"state", "user"}
      BY DEF CredentialInv, CredentialShape
    <3>5. [db.token[t] EXCEPT !.state = "revoked"].state = "revoked"
      BY <3>4
    <3>6. CASE db.token[t].user = u /\ db.token[t].state = "live"
      BY <3>1, <3>2, <3>5, <3>6
    <3>7. CASE ~(db.token[t].user = u /\ db.token[t].state = "live")
      BY <3>1, <3>3, <3>7
    <3> QED
      BY <3>6, <3>7
  <2>4. (\A t \in Users : db.token[t] = [state |-> "live", user |-> OwnerOf(m)] => t \notin Older(m))'
    BY <1>1, <2>3
  <2>5. (db.user[OwnerOf(m)].pw \notin Older(m))'
    BY <1>1, <2>1, <2>2
  <2> QED
    BY <2>2, <2>4, <2>5 DEF Resets, ResetPlaces, Ends, At
<1> QED
  BY <1>3, <1>4, <1>8, <1>9, <1>10, <1>11, <1>12 DEF ResetStep

\* ... and a login after it has shown a password that is not older.
LEMMA LoginGoesOn ==
    ASSUME NamesInv, CredentialInv, ResetInv, NEW m \in Requests, Open(m), CredentialMove(m), Moves(m), Writes(m),
           NEW s \in Requests
    PROVE  LogsIn(s)'
<1> SUFFICES ASSUME req[s].do = "login", ~At(s, "new") PROVE LogsIn(s)'
  <2>1. At(s, "new") /\ s # m => req'[s].do = "none"
    BY OthersStay DEF CredentialInv, GuessesLeft
  <2>2. At(s, "new") => s # m
    BY DEF Open
  <2>3. ~At(s, "new") => req'[s].do = req[s].do
    BY OthersStay DEF CredentialInv
  <2> QED
    BY <2>1, <2>2, <2>3 DEF LogsIn
<1>1. HistoryOK /\ LogsIn(s) /\ req'[s].do = "login" /\ req'[s].arg = req[s].arg
  BY OthersStay DEF CredentialInv, ResetInv
<1>2. ASSUME NEW u, NotOlder(s, u) PROVE \A w : w = u => NotOlder(s, w)'
  BY <1>2, NotOlderStays
<1>3. ASSUME NEW u, u = db'.token[s].user, db'.token[s].state # "none" PROVE NotOlder(s, u)'
  <2>1. s \in Users
    BY DEF Users
  <2>2. CASE db.token[s].state # "none" /\ db'.token[s].user = db.token[s].user
    BY <1>1, <1>2, <1>3, <2>2 DEF LogsIn
  <2>3. CASE s = m /\ At(m, "issue") /\ db'.token[s].user = req[m].v
    <3>1. NotOlder(s, req[s].v)
      BY <1>1, <2>3 DEF LogsIn, LoginPlaces, At
    <3> QED
      BY <1>2, <1>3, <2>3, <3>1
  <2> QED
    BY <1>3, <2>1, <2>2, <2>3, TokensStay
<1>4. (db.token[s].state # "none" => NotOlder(s, db.token[s].user))'
  BY <1>3
<1>5. CASE s # m
  <2>1. req'[s] = req[s]
    BY <1>5, OthersStay DEF CredentialInv
  <2>2. ASSUME NEW u, u = req'[s].v, req'[s].at \in LoginPlaces \ {"login"} PROVE NotOlder(s, u)'
    BY <1>1, <1>2, <2>1, <2>2 DEF LogsIn
  <2> QED
    BY <1>1, <1>4, <2>1, <2>2 DEF LogsIn
<1>6. CASE s = m
  <2>0. \A statement, v, tables :
           Do(m, statement, v, tables) => req'[m].at = statement /\ req'[m].v = IF statement \in Ends THEN Nil ELSE v
    BY <1>1, DoEffect
  <2>1. req[m].at \in LoginPlaces /\ (ResetStep(m) \/ LoginStep(m) \/ Killed(m))
    BY <1>1, <1>6, WayActions DEF LogsIn, Open, Ended
  <2>2. ~ResetStep(m)
    BY <2>1 DEF LoginPlaces, ResetStep, ConfirmReset, ConsumeLink, SetPassword, RevokeAll, At
  <2>3. ASSUME req'[m].at \in Ends PROVE LogsIn(s)'
    BY <1>1, <1>4, <1>6, <2>3 DEF LogsIn, LoginPlaces, Ends
  <2>4. ASSUME NEW u, NotOlder(s, u), req'[m].at \in {"clear", "clearCompany", "issue"}, req'[m].v = u PROVE LogsIn(s)'
    <3>1. NotOlder(s, req[s].v)'
      BY <1>2, <1>6, <2>4
    <3>2. req'[s].at \in LoginPlaces
      BY <1>6, <2>4 DEF LoginPlaces
    <3> QED
      BY <1>1, <1>4, <3>1, <3>2 DEF LogsIn
  <2>5. CASE Killed(m)
    BY <2>0, <2>3, <2>5 DEF Killed, Ends
  <2>6. CASE Login(m)
    <3>1. CASE Refuse(m)
      BY <2>0, <2>3, <3>1 DEF Refuse, Ends
    <3>2. CASE ~Refuse(m)
      <4>1. PICK u \in ByEmail : db.user[u].pw = req[m].arg /\ GoOn(m, "clear", u)
        BY <2>6, <3>2 DEF Login
      <4>2. NotOlder(s, u)
        BY <1>6, <4>1 DEF NotOlder, ResetInv, Resets, Answered, At
      <4>3. req'[m].at = "clear" /\ req'[m].v = u
        BY <2>0, <4>1 DEF GoOn, Ends
      <4> QED
        BY <2>4, <4>2, <4>3
    <3> QED
      BY <3>1, <3>2
  <2>7. CASE ClearUser(m) \/ ClearCompany(m)
    <3>1. At(m, "clear") \/ At(m, "clearCompany")
      BY <2>7 DEF ClearUser, ClearCompany
    <3>2. NotOlder(s, req[m].v)
      BY <1>1, <1>6, <3>1 DEF LogsIn, LoginPlaces, At
    <3>3. req'[m].at \in {"clear", "clearCompany", "issue"} /\ req'[m].v = req[m].v
      BY <2>0, <2>7 DEF ClearUser, ClearCompany, Ends
    <3> QED
      BY <2>4, <3>2, <3>3
  <2>8. CASE Issue(m)
    BY <2>0, <2>3, <2>8 DEF Issue, End, Ends
  <2> QED
    BY <2>1, <2>2, <2>5, <2>6, <2>7, <2>8 DEF LoginStep
<1> QED
  BY <1>5, <1>6

LEMMA ResetBegins ==
    ASSUME CredentialInv, ResetInv, NEW m \in Requests, Begins(m)
    PROVE  ResetInv'
<1>1. PICK h, arg : h \notin Ends \cup {"new"} /\ Begin(m, h, arg)
  BY DEF Begins
<1>2. HistoryOK
  BY DEF CredentialInv
<1>3. /\ db' = db /\ At(m, "new") /\ req'[m].do = h /\ req'[m].at = h
      /\ \A s \in Requests \ {m} : req'[s] = req[s] /\ prior'[s] = prior[s]
  BY <1>1, <1>2, BeginEffect, BeginRequest
<1>4. TokensNamed'
  BY <1>3 DEF ResetInv, TokensNamed
<1>5. ASSUME NEW r \in Requests, r # m PROVE Resets(r)'
  BY <1>3, <1>5 DEF ResetInv, Resets, OwnerOf, Older, At
<1>6. Resets(m)'
  BY <1>1, <1>3 DEF Resets, ResetPlaces, Ends, At
<1>7. ASSUME NEW s \in Requests, s # m PROVE LogsIn(s)'
  <2>1. ASSUME NEW u, NotOlder(s, u) PROVE \A w : w = u => NotOlder(s, w)'
    <3> SUFFICES ASSUME NEW r \in Requests, Answered(r, "confirmReset")', r \in prior[s], OwnerOf(r)' = u
                 PROVE  req[s].arg \notin Older(r)'
      BY <1>3, <1>7 DEF NotOlder
    <3>1. r # m
      BY <1>2, <1>3 DEF HistoryOK, PriorHasEnded, Ended, Ends, At
    <3> QED
      BY <1>3, <2>1, <3>1 DEF NotOlder, Answered, OwnerOf, Older, At
  <2>2. req[s].at \in LoginPlaces \ {"login"} /\ req[s].do = "login" => NotOlder(s, req[s].v)'
    <3>1. req[s].v' = req[s].v
      BY <1>3, <1>7
    <3> QED
      BY <2>1, <3>1 DEF ResetInv, LogsIn
  <2>3. db.token[s].state # "none" /\ req[s].do = "login" => NotOlder(s, db.token[s].user)'
    <3>1. db.token[s].user' = db.token[s].user
      BY <1>3
    <3> QED
      BY <2>1, <3>1 DEF ResetInv, LogsIn
  <2> QED
    BY <1>3, <1>7, <2>2, <2>3 DEF ResetInv, LogsIn
<1>8. LogsIn(m)'
  <2>1. db.token[m].state = "none"
    BY <1>3 DEF CredentialInv, FreshCredentials, Kinds, State, Ended, Ends, At
  <2> QED
    BY <1>1, <1>3, <2>1 DEF LogsIn, LoginPlaces, Ends
<1> QED
  BY <1>4, <1>5, <1>6, <1>7, <1>8 DEF ResetInv

LEMMA ResetInvStep ==
    ASSUME NamesInv, CredentialInv, ResetInv, NEW m \in Requests, CredentialMove(m)
    PROVE  ResetInv'
<1>1. Writes(m) /\ Moves(m)
  BY AccountWrites, CredentialMoves
<1>2. CASE Begins(m)
  BY <1>2, ResetBegins
<1>3. CASE GoesOn(m)
  <2>1. Open(m)
    BY <1>3 DEF GoesOn
  <2>2. TokensNamed'
    <3>1. \A t \in Users : db'.token[t].state = "none" => db'.token[t] = db.token[t]
      BY <1>1, TokensStay
    <3> QED
      BY <3>1 DEF ResetInv, TokensNamed
  <2>3. ASSUME NEW r \in Requests, r = m, req[m].do = "confirmReset" PROVE Resets(r)'
    BY <1>1, <2>1, <2>3, ResetGoesOn DEF ResetInv
  <2>4. ASSUME NEW r \in Requests, r # m PROVE Resets(r)'
    <3>1. req'[r] = req[r]
      BY <1>1, <2>4, OthersStay DEF CredentialInv
    <3>2. prior'[r] = prior[r]
      BY <1>3, DoEffect DEF GoesOn, CredentialInv
    <3> QED
      BY <1>1, <2>1, <3>1, <3>2, ResetsStay DEF ResetInv
  <2>5. ASSUME NEW r \in Requests, r = m, req[m].do # "confirmReset" PROVE Resets(r)'
    <3>1. req'[m].do = req[m].do
      BY <1>1, <2>1, OthersStay DEF CredentialInv, Open
    <3> QED
      BY <2>5, <3>1 DEF Resets
  <2> QED
    BY <1>1, <2>1, <2>2, <2>3, <2>4, <2>5, LoginGoesOn DEF ResetInv
<1> QED
  BY <1>1, <1>2, <1>3 DEF Moves

LEMMA ResetInvRests ==
    ASSUME ResetInv, SameAccounts
    PROVE  ResetInv'
<1>1. req' = req /\ prior' = prior /\ db'.token = db.token /\ db'.link = db.link /\ db'.user = db.user
  BY DEF SameAccounts, SameLeads
<1>2. TokensNamed'
  BY <1>1 DEF ResetInv, TokensNamed
<1>3. ASSUME NEW r \in Requests PROVE Resets(r)'
  BY <1>1 DEF ResetInv, Resets, OwnerOf, Older, At
<1>4. ASSUME NEW s \in Requests PROVE LogsIn(s)'
  BY <1>1 DEF ResetInv, LogsIn, NotOlder, Answered, OwnerOf, Older, At
<1> QED
  BY <1>2, <1>3, <1>4 DEF ResetInv

LEMMA ResetInvAlways == AccountSpec => []ResetInv
<1>1. AccountInit => ResetInv
  <2> SUFFICES ASSUME AccountInit PROVE ResetInv
    OBVIOUS
  <2>1. \A r \in Requests : req[r] = [do |-> "none", at |-> "new", arg |-> Nil, v |-> Nil]
    BY DEF AccountInit, CredentialInit, RequestsInit
  <2>2. \A r \in Requests : req[r].do = "none"
    BY <2>1
  <2> QED
    BY <2>2 DEF AccountInit, ResetInv, Resets, LogsIn
<1>2. AccountInv /\ ResetInv /\ [(\E r \in Requests : CredentialMove(r)) \/ AtGoogle]_vars => ResetInv'
  <2> SUFFICES ASSUME AccountInv, ResetInv, [(\E r \in Requests : CredentialMove(r)) \/ AtGoogle]_vars PROVE ResetInv'
    OBVIOUS
  <2>1. CASE \E r \in Requests : CredentialMove(r)
    BY <2>1, ResetInvStep DEF AccountInv
  <2>2. CASE AtGoogle
    BY <2>2, AtGoogleRests, ResetInvRests DEF AccountInv
  <2>3. CASE UNCHANGED vars
    <3>1. SameAccounts
      BY <2>3 DEF vars, SameAccounts, SameUsers, SameLeads
    <3> QED
      BY <3>1, ResetInvRests
  <2> QED
    BY <2>1, <2>2, <2>3
<1> QED
  BY <1>1, <1>2, AccountInvAlways, PTL DEF AccountSpec

\* However a reset is interleaved with sign-ins, refreshes, other resets,
\* deletions and dropped requests, once it is answered no session of before it
\* is alive, and a later login with the old password, or an older one, does
\* not bring one.
THEOREM ResetsTakeOver == AccountSpec => []ResetTakesOver
<1>1. AccountInv /\ ResetInv => ResetTakesOver
  <2> SUFFICES ASSUME AccountInv, ResetInv, NEW r \in Requests, Answered(r, "confirmReset")
               PROVE  /\ \A t \in Users : db.token[t] = [state |-> "live", user |-> OwnerOf(r)] =>
                             t \in Requests /\ t \notin prior[r]
                      /\ \A s \in Requests : Answered(s, "login") /\ r \in prior[s] /\ db.token[s].user = OwnerOf(r) =>
                             req[s].arg \notin Accounts \cup prior[r]
    BY DEF ResetTakesOver, OwnerOf
  <2>1. ASSUME NEW t \in Users, db.token[t] = [state |-> "live", user |-> OwnerOf(r)] PROVE t \in Requests /\ t \notin prior[r]
    BY <2>1 DEF ResetInv, Resets, Answered, Older, Users, At
  <2>2. ASSUME NEW s \in Requests, Answered(s, "login"), r \in prior[s], db.token[s].user = OwnerOf(r)
        PROVE  req[s].arg \notin Accounts \cup prior[r]
    <3>1. Known(OwnerOf(r))
      <4>1. db.link[req[r].arg].kind = "RESET" /\ req[r].arg \in Users
        BY DEF AccountInv, NamesInv, CameWith, CredentialInv, CredentialThere, OneUse, NameOf, NameIn, KindOf, Callbacks, Answered, At
      <4> QED
        BY <4>1 DEF AccountInv, NamesInv, NamesLead, OwnerOf
    <3>2. OwnerOf(r) # Nil /\ s \in Users
      BY <3>1, SessionsAssumption, CoreWorkerAssumption DEF Known, Users
    <3>3. db.token[s].state # "none"
      BY <2>2, <3>2 DEF ResetInv, TokensNamed
    <3>4. NotOlder(s, db.token[s].user)
      BY <2>2, <3>3 DEF ResetInv, LogsIn, Answered
    <3> QED
      BY <2>2, <3>4 DEF NotOlder, Older
  <2> QED
    BY <2>1, <2>2
<1> QED
  BY <1>1, AccountInvAlways, ResetInvAlways, PTL

-----------------------------------------------------------------------------
(***************************************************************************)
(* A mail brings its password.                                             *)
(***************************************************************************)

SignUps == {s \in Requests : req[s].do = "signup"}
\* What a row of email_signups may be named.
Named == Accounts \cup {s \in SignUps : ~At(s, "signup") /\ ~At(s, "upsertSignup")}
Excused(t) == \E s \in SignUps : At(s, "killed") \/ (t \in Requests /\ Met(s, t))

\* Sign-up p is about to end the link t.
WillEnd(p, t) ==
    /\ p \in SignUps /\ req[p].v.owner = db.link[t].owner
    /\ At(p, "issueLink") \/ (At(p, "linkRow") /\ t \in req[p].v.old)

\* The row has the password of every link that is open, but for those ...
LinkGood(t) ==
    /\ IsLink(db.link[t])
    /\ db.link[t].kind = "VERIFY" =>
          /\ db.link[t].owner \in Named
          /\ db.link[t].state = "open" /\ db.link[t].owner = db.signup.id =>
                db.signup.pw = t \/ Excused(t) \/ \E p \in Requests : WillEnd(p, t)

\* ... and of the sign-up that is about to insert one.
SignsUp(p) ==
    req[p].do = "signup" =>
        /\ req[p].at \in {"signup", "upsertSignup", "issueLink", "linkRow"} \cup Ends
        /\ req[p].at \in {"issueLink", "linkRow"} =>
              /\ req[p].v.kind = "VERIFY" /\ req[p].v.owner \in Named
              /\ db.signup.id = req[p].v.owner => db.signup.pw = p \/ Excused(p)

\* What a verification has read, and what it leaves.
ByReset(w) == w \in Requests /\ req[w].do = "confirmReset"
Owed(r, w) == w = req[r].arg \/ Excused(r) \/ Excused(req[r].arg)
Confirms(r) ==
    req[r].do = "verify" =>
        /\ req[r].at \in {"verify", "consumeVerify", "emailOwner", "insertEmail", "dropSignup", "issue"} \cup Ends
        /\ db.link[req[r].arg].kind = "VERIFY"
        /\ req[r].at \in {"consumeVerify", "emailOwner", "insertEmail"} => Owed(r, req[r].v.pw)
        /\ req[r].at \in {"issue", "ok"} => Known(r)
        /\ Known(r) => Owed(r, db.user[r].pw) \/ ByReset(db.user[r].pw)

\* Who is where a password or a link is written.
OfKind(r) ==
    /\ req[r].at \in {"signup", "upsertSignup"} => req[r].do = "signup"
    /\ req[r].at \in {"issueLink", "linkRow"} /\ req[r].do # "signup" => req[r].v.kind = "RESET"
    /\ req[r].at \in {"consumeReset", "setPassword"} => req[r].do = "confirmReset"

MailInv ==
    /\ db.signup.id \in Named \cup {Nil}
    /\ \A t \in Users : LinkGood(t)
    /\ \A r \in Requests : SignsUp(r) /\ Confirms(r) /\ OfKind(r)

MailPlaces == {"signup", "upsertSignup", "issueLink", "linkRow", "verify", "consumeVerify", "emailOwner", "insertEmail",
               "dropSignup", "issue"}
MailStep(r) ==
    \/ Signup(r) \/ UpsertSignup(r) \/ IssueLink(r) \/ LinkRow(r) \/ Verify(r)
    \/ ConsumeLink(r, "consumeVerify", "emailOwner") \/ EmailOwner(r) \/ InsertEmail(r) \/ DropSignup(r) \/ Issue(r)

\* What runs at the places of a sign-up or a verification.
LEMMA MailActions ==
    ASSUME NEW r \in Requests, CredentialMove(r), req[r].at \in MailPlaces
    PROVE  MailStep(r) \/ Killed(r)
<1>0. req[r].at \in {"signup", "upsertSignup", "issueLink", "linkRow", "verify", "consumeVerify", "emailOwner", "insertEmail",
                     "dropSignup", "issue"}
  BY DEF MailPlaces
<1>1. ~ArriveSession(r) /\ ~ArriveSignUp(r) /\ ~ArriveCompany(r) /\ ~ArriveGoogle(r)
  <2>1. \A h, arg : ~Begin(r, h, arg)
    BY <1>0 DEF Begin, At
  <2> QED
    BY <2>1 DEF ArriveSession, ArriveSignUp, ArriveCompany, ArriveGoogle
<1>2. CASE SessionStep(r)
  BY <1>0, <1>1, <1>2 DEF SessionStep, MailStep, RevokeAll, ClearUser, ClearCompany, Refresh, Rotate, Logout, Login, RequestReset,
     ConfirmReset, ConsumeLink, SetPassword, OauthStart, OauthCallback, AppleCallback, TakeState, MintCode, Exchange, UseCode,
     AppleNative, FindIdentity, FindLogin, OauthIdentity, OauthEmail, OauthLogin, OauthInsert, At
<1>3. CASE SignUpStep(r)
  <2>1. ~(SendPhone(r) \/ ConsumeOpen(r) \/ InsertCode(r) \/ VerifyPhone(r) \/ Bump(r) \/ ConsumeCode(r) \/ Owner(r) \/ Me(r))
    BY <1>0 DEF SendPhone, ConsumeOpen, InsertCode, VerifyPhone, Bump, ConsumeCode, Owner, Me, At
  <2>2. ~(Providers(r) \/ Taken(r) \/ SetSocial(r) \/ BindLogin(r) \/ BindLoginInsert(r) \/ BindPhone(r) \/ BindPhoneInsert(r))
    BY <1>0 DEF Providers, Taken, SetSocial, BindLogin, BindLoginInsert, BindPhone, BindPhoneInsert, At
  <2>3. ~(InsertUser(r) \/ RacedUser(r) \/ CreateFromPending(r))
    BY <1>0 DEF InsertUser, RacedUser, CreateFromPending, InsertSocial, CreateRaced, At
  <2> QED
    BY <1>1, <1>3, <2>1, <2>2, <2>3 DEF SignUpStep, MailStep
<1>4. ~CompanyStep(r)
  <2>1. ~(VerifyBusiness(r) \/ CompleteFirm(r) \/ InsertFirm(r) \/ InsertAdmin(r) \/ UndoFirm(r) \/ RequireAdmin(r, "invite", "inviteMember")
          \/ InviteMember(r) \/ InvitePending(r) \/ ResendMail(r) \/ ResendRow(r) \/ InviteCount(r) \/ InviteRow(r))
    BY <1>0 DEF VerifyBusiness, CompleteFirm, InsertFirm, InsertAdmin, UndoFirm, RequireAdmin, InviteMember, InvitePending,
       ResendMail, ResendRow, InviteCount, InviteRow, At
  <2>2. ~(InviteMail(r) \/ InviteUndo(r) \/ AcceptInvite(r) \/ AcceptUser(r) \/ Join(r) \/ RequireAdmin(r, "removeMember", "removeTarget")
          \/ RemoveTarget(r) \/ CountAdmins(r) \/ RemoveRow(r) \/ RequireAdmin(r, "transferAdmin", "transferTarget")
          \/ TransferTarget(r) \/ Transfer(r) \/ TransferWrite(r))
    BY <1>0 DEF InviteMail, InviteUndo, AcceptInvite, AcceptUser, Join, RequireAdmin, RemoveTarget, CountAdmins, RemoveRow,
       TransferTarget, Transfer, TransferWrite, At
  <2>3. ~(DeleteAccount(r) \/ MarkUser(r) \/ CancelPlans(r) \/ Unmark(r) \/ MarkFirm(r))
    BY <1>0 DEF DeleteAccount, MarkUser, CancelPlans, Unmark, MarkFirm, At
  <2> QED
    BY <1>1, <2>1, <2>2, <2>3 DEF CompanyStep
<1>5. ~GoogleStep(r)
  BY <1>0, <1>1 DEF GoogleStep, GoogleConnect, GoogleCallback, GoogleCode, GoogleComplete, UseIntegrationCode, Connection,
     GoogleDisconnect, Wipe, GoogleSync, Refreshed, List, Persist, SyncRow, At
<1> QED
  BY <1>2, <1>3, <1>4, <1>5 DEF CredentialMove

Led == {"signup", "verify", "upsertSignup", "issueLink", "linkRow", "consumeReset", "setPassword"}
LedStep(r) ==
    \/ RequestReset(r) \/ Signup(r) \/ UpsertSignup(r) \/ IssueLink(r) \/ ConfirmReset(r)
    \/ ConsumeLink(r, "consumeReset", "setPassword")

\* Only these lead to the places where a link or a password is written.
LEMMA MailsAreLed ==
    ASSUME CredentialInv, NEW r \in Requests, CredentialMove(r), req'[r].at \in Led
    PROVE  \/ LedStep(r) \/ Begin(r, "signup", Nil)
           \/ \E l \in Users : db.link[l].kind = "VERIFY" /\ Begin(r, "verify", l)
<1>0. HistoryOK
  BY DEF CredentialInv
<1>1. \A statement, v, tables : Do(r, statement, v, tables) => statement \in Led
  BY <1>0, DoEffect
<1>n. \A v, tables :
         /\ \A statement \in {"ok", "refused"} : ~Do(r, statement, v, tables)
         /\ ~Do(r, "resendMail", v, tables) /\ ~Do(r, "inviteCount", v, tables) /\ ~Do(r, "persist", v, tables)
  BY <1>1 DEF Led
<1>2. \A h \in CredentialHandlers \ {"signup", "verify", "confirmReset"} : \A arg : ~Begin(r, h, arg)
  BY <1>0, BeginRequest DEF CredentialHandlers, OneUse, Led
<1>b. \A arg : ~Begin(r, "confirmReset", arg)
  BY <1>0, BeginRequest DEF Led
<1>h. {"login", "requestReset", "oauthStart", "appleNative", "sendPhone", "verifyPhone",
       "deleteAccount", "verifyBusiness", "acceptInvite", "removeMember", "transferAdmin", "invite",
       "googleConnect", "googleDisconnect", "googleSync", "refresh", "logout", "oauthCallback", "appleCallback",
       "exchange", "googleComplete", "googleCallback"} \subseteq CredentialHandlers \ {"signup", "verify", "confirmReset"}
  BY DEF CredentialHandlers, OneUse
<1>3. /\ ~ArriveSession(r) /\ ~ArriveCompany(r) /\ ~ArriveGoogle(r)
      /\ ArriveSignUp(r) => \/ Begin(r, "signup", Nil)
                            \/ \E l \in Users : db.link[l].kind = "VERIFY" /\ Begin(r, "verify", l)
  <2>1. ~ArriveSession(r)
    BY <1>2, <1>b, <1>h DEF ArriveSession
  <2>2. ArriveSignUp(r) => \/ Begin(r, "signup", Nil)
                           \/ \E l \in Users : db.link[l].kind = "VERIFY" /\ Begin(r, "verify", l)
    BY <1>2, <1>h DEF ArriveSignUp
  <2>3. ~ArriveCompany(r)
    BY <1>2, <1>h DEF ArriveCompany
  <2>4. ~ArriveGoogle(r)
    BY <1>2, <1>h DEF ArriveGoogle
  <2> QED
    BY <2>1, <2>2, <2>3, <2>4
<1>4. CASE SessionStep(r)
  <2>1. ~(Issue(r) \/ RevokeAll(r) \/ ClearUser(r) \/ ClearCompany(r) \/ Refresh(r) \/ Rotate(r) \/ Logout(r) \/ Login(r))
    BY <1>1 DEF Issue, RevokeAll, ClearUser, ClearCompany, Refresh, Rotate, Logout, Login, GoOn, End, Refuse, Led
  <2>2. ~LinkRow(r) /\ ~SetPassword(r) /\ ~OauthStart(r)
    <3>1. ~LinkRow(r)
      BY <1>n DEF LinkRow, Refuse
    <3>2. ~SetPassword(r) /\ ~OauthStart(r)
      BY <1>1 DEF SetPassword, OauthStart, GoOn, End, Refuse, Led
    <3> QED
      BY <3>1, <3>2
  <2>3. ~(OauthCallback(r) \/ AppleCallback(r) \/ MintCode(r) \/ Exchange(r) \/ UseCode(r) \/ AppleNative(r))
    BY <1>1 DEF OauthCallback, AppleCallback, TakeState, MintCode, Exchange, UseCode, AppleNative, GoOn, End, Refuse, Led
  <2>4. ~(FindIdentity(r) \/ FindLogin(r) \/ OauthIdentity(r) \/ OauthEmail(r) \/ OauthLogin(r) \/ OauthInsert(r))
    BY <1>1 DEF FindIdentity, FindLogin, OauthIdentity, OauthEmail, OauthLogin, OauthInsert, Found, GoOn, End, Refuse, Led
  <2> QED
    BY <1>3, <1>4, <2>1, <2>2, <2>3, <2>4 DEF SessionStep, LedStep
<1>5. CASE SignUpStep(r)
  <2>1. ~(SendPhone(r) \/ ConsumeOpen(r) \/ InsertCode(r) \/ VerifyPhone(r) \/ Bump(r) \/ ConsumeCode(r) \/ Owner(r))
    BY <1>1 DEF SendPhone, ConsumeOpen, InsertCode, VerifyPhone, Bump, ConsumeCode, Owner, GoOn, End, Refuse, Led
  <2>2. ~(Me(r) \/ Providers(r) \/ Taken(r) \/ SetSocial(r) \/ BindLogin(r))
    BY <1>1 DEF Me, Providers, Taken, SetSocial, BindLogin, GoOn, End, Refuse, Led
  <2>3. ~(BindLoginInsert(r) \/ BindPhone(r) \/ BindPhoneInsert(r) \/ InsertUser(r) \/ RacedUser(r) \/ CreateFromPending(r))
    BY <1>1 DEF BindLoginInsert, BindPhone, BindPhoneInsert, InsertUser, RacedUser, CreateFromPending, InsertSocial, CreateRaced,
       GoOn, End, Refuse, Led
  <2>4. ~(Verify(r) \/ ConsumeLink(r, "consumeVerify", "emailOwner") \/ EmailOwner(r) \/ InsertEmail(r) \/ DropSignup(r))
    BY <1>1 DEF Verify, ConsumeLink, EmailOwner, InsertEmail, DropSignup, GoOn, End, Refuse, Led
  <2> QED
    BY <1>3, <1>5, <2>1, <2>2, <2>3, <2>4 DEF SignUpStep, LedStep
<1>6. ~CompanyStep(r)
  <2>1. ~(VerifyBusiness(r) \/ CompleteFirm(r) \/ InsertFirm(r) \/ InsertAdmin(r) \/ UndoFirm(r))
    BY <1>1 DEF VerifyBusiness, CompleteFirm, InsertFirm, InsertAdmin, UndoFirm, GoOn, End, Refuse, Led
  <2>2. ~(RequireAdmin(r, "invite", "inviteMember") \/ InviteMember(r) \/ InvitePending(r) \/ ResendMail(r) \/ ResendRow(r))
    <3>1. ~RequireAdmin(r, "invite", "inviteMember") /\ ~InviteMember(r)
      BY <1>1 DEF RequireAdmin, InviteMember, GoOn, Refuse, Led
    <3>2. ~InvitePending(r)
      BY <1>n DEF InvitePending, GoOn, Refuse
    <3>3. ~ResendMail(r) /\ ~ResendRow(r)
      BY <1>1 DEF ResendMail, ResendRow, End, Refuse, Led
    <3> QED
      BY <3>1, <3>2, <3>3
  <2>3. ~(InviteCount(r) \/ InviteRow(r) \/ InviteMail(r) \/ InviteUndo(r) \/ AcceptInvite(r) \/ AcceptUser(r) \/ Join(r))
    BY <1>1 DEF InviteCount, InviteRow, InviteMail, InviteUndo, AcceptInvite, AcceptUser, Join, GoOn, End, Refuse, Led
  <2>4. ~(RequireAdmin(r, "removeMember", "removeTarget") \/ RemoveTarget(r) \/ CountAdmins(r) \/ RemoveRow(r)
          \/ RequireAdmin(r, "transferAdmin", "transferTarget") \/ TransferTarget(r) \/ Transfer(r) \/ TransferWrite(r))
    BY <1>1 DEF RequireAdmin, RemoveTarget, CountAdmins, RemoveRow, TransferTarget, Transfer, TransferWrite, GoOn, End, Refuse, Led
  <2>5. ~(DeleteAccount(r) \/ MarkUser(r) \/ CancelPlans(r) \/ Unmark(r) \/ MarkFirm(r))
    BY <1>1 DEF DeleteAccount, MarkUser, CancelPlans, Unmark, MarkFirm, GoOn, End, Refuse, Led
  <2> QED
    BY <1>3, <2>1, <2>2, <2>3, <2>4, <2>5 DEF CompanyStep
<1>7. ~GoogleStep(r)
  <2>1. ~(GoogleConnect(r) \/ GoogleCallback(r) \/ GoogleCode(r) \/ GoogleComplete(r) \/ UseIntegrationCode(r)
          \/ Connection(r) \/ GoogleDisconnect(r) \/ Wipe(r))
    BY <1>1 DEF GoogleConnect, GoogleCallback, GoogleCode, GoogleComplete, UseIntegrationCode, Connection, GoogleDisconnect, Wipe,
       GoOn, End, Refuse, Led
  <2>2. ~(GoogleSync(r) \/ Refreshed(r) \/ List(r) \/ Persist(r) \/ SyncRow(r))
    <3>1. ~GoogleSync(r) /\ ~Refreshed(r)
      BY <1>1 DEF GoogleSync, Refreshed, GoOn, Refuse, Led
    <3>2. ~List(r)
      <4>1. ~Refuse(r) /\ \A v, tables : ~Do(r, "persist", v, tables)
        BY <1>n DEF Refuse
      <4> QED
        BY <4>1 DEF List
    <3>3. ~Persist(r) /\ ~SyncRow(r)
      <4>1. ~Refuse(r) /\ \A v, tables : ~Do(r, "syncRow", v, tables) /\ ~GoOn(r, "syncRow", v)
        BY <1>1 DEF Refuse, GoOn, Led
      <4>2. ~Persist(r)
        BY <4>1 DEF Persist
      <4>3. ~SyncRow(r)
        BY <4>1, <1>n DEF SyncRow
      <4> QED
        BY <4>2, <4>3
    <3> QED
      BY <3>1, <3>2, <3>3
  <2> QED
    BY <1>3, <2>1, <2>2 DEF GoogleStep
<1>8. ~Killed(r)
  BY <1>1 DEF Killed, Led
<1> QED
  BY <1>3, <1>4, <1>5, <1>6, <1>7, <1>8 DEF CredentialMove
\* Where it is that they lead.
LEMMA LedLeads ==
    ASSUME CredentialInv, NEW m \in Requests, CredentialMove(m)
    PROVE  /\ req'[m].at \in {"signup", "verify"} =>
                 /\ At(m, "new") /\ req'[m].do = req'[m].at
                 /\ At(m, "verify")' => req'[m].arg \in Users /\ db.link[req'[m].arg].kind = "VERIFY"
           /\ At(m, "upsertSignup")' => At(m, "signup")
           /\ At(m, "issueLink")' => At(m, "upsertSignup") \/ (At(m, "requestReset") /\ req'[m].v.kind = "RESET")
           /\ At(m, "linkRow")' => /\ At(m, "issueLink") /\ db' = db
                                   /\ req'[m].v.kind = req[m].v.kind /\ req'[m].v.owner = req[m].v.owner
                                   /\ req'[m].v.old = OpenLinks(req[m].v.kind, req[m].v.owner)
           /\ At(m, "consumeReset")' => At(m, "confirmReset")
           /\ At(m, "setPassword")' => At(m, "consumeReset")
<1> SUFFICES ASSUME req'[m].at \in Led
             PROVE  /\ req'[m].at \in {"signup", "verify"} =>
                          /\ At(m, "new") /\ req'[m].do = req'[m].at
                          /\ At(m, "verify")' => req'[m].arg \in Users /\ db.link[req'[m].arg].kind = "VERIFY"
                    /\ At(m, "upsertSignup")' => At(m, "signup")
                    /\ At(m, "issueLink")' => At(m, "upsertSignup") \/ (At(m, "requestReset") /\ req'[m].v.kind = "RESET")
                    /\ At(m, "linkRow")' => /\ At(m, "issueLink") /\ db' = db
                                            /\ req'[m].v.kind = req[m].v.kind /\ req'[m].v.owner = req[m].v.owner
                                            /\ req'[m].v.old = OpenLinks(req[m].v.kind, req[m].v.owner)
                    /\ At(m, "consumeReset")' => At(m, "confirmReset")
                    /\ At(m, "setPassword")' => At(m, "consumeReset")
  BY DEF Led, At
<1>0. HistoryOK /\ req'[m].at \notin Ends
  BY DEF CredentialInv, Led, Ends
<1>1. \A statement, v, tables :
         Do(m, statement, v, tables) => req'[m].at = statement /\ req'[m].v = v /\ db' = tables
  BY <1>0, DoEffect
<1>2. ~Refuse(m) /\ \A tables : ~End(m, tables)
  BY <1>0, <1>1 DEF Refuse, End, Ends
<1>3. \A h, arg : Begin(m, h, arg) => At(m, "new") /\ req'[m].do = h /\ req'[m].at = h /\ req'[m].arg = arg
  BY <1>0, BeginRequest DEF Begin
<1>4. CASE Begin(m, "signup", Nil) \/ \E l \in Users : db.link[l].kind = "VERIFY" /\ Begin(m, "verify", l)
  BY <1>3, <1>4 DEF At
<1>5. CASE RequestReset(m)
  <2>1. At(m, "requestReset") /\ \E u \in ByEmail : GoOn(m, "issueLink", [kind |-> "RESET", owner |-> u])
    BY <1>2, <1>5 DEF RequestReset
  <2>2. \A u : [kind |-> "RESET", owner |-> u].kind = "RESET"
    OBVIOUS
  <2>3. req'[m].at = "issueLink" /\ req'[m].v.kind = "RESET"
    BY <1>1, <2>1, <2>2 DEF GoOn
  <2> QED
    BY <2>1, <2>3 DEF At
<1>6. CASE Signup(m) \/ UpsertSignup(m)
  <2>1. \/ At(m, "signup") /\ req'[m].at = "upsertSignup"
        \/ At(m, "upsertSignup") /\ req'[m].at = "issueLink"
    BY <1>1, <1>2, <1>6 DEF Signup, UpsertSignup, GoOn
  <2> QED
    BY <2>1 DEF At
<1>7. CASE IssueLink(m)
  <2> DEFINE w == [kind |-> req[m].v.kind, owner |-> req[m].v.owner, old |-> OpenLinks(req[m].v.kind, req[m].v.owner)]
  <2>1. At(m, "issueLink") /\ req'[m].at = "linkRow" /\ req'[m].v = w /\ db' = db
    BY <1>1, <1>7 DEF IssueLink, GoOn
  <2> QED
    BY <2>1 DEF At
<1>8. CASE ConfirmReset(m) \/ ConsumeLink(m, "consumeReset", "setPassword")
  <2>1. \/ At(m, "confirmReset") /\ req'[m].at = "consumeReset"
        \/ At(m, "consumeReset") /\ req'[m].at = "setPassword"
    BY <1>1, <1>2, <1>8 DEF ConfirmReset, ConsumeLink, GoOn
  <2> QED
    BY <2>1 DEF At
<1> QED
  BY <1>4, <1>5, <1>6, <1>7, <1>8, MailsAreLed DEF LedStep

LEMMA OfKindStays ==
    ASSUME CredentialInv, NamesInv, NEW m \in Requests, CredentialMove(m), Moves(m), SignsUp(m), NEW r \in Requests, OfKind(r)
    PROVE  OfKind(r)'
<1>1. HistoryOK /\ (r # m => req'[r] = req[r]) /\ (~At(m, "new") => req'[m].do = req[m].do)
  BY OthersStay DEF CredentialInv
<1>2. CASE r # m
  BY <1>1, <1>2 DEF OfKind
<1>3. CASE r = m
  <2>1. At(m, "confirmReset") => req[m].do = "confirmReset"
    BY DEF NamesInv, InHand, At
  <2>2. At(m, "requestReset") => req[m].do # "signup"
    BY DEF SignsUp, Ends, At
  <2> QED
    BY <1>1, <1>3, <2>1, <2>2, LedLeads DEF OfKind, At
<1> QED
  BY <1>2, <1>3

\* Names stay, and so do excuses.
LEMMA NamedStays ==
    ASSUME CredentialInv, NEW m \in Requests, CredentialMove(m), Moves(m)
    PROVE  /\ Named \subseteq Named'
           /\ \A t : Excused(t) => Excused(t)'
           /\ Nil \notin Named
<1>1. HistoryOK
  BY DEF CredentialInv
<1>2. ASSUME NEW s \in SignUps PROVE ~At(s, "new") /\ s \in SignUps'
  <2>1. ~At(s, "new") /\ s \in Requests
    BY DEF SignUps, CredentialInv, GuessesLeft
  <2> QED
    BY <1>1, <2>1, OthersStay DEF SignUps
<1>3. ASSUME NEW s \in SignUps, ~At(s, "signup"), ~At(s, "upsertSignup") PROVE ~At(s, "signup")' /\ ~At(s, "upsertSignup")'
  <2>1. s \in Requests /\ ~At(s, "new")
    BY <1>2 DEF SignUps
  <2>2. CASE s # m
    BY <1>1, <1>3, <2>1, <2>2, OthersStay DEF At
  <2>3. CASE s = m
    BY <1>3, <2>1, <2>3, LedLeads DEF At
  <2> QED
    BY <2>2, <2>3
<1>4. ASSUME NEW t, Excused(t) PROVE Excused(t)'
  <2>1. PICK s \in SignUps : At(s, "killed") \/ (t \in Requests /\ Met(s, t))
    BY <1>4 DEF Excused
  <2>2. s \in Requests
    BY DEF SignUps
  <2>3. At(s, "killed") => At(s, "killed")'
    BY <1>1, <2>2, OthersStay DEF At, Ended, Ends
  <2>4. t \in Requests /\ Met(s, t) => Met(s, t)'
    BY <1>1, <2>2, MetStays
  <2> QED
    BY <1>2, <2>1, <2>3, <2>4 DEF Excused
<1>5. Nil \notin Named
  BY SessionsAssumption, CoreWorkerAssumption DEF Named, SignUps
<1> QED
  BY <1>2, <1>3, <1>4, <1>5 DEF Named
\* The row of the address: as it was, another's password in it, or gone.
LEMMA SignupRow ==
    ASSUME NamesInv, NEW m \in Requests, Writes(m), NEW o, o # Nil, o = db'.signup.id
    PROVE  \/ db'.signup = db.signup
           \/ At(m, "upsertSignup") /\ db'.signup.pw = m /\ (o = db.signup.id \/ o = m)
<1>1. [id |-> Nil, pw |-> Nil].id = Nil
  OBVIOUS
<1>2. ASSUME NEW i, db'.signup = [id |-> i, pw |-> m] PROVE db'.signup.id = i /\ db'.signup.pw = m
  BY <1>2
<1> QED
  BY <1>1, <1>2 DEF Writes, SignupWritten

\* Who writes it is a sign-up, which others have met.
LEMMA UpsertExcuses ==
    ASSUME CredentialInv, NEW m \in Requests, Moves(m), At(m, "upsertSignup"), OfKind(m),
           NEW p \in Requests, p # m, Open(p)
    PROVE  Excused(p)'
<1>1. HistoryOK /\ Open(m) /\ m \in SignUps
  BY DEF CredentialInv, Open, Ended, Ends, At, OfKind, SignUps
<1>2. Met(m, p)' /\ req'[m].do = "signup"
  BY <1>1, OpenMeet, MetStays, OthersStay DEF Open, SignUps
<1> QED
  BY <1>2 DEF Excused, SignUps

LEMMA SignsUpStays ==
    ASSUME CredentialInv, NamesInv, NEW m \in Requests, CredentialMove(m), Moves(m), Writes(m), OfKind(m),
           NEW p \in Requests, p # m, SignsUp(p)
    PROVE  SignsUp(p)'
<1>1. HistoryOK /\ req'[p] = req[p]
  BY OthersStay DEF CredentialInv
<1>2. Named \subseteq Named' /\ (Excused(p) => Excused(p)') /\ Nil \notin Named
  BY NamedStays
<1>3. ASSUME req[p].do = "signup", req[p].at \in {"issueLink", "linkRow"}, NEW o, o = db'.signup.id, o = req[p].v.owner
      PROVE  db'.signup.pw = p \/ Excused(p)'
  <2>1. o \in Named /\ o # Nil
    BY <1>2, <1>3 DEF SignsUp
  <2>2. CASE db'.signup = db.signup
    BY <1>2, <1>3, <2>2 DEF SignsUp
  <2>3. CASE At(m, "upsertSignup")
    <3>1. Open(p)
      BY <1>3 DEF Open, Ended, Ends, At
    <3> QED
      BY <2>3, <3>1, UpsertExcuses
  <2> QED
    BY <1>3, <2>1, <2>2, <2>3, SignupRow
<1> QED
  BY <1>1, <1>2, <1>3 DEF SignsUp

LEMMA SignsUpGoes ==
    ASSUME CredentialInv, NamesInv, MailInv, NEW m \in Requests, CredentialMove(m), Moves(m), Writes(m)
    PROVE  SignsUp(m)'
<1> SUFFICES ASSUME req'[m].do = "signup" PROVE SignsUp(m)'
  BY DEF SignsUp
<1>0. HistoryOK /\ SignsUp(m) /\ OfKind(m)
  BY DEF CredentialInv, MailInv
<1>1. Named \subseteq Named' /\ (Excused(m) => Excused(m)') /\ Nil \notin Named
  BY NamedStays
<1>2. \A statement, v, tables :
         Do(m, statement, v, tables) =>
             /\ req'[m].at = statement /\ db' = tables /\ req'[m].v = IF statement \in Ends THEN Nil ELSE v
  BY <1>0, DoEffect
<1>3. ASSUME req'[m].at \in Ends \cup {"signup", "upsertSignup"} PROVE SignsUp(m)'
  BY <1>3 DEF SignsUp, Ends
<1>4. CASE At(m, "new")
  <2>1. PICK h, arg : Begin(m, h, arg)
    <3>1. ~GoesOn(m)
      BY <1>4 DEF GoesOn, Open
    <3> QED
      BY <3>1 DEF Moves, Begins
  <2>2. req'[m].at = "signup"
    BY <1>0, <2>1, BeginRequest
  <2> QED
    BY <1>3, <2>2
<1>5. CASE ~At(m, "new")
  <2>1. req[m].do = "signup" /\ ~Ended(m)
    <3>1. GoesOn(m)
      BY <1>5 DEF Moves, Begins, Begin
    <3> QED
      BY <1>0, <1>5, <3>1, OthersStay DEF GoesOn, Open
  <2>2. req[m].at \in {"signup", "upsertSignup", "issueLink", "linkRow"}
    BY <1>0, <2>1 DEF SignsUp, Ended
  <2>3. MailStep(m) \/ Killed(m)
    BY <2>2, MailActions DEF MailPlaces
  <2>4. Signup(m) \/ UpsertSignup(m) \/ IssueLink(m) \/ LinkRow(m) \/ Killed(m)
    BY <2>2, <2>3 DEF MailStep, Verify, ConsumeLink, EmailOwner, InsertEmail, DropSignup, Issue, At
  <2>5. CASE Signup(m) \/ LinkRow(m) \/ Killed(m)
    BY <1>2, <1>3, <2>5 DEF Signup, LinkRow, Killed, GoOn, Refuse, Ends
  <2>6. CASE UpsertSignup(m)
    <3> DEFINE id == IF db.signup.id = Nil THEN m ELSE db.signup.id
               row == [id |-> id, pw |-> m]
               v == [kind |-> "VERIFY", owner |-> id]
    <3>1. At(m, "upsertSignup") /\ Do(m, "issueLink", v, [db EXCEPT !.signup = row])
      BY <2>6 DEF UpsertSignup
    <3>2. req'[m].at = "issueLink" /\ req'[m].v = v /\ db' = [db EXCEPT !.signup = row]
      BY <1>2, <3>1 DEF Ends
    <3>3. db'.signup.pw = m /\ req'[m].v.kind = "VERIFY" /\ req'[m].v.owner = id
      <4>1. "signup" \in DOMAIN db
        BY DEF NamesInv, UserShape
      <4> QED
        BY <3>2, <4>1
    <3>4. id \in Named'
      <4>1. m \in Named'
        BY <3>2 DEF Named, SignUps, At
      <4>2. db.signup.id \in Named' \cup {Nil}
        BY <1>1 DEF MailInv
      <4> QED
        BY <4>1, <4>2
    <3> HIDE DEF id
    <3> QED
      BY <3>2, <3>3, <3>4 DEF SignsUp, Ends
  <2>7. CASE IssueLink(m)
    <3>1. At(m, "issueLink") /\ At(m, "linkRow")'
      BY <1>2, <2>7 DEF IssueLink, GoOn, At
    <3>2. db' = db /\ req'[m].v.kind = req[m].v.kind /\ req'[m].v.owner = req[m].v.owner
      BY <3>1, LedLeads
    <3> QED
      BY <1>0, <1>1, <2>1, <3>1, <3>2 DEF SignsUp, Ends, At
  <2> QED
    BY <2>4, <2>5, <2>6, <2>7
<1> QED
  BY <1>4, <1>5
LEMMA KilledExcuses ==
    ASSUME CredentialInv, NEW m \in Requests, Killed(m), m \in SignUps
    PROVE  \A t : Excused(t)'
<1>1. req'[m].at = "killed" /\ req'[m].do = req[m].do
  BY DoEffect DEF Killed, CredentialInv
<1> QED
  BY <1>1 DEF Excused, SignUps, At

\* A sign-up that ends the links before its own ends this one, or is dropped.
LEMMA LinkEnds ==
    ASSUME CredentialInv, NamesInv, MailInv, NEW m \in Requests, CredentialMove(m), NEW t \in Users, t # m,
           WillEnd(m, t), db.link[t].state = "open", db.link[t].kind = "VERIFY", db.link[t].owner = db.signup.id,
           db'.link[t].owner = db.link[t].owner, db'.link[t].state = "open"
    PROVE  Excused(t)' \/ WillEnd(m, t)'
<1>0. HistoryOK /\ SignsUp(m) /\ m \in SignUps /\ req[m].do = "signup" /\ req[m].at \in {"issueLink", "linkRow"}
  BY DEF CredentialInv, MailInv, WillEnd, SignUps, At
<1>1. \A statement, v, tables :
         Do(m, statement, v, tables) =>
             req'[m].at = statement /\ db' = tables /\ (statement \notin Ends => req'[m].v = v) /\ req'[m].do = req[m].do
  BY <1>0, DoEffect
<1>2. MailStep(m) \/ Killed(m)
  BY <1>0, MailActions DEF MailPlaces
<1>3. IssueLink(m) \/ LinkRow(m) \/ Killed(m)
  BY <1>0, <1>2 DEF MailStep, Signup, UpsertSignup, Verify, ConsumeLink, EmailOwner, InsertEmail, DropSignup, Issue, At
<1>4. CASE Killed(m)
  BY <1>0, <1>4, KilledExcuses
<1>5. CASE IssueLink(m)
  <2>1. At(m, "issueLink") /\ At(m, "linkRow")' /\ req'[m].do = "signup"
    BY <1>0, <1>1, <1>5 DEF IssueLink, GoOn, At
  <2>2. req'[m].v.owner = req[m].v.owner /\ req'[m].v.old = OpenLinks(req[m].v.kind, req[m].v.owner)
    BY <2>1, LedLeads
  <2>3. t \in OpenLinks(req[m].v.kind, req[m].v.owner)
    <3>1. req[m].v.kind = "VERIFY" /\ req[m].v.owner = db.link[t].owner
      BY <1>0 DEF SignsUp, WillEnd
    <3>2. db.link[t] = [state |-> db.link[t].state, kind |-> db.link[t].kind, owner |-> db.link[t].owner]
      BY DEF MailInv, LinkGood, IsLink
    <3> QED
      BY <3>1, <3>2 DEF OpenLinks
  <2> QED
    BY <2>1, <2>2, <2>3 DEF WillEnd, SignUps
<1>6. CASE LinkRow(m)
  <2> DEFINE v == req[m].v
             gone(u) == [db.link[u] EXCEPT !.state = "gone"]
             table == [u \in Users |->
                  IF u = m THEN [state |-> "open", kind |-> v.kind, owner |-> v.owner]
                  ELSE IF u \in v.old /\ db.link[u].state = "open" THEN gone(u) ELSE db.link[u]]
  <2>1. t \in v.old /\ v.owner = db.signup.id
    BY <1>6 DEF WillEnd, LinkRow, At
  <2>2. db' = [db EXCEPT !.link = table]
    BY <1>1, <1>6, <2>1 DEF LinkRow
  <2>3. db'.link = table
    BY <2>2 DEF CredentialInv, CredentialShape, CredentialTables
  <2>4. db'.link[t] = gone(t)
    BY <2>1, <2>3
  <2>5. gone(t).state = "gone"
    BY DEF CredentialInv, CredentialShape
  <2> QED
    BY <2>4, <2>5
<1> QED
  BY <1>3, <1>4, <1>5, <1>6

LEMMA LinksStayGood ==
    ASSUME CredentialInv, NamesInv, MailInv, NEW m \in Requests, CredentialMove(m), Moves(m), Writes(m), Turns(m), ~Ended(m),
           NEW t \in Users
    PROVE  LinkGood(t)'
<1>0. HistoryOK /\ SignsUp(m) /\ OfKind(m) /\ LinkGood(t)
  BY DEF CredentialInv, MailInv
<1>1. Named \subseteq Named' /\ (Excused(t) => Excused(t)') /\ Nil \notin Named
  BY NamedStays
<1>i. IsLink(db'.link[t])
  BY <1>0 DEF Writes, LinkWritten, LinkGood
<1>2. t = m => db.link[t].state = "none" /\ db.link[t].kind # "VERIFY"
  BY DEF CredentialInv, FreshCredentials, LinksAreOfAKind, Kinds, State
<1>3. CASE t = m /\ At(m, "linkRow") /\ db'.link[t].kind = req[m].v.kind /\ db'.link[t].owner = req[m].v.owner
  <2> SUFFICES ASSUME db'.link[t].kind = "VERIFY" PROVE LinkGood(t)'
    BY <1>i DEF LinkGood
  <2>1. req[m].do = "signup"
    BY <1>0, <1>3 DEF OfKind, At
  <2>2. /\ req[m].v.owner \in Named
        /\ db.signup.id = req[m].v.owner => db.signup.pw = m \/ Excused(m)
    BY <1>0, <1>3, <2>1 DEF SignsUp, At
  <2>3. db'.signup = db.signup
    BY <1>3 DEF Writes, SignupWritten, At
  <2> QED
    BY <1>1, <1>3, <1>i, <2>2, <2>3 DEF LinkGood
<1>4. CASE db'.link[t].kind = db.link[t].kind /\ db'.link[t].owner = db.link[t].owner
  <2> SUFFICES ASSUME db.link[t].kind = "VERIFY" PROVE LinkGood(t)'
    BY <1>4, <1>i DEF LinkGood
  <2>1. t # m /\ db.link[t].owner \in Named
    BY <1>0, <1>2 DEF LinkGood
  <2> SUFFICES ASSUME db'.link[t].state = "open", db'.link[t].owner = db'.signup.id
               PROVE  db'.signup.pw = t \/ Excused(t)' \/ \E p \in Requests : WillEnd(p, t)'
    BY <1>1, <1>4, <1>i, <2>1 DEF LinkGood
  <2>2. db.link[t].state = "open"
    BY <2>1 DEF Turns, Kinds, State, IsSpent
  <2>3. CASE db'.signup = db.signup
    <3>1. CASE db.signup.pw = t \/ Excused(t)
      BY <1>1, <2>3, <3>1
    <3>2. CASE \E p \in Requests : WillEnd(p, t)
      <4>1. PICK p \in Requests : WillEnd(p, t)
        BY <3>2
      <4>2. CASE p = m
        BY <1>4, <2>1, <2>2, <2>3, <4>1, <4>2, LinkEnds
      <4>3. CASE p # m
        <5>1. req'[p] = req[p]
          BY <1>0, <4>3, OthersStay
        <5> QED
          BY <1>4, <4>1, <5>1 DEF WillEnd, SignUps, At
      <4> QED
        BY <4>2, <4>3
    <3> QED
      BY <1>0, <1>4, <2>2, <2>3, <3>1, <3>2 DEF LinkGood
  <2>4. CASE At(m, "upsertSignup") /\ (db.link[t].owner = db.signup.id \/ db.link[t].owner = m)
    <3>1. m \in SignUps /\ m \notin Named
      BY <1>0, <2>4, SessionsAssumption DEF OfKind, SignUps, Named, At
    <3>2. db.link[t].owner = db.signup.id /\ db.signup.id # Nil
      BY <1>1, <2>1, <2>4, <3>1
    <3>3. UpsertSignup(m) \/ Killed(m)
      <4>1. MailStep(m) \/ Killed(m)
        BY <2>4, MailActions DEF MailPlaces, At
      <4> QED
        BY <2>4, <4>1 DEF MailStep, Signup, IssueLink, LinkRow, Verify, ConsumeLink, EmailOwner, InsertEmail, DropSignup, Issue, At
    <3>4. CASE UpsertSignup(m)
      <4> DEFINE v == [kind |-> "VERIFY", owner |-> db.signup.id]
      <4>1. \E tables : Do(m, "issueLink", v, tables)
        BY <3>2, <3>4 DEF UpsertSignup
      <4>2. req'[m].at = "issueLink" /\ req'[m].v = v /\ req'[m].do = req[m].do
        BY <1>0, <4>1, DoEffect DEF Ends
      <4>3. req'[m].v.owner = db.signup.id
        BY <4>2
      <4> QED
        BY <1>4, <3>1, <3>2, <4>2, <4>3 DEF WillEnd, SignUps, At
    <3> QED
      BY <3>1, <3>3, <3>4, KilledExcuses
  <2> QED
    BY <1>1, <1>4, <2>1, <2>3, <2>4, SignupRow
<1> QED
  BY <1>3, <1>4 DEF Writes, LinkWritten
\* The account of a verification has the password it is owed, or a reset's.
LEMMA RowOwed ==
    ASSUME CredentialInv, NamesInv, MailInv, NEW m \in Requests, CredentialMove(m), Moves(m), Writes(m),
           NEW r \in Requests, req[r].do = "verify", ~At(r, "new")
    PROVE  /\ \A w : Owed(r, w) => Owed(r, w)'
           /\ Known(r) => Known(r)'
           /\ Known(r)' => Owed(r, db.user[r].pw)' \/ ByReset(db.user[r].pw)'
<1>0. HistoryOK /\ Confirms(r) /\ OfKind(m) /\ r \in Users
  BY DEF CredentialInv, MailInv, Users
<1>1. req'[r].do = "verify" /\ req'[r].arg = req[r].arg
  BY <1>0, OthersStay
<1>2. ASSUME NEW w, Owed(r, w) PROVE Owed(r, w)'
  BY <1>1, <1>2, NamedStays DEF Owed
<1>3. Known(r) => Known(r)'
  BY DEF Writes, UserWrites, RowSame, Signs, SetsPassword, SetsLogin, Known
<1>4. ASSUME NEW w, ByReset(w) PROVE ByReset(w)'
  <2>1. w \in Requests /\ ~At(w, "new")
    BY <1>4 DEF ByReset, CredentialInv, GuessesLeft
  <2> QED
    BY <1>0, <1>4, <2>1, OthersStay DEF ByReset
<1>5. ASSUME NEW w, w = db'.user[r].pw, Owed(r, w) \/ ByReset(w) PROVE Owed(r, db.user[r].pw)' \/ ByReset(db.user[r].pw)'
  <2>1. Owed(r, w)' \/ ByReset(w)'
    BY <1>2, <1>4, <1>5
  <2> QED
    BY <1>5, <2>1 DEF Owed, ByReset
<1>6. ASSUME Known(r) PROVE Owed(r, db.user[r].pw)' \/ ByReset(db.user[r].pw)'
  <2>1. CASE db'.user[r].pw = db.user[r].pw
    BY <1>0, <1>5, <1>6, <2>1 DEF Confirms
  <2>2. CASE At(m, "setPassword") /\ db'.user[r].pw = m
    <3>1. ByReset(m)
      BY <1>0, <2>2 DEF OfKind, ByReset, At
    <3> QED
      BY <1>5, <2>2, <3>1
  <2> QED
    <3>1. db'.user[r].pw = db.user[r].pw \/ (At(m, "setPassword") /\ db'.user[r].pw = m)
      BY <1>6, PasswordStays
    <3> QED
      BY <2>1, <2>2, <3>1
<1>7. ASSUME ~Known(r), Known(r)' PROVE Owed(r, db.user[r].pw)' \/ ByReset(db.user[r].pw)'
  <2>1. r = m /\ Signs(m)
    BY <1>0, <1>7 DEF Writes, UserWrites, RowSame, SetsPassword, SetsLogin, Known
  <2>2. At(m, "insertEmail")
    BY <1>0, <2>1 DEF Confirms, Signs, Inserting, Ends, At
  <2>3. db'.user[r].pw = req[m].v.pw
    BY <2>1, <2>2 DEF Signs
  <2>4. Owed(r, req[m].v.pw)
    BY <1>0, <2>1, <2>2 DEF Confirms, At
  <2> QED
    BY <1>5, <2>3, <2>4
<1> QED
  BY <1>2, <1>3, <1>6, <1>7

LEMMA MailStaysMail ==
    ASSUME CredentialInv, NEW m \in Requests, ~Ended(m), Writes(m), NEW t \in Users, db.link[t].kind = "VERIFY"
    PROVE  db'.link[t].kind = "VERIFY"
<1>1. db.link[m].state = "none" /\ db.link[t].state # "none"
  BY DEF CredentialInv, FreshCredentials, LinksAreOfAKind, Kinds, State
<1> QED
  BY <1>1 DEF Writes, LinkWritten

LEMMA ConfirmsStays ==
    ASSUME CredentialInv, NamesInv, MailInv, NEW m \in Requests, CredentialMove(m), Moves(m), Writes(m), ~Ended(m),
           NEW r \in Requests, r # m
    PROVE  Confirms(r)'
<1>1. HistoryOK /\ Confirms(r) /\ req'[r] = req[r]
  BY OthersStay DEF CredentialInv, MailInv
<1> SUFFICES ASSUME req[r].do = "verify" PROVE Confirms(r)'
  BY <1>1 DEF Confirms
<1>2. ~At(r, "new") /\ req[r].arg \in Users
  BY DEF CredentialInv, GuessesLeft, CredentialThere, OneUse, NameOf, NameIn, Callbacks
<1>3. db'.link[req[r].arg].kind = "VERIFY"
  BY <1>1, <1>2, MailStaysMail DEF Confirms
<1>4. ASSUME req[r].at \in {"consumeVerify", "emailOwner", "insertEmail"} PROVE Owed(r, req[r].v.pw)'
  <2>1. ASSUME NEW w, w = req[r].v.pw PROVE Owed(r, w)'
    BY <1>1, <1>2, <1>4, <2>1, RowOwed DEF Confirms
  <2> QED
    BY <1>1, <2>1 DEF Owed
<1> QED
  BY <1>1, <1>2, <1>3, <1>4, RowOwed DEF Confirms

LEMMA ConfirmsGoes ==
    ASSUME CredentialInv, NamesInv, MailInv, NEW m \in Requests, CredentialMove(m), Moves(m), Writes(m)
    PROVE  Confirms(m)'
<1> SUFFICES ASSUME req'[m].do = "verify" PROVE Confirms(m)'
  BY DEF Confirms
<1>0. HistoryOK /\ Confirms(m) /\ m \in Users
  BY DEF CredentialInv, MailInv, Users
<1>1. CASE At(m, "new")
  <2>1. ~GoesOn(m)
    BY <1>1 DEF GoesOn, Open
  <2>2. PICK h, arg : Begin(m, h, arg)
    BY <2>1 DEF Moves, Begins
  <2>3. At(m, "verify")' /\ db' = db
    BY <1>0, <2>2, BeginRequest, BeginEffect DEF At
  <2>4. db.link[req'[m].arg].kind = "VERIFY"
    BY <2>3, LedLeads DEF At
  <2>5. ~Known(m)'
    BY <1>1, <2>3 DEF NamesInv, FreshUsers, Inserted, Ends, Known, At
  <2> QED
    BY <2>3, <2>4, <2>5 DEF Confirms, Ends, At
<1>2. CASE ~At(m, "new")
  <2>0. GoesOn(m) /\ Open(m)
    BY <1>2 DEF Moves, Begins, Begin, GoesOn
  <2>1. req[m].do = "verify" /\ req'[m].arg = req[m].arg /\ ~Ended(m)
    BY <1>0, <1>2, <2>0, OthersStay DEF Open
  <2>2. req[m].arg \in Users
    BY <1>2, <2>1 DEF CredentialInv, CredentialThere, OneUse, NameOf, NameIn, Callbacks
  <2>3. db'.link[req[m].arg].kind = "VERIFY"
    BY <1>0, <2>1, <2>2, MailStaysMail DEF Confirms
  <2>4. /\ \A w : Owed(m, w) => Owed(m, w)'
        /\ Known(m) => Known(m)'
        /\ Known(m)' => Owed(m, db.user[m].pw)' \/ ByReset(db.user[m].pw)'
    BY <1>2, <2>1, RowOwed
  <2>5. ASSUME req'[m].at \in {"refused", "killed", "dropSignup"} \/ (req'[m].at \in {"issue", "ok"} /\ Known(m)) PROVE Confirms(m)'
    BY <2>1, <2>3, <2>4, <2>5 DEF Confirms, Ends
  <2>6. ASSUME req'[m].at \in {"consumeVerify", "emailOwner", "insertEmail"}, NEW w, w = req'[m].v.pw, Owed(m, w) PROVE Confirms(m)'
    <3>1. Owed(m, w)'
      BY <2>4, <2>6
    <3>2. Owed(m, req[m].v.pw)'
      BY <2>6, <3>1 DEF Owed
    <3> QED
      BY <2>1, <2>3, <2>4, <2>6, <3>2 DEF Confirms, Ends
  <2>7. \A statement, v, tables :
           Do(m, statement, v, tables) => req'[m].at = statement /\ (statement \notin Ends => req'[m].v = v)
    BY <1>0, DoEffect
  <2>8. req[m].at \in {"verify", "consumeVerify", "emailOwner", "insertEmail", "dropSignup", "issue"}
    BY <1>0, <2>1 DEF Confirms, Ended
  <2>9. MailStep(m) \/ Killed(m)
    BY <2>8, MailActions DEF MailPlaces
  <2>10. Verify(m) \/ ConsumeLink(m, "consumeVerify", "emailOwner") \/ EmailOwner(m) \/ InsertEmail(m) \/ DropSignup(m) \/ Issue(m) \/ Killed(m)
    BY <2>8, <2>9 DEF MailStep, Signup, UpsertSignup, IssueLink, LinkRow, At
  <2>11. CASE Refuse(m) \/ Killed(m)
    BY <2>5, <2>7, <2>11 DEF Refuse, Killed
  <2>12. CASE Verify(m) /\ ~Refuse(m)
    <3>1. /\ At(m, "verify") /\ GoOn(m, "consumeVerify", db.signup)
          /\ db.link[req[m].arg].state = "open" /\ db.signup.id = db.link[req[m].arg].owner
      BY <2>12 DEF Verify
    <3>2. req'[m].at = "consumeVerify" /\ req'[m].v = db.signup
      BY <2>7, <3>1 DEF GoOn, Ends
    <3>3. Owed(m, db.signup.pw)
      <4>1. LinkGood(req[m].arg)
        BY <2>2 DEF MailInv
      <4>2. ASSUME NEW p \in Requests, WillEnd(p, req[m].arg) PROVE Excused(m)
        <5>1. p \in SignUps /\ p # m /\ Open(p)
          BY <2>1, <4>2 DEF WillEnd, SignUps, Open, Ended, Ends, At
        <5> QED
          BY <1>0, <2>0, <5>1, OpenMeet DEF Excused
      <4> QED
        BY <1>0, <2>1, <3>1, <4>1, <4>2 DEF LinkGood, Confirms, Owed
    <3> QED
      BY <2>6, <3>2, <3>3
  <2>13. CASE (ConsumeLink(m, "consumeVerify", "emailOwner") \/ EmailOwner(m)) /\ ~Refuse(m)
    <3>1. req[m].at \in {"consumeVerify", "emailOwner"} /\ req'[m].at \in {"emailOwner", "insertEmail"} /\ req'[m].v = req[m].v
      BY <2>7, <2>13 DEF ConsumeLink, EmailOwner, GoOn, Ends, At
    <3>2. Owed(m, req[m].v.pw)
      BY <1>0, <2>1, <3>1 DEF Confirms
    <3> QED
      BY <2>6, <3>1, <3>2
  <2>14. CASE InsertEmail(m) /\ ~Refuse(m)
    BY <2>5, <2>7, <2>14 DEF InsertEmail
  <2>15. CASE DropSignup(m)
    <3>1. Known(m)
      BY <2>15 DEF DropSignup, NamesInv, InHand
    <3> QED
      BY <2>5, <2>7, <2>15, <3>1 DEF DropSignup
  <2>16. CASE Issue(m)
    <3>1. Known(m)
      BY <1>0, <2>1, <2>16 DEF Issue, Confirms, At
    <3> QED
      BY <2>5, <2>7, <2>16, <3>1 DEF Issue, End
  <2> QED
    BY <2>10, <2>11, <2>12, <2>13, <2>14, <2>15, <2>16
<1> QED
  BY <1>1, <1>2
LEMMA MailInvStep ==
    ASSUME CredentialInv, NamesInv, MailInv, NEW m \in Requests, CredentialMove(m)
    PROVE  MailInv'
<1>1. Writes(m) /\ Moves(m) /\ Turns(m)
  BY AccountWrites, CredentialMoves, CredentialTurns
<1>2. ~Ended(m)
  BY <1>1 DEF Moves, Begins, Begin, GoesOn, Open, Ended, Ends, At
<1>3. Named \subseteq Named'
  BY <1>1, NamedStays
<1>4. db'.signup.id \in Named' \cup {Nil}
  <2>1. SignsUp(m)' /\ OfKind(m)'
    BY <1>1, SignsUpGoes, OfKindStays DEF MailInv
  <2>2. CASE db'.signup = db.signup
    BY <1>3, <2>2 DEF MailInv
  <2>3. CASE At(m, "upsertSignup") /\ db'.signup.id # Nil
    <3>1. UpsertSignup(m) \/ Killed(m)
      <4>1. MailStep(m) \/ Killed(m)
        BY <2>3, MailActions DEF MailPlaces, At
      <4> QED
        BY <2>3, <4>1 DEF MailStep, Signup, IssueLink, LinkRow, Verify, ConsumeLink, EmailOwner, InsertEmail, DropSignup, Issue, At
    <3>2. CASE Killed(m)
      BY <2>2, <3>2, DoEffect DEF Killed, CredentialInv
    <3>3. CASE UpsertSignup(m)
      <4>1. req'[m].at = "issueLink" /\ req'[m].do = req[m].do
        BY <3>3, DoEffect DEF UpsertSignup, CredentialInv
      <4>2. req[m].do = "signup"
        BY <2>3 DEF MailInv, OfKind, At
      <4>3. m \in Named'
        BY <4>1, <4>2 DEF Named, SignUps, At
      <4> QED
        BY <1>1, <1>3, <2>3, <4>3, SignupRow DEF MailInv
    <3> QED
      BY <3>1, <3>2, <3>3
  <2> QED
    BY <1>1, <2>2, <2>3, SignupRow
<1>5. \A t \in Users : LinkGood(t)'
  BY <1>1, <1>2, LinksStayGood
<1>6. ASSUME NEW r \in Requests PROVE SignsUp(r)'
  BY <1>1, SignsUpGoes, SignsUpStays DEF MailInv
<1>7. ASSUME NEW r \in Requests PROVE Confirms(r)'
  BY <1>1, <1>2, ConfirmsGoes, ConfirmsStays
<1>8. ASSUME NEW r \in Requests PROVE OfKind(r)'
  BY <1>1, OfKindStays DEF MailInv
<1> QED
  BY <1>4, <1>5, <1>6, <1>7, <1>8 DEF MailInv

LEMMA MailInvRests ==
    ASSUME MailInv, SameAccounts
    PROVE  MailInv'
<1>1. req' = req /\ prior' = prior /\ db'.signup = db.signup /\ db'.link = db.link /\ db'.user = db.user
  BY DEF SameAccounts, SameUsers, SameLeads
<1>2. Named' = Named /\ (\A t : Excused(t) => Excused(t)') /\ (\A p, t : WillEnd(p, t)' <=> WillEnd(p, t))
  BY <1>1 DEF Named, SignUps, Excused, Met, WillEnd, At
<1>3. ASSUME NEW t \in Users PROVE LinkGood(t)'
  BY <1>1, <1>2 DEF MailInv, LinkGood, IsLink
<1>4. ASSUME NEW r \in Requests PROVE SignsUp(r)' /\ OfKind(r)'
  BY <1>1, <1>2 DEF MailInv, SignsUp, OfKind
<1>5. ASSUME NEW r \in Requests PROVE Confirms(r)'
  BY <1>1, <1>2 DEF MailInv, Confirms, Owed, ByReset, Known
<1> QED
  BY <1>1, <1>2, <1>3, <1>4, <1>5 DEF MailInv

\* At the start, the mails that are open have the password of the row.
MailInit ==
    /\ AccountInit /\ db.signup.id \in Accounts \cup {Nil}
    /\ \A t \in Users :
          /\ IsLink(db.link[t])
          /\ db.link[t].kind = "VERIFY" =>
                db.link[t].owner \in Accounts /\ (db.link[t].state = "open" /\ db.link[t].owner = db.signup.id => db.signup.pw = t)
MailSpec == MailInit /\ [][(\E r \in Requests : CredentialMove(r)) \/ AtGoogle]_vars

LEMMA MailInvAlways == MailSpec => []MailInv
<1>1. MailInit => MailInv
  <2> SUFFICES ASSUME MailInit PROVE MailInv
    OBVIOUS
  <2>1. \A r \in Requests : req[r] = [do |-> "none", at |-> "new", arg |-> Nil, v |-> Nil]
    BY DEF MailInit, AccountInit, CredentialInit, RequestsInit
  <2>2. \A r \in Requests : req[r].do = "none" /\ req[r].at = "new"
    BY <2>1
  <2>3. \A r \in Requests : SignsUp(r) /\ Confirms(r) /\ OfKind(r)
    BY <2>2 DEF SignsUp, Confirms, OfKind
  <2>4. Accounts \subseteq Named
    BY DEF Named
  <2> QED
    BY <2>3, <2>4 DEF MailInit, MailInv, LinkGood
<1>2. AccountInv /\ MailInv /\ [(\E r \in Requests : CredentialMove(r)) \/ AtGoogle]_vars => MailInv'
  <2> SUFFICES ASSUME AccountInv, MailInv, [(\E r \in Requests : CredentialMove(r)) \/ AtGoogle]_vars PROVE MailInv'
    OBVIOUS
  <2>1. CASE \E r \in Requests : CredentialMove(r)
    BY <2>1, MailInvStep DEF AccountInv
  <2>2. CASE AtGoogle
    BY <2>2, AtGoogleRests, MailInvRests DEF AccountInv
  <2>3. CASE UNCHANGED vars
    <3>1. SameAccounts
      BY <2>3 DEF vars, SameAccounts, SameUsers, SameLeads
    <3> QED
      BY <3>1, MailInvRests
  <2> QED
    BY <2>1, <2>2, <2>3
<1>3. MailInit => AccountInit
  BY DEF MailInit
<1> QED
  BY <1>1, <1>2, <1>3, AccountInvAlways, PTL DEF MailSpec, AccountSpec

\* However sign-ups of an address, their mails, verifications, resets and
\* dropped requests are interleaved, an account that a mail has confirmed signs
\* in with the password of that mail's sign-up or with one that a reset has set,
\* unless a second sign-up was under way with the first or with the
\* verification, or one was dropped.
THEOREM MailsBringPasswords == MailSpec => []MailBringsItsPassword
<1>1. MailInv => MailBringsItsPassword
  <2> SUFFICES ASSUME MailInv, NEW r \in Requests, Answered(r, "verify")
               PROVE  \/ db.user[r].pw = req[r].arg
                      \/ \E s \in Requests : req[s].do = "confirmReset" /\ db.user[r].pw = s
                      \/ \E s \in Requests :
                            /\ req[s].do = "signup"
                            /\ Met(s, r) \/ Met(s, req[r].arg) \/ At(s, "killed")
    BY DEF MailBringsItsPassword
  <2>1. Owed(r, db.user[r].pw) \/ ByReset(db.user[r].pw)
    BY DEF MailInv, Confirms, Answered, At
  <2>2. ByReset(db.user[r].pw) => \E s \in Requests : req[s].do = "confirmReset" /\ db.user[r].pw = s
    BY DEF ByReset
  <2>3. \A t : Excused(t) => \E s \in Requests : req[s].do = "signup" /\ (Met(s, t) \/ At(s, "killed"))
    BY DEF Excused, SignUps
  <2> QED
    BY <2>1, <2>2, <2>3 DEF Owed
<1> QED
  BY <1>1, MailInvAlways, PTL

-----------------------------------------------------------------------------
(***************************************************************************)
(* A connection's sync token never runs ahead of the calendar, beside any  *)
(* of the handlers of sessions, accounts and companies.                    *)
(***************************************************************************)

SyncPlaces       == {"googleSync", "refreshed", "list", "persist", "syncRow"}
CompletePlaces   == {"googleComplete", "useIntegrationCode", "connection"}
DisconnectPlaces == {"googleDisconnect", "wipe"}
CalendarPlaces   == SyncPlaces \cup CompletePlaces \cup DisconnectPlaces
Connects         == {"googleSync", "googleComplete", "googleDisconnect"}

CalendarTables == {"google", "synced", "relisted", "change", "stale"}

SameCalendar(tables) ==
    /\ DOMAIN tables = DOMAIN db
    /\ tables.google = db.google /\ tables.synced = db.synced /\ tables.relisted = db.relisted
    /\ tables.change = db.change /\ tables.stale = db.stale

\* A statement of a handler that has nothing to do with a connection.
Apart(r) ==
    /\ Open(r) /\ req[r].at \notin CalendarPlaces
    /\ \E statement, v, tables :
           statement \notin CalendarPlaces \cup {"new"} /\ SameCalendar(tables) /\ Do(r, statement, v, tables)

LEMMA ApartTables ==
    ASSUME CalendarTables \subseteq DOMAIN db, NEW x
    PROVE  /\ SameCalendar(db)
           /\ SameCalendar([db EXCEPT !.user = x])
           /\ SameCalendar([db EXCEPT !.company = x])
           /\ SameCalendar([db EXCEPT !.member = x])
           /\ SameCalendar([db EXCEPT !.invite = x])
           /\ SameCalendar([db EXCEPT !.mailed = x])
           /\ SameCalendar([db EXCEPT !.pending = x])
           /\ SameCalendar([db EXCEPT !.identity = x])
           /\ SameCalendar([db EXCEPT !.bound = x])
           /\ SameCalendar([db EXCEPT !.signup = x])
           /\ SameCalendar([db EXCEPT !.token = x])
           /\ SameCalendar([db EXCEPT !.code = x])
           /\ SameCalendar([db EXCEPT !.link = x])
           /\ SameCalendar([db EXCEPT !.oauth = x])
           /\ SameCalendar([db EXCEPT !.icode = x])
           /\ SameCalendar([db EXCEPT !.sms = x])
  BY DEF CalendarTables, SameCalendar

LEMMA ApartDo ==
    ASSUME CalendarTables \subseteq DOMAIN db, NEW r \in Requests, Open(r), req[r].at \notin CalendarPlaces,
           NEW statement, statement \notin CalendarPlaces \cup {"new"}, NEW v, NEW x
    PROVE  /\ GoOn(r, statement, v) => Apart(r)
           /\ Do(r, statement, v, [db EXCEPT !.user = x]) => Apart(r)
           /\ Do(r, statement, v, [db EXCEPT !.company = x]) => Apart(r)
           /\ Do(r, statement, v, [db EXCEPT !.member = x]) => Apart(r)
           /\ Do(r, statement, v, [db EXCEPT !.invite = x]) => Apart(r)
           /\ Do(r, statement, v, [db EXCEPT !.mailed = x]) => Apart(r)
           /\ Do(r, statement, v, [db EXCEPT !.pending = x]) => Apart(r)
           /\ Do(r, statement, v, [db EXCEPT !.identity = x]) => Apart(r)
           /\ Do(r, statement, v, [db EXCEPT !.bound = x]) => Apart(r)
           /\ Do(r, statement, v, [db EXCEPT !.signup = x]) => Apart(r)
           /\ Do(r, statement, v, [db EXCEPT !.token = x]) => Apart(r)
           /\ Do(r, statement, v, [db EXCEPT !.code = x]) => Apart(r)
           /\ Do(r, statement, v, [db EXCEPT !.link = x]) => Apart(r)
           /\ Do(r, statement, v, [db EXCEPT !.oauth = x]) => Apart(r)
           /\ Do(r, statement, v, [db EXCEPT !.icode = x]) => Apart(r)
           /\ Do(r, statement, v, [db EXCEPT !.sms = x]) => Apart(r)
  BY ApartTables DEF Apart, GoOn

LEMMA SessionsApart ==
    ASSUME CalendarTables \subseteq DOMAIN db, NEW r \in Requests, SessionStep(r), ~ArriveSession(r)
    PROVE  Apart(r)
<1>1. \A statement, v, x :
         /\ Open(r) /\ req[r].at \notin CalendarPlaces /\ statement \notin CalendarPlaces \cup {"new"} =>
               /\ GoOn(r, statement, v) => Apart(r)
               /\ Do(r, statement, v, [db EXCEPT !.user = x]) => Apart(r)
               /\ Do(r, statement, v, [db EXCEPT !.company = x]) => Apart(r)
               /\ Do(r, statement, v, [db EXCEPT !.pending = x]) => Apart(r)
               /\ Do(r, statement, v, [db EXCEPT !.token = x]) => Apart(r)
               /\ Do(r, statement, v, [db EXCEPT !.code = x]) => Apart(r)
               /\ Do(r, statement, v, [db EXCEPT !.link = x]) => Apart(r)
               /\ Do(r, statement, v, [db EXCEPT !.oauth = x]) => Apart(r)
  BY ApartDo
<1> USE <1>1 DEF Refuse, GoOn, End, Open, Ended, Ends, At, CalendarPlaces, SyncPlaces, CompletePlaces, DisconnectPlaces
<1>2. CASE Issue(r) \/ RevokeAll(r) \/ ClearUser(r) \/ ClearCompany(r) \/ Refresh(r)
  BY <1>2 DEF Issue, RevokeAll, ClearUser, ClearCompany, Refresh
<1>3. CASE Rotate(r) \/ Logout(r) \/ Login(r) \/ RequestReset(r) \/ IssueLink(r)
  BY <1>3 DEF Rotate, Logout, Login, RequestReset, IssueLink
<1>4. CASE LinkRow(r) \/ ConfirmReset(r) \/ ConsumeLink(r, "consumeReset", "setPassword") \/ SetPassword(r)
  BY <1>4 DEF LinkRow, ConfirmReset, ConsumeLink, SetPassword
<1>5. CASE OauthStart(r) \/ OauthCallback(r) \/ AppleCallback(r) \/ MintCode(r)
  BY <1>5 DEF OauthStart, OauthCallback, AppleCallback, TakeState, MintCode
<1>6. CASE Exchange(r) \/ UseCode(r) \/ AppleNative(r) \/ FindIdentity(r) \/ FindLogin(r)
  BY <1>6 DEF Exchange, UseCode, AppleNative, FindIdentity, FindLogin, Found
<1>7. CASE OauthIdentity(r) \/ OauthEmail(r) \/ OauthLogin(r) \/ OauthInsert(r)
  BY <1>7 DEF OauthIdentity, OauthEmail, OauthLogin, OauthInsert, Found
<1> QED
  BY <1>2, <1>3, <1>4, <1>5, <1>6, <1>7 DEF SessionStep

LEMMA SignUpsApart ==
    ASSUME CalendarTables \subseteq DOMAIN db, NEW r \in Requests, SignUpStep(r), ~ArriveSignUp(r)
    PROVE  Apart(r)
<1>1. \A statement, v, x :
         /\ Open(r) /\ req[r].at \notin CalendarPlaces /\ statement \notin CalendarPlaces \cup {"new"} =>
               /\ GoOn(r, statement, v) => Apart(r)
               /\ Do(r, statement, v, [db EXCEPT !.user = x]) => Apart(r)
               /\ Do(r, statement, v, [db EXCEPT !.identity = x]) => Apart(r)
               /\ Do(r, statement, v, [db EXCEPT !.bound = x]) => Apart(r)
               /\ Do(r, statement, v, [db EXCEPT !.signup = x]) => Apart(r)
               /\ Do(r, statement, v, [db EXCEPT !.link = x]) => Apart(r)
               /\ Do(r, statement, v, [db EXCEPT !.sms = x]) => Apart(r)
  BY ApartDo
<1> USE <1>1 DEF Refuse, GoOn, Open, Ended, Ends, At, CalendarPlaces, SyncPlaces, CompletePlaces, DisconnectPlaces
<1>2. CASE SendPhone(r) \/ ConsumeOpen(r) \/ InsertCode(r) \/ VerifyPhone(r) \/ Bump(r) \/ ConsumeCode(r)
  BY <1>2 DEF SendPhone, ConsumeOpen, InsertCode, VerifyPhone, Bump, ConsumeCode
<1>3. CASE Owner(r) \/ Me(r) \/ Providers(r) \/ Taken(r) \/ SetSocial(r) \/ BindLogin(r) \/ BindLoginInsert(r)
  BY <1>3 DEF Owner, Me, Providers, Taken, SetSocial, BindLogin, BindLoginInsert
<1>4. CASE BindPhone(r) \/ BindPhoneInsert(r) \/ InsertUser(r) \/ RacedUser(r)
  BY <1>4 DEF BindPhone, BindPhoneInsert, InsertUser, RacedUser
<1>5. CASE CreateFromPending(r)
  BY <1>5 DEF CreateFromPending, InsertSocial, CreateRaced
<1>6. CASE \/ Signup(r) \/ UpsertSignup(r) \/ Verify(r) \/ ConsumeLink(r, "consumeVerify", "emailOwner")
           \/ EmailOwner(r) \/ InsertEmail(r)
  BY <1>6 DEF Signup, UpsertSignup, Verify, ConsumeLink, EmailOwner, InsertEmail
<1>7. CASE DropSignup(r)
  <2>1. PICK x, y : Do(r, "issue", r, [[db EXCEPT !.signup = x] EXCEPT !.link = y])
    BY <1>7 DEF DropSignup
  <2>2. SameCalendar([[db EXCEPT !.signup = x] EXCEPT !.link = y])
    BY DEF SameCalendar, CalendarTables
  <2>3. Open(r) /\ req[r].at \notin CalendarPlaces
    BY <1>7 DEF DropSignup
  <2> QED
    BY <2>1, <2>2, <2>3 DEF Apart
<1> QED
  BY <1>2, <1>3, <1>4, <1>5, <1>6, <1>7 DEF SignUpStep

LEMMA CompaniesApart ==
    ASSUME CalendarTables \subseteq DOMAIN db, NEW r \in Requests, CompanyStep(r), ~ArriveCompany(r)
    PROVE  Apart(r)
<1>1. \A statement, v, x :
         /\ Open(r) /\ req[r].at \notin CalendarPlaces /\ statement \notin CalendarPlaces \cup {"new"} =>
               /\ GoOn(r, statement, v) => Apart(r)
               /\ Do(r, statement, v, [db EXCEPT !.user = x]) => Apart(r)
               /\ Do(r, statement, v, [db EXCEPT !.company = x]) => Apart(r)
               /\ Do(r, statement, v, [db EXCEPT !.member = x]) => Apart(r)
               /\ Do(r, statement, v, [db EXCEPT !.invite = x]) => Apart(r)
               /\ Do(r, statement, v, [db EXCEPT !.mailed = x]) => Apart(r)
  BY ApartDo
<1> USE <1>1 DEF Refuse, GoOn, End, Open, Ended, Ends, At, CalendarPlaces, SyncPlaces, CompletePlaces, DisconnectPlaces
<1>2. CASE \/ VerifyBusiness(r) \/ CompleteFirm(r) \/ InsertFirm(r) \/ InsertAdmin(r) \/ UndoFirm(r)
  BY <1>2 DEF VerifyBusiness, CompleteFirm, InsertFirm, InsertAdmin, UndoFirm, WithoutFirm
<1>3. CASE \/ RequireAdmin(r, "invite", "inviteMember") \/ InviteMember(r) \/ InvitePending(r) \/ ResendMail(r) \/ ResendRow(r)
  BY <1>3 DEF RequireAdmin, InviteMember, InvitePending, ResendMail, ResendRow
<1>4. CASE InviteCount(r) \/ InviteRow(r) \/ InviteMail(r) \/ InviteUndo(r) \/ AcceptInvite(r) \/ AcceptUser(r)
  BY <1>4 DEF InviteCount, InviteRow, InviteMail, InviteUndo, AcceptInvite, AcceptUser
<1>5. CASE Join(r)
  <2>1. Open(r) /\ req[r].at \notin CalendarPlaces
    BY <1>5 DEF Join
  <2>2. CASE Refuse(r)
    BY <2>1, <2>2
  <2>3. CASE ~Refuse(r)
    <3>1. PICK x, y : Do(r, "ok", req[r].v, [[db EXCEPT !.invite = x] EXCEPT !.member = y])
      BY <1>5, <2>3 DEF Join
    <3>2. SameCalendar([[db EXCEPT !.invite = x] EXCEPT !.member = y])
      BY DEF SameCalendar, CalendarTables
    <3> QED
      BY <2>1, <3>1, <3>2 DEF Apart
  <2> QED
    BY <2>2, <2>3
<1>6. CASE \/ RequireAdmin(r, "removeMember", "removeTarget") \/ RemoveTarget(r) \/ CountAdmins(r) \/ RemoveRow(r)
           \/ RequireAdmin(r, "transferAdmin", "transferTarget") \/ TransferTarget(r) \/ Transfer(r)
  BY <1>6 DEF RequireAdmin, RemoveTarget, CountAdmins, RemoveRow, TransferTarget, Transfer
<1>7. CASE TransferWrite(r) \/ DeleteAccount(r) \/ MarkUser(r) \/ CancelPlans(r) \/ Unmark(r) \/ MarkFirm(r)
  BY <1>7 DEF TransferWrite, DeleteAccount, MarkUser, CancelPlans, Unmark, Unmarked, MarkFirm
<1> QED
  BY <1>2, <1>3, <1>4, <1>5, <1>6, <1>7 DEF CompanyStep

\* The OAuth of a connection writes no table of the calendar.
LEMMA GoogleApart ==
    ASSUME CalendarTables \subseteq DOMAIN db, NEW r \in Requests, GoogleConnect(r) \/ GoogleCallback(r) \/ GoogleCode(r)
    PROVE  Apart(r)
<1>1. \A statement, v, x :
         /\ Open(r) /\ req[r].at \notin CalendarPlaces /\ statement \notin CalendarPlaces \cup {"new"} =>
               /\ GoOn(r, statement, v) => Apart(r)
               /\ Do(r, statement, v, [db EXCEPT !.oauth = x]) => Apart(r)
               /\ Do(r, statement, v, [db EXCEPT !.icode = x]) => Apart(r)
  BY ApartDo
<1> USE <1>1 DEF Refuse, GoOn, End, Open, Ended, Ends, At, CalendarPlaces, SyncPlaces, CompletePlaces, DisconnectPlaces
<1>2. CASE GoogleCallback(r) \/ GoogleCode(r)
  BY <1>2 DEF GoogleCallback, GoogleCode
<1>3. CASE GoogleConnect(r)
  <2>1. PICK x, y : Do(r, "ok", req[r].v, [[db EXCEPT !.oauth = x] EXCEPT !.asked = y])
    BY <1>3 DEF GoogleConnect
  <2>2. SameCalendar([[db EXCEPT !.oauth = x] EXCEPT !.asked = y])
    BY DEF SameCalendar, CalendarTables
  <2>3. Open(r) /\ req[r].at \notin CalendarPlaces
    BY <1>3 DEF GoogleConnect
  <2> QED
    BY <2>1, <2>2, <2>3 DEF Apart
<1> QED
  BY <1>2, <1>3

\* A handler that begins: with a connection of an account, or with none.
BeginsApart(r) ==
    \E h, arg :
        /\ Begin(r, h, arg) /\ h \notin Ends \cup {"new"} /\ h \notin CalendarPlaces \ Connects
        /\ h \in Connects => arg.by \in Accounts

LEMMA CalendarArrives ==
    ASSUME NEW r \in Requests, ArriveSession(r) \/ ArriveSignUp(r) \/ ArriveCompany(r) \/ ArriveGoogle(r)
    PROVE  BeginsApart(r)
<1>1. \A h, arg : Begin(r, h, arg) /\ h \notin Ends \cup {"new"} \cup CalendarPlaces => BeginsApart(r)
  BY DEF BeginsApart, CalendarPlaces, SyncPlaces, CompletePlaces, DisconnectPlaces, Connects
<1>2. \A h, arg : Begin(r, h, arg) /\ h \in Connects /\ arg.by \in Accounts => BeginsApart(r)
  BY DEF BeginsApart, Connects, Ends
<1> USE DEF Ends, CalendarPlaces, SyncPlaces, CompletePlaces, DisconnectPlaces, Connects
<1>3. CASE ArriveSession(r)
  BY <1>1, <1>3 DEF ArriveSession
<1>4. CASE ArriveSignUp(r)
  BY <1>1, <1>4 DEF ArriveSignUp
<1>5. CASE ArriveCompany(r)
  BY <1>1, <1>5 DEF ArriveCompany
<1>6. CASE ArriveGoogle(r)
  BY <1>1, <1>2, <1>6 DEF ArriveGoogle
<1> QED
  BY <1>3, <1>4, <1>5, <1>6

-----------------------------------------------------------------------------
\* Where a request of a handler is.
AtPlace(r) ==
    \/ req[r].do = "googleSync" /\ req[r].at \in SyncPlaces \cup Ends /\ By(r) \in Accounts
    \/ req[r].do = "googleComplete" /\ req[r].at \in CompletePlaces \cup Ends /\ By(r) \in Accounts
    \/ req[r].do = "googleDisconnect" /\ req[r].at \in DisconnectPlaces \cup Ends /\ By(r) \in Accounts
    \/ req[r].do \notin Connects /\ req[r].at \notin CalendarPlaces

\* A version that Google has had, and a connection whose token it has given.
IsThere(e)  == e \in 1..Latest /\ db.change[e] # "gone"
WasGiven(gi) == gi \in ConnectionRow /\ gi.token \in 0..Latest \cup {Nil}

CalendarShape ==
    /\ CalendarTables \subseteq DOMAIN db
    /\ DOMAIN db.google = Users /\ DOMAIN db.synced = Users /\ DOMAIN db.relisted = Users
    /\ Latest \in Nat /\ DOMAIN db.change = 1..Latest
    /\ \A u \in Users :
          /\ db.google[u] = Nil \/ WasGiven(db.google[u])
          /\ db.synced[u] = Nil \/ IsThere(db.synced[u])

\* What a sync has read is a connection and versions of the event.
SyncReads(r) ==
    req[r].do = "googleSync" =>
        /\ At(r, "refreshed") \/ At(r, "list") => WasGiven(req[r].v)
        /\ At(r, "persist") \/ At(r, "syncRow") =>
              /\ WasGiven(req[r].v.gi)
              /\ \A e \in req[r].v.events : e = Nil \/ IsThere(e)

\* The row is as it was at the change numbered first or later, or the event has
\* gone before it, and a listing did not tell.
First(token) == IF token = Nil THEN 0 ELSE token
AsOf(u, first, row) ==
    \/ \E n \in first..Latest : row = Version(n)
    \/ /\ db.relisted[u]
       /\ \E n \in 1..first : db.change[n] = "gone" /\ row \in 1..(n-1)

\* The connection is that of the last request to complete one.
Completed(u) ==
    \A r \in Doing("googleComplete") : At(r, "ok") /\ By(r) = u => db.google[u].grant \notin prior[r] \cup Accounts

Synced(u) ==
    \/ db.google[u] = Nil /\ db.synced[u] = Nil
    \/ db.google[u] # Nil /\ Completed(u) /\ AsOf(u, First(db.google[u].token), db.synced[u])

\* What a sync has read of its connection is so still, and the row is as of the
\* token it is about to write, or will be once its event is written.
HeldAt(u, at, v) ==
    /\ at \in {"refreshed", "list"} => v = db.google[u]
    /\ at \in {"persist", "syncRow"} => db.google[u] # Nil /\ v.gi.grant = db.google[u].grant
    /\ at = "persist" =>
          /\ v.events = {} => AsOf(u, First(v.gi.token), db.synced[u])
          /\ \A e \in v.events : AsOf(u, First(v.gi.token), e) /\ AsOf(u, First(db.google[u].token), e)
    /\ at = "syncRow" => AsOf(u, First(v.gi.token), db.synced[u])
Held(r) == HeldAt(By(r), req[r].at, req[r].v)

Followed(u) == Overlaps(u) \/ Synced(u)
SyncHolds(r) == req[r].do = "googleSync" => Overlaps(By(r)) \/ Held(r)
CalendarInv ==
    /\ CalendarShape
    /\ \A r \in Requests : AtPlace(r) /\ SyncReads(r) /\ SyncHolds(r)
    /\ \A u \in Accounts : Followed(u)

\* Google's history only grows.
Grown ==
    /\ Latest' >= Latest /\ Latest' \in Nat
    /\ \A n \in 1..Latest : db'.change[n] = db.change[n]
Spared(u) ==
    db'.google[u] = db.google[u] /\ db'.synced[u] = db.synced[u] /\ db'.relisted[u] = db.relisted[u]

LEMMA VersionsStay ==
    ASSUME CalendarShape, Grown
    PROVE  /\ \A n \in 0..Latest : Version(n)' = Version(n)
           /\ \A e : IsThere(e) => IsThere(e)'
           /\ \A gi : WasGiven(gi) => WasGiven(gi)'
           /\ 0..Latest \subseteq 0..Latest' /\ 1..Latest \subseteq 1..Latest'
<1>1. Latest \in Nat /\ Latest' \in Nat /\ Latest <= Latest'
  BY DEF CalendarShape, Grown
<1>2. 0..Latest \subseteq 0..Latest' /\ 1..Latest \subseteq 1..Latest'
  BY <1>1
<1>3. \A n \in 0..Latest : Version(n)' = Version(n)
  BY <1>1 DEF Version, Grown
<1>4. \A e : IsThere(e) => IsThere(e)'
  BY <1>2 DEF IsThere, Grown
<1>5. \A gi : WasGiven(gi) => WasGiven(gi)'
  BY <1>2 DEF WasGiven
<1> QED
  BY <1>2, <1>3, <1>4, <1>5

LEMMA FirstIsGiven ==
    ASSUME CalendarShape, NEW gi, WasGiven(gi)
    PROVE  First(gi.token) \in 0..Latest
  BY GoogleAssumption DEF CalendarShape, WasGiven, First

LEMMA AsOfStays ==
    ASSUME CalendarShape, Grown, NEW u, db.relisted[u] => db'.relisted[u],
           NEW first \in 0..Latest, NEW row, AsOf(u, first, row)
    PROVE  AsOf(u, first, row)'
<1>1. Latest \in Nat /\ Latest' \in Nat /\ Latest <= Latest'
  BY DEF CalendarShape, Grown
<1>2. CASE \E n \in first..Latest : row = Version(n)
  <2>1. PICK n \in first..Latest : row = Version(n)
    BY <1>2
  <2>2. n \in 0..Latest /\ n \in first..Latest'
    BY <1>1
  <2> QED
    BY <2>1, <2>2, VersionsStay DEF AsOf
<1>3. CASE db.relisted[u] /\ \E n \in 1..first : db.change[n] = "gone" /\ row \in 1..(n-1)
  <2>1. PICK n \in 1..first : db.change[n] = "gone" /\ row \in 1..(n-1)
    BY <1>3
  <2>2. n \in 1..Latest
    BY <1>1
  <2>3. db'.change[n] = "gone"
    BY <2>1, <2>2 DEF Grown
  <2> QED
    BY <1>3, <2>1, <2>3 DEF AsOf
<1> QED
  BY <1>2, <1>3 DEF AsOf

\* Nothing that is of an earlier change is left out by a smaller token.
LEMMA AnyIsOfTheFirst ==
    ASSUME CalendarShape, NEW u, NEW row, row = Nil \/ IsThere(row)
    PROVE  AsOf(u, 0, row)
<1>1. Latest \in Nat
  BY DEF CalendarShape
<1>2. CASE row = Nil
  <2>1. Version(0) = Nil /\ 0 \in 0..Latest
    BY <1>1 DEF Version
  <2> QED
    BY <1>2, <2>1 DEF AsOf
<1>3. CASE IsThere(row)
  <2>1. row \in 0..Latest /\ Version(row) = row
    BY <1>1, <1>3 DEF IsThere, Version
  <2> QED
    BY <2>1 DEF AsOf
<1> QED
  BY <1>2, <1>3

-----------------------------------------------------------------------------
LEMMA OverlapsStay ==
    ASSUME HistoryOK, NEW m \in Requests, Moves(m), NEW u, Overlaps(u)
    PROVE  Overlaps(u)'
<1>1. PICK r \in Doing("googleSync"), s \in Requests :
          By(r) = u /\ req[s].do \in {"googleSync", "googleComplete", "googleDisconnect"} /\ By(s) = u /\ Met(r, s)
  BY DEF Overlaps
<1>2. r \in Requests /\ ~At(r, "new") /\ ~At(s, "new") /\ req[r].do = "googleSync"
  BY <1>1 DEF Met, Doing
<1>3. Met(r, s)'
  BY <1>1, <1>2, MetStays
<1>4. /\ ~At(r, "new")' /\ req'[r].do = req[r].do /\ req'[r].arg = req[r].arg
      /\ req'[s].do = req[s].do /\ req'[s].arg = req[s].arg
  BY <1>2, OthersStay
<1>5. r \in Doing("googleSync")' /\ By(r)' = u /\ By(s)' = u
  BY <1>1, <1>2, <1>4 DEF Doing, By
<1> QED
  BY <1>1, <1>3, <1>4, <1>5 DEF Overlaps

\* A request about a connection moves beside a sync of it.
LEMMA BesideSync ==
    ASSUME HistoryOK, NEW m \in Requests, Moves(m), Open(m), req[m].do \in Connects,
           NEW r \in Requests, r # m, Open(r), req[r].do = "googleSync", By(r) = By(m)
    PROVE  Overlaps(By(r))'
<1>1. Met(r, m)
  BY OpenMeet
<1>2. Overlaps(By(r))
  BY <1>1 DEF Overlaps, Doing, Open, Connects
<1>3. By(r)' = By(r)
  BY OthersStay DEF By
<1> QED
  BY <1>2, <1>3, OverlapsStay

\* What others about the connection of u write leaves its row well.
LEMMA SyncedStays ==
    ASSUME HistoryOK, CalendarShape, Grown, NEW u \in Accounts, Synced(u),
           db'.google[u] = db.google[u], db'.synced[u] = db.synced[u], db.relisted[u] => db'.relisted[u],
           \A r \in Doing("googleComplete")' : (At(r, "ok") /\ By(r) = u)' =>
                r \in Doing("googleComplete") /\ At(r, "ok") /\ By(r) = u /\ prior'[r] = prior[r]
    PROVE  Synced(u)'
<1>1. u \in Users
  BY DEF Users
<1>2. CASE db.google[u] = Nil /\ db.synced[u] = Nil
  BY <1>2 DEF Synced
<1>3. CASE db.google[u] # Nil /\ Completed(u) /\ AsOf(u, First(db.google[u].token), db.synced[u])
  <2>1. First(db.google[u].token) \in 0..Latest
    BY <1>1, <1>3, FirstIsGiven DEF CalendarShape
  <2>2. AsOf(u, First(db.google[u].token), db.synced[u])'
    <3> DEFINE first == First(db.google[u].token)
               row   == db.synced[u]
    <3>1. AsOf(u, first, row) /\ first \in 0..Latest
      BY <1>3, <2>1
    <3>2. first' = first /\ row' = row
      BY DEF First
    <3> HIDE DEF first, row
    <3>3. \A w : \A f \in 0..Latest : AsOf(u, f, w) => AsOf(u, f, w)'
      BY AsOfStays
    <3>4. AsOf(u, first, row)'
      BY <3>1, <3>2, <3>3 DEF AsOf
    <3> QED
      BY <3>4 DEF first, row
  <2>3. Completed(u)'
    BY <1>3 DEF Completed
  <2> QED
    BY <1>3, <2>2, <2>3 DEF Synced
<1> QED
  BY <1>2, <1>3 DEF Synced

LEMMA HeldStays ==
    ASSUME CalendarShape, Grown, NEW u \in Users, Spared(u), NEW at, NEW v, HeldAt(u, at, v),
           at \in {"persist", "syncRow"} => WasGiven(v.gi)
    PROVE  HeldAt(u, at, v)'
<1>1. \A w : \A f \in 0..Latest : AsOf(u, f, w) => AsOf(u, f, w)'
  BY AsOfStays DEF Spared
<1>2. /\ db'.google[u] = db.google[u] /\ db'.synced[u] = db.synced[u]
      /\ First(v.gi.token)' = First(v.gi.token) /\ First(db.google[u].token)' = First(db.google[u].token)
  BY DEF Spared, First
<1>3. at \in {"refreshed", "list"} => v = db'.google[u]
  BY <1>2 DEF HeldAt
<1>4. ASSUME at \in {"persist", "syncRow"}
      PROVE  /\ First(v.gi.token) \in 0..Latest /\ First(db.google[u].token) \in 0..Latest
             /\ db.google[u] # Nil /\ v.gi.grant = db.google[u].grant
  BY <1>4, FirstIsGiven DEF HeldAt, CalendarShape
<1>5. ASSUME at = "persist"
      PROVE  /\ v.events = {} => AsOf(u, First(v.gi.token), db.synced[u])'
             /\ \A e \in v.events : AsOf(u, First(v.gi.token), e)' /\ AsOf(u, First(db.google[u].token), e)'
  <2>1. PICK f, g, w : f = First(v.gi.token) /\ g = First(db.google[u].token) /\ w = db.synced[u]
    OBVIOUS
  <2>2. f = First(v.gi.token)' /\ g = First(db.google[u].token)' /\ w = db'.synced[u]
    BY <2>1, <1>2
  <2>3. f \in 0..Latest /\ g \in 0..Latest
    BY <1>4, <1>5, <2>1
  <2>4. (v.events = {} => AsOf(u, f, w)) /\ \A e \in v.events : AsOf(u, f, e) /\ AsOf(u, g, e)
    BY <1>5, <2>1 DEF HeldAt
  <2>5. (v.events = {} => AsOf(u, f, w)') /\ \A e \in v.events : AsOf(u, f, e)' /\ AsOf(u, g, e)'
    BY <1>1, <2>3, <2>4
  <2> QED
    BY <2>2, <2>5 DEF AsOf
<1>6. ASSUME at = "syncRow"
      PROVE  AsOf(u, First(v.gi.token), db.synced[u])'
  <2>1. PICK f, w : f = First(v.gi.token) /\ w = db.synced[u]
    OBVIOUS
  <2>2. f = First(v.gi.token)' /\ w = db'.synced[u]
    BY <2>1, <1>2
  <2>3. f \in 0..Latest /\ AsOf(u, f, w)
    BY <1>4, <1>6, <2>1 DEF HeldAt
  <2>4. AsOf(u, f, w)'
    BY <1>1, <2>3
  <2> QED
    BY <2>2, <2>4 DEF AsOf
<1> QED
  BY <1>2, <1>3, <1>4, <1>5, <1>6 DEF HeldAt

LEMMA SyncsStay ==
    ASSUME CalendarInv, Grown, NEW r \in Requests, req'[r] = req[r]
    PROVE  /\ AtPlace(r)' /\ SyncReads(r)'
           /\ Held(r) /\ Spared(By(r)) /\ req[r].do = "googleSync" => Held(r)'
<1> USE DEF At
<1>1. AtPlace(r) /\ SyncReads(r) /\ CalendarShape
  BY DEF CalendarInv
<1>2. AtPlace(r)'
  BY <1>1 DEF AtPlace, By
<1>3. SyncReads(r)'
  BY <1>1, VersionsStay DEF SyncReads
<1>4. ASSUME Held(r), Spared(By(r)), req[r].do = "googleSync"
      PROVE  Held(r)'
  <2>1. PICK u, at, v : u = By(r) /\ at = req[r].at /\ v = req[r].v
    OBVIOUS
  <2>2. By(r)' = u /\ req'[r].at = at /\ req'[r].v = v
    BY <2>1 DEF By
  <2>3. u \in Users /\ (at \in {"persist", "syncRow"} => WasGiven(v.gi))
    BY <1>1, <1>4, <2>1 DEF AtPlace, Connects, Users, SyncReads
  <2>4. Spared(u) /\ HeldAt(u, at, v)
    BY <1>4, <2>1 DEF Held
  <2>5. HeldAt(u, at, v)'
    BY <1>1, <2>3, <2>4, HeldStays
  <2> QED
    BY <2>2, <2>5 DEF Held, HeldAt
<1> QED
  BY <1>2, <1>3, <1>4

\* A step of m, which says what it does to the connection of m's account.
LEMMA CalendarStep ==
    ASSUME HistoryOK, CalendarInv, NEW m \in Requests, Moves(m), CalendarShape', db'.change = db.change,
           AtPlace(m)', SyncReads(m)', SyncHolds(m)',
           \A u \in Accounts : Spared(u) \/ (Open(m) /\ req[m].do \in Connects /\ By(m) = u),
           (req[m].do \in Connects => Followed(By(m)))'
    PROVE  CalendarInv'
<1> USE DEF At
<1>1. Grown
  BY DEF Grown, CalendarInv, CalendarShape, Latest
<1>2. \A r \in Requests \ {m} : req'[r] = req[r] /\ (~At(r, "new") => prior'[r] = prior[r])
  BY OthersStay
<1>3. \A r \in Requests : AtPlace(r)' /\ SyncReads(r)'
  BY <1>1, <1>2, SyncsStay
<1>4. ASSUME NEW r \in Requests, r # m, req[r].do = "googleSync"
      PROVE  SyncHolds(r)'
  <2>1. /\ req'[r] = req[r] /\ By(r)' = By(r) /\ SyncHolds(r) /\ AtPlace(r)
        /\ By(r) \in Accounts /\ req[r].at \in SyncPlaces \cup Ends
    BY <1>2, <1>4 DEF By, CalendarInv, AtPlace, Connects
  <2>2. CASE Overlaps(By(r))
    BY <2>1, <2>2, OverlapsStay DEF SyncHolds, Overlaps
  <2>3. CASE Held(r) /\ Spared(By(r))
    BY <1>1, <1>4, <2>1, <2>3, SyncsStay DEF SyncHolds
  <2>4. CASE ~Spared(By(r)) /\ Open(r)
    <3>1. Overlaps(By(r))'
      BY <1>4, <2>1, <2>4, BesideSync
    <3> QED
      BY <3>1 DEF SyncHolds
  <2>5. CASE ~Open(r)
    <3>1. req'[r].at \in Ends
      BY <2>1, <2>5 DEF Open, Ended, SyncPlaces
    <3> QED
      BY <3>1 DEF SyncHolds, Held, HeldAt, Ends
  <2> QED
    BY <1>4, <2>1, <2>2, <2>3, <2>4, <2>5 DEF SyncHolds
<1>5. \A r \in Requests : SyncHolds(r)'
  <2>1. \A r \in Requests \ {m} : req[r].do # "googleSync" => SyncHolds(r)'
    BY <1>2 DEF SyncHolds
  <2> QED
    BY <1>4, <2>1
<1>6. ASSUME NEW u \in Accounts
      PROVE  Followed(u)'
  <2>1. CASE req'[m].do \in Connects /\ By(m)' = u
    BY <2>1 DEF Followed, Overlaps, Synced, Completed
  <2>2. CASE ~(req'[m].do \in Connects /\ By(m)' = u)
    <3>1. CASE Overlaps(u)
      BY <3>1, OverlapsStay DEF Followed
    <3>2. CASE Synced(u)
      <4>1. Spared(u)
        <5>1. Open(m) => req'[m].do = req[m].do /\ By(m)' = By(m)
          BY OthersStay DEF Open, By
        <5> QED
          BY <2>2, <5>1
      <4>2. ASSUME NEW r \in Requests, req'[r].do = "googleComplete", req'[r].at = "ok", By(r)' = u
            PROVE  req[r].do = "googleComplete" /\ req[r].at = "ok" /\ By(r) = u /\ prior'[r] = prior[r]
        <5>1. r # m
          BY <2>2, <4>2 DEF Connects
        <5> QED
          BY <1>2, <4>2, <5>1 DEF By
      <4>3. \A r \in Doing("googleComplete")' : (At(r, "ok") /\ By(r) = u)' =>
                r \in Doing("googleComplete") /\ At(r, "ok") /\ By(r) = u /\ prior'[r] = prior[r]
        BY <4>2 DEF Doing
      <4>4. Synced(u)'
        BY <1>1, <3>2, <4>1, <4>3, SyncedStays DEF CalendarInv, Spared
      <4> QED
        BY <4>4 DEF Followed
    <3> QED
      BY <3>1, <3>2 DEF CalendarInv, Followed
  <2> QED
    BY <2>1, <2>2
<1> QED
  BY <1>3, <1>5, <1>6 DEF CalendarInv

\* A step that leaves the calendar alone.
LEMMA CalendarShapeStays ==
    ASSUME CalendarShape, SameCalendar(db')
    PROVE  CalendarShape' /\ Grown /\ (\A u : Spared(u))
  BY DEF CalendarShape, SameCalendar, CalendarTables, Grown, Spared, Latest, WasGiven, IsThere

LEMMA CalendarLeft ==
    ASSUME HistoryOK, CalendarInv, NEW m \in Requests, Moves(m), SameCalendar(db'), AtPlace(m)', SyncReads(m)',
           req'[m].do = "googleSync" => req'[m].at = "googleSync" \/ req'[m].at \in Ends \/ Held(m)',
           req'[m].do = "googleComplete" => req'[m].at # "ok"
    PROVE  CalendarInv'
<1>1. CalendarShape' /\ Grown /\ \A u : Spared(u)
  BY CalendarShapeStays DEF CalendarInv
<1>2. SyncHolds(m)'
  BY DEF SyncHolds, Held, HeldAt, Ends
<1>3. (req[m].do \in Connects => Followed(By(m)))'
  <2> SUFFICES ASSUME req'[m].do \in Connects PROVE Followed(By(m))'
    OBVIOUS
  <2>1. PICK u : u = By(m)'
    OBVIOUS
  <2>2. u \in Accounts
    BY <2>1 DEF AtPlace
  <2>3. CASE Overlaps(u)
    <3>1. Overlaps(u)'
      BY <2>3, OverlapsStay
    <3> QED
      BY <2>1, <3>1 DEF Followed, Overlaps
  <2>4. CASE Synced(u)
    <3>1. \A r \in Requests : req'[r].do = "googleComplete" /\ req'[r].at = "ok" =>
              req'[r] = req[r] /\ (~At(r, "new") => prior'[r] = prior[r])
      BY OthersStay
    <3>2. \A r \in Doing("googleComplete")' : (At(r, "ok") /\ By(r) = u)' =>
              r \in Doing("googleComplete") /\ At(r, "ok") /\ By(r) = u /\ prior'[r] = prior[r]
      BY <3>1 DEF Doing, At, By
    <3>3. Synced(u)'
      BY <1>1, <2>2, <2>4, <3>2, SyncedStays DEF CalendarInv, Spared
    <3> QED
      BY <2>1, <3>3 DEF Followed, Synced, Completed
  <2> QED
    BY <2>2, <2>3, <2>4 DEF CalendarInv, Followed
<1> QED
  BY <1>1, <1>2, <1>3, CalendarStep DEF SameCalendar

-----------------------------------------------------------------------------
\* The steps, one by one.
LEMMA CalendarKillsAndApart ==
    ASSUME HistoryOK, CalendarInv, NEW m \in Requests, Apart(m) \/ BeginsApart(m) \/ Killed(m)
    PROVE  CalendarInv'
<1> USE DEF At
<1>0. CalendarShape /\ AtPlace(m) /\ SameCalendar(db)
  BY DEF CalendarInv, SameCalendar
<1>1. CASE Apart(m)
  <2>1. PICK statement, v, tables :
            statement \notin CalendarPlaces \cup {"new"} /\ SameCalendar(tables) /\ Do(m, statement, v, tables)
    BY <1>1 DEF Apart
  <2>2. req'[m].do = req[m].do /\ req'[m].at = statement /\ db' = tables
    BY <2>1, DoEffect
  <2>3. Open(m) /\ req[m].do \notin Connects
    BY <1>0, <1>1 DEF Apart, AtPlace, Open, Ended, CalendarPlaces, SyncPlaces, CompletePlaces, DisconnectPlaces
  <2>4. Moves(m)
    BY <2>1, <2>3, DoMoves
  <2>5. AtPlace(m)' /\ SyncReads(m)'
    BY <2>1, <2>2, <2>3 DEF AtPlace, SyncReads, Connects
  <2> QED
    BY <2>1, <2>2, <2>3, <2>4, <2>5, CalendarLeft DEF Connects
<1>2. CASE BeginsApart(m)
  <2>1. PICK h, arg :
            /\ Begin(m, h, arg) /\ h \notin Ends \cup {"new"} /\ h \notin CalendarPlaces \ Connects
            /\ h \in Connects => arg.by \in Accounts
    BY <1>2 DEF BeginsApart
  <2>2. req'[m].do = h /\ req'[m].at = h /\ req'[m].arg = arg /\ db' = db
    BY <2>1, BeginEffect, BeginRequest
  <2>3. Moves(m)
    BY <2>1, BeginMoves
  <2>4. AtPlace(m)' /\ SyncReads(m)'
    BY <2>1, <2>2 DEF AtPlace, SyncReads, Connects, By, CalendarPlaces, SyncPlaces, CompletePlaces, DisconnectPlaces
  <2> QED
    BY <1>0, <2>2, <2>3, <2>4, CalendarLeft
<1>3. CASE Killed(m)
  <2>1. Open(m) /\ Do(m, "killed", req[m].v, db)
    BY <1>3 DEF Killed
  <2>2. req'[m].do = req[m].do /\ req'[m].at = "killed" /\ req'[m].arg = req[m].arg /\ db' = db
    BY <2>1, DoEffect
  <2>3. Moves(m)
    BY <2>1, DoMoves
  <2>4. AtPlace(m)' /\ SyncReads(m)'
    BY <1>0, <2>2 DEF AtPlace, SyncReads, By, Ends, CalendarPlaces, SyncPlaces, CompletePlaces, DisconnectPlaces
  <2> QED
    BY <1>0, <2>2, <2>3, <2>4, CalendarLeft DEF Ends
<1> QED
  BY <1>1, <1>2, <1>3

\* A step of a handler of the connection that leaves the calendar alone.
LEMMA ConnectsGoesOn ==
    ASSUME HistoryOK, CalendarInv, NEW m \in Requests, req[m].at \in CalendarPlaces, NEW statement, NEW v, NEW tables,
           Do(m, statement, v, tables), SameCalendar(tables),
           \/ statement = "refused"
           \/ req[m].do = "googleComplete" /\ statement \in CompletePlaces
           \/ req[m].do = "googleDisconnect" /\ statement \in DisconnectPlaces \cup {"ok"}
           \/ req[m].do = "googleSync" /\ statement \in {"refreshed", "list"}
              /\ v = db.google[By(m)] /\ db.google[By(m)] # Nil
    PROVE  CalendarInv'
<1> USE DEF At
<1>1. AtPlace(m) /\ CalendarShape
  BY DEF CalendarInv
<1>2. /\ req'[m].do = req[m].do /\ req'[m].at = statement /\ req'[m].arg = req[m].arg /\ db' = tables
      /\ By(m)' = By(m) /\ (statement \notin Ends => req'[m].v = v)
  BY DoEffect DEF By
<1>3. Open(m) /\ statement # "new" /\ req[m].do \in Connects /\ By(m) \in Accounts
  BY <1>1 DEF Open, Ended, Ends, AtPlace, Connects, CalendarPlaces, SyncPlaces, CompletePlaces, DisconnectPlaces
<1>4. Moves(m)
  BY <1>3, DoMoves
<1>5. AtPlace(m)'
  BY <1>1, <1>2, <1>3 DEF AtPlace, Ends, Connects, SyncPlaces, CompletePlaces, DisconnectPlaces, CalendarPlaces
<1>6. CalendarShape' /\ Grown
  BY <1>1, <1>2, CalendarShapeStays
<1>7. CASE statement = "refused" \/ req[m].do \in {"googleComplete", "googleDisconnect"}
  <2>1. SyncReads(m)'
    BY <1>2, <1>7 DEF SyncReads
  <2> QED
    BY <1>2, <1>4, <1>5, <1>7, <2>1, CalendarLeft DEF Ends, CompletePlaces
<1>8. CASE req[m].do = "googleSync" /\ statement \in {"refreshed", "list"} /\ v = db.google[By(m)] /\ db.google[By(m)] # Nil
  <2>1. statement \notin Ends /\ db'.google = db.google
    BY <1>2, <1>8 DEF Ends, SameCalendar
  <2>2. WasGiven(v) /\ By(m) \in Users
    BY <1>1, <1>3, <1>8 DEF CalendarShape, Users
  <2>3. WasGiven(v)'
    BY <1>1, <1>6, <2>2, VersionsStay
  <2>4. SyncReads(m)'
    <3>1. WasGiven(req[m].v)'
      BY <1>2, <2>1, <2>3 DEF WasGiven
    <3> QED
      BY <1>2, <1>8, <3>1 DEF SyncReads
  <2>5. Held(m)'
    BY <1>2, <1>8, <2>1 DEF Held, HeldAt
  <2> QED
    BY <1>2, <1>4, <1>5, <1>8, <2>4, <2>5, CalendarLeft
<1> QED
  BY <1>7, <1>8 DEF CompletePlaces

LEMMA ConnectsQuietly ==
    ASSUME HistoryOK, CalendarInv, NEW m \in Requests,
           GoogleComplete(m) \/ UseIntegrationCode(m) \/ GoogleDisconnect(m) \/ GoogleSync(m)
    PROVE  CalendarInv'
<1> USE DEF At, CalendarPlaces, SyncPlaces, CompletePlaces, DisconnectPlaces
<1>0. CalendarTables \subseteq DOMAIN db /\ AtPlace(m)
  BY DEF CalendarInv, CalendarShape
<1>1. SameCalendar(db) /\ \A x : SameCalendar([db EXCEPT !.icode = x])
  BY <1>0, ApartTables
<1>2. /\ req[m].at \in {"googleComplete", "useIntegrationCode"} => req[m].do = "googleComplete"
      /\ At(m, "googleDisconnect") => req[m].do = "googleDisconnect"
      /\ At(m, "googleSync") => req[m].do = "googleSync"
  BY <1>0 DEF AtPlace, Ends
<1>3. CASE GoogleComplete(m)
  BY <1>1, <1>2, <1>3, ConnectsGoesOn DEF GoogleComplete, GoOn, Refuse
<1>4. CASE UseIntegrationCode(m)
  <2>1. CASE Refuse(m)
    BY <1>1, <1>4, <2>1, ConnectsGoesOn DEF UseIntegrationCode, Refuse
  <2>2. CASE ~Refuse(m)
    <3>1. PICK x : Do(m, "connection", Nil, [db EXCEPT !.icode = x])
      BY <1>4, <2>2 DEF UseIntegrationCode
    <3> QED
      BY <1>1, <1>2, <1>4, <3>1, ConnectsGoesOn DEF UseIntegrationCode
  <2> QED
    BY <2>1, <2>2
<1>5. CASE GoogleDisconnect(m)
  BY <1>1, <1>2, <1>5, ConnectsGoesOn DEF GoogleDisconnect, GoOn, End
<1>6. CASE GoogleSync(m)
  BY <1>1, <1>2, <1>6, ConnectsGoesOn DEF GoogleSync, GoOn, Refuse
<1> QED
  BY <1>3, <1>4, <1>5, <1>6

-----------------------------------------------------------------------------
\* A step that writes u's rows of the calendar, and no others.
CalendarWritten(u, tables) ==
    /\ DOMAIN tables = DOMAIN db /\ tables.change = db.change
    /\ DOMAIN tables.google = Users /\ DOMAIN tables.synced = Users /\ DOMAIN tables.relisted = Users
    /\ \A w \in Users \ {u} :
           tables.google[w] = db.google[w] /\ tables.synced[w] = db.synced[w] /\ tables.relisted[w] = db.relisted[w]

LEMMA WrittenTables ==
    ASSUME CalendarShape, NEW u \in Users, NEW x, NEW tables
    PROVE  /\ tables = [db EXCEPT !.google[u] = x] =>
                 /\ CalendarWritten(u, tables)
                 /\ tables.google[u] = x /\ tables.synced[u] = db.synced[u] /\ tables.relisted[u] = db.relisted[u]
           /\ tables = [db EXCEPT !.synced[u] = x] =>
                 /\ CalendarWritten(u, tables)
                 /\ tables.google[u] = db.google[u] /\ tables.synced[u] = x /\ tables.relisted[u] = db.relisted[u]
           /\ tables = [db EXCEPT !.relisted[u] = x] =>
                 /\ CalendarWritten(u, tables)
                 /\ tables.google[u] = db.google[u] /\ tables.synced[u] = db.synced[u] /\ tables.relisted[u] = x
  BY DEF CalendarShape, CalendarTables, CalendarWritten

LEMMA ConnectsWrites ==
    ASSUME HistoryOK, CalendarInv, NEW m \in Requests, NEW u \in Accounts, u = By(m),
           req[m].at \in CalendarPlaces, req[m].do \in Connects, NEW statement, NEW v, NEW tables,
           Do(m, statement, v, tables), statement # "new", CalendarWritten(u, tables),
           tables.google[u] = Nil \/ WasGiven(tables.google[u]),
           tables.synced[u] = Nil \/ IsThere(tables.synced[u]),
           AtPlace(m)', SyncReads(m)',
           Overlaps(u) \/ (Synced(u)' /\ SyncHolds(m)')
    PROVE  CalendarInv'
<1> USE DEF At
<1>1. /\ db' = tables /\ req'[m].do = req[m].do /\ req'[m].arg = req[m].arg /\ By(m)' = u
  BY DoEffect DEF By
<1>2. Open(m)
  BY DEF Open, Ended, Ends, CalendarPlaces, SyncPlaces, CompletePlaces, DisconnectPlaces
<1>3. Moves(m)
  BY <1>2, DoMoves
<1>4. CalendarShape /\ u \in Users
  BY DEF CalendarInv, Users
<1>5. Latest' = Latest /\ db'.change = db.change
  BY <1>1 DEF Latest, CalendarWritten
<1>6. (\A e : IsThere(e)' <=> IsThere(e)) /\ (\A gi : WasGiven(gi)' <=> WasGiven(gi))
  BY <1>5 DEF IsThere, WasGiven
<1>7. CalendarShape'
  <2>1. ASSUME NEW w \in Users
        PROVE  (db'.google[w] = Nil \/ WasGiven(db'.google[w])) /\ (db'.synced[w] = Nil \/ IsThere(db'.synced[w]))
    BY <1>1, <1>4, <2>1 DEF CalendarShape, CalendarWritten
  <2>2. \A w \in Users : (db'.google[w] = Nil \/ WasGiven(db.google[w])') /\ (db'.synced[w] = Nil \/ IsThere(db.synced[w])')
    BY <2>1, <1>5 DEF IsThere, WasGiven
  <2> QED
    BY <1>1, <1>4, <1>5, <2>2 DEF CalendarShape, CalendarWritten, CalendarTables
<1>8. \A w \in Accounts : Spared(w) \/ (Open(m) /\ req[m].do \in Connects /\ By(m) = w)
  BY <1>1, <1>2 DEF Spared, CalendarWritten, Users
<1>9. CASE Overlaps(u)
  <2>1. Overlaps(u)'
    BY <1>3, <1>9, OverlapsStay
  <2>2. Followed(By(m))' /\ SyncHolds(m)'
    BY <1>1, <2>1 DEF Followed, SyncHolds, Overlaps
  <2> QED
    BY <1>3, <1>5, <1>7, <1>8, <2>2, CalendarStep
<1>10. CASE Synced(u)' /\ SyncHolds(m)'
  <2>1. Followed(By(m))'
    BY <1>1, <1>10 DEF Followed, Synced, Completed
  <2> QED
    BY <1>3, <1>5, <1>7, <1>8, <1>10, <2>1, CalendarStep
<1> QED
  BY <1>9, <1>10

\* A row of u that is as of first still is, once u's rows are written.
LEMMA AsOfWritten ==
    ASSUME CalendarShape, db'.change = db.change, NEW u, db.relisted[u] => db'.relisted[u],
           NEW first \in 0..Latest, NEW row, AsOf(u, first, row)
    PROVE  AsOf(u, first, row)'
<1>1. Grown
  BY DEF Grown, CalendarShape, Latest
<1> QED
  BY <1>1, AsOfStays

LEMMA ConnectionWrites ==
    ASSUME HistoryOK, CalendarInv, NEW m \in Requests, Connection(m)
    PROVE  CalendarInv'
<1> USE DEF At
<1>1. CalendarShape /\ AtPlace(m)
  BY DEF CalendarInv
<1>2. req[m].at \in CalendarPlaces /\ req[m].do = "googleComplete" /\ By(m) \in Accounts
  BY <1>1 DEF Connection, AtPlace, CalendarPlaces, SyncPlaces, CompletePlaces, DisconnectPlaces, Connects, Ends
<1>3. PICK u \in Accounts : u = By(m)
  BY <1>2
<1>4. PICK gi, tables :
          gi = [grant |-> m, token |-> Nil] /\ tables = [db EXCEPT !.google[u] = gi] /\ Do(m, "ok", req[m].v, tables)
  BY <1>3 DEF Connection, End, PutIntegration
<1>5. WasGiven(gi) /\ gi # Nil /\ gi.grant = m /\ gi.token = Nil
  BY <1>4, GoogleAssumption DEF WasGiven, ConnectionRow, Users
<1>6. /\ CalendarWritten(u, tables)
      /\ tables.google[u] = gi /\ tables.synced[u] = db.synced[u] /\ tables.relisted[u] = db.relisted[u]
  <2>1. u \in Users
    BY DEF Users
  <2> HIDE DEF At
  <2> QED
    BY <1>1, <1>4, <2>1, WrittenTables
<1>7. /\ db' = tables /\ prior' = prior /\ req'[m].do = "googleComplete" /\ req'[m].at = "ok" /\ By(m)' = By(m)
      /\ \A r \in Requests \ {m} : req'[r] = req[r]
  BY <1>2, <1>4, DoEffect DEF By
<1>8. AtPlace(m)' /\ SyncReads(m)' /\ SyncHolds(m)'
  BY <1>2, <1>7 DEF AtPlace, SyncReads, SyncHolds, Ends
<1>9. \A r \in Requests : m \notin prior[r] \cup Accounts
  <2>1. ~Ended(m)
    BY <1>2 DEF Ended, Ends, CalendarPlaces, SyncPlaces, CompletePlaces, DisconnectPlaces
  <2> QED
    BY <2>1, SessionsAssumption DEF HistoryOK, PriorHasEnded
<1>10. Completed(u)'
  BY <1>5, <1>6, <1>7, <1>9 DEF Completed, Doing
<1>11. AsOf(u, First(db.google[u].token), db.synced[u])'
  <2>1. PICK w : w = db.synced[u]
    OBVIOUS
  <2>2. AsOf(u, 0, w) /\ 0 \in 0..Latest /\ Latest \in Nat
    BY <1>1, <2>1, AnyIsOfTheFirst DEF CalendarShape, Users
  <2>3. AsOf(u, 0, w)'
    BY <1>1, <1>6, <1>7, <2>2, AsOfWritten DEF CalendarWritten
  <2>4. First(db.google[u].token)' = 0 /\ db'.synced[u] = w
    BY <1>5, <1>6, <1>7, <2>1 DEF First
  <2> QED
    BY <2>3, <2>4 DEF AsOf
<1>12. Synced(u)'
  BY <1>5, <1>6, <1>7, <1>10, <1>11 DEF Synced
<1>13. tables.synced[u] = Nil \/ IsThere(tables.synced[u])
  BY <1>1, <1>6 DEF CalendarShape, Users
<1> QED
  BY <1>2, <1>3, <1>4, <1>5, <1>6, <1>8, <1>12, <1>13, ConnectsWrites DEF Connects

LEMMA WipeWrites ==
    ASSUME HistoryOK, CalendarInv, NEW m \in Requests, Wipe(m)
    PROVE  CalendarInv'
<1> USE DEF At
<1>1. CalendarShape /\ AtPlace(m)
  BY DEF CalendarInv
<1>2. req[m].at \in CalendarPlaces /\ req[m].do = "googleDisconnect" /\ By(m) \in Accounts
  BY <1>1 DEF Wipe, AtPlace, CalendarPlaces, SyncPlaces, CompletePlaces, DisconnectPlaces, Connects, Ends
<1>3. PICK u \in Accounts : u = By(m)
  BY <1>2
<1>4. PICK tables : tables = Wiped(u) /\ Do(m, "ok", req[m].v, tables)
  BY <1>3 DEF Wipe, End
<1>5. CalendarWritten(u, tables) /\ tables.google[u] = Nil /\ tables.synced[u] = Nil
  BY <1>1, <1>4 DEF Wiped, CalendarShape, CalendarTables, CalendarWritten, Users
<1>6. db' = tables /\ req'[m].do = "googleDisconnect" /\ req'[m].at = "ok" /\ By(m)' = By(m)
  BY <1>2, <1>4, DoEffect DEF By
<1>7. AtPlace(m)' /\ SyncReads(m)' /\ SyncHolds(m)'
  BY <1>2, <1>6 DEF AtPlace, SyncReads, SyncHolds, Ends
<1>8. Synced(u)'
  BY <1>5, <1>6 DEF Synced
<1> QED
  BY <1>2, <1>3, <1>4, <1>5, <1>7, <1>8, ConnectsWrites DEF Connects

\* The steps of a sync that write: at a statement of its own, it refuses, or
\* goes on to another.
LEMMA SyncWrites ==
    ASSUME HistoryOK, CalendarInv, NEW m \in Requests, req[m].at \in SyncPlaces, NEW u \in Accounts, u = By(m),
           NEW statement \in SyncPlaces \cup {"ok", "refused"}, NEW v, NEW tables, Do(m, statement, v, tables),
           CalendarWritten(u, tables),
           tables.google[u] = Nil \/ WasGiven(tables.google[u]),
           tables.synced[u] = Nil \/ IsThere(tables.synced[u]),
           statement \in {"refreshed", "list"} => WasGiven(v),
           statement \in {"persist", "syncRow"} => WasGiven(v.gi) /\ \A e \in v.events : e = Nil \/ IsThere(e),
           Overlaps(u) \/ (Synced(u)' /\ (statement \in SyncPlaces => HeldAt(u, statement, v)'))
    PROVE  CalendarInv'
<1> USE DEF At
<1>1. AtPlace(m) /\ CalendarShape
  BY DEF CalendarInv
<1>2. req[m].do = "googleSync"
  BY <1>1 DEF AtPlace, SyncPlaces, CompletePlaces, DisconnectPlaces, CalendarPlaces, Ends
<1>3. /\ db' = tables /\ req'[m].do = "googleSync" /\ req'[m].at = statement /\ By(m)' = u
      /\ statement \in SyncPlaces => req'[m].v = v
  BY <1>2, DoEffect DEF By, SyncPlaces, Ends
<1>4. AtPlace(m)'
  BY <1>3 DEF AtPlace, Ends
<1>5. SyncReads(m)'
  <2>1. Latest' = Latest /\ db'.change = db.change
    BY <1>3 DEF Latest, CalendarWritten
  <2>2. (\A e : IsThere(e) => IsThere(e)') /\ (\A gi : WasGiven(gi) => WasGiven(gi)')
    BY <2>1 DEF IsThere, WasGiven
  <2>3. /\ statement \in {"refreshed", "list"} => WasGiven(v)'
        /\ statement \in {"persist", "syncRow"} => WasGiven(v.gi)' /\ \A e \in v.events : e = Nil \/ IsThere(e)'
    BY <2>2
  <2> QED
    BY <1>3, <2>3 DEF SyncReads, SyncPlaces, WasGiven
<1>6. ASSUME Synced(u)', statement \in SyncPlaces => HeldAt(u, statement, v)'
      PROVE  SyncHolds(m)'
  <2>1. CASE statement \in SyncPlaces
    BY <1>3, <1>6, <2>1 DEF SyncHolds, Held, HeldAt
  <2>2. CASE statement \notin SyncPlaces
    BY <1>3, <2>2 DEF SyncHolds, Held, HeldAt
  <2> QED
    BY <2>1, <2>2
<1> QED
  BY <1>2, <1>4, <1>5, <1>6, ConnectsWrites DEF CalendarPlaces, Connects, SyncPlaces

\* What a sync at a statement knows.
LEMMA SyncKnows ==
    ASSUME CalendarInv, NEW m \in Requests, req[m].at \in SyncPlaces
    PROVE  /\ CalendarShape /\ req[m].do = "googleSync" /\ By(m) \in Accounts /\ By(m) \in Users
           /\ req[m].at \in {"refreshed", "list"} => WasGiven(req[m].v)
           /\ req[m].at \in {"persist", "syncRow"} =>
                 WasGiven(req[m].v.gi) /\ \A e \in req[m].v.events : e = Nil \/ IsThere(e)
           /\ db.google[By(m)] = Nil \/ WasGiven(db.google[By(m)])
           /\ db.synced[By(m)] = Nil \/ IsThere(db.synced[By(m)])
           /\ Overlaps(By(m)) \/ (Synced(By(m)) /\ HeldAt(By(m), req[m].at, req[m].v))
<1>1. AtPlace(m) /\ SyncReads(m) /\ SyncHolds(m) /\ CalendarShape
  BY DEF CalendarInv
<1>2. req[m].do = "googleSync" /\ By(m) \in Accounts /\ By(m) \in Users
  BY <1>1 DEF AtPlace, SyncPlaces, CompletePlaces, DisconnectPlaces, CalendarPlaces, Ends, Users
<1>3. Followed(By(m))
  BY <1>2 DEF CalendarInv
<1> QED
  BY <1>1, <1>2, <1>3 DEF SyncReads, SyncHolds, Followed, Held, CalendarShape, At

LEMMA GivenIsNotNil == \A gi : WasGiven(gi) => gi # Nil
  BY GoogleAssumption DEF WasGiven

\* A sync that leaves u's connection and row as they are.
LEMMA SyncedGoesOn ==
    ASSUME HistoryOK, CalendarInv, NEW m \in Requests, req[m].do = "googleSync", NEW u \in Accounts, Synced(u),
           NEW statement, NEW v, NEW tables, Do(m, statement, v, tables),
           CalendarWritten(u, tables), tables.google[u] = db.google[u], tables.synced[u] = db.synced[u],
           db.relisted[u] => tables.relisted[u]
    PROVE  Synced(u)'
<1>1. /\ db' = tables /\ prior' = prior /\ req'[m].do = "googleSync"
      /\ \A r \in Requests \ {m} : req'[r] = req[r]
  BY DoEffect
<1>2. CalendarShape /\ Grown
  BY <1>1 DEF Grown, CalendarInv, CalendarShape, Latest, CalendarWritten
<1>3. \A r \in Doing("googleComplete")' : (At(r, "ok") /\ By(r) = u)' =>
          r \in Doing("googleComplete") /\ At(r, "ok") /\ By(r) = u /\ prior'[r] = prior[r]
  BY <1>1 DEF Doing, At, By
<1> QED
  BY <1>1, <1>2, <1>3, SyncedStays

LEMMA RefreshedWrites ==
    ASSUME HistoryOK, CalendarInv, NEW m \in Requests, Refreshed(m), ~Refuse(m)
    PROVE  CalendarInv'
<1>1. req[m].at = "refreshed" /\ req[m].at \in SyncPlaces
  BY DEF Refreshed, At, SyncPlaces
<1>2. PICK u, v : u = By(m) /\ v = req[m].v
  OBVIOUS
<1>3. PICK tables : tables = [db EXCEPT !.google[u] = v] /\ Do(m, "list", v, tables)
  BY <1>2 DEF Refreshed, PutIntegration
<1>4. /\ CalendarShape /\ req[m].do = "googleSync" /\ u \in Accounts /\ u \in Users /\ WasGiven(v)
      /\ db.synced[u] = Nil \/ IsThere(db.synced[u])
      /\ Overlaps(u) \/ (Synced(u) /\ HeldAt(u, "refreshed", v))
  BY <1>1, <1>2, SyncKnows
<1>5. /\ CalendarWritten(u, tables)
      /\ tables.google[u] = v /\ tables.synced[u] = db.synced[u] /\ tables.relisted[u] = db.relisted[u]
  BY <1>3, <1>4, WrittenTables
<1>6. ASSUME Synced(u), HeldAt(u, "refreshed", v)
      PROVE  Synced(u)' /\ HeldAt(u, "list", v)'
  <2>1. v = db.google[u]
    BY <1>6 DEF HeldAt
  <2>2. Synced(u)'
    BY <1>3, <1>4, <1>5, <1>6, <2>1, SyncedGoesOn
  <2>3. db' = tables
    BY <1>3, DoEffect
  <2>4. HeldAt(u, "list", v)'
    BY <1>5, <2>3 DEF HeldAt
  <2> QED
    BY <2>2, <2>4
<1> QED
  BY <1>1, <1>2, <1>3, <1>4, <1>5, <1>6, SyncWrites DEF SyncPlaces

LEMMA PersistWrites ==
    ASSUME HistoryOK, CalendarInv, NEW m \in Requests, Persist(m), ~Refuse(m)
    PROVE  CalendarInv'
<1>1. req[m].at = "persist" /\ req[m].at \in SyncPlaces
  BY DEF Persist, At, SyncPlaces
<1>2. PICK u, v : u = By(m) /\ v = req[m].v
  OBVIOUS
<1>3. /\ CalendarShape /\ req[m].do = "googleSync" /\ u \in Accounts /\ u \in Users
      /\ WasGiven(v.gi) /\ \A e \in v.events : e = Nil \/ IsThere(e)
      /\ db.google[u] = Nil \/ WasGiven(db.google[u])
      /\ db.synced[u] = Nil \/ IsThere(db.synced[u])
      /\ Overlaps(u) \/ (Synced(u) /\ HeldAt(u, "persist", v))
  BY <1>1, <1>2, SyncKnows
<1>4. PICK tables :
          /\ Do(m, "syncRow", v, tables) /\ CalendarWritten(u, tables)
          /\ tables.google[u] = db.google[u] /\ tables.relisted[u] = db.relisted[u]
          /\ \/ v.events = {} /\ tables.synced[u] = db.synced[u]
             \/ tables.synced[u] \in v.events
  <2>1. CASE v.events = {}
    <3>1. Do(m, "syncRow", v, db)
      BY <1>2, <2>1 DEF Persist, GoOn, Written
    <3>2. CalendarWritten(u, db)
      BY <1>3 DEF CalendarShape, CalendarWritten
    <3> QED
      BY <2>1, <3>1, <3>2
  <2>2. CASE v.events # {}
    <3>1. PICK n \in v.events : Do(m, "syncRow", v, [db EXCEPT !.synced[u] = n])
      BY <1>2, <2>2 DEF Persist, GoOn, Written
    <3>2. PICK tables : tables = [db EXCEPT !.synced[u] = n]
      OBVIOUS
    <3>3. /\ CalendarWritten(u, tables)
          /\ tables.google[u] = db.google[u] /\ tables.synced[u] = n /\ tables.relisted[u] = db.relisted[u]
      BY <1>3, <3>2, WrittenTables
    <3> QED
      BY <3>1, <3>2, <3>3
  <2> QED
    BY <2>1, <2>2
<1>5. tables.synced[u] = Nil \/ IsThere(tables.synced[u])
  BY <1>3, <1>4
<1>6. ASSUME Synced(u), HeldAt(u, "persist", v)
      PROVE  Synced(u)' /\ HeldAt(u, "syncRow", v)'
  <2>1. /\ db' = tables /\ prior' = prior /\ req'[m].do = "googleSync"
        /\ \A r \in Requests \ {m} : req'[r] = req[r]
    BY <1>3, <1>4, DoEffect
  <2>2. PICK f, g, w : f = First(v.gi.token) /\ g = First(db.google[u].token) /\ w = tables.synced[u]
    OBVIOUS
  <2>3. db.google[u] # Nil /\ v.gi.grant = db.google[u].grant /\ f \in 0..Latest /\ g \in 0..Latest
    BY <1>3, <1>6, <2>2, FirstIsGiven DEF HeldAt
  <2>4. Completed(u) /\ AsOf(u, g, db.synced[u])
    BY <1>6, <2>2, <2>3 DEF Synced
  <2>5. AsOf(u, f, w) /\ AsOf(u, g, w)
    BY <1>4, <1>6, <2>2, <2>4 DEF HeldAt
  <2>6. AsOf(u, f, w)' /\ AsOf(u, g, w)'
    BY <1>3, <1>4, <2>1, <2>3, <2>5, AsOfWritten DEF CalendarWritten
  <2>7. First(v.gi.token)' = f /\ First(db.google[u].token)' = g /\ db'.synced[u] = w
    BY <1>4, <2>1, <2>2 DEF First
  <2>8. Completed(u)'
    BY <1>4, <2>1, <2>4 DEF Completed, Doing, At, By
  <2>9. AsOf(u, First(v.gi.token), db.synced[u])' /\ AsOf(u, First(db.google[u].token), db.synced[u])'
    BY <2>6, <2>7 DEF AsOf
  <2>10. db'.google[u] = db.google[u]
    BY <1>4, <2>1
  <2> QED
    BY <2>3, <2>8, <2>9, <2>10 DEF Synced, HeldAt
<1> QED
  BY <1>1, <1>2, <1>3, <1>4, <1>5, <1>6, SyncWrites DEF SyncPlaces

LEMMA SyncRowWrites ==
    ASSUME HistoryOK, CalendarInv, NEW m \in Requests, SyncRow(m), ~Refuse(m)
    PROVE  CalendarInv'
<1>1. req[m].at = "syncRow" /\ req[m].at \in SyncPlaces
  BY DEF SyncRow, At, SyncPlaces
<1>2. PICK u, v : u = By(m) /\ v = req[m].v
  OBVIOUS
<1>3. /\ CalendarShape /\ req[m].do = "googleSync" /\ u \in Accounts /\ u \in Users
      /\ WasGiven(v.gi)
      /\ db.google[u] = Nil \/ WasGiven(db.google[u])
      /\ db.synced[u] = Nil \/ IsThere(db.synced[u])
      /\ Overlaps(u) \/ (Synced(u) /\ HeldAt(u, "syncRow", v))
  BY <1>1, <1>2, SyncKnows
<1>4. PICK gi, tables, answer :
          /\ answer \in {"ok", "refused"}
          /\ gi = v.gi /\ tables = [db EXCEPT !.google[u] = gi] /\ Do(m, answer, Nil, tables)
  BY <1>2 DEF SyncRow, PutIntegration
<1>5. /\ CalendarWritten(u, tables) /\ WasGiven(gi) /\ gi # Nil
      /\ tables.google[u] = gi /\ tables.synced[u] = db.synced[u] /\ tables.relisted[u] = db.relisted[u]
  BY <1>3, <1>4, WrittenTables, GivenIsNotNil
<1>6. ASSUME Synced(u), HeldAt(u, "syncRow", v)
      PROVE  Synced(u)'
  <2>1. /\ db' = tables /\ prior' = prior /\ req'[m].do = "googleSync"
        /\ \A r \in Requests \ {m} : req'[r] = req[r]
    BY <1>3, <1>4, DoEffect
  <2>2. PICK f, w : f = First(v.gi.token) /\ w = db.synced[u]
    OBVIOUS
  <2>3. db.google[u] # Nil /\ gi.grant = db.google[u].grant /\ f \in 0..Latest /\ AsOf(u, f, w)
    BY <1>3, <1>4, <1>6, <2>2, FirstIsGiven DEF HeldAt
  <2>4. Completed(u)
    BY <1>6, <2>3 DEF Synced
  <2>5. AsOf(u, f, w)'
    BY <1>3, <1>5, <2>1, <2>3, AsOfWritten DEF CalendarWritten
  <2>6. db'.google[u] = gi /\ First(db.google[u].token)' = f /\ db'.synced[u] = w
    BY <1>4, <1>5, <2>1, <2>2 DEF First
  <2>7. Completed(u)'
    BY <2>1, <2>3, <2>4, <2>6 DEF Completed, Doing, At, By
  <2>8. AsOf(u, First(db.google[u].token), db.synced[u])'
    BY <2>5, <2>6 DEF AsOf
  <2> QED
    BY <1>5, <2>6, <2>7, <2>8 DEF Synced
<1> QED
  BY <1>1, <1>2, <1>3, <1>4, <1>5, <1>6, SyncWrites DEF SyncPlaces

\* A listing holds the event as it is, or tells nothing where there is nothing to
\* tell, or was made over a row without a token.
LEMMA ListWrites ==
    ASSUME HistoryOK, CalendarInv, NEW m \in Requests, List(m), ~Refuse(m)
    PROVE  CalendarInv'
<1>1. req[m].at = "list" /\ req[m].at \in SyncPlaces
  BY DEF List, At, SyncPlaces
<1>2. PICK u, gi : u = By(m) /\ gi = req[m].v
  OBVIOUS
<1>3. /\ CalendarShape /\ req[m].do = "googleSync" /\ u \in Accounts /\ u \in Users /\ WasGiven(gi)
      /\ db.google[u] = Nil \/ WasGiven(db.google[u])
      /\ db.synced[u] = Nil \/ IsThere(db.synced[u])
      /\ Overlaps(u) \/ (Synced(u) /\ HeldAt(u, "list", gi))
  BY <1>1, <1>2, SyncKnows
<1>4. PICK events \in {{}, Listed(gi.token)}, token \in {gi.token, Latest} :
          /\ token # gi.token => events = Listed(gi.token)
          /\ Do(m, "persist", [gi |-> [gi EXCEPT !.token = token], events |-> events],
                [db EXCEPT !.relisted[u] = @ \/ (~Incremental(gi.token) /\ db.synced[u] # Nil)])
  BY <1>2 DEF List
<1>5. PICK x, tables, v :
          /\ x = (db.relisted[u] \/ (~Incremental(gi.token) /\ db.synced[u] # Nil))
          /\ tables = [db EXCEPT !.relisted[u] = x]
          /\ v = [gi |-> [gi EXCEPT !.token = token], events |-> events]
  OBVIOUS
<1>6. Do(m, "persist", v, tables)
  BY <1>4, <1>5
<1>7. /\ CalendarWritten(u, tables)
      /\ tables.google[u] = db.google[u] /\ tables.synced[u] = db.synced[u] /\ tables.relisted[u] = x
  BY <1>3, <1>5, WrittenTables
<1>8. Latest \in Nat /\ \A e \in Listed(gi.token) : e = Version(Latest)
  BY <1>3 DEF CalendarShape, Listed
<1>9. v.gi = [gi EXCEPT !.token = token] /\ v.events = events /\ events \subseteq Listed(gi.token)
  BY <1>4, <1>5
<1>10. WasGiven(v.gi) /\ v.gi.token = token /\ v.gi.grant = gi.grant
  BY <1>3, <1>4, <1>8, <1>9 DEF WasGiven, ConnectionRow
<1>11. \A e \in v.events : e = Nil \/ IsThere(e)
  BY <1>8, <1>9 DEF Version, IsThere
<1>12. ASSUME Synced(u), HeldAt(u, "list", gi)
       PROVE  Synced(u)' /\ HeldAt(u, "persist", v)'
  <2>1. db' = tables
    BY <1>6, DoEffect
  <2>2. Synced(u)'
    BY <1>3, <1>5, <1>6, <1>7, <1>12, SyncedGoesOn
  <2>3. gi = db.google[u] /\ gi # Nil
    BY <1>3, <1>12, GivenIsNotNil DEF HeldAt
  <2>4. PICK f, g, w : f = First(token) /\ g = First(gi.token) /\ w = db.synced[u]
    OBVIOUS
  <2>5. /\ f \in 0..Latest /\ g \in 0..Latest
        /\ First(v.gi.token)' = f /\ First(db.google[u].token)' = g /\ db'.synced[u] = w
    BY <1>3, <1>7, <1>10, <2>1, <2>3, <2>4, FirstIsGiven DEF First
  <2>6. \A e \in events : \A h \in 0..Latest : AsOf(u, h, e)
    BY <1>8, <1>9 DEF AsOf
  <2>7. \A e : \A h \in 0..Latest : AsOf(u, h, e) => AsOf(u, h, e)'
    BY <1>3, <1>5, <1>7, <2>1, AsOfWritten DEF CalendarWritten
  <2>8. ASSUME events = {}
        PROVE  AsOf(u, f, w)'
    <3>1. CASE token = gi.token
      <4>1. AsOf(u, f, w)
        BY <1>12, <2>3, <2>4, <3>1 DEF Synced
      <4> QED
        BY <2>5, <2>7, <4>1
    <3>2. CASE token # gi.token
      <4>1. token = Latest /\ f = Latest
        BY <1>4, <1>8, <2>4, <3>2, GoogleAssumption DEF First
      <4>2. ~Incremental(gi.token) /\ Version(Latest) = Nil
        BY <1>4, <2>8, <3>2, <4>1 DEF Listed
      <4>3. CASE w = Nil
        <5>1. AsOf(u, f, w)
          BY <1>8, <4>1, <4>2, <4>3 DEF AsOf
        <5> QED
          BY <2>5, <2>7, <5>1
      <4>4. CASE w # Nil
        <5>1. IsThere(w)
          BY <1>3, <2>4, <4>4
        <5>2. w \in 1..Latest /\ db.change[w] # "gone"
          BY <5>1 DEF IsThere
        <5>3. Latest # 0 /\ db.change[Latest] = "gone"
          BY <1>8, <4>2, <5>2, GoogleAssumption DEF Version
        <5>4. Latest \in 1..f /\ w \in 1..(Latest - 1)
          BY <1>8, <4>1, <5>2, <5>3
        <5>5. db'.relisted[u] /\ db'.change = db.change
          BY <1>5, <1>7, <2>1, <2>4, <4>2, <4>4 DEF CalendarWritten
        <5> QED
          BY <5>3, <5>4, <5>5 DEF AsOf
      <4> QED
        BY <4>3, <4>4
    <3> QED
      BY <3>1, <3>2
  <2>9. \A e \in v.events : AsOf(u, f, e)' /\ AsOf(u, g, e)'
    BY <1>9, <2>5, <2>6, <2>7
  <2>10. /\ v.events = {} => AsOf(u, First(v.gi.token), db.synced[u])'
         /\ \A e \in v.events : AsOf(u, First(v.gi.token), e)' /\ AsOf(u, First(db.google[u].token), e)'
    BY <1>9, <2>5, <2>8, <2>9 DEF AsOf
  <2>11. db'.google[u] = gi /\ v.gi.grant = gi.grant
    BY <1>7, <1>10, <2>1, <2>3
  <2> QED
    BY <2>2, <2>3, <2>10, <2>11 DEF HeldAt
<1> QED
  BY <1>1, <1>2, <1>3, <1>6, <1>7, <1>10, <1>11, <1>12, SyncWrites DEF SyncPlaces

LEMMA SyncRefuses ==
    ASSUME HistoryOK, CalendarInv, NEW m \in Requests, Refreshed(m) \/ List(m) \/ Persist(m) \/ SyncRow(m), Refuse(m)
    PROVE  CalendarInv'
<1>1. req[m].at \in CalendarPlaces
  BY DEF Refreshed, List, Persist, SyncRow, At, CalendarPlaces, SyncPlaces
<1>2. Do(m, "refused", req[m].v, db) /\ SameCalendar(db)
  BY DEF Refuse, SameCalendar
<1> QED
  BY <1>1, <1>2, ConnectsGoesOn

LEMMA CalendarInvStep ==
    ASSUME HistoryOK, CalendarInv, NEW m \in Requests, CredentialMove(m)
    PROVE  CalendarInv'
<1>0. CalendarTables \subseteq DOMAIN db
  BY DEF CalendarInv, CalendarShape
<1>1. CASE ArriveSession(m) \/ ArriveSignUp(m) \/ ArriveCompany(m) \/ ArriveGoogle(m)
  BY <1>1, CalendarArrives, CalendarKillsAndApart
<1>2. CASE SessionStep(m) /\ ~ArriveSession(m)
  BY <1>0, <1>2, SessionsApart, CalendarKillsAndApart
<1>3. CASE SignUpStep(m) /\ ~ArriveSignUp(m)
  BY <1>0, <1>3, SignUpsApart, CalendarKillsAndApart
<1>4. CASE CompanyStep(m) /\ ~ArriveCompany(m)
  BY <1>0, <1>4, CompaniesApart, CalendarKillsAndApart
<1>5. CASE GoogleConnect(m) \/ GoogleCallback(m) \/ GoogleCode(m) \/ Killed(m)
  BY <1>0, <1>5, GoogleApart, CalendarKillsAndApart
<1>6. CASE GoogleComplete(m) \/ UseIntegrationCode(m) \/ GoogleDisconnect(m) \/ GoogleSync(m)
  BY <1>6, ConnectsQuietly
<1>7. CASE Connection(m) \/ Wipe(m)
  BY <1>7, ConnectionWrites, WipeWrites
<1>8. CASE Refreshed(m) \/ List(m) \/ Persist(m) \/ SyncRow(m)
  BY <1>8, SyncRefuses, RefreshedWrites, ListWrites, PersistWrites, SyncRowWrites
<1> QED
  BY <1>1, <1>2, <1>3, <1>4, <1>5, <1>6, <1>7, <1>8 DEF CredentialMove, GoogleStep

\* What happens at Google, and nothing at all.
LEMMA CalendarGrows ==
    ASSUME HistoryOK, CalendarInv, UNCHANGED <<req, prior>>, CalendarShape', Grown, \A u \in Users : Spared(u)
    PROVE  CalendarInv'
<1>1. ASSUME NEW r \in Requests
      PROVE  AtPlace(r)' /\ SyncReads(r)' /\ SyncHolds(r)'
  <2>1. /\ req'[r] = req[r] /\ By(r)' = By(r) /\ SyncHolds(r) /\ AtPlace(r)
        /\ req[r].do = "googleSync" => Spared(By(r))
    BY <1>1 DEF By, CalendarInv, AtPlace, Connects, Users
  <2>2. Overlaps(By(r)) => Overlaps(By(r))'
    BY <2>1 DEF Overlaps, Doing, Met, At, By
  <2> QED
    BY <2>1, <2>2, SyncsStay DEF SyncHolds
<1>2. ASSUME NEW u \in Accounts
      PROVE  Followed(u)'
  <2>1. Overlaps(u) => Overlaps(u)'
    BY DEF Overlaps, Doing, Met, At, By
  <2>2. \A r \in Doing("googleComplete")' : (At(r, "ok") /\ By(r) = u)' =>
            r \in Doing("googleComplete") /\ At(r, "ok") /\ By(r) = u /\ prior'[r] = prior[r]
    BY DEF Doing, At, By
  <2>3. Spared(u) /\ CalendarShape /\ Followed(u)
    BY DEF Users, CalendarInv
  <2>4. Synced(u) => Synced(u)'
    BY <2>2, <2>3, SyncedStays DEF Spared
  <2> QED
    BY <2>1, <2>3, <2>4 DEF Followed
<1> QED
  BY <1>1, <1>2 DEF CalendarInv

LEMMA CalendarAtGoogle ==
    ASSUME HistoryOK, CalendarInv, AtGoogle
    PROVE  CalendarInv'
<1>1. CalendarShape /\ UNCHANGED <<req, prior>>
  BY DEF AtGoogle, CalendarInv
<1>2. CASE db' = [db EXCEPT !.stale = Latest]
  <2>1. /\ db'.google = db.google /\ db'.synced = db.synced /\ db'.relisted = db.relisted
        /\ db'.change = db.change /\ DOMAIN db' = DOMAIN db
    BY <1>1, <1>2 DEF CalendarShape, CalendarTables
  <2>2. Latest' = Latest
    BY <2>1 DEF Latest
  <2>3. CalendarShape' /\ Grown /\ \A u \in Users : Spared(u)
    BY <1>1, <2>1, <2>2 DEF CalendarShape, Grown, Spared, WasGiven, IsThere
  <2> QED
    BY <1>1, <2>3, CalendarGrows
<1>3. CASE \E what : db' = [db EXCEPT !.change = [n \in 1..(Latest + 1) |-> IF n > Latest THEN what ELSE db.change[n]]]
  <2>1. PICK what, history :
            /\ history = [n \in 1..(Latest + 1) |-> IF n > Latest THEN what ELSE db.change[n]]
            /\ db' = [db EXCEPT !.change = history]
    BY <1>3
  <2>2. /\ db'.google = db.google /\ db'.synced = db.synced /\ db'.relisted = db.relisted
        /\ db'.change = history /\ DOMAIN db' = DOMAIN db
    BY <1>1, <2>1 DEF CalendarShape, CalendarTables
  <2>3. Latest \in Nat
    BY <1>1 DEF CalendarShape
  <2>4. Latest' = Latest + 1
    <3>1. DOMAIN db'.change = 1..(Latest + 1)
      BY <2>1, <2>2
    <3>2. \A k \in Nat : Cardinality(1..k) = k
      BY FS_Interval
    <3> QED
      BY <2>3, <3>1, <3>2 DEF Latest
  <2>5. \A n \in 1..Latest : db'.change[n] = db.change[n]
    BY <2>1, <2>2, <2>3
  <2>6. Grown /\ \A u \in Users : Spared(u)
    BY <2>2, <2>3, <2>4, <2>5 DEF Grown, Spared
  <2>7. CalendarShape'
    <3>1. /\ CalendarTables \subseteq DOMAIN db'
          /\ DOMAIN db'.google = Users /\ DOMAIN db'.synced = Users /\ DOMAIN db'.relisted = Users
          /\ Latest' \in Nat /\ DOMAIN db'.change = 1..Latest'
      BY <1>1, <2>1, <2>2, <2>3, <2>4 DEF CalendarShape
    <3>2. ASSUME NEW u \in Users
          PROVE  /\ db'.google[u] = Nil \/ WasGiven(db.google[u])'
                 /\ db'.synced[u] = Nil \/ IsThere(db.synced[u])'
      <4>1. PICK g, e : g = db.google[u] /\ e = db.synced[u]
        OBVIOUS
      <4>2. (g = Nil \/ WasGiven(g)) /\ (e = Nil \/ IsThere(e))
        BY <1>1, <3>2, <4>1 DEF CalendarShape
      <4>3. (g = Nil \/ WasGiven(g)') /\ (e = Nil \/ IsThere(e)')
        BY <1>1, <2>6, <4>2, VersionsStay
      <4> QED
        BY <2>2, <4>1, <4>3 DEF WasGiven, IsThere
    <3> QED
      BY <3>1, <3>2 DEF CalendarShape
  <2> QED
    BY <1>1, <2>6, <2>7, CalendarGrows
<1> QED
  BY <1>2, <1>3 DEF AtGoogle

\* The tables there are at the start, of which nobody has read anything.
CalendarInit ==
    /\ CredentialInit /\ CalendarShape
    /\ \A u \in Accounts :
          \/ db.google[u] = Nil /\ db.synced[u] = Nil
          \/ db.google[u] # Nil /\ AsOf(u, First(db.google[u].token), db.synced[u])
CalendarSpec == CalendarInit /\ [][(\E r \in Requests : CredentialMove(r)) \/ AtGoogle]_vars

LEMMA CalendarInvAlways == CalendarSpec => []CalendarInv
<1>1. CalendarInit => CalendarInv
  <2> SUFFICES ASSUME CalendarInit PROVE CalendarInv
    OBVIOUS
  <2>1. \A r \in Requests : req[r] = [do |-> "none", at |-> "new", arg |-> Nil, v |-> Nil]
    BY DEF CalendarInit, CredentialInit, RequestsInit
  <2>2. \A r \in Requests : req[r].do = "none" /\ req[r].at = "new"
    BY <2>1
  <2>3. \A r \in Requests : AtPlace(r) /\ SyncReads(r) /\ SyncHolds(r)
    BY <2>2 DEF AtPlace, SyncReads, SyncHolds, Connects, CalendarPlaces, SyncPlaces, CompletePlaces, DisconnectPlaces
  <2>4. \A u : Completed(u)
    BY <2>2 DEF Completed, Doing
  <2> QED
    BY <2>3, <2>4 DEF CalendarInit, CalendarInv, Followed, Synced
<1>2. CredentialInv /\ CalendarInv /\ [(\E r \in Requests : CredentialMove(r)) \/ AtGoogle]_vars => CalendarInv'
  <2> SUFFICES ASSUME CredentialInv, CalendarInv, [(\E r \in Requests : CredentialMove(r)) \/ AtGoogle]_vars
               PROVE  CalendarInv'
    OBVIOUS
  <2>0. HistoryOK
    BY DEF CredentialInv
  <2>1. CASE \E r \in Requests : CredentialMove(r)
    BY <2>0, <2>1, CalendarInvStep
  <2>2. CASE AtGoogle
    BY <2>0, <2>2, CalendarAtGoogle
  <2>3. CASE UNCHANGED vars
    <3>1. UNCHANGED <<req, prior>> /\ db' = db
      BY <2>3 DEF vars
    <3>2. CalendarShape' /\ Grown /\ \A u \in Users : Spared(u)
      BY <3>1, CalendarShapeStays DEF CalendarInv, SameCalendar
    <3> QED
      BY <2>0, <3>1, <3>2, CalendarGrows
  <2> QED
    BY <2>1, <2>2, <2>3
<1>3. CalendarInit => CredentialInit
  BY DEF CalendarInit
<1> QED
  BY <1>1, <1>2, <1>3, CredentialInvAlways, PTL DEF CalendarSpec, CredentialSpec

\* However connections are completed, synchronised and ended, the event changed
\* at Google and sync tokens forgotten, the row of the event is never behind the
\* connection's token, and the connection is that of the last request to complete
\* one, unless a sync met another request about the connection.
THEOREM CalendarsFollow == CalendarSpec => []CalendarIsSynced
<1>1. CalendarInv => CalendarIsSynced
  <2> SUFFICES ASSUME CalendarInv, NEW u \in Accounts
               PROVE  \/ Overlaps(u)
                      \/ db.google[u] = Nil /\ db.synced[u] = Nil
                      \/ /\ db.google[u] # Nil
                         /\ \A r \in Doing("googleComplete") : At(r, "ok") /\ By(r) = u =>
                               db.google[u].grant \notin prior[r] \cup Accounts
                         /\ LET first == IF db.google[u].token = Nil THEN 0 ELSE db.google[u].token IN
                            \/ \E n \in first..Latest : db.synced[u] = Version(n)
                            \/ /\ db.relisted[u]
                               /\ \E n \in 1..first : db.change[n] = "gone" /\ db.synced[u] \in 1..(n-1)
    BY DEF CalendarIsSynced
  <2>1. Followed(u)
    BY DEF CalendarInv
  <2> QED
    BY <2>1 DEF Followed, Synced, Completed, AsOf, First
<1> QED
  BY <1>1, CalendarInvAlways, PTL

=============================================================================
