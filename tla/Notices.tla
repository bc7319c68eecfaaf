------------------------------ MODULE Notices ------------------------------
(***************************************************************************)
(* Notices: the notification run (routes/notification-jobs.ts), what tells *)
(* of comments, offers and messages (push/notify.ts and its callers), who  *)
(* is blocked (routes/blocks.ts), the devices of a user (routes/me.ts) and *)
(* the AI worker's job that stores a notice and pushes it (notify.py).     *)
(* The queue backend is Redis.  "arg.by" is the user of a request.         *)
(***************************************************************************)
EXTENDS Approvals, Sequences

CONSTANT People

Kinds == {"deadline", "reminder"}

\* What is left of a notification run, and a notice as below.
RunRecord == [kinds : SUBSET Kinds, won : SUBSET Ids]
NoticeRecord == [to : People, runs : Nat, stored : BOOLEAN, pushing : Nat, pushed : Nat]

ASSUME NoticesAssumption ==
    Nil \notin RunRecord \cup NoticeRecord /\ Ids \cap {"news", "reply"} = {}

\* A bookmarked posting whose deadline nears, or an event whose reminder is due.
Due(kind, to) == [kind |-> kind, to |-> to]
NoticeTables ==
    [due     |-> NoRows,    \* what the run's statements find, before their keys
     claimed |-> NoRows,    \* notification_dedupes: the run that took the key of each
     muted   |-> {},        \* users who turned these notices off
     blocks  |-> {},        \* user_blocks: <<blocker, blocked>>
     post    |-> NoRows,    \* posts: the author of each
     offered |-> NoRows,    \* offers, as sent: [from, to]
     device  |-> {},        \* user_devices: the users of the one token
     notice  |-> [n \in Requests \X (Ids \cup {"news", "reply"}) |-> Nil]]

\* A notice, by the request that sends it and what it is of: its job has run
\* so many times, its row is there, so many of these runs have yet to push, and
\* so many pushes were made.
NewNotice(to) == [to |-> to, runs |-> 0, stored |-> FALSE, pushing |-> 0, pushed |-> 0]

\* sendNotification.
Sent(r, of, to) == [db EXCEPT !.notice[<<r, of>>] = NewNotice(to)]

-----------------------------------------------------------------------------
(***************************************************************************)
(* runNotificationJobs.                                                    *)
(***************************************************************************)

Unclaimed(i) == db.claimed[i] = Nil
Found(kind) ==
    {i \in Ids : db.due[i] # Nil /\ db.due[i].kind = kind /\ db.due[i].to \notin db.muted /\ Unclaimed(i)}

\* The two statements are under way together.
Claim(r) ==
    /\ At(r, "notificationRun")
    /\ LET run == IF req[r].v = Nil THEN [kinds |-> Kinds, won |-> {}] ELSE req[r].v IN
       \E kind \in run.kinds :
           Do(r, IF run.kinds = {kind} THEN "tellDue" ELSE "notificationRun",
              [kinds |-> run.kinds \ {kind}, won |-> run.won \cup Found(kind)],
              [db EXCEPT !.claimed = [i \in Ids |-> IF i \in Found(kind) THEN r ELSE @[i]]])

\* One after the other, the deadlines first.
TellDue(r) ==
    /\ At(r, "tellDue")
    /\ LET won == req[r].v.won
           deadlines == {i \in won : db.due[i].kind = "deadline"} IN
       \/ won = {} /\ End(r, db)
       \/ \E i \in IF deadlines = {} THEN won ELSE deadlines :
              Do(r, "tellDue", [req[r].v EXCEPT !.won = @ \ {i}], Sent(r, i, db.due[i].to))

-----------------------------------------------------------------------------
(***************************************************************************)
(* notify: reads whether its user takes such notices, then sends.  "v" is  *)
(* who is still to be told.                                                *)
(***************************************************************************)

\* Nobody is told of what they did.
Others(r, u) == u # req[r].arg.by
Wants(u) == u \notin db.muted

Notify(r) ==
    /\ At(r, "notify")
    /\ IF req[r].v = <<>> THEN End(r, db)
       ELSE LET to == Head(req[r].v).to IN
            IF Others(r, to) /\ Wants(to) THEN GoOn(r, "send", req[r].v)
            ELSE GoOn(r, "notify", Tail(req[r].v))

Send(r) ==
    /\ At(r, "send")
    /\ LET next == Head(req[r].v) IN Do(r, "notify", Tail(req[r].v), Sent(r, next.of, next.to))

News(to) == [of |-> "news", to |-> to]

\* createComment, of a post, maybe under a comment of "parent".
CreateComment(r) ==
    /\ At(r, "createComment")
    /\ LET author == db.post[req[r].arg.id]  parent == req[r].arg.parent IN
       GoOn(r, "notify", IF parent = Nil THEN <<News(author)>>
                         ELSE <<News(author), [of |-> "reply", to |-> parent]>>)

AiDone(r) == At(r, "aiDone") /\ GoOn(r, "notify", <<News(req[r].arg.to)>>)

\* offerProfile: the profile is not public or takes no offers, or its user has
\* blocked the sender; one offer of a sender to a profile.
Blocked(r) == <<req[r].arg.to, req[r].arg.by>> \in db.blocks

OfferProfile(r) ==
    /\ At(r, "offerProfile")
    /\ Refuse(r) \/ (~Blocked(r) /\ GoOn(r, "profileOfferRow", Nil))

ProfileOfferRow(r) ==
    /\ At(r, "profileOfferRow")
    /\ LET offer == [from |-> req[r].arg.by, to |-> req[r].arg.to] IN
       IF \E o \in Ids : db.offered[o] = offer THEN Refuse(r)
       ELSE Do(r, "notify", <<News(offer.to)>>, [db EXCEPT !.offered[r] = offer])

\* postOfferMessage, to the other side of an accepted offer.
PostOfferMessage(r) ==
    /\ At(r, "postOfferMessage")
    /\ IF Blocked(r) THEN Refuse(r) ELSE GoOn(r, "messageRow", Nil)

MessageRow(r) == At(r, "messageRow") /\ GoOn(r, "notify", <<News(req[r].arg.to)>>)

-----------------------------------------------------------------------------
(***************************************************************************)
(* Blocks, preferences and devices.                                        *)
(***************************************************************************)

BlockUser(r) ==
    /\ At(r, "blockUser")
    /\ End(r, [db EXCEPT !.blocks = @ \cup {<<req[r].arg.by, req[r].arg.to>>}])

UnblockUser(r) ==
    /\ At(r, "unblockUser")
    /\ End(r, [db EXCEPT !.blocks = @ \ {<<req[r].arg.by, req[r].arg.to>>}])

\* patchSettings turns the notices of its user off.
Mute(r) == At(r, "mute") /\ End(r, [db EXCEPT !.muted = @ \cup {req[r].arg.by}])

\* One statement: the rows of other users its snapshot holds go.
RegisterDevice(r) == At(r, "registerDevice") /\ GoOn(r, "deviceRow", db.device)
OtherRows(r) == req[r].v \ {req[r].arg.by}
DeviceRow(r) ==
    /\ At(r, "deviceRow")
    /\ End(r, [db EXCEPT !.device = (@ \ OtherRows(r)) \cup {req[r].arg.by}])

DeleteDevice(r) == At(r, "deleteDevice") /\ End(r, [db EXCEPT !.device = @ \ {req[r].arg.by}])

-----------------------------------------------------------------------------
(***************************************************************************)
(* A run of the notify job: the row is stored once, and the run that has   *)
(* stored it pushes.  A run may stop anywhere, and the job is run again.   *)
(***************************************************************************)

Notices == {n \in DOMAIN db.notice : db.notice[n] # Nil}

StoresAgain(notice) == TRUE
Stores(notice) == ~notice.stored

StoreNotice(n) ==
    LET notice == db.notice[n]  told == IF Stores(notice) THEN 1 ELSE 0 IN
    /\ notice.runs < MaxTries
    /\ db' = [db EXCEPT !.notice[n] =
                [notice EXCEPT !.runs = notice.runs + 1, !.stored = TRUE, !.pushing = notice.pushing + told]]
    /\ UNCHANGED <<req, prior, mix>>

PushNotice(n) ==
    LET notice == db.notice[n] IN
    /\ notice.pushing > 0
    /\ db' = [db EXCEPT !.notice[n] =
                [notice EXCEPT !.pushing = notice.pushing - 1, !.pushed = notice.pushed + 1]]
    /\ UNCHANGED <<req, prior, mix>>

NoticeJob == "notifyJob" \in mix /\ \E n \in Notices : StoreNotice(n) \/ PushNotice(n)

-----------------------------------------------------------------------------
ArriveNotice(r) ==
    \/ Begin(r, "notificationRun", Nil)
    \/ \E by \in People :
          \/ \E i \in {j \in Ids : db.post[j] # Nil}, parent \in People \cup {Nil} :
                 Begin(r, "createComment", [by |-> by, id |-> i, parent |-> parent])
          \/ \E h \in {"offerProfile", "postOfferMessage", "blockUser", "unblockUser"}, to \in People \ {by} :
                 Begin(r, h, [by |-> by, to |-> to])
          \/ Begin(r, "aiDone", [by |-> Nil, to |-> by])
          \/ \E h \in {"mute", "registerDevice", "deleteDevice"} : Begin(r, h, [by |-> by])

NoticeStep(r) ==
    \/ ArriveNotice(r) \/ Claim(r) \/ TellDue(r) \/ Notify(r) \/ Send(r) \/ CreateComment(r) \/ AiDone(r)
    \/ OfferProfile(r) \/ ProfileOfferRow(r) \/ PostOfferMessage(r) \/ MessageRow(r) \/ BlockUser(r)
    \/ UnblockUser(r) \/ Mute(r) \/ RegisterDevice(r) \/ DeviceRow(r) \/ DeleteDevice(r)

\* The requests of a user that had ended well when r began.
Before(r, h, by) == {s \in prior[r] : Answered(s, h) /\ req[s].arg.by = by}

\* A notice reaches whom it is for, once.  What is due is told by one run, and
\* by the run that claimed it unless that was dropped; a run that ends well has
\* left nothing due unclaimed, but for users who take none.  However often its
\* job runs, a notice is pushed at most once.  Nobody is told of what began
\* after they had turned the notices off, or hears from somebody they had
\* blocked and not unblocked since; and two users share a device's token only
\* if a registration of one of them met another.
ToldOnce ==
    /\ \A i \in {j \in Ids : db.due[j] # Nil} :
          /\ Cardinality({r \in Requests : db.notice[<<r, i>>] # Nil}) <= 1
          /\ \A r \in Doing("notificationRun") :
                At(r, "ok") => /\ db.claimed[i] = r => db.notice[<<r, i>>] # Nil
                               /\ db.claimed[i] # Nil \/ db.due[i].to \in db.muted
    /\ \A n \in Notices :
          /\ db.notice[n].pushed <= 1
          /\ Before(n[1], "mute", db.notice[n].to) = {}
          /\ req[n[1]].do \in {"offerProfile", "postOfferMessage"} =>
                \A b \in Before(n[1], "blockUser", db.notice[n].to) :
                    req[b].arg.to = req[n[1]].arg.by =>
                        \E s \in Doing("unblockUser") : s \notin prior[b] /\ req[s].arg = req[b].arg
    /\ \A u, w \in db.device :
          u = w \/ \E s \in Doing("registerDevice") :
                       req[s].arg.by \in {u, w} /\ MetAny(s, {"registerDevice"})
=============================================================================
