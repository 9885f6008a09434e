----------------------------- MODULE PostRecords -----------------------------
(***************************************************************************)
(* What is on record of a post on its way to the editor, against what is   *)
(* in the chat.  The lifecycle record in state.json follows every step of  *)
(* queue, draft, media and text; rows that leave the queue undelivered are *)
(* kept in a quarantine.  Media have receipts of their own in SQLite, and  *)
(* Telegram's file ids are cached there, by address, by content and by     *)
(* Telegram's name for the file, so that a picture is not sent twice.      *)
(* Each post is a group of its own here; groups are ReviewDelivery's.      *)
(***************************************************************************)
EXTENDS Integers, FiniteSets

CONSTANTS
  Posts,        \* numbered in the order of the queue
  Items,        \* addresses of pictures and videos
  Carries,      \* Carries[p]: the items of post p, one album
  Bytes,        \* Bytes[i]: the content behind an address
  SendFaults,   \* bound on injected failures
  Retiring      \* posts whose source may leave the configuration

ASSUME RecordsAssumption ==
  /\ Posts \subseteq Nat /\ Carries \in [Posts -> SUBSET Items]
  /\ SendFaults \in Nat /\ Retiring \subseteq Posts

VARIABLES
  book,        \* the process' copy of state.json
  kept,        \* state.json
  receipts,    \* telegram_media_delivery, the recent rows
  cached,       \* telegram_media_cache
  visible,       \* content of the media in the chat
  texts,       \* posts whose text is in the chat
  trip,        \* the delivery under way
  allowed,     \* posts whose source is configured
  trouble      \* failures so far

recordVars == <<book, kept, receipts, cached, visible, texts,
                trip, allowed, trouble>>
sqlite == <<receipts, cached>>
chatSide == <<visible, texts>>

Final == {"delivered", "delivered_text_media_failed", "quarantined"}
States == Final \cup {"none", "pending_delivery", "pending_translation", "retry_pending"}
MediaStates == {"", "delivered", "partial_failed", "terminal_failed",
                "retry_pending"}

NoTrip == [step |-> "idle", batch |-> {}, left |-> {}, force |-> FALSE, at |-> 0]

(* An update's lifecycle record: its status and its media status.           *)
Unrecorded == [status |-> "none", media |-> ""]

RecordsInit ==
  /\ book = [row |-> [p \in Posts |-> Unrecorded], queue |-> {}, seen |-> {},
             drafts |-> {}, known |-> {}, quarantine |-> {}]
  /\ kept = book
  /\ receipts = {} /\ cached = {} /\ visible = {} /\ texts = {}
  /\ trip = NoTrip /\ allowed = Posts /\ trouble = 0

----------------------------------------------------------------------------
(* The record.  A media status that is not given stays.                     *)
Noted(b, P, status) == [b EXCEPT !.row = [p \in Posts |->
                          IF p \in P THEN [@[p] EXCEPT !.status = status] ELSE @[p]]]
NotedMedia(b, p, status, media) ==
  [b EXCEPT !.row[p] = [status |-> status, media |-> media]]

queue_updates(b, P) ==
  Noted([b EXCEPT !.queue = @ \cup P, !.known = @ \cup P], P \ b.seen, "pending_delivery")

(* Rows of posts already seen are dropped.                                  *)
pop_pending(b) ==
  LET rows == b.queue \ b.seen IN Noted([b EXCEPT !.queue = rows], rows, "pending_delivery")

(* The payloads of the rows of retired sources are kept.                    *)
Purged(b, P) ==
  Noted([b EXCEPT !.queue = @ \ P, !.quarantine = @ \cup P], P, "quarantined")

(* Mutant: an album that was sent in part counts as sent.                   *)
PartCounts(b, p) ==
  LET status == IF b.row[p].media = "terminal_failed"
                THEN "delivered_text_media_failed" ELSE "delivered" IN
  Noted([b EXCEPT !.seen = @ \cup {p}], {p}, status)

mark_seen(b, p) ==
  LET status == IF b.row[p].media \in {"terminal_failed", "partial_failed"}
                THEN "delivered_text_media_failed" ELSE "delivered" IN
  Noted([b EXCEPT !.seen = @ \cup {p}], {p}, status)

----------------------------------------------------------------------------
(* Identities of an item: where it is, what it is, and what Telegram calls it. *)
Url(i) == <<"url", i>>
Sha(i) == <<"sha256", Bytes[i]>>
Unique(i) == <<"telegram", Bytes[i]>>

(* Of items with identities ids[i], the ones neither delivered before nor   *)
(* standing twice in this album.                                            *)
Fresh(I, ids) ==
  {L \in SUBSET I :
     /\ \A i \in L : ids[i] \cap receipts = {} /\ \A j \in L \ {i} : ids[i] \cap ids[j] = {}
     /\ \A i \in I \ L : ids[i] \cap (receipts \cup UNION {ids[j] : j \in L}) # {}}

IdsOnceSent == [i \in Items |-> {Url(i), Unique(i)}]
IdsPrepared == [i \in Items |-> {Url(i), Sha(i)}]
AllIds == [i \in Items |-> {Url(i), Sha(i), Unique(i)}]

(* A request to Telegram: accepted and answered, accepted but the answer is *)
(* lost, or refused.  The receipts follow in SQLite, unless the process     *)
(* dies first.                                                              *)
Answered(L, ids) ==
  /\ visible' = visible \cup {Bytes[i] : i \in L}
  /\ receipts' = receipts \cup UNION {ids[i] : i \in L}
  /\ UNCHANGED <<texts, trouble>>
NoReply(L) ==
  /\ trouble < SendFaults /\ trouble' = trouble + 1 /\ UNCHANGED <<texts, receipts>>
  /\ visible' \in {visible, visible \cup {Bytes[i] : i \in L}}

(* What may be fetched of a post's media, and whether Telegram has a name   *)
(* for each of them.                                                        *)
Prepared(p) == SUBSET Carries[p]
AllCached(p) == Carries[p] \subseteq cached

----------------------------------------------------------------------------
(* What reaches the queue.  A kill before the save undoes it as if it had   *)
(* not happened.                                                            *)
Idle == trip.step = "idle"
save == kept' = book'

FindPosts ==
  /\ Idle
  /\ \E p \in allowed \ (book.seen \cup book.queue) : book' = queue_updates(book, {p})
  /\ save /\ UNCHANGED <<sqlite, chatSide, trip, allowed, trouble>>

SourceRetires ==
  /\ Idle
  /\ \E p \in Retiring \cap allowed : allowed' = allowed \ {p}
  /\ UNCHANGED <<book, kept, sqlite, chatSide, trip, trouble>>

(* A start from now on: what is queued is marked as seen.                   *)
apply_fresh_start ==
  /\ Idle /\ book.queue # {}
  /\ book' = [book EXCEPT !.seen = @ \cup book.queue, !.queue = {}]
  /\ save /\ UNCHANGED <<sqlite, chatSide, trip, allowed, trouble>>

----------------------------------------------------------------------------
(* A delivery: of the queue, or again of whatever the editor asks for.      *)
BeginTrip(b, P, force) ==
  /\ book' = Noted(b, P, "pending_translation")
  /\ trip' = IF P = {} THEN NoTrip
             ELSE [NoTrip EXCEPT !.step = "next", !.batch = P, !.left = P, !.force = force]

deliver_pending ==
  /\ Idle /\ book.queue # {}
  /\ LET b == pop_pending(Purged(book, book.queue \ allowed)) IN BeginTrip(b, b.queue, FALSE)
  /\ UNCHANGED <<kept, sqlite, chatSide, allowed, trouble>>

deliver_requested ==
  /\ Idle
  /\ \E P \in SUBSET (allowed \cap book.known) \ {{}} : BeginTrip(book, P, TRUE)
  /\ UNCHANGED <<kept, sqlite, chatSide, allowed, trouble>>

(* Groups come in the order of their events, which is not the queue's.  A   *)
(* draft is reused, except by a forced delivery; without a translation the  *)
(* post is passed over.                                                     *)
ResumedDraft(p) == ~trip.force /\ p \in book.drafts

PassOver ==
  /\ trip.step = "next"
  /\ \E p \in trip.left :
       /\ ~ResumedDraft(p)
       /\ trip' = [trip EXCEPT !.left = @ \ {p}]
  /\ UNCHANGED <<book, kept, sqlite, chatSide, allowed, trouble>>

PrepareDraft ==
  /\ trip.step = "next"
  /\ \E p \in trip.left :
       /\ book' = IF ResumedDraft(p) THEN book
                  ELSE Noted([book EXCEPT !.drafts = IF trip.force THEN @ ELSE @ \cup {p}],
                             {p}, "pending_delivery")
       /\ trip' = [trip EXCEPT !.at = p, !.left = @ \ {p},
                               !.step = IF Carries[p] = {} THEN "text"
                                        ELSE IF AllCached(p) THEN "cached" ELSE "prepare"]
  /\ save /\ UNCHANGED <<sqlite, chatSide, allowed, trouble>>

EndDelivery ==
  /\ (trip.step = "next" /\ trip.left = {}) \/ trip.step = "failed"
  /\ trip' = NoTrip
  /\ UNCHANGED book /\ save
  /\ UNCHANGED <<sqlite, chatSide, allowed, trouble>>

(* The failure is noted at the first post of the batch that is not seen.    *)
NotedAtFirst(b) ==
  LET unseen == trip.batch \ b.seen
      first == CHOOSE p \in unseen : \A q \in unseen : p <= q IN
  IF unseen = {} THEN b ELSE Noted(b, {first}, "retry_pending")

Failed(b) ==
  book' = NotedAtFirst(b) /\ trip' = [trip EXCEPT !.step = "failed"]

----------------------------------------------------------------------------
(* The media of a post.  The note that they are pending is overwritten by   *)
(* their outcome before anything is saved.                                  *)
MediaDone(status) ==
  /\ book' = NotedMedia(book, trip.at, "pending_delivery", status)
  /\ trip' = [trip EXCEPT !.step = "text"]

(* Telegram knows every file: they are sent by name.  If that fails their   *)
(* names are forgotten and the files themselves are sent.                   *)
SendCached ==
  /\ trip.step = "cached"
  /\ \E L \in Fresh(Carries[trip.at], IdsOnceSent) :
       \/ /\ IF L = {} THEN UNCHANGED <<receipts, chatSide, trouble>> ELSE Answered(L, IdsOnceSent)
          /\ MediaDone("delivered") /\ UNCHANGED cached
       \/ /\ L # {} /\ NoReply(L) /\ cached' = cached \ L
          /\ trip' = [trip EXCEPT !.step = "prepare"] /\ UNCHANGED book
  /\ UNCHANGED <<kept, allowed>>

(* The files that can be fetched are sent.  A refusal for good leaves the   *)
(* text; another failure ends the delivery; the job may be killed with the  *)
(* album accepted.                                                         *)
Upload ==
  /\ trip.step = "prepare"
  /\ \E fetched \in Prepared(trip.at) : \E L \in Fresh(fetched, IdsPrepared) :
       LET whole == IF fetched = Carries[trip.at] THEN "delivered" ELSE "partial_failed" IN
       \/ /\ L = {} /\ UNCHANGED <<kept, sqlite, chatSide, trouble>>
          /\ MediaDone(IF L # fetched THEN whole ELSE "terminal_failed")
       \/ /\ L # {} /\ Answered(L, AllIds) /\ cached' = cached \cup L
          /\ MediaDone(whole) /\ UNCHANGED kept
       \/ /\ L # {} /\ trouble < SendFaults /\ trouble' = trouble + 1
          /\ MediaDone("terminal_failed") /\ UNCHANGED <<kept, sqlite, chatSide>>
       \/ /\ L # {} /\ NoReply(L) /\ UNCHANGED <<cached, kept>>
          /\ \/ Failed(NotedMedia(book, trip.at, "retry_pending", "retry_pending"))
             \/ book' = kept /\ trip' = NoTrip
  /\ UNCHANGED allowed

(* The text ends the delivery of the post.                                  *)
SendText ==
  /\ trip.step = "text"
  /\ texts' = texts \cup {trip.at} /\ book' = mark_seen(book, trip.at) /\ save
  /\ trip' = [trip EXCEPT !.step = "next", !.at = 0]
  /\ UNCHANGED <<sqlite, visible, allowed, trouble>>

TextFails ==
  /\ trip.step = "text" /\ trouble < SendFaults /\ trouble' = trouble + 1
  /\ texts' \in {texts, texts \cup {trip.at}}
  /\ Failed(Noted(book, {trip.at}, "pending_delivery"))
  /\ UNCHANGED <<kept, sqlite, visible, allowed>>

----------------------------------------------------------------------------
(* The job is killed, perhaps with a text just accepted.                    *)
Kill ==
  /\ trouble < SendFaults /\ trouble' = trouble + 1
  /\ ~Idle /\ book' = kept /\ trip' = NoTrip
  /\ UNCHANGED texts \/ (trip.step = "text" /\ texts' = texts \cup {trip.at})
  /\ UNCHANGED <<kept, sqlite, visible, allowed>>

(* Three days pass: the receipts no longer hold anything back.              *)
ReceiptsLapse ==
  /\ Idle /\ receipts # {} /\ receipts' = {}
  /\ trouble < SendFaults /\ trouble' = trouble + 1
  /\ UNCHANGED <<book, kept, cached, chatSide, trip, allowed>>

RecordsNext ==
  \/ FindPosts \/ SourceRetires \/ apply_fresh_start
  \/ deliver_pending \/ deliver_requested \/ PassOver \/ PrepareDraft \/ EndDelivery
  \/ SendCached \/ Upload \/ SendText \/ TextFails
  \/ Kill \/ ReceiptsLapse

RecordsSpec == RecordsInit /\ [][RecordsNext]_recordVars

----------------------------------------------------------------------------
(* Properties.                                                              *)
RecordsTypes ==
  /\ \A b \in {book, kept} :
       /\ b.row \in [Posts -> [status : States, media : MediaStates]]
       /\ b.queue \cup b.seen \cup b.drafts \cup b.quarantine \subseteq b.known
  /\ trip.left \subseteq Posts /\ trip.at \in Posts \cup {0}

(* Whatever fails, is killed or is asked for again, the record and its copy *)
(* on disk never claim too much: a delivered post is in the chat with all   *)
(* its media, or is said to lack some; a post that left the queue unseen is *)
(* kept in quarantine; one still queued has no final status.                *)
RecordsAreHonest ==
  \A b \in {book, kept} : \A p \in b.known :
    LET status == b.row[p].status IN
    /\ status = "delivered" => p \in texts /\ {Bytes[i] : i \in Carries[p]} \subseteq visible
    /\ status = "delivered_text_media_failed" => p \in texts
    /\ p \notin b.seen \cup b.queue => p \in b.quarantine
    /\ p \in b.queue \ b.seen => status \notin Final

(* The failure of a delivery is on record at the post it happened to.       *)
FailureIsNoted == trip.step = "failed" => book.row[trip.at].status = "retry_pending"
=============================================================================
