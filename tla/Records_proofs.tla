---------------------------- MODULE Records_proofs ----------------------------
(***************************************************************************)
(* Theorems about the records the bot keeps of what it did and of what the *)
(* editor decided: the lifecycle records of posts, the final texts and     *)
(* what they teach, what the nightly digests have sent and were given      *)
(* summaries for, and the desk the drafts are decided on.                  *)
(***************************************************************************)
EXTENDS PostRecords, FinalEdit, VoiceCalibration, FanficDigest, FanficSummaries, EditorDesk,
        FiniteSetTheorems, FunctionTheorems, SequenceTheorems, NaturalsInduction, WellFoundedInduction,
        TLAPS

----------------------------------------------------------------------------
(* Lifecycle records (PostRecords).                                        *)

BookRow == [status : States, media : MediaStates]
Book == [row : [Posts -> BookRow], queue : SUBSET Posts, seen : SUBSET Posts,
         drafts : SUBSET Posts, known : SUBSET Posts, quarantine : SUBSET Posts]

(* Every set of a book is about posts the bot has found.                   *)
Within(b) == b.queue \cup b.seen \cup b.drafts \cup b.quarantine \subseteq b.known

(* What RecordsAreHonest says of a post in a book, with these texts and    *)
(* these media in the chat.                                                *)
HonestRow(b, p, T, V) ==
  /\ b.row[p].status = "delivered" => p \in T /\ {Bytes[i] : i \in Carries[p]} \subseteq V
  /\ b.row[p].status = "delivered_text_media_failed" => p \in T
  /\ p \notin b.seen \cup b.queue => p \in b.quarantine
  /\ p \in b.queue \ b.seen => b.row[p].status \notin Final

Honest(b, T, V) == b \in Book /\ Within(b) /\ \A p \in b.known : HonestRow(b, p, T, V)

(* A receipt of an item stands for content that is in the chat.            *)
ReceiptsSound ==
  \A i \in Items : AllIds[i] \cap receipts # {} => Bytes[i] \in visible

(* A delivery is about posts the book knows, and when it comes to a post's *)
(* text, its media are in the chat or are on record as failed.             *)
Steps == {"idle", "next", "cached", "prepare", "text", "failed"}
Trip == [step : Steps, batch : SUBSET Posts, left : SUBSET Posts, force : BOOLEAN,
         at : Posts \cup {0}]

TripSound ==
  /\ trip \in Trip /\ trip.left \subseteq book.known
  /\ trip.step \in {"cached", "prepare", "text"} => trip.at \in book.known
  /\ trip.step = "text" =>
       \/ book.row[trip.at].media \in {"terminal_failed", "partial_failed"}
       \/ {Bytes[i] : i \in Carries[trip.at]} \subseteq visible

RecordsInv ==
  /\ Honest(book, texts, visible) /\ Honest(kept, texts, visible)
  /\ ReceiptsSound /\ TripSound /\ allowed \subseteq Posts

(* An album all of whose items were sent, or held back by a receipt or a   *)
(* twin that was sent, is in the chat.                                     *)
LEMMA AlbumVisible ==
  ASSUME ReceiptsSound, NEW I \in SUBSET Items, NEW ids,
         ids \in {IdsOnceSent, IdsPrepared}, NEW L \in Fresh(I, ids)
  PROVE  {Bytes[i] : i \in I} \subseteq visible \cup {Bytes[i] : i \in L}
<1> SUFFICES ASSUME NEW i \in I PROVE Bytes[i] \in visible \cup {Bytes[j] : j \in L}
  OBVIOUS
<1>1. \A j \in Items : ids[j] \subseteq AllIds[j]
  BY DEF IdsOnceSent, IdsPrepared, AllIds
<1>2. CASE i \notin L
  <2>1. PICK x \in ids[i] : x \in receipts \/ \E j \in L : x \in ids[j]
    BY <1>2 DEF Fresh
  <2>2. CASE x \in receipts
    BY <1>1, <2>1, <2>2 DEF ReceiptsSound
  <2>3. ASSUME NEW j \in L, x \in ids[j] PROVE Bytes[i] = Bytes[j]
    <3>1. i \in Items /\ j \in Items
      BY DEF Fresh
    <3>2. QED
      BY <2>1, <2>3, <3>1 DEF IdsOnceSent, IdsPrepared, Url, Sha, Unique
  <2>4. QED
    BY <2>1, <2>2, <2>3
<1>3. QED
  BY <1>2

(* What was accepted and answered is in the chat under all its names.      *)
LEMMA AnsweredSound ==
  ASSUME ReceiptsSound, NEW L \in SUBSET Items, NEW ids, ids \in {IdsOnceSent, AllIds},
         Answered(L, ids)
  PROVE  ReceiptsSound'
<1> SUFFICES ASSUME NEW i \in Items, NEW x \in AllIds[i], x \in receipts'
             PROVE  Bytes[i] \in visible'
  BY DEF ReceiptsSound, AllIds
<1>1. visible' = visible \cup {Bytes[j] : j \in L}
  BY DEF Answered
<1>2. CASE x \in receipts
  BY <1>1, <1>2 DEF ReceiptsSound
<1>3. ASSUME NEW j \in L, x \in ids[j] PROVE Bytes[i] = Bytes[j]
  BY <1>3 DEF IdsOnceSent, AllIds, Url, Sha, Unique
<1>4. QED
  BY <1>1, <1>2, <1>3 DEF Answered

LEMMA NotedSound ==
  ASSUME NEW b, NEW P, NEW s, b \in Book, Within(b), s \in States
  PROVE  /\ Noted(b, P, s) \in Book /\ Within(Noted(b, P, s))
         /\ Noted(b, P, s).known = b.known /\ Noted(b, P, s).seen = b.seen
         /\ Noted(b, P, s).queue = b.queue /\ Noted(b, P, s).quarantine = b.quarantine
         /\ Noted(b, P, s).drafts = b.drafts
         /\ \A p \in Posts :
              /\ Noted(b, P, s).row[p].status = IF p \in P THEN s ELSE b.row[p].status
              /\ Noted(b, P, s).row[p].media = b.row[p].media
<1> DEFINE rows == [p \in Posts |-> IF p \in P THEN [b.row[p] EXCEPT !.status = s] ELSE b.row[p]]
<1>1. /\ rows \in [Posts -> BookRow]
      /\ \A p \in Posts : /\ rows[p].status = IF p \in P THEN s ELSE b.row[p].status
                          /\ rows[p].media = b.row[p].media
  <2>1. ASSUME NEW p \in Posts
        PROVE  /\ b.row[p] \in BookRow /\ [b.row[p] EXCEPT !.status = s] \in BookRow
               /\ [b.row[p] EXCEPT !.status = s].status = s
               /\ [b.row[p] EXCEPT !.status = s].media = b.row[p].media
    BY DEF Book, BookRow
  <2>2. QED
    BY <2>1
<1>2. Noted(b, P, s) = [b EXCEPT !.row = rows]
  BY DEF Noted
<1> HIDE DEF rows
<1>3. QED
  BY <1>1, <1>2 DEF Book, Within
(* A book stays honest when more is in the chat.                           *)
LEMMA HonestGrows ==
  ASSUME NEW b, NEW T, NEW V, NEW T2, NEW V2, T \subseteq T2, V \subseteq V2, Honest(b, T, V)
  PROVE  Honest(b, T2, V2)
BY DEF Honest, HonestRow

(* A status that is not final may be noted of any post.                    *)
LEMMA NotedHonest ==
  ASSUME NEW b, NEW T, NEW V, NEW P, NEW s,
         Honest(b, T, V), s \in States \ Final
  PROVE  Honest(Noted(b, P, s), T, V) /\ Noted(b, P, s).known = b.known
<1> DEFINE n == Noted(b, P, s)
<1>1. /\ n \in Book /\ Within(n) /\ n.known = b.known /\ n.seen = b.seen
      /\ n.queue = b.queue /\ n.quarantine = b.quarantine
      /\ \A p \in Posts : n.row[p].status = IF p \in P THEN s ELSE b.row[p].status
  <2>1. b \in Book /\ Within(b) /\ s \in States
    BY DEF Honest
  <2>2. QED
    BY <2>1, NotedSound
<1>2. b.known \subseteq Posts
  BY DEF Honest, Book
<1> HIDE DEF n
<1>3. ASSUME NEW p \in b.known PROVE HonestRow(n, p, T, V)
  <2>1. HonestRow(b, p, T, V) /\ n.row[p].status = IF p \in P THEN s ELSE b.row[p].status
    BY <1>1, <1>2 DEF Honest
  <2>2. s \notin Final /\ s # "delivered" /\ s # "delivered_text_media_failed"
    BY DEF Final
  <2>3. QED
    BY <1>1, <2>1, <2>2 DEF HonestRow
<1>4. QED
  BY <1>1, <1>3 DEF Honest, n

LEMMA NotedMediaHonest ==
  ASSUME NEW b, NEW T, NEW V, NEW q, NEW s, NEW m,
         Honest(b, T, V), q \in Posts, s \in States \ Final, m \in MediaStates
  PROVE  /\ Honest(NotedMedia(b, q, s, m), T, V)
         /\ NotedMedia(b, q, s, m).known = b.known
         /\ NotedMedia(b, q, s, m).row[q].media = m
<1> DEFINE n == NotedMedia(b, q, s, m)
<1>1. /\ n.known = b.known /\ n.seen = b.seen /\ n.queue = b.queue
      /\ n.quarantine = b.quarantine /\ n.drafts = b.drafts
      /\ n.row = [b.row EXCEPT ![q] = [status |-> s, media |-> m]]
  BY DEF NotedMedia, Honest, Book
<1>2. n \in Book /\ Within(n)
  BY DEF NotedMedia, Honest, Book, Within, BookRow
<1>3. b.known \subseteq Posts /\ b.row \in [Posts -> BookRow]
  BY DEF Honest, Book
<1> HIDE DEF n
<1>4. ASSUME NEW p \in b.known PROVE HonestRow(n, p, T, V)
  <2>1. HonestRow(b, p, T, V) /\ n.row[p].status = IF p = q THEN s ELSE b.row[p].status
    BY <1>1, <1>3 DEF Honest
  <2>2. s \notin Final /\ s # "delivered" /\ s # "delivered_text_media_failed"
    BY DEF Final
  <2>3. QED
    BY <1>1, <2>1, <2>2 DEF HonestRow
<1>5. n.row[q].media = m
  BY <1>1, <1>3
<1>6. QED
  BY <1>1, <1>2, <1>4, <1>5 DEF Honest, n

(* Queueing, the end of a delivery, the removal of a retired source's rows *)
(* and of rows already seen.                                               *)
LEMMA QueuedHonest ==
  ASSUME NEW b, NEW T, NEW V, NEW q, Honest(b, T, V), q \in Posts, q \notin b.seen
  PROVE  Honest(queue_updates(b, {q}), T, V) /\ b.known \subseteq queue_updates(b, {q}).known
<1> DEFINE c == [b EXCEPT !.queue = @ \cup {q}, !.known = @ \cup {q}]
           n == queue_updates(b, {q})
<1>1. /\ c \in Book /\ Within(c) /\ c.row = b.row /\ c.seen = b.seen
      /\ c.queue = b.queue \cup {q} /\ c.known = b.known \cup {q}
      /\ c.quarantine = b.quarantine
  BY DEF Honest, Book, Within
<1>2. n = Noted(c, {q}, "pending_delivery")
  <2>1. {q} \ b.seen = {q}
    OBVIOUS
  <2>2. QED
    BY <2>1 DEF queue_updates
<1> HIDE DEF c, n
<1>3. /\ n \in Book /\ Within(n) /\ n.known = c.known /\ n.seen = c.seen
      /\ n.queue = c.queue /\ n.quarantine = c.quarantine
      /\ \A p \in Posts :
           n.row[p].status = IF p \in {q} THEN "pending_delivery" ELSE c.row[p].status
  <2>1. {q} \subseteq Posts /\ "pending_delivery" \in States
    BY DEF States
  <2>2. QED
    BY <1>1, <1>2, <2>1, NotedSound
<1>4. ASSUME NEW p \in n.known PROVE HonestRow(n, p, T, V)
  <2>1. p \in Posts
    BY <1>3 DEF Book
  <2>2. CASE p = q
    BY <1>1, <1>3, <2>1, <2>2 DEF HonestRow, Final
  <2>3. CASE p # q
    <3>1. HonestRow(b, p, T, V)
      BY <1>1, <1>3, <2>3 DEF Honest
    <3>2. QED
      BY <1>1, <1>3, <2>1, <2>3, <3>1 DEF HonestRow
  <2>4. QED
    BY <2>2, <2>3
<1>5. QED
  BY <1>1, <1>3, <1>4 DEF Honest, n

LEMMA SeenHonest ==
  ASSUME NEW b, NEW T, NEW V, NEW q, Honest(b, T, V), q \in b.known, q \in T,
         \/ b.row[q].media \in {"terminal_failed", "partial_failed"}
         \/ {Bytes[i] : i \in Carries[q]} \subseteq V
  PROVE  Honest(mark_seen(b, q), T, V)
<1> DEFINE s == IF b.row[q].media \in {"terminal_failed", "partial_failed"}
                THEN "delivered_text_media_failed" ELSE "delivered"
           c == [b EXCEPT !.seen = @ \cup {q}]
           n == mark_seen(b, q)
<1>1. /\ c \in Book /\ Within(c) /\ c.row = b.row /\ c.seen = b.seen \cup {q}
      /\ c.queue = b.queue /\ c.known = b.known /\ c.quarantine = b.quarantine
      /\ q \in Posts
  BY DEF Honest, Book, Within
<1>2. n = Noted(c, {q}, s) /\ s \in States
  BY DEF mark_seen, States, Final
<1>3. s = "delivered" => {Bytes[i] : i \in Carries[q]} \subseteq V
  OBVIOUS
<1> HIDE DEF c, n, s
<1>4. /\ n \in Book /\ Within(n) /\ n.known = c.known /\ n.seen = c.seen
      /\ n.queue = c.queue /\ n.quarantine = c.quarantine
      /\ \A p \in Posts : n.row[p].status = IF p \in {q} THEN s ELSE c.row[p].status
  <2>1. {q} \subseteq Posts
    BY <1>1
  <2>2. QED
    BY <1>1, <1>2, <2>1, NotedSound
<1>5. ASSUME NEW p \in n.known PROVE HonestRow(n, p, T, V)
  <2>1. p \in Posts /\ HonestRow(b, p, T, V)
    BY <1>1, <1>4 DEF Book, Honest
  <2>2. CASE p = q
    BY <1>1, <1>3, <1>4, <2>1, <2>2 DEF HonestRow
  <2>3. CASE p # q
    BY <1>1, <1>4, <2>1, <2>3 DEF HonestRow
  <2>4. QED
    BY <2>2, <2>3
<1>6. QED
  BY <1>4, <1>5 DEF Honest, n

LEMMA PurgedHonest ==
  ASSUME NEW b, NEW T, NEW V, NEW P, Honest(b, T, V), P \subseteq b.queue
  PROVE  Honest(Purged(b, P), T, V) /\ Purged(b, P).known = b.known
<1> DEFINE c == [b EXCEPT !.queue = @ \ P, !.quarantine = @ \cup P]
           n == Purged(b, P)
<1>1. /\ c \in Book /\ Within(c) /\ c.row = b.row /\ c.seen = b.seen
      /\ c.queue = b.queue \ P /\ c.known = b.known /\ c.quarantine = b.quarantine \cup P
      /\ P \subseteq Posts
  BY DEF Honest, Book, Within
<1>2. n = Noted(c, P, "quarantined") /\ "quarantined" \in States
  BY DEF Purged, States, Final
<1> HIDE DEF c, n
<1>3. /\ n \in Book /\ Within(n) /\ n.known = c.known /\ n.seen = c.seen
      /\ n.queue = c.queue /\ n.quarantine = c.quarantine
      /\ \A p \in Posts :
           n.row[p].status = IF p \in P THEN "quarantined" ELSE c.row[p].status
  BY <1>1, <1>2, NotedSound
<1>4. ASSUME NEW p \in n.known PROVE HonestRow(n, p, T, V)
  <2>1. p \in Posts /\ HonestRow(b, p, T, V)
    BY <1>1, <1>3 DEF Book, Honest
  <2>2. QED
    BY <1>1, <1>3, <2>1 DEF HonestRow
<1>5. QED
  BY <1>1, <1>3, <1>4 DEF Honest, n

LEMMA PoppedHonest ==
  ASSUME NEW b, NEW T, NEW V, Honest(b, T, V)
  PROVE  Honest(pop_pending(b), T, V) /\ pop_pending(b).queue \subseteq Posts
         /\ pop_pending(b).queue \subseteq b.known /\ pop_pending(b).known = b.known
<1> DEFINE rows == b.queue \ b.seen
           c == [b EXCEPT !.queue = rows]
<1>1. /\ c \in Book /\ Within(c) /\ c.row = b.row /\ c.seen = b.seen
      /\ c.queue = rows /\ c.known = b.known /\ c.quarantine = b.quarantine
      /\ rows \subseteq Posts /\ rows \subseteq b.known
  BY DEF Honest, Book, Within
<1>2. \A p \in c.known : HonestRow(b, p, T, V)
  BY <1>1 DEF Honest
<1>3. \A p \in c.known : HonestRow(c, p, T, V)
  BY <1>1, <1>2 DEF HonestRow
<1>4. Honest(c, T, V)
  BY <1>1, <1>3 DEF Honest
<1>5. pop_pending(b) = Noted(c, rows, "pending_delivery")
        /\ "pending_delivery" \in States \ Final
  BY DEF pop_pending, States, Final
<1> HIDE DEF c
<1>6. rows \subseteq Posts
  BY <1>1
<1> HIDE DEF rows
<1>7. Honest(pop_pending(b), T, V)
  BY <1>4, <1>5, <1>6, NotedHonest
<1>8. pop_pending(b).queue = c.queue /\ pop_pending(b).known = c.known
  <2>1. "pending_delivery" \in States
    BY DEF States
  <2>2. QED
    BY <1>1, <1>5, <1>6, <2>1, NotedSound
<1>9. QED
  BY <1>1, <1>6, <1>7, <1>8
LEMMA FreshType ==
  ASSUME NEW I, NEW ids, NEW L \in Fresh(I, ids)
  PROVE  L \subseteq I
BY DEF Fresh

(* A failure's note at the first unseen post of the batch.                 *)
LEMMA NotedAtFirstHonest ==
  ASSUME NEW b, NEW T, NEW V, Honest(b, T, V)
  PROVE  Honest(NotedAtFirst(b), T, V) /\ NotedAtFirst(b).known = b.known
<1>1. "retry_pending" \in States \ Final
  BY DEF States, Final
<1>2. \A q : Honest(Noted(b, {q}, "retry_pending"), T, V)
             /\ Noted(b, {q}, "retry_pending").known = b.known
  BY <1>1, NotedHonest
<1>3. NotedAtFirst(b) = b \/ \E q : NotedAtFirst(b) = Noted(b, {q}, "retry_pending")
  BY DEF NotedAtFirst
<1>4. QED
  BY <1>2, <1>3

LEMMA InitRecords == RecordsInit => RecordsInv
<1> SUFFICES ASSUME RecordsInit PROVE RecordsInv
  OBVIOUS
<1>1. Unrecorded \in BookRow
  BY DEF Unrecorded, BookRow, States, MediaStates
<1>2. book \in Book /\ Within(book) /\ book.known = {} /\ kept = book
  BY <1>1 DEF RecordsInit, Book, Within
<1>3. Honest(book, texts, visible) /\ Honest(kept, texts, visible)
  BY <1>2 DEF Honest
<1>4. TripSound
  BY DEF RecordsInit, TripSound, NoTrip, Trip, Steps
<1>5. QED
  BY <1>3, <1>4 DEF RecordsInit, RecordsInv, ReceiptsSound

LEMMA NextRecords == RecordsInv /\ [RecordsNext]_recordVars => RecordsInv'
<1> SUFFICES ASSUME RecordsInv, [RecordsNext]_recordVars PROVE RecordsInv'
  OBVIOUS
<1>a. /\ Honest(book, texts, visible) /\ Honest(kept, texts, visible)
      /\ ReceiptsSound /\ TripSound /\ allowed \subseteq Posts
      /\ book.known \subseteq Posts /\ trip \in Trip /\ trip.left \subseteq book.known
  BY DEF RecordsInv, Honest, Book, TripSound
<1>b. {"pending_delivery", "pending_translation", "retry_pending"} \subseteq States \ Final
  BY DEF States, Final
<1>c. /\ "" \in MediaStates /\ "delivered" \in MediaStates /\ "partial_failed" \in MediaStates
      /\ "terminal_failed" \in MediaStates /\ "retry_pending" \in MediaStates
  BY DEF MediaStates
<1>g. ASSUME ReceiptsSound', texts \subseteq texts', visible \subseteq visible',
             Honest(book', texts, visible), kept' \in {kept, book'}, TripSound',
             UNCHANGED allowed
      PROVE  RecordsInv'
  <2>1. Honest(book', texts', visible') /\ Honest(kept', texts', visible')
    BY <1>a, <1>g, HonestGrows
  <2>2. QED
    BY <1>a, <1>g, <2>1 DEF RecordsInv
<1>h. UNCHANGED receipts /\ visible \subseteq visible' => ReceiptsSound'
  BY <1>a DEF ReceiptsSound
<1>d. ASSUME UNCHANGED <<receipts, texts, visible>>,
             Honest(book', texts, visible), kept' \in {kept, book'}, TripSound',
             allowed' \subseteq Posts
      PROVE  RecordsInv'
  BY <1>a, <1>d, <1>h DEF RecordsInv
<1>e. NoTrip \in Trip /\ NoTrip.left = {} /\ NoTrip.step = "idle"
  BY DEF NoTrip, Trip, Steps
<1>f. trip' = NoTrip => TripSound'
  BY <1>e DEF TripSound
<1>1. CASE FindPosts
  <2>1. PICK p \in allowed \ (book.seen \cup book.queue) : book' = queue_updates(book, {p})
    BY <1>1 DEF FindPosts
  <2>2. p \in Posts /\ p \notin book.seen
    BY <1>a, <2>1
  <2>3. Honest(book', texts, visible) /\ book.known \subseteq book'.known
    BY <1>a, <2>1, <2>2, QueuedHonest
  <2>4. TripSound'
    BY <1>1, <1>a, <2>3 DEF FindPosts, Idle, TripSound
  <2>5. QED
    BY <1>1, <1>a, <1>d, <2>3, <2>4 DEF FindPosts, save, sqlite, chatSide
<1>2. CASE SourceRetires
  BY <1>2, <1>a, <1>d DEF SourceRetires, TripSound, sqlite, chatSide
<1>3. CASE apply_fresh_start
  <2>1. book' = [book EXCEPT !.seen = @ \cup book.queue, !.queue = {}]
    BY <1>3 DEF apply_fresh_start
  <2>2. /\ book' \in Book /\ Within(book') /\ book'.row = book.row /\ book'.known = book.known
        /\ book'.seen = book.seen \cup book.queue /\ book'.queue = {}
        /\ book'.quarantine = book.quarantine
    BY <1>a, <2>1 DEF Honest, Book, Within
  <2>3. ASSUME NEW p \in book'.known PROVE HonestRow(book', p, texts, visible)
    <3>1. HonestRow(book, p, texts, visible)
      BY <1>a, <2>2, <2>3 DEF Honest
    <3>2. QED
      BY <2>2, <3>1 DEF HonestRow
  <2>4. TripSound'
    BY <1>3, <1>a, <2>2 DEF apply_fresh_start, Idle, TripSound
  <2>5. QED
    BY <1>3, <1>a, <1>d, <2>2, <2>3, <2>4 DEF apply_fresh_start, Honest, save, sqlite, chatSide
<1>4. ASSUME NEW b, Honest(b, texts, visible), b.known = book.known,
             NEW P, P \subseteq b.known, NEW f \in BOOLEAN, BeginTrip(b, P, f),
             UNCHANGED <<kept, sqlite, chatSide, allowed>>
      PROVE  RecordsInv'
  <2>1. Honest(book', texts, visible) /\ book'.known = book.known
    BY <1>4, <1>b, NotedHonest DEF BeginTrip
  <2>2. TripSound'
    <3>1. CASE trip' = NoTrip
      BY <1>f, <3>1
    <3>2. CASE trip' = [NoTrip EXCEPT !.step = "next", !.batch = P, !.left = P, !.force = f]
      <4>1. P \subseteq Posts
        BY <1>4, <1>a
      <4>2. trip' \in Trip /\ trip'.left = P /\ trip'.step = "next"
        BY <1>4, <3>2, <4>1 DEF NoTrip, Trip, Steps
      <4>3. QED
        BY <1>4, <2>1, <4>2 DEF TripSound
    <3>3. QED
      BY <1>4, <3>1, <3>2 DEF BeginTrip
  <2>3. QED
    BY <1>4, <1>a, <1>d, <2>1, <2>2 DEF sqlite, chatSide
<1>5. CASE deliver_pending
  <2> DEFINE c == Purged(book, book.queue \ allowed)
             b == pop_pending(c)
  <2>1. Honest(c, texts, visible) /\ c.known = book.known
    BY <1>a, PurgedHonest
  <2> HIDE DEF c
  <2>2. Honest(b, texts, visible) /\ b.known = book.known /\ b.queue \subseteq b.known
    BY <2>1, PoppedHonest
  <2>3. BeginTrip(b, b.queue, FALSE) /\ UNCHANGED <<kept, sqlite, chatSide, allowed>>
    BY <1>5 DEF deliver_pending, c
  <2> HIDE DEF b
  <2>4. QED
    BY <1>4, <2>2, <2>3
<1>6. CASE deliver_requested
  <2>1. PICK P \in SUBSET (allowed \cap book.known) \ {{}} : BeginTrip(book, P, TRUE)
    BY <1>6 DEF deliver_requested
  <2>2. P \subseteq book.known /\ UNCHANGED <<kept, sqlite, chatSide, allowed>>
    BY <1>6, <2>1 DEF deliver_requested
  <2>3. QED
    BY <1>4, <1>a, <2>1, <2>2
<1>7. CASE PassOver
  <2>1. PICK p \in trip.left : trip' = [trip EXCEPT !.left = @ \ {p}]
    BY <1>7 DEF PassOver
  <2>2. trip' \in Trip /\ trip'.left = trip.left \ {p} /\ trip'.step = "next"
    BY <1>7, <1>a, <2>1 DEF PassOver, Trip
  <2>3. TripSound'
    BY <1>7, <1>a, <2>2 DEF PassOver, TripSound
  <2>4. QED
    BY <1>7, <1>a, <1>d, <2>3 DEF PassOver, sqlite, chatSide
<1>8. CASE PrepareDraft
  <2>1. PICK p \in trip.left :
       /\ book' = IF ResumedDraft(p) THEN book
                  ELSE Noted([book EXCEPT !.drafts = IF trip.force THEN @ ELSE @ \cup {p}],
                             {p}, "pending_delivery")
       /\ trip' = [trip EXCEPT !.at = p, !.left = @ \ {p},
                               !.step = IF Carries[p] = {} THEN "text"
                                        ELSE IF AllCached(p) THEN "cached" ELSE "prepare"]
    BY <1>8 DEF PrepareDraft
  <2> DEFINE c == [book EXCEPT !.drafts = IF trip.force THEN @ ELSE @ \cup {p}]
  <2>2. Honest(c, texts, visible) /\ c.known = book.known
    <3>1. /\ c \in Book /\ Within(c) /\ c.row = book.row /\ c.known = book.known
          /\ c.seen = book.seen /\ c.queue = book.queue /\ c.quarantine = book.quarantine
      BY <1>a DEF Honest, Book, Within
    <3> HIDE DEF c
    <3>2. QED
      BY <1>a, <3>1 DEF Honest, HonestRow
  <2>3. book' = book \/ book' = Noted(c, {p}, "pending_delivery")
    BY <2>1
  <2> HIDE DEF c
  <2>4. Honest(book', texts, visible) /\ book'.known = book.known
    BY <1>a, <1>b, <2>2, <2>3, NotedHonest
  <2>5. /\ trip' \in Trip /\ trip'.left = trip.left \ {p} /\ trip'.at = p
        /\ trip'.step = "text" => Carries[p] = {}
    BY <1>a, <2>1 DEF Trip, Steps
  <2>6. trip'.step = "text" => {Bytes[i] : i \in Carries[trip'.at]} = {}
    BY <2>5
  <2>7. TripSound'
    BY <1>a, <2>4, <2>5, <2>6 DEF TripSound
  <2>8. QED
    BY <1>8, <1>a, <1>d, <2>4, <2>7 DEF PrepareDraft, save, sqlite, chatSide
<1>9. CASE EndDelivery
  BY <1>9, <1>a, <1>d, <1>f DEF EndDelivery, save, sqlite, chatSide
\* The outcome of an album is noted, and it is true.
<1>10. ASSUME trip.step \in {"cached", "prepare"}, NEW m \in MediaStates, MediaDone(m),
              \/ m \in {"terminal_failed", "partial_failed"}
              \/ {Bytes[i] : i \in Carries[trip.at]} \subseteq visible'
       PROVE  Honest(book', texts, visible) /\ TripSound'
  <2>1. trip.at \in book.known /\ trip.at \in Posts
    BY <1>10, <1>a DEF TripSound
  <2>2. /\ Honest(book', texts, visible) /\ book'.known = book.known
        /\ book'.row[trip.at].media = m
    BY <1>10, <1>a, <1>b, <2>1, NotedMediaHonest DEF MediaDone
  <2>3. trip' \in Trip /\ trip'.left = trip.left /\ trip'.at = trip.at /\ trip'.step = "text"
    BY <1>10, <1>a DEF MediaDone, Trip, Steps
  <2>4. QED
    BY <1>10, <1>a, <2>1, <2>2, <2>3 DEF TripSound
<1>11. ASSUME NEW L, NoReply(L)
       PROVE  UNCHANGED <<receipts, texts>> /\ visible \subseteq visible' /\ ReceiptsSound'
  BY <1>11, <1>h DEF NoReply
<1>12. CASE SendCached
  <2>1. PICK L \in Fresh(Carries[trip.at], IdsOnceSent) :
       \/ /\ IF L = {} THEN UNCHANGED <<receipts, chatSide, trouble>> ELSE Answered(L, IdsOnceSent)
          /\ MediaDone("delivered") /\ UNCHANGED cached
       \/ /\ L # {} /\ NoReply(L) /\ cached' = cached \ L
          /\ trip' = [trip EXCEPT !.step = "prepare"] /\ UNCHANGED book
    BY <1>12 DEF SendCached
  <2>2. trip.at \in Posts /\ Carries[trip.at] \subseteq Items /\ trip.at \in book.known
        /\ UNCHANGED <<kept, allowed>> /\ trip.step = "cached"
    BY <1>12, <1>a, RecordsAssumption DEF SendCached, TripSound
  <2>3. L \subseteq Items
    BY <2>2, FreshType
  <2>4. CASE /\ IF L = {} THEN UNCHANGED <<receipts, chatSide, trouble>>
                ELSE Answered(L, IdsOnceSent)
             /\ MediaDone("delivered")
    <3>1. /\ ReceiptsSound' /\ texts' = texts
          /\ visible \cup {Bytes[i] : i \in L} = visible'
      <4>1. CASE L = {}
        BY <2>4, <4>1, <1>h DEF chatSide
      <4>2. CASE L # {}
        BY <2>3, <2>4, <4>2, <1>a, AnsweredSound DEF Answered
      <4>3. QED
        BY <4>1, <4>2
    <3>2. {Bytes[i] : i \in Carries[trip.at]} \subseteq visible'
      BY <1>a, <2>2, <3>1, AlbumVisible
    <3>3. Honest(book', texts, visible) /\ TripSound'
      BY <1>10, <1>c, <2>2, <2>4, <3>2
    <3>4. QED
      BY <1>g, <2>2, <3>1, <3>3
  <2>5. CASE NoReply(L) /\ trip' = [trip EXCEPT !.step = "prepare"] /\ UNCHANGED book
    <3>1. trip' \in Trip /\ trip'.left = trip.left /\ trip'.at = trip.at /\ trip'.step = "prepare"
      BY <1>a, <2>5 DEF Trip, Steps
    <3>2. TripSound'
      BY <1>a, <2>2, <2>5, <3>1 DEF TripSound
    <3>3. QED
      BY <1>a, <1>g, <1>11, <2>2, <2>5, <3>2
  <2>6. QED
    BY <2>1, <2>4, <2>5
<1>13. ASSUME NEW fetched \in Prepared(trip.at), NEW L \in Fresh(fetched, IdsPrepared),
              trip.step = "prepare", UNCHANGED allowed,
              LET whole == IF fetched = Carries[trip.at] THEN "delivered" ELSE "partial_failed" IN
              \/ /\ L = {} /\ UNCHANGED <<kept, sqlite, chatSide, trouble>>
                 /\ MediaDone(IF L # fetched THEN whole ELSE "terminal_failed")
              \/ /\ L # {} /\ Answered(L, AllIds) /\ cached' = cached \cup L
                 /\ MediaDone(whole) /\ UNCHANGED kept
              \/ /\ L # {} /\ trouble < SendFaults /\ trouble' = trouble + 1
                 /\ MediaDone("terminal_failed") /\ UNCHANGED <<kept, sqlite, chatSide>>
              \/ /\ L # {} /\ NoReply(L) /\ UNCHANGED <<cached, kept>>
                 /\ \/ Failed(NotedMedia(book, trip.at, "retry_pending", "retry_pending"))
                    \/ book' = kept /\ trip' = NoTrip
       PROVE  RecordsInv'
  <2> DEFINE whole == IF fetched = Carries[trip.at] THEN "delivered" ELSE "partial_failed"
  <2>2. /\ trip.at \in Posts /\ Carries[trip.at] \subseteq Items /\ trip.at \in book.known
        /\ UNCHANGED allowed /\ trip.step = "prepare" /\ fetched \subseteq Items
        /\ L \subseteq Items
    BY <1>13, <1>a, RecordsAssumption, FreshType DEF TripSound, Prepared
  <2>3. ASSUME ReceiptsSound', UNCHANGED <<texts, kept>>,
               visible \cup {Bytes[i] : i \in L} = visible',
               NEW m \in {whole, "terminal_failed"}, MediaDone(m)
        PROVE  RecordsInv'
    <3>1. {Bytes[i] : i \in fetched} \subseteq visible'
      BY <1>a, <2>2, <2>3, AlbumVisible
    <3>2. \/ m \in {"terminal_failed", "partial_failed"}
          \/ {Bytes[i] : i \in Carries[trip.at]} \subseteq visible'
      BY <2>3, <3>1
    <3>3. m \in MediaStates
      BY <1>c
    <3>4. Honest(book', texts, visible) /\ TripSound'
      BY <1>10, <2>2, <2>3, <3>2, <3>3
    <3>5. QED
      BY <1>g, <2>2, <2>3, <3>4
  <2>4. CASE /\ L = {} /\ UNCHANGED <<kept, sqlite, chatSide>>
             /\ MediaDone(IF L # fetched THEN whole ELSE "terminal_failed")
    <3>1. ReceiptsSound' /\ UNCHANGED <<texts, kept>> /\ visible \cup {Bytes[i] : i \in L} = visible'
      BY <1>h, <2>4 DEF sqlite, chatSide
    <3>2. PICK m \in {whole, "terminal_failed"} : MediaDone(m)
      BY <2>4
    <3> HIDE DEF whole
    <3>3. QED
      BY <2>3, <3>1, <3>2
  <2>5. CASE Answered(L, AllIds) /\ MediaDone(whole) /\ UNCHANGED kept
    <3>1. ReceiptsSound' /\ UNCHANGED <<texts, kept>> /\ visible \cup {Bytes[i] : i \in L} = visible'
      BY <1>a, <2>2, <2>5, AnsweredSound DEF Answered
    <3> HIDE DEF whole
    <3>2. QED
      BY <2>3, <2>5, <3>1
  <2>6. CASE MediaDone("terminal_failed") /\ UNCHANGED <<kept, sqlite, chatSide>>
    <3>1. Honest(book', texts, visible) /\ TripSound'
      BY <1>10, <1>c, <2>2, <2>6
    <3>2. QED
      BY <1>a, <1>d, <2>2, <2>6, <3>1 DEF sqlite, chatSide
  <2>7. CASE /\ NoReply(L) /\ UNCHANGED kept
             /\ Failed(NotedMedia(book, trip.at, "retry_pending", "retry_pending"))
    <3> DEFINE c == NotedMedia(book, trip.at, "retry_pending", "retry_pending")
    <3>1. Honest(c, texts, visible) /\ c.known = book.known
      <4>1. "retry_pending" \in States \ Final
        BY <1>b
      <4>2. "retry_pending" \in MediaStates /\ Honest(book, texts, visible) /\ trip.at \in Posts
        BY <1>a, <1>c, <2>2
      <4>3. Honest(c, texts, visible)
        BY <4>1, <4>2, NotedMediaHonest
      <4>4. c.known = book.known
        BY <4>1, <4>2, NotedMediaHonest
      <4>5. QED
        BY <4>3, <4>4
    <3> HIDE DEF c
    <3>2. Failed(c)
      BY <2>7 DEF c
    <3>3. Honest(book', texts, visible) /\ book'.known = book.known
      BY <3>1, <3>2, NotedAtFirstHonest DEF Failed
    <3>4. trip' \in Trip /\ trip'.left = trip.left /\ trip'.step = "failed"
      BY <1>a, <3>2 DEF Failed, Trip, Steps
    <3>5. TripSound'
      BY <1>a, <3>3, <3>4 DEF TripSound
    <3>6. QED
      BY <1>g, <1>11, <2>2, <2>7, <3>3, <3>5
  <2>8. CASE NoReply(L) /\ UNCHANGED kept /\ book' = kept /\ trip' = NoTrip
    BY <1>a, <1>f, <1>g, <1>11, <2>2, <2>8
  <2>9. QED
    BY <1>13, <2>4, <2>5, <2>6, <2>7, <2>8
<1>14. CASE SendText
  <2>1. /\ texts' = texts \cup {trip.at} /\ book' = mark_seen(book, trip.at)
        /\ UNCHANGED <<receipts, visible, allowed>> /\ kept' = book'
        /\ trip' = [trip EXCEPT !.step = "next", !.at = 0] /\ trip.step = "text"
    BY <1>14 DEF SendText, save, sqlite
  <2>2. /\ trip.at \in book.known
        /\ \/ book.row[trip.at].media \in {"terminal_failed", "partial_failed"}
           \/ {Bytes[i] : i \in Carries[trip.at]} \subseteq visible
    BY <2>1, <1>a DEF TripSound
  <2>3. Honest(book, texts', visible) /\ trip.at \in texts'
    BY <1>a, <2>1, HonestGrows
  <2>4. Honest(mark_seen(book, trip.at), texts', visible)
    BY <2>2, <2>3, SeenHonest
  <2>5. book'.known = book.known
    <3> DEFINE b == [book EXCEPT !.seen = @ \cup {trip.at}]
    <3>1. b \in Book /\ Within(b) /\ b.known = book.known
      BY <1>a, <2>2 DEF Honest, Book, Within
    <3> HIDE DEF b
    <3>2. \E s \in States : book' = Noted(b, {trip.at}, s)
      BY <2>1 DEF mark_seen, States, Final, b
    <3>3. QED
      BY <3>1, <3>2, NotedSound
  <2>6. TripSound'
    <3>1. trip' \in Trip /\ trip'.left = trip.left /\ trip'.step = "next"
      BY <1>a, <2>1 DEF Trip, Steps
    <3>2. QED
      BY <1>a, <2>5, <3>1 DEF TripSound
  <2>7. Honest(book', texts', visible') /\ Honest(kept', texts', visible')
    BY <2>1, <2>4
  <2>8. QED
    BY <1>a, <1>h, <2>1, <2>6, <2>7 DEF RecordsInv
<1>15. CASE TextFails
  <2> DEFINE c == Noted(book, {trip.at}, "pending_delivery")
  <2>1. Honest(c, texts, visible) /\ c.known = book.known
    BY <1>a, <1>b, NotedHonest
  <2> HIDE DEF c
  <2>2. Failed(c) /\ UNCHANGED <<kept, receipts, visible, allowed>> /\ texts \subseteq texts'
    BY <1>15 DEF TextFails, sqlite, c
  <2>3. Honest(book', texts, visible) /\ book'.known = book.known
    BY <2>1, <2>2, NotedAtFirstHonest DEF Failed
  <2>4. trip' \in Trip /\ trip'.left = trip.left /\ trip'.step = "failed"
    BY <1>a, <2>2 DEF Failed, Trip, Steps
  <2>5. TripSound'
    BY <1>a, <2>3, <2>4 DEF TripSound
  <2>6. QED
    BY <1>g, <1>h, <2>2, <2>3, <2>5
<1>16. CASE Kill
  BY <1>16, <1>a, <1>f, <1>g, <1>h DEF Kill, sqlite
<1>17. CASE ReceiptsLapse
  <2>1. ReceiptsSound'
    BY <1>17 DEF ReceiptsLapse, ReceiptsSound
  <2>3. TripSound'
    BY <1>17, <1>a DEF ReceiptsLapse, TripSound, chatSide
  <2>2. QED
    BY <1>17, <1>a, <1>g, <2>1, <2>3 DEF ReceiptsLapse, chatSide
<1>18. CASE UNCHANGED recordVars
  BY <1>18, <1>a, <1>d DEF recordVars, TripSound
<1>19. CASE Upload
  BY <1>13, <1>19 DEF Upload
<1>20. QED
  BY <1>1, <1>2, <1>3, <1>5, <1>6, <1>7, <1>8, <1>9, <1>12, <1>14, <1>15, <1>16, <1>17,
     <1>18, <1>19 DEF RecordsNext

LEMMA RecordsInvHolds == RecordsSpec => []RecordsInv
BY InitRecords, NextRecords, PTL DEF RecordsSpec

(* Every lifecycle record has a status and a media status the code knows,  *)
(* and no set of the state is about a post that was never found.           *)
THEOREM RecordsTypesHold == RecordsSpec => []RecordsTypes
<1>1. RecordsInv => RecordsTypes
  BY DEF RecordsInv, Honest, Book, BookRow, Within, TripSound, Trip, RecordsTypes
<1>2. QED
  BY <1>1, RecordsInvHolds, PTL

(* Whatever fails, is killed or is asked for again, neither the record in  *)
(* memory nor the one on disk claims more than the chat shows.             *)
THEOREM RecordsStayHonest == RecordsSpec => []RecordsAreHonest
<1>1. RecordsInv => RecordsAreHonest
  BY DEF RecordsInv, Honest, HonestRow, RecordsAreHonest
<1>2. QED
  BY <1>1, RecordsInvHolds, PTL

----------------------------------------------------------------------------
(* Final edits (FinalEdit).                                                *)

Words == Texts \cup {""}
Session == [draft : EditDrafts, of : 0 .. Rewrites, status : Statuses,
            prompt : Nat, prompts : Nat, candidate : Words]
FinalRewrite == [draft : EditDrafts, text : Words, of : 0 .. Rewrites, active : BOOLEAN,
         supersedes : SUBSET Nat, showed : Words, stood : 0 .. Rewrites]
Posting == [kind : {"prompt", "preview"}, session : Nat, number : Nat, text : Words]

(* At most one session of a draft is open.                                 *)
OneOpen(all) ==
  \A n, m \in DOMAIN all :
    /\ all[n].draft = all[m].draft
    /\ all[n].status \in OpenStages /\ all[m].status \in OpenStages
    => n = m

OpenSound(all) == all \in Seq(Session) /\ OneOpen(all)

(* The edits of a draft form a chain whose last one is in force.           *)
EarlierEdits(all, k) == {j \in 1 .. k - 1 : all[j].draft = all[k].draft}
Follows(all, k) ==
  all[k].supersedes = {j \in EarlierEdits(all, k) : \A i \in EarlierEdits(all, k) : i <= j}
NewestEdit(all, k) == \A j \in DOMAIN all : all[j].draft = all[k].draft => j <= k

Chained(all) ==
  /\ all \in Seq(FinalRewrite)
  /\ \A k \in DOMAIN all : Follows(all, k) /\ all[k].of = all[k].stood
  /\ \A k \in DOMAIN all : all[k].active <=> NewestEdit(all, k)

EditInv ==
  /\ caption \in [EditDrafts -> 0 .. Rewrites]
  /\ OpenSound(sessions) /\ Chained(edits)
  /\ posted \subseteq Posting /\ \A m \in posted : m.session \in DOMAIN sessions
  /\ acts \in 0 .. Presses /\ failed \in 0 .. EditFaults

(* The bounds, apart from what the assumption says of the texts.           *)
LEMMA EditBounds ==
  Sessions \in Nat /\ Rewrites \in Nat \ {0} /\ Presses \in Nat /\ EditFaults \in Nat
BY EditAssumption, Zenon DEF EditAssumption

(* A sequence of the same length with other entries.                       *)
LEMMA MappedSeq ==
  ASSUME NEW S, NEW s \in Seq(S), NEW f, f = [k \in DOMAIN s |-> f[k]],
         \A k \in DOMAIN s : f[k] \in S
  PROVE  f \in Seq(S) /\ Len(f) = Len(s) /\ DOMAIN f = DOMAIN s
<1>1. DOMAIN s = 1 .. Len(s) /\ Len(s) \in Nat
  OBVIOUS
<1>2. f \in [1 .. Len(s) -> S]
  BY <1>1
<1>3. QED
  BY <1>1, <1>2

(* What Append does to the entries.                                        *)
LEMMA Appended ==
  ASSUME NEW S, NEW s \in Seq(S), NEW x \in S
  PROVE  /\ Append(s, x) \in Seq(S) /\ DOMAIN Append(s, x) = 1 .. Len(s) + 1
         /\ \A k \in 1 .. Len(s) : Append(s, x)[k] = s[k]
         /\ Append(s, x)[Len(s) + 1] = x
         /\ DOMAIN s = 1 .. Len(s) /\ Len(s) \in Nat
OBVIOUS

(* A session that changes without being opened.                            *)
LEMMA ChangedSound ==
  ASSUME NEW all, OpenSound(all), NEW n \in DOMAIN all, NEW r \in Session,
         r.draft = all[n].draft, r.status \in OpenStages => all[n].status \in OpenStages
  PROVE  OpenSound([all EXCEPT ![n] = r]) /\ DOMAIN [all EXCEPT ![n] = r] = DOMAIN all
<1> DEFINE new == [all EXCEPT ![n] = r]
<1>1. new \in Seq(Session) /\ DOMAIN new = DOMAIN all
  BY DEF OpenSound
<1>2. \A k \in DOMAIN all : new[k] = IF k = n THEN r ELSE all[k]
  BY DEF OpenSound
<1> HIDE DEF new
<1>3. \A k \in DOMAIN all : /\ new[k].draft = all[k].draft
                            /\ new[k].status \in OpenStages => all[k].status \in OpenStages
  BY <1>2
<1>4. OneOpen(new)
  BY <1>1, <1>3 DEF OneOpen, OpenSound
<1>5. QED
  BY <1>1, <1>4 DEF OpenSound, new

(* A session that is closed, whatever the reason.                          *)
LEMMA ClosedSound ==
  ASSUME EditInv, NEW n \in DOMAIN sessions, NEW s \in Statuses \ OpenStages
  PROVE  OpenSound(Closed(n, s)) /\ DOMAIN Closed(n, s) = DOMAIN sessions
<1> DEFINE r == [sessions[n] EXCEPT !.status = s, !.candidate = ""]
<1>1. sessions[n] \in Session /\ sessions \in Seq(Session) /\ OpenSound(sessions)
  BY DEF EditInv, OpenSound
<1>2. r \in Session /\ r.draft = sessions[n].draft /\ r.status = s
  BY <1>1 DEF Session, Words
<1>3. Closed(n, s) = [sessions EXCEPT ![n] = r]
  BY <1>1 DEF Closed
<1> HIDE DEF r
<1>4. r.status \in OpenStages => sessions[n].status \in OpenStages
  BY <1>2
<1>5. OpenSound([sessions EXCEPT ![n] = r]) /\ DOMAIN [sessions EXCEPT ![n] = r] = DOMAIN sessions
  BY <1>1, <1>2, <1>4, ChangedSound
<1>6. QED
  BY <1>3, <1>5, Zenon

(* A prompt is sent for a session, which may stay without one.             *)
LEMMA PromptSound ==
  ASSUME NEW all, OpenSound(all), NEW n \in DOMAIN all, SendPrompt(all, n),
         posted \subseteq Posting, \A m \in posted : m.session \in DOMAIN all,
         failed \in 0 .. EditFaults
  PROVE  /\ OpenSound(sessions') /\ DOMAIN sessions' = DOMAIN all
         /\ posted' \subseteq Posting /\ \A m \in posted' : m.session \in DOMAIN all
         /\ failed' \in 0 .. EditFaults
<1> DEFINE k == all[n].prompts + 1
           a == [all[n] EXCEPT !.prompts = k]
           b == [all[n] EXCEPT !.prompts = k, !.prompt = k]
<1>0. all \in Seq(Session) /\ all[n] \in Session /\ n \in Nat
  BY DEF OpenSound
<1>1. all \in Seq(Session) /\ all[n] \in Session /\ k \in Nat /\ n \in Nat
  BY <1>0 DEF Session
<1>2. /\ a \in Session /\ a.draft = all[n].draft /\ a.status = all[n].status
      /\ b \in Session /\ b.draft = all[n].draft /\ b.status = all[n].status
  BY <1>1 DEF Session
<1>3. sessions' = [all EXCEPT ![n] = a] \/ sessions' = [all EXCEPT ![n] = b]
  BY <1>1 DEF SendPrompt
<1>4. Prompt(n, k) \in Posting /\ Prompt(n, k).session = n
  BY <1>1 DEF Prompt, Posting, Words
<1>5. posted' \in {posted, posted \cup {Prompt(n, k)}}
  BY DEF SendPrompt
<1>6. failed' \in 0 .. EditFaults
  BY EditBounds DEF SendPrompt
<1> HIDE DEF k, a, b
<1>7. QED
  BY <1>2, <1>3, <1>4, <1>5, <1>6, ChangedSound

(* No session and no edit yet.                                             *)
LEMMA InitEdit == EditInit => EditInv
<1> SUFFICES ASSUME EditInit PROVE EditInv
  OBVIOUS
<1>1. sessions = <<>> /\ edits = <<>> /\ DOMAIN sessions = {} /\ DOMAIN edits = {}
  BY DEF EditInit
<1>2. OpenSound(sessions) /\ Chained(edits)
  BY <1>1 DEF OpenSound, OneOpen, Chained
<1>3. QED
  BY <1>2, EditBounds DEF EditInit, EditInv

(* An edit that stays in force or is superseded by the next one.           *)
LEMMA EditKept ==
  ASSUME NEW e \in FinalRewrite, NEW b \in BOOLEAN
  PROVE  /\ [e EXCEPT !.active = b] \in FinalRewrite /\ [e EXCEPT !.active = b].active = b
         /\ [e EXCEPT !.active = b].draft = e.draft /\ [e EXCEPT !.active = b].of = e.of
         /\ [e EXCEPT !.active = b].stood = e.stood
         /\ [e EXCEPT !.active = b].supersedes = e.supersedes
BY DEF FinalRewrite

(* The edits once those in force are superseded.                           *)
LEMMA Superseded ==
  ASSUME NEW P, NEW f, f = [k \in DOMAIN edits |-> [edits[k] EXCEPT !.active = @ /\ k \notin P]],
         edits \in Seq(FinalRewrite)
  PROVE  /\ f \in Seq(FinalRewrite) /\ Len(f) = Len(edits)
         /\ \A k \in DOMAIN edits :
              /\ f[k].draft = edits[k].draft /\ f[k].of = edits[k].of
              /\ f[k].stood = edits[k].stood /\ f[k].supersedes = edits[k].supersedes
              /\ f[k].active <=> edits[k].active /\ k \notin P
<1>1. ASSUME NEW k \in DOMAIN edits
      PROVE  /\ f[k] \in FinalRewrite /\ f[k].draft = edits[k].draft /\ f[k].of = edits[k].of
             /\ f[k].stood = edits[k].stood /\ f[k].supersedes = edits[k].supersedes
             /\ f[k].active <=> edits[k].active /\ k \notin P
  <2> DEFINE b == edits[k].active /\ k \notin P
  <2>1. edits[k] \in FinalRewrite
    OBVIOUS
  <2>2. f[k] = [edits[k] EXCEPT !.active = b]
    BY Zenon
  <2>3. b \in BOOLEAN
    OBVIOUS
  <2> DEFINE e == edits[k]
  <2> HIDE DEF b, e
  <2>e. LET g == [e EXCEPT !.active = b] IN
        /\ g \in FinalRewrite /\ g.active = b /\ g.draft = e.draft /\ g.of = e.of
        /\ g.stood = e.stood /\ g.supersedes = e.supersedes
    BY <2>1, <2>3, EditKept, Zenon DEF e
  <2>4. f[k] \in FinalRewrite /\ f[k].active = b /\ f[k].draft = edits[k].draft /\ f[k].of = edits[k].of
        /\ f[k].stood = edits[k].stood /\ f[k].supersedes = edits[k].supersedes
    BY <2>2, <2>e DEF e
  <2>5. f[k].active <=> edits[k].active /\ k \notin P
    BY <2>4, Zenon DEF b
  <2>6. QED
    BY <2>4, <2>5, Zenon
<1>2. f = [k \in DOMAIN edits |-> f[k]]
  BY Zenon
<1>3. \A k \in DOMAIN edits : f[k] \in FinalRewrite
  BY <1>1, Zenon
<1>4. f \in Seq(FinalRewrite) /\ Len(f) = Len(edits)
  BY <1>2, <1>3, MappedSeq
<1>5. QED
  BY <1>1, <1>4, Zenon

(* The edit that is confirmed supersedes the one in force so far.          *)
LEMMA ConfirmChains ==
  ASSUME Chained(edits), NEW r \in FinalRewrite, r.of = r.stood, r.active = TRUE, NEW P,
         r.supersedes = P, P = latest_active(r.draft), NEW f \in Seq(FinalRewrite), Len(f) = Len(edits),
         \A k \in DOMAIN edits :
           /\ f[k].draft = edits[k].draft /\ f[k].of = edits[k].of
           /\ f[k].stood = edits[k].stood /\ f[k].supersedes = edits[k].supersedes
           /\ f[k].active <=> edits[k].active /\ k \notin P,
         edits' = Append(f, r)
  PROVE  Chained(edits')
<1> DEFINE L == Len(edits)
<1>1. edits \in Seq(FinalRewrite) /\ L \in Nat /\ DOMAIN edits = 1 .. L
  BY DEF Chained
<1>5. /\ edits' \in Seq(FinalRewrite) /\ DOMAIN edits' = 1 .. L + 1 /\ edits'[L + 1] = r
      /\ \A k \in 1 .. L : edits'[k] = f[k]
  BY Appended
<1>6. ASSUME NEW k \in 1 .. L
      PROVE  /\ edits'[k].draft = edits[k].draft /\ edits'[k].of = edits[k].of
             /\ edits'[k].stood = edits[k].stood /\ edits'[k].supersedes = edits[k].supersedes
             /\ edits'[k].active <=> edits[k].active /\ k \notin P
  <2>1. k \in DOMAIN edits
    BY <1>1, Zenon
  <2>2. edits'[k] = f[k]
    BY <1>5, Zenon
  <2>3. QED
    BY <2>1, <2>2, Zenon
<1>7. \A k \in 1 .. L : k \in P <=> edits[k].draft = r.draft /\ NewestEdit(edits, k)
  BY <1>1 DEF latest_active, Chained
<1>8. P \subseteq 1 .. L
  BY <1>1 DEF latest_active
<1> HIDE DEF L
<1>9. ASSUME NEW k \in 1 .. L
      PROVE  Follows(edits', k) /\ edits'[k].of = edits'[k].stood
  <2>1. Follows(edits, k) /\ edits[k].of = edits[k].stood
    BY <1>1 DEF Chained
  <2>2. EarlierEdits(edits', k) = EarlierEdits(edits, k)
    BY <1>1, <1>6 DEF EarlierEdits
  <2>3. QED
    BY <1>6, <2>1, <2>2 DEF Follows
<1>10. EarlierEdits(edits', L + 1) = {j \in 1 .. L : edits[j].draft = r.draft}
  BY <1>1, <1>5, <1>6 DEF EarlierEdits
<1>11. Follows(edits', L + 1) /\ edits'[L + 1].of = edits'[L + 1].stood
  <2>1. P = {j \in EarlierEdits(edits', L + 1) : \A i \in EarlierEdits(edits', L + 1) : i <= j}
    BY <1>1, <1>7, <1>8, <1>10 DEF NewestEdit
  <2>2. QED
    BY <1>5, <2>1 DEF Follows
<1>12. ASSUME NEW k \in 1 .. L PROVE edits'[k].active <=> NewestEdit(edits', k)
  <2>1. edits[k].active <=> NewestEdit(edits, k)
    BY <1>1 DEF Chained
  <2>2. CASE edits[k].draft = r.draft
    <3>1. ~NewestEdit(edits', k)
      BY <1>1, <1>5, <1>6, <2>2 DEF NewestEdit
    <3>2. QED
      BY <1>6, <1>7, <2>1, <2>2, <3>1
  <2>3. CASE edits[k].draft # r.draft
    <3>1. k \notin P
      BY <1>7, <2>3
    <3>2. NewestEdit(edits', k) <=> NewestEdit(edits, k)
      BY <1>1, <1>5, <1>6, <2>3 DEF NewestEdit
    <3>3. QED
      BY <1>6, <2>1, <3>1, <3>2
  <2>4. QED
    BY <2>2, <2>3
<1>13. edits'[L + 1].active <=> NewestEdit(edits', L + 1)
  <2>1. NewestEdit(edits', L + 1)
    BY <1>1, <1>5 DEF NewestEdit
  <2>2. QED
    BY <1>5, <2>1, Zenon
<1>14. \A k \in 1 .. L + 1 : k \in 1 .. L \/ k = L + 1
  BY <1>1
<1>15. \A k \in DOMAIN edits' : Follows(edits', k) /\ edits'[k].of = edits'[k].stood
  BY <1>5, <1>9, <1>11, <1>14
<1>16. \A k \in DOMAIN edits' : edits'[k].active <=> NewestEdit(edits', k)
  BY <1>5, <1>12, <1>13, <1>14
<1>17. QED
  BY <1>5, <1>15, <1>16 DEF Chained

(* Every step keeps sessions and edits in order.                           *)
LEMMA NextEdit == EditInv /\ [EditNext]_editVars => EditInv'
<1> SUFFICES ASSUME EditInv, [EditNext]_editVars PROVE EditInv'
  OBVIOUS
<1>a. /\ caption \in [EditDrafts -> 0 .. Rewrites] /\ OpenSound(sessions) /\ Chained(edits)
      /\ posted \subseteq Posting /\ \A m \in posted : m.session \in DOMAIN sessions
      /\ acts \in 0 .. Presses /\ failed \in 0 .. EditFaults /\ sessions \in Seq(Session)
  BY DEF EditInv, OpenSound
<1>b. Act => acts' \in 0 .. Presses
  BY <1>a, EditBounds DEF Act
<1>c. \A n \in DOMAIN sessions : n \in Nat /\ sessions[n] \in Session
  BY <1>a
<1>d. {"cancelled", "expired", "confirmed_final_edit"} \subseteq Statuses \ OpenStages
  BY DEF Statuses, OpenStages
<1>e. Chained(edits) /\ edits' = edits => Chained(edits')
  OBVIOUS
<1>1. CASE RewriteDraft
  BY <1>1, <1>a, <1>e, EditBounds DEF RewriteDraft, EditInv
<1>2. CASE ForgetDraft
  BY <1>2, <1>a, <1>e, EditBounds DEF ForgetDraft, EditInv
<1>3. CASE start_session
  <2>1. PICK d \in EditDrafts :
       /\ caption[d] > 0
       /\ SendPrompt(Append(cancel_open_for_draft(d),
                       [draft |-> d, of |-> caption[d], status |-> "pending_edit",
                        prompt |-> 0, prompts |-> 0, candidate |-> ""]),
                     Len(sessions) + 1)
    BY <1>3 DEF start_session
  <2> DEFINE f == cancel_open_for_draft(d)
             r == [draft |-> d, of |-> caption[d], status |-> "pending_edit",
                   prompt |-> 0, prompts |-> 0, candidate |-> ""]
             all == Append(f, r)
  <2>2. r \in Session /\ r.draft = d
    BY <1>a DEF Session, Statuses, OpenStages, Words
  <2>3. ASSUME NEW n \in DOMAIN sessions
        PROVE  /\ f[n] \in Session /\ f[n].draft = sessions[n].draft
               /\ f[n].status \in OpenStages => sessions[n].status \in OpenStages
               /\ f[n].draft = d => f[n].status \notin OpenStages
    BY <1>c, <1>d DEF cancel_open_for_draft, Session, Words
  <2>4. f = [n \in DOMAIN sessions |-> f[n]]
    BY DEF cancel_open_for_draft
  <2> HIDE DEF f, r
  <2>5. f \in Seq(Session) /\ Len(f) = Len(sessions) /\ DOMAIN f = DOMAIN sessions
    BY <1>a, <2>3, <2>4, MappedSeq
  <2>6. /\ all \in Seq(Session) /\ DOMAIN all = 1 .. Len(sessions) + 1
        /\ \A n \in 1 .. Len(sessions) : all[n] = f[n]
        /\ all[Len(sessions) + 1] = r
        /\ DOMAIN sessions = 1 .. Len(sessions) /\ Len(sessions) \in Nat
    BY <2>2, <2>5, Appended
  <2>7. SendPrompt(all, Len(sessions) + 1)
    BY <2>1 DEF f, r
  <2> HIDE DEF all
  <2>8. OneOpen(all)
    <3> SUFFICES ASSUME NEW n \in DOMAIN all, NEW m \in DOMAIN all, all[n].draft = all[m].draft,
                        all[n].status \in OpenStages, all[m].status \in OpenStages
                 PROVE  n = m
      BY DEF OneOpen
    <3>1. CASE n \in DOMAIN sessions /\ m \in DOMAIN sessions
      BY <1>a, <2>3, <2>6, <3>1 DEF OpenSound, OneOpen
    <3>2. CASE n = Len(sessions) + 1 \/ m = Len(sessions) + 1
      BY <2>2, <2>3, <2>6, <3>2
    <3>3. QED
      BY <2>6, <3>1, <3>2
  <2>9. Len(sessions) + 1 \in DOMAIN all /\ \A m \in posted : m.session \in DOMAIN all
    BY <1>a, <2>6
  <2>10. /\ OpenSound(sessions') /\ DOMAIN sessions' = DOMAIN all
         /\ posted' \subseteq Posting /\ \A m \in posted' : m.session \in DOMAIN all
         /\ failed' \in 0 .. EditFaults
    BY <1>a, <2>6, <2>7, <2>8, <2>9, PromptSound DEF OpenSound
  <2>11. UNCHANGED <<caption, edits, acts>>
    BY <1>3 DEF start_session
  <2>12. QED
    BY <1>a, <1>e, <2>10, <2>11 DEF EditInv
<1>4. CASE expire_stale
  <2>1. PICK n \in DOMAIN sessions : sessions' = Closed(n, "expired")
    BY <1>4 DEF expire_stale
  <2>2. OpenSound(sessions') /\ DOMAIN sessions' = DOMAIN sessions
    BY <1>d, <2>1, ClosedSound
  <2>3. QED
    BY <1>4, <1>a, <1>e, <2>2 DEF expire_stale, EditInv
<1>5. CASE receive_user_text
  <2>1. PICK m \in posted, t \in Texts :
       LET n == m.session IN
       /\ m.kind = "prompt" /\ sessions[n].status = "pending_edit" /\ sessions[n].prompt = m.number
       /\ IF ~SameDraft(n) THEN sessions' = Closed(n, "cancelled") /\ UNCHANGED <<posted, failed>>
          ELSE /\ sessions' = [sessions EXCEPT ![n].status = "awaiting_confirmation",
                                               ![n].candidate = t]
               /\ \/ posted' = posted \cup {Preview(n, t)} /\ UNCHANGED failed
                  \/ /\ failed < EditFaults /\ failed' = failed + 1
                     /\ posted' \in {posted, posted \cup {Preview(n, t)}}
    BY <1>5 DEF receive_user_text
  <2> DEFINE n == m.session
             r == [sessions[n] EXCEPT !.status = "awaiting_confirmation", !.candidate = t]
  <2>2. n \in DOMAIN sessions /\ n \in Nat /\ sessions[n] \in Session
        /\ sessions[n].status \in OpenStages
    BY <1>a, <1>c, <2>1 DEF OpenStages
  <2>3. r \in Session /\ r.draft = sessions[n].draft
    BY <2>2 DEF Session, Words, Statuses, OpenStages
  <2>4. Preview(n, t) \in Posting /\ Preview(n, t).session = n
    BY <2>2 DEF Preview, Posting, Words
  <2>5. /\ sessions' = Closed(n, "cancelled") \/ sessions' = [sessions EXCEPT ![n] = r]
        /\ posted' \in {posted, posted \cup {Preview(n, t)}}
        /\ failed' \in 0 .. EditFaults
    BY <1>a, <2>1, <2>2, EditBounds
  <2> HIDE DEF n, r
  <2>6. OpenSound(sessions') /\ DOMAIN sessions' = DOMAIN sessions
    BY <1>a, <1>d, <2>2, <2>3, <2>5, ClosedSound, ChangedSound
  <2>7. UNCHANGED <<caption, edits>> /\ acts' \in 0 .. Presses
    BY <1>5, <1>b DEF receive_user_text
  <2>8. posted' \subseteq Posting /\ \A x \in posted' : x.session \in DOMAIN sessions'
    BY <1>a, <2>2, <2>4, <2>5, <2>6
  <2>9. QED
    BY <1>a, <1>e, <2>5, <2>6, <2>7, <2>8 DEF EditInv
<1>6. CASE cancel_session
  <2>1. PICK n \in DOMAIN sessions : sessions' = Closed(n, "cancelled")
    BY <1>6, <1>a DEF cancel_session
  <2>2. OpenSound(sessions') /\ DOMAIN sessions' = DOMAIN sessions
    BY <1>d, <2>1, ClosedSound
  <2>3. QED
    BY <1>6, <1>a, <1>b, <1>e, <2>2 DEF cancel_session, EditInv
<1>7. CASE replace_candidate
  <2>1. PICK m \in posted :
       LET n == m.session IN
       /\ m.kind = "preview" /\ sessions[n].status = "awaiting_confirmation"
       /\ SendPrompt([sessions EXCEPT ![n].status = "pending_edit", ![n].prompt = 0,
                                      ![n].candidate = ""], n)
    BY <1>7 DEF replace_candidate
  <2> DEFINE n == m.session
             r == [sessions[n] EXCEPT !.status = "pending_edit", !.prompt = 0, !.candidate = ""]
             all == [sessions EXCEPT ![n] = r]
  <2>2. n \in DOMAIN sessions /\ sessions[n] \in Session /\ sessions[n].status \in OpenStages
    BY <1>a, <1>c, <2>1 DEF OpenStages
  <2>3. r \in Session /\ r.draft = sessions[n].draft
    BY <2>2 DEF Session, Words, Statuses, OpenStages
  <2>4. SendPrompt(all, n)
    <3>1. [sessions EXCEPT ![n].status = "pending_edit", ![n].prompt = 0, ![n].candidate = ""]
            = all
      BY <1>a, <2>2
    <3>2. QED
      BY <2>1, <3>1
  <2> HIDE DEF n, r
  <2>5. OpenSound(all) /\ DOMAIN all = DOMAIN sessions
    BY <1>a, <2>2, <2>3, ChangedSound
  <2> HIDE DEF all
  <2>6. /\ OpenSound(sessions') /\ DOMAIN sessions' = DOMAIN sessions
        /\ posted' \subseteq Posting /\ \A x \in posted' : x.session \in DOMAIN sessions
        /\ failed' \in 0 .. EditFaults
    BY <1>a, <2>2, <2>4, <2>5, PromptSound
  <2>7. UNCHANGED <<caption, edits>> /\ acts' \in 0 .. Presses
    BY <1>7, <1>b DEF replace_candidate
  <2>8. QED
    BY <1>a, <1>e, <2>6, <2>7 DEF EditInv
<1>8. CASE confirm_session
  <2>1. PICK m \in posted :
       LET n == m.session
           s == sessions[n]
           earlier == latest_active(s.draft) IN
       /\ m.kind = "preview" /\ s.status = "awaiting_confirmation"
       /\ IF Confirmable(n)
          THEN /\ sessions' = Closed(n, "confirmed_final_edit")
               /\ edits' = Append([k \in DOMAIN edits |->
                                     [edits[k] EXCEPT !.active = @ /\ k \notin earlier]],
                             [draft |-> s.draft, text |-> s.candidate, of |-> s.of,
                              active |-> TRUE, supersedes |-> earlier,
                              showed |-> m.text, stood |-> caption[s.draft]])
          ELSE sessions' = Closed(n, "cancelled") /\ UNCHANGED edits
    BY <1>8 DEF confirm_session
  <2> DEFINE n == m.session
             s == sessions[n]
             r == [draft |-> s.draft, text |-> s.candidate, of |-> s.of,
                   active |-> TRUE, supersedes |-> latest_active(s.draft),
                   showed |-> m.text, stood |-> caption[s.draft]]
  <2>2. n \in DOMAIN sessions /\ s \in Session /\ m \in Posting
    BY <1>a, <1>c
  <2>3. OpenSound(sessions') /\ DOMAIN sessions' = DOMAIN sessions
    <3>1. sessions' = Closed(n, "confirmed_final_edit") \/ sessions' = Closed(n, "cancelled")
      BY <2>1
    <3> HIDE DEF n
    <3>2. QED
      BY <1>d, <2>2, <3>1, ClosedSound
  <2>4. Chained(edits')
    <3>1. CASE Confirmable(n)
      <4>1. latest_active(s.draft) \subseteq Nat
        BY <1>a DEF latest_active, Chained
      <4>2. r \in FinalRewrite
        BY <1>a, <2>2, <4>1 DEF FinalRewrite, Session, Posting, Words
      <4>3. r.of = r.stood /\ r.active /\ r.supersedes = latest_active(r.draft)
            /\ r.draft = s.draft
        BY <3>1 DEF Confirmable, SameDraft
      <4> DEFINE P == latest_active(s.draft)
                 f == [k \in DOMAIN edits |-> [edits[k] EXCEPT !.active = @ /\ k \notin P]]
      <4>4. edits' = Append(f, r)
        BY <2>1, <3>1, Zenon
      <4> HIDE DEF r, s, P
      <4>5. /\ f \in Seq(FinalRewrite) /\ Len(f) = Len(edits)
            /\ \A k \in DOMAIN edits :
                 /\ f[k].draft = edits[k].draft /\ f[k].of = edits[k].of
                 /\ f[k].stood = edits[k].stood /\ f[k].supersedes = edits[k].supersedes
                 /\ f[k].active <=> edits[k].active /\ k \notin P
        <5>1. edits \in Seq(FinalRewrite)
          BY <1>a DEF Chained
        <5>2. QED
          BY <5>1, Superseded, Zenon
      <4> HIDE DEF f
      <4>6. P = latest_active(r.draft) /\ r.supersedes = P
        BY <4>3, Zenon DEF P
      <4>7. r.active = TRUE
        BY Zenon DEF r
      <4>8. QED
        BY <1>a, <4>2, <4>3, <4>4, <4>5, <4>6, <4>7, ConfirmChains, Zenon
    <3>2. CASE ~Confirmable(n)
      BY <1>a, <2>1, <3>2
    <3>3. QED
      BY <3>1, <3>2
  <2>5. QED
    BY <1>8, <1>a, <1>b, <2>3, <2>4 DEF confirm_session, EditInv
<1>9. CASE UNCHANGED editVars
  BY <1>9, <1>a, <1>e DEF editVars, EditInv
<1>10. QED
  BY <1>1, <1>2, <1>3, <1>4, <1>5, <1>6, <1>7, <1>8, <1>9 DEF EditNext

(* In all behaviours.                                                      *)
LEMMA EditInvHolds == EditSpec => []EditInv
BY InitEdit, NextEdit, PTL DEF EditSpec

(* Sessions have statuses the code knows and messages belong to sessions.  *)
THEOREM EditTypesHold == EditSpec => []EditTypes
<1>1. ASSUME EditInv PROVE EditTypes
  <2>1. \A n \in DOMAIN sessions : sessions[n] \in Session
    BY <1>1 DEF EditInv, OpenSound
  <2>2. \A n \in DOMAIN sessions : sessions[n].status \in Statuses
    BY <2>1 DEF Session
  <2>3. QED
    BY <1>1, <2>2 DEF EditInv, EditTypes
<1>2. QED
  BY <1>1, EditInvHolds, PTL

(* However many sessions are begun, rewritten, expired and confirmed late, *)
(* a draft has one open session at most, its final edits form one chain    *)
(* with the last one in force, and each was confirmed with the caption it  *)
(* was begun with.                                                         *)
THEOREM OneEditInForce == EditSpec => []EditsInForce
<1>1. ASSUME EditInv, NEW d \in EditDrafts
      PROVE  Cardinality({n \in DOMAIN sessions :
                            sessions[n].draft = d /\ sessions[n].status \in OpenStages}) <= 1
  <2> DEFINE S == {n \in DOMAIN sessions :
                     sessions[n].draft = d /\ sessions[n].status \in OpenStages}
  <2>1. \A n, m \in S : n = m
    BY <1>1 DEF EditInv, OpenSound, OneOpen
  <2> HIDE DEF S
  <2>2. S = {} \/ \E n : S = {n}
    BY <2>1
  <2>3. Cardinality(S) = 0 \/ Cardinality(S) = 1
    BY <2>2, FS_EmptySet, FS_Singleton, Zenon
  <2>4. Cardinality(S) <= 1
    BY <2>3
  <2>5. QED
    BY <2>4 DEF S
<1>2. ASSUME EditInv, NEW k \in DOMAIN edits
      PROVE  /\ edits[k].supersedes =
                  {j \in {j \in 1 .. k - 1 : edits[j].draft = edits[k].draft} :
                     \A i \in {j2 \in 1 .. k - 1 : edits[j2].draft = edits[k].draft} : i <= j}
             /\ edits[k].active = (\A j \in DOMAIN edits : edits[j].draft = edits[k].draft => j <= k)
             /\ edits[k].of = edits[k].stood
  <2>1. edits \in Seq(FinalRewrite) /\ edits[k] \in FinalRewrite
    BY <1>2 DEF EditInv, Chained
  <2>2. edits[k].active \in BOOLEAN
    BY <2>1 DEF FinalRewrite
  <2>3. edits[k].active <=> NewestEdit(edits, k)
    BY <1>2 DEF EditInv, Chained
  <2>4. edits[k].active = NewestEdit(edits, k)
    BY <2>2, <2>3 DEF NewestEdit
  <2>5. Follows(edits, k) /\ edits[k].of = edits[k].stood
    BY <1>2 DEF EditInv, Chained
  <2>6. QED
    BY <2>4, <2>5 DEF Follows, EarlierEdits, NewestEdit
<1>3. EditInv => EditsInForce
  BY <1>1, <1>2 DEF EditsInForce
<1>4. QED
  BY <1>3, EditInvHolds, PTL

----------------------------------------------------------------------------
(* The fan fiction digest (FanficDigest).                                  *)

Nights == 0 .. (Thirds - 1) \div 3
RunOf(R, S, B) == [kind : {"none", "live", "digest"}, day : Nights, revision : R,
                   step : S, build : B]
IsRun(r) == r \in RunOf({r.revision}, {r.step}, {r.build})

(* There is one plan of a key, and what is confirmed was planned.           *)
StoreSound(s) ==
  /\ s = [plans |-> s.plans, confirmed |-> s.confirmed]
  /\ \A p \in s.plans : p = <<p[1], p[2]>>
  /\ \A p, q \in s.plans : p[1] = q[1] => p = q
  /\ \A c \in s.confirmed : c[1] \in {p[1] : p \in s.plans}

(* Only a run changes the database of its runner.                           *)
RunSound ==
  /\ IsRun(running) /\ IsRun(waiting)
  /\ waiting.kind = "none" => waiting = NoRun
  /\ running.kind = "none" => running = NoRun /\ store = saved

PartOf(C, k, i) == {m \in C : m.key = k /\ m.part = i}

(* A part is in the chat once for each failure and once confirmed.         *)
CopiesOf(k, i) ==
  /\ Cardinality(Sent(k, i)) <= mishaps + 1
  /\ <<k, i>> \notin store.confirmed => Cardinality(Sent(k, i)) <= mishaps

ChatSound ==
  /\ IsFiniteSet(chat)
  /\ \A k, i : CopiesOf(k, i)
  /\ \A m \in chat : m.copy \in Nat /\ m.copy <= mishaps
  /\ ~runnerLost => \A m \in chat : <<m.key, m.build>> \in store.plans

DeskCounters ==
  /\ third \in 0 .. Thirds - 1 /\ revision \in 1 .. Revisions
  /\ cronned \subseteq Nights /\ successes \subseteq Nights
  /\ manuals \in 0 .. Requests /\ mishaps \in 0 .. FicFaults

FicInv == DeskCounters /\ RunSound /\ StoreSound(store) /\ StoreSound(saved) /\ ChatSound
(* The bounds.                                                             *)
LEMMA FicBounds ==
  /\ Thirds \in Nat \ {0} /\ Parts \in Nat \ {0} /\ Revisions \in Nat \ {0}
  /\ Requests \in Nat /\ FicFaults \in Nat
BY FanficAssumption DEF FanficAssumption

(* A run put together.                                                     *)
LEMMA RunMade ==
  ASSUME NEW kind \in {"none", "live", "digest"}, NEW day \in Nights, NEW rev, NEW st, NEW b
  PROVE  LET r == [kind |-> kind, day |-> day, revision |-> rev, step |-> st, build |-> b] IN
         IsRun(r) /\ r.kind = kind
BY DEF IsRun, RunOf

(* A run that goes on to another step, or builds, is the same run.         *)
LEMMA RunGoesOn ==
  ASSUME NEW r, IsRun(r), NEW st, NEW b
  PROVE  /\ IsRun([r EXCEPT !.step = st]) /\ [r EXCEPT !.step = st].kind = r.kind
         /\ IsRun([r EXCEPT !.step = st, !.build = b])
         /\ [r EXCEPT !.step = st, !.build = b].kind = r.kind
<1> DEFINE f == [r EXCEPT !.step = st]
           g == [r EXCEPT !.step = st, !.build = b]
           S == {r.step, st}
           B == {r.build, b}
<1>1. r \in RunOf({r.revision}, S, B) /\ st \in S /\ b \in B
  BY DEF IsRun, RunOf
<1> HIDE DEF S, B
<1>2. f \in RunOf({r.revision}, S, B) /\ f.kind = r.kind
  BY <1>1 DEF RunOf
<1>3. g \in RunOf({r.revision}, S, B) /\ g.kind = r.kind
  BY <1>1 DEF RunOf
<1> HIDE DEF f, g
<1>4. IsRun(f) /\ IsRun(g)
  BY <1>2, <1>3 DEF IsRun, RunOf
<1>5. QED
  BY <1>2, <1>3, <1>4 DEF f, g

(* The runs there are.                                                     *)
LEMMA Runs ==
  ASSUME third \in 0 .. Thirds - 1
  PROVE  /\ IsRun(NoRun) /\ IsRun(LiveRun) /\ IsRun(DigestRun) /\ Day \in Nights
         /\ NoRun.kind = "none" /\ LiveRun.kind = "live" /\ DigestRun.kind = "digest"
<1>1. Day \in Nights /\ 0 \in Nights
  BY FicBounds DEF Day, Nights
<1>2. IsRun(NoRun) /\ NoRun.kind = "none"
  BY <1>1, RunMade, Zenon DEF NoRun
<1>3. IsRun(LiveRun) /\ LiveRun.kind = "live"
  <2> DEFINE S == {NoRun.step, "pass"}
  <2>1. NoRun \in RunOf({NoRun.revision}, S, {NoRun.build}) /\ "pass" \in S
    BY <1>2 DEF IsRun, RunOf
  <2>2. LiveRun \in RunOf({NoRun.revision}, S, {NoRun.build}) /\ LiveRun.kind = "live"
    BY <2>1 DEF LiveRun, RunOf
  <2>3. QED
    BY <2>2 DEF IsRun, RunOf
<1>4. IsRun(DigestRun) /\ DigestRun.kind = "digest"
  BY <1>1, RunMade DEF DigestRun
<1>5. QED
  BY <1>1, <1>2, <1>3, <1>4

(* What is planned keeps to the one plan of its key.                       *)
LEMMA PlannedSound ==
  ASSUME NEW s, NEW key, StoreSound(s)
  PROVE  /\ StoreSound(Planned(s, key)) /\ s.plans \subseteq Planned(s, key).plans
         /\ Planned(s, key).confirmed = s.confirmed
         /\ <<key, PlanOf(s, key)>> \in Planned(s, key).plans
<1>1. CASE \E p \in s.plans : p[1] = key
  <2>1. PICK p \in s.plans : p = (CHOOSE q \in s.plans : q[1] = key) /\ p[1] = key
    BY <1>1
  <2>2. PlanOf(s, key) = p[2] /\ Planned(s, key) = s
    BY <1>1, <2>1 DEF PlanOf, Planned
  <2>3. <<key, p[2]>> \in s.plans
    BY <2>1 DEF StoreSound
  <2>4. QED
    BY <2>2, <2>3
<1>2. CASE ~ \E p \in s.plans : p[1] = key
  <2> DEFINE pair == <<key, running.build>>
             t == [s EXCEPT !.plans = @ \cup {pair}]
  <2>1. PlanOf(s, key) = running.build /\ Planned(s, key) = t
    BY <1>2 DEF PlanOf, Planned
  <2>2. t.plans = s.plans \cup {pair} /\ t.confirmed = s.confirmed
        /\ t = [plans |-> t.plans, confirmed |-> t.confirmed]
    <3> HIDE DEF pair
    <3>1. s = [plans |-> s.plans, confirmed |-> s.confirmed]
      BY DEF StoreSound
    <3>2. QED
      BY <3>1
  <2>3. pair[1] = key /\ pair = <<pair[1], pair[2]>>
    OBVIOUS
  <2> HIDE DEF t, pair
  <2>4. \A p, q \in t.plans : p[1] = q[1] => p = q
    BY <1>2, <2>2, <2>3 DEF StoreSound
  <2>5. \A p \in t.plans : p = <<p[1], p[2]>>
    BY <2>2, <2>3 DEF StoreSound
  <2>6. \A c \in t.confirmed : c[1] \in {p[1] : p \in t.plans}
    BY <2>2 DEF StoreSound
  <2>7. StoreSound(t)
    BY <2>2, <2>4, <2>5, <2>6 DEF StoreSound
  <2>8. <<key, PlanOf(s, key)>> = pair
    BY <2>1 DEF pair
  <2>9. QED
    BY <2>1, <2>2, <2>7, <2>8
<1>3. QED
  BY <1>1, <1>2

(* Confirming a part of a planned list.                                    *)
LEMMA ConfirmedSound ==
  ASSUME NEW s, StoreSound(s), NEW c, c[1] \in {p[1] : p \in s.plans}
  PROVE  LET t == [s EXCEPT !.confirmed = @ \cup {c}] IN
         StoreSound(t) /\ t.plans = s.plans /\ t.confirmed = s.confirmed \cup {c}
<1> DEFINE t == [s EXCEPT !.confirmed = @ \cup {c}]
<1>1. t.plans = s.plans /\ t.confirmed = s.confirmed \cup {c}
      /\ t = [plans |-> t.plans, confirmed |-> t.confirmed]
  BY DEF StoreSound
<1> HIDE DEF t
<1>2. StoreSound(t)
  BY <1>1 DEF StoreSound
<1>3. QED
  BY <1>1, <1>2 DEF t

(* The part that goes out is one that is missing.                          *)
LEMMA LeastNumber ==
  ASSUME NEW T, T \subseteq Nat, T # {}
  PROVE  \E x \in T : \A y \in T : x <= y
<1> DEFINE R == OpToRel(<, Nat)
<1>1. IsWellFoundedOn(R, Nat)
  BY NatLessThanWellFounded
<1>2. PICK x \in T : \A y \in T : ~(<<y, x>> \in R)
  BY <1>1, WFMin
<1>3. \A y \in T : ~(y < x)
  BY <1>2 DEF OpToRel
<1>4. QED
  BY <1>3

(* A message more: one copy more of its part, none of the others.          *)
LEMMA OneMore ==
  ASSUME IsFiniteSet(chat), NEW m, NEW k, NEW i
  PROVE  /\ Cardinality(PartOf(chat \cup {m}, k, i)) \in Nat /\ Cardinality(Sent(k, i)) \in Nat
         /\ Cardinality(PartOf(chat \cup {m}, k, i)) <= Cardinality(Sent(k, i)) + 1
         /\ (m.key # k \/ m.part # i) =>
              Cardinality(PartOf(chat \cup {m}, k, i)) = Cardinality(Sent(k, i))
<1> DEFINE after == PartOf(chat \cup {m}, k, i)
<1>1. IsFiniteSet(chat \cup {m}) /\ Cardinality(after) \in Nat
  <2>1. IsFiniteSet(chat \cup {m}) /\ after \subseteq chat \cup {m}
    BY FS_AddElement DEF PartOf
  <2>2. QED
    BY <2>1, FS_Subset, FS_CardinalityType
<1>2. IsFiniteSet(Sent(k, i)) /\ Cardinality(Sent(k, i)) \in Nat
  <2>1. Sent(k, i) \subseteq chat
    BY DEF Sent
  <2>2. QED
    BY <2>1, FS_Subset, FS_CardinalityType
<1>3. CASE m.key # k \/ m.part # i
  <2>1. after = Sent(k, i)
    BY <1>3 DEF Sent, PartOf
  <2>2. QED
    BY <1>1, <1>2, <1>3, <2>1
<1>4. CASE m.key = k /\ m.part = i
  <2>1. after = Sent(k, i) \cup {m}
    BY <1>4 DEF Sent, PartOf
  <2> DEFINE before == Sent(k, i)
  <2> HIDE DEF before, after
  <2>2. Cardinality(before \cup {m}) = Cardinality(before)
        \/ Cardinality(before \cup {m}) = Cardinality(before) + 1
    BY <1>2, FS_AddElement DEF before
  <2>3. Cardinality(after) <= Cardinality(Sent(k, i)) + 1
    BY <1>2, <2>1, <2>2 DEF before
  <2>4. QED
    BY <1>1, <1>2, <1>4, <2>3 DEF after
<1>5. QED
  BY <1>3, <1>4

(* No message is sent: the database is kept, or it is lost with its runner, *)
(* which counts as a failure.                                              *)
LEMMA NoWorkSent ==
  ASSUME ChatSound, mishaps \in Nat, chat' = chat, mishaps' \in {mishaps, mishaps + 1},
         (store.plans \subseteq store'.plans /\ runnerLost' = runnerLost) \/ runnerLost',
         store.confirmed \subseteq store'.confirmed \/ mishaps' = mishaps + 1
  PROVE  ChatSound'
<1>1. ASSUME NEW k, NEW i PROVE CopiesOf(k, i)'
  <2>1. Sent(k, i)' = Sent(k, i) /\ Cardinality(Sent(k, i)) \in Nat
    <3>1. Sent(k, i)' = Sent(k, i) /\ Sent(k, i) \subseteq chat /\ IsFiniteSet(chat)
      BY DEF Sent, ChatSound
    <3>2. QED
      BY <3>1, FS_Subset, FS_CardinalityType
  <2>2. CopiesOf(k, i)
    BY DEF ChatSound
  <2>3. <<k, i>> \in store.confirmed => <<k, i>> \in store'.confirmed \/ mishaps' = mishaps + 1
    OBVIOUS
  <2>4. mishaps' = mishaps \/ mishaps' = mishaps + 1
    OBVIOUS
  <2> HIDE DEF ChatSound
  <2>5. QED
    BY <2>1, <2>2, <2>3, <2>4 DEF CopiesOf
<1>2. \A m \in chat' : m.copy \in Nat /\ m.copy <= mishaps'
  BY DEF ChatSound
<1>3. ~runnerLost' => \A m \in chat' : <<m.key, m.build>> \in store'.plans
  BY Zenon DEF ChatSound
<1>4. QED
  BY <1>1, <1>2, <1>3 DEF ChatSound

(* A missing part is sent, and is confirmed or its failure is counted.      *)
LEMMA PartSent ==
  ASSUME ChatSound, mishaps \in Nat, mishaps' \in Nat, NEW m, chat' = chat \cup {m},
         m.copy = Cardinality(Sent(m.key, m.part)), <<m.key, m.part>> \notin store.confirmed,
         store.plans \subseteq store'.plans, store.confirmed \subseteq store'.confirmed,
         <<m.key, m.build>> \in store'.plans, runnerLost' = runnerLost,
         \/ mishaps' = mishaps + 1
         \/ mishaps' = mishaps /\ <<m.key, m.part>> \in store'.confirmed
  PROVE  ChatSound'
<1>1. ASSUME NEW k, NEW i PROVE CopiesOf(k, i)'
  <2>1. /\ Cardinality(Sent(k, i)) \in Nat /\ Cardinality(Sent(k, i)') \in Nat
        /\ Cardinality(Sent(k, i)') <= Cardinality(Sent(k, i)) + 1
        /\ (m.key # k \/ m.part # i) => Cardinality(Sent(k, i)') = Cardinality(Sent(k, i))
    <3>1. IsFiniteSet(chat)
      BY DEF ChatSound
    <3>2. Sent(k, i)' = PartOf(chat \cup {m}, k, i)
      BY DEF Sent, PartOf
    <3>3. /\ Cardinality(PartOf(chat \cup {m}, k, i)) \in Nat /\ Cardinality(Sent(k, i)) \in Nat
          /\ Cardinality(PartOf(chat \cup {m}, k, i)) <= Cardinality(Sent(k, i)) + 1
          /\ (m.key # k \/ m.part # i) =>
               Cardinality(PartOf(chat \cup {m}, k, i)) = Cardinality(Sent(k, i))
      BY <3>1, OneMore
    <3>4. QED
      BY <3>2, <3>3
  <2>2. CopiesOf(k, i)
    BY DEF ChatSound
  <2>3. CASE m.key = k /\ m.part = i
    <3>1. <<k, i>> \notin store.confirmed
      BY <2>3
    <3>2. mishaps' = mishaps + 1 \/ (mishaps' = mishaps /\ <<k, i>> \in store'.confirmed)
      BY <2>3
    <3>3. Cardinality(Sent(k, i)) <= mishaps
      BY <2>2, <3>1 DEF CopiesOf
    <3>4. QED
      BY <2>1, <3>2, <3>3 DEF CopiesOf
  <2>4. CASE m.key # k \/ m.part # i
    <3>1. <<k, i>> \in store.confirmed => <<k, i>> \in store'.confirmed
      OBVIOUS
    <3>2. Cardinality(Sent(k, i)') = Cardinality(Sent(k, i)) /\ mishaps <= mishaps'
      BY <2>1, <2>4
    <3>3. QED
      BY <2>1, <2>2, <3>1, <3>2 DEF CopiesOf
  <2>5. QED
    BY <2>3, <2>4
<1>2. CopiesOf(m.key, m.part) /\ Cardinality(Sent(m.key, m.part)) \in Nat
  <2>1. IsFiniteSet(chat) /\ Sent(m.key, m.part) \subseteq chat
    BY DEF ChatSound, Sent
  <2>2. QED
    BY <2>1, FS_Subset, FS_CardinalityType DEF ChatSound
<1>3. \A n \in chat' : n.copy \in Nat /\ n.copy <= mishaps'
  BY <1>2 DEF ChatSound, CopiesOf
<1>4. ~runnerLost' => \A n \in chat' : <<n.key, n.build>> \in store'.plans
  BY DEF ChatSound
<1>5. IsFiniteSet(chat')
  BY FS_AddElement DEF ChatSound
<1>6. QED
  BY <1>1, <1>3, <1>4, <1>5 DEF ChatSound

(* Nothing planned, nothing sent.                                          *)
LEMMA InitFic == FicInit => FicInv
<1> SUFFICES ASSUME FicInit PROVE FicInv
  OBVIOUS
<1>1. third = 0 /\ revision = 1 /\ cronned = {} /\ successes = {} /\ manuals = 0 /\ mishaps = 0
      /\ chat = {} /\ store = [plans |-> {}, confirmed |-> {}] /\ saved = store
      /\ running = NoRun /\ waiting = NoRun
  BY Zenon DEF FicInit
<1>2. DeskCounters
  BY <1>1, FicBounds DEF DeskCounters
<1>3. RunSound
  BY <1>1, <1>2, Runs DEF RunSound, DeskCounters
<1>4. StoreSound(store) /\ StoreSound(saved)
  BY <1>1 DEF StoreSound
<1>5. ASSUME NEW k, NEW i PROVE CopiesOf(k, i)
  <2>1. Sent(k, i) = {}
    BY <1>1 DEF Sent
  <2>2. QED
    BY <1>1, <2>1, FS_EmptySet DEF CopiesOf
<1>6. ChatSound
  BY <1>1, <1>5, FS_EmptySet DEF ChatSound
<1>7. QED
  BY <1>2, <1>3, <1>4, <1>6 DEF FicInv

(* A run comes when none runs and restores the database, or it waits.       *)
LEMMA Arrives ==
  ASSUME RunSound, NEW r, Arrive(r), IsRun(r), r.kind # "none", UNCHANGED saved
  PROVE  RunSound' /\ UNCHANGED store
<1>1. CASE running.kind = "none"
  BY <1>1 DEF Arrive, RunSound
<1>2. CASE running.kind # "none"
  BY <1>2 DEF Arrive, RunSound
<1>3. QED
  BY <1>1, <1>2

(* The run that waited takes the place of the one that leaves.              *)
LEMMA Leaves ==
  ASSUME RunSound, IsRun(NoRun), NoRun.kind = "none", NEW held, Leave(held)
  PROVE  RunSound' /\ store' = held /\ saved' = held
BY DEF Leave, RunSound

(* Every step keeps database and chat in agreement.                        *)
LEMMA NextFic == FicInv /\ [FicNext]_ficVars => FicInv'
<1> SUFFICES ASSUME FicInv, [FicNext]_ficVars PROVE FicInv'
  OBVIOUS
<1> USE FicBounds
<1>inv. DeskCounters /\ RunSound /\ StoreSound(store) /\ StoreSound(saved) /\ ChatSound
  BY DEF FicInv
<1>nat. mishaps \in Nat /\ third \in Nat
  BY <1>inv DEF DeskCounters
<1>runs. /\ IsRun(NoRun) /\ IsRun(LiveRun) /\ IsRun(DigestRun) /\ Day \in Nights
         /\ NoRun.kind = "none" /\ LiveRun.kind = "live" /\ DigestRun.kind = "digest"
  BY <1>inv, Runs DEF DeskCounters
<1>same. ASSUME UNCHANGED <<store, chat, runnerLost, mishaps>> PROVE ChatSound'
  BY <1>same, <1>inv, <1>nat, NoWorkSent
<1>mishap. ASSUME Mishap PROVE mishaps' = mishaps + 1 /\ mishaps' \in 0 .. FicFaults
  BY <1>mishap, <1>nat DEF Mishap
<1>1. CASE LaterThird \/ Deploy
  <2>1. UNCHANGED <<running, waiting, store, saved, chat, successes, cronned, manuals, mishaps,
                    runnerLost>>
    BY <1>1 DEF LaterThird, Deploy, Passing
  <2>2. third' \in 0 .. Thirds - 1 /\ revision' \in 1 .. Revisions
    BY <1>1, <1>inv DEF LaterThird, Deploy, DeskCounters
  <2>3. DeskCounters' /\ RunSound'
    BY <2>1, <2>2, <1>inv DEF DeskCounters, RunSound
  <2>4. ChatSound'
    BY <2>1, <1>same
  <2>5. QED
    BY <2>1, <2>3, <2>4, <1>inv DEF FicInv
<1>2. CASE CronFires
  <2>1. UNCHANGED <<third, revision, saved, chat, successes, manuals, runnerLost>>
        /\ cronned' = cronned \cup {Day}
    BY <1>2 DEF CronFires, Passing
  <2>2. CASE Arrive(DigestRun) /\ UNCHANGED mishaps
    <3>1. RunSound' /\ UNCHANGED store
      BY <2>1, <2>2, <1>inv, <1>runs, Arrives
    <3>2. DeskCounters' /\ ChatSound'
      BY <2>1, <2>2, <3>1, <1>inv, <1>runs, <1>same DEF DeskCounters
    <3>3. QED
      BY <2>1, <3>1, <3>2, <1>inv DEF FicInv
  <2>3. CASE Mishap /\ UNCHANGED <<running, waiting, store>>
    <3>1. mishaps' = mishaps + 1 /\ mishaps' \in 0 .. FicFaults
      BY <2>3, <1>mishap
    <3>2. ChatSound'
      BY <2>1, <2>3, <3>1, <1>inv, <1>nat, NoWorkSent
    <3>3. DeskCounters' /\ RunSound'
      BY <2>1, <2>3, <3>1, <1>inv, <1>runs DEF DeskCounters, RunSound
    <3>4. QED
      BY <2>1, <2>3, <3>2, <3>3, <1>inv DEF FicInv
  <2>4. QED
    BY <1>2, <2>2, <2>3 DEF CronFires
<1>3. CASE LivePassDue
  <2>1. UNCHANGED <<third, revision, cronned, mishaps, saved, chat, successes, manuals, runnerLost>>
        /\ Arrive(LiveRun)
    BY <1>3 DEF LivePassDue, Passing
  <2>2. RunSound' /\ UNCHANGED store
    BY <2>1, <1>inv, <1>runs, Arrives
  <2>3. DeskCounters' /\ ChatSound'
    BY <2>1, <2>2, <1>inv, <1>same DEF DeskCounters
  <2>4. QED
    BY <2>1, <2>2, <2>3, <1>inv DEF FicInv
<1>4. CASE QueueDueDigest
  <2>1. /\ UNCHANGED <<third, revision, cronned, mishaps, saved, chat, successes, manuals,
                       runnerLost, store>>
        /\ running.kind = "live" /\ running' = [running EXCEPT !.step = "end"]
        /\ waiting' \in {waiting, DigestRun}
    BY <1>4 DEF QueueDueDigest, Passing
  <2>2. IsRun(running') /\ running'.kind = "live"
    BY <2>1, <1>inv, RunGoesOn DEF RunSound
  <2>3. RunSound'
    BY <2>1, <2>2, <1>inv, <1>runs DEF RunSound
  <2>4. DeskCounters' /\ ChatSound'
    BY <2>1, <1>inv, <1>same DEF DeskCounters
  <2>5. QED
    BY <2>1, <2>3, <2>4, <1>inv DEF FicInv
<1>5. CASE EndLive
  <2>1. UNCHANGED <<third, revision, cronned, mishaps, chat, successes, manuals, runnerLost>>
        /\ Leave(store)
    BY <1>5 DEF EndLive, schedule
  <2>2. RunSound' /\ store' = store /\ saved' = store
    BY <2>1, <1>inv, <1>runs, Leaves
  <2>3. DeskCounters' /\ ChatSound'
    BY <2>1, <2>2, <1>inv, <1>same DEF DeskCounters
  <2>4. QED
    BY <2>2, <2>3, <1>inv DEF FicInv
<1>6. CASE BuildDigests \/ ManualRequest
  <2>1. /\ UNCHANGED <<third, revision, cronned, mishaps, chat, successes, runnerLost, store, saved,
                       waiting>>
        /\ running.kind # "none" /\ build_digests("x") /\ manuals' \in 0 .. Requests
    BY <1>6, <1>inv DEF BuildDigests, ManualRequest, schedule, database, DeskCounters
  <2>2. IsRun(running') /\ running'.kind # "none"
    <3>1. running' = [running EXCEPT !.step = "x", !.build = Len(builds) + 1]
      BY <2>1 DEF build_digests
    <3> DEFINE b == Len(builds) + 1
    <3> HIDE DEF b
    <3>2. IsRun(running)
      BY <1>inv DEF RunSound
    <3>3. IsRun([running EXCEPT !.step = "x", !.build = b])
          /\ [running EXCEPT !.step = "x", !.build = b].kind = running.kind
      BY <3>2, RunGoesOn
    <3>4. QED
      BY <2>1, <3>1, <3>3 DEF b
  <2>3. RunSound' /\ DeskCounters' /\ ChatSound'
    BY <2>1, <2>2, <1>inv, <1>same DEF RunSound, DeskCounters
  <2>4. QED
    BY <2>1, <2>3, <1>inv DEF FicInv
<1>7. CASE SendPart
  <2> DEFINE key == Key
             plan == PlanOf(store, key)
             missing == {i \in 1 .. Parts : <<key, i>> \notin store.confirmed}
             part == CHOOSE i \in missing : \A j \in missing : i <= j
             m == [key |-> key, part |-> part, build |-> plan,
                   copy |-> Cardinality(Sent(key, part))]
             planned == Planned(store, key)
  <2>1. UNCHANGED <<third, revision, cronned, runnerLost, waiting, successes, saved, builds, manuals>>
    BY <1>7 DEF SendPart, schedule
  <2>2. running.kind # "none"
    <3>1. running.step \in {"x", "ao3"}
      BY <1>7 DEF SendPart, Lists
    <3>2. NoRun.step \notin {"x", "ao3"}
      BY Zenon DEF NoRun
    <3>3. QED
      BY <3>1, <3>2, <1>inv DEF RunSound
  <2>3. \/ missing = {} /\ Skip /\ UNCHANGED <<store, chat, mishaps>>
        \/ /\ missing # {} /\ chat' = chat \cup {m} /\ UNCHANGED <<running, mishaps>>
           /\ store' = [planned EXCEPT !.confirmed = @ \cup {<<key, part>>}]
        \/ /\ missing # {} /\ Mishap /\ Skip /\ store' = planned
           /\ chat' \in {chat, chat \cup {m}}
    BY <1>7 DEF SendPart
  <2>4. IsRun(running') /\ running'.kind # "none"
    <3>1. running' = running \/ Skip
      BY <2>3
    <3>2. QED
      BY <2>2, <3>1, <1>inv, RunGoesOn DEF RunSound, Skip
  <2>5. RunSound'
    BY <2>1, <2>4, <1>inv DEF RunSound
  <2>6. /\ StoreSound(planned) /\ store.plans \subseteq planned.plans
        /\ planned.confirmed = store.confirmed /\ <<key, plan>> \in planned.plans
    BY <1>inv, PlannedSound
  <2>7. missing # {} => <<key, part>> \notin store.confirmed
    <3>1. missing \subseteq Nat
      OBVIOUS
    <3> HIDE DEF missing
    <3>2. missing # {} => part \in missing
      BY <3>1, LeastNumber
    <3>3. QED
      BY <3>2 DEF missing
  <2>8. m.key = key /\ m.part = part /\ m.build = plan /\ m.copy = Cardinality(Sent(key, part))
    OBVIOUS
  <2> HIDE DEF key, plan, missing, part, m, planned
  <2>9. CASE missing = {} /\ Skip /\ UNCHANGED <<store, chat, mishaps>>
    <3>1. DeskCounters' /\ ChatSound'
      BY <2>1, <2>9, <1>inv, <1>same DEF DeskCounters
    <3>2. QED
      BY <2>1, <2>5, <2>9, <3>1, <1>inv DEF FicInv
  <2>10. CASE /\ missing # {} /\ chat' = chat \cup {m} /\ UNCHANGED <<running, mishaps>>
              /\ store' = [planned EXCEPT !.confirmed = @ \cup {<<key, part>>}]
    <3> DEFINE c == <<key, part>>
    <3>1. c[1] \in {p[1] : p \in planned.plans}
      BY <2>6
    <3> HIDE DEF c
    <3>2. StoreSound(store') /\ store'.plans = planned.plans
          /\ store'.confirmed = planned.confirmed \cup {c}
      BY <2>6, <2>10, <3>1, ConfirmedSound DEF c
    <3>3. ChatSound'
      <4>1. m.copy = Cardinality(Sent(m.key, m.part)) /\ <<m.key, m.part>> \notin store.confirmed
        BY <2>7, <2>8, <2>10
      <4>2. /\ store.plans \subseteq store'.plans /\ store.confirmed \subseteq store'.confirmed
            /\ <<m.key, m.build>> \in store'.plans /\ <<m.key, m.part>> \in store'.confirmed
        BY <2>6, <2>8, <3>2 DEF c
      <4>3. mishaps' = mishaps /\ runnerLost' = runnerLost /\ chat' = chat \cup {m}
        BY <2>1, <2>10
      <4>4. QED
        BY <4>1, <4>2, <4>3, <1>inv, <1>nat, PartSent
    <3>4. DeskCounters'
      BY <2>1, <2>10, <1>inv DEF DeskCounters
    <3>5. QED
      BY <2>1, <2>5, <3>2, <3>3, <3>4, <1>inv DEF FicInv
  <2>11. CASE /\ missing # {} /\ Mishap /\ Skip /\ store' = planned
              /\ chat' \in {chat, chat \cup {m}}
    <3>1. mishaps' = mishaps + 1 /\ mishaps' \in 0 .. FicFaults
      BY <2>11, <1>mishap
    <3>2. /\ store.plans \subseteq store'.plans /\ store.confirmed \subseteq store'.confirmed
          /\ <<m.key, m.build>> \in store'.plans /\ runnerLost' = runnerLost
      BY <2>1, <2>6, <2>8, <2>11
    <3>3. ASSUME chat' = chat PROVE ChatSound'
      BY <3>1, <3>2, <3>3, <1>inv, <1>nat, NoWorkSent
    <3>4. ASSUME chat' = chat \cup {m} PROVE ChatSound'
      <4>1. m.copy = Cardinality(Sent(m.key, m.part)) /\ <<m.key, m.part>> \notin store.confirmed
        BY <2>7, <2>8, <2>11
      <4>2. mishaps' \in Nat
        BY <3>1
      <4>3. QED
        BY <3>1, <3>2, <3>4, <4>1, <4>2, <1>inv, <1>nat, PartSent
    <3>5. ChatSound'
      BY <2>11, <3>3, <3>4
    <3>6. DeskCounters'
      BY <2>1, <3>1, <1>inv DEF DeskCounters
    <3>7. QED
      BY <2>1, <2>5, <2>6, <2>11, <3>5, <3>6, <1>inv DEF FicInv
  <2>12. QED
    BY <2>3, <2>9, <2>10, <2>11
<1>8. CASE EndDigest
  <2>1. UNCHANGED <<third, revision, cronned, mishaps, chat, manuals, runnerLost>>
        /\ Leave(store) /\ successes' = successes \cup {running.day}
    BY <1>8 DEF EndDigest, schedule
  <2>2. RunSound' /\ store' = store /\ saved' = store
    BY <2>1, <1>inv, <1>runs, Leaves
  <2>3. running.day \in Nights
    BY <1>inv DEF RunSound, IsRun, RunOf
  <2>4. ChatSound'
    BY <2>1, <2>2, <1>same
  <2>5. DeskCounters'
    BY <2>1, <2>3, <1>inv DEF DeskCounters
  <2>6. QED
    BY <2>2, <2>4, <2>5, <1>inv DEF FicInv
<1>9. CASE DigestFails
  <2>1. UNCHANGED <<third, revision, cronned, successes, chat, manuals>>
        /\ mishaps' = mishaps + 1 /\ mishaps' \in 0 .. FicFaults
    BY <1>9, <1>mishap DEF DigestFails
  <2>2. DeskCounters'
    BY <2>1, <1>inv DEF DeskCounters
  <2>3. CASE Leave(store) /\ UNCHANGED runnerLost
    <3>1. RunSound' /\ store' = store /\ saved' = store
      BY <2>3, <1>inv, <1>runs, Leaves
    <3>2. ChatSound'
      BY <2>1, <2>3, <3>1, <1>inv, <1>nat, NoWorkSent
    <3>3. QED
      BY <2>2, <3>1, <3>2, <1>inv DEF FicInv
  <2>4. CASE Leave(saved) /\ runnerLost' = TRUE
    <3>1. RunSound' /\ store' = saved /\ saved' = saved
      BY <2>4, <1>inv, <1>runs, Leaves
    <3>2. runnerLost'
      BY <2>4
    <3>3. ChatSound'
      BY <2>1, <3>2, <1>inv, <1>nat, NoWorkSent
    <3>4. QED
      BY <2>2, <3>1, <3>3, <1>inv DEF FicInv
  <2>5. QED
    BY <1>9, <2>3, <2>4 DEF DigestFails
<1>10. CASE UNCHANGED ficVars
  <2>1. UNCHANGED <<third, revision, cronned, running, waiting, successes, store, saved, chat,
                    manuals, mishaps, runnerLost>>
    BY <1>10 DEF ficVars
  <2>2. RunSound' /\ DeskCounters' /\ ChatSound'
    BY <2>1, <1>inv, <1>same DEF RunSound, DeskCounters
  <2>3. QED
    BY <2>1, <2>2, <1>inv DEF FicInv
<1>11. QED
  BY <1>1, <1>2, <1>3, <1>4, <1>5, <1>6, <1>7, <1>8, <1>9, <1>10 DEF FicNext

(* In all behaviours.                                                      *)
LEMMA FicInvHolds == FicSpec => []FicInv
BY InitFic, NextFic, PTL DEF FicSpec

(* Every variable of the digest's runs keeps to its type; what is confirmed *)
(* as sent has a plan, in the database and in its saved copy.              *)
THEOREM FicTypesHold == FicSpec => []FicTypes
<1>1. FicInv => FicTypes
  BY DEF FicInv, DeskCounters, RunSound, IsRun, RunOf, StoreSound, FicTypes, Nights
<1>2. QED
  BY <1>1, FicInvHolds, PTL

(* However the runs of a night are cancelled, repeated, late or killed, a  *)
(* part of a list is sent again only for a failure, and all parts of a     *)
(* list, and their copies, are cut from one text unless a database was     *)
(* lost with its runner.                                                   *)
THEOREM DigestsStayWhole == FicSpec => []DigestsAreWhole
<1>1. ASSUME FicInv PROVE DigestsAreWhole
  <2>1. ChatSound /\ StoreSound(store)
    BY <1>1 DEF FicInv
  <2>2. ASSUME ~runnerLost, NEW m \in chat, NEW n \in chat, n.key = m.key
        PROVE  n.build = m.build
    <3> DEFINE p == <<m.key, m.build>>
               q == <<n.key, n.build>>
    <3>1. p \in store.plans /\ q \in store.plans
      BY <2>1, <2>2 DEF ChatSound
    <3>2. p[1] = q[1]
      BY <2>2
    <3>3. p = q
      BY <2>1, <3>1, <3>2 DEF StoreSound
    <3>4. QED
      BY <3>3
  <2>3. QED
    BY <2>1, <2>2 DEF DigestsAreWhole, ChatSound
<1>2. QED
  BY <1>1, FicInvHolds, PTL

----------------------------------------------------------------------------
(***************************************************************************)
(* The editor's desk (EditorDesk).                                         *)
(***************************************************************************)

StepAt == {"idle", "send", "sent", "listed", "indexed"}
ErrandOf(A, D, T) == [act : A, d : D, at : T, done : BOOLEAN]

(* DeskTypes, with the drafts that steps and requests are about.           *)
DeskShape ==
  /\ desk \in Desks /\ filed \in Desks /\ found \in Desks
  /\ inbox \in [Drafted -> {"none", "pending", "ready", "rejected"}]
  /\ indexed \in [Topic -> 0 .. NoRow]
  /\ bubble \in [Drafted -> Struck(Wordings) .. Wordings]
  /\ receipted \subseteq Drafted \X (1 .. Wordings) /\ pane \in Drafted \cup {Unwritten}
  /\ displayed \in [Drafted -> SUBSET (1 .. Wordings)]
  /\ taken \in [Drafted -> {"none", "ready", "rejected"}]
  /\ errand = NoErrand \/ errand \in ErrandOf(Decisions \cup NewTexts, Drafted, {"own", "reply", "pane"})
  /\ step \in [at : StepAt, d : Drafted \cup {Unwritten}]
  /\ worded \in 0 .. Wordings

(* What was delivered by a desk D, this run's or one in a file, is listed   *)
(* in the inbox I, has a row in the archive X and was shown, as S has it,  *)
(* with the text the desk keeps.                                           *)
DeliveredOn(D, I, X, S) ==
  \A d \in D.done : /\ I[d] # "none" /\ X[About[d]] # NoRow
                    /\ D.text[d] # Unwritten /\ D.text[d] \in S[d]

(* The archive is searched by a caption of one of the post's drafts.       *)
Searchable(D, X) ==
  \A d \in D.done : \E e \in Drafted : About[e] = About[d] /\ D.text[e] # Unwritten
                                       /\ X[About[d]] = D.text[e]

(* How far the delivery under way has come.                                *)
UnderWay(s, D, I, X, S) ==
  s.at # "idle" =>
    /\ s.d \in Drafted /\ D.text[s.d] # Unwritten /\ X[About[s.d]] # NoRow
    /\ s.at # "send" => D.text[s.d] \in S[s.d]
    /\ s.at \in {"listed", "indexed"} => I[s.d] # "none"
    /\ s.at = "indexed" => X[About[s.d]] = D.text[s.d]

DeskInv ==
  /\ DeskShape /\ DecisionsStand /\ Searchable(desk, indexed)
  /\ UnderWay(step, desk, inbox, indexed, displayed)
  /\ DeliveredOn(desk, inbox, indexed, displayed)
  /\ DeliveredOn(filed, inbox, indexed, displayed)
  /\ DeliveredOn(found, inbox, indexed, displayed)

(* The inbox, the archive and what was shown only grow, so what a desk     *)
(* delivered stays delivered.                                              *)
LEMMA DeliveredStays ==
  ASSUME NEW D \in Desks, NEW I, NEW X, NEW S, NEW J, NEW Y, NEW T, DeliveredOn(D, I, X, S),
         \A d \in Drafted : I[d] # "none" => J[d] # "none",
         \A p \in Topic : X[p] # NoRow => Y[p] # NoRow,
         \A d \in Drafted : S[d] \subseteq T[d]
  PROVE  DeliveredOn(D, J, Y, T)
BY DEF DeliveredOn, Desks, Topic

(* The changes of a desk.                                                  *)
LEMMA TextKept ==
  ASSUME NEW D \in Desks, NEW d \in Drafted, NEW w \in 0 .. Wordings
  PROVE  LET E == [D EXCEPT !.text[d] = w] IN
         /\ E \in Desks /\ E.text = [D.text EXCEPT ![d] = w] /\ E.done = D.done
         /\ E.text[d] = w /\ \A e \in Drafted : e # d => E.text[e] = D.text[e]
<1> DEFINE t == [D.text EXCEPT ![d] = w]
           E == [D EXCEPT !.text = t]
<1>1. t \in [Drafted -> 0 .. Wordings] /\ t[d] = w /\ \A e \in Drafted : e # d => t[e] = D.text[e]
  BY DEF Desks
<1>2. [D EXCEPT !.text[d] = w] = E
  BY DEF Desks
<1> HIDE DEF t
<1>3. E \in Desks /\ E.text = t /\ E.done = D.done
  BY <1>1 DEF Desks
<1>4. QED
  BY <1>1, <1>2, <1>3 DEF t

(* Sending and finishing leave the texts of a desk alone.                  *)
LEMMA SentKept ==
  ASSUME NEW D \in Desks, NEW s, s \in SUBSET Drafted, NEW k, k \in SUBSET Topic
  PROVE  LET E == [D EXCEPT !.sent = s, !.known = k] IN
         E \in Desks /\ E.text = D.text /\ E.done = D.done
BY DEF Desks

LEMMA DoneKept ==
  ASSUME NEW D \in Desks, NEW d \in Drafted
  PROVE  LET E == [D EXCEPT !.done = @ \cup {d}] IN
         E \in Desks /\ E.text = D.text /\ E.done = D.done \cup {d}
BY DEF Desks

(* A text shown joins what was shown, and the message shows it.            *)
LEMMA ShowsText ==
  ASSUME DeskShape, NEW d \in Drafted, NEW w \in Struck(Wordings) .. Wordings, w # Unwritten,
         Displays(d, w)
  PROVE  /\ displayed' \in [Drafted -> SUBSET (1 .. Wordings)]
         /\ \A e \in Drafted : displayed[e] \subseteq displayed'[e]
         /\ w > 0 => w \in displayed'[d]
<1> DEFINE v == IF w > Unwritten THEN w ELSE -w
<1>1. v \in 1 .. Wordings /\ (w > 0 => v = w)
  BY DeskAssumption DEF Struck, Unwritten
<1>2. displayed' = [displayed EXCEPT ![d] = @ \cup {v}]
  BY DEF Displays
<1> HIDE DEF v
<1>3. displayed' \in [Drafted -> SUBSET (1 .. Wordings)] /\ v \in displayed'[d]
      /\ \A e \in Drafted : displayed[e] \subseteq displayed'[e]
  BY <1>1, <1>2 DEF DeskShape
<1>4. QED
  BY <1>1, <1>3

(* So it does when it takes the place of a message's text.                 *)
LEMMA Edits ==
  ASSUME DeskShape, NEW d \in Drafted, NEW w \in Struck(Wordings) .. Wordings, w # Unwritten,
         edit_message_text(d, w)
  PROVE  /\ displayed' \in [Drafted -> SUBSET (1 .. Wordings)]
         /\ \A e \in Drafted : displayed[e] \subseteq displayed'[e]
         /\ w > 0 => w \in displayed'[d]
         /\ bubble' \in [Drafted -> Struck(Wordings) .. Wordings]
         /\ pane' \in Drafted \cup {Unwritten} /\ receipted' = receipted
<1>1. Displays(d, w) /\ receipted' = receipted
  BY DEF edit_message_text
<1>2. bubble' \in [Drafted -> Struck(Wordings) .. Wordings] /\ pane' \in Drafted \cup {Unwritten}
  BY DEF edit_message_text, DeskShape
<1>3. QED
  BY <1>1, <1>2, ShowsText

(* The caption of a draft in memory is one the post may be searched by.    *)
LEMMA CaptionUpdated ==
  ASSUME DeskShape, NEW D \in Desks, NEW d \in Drafted, NEW c \in 0 .. Wordings,
         indexed' = update_caption(About[d], c), Searchable(D, indexed),
         DeliveredOn(D, inbox, indexed, displayed), c # Unwritten => D.text[d] = c
  PROVE  /\ indexed' \in [Topic -> 0 .. NoRow]
         /\ \A p \in Topic : indexed[p] # NoRow => indexed'[p] # NoRow
         /\ Searchable(D, indexed')
<1>1. About[d] \in Topic /\ NoRow \in Nat /\ c \in 0 .. NoRow /\ c # NoRow
  BY DeskAssumption DEF Topic, NoRow
<1>2. /\ indexed' \in [Topic -> 0 .. NoRow]
      /\ indexed'[About[d]] = IF indexed[About[d]] = NoRow \/ c = Unwritten THEN indexed[About[d]] ELSE c
      /\ \A p \in Topic : p # About[d] => indexed'[p] = indexed[p]
  BY <1>1 DEF update_caption, DeskShape
<1>3. Searchable(D, indexed')
  <2> SUFFICES ASSUME NEW e \in D.done
               PROVE  \E f \in Drafted : About[f] = About[e] /\ D.text[f] # Unwritten
                                         /\ indexed'[About[e]] = D.text[f]
    BY DEF Searchable
  <2>1. e \in Drafted /\ About[e] \in Topic /\ indexed[About[e]] # NoRow
    BY DEF DeliveredOn, Desks, Topic
  <2>2. PICK f \in Drafted : About[f] = About[e] /\ D.text[f] # Unwritten
                             /\ indexed[About[e]] = D.text[f]
    BY DEF Searchable
  <2>3. CASE indexed'[About[e]] = indexed[About[e]]
    BY <2>2, <2>3
  <2>4. CASE indexed'[About[e]] # indexed[About[e]]
    <3>1. About[e] = About[d] /\ c # Unwritten /\ indexed'[About[d]] = c
      BY <1>2, <2>1, <2>4
    <3>2. QED
      BY <3>1
  <2>5. QED
    BY <2>3, <2>4
<1>4. \A p \in Topic : indexed[p] # NoRow => indexed'[p] # NoRow
  BY <1>1, <1>2
<1>5. QED
  BY <1>2, <1>3, <1>4

(* The empty desk has delivered nothing.                                   *)
LEMMA InitDesk == DeskInit => DeskInv
<1> SUFFICES ASSUME DeskInit PROVE DeskInv
  OBVIOUS
<1>1. Wordings \in Nat /\ NoRow = Wordings + 1 /\ Unwritten = 0 /\ Struck(Wordings) = -Wordings
  BY DeskAssumption DEF NoRow, Unwritten, Struck
<1>2. 0 \in 0 .. Wordings /\ NoRow \in 0 .. NoRow /\ 0 \in Struck(Wordings) .. Wordings
  BY <1>1
<1>3. BareDesk \in Desks /\ BareDesk.done = {}
  BY <1>1, <1>2 DEF BareDesk, Desks
<1>4. Resting \in [at : StepAt, d : Drafted \cup {Unwritten}] /\ Resting.at = "idle"
  BY DEF Resting, StepAt
<1>5. /\ desk = BareDesk /\ filed = BareDesk /\ found = BareDesk
      /\ step = Resting /\ errand = NoErrand /\ worded = 0
      /\ \A d \in Drafted : taken[d] = "none"
  BY DEF DeskInit
<1>6. DeskShape
  BY <1>1, <1>2, <1>3, <1>4, <1>5 DEF DeskInit, DeskShape
<1>7. DecisionsStand
  BY <1>5 DEF DecisionsStand
<1>8. UnderWay(step, desk, inbox, indexed, displayed)
  BY <1>4, <1>5 DEF UnderWay
<1>9. Searchable(desk, indexed) /\ DeliveredOn(desk, inbox, indexed, displayed)
      /\ DeliveredOn(filed, inbox, indexed, displayed) /\ DeliveredOn(found, inbox, indexed, displayed)
  BY <1>3, <1>5 DEF Searchable, DeliveredOn
<1>10. QED
  BY <1>6, <1>7, <1>8, <1>9 DEF DeskInv

(* One step per action; <1>grow carries over what all three desks delivered. *)
LEMMA NextDesk == DeskInv /\ [DeskNext]_deskVars => DeskInv'
<1> SUFFICES ASSUME DeskInv, [DeskNext]_deskVars PROVE DeskInv'
  OBVIOUS
<1>inv. /\ DeskShape /\ DecisionsStand /\ Searchable(desk, indexed)
        /\ UnderWay(step, desk, inbox, indexed, displayed)
        /\ DeliveredOn(desk, inbox, indexed, displayed)
        /\ DeliveredOn(filed, inbox, indexed, displayed)
        /\ DeliveredOn(found, inbox, indexed, displayed)
  BY DEF DeskInv
<1>typed. desk \in Desks /\ filed \in Desks /\ found \in Desks
  BY <1>inv DEF DeskShape
<1>texts. \A D \in Desks : D.text \in [Drafted -> 0 .. Wordings] /\ D.done \subseteq Drafted
                           /\ D.sent \subseteq Drafted /\ D.known \subseteq Topic
  BY DEF Desks
<1>nums. Wordings \in Nat /\ NoRow = Wordings + 1 /\ Unwritten = 0 /\ Struck(Wordings) = -Wordings
  BY DeskAssumption DEF NoRow, Unwritten, Struck
<1>rest. Resting.at = "idle" /\ Resting \in [at : StepAt, d : Drafted \cup {Unwritten}]
  BY DEF Resting, StepAt
<1>topic. \A d \in Drafted : About[d] \in Topic
  BY DEF Topic
<1>grow. ASSUME \A d \in Drafted : inbox[d] # "none" => inbox'[d] # "none",
                \A p \in Topic : indexed[p] # NoRow => indexed'[p] # NoRow,
                \A d \in Drafted : displayed[d] \subseteq displayed'[d]
         PROVE  /\ DeliveredOn(desk, inbox', indexed', displayed')
                /\ DeliveredOn(filed, inbox', indexed', displayed')
                /\ DeliveredOn(found, inbox', indexed', displayed')
  BY <1>grow, <1>inv, <1>typed, DeliveredStays
<1>idle. step = Resting => \A D, I, X, S : UnderWay(step, D, I, X, S)
  BY <1>rest DEF UnderWay
<1>errand. ASSUME errand # NoErrand
           PROVE  errand \in ErrandOf(Decisions \cup NewTexts, Drafted, {"own", "reply", "pane"})
                  /\ errand.d \in Drafted
  BY <1>errand, <1>inv DEF DeskShape, ErrandOf
<1>done. ASSUME errand # NoErrand, CarriedOut
         PROVE  errand' \in ErrandOf(Decisions \cup NewTexts, Drafted, {"own", "reply", "pane"})
  BY <1>done, <1>errand DEF CarriedOut, ErrandOf
<1>1. ASSUME NEW d \in Drafted, WriteDraft(d) PROVE DeskInv'
  <2>1. /\ step = Resting /\ d \notin desk.done /\ filed' = desk'
        /\ indexed' = index_update(About[d], Unwritten) /\ step' = [at |-> "send", d |-> d]
        /\ UNCHANGED <<found, inbox, bubble, receipted, pane, displayed, taken, errand>>
    BY <1>1 DEF WriteDraft, screen
  <2>2. /\ desk' \in Desks /\ worded' \in 0 .. Wordings /\ desk'.done = desk.done
        /\ desk'.text[d] # Unwritten
        /\ \A e \in Drafted : desk.text[e] # Unwritten \/ e # d => desk'.text[e] = desk.text[e]
    <3>1. CASE InMemory(d) /\ UNCHANGED <<desk, worded>>
      BY <3>1, <1>inv, <1>typed DEF InMemory, DeskShape
    <3>2. CASE ~InMemory(d) /\ worded < Wordings /\ worded' = worded + 1
               /\ desk' = [desk EXCEPT !.text[d] = worded']
      <4>1. worded \in 0 .. Wordings
        BY <1>inv DEF DeskShape
      <4>2. worded' \in 0 .. Wordings /\ worded' # Unwritten
        BY <3>2, <4>1, <1>nums
      <4>3. /\ desk' \in Desks /\ desk'.done = desk.done /\ desk'.text[d] = worded'
            /\ \A e \in Drafted : e # d => desk'.text[e] = desk.text[e]
        <5> DEFINE w == worded'
        <5>1. desk' = [desk EXCEPT !.text[d] = w] /\ w \in 0 .. Wordings
          BY <3>2, <4>2
        <5> HIDE DEF w
        <5>2. /\ desk' \in Desks /\ desk'.done = desk.done /\ desk'.text[d] = w
              /\ \A e \in Drafted : e # d => desk'.text[e] = desk.text[e]
          BY <5>1, <1>typed, TextKept
        <5>3. QED
          BY <5>2 DEF w
      <4>4. QED
        BY <3>2, <4>2, <4>3 DEF InMemory
    <3>3. QED
      BY <1>1, <3>1, <3>2 DEF WriteDraft
  <2>3. /\ indexed' \in [Topic -> 0 .. NoRow] /\ indexed'[About[d]] # NoRow
        /\ \A p \in Topic : indexed[p] # NoRow => indexed'[p] = indexed[p]
    <3>1. /\ \A p \in Topic : indexed'[p] = IF p = About[d] /\ indexed[p] = NoRow THEN Unwritten ELSE indexed[p]
          /\ indexed' \in [Topic -> 0 .. NoRow]
      <4>1. indexed' = [indexed EXCEPT ![About[d]] = IF @ = NoRow THEN Unwritten ELSE @]
        BY <2>1 DEF index_update
      <4>2. Unwritten \in 0 .. NoRow
        BY <1>nums
      <4>3. QED
        BY <4>1, <4>2, <1>inv, <1>topic DEF DeskShape
    <3>2. QED
      BY <3>1, <1>nums, <1>topic
  <2>4. /\ DeliveredOn(desk, inbox', indexed', displayed')
        /\ DeliveredOn(found, inbox', indexed', displayed')
    BY <2>1, <2>3, <1>grow
  <2>5. \A e \in desk.done : e # d /\ desk'.text[e] = desk.text[e]
    BY <2>1, <2>2, <1>texts, <1>typed
  <2>6. DeliveredOn(desk', inbox', indexed', displayed')
    BY <2>2, <2>4, <2>5 DEF DeliveredOn
  <2>7. Searchable(desk', indexed')
    <3> SUFFICES ASSUME NEW e \in desk.done
                 PROVE  \E f \in Drafted : About[f] = About[e] /\ desk'.text[f] # Unwritten
                                           /\ indexed'[About[e]] = desk'.text[f]
      BY <2>2 DEF Searchable
    <3>1. PICK f \in Drafted : About[f] = About[e] /\ desk.text[f] # Unwritten
                               /\ indexed[About[e]] = desk.text[f]
      BY <1>inv DEF Searchable
    <3>2. indexed'[About[e]] = indexed[About[e]]
      BY <2>3, <1>inv, <1>texts, <1>typed, <1>topic DEF DeliveredOn
    <3>3. QED
      BY <3>1, <3>2, <2>2
  <2>8. UnderWay(step', desk', inbox', indexed', displayed')
    BY <2>1, <2>2, <2>3 DEF UnderWay
  <2>9. DeskShape'
    BY <2>1, <2>2, <2>3, <1>inv DEF DeskShape, StepAt
  <2>10. DecisionsStand'
    BY <2>1, <1>inv DEF DecisionsStand
  <2>11. QED
    BY <2>1, <2>4, <2>6, <2>7, <2>8, <2>9, <2>10 DEF DeskInv
<1>step. step.at # "idle" =>
           step.d \in Drafted /\ desk.text[step.d] \in 1 .. Wordings /\ indexed[About[step.d]] # NoRow
  BY <1>inv, <1>typed, <1>texts, <1>nums DEF UnderWay
<1>moves. \A a \in StepAt : [step EXCEPT !.at = a] \in [at : StepAt, d : Drafted \cup {Unwritten}]
            /\ [step EXCEPT !.at = a].at = a /\ [step EXCEPT !.at = a].d = step.d
  BY <1>inv DEF DeskShape
<1>2. CASE SendDraft
  <2> DEFINE d == step.d
             text == desk.text[d]
  <2>1. /\ step.at = "send" /\ step' = [step EXCEPT !.at = "sent"]
        /\ desk' = [desk EXCEPT !.sent = @ \cup {d}, !.known = @ \cup {About[d]}]
        /\ bubble' = IF <<d, text>> \in receipted THEN bubble ELSE [bubble EXCEPT ![d] = text]
        /\ receipted' = receipted \cup {<<d, text>>} /\ Displays(d, text)
        /\ UNCHANGED <<filed, found, inbox, indexed, pane, taken, errand, worded>>
    BY <1>2 DEF SendDraft, deskCounts
  <2>2. d \in Drafted /\ text \in 1 .. Wordings /\ indexed[About[d]] # NoRow
    BY <2>1, <1>step
  <2>3. step' \in [at : StepAt, d : Drafted \cup {Unwritten}] /\ step'.at = "sent" /\ step'.d = d
    BY <2>1, <1>moves DEF StepAt
  <2> HIDE DEF d, text
  <2>4. desk' \in Desks /\ desk'.text = desk.text /\ desk'.done = desk.done
    <3> DEFINE s == desk.sent \cup {d}
               k == desk.known \cup {About[d]}
    <3>1. desk' = [desk EXCEPT !.sent = s, !.known = k]
      BY <2>1
    <3>2. s \in SUBSET Drafted /\ k \in SUBSET Topic
      BY <2>2, <1>texts, <1>typed, <1>topic
    <3> DEFINE shown == [desk EXCEPT !.sent = s, !.known = k]
    <3> HIDE DEF s, k
    <3>3. shown \in Desks /\ shown.text = desk.text /\ shown.done = desk.done
      BY <3>2, <1>typed, SentKept, Zenon
    <3>4. desk' = shown
      BY <3>1
    <3> HIDE DEF shown
    <3>5. QED
      BY <3>3, <3>4
  <2>5. /\ displayed' \in [Drafted -> SUBSET (1 .. Wordings)]
        /\ \A e \in Drafted : displayed[e] \subseteq displayed'[e]
        /\ text \in displayed'[d]
    <3>1. text \in Struck(Wordings) .. Wordings /\ text # Unwritten /\ text > 0
      BY <2>2, <1>nums
    <3>2. QED
      BY <3>1, <2>1, <2>2, <1>inv, ShowsText
  <2>6. bubble' \in [Drafted -> Struck(Wordings) .. Wordings]
        /\ receipted' \subseteq Drafted \X (1 .. Wordings)
    <3>1. text \in Struck(Wordings) .. Wordings
      BY <2>2, <1>nums
    <3>2. QED
      BY <3>1, <2>1, <2>2, <1>inv DEF DeskShape
  <2>7. DeskShape'
    BY <2>1, <2>3, <2>4, <2>5, <2>6, <1>inv DEF DeskShape
  <2>8. /\ DeliveredOn(desk, inbox', indexed', displayed')
        /\ DeliveredOn(filed, inbox', indexed', displayed')
        /\ DeliveredOn(found, inbox', indexed', displayed')
    BY <2>1, <2>5, <1>grow
  <2>9. DeliveredOn(desk', inbox', indexed', displayed') /\ Searchable(desk', indexed')
    BY <2>1, <2>4, <2>8, <1>inv DEF DeliveredOn, Searchable
  <2>10. UnderWay(step', desk', inbox', indexed', displayed')
    BY <2>1, <2>2, <2>3, <2>4, <2>5, <1>nums DEF UnderWay, text
  <2>11. DecisionsStand'
    BY <2>1, <1>inv DEF DecisionsStand
  <2>12. QED
    BY <2>1, <2>7, <2>8, <2>9, <2>10, <2>11 DEF DeskInv
<1>plain. ASSUME UNCHANGED <<desk, filed, found, inbox, indexed, taken, worded>>, DeskShape',
                 \A d \in Drafted : displayed[d] \subseteq displayed'[d],
                 step' = step \/ step' = Resting
          PROVE  DeskInv'
  <2>1. /\ DeliveredOn(desk, inbox', indexed', displayed')
        /\ DeliveredOn(filed, inbox', indexed', displayed')
        /\ DeliveredOn(found, inbox', indexed', displayed')
    BY <1>plain, <1>grow
  <2>2. UnderWay(step', desk', inbox', indexed', displayed')
    BY <1>plain, <1>inv, <1>rest DEF UnderWay
  <2>3. DecisionsStand'
    BY <1>plain, <1>inv DEF DecisionsStand
  <2>4. QED
    BY <1>plain, <2>1, <2>2, <2>3, <1>inv DEF DeskInv
<1>3. CASE DraftUnsent
  <2> DEFINE d == step.d
             text == desk.text[d]
  <2>1. /\ step.at = "send" /\ step' = Resting
        /\ UNCHANGED <<desk, filed, found, inbox, indexed, receipted, pane, taken, errand, worded>>
        /\ \/ UNCHANGED <<bubble, displayed>>
           \/ bubble' = [bubble EXCEPT ![d] = text] /\ Displays(d, text)
    BY <1>3 DEF DraftUnsent, stateFile
  <2>2. d \in Drafted /\ text \in Struck(Wordings) .. Wordings /\ text # Unwritten
    BY <2>1, <1>step, <1>nums
  <2> HIDE DEF d, text
  <2>3. /\ displayed' \in [Drafted -> SUBSET (1 .. Wordings)]
        /\ \A e \in Drafted : displayed[e] \subseteq displayed'[e]
        /\ bubble' \in [Drafted -> Struck(Wordings) .. Wordings]
    <3>1. CASE UNCHANGED <<bubble, displayed>>
      BY <3>1, <1>inv DEF DeskShape
    <3>2. CASE bubble' = [bubble EXCEPT ![d] = text] /\ Displays(d, text)
      <4>1. bubble' \in [Drafted -> Struck(Wordings) .. Wordings]
        BY <3>2, <2>2, <1>inv DEF DeskShape
      <4>2. QED
        BY <3>2, <4>1, <2>2, <1>inv, ShowsText
    <3>3. QED
      BY <2>1, <3>1, <3>2
  <2>4. DeskShape'
    BY <2>1, <2>3, <1>inv, <1>rest DEF DeskShape
  <2>5. QED
    BY <2>1, <2>3, <2>4, <1>plain
<1>4. CASE ListDraft
  <2>1. /\ step.at = "sent" /\ step' = [step EXCEPT !.at = "listed"] /\ inbox' = upsert(step.d)
        /\ UNCHANGED <<desk, filed, found, indexed, bubble, receipted, pane, displayed, taken, errand, worded>>
    BY <1>4 DEF ListDraft, stateFile, screen, deskCounts
  <2>2. step.d \in Drafted
    BY <2>1, <1>step
  <2>3. step' \in [at : StepAt, d : Drafted \cup {Unwritten}] /\ step'.at = "listed" /\ step'.d = step.d
    BY <2>1, <1>moves DEF StepAt
  <2>4. /\ inbox' \in [Drafted -> {"none", "pending", "ready", "rejected"}] /\ inbox'[step.d] # "none"
        /\ \A e \in Drafted : inbox[e] # "none" => inbox'[e] = inbox[e]
    BY <2>1, <2>2, <1>inv DEF upsert, DeskShape
  <2>5. DeskShape'
    BY <2>1, <2>3, <2>4, <1>inv DEF DeskShape
  <2>6. /\ DeliveredOn(desk, inbox', indexed', displayed')
        /\ DeliveredOn(filed, inbox', indexed', displayed')
        /\ DeliveredOn(found, inbox', indexed', displayed')
    BY <2>1, <2>4, <1>grow
  <2>7. UnderWay(step', desk', inbox', indexed', displayed')
    BY <2>1, <2>2, <2>3, <2>4, <1>inv DEF UnderWay
  <2>8. DecisionsStand'
    BY <2>1, <2>4, <1>inv DEF DecisionsStand, DeskShape
  <2>9. QED
    BY <2>1, <2>5, <2>6, <2>7, <2>8, <1>inv DEF DeskInv
<1>5. CASE IndexDraft
  <2> DEFINE d == step.d
             text == desk.text[d]
  <2>1. /\ step.at = "listed" /\ step' = [step EXCEPT !.at = "indexed"]
        /\ indexed' = index_update(About[d], text)
        /\ UNCHANGED <<desk, filed, found, inbox, bubble, receipted, pane, displayed, taken, errand, worded>>
    BY <1>5 DEF IndexDraft, stateFile, screen, deskCounts
  <2>2. d \in Drafted /\ text \in 1 .. Wordings
    BY <2>1, <1>step
  <2>3. step' \in [at : StepAt, d : Drafted \cup {Unwritten}] /\ step'.at = "indexed" /\ step'.d = d
    BY <2>1, <1>moves DEF StepAt
  <2>u. text \in displayed[d] /\ inbox[d] # "none"
    BY <2>1, <1>inv DEF UnderWay
  <2> HIDE DEF d, text
  <2>4. /\ indexed' \in [Topic -> 0 .. NoRow] /\ indexed'[About[d]] = text
        /\ \A p \in Topic : p # About[d] => indexed'[p] = indexed[p]
    <3>1. text \in 0 .. NoRow /\ text # Unwritten
      BY <2>2, <1>nums
    <3>2. indexed' = [indexed EXCEPT ![About[d]] = text]
      BY <2>1, <3>1 DEF index_update
    <3>3. QED
      BY <3>1, <3>2, <2>2, <1>inv, <1>topic DEF DeskShape
  <2>5. text # NoRow /\ text # Unwritten
    BY <2>2, <1>nums
  <2>6. DeskShape'
    BY <2>1, <2>3, <2>4, <1>inv DEF DeskShape
  <2>7. \A p \in Topic : indexed[p] # NoRow => indexed'[p] # NoRow
    BY <2>4, <2>5
  <2>8. /\ DeliveredOn(desk, inbox', indexed', displayed')
        /\ DeliveredOn(filed, inbox', indexed', displayed')
        /\ DeliveredOn(found, inbox', indexed', displayed')
    BY <2>1, <2>7, <1>grow
  <2>9. Searchable(desk', indexed')
    <3> SUFFICES ASSUME NEW e \in desk.done
                 PROVE  \E f \in Drafted : About[f] = About[e] /\ desk.text[f] # Unwritten
                                           /\ indexed'[About[e]] = desk.text[f]
      BY <2>1 DEF Searchable
    <3>1. CASE About[e] = About[d]
      BY <3>1, <2>2, <2>4, <2>5 DEF text
    <3>2. CASE About[e] # About[d]
      <4>1. About[e] \in Topic
        BY <1>texts, <1>typed, <1>topic
      <4>2. QED
        BY <3>2, <4>1, <2>4, <1>inv DEF Searchable
    <3>3. QED
      BY <3>1, <3>2
  <2>10. UnderWay(step', desk', inbox', indexed', displayed')
    BY <2>1, <2>2, <2>3, <2>4, <2>5, <2>u DEF UnderWay, text
  <2>11. DecisionsStand'
    BY <2>1, <1>inv DEF DecisionsStand
  <2>12. QED
    BY <2>1, <2>6, <2>8, <2>9, <2>10, <2>11 DEF DeskInv
<1>6. CASE FinishDraft
  <2> DEFINE d == step.d
  <2>1. /\ step.at = "indexed" /\ step' = Resting /\ filed' = desk'
        /\ desk' = [desk EXCEPT !.done = @ \cup {d}]
        /\ UNCHANGED <<found, inbox, indexed, bubble, receipted, pane, displayed, taken, errand, worded>>
    BY <1>6 DEF FinishDraft, screen, deskCounts
  <2>2. d \in Drafted /\ desk.text[d] # Unwritten /\ indexed[About[d]] # NoRow
        /\ desk.text[d] \in displayed[d] /\ inbox[d] # "none" /\ indexed[About[d]] = desk.text[d]
    BY <2>1, <1>inv DEF UnderWay
  <2> HIDE DEF d
  <2>3. desk' \in Desks /\ desk'.text = desk.text /\ desk'.done = desk.done \cup {d}
    BY <2>1, <2>2, <1>typed, DoneKept
  <2>4. DeliveredOn(desk', inbox', indexed', displayed')
    BY <2>1, <2>2, <2>3, <1>inv DEF DeliveredOn
  <2>5. Searchable(desk', indexed')
    BY <2>1, <2>2, <2>3, <1>inv DEF Searchable
  <2>6. DeskShape'
    BY <2>1, <2>3, <1>inv, <1>rest DEF DeskShape
  <2>7. UnderWay(step', desk', inbox', indexed', displayed')
    BY <2>1, <1>rest DEF UnderWay
  <2>8. DecisionsStand'
    BY <2>1, <1>inv DEF DecisionsStand
  <2>9. QED
    BY <2>1, <2>4, <2>5, <2>6, <2>7, <2>8, <1>inv DEF DeskInv
<1>7. ASSUME NEW act \in Decisions \cup NewTexts, NEW d \in Drafted, NEW at \in {"own", "reply", "pane"},
             AsksFor(act, d, at)
      PROVE  DeskInv'
  <2>1. errand' \in ErrandOf(Decisions \cup NewTexts, Drafted, {"own", "reply", "pane"})
    BY <1>7 DEF AsksFor, ErrandOf
  <2>2. UNCHANGED <<desk, filed, found, inbox, indexed, bubble, receipted, pane, displayed, taken, step, worded>>
    BY <1>7 DEF AsksFor, stateFile, screen
  <2>3. DeskShape'
    BY <2>1, <2>2, <1>inv DEF DeskShape
  <2>4. QED
    BY <2>2, <2>3, <1>plain
<1>8. ASSUME NEW d \in Drafted, Opens(d) PROVE DeskInv'
  <2>1. /\ pane' \in Drafted \cup {Unwritten}
        /\ (InMemory(d) /\ Displays(d, desk.text[d])) \/ UNCHANGED displayed
        /\ UNCHANGED <<desk, filed, found, inbox, indexed, bubble, receipted, taken, errand, step, worded>>
    BY <1>8 DEF Opens, stateFile, deskCounts
  <2>2. /\ displayed' \in [Drafted -> SUBSET (1 .. Wordings)]
        /\ \A e \in Drafted : displayed[e] \subseteq displayed'[e]
    <3>1. CASE InMemory(d) /\ Displays(d, desk.text[d])
      <4>1. desk.text[d] \in Struck(Wordings) .. Wordings /\ desk.text[d] # Unwritten
        BY <3>1, <1>typed, <1>texts, <1>nums DEF InMemory
      <4>2. QED
        BY <3>1, <4>1, <1>inv, ShowsText
    <3>2. CASE UNCHANGED displayed
      BY <3>2, <1>inv DEF DeskShape
    <3>3. QED
      BY <2>1, <3>1, <3>2
  <2>3. DeskShape'
    BY <2>1, <2>2, <1>inv DEF DeskShape
  <2>4. QED
    BY <2>1, <2>2, <2>3, <1>plain
<1>9. CASE SearchedInstead \/ NotModified
  <2>1. errand # NoErrand /\ CarriedOut
        /\ UNCHANGED <<desk, filed, found, inbox, indexed, bubble, receipted, pane, displayed, taken, step, worded>>
    BY <1>9 DEF SearchedInstead, NotModified, AtTheDesk, stateFile, screen, deskCounts
  <2>2. DeskShape'
    BY <2>1, <1>inv, <1>done DEF DeskShape
  <2>3. QED
    BY <2>1, <2>2, <1>plain
<1>edited. ASSUME NEW d \in Drafted, NEW w \in Struck(Wordings) .. Wordings, w # Unwritten,
                  UNCHANGED <<bubble, receipted, pane, displayed>> \/ edit_message_text(d, w)
           PROVE  /\ displayed' \in [Drafted -> SUBSET (1 .. Wordings)]
                  /\ \A e \in Drafted : displayed[e] \subseteq displayed'[e]
                  /\ bubble' \in [Drafted -> Struck(Wordings) .. Wordings]
                  /\ pane' \in Drafted \cup {Unwritten} /\ receipted' = receipted
  <2>1. CASE UNCHANGED <<bubble, receipted, pane, displayed>>
    BY <2>1, <1>inv DEF DeskShape
  <2>2. CASE edit_message_text(d, w)
    BY <2>2, <1>edited, <1>inv, Edits
  <2>3. QED
    BY <1>edited, <2>1, <2>2
<1>struck. ASSUME NEW d \in Drafted, InMemory(d)
           PROVE  Struck(desk.text[d]) \in Struck(Wordings) .. Wordings /\ Struck(desk.text[d]) # Unwritten
  <2>1. desk.text[d] \in 0 .. Wordings /\ desk.text[d] # 0
    BY <1>struck, <1>typed, <1>texts, <1>nums DEF InMemory
  <2>2. QED
    BY <2>1, <1>nums DEF Struck
<1>10. CASE Decide
  <2> DEFINE d == errand.d
  <2>1. /\ step = Resting /\ errand # NoErrand /\ CarriedOut
        /\ errand.act \in Decisions
        /\ IF errand.act = "reject" /\ InMemory(d)
           THEN edit_message_text(d, Struck(desk.text[d])) ELSE UNCHANGED <<bubble, receipted, pane, displayed>>
        /\ inbox' = set_status(d, StatusAsked) /\ TakesNote(d, StatusAsked)
        /\ indexed' = update_caption(About[d], desk.text[d])
        /\ UNCHANGED <<desk, filed, found, step, worded>>
    BY <1>10 DEF Decide, AtTheDesk, stateFile, screen, deskCounts
  <2>2. d \in Drafted /\ StatusAsked \in {"ready", "rejected"}
    BY <2>1, <1>errand DEF StatusAsked
  <2> HIDE DEF d
  <2>3. /\ displayed' \in [Drafted -> SUBSET (1 .. Wordings)]
        /\ \A e \in Drafted : displayed[e] \subseteq displayed'[e]
        /\ bubble' \in [Drafted -> Struck(Wordings) .. Wordings]
        /\ pane' \in Drafted \cup {Unwritten} /\ receipted' = receipted
    <3>1. CASE InMemory(d)
      <4>1. edit_message_text(d, Struck(desk.text[d])) \/ UNCHANGED <<bubble, receipted, pane, displayed>>
        BY <2>1
      <4>2. QED
        BY <2>2, <3>1, <4>1, <1>struck, <1>edited
    <3>2. CASE ~InMemory(d)
      BY <2>1, <3>2, <1>inv DEF DeskShape
    <3>3. QED
      BY <3>1, <3>2
  <2>4. /\ indexed' \in [Topic -> 0 .. NoRow]
        /\ \A p \in Topic : indexed[p] # NoRow => indexed'[p] # NoRow
        /\ Searchable(desk, indexed')
    <3> DEFINE c == desk.text[d]
    <3>1. c \in 0 .. Wordings /\ indexed' = update_caption(About[d], c)
      BY <2>1, <2>2, <1>typed, <1>texts
    <3>2. c # Unwritten => desk.text[d] = c
      OBVIOUS
    <3> HIDE DEF c
    <3>3. QED
      BY <3>1, <3>2, <2>2, <1>inv, <1>typed, CaptionUpdated
  <2>5. /\ inbox' \in [Drafted -> {"none", "pending", "ready", "rejected"}]
        /\ taken' \in [Drafted -> {"none", "ready", "rejected"}]
        /\ \A e \in Drafted : inbox[e] # "none" => inbox'[e] # "none"
        /\ \A e \in Drafted : taken'[e] # "none" => inbox'[e] = taken'[e]
    <3> DEFINE st == StatusAsked
    <3>1. inbox' = [inbox EXCEPT ![d] = IF @ = "none" THEN @ ELSE st]
          /\ taken' = [taken EXCEPT ![d] = IF inbox[d] = "none" THEN @ ELSE st]
      BY <2>1 DEF set_status, TakesNote
    <3> HIDE DEF st
    <3>2. st \in {"ready", "rejected"}
      BY <2>2 DEF st
    <3>3. QED
      BY <3>1, <3>2, <2>2, <1>inv DEF DeskShape, DecisionsStand
  <2>6. DeskShape'
    BY <2>1, <2>3, <2>4, <2>5, <1>inv, <1>done DEF DeskShape
  <2>7. /\ DeliveredOn(desk, inbox', indexed', displayed')
        /\ DeliveredOn(filed, inbox', indexed', displayed')
        /\ DeliveredOn(found, inbox', indexed', displayed')
    BY <2>3, <2>4, <2>5, <1>grow
  <2>8. UnderWay(step', desk', inbox', indexed', displayed')
    BY <2>1, <1>idle
  <2>9. DecisionsStand'
    BY <2>5 DEF DecisionsStand
  <2>10. QED
    BY <2>1, <2>4, <2>6, <2>7, <2>8, <2>9 DEF DeskInv
<1>11. CASE WriteAgain
  <2> DEFINE d == errand.d
  <2>1. /\ step = Resting /\ errand # NoErrand /\ CarriedOut
        /\ \/ /\ worded < Wordings /\ worded' = worded + 1
              /\ edit_message_text(d, worded')
              /\ desk' = [desk EXCEPT !.text[d] = worded']
              /\ indexed' = update_caption(About[d], worded')
           \/ /\ indexed' = update_caption(About[d], desk.text[d])
              /\ UNCHANGED <<desk, bubble, receipted, pane, displayed, worded>>
        /\ UNCHANGED <<filed, found, inbox, taken, step>>
    BY <1>11 DEF WriteAgain, AtTheDesk, KeptText, screen
  <2>2. d \in Drafted
    BY <2>1, <1>errand
  <2> HIDE DEF d
  <2>3. UnderWay(step', desk', inbox', indexed', displayed')
    BY <2>1, <1>idle
  <2>4. DecisionsStand'
    BY <2>1, <1>inv DEF DecisionsStand
  <2>5. CASE /\ worded < Wordings /\ worded' = worded + 1
             /\ edit_message_text(d, worded')
             /\ desk' = [desk EXCEPT !.text[d] = worded']
             /\ indexed' = update_caption(About[d], worded')
    <3> DEFINE w == worded'
    <3>1. w \in 1 .. Wordings
      BY <2>5, <1>inv, <1>nums DEF DeskShape
    <3>w. edit_message_text(d, w) /\ desk' = [desk EXCEPT !.text[d] = w]
          /\ indexed' = update_caption(About[d], w)
      BY <2>5
    <3> HIDE DEF w
    <3>2. w \in Struck(Wordings) .. Wordings /\ w # Unwritten /\ w > 0 /\ w \in 0 .. Wordings
          /\ w \in 0 .. NoRow /\ w # NoRow
      BY <3>1, <1>nums
    <3>3. /\ displayed' \in [Drafted -> SUBSET (1 .. Wordings)]
          /\ \A e \in Drafted : displayed[e] \subseteq displayed'[e]
          /\ w \in displayed'[d]
          /\ bubble' \in [Drafted -> Struck(Wordings) .. Wordings]
          /\ pane' \in Drafted \cup {Unwritten} /\ receipted' = receipted
      BY <2>2, <3>w, <3>2, <1>inv, Edits
    <3>4. /\ desk' \in Desks /\ desk'.done = desk.done /\ desk'.text[d] = w
          /\ \A e \in Drafted : e # d => desk'.text[e] = desk.text[e]
      BY <2>2, <3>w, <3>2, <1>typed, TextKept
    <3>5. /\ indexed' \in [Topic -> 0 .. NoRow]
          /\ indexed[About[d]] # NoRow => indexed'[About[d]] = w
          /\ \A p \in Topic : p # About[d] => indexed'[p] = indexed[p]
          /\ \A p \in Topic : indexed[p] # NoRow => indexed'[p] # NoRow
      BY <2>2, <3>w, <3>2, <1>inv, <1>topic DEF update_caption, DeskShape
    <3>6. DeskShape'
      <4>1. worded' \in 0 .. Wordings
        BY <3>2 DEF w
      <4>2. QED
        BY <2>1, <3>3, <3>4, <3>5, <4>1, <1>inv, <1>done DEF DeskShape
    <3>7. /\ DeliveredOn(desk, inbox', indexed', displayed')
          /\ DeliveredOn(filed, inbox', indexed', displayed')
          /\ DeliveredOn(found, inbox', indexed', displayed')
      BY <2>1, <3>3, <3>5, <1>grow
    <3>8. DeliveredOn(desk', inbox', indexed', displayed')
      <4> SUFFICES ASSUME NEW e \in desk.done
                   PROVE  /\ inbox'[e] # "none" /\ indexed'[About[e]] # NoRow
                          /\ desk'.text[e] # Unwritten /\ desk'.text[e] \in displayed'[e]
        BY <3>4 DEF DeliveredOn
      <4>1. e \in Drafted
        BY <1>typed, <1>texts
      <4>2. CASE e = d
        BY <4>2, <3>2, <3>3, <3>4, <3>7 DEF DeliveredOn
      <4>3. CASE e # d
        BY <4>1, <4>3, <3>4, <3>7 DEF DeliveredOn
      <4>4. QED
        BY <4>2, <4>3
    <3>9. Searchable(desk', indexed')
      <4> SUFFICES ASSUME NEW e \in desk.done
                   PROVE  \E f \in Drafted : About[f] = About[e] /\ desk'.text[f] # Unwritten
                                             /\ indexed'[About[e]] = desk'.text[f]
        BY <3>4 DEF Searchable
      <4>1. e \in Drafted /\ About[e] \in Topic /\ indexed[About[e]] # NoRow
        BY <1>typed, <1>texts, <1>topic, <1>inv DEF DeliveredOn
      <4>2. CASE About[e] = About[d]
        BY <4>1, <4>2, <2>2, <3>2, <3>4, <3>5
      <4>3. CASE About[e] # About[d]
        <5>1. PICK f \in Drafted : About[f] = About[e] /\ desk.text[f] # Unwritten
                                   /\ indexed[About[e]] = desk.text[f]
          BY <1>inv DEF Searchable
        <5>2. f # d /\ indexed'[About[e]] = indexed[About[e]]
          BY <4>1, <4>3, <5>1, <3>5
        <5>3. QED
          BY <5>1, <5>2, <3>4
      <4>4. QED
        BY <4>2, <4>3
    <3>10. QED
      BY <2>1, <2>3, <2>4, <3>6, <3>7, <3>8, <3>9 DEF DeskInv
  <2>6. CASE /\ indexed' = update_caption(About[d], desk.text[d])
             /\ UNCHANGED <<desk, bubble, receipted, pane, displayed, worded>>
    <3>1. /\ indexed' \in [Topic -> 0 .. NoRow]
          /\ \A p \in Topic : indexed[p] # NoRow => indexed'[p] # NoRow
          /\ Searchable(desk, indexed')
      <4> DEFINE c == desk.text[d]
      <4>1. c \in 0 .. Wordings /\ indexed' = update_caption(About[d], c)
        BY <2>6, <2>2, <1>typed, <1>texts
      <4>2. c # Unwritten => desk.text[d] = c
        OBVIOUS
      <4> HIDE DEF c
      <4>3. QED
        BY <4>1, <4>2, <2>2, <1>inv, <1>typed, CaptionUpdated
    <3>2. DeskShape'
      BY <2>1, <2>6, <3>1, <1>inv, <1>done DEF DeskShape
    <3>3. /\ DeliveredOn(desk, inbox', indexed', displayed')
          /\ DeliveredOn(filed, inbox', indexed', displayed')
          /\ DeliveredOn(found, inbox', indexed', displayed')
      BY <2>1, <2>6, <3>1, <1>grow
    <3>4. QED
      BY <2>1, <2>3, <2>4, <2>6, <3>1, <3>2, <3>3 DEF DeskInv
  <2>7. QED
    BY <2>1, <2>5, <2>6
<1>12. CASE RequestFails
  <2> DEFINE d == errand.d
             w == IF errand.act = "reject" THEN Struck(desk.text[d]) ELSE worded + 1
  <2>1. /\ step = Resting /\ errand # NoErrand /\ InMemory(d)
        /\ errand.act \in NewTexts => worded < Wordings
        /\ worded' = IF errand.act \in NewTexts THEN worded + 1 ELSE worded
        /\ UNCHANGED <<bubble, receipted, pane, displayed>> \/ (errand.act # "copy" /\ edit_message_text(d, w))
        /\ UNCHANGED <<desk, filed, found, inbox, indexed, taken, errand, step>>
    BY <1>12 DEF RequestFails, AtTheDesk, KeptText, screen
  <2>2. d \in Drafted /\ errand.act \in {"copy", "reject", "rewrite"}
    BY <2>1, <1>errand DEF ErrandOf, Decisions, NewTexts
  <2>3. worded \in 0 .. Wordings
    BY <1>inv DEF DeskShape
  <2>4. worded' \in 0 .. Wordings
    BY <2>1, <2>3, <1>nums
  <2>5. errand.act # "copy" => w \in Struck(Wordings) .. Wordings /\ w # Unwritten
    <3>1. CASE errand.act = "reject"
      BY <3>1, <2>1, <2>2, <1>struck
    <3>2. CASE errand.act = "rewrite"
      <4>1. w = worded + 1 /\ worded < Wordings
        BY <3>2, <2>1 DEF NewTexts
      <4> HIDE DEF w
      <4>2. QED
        BY <4>1, <2>3, <1>nums
    <3>3. QED
      BY <2>2, <3>1, <3>2
  <2> HIDE DEF d, w
  <2>6. /\ displayed' \in [Drafted -> SUBSET (1 .. Wordings)]
        /\ \A e \in Drafted : displayed[e] \subseteq displayed'[e]
        /\ bubble' \in [Drafted -> Struck(Wordings) .. Wordings]
        /\ pane' \in Drafted \cup {Unwritten} /\ receipted' = receipted
    <3>1. CASE UNCHANGED <<bubble, receipted, pane, displayed>>
      BY <3>1, <1>inv DEF DeskShape
    <3>2. CASE errand.act # "copy" /\ edit_message_text(d, w)
      BY <3>2, <2>2, <2>5, <1>edited
    <3>3. QED
      BY <2>1, <3>1, <3>2
  <2>7. DeskShape'
    BY <2>1, <2>4, <2>6, <1>inv DEF DeskShape
  <2>8. /\ DeliveredOn(desk, inbox', indexed', displayed')
        /\ DeliveredOn(filed, inbox', indexed', displayed')
        /\ DeliveredOn(found, inbox', indexed', displayed')
    BY <2>1, <2>6, <1>grow
  <2>9. UnderWay(step', desk', inbox', indexed', displayed')
    BY <2>1, <1>idle
  <2>10. DecisionsStand'
    BY <2>1, <1>inv DEF DecisionsStand
  <2>11. QED
    BY <2>1, <2>7, <2>8, <2>9, <2>10, <1>inv DEF DeskInv
<1>13. CASE SaveBatch
  <2>1. /\ errand' = NoErrand /\ filed' = desk
        /\ UNCHANGED <<desk, found, inbox, indexed, bubble, receipted, pane, displayed, taken, step, worded>>
    BY <1>13 DEF SaveBatch, screen, deskCounts
  <2>2. DeskShape'
    BY <2>1, <1>inv DEF DeskShape
  <2>3. DecisionsStand'
    BY <2>1, <1>inv DEF DecisionsStand
  <2>4. QED
    BY <2>1, <2>2, <2>3, <1>inv DEF DeskInv
<1>14. CASE StartDesk
  <2>1. PICK D \in {filed, found} :
          /\ desk' = D /\ filed' = D /\ found' = D
          /\ indexed' \in sync_drafts(sync_from_json(D), D)
          /\ inbox' = sync_from_state(D)
    BY <1>14 DEF StartDesk
  <2>2. /\ step' = Resting /\ errand' = [errand EXCEPT !.done = FALSE]
        /\ UNCHANGED <<bubble, receipted, pane, displayed, taken, worded>>
    BY <1>14 DEF StartDesk, screen
  <2>3. D \in Desks /\ DeliveredOn(D, inbox, indexed, displayed)
    BY <1>inv, <1>typed
  <2> DEFINE rows == sync_from_json(D)
  <2>4. \A p \in Topic : indexed[p] # NoRow => rows[p] = indexed[p]
    BY DEF sync_from_json
  <2>5. /\ indexed' \in [Topic -> 0 .. NoRow]
        /\ \A p \in Topic : IF rows[p] = NoRow \/ CaptionsOf(D, p) = {} THEN indexed'[p] = rows[p]
                            ELSE indexed'[p] \in CaptionsOf(D, p)
    BY <2>1 DEF sync_drafts
  <2> HIDE DEF rows
  <2>6. \A p \in Topic : NoRow \notin CaptionsOf(D, p)
    BY <2>3, <1>texts, <1>nums DEF CaptionsOf
  <2>7. \A p \in Topic : indexed[p] # NoRow => indexed'[p] # NoRow
    BY <2>4, <2>5, <2>6
  <2>8. /\ inbox' \in [Drafted -> {"none", "pending", "ready", "rejected"}]
        /\ \A e \in Drafted : inbox[e] # "none" => inbox'[e] = inbox[e]
    BY <2>1, <1>inv DEF sync_from_state, DeskShape
  <2>9. DeliveredOn(D, inbox', indexed', displayed')
    BY <2>2, <2>3, <2>7, <2>8, DeliveredStays
  <2>10. Searchable(D, indexed')
    <3> SUFFICES ASSUME NEW e \in D.done
                 PROVE  \E f \in Drafted : About[f] = About[e] /\ D.text[f] # Unwritten
                                           /\ indexed'[About[e]] = D.text[f]
      BY DEF Searchable
    <3>1. e \in Drafted /\ About[e] \in Topic /\ indexed[About[e]] # NoRow /\ D.text[e] # Unwritten
      BY <2>3, <1>texts, <1>topic DEF DeliveredOn
    <3>2. CaptionsOf(D, About[e]) # {}
      BY <3>1 DEF CaptionsOf
    <3>3. indexed'[About[e]] \in CaptionsOf(D, About[e])
      BY <3>1, <3>2, <2>4, <2>5
    <3>4. QED
      BY <3>3 DEF CaptionsOf
  <2>11. errand' = NoErrand \/ errand' \in ErrandOf(Decisions \cup NewTexts, Drafted, {"own", "reply", "pane"})
    <3>1. CASE errand = NoErrand
      BY <3>1, <2>2 DEF NoErrand
    <3>2. CASE errand # NoErrand
      BY <3>2, <2>2, <1>errand DEF ErrandOf
    <3>3. QED
      BY <3>1, <3>2
  <2>12. DeskShape'
    BY <2>1, <2>2, <2>3, <2>5, <2>8, <2>11, <1>inv, <1>rest DEF DeskShape
  <2>13. DecisionsStand'
    BY <2>2, <2>8, <1>inv DEF DecisionsStand, DeskShape
  <2>14. UnderWay(step', desk', inbox', indexed', displayed')
    BY <2>2, <1>rest DEF UnderWay
  <2>15. QED
    BY <2>1, <2>9, <2>10, <2>12, <2>13, <2>14 DEF DeskInv
<1>15. CASE UNCHANGED deskVars
  <2>1. UNCHANGED <<desk, filed, found, inbox, indexed, bubble, receipted, pane, displayed, taken, errand, step, worded>>
    BY <1>15 DEF deskVars
  <2>2. DeskShape'
    BY <2>1, <1>inv DEF DeskShape
  <2>3. QED
    BY <2>1, <2>2, <1>plain
<1>16. ASSUME NEW act \in Decisions \cup NewTexts, PressOpened(act) PROVE DeskInv'
  <2>1. pane \in Drafted /\ AsksFor(act, pane, "pane")
    BY <1>16, <1>inv DEF PressOpened, DeskShape
  <2>2. QED
    BY <2>1, <1>7
<1>17. QED
  BY <1>1, <1>2, <1>3, <1>4, <1>5, <1>6, <1>7, <1>8, <1>9, <1>10, <1>11, <1>12, <1>13, <1>14, <1>15, <1>16
  DEF DeskNext, open_inbox_draft, open_editorial_draft, PressButton, ReplyTo

(* The invariant holds throughout.                                         *)
LEMMA DeskInvHolds == DeskSpec => []DeskInv
BY InitDesk, NextDesk, PTL DEF DeskSpec

(* Every variable of the desk has its type.                                *)
THEOREM DeskTypesHold == DeskSpec => []DeskTypes
<1>1. ASSUME DeskInv PROVE DeskTypes
  <2>1. DeskShape
    BY <1>1 DEF DeskInv
  <2>2. errand.act \in Decisions \cup NewTexts \cup {"none"} /\ errand.done \in BOOLEAN
    <3>1. CASE errand = NoErrand
      BY <3>1 DEF NoErrand
    <3>2. CASE errand \in ErrandOf(Decisions \cup NewTexts, Drafted, {"own", "reply", "pane"})
      BY <3>2 DEF ErrandOf
    <3>3. QED
      BY <2>1, <3>1, <3>2 DEF DeskShape
  <2>3. step.at \in {"idle", "send", "sent", "listed", "indexed"}
    BY <2>1 DEF DeskShape, StepAt
  <2>4. QED
    BY <2>1, <2>2, <2>3 DEF DeskShape, DeskTypes
<1>2. QED
  BY <1>1, DeskInvHolds, PTL

(* Through refused requests, lost answers, killed runs and files that came *)
(* back: a decision stays until the next one, and what was delivered is in *)
(* the inbox, is searched by a caption of one of the post's drafts, and is *)
(* kept with a text the editor was shown.                                  *)
THEOREM DeskStaysInAgreement == DeskSpec => []DeskAgrees
<1>1. ASSUME DeskInv PROVE DeskAgrees
  <2>1. \A d \in desk.done : /\ inbox[d] # "none"
                             /\ indexed[About[d]] \in {desk.text[e] : e \in DraftsOn(About[d])}
                             /\ desk.text[d] \in displayed[d]
    BY <1>1 DEF DeskInv, DeliveredOn, Searchable, DraftsOn, InMemory
  <2>2. QED
    BY <1>1, <2>1 DEF DeskInv, DeskAgrees, PlacesAgree
<1>2. QED
  BY <1>1, DeskInvHolds, PTL

----------------------------------------------------------------------------
(***************************************************************************)
(* The summaries of a list (FanficSummaries).                              *)
(***************************************************************************)

(* Division by a positive number keeps the order.                          *)
LEMMA Quotients ==
  ASSUME NEW B \in Nat \ {0}, NEW x \in Nat, NEW y \in Nat, x <= y
  PROVE  /\ x \div B \in Nat /\ x \div B <= y \div B /\ (x + B) \div B = x \div B + 1
<1>1. x \div B \in Int /\ y \div B \in Int /\ (x + B) \div B \in Int
  OBVIOUS
<1> DEFINE p == x \div B
           q == y \div B
           r == (x + B) \div B
<1>2. B * p <= x /\ x < B * p + B
  BY Z3
<1>3. B * q <= y /\ y < B * q + B
  BY Z3
<1>4. B * r <= x + B /\ x + B < B * r + B
  BY Z3
<1> HIDE DEF p, q, r
<1>5. QED
  BY <1>1, <1>2, <1>3, <1>4 DEF p, q, r

(* A list is finite.                                                      *)
LEMMA FiniteWorks ==
  ASSUME NEW S \in SUBSET (1 .. Works)
  PROVE  IsFiniteSet(S) /\ Cardinality(S) \in Nat
<1>1. Works \in Int /\ 1 \in Int
  BY SummariesAssumption
<1>2. IsFiniteSet(1 .. Works)
  BY <1>1, FS_Interval
<1>3. IsFiniteSet(S)
  BY <1>2, FS_Subset
<1>4. QED
  BY <1>3, FS_CardinalityType

(* The first k of a set of works.                                          *)
FirstOf(S, k, L) == L \in SUBSET S /\ Cardinality(L) = k /\ \A v \in L, w \in S \ L : v < w

LEMMA FirstExist ==
  ASSUME NEW S \in SUBSET (1 .. Works), NEW k \in 0 .. Cardinality(S)
  PROVE  \E L : FirstOf(S, k, L)
<1>1. IsFiniteSet(S) /\ Cardinality(S) \in Nat
  BY FiniteWorks
<1>2. S \subseteq Nat
  OBVIOUS
<1> DEFINE none == {j \in 0 .. Cardinality(S) : ~\E L : FirstOf(S, j, L)}
<1>3. ASSUME none # {} PROVE FALSE
  <2>1. none \subseteq Nat
    BY <1>1
  <2> HIDE DEF none
  <2>2. PICK m \in none : \A j \in none : m <= j
    BY <1>3, <2>1, LeastNumber
  <2> USE DEF none
  <2>3. m \in 0 .. Cardinality(S) /\ ~\E L : FirstOf(S, m, L)
    BY <2>2
  <2>4. m # 0
    <3>1. Cardinality({}) = 0
      BY FS_EmptySet
    <3>2. FirstOf(S, 0, {})
      BY <3>1 DEF FirstOf
    <3>3. QED
      BY <2>3, <3>2
  <2>5. m - 1 \in 0 .. Cardinality(S) /\ m - 1 \notin none
    BY <1>1, <2>2, <2>3, <2>4
  <2>6. PICK L : FirstOf(S, m - 1, L)
    BY <2>5
  <2>7. L \subseteq S /\ IsFiniteSet(L) /\ Cardinality(L) = m - 1
    BY <1>1, <2>6, FS_Subset DEF FirstOf
  <2>8. ASSUME S \ L = {} PROVE FALSE
    <3>1. S = L
      BY <2>7, <2>8
    <3>2. Cardinality(S) = m - 1
      BY <2>7, <3>1
    <3>3. QED
      BY <1>1, <2>3, <3>2
  <2>9. PICK x \in S \ L : \A y \in S \ L : x <= y
    BY <1>2, <2>8, LeastNumber
  <2>10. Cardinality(L \cup {x}) = m
    <3>1. Cardinality(L \cup {x}) = Cardinality(L) + 1
      BY <2>7, <2>9, FS_AddElement
    <3>2. QED
      BY <1>1, <2>3, <2>7, <3>1
  <2>11. ASSUME NEW v \in L \cup {x}, NEW w \in S \ (L \cup {x}) PROVE v < w
    <3>1. CASE v \in L
      BY <2>6, <3>1 DEF FirstOf
    <3>2. CASE v = x
      BY <1>2, <2>9, <3>2
    <3>3. QED
      BY <3>1, <3>2
  <2>12. FirstOf(S, m, L \cup {x})
    BY <2>7, <2>9, <2>10, <2>11 DEF FirstOf
  <2>13. QED
    BY <2>3, <2>12
<1>4. QED
  BY <1>3

(* The half of a subset is part of it.                                     *)
LEMMA MiddleOf ==
  ASSUME NEW S \in SUBSET (1 .. Works)
  PROVE  Middle(S) \subseteq S
<1>1. Cardinality(S) \in Nat
  BY FiniteWorks
<1>2. Cardinality(S) \div 2 \in 0 .. Cardinality(S)
  BY <1>1
<1>3. PICK L : FirstOf(S, Cardinality(S) \div 2, L)
  BY <1>2, FirstExist
<1>4. \E M \in SUBSET S : /\ Cardinality(M) = Cardinality(S) \div 2
                          /\ \A v \in M, w \in S \ M : v < w
  BY <1>3 DEF FirstOf
<1>5. Middle(S) \in SUBSET S
  BY <1>4 DEF Middle
<1>6. QED
  BY <1>5

----------------------------------------------------------------------------
(* A model asked changes the models left, not the subset.                  *)
AskingWith(S, M, C, Q, A) == [subset : S, models : M, candidates : C, quotas : Q, again : A]
IsAsking(a) == a \in AskingWith({a.subset}, {a.models}, {a.candidates}, {a.quotas}, {a.again})

Turned(a, M, Q, A) == [a EXCEPT !.models = M, !.quotas = Q, !.again = A]

LEMMA AskingChanges ==
  ASSUME NEW a, IsAsking(a), NEW M, NEW Q, NEW A
  PROVE  IsAsking(Turned(a, M, Q, A)) /\ Turned(a, M, Q, A).subset = a.subset
<1>1. Turned(a, M, Q, A) \in AskingWith({a.subset}, {M}, {a.candidates}, {Q}, {A})
  BY DEF IsAsking, AskingWith, Turned
<1>2. QED
  BY <1>1 DEF IsAsking, AskingWith

(* What the agenda and the subset in hand hold are works of the list.      *)
SummaryShape ==
  /\ agenda \in Seq(SUBSET (1 .. Works)) /\ IsAsking(asking) /\ asking.subset \subseteq 1 .. Works
  /\ calls \in Nat /\ translated \cup alone \subseteq 1 .. Works

(* A work that is still to be asked for.                                   *)
Waiting(list, w) == \E n \in DOMAIN list : w \in list[n]

(* As long as requests are left, no work is lost: it has its translation,   *)
(* was asked for alone, or is still to be asked for.                       *)
NoWorkLost ==
  ~halted /\ calls < max_calls =>
    \A w \in 1 .. Works : w \in translated \cup alone \cup asking.subset \/ Waiting(agenda, w)

SummaryInv == SummaryShape /\ NoWorkLost

(* The bound on requests is a number.                                      *)
LEMMA SummaryNumbers == max_calls \in Nat /\ Batches \in Nat
<1>1. Works + BatchSize - 1 \in Nat /\ BatchSize \in Nat \ {0} /\ Spare \in Nat
  BY SummariesAssumption
<1>2. Batches \in Nat
  BY <1>1, Quotients DEF Batches
<1>3. QED
  BY <1>1, <1>2 DEF max_calls

(* The batches have every work.                                            *)
LEMMA InitSummary == SummaryInit => SummaryInv
<1> SUFFICES ASSUME SummaryInit PROVE SummaryInv
  OBVIOUS
<1>1. agenda = [b \in 1 .. Batches |-> {w \in 1 .. Works : (w - 1) \div BatchSize = b - 1}]
      /\ asking = NotAsking /\ calls = 0 /\ translated = {} /\ alone = {}
  BY DEF SummaryInit
<1>2. IsAsking(asking) /\ asking.subset = {}
  <2>1. NotAsking \in AskingWith({{}}, {<<>>}, {0}, {0}, {FALSE})
    BY DEF NotAsking, AskingWith
  <2>2. QED
    BY <1>1, <2>1 DEF IsAsking, AskingWith
<1>3. agenda \in Seq(SUBSET (1 .. Works)) /\ DOMAIN agenda = 1 .. Batches
  BY <1>1, SummaryNumbers
<1>4. ASSUME NEW w \in 1 .. Works PROVE Waiting(agenda, w)
  <2>1. Works \in Nat /\ BatchSize \in Nat \ {0} /\ w - 1 \in Nat /\ Works - 1 \in Nat /\ w - 1 <= Works - 1
    BY SummariesAssumption
  <2> DEFINE q == (w - 1) \div BatchSize
  <2>2. /\ q \in Nat /\ q <= (Works - 1) \div BatchSize
        /\ (Works - 1) \div BatchSize \in Nat
        /\ ((Works - 1) + BatchSize) \div BatchSize = (Works - 1) \div BatchSize + 1
    <3> DEFINE x == w - 1
               y == Works - 1
    <3>1. x \in Nat /\ y \in Nat /\ x <= y /\ y <= y /\ BatchSize \in Nat \ {0}
      BY <2>1
    <3> HIDE DEF x, y
    <3>2. x \div BatchSize \in Nat /\ x \div BatchSize <= y \div BatchSize
      BY <3>1, Quotients
    <3>3. y \div BatchSize \in Nat /\ (y + BatchSize) \div BatchSize = y \div BatchSize + 1
      BY <3>1, Quotients
    <3>4. QED
      BY <3>2, <3>3 DEF x, y
  <2>3. Batches = (Works - 1) \div BatchSize + 1
    <3>1. Works + BatchSize - 1 = (Works - 1) + BatchSize
      BY <2>1
    <3>2. QED
      BY <2>2, <3>1 DEF Batches
  <2> HIDE DEF q
  <2>4. q + 1 \in 1 .. Batches /\ q = (q + 1) - 1
    BY <2>2, <2>3
  <2>5. w \in agenda[q + 1]
    BY <1>1, <2>4 DEF q
  <2>6. QED
    BY <1>3, <2>4, <2>5 DEF Waiting
<1>5. QED
  BY <1>1, <1>2, <1>3, <1>4 DEF SummaryInv, SummaryShape, NoWorkLost

(* One step per action; <1>turn is a model that gave nothing, <1>spent the  *)
(* end of the work.                                                        *)
LEMMA NextSummary == SummaryInv /\ [SummaryNext]_summaryVars => SummaryInv'
<1> SUFFICES ASSUME SummaryInv, [SummaryNext]_summaryVars PROVE SummaryInv'
  OBVIOUS
<1>inv. /\ agenda \in Seq(SUBSET (1 .. Works)) /\ IsAsking(asking) /\ asking.subset \subseteq 1 .. Works
        /\ calls \in Nat /\ translated \cup alone \subseteq 1 .. Works /\ NoWorkLost /\ max_calls \in Nat
  BY SummaryNumbers DEF SummaryInv, SummaryShape
<1>rest. IsAsking(NotAsking) /\ NotAsking.subset = {}
  <2>1. NotAsking \in AskingWith({{}}, {<<>>}, {0}, {0}, {FALSE})
    BY DEF NotAsking, AskingWith
  <2>2. QED
    BY <2>1 DEF IsAsking, AskingWith
<1>prefix. ASSUME NEW S \in SUBSET (1 .. Works)
           PROVE  /\ <<S>> \o agenda \in Seq(SUBSET (1 .. Works))
                  /\ \A w \in S : Waiting(<<S>> \o agenda, w)
                  /\ \A w \in 1 .. Works : Waiting(agenda, w) => Waiting(<<S>> \o agenda, w)
  <2> DEFINE list == <<S>> \o agenda
  <2>1. list \in Seq(SUBSET (1 .. Works)) /\ Len(list) = Len(agenda) + 1 /\ list[1] = S
        /\ \A n \in 1 .. Len(agenda) : list[n + 1] = agenda[n]
    BY <1>inv
  <2>2. DOMAIN agenda = 1 .. Len(agenda) /\ Len(agenda) \in Nat
    BY <1>inv
  <2> HIDE DEF list
  <2>3. DOMAIN list = 1 .. Len(list)
    BY <2>1
  <2>4. 1 \in DOMAIN list /\ \A n \in DOMAIN agenda : n + 1 \in DOMAIN list /\ list[n + 1] = agenda[n]
    BY <2>1, <2>2, <2>3
  <2>5. \A w \in S : Waiting(list, w)
    BY <2>1, <2>4 DEF Waiting
  <2>6. \A w \in 1 .. Works : Waiting(agenda, w) => Waiting(list, w)
    BY <2>4 DEF Waiting
  <2>7. QED
    BY <2>1, <2>5, <2>6 DEF list
<1>turn. ASSUME UNCHANGED <<agenda, translated, halted, alone>>, calls' = calls + 1,
                NEW M, NEW Q, NEW A, asking' = Turned(asking, M, Q, A)
         PROVE  SummaryInv'
  <2>1. IsAsking(asking') /\ asking'.subset = asking.subset /\ calls' \in Nat
    BY <1>inv, <1>turn, AskingChanges
  <2>2. ~halted' /\ calls' < max_calls => ~halted /\ calls < max_calls
    BY <1>inv, <1>turn
  <2>3. NoWorkLost'
    BY <1>inv, <1>turn, <2>1, <2>2 DEF NoWorkLost, Waiting, max_calls, Batches
  <2>4. QED
    BY <1>inv, <1>turn, <2>1, <2>3 DEF SummaryInv, SummaryShape, IsAsking, AskingWith
<1>spent. ASSUME agenda' \in Seq(SUBSET (1 .. Works)), asking' = NotAsking, calls' \in Nat,
                 translated' \cup alone' \subseteq 1 .. Works, halted' \/ ~(calls' < max_calls)
          PROVE  SummaryInv'
  BY <1>rest, <1>spent DEF SummaryInv, SummaryShape, NoWorkLost, IsAsking, AskingWith, max_calls, Batches
<1>1. CASE translate_subset
  <2>1. /\ asking = NotAsking /\ agenda # <<>> /\ agenda' = Tail(agenda)
        /\ UNCHANGED <<calls, translated, halted, alone>>
    BY <1>1 DEF translate_subset
  <2>2. /\ Head(agenda) \in SUBSET (1 .. Works) /\ Tail(agenda) \in Seq(SUBSET (1 .. Works))
        /\ \A w \in 1 .. Works : Waiting(agenda, w) => w \in Head(agenda) \/ Waiting(Tail(agenda), w)
    <3>1. /\ Head(agenda) = agenda[1] /\ Len(agenda) \in Nat \ {0} /\ Len(Tail(agenda)) = Len(agenda) - 1
          /\ Tail(agenda) \in Seq(SUBSET (1 .. Works))
          /\ \A n \in 1 .. Len(agenda) - 1 : Tail(agenda)[n] = agenda[n + 1]
          /\ DOMAIN agenda = 1 .. Len(agenda)
      BY <1>inv, <2>1
    <3>2. DOMAIN Tail(agenda) = 1 .. Len(agenda) - 1
      BY <3>1
    <3>3. Head(agenda) \in SUBSET (1 .. Works)
      BY <1>inv, <3>1
    <3>4. ASSUME NEW w \in 1 .. Works, NEW n \in DOMAIN agenda, w \in agenda[n]
          PROVE  w \in Head(agenda) \/ Waiting(Tail(agenda), w)
      <4>1. CASE n = 1
        BY <3>1, <3>4, <4>1
      <4>2. CASE n # 1
        <5>1. n - 1 \in 1 .. Len(agenda) - 1 /\ n = (n - 1) + 1
          BY <3>1, <4>2
        <5>2. w \in Tail(agenda)[n - 1]
          BY <3>1, <3>4, <5>1
        <5>3. QED
          BY <3>2, <5>1, <5>2 DEF Waiting
      <4>3. QED
        BY <4>1, <4>2
    <3>5. QED
      BY <3>1, <3>3, <3>4 DEF Waiting
  <2>3. CASE calls >= max_calls
    <3>1. asking' = NotAsking
      BY <1>1, <2>3 DEF translate_subset
    <3>2. QED
      BY <1>inv, <2>1, <2>2, <2>3, <3>1, <1>spent
  <2>4. CASE ~(calls >= max_calls)
    <3> DEFINE S == Head(agenda)
               M == active_candidates
               C == Len(active_candidates)
    <3>1. asking' = [NotAsking EXCEPT !.subset = S, !.models = M, !.candidates = C]
      BY <1>1, <2>4 DEF translate_subset
    <3> HIDE DEF S, M, C
    <3>2. asking' \in AskingWith({S}, {M}, {C}, {0}, {FALSE})
      BY <3>1 DEF NotAsking, AskingWith
    <3>3. IsAsking(asking') /\ asking'.subset = Head(agenda)
      BY <3>2 DEF IsAsking, AskingWith, S
    <3>4. NoWorkLost'
      BY <1>inv, <1>rest, <2>1, <2>2, <3>3 DEF NoWorkLost, max_calls, Batches
    <3>5. QED
      BY <1>inv, <2>1, <2>2, <3>3, <3>4 DEF SummaryInv, SummaryShape, IsAsking, AskingWith
  <2>5. QED
    BY <2>3, <2>4
<1>2. CASE AnswerTo
  <2>1. PICK result \in SUBSET asking.subset \ {{}} :
          translated' = translated \cup result /\ AskMissing(result)
    BY <1>2 DEF AnswerTo
  <2>2. asking' = NotAsking /\ calls' = calls + 1 /\ UNCHANGED <<halted, alone>>
    BY <1>2 DEF AnswerTo, pace_request
  <2> DEFINE missing == asking.subset \ result
  <2>3. missing \in SUBSET (1 .. Works)
    BY <1>inv
  <2>4. /\ agenda' \in Seq(SUBSET (1 .. Works))
        /\ \A w \in missing : Waiting(agenda', w)
        /\ \A w \in 1 .. Works : Waiting(agenda, w) => Waiting(agenda', w)
    <3>1. CASE asking.subset = result
      BY <1>inv, <2>1, <3>1 DEF AskMissing
    <3>2. CASE asking.subset # result
      <4>1. agenda' = <<missing>> \o agenda
        BY <2>1, <3>2 DEF AskMissing
      <4> HIDE DEF missing
      <4>2. QED
        BY <2>3, <4>1, <1>prefix
    <3>3. QED
      BY <3>1, <3>2
  <2>5. ~halted' /\ calls' < max_calls => ~halted /\ calls < max_calls
    BY <1>inv, <2>2
  <2>6. NoWorkLost'
    BY <1>inv, <1>rest, <2>1, <2>2, <2>4, <2>5 DEF NoWorkLost, max_calls, Batches
  <2>7. QED
    BY <1>inv, <1>rest, <2>1, <2>2, <2>4, <2>6 DEF SummaryInv, SummaryShape, IsAsking, AskingWith
<1>3. CASE EmptyAnswer
  <2>1. /\ UNCHANGED <<agenda, translated, halted, alone>> /\ calls' = calls + 1
        /\ asking' = [asking EXCEPT !.models = Tail(@), !.again = FALSE]
    BY <1>3 DEF EmptyAnswer, pace_request, NextModel
  <2>2. asking' = Turned(asking, Tail(asking.models), asking.quotas, FALSE)
    BY <1>inv, <2>1 DEF IsAsking, AskingWith, Turned
  <2>3. QED
    BY <2>1, <2>2, <1>turn
<1>4. CASE Unavailable
  <2>1. /\ UNCHANGED <<agenda, translated, halted, alone>> /\ calls' = calls + 1
        /\ \/ asking' = [asking EXCEPT !.models = Tail(@), !.again = FALSE]
           \/ asking' = [asking EXCEPT !.again = TRUE]
    BY <1>4 DEF Unavailable, pace_request, NextModel
  <2>2. \/ asking' = Turned(asking, Tail(asking.models), asking.quotas, FALSE)
        \/ asking' = Turned(asking, asking.models, asking.quotas, TRUE)
    BY <1>inv, <2>1 DEF IsAsking, AskingWith, Turned
  <2>3. QED
    BY <2>1, <2>2, <1>turn
<1>5. CASE QuotaError
  <2>1. /\ UNCHANGED <<agenda, translated, halted, alone>> /\ calls' = calls + 1
        /\ asking' = Turned(asking, Tail(asking.models), asking.quotas + 1, FALSE)
    BY <1>5 DEF QuotaError, pace_request, Turned
  <2>2. QED
    BY <2>1, <1>turn
<1>6. CASE SharedError
  <2>1. halted' = TRUE /\ asking' = NotAsking /\ agenda' = <<>> /\ calls' = calls + 1
        /\ UNCHANGED <<translated, alone>>
    BY <1>6 DEF SharedError, Halt, pace_request
  <2>2. agenda' \in Seq(SUBSET (1 .. Works)) /\ calls' \in Nat
    BY <1>inv, <2>1
  <2>3. QED
    BY <1>inv, <2>1, <2>2, <1>spent
<1>7. CASE OutOfRequests
  <2>1. calls >= max_calls /\ asking' = NotAsking /\ UNCHANGED <<agenda, calls, translated, alone>>
    BY <1>7 DEF OutOfRequests
  <2>2. QED
    BY <1>inv, <2>1, <1>spent
<1>8. CASE NoAnswer
  <2> DEFINE S == asking.subset
  <2>1. S # {} /\ S \in SUBSET (1 .. Works) /\ UNCHANGED <<calls, translated>>
    BY <1>8, <1>inv DEF NoAnswer
  <2>2. CASE Halt /\ UNCHANGED alone
    <3>1. agenda' \in Seq(SUBSET (1 .. Works)) /\ halted' = TRUE /\ asking' = NotAsking /\ alone' = alone
      BY <2>2 DEF Halt
    <3>2. QED
      BY <1>inv, <2>1, <3>1, <1>spent
  <2>3. CASE /\ asking' = NotAsking /\ halted' = halted
             /\ IF Cardinality(S) > 1 /\ calls < max_calls
                THEN agenda' = <<Middle(S), S \ Middle(S)>> \o agenda /\ UNCHANGED alone
                ELSE UNCHANGED agenda /\ alone' = IF Cardinality(S) = 1 THEN alone \cup S ELSE alone
    <3>1. IsFiniteSet(S) /\ Cardinality(S) \in Nat
      BY <2>1, FiniteWorks
    <3>2. Cardinality(S) # 0
      BY <2>1, <3>1, FS_EmptySet
    <3>3. CASE Cardinality(S) > 1 /\ calls < max_calls
      <4> DEFINE L == Middle(S)
                 H == S \ Middle(S)
      <4>1. L \subseteq S /\ L \in SUBSET (1 .. Works) /\ H \in SUBSET (1 .. Works) /\ S = L \cup H
        BY <2>1, MiddleOf
      <4>2. agenda' = <<L, H>> \o agenda /\ alone' = alone
        BY <2>3, <3>3
      <4> HIDE DEF L, H, S
      <4>3. /\ agenda' \in Seq(SUBSET (1 .. Works)) /\ Len(agenda') = Len(agenda) + 2
            /\ agenda'[1] = L /\ agenda'[2] = H
            /\ \A n \in 1 .. Len(agenda) : agenda'[n + 2] = agenda[n]
        BY <1>inv, <4>1, <4>2
      <4>4. DOMAIN agenda' = 1 .. Len(agenda) + 2 /\ DOMAIN agenda = 1 .. Len(agenda) /\ Len(agenda) \in Nat
        BY <1>inv, <4>3
      <4>5. \A w \in S : Waiting(agenda', w)
        <5>1. 1 \in DOMAIN agenda' /\ 2 \in DOMAIN agenda'
          BY <4>4
        <5>2. QED
          BY <4>1, <4>3, <5>1 DEF Waiting
      <4>6. \A w \in 1 .. Works : Waiting(agenda, w) => Waiting(agenda', w)
        <5>1. \A n \in DOMAIN agenda : n + 2 \in DOMAIN agenda' /\ agenda'[n + 2] = agenda[n]
          BY <4>3, <4>4
        <5>2. QED
          BY <5>1 DEF Waiting
      <4>7. NoWorkLost'
        BY <1>inv, <1>rest, <2>1, <2>3, <4>2, <4>5, <4>6 DEF NoWorkLost, max_calls, Batches, S
      <4>8. QED
        BY <1>inv, <1>rest, <2>1, <2>3, <4>3, <4>7 DEF SummaryInv, SummaryShape, IsAsking, AskingWith
    <3>4. CASE ~(calls < max_calls)
      <4>1. agenda' = agenda /\ asking' = NotAsking /\ calls' = calls /\ alone' \subseteq 1 .. Works
        BY <1>inv, <2>1, <2>3, <3>4
      <4>2. QED
        BY <1>inv, <2>1, <3>4, <4>1, <1>spent
    <3>5. CASE Cardinality(S) = 1
      <4>1. agenda' = agenda /\ asking' = NotAsking /\ calls' = calls /\ alone' = alone \cup S
        BY <2>1, <2>3, <3>5
      <4>2. NoWorkLost'
        BY <1>inv, <1>rest, <2>1, <2>3, <4>1 DEF NoWorkLost, Waiting, max_calls, Batches
      <4>3. QED
        BY <1>inv, <1>rest, <2>1, <4>1, <4>2 DEF SummaryInv, SummaryShape, IsAsking, AskingWith
    <3>6. QED
      BY <3>1, <3>2, <3>3, <3>4, <3>5
  <2>4. QED
    BY <1>8, <2>2, <2>3 DEF NoAnswer
<1>9. CASE UNCHANGED summaryVars
  <2>1. UNCHANGED <<agenda, asking, calls, translated, halted, alone>>
    BY <1>9 DEF summaryVars
  <2>2. QED
    BY <2>1, <1>inv DEF SummaryInv, SummaryShape, NoWorkLost, Waiting, IsAsking, AskingWith, max_calls, Batches
<1>10. QED
  BY <1>1, <1>2, <1>3, <1>4, <1>5, <1>6, <1>7, <1>8, <1>9 DEF SummaryNext

(* The invariant holds throughout.                                         *)
LEMMA SummaryInvHolds == SummarySpec => []SummaryInv
BY InitSummary, NextSummary, PTL DEF SummarySpec

(* When the work ends with requests left and no error that concerns them   *)
(* all, every work has its translation or was asked for alone in vain, for *)
(* any list, batches, models, refusals and answers in part.                *)
THEOREM RefusedWorksStandAlone == SummarySpec => []RefusedWorksAreIsolated
<1>1. ASSUME SummaryInv PROVE RefusedWorksAreIsolated
  <2> SUFFICES ASSUME agenda = <<>>, asking = NotAsking, calls < max_calls, ~halted
               PROVE  1 .. Works = translated \cup alone
    BY DEF RefusedWorksAreIsolated
  <2>1. asking.subset = {}
    BY DEF NotAsking
  <2>2. \A w \in 1 .. Works : ~Waiting(agenda, w)
    BY DEF Waiting
  <2>3. QED
    BY <1>1, <2>1, <2>2 DEF SummaryInv, SummaryShape, NoWorkLost
<1>2. QED
  BY <1>1, SummaryInvHolds, PTL

----------------------------------------------------------------------------
(* What edits teach (VoiceCalibration).                                    *)

(* Edits of style among T that say d under k, and those that move the      *)
(* feature of k at all.                                                    *)
Voters(T, k, d) == {n \in DOMAIN T : Harmless(T[n]) /\ Speaks(T[n], k, d)}
Heeded(T, k) == {n \in DOMAIN T : Harmless(T[n]) /\ k[1] = "global" /\ T[n].moved[k[3]] # 0}

Deserved(T, k, d) ==
  /\ Cardinality(Voters(T, k, d)) >= 3
  /\ k[1] = "global" => Cardinality({T[n].category : n \in Heeded(T, k)}) >= 2

Earned(T, w) == \A k \in WeightKeys : w[k] # 0 => Deserved(T, k, w[k])

(* The records kept are the last of those ever made.                       *)
EndOf(L, T) ==
  /\ Len(L) <= Len(T)
  /\ \A n \in 1 .. Len(L) : L[n] = T[n + (Len(T) - Len(L))]

VoiceInv ==
  /\ lessons \in Seq(FinalTexts) /\ taught \in Seq(FinalTexts)
  /\ Len(lessons) <= MaxRecords /\ Len(taught) <= Confirms
  /\ EndOf(lessons, taught)
  /\ weights \in Weights /\ previous \in Weights /\ snapshots \in 0 .. Snapshots
  /\ Earned(taught, weights) /\ Earned(taught, previous)

(* Only edits of style are learned from.                                   *)
LEMMA LearnedIsHarmless ==
  ASSUME NEW e \in FinalTexts, eligible_for_learning(e)
  PROVE  Harmless(e)
<1>1. e.faithful /\ ~e.conflict /\ e.category \in KnownTypes
  BY DEF eligible_for_learning
<1>2. "factual_correction" \notin classify_edit(e) /\ "unclassified" \notin classify_edit(e)
  BY DEF eligible_for_learning
<1>3. OfStyle(e)
  BY <1>2 DEF classify_edit
<1>4. e.change # "typo"
  BY <1>2 DEF classify_edit
<1>5. e.draft # "hard" /\ (e.draft = "token" => e.removed # {})
  BY <1>3, <1>4 DEF OfStyle, _candidate_edit_is_factual_repair
<1>6. QED
  BY <1>1, <1>4, <1>5 DEF Harmless

(* Positions in what is kept are positions in what was taught.             *)
LEMMA KeptIsTaught ==
  ASSUME NEW L \in Seq(FinalTexts), NEW T \in Seq(FinalTexts), EndOf(L, T),
         NEW I \in SUBSET DOMAIN L, NEW V \in SUBSET DOMAIN T,
         \A n \in I : n + (Len(T) - Len(L)) \in V
  PROVE  /\ IsFiniteSet(I) /\ IsFiniteSet(V)
         /\ Cardinality(I) \in Nat /\ Cardinality(V) \in Nat /\ Cardinality(I) <= Cardinality(V)
<1> DEFINE shift == Len(T) - Len(L)
           f == [n \in I |-> n + shift]
<1>1. Len(L) \in Nat /\ Len(T) \in Nat /\ DOMAIN L = 1 .. Len(L) /\ DOMAIN T = 1 .. Len(T)
  OBVIOUS
<1>2. shift \in Nat
  BY <1>1 DEF EndOf
<1>3. IsFiniteSet(1 .. Len(T))
  BY <1>1, FS_Interval
<1>4. IsFiniteSet(V) /\ Cardinality(V) \in Nat
  BY <1>1, <1>3, FS_Subset, FS_CardinalityType
<1> HIDE DEF shift
<1>5. f \in [I -> V]
  BY DEF shift
<1>6. \A a, b \in I : f[a] = f[b] => a = b
  BY <1>1, <1>2
<1>7. f \in Injection(I, V)
  BY <1>5, <1>6 DEF Injection, IsInjective
<1>8. IsFiniteSet(I) /\ Cardinality(I) <= Cardinality(V)
  BY <1>4, <1>7, FS_Injection
<1>9. Cardinality(I) \in Nat
  BY <1>8, FS_CardinalityType
<1>10. QED
  BY <1>4, <1>8, <1>9

(* Two thirds of three are three.                                          *)
LEMMA Majority ==
  ASSUME NEW m \in Nat, NEW n \in Nat, n >= 3, 100 * m >= 67 * n
  PROVE  m >= 3
OBVIOUS

(* A signal is deserved by the edits it was read from.                     *)
LEMMA SignalDeserved ==
  ASSUME VoiceInv, NEW c, NEW k \in WeightKeys, NEW d \in {-1, 1}, Signalled(Learnable(c), k, d)
  PROVE  Deserved(taught, k, d)
<1> DEFINE I == Learnable(c)
           shift == Len(taught) - Len(lessons)
           votes == Voters(taught, k, d)
<1>1. /\ lessons \in Seq(FinalTexts) /\ taught \in Seq(FinalTexts) /\ EndOf(lessons, taught)
      /\ DOMAIN lessons = 1 .. Len(lessons) /\ DOMAIN taught = 1 .. Len(taught)
      /\ Len(lessons) \in Nat /\ Len(taught) \in Nat /\ Len(lessons) <= Len(taught)
  BY DEF VoiceInv, EndOf
<1>2. I \subseteq DOMAIN lessons
  BY DEF Learnable
<1>3. ASSUME NEW n \in DOMAIN lessons
      PROVE  /\ lessons[n] \in FinalTexts /\ n + shift \in DOMAIN taught
             /\ taught[n + shift] = lessons[n]
  BY <1>1, <1>3 DEF EndOf
<1>4. ASSUME NEW n \in I PROVE Harmless(taught[n + shift]) /\ Harmless(lessons[n])
  <2>1. lessons[n] \in FinalTexts /\ taught[n + shift] = lessons[n]
    BY <1>2, <1>3, <1>4
  <2>2. eligible_for_learning(lessons[n])
    BY <1>4 DEF Learnable
  <2>3. QED
    BY <2>1, <2>2, LearnedIsHarmless
<1> HIDE DEF I
<1>5. votes \subseteq DOMAIN taught
  BY DEF Voters
(* Positions that say d are votes.                                         *)
<1>6. ASSUME NEW M \in SUBSET I, \A n \in M : Speaks(lessons[n], k, d)
      PROVE  Cardinality(M) \in Nat /\ Cardinality(votes) \in Nat /\ Cardinality(M) <= Cardinality(votes)
  <2>1. \A n \in M : n + shift \in votes
    BY <1>2, <1>3, <1>4, <1>6 DEF Voters
  <2>2. M \in SUBSET DOMAIN lessons
    BY <1>2, <1>6
  <2> HIDE DEF votes
  <2>3. QED
    BY <1>1, <1>5, <2>1, <2>2, KeptIsTaught
<1>7. ASSUME NEW M \in SUBSET I, NEW f,
             Cardinality(Evidence(M, f)) >= 3, Agree(M, f, d)
      PROVE  Cardinality(Moving(M, f, d)) >= 3
  <2>1. Moving(M, f, d) \in SUBSET DOMAIN lessons /\ Evidence(M, f) \in SUBSET DOMAIN lessons
    BY <1>2, <1>7 DEF Moving, Evidence
  <2>2. \A n \in DOMAIN lessons : n + (Len(taught) - Len(lessons)) \in DOMAIN taught
    BY <1>3
  <2>3. Cardinality(Moving(M, f, d)) \in Nat
    BY <1>1, <2>1, <2>2, KeptIsTaught
  <2>4. Cardinality(Evidence(M, f)) \in Nat
    BY <1>1, <2>1, <2>2, KeptIsTaught
  <2>5. 100 * Cardinality(Moving(M, f, d)) >= 67 * Cardinality(Evidence(M, f))
    BY <1>7 DEF Agree
  <2>6. QED
    BY <1>7, <2>3, <2>4, <2>5, Majority
<1>8. CASE k[1] = "global"
  <2> DEFINE M == Moving(I, k[3], d)
             E == Evidence(I, k[3])
             told == {lessons[n].category : n \in E}
             known == {taught[n].category : n \in Heeded(taught, k)}
  <2>1. GlobalSignal(I, k[3], d)
    BY <1>8 DEF Signalled, I
  <2>2. Cardinality(M) >= 3
    BY <1>7, <2>1 DEF GlobalSignal
  <2>3. \A n \in M : Speaks(lessons[n], k, d)
    BY <1>8 DEF Moving, Speaks
  <2>4. M \in SUBSET I
    BY DEF Moving
  <2>5. Cardinality(votes) >= 3
    <3> HIDE DEF M, votes
    <3>1. QED
      BY <1>6, <2>2, <2>3, <2>4
  <2>6. E \subseteq I /\ \A n \in E : lessons[n].moved[k[3]] \in {-1, 1}
    BY DEF Evidence, Moving
  <2>7. ASSUME NEW n \in E PROVE n + shift \in Heeded(taught, k)
    BY <1>2, <1>3, <1>4, <1>8, <2>6, <2>7 DEF Heeded
  <2>8. told \subseteq known
    <3>1. ASSUME NEW n \in E PROVE lessons[n].category \in known
      <4>1. taught[n + shift] = lessons[n]
        BY <1>2, <1>3, <2>6, <3>1
      <4>2. QED
        BY <2>7, <3>1, <4>1
    <3>2. QED
      BY <3>1
  <2>9. Cardinality(told) >= 2
    BY <2>1 DEF GlobalSignal, TypesOf
  <2>10. IsFiniteSet(known)
    <3>1. Heeded(taught, k) \subseteq 1 .. Len(taught)
      BY <1>1 DEF Heeded
    <3>2. IsFiniteSet(1 .. Len(taught))
      BY <1>1, FS_Interval
    <3>3. IsFiniteSet(Heeded(taught, k))
      BY <3>1, <3>2, FS_Subset
    <3> DEFINE g == [n \in Heeded(taught, k) |-> taught[n].category]
    <3>4. g \in Surjection(Heeded(taught, k), known)
      BY DEF Surjection
    <3>5. QED
      BY <3>3, <3>4, FS_Surjection
  <2>11. IsFiniteSet(told) /\ Cardinality(told) <= Cardinality(known)
    <3> HIDE DEF told, known
    <3>1. QED
      BY <2>8, <2>10, FS_Subset
  <2>12. Cardinality(told) \in Nat /\ Cardinality(known) \in Nat
    BY <2>10, <2>11, FS_CardinalityType
  <2>13. Cardinality(known) >= 2
    <3> HIDE DEF told, known
    <3>1. QED
      BY <2>9, <2>11, <2>12
  <2>14. QED
    BY <2>5, <2>13 DEF Deserved
<1>9. CASE k[1] = "category"
  <2> DEFINE O == OfType(I, k[2])
             M == Moving(O, k[3], d)
  <2>1. CategorySignal(I, k[2], k[3], d)
    BY <1>9 DEF Signalled, I
  <2>2. O \in SUBSET I
    BY DEF OfType
  <2>3. Cardinality(M) >= 3
    <3>1. Cardinality(Evidence(O, k[3])) >= 3 /\ Agree(O, k[3], d)
      BY <2>1 DEF CategorySignal
    <3> HIDE DEF O
    <3>2. QED
      BY <1>7, <2>2, <3>1
  <2>4. M \in SUBSET I /\ \A n \in M : Speaks(lessons[n], k, d)
    BY <1>9 DEF Moving, OfType, Speaks
  <2>5. Cardinality(votes) >= 3
    <3> HIDE DEF M, votes
    <3>1. QED
      BY <1>6, <2>3, <2>4
  <2>6. QED
    BY <1>9, <2>5 DEF Deserved
<1>10. CASE k[1] \notin {"global", "category"}
  <2> DEFINE M == {n \in I : k[3] \in lessons[n].removed}
  <2>1. d = -1 /\ PatternSignal(I, k[3])
    BY <1>10 DEF Signalled, I
  <2>2. Cardinality(M) >= 3
    BY <2>1 DEF PatternSignal
  <2>3. M \in SUBSET I /\ \A n \in M : Speaks(lessons[n], k, d)
    BY <1>10, <2>1 DEF Speaks
  <2>4. Cardinality(votes) >= 3
    <3> HIDE DEF M, votes
    <3>1. QED
      BY <1>6, <2>2, <2>3
  <2>5. QED
    BY <1>10, <2>4 DEF Deserved
<1>11. QED
  BY <1>8, <1>9, <1>10

(* What is deserved stays deserved.                                        *)
LEMMA DeservedStays ==
  ASSUME NEW T \in Seq(FinalTexts), NEW e \in FinalTexts, NEW w, Earned(T, w)
  PROVE  Earned(Append(T, e), w)
<1> DEFINE U == Append(T, e)
<1>1. /\ U \in Seq(FinalTexts) /\ Len(U) = Len(T) + 1 /\ Len(T) \in Nat
      /\ \A n \in 1 .. Len(T) : U[n] = T[n]
      /\ DOMAIN T = 1 .. Len(T) /\ DOMAIN U = 1 .. Len(U)
  OBVIOUS
<1> HIDE DEF U
<1>2. IsFiniteSet(1 .. Len(U))
  BY <1>1, FS_Interval
<1>3. ASSUME NEW k \in WeightKeys, NEW d, Deserved(T, k, d) PROVE Deserved(U, k, d)
  <2>1. Voters(T, k, d) \subseteq Voters(U, k, d) /\ Heeded(T, k) \subseteq Heeded(U, k)
    BY <1>1 DEF Voters, Heeded
  <2>2. IsFiniteSet(Voters(U, k, d)) /\ IsFiniteSet(Heeded(U, k))
    <3>1. Voters(U, k, d) \subseteq 1 .. Len(U) /\ Heeded(U, k) \subseteq 1 .. Len(U)
      BY <1>1 DEF Voters, Heeded
    <3>2. QED
      BY <1>2, <3>1, FS_Subset
  <2>3. Cardinality(Voters(T, k, d)) <= Cardinality(Voters(U, k, d))
    BY <2>1, <2>2, FS_Subset
  <2>4. Cardinality(Voters(T, k, d)) \in Nat /\ Cardinality(Voters(U, k, d)) \in Nat
    BY <2>1, <2>2, FS_Subset, FS_CardinalityType
  <2> DEFINE old == {T[n].category : n \in Heeded(T, k)}
             new == {U[n].category : n \in Heeded(U, k)}
             g == [n \in Heeded(U, k) |-> U[n].category]
  <2>5. old \subseteq new
    <3>1. ASSUME NEW n \in Heeded(T, k) PROVE T[n].category \in new
      BY <1>1, <2>1, <3>1 DEF Heeded
    <3>2. QED
      BY <3>1
  <2>6. g \in Surjection(Heeded(U, k), new)
    BY DEF Surjection
  <2>7. IsFiniteSet(new)
    BY <2>2, <2>6, FS_Surjection
  <2> HIDE DEF old, new, g
  <2>8. IsFiniteSet(old) /\ Cardinality(old) <= Cardinality(new)
    BY <2>5, <2>7, FS_Subset
  <2>9. Cardinality(old) \in Nat /\ Cardinality(new) \in Nat
    BY <2>7, <2>8, FS_CardinalityType
  <2>10. /\ Cardinality(Voters(T, k, d)) >= 3
         /\ k[1] = "global" => Cardinality(old) >= 2
    BY <1>3 DEF Deserved, old
  <2>11. /\ Cardinality(Voters(U, k, d)) >= 3
         /\ k[1] = "global" => Cardinality(new) >= 2
    BY <2>3, <2>4, <2>8, <2>9, <2>10
  <2>12. QED
    BY <2>11 DEF Deserved, new
<1>4. QED
  BY <1>3 DEF Earned, U

(* A record is added at the end, and the oldest may go.                    *)
LEMMA RecordAdded ==
  ASSUME VoiceInv, RecordEdit
  PROVE  VoiceInv'
<1>1. PICK e \in FinalTexts :
        /\ taught' = Append(taught, e)
        /\ lessons' = prune_voice_state(Append(lessons, e))
  BY DEF RecordEdit
<1>2. /\ weights' = weights /\ previous' = previous /\ snapshots' = snapshots
      /\ Len(taught) < Confirms
  BY DEF RecordEdit
<1> DEFINE A == Append(lessons, e)
<1>3. /\ lessons \in Seq(FinalTexts) /\ taught \in Seq(FinalTexts) /\ EndOf(lessons, taught)
      /\ Len(lessons) \in Nat /\ Len(taught) \in Nat /\ Len(lessons) <= MaxRecords
  BY DEF VoiceInv
<1>4. /\ taught' \in Seq(FinalTexts) /\ Len(taught') = Len(taught) + 1
      /\ \A n \in 1 .. Len(taught) : taught'[n] = taught[n]
      /\ taught'[Len(taught) + 1] = e
  BY <1>1, <1>3
<1>5. /\ A \in Seq(FinalTexts) /\ Len(A) = Len(lessons) + 1
      /\ \A n \in 1 .. Len(lessons) : A[n] = lessons[n]
      /\ A[Len(lessons) + 1] = e
  BY <1>3
<1>6. EndOf(A, taught')
  <2>1. ASSUME NEW n \in 1 .. Len(A) PROVE A[n] = taught'[n + (Len(taught') - Len(A))]
    <3>1. Len(taught') - Len(A) = Len(taught) - Len(lessons)
      BY <1>3, <1>4, <1>5
    <3>2. CASE n = Len(lessons) + 1
      BY <1>3, <1>4, <1>5, <3>1, <3>2
    <3>3. CASE n \in 1 .. Len(lessons)
      <4>1. A[n] = lessons[n] /\ lessons[n] = taught[n + (Len(taught) - Len(lessons))]
        BY <1>3, <1>5, <3>3 DEF EndOf
      <4>2. n + (Len(taught) - Len(lessons)) \in 1 .. Len(taught)
        BY <1>3, <3>3 DEF EndOf
      <4>3. QED
        BY <1>4, <3>1, <4>1, <4>2
    <3>4. QED
      BY <1>3, <1>5, <2>1, <3>2, <3>3
  <2>2. Len(A) <= Len(taught')
    BY <1>3, <1>4, <1>5 DEF EndOf
  <2> HIDE DEF A
  <2>3. QED
    BY <2>1, <2>2 DEF EndOf
<1> HIDE DEF A
<1>7. lessons' \in Seq(FinalTexts) /\ Len(lessons') <= MaxRecords /\ EndOf(lessons', taught')
  <2>1. CASE Len(A) > MaxRecords
    <3>1. lessons' = Tail(A)
      BY <1>1, <2>1 DEF prune_voice_state, A
    <3>2. A # <<>>
      BY <1>3, <1>5
    <3>3. /\ Tail(A) \in Seq(FinalTexts) /\ Len(Tail(A)) = Len(A) - 1
          /\ \A n \in 1 .. Len(Tail(A)) : Tail(A)[n] = A[n + 1]
      BY <1>5, <3>2
    <3>4. Len(lessons') <= MaxRecords
      BY <1>3, <1>5, <3>1, <3>3, VoiceAssumption
    <3>5. ASSUME NEW n \in 1 .. Len(lessons')
          PROVE  lessons'[n] = taught'[n + (Len(taught') - Len(lessons'))]
      <4>1. n + 1 \in 1 .. Len(A) /\ lessons'[n] = A[n + 1]
        BY <1>3, <1>5, <3>1, <3>3, <3>5
      <4>2. A[n + 1] = taught'[n + 1 + (Len(taught') - Len(A))]
        BY <1>6, <4>1 DEF EndOf
      <4>3. /\ Len(lessons') = Len(A) - 1
            /\ Len(A) \in Nat /\ Len(taught') \in Nat /\ n \in Nat
        BY <1>3, <1>4, <1>5, <3>1, <3>3, <3>5
      <4> DEFINE x == Len(taught')
                 y == Len(A)
                 z == Len(lessons')
      <4> HIDE DEF x, y, z
      <4>4. n + 1 + (x - y) = n + (x - z)
        BY <4>3 DEF x, y, z
      <4>5. QED
        BY <4>1, <4>2, <4>4 DEF x, y, z
    <3>6. Len(lessons') <= Len(taught')
      BY <1>3, <1>4, <1>5, <3>1, <3>3 DEF EndOf
    <3>7. QED
      BY <3>1, <3>3, <3>4, <3>5, <3>6 DEF EndOf
  <2>2. CASE ~(Len(A) > MaxRecords)
    <3>1. lessons' = A
      BY <1>1, <2>2 DEF prune_voice_state, A
    <3>2. QED
      BY <1>3, <1>5, <1>6, <2>2, <3>1, VoiceAssumption
  <2>3. QED
    BY <2>1, <2>2
<1>8. Earned(taught', weights') /\ Earned(taught', previous')
  BY <1>1, <1>2, <1>3, DeservedStays DEF VoiceInv
<1>9. Len(taught') <= Confirms
  BY <1>2, <1>3, <1>4, VoiceAssumption
<1>10. QED
  BY <1>2, <1>4, <1>7, <1>8, <1>9 DEF VoiceInv

(* A snapshot gives a weight only to what is deserved.                     *)
LEMMA SnapshotTaken ==
  ASSUME VoiceInv, NEW c, make_calibration_snapshot(c)
  PROVE  VoiceInv'
<1> DEFINE said(k) == \E d \in {-1, 1} : Signalled(Learnable(c), k, d)
           pick(k) == CHOOSE d \in {-1, 1} : Signalled(Learnable(c), k, d)
<1>1. /\ weights' = [k \in WeightKeys |-> IF said(k) THEN pick(k) ELSE weights[k]]
      /\ previous' = weights /\ lessons' = lessons /\ taught' = taught
      /\ snapshots < Snapshots /\ snapshots' = snapshots + 1
  BY DEF make_calibration_snapshot
<1>2. ASSUME NEW k \in WeightKeys, said(k)
      PROVE  pick(k) \in {-1, 1} /\ Deserved(taught, k, pick(k))
  <2>1. pick(k) \in {-1, 1} /\ Signalled(Learnable(c), k, pick(k))
    BY <1>2
  <2> HIDE DEF pick
  <2>2. QED
    BY <2>1, SignalDeserved
<1>3. ASSUME NEW k \in WeightKeys
      PROVE  weights'[k] \in {-1, 0, 1} /\ (weights'[k] # 0 => Deserved(taught, k, weights'[k]))
  <2>1. weights'[k] = IF said(k) THEN pick(k) ELSE weights[k]
    BY <1>1, <1>3
  <2>2. weights[k] \in {-1, 0, 1} /\ (weights[k] # 0 => Deserved(taught, k, weights[k]))
    BY <1>3 DEF VoiceInv, Weights, Earned
  <2> HIDE DEF said, pick
  <2>3. QED
    BY <1>2, <1>3, <2>1, <2>2
<1> HIDE DEF said, pick
<1>4. weights' \in Weights
  BY <1>1, <1>3 DEF Weights
<1>5. Earned(taught', weights')
  BY <1>1, <1>3 DEF Earned
<1>6. snapshots' \in 0 .. Snapshots
  BY <1>1, VoiceAssumption DEF VoiceInv
<1>7. QED
  BY <1>1, <1>4, <1>5, <1>6 DEF VoiceInv

LEMMA VoiceInductive == VoiceInit /\ [][VoiceNext]_voiceVars => []VoiceInv
<1>1. VoiceInit => VoiceInv
  <2> SUFFICES ASSUME VoiceInit PROVE VoiceInv
    OBVIOUS
  <2>1. lessons = <<>> /\ taught = <<>> /\ weights = NoWeights /\ previous = NoWeights /\ snapshots = 0
    BY DEF VoiceInit
  <2>2. NoWeights \in Weights /\ \A k \in WeightKeys : NoWeights[k] = 0
    BY DEF NoWeights, Weights
  <2>3. Earned(taught, NoWeights)
    BY <2>2 DEF Earned
  <2>4. EndOf(lessons, taught) /\ Len(lessons) = 0 /\ Len(taught) = 0
    BY <2>1 DEF EndOf
  <2>5. lessons \in Seq(FinalTexts) /\ taught \in Seq(FinalTexts)
    BY <2>1
  <2>6. QED
    BY <2>1, <2>2, <2>3, <2>4, <2>5, VoiceAssumption DEF VoiceInv
<1>2. VoiceInv /\ [VoiceNext]_voiceVars => VoiceInv'
  <2> SUFFICES ASSUME VoiceInv, [VoiceNext]_voiceVars PROVE VoiceInv'
    OBVIOUS
  <2>1. CASE rollback_weights
    <3>1. /\ weights' = previous /\ previous' = previous /\ lessons' = lessons
          /\ taught' = taught /\ snapshots' = snapshots
      BY <2>1 DEF rollback_weights
    <3>2. QED
      BY <3>1 DEF VoiceInv
  <2>2. CASE UNCHANGED voiceVars
    BY <2>2 DEF voiceVars, VoiceInv
  <2>3. QED
    BY <2>1, <2>2, RecordAdded, SnapshotTaken DEF VoiceNext
<1>3. QED
  BY <1>1, <1>2, PTL

(* Records, weights and snapshots keep to their types and bounds.          *)
THEOREM VoiceTypesHold == VoiceSpec => []VoiceTypes
<1>1. VoiceInv => VoiceTypes
  <2> SUFFICES ASSUME VoiceInv PROVE VoiceTypes
    OBVIOUS
  <2>1. \A n \in DOMAIN lessons : lessons[n] \in FinalTexts
    BY DEF VoiceInv
  <2>2. QED
    BY <2>1 DEF VoiceInv, VoiceTypes
<1>2. QED
  BY <1>1, VoiceInductive, PTL DEF VoiceSpec

(* No weight rests on less than three edits of pure style that say so, and *)
(* none for all content types on edits of one type alone, whatever was     *)
(* recorded, forgotten, weighed or undone.                                 *)
THEOREM WeightsStayEarned == VoiceSpec => []WeightsAreEarned
<1>1. VoiceInv => WeightsAreEarned
  BY DEF VoiceInv, Earned, Deserved, Voters, Heeded, WeightsAreEarned
<1>2. QED
  BY <1>1, VoiceInductive, PTL DEF VoiceSpec
==============================================================================
