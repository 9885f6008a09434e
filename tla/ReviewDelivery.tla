--------------------------- MODULE ReviewDelivery ---------------------------
(***************************************************************************)
(* Automatic delivery of collected X posts to the private review chat.     *)
(*                                                                         *)
(* A workflow run loads state.json, scans the sources, and drains the      *)
(* durable queue: deliver_pending -> deliver_updates -> send_message.      *)
(* Three copies of state with different lifetimes take part:               *)
(*                                                                         *)
(*   mem    StateStore.data in the running process, lost by a crash;       *)
(*   disk   state.json, replaced atomically by StateStore.save;            *)
(*   db     private-review.sqlite3, where every statement commits at once. *)
(*                                                                         *)
(* The files of a finished run travel to the next runner through two       *)
(* separate Actions caches (cache, dbCache), either of which may fail to   *)
(* be written.  The review chat itself (chat) is never rolled back.        *)
(***************************************************************************)
EXTENDS Integers, FiniteSets

CONSTANTS
  Update,      \* posts of configured X sources
  Live,        \* the posts of one author's day that are standalone lives
  At,          \* At[u]: the hour u was created
  Topic,       \* Topic[u]: group key of a post that is not a standalone live
  Topics,      \* the group keys Topic takes
  HasMedia,    \* the posts that carry media
  MaxParts,    \* longest split of a review message
  Limit,       \* max_auto_items_per_run
  CustodyLoss, \* caches that may fail to be written: a subset of {"json","db"}
  MaxFaults    \* bound on injected failures: crashes, API errors, outages...

ASSUME UpdateAssumption == IsFiniteSet(Update) /\ Live \subseteq Update
ASSUME GroupAssumption  == At \in [Update -> Nat] /\ Topic \in [Update -> Topics]
ASSUME MediaAssumption  == HasMedia \subseteq Update
ASSUME BoundAssumption  == MaxParts \in Nat \ {0} /\ Limit \in Nat \ {0} /\ MaxFaults \in Nat
ASSUME CustodyAssumption == CustodyLoss \subseteq {"json", "db"}

VARIABLES
  pc,        \* step of the run, "down" between runs
  mem,       \* StateStore.data of the running process
  disk,      \* state.json on the runner
  cache,     \* state.json in the Actions cache
  db,        \* private-review.sqlite3 on the runner
  dbCache,   \* private-review.sqlite3 in the Actions cache
  scope,     \* the updates this deliver_updates call was given
  todo,      \* those whose group has not been prepared
  prepared,  \* updates of the current group not yet acknowledged
  cur,       \* <<u>> for the update being sent, <<>> for none
  job,       \* "warn" or "text": which keyed message is being sent
  part,      \* index of the part send_message is at
  deferred,  \* updates whose body the writer left unavailable
  chat,      \* history: message parts visible in the review chat
  copies,    \* history: how often each part of each key was accepted
  unacked,   \* history: how many of those accepts left no receipt
  dropped,   \* history: updates discarded by a fresh start
  retired,   \* updates whose source has left the configuration
  gen,       \* number of write_group calls that produced a caption
  faults     \* failures injected so far

process == <<scope, todo, prepared, cur, job, part, deferred>>
stores  == <<mem, disk, cache, db, dbCache>>
history == <<chat, copies, unacked, dropped, retired, gen>>
vars    == <<pc, stores, process, history, faults>>
-----------------------------------------------------------------------------
(***************************************************************************)
(* Names: groups, delivery keys, captions, messages.                       *)
(***************************************************************************)

(* Index of u's cluster among the standalone lives of S: a cluster ends    *)
(* where the next live was created more than four hours later.             *)
ClusterStarts(S) ==
  {At[v] : v \in {w \in S \cap Live :
      /\ \E x \in S \cap Live : At[x] < At[w]
      /\ \A x \in S \cap Live : At[x] < At[w] => At[w] - At[x] > 4}}

Cluster(S, u) == Cardinality({t \in ClusterStarts(S) : t <= At[u]})

GroupKeys == ({"topic"} \X Topics) \cup ({"live"} \X (0 .. Cardinality(Live)))

(* organize_updates over the list S.                                       *)
GroupKey(S, u) == IF u \in Live THEN <<"live", Cluster(S, u)>>
                                ELSE <<"topic", Topic[u]>>

DraftKeys == {"draft"} \X GroupKeys \X Update
WarnKeys  == {"media-unavailable"} \X Update
Keys      == DraftKeys \cup WarnKeys

(* A caption is known by the writer call that made it and by its length in *)
(* Telegram parts; NoCaption has no parts.                                 *)
Caption   == [gen: Nat, len: 1 .. MaxParts]
NoCaption == [gen |-> 0, len |-> 0]
WarnText  == [gen |-> 0, len |-> 1]

Message == [key: Keys, part: 1 .. MaxParts, cap: Caption]
Slot    == Keys \X (1 .. MaxParts)

(* What state.json and private-review.sqlite3 hold.                        *)
Json == [covered: SUBSET Update,     \* published before last_auto_run
         pending: SUBSET Update,     \* pending_delivery
         seen: SUBSET Update,
         quarantined: SUBSET Update, \* quarantined_delivery
         draft: [DraftKeys -> Caption \cup {NoCaption}],
         retryAfter: {"none", "set"}, \* translation_retry_after
         tokens: SUBSET {"campaign"}] \* fresh_start_tokens

Db == [plan: [Keys -> Caption \cup {NoCaption}],   \* message_delivery_plans
       receipt: SUBSET Message,                    \* message_delivery_parts
       inbox: SUBSET Update]                       \* review_inbox

EmptyJson == [covered |-> {}, pending |-> {}, seen |-> {}, quarantined |-> {},
              draft |-> [k \in DraftKeys |-> NoCaption],
              retryAfter |-> "none", tokens |-> {}]

EmptyDb == [plan |-> [k \in Keys |-> NoCaption], receipt |-> {}, inbox |-> {}]

Key(S, j, u) == IF j = "warn" THEN <<"media-unavailable", u>>
                              ELSE <<"draft", GroupKey(S, u), u>>
-----------------------------------------------------------------------------
Idle == /\ scope = {} /\ todo = {} /\ prepared = {} /\ cur = <<>>
        /\ job = "text" /\ part = 0 /\ deferred = {}

Init ==
  /\ pc = "down"
  /\ mem = EmptyJson /\ disk = EmptyJson /\ cache = EmptyJson
  /\ db = EmptyDb /\ dbCache = EmptyDb
  /\ Idle
  /\ chat = {} /\ dropped = {} /\ retired = {}
  /\ copies = [s \in Slot |-> 0] /\ unacked = [s \in Slot |-> 0]
  /\ gen = 0 /\ faults = 0

Goto(next) == pc' = next

Fault == faults < MaxFaults /\ faults' = faults + 1

(* StateStore.save: the whole of data replaces state.json at once.         *)
Save(data) == mem' = data /\ disk' = data

(* Mutant: an aborted batch leaves its work list behind.                    *)
ScopeOnlyReset ==
  /\ scope' = {} /\ prepared' = {} /\ cur' = <<>>
  /\ job' = "text" /\ part' = 0 /\ deferred' = {}
  /\ UNCHANGED todo

ResetProcess ==
  /\ scope' = {} /\ todo' = {} /\ prepared' = {} /\ cur' = <<>>
  /\ job' = "text" /\ part' = 0 /\ deferred' = {}

(* An exception leaves deliver_updates; deliver_pending catches it, and    *)
(* the unsent rows stay in the queue.                                      *)
AbortBatch == Goto("wait") /\ ResetProcess
-----------------------------------------------------------------------------
(***************************************************************************)
(* The run: start, scan, deliver, exit, and the caches between runs.       *)
(***************************************************************************)

StartRun ==
  /\ pc = "down"
  /\ Goto("scan")
  /\ mem' = disk
  /\ UNCHANGED <<disk, cache, db, dbCache, process, history, faults>>

(* Once per token: the backlog is marked seen and collection starts over   *)
(* at this instant, which also gives up the posts not scanned yet (old).   *)
FreshStart(old) ==
  /\ pc = "scan" /\ "campaign" \notin mem.tokens
  /\ Fault
  /\ Save([mem EXCEPT !.seen = @ \cup mem.pending, !.pending = {},
                      !.covered = @ \cup old, !.tokens = {"campaign"}])
  /\ dropped' = dropped \cup (mem.pending \ mem.seen)
                        \cup (old \ (mem.seen \cup mem.quarantined))
  /\ UNCHANGED <<pc, cache, db, dbCache, process, chat, copies, unacked, retired, gen>>

(* run_scheduled_scan with proof for every source: all posts up to now are *)
(* queued and the cursor moves past them, in one copy of data.             *)
ScanComplete(new) ==
  /\ pc = "scan"
  /\ Goto("deliver")
  /\ mem' = [mem EXCEPT !.covered = @ \cup (new \ retired),
                        !.pending = @ \cup ((new \ mem.seen) \ retired)]
  /\ UNCHANGED <<disk, cache, db, dbCache, process, history, faults>>

(* Some sources failed: what was recovered is queued, the cursor stays.    *)
ScanPartial(found) ==
  /\ pc = "scan"
  /\ Fault
  /\ Goto("deliver")
  /\ mem' = [mem EXCEPT !.pending = @ \cup ((found \ mem.seen) \ retired)]
  /\ UNCHANGED <<disk, cache, db, dbCache, process, history>>

(* Rows of sources that left the configuration move to quarantine; rows    *)
(* already seen leave the queue; everything else stays in it.              *)
PeekedQueue == (mem.pending \ retired) \ mem.seen

(* Mutant: the purge forgets what it removes.                              *)
PurgedForGood == [mem EXCEPT !.pending = @ \ retired]

Purged == [mem EXCEPT !.pending = @ \ retired,
                      !.quarantined = @ \cup (mem.pending \cap retired)]

(* Mutant: the destructive pop of state.py's own pop_pending.              *)
AfterPop(batch) == [Purged EXCEPT !.pending = PeekedQueue \ batch]

AfterPeek(batch) == [Purged EXCEPT !.pending = PeekedQueue]

(* translation_retry_after lies in the future, or the editor's request for *)
(* one source is being served first: only the purge happens.               *)
DeliveryGated(reason) ==
  /\ pc = "deliver"
  /\ \/ reason = "retry after" /\ mem.retryAfter = "set" /\ UNCHANGED faults
     \/ reason = "source request" /\ Fault
  /\ mem' = Purged
  /\ Goto("wait")
  /\ UNCHANGED <<disk, cache, db, dbCache, process, history>>

(* pop_pending is a peek: batch is handed out and stays queued.  The       *)
(* overview message goes out first; it has no delivery key.                *)
DeliverPending(batch) ==
  /\ pc = "deliver"
  /\ batch \subseteq PeekedQueue
  /\ Cardinality(batch) = (IF Cardinality(PeekedQueue) < Limit
                           THEN Cardinality(PeekedQueue) ELSE Limit)
  /\ mem' = AfterPeek(batch)
  /\ \/ /\ batch # {}
        /\ scope' = batch /\ todo' = batch
        /\ Goto("group")
        /\ UNCHANGED <<prepared, cur, job, part, deferred, faults>>
     \/ /\ batch = {}
        /\ Goto("wait")
        /\ UNCHANGED <<process, faults>>
     \/ /\ batch # {}         \* the overview message failed
        /\ Fault
        /\ Goto("wait")
        /\ UNCHANGED process
  /\ UNCHANGED <<disk, cache, db, dbCache, history>>

(* Application.run's finally block.                                        *)
ExitRun ==
  /\ pc = "wait"
  /\ Save(mem)
  /\ Goto("closing")
  /\ UNCHANGED <<cache, db, dbCache, process, history, faults>>

(* The job is killed at its deadline.  An accept that was not confirmed    *)
(* yet leaves no receipt.                                                  *)
Crash ==
  /\ pc \notin {"down", "closing"}
  /\ Fault
  /\ Goto("closing")
  /\ mem' = disk
  /\ ResetProcess
  /\ IF pc = "confirm"
     THEN LET s == <<Key(scope, job, cur[1]), part>>
          IN unacked' = [unacked EXCEPT ![s] = @ + 1]
     ELSE UNCHANGED unacked
  /\ UNCHANGED <<disk, cache, db, dbCache, chat, copies, dropped, retired, gen>>

(* The always() steps write both caches; the next runner restores them.    *)
CloseRun(lost) ==
  /\ pc = "closing"
  /\ lost \subseteq CustodyLoss
  /\ IF lost = {} THEN UNCHANGED faults ELSE Fault
  /\ cache' = IF "json" \in lost THEN cache ELSE disk
  /\ dbCache' = IF "db" \in lost THEN dbCache ELSE db
  /\ disk' = cache' /\ mem' = cache' /\ db' = dbCache'
  /\ Goto("down")
  /\ UNCHANGED <<process, history>>

(* The operator removes u's source from the configuration.                 *)
RetireSource(u) ==
  /\ pc = "down" /\ u \notin retired
  /\ Fault
  /\ retired' = retired \cup {u}
  /\ UNCHANGED <<pc, stores, process, chat, copies, unacked, dropped, gen>>
-----------------------------------------------------------------------------
(***************************************************************************)
(* deliver_updates: one group at a time, oldest first.                     *)
(***************************************************************************)

Oldest(S, u) == u \in S /\ \A v \in S : At[u] <= At[v]

GroupOf(u) == {v \in todo : GroupKey(scope, v) = GroupKey(scope, u)}

DraftOf(u) == mem.draft[Key(scope, "text", u)]

Drafted(S) == {u \in S : DraftOf(u) # NoCaption}

(* Drafts of an earlier attempt are reused.  If any is missing the writer  *)
(* is called once, and the drafts it could translate (ready) are added;    *)
(* the others are deferred.  The group's drafts reach state.json before    *)
(* its first network call.                                                 *)
PrepareGroup(first, ready, len) ==
  /\ pc = "group" /\ Oldest(todo, first)
  /\ LET members == GroupOf(first)
         missing == members \ Drafted(members)
         text    == [gen |-> gen + 1, len |-> len]
     IN /\ ready \subseteq missing
        /\ gen' = IF ready = {} THEN gen ELSE gen + 1
        /\ deferred' = deferred \cup (missing \ ready)
        /\ IF ready = missing THEN UNCHANGED faults ELSE Fault
        /\ Save([mem EXCEPT !.draft =
                   [k \in DraftKeys |->
                      IF k[3] \in ready /\ k = Key(scope, "text", k[3])
                      THEN text ELSE @[k]]])
        /\ prepared' = Drafted(members) \cup ready
        /\ todo' = todo \ members
        /\ Goto(IF prepared' = {} THEN "group" ELSE "update")
  /\ UNCHANGED <<cache, db, dbCache, scope, cur, job, part,
                 chat, copies, unacked, dropped, retired>>

(* The last group is done; deferred bodies arm translation_retry_after.    *)
EndBatch ==
  /\ pc = "group" /\ todo = {}
  /\ mem' = IF deferred = {} THEN mem ELSE [mem EXCEPT !.retryAfter = "set"]
  /\ AbortBatch
  /\ UNCHANGED <<disk, cache, db, dbCache, history, faults>>

(* Next update of the group.  Media goes first: it is delivered (or there  *)
(* is none), or it is refused for good and a keyed warning is sent before  *)
(* the text.                                                               *)
BeginUpdate(u, first) ==
  /\ pc = "update" /\ Oldest(prepared, u)
  /\ \/ first = "text" /\ UNCHANGED faults
     \/ first = "warn" /\ u \in HasMedia /\ Fault
  /\ cur' = <<u>> /\ job' = first
  /\ Goto("open")
  /\ UNCHANGED <<stores, scope, todo, prepared, part, deferred, history>>

(* A transient media failure ends the batch.                               *)
MediaFails(u) ==
  /\ pc = "update" /\ Oldest(prepared, u) /\ u \in HasMedia
  /\ Fault
  /\ AbortBatch
  /\ UNCHANGED <<stores, history>>
-----------------------------------------------------------------------------
(***************************************************************************)
(* send_message with a delivery key.                                       *)
(***************************************************************************)

TheKey == Key(scope, job, cur[1])
ThePlan == db.plan[TheKey]
TheMessage == [key |-> TheKey, part |-> part, cap |-> ThePlan]
TheText == IF job = "warn" THEN WarnText ELSE DraftOf(cur[1])

(* Mutant: a retry overwrites the plan with the text of today.             *)
LatestText == TheText

(* The persisted plan wins over the text passed in.                        *)
PlanToSend == IF ThePlan # NoCaption THEN ThePlan ELSE TheText

(* The plan is persisted before the first API call.                        *)
OpenPlan ==
  /\ pc = "open"
  /\ db' = [db EXCEPT !.plan[TheKey] = PlanToSend]
  /\ part' = 1
  /\ Goto("send")
  /\ UNCHANGED <<mem, disk, cache, dbCache, scope, todo, prepared, cur, job, deferred,
                 history, faults>>

SkipPart ==
  /\ pc = "send" /\ part <= ThePlan.len
  /\ TheMessage \in db.receipt
  /\ part' = part + 1
  /\ UNCHANGED <<pc, stores, scope, todo, prepared, cur, job, deferred, history, faults>>

(* n accepts whose response was lost, out of api()'s three attempts.       *)
Accept(n) ==
  LET s == <<TheKey, part>>
  IN /\ copies' = [copies EXCEPT ![s] = @ + n]
     /\ chat' = IF n > 0 THEN chat \cup {TheMessage} ELSE chat

SendPart(lostAcks) ==
  /\ pc = "send" /\ part <= ThePlan.len
  /\ TheMessage \notin db.receipt
  /\ IF lostAcks = 0 THEN UNCHANGED faults ELSE Fault
  /\ Accept(lostAcks + 1)
  /\ unacked' = [unacked EXCEPT ![<<TheKey, part>>] = @ + lostAcks]
  /\ Goto("confirm")
  /\ UNCHANGED <<stores, process, dropped, retired, gen>>

(* api() gives up, or Telegram refuses the request.                        *)
SendFails(lostAcks) ==
  /\ pc = "send" /\ part <= ThePlan.len
  /\ TheMessage \notin db.receipt
  /\ Fault
  /\ Accept(lostAcks)
  /\ unacked' = [unacked EXCEPT ![<<TheKey, part>>] = @ + lostAcks]
  /\ AbortBatch
  /\ UNCHANGED <<stores, dropped, retired, gen>>

(* Mutant: one receipt per key instead of one per part.                    *)
ReceiptPerKey(m) == {n \in db.receipt : n.key # m.key} \cup {m}

(* INSERT OR REPLACE with the primary key (delivery key, part).            *)
WithReceipt(m) == {n \in db.receipt : n.key # m.key \/ n.part # m.part} \cup {m}

Confirm ==
  /\ pc = "confirm"
  /\ db' = [db EXCEPT !.receipt = WithReceipt(TheMessage)]
  /\ part' = part + 1
  /\ Goto("send")
  /\ UNCHANGED <<mem, disk, cache, dbCache, scope, todo, prepared, cur, job, deferred,
                 history, faults>>

(* Mutant: off by one in the loop over the parts.                          *)
OnePartEarly == pc = "send" /\ part >= ThePlan.len

AllPartsSent == pc = "send" /\ part > ThePlan.len

WarningSent ==
  /\ AllPartsSent /\ job = "warn"
  /\ job' = "text" /\ part' = 0
  /\ Goto("open")
  /\ UNCHANGED <<stores, scope, todo, prepared, cur, deferred, history, faults>>

(* Mutant: the inbox row is left to a later pass.                          *)
InboxLater ==
  /\ AllPartsSent /\ job = "text"
  /\ Goto("mark")
  /\ UNCHANGED <<stores, process, history, faults>>

(* After the text: inbox.upsert commits in SQLite ...                      *)
RecordInbox ==
  /\ AllPartsSent /\ job = "text"
  /\ db' = [db EXCEPT !.inbox = @ \cup {cur[1]}]
  /\ Goto("mark")
  /\ UNCHANGED <<mem, disk, cache, dbCache, process, history, faults>>

(* ... then mark_seen and save.                                            *)
MarkSeen ==
  /\ pc = "mark"
  /\ Save([mem EXCEPT !.seen = @ \cup {cur[1]}])
  /\ prepared' = prepared \ {cur[1]}
  /\ cur' = <<>> /\ part' = 0
  /\ Goto(IF prepared' = {} THEN "group" ELSE "update")
  /\ UNCHANGED <<cache, db, dbCache, scope, todo, job, deferred, history, faults>>
-----------------------------------------------------------------------------
Scan == \E S \in SUBSET Update : ScanComplete(S) \/ ScanPartial(S)

Gate == \E reason \in {"retry after", "source request"} : DeliveryGated(reason)

Deliver == \E S \in SUBSET Update : DeliverPending(S)

Prepare == \E u \in Update, S \in SUBSET Update, n \in 1 .. MaxParts : PrepareGroup(u, S, n)

Begin == \E u \in Update, first \in {"warn", "text"} : BeginUpdate(u, first)

Send == \E n \in 0 .. 2 : SendPart(n)

Close == \E lost \in SUBSET CustodyLoss : CloseRun(lost)

Next ==
  \/ StartRun
  \/ \E S \in SUBSET Update : FreshStart(S)
  \/ Scan
  \/ Gate
  \/ Deliver
  \/ ExitRun
  \/ Crash
  \/ Close
  \/ \E u \in Update : RetireSource(u)
  \/ Prepare
  \/ EndBatch
  \/ Begin
  \/ \E u \in Update : MediaFails(u)
  \/ OpenPlan
  \/ SkipPart
  \/ Send
  \/ \E n \in 0 .. 3 : SendFails(n)
  \/ Confirm
  \/ WarningSent
  \/ RecordInbox
  \/ MarkSeen

Spec == Init /\ [][Next]_vars

(* The cron starts runs for ever and a run that is not killed goes on.     *)
(* The queue deadline is finite, so a run infinitely often finds it past   *)
(* (strong fairness of Deliver).                                           *)
Fairness ==
  /\ WF_vars(StartRun) /\ WF_vars(Scan)
  /\ SF_vars(Deliver) /\ WF_vars(Gate \/ Deliver)
  /\ WF_vars(ExitRun) /\ WF_vars(Close)
  /\ WF_vars(Prepare) /\ WF_vars(EndBatch) /\ WF_vars(Begin)
  /\ WF_vars(OpenPlan) /\ WF_vars(SkipPart) /\ WF_vars(Send) /\ WF_vars(Confirm)
  /\ WF_vars(WarningSent) /\ WF_vars(RecordInbox) /\ WF_vars(MarkSeen)

FairSpec == Spec /\ Fairness
-----------------------------------------------------------------------------
(***************************************************************************)
(* Properties.                                                             *)
(***************************************************************************)

(* Type of every variable (state.py, message_delivery.py, review_inbox.py).*)
TypeOK ==
  /\ pc \in {"down", "scan", "deliver", "group", "update", "open", "send",
             "confirm", "mark", "wait", "closing"}
  /\ mem \in Json /\ disk \in Json /\ cache \in Json
  /\ db \in Db /\ dbCache \in Db
  /\ scope \subseteq Update /\ todo \subseteq scope /\ prepared \subseteq scope
  /\ cur = <<>> \/ \E u \in Update : cur = <<u>>
  /\ job \in {"warn", "text"} /\ part \in 0 .. MaxParts + 1 /\ deferred \subseteq Update
  /\ chat \subseteq Message
  /\ copies \in [Slot -> Nat] /\ unacked \in [Slot -> Nat]
  /\ dropped \subseteq Update /\ retired \subseteq Update
  /\ gen \in Nat /\ faults \in 0 .. MaxFaults

JsonCopies == {mem, disk, cache}

(* A post of a configured source that the scan cursor has passed is never  *)
(* lost: in the process, on disk and in the cache alike it is queued, seen *)
(* or quarantined, or a fresh start discarded it.                          *)
NoSilentMiss ==
  \A j \in JsonCopies :
     j.covered \subseteq j.pending \cup j.seen \cup j.quarantined \cup dropped

(* Every part of some review message of u is visible in the chat.          *)
Shown(u) ==
  \E m \in chat : /\ m.key \in DraftKeys /\ m.key[3] = u
                 /\ \A p \in 1 .. m.cap.len : [m EXCEPT !.part = p] \in chat

(* No copy of the state calls a post seen before all parts of its message  *)
(* reached the review chat, whatever was interrupted or replayed.          *)
SeenMeansShown ==
  \A j \in JsonCopies : \A u \in j.seen \ dropped : Shown(u)

(* A part whose send was confirmed is never sent under its key again: each *)
(* extra copy is owed to one accept whose receipt was never written.       *)
BoundedDuplicates ==
  "db" \notin CustodyLoss => \A s \in Slot : copies[s] <= unacked[s] + 1

(* All parts sent under one delivery key belong to one text, even when the *)
(* caption was written again after state.json fell back to an older copy.  *)
OneTextPerKey ==
  "db" \notin CustodyLoss => \A m, n \in chat : m.key = n.key => m.cap = n.cap

(* Parts appear in order: a later part never precedes an earlier one.      *)
PartsInOrder ==
  \A m \in chat : \A p \in 1 .. m.part : [m EXCEPT !.part = p] \in chat

(* A post marked seen on disk already has its row in the review inbox, so  *)
(* the editor can find it: SQLite commits before state.json.               *)
InboxBeforeSeen ==
  "db" \notin CustodyLoss => disk.seen \ dropped \subseteq db.inbox

(* A seen mark is earned: the post was shown in all its parts and stands   *)
(* in the inbox, so it need never be delivered again.                      *)
SeenIsEarned == SeenMeansShown /\ InboxBeforeSeen
-----------------------------------------------------------------------------
Outstanding(j) == (j.pending \ j.seen) \ j.quarantined

Promise == INSTANCE ReviewPromise WITH
  outstanding <- Outstanding(disk),
  settled     <- disk.seen,
  shown       <- {u \in Update : Shown(u)},
  waived      <- dropped \cup disk.quarantined

(* The delivery machine keeps the promise of the durable queue, step by    *)
(* step, as long as the caches of a run are written.                       *)
KeepsPromise == Promise!PSafety

(* ... and once failures stop every debt of the queue is paid.             *)
PaysDebts == Promise!PLiveness
=============================================================================
