# Verification of the Jeonghan daily review bot

The bot collects posts of configured X sources, has a Persian caption written for
each of them and sends text and media to one private Telegram chat, where a single
editor reviews them. It never publishes anything itself. A scheduled workflow
starts one run at a time; between runs the program's memory consists of two files,
`state.json` and `private-review.sqlite3`, which travel from runner to runner through
two Actions caches (an encrypted backup stands in when a cache is missing). Another
deployment is a long-lived web service that Telegram calls and that keeps an
encrypted copy of the two files pinned in the chat.

This directory holds TLA+ models of the parts of the program that decide whether a
post or a command is lost, repeated, reordered, misreported or stuck, the TLC
configurations that check them, and TLAPS proofs of their safety.

All source paths are relative to `src/`.

## 1. Inventory

### 1.1 State

| Where | What | Written by | Durability |
|---|---|---|---|
| `state.json` (`app/state.py`, `StateStore.data`) | queue (`pending_delivery`), `seen`, `quarantined_delivery`, drafts, scan cursors, page checkpoints, Telegram offset and failure counters, prompts, date jobs, lifecycle records, event namespace | `StateStore.save`: one atomic replacement of the whole file | only from `save` on; changes in between are lost by a kill |
| `private-review.sqlite3` | message plans and receipts (`message_delivery.py`), media receipts and file ids, inbox rows (`review_inbox.py`), source-first rounds (`source_first_queue.py`), reminders, edit sessions and final edits, source ledger, raw observations, completeness evidence, archive rows | one commit per operation | at once |
| Actions caches | copies of the two files | two `always()` steps at the end of the job | either may fail on its own |
| pinned copy | both files, encrypted (`telegram_cloud_state.py`) | after each update the web service handled | once Telegram pinned it |
| `production-outcome.json` | counters and verdict of one run | the application, then the audit step | an artifact of the job |
| Telegram | the review chat; commands not yet confirmed | `sendMessage`..., `getUpdates`, webhook | never rolled back |
| X, Gemini, GitHub, clock | posts with a delay before they can be seen, models with quotas, cron and concurrency groups | environment | - |

### 1.2 Components

| Component | State | Operations | Interacts with |
|---|---|---|---|
| Run (`main.run`, `webhook_aware_assistant.run`) | `StateStore` in memory | fresh start, first poll, date requests, scan, delivery, interactive window, save at the end | all of the others, in this order |
| Delivery for review (`main.deliver_pending`, `private_runtime.deliver_updates`, `telegram.send_message`) | queue, drafts, plans, receipts, inbox, seen | peek a batch, group it, write or reuse drafts, send part by part, record, mark | scan fills the queue; the source-first queue reads the inbox; polls run between groups |
| Lifecycle and media (`zero_silent_miss.py`, `media_delivery*.py`, `media_file_cache.py`) | a record per post, quarantine, receipts of albums, Telegram file ids | follow every step of a delivery, reuse a file id | delivery, date requests |
| Commands by polling (`telegram_update_runtime.py`) | offset, failure counters, open prompt | poll, handle, retry, skip, quarantine | handlers call every other component, delivery included |
| Webhook owner (`webhook_server.py`, `telegram_cloud_state.py`) | the same files, backed up to the chat | handle one update, retry it, back up, acknowledge, maintenance pass | replaces polling in another deployment; the scheduled job inspects and wakes it |
| Reminders (`reminder_queue.py`, `reminder_runtime.py`) | jobs: pending, told, sent, cancelled | add, send due, cancel | `send_message` with a key of its own |
| Scheduled scan (`webhook_aware_assistant.run_scheduled_scan`, `source_authority_hardening.py`, `x_provider_recovery.py`) | `last_auto_run`, `last_degraded_scan_at`, `last_auto_attempt`, `fresh_start_since` | complete, partial, failed and degraded pass, fresh start | collectors give it posts and failed sources; it fills the queue |
| Collectors (`x_client.py`, `x_resumable_recovery_runtime.py`, `x_fxtwitter.py`, ...) | page checkpoints | collect a window of a source; read a batch from public providers | scan, date requests, editor's requests |
| Completeness evidence (`completeness_*.py`, `source_ledger.py`) | attempts, observations, frontiers | record, prove | beside every run of the collectors; it decides no delivery |
| Date requests (`date_requests.py`) | jobs with coverage per source and a generation | create, work off a slice, select, deliver, retry, set aside | editor, run, window; holds back the ordinary queue |
| Editor's requests (`main.run_*`, `configured_source_runtime.py`) | `last_errors`, last retrieval per post, candidates | recent hours, one source, search, pick, links, pasted text | collectors, delivery |
| Source-first queue (`source_first_queue.py`, `source_first_runtime.py`) | rounds, sources with their state, items | sync, defer, resume, retry, show | inbox, `state.json` drafts, delivery |
| Editor's desk (`main.handle_callback`, `private_runtime.py`, `review_inbox.py`, `archive_store.py`) | a draft's text, its decision, its archived caption, its messages | open, rewrite, copy, reject, by button or reply | delivery, inbox, archive |
| Final edits (`final_edit_capture*.py`, `user_voice_calibration.py`) | sessions, final edits, calibration records and weights | prompt, candidate, preview, confirm, replace, cancel, expire; classify, snapshot, roll back | drafts |
| Captions (`gemini_structured.py`, `gemini_credential_runtime.py`, ...) | models out of use, circuit, lent key | ask, repair, fall back | delivery, rewrites |
| Event fusion (`event_timeline.py`, `event_fusion*.py`, `translation_fusion.py`, `channel_style_rewrite.py`, `forward_ready_package.py`) | events, segments, fused texts, packages | group, segment, fuse, style, plan; sanitize and prune | shadow of every delivery |
| Fan fiction digest (`fic_digest.py`) | lists, receipts, days | build, summarise, send, retry | a workflow of its own in the group of the live runs |
| Outcome and watchdog (`production_outcome*.py`, `daily_watchdog.py`, workflows) | counters, verdict; runs and their ends | classify, publish, look, sleep, dispatch | GitHub's cron and concurrency groups |
| Realtime detectors (`realtime_ingest.py`) | claims, counts | check a candidate, claim it, read it again, count | shadow of the scan |

The remaining parts (tools, benchmarks, exports, encryption, configuration, wording)
transform text, report, or keep projections; `PROJECT.json` lists each of them and why it
is not modelled.

### 1.3 What is hard

* **Crashes between stores.** SQLite commits at once, `state.json` at the next save,
  the chat immediately and for ever. A kill can fall between any two of them, and
  afterwards a cache can bring back an older copy of one file but not of the other.
* **Lost responses.** `telegram.api` repeats a request up to three times, so one
  confirmed part may have been accepted more often.
* **Names that depend on the batch or on the clock.** Group keys, and with them draft ids
  and delivery keys, are computed over the posts at hand; the digest's keys from the day.
* **Offsets that confirm.** A `getUpdates` with a moved offset deletes commands at
  Telegram; polls also run between groups of a delivery, and a delivery may itself
  be the handler of a command. Webhook updates come in any order and again.
* **Two cursors, and checkpoints of other windows.** Public recovery must not make the
  authoritative cursor pass over posts that it did not return; a run may resume what
  another caller's window left behind.
* **An inbox that moves.** Drafts arrive between handlers, sources come and go with a
  deployment, and handlers may be killed after their first half.
* **Buttons that stay.** Every message keeps its buttons; one can be pressed after what it
  refers to was replaced, decided or pruned.
* **Verdicts about oneself.** What a run says of its completeness is computed from counters
  that later steps, in other processes, classify again.
* **Who starts the next run.** Cron is late or silent, and runs replace and cancel each other.

### 1.4 What makes each component correct

* Delivery: no collected post disappears; a post is called seen only after its whole
  message was in the chat; no confirmed part is sent again; one key carries one text;
  parts are in order; the queue drains once faults stop. Its records claim no more
  than what the chat shows.
* Polling: no command is lost, they are settled in order, a replay needs a kill, a
  poisoned command does not block those behind it.
* Webhook owner: the pinned copy holds what was acknowledged; nothing is done twice without
  a restart that forgot it or an answer that was lost; everything comes to its end.
* Scan and collectors: no post below a cursor was skipped; a window called complete was read
  whole; degraded passes come round to every source; a backlog is gathered in the end.
* Evidence: the frontier never covers an interval nobody proved.
* Date requests: a bundle called complete covers every source of its range, comes once per
  request, and a job comes to an end.
* Editor's requests: an answer says when it is not whole.
* Source-first queue: one focus, in file order, kept until its drafts are decided;
  what was put off comes back; every draft gets its turn.
* Desk and final edits: a decision stands, the places a text is kept in agree, one edit is
  in force per draft.
* Captions: no text goes out neither checked nor marked; an outage of the models ends.
* Events: a post is in one event, one segment, one package; a text rests on facts.
* Digest: no part twice, parts of one text, one refused work does not cost the others theirs.
* Verdict and watchdog: failures are never called healthy; recoveries are bounded; runs go on.

The concrete hazards, each with the line where it bites and the properties that watch
over it, are in `PROJECT.json`.

## 2. Modules

| Module | Models |
|---|---|
| `ReviewPromise` | abstract: what the durable queue promises; owed until settled, settled only when shown or given up, not owed for ever |
| `ReviewDelivery` | scan result, queue, grouping, drafts, keyed sends, receipts, inbox, seen, caches, kills |
| `PostRecords` | lifecycle record, quarantine, media receipts and file-id cache of a post, against what is in the chat |
| `TelegramPolling` | commands, polls, failures, the window of a run |
| `WebhookHost` | the long-lived owner, its backups, its reminders and maintenance passes, and the scheduled job beside it |
| `ScheduledScan` | windows and cursors of scheduled and degraded scans |
| `Retrieval` | pages of one source newest first, budget, checkpoints, three callers, degraded rotation |
| `PublicFeeds` | the chain of public providers a degraded scan reads each source from, and the account of the pass |
| `Evidence` | extends `Retrieval`: source ledger and completeness engine beside each run |
| `DateRequests` | durable day jobs, generations, coverage, bundle, and the ordinary queue that waits for them |
| `SourceRequests` | what the editor asks of the sources at once, and what the answer says of itself |
| `SourceFirstQueue` | rounds of review and their focus |
| `EditorDesk` | text of a draft, decision, archived caption and what the chat shows |
| `FinalEdit` | sessions, prompts, previews and confirmation of final texts |
| `VoiceCalibration` | what confirmed edits teach: records, signals, weights, rollback |
| `Translation` | models, circuit, cooldown, lent key, repair, and the texts handed on |
| `EventFusion` | events, segments and packages in a sanitized and pruned namespace |
| `SegmentText` | fused factual text of a moment, style tried on it, package made with it |
| `PackagePlans` | extends `EventFusion` and `SegmentText`: the messages a package would take, its media in albums and its drafts in parts |
| `Ranking` | numbers in ascending order, and the entries of a list at given places |
| `FanficDigest`, `FanficSummaries` | nights, lists and receipts of the digest; the requests for its summaries |
| `ProductionOutcome` | a run's verdict on itself and who classifies it |
| `DailyWatchdog` | extends `ProductionOutcome`: cron, pushes, heartbeat, dispatch and concurrency groups |
| `RealtimeIngest` | detectors in shadow mode and their gate of claims |
| `ReviewDelivery_proofs` | theorems about `ReviewDelivery`: under any loss of caches, with SQLite kept, and its promise |
| `SourceFirstQueue_proofs` | theorems about the source-first queue |
| `Operations_proofs` | theorems about `TelegramPolling`, `DailyWatchdog`, the verdict of `ProductionOutcome`, and `MCOperations` |
| `ScheduledScan_proofs` | theorems about `ScheduledScan`, `RealtimeIngest`, `SourceRequests` and `Evidence` |
| `Sources_proofs` | theorems about `Retrieval`, the types of `Evidence`, `PublicFeeds`, `Translation` and `EventFusion` |
| `WebhookHost_proofs` | theorems about `WebhookHost` and `DateRequests` |
| `Records_proofs` | theorems about `PostRecords`, `FinalEdit`, `VoiceCalibration`, `FanficDigest`, `FanficSummaries` and `EditorDesk` |
| `Books_proofs` | theorems about `SegmentText`, `PackagePlans` and the types of `FanficSummaries`, and about the machines of `MCRecords` beside each other |
| `MCReviewDelivery`, `MCTelegramPolling`, `MCSourceFirstQueue`, `MCSegmentText`, `MCSourceRequests`, `MCRealtimeIngest` | constants of the small instances |
| `MCServices` | one of host, day request and retrieval in each behaviour |
| `MCOperations` | polling, or the watchdog with the outcome, in each behaviour |
| `MCRecords` | one machine in each behaviour: those of `MCServices`, the scan and twelve more |

Three MC modules put several machines that share no state into one specification: a
variable `machine` chosen at the start says which of them takes steps, so the states add
up and do not multiply. Composition where state *is* shared is inside the modules:
commands with nested deliveries (`TelegramPolling`), webhook, reminders and scheduled job
(`WebhookHost`), retrieval with the records beside it (`Evidence`), verdict and watchdog
(`DailyWatchdog`).

### 2.1 ReviewDelivery

`mem`, `disk` and `cache` are three copies of the delivery part of `state.json` (process,
runner, Actions cache); `db` and `dbCache` two copies of the SQLite file; `chat` is the
review chat. `pc` is the place in the run, and `scope`, `todo`, `prepared`, `cur`, `job`,
`part` and `deferred` are the local variables of `deliver_updates` and `send_message`.

| Action | Code |
|---|---|
| `StartRun`, `ExitRun`, `Crash`, `CloseRun` | job start; `finally: state.save()`; a kill; the two cache steps, each of which may fail |
| `FreshStart` | `apply_fresh_start` with its save |
| `ScanComplete`, `ScanPartial` | `run_scheduled_scan` after the collectors returned: `queue_updates` and, for a complete pass, the cursor |
| `DeliveryGated`, `DeliverPending` | the gate of pending source requests and of `translation_retry_after`; the purge of retired sources; the peeked batch (`zero_silent_miss.pop_pending`) and the overview message |
| `PrepareGroup` | the oldest group: reuse of persisted drafts, one writer call for missing ones, save before any network call |
| `BeginUpdate`, `MediaFails` | media first; refused media leads to a keyed warning, a transient failure ends the batch |
| `OpenPlan`, `SkipPart`, `SendPart`, `SendFails`, `Confirm`, `WarningSent` | `send_message` with a delivery key: plan before the first call, parts with a receipt skipped, up to three attempts each of which may be accepted without an answer |
| `RecordInbox`, `MarkSeen`, `EndBatch` | inbox commit, `mark_seen` and save, end of the batch with the retry deadline for deferred bodies |

A caption is the number of the writer call that produced it and its length in parts;
group keys keep their dependence on the batch (`ClusterStarts` is the four-hour rule for
standalone lives). `ReviewPromise` has four variables (owed, settled, shown, waived) and
two actions; `KeepsPromise` maps `disk` to it.

### 2.2 PostRecords

`book` and `kept` are the process' and the saved copy of a post's lifecycle row (status and
media status), queue, seen marks and quarantine; `receipts` and `cached` the SQLite rows of
albums and of Telegram's file ids, found by address, by content and by Telegram's own name
for the file; `visible` and `texts` the chat. `deliver_pending` and `deliver_requested` begin a trip, `PassOver`,
`PrepareDraft`, `SendCached`, `Upload`, `SendText`, `TextFails` and `EndDelivery` are its
steps with the status each notes, `SourceRetires` and `apply_fresh_start` empty the queue into
quarantine, `ReceiptsLapse` is the age after which receipts are ignored. Left out:
groups (each post is its own here), retry counts and reasons, more than one album per post;
changes on the side of the queue are saved at once, and an answer of Telegram's is complete.

### 2.3 TelegramPolling

`held` is Telegram's list, `mem`/`disk` the offset, counters and open prompt, `polling` the
re-entrancy flag, `batch` and `cur` the loop of `_process_telegram_updates_once`, `back`
where a poll returns to (start of the run, between delivery groups, the window). The
four ends of a handler are `Succeed`, `Transient` (nothing moves, the batch ends),
`Permanent` (skipped with a notice) and `FailAndRetry`/`Quarantine` (counted, given up
at the budget). What a command does is reduced to opening, answering or closing a
prompt; whether it saves on the way is left open (`HandlerSaves`).

### 2.4 WebhookHost

`json` is the process' state, `disk` its two files, `pinned` the copy in the chat and `backed`
the hash of what that copy is known to hold; `left` is what a crash may leave beside the
files. `at`, `req`, `attempt`, `handled` follow one update through `Receive`, `HandleDone`,
`HandlePaused`, `HandleRefused`, `HandleFailed`, `Save`, `Backup` and `Answer`: a
failed update is tried again in the process from the beginning of its handler, and Telegram
repeats what was not answered, in any order. `Start`, `DieRestoring`, `Register`, `Stop`
and `Crash` are the life of the process, with the restore from the pinned copy when the
disk came back empty. `BeginPass`, `RemindNext`, `RemindFails`, `RemindedAll`, `Scan` and
`DeliverQueue` are a maintenance pass; scan and queue need the lent key (`LeaseExpires`).
`Inspect`, `Wake` and `Poll` are the scheduled job: it wakes the owner and lends it the key
where a webhook is set, and polls where there is none.

### 2.5 ScheduledScan, Retrieval, PublicFeeds, Evidence

`ScheduledScan` counts time in ticks; each source publishes one post per tick, so a post is
`<<source, time>>` and a window is a set of posts. `StartOf` is the computation of
`run_scheduled_scan`: cursor or degraded checkpoint, minus its overlap, not below the
lookback and not below the fresh floor. The actions are the outcomes of a pass:
`ScanComplete`, `ScanPartial`, `ScanFails`, `ScanDegraded`, and `FreshStart`. Posts of the
last `Lag` ticks may be invisible, and a degraded pass returns any newest part of
its window.

`Retrieval` is one source inside a pass: `Begin` opens a run for a caller's window and
resumes a checkpoint where the code does, `ReadAnyPage` reads a page, `CursorStalls`, `PageFails`
and `Cut` end a run early, `Use` is what the caller makes of it, `DegradedPass` the batch of the
rotation. A page may be odd (`OddPages`): "stray" holds an old post out of order, "bare" is no
response or an error, with some of its posts or none and without a cursor. Both end the segment
as its true end would (`app/x_resumable_recovery_runtime.py:654`), and `obscured` keeps, for the
properties, the posts that were lost to them. A page that does bring a cursor is taken to hold every
post down to it, whatever its shape.

`PublicFeeds` is what such a pass does with its batch: `hop` is how far each source has come
along syndication page, FxTwitter and twitter-cli (`collect_syndication_timeline`,
`collect_fxtwitter_timeline` page by page in `paging`, `collect_agent_reach_timeline`), `given`
what it gave and by whom, `account` the sources attempted and, read back off the error
messages by `EndFeeds`, failed; `reached` is the checkpoint that moves if none did. A profile is
a list of rows of four kinds; a repost bears the date of the post it repeats. Left out: the
filter for relevance, media, the limit on concurrent requests (the sources share nothing but
the account), and `since`, which only shortens FxTwitter's first page.

`Evidence` adds to each of these
steps what the two records write (`Attempt`, `ReadObserved`, `StallObserved`, `CutShort`,
`Conclude`, `Concluded`); the engine's verdict is that of the Rust core.

### 2.6 DateRequests and SourceRequests

`DateRequests`: `Enqueue` creates a job or its next generation; `CollectSource`, `Select`
and `DeliverNext` are one slice each, ending in a save on the error path too; `RetryTime` is
a job whose backoff ended; `DeliverDaily` the ordinary queue, which waits while a job
of one source is at work. `Publish` and `DayEnds` let a "today" window grow while it is
worked off, `Disable` takes a source out of the configuration. `proved`, `shown` and
`slipped` are history. Posts Telegram refuses for good are a constant (`Refused`).

`SourceRequests`: each operation is a run of reads over sources that ends in an answer.
`last_errors` lives as long as the process and passes from request to request; `unread`
and `doubted` are history. Actions carry the functions' names (`run_recent2h`, `run_source24`,
`run_search`, `run_selected_event`, `run_shared_x_links`, `run_manual_input`, ...), `NewRun`
brings another source file or another state of X. What a query matches is given; limits
on candidates and links, groups and titles are left out; a degraded batch is any subset.

### 2.7 SourceFirstQueue, EditorDesk, FinalEdit, VoiceCalibration

`SourceFirstQueue`: `inbox` is the status column of `review_inbox`; `round` the three tables of
`source_first_queue.py`, with the `state` column as the sets `deferred` and `marked`
(active) because the session row keeps its own `active_source`. `Synced`, `Deferred`,
`Resumed`, `Reconciled` and `ActivateNext` are the store's methods of these names, as
functions of a round, because every handler runs `sync` before its own work and shows
the view, which syncs again. Drafts arrive (`Deliver`) without a sync, a decision
(`Settle`) may be killed before its sync, sources are redeployed (`Deploy`), retries may
be interrupted (`AbortRetry`), and a draft's text may be missing (`Lose`).

`EditorDesk` keeps the three places of a draft's text apart: `desk`/`filed`/`found` (state.json
in memory, on disk, as this run found it), `indexed` (the archive) and `bubble`/`pane` (the
chat). `WriteDraft`, `SendDraft`, `ListDraft`, `IndexDraft`, `FinishDraft` are a
delivery; `PressButton`, `PressOpened`, `ReplyTo` what the editor does; `Decide` and
`WriteAgain` the two kinds of handlers, `NotModified`, `RequestFails` and `StartDesk` their
failures. SQLite does not fall back here, state.json may; expiry of drafts and of button
tokens, dates and searches are left out.

`FinalEdit` numbers sessions and edits in the order of their rows; `posted` are the prompts
and previews in the chat, whose buttons can be pressed at any time.

`VoiceCalibration` begins where an edit is confirmed. An edit is what its classification says of
it (were draft and edit faithful, how much changed, which features moved, which phrases went);
`lessons` are the records kept, `weights` and `previous` the signs of the weights in force and
before, `taught` every edit ever recorded. `RecordEdit`, `make_calibration_snapshot` and
`rollback_weights` are its steps. The bot itself only classifies; its benchmark gathers,
weighs and undoes, each time from weights given to it. That the weights of one snapshot are the
previous ones of the next is how the parameters ask to be used, and no code does it yet.
How features are measured, the sizes of weights, the sanitizer and the ranking of
examples are left out.

### 2.8 Translation, EventFusion, SegmentText, PackagePlans

`Translation`: a group is written by `_installed_write_group` or `write_group_v1`; `RequestStep`
is one request with its outcome (answer, part of an answer, quota, server error, refusal,
wrong key), the models left out for it, and what it does to the circuit. `handed` are the
texts as they went on: accepted, or marked for manual review. Keys are lent, expire by
`TranslationTick` and are forgotten by `HostRestarts`.

`EventFusion`: `fusion` and `stored` are the namespace in memory and in state.json; `work`
the delivery in progress and `outer` the one it interrupts (a command carried out between two
groups). `BeginDelivery`, `shadow_group_updates`, `BeginSegments`, `shadow_segment_events`,
`EndSegments` and `plan_forward_ready_packages` are its stages, `GroupingFails`,
`TimelineFails` and `DeliveryLeaves` its failures, `NextProcess` a restart, after which the
sanitizer of packages is not installed until first used (`lazy`). Which posts are alike is given.

`SegmentText`: one segment, told again with each delivery. A text is the sequence of
posts its lines come from; what the gates find, who contradicts whom and what is redundant
is given. `shadow_fuse_translations`, `shadow_style_rewrite` and `PlanPackage` are the
stages, `SegmentPruned`, `AnalysisFails` and `ProcessEnds` the failures.

`PackagePlans` has no state: `_plan_media_units` is the loop that lays the media of a package's
posts into albums (`Placed` is one turn of it), `plan_fused_private_review_delivery` the messages in order, media
before texts before buttons. The program plans in shadow and sends none of them.

### 2.9 FanficDigest and FanficSummaries

A day has three thirds, with borders at 18:30 and 20:30 UTC (the latter is midnight in
Tehran) because the digest's key and the workflow's window disagree about the day. `CronFires`,
`LivePassDue`, `QueueDueDigest`, `ManualRequest` start runs, one executes and one waits;
`BuildDigests`, `SendPart`, `EndDigest` and `DigestFails` are a run. `FanficSummaries` is the
loop over batches and models with its halving (`NoAnswer`) and its budget of requests.

### 2.10 ProductionOutcome, DailyWatchdog

`report` are the counters of the builder as far as a classification reads them; `classify_outcome`
and `classify_outcome_hardened` are both modelled because the application installs the
second and the later audit step uses the first. `DailyWatchdog` adds the queue of live runs
(`job`, `waiting`), the finished one the watchdog looks at (`latest`, `age`) and the watchdog
that executes (`watch`): `Heartbeat` and `EndArrives` trigger it, replacing one that sleeps;
`run_periodic_watchdog`, `run_watchdog`, `Wake`, `LookupFails`, `dispatch_live` are its steps.

### 2.11 RealtimeIngest

The gate (`_claimed`, `reserved`), the detectors of a process and the counts of each.
`Sights` is a candidate checked and claimed, `hydrate` the reading from X, which may return
another post; `mark_external_observation` is the scheduled path. The durable pending and
seen sets are one set, `known`. The application does not start a detector yet.

## 3. What the runs check

| Run | Instance | Shows |
|---|---|---|
| `review_pair` | two posts of one conversation, one with media, up to 2 parts each, 3 faults, `state.json` may fall back a run | no collected post disappears; a seen mark is earned; a confirmed part is not sent again; one key carries one text |
| `review_live` | two standalone lives more than four hours apart, 2 faults, the SQLite cache may be lost, fairness | each step keeps `ReviewPromise`; after the last fault the queue is drained |
| `source_queue` | four drafts of three sources, two source files, one resume button, 1 lost draft, fairness | tables of a round agree, file order, focus and deferrals kept, every draft gets its turn |
| `operations` | *polling*: a prompt, its answer, which fails every time, and a menu, 3 attempts, 3 faults; *watchdog*: two sources, interval of 2 ticks; fairness | commands are not lost, settled in order, replayed at most once per kill, all settled in the end; no failure is published as healthy; recoveries are bounded; runs go on when cron stops |
| `progress` | *host*: one command that sets a reminder; *request*: two jobs, two posts; *fetch*: the daily caller, rotation of 3; 1 fault each, fairness | commands, posts and reminders come to their end; date jobs end and release the queue; a backlog larger than the budget is gathered |
| `records` | sixteen machines, see below | the safety of every other component |
| `polling_retry`, `resume_gap`, `night_digest`, `preview_edit`, `healthy_verdict`, `pasted_text` | the least instance of each | the findings of section 4 |

Properties of `records`, by machine:

| Machine | Property | Says |
|---|---|---|
| host | `OncePerCause` | a command or a reminder takes effect again only after a restart that forgot it or an answer that was lost |
| host | `CopyKeepsAll` | the pinned copy keeps what was acknowledged, and its reminders agree with its offset |
| request | `BundlesAreHonest` | a bundle called complete covers every source, a thread is whole, a bundle comes once per request |
| fetch, feeds | `SourcesAreRead` | a resumed window has no gap between its segments but what odd pages hid; the rotation comes round to every source; public feeds give a source's own posts without a gap, and the account of a pass names whom they failed for |
| fetch | `EvidenceIsProof` | a window the engine calls complete was read whole; its frontier has everything in the raw store |
| scan | `CursorsSkipNothing` | neither cursor passes over a post |
| posts | `RecordsAreHonest` | a record never claims more than the chat shows; what left the queue unseen is quarantined |
| digest | `DigestsAreWhole` | no part of a list twice without a lost confirmation; all parts of one text |
| summaries | `RefusedWorksAreIsolated` | a work left without a summary was asked for alone, in vain |
| edits, voice | `FinalEditsHold` | one open session per draft, one chain of edits, each confirmed with the caption it was begun with; no weight without three edits of pure style that say so |
| fusion | `TimelineAgrees` | events and segments divide the posts; no post in two packages |
| fusion, segments | `PlansAreWhole` | a plan shows every medium once in albums Telegram takes, and holds each message of its drafts |
| captions | `CaptionsAreSafe` | no text goes on neither checked nor marked; no outage of the models outlasts its cause |
| segments | `TextsRestOnFacts` | a fused, styled or preferred text is of faithful lines, none twice or against the first; no post heard is left out in silence |
| desk | `DeskAgrees` | decisions stand; the places of a draft's text agree but for a named failure |
| asks | `RequestsAreHonest` | an answer not whole says so; what is remembered as complete was |
| watch | `SightingsAreSound` | a post is hydrated once, comes from a configured source, and the counts add up |

Bounds and why they are enough:

* **Delivery.** Two posts are the least for everything that depends on a group: a batch
  with two members, a failure between them, a group key that changes because one of
  them left. Two parts are the least for a message sent in part. Two faults allow a
  failure during the recovery from a failure, a third one also lets the cache of that
  recovery be lost (`MaxFaults` counts kills, failed and unanswered requests, partial scans,
  refused media, failed writers, lost caches, fresh starts and gates alike). `Limit` is the size of a batch.
* **Polling.** Three commands are the least for one behind a poisoned one that itself
  follows one; three attempts is the budget of the code.
* **Host.** Two commands, the second with a reminder: an update below the stored offset, and
  a reminder that is due while another update is in hand. One fault is a crash, a wiped disk, a
  failed call or a lost answer.
* **Scan.** The clock (5 ticks) is long enough for a pass, a degraded spell, and a recovery
  with overlaps reaching over it. The lookback is longer than the overlaps, as in the code.
* **Fetch.** A window of 3 ticks, pages of 2, a budget of 2: a window takes two runs
  and a resumed one two segments. The roster of 5 with batches of 2 makes the rotation wrap unevenly.
* **Date requests.** One job for both sources and one for the first of them alone, a post, its
  author's answer and another source's post, two generations in all: both jobs are asked for, or one of them twice.
* **Records and media.** Two posts, one with two pictures and one of text alone; a picture in two
  posts is left to the theorem.
* **Digest.** Four thirds reach from one evening, over midnight in Tehran and midnight UTC, into the
  next day; two parts, two revisions. Six works in batches of 4,
  one refused by both models and one by the preferred one, halve a batch twice; the budget is
  nine spare requests as in the code.
* **Feeds.** A profile of five rows with a repost of an old one, and one of six with strangers' posts
  whose replies are excluded; windows of 3 and 4, pages of 2 rows, two pages and two passes, so that a profile
  may run out of pages above its window; four failures let both sources lose two providers.
* **Voice.** Five edits that agree, contradict and repair over two content types; four of five records are
  kept, so that evidence may be forgotten; two snapshots.
* **Edits, desk.** One draft with two texts and two sessions; two drafts about one post with
  two wordings. Both bounds on clicks allow a stale button after a replacement or a kill.
* **Fusion, segments.** Four posts in two events of which one is kept, the first two telling one
  moment, more media than an album takes, limits of 1 event and 2 segments so that pruning happens;
  two deliveries, of which one may interrupt the other. The posts of a segment that do not begin it
  continue or contradict the first.
* **Captions.** Three posts (one Persian, two to translate), two models, one key.
* **Requests.** Two accounts, two source files, three requests so that an error outlives one, one outage.
* **Detectors.** Two of them over three posts, one a reply, two sightings, with one restart or failure.
* **Source queue.** One source has two drafts, one has one, one is not configured; the
  file lists a disabled entry and changes its order with a deployment. `Buttons` is the
  number of deferred sources the view offers to resume (one is fewer than can be deferred).

Where clocks, budgets of questions or of faults end, the machine stops: `records`,
`progress`, `operations` and the small runs of findings say `CHECK_DEADLOCK FALSE`, the
delivery, polling and source-queue runs check for deadlock.

Each property of a passing run has a mutant in `PROJECT.json`: a plausible mistake in
one mapped definition that makes the run fail on exactly this property.

### 3.1 Fairness

* `ReviewDelivery`: the cron starts runs for ever, and a run that is not killed goes on, so
  each step of a run is weakly fair. `Deliver` is strongly fair: the gate
  (`translation_retry_after`, pending source requests) closes it only for a time, so runs
  infinitely often find it open. Nothing is assumed of sends: they may fail while
  faults are left. The bound on faults stands for "outages end".
* `TelegramPolling`: runs start for ever, polls and handlers return, and the window ends at
  its deadline (strong, since polls alternate with it). No fairness is assumed of the
  editor or of transient failures.
* `SourceFirstQueue`: the editor comes back, decides on the draft on show and resumes what
  is offered when nothing else is left; handlers return. Strong fairness is written
  out with the conditions that enable the actions (`CanReview`, `CanResume`, `CanSync`).
  Without a resuming editor a deferred source waits for ever, as the code intends.
* `WebhookHost`: the process and the scheduled job take their steps (weak). Telegram pushes
  an update again and again until it is answered, and the maintenance timer keeps firing, while
  either may be held up by the lock of the other: `Receive` and `BeginPass` are strongly fair.
  The platform restarts a dead service (`HostMayDie = FALSE`).
* `DateRequests`: slices are worked off by the run and by the window, backoffs end, the
  ordinary delivery is due with each run (all weak).
* `Retrieval`: scheduled passes begin, read on and are used (weak).
* `DailyWatchdog`: jobs end (weak), time passes and the heartbeat comes again; the watchdog's
  first step and its dispatch are strongly fair, since an event may cancel it at any time but
  GitHub does not cancel or refuse it for ever. Nothing is assumed of cron.

## 4. Findings

Each has a run whose counterexample shows it.

1. **A retried answer is another request** (`polling_retry`, `RetryIsTheSameRequest`).
   `handle_message` pops the open prompt before the request that may fail
   (`app/main.py:184`); the retry promised in `app/telegram_update_runtime.py:62` runs the
   text without the prompt, as an archive search.
2. **A resumed checkpoint may begin later than the window** (`resume_gap`, `CompleteWindow`).
   A source resumes its oldest checkpoint of any window that does not end later
   (`app/x_resumable_recovery_runtime.py:247`). Where that one was left by a shorter
   window of another caller, the part before it is never requested, and the scan counts as
   complete all the same.
3. **A late digest takes the key of the next night** (`night_digest`, `NightIsSent`). The key
   is the day in Tehran at the time of sending (`app/fic_digest.py:1174`); started after
   20:30 UTC it is the next one, and the next night's run finds everything confirmed.
4. **An old preview confirms a newer text** (`preview_edit`, `ConfirmsWhatItShows`). The button
   names the session only (`app/final_edit_capture_runtime.py:99`).
5. **A run that raised before its first source is called healthy** (`healthy_verdict`,
   `HealthyMeansCollected`; `app/production_outcome.py:376`).
6. **A pasted text ends in silence** (`pasted_text`, `PastedTextIsPrepared`): the guard for
   configured authors drops the author `manual_input` (`app/main.py:517`,
   `app/configured_source_runtime.py:195`).

### 4.1 Divergences met while reading, without a run

These were met while translating the code; some have a stated property beside the passing
ones, none is checked by a run of its own.

* Scan: a healthy pass after a long degraded spell starts at most a lookback ago, though the
  comment at `app/webhook_aware_assistant.py:318` says it can backfill the entire interval; the
  first complete scan clears the fresh floor and the overlap of the second can reach before it.
* Delivery: the index of a cluster of standalone lives is computed over the batch
  (`app/organizer.py:146-163`), so a retry of the later one may compute another key than the
  draft it should resume (`app/private_runtime.py:320`). A rejection or rewrite whose answer was lost is
  refused as "not modified" on its retry, so the decision is not recorded
  (`app/telegram_update_runtime.py:71-82`). A decision on a message whose receipt is missing
  is ignored by `set_status` (`app/review_inbox.py:66-74`).
* Prompts: a date typed into an open prompt is taken by the date route; a reply to a draft
  opened in the inbox becomes a search; a rewrite pressed during an outage replaces a good
  caption by the raw source (`app/main.py:830-868`).
* Host: a service that is gone for good while its webhook stands leaves commands unread
  (`app/webhook_aware_assistant.py:126`).
* Date requests: a bundle is called complete by its sources, not by the whole day
  (`docs/DATE_CONTENT_REQUESTS.md:5`, `app/date_requests.py:412-420`); a post Telegram refuses for
  good keeps its job at work (`app/date_requests.py:271`).
* Paging: a page that is no answer, or an error, has no cursor and ends its segment; the checkpoint is
  cleared and the run complete, without an error on record, so the scan moves its cursor over posts nobody
  read (`obscured`; `app/x_resumable_recovery_runtime.py:654`, `app/completeness_provider_proof.py:235`).
  "A missing response or an error-shaped payload is not timeline exhaustion" says the comment at
  `app/x_resumable_recovery_runtime.py:303`, which calls this the legacy behaviour;
  `app/source_authority_hardening.py:12` promises that the cursor never moves past missing content.
  Only the completeness engine (`docs/PHASE_4_COMPLETENESS_ENGINE.md:37`,
  `tests/test_completeness_engine.py:221-239`) refuses such a window, which `EvidenceIsProof` shows.
* Evidence: the ledger's frontier is the maximum over windows, so a gap between two is invisible
  (`LedgerIsProof`); every scan stores a new raw version, as its hash includes the attempt
  (`app/raw_observation.py:80-86` says otherwise).
* Requests: `run_source24` in degraded mode delivers a window that was not proven although its
  docstring says "proven-complete" (`app/webhook_aware_assistant.py:189`), and
  `app/zero_silent_miss.py:517` remembers it as complete; a failed thread of an event stays
  unmentioned there (591); a search with a failed query whose other results are filtered
  out may say "nothing found"; links by authors that are not configured, and a picked
  result whose source has become keyword-only, end in silence; a retried paste gets another id.
* Public feeds: an error of twitter-cli with several lines does not match the pattern that reads failed
  sources off the messages (`app/x_degraded_recovery_runtime.py:22`, 116), so its source counts as answered
  and the realtime checkpoint may move; a repost of an old post ends FxTwitter's paging above the start of the
  window (`app/x_fxtwitter.py:277`); an error on a later page discards the pages before it.
* Calibration: a global signal can rest on edits that agree within one content type, with one to the contrary
  from another; a snapshot of one content type also sets weights for all of them, and, were snapshots
  chained by their `previous_weights`, one whose evidence is gone would stay in force
  (`app/user_voice_calibration.py:553-626`).
* Events: ids of events and segments may coincide after a manual removal or split; a
  restart drops metadata of packages before the sanitizer is installed
  (`docs/translation-fusion-foundation.md:217`); a conflict is not carried over in all
  cases (`ConflictsArePreserved`; `app/translation_fusion.py:442`); an older style is
  preferred after an exception of the style alone; one final edit stands for a package of
  several drafts.
* Captions: the reopening of a model after its cooldown (`CooldownReopens`;
  `app/gemini_structured.py:312-316`); "later groups stay queued" there, while drafts that
  keep the source are delivered.
* Lifecycle: a failure may be noted at another post (`FailureIsNoted`); watchdog: a recovery
  that failed may be followed by one more (`FailedRecoveryStops`); realtime: a cancelled
  hydration keeps its claim (`app/realtime_ingest.py:484-506`), and `release` drops a reservation
  made meanwhile (248-255); archive: an import replaces rows (`app/archive_backup.py`).

## 5. What is proved

The theorems hold for every value of the constants that satisfies the named assumptions
of the modules: any number of posts, parts, commands, sources and faults.

| Theorem | States | Under |
|---|---|---|
| `TypeCorrect` | `TypeOK` of the delivery | any faults |
| `DeliverySound` | `SeenMeansShown`, `PartsInOrder` | any faults, either cache may be lost |
| `NothingMissed` | `NoSilentMiss` | any faults, either cache may be lost |
| `TextsNeverMix` | `OneTextPerKey` | the SQLite cache is never lost |
| `NoNeedlessCopies` | `BoundedDuplicates` | the SQLite cache is never lost |
| `PromiseKept` | `KeepsPromise`: the delivery implements `ReviewPromise`, step by step | `state.json` is not rolled back |
| `SeenIsListed`, `SeenEarned` | `InboxBeforeSeen`, `SeenIsEarned` (with `SeenMeansShown`) | the SQLite cache is never lost, for the inbox half |
| `PollingTypes`, `CommandsKept` | `TypeOK`, `NoCommandLost` | any faults |
| `CommandsInOrder`, `ReplaysBounded`, `RepeatsInOrder` | `InOrder`, `BoundedReplay`, and both as `OrderlyReplay` | any faults |
| `QueueTypes` | `TypeOK` of the source-first queue | any deployments, losses and interruptions |
| `FocusAgrees`, `NothingForgotten`, `RoundsStay` | `OneFocus`, `ClosedMeansDone`, and both as `RoundsAgree` | the same |
| `FocusStays`, `DeferralStays`, `ChoicesStay` | the action properties `FocusKept`, `DeferralKept`, and both as `ChoicesKept` | the same |
| `FileOrderHolds` | the action property `FileOrder` | the same |
| `ScanTypesHold`, `NothingSkipped` | `ScanTypes`, `CursorsSkipNothing` | any overlaps, lookback and lag as the code orders them |
| `WatchTypesHold`, `SightingsStaySound` | `WatchTypes`, `SightingsAreSound` | any detectors, sources and posts |
| `EvidenceStaysProof` | `EvidenceIsProof` | any windows, page size, budget, odd pages and failures |
| `SegmentsStayWhole`, `RotationIsFair` | `SegmentsAreWhole`, `NoSourceStarves` | the same; any roster and batch |
| `FeedTypesHold`, `FeedsStayHonest` | `FeedTypes`, `FeedsAreHonest` | any profiles, windows, page size and failures |
| `SourcesStayRead` | `SourcesAreRead`: the three above, beside the other machines | the same |
| `CaptionTypesHold`, `TextsStayVetted`, `OutagesEnd` | `TranslationTypes`, `TextsAreVetted`, `OutageHasEnd` | any posts, models, keys and answers |
| `CaptionsStaySafe` | `CaptionsAreSafe`: the last two, beside the other machines | the same |
| `FusionTypesHold`, `TimelineStaysWhole` | `FusionTypes`, `TimelineAgrees` | any posts, likenesses and limits |
| `SegmentTypesHold`, `TextsStayGrounded` | `SegmentTypes`, `TextsRestOnFacts` | any posts, relations, redundancies, drafts and failures |
| `MediaShownOnce`, `DraftsKeptWhole`, `PlansStayWhole` | `PlansCarryAll`, `PlansKeepDrafts`, and both as `PlansAreWhole` beside the other machines | any posts, media, album limit, drafts and parts |
| `RequestsStayHonest` | `RequestsAreHonest` | any sources, configurations and failures |
| `BundlesStayHonest` | `BundlesAreHonest` | any jobs, sources, posts and failures |
| `HostTypesHold` | `HostTypes` | any commands, reminders and faults |
| `DoneOncePerCause` | `OncePerCause` | the same |
| `CopyLosesNothing` | `CopyKeepsAll` | the same |
| `RecordsTypesHold`, `RecordsStayHonest` | `RecordsTypes`, `RecordsAreHonest` | any posts, albums, shared pictures and faults |
| `EditTypesHold`, `OneEditInForce` | `EditTypes`, `EditsInForce` | any drafts, texts, rewrites and failed messages |
| `VoiceTypesHold`, `WeightsStayEarned` | `VoiceTypes`, `WeightsAreEarned` | any edits, content types, number of records kept |
| `FinalEditsStayInForce` | `FinalEditsHold`: the two above, beside the other machines | the same |
| `FicTypesHold`, `DigestsStayWhole` | `FicTypes`, `DigestsAreWhole` | any nights, parts, revisions, requests and failures |
| `RefusedWorksStandAlone` | `RefusedWorksAreIsolated` | any list, batch size, models and refusals |
| `DeskTypesHold`, `DeskStaysInAgreement` | `DeskTypes`, `DeskAgrees` | any drafts of a post, rewrites and older files |
| `DogTypesHold`, `FailuresArePublished` | `DogTypes`, `FailuresShow` | any number of sources, any batch, any interval |
| `VerdictFailsClosed` | `FailsClosed` | a degraded pass reads all the sources (`Degraded = Active`) |
| `RecoveryStaysBounded` | `RecoveryIsBounded` | any interval and order of triggers |
| `OperationsTypesHold` | `OperationsTypes`: polling and watchdog as `MCOperations` puts them together | any faults |
| `BooksTypesHold` | `BooksTypes`: all machines of `MCRecords` beside each other | any faults, and finitely many jobs for days |

**Delivery.** That a post is marked seen only after its message was shown is not
inductive: the mark is one assignment, the showing a loop over parts that skips those with
a receipt and may have begun in a run killed long ago. `Progress` carries it: receipts of
both copies of the database name messages that are in the chat, parts below the loop
counter are there under the *current plan*, and at `mark` the whole message is. `Control`
says that a plan exists wherever the loop uses one. `NoSilentMiss` balances four sets of
posts in three copies of the state; it is inductive with `TypeOK` alone. With a database
that is not rolled back, `PlanWins` (what is in the chat is the persisted plan of its key)
gives `OneTextPerKey`; `Counted` charges each accept to a receipt, to the confirmation about
to be written, or to the count of unacknowledged accepts, and gives `BoundedDuplicates`;
`Listed` carries the inbox row from `RecordInbox` over the seen mark to every copy.
`DbWrites` and `ChatWrites` reduce all three to the few steps that touch these stores.

**Polling.** Telegram's list and the effects of commands are related through the offset:
everything below it is settled, in the process and on disk (`Offsets`); in the loop, what
precedes the command in hand is settled (`Loop`); and a command at or above the offset was
carried out at most once per kill (`Replay`).

**Source-first queue.** Each operation of the store is a function of a round, and each
has one lemma saying that it keeps the round well formed (`Well`), closes it only when
nothing waits (`Done`), and moves focus and deferrals only as allowed (`Moved`).
The handlers are compositions of these, and so are the proofs of their steps.

**The promise.** `KeepsPromise` asks of every step of the delivery that it is a step of
`ReviewPromise` or leaves its variables alone. Only the checkpoint that writes `state.json`
moves them, and what it writes may differ from the file by a whole batch. `Ahead` says in which
direction: against the file, the process only adds to the seen, discarded and quarantined
posts, takes from the queue only what it settled, and marks as seen only what is in the chat.
Two of its parts are about the rows of posts (`RowsMove`), and `OneIsShown` says why a
write that settles a post by showing it finds it shown.

**Scheduled scan.** That no cursor passes a post is an arithmetic fact about the windows the
passes used: `ScanInv` says of every post older than the lag behind a cursor that it was
inside the window of a pass that returned it, or was given up by the fresh floor or by the
lookback, the two exceptions the property names.

**Realtime.** That a post is read once needs to know what a claim stands for: `ClaimsHold` says
that a task reads only what it has claimed, that no other task reads it and nobody has read it, and
that a claim without a task is a reservation, a reading done, or the leftover of a
cancelled one.

**Requests for sources.** `NotAnswered` describes a request in progress: every source read by now
gave all its posts or is among the errors. The answers follow from it, and `Remembered`
says that what is stored as complete was.

**Completeness evidence.** `Collects` says what the attempt knows of a run that began afresh: after
responses in order, every post of the window from the provider's cursor on is listed, because a
page has every post between its oldest and the cursor it was asked for (`PageIsWhole`), and once a
post listed is older than the window, or the timeline ended, all of it is. What was
converted is found and stored. Nothing of the kind is claimed of a resumed run, and the engine never
vouches for one. A cursor above the present (`through.to <= clock`) would be passed by posts to
come, so that it is not is part of the invariant.

**Segments and rotation.** A resumed window is whole (`SegmentsInv`) because a page is whole between its
oldest post and the cursor it was asked for, so a run that has found everything above a cursor
still has everything above the next one (`PageFills`), and what it leaves in a checkpoint is as whole as it
was. An odd page brings the rest of its segment into `obscured`, so what a run holds together with what was
hidden stays whole without an exception. `TurnComes` bounds the rotation: a source passed
over n times in a row comes at least n batches before the end of the roster, counted from
where the rotation stands, so n stays below a whole round, whatever the roster and the batch.

**Public feeds.** `FeedInv` says of each source where it is in its chain of providers: it has given
something just when it is done, what it gave are its own wanted posts and with each every
newer one, and a source that read FxTwitter back to the start of the window gave all of them. `HopsAccounted`
ties the chain to the account of the pass. Every provider's step is one lemma, `FeedMoves`.

**Captions.** `CaptionInv` carries two things through a group's requests: the writer's memory, in which
a model at rest or an outage always comes with a deadline (`Ending`), so that an outage ends; and
what waits for its repair is the whole group, with nothing of it handed on. One request goes
through the models in order, and its result is a recursive function over that order;
`OneAskedIsSound` and `AllAskedIsSound` carry both along it.

**Events.** `TimelineAgrees` speaks of the namespace as it would be read, so the invariant has to say what
reading repairs. `Sound` is what always holds: the events of a namespace divide the posts
they name, so do its segments, and a post in a segment is in its event, or that event was
pruned. `Consistent` is the same without the exception, which reading and every prune restore
(`ReadIsSettled`), and which the stages of an analysis need (`WorkSound`). The order of ids,
on which pruning rests, is that of `Ranking`.

**Texts.** `TextInv` follows one telling. The lines of a fused text are kept good at each
candidate that fusion considers (`ConsiderFits`, carried over all candidates by `UpTo`), and so is that the
backbone stands first and unopposed and that nothing is left out unless something was set aside
(`ConsiderAccounts`, `WeighsUp`); a text with anything set aside is not called faithful. `SoundStyle`
says that an accepted style rests on such lines, and one of the same telling on just these. The number of a
telling does the rest: facts and style are never of a later telling than the present one, and while it
fuses both are older, so after a failure the old style is not taken for the new facts'. A package
refers to texts only where a style exists, which was made of facts that were told.

**Plans.** A plan is what a loop makes of a sequence. `MediaUnits` (the media placed so far
stand once each, in albums Telegram takes) and `PartsSound` (the messages of the first drafts stand, in
order) hold of nothing and are kept by one turn of the loop, and `UpTo` concludes for all of them.
That the recursive functions which the model uses for loops satisfy their equations is itself
proved (`Recursion`), by induction on the length; the sequence of posts in order exists because ranks
in a finite set of numbers are a bijection (`InOrderIs`).

**Calibration.** A weight in force rests on edits that may be forgotten by now. So `VoiceInv` claims of both
sets of weights that they were earned by all edits ever made (`Earned`), and that the records kept are the
last of these (`EndOf`): what they say, the whole history said.

**Machines beside each other.** A behaviour of `MCRecords` or `MCOperations` is one of each of its machines:
the step of another machine leaves its variables alone (the lemmas named `...Beside`). So what a machine keeps
alone it keeps there. For `BooksTypes`, bounds that no other theorem needs are invariants of their own: a
run that pages is below its budget, or in a second segment that it opened with the page which used
the budget up, so what it saw ends below the budget and two timelines (`WithinBudget`);
a job is asked for anew only while all of them together have spent fewer generations than the bound
(`GenerationToSpare`, where the jobs have to be finitely many); the models to be asked are a part of
the policy's (`ModelsInHand`); sources and posts of a request are configured or published ones (`AskData`).

**Requests for a day.** `KeptJob` ties a job's record to the sources that are enabled and to those
read whole: a coverage marked complete is earned, work left means collecting, and a
live selection is closed under answers by authors who are still enabled; the last holds at
the selection because the walk ends at a closed set (`ThreadIsWhole`) and survives because only
posts of disabled authors leave it. `SendsCounted` charges each sending to the
delivered mark or to a failure to record it.

**Webhook owner.** `OncePerCause` compares counters of effects with counters of causes.
Between them stand two facts about the files: a command that ended more often than a restart
forgot is below the offset in memory (`EndsCounted`), and a reminder shown more often than its
causes explain is on file as shown (`ToldCounted`). The second holds only if a new reminder
never takes the row of an old one: `RowsPaid` charges every row to the end of its
command or to a failure, on the disk and in the pinned copy, with one row less
while the process stops, so a free row is left whenever a handler wants one. For `CopyKeepsAll`,
`SecuredKept` says that what a copy ever held is below the offset of the pinned copy and of every running
process, and `RemindersKept` that a finished command which no restart forgot has its reminder
wherever an offset is past it: on the disk of a running process, beside a write-ahead log that a crash
left, on a disk that holds no half restore, and in the copy.

**Lifecycle records.** A record may say "delivered" only because of what a receipt says, so
`ReceiptsSound` is needed: whichever name of an item has a receipt (address, content,
Telegram's name), its content is in the chat. With it, an album of which every item was sent,
held back by a receipt, or held back as a twin of one that was sent is in the chat
(`AlbumVisible`); `TripSound` carries that to the moment the text is sent and the record written, and
each function of the book has a lemma saying that it keeps a book honest.

**Final edits.** `EditsInForce` counts open sessions and orders edits; `EditInv` says the same
of the sequences themselves: two open sessions of one draft are the same one (`OpenSound`),
and an edit is active just when no later edit is of its draft (`Chained`). Closing, prompting and
confirming are changes of these sequences with one lemma each (`ClosedSound`, `PromptSound`,
`ConfirmChains`). That a candidate is confirmed with the caption it was begun with needs no
more than the check at the button, since captions only grow or vanish.

**Digest.** Copies of a part are charged to failures: `CopiesOf` allows one copy more than
failures for a part that is confirmed in the run's database, none for one that is not. It stays true
when the saved database comes back without a confirmation, because losing the runner is itself
a failure. That the parts agree needs that a key has one plan (`StoreSound`), that every message
is of the plan of its key, and that the run that executes has the saved database whenever none
executed before it (`RunSound`).

**Summaries.** `NoWorkLost` follows every work of a list: as long as requests are left, it has its
translation, was asked for alone, or is in the subset in hand or in one on the agenda. Two facts of
arithmetic carry it: the batches have every work (`Quotients`), and a subset has a first half
(`MiddleOf`), so that halving loses nobody.

**Editor's desk.** `PlacesAgree` speaks of the desk of the run, but a killed run hands on a file
it wrote or the one it found. So `DeliveredOn` is claimed of all three: what such a desk
delivered is in the inbox, has a row in the archive and was shown with the text kept there.
Inbox, archive and what was shown only grow, so each step has to look only at the desk it
changes. That the archive is searched by a caption of the *present* texts (`Searchable`) holds of
the run's desk alone; a start with an older file restores it by syncing every draft kept there.

**Verdict and watchdog.** `DogInv` follows a run from start to verdict: the counters of a report
add up (`Sums`), and what was not read is noticed as partial, failed or not due (`Noticed`).
The audit step classifies again with the function that lacks the hardening; `Noticed` is what
makes that harmless, and only if a degraded pass reads all the sources: with a smaller batch
TLC finds a pass whose whole batch failed and which the audit publishes as healthy, since the
batch is fewer than the sources. The code's default batch is the largest it allows, 64, so
that it covers the sources (`app/x_provider_recovery.py:26`), of which there are 24; a lower
`X_SYNDICATION_FALLBACK_BATCH_SIZE` gives the guarantee up. `FailuresShow` does not depend on it.
`Chain` bounds recoveries: after a recovery that failed late only an end that was known before it
began can start another one, and after the second no end is left to look at, unless a cron
run, which starts afresh, stands between.

Only model-checked is liveness (`PaysDebts`, `EveryCommandSettled`, `EveryDraftReviewed`,
`ServiceSettles`, `RequestsEnd`, `BacklogGathered`, `DailyGoesOn`), which is beyond the prover.
Every safety property of a passing run is a theorem.

## 6. What is not modelled

Components and parts left out, with the reason:

* **Wording**: captions, prompts, the checks of the quality gates, style rules, titles. A text
  passes a check or does not. The legacy caption writer, which has no final vetting, is left out.
* **Providers' HTTP and parsing**, the choice of a media rendition, the enrichment of a
  realtime candidate, latencies: pure functions or I/O.
* **Callback tokens**: long button payloads stored under a short name. Only payloads above
  64 bytes get one and names are 96-bit hashes; what could go wrong is the age at which one
  is dropped, after which the button is refused.
* **Retry columns** of the source-first tables, reports, dashboards, the searchable projection
  of the archive and its periodic copies: nothing reads them back to decide something.
* **Measuring a voice**: how features of a text are computed, the sizes of weights, the ranking of
  examples; in `VoiceCalibration` an edit already has its measure, and a weight is its sign.
* **Tools, benchmarks, exports, encryption, configuration parsing**: operations by hand or pure functions.
* In `EventFusion`, decisions and relationships and `MAX_PACKAGES`; in `SegmentText`, the
  quote bonus, confidence, warnings about retrieval and media, and more than one segment; confirmed final
  edits are an input there.

Hazards that were seen and have no property, because the product of two machines would be
needed or because the code accepts them:

* polls between groups may decide posts of the batch in progress (`app/private_runtime.py:305`;
  the product of `ReviewDelivery` and `TelegramPolling` is out of TLC's reach);
* a text Telegram refuses for good blocks the groups and reminders behind it
  (`app/private_runtime.py:401`, `app/reminder_runtime.py:114`);
* an outage longer than the lookback skips what is older (`app/webhook_aware_assistant.py:288`);
* the effects of a run's first poll on prompts are in memory until something saves (`app/main.py:49`).

TLC's faults are budgets, so runs in which faults never end are not covered by liveness; the
safety theorems do cover them.

## 7. Plan

In this order:

1. The composition of polls between groups with the delivery, over an abstraction of the
   polling machine by what its handlers may do to posts of the batch.
2. The archive's projection and the ranking of style examples, as functions checked against their definitions.
3. Callback tokens, with the age at which one is dropped.
