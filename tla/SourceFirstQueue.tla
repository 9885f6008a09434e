--------------------------- MODULE SourceFirstQueue ---------------------------
(***************************************************************************)
(* The source-first review queue: SourceFirstQueueStore and the handlers   *)
(* that source_first_runtime installs around the application.              *)
(*                                                                         *)
(* review_inbox says which drafts are pending.  Over it the store keeps one *)
(* round of review: which drafts belong to it, the state of each source,   *)
(* and the source in focus, whose drafts are shown oldest first.  Every    *)
(* handler merges the inbox into the round before and after its own work,  *)
(* but drafts arrive between handlers, the configured sources change with  *)
(* a deployment, and a draft's text, which state.json holds, may be lost.  *)
(***************************************************************************)
EXTENDS Integers, Sequences, FiniteSets

CONSTANTS
  Source,    \* source handles
  Draft,     \* draft ids
  SourceOf,  \* the source of each draft
  Age,       \* place of each draft in the order of creation
  Name,      \* place of each source in the alphabet
  Configs,   \* lists of sources, some of whose entries are disabled
  Off,       \* a disabled entry
  None,      \* no source
  Buttons,   \* how many deferred sources are offered for resumption
  MaxLost    \* bound on lost drafts

ASSUME SourceAssumption == IsFiniteSet(Source) /\ None \notin Source /\ Off \notin Source
ASSUME DraftAssumption ==
  /\ IsFiniteSet(Draft)
  /\ SourceOf \in [Draft -> Source] /\ Age \in [Draft -> Nat] /\ Name \in [Source -> Nat]
  /\ \A d, e \in Draft : Age[d] = Age[e] => d = e
  /\ \A s, t \in Source : Name[s] = Name[t] => s = t
ASSUME ConfigAssumption == Configs # {} /\ \A c \in Configs : c \in Seq(Source \cup {Off})
ASSUME BoundAssumption == Buttons \in Nat \ {0} /\ MaxLost \in Nat

VARIABLES
  config,  \* settings.sources of this deployment
  inbox,   \* review_inbox.status of each draft
  lost,    \* drafts whose text is no longer in state.json
  round,   \* source_review_sessions, _sources and _items
  busy     \* the source being retried, None outside the retry handler

vars == <<config, inbox, lost, round, busy>>
-----------------------------------------------------------------------------
(* The three tables: the session's status and active_source; the sources   *)
(* that have a row, those whose state is deferred or active, their order;  *)
(* and the drafts that belong to the session.  Of the rows in neither      *)
(* state, those with nothing waiting are complete and the others pending;  *)
(* the retry columns are shown to the editor only and left out.            *)
Round == [open: BOOLEAN, active: Source \cup {None},
          rows: SUBSET Source, deferred: SUBSET Source, marked: SUBSET Source,
          order: [Source -> Nat], items: SUBSET Draft]

NewRound == [open |-> TRUE, active |-> None,
             rows |-> {}, deferred |-> {}, marked |-> {},
             order |-> [s \in Source |-> 0], items |-> {}]

Init ==
  /\ config \in Configs
  /\ inbox = [d \in Draft |-> "absent"] /\ lost = {}
  /\ round = [NewRound EXCEPT !.open = FALSE]
  /\ busy = None

Pending(box) == {d \in Draft : box[d] = "pending"}

(* _counts: the drafts of s in this round that wait for a decision.        *)
Waiting(r, box, s) == {d \in r.items : SourceOf[d] = s /\ box[d] = "pending"}

(* ORDER BY source_order, source.                                          *)
Before(r, s, t) ==
  \/ r.order[s] < r.order[t]
  \/ r.order[s] = r.order[t] /\ Name[s] < Name[t]

(* Mutant: the source whose drafts are oldest comes first.                 *)
OldestFirst(r, S) ==
  CHOOSE s \in S : \E d \in r.items :
    SourceOf[d] = s /\ \A e \in r.items : SourceOf[e] \in S => Age[d] <= Age[e]

FirstOf(r, S) == CHOOSE s \in S : \A t \in S \ {s} : Before(r, s, t)

(* Sources of the round with something to review.                          *)
Unfinished(r, box) == {s \in r.rows : Waiting(r, box, s) # {}}

Focused(r, s) == [r EXCEPT !.active = s, !.marked = @ \cup {s}, !.deferred = @ \ {s}]

(* Mutant: a round whose remaining sources are all put off is closed.      *)
ActivateOrClose(r, box) ==
  LET ready == Unfinished(r, box) \ r.deferred
  IN IF r.active # None THEN r
     ELSE IF ready # {} THEN Focused(r, FirstOf(r, ready))
     ELSE [r EXCEPT !.open = FALSE]

(* _activate_next: a free focus goes to the first source that is ready; if *)
(* there is none and no deferred one waits either, the round is complete.  *)
ActivateNext(r, box) ==
  LET ready == Unfinished(r, box) \ r.deferred
  IN IF r.active # None THEN r
     ELSE IF ready # {} THEN Focused(r, FirstOf(r, ready))
     ELSE [r EXCEPT !.open = Unfinished(r, box) # {}]

(* Mutant: what was put off is forgotten when the round is reconciled.     *)
ReconciledAnew(r, box) ==
  LET left == Unfinished(r, box)
  IN [r EXCEPT !.deferred = {}, !.marked = @ \cap left,
               !.active = IF @ \in left \cap r.marked THEN @ ELSE None]

(* Mutant: the source in focus keeps the focus when it is finished.        *)
FocusStuck(r, box) ==
  LET left == Unfinished(r, box)
  IN [r EXCEPT !.deferred = @ \cap left]

(* _reconcile_states: what is finished is neither deferred nor active.     *)
Reconciled(r, box) ==
  LET left == Unfinished(r, box)
  IN [r EXCEPT !.deferred = @ \cap left, !.marked = @ \cap left,
               !.active = IF @ \in left \cap r.marked THEN @ ELSE None]

Configured(cfg) == {cfg[i] : i \in DOMAIN cfg} \ {Off}
Unknown(box, cfg) == {SourceOf[d] : d \in Pending(box)} \ Configured(cfg)

(* The index of its first enabled entry; sources that are not configured   *)
(* are numbered alphabetically from the number of configured ones on.      *)
OrderOf(box, cfg, s) ==
  IF s \in Configured(cfg)
  THEN (CHOOSE i \in DOMAIN cfg : cfg[i] = s /\ \A j \in DOMAIN cfg : cfg[j] = s => i <= j) - 1
  ELSE Cardinality(Configured(cfg))
         + Cardinality({t \in Unknown(box, cfg) : Name[t] < Name[s]})

(* Mutant: only configured sources have rows.                              *)
ConfiguredOnly(r, box, cfg) ==
  [r EXCEPT
     !.rows = @ \cup Configured(cfg),
     !.order = [s \in Source |-> IF s \in Configured(cfg) THEN OrderOf(box, cfg, s) ELSE r.order[s]],
     !.items = @ \cup Pending(box)]

(* The first half of sync: rows for the sources, items for the drafts.  A  *)
(* row that exists keeps its state, only its order is refreshed.           *)
Enrolled(r, box, cfg) ==
  LET rows == Configured(cfg) \cup Unknown(box, cfg)
  IN [r EXCEPT
        !.rows = @ \cup rows,
        !.order = [s \in Source |-> IF s \in rows THEN OrderOf(box, cfg, s) ELSE r.order[s]],
        !.items = @ \cup Pending(box)]

(* sync: a new round is opened only when something is pending.             *)
Synced(r, box, cfg) ==
  IF ~r.open /\ Pending(box) = {} THEN r
  ELSE LET e == Enrolled(IF r.open THEN r ELSE NewRound, box, cfg)
       IN ActivateNext(Reconciled(e, box), box)

(* defer: of any source with drafts waiting, the focus leaves it.          *)
Deferred(r, box, s) ==
  IF s \notin Unfinished(r, box) THEN r
  ELSE ActivateNext([r EXCEPT !.deferred = @ \cup {s}, !.marked = @ \ {s},
                              !.active = IF @ = s THEN None ELSE @], box)

(* Mutant: a source that is resumed gets the focus at once.                *)
ResumedInFocus(r, box, s) ==
  IF s \notin r.deferred THEN r ELSE Focused(r, s)

(* resume: the source waits for its turn again.                            *)
Resumed(r, box, s) ==
  IF s \notin r.deferred THEN r ELSE ActivateNext([r EXCEPT !.deferred = @ \ {s}], box)

(* snapshot: the oldest draft of the source in focus is on show ...        *)
OnShow ==
  LET drafts == Waiting(round, inbox, round.active)
  IN {d \in drafts : \A e \in drafts : Age[d] <= Age[e]}

(* ... and the first deferred sources are offered for resumption.          *)
Offered(r) ==
  {s \in r.deferred : Cardinality({t \in r.deferred : Before(r, t, s)}) < Buttons}

Now == Synced(round, inbox, config)
-----------------------------------------------------------------------------
(* deliver_updates records a draft in the inbox; sync follows at the end,  *)
(* if the delivery gets that far.  A retry delivers posts of its source.   *)
Deliver(d) ==
  /\ inbox[d] = "absent" /\ busy \in {None, SourceOf[d]}
  /\ inbox' = [inbox EXCEPT ![d] = "pending"]
  /\ UNCHANGED <<config, lost, round, busy>>

(* The end of a delivery, a restart, or the view being opened.             *)
Sync ==
  /\ busy = None
  /\ round' = Now
  /\ UNCHANGED <<config, inbox, lost, busy>>

(* A restart with another list of sources.                                 *)
Deploy(cfg) ==
  /\ busy = None
  /\ config' = cfg
  /\ round' = Synced(round, inbox, cfg)
  /\ UNCHANGED <<inbox, lost, busy>>

(* handle_draft_action, copy or reject, from any message that still has    *)
(* the draft's buttons; a kill or an error may come before the sync.       *)
Settle(d, synced) ==
  /\ busy = None /\ inbox[d] = "pending"
  /\ inbox' = [inbox EXCEPT ![d] = "settled"]
  /\ round' = IF synced THEN Synced(round, inbox', config) ELSE round
  /\ UNCHANGED <<config, lost, busy>>

(* The editor opens the draft on show, which is refused if its text is     *)
(* lost, and decides on it.                                                *)
Review ==
  \E d \in OnShow \ lost, synced \in BOOLEAN : Settle(d, synced)

(* Any button that was ever sent may be pressed; both handlers sync first. *)
(* The view they show syncs again, which changes nothing any more.         *)
Defer(s) ==
  /\ busy = None
  /\ round' = Deferred(Now, inbox, s)
  /\ UNCHANGED <<config, inbox, lost, busy>>

Resume(s) ==
  /\ busy = None
  /\ round' = Resumed(Now, inbox, s)
  /\ UNCHANGED <<config, inbox, lost, busy>>

ResumeOffered == round.active = None /\ \E s \in Offered(round) : Resume(s)

(* retry_source_first_source collects and delivers one source's posts.     *)
BeginRetry(s) ==
  /\ busy = None /\ Now.open /\ s \in Now.rows
  /\ round' = Now
  /\ busy' = s
  /\ UNCHANGED <<config, inbox, lost>>

EndRetry ==
  /\ busy # None
  /\ round' = Now
  /\ busy' = None
  /\ UNCHANGED <<config, inbox, lost>>

(* A Telegram error, or a kill, leaves the row as it is.                   *)
AbortRetry ==
  /\ busy # None
  /\ busy' = None
  /\ UNCHANGED <<config, inbox, lost, round>>

(* state.json falls back or drops its oldest drafts; the inbox does not.   *)
Lose(d) ==
  /\ Cardinality(lost) < MaxLost /\ inbox[d] = "pending"
  /\ lost' = lost \cup {d}
  /\ UNCHANGED <<config, inbox, round, busy>>
-----------------------------------------------------------------------------
Next ==
  \/ \E d \in Draft : Deliver(d) \/ Lose(d) \/ \E synced \in BOOLEAN : Settle(d, synced)
  \/ Sync \/ Review
  \/ \E cfg \in Configs : Deploy(cfg)
  \/ \E s \in Source : Defer(s) \/ Resume(s) \/ BeginRetry(s)
  \/ ResumeOffered
  \/ EndRetry \/ AbortRetry

Spec == Init /\ [][Next]_vars

CanReview == busy = None /\ OnShow \ lost # {}
CanResume == busy = None /\ round.active = None /\ round.deferred # {}
CanSync   == busy = None /\ round # Now

(* The editor comes back again and again, decides on the draft on show and *)
(* resumes what is offered when nothing else is left; runs start for ever, *)
(* and handlers return.  This is strong fairness of each of the actions,   *)
(* with the conditions that enable them spelled out.                       *)
Fairness ==
  /\ <>[]~CanReview \/ []<><<Review>>_vars
  /\ <>[]~CanResume \/ []<><<ResumeOffered>>_vars
  /\ <>[]~CanSync \/ []<><<Sync>>_vars
  /\ <>[](busy = None) \/ []<><<EndRetry \/ AbortRetry>>_vars

FairSpec == Spec /\ Fairness
-----------------------------------------------------------------------------
(* Type of every variable (source_first_queue.py, review_inbox.py); a      *)
(* source with drafts in the round has a row, with a single state.         *)
TypeOK ==
  /\ config \in Configs
  /\ inbox \in [Draft -> {"absent", "pending", "settled"}]
  /\ lost \subseteq Draft
  /\ round \in Round
  /\ round.deferred \subseteq round.rows /\ round.marked \subseteq round.rows \ round.deferred
  /\ {SourceOf[d] : d \in round.items} \subseteq round.rows
  /\ busy \in Source \cup {None}

(* The session's active_source and the state column of the sources always  *)
(* name the same source: at most one is in focus.                          *)
OneFocus == round.marked = {round.active} \ {None}

(* A round is closed only when none of its drafts waits for a decision, so *)
(* that starting a new one forgets nothing the editor has put off.         *)
ClosedMeansDone == round.open \/ round.items \cap Pending(inbox) = {}

(* The two tables of a round agree, and a closed round left nothing behind *)
(* (source_first_queue.py: reconcile, defer, resume).                      *)
RoundsAgree == OneFocus /\ ClosedMeansDone

(* "One source remains active while it has pending drafts": the focus      *)
(* leaves a source only when nothing of it is left or the editor defers it. *)
FocusKept ==
  [][round.active \notin {None, round'.active} =>
       \/ Waiting(round', inbox', round.active) = {}
       \/ round.active \in round'.deferred]_vars

Precedes(cfg, s, t) ==
  \E i \in DOMAIN cfg : cfg[i] = s /\ \A j \in DOMAIN cfg : cfg[j] = t => i < j

(* "Configured file order is the editorial source order": the focus goes   *)
(* to a configured source only if every one listed before it has nothing   *)
(* pending anywhere, or was put off when the step began or ended.          *)
FileOrder ==
  [][\A s, t \in Configured(config') :
       /\ round'.active = t /\ round.active # t
       /\ Precedes(config', s, t)
       => \/ {d \in Pending(inbox') : SourceOf[d] = s} = {}
          \/ s \in round.deferred \cup round'.deferred]_vars

(* A source put off by the editor stays put off, over restarts and new     *)
(* drafts, until it is resumed or nothing of it is left.                   *)
DeferralKept ==
  [][\A s \in round.deferred :
       s \in round'.deferred \/ Waiting(round, inbox', s) = {} \/ Resume(s)]_vars

(* What the editor chose stays chosen: neither the source in focus nor one *)
(* put off changes its place until the editor says so or it is done.       *)
ChoicesKept == FocusKept /\ DeferralKept

(* Every pending draft is decided on in the end, whatever is put off or    *)
(* retried, unless a draft whose text is lost blocks the queue.            *)
EveryDraftReviewed ==
  \A d \in Draft : inbox[d] = "pending" ~> inbox[d] = "settled" \/ lost \cap Pending(inbox) # {}
=============================================================================
