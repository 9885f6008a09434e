----------------------------- MODULE Retrieval ------------------------------
(***************************************************************************)
(* Reading one source's timeline on X: newest page first, by a provider    *)
(* cursor, under a budget per run, with a checkpoint in state.json that a   *)
(* later run resumes.  Where authenticated X is known to be degraded, a    *)
(* rotating batch of sources is read from public feeds instead, which      *)
(* never proves anything.                                                  *)
(*                                                                         *)
(* The source publishes one post per tick of the clock, so a post is its   *)
(* time.  Three callers ask for windows: the scheduled scan, the replay of *)
(* recent hours, and the replay of one source.                             *)
(***************************************************************************)
EXTENDS Integers, FiniteSets

CONSTANTS
  Callers,      \* which of "daily", "recent", "source" ask
  Rescan,       \* overlap of scheduled scans
  Hours,        \* length of a recent or source window, in ticks
  PageSize,     \* posts on a page
  Budget,       \* limit: posts seen before a run ends itself
  Roster,       \* enabled sources; this one is number 0
  Batch,        \* X_SYNDICATION_FALLBACK_BATCH_SIZE
  OddPages,     \* what X may answer: "stray" has an old post out of order, pinned or
                \* quoted; "bare" is no answer or an error and brings no cursor
  LastTick,     \* bound on the clock
  FetchFaults   \* bound on failures

ASSUME RetrievalConstants ==
  /\ Callers \subseteq {"daily", "recent", "source"}
  /\ {Rescan, FetchFaults} \subseteq Nat /\ OddPages \subseteq {"stray", "bare"}
  /\ {Hours, PageSize, Budget, Roster, Batch, LastTick} \subseteq Nat \ {0}

VARIABLES
  clock,        \* posts 1 .. clock - 1 exist
  cursor,       \* last_auto_run
  streak,       \* x_scan_failure_streak, modulo Roster: only that is used of it
  checkpoints,  \* x_retrieval_checkpoints of the source, by window_start
  fetch,        \* the run in progress
  fetchFaults

(* What happened, for the properties.                                      *)
VARIABLES
  gathered,     \* posts that reached the queue or the editor
  passedOver,   \* passes in a row that did not ask this source
  obscured      \* posts of a segment that an odd page ended before they were read

fetchVars == <<clock, cursor, streak, checkpoints, fetch, fetchFaults, gathered, passedOver,
               obscured>>

Moment == 1 .. LastTick
Top == 0                       \* no cursor: the newest page

NoCheckpoint == [from |-> 0, to |-> 0, below |-> Top, found |-> {}]
NoFetch == [caller |-> "none", start |-> 0, end |-> 0, key |-> 0, from |-> 0, to |-> 0,
            below |-> Top, found |-> {}, seen |-> 0, phase |-> "idle"]

FetchTypes ==
  /\ clock \in Moment /\ cursor \in Moment /\ streak \in 0 .. Roster - 1
  /\ checkpoints \in [Moment -> [from : 0 .. LastTick, to : 0 .. LastTick,
                               below : 0 .. LastTick, found : SUBSET Moment]]
  /\ fetch.caller \in Callers \cup {"none"} /\ fetch.found \subseteq Moment
  /\ fetch.phase \in {"idle", "paging", "complete", "partial"}
  /\ fetch.seen \in 0 .. 2 * LastTick + Budget + PageSize
  /\ gathered \cup obscured \subseteq 1 .. clock - 1
  /\ fetchFaults \in 0 .. FetchFaults /\ passedOver \in Nat

FetchInit ==
  /\ clock = 1 /\ cursor = 1 /\ streak = 0
  /\ checkpoints = [k \in Moment |-> NoCheckpoint]
  /\ fetch = NoFetch /\ fetchFaults = 0
  /\ gathered = {} /\ passedOver = 0 /\ obscured = {}

Published(from, to) == {t \in Moment : from <= t /\ t < to /\ t < clock}

Greater(a, b) == IF a < b THEN b ELSE a

Flawed == fetchFaults < FetchFaults /\ fetchFaults' = fetchFaults + 1
Flawless == UNCHANGED fetchFaults

PostAppears ==
  /\ clock < LastTick
  /\ clock' = clock + 1
  /\ UNCHANGED <<cursor, streak, checkpoints, fetch, fetchFaults, gathered, passedOver, obscured>>

----------------------------------------------------------------------------
(* Checkpoints.  One is known by the start of the window it was made for.  *)

Open(k) == checkpoints[k].to # 0

(* A window of several sources may also continue a checkpoint made for     *)
(* another window of the source that does not end later than it; of all    *)
(* those it takes the one with the oldest start.                           *)
Candidates(caller, start, end) ==
  {k \in Moment : Open(k) /\ (k = start \/ (caller # "source" /\ checkpoints[k].to <= end))}

Oldest(K) == CHOOSE k \in K : \A j \in K : k <= j

FreshRun(caller, start, end) ==
  [caller |-> caller, start |-> start, end |-> end, key |-> start,
   from |-> start, to |-> end, below |-> Top, found |-> {}, seen |-> 0, phase |-> "paging"]

Resumed(caller, start, end, k) ==
  LET c == checkpoints[k] IN
  [FreshRun(caller, start, end) EXCEPT
     !.key = k, !.from = c.from, !.to = c.to, !.below = c.below, !.found = c.found]

(* A checkpoint that reaches beyond the window is not continued.           *)
Continues(caller, start, end) ==
  LET K == Candidates(caller, start, end) IN K # {} /\ checkpoints[Oldest(K)].to <= end

RunFor(caller, start, end) ==
  IF Continues(caller, start, end)
    THEN Resumed(caller, start, end, Oldest(Candidates(caller, start, end)))
    ELSE FreshRun(caller, start, end)

Saved(f) == [checkpoints EXCEPT ![f.key] =
               [from |-> f.from, to |-> f.to, below |-> f.below, found |-> f.found]]

Cleared(f) == [checkpoints EXCEPT ![f.key] = NoCheckpoint]

----------------------------------------------------------------------------
(* A run.                                                                  *)

WindowStart(caller) ==
  IF caller = "daily" THEN Greater(cursor - Rescan, 1) ELSE Greater(clock - Hours, 1)

Begin ==
  /\ fetch.phase = "idle"
  /\ \E caller \in Callers :
       /\ WindowStart(caller) < clock
       /\ caller = "daily" => cursor < clock
       /\ fetch' = RunFor(caller, WindowStart(caller), clock)
  /\ UNCHANGED <<clock, cursor, streak, checkpoints, fetchFaults, gathered, passedOver, obscured>>

(* The newest posts below the provider's cursor.                           *)
PageBelow(below) ==
  {t \in 1 .. clock - 1 :
     /\ below = Top \/ t < below
     /\ Cardinality({u \in t + 1 .. clock - 1 : below = Top \/ u < below}) < PageSize}

(* A page is read from its newest post until one older than the segment;  *)
(* such a post may come early.  Without a response, or with an error in    *)
(* it, there are no posts or only the newest, and no cursor.               *)
Readings(page) ==
  {[posts |-> page, stray |-> FALSE, bare |-> FALSE]} \cup
  {[posts |-> {t \in page : t >= n}, stray |-> odd = "stray", bare |-> odd = "bare"] :
     n \in Moment, odd \in OddPages}

Kept(f, r) == {t \in r.posts : f.from <= t /\ t < f.to}

Crossed(f, r) == r.stray \/ \E t \in r.posts : t < f.from

(* The timeline ends here: a valid page has no further cursor.             *)
Exhausted(page) == page = {} \/ 1 \in page

(* The segment's posts that a page was to bring, or a later one.           *)
Unread(f, r) == {t \in Published(f.from, f.to) : (f.below = Top \/ t < f.below) /\ t \notin r.posts}

After(f, page, r) ==
  [f EXCEPT !.found = @ \cup Kept(f, r),
            !.seen = @ + Cardinality({t \in r.posts : t >= f.from})
                       + (IF Crossed(f, r) THEN 1 ELSE 0),
            !.below = IF page = {} THEN Top ELSE Oldest(page)]

(* Mutant: the second segment goes on below the cursor of the first.       *)
CursorKept(f) ==
  IF f.end > f.to
    THEN LET g == [f EXCEPT !.from = f.to, !.to = f.end] IN
         fetch' = g /\ checkpoints' = Saved(g)
    ELSE fetch' = [f EXCEPT !.phase = "complete"] /\ checkpoints' = Cleared(f)

(* The segment is taken for whole when its start was crossed or no further *)
(* cursor came.  A resumed run goes on with the time since its checkpoint  *)
(* was made; otherwise the checkpoint is dropped and the result  *)
(* is complete.                                                            *)
SegmentEnds(f) ==
  IF f.end > f.to
    THEN LET g == [f EXCEPT !.from = f.to, !.to = f.end, !.below = Top] IN
         fetch' = g /\ checkpoints' = Saved(g)
    ELSE fetch' = [f EXCEPT !.phase = "complete"] /\ checkpoints' = Cleared(f)

(* Progress is saved page by page, and a run over its budget ends partial. *)
SegmentContinues(f) ==
  /\ checkpoints' = Saved(f)
  /\ fetch' = [f EXCEPT !.phase = IF f.seen >= Budget THEN "partial" ELSE @]

ReadPage(r) ==
  /\ fetch.phase = "paging"
  /\ LET page == PageBelow(fetch.below)
         f == After(fetch, page, r)
     IN /\ r \in Readings(page)
        /\ IF r.stray \/ r.bare THEN Flawed /\ obscured' = obscured \cup Unread(fetch, r)
                              ELSE Flawless /\ UNCHANGED obscured
        /\ IF Crossed(fetch, r) \/ r.bare \/ Exhausted(page) THEN SegmentEnds(f)
                                                            ELSE SegmentContinues(f)
  /\ UNCHANGED <<clock, cursor, streak, gathered, passedOver>>

ReadAnyPage == \E r \in Readings(PageBelow(fetch.below)) : ReadPage(r)

(* The page comes with the cursor it was asked for: the run ends partial,  *)
(* to ask for the same page again.                                         *)
CursorStalls ==
  /\ fetch.phase = "paging" /\ fetch.below # Top /\ Flawed
  /\ LET page == PageBelow(fetch.below)
         r == [posts |-> page, stray |-> FALSE, bare |-> FALSE]
         f == [After(fetch, page, r) EXCEPT !.below = fetch.below, !.phase = "partial"]
     IN /\ ~Crossed(fetch, r) /\ ~Exhausted(page)
        /\ fetch' = f /\ checkpoints' = Saved(f)
  /\ UNCHANGED <<clock, cursor, streak, gathered, passedOver, obscured>>

(* Every retry of the profile or the page failed.  The public feed may     *)
(* give some posts since the segment's start, which are kept with the      *)
(* cursor where it was.                                                    *)
PageFails ==
  /\ fetch.phase = "paging" /\ Flawed
  /\ \E recovered \in {{}} \cup {Published(t, fetch.end) : t \in fetch.from .. fetch.end} :
       LET f == [fetch EXCEPT !.found = @ \cup recovered, !.phase = "partial"] IN
       fetch' = f /\ checkpoints' = Saved(f)
  /\ UNCHANGED <<clock, cursor, streak, gathered, passedOver, obscured>>

(* The caller's time limit, or a crash.                                    *)
Cut ==
  /\ fetch.phase # "idle" /\ Flawed
  /\ fetch' = NoFetch
  /\ UNCHANGED <<clock, cursor, streak, checkpoints, gathered, passedOver, obscured>>

----------------------------------------------------------------------------
(* What the callers do with the result.                                    *)

(* Mutant: the cursor moves as long as something was read.                 *)
CursorEagerly(othersFailed) ==
  IF fetch.caller = "daily" /\ fetch.found # {} /\ ~othersFailed THEN fetch.end ELSE cursor

(* A partial window is used as far as it goes, with an error on record.    *)
(* The scheduled scan queues everything found and moves its cursor only    *)
(* without an error, its own or another source's.  The replay of recent    *)
(* hours shows what lies in them; the replay of a source shows only a      *)
(* complete result.                                                        *)
CursorAfter(othersFailed) ==
  IF fetch.caller = "daily" /\ fetch.phase = "complete" /\ ~othersFailed
    THEN fetch.end ELSE cursor

Used ==
  CASE fetch.caller = "daily"  -> fetch.found
    [] fetch.caller = "recent" -> fetch.found \cap Published(fetch.start, fetch.end)
    [] OTHER -> IF fetch.phase = "complete" THEN fetch.found ELSE {}

Use ==
  /\ fetch.phase \in {"complete", "partial"}
  /\ gathered' = gathered \cup Used
  /\ \E othersFailed \in BOOLEAN :
       /\ IF othersFailed THEN fetch.caller = "daily" /\ Flawed ELSE Flawless
       /\ cursor' = CursorAfter(othersFailed)
       /\ streak' = IF fetch.caller # "daily" THEN streak
                    ELSE IF cursor' = fetch.end THEN 0 ELSE (streak + 1) % Roster
  /\ passedOver' = IF fetch.caller = "daily" THEN 0 ELSE passedOver
  /\ fetch' = NoFetch
  /\ UNCHANGED <<clock, checkpoints, obscured>>

(* Degraded: a batch of the sources, from a place that moves on with every *)
(* failed scan, is read from public feeds; whatever they give is queued.   *)
(* As long as the source is passed over, a spell counts as one failure.    *)
InBatch(start) == \E i \in 0 .. Batch - 1 : (start + i) % Roster = 0

(* Mutant: the rotation moves on by one source.                            *)
OneFurther == streak % Roster

RotationStart == IF Roster <= Batch THEN 0 ELSE (streak * Batch) % Roster

DegradedPass ==
  /\ "daily" \in Callers /\ fetch.phase = "idle" /\ cursor < clock
  /\ IF passedOver = 0 THEN Flawed ELSE Flawless
  /\ IF InBatch(RotationStart)
       THEN /\ passedOver' = 0
            /\ \E t \in WindowStart("daily") .. clock : gathered' = gathered \cup Published(t, clock)
       ELSE passedOver' = passedOver + 1 /\ UNCHANGED gathered
  /\ streak' = IF Roster <= Batch THEN 0 ELSE (streak + 1) % Roster
  /\ UNCHANGED <<clock, cursor, checkpoints, fetch, obscured>>

----------------------------------------------------------------------------
FetchNext ==
  \/ PostAppears \/ Begin \/ ReadAnyPage \/ CursorStalls \/ PageFails \/ Cut
  \/ Use \/ DegradedPass

FetchFairness == WF_fetchVars(Begin \/ ReadAnyPage \/ Use)

FetchSpec == FetchInit /\ [][FetchNext]_fetchVars /\ FetchFairness

----------------------------------------------------------------------------
(* Properties.                                                             *)

Whole(c, k) ==
  \A t \in 1 .. clock - 1 :
    ((k <= t /\ t < c.from) \/ (c.below # Top /\ c.below <= t /\ t < c.to /\ c.from <= t))
      => t \in c.found \cup obscured

(* However often a run is cut short, stalls, fails or is resumed in two     *)
(* segments: a checkpoint holds every post between its window's start and  *)
(* its segment, and every post of the segment above its cursor; and a run  *)
(* called complete has every post since the start of its checkpoint.  What *)
(* lacks is what an odd page hid, no more: an old post out of order is     *)
(* taken for the boundary, and a page without a cursor for the end of the  *)
(* timeline, though it was no answer at all                                *)
(* (src/app/x_resumable_recovery_runtime.py:654).                          *)
SegmentsAreWhole ==
  /\ \A k \in Moment : Open(k) => Whole(checkpoints[k], k)
  /\ fetch.phase = "complete" => Published(fetch.key, fetch.end) \subseteq fetch.found \cup obscured

(* A run called complete has every post of the window it was asked for.    *)
CompleteWindow ==
  fetch.phase = "complete" => Published(fetch.start, fetch.end) \subseteq fetch.found

(* While X stays degraded, no source waits longer than one turn of the     *)
(* rotation for its public feed to be read.                                *)
NoSourceStarves == passedOver * Batch < Roster

(* Every post is gathered in the end, under a budget smaller than the       *)
(* backlog and over stalls and failures, while nobody replays other        *)
(* windows; only those never are that an odd page hid.                     *)
BacklogGathered == \A t \in Moment : (t < clock) ~> (t \in gathered \cup obscured)
=============================================================================
