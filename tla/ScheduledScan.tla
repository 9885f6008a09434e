---------------------------- MODULE ScheduledScan ----------------------------
(***************************************************************************)
(* Which posts the scheduled scan has read: run_scheduled_scan, the public *)
(* recovery used while authenticated X is degraded, and the fresh start.   *)
(*                                                                         *)
(* Two cursors are kept.  last_auto_run moves only after a pass that       *)
(* proved every source; last_degraded_scan_at is a second one that public  *)
(* recovery moves to keep its windows short.  X may show a post some time  *)
(* after it was published, and public recovery may leave posts out without *)
(* saying so.  Time is counted in ticks; every source publishes one post   *)
(* per tick, so a post is the pair of its source and its time.             *)
(***************************************************************************)
EXTENDS Integers, FiniteSets

CONSTANTS
  Source,           \* the enabled configured sources
  MinInterval,      \* scheduled_min_interval_minutes
  Lag,              \* X shows a post at most this long after publication
  Overlap,          \* 30 minutes: the overlap of authoritative scans
  DegradedOverlap,  \* 2 hours: the overlap of degraded scans, the first window
  Lookback,         \* scheduled_lookback_hours
  MaxTime           \* bound on the clock

ASSUME SourceAssumption == IsFiniteSet(Source) /\ Source # {}
ASSUME TimeAssumption ==
  /\ MinInterval \in Nat \ {0} /\ Lag \in Nat /\ Overlap \in Nat
  /\ DegradedOverlap \in Nat /\ Lookback \in Nat /\ MaxTime \in Nat \ {0}
  /\ Lag <= Overlap /\ Overlap <= DegradedOverlap /\ DegradedOverlap < Lookback

Time == 1 .. MaxTime
Post == Source \X Time
Unset == 0

VARIABLES
  now,         \* the clock
  last,        \* last_auto_run
  degraded,    \* last_degraded_scan_at
  attempted,   \* last_auto_attempt
  floor,       \* fresh_start_since
  queued,      \* posts that were ever queued (pending, or seen since)
  asked,       \* history: posts in the window of a pass their source answered
  lapsed,      \* history: posts nobody queued within the lookback
  waived,      \* history: posts a fresh start or the first window left out
  started      \* history: the time of the fresh start

cursors == <<last, degraded, attempted, floor>>
scanHistory == <<asked, lapsed, waived, started>>
scanVars == <<now, cursors, queued, scanHistory>>
-----------------------------------------------------------------------------
ScanInit ==
  /\ now = 1
  /\ last = Unset /\ degraded = Unset /\ attempted = Unset /\ floor = Unset
  /\ queued = {}
  /\ asked = {} /\ lapsed = {} /\ waived = {}
  /\ started = Unset

(* Mutant: the post at the end of the window belongs to it.                *)
ClosedWindow(from, to) == {p \in Post : from <= p[2] /\ p[2] <= to}

(* Posts of the window [from, to).                                         *)
Window(from, to) == {p \in Post : from <= p[2] /\ p[2] < to}

Later(a, b) == IF a < b THEN b ELSE a

Tick ==
  /\ now < MaxTime
  /\ now' = now + 1
  /\ lapsed' = lapsed \cup (Window(1, now' - Lookback) \ (queued \cup waived))
  /\ UNCHANGED <<cursors, queued, asked, waived, started>>

(* A scan is due once the minimal interval since the last attempt is over.   *)
ScanDue == attempted = Unset \/ now - attempted >= MinInterval

(* Mutant: any scan continues from the degraded checkpoint.                *)
CheckpointForAll(provider) == degraded

(* Only a degraded pass continues from the degraded checkpoint.            *)
Checkpoint(provider) == IF provider = "degraded" THEN degraded ELSE Unset

Cursor == IF last = Unset THEN now - DegradedOverlap ELSE last

(* The start of the window; never below the lookback or the fresh floor.   *)
StartOf(provider) ==
  LET from == Later(Cursor, Checkpoint(provider))
      back == IF Checkpoint(provider) = Unset THEN Overlap ELSE DegradedOverlap
  IN Later(Later(from - back, now - Lookback), floor)

(* queue_updates of what was found, without what is queued or seen.        *)
Queue(found) == queued' = queued \cup found

(* The newest posts may not be visible yet.                                *)
Visible(from, hidden) == {p \in Window(from, now) : p[2] < now - Lag \/ p \notin hidden}

(* Every source was proven: the cursor moves to now, the degraded          *)
(* checkpoint and the fresh floor are dropped.                             *)
ScanComplete(hidden) ==
  /\ ScanDue
  /\ LET from == StartOf("healthy")
     IN /\ Queue(Visible(from, hidden))
        /\ asked' = asked \cup Window(from, now)
        /\ waived' = IF last = Unset THEN waived \cup (Window(1, from) \ queued) ELSE waived
  /\ last' = now /\ attempted' = now /\ floor' = Unset /\ degraded' = Unset
  /\ UNCHANGED <<now, lapsed, started>>

(* Some sources failed; their newest posts may have been found by search.  *)
(* The cursor stays.                                                       *)
ScanPartial(failed, recovered, hidden) ==
  /\ ScanDue /\ failed # {}
  /\ LET from == StartOf("healthy")
     IN /\ Queue({p \in Visible(from, hidden) : p[1] \notin failed \/ p[2] >= recovered})
        /\ asked' = asked \cup {p \in Window(from, now) : p[1] \notin failed}
  /\ attempted' = now
  /\ UNCHANGED <<now, last, degraded, floor, lapsed, waived, started>>

(* The provider is known to be offline, or the collection raised.          *)
ScanFails ==
  /\ ScanDue
  /\ attempted' = now
  /\ UNCHANGED <<now, last, degraded, floor, queued, scanHistory>>

(* _degraded_recovery_pass_complete.                                       *)
PassComplete(failed) == failed = {}

(* Public recovery asks every source for the window and gets some of its   *)
(* newest posts.  Only a pass without a failed source moves the degraded   *)
(* checkpoint; the cursor never moves.  As long as there is no cursor the  *)
(* window slides with the clock.                                           *)
ScanDegraded(failed, newest) ==
  /\ ScanDue
  /\ LET from == StartOf("degraded")
     IN /\ Queue({p \in Window(from, now) : p[1] \notin failed /\ p[2] >= newest})
        /\ asked' = asked \cup {p \in Window(from, now) : p[1] \notin failed}
        /\ waived' = IF last = Unset THEN waived \cup (Window(1, from) \ queued) ELSE waived
  /\ attempted' = now
  /\ IF PassComplete(failed)
     THEN degraded' = now
     ELSE UNCHANGED degraded
  /\ UNCHANGED <<now, last, floor, lapsed, started>>

(* apply_fresh_start, once: what is queued becomes seen, and collection    *)
(* starts over at this instant.                                            *)
FreshStart ==
  /\ started = Unset
  /\ last' = now /\ attempted' = now /\ floor' = now /\ started' = now
  /\ waived' = waived \cup (Window(1, now) \ queued)
  /\ UNCHANGED <<now, degraded, queued, asked, lapsed>>
-----------------------------------------------------------------------------
Newest == Window(now - Lag, now)

ScanNext ==
  \/ Tick
  \/ \E hidden \in {{}, Newest} : ScanComplete(hidden)
  \/ \E failed \in SUBSET Source, t \in Time, hidden \in {{}, Newest} :
        ScanPartial(failed, t, hidden)
  \/ ScanFails
  \/ \E failed \in SUBSET Source, t \in Time : ScanDegraded(failed, t)
  \/ FreshStart

ScanSpec == ScanInit /\ [][ScanNext]_scanVars
-----------------------------------------------------------------------------
(* Type of every variable (state.py); a fresh floor stands only until the  *)
(* cursor moves, and no post is queued before it was published.            *)
ScanTypes ==
  /\ now \in Time
  /\ last \in 0 .. now /\ degraded \in 0 .. now /\ attempted \in 0 .. now
  /\ floor \in 0 .. now /\ started \in 0 .. now
  /\ floor \in {Unset, last}
  /\ queued \subseteq Source \X (1 .. now - 1)
  /\ asked \subseteq Post /\ lapsed \subseteq Post /\ waived \subseteq Post

(* Below the cursor, less the time X may take to show a post, every post   *)
(* was queued, unless nothing queued it for a whole lookback or it was     *)
(* given up: no partial or degraded pass makes the next one skip a post.   *)
CursorMeansQueued == Window(1, last - Lag) \subseteq queued \cup lapsed \cup waived

(* Between the cursor and the degraded checkpoint every source answered a  *)
(* request for every moment: realtime recovery leaves no hole of its own.  *)
CheckpointLeavesNoHole ==
  Window(1, degraded) \subseteq asked \cup queued \cup lapsed \cup waived

(* Neither cursor passes over a post: the authoritative one queued it, the *)
(* degraded one asked its source for it.                                   *)
CursorsSkipNothing == CursorMeansQueued /\ CheckpointLeavesNoHole
=============================================================================
