------------------------- MODULE ScheduledScan_proofs -------------------------
(***************************************************************************)
(* Theorems about ScheduledScan for any set of sources, any clock and any  *)
(* lags, overlaps and lookback that are ordered as the code's are.         *)
(*                                                                         *)
(* A pass reads from a start that is the latest of three: the cursor (or   *)
(* the degraded checkpoint) minus an overlap, the lookback, and the fresh  *)
(* floor.  Hence what lies below the start has three reasons to be         *)
(* accounted for, and the invariant has a part for each: the cursor's own  *)
(* (CursorMeansQueued, CheckpointLeavesNoHole), the lookback's             *)
(* (BeyondLookback) and the floor's (BelowFloor).                          *)
(*                                                                         *)
(* And about the other ways posts come from X: RealtimeIngest, where tasks *)
(* claim what they read, SourceRequests, where an answer says what it      *)
(* could not read, and Evidence, where an engine vouches for what a run    *)
(* read.                                                                   *)
(***************************************************************************)
EXTENDS ScheduledScan, RealtimeIngest, SourceRequests, Evidence, FiniteSetTheorems,
        WellFoundedInduction, TLAPS

Accounted == queued \cup lapsed \cup waived

(* What the lookback has left behind was queued, given up or lapsed.       *)
BeyondLookback == Window(1, now - Lookback) \subseteq Accounted

(* A fresh start gives up what it does not find queued.                    *)
BelowFloor == Window(1, floor) \subseteq Accounted

ScanInv == ScanTypes /\ BeyondLookback /\ BelowFloor /\ CursorMeansQueued /\ CheckpointLeavesNoHole

-----------------------------------------------------------------------------
(* The later of two moments.                                               *)
LEMMA LaterIs ==
  ASSUME NEW a \in Int, NEW b \in Int
  PROVE  /\ Later(a, b) \in Int /\ Later(a, b) \in {a, b}
         /\ Later(a, b) >= a /\ Later(a, b) >= b
BY DEF Later

LEMMA PostTime ==
  ASSUME NEW p \in Post
  PROVE  p[1] \in Source /\ p[2] \in Int /\ 1 <= p[2]
BY TimeAssumption DEF Post, Time

(* The start of a window is the latest of three moments, whoever asks.     *)
LEMMA StartIs ==
  ASSUME ScanTypes, NEW provider \in {"healthy", "degraded"}
  PROVE  /\ StartOf(provider) \in Int
         /\ LET mark == Later(Cursor, Checkpoint(provider))
                back == IF Checkpoint(provider) = Unset THEN Overlap ELSE DegradedOverlap
            IN StartOf(provider) \in {mark - back, now - Lookback, floor}
<1>1. now \in Int /\ last \in Int /\ floor \in Int /\ degraded \in Int
  BY TimeAssumption DEF ScanTypes, Time
<1>2. Cursor \in Int /\ Checkpoint(provider) \in Int
  BY <1>1, TimeAssumption DEF Cursor, Checkpoint, Unset
<1> DEFINE mark == Later(Cursor, Checkpoint(provider))
           back == IF Checkpoint(provider) = Unset THEN Overlap ELSE DegradedOverlap
<1>3. mark \in Int /\ mark - back \in Int /\ now - Lookback \in Int
  BY <1>1, <1>2, LaterIs, TimeAssumption
<1>4. /\ Later(mark - back, now - Lookback) \in Int
      /\ Later(mark - back, now - Lookback) \in {mark - back, now - Lookback}
  BY <1>3, LaterIs
<1>5. StartOf(provider) = Later(Later(mark - back, now - Lookback), floor)
  BY DEF StartOf
<1> QED
  BY <1>1, <1>4, <1>5, LaterIs

(* What lies below the start of a pass is accounted for, or, with a        *)
(* degraded checkpoint, was asked for.                                     *)
LEMMA BelowStart ==
  ASSUME ScanInv, last # Unset, NEW provider \in {"healthy", "degraded"},
         NEW p \in Post, p[2] < StartOf(provider)
  PROVE  /\ p \in asked \cup Accounted
         /\ provider = "healthy" => p \in Accounted
<1>1. /\ now \in Int /\ last \in Int /\ floor \in Int /\ degraded \in Int
      /\ last >= 0 /\ degraded >= 0 /\ p[2] \in Int /\ p[2] >= 1
  BY PostTime, TimeAssumption DEF ScanInv, ScanTypes, Time
<1> DEFINE mark == Later(Cursor, Checkpoint(provider))
           back == IF Checkpoint(provider) = Unset THEN Overlap ELSE DegradedOverlap
<1>2. StartOf(provider) \in {mark - back, now - Lookback, floor}
  BY StartIs DEF ScanInv
<1>3. CASE StartOf(provider) = now - Lookback
  <2>1. p \in Window(1, now - Lookback)
    BY <1>1, <1>3, TimeAssumption DEF Window
  <2> QED
    BY <2>1 DEF ScanInv, BeyondLookback
<1>4. CASE StartOf(provider) = floor
  <2>1. p \in Window(1, floor)
    BY <1>1, <1>4 DEF Window
  <2> QED
    BY <2>1 DEF ScanInv, BelowFloor
<1>5. CASE StartOf(provider) = mark - back
  <2>1. Cursor = last /\ Checkpoint(provider) \in {Unset, degraded}
    BY DEF Cursor, Checkpoint
  <2>2. mark \in {last, degraded} /\ (provider = "healthy" => mark = last)
    <3>1. provider = "healthy" => Checkpoint(provider) = Unset
      BY DEF Checkpoint
    <3> QED
      BY <1>1, <2>1, <3>1 DEF Later, Unset
  <2>3. back \in Nat /\ back >= Lag /\ back >= 0
    BY TimeAssumption
  <2>4. ASSUME mark = last PROVE p \in Accounted
    <3>1. p \in Window(1, last - Lag)
      BY <1>1, <1>5, <2>3, <2>4, TimeAssumption DEF Window
    <3> QED
      BY <3>1 DEF ScanInv, CursorMeansQueued, Accounted
  <2>5. ASSUME mark = degraded PROVE p \in asked \cup Accounted
    <3>1. p \in Window(1, degraded)
      BY <1>1, <1>5, <2>3, <2>5 DEF Window
    <3> QED
      BY <3>1 DEF ScanInv, CheckpointLeavesNoHole, Accounted
  <2> QED
    BY <2>2, <2>4, <2>5
<1> QED
  BY <1>2, <1>3, <1>4, <1>5

-----------------------------------------------------------------------------
(* Types.                                                                  *)
LEMMA ScanTypesInit == ScanInit => ScanTypes
BY TimeAssumption DEF ScanInit, ScanTypes, Time, Post, Unset

(* What a pass finds was published before now.                             *)
LEMMA WindowIsPast ==
  ASSUME ScanTypes, NEW from, from \in Int
  PROVE  Window(from, now) \subseteq Source \X (1 .. now - 1) /\ Window(from, now) \subseteq Post
BY TimeAssumption DEF ScanTypes, Window, Post, Time

LEMMA StartIsInt == ASSUME ScanTypes PROVE StartOf("healthy") \in Int /\ StartOf("degraded") \in Int
BY StartIs

LEMMA ScanTypesStep == ScanTypes /\ [ScanNext]_scanVars => ScanTypes'
<1> SUFFICES ASSUME ScanTypes, [ScanNext]_scanVars PROVE ScanTypes'
  OBVIOUS
<1> USE DEF Unset
<1>1. /\ now \in Int /\ 1 <= now /\ now <= MaxTime /\ MaxTime \in Int
      /\ last \in 0 .. now /\ degraded \in 0 .. now /\ attempted \in 0 .. now
      /\ floor \in 0 .. now /\ started \in 0 .. now
  BY TimeAssumption DEF ScanTypes, Time
<1>2. \A from \in Int : /\ Window(from, now) \subseteq Source \X (1 .. now - 1)
                       /\ Window(from, now) \subseteq Post
  BY WindowIsPast
<1>3. Window(1, now) \subseteq Post /\ \A from \in Int : Window(1, from) \subseteq Post
  BY DEF Window
<1>4. CASE Tick
  <2>1. now' \in Time /\ 0 .. now \subseteq 0 .. now' /\ now' \in Int
        /\ 1 .. now - 1 \subseteq 1 .. now' - 1
    BY <1>1, <1>4 DEF Tick, Time
  <2>2. Window(1, now' - Lookback) \subseteq Post
    BY DEF Window
  <2> QED
    BY <1>4, <2>1, <2>2 DEF Tick, ScanTypes, cursors
<1>5. ASSUME NEW hidden, ScanComplete(hidden) PROVE ScanTypes'
  <2> DEFINE from == StartOf("healthy")
  <2>1. from \in Int /\ Visible(from, hidden) \subseteq Window(from, now)
    BY StartIsInt DEF Visible
  <2>2. /\ queued' = queued \cup Visible(from, hidden) /\ asked' = asked \cup Window(from, now)
        /\ waived' \in {waived, waived \cup (Window(1, from) \ queued)}
    BY <1>5 DEF ScanComplete, Queue
  <2> QED
    BY <1>1, <1>2, <1>3, <1>5, <2>1, <2>2 DEF ScanComplete, ScanTypes
<1>6. ASSUME NEW failed, NEW t, NEW hidden, ScanPartial(failed, t, hidden) PROVE ScanTypes'
  <2> DEFINE from == StartOf("healthy")
  <2>1. from \in Int /\ Visible(from, hidden) \subseteq Window(from, now)
    BY StartIsInt DEF Visible
  <2>2. /\ queued' \subseteq queued \cup Visible(from, hidden)
        /\ asked' \subseteq asked \cup Window(from, now)
    BY <1>6 DEF ScanPartial, Queue
  <2> QED
    BY <1>1, <1>2, <1>6, <2>1, <2>2 DEF ScanPartial, ScanTypes
<1>7. CASE ScanFails
  BY <1>1, <1>7 DEF ScanFails, ScanTypes, scanHistory
<1>8. ASSUME NEW failed, NEW t, ScanDegraded(failed, t) PROVE ScanTypes'
  <2> DEFINE from == StartOf("degraded")
  <2>1. from \in Int
    BY StartIsInt
  <2>2. /\ queued' \subseteq queued \cup Window(from, now)
        /\ asked' \subseteq asked \cup Window(from, now)
        /\ waived' \in {waived, waived \cup (Window(1, from) \ queued)}
        /\ degraded' \in {now, degraded}
    BY <1>8 DEF ScanDegraded, Queue
  <2> QED
    BY <1>1, <1>2, <1>3, <1>8, <2>1, <2>2 DEF ScanDegraded, ScanTypes
<1>9. CASE FreshStart
  BY <1>1, <1>3, <1>9 DEF FreshStart, ScanTypes
<1>10. CASE UNCHANGED scanVars
  BY <1>10 DEF scanVars, cursors, scanHistory, ScanTypes
<1> QED
  BY <1>4, <1>5, <1>6, <1>7, <1>8, <1>9, <1>10 DEF ScanNext

(* The clock, the cursors and the sets of posts have their types in every  *)
(* state of the scan, whatever passes fail or find.                        *)
THEOREM ScanTypesHold == ScanSpec => []ScanTypes
BY ScanTypesInit, ScanTypesStep, PTL DEF ScanSpec

-----------------------------------------------------------------------------
(* The cursors.                                                            *)

LEMMA ScanInvInit == ScanInit => ScanInv
<1> SUFFICES ASSUME ScanInit PROVE ScanInv
  OBVIOUS
<1>1. \A to \in Int : to <= 1 => Window(1, to) = {}
  BY PostTime DEF Window
<1>2. now = 1 /\ last = 0 /\ degraded = 0 /\ floor = 0
  BY DEF ScanInit, Unset
<1>3. 1 - Lookback <= 1 /\ 1 - Lookback \in Int /\ 0 - Lag <= 1 /\ 0 - Lag \in Int
  BY TimeAssumption
<1> QED
  BY <1>1, <1>2, <1>3, ScanTypesInit
     DEF ScanInv, BeyondLookback, BelowFloor, CursorMeansQueued, CheckpointLeavesNoHole

(* No step takes a post out of the four sets.                              *)
LEMMA SetsGrow ==
  ASSUME [ScanNext]_scanVars
  PROVE  Accounted \subseteq Accounted' /\ asked \subseteq asked'
BY DEF ScanNext, Tick, ScanComplete, ScanPartial, ScanFails, ScanDegraded, FreshStart, Queue,
       scanVars, scanHistory, Accounted

(* A complete pass at this moment accounts for all that is visible by now. *)
LEMMA CompleteAccounts ==
  ASSUME ScanInv, NEW hidden \in {{}, Window(now - Lag, now)}, ScanComplete(hidden)
  PROVE  Window(1, now - Lag) \subseteq Accounted'
<1> SUFFICES ASSUME NEW p \in Window(1, now - Lag) PROVE p \in Accounted'
  OBVIOUS
<1> DEFINE from == StartOf("healthy")
<1>1. /\ p \in Post /\ p[2] \in Int /\ 1 <= p[2] /\ p[2] < now - Lag
      /\ now \in Int /\ from \in Int /\ Lag \in Nat
  BY PostTime, StartIsInt, TimeAssumption DEF ScanInv, ScanTypes, Window, Time
<1>2. CASE from <= p[2]
  <2>1. p \in Visible(from, hidden)
    BY <1>1, <1>2 DEF Visible, Window
  <2> QED
    BY <2>1 DEF ScanComplete, Queue, Accounted
<1>3. CASE p[2] < from /\ last = Unset
  <2>1. p \in Window(1, from)
    BY <1>1, <1>3 DEF Window
  <2> QED
    BY <1>3, <2>1 DEF ScanComplete, Queue, Accounted
<1>4. CASE p[2] < from /\ last # Unset
  <2>1. p \in Accounted
    BY <1>1, <1>4, BelowStart
  <2>2. Accounted \subseteq Accounted'
    BY DEF ScanComplete, Queue, Accounted
  <2> QED
    BY <2>1, <2>2
<1> QED
  BY <1>1, <1>2, <1>3, <1>4

(* A degraded pass without a failed source asks for, or accounts for, all  *)
(* there is by now.                                                        *)
LEMMA DegradedAsks ==
  ASSUME ScanInv, NEW t, ScanDegraded({}, t)
  PROVE  Window(1, now) \subseteq asked' \cup Accounted'
<1> SUFFICES ASSUME NEW p \in Window(1, now) PROVE p \in asked' \cup Accounted'
  OBVIOUS
<1> DEFINE from == StartOf("degraded")
<1>1. p \in Post /\ p[2] \in Int /\ 1 <= p[2] /\ p[2] < now /\ now \in Int /\ from \in Int
  BY PostTime, StartIsInt, TimeAssumption DEF ScanInv, ScanTypes, Window, Time
<1>2. CASE from <= p[2]
  <2>1. p \in Window(from, now)
    BY <1>1, <1>2 DEF Window
  <2> QED
    BY <2>1 DEF ScanDegraded
<1>3. CASE p[2] < from /\ last = Unset
  <2>1. p \in Window(1, from)
    BY <1>1, <1>3 DEF Window
  <2> QED
    BY <1>3, <2>1 DEF ScanDegraded, Queue, Accounted
<1>4. CASE p[2] < from /\ last # Unset
  <2>1. p \in asked \cup Accounted
    BY <1>1, <1>4, BelowStart
  <2>2. Accounted \subseteq Accounted' /\ asked \subseteq asked'
    BY DEF ScanDegraded, Queue, Accounted
  <2> QED
    BY <2>1, <2>2
<1> QED
  BY <1>1, <1>2, <1>3, <1>4

LEMMA ScanInvStep == ScanInv /\ [ScanNext]_scanVars => ScanInv'
<1> SUFFICES ASSUME ScanInv, [ScanNext]_scanVars PROVE ScanInv'
  OBVIOUS
<1>1. ScanTypes'
  BY ScanTypesStep DEF ScanInv
<1>2. Accounted \subseteq Accounted' /\ asked \subseteq asked'
  BY SetsGrow
<1>3. BeyondLookback'
  <2>1. CASE Tick
    BY <2>1 DEF Tick, BeyondLookback, Accounted
  <2>2. CASE ~Tick
    <3>1. now' = now
      BY <2>2 DEF ScanNext, ScanComplete, ScanPartial, ScanFails, ScanDegraded, FreshStart, scanVars
    <3> QED
      BY <1>2, <3>1 DEF ScanInv, BeyondLookback, Window
  <2> QED
    BY <2>1, <2>2
<1>4. BelowFloor'
  <2>1. CASE FreshStart
    BY <2>1 DEF FreshStart, BelowFloor, Accounted
  <2>2. CASE floor' = Unset
    BY <2>2, PostTime DEF BelowFloor, Window, Unset
  <2>3. CASE floor' = floor
    BY <1>2, <2>3 DEF ScanInv, BelowFloor, Window
  <2> QED
    BY <2>1, <2>2, <2>3 DEF ScanNext, Tick, ScanComplete, ScanPartial, ScanFails, ScanDegraded,
                            scanVars, cursors
<1>5. CursorMeansQueued'
  <2>1. ASSUME NEW hidden \in {{}, Newest}, ScanComplete(hidden) PROVE CursorMeansQueued'
    BY <2>1, CompleteAccounts DEF ScanComplete, CursorMeansQueued, Accounted, Newest, Window
  <2>2. CASE FreshStart
    <3>1. Window(1, now) \subseteq Accounted' /\ last' = now
      BY <2>2 DEF FreshStart, Accounted
    <3>2. Window(1, now - Lag) \subseteq Window(1, now)
      BY PostTime, TimeAssumption DEF Window, ScanInv, ScanTypes, Time
    <3> QED
      BY <3>1, <3>2 DEF CursorMeansQueued, Accounted, Window
  <2>3. CASE last' = last
    BY <1>2, <2>3 DEF ScanInv, CursorMeansQueued, Accounted, Window
  <2> QED
    BY <2>1, <2>2, <2>3 DEF ScanNext, Tick, ScanPartial, ScanFails, ScanDegraded, scanVars, cursors
<1>6. CheckpointLeavesNoHole'
  <2>1. CASE degraded' = degraded
    BY <1>2, <2>1 DEF ScanInv, CheckpointLeavesNoHole, Accounted, Window
  <2>2. CASE degraded' = Unset
    BY <2>2, PostTime DEF CheckpointLeavesNoHole, Window, Unset
  <2>3. ASSUME NEW failed, NEW t, ScanDegraded(failed, t), degraded' # degraded
        PROVE  CheckpointLeavesNoHole'
    <3>1. failed = {} /\ degraded' = now
      BY <2>3 DEF ScanDegraded, PassComplete
    <3>2. Window(1, now) \subseteq asked' \cup Accounted'
      BY <2>3, <3>1, DegradedAsks
    <3> QED
      BY <3>1, <3>2 DEF CheckpointLeavesNoHole, Accounted, Window
  <2> QED
    BY <2>1, <2>2, <2>3 DEF ScanNext, Tick, ScanComplete, ScanPartial, ScanFails, FreshStart,
                            scanVars, cursors
<1> QED
  BY <1>1, <1>3, <1>4, <1>5, <1>6 DEF ScanInv

(* Neither cursor passes over a post: everything older than the cursor, by *)
(* more than X's lag, was queued, given up or lapsed, and everything older *)
(* than the degraded checkpoint was at least asked for, however complete,  *)
(* partial, failed and degraded passes and the fresh start follow on each  *)
(* other.                                                                  *)
THEOREM NothingSkipped == ScanSpec => []CursorsSkipNothing
<1>1. ScanInv => CursorsSkipNothing
  BY DEF ScanInv, CursorsSkipNothing
<1> QED
  BY <1>1, ScanInvInit, ScanInvStep, PTL DEF ScanSpec

-----------------------------------------------------------------------------

(***************************************************************************)
(* Realtime sightings (RealtimeIngest).                                    *)
(***************************************************************************)

EveryCandidate == UNION {CandidatesFor(p) : p \in Sighted}
Tally == [observed : Nat, accepted : Nat, duplicate : Nat, rejected : Nat,
          hydrated : Nat, deferred : Nat]
Doing == {"listening", "hydrating", "stopped"}

WatchShape ==
  /\ shadow_mode \in BOOLEAN
  /\ known \subseteq Sighted /\ _claimed \subseteq Sighted
  /\ reserved \subseteq Sighted /\ cancelled \subseteq Sighted
  /\ watch \in [Detector -> Doing] /\ candidate \in [Detector -> EveryCandidate \cup {NoCandidate}]
  /\ summary \in [Detector -> Tally] /\ hydrations \in [Sighted -> {0, 1}]

(* What a task reads is claimed, has not been read, and is read by no other *)
(* task; what has been read stays claimed.                                 *)
Reads(d) ==
  /\ candidate[d] \in EveryCandidate /\ candidate[d].post \in _claimed
  /\ hydrations[candidate[d].post] = 0
  /\ \A e \in Hydrating : candidate[e].post = candidate[d].post => e = d

ClaimsHold ==
  /\ \A d \in Hydrating : Reads(d)
  /\ \A p \in Sighted : hydrations[p] = 1 => p \in _claimed
  /\ \A p \in _claimed : \/ p \in reserved \cup cancelled \/ hydrations[p] = 1
                         \/ \E d \in Hydrating : candidate[d].post = p

(* What SummariesAddUp says of one detector.                               *)
AddsUp(s, w) ==
  /\ s.observed = s.accepted + s.duplicate + s.rejected
  /\ w = "listening" => s.accepted - s.hydrated - s.deferred = 0
  /\ w = "hydrating" => s.accepted - s.hydrated - s.deferred = 1
  /\ w = "stopped" => s.accepted - s.hydrated - s.deferred \in {-1, 1}

WatchInv == WatchShape /\ ClaimsHold /\ OnlyConfigured /\ SummariesAddUp

(* A tally with one candidate more of a kind.                              *)
LEMMA Accepted ==
  ASSUME NEW s \in Tally
  PROVE  LET t == [s EXCEPT !.observed = @ + 1, !.accepted = @ + 1] IN
         t \in Tally /\ (AddsUp(s, "listening") => AddsUp(t, "hydrating"))
<1> DEFINE o == s.observed + 1
           a == s.accepted + 1
           t == [s EXCEPT !.observed = o, !.accepted = a]
<1>1. o \in Nat /\ a \in Nat
  BY DEF Tally
<1>2. t \in Tally
  <2> HIDE DEF o, a
  <2>1. QED
    BY <1>1 DEF Tally
<1>3. /\ t.observed = o /\ t.accepted = a /\ t.duplicate = s.duplicate /\ t.rejected = s.rejected
      /\ t.hydrated = s.hydrated /\ t.deferred = s.deferred
  <2> HIDE DEF o, a
  <2>1. QED
    BY <1>1 DEF Tally
<1> HIDE DEF t
<1>4. AddsUp(s, "listening") => AddsUp(t, "hydrating")
  BY <1>3 DEF Tally, AddsUp
<1>5. QED
  BY <1>2, <1>4 DEF t

(* One turned down, with its reason.                                       *)
LEMMA TurnedDown ==
  ASSUME NEW s \in Tally, NEW k \in {"rejected", "duplicate"}
  PROVE  LET t == [s EXCEPT !.observed = @ + 1, ![k] = @ + 1] IN
         t \in Tally /\ (AddsUp(s, "listening") => AddsUp(t, "listening"))
<1> DEFINE o == s.observed + 1
           a == s[k] + 1
           t == [s EXCEPT !.observed = o, ![k] = a]
<1>1. o \in Nat /\ a \in Nat
  BY DEF Tally
<1>2. t \in Tally
  <2> HIDE DEF o, a
  <2>1. QED
    BY <1>1 DEF Tally
<1>3. /\ t.observed = o /\ t.accepted = s.accepted /\ t[k] = a
      /\ (k = "rejected" => t.duplicate = s.duplicate) /\ (k = "duplicate" => t.rejected = s.rejected)
      /\ t.hydrated = s.hydrated /\ t.deferred = s.deferred
  <2> HIDE DEF o, a
  <2>1. QED
    BY <1>1 DEF Tally
<1> HIDE DEF t
<1>4. AddsUp(s, "listening") => AddsUp(t, "listening")
  BY <1>3 DEF Tally, AddsUp
<1>5. QED
  BY <1>2, <1>4 DEF t

(* One settled: read, or put off.                                          *)
LEMMA Settled ==
  ASSUME NEW s \in Tally
  PROVE  /\ [s EXCEPT !["hydrated"] = @ + 1] \in Tally
         /\ [s EXCEPT !["deferred"] = @ + 1] \in Tally
         /\ AddsUp(s, "hydrating") => /\ AddsUp([s EXCEPT !["hydrated"] = @ + 1], "listening")
                                      /\ AddsUp([s EXCEPT !["deferred"] = @ + 1], "listening")
                                      /\ AddsUp(s, "stopped")
         /\ AddsUp(s, "listening") => AddsUp([s EXCEPT !["deferred"] = @ + 1], "stopped")
BY DEF Tally, AddsUp

(* One detector goes on and its tally with it.                             *)
LEMMA TalliesMove ==
  ASSUME WatchShape, SummariesAddUp, NEW d \in Detector, NEW t \in Tally, NEW w \in Doing,
         summary' = [summary EXCEPT ![d] = t], watch' = [watch EXCEPT ![d] = w], AddsUp(t, w)
  PROVE  summary' \in [Detector -> Tally] /\ watch' \in [Detector -> Doing] /\ SummariesAddUp'
<1>1. /\ summary' \in [Detector -> Tally] /\ watch' \in [Detector -> Doing]
      /\ summary'[d] = t /\ watch'[d] = w
      /\ \A e \in Detector : e # d => summary'[e] = summary[e] /\ watch'[e] = watch[e]
  BY DEF WatchShape
<1>2. \A e \in Detector : AddsUp(summary[e], watch[e])
  BY DEF SummariesAddUp, AddsUp
<1>3. \A e \in Detector : AddsUp(summary'[e], watch'[e])
  BY <1>1, <1>2
<1>4. SummariesAddUp'
  BY <1>3 DEF SummariesAddUp, AddsUp
<1>5. QED
  BY <1>1, <1>4

(* The first state satisfies the invariant.                                *)
LEMMA InitWatch == WatchInit => WatchInv
<1> SUFFICES ASSUME WatchInit PROVE WatchInv
  OBVIOUS
<1>1. NoSummary \in Tally /\ AddsUp(NoSummary, "listening")
  BY DEF NoSummary, Tally, AddsUp
<1>2. WatchShape
  BY <1>1 DEF WatchInit, WatchShape, Doing
<1>3. SummariesAddUp
  BY <1>1 DEF WatchInit, SummariesAddUp, AddsUp
<1>4. ClaimsHold /\ OnlyConfigured
  BY DEF WatchInit, ClaimsHold, Hydrating, OnlyConfigured
<1>5. QED
  BY <1>2, <1>3, <1>4 DEF WatchInv

(* Every step keeps it.                                                    *)
LEMMA NextWatch == WatchInv /\ [WatchNext]_watchVars => WatchInv'
<1> SUFFICES ASSUME WatchInv, [WatchNext]_watchVars PROVE WatchInv'
  OBVIOUS
<1>inv. WatchShape /\ ClaimsHold /\ OnlyConfigured /\ SummariesAddUp
  BY DEF WatchInv
<1>up. \A d \in Detector : summary[d] \in Tally /\ AddsUp(summary[d], watch[d])
  BY <1>inv DEF WatchShape, SummariesAddUp, AddsUp
<1>heard. \A c \in EveryCandidate : c.post \in Sighted
  BY DEF EveryCandidate, CandidatesFor
<1>1. ASSUME NEW p \in Sighted, SeesFirst(p) \/ mark_external_observation(p) PROVE WatchInv'
  <2>1. /\ UNCHANGED <<shadow_mode, watch, candidate, summary, hydrations, cancelled>>
        /\ known \subseteq known' /\ known' \subseteq known \cup {p}
        /\ _claimed \subseteq _claimed' /\ reserved \subseteq reserved'
        /\ _claimed' \subseteq _claimed \cup {p} /\ reserved' \subseteq reserved \cup {p}
        /\ p \in _claimed' \ _claimed => p \in reserved'
    BY <1>1 DEF SeesFirst, mark_external_observation, durable
  <2>2. WatchShape'
    BY <2>1, <1>inv DEF WatchShape
  <2>3. ClaimsHold'
    <3>1. Hydrating' = Hydrating
      BY <2>1 DEF Hydrating
    <3>2. \A d \in Hydrating : Reads(d)'
      BY <2>1, <3>1, <1>inv DEF ClaimsHold, Reads
    <3>3. \A q \in Sighted : hydrations'[q] = 1 => q \in _claimed'
      BY <2>1, <1>inv DEF ClaimsHold
    <3>4. \A q \in _claimed' : \/ q \in reserved' \cup cancelled' \/ hydrations'[q] = 1
                               \/ \E d \in Hydrating' : candidate'[d].post = q
      BY <2>1, <3>1, <1>inv DEF ClaimsHold
    <3>5. QED
      BY <3>1, <3>2, <3>3, <3>4 DEF ClaimsHold
  <2>4. OnlyConfigured' /\ SummariesAddUp'
    BY <2>1, <1>inv DEF OnlyConfigured, SummariesAddUp
  <2>5. QED
    BY <2>2, <2>3, <2>4 DEF WatchInv
<1>2. ASSUME NEW d \in Detector, NEW p \in Sighted, NEW c \in CandidatesFor(p), Sights(d, c)
      PROVE  WatchInv'
  <2>1. c \in EveryCandidate /\ c.post = p /\ watch[d] = "listening" /\ AddsUp(summary[d], "listening")
    BY <1>2, <1>up DEF EveryCandidate, CandidatesFor, Sights
  <2>2. UNCHANGED <<shadow_mode, known, reserved, hydrations, cancelled>>
    BY <1>2 DEF Sights, durable
  <2>3. OnlyConfigured'
    BY <2>2, <1>inv DEF OnlyConfigured
  <2>4. \/ /\ Claimable(p) /\ _claimed' = _claimed \cup {p}
           /\ watch' = [watch EXCEPT ![d] = "hydrating"]
           /\ candidate' = [candidate EXCEPT ![d] = c]
           /\ summary' = [summary EXCEPT ![d].observed = @ + 1, ![d].accepted = @ + 1]
        \/ /\ UNCHANGED <<_claimed, watch, candidate>>
           /\ \E kind \in {"rejected", "duplicate"} :
                summary' = [summary EXCEPT ![d].observed = @ + 1, ![d][kind] = @ + 1]
    BY <1>2, <2>1 DEF Sights
  <2>5. CASE /\ Claimable(p) /\ _claimed' = _claimed \cup {p}
             /\ watch' = [watch EXCEPT ![d] = "hydrating"]
             /\ candidate' = [candidate EXCEPT ![d] = c]
             /\ summary' = [summary EXCEPT ![d].observed = @ + 1, ![d].accepted = @ + 1]
    <3> DEFINE t == [summary[d] EXCEPT !.observed = @ + 1, !.accepted = @ + 1]
    <3>1. t \in Tally /\ AddsUp(t, "hydrating")
      BY <2>1, <1>up, Accepted
    <3>2. summary' = [summary EXCEPT ![d] = t]
      BY <2>5, <1>inv, <1>up DEF WatchShape, Tally
    <3> HIDE DEF t
    <3>3. summary' \in [Detector -> Tally] /\ watch' \in [Detector -> Doing] /\ SummariesAddUp'
      BY <2>5, <3>1, <3>2, <1>inv, TalliesMove DEF Doing
    <3>4. candidate' \in [Detector -> EveryCandidate \cup {NoCandidate}]
      BY <2>1, <2>5, <1>inv DEF WatchShape
    <3>5. WatchShape'
      BY <2>2, <2>5, <3>3, <3>4, <1>inv DEF WatchShape
    <3>6. Hydrating' = Hydrating \cup {d} /\ d \notin Hydrating
      BY <2>1, <2>5, <1>inv DEF Hydrating, WatchShape
    <3>7. candidate'[d] = c /\ \A e \in Hydrating : candidate'[e] = candidate[e]
      BY <2>5, <3>6, <1>inv DEF WatchShape, Hydrating
    <3>8. p \notin _claimed /\ hydrations[p] = 0
      BY <2>5, <1>inv DEF Claimable, ClaimsHold, WatchShape
    <3>9. \A e \in Hydrating : candidate[e].post # p
      BY <3>8, <1>inv DEF ClaimsHold, Reads
    <3>10. \A e \in Hydrating' : Reads(e)'
      BY <2>1, <2>2, <2>5, <3>6, <3>7, <3>8, <3>9, <1>inv DEF ClaimsHold, Reads
    <3>11. \A q \in Sighted : hydrations'[q] = 1 => q \in _claimed'
      BY <2>2, <2>5, <1>inv DEF ClaimsHold
    <3>12. \A q \in _claimed' : \/ q \in reserved' \cup cancelled' \/ hydrations'[q] = 1
                                \/ \E e \in Hydrating' : candidate'[e].post = q
      BY <2>1, <2>2, <2>5, <3>6, <3>7, <1>inv DEF ClaimsHold
    <3>13. ClaimsHold'
      BY <3>10, <3>11, <3>12 DEF ClaimsHold
    <3>14. QED
      BY <2>3, <3>3, <3>5, <3>13 DEF WatchInv
  <2>6. CASE /\ UNCHANGED <<_claimed, watch, candidate>>
             /\ \E kind \in {"rejected", "duplicate"} :
                  summary' = [summary EXCEPT ![d].observed = @ + 1, ![d][kind] = @ + 1]
    <3>1. PICK kind \in {"rejected", "duplicate"} :
            summary' = [summary EXCEPT ![d].observed = @ + 1, ![d][kind] = @ + 1]
      BY <2>6
    <3> DEFINE t == [summary[d] EXCEPT !.observed = @ + 1, ![kind] = @ + 1]
    <3>2. t \in Tally /\ AddsUp(t, "listening")
      BY <2>1, <1>up, TurnedDown
    <3>3. summary' = [summary EXCEPT ![d] = t]
      BY <3>1, <1>inv, <1>up DEF WatchShape, Tally
    <3> HIDE DEF t
    <3>4. watch' = [watch EXCEPT ![d] = "listening"]
      BY <2>1, <2>6, <1>inv DEF WatchShape
    <3>5. summary' \in [Detector -> Tally] /\ SummariesAddUp'
      BY <3>2, <3>3, <3>4, <1>inv, TalliesMove DEF Doing
    <3>6. WatchShape' /\ ClaimsHold'
      BY <2>2, <2>6, <3>5, <1>inv DEF WatchShape, ClaimsHold, Reads, Hydrating
    <3>7. QED
      BY <2>3, <3>5, <3>6 DEF WatchInv
  <2>7. QED
    BY <2>4, <2>5, <2>6
<1>leave. ASSUME NEW d \in Hydrating, NEW w \in Doing, w # "hydrating",
                 candidate' = [candidate EXCEPT ![d] = NoCandidate], watch' = [watch EXCEPT ![d] = w]
          PROVE  /\ Hydrating' = Hydrating \ {d} /\ candidate' \in [Detector -> EveryCandidate \cup {NoCandidate}]
                 /\ \A e \in Hydrating' : candidate'[e] = candidate[e] /\ e # d
                 /\ \A e \in Hydrating' : Reads(e) /\ candidate[e].post # candidate[d].post
                 /\ d \in Detector /\ Reads(d)
  <2>1. d \in Detector /\ Hydrating' = Hydrating \ {d} /\ Hydrating \subseteq Detector
    BY <1>leave, <1>inv DEF Hydrating, WatchShape
  <2>2. candidate' \in [Detector -> EveryCandidate \cup {NoCandidate}]
        /\ \A e \in Detector : e # d => candidate'[e] = candidate[e]
    BY <1>leave, <2>1, <1>inv DEF WatchShape
  <2>3. \A e \in Hydrating : Reads(e)
    BY <1>inv DEF ClaimsHold
  <2>4. Reads(d)
    BY <1>leave, <2>3
  <2>5. \A e \in Hydrating' : candidate[e].post # candidate[d].post
    BY <2>1, <2>4 DEF Reads
  <2>6. QED
    BY <2>1, <2>2, <2>3, <2>4, <2>5
<1>3. ASSUME NEW d \in Detector, NEW p \in Sighted, hydrate(d, p) PROVE WatchInv'
  <2>1. /\ d \in Hydrating /\ p = candidate[d].post /\ validate_authoritative_update(candidate[d], p)
        /\ candidate' = [candidate EXCEPT ![d] = NoCandidate]
        /\ watch' = [watch EXCEPT ![d] = "listening"] /\ Counts(d, "hydrated")
        /\ hydrations' = [hydrations EXCEPT ![p] = @ + 1]
        /\ UNCHANGED <<shadow_mode, known, _claimed, reserved, cancelled>>
    BY <1>3 DEF hydrate, durable, validate_authoritative_update, Hydrating
  <2>2. /\ Hydrating' = Hydrating \ {d} /\ candidate' \in [Detector -> EveryCandidate \cup {NoCandidate}]
        /\ \A e \in Hydrating' : candidate'[e] = candidate[e] /\ e # d
        /\ \A e \in Hydrating' : Reads(e) /\ candidate[e].post # p
        /\ Reads(d)
    BY <2>1, <1>leave DEF Doing
  <2>3. hydrations[p] = 0 /\ p \in _claimed
    BY <2>1, <2>2 DEF Reads
  <2>4. hydrations' \in [Sighted -> {0, 1}] /\ hydrations'[p] = 1
        /\ \A q \in Sighted : q # p => hydrations'[q] = hydrations[q]
    BY <2>1, <2>3, <1>inv DEF WatchShape
  <2> DEFINE t == [summary[d] EXCEPT !["hydrated"] = @ + 1]
  <2>5. summary' = [summary EXCEPT ![d] = t]
    BY <2>1, <1>inv, <1>up DEF Counts, WatchShape, Tally
  <2>6. watch[d] = "hydrating"
    BY <2>1 DEF Hydrating
  <2>7. t \in Tally /\ AddsUp(t, "listening")
    BY <2>6, <1>up, Settled
  <2> HIDE DEF t
  <2>8. summary' \in [Detector -> Tally] /\ watch' \in [Detector -> Doing] /\ SummariesAddUp'
    BY <2>1, <2>5, <2>7, <1>inv, TalliesMove DEF Doing
  <2>9. WatchShape'
    BY <2>1, <2>2, <2>4, <2>8, <1>inv DEF WatchShape
  <2>10. \A e \in Hydrating' : Reads(e)'
    <3> SUFFICES ASSUME NEW e \in Hydrating' PROVE Reads(e)'
      OBVIOUS
    <3>1. candidate'[e] = candidate[e] /\ Reads(e) /\ candidate[e].post # p
      BY <2>2
    <3>2. candidate[e].post \in Sighted
      BY <3>1, <1>heard DEF Reads
    <3>3. hydrations'[candidate'[e].post] = 0
      BY <2>4, <3>1, <3>2 DEF Reads
    <3>4. \A f \in Hydrating' : candidate'[f].post = candidate'[e].post => f = e
      BY <2>2, <3>1 DEF Reads
    <3>5. QED
      BY <2>1, <3>1, <3>3, <3>4 DEF Reads
  <2>11. \A q \in Sighted : hydrations'[q] = 1 => q \in _claimed'
    BY <2>1, <2>3, <2>4, <1>inv DEF ClaimsHold
  <2>12. \A q \in _claimed' : \/ q \in reserved' \cup cancelled' \/ hydrations'[q] = 1
                              \/ \E e \in Hydrating' : candidate'[e].post = q
    <3> SUFFICES ASSUME NEW q \in _claimed', q # p
                 PROVE  \/ q \in reserved' \cup cancelled' \/ hydrations'[q] = 1
                        \/ \E e \in Hydrating' : candidate'[e].post = q
      BY <2>4
    <3>1. q \in Sighted /\ hydrations'[q] = hydrations[q]
      BY <2>1, <2>4, <1>inv DEF WatchShape
    <3>2. \/ q \in reserved \cup cancelled \/ hydrations[q] = 1
          \/ \E e \in Hydrating : candidate[e].post = q
      BY <2>1, <1>inv DEF ClaimsHold
    <3>3. QED
      BY <2>1, <2>2, <3>1, <3>2
  <2>13. ClaimsHold'
    BY <2>10, <2>11, <2>12 DEF ClaimsHold
  <2>14. OnlyConfigured'
    <3>1. WriterOf[p] \in configured_handles /\ (p \in ReplyPosts => Policies[WriterOf[p]])
      BY <2>1 DEF validate_authoritative_update
    <3>2. QED
      BY <2>4, <3>1, <1>inv DEF OnlyConfigured
  <2>15. QED
    BY <2>8, <2>9, <2>13, <2>14 DEF WatchInv
<1>4. ASSUME NEW d \in Detector, HydrationFails(d) PROVE WatchInv'
  <2>1. /\ d \in Hydrating /\ release(candidate[d].post) /\ reserved' = reserved \ {candidate[d].post}
        /\ candidate' = [candidate EXCEPT ![d] = NoCandidate]
        /\ watch' = [watch EXCEPT ![d] = "listening"] /\ Counts(d, "deferred")
        /\ UNCHANGED <<shadow_mode, known, hydrations, cancelled>>
    BY <1>4 DEF HydrationFails, durable, Hydrating
  <2>2. /\ Hydrating' = Hydrating \ {d} /\ candidate' \in [Detector -> EveryCandidate \cup {NoCandidate}]
        /\ \A e \in Hydrating' : candidate'[e] = candidate[e] /\ e # d
        /\ \A e \in Hydrating' : Reads(e) /\ candidate[e].post # candidate[d].post
        /\ Reads(d)
    BY <2>1, <1>leave DEF Doing
  <2> DEFINE t == [summary[d] EXCEPT !["deferred"] = @ + 1]
  <2>3. summary' = [summary EXCEPT ![d] = t]
    BY <2>1, <1>inv, <1>up DEF Counts, WatchShape, Tally
  <2>4. watch[d] = "hydrating"
    BY <2>1 DEF Hydrating
  <2>5. t \in Tally /\ AddsUp(t, "listening")
    BY <2>4, <1>up, Settled
  <2> HIDE DEF t
  <2>6. summary' \in [Detector -> Tally] /\ watch' \in [Detector -> Doing] /\ SummariesAddUp'
    BY <2>1, <2>3, <2>5, <1>inv, TalliesMove DEF Doing
  <2> DEFINE p == candidate[d].post
  <2>7. _claimed' = _claimed \ {p} /\ hydrations[p] = 0 /\ reserved' = reserved \ {p}
    BY <2>1, <2>2 DEF release, Reads
  <2> HIDE DEF p
  <2>8. WatchShape'
    BY <2>1, <2>2, <2>6, <2>7, <1>inv DEF WatchShape
  <2>9. \A e \in Hydrating' : Reads(e)'
    <3> SUFFICES ASSUME NEW e \in Hydrating' PROVE Reads(e)'
      OBVIOUS
    <3>1. candidate'[e] = candidate[e] /\ Reads(e) /\ candidate[e].post # p
      BY <2>2 DEF p
    <3>2. \A f \in Hydrating' : candidate'[f].post = candidate'[e].post => f = e
      BY <2>2, <3>1 DEF Reads
    <3>3. QED
      BY <2>1, <2>7, <3>1, <3>2 DEF Reads
  <2>10. \A q \in Sighted : hydrations'[q] = 1 => q \in _claimed'
    BY <2>1, <2>7, <1>inv DEF ClaimsHold
  <2>11. \A q \in _claimed' : \/ q \in reserved' \cup cancelled' \/ hydrations'[q] = 1
                              \/ \E e \in Hydrating' : candidate'[e].post = q
    <3> SUFFICES ASSUME NEW q \in _claimed'
                 PROVE  \/ q \in reserved' \cup cancelled' \/ hydrations'[q] = 1
                        \/ \E e \in Hydrating' : candidate'[e].post = q
      OBVIOUS
    <3>1. q \in _claimed /\ q # p
      BY <2>7
    <3>2. \/ q \in reserved \cup cancelled \/ hydrations[q] = 1
          \/ \E e \in Hydrating : candidate[e].post = q
      BY <3>1, <1>inv DEF ClaimsHold
    <3>3. \A e \in Hydrating : candidate[e].post = q => e \in Hydrating'
      BY <2>2, <3>1 DEF p
    <3>4. QED
      BY <2>1, <2>2, <2>7, <3>1, <3>2, <3>3
  <2>12. ClaimsHold' /\ OnlyConfigured'
    BY <2>1, <2>9, <2>10, <2>11, <1>inv DEF ClaimsHold, OnlyConfigured
  <2>13. QED
    BY <2>6, <2>8, <2>12 DEF WatchInv
<1>5. ASSUME NEW d \in Detector, HydrationCancelled(d) PROVE WatchInv'
  <2> DEFINE p == candidate[d].post
  <2>1. /\ d \in Hydrating /\ candidate' = [candidate EXCEPT ![d] = NoCandidate]
        /\ watch' = [watch EXCEPT ![d] = "stopped"] /\ cancelled' = cancelled \cup {p}
        /\ UNCHANGED <<shadow_mode, known, _claimed, reserved, summary, hydrations>>
    BY <1>5 DEF HydrationCancelled, durable, Hydrating
  <2>2. /\ Hydrating' = Hydrating \ {d} /\ candidate' \in [Detector -> EveryCandidate \cup {NoCandidate}]
        /\ \A e \in Hydrating' : candidate'[e] = candidate[e] /\ e # d
        /\ \A e \in Hydrating' : Reads(e) /\ candidate[e].post # p
        /\ Reads(d)
    BY <2>1, <1>leave DEF Doing
  <2>3. watch[d] = "hydrating" /\ summary' = [summary EXCEPT ![d] = summary[d]]
    BY <2>1, <1>inv DEF Hydrating, WatchShape
  <2>4. summary' \in [Detector -> Tally] /\ watch' \in [Detector -> Doing] /\ SummariesAddUp'
    <3>1. summary[d] \in Tally /\ AddsUp(summary[d], "stopped")
      BY <2>3, <1>up, Settled
    <3>2. QED
      BY <2>1, <2>3, <3>1, <1>inv, TalliesMove DEF Doing
  <2>5. p \in Sighted
    BY <2>2, <1>heard DEF Reads
  <2> HIDE DEF p
  <2>6. WatchShape'
    BY <2>1, <2>2, <2>4, <2>5, <1>inv DEF WatchShape
  <2>7. \A e \in Hydrating' : Reads(e)'
    BY <2>1, <2>2 DEF Reads
  <2>8. \A q \in _claimed' : \/ q \in reserved' \cup cancelled' \/ hydrations'[q] = 1
                             \/ \E e \in Hydrating' : candidate'[e].post = q
    <3> SUFFICES ASSUME NEW q \in _claimed', q # p
                 PROVE  \/ q \in reserved' \cup cancelled' \/ hydrations'[q] = 1
                        \/ \E e \in Hydrating' : candidate'[e].post = q
      BY <2>1
    <3>1. \/ q \in reserved \cup cancelled \/ hydrations[q] = 1
          \/ \E e \in Hydrating : candidate[e].post = q
      BY <2>1, <1>inv DEF ClaimsHold
    <3>2. \A e \in Hydrating : candidate[e].post = q => e \in Hydrating'
      BY <2>2 DEF p
    <3>3. QED
      BY <2>1, <2>2, <3>1, <3>2
  <2>9. ClaimsHold' /\ OnlyConfigured'
    BY <2>1, <2>7, <2>8, <1>inv DEF ClaimsHold, OnlyConfigured
  <2>10. QED
    BY <2>4, <2>6, <2>9 DEF WatchInv
<1>6. ASSUME NEW d \in Detector, DetectorFails(d) PROVE WatchInv'
  <2>1. /\ watch[d] = "listening" /\ watch' = [watch EXCEPT ![d] = "stopped"]
        /\ Counts(d, "deferred")
        /\ UNCHANGED <<shadow_mode, known, _claimed, reserved, candidate, hydrations, cancelled>>
    BY <1>6 DEF DetectorFails, durable
  <2> DEFINE t == [summary[d] EXCEPT !["deferred"] = @ + 1]
  <2>2. summary' = [summary EXCEPT ![d] = t]
    BY <2>1, <1>inv, <1>up DEF Counts, WatchShape, Tally
  <2>3. t \in Tally /\ AddsUp(t, "stopped")
    BY <2>1, <1>up, Settled
  <2> HIDE DEF t
  <2>4. summary' \in [Detector -> Tally] /\ watch' \in [Detector -> Doing] /\ SummariesAddUp'
    BY <2>1, <2>2, <2>3, <1>inv, TalliesMove DEF Doing
  <2>5. Hydrating' = Hydrating
    BY <2>1, <1>inv DEF Hydrating, WatchShape
  <2>6. WatchShape'
    BY <2>1, <2>4, <1>inv DEF WatchShape
  <2>7. ClaimsHold' /\ OnlyConfigured'
    BY <2>1, <2>5, <1>inv DEF ClaimsHold, Reads, OnlyConfigured
  <2>8. QED
    BY <2>4, <2>6, <2>7 DEF WatchInv
<1>7. CASE NewGate
  <2>1. NoSummary \in Tally /\ AddsUp(NoSummary, "listening")
    BY DEF NoSummary, Tally, AddsUp
  <2>2. WatchShape'
    BY <1>7, <2>1, <1>inv DEF NewGate, durable, WatchShape, Doing
  <2>3. SummariesAddUp'
    BY <1>7, <2>1 DEF NewGate, SummariesAddUp, AddsUp
  <2>4. ClaimsHold' /\ OnlyConfigured'
    BY <1>7 DEF NewGate, ClaimsHold, Hydrating, OnlyConfigured
  <2>5. QED
    BY <2>2, <2>3, <2>4 DEF WatchInv
<1>8. CASE UNCHANGED watchVars
  BY <1>8, <1>inv DEF watchVars, WatchInv, WatchShape, ClaimsHold, Reads, Hydrating,
                      OnlyConfigured, SummariesAddUp
<1>9. QED
  BY <1>1, <1>2, <1>3, <1>4, <1>5, <1>6, <1>7, <1>8 DEF WatchNext

(* Hence it holds throughout.                                              *)
LEMMA WatchInvHolds == WatchSpec => []WatchInv
BY InitWatch, NextWatch, PTL DEF WatchSpec

(* Every variable of the detectors and of the gate has its type.           *)
THEOREM WatchTypesHold == WatchSpec => []WatchTypes
<1>1. WatchInv => WatchTypes
  BY DEF WatchInv, WatchShape, WatchTypes, Doing, Tally, NoSummary
<1>2. QED
  BY <1>1, WatchInvHolds, PTL

(* However many tasks hear of a post, and whatever is cancelled, released  *)
(* or reserved meanwhile, it is read once in a process and only if a       *)
(* configured source wrote it, no claim is left without a reason, and the  *)
(* summaries account for every candidate.                                  *)
THEOREM SightingsStaySound == WatchSpec => []SightingsAreSound
<1>1. ASSUME WatchInv, NEW p \in Sighted
      PROVE  hydrations[p] + Cardinality({d \in Hydrating : candidate[d].post = p}) <= 1
  <2> DEFINE S == {d \in Hydrating : candidate[d].post = p}
  <2>1. \A d, e \in S : d = e
    BY <1>1 DEF WatchInv, ClaimsHold, Reads
  <2>2. S # {} => hydrations[p] = 0
    BY <1>1 DEF WatchInv, ClaimsHold, Reads
  <2>3. hydrations[p] \in {0, 1}
    BY <1>1 DEF WatchInv, WatchShape
  <2> HIDE DEF S
  <2>4. S = {} \/ \E d : S = {d}
    BY <2>1
  <2>5. (S = {} /\ Cardinality(S) = 0) \/ (S # {} /\ Cardinality(S) = 1)
    BY <2>4, FS_EmptySet, FS_Singleton, Zenon
  <2>6. hydrations[p] + Cardinality(S) <= 1
    BY <2>2, <2>3, <2>5
  <2>7. QED
    BY <2>6 DEF S
<1>2. WatchInv => SightingsAreSound
  BY <1>1 DEF WatchInv, ClaimsHold, SightingsAreSound, SightedOnce
<1>3. QED
  BY <1>2, WatchInvHolds, PTL

-----------------------------------------------------------------------------

(***************************************************************************)
(* Requests for sources (SourceRequests).                                  *)
(***************************************************************************)

AskWith(K, O, L, G, F, T) ==
  [kind : K, of : O, left : L, got : G, failed : F, told : T, done : BOOLEAN]
IsAsk(a) == a \in AskWith({a.kind}, {a.of}, {a.left}, {a.got}, {a.failed}, {a.told})

AskShape ==
  /\ IsAsk(ask) /\ xMode \in {"healthy", "degraded"}
  /\ retrieved \in [Posted -> {"none", "complete", "partial"}] /\ doubted \subseteq Posted

(* Until the answer nothing is said or sent.  What is not read whole is on *)
(* record as an error, and nothing else is when the window is read from X. *)
NotAnswered ==
  ~ask.done =>
    /\ ask.told = {} /\ sentFor = {}
    /\ ask.kind = "recent2h" /\ xMode = "healthy" =>
         /\ last_errors = unread
         /\ unread = {} => PostsBy(Listed \ ask.left) \subseteq ask.got
    /\ ask.kind = "recent2h" /\ xMode = "degraded" =>
         last_errors = Listed /\ unread \in {{}, Listed} /\ ask.left = {}
    /\ ask.kind = "source24" => ask.left \in {{}, ask.of}
    /\ ask.kind = "search" => unread \subseteq last_errors
    /\ ask.kind = "pick" => \E p \in Posted : ask.of = {p}

AskInv == AskShape /\ NotAnswered /\ AnswersAreHonest /\ RemembersWhole

(* What the steps of a request change of it.                               *)
ReadOn(a, l, g) == [a EXCEPT !.left = l, !.got = g]
SearchOn(a, l, g, f) == [a EXCEPT !.left = l, !.got = g, !.failed = f]

LEMMA Reading ==
  ASSUME NEW a, IsAsk(a), NEW l, NEW g
  PROVE  LET b == ReadOn(a, l, g) IN
         /\ IsAsk(b) /\ b.left = l /\ b.got = g
         /\ b.kind = a.kind /\ b.of = a.of /\ b.failed = a.failed /\ b.told = a.told /\ b.done = a.done
<1> DEFINE b == ReadOn(a, l, g)
<1>1. a \in AskWith({a.kind}, {a.of}, {a.left, l}, {a.got, g}, {a.failed}, {a.told})
  BY DEF IsAsk, AskWith
<1>2. b \in AskWith({a.kind}, {a.of}, {a.left, l}, {a.got, g}, {a.failed}, {a.told})
  BY <1>1 DEF AskWith, ReadOn
<1>3. b.left = l /\ b.got = g /\ b.done = a.done
  BY <1>1 DEF AskWith, ReadOn
<1>4. b.kind = a.kind /\ b.of = a.of /\ b.failed = a.failed /\ b.told = a.told
  BY <1>2 DEF AskWith
<1> HIDE DEF b
<1>5. IsAsk(b)
  BY <1>2, <1>3, <1>4 DEF IsAsk, AskWith
<1>6. QED
  BY <1>3, <1>4, <1>5 DEF b

(* The same for a search, which keeps what failed.                         *)
LEMMA Searching ==
  ASSUME NEW a, IsAsk(a), NEW l, NEW g, NEW f
  PROVE  LET b == SearchOn(a, l, g, f) IN
         /\ IsAsk(b) /\ b.left = l /\ b.got = g /\ b.failed = f
         /\ b.kind = a.kind /\ b.of = a.of /\ b.told = a.told /\ b.done = a.done
<1> DEFINE b == SearchOn(a, l, g, f)
<1>1. a \in AskWith({a.kind}, {a.of}, {a.left, l}, {a.got, g}, {a.failed, f}, {a.told})
  BY DEF IsAsk, AskWith
<1>2. b \in AskWith({a.kind}, {a.of}, {a.left, l}, {a.got, g}, {a.failed, f}, {a.told})
  BY <1>1 DEF AskWith, SearchOn
<1>3. b.left = l /\ b.got = g /\ b.failed = f /\ b.done = a.done
  BY <1>1 DEF AskWith, SearchOn
<1>4. b.kind = a.kind /\ b.of = a.of /\ b.told = a.told
  BY <1>2 DEF AskWith
<1> HIDE DEF b
<1>5. IsAsk(b)
  BY <1>2, <1>3, <1>4 DEF IsAsk, AskWith
<1>6. QED
  BY <1>3, <1>4, <1>5 DEF b

(* The answer.                                                             *)
LEMMA AnswerGiven ==
  ASSUME IsAsk(ask), NEW told, Ends(told)
  PROVE  /\ IsAsk(ask') /\ ask'.done = TRUE /\ ask'.told = ask.told \cup told
         /\ ask'.kind = ask.kind /\ ask'.of = ask.of /\ ask'.failed = ask.failed
         /\ ask'.left = ask.left /\ ask'.got = ask.got
<1> DEFINE t == ask.told \cup told
           b == [ask EXCEPT !.told = t, !.done = TRUE]
<1>0. ask' = b
  BY DEF Ends
<1> HIDE DEF t
<1>1. ask \in AskWith({ask.kind}, {ask.of}, {ask.left}, {ask.got}, {ask.failed}, {ask.told, t})
  BY DEF IsAsk, AskWith
<1>2. b \in AskWith({ask.kind}, {ask.of}, {ask.left}, {ask.got}, {ask.failed}, {ask.told, t})
  BY <1>1 DEF AskWith
<1>3. b.told = t /\ b.done = TRUE
  BY <1>1 DEF AskWith
<1>4. b.kind = ask.kind /\ b.of = ask.of /\ b.left = ask.left /\ b.got = ask.got
      /\ b.failed = ask.failed
  BY <1>2 DEF AskWith
<1> HIDE DEF b
<1>5. IsAsk(b)
  BY <1>2, <1>3, <1>4 DEF IsAsk, AskWith
<1>6. QED
  BY <1>0, <1>3, <1>4, <1>5 DEF t

(* A request begins.                                                       *)
LEMMA Begun ==
  ASSUME NEW kind, NEW of, NEW left, Begins(kind, of, left)
  PROVE  /\ IsAsk(ask') /\ ask'.kind = kind /\ ask'.of = of /\ ask'.left = left
         /\ ask'.got = {} /\ ask'.failed = {} /\ ask'.told = {} /\ ask'.done = FALSE
         /\ unread' = {} /\ sentFor' = {}
         /\ UNCHANGED <<roster, xMode, archived, offered, retrieved, doubted, outages>>
<1> DEFINE b == [kind |-> kind, of |-> of, left |-> left, got |-> {}, failed |-> {},
                 told |-> {}, done |-> FALSE]
<1>1. ask' = b
  BY DEF Begins, NoAsk
<1>2. IsAsk(b)
  BY DEF IsAsk, AskWith
<1>3. unread' = {} /\ sentFor' = {}
      /\ UNCHANGED <<roster, xMode, archived, offered, retrieved, doubted, outages>>
  BY DEF Begins, setting
<1>4. QED
  BY <1>1, <1>2, <1>3

(* Before the first one.                                                   *)
LEMMA NoneAsked == IsAsk(NoAsk) /\ NoAsk.done /\ NoAsk.kind = "none"
BY DEF NoAsk, IsAsk, AskWith

(* A post that is remembered as complete is not in doubt.                  *)
LEMMA Remembered ==
  ASSUME AskShape, RemembersWhole, NEW P, NEW status \in {"complete", "partial"},
         NEW whole \in BOOLEAN, Remembers(P, status, whole), status = "complete" => whole,
         P \subseteq Posted
  PROVE  RemembersWhole' /\ retrieved' \in [Posted -> {"none", "complete", "partial"}]
         /\ doubted' \subseteq Posted
BY DEF AskShape, RemembersWhole, Remembers, _remember_retrieval

(* The first state satisfies the invariant.                                *)
LEMMA InitAsk == AskInit => AskInv
<1> SUFFICES ASSUME AskInit PROVE AskInv
  OBVIOUS
<1>1. ask = NoAsk /\ doubted = {} /\ AskShape
  BY NoneAsked DEF AskInit, AskShape
<1>2. NotAnswered /\ AnswersAreHonest /\ RemembersWhole
  BY <1>1, NoneAsked DEF NotAnswered, AnswersAreHonest, RemembersWhole
<1>3. QED
  BY <1>1, <1>2 DEF AskInv

(* Every step keeps it.                                                    *)
LEMMA NextAsk == AskInv /\ [AskNext]_askVars => AskInv'
<1> SUFFICES ASSUME AskInv, [AskNext]_askVars PROVE AskInv'
  OBVIOUS
<1>inv. AskShape /\ IsAsk(ask) /\ NotAnswered /\ AnswersAreHonest /\ RemembersWhole
  BY DEF AskInv, AskShape
<1>goes. ASSUME IsAsk(ask'), ~ask'.done, UNCHANGED <<xMode, retrieved, doubted>>, NotAnswered'
         PROVE  AskInv'
  BY <1>goes, <1>inv DEF AskInv, AskShape, AnswersAreHonest, RemembersWhole
<1>ends. ASSUME IsAsk(ask'), ask'.done = TRUE, UNCHANGED xMode, AnswersAreHonest',
                RemembersWhole', doubted' \subseteq Posted,
                retrieved' \in [Posted -> {"none", "complete", "partial"}]
         PROVE  AskInv'
  BY <1>ends, <1>inv DEF AskInv, AskShape, NotAnswered
<1>silent. ~ask.done => ask.told = {} /\ sentFor = {}
  BY <1>inv DEF NotAnswered
<1>conf. \A P : _configured_only(P) \subseteq P /\ _configured_only(P) \subseteq Posted
                /\ _configured_only(_configured_only(P)) = _configured_only(P)
  BY DEF _configured_only, should_accept_post
<1>status. \A E : StatusOf(E) \in {"complete", "partial"} /\ (StatusOf(E) = "complete" => E = {})
  BY DEF StatusOf
<1>1. CASE NewRun
  <2>1. ask' = NoAsk /\ xMode' \in {"healthy", "degraded"} /\ doubted' = {}
        /\ retrieved' = [p \in Posted |-> "none"]
    BY <1>1 DEF NewRun
  <2>2. AskShape' /\ NotAnswered' /\ AnswersAreHonest' /\ RemembersWhole'
    BY <2>1, NoneAsked DEF AskShape, NotAnswered, AnswersAreHonest, RemembersWhole
  <2>3. QED
    BY <2>2 DEF AskInv
<1>2. CASE run_recent2h
  <2> DEFINE left == IF xMode = "healthy" THEN Listed ELSE {}
  <2>1. Begins("recent2h", {}, left)
        /\ last_errors' = IF xMode = "healthy" THEN ErrorsAtStart ELSE Listed
    BY <1>2 DEF run_recent2h
  <2>2. /\ IsAsk(ask') /\ ask'.kind = "recent2h" /\ ask'.left = left /\ ask'.got = {}
        /\ ask'.told = {} /\ ask'.done = FALSE /\ unread' = {} /\ sentFor' = {}
        /\ UNCHANGED <<roster, xMode, retrieved, doubted>>
    BY <2>1, Begun
  <2>3. PostsBy(Listed \ Listed) = {}
    BY DEF PostsBy
  <2>4. Listed' = Listed
    BY <2>2 DEF Listed
  <2>5. NotAnswered'
    BY <2>1, <2>2, <2>3, <2>4 DEF NotAnswered, ErrorsAtStart, PostsBy
  <2>6. QED
    BY <2>2, <2>5, <1>goes
<1>3. ASSUME NEW kind \in {"source24", "search", "pick", "links", "text"}, NEW of, NEW left,
             Begins(kind, of, left), kind = "source24" => left \in {{}, of},
             kind = "pick" => \E p \in Posted : of = {p}
      PROVE  AskInv'
  <2>1. /\ IsAsk(ask') /\ ask'.kind = kind /\ ask'.of = of /\ ask'.left = left
        /\ ask'.told = {} /\ ask'.done = FALSE /\ unread' = {} /\ sentFor' = {}
        /\ UNCHANGED <<roster, xMode, retrieved, doubted>>
    BY <1>3, Begun
  <2>2. NotAnswered'
    BY <2>1, <1>3 DEF NotAnswered
  <2>3. QED
    BY <2>1, <2>2, <1>goes
<1>4. ASSUME NEW s \in Account, _collect_source_timeline(s) PROVE AskInv'
  <2> DEFINE l == ask.left \ {s}
             g == ask.got \cup PostsBy({s})
  <2>1. /\ ~ask.done /\ ask.kind = "recent2h" /\ ask' = [ask EXCEPT !.left = l, !.got = g]
        /\ UNCHANGED <<roster, xMode, last_errors, retrieved, doubted, unread, sentFor>>
    BY <1>4 DEF _collect_source_timeline, AskedFor, setting, memories
  <2>2. PostsBy(Listed \ l) \subseteq PostsBy(Listed \ ask.left) \cup PostsBy({s})
    BY DEF PostsBy
  <2>3. Listed' = Listed
    BY <2>1 DEF Listed
  <2>4. /\ IsAsk(ask') /\ ask'.left = l /\ ask'.got = g /\ ask'.kind = ask.kind
        /\ ask'.of = ask.of /\ ask'.told = ask.told /\ ask'.done = ask.done
    <3> HIDE DEF l, g
    <3> DEFINE b == ReadOn(ask, l, g)
    <3>1. /\ IsAsk(b) /\ b.left = l /\ b.got = g /\ b.kind = ask.kind
          /\ b.of = ask.of /\ b.told = ask.told /\ b.done = ask.done
      BY <1>inv, Reading
    <3>2. QED
      BY <2>1, <3>1 DEF ReadOn, l, g
  <2>5. PostsBy(Listed \ ask.left)' = PostsBy(Listed \ l)
    BY <2>3, <2>4 DEF PostsBy
  <2>6. NotAnswered'
    BY <2>1, <2>2, <2>3, <2>4, <2>5, <1>inv DEF NotAnswered
  <2>7. QED
    BY <2>1, <2>4, <2>6, <1>goes
<1>5. ASSUME NEW s \in Account, SourceFails(s) PROVE AskInv'
  <2>1. PICK found \in SUBSET PostsBy({s}) :
          ask' = [ask EXCEPT !.left = @ \ {s}, !.got = @ \cup found]
    BY <1>5 DEF SourceFails
  <2> DEFINE l == ask.left \ {s}
             g == ask.got \cup found
  <2>2. /\ ~ask.done /\ ask.kind = "recent2h" /\ ask' = [ask EXCEPT !.left = l, !.got = g]
        /\ UNCHANGED <<roster, xMode, retrieved, doubted, sentFor>>
        /\ last_errors' = last_errors \cup {s} /\ unread' = unread \cup {s} /\ s \in ask.left
    BY <1>5, <2>1 DEF SourceFails, AskedFor, setting
  <2>3. /\ IsAsk(ask') /\ ask'.kind = ask.kind /\ ask'.left = l
        /\ ask'.of = ask.of /\ ask'.told = ask.told /\ ask'.done = ask.done
    <3> HIDE DEF l, g
    <3> DEFINE b == ReadOn(ask, l, g)
    <3>1. /\ IsAsk(b) /\ b.left = l /\ b.kind = ask.kind
          /\ b.of = ask.of /\ b.told = ask.told /\ b.done = ask.done
      BY <1>inv, Reading
    <3>2. QED
      BY <2>2, <3>1 DEF ReadOn, l, g
  <2>4. xMode = "healthy" /\ last_errors = unread
    BY <2>2, <1>inv DEF NotAnswered, AskShape
  <2>5. NotAnswered'
    BY <2>2, <2>3, <2>4, <1>silent DEF NotAnswered
  <2>6. QED
    BY <2>2, <2>3, <2>5, <1>goes
<1>6. CASE collect_degraded_window
  <2>1. PICK found : ask' = [ask EXCEPT !.got = found]
    BY <1>6 DEF collect_degraded_window
  <2>2. /\ ~ask.done /\ ask.kind = "recent2h" /\ xMode = "degraded" /\ unread' = Listed
        /\ UNCHANGED <<roster, xMode, last_errors, retrieved, doubted, sentFor>>
    BY <1>6 DEF collect_degraded_window, AskedFor, setting, memories
  <2>3. ask \in AskWith({ask.kind}, {ask.of}, {ask.left}, {ask.got, found}, {ask.failed}, {ask.told})
    BY <1>inv DEF IsAsk, AskWith
  <2>4. ask' \in AskWith({ask.kind}, {ask.of}, {ask.left}, {ask.got, found}, {ask.failed}, {ask.told})
        /\ ask'.done = ask.done
    BY <2>1, <2>3 DEF AskWith
  <2>5. ask'.kind = ask.kind /\ ask'.of = ask.of /\ ask'.left = ask.left /\ ask'.told = ask.told
        /\ IsAsk(ask')
    BY <2>4 DEF IsAsk, AskWith
  <2>6. Listed' = Listed
    BY <2>2 DEF Listed
  <2>7. NotAnswered'
    BY <2>2, <2>4, <2>5, <2>6, <1>inv DEF NotAnswered
  <2>8. QED
    BY <2>2, <2>4, <2>5, <2>7, <1>goes
<1>deliver. ASSUME NEW P, NEW told, Delivers(P, told), ~ask.done
            PROVE  /\ IsAsk(ask') /\ ask'.done = TRUE /\ ask'.told = told /\ ask'.kind = ask.kind
                   /\ ask'.of = ask.of /\ ask'.failed = ask.failed
                   /\ sentFor' = _configured_only(P)
  <2>1. Ends(told) /\ sentFor' = _configured_only(P)
    BY <1>deliver DEF Delivers, deliver_updates
  <2>2. ask.told \cup told = told
    BY <1>deliver, <1>silent
  <2>3. QED
    BY <2>1, <2>2, <1>inv, AnswerGiven
<1>say. ASSUME NEW told, Says(told), ~ask.done
        PROVE  /\ IsAsk(ask') /\ ask'.done = TRUE /\ ask'.told = told /\ ask'.kind = ask.kind
               /\ ask'.of = ask.of /\ ask'.failed = ask.failed
               /\ sentFor' = {}
  <2>1. Ends(told) /\ sentFor' = sentFor
    BY <1>say DEF Says
  <2>2. ask.told \cup told = told /\ sentFor = {}
    BY <1>say, <1>silent
  <2>3. QED
    BY <2>1, <2>2, <1>inv, AnswerGiven
<1>7. CASE AnswerRecent
  <2> DEFINE found == _configured_only(ask.got)
             warning == IF last_errors = {} THEN {} ELSE {"warned"}
  <2>1. /\ ~ask.done /\ ask.kind = "recent2h" /\ ask.left = {} /\ (xMode = "degraded" => unread # {})
        /\ Remembers(found, StatusOf(last_errors), unread = {})
        /\ IF found = {} THEN Says(warning \cup {"nothing"}) ELSE Delivers(found, warning)
        /\ UNCHANGED <<roster, xMode, last_errors, unread>>
    BY <1>7 DEF AnswerRecent, AskedFor
  <2>2. last_errors = {} <=> unread = {}
    BY <2>1, <1>inv DEF NotAnswered, AskShape
  <2>3. /\ IsAsk(ask') /\ ask'.done = TRUE /\ ask'.kind = "recent2h"
        /\ ask'.told \in {warning, warning \cup {"nothing"}} /\ sentFor' = found
    <3>1. _configured_only(found) = found
      BY <1>conf
    <3> HIDE DEF found, warning
    <3>2. CASE found = {}
      BY <2>1, <3>2, <1>say
    <3>3. CASE found # {}
      BY <2>1, <3>1, <3>3, <1>deliver
    <3>4. QED
      BY <3>2, <3>3
  <2>4. RemembersWhole' /\ doubted' \subseteq Posted
        /\ retrieved' \in [Posted -> {"none", "complete", "partial"}]
    <3> DEFINE status == StatusOf(last_errors)
               whole == unread = {}
    <3>1. status \in {"complete", "partial"} /\ (status = "complete" => whole) /\ whole \in BOOLEAN
      BY <2>2, <1>status
    <3>2. found \subseteq Posted /\ Remembers(found, status, whole)
      BY <2>1, <1>conf
    <3> HIDE DEF found, status, whole
    <3>3. QED
      BY <3>1, <3>2, <1>inv, Remembered
  <2>5. "warned" \in ask'.told <=> unread # {}
    BY <2>2, <2>3
  <2>6. unread = {} => found = _configured_only(PostsBy(Listed))
    <3>1. ASSUME unread = {} PROVE PostsBy(Listed) \subseteq ask.got
      <4>1. xMode = "healthy" /\ Listed \ ask.left = Listed
        BY <2>1, <3>1, <1>inv DEF AskShape
      <4>2. QED
        BY <2>1, <3>1, <4>1, <1>inv DEF NotAnswered
    <3>2. QED
      BY <3>1 DEF _configured_only, should_accept_post, PostsBy
  <2>7. _configured_only(PostsBy(Listed))' = _configured_only(PostsBy(Listed))
    BY <2>1 DEF _configured_only, should_accept_post, PostsBy, Listed
  <2>8. AnswersAreHonest'
    BY <2>1, <2>3, <2>5, <2>6, <2>7 DEF AnswersAreHonest
  <2>9. QED
    BY <2>1, <2>3, <2>4, <2>8, <1>ends
<1>8. CASE RefuseSource
  <2>1. /\ ~ask.done /\ ask.kind = "source24" /\ Says({"refused"})
        /\ UNCHANGED <<xMode, retrieved, doubted>>
    BY <1>8 DEF RefuseSource, AskedFor, memories
  <2>2. IsAsk(ask') /\ ask'.done = TRUE /\ ask'.told = {"refused"} /\ ask'.kind = "source24"
    BY <2>1, <1>say
  <2>3. AnswersAreHonest' /\ RemembersWhole'
    BY <2>1, <2>2, <1>inv DEF AnswersAreHonest, RemembersWhole
  <2>4. QED
    BY <2>1, <2>2, <2>3, <1>inv, <1>ends DEF AskShape
<1>raise. ASSUME ~ask.done, Raises, ask.kind \in {"source24", "pick"},
                 UNCHANGED <<xMode, retrieved, doubted>>
          PROVE  AskInv'
  <2>1. IsAsk(ask') /\ ask'.done = TRUE /\ ask'.told = {"error"} /\ ask'.kind = ask.kind
        /\ sentFor' = {}
    BY <1>raise, <1>say DEF Raises
  <2>2. AnswersAreHonest' /\ RemembersWhole'
    BY <1>raise, <2>1, <1>inv DEF AnswersAreHonest, RemembersWhole
  <2>3. QED
    BY <1>raise, <2>1, <2>2, <1>inv, <1>ends DEF AskShape
<1>return. ASSUME ~ask.done, NEW found, found \subseteq Posted, _configured_only(found) = found,
                  Returns(found)
           PROVE  /\ IsAsk(ask') /\ ask'.done = TRUE /\ ask'.kind = ask.kind /\ ask'.of = ask.of
                  /\ sentFor' = found /\ RemembersWhole' /\ doubted' \subseteq Posted
                  /\ retrieved' \in [Posted -> {"none", "complete", "partial"}]
  <2>1. Remembers(found, "complete", TRUE)
        /\ IF found = {} THEN Says({"nothing"}) ELSE Delivers(found, {})
    BY <1>return DEF Returns
  <2>2. RemembersWhole' /\ doubted' \subseteq Posted
        /\ retrieved' \in [Posted -> {"none", "complete", "partial"}]
    BY <1>return, <2>1, <1>inv, Remembered
  <2>3. CASE found = {}
    BY <1>return, <2>1, <2>2, <2>3, <1>say
  <2>4. CASE found # {}
    BY <1>return, <2>1, <2>2, <2>4, <1>deliver
  <2>5. QED
    BY <2>3, <2>4
<1>9. CASE _configured_collect_source
  <2> DEFINE found == _configured_only(PostsBy(ask.left))
  <2>1. ~ask.done /\ ask.kind = "source24" /\ ask.left # {} /\ UNCHANGED <<roster, xMode>>
    BY <1>9 DEF _configured_collect_source, AskedFor
  <2>2. CASE Returns(found)
    <3>1. /\ IsAsk(ask') /\ ask'.done = TRUE /\ ask'.kind = ask.kind /\ ask'.of = ask.of
          /\ sentFor' = found /\ RemembersWhole' /\ doubted' \subseteq Posted
          /\ retrieved' \in [Posted -> {"none", "complete", "partial"}]
      BY <2>1, <2>2, <1>conf, <1>return
    <3>2. ask.left = ask.of
      BY <2>1, <1>inv DEF NotAnswered
    <3>3. _configured_only(PostsBy(ask.of))' = found
      BY <2>1, <3>1, <3>2 DEF _configured_only, should_accept_post, PostsBy, Listed
    <3>4. AnswersAreHonest'
      BY <2>1, <3>1, <3>3 DEF AnswersAreHonest
    <3>5. QED
      BY <2>1, <3>1, <3>4, <1>ends
  <2>3. CASE Raises /\ UNCHANGED <<retrieved, doubted>>
    BY <2>1, <2>3, <1>raise
  <2>4. QED
    BY <1>9, <2>2, <2>3 DEF _configured_collect_source
<1>10. CASE _collect_source_with_provider_recovery
  <2>1. ~ask.done /\ ask.kind = "source24" /\ xMode = "degraded" /\ UNCHANGED <<roster, xMode>>
    BY <1>10 DEF _collect_source_with_provider_recovery, AskedFor
  <2>2. ASSUME NEW found, Returns(_configured_only(found)) PROVE AskInv'
    <3>1. /\ IsAsk(ask') /\ ask'.done = TRUE /\ ask'.kind = ask.kind
          /\ RemembersWhole' /\ doubted' \subseteq Posted
          /\ retrieved' \in [Posted -> {"none", "complete", "partial"}]
      BY <2>1, <2>2, <1>conf, <1>return
    <3>2. AnswersAreHonest'
      BY <2>1, <3>1 DEF AnswersAreHonest
    <3>3. QED
      BY <2>1, <3>1, <3>2, <1>ends
  <2>3. CASE Raises /\ UNCHANGED memories
    BY <2>1, <2>3, <1>raise DEF memories
  <2>4. QED
    BY <1>10, <2>2, <2>3 DEF _collect_source_with_provider_recovery
<1>11. ASSUME NEW s \in Account, _run_queries(s) PROVE AskInv'
  <2> DEFINE l == ask.left \ {s}
             g == ask.got \cup PostsBy({s})
  <2>1. /\ ~ask.done /\ ask.kind = "search" /\ ask' = ReadOn(ask, l, g)
        /\ UNCHANGED <<roster, xMode, last_errors, retrieved, doubted, unread, sentFor>>
    BY <1>11 DEF _run_queries, AskedFor, setting, memories, ReadOn
  <2> HIDE DEF l, g
  <2>2. IsAsk(ask') /\ ask'.kind = ask.kind /\ ask'.told = ask.told /\ ask'.done = ask.done
    BY <2>1, <1>inv, Reading
  <2>3. NotAnswered'
    BY <2>1, <2>2, <1>inv DEF NotAnswered
  <2>4. QED
    BY <2>1, <2>2, <2>3, <1>goes
<1>12. ASSUME NEW s \in Account, QueriesFail(s) PROVE AskInv'
  <2>1. PICK found \in SUBSET PostsBy({s}), failed \in SUBSET {s} :
          ask' = [ask EXCEPT !.left = @ \ {s}, !.got = @ \cup found, !.failed = @ \cup failed]
    BY <1>12 DEF QueriesFail
  <2> DEFINE l == ask.left \ {s}
             g == ask.got \cup found
             f == ask.failed \cup failed
  <2>2. /\ ~ask.done /\ ask.kind = "search" /\ ask' = SearchOn(ask, l, g, f)
        /\ UNCHANGED <<roster, xMode, retrieved, doubted, sentFor>>
        /\ last_errors' = last_errors \cup {s} /\ unread' = unread \cup {s}
    BY <1>12, <2>1 DEF QueriesFail, AskedFor, setting, SearchOn
  <2> HIDE DEF l, g, f
  <2>3. IsAsk(ask') /\ ask'.kind = ask.kind /\ ask'.told = ask.told /\ ask'.done = ask.done
    BY <2>2, <1>inv, Searching
  <2>4. NotAnswered'
    BY <2>2, <2>3, <1>inv DEF NotAnswered
  <2>5. QED
    BY <2>2, <2>3, <2>4, <1>goes
<1>13. CASE _configured_search_archive
  <2> DEFINE found == _configured_only(ask.got)
             raised == found = {} /\ ask.failed # {}
             local == _configured_only(archived)
             failed == IF raised THEN ask.failed ELSE {}
  <2>1. /\ ~ask.done /\ ask.kind = "search" /\ UNCHANGED <<xMode, last_errors, unread, sentFor>>
        /\ IF raised THEN UNCHANGED <<retrieved, doubted>>
           ELSE Remembers(found, StatusOf(last_errors), unread = {})
        /\ IF local \cup found = {} THEN Ends({Unfound(failed)}) ELSE Ends({"offered"})
    BY <1>13 DEF _configured_search_archive, AskedFor
  <2>2. RemembersWhole' /\ doubted' \subseteq Posted
        /\ retrieved' \in [Posted -> {"none", "complete", "partial"}]
    <3>1. CASE raised
      BY <2>1, <3>1, <1>inv DEF AskShape, RemembersWhole
    <3>2. CASE ~raised
      <4> DEFINE status == StatusOf(last_errors)
                 whole == unread = {}
      <4>1. unread \subseteq last_errors
        BY <2>1, <1>inv DEF NotAnswered
      <4>2. status \in {"complete", "partial"} /\ (status = "complete" => whole) /\ whole \in BOOLEAN
        BY <4>1, <1>status
      <4>3. found \subseteq Posted /\ Remembers(found, status, whole)
        BY <2>1, <3>2, <1>conf
      <4> HIDE DEF found, status, whole
      <4>4. QED
        BY <4>2, <4>3, <1>inv, Remembered
    <3>3. QED
      BY <3>1, <3>2
  <2>3. PICK told : told \in {{Unfound(failed)}, {"offered"}} /\ Ends(told)
                    /\ (told # {"offered"} => found = {})
    BY <2>1
  <2>4. /\ IsAsk(ask') /\ ask'.done = TRUE /\ ask'.told = told
        /\ ask'.kind = "search" /\ ask'.failed = ask.failed
    <3>1. ask.told \cup told = told
      BY <2>1, <1>silent
    <3>2. QED
      BY <2>1, <2>3, <3>1, <1>inv, AnswerGiven
  <2>5. "nothing" \in told => ask.failed = {}
    BY <2>3 DEF Unfound
  <2>6. AnswersAreHonest'
    BY <2>4, <2>5 DEF AnswersAreHonest
  <2>7. QED
    BY <2>1, <2>2, <2>4, <2>6, <1>ends
<1>14. CASE SearchIsGone
  <2>1. /\ ~ask.done /\ ask.kind = "pick" /\ Says({"expired"})
        /\ UNCHANGED <<xMode, retrieved, doubted>>
    BY <1>14 DEF SearchIsGone, AskedFor, memories
  <2>2. IsAsk(ask') /\ ask'.done = TRUE /\ ask'.kind = "pick" /\ sentFor' = {}
    BY <2>1, <1>say
  <2>3. AnswersAreHonest' /\ RemembersWhole'
    BY <2>1, <2>2, <1>inv DEF AnswersAreHonest, RemembersWhole
  <2>4. QED
    BY <2>1, <2>2, <2>3, <1>inv, <1>ends DEF AskShape
<1>15. CASE _configured_collect_event
  <2>1. ~ask.done /\ ask.kind = "pick" /\ UNCHANGED <<roster, xMode>>
    BY <1>15 DEF _configured_collect_event, AskedFor
  <2>2. PICK p \in ask.of :
          IF Poster[p] \notin Listed
          THEN Raises /\ NoOutage /\ UNCHANGED <<memories, unread>>
          ELSE \E found \in SUBSET Belonging[p], errors \in {{}, {Poster[p]}} :
                 LET kept == _configured_only(found \cup {p})
                     whole == found = Belonging[p] /\ errors = {} IN
                 /\ IF whole THEN NoOutage ELSE Outage
                 /\ last_errors' = last_errors \cup errors
                 /\ unread' = IF whole THEN unread ELSE {Poster[p]}
                 /\ IF kept = {} /\ ~whole
                    THEN Raises /\ UNCHANGED <<retrieved, doubted>>
                    ELSE /\ Remembers(kept, StatusOf(last_errors'), TRUE)
                         /\ Delivers(IF kept = {} THEN {p} ELSE kept, {})
    BY <1>15 DEF _configured_collect_event
  <2>3. ask.of = {p}
    BY <2>1, <2>2, <1>inv DEF NotAnswered
  <2>4. ASSUME Raises, UNCHANGED <<retrieved, doubted>> PROVE AskInv'
    BY <2>1, <2>4, <1>raise
  <2>5. ASSUME NEW found, NEW E, Remembers(_configured_only(found \cup {p}), StatusOf(E), TRUE),
               Delivers(IF _configured_only(found \cup {p}) = {} THEN {p}
                        ELSE _configured_only(found \cup {p}), {})
        PROVE  AskInv'
    <3> DEFINE kept == _configured_only(found \cup {p})
               P == IF kept = {} THEN {p} ELSE kept
    <3>1. kept \subseteq Posted /\ StatusOf(E) \in {"complete", "partial"}
      BY <1>conf, <1>status
    <3>2. RemembersWhole' /\ doubted' \subseteq Posted
          /\ retrieved' \in [Posted -> {"none", "complete", "partial"}]
      BY <2>5, <3>1, <1>inv, Remembered
    <3>3. /\ IsAsk(ask') /\ ask'.done = TRUE /\ ask'.kind = "pick" /\ ask'.of = {p}
          /\ sentFor' = _configured_only(P)
      BY <2>1, <2>3, <2>5, <1>deliver
    <3>4. _configured_only({p}) \subseteq _configured_only(P)
      BY DEF _configured_only
    <3>5. _configured_only({p})' = _configured_only({p})
      BY <2>1 DEF _configured_only, should_accept_post, Listed
    <3>6. AnswersAreHonest'
      BY <3>3, <3>4, <3>5 DEF AnswersAreHonest
    <3>7. QED
      BY <2>1, <3>2, <3>3, <3>6, <1>ends
  <2>6. QED
    BY <2>2, <2>4, <2>5 DEF memories
<1>16. CASE collect_shared_statuses
  <2>1. PICK failed \in SUBSET ask.of :
          /\ unread' = failed
          /\ LET warning == IF failed = {} THEN {} ELSE {"unread"} IN
             IF failed = ask.of THEN Says(warning) ELSE Delivers(ask.of \ failed, warning)
    BY <1>16 DEF collect_shared_statuses
  <2>2. ~ask.done /\ ask.kind = "links" /\ UNCHANGED <<roster, xMode, retrieved, doubted>>
    BY <1>16 DEF collect_shared_statuses, AskedFor, memories
  <2> DEFINE warning == IF failed = {} THEN {} ELSE {"unread"}
  <2>3. /\ IsAsk(ask') /\ ask'.done = TRUE /\ ask'.told = warning /\ ask'.kind = "links"
        /\ ask'.of = ask.of /\ _configured_only(ask.of) \subseteq sentFor' \cup failed
    <3>1. CASE failed = ask.of
      BY <2>1, <2>2, <3>1, <1>say, <1>conf
    <3>2. CASE failed # ask.of
      <4>1. _configured_only(ask.of) \subseteq _configured_only(ask.of \ failed) \cup failed
        BY DEF _configured_only
      <4>2. Delivers(ask.of \ failed, warning)
        BY <2>1, <3>2
      <4> HIDE DEF warning
      <4>3. QED
        BY <2>2, <4>1, <4>2, <1>deliver
    <3>3. QED
      BY <3>1, <3>2
  <2>4. _configured_only(ask.of)' = _configured_only(ask.of)
    BY <2>2, <2>3 DEF _configured_only, should_accept_post, Listed
  <2>5. AnswersAreHonest'
    BY <2>1, <2>3, <2>4 DEF AnswersAreHonest
  <2>6. RemembersWhole'
    BY <2>2, <1>inv DEF RemembersWhole
  <2>7. QED
    BY <2>2, <2>3, <2>5, <2>6, <1>inv, <1>ends DEF AskShape
<1>17. CASE PrepareText
  <2>1. ~ask.done /\ ask.kind = "text" /\ Delivers(ask.of, {}) /\ UNCHANGED <<xMode, retrieved, doubted>>
    BY <1>17 DEF PrepareText, AskedFor, memories
  <2>2. IsAsk(ask') /\ ask'.done = TRUE /\ ask'.kind = "text"
    BY <2>1, <1>deliver
  <2>3. AnswersAreHonest' /\ RemembersWhole'
    BY <2>1, <2>2, <1>inv DEF AnswersAreHonest, RemembersWhole
  <2>4. QED
    BY <2>1, <2>2, <2>3, <1>inv, <1>ends DEF AskShape
<1>18. CASE UNCHANGED askVars
  <2>1. UNCHANGED <<roster, xMode, last_errors, retrieved, ask, unread, doubted, sentFor>>
    BY <1>18 DEF askVars
  <2>2. AnswersAreHonest'
    BY <2>1, <1>inv DEF AnswersAreHonest, _configured_only, should_accept_post, PostsBy, Listed
  <2>3. NotAnswered' /\ AskShape' /\ RemembersWhole'
    BY <2>1, <1>inv DEF NotAnswered, AskShape, RemembersWhole, PostsBy, Listed
  <2>4. QED
    BY <2>2, <2>3 DEF AskInv
<1>19. CASE \E s \in Account : run_source24(s)
  <2>1. PICK s \in Account : Begins("source24", {s}, IF s \in Listed THEN {s} ELSE {})
    BY <1>19 DEF run_source24
  <2>2. QED
    BY <2>1, <1>3
<1>20. CASE run_search \/ (\E p \in Posted : run_selected_event(p))
            \/ (\E P \in SUBSET Posted : run_shared_x_links(P)) \/ (\E t \in Pasted : run_manual_input(t))
  <2>1. \/ Begins("search", {}, Listed) \/ \E p \in Posted : Begins("pick", {p}, {})
        \/ \E P : Begins("links", P, {}) \/ \E t : Begins("text", {t}, {})
    BY <1>20 DEF run_search, run_selected_event, run_shared_x_links, run_manual_input
  <2>2. ASSUME NEW p \in Posted, Begins("pick", {p}, {}) PROVE AskInv'
    BY <2>2, <1>3
  <2>3. QED
    BY <2>1, <2>2, <1>3
<1>21. QED
  BY <1>1, <1>2, <1>4, <1>5, <1>6, <1>7, <1>8, <1>9, <1>10, <1>11, <1>12, <1>13, <1>14, <1>15,
     <1>16, <1>17, <1>18, <1>19, <1>20 DEF AskNext

(* Hence it holds throughout.                                              *)
LEMMA AskInvHolds == AskSpec => []AskInv
BY InitAsk, NextAsk, PTL DEF AskSpec

(* What a request holds is of the configured sources and of posts.         *)
AskData ==
  /\ roster \in Rosters /\ last_errors \cup unread \subseteq Account \cup Posted
  /\ archived \cup offered \cup sentFor \subseteq Posted
  /\ ask.left \cup ask.failed \subseteq Account /\ ask.got \subseteq Posted
  /\ ask.kind = "links" => ask.of \subseteq Posted

(* No question is asked before the first run.                              *)
LEMMA InitAskData == AskInit => AskData
<1>1. NoAsk.left = {} /\ NoAsk.failed = {} /\ NoAsk.got = {} /\ NoAsk.of = {}
  BY DEF NoAsk
<1>2. QED
  BY <1>1 DEF AskInit, AskData

(* One step per action: what begins a question, reads on or answers it is  *)
(* shown once for all of them.                                             *)
LEMMA NextAskData == AskInv /\ AskData /\ [AskNext]_askVars => AskData'
<1> SUFFICES ASSUME AskInv, AskData, [AskNext]_askVars PROVE AskData'
  OBVIOUS
<1> DEFINE Known == Account \cup Posted
           Holds(L, F, G, K, O) == /\ L \cup F \subseteq Account /\ G \subseteq Posted
                                   /\ K = "links" => O \subseteq Posted
           Answered == (\E told : Ends(told)) /\ archived' \cup offered' \cup sentFor' \subseteq Posted
<1>0. /\ IsAsk(ask) /\ roster \in Rosters /\ last_errors \cup unread \subseteq Known
      /\ archived \cup offered \cup sentFor \subseteq Posted
      /\ Holds(ask.left, ask.failed, ask.got, ask.kind, ask.of)
  BY DEF AskInv, AskShape, AskData
<1>2. Listed \subseteq Account /\ \A S : PostsBy(S) \subseteq Posted /\ _configured_only(S) \subseteq Posted
  BY <1>0 DEF Listed, Account, PostsBy, _configured_only, should_accept_post
<1>3. (\A told : Says(told) => Answered) /\ (\A P, told : Delivers(P, told) => Answered)
  BY <1>0, <1>2 DEF Says, Delivers, deliver_updates
<1>4. ASSUME Answered, UNCHANGED roster, last_errors' \cup unread' \subseteq Known PROVE AskData'
  <2>1. PICK told : Ends(told)
    BY <1>4
  <2>2. /\ ask'.left = ask.left /\ ask'.failed = ask.failed /\ ask'.got = ask.got
        /\ ask'.kind = ask.kind /\ ask'.of = ask.of
    BY <2>1, <1>0, AnswerGiven
  <2>3. QED
    BY <1>0, <1>4, <2>2 DEF AskData, Account
<1>5. ASSUME NEW kind, NEW of, NEW left, Begins(kind, of, left), left \subseteq Account,
             kind = "links" => of \subseteq Posted, last_errors' \subseteq Known
      PROVE  AskData'
  <2>1. /\ ask'.kind = kind /\ ask'.of = of /\ ask'.left = left /\ ask'.got = {} /\ ask'.failed = {}
        /\ unread' = {} /\ sentFor' = {} /\ UNCHANGED <<roster, archived, offered>>
    BY <1>5, Begun
  <2>2. QED
    BY <1>0, <1>5, <2>1 DEF AskData, Account
<1>6. ASSUME NEW l \in SUBSET Account, NEW f \in SUBSET Account, NEW g \in SUBSET Posted,
             ask' \in {ReadOn(ask, l, g), SearchOn(ask, l, g, f)}, UNCHANGED setting, UNCHANGED sentFor,
             last_errors' \cup unread' \subseteq Known
      PROVE  AskData'
  <2>1. /\ ask'.left = l /\ ask'.got = g /\ ask'.kind = ask.kind /\ ask'.of = ask.of
        /\ ask'.failed \in {f, ask.failed}
    BY <1>0, <1>6, Reading, Searching
  <2>2. roster' = roster /\ archived' = archived /\ offered' = offered /\ sentFor' = sentFor
    BY <1>6 DEF setting
  <2>3. QED
    BY <1>0, <1>6, <2>1, <2>2 DEF AskData, Account
<1> HIDE DEF Known, Holds, Answered
<1>known. Known = Account \cup Posted /\ last_errors \subseteq Known /\ unread \subseteq Known
          /\ ask.left \subseteq Account /\ ask.failed \subseteq Account /\ ask.got \subseteq Posted
  BY <1>0 DEF Known, Holds
<1>7. CASE NewRun
  <2>1. /\ roster' \in Rosters /\ last_errors' = {} /\ offered' \in {offered, {}} /\ ask' = NoAsk
        /\ unread' = {} /\ sentFor' = {} /\ archived' = archived
    BY <1>7 DEF NewRun
  <2>2. NoAsk.left = {} /\ NoAsk.failed = {} /\ NoAsk.got = {} /\ NoAsk.of = {}
    BY DEF NoAsk
  <2>3. QED
    BY <1>0, <2>1, <2>2 DEF AskData
<1>8. CASE run_recent2h
  <2>1. /\ Begins("recent2h", {}, IF xMode = "healthy" THEN Listed ELSE {})
        /\ last_errors' \in {{}, Listed}
    BY <1>8 DEF run_recent2h, ErrorsAtStart
  <2>2. QED
    BY <1>2, <1>5, <1>known, <2>1
<1>9. ASSUME NEW s \in Account, _collect_source_timeline(s) \/ _run_queries(s) PROVE AskData'
  <2> DEFINE l == ask.left \ {s}
             g == ask.got \cup PostsBy({s})
  <2>1. ask' = ReadOn(ask, l, g) /\ UNCHANGED setting /\ UNCHANGED sentFor /\ UNCHANGED <<last_errors, unread>>
    BY <1>9 DEF _collect_source_timeline, _run_queries, memories, ReadOn
  <2>2. l \in SUBSET Account /\ g \in SUBSET Posted
    BY <1>2, <1>known
  <2> HIDE DEF l, g
  <2>3. QED
    BY <1>6, <1>known, <2>1, <2>2
<1>10. ASSUME NEW s \in Account, SourceFails(s) PROVE AskData'
  <2>1. PICK found \in SUBSET PostsBy({s}) :
          ask' = [ask EXCEPT !.left = @ \ {s}, !.got = @ \cup found] /\ last_errors' = last_errors \cup {s}
    BY <1>10 DEF SourceFails
  <2> DEFINE l == ask.left \ {s}
             g == ask.got \cup found
  <2>2. ask' = ReadOn(ask, l, g) /\ UNCHANGED setting /\ UNCHANGED sentFor
        /\ last_errors' = last_errors \cup {s} /\ unread' = unread \cup {s}
    BY <1>10, <2>1 DEF SourceFails, ReadOn
  <2>3. l \in SUBSET Account /\ g \in SUBSET Posted
    BY <1>2, <1>known
  <2> HIDE DEF l, g
  <2>4. QED
    BY <1>6, <1>known, <2>2, <2>3
<1>11. ASSUME NEW s \in Account, QueriesFail(s) PROVE AskData'
  <2>1. PICK found \in SUBSET PostsBy({s}), failed \in SUBSET {s} :
          ask' = [ask EXCEPT !.left = @ \ {s}, !.got = @ \cup found, !.failed = @ \cup failed]
    BY <1>11 DEF QueriesFail
  <2> DEFINE l == ask.left \ {s}
             g == ask.got \cup found
             f == ask.failed \cup failed
  <2>2. ask' = SearchOn(ask, l, g, f) /\ UNCHANGED setting /\ UNCHANGED sentFor
        /\ last_errors' = last_errors \cup {s} /\ unread' = unread \cup {s}
    BY <1>11, <2>1 DEF QueriesFail, SearchOn
  <2>3. l \in SUBSET Account /\ g \in SUBSET Posted /\ f \in SUBSET Account
    BY <1>2, <1>known
  <2> HIDE DEF l, g, f
  <2>4. QED
    BY <1>6, <1>known, <2>2, <2>3
<1>12. CASE collect_degraded_window
  <2>1. PICK found \in SUBSET PostsBy(Listed) : ask' = [ask EXCEPT !.got = found]
    BY <1>12 DEF collect_degraded_window
  <2>2. ask' = ReadOn(ask, ask.left, found) /\ UNCHANGED setting /\ UNCHANGED sentFor
        /\ last_errors' = last_errors /\ unread' = Listed
    BY <1>0, <1>12, <2>1 DEF collect_degraded_window, memories, ReadOn, IsAsk, AskWith
  <2>3. found \in SUBSET Posted /\ ask.left \in SUBSET Account
    BY <1>2, <1>known
  <2>4. QED
    BY <1>2, <1>6, <1>known, <2>2, <2>3
<1>13. CASE AnswerRecent
  <2>1. UNCHANGED <<roster, last_errors, unread>> /\ Answered
    BY <1>3, <1>13 DEF AnswerRecent
  <2>2. QED
    BY <1>4, <1>known, <2>1
<1>14. CASE RefuseSource \/ SearchIsGone \/ PrepareText
  <2>1. UNCHANGED <<roster, last_errors, unread>> /\ Answered
    BY <1>3, <1>14 DEF RefuseSource, SearchIsGone, PrepareText, memories
  <2>2. QED
    BY <1>4, <1>known, <2>1
<1>15. CASE _configured_collect_source
  <2>1. /\ roster' = roster /\ last_errors' \in {last_errors, last_errors \cup ask.left}
        /\ unread' \in {unread, ask.left}
    BY <1>15 DEF _configured_collect_source
  <2>2. Answered
    BY <1>3, <1>15 DEF _configured_collect_source, Returns, Raises
  <2>3. QED
    BY <1>4, <1>known, <2>1, <2>2
<1>16. CASE _collect_source_with_provider_recovery
  <2>1. roster' = roster /\ last_errors' \in {last_errors, ask.left} /\ unread' = ask.left
    BY <1>16 DEF _collect_source_with_provider_recovery, memories
  <2>2. Answered
    BY <1>3, <1>16 DEF _collect_source_with_provider_recovery, Returns, Raises
  <2>3. QED
    BY <1>4, <1>known, <2>1, <2>2
<1>17. CASE _configured_search_archive
  <2> DEFINE found == _configured_only(ask.got)
             local == _configured_only(archived)
  <2>1. /\ UNCHANGED <<roster, last_errors, unread, sentFor>>
        /\ archived' = archived \cup found /\ offered' \in {offered, offered \cup local \cup found}
        /\ \E told : Ends(told)
    BY <1>17 DEF _configured_search_archive
  <2>2. found \subseteq Posted /\ local \subseteq Posted
    BY <1>2
  <2> HIDE DEF found, local
  <2>3. Answered
    BY <1>0, <2>1, <2>2 DEF Answered
  <2>4. QED
    BY <1>4, <1>known, <2>1, <2>3
<1>18. CASE _configured_collect_event
  <2>1. PICK p \in ask.of :
          IF Poster[p] \notin Listed
          THEN Raises /\ NoOutage /\ UNCHANGED <<memories, unread>>
          ELSE \E found \in SUBSET Belonging[p], errors \in {{}, {Poster[p]}} :
                 LET kept == _configured_only(found \cup {p})
                     whole == found = Belonging[p] /\ errors = {} IN
                 /\ IF whole THEN NoOutage ELSE Outage
                 /\ last_errors' = last_errors \cup errors
                 /\ unread' = IF whole THEN unread ELSE {Poster[p]}
                 /\ IF kept = {} /\ ~whole
                    THEN Raises /\ UNCHANGED <<retrieved, doubted>>
                    ELSE /\ Remembers(kept, StatusOf(last_errors'), TRUE)
                         /\ Delivers(IF kept = {} THEN {p} ELSE kept, {})
    BY <1>18 DEF _configured_collect_event
  <2>2. roster' = roster
    BY <1>18 DEF _configured_collect_event
  <2>3. CASE Poster[p] \notin Listed
    <3>1. Raises /\ UNCHANGED <<last_errors, unread>>
      BY <2>1, <2>3 DEF memories
    <3>2. QED
      BY <1>3, <1>4, <1>known, <2>2, <3>1 DEF Raises
  <2>4. CASE Poster[p] \in Listed
    <3>1. PICK errors \in {{}, {Poster[p]}} : last_errors' = last_errors \cup errors
      BY <2>1, <2>4
    <3>2. unread' \in {unread, {Poster[p]}}
      BY <2>1, <2>4
    <3>3. Raises \/ \E P : Delivers(P, {})
      BY <2>1, <2>4
    <3>4. Answered
      BY <1>3, <3>3 DEF Raises
    <3>5. QED
      BY <1>2, <1>4, <1>known, <2>2, <2>4, <3>1, <3>2, <3>4
  <2>5. QED
    BY <2>3, <2>4
<1>19. CASE collect_shared_statuses
  <2>1. /\ roster' = roster /\ last_errors' = last_errors /\ unread' \subseteq ask.of /\ ask.kind = "links"
    BY <1>19 DEF collect_shared_statuses, memories, AskedFor
  <2>2. Answered
    BY <1>3, <1>19 DEF collect_shared_statuses
  <2>3. unread' \subseteq Posted
    BY <1>0, <2>1 DEF Holds
  <2>4. QED
    BY <1>4, <1>known, <2>1, <2>2, <2>3
<1>20. CASE run_search
  BY <1>2, <1>5, <1>20, <1>known DEF run_search
<1>21. ASSUME NEW s \in Account, run_source24(s) PROVE AskData'
  BY <1>2, <1>5, <1>21, <1>known DEF run_source24
<1>22. ASSUME NEW p \in Posted, run_selected_event(p) PROVE AskData'
  BY <1>5, <1>22, <1>known DEF run_selected_event
<1>23. ASSUME NEW P \in SUBSET Posted, run_shared_x_links(P) PROVE AskData'
  BY <1>5, <1>23, <1>known DEF run_shared_x_links
<1>24. ASSUME NEW t \in Pasted, run_manual_input(t) PROVE AskData'
  BY <1>5, <1>24, <1>known DEF run_manual_input
<1>25. CASE UNCHANGED askVars
  BY <1>0, <1>25 DEF askVars, AskData, Holds, Known, Account
<1>26. QED
  BY <1>7, <1>8, <1>9, <1>10, <1>11, <1>12, <1>13, <1>14, <1>15, <1>16, <1>17, <1>18, <1>19, <1>20,
     <1>21, <1>22, <1>23, <1>24, <1>25 DEF AskNext

(* The requests of the editor (personal_monitor.py) keep to the sources    *)
(* that were configured and to the posts they published.                   *)
LEMMA AskTypesHold == AskSpec => []AskTypes
<1>1. ASSUME AskInv, AskData PROVE AskTypes
  <2>1. ask.done \in BOOLEAN
    BY <1>1 DEF AskInv, AskShape, IsAsk, AskWith
  <2>2. QED
    BY <1>1, <2>1 DEF AskInv, AskShape, AskData, AskTypes
<1>2. QED
  BY <1>1, InitAskData, NextAskData, AskInvHolds, PTL DEF AskSpec

(* Whatever is asked in whatever order, with reads failing, X degraded and *)
(* other sources configured in between, an answer is for the whole of what *)
(* was asked or says what is missing, and a post remembered as read in a   *)
(* whole window was.                                                       *)
THEOREM RequestsStayHonest == AskSpec => []RequestsAreHonest
<1>1. AskInv => RequestsAreHonest
  BY DEF AskInv, RequestsAreHonest
<1>2. QED
  BY <1>1, AskInvHolds, PTL

----------------------------------------------------------------------------
(***************************************************************************)
(* The completeness engine (Evidence over Retrieval).                      *)
(***************************************************************************)

FetchWith(C, S, N, K, F, T, B, P, M, H) ==
  [caller : C, start : S, end : N, key : K, from : F, to : T, below : B, found : P, seen : M, phase : H]
IsFetch(f) ==
  f \in FetchWith({f.caller}, {f.start}, {f.end}, {f.key}, {f.from}, {f.to}, {f.below}, {f.found},
                  {f.seen}, {f.phase})

AttemptWith(O, R, P, V, E, S, B, N, X) ==
  [open : O, resumed : R, pages : P, valid : V, expected : E, seen : S, boundary : B, proven : N,
   exhausted : X]
IsAttempt(a) ==
  a \in AttemptWith({a.open}, {a.resumed}, {a.pages}, {a.valid}, {a.expected}, {a.seen},
                    {a.boundary}, {a.proven}, {a.exhausted})

EvidenceShape ==
  /\ clock \in Moment /\ cursor \in Int
  /\ IsFetch(fetch) /\ fetch.phase \in {"idle", "paging", "complete", "partial"}
  /\ IsAttempt(evidence) /\ evidence.pages \in Nat /\ evidence.seen \subseteq raws
  /\ through \in [from : Int, to : Int] /\ through.to <= clock

InWindow(f) == {t \in Moment : f.start <= t /\ t < f.end}

(* What the attempt a saw of a run f that began afresh: the posts converted *)
(* are kept; if every response was in order, the posts listed are all      *)
(* those above the provider's cursor, and all of the window once the       *)
(* boundary was listed or the timeline ended.                              *)
Collects(f, a) ==
  /\ f.below \in 0 .. LastTick
  /\ f.phase = "paging" => f.from = f.start /\ f.to = f.end /\ (a.pages = 0 => f.below = Top)
  /\ \A t \in a.seen : f.start <= t /\ t < f.end => t \in f.found
  /\ a.pages = 0 => ~a.proven /\ ~a.exhausted
  /\ a.valid /\ a.pages # 0 =>
       /\ \A t \in InWindow(f) : f.below <= t => t \in a.expected
       /\ a.proven \/ a.exhausted => InWindow(f) \subseteq a.expected

Spans(f) == f.start \in Moment /\ f.end \in Moment /\ f.start < f.end /\ f.end <= clock

RunInHand(f, a) ==
  f.phase # "idle" => Spans(f) /\ (~a.resumed => Collects(f, a))

Vouched == verdict = "complete" => fetch.phase = "complete" /\ ~evidence.open

EvidenceInv == EvidenceShape /\ RunInHand(fetch, evidence) /\ Vouched /\ EvidenceIsProof

(* A set of numbers has a least one, a bounded set of them a greatest.     *)
LEMMA LeastOf ==
  ASSUME NEW S \in SUBSET Nat, S # {}
  PROVE  Oldest(S) \in S /\ \A j \in S : Oldest(S) <= j
<1> DEFINE R == OpToRel(<, Nat)
<1>1. IsWellFoundedOn(R, Nat)
  BY NatLessThanWellFounded
<1>2. PICK m \in S : \A j \in S : <<j, m>> \notin R
  BY <1>1, WFMin
<1>3. \A j \in S : ~(j < m)
  BY <1>2 DEF OpToRel
<1>4. \A j \in S : m <= j
  BY <1>3
<1>5. QED
  BY <1>4 DEF Oldest

LEMMA GreatestOf ==
  ASSUME NEW N \in Nat, NEW S \in SUBSET (0 .. N), S # {}
  PROVE  \E t \in S : \A u \in S : t >= u
<1> DEFINE D == {N - t : t \in S}
<1>1. D \in SUBSET Nat /\ D # {}
  <2>1. \A t \in S : N - t \in Nat
    OBVIOUS
  <2>2. QED
    BY <2>1
<1> DEFINE m == Oldest(D)
<1>2. m \in D /\ \A j \in D : m <= j
  BY <1>1, LeastOf
<1>3. PICK t \in S : m = N - t
  BY <1>2
<1> HIDE DEF m
<1>4. \A u \in S : N - t <= N - u
  BY <1>2, <1>3
<1>5. t \in Int /\ \A u \in S : u \in Int
  OBVIOUS
<1>6. QED
  BY <1>4, <1>5

(* A page has every post between its oldest and the cursor it was asked    *)
(* for.                                                                    *)
LEMMA PageIsWhole ==
  ASSUME clock \in Moment, NEW b, NEW m \in PageBelow(b), NEW t \in 1 .. clock - 1, m <= t,
         b = Top \/ t < b
  PROVE  t \in PageBelow(b)
<1> DEFINE Above(s) == {u \in s + 1 .. clock - 1 : b = Top \/ u < b}
<1>1. m \in 1 .. clock - 1 /\ Cardinality(Above(m)) < PageSize
  BY DEF PageBelow
<1>2. clock \in Int /\ PageSize \in Int
  BY RetrievalConstants DEF Moment
<1>3. IsFiniteSet(m + 1 .. clock - 1)
  BY <1>1, <1>2, FS_Interval
<1>4. IsFiniteSet(Above(m))
  BY <1>3, FS_Subset
<1>5. Above(t) \subseteq Above(m)
  BY <1>1, <1>2
<1>6. Cardinality(Above(t)) <= Cardinality(Above(m)) /\ IsFiniteSet(Above(t))
  BY <1>4, <1>5, FS_Subset
<1>7. Cardinality(Above(t)) \in Nat /\ Cardinality(Above(m)) \in Nat
  BY <1>4, <1>6, FS_CardinalityType
<1> HIDE DEF Above
<1>8. Cardinality(Above(t)) < PageSize
  BY <1>1, <1>2, <1>6, <1>7
<1>9. QED
  BY <1>8 DEF PageBelow, Above

(* An empty page: no post is below the cursor.                             *)
LEMMA EmptyPage ==
  ASSUME clock \in Moment, NEW b \in 0 .. LastTick, PageBelow(b) = {}, NEW t \in 1 .. clock - 1
  PROVE  b # Top /\ b <= t
<1> SUFFICES ASSUME b = Top \/ t < b PROVE FALSE
  BY DEF Top
<1> DEFINE S == {u \in 1 .. clock - 1 : b = Top \/ u < b}
<1>1. clock \in Nat /\ LastTick \in Nat
  BY RetrievalConstants DEF Moment
<1>2. PICK g \in S : \A u \in S : g >= u
  <2>1. t \in S /\ S \in SUBSET (0 .. clock)
    BY <1>1
  <2> HIDE DEF S
  <2>2. QED
    BY <2>1, <1>1, GreatestOf
<1>3. {u \in g + 1 .. clock - 1 : b = Top \/ u < b} = {}
  BY <1>1, <1>2
<1>4. Cardinality({}) = 0 /\ PageSize > 0
  BY FS_EmptySet, RetrievalConstants
<1>5. g \in PageBelow(b)
  BY <1>2, <1>3, <1>4 DEF PageBelow
<1>6. QED
  BY <1>5

(* A page has posts that exist.                                            *)
LEMMA PagePosts == \A b : PageBelow(b) \subseteq 1 .. clock - 1
BY DEF PageBelow

(* What is converted are posts of the page.                                *)
LEMMA ConvertedPosts ==
  ASSUME clock \in Moment, NEW b, NEW r \in Readings(PageBelow(b))
  PROVE  /\ Converted(r) \subseteq r.posts /\ r.posts \subseteq PageBelow(b)
         /\ r.posts \subseteq 1 .. clock - 1
<1>1. clock \in Nat
  BY RetrievalConstants DEF Moment
<1>2. r.posts \subseteq PageBelow(b)
  BY DEF Readings
<1>3. r.posts \subseteq 1 .. clock - 1
  BY <1>2, PagePosts
<1> DEFINE older == {t \in r.posts : t < fetch.from}
<1>4. ASSUME older # {} PROVE (CHOOSE t \in older : \A u \in older : t >= u) \in older
  <2>1. older \in SUBSET (0 .. clock)
    BY <1>1, <1>3
  <2> HIDE DEF older
  <2>2. QED
    BY <1>1, <1>4, <2>1, GreatestOf
<1>5. Converted(r) \subseteq r.posts
  BY <1>4 DEF Converted
<1>6. QED
  BY <1>2, <1>3, <1>5

(* What a page adds to the posts listed so far, all those from the cursor  *)
(* on: it moves the cursor down, and a post listed before the window, or   *)
(* the end of the timeline, leaves nothing of the window unlisted.         *)
LEMMA PageLists ==
  ASSUME clock \in Moment, NEW f, Spans(f), f.below \in 0 .. LastTick, NEW E,
         f.below # Top => \A t \in InWindow(f) : f.below <= t => t \in E
  PROVE  LET page == PageBelow(f.below)
             down == IF page = {} THEN Top ELSE Oldest(page)
             listed == E \cup {t \in page : f.start <= t /\ t < f.end} IN
         /\ down \in 0 .. LastTick
         /\ \A t \in InWindow(f) : down <= t => t \in listed
         /\ (\E t \in page : t < f.start) \/ Exhausted(page) => InWindow(f) \subseteq listed
<1> DEFINE page == PageBelow(f.below)
           listed == E \cup {t \in page : f.start <= t /\ t < f.end}
           down == IF page = {} THEN Top ELSE Oldest(page)
<1>1. clock \in 1 .. LastTick /\ LastTick \in Nat
  BY RetrievalConstants DEF Moment
<1>2. page \subseteq 1 .. clock - 1
  BY PagePosts
<1>3. \A t \in InWindow(f) : t \in 1 .. clock - 1 /\ f.start <= t /\ t < f.end
  BY <1>1 DEF InWindow, Spans, Moment
<1>4. ASSUME NEW m \in page, NEW t \in InWindow(f), m <= t PROVE t \in listed
  <2>1. CASE f.below = Top \/ t < f.below
    BY <1>3, <1>4, <2>1, PageIsWhole
  <2>2. CASE f.below # Top /\ f.below <= t
    BY <2>2
  <2>3. f.below \in Int /\ t \in Int
    BY <1>1, <1>3
  <2>4. QED
    BY <2>1, <2>2, <2>3
<1>5. ASSUME page = {}, NEW t \in InWindow(f) PROVE t \in listed
  <2>1. f.below # Top /\ f.below <= t
    BY <1>3, <1>5, EmptyPage
  <2>2. QED
    BY <2>1
<1>6. page # {} => Oldest(page) \in page
  <2>1. page \in SUBSET Nat
    BY <1>1, <1>2
  <2> HIDE DEF page
  <2>2. QED
    BY <2>1, LeastOf
<1> HIDE DEF page, listed
<1>7. down \in 0 .. LastTick
  <2>1. CASE page = {}
    BY <1>1, <2>1 DEF Top
  <2>2. CASE page # {}
    <3>1. Oldest(page) \in 1 .. clock - 1
      BY <1>2, <1>6, <2>2
    <3>2. QED
      BY <1>1, <2>2, <3>1
  <2>3. QED
    BY <2>1, <2>2
<1>8. \A t \in InWindow(f) : down <= t => t \in listed
  BY <1>4, <1>5, <1>6
<1>9. ASSUME \E t \in page : t < f.start PROVE InWindow(f) \subseteq listed
  <2>1. PICK m \in page : m < f.start
    BY <1>9
  <2>2. m \in Int /\ f.start \in Int
    BY <1>1, <1>2 DEF Spans, Moment
  <2>3. \A t \in InWindow(f) : m <= t
    BY <1>1, <1>3, <2>1, <2>2
  <2>4. QED
    BY <1>4, <2>3
<1>10. ASSUME Exhausted(page) PROVE InWindow(f) \subseteq listed
  <2>1. CASE page = {}
    BY <1>5, <2>1
  <2>2. CASE 1 \in page
    BY <1>3, <1>4, <2>2
  <2>3. QED
    BY <1>10, <2>1, <2>2 DEF Exhausted
<1>11. QED
  BY <1>7, <1>8, <1>9, <1>10 DEF page, listed

(* The changes of a run and of an attempt.                                 *)
AtPage(f, P, M, B) == [f EXCEPT !.found = P, !.seen = M, !.below = B]
AtPhase(f, h) == [f EXCEPT !.phase = h]
AtSegment(f) == [f EXCEPT !.from = f.to, !.to = f.end, !.below = Top]
AtStall(f, B) == [f EXCEPT !.below = B, !.phase = "partial"]

LEMMA FetchChanges ==
  ASSUME NEW f, IsFetch(f)
  PROVE  /\ \A P, M, B : AtPage(f, P, M, B) \in
              FetchWith({f.caller}, {f.start}, {f.end}, {f.key}, {f.from}, {f.to}, {B}, {P}, {M}, {f.phase})
         /\ \A h : AtPhase(f, h) \in
              FetchWith({f.caller}, {f.start}, {f.end}, {f.key}, {f.from}, {f.to}, {f.below}, {f.found},
                        {f.seen}, {h})
         /\ AtSegment(f) \in
              FetchWith({f.caller}, {f.start}, {f.end}, {f.key}, {f.to}, {f.end}, {Top}, {f.found},
                        {f.seen}, {f.phase})
         /\ \A B : AtStall(f, B) \in
              FetchWith({f.caller}, {f.start}, {f.end}, {f.key}, {f.from}, {f.to}, {B}, {f.found},
                        {f.seen}, {"partial"})
BY DEF IsFetch, FetchWith, AtPage, AtPhase, AtSegment, AtStall

AtPageSeen(a, V, E, S, N) ==
  [a EXCEPT !.pages = @ + 1, !.valid = V, !.expected = E, !.seen = S, !.proven = N]
AtClose(a, B, X) == [a EXCEPT !.boundary = B, !.exhausted = X]
Shut(a) == [a EXCEPT !.open = FALSE]

LEMMA AttemptChanges ==
  ASSUME NEW a, IsAttempt(a)
  PROVE  /\ \A V, E, S, N : AtPageSeen(a, V, E, S, N) \in
              AttemptWith({a.open}, {a.resumed}, {a.pages + 1}, {V}, {E}, {S}, {a.boundary}, {N}, {a.exhausted})
         /\ \A B, X : AtClose(a, B, X) \in
              AttemptWith({a.open}, {a.resumed}, {a.pages}, {a.valid}, {a.expected}, {a.seen}, {B},
                          {a.proven}, {X})
         /\ Shut(a) \in
              AttemptWith({FALSE}, {a.resumed}, {a.pages}, {a.valid}, {a.expected}, {a.seen},
                          {a.boundary}, {a.proven}, {a.exhausted})
BY DEF IsAttempt, AttemptWith, AtPageSeen, AtClose, Shut

(* A page leaves the run with its window; begun afresh, it stays in its    *)
(* one segment.                                                            *)
LEMMA AfterPage ==
  ASSUME IsFetch(fetch), NEW page, NEW r
  PROVE  LET f == After(fetch, page, r) IN
         /\ IsFetch(f) /\ f.start = fetch.start /\ f.end = fetch.end /\ f.from = fetch.from
         /\ f.to = fetch.to /\ f.phase = fetch.phase /\ f.found = fetch.found \cup Kept(fetch, r)
         /\ f.below = IF page = {} THEN Top ELSE Oldest(page)
<1> DEFINE P == fetch.found \cup Kept(fetch, r)
           M == fetch.seen + Cardinality({t \in r.posts : t >= fetch.from})
                  + (IF Crossed(fetch, r) THEN 1 ELSE 0)
           B == IF page = {} THEN Top ELSE Oldest(page)
           f == After(fetch, page, r)
<1>1. f = AtPage(fetch, P, M, B)
  BY DEF After, AtPage
<1> HIDE DEF P, M, B, f
<1>2. f \in FetchWith({fetch.caller}, {fetch.start}, {fetch.end}, {fetch.key}, {fetch.from}, {fetch.to},
                      {B}, {P}, {M}, {fetch.phase})
  BY <1>1, FetchChanges
<1>3. /\ IsFetch(f) /\ f.start = fetch.start /\ f.end = fetch.end /\ f.from = fetch.from
      /\ f.to = fetch.to /\ f.phase = fetch.phase /\ f.found = P /\ f.below = B
  BY <1>2 DEF FetchWith, IsFetch
<1>4. QED
  BY <1>3 DEF P, B, f

(* So does a page and what follows from it, unless the run goes on to the *)
(* time since its checkpoint.                                              *)
LEMMA ReadRun ==
  ASSUME IsFetch(fetch), NEW r, ReadPage(r)
  PROVE  LET page == PageBelow(fetch.below) IN
         /\ fetch.phase = "paging" /\ r \in Readings(page)
         /\ UNCHANGED <<clock, cursor>>
         /\ IsFetch(fetch') /\ fetch'.start = fetch.start /\ fetch'.end = fetch.end
         /\ fetch'.phase \in {"paging", "complete", "partial"}
         /\ fetch'.found = fetch.found \cup Kept(fetch, r)
         /\ ~(fetch.end > fetch.to) =>
              /\ fetch'.from = fetch.from /\ fetch'.to = fetch.to
              /\ fetch'.below = IF page = {} THEN Top ELSE Oldest(page)
<1> DEFINE page == PageBelow(fetch.below)
           f == After(fetch, page, r)
           partial == IF f.seen >= Budget THEN "partial" ELSE f.phase
<1>1. /\ fetch.phase = "paging" /\ r \in Readings(page) /\ UNCHANGED <<clock, cursor>>
      /\ SegmentEnds(f) \/ SegmentContinues(f)
  BY DEF ReadPage
<1>2. \/ f.end > f.to /\ fetch' = AtSegment(f)
      \/ fetch' = AtPhase(f, "complete")
      \/ fetch' = AtPhase(f, partial)
  BY <1>1 DEF SegmentEnds, SegmentContinues, AtSegment, AtPhase
<1>3. /\ IsFetch(f) /\ f.start = fetch.start /\ f.end = fetch.end /\ f.from = fetch.from
      /\ f.to = fetch.to /\ f.phase = fetch.phase /\ f.found = fetch.found \cup Kept(fetch, r)
      /\ f.below = IF page = {} THEN Top ELSE Oldest(page)
  BY AfterPage
<1>4. partial \in {"paging", "partial"}
  BY <1>1, <1>3
<1> HIDE DEF f, partial
<1>5. ASSUME NEW h \in {"paging", "complete", "partial"}, fetch' = AtPhase(f, h)
      PROVE  /\ IsFetch(fetch') /\ fetch'.start = f.start /\ fetch'.end = f.end /\ fetch'.phase = h
             /\ fetch'.found = f.found /\ fetch'.from = f.from /\ fetch'.to = f.to
             /\ fetch'.below = f.below
  <2>1. fetch' \in FetchWith({f.caller}, {f.start}, {f.end}, {f.key}, {f.from}, {f.to}, {f.below}, {f.found},
                             {f.seen}, {h})
    BY <1>3, <1>5, FetchChanges
  <2>2. QED
    BY <2>1 DEF FetchWith, IsFetch
<1>6. ASSUME fetch' = AtSegment(f)
      PROVE  /\ IsFetch(fetch') /\ fetch'.start = f.start /\ fetch'.end = f.end
             /\ fetch'.phase = f.phase /\ fetch'.found = f.found
  <2>1. fetch' \in FetchWith({f.caller}, {f.start}, {f.end}, {f.key}, {f.to}, {f.end}, {Top}, {f.found},
                             {f.seen}, {f.phase})
    BY <1>3, <1>6, FetchChanges
  <2>2. QED
    BY <2>1 DEF FetchWith, IsFetch
<1>7. CASE f.end > f.to /\ fetch' = AtSegment(f)
  BY <1>1, <1>3, <1>6, <1>7
<1>8. CASE fetch' = AtPhase(f, "complete")
  BY <1>1, <1>3, <1>5, <1>8
<1>9. CASE fetch' = AtPhase(f, partial)
  BY <1>1, <1>3, <1>4, <1>5, <1>9
<1>10. QED
  BY <1>2, <1>7, <1>8, <1>9

(* What an attempt has after a page, whether or not the run ended with it. *)
Watched(a, n, page, r, valid) ==
  /\ IsAttempt(n) /\ n.resumed = a.resumed /\ n.pages = a.pages + 1
  /\ n.valid => valid /\ (a.pages = 0 \/ a.valid)
  /\ n.expected = IF valid THEN a.expected \cup {t \in page : fetch.start <= t /\ t < fetch.end}
                  ELSE a.expected
  /\ n.seen = a.seen \cup Converted(r)
  /\ n.proven => a.proven \/ \E t \in page : t < fetch.start
  /\ n.exhausted => a.exhausted \/ Exhausted(page)

(* Both ways to take note of a page are of that kind.                      *)
LEMMA ObservedWatches ==
  ASSUME NEW a, IsAttempt(a), NEW page, NEW r, NEW valid \in BOOLEAN
  PROVE  Watched(a, Observed(a, page, r, valid), page, r, valid)
<1> DEFINE V == valid /\ (a.pages = 0 \/ a.valid)
           E == IF valid THEN a.expected \cup {t \in page : fetch.start <= t /\ t < fetch.end}
                ELSE a.expected
           S == a.seen \cup Converted(r)
           N == a.proven \/ (valid /\ \E t \in page : t < fetch.start)
           n == Observed(a, page, r, valid)
<1>1. n = AtPageSeen(a, V, E, S, N)
  BY DEF Observed, AtPageSeen
<1> HIDE DEF V, E, S, N, n
<1>2. n \in AttemptWith({a.open}, {a.resumed}, {a.pages + 1}, {V}, {E}, {S}, {a.boundary}, {N}, {a.exhausted})
  BY <1>1, AttemptChanges
<1>3. /\ IsAttempt(n) /\ n.resumed = a.resumed /\ n.pages = a.pages + 1 /\ n.valid = V
      /\ n.expected = E /\ n.seen = S /\ n.proven = N /\ n.exhausted = a.exhausted
  BY <1>2 DEF AttemptWith, IsAttempt
<1>4. QED
  BY <1>3 DEF Watched, V, E, S, N, n

LEMMA ClosingWatches ==
  ASSUME NEW a, IsAttempt(a), NEW page, NEW r, NEW valid \in BOOLEAN
  PROVE  Watched(a, Closing(a, page, r, valid), page, r, valid)
<1> DEFINE o == Observed(a, page, r, valid)
           B == Crossed(fetch, r)
           X == valid /\ Exhausted(page)
           n == Closing(a, page, r, valid)
<1>1. n = AtClose(o, B, X)
  BY DEF Closing, AtClose
<1>2. Watched(a, o, page, r, valid)
  BY ObservedWatches
<1> HIDE DEF o, B, X, n
<1>3. n \in AttemptWith({o.open}, {o.resumed}, {o.pages}, {o.valid}, {o.expected}, {o.seen}, {B},
                        {o.proven}, {X})
  BY <1>1, <1>2, AttemptChanges DEF Watched
<1>4. /\ IsAttempt(n) /\ n.resumed = o.resumed /\ n.pages = o.pages /\ n.valid = o.valid
      /\ n.expected = o.expected /\ n.seen = o.seen /\ n.proven = o.proven /\ n.exhausted = X
  BY <1>3 DEF AttemptWith, IsAttempt
<1>5. QED
  BY <1>2, <1>4 DEF Watched, X, n

(* A page read, with the cursor moved down or left where it was, keeps what *)
(* the attempt has collected.                                              *)
LEMMA PageCollects ==
  ASSUME clock \in Moment, Spans(fetch), fetch.phase = "paging", IsAttempt(evidence),
         evidence.pages \in Nat, Collects(fetch, evidence), NEW valid \in BOOLEAN,
         NEW r \in Readings(PageBelow(fetch.below)), NEW g, NEW n,
         Watched(evidence, n, PageBelow(fetch.below), r, valid),
         g.start = fetch.start, g.end = fetch.end, g.from = fetch.from, g.to = fetch.to,
         g.found = fetch.found \cup Kept(fetch, r),
         \/ g.below = IF PageBelow(fetch.below) = {} THEN Top ELSE Oldest(PageBelow(fetch.below))
         \/ g.below = fetch.below /\ fetch.below # Top
  PROVE  Collects(g, n)
<1> DEFINE page == PageBelow(fetch.below)
           down == IF page = {} THEN Top ELSE Oldest(page)
           listed == evidence.expected \cup {t \in page : fetch.start <= t /\ t < fetch.end}
<1>1. InWindow(g) = InWindow(fetch)
  BY DEF InWindow
<1>2. /\ fetch.below \in 0 .. LastTick /\ fetch.from = fetch.start /\ fetch.to = fetch.end
      /\ evidence.pages = 0 => fetch.below = Top
      /\ \A t \in evidence.seen : fetch.start <= t /\ t < fetch.end => t \in fetch.found
      /\ evidence.pages = 0 => ~evidence.proven /\ ~evidence.exhausted
      /\ evidence.valid /\ evidence.pages # 0 =>
           /\ \A t \in InWindow(fetch) : fetch.below <= t => t \in evidence.expected
           /\ evidence.proven \/ evidence.exhausted => InWindow(fetch) \subseteq evidence.expected
  BY DEF Collects
<1>3. n.pages = evidence.pages + 1 /\ n.pages # 0
  BY DEF Watched
<1>4. \A t \in n.seen : g.start <= t /\ t < g.end => t \in g.found
  <2> SUFFICES ASSUME NEW t \in n.seen, fetch.start <= t, t < fetch.end PROVE t \in g.found
    OBVIOUS
  <2>1. CASE t \in evidence.seen
    BY <1>2, <2>1
  <2>2. CASE t \in Converted(r)
    <3>1. t \in r.posts
      BY <2>2, ConvertedPosts
    <3>2. t \in Kept(fetch, r)
      BY <1>2, <3>1 DEF Kept
    <3>3. QED
      BY <3>2
  <2>3. QED
    BY <2>1, <2>2 DEF Watched
<1>5. ASSUME n.valid
      PROVE  /\ \A t \in InWindow(g) : g.below <= t => t \in n.expected
             /\ n.proven \/ n.exhausted => InWindow(g) \subseteq n.expected
  <2>1. /\ valid /\ (evidence.pages = 0 \/ evidence.valid)
        /\ n.expected = listed
        /\ n.proven => evidence.proven \/ \E t \in page : t < fetch.start
        /\ n.exhausted => evidence.exhausted \/ Exhausted(page)
    BY <1>5 DEF Watched
  <2>2. fetch.below # Top => \A t \in InWindow(fetch) : fetch.below <= t => t \in evidence.expected
    BY <1>2, <2>1
  <2>3. /\ \A t \in InWindow(fetch) : down <= t => t \in listed
        /\ (\E t \in page : t < fetch.start) \/ Exhausted(page) => InWindow(fetch) \subseteq listed
    BY <1>2, <2>2, PageLists
  <2>4. evidence.proven \/ evidence.exhausted => InWindow(fetch) \subseteq evidence.expected
    BY <1>2, <2>1
  <2>5. evidence.expected \subseteq listed
    OBVIOUS
  <2>6. g.below = down \/ (g.below = fetch.below /\ fetch.below # Top)
    OBVIOUS
  <2> HIDE DEF page, down, listed
  <2>7. \A t \in InWindow(g) : g.below <= t => t \in n.expected
    BY <1>1, <2>1, <2>2, <2>3, <2>5, <2>6
  <2>8. ASSUME n.proven \/ n.exhausted PROVE InWindow(g) \subseteq n.expected
    <3>1. InWindow(fetch) \subseteq listed
      BY <2>1, <2>3, <2>4, <2>5, <2>8
    <3>2. QED
      BY <1>1, <2>1, <3>1
  <2>9. QED
    BY <2>7, <2>8
<1>6. g.below \in 0 .. LastTick
  <2>1. down \in 0 .. LastTick
    <3> DEFINE E == InWindow(fetch)
    <3>1. fetch.below # Top => \A t \in InWindow(fetch) : fetch.below <= t => t \in E
      OBVIOUS
    <3> HIDE DEF E
    <3>2. QED
      BY <1>2, <3>1, PageLists
  <2>2. QED
    BY <1>2, <2>1
<1>7. QED
  BY <1>2, <1>3, <1>4, <1>5, <1>6 DEF Collects

(* What is proven of earlier windows does not depend on the clock.         *)
LEMMA ProvenStays ==
  ASSUME clock \in Moment, clock' \in Moment, clock <= clock', raws \subseteq raws', through' = through,
         through \in [from : Int, to : Int], through.to <= clock,
         Published(through.from, through.to) \subseteq raws
  PROVE  (Published(through.from, through.to) \subseteq raws)' /\ through'.to <= clock'
<1>1. clock \in Int /\ clock' \in Int /\ through.from \in Int /\ through.to \in Int
  BY DEF Moment
<1>2. \A t \in Moment : through.from <= t /\ t < through.to /\ t < clock' => t < clock
  BY <1>1 DEF Moment
<1>3. \A t \in Moment : through.from <= t /\ t < through.to /\ t < clock' => t \in raws'
  BY <1>2 DEF Published
<1>4. Published(through.from, through.to)' =
        {t \in Moment : through.from <= t /\ t < through.to /\ t < clock'}
  BY DEF Published
<1>5. Published(through.from, through.to)' \subseteq raws'
  BY <1>3, <1>4
<1>6. through'.to <= clock'
  BY <1>1
<1>7. QED
  BY <1>5, <1>6

(* Nothing is read and nothing vouched for.                                *)
LEMMA InitEvidence == EvidenceInit => EvidenceInv
<1> SUFFICES ASSUME EvidenceInit PROVE EvidenceInv
  OBVIOUS
<1>1. /\ clock = 1 /\ cursor = 1 /\ fetch = NoFetch /\ evidence = NoAttempt /\ raws = {}
      /\ through = [from |-> 0, to |-> 0]
  BY DEF EvidenceInit, FetchInit
<1>2. LastTick \in Nat \ {0}
  BY RetrievalConstants
<1>3. IsFetch(fetch) /\ fetch.phase = "idle"
  BY <1>1 DEF NoFetch, IsFetch, FetchWith
<1>4. IsAttempt(evidence) /\ evidence.pages = 0 /\ evidence.seen = {}
  BY <1>1 DEF NoAttempt, IsAttempt, AttemptWith
<1>5. through \in [from : Int, to : Int] /\ through.from = 0 /\ through.to = 0
  BY <1>1
<1>6. EvidenceShape
  BY <1>1, <1>2, <1>3, <1>4, <1>5 DEF EvidenceShape, Moment
<1>7. verdict # "complete"
  <2>1. verdict = ""
    BY DEF EvidenceInit
  <2>2. QED
    BY <2>1, Zenon
<1>8. Published(through.from, through.to) = {}
  BY <1>1, <1>5 DEF Published, Moment
<1>9. QED
  BY <1>3, <1>6, <1>7, <1>8 DEF EvidenceInv, RunInHand, Vouched, EvidenceIsProof

(* One step per action; <1>page is what reading a page and a cursor that   *)
(* stalls have in common.                                                  *)
LEMMA NextEvidence == EvidenceInv /\ [EvidenceNext]_evidenceVars => EvidenceInv'
<1> SUFFICES ASSUME EvidenceInv, [EvidenceNext]_evidenceVars PROVE EvidenceInv'
  OBVIOUS
<1>inv. /\ clock \in Moment /\ cursor \in Int
        /\ IsFetch(fetch) /\ fetch.phase \in {"idle", "paging", "complete", "partial"}
        /\ IsAttempt(evidence) /\ evidence.pages \in Nat /\ evidence.seen \subseteq raws
        /\ through \in [from : Int, to : Int] /\ through.to <= clock
        /\ RunInHand(fetch, evidence) /\ Vouched
        /\ Published(through.from, through.to) \subseteq raws
  BY DEF EvidenceInv, EvidenceShape, EvidenceIsProof
<1>proven. ASSUME clock' = clock, raws \subseteq raws', through' = through
           PROVE  (Published(through.from, through.to) \subseteq raws)' /\ through'.to <= clock'
  <2>1. clock' \in Moment /\ clock <= clock'
    BY <1>inv, <1>proven DEF Moment
  <2>2. QED
    BY <1>inv, <1>proven, <2>1, ProvenStays
<1>spans. \A f : f.start = fetch.start /\ f.end = fetch.end /\ Spans(fetch) /\ clock' = clock => Spans(f)'
  BY DEF Spans
<1>empty. /\ NoFetch.phase = "idle" /\ IsFetch(NoFetch)
          /\ IsAttempt(NoAttempt) /\ NoAttempt.pages = 0 /\ NoAttempt.seen = {}
          /\ ~NoAttempt.valid /\ ~NoAttempt.proven /\ ~NoAttempt.exhausted
  <2>1. NoFetch.phase = "idle" /\ IsFetch(NoFetch)
    BY DEF NoFetch, IsFetch, FetchWith
  <2>2. IsAttempt(NoAttempt)
    BY DEF NoAttempt, IsAttempt, AttemptWith
  <2>3. NoAttempt.pages = 0 /\ NoAttempt.seen = {}
    BY DEF NoAttempt
  <2>4. ~NoAttempt.valid /\ ~NoAttempt.proven /\ ~NoAttempt.exhausted
    BY DEF NoAttempt
  <2>5. QED
    BY <2>1, <2>2, <2>3, <2>4
<1>reset. ASSUME UNCHANGED <<clock, raws, through>>, cursor' \in Int, fetch' = NoFetch,
                 verdict' = "", evidence' = NoAttempt
          PROVE  EvidenceInv'
  <2>1. verdict' # "complete"
    <3>1. verdict' = ""
      BY <1>reset
    <3>2. QED
      BY <3>1, Zenon
  <2>2. (Published(through.from, through.to) \subseteq raws)' /\ through'.to <= clock'
    BY <1>reset, <1>proven
  <2>same. clock' = clock /\ raws' = raws /\ through' = through /\ cursor' \in Int
           /\ fetch' = NoFetch /\ evidence' = NoAttempt
    BY <1>reset, Zenon
  <2>3. EvidenceShape'
    <3>1. clock' \in Moment /\ cursor' \in Int /\ through' \in [from : Int, to : Int]
      BY <1>inv, <2>same
    <3>2. IsFetch(fetch') /\ fetch'.phase \in {"idle", "paging", "complete", "partial"}
      BY <1>empty, <2>same
    <3>3. IsAttempt(evidence') /\ evidence'.pages \in Nat /\ evidence'.seen \subseteq raws'
      BY <1>empty, <2>same
    <3>4. QED
      BY <2>2, <3>1, <3>2, <3>3 DEF EvidenceShape, IsFetch, IsAttempt
  <2>4. RunInHand(fetch, evidence)' /\ Vouched' /\ EvidenceIsProof'
    BY <1>reset, <1>empty, <2>1, <2>2 DEF RunInHand, Vouched, EvidenceIsProof
  <2>5. QED
    BY <2>3, <2>4 DEF EvidenceInv
<1>1. CASE PostAppears /\ Ignored
  <2>1. /\ clock < LastTick /\ clock' = clock + 1
        /\ UNCHANGED <<cursor, fetch, raws, evidence, verdict, through>>
    BY <1>1 DEF PostAppears, Ignored
  <2>2. clock' \in Moment /\ clock <= clock' /\ clock \in Int
    BY <1>inv, <2>1, RetrievalConstants DEF Moment
  <2>3. (Published(through.from, through.to) \subseteq raws)' /\ through'.to <= clock'
    BY <1>inv, <2>1, <2>2, ProvenStays
  <2>4. EvidenceShape'
    BY <1>inv, <2>1, <2>2, <2>3 DEF EvidenceShape
  <2>5. fetch.phase # "idle" => Spans(fetch)'
    BY <1>inv, <2>1, <2>2 DEF RunInHand, Spans, Moment
  <2>6. RunInHand(fetch, evidence)'
    BY <1>inv, <2>1, <2>5 DEF RunInHand, Collects, InWindow
  <2>7. EvidenceIsProof'
    <3>1. ASSUME verdict = "complete" PROVE (Published(fetch.start, fetch.end) \subseteq fetch.found)'
      <4>1. Published(fetch.start, fetch.end) \subseteq fetch.found /\ Spans(fetch)
        BY <1>inv, <3>1 DEF EvidenceInv, EvidenceIsProof, RunInHand, Vouched
      <4>2. fetch.end <= clock /\ fetch.end \in Int
        BY <4>1 DEF Spans, Moment
      <4>3. Published(fetch.start, fetch.end)' =
              {t \in Moment : fetch.start <= t /\ t < fetch.end /\ t < clock'}
        BY <2>1 DEF Published
      <4>4. \A t \in Moment : t < fetch.end => t < clock
        BY <2>2, <4>2 DEF Moment
      <4>5. QED
        BY <2>1, <4>1, <4>3, <4>4 DEF Published
    <3>2. QED
      BY <2>1, <2>3, <3>1 DEF EvidenceIsProof
  <2>8. Vouched'
    BY <1>inv, <2>1 DEF Vouched
  <2>9. QED
    BY <2>4, <2>6, <2>7, <2>8 DEF EvidenceInv
<1>2. CASE Attempt
  <2>1. PICK caller \in Callers :
          /\ WindowStart(caller) < clock
          /\ fetch' = RunFor(caller, WindowStart(caller), clock)
    BY <1>2 DEF Attempt, Begin
  <2>2. fetch.phase = "idle" /\ UNCHANGED <<clock, cursor, raws, verdict, through>>
    BY <1>2 DEF Attempt, Begin
  <2> DEFINE start == WindowStart(caller)
             again == Continues(fetch'.caller, fetch'.start, fetch'.end)
             fresh == FreshRun(caller, start, clock)
  <2>3. start \in Moment
    <3>1. clock \in 1 .. LastTick /\ LastTick \in Nat /\ cursor \in Int /\ Rescan \in Nat /\ Hours \in Nat
      BY <1>inv, RetrievalConstants DEF Moment
    <3>2. start \in Int /\ start >= 1 /\ start < clock
      BY <2>1, <3>1 DEF WindowStart, Greater
    <3> HIDE DEF start
    <3>3. QED
      BY <3>1, <3>2 DEF Moment
  <2> HIDE DEF start
  <2>4. /\ IsFetch(fetch') /\ fetch'.start = start /\ fetch'.end = clock /\ fetch'.phase = "paging"
        /\ fetch'.caller = caller
        /\ ~again => fetch'.from = start /\ fetch'.to = clock /\ fetch'.below = Top
    <3> DEFINE k == Oldest(Candidates(caller, start, clock))
               c == checkpoints[k]
    <3>1. fresh \in FetchWith({caller}, {start}, {clock}, {start}, {start}, {clock}, {Top}, {{}}, {0}, {"paging"})
      BY DEF FreshRun, FetchWith
    <3>2. CASE ~Continues(caller, start, clock)
      <4>1. fetch' = fresh
        BY <2>1, <3>2 DEF RunFor, start
      <4> HIDE DEF fresh
      <4>2. QED
        BY <3>1, <4>1 DEF FetchWith, IsFetch
    <3>3. CASE Continues(caller, start, clock)
      <4>1. fetch' = Resumed(caller, start, clock, k)
        BY <2>1, <3>3 DEF RunFor, start
      <4>2. fetch' = [fresh EXCEPT !.key = k, !.from = c.from, !.to = c.to, !.below = c.below,
                                   !.found = c.found]
        BY <4>1 DEF Resumed
      <4> HIDE DEF fresh, k, c
      <4>3. fetch' \in FetchWith({caller}, {start}, {clock}, {k}, {c.from}, {c.to}, {c.below}, {c.found},
                                 {0}, {"paging"})
        BY <3>1, <4>2 DEF FetchWith
      <4>4. IsFetch(fetch') /\ fetch'.start = start /\ fetch'.end = clock /\ fetch'.phase = "paging"
            /\ fetch'.caller = caller
        BY <4>3 DEF FetchWith, IsFetch
      <4>5. QED
        BY <3>3, <4>4
    <3>4. QED
      BY <3>2, <3>3
  <2>5. /\ IsAttempt(evidence') /\ evidence'.pages = 0 /\ evidence'.seen = {} /\ evidence'.resumed = again
        /\ ~evidence'.valid /\ ~evidence'.proven /\ ~evidence'.exhausted
    <3>1. evidence' = [NoAttempt EXCEPT !.open = TRUE, !.resumed = again]
      BY <1>2 DEF Attempt
    <3> HIDE DEF again
    <3>2. evidence' \in AttemptWith({TRUE}, {again}, {0}, {FALSE}, {{}}, {{}}, {FALSE}, {FALSE}, {FALSE})
      BY <3>1 DEF NoAttempt, AttemptWith
    <3>3. QED
      BY <3>2 DEF AttemptWith, IsAttempt
  <2>6. Spans(fetch)'
    BY <1>inv, <2>1, <2>2, <2>3, <2>4 DEF Spans, Moment, start
  <2>7. ~evidence'.resumed => Collects(fetch', evidence')
    <3>1. Top \in 0 .. LastTick
      BY RetrievalConstants DEF Top
    <3> HIDE DEF again
    <3>2. QED
      BY <2>4, <2>5, <3>1 DEF Collects
  <2>8. RunInHand(fetch, evidence)'
    BY <2>6, <2>7 DEF RunInHand, Collects, InWindow
  <2>9. verdict' # "complete"
    BY <1>inv, <2>2 DEF Vouched
  <2>10. (Published(through.from, through.to) \subseteq raws)' /\ through'.to <= clock'
    BY <2>2, <1>proven
  <2>11. EvidenceShape'
    BY <1>inv, <2>2, <2>4, <2>5, <2>10 DEF EvidenceShape
  <2>12. QED
    BY <2>8, <2>9, <2>10, <2>11 DEF EvidenceInv, Vouched, EvidenceIsProof
<1>page. ASSUME NEW r \in Readings(PageBelow(fetch.below)), NEW valid \in BOOLEAN, fetch.phase = "paging",
                Watched(evidence, evidence', PageBelow(fetch.below), r, valid),
                UNCHANGED <<clock, cursor, verdict, through>>, raws' = raws \cup Converted(r),
                IsFetch(fetch'), fetch'.start = fetch.start, fetch'.end = fetch.end,
                fetch'.phase \in {"paging", "complete", "partial"},
                fetch'.found = fetch.found \cup Kept(fetch, r),
                ~(fetch.end > fetch.to) =>
                  /\ fetch'.from = fetch.from /\ fetch'.to = fetch.to
                  /\ \/ fetch'.below = IF PageBelow(fetch.below) = {} THEN Top
                                       ELSE Oldest(PageBelow(fetch.below))
                     \/ fetch'.below = fetch.below /\ fetch.below # Top
         PROVE  EvidenceInv'
  <2>1. Spans(fetch) /\ (~evidence.resumed => Collects(fetch, evidence))
    BY <1>inv, <1>page DEF RunInHand
  <2>2. evidence'.resumed = evidence.resumed /\ IsAttempt(evidence') /\ evidence'.pages \in Nat
        /\ evidence'.seen \subseteq raws'
    BY <1>inv, <1>page DEF Watched
  <2>3. ASSUME ~evidence.resumed PROVE Collects(fetch', evidence')
    <3>1. fetch.from = fetch.start /\ ~(fetch.end > fetch.to)
      BY <1>page, <2>1, <2>3 DEF Collects, Spans, Moment
    <3>2. QED
      BY <1>inv, <1>page, <2>1, <2>3, <3>1, PageCollects
  <2>4. Spans(fetch)'
    BY <1>page, <2>1 DEF Spans
  <2>5. RunInHand(fetch, evidence)'
    BY <2>2, <2>3, <2>4 DEF RunInHand, Collects, InWindow
  <2>6. verdict' # "complete"
    BY <1>inv, <1>page DEF Vouched
  <2>7. (Published(through.from, through.to) \subseteq raws)' /\ through'.to <= clock'
    <3>1. clock' = clock /\ raws \subseteq raws' /\ through' = through
      BY <1>page
    <3>2. QED
      BY <3>1, <1>proven
  <2>8. EvidenceShape'
    BY <1>inv, <1>page, <2>2, <2>7 DEF EvidenceShape
  <2>9. QED
    BY <2>5, <2>6, <2>7, <2>8 DEF EvidenceInv, Vouched, EvidenceIsProof
<1>3. CASE ReadObserved
  <2> DEFINE page == PageBelow(fetch.below)
  <2>1. PICK r \in Readings(page), valid \in BOOLEAN :
          /\ ReadPage(r) /\ raws' = raws \cup Converted(r)
          /\ evidence' = IF fetch'.phase = "complete" THEN Closing(evidence, page, r, valid)
                         ELSE Observed(evidence, page, r, valid)
    BY <1>3 DEF ReadObserved
  <2>2. UNCHANGED <<verdict, through>>
    BY <1>3 DEF ReadObserved
  <2>3. Watched(evidence, evidence', page, r, valid)
    BY <1>inv, <2>1, ObservedWatches, ClosingWatches
  <2>4. /\ fetch.phase = "paging" /\ UNCHANGED <<clock, cursor>>
        /\ IsFetch(fetch') /\ fetch'.start = fetch.start /\ fetch'.end = fetch.end
        /\ fetch'.phase \in {"paging", "complete", "partial"}
        /\ fetch'.found = fetch.found \cup Kept(fetch, r)
        /\ ~(fetch.end > fetch.to) =>
             /\ fetch'.from = fetch.from /\ fetch'.to = fetch.to
             /\ fetch'.below = IF page = {} THEN Top ELSE Oldest(page)
    BY <1>inv, <2>1, ReadRun
  <2>5. QED
    BY <2>1, <2>2, <2>3, <2>4, <1>page
<1>4. CASE StallObserved
  <2> DEFINE page == PageBelow(fetch.below)
             r == [posts |-> page, stray |-> FALSE, bare |-> FALSE]
             f == After(fetch, page, r)
  <2>1. /\ fetch.phase = "paging" /\ fetch.below # Top /\ fetch' = AtStall(f, fetch.below)
        /\ raws' = raws \cup Converted(r) /\ evidence' = Observed(evidence, page, r, TRUE)
        /\ UNCHANGED <<clock, cursor, verdict, through>>
    BY <1>4 DEF StallObserved, CursorStalls, AtStall
  <2>2. r \in Readings(page)
    BY DEF Readings
  <2>3. Watched(evidence, evidence', page, r, TRUE)
    BY <1>inv, <2>1, ObservedWatches
  <2>4. /\ IsFetch(f) /\ f.start = fetch.start /\ f.end = fetch.end /\ f.from = fetch.from
        /\ f.to = fetch.to /\ f.found = fetch.found \cup Kept(fetch, r)
    BY <1>inv, AfterPage
  <2> HIDE DEF f, r
  <2>5. fetch' \in FetchWith({f.caller}, {f.start}, {f.end}, {f.key}, {f.from}, {f.to}, {fetch.below},
                             {f.found}, {f.seen}, {"partial"})
    BY <2>1, <2>4, FetchChanges
  <2>6. /\ IsFetch(fetch') /\ fetch'.start = f.start /\ fetch'.end = f.end /\ fetch'.phase = "partial"
        /\ fetch'.found = f.found /\ fetch'.from = f.from /\ fetch'.to = f.to
        /\ fetch'.below = fetch.below
    BY <2>5 DEF FetchWith, IsFetch
  <2>7. QED
    BY <2>1, <2>2, <2>3, <2>4, <2>6, <1>page
<1>5. CASE PageFails /\ Ignored
  <2>1. PICK recovered : fetch' = [fetch EXCEPT !.found = @ \cup recovered, !.phase = "partial"]
    BY <1>5 DEF PageFails
  <2>2. fetch.phase = "paging" /\ UNCHANGED <<clock, cursor, raws, evidence, verdict, through>>
    BY <1>5 DEF PageFails, Ignored
  <2>3. /\ IsFetch(fetch') /\ fetch'.start = fetch.start /\ fetch'.end = fetch.end
        /\ fetch'.below = fetch.below /\ fetch'.phase = "partial"
        /\ fetch'.found = fetch.found \cup recovered
    <3> DEFINE P == fetch.found \cup recovered
    <3>1. fetch' = [fetch EXCEPT !.found = P, !.phase = "partial"]
      BY <2>1
    <3> HIDE DEF P
    <3>2. fetch' \in FetchWith({fetch.caller}, {fetch.start}, {fetch.end}, {fetch.key}, {fetch.from},
                               {fetch.to}, {fetch.below}, {P}, {fetch.seen}, {"partial"})
      BY <1>inv, <3>1 DEF FetchWith, IsFetch
    <3>3. IsFetch(fetch') /\ fetch'.start = fetch.start /\ fetch'.end = fetch.end
          /\ fetch'.below = fetch.below /\ fetch'.phase = "partial" /\ fetch'.found = P
      BY <3>2 DEF FetchWith, IsFetch
    <3>4. QED
      BY <3>3 DEF P
  <2>4. Spans(fetch) /\ (~evidence.resumed => Collects(fetch, evidence))
    BY <1>inv, <2>2 DEF RunInHand
  <2>5. ASSUME Collects(fetch, evidence) PROVE Collects(fetch', evidence)
    BY <2>3, <2>5 DEF Collects, InWindow
  <2>6. Spans(fetch)'
    BY <2>2, <2>3, <2>4 DEF Spans
  <2>7. RunInHand(fetch, evidence)'
    BY <2>2, <2>4, <2>5, <2>6 DEF RunInHand, Collects, InWindow
  <2>8. verdict' # "complete"
    BY <1>inv, <2>2 DEF Vouched
  <2>9. (Published(through.from, through.to) \subseteq raws)' /\ through'.to <= clock'
    BY <2>2, <1>proven
  <2>10. EvidenceShape'
    BY <1>inv, <2>2, <2>3, <2>9 DEF EvidenceShape
  <2>11. QED
    BY <2>7, <2>8, <2>9, <2>10 DEF EvidenceInv, Vouched, EvidenceIsProof
<1>6. CASE CutShort
  BY <1>6, <1>inv, <1>reset DEF CutShort, Cut
<1>7. CASE Conclude
  <2>1. /\ fetch.phase \in {"complete", "partial"} /\ evidence' = Shut(evidence)
        /\ UNCHANGED <<clock, cursor, fetch, raws>>
        /\ through' = IF verdict' = "complete" THEN Extended ELSE through
        /\ \E core \in BOOLEAN : verdict' = Verdict(evidence, core)
    BY <1>7 DEF Conclude, fetchVars, Shut
  <2>2. Spans(fetch) /\ (~evidence.resumed => Collects(fetch, evidence))
    BY <1>inv, <2>1 DEF RunInHand
  <2>3. /\ IsAttempt(evidence') /\ evidence'.open = FALSE /\ evidence'.resumed = evidence.resumed
        /\ evidence'.pages = evidence.pages /\ evidence'.valid = evidence.valid
        /\ evidence'.expected = evidence.expected /\ evidence'.seen = evidence.seen
        /\ evidence'.proven = evidence.proven /\ evidence'.exhausted = evidence.exhausted
    <3>1. evidence' \in AttemptWith({FALSE}, {evidence.resumed}, {evidence.pages}, {evidence.valid},
                                    {evidence.expected}, {evidence.seen}, {evidence.boundary},
                                    {evidence.proven}, {evidence.exhausted})
      BY <1>inv, <2>1, AttemptChanges
    <3>2. QED
      BY <3>1 DEF AttemptWith, IsAttempt
  <2>4. RunInHand(fetch, evidence)'
    <3>1. Collects(fetch, evidence) => Collects(fetch', evidence')
      BY <2>1, <2>3 DEF Collects, InWindow
    <3>2. Spans(fetch)'
      BY <2>1, <2>2 DEF Spans
    <3>3. QED
      BY <2>2, <2>3, <3>1, <3>2 DEF RunInHand, Collects, InWindow
  <2>5. ASSUME verdict' = "complete"
        PROVE  /\ fetch.phase = "complete"
               /\ Published(fetch.start, fetch.end) \subseteq fetch.found
               /\ Published(fetch.start, fetch.end) \subseteq raws
    <3>1. Proven(evidence)
      BY <2>1, <2>5 DEF Verdict
    <3>2. /\ fetch.phase = "complete" /\ evidence.pages # 0 /\ evidence.valid
          /\ evidence.expected \subseteq evidence.seen
          /\ evidence.exhausted \/ evidence.proven
          /\ ~evidence.resumed
      BY <3>1, <1>inv DEF Proven
    <3>3. InWindow(fetch) \subseteq evidence.seen
          /\ \A t \in evidence.seen : fetch.start <= t /\ t < fetch.end => t \in fetch.found
      BY <2>2, <3>2 DEF Collects
    <3>4. Published(fetch.start, fetch.end) \subseteq InWindow(fetch)
      BY DEF Published, InWindow
    <3>5. QED
      BY <1>inv, <3>2, <3>3, <3>4 DEF InWindow
  <2>6. /\ through' \in [from : Int, to : Int] /\ through'.to <= clock
        /\ Published(through'.from, through'.to) \subseteq raws
    <3>1. CASE through' = through
      BY <1>inv, <3>1
    <3>2. ASSUME through' # through
          PROVE  verdict' = "complete" /\ through' = Extended
      BY <2>1, <3>2
    <3>3. CASE through' # through /\ through' = [from |-> fetch.start, to |-> fetch.end]
      <4>1. through'.from = fetch.start /\ through'.to = fetch.end /\ through' \in [from : Int, to : Int]
        BY <2>2, <3>3 DEF Spans, Moment
      <4>2. QED
        BY <2>2, <2>5, <3>2, <3>3, <4>1 DEF Spans
    <3>4. CASE /\ through' # through /\ fetch.end > through.to /\ fetch.start <= through.to
               /\ through' = [through EXCEPT !.to = fetch.end]
      <4>1. fetch.end \in Int /\ fetch.start \in Int /\ through.to \in Int /\ through.from \in Int
            /\ fetch.end <= clock
        BY <1>inv, <2>2 DEF Spans, Moment
      <4>2. /\ through' \in [from : Int, to : Int] /\ through'.from = through.from
            /\ through'.to = fetch.end
        BY <1>inv, <3>4, <4>1
      <4>3. Published(fetch.start, fetch.end) \subseteq raws
        BY <2>5, <3>2, <3>4
      <4>4. ASSUME NEW t \in Moment, through.from <= t, t < fetch.end, t < clock PROVE t \in raws
        <5>1. t \in Int
          BY DEF Moment
        <5>2. CASE t < through.to
          BY <1>inv, <4>4, <5>2 DEF Published
        <5>3. CASE fetch.start <= t
          BY <4>3, <4>4, <5>3 DEF Published
        <5>4. QED
          BY <3>4, <4>1, <5>1, <5>2, <5>3
      <4>5. QED
        BY <4>1, <4>2, <4>4 DEF Published
    <3>5. QED
      BY <3>1, <3>2, <3>3, <3>4 DEF Extended
  <2>7. /\ through'.to <= clock' /\ (Published(through.from, through.to) \subseteq raws)'
    BY <2>1, <2>6 DEF Published
  <2>8. EvidenceShape'
    BY <1>inv, <2>1, <2>3, <2>6, <2>7 DEF EvidenceShape
  <2>9. Vouched'
    BY <2>1, <2>3, <2>5 DEF Vouched
  <2>10. verdict' = "complete" => (Published(fetch.start, fetch.end) \subseteq fetch.found)'
    BY <2>1, <2>5 DEF Published
  <2>11. QED
    BY <2>4, <2>7, <2>8, <2>9, <2>10 DEF EvidenceInv, EvidenceIsProof
<1>8. CASE Concluded
  <2>1. /\ fetch.phase \in {"complete", "partial"} /\ fetch' = NoFetch /\ evidence' = NoAttempt
        /\ UNCHANGED <<clock, raws, through>>
        /\ \E othersFailed \in BOOLEAN : cursor' = CursorAfter(othersFailed)
    BY <1>8 DEF Concluded, Use
  <2>2. cursor' \in Int
    <3>1. fetch.end \in Int
      BY <1>inv, <2>1 DEF RunInHand, Spans, Moment
    <3>2. cursor' = fetch.end \/ cursor' = cursor
      BY <2>1 DEF CursorAfter
    <3>3. QED
      BY <1>inv, <3>1, <3>2
  <2>3. verdict' = ""
    BY <1>8 DEF Concluded
  <2>4. QED
    BY <2>1, <2>2, <2>3, <1>reset
<1>same. ASSUME UNCHANGED <<clock, cursor, fetch, raws, evidence, verdict, through>> PROVE EvidenceInv'
  BY <1>same DEF EvidenceInv, EvidenceShape, RunInHand, Spans, Collects, InWindow, Vouched,
                 EvidenceIsProof, Published, IsFetch, IsAttempt
<1>9. CASE DegradedPass /\ Ignored
  BY <1>9, <1>same DEF DegradedPass, Ignored
<1>10. CASE UNCHANGED evidenceVars
  BY <1>10, <1>same DEF evidenceVars, fetchVars
<1>11. QED
  BY <1>1, <1>2, <1>3, <1>4, <1>5, <1>6, <1>7, <1>8, <1>9, <1>10 DEF EvidenceNext

(* The invariant holds throughout.                                         *)
LEMMA EvidenceInvHolds == EvidenceSpec => []EvidenceInv
BY InitEvidence, NextEvidence, PTL DEF EvidenceSpec

(* A run the engine calls complete has every post of the window asked for,  *)
(* and the raw store every post between the first proof and the cursor,    *)
(* for any window, page, budget, stray posts, odd responses and resumed or *)
(* failed runs.                                                            *)
THEOREM EvidenceStaysProof == EvidenceSpec => []EvidenceIsProof
<1>1. EvidenceInv => EvidenceIsProof
  BY DEF EvidenceInv
<1>2. QED
  BY <1>1, EvidenceInvHolds, PTL
==============================================================================
