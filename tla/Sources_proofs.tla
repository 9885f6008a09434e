---------------------------- MODULE Sources_proofs ----------------------------
(***************************************************************************)
(* Theorems about how sources are read and what becomes of their posts:    *)
(* Retrieval for any page size, budget, roster and batch, PublicFeeds for  *)
(* any profiles, Translation for any models and keys, EventFusion for any  *)
(* posts, likenesses and limits.                                           *)
(***************************************************************************)
EXTENDS ScheduledScan_proofs, PublicFeeds, Translation, EventFusion, FunctionTheorems, SequenceTheorems,
        FiniteSetTheorems, NaturalsInduction, WellFoundedInduction, TLAPS

(* The evidence is collected beside the run: it never steers it.           *)
LEMMA EvidenceWatches ==
  /\ EvidenceInit => FetchInit
  /\ [EvidenceNext]_evidenceVars => [FetchNext]_fetchVars
<1>1. EvidenceInit => FetchInit
  BY DEF EvidenceInit
<1>2. ASSUME EvidenceNext PROVE FetchNext \/ UNCHANGED fetchVars
  <2>1. CASE PostAppears
    BY <2>1 DEF FetchNext
  <2>2. CASE Attempt
    BY <2>2 DEF Attempt, FetchNext
  <2>3. CASE ReadObserved
    BY <2>3 DEF ReadObserved, ReadAnyPage, FetchNext
  <2>4. CASE StallObserved
    BY <2>4 DEF StallObserved, FetchNext
  <2>5. CASE PageFails
    BY <2>5 DEF FetchNext
  <2>6. CASE CutShort
    BY <2>6 DEF CutShort, FetchNext
  <2>7. CASE Conclude
    BY <2>7 DEF Conclude
  <2>8. CASE Concluded
    BY <2>8 DEF Concluded, FetchNext
  <2>9. CASE DegradedPass
    BY <2>9 DEF FetchNext
  <2>10. QED
    BY <1>2, <2>1, <2>2, <2>3, <2>4, <2>5, <2>6, <2>7, <2>8, <2>9 DEF EvidenceNext
<1>3. UNCHANGED evidenceVars => UNCHANGED fetchVars
  BY DEF evidenceVars
<1>4. QED
  BY <1>1, <1>2, <1>3

----------------------------------------------------------------------------
(* Retrieval: checkpoints.                                                 *)

(* A segment is a piece of time that has passed.                           *)
Segment(c) ==
  /\ c.from \in Moment /\ c.to \in Moment /\ c.from < c.to /\ c.to <= clock
  /\ c.below \in 0 .. LastTick

CheckpointsFit ==
  /\ checkpoints \in [Moment -> [from : Int, to : Int, below : Int, found : SUBSET Moment]]
  /\ \A k \in Moment : Open(k) => Segment(checkpoints[k])

Running == fetch.phase \in {"paging", "complete", "partial"}

RunFits ==
  /\ IsFetch(fetch) /\ fetch.phase \in {"idle", "paging", "complete", "partial"}
  /\ fetch.found \in SUBSET Moment
  /\ Running => /\ Segment(fetch) /\ fetch.key \in Moment
                /\ fetch.end \in Moment /\ fetch.to <= fetch.end /\ fetch.end <= clock

(* What a run that pages has found is whole as far as it has come, as what *)
(* its checkpoint would hold.                                              *)
RunIsWhole == fetch.phase = "paging" => Whole(fetch, fetch.key)

SegmentsInv ==
  /\ clock \in Moment /\ cursor \in Moment /\ obscured \subseteq 1 .. clock - 1
  /\ CheckpointsFit /\ RunFits
  /\ RunIsWhole /\ SegmentsAreWhole

(* Whole, but for the posts H.                                             *)
WholeBut(c, k, H) ==
  \A t \in 1 .. clock - 1 :
    ((k <= t /\ t < c.from) \/ (c.below # Top /\ c.below <= t /\ t < c.to /\ c.from <= t))
      => t \in c.found \cup H

(* More found leaves a checkpoint whole.                                   *)
LEMMA WholeStays ==
  ASSUME NEW c, NEW d, NEW k, Whole(c, k), d.from = c.from, d.to = c.to, d.below = c.below,
         c.found \subseteq d.found
  PROVE  Whole(d, k)
BY DEF Whole

(* A page read to its end leaves the segment whole above its oldest post,  *)
(* and the whole segment found if it crossed the segment's start or ended  *)
(* the timeline.                                                           *)
LEMMA PageFills ==
  ASSUME clock \in Moment, NEW f, Segment(f), NEW k \in Moment, Whole(f, k)
  PROVE  LET page == PageBelow(f.below)
             down == IF page = {} THEN Top ELSE Oldest(page)
             found == f.found \cup obscured \cup {t \in page : f.from <= t /\ t < f.to} IN
         /\ down \in 0 .. LastTick
         /\ \A t \in 1 .. clock - 1 :
              (k <= t /\ t < f.from) \/ (down <= t /\ t < f.to /\ f.from <= t) => t \in found
         /\ (\E t \in page : t < f.from) \/ Exhausted(page) =>
              \A t \in 1 .. clock - 1 : k <= t /\ t < f.to => t \in found
<1> DEFINE g == [start |-> f.from, end |-> f.to, below |-> f.below]
           page == PageBelow(f.below)
           down == IF page = {} THEN Top ELSE Oldest(page)
           found == f.found \cup obscured \cup {t \in page : f.from <= t /\ t < f.to}
<1>1. g.start = f.from /\ g.end = f.to /\ g.below = f.below
  OBVIOUS
<1> HIDE DEF g
<1>2. clock \in 1 .. LastTick /\ LastTick \in Nat /\ f.from \in 1 .. LastTick /\ f.to \in 1 .. LastTick
  BY RetrievalConstants DEF Segment, Moment
<1>3. Spans(g) /\ g.below \in 0 .. LastTick
  BY <1>1 DEF Spans, Segment
<1>4. \A t \in 1 .. clock - 1 : f.from <= t /\ t < f.to => t \in InWindow(g)
  BY <1>1, <1>2 DEF InWindow, Moment
<1>5. \A t \in InWindow(g) : t \in 1 .. clock - 1 /\ f.from <= t /\ t < f.to
  BY <1>1, <1>2 DEF InWindow, Segment, Moment
<1>6. g.below # Top => \A t \in InWindow(g) : g.below <= t => t \in f.found \cup obscured
  BY <1>1, <1>5 DEF Whole
<1>7. /\ down \in 0 .. LastTick
      /\ \A t \in InWindow(g) : down <= t => t \in found
      /\ (\E t \in page : t < f.from) \/ Exhausted(page) => InWindow(g) \subseteq found
  <2> DEFINE E == f.found \cup obscured
             listed == E \cup {t \in PageBelow(g.below) : g.start <= t /\ t < g.end}
  <2>1. listed = found
    BY <1>1
  <2>2. /\ (IF PageBelow(g.below) = {} THEN Top ELSE Oldest(PageBelow(g.below))) \in 0 .. LastTick
        /\ \A t \in InWindow(g) :
             (IF PageBelow(g.below) = {} THEN Top ELSE Oldest(PageBelow(g.below))) <= t => t \in listed
        /\ (\E t \in PageBelow(g.below) : t < g.start) \/ Exhausted(PageBelow(g.below))
              => InWindow(g) \subseteq listed
    <3> HIDE DEF E
    <3>1. g.below # Top => \A t \in InWindow(g) : g.below <= t => t \in E
      BY <1>6 DEF E
    <3>2. QED
      BY <1>3, <3>1, PageLists
  <2> HIDE DEF listed, found
  <2>3. QED
    BY <1>1, <2>1, <2>2
<1>8. \A t \in 1 .. clock - 1 : k <= t /\ t < f.from => t \in found
  BY DEF Whole
<1> HIDE DEF found, down
<1>9. ASSUME (\E t \in page : t < f.from) \/ Exhausted(page), NEW t \in 1 .. clock - 1, k <= t, t < f.to
      PROVE  t \in found
  <2>1. t < f.from \/ f.from <= t
    BY <1>2
  <2>2. QED
    BY <1>4, <1>7, <1>8, <1>9, <2>1
<1>10. \A t \in 1 .. clock - 1 :
         (k <= t /\ t < f.from) \/ (down <= t /\ t < f.to /\ f.from <= t) => t \in found
  BY <1>4, <1>7, <1>8
<1>11. QED
  BY <1>7, <1>9, <1>10 DEF found, down

(* A run is saved with its segment, a checkpoint dropped leaves the others. *)
LEMMA SavedFits ==
  ASSUME CheckpointsFit, NEW f, f.key \in Moment, Segment(f), f.found \in SUBSET Moment,
         checkpoints' = Saved(f), UNCHANGED clock
  PROVE  /\ CheckpointsFit'
         /\ \A k \in Moment : k # f.key => checkpoints'[k] = checkpoints[k]
         /\ \A k \in Moment : WholeBut(f, k, obscured') => (k = f.key => Whole(checkpoints[k], k)')
<1> DEFINE c == [from |-> f.from, to |-> f.to, below |-> f.below, found |-> f.found]
<1>1. c.from = f.from /\ c.to = f.to /\ c.below = f.below /\ c.found = f.found
  OBVIOUS
<1>2. c \in [from : Int, to : Int, below : Int, found : SUBSET Moment]
  <2>1. f.from \in Int /\ f.to \in Int /\ f.below \in Int
    BY RetrievalConstants DEF Segment, Moment
  <2>2. QED
    BY <2>1
<1> HIDE DEF c
<1>3. checkpoints' = [checkpoints EXCEPT ![f.key] = c]
  BY DEF Saved, c
<1>4. checkpoints'[f.key] = c /\ \A k \in Moment : k # f.key => checkpoints'[k] = checkpoints[k]
  BY <1>3 DEF CheckpointsFit
<1>5. checkpoints' \in [Moment -> [from : Int, to : Int, below : Int, found : SUBSET Moment]]
  BY <1>2, <1>3 DEF CheckpointsFit
<1>6. ASSUME NEW k \in Moment, Open(k)' PROVE Segment(checkpoints[k])'
  <2>1. CASE k = f.key
    BY <1>1, <1>4, <2>1 DEF Segment
  <2>2. CASE k # f.key
    BY <1>4, <1>6, <2>2 DEF CheckpointsFit, Open, Segment
  <2>3. QED
    BY <2>1, <2>2
<1>7. ASSUME NEW k \in Moment, WholeBut(f, k, obscured'), k = f.key PROVE Whole(checkpoints[k], k)'
  BY <1>1, <1>4, <1>7 DEF Whole, WholeBut
<1>8. QED
  BY <1>4, <1>5, <1>6, <1>7 DEF CheckpointsFit

LEMMA ClearedFits ==
  ASSUME CheckpointsFit, NEW f, f.key \in Moment, checkpoints' = Cleared(f), UNCHANGED clock
  PROVE  /\ CheckpointsFit'
         /\ \A k \in Moment : Open(k)' => Open(k) /\ checkpoints'[k] = checkpoints[k]
<1>1. NoCheckpoint \in [from : Int, to : Int, below : Int, found : SUBSET Moment] /\ NoCheckpoint.to = 0
  BY DEF NoCheckpoint, Top
<1>2. checkpoints' = [checkpoints EXCEPT ![f.key] = NoCheckpoint]
  BY DEF Cleared
<1> DEFINE c == NoCheckpoint
<1> HIDE DEF c
<1>3. checkpoints' = [checkpoints EXCEPT ![f.key] = c] /\ c.to = 0
      /\ c \in [from : Int, to : Int, below : Int, found : SUBSET Moment]
  BY <1>1, <1>2 DEF c
<1>4. checkpoints'[f.key] = c /\ \A k \in Moment : k # f.key => checkpoints'[k] = checkpoints[k]
  BY <1>3 DEF CheckpointsFit
<1>5. \A k \in Moment : Open(k)' => Open(k) /\ checkpoints'[k] = checkpoints[k]
  BY <1>3, <1>4 DEF Open
<1>6. checkpoints' \in [Moment -> [from : Int, to : Int, below : Int, found : SUBSET Moment]]
  BY <1>3 DEF CheckpointsFit
<1>7. QED
  BY <1>5, <1>6 DEF CheckpointsFit, Segment

(* A run begins with a segment before the present, its own or that of a    *)
(* checkpoint, and with what the checkpoint holds.                         *)
LEMMA RunBegins ==
  ASSUME SegmentsInv, Begin
  PROVE  /\ fetch'.phase = "paging" /\ RunFits' /\ UNCHANGED <<clock, cursor, checkpoints, obscured>>
         /\ Whole(fetch, fetch.key)'
         /\ fetch'.caller \in Callers /\ fetch'.seen = 0
         /\ fetch'.found = {} \/ \E k \in Moment : fetch'.found = checkpoints[k].found
<1>1. PICK caller \in Callers :
        WindowStart(caller) < clock /\ fetch' = RunFor(caller, WindowStart(caller), clock)
  BY DEF Begin
<1>2. UNCHANGED <<clock, cursor, checkpoints, obscured>>
  BY DEF Begin
<1> DEFINE start == WindowStart(caller)
           fresh == FreshRun(caller, start, clock)
           K == Candidates(caller, start, clock)
           k == Oldest(K)
<1>3. start \in Moment /\ start < clock
  <2>1. clock \in 1 .. LastTick /\ cursor \in 1 .. LastTick /\ Rescan \in Nat /\ Hours \in Nat
        /\ LastTick \in Nat
    BY RetrievalConstants DEF SegmentsInv, Moment
  <2>2. QED
    BY <1>1, <2>1 DEF WindowStart, Greater, Moment
<1>4. fresh \in FetchWith({caller}, {start}, {clock}, {start}, {start}, {clock}, {Top}, {{}}, {0}, {"paging"})
  BY DEF FreshRun, FetchWith
<1>5. clock \in Moment /\ clock \in Int /\ LastTick \in Nat /\ start \in Int
  BY <1>3, RetrievalConstants DEF SegmentsInv, Moment
<1> HIDE DEF start, fresh
<1>6. CASE ~Continues(caller, start, clock)
  <2>1. fetch' = fresh
    BY <1>1, <1>6 DEF RunFor, start, fresh
  <2>2. /\ IsFetch(fetch') /\ fetch'.phase = "paging" /\ fetch'.found = {} /\ fetch'.from = start
        /\ fetch'.to = clock /\ fetch'.below = Top /\ fetch'.key = start /\ fetch'.end = clock
        /\ fetch'.caller = caller /\ fetch'.seen = 0
    BY <1>4, <2>1 DEF FetchWith, IsFetch
  <2>3. Segment(fetch)'
    BY <1>2, <1>3, <1>5, <2>2 DEF Segment, Top
  <2>4. Whole(fetch, fetch.key)'
    BY <2>2, <1>2, <1>5 DEF Whole, Top, Moment
  <2>5. RunFits'
    BY <1>2, <1>3, <1>5, <2>2, <2>3 DEF RunFits, IsFetch
  <2>6. QED
    BY <1>2, <2>2, <2>4, <2>5
<1>7. CASE Continues(caller, start, clock)
  <2>1. K # {} /\ checkpoints[k].to <= clock
    BY <1>7 DEF Continues
  <2>2. k \in K
    <3>1. K \in SUBSET Nat
      BY DEF Candidates, Moment
    <3> HIDE DEF K
    <3>2. QED
      BY <2>1, <3>1, LeastOf
  <2>3. k \in Moment /\ Open(k)
    BY <2>2 DEF Candidates
  <2> DEFINE c == checkpoints[k]
             run == [fresh EXCEPT !.key = k, !.from = c.from, !.to = c.to, !.below = c.below,
                                  !.found = c.found]
  <2>4. fetch' = run
    BY <1>1, <1>7 DEF RunFor, Resumed, start, fresh
  <2> HIDE DEF K, k, c
  <2>5. run \in FetchWith({caller}, {start}, {clock}, {k}, {c.from}, {c.to}, {c.below}, {c.found}, {0},
                          {"paging"})
    BY <1>4 DEF FetchWith
  <2>6. /\ IsFetch(fetch') /\ fetch'.phase = "paging" /\ fetch'.found = c.found /\ fetch'.from = c.from
        /\ fetch'.to = c.to /\ fetch'.below = c.below /\ fetch'.key = k /\ fetch'.end = clock
        /\ fetch'.caller = caller /\ fetch'.seen = 0
    <3> HIDE DEF run
    <3>1. QED
      BY <2>4, <2>5 DEF FetchWith, IsFetch
  <2>7. Segment(c) /\ c.found \in SUBSET Moment /\ c.to <= clock
    BY <2>1, <2>3 DEF c, SegmentsInv, CheckpointsFit
  <2>8. Segment(fetch)'
    BY <1>2, <2>6, <2>7 DEF Segment
  <2>9. Whole(c, k)
    BY <2>3 DEF SegmentsInv, SegmentsAreWhole, c
  <2>10. Whole(fetch, fetch.key)'
    BY <1>2, <2>6, <2>9 DEF Whole
  <2>11. RunFits'
    BY <1>2, <1>5, <2>3, <2>6, <2>7, <2>8 DEF RunFits, IsFetch
  <2>12. \E j \in Moment : fetch'.found = checkpoints[j].found
    BY <2>3, <2>6 DEF c
  <2>13. QED
    BY <1>2, <2>6, <2>10, <2>11, <2>12
<1>8. QED
  BY <1>6, <1>7

LEMMA CursorFits ==
  ASSUME clock \in Moment, NEW b
  PROVE  (IF PageBelow(b) = {} THEN Top ELSE Oldest(PageBelow(b))) \in 0 .. LastTick
<1> DEFINE page == PageBelow(b)
<1>1. clock \in 1 .. LastTick /\ LastTick \in Nat
  BY RetrievalConstants DEF Moment
<1>2. page \subseteq 1 .. clock - 1
  BY PagePosts
<1>3. page \in SUBSET Nat
  BY <1>1, <1>2
<1> HIDE DEF page
<1>4. CASE page = {}
  BY <1>1, <1>4 DEF Top, page
<1>5. CASE page # {}
  <2>1. Oldest(page) \in page
    BY <1>3, <1>5, LeastOf
  <2>2. Oldest(page) \in 0 .. LastTick
    <3>1. Oldest(page) \in 1 .. clock - 1
      BY <1>2, <2>1 DEF page
    <3>2. QED
      BY <1>1, <3>1
  <2>3. QED
    BY <1>5, <2>2 DEF page
<1>6. QED
  BY <1>4, <1>5

(* What a page makes of the run in hand: its segment stands, and what it   *)
(* has found grows.                                                        *)
LEMMA PageGrows ==
  ASSUME SegmentsInv, fetch.phase = "paging", NEW r \in Readings(PageBelow(fetch.below))
  PROVE  LET page == PageBelow(fetch.below)
             f == After(fetch, page, r) IN
         /\ IsFetch(f) /\ f.phase = "paging" /\ f.key = fetch.key /\ f.end = fetch.end
         /\ f.from = fetch.from /\ f.to = fetch.to
         /\ f.below = IF page = {} THEN Top ELSE Oldest(page)
         /\ f.found = fetch.found \cup Kept(fetch, r) /\ f.found \in SUBSET Moment
         /\ Segment(f) /\ f.key \in Moment
<1> DEFINE page == PageBelow(fetch.below)
           f == After(fetch, page, r)
<1>1. IsFetch(fetch) /\ clock \in Moment /\ Running /\ fetch.found \in SUBSET Moment
      /\ Segment(fetch) /\ fetch.key \in Moment
  BY DEF SegmentsInv, RunFits, Running
<1>2. /\ IsFetch(f) /\ f.end = fetch.end /\ f.from = fetch.from
      /\ f.to = fetch.to /\ f.phase = fetch.phase /\ f.found = fetch.found \cup Kept(fetch, r)
      /\ f.below = IF page = {} THEN Top ELSE Oldest(page)
  BY <1>1, AfterPage
<1>3. f.key = fetch.key
  BY <1>1 DEF After, IsFetch, FetchWith
<1>4. f.below \in 0 .. LastTick
  BY <1>1, <1>2, CursorFits
<1>5. Kept(fetch, r) \subseteq Moment
  <2>1. r.posts \subseteq 1 .. clock - 1
    BY <1>1, ConvertedPosts
  <2>2. clock \in Int /\ clock <= LastTick /\ LastTick \in Int
    BY <1>1, RetrievalConstants DEF Moment
  <2>3. QED
    BY <2>1, <2>2 DEF Kept, Moment
<1> HIDE DEF f
<1>6. Segment(f)
  BY <1>1, <1>2, <1>4 DEF Segment
<1>7. QED
  BY <1>1, <1>2, <1>3, <1>5, <1>6 DEF f

(* Every checkpoint stays whole but the one that is saved.                 *)
LEMMA OthersStayWhole ==
  ASSUME UNCHANGED clock, obscured \subseteq obscured', NEW k \in Moment,
         Open(k) => Whole(checkpoints[k], k), Open(k)', checkpoints'[k] = checkpoints[k]
  PROVE  Whole(checkpoints[k], k)'
BY DEF Whole, Open

(* A run that goes on with its segment, saved as it is.                    *)
LEMMA SavedKeeps ==
  ASSUME SegmentsInv, NEW f, IsFetch(f), f.found \in SUBSET Moment, Segment(f), f.key \in Moment,
         f.end \in Moment, f.to <= f.end, f.end <= clock,
         fetch' = f, f.phase \in {"paging", "partial"}, UNCHANGED <<clock, cursor>>,
         NEW g, g.key = f.key, g.from = f.from, g.to = f.to, g.below = f.below, g.found = f.found,
         checkpoints' = Saved(g),
         obscured \subseteq obscured', obscured' \subseteq 1 .. clock - 1, WholeBut(f, f.key, obscured')
  PROVE  SegmentsInv'
<1>1. checkpoints' = Saved(f)
  BY DEF Saved
<1>2. /\ CheckpointsFit'
      /\ \A k \in Moment : k # f.key => checkpoints'[k] = checkpoints[k]
      /\ \A k \in Moment : WholeBut(f, k, obscured') => (k = f.key => Whole(checkpoints[k], k)')
  BY <1>1, SavedFits DEF SegmentsInv
<1>3. RunFits'
  BY DEF RunFits, Running, Segment, IsFetch
<1>4. RunIsWhole'
  BY DEF RunIsWhole, Whole, WholeBut
<1>5. ASSUME NEW k \in Moment, Open(k)' PROVE Whole(checkpoints[k], k)'
  <2>1. CASE k = f.key
    BY <1>2, <1>5, <2>1
  <2>2. CASE k # f.key
    BY <1>2, <1>5, <2>2, OthersStayWhole DEF SegmentsInv, SegmentsAreWhole
  <2>3. QED
    BY <2>1, <2>2
<1>6. SegmentsAreWhole'
  BY <1>5 DEF SegmentsAreWhole
<1>7. QED
  BY <1>2, <1>3, <1>4, <1>6 DEF SegmentsInv

(* A page that is not odd is read whole.                                   *)
LEMMA PlainReading ==
  ASSUME NEW page, NEW r \in Readings(page), ~(r.stray \/ r.bare)
  PROVE  r.posts = page /\ r.stray = FALSE /\ r.bare = FALSE
<1>1. CASE r = [posts |-> page, stray |-> FALSE, bare |-> FALSE]
  BY <1>1
<1>2. ASSUME NEW n \in Moment, NEW odd \in OddPages,
             r = [posts |-> {t \in page : t >= n}, stray |-> odd = "stray", bare |-> odd = "bare"]
      PROVE  FALSE
  <2>1. (r.stray <=> odd = "stray") /\ (r.bare <=> odd = "bare")
    BY <1>2
  <2>2. odd = "stray" \/ odd = "bare"
    BY RetrievalConstants
  <2>3. QED
    BY <2>1, <2>2
<1>3. QED
  BY <1>1, <1>2 DEF Readings

LEMMA ReadPageKeeps ==
  ASSUME SegmentsInv, ReadAnyPage
  PROVE  SegmentsInv'
<1> DEFINE page == PageBelow(fetch.below)
<1>1. PICK r \in Readings(page) : ReadPage(r)
  BY DEF ReadAnyPage
<1> DEFINE f == After(fetch, page, r)
           partial == IF f.seen >= Budget THEN "partial" ELSE f.phase
           ended == Crossed(fetch, r) \/ r.bare \/ Exhausted(page)
<1>2. /\ fetch.phase = "paging" /\ UNCHANGED <<clock, cursor>>
      /\ IF ended THEN SegmentEnds(f) ELSE SegmentContinues(f)
      /\ IF r.stray \/ r.bare THEN obscured' = obscured \cup Unread(fetch, r) ELSE obscured' = obscured
  BY <1>1 DEF ReadPage, Flawless, Flawed
<1>3. /\ IsFetch(f) /\ f.phase = "paging" /\ f.key = fetch.key /\ f.end = fetch.end
      /\ f.from = fetch.from /\ f.to = fetch.to
      /\ f.below = IF page = {} THEN Top ELSE Oldest(page)
      /\ f.found = fetch.found \cup Kept(fetch, r) /\ f.found \in SUBSET Moment
      /\ Segment(f) /\ f.key \in Moment
  BY <1>2, PageGrows
<1>4. /\ clock \in Moment /\ Segment(fetch) /\ fetch.end \in Moment /\ fetch.to <= fetch.end
      /\ fetch.end <= clock /\ fetch.key \in Moment
  BY <1>2 DEF SegmentsInv, RunFits, Running
<1>0. Whole(fetch, fetch.key) /\ obscured \subseteq 1 .. clock - 1
  BY <1>2 DEF SegmentsInv, RunIsWhole
<1>10. obscured \subseteq obscured' /\ obscured' \subseteq 1 .. clock - 1
  <2>1. clock \in Nat
    BY <1>4, RetrievalConstants DEF Moment
  <2>2. Unread(fetch, r) \subseteq 1 .. clock - 1
    BY <2>1 DEF Unread, Published, Moment
  <2>3. QED
    BY <1>0, <1>2, <2>2
<1>11. ASSUME ~(r.stray \/ r.bare)
       PROVE  /\ ~ended => WholeBut(f, f.key, obscured')
              /\ ended => \A t \in 1 .. clock - 1 : f.key <= t /\ t < f.to => t \in f.found \cup obscured'
  <2>1. obscured' = obscured
    BY <1>2, <1>11
  <2>2. r.posts = page /\ r.stray = FALSE /\ r.bare = FALSE
    BY <1>1, <1>11, PlainReading
  <2>3. Kept(fetch, r) = {t \in page : fetch.from <= t /\ t < fetch.to}
        /\ (ended => (\E t \in page : t < fetch.from) \/ Exhausted(page))
    BY <2>2 DEF Kept, Crossed
  <2> DEFINE down == IF page = {} THEN Top ELSE Oldest(page)
             found == fetch.found \cup obscured \cup {t \in page : fetch.from <= t /\ t < fetch.to}
  <2>4. /\ \A t \in 1 .. clock - 1 :
             (fetch.key <= t /\ t < fetch.from) \/ (down <= t /\ t < fetch.to /\ fetch.from <= t)
               => t \in found
        /\ (\E t \in page : t < fetch.from) \/ Exhausted(page) =>
              \A t \in 1 .. clock - 1 : fetch.key <= t /\ t < fetch.to => t \in found
    BY <1>4, <1>0, PageFills
  <2>5. f.below = down /\ f.found \cup obscured' = found
    BY <1>3, <2>1, <2>3
  <2> HIDE DEF f, down, found, page, ended
  <2>6. WholeBut(f, f.key, obscured')
    BY <1>3, <2>4, <2>5 DEF WholeBut
  <2>7. ended => \A t \in 1 .. clock - 1 : f.key <= t /\ t < f.to => t \in f.found \cup obscured'
    BY <1>3, <2>3, <2>4, <2>5
  <2>8. QED
    BY <2>6, <2>7
<1>12. ASSUME r.stray \/ r.bare
       PROVE  /\ ~ended => WholeBut(f, f.key, obscured')
              /\ ended => \A t \in 1 .. clock - 1 : f.key <= t /\ t < f.to => t \in f.found \cup obscured'
  <2>1. ended
    BY <1>12 DEF Crossed
  <2>2. ASSUME NEW t \in 1 .. clock - 1, fetch.key <= t, t < fetch.to PROVE t \in f.found \cup obscured'
    <3>1. clock \in 1 .. LastTick /\ LastTick \in Nat /\ fetch.from \in Int
      BY <1>4, RetrievalConstants DEF Segment, Moment
    <3>2. CASE t < fetch.from \/ (fetch.below # Top /\ fetch.below <= t)
      <4>1. t \in fetch.found \cup obscured
        BY <1>0, <2>2, <3>1, <3>2 DEF Whole
      <4> HIDE DEF f
      <4>2. QED
        BY <1>3, <1>10, <4>1
    <3>3. CASE fetch.from <= t /\ (fetch.below = Top \/ t < fetch.below)
      <4>1. t \in Published(fetch.from, fetch.to)
        BY <2>2, <3>1, <3>3 DEF Published, Moment
      <4>2. t \in Kept(fetch, r) \/ t \in Unread(fetch, r)
        BY <2>2, <3>3, <4>1 DEF Kept, Unread
      <4> HIDE DEF f
      <4>3. QED
        BY <1>2, <1>3, <1>12, <4>2
    <3>4. fetch.below \in Int
      BY <1>4, RetrievalConstants DEF Segment
    <3>5. QED
      BY <3>1, <3>2, <3>3, <3>4
  <2> HIDE DEF f
  <2>3. QED
    BY <1>3, <2>1, <2>2
<1>5. /\ ~ended => WholeBut(f, f.key, obscured')
      /\ ended => \A t \in 1 .. clock - 1 : f.key <= t /\ t < f.to => t \in f.found \cup obscured'
  BY <1>11, <1>12
<1> HIDE DEF f, ended
<1>6. CASE SegmentContinues(f) /\ ~ended
  <2>1. checkpoints' = Saved(f) /\ fetch' = AtPhase(f, partial) /\ partial \in {"paging", "partial"}
    BY <1>3, <1>6 DEF SegmentContinues, AtPhase
  <2> HIDE DEF partial
  <2> DEFINE g == AtPhase(f, partial)
  <2>2. g \in FetchWith({f.caller}, {f.start}, {f.end}, {f.key}, {f.from}, {f.to}, {f.below}, {f.found},
                        {f.seen}, {partial})
    BY <1>3, FetchChanges
  <2> HIDE DEF g
  <2>3. /\ IsFetch(g) /\ g.phase = partial /\ g.key = f.key /\ g.end = f.end /\ g.from = f.from
        /\ g.to = f.to /\ g.below = f.below /\ g.found = f.found
    BY <2>2 DEF FetchWith, IsFetch
  <2>4. Segment(g)
    BY <1>3, <2>3 DEF Segment
  <2>5. WholeBut(g, g.key, obscured')
    BY <1>5, <1>6, <2>3 DEF WholeBut
  <2>6. fetch' = g
    BY <2>1 DEF g
  <2>7. QED
    BY <1>2, <1>3, <1>4, <1>10, <2>1, <2>3, <2>4, <2>5, <2>6, SavedKeeps
<1>7. CASE SegmentEnds(f) /\ ended /\ f.end > f.to
  <2> DEFINE g == AtSegment(f)
  <2>1. checkpoints' = Saved(g) /\ fetch' = g
    BY <1>7 DEF SegmentEnds, AtSegment
  <2>2. g \in FetchWith({f.caller}, {f.start}, {f.end}, {f.key}, {f.to}, {f.end}, {Top}, {f.found},
                        {f.seen}, {f.phase})
    BY <1>3, FetchChanges
  <2> HIDE DEF g
  <2>3. /\ IsFetch(g) /\ g.phase = "paging" /\ g.key = f.key /\ g.end = f.end /\ g.from = f.to
        /\ g.to = f.end /\ g.below = Top /\ g.found = f.found
    BY <1>3, <2>2 DEF FetchWith, IsFetch
  <2>4. Segment(g) /\ g.to <= g.end
    <3>1. f.to \in Moment /\ f.end \in Moment /\ f.to < f.end /\ f.end <= clock /\ Top \in 0 .. LastTick
      BY <1>3, <1>4, <1>7, RetrievalConstants DEF Segment, Moment, Top
    <3>2. f.end \in Int
      BY <3>1, RetrievalConstants DEF Moment
    <3>3. QED
      BY <2>3, <3>1, <3>2 DEF Segment
  <2>5. WholeBut(g, g.key, obscured')
    BY <1>5, <1>7, <2>3 DEF WholeBut
  <2>6. QED
    BY <1>2, <1>3, <1>4, <1>10, <2>1, <2>3, <2>4, <2>5, SavedKeeps
<1>8. CASE SegmentEnds(f) /\ ended /\ ~(f.end > f.to)
  <2> DEFINE g == AtPhase(f, "complete")
  <2>1. checkpoints' = Cleared(f) /\ fetch' = g
    BY <1>8 DEF SegmentEnds, AtPhase
  <2>2. g \in FetchWith({f.caller}, {f.start}, {f.end}, {f.key}, {f.from}, {f.to}, {f.below}, {f.found},
                        {f.seen}, {"complete"})
    BY <1>3, FetchChanges
  <2> HIDE DEF g
  <2>3. /\ IsFetch(g) /\ g.phase = "complete" /\ g.key = f.key /\ g.end = f.end /\ g.from = f.from
        /\ g.to = f.to /\ g.below = f.below /\ g.found = f.found
    BY <2>2 DEF FetchWith, IsFetch
  <2>4. CheckpointsFit' /\ \A k \in Moment : Open(k)' => Open(k) /\ checkpoints'[k] = checkpoints[k]
    BY <1>2, <1>3, <2>1, ClearedFits DEF SegmentsInv
  <2>5. RunFits'
    BY <1>2, <1>3, <1>4, <2>1, <2>3 DEF RunFits, Running, Segment, IsFetch
  <2>6. Published(fetch.key, fetch.end)' \subseteq fetch'.found \cup obscured'
    <3>1. f.end = f.to /\ clock \in Int /\ LastTick \in Int
      BY <1>3, <1>4, <1>8, RetrievalConstants DEF Segment, Moment
    <3>2. \A t \in 1 .. clock - 1 : f.key <= t /\ t < f.to => t \in f.found \cup obscured'
      BY <1>5, <1>8
    <3>3. QED
      BY <1>2, <2>1, <2>3, <3>1, <3>2 DEF Published, Moment
  <2>7. \A k \in Moment : Open(k)' => Whole(checkpoints[k], k)'
    BY <1>2, <1>10, <2>4, OthersStayWhole DEF SegmentsInv, SegmentsAreWhole
  <2>8. RunIsWhole' /\ SegmentsAreWhole'
    BY <1>2, <2>1, <2>3, <2>6, <2>7 DEF RunIsWhole, SegmentsAreWhole
  <2>9. QED
    BY <1>2, <1>10, <2>4, <2>5, <2>8 DEF SegmentsInv
<1>9. QED
  BY <1>2, <1>6, <1>7, <1>8 DEF SegmentEnds

LEMMA CursorStallsKeeps ==
  ASSUME SegmentsInv, CursorStalls
  PROVE  SegmentsInv'
<1> DEFINE page == PageBelow(fetch.below)
           r == [posts |-> page, stray |-> FALSE, bare |-> FALSE]
           a == After(fetch, page, r)
           f == AtStall(a, fetch.below)
<1>1. /\ fetch.phase = "paging" /\ UNCHANGED <<clock, cursor, obscured>>
      /\ fetch' = f /\ checkpoints' = Saved(f)
  BY DEF CursorStalls, AtStall
<1>2. r \in Readings(page)
  BY DEF Readings
<1>3. /\ IsFetch(a) /\ a.key = fetch.key /\ a.end = fetch.end
      /\ a.from = fetch.from /\ a.to = fetch.to
      /\ fetch.found \subseteq a.found /\ a.found \in SUBSET Moment
      /\ a.key \in Moment
  <2> HIDE DEF r
  <2>1. QED
    BY <1>1, <1>2, PageGrows
<1> HIDE DEF a, r
<1>4. f \in FetchWith({a.caller}, {a.start}, {a.end}, {a.key}, {a.from}, {a.to}, {fetch.below}, {a.found},
                      {a.seen}, {"partial"})
  BY <1>3, FetchChanges
<1> HIDE DEF f
<1>5. /\ IsFetch(f) /\ f.phase = "partial" /\ f.key = a.key /\ f.end = a.end /\ f.from = a.from
      /\ f.to = a.to /\ f.below = fetch.below /\ f.found = a.found
  BY <1>4 DEF FetchWith, IsFetch
<1>6. /\ Segment(fetch) /\ fetch.end \in Moment /\ fetch.to <= fetch.end
      /\ fetch.end <= clock /\ fetch.key \in Moment
  BY <1>1 DEF SegmentsInv, RunFits, Running
<1>7. Segment(f)
  BY <1>3, <1>5, <1>6 DEF Segment
<1>8. WholeBut(f, f.key, obscured') /\ obscured' = obscured /\ obscured \subseteq 1 .. clock - 1
  BY <1>1, <1>3, <1>5, WholeStays DEF SegmentsInv, RunIsWhole, Whole, WholeBut
<1>9. QED
  BY <1>1, <1>3, <1>5, <1>6, <1>7, <1>8, SavedKeeps

LEMMA PageFailsKeeps ==
  ASSUME SegmentsInv, PageFails
  PROVE  SegmentsInv'
<1>1. /\ fetch.phase = "paging" /\ UNCHANGED <<clock, cursor, obscured>>
  BY DEF PageFails
<1>2. PICK recovered \in {{}} \cup {Published(t, fetch.end) : t \in fetch.from .. fetch.end} :
        LET f == [fetch EXCEPT !.found = @ \cup recovered, !.phase = "partial"] IN
        fetch' = f /\ checkpoints' = Saved(f)
  BY DEF PageFails
<1> DEFINE f == [fetch EXCEPT !.found = @ \cup recovered, !.phase = "partial"]
<1>3. recovered \subseteq Moment
  BY <1>2 DEF Published
<1>4. /\ Segment(fetch) /\ fetch.end \in Moment /\ fetch.to <= fetch.end
      /\ fetch.end <= clock /\ fetch.key \in Moment /\ IsFetch(fetch) /\ fetch.found \in SUBSET Moment
  BY <1>1 DEF SegmentsInv, RunFits, Running
<1>5. f \in FetchWith({fetch.caller}, {fetch.start}, {fetch.end}, {fetch.key}, {fetch.from}, {fetch.to},
                      {fetch.below}, {fetch.found \cup recovered}, {fetch.seen}, {"partial"})
  BY <1>4 DEF FetchWith, IsFetch
<1>6. fetch' = f /\ checkpoints' = Saved(f)
  BY <1>2
<1> HIDE DEF f
<1>7. /\ IsFetch(f) /\ f.phase = "partial" /\ f.key = fetch.key /\ f.end = fetch.end /\ f.from = fetch.from
      /\ f.to = fetch.to /\ f.below = fetch.below /\ f.found = fetch.found \cup recovered
  BY <1>5 DEF FetchWith, IsFetch
<1>8. Segment(f) /\ f.found \in SUBSET Moment
  BY <1>3, <1>4, <1>7 DEF Segment
<1>9. WholeBut(f, f.key, obscured') /\ obscured' = obscured /\ obscured \subseteq 1 .. clock - 1
  BY <1>1, <1>7, WholeStays DEF SegmentsInv, RunIsWhole, Whole, WholeBut
<1>10. QED
  BY <1>1, <1>4, <1>6, <1>7, <1>8, <1>9, SavedKeeps

(* A run given up leaves the checkpoints.                                  *)
LEMMA RunGone ==
  ASSUME SegmentsInv, fetch' = NoFetch, cursor' \in Moment, UNCHANGED <<clock, checkpoints, obscured>>
  PROVE  SegmentsInv'
<1>1. IsFetch(NoFetch) /\ NoFetch.phase = "idle" /\ NoFetch.found = {}
  BY DEF NoFetch, IsFetch, FetchWith
<1>2. IsFetch(fetch') /\ fetch'.phase = "idle" /\ fetch'.found = {}
  BY <1>1
<1>3. RunFits' /\ RunIsWhole'
  BY <1>2 DEF RunFits, Running, RunIsWhole
<1>4. CheckpointsFit'
  BY DEF SegmentsInv, CheckpointsFit, Open, Segment
<1>5. SegmentsAreWhole'
  BY <1>2 DEF SegmentsInv, SegmentsAreWhole, Open, Whole
<1>6. QED
  BY <1>3, <1>4, <1>5 DEF SegmentsInv

LEMMA LaterKeeps ==
  ASSUME SegmentsInv, PostAppears
  PROVE  SegmentsInv'
<1>1. clock < LastTick /\ clock' = clock + 1 /\ UNCHANGED <<cursor, checkpoints, fetch, obscured>>
  BY DEF PostAppears
<1>2. clock \in Moment /\ clock \in Int /\ LastTick \in Nat
  BY RetrievalConstants DEF SegmentsInv, Moment
<1>3. clock' \in Moment /\ cursor' \in Moment /\ obscured' \subseteq 1 .. clock' - 1
  BY <1>1, <1>2 DEF SegmentsInv, Moment
<1>4. ASSUME NEW k \in Moment, Open(k) PROVE Segment(checkpoints[k])'
  <2> DEFINE c == checkpoints[k]
  <2>1. Segment(c)
    BY <1>4 DEF SegmentsInv, CheckpointsFit
  <2>2. c.to \in Int
    BY <2>1, RetrievalConstants DEF Segment, Moment
  <2>3. QED
    BY <1>1, <1>2, <2>1, <2>2 DEF Segment
<1>5. CheckpointsFit'
  BY <1>1, <1>4 DEF SegmentsInv, CheckpointsFit, Open
<1>6. RunFits'
  <2>1. CASE Running
    <3>1. Segment(fetch) /\ fetch.end \in Moment /\ fetch.end <= clock
      BY <2>1 DEF SegmentsInv, RunFits
    <3>2. fetch.end \in Int /\ fetch.to \in Int
      BY <3>1, RetrievalConstants DEF Segment, Moment
    <3>3. Segment(fetch)' /\ fetch.end <= clock'
      BY <1>1, <1>2, <3>1, <3>2 DEF Segment
    <3>4. QED
      BY <1>1, <2>1, <3>3 DEF SegmentsInv, RunFits, Running, IsFetch
  <2>2. CASE ~Running
    BY <1>1, <2>2 DEF SegmentsInv, RunFits, Running, IsFetch
  <2>3. QED
    BY <2>1, <2>2
<1>7. RunIsWhole'
  <2>1. SUFFICES ASSUME fetch.phase = "paging" PROVE Whole(fetch, fetch.key)'
    BY <1>1 DEF RunIsWhole
  <2> DEFINE c == fetch
  <2>2. Whole(c, c.key) /\ Segment(c) /\ c.key \in Moment
    BY <2>1 DEF SegmentsInv, RunIsWhole, RunFits, Running
  <2>3. c' = c
    BY <1>1
  <2>4. clock \in Int /\ c.from \in Int /\ c.to \in Int /\ c.from <= clock /\ c.to <= clock
    BY <2>2, <1>2, RetrievalConstants DEF Segment, Moment
  <2>5. ASSUME NEW t \in 1 .. clock,
               (c.key <= t /\ t < c.from) \/ (c.below # Top /\ c.below <= t /\ t < c.to /\ c.from <= t)
        PROVE  t \in c.found \cup obscured
    <3>1. t \in 1 .. clock - 1
      BY <2>4, <2>5
    <3>2. QED
      BY <2>2, <2>5, <3>1 DEF Whole
  <2>6. 1 .. clock' - 1 = 1 .. clock
    BY <1>1, <1>2
  <2>7. QED
    BY <1>1, <2>5, <2>6 DEF Whole
<1>8. ASSUME NEW k \in Moment, Open(k) PROVE Whole(checkpoints[k], k)'
  <2>1. Whole(checkpoints[k], k) /\ Segment(checkpoints[k])
    BY <1>8 DEF SegmentsInv, SegmentsAreWhole, CheckpointsFit
  <2> DEFINE c == checkpoints[k]
  <2>2. clock \in Int /\ c.from \in Int /\ c.to \in Int /\ c.from <= clock /\ c.to <= clock
    BY <2>1, <1>2, RetrievalConstants DEF Segment, Moment
  <2>3. ASSUME NEW t \in 1 .. clock,
               (k <= t /\ t < c.from) \/ (c.below # Top /\ c.below <= t /\ t < c.to /\ c.from <= t)
        PROVE  t \in c.found \cup obscured
    <3>1. t \in 1 .. clock - 1
      BY <2>2, <2>3
    <3>2. QED
      BY <2>1, <2>3, <3>1 DEF Whole
  <2>4. 1 .. clock' - 1 = 1 .. clock
    BY <1>1, <1>2
  <2>5. QED
    BY <1>1, <2>3, <2>4 DEF Whole
<1>9. ASSUME fetch.phase = "complete"
       PROVE  Published(fetch.key, fetch.end)' \subseteq fetch.found \cup obscured
  <2>1. Published(fetch.key, fetch.end) \subseteq fetch.found \cup obscured
    BY <1>9 DEF SegmentsInv, SegmentsAreWhole
  <2>2. fetch.end \in Int /\ fetch.end <= clock
    BY <1>9, RetrievalConstants DEF SegmentsInv, RunFits, Running, Moment
  <2>3. Published(fetch.key, fetch.end)' \subseteq Published(fetch.key, fetch.end)
    BY <1>1, <1>2, <2>2 DEF Published, Moment
  <2>4. QED
    BY <2>1, <2>3
<1>10. SegmentsAreWhole'
  BY <1>1, <1>8, <1>9 DEF SegmentsAreWhole, Open
<1>11. QED
  BY <1>3, <1>5, <1>6, <1>7, <1>10 DEF SegmentsInv

LEMMA InitSegments == FetchInit => SegmentsInv
<1> SUFFICES ASSUME FetchInit PROVE SegmentsInv
  OBVIOUS
<1>1. clock = 1 /\ cursor = 1 /\ fetch = NoFetch /\ checkpoints = [k \in Moment |-> NoCheckpoint]
  BY DEF FetchInit
<1>2. 1 \in Moment
  BY RetrievalConstants DEF Moment
<1>3. IsFetch(NoFetch) /\ NoFetch.phase = "idle" /\ NoFetch.found = {}
  BY DEF NoFetch, IsFetch, FetchWith
<1>4. NoCheckpoint \in [from : Int, to : Int, below : Int, found : SUBSET Moment] /\ NoCheckpoint.to = 0
  BY DEF NoCheckpoint, Top
<1>5. IsFetch(fetch) /\ fetch.phase = "idle" /\ fetch.found = {} /\ obscured \subseteq 1 .. clock - 1
  BY <1>1, <1>3 DEF FetchInit
<1>6. \A k \in Moment : ~Open(k)
  BY <1>1, <1>4 DEF Open
<1>7. checkpoints \in [Moment -> [from : Int, to : Int, below : Int, found : SUBSET Moment]]
  BY <1>1, <1>4
<1>8. QED
  BY <1>1, <1>2, <1>5, <1>6, <1>7
     DEF SegmentsInv, CheckpointsFit, RunFits, Running, RunIsWhole, SegmentsAreWhole

LEMMA NextSegments == SegmentsInv /\ [FetchNext]_fetchVars => SegmentsInv'
<1> SUFFICES ASSUME SegmentsInv, [FetchNext]_fetchVars PROVE SegmentsInv'
  OBVIOUS
<1>1. CASE PostAppears
  BY <1>1, LaterKeeps
<1>2. CASE Begin
  <2>1. /\ fetch'.phase = "paging" /\ RunFits' /\ UNCHANGED <<clock, cursor, checkpoints, obscured>>
        /\ Whole(fetch, fetch.key)'
    BY <1>2, RunBegins
  <2>2. CheckpointsFit'
    BY <2>1 DEF SegmentsInv, CheckpointsFit, Open, Segment
  <2>3. SegmentsAreWhole'
    BY <2>1 DEF SegmentsInv, SegmentsAreWhole, Open, Whole
  <2>4. QED
    BY <2>1, <2>2, <2>3 DEF SegmentsInv, RunIsWhole
<1>3. CASE ReadAnyPage
  BY <1>3, ReadPageKeeps
<1>4. CASE CursorStalls
  BY <1>4, CursorStallsKeeps
<1>5. CASE PageFails
  BY <1>5, PageFailsKeeps
<1>6. CASE Cut
  BY <1>6, RunGone DEF Cut, SegmentsInv
<1>7. CASE Use
  <2>1. fetch.phase \in {"complete", "partial"} /\ fetch' = NoFetch
        /\ UNCHANGED <<clock, checkpoints, obscured>> /\ (cursor' = cursor \/ cursor' = fetch.end)
    BY <1>7 DEF Use, CursorAfter
  <2>2. cursor' \in Moment
    BY <2>1 DEF SegmentsInv, RunFits, Running
  <2>3. QED
    BY <2>1, <2>2, RunGone
<1>8. CASE DegradedPass \/ UNCHANGED fetchVars
  <2>1. UNCHANGED <<clock, cursor, checkpoints, fetch, obscured>>
    BY <1>8 DEF DegradedPass, fetchVars
  <2>2. CheckpointsFit' /\ RunFits'
    BY <2>1 DEF SegmentsInv, CheckpointsFit, RunFits, Running, IsFetch, Open, Segment
  <2>3. QED
    BY <2>1, <2>2 DEF SegmentsInv, RunIsWhole, SegmentsAreWhole, Whole, Published, Open
<1>9. QED
  BY <1>1, <1>2, <1>3, <1>4, <1>5, <1>6, <1>7, <1>8 DEF FetchNext

----------------------------------------------------------------------------
(* Retrieval: the rotation of a degraded spell.                            *)

(* A source passed over n times in a row comes at least n batches before   *)
(* its turn, counted back from the end of the roster.                      *)
TurnComes ==
  /\ streak \in 0 .. Roster - 1 /\ passedOver \in Nat
  /\ passedOver # 0 => RotationStart = 0 \/ passedOver * Batch < RotationStart
  /\ NoSourceStarves

LEMMA RemainderIs ==
  ASSUME NEW n \in Nat, NEW R \in Nat \ {0}, NEW q \in Nat, NEW r \in 0 .. R - 1, n = q * R + r
  PROVE  n % R = r
<1>1. n \div R \in Int /\ n % R \in 0 .. R - 1
  BY Z3
<1>2. n = R * (n \div R) + (n % R)
  BY Z3
<1> DEFINE p == n \div R
           m == n % R
<1> HIDE DEF p, m
<1>3. p \in Int /\ m \in 0 .. R - 1 /\ n = R * p + m
  BY <1>1, <1>2 DEF p, m
<1>4. ~(p < q)
  <2>1. SUFFICES ASSUME p + 1 <= q PROVE FALSE
    BY <1>3
  <2>2. R * (p + 1) <= R * q
    BY <1>3, <2>1
  <2>3. QED
    BY <1>3, <2>2
<1>5. ~(q < p)
  <2>1. SUFFICES ASSUME q + 1 <= p PROVE FALSE
    BY <1>3
  <2>2. R * (q + 1) <= R * p
    BY <1>3, <2>1
  <2>3. QED
    BY <1>3, <2>2
<1>6. p = q
  BY <1>3, <1>4, <1>5
<1>7. m = r
  BY <1>3, <1>6
<1>8. QED
  BY <1>7 DEF m

(* The rotation moves on by one batch, and comes round to the beginning.   *)
LEMMA Rotates ==
  ASSUME NEW s \in Nat, NEW R \in Nat \ {0}, NEW B \in Nat, s < R, ((s * B) % R) + B <= R
  PROVE  /\ (s * B) % R \in 0 .. R - 1
         /\ LET next == (((s + 1) % R) * B) % R IN
            next = 0 \/ next = ((s * B) % R) + B
<1> DEFINE n == s * B
           q == n \div R
           r == n % R
           next == (((s + 1) % R) * B) % R
<1>1. n \in Nat
  BY Z3
<1>2. q \in Nat /\ r \in 0 .. R - 1 /\ n = R * q + r
  <2> HIDE DEF n
  <2>1. n \div R \in Nat /\ n % R \in 0 .. R - 1
    BY <1>1, Z3
  <2>2. n = R * (n \div R) + (n % R)
    BY <1>1, Z3
  <2>3. QED
    BY <2>1, <2>2
<1>3. r + B <= R
  OBVIOUS
<1> HIDE DEF q, r
<1>4. CASE s + 1 < R
  <2>1. (s + 1) % R = s + 1
    <3>1. s + 1 = 0 * R + (s + 1) /\ s + 1 \in 0 .. R - 1 /\ s + 1 \in Nat
      BY <1>4
    <3>2. QED
      BY <3>1, RemainderIs
  <2>2. (s + 1) * B = n + B /\ n + B \in Nat
    BY <1>1
  <2> HIDE DEF n
  <2>3. CASE r + B < R
    <3>1. n + B = q * R + (r + B) /\ r + B \in 0 .. R - 1
      BY <1>2, <2>3
    <3>2. (n + B) % R = r + B
      BY <1>2, <2>2, <3>1, RemainderIs
    <3>3. QED
      BY <1>2, <2>1, <2>2, <3>2 DEF r, n
  <2>4. CASE r + B = R
    <3>1. n + B = (q + 1) * R + 0 /\ 0 \in 0 .. R - 1 /\ q + 1 \in Nat
      BY <1>2, <2>4
    <3>2. (n + B) % R = 0
      BY <1>2, <2>2, <3>1, RemainderIs
    <3>3. QED
      BY <1>2, <2>1, <2>2, <3>2 DEF r, n
  <2>5. QED
    BY <1>2, <1>3, <2>3, <2>4
<1>5. CASE s + 1 = R
  <2>1. (s + 1) % R = 0
    <3>1. s + 1 = 1 * R + 0 /\ 0 \in 0 .. R - 1 /\ s + 1 \in Nat
      BY <1>5
    <3>2. QED
      BY <3>1, RemainderIs
  <2>2. 0 * B = 0 * R + 0 /\ 0 * B \in Nat /\ 0 \in 0 .. R - 1
    OBVIOUS
  <2>3. (0 * B) % R = 0
    BY <2>2, RemainderIs
  <2>4. QED
    BY <1>2, <2>1, <2>3 DEF r, n
<1>6. QED
  BY <1>4, <1>5

(* A batch that does not have the source ends before the roster does.      *)
LEMMA NotInBatch ==
  ASSUME NEW start \in 0 .. Roster - 1, ~InBatch(start)
  PROVE  0 < start /\ start + Batch <= Roster
<1>1. Roster \in Nat \ {0} /\ Batch \in Nat \ {0}
  BY RetrievalConstants
<1>2. \A i \in 0 .. Batch - 1 : (start + i) % Roster # 0
  BY DEF InBatch
<1>3. ASSUME start = 0 PROVE FALSE
  <2>1. start + 0 = 0 * Roster + 0 /\ 0 \in 0 .. Roster - 1 /\ start + 0 \in Nat /\ 0 \in 0 .. Batch - 1
    BY <1>1, <1>3
  <2>2. (start + 0) % Roster = 0
    BY <1>1, <2>1, RemainderIs
  <2>3. QED
    BY <1>2, <2>1, <2>2
<1>4. ASSUME Roster < start + Batch PROVE FALSE
  <2> DEFINE i == Roster - start
  <2>1. i \in 0 .. Batch - 1 /\ start + i = 1 * Roster + 0 /\ start + i \in Nat /\ 0 \in 0 .. Roster - 1
    BY <1>1, <1>4
  <2>2. (start + i) % Roster = 0
    <3> HIDE DEF i
    <3>1. QED
      BY <1>1, <2>1, RemainderIs
  <2>3. QED
    BY <1>2, <2>1, <2>2
<1>5. QED
  BY <1>1, <1>3, <1>4

LEMMA InitTurn == FetchInit => TurnComes
<1>1. Roster \in Nat \ {0} /\ Batch \in Nat \ {0}
  BY RetrievalConstants
<1>2. QED
  BY <1>1 DEF FetchInit, TurnComes, NoSourceStarves

LEMMA NextTurn == TurnComes /\ [FetchNext]_fetchVars => TurnComes'
<1> SUFFICES ASSUME TurnComes, [FetchNext]_fetchVars PROVE TurnComes'
  OBVIOUS
<1>1. Roster \in Nat \ {0} /\ Batch \in Nat \ {0}
  BY RetrievalConstants
<1>2. ASSUME UNCHANGED <<streak, passedOver>> PROVE TurnComes'
  BY <1>2 DEF TurnComes, NoSourceStarves, RotationStart
<1>3. (streak + 1) % Roster \in 0 .. Roster - 1
  <2>1. streak + 1 \in Nat
    BY DEF TurnComes
  <2> DEFINE n == streak + 1
  <2> HIDE DEF n
  <2>2. n \in Nat /\ n % Roster \in 0 .. Roster - 1
    BY <1>1, <2>1, Z3 DEF n
  <2>3. QED
    BY <2>2 DEF n
<1>4. CASE Use
  <2>1. CASE fetch.caller = "daily"
    <3>1. passedOver' = 0 /\ (streak' = 0 \/ streak' = (streak + 1) % Roster)
      BY <1>4, <2>1 DEF Use
    <3>2. QED
      BY <1>1, <1>3, <3>1 DEF TurnComes, NoSourceStarves
  <2>2. CASE fetch.caller # "daily"
    BY <1>2, <1>4, <2>2 DEF Use
  <2>3. QED
    BY <2>1, <2>2
<1>5. CASE DegradedPass
  <2>1. streak' = IF Roster <= Batch THEN 0 ELSE (streak + 1) % Roster
    BY <1>5 DEF DegradedPass
  <2>2. streak' \in 0 .. Roster - 1
    BY <1>1, <1>3, <2>1
  <2>3. CASE InBatch(RotationStart)
    <3>1. passedOver' = 0
      BY <1>5, <2>3 DEF DegradedPass
    <3>2. QED
      BY <1>1, <2>2, <3>1 DEF TurnComes, NoSourceStarves
  <2>4. CASE ~InBatch(RotationStart)
    <3>1. passedOver' = passedOver + 1
      BY <1>5, <2>4 DEF DegradedPass
    <3>2. CASE Roster <= Batch
      <4>1. RotationStart = 0
        BY <3>2 DEF RotationStart
      <4>2. QED
        BY <1>1, <2>4, <4>1, NotInBatch
    <3>3. CASE ~(Roster <= Batch)
      <4>1. RotationStart = (streak * Batch) % Roster /\ streak' = (streak + 1) % Roster
            /\ RotationStart' = (((streak + 1) % Roster) * Batch) % Roster
        BY <2>1, <3>3 DEF RotationStart
      <4>2. streak \in Nat /\ streak < Roster
        BY <1>1 DEF TurnComes
      <4>3. RotationStart \in 0 .. Roster - 1
        <5>1. streak * Batch \in Nat
          BY <1>1, <4>2, Z3
        <5> DEFINE n == streak * Batch
        <5> HIDE DEF n
        <5>2. n \in Nat /\ n % Roster \in 0 .. Roster - 1
          BY <1>1, <5>1, Z3 DEF n
        <5>3. QED
          BY <4>1, <5>2 DEF n
      <4>4. 0 < RotationStart /\ RotationStart + Batch <= Roster
        BY <2>4, <4>3, NotInBatch
      <4>5. RotationStart' = 0 \/ RotationStart' = RotationStart + Batch
        <5>1. ((streak * Batch) % Roster) + Batch <= Roster
          BY <4>1, <4>4
        <5>2. LET next == (((streak + 1) % Roster) * Batch) % Roster IN
              next = 0 \/ next = ((streak * Batch) % Roster) + Batch
          BY <1>1, <4>2, <5>1, Rotates
        <5>3. QED
          BY <4>1, <5>2
      <4>6. passedOver * Batch < RotationStart /\ passedOver \in Nat
        BY <1>1, <4>4 DEF TurnComes
      <4> DEFINE n == passedOver * Batch
                 m == RotationStart
      <4>7. n \in Nat /\ (passedOver + 1) * Batch = n + Batch
        BY <1>1, <4>6
      <4> HIDE DEF n
      <4>8. n < m /\ m \in Nat /\ m + Batch <= Roster
        BY <4>3, <4>4, <4>6 DEF n
      <4>9. passedOver' * Batch = n + Batch
        BY <3>1, <4>7
      <4>10. passedOver' * Batch < Roster /\ (RotationStart' = 0 \/ passedOver' * Batch < RotationStart')
        <5> HIDE DEF m
        <5>1. RotationStart' = 0 \/ RotationStart' = m + Batch
          BY <4>5 DEF m
        <5>2. QED
          BY <1>1, <4>7, <4>8, <4>9, <5>1
      <4>11. passedOver' \in Nat
        BY <3>1, <4>6
      <4>12. QED
        BY <2>2, <4>10, <4>11 DEF TurnComes, NoSourceStarves
    <3>4. QED
      BY <3>2, <3>3
  <2>5. QED
    BY <2>3, <2>4
<1>6. CASE PostAppears \/ Begin \/ ReadAnyPage \/ CursorStalls \/ PageFails \/ Cut
  BY <1>2, <1>6 DEF PostAppears, Begin, ReadAnyPage, ReadPage, CursorStalls, PageFails, Cut
<1>7. CASE UNCHANGED fetchVars
  BY <1>2, <1>7 DEF fetchVars
<1>8. QED
  BY <1>4, <1>5, <1>6, <1>7 DEF FetchNext

(* What the runs check of a source read on X, and by what machine: the run *)
(* and the rotation, whatever evidence is collected beside them.           *)
THEOREM SegmentsStayWhole == EvidenceInit /\ [][EvidenceNext]_evidenceVars => []SegmentsAreWhole
<1>1. EvidenceInit => SegmentsInv
  BY EvidenceWatches, InitSegments
<1>2. SegmentsInv /\ [EvidenceNext]_evidenceVars => SegmentsInv'
  BY EvidenceWatches, NextSegments
<1>3. SegmentsInv => SegmentsAreWhole
  BY DEF SegmentsInv
<1>4. QED
  BY <1>1, <1>2, <1>3, PTL

(* While X stays degraded, the rotation comes round to every source in     *)
(* turn.                                                                   *)
THEOREM RotationIsFair == EvidenceInit /\ [][EvidenceNext]_evidenceVars => []NoSourceStarves
<1>1. EvidenceInit => TurnComes
  BY EvidenceWatches, InitTurn
<1>2. TurnComes /\ [EvidenceNext]_evidenceVars => TurnComes'
  BY EvidenceWatches, NextTurn
<1>3. TurnComes => NoSourceStarves
  BY DEF TurnComes
<1>4. QED
  BY <1>1, <1>2, <1>3, PTL

-----------------------------------------------------------------------------
(* Retrieval and Evidence: of which posts they speak, and their bounds.    *)

(* Posts that exist, and places within the time there is.                  *)
Existing == 1 .. clock - 1

(* What a checkpoint can hold.                                             *)
CheckpointHolds(c) ==
  c.from \in 0 .. LastTick /\ c.to \in 0 .. LastTick /\ c.below \in 0 .. LastTick /\ c.found \subseteq Existing

(* A run that pages is within its budget, or came to the time since its    *)
(* checkpoint with the page that used it up.                               *)
WithinBudget(f) ==
  /\ f.seen \in Nat /\ f.seen < Budget + 2 * LastTick
  /\ f.phase = "paging" => f.seen < Budget \/ (f.to = f.end /\ f.seen < Budget + LastTick)

(* The checkpoints, the run in hand and what was gathered are of posts that *)
(* exist.                                                                  *)
ReadingHolds ==
  /\ \A k \in Moment : CheckpointHolds(checkpoints[k])
  /\ fetch.caller \in Callers \cup {"none"} /\ fetch.found \subseteq Existing /\ WithinBudget(fetch)
  /\ gathered \subseteq Existing /\ fetchFaults \in 0 .. FetchFaults

(* Nothing has been read.                                                  *)
LEMMA InitReading == FetchInit => ReadingHolds
<1> SUFFICES ASSUME FetchInit PROVE ReadingHolds
  OBVIOUS
<1>1. /\ clock = 1 /\ checkpoints = [k \in Moment |-> NoCheckpoint] /\ fetch = NoFetch
      /\ fetchFaults = 0 /\ gathered = {}
  BY DEF FetchInit
<1>2. LastTick \in Nat /\ Budget \in Nat \ {0} /\ FetchFaults \in Nat
  BY RetrievalConstants
<1>3. CheckpointHolds(NoCheckpoint)
  BY <1>2 DEF CheckpointHolds, NoCheckpoint, Top
<1>4. NoFetch.caller = "none" /\ NoFetch.found = {} /\ NoFetch.seen = 0 /\ NoFetch.phase = "idle"
  BY DEF NoFetch
<1>5. WithinBudget(fetch)
  BY <1>1, <1>2, <1>4 DEF WithinBudget
<1>6. fetchFaults \in 0 .. FetchFaults
  BY <1>1, <1>2
<1>7. QED
  BY <1>1, <1>3, <1>4, <1>5, <1>6 DEF ReadingHolds

(* What a page adds to what a run has seen.                                *)
LEMMA PageCounts ==
  ASSUME clock \in Moment, IsFetch(fetch), fetch.seen \in Nat, NEW r \in Readings(PageBelow(fetch.below))
  PROVE  LET f == After(fetch, PageBelow(fetch.below), r) IN
         /\ f.caller = fetch.caller /\ f.seen \in Nat /\ f.seen <= fetch.seen + LastTick
         /\ Kept(fetch, r) \subseteq Existing
<1> DEFINE page == PageBelow(fetch.below)
           counted == {t \in r.posts : t >= fetch.from}
           C == IF Crossed(fetch, r) THEN 1 ELSE 0
           P == fetch.found \cup Kept(fetch, r)
           M == fetch.seen + Cardinality(counted) + C
           B == IF page = {} THEN Top ELSE Oldest(page)
           f == After(fetch, page, r)
<1>1. clock \in Nat /\ clock >= 1 /\ clock <= LastTick /\ LastTick \in Nat
  BY RetrievalConstants DEF Moment
<1>2. r.posts \subseteq 1 .. clock - 1
  BY ConvertedPosts
<1>3. Cardinality(counted) \in Nat /\ Cardinality(counted) <= clock - 1
  <2> DEFINE n == clock - 1
             U == 1 .. n
  <2>1. n \in Nat
    BY <1>1
  <2>3. counted \in SUBSET U
    BY <1>2
  <2> HIDE DEF n, counted
  <2>2. IsFiniteSet(1 .. n) /\ Cardinality(1 .. n) = n
    BY <2>1, FS_Interval
  <2>4. Cardinality(counted) \in Nat /\ Cardinality(counted) <= n
    BY <2>1, <2>2, <2>3, FS_Subset, FS_CardinalityType
  <2>5. QED
    BY <2>4 DEF n
<1>4. C \in {0, 1}
  OBVIOUS
<1>5. f = AtPage(fetch, P, M, B)
  BY DEF After, AtPage
<1>6. Kept(fetch, r) \subseteq Existing
  BY <1>2 DEF Kept, Existing
<1> HIDE DEF P, B, C, counted, f
<1>7. M \in Nat /\ M <= fetch.seen + LastTick
  BY <1>1, <1>3, <1>4
<1> HIDE DEF M
<1>8. f \in FetchWith({fetch.caller}, {fetch.start}, {fetch.end}, {fetch.key}, {fetch.from}, {fetch.to},
                      {B}, {P}, {M}, {fetch.phase})
  BY <1>5, FetchChanges
<1>9. f.caller = fetch.caller /\ f.seen = M
  BY <1>8 DEF FetchWith
<1>10. QED
  BY <1>6, <1>7, <1>9 DEF f

(* A checkpoint saved or dropped.                                          *)
LEMMA SavedHolds ==
  ASSUME SegmentsInv, \A k \in Moment : CheckpointHolds(checkpoints[k]), UNCHANGED clock,
         NEW f, f.key \in Moment, Segment(f), f.found \subseteq Existing,
         checkpoints' \in {Saved(f), Cleared(f)}
  PROVE  \A k \in Moment : CheckpointHolds(checkpoints[k])'
<1> DEFINE c == [from |-> f.from, to |-> f.to, below |-> f.below, found |-> f.found]
<1>0. LastTick \in Nat
  BY RetrievalConstants
<1>1. c.from = f.from /\ c.to = f.to /\ c.below = f.below /\ c.found = f.found
  OBVIOUS
<1>2. CheckpointHolds(c)
  <2> HIDE DEF c
  <2>1. QED
    BY <1>0, <1>1 DEF CheckpointHolds, Segment, Moment
<1>3. CheckpointHolds(NoCheckpoint)
  BY <1>0 DEF CheckpointHolds, NoCheckpoint, Top
<1>4. checkpoints' = [checkpoints EXCEPT ![f.key] = c] \/ checkpoints' = [checkpoints EXCEPT ![f.key] = NoCheckpoint]
  BY DEF Saved, Cleared
<1> HIDE DEF c
<1>5. \A k \in Moment : checkpoints'[k] \in {checkpoints[k], c, NoCheckpoint}
  BY <1>4 DEF SegmentsInv, CheckpointsFit
<1>6. \A k \in Moment : CheckpointHolds(checkpoints'[k])
  BY <1>2, <1>3, <1>5
<1>7. QED
  BY <1>6 DEF CheckpointHolds, Existing

(* A page read.                                                            *)
LEMMA ReadPageHolds ==
  ASSUME SegmentsInv, ReadingHolds, ReadAnyPage
  PROVE  /\ fetch'.caller = fetch.caller /\ fetch'.found \subseteq Existing /\ WithinBudget(fetch')
         /\ \A k \in Moment : CheckpointHolds(checkpoints[k])'
<1> DEFINE page == PageBelow(fetch.below)
<1>1. PICK r \in Readings(page) : ReadPage(r)
  BY DEF ReadAnyPage
<1> DEFINE f == After(fetch, page, r)
           partial == IF f.seen >= Budget THEN "partial" ELSE f.phase
<1>2. /\ fetch.phase = "paging" /\ UNCHANGED clock
      /\ SegmentEnds(f) \/ SegmentContinues(f)
  BY <1>1 DEF ReadPage
<1>3. /\ IsFetch(f) /\ f.phase = "paging" /\ f.key = fetch.key /\ f.end = fetch.end
      /\ f.from = fetch.from /\ f.to = fetch.to
      /\ f.found = fetch.found \cup Kept(fetch, r)
      /\ Segment(f) /\ f.key \in Moment
  BY <1>2, PageGrows
<1>4. /\ clock \in Moment /\ fetch.end \in Moment /\ fetch.end <= clock /\ IsFetch(fetch)
      /\ LastTick \in Nat /\ Budget \in Nat
  BY <1>2, RetrievalConstants DEF SegmentsInv, RunFits, Running
<1>5. /\ f.caller = fetch.caller /\ f.seen \in Nat /\ f.seen <= fetch.seen + LastTick
      /\ f.found \subseteq Existing
  <2>1. fetch.seen \in Nat /\ fetch.found \subseteq Existing
    BY DEF ReadingHolds, WithinBudget
  <2>2. f.caller = fetch.caller /\ f.seen \in Nat /\ f.seen <= fetch.seen + LastTick
        /\ Kept(fetch, r) \subseteq Existing
    BY <1>4, <2>1, PageCounts
  <2> HIDE DEF f
  <2>3. QED
    BY <1>3, <2>1, <2>2
<1>6. /\ f.seen < Budget + 2 * LastTick
      /\ f.to # f.end => f.seen < Budget + LastTick
  <2>1. /\ fetch.seen \in Nat
        /\ fetch.seen < Budget \/ (fetch.to = fetch.end /\ fetch.seen < Budget + LastTick)
    BY <1>2 DEF ReadingHolds, WithinBudget
  <2> HIDE DEF f
  <2>2. QED
    BY <1>3, <1>4, <1>5, <2>1
<1> HIDE DEF f
<1>7. CASE SegmentContinues(f)
  <2>1. checkpoints' = Saved(f) /\ fetch' = AtPhase(f, partial)
    BY <1>7 DEF SegmentContinues, AtPhase
  <2>2. partial \in {"paging", "partial"} /\ (partial = "paging" => f.seen < Budget)
    BY <1>3, <1>4, <1>5
  <2> HIDE DEF partial
  <2>3. fetch' \in FetchWith({f.caller}, {f.start}, {f.end}, {f.key}, {f.from}, {f.to}, {f.below}, {f.found},
                        {f.seen}, {partial})
    BY <1>3, <2>1, FetchChanges
  <2>4. fetch'.caller = f.caller /\ fetch'.found = f.found /\ fetch'.seen = f.seen /\ fetch'.phase = partial
    BY <2>3 DEF FetchWith
  <2>5. WithinBudget(fetch')
    BY <1>5, <1>6, <2>2, <2>4 DEF WithinBudget
  <2>6. \A k \in Moment : CheckpointHolds(checkpoints[k])'
    BY <1>2, <1>3, <1>5, <2>1, SavedHolds DEF ReadingHolds
  <2>7. QED
    BY <1>5, <2>4, <2>5, <2>6
<1>8. CASE SegmentEnds(f) /\ f.end > f.to
  <2> DEFINE g == AtSegment(f)
  <2>1. checkpoints' = Saved(g) /\ fetch' = g
    BY <1>8 DEF SegmentEnds, AtSegment
  <2>2. g \in FetchWith({f.caller}, {f.start}, {f.end}, {f.key}, {f.to}, {f.end}, {Top}, {f.found},
                        {f.seen}, {f.phase})
    BY <1>3, FetchChanges
  <2> HIDE DEF g
  <2>3. /\ g.caller = f.caller /\ g.found = f.found /\ g.seen = f.seen /\ g.phase = "paging"
        /\ g.from = f.to /\ g.to = f.end /\ g.below = Top /\ g.key = f.key /\ g.end = f.end
    BY <1>3, <2>2 DEF FetchWith
  <2>4. f.to # f.end /\ f.to \in Moment /\ f.end \in Moment /\ f.to < f.end /\ f.end <= clock
        /\ Top \in 0 .. LastTick
    BY <1>3, <1>4, <1>8 DEF Segment, Moment, Top
  <2>5. WithinBudget(fetch')
    BY <1>5, <1>6, <2>1, <2>3, <2>4 DEF WithinBudget
  <2>6. Segment(g)
    BY <2>3, <2>4 DEF Segment
  <2>7. g.key \in Moment /\ g.found \subseteq Existing /\ checkpoints' \in {Saved(g), Cleared(g)}
    BY <1>3, <1>5, <2>1, <2>3
  <2>8. \A k \in Moment : CheckpointHolds(checkpoints[k])'
    BY <1>2, <2>6, <2>7, SavedHolds DEF ReadingHolds
  <2>9. QED
    BY <1>5, <2>1, <2>3, <2>5, <2>8
<1>9. CASE SegmentEnds(f) /\ ~(f.end > f.to)
  <2>1. checkpoints' = Cleared(f) /\ fetch' = AtPhase(f, "complete")
    BY <1>9 DEF SegmentEnds, AtPhase
  <2>2. fetch' \in FetchWith({f.caller}, {f.start}, {f.end}, {f.key}, {f.from}, {f.to}, {f.below}, {f.found},
                        {f.seen}, {"complete"})
    BY <1>3, <2>1, FetchChanges
  <2>3. fetch'.caller = f.caller /\ fetch'.found = f.found /\ fetch'.seen = f.seen /\ fetch'.phase = "complete"
    BY <2>2 DEF FetchWith
  <2>4. WithinBudget(fetch')
    BY <1>5, <1>6, <2>3 DEF WithinBudget
  <2>5. \A k \in Moment : CheckpointHolds(checkpoints[k])'
    BY <1>2, <1>3, <1>5, <2>1, SavedHolds DEF ReadingHolds
  <2>6. QED
    BY <1>5, <2>3, <2>4, <2>5
<1>10. QED
  BY <1>2, <1>7, <1>8, <1>9

(* A page that came with its own cursor.                                   *)
LEMMA CursorStallsHolds ==
  ASSUME SegmentsInv, ReadingHolds, CursorStalls
  PROVE  /\ fetch'.caller = fetch.caller /\ fetch'.found \subseteq Existing /\ WithinBudget(fetch')
         /\ \A k \in Moment : CheckpointHolds(checkpoints[k])'
<1> DEFINE page == PageBelow(fetch.below)
           r == [posts |-> page, stray |-> FALSE, bare |-> FALSE]
           a == After(fetch, page, r)
           f == AtStall(a, fetch.below)
<1>1. /\ fetch.phase = "paging" /\ UNCHANGED clock /\ fetch' = f /\ checkpoints' = Saved(f)
  BY DEF CursorStalls, AtStall
<1>2. r \in Readings(page)
  BY DEF Readings
<1>3. /\ clock \in Moment /\ IsFetch(fetch) /\ LastTick \in Nat /\ Budget \in Nat
      /\ Segment(fetch) /\ fetch.key \in Moment /\ fetch.seen \in Nat /\ fetch.found \subseteq Existing
      /\ fetch.seen < Budget \/ fetch.seen < Budget + LastTick
  BY <1>1, RetrievalConstants DEF SegmentsInv, RunFits, Running, ReadingHolds, WithinBudget
<1> HIDE DEF r
<1>4. /\ IsFetch(a) /\ a.key = fetch.key /\ a.from = fetch.from /\ a.to = fetch.to
      /\ a.found = fetch.found \cup Kept(fetch, r)
  BY <1>1, <1>2, PageGrows
<1>5. /\ a.caller = fetch.caller /\ a.seen \in Nat /\ a.seen <= fetch.seen + LastTick
      /\ Kept(fetch, r) \subseteq Existing
  BY <1>2, <1>3, PageCounts
<1> HIDE DEF a
<1>6. f \in FetchWith({a.caller}, {a.start}, {a.end}, {a.key}, {a.from}, {a.to}, {fetch.below}, {a.found},
                      {a.seen}, {"partial"})
  BY <1>4, FetchChanges
<1> HIDE DEF f
<1>7. /\ f.caller = a.caller /\ f.found = a.found /\ f.seen = a.seen /\ f.phase = "partial"
      /\ f.key = a.key /\ f.from = a.from /\ f.to = a.to /\ f.below = fetch.below
  BY <1>6 DEF FetchWith
<1>8. WithinBudget(f)
  BY <1>3, <1>5, <1>7 DEF WithinBudget
<1>9. Segment(f) /\ f.key \in Moment /\ f.found \subseteq Existing
  BY <1>3, <1>4, <1>5, <1>7 DEF Segment
<1>10. \A k \in Moment : CheckpointHolds(checkpoints[k])'
  BY <1>1, <1>9, SavedHolds DEF ReadingHolds
<1>11. QED
  BY <1>1, <1>5, <1>7, <1>8, <1>9, <1>10

(* A run that failed.                                                      *)
LEMMA PageFailsHolds ==
  ASSUME SegmentsInv, ReadingHolds, PageFails
  PROVE  /\ fetch'.caller = fetch.caller /\ fetch'.found \subseteq Existing /\ WithinBudget(fetch')
         /\ \A k \in Moment : CheckpointHolds(checkpoints[k])'
<1>1. fetch.phase = "paging" /\ UNCHANGED clock
  BY DEF PageFails
<1>2. PICK recovered \in {{}} \cup {Published(t, fetch.end) : t \in fetch.from .. fetch.end} :
        LET f == [fetch EXCEPT !.found = @ \cup recovered, !.phase = "partial"] IN
        fetch' = f /\ checkpoints' = Saved(f)
  BY DEF PageFails
<1> DEFINE f == [fetch EXCEPT !.found = @ \cup recovered, !.phase = "partial"]
<1>3. /\ clock \in Moment /\ IsFetch(fetch) /\ Segment(fetch) /\ fetch.key \in Moment
      /\ fetch.found \subseteq Existing /\ fetch.seen \in Nat /\ fetch.seen < Budget + 2 * LastTick
  BY <1>1 DEF SegmentsInv, RunFits, Running, ReadingHolds, WithinBudget
<1>4. recovered \subseteq Existing
  <2>1. clock \in Int /\ LastTick \in Int
    BY <1>3, RetrievalConstants DEF Moment
  <2>2. QED
    BY <1>2, <2>1 DEF Published, Existing, Moment
<1>5. f \in FetchWith({fetch.caller}, {fetch.start}, {fetch.end}, {fetch.key}, {fetch.from}, {fetch.to},
                      {fetch.below}, {fetch.found \cup recovered}, {fetch.seen}, {"partial"})
  BY <1>3 DEF FetchWith, IsFetch
<1>6. fetch' = f /\ checkpoints' = Saved(f)
  BY <1>2
<1> HIDE DEF f
<1>7. /\ f.phase = "partial" /\ f.key = fetch.key /\ f.from = fetch.from /\ f.caller = fetch.caller
      /\ f.to = fetch.to /\ f.below = fetch.below /\ f.found = fetch.found \cup recovered /\ f.seen = fetch.seen
  BY <1>5 DEF FetchWith
<1>8. Segment(f) /\ f.found \subseteq Existing /\ f.key \in Moment
  BY <1>3, <1>4, <1>7 DEF Segment
<1>9. WithinBudget(f)
  BY <1>3, <1>7 DEF WithinBudget
<1>10. \A k \in Moment : CheckpointHolds(checkpoints[k])'
  BY <1>1, <1>6, <1>8, SavedHolds DEF ReadingHolds
<1>11. QED
  BY <1>6, <1>7, <1>8, <1>9, <1>10

(* One step per action; <1>read is what reading on, stalling and failing   *)
(* have in common, <1>gone the end of a run.                               *)
LEMMA NextReading == SegmentsInv /\ ReadingHolds /\ [FetchNext]_fetchVars => ReadingHolds'
<1> SUFFICES ASSUME SegmentsInv, ReadingHolds, [FetchNext]_fetchVars PROVE ReadingHolds'
  OBVIOUS
<1>0. /\ \A k \in Moment : CheckpointHolds(checkpoints[k])
      /\ fetch.caller \in Callers \cup {"none"} /\ fetch.found \subseteq Existing /\ WithinBudget(fetch)
      /\ gathered \subseteq Existing /\ fetchFaults \in 0 .. FetchFaults /\ clock \in Moment
      /\ LastTick \in Nat /\ FetchFaults \in Nat /\ Budget \in Nat \ {0}
  BY RetrievalConstants DEF ReadingHolds, SegmentsInv
<1>budget. \A f : WithinBudget(f)' <=> WithinBudget(f)
  BY DEF WithinBudget
<1>faults. Flawed \/ Flawless => fetchFaults' \in 0 .. FetchFaults
  BY <1>0 DEF Flawed, Flawless
<1>same. ASSUME UNCHANGED <<clock, checkpoints>> PROVE \A k \in Moment : CheckpointHolds(checkpoints[k])'
  BY <1>0, <1>same DEF CheckpointHolds, Existing
<1>read. ASSUME fetch'.caller = fetch.caller, fetch'.found \subseteq Existing, WithinBudget(fetch'),
                \A k \in Moment : CheckpointHolds(checkpoints[k])', UNCHANGED <<clock, gathered>>,
                Flawed \/ Flawless
         PROVE  ReadingHolds'
  BY <1>0, <1>read, <1>faults DEF ReadingHolds, WithinBudget, Existing
<1>gone. ASSUME fetch' = NoFetch, UNCHANGED <<clock, checkpoints>>, gathered' \subseteq Existing,
                Flawed \/ Flawless
         PROVE  ReadingHolds'
  <2>1. NoFetch.caller = "none" /\ NoFetch.found = {} /\ NoFetch.seen = 0 /\ NoFetch.phase = "idle"
    BY DEF NoFetch
  <2>2. WithinBudget(NoFetch)
    BY <1>0, <2>1 DEF WithinBudget
  <2>3. QED
    BY <1>0, <1>gone, <1>same, <1>faults, <2>1, <2>2 DEF ReadingHolds, WithinBudget, Existing
<1>1. CASE PostAppears
  <2>1. clock' = clock + 1 /\ UNCHANGED <<checkpoints, fetch, fetchFaults, gathered>>
    BY <1>1 DEF PostAppears
  <2>2. Existing \subseteq Existing'
    BY <1>0, <2>1 DEF Existing, Moment
  <2>3. \A k \in Moment : CheckpointHolds(checkpoints[k])'
    <3> SUFFICES ASSUME NEW k \in Moment PROVE CheckpointHolds(checkpoints[k])'
      OBVIOUS
    <3> DEFINE c == checkpoints[k]
    <3>1. c' = c /\ CheckpointHolds(c)
      BY <1>0, <2>1
    <3>2. QED
      BY <2>2, <3>1 DEF CheckpointHolds
  <2>4. WithinBudget(fetch)'
    BY <1>0, <2>1 DEF WithinBudget
  <2>5. QED
    BY <1>0, <2>1, <2>2, <2>3, <2>4 DEF ReadingHolds
<1>2. CASE Begin
  <2>1. /\ fetch'.phase = "paging" /\ UNCHANGED <<clock, checkpoints>>
        /\ fetch'.caller \in Callers /\ fetch'.seen = 0
        /\ fetch'.found = {} \/ \E k \in Moment : fetch'.found = checkpoints[k].found
    BY <1>2, RunBegins
  <2>2. UNCHANGED <<fetchFaults, gathered>>
    BY <1>2 DEF Begin
  <2>3. fetch'.found \subseteq Existing
    BY <1>0, <2>1 DEF CheckpointHolds
  <2>4. WithinBudget(fetch)'
    BY <1>0, <2>1 DEF WithinBudget
  <2>5. QED
    BY <1>0, <1>same, <2>1, <2>2, <2>3, <2>4 DEF ReadingHolds, Existing
<1>3. CASE ReadAnyPage
  <2>1. UNCHANGED <<clock, gathered>> /\ (Flawed \/ Flawless)
    BY <1>3 DEF ReadAnyPage, ReadPage
  <2>2. QED
    BY <1>3, <1>read, <2>1, ReadPageHolds
<1>4. CASE CursorStalls
  <2>1. UNCHANGED <<clock, gathered>> /\ Flawed
    BY <1>4 DEF CursorStalls
  <2>2. QED
    BY <1>4, <1>read, <2>1, CursorStallsHolds
<1>5. CASE PageFails
  <2>1. UNCHANGED <<clock, gathered>> /\ Flawed
    BY <1>5 DEF PageFails
  <2>2. QED
    BY <1>5, <1>read, <2>1, PageFailsHolds
<1>6. CASE Cut
  BY <1>0, <1>6, <1>gone DEF Cut
<1>7. CASE Use
  <2>1. fetch' = NoFetch /\ UNCHANGED <<clock, checkpoints>> /\ (Flawed \/ Flawless)
        /\ gathered' = gathered \cup Used
    BY <1>7 DEF Use
  <2>2. Used \subseteq fetch.found
    BY DEF Used
  <2>3. gathered' \subseteq Existing
    BY <1>0, <2>1, <2>2
  <2>4. QED
    BY <2>1, <2>3, <1>gone
<1>8. CASE DegradedPass
  <2>1. UNCHANGED <<clock, checkpoints, fetch>> /\ (Flawed \/ Flawless)
    BY <1>8 DEF DegradedPass
  <2>2. gathered' = gathered \/ \E t : gathered' = gathered \cup Published(t, clock)
    BY <1>8 DEF DegradedPass
  <2>3. \A t : Published(t, clock) \subseteq Existing
    BY <1>0 DEF Published, Existing, Moment
  <2>4. gathered' \subseteq Existing
    BY <1>0, <2>2, <2>3
  <2>5. WithinBudget(fetch)'
    BY <1>0, <2>1 DEF WithinBudget
  <2>6. QED
    BY <1>0, <1>faults, <1>same, <2>1, <2>4, <2>5 DEF ReadingHolds, Existing
<1>9. CASE UNCHANGED fetchVars
  <2>1. UNCHANGED <<clock, checkpoints, fetch, fetchFaults, gathered>>
    BY <1>9 DEF fetchVars
  <2>2. WithinBudget(fetch)'
    BY <1>0, <2>1 DEF WithinBudget
  <2>3. QED
    BY <1>0, <1>same, <2>1, <2>2 DEF ReadingHolds, Existing
<1>10. QED
  BY <1>1, <1>2, <1>3, <1>4, <1>5, <1>6, <1>7, <1>8, <1>9 DEF FetchNext

(* The two records: what they can say, and of which posts.                 *)
LedgerStates == {"", "attempting", "complete", "partial", "unproven"}
LedgerRows == [status : LedgerStates, through : 0 .. LastTick]
Verdicts == {"", "complete", "partial", "unproven"}

RecordsFit ==
  /\ raws \subseteq Existing /\ evidence.expected \subseteq Moment
  /\ ledger \in LedgerRows /\ verdict \in Verdicts
  /\ through \in [from : 0 .. LastTick, to : 0 .. LastTick]

(* The words for it.                                                       *)
LEMMA NamesOfEnds ==
  /\ "" \in Verdicts /\ "complete" \in Verdicts /\ "partial" \in Verdicts /\ "unproven" \in Verdicts
  /\ "" \in LedgerStates /\ "attempting" \in LedgerStates
  /\ "complete" \in LedgerStates /\ "partial" \in LedgerStates
BY Zenon DEF Verdicts, LedgerStates

(* Neither record says anything yet.                                       *)
LEMMA InitRecordsFit == EvidenceInit => RecordsFit
<1> SUFFICES ASSUME EvidenceInit PROVE RecordsFit
  OBVIOUS
<1> DEFINE blank == ledger.status
<1>0. LastTick \in Nat
  BY RetrievalConstants
<1>1. raws = {} /\ evidence = NoAttempt /\ through = [from |-> 0, to |-> 0]
  BY DEF EvidenceInit
<1>2. NoAttempt.expected = {}
  BY DEF NoAttempt
<1>3. verdict \in Verdicts
  <2>1. verdict = ""
    BY DEF EvidenceInit
  <2>2. QED
    BY <2>1, NamesOfEnds, Zenon
<1>4. ledger \in LedgerRows
  <2>1. \E e \in LedgerStates : ledger = [status |-> e, through |-> 0]
    <3>1. ledger = [status |-> "", through |-> 0]
      BY DEF EvidenceInit
    <3>2. QED
      BY <3>1, NamesOfEnds, Zenon
  <2>2. QED
    BY <1>0, <2>1 DEF LedgerRows
<1>5. QED
  BY <1>0, <1>1, <1>2, <1>3, <1>4 DEF RecordsFit

(* One step per action; <1>page is what a page read and a cursor that stalls *)
(* have in common.                                                         *)
LEMMA NextRecordsFit == EvidenceInv /\ RecordsFit /\ [EvidenceNext]_evidenceVars => RecordsFit'
<1> SUFFICES ASSUME EvidenceInv, RecordsFit, [EvidenceNext]_evidenceVars PROVE RecordsFit'
  OBVIOUS
<1>0. /\ raws \subseteq Existing /\ evidence.expected \subseteq Moment
      /\ ledger \in LedgerRows /\ verdict \in Verdicts
      /\ through \in [from : 0 .. LastTick, to : 0 .. LastTick]
      /\ clock \in Moment /\ LastTick \in Nat /\ IsAttempt(evidence) /\ RunInHand(fetch, evidence)
  BY RetrievalConstants DEF RecordsFit, EvidenceInv, EvidenceShape
<1>none. NoAttempt.expected = {} /\ \A o, b : [NoAttempt EXCEPT !.open = o, !.resumed = b].expected = {}
  BY DEF NoAttempt
<1>idle. ASSUME verdict' = "" PROVE verdict' \in Verdicts
  BY <1>idle, NamesOfEnds, Zenon
<1>page. ASSUME NEW r \in Readings(PageBelow(fetch.below)), NEW valid \in BOOLEAN,
                Watched(evidence, evidence', PageBelow(fetch.below), r, valid),
                raws' = raws \cup Converted(r), UNCHANGED <<clock, ledger, verdict, through>>
         PROVE  RecordsFit'
  <2>1. Converted(r) \subseteq 1 .. clock - 1
    BY <1>0, ConvertedPosts
  <2>2. PageBelow(fetch.below) \subseteq Moment
    <3>1. PageBelow(fetch.below) \subseteq 1 .. clock - 1
      BY PagePosts
    <3>2. QED
      BY <1>0, <3>1 DEF Moment
  <2>3. evidence'.expected \subseteq Moment
    BY <1>0, <1>page, <2>2 DEF Watched
  <2>4. raws' \subseteq Existing'
    BY <1>0, <1>page, <2>1 DEF Existing
  <2>5. QED
    BY <1>0, <1>page, <2>3, <2>4 DEF RecordsFit
<1>1. CASE PostAppears /\ Ignored
  <2>1. clock' = clock + 1 /\ UNCHANGED <<raws, ledger, evidence, verdict, through>>
    BY <1>1 DEF PostAppears, Ignored
  <2>2. Existing \subseteq Existing'
    BY <1>0, <2>1 DEF Existing, Moment
  <2>3. QED
    BY <1>0, <2>1, <2>2 DEF RecordsFit
<1>2. CASE Attempt
  <2>1. /\ UNCHANGED <<clock, raws, verdict, through>> /\ evidence'.expected = {}
    BY <1>2, <1>none DEF Attempt, Begin
  <2>2. ledger' \in LedgerRows
    <3>1. ledger' = [ledger EXCEPT !.status = "attempting"]
      BY <1>2 DEF Attempt
    <3>2. QED
      BY <1>0, <3>1, NamesOfEnds DEF LedgerRows
  <2>3. QED
    BY <1>0, <2>1, <2>2 DEF RecordsFit, Existing
<1>3. CASE ReadObserved
  <2> DEFINE page == PageBelow(fetch.below)
  <2>1. PICK r \in Readings(page), valid \in BOOLEAN :
          /\ ReadPage(r) /\ raws' = raws \cup Converted(r)
          /\ evidence' = IF fetch'.phase = "complete" THEN Closing(evidence, page, r, valid)
                         ELSE Observed(evidence, page, r, valid)
    BY <1>3 DEF ReadObserved
  <2>2. UNCHANGED <<clock, ledger, verdict, through>>
    BY <1>3, <2>1 DEF ReadObserved, ReadPage
  <2>3. Watched(evidence, evidence', page, r, valid)
    BY <1>0, <2>1, ObservedWatches, ClosingWatches
  <2>4. QED
    BY <2>1, <2>2, <2>3, <1>page
<1>4. CASE StallObserved
  <2> DEFINE page == PageBelow(fetch.below)
             r == [posts |-> page, stray |-> FALSE, bare |-> FALSE]
  <2>1. /\ raws' = raws \cup Converted(r) /\ evidence' = Observed(evidence, page, r, TRUE)
        /\ UNCHANGED <<clock, ledger, verdict, through>>
    BY <1>4 DEF StallObserved, CursorStalls
  <2>2. r \in Readings(page)
    BY DEF Readings
  <2>3. Watched(evidence, evidence', page, r, TRUE)
    BY <1>0, <2>1, ObservedWatches
  <2> HIDE DEF r
  <2>4. QED
    BY <2>1, <2>2, <2>3, <1>page
<1>5. CASE PageFails /\ Ignored
  <2>1. UNCHANGED <<clock, raws, ledger, evidence, verdict, through>>
    BY <1>5 DEF PageFails, Ignored
  <2>2. QED
    BY <1>0, <2>1 DEF RecordsFit, Existing
<1>6. CASE CutShort
  <2>1. UNCHANGED <<clock, raws, ledger, through>> /\ evidence' = NoAttempt /\ verdict' \in Verdicts
    BY <1>6, <1>idle DEF CutShort, Cut
  <2>2. QED
    BY <1>0, <1>none, <2>1 DEF RecordsFit, Existing
<1>7. CASE Conclude
  <2>1. /\ fetch.phase \in {"complete", "partial"} /\ evidence' = Shut(evidence)
        /\ UNCHANGED <<clock, raws>>
        /\ through' = IF verdict' = "complete" THEN Extended ELSE through
        /\ \E core \in BOOLEAN : verdict' = Verdict(evidence, core)
        /\ ledger' = [status |-> fetch.phase,
                      through |-> IF fetch.phase = "complete" THEN Greater(fetch.end, ledger.through)
                                  ELSE ledger.through]
    BY <1>7 DEF Conclude, fetchVars, Shut
  <2>2. fetch.start \in 0 .. LastTick /\ fetch.end \in 0 .. LastTick
    BY <1>0, <2>1 DEF RunInHand, Spans, Moment
  <2>3. evidence'.expected = evidence.expected
    <3>1. evidence' \in AttemptWith({FALSE}, {evidence.resumed}, {evidence.pages}, {evidence.valid},
                                    {evidence.expected}, {evidence.seen}, {evidence.boundary},
                                    {evidence.proven}, {evidence.exhausted})
      BY <1>0, <2>1, AttemptChanges
    <3>2. QED
      BY <3>1 DEF AttemptWith
  <2>4. through' \in [from : 0 .. LastTick, to : 0 .. LastTick]
    BY <1>0, <2>1, <2>2 DEF Extended
  <2>5. verdict' \in Verdicts
    BY <2>1, NamesOfEnds DEF Verdict
  <2>6. ledger' \in LedgerRows
    <3> DEFINE e == fetch.phase
               t == IF fetch.phase = "complete" THEN Greater(fetch.end, ledger.through)
                    ELSE ledger.through
    <3>1. e \in LedgerStates
      BY <2>1, NamesOfEnds
    <3>2. t \in 0 .. LastTick
      <4>1. ledger.through \in 0 .. LastTick
        BY <1>0 DEF LedgerRows
      <4>2. QED
        BY <1>0, <2>2, <4>1 DEF Greater
    <3>3. ledger' = [status |-> e, through |-> t]
      BY <2>1
    <3> HIDE DEF e, t
    <3>4. QED
      BY <3>1, <3>2, <3>3 DEF LedgerRows
  <2>7. QED
    BY <1>0, <2>1, <2>3, <2>4, <2>5, <2>6 DEF RecordsFit, Existing
<1>8. CASE Concluded
  <2>1. UNCHANGED <<clock, raws, ledger, through>> /\ evidence' = NoAttempt /\ verdict' \in Verdicts
    BY <1>8, <1>idle DEF Concluded, Use
  <2>2. QED
    BY <1>0, <1>none, <2>1 DEF RecordsFit, Existing
<1>9. CASE DegradedPass /\ Ignored
  <2>1. UNCHANGED <<clock, raws, ledger, evidence, verdict, through>>
    BY <1>9 DEF DegradedPass, Ignored
  <2>2. QED
    BY <1>0, <2>1 DEF RecordsFit, Existing
<1>10. CASE UNCHANGED evidenceVars
  <2>1. UNCHANGED <<clock, raws, ledger, evidence, verdict, through>>
    BY <1>10 DEF evidenceVars, fetchVars
  <2>2. QED
    BY <1>0, <2>1 DEF RecordsFit, Existing
<1>11. QED
  BY <1>1, <1>2, <1>3, <1>4, <1>5, <1>6, <1>7, <1>8, <1>9, <1>10 DEF EvidenceNext

(* What the four invariants say together.                                  *)
LEMMA FetchFits == SegmentsInv /\ TurnComes /\ ReadingHolds => FetchTypes
<1> SUFFICES ASSUME SegmentsInv, TurnComes, ReadingHolds PROVE FetchTypes
  OBVIOUS
<1>1. LastTick \in Nat /\ Budget \in Nat /\ PageSize \in Nat
  BY RetrievalConstants
<1>2. checkpoints \in [Moment -> [from : 0 .. LastTick, to : 0 .. LastTick,
                                 below : 0 .. LastTick, found : SUBSET Moment]]
  <2> DEFINE row == [from : 0 .. LastTick, to : 0 .. LastTick, below : 0 .. LastTick, found : SUBSET Moment]
  <2>1. ASSUME NEW k \in Moment PROVE checkpoints[k] \in row
    <3>1. checkpoints[k] \in [from : Int, to : Int, below : Int, found : SUBSET Moment]
      BY DEF SegmentsInv, CheckpointsFit
    <3>2. CheckpointHolds(checkpoints[k])
      BY DEF ReadingHolds
    <3>3. QED
      BY <3>1, <3>2 DEF CheckpointHolds
  <2> HIDE DEF row
  <2>2. checkpoints = [k \in Moment |-> checkpoints[k]]
    BY DEF SegmentsInv, CheckpointsFit
  <2>3. checkpoints \in [Moment -> row]
    BY <2>1, <2>2
  <2>4. QED
    BY <2>3 DEF row
<1>3. fetch.seen \in 0 .. 2 * LastTick + Budget + PageSize
  BY <1>1 DEF ReadingHolds, WithinBudget
<1>4. fetch.found \subseteq Moment /\ fetch.phase \in {"idle", "paging", "complete", "partial"}
      /\ clock \in Moment /\ cursor \in Moment
  BY DEF SegmentsInv, RunFits
<1>5. /\ fetch.caller \in Callers \cup {"none"} /\ gathered \cup obscured \subseteq 1 .. clock - 1
      /\ fetchFaults \in 0 .. FetchFaults
  BY DEF ReadingHolds, Existing, SegmentsInv
<1>6. streak \in 0 .. Roster - 1 /\ passedOver \in Nat
  BY DEF TurnComes
<1>7. QED
  BY <1>2, <1>3, <1>4, <1>5, <1>6 DEF FetchTypes

(* And with the two records.                                               *)
LEMMA EvidenceFits == FetchTypes /\ EvidenceInv /\ RecordsFit => EvidenceTypes
<1> SUFFICES ASSUME FetchTypes, EvidenceInv, RecordsFit PROVE EvidenceTypes
  OBVIOUS
<1>1. /\ raws \subseteq 1 .. clock - 1
      /\ ledger \in LedgerRows /\ verdict \in Verdicts
      /\ through \in [from : 0 .. LastTick, to : 0 .. LastTick]
  BY DEF RecordsFit, Existing
<1>2. evidence.expected \cup evidence.seen \subseteq Moment
  <2>1. clock \in Moment /\ LastTick \in Nat
    BY RetrievalConstants DEF FetchTypes
  <2>2. raws \subseteq Moment
    BY <1>1, <2>1 DEF Moment
  <2>3. QED
    BY <2>2 DEF RecordsFit, EvidenceInv, EvidenceShape
<1>3. QED
  BY <1>1, <1>2, Zenon DEF EvidenceTypes, LedgerRows, LedgerStates, Verdicts

(* The reading of a source (x_resumable_fetch.py), the ledger and the      *)
(* engine's evidence have their types.                                     *)
LEMMA EvidenceTypesHold == EvidenceInit /\ [][EvidenceNext]_evidenceVars => []EvidenceTypes
<1> DEFINE Inv == EvidenceInv /\ SegmentsInv /\ TurnComes /\ ReadingHolds /\ RecordsFit
<1>1. EvidenceInit => Inv
  BY EvidenceWatches, InitEvidence, InitSegments, InitTurn, InitReading, InitRecordsFit
<1>2. Inv /\ [EvidenceNext]_evidenceVars => Inv'
  BY EvidenceWatches, NextEvidence, NextSegments, NextTurn, NextReading, NextRecordsFit
<1>3. Inv => EvidenceTypes
  BY FetchFits, EvidenceFits
<1> HIDE DEF Inv
<1>4. QED
  BY <1>1, <1>2, <1>3, PTL

----------------------------------------------------------------------------
(* Public feeds: pages.                                                    *)

LEMMA RowsAre ==
  ASSUME NEW s \in Feeds
  PROVE  /\ Len(Profile[s]) \in Nat /\ Rows(s) = 1 .. Len(Profile[s])
         /\ Rows(s) \subseteq Nat \ {0} /\ IsFiniteSet(Rows(s))
         /\ \A t \in Rows(s) : Profile[s][t].dated \in Nat
         /\ \A t \in Wanted(s) : t \in Rows(s) /\ period[1] <= t /\ Profile[s][t].dated = t
<1>1. Profile[s] \in Seq([kind : RowKinds, dated : Nat])
  BY FeedsAssumption
<1>2. Len(Profile[s]) \in Nat /\ Rows(s) = 1 .. Len(Profile[s])
      /\ \A t \in Rows(s) : Profile[s][t] \in [kind : RowKinds, dated : Nat]
  <2> DEFINE P == Profile[s]
             S == [kind : RowKinds, dated : Nat]
  <2>1. P \in Seq(S)
    BY <1>1
  <2> HIDE DEF P, S
  <2>2. Len(P) \in Nat /\ DOMAIN P = 1 .. Len(P) /\ \A t \in DOMAIN P : P[t] \in S
    BY <2>1
  <2>3. QED
    BY <2>2 DEF Rows, P, S
<1>3. IsFiniteSet(Rows(s))
  BY <1>2, FS_Interval
<1>4. \A t \in Wanted(s) : t \in Rows(s) /\ period[1] <= t /\ Profile[s][t].dated = t
  <2>1. SUFFICES ASSUME NEW t \in Wanted(s) PROVE t \in Rows(s) /\ period[1] <= t /\ Profile[s][t].dated = t
    OBVIOUS
  <2>2. t \in Rows(s) /\ InPeriod(s, t) /\ Authored(s, t)
    BY DEF Wanted, Parsed
  <2>3. Profile[s][t].dated = t
    BY <2>2, FeedsAssumption DEF Authored
  <2>4. QED
    BY <2>2, <2>3 DEF InPeriod
<1>5. QED
  BY <1>2, <1>3, <1>4

(* A page has every row between its oldest and the cursor it was asked for. *)
LEMMA RowsBetween ==
  ASSUME NEW s \in Feeds, NEW n \in Nat, NEW b, NEW m \in NewestRows(s, n, b), NEW t \in Rows(s), m <= t,
         b = NewestPage \/ t < b
  PROVE  t \in NewestRows(s, n, b)
<1> DEFINE Above(r) == {u \in Rows(s) : u > r /\ (b = NewestPage \/ u < b)}
<1>1. Rows(s) \subseteq Nat /\ IsFiniteSet(Rows(s))
  BY RowsAre
<1>2. m \in Rows(s) /\ Cardinality(Above(m)) < n
  BY DEF NewestRows
<1>3. IsFiniteSet(Above(m))
  BY <1>1, FS_Subset
<1>4. Above(t) \subseteq Above(m)
  BY <1>1, <1>2
<1>5. Cardinality(Above(t)) <= Cardinality(Above(m)) /\ IsFiniteSet(Above(t))
  BY <1>3, <1>4, FS_Subset
<1>6. Cardinality(Above(t)) \in Nat /\ Cardinality(Above(m)) \in Nat
  BY <1>3, <1>5, FS_CardinalityType
<1> HIDE DEF Above
<1>7. Cardinality(Above(t)) < n
  BY <1>2, <1>5, <1>6
<1>8. QED
  BY <1>7 DEF NewestRows, Above

(* An empty page: no row is below the cursor.                              *)
LEMMA NoRowsLeft ==
  ASSUME NEW s \in Feeds, NEW n \in Nat \ {0}, NEW b \in Rows(s) \cup {NewestPage},
         NewestRows(s, n, b) = {}, NEW t \in Rows(s)
  PROVE  b # NewestPage /\ b <= t
<1>1. Rows(s) = 1 .. Len(Profile[s]) /\ Len(Profile[s]) \in Nat
  BY RowsAre
<1> SUFFICES ASSUME b = NewestPage \/ t < b PROVE FALSE
  BY <1>1 DEF NewestPage
<1> DEFINE S == {u \in Rows(s) : b = NewestPage \/ u < b}
<1>2. PICK g \in S : \A u \in S : g >= u
  <2>1. t \in S /\ S \in SUBSET (0 .. Len(Profile[s]))
    BY <1>1
  <2> HIDE DEF S
  <2>2. QED
    BY <2>1, <1>1, GreatestOf
<1>3. {u \in Rows(s) : u > g /\ (b = NewestPage \/ u < b)} = {}
  BY <1>1, <1>2
<1>4. Cardinality({}) = 0 /\ n > 0
  BY FS_EmptySet
<1>5. g \in NewestRows(s, n, b)
  BY <1>2, <1>3, <1>4 DEF NewestRows
<1>6. QED
  BY <1>5

(* Any page, parsed, has posts the source is wanted for, and with each     *)
(* every newer one below the cursor.                                       *)
LEMMA ParsedPage ==
  ASSUME NEW s \in Feeds, NEW n \in Nat
  PROVE  LET posts == Parsed(s, NewestRows(s, n, NewestPage)) IN
         /\ posts \subseteq Wanted(s)
         /\ \A t \in posts : \A u \in Wanted(s) : u > t => u \in posts
<1> DEFINE page == NewestRows(s, n, NewestPage)
<1>1. page \subseteq Rows(s) /\ Rows(s) \subseteq Nat
  BY RowsAre DEF NewestRows
<1>2. \A R : Parsed(s, R \cap Rows(s)) = {t \in Wanted(s) : t \in R}
  BY DEF Parsed, Wanted
<1>3. page \cap Rows(s) = page
  BY <1>1
<1>4. Parsed(s, page) = {t \in Wanted(s) : t \in page}
  BY <1>2, <1>3
<1>5. ASSUME NEW t \in page, NEW u \in Rows(s), u > t PROVE u \in page
  <2>1. t \in Nat /\ u \in Nat /\ t <= u
    BY <1>1, <1>5
  <2>2. QED
    BY <2>1, RowsBetween
<1> HIDE DEF page
<1>6. Wanted(s) \subseteq Rows(s)
  BY RowsAre
<1>7. /\ Parsed(s, page) \subseteq Wanted(s)
      /\ \A t \in Parsed(s, page) : \A u \in Wanted(s) : u > t => u \in Parsed(s, page)
  BY <1>4, <1>5, <1>6
<1>8. QED
  BY <1>7 DEF page

(* The pages so far: all posts wanted from the cursor on.                  *)
Paged(s, p) ==
  /\ p.below \in Rows(s) \cup {NewestPage}
  /\ p.found = IF p.below = NewestPage THEN {} ELSE {t \in Wanted(s) : p.below <= t}

LEMMA PageAdds ==
  ASSUME NEW s \in Feeds, NEW p, Paged(s, p)
  PROVE  LET page == NewestRows(s, PageRows, p.below)
             found == p.found \cup Parsed(s, page)
             below == IF page = {} THEN p.below ELSE CHOOSE t \in page : \A u \in page : t <= u
         IN /\ Paged(s, [below |-> below, pages |-> p.pages + 1, found |-> found])
            /\ page = {} => found = Wanted(s)
            /\ page # {} => below \in page
<1> DEFINE page == NewestRows(s, PageRows, p.below)
           found == p.found \cup Parsed(s, page)
           below == IF page = {} THEN p.below ELSE CHOOSE t \in page : \A u \in page : t <= u
<1>1. page \subseteq Rows(s) /\ Rows(s) \subseteq Nat \ {0} /\ PageRows \in Nat \ {0}
  BY RowsAre, FeedsAssumption DEF NewestRows
<1>2. \A R : Parsed(s, R \cap Rows(s)) = {t \in Wanted(s) : t \in R}
  BY DEF Parsed, Wanted
<1>3. page \cap Rows(s) = page
  BY <1>1
<1>4. Parsed(s, page) = {t \in Wanted(s) : t \in page}
  BY <1>2, <1>3
<1>5. Wanted(s) \subseteq Rows(s)
  BY RowsAre
<1>6. CASE page = {}
  <2>1. \A t \in Rows(s) : p.below # NewestPage /\ p.below <= t
    BY <1>1, <1>6, NoRowsLeft DEF Paged
  <2>2. found = p.found /\ below = p.below
    BY <1>4, <1>6
  <2>3. found = Wanted(s)
    BY <1>5, <2>1, <2>2 DEF Paged
  <2>4. Paged(s, [below |-> below, pages |-> p.pages + 1, found |-> found])
    BY <2>2 DEF Paged
  <2>5. QED
    BY <1>6, <2>3, <2>4
<1>7. CASE page # {}
  <2>1. below = Oldest(page)
    BY <1>7 DEF Oldest
  <2>2. page \in SUBSET Nat
    BY <1>1
  <2>3. Oldest(page) \in page /\ \A j \in page : Oldest(page) <= j
    <3> HIDE DEF page
    <3>1. QED
      BY <1>7, <2>2, LeastOf
  <2> DEFINE o == Oldest(page)
  <2>4. o \in page /\ (\A j \in page : o <= j) /\ o \in Nat \ {0} /\ o \in Rows(s)
    BY <1>1, <2>3
  <2>5. ASSUME NEW t \in Wanted(s), t \in page PROVE o <= t
    BY <2>4, <2>5
  <2>6. ASSUME NEW t \in p.found PROVE t \in Wanted(s) /\ o <= t
    <3>1. p.below # NewestPage /\ p.below <= t /\ t \in Wanted(s)
      BY <2>6 DEF Paged
    <3>2. p.below \in Nat /\ o < p.below /\ t \in Nat
      BY <1>1, <1>5, <2>4, <3>1 DEF Paged, NewestRows
    <3>3. QED
      BY <2>4, <3>1, <3>2
  <2>7. ASSUME NEW t \in Wanted(s), o <= t PROVE t \in p.found \/ t \in page
    <3>1. CASE p.below # NewestPage /\ p.below <= t
      BY <2>7, <3>1 DEF Paged
    <3>2. CASE p.below = NewestPage \/ t < p.below
      BY <1>1, <1>5, <2>4, <2>7, <3>2, RowsBetween
    <3>3. p.below \in Int /\ t \in Int
      BY <1>1, <1>5 DEF Paged, NewestPage
    <3>4. QED
      BY <3>1, <3>2, <3>3
  <2>8. found = {t \in Wanted(s) : o <= t}
    <3> HIDE DEF o, page
    <3>1. QED
      BY <1>4, <2>5, <2>6, <2>7
  <2>9. o # NewestPage /\ below = o
    BY <2>1, <2>4 DEF NewestPage
  <2> HIDE DEF o, found, below, page
  <2>10. Paged(s, [below |-> below, pages |-> p.pages + 1, found |-> found])
    BY <2>4, <2>8, <2>9 DEF Paged
  <2>11. below \in page
    BY <2>4, <2>9
  <2>12. QED
    BY <1>7, <2>10, <2>11 DEF below, found, page
<1>8. QED
  BY <1>6, <1>7

----------------------------------------------------------------------------
(* Public feeds: the invariant.                                            *)

Givers == {"none", "syndication", "fxtwitter", "agent_reach"}
Asking == {"syndication", "fxtwitter", "agent_reach"}
Giving == [posts : SUBSET Nat, by : Givers]
Pages == [below : Nat, pages : 0 .. MaxPages, found : SUBSET Nat]

FeedShape ==
  /\ period \in Int \X Int /\ reached \in Int /\ reached <= period[2]
  /\ hop \in [Feeds -> Hops] /\ paging \in [Feeds -> Pages] /\ given \in [Feeds -> Giving]
  /\ account \in [step : {"idle", "reading", "told"}, attempted : SUBSET Feeds, failed : SUBSET Feeds]
  /\ account.failed \subseteq account.attempted
  /\ feedFaults \in 0 .. FeedFaults /\ passes \in 0 .. FeedPasses

(* A source that still asks has pages left.                                *)
PagesLeft(s, h, p) == Paged(s, p) /\ (h \in {"syndication", "fxtwitter"} => p.pages < MaxPages)

(* It has given something if and only if it is done.                       *)
GivesWhenDone(h, g) == (g.by = "none" <=> h # "done") /\ (g.by = "none" => g.posts = {})

(* The posts given are wanted, and with each every newer one.              *)
GivesOwn(s, g) ==
  /\ g.posts \subseteq Wanted(s)
  /\ \A t \in g.posts : \A u \in Wanted(s) : u > t => u \in g.posts

ReachedBack(s, p, g, blocked) ==
  g.by = "fxtwitter" /\ ~(p.pages = MaxPages /\ p.below > period[1]) /\ ~blocked /\ ~Misdated(s)
    => g.posts = Wanted(s)

EachFeed(s) ==
  /\ PagesLeft(s, hop[s], paging[s]) /\ GivesWhenDone(hop[s], given[s])
  /\ GivesOwn(s, given[s]) /\ ReachedBack(s, paging[s], given[s], s \in stuck)

HopsAccounted ==
  \A s \in Feeds :
    /\ hop[s] \in Asking => account.step = "reading"
    /\ hop[s] = "idle" <=> s \notin account.attempted

FeedInv ==
  /\ FeedShape /\ (\A s \in Feeds : EachFeed(s)) /\ HopsAccounted
  /\ account.step = "reading" => reached < period[2]
  /\ AccountIsTrue

(* One source's step, whatever provider it is at.                          *)
LEMMA FeedMoves ==
  ASSUME FeedInv, NEW s \in Feeds, hop[s] \in Asking, NEW h \in Hops \ {"idle"}, NEW p \in Pages,
         NEW g \in Giving, hop' = [hop EXCEPT ![s] = h], paging' = [paging EXCEPT ![s] = p],
         given' = [given EXCEPT ![s] = g], UNCHANGED <<period, account, reached, passes>>,
         feedFaults' \in 0 .. FeedFaults,
         stuck \subseteq stuck',
         PagesLeft(s, h, p), GivesWhenDone(h, g), GivesOwn(s, g), ReachedBack(s, p, g, s \in stuck')
  PROVE  FeedInv'
<1>1. FeedShape /\ HopsAccounted /\ account.step = "reading" /\ reached < period[2]
  BY DEF FeedInv, HopsAccounted
<1>2. /\ hop \in [Feeds -> Hops] /\ paging \in [Feeds -> Pages] /\ given \in [Feeds -> Giving]
  BY <1>1 DEF FeedShape
<1>3. /\ hop'[s] = h /\ paging'[s] = p /\ given'[s] = g
      /\ \A u \in Feeds : u # s => hop'[u] = hop[u] /\ paging'[u] = paging[u] /\ given'[u] = given[u]
  BY <1>2
<1>4. hop' \in [Feeds -> Hops] /\ paging' \in [Feeds -> Pages] /\ given' \in [Feeds -> Giving]
  BY <1>2
<1>5. FeedShape'
  BY <1>1, <1>4 DEF FeedShape
<1>6. \A u : Wanted(u)' = Wanted(u) /\ Misdated(u)' = Misdated(u)
  BY DEF Wanted, Misdated, Parsed, InPeriod, Rows
<1>7. ASSUME NEW u \in Feeds PROVE EachFeed(u)'
  <2>1. CASE u = s
    <3>1. PagesLeft(s, hop[s], paging[s])'
      BY <1>3, <1>6 DEF PagesLeft, Paged
    <3>2. GivesWhenDone(hop[s], given[s])'
      BY <1>3 DEF GivesWhenDone
    <3>3. GivesOwn(s, given[s])'
      BY <1>3, <1>6 DEF GivesOwn
    <3>4. ReachedBack(s, paging[s], given[s], s \in stuck)'
      BY <1>3, <1>6 DEF ReachedBack
    <3>5. QED
      BY <2>1, <3>1, <3>2, <3>3, <3>4 DEF EachFeed
  <2>2. CASE u # s
    <3>1. EachFeed(u) /\ hop'[u] = hop[u] /\ paging'[u] = paging[u] /\ given'[u] = given[u]
      BY <1>3, <2>2 DEF FeedInv
    <3>2. PagesLeft(u, hop[u], paging[u])'
      BY <1>6, <3>1 DEF EachFeed, PagesLeft, Paged
    <3>3. GivesWhenDone(hop[u], given[u])'
      BY <3>1 DEF EachFeed, GivesWhenDone
    <3>4. GivesOwn(u, given[u])'
      BY <1>6, <3>1 DEF EachFeed, GivesOwn
    <3>5. ReachedBack(u, paging[u], given[u], u \in stuck)'
      BY <1>6, <3>1 DEF EachFeed, ReachedBack
    <3>6. QED
      BY <3>2, <3>3, <3>4, <3>5 DEF EachFeed
  <2>3. QED
    BY <2>1, <2>2
<1>8. HopsAccounted'
  <2>1. ASSUME NEW u \in Feeds
        PROVE  (hop'[u] = "idle" <=> u \notin account.attempted)
    <3>1. h # "idle" /\ hop[s] # "idle"
      BY DEF Asking
    <3>2. QED
      BY <1>1, <1>3, <3>1 DEF HopsAccounted
  <2>2. QED
    BY <1>1, <2>1 DEF HopsAccounted
<1>9. AccountIsTrue'
  BY <1>1 DEF AccountIsTrue
<1>10. QED
  BY <1>1, <1>5, <1>7, <1>8, <1>9 DEF FeedInv

LEMMA InitFeeds == FeedInit => FeedInv
<1> SUFFICES ASSUME FeedInit PROVE FeedInv
  OBVIOUS
<1>1. /\ period = <<0, 0>> /\ hop = [s \in Feeds |-> "idle"] /\ paging = [s \in Feeds |-> NoPages]
      /\ given = [s \in Feeds |-> NothingGiven]
      /\ account = [step |-> "idle", attempted |-> {}, failed |-> {}]
      /\ reached = 0 /\ passes = 0 /\ feedFaults = 0
  BY DEF FeedInit
<1>2. FeedFaults \in Nat /\ FeedPasses \in Nat /\ MaxPages \in Nat \ {0}
  BY FeedsAssumption
<1>3. /\ NoPages \in Pages /\ NoPages.below = NewestPage /\ NoPages.found = {} /\ NoPages.pages = 0
  BY <1>2 DEF NoPages, Pages, NewestPage
<1>4. NothingGiven \in Giving /\ NothingGiven.by = "none" /\ NothingGiven.posts = {}
  BY DEF NothingGiven, Giving, Givers
<1>5. FeedShape
  <2>1. hop \in [Feeds -> Hops] /\ paging \in [Feeds -> Pages] /\ given \in [Feeds -> Giving]
    BY <1>1, <1>3, <1>4 DEF Hops
  <2>2. account \in [step : {"idle", "reading", "told"}, attempted : SUBSET Feeds, failed : SUBSET Feeds]
        /\ account.failed \subseteq account.attempted
    BY <1>1
  <2>3. period \in Int \X Int /\ reached \in Int /\ reached <= period[2]
    BY <1>1
  <2>4. feedFaults \in 0 .. FeedFaults /\ passes \in 0 .. FeedPasses
    BY <1>1, <1>2
  <2>5. QED
    BY <2>1, <2>2, <2>3, <2>4 DEF FeedShape
<1>6. ASSUME NEW s \in Feeds PROVE EachFeed(s)
  <2>1. hop[s] = "idle" /\ paging[s] = NoPages /\ given[s] = NothingGiven
    BY <1>1
  <2>2. PagesLeft(s, hop[s], paging[s])
    BY <1>3, <2>1 DEF PagesLeft, Paged
  <2>3. GivesWhenDone(hop[s], given[s]) /\ GivesOwn(s, given[s])
    BY <1>4, <2>1 DEF GivesWhenDone, GivesOwn
  <2>4. ReachedBack(s, paging[s], given[s], s \in stuck)
    BY <1>4, <2>1 DEF ReachedBack
  <2>5. QED
    BY <2>2, <2>3, <2>4 DEF EachFeed
<1>7. HopsAccounted /\ AccountIsTrue /\ account.step # "reading"
  BY <1>1 DEF HopsAccounted, AccountIsTrue, Asking
<1>8. QED
  BY <1>5, <1>6, <1>7 DEF FeedInv

(* A pass begins with nothing given and no page read.                      *)
LEMMA PassBegins == FeedInv /\ BeginFeeds => FeedInv'
<1> SUFFICES ASSUME FeedInv, BeginFeeds PROVE FeedInv'
  OBVIOUS
<1>1. PICK batch \in SUBSET Feeds \ {{}}, w \in Windows :
        /\ w[2] > period[2] /\ period' = w
        /\ account' = [step |-> "reading", attempted |-> batch, failed |-> {}]
        /\ hop' = [s \in Feeds |-> IF s \in batch THEN "syndication" ELSE "idle"]
  BY DEF BeginFeeds
<1>2. /\ paging' = [s \in Feeds |-> NoPages] /\ given' = [s \in Feeds |-> NothingGiven]
      /\ passes < FeedPasses /\ passes' = passes + 1 /\ UNCHANGED <<reached, feedFaults>>
  BY DEF BeginFeeds
<1>3. FeedFaults \in Nat /\ FeedPasses \in Nat /\ MaxPages \in Nat \ {0} /\ Windows \subseteq Nat \X Nat
  BY FeedsAssumption
<1>4. /\ NoPages \in Pages /\ NoPages.below = NewestPage /\ NoPages.found = {} /\ NoPages.pages = 0
  BY <1>3 DEF NoPages, Pages, NewestPage
<1>5. NothingGiven \in Giving /\ NothingGiven.by = "none" /\ NothingGiven.posts = {}
  BY DEF NothingGiven, Giving, Givers
<1>6. period' \in Int \X Int /\ reached' < period'[2] /\ reached' \in Int
  <2>1. period'[2] \in Int /\ period[2] \in Int /\ reached \in Int /\ reached <= period[2]
    BY <1>1, <1>3 DEF FeedInv, FeedShape
  <2>2. QED
    BY <1>1, <1>2, <1>3, <2>1
<1>7. account'.step = "reading" /\ account'.attempted = batch /\ account'.failed = {}
      /\ account' \in [step : {"idle", "reading", "told"}, attempted : SUBSET Feeds, failed : SUBSET Feeds]
  BY <1>1
<1>8. FeedShape'
  <2>1. hop' \in [Feeds -> Hops] /\ paging' \in [Feeds -> Pages] /\ given' \in [Feeds -> Giving]
    BY <1>1, <1>2, <1>4, <1>5 DEF Hops
  <2>2. feedFaults' \in 0 .. FeedFaults /\ passes' \in 0 .. FeedPasses
    BY <1>2, <1>3 DEF FeedInv, FeedShape
  <2>3. reached' <= period'[2]
    BY <1>6
  <2>4. QED
    BY <1>6, <1>7, <2>1, <2>2, <2>3 DEF FeedShape
<1>9. ASSUME NEW s \in Feeds PROVE EachFeed(s)'
  <2>1. hop'[s] # "done" /\ paging'[s] = NoPages /\ given'[s] = NothingGiven
    BY <1>1, <1>2
  <2>2. PagesLeft(s, hop[s], paging[s])'
    BY <1>3, <1>4, <2>1 DEF PagesLeft, Paged
  <2>3. GivesWhenDone(hop[s], given[s])' /\ GivesOwn(s, given[s])'
    BY <1>5, <2>1 DEF GivesWhenDone, GivesOwn
  <2>4. ReachedBack(s, paging[s], given[s], s \in stuck)'
    BY <1>5, <2>1 DEF ReachedBack
  <2>5. QED
    BY <2>2, <2>3, <2>4 DEF EachFeed
<1>10. HopsAccounted'
  BY <1>1, <1>7 DEF HopsAccounted
<1>11. AccountIsTrue'
  BY <1>7 DEF AccountIsTrue
<1>12. QED
  BY <1>6, <1>7, <1>8, <1>9, <1>10, <1>11 DEF FeedInv

(* The pass is told when every source asked is done or failed.             *)
LEMMA PassEnds == FeedInv /\ EndFeeds => FeedInv'
<1> SUFFICES ASSUME FeedInv, EndFeeds PROVE FeedInv'
  OBVIOUS
<1>1. /\ account.step = "reading" /\ \A s \in account.attempted : hop[s] \in {"done", "failed"}
      /\ account' = [account EXCEPT !.step = "told", !.failed = FailedByMessage]
      /\ reached' = IF _degraded_recovery_pass_complete(FailedByMessage) THEN period[2] ELSE reached
      /\ UNCHANGED <<period, hop, paging, given, passes, feedFaults, mute, stuck>>
  BY DEF EndFeeds, feedHistory
<1>2. FeedShape /\ HopsAccounted /\ reached < period[2] /\ \A s \in Feeds : EachFeed(s)
  BY <1>1 DEF FeedInv
<1>3. FailedByMessage \subseteq account.attempted /\ account.attempted \subseteq Feeds
  BY <1>2 DEF FailedByMessage, FeedShape
<1>4. account'.step = "told" /\ account'.attempted = account.attempted /\ account'.failed = FailedByMessage
      /\ account' \in [step : {"idle", "reading", "told"}, attempted : SUBSET Feeds, failed : SUBSET Feeds]
  BY <1>1, <1>2, <1>3 DEF FeedShape
<1>5. reached' \in Int /\ reached' <= period'[2]
  BY <1>1, <1>2 DEF FeedShape
<1>6. FeedShape'
  BY <1>1, <1>2, <1>3, <1>4, <1>5 DEF FeedShape
<1>7. \A u : Wanted(u)' = Wanted(u) /\ Misdated(u)' = Misdated(u)
  BY <1>1 DEF Wanted, Misdated, Parsed, InPeriod, Rows
<1>8. ASSUME NEW s \in Feeds PROVE EachFeed(s)'
  BY <1>1, <1>2, <1>7 DEF EachFeed, PagesLeft, Paged, GivesWhenDone, GivesOwn, ReachedBack
<1>9. \A s \in account.attempted : hop[s] = "failed" <=> given[s].by = "none"
  <2>1. ASSUME NEW s \in account.attempted PROVE hop[s] = "failed" <=> given[s].by = "none"
    <3>1. given[s].by = "none" <=> hop[s] # "done"
      BY <1>2, <1>3 DEF EachFeed, GivesWhenDone
    <3>2. QED
      BY <1>1, <3>1
  <2>2. QED
    BY <2>1
<1>10. HopsAccounted'
  <2>1. ASSUME NEW s \in Feeds PROVE hop[s] \notin Asking
    BY <1>1, <1>2 DEF HopsAccounted, Asking
  <2>2. QED
    BY <1>1, <1>2, <1>4, <2>1 DEF HopsAccounted
<1>11. AccountIsTrue'
  <2>1. account'.failed = {s \in account.attempted : given[s].by = "none"} \ mute
    BY <1>4, <1>9 DEF FailedByMessage
  <2>2. ASSUME reached' = period[2], NEW s \in Feeds \ mute PROVE given[s].by # "none"
    <3>1. _degraded_recovery_pass_complete(FailedByMessage)
      BY <1>1, <1>2, <2>2 DEF FeedShape
    <3>2. s \in account.attempted /\ s \notin FailedByMessage
      BY <3>1 DEF _degraded_recovery_pass_complete
    <3>3. QED
      BY <1>9, <2>2, <3>2 DEF FailedByMessage
  <2>3. QED
    BY <1>1, <1>4, <2>1, <2>2 DEF AccountIsTrue
<1>12. QED
  BY <1>4, <1>6, <1>8, <1>10, <1>11 DEF FeedInv

(* What a source's step starts from.                                       *)
LEMMA FeedInHand ==
  ASSUME FeedInv, NEW s \in Feeds, hop[s] \in Asking
  PROVE  /\ hop \in [Feeds -> Hops] /\ paging \in [Feeds -> Pages] /\ given \in [Feeds -> Giving]
         /\ paging[s] \in Pages /\ given[s] \in Giving
         /\ paging = [paging EXCEPT ![s] = paging[s]] /\ given = [given EXCEPT ![s] = given[s]]
         /\ given[s].by = "none" /\ given[s].posts = {} /\ Paged(s, paging[s])
         /\ hop[s] \in {"syndication", "fxtwitter"} => paging[s].pages < MaxPages
         /\ feedFaults \in 0 .. FeedFaults /\ FeedFaults \in Nat
         /\ \A R : Parsed(s, R) \subseteq R
         /\ \A n, b : NewestRows(s, n, b) \subseteq Rows(s) /\ Rows(s) \subseteq Nat
<1>1. /\ hop \in [Feeds -> Hops] /\ paging \in [Feeds -> Pages] /\ given \in [Feeds -> Giving]
      /\ feedFaults \in 0 .. FeedFaults /\ EachFeed(s)
  BY DEF FeedInv, FeedShape
<1>2. paging[s] \in Pages /\ given[s] \in Giving
      /\ paging = [paging EXCEPT ![s] = paging[s]] /\ given = [given EXCEPT ![s] = given[s]]
  BY <1>1
<1>3. hop[s] # "done"
  BY DEF Asking
<1>4. given[s].by = "none" /\ given[s].posts = {}
  BY <1>1, <1>3 DEF EachFeed, GivesWhenDone
<1>5. Paged(s, paging[s]) /\ (hop[s] \in {"syndication", "fxtwitter"} => paging[s].pages < MaxPages)
  BY <1>1 DEF EachFeed, PagesLeft
<1>6. (\A R : Parsed(s, R) \subseteq R) /\ \A n, b : NewestRows(s, n, b) \subseteq Rows(s)
  BY DEF Parsed, NewestRows
<1>7. Rows(s) \subseteq Nat /\ FeedFaults \in Nat
  BY RowsAre, FeedsAssumption
<1>8. QED
  BY <1>1, <1>2, <1>4, <1>5, <1>6, <1>7

(* A provider that fails leaves the source to the next.                    *)
LEMMA FeedMovesOn ==
  ASSUME FeedInv, NEW s \in Feeds, hop[s] \in Asking, NEW h \in {"fxtwitter", "agent_reach", "failed"},
         h = "fxtwitter" => hop[s] = "syndication",
         MovesOn(s, h), UNCHANGED <<period, account, reached, passes, paging>>,
         FeedFails \/ UNCHANGED feedFaults, stuck \subseteq stuck'
  PROVE  FeedInv'
<1> DEFINE p == paging[s]
           g == given[s]
<1>1. /\ p \in Pages /\ g \in Giving /\ g.by = "none" /\ g.posts = {} /\ Paged(s, p)
      /\ paging = [paging EXCEPT ![s] = p] /\ given = [given EXCEPT ![s] = g]
      /\ hop[s] \in {"syndication", "fxtwitter"} => p.pages < MaxPages
      /\ feedFaults \in 0 .. FeedFaults /\ FeedFaults \in Nat
  BY FeedInHand
<1>2. hop' = [hop EXCEPT ![s] = h] /\ UNCHANGED given
  BY DEF MovesOn
<1> HIDE DEF p, g
<1>3. paging' = [paging EXCEPT ![s] = p] /\ given' = [given EXCEPT ![s] = g]
  BY <1>1, <1>2
<1>4. feedFaults' \in 0 .. FeedFaults
  BY <1>1 DEF FeedFails
<1>5. PagesLeft(s, h, p) /\ GivesWhenDone(h, g) /\ GivesOwn(s, g) /\ ReachedBack(s, p, g, s \in stuck')
  BY <1>1 DEF PagesLeft, GivesWhenDone, GivesOwn, ReachedBack
<1>6. h \in Hops \ {"idle"}
  BY DEF Hops
<1>7. QED
  BY <1>1, <1>2, <1>3, <1>4, <1>5, <1>6, FeedMoves

(* A provider that is not paged gives a page of rows, parsed.              *)
LEMMA FeedGives ==
  ASSUME FeedInv, NEW s \in Feeds, hop[s] \in Asking, NEW n \in Nat, NEW by \in {"syndication", "agent_reach"},
         Gives(s, Parsed(s, NewestRows(s, n, NewestPage)), by),
         UNCHANGED <<period, account, reached, passes, paging, feedFaults, stuck>>
  PROVE  FeedInv'
<1> DEFINE p == paging[s]
           posts == Parsed(s, NewestRows(s, n, NewestPage))
           g == [posts |-> posts, by |-> by]
<1>1. /\ p \in Pages /\ Paged(s, p) /\ paging = [paging EXCEPT ![s] = p]
      /\ feedFaults \in 0 .. FeedFaults /\ posts \subseteq Nat
  BY FeedInHand
<1>2. hop' = [hop EXCEPT ![s] = "done"] /\ given' = [given EXCEPT ![s] = g]
  BY DEF Gives
<1>3. posts \subseteq Wanted(s) /\ \A t \in posts : \A u \in Wanted(s) : u > t => u \in posts
  BY ParsedPage
<1> HIDE DEF p, posts
<1>4. g \in Giving /\ g.by = by /\ g.posts = posts
  BY <1>1 DEF Giving, Givers
<1> HIDE DEF g
<1>5. paging' = [paging EXCEPT ![s] = p]
  BY <1>1
<1>6. PagesLeft(s, "done", p) /\ GivesWhenDone("done", g) /\ GivesOwn(s, g) /\ ReachedBack(s, p, g, s \in stuck')
  BY <1>1, <1>3, <1>4 DEF PagesLeft, GivesWhenDone, GivesOwn, ReachedBack
<1>7. "done" \in Hops \ {"idle"}
  BY DEF Hops
<1>8. QED
  BY <1>1, <1>2, <1>4, <1>5, <1>6, <1>7, FeedMoves

LEMMA SyndicationKeeps ==
  ASSUME FeedInv, NEW s \in Feeds, collect_syndication_timeline(s)
  PROVE  FeedInv'
<1>1. hop[s] = "syndication" /\ hop[s] \in Asking
      /\ UNCHANGED <<period, paging, account, reached, passes, mute, stuck>>
  BY DEF collect_syndication_timeline, Asking, feedHistory
<1>2. CASE FeedFails /\ MovesOn(s, "fxtwitter")
  BY <1>1, <1>2, FeedMovesOn
<1>3. CASE (\E n \in 0 .. Len(Profile[s]) :
              Gives(s, Parsed(s, NewestRows(s, n, NewestPage)), "syndication")) /\ UNCHANGED feedFaults
  <2>1. PICK n \in 0 .. Len(Profile[s]) : Gives(s, Parsed(s, NewestRows(s, n, NewestPage)), "syndication")
    BY <1>3
  <2>2. n \in Nat
    BY RowsAre
  <2>3. QED
    BY <1>1, <1>3, <2>1, <2>2, FeedGives
<1>4. QED
  BY <1>2, <1>3 DEF collect_syndication_timeline

LEMMA AgentReachKeeps ==
  ASSUME FeedInv, NEW s \in Feeds, collect_agent_reach_timeline(s)
  PROVE  FeedInv'
<1>1. hop[s] = "agent_reach" /\ hop[s] \in Asking
      /\ UNCHANGED <<period, paging, account, reached, passes, stuck>>
  BY DEF collect_agent_reach_timeline, Asking
<1>2. CASE MovesOn(s, "failed") /\ (FeedFails \/ UNCHANGED feedFaults)
  BY <1>1, <1>2, FeedMovesOn
<1>3. ASSUME Provable(s), UNCHANGED feedFaults, NEW n \in 0 .. Len(Profile[s]),
             Gives(s, ParsedUnread(s, NewestRows(s, n, NewestPage)), "agent_reach")
      PROVE  FeedInv'
  <2>1. ParsedUnread(s, NewestRows(s, n, NewestPage)) = Parsed(s, NewestRows(s, n, NewestPage))
    BY <1>3 DEF Provable, ParsedUnread, Parsed
  <2>2. n \in Nat
    BY RowsAre
  <2>3. QED
    BY <1>1, <1>3, <2>1, <2>2, FeedGives
<1>4. QED
  BY <1>2, <1>3 DEF collect_agent_reach_timeline

(* A page of FxTwitter: the last one leaves nothing of the window out,     *)
(* unless it ran out of pages above its start.                             *)
LEMMA FxtwitterKeeps ==
  ASSUME FeedInv, NEW s \in Feeds, collect_fxtwitter_timeline(s)
  PROVE  FeedInv'
<1> DEFINE p == paging[s]
           page == NewestRows(s, PageRows, p.below)
           found == p.found \cup Parsed(s, page)
           below == IF page = {} THEN p.below ELSE CHOOSE t \in page : \A u \in page : t <= u
           next == [below |-> below, pages |-> p.pages + 1, found |-> found]
           over == page = {} \/ ReachesBack(s, page) \/ Exhausts(s, page) \/ next.pages = MaxPages
           g == [posts |-> found, by |-> "fxtwitter"]
<1>1. hop[s] = "fxtwitter" /\ hop[s] \in Asking /\ UNCHANGED <<period, account, reached, passes, mute>>
  BY DEF collect_fxtwitter_timeline, Asking
<1>2. \/ /\ IF over THEN Gives(s, found, "fxtwitter") ELSE UNCHANGED <<hop, given>>
         /\ paging' = [paging EXCEPT ![s] = next]
         /\ UNCHANGED <<feedFaults, stuck>>
      \/ /\ ~over /\ FeedFails
         /\ Gives(s, found, "fxtwitter")
         /\ paging' = [paging EXCEPT ![s] = next] /\ stuck' = stuck \cup {s}
      \/ FeedFails /\ MovesOn(s, "agent_reach") /\ UNCHANGED <<paging, stuck>>
  BY DEF collect_fxtwitter_timeline
<1>3. /\ p \in Pages /\ Paged(s, p) /\ p.pages < MaxPages
      /\ hop \in [Feeds -> Hops] /\ given[s] \in Giving /\ given = [given EXCEPT ![s] = given[s]]
      /\ given[s].by = "none" /\ given[s].posts = {}
      /\ feedFaults \in 0 .. FeedFaults /\ FeedFaults \in Nat
      /\ Parsed(s, page) \subseteq page /\ page \subseteq Rows(s) /\ Rows(s) \subseteq Nat
  BY <1>1, FeedInHand
<1>4. Paged(s, next) /\ (page = {} => found = Wanted(s)) /\ (page # {} => below \in page)
  BY <1>3, PageAdds
<1>5. MaxPages \in Nat \ {0} /\ period[1] \in Int
  BY FeedsAssumption DEF FeedInv, FeedShape
<1> HIDE DEF p, page, found, below
<1>6. next.below = below /\ next.pages = p.pages + 1 /\ next.found = found
      /\ g.posts = found /\ g.by = "fxtwitter"
  OBVIOUS
<1>7. p.pages \in Nat /\ p.pages + 1 <= MaxPages /\ p.below \in Nat /\ p.found \subseteq Nat
  BY <1>3, <1>5 DEF Pages
<1>8. below \in Nat /\ found \subseteq Nat
  <2>1. below \in Nat
    BY <1>3, <1>4, <1>7 DEF below
  <2>2. found \subseteq Nat
    BY <1>3, <1>7 DEF found
  <2>3. QED
    BY <2>1, <2>2
<1>9. next \in Pages /\ g \in Giving
  BY <1>5, <1>7, <1>8 DEF Pages, Giving, Givers
<1>10. found = {t \in Wanted(s) : below <= t} \/ (below = NewestPage /\ found = {})
  BY <1>4, <1>6 DEF Paged
<1>11. \A t \in Wanted(s) : t \in Rows(s) /\ t \in Nat /\ period[1] <= t
  BY <1>3, RowsAre
<1> HIDE DEF next, g
<1>12. GivesOwn(s, g)
  <2>1. found \subseteq Wanted(s)
    BY <1>10
  <2>2. ASSUME NEW t \in found, NEW u \in Wanted(s), u > t PROVE u \in found
    <3>1. below <= t /\ found = {v \in Wanted(s) : below <= v}
      BY <1>10, <2>2
    <3>2. t \in Nat /\ u \in Nat
      BY <1>11, <2>1
    <3>3. QED
      BY <1>8, <2>2, <3>1, <3>2
  <2>3. QED
    BY <1>6, <2>1, <2>2 DEF GivesOwn
<1>13. ASSUME over, ~(next.pages = MaxPages /\ next.below > period[1]), ~Misdated(s) PROVE found = Wanted(s)
  <2>1. CASE page = {}
    BY <1>4, <2>1
  <2>2. ASSUME page # {}, below <= period[1] PROVE found = Wanted(s)
    <3>1. \A t \in Wanted(s) : below <= t
      BY <1>5, <1>8, <1>11, <2>2
    <3>2. below # NewestPage
      <4>1. below \in Rows(s)
        BY <1>3, <1>4, <2>2
      <4>2. QED
        BY <4>1, RowsAre DEF NewestPage
    <3>3. QED
      BY <1>10, <3>1, <3>2
  <2>3. ASSUME page # {}, NEW t \in page, t <= period[1] PROVE below <= period[1]
    <3>1. below <= t
      <4> DEFINE b == CHOOSE r \in page : \A u \in page : r <= u
      <4>1. below = b
        BY <2>3 DEF below
      <4>2. b = Oldest(page)
        BY DEF Oldest
      <4>3. page \in SUBSET Nat
        BY <1>3
      <4>4. \A j \in page : Oldest(page) <= j
        BY <2>3, <4>3, LeastOf
      <4>5. QED
        BY <4>1, <4>2, <4>4
    <3>2. t \in Nat
      BY <1>3
    <3>3. QED
      BY <1>5, <1>8, <2>3, <3>1, <3>2
  <2>4. CASE page # {} /\ ReachesBack(s, page)
    <3>1. PICK t \in page : Profile[s][t].dated <= period[1]
      BY <2>4 DEF ReachesBack
    <3>2. t \in Rows(s) /\ t \in Nat
      BY <1>3
    <3>3. ~(t > period[1])
      BY <1>13, <3>1, <3>2 DEF Misdated
    <3>4. t <= period[1]
      BY <1>5, <3>2, <3>3
    <3>5. QED
      BY <2>2, <2>3, <2>4, <3>4
  <2>5. CASE page # {} /\ 1 \in page
    <3>1. below <= 1
      <4> DEFINE b == CHOOSE r \in page : \A u \in page : r <= u
      <4>1. below = b
        BY <2>5 DEF below
      <4>2. b = Oldest(page)
        BY DEF Oldest
      <4>3. page \in SUBSET Nat
        BY <1>3
      <4>4. \A j \in page : Oldest(page) <= j
        BY <2>5, <4>3, LeastOf
      <4>5. QED
        BY <2>5, <4>1, <4>2, <4>4
    <3>2. below \in Rows(s) /\ \A t \in Rows(s) : 1 <= t
      BY <1>3, <1>4, <2>5, RowsAre
    <3>3. below # NewestPage /\ \A t \in Wanted(s) : below <= t
      BY <1>8, <1>11, <3>1, <3>2 DEF NewestPage
    <3>4. QED
      BY <1>10, <3>3
  <2>6. CASE page # {} /\ next.pages = MaxPages
    <3>1. below <= period[1]
      BY <1>5, <1>6, <1>8, <1>13, <2>6
    <3>2. QED
      BY <2>2, <2>6, <3>1
  <2>7. QED
    BY <1>13, <2>1, <2>4, <2>5, <2>6 DEF over, Exhausts
<1>14. CASE over /\ Gives(s, found, "fxtwitter") /\ paging' = [paging EXCEPT ![s] = next]
            /\ UNCHANGED <<feedFaults, stuck>>
  <2>1. hop' = [hop EXCEPT ![s] = "done"] /\ given' = [given EXCEPT ![s] = g]
    BY <1>14 DEF Gives, g
  <2>2. ReachedBack(s, next, g, s \in stuck')
    BY <1>6, <1>13, <1>14 DEF ReachedBack
  <2>3. PagesLeft(s, "done", next) /\ GivesWhenDone("done", g) /\ "done" \in Hops \ {"idle"}
    BY <1>4, <1>6 DEF PagesLeft, GivesWhenDone, Hops, next
  <2> HIDE DEF over
  <2>4. QED
    BY <1>1, <1>3, <1>9, <1>12, <1>14, <2>1, <2>2, <2>3, FeedMoves
<1>15. CASE ~over /\ UNCHANGED <<hop, given>> /\ paging' = [paging EXCEPT ![s] = next]
            /\ UNCHANGED <<feedFaults, stuck>>
  <2> DEFINE q == given[s]
  <2>1. hop' = [hop EXCEPT ![s] = "fxtwitter"] /\ given' = [given EXCEPT ![s] = q]
    BY <1>1, <1>3, <1>15
  <2>2. q \in Giving /\ q.by = "none" /\ q.posts = {}
    BY <1>3
  <2> HIDE DEF q
  <2>3. ReachedBack(s, next, q, s \in stuck') /\ GivesOwn(s, q) /\ GivesWhenDone("fxtwitter", q)
    BY <2>2 DEF ReachedBack, GivesOwn, GivesWhenDone
  <2>4. next.pages < MaxPages
    BY <1>5, <1>6, <1>7, <1>15 DEF over
  <2>5. PagesLeft(s, "fxtwitter", next) /\ "fxtwitter" \in Hops \ {"idle"}
    BY <1>4, <2>4 DEF PagesLeft, Hops, next
  <2> HIDE DEF over
  <2>6. QED
    BY <1>1, <1>3, <1>9, <1>15, <2>1, <2>2, <2>3, <2>5, FeedMoves
<1>16. CASE FeedFails /\ Gives(s, found, "fxtwitter") /\ paging' = [paging EXCEPT ![s] = next]
            /\ stuck' = stuck \cup {s}
  <2>1. hop' = [hop EXCEPT ![s] = "done"] /\ given' = [given EXCEPT ![s] = g]
    BY <1>16 DEF Gives, g
  <2>2. ReachedBack(s, next, g, s \in stuck')
    BY <1>16 DEF ReachedBack
  <2>3. PagesLeft(s, "done", next) /\ GivesWhenDone("done", g) /\ "done" \in Hops \ {"idle"}
    BY <1>4, <1>6 DEF PagesLeft, GivesWhenDone, Hops, next
  <2>4. feedFaults' \in 0 .. FeedFaults /\ stuck \subseteq stuck'
    BY <1>3, <1>16 DEF FeedFails
  <2> HIDE DEF over
  <2>5. QED
    BY <1>1, <1>9, <1>12, <1>16, <2>1, <2>2, <2>3, <2>4, FeedMoves
<1>17. CASE FeedFails /\ MovesOn(s, "agent_reach") /\ UNCHANGED <<paging, stuck>>
  <2> HIDE DEF over
  <2>1. QED
    BY <1>1, <1>17, FeedMovesOn
<1> HIDE DEF over
<1>18. QED
  BY <1>2, <1>14, <1>15, <1>16, <1>17

LEMMA NextFeeds == FeedInv /\ [FeedNext]_feedVars => FeedInv'
<1> SUFFICES ASSUME FeedInv, [FeedNext]_feedVars PROVE FeedInv'
  OBVIOUS
<1>1. CASE BeginFeeds
  BY <1>1, PassBegins
<1>2. ASSUME NEW s \in Feeds,
             \/ collect_syndication_timeline(s) \/ collect_fxtwitter_timeline(s)
             \/ collect_agent_reach_timeline(s)
      PROVE  FeedInv'
  BY <1>2, SyndicationKeeps, FxtwitterKeeps, AgentReachKeeps
<1>3. CASE EndFeeds
  BY <1>3, PassEnds
<1>4. CASE UNCHANGED feedVars
  <2>1. /\ UNCHANGED <<period, hop, paging, given, account, reached, passes, feedFaults>>
        /\ UNCHANGED <<mute, stuck>>
    BY <1>4 DEF feedVars
  <2>2. FeedShape' /\ HopsAccounted'
    BY <2>1 DEF FeedInv, FeedShape, HopsAccounted
  <2>3. \A u : Wanted(u)' = Wanted(u) /\ Misdated(u)' = Misdated(u)
    BY <2>1 DEF Wanted, Misdated, Parsed, InPeriod, Rows
  <2>4. ASSUME NEW s \in Feeds PROVE EachFeed(s)'
    <3>1. EachFeed(s)
      BY DEF FeedInv
    <3>2. QED
      BY <2>1, <2>3, <3>1 DEF EachFeed, PagesLeft, Paged, GivesWhenDone, GivesOwn, ReachedBack
  <2>5. AccountIsTrue' /\ (account'.step = "reading" => reached' < period'[2])
    BY <2>1 DEF FeedInv, AccountIsTrue
  <2>6. QED
    BY <2>2, <2>4, <2>5 DEF FeedInv
<1>5. QED
  BY <1>1, <1>2, <1>3, <1>4 DEF FeedNext

(* A pass and its pages have their types.                                  *)
THEOREM FeedTypesHold == FeedSpec => []FeedTypes
<1>1. FeedInv => FeedTypes
  <2> SUFFICES ASSUME FeedInv PROVE FeedTypes
    OBVIOUS
  <2>1. ASSUME NEW s \in Feeds
        PROVE  /\ paging[s].pages \in 0 .. MaxPages /\ paging[s].below \in Rows(s) \cup {NewestPage}
               /\ given[s].posts \subseteq Rows(s) /\ given[s].by \in Givers
    <3>1. EachFeed(s) /\ paging[s] \in Pages /\ given[s] \in Giving
      BY DEF FeedInv, FeedShape
    <3>2. paging[s].pages \in 0 .. MaxPages /\ given[s].by \in Givers
      BY <3>1 DEF Pages, Giving
    <3>3. Wanted(s) \subseteq Rows(s)
      BY RowsAre
    <3>4. paging[s].below \in Rows(s) \cup {NewestPage} /\ given[s].posts \subseteq Rows(s)
      BY <3>1, <3>3 DEF EachFeed, PagesLeft, Paged, GivesOwn
    <3>5. QED
      BY <3>2, <3>4
  <2>2. account.step \in {"idle", "reading", "told"} /\ account.attempted \subseteq Feeds
    BY DEF FeedInv, FeedShape
  <2>3. QED
    BY <2>1, <2>2 DEF FeedInv, FeedShape, FeedTypes, Givers
<1>2. QED
  BY <1>1, InitFeeds, NextFeeds, PTL DEF FeedSpec

(* Whichever provider answered, what the public feeds gave and whom they   *)
(* failed for is told as it was.                                           *)
THEOREM FeedsStayHonest == FeedSpec => []FeedsAreHonest
<1>1. FeedInv => FeedsAreHonest
  <2> SUFFICES ASSUME FeedInv PROVE FeedsAreHonest
    OBVIOUS
  <2>1. \A s \in Feeds : EachFeed(s)
    BY DEF FeedInv
  <2>2. GivesItsOwn
    BY <2>1 DEF EachFeed, GivesOwn, GivesItsOwn
  <2>3. PagesReachBack
    BY <2>1 DEF EachFeed, ReachedBack, PagesReachBack, RunsOut
  <2>4. QED
    BY <2>2, <2>3 DEF FeedInv, FeedsAreHonest
<1>2. QED
  BY <1>1, InitFeeds, NextFeeds, PTL DEF FeedSpec

LEMMA LeastExists ==
  ASSUME NEW T, T \subseteq Nat, T # {}
  PROVE  \E x \in T : \A y \in T : x <= y
<1> DEFINE R == OpToRel(<, Nat)
<1>1. IsWellFoundedOn(R, Nat)
  BY NatLessThanWellFounded
<1>2. PICK x \in T : \A y \in T : ~(<<y, x>> \in R)
  BY <1>1, WFMin
<1>3. \A y \in T : ~(y < x)
  BY <1>2 DEF OpToRel
<1>4. QED
  BY <1>3

-----------------------------------------------------------------------------
(* Captions (Translation).                                                 *)

Circuits == {EmptyString, "quota", "authentication", "provider_unavailable", "models_unavailable"}
Memory == [unavailable : SUBSET AllModels, transient : SUBSET AllModels,
           retryAfter : Never .. CooldownTicks, circuit : Circuits]

(* What rests and what is stopped for an outage has a time at which it     *)
(* ends.                                                                   *)
Ending(g) == (g.transient # {} \/ g.circuit = "provider_unavailable") => g.retryAfter # Never

Outcome == [g : Memory, parsed : BOOLEAN, blocked : BOOLEAN, over : BOOLEAN]

GivenBodies == {"good", "bad"}

MemoryShape == gemini \in Memory /\ Ending(gemini)

KeyShape ==
  /\ provider \in {"gemini", "ollama"} /\ api_key \in Keys \cup {EmptyString} /\ lent \in 0 .. LeaseTicks

(* Nothing is handed on while a group is being written, and what waits for *)
(* a repair is the whole group answered.                                   *)
WritingShape ==
  /\ writing = [stage |-> writing.stage, group |-> writing.group,
                purpose |-> writing.purpose, direct |-> writing.direct]
  /\ writing.stage \in {"idle", "direct", "source_only", "repair"}
  /\ writing.group \in Groups \cup {{}} /\ writing.purpose \in Purposes \cup {EmptyString}
  /\ writing.stage = "repair" => writing.direct \in [writing.group -> GivenBodies]
  /\ writing.stage # "idle" => handed = <<>> /\ writing.group \in Groups

HandedShape ==
  /\ DOMAIN handed \subseteq Captioned
  /\ \A t \in DOMAIN handed : handed[t] \in [body : Body, marked : BOOLEAN]

CaptionInv == MemoryShape /\ KeyShape /\ WritingShape /\ HandedShape /\ TextsAreVetted

LEMMA EmptyIsNoCircuit ==
  /\ EmptyString \in Circuits /\ "quota" \in Circuits /\ "authentication" \in Circuits
  /\ "provider_unavailable" \in Circuits /\ "models_unavailable" \in Circuits
  /\ EmptyString # "provider_unavailable"
BY Zenon DEF Circuits, EmptyString

LEMMA CooldownIsNumber == CooldownTicks \in Nat /\ CooldownTicks # 0
BY TranslationAssumption

LEMMA FreshIsSound == FreshWriter \in Memory /\ Ending(FreshWriter)
BY EmptyIsNoCircuit, CooldownIsNumber DEF FreshWriter, Memory, Ending, Never

(* When the deadline has come nothing rests, and no outage stops anything. *)
LEMMA ResetIsSound ==
  ASSUME NEW g \in Memory, Ending(g)
  PROVE  reset_expired_provider_cooldown(g) \in Memory /\ Ending(reset_expired_provider_cooldown(g))
<1>1. CASE g.retryAfter = 0
  <2> DEFINE c == IF g.circuit = "provider_unavailable" THEN EmptyString ELSE g.circuit
  <2>1. c \in Circuits /\ c # "provider_unavailable"
    BY EmptyIsNoCircuit DEF Memory
  <2>2. reset_expired_provider_cooldown(g) =
          [unavailable |-> g.unavailable, transient |-> {}, retryAfter |-> Never, circuit |-> c]
    BY <1>1 DEF reset_expired_provider_cooldown, Memory
  <2> HIDE DEF c
  <2>3. QED
    BY <2>1, <2>2, CooldownIsNumber DEF Memory, Ending, Never
<1>2. CASE g.retryAfter # 0
  BY <1>2 DEF reset_expired_provider_cooldown
<1>3. QED
  BY <1>1, <1>2

(* A model asked.                                                          *)
LEMMA OneAskedIsSound ==
  ASSUME NEW t \in Outcome, Ending(t.g), NEW m \in AllModels, NEW answer \in Answers
  PROVE  AskedOne(t, m, answer) \in Outcome /\ Ending(AskedOne(t, m, answer).g)
<1> DEFINE unavailable == t.g.unavailable \cup (IF answer \in {"quota", "gone"} THEN {m} ELSE {})
           transient == t.g.transient \cup (IF answer = "server" THEN {m} ELSE {})
           lastOne == answer \in DOMAIN CircuitOf /\ AllModels \subseteq unavailable \cup transient
           retryAfter == IF answer = "server" THEN CooldownTicks ELSE t.g.retryAfter
           circuit == IF answer = "authentication" THEN answer
                      ELSE IF lastOne THEN CircuitOf[answer] ELSE t.g.circuit
           h == [unavailable |-> unavailable, transient |-> transient, retryAfter |-> retryAfter,
                 circuit |-> circuit]
           blocked == t.blocked \/ answer = "blocked"
           over == lastOne \/ answer \in {"usable", "authentication", "other"}
<1>1. t.g \in Memory /\ t.blocked \in BOOLEAN
  BY DEF Outcome
<1>2. unavailable \subseteq AllModels /\ transient \subseteq AllModels
  BY <1>1 DEF Memory
<1>3. retryAfter \in Never .. CooldownTicks /\ (answer = "server" => retryAfter # Never)
  BY <1>1, CooldownIsNumber DEF Memory, Never
<1>4. /\ circuit \in Circuits
      /\ circuit = "provider_unavailable" => answer = "server" \/ circuit = t.g.circuit
  BY <1>1, EmptyIsNoCircuit DEF Memory, Answers, CircuitOf
<1>5. transient # {} => answer = "server" \/ t.g.transient # {}
  OBVIOUS
<1>6. AskedOne(t, m, answer) =
        [g |-> h, parsed |-> answer = "usable", blocked |-> blocked, over |-> over]
  BY DEF AskedOne
<1>7. blocked \in BOOLEAN /\ over \in BOOLEAN /\ (answer = "usable") \in BOOLEAN
  OBVIOUS
<1> HIDE DEF unavailable, transient, lastOne, retryAfter, circuit, blocked, over
<1>8. h \in Memory
  BY <1>2, <1>3, <1>4 DEF Memory
<1>9. Ending(h)
  <2>1. retryAfter = t.g.retryAfter \/ answer = "server"
    BY DEF retryAfter
  <2>2. QED
    BY <1>3, <1>4, <1>5, <2>1 DEF Ending
<1> HIDE DEF h
<1>10. QED
  BY <1>6, <1>7, <1>8, <1>9 DEF Outcome

(* One model's turn, and the turns of the first N of them as a function.   *)
AskStep(g, answers, t, n) ==
  IF t.over \/ ModelOrder[n] \in g.unavailable \cup g.transient THEN t
  ELSE AskedOne(t, ModelOrder[n], answers[ModelOrder[n]])

Turns(g, answers, N, f) ==
  f = [n \in 0 .. N |-> IF n = 0 THEN Unasked(g) ELSE AskStep(g, answers, f[n - 1], n)]

LEMMA TurnsExist ==
  ASSUME NEW g, NEW answers, NEW N \in Nat
  PROVE  \E f : Turns(g, answers, N, f)
<1> DEFINE missing == {n \in Nat : ~\E f : Turns(g, answers, n, f)}
<1>1. SUFFICES ASSUME missing # {} PROVE FALSE
  OBVIOUS
<1>2. PICK n \in missing : \A k \in missing : n <= k
  BY <1>1, LeastExists
<1>3. n # 0
  <2>1. Turns(g, answers, 0, [k \in 0 .. 0 |-> Unasked(g)])
    BY DEF Turns
  <2>2. QED
    BY <2>1
<1>4. n - 1 \in Nat /\ n - 1 \notin missing
  BY <1>2, <1>3
<1>5. PICK f : Turns(g, answers, n - 1, f)
  BY <1>4
<1> DEFINE h == [k \in 0 .. n |-> IF k = n THEN AskStep(g, answers, f[n - 1], n) ELSE f[k]]
<1>6. \A k \in 0 .. n - 1 : h[k] = f[k]
  BY <1>4
<1>7. ASSUME NEW k \in 0 .. n
      PROVE  h[k] = IF k = 0 THEN Unasked(g) ELSE AskStep(g, answers, h[k - 1], k)
  <2>1. CASE k = n
    <3>1. h[n] = AskStep(g, answers, f[n - 1], n) /\ h[n - 1] = f[n - 1]
      BY <1>4, <1>6
    <3>2. QED
      BY <2>1, <3>1, <1>3
  <2>2. CASE k # n
    <3>1. k \in 0 .. n - 1
      BY <2>2, <1>4
    <3>2. f[k] = IF k = 0 THEN Unasked(g) ELSE AskStep(g, answers, f[k - 1], k)
      BY <1>5, <3>1 DEF Turns
    <3>3. k # 0 => k - 1 \in 0 .. n - 1
      BY <3>1
    <3>4. h[k] = f[k] /\ (k # 0 => h[k - 1] = f[k - 1])
      BY <1>6, <3>1, <3>3
    <3>5. QED
      BY <3>2, <3>4
  <2>3. QED
    BY <2>1, <2>2
<1>8. Turns(g, answers, n, h)
  <2>1. h = [k \in 0 .. n |-> IF k = 0 THEN Unasked(g) ELSE AskStep(g, answers, h[k - 1], k)]
    <3>1. h = [k \in 0 .. n |-> h[k]]
      OBVIOUS
    <3> HIDE DEF h
    <3>2. QED
      BY <1>7, <3>1
  <2>2. QED
    BY <2>1 DEF Turns
<1>9. QED
  BY <1>2, <1>8

(* Whatever the models answer, what is remembered of them stays sound.     *)
LEMMA TurnsAreSound ==
  ASSUME NEW g \in Memory, Ending(g), NEW answers \in [AllModels -> Answers],
         NEW f, Turns(g, answers, Len(ModelOrder), f)
  PROVE  f[Len(ModelOrder)] \in Outcome /\ Ending(f[Len(ModelOrder)].g)
<1> DEFINE N == Len(ModelOrder)
           wrong == {n \in 0 .. N : ~(f[n] \in Outcome /\ Ending(f[n].g))}
<1>0. N \in Nat /\ \A n \in 1 .. N : ModelOrder[n] \in AllModels
  BY TranslationAssumption DEF AllModels, Range
<1>1. f = [n \in 0 .. N |-> IF n = 0 THEN Unasked(g) ELSE AskStep(g, answers, f[n - 1], n)]
  BY DEF Turns
<1> HIDE DEF N
<1>2. SUFFICES ASSUME wrong # {} PROVE FALSE
  BY <1>0 DEF N
<1>3. PICK n \in wrong : \A k \in wrong : n <= k
  <2>1. wrong \subseteq Nat
    BY <1>0
  <2>2. QED
    BY <1>2, <2>1, LeastExists
<1>4. n # 0
  <2>1. f[0] = Unasked(g)
    BY <1>0, <1>1
  <2>2. Unasked(g) \in Outcome /\ Unasked(g).g = g
    BY DEF Unasked, Outcome
  <2>3. QED
    BY <1>3, <2>1, <2>2
<1>5. n \in 0 .. N /\ n - 1 \in 0 .. N /\ n - 1 \notin wrong /\ n \in 1 .. N
  BY <1>0, <1>3, <1>4
<1>6. f[n - 1] \in Outcome /\ Ending(f[n - 1].g)
  BY <1>5
<1>7. f[n] = AskStep(g, answers, f[n - 1], n)
  BY <1>1, <1>4, <1>5
<1>8. AskStep(g, answers, f[n - 1], n) \in Outcome /\ Ending(AskStep(g, answers, f[n - 1], n).g)
  <2>1. ModelOrder[n] \in AllModels /\ answers[ModelOrder[n]] \in Answers
    BY <1>0, <1>5
  <2>2. QED
    BY <1>6, <2>1, OneAskedIsSound DEF AskStep
<1>9. QED
  BY <1>3, <1>7, <1>8

LEMMA AllAskedIsSound ==
  ASSUME NEW g \in Memory, Ending(g), NEW answers \in [AllModels -> Answers]
  PROVE  AskedAll(g, answers) \in Outcome /\ Ending(AskedAll(g, answers).g)
<1> DEFINE f == CHOOSE h : Turns(g, answers, Len(ModelOrder), h)
<1>1. Len(ModelOrder) \in Nat
  BY TranslationAssumption
<1>2. Turns(g, answers, Len(ModelOrder), f)
  BY <1>1, TurnsExist
<1>3. AskedAll(g, answers) = f[Len(ModelOrder)]
  BY DEF AskedAll, Turns, AskStep
<1> HIDE DEF f
<1>4. QED
  BY <1>2, <1>3, TurnsAreSound

LEMMA RequestIsSound ==
  ASSUME MemoryShape, NEW r \in Generated
  PROVE  r.g \in Memory /\ Ending(r.g)
<1>1. CASE provider = "gemini"
  <2>1. PICK answers \in [AllModels -> Answers] : r = generate_json_v2(gemini, answers)
    BY <1>1 DEF Generated
  <2> DEFINE g == reset_expired_provider_cooldown(gemini)
             kind == IF g.transient # {} THEN "provider_unavailable" ELSE "quota"
             h == [g EXCEPT !.circuit = kind]
  <2>2. g \in Memory /\ Ending(g)
    BY ResetIsSound DEF MemoryShape
  <2>3. /\ r = Unasked(g) \/ r = Unasked(h) \/ r = AskedAll(g, answers)
        /\ Unasked(g).g = g /\ Unasked(h).g = h
    BY <2>1 DEF generate_json_v2, Unasked
  <2> HIDE DEF g
  <2>4. h \in Memory /\ Ending(h)
    <3>1. kind \in Circuits /\ (kind = "provider_unavailable" => g.transient # {})
      BY EmptyIsNoCircuit
    <3>2. h = [unavailable |-> g.unavailable, transient |-> g.transient,
               retryAfter |-> g.retryAfter, circuit |-> kind]
      BY <2>2 DEF Memory
    <3> HIDE DEF h, kind
    <3>3. QED
      BY <3>1, <3>2, <2>2 DEF Memory, Ending
  <2> HIDE DEF h
  <2>5. AskedAll(g, answers).g \in Memory /\ Ending(AskedAll(g, answers).g)
    BY <2>2, AllAskedIsSound DEF Outcome
  <2>6. QED
    BY <2>2, <2>3, <2>4, <2>5
<1>2. CASE provider # "gemini"
  <2>1. PICK usable \in BOOLEAN : r = generate_json_local(gemini, usable)
    BY <1>2 DEF Generated
  <2>2. r.g = gemini
    BY <2>1 DEF generate_json_local
  <2>3. QED
    BY <2>2 DEF MemoryShape
<1>3. QED
  BY <1>1, <1>2

(* What is taken for an answer answers every post that was asked for.      *)
LEMMA ParsedIsWhole ==
  ASSUME NEW group, NEW items \in AnsweredItems(group) \cup {NothingUsable}, NEW expected
  PROVE  LET p == _parse_v2_bodies(items, expected) IN
         p = <<>> \/ (expected \subseteq DOMAIN p /\ \A t \in DOMAIN p : p[t] \in GivenBodies)
<1> DEFINE bodies == {items.bodies[t] : t \in DOMAIN items.bodies} \cup items.stray
<1>1. (\A t \in DOMAIN items.bodies : items.bodies[t] \in GivenBodies) /\ items.stray \subseteq GivenBodies
  <2>1. CASE items = NothingUsable
    BY <2>1 DEF NothingUsable
  <2>2. CASE items \in AnsweredItems(group)
    BY <2>2 DEF AnsweredItems, GivenBodies
  <2>3. QED
    BY <2>1, <2>2
<1>2. CASE expected \subseteq DOMAIN items.bodies
  BY <1>1, <1>2 DEF _parse_v2_bodies
<1>3. CASE /\ ~(expected \subseteq DOMAIN items.bodies)
           /\ Cardinality(expected) = 1 /\ Cardinality(DOMAIN items.bodies) + Cardinality(items.stray) = 1
  <2>1. bodies # {}
    <3>1. SUFFICES ASSUME bodies = {} PROVE FALSE
      OBVIOUS
    <3>2. DOMAIN items.bodies = {} /\ items.stray = {}
      BY <3>1
    <3>3. QED
      BY <1>3, <3>2, FS_EmptySet
  <2>2. (CHOOSE body \in bodies : TRUE) \in GivenBodies
    BY <1>1, <2>1
  <2>3. _parse_v2_bodies(items, expected) = [t \in expected |-> CHOOSE body \in bodies : TRUE]
    BY <1>3 DEF _parse_v2_bodies
  <2> HIDE DEF bodies
  <2>4. QED
    BY <2>2, <2>3
<1>4. CASE /\ ~(expected \subseteq DOMAIN items.bodies)
           /\ ~(Cardinality(expected) = 1
                /\ Cardinality(DOMAIN items.bodies) + Cardinality(items.stray) = 1)
  BY <1>4 DEF _parse_v2_bodies
<1>5. QED
  BY <1>2, <1>3, <1>4

(* The gate: what carries no mark was checked.                             *)
LEMMA HandedIsVetted ==
  ASSUME NEW group \in Groups, NEW purpose, NEW direct, NEW bodies \in [group -> Body],
         Hand(group, purpose, direct, bodies),
         direct # <<>> => \A t \in group : Passes(t, direct[t]) => Passes(t, bodies[t])
  PROVE  WritingShape' /\ HandedShape' /\ TextsAreVetted'
<1> DEFINE texts == _finalize_output(group, bodies)
           kept == {t \in group : ~(purpose = "request" /\ texts[t].marked)}
<1>1. handed' = [t \in kept |-> texts[t]] /\ kept \subseteq group
  BY DEF Hand, Restrict
<1>2. writing' = [stage |-> "idle", group |-> {}, purpose |-> EmptyString, direct |-> direct]
  BY DEF Hand, NotWriting
<1>3. ASSUME NEW t \in group
      PROVE  /\ texts[t] \in [body : Body, marked : BOOLEAN]
             /\ texts[t].marked \/ Passes(t, texts[t].body)
             /\ Passes(t, bodies[t]) => ~texts[t].marked
  <2>1. CASE t \in MetadataOnly
    <3>1. texts[t] = [body |-> "label", marked |-> FALSE]
      BY <2>1 DEF _finalize_output, Text
    <3>2. QED
      BY <2>1, <3>1 DEF Passes, Body
  <2>2. CASE t \notin MetadataOnly /\ bodies[t] = "preserved"
    <3>1. texts[t] = [body |-> "preserved", marked |-> TRUE]
      BY <2>2 DEF _finalize_output, Text
    <3>2. ~Passes(t, bodies[t])
      BY <2>2 DEF Passes
    <3>3. QED
      BY <3>1, <3>2 DEF Body
  <2>3. CASE t \notin MetadataOnly /\ bodies[t] # "preserved"
    <3>1. texts[t] = [body |-> bodies[t], marked |-> ~Passes(t, bodies[t])]
      BY <2>3 DEF _finalize_output
    <3> DEFINE fine == Passes(t, bodies[t])
    <3>2. fine \in BOOLEAN
      BY DEF Passes
    <3>3. texts[t].body = bodies[t] /\ texts[t].marked = ~fine
      BY <3>1
    <3>4. Passes(t, texts[t].body) <=> fine
      BY <3>3
    <3>5. texts[t] \in [body : Body, marked : BOOLEAN]
      <4> HIDE DEF fine
      <4>1. texts[t] = [body |-> bodies[t], marked |-> ~fine]
        BY <3>1 DEF fine
      <4> HIDE DEF texts
      <4>2. QED
        BY <3>2, <4>1
    <3> HIDE DEF fine
    <3>6. QED
      BY <3>2, <3>3, <3>4, <3>5 DEF fine
  <2>4. QED
    BY <2>1, <2>2, <2>3
<1>4. group \subseteq Captioned /\ {} \in Groups \cup {{}}
  BY DEF Groups
<1> HIDE DEF texts, kept
<1>5. WritingShape'
  BY <1>2, <1>4 DEF WritingShape
<1>6. HandedShape'
  BY <1>1, <1>3, <1>4 DEF HandedShape
<1>7. TextsAreVetted'
  BY <1>1, <1>2, <1>3 DEF TextsAreVetted
<1>8. QED
  BY <1>5, <1>6, <1>7

LEMMA InitCaptions == TranslationInit => CaptionInv
<1> SUFFICES ASSUME TranslationInit PROVE CaptionInv
  OBVIOUS
<1>1. MemoryShape
  BY FreshIsSound DEF TranslationInit, MemoryShape
<1>2. KeyShape
  BY TranslationAssumption DEF TranslationInit, KeyShape
<1>3. DOMAIN handed = {}
  BY DEF TranslationInit
<1>4. WritingShape /\ HandedShape /\ TextsAreVetted
  BY <1>3 DEF TranslationInit, WritingShape, HandedShape, TextsAreVetted, NotWriting
<1>5. QED
  BY <1>1, <1>2, <1>4 DEF CaptionInv

LEMMA NextCaptions == CaptionInv /\ [TranslationNext]_translationVars => CaptionInv'
<1> SUFFICES ASSUME CaptionInv, [TranslationNext]_translationVars PROVE CaptionInv'
  OBVIOUS
<1>inv. MemoryShape /\ KeyShape /\ WritingShape /\ HandedShape /\ TextsAreVetted
  BY DEF CaptionInv
<1>memory. gemini \in Memory /\ Ending(gemini)
  BY <1>inv DEF MemoryShape
<1>written. ASSUME UNCHANGED <<writing, handed>>
            PROVE  WritingShape' /\ HandedShape' /\ TextsAreVetted'
  BY <1>inv, <1>written DEF WritingShape, HandedShape, TextsAreVetted
<1>keys. ASSUME UNCHANGED <<provider, api_key, lent>> PROVE KeyShape'
  BY <1>inv, <1>keys DEF KeyShape
<1>1. ASSUME NEW group \in Groups, NEW purpose \in Purposes, _installed_write_group(group, purpose)
      PROVE  CaptionInv'
  <2> DEFINE g == IF provider = "gemini" THEN reset_expired_provider_cooldown(gemini) ELSE gemini
             foreign == group \ (MetadataOnly \cup Persian)
  <2>1. KeyShape'
    BY <1>1, <1>keys DEF _installed_write_group
  <2>2. g \in Memory /\ Ending(g)
    BY <1>memory, ResetIsSound
  <2>3. gemini' = gemini \/ gemini' = g
    BY <1>1 DEF _installed_write_group
  <2>4. MemoryShape'
    BY <2>2, <2>3, <1>memory DEF MemoryShape
  <2>5. CASE Hand(group, purpose, <<>>, [t \in group |-> "source"])
    <3>1. [t \in group |-> "source"] \in [group -> Body]
      BY DEF Body
    <3>2. WritingShape' /\ HandedShape' /\ TextsAreVetted'
      BY <2>5, <3>1, HandedIsVetted
    <3>3. QED
      BY <2>1, <2>4, <3>2 DEF CaptionInv
  <2>6. CASE Hand(group, purpose, <<>>, unavailable_translation(group))
    <3>1. unavailable_translation(group) \in [group -> Body]
      BY DEF Body, unavailable_translation
    <3>2. WritingShape' /\ HandedShape' /\ TextsAreVetted'
      BY <2>6, <3>1, HandedIsVetted
    <3>3. QED
      BY <2>1, <2>4, <3>2 DEF CaptionInv
  <2>7. CASE /\ writing' = [stage |-> "direct", group |-> group, purpose |-> purpose, direct |-> <<>>]
             /\ handed' = <<>>
    <3>1. DOMAIN handed' = {}
      BY <2>7
    <3>2. HandedShape' /\ TextsAreVetted'
      BY <3>1 DEF HandedShape, TextsAreVetted
    <3>3. WritingShape'
      BY <2>7 DEF WritingShape
    <3>4. QED
      BY <2>1, <2>4, <3>2, <3>3 DEF CaptionInv
  <2>8. QED
    BY <1>1, <2>5, <2>6, <2>7 DEF _installed_write_group
<1>2. ASSUME NEW group \in Groups, NEW purpose \in Purposes, write_group_v1(group, purpose)
      PROVE  CaptionInv'
  <2>1. PICK bodies \in [group -> {"source", "good", "bad"}] : Hand(group, purpose, <<>>, bodies)
    BY <1>2 DEF write_group_v1
  <2>2. bodies \in [group -> Body]
    BY DEF Body
  <2>3. WritingShape' /\ HandedShape' /\ TextsAreVetted'
    BY <2>1, <2>2, HandedIsVetted
  <2>4. MemoryShape' /\ KeyShape'
    BY <1>2, <1>inv DEF write_group_v1, MemoryShape, KeyShape
  <2>5. QED
    BY <2>3, <2>4 DEF CaptionInv
<1>3. CASE _direct_group
  <2> DEFINE G == writing.group
  <2>1. PICK r \in Generated : \E items \in IF r.parsed THEN AnsweredItems(G) ELSE {NothingUsable} :
          LET parsed == _parse_v2_bodies(items, G)
              direct == Restrict(parsed, G)
          IN /\ gemini' = r.g
             /\ \/ writing' = [writing EXCEPT !.stage = "source_only"] /\ UNCHANGED handed
                \/ Hand(G, writing.purpose, <<>>, unavailable_translation(G))
                \/ parsed # <<>> /\ Hand(G, writing.purpose, direct, direct)
                \/ /\ parsed # <<>>
                   /\ writing' = [writing EXCEPT !.stage = "repair", !.direct = direct]
                   /\ UNCHANGED handed
    BY <1>3 DEF _direct_group
  <2>i. PICK items \in IF r.parsed THEN AnsweredItems(G) ELSE {NothingUsable} :
          LET parsed == _parse_v2_bodies(items, G)
              direct == Restrict(parsed, G)
          IN /\ gemini' = r.g
             /\ \/ writing' = [writing EXCEPT !.stage = "source_only"] /\ UNCHANGED handed
                \/ Hand(G, writing.purpose, <<>>, unavailable_translation(G))
                \/ parsed # <<>> /\ Hand(G, writing.purpose, direct, direct)
                \/ /\ parsed # <<>>
                   /\ writing' = [writing EXCEPT !.stage = "repair", !.direct = direct]
                   /\ UNCHANGED handed
    BY <2>1
  <2> DEFINE parsed == _parse_v2_bodies(items, G)
             direct == Restrict(parsed, G)
  <2>2. G \in Groups /\ handed = <<>> /\ DOMAIN handed = {} /\ writing.stage # "idle"
    BY <1>3, <1>inv DEF _direct_group, WritingShape
  <2>3. MemoryShape' /\ KeyShape'
    <3>1. r.g \in Memory /\ Ending(r.g) /\ gemini' = r.g
      BY <2>i, <1>inv, RequestIsSound
    <3>2. UNCHANGED <<provider, api_key, lent>>
      BY <1>3 DEF _direct_group
    <3>3. QED
      BY <3>1, <3>2, <1>keys DEF MemoryShape
  <2>4. parsed # <<>> => direct \in [G -> GivenBodies]
    <3>1. items \in AnsweredItems(G) \cup {NothingUsable}
      OBVIOUS
    <3>2. parsed # <<>> => G \subseteq DOMAIN parsed /\ \A t \in DOMAIN parsed : parsed[t] \in GivenBodies
      BY <3>1, ParsedIsWhole
    <3>3. direct = [t \in G |-> parsed[t]]
      BY DEF Restrict
    <3> HIDE DEF parsed, direct, G
    <3>4. QED
      BY <3>2, <3>3
  <2>5. /\ writing = [stage |-> writing.stage, group |-> writing.group,
                      purpose |-> writing.purpose, direct |-> writing.direct]
        /\ writing.purpose \in Purposes \cup {EmptyString}
    BY <1>inv DEF WritingShape
  <2>6. CASE writing' = [writing EXCEPT !.stage = "source_only"] /\ UNCHANGED handed
    <3>1. writing' = [stage |-> "source_only", group |-> G, purpose |-> writing.purpose,
                      direct |-> writing.direct]
      BY <2>5, <2>6
    <3>2. handed' = <<>> /\ DOMAIN handed' = {}
      BY <2>2, <2>6
    <3>3. WritingShape' /\ HandedShape' /\ TextsAreVetted'
      BY <2>2, <2>5, <3>1, <3>2 DEF WritingShape, HandedShape, TextsAreVetted
    <3>4. QED
      BY <2>3, <3>3 DEF CaptionInv
  <2>7. CASE Hand(G, writing.purpose, <<>>, unavailable_translation(G))
    <3>1. unavailable_translation(G) \in [G -> Body]
      BY DEF Body, unavailable_translation
    <3>2. WritingShape' /\ HandedShape' /\ TextsAreVetted'
      BY <2>2, <2>7, <3>1, HandedIsVetted
    <3>3. QED
      BY <2>3, <3>2 DEF CaptionInv
  <2>8. CASE parsed # <<>> /\ Hand(G, writing.purpose, direct, direct)
    <3>1. direct \in [G -> Body]
      BY <2>4, <2>8 DEF GivenBodies, Body
    <3> HIDE DEF direct, parsed, G
    <3>2. WritingShape' /\ HandedShape' /\ TextsAreVetted'
      BY <2>2, <2>8, <3>1, HandedIsVetted
    <3>3. QED
      BY <2>3, <3>2 DEF CaptionInv
  <2>9. CASE /\ parsed # <<>>
             /\ writing' = [writing EXCEPT !.stage = "repair", !.direct = direct] /\ UNCHANGED handed
    <3> HIDE DEF direct, parsed
    <3>1. writing' = [stage |-> "repair", group |-> G, purpose |-> writing.purpose, direct |-> direct]
      BY <2>5, <2>9
    <3>2. handed' = <<>> /\ DOMAIN handed' = {}
      BY <2>2, <2>9
    <3>3. WritingShape' /\ HandedShape' /\ TextsAreVetted'
      BY <2>2, <2>4, <2>5, <2>9, <3>1, <3>2 DEF WritingShape, HandedShape, TextsAreVetted
    <3>4. QED
      BY <2>3, <3>3 DEF CaptionInv
  <2>10. QED
    BY <2>i, <2>6, <2>7, <2>8, <2>9
<1>4. CASE _repair_failed_items
  <2> DEFINE G == writing.group
             failed == {t \in G : ~Passes(t, writing.direct[t])}
  <2>1. PICK r \in Generated : \E items \in IF r.parsed THEN AnsweredItems(G) ELSE {NothingUsable} :
          LET answered == _parse_v2_bodies(items, failed)
              repaired == [t \in G |-> IF t \in DOMAIN answered THEN answered[t] ELSE writing.direct[t]]
              accepted == answered # <<>> /\ StillBad(repaired, failed) = {}
          IN /\ gemini' = r.g
             /\ Hand(G, writing.purpose, writing.direct, IF accepted THEN repaired ELSE writing.direct)
    BY <1>4 DEF _repair_failed_items
  <2>i. PICK items \in IF r.parsed THEN AnsweredItems(G) ELSE {NothingUsable} :
          LET answered == _parse_v2_bodies(items, failed)
              repaired == [t \in G |-> IF t \in DOMAIN answered THEN answered[t] ELSE writing.direct[t]]
              accepted == answered # <<>> /\ StillBad(repaired, failed) = {}
          IN /\ gemini' = r.g
             /\ Hand(G, writing.purpose, writing.direct, IF accepted THEN repaired ELSE writing.direct)
    BY <2>1
  <2> DEFINE answered == _parse_v2_bodies(items, failed)
             repaired == [t \in G |-> IF t \in DOMAIN answered THEN answered[t] ELSE writing.direct[t]]
             accepted == answered # <<>> /\ StillBad(repaired, failed) = {}
             bodies == IF accepted THEN repaired ELSE writing.direct
  <2>2. G \in Groups /\ writing.direct \in [G -> GivenBodies]
    BY <1>4, <1>inv DEF _repair_failed_items, WritingShape
  <2>3. MemoryShape' /\ KeyShape'
    <3>1. r.g \in Memory /\ Ending(r.g) /\ gemini' = r.g
      BY <2>i, <1>inv, RequestIsSound
    <3>2. UNCHANGED <<provider, api_key, lent>>
      BY <1>4 DEF _repair_failed_items
    <3>3. QED
      BY <3>1, <3>2, <1>keys DEF MemoryShape
  <2>4. Hand(G, writing.purpose, writing.direct, bodies)
    BY <2>i
  <2>5. answered # <<>> => \A t \in DOMAIN answered : answered[t] \in GivenBodies
    <3>1. items \in AnsweredItems(G) \cup {NothingUsable}
      OBVIOUS
    <3>2. QED
      BY <3>1, ParsedIsWhole
  <2>6. accepted => repaired \in [G -> GivenBodies] /\ \A t \in G : Passes(t, repaired[t])
    <3> HIDE DEF answered
    <3>1. answered # <<>> => repaired \in [G -> GivenBodies]
      BY <2>2, <2>5
    <3>2. StillBad(repaired, failed) = {} => \A t \in G : Passes(t, repaired[t])
      BY DEF StillBad
    <3>3. QED
      BY <3>1, <3>2
  <2> HIDE DEF accepted, repaired, answered
  <2>7. bodies \in [G -> Body] /\ \A t \in G : Passes(t, writing.direct[t]) => Passes(t, bodies[t])
    <3>1. CASE accepted
      BY <2>6, <3>1 DEF GivenBodies, Body
    <3>2. CASE ~accepted
      BY <2>2, <3>2 DEF GivenBodies, Body
    <3>3. QED
      BY <3>1, <3>2
  <2> HIDE DEF bodies, G
  <2>8. WritingShape' /\ HandedShape' /\ TextsAreVetted'
    BY <2>2, <2>4, <2>7, HandedIsVetted
  <2>9. QED
    BY <2>3, <2>8 DEF CaptionInv
<1>key. ASSUME NEW value \in Keys \cup {EmptyString}, NewKey(value)
        PROVE  MemoryShape' /\ api_key' \in Keys \cup {EmptyString}
  <2> DEFINE h == [gemini EXCEPT !.circuit = EmptyString]
  <2>1. gemini' = gemini \/ gemini' = h
    BY <1>key DEF NewKey
  <2>2. h = [unavailable |-> gemini.unavailable, transient |-> gemini.transient,
             retryAfter |-> gemini.retryAfter, circuit |-> EmptyString]
    BY <1>memory DEF Memory
  <2> HIDE DEF h
  <2>3. h \in Memory /\ Ending(h)
    BY <2>2, <1>memory, EmptyIsNoCircuit DEF Memory, Ending
  <2>4. QED
    BY <2>1, <2>3, <1>memory, <1>key DEF MemoryShape, NewKey
<1>5. ASSUME NEW value \in Keys, install_gemini_credential_lease_sync(value) PROVE CaptionInv'
  <2>1. MemoryShape' /\ api_key' \in Keys \cup {EmptyString}
    BY <1>5, <1>key DEF install_gemini_credential_lease_sync
  <2>2. KeyShape'
    BY <1>5, <2>1, <1>inv, TranslationAssumption DEF install_gemini_credential_lease_sync, KeyShape
  <2>3. UNCHANGED <<writing, handed>>
    BY <1>5 DEF install_gemini_credential_lease_sync
  <2>4. QED
    BY <2>1, <2>2, <2>3, <1>written DEF CaptionInv
<1>6. CASE _expire_gemini_credential_lease_if_needed
  <2>1. MemoryShape' /\ api_key' \in Keys \cup {EmptyString}
    BY <1>6, <1>key DEF _expire_gemini_credential_lease_if_needed
  <2>2. KeyShape'
    BY <1>6, <2>1, <1>inv DEF _expire_gemini_credential_lease_if_needed, KeyShape
  <2>3. UNCHANGED <<writing, handed>>
    BY <1>6 DEF _expire_gemini_credential_lease_if_needed
  <2>4. QED
    BY <2>1, <2>2, <2>3, <1>written DEF CaptionInv
<1>7. CASE TranslationTick
  <2> DEFINE left == IF gemini.retryAfter > 0 THEN gemini.retryAfter - 1 ELSE gemini.retryAfter
  <2>1. gemini' = [unavailable |-> gemini.unavailable, transient |-> gemini.transient,
                   retryAfter |-> left, circuit |-> gemini.circuit]
    BY <1>7, <1>memory DEF TranslationTick, Memory
  <2>2. left \in Never .. CooldownTicks /\ (left = Never => gemini.retryAfter = Never)
    BY <1>memory, CooldownIsNumber DEF Memory, Never
  <2> HIDE DEF left
  <2>3. MemoryShape'
    BY <2>1, <2>2, <1>memory DEF MemoryShape, Memory, Ending
  <2>4. KeyShape' /\ UNCHANGED <<writing, handed>>
    BY <1>7, <1>inv, TranslationAssumption DEF TranslationTick, KeyShape
  <2>5. QED
    BY <2>3, <2>4, <1>written DEF CaptionInv
<1>8. CASE HostRestarts
  <2>1. MemoryShape' /\ KeyShape'
    BY <1>8, <1>inv, FreshIsSound, TranslationAssumption DEF HostRestarts, MemoryShape, KeyShape
  <2>2. WritingShape' /\ HandedShape' /\ TextsAreVetted'
    BY <1>8, <1>inv DEF HostRestarts, NotWriting, WritingShape, HandedShape, TextsAreVetted
  <2>3. QED
    BY <2>1, <2>2 DEF CaptionInv
<1>9. CASE UNCHANGED translationVars
  <2>1. UNCHANGED <<gemini, writing, handed, provider, api_key, lent>>
    BY <1>9 DEF translationVars
  <2>2. QED
    BY <2>1, <1>written, <1>keys, <1>inv DEF MemoryShape, CaptionInv
<1>10. QED
  BY <1>1, <1>2, <1>3, <1>4, <1>5, <1>6, <1>7, <1>8, <1>9 DEF TranslationNext, RequestStep

(* The captions' variables have their types.                               *)
THEOREM CaptionTypesHold == TranslationSpec => []TranslationTypes
<1>1. CaptionInv => TranslationTypes
  BY DEF CaptionInv, MemoryShape, Memory, Circuits, KeyShape, WritingShape, HandedShape, TranslationTypes
<1>2. QED
  BY <1>1, InitCaptions, NextCaptions, PTL DEF TranslationSpec

(* No text goes out unmarked that is not a label, Persian from the start   *)
(* or checked, and one that passed is not spoilt by another's repair       *)
(* (src/app/channel_translation_v2_install.py).                            *)
THEOREM TextsStayVetted == TranslationSpec => []TextsAreVetted
<1>1. CaptionInv => TextsAreVetted
  BY DEF CaptionInv
<1>2. QED
  BY <1>1, InitCaptions, NextCaptions, PTL DEF TranslationSpec

(* A circuit opened by an outage always has the deadline that closes it    *)
(* (src/app/gemini_structured.py).                                         *)
THEOREM OutagesEnd == TranslationSpec => []OutageHasEnd
<1>1. CaptionInv => OutageHasEnd
  BY DEF CaptionInv, MemoryShape, Ending, OutageHasEnd
<1>2. QED
  BY <1>1, InitCaptions, NextCaptions, PTL DEF TranslationSpec

-----------------------------------------------------------------------------
(* Events and segments (EventFusion).                                      *)

(* The members of a finite set of numbers are numbered without a gap.      *)
LEMMA Ranks ==
  ASSUME NEW P, P \subseteq Int, IsFiniteSet(P)
  PROVE  /\ Cardinality(P) \in Nat
         /\ \A i \in P : Before(P, i) \in 1 .. Cardinality(P)
         /\ \A i, j \in P : i < j => Before(P, i) < Before(P, j)
         /\ \A n \in 1 .. Cardinality(P) : \E i \in P : Before(P, i) = n
<1> DEFINE T(i) == {j \in P : j <= i}
           r == [i \in P |-> Before(P, i)]
<1>1. IsFiniteSet(P) /\ Cardinality(P) \in Nat
  BY FS_CardinalityType
<1>2. ASSUME NEW i \in P
      PROVE  IsFiniteSet(T(i)) /\ Cardinality(T(i)) \in 1 .. Cardinality(P) /\ Before(P, i) = Cardinality(T(i))
  <2>1. IsFiniteSet(T(i)) /\ Cardinality(T(i)) <= Cardinality(P) /\ Cardinality(T(i)) \in Nat
    BY <1>1, FS_Subset, FS_CardinalityType
  <2>2. i \in T(i)
    OBVIOUS
  <2>3. Cardinality(T(i)) # 0
    BY <2>1, <2>2, FS_EmptySet
  <2>4. QED
    BY <1>1, <2>1, <2>3 DEF Before
<1>3. ASSUME NEW i \in P, NEW j \in P, i < j PROVE Before(P, i) < Before(P, j)
  <2>1. T(i) \in SUBSET T(j) /\ j \in T(j) /\ j \notin T(i)
    <3>1. i \in Int /\ j \in Int /\ \A k \in P : k \in Int
      OBVIOUS
    <3>2. \A k \in P : k <= i => k <= j
      BY <1>3, <3>1
    <3>3. j <= j /\ ~(j <= i)
      BY <1>3, <3>1
    <3>4. QED
      BY <3>2, <3>3
  <2>2. Cardinality(T(i)) # Cardinality(T(j)) /\ Cardinality(T(i)) <= Cardinality(T(j))
    BY <1>2, <2>1, FS_Subset
  <2>3. QED
    BY <1>2, <2>2
<1> HIDE DEF T
<1>4. \A i, j \in P : Before(P, i) = Before(P, j) => i = j
  <2>1. \A i, j \in P : i < j \/ j < i \/ i = j
    OBVIOUS
  <2>2. QED
    BY <1>2, <1>3, <2>1
<1>5. r \in Injection(P, 1 .. Cardinality(P))
  <2>1. r \in [P -> 1 .. Cardinality(P)]
    BY <1>2
  <2>2. \A i, j \in P : r[i] = r[j] => i = j
    BY <1>4
  <2> HIDE DEF r
  <2>3. QED
    BY <2>1, <2>2 DEF Injection, IsInjective
<1>6. r \in Surjection(P, 1 .. Cardinality(P))
  <2>1. IsFiniteSet(1 .. Cardinality(P)) /\ Cardinality(1 .. Cardinality(P)) = Cardinality(P)
    BY <1>1, FS_Interval
  <2> HIDE DEF r
  <2>2. QED
    BY <1>5, <2>1, FS_Injection
<1>7. \A n \in 1 .. Cardinality(P) : \E i \in P : r[i] = n
  <2> HIDE DEF r
  <2>1. QED
    BY <1>6 DEF Surjection
<1>8. QED
  BY <1>1, <1>2, <1>3, <1>7

LEMMA PlacesAreFew ==
  ASSUME NEW N \in Nat, NEW P, P \subseteq 1 .. N
  PROVE  IsFiniteSet(P) /\ Cardinality(P) \in Nat /\ Cardinality(P) <= N
<1> DEFINE U == 1 .. N
<1>1. IsFiniteSet(U) /\ Cardinality(U) = N /\ P \in SUBSET U
  BY FS_Interval
<1> HIDE DEF U
<1>2. QED
  BY <1>1, FS_Subset, FS_CardinalityType

(* A finite set of numbers in ascending order has all of them once.        *)
LEMMA InOrderIs ==
  ASSUME NEW P, P \subseteq Int, IsFiniteSet(P)
  PROVE  LET o == InOrder(P) IN
         /\ Cardinality(P) \in Nat /\ o \in Seq(P) /\ Len(o) = Cardinality(P)
         /\ \A m, n \in DOMAIN o : m < n => o[m] < o[n]
         /\ \A i \in P : \E n \in DOMAIN o : o[n] = i
<1> DEFINE o == InOrder(P)
<1>1. /\ Cardinality(P) \in Nat
      /\ \A i \in P : Before(P, i) \in 1 .. Cardinality(P)
      /\ \A i, j \in P : i < j => Before(P, i) < Before(P, j)
      /\ \A n \in 1 .. Cardinality(P) : \E i \in P : Before(P, i) = n
  BY Ranks
<1>2. o = [n \in 1 .. Cardinality(P) |-> CHOOSE i \in P : Before(P, i) = n]
  BY DEF InOrder
<1> HIDE DEF o
<1>3. \A n \in 1 .. Cardinality(P) : o[n] \in P /\ Before(P, o[n]) = n
  BY <1>1, <1>2
<1>4. o \in Seq(P) /\ Len(o) = Cardinality(P) /\ DOMAIN o = 1 .. Cardinality(P)
  BY <1>1, <1>2, <1>3
<1>5. \A i, j \in P : i < j \/ j < i \/ i = j
  OBVIOUS
<1>6. ASSUME NEW m \in DOMAIN o, NEW n \in DOMAIN o, m < n PROVE o[m] < o[n]
  <2>1. o[m] \in P /\ o[n] \in P /\ Before(P, o[m]) = m /\ Before(P, o[n]) = n /\ m \in Int /\ n \in Int
    BY <1>3, <1>4
  <2>2. o[n] < o[m] => Before(P, o[n]) < Before(P, o[m])
    BY <1>1, <2>1
  <2>3. ~(o[n] < o[m])
    BY <1>6, <2>1, <2>2
  <2>4. o[m] # o[n]
    BY <1>6, <2>1
  <2>5. QED
    BY <1>5, <2>1, <2>3, <2>4
<1>7. ASSUME NEW i \in P PROVE \E n \in DOMAIN o : o[n] = i
  <2>1. Before(P, i) \in DOMAIN o
    BY <1>1, <1>4
  <2>2. o[Before(P, i)] \in P /\ Before(P, o[Before(P, i)]) = Before(P, i)
    BY <1>3, <1>4, <2>1
  <2> DEFINE j == o[Before(P, i)]
  <2>3. j \in P /\ Before(P, j) = Before(P, i)
    BY <2>2
  <2> HIDE DEF j
  <2>4. Before(P, i) \in Int /\ (i < j => Before(P, i) < Before(P, j)) /\ (j < i => Before(P, j) < Before(P, i))
    BY <1>1, <2>3
  <2>5. ~(i < j) /\ ~(j < i)
    BY <2>3, <2>4
  <2>6. j = i
    BY <1>5, <2>3, <2>5
  <2>7. QED
    BY <2>1, <2>6 DEF j
<1>8. QED
  BY <1>1, <1>4, <1>6, <1>7 DEF o

(* Entries chosen from a list, in its order.                               *)
LEMMA ChosenIs ==
  ASSUME NEW S, NEW list \in Seq(S), NEW P, P \subseteq DOMAIN list
  PROVE  LET kept == Chosen(list, P)
             o == InOrder(P)
         IN /\ kept \in Seq(S) /\ Len(kept) <= Len(list) /\ DOMAIN o = DOMAIN kept
            /\ \A n \in DOMAIN kept : o[n] \in P /\ kept[n] = list[o[n]]
            /\ \A m, n \in DOMAIN kept : m < n => o[m] < o[n]
            /\ \A i \in P : \E n \in DOMAIN kept : o[n] = i
<1> DEFINE o == InOrder(P)
           kept == Chosen(list, P)
           L == Len(list)
<1>0. L \in Nat /\ DOMAIN list = 1 .. L /\ \A i \in 1 .. L : list[i] \in S
  OBVIOUS
<1> HIDE DEF L
<1>1. IsFiniteSet(P) /\ Cardinality(P) \in Nat /\ Cardinality(P) <= L /\ P \subseteq Int
  BY <1>0, PlacesAreFew
<1>2. /\ o \in Seq(P) /\ Len(o) = Cardinality(P)
      /\ \A m, n \in DOMAIN o : m < n => o[m] < o[n]
      /\ \A i \in P : \E n \in DOMAIN o : o[n] = i
  BY <1>1, InOrderIs
<1>3. kept = [n \in DOMAIN o |-> list[o[n]]]
  BY DEF Chosen
<1> HIDE DEF o, kept
<1>4. DOMAIN o = 1 .. Cardinality(P) /\ \A n \in DOMAIN o : o[n] \in P
  BY <1>2
<1>5. \A n \in DOMAIN o : list[o[n]] \in S
  BY <1>0, <1>4
<1>6. kept \in Seq(S) /\ Len(kept) = Cardinality(P)
  BY <1>1, <1>3, <1>4, <1>5
<1>7. QED
  BY <1>1, <1>2, <1>3, <1>4, <1>6 DEF o, kept, L

(* A list by its entries, no two of which share an id.                     *)
Entries(list) == {list[i] : i \in DOMAIN list}
Distinct(list) == \A i, j \in DOMAIN list : i # j => list[i].id # list[j].id

LEMMA SameIdSameEntry ==
  ASSUME NEW list, Distinct(list), NEW x \in Entries(list), NEW y \in Entries(list), x.id = y.id
  PROVE  x = y
BY DEF Distinct, Entries

LEMMA KeepingKeeps ==
  ASSUME NEW S, NEW list \in Seq(S), Distinct(list), NEW K
  PROVE  /\ Keeping(list, K) \in Seq(S) /\ Distinct(Keeping(list, K))
         /\ Entries(Keeping(list, K)) = {x \in Entries(list) : x.id \in K}
         /\ Len(Keeping(list, K)) <= Len(list)
<1> DEFINE P == PlacesOf(list, K)
           o == InOrder(P)
           kept == Chosen(list, P)
<1>1. P \subseteq DOMAIN list /\ DOMAIN list \subseteq Int
  BY DEF PlacesOf
<1>2. Keeping(list, K) = kept
  BY DEF Keeping
<1>3. \A i \in DOMAIN list : i \in P <=> list[i].id \in K
  BY DEF PlacesOf
<1> HIDE DEF P
<1>4. /\ kept \in Seq(S) /\ Len(kept) <= Len(list)
      /\ \A n \in DOMAIN kept : o[n] \in P /\ kept[n] = list[o[n]]
      /\ \A m, n \in DOMAIN kept : m < n => o[m] < o[n]
      /\ \A i \in P : \E n \in DOMAIN kept : o[n] = i
  BY <1>1, ChosenIs
<1> HIDE DEF o, kept
<1>5. \A m, n \in DOMAIN kept : m # n => o[m] # o[n]
  <2>1. DOMAIN kept \subseteq Int /\ \A n \in DOMAIN kept : o[n] \in Int
    BY <1>1, <1>4
  <2>2. \A m, n \in DOMAIN kept : m < n \/ n < m \/ m = n
    BY <2>1
  <2>3. QED
    BY <1>4, <2>1, <2>2
<1>10. Distinct(kept)
  <2>1. \A m, n \in DOMAIN kept : m # n => list[o[m]].id # list[o[n]].id
    BY <1>1, <1>4, <1>5 DEF Distinct
  <2>2. QED
    BY <1>4, <2>1 DEF Distinct
<1>11. Entries(kept) = {x \in Entries(list) : x.id \in K}
  <2>1. \A n \in DOMAIN kept : kept[n] \in Entries(list) /\ kept[n].id \in K
    BY <1>1, <1>3, <1>4 DEF Entries
  <2>2. ASSUME NEW x \in Entries(list), x.id \in K PROVE x \in Entries(kept)
    <3>1. PICK i \in DOMAIN list : x = list[i]
      BY DEF Entries
    <3>2. i \in P
      BY <1>3, <2>2, <3>1
    <3>3. PICK n \in DOMAIN kept : o[n] = i
      BY <1>4, <3>2
    <3>4. kept[n] = x
      BY <1>4, <3>1, <3>3
    <3>5. QED
      BY <3>4 DEF Entries
  <2>3. QED
    BY <2>1, <2>2 DEF Entries
<1>12. QED
  BY <1>2, <1>4, <1>10, <1>11

LEMMA IdsOfEntries == \A list : Ids(list) = {x.id : x \in Entries(list)}
BY DEF Ids, Entries

LEMMA WithoutKeeps ==
  ASSUME NEW S, NEW list \in Seq(S), Distinct(list), NEW id
  PROVE  /\ Without(list, id) \in Seq(S) /\ Distinct(Without(list, id))
         /\ Entries(Without(list, id)) = {x \in Entries(list) : x.id # id}
<1>1. Entries(Without(list, id)) = {x \in Entries(list) : x.id \in Ids(list) \ {id}}
  BY KeepingKeeps DEF Without
<1>2. QED
  BY <1>1, KeepingKeeps, IdsOfEntries DEF Without

(* One more entry at the end.                                              *)
LEMMA EndsWith ==
  ASSUME NEW S, NEW list \in Seq(S), Distinct(list), NEW id, NEW x \in S, x.id = id
  PROVE  LET longer == Append(Without(list, id), x) IN
         /\ longer \in Seq(S) /\ Distinct(longer)
         /\ Entries(longer) = {y \in Entries(list) : y.id # id} \cup {x}
<1> DEFINE w == Without(list, id)
           longer == Append(w, x)
<1>1. w \in Seq(S) /\ Distinct(w) /\ Entries(w) = {y \in Entries(list) : y.id # id}
  BY WithoutKeeps
<1> HIDE DEF w
<1>2. /\ longer \in Seq(S) /\ DOMAIN longer = 1 .. Len(w) + 1 /\ DOMAIN w = 1 .. Len(w) /\ Len(w) \in Nat
      /\ longer[Len(w) + 1] = x /\ \A i \in 1 .. Len(w) : longer[i] = w[i]
  BY <1>1
<1> HIDE DEF longer
<1>3. \A i \in DOMAIN longer : i \in DOMAIN w \/ i = Len(w) + 1
  BY <1>2
<1>4. \A i \in DOMAIN w : w[i].id # id /\ i \in DOMAIN longer
  BY <1>1, <1>2 DEF Entries
<1>5. Distinct(longer)
  BY <1>1, <1>2, <1>3, <1>4 DEF Distinct
<1>6. Entries(longer) = Entries(w) \cup {x}
  <2>1. \A i \in DOMAIN longer : longer[i] \in Entries(w) \cup {x}
    BY <1>2, <1>3 DEF Entries
  <2>2. x \in Entries(longer)
    BY <1>2 DEF Entries
  <2>3. \A i \in DOMAIN w : w[i] \in Entries(longer)
    BY <1>2, <1>4 DEF Entries
  <2>4. QED
    BY <2>1, <2>2, <2>3 DEF Entries
<1>7. QED
  BY <1>1, <1>2, <1>5, <1>6 DEF w, longer

LEMMA LastOfKeeps ==
  ASSUME NEW S, NEW list \in Seq(S), Distinct(list), NEW n \in Nat
  PROVE  /\ LastOf(list, n) \in Seq(S) /\ Distinct(LastOf(list, n)) /\ Len(LastOf(list, n)) <= n
         /\ Entries(LastOf(list, n)) \subseteq Entries(list)
<1>1. CASE Len(list) <= n
  BY <1>1 DEF LastOf
<1>2. CASE ~(Len(list) <= n)
  <2> DEFINE a == Len(list) - n
             s == SubSeq(list, a + 1, Len(list))
  <2>1. a \in Nat /\ a + n = Len(list) /\ Len(list) \in Nat /\ DOMAIN list = 1 .. Len(list)
    <3>1. Len(list) \in Nat /\ DOMAIN list = 1 .. Len(list)
      OBVIOUS
    <3>2. QED
      BY <1>2, <3>1
  <2>2. LastOf(list, n) = s
    BY <1>2 DEF LastOf
  <2>3. s \in Seq(S) /\ Len(s) = n /\ DOMAIN s = 1 .. n /\ \A i \in 1 .. n : s[i] = list[a + i]
    BY <2>1
  <2>4. \A i \in 1 .. n : a + i \in DOMAIN list
    BY <2>1
  <2> HIDE DEF s, a
  <2>5. Distinct(s)
    <3>1. \A i, j \in 1 .. n : i # j => a + i # a + j
      BY <2>1
    <3>2. QED
      BY <2>3, <2>4, <3>1 DEF Distinct
  <2>6. QED
    BY <2>2, <2>3, <2>4, <2>5 DEF Entries
<1>3. QED
  BY <1>1, <1>2

(* The groups of E divide the posts: what Partition asks of a list, said   *)
(* of its entries.                                                         *)
Divides(E, of, none) ==
  /\ \A x \in E : x.members # {} /\ x.members = {u \in Told : of[u] = x.id}
  /\ \A u \in Told : of[u] # none => \E x \in E : x.id = of[u]

LEMMA PartitionDivides ==
  ASSUME NEW list, NEW of, NEW none, Distinct(list), Divides(Entries(list), of, none)
  PROVE  Partition(list, of, none)
<1>1. \A i \in DOMAIN list : list[i] \in Entries(list)
  BY DEF Entries
<1>2. \A u \in Told : of[u] # none => of[u] \in Ids(list)
  BY IdsOfEntries DEF Divides
<1>3. QED
  BY <1>1, <1>2 DEF Partition, Distinct, Divides

(* Groups that are dropped release their posts, a new one takes posts that *)
(* were in none, and so does one that grows.                               *)
LEMMA FewerDivide ==
  ASSUME NEW E, NEW D, D \subseteq E, NEW of, NEW none, Divides(E, of, none), \A x \in E : x.id # none,
         NEW new, \A u \in Told : new[u] = IF of[u] \in {x.id : x \in D} THEN of[u] ELSE none
  PROVE  Divides(D, new, none)
<1>1. ASSUME NEW x \in D PROVE x.members # {} /\ x.members = {u \in Told : new[u] = x.id}
  <2>1. x \in E /\ x.id # none /\ x.id \in {y.id : y \in D}
    OBVIOUS
  <2>2. \A u \in Told : new[u] = x.id <=> of[u] = x.id
    BY <2>1
  <2>3. x.members # {} /\ x.members = {u \in Told : of[u] = x.id}
    BY <2>1 DEF Divides
  <2>4. QED
    BY <2>2, <2>3
<1>2. ASSUME NEW u \in Told, new[u] # none PROVE \E x \in D : x.id = new[u]
  BY <1>2
<1>3. QED
  BY <1>1, <1>2 DEF Divides

LEMMA OneMoreDivides ==
  ASSUME NEW E, NEW of, NEW none, Divides(E, of, none), \A x \in E : x.id # none,
         NEW z, z.id # none, z.members \subseteq Told, z.members # {},
         \A y \in E : y.id # z.id, \A u \in z.members : of[u] = none,
         NEW new, \A u \in Told : new[u] = IF u \in z.members THEN z.id ELSE of[u]
  PROVE  Divides({y \in E : y.id # z.id} \cup {z}, new, none)
<1>1. ASSUME NEW x \in E PROVE x.members # {} /\ x.members = {u \in Told : new[u] = x.id}
  <2>1. x.members # {} /\ x.members = {u \in Told : of[u] = x.id} /\ x.id # none /\ x.id # z.id
    BY DEF Divides
  <2>2. \A u \in Told : new[u] = x.id <=> of[u] = x.id
    BY <2>1
  <2>3. QED
    BY <2>1, <2>2
<1>2. z.members = {u \in Told : new[u] = z.id}
  <2>1. ASSUME NEW u \in Told, u \notin z.members PROVE of[u] # z.id
    <3>1. of[u] # none => \E x \in E : x.id = of[u]
      BY DEF Divides
    <3>2. QED
      BY <3>1
  <2>2. QED
    BY <2>1
<1>3. ASSUME NEW u \in Told, new[u] # none
      PROVE  \E x \in {y \in E : y.id # z.id} \cup {z} : x.id = new[u]
  <2>1. CASE u \in z.members
    BY <2>1
  <2>2. CASE u \notin z.members
    <3>1. PICK x \in E : x.id = of[u]
      BY <1>3, <2>2 DEF Divides
    <3>2. QED
      BY <2>2, <3>1
  <2>3. QED
    BY <2>1, <2>2
<1>4. QED
  BY <1>1, <1>2, <1>3 DEF Divides

LEMMA GrownDivides ==
  ASSUME NEW E, NEW of, NEW none, Divides(E, of, none), \A x \in E : x.id # none,
         NEW x \in E, \A y \in E : y.id = x.id => y = x,
         NEW u \in Told, of[u] = none,
         NEW z, z.id = x.id, z.members = x.members \cup {u},
         NEW new, \A w \in Told : new[w] = IF w = u THEN x.id ELSE of[w]
  PROVE  Divides({y \in E : y.id # x.id} \cup {z}, new, none)
<1>1. ASSUME NEW y \in E, y.id # x.id
      PROVE  y.members # {} /\ y.members = {w \in Told : new[w] = y.id}
  <2>1. y.members # {} /\ y.members = {w \in Told : of[w] = y.id} /\ y.id # none
    BY DEF Divides
  <2>2. \A w \in Told : new[w] = y.id <=> of[w] = y.id
    BY <1>1, <2>1
  <2>3. QED
    BY <2>1, <2>2
<1>2. z.members # {} /\ z.members = {w \in Told : new[w] = z.id}
  <2>1. x.members = {w \in Told : of[w] = x.id}
    BY DEF Divides
  <2>2. QED
    BY <2>1
<1>3. ASSUME NEW w \in Told, new[w] # none
      PROVE  \E y \in {y \in E : y.id # x.id} \cup {z} : y.id = new[w]
  <2>1. CASE w = u
    BY <2>1
  <2>2. CASE w # u
    <3>1. PICK y \in E : y.id = of[w]
      BY <1>3, <2>2 DEF Divides
    <3>2. QED
      BY <2>2, <3>1
  <2>3. QED
    BY <2>1, <2>2
<1>4. QED
  BY <1>1, <1>2, <1>3 DEF Divides

Moments == (SUBSET Told) \X Told
EventRow == [id : SUBSET Told, members : SUBSET Told]
SegmentRow == [id : Moments, members : SUBSET Told]
Package == [segment : Moments \cup {Nothing}, posts : SUBSET Told]
Timeline ==
  [prints : SUBSET Configured, events : Seq(EventRow), eventOf : [Told -> SUBSET Told],
   segments : Seq(SegmentRow), segmentOf : [Told -> Moments \cup {Nothing}], packages : SUBSET Package]

EventsSound(list, of) ==
  /\ list \in Seq(EventRow) /\ of \in [Told -> SUBSET Told]
  /\ Distinct(list) /\ Divides(Entries(list), of, NoEvent)
  /\ \A x \in Entries(list) : x.id # NoEvent /\ x.id \subseteq x.members

SegmentsSound(list, of) ==
  /\ list \in Seq(SegmentRow) /\ of \in [Told -> Moments \cup {Nothing}]
  /\ Distinct(list) /\ Divides(Entries(list), of, Nothing)
  /\ \A x \in Entries(list) : x.id[1] # NoEvent /\ x.id[2] \in x.members

(* A segment lies in the event of its posts, or that event was pruned and  *)
(* the segment goes when the state is read.                                *)
InItsEvent(of, at) == \A u \in Told : at[u] # Nothing => at[u][1] = of[u]
InOrPruned(events, of, at) ==
  \A u \in Told : at[u] # Nothing =>
    (at[u][1] = of[u] \/ (of[u] = NoEvent /\ at[u][1] \notin Ids(events)))

Apart(packages) == \A p, q \in packages : p # q => p.posts \cap q.posts = {}

Sound(f) ==
  /\ f \in Timeline
  /\ EventsSound(f.events, f.eventOf) /\ SegmentsSound(f.segments, f.segmentOf)
  /\ InOrPruned(f.events, f.eventOf, f.segmentOf) /\ Apart(f.packages)

Consistent(f) == Sound(f) /\ InItsEvent(f.eventOf, f.segmentOf)

LEMMA NothingIsNoMoment == Nothing \notin Moments
BY DEF Nothing, Moments

LEMMA EventIds == ASSUME NEW list \in Seq(EventRow) PROVE \A x \in Entries(list) : x \in EventRow
<1> DEFINE S == EventRow
<1>1. list \in Seq(S)
  OBVIOUS
<1> HIDE DEF S
<1>2. \A x \in Entries(list) : x \in S
  BY <1>1 DEF Entries
<1>3. QED
  BY <1>2 DEF S

LEMMA SegmentIds == ASSUME NEW list \in Seq(SegmentRow) PROVE \A x \in Entries(list) : x \in SegmentRow
<1> DEFINE S == SegmentRow
<1>1. list \in Seq(S)
  OBVIOUS
<1> HIDE DEF S
<1>2. \A x \in Entries(list) : x \in S
  BY <1>1 DEF Entries
<1>3. QED
  BY <1>2 DEF S

LEMMA TimelineIsRecord ==
  ASSUME NEW f \in Timeline
  PROVE  f = [prints |-> f.prints, events |-> f.events, eventOf |-> f.eventOf, segments |-> f.segments,
              segmentOf |-> f.segmentOf, packages |-> f.packages]
<1> DEFINE A == SUBSET Configured
           B == Seq(EventRow)
           C == [Told -> SUBSET Told]
           D == Seq(SegmentRow)
           E == [Told -> Moments \cup {Nothing}]
           F == SUBSET Package
<1>1. f \in [prints : A, events : B, eventOf : C, segments : D, segmentOf : E, packages : F]
  BY DEF Timeline
<1> HIDE DEF A, B, C, D, E, F
<1>2. QED
  BY <1>1

(* Fewer events.                                                           *)
LEMMA EventsKept ==
  ASSUME NEW f, Sound(f), NEW list \in Seq(EventRow), Distinct(list), Entries(list) \subseteq Entries(f.events)
  PROVE  LET g == KeepEvents(f, list) IN
         /\ Sound(g) /\ g.events = list
         /\ g.prints = f.prints /\ g.segments = f.segments /\ g.packages = f.packages
<1> DEFINE g == KeepEvents(f, list)
           of == [u \in Told |-> IF f.eventOf[u] \in Ids(list) THEN f.eventOf[u] ELSE NoEvent]
<1>0. f \in Timeline /\ EventsSound(f.events, f.eventOf) /\ SegmentsSound(f.segments, f.segmentOf)
  BY DEF Sound
<1>1. g = [prints |-> f.prints, events |-> list, eventOf |-> of,
           segments |-> f.segments, segmentOf |-> f.segmentOf, packages |-> f.packages]
  <2>1. f = [prints |-> f.prints, events |-> f.events, eventOf |-> f.eventOf, segments |-> f.segments,
             segmentOf |-> f.segmentOf, packages |-> f.packages]
    BY <1>0, TimelineIsRecord
  <2>2. g = [[f EXCEPT !.events = list] EXCEPT !.eventOf = of]
    BY <2>1 DEF KeepEvents
  <2> HIDE DEF g, of
  <2>3. QED
    BY <2>1, <2>2
<1>2. of \in [Told -> SUBSET Told]
  BY <1>0 DEF EventsSound, NoEvent
<1>of. \A u \in Told : of[u] = IF f.eventOf[u] \in Ids(list) THEN f.eventOf[u] ELSE NoEvent
  OBVIOUS
<1> HIDE DEF of
<1>3. EventsSound(list, of)
  <2>1. Divides(Entries(f.events), f.eventOf, NoEvent) /\ \A x \in Entries(f.events) : x.id # NoEvent
    BY <1>0 DEF EventsSound
  <2>2. \A u \in Told : of[u] = IF f.eventOf[u] \in {x.id : x \in Entries(list)} THEN f.eventOf[u] ELSE NoEvent
    BY <1>of, IdsOfEntries
  <2>3. Divides(Entries(list), of, NoEvent)
    BY <2>1, <2>2, FewerDivide
  <2>4. \A x \in Entries(list) : x.id # NoEvent /\ x.id \subseteq x.members
    BY <1>0 DEF EventsSound
  <2>5. QED
    BY <1>2, <2>3, <2>4 DEF EventsSound
<1>4. InOrPruned(list, of, f.segmentOf)
  <2>1. Ids(list) \subseteq Ids(f.events)
    BY IdsOfEntries
  <2>2. ASSUME NEW u \in Told, f.segmentOf[u] # Nothing
        PROVE  f.segmentOf[u][1] = of[u] \/ (of[u] = NoEvent /\ f.segmentOf[u][1] \notin Ids(list))
    <3>1. \/ f.segmentOf[u][1] = f.eventOf[u]
          \/ f.eventOf[u] = NoEvent /\ f.segmentOf[u][1] \notin Ids(f.events)
      BY <2>2 DEF Sound, InOrPruned
    <3>2. QED
      BY <1>of, <2>1, <3>1
  <2>3. QED
    BY <2>2 DEF InOrPruned
<1>5. g \in Timeline
  <2>1. /\ f.prints \in SUBSET Configured /\ f.segments \in Seq(SegmentRow)
        /\ f.segmentOf \in [Told -> Moments \cup {Nothing}] /\ f.packages \in SUBSET Package
    BY <1>0 DEF Timeline
  <2>2. QED
    BY <1>1, <1>2, <2>1 DEF Timeline
<1>6. QED
  BY <1>0, <1>1, <1>3, <1>4, <1>5 DEF Sound

(* Fewer segments.                                                         *)
LEMMA SegmentsKept ==
  ASSUME NEW f, Sound(f), NEW list \in Seq(SegmentRow), Distinct(list),
         Entries(list) \subseteq Entries(f.segments)
  PROVE  LET g == KeepSegments(f, list) IN
         /\ Sound(g) /\ (Consistent(f) => Consistent(g)) /\ g.segments = list
         /\ g.prints = f.prints /\ g.packages = f.packages /\ g.events = f.events /\ g.eventOf = f.eventOf
         /\ \A u \in Told : g.segmentOf[u] # Nothing => g.segmentOf[u] = f.segmentOf[u] /\ g.segmentOf[u] \in Ids(list)
<1> DEFINE g == KeepSegments(f, list)
           at == [u \in Told |-> IF f.segmentOf[u] \in Ids(list) THEN f.segmentOf[u] ELSE Nothing]
<1>0. f \in Timeline /\ EventsSound(f.events, f.eventOf) /\ SegmentsSound(f.segments, f.segmentOf)
  BY DEF Sound
<1>1. g = [prints |-> f.prints, events |-> f.events, eventOf |-> f.eventOf,
           segments |-> list, segmentOf |-> at, packages |-> f.packages]
  <2>1. f = [prints |-> f.prints, events |-> f.events, eventOf |-> f.eventOf, segments |-> f.segments,
             segmentOf |-> f.segmentOf, packages |-> f.packages]
    BY <1>0, TimelineIsRecord
  <2>2. g = [[f EXCEPT !.segments = list] EXCEPT !.segmentOf = at]
    BY <2>1 DEF KeepSegments
  <2> HIDE DEF g, at
  <2>3. QED
    BY <2>1, <2>2
<1>2. at \in [Told -> Moments \cup {Nothing}]
  BY <1>0 DEF SegmentsSound
<1>at. \A u \in Told : at[u] = IF f.segmentOf[u] \in Ids(list) THEN f.segmentOf[u] ELSE Nothing
  OBVIOUS
<1> HIDE DEF at
<1>3. SegmentsSound(list, at)
  <2>1. Divides(Entries(f.segments), f.segmentOf, Nothing)
    BY <1>0 DEF SegmentsSound
  <2>2. \A x \in Entries(f.segments) : x.id # Nothing
    <3>1. \A x \in Entries(f.segments) : x \in SegmentRow
      BY <1>0, SegmentIds DEF SegmentsSound
    <3>2. QED
      BY <3>1, NothingIsNoMoment DEF SegmentRow
  <2>3. \A u \in Told : at[u] = IF f.segmentOf[u] \in {x.id : x \in Entries(list)} THEN f.segmentOf[u] ELSE Nothing
    BY <1>at, IdsOfEntries
  <2>4. Divides(Entries(list), at, Nothing)
    BY <2>1, <2>2, <2>3, FewerDivide
  <2>5. \A x \in Entries(list) : x.id[1] # NoEvent /\ x.id[2] \in x.members
    BY <1>0 DEF SegmentsSound
  <2>6. QED
    BY <1>2, <2>4, <2>5 DEF SegmentsSound
<1>4. \A u \in Told : at[u] # Nothing => at[u] = f.segmentOf[u] /\ at[u] \in Ids(list)
  BY <1>at
<1>5. InOrPruned(f.events, f.eventOf, at) /\ (Consistent(f) => InItsEvent(f.eventOf, at))
  <2>1. InOrPruned(f.events, f.eventOf, f.segmentOf)
    BY DEF Sound
  <2>2. QED
    BY <1>4, <2>1 DEF InOrPruned, Consistent, InItsEvent
<1>6. g \in Timeline
  <2>1. /\ f.prints \in SUBSET Configured /\ f.events \in Seq(EventRow)
        /\ f.eventOf \in [Told -> SUBSET Told] /\ f.packages \in SUBSET Package
    BY <1>0 DEF Timeline
  <2>2. QED
    BY <1>1, <1>2, <2>1 DEF Timeline
<1>7. Sound(g)
  BY <1>0, <1>1, <1>3, <1>5, <1>6 DEF Sound
<1>8. QED
  BY <1>1, <1>4, <1>5, <1>7 DEF Consistent

LEMMA Bounds == MaxEvents \in Nat /\ MaxSegments \in Nat /\ Configured \subseteq Told /\ Told \subseteq Nat
BY FusionAssumption

LEMMA PrintsKept ==
  ASSUME NEW f, Sound(f), NEW P, P \subseteq f.prints
  PROVE  LET g == [f EXCEPT !.prints = P] IN
         Sound(g) /\ (Consistent(f) => Consistent(g)) /\ g.events = f.events /\ g.eventOf = f.eventOf /\ g.segments = f.segments
<1> DEFINE g == [f EXCEPT !.prints = P]
<1>0. f \in Timeline
  BY DEF Sound
<1>1. g = [prints |-> P, events |-> f.events, eventOf |-> f.eventOf, segments |-> f.segments,
           segmentOf |-> f.segmentOf, packages |-> f.packages]
  <2>1. f = [prints |-> f.prints, events |-> f.events, eventOf |-> f.eventOf, segments |-> f.segments,
             segmentOf |-> f.segmentOf, packages |-> f.packages]
    BY <1>0, TimelineIsRecord
  <2>2. QED
    BY <2>1
<1> HIDE DEF g
<1>2. g \in Timeline
  <2>1. /\ P \in SUBSET Configured /\ f.events \in Seq(EventRow) /\ f.eventOf \in [Told -> SUBSET Told]
        /\ f.segments \in Seq(SegmentRow) /\ f.segmentOf \in [Told -> Moments \cup {Nothing}]
        /\ f.packages \in SUBSET Package
    BY <1>0 DEF Timeline
  <2>2. QED
    BY <1>1, <2>1 DEF Timeline
<1>3. Sound(g)
  BY <1>1, <1>2 DEF Sound
<1>4. QED
  BY <1>1, <1>3 DEF Consistent, g

(* Saving prunes, and reading settles which segments are kept.             *)
LEMMA PrunedIsSound ==
  ASSUME NEW f, Sound(f)
  PROVE  /\ Sound(_prune(f))
         /\ Len(_prune(f).events) <= MaxEvents /\ Len(_prune(f).segments) <= MaxSegments
<1> DEFINE E == LastOf(f.events, MaxEvents)
           g == KeepEvents(f, E)
           newer(u) == Cardinality({v \in f.prints : v > u})
           P == {u \in g.prints : newer(u) < MaxPrints}
           h == [g EXCEPT !.prints = P]
           L == LastOf(h.segments, MaxSegments)
           k == KeepSegments(h, L)
<1>0. _prune(f) = k
  BY DEF _prune, _prune_timeline
<1>1. E \in Seq(EventRow) /\ Distinct(E) /\ Len(E) <= MaxEvents /\ Entries(E) \subseteq Entries(f.events)
  BY Bounds, LastOfKeeps DEF Sound, EventsSound
<1> HIDE DEF E
<1>2. Sound(g) /\ g.events = E
  BY <1>1, EventsKept
<1> HIDE DEF g
<1>3. P \subseteq g.prints
  OBVIOUS
<1> HIDE DEF P
<1>4. Sound(h) /\ h.events = E
  BY <1>2, <1>3, PrintsKept
<1> HIDE DEF h
<1>5. L \in Seq(SegmentRow) /\ Distinct(L) /\ Len(L) <= MaxSegments /\ Entries(L) \subseteq Entries(h.segments)
  BY <1>4, Bounds, LastOfKeeps DEF Sound, SegmentsSound
<1> HIDE DEF L
<1>6. Sound(k) /\ k.segments = L /\ k.events = h.events
  BY <1>4, <1>5, SegmentsKept
<1> HIDE DEF k
<1>7. QED
  BY <1>0, <1>1, <1>4, <1>5, <1>6

LEMMA TimelinePrunedIsSound ==
  ASSUME NEW f, Sound(f)
  PROVE  Sound(_prune_timeline(f)) /\ (Consistent(f) => Consistent(_prune_timeline(f)))
<1> DEFINE L == LastOf(f.segments, MaxSegments)
<1>1. L \in Seq(SegmentRow) /\ Distinct(L) /\ Entries(L) \subseteq Entries(f.segments)
  BY Bounds, LastOfKeeps DEF Sound, SegmentsSound
<1> HIDE DEF L
<1>2. Sound(KeepSegments(f, L)) /\ (Consistent(f) => Consistent(KeepSegments(f, L)))
  BY <1>1, SegmentsKept
<1>3. _prune_timeline(f) = KeepSegments(f, L)
  BY DEF _prune_timeline, L
<1>4. QED
  BY <1>2, <1>3

LEMMA ReadIsSettled ==
  ASSUME NEW f, Sound(f), NEW installed \in BOOLEAN
  PROVE  LET g == _sanitize_event_state(f, installed) IN
         Consistent(g) /\ g.prints = f.prints
<1> DEFINE E == LastOf(f.events, MaxEvents)
           g == KeepEvents(f, E)
           K == {s \in Ids(g.segments) : s[1] \in Ids(g.events)}
           L == Keeping(g.segments, K)
           h == KeepSegments(g, L)
           Q == IF installed THEN {p \in h.packages : SanePackage(f, p)} ELSE {}
           k == [h EXCEPT !.packages = Q]
<1>1. E \in Seq(EventRow) /\ Distinct(E) /\ Entries(E) \subseteq Entries(f.events)
  BY Bounds, LastOfKeeps DEF Sound, EventsSound
<1> HIDE DEF E
<1>2. Sound(g) /\ g.events = E /\ g.prints = f.prints
  BY <1>1, EventsKept
<1> HIDE DEF g
<1>3. /\ L \in Seq(SegmentRow) /\ Distinct(L)
      /\ Entries(L) = {x \in Entries(g.segments) : x.id \in K}
  <2> HIDE DEF K
  <2>1. g.segments \in Seq(SegmentRow) /\ Distinct(g.segments)
    BY <1>2 DEF Sound, SegmentsSound
  <2>2. QED
    BY <2>1, KeepingKeeps
<1>ids. Ids(L) \subseteq K
  BY <1>3, IdsOfEntries
<1> HIDE DEF L
<1>4. /\ Sound(h) /\ h.events = g.events /\ h.eventOf = g.eventOf /\ h.prints = f.prints
      /\ \A u \in Told : h.segmentOf[u] # Nothing =>
           h.segmentOf[u] = g.segmentOf[u] /\ h.segmentOf[u] \in Ids(L)
  BY <1>2, <1>3, SegmentsKept
<1> HIDE DEF h
<1>5. InItsEvent(h.eventOf, h.segmentOf)
  <2>1. ASSUME NEW u \in Told, h.segmentOf[u] # Nothing PROVE h.segmentOf[u][1] = h.eventOf[u]
    <3>1. h.segmentOf[u] = g.segmentOf[u] /\ h.segmentOf[u][1] \in Ids(g.events) /\ g.segmentOf[u] # Nothing
      BY <1>4, <1>ids, <2>1
    <3>2. QED
      BY <1>2, <1>4, <3>1 DEF Sound, InOrPruned
  <2>2. QED
    BY <2>1 DEF InItsEvent
<1>6. Q \subseteq h.packages
  OBVIOUS
<1>7. h.packages \in SUBSET Package /\ Apart(h.packages)
  BY <1>4 DEF Sound, Timeline
<1>8. Q \in SUBSET Package /\ Apart(Q)
  BY <1>6, <1>7 DEF Apart
<1> HIDE DEF Q
<1>9. k = [prints |-> h.prints, events |-> h.events, eventOf |-> h.eventOf, segments |-> h.segments,
           segmentOf |-> h.segmentOf, packages |-> Q]
  <2>1. h = [prints |-> h.prints, events |-> h.events, eventOf |-> h.eventOf, segments |-> h.segments,
             segmentOf |-> h.segmentOf, packages |-> h.packages]
    BY <1>4, TimelineIsRecord DEF Sound
  <2>2. QED
    BY <2>1
<1>10. _sanitize_event_state(f, installed) = k
  <2>1. SaneSegments(g) = h
    BY DEF SaneSegments, h, L, K
  <2>2. QED
    BY <2>1 DEF _sanitize_event_state, k, Q, g, E
<1> HIDE DEF k
<1>11. k \in Timeline
  <2>1. /\ h.prints \in SUBSET Configured
        /\ h.events \in Seq(EventRow) /\ h.eventOf \in [Told -> SUBSET Told]
        /\ h.segments \in Seq(SegmentRow) /\ h.segmentOf \in [Told -> Moments \cup {Nothing}]
    BY <1>4 DEF Sound, Timeline
  <2>2. QED
    BY <1>8, <1>9, <2>1 DEF Timeline
<1>12. Consistent(k)
  BY <1>4, <1>5, <1>8, <1>9, <1>11 DEF Sound, Consistent
<1>13. QED
  BY <1>4, <1>9, <1>10, <1>12

(* A post that is in no event is in no segment.                            *)
LEMMA LooseHasNoMoment ==
  ASSUME NEW f, Consistent(f), NEW u \in Told, f.eventOf[u] = NoEvent
  PROVE  f.segmentOf[u] = Nothing
<1>1. SUFFICES ASSUME f.segmentOf[u] # Nothing PROVE FALSE
  OBVIOUS
<1>2. PICK x \in Entries(f.segments) : x.id = f.segmentOf[u]
  BY <1>1 DEF Consistent, Sound, SegmentsSound, Divides
<1>3. x.id[1] # NoEvent
  BY DEF Consistent, Sound, SegmentsSound
<1>4. QED
  BY <1>1, <1>2, <1>3 DEF Consistent, InItsEvent

LEMMA EntryOfId ==
  ASSUME NEW list, NEW id \in Ids(list)
  PROVE  Entry(list, id) \in Entries(list) /\ Entry(list, id).id = id
<1> DEFINE i == CHOOSE i \in DOMAIN list : list[i].id = id
<1>1. i \in DOMAIN list /\ list[i].id = id
  BY DEF Ids
<1>2. Entry(list, id) = list[i]
  BY DEF Entry
<1> HIDE DEF i
<1>3. QED
  BY <1>1, <1>2 DEF Entries

(* A post joins the event of another, or the two begin one.                *)
LEMMA JoinedIsSound ==
  ASSUME NEW f, Consistent(f), NEW u \in Told, NEW v \in Told, u # v, f.eventOf[u] = NoEvent
  PROVE  Consistent(Join(f, u, v))
<1> DEFINE joins == f.eventOf[v] # NoEvent
           e == IF joins THEN f.eventOf[v] ELSE {u, v}
           list == IF joins THEN Attach(f.events, e, u) ELSE Create(f.events, e, {u, v})
           of == [f.eventOf EXCEPT ![u] = e, ![v] = e]
           g == Join(f, u, v)
<1>0. /\ f \in Timeline /\ EventsSound(f.events, f.eventOf) /\ SegmentsSound(f.segments, f.segmentOf)
      /\ Apart(f.packages) /\ InItsEvent(f.eventOf, f.segmentOf)
  BY DEF Consistent, Sound
<1>1. /\ f.events \in Seq(EventRow) /\ f.eventOf \in [Told -> SUBSET Told] /\ Distinct(f.events)
      /\ Divides(Entries(f.events), f.eventOf, NoEvent)
      /\ \A x \in Entries(f.events) : x.id # NoEvent /\ x.id \subseteq x.members /\ x \in EventRow
  BY <1>0, EventIds DEF EventsSound
<1>2. g = [prints |-> f.prints, events |-> list, eventOf |-> of, segments |-> f.segments,
           segmentOf |-> f.segmentOf, packages |-> f.packages]
  <2>1. f = [prints |-> f.prints, events |-> f.events, eventOf |-> f.eventOf, segments |-> f.segments,
             segmentOf |-> f.segmentOf, packages |-> f.packages]
    BY <1>0, TimelineIsRecord
  <2>2. g = [f EXCEPT !.events = list, !.eventOf = of]
    BY DEF Join
  <2> HIDE DEF g, list, of
  <2>3. QED
    BY <2>1, <2>2
<1>of. /\ of \in [Told -> SUBSET Told] /\ e \in SUBSET Told
       /\ \A w \in Told : of[w] = IF w = u \/ w = v THEN e ELSE f.eventOf[w]
  BY <1>1
<1>3. EventsSound(list, of)
  <2>1. CASE joins
    <3>1. e = f.eventOf[v] /\ e \in Ids(f.events) /\ e # NoEvent
      BY <1>1, <2>1, IdsOfEntries DEF Divides
    <3> DEFINE x == Entry(f.events, e)
               z == [x EXCEPT !.members = @ \cup {u}]
    <3>2. x \in Entries(f.events) /\ x.id = e /\ x \in EventRow
      BY <1>1, <3>1, EntryOfId
    <3> HIDE DEF x
    <3>3. z = [id |-> x.id, members |-> x.members \cup {u}]
      BY <3>2 DEF EventRow
    <3> HIDE DEF z
    <3>4. z \in EventRow /\ z.id = e /\ z.members = x.members \cup {u}
      BY <3>2, <3>3 DEF EventRow
    <3>5. list = Append(Without(f.events, e), z)
      BY <2>1 DEF Attach, x, z
    <3> HIDE DEF list, e
    <3>6. /\ list \in Seq(EventRow) /\ Distinct(list)
          /\ Entries(list) = {y \in Entries(f.events) : y.id # x.id} \cup {z}
      BY <1>1, <3>2, <3>4, <3>5, EndsWith
    <3>7. \A w \in Told : of[w] = IF w = u THEN x.id ELSE f.eventOf[w]
      BY <1>of, <3>1, <3>2
    <3> HIDE DEF of
    <3>8. \A y \in Entries(f.events) : y.id = x.id => y = x
      BY <1>1, <3>2, SameIdSameEntry
    <3>9. Divides(Entries(list), of, NoEvent)
      BY <1>1, <3>2, <3>4, <3>6, <3>7, <3>8, GrownDivides
    <3>10. z.id # NoEvent /\ z.id \subseteq z.members
      BY <1>1, <3>2, <3>4
    <3>11. QED
      BY <1>1, <1>of, <3>6, <3>9, <3>10 DEF EventsSound
  <2>2. CASE ~joins
    <3> DEFINE z == [id |-> {u, v}, members |-> {u, v}]
    <3>1. e = {u, v} /\ z \in EventRow /\ z.id = e /\ z.members = {u, v}
      BY <2>2 DEF EventRow
    <3>2. list = Append(Without(f.events, e), z)
      BY <2>2, <3>1 DEF Create
    <3> HIDE DEF list, z, e
    <3>3. /\ list \in Seq(EventRow) /\ Distinct(list)
          /\ Entries(list) = {y \in Entries(f.events) : y.id # z.id} \cup {z}
      <4>1. z \in EventRow /\ z.id = e
        BY <3>1
      <4>2. /\ list \in Seq(EventRow) /\ Distinct(list)
            /\ Entries(list) = {y \in Entries(f.events) : y.id # e} \cup {z}
        BY <1>1, <4>1, <3>2, EndsWith
      <4>3. QED
        BY <4>1, <4>2
    <3>4. \A y \in Entries(f.events) : y.id # z.id
      BY <1>1, <3>1 DEF Divides
    <3>5. z.id # NoEvent /\ z.members \subseteq Told /\ z.members # {}
      BY <3>1 DEF NoEvent
    <3>6. \A w \in z.members : f.eventOf[w] = NoEvent
      BY <2>2, <3>1
    <3>7. \A w \in Told : of[w] = IF w \in z.members THEN z.id ELSE f.eventOf[w]
      BY <1>of, <3>1
    <3> HIDE DEF of
    <3>8. Divides(Entries(list), of, NoEvent)
      BY <1>1, <3>3, <3>4, <3>5, <3>6, <3>7, OneMoreDivides
    <3>9. z.id \subseteq z.members
      BY <3>1
    <3>10. QED
      BY <1>1, <1>of, <3>3, <3>5, <3>8, <3>9 DEF EventsSound
  <2>3. QED
    BY <2>1, <2>2
<1>4. InItsEvent(of, f.segmentOf)
  <2>1. \A w \in Told : f.segmentOf[w] # Nothing => f.eventOf[w] # NoEvent
    BY LooseHasNoMoment
  <2>2. \A w \in Told : f.segmentOf[w] # Nothing => of[w] = f.eventOf[w]
    BY <1>of, <2>1
  <2>3. QED
    BY <1>0, <2>2 DEF InItsEvent
<1> HIDE DEF list, of, e, joins, g
<1>5. g \in Timeline
  <2>1. /\ f.prints \in SUBSET Configured /\ list \in Seq(EventRow) /\ of \in [Told -> SUBSET Told]
        /\ f.segments \in Seq(SegmentRow) /\ f.segmentOf \in [Told -> Moments \cup {Nothing}]
        /\ f.packages \in SUBSET Package
    BY <1>0, <1>3 DEF EventsSound, Timeline
  <2>2. QED
    BY <1>2, <2>1 DEF Timeline
<1>6. InOrPruned(g.events, g.eventOf, g.segmentOf) /\ InItsEvent(g.eventOf, g.segmentOf)
  BY <1>2, <1>4 DEF InOrPruned, InItsEvent
<1>7. QED
  BY <1>0, <1>2, <1>3, <1>5, <1>6 DEF Consistent, Sound, g

(* A post joins a segment of its event, or begins one.                     *)
Given(f, u, s, list) ==
  /\ Consistent(f) /\ u \in Told /\ f.segmentOf[u] = Nothing /\ f.eventOf[u] # NoEvent
  /\ s \in Moments /\ s[1] = f.eventOf[u]
  /\ \/ s \in Ids(f.segments) /\ list = Attach(f.segments, s, u)
     \/ s = <<f.eventOf[u], u>> /\ list = Create(f.segments, s, {u})

Taken(f, g, u, s) ==
  /\ Consistent(g) /\ g.eventOf = f.eventOf
  /\ \A w \in Told : g.segmentOf[w] = IF w = u THEN s ELSE f.segmentOf[w]

LEMMA MomentIsSound ==
  ASSUME NEW f, NEW u, NEW s, NEW list, Given(f, u, s, list)
  PROVE  Taken(f, [f EXCEPT !.segments = list, !.segmentOf[u] = s], u, s)
<1> USE DEF Given, Taken
<1> DEFINE at == [f.segmentOf EXCEPT ![u] = s]
           g == [f EXCEPT !.segments = list, !.segmentOf[u] = s]
<1>0. /\ f \in Timeline /\ EventsSound(f.events, f.eventOf) /\ SegmentsSound(f.segments, f.segmentOf)
      /\ Apart(f.packages) /\ InItsEvent(f.eventOf, f.segmentOf)
  BY DEF Consistent, Sound
<1>1. /\ f.segments \in Seq(SegmentRow) /\ f.segmentOf \in [Told -> Moments \cup {Nothing}] /\ Distinct(f.segments)
      /\ Divides(Entries(f.segments), f.segmentOf, Nothing)
      /\ \A x \in Entries(f.segments) :
           x.id # Nothing /\ x.id[1] # NoEvent /\ x.id[2] \in x.members /\ x \in SegmentRow
  <2>1. \A x \in Entries(f.segments) : x \in SegmentRow
    BY <1>0, SegmentIds DEF SegmentsSound
  <2>2. \A x \in Entries(f.segments) : x.id # Nothing
    BY <2>1, NothingIsNoMoment DEF SegmentRow
  <2>3. QED
    BY <1>0, <2>1, <2>2 DEF SegmentsSound
<1>at. at \in [Told -> Moments \cup {Nothing}] /\ \A w \in Told : at[w] = IF w = u THEN s ELSE f.segmentOf[w]
  BY <1>1
<1>2. g = [prints |-> f.prints, events |-> f.events, eventOf |-> f.eventOf, segments |-> list,
           segmentOf |-> at, packages |-> f.packages]
  <2>1. f = [prints |-> f.prints, events |-> f.events, eventOf |-> f.eventOf, segments |-> f.segments,
             segmentOf |-> f.segmentOf, packages |-> f.packages]
    BY <1>0, TimelineIsRecord
  <2>2. g = [f EXCEPT !.segments = list, !.segmentOf = at]
    BY <2>1
  <2> HIDE DEF g, at
  <2>3. QED
    BY <2>1, <2>2
<1> HIDE DEF at, g
<1>3. SegmentsSound(list, at)
  <2>1. CASE s \in Ids(f.segments) /\ list = Attach(f.segments, s, u)
    <3> DEFINE x == Entry(f.segments, s)
               z == [x EXCEPT !.members = @ \cup {u}]
    <3>2. x \in Entries(f.segments) /\ x.id = s /\ x \in SegmentRow
      BY <1>1, <2>1, EntryOfId
    <3> HIDE DEF x
    <3>3. z = [id |-> x.id, members |-> x.members \cup {u}]
      BY <3>2 DEF SegmentRow
    <3> HIDE DEF z
    <3>4. z \in SegmentRow /\ z.id = s /\ z.members = x.members \cup {u}
      BY <3>2, <3>3 DEF SegmentRow
    <3>5. list = Append(Without(f.segments, s), z)
      BY <2>1 DEF Attach, x, z
    <3>6. /\ list \in Seq(SegmentRow) /\ Distinct(list)
          /\ Entries(list) = {y \in Entries(f.segments) : y.id # x.id} \cup {z}
      BY <1>1, <3>2, <3>4, <3>5, EndsWith
    <3>7. \A w \in Told : at[w] = IF w = u THEN x.id ELSE f.segmentOf[w]
      BY <1>at, <3>2
    <3>8. \A y \in Entries(f.segments) : y.id = x.id => y = x
      BY <1>1, <3>2, SameIdSameEntry
    <3>9. Divides(Entries(list), at, Nothing)
      <4> DEFINE E == Entries(f.segments)
      <4>1. Divides(E, f.segmentOf, Nothing) /\ \A y \in E : y.id # Nothing
        BY <1>1
      <4>2. x \in E /\ (\A y \in E : y.id = x.id => y = x) /\ z.id = x.id
            /\ Entries(list) = {y \in E : y.id # x.id} \cup {z}
        BY <3>2, <3>4, <3>6, <3>8
      <4>3. z.members = x.members \cup {u} /\ f.segmentOf[u] = Nothing
        BY <3>4
      <4> DEFINE old == f.segmentOf
      <4>o. old[u] = Nothing /\ Divides(E, old, Nothing) /\ \A w \in Told : at[w] = IF w = u THEN x.id ELSE old[w]
        BY <3>7, <4>1, <4>3
      <4> HIDE DEF E, old
      <4>5. Divides({y \in E : y.id # x.id} \cup {z}, at, Nothing)
        BY <4>1, <4>2, <4>3, <4>o, GrownDivides
      <4>4. QED
        BY <4>2, <4>5
    <3>10. z.id[1] # NoEvent /\ z.id[2] \in z.members
      BY <1>1, <3>2, <3>4
    <3>11. QED
      BY <1>1, <1>at, <3>6, <3>9, <3>10 DEF SegmentsSound
  <2>2. CASE s = <<f.eventOf[u], u>> /\ list = Create(f.segments, s, {u})
    <3> DEFINE z == [id |-> s, members |-> {u}]
    <3>1. z \in SegmentRow /\ z.id = s /\ z.members = {u}
      BY DEF SegmentRow
    <3>2. list = Append(Without(f.segments, s), z)
      BY <2>2 DEF Create
    <3> HIDE DEF z
    <3>3. /\ list \in Seq(SegmentRow) /\ Distinct(list)
          /\ Entries(list) = {y \in Entries(f.segments) : y.id # z.id} \cup {z}
      BY <1>1, <3>1, <3>2, EndsWith
    <3>4. \A y \in Entries(f.segments) : y.id # z.id
      <4>1. ASSUME NEW y \in Entries(f.segments), y.id = z.id PROVE FALSE
        <5>1. y.id[2] = u /\ y.id[2] \in y.members
          BY <1>1, <2>2, <3>1, <4>1
        <5>2. f.segmentOf[u] = y.id
          BY <1>1, <5>1 DEF Divides
        <5>3. QED
          BY <1>1, <5>2
      <4>2. QED
        BY <4>1
    <3>5. z.id # Nothing /\ z.members \subseteq Told /\ z.members # {}
      BY <3>1, NothingIsNoMoment
    <3>6. \A w \in z.members : f.segmentOf[w] = Nothing
      BY <3>1
    <3>7. \A w \in Told : at[w] = IF w \in z.members THEN z.id ELSE f.segmentOf[w]
      BY <1>at, <3>1
    <3>8. Divides(Entries(list), at, Nothing)
      <4> DEFINE E == Entries(f.segments)
      <4>1. Divides(E, f.segmentOf, Nothing) /\ \A x \in E : x.id # Nothing
        BY <1>1
      <4>2. (\A y \in E : y.id # z.id) /\ Entries(list) = {y \in E : y.id # z.id} \cup {z}
        BY <3>3, <3>4
      <4> HIDE DEF E
      <4>3. Divides({y \in E : y.id # z.id} \cup {z}, at, Nothing)
        BY <4>1, <4>2, <3>5, <3>6, <3>7, OneMoreDivides
      <4>4. QED
        BY <4>2, <4>3
    <3>9. z.id[1] # NoEvent /\ z.id[2] \in z.members
      BY <2>2, <3>1
    <3>10. QED
      BY <1>1, <1>at, <3>3, <3>8, <3>9 DEF SegmentsSound
  <2>3. QED
    BY <2>1, <2>2
<1>4. InItsEvent(f.eventOf, at)
  BY <1>0, <1>at DEF InItsEvent
<1>5. g \in Timeline
  <2>1. /\ f.prints \in SUBSET Configured /\ f.events \in Seq(EventRow) /\ f.eventOf \in [Told -> SUBSET Told]
        /\ list \in Seq(SegmentRow) /\ at \in [Told -> Moments \cup {Nothing}]
        /\ f.packages \in SUBSET Package
    BY <1>0, <1>3 DEF SegmentsSound, Timeline
  <2>2. QED
    BY <1>2, <2>1 DEF Timeline
<1>6. InOrPruned(g.events, g.eventOf, g.segmentOf) /\ InItsEvent(g.eventOf, g.segmentOf)
  BY <1>2, <1>4 DEF InOrPruned, InItsEvent
<1>7. Consistent(g)
  BY <1>0, <1>2, <1>3, <1>5, <1>6 DEF Consistent, Sound
<1>8. QED
  BY <1>2, <1>7, <1>at DEF g

DeliverySteps == {"idle", "group", "segment", "deliver", "tell"}
Delivery == [step : DeliverySteps, batch : SUBSET Told, todo : SUBSET Configured, known : SUBSET Configured]

(* Posts stand in groups only while they are analysed, the namespace in    *)
(* memory agrees then, and the posts still to be placed are in an event    *)
(* and in no segment of it.                                                *)
WorkSound ==
  /\ work \in Delivery /\ outer \in Delivery /\ lazy \in BOOLEAN
  /\ work.step \in {"group", "segment"} => Consistent(fusion)
  /\ work.step = "segment" =>
       \A u \in work.todo : fusion.segmentOf[u] = Nothing /\ fusion.eventOf[u] # NoEvent
  /\ outer.step \notin {"group", "segment"}

StoredSound ==
  Sound(stored) /\ Len(stored.events) <= MaxEvents /\ Len(stored.segments) <= MaxSegments

FusionInv == Sound(fusion) /\ StoredSound /\ WorkSound

LEMMA SoundAgrees ==
  ASSUME NEW f, Sound(f)
  PROVE  LET g == _sanitize_event_state(f, TRUE) IN
         /\ Partition(g.events, g.eventOf, NoEvent) /\ Partition(g.segments, g.segmentOf, Nothing)
         /\ \A u \in Told : g.segmentOf[u] # Nothing => g.segmentOf[u][1] = g.eventOf[u]
         /\ \A p, q \in g.packages : p # q => p.posts \cap q.posts = {}
<1> DEFINE g == _sanitize_event_state(f, TRUE)
<1>1. Consistent(g)
  BY ReadIsSettled
<1> HIDE DEF g
<1>2. Distinct(g.events) /\ Divides(Entries(g.events), g.eventOf, NoEvent)
  BY <1>1 DEF Consistent, Sound, EventsSound
<1>3. Distinct(g.segments) /\ Divides(Entries(g.segments), g.segmentOf, Nothing)
  BY <1>1 DEF Consistent, Sound, SegmentsSound
<1>4. Partition(g.events, g.eventOf, NoEvent) /\ Partition(g.segments, g.segmentOf, Nothing)
  BY <1>2, <1>3, PartitionDivides
<1>5. /\ \A u \in Told : g.segmentOf[u] # Nothing => g.segmentOf[u][1] = g.eventOf[u]
      /\ \A p, q \in g.packages : p # q => p.posts \cap q.posts = {}
  BY <1>1 DEF Consistent, Sound, InItsEvent, Apart
<1>6. QED
  BY <1>4, <1>5 DEF g

LEMMA NewTimelineIsSound ==
  /\ Sound(_fresh_event_state) /\ _fresh_event_state.events = <<>> /\ _fresh_event_state.segments = <<>>
<1> DEFINE f == _fresh_event_state
           of == [u \in Told |-> NoEvent]
           at == [u \in Told |-> Nothing]
<1>1. f = [prints |-> {}, events |-> <<>>, eventOf |-> of, segments |-> <<>>, segmentOf |-> at, packages |-> {}]
  BY DEF _fresh_event_state
<1>2. of \in [Told -> SUBSET Told] /\ at \in [Told -> Moments \cup {Nothing}]
  BY DEF NoEvent
<1>3. Entries(<<>>) = {} /\ Distinct(<<>>) /\ <<>> \in Seq(EventRow) /\ <<>> \in Seq(SegmentRow)
  BY DEF Entries, Distinct
<1>4. Divides({}, of, NoEvent) /\ Divides({}, at, Nothing) /\ InOrPruned(<<>>, of, at) /\ Apart({})
  BY DEF Divides, InOrPruned, Apart
<1> HIDE DEF f, of, at
<1>5. f \in Timeline
  BY <1>1, <1>2, <1>3 DEF Timeline
<1>6. Sound(f)
  BY <1>1, <1>2, <1>3, <1>4, <1>5 DEF Sound, EventsSound, SegmentsSound
<1>7. QED
  BY <1>1, <1>6 DEF f

LEMMA InitFusion == FusionInit => FusionInv
<1> SUFFICES ASSUME FusionInit PROVE FusionInv
  OBVIOUS
<1>1. Sound(fusion) /\ StoredSound
  <2>1. Len(<<>>) = 0
    OBVIOUS
  <2>2. QED
    BY <2>1, NewTimelineIsSound, Bounds DEF FusionInit, StoredSound
<1>2. WorkSound
  BY DEF FusionInit, WorkSound, NoDelivery, Delivery, DeliverySteps
<1>3. QED
  BY <1>1, <1>2 DEF FusionInv

LEMMA DeliveryIsRecord ==
  ASSUME NEW d \in Delivery
  PROVE  d = [step |-> d.step, batch |-> d.batch, todo |-> d.todo, known |-> d.known]
BY DEF Delivery

LEMMA NextFusion == FusionInv /\ [FusionNext]_fusionVars => FusionInv'
<1> SUFFICES ASSUME FusionInv, [FusionNext]_fusionVars PROVE FusionInv'
  OBVIOUS
<1>inv. Sound(fusion) /\ StoredSound /\ WorkSound
  BY DEF FusionInv
<1>work. work \in Delivery /\ outer \in Delivery /\ lazy \in BOOLEAN /\ outer.step \notin {"group", "segment"}
  BY <1>inv DEF WorkSound
<1>rec. work = [step |-> work.step, batch |-> work.batch, todo |-> work.todo, known |-> work.known]
  BY <1>work, DeliveryIsRecord
<1>of. /\ work.step \in DeliverySteps /\ work.batch \subseteq Told
       /\ work.todo \subseteq Configured /\ work.known \subseteq Configured
  BY <1>work DEF Delivery
<1>stored. stored' = stored => StoredSound'
  BY <1>inv DEF StoredSound
(* The delivery goes on with what the analysis has made.                   *)
<1>on. ASSUME Sound(fusion'), stored' = stored, outer' = outer, lazy' = lazy,
              NEW step \in DeliverySteps \ {"group", "segment"}, NEW todo \in SUBSET Configured,
              work' = [step |-> step, batch |-> work.batch, todo |-> todo, known |-> work.known]
       PROVE  FusionInv'
  <2>1. work' \in Delivery
    BY <1>on, <1>of DEF Delivery
  <2>2. work'.step = step
    BY <1>on
  <2>3. WorkSound'
    BY <1>on, <1>work, <2>1, <2>2 DEF WorkSound
  <2>4. QED
    BY <1>on, <1>stored, <2>3 DEF FusionInv
<1>1. ASSUME NEW u \in Told, NEW v \in Told, BeginDelivery({u, v}) PROVE FusionInv'
  <2> DEFINE batch == {u, v}
             f == _sanitize_event_state(fusion, TRUE)
             P == f.prints \cup (batch \cap Configured)
             g == [f EXCEPT !.prints = P]
  <2>1. Consistent(f)
    BY <1>inv, ReadIsSettled
  <2>2. fusion' = g
    BY <1>1 DEF BeginDelivery
  <2> HIDE DEF f
  <2>3. Consistent(g)
    <3>1. f = [prints |-> f.prints, events |-> f.events, eventOf |-> f.eventOf, segments |-> f.segments,
               segmentOf |-> f.segmentOf, packages |-> f.packages]
      BY <2>1, TimelineIsRecord DEF Consistent, Sound
    <3>2. P \subseteq Configured
      BY <2>1 DEF Consistent, Sound, Timeline
    <3> HIDE DEF P
    <3>3. g = [prints |-> P, events |-> f.events, eventOf |-> f.eventOf, segments |-> f.segments,
               segmentOf |-> f.segmentOf, packages |-> f.packages]
      BY <3>1
    <3> HIDE DEF g
    <3>4. g \in Timeline
      <4>1. /\ f.events \in Seq(EventRow) /\ f.eventOf \in [Told -> SUBSET Told]
            /\ f.segments \in Seq(SegmentRow) /\ f.segmentOf \in [Told -> Moments \cup {Nothing}]
            /\ f.packages \in SUBSET Package
        BY <2>1 DEF Consistent, Sound, Timeline
      <4>2. QED
        BY <3>2, <3>3, <4>1 DEF Timeline
    <3>5. QED
      BY <2>1, <3>3, <3>4 DEF Consistent, Sound
  <2> HIDE DEF g
  <2>4. /\ work' = [step |-> "group", batch |-> batch, todo |-> batch \cap Configured, known |-> {}]
        /\ outer' = work /\ lazy' = TRUE /\ work.step \in {"idle", "deliver", "tell"} /\ stored' = stored
    BY <1>1 DEF BeginDelivery
  <2>5. work' \in Delivery /\ work'.step = "group"
    BY <2>4 DEF Delivery, DeliverySteps
  <2>6. WorkSound'
    BY <1>work, <2>2, <2>3, <2>4, <2>5 DEF WorkSound
  <2>7. Sound(fusion')
    BY <2>2, <2>3 DEF Consistent
  <2>8. QED
    BY <2>4, <2>6, <2>7, <1>stored DEF FusionInv
<1>2. CASE GroupingFails
  <2>1. /\ work' = [step |-> "deliver", batch |-> work.batch, todo |-> {}, known |-> work.known]
        /\ UNCHANGED <<fusion, stored, outer, lazy>>
    BY <1>2, <1>rec DEF GroupingFails
  <2>2. QED
    BY <2>1, <1>inv, <1>on DEF DeliverySteps
<1>3. CASE shadow_group_updates
  <2> DEFINE u == CHOOSE v \in work.todo : \A w \in work.todo : v <= w
             kin == {v \in fusion.prints \ {u} : {u, v} \in Kin}
  <2>1. u \in work.todo
    <3>1. work.todo # {} /\ work.todo \subseteq Nat
      BY <1>3, <1>of, Bounds DEF shadow_group_updates
    <3>2. QED
      BY <3>1, LeastExists
  <2> HIDE DEF u
  <2>2. /\ work.step = "group" /\ work' = [work EXCEPT !.todo = @ \ {u}] /\ UNCHANGED <<stored, outer, lazy>>
        /\ \/ Grouped(fusion, u) /\ \E v \in kin : fusion' = Join(fusion, u, v)
           \/ UNCHANGED fusion
    BY <1>3 DEF shadow_group_updates, u
  <2>3. Consistent(fusion)
    BY <1>inv, <2>2 DEF WorkSound
  <2>4. Consistent(fusion')
    <3>1. CASE Grouped(fusion, u) /\ \E v \in kin : fusion' = Join(fusion, u, v)
      <4>1. PICK v \in kin : fusion' = Join(fusion, u, v)
        BY <3>1
      <4>2. v \in Told /\ u # v /\ u \in Told
        BY <1>inv, <1>of, <2>1, Bounds DEF Sound, Timeline
      <4>3. fusion.eventOf[u] = NoEvent
        BY <3>1 DEF Grouped
      <4>4. QED
        BY <2>3, <4>1, <4>2, <4>3, JoinedIsSound
    <3>2. CASE UNCHANGED fusion
      BY <2>3, <3>2
    <3>3. QED
      BY <2>2, <3>1, <3>2
  <2>5. work' = [step |-> "group", batch |-> work.batch, todo |-> work.todo \ {u}, known |-> work.known]
    BY <1>rec, <2>2
  <2>6. work' \in Delivery /\ work'.step = "group"
    BY <1>of, <2>5 DEF Delivery, DeliverySteps
  <2>7. WorkSound'
    BY <1>work, <2>2, <2>4, <2>6 DEF WorkSound
  <2>8. QED
    BY <2>2, <2>4, <2>7, <1>stored DEF FusionInv, Consistent
<1>4. CASE BeginSegments
  <2> DEFINE p == _prune(fusion)
             f == _sanitize_event_state(p, TRUE)
             affected == {f.eventOf[u] : u \in work.batch \cap Configured} \ {NoEvent}
  <2>1. Sound(p)
    BY <1>inv, PrunedIsSound
  <2> HIDE DEF p
  <2>2. Consistent(f)
    BY <2>1, ReadIsSettled
  <2>3. PICK recent \in SUBSET (Configured \ work.batch), long \in SUBSET affected :
          LET seen == recent \cup (work.batch \cap Configured)
              at(e) == Entry(f.events, e).members \cap seen
          IN /\ fusion' = f
             /\ work' = [work EXCEPT !.step = "segment", !.known = seen,
                  !.todo = {u \in UNION {at(e) : e \in {e \in long : Cardinality(at(e)) > 1}} :
                              f.segmentOf[u] = Nothing}]
    BY <1>4 DEF BeginSegments, p
  <2> DEFINE seen == recent \cup (work.batch \cap Configured)
             at(e) == Entry(f.events, e).members \cap seen
             todo == {u \in UNION {at(e) : e \in {e \in long : Cardinality(at(e)) > 1}} :
                        f.segmentOf[u] = Nothing}
  <2>4. fusion' = f /\ UNCHANGED <<stored, outer, lazy>>
    BY <1>4, <2>3 DEF BeginSegments
  <2>5. work' = [step |-> "segment", batch |-> work.batch, todo |-> todo, known |-> seen]
    <3>1. work' = [work EXCEPT !.step = "segment", !.known = seen, !.todo = todo]
      BY <2>3
    <3> HIDE DEF seen, todo
    <3>2. QED
      BY <1>rec, <3>1
  <2>6. seen \subseteq Configured /\ todo \subseteq Configured
    OBVIOUS
  <2>7. \A u \in todo : f.segmentOf[u] = Nothing /\ f.eventOf[u] # NoEvent
    <3> HIDE DEF f
    <3>1. ASSUME NEW u \in todo PROVE f.segmentOf[u] = Nothing /\ f.eventOf[u] # NoEvent
      <4>1. PICK e \in long : u \in at(e)
        OBVIOUS
      <4>2. PICK w \in Told : e = f.eventOf[w] /\ e # NoEvent
        BY <4>1, Bounds
      <4>3. /\ Divides(Entries(f.events), f.eventOf, NoEvent)
        BY <2>2 DEF Consistent, Sound, EventsSound
      <4>4. e \in Ids(f.events)
        BY <4>2, <4>3, IdsOfEntries DEF Divides
      <4>5. Entry(f.events, e) \in Entries(f.events) /\ Entry(f.events, e).id = e
        BY <4>4, EntryOfId
      <4>6. f.eventOf[u] = e
        BY <4>1, <4>3, <4>5 DEF Divides
      <4>7. QED
        BY <4>2, <4>6
    <3>2. QED
      BY <3>1
  <2> HIDE DEF seen, todo, f
  <2>8. work' \in Delivery /\ work'.step = "segment" /\ work'.todo = todo
    BY <1>of, <2>5, <2>6 DEF Delivery, DeliverySteps
  <2>9. WorkSound'
    BY <1>work, <2>2, <2>4, <2>7, <2>8 DEF WorkSound
  <2>10. QED
    BY <2>2, <2>4, <2>9, <1>stored DEF FusionInv, Consistent
<1>5. CASE shadow_segment_events
  <2>1. PICK u \in work.todo :
          LET e == fusion.eventOf[u] IN
          /\ work' = [work EXCEPT !.todo = @ \ {u}]
          /\ \/ \E s \in Ids(fusion.segments) :
                  /\ s[1] = e
                  /\ fusion' = [fusion EXCEPT !.segments = Attach(@, s, u), !.segmentOf[u] = s]
             \/ fusion' = [fusion EXCEPT !.segments = Create(@, <<e, u>>, {u}), !.segmentOf[u] = <<e, u>>]
    BY <1>5 DEF shadow_segment_events
  <2>2. work.step = "segment" /\ UNCHANGED <<stored, outer, lazy>>
    BY <1>5 DEF shadow_segment_events
  <2>3. /\ Consistent(fusion) /\ fusion.segmentOf[u] = Nothing /\ fusion.eventOf[u] # NoEvent
        /\ \A w \in work.todo : fusion.segmentOf[w] = Nothing /\ fusion.eventOf[w] # NoEvent
        /\ u \in Told /\ work.todo \subseteq Told
    BY <1>inv, <1>of, <2>2, Bounds DEF WorkSound
  <2>4. PICK s, list :
          /\ s \in Moments /\ s[1] = fusion.eventOf[u]
          /\ \/ s \in Ids(fusion.segments) /\ list = Attach(fusion.segments, s, u)
             \/ s = <<fusion.eventOf[u], u>> /\ list = Create(fusion.segments, s, {u})
          /\ fusion' = [fusion EXCEPT !.segments = list, !.segmentOf[u] = s]
    <3>1. CASE \E s \in Ids(fusion.segments) :
                  /\ s[1] = fusion.eventOf[u]
                  /\ fusion' = [fusion EXCEPT !.segments = Attach(@, s, u), !.segmentOf[u] = s]
      <4>1. PICK s \in Ids(fusion.segments) :
                  /\ s[1] = fusion.eventOf[u]
                  /\ fusion' = [fusion EXCEPT !.segments = Attach(fusion.segments, s, u), !.segmentOf[u] = s]
        BY <3>1
      <4>2. s \in Moments
        <5>1. fusion.segments \in Seq(SegmentRow)
          BY <2>3 DEF Consistent, Sound, SegmentsSound
        <5>2. \A x \in Entries(fusion.segments) : x.id \in Moments
          BY <5>1, SegmentIds DEF SegmentRow
        <5>3. QED
          BY <5>2, IdsOfEntries
      <4>3. QED
        BY <4>1, <4>2
    <3>2. CASE fusion' = [fusion EXCEPT !.segments = Create(@, <<fusion.eventOf[u], u>>, {u}),
                                        !.segmentOf[u] = <<fusion.eventOf[u], u>>]
      <4>1. fusion.eventOf[u] \in SUBSET Told
        BY <2>3 DEF Consistent, Sound, EventsSound
      <4>2. <<fusion.eventOf[u], u>> \in Moments /\ <<fusion.eventOf[u], u>>[1] = fusion.eventOf[u]
        BY <4>1, <2>3 DEF Moments
      <4>3. QED
        BY <3>2, <4>2
    <3>3. QED
      BY <2>1, <3>1, <3>2
  <2>5. /\ Consistent(fusion') /\ fusion'.eventOf = fusion.eventOf
        /\ \A w \in Told : fusion'.segmentOf[w] = IF w = u THEN s ELSE fusion.segmentOf[w]
    <3>1. Given(fusion, u, s, list) /\ fusion' = [fusion EXCEPT !.segments = list, !.segmentOf[u] = s]
      BY <2>3, <2>4 DEF Given
    <3>2. Taken(fusion, fusion', u, s)
      BY <3>1, MomentIsSound
    <3>3. QED
      BY <3>2 DEF Taken
  <2>6. work' = [step |-> "segment", batch |-> work.batch, todo |-> work.todo \ {u}, known |-> work.known]
    BY <1>rec, <2>1, <2>2
  <2>7. work' \in Delivery /\ work'.step = "segment" /\ work'.todo = work.todo \ {u}
    BY <1>of, <2>6 DEF Delivery, DeliverySteps
  <2>8. \A w \in work'.todo : fusion'.segmentOf[w] = Nothing /\ fusion'.eventOf[w] # NoEvent
    BY <2>3, <2>5, <2>7
  <2>9. WorkSound'
    BY <1>work, <2>2, <2>5, <2>7, <2>8 DEF WorkSound
  <2>10. QED
    BY <2>2, <2>5, <2>9, <1>stored DEF FusionInv, Consistent
<1>6. CASE EndSegments
  <2>1. /\ work' = [step |-> "tell", batch |-> work.batch, todo |-> work.todo, known |-> work.known]
        /\ fusion' = _prune_timeline(fusion) /\ UNCHANGED <<stored, outer, lazy>>
    BY <1>6, <1>rec DEF EndSegments
  <2>2. Sound(fusion')
    BY <1>inv, <2>1, TimelinePrunedIsSound
  <2>3. QED
    BY <2>1, <2>2, <1>of, <1>on DEF DeliverySteps
<1>7. CASE TimelineFails
  <2>1. /\ work' = [step |-> "tell", batch |-> work.batch, todo |-> work.todo, known |-> work.known]
        /\ UNCHANGED <<fusion, stored, outer, lazy>>
    BY <1>7, <1>rec DEF TimelineFails
  <2>2. QED
    BY <2>1, <1>inv, <1>of, <1>on DEF DeliverySteps
<1>8. CASE SaveFusion
  <2>1. /\ work.step \in {"deliver", "tell"} /\ stored' = _prune(fusion) /\ fusion' = _prune(fusion)
        /\ UNCHANGED <<work, outer, lazy>>
    BY <1>8 DEF SaveFusion
  <2>2. Sound(fusion') /\ StoredSound'
    BY <1>inv, <2>1, PrunedIsSound DEF StoredSound
  <2>3. WorkSound'
    BY <1>work, <2>1 DEF WorkSound
  <2>4. QED
    BY <2>2, <2>3 DEF FusionInv
(* Back to the delivery that was interrupted.                              *)
<1>back. ASSUME Return, lazy' = lazy PROVE WorkSound'
  <2>1. NoDelivery \in Delivery /\ NoDelivery.step = "idle"
    BY DEF NoDelivery, Delivery, DeliverySteps
  <2>2. QED
    BY <1>back, <1>work, <2>1 DEF Return, WorkSound
<1>9. CASE DeliveryLeaves
  BY <1>9, <1>inv, <1>back, <1>stored DEF DeliveryLeaves, FusionInv
<1>10. CASE plan_forward_ready_packages
  <2> DEFINE segmented == {fusion.segmentOf[u] : u \in work.batch} \ {Nothing}
             alone == {u \in work.batch : fusion.segmentOf[u] = Nothing}
             told == {[segment |-> s, posts |-> {u \in work.batch : fusion.segmentOf[u] = s}] : s \in segmented}
             single == {[segment |-> Nothing, posts |-> {u}] : u \in alone}
             Q == Retained(fusion, work.batch) \cup (told \cup single)
             g == [fusion EXCEPT !.packages = Q]
  <2>1. fusion' = g /\ Return /\ UNCHANGED <<stored, lazy>>
    BY <1>10 DEF plan_forward_ready_packages
  <2>2. fusion.packages \in SUBSET Package /\ Apart(fusion.packages)
    BY <1>inv DEF Sound, Timeline
  <2>3. Retained(fusion, work.batch) \subseteq fusion.packages
        /\ \A p \in Retained(fusion, work.batch) : p.posts \cap work.batch = {}
    BY DEF Retained
  <2>4. ASSUME NEW p \in told
        PROVE  /\ p \in Package /\ p.posts \subseteq work.batch /\ p.segment # Nothing
               /\ p.posts = {u \in work.batch : fusion.segmentOf[u] = p.segment}
    <3>1. PICK s \in segmented : p = [segment |-> s, posts |-> {u \in work.batch : fusion.segmentOf[u] = s}]
      OBVIOUS
    <3>2. s \in Moments /\ s # Nothing
      BY <1>inv, <1>of, <3>1 DEF Sound, SegmentsSound
    <3> DEFINE posts == {u \in work.batch : fusion.segmentOf[u] = s}
    <3>3. posts \in SUBSET Told /\ posts \subseteq work.batch
      BY <1>of
    <3>4. p.segment = s /\ p.posts = posts /\ p = [segment |-> s, posts |-> posts]
      BY <3>1
    <3>5. p \in Package
      <4> HIDE DEF posts
      <4>1. QED
        BY <3>2, <3>3, <3>4 DEF Package
    <3>6. QED
      BY <3>2, <3>4, <3>5
  <2>5. ASSUME NEW p \in single
        PROVE  p \in Package /\ p.segment = Nothing /\ \E u \in alone : p.posts = {u} /\ u \in work.batch
    <3>1. PICK u \in alone : p = [segment |-> Nothing, posts |-> {u}]
      OBVIOUS
    <3>2. u \in Told
      BY <1>of
    <3>3. QED
      BY <3>1, <3>2 DEF Package
  <2> HIDE DEF told, single
  <2>6. Q \in SUBSET Package
    BY <2>2, <2>3, <2>4, <2>5
  <2>7. Apart(told \cup single)
    <3>1. ASSUME NEW p \in told, NEW q \in told, p # q PROVE p.posts \cap q.posts = {}
      <4>1. p.segment # q.segment
        BY <2>4, <3>1 DEF Package
      <4>2. QED
        BY <2>4, <4>1
    <3>2. ASSUME NEW p \in told, NEW q \in single PROVE p.posts \cap q.posts = {}
      BY <2>4, <2>5
    <3>3. ASSUME NEW p \in single, NEW q \in single, p # q PROVE p.posts \cap q.posts = {}
      BY <2>5, <3>3 DEF Package
    <3>4. QED
      BY <3>1, <3>2, <3>3 DEF Apart
  <2>8. \A p \in told \cup single : p.posts \subseteq work.batch
    BY <2>4, <2>5
  <2>9. Apart(Q)
    BY <2>2, <2>3, <2>7, <2>8 DEF Apart
  <2> HIDE DEF Q
  <2>10. g = [prints |-> fusion.prints, events |-> fusion.events, eventOf |-> fusion.eventOf,
              segments |-> fusion.segments, segmentOf |-> fusion.segmentOf, packages |-> Q]
    <3>1. fusion = [prints |-> fusion.prints, events |-> fusion.events, eventOf |-> fusion.eventOf,
                    segments |-> fusion.segments, segmentOf |-> fusion.segmentOf, packages |-> fusion.packages]
      BY <1>inv, TimelineIsRecord DEF Sound
    <3>2. QED
      BY <3>1
  <2> HIDE DEF g
  <2>11. g \in Timeline
    <3>1. /\ fusion.prints \in SUBSET Configured
          /\ fusion.events \in Seq(EventRow) /\ fusion.eventOf \in [Told -> SUBSET Told]
          /\ fusion.segments \in Seq(SegmentRow) /\ fusion.segmentOf \in [Told -> Moments \cup {Nothing}]
      BY <1>inv DEF Sound, Timeline
    <3>2. QED
      BY <2>6, <2>10, <3>1 DEF Timeline
  <2>12. Sound(g)
    BY <1>inv, <2>9, <2>10, <2>11 DEF Sound
  <2>13. QED
    BY <2>1, <2>12, <1>back, <1>stored DEF FusionInv
<1>11. CASE NextProcess
  <2>1. Sound(fusion')
    BY <1>11, <1>inv, ReadIsSettled DEF NextProcess, StoredSound, Consistent
  <2>2. NoDelivery \in Delivery /\ NoDelivery.step = "idle"
    BY DEF NoDelivery, Delivery, DeliverySteps
  <2>3. WorkSound'
    BY <1>11, <2>2 DEF NextProcess, WorkSound
  <2>4. QED
    BY <1>11, <2>1, <2>3, <1>stored DEF NextProcess, FusionInv
<1>12. CASE UNCHANGED fusionVars
  BY <1>12, <1>inv DEF fusionVars, FusionInv, StoredSound, WorkSound
<1>13. QED
  BY <1>1, <1>2, <1>3, <1>4, <1>5, <1>6, <1>7, <1>8, <1>9, <1>10, <1>11, <1>12 DEF FusionNext

(* The analysis keeps to its types and the size of what it stores.         *)
THEOREM FusionTypesHold == FusionSpec => []FusionTypes
<1>1. FusionInv => FusionTypes
  BY DEF FusionInv, StoredSound, Sound, Timeline, WorkSound, Delivery, FusionTypes
<1>2. QED
  BY <1>1, InitFusion, NextFusion, PTL DEF FusionSpec

(* Read back at any time, events and segments divide the posts, a segment  *)
(* lies in one event and no post is in two packages, over pruning, failed  *)
(* analyses, deliveries inside deliveries and restarts                     *)
(* (src/app/event_timeline.py, src/app/event_timeline_state_compat.py).    *)
THEOREM TimelineStaysWhole == FusionSpec => []TimelineAgrees
<1>1. FusionInv => TimelineAgrees
  BY SoundAgrees DEF FusionInv, StoredSound, TimelineAgrees
<1>2. QED
  BY <1>1, InitFusion, NextFusion, PTL DEF FusionSpec
=============================================================================
