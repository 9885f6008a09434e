----------------------------- MODULE EventFusion -----------------------------
(***************************************************************************)
(* The shadow analysis around a delivery: posts are grouped into events,   *)
(* the posts of an event into segments (moments), and what was delivered   *)
(* into packages.  All of it lives in one namespace of state.json that is  *)
(* sanitized whenever it is read and pruned to a size.  An event is named  *)
(* by the two posts it began with, a segment by its event and the post it  *)
(* began with.  Texts are left out: which posts are alike is given.        *)
(***************************************************************************)
EXTENDS Ranking

CONSTANTS
  Told,         \* posts, numbered by the time they were published
  Configured,   \* the ones of configured sources
  Kin,          \* pairs of posts matched as one event
  Together,     \* pairs of posts matched as one moment
  MaxEvents, MaxSegments, MaxPrints,
  Deliveries    \* bound on deliveries

ASSUME FusionAssumption ==
  /\ Told \subseteq Nat /\ Configured \subseteq Told
  /\ Kin \cup Together \subseteq {{u, v} : u, v \in Told}
  /\ {MaxEvents, MaxSegments, MaxPrints, Deliveries} \subseteq Nat

VARIABLES
  fusion,   \* the namespace event_fusion of the process
  stored,   \* ... of state.json
  work,     \* the delivery in progress
  outer,    \* the delivery it interrupts: a command carried out between two groups
  lazy,     \* the sanitizer of the packages is installed
  rounds    \* deliveries begun

fusionVars == <<fusion, stored, work, outer, lazy, rounds>>

Nothing == <<>>
NoEvent == {}
NoDelivery == [step |-> "idle", batch |-> {}, todo |-> {}, known |-> {}]

_fresh_event_state ==
  [prints |-> {}, events |-> <<>>, eventOf |-> [u \in Told |-> NoEvent],
   segments |-> <<>>, segmentOf |-> [u \in Told |-> Nothing], packages |-> {}]

FusionInit ==
  /\ fusion = _fresh_event_state /\ stored = _fresh_event_state
  /\ work = NoDelivery /\ outer = NoDelivery /\ lazy = FALSE /\ rounds = 0
-----------------------------------------------------------------------------
(* Events and segments are kept as sequences, the one last touched at the  *)
(* end, of records with an id and members.                                 *)
Ids(list) == {list[i].id : i \in DOMAIN list}
Entry(list, id) == list[CHOOSE i \in DOMAIN list : list[i].id = id]
PlacesOf(list, K) == {i \in DOMAIN list : list[i].id \in K}

(* The entries of some ids, in their order.                                *)
Keeping(list, K) == Chosen(list, PlacesOf(list, K))

Without(list, id) == Keeping(list, Ids(list) \ {id})
Attach(list, id, u) ==
  Append(Without(list, id), [Entry(list, id) EXCEPT !.members = @ \cup {u}])
LastOf(list, n) == IF Len(list) <= n THEN list ELSE SubSeq(list, Len(list) - n + 1, Len(list))

(* Events whose posts are forgotten release their posts.                   *)
KeepEvents(f, events) ==
  [f EXCEPT !.events = events,
            !.eventOf = [u \in Told |-> IF @[u] \in Ids(events) THEN @[u] ELSE NoEvent]]

KeepSegments(f, segments) ==
  [f EXCEPT !.segments = segments,
            !.segmentOf = [u \in Told |-> IF @[u] \in Ids(segments) THEN @[u] ELSE Nothing]]

_prune_timeline(f) == KeepSegments(f, LastOf(f.segments, MaxSegments))

(* The newest fingerprints by publication, the events and segments last    *)
(* touched.                                                                *)
_prune(f) ==
  LET newer(u) == Cardinality({v \in f.prints : v > u})
  IN _prune_timeline([KeepEvents(f, LastOf(f.events, MaxEvents))
                        EXCEPT !.prints = {u \in @ : newer(u) < MaxPrints}])

(* Packages that still name a segment and members of it.                   *)
SanePackage(f, p) ==
  p.segment # Nothing =>
    /\ p.segment \in Ids(f.segments)
    /\ \A u \in p.posts : f.segmentOf[u] = p.segment

(* Mutant: the segments are not compared with the events.                  *)
SegmentsOfAnyEvent(f) == f

(* Segments of events that are gone go with them.                          *)
SaneSegments(f) ==
  KeepSegments(f, Keeping(f.segments, {s \in Ids(f.segments) : s[1] \in Ids(f.events)}))

(* What is read: until the first delivery of a process has installed their *)
(* sanitizer, packages are not among the fields that are kept.             *)
_sanitize_event_state(f, installed) ==
  [SaneSegments(KeepEvents(f, LastOf(f.events, MaxEvents))) EXCEPT
     !.packages = IF installed THEN {p \in @ : SanePackage(f, p)} ELSE {}]
-----------------------------------------------------------------------------
(* deliver_updates begins with the analysis of its posts.                  *)
BeginDelivery(batch) ==
  /\ work.step \in {"idle", "deliver", "tell"} /\ outer.step = "idle"
  /\ rounds < Deliveries /\ rounds' = rounds + 1
  /\ outer' = work /\ lazy' = TRUE
  /\ work' = [step |-> "group", batch |-> batch, todo |-> batch \cap Configured, known |-> {}]
  /\ fusion' = [_sanitize_event_state(fusion, TRUE) EXCEPT !.prints = @ \cup (batch \cap Configured)]
  /\ UNCHANGED stored

(* An exception of the analysis is caught; the delivery goes on.           *)
GroupingFails ==
  /\ work.step = "group" /\ work' = [work EXCEPT !.step = "deliver", !.todo = {}]
  /\ UNCHANGED <<fusion, stored, outer, lazy, rounds>>

Create(list, id, members) == Append(Without(list, id), [id |-> id, members |-> members])

Join(f, u, v) ==
  LET e == IF f.eventOf[v] # NoEvent THEN f.eventOf[v] ELSE {u, v}
  IN [f EXCEPT
        !.events = IF f.eventOf[v] # NoEvent THEN Attach(@, e, u) ELSE Create(@, e, {u, v}),
        !.eventOf = [@ EXCEPT ![u] = e, ![v] = e]]

(* A post keeps the event it is in.                                        *)
Grouped(f, u) == f.eventOf[u] = NoEvent

(* The posts in order of publication: one that matches posts of no more    *)
(* than one event joins the best match, or begins an event with it.        *)
shadow_group_updates ==
  /\ work.step = "group" /\ work.todo # {}
  /\ LET u == CHOOSE v \in work.todo : \A w \in work.todo : v <= w
         kin == {v \in fusion.prints \ {u} : {u, v} \in Kin}
         rivals == {fusion.eventOf[v] : v \in kin} \ {NoEvent}
     IN /\ work' = [work EXCEPT !.todo = @ \ {u}]
        /\ IF Grouped(fusion, u) /\ kin # {} /\ Cardinality(rivals) <= 1
           THEN \E v \in kin : fusion' = Join(fusion, u, v)
           ELSE UNCHANGED fusion
  /\ UNCHANGED <<stored, outer, lazy, rounds>>

(* The groups are pruned and read anew.  The events at hand that are of a  *)
(* kind with moments get segments for the members whose texts are known.   *)
BeginSegments ==
  /\ work.step = "group" /\ work.todo = {}
  /\ LET f == _sanitize_event_state(_prune(fusion), TRUE)
         affected == {f.eventOf[u] : u \in work.batch \cap Configured} \ {NoEvent}
     IN \E known \in SUBSET (Configured \ work.batch), long \in SUBSET affected :
          LET seen == known \cup (work.batch \cap Configured)
              at(e) == Entry(f.events, e).members \cap seen
          IN /\ fusion' = f
             /\ work' = [work EXCEPT !.step = "segment", !.known = seen,
                  !.todo = {u \in UNION {at(e) : e \in {e \in long : Cardinality(at(e)) > 1}} :
                              f.segmentOf[u] = Nothing}]
  /\ UNCHANGED <<stored, outer, lazy, rounds>>

(* A post joins a segment of its event that tells its moment, or begins    *)
(* one.                                                                    *)
shadow_segment_events ==
  /\ work.step = "segment"
  /\ \E u \in work.todo :
       LET e == fusion.eventOf[u]
           near == {s \in Ids(fusion.segments) :
                      /\ s[1] = e
                      /\ \E v \in Entry(fusion.segments, s).members \cap work.known :
                           {u, v} \in Together}
       IN /\ work' = [work EXCEPT !.todo = @ \ {u}]
          /\ \/ \E s \in near :
                  fusion' = [fusion EXCEPT !.segments = Attach(@, s, u), !.segmentOf[u] = s]
             \/ /\ near = {}
                /\ fusion' = [fusion EXCEPT !.segments = Create(@, <<e, u>>, {u}),
                                            !.segmentOf[u] = <<e, u>>]
  /\ UNCHANGED <<stored, outer, lazy, rounds>>

EndSegments ==
  /\ work.step = "segment" /\ work.todo = {}
  /\ fusion' = _prune_timeline(fusion) /\ work' = [work EXCEPT !.step = "tell"]
  /\ UNCHANGED <<stored, outer, lazy, rounds>>

(* ... also caught, and the chain goes on as if it had succeeded.          *)
TimelineFails ==
  /\ work.step = "segment" /\ work' = [work EXCEPT !.step = "tell"]
  /\ UNCHANGED <<fusion, stored, outer, lazy, rounds>>

(* The delivery itself saves the state as it goes.                         *)
SaveFusion ==
  /\ work.step \in {"deliver", "tell"} /\ stored' = _prune(fusion) /\ fusion' = stored'
  /\ UNCHANGED <<work, outer, lazy, rounds>>

Return == work' = outer /\ outer' = NoDelivery

(* It fails, or nothing was analysed: there is nothing to plan.            *)
DeliveryLeaves ==
  /\ work.step \in {"deliver", "tell"} /\ Return
  /\ UNCHANGED <<fusion, stored, lazy, rounds>>

Retained(f, batch) == {p \in f.packages : p.posts \cap batch = {}}

(* One package per segment of the posts delivered, and per post outside;   *)
(* earlier packages that hold one of the posts are replaced.               *)
plan_forward_ready_packages ==
  /\ work.step = "tell" /\ Return
  /\ LET segmented == {fusion.segmentOf[u] : u \in work.batch} \ {Nothing}
         alone == {u \in work.batch : fusion.segmentOf[u] = Nothing}
         packages == {[segment |-> s, posts |-> {u \in work.batch : fusion.segmentOf[u] = s}] : s \in segmented}
                     \cup {[segment |-> Nothing, posts |-> {u}] : u \in alone}
     IN fusion' = [fusion EXCEPT !.packages = Retained(fusion, work.batch) \cup packages]
  /\ UNCHANGED <<stored, lazy, rounds>>

(* The process ends and a later one reads what was saved.                  *)
NextProcess ==
  /\ fusion' = _sanitize_event_state(stored, FALSE)
  /\ work' = NoDelivery /\ outer' = NoDelivery /\ lazy' = FALSE
  /\ UNCHANGED <<stored, rounds>>

FusionNext ==
  \/ \E u, v \in Told : BeginDelivery({u, v})
  \/ GroupingFails \/ shadow_group_updates \/ BeginSegments
  \/ shadow_segment_events \/ EndSegments \/ TimelineFails
  \/ SaveFusion \/ DeliveryLeaves \/ plan_forward_ready_packages
  \/ NextProcess
-----------------------------------------------------------------------------
FusionSpec == FusionInit /\ [][FusionNext]_fusionVars

FusionTypes ==
  /\ fusion.prints \subseteq Configured /\ stored.prints \subseteq Configured
  /\ Len(stored.events) <= MaxEvents /\ Len(stored.segments) <= MaxSegments
  /\ work.batch \subseteq Told /\ work.todo \subseteq Configured /\ lazy \in BOOLEAN

(* No post stands in two groups, and a group lists exactly the posts that  *)
(* name it.                                                                *)
Partition(list, of, none) ==
  /\ \A i, j \in DOMAIN list : i # j => list[i].id # list[j].id
  /\ \A i \in DOMAIN list : list[i].members # {} /\ list[i].members = {u \in Told : of[u] = list[i].id}
  /\ \A u \in Told : of[u] # none => of[u] \in Ids(list)

(* As they are read, events and segments divide the posts, every segment   *)
(* lies in one event, and no post is in two packages, over pruning,        *)
(* failures, deliveries inside deliveries and restarts                     *)
(* (src/app/event_timeline.py:482).                                        *)
TimelineAgrees ==
  \A kept \in {fusion, stored} :
    LET f == _sanitize_event_state(kept, TRUE)
    IN /\ Partition(f.events, f.eventOf, NoEvent) /\ Partition(f.segments, f.segmentOf, Nothing)
       /\ \A u \in Told : f.segmentOf[u] # Nothing => f.segmentOf[u][1] = f.eventOf[u]
       /\ \A p, q \in f.packages : p # q => p.posts \cap q.posts = {}
=============================================================================
