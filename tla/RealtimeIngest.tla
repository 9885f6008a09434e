--------------------------- MODULE RealtimeIngest ---------------------------
(***************************************************************************)
(* Detectors that see posts before the next scan does.  In shadow mode     *)
(* they only measure: a candidate is checked against the configured        *)
(* sources, claimed, read again from X, and counted.  The detectors of one *)
(* process share the gate of claims, which knows what the scheduled path   *)
(* has queued or seen.  What a detector says of a post may be incomplete;  *)
(* what X returns may be another post.                                     *)
(***************************************************************************)
EXTENDS Integers, FiniteSets

CONSTANTS
  Detector,      \* detector tasks of the process
  Sighted,       \* posts
  WriterOf,      \* WriterOf[p]: the account a post is by
  ReplyPosts,    \* posts that are replies
  Policies,      \* Policies[h]: replies of the configured source h are taken
  Sightings,     \* bound on candidates
  Lapses         \* bound on failures and restarts

ASSUME SightingAssumption ==
  /\ ReplyPosts \subseteq Sighted /\ {Sightings, Lapses} \subseteq Nat
  /\ \A h \in DOMAIN Policies : Policies[h] \in BOOLEAN

VARIABLES
  shadow_mode,       \* REALTIME_SHADOW_MODE
  known,         \* posts the scheduled path has pending or seen
  _claimed,      \* posts claimed in this process
  reserved,      \* those of them the scheduled path reserved
  watch,         \* what each detector is doing: listening, hydrating, stopped
  candidate,     \* the candidate each of them hydrates
  summary,       \* ShadowRunSummary of each
  hydrations,    \* history: how often a post was hydrated in this process
  cancelled,     \* history: posts whose hydration was cancelled
  sightings, lapses  \* counters of the bounds

watchVars == <<shadow_mode, known, _claimed, reserved, watch, candidate, summary,
               hydrations, cancelled, sightings, lapses>>
durable == <<shadow_mode, known>>

Handle == {WriterOf[p] : p \in Sighted}
configured_handles == DOMAIN Policies
NoSummary == [observed |-> 0, accepted |-> 0, duplicate |-> 0, rejected |-> 0,
              hydrated |-> 0, deferred |-> 0]
NoCandidate == [post |-> 0, source |-> "", reply |-> FALSE, repost |-> FALSE]
Lapse == lapses < Lapses /\ lapses' = lapses + 1

WatchInit ==
  /\ shadow_mode \in BOOLEAN /\ known = {}
  /\ _claimed = {} /\ reserved = {}
  /\ watch = [d \in Detector |-> "listening"] /\ candidate = [d \in Detector |-> NoCandidate]
  /\ summary = [d \in Detector |-> NoSummary]
  /\ hydrations = [p \in Sighted |-> 0] /\ cancelled = {}
  /\ sightings = 0 /\ lapses = 0

Counts(d, field) == summary' = [summary EXCEPT ![d][field] = @ + 1]

----------------------------------------------------------------------------
(* The scheduled path queues or marks a post, and may reserve it.           *)
SeesFirst(p) ==
  /\ p \notin known /\ known' = known \cup {p}
  /\ UNCHANGED <<shadow_mode, _claimed, reserved, watch, candidate, summary,
                 hydrations, cancelled, sightings, lapses>>

mark_external_observation(p) ==
  /\ p \notin reserved /\ _claimed' = _claimed \cup {p} /\ reserved' = reserved \cup {p}
  /\ UNCHANGED <<durable, watch, candidate, summary, hydrations, cancelled, sightings, lapses>>

----------------------------------------------------------------------------
(* A candidate: by the account the detector watches, which is the writer    *)
(* unless the post is a repost; it need not say that it is one, or a reply.  *)
CandidatesFor(p) ==
  {c \in [post : {p}, source : Handle, reply : BOOLEAN, repost : BOOLEAN] :
     /\ c.reply => p \in ReplyPosts
     /\ c.repost => c.source # WriterOf[p]}

decide_candidate(c) ==
  /\ c.source \in configured_handles /\ ~c.repost
  /\ c.reply => Policies[c.source]

(* Mutant: a post another task has claimed may be claimed again.            *)
FreshOnly(p) == p \notin known

Claimable(p) == p \notin known \cup _claimed

Sights(d, c) ==
  /\ watch[d] = "listening" /\ sightings < Sightings
  /\ sightings' = sightings + 1
  /\ LET accepted == shadow_mode /\ decide_candidate(c) /\ Claimable(c.post)
         kind == IF ~shadow_mode \/ ~decide_candidate(c) THEN "rejected" ELSE "duplicate" IN
     IF accepted
     THEN /\ _claimed' = _claimed \cup {c.post}
          /\ watch' = [watch EXCEPT ![d] = "hydrating"]
          /\ candidate' = [candidate EXCEPT ![d] = c]
          /\ summary' = [summary EXCEPT ![d].observed = @ + 1, ![d].accepted = @ + 1]
     ELSE /\ summary' = [summary EXCEPT ![d].observed = @ + 1, ![d][kind] = @ + 1]
          /\ UNCHANGED <<_claimed, watch, candidate>>
  /\ UNCHANGED <<durable, reserved, hydrations, cancelled, lapses>>

(* Mutant: only the id of what X returned is compared.                      *)
SamePost(c, p) == p = c.post

validate_authoritative_update(c, p) ==
  /\ p = c.post /\ WriterOf[p] = c.source /\ c.source \in configured_handles
  /\ p \in ReplyPosts => Policies[c.source]

(* X returns a post, the wanted one or another.                             *)
hydrate(d, p) ==
  /\ watch[d] = "hydrating" /\ validate_authoritative_update(candidate[d], p)
  /\ candidate' = [candidate EXCEPT ![d] = NoCandidate]
  /\ watch' = [watch EXCEPT ![d] = "listening"] /\ Counts(d, "hydrated")
  /\ hydrations' = [hydrations EXCEPT ![p] = @ + 1]
  /\ UNCHANGED <<durable, _claimed, reserved, cancelled, sightings, lapses>>

release(p) == _claimed' = _claimed \ {p}

HydrationFails(d) ==
  /\ watch[d] = "hydrating"
  /\ \/ Lapse
     \/ ~validate_authoritative_update(candidate[d], candidate[d].post) /\ UNCHANGED lapses
  /\ release(candidate[d].post) /\ reserved' = reserved \ {candidate[d].post}
  /\ candidate' = [candidate EXCEPT ![d] = NoCandidate]
  /\ watch' = [watch EXCEPT ![d] = "listening"] /\ Counts(d, "deferred")
  /\ UNCHANGED <<durable, hydrations, cancelled, sightings>>

(* A cancellation is no Exception: the claim stays.                         *)
HydrationCancelled(d) ==
  /\ watch[d] = "hydrating" /\ Lapse
  /\ candidate' = [candidate EXCEPT ![d] = NoCandidate]
  /\ watch' = [watch EXCEPT ![d] = "stopped"]
  /\ cancelled' = cancelled \cup {candidate[d].post}
  /\ UNCHANGED <<durable, _claimed, reserved, summary, hydrations, sightings>>

DetectorFails(d) ==
  /\ watch[d] = "listening" /\ Lapse
  /\ watch' = [watch EXCEPT ![d] = "stopped"] /\ Counts(d, "deferred")
  /\ UNCHANGED <<durable, _claimed, reserved, candidate, hydrations, cancelled, sightings>>

(* Another run, with a gate of its own.                                     *)
NewGate ==
  /\ Lapse /\ _claimed' = {} /\ reserved' = {} /\ cancelled' = {}
  /\ watch' = [d \in Detector |-> "listening"] /\ candidate' = [d \in Detector |-> NoCandidate]
  /\ summary' = [d \in Detector |-> NoSummary] /\ hydrations' = [p \in Sighted |-> 0]
  /\ UNCHANGED <<durable, sightings>>

WatchNext ==
  \/ \E p \in Sighted : SeesFirst(p) \/ mark_external_observation(p)
  \/ \E d \in Detector :
       \/ \E p \in Sighted : (\E c \in CandidatesFor(p) : Sights(d, c)) \/ hydrate(d, p)
       \/ HydrationFails(d) \/ HydrationCancelled(d) \/ DetectorFails(d)
  \/ NewGate

WatchSpec == WatchInit /\ [][WatchNext]_watchVars

----------------------------------------------------------------------------
(* Every variable has its type.                                             *)
WatchTypes ==
  /\ shadow_mode \in BOOLEAN /\ known \cup _claimed \cup reserved \cup cancelled \subseteq Sighted
  /\ \A d \in Detector :
       /\ watch[d] \in {"listening", "hydrating", "stopped"}
       /\ \A f \in DOMAIN NoSummary : summary[d][f] \in Nat
  /\ hydrations \in [Sighted -> Nat]

Hydrating == {d \in Detector : watch[d] = "hydrating"}

(* Tasks of one process never read the same post at once, and none again    *)
(* once it was read; a claim that nobody works for is a reservation of the  *)
(* scheduled path, or its reading was cancelled.                            *)
SightedOnce ==
  /\ \A p \in Sighted :
       hydrations[p] + Cardinality({d \in Hydrating : candidate[d].post = p}) <= 1
  /\ \A p \in _claimed :
       \/ p \in reserved \cup cancelled \/ hydrations[p] = 1
       \/ \E d \in Hydrating : candidate[d].post = p

(* Whatever a detector says of a post, only posts configured sources wrote  *)
(* are kept, and replies only where they are wanted.                        *)
OnlyConfigured ==
  \A p \in Sighted : hydrations[p] > 0 =>
    WriterOf[p] \in configured_handles /\ (p \in ReplyPosts => Policies[WriterOf[p]])

(* A summary accounts for each candidate: what was accepted is hydrated or  *)
(* left to the next scan, but for the one a task reads or was cancelled in; *)
(* a task that failed between two has left one more to the scan.            *)
SummariesAddUp ==
  \A d \in Detector :
    LET s == summary[d]
        open == s.accepted - s.hydrated - s.deferred IN
    /\ s.observed = s.accepted + s.duplicate + s.rejected
    /\ watch[d] = "listening" => open = 0
    /\ watch[d] = "hydrating" => open = 1
    /\ watch[d] = "stopped" => open \in {-1, 1}

(* What detectors see early is seen once, from the right sources, and       *)
(* counted.                                                                 *)
SightingsAreSound == SightedOnce /\ OnlyConfigured /\ SummariesAddUp
=============================================================================
