---------------------------- MODULE DateRequests ----------------------------
(***************************************************************************)
(* The editor's requests for the posts of a day: a durable job that        *)
(* snapshots the sources, asks them one per step, selects once and then    *)
(* delivers post by post.  Asking again starts another generation of the   *)
(* same job.  Jobs for one source go first, and while one is at work the   *)
(* ordinary queue waits.                                                   *)
(*                                                                         *)
(* A step ends by saving state.json, on its error path too, so a crash     *)
(* only takes back the step in progress.                                   *)
(***************************************************************************)
EXTENDS Integers, FiniteSets

CONSTANTS
  Job,            \* requests, by number: two of one kind are served in this order
  DaySource,         \* configured sources
  DayPost,           \* the day's posts: numbers, in order of publication
  Author,         \* Author[p]: the source of post p
  Parent,         \* Parent[p]: the post it replies to, or 0
  LivePosts,      \* posts with a live marker
  Scope,          \* Scope[j]: the sources job j asks
  LiveOnly,       \* jobs for live coverage only
  Refused,        \* posts Telegram refuses whenever they are sent
  Retries,        \* failed translations of a post before its job is set aside
  MaxGenerations, \* bound on how often jobs are asked for
  RequestFaults   \* bound on failures

ASSUME RequestConstants ==
  /\ IsFiniteSet(Job) /\ Job \subseteq Nat \ {0} /\ DayPost \subseteq Nat \ {0}
  /\ Author \in [DayPost -> DaySource] /\ Parent \in [DayPost -> DayPost \cup {0}]
  /\ LivePosts \subseteq DayPost /\ Scope \in [Job -> SUBSET DaySource]
  /\ LiveOnly \subseteq Job /\ Refused \subseteq DayPost
  /\ Retries \in Nat \ {0} /\ MaxGenerations \in Nat /\ RequestFaults \in Nat

VARIABLES
  jobs,       \* state.data["date_requests"]["jobs"]
  dayOpen,    \* the day has not ended
  published,  \* posts that exist
  archive,    \* posts some collection brought into the archive
  enabled,    \* sources enabled in the configuration
  daily,      \* ordinary posts wait for delivery
  requestFaults

(* What happened, for the properties.                                      *)
VARIABLES
  proved,     \* proved[j]: sources whose timeline was read whole, this generation
  shown,      \* shown[j, p]: how often the post was sent for the job
  slipped     \* slipped[j, p]: how often that could not be recorded

requestVars == <<jobs, dayOpen, published, archive, enabled, daily, requestFaults,
                 proved, shown, slipped>>

Ended  == {"complete", "partial", "translation_pending"}
AtWork == {"collecting", "delivering"}
Coverage == {"", "complete", "partial", "failed", "disabled"}

NewJob == [status |-> "absent", generation |-> 0, pending |-> {},
           coverage |-> [s \in DaySource |-> ""], observed |-> {}, selected |-> {},
           delivered |-> {}, attempts |-> [p \in DayPost |-> 0],
           waiting |-> FALSE, loaded |-> FALSE]

RequestTypes ==
  /\ jobs \in [Job -> [status : Ended \cup AtWork \cup {"absent"},
                       generation : 0 .. MaxGenerations, pending : SUBSET DaySource,
                       coverage : [DaySource -> Coverage],
                       observed : SUBSET DayPost, selected : SUBSET DayPost,
                       delivered : SUBSET DayPost, attempts : [DayPost -> Nat],
                       waiting : BOOLEAN, loaded : BOOLEAN]]
  /\ dayOpen \in BOOLEAN /\ daily \in BOOLEAN
  /\ published \subseteq DayPost /\ archive \subseteq published
  /\ enabled \subseteq DaySource
  /\ requestFaults \in 0 .. RequestFaults
  /\ proved \in [Job -> SUBSET DaySource]

RequestInit ==
  /\ jobs = [j \in Job |-> NewJob]
  /\ dayOpen = TRUE /\ published = {} /\ archive = {} /\ enabled = DaySource
  /\ daily \in BOOLEAN /\ requestFaults = 0
  /\ proved = [j \in Job |-> {}]
  /\ shown = [x \in Job \X DayPost |-> 0] /\ slipped = [x \in Job \X DayPost |-> 0]

Failing == requestFaults < RequestFaults /\ requestFaults' = requestFaults + 1
Working == UNCHANGED requestFaults

----------------------------------------------------------------------------
(* The world: posts appear until the day ends, sources may be disabled.    *)

Publish ==
  /\ dayOpen
  /\ \E p \in DayPost \ published :
       /\ Parent[p] \in published \cup {0}
       /\ published' = published \cup {p}
  /\ UNCHANGED <<jobs, dayOpen, archive, enabled, daily, requestFaults, proved, shown, slipped>>

DayEnds ==
  /\ dayOpen /\ dayOpen' = FALSE
  /\ UNCHANGED <<jobs, published, archive, enabled, daily, requestFaults, proved, shown, slipped>>

Disable ==
  /\ Failing
  /\ \E s \in enabled : enabled' = enabled \ {s}
  /\ UNCHANGED <<jobs, dayOpen, published, archive, daily, proved, shown, slipped>>

----------------------------------------------------------------------------
(* Asking, by a command or by an entry of the repository's queue.          *)

Asked(r, j) ==
  [r EXCEPT !.status = "collecting", !.generation = @ + 1,
            !.pending = Scope[j] \cap enabled,
            !.coverage = [s \in DaySource |-> ""], !.observed = {}, !.selected = {},
            !.loaded = FALSE, !.waiting = FALSE]

MayAsk ==
  Cardinality({g \in Job \X (1 .. MaxGenerations) : g[2] <= jobs[g[1]].generation}) < MaxGenerations

(* A job that has ended is swept anew and keeps what it delivered; one at  *)
(* work is left alone.                                                     *)
Enqueue ==
  /\ MayAsk
  /\ \E j \in Job :
       /\ jobs[j].status \in Ended \cup {"absent"}
       /\ Scope[j] \cap enabled # {}
       /\ jobs' = [jobs EXCEPT ![j] = Asked(@, j)]
       /\ proved' = [proved EXCEPT ![j] = {}]
  /\ UNCHANGED <<dayOpen, published, archive, enabled, daily, requestFaults, shown, slipped>>

----------------------------------------------------------------------------
(* One step of the jobs.                                                   *)

ActiveSourceRequests == {j \in Job : Scope[j] # DaySource /\ jobs[j].status \in AtWork}

Line == IF ActiveSourceRequests # {} THEN ActiveSourceRequests
        ELSE {j \in Job : jobs[j].status \in AtWork}

Ready == {j \in Line : ~jobs[j].waiting}

Serves(j) == j \in Ready /\ \A i \in Ready : j <= i

RetryTime ==
  /\ \E j \in Job : /\ jobs[j].waiting
                    /\ jobs' = [jobs EXCEPT ![j].waiting = FALSE]
  /\ UNCHANGED <<dayOpen, published, archive, enabled, daily, requestFaults, proved, shown, slipped>>

(* Posts an earlier collection archived are observed once per generation.  *)
Loaded(j) ==
  LET r == jobs[j] IN
  IF r.loaded THEN r
  ELSE [r EXCEPT !.loaded = TRUE,
                 !.observed = @ \cup {p \in archive : Author[p] \in Scope[j] \cap enabled}]

(* Mutant: the source asked stays on the list.                             *)
SourceStays(j, s, outcome, found) ==
  /\ jobs' = [jobs EXCEPT ![j] =
       [Loaded(j) EXCEPT !.coverage[s] = outcome, !.observed = @ \cup found]]
  /\ archive' = archive \cup found
  /\ proved' = IF outcome = "complete" THEN [proved EXCEPT ![j] = @ \cup {s}] ELSE proved

(* One source: its whole timeline, or part of it with an error noted, or   *)
(* nothing; after a failure a search may still find a part.                *)
Collected(j, s, outcome, found) ==
  /\ jobs' = [jobs EXCEPT ![j] =
       [Loaded(j) EXCEPT !.pending = @ \ {s}, !.coverage[s] = outcome,
                         !.observed = @ \cup found]]
  /\ archive' = archive \cup found
  /\ proved' = IF outcome = "complete" THEN [proved EXCEPT ![j] = @ \cup {s}] ELSE proved

Of(s) == {p \in published : Author[p] = s}

CollectSource ==
  /\ \E j \in Job :
       /\ Serves(j)
       /\ \E s \in jobs[j].pending :
            \/ s \notin enabled /\ Collected(j, s, "disabled", {}) /\ Working
            \/ s \in enabled /\ Collected(j, s, "complete", Of(s)) /\ Working
            \/ s \in enabled /\ Collected(j, s, "failed", {}) /\ Failing
            \/ /\ s \in enabled /\ Failing
               /\ \E found \in SUBSET Of(s) : Collected(j, s, "partial", found)
  /\ UNCHANGED <<dayOpen, published, enabled, daily, shown, slipped>>

(* select_updates: for live coverage the marked posts and, within one      *)
(* author, everything that answers them: the walk along the answers ends   *)
(* at the least set of posts that holds them all.                          *)
Thread(S) ==
  LET Walked(T) == /\ S \cap LivePosts \subseteq T
                   /\ \A p \in S : (Parent[p] \in T /\ Author[Parent[p]] = Author[p]) => p \in T
  IN {p \in S : \A T \in SUBSET S : Walked(T) => p \in T}

Selected(j, r) ==
  LET mine == {p \in r.observed : Author[p] \in Scope[j] \cap enabled} IN
  [r EXCEPT !.status = "delivering",
            !.selected = IF j \in LiveOnly THEN Thread(mine) ELSE mine]

Remaining(r) == r.selected \ r.delivered

(* Mutant: one source proven whole is enough.                              *)
FinishedByOne(r) ==
  [r EXCEPT !.status =
     IF (\E s \in DaySource : r.coverage[s] = "complete") /\ ~dayOpen
       THEN "complete" ELSE "partial"]

(* Every source attempted is proven whole, and the day is over.            *)
Finished(r) ==
  LET tried == {s \in DaySource : r.coverage[s] # ""} IN
  [r EXCEPT !.status =
     IF tried # {} /\ (\A s \in tried : r.coverage[s] = "complete") /\ ~dayOpen
       THEN "complete" ELSE "partial"]

(* A translation that is not ready puts the post off, and in the end the   *)
(* job aside.                                                              *)
PutOff(r, p) ==
  [r EXCEPT !.attempts[p] = @ + 1, !.waiting = TRUE,
            !.status = IF r.attempts[p] + 1 >= Retries THEN "translation_pending" ELSE @]

(* The rest of a step for job j, whose record is r by now.                 *)
Continue(j, r) ==
  LET p == CHOOSE p \in Remaining(r) : \A q \in Remaining(r) : p <= q
      Becomes(new) == jobs' = [jobs EXCEPT ![j] = new]
      Same == UNCHANGED <<shown, slipped>>
      Shown == shown' = [shown EXCEPT ![<<j, p>>] = @ + 1]
      Slip  == slipped' = [slipped EXCEPT ![<<j, p>>] = @ + 1]
  IN
  \/ Remaining(r) = {} /\ Becomes(Finished(r)) /\ Same /\ Working
  \/ /\ Remaining(r) # {} /\ Author[p] \notin enabled
     /\ Becomes([r EXCEPT !.selected = @ \ {p}, !.coverage[Author[p]] = "disabled"])
     /\ Same /\ Working
  \/ /\ Remaining(r) # {} /\ Author[p] \in enabled
     /\ \/ /\ p \notin Refused
           /\ Becomes([r EXCEPT !.delivered = @ \cup {p}]) /\ Shown
           /\ UNCHANGED slipped /\ Working
        \/ Becomes(PutOff(r, p)) /\ Same /\ Failing          \* no translation yet
        \/ Becomes([r EXCEPT !.status = "partial"]) /\ Same /\ Failing  \* post gone
        \/ Becomes(r) /\ Shown /\ Slip /\ Failing            \* sent, answer lost
        \/ Becomes(r) /\ Same /\ (IF p \in Refused THEN Working ELSE Failing)
        \/ UNCHANGED jobs /\ Shown /\ Slip /\ Failing        \* sent, then a crash

(* Selecting and the first delivery are one step, unless the overview      *)
(* between them cannot be sent.                                            *)
Select ==
  /\ \E j \in Job :
       /\ Serves(j) /\ jobs[j].pending = {} /\ jobs[j].status = "collecting"
       /\ \/ Continue(j, Selected(j, Loaded(j)))
          \/ /\ jobs' = [jobs EXCEPT ![j] = Selected(j, Loaded(j))]
             /\ UNCHANGED <<shown, slipped>> /\ Failing
  /\ UNCHANGED <<dayOpen, published, archive, enabled, daily, proved>>

DeliverNext ==
  /\ \E j \in Job :
       /\ Serves(j) /\ jobs[j].pending = {} /\ jobs[j].status = "delivering"
       /\ Continue(j, jobs[j])
  /\ UNCHANGED <<dayOpen, published, archive, enabled, daily, proved>>

(* The ordinary queue, which waits for the jobs of one source.             *)
DeliverDaily ==
  /\ daily /\ ActiveSourceRequests = {}
  /\ daily' = FALSE
  /\ UNCHANGED <<jobs, dayOpen, published, archive, enabled, requestFaults, proved, shown, slipped>>

----------------------------------------------------------------------------
RequestNext ==
  \/ Publish \/ DayEnds \/ Disable
  \/ Enqueue \/ RetryTime
  \/ CollectSource \/ Select \/ DeliverNext
  \/ DeliverDaily

(* Maintenance and the scheduled runs keep taking steps, and time passes.  *)
JobStep == CollectSource \/ Select \/ DeliverNext

RequestFairness ==
  WF_requestVars(RetryTime) /\ WF_requestVars(JobStep) /\ WF_requestVars(DeliverDaily)

RequestSpec == RequestInit /\ [][RequestNext]_requestVars /\ RequestFairness

----------------------------------------------------------------------------
(* Properties.                                                             *)

(* A bundle is called complete only if in this generation every source it  *)
(* asked was read whole, and everything it selected was delivered.         *)
CompleteMeansCovered ==
  \A j \in Job : jobs[j].status = "complete" =>
    /\ proved[j] # {} /\ \A s \in DaySource : jobs[j].coverage[s] # "" => s \in proved[j]
    /\ Remaining(jobs[j]) = {}
    /\ jobs[j].pending = {}

(* A bundle called complete holds the whole day of its sources.            *)
CompleteMeansWholeDay ==
  \A j \in Job : jobs[j].status = "complete" =>
    \A p \in published : Author[p] \in proved[j] => p \in jobs[j].observed

(* Asking again never sends a post of the job again: it is sent once, and  *)
(* once more for each time the sending could not be recorded.              *)
SentOncePerRequest == \A x \in Job \X DayPost : shown[x] <= 1 + slipped[x]

(* A live bundle takes every answer to what it takes.                      *)
ThreadsAreWhole ==
  \A j \in LiveOnly : jobs[j].status \in {"delivering", "complete"} =>
    \A p \in jobs[j].observed :
      (/\ Parent[p] \in jobs[j].selected /\ Author[p] = Author[Parent[p]]
       /\ Author[p] \in enabled /\ jobs[j].coverage[Author[p]] # "disabled")
        => p \in jobs[j].selected

(* What a bundle says of itself is so, and it comes once                   *)
(* (src/app/date_requests.py:397).                                         *)
BundlesAreHonest == CompleteMeansCovered /\ ThreadsAreWhole /\ SentOncePerRequest

(* A job asked for comes to an end, and the ordinary queue, held back by   *)
(* the jobs of one source, is delivered.                                   *)
RequestsEnd ==
  /\ \A j \in Job : (jobs[j].status \in AtWork) ~> (jobs[j].status \in Ended)
  /\ daily ~> ~daily
=============================================================================
