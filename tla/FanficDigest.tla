---------------------------- MODULE FanficDigest ----------------------------
(***************************************************************************)
(* The nightly fan fiction digest: a workflow of its own that GitHub's     *)
(* cron starts at 18:30 UTC, late or not at all, and that a live run which *)
(* ends after 18:30 dispatches if the day has no digest run yet.  Digest   *)
(* and live runs share one concurrency group: one executes, one waits and  *)
(* is cancelled by a newer one.  The digest builds two lists and sends     *)
(* each under a key made of the day in Tehran and the deployed revision;   *)
(* what a list was cut into and which parts Telegram has taken is in the   *)
(* private database, which every run restores and saves.                   *)
(***************************************************************************)
EXTENDS Integers, Sequences, FiniteSets

CONSTANTS
  Thirds,       \* bound on thirds of days
  Parts,        \* messages a list is cut into
  Revisions,    \* bound on deployed revisions
  Requests,     \* bound on manual requests
  FicFaults     \* bound on injected failures

ASSUME FanficAssumption ==
  /\ Thirds \in Nat \ {0} /\ Parts \in Nat \ {0} /\ Revisions \in Nat \ {0}
  /\ Requests \in Nat /\ FicFaults \in Nat

VARIABLES
  third,       \* days in thirds: to 18:30 UTC, to 20:30 (midnight in Tehran), to 0:00
  revision,    \* what is deployed
  cronned,     \* days whose cron has fired or is lost
  running,     \* the run that executes
  waiting,     \* the run that waits for it
  successes,   \* days with a digest run that succeeded
  store,       \* message_delivery_plans and _parts, as the run has them
  saved,       \* the same in the cache
  chat,        \* the messages: key, part, build of their text, how many before
  builds,      \* digests built, with the days of their runs
  manuals,       \* manual requests so far
  mishaps,     \* failures so far
  runnerLost   \* history: a database was lost with its runner

ficVars == <<third, revision, cronned, running, waiting, successes,
             store, saved, chat, builds, manuals, mishaps, runnerLost>>
database == <<store, saved>>
schedule == <<third, revision, cronned, runnerLost>>

Lists == {"x", "ao3"}
Third == third % 3
Day == third \div 3
TehranDay == IF Third = 2 THEN Day + 1 ELSE Day

(* A run: a live pass, or a digest of the day and revision it was made in.  *)
NoRun == [kind |-> "none", day |-> 0, revision |-> 0, step |-> "", build |-> 0]
LiveRun == [NoRun EXCEPT !.kind = "live", !.step = "pass"]
DigestRun == [kind |-> "digest", day |-> Day, revision |-> revision,
              step |-> "start", build |-> 0]

FicTypes ==
  /\ third \in 0 .. Thirds - 1 /\ revision \in 1 .. Revisions
  /\ cronned \cup successes \subseteq 0 .. (Thirds - 1) \div 3
  /\ \A r \in {running, waiting} : r.kind \in {"none", "live", "digest"}
  /\ \A s \in {store, saved} : \A k \in s.confirmed : k[1] \in {p[1] : p \in s.plans}
  /\ manuals \in 0 .. Requests /\ mishaps \in 0 .. FicFaults

FicInit ==
  /\ third = 0 /\ revision = 1 /\ cronned = {}
  /\ running = NoRun /\ waiting = NoRun /\ successes = {}
  /\ store = [plans |-> {}, confirmed |-> {}] /\ saved = store
  /\ chat = {} /\ builds = <<>> /\ manuals = 0
  /\ mishaps = 0 /\ runnerLost = FALSE

Mishap == mishaps < FicFaults /\ mishaps' = mishaps + 1

----------------------------------------------------------------------------
(* The schedule.                                                            *)
(* A run is given the group, or waits in place of what waited.  Whatever    *)
(* runs first restores the database.                                        *)
Arrive(run) ==
  IF running.kind = "none"
  THEN running' = run /\ store' = saved /\ UNCHANGED waiting
  ELSE waiting' = run /\ UNCHANGED <<running, store>>

Passing == UNCHANGED <<successes, saved, chat, builds, manuals, runnerLost>>

(* Runs are short: none lasts from one third into the next.                *)
LaterThird ==
  /\ running.kind = "none" /\ third < Thirds - 1 /\ third' = third + 1
  /\ Third = 2 => Day \in cronned
  /\ Passing /\ UNCHANGED <<revision, cronned, running, waiting, store, mishaps>>

Deploy ==
  /\ revision < Revisions /\ revision' = revision + 1
  /\ Passing /\ UNCHANGED <<third, cronned, running, waiting, store, mishaps>>

(* The cron of the day, on time, late, or dropped by GitHub.                *)
CronFires ==
  /\ Third > 0 /\ Day \notin cronned /\ cronned' = cronned \cup {Day}
  /\ \/ Arrive(DigestRun) /\ UNCHANGED mishaps
     \/ Mishap /\ UNCHANGED <<running, waiting, store>>
  /\ Passing /\ UNCHANGED <<third, revision>>

LivePassDue ==
  /\ running.kind # "live" /\ waiting.kind # "live" /\ Arrive(LiveRun)
  /\ Passing /\ UNCHANGED <<third, revision, cronned, mishaps>>

(* A digest run of the day that is active or has succeeded.                 *)
Covered == \/ Day \in successes
           \/ \E r \in {running, waiting} : r.kind = "digest" /\ r.day = Day

(* The last but one step of a successful live run.                          *)
QueueDueDigest ==
  /\ running.kind = "live" /\ running.step = "pass"
  /\ IF Third > 0 /\ ~Covered THEN waiting' = DigestRun ELSE UNCHANGED waiting
  /\ running' = [running EXCEPT !.step = "end"]
  /\ Passing /\ UNCHANGED <<third, revision, cronned, store, mishaps>>

(* The database goes back to the cache and the next run restores it.        *)
Leave(kept) ==
  /\ saved' = kept /\ store' = kept
  /\ running' = waiting /\ waiting' = NoRun

EndLive ==
  /\ running.kind = "live" /\ running.step \in {"pass", "end"} /\ Leave(store)
  /\ UNCHANGED <<schedule, successes, chat, builds, manuals, mishaps>>

----------------------------------------------------------------------------
(* The digest.  An error of one phase leaves its list empty or without      *)
(* translations: it is built nevertheless.                                  *)
build_digests(step) ==
  /\ builds' = Append(builds, running.day)
  /\ running' = [running EXCEPT !.step = step, !.build = Len(builds) + 1]

BuildDigests ==
  /\ running.kind = "digest" /\ running.step = "start" /\ build_digests("x")
  /\ UNCHANGED <<schedule, waiting, successes, database, chat, manuals, mishaps>>

(* An editor's /fic during a live pass sends both lists under a key of its  *)
(* own.                                                                     *)
ManualRequest ==
  /\ running.kind = "live" /\ running.step = "pass" /\ manuals < Requests
  /\ manuals' = manuals + 1 /\ build_digests("x")
  /\ UNCHANGED <<schedule, waiting, successes, database, chat, mishaps>>

_delivery_run_scope ==
  IF running.kind = "live" THEN <<-manuals, 0>>
  ELSE <<TehranDay, running.revision>>

Key == <<_delivery_run_scope, running.step>>

(* Mutant: the plan is the one of the text in hand.                         *)
PlanInHand(s, key) == running.build

(* The stored plan of the key, else one of this text.                       *)
PlanOf(s, key) ==
  IF \E p \in s.plans : p[1] = key
  THEN (CHOOSE p \in s.plans : p[1] = key)[2] ELSE running.build

(* Mutant: a list is sent before its plan is stored.                        *)
PlanNotKept(s, key) == s

Planned(s, key) ==
  IF \E p \in s.plans : p[1] = key THEN s
  ELSE [s EXCEPT !.plans = @ \cup {<<key, running.build>>}]

NextStep == IF running.step = "x" THEN "ao3" ELSE IF running.kind = "live" THEN "pass" ELSE "done"
Skip == running' = [running EXCEPT !.step = NextStep]

Sent(key, i) == {m \in chat : m.key = key /\ m.part = i}

(* The parts not yet confirmed go out in order.  An error of Telegram ends  *)
(* this list and is only logged.                                            *)
SendPart ==
  /\ running.step \in Lists
  /\ LET key == Key
         plan == PlanOf(store, key)
         missing == {i \in 1 .. Parts : <<key, i>> \notin store.confirmed}
         part == CHOOSE i \in missing : \A j \in missing : i <= j
         sent == chat \cup {[key |-> key, part |-> part, build |-> plan,
                             copy |-> Cardinality(Sent(key, part))]}
     IN
     IF missing = {} THEN Skip /\ UNCHANGED <<store, chat, mishaps>>
     ELSE
       \/ /\ chat' = sent /\ UNCHANGED <<running, mishaps>>
          /\ store' = [Planned(store, key) EXCEPT !.confirmed = @ \cup {<<key, part>>}]
       \/ /\ Mishap /\ Skip /\ store' = Planned(store, key)
          /\ chat' \in {chat, sent}
  /\ UNCHANGED <<schedule, waiting, successes, saved, builds, manuals>>

(* Sent or not, the run is a success.                                       *)
EndDigest ==
  /\ running.kind = "digest" /\ running.step = "done"
  /\ successes' = successes \cup {running.day} /\ Leave(store)
  /\ UNCHANGED <<schedule, chat, builds, manuals, mishaps>>

(* The run fails before it builds, or its runner is lost with the database. *)
DigestFails ==
  /\ running.kind # "none" /\ Mishap
  /\ \/ running.step = "start" /\ Leave(store) /\ UNCHANGED runnerLost
     \/ Leave(saved) /\ runnerLost' = TRUE
  /\ UNCHANGED <<third, revision, cronned, successes, chat, builds, manuals>>

FicNext ==
  \/ LaterThird \/ Deploy \/ CronFires \/ LivePassDue \/ QueueDueDigest \/ EndLive
  \/ BuildDigests \/ ManualRequest \/ SendPart \/ EndDigest \/ DigestFails

FicSpec == FicInit /\ [][FicNext]_ficVars

----------------------------------------------------------------------------
(* Properties.                                                              *)

(* Runs of one night, cancelled, repeated and late as they may be, send no  *)
(* part of a list twice, but for one whose confirmation was lost; and the   *)
(* parts of a list are cut from one text, even those sent by a later run,   *)
(* unless a database was lost with its runner.                              *)
DigestsAreWhole ==
  \A m \in chat :
    /\ m.copy <= mishaps
    /\ ~runnerLost => \A n \in chat : n.key = m.key => n.build = m.build

(* Each night's digest is sent that night.                                  *)
NightIsSent ==
  mishaps = 0 => \A d \in successes : \E m \in chat : builds[m.build] = d
=============================================================================
