---------------------------- MODULE DailyWatchdog ----------------------------
(***************************************************************************)
(* Who starts the next live run.  GitHub's cron does, unreliably; people    *)
(* push; and a watchdog workflow dispatches a recovery run.  One live run   *)
(* executes at a time and one waits, replaced by a newer one.  One watchdog *)
(* executes at a time: a newer one cancels it, asleep or not.  It is        *)
(* triggered by a heartbeat, by the end of a live run not started by the    *)
(* watchdog, and by the last step of a successful run that was.             *)
(* One tick of time is some minutes.                                       *)
(***************************************************************************)
EXTENDS ProductionOutcome

CONSTANT Interval   \* ticks a Daily run stays fresh, and the watchdog's sleep

ASSUME WatchdogAssumption == Interval \in Nat /\ Interval > 1

VARIABLES
  job,         \* what started the run that executes
  ready,       \* its machine is set up, which takes a tick
  came,        \* GitHub's cron has started one within the tick
  waiting,     \* what started the run that waits for it
  latest,      \* the newest finished run that counts as live
  age,         \* ticks since it finished
  ended,       \* runs whose end has not reached the watchdog yet
  watch,       \* the watchdog that executes
  failures     \* history: recoveries that failed in a row, by when they did

dogVars == <<outcomeVars, job, ready, came, waiting, latest, age, ended, watch, failures>>

Starter == {"cron", "recovery"}
MaxChain == 3
NoFailures == [late |-> 0, early |-> FALSE]
NoWatch == [step |-> "idle", left |-> 0, source |-> {}]

(* What a verdict, fetched in time, makes of the run it speaks of.          *)
Decision(status) ==
  CASE status = "none" -> "unknown"
    [] status = "failed_sources" -> "dispatch"
    [] OTHER -> "skip"

(* What the watchdog learns of a finished run; covered says that a newer    *)
(* one has succeeded since.                                                 *)
Ended(kind, ok, status) ==
  [kind |-> kind, ok |-> ok, decision |-> Decision(status), covered |-> FALSE]

DogTypes ==
  /\ OutcomeTypes
  /\ job \in Starter \cup {"none"} /\ ready \in BOOLEAN /\ came \in BOOLEAN /\ waiting \in Starter \cup {"none"}
  /\ latest.kind \in Starter \cup {"none"} /\ age \in 0 .. Interval
  /\ watch.step \in {"idle", "heartbeat", "start", "sleep", "dispatch"}
  /\ watch.left \in 0 .. Interval
  /\ failures.late \in 0 .. MaxChain /\ failures.early \in BOOLEAN

DogInit ==
  /\ OutcomeInit
  /\ job = "none" /\ ready = FALSE /\ came = FALSE /\ waiting = "none" /\ age = Interval
  /\ latest = [kind |-> "none", ok |-> TRUE]
  /\ ended = {} /\ watch = NoWatch /\ failures = NoFailures

----------------------------------------------------------------------------
(* Runs.                                                                    *)

(* The run that waited is cancelled by a newer one: it ended, too.          *)
Arrive(kind) ==
  /\ IF job = "none" THEN job' = kind /\ UNCHANGED waiting
     ELSE waiting' = kind /\ UNCHANGED job
  /\ ended' = IF waiting = "cron"
              THEN ended \cup {Ended(waiting, FALSE, "none")} ELSE ended

CronOrPush ==
  /\ ~came /\ came' = TRUE /\ Arrive("cron")
  /\ UNCHANGED <<outcomeVars, ready, latest, age, watch, failures>>

BeginRun ==
  /\ ready /\ OpenReport
  /\ UNCHANGED <<job, ready, came, waiting, latest, age, ended, watch, failures>>

Running == RunStep /\ UNCHANGED <<job, ready, came, waiting, latest, age, ended, watch, failures>>

Covers(e, ok) == [e EXCEPT !.covered = @ \/ ok]

(* A step behind the monitor (the fan fiction dispatch, the re-arm) may     *)
(* still fail the job.  A run of cron or push reports its end as an event,  *)
(* a successful recovery by its last step; a failed recovery ends silently. *)
CompleteRun ==
  /\ phase = "closed" /\ phase' = "none"
  /\ \E tail \in BOOLEAN :
       LET ok == Succeeded /\ tail
           live == job # "recovery" \/ Monitored
           e == Ended(job, ok, artifact)
           told == job # "recovery" \/ ok
       IN
       /\ ended' = {Covers(f, ok) : f \in ended} \cup (IF told THEN {e} ELSE {})
       /\ watch' = [watch EXCEPT !.source = {Covers(f, ok) : f \in @}]
       /\ IF live THEN latest' = [kind |-> job, ok |-> ok] /\ age' = 0 ELSE UNCHANGED <<latest, age>>
       /\ failures' = IF job # "recovery" \/ ok THEN NoFailures
                      ELSE IF ~live THEN [failures EXCEPT !.early = TRUE]
                      ELSE [failures EXCEPT !.late = IF @ < MaxChain THEN @ + 1 ELSE @]
  /\ job' = waiting /\ ready' = FALSE /\ waiting' = "none"
  /\ report' = Blank /\ artifact' = "none" /\ exit' = "" /\ UNCHANGED came

----------------------------------------------------------------------------
(* The watchdog.                                                            *)
Heartbeat ==
  /\ watch' = [NoWatch EXCEPT !.step = "heartbeat"]
  /\ UNCHANGED <<outcomeVars, job, ready, came, waiting, latest, age, ended, failures>>

EndArrives ==
  /\ \E e \in ended :
       /\ ended' = ended \ {e}
       /\ watch' = [step |-> "start", left |-> 0, source |-> {e}]
  /\ UNCHANGED <<outcomeVars, job, ready, came, waiting, latest, age, failures>>

Set(step, left) == watch' = [watch EXCEPT !.step = step, !.left = left]
Stop == watch' = NoWatch
Elsewhere == UNCHANGED <<outcomeVars, job, ready, came, waiting, latest, age, ended, failures>>

RecoveryFailed == latest.kind = "recovery" /\ ~latest.ok

(* Mutant: a failed recovery ages like another run.                         *)
AgesAlike == age >= Interval

(* Mutant: off by one.                                                      *)
NeverStale == ~RecoveryFailed /\ age > Interval

Stale == ~RecoveryFailed /\ age >= Interval

(* The heartbeat looks at the runs, not at what they say of themselves.     *)
run_periodic_watchdog ==
  /\ watch.step = "heartbeat" /\ Elsewhere
  /\ IF job = "none" /\ waiting = "none" /\ Stale THEN Set("dispatch", 0) ELSE Stop

(* A recovery that failed is not followed; a verdict that could not be      *)
(* fetched is decided as if there were none.  A run that only checked the   *)
(* project, which the watchdog asks GitHub about, is no live run here.      *)
run_watchdog ==
  /\ watch.step = "start" /\ Elsewhere
  /\ \E e \in watch.source, fetched \in BOOLEAN :
       LET decision == IF fetched THEN e.decision ELSE "unknown" IN
       IF (e.kind = "recovery" /\ ~e.ok) \/ decision = "skip" THEN Stop
       ELSE Set("sleep", IF decision = "dispatch" THEN 1 ELSE Interval)

(* newer_covering_run: one that is active, or that succeeded.               *)
Wake ==
  /\ watch.step = "sleep" /\ watch.left = 0 /\ Elsewhere
  /\ \E e \in watch.source :
       IF job # "none" \/ waiting # "none" \/ e.covered THEN Stop ELSE Set("dispatch", 0)

(* GitHub's answer to a lookup or to the dispatch is an error.              *)
LookupFails == watch.step \in {"heartbeat", "start", "sleep", "dispatch"} /\ watch.left = 0
               /\ Stop /\ Elsewhere

(* Time passes between the look at the runs and the dispatch.               *)
dispatch_live ==
  /\ watch.step = "dispatch" /\ Stop
  /\ Arrive("recovery")
  /\ UNCHANGED <<outcomeVars, ready, came, latest, age, failures>>

(* An end reaches the watchdog, and a watchdog that is awake acts, within a *)
(* tick.                                                                   *)
Tick ==
  /\ watch.step = "idle" \/ (watch.step = "sleep" /\ watch.left > 0)
  /\ ended = {}
  /\ age' = IF age < Interval THEN age + 1 ELSE age
  /\ watch' = [watch EXCEPT !.left = IF @ > 0 THEN @ - 1 ELSE 0]
  /\ ready' = (job # "none") /\ came' = FALSE
  /\ UNCHANGED <<outcomeVars, job, waiting, latest, ended, failures>>

DogNext ==
  \/ CronOrPush \/ BeginRun \/ Running \/ CompleteRun
  \/ Heartbeat \/ EndArrives \/ run_periodic_watchdog \/ run_watchdog \/ Wake
  \/ LookupFails \/ dispatch_live \/ Tick

(* Jobs end, time passes, the heartbeat comes again and again, and GitHub   *)
(* does not refuse the watchdog for ever.                                   *)
JobGoes == BeginRun \/ Running \/ CompleteRun \/ EndArrives
DogFairness ==
  /\ WF_dogVars(JobGoes)
  /\ SF_dogVars(Tick) /\ WF_dogVars(Heartbeat)
  /\ SF_dogVars(run_periodic_watchdog) /\ SF_dogVars(dispatch_live)

DogSpec == DogInit /\ [][DogNext]_dogVars /\ DogFairness

----------------------------------------------------------------------------
(* Properties.                                                              *)

(* The watchdogs, cancelled and triggered in whatever order, never have two *)
(* recovery runs at once.  Behind a recovery that failed while or after     *)
(* monitoring they start at most one more, and that only if a cron run came *)
(* between the look at the runs and the dispatch, until another run ends.   *)
RecoveryIsBounded ==
  /\ ~(job = "recovery" /\ waiting = "recovery")
  /\ failures.late < MaxChain
  /\ failures.late = 2 => "recovery" \notin {job, waiting}

(* A failed recovery stops the chain, as the contract says of every one.    *)
FailedRecoveryStops ==
  failures # NoFailures => "recovery" \notin {job, waiting}

(* When the cron stops, runs go on: after a run there is another one in the *)
(* end, unless a recovery failed.                                           *)
DailyGoesOn == []<>(latest.kind = "none" \/ job # "none" \/ RecoveryFailed)
=============================================================================
