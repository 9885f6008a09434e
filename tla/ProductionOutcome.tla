-------------------------- MODULE ProductionOutcome --------------------------
(***************************************************************************)
(* The verdict of one live run on itself.  A builder counts what the run   *)
(* did to each source; when the application ends, by return or exception,  *)
(* the counters are classified and written to production-outcome.json.     *)
(* A later step of the job, another process, checks the database, notes    *)
(* the result in the same file and classifies again: with the original     *)
(* classification, since only the application installs the hardened one.   *)
(***************************************************************************)
EXTENDS Naturals

CONSTANTS
  Active,      \* enabled sources
  Degraded     \* how many of them a degraded pass reads

ASSUME OutcomeAssumption == Active \in Nat \ {0} /\ Degraded \in 1 .. Active

VARIABLES
  report,      \* the builder's counters
  artifact,    \* the status in production-outcome.json, "none" before it
  phase,       \* how far the job is
  exit         \* how the application ended

outcomeVars == <<report, artifact, phase, exit>>

Provider == {"online", "degraded", "offline"}
Status == {"none", "healthy", "degraded", "recovery_required", "failed_sources",
           "failed_state", "failed_database"}

Blank == [active |-> 0, attempted |-> 0, complete |-> 0, partial |-> 0, failed |-> 0,
          whole |-> FALSE, advanced |-> FALSE, notDue |-> FALSE, saved |-> FALSE,
          checked |-> FALSE, sound |-> FALSE, troubled |-> FALSE]

OutcomeTypes ==
  /\ report.complete + report.partial + report.failed = report.attempted
  /\ report.attempted <= report.active /\ report.active \in {0, Active}
  /\ artifact \in Status
  /\ phase \in {"none", "started", "scanned", "ran", "closed"}
  /\ exit \in {"", "ok", "delegated", "unreachable", "raised", "preflight", "killed"}

OutcomeInit == report = Blank /\ artifact = "none" /\ phase = "none" /\ exit = ""

----------------------------------------------------------------------------
(* Classification, from the worst to the best.                              *)

(* Mutant: an incomplete collection is noticed before a broken database.    *)
CollectionFirst(r) ==
  IF r.active > 0 /\ r.complete = 0 /\ r.failed = r.active THEN "failed_sources"
  ELSE IF ~r.saved /\ r.attempted > 0 THEN "failed_state"
  ELSE IF ~r.whole /\ r.partial > 0 /\ ~r.advanced THEN "recovery_required"
  ELSE IF r.checked /\ ~r.sound THEN "failed_database"
  ELSE IF r.partial > 0 \/ r.troubled THEN "degraded" ELSE "healthy"

(* The troubles of a run that degrade it and nothing more (a fallback       *)
(* writer, deferred translations, failed sends, a long backlog) are one     *)
(* flag.  No code recommends a dispatch.                                    *)
classify_outcome(r) ==
  IF r.active > 0 /\ r.complete = 0 /\ r.failed = r.active THEN "failed_sources"
  ELSE IF ~r.saved /\ r.attempted > 0 THEN "failed_state"
  ELSE IF r.checked /\ ~r.sound THEN "failed_database"
  ELSE IF ~r.whole /\ r.partial > 0 /\ ~r.advanced THEN "recovery_required"
  ELSE IF \/ r.partial > 0 /\ r.failed < r.active
          \/ r.troubled
          \/ ~r.advanced /\ r.attempted > 0 /\ r.whole
    THEN "degraded"
  ELSE "healthy"

Incomplete(r) ==
  ~r.whole /\ (r.partial > 0 \/ r.failed > 0 \/ r.attempted < r.active)

classify_outcome_hardened(r) ==
  LET status == classify_outcome(r) IN
  IF \/ status \in {"failed_sources", "failed_state", "failed_database"}
     \/ r.notDue /\ r.attempted = 0
     \/ ~Incomplete(r)
    THEN status
  ELSE IF ~r.advanced THEN "recovery_required"
  ELSE IF status = "healthy" THEN "degraded" ELSE status

----------------------------------------------------------------------------
(* What the scan leaves in the counters.                                    *)
Totals == [Blank EXCEPT !.active = Active]

(* A source named in the collector's errors failed; the others are complete *)
(* if the cursor moved, which it does only without an error.                *)
Tallied(errors, moved) ==
  [Totals EXCEPT !.attempted = Active, !.failed = errors,
                 !.complete = IF moved THEN Active ELSE 0,
                 !.partial = IF moved THEN 0 ELSE Active - errors,
                 !.advanced = moved, !.whole = moved]

(* After a degraded pass only the batch that was read is counted.           *)
BatchCounted(errors) ==
  [Totals EXCEPT !.attempted = Degraded, !.failed = errors, !.partial = Degraded - errors]

NotDue == [Totals EXCEPT !.notDue = TRUE]

(* The provider state comes from the preflight of the same job.  Offline is *)
(* every source's failure whether or not the scan was due.                  *)
Scanned(x) ==
  CASE x = "offline"  -> {Tallied(Active, FALSE)}
    [] x = "degraded" -> {NotDue} \cup {BatchCounted(e) : e \in 0 .. Degraded}
    [] x = "online"   -> {NotDue, Tallied(0, TRUE)}
                         \cup {Tallied(e, FALSE) : e \in 0 .. Active}

----------------------------------------------------------------------------
(* The job.                                                                 *)
OpenReport ==
  /\ phase = "none" /\ phase' = "started"
  /\ report' = Blank /\ artifact' = "none" /\ exit' = ""

(* The preflight step fails for Telegram or the configuration: the monitor  *)
(* step is skipped and nothing is written.                                  *)
PreflightFails ==
  /\ phase = "started" /\ phase' = "closed" /\ exit' = "preflight"
  /\ UNCHANGED <<report, artifact>>

Scan ==
  /\ phase = "started" /\ phase' = "scanned"
  /\ \E x \in Provider : report' \in Scanned(x)
  /\ UNCHANGED <<artifact, exit>>

(* finalize and save_outcome, from the finally clause of run.               *)
Emit(r, how) ==
  /\ report' = r /\ artifact' = classify_outcome_hardened(r)
  /\ exit' = how /\ phase' = "ran"

(* The webhook's owner was woken, or could not be: no scan of this job.     *)
LeaveToOwner ==
  /\ phase = "started"
  /\ \E how \in {"delegated", "unreachable"} : Emit(Blank, how)

(* An exception before or within the scan, or after it.                     *)
Raise ==
  /\ phase \in {"started", "scanned"}
  /\ \E r \in IF phase = "started" THEN {Blank, Totals} ELSE {report} :
       Emit([r EXCEPT !.saved = FALSE], "raised")

Finish ==
  /\ phase = "scanned"
  /\ \E troubled \in BOOLEAN :
       Emit([report EXCEPT !.saved = TRUE, !.troubled = troubled], "ok")

(* The failure is written first and replaced once the check has passed.     *)
Attest ==
  /\ phase = "ran" /\ phase' = "closed"
  /\ \E sound \in BOOLEAN :
       LET r == [report EXCEPT !.checked = TRUE, !.sound = sound] IN
       report' = r /\ artifact' = classify_outcome(r)
  /\ UNCHANGED exit

(* Without a database file there is nothing to attest.                      *)
NothingToAttest ==
  /\ phase = "ran" /\ phase' = "closed" /\ UNCHANGED <<report, artifact, exit>>

(* The job is cancelled or runs into its time limit.                        *)
Killed ==
  /\ phase \in {"started", "scanned"}
  /\ phase' = "closed" /\ exit' = "killed" /\ UNCHANGED <<report, artifact>>

RunStep ==
  \/ PreflightFails \/ Scan \/ LeaveToOwner \/ Raise \/ Finish
  \/ Attest \/ NothingToAttest \/ Killed

(* The monitor step was not skipped.                                        *)
Monitored == exit # "preflight"
Succeeded == exit \in {"ok", "delegated"} /\ (report.checked => report.sound)

----------------------------------------------------------------------------
(* Properties.                                                              *)

(* What the published status may hide: of a job that ran to its end, healthy *)
(* means every source complete, or no scan due, or the owner's work; a      *)
(* database that failed its check, a provider that was offline and a state  *)
(* that was not saved after a collection never pass for less than failed.   *)
FailsClosed ==
  phase = "closed" =>
    /\ (artifact = "healthy" /\ exit = "ok") => report.whole \/ report.notDue
    /\ (report.checked /\ ~report.sound) =>
         artifact \in {"failed_sources", "failed_state", "failed_database"}
    /\ (exit = "raised" /\ report.attempted > 0) =>
         artifact \in {"failed_sources", "failed_state"}
    /\ (report.active > 0 /\ report.failed = report.active /\ artifact # "none") =>
         artifact = "failed_sources"

(* The contract's healthy: all active sources collected completely and no   *)
(* state persistence failure, whatever ended the run.                       *)
HealthyMeansCollected ==
  (phase = "closed" /\ artifact = "healthy") =>
    report.whole \/ report.notDue \/ exit \in {"delegated", "unreachable"}
=============================================================================
