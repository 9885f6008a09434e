------------------------------ MODULE Evidence ------------------------------
(***************************************************************************)
(* Two records of how complete the reading of a source was, kept in the    *)
(* review database beside every run of Retrieval.                          *)
(*                                                                         *)
(* The source ledger believes the run: a window is complete if the run     *)
(* returned.  The completeness engine, in shadow, collects evidence of its *)
(* own (the posts a page lists at its top level, the posts that were       *)
(* converted and stored raw, whether the boundary was seen in order) and   *)
(* lets a separate core decide.                                            *)
(***************************************************************************)
EXTENDS Retrieval

VARIABLES
  raws,      \* raw_observations of the source
  ledger,    \* source_windows / source_cursors: last status, complete_through
  evidence,  \* the engine's attempt and its evidence
  verdict,   \* what it said of the run in hand
  through    \* completeness_shadow_cursors: from the first proof, up to

evidenceVars == <<fetchVars, raws, ledger, evidence, verdict, through>>

NoAttempt == [open |-> FALSE, resumed |-> FALSE, pages |-> 0, valid |-> FALSE,
              expected |-> {}, seen |-> {}, boundary |-> FALSE, proven |-> FALSE,
              exhausted |-> FALSE]

EvidenceTypes ==
  /\ FetchTypes
  /\ raws \subseteq 1 .. clock - 1
  /\ ledger \in [status : {"", "attempting", "complete", "partial", "unproven"},
                 through : 0 .. LastTick]
  /\ evidence.expected \cup evidence.seen \subseteq Moment
  /\ verdict \in {"", "complete", "partial", "unproven"}
  /\ through \in [from : 0 .. LastTick, to : 0 .. LastTick]

EvidenceInit ==
  /\ FetchInit
  /\ raws = {} /\ ledger = [status |-> "", through |-> 0]
  /\ evidence = NoAttempt /\ verdict = "" /\ through = [from |-> 0, to |-> 0]

Ignored == UNCHANGED <<raws, ledger, evidence, verdict, through>>

----------------------------------------------------------------------------
(* Both records open an attempt before the run.                             *)
Attempt ==
  /\ Begin
  /\ evidence' = [NoAttempt EXCEPT !.open = TRUE,
                   !.resumed = Continues(fetch'.caller, fetch'.start, fetch'.end)]
  /\ ledger' = [ledger EXCEPT !.status = "attempting"]
  /\ UNCHANGED <<raws, verdict, through>>

(* The posts converted are stored before the run looks at their time, the   *)
(* one that ends it included.                                              *)
Converted(r) ==
  LET older == {t \in r.posts : t < fetch.from} IN
  {t \in r.posts : t >= fetch.from} \cup
  (IF older = {} THEN {} ELSE {CHOOSE t \in older : \A u \in older : t >= u})

(* Mutant: any post older than the window proves the boundary, listed at   *)
(* the top level of the page or not.                                       *)
ObservedByAge(a, page, r, valid) ==
  [a EXCEPT !.pages = @ + 1,
            !.valid = valid /\ (a.pages = 0 \/ @),
            !.expected = IF valid THEN @ \cup {t \in page : fetch.start <= t /\ t < fetch.end}
                         ELSE @,
            !.seen = @ \cup Converted(r),
            !.proven = @ \/ (valid /\ Crossed(fetch, r))]

(* What a page adds: the posts of the asked window it lists, in order; a    *)
(* listed post older than the window proves the boundary, another does not. *)
Observed(a, page, r, valid) ==
  [a EXCEPT !.pages = @ + 1,
            !.valid = valid /\ (a.pages = 0 \/ @),
            !.expected = IF valid THEN @ \cup {t \in page : fetch.start <= t /\ t < fetch.end}
                         ELSE @,
            !.seen = @ \cup Converted(r),
            !.proven = @ \/ (valid /\ \E t \in page : t < fetch.start)]

(* How the run ended is added only when it ended well.                     *)
Closing(a, page, r, valid) ==
  [Observed(a, page, r, valid) EXCEPT
     !.boundary = Crossed(fetch, r), !.exhausted = valid /\ Exhausted(page)]

(* A response of an unexpected shape, or with an error, still gives its     *)
(* posts to the run, and by the lack of a cursor ends it, but gives         *)
(* nothing to the evidence.                                                *)
ReadObserved ==
  /\ \E r \in Readings(PageBelow(fetch.below)), valid \in BOOLEAN :
       LET page == PageBelow(fetch.below) IN
       /\ ReadPage(r)
       /\ valid => ~r.bare
       /\ valid \/ fetchFaults < FetchFaults
       /\ raws' = raws \cup Converted(r)
       /\ evidence' = IF fetch'.phase = "complete" THEN Closing(evidence, page, r, valid)
                     ELSE Observed(evidence, page, r, valid)
  /\ UNCHANGED <<ledger, verdict, through>>

StallObserved ==
  /\ CursorStalls
  /\ LET page == PageBelow(fetch.below)
         r == [posts |-> page, stray |-> FALSE, bare |-> FALSE]
     IN /\ raws' = raws \cup Converted(r)
        /\ evidence' = Observed(evidence, page, r, TRUE)
  /\ UNCHANGED <<ledger, verdict, through>>

(* evaluate_completeness of the proof the evidence is turned into.         *)
Proven(a) ==
  LET covered == a.expected \subseteq a.seen IN
  /\ fetch.phase = "complete" /\ a.pages > 0 /\ a.valid
  /\ covered /\ (a.exhausted \/ a.proven)
  /\ ~a.resumed
  /\ a.boundary => a.proven

Verdict(a, core) ==
  IF ~core THEN "unproven"
  ELSE IF Proven(a) THEN "complete"
  ELSE IF a.seen # {} THEN "partial" ELSE "unproven"

(* The shadow cursor moves only over a window that adjoins what is proven.  *)
Extended ==
  IF through.to = 0 THEN [from |-> fetch.start, to |-> fetch.end]
  ELSE IF fetch.end > through.to /\ fetch.start <= through.to
    THEN [through EXCEPT !.to = fetch.end] ELSE through

(* Both records are closed before the caller has the result: the engine's  *)
(* by its verdict, for which the core may be missing, the ledger's by how  *)
(* the run ended.                                                          *)
Conclude ==
  /\ evidence.open /\ fetch.phase \in {"complete", "partial"}
  /\ \E core \in BOOLEAN :
       /\ core \/ fetchFaults < FetchFaults
       /\ verdict' = Verdict(evidence, core)
  /\ through' = IF verdict' = "complete" THEN Extended ELSE through
  /\ ledger' = [status |-> fetch.phase,
                through |-> IF fetch.phase = "complete" THEN Greater(fetch.end, ledger.through)
                            ELSE ledger.through]
  /\ evidence' = [evidence EXCEPT !.open = FALSE]
  /\ UNCHANGED <<fetchVars, raws>>

Concluded == ~evidence.open /\ Use /\ verdict' = "" /\ evidence' = NoAttempt
             /\ UNCHANGED <<raws, ledger, through>>

(* An attempt cut short stays open in the ledger.                          *)
CutShort == Cut /\ verdict' = "" /\ evidence' = NoAttempt /\ UNCHANGED <<raws, ledger, through>>

EvidenceNext ==
  \/ PostAppears /\ Ignored
  \/ Attempt \/ ReadObserved \/ StallObserved
  \/ PageFails /\ Ignored
  \/ CutShort \/ Conclude \/ Concluded
  \/ DegradedPass /\ Ignored

ReadingStep == Attempt \/ ReadObserved \/ Conclude \/ Concluded

EvidenceFairness == WF_evidenceVars(ReadingStep)

EvidenceSpec == EvidenceInit /\ [][EvidenceNext]_evidenceVars /\ EvidenceFairness

----------------------------------------------------------------------------
(* Properties.                                                             *)

(* The engine never vouches for what was not read: a run it calls complete  *)
(* has every post of the window asked for, old posts out of order and      *)
(* odd responses notwithstanding, and every post between its first proof    *)
(* and its cursor is in the raw store.                                     *)
EvidenceIsProof ==
  /\ verdict = "complete" => Published(fetch.start, fetch.end) \subseteq fetch.found
  /\ Published(through.from, through.to) \subseteq raws

(* The ledger's complete is the same promise.                              *)
LedgerIsProof ==
  (ledger.status = "complete" /\ fetch.phase = "complete") =>
    Published(fetch.start, fetch.end) \subseteq fetch.found
=============================================================================
