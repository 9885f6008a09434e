-------------------------- MODULE FanficSummaries --------------------------
(***************************************************************************)
(* Persian summaries for the works of a digest list.  Works are sent to    *)
(* Gemini in batches, to one model after the other.  An answer may cover   *)
(* some of a batch, or none, when one of its works makes the model refuse  *)
(* the prompt; what is missing is asked again, and a batch that no model   *)
(* answers is halved, so that one work does not cost the others theirs.    *)
(* Requests are bounded; what stays untranslated gets a plain summary.     *)
(***************************************************************************)
EXTENDS Integers, Sequences, FiniteSets, Ranking

CONSTANTS
  Works,         \* how many works the list has
  BatchSize,     \* works in one request
  Models,        \* the models, the preferred one first
  Refuses,       \* Refuses[m]: works that make model m refuse a prompt
  Spare,         \* requests beyond one for each batch
  GeminiFaults   \* bound on errors and on answers that fail the quality gate

ASSUME SummariesAssumption ==
  /\ Works \in Nat \ {0} /\ BatchSize \in Nat \ {0} /\ Spare \in Nat
  /\ Models \in Seq(STRING) /\ Models # <<>> /\ GeminiFaults \in Nat
  /\ \A n \in DOMAIN Models : Refuses[Models[n]] \subseteq 1 .. Works

VARIABLES
  agenda,      \* subsets still to be translated, in order
  asking,      \* the subset in hand and the models not yet asked for it
  calls,       \* request_state["calls"]
  unavailable, \* unavailable_models
  translated,  \* works that have a translation
  halted,      \* an error that concerns all requests ended the work
  alone,       \* history: works that were asked for alone in vain
  errors       \* errors so far

summaryVars == <<agenda, asking, calls, unavailable, translated, halted, alone, errors>>

Batches == (Works + BatchSize - 1) \div BatchSize
max_calls == Batches + Spare
NotAsking == [subset |-> {}, models |-> <<>>, candidates |-> 0, quotas |-> 0, again |-> FALSE]

SummaryTypes ==
  /\ \A n \in DOMAIN agenda : agenda[n] \subseteq 1 .. Works
  /\ asking.subset \subseteq 1 .. Works /\ Len(asking.models) <= Len(Models)
  /\ calls \in 0 .. max_calls /\ unavailable \subseteq {Models[n] : n \in DOMAIN Models}
  /\ translated \cup alone \subseteq 1 .. Works /\ errors \in 0 .. GeminiFaults

SummaryInit ==
  /\ agenda = [b \in 1 .. Batches |->
                {w \in 1 .. Works : (w - 1) \div BatchSize = b - 1}]
  /\ asking = NotAsking /\ calls = 0 /\ unavailable = {} /\ translated = {}
  /\ halted = FALSE /\ alone = {} /\ errors = 0

Erring == errors < GeminiFaults /\ errors' = errors + 1

----------------------------------------------------------------------------
active_candidates == Chosen(Models, {n \in DOMAIN Models : Models[n] \notin unavailable})

(* Without requests left a subset is given up before it is asked for.       *)
translate_subset ==
  /\ asking = NotAsking /\ agenda # <<>> /\ agenda' = Tail(agenda)
  /\ asking' = IF calls >= max_calls THEN NotAsking
               ELSE [NotAsking EXCEPT !.subset = Head(agenda), !.models = active_candidates,
                                       !.candidates = Len(active_candidates)]
  /\ UNCHANGED <<calls, unavailable, translated, halted, alone, errors>>

Model == Head(asking.models)
pace_request == calls < max_calls /\ calls' = calls + 1
NextModel == asking' = [asking EXCEPT !.models = Tail(@), !.again = FALSE]
InHand == asking.subset # {} /\ asking.models # <<>>

(* Mutant: an answer ends its subset, whatever it covers.                   *)
NothingMissing(result) == UNCHANGED agenda

(* What an answer does not cover is asked for next.                         *)
AskMissing(result) ==
  IF asking.subset = result THEN UNCHANGED agenda
  ELSE agenda' = <<asking.subset \ result>> \o agenda

(* An answer with some of the works; the quality gate may reject others.    *)
AnswerTo ==
  /\ InHand /\ pace_request /\ asking.subset \cap Refuses[Model] = {}
  /\ \E result \in SUBSET asking.subset \ {{}} :
       /\ IF result = asking.subset THEN UNCHANGED errors ELSE Erring
       /\ translated' = translated \cup result
       /\ AskMissing(result)
  /\ asking' = NotAsking /\ UNCHANGED <<unavailable, halted, alone>>

(* An answer without any: blocked, or all of it rejected.                   *)
EmptyAnswer ==
  /\ InHand /\ pace_request /\ NextModel
  /\ IF asking.subset \cap Refuses[Model] # {} THEN UNCHANGED errors ELSE Erring
  /\ UNCHANGED <<agenda, unavailable, translated, halted, alone>>

(* A model that is down for a moment is asked once more.                    *)
Unavailable ==
  /\ InHand /\ pace_request /\ Erring
  /\ IF asking.again THEN NextModel ELSE asking' = [asking EXCEPT !.again = TRUE]
  /\ UNCHANGED <<agenda, unavailable, translated, halted, alone>>

(* A model without quota is not asked again for this list.                  *)
QuotaError ==
  /\ InHand /\ pace_request /\ Erring
  /\ unavailable' = unavailable \cup {Model}
  /\ asking' = [asking EXCEPT !.models = Tail(@), !.again = FALSE, !.quotas = @ + 1]
  /\ UNCHANGED <<agenda, translated, halted, alone>>

Halt == halted' = TRUE /\ asking' = NotAsking /\ agenda' = <<>>

(* The key is refused or the network is down.                               *)
SharedError ==
  /\ InHand /\ pace_request /\ Erring /\ Halt
  /\ UNCHANGED <<unavailable, translated, alone>>

(* Without requests left the other models are passed over.                  *)
OutOfRequests ==
  /\ InHand /\ calls >= max_calls /\ asking' = NotAsking
  /\ UNCHANGED <<agenda, calls, unavailable, translated, halted, alone, errors>>

(* The first half of a subset, by the order of the list.                    *)
Middle(S) == CHOOSE L \in SUBSET S :
  /\ Cardinality(L) = Cardinality(S) \div 2
  /\ \A v \in L, w \in S \ L : v < w

(* No model answered: all of them without quota, or the subset is halved.   *)
NoAnswer ==
  /\ asking.subset # {} /\ asking.models = <<>>
  /\ LET S == asking.subset
         allOut == asking.quotas > 0 /\ asking.quotas = asking.candidates
     IN
     IF allOut THEN Halt /\ UNCHANGED alone
     ELSE /\ asking' = NotAsking /\ UNCHANGED halted
          /\ IF Cardinality(S) > 1 /\ calls < max_calls
             THEN agenda' = <<Middle(S), S \ Middle(S)>> \o agenda /\ UNCHANGED alone
             ELSE UNCHANGED agenda /\ alone' = IF Cardinality(S) = 1 THEN alone \cup S ELSE alone
  /\ UNCHANGED <<calls, unavailable, translated, errors>>

SummaryNext ==
  \/ translate_subset \/ AnswerTo \/ EmptyAnswer \/ Unavailable \/ QuotaError
  \/ SharedError \/ OutOfRequests \/ NoAnswer

SummarySpec == SummaryInit /\ [][SummaryNext]_summaryVars

----------------------------------------------------------------------------
(* Properties.                                                              *)

(* Whatever the models refuse, answer in part or fail at: when the work is  *)
(* over with requests to spare and no error that concerns all of them, a    *)
(* work without a translation was asked for alone, of every model that had  *)
(* quota, in vain.                                                          *)
RefusedWorksAreIsolated ==
  agenda = <<>> /\ asking = NotAsking /\ calls < max_calls =>
    \/ halted
    \/ 1 .. Works = translated \cup alone
=============================================================================
