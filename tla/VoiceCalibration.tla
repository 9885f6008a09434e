-------------------------- MODULE VoiceCalibration --------------------------
(***************************************************************************)
(* What confirmed final edits teach about the editor's voice.  An edit is  *)
(* classified against the facts and the text the bot would have written;   *)
(* only one of pure style is evidence, only repeated evidence that agrees  *)
(* is a signal, and signals move the weights by which examples of style    *)
(* are ranked.  A snapshot of the weights can be undone.  The bot          *)
(* classifies the edits; only its benchmark gathers, weighs and undoes.    *)
(*                                                                         *)
(* A text is what the classification says of it, a weight its sign.        *)
(***************************************************************************)
EXTENDS Integers, Sequences, FiniteSets

CONSTANTS
  FinalTexts,   \* edits the editor may confirm
  Traits,       \* features of style
  Patterns,     \* phrases that read like a machine's
  KnownTypes,   \* _KNOWN_CONTENT_TYPES
  MaxRecords,   \* MAX_CALIBRATION_RECORDS
  Confirms,     \* bound on confirmed edits
  Snapshots     \* bound on snapshots

(* Failures of the bot's text and of the editor's against the facts; what  *)
(* the edit changed: nothing, no word, under one word in twenty, one       *)
(* letter, or more; which features it moved and which phrases it removed.  *)
ASSUME VoiceAssumption ==
  /\ \A e \in FinalTexts :
       /\ e.draft \in {"faithful", "token", "hard"} /\ e.faithful \in BOOLEAN /\ e.conflict \in BOOLEAN
       /\ e.change \in {"none", "format", "slight", "typo", "wording"}
       /\ e.moved \in [Traits -> {-1, 0, 1}] /\ e.removed \subseteq Patterns
  /\ MaxRecords \in Nat \ {0} /\ {Confirms, Snapshots} \subseteq Nat

Everywhere == "*"
WeightKeys == ({"global"} \X {Everywhere} \X Traits) \cup ({"category"} \X KnownTypes \X Traits)
        \cup ({"ai_pattern"} \X {Everywhere} \X Patterns)

VARIABLES
  lessons,     \* the calibration records kept, the oldest first
  weights,     \* of the snapshot in force
  previous,    \* previous_weights of that snapshot
  taught,      \* history: all edits ever recorded
  snapshots

voiceVars == <<lessons, weights, previous, taught, snapshots>>

Weights == [WeightKeys -> {-1, 0, 1}]
NoWeights == [k \in WeightKeys |-> 0]

VoiceTypes ==
  /\ Len(lessons) <= MaxRecords /\ Len(taught) <= Confirms
  /\ \A n \in DOMAIN lessons : lessons[n] \in FinalTexts
  /\ {weights, previous} \subseteq Weights /\ snapshots \in 0 .. Snapshots

VoiceInit ==
  /\ lessons = <<>> /\ taught = <<>> /\ snapshots = 0
  /\ weights = NoWeights /\ previous = NoWeights

----------------------------------------------------------------------------
(* One edit.                                                               *)

(* An edit of an unfaithful text repairs it, unless the text only had      *)
(* words too many and the edit mended a typo or removed a machine's phrase. *)
_candidate_edit_is_factual_repair(e) ==
  \/ e.draft = "hard"
  \/ e.draft = "token" /\ e.change # "typo" /\ e.removed = {}

OfStyle(e) == e.faithful /\ ~_candidate_edit_is_factual_repair(e)

(* The labels that matter.                                                 *)
classify_edit(e) ==
  {label \in {"ambiguous", "factual_correction", "style_preference", "unclassified"} :
     CASE label = "ambiguous"          -> e.category \notin KnownTypes \/ e.conflict
       [] label = "factual_correction" -> ~OfStyle(e)
       [] label = "style_preference"   -> OfStyle(e) /\ e.change # "typo"
       [] OTHER                        -> e.change = "typo"}

(* Percent; the least of what holds.                                       *)
Confidence(e) ==
  IF "ambiguous" \in classify_edit(e) THEN 20
  ELSE IF "unclassified" \in classify_edit(e) THEN 35
  ELSE IF ~OfStyle(e) THEN 95
  ELSE IF e.change = "none" THEN 90
  ELSE IF e.change = "slight" THEN 55
  ELSE 100

(* Mutant: whatever leaves the facts right is a matter of style.           *)
FaithfulIsStyle(e) ==
  e.faithful /\ ~e.conflict /\ e.category \in KnownTypes /\ Confidence(e) >= 60

eligible_for_learning(e) ==
  /\ e.faithful /\ ~e.conflict /\ e.category \in KnownTypes
  /\ classify_edit(e) \cap {"factual_correction", "ambiguous", "unclassified"} = {}
  /\ Confidence(e) >= 60

----------------------------------------------------------------------------
(* Signals of the records with positions I, all of them eligible.          *)

Moving(I, f, d) == {n \in I : lessons[n].moved[f] = d}
Evidence(I, f) == Moving(I, f, 1) \cup Moving(I, f, -1)
OfType(I, c) == {n \in I : lessons[n].category = c}
TypesOf(I) == {lessons[n].category : n \in I}

(* The median's direction, if more than two thirds agree with it.          *)
Agree(I, f, d) ==
  100 * Cardinality(Moving(I, f, d)) >= 67 * Cardinality(Evidence(I, f))

GlobalSignal(I, f, d) ==
  /\ Cardinality(Evidence(I, f)) >= 3 /\ Cardinality(TypesOf(Evidence(I, f))) >= 2
  /\ Agree(I, f, d)

CategorySignal(I, c, f, d) == Cardinality(Evidence(OfType(I, c), f)) >= 3 /\ Agree(OfType(I, c), f, d)

PatternSignal(I, p) == Cardinality({n \in I : p \in lessons[n].removed}) >= 3

Signalled(I, k, d) ==
  CASE k[1] = "global"   -> GlobalSignal(I, k[3], d)
    [] k[1] = "category" -> CategorySignal(I, k[2], k[3], d)
    [] OTHER             -> d = -1 /\ PatternSignal(I, k[3])

----------------------------------------------------------------------------
(* The oldest record makes room.                                           *)
prune_voice_state(r) == IF Len(r) > MaxRecords THEN Tail(r) ELSE r

(* A final edit is confirmed.  It is recorded if the two texts it was made *)
(* from can be made again and have the fingerprints they had.              *)
RecordEdit ==
  /\ Len(taught) < Confirms
  /\ \E e \in FinalTexts :
       /\ taught' = Append(taught, e)
       /\ lessons' = prune_voice_state(Append(lessons, e))
  /\ UNCHANGED <<weights, previous, snapshots>>

Learnable(c) ==
  {n \in DOMAIN lessons : eligible_for_learning(lessons[n]) /\ (c # Everywhere => lessons[n].category = c)}

(* Of one content type or of all.  A weight without a signal stays.        *)
make_calibration_snapshot(c) ==
  /\ snapshots < Snapshots /\ snapshots' = snapshots + 1
  /\ weights' = [k \in WeightKeys |->
       IF \E d \in {-1, 1} : Signalled(Learnable(c), k, d)
       THEN CHOOSE d \in {-1, 1} : Signalled(Learnable(c), k, d)
       ELSE weights[k]]
  /\ previous' = weights
  /\ UNCHANGED <<lessons, taught>>

rollback_weights ==
  /\ weights # previous /\ weights' = previous
  /\ UNCHANGED <<lessons, previous, taught, snapshots>>

VoiceNext ==
  \/ RecordEdit
  \/ \E c \in KnownTypes \cup {Everywhere} : make_calibration_snapshot(c)
  \/ rollback_weights

VoiceSpec == VoiceInit /\ [][VoiceNext]_voiceVars

----------------------------------------------------------------------------
(* Properties.                                                             *)

(* An edit that says nothing about facts, whatever else it did.            *)
Harmless(e) ==
  /\ e.faithful /\ ~e.conflict /\ e.change # "typo" /\ e.category \in KnownTypes
  /\ e.draft # "hard" /\ (e.draft = "token" => e.removed # {})

Speaks(e, k, d) ==
  CASE k[1] = "global"   -> e.moved[k[3]] = d
    [] k[1] = "category" -> e.category = k[2] /\ e.moved[k[3]] = d
    [] OTHER             -> d = -1 /\ k[3] \in e.removed

(* No weight rests on less than three edits of pure style that say so, and *)
(* none for all content types on edits of one alone, a machine's phrases   *)
(* excepted; however many edits of other kinds, or to the contrary, came   *)
(* before, between or after, and whatever was forgotten or undone.         *)
WeightsAreEarned ==
  \A k \in WeightKeys :
    weights[k] # 0 =>
      LET voters == {n \in DOMAIN taught : Harmless(taught[n]) /\ Speaks(taught[n], k, weights[k])}
          heard == {n \in DOMAIN taught : Harmless(taught[n]) /\ k[1] = "global" /\ taught[n].moved[k[3]] # 0}
      IN /\ Cardinality(voters) >= 3
         /\ k[1] = "global" => Cardinality({taught[n].category : n \in heard}) >= 2
=============================================================================
