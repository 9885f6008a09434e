----------------------------- MODULE SegmentText -----------------------------
(***************************************************************************)
(* The text of one moment that several posts tell.  With every delivery    *)
(* the Persian texts of the segment's posts are fused into a factual text, *)
(* a text in the channel's style is tried on it, and a package refers to   *)
(* the text that would be preferred.  A text is the posts it takes its     *)
(* lines from; which texts are faithful, which disagree and which say the  *)
(* same is given.                                                          *)
(***************************************************************************)
EXTENDS Ranking

CONSTANTS
  Voices,       \* posts of the moment, numbered by the time they were published
  Kind,         \* Kind[u]: what the text of a post is
  Stories,      \* what the Persian texts of the posts may be, see story
  Ways,         \* how the matching may relate a post to the segment it joins
  Disagree,     \* pairs that name other speakers, or of which one denies
  OtherNumbers, \* pairs that give other numbers or dates
  Strained,     \* posts the timeline matches with a reservation
  SameSaying,   \* pairs whose Persian texts say the same
  PartsOf,      \* PartsOf[u]: messages the caption of a post's draft takes, never empty
  Brief,        \* posts whose caption fits under media
  Pictured,     \* posts with media
  Tellings      \* bound on deliveries

ASSUME SegmentAssumption ==
  /\ Voices \subseteq Nat /\ IsFiniteSet(Voices)
  /\ Stories \subseteq [Voices -> {"faithful", "unfaithful", "none"}]
  /\ Ways \subseteq {"same_moment", "complementary", "continuation", "conflicting"}
  /\ Disagree \cup OtherNumbers \cup SameSaying \subseteq {{u, v} : u, v \in Voices}
  /\ Strained \subseteq Voices
  /\ PartsOf \in [Voices -> Nat \ {0}] /\ \A u \in Brief : PartsOf[u] = 1
  /\ Pictured \subseteq Voices /\ Tellings \in Nat

VARIABLES
  story,      \* story[u]: the Persian text of a post is faithful, is not, or there is none
  related,    \* related[u]: how a post belongs to the segment
  keptRelated,\* ... in state.json
  facts,      \* translation_fusion_results of the segment
  style,      \* style_rewrite_results of the segment
  drafts,     \* posts with a draft
  package,    \* the package planned last, until another delivery begins
  telling,    \* the delivery in progress
  beneath,    \* the delivery it interrupts
  tellings    \* deliveries begun

joined == <<story, related, keptRelated>>
wordings == <<facts, style>>
held == <<drafts, package>>
visits == <<telling, beneath, tellings>>
segmentVars == <<joined, wordings, held, visits>>

Outside == "none"
NoTelling == [step |-> "idle", posts |-> {}, heard |-> {}]
NoFacts == [status |-> "untold", lines |-> <<>>, open |-> FALSE, of |-> 0]
NoStyle == [facts |-> <<>>, accepted |-> FALSE, of |-> 0]
NoPackage == [posts |-> {}, drafts |-> <<>>, text |-> "draft", ready |-> "unplanned", facts |-> NoFacts, style |-> NoStyle]

SegmentInit ==
  /\ story \in Stories /\ related = [u \in Voices |-> Outside] /\ keptRelated = related
  /\ facts = NoFacts /\ style = NoStyle
  /\ drafts = {} /\ package = NoPackage
  /\ telling = NoTelling /\ beneath = NoTelling /\ tellings = 0

Members == {u \in Voices : related[u] # "none"}
-----------------------------------------------------------------------------
(* Which evidence is best, and what may stand beside it.                   *)

BLOCKED_RELATIONSHIPS == {"ambiguous", "separate"}
NON_ADDITIVE_RELATIONSHIPS == {"same_moment", "seed"}
AUTO_FUSIBLE_RELATIONSHIPS == {"complementary", "continuation"}

(* What the gates find wrong with a text is given.                         *)
Faithful(u) == story[u] = "faithful"

(* The score of the kind of text with the strength it gives.               *)
Worth == [direct |-> 595, persian |-> 560, original |-> 538, mixed |-> 502, fan |-> 466,
          summary |-> 318, unknown |-> 195]

RelationWorth == [seed |-> 60, same_moment |-> 80, complementary |-> 35, continuation |-> 25,
                  conflicting |-> -100, ambiguous |-> -700, separate |-> -1000]

evidence_score(u) ==
  Worth[Kind[u]] + RelationWorth[related[u]]
    + (IF story[u] = "none" THEN 0 ELSE IF Faithful(u) THEN 100 ELSE -240)

Backbone(heard) ==
  LET fit == {u \in heard : related[u] \notin BLOCKED_RELATIONSHIPS}
  IN CHOOSE u \in fit : \A v \in fit \ {u} :
       \/ evidence_score(u) > evidence_score(v)
       \/ (evidence_score(u) = evidence_score(v) /\ u > v)

(* The timeline itself noted a conflict when it matched the post.          *)
Strains(u) == related[u] = "conflicting" \/ (u \in Strained /\ related[u] # "seed")

_pair_conflicts(u, v) ==
  LET ways == {related[u], related[v]}
  IN \/ Strains(u) \/ Strains(v)
     \/ /\ {u, v} \in OtherNumbers
        /\ ways \cap {"same_moment", "conflicting", "seed"} # {}
     \/ {u, v} \in Disagree

_is_redundant(lines, u) == \E i \in DOMAIN lines : {u, lines[i]} \in SameSaying

(* Mutant: what has no faithful Persian text is left out without a word.   *)
ConsiderQuietly(b, acc, u) ==
  IF related[u] \in BLOCKED_RELATIONSHIPS THEN [acc EXCEPT !.withheld = @ \cup {u}]
  ELSE IF _pair_conflicts(b, u) THEN [acc EXCEPT !.conflicts = @ \cup {u}]
  ELSE IF related[u] \in NON_ADDITIVE_RELATIONSHIPS \/ ~Faithful(u) \/ _is_redundant(acc.lines, u) THEN acc
  ELSE [acc EXCEPT !.lines = Append(@, u)]

(* One more piece of evidence beside the backbone b.                       *)
Consider(b, acc, u) ==
  IF related[u] \in BLOCKED_RELATIONSHIPS THEN [acc EXCEPT !.withheld = @ \cup {u}]
  ELSE IF _pair_conflicts(b, u) THEN [acc EXCEPT !.conflicts = @ \cup {u}]
  ELSE IF related[u] \in NON_ADDITIVE_RELATIONSHIPS THEN acc
  ELSE IF related[u] \notin AUTO_FUSIBLE_RELATIONSHIPS \/ story[u] = "none"
  THEN [acc EXCEPT !.withheld = @ \cup {u}]
  ELSE IF ~Faithful(u) THEN [acc EXCEPT !.withheld = @ \cup {u}, !.unresolved = TRUE]
  ELSE IF _is_redundant(acc.lines, u) THEN acc
  ELSE [acc EXCEPT !.lines = Append(@, u)]

(* The backbone's text, then what the others add to it.                    *)
fuse_evidence_items(heard) ==
  LET b == Backbone(heard)
      others == InOrder(heard \ {b})
      start == [lines |-> IF Faithful(b) THEN <<b>> ELSE <<>>, conflicts |-> {}, withheld |-> {},
                unresolved |-> FALSE]
      weighed[n \in 0 .. Len(others)] ==
        IF n = 0 THEN start ELSE Consider(b, weighed[n - 1], others[n])
      all == weighed[Len(others)]
      disputed == all.unresolved \/ all.conflicts # {}
  IN [status |-> IF disputed THEN "needs_review"
                 ELSE IF all.lines = <<>> THEN "needs_translation"
                 ELSE IF all.withheld # {} \/ ~Faithful(b) THEN "needs_review"
                 ELSE "faithful_shadow_candidate",
      lines |-> all.lines, open |-> disputed, of |-> tellings]
-----------------------------------------------------------------------------
(* What the namespace is read with: texts of a segment that is gone go,    *)
(* and the first process to read it keeps none of them, their sanitizers   *)
(* not being installed before its first delivery.                          *)
SaneText(row, none) == IF Members = {} THEN none ELSE row

(* Posts are told: those new to the segment join it, the first one as its  *)
(* seed.  An event of a single post has no segment.  Texts of earlier      *)
(* posts may be out of the archive.                                        *)
Joins(u, posts) ==
  IF u \in Members \/ u \notin posts THEN {related[u]}
  ELSE IF Members = {} /\ u = Earliest(posts) THEN {"seed"}
  ELSE Ways

BeginTelling(posts, forgotten) ==
  /\ telling.step \in {"idle", "send"} /\ beneath.step = "idle"
  /\ Members # {} \/ Cardinality(posts) > 1
  /\ tellings < Tellings /\ tellings' = tellings + 1
  /\ beneath' = telling
  /\ related' \in {r \in [Voices -> Ways \cup {"seed", Outside}] : \A u \in Voices : r[u] \in Joins(u, posts)}
  /\ telling' = [step |-> "fuse", posts |-> posts, heard |-> posts \cup (Members \ forgotten)]
  /\ facts' = SaneText(facts, NoFacts) /\ style' = SaneText(style, NoStyle) /\ package' = NoPackage
  /\ UNCHANGED <<story, keptRelated, drafts>>

shadow_fuse_translations ==
  /\ telling.step = "fuse" /\ telling' = [telling EXCEPT !.step = "style"]
  /\ facts' = fuse_evidence_items(telling.heard)
  /\ UNCHANGED <<joined, style, held, beneath, tellings>>

(* Without a rule there must be a profile with enough examples, examples   *)
(* of the form, and a likeness to them.  A text whose facts are not locked *)
(* is never accepted, nor one that reads badly and is unlike the channel   *)
(* or dressed by a rule.                                                   *)
rewrite_shadow_candidate(applied, exemplified, locked, natural, alike) ==
  /\ applied \/ exemplified
  /\ locked /\ (applied \/ alike) /\ (natural \/ (alike /\ ~applied))

FactsReady(f) == f.lines # <<>> /\ f.status = "faithful_shadow_candidate"

shadow_style_rewrite ==
  /\ telling.step = "style" /\ telling' = [telling EXCEPT !.step = "send"]
  /\ \E applied, exemplified, locked, natural, alike \in BOOLEAN :
       LET accepted == FactsReady(facts) /\ rewrite_shadow_candidate(applied, exemplified, locked, natural, alike)
       IN style' = [facts |-> facts.lines, accepted |-> accepted, of |-> tellings]
  /\ UNCHANGED <<joined, facts, held, beneath, tellings>>

(* An exception of either is caught.  The two read the same evidence: what *)
(* fails the first fails the second.                                       *)
AnalysisFails ==
  /\ telling.step \in {"fuse", "style"} /\ telling' = [telling EXCEPT !.step = "send"]
  /\ UNCHANGED <<joined, wordings, held, beneath, tellings>>
-----------------------------------------------------------------------------
(* The delivery drafts the posts, and saves the state as it goes.          *)
SendDrafts ==
  /\ telling.step = "send" /\ telling.posts \ drafts # {}
  /\ drafts' = drafts \cup {Earliest(telling.posts \ drafts)}
  /\ keptRelated' = related
  /\ UNCHANGED <<story, related, wordings, package, visits>>

LeaveTelling == telling' = beneath /\ beneath' = NoTelling

SendFails ==
  /\ telling.step = "send" /\ LeaveTelling
  /\ UNCHANGED <<joined, wordings, held, tellings>>
-----------------------------------------------------------------------------
(* The package of posts p with their texts f and s.                        *)

(* What is preferred to the drafts, some of them with a confirmed final    *)
(* edit.                                                                   *)
_text_authority(edited, s) ==
  IF edited # {} THEN "confirmed_final_edit"
  ELSE IF s.accepted THEN "style_candidate"
  ELSE IF s.facts # <<>> THEN "faithful_factual"
  ELSE "draft"

(* Mutant: only conflicts keep a text back.                                *)
BlockedByConflict(f) == f.open

Blocked(f) == f.open \/ f.status \notin {"untold", "faithful_shadow_candidate"}

(* Retrieval and media can only add warnings, which are left out.          *)
_readiness(ds, text, f, p) ==
  IF Blocked(f) THEN "BLOCKED"
  ELSE IF ds = <<>> /\ text = "draft" /\ p \cap Pictured = {} THEN "NEEDS_REVIEW"
  ELSE IF \E i \in DOMAIN ds : PartsOf[ds[i]] > 1 THEN "READY_WITH_WARNINGS"
  ELSE "READY_TO_PRESENT"

_text_plan(p, edited, f, s) ==
  LET ds == InOrder(p \cap drafts)
      text == _text_authority(edited, s)
      refers == text \in {"style_candidate", "faithful_factual"}
  IN [posts |-> p, drafts |-> ds, text |-> text, ready |-> _readiness(ds, text, f, p),
      facts |-> IF refers THEN f ELSE NoFacts, style |-> IF refers THEN s ELSE NoStyle]

(* After the delivery: the posts that are in the segment make a package    *)
(* with its texts, another post makes one of its own.                      *)
PlanPackage ==
  /\ telling.step = "send" /\ LeaveTelling
  /\ \E edited \in SUBSET (drafts \cap telling.posts) :
       \/ /\ telling.posts \cap Members # {}
          /\ package' = _text_plan(telling.posts \cap Members, edited \cap Members, facts, style)
       \/ \E u \in telling.posts \ Members : package' = _text_plan({u}, edited \cap {u}, NoFacts, NoStyle)
  /\ UNCHANGED <<joined, wordings, drafts, tellings>>

(* Newer segments push this one out when the state is saved.               *)
SegmentPruned ==
  /\ telling.step \in {"idle", "send"} /\ Members # {}
  /\ related' = [u \in Voices |-> Outside] /\ keptRelated' = related'
  /\ UNCHANGED <<story, wordings, held, visits>>

(* The process ends; what a later one reads has none of the texts.         *)
ProcessEnds ==
  /\ related' = keptRelated /\ facts' = NoFacts /\ style' = NoStyle
  /\ telling' = NoTelling /\ beneath' = NoTelling
  /\ UNCHANGED <<story, keptRelated, held, tellings>>

SegmentNext ==
  \/ \E posts \in {{u, v} : u, v \in Voices}, forgotten \in SUBSET Members : BeginTelling(posts, forgotten)
  \/ shadow_fuse_translations \/ shadow_style_rewrite \/ AnalysisFails
  \/ SendDrafts \/ SendFails \/ PlanPackage
  \/ SegmentPruned \/ ProcessEnds
-----------------------------------------------------------------------------
SegmentSpec == SegmentInit /\ [][SegmentNext]_segmentVars

SegmentTypes ==
  /\ DOMAIN related = Voices /\ drafts \subseteq Voices
  /\ telling.step \in {"idle", "fuse", "style", "send"} /\ beneath.step \in {"idle", "send"}

(* Lines that may stand together: each the faithful Persian text of another *)
(* post, none said twice, none against the first.                          *)
StandTogether(lines) ==
  /\ lines # <<>>
  /\ \A i, j \in DOMAIN lines :
       /\ Faithful(lines[i])
       /\ i # j => lines[i] # lines[j] /\ {lines[i], lines[j]} \notin SameSaying
       /\ i > 1 => {lines[1], lines[i]} \notin Disagree

(* A post is a line, says what a line says, or only repeats the moment.    *)
TakenIn(lines, u) ==
  \/ \E i \in DOMAIN lines : u = lines[i] \/ {u, lines[i]} \in SameSaying
  \/ related[u] \in NON_ADDITIVE_RELATIONSHIPS

(* A fused text called faithful is of lines that may stand together, and   *)
(* when it is told no post that was heard is dropped from it in silence.   *)
(* A text of the channel's style is accepted only over such lines, of the  *)
(* same delivery if the facts are.  A package offered for review that      *)
(* prefers a text refers to facts of such lines, and to an accepted style   *)
(* of such lines, be they of one delivery or of two                        *)
(* (src/app/translation_fusion.py:462).  All of it over deliveries inside  *)
(* deliveries, failures and restarts.                                      *)
TextsRestOnFacts ==
  /\ facts.status = "faithful_shadow_candidate" =>
       /\ StandTogether(facts.lines) /\ ~facts.open
       /\ telling.step = "style" => \A u \in telling.heard : TakenIn(facts.lines, u)
  /\ style.accepted =>
       /\ StandTogether(style.facts)
       /\ style.of = facts.of => facts.status = "faithful_shadow_candidate" /\ style.facts = facts.lines
  /\ package.ready # "BLOCKED" /\ package.text \in {"style_candidate", "faithful_factual"} =>
       /\ package.facts.status = "faithful_shadow_candidate" /\ StandTogether(package.facts.lines)
       /\ package.text = "style_candidate" => StandTogether(package.style.facts)
       /\ package.facts.of = package.style.of => package.style.facts = package.facts.lines

(* What docs/translation-fusion-foundation.md says: a complement is added  *)
(* only when no pair conflict is present, so no two lines of a faithful    *)
(* text contradict each other.  The code compares each with the backbone.  *)
ConflictsArePreserved ==
  facts.status = "faithful_shadow_candidate" =>
    \A i, j \in DOMAIN facts.lines : {facts.lines[i], facts.lines[j]} \notin Disagree
=============================================================================
