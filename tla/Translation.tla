---------------------------- MODULE Translation ----------------------------
(***************************************************************************)
(* Captions for groups of posts.  Gemini, or a local model, is asked for   *)
(* a translation of the whole group; what fails the checks goes back once  *)
(* for repair, and whatever is still wrong, or could not be had at all, is *)
(* shown as a text marked for manual review.  Models that fail are left   *)
(* out for a while or for good, a circuit stops all requests, and on the   *)
(* webhook host the key itself is only lent for some time.  What a text    *)
(* says is left out: it passes the checks or it does not.                  *)
(***************************************************************************)
EXTENDS Integers, Sequences, FiniteSets, Functions

CONSTANTS
  Captioned,     \* posts
  MetadataOnly,  \* posts of media or hashtags alone
  Persian,       \* posts that need no translation
  ModelOrder,    \* the models, the preferred one first
  Keys,          \* keys that may be lent
  CooldownTicks, \* ticks a model rests after a server error
  LeaseTicks,    \* ticks a key is lent for
  GroupSize      \* bound on the posts of a group

(* The empty string, where there is no circuit, key or purpose.            *)
EmptyString == ""

ASSUME TranslationAssumption ==
  /\ MetadataOnly \subseteq Captioned /\ Persian \subseteq Captioned \ MetadataOnly
  /\ ModelOrder \in Seq(STRING) /\ ModelOrder # <<>> /\ EmptyString \notin Keys
  /\ CooldownTicks \in Nat \ {0} /\ LeaseTicks \in Nat \ {0} /\ GroupSize \in Nat \ {0}

VARIABLES
  provider,  \* _translation_provider_name
  gemini,    \* what the writer remembers of the models
  api_key,   \* the key in use, EmptyString if there is none
  lent,     \* ticks left of the lease
  writing,   \* the group being written
  handed     \* the last group's texts as they were handed on

translationVars == <<provider, gemini, api_key, lent, writing, handed>>

AllModels == Range(ModelOrder)
Never == -1
FreshWriter == [unavailable |-> {}, transient |-> {}, retryAfter |-> Never, circuit |-> EmptyString]
NotWriting == [stage |-> "idle", group |-> {}, purpose |-> EmptyString, direct |-> <<>>]

(* A text: the label of a post without one, the source itself or preserved *)
(* under the outage warning, a translation that passes the checks or not,  *)
(* and whether it stands under the heading of a manual review.             *)
Body == {"label", "source", "preserved", "good", "bad"}
Text(body) == [body |-> body, marked |-> body = "preserved"]
Groups == {g \in SUBSET Captioned : g # {} /\ Cardinality(g) <= GroupSize}
Purposes == {"scheduled", "request", "rewrite"}

TranslationTypes ==
  /\ provider \in {"gemini", "ollama"}
  /\ gemini.unavailable \subseteq AllModels /\ gemini.transient \subseteq AllModels
  /\ gemini.retryAfter \in Never .. CooldownTicks
  /\ gemini.circuit \in {EmptyString, "quota", "authentication", "provider_unavailable", "models_unavailable"}
  /\ api_key \in Keys \cup {EmptyString} /\ lent \in 0 .. LeaseTicks
  /\ writing.stage \in {"idle", "direct", "source_only", "repair"}
  /\ writing.group \in Groups \cup {{}} /\ writing.purpose \in Purposes \cup {EmptyString}
  /\ DOMAIN handed \subseteq Captioned
  /\ \A t \in DOMAIN handed : handed[t] \in [body : Body, marked : BOOLEAN]

TranslationInit ==
  /\ provider \in {"gemini", "ollama"} /\ gemini = FreshWriter
  /\ api_key = EmptyString /\ lent = 0 /\ writing = NotWriting /\ handed = <<>>

-----------------------------------------------------------------------------
(* Requests to the models.                                                 *)

(* Mutant: the circuit survives the cooldown.                              *)
LeavesCircuitOpen(g) ==
  IF g.retryAfter = 0 THEN [g EXCEPT !.transient = {}, !.retryAfter = Never] ELSE g

reset_expired_provider_cooldown(g) ==
  IF g.retryAfter = 0
  THEN [g EXCEPT !.transient = {}, !.retryAfter = Never,
                 !.circuit = IF @ = "provider_unavailable" THEN EmptyString ELSE @]
  ELSE g

(* How a model may answer, a server error being repeated once before it    *)
(* counts.                                                                 *)
Answers == {"usable", "unusable", "blocked", "server", "quota", "gone", "authentication", "other"}

(* The circuit that is opened by the failure that leaves no model.         *)
CircuitOf == [server |-> "provider_unavailable", quota |-> "quota", gone |-> "models_unavailable"]

AskedOne(t, m, answer) ==
  LET unavailable == t.g.unavailable \cup (IF answer \in {"quota", "gone"} THEN {m} ELSE {})
      transient == t.g.transient \cup (IF answer = "server" THEN {m} ELSE {})
      last == answer \in DOMAIN CircuitOf /\ AllModels \subseteq unavailable \cup transient
  IN [g |-> [unavailable |-> unavailable, transient |-> transient,
             retryAfter |-> IF answer = "server" THEN CooldownTicks ELSE t.g.retryAfter,
             circuit |-> IF answer = "authentication" THEN answer
                         ELSE IF last THEN CircuitOf[answer] ELSE t.g.circuit],
      parsed |-> answer = "usable",
      blocked |-> t.blocked \/ answer = "blocked",
      over |-> last \/ answer \in {"usable", "authentication", "other"}]

Unasked(g) == [g |-> g, parsed |-> FALSE, blocked |-> FALSE, over |-> FALSE]

(* The models that are not left out, in their order, up to the answer that *)
(* ends the request.                                                       *)
AskedAll(g, answers) ==
  LET asked[n \in 0 .. Len(ModelOrder)] ==
        IF n = 0 THEN Unasked(g)
        ELSE LET t == asked[n - 1]
                 m == ModelOrder[n]
             IN IF t.over \/ m \in g.unavailable \cup g.transient THEN t ELSE AskedOne(t, m, answers[m])
  IN asked[Len(ModelOrder)]

(* All that becomes of one request.                                        *)
generate_json_v2(before, answers) ==
  LET g == reset_expired_provider_cooldown(before)
  IN IF g.circuit # EmptyString THEN Unasked(g)
     ELSE IF AllModels \subseteq g.unavailable \cup g.transient
     THEN Unasked([g EXCEPT !.circuit = IF g.transient # {} THEN "provider_unavailable" ELSE "quota"])
     ELSE AskedAll(g, answers)

(* The local model is asked once more after a failure, and nothing of it   *)
(* is remembered.                                                          *)
generate_json_local(g, usable) == [g |-> g, parsed |-> usable, blocked |-> FALSE, over |-> TRUE]

Generated ==
  IF provider = "gemini"
  THEN {generate_json_v2(gemini, answers) : answers \in [AllModels -> Answers]}
  ELSE {generate_json_local(gemini, usable) : usable \in BOOLEAN}

(* The items of an answer: the bodies under the ids of posts, and items    *)
(* under an id that is no post's.                                          *)
AnsweredItems(group) == [bodies : UNION {[s -> {"good", "bad"}] : s \in SUBSET group}, stray : SUBSET {"good", "bad"}]

(* Every id must be answered; with one id only, the one item is taken for  *)
(* it whatever it is called.                                               *)
_parse_v2_bodies(items, expected) ==
  LET given == {items.bodies[t] : t \in DOMAIN items.bodies} \cup items.stray
  IN IF expected \subseteq DOMAIN items.bodies THEN items.bodies
     ELSE IF Cardinality(expected) = 1 /\ Cardinality(DOMAIN items.bodies) + Cardinality(items.stray) = 1
     THEN [t \in expected |-> CHOOSE body \in given : TRUE]
     ELSE <<>>

-----------------------------------------------------------------------------
(* Writing a group.                                                        *)

Passes(t, body) == t \in MetadataOnly \/ body = "good" \/ (body = "source" /\ t \in Persian)

(* The last gate: what is no translation or fails the checks is marked.    *)
_finalize_output(group, bodies) ==
  [t \in group |->
     IF t \in MetadataOnly THEN Text("label")
     ELSE IF bodies[t] = "preserved" THEN Text("preserved")
     ELSE [body |-> bodies[t], marked |-> ~Passes(t, bodies[t])]]

(* The texts are handed on; a request waits for those that need a review.  *)
Hand(group, purpose, direct, bodies) ==
  LET texts == _finalize_output(group, bodies)
  IN /\ handed' = Restrict(texts, {t \in group : ~(purpose = "request" /\ texts[t].marked)})
     /\ writing' = [NotWriting EXCEPT !.direct = direct]

unavailable_translation(group) == [t \in group |-> "preserved"]

_client_or_none(g) == provider = "ollama" \/ (g.circuit = EmptyString /\ api_key # EmptyString)

translation_ready == provider = "ollama" \/ (api_key # EmptyString /\ lent > 0)

MayWrite(group, purpose) ==
  /\ writing.stage = "idle"
  /\ purpose = "scheduled" => translation_ready
  /\ purpose = "rewrite" => Cardinality(group) = 1

(* A group that needs no model, has none, or is sent to one.               *)
_installed_write_group(group, purpose) ==
  LET g == IF provider = "gemini" THEN reset_expired_provider_cooldown(gemini) ELSE gemini
      foreign == group \ (MetadataOnly \cup Persian)
  IN /\ MayWrite(group, purpose)
     /\ \/ /\ foreign = {}
           /\ Hand(group, purpose, <<>>, [t \in group |-> "source"])
           /\ UNCHANGED gemini
        \/ /\ foreign # {} /\ ~_client_or_none(g)
           /\ Hand(group, purpose, <<>>, unavailable_translation(group))
           /\ gemini' = g
        \/ /\ foreign # {} /\ _client_or_none(g)
           /\ writing' = [stage |-> "direct", group |-> group, purpose |-> purpose, direct |-> <<>>]
           /\ gemini' = g /\ handed' = <<>>
     /\ UNCHANGED <<provider, api_key, lent>>

(* The analysis of the source or the choice of examples failed: the older  *)
(* pipeline translates, or leaves the source as it is.                     *)
write_group_v1(group, purpose) ==
  /\ MayWrite(group, purpose) /\ ~(group \subseteq MetadataOnly)
  /\ \E bodies \in [group -> {"source", "good", "bad"}] : Hand(group, purpose, <<>>, bodies)
  /\ UNCHANGED <<provider, gemini, api_key, lent>>

NothingUsable == [bodies |-> <<>>, stray |-> {}]

(* The whole group in one request, and once more with the bare sources     *)
(* when a model refused the prompt.                                        *)
_direct_group ==
  /\ writing.stage \in {"direct", "source_only"}
  /\ \E r \in Generated : \E items \in IF r.parsed THEN AnsweredItems(writing.group) ELSE {NothingUsable} :
       LET parsed == _parse_v2_bodies(items, writing.group)
           direct == Restrict(parsed, writing.group)
           failed == {t \in writing.group : ~Passes(t, direct[t])}
       IN /\ gemini' = r.g
          /\ \/ /\ ~r.parsed /\ r.blocked /\ writing.stage = "direct"
                /\ writing' = [writing EXCEPT !.stage = "source_only"] /\ UNCHANGED handed
             \/ /\ ~r.parsed => ~(r.blocked /\ writing.stage = "direct")
                /\ parsed = <<>> /\ Hand(writing.group, writing.purpose, <<>>, unavailable_translation(writing.group))
             \/ /\ parsed # <<>> /\ failed = {} /\ Hand(writing.group, writing.purpose, direct, direct)
             \/ /\ parsed # <<>> /\ failed # {}
                /\ writing' = [writing EXCEPT !.stage = "repair", !.direct = direct] /\ UNCHANGED handed
  /\ UNCHANGED <<provider, api_key, lent>>

(* Mutant: the repaired texts are checked, the others are not.             *)
OnlyTheFailed(bodies, failed) == {t \in failed : ~Passes(t, bodies[t])}

StillBad(bodies, failed) == {t \in DOMAIN bodies : ~Passes(t, bodies[t])}

(* The posts that failed go back once.  The answer counts only if the      *)
(* whole group passes with it; otherwise the first texts stay.             *)
_repair_failed_items ==
  /\ writing.stage = "repair"
  /\ \E r \in Generated : \E items \in IF r.parsed THEN AnsweredItems(writing.group) ELSE {NothingUsable} :
       LET failed == {t \in writing.group : ~Passes(t, writing.direct[t])}
           answered == _parse_v2_bodies(items, failed)
           repaired == [t \in writing.group |-> IF t \in DOMAIN answered THEN answered[t] ELSE writing.direct[t]]
           accepted == answered # <<>> /\ StillBad(repaired, failed) = {}
       IN /\ gemini' = r.g
          /\ Hand(writing.group, writing.purpose, writing.direct,
                  IF accepted THEN repaired ELSE writing.direct)
  /\ UNCHANGED <<provider, api_key, lent>>

-----------------------------------------------------------------------------
(* The key on the webhook host.                                            *)

NewKey(value) ==
  /\ api_key' = value
  /\ gemini' = IF value # api_key THEN [gemini EXCEPT !.circuit = EmptyString] ELSE gemini

install_gemini_credential_lease_sync(value) ==
  /\ writing.stage = "idle" /\ provider = "gemini"
  /\ NewKey(value) /\ lent' = LeaseTicks
  /\ UNCHANGED <<provider, writing, handed>>

_expire_gemini_credential_lease_if_needed ==
  /\ writing.stage = "idle" /\ api_key # EmptyString /\ lent = 0
  /\ NewKey(EmptyString)
  /\ UNCHANGED <<provider, lent, writing, handed>>

TranslationTick ==
  /\ lent > 0 \/ gemini.retryAfter > 0
  /\ lent' = IF lent > 0 THEN lent - 1 ELSE 0
  /\ gemini' = [gemini EXCEPT !.retryAfter = IF @ > 0 THEN @ - 1 ELSE @]
  /\ UNCHANGED <<provider, api_key, writing, handed>>

(* A deployment: the process keeps nothing.                                *)
HostRestarts ==
  /\ gemini' = FreshWriter /\ api_key' = EmptyString /\ lent' = 0 /\ writing' = NotWriting
  /\ UNCHANGED <<provider, handed>>

RequestStep == _direct_group \/ _repair_failed_items

TranslationNext ==
  \/ \E group \in Groups, purpose \in Purposes :
       _installed_write_group(group, purpose) \/ write_group_v1(group, purpose)
  \/ RequestStep
  \/ \E value \in Keys : install_gemini_credential_lease_sync(value)
  \/ _expire_gemini_credential_lease_if_needed
  \/ TranslationTick
  \/ HostRestarts

TranslationSpec == TranslationInit /\ [][TranslationNext]_translationVars

-----------------------------------------------------------------------------
(* Properties.                                                             *)

(* A text without the heading of a manual review is a label, was Persian   *)
(* before, or passed the checks; and one whose translation passed at once  *)
(* is never spoilt by the repair of another                                *)
(* (src/app/channel_translation_v2_install.py:219).                        *)
TextsAreVetted ==
  \A t \in DOMAIN handed :
    /\ handed[t].marked \/ Passes(t, handed[t].body)
    /\ writing.direct # <<>> /\ Passes(t, writing.direct[t]) => ~handed[t].marked

(* An outage of the provider ends for the writer too: the circuit it       *)
(* opened, by a failure or for want of a model, is never without the       *)
(* deadline that closes it                                                 *)
(* (src/docs/research/hani-delivery-recursion-2026-10-13.md:23).           *)
OutageHasEnd == gemini.circuit = "provider_unavailable" => gemini.retryAfter # Never

(* Once the models that were only resting may be asked again, no circuit   *)
(* of exhausted models keeps them out: stated of all but refused keys      *)
(* (src/app/gemini_structured.py:313).                                     *)
CooldownReopens ==
  gemini.transient = {} /\ gemini.circuit \in Range(CircuitOf) => AllModels \subseteq gemini.unavailable
=============================================================================
