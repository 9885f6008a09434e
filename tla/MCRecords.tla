------------------------------ MODULE MCRecords ------------------------------
(***************************************************************************)
(* Small instances for TLC of what the bot writes and keeps on record: of  *)
(* posts, of the fan fiction digest and its summaries, of the captions and *)
(* the editor's own texts, and of the events posts belong to, beside the    *)
(* services.  They share no state, so one of them runs in each behaviour.  *)
(***************************************************************************)
EXTENDS MCServices, ScheduledScan, PostRecords, FanficDigest, FanficSummaries, FinalEdit, PackagePlans, Translation,
        MCSegmentText, EditorDesk, MCSourceRequests, MCRealtimeIngest, PublicFeeds, VoiceCalibration

books == <<scanVars, recordVars, ficVars, summaryVars, editVars, fusionVars, translationVars,
           segmentVars, deskVars, askVars, watchVars, feedVars, voiceVars>>
records == <<services, books>>

Only(m) ==
  /\ machine = m /\ UNCHANGED services
  /\ IF m = "scan"      THEN TRUE ELSE UNCHANGED scanVars
  /\ IF m = "posts"     THEN TRUE ELSE UNCHANGED recordVars
  /\ IF m = "digest"    THEN TRUE ELSE UNCHANGED ficVars
  /\ IF m = "summaries" THEN TRUE ELSE UNCHANGED summaryVars
  /\ IF m = "edits"     THEN TRUE ELSE UNCHANGED editVars
  /\ IF m = "fusion"    THEN TRUE ELSE UNCHANGED fusionVars
  /\ IF m = "captions"  THEN TRUE ELSE UNCHANGED translationVars
  /\ IF m = "segments"  THEN TRUE ELSE UNCHANGED segmentVars
  /\ IF m = "desk"      THEN TRUE ELSE UNCHANGED deskVars
  /\ IF m = "asks"      THEN TRUE ELSE UNCHANGED askVars
  /\ IF m = "watch"     THEN TRUE ELSE UNCHANGED watchVars
  /\ IF m = "feeds"     THEN TRUE ELSE UNCHANGED feedVars
  /\ IF m = "voice"     THEN TRUE ELSE UNCHANGED voiceVars

BooksInit ==
  /\ ServicesInit
  /\ ScanInit /\ RecordsInit /\ FicInit /\ SummaryInit /\ EditInit /\ FusionInit /\ TranslationInit
  /\ SegmentInit /\ DeskInit /\ AskInit /\ WatchInit /\ FeedInit /\ VoiceInit
  /\ machine # "captions" => provider = "gemini"
  /\ machine # "segments" => story = ToldWell
  /\ machine # "asks" => roster.narrow = {}
  /\ machine # "watch" => shadow_mode

BooksNext ==
  \/ ServicesNext /\ UNCHANGED books
  \/ Only("scan") /\ ScanNext
  \/ Only("posts") /\ RecordsNext
  \/ Only("digest") /\ FicNext
  \/ Only("summaries") /\ SummaryNext
  \/ Only("edits") /\ EditNext
  \/ Only("fusion") /\ FusionNext
  \/ Only("captions") /\ TranslationNext
  \/ Only("segments") /\ SegmentNext
  \/ Only("desk") /\ DeskNext
  \/ Only("asks") /\ AskNext
  \/ Only("watch") /\ WatchNext
  \/ Only("feeds") /\ FeedNext
  \/ Only("voice") /\ VoiceNext

BooksSpec == BooksInit /\ [][BooksNext]_records

(* Every variable of the machine that runs has its type.                   *)
BooksTypes ==
  CASE machine = "scan"      -> ScanTypes
    [] machine = "posts"     -> RecordsTypes
    [] machine = "digest"    -> FicTypes
    [] machine = "summaries" -> SummaryTypes
    [] machine = "edits"     -> EditTypes
    [] machine = "fusion"    -> FusionTypes
    [] machine = "captions"  -> TranslationTypes
    [] machine = "segments"  -> SegmentTypes
    [] machine = "desk"      -> DeskTypes
    [] machine = "asks"      -> AskTypes
    [] machine = "watch"     -> WatchTypes
    [] machine = "feeds"     -> FeedTypes
    [] machine = "voice"     -> VoiceTypes
    [] OTHER                 -> ServicesTypes

(* Sources are read whole: a resumed window has no gap between its segments, *)
(* the rotation of a degraded spell comes round to every source, and what    *)
(* the public feeds give, and whom they failed for, is accounted for.        *)
SourcesAreRead ==
  /\ machine = "fetch" => SegmentsAreWhole /\ NoSourceStarves
  /\ machine = "feeds" => FeedsAreHonest

(* Forward plans are whole: an event's plan shows every medium of its posts *)
(* once and in albums Telegram takes, a segment's plan holds each message   *)
(* of its drafts, and the buttons come last.                                *)
PlansAreWhole ==
  /\ machine = "fusion" => PlansCarryAll
  /\ machine = "segments" => PlansKeepDrafts

(* No text goes out unchecked and unmarked, and no outage of the models     *)
(* outlasts its cause.                                                      *)
CaptionsAreSafe == machine = "captions" => TextsAreVetted /\ OutageHasEnd

(* Final edits hold: one chain of them is in force for each draft, and      *)
(* what they teach rests on repeated edits of style.                        *)
FinalEditsHold ==
  /\ machine = "edits" => EditsInForce
  /\ machine = "voice" => WeightsAreEarned

(* One post with two pictures, and one of text alone.                      *)
TwoPosts == {1, 2}
CarriesTwo == (1 :> {"a", "b"}) @@ (2 :> {})
BytesOf == ("a" :> "x") @@ ("b" :> "y")

(* One work is refused by both models, one by the preferred one.           *)
TwoModels == <<"lite", "flash">>
Refusals == ("lite" :> {2, 3}) @@ ("flash" :> {3})

(* Two drafts about one post.                                              *)
OnePost == (1 :> 1) @@ (2 :> 1)

(* Two events of two posts, of which one is kept: the first pair tells one *)
(* moment, the first post shows more than an album takes, the second a     *)
(* picture of it again.                                                    *)
FourTold == 1 .. 4
Alike == {{1, 2}, {3, 4}}
SameMoment == {{1, 2}}
Photo(m) == [media |-> m, kind |-> "photo"]
Video(m) == [media |-> m, kind |-> "video"]
Gif(m) == [media |-> m, kind |-> "gif"]
MediaShown == <<<<Photo("a"), Video("b"), Photo("c")>>, <<Photo("a"), Gif("g")>>, <<Video("d")>>, <<>>>>

(* One profile repeats an old post above its own, the other shows posts of *)
(* others and excludes replies.                                            *)
Row(kind, dated) == [kind |-> kind, dated |-> dated]
TwoProfiles ==
  <<<<Row("own", 1), Row("own", 2), Row("reply", 3), Row("repost", 2), Row("own", 5)>>,
    <<Row("own", 1), Row("foreign", 2), Row("own", 3), Row("reply", 4), Row("own", 5), Row("foreign", 6)>>>>
OneOfThem == {2}
TwoWindows == {<<1, 5>>, <<3, 6>>}

(* Edits that agree, in two content types, and one to the contrary; one    *)
(* that repairs a fact on the way, one that removes a machine's phrase.     *)
Edit(category, draft, change, d, removed) ==
  [category |-> category, draft |-> draft, faithful |-> TRUE, conflict |-> FALSE,
   change |-> change, moved |-> [f \in {"emoji"} |-> d], removed |-> removed]
FiveEdits ==
  {Edit("SHORT", "faithful", "wording", 1, {}), Edit("NEWS", "faithful", "format", 1, {}),
   Edit("SHORT", "faithful", "wording", -1, {}), Edit("SHORT", "token", "wording", 1, {}),
   Edit("NEWS", "token", "wording", 0, {"moreover"})}
=============================================================================
