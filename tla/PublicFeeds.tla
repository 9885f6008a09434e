---------------------------- MODULE PublicFeeds -----------------------------
(***************************************************************************)
(* The public recovery of a degraded scan: every source of the batch is    *)
(* read from X's syndication page, if that fails from FxTwitter, page by   *)
(* page, and if that fails too by twitter-cli.  The result of a pass is    *)
(* its posts and the account of which sources were asked and which failed, *)
(* from which the realtime checkpoint moves on or stays.                   *)
(*                                                                         *)
(* A profile is a list of rows, the newest last.  Row t of the list was    *)
(* put there at time t; a repost bears the date of the post it repeats.    *)
(***************************************************************************)
EXTENDS Integers, Sequences, FiniteSets

CONSTANTS
  Profile,      \* Profile[s]: the rows of each enabled source, [kind, dated]
  Excluding,    \* sources with include_replies off
  Windows,      \* windows a scan may ask for: pairs of moments
  PageRows,     \* rows FxTwitter puts on a page
  MaxPages,     \* pages read at most
  FeedPasses,   \* bound on passes
  FeedFaults    \* bound on failed requests

Feeds == DOMAIN Profile
RowKinds == {"own", "reply", "repost", "foreign"}
Rows(s) == DOMAIN Profile[s]

ASSUME FeedsAssumption ==
  /\ \A s \in Feeds :
       /\ Profile[s] \in Seq([kind : RowKinds, dated : Nat])
       /\ \A t \in Rows(s) : Profile[s][t].kind # "repost" => Profile[s][t].dated = t
  /\ Excluding \subseteq Feeds /\ Windows \subseteq Nat \X Nat
  /\ {PageRows, MaxPages} \subseteq Nat \ {0} /\ {FeedPasses, FeedFaults} \subseteq Nat

VARIABLES
  period,      \* the window of the pass
  hop,         \* how far each source has come
  paging,      \* FxTwitter pages of each source so far: cursor, number, posts
  given,       \* the posts each source gave, and who gave them
  account,     \* _hani_degraded_attempted_sources, _failed_sources
  reached,     \* last_degraded_scan_at
  passes, feedFaults

(* What happened, for the properties.                                      *)
VARIABLES
  mute,        \* sources whose error message has several lines
  stuck        \* sources for which a page came with the cursor it was asked for

feedVars == <<period, hop, paging, given, account, reached, passes, feedFaults, mute, stuck>>
feedHistory == <<mute, stuck>>

Hops == {"idle", "syndication", "fxtwitter", "agent_reach", "done", "failed"}
NewestPage == 0
NoPages == [below |-> NewestPage, pages |-> 0, found |-> {}]
NothingGiven == [posts |-> {}, by |-> "none"]

FeedTypes ==
  /\ hop \in [Feeds -> Hops]
  /\ \A s \in Feeds :
       /\ paging[s].pages \in 0 .. MaxPages /\ paging[s].below \in Rows(s) \cup {NewestPage}
       /\ given[s].posts \subseteq Rows(s)
       /\ given[s].by \in {"none", "syndication", "fxtwitter", "agent_reach"}
  /\ account.step \in {"idle", "reading", "told"}
  /\ account.failed \subseteq account.attempted /\ account.attempted \subseteq Feeds
  /\ feedFaults \in 0 .. FeedFaults /\ passes \in 0 .. FeedPasses

FeedInit ==
  /\ period = <<0, 0>> /\ hop = [s \in Feeds |-> "idle"]
  /\ paging = [s \in Feeds |-> NoPages] /\ given = [s \in Feeds |-> NothingGiven]
  /\ account = [step |-> "idle", attempted |-> {}, failed |-> {}]
  /\ reached = 0 /\ passes = 0 /\ feedFaults = 0 /\ mute = {} /\ stuck = {}

----------------------------------------------------------------------------
(* Rows.                                                                   *)

(* The newest n rows, below a cursor.                                      *)
NewestRows(s, n, below) ==
  {t \in Rows(s) :
     /\ below = NewestPage \/ t < below
     /\ Cardinality({u \in Rows(s) : u > t /\ (below = NewestPage \/ u < below)}) < n}

InPeriod(s, t) == period[1] <= Profile[s][t].dated /\ Profile[s][t].dated < period[2]

Authored(s, t) == Profile[s][t].kind \in {"own", "reply"}

(* Posts of the source itself within the window; replies if it wants them. *)
Parsed(s, R) ==
  {t \in R : InPeriod(s, t) /\ Authored(s, t) /\ (Profile[s][t].kind = "reply" => s \notin Excluding)}

(* twitter-cli does not say what is a reply.                               *)
ParsedUnread(s, R) == {t \in R : InPeriod(s, t) /\ Authored(s, t)}

----------------------------------------------------------------------------
(* A pass, its window up to the present.  Posts may appear while it runs.  *)

FeedFails == feedFaults < FeedFaults /\ feedFaults' = feedFaults + 1

BeginFeeds ==
  /\ account.step # "reading" /\ passes < FeedPasses
  /\ \E batch \in SUBSET Feeds \ {{}}, w \in Windows :
       /\ w[2] > period[2] /\ period' = w
       /\ account' = [step |-> "reading", attempted |-> batch, failed |-> {}]
       /\ hop' = [s \in Feeds |-> IF s \in batch THEN "syndication" ELSE "idle"]
  /\ paging' = [s \in Feeds |-> NoPages] /\ given' = [s \in Feeds |-> NothingGiven]
  /\ mute' = {} /\ stuck' = {} /\ passes' = passes + 1
  /\ UNCHANGED <<reached, feedFaults>>

Gives(s, posts, by) ==
  /\ hop' = [hop EXCEPT ![s] = "done"]
  /\ given' = [given EXCEPT ![s] = [posts |-> posts, by |-> by]]

MovesOn(s, to) == hop' = [hop EXCEPT ![s] = to] /\ UNCHANGED given

(* The page shows the newest rows, as many as it likes.                    *)
collect_syndication_timeline(s) ==
  /\ hop[s] = "syndication"
  /\ \/ /\ \E n \in 0 .. Len(Profile[s]) :
             Gives(s, Parsed(s, NewestRows(s, n, NewestPage)), "syndication")
        /\ UNCHANGED feedFaults
     \/ FeedFails /\ MovesOn(s, "fxtwitter")
  /\ UNCHANGED <<period, paging, account, reached, passes, feedHistory>>

(* A page reaches back if any row is dated at the start or before.         *)
ReachesBack(s, page) == \E t \in page : Profile[s][t].dated <= period[1]

Exhausts(s, page) == page = {} \/ 1 \in page

(* One page of FxTwitter.  An error on any of them loses the ones before.  *)
collect_fxtwitter_timeline(s) ==
  LET p == paging[s]
      page == NewestRows(s, PageRows, p.below)
      found == p.found \cup Parsed(s, page)
      next == [below |-> IF page = {} THEN p.below ELSE CHOOSE t \in page : \A u \in page : t <= u,
               pages |-> p.pages + 1, found |-> found]
      over == page = {} \/ ReachesBack(s, page) \/ Exhausts(s, page) \/ next.pages = MaxPages
  IN
  /\ hop[s] = "fxtwitter"
  /\ \/ /\ IF over THEN Gives(s, found, "fxtwitter") ELSE UNCHANGED <<hop, given>>
        /\ paging' = [paging EXCEPT ![s] = next]
        /\ UNCHANGED <<feedFaults, stuck>>
     \/ /\ ~over /\ p.below # NewestPage /\ FeedFails
        /\ Gives(s, found, "fxtwitter")
        /\ paging' = [paging EXCEPT ![s] = next] /\ stuck' = stuck \cup {s}
     \/ FeedFails /\ MovesOn(s, "agent_reach") /\ UNCHANGED <<paging, stuck>>
  /\ UNCHANGED <<period, account, reached, passes, mute>>

(* Mutant: twitter-cli is asked for every source.                          *)
AnySource(s) == TRUE

(* A source that excludes replies is not eligible.                         *)
Provable(s) == s \notin Excluding

(* Rows of which none is the source's are refused.  The message of an      *)
(* error may have several lines.                                           *)
collect_agent_reach_timeline(s) ==
  /\ hop[s] = "agent_reach"
  /\ \/ /\ Provable(s) /\ UNCHANGED feedFaults /\ UNCHANGED mute
        /\ \E n \in 0 .. Len(Profile[s]) :
             LET rows == NewestRows(s, n, NewestPage) IN
             IF rows # {} /\ ~\E t \in rows : Authored(s, t)
             THEN MovesOn(s, "failed")
             ELSE Gives(s, ParsedUnread(s, rows), "agent_reach")
     \/ /\ Provable(s) /\ FeedFails /\ MovesOn(s, "failed") /\ mute' \in {mute, mute \cup {s}}
     \/ ~Provable(s) /\ MovesOn(s, "failed") /\ UNCHANGED <<feedFaults, mute>>
  /\ UNCHANGED <<period, paging, account, reached, passes, stuck>>

(* Mutant: the checkpoint moves if every source asked has answered.        *)
BatchComplete(failed) == failed = {}

(* Every enabled source was asked, and none failed.                        *)
_degraded_recovery_pass_complete(failed) == Feeds \subseteq account.attempted /\ failed = {}

(* Failed sources are read off the error messages: @handle: reason, which  *)
(* one with several lines does not match.                                  *)
FailedByMessage == {s \in account.attempted : hop[s] = "failed"} \ mute

EndFeeds ==
  /\ account.step = "reading"
  /\ \A s \in account.attempted : hop[s] \in {"done", "failed"}
  /\ account' = [account EXCEPT !.step = "told", !.failed = FailedByMessage]
  /\ reached' = IF _degraded_recovery_pass_complete(FailedByMessage) THEN period[2] ELSE reached
  /\ UNCHANGED <<period, hop, paging, given, passes, feedFaults, feedHistory>>

FeedNext ==
  \/ BeginFeeds
  \/ \E s \in Feeds :
       \/ collect_syndication_timeline(s)
       \/ collect_fxtwitter_timeline(s)
       \/ collect_agent_reach_timeline(s)
  \/ EndFeeds

FeedSpec == FeedInit /\ [][FeedNext]_feedVars

----------------------------------------------------------------------------
(* Properties.                                                             *)

Wanted(s) == Parsed(s, Rows(s))

(* Whichever provider answered, and after whichever failures: a source     *)
(* gives posts of its own within the window, no reply it excludes, and     *)
(* with a post every newer one it was asked for.                           *)
GivesItsOwn ==
  \A s \in Feeds :
    /\ given[s].posts \subseteq Wanted(s)
    /\ \A t \in given[s].posts : \A u \in Wanted(s) : u > t => u \in given[s].posts

(* FxTwitter's pages give the whole window, unless they run out above its  *)
(* start, the cursor stands still, or a row above bears an older date, as  *)
(* a repost of an old post does.                                           *)
Misdated(s) == \E t \in Rows(s) : t > period[1] /\ Profile[s][t].dated <= period[1]
RunsOut(s) == paging[s].pages = MaxPages /\ paging[s].below > period[1]

PagesReachBack ==
  \A s \in Feeds :
    given[s].by = "fxtwitter" /\ ~RunsOut(s) /\ s \notin stuck /\ ~Misdated(s)
      => given[s].posts = Wanted(s)

(* A source is given up only by the last provider, gives nothing then, and *)
(* the account of the pass names it, unless its error has several lines;   *)
(* the checkpoint is at the end of a window only if all sources answered   *)
(* for it, with the same exception.                                        *)
AccountIsTrue ==
  account.step = "told" =>
    /\ account.failed = {s \in account.attempted : given[s].by = "none"} \ mute
    /\ reached = period[2] => \A s \in Feeds \ mute : given[s].by # "none"

FeedsAreHonest == GivesItsOwn /\ PagesReachBack /\ AccountIsTrue
=============================================================================
