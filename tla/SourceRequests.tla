--------------------------- MODULE SourceRequests ---------------------------
(***************************************************************************)
(* What the editor asks of the sources at once: the last two hours, one    *)
(* source's last day, a search, one of its results, the posts behind       *)
(* links, a text of their own.  A source is read, or read in part and      *)
(* noted in last_errors, which outlives the request; the answer has to     *)
(* say whether it is whole.  Each new run may bring other sources, and     *)
(* may find X degraded.                                                    *)
(***************************************************************************)
EXTENDS Integers, FiniteSets

CONSTANTS
  Posted,      \* posts X shows
  Poster,      \* Poster[p]: the account a post is by
  Belonging,   \* Belonging[p]: the posts of its event
  Pasted,      \* texts the editor may paste, by manual_input
  Rosters,     \* source files: the enabled sources, and which of them need a keyword
  Naming,      \* posts that contain a keyword
  Askings,     \* bound on requests
  Outages      \* bound on failed reads and new runs

ASSUME RequestAssumption == {Askings, Outages} \subseteq Nat

VARIABLES
  roster,       \* the source file of this run
  xMode,        \* X_PROVIDER_PREFLIGHT: healthy or degraded
  last_errors,  \* sources with an error, as the collector keeps it
  retrieved,    \* _LAST_RETRIEVAL_BY_UPDATE: what a post's last retrieval was
  archived,     \* posts in the local archive
  offered,      \* candidates of the searches in state.json
  ask,          \* the request under way, or the last one answered
  unread,       \* history: sources of this request that were not read whole
  doubted,      \* history: posts whose last window or search was not whole
  sentFor,      \* history: what this request delivered
  askings, outages  \* counters of the bounds

askVars == <<roster, xMode, last_errors, retrieved, archived, offered, ask, unread,
             doubted, sentFor, askings, outages>>
setting == <<roster, xMode, archived, offered>>
memories == <<last_errors, retrieved, doubted>>

Account == {Poster[p] : p \in Posted} \cup UNION {file.enabled : file \in Rosters}
Listed == roster.enabled
NoAsk == [kind |-> "none", of |-> {}, left |-> {}, got |-> {}, failed |-> {}, told |-> {}, done |-> TRUE]
PostsBy(S) == {p \in Posted : Poster[p] \in S}
Outage == outages < Outages /\ outages' = outages + 1
NoOutage == UNCHANGED outages

AskInit ==
  /\ roster \in Rosters /\ xMode = "healthy" /\ last_errors = {}
  /\ retrieved = [p \in Posted |-> "none"] /\ archived = {} /\ offered = {}
  /\ ask = NoAsk /\ unread = {} /\ doubted = {} /\ sentFor = {} /\ askings = 0 /\ outages = 0

----------------------------------------------------------------------------
(* Source authority.                                                        *)
should_accept_post(p) ==
  p \in Posted /\ Poster[p] \in Listed /\ (Poster[p] \in roster.narrow => p \in Naming)

_configured_only(P) == {p \in P : should_accept_post(p)}

(* A new run, perhaps with another file; the collector's memory is new.     *)
NewRun ==
  /\ ask.done /\ Outage
  /\ roster' \in Rosters /\ xMode' \in {"healthy", "degraded"}
  /\ last_errors' = {} /\ retrieved' = [p \in Posted |-> "none"] /\ doubted' = {}
  /\ offered' \in {offered, {}} /\ ask' = NoAsk /\ unread' = {} /\ sentFor' = {}
  /\ UNCHANGED <<archived, askings>>

----------------------------------------------------------------------------
(* The steps of a request.                                                  *)
Begins(kind, of, left) ==
  /\ ask.done /\ askings < Askings /\ askings' = askings + 1
  /\ ask' = [NoAsk EXCEPT !.kind = kind, !.of = of, !.left = left, !.done = FALSE]
  /\ unread' = {} /\ sentFor' = {}
  /\ UNCHANGED <<setting, retrieved, doubted, outages>>

AskedFor(kind) == ~ask.done /\ ask.kind = kind

(* The posts of a finished retrieval are remembered by what it was.         *)
_remember_retrieval(P, status) == retrieved' = [p \in Posted |-> IF p \in P THEN status ELSE retrieved[p]]
Remembers(P, status, whole) ==
  /\ _remember_retrieval(P, status)
  /\ doubted' = IF whole THEN doubted \ P ELSE doubted \cup P

StatusOf(errors) == IF errors = {} THEN "complete" ELSE "partial"

Ends(told) == ask' = [ask EXCEPT !.told = @ \cup told, !.done = TRUE]

(* deliver_updates hands on what the configured sources wrote, and returns  *)
(* without a word when that is nothing.                                     *)
deliver_updates(P) ==
  /\ sentFor' = _configured_only(P)
  /\ archived' = archived \cup _configured_only(P)

Delivers(P, told) == deliver_updates(P) /\ Ends(told) /\ UNCHANGED offered
Says(told) == Ends(told) /\ UNCHANGED <<archived, offered, sentFor>>

Raises == Says({"error"})

----------------------------------------------------------------------------
(* The last two hours: every source in turn, each by its timeline and, if   *)
(* that fails, by a search for its posts; what was recovered is kept.       *)
(* Mutant: the errors of an earlier request are not forgotten.              *)
KeepsErrors == last_errors

ErrorsAtStart == {}

run_recent2h ==
  /\ Begins("recent2h", {}, IF xMode = "healthy" THEN Listed ELSE {})
  /\ last_errors' = IF xMode = "healthy" THEN ErrorsAtStart ELSE Listed

_collect_source_timeline(s) ==
  /\ AskedFor("recent2h") /\ s \in ask.left /\ NoOutage
  /\ ask' = [ask EXCEPT !.left = @ \ {s}, !.got = @ \cup PostsBy({s})]
  /\ UNCHANGED <<setting, memories, unread, sentFor, askings>>

SourceFails(s) ==
  /\ AskedFor("recent2h") /\ s \in ask.left /\ Outage
  /\ \E found \in SUBSET PostsBy({s}) :
       /\ ask' = [ask EXCEPT !.left = @ \ {s}, !.got = @ \cup found]
       /\ last_errors' = last_errors \cup {s}
  /\ unread' = unread \cup {s}
  /\ UNCHANGED <<setting, retrieved, doubted, sentFor, askings>>

(* While X is degraded some of the sources are read, and not by X itself.   *)
collect_degraded_window ==
  /\ AskedFor("recent2h") /\ xMode = "degraded" /\ unread = {}
  /\ \E found \in SUBSET PostsBy(Listed) : ask' = [ask EXCEPT !.got = found]
  /\ unread' = Listed
  /\ UNCHANGED <<setting, memories, sentFor, askings, outages>>

AnswerRecent ==
  /\ AskedFor("recent2h") /\ ask.left = {} /\ (xMode = "degraded" => unread # {})
  /\ LET found == _configured_only(ask.got)
         warning == IF last_errors = {} THEN {} ELSE {"warned"} IN
     /\ Remembers(found, StatusOf(last_errors), unread = {})
     /\ IF found = {} THEN Says(warning \cup {"nothing"}) ELSE Delivers(found, warning)
  /\ UNCHANGED <<roster, xMode, last_errors, unread, askings, outages>>

----------------------------------------------------------------------------
(* One source's last day: its timeline or nothing.                          *)
run_source24(s) ==
  /\ Begins("source24", {s}, IF s \in Listed THEN {s} ELSE {}) /\ UNCHANGED last_errors

RefuseSource ==
  /\ AskedFor("source24") /\ ask.left = {} /\ Says({"refused"})
  /\ UNCHANGED <<roster, xMode, memories, unread, askings, outages>>

(* What a reading that returns brings is remembered as complete.            *)
Returns(found) ==
  /\ Remembers(found, "complete", TRUE)
  /\ IF found = {} THEN Says({"nothing"}) ELSE Delivers(found, {})

_configured_collect_source ==
  /\ AskedFor("source24") /\ ask.left # {} /\ xMode = "healthy"
  /\ \/ Returns(_configured_only(PostsBy(ask.left))) /\ NoOutage /\ UNCHANGED <<last_errors, unread>>
     \/ /\ Raises /\ Outage /\ unread' = ask.left
        /\ last_errors' \in {last_errors, last_errors \cup ask.left}
        /\ UNCHANGED <<retrieved, doubted>>
  /\ UNCHANGED <<roster, xMode, askings>>

_collect_source_with_provider_recovery ==
  /\ AskedFor("source24") /\ ask.left # {} /\ xMode = "degraded" /\ unread' = ask.left
  /\ \/ /\ \E found \in SUBSET PostsBy(ask.left) : Returns(_configured_only(found))
        /\ last_errors' = ask.left
     \/ Raises /\ UNCHANGED memories
  /\ UNCHANGED <<roster, xMode, askings, outages>>

----------------------------------------------------------------------------
(* A search: the local archive, and each source on X.                       *)
run_search == Begins("search", {}, Listed) /\ UNCHANGED last_errors

_run_queries(s) ==
  /\ AskedFor("search") /\ s \in ask.left /\ NoOutage
  /\ ask' = [ask EXCEPT !.left = @ \ {s}, !.got = @ \cup PostsBy({s})]
  /\ UNCHANGED <<setting, memories, unread, sentFor, askings>>

(* Some of a source's queries fail: the collector notes it, and the source   *)
(* has failed if one of its two readings brings nothing else.               *)
QueriesFail(s) ==
  /\ AskedFor("search") /\ s \in ask.left /\ Outage
  /\ \E found \in SUBSET PostsBy({s}), failed \in SUBSET {s} :
       /\ found = {} => failed = {s}
       /\ ask' = [ask EXCEPT !.left = @ \ {s}, !.got = @ \cup found, !.failed = @ \cup failed]
  /\ last_errors' = last_errors \cup {s} /\ unread' = unread \cup {s}
  /\ UNCHANGED <<setting, retrieved, doubted, sentFor, askings>>

(* Mutant: without a result nothing was found, failed sources or not.       *)
NothingFound(failed) == "nothing"

Unfound(failed) == IF failed = {} THEN "nothing" ELSE "unreadable"

_configured_search_archive ==
  /\ AskedFor("search") /\ ask.left = {}
  /\ LET found == _configured_only(ask.got)
         raised == found = {} /\ ask.failed # {}
         local == _configured_only(archived) IN
     /\ IF raised THEN UNCHANGED <<retrieved, doubted>>
        ELSE Remembers(found, StatusOf(last_errors), unread = {})
     /\ archived' = archived \cup found
     /\ IF local \cup found = {} THEN Ends({Unfound(IF raised THEN ask.failed ELSE {})}) /\ UNCHANGED offered
        ELSE Ends({"offered"}) /\ offered' = offered \cup local \cup found
  /\ UNCHANGED <<roster, xMode, last_errors, unread, sentFor, askings, outages>>

----------------------------------------------------------------------------
(* One of the results is picked: its event, by the same author.             *)
run_selected_event(p) == p \in archived /\ Begins("pick", {p}, {}) /\ UNCHANGED last_errors

SearchIsGone ==
  /\ AskedFor("pick") /\ ask.of \cap offered = {} /\ Says({"expired"})
  /\ UNCHANGED <<roster, xMode, memories, unread, askings, outages>>

(* The thread's error stays in the call, a query's is noted.                *)
_configured_collect_event ==
  /\ AskedFor("pick") /\ ask.of \subseteq offered
  /\ \E p \in ask.of :
       IF Poster[p] \notin Listed
       THEN Raises /\ NoOutage /\ UNCHANGED <<memories, unread>>
       ELSE \E found \in SUBSET Belonging[p], errors \in {{}, {Poster[p]}} :
              LET kept == _configured_only(found \cup {p})
                  whole == found = Belonging[p] /\ errors = {} IN
              /\ IF whole THEN NoOutage ELSE Outage
              /\ last_errors' = last_errors \cup errors
              /\ unread' = IF whole THEN unread ELSE {Poster[p]}
              /\ IF kept = {} /\ ~whole
                 THEN Raises /\ UNCHANGED <<retrieved, doubted>>
                 ELSE /\ Remembers(kept, StatusOf(last_errors'), TRUE)
                      /\ Delivers(IF kept = {} THEN {p} ELSE kept, {})
  /\ UNCHANGED <<roster, xMode, askings>>

----------------------------------------------------------------------------
(* Links to posts, each of them fetched on its own, and pasted text.        *)
run_shared_x_links(P) == P # {} /\ Begins("links", P, {}) /\ UNCHANGED last_errors

collect_shared_statuses ==
  /\ AskedFor("links")
  /\ \E failed \in SUBSET ask.of :
       /\ IF failed = {} THEN NoOutage ELSE Outage
       /\ unread' = failed
       /\ LET warning == IF failed = {} THEN {} ELSE {"unread"} IN
          IF failed = ask.of THEN Says(warning) ELSE Delivers(ask.of \ failed, warning)
  /\ UNCHANGED <<roster, xMode, memories, askings>>

run_manual_input(t) == Begins("text", {t}, {}) /\ UNCHANGED last_errors

PrepareText ==
  /\ AskedFor("text") /\ Delivers(ask.of, {})
  /\ UNCHANGED <<roster, xMode, memories, unread, askings, outages>>

----------------------------------------------------------------------------
AskNext ==
  \/ NewRun \/ run_recent2h \/ AnswerRecent \/ collect_degraded_window
  \/ \E s \in Account :
       \/ _collect_source_timeline(s) \/ SourceFails(s) \/ _run_queries(s) \/ QueriesFail(s)
       \/ run_source24(s)
  \/ RefuseSource \/ _configured_collect_source \/ _collect_source_with_provider_recovery
  \/ run_search \/ _configured_search_archive
  \/ \E p \in Posted : run_selected_event(p)
  \/ SearchIsGone \/ _configured_collect_event
  \/ \E P \in SUBSET Posted : run_shared_x_links(P)
  \/ \E t \in Pasted : run_manual_input(t)
  \/ collect_shared_statuses \/ PrepareText

AskSpec == AskInit /\ [][AskNext]_askVars

----------------------------------------------------------------------------
(* Every variable has its type.                                             *)
AskTypes ==
  /\ roster \in Rosters /\ xMode \in {"healthy", "degraded"}
  /\ last_errors \cup unread \subseteq Account \cup Posted
  /\ retrieved \in [Posted -> {"none", "complete", "partial"}]
  /\ archived \cup offered \cup doubted \cup sentFor \subseteq Posted
  /\ ask.left \cup ask.failed \subseteq Account /\ ask.got \subseteq Posted /\ ask.done \in BOOLEAN

(* The last two hours come without a warning exactly when every source was  *)
(* read whole, whatever was noted for earlier requests, and then nothing of *)
(* them is missing; nothing is said to be missing on X while a source could *)
(* not be searched; links that were not delivered are spoken of.            *)
AnswersAreHonest ==
  ask.done =>
    /\ ask.kind = "recent2h" =>
         /\ "warned" \in ask.told <=> unread # {}
         /\ unread = {} => sentFor = _configured_only(PostsBy(Listed))
    /\ ask.kind = "source24" /\ xMode = "healthy" /\ ask.told \cap {"error", "refused"} = {} =>
         sentFor = _configured_only(PostsBy(ask.of))
    /\ ask.kind = "search" /\ "nothing" \in ask.told => ask.failed = {}
    /\ ask.kind = "pick" /\ sentFor # {} => _configured_only(ask.of) \subseteq sentFor
    /\ ask.kind = "links" => /\ _configured_only(ask.of) \subseteq sentFor \cup unread
                             /\ unread # {} => "unread" \in ask.told

(* A post remembered as read in a whole window or search was.               *)
RemembersWhole == \A p \in doubted : retrieved[p] # "complete"

(* What the editor asks for at once is answered for what it is.             *)
RequestsAreHonest == AnswersAreHonest /\ RemembersWhole

(* A pasted text is prepared like a post, as the guide to the quick inbox   *)
(* says: run_manual_input hands it to deliver_updates.                      *)
PastedTextIsPrepared == ask.done /\ ask.kind = "text" => sentFor # {}
=============================================================================
