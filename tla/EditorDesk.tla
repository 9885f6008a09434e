----------------------------- MODULE EditorDesk -----------------------------
(***************************************************************************)
(* The editor's side of a draft: it is delivered with buttons under it,    *)
(* listed in the inbox, opened there, written again, copied or rejected,   *)
(* by a button or by a reply.  Its text is in state.json, the decision on  *)
(* it in the inbox table and the caption the archive is searched by in a   *)
(* third place, and the chat shows what it last accepted; a killed run     *)
(* leaves each of them where it was, and the next one may begin with the   *)
(* state.json this one began with.                                         *)
(***************************************************************************)
EXTENDS Integers, FiniteSets

CONSTANTS
  Drafted,     \* ids of drafts
  About,       \* About[d]: the post a draft is about
  Wordings,    \* bound on captions the model writes
  Clicks,      \* bound on what the editor asks for
  Slips        \* bound on failed requests and killed runs

ASSUME DeskAssumption == {Wordings, Clicks, Slips} \subseteq Nat

VARIABLES
  desk,       \* drafts, message ids, archive and done posts in memory
  filed,      \* the same in state.json
  found,      \* the same as this run found it
  inbox,      \* review_inbox: the status of each draft
  indexed,    \* archive_records: the caption of each post
  bubble,     \* the text each draft's own message shows
  receipted,  \* texts whose receipts are in SQLite
  pane,       \* the draft the inbox message shows
  displayed,  \* history: captions shown in the chat for each draft
  taken,      \* history: the last decision the inbox took
  errand,     \* what the editor asked for
  step,       \* the delivery under way
  worded, clicked, slips  \* counters of the bounds

deskVars == <<desk, filed, found, inbox, indexed, bubble, receipted, pane,
              displayed, taken, errand, step, worded, clicked, slips>>
stateFile == <<desk, filed, found>>
screen == <<bubble, receipted, pane, displayed>>
deskCounts == <<worded, clicked, slips>>

Topic == {About[d] : d \in Drafted}
Unwritten == 0
NoRow == Wordings + 1
NoErrand == [act |-> "none", d |-> Unwritten, at |-> "none", done |-> FALSE]
Resting == [at |-> "idle", d |-> Unwritten]
Decisions == {"copy", "reject"}
NewTexts == {"rewrite"}

BareDesk == [text |-> [d \in Drafted |-> Unwritten], sent |-> {}, known |-> {}, done |-> {}]
InMemory(d) == desk.text[d] # Unwritten
DraftsOn(p) == {d \in Drafted : About[d] = p /\ InMemory(d)}
Slip == slips < Slips /\ slips' = slips + 1

DeskInit ==
  /\ desk = BareDesk /\ filed = BareDesk /\ found = BareDesk
  /\ inbox = [d \in Drafted |-> "none"] /\ indexed = [p \in Topic |-> NoRow]
  /\ bubble = [d \in Drafted |-> Unwritten] /\ receipted = {} /\ pane = Unwritten
  /\ displayed = [d \in Drafted |-> {}] /\ taken = [d \in Drafted |-> "none"]
  /\ errand = NoErrand /\ step = Resting
  /\ worded = 0 /\ clicked = 0 /\ slips = 0

(* A rejected draft's message shows its caption under the verdict.          *)
Struck(w) == -w
Displays(d, w) == displayed' = [displayed EXCEPT ![d] = @ \cup {IF w > Unwritten THEN w ELSE -w}]

----------------------------------------------------------------------------
(* The tables.                                                              *)
index_update(p, caption) ==
  [indexed EXCEPT ![p] = IF caption # Unwritten THEN caption ELSE IF @ = NoRow THEN Unwritten ELSE @]

update_caption(p, caption) ==
  [indexed EXCEPT ![p] = IF @ = NoRow \/ caption = Unwritten THEN @ ELSE caption]

(* Mutant: a draft that is delivered again waits for a decision again.      *)
WaitsAgain(d) == [inbox EXCEPT ![d] = "pending"]

upsert(d) == [inbox EXCEPT ![d] = IF @ = "none" THEN "pending" ELSE @]

set_status(d, status) == [inbox EXCEPT ![d] = IF @ = "none" THEN @ ELSE status]

TakesNote(d, status) ==
  taken' = [taken EXCEPT ![d] = IF inbox[d] = "none" THEN @ ELSE status]

----------------------------------------------------------------------------
(* A delivery of one post: the draft is kept before it is sent, and the     *)
(* inbox and the archive hear of it after the chat.                         *)
WriteDraft(d) ==
  /\ step = Resting /\ d \notin desk.done
  /\ IF InMemory(d)
     THEN UNCHANGED <<desk, worded>>
     ELSE worded < Wordings /\ worded' = worded + 1 /\ desk' = [desk EXCEPT !.text[d] = worded']
  /\ filed' = desk' /\ indexed' = index_update(About[d], Unwritten)
  /\ step' = [at |-> "send", d |-> d]
  /\ UNCHANGED <<found, inbox, screen, taken, errand, clicked, slips>>

SendDraft ==
  /\ step.at = "send" /\ step' = [step EXCEPT !.at = "sent"]
  /\ LET d == step.d
         text == desk.text[d] IN
     /\ desk' = [desk EXCEPT !.sent = @ \cup {d}, !.known = @ \cup {About[d]}]
     /\ bubble' = IF <<d, text>> \in receipted THEN bubble ELSE [bubble EXCEPT ![d] = text]
     /\ receipted' = receipted \cup {<<d, text>>} /\ Displays(d, text)
  /\ UNCHANGED <<filed, found, inbox, indexed, pane, taken, errand, deskCounts>>

(* The exception leaves the batch, whether or not Telegram took the text.   *)
DraftUnsent ==
  /\ step.at = "send" /\ <<step.d, desk.text[step.d]>> \notin receipted
  /\ Slip /\ step' = Resting
  /\ LET d == step.d IN
     \/ UNCHANGED <<bubble, displayed>>
     \/ bubble' = [bubble EXCEPT ![d] = desk.text[d]] /\ Displays(d, desk.text[d])
  /\ UNCHANGED <<stateFile, inbox, indexed, receipted, pane, taken, errand,
                 worded, clicked>>

ListDraft ==
  /\ step.at = "sent" /\ step' = [step EXCEPT !.at = "listed"]
  /\ inbox' = upsert(step.d)
  /\ UNCHANGED <<stateFile, indexed, screen, taken, errand, deskCounts>>

IndexDraft ==
  /\ step.at = "listed" /\ step' = [step EXCEPT !.at = "indexed"]
  /\ indexed' = index_update(About[step.d], desk.text[step.d])
  /\ UNCHANGED <<stateFile, inbox, screen, taken, errand, deskCounts>>

FinishDraft ==
  /\ step.at = "indexed" /\ step' = Resting
  /\ desk' = [desk EXCEPT !.done = @ \cup {step.d}] /\ filed' = desk'
  /\ UNCHANGED <<found, inbox, indexed, screen, taken, errand, deskCounts>>

----------------------------------------------------------------------------
(* The editor: a button under a draft's message, a reply to it, a draft     *)
(* opened from the inbox and a button there.                                *)
AsksFor(act, d, at) ==
  /\ errand = NoErrand /\ clicked < Clicks /\ clicked' = clicked + 1
  /\ errand' = [act |-> act, d |-> d, at |-> at, done |-> FALSE]
  /\ UNCHANGED <<stateFile, inbox, indexed, screen, taken, step, worded, slips>>

PressButton(act, d) == bubble[d] > Unwritten /\ AsksFor(act, d, "own")
ReplyTo(act, d) == bubble[d] # Unwritten /\ AsksFor(act, d, "reply")
PressOpened(act) == pane # Unwritten /\ AsksFor(act, pane, "pane")

(* The inbox by status, and in the order to post of those whose post is known. *)
list_items(status) == {d \in Drafted : inbox[d] = status}
show_inbox == UNION {list_items(status) : status \in {"pending", "ready", "rejected"}}
show_editorial_inbox == {d \in list_items("pending") : About[d] \in desk.known}

Opens(d) ==
  /\ step = Resting /\ pane' = (IF InMemory(d) THEN d ELSE Unwritten) /\ pane # pane'
  /\ IF InMemory(d) THEN Displays(d, desk.text[d]) ELSE UNCHANGED displayed
  /\ UNCHANGED <<stateFile, inbox, indexed, bubble, receipted, taken, errand, step, deskCounts>>

open_inbox_draft(d) == d \in show_inbox /\ Opens(d)
open_editorial_draft(d) == d \in show_editorial_inbox /\ Opens(d)

----------------------------------------------------------------------------
(* What is asked for is done between deliveries.  A reply to a message no   *)
(* draft knows is a search instead.                                         *)
AtTheDesk == step = Resting /\ errand # NoErrand /\ ~errand.done
UnknownReply == errand.at = "reply" /\ errand.d \notin desk.sent
CarriedOut == errand' = [errand EXCEPT !.done = TRUE]

(* The message under the button shows a text, struck out without buttons.   *)
edit_message_text(d, w) ==
  /\ IF errand.at = "pane"
     THEN pane' = (IF w > Unwritten THEN d ELSE Unwritten) /\ UNCHANGED bubble
     ELSE bubble' = [bubble EXCEPT ![d] = w] /\ UNCHANGED pane
  /\ Displays(d, w) /\ UNCHANGED receipted

SearchedInstead ==
  /\ AtTheDesk /\ UnknownReply /\ CarriedOut
  /\ UNCHANGED <<stateFile, inbox, indexed, screen, taken, step, deskCounts>>

AlreadyStruck ==
  LET d == errand.d IN
  InMemory(d) /\ errand.at # "pane" /\ bubble[d] = Struck(desk.text[d])

StatusAsked == IF errand.act = "copy" THEN "ready" ELSE "rejected"

(* Copying sends the text alone; of a draft that is gone the editor is told *)
(* so, and the decision counts all the same.                                *)
Decide ==
  /\ AtTheDesk /\ ~UnknownReply /\ errand.act \in Decisions
  /\ errand.act = "reject" => ~AlreadyStruck
  /\ LET d == errand.d IN
     /\ IF errand.act = "reject" /\ InMemory(d)
        THEN edit_message_text(d, Struck(desk.text[d])) ELSE UNCHANGED screen
     /\ inbox' = set_status(d, StatusAsked) /\ TakesNote(d, StatusAsked)
     /\ indexed' = update_caption(About[d], desk.text[d])
  /\ CarriedOut /\ UNCHANGED <<stateFile, step, deskCounts>>

(* Telegram refuses an edit that changes nothing, for good.                 *)
NotModified ==
  /\ AtTheDesk /\ ~UnknownReply /\ InMemory(errand.d)
  /\ \/ errand.act = "reject" /\ AlreadyStruck
     \/ errand.act \in NewTexts /\ About[errand.d] \in desk.known
  /\ CarriedOut /\ UNCHANGED <<stateFile, inbox, indexed, screen, taken, step, deskCounts>>

(* Mutant: the draft is kept before the chat has taken its new text.        *)
KeptBeforeShown(d, w, answered) == [desk EXCEPT !.text[d] = w]

KeptText(d, w, answered) == IF answered THEN [desk EXCEPT !.text[d] = w] ELSE desk

WriteAgain ==
  /\ AtTheDesk /\ ~UnknownReply /\ errand.act \in NewTexts
  /\ LET d == errand.d IN
     IF InMemory(d) /\ About[d] \in desk.known
     THEN /\ worded < Wordings /\ worded' = worded + 1
          /\ edit_message_text(d, worded')
          /\ desk' = KeptText(d, worded', TRUE)
          /\ indexed' = update_caption(About[d], worded')
     ELSE /\ indexed' = update_caption(About[d], desk.text[d])
          /\ UNCHANGED <<desk, screen, worded>>
  /\ CarriedOut /\ UNCHANGED <<filed, found, inbox, taken, step, clicked, slips>>

(* The request fails, and the chat may have taken it.  The command stays    *)
(* with Telegram and is carried out again later.                            *)
RequestFails ==
  /\ AtTheDesk /\ ~UnknownReply /\ InMemory(errand.d) /\ Slip
  /\ errand.act \in NewTexts => About[errand.d] \in desk.known /\ worded < Wordings
  /\ LET d == errand.d
         w == IF errand.act = "reject" THEN Struck(desk.text[d]) ELSE worded + 1 IN
     /\ worded' = IF errand.act \in NewTexts THEN worded + 1 ELSE worded
     /\ desk' = IF errand.act \in NewTexts THEN KeptText(d, w, FALSE) ELSE desk
     /\ UNCHANGED screen \/ (errand.act # "copy" /\ edit_message_text(d, w))
  /\ UNCHANGED <<filed, found, inbox, indexed, taken, errand, step, clicked>>

(* The state is saved after a batch of commands.                            *)
SaveBatch ==
  /\ errand.done /\ step = Resting /\ errand' = NoErrand /\ filed' = desk
  /\ UNCHANGED <<desk, found, inbox, indexed, screen, taken, step, deskCounts>>

----------------------------------------------------------------------------
(* A new run: archived posts get a row, drafts their caption in the archive *)
(* and a row in the inbox where they have none.                             *)
sync_from_json(d) == [p \in Topic |-> IF indexed[p] = NoRow /\ p \in d.known THEN Unwritten ELSE indexed[p]]

(* Mutant: drafts that are kept do not reach the inbox or the archive.      *)
NotSynced(rows, d) == {rows}

(* Of several drafts on a post the last one kept counts.                    *)
CaptionsOf(d, p) == {d.text[e] : e \in {e \in Drafted : About[e] = p}} \ {Unwritten}
sync_drafts(rows, d) ==
  {r \in [Topic -> 0 .. NoRow] :
     \A p \in Topic : IF rows[p] = NoRow \/ CaptionsOf(d, p) = {} THEN r[p] = rows[p]
                      ELSE r[p] \in CaptionsOf(d, p)}

sync_from_state(d) ==
  [e \in Drafted |-> IF d.text[e] # Unwritten /\ inbox[e] = "none" THEN "pending" ELSE inbox[e]]

StartDesk ==
  /\ Slip
  /\ \E d \in {filed, found} :
       /\ desk' = d /\ filed' = d /\ found' = d
       /\ indexed' \in sync_drafts(sync_from_json(d), d)
       /\ inbox' = sync_from_state(d)
  /\ step' = Resting /\ errand' = [errand EXCEPT !.done = FALSE]
  /\ UNCHANGED <<screen, taken, worded, clicked>>

----------------------------------------------------------------------------
DeskNext ==
  \/ \E d \in Drafted : WriteDraft(d) \/ open_inbox_draft(d) \/ open_editorial_draft(d)
  \/ SendDraft \/ DraftUnsent \/ ListDraft \/ IndexDraft \/ FinishDraft
  \/ \E act \in Decisions \cup NewTexts, d \in Drafted : PressButton(act, d) \/ ReplyTo(act, d)
  \/ \E act \in Decisions \cup NewTexts : PressOpened(act)
  \/ SearchedInstead \/ Decide \/ NotModified \/ WriteAgain \/ RequestFails \/ SaveBatch
  \/ StartDesk

DeskSpec == DeskInit /\ [][DeskNext]_deskVars

----------------------------------------------------------------------------
Desks == [text : [Drafted -> 0 .. Wordings], sent : SUBSET Drafted, known : SUBSET Topic,
          done : SUBSET Drafted]

(* Every variable has its type.                                             *)
DeskTypes ==
  /\ {desk, filed, found} \subseteq Desks
  /\ inbox \in [Drafted -> {"none", "pending", "ready", "rejected"}]
  /\ indexed \in [Topic -> 0 .. NoRow]
  /\ bubble \in [Drafted -> Struck(Wordings) .. Wordings]
  /\ receipted \subseteq Drafted \X (1 .. Wordings) /\ pane \in Drafted \cup {Unwritten}
  /\ displayed \in [Drafted -> SUBSET (1 .. Wordings)]
  /\ taken \in [Drafted -> {"none", "ready", "rejected"}]
  /\ errand.act \in Decisions \cup NewTexts \cup {"none"} /\ errand.done \in BOOLEAN
  /\ step.at \in {"idle", "send", "sent", "listed", "indexed"}

(* A decision the inbox has taken stays until the editor decides again:     *)
(* deliveries that are resumed after a killed run list the draft again, and *)
(* every start lists the drafts that are kept.                              *)
DecisionsStand == \A d \in Drafted : taken[d] # "none" => inbox[d] = taken[d]

(* Between deliveries the three places agree on what has been delivered:    *)
(* it is in the inbox, the archive is searched by a caption one of the      *)
(* post's drafts has, and the text kept for copying is one the editor has   *)
(* been shown, whatever was lost, refused or killed on the way.             *)
PlacesAgree ==
  step = Resting =>
    \A d \in desk.done :
      /\ inbox[d] # "none"
      /\ indexed[About[d]] \in {desk.text[e] : e \in DraftsOn(About[d])}
      /\ desk.text[d] \in displayed[d]

(* What the editor decided and what was written for them are kept together, *)
(* through refused requests, lost answers and killed runs.                  *)
DeskAgrees == DecisionsStand /\ PlacesAgree
=============================================================================
