------------------------------ MODULE FinalEdit ------------------------------
(***************************************************************************)
(* Capture of the editor's final text.  An edit of a draft is a session in *)
(* SQLite: a prompt is sent, the reply to it is the candidate, a preview   *)
(* with buttons is sent, and only the button Confirm makes a final edit    *)
(* of it.  Meanwhile the draft may be rewritten or forgotten, the session  *)
(* may expire, Telegram may fail, and the messages with their buttons stay *)
(* in the chat for ever.                                                   *)
(***************************************************************************)
EXTENDS Integers, Sequences, FiniteSets

CONSTANTS
  EditDrafts,   \* drafts that can be edited
  Texts,        \* texts the editor may reply with
  Sessions,     \* bound on sessions
  Rewrites,     \* bound on versions of a draft's caption
  Presses,      \* bound on pressed buttons that change something, and replies
  EditFaults    \* bound on messages that fail

ASSUME EditAssumption ==
  /\ Sessions \in Nat /\ Rewrites \in Nat \ {0} /\ Presses \in Nat /\ EditFaults \in Nat
  /\ "" \notin Texts

VARIABLES
  caption,     \* version of each draft's caption, 0 when it is forgotten
  sessions,    \* final_edit_sessions, in the order of their creation
  edits,       \* final_edits, in the order of their confirmation
  posted,      \* prompts and previews in the chat
  acts,        \* replies and buttons so far
  failed       \* messages that failed

editVars == <<caption, sessions, edits, posted, acts, failed>>

OpenStages == {"pending_edit", "awaiting_confirmation"}
Statuses == OpenStages \cup {"confirmed_final_edit", "cancelled", "expired"}

EditTypes ==
  /\ caption \in [EditDrafts -> 0 .. Rewrites]
  /\ \A n \in DOMAIN sessions : sessions[n].status \in Statuses
  /\ \A m \in posted : m.session \in DOMAIN sessions
  /\ acts \in 0 .. Presses /\ failed \in 0 .. EditFaults

EditInit ==
  /\ caption = [d \in EditDrafts |-> 1]
  /\ sessions = <<>> /\ edits = <<>> /\ posted = {} /\ acts = 0 /\ failed = 0

----------------------------------------------------------------------------
(* The draft: another wording is asked for, or state.json forgets it.       *)
RewriteDraft ==
  /\ \E d \in EditDrafts : caption[d] \in 1 .. Rewrites - 1 /\ caption' = [caption EXCEPT ![d] = @ + 1]
  /\ UNCHANGED <<sessions, edits, posted, acts, failed>>

ForgetDraft ==
  /\ acts < Presses /\ acts' = acts + 1
  /\ \E d \in EditDrafts : caption[d] > 0 /\ caption' = [caption EXCEPT ![d] = 0]
  /\ UNCHANGED <<sessions, edits, posted, failed>>

----------------------------------------------------------------------------
(* Sessions.                                                                *)
Closed(n, status) == [sessions EXCEPT ![n].status = status, ![n].candidate = ""]

cancel_open_for_draft(d) ==
  [n \in DOMAIN sessions |->
     IF sessions[n].draft = d /\ sessions[n].status \in OpenStages
     THEN [sessions[n] EXCEPT !.status = "cancelled", !.candidate = ""] ELSE sessions[n]]

(* Messages are numbered by sessions and prompts: 0 is none.                *)
Prompt(n, k) == [kind |-> "prompt", session |-> n, number |-> k, text |-> ""]
Preview(n, t) == [kind |-> "preview", session |-> n, number |-> 0, text |-> t]

(* The prompt arrives and becomes the session's; or Telegram fails, with    *)
(* the message in the chat or not, and no reply will find the session.      *)
SendPrompt(all, n) ==
  LET k == all[n].prompts + 1
      asked == [all EXCEPT ![n].prompts = k] IN
  \/ /\ posted' = posted \cup {Prompt(n, k)} /\ UNCHANGED failed
     /\ sessions' = [asked EXCEPT ![n].prompt = k]
  \/ /\ failed < EditFaults /\ failed' = failed + 1
     /\ sessions' = asked /\ posted' \in {posted, posted \cup {Prompt(n, k)}}

start_session ==
  /\ Len(sessions) < Sessions
  /\ \E d \in EditDrafts :
       /\ caption[d] > 0
       /\ SendPrompt(Append(cancel_open_for_draft(d),
                       [draft |-> d, of |-> caption[d], status |-> "pending_edit",
                        prompt |-> 0, prompts |-> 0, candidate |-> ""]),
                     Len(sessions) + 1)
  /\ UNCHANGED <<caption, edits, acts>>

(* Half an hour passes.  Every use of a session looks at its age first.     *)
expire_stale ==
  /\ \E n \in DOMAIN sessions : sessions[n].status \in OpenStages /\ sessions' = Closed(n, "expired")
  /\ UNCHANGED <<caption, edits, posted, acts, failed>>

Act == acts < Presses /\ acts' = acts + 1

(* The draft of a session as it was when the edit began.                    *)
SameDraft(n) == caption[sessions[n].draft] = sessions[n].of

(* A reply to the prompt of a pending session.  Any other reply is an       *)
(* ordinary message.  The candidate is stored before its preview is sent.   *)
receive_user_text ==
  /\ Act
  /\ \E m \in posted, t \in Texts :
       LET n == m.session IN
       /\ m.kind = "prompt" /\ sessions[n].status = "pending_edit" /\ sessions[n].prompt = m.number
       /\ IF ~SameDraft(n) THEN sessions' = Closed(n, "cancelled") /\ UNCHANGED <<posted, failed>>
          ELSE /\ sessions' = [sessions EXCEPT ![n].status = "awaiting_confirmation",
                                               ![n].candidate = t]
               /\ \/ posted' = posted \cup {Preview(n, t)} /\ UNCHANGED failed
                  \/ /\ failed < EditFaults /\ failed' = failed + 1
                     /\ posted' \in {posted, posted \cup {Preview(n, t)}}
  /\ UNCHANGED <<caption, edits>>

(* The buttons.                                                             *)
cancel_session ==
  /\ Act
  /\ \E m \in posted : sessions[m.session].status \in OpenStages /\ sessions' = Closed(m.session, "cancelled")
  /\ UNCHANGED <<caption, edits, posted, failed>>

replace_candidate ==
  /\ Act
  /\ \E m \in posted :
       LET n == m.session IN
       /\ m.kind = "preview" /\ sessions[n].status = "awaiting_confirmation"
       /\ SendPrompt([sessions EXCEPT ![n].status = "pending_edit", ![n].prompt = 0,
                                      ![n].candidate = ""], n)
  /\ UNCHANGED <<caption, edits>>

(* Mutant: what was checked when the reply came is not checked again.       *)
AnyDraft(n) == TRUE

Confirmable(n) == SameDraft(n)

latest_active(d) == {k \in DOMAIN edits : edits[k].draft = d /\ edits[k].active}

(* The edit in force so far is superseded.  What the preview showed and     *)
(* what the caption is are history.                                         *)
confirm_session ==
  /\ Act
  /\ \E m \in posted :
       LET n == m.session
           s == sessions[n]
           previous == latest_active(s.draft) IN
       /\ m.kind = "preview" /\ s.status = "awaiting_confirmation"
       /\ IF Confirmable(n)
          THEN /\ sessions' = Closed(n, "confirmed_final_edit")
               /\ edits' = Append([k \in DOMAIN edits |->
                                     [edits[k] EXCEPT !.active = @ /\ k \notin previous]],
                             [draft |-> s.draft, text |-> s.candidate, of |-> s.of,
                              active |-> TRUE, supersedes |-> previous,
                              showed |-> m.text, stood |-> caption[s.draft]])
          ELSE sessions' = Closed(n, "cancelled") /\ UNCHANGED edits
  /\ UNCHANGED <<caption, posted, failed>>

EditNext ==
  \/ RewriteDraft \/ ForgetDraft \/ start_session \/ expire_stale
  \/ receive_user_text \/ cancel_session \/ replace_candidate \/ confirm_session

EditSpec == EditInit /\ [][EditNext]_editVars

----------------------------------------------------------------------------
(* Properties.                                                              *)

(* However edits are begun again, replaced and confirmed late: a draft has  *)
(* one open session at most; its edits form one chain, the last one in      *)
(* force; and an edit was confirmed with the caption it was begun with.     *)
EditsInForce ==
  /\ \A d \in EditDrafts :
       Cardinality({n \in DOMAIN sessions : sessions[n].draft = d /\ sessions[n].status \in OpenStages}) <= 1
  /\ \A k \in DOMAIN edits :
       LET before == {j \in 1 .. k - 1 : edits[j].draft = edits[k].draft} IN
       /\ edits[k].supersedes = {j \in before : \A i \in before : i <= j}
       /\ edits[k].active = (\A j \in DOMAIN edits : edits[j].draft = edits[k].draft => j <= k)
       /\ edits[k].of = edits[k].stood

(* The exact version on show is the one that is confirmed.                  *)
ConfirmsWhatItShows == \A k \in DOMAIN edits : edits[k].text = edits[k].showed
=============================================================================
