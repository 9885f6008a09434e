---------------------------- MODULE ReviewPromise ----------------------------
(***************************************************************************)
(* What the delivery queue promises its editor, without drafts, keys,      *)
(* parts, receipts or processes: a post taken into the durable queue is    *)
(* outstanding until it is settled, it is settled only once it was shown   *)
(* in the review chat or given up on purpose, and it does not stay         *)
(* outstanding for ever.                                                   *)
(***************************************************************************)
CONSTANT Update

VARIABLES
  outstanding, \* posts the durable state owes the editor
  settled,     \* posts the durable state calls done
  shown,       \* posts whose whole message reached the chat
  waived       \* posts given up on purpose: fresh start, removed source

pvars == <<outstanding, settled, shown, waived>>

PInit == outstanding = {} /\ settled = {} /\ shown = {} /\ waived = {}

(* The chat is never rolled back.                                          *)
Show(u) == shown' = shown \cup {u} /\ UNCHANGED <<outstanding, settled, waived>>

(* One atomic replacement of the durable state.                            *)
Checkpoint(add, done, give) ==
  /\ done \subseteq shown \cup waived \cup give
  /\ outstanding' = ((outstanding \cup add) \ done) \ give
  /\ settled' = settled \cup done
  /\ waived' = waived \cup give
  /\ UNCHANGED shown

PNext ==
  \/ \E u \in Update : Show(u)
  \/ \E add, done, give \in SUBSET Update : Checkpoint(add, done, give)

PSafety == PInit /\ [][PNext]_pvars

(* Every debt is paid.                                                     *)
PLiveness == \A u \in Update : u \in outstanding ~> u \in settled \cup waived
=============================================================================
