-------------------------- MODULE MCReviewDelivery --------------------------
(* Small instances of ReviewDelivery for TLC.                              *)
EXTENDS ReviewDelivery, TLC

CONSTANTS a, b, c

MCTopics == {"t1"}

(* One post with media and one text-only post of the same conversation.    *)
PairAt    == a :> 1 @@ b :> 2
PairTopic == a :> "t1" @@ b :> "t1"

(* Two standalone lives of one author and day, more than four hours apart. *)
LivesAt == a :> 1 @@ b :> 9
=============================================================================
