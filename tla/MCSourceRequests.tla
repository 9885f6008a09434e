-------------------------- MODULE MCSourceRequests --------------------------
(* A small instance of SourceRequests for TLC: two posts of one source, one *)
(* of another, which a later file drops or reads by keyword only.           *)
EXTENDS SourceRequests, TLC

ThreePosts == {"a1", "a2", "b1"}
TwoPosters == ("a1" :> "a") @@ ("a2" :> "a") @@ ("b1" :> "b")
OneEvent == ("a1" :> {"a1", "a2"}) @@ ("a2" :> {"a1", "a2"}) @@ ("b1" :> {"b1"})
TwoFiles == {[enabled |-> {"a", "b"}, narrow |-> {}],
             [enabled |-> {"a"}, narrow |-> {"a"}]}
FirstNames == {"a1"}
=============================================================================
