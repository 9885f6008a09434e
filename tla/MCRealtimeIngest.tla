-------------------------- MODULE MCRealtimeIngest --------------------------
(* A small instance of RealtimeIngest for TLC: a post and a reply of one    *)
(* source, which wants no replies, and a post by somebody else.             *)
EXTENDS RealtimeIngest, TLC

Writers == <<"a", "a", "z">>
OneFeed == ("a" :> FALSE)
=============================================================================
