---------------------------- MODULE MCSegmentText ----------------------------
EXTENDS SegmentText

(* Three posts tell one moment, in Persian or not; the later two contradict *)
(* each other, and the second may say no more than the first.              *)
KindsTold == <<"direct", "persian", "fan">>
DraftParts == <<1, 2, 1>>
LaterTwo == {{2, 3}}
FirstTwo == {{1, 2}}
FirstAndLast == {{1, 3}}
ToldWays == {"continuation", "conflicting"}
ToldWell == <<"faithful", "faithful", "faithful">>
ToldInPart == <<"faithful", "unfaithful", "none">>
EitherStory == {ToldWell, ToldInPart}
=============================================================================
