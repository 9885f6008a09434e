-------------------------- MODULE MCSourceFirstQueue --------------------------
(* A small instance of SourceFirstQueue for TLC: two configured sources    *)
(* with a disabled entry between them, the other way round after a         *)
(* deployment, and a third source that is not configured.                  *)
EXTENDS SourceFirstQueue

CONSTANTS alpha, beta, manual, a1, a2, b1, m1

Handles == {alpha, beta, manual}
Drafts  == {a1, a2, b1, m1}
Authors == [d \in Drafts |-> CASE d \in {a1, a2} -> alpha [] d = b1 -> beta [] d = m1 -> manual]
Ages    == [d \in Drafts |-> CASE d = b1 -> 1 [] d = a1 -> 2 [] d = m1 -> 3 [] d = a2 -> 4]
Names   == [s \in Handles |-> CASE s = alpha -> 1 [] s = beta -> 2 [] s = manual -> 3]
Files   == {<<alpha, Off, beta>>, <<beta, alpha>>}
=============================================================================
