-------------------------- MODULE MCSessionProxy --------------------------
(* Instances of SessionProxy for TLC.                                      *)
EXTENDS SessionProxy, TLC

CONSTANTS q1, q2, q3, b1, b2, ada, ben

\* An administrator at the only browser.
OneBrowser == {b1}
AdaAlone == [b \in {b1} |-> ada]

\* The requests of a browser are interchangeable.
Perms == Permutations(Request)
===========================================================================
