------------------------------ MODULE Outcomes ------------------------------
(* Handlers that write several files, any of which may fail: a handler is   *)
(* the set of its outcomes, each with the state m it leaves, whether it got  *)
(* through (ok) and how many of its writes failed.                           *)
EXTENDS Integers

Go(m) == [m |-> m, ok |-> TRUE, failed |-> 0]
Stop(m) == [m |-> m, ok |-> FALSE, failed |-> 0]

\* F goes on from every outcome of S that got through.
Then(S, F(_)) ==
  UNION {IF s.ok THEN {[r EXCEPT !.failed = @ + s.failed] : r \in F(s.m)} ELSE {s} : s \in S}

\* A write that turns old into new, or fails and leaves what it left.
OrLeaves(left, new) == {Go(new), [m |-> left, ok |-> FALSE, failed |-> 1]}
OrFails(old, new) == OrLeaves(old, new)

\* The same outcomes, whose error is ignored.
Anyway(S) == {[s EXCEPT !.ok = TRUE] : s \in S}
=============================================================================
