----------------------------- MODULE MCDeployFeed -----------------------------
(* Instances of DeployFeed for TLC.                                           *)
EXTENDS DeployFeed

Ev(k, st, t) == [key |-> k, status |-> st, ts |-> t]

\* More stages than the list holds; every timestamp of a stage belongs to one
\* event.
Crowded ==
  {Ev("a", "start", 1), Ev("a", "success", 2), Ev("b", "success", 1), Ev("c", "success", 1)}

\* Two events of one stage within the same second (RFC 3339 to the second).
SameSecond == {Ev("a", "start", 1), Ev("a", "success", 1)}

\* A stage that succeeds, is re-run and succeeds again, and a failure between.
Rerun == {Ev("a", "success", 1), Ev("a", "failure", 2), Ev("a", "success", 3)}
===============================================================================
