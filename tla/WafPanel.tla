----------------------------- MODULE WafPanel ------------------------------
(***************************************************************************)
(* The WAF panel (components/WafPanel.tsx): an interval poll of the live   *)
(* counters, aborted before the next one starts, and a probe that previews *)
(* the engine.  A probe's answer says whether it has findings, and whether *)
(* one of them would block.                                                *)
(***************************************************************************)
EXTENDS Integers, FiniteSets

CONSTANTS
  PollMs, AbortMs,   \* POLL_MS and the abort's delay
  MaxPolls,          \* bound: polls in a behaviour
  MaxProbes          \* bound: probes in a behaviour

VARIABLE ui

Overlap == (AbortMs + PollMs - 1) \div PollMs
Findings == {"none", "flag", "block"}

\* snap: the poll on screen with whether it holds categories and recent flags;
\* probe: the probe on screen; asked: the latest probe fired.
Init == ui = [mounted |-> TRUE, polls |-> {1}, polled |-> 1, snap |-> 0, flags |-> FALSE,
              busy |-> FALSE, asked |-> 0, probe |-> 0, found |-> "none", msg |-> ""]

View == [numbers |-> ui.snap # 0,
         categories |-> ui.snap # 0 /\ ui.flags,
         recent  |-> ui.snap # 0 /\ ui.flags,
         probesEnabled |-> ~ui.busy,
         result  |-> ui.probe # 0,
         noMatch |-> ui.probe # 0 /\ ui.found = "none",
         block   |-> ui.probe # 0 /\ ui.found = "block",
         line    |-> ui.msg]

Poll == /\ ui.mounted /\ Cardinality(ui.polls) < Overlap /\ ui.polled < MaxPolls
        /\ ui' = [ui EXCEPT !.polled = @ + 1, !.polls = @ \cup {ui.polled + 1}]
OnPoll == \E r \in ui.polls, ok, flags \in BOOLEAN :
  ui' = [ui EXCEPT !.polls = @ \ {r},
                   !.snap = IF ok /\ ui.mounted THEN r ELSE @,
                   !.flags = IF ok /\ ui.mounted THEN flags ELSE @]

runProbe == IF ui.busy THEN UNCHANGED ui
            ELSE ui' = [ui EXCEPT !.busy = TRUE, !.msg = "", !.asked = @ + 1]
Click == ui.mounted /\ View.probesEnabled /\ ui.asked < MaxProbes /\ runProbe
OnVerdict ==
  /\ ui.busy
  /\ \E f \in Findings :
       ui' = IF ~ui.mounted THEN [ui EXCEPT !.busy = FALSE]
             ELSE [ui EXCEPT !.busy = FALSE, !.probe = ui.asked, !.found = f,
                             !.msg = IF f = "none" THEN "no match" ELSE "flagged"]
OnRefused ==
  /\ ui.busy
  /\ \E m \in {"offline", "slow down", "faltered", "core unreachable"} :
       ui' = [ui EXCEPT !.busy = FALSE, !.msg = IF ui.mounted THEN m ELSE @]

Unmount == ui.mounted /\ ui' = [ui EXCEPT !.mounted = FALSE]

Answered == OnPoll \/ OnVerdict \/ OnRefused
Next == Poll \/ Answered \/ Click \/ Unmount

\* A verdict in the message line is the one of the probe shown, and of the
\* latest probe.  (After a refused probe the previous result stays on screen.)
ShownIsCurrent == View.line \in {"no match", "flagged"} =>
                    /\ ui.probe = ui.asked
                    /\ View.noMatch = (View.line = "no match")
\* The counters on screen never go back to an older poll.
SnapshotsForward == ui'.snap >= ui.snap
Idle == ~ui.busy /\ ui.polls = {}
=============================================================================
