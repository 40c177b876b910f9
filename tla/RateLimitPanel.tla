-------------------------- MODULE RateLimitPanel ---------------------------
(***************************************************************************)
(* The rate-limiter panel (components/RateLimitPanel.tsx): an interval     *)
(* poll of core's limiter, and a burst of requests whose statuses are      *)
(* drawn, followed by one more read.  The interval (2 s) is shorter than   *)
(* the abort (3 s), so two polls may be out and be answered in any order;  *)
(* the read after a burst has no abort and may be the last of all.         *)
(***************************************************************************)
EXTENDS Integers, FiniteSets

CONSTANTS
  PollMs, AbortMs,   \* POLL_MS and the abort's delay
  MaxReads           \* bound: limiter snapshots requested in a behaviour

VARIABLE ui

\* The polls that can be out at once.
Overlap == (AbortMs + PollMs - 1) \div PollMs
Classes == {"ok", "limited", "failed"}

\* polls and rereads: the requests out, by number; snap: the one on screen.
\* cells: the classes of status the last burst met.
Init == ui = [mounted |-> TRUE, reads |-> 1, polls |-> {1}, rereads |-> {}, snap |-> 0,
              repoll |-> 0, hammering |-> FALSE, cells |-> {}, msg |-> ""]

View == [numbers |-> ui.snap # 0,
         hammerEnabled |-> ~ui.hammering,
         cells   |-> ui.cells,
         line    |-> ui.msg]

Poll == /\ ui.mounted /\ Cardinality(ui.polls) < Overlap /\ ui.reads < MaxReads
        /\ ui' = [ui EXCEPT !.reads = @ + 1, !.polls = @ \cup {ui.reads + 1}]

\* A failure or an abort keeps the last snapshot.
arrive(u, r, ok) == [u EXCEPT !.snap = IF ok /\ u.mounted THEN r ELSE @]
OnPoll == \E r \in ui.polls, ok \in BOOLEAN :
  ui' = arrive([ui EXCEPT !.polls = @ \ {r}], r, ok)
OnReread == \E r \in ui.rereads, ok \in BOOLEAN :
  ui' = arrive([ui EXCEPT !.rereads = @ \ {r}], r, ok)

hammer == IF ui.hammering THEN UNCHANGED ui
          ELSE ui' = [ui EXCEPT !.hammering = TRUE, !.cells = {}, !.msg = ""]
Click == ui.mounted /\ View.hammerEnabled /\ hammer
\* Promise.all: every status is there, a network error as 0.
OnHammered ==
  /\ ui.hammering
  /\ \E met \in SUBSET Classes \ {{}} :
       ui' = IF ~ui.mounted THEN [ui EXCEPT !.hammering = FALSE]
             ELSE [ui EXCEPT !.hammering = FALSE, !.cells = met, !.repoll = 1,
                             !.msg = IF "failed" \in met THEN "done, some failed" ELSE "done"]
Reread == /\ ui.repoll > 0 /\ ui.reads < MaxReads
          /\ ui' = [ui EXCEPT !.repoll = 0, !.reads = @ + 1, !.rereads = @ \cup {ui.reads + 1}]

Unmount == ui.mounted /\ ui' = [ui EXCEPT !.mounted = FALSE, !.repoll = 0]

Answered == OnPoll \/ OnReread \/ OnHammered
Next == Poll \/ Answered \/ Reread \/ Click \/ Unmount

\* The summary line belongs to the cells under it; neither is there while a new
\* burst is out.
ShownIsCurrent == /\ (View.line = "done, some failed") = ("failed" \in ui.cells)
                  /\ ui.mounted /\ ui.hammering => ui.cells = {} /\ View.line = ""
\* The timers of an unmounted panel are cleared.
LoopsMatch == ~ui.mounted => ui.repoll = 0
Idle == ~ui.hammering /\ ui.polls = {} /\ ui.rereads = {}
=============================================================================
