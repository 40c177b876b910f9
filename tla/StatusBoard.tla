---------------------------- MODULE StatusBoard ----------------------------
(***************************************************************************)
(* The two boards that refresh themselves by a poll which aborts its own   *)
(* predecessor: the uptime board (components/StatusBoard.tsx, one request  *)
(* per pull) and the deep metrics (components/DeepPanels.tsx, which asks   *)
(* for the panels and then for the log volume, and pulls once on mount).   *)
(***************************************************************************)
EXTENDS Integers, Sequences

CONSTANTS
  Surfaces,   \* the resources of a pull, in the order it asks for them
  OnMount,    \* whether mounting pulls
  MaxPulls    \* bound: pulls in a behaviour

VARIABLE ui

\* pull: the pull out (0: none), asking for Surfaces[at]; shown: the pull each
\* surface shows, 0 the server-rendered seed.
Init == ui = [mounted |-> TRUE, hidden |-> FALSE, pull |-> IF OnMount THEN 1 ELSE 0, at |-> 1,
              pulled |-> IF OnMount THEN 1 ELSE 0, shown |-> [i \in 1..Len(Surfaces) |-> 0]]

\* The rejections of the aborted pull are silent and end it at once.
pull == /\ ui.mounted /\ ~ui.hidden /\ ui.pulled < MaxPulls
        /\ ui' = [ui EXCEPT !.pulled = @ + 1, !.pull = ui.pulled + 1, !.at = 1]
Hide == ui.mounted /\ ui' = [ui EXCEPT !.hidden = ~@]

\* A refusal or a failure keeps the last truth and goes on to the next surface.
OnPulled == /\ ui.pull # 0
            /\ \E ok \in BOOLEAN :
                 ui' = [ui EXCEPT !.shown[ui.at] = IF ok THEN ui.pull ELSE @,
                                  !.at = @ + 1,
                                  !.pull = IF ui.at = Len(Surfaces) THEN 0 ELSE @]
Unmount == ui.mounted /\ ui' = [ui EXCEPT !.mounted = FALSE, !.pull = 0]

Answered == OnPulled
Next == pull \/ Hide \/ Answered \/ Unmount

\* Nothing is asked for an unmounted board, and what it shows never goes back.
LoopsMatch == ~ui.mounted => ui.pull = 0
SnapshotsForward == \A i \in 1..Len(Surfaces) : ui'.shown[i] >= ui.shown[i]
Idle == ui.pull = 0
=============================================================================
