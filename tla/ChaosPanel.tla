---------------------------- MODULE ChaosPanel -----------------------------
(***************************************************************************)
(* The chaos panel of the lab page (components/ChaosPanel.tsx): a polling  *)
(* loop over the demo pods that re-arms itself, and a kill button with a   *)
(* local cooldown.  A kill that worked speeds the loop up for a while.     *)
(***************************************************************************)
EXTENDS Integers

CONSTANTS
  MaxPods,   \* bound: pods the demo namespace reports
  MaxPolls   \* bound: polls in a behaviour

VARIABLE ui

\* A status: `desired` may be missing (-1), and every pod is up or recovering.
Statuses == [desired : -1..MaxPods, up : 0..MaxPods, down : 0..MaxPods]
Reported == {st \in Statuses : st.up + st.down <= MaxPods}

\* What killMessage says of each answer, and the answers it tells apart.
Answers == {"ok", "429", "409", "503 busy", "503 off", "502", "other", "network"}
killMessage(a) ==
  CASE a = "ok" -> "killed"
    [] a = "429" -> "cooling down"
    [] a = "409" -> "no running pods"
    [] a = "503 busy" -> "cluster busy"
    [] a = "503 off" -> "lab resting"
    [] a = "502" -> "didn't take"
    [] a = "network" -> "network error"
    [] OTHER -> "went wrong"

\* poll: "flight" while a status request is out, "timer" while the next one is
\* armed.  fast and cool: pending timers of speedUp and of the cooldown.
\* shown is the poll the status on screen came from (0: none yet).
Init == ui = [mounted |-> TRUE, status |-> {}, shown |-> 0, msg |-> "", killing |-> FALSE,
              cooling |-> FALSE, unreachable |-> FALSE, fails |-> 0, poll |-> "flight",
              polls |-> 1, interval |-> "POLL_MS", fast |-> 0, cool |-> 0]

View ==
  LET pods(st) == st.up + st.down
      desired(st) == IF st.desired = -1 THEN pods(st) ELSE st.desired
      slots == IF ui.status = {} THEN 0
               ELSE CHOOSE n \in 0..MaxPods : \E st \in ui.status :
                      /\ n >= desired(st) /\ n >= pods(st)
                      /\ n \in {desired(st), pods(st)}
  IN [slots   |-> slots,
      up      |-> {st.up : st \in ui.status},
      instead |-> IF slots > 0 THEN "" ELSE IF ui.unreachable THEN "unreachable" ELSE "connecting",
      killEnabled |-> ~(ui.killing \/ ui.cooling),
      label   |-> IF ui.cooling THEN "cooling" ELSE IF ui.killing THEN "killing" ELSE "kill"]

\* The end of poll(): the answer, an error status or the abort after 3 s, and
\* the next poll armed unless the panel is gone.
rearm(u) == [u EXCEPT !.poll = IF u.mounted THEN "timer" ELSE "none"]
OnStatus ==
  /\ ui.poll = "flight"
  /\ \E st \in Reported :
       ui' = rearm(IF ui.mounted
                   THEN [ui EXCEPT !.status = {st}, !.shown = ui.polls, !.fails = 0,
                                   !.unreachable = FALSE]
                   ELSE ui)
OnPollError ==
  /\ ui.poll = "flight"
  /\ LET n == IF ui.fails < 3 THEN ui.fails + 1 ELSE 3      \* only compared with 3
     IN ui' = rearm([ui EXCEPT !.fails = n, !.unreachable = @ \/ (ui.mounted /\ n >= 3)])
Poll == /\ ui.poll = "timer" /\ ui.polls < MaxPolls
        /\ ui' = [ui EXCEPT !.poll = "flight", !.polls = @ + 1]

kill == IF ui.killing \/ ui.cooling THEN UNCHANGED ui ELSE ui' = [ui EXCEPT !.killing = TRUE]
Click == ui.mounted /\ View.killEnabled /\ kill

\* speedUp's timer is never cleared; the cooldown outlasts it (10 s and 8 s).
OnKill ==
  /\ ui.killing
  /\ \E a \in Answers :
       ui' = IF ~ui.mounted THEN [ui EXCEPT !.killing = FALSE]
             ELSE [ui EXCEPT !.msg = killMessage(a), !.killing = FALSE,
                             !.cooling = @ \/ a \in {"ok", "429"},
                             !.cool = IF a \in {"ok", "429"} THEN @ + 1 ELSE @,
                             !.interval = IF a = "ok" THEN "FAST_POLL_MS" ELSE @,
                             !.fast = IF a = "ok" THEN @ + 1 ELSE @]
SettleBack == ui.fast > 0 /\ ui' = [ui EXCEPT !.fast = @ - 1, !.interval = "POLL_MS"]
CoolDown == /\ ui.cool > 0 /\ ui.fast = 0
            /\ ui' = [ui EXCEPT !.cool = @ - 1, !.cooling = @ /\ ~ui.mounted]

Unmount == /\ ui.mounted
           /\ ui' = [ui EXCEPT !.mounted = FALSE,
                               !.poll = IF ui.poll = "timer" THEN "none" ELSE @]

Answered == OnStatus \/ OnPollError \/ OnKill \/ SettleBack \/ CoolDown
Next == Answered \/ Poll \/ Click \/ Unmount

\* While the panel is mounted exactly one poll is out or armed; the loop is fast
\* only while its speed-up timer runs, and there is never more than one of it.
LoopsMatch == /\ ui.mounted => ui.poll # "none"
              /\ ui.fast <= 1 /\ ui.cool <= 1
              /\ (ui.interval = "FAST_POLL_MS") = (ui.fast = 1)
              /\ ui.mounted => ui.cooling = (ui.cool = 1)
\* "unreachable" is claimed only after three failures in a row, and never in
\* place of a pod that was reported.
ShownIsCurrent == View.instead = "unreachable" => ui.fails = 3 /\ \A st \in ui.status : st.up = 0
Idle == ~ui.killing /\ ui.poll # "flight" /\ ui.fast = 0 /\ ui.cool = 0
=============================================================================
