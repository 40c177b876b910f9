---------------------------- MODULE SystemPolls ----------------------------
(***************************************************************************)
(* The observability polls of /system (components/SystemDash.tsx): history *)
(* and logs on intervals, neither aborted by the next one nor timed out,   *)
(* and the visitor's own trace, fetched once.                              *)
(***************************************************************************)
EXTENDS Integers, FiniteSets

CONSTANT MaxPulls   \* bound: pulls of each kind in a behaviour

VARIABLE ui

Polled == {"history", "logs"}   \* `url` and `apply` of pull()

\* out: the requests whose promise is pending; acs: the abort controllers kept.
\* shown[k]: the pull the surface shows, 0 the seed (history) or null (logs).
\* overlapped: two pulls of a kind were out at once (history).
Init == LET first == {[what |-> w, n |-> 1] : w \in Polled \cup {"trace"}}
        IN ui = [mounted |-> TRUE, hidden |-> FALSE, out |-> first, acs |-> first,
                 pulled |-> [k \in Polled |-> 1], shown |-> [k \in Polled |-> 0],
                 trace |-> FALSE, traceFailed |-> FALSE, overlapped |-> FALSE]

View == [history |-> ui.shown["history"],
         logs    |-> IF ui.shown["logs"] = 0 THEN "reading" ELSE "lines",
         trace   |-> IF ui.trace THEN "hops" ELSE IF ui.traceFailed THEN "unavailable"
                     ELSE "scrying"]

Sent(u, r) == [u EXCEPT !.out = @ \cup {r}, !.acs = @ \cup {r}]
Done(u, r) == [u EXCEPT !.out = @ \ {r}, !.acs = @ \ {r}]   \* finally

pull == \E k \in Polled :
  /\ ui.mounted /\ ~ui.hidden /\ ui.pulled[k] < MaxPulls
  /\ LET u == [ui EXCEPT !.pulled[k] = @ + 1,
                         !.overlapped = @ \/ \E r \in ui.out : r.what = k]
     IN ui' = Sent(u, [what |-> k, n |-> u.pulled[k]])
Hide == ui.mounted /\ ui' = [ui EXCEPT !.hidden = ~@]

OnPulled == \E r \in ui.out, ok \in BOOLEAN :
  /\ r.what # "trace"
  /\ ui' = Done(IF ok THEN [ui EXCEPT !.shown[r.what] = r.n] ELSE ui, r)
OnTrace == \E r \in ui.out, ok \in BOOLEAN :
  /\ r.what = "trace"
  /\ ui' = Done([ui EXCEPT !.trace = ok, !.traceFailed = ~ok], r)

\* Every controller kept is aborted; the rejections end their requests.
Unmount == ui.mounted /\ ui' = [ui EXCEPT !.mounted = FALSE, !.out = @ \ ui.acs,
                                          !.acs = {}]

Answered == OnPulled \/ OnTrace
Next == pull \/ Hide \/ Answered \/ Unmount

\* No request outlives the dashboard, and a controller is kept for each one out.
LoopsMatch == ui.acs = ui.out /\ (~ui.mounted => ui.out = {})
\* What is fetched once is announced as failed or shown, not both, when it is in.
ShownIsCurrent == ui.mounted => (View.trace = "scrying") = (\E r \in ui.out : r.what = "trace")
\* Readings never go back, unless two pulls of a kind have overlapped.
SnapshotsForward == ~ui.overlapped => \A k \in Polled : ui'.shown[k] >= ui.shown[k]
Waiting == ui.mounted /\ View.trace = "scrying"
Idle == ui.out = {}
=============================================================================
