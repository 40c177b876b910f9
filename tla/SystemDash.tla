----------------------------- MODULE SystemDash -----------------------------
(***************************************************************************)
(* The live half of the /system dashboard (components/SystemDash.tsx): the *)
(* event stream with its reopen timer, which owns the status line, and the *)
(* topology poll, each of whose pulls aborts the one before.  How deploy   *)
(* frames are merged is DeployFeed's subject.                              *)
(***************************************************************************)
EXTENDS Integers

CONSTANTS
  MinDelay, MaxDelay,   \* 3000 and 30000 ms, in seconds
  MaxFrames,            \* bound: metrics frames broadcast in a behaviour
  MaxPulls              \* bound: topology pulls in a behaviour

VARIABLE ui

\* es, timers: the EventSource and the reopen timers, as in EventsPanel; frame: the
\* metrics frame shown, 0 the server-rendered seed; sent: the latest one (history).
\* pull: the topology pull out (0: none) and the step it awaits; topo: the pull the
\* topology on screen came from (0: null).  superseded: a pull was aborted (history).
Init == ui = [mounted |-> TRUE, es |-> "CONNECTING", timers |-> 0, hadError |-> FALSE,
              backoff |-> MinDelay, status |-> "", frame |-> 0, sent |-> 0, hidden |-> FALSE,
              pull |-> 1, awaits |-> "headers", pulled |-> 1, topo |-> 0,
              topoFailed |-> FALSE, failed |-> FALSE]

View == [severed  |-> ui.status = "severed",
         metrics  |-> ui.frame,
         topology |-> IF ui.topo # 0 THEN "shown" ELSE IF ui.topoFailed THEN "unavailable"
                      ELSE "skeleton"]

restored(u) == [u EXCEPT !.backoff = MinDelay, !.hadError = FALSE,
                         !.status = IF u.hadError THEN "restored" ELSE @]
openStream == /\ ui.timers > 0
              /\ ui' = [ui EXCEPT !.timers = @ - 1, !.es = "CONNECTING"]
OnOpen == ui.es = "CONNECTING" /\ ui' = restored([ui EXCEPT !.es = "OPEN"])
\* Metrics are broadcast all the time; a frame that does not parse is ignored.
OnMetrics == /\ ui.sent < MaxFrames
             /\ LET u == [ui EXCEPT !.sent = @ + 1]
                IN \/ ui.es = "OPEN" /\ ui' = restored([u EXCEPT !.frame = u.sent])
                   \/ ui' = u
\* As in EventsPanel: CONNECTING after a dropped connection, CLOSED after a refusal.
OnError == \E ready \in {"CONNECTING", "CLOSED"} :
  /\ ui.es = "CONNECTING" \/ (ui.es = "OPEN" /\ ready = "CONNECTING")
  /\ LET u == [ui EXCEPT !.hadError = TRUE, !.status = "severed"]
     IN ui' = IF ready = "CONNECTING" THEN [u EXCEPT !.es = ready]
              ELSE [u EXCEPT !.es = "null", !.timers = @ + 1,
                             !.backoff = IF 2 * @ < MaxDelay THEN 2 * @ ELSE MaxDelay]

\* The aborted pull's rejection is handled before anything else happens, and is
\* a failure like any other.
pullTopology(u) == [u EXCEPT !.topoFailed = @ \/ u.pull # 0, !.failed = @ \/ u.pull # 0,
                             !.pulled = @ + 1, !.pull = u.pulled + 1, !.awaits = "headers"]
Interval == /\ ui.mounted /\ ~ui.hidden /\ ui.pulled < MaxPulls
            /\ ui' = pullTopology(ui)
OnVisible == /\ ui.mounted /\ (ui.hidden => ui.pulled < MaxPulls)
             /\ LET u == [ui EXCEPT !.hidden = ~@]
                IN ui' = IF u.hidden THEN u ELSE pullTopology(u)

OnHeaders == /\ ui.pull # 0 /\ ui.awaits = "headers"
             /\ ui' = [ui EXCEPT !.topoFailed = FALSE, !.awaits = "body"]
OnTopology == /\ ui.pull # 0 /\ ui.awaits = "body"
              /\ ui' = [ui EXCEPT !.topo = ui.pull, !.pull = 0]
\* A status other than 2xx, a network error or a body that does not parse.
OnPullFailed == /\ ui.pull # 0
                /\ ui' = [ui EXCEPT !.pull = 0, !.topoFailed = TRUE, !.failed = TRUE]

\* Mutant: the cleanup forgets the reopen timer.
UnmountKeepsTimer == ui.mounted /\ ui' = [ui EXCEPT !.mounted = FALSE, !.es = "null", !.pull = 0]
Unmount == ui.mounted /\ ui' = [ui EXCEPT !.mounted = FALSE, !.es = "null", !.timers = 0,
                                          !.pull = 0]

Answered == OnHeaders \/ OnTopology \/ OnPullFailed
Next == \/ openStream \/ OnOpen \/ OnMetrics \/ OnError \/ Interval \/ OnVisible
        \/ Answered \/ Unmount

\* One live EventSource or one reopen timer while mounted, nothing afterwards.
LoopsMatch == /\ (IF ui.es = "null" THEN 0 ELSE 1) + ui.timers = IF ui.mounted THEN 1 ELSE 0
              /\ ~ui.mounted => ui.pull = 0
\* The status line does not call an open link severed, and the topology is only
\* called unavailable after a pull that failed or was given up.
ShownIsCurrent == /\ ui.es = "OPEN" => ~View.severed
                  /\ View.topology = "unavailable" => ui.failed
\* Metrics and topology never go back to an older reading.
SnapshotsForward == ui'.frame >= ui.frame /\ ui'.topo >= ui.topo
\* "a skeleton must not shimmer forever on a 503/404".
Waiting == ui.mounted /\ View.topology = "skeleton"
Idle == ui.pull = 0
=============================================================================
