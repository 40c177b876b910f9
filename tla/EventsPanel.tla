---------------------------- MODULE EventsPanel ----------------------------
(***************************************************************************)
(* The lab event log (components/EventsPanel.tsx): one EventSource on      *)
(* /api/lab/events, the browser's own reconnection while it is CONNECTING, *)
(* and the panel's reopen timer with a doubling delay once it is CLOSED.   *)
(***************************************************************************)
EXTENDS Integers, Sequences

CONSTANTS
  MaxRows,     \* MAX_ROWS
  MinDelay,    \* 3000 ms, in seconds
  MaxDelay,    \* 30000 ms, in seconds
  MaxEvents    \* bound: events broadcast in a behaviour

VARIABLE ui

\* es: readyState of `es`, or "null"; timers: reopen timers pending; last: the
\* latest event the server broadcast (history).  A row is the event it shows.
Init == ui = [mounted |-> TRUE, es |-> "CONNECTING", timers |-> 0, hadError |-> FALSE,
              backoff |-> MinDelay, status |-> "", rows |-> <<>>, last |-> 0]

View == [severed |-> ui.status = "severed",
         log     |-> ui.rows,
         empty   |-> ui.rows = <<>>]

restored(u) == [u EXCEPT !.backoff = MinDelay, !.hadError = FALSE,
                         !.status = IF u.hadError THEN "restored" ELSE @]

open == /\ ui.timers > 0
        /\ ui' = [ui EXCEPT !.timers = @ - 1, !.es = IF ui.mounted THEN "CONNECTING" ELSE @]

OnOpen == ui.es = "CONNECTING" /\ ui' = restored([ui EXCEPT !.es = "OPEN"])

\* A broadcast reaches an open stream only.  A heartbeat, or a frame parseEvent
\* refuses, only proves that the link is up.
OnLab(shown) ==
  /\ ui.es = "OPEN"
  /\ ui' = [restored(ui) EXCEPT
              !.rows = IF shown THEN SubSeq(<<ui.last + 1>> \o @, 1,
                                            IF Len(@) < MaxRows THEN Len(@) + 1 ELSE MaxRows)
                       ELSE @,
              !.last = IF shown THEN @ + 1 ELSE @]
Lab == \E shown \in BOOLEAN : (shown => ui.last < MaxEvents) /\ OnLab(shown)
Missed == ui.es # "OPEN" /\ ui.last < MaxEvents /\ ui' = [ui EXCEPT !.last = @ + 1]

\* readyState is CONNECTING after a dropped connection and CLOSED after a
\* refusal (a status other than 200).
OnError(ready) ==
  ui' = IF ready = "CLOSED"
        THEN [ui EXCEPT !.es = "null", !.hadError = TRUE, !.status = "severed",
                        !.timers = @ + 1,
                        !.backoff = IF 2 * @ < MaxDelay THEN 2 * @ ELSE MaxDelay]
        ELSE [ui EXCEPT !.es = ready, !.hadError = TRUE, !.status = "severed"]
Severed == \/ ui.es \in {"CONNECTING", "OPEN"} /\ OnError("CONNECTING")
           \/ ui.es = "CONNECTING" /\ OnError("CLOSED")

Unmount == ui.mounted /\ ui' = [ui EXCEPT !.mounted = FALSE, !.es = "null", !.timers = 0]

Next == open \/ OnOpen \/ Lab \/ Missed \/ Severed \/ Unmount

\* The panel never stops trying and never tries twice: while it is mounted there
\* is either one live EventSource or one reopen timer, afterwards neither.
StreamsMatch == (IF ui.es = "null" THEN 0 ELSE 1) + ui.timers = IF ui.mounted THEN 1 ELSE 0
\* An open link is never announced as severed, and every row is an event the
\* server sent, newest first and once.
ShownIsCurrent == /\ ui.es = "OPEN" => ~View.severed
                  /\ \A i \in 1..Len(ui.rows) :
                       ui.rows[i] <= ui.last /\ (i > 1 => ui.rows[i] < ui.rows[i - 1])
=============================================================================
