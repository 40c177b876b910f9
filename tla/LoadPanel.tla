----------------------------- MODULE LoadPanel -----------------------------
(***************************************************************************)
(* The load-test panel of the lab page (components/LoadPanel.tsx): it      *)
(* opens an EventSource per run and draws the histogram frames it gets.    *)
(* A frame is abstracted to the run it belongs to and whether it parses.   *)
(* Refs and state are fields of one record, as in every panel module.      *)
(***************************************************************************)
EXTENDS Integers, FiniteSets

CONSTANTS
  MaxC,     \* MAX_C (MAX_S is treated alike; one field stands for both)
  MaxRuns   \* bound: runs in a behaviour

VARIABLE ui

clamp(v, lo, hi) == IF v < lo THEN lo ELSE IF v > hi THEN hi ELSE v
\* What the user may type, beyond either end; an unparsable number is clamped
\* to the lower end like a small one.
Typed == {0, 1, MaxC, MaxC + 1}

\* es: the runs whose EventSource is not closed; run: the latest one started;
\* hist: the run whose frame is drawn (0: null) and whether it was the last frame.
Init == ui = [mounted |-> TRUE, c |-> MaxC, running |-> FALSE, run |-> 0, es |-> {},
              hist |-> 0, msg |-> "", doneMsg |-> "", finished |-> FALSE]

View == [inputsEnabled |-> ~ui.running,
         button        |-> IF ui.running THEN "stop" ELSE "run load",
         histogram     |-> ui.hist,
         line          |-> IF ui.doneMsg # "" THEN ui.doneMsg ELSE ui.msg]

SetC == /\ ui.mounted /\ View.inputsEnabled
        /\ \E v \in Typed : ui' = [ui EXCEPT !.c = clamp(v, 1, MaxC)]

start == /\ ~ui.running /\ ui.run < MaxRuns
         /\ ui' = [ui EXCEPT !.run = @ + 1, !.es = @ \cup {ui.run + 1}, !.running = TRUE,
                   !.c = clamp(@, 1, MaxC), !.hist = 0, !.msg = "", !.doneMsg = "",
                   !.finished = FALSE]

stop == ui' = [ui EXCEPT !.es = @ \ {ui.run}, !.running = FALSE,
                         !.doneMsg = IF ui.finished THEN @ ELSE "run stopped"]

Click == ui.mounted /\ IF View.button = "stop" THEN stop ELSE start

\* The listeners registered on the EventSource of run r.
OnHistogram(r) == \E parses \in BOOLEAN :
  ui' = [ui EXCEPT !.hist = IF parses THEN r ELSE @]
OnDone(r) == \E parses \in BOOLEAN :
  ui' = [ui EXCEPT !.finished = TRUE, !.es = @ \ {r}, !.running = FALSE,
                   !.hist = IF parses THEN r ELSE @,
                   !.doneMsg = IF parses THEN "done" ELSE @]
OnError(r) == ui' = [ui EXCEPT !.msg = "couldn't run", !.es = @ \ {r}, !.running = FALSE]

Frame == \E r \in ui.es : OnHistogram(r)
End == \E r \in ui.es : OnDone(r) \/ OnError(r)

Unmount == ui.mounted /\ ui' = [ui EXCEPT !.mounted = FALSE, !.es = @ \ {ui.run}]

Next == SetC \/ Click \/ Frame \/ End \/ Unmount

\* A stream is open exactly while the mounted panel shows its stop button.
StreamsMatch == ui.es = IF ui.mounted /\ ui.running THEN {ui.run} ELSE {}
\* The histogram, and the line that announces its end, are the latest run's.
ShownIsCurrent == /\ ui.hist \in {0, ui.run}
                  /\ View.line = "done" => ui.hist = ui.run /\ ~ui.running
                  /\ View.line = "couldn't run" => ~ui.running
=============================================================================
