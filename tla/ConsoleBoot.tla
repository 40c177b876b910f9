---------------------------- MODULE ConsoleBoot ----------------------------
(***************************************************************************)
(* The console's boot sequence (app/console.tsx): a chain of timers types  *)
(* the boot lines, any key or click skips it, and the metric strip is      *)
(* revealed with a one-shot sweep.  Played once per session, and not under *)
(* reduced motion.  Its live metrics are polled meanwhile, each pull       *)
(* aborting the one before.                                                *)
(***************************************************************************)
EXTENDS Integers, Sequences

CONSTANTS
  LineLen,    \* the lengths of bootLines
  MaxPulls    \* bound: pulls of the metrics in a behaviour

VARIABLE ui

\* timer: what the chain's pending timer will call ("": none); done, ch: the
\* closure's counters; bootShown, bootChars: the state drawn; frame: the reveal's
\* animation frame; glintTimer: the fallback that ends the sweep; sweeps: how often
\* it began (history).
Init == \E plain \in BOOLEAN :   \* reduced motion, or booted in this session
  ui = [mounted |-> TRUE, phase |-> IF plain THEN "done" ELSE "booting",
        timer |-> IF plain THEN "" ELSE "type", done |-> 0, ch |-> 0, bootShown |-> 0,
        bootChars |-> 0, revealed |-> plain, frame |-> FALSE, justRevealed |-> FALSE,
        glintTimer |-> FALSE, sweeps |-> 0, booted |-> plain,
        pull |-> 1, pulled |-> 1, metrics |-> 0]

View == [overlay |-> ui.mounted /\ ui.phase = "booting",
         lines   |-> ui.bootShown,
         typing  |-> ui.bootShown < Len(LineLen),
         strip   |-> ui.revealed,
         sweep   |-> ui.justRevealed]

\* The effect of justRevealed (re)arms the fallback timer.
JustRevealed(u) == [u EXCEPT !.justRevealed = TRUE, !.glintTimer = TRUE, !.sweeps = @ + 1]

type == /\ ui.timer = "type"
        /\ ui' = IF ui.ch < LineLen[ui.done + 1]
                 THEN [ui EXCEPT !.ch = @ + 1, !.bootChars = ui.ch + 1]
                 ELSE IF ui.done + 1 < Len(LineLen)
                 THEN [ui EXCEPT !.done = @ + 1, !.bootShown = ui.done + 1, !.ch = 0,
                                 !.bootChars = 0]
                 ELSE [ui EXCEPT !.done = @ + 1, !.bootShown = ui.done + 1,
                                 !.timer = "finale"]
finale == /\ ui.timer = "finale"
          /\ ui' = JustRevealed([ui EXCEPT !.timer = "", !.booted = TRUE, !.phase = "done",
                                           !.frame = TRUE])
RevealFrame == ui.frame /\ ui' = [ui EXCEPT !.frame = FALSE, !.revealed = TRUE]

\* The chain's timer is cancelled with the phase it belongs to.
skipBoot == /\ View.overlay
            /\ ui' = JustRevealed([ui EXCEPT !.timer = "", !.booted = TRUE, !.phase = "done",
                                             !.revealed = TRUE])
\* animationend or the fallback timer.
SweepEnds == ui.justRevealed /\ ui' = [ui EXCEPT !.justRevealed = FALSE, !.glintTimer = FALSE]

Pull == /\ ui.mounted /\ ui.pulled < MaxPulls
        /\ ui' = [ui EXCEPT !.pulled = @ + 1, !.pull = ui.pulled + 1]
OnStatus == /\ ui.pull # 0
            /\ \E ok \in BOOLEAN : ui' = [ui EXCEPT !.pull = 0,
                                                    !.metrics = IF ok THEN ui.pull ELSE @]

Unmount == ui.mounted /\ ui' = [ui EXCEPT !.mounted = FALSE, !.timer = "", !.pull = 0,
                                          !.glintTimer = FALSE, !.justRevealed = FALSE]

Answered == type \/ finale \/ RevealFrame \/ SweepEnds \/ OnStatus
Next == Answered \/ skipBoot \/ Pull \/ Unmount

\* The line being typed exists and is cut inside it, the strip is revealed by the
\* end of the boot only, and the sweep is never played twice.
ShownIsCurrent == /\ View.overlay /\ View.typing => ui.bootChars <= LineLen[View.lines + 1]
                  /\ View.strip => ~View.overlay
                  /\ ui.sweeps <= 1
\* A boot timer is pending exactly while the overlay is up.
LoopsMatch == /\ View.overlay = (ui.timer # "")
              /\ ~ui.mounted => ui.pull = 0 /\ ~ui.glintTimer
              /\ View.overlay => ~ui.booted
SnapshotsForward == ui'.metrics >= ui.metrics
\* The boot ends: the strip appears although nobody skips it.
Waiting == ui.mounted /\ ~View.strip
Idle == ui.timer = "" /\ ~ui.frame /\ ui.pull = 0
=============================================================================
