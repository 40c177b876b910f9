--------------------------- MODULE GpuFieldPanel ---------------------------
(***************************************************************************)
(* The WebGL panel (components/GpuFieldPanel.tsx): one effect that builds  *)
(* the context and the program and registers its teardowns, the frame loop *)
(* and its stop conditions, and the loss and restoration of the context.   *)
(*                                                                         *)
(* The context belongs to the canvas: an effect that runs again gets the   *)
(* same one.  A loss made by WEBGL_lose_context lasts (no restoreContext() *)
(* is ever called); one the GPU causes may be restored by the browser.     *)
(***************************************************************************)
EXTENDS Integers

VARIABLE ui

Outcomes == {"ok", "nowebgl", "shaderfail"}

\* ctx: "none" before the first getContext, "live", "lost" (by the GPU), or
\* "released" (by loseContext).  lossEvent: a webglcontextlost event is queued.
\* frames: callbacks requestAnimationFrame holds; raf: rafRef.current is set.
\* listening: the effect's canvas listeners are attached; loop: startRef and
\* stopRef are a completed effect's.  reinit: reinitNonce was bumped.
Blank == [mounted |-> TRUE, mode |-> "loading", running |-> FALSE, runningRef |-> FALSE,
          rm |-> FALSE, prefersReduced |-> FALSE, hidden |-> FALSE, ctx |-> "none",
          lost |-> FALSE, lossEvent |-> FALSE, frames |-> 0, raf |-> FALSE,
          listening |-> FALSE, loop |-> FALSE, reinit |-> FALSE]

View == [canvas   |-> ui.mode \in {"loading", "ok"},
         fallback |-> ui.mode = "nowebgl",
         button   |-> IF ui.mode \in {"loading", "ok"}
                      THEN {IF ui.running THEN "pause" ELSE "run"} ELSE {},
         enabled  |-> ui.mode = "ok" /\ ~ui.rm,
         note     |-> IF ui.mode \notin {"loading", "ok"} THEN ui.mode
                      ELSE IF ui.rm THEN "reduced" ELSE "info"]

\* The effect's body.  `can` is what the device is capable of: without WebGL it
\* returns before a listener is attached to the canvas, and on a lost context,
\* or when a shader does not compile or link, before the loop is set up.
Effect(u, can) ==
  IF can = "nowebgl" THEN [u EXCEPT !.mode = "nowebgl"]
  ELSE IF u.ctx \in {"lost", "released"} THEN [u EXCEPT !.listening = TRUE, !.mode = "nowebgl"]
  ELSE IF can = "shaderfail"
  THEN [u EXCEPT !.ctx = "live", !.listening = TRUE, !.lost = FALSE, !.mode = "shaderfail"]
  ELSE [u EXCEPT !.ctx = "live", !.listening = TRUE, !.lost = FALSE, !.loop = TRUE,
                 !.mode = "ok", !.rm = u.prefersReduced]

cancelFrame(u) == [u EXCEPT !.frames = IF u.raf THEN @ - 1 ELSE @, !.raf = FALSE]
\* cleanup(): the teardowns registered so far, in order.
Teardown(u) ==
  LET v == [u EXCEPT !.listening = FALSE,
                     !.ctx = IF u.listening THEN "released" ELSE @,
                     !.lossEvent = @ \/ (u.listening /\ u.ctx = "live")]
  IN IF u.loop THEN [cancelFrame(v) EXCEPT !.runningRef = FALSE] ELSE v

Init == \E can \in Outcomes, reduced \in BOOLEAN :
          ui = Effect([Blank EXCEPT !.prefersReduced = reduced], can)

start(u) == IF u.prefersReduced \/ u.lost THEN u
            ELSE [u EXCEPT !.runningRef = TRUE, !.running = TRUE, !.raf = TRUE,
                           !.frames = IF u.raf THEN @ ELSE @ + 1]       \* schedule
stop(u) == cancelFrame([u EXCEPT !.runningRef = FALSE, !.running = FALSE])
Toggle == /\ ui.mounted /\ View.button # {} /\ View.enabled /\ ~ui.hidden
          /\ ui' = IF ui.running THEN stop(ui) ELSE start(ui)

\* loop: one callback is consumed; it draws and asks for the next one.
Loop == /\ ui.frames > 0 /\ ~ui.hidden
        /\ LET go == ui.runningRef /\ ~ui.lost /\ ~ui.prefersReduced
           IN ui' = [ui EXCEPT !.raf = go, !.frames = IF go THEN @ ELSE @ - 1]

\* The media query's listener and the document's visibility listener; stopRef
\* does nothing before a completed effect has set it.
OnRmChange ==
  /\ ui.mounted
  /\ LET u == [ui EXCEPT !.prefersReduced = ~@, !.rm = ~ui.prefersReduced]
     IN ui' = IF u.prefersReduced /\ ui.loop THEN stop(u) ELSE u
OnVisibility ==
  /\ ui.mounted
  /\ LET u == [ui EXCEPT !.hidden = ~@]
     IN ui' = IF ~ui.loop THEN u
              ELSE IF u.hidden THEN cancelFrame(u)
              ELSE IF u.runningRef /\ ~u.lost /\ ~u.prefersReduced
              THEN [u EXCEPT !.raf = TRUE, !.frames = IF u.raf THEN @ ELSE @ + 1]
              ELSE u

\* The browser loses the context, or delivers the queued event of loseContext().
onLost(u) == cancelFrame([u EXCEPT !.lost = TRUE, !.runningRef = FALSE, !.running = FALSE,
                                   !.mode = "nowebgl"])
Lose == /\ ui.mounted /\ ui.ctx = "live"
        /\ ui' = onLost([ui EXCEPT !.ctx = "lost"])
LossDelivered == /\ ui.lossEvent
                 /\ LET u == [ui EXCEPT !.lossEvent = FALSE]
                    IN ui' = IF u.listening THEN onLost(u) ELSE u
\* onRestored re-runs the effect: first the old run's cleanup, then its body.
OnRestored == /\ ui.mounted /\ ui.listening /\ ui.ctx = "lost"
              /\ ui' = [ui EXCEPT !.ctx = "live", !.lost = FALSE, !.reinit = TRUE]
Reinit == /\ ui.reinit
          /\ ui' = Effect([Teardown(ui) EXCEPT !.reinit = FALSE, !.loop = FALSE], "ok")

Unmount == ui.mounted /\ ui' = [Teardown(ui) EXCEPT !.mounted = FALSE, !.loop = FALSE,
                                                    !.reinit = FALSE]

Answered == LossDelivered \/ Reinit
Next == \/ Toggle \/ Loop \/ OnRmChange \/ OnVisibility \/ Lose \/ OnRestored \/ Unmount
        \/ Answered

\* The button reads "pause" exactly while a frame is coming: one frame, on a
\* live context, never two at a time and none on a hidden or unmounted panel.
LoopsMatch == /\ ui.frames = IF ui.mounted /\ ui.running /\ ~ui.hidden THEN 1 ELSE 0
              /\ ui.raf = (ui.frames = 1)
              /\ ui.frames = 1 => ui.ctx = "live" /\ ui.mode = "ok"
\* Everything an unmounted panel held is released.
Released == ~ui.mounted => ~ui.listening /\ ui.ctx \in {"none", "released", "lost"}
\* "robust to WebGL context-loss (it genuinely reinitialises on restore)".
RestoreReinitialises == ui.reinit /\ ui.mounted /\ ui'.mounted /\ ~ui'.reinit => ui'.mode = "ok"
Idle == ~ui.reinit /\ ~ui.lossEvent
=============================================================================
