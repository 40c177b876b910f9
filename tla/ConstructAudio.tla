--------------------------- MODULE ConstructAudio ---------------------------
(***************************************************************************)
(* The two switches of the immersive résumé (resume/Immersive.tsx): the    *)
(* sound, one persistent graph that a stored choice may only start at the  *)
(* first gesture, and the tint of the rain.                                *)
(***************************************************************************)
EXTENDS Integers

VARIABLE ui

\* able: the browser has an AudioContext; ctx, loud, tick, silent: the audio graph, its
\* master gain, the decode tick, and the silent element; armed: unlock() is listening;
\* bare: the switch was pressed without a gesture the page could see (history).
\* attr, rain: the tint of the page's attribute and of the rain as it was built.
Init == \E on, green, able \in BOOLEAN :
  ui = [mounted |-> TRUE, able |-> able, audioOn |-> on, stored |-> on, ctx |-> "none",
        loud |-> FALSE, tick |-> FALSE, silent |-> "none", armed |-> on, bare |-> FALSE,
        green |-> green, storedGreen |-> green, attr |-> green, rain |-> green,
        deja |-> FALSE]

View == [audio |-> IF ui.audioOn THEN "audio on" ELSE "audio off",
         tint  |-> IF ui.green THEN "green" ELSE "violet"]

enableAudio(u) == IF ~u.able THEN u
                  ELSE [u EXCEPT !.ctx = "open", !.loud = TRUE, !.tick = TRUE,
                                 !.silent = "playing"]
disableAudio(u) == [u EXCEPT !.loud = FALSE, !.tick = FALSE,
                             !.silent = IF @ = "none" THEN @ ELSE "paused"]

\* The first pointerdown or keydown anywhere.
unlock == ui.mounted /\ ui.armed /\ ui' = enableAudio([ui EXCEPT !.armed = FALSE])
\* A click follows its pointerdown or keydown, unless a program made it.
toggleAudio == /\ ui.mounted
               /\ LET u == [ui EXCEPT !.audioOn = ~@, !.stored = ~ui.audioOn,
                                      !.bare = @ \/ ui.armed]
                  IN ui' = IF u.audioOn THEN enableAudio(u) ELSE disableAudio(u)
\* The switch stores, the effect of [tint] redraws.
toggleTint == /\ ui.mounted
              /\ LET g == ~ui.green
                 IN ui' = [ui EXCEPT !.green = g, !.storedGreen = g, !.attr = g, !.rain = g,
                                     !.deja = TRUE]
DejaOver == ui.deja /\ ui' = [ui EXCEPT !.deja = FALSE]

Unmount == ui.mounted /\ ui' = [ui EXCEPT !.mounted = FALSE, !.armed = FALSE, !.deja = FALSE,
             !.ctx = IF @ = "none" THEN @ ELSE "closed", !.loud = FALSE, !.silent = "none"]

Answered == DejaOver
Next == unlock \/ toggleAudio \/ toggleTint \/ DejaOver \/ Unmount

\* It sounds only if the switch says so, and does as soon as a gesture was made;
\* what is stored is what is shown.
ShownIsCurrent ==
  /\ ~ui.bare => (ui.loud => ui.audioOn)
  /\ ui.mounted /\ ui.audioOn /\ ui.able /\ ~ui.armed => ui.loud
  /\ ui.stored = ui.audioOn /\ ui.storedGreen = ui.green
\* Ticks, the silent loop and the gain go together, and all end with the page.
LoopsMatch == /\ ui.mounted => ui.tick = ui.loud /\ ui.loud = (ui.silent = "playing")
              /\ ~ui.mounted => ui.silent = "none" /\ ui.ctx # "open"
Idle == ~ui.deja
=============================================================================
