--------------------------- MODULE ConstructRain ---------------------------
(***************************************************************************)
(* The loop of the immersive résumé (resume/Immersive.tsx): the device's   *)
(* tier and its budget, the reveal of the cards that are hidden before the *)
(* first frame, the decoding of a focused card's texts, and the adaptive   *)
(* density of the rain, in hundredths.                                     *)
(***************************************************************************)
EXTENDS Integers

CONSTANTS
  Texts,     \* the decodable texts of the cards
  MaxFocus   \* bound: how often a card is focused

VARIABLE ui

\* What the detector reads: coarse pointer, cores, memory in GB, the GPU's score.
Signals == [reduce : BOOLEAN, coarse : BOOLEAN, cores : {0, 4, 8}, mem : {0, 4, 8}, gpu : 0..2]
detectTier(d) ==
  LET score == (IF ~d.coarse /\ d.cores >= 8 THEN 2 ELSE IF d.cores >= 4 THEN 1 ELSE 0)
               + (IF d.mem >= 8 THEN 2 ELSE IF d.mem >= 4 THEN 1 ELSE 0)
               - (IF d.coarse THEN 2 ELSE 0) + d.gpu
  IN IF d.reduce THEN 0
     ELSE IF score >= 5 THEN 3 ELSE IF score >= 3 THEN 2 ELSE IF score >= 1 THEN 1 ELSE 0
TierDensity == <<40, 60, 85, 100>>
Budget(tier) == TierDensity[tier + 1]

\* canvas: the context exists, otherwise the effect ends after revealing the cards.
\* text[t]: what the element holds; raf: the decodes in flight with the text that each
\* took for the final one; fallback: the reveal timer.
Init == \E tier \in {detectTier(d) : d \in Signals}, canvas \in BOOLEAN :
  ui = [mounted |-> TRUE, tier |-> tier, density |-> Budget(tier), loop |-> canvas,
        fallback |-> canvas, revealed |-> ~canvas, text |-> [t \in Texts |-> "final"],
        raf |-> [t \in Texts |-> ""], hidden |-> FALSE, foci |-> 0]

\* settle() of the decodes in flight among ts.
settle(u, ts) ==
  [u EXCEPT !.text = [t \in Texts |-> IF t \in ts /\ u.raf[t] # "" THEN u.raf[t] ELSE @[t]],
            !.raf = [t \in Texts |-> IF t \in ts THEN "" ELSE @[t]]]
\* startDecode: a decode in flight is settled before its text is read again.
startDecode(u, ts) ==
  LET v == settle(u, ts)
  IN [v EXCEPT !.raf = [t \in Texts |-> IF t \in ts THEN v.text[t] ELSE @[t]]]

\* frame(): it may focus another card, whose texts begin to decode, and every 30
\* frames the density is lowered if they were slow.
frame == /\ ui.loop /\ ~ui.hidden
         /\ \E slow \in BOOLEAN, ts \in IF ui.foci < MaxFocus THEN SUBSET Texts ELSE {{}} :
              LET u == IF ts = {} THEN ui ELSE [startDecode(ui, ts) EXCEPT !.foci = @ + 1]
              IN ui' = [u EXCEPT !.revealed = TRUE,
                          !.density = IF slow /\ @ > 30 THEN (IF @ - 20 > 30 THEN @ - 20 ELSE 30)
                                      ELSE @]
tick == /\ ~ui.hidden
        /\ \E t \in Texts : /\ ui.raf[t] # ""
                            /\ \/ ui' = [ui EXCEPT !.text[t] = "scramble"]
                               \/ ui' = settle(ui, {t})
revealFallback == /\ ui.fallback
                  /\ ui' = [ui EXCEPT !.fallback = FALSE, !.revealed = TRUE]
\* The browser stops the frames of a hidden page; timers go on.
Hide == ui.mounted /\ ui' = [ui EXCEPT !.hidden = ~@]

Unmount == /\ ui.mounted
           /\ ui' = [settle(ui, Texts) EXCEPT !.mounted = FALSE, !.loop = FALSE, !.fallback = FALSE,
                                          !.revealed = TRUE]

Answered == revealFallback \/ tick
Next == frame \/ tick \/ revealFallback \/ Hide \/ Unmount

\* A text that is not being decoded is the résumé's own.
ShownIsCurrent == \A t \in Texts : ui.raf[t] = "" => ui.text[t] = "final"
\* The rain never exceeds the device's budget nor drops below the floor.
LoopsMatch == /\ ui.density >= 30 /\ ui.density <= Budget(ui.tier)
              /\ ~ui.mounted => ~ui.fallback /\ \A t \in Texts : ui.raf[t] = ""
\* "if rAF is throttled to zero the résumé must never stay hidden".
Waiting == ~ui.revealed
Idle == \A t \in Texts : ui.raf[t] = ""
=============================================================================
