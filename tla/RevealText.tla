----------------------------- MODULE RevealText -----------------------------
(***************************************************************************)
(* The two components that animate a text they must end up showing:        *)
(* MatrixText, an oracle answer that is scrambled and resolves, with a     *)
(* timer for pages whose frames are paused, and CountUpText, a live number *)
(* that counts up when it becomes active and afterwards changes at once.   *)
(***************************************************************************)
EXTENDS Integers

CONSTANT
  Scrambles,  \* MatrixText, or CountUpText
  MaxTexts   \* bound: texts in a behaviour

VARIABLE ui

\* text: the prop; shown: the text on screen or "partial"; frame: the text whose
\* animation frame is pending (0: none), timer: the text the settle timer is set for.
Init == \E active, reduced \in BOOLEAN :
  ui = [mounted |-> TRUE, text |-> 1, active |-> active, wasActive |-> active, shown |-> 1,
        frame |-> IF (Scrambles \/ active) /\ ~reduced THEN 1 ELSE 0,
        timer |-> IF Scrambles /\ ~reduced THEN 1 ELSE 0, reduced |-> reduced, hidden |-> FALSE]

\* The cleanup of the effect of [text, active] and the effect itself.
Effect(u) ==
  LET starts == ~u.reduced /\ IF Scrambles THEN TRUE ELSE u.active /\ ~u.wasActive
  IN [u EXCEPT !.wasActive = u.active, !.frame = IF starts THEN u.text ELSE 0,
               !.timer = IF Scrambles /\ starts THEN u.text ELSE 0,
               \* React renders MatrixText's new text, CountUpText keeps its own state.
               !.shown = IF Scrambles \/ ~starts THEN u.text ELSE @]
NewText == /\ ui.mounted /\ ui.text < MaxTexts
           /\ ui' = Effect([ui EXCEPT !.text = @ + 1])
Activate == /\ ui.mounted /\ ~Scrambles
            /\ ui' = Effect([ui EXCEPT !.active = ~@])
FlipMotion == ui.mounted /\ ui' = [ui EXCEPT !.reduced = ~@]
Hide == ui.mounted /\ ui' = [ui EXCEPT !.hidden = ~@]

tick == /\ ui.frame # 0 /\ ~ui.hidden
        /\ \/ ui' = [ui EXCEPT !.shown = 0]                      \* a part of the way
           \/ ui' = [ui EXCEPT !.shown = ui.frame, !.frame = 0]  \* the end
\* Mutant: the end comes by an animation frame only.
settleByFrame == /\ ui.timer # 0 /\ ~ui.hidden
                 /\ ui' = [ui EXCEPT !.shown = ui.timer, !.timer = 0, !.frame = 0]
settle == /\ ui.timer # 0
          /\ ui' = [ui EXCEPT !.shown = ui.timer, !.timer = 0, !.frame = 0]
Unmount == ui.mounted /\ ui' = [ui EXCEPT !.mounted = FALSE, !.frame = 0, !.timer = 0]

Answered == tick \/ settle
Next == NewText \/ Activate \/ FlipMotion \/ Hide \/ tick \/ settle \/ Unmount

\* When nothing is animated the text on screen is the current one.
ShownIsCurrent == ui.mounted /\ ui.frame = 0 => ui.shown = ui.text
LoopsMatch == ui.frame \in {0, ui.text} /\ (~ui.mounted => ui.frame = 0 /\ ui.timer = 0)
\* An answer resolves, on a hidden page too.
Waiting == Scrambles /\ ui.mounted /\ ui.shown # ui.text
Idle == ui.frame = 0 /\ ui.timer = 0
=============================================================================
