---------------------------- MODULE StudioPanel ----------------------------
(***************************************************************************)
(* The theme studio (components/StudioPanel.tsx): a mood is sent and the   *)
(* palette that comes back is applied to the page.  "reset to arcane"      *)
(* stays enabled while a request is out: it makes the form idle, so the    *)
(* same token can be sent again, and the late palette still replaces the   *)
(* theme the visitor went back to.  `interrupted` records that it happened.*)
(***************************************************************************)
EXTENDS TurnstileWidget

CONSTANT MaxAsk   \* bound: requests in a behaviour

\* theme: the palette on the page: 0 for arcane, n for the one of request n.
Init == \E on \in BOOLEAN :
  ui = [mounted |-> TRUE, bot |-> BotInit(on), mood |-> FALSE, phase |-> "idle", error |-> "",
        asked |-> 0, out |-> {}, theme |-> 0, interrupted |-> FALSE]

View == [inputEnabled |-> ui.phase # "pending",
         canSend |-> ui.phase # "pending" /\ ui.mood /\ HasToken(ui.bot),
         bot     |-> BotView(ui.bot),
         status  |-> IF ui.phase = "pending" THEN "regenerating"
                     ELSE IF ui.phase = "applied" THEN "applied" ELSE "",
         alert   |-> IF ui.phase = "error" THEN ui.error ELSE ""]

Type == /\ ui.mounted /\ View.inputEnabled
        /\ \E some \in BOOLEAN : ui' = [ui EXCEPT !.mood = some]

submit == IF ~ui.mood \/ ui.phase = "pending" THEN UNCHANGED ui
          ELSE IF ~HasToken(ui.bot)
          THEN ui' = [ui EXCEPT !.phase = "error", !.error = "solve the bot check"]
          ELSE ui' = [ui EXCEPT !.phase = "pending", !.error = "", !.asked = @ + 1,
                        !.out = @ \cup {[q |-> ui.asked + 1, token |-> ui.bot.token]}]
Submit == ui.mounted /\ ui.asked < MaxAsk /\ submit

OnPalette == \E r \in ui.out :
  ui' = [AfterResponse(ui, r.token) EXCEPT !.out = @ \ {r}, !.theme = r.q, !.phase = "applied"]
OnRefused == \E r \in ui.out :
  ui' = [AfterResponse(ui, r.token) EXCEPT !.out = @ \ {r}, !.phase = "error",
                                           !.error = "refused"]
OnThrow == \E r \in ui.out :
  ui' = [ui EXCEPT !.out = @ \ {r}, !.phase = "error", !.error = "faltered"]

reset == /\ ui.mounted
         /\ ui' = [ui EXCEPT !.theme = 0, !.phase = "idle", !.mood = FALSE,
                             !.interrupted = @ \/ ui.out # {}]

Unmount == ui.mounted /\ ui' = [ui EXCEPT !.mounted = FALSE]

Answered == OnPalette \/ OnRefused \/ OnThrow
Next == Type \/ Submit \/ Answered \/ reset \/ BotStep \/ Unmount

\* Unless a request was reset over, the palette announced as applied is the one
\* of the latest mood, and the form is locked exactly while it is out.
ShownIsCurrent == ~ui.interrupted =>
  /\ View.status = "applied" => ui.theme = ui.asked
  /\ (View.status = "regenerating") = (ui.out # {})
  /\ Cardinality(ui.out) <= 1
FreshToken == ~ui.interrupted => \A r \in ui.out : r.token \notin ui.bot.spent
Idle == ui.out = {}
=============================================================================
