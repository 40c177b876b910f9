------------------------------- MODULE JdForm -------------------------------
(***************************************************************************)
(* The two forms that take a job description: the analyzer (components/    *)
(* JdAnalyzer.tsx) and the resume tailor (components/JdTailor.tsx).  They  *)
(* follow one protocol against two routes: one request at a time, answered *)
(* whole; the last result is dropped when a new one is asked for.  A       *)
(* result is the request it answers; so is the text the copy button puts   *)
(* on the clipboard.                                                       *)
(***************************************************************************)
EXTENDS TurnstileWidget

CONSTANT MaxAsk   \* bound: requests in a behaviour

\* out: the request out, with its token; timers: those of the copy button.
Init == \E on \in BOOLEAN :
  ui = [mounted |-> TRUE, bot |-> BotInit(on), text |-> FALSE, result |-> 0,
        phase |-> "idle", error |-> "", asked |-> 0, out |-> {}, clipboard |-> 0,
        copied |-> FALSE, timers |-> 0]

View == [inputEnabled |-> ui.phase # "pending",
         canSend |-> ui.phase # "pending" /\ ui.text /\ HasToken(ui.bot),
         bot     |-> BotView(ui.bot),
         status  |-> IF ui.phase = "pending" THEN "asking"
                     ELSE IF ui.phase = "idle" /\ ui.result # 0 THEN "ready" ELSE "",
         alert   |-> IF ui.phase = "error" THEN ui.error ELSE "",
         answer  |-> ui.result,
         copy    |-> IF ui.result = 0 THEN {} ELSE {IF ui.copied THEN "copied" ELSE "copy"}]

Type == /\ ui.mounted /\ View.inputEnabled
        /\ \E some \in BOOLEAN : ui' = [ui EXCEPT !.text = some]

submit == IF ~ui.text \/ ui.phase = "pending" THEN UNCHANGED ui
          ELSE IF ~HasToken(ui.bot)
          THEN ui' = [ui EXCEPT !.phase = "error", !.error = "solve the bot check"]
          ELSE ui' = [ui EXCEPT !.phase = "pending", !.error = "", !.result = 0,
                                !.asked = @ + 1,
                                !.out = {[q |-> ui.asked + 1, token |-> ui.bot.token]}]
Submit == ui.mounted /\ ui.asked < MaxAsk /\ submit

OnResult == \E r \in ui.out :
  ui' = [AfterResponse(ui, r.token) EXCEPT !.out = {}, !.result = r.q, !.phase = "idle"]
\* A refusal is a response; a network error is not, and keeps the token.
OnRefused == \E r \in ui.out :
  ui' = [AfterResponse(ui, r.token) EXCEPT !.out = {}, !.phase = "error", !.error = "refused"]
OnThrow == \E r \in ui.out :
  ui' = [ui EXCEPT !.out = {}, !.phase = "error", !.error = "faltered"]

\* The text is made of the result on screen.
copyAll == /\ ui.mounted /\ View.copy # {} /\ ui.timers < 2
           /\ ui' = [ui EXCEPT !.copied = TRUE, !.timers = @ + 1, !.clipboard = View.answer]
CopyTimer == ui.timers > 0 /\ ui' = [ui EXCEPT !.timers = @ - 1, !.copied = FALSE]

\* OracleTabs mounts the active panel only; nothing is aborted here.
Unmount == ui.mounted /\ ui' = [ui EXCEPT !.mounted = FALSE]

Answered == OnResult \/ OnRefused \/ OnThrow \/ CopyTimer
Next == Type \/ Submit \/ Answered \/ copyAll \/ BotStep \/ Unmount

\* What is on screen answers the latest request, and never stands next to an
\* error or to the notice that a request is out; no copy is of an answer that was
\* not there.
ShownIsCurrent == /\ ui.result \in {0, ui.asked}
                  /\ View.answer # 0 /\ ui.mounted => View.alert # "refused" /\ ui.out = {}
                  /\ (View.status = "asking") = (ui.out # {})
                  /\ ui.clipboard <= ui.asked
FreshToken == \A r \in ui.out : r.token \notin ui.bot.spent
Idle == ui.out = {} /\ ui.timers = 0
=============================================================================
