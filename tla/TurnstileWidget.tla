-------------------------- MODULE TurnstileWidget --------------------------
(***************************************************************************)
(* The bot check every model form embeds (components/TurnstileWidget.tsx): *)
(* the widget is mounted once the visitor engages, its script is loaded    *)
(* once per page, and a solved check hands the form a single-use token.    *)
(*                                                                         *)
(* The forms extend this module: ui.bot is the part of their state that    *)
(* the widget's callbacks write.  A token is its number, 0 the empty one.  *)
(***************************************************************************)
EXTENDS Integers, Sequences, FiniteSets

CONSTANT MaxTokens   \* bound: checks solved in a behaviour

VARIABLE ui

\* on: TURNSTILE_ON; script: scriptPromise; spent: tokens of requests that got a
\* response (history).
BotInit(on) == [on |-> on, engaged |-> FALSE, unavailable |-> FALSE, script |-> "none",
                token |-> 0, solved |-> 0, spent |-> {}]

\* What the form shows under its controls.
BotView(b) == IF ~b.on THEN "" ELSE IF b.unavailable THEN "unavailable"
              ELSE IF b.engaged THEN "widget" ELSE "hint"
HasToken(b) == ~b.on \/ b.token # 0
WidgetUp == ui.mounted /\ BotView(ui.bot) = "widget" /\ ui.bot.script = "loaded"

\* onFocus mounts the widget, whose effect loads the script.
Engage == /\ ui.mounted /\ BotView(ui.bot) = "hint"
          /\ ui' = [ui EXCEPT !.bot.engaged = TRUE,
                              !.bot.script = IF @ = "none" THEN "loading" ELSE @]
ScriptSettles == /\ ui.bot.script = "loading"
                 /\ \/ ui' = [ui EXCEPT !.bot.script = "loaded"]
                    \/ ui' = [ui EXCEPT !.bot.script = "blocked",
                                        !.bot.unavailable = ui.mounted]
Solved == /\ WidgetUp /\ ui.bot.token = 0 /\ ui.bot.solved < MaxTokens
          /\ ui' = [ui EXCEPT !.bot.solved = @ + 1, !.bot.token = ui.bot.solved + 1]
Expired == WidgetUp /\ ui.bot.token # 0 /\ ui' = [ui EXCEPT !.bot.token = 0]
WidgetError == WidgetUp /\ ui' = [ui EXCEPT !.bot.unavailable = TRUE]

BotStep == Engage \/ ScriptSettles \/ Solved \/ Expired \/ WidgetError

\* Mutant: the widget is asked for a fresh solve, but the old token is kept.
AfterResponseKeepsToken(u, token) == [u EXCEPT !.bot.spent = @ \cup ({token} \ {0})]
\* A response has arrived: resetRef asks for a fresh solve, the token is dropped.
AfterResponse(u, token) == [u EXCEPT !.bot.token = 0, !.bot.spent = @ \cup ({token} \ {0})]
=============================================================================
