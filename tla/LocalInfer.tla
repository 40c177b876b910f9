----------------------------- MODULE LocalInfer ----------------------------
(***************************************************************************)
(* The local-model demo (components/LocalInfer.tsx): one streamed run at a *)
(* time.  Its read loop returns on the first error frame, so, unlike the   *)
(* oracle's, it never outlives the run it reads.                           *)
(***************************************************************************)
EXTENDS TurnstileWidget

CONSTANT MaxAsk   \* bound: runs in a behaviour

\* stream: the run being read; output and stats: the run they came from (0: none).
Init == \E on \in BOOLEAN :
  ui = [mounted |-> TRUE, bot |-> BotInit(on), prompt |-> FALSE, output |-> 0, model |-> FALSE,
        stats |-> 0, phase |-> "idle", error |-> "", asked |-> 0, stream |-> {}]

View == [inputEnabled |-> ui.phase # "streaming",
         canSend |-> ui.phase # "streaming" /\ ui.prompt /\ HasToken(ui.bot),
         bot     |-> BotView(ui.bot),
         alert   |-> IF ui.phase = "error" THEN ui.error ELSE "",
         text    |-> IF ui.output # 0 THEN {ui.output} ELSE {},
         waiting |-> ui.phase = "streaming" /\ ui.output = 0,
         modelLine |-> ui.model /\ (ui.output # 0 \/ ui.phase = "streaming"),
         stats   |-> ui.stats]

Type == /\ ui.mounted /\ View.inputEnabled
        /\ \E some \in BOOLEAN : ui' = [ui EXCEPT !.prompt = some]

run == IF ~ui.prompt \/ ui.phase = "streaming" THEN UNCHANGED ui
       ELSE IF ~HasToken(ui.bot)
       THEN ui' = [ui EXCEPT !.phase = "error", !.error = "solve the bot check"]
       ELSE ui' = [ui EXCEPT !.output = 0, !.stats = 0, !.phase = "streaming", !.error = "",
                     !.asked = @ + 1,
                     !.stream = {[q |-> ui.asked + 1, token |-> ui.bot.token, reading |-> FALSE]}]
Submit == ui.mounted /\ ui.asked < MaxAsk /\ run

Fail(u, why) == IF u.mounted THEN [u EXCEPT !.stream = {}, !.phase = "error", !.error = why]
                ELSE [u EXCEPT !.stream = {}]
OnRefused == \E s \in ui.stream :
  ~s.reading /\ ui' = Fail(AfterResponse(ui, s.token), "refused")
OnHeaders == \E s \in ui.stream :
  ~s.reading /\ ui' = [AfterResponse(ui, s.token) EXCEPT !.stream = {[s EXCEPT !.reading = TRUE]}]
OnFrame == \E s \in ui.stream :
  /\ s.reading
  /\ \/ ui' = [ui EXCEPT !.model = TRUE]               \* meta
     \/ ui' = [ui EXCEPT !.output = s.q]               \* token
     \/ ui' = [ui EXCEPT !.stats = s.q]                \* stats
OnErrorFrame == \E s \in ui.stream : s.reading /\ ui' = Fail(ui, "local stream faltered")
OnEnd == \E s \in ui.stream :
  s.reading /\ ui' = [ui EXCEPT !.stream = {}, !.phase = IF ui.mounted THEN "idle" ELSE @]
OnThrow == \E s \in ui.stream : ui' = Fail(ui, "connection lost")

\* The abort frees the server's slot; the loop ends with an AbortError.
Unmount == ui.mounted /\ ui' = [ui EXCEPT !.mounted = FALSE, !.stream = {}]

Answered == OnRefused \/ OnHeaders \/ OnErrorFrame \/ OnEnd \/ OnThrow
Next == Type \/ Submit \/ Answered \/ OnFrame \/ BotStep \/ Unmount

\* The text and the measurements on screen are the latest run's.
ShownIsCurrent == /\ View.text \subseteq {ui.asked}
                  /\ View.stats \in {0, ui.asked}
\* The form waits exactly while one run is read, and reads none once unmounted.
BusyMatches == /\ ui.mounted => (ui.phase = "streaming") = (ui.stream # {})
               /\ ~ui.mounted => ui.stream = {}
FreshToken == \A s \in ui.stream : ~s.reading => s.token \notin ui.bot.spent
Idle == ui.stream = {}
=============================================================================
