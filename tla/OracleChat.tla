----------------------------- MODULE OracleChat ----------------------------
(***************************************************************************)
(* The oracle chat (components/OracleChat.tsx): a question is posted and   *)
(* its answer read frame by frame; the text is committed when the stream   *)
(* ends.  An error frame re-enables the form at once, while the read loop  *)
(* goes on to the end of the stream, so two loops can be alive.            *)
(*                                                                         *)
(* External: after an error frame the backend ends the stream (oracle.py). *)
(***************************************************************************)
EXTENDS TurnstileWidget

CONSTANTS
  MaxAsk,        \* bound: questions in a behaviour
  MaxTrace,      \* bound: trace frames on screen
  Projects, Stations, Pages, Writeups   \* the slugs of the four namespaces

Kinds == <<"project", "station", "page", "writeup">>
Namespace(kind) == CASE kind = "project" -> Projects [] kind = "station" -> Stations
                     [] kind = "page" -> Pages [] OTHER -> Writeups
\* parseCtx: a typed slug is looked up in its own namespace, a bare one in the
\* four of them in order; kind "" is the bare form.  {} is null.
parseCtx(raw) ==
  LET found == {i \in 1..4 : raw.key \in Namespace(Kinds[i])
                             /\ raw.kind \in {"", Kinds[i]}}
  IN IF found = {} THEN {}
     ELSE {[kind |-> Kinds[CHOOSE i \in found : \A j \in found : i <= j], key |-> raw.key]}
Raw == [kind : {"", "project", "page", "junk"}, key : Projects \cup Stations \cup {"junk"}]

Message(role, q) == [role |-> role, q |-> q]
\* streams: the read loops alive, by question; cut: a loop was cut after its
\* error frame (history).  input: something is typed.
Init == \E on \in BOOLEAN, raw \in Raw :
  ui = [mounted |-> TRUE, bot |-> BotInit(on), input |-> FALSE, messages |-> <<>>,
        trace |-> <<>>, phase |-> "idle", error |-> "", context |-> parseCtx(raw),
        asked |-> 0, streams |-> {}, cut |-> FALSE]

View == [inputEnabled |-> ui.phase # "streaming",
         canSend  |-> ui.phase # "streaming" /\ ui.input /\ HasToken(ui.bot),
         thinking |-> ui.phase = "streaming",
         alert    |-> IF ui.phase = "error" THEN ui.error ELSE "",
         chip     |-> ui.context # {},
         bot      |-> BotView(ui.bot),
         log      |-> ui.messages,
         trace    |-> ui.trace,
         traceIdle |-> ui.trace = <<>> /\ ui.phase # "streaming"]

Type == /\ ui.mounted /\ View.inputEnabled /\ ~ui.input
        /\ ui' = [ui EXCEPT !.input = TRUE]
ClearContext == ui.mounted /\ View.chip /\ ui' = [ui EXCEPT !.context = {}]

\* Enter submits the form whatever the button shows.
send == IF ~ui.input \/ ui.phase = "streaming" THEN UNCHANGED ui
        ELSE IF ~HasToken(ui.bot)
        THEN ui' = [ui EXCEPT !.phase = "error", !.error = "solve the bot check"]
        ELSE LET q == ui.asked + 1
             IN ui' = [ui EXCEPT !.asked = q, !.messages = Append(@, Message("user", q)),
                         !.input = FALSE, !.trace = <<>>, !.phase = "streaming", !.error = "",
                         !.streams = @ \cup {[q |-> q, token |-> ui.bot.token, reading |-> FALSE,
                                              text |-> FALSE, failed |-> FALSE]}]
Submit == ui.mounted /\ ui.asked < MaxAsk /\ send

Without(u, s) == [u EXCEPT !.streams = @ \ {s}]
Becomes(s, t) == [ui EXCEPT !.streams = (@ \ {s}) \cup {t}]
Fail(u, why) == IF u.mounted THEN [u EXCEPT !.phase = "error", !.error = why] ELSE u

OnRefused == \E s \in ui.streams :
  ~s.reading /\ ui' = Fail(AfterResponse(Without(ui, s), s.token), "refused")
OnHeaders == \E s \in ui.streams :
  ~s.reading /\ ui' = AfterResponse(Becomes(s, [s EXCEPT !.reading = TRUE]), s.token)
OnFrame == \E s \in ui.streams :
  /\ s.reading /\ ~s.failed
  /\ \/ ~s.text /\ ui' = Becomes(s, [s EXCEPT !.text = TRUE])             \* token
     \/ /\ Len(ui.trace) < MaxTrace                                        \* trace
        /\ ui' = IF ui.mounted THEN [ui EXCEPT !.trace = Append(@, s.q)] ELSE ui
     \/ ui' = Fail(Becomes(s, [s EXCEPT !.failed = TRUE]), "stream error") \* error
OnEnd == \E s \in ui.streams :
  /\ s.reading
  /\ ui' = IF ~ui.mounted \/ s.failed THEN Without(ui, s)
           ELSE [Without(ui, s) EXCEPT
                   !.messages = IF s.text THEN Append(@, Message("assistant", s.q)) ELSE @,
                   !.phase = "idle"]
OnThrow == \E s \in ui.streams :
  ui' = Fail([Without(ui, s) EXCEPT !.cut = @ \/ s.failed], "faltered")

\* The controller of the latest question is aborted; an older loop runs on.
Unmount == ui.mounted /\ ui' = [ui EXCEPT !.mounted = FALSE,
                                          !.streams = {s \in @ : s.q # ui.asked}]

Answered == OnRefused \/ OnHeaders \/ OnEnd \/ OnThrow
Next == Type \/ ClearContext \/ Submit \/ Answered \/ OnFrame \/ BotStep \/ Unmount

Live == {s \in ui.streams : ~s.failed}
\* An answer stands under its own question and the trace is the latest one's,
\* unless a loop was cut after its error frame while a later one was reading.
ShownIsCurrent == ~ui.cut =>
  /\ \A i \in 1..Len(ui.messages) : ui.messages[i].role = "assistant" =>
       i > 1 /\ ui.messages[i - 1] = Message("user", ui.messages[i].q)
  /\ \A i \in 1..Len(ui.trace) : ui.trace[i] = ui.asked
\* One question is being answered exactly while the form waits for it.
BusyMatches == ui.mounted /\ ~ui.cut =>
  /\ Cardinality(Live) = IF View.thinking THEN 1 ELSE 0
  /\ \A s \in Live : s.q = ui.asked
\* No request carries a token that an answered one has used, with the same exception:
\* the loop that is cut re-enables the form over the request that is out.
FreshToken == ~ui.cut => \A s \in ui.streams : ~s.reading => s.token \notin ui.bot.spent
Idle == ui.streams = {}
=============================================================================
