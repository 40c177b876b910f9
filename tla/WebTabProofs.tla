---------------------------- MODULE WebTabProofs ----------------------------
(***************************************************************************)
(* Proofs about a browser tab, for any number of requests, solved checks,  *)
(* pulls and frames and any set of cards.  Each component has an invariant *)
(* over the record u of its state; the theorems join them by the case      *)
(* distinction that WebTab makes over its panels.                          *)
(*                                                                         *)
(* First the forms: none sends a Turnstile token that an answered request  *)
(* has used.  A fresh token has a new number, a response empties the token *)
(* in the step in which it spends one, and a form has one request out at a *)
(* time.  The last is where the forms differ, and what their histories     *)
(* `cut` and `interrupted` except.  Then the palette and the resume's      *)
(* layers, and last the components that show readings.                     *)
(***************************************************************************)
EXTENDS WebTab, Sequences, FiniteSetTheorems, TLAPS

Widget == INSTANCE TurnstileWidget

Bot == [on : BOOLEAN, engaged : BOOLEAN, unavailable : BOOLEAN,
        script : {"none", "loading", "loaded", "blocked"},
        token : Nat, solved : Nat, spent : SUBSET Nat]

\* Tokens are numbered as they are solved, and the one at hand is unspent.
TokenSound(b) ==
  /\ b \in Bot
  /\ b.token <= b.solved /\ b.token \notin b.spent
  /\ \A n \in b.spent : n # 0 /\ n <= b.solved

\* What a request out may carry.
Carried(n, b) == n \in Nat /\ n <= b.solved /\ n \notin b.spent

\* One request is out, and what it carries is unspent.
OneOut(out, b) ==
  /\ \A r, s \in out : r = s
  /\ \A r \in out : Carried(r.token, b)

\* The widget by itself spends nothing and does not renumber.
Moves(b, c) == TokenSound(c) /\ c.spent = b.spent /\ b.solved <= c.solved

\* The widget's part after a response to a request with token n.
Used(b, n) == [b EXCEPT !.token = 0, !.spent = @ \cup ({n} \ {0})]

\* The states of a form, of which the widget's part may be replaced.
Botted(State) ==
  \A u \in State :
    /\ u.bot \in Bot /\ u.mounted \in BOOLEAN
    /\ \A c \in Bot : [u EXCEPT !.bot = c] \in State /\ [u EXCEPT !.bot = c].bot = c
    /\ \A c, d \in Bot : [[u EXCEPT !.bot = c] EXCEPT !.bot = d] = [u EXCEPT !.bot = d]

LEMMA Zero == 0 \in Nat /\ 0 \in Int
  OBVIOUS
LEMMA Three == 3 \in Int
  OBVIOUS

LEMMA UsedSound ==
  ASSUME NEW b, NEW n, TokenSound(b), n \in Nat, n <= b.solved
  PROVE  TokenSound(Used(b, n))
  <1>1. Used(b, n) \in Bot
    <2>1. b.spent \cup ({n} \ {0}) \in SUBSET Nat
      BY Zenon DEF TokenSound, Bot
    <2>2. QED
      BY <2>1, 0 \in Nat, Zenon DEF TokenSound, Bot, Used
  <1>2. /\ Used(b, n).token = 0 /\ Used(b, n).solved = b.solved
        /\ Used(b, n).spent = b.spent \cup ({n} \ {0})
    BY Zenon DEF TokenSound, Bot, Used
  <1>3. b.solved \in Nat /\ 0 <= b.solved
    BY DEF TokenSound, Bot
  <1>4. QED
    BY <1>1, <1>2, <1>3 DEF TokenSound

\* A change of what the widget shows.
LEMMA Kept ==
  ASSUME NEW b, NEW c, TokenSound(b), c \in Bot,
         c.token = b.token, c.solved = b.solved, c.spent = b.spent
  PROVE  Moves(b, c)
  <1>1. c.token <= c.solved /\ c.token \notin c.spent
    BY DEF TokenSound
  <1>2. \A n \in c.spent : n # 0 /\ n <= c.solved
    BY DEF TokenSound
  <1>3. b.solved <= c.solved
    BY DEF Bot
  <1>4. QED
    BY <1>1, <1>2, <1>3, Zenon DEF TokenSound, Moves

\* An expired token.
LEMMA Dropped ==
  ASSUME NEW b, NEW c, TokenSound(b), c \in Bot, b.solved \in Nat,
         c.token = 0, c.solved = b.solved, c.spent = b.spent
  PROVE  Moves(b, c)
  <1>1. 0 \notin c.spent /\ c.token <= c.solved
    BY DEF TokenSound
  <1>2. \A n \in c.spent : n # 0 /\ n <= c.solved
    BY DEF TokenSound
  <1>3. b.solved <= c.solved
    OBVIOUS
  <1>4. QED
    BY <1>1, <1>2, <1>3, Zenon DEF TokenSound, Moves

LEMMA AfterResponseIsUsed ==
  ASSUME NEW State, Botted(State), NEW u \in State, NEW n \in Nat
  PROVE  Widget!AfterResponse(u, n) = [u EXCEPT !.bot = Used(u.bot, n)]
  <1> DEFINE c == [u.bot EXCEPT !.token = 0]
  <1>1. u.bot \in Bot
    BY Zenon DEF Botted, Bot
  <1>2. c \in Bot
    BY <1>1, 0 \in Nat, Zenon DEF Bot
  <1>3. u.bot.spent \cup ({n} \ {0}) \in SUBSET Nat
    BY <1>1, Zenon DEF Bot
  <1>4. Used(u.bot, n) \in Bot
    BY <1>1, <1>3, 0 \in Nat, Zenon DEF Used, Bot
  <1>5. [u EXCEPT !.bot = c].bot = c
    BY <1>2, Zenon DEF Botted
  <1>6. Widget!AfterResponse(u, n)
          = [[u EXCEPT !.bot = c] EXCEPT
               !.bot = [[u EXCEPT !.bot = c].bot EXCEPT !.spent = u.bot.spent \cup ({n} \ {0})]]
    BY Zenon DEF Widget!AfterResponse
  <1>7. Used(u.bot, n) = [c EXCEPT !.spent = u.bot.spent \cup ({n} \ {0})]
    BY Zenon DEF Used
  <1>8. Widget!AfterResponse(u, n) = [[u EXCEPT !.bot = c] EXCEPT !.bot = Used(u.bot, n)]
    BY <1>5, <1>6, <1>7, Zenon
  <1>9. QED
    BY <1>2, <1>4, <1>8, Zenon DEF Botted

LEMMA WidgetStep ==
  ASSUME NEW State, Botted(State), ui \in State, TokenSound(ui.bot), Widget!BotStep
  PROVE  \E c \in Bot : Moves(ui.bot, c) /\ ui' = [ui EXCEPT !.bot = c]
  <1> DEFINE b == ui.bot
  <1>1. b \in Bot
    BY DEF TokenSound
  <1>2. CASE Widget!Engage
    <2> DEFINE e == [b EXCEPT !.engaged = TRUE]
               c == [e EXCEPT !.script = IF b.script = "none" THEN "loading" ELSE b.script]
    <2>1. e \in Bot /\ c \in Bot
      BY <1>1, Zenon DEF Bot
    <2>2. c.token = b.token /\ c.solved = b.solved /\ c.spent = b.spent
      BY <1>1, Zenon DEF Bot
    <2>3. ui' = [[ui EXCEPT !.bot = e] EXCEPT !.bot = [[ui EXCEPT !.bot = e].bot EXCEPT
                   !.script = IF b.script = "none" THEN "loading" ELSE b.script]]
      BY <1>2, Zenon DEF Widget!Engage
    <2>4. ui' = [ui EXCEPT !.bot = c]
      BY <2>1, <2>3, Zenon DEF Botted
    <2>5. Moves(b, c)
      BY <2>1, <2>2, Kept, Zenon
    <2>6. QED
      BY <2>1, <2>4, <2>5
  <1>3. CASE Widget!ScriptSettles
    <2>1. CASE ui' = [ui EXCEPT !.bot.script = "loaded"]
      <3> DEFINE c == [b EXCEPT !.script = "loaded"]
      <3>1. c \in Bot /\ c.token = b.token /\ c.solved = b.solved /\ c.spent = b.spent
        BY <1>1, Zenon DEF Bot
      <3>2. Moves(b, c)
        BY <3>1, Kept, Zenon
      <3>3. QED
        BY <2>1, <3>1, <3>2, Zenon
    <2>2. CASE ui' = [ui EXCEPT !.bot.script = "blocked", !.bot.unavailable = ui.mounted]
      <3> DEFINE e == [b EXCEPT !.script = "blocked"]
                 c == [e EXCEPT !.unavailable = ui.mounted]
      <3>1. e \in Bot /\ ui.mounted \in BOOLEAN
        BY <1>1, Zenon DEF Bot, Botted
      <3>2. c \in Bot /\ c.token = b.token /\ c.solved = b.solved /\ c.spent = b.spent
        BY <1>1, <3>1, Zenon DEF Bot
      <3>3. Moves(b, c)
        BY <3>2, Kept, Zenon
      <3>4. ui' = [[ui EXCEPT !.bot = e] EXCEPT !.bot = [[ui EXCEPT !.bot = e].bot EXCEPT
                     !.unavailable = ui.mounted]]
        BY <2>2, Zenon
      <3>5. ui' = [ui EXCEPT !.bot = c]
        BY <3>1, <3>2, <3>4, Zenon DEF Botted
      <3>6. QED
        BY <3>2, <3>3, <3>5
    <2>3. QED
      BY <1>3, <2>1, <2>2 DEF Widget!ScriptSettles
  <1>4. CASE Widget!Solved
    <2> DEFINE e == [b EXCEPT !.solved = b.solved + 1]
               c == [e EXCEPT !.token = b.solved + 1]
    <2>1. b.solved + 1 \in Nat
      BY <1>1 DEF Bot
    <2>2. e \in Bot /\ c \in Bot
      BY <1>1, <2>1, Zenon DEF Bot
    <2>3. c.token = b.solved + 1 /\ c.solved = b.solved + 1 /\ c.spent = b.spent
      BY <1>1, Zenon DEF Bot
    <2>4. ui' = [[ui EXCEPT !.bot = e] EXCEPT !.bot = [[ui EXCEPT !.bot = e].bot EXCEPT
                   !.token = b.solved + 1]]
      BY <1>4, Zenon DEF Widget!Solved
    <2>5. ui' = [ui EXCEPT !.bot = c]
      BY <2>2, <2>4, Zenon DEF Botted
    <2>6. Moves(b, c)
      BY <1>1, <2>2, <2>3 DEF Moves, TokenSound, Bot
    <2>7. QED
      BY <2>2, <2>5, <2>6
  <1>5. CASE Widget!Expired
    <2> DEFINE c == [b EXCEPT !.token = 0]
    <2>1. c \in Bot
      BY <1>1, 0 \in Nat, Zenon DEF Bot
    <2>2. c.token = 0 /\ c.solved = b.solved /\ c.spent = b.spent /\ b.solved \in Nat
      BY <1>1, Zenon DEF Bot
    <2>3. Moves(b, c)
      BY <2>1, <2>2, Dropped, Zenon
    <2>4. QED
      BY <1>5, <2>1, <2>3, Zenon DEF Widget!Expired
  <1>6. CASE Widget!WidgetError
    <2> DEFINE c == [b EXCEPT !.unavailable = TRUE]
    <2>1. c \in Bot /\ c.token = b.token /\ c.solved = b.solved /\ c.spent = b.spent
      BY <1>1, Zenon DEF Bot
    <2>2. Moves(b, c)
      BY <2>1, Kept, Zenon
    <2>3. QED
      BY <1>6, <2>1, <2>2, Zenon DEF Widget!WidgetError
  <1>7. QED
    BY <1>2, <1>3, <1>4, <1>5, <1>6 DEF Widget!BotStep

\* What the widget does by itself spoils no request that is out.
LEMMA OutKept ==
  ASSUME NEW b, NEW c, NEW out, TokenSound(b), Moves(b, c), OneOut(out, b)
  PROVE  OneOut(out, c)
  <1>1. b.solved \in Nat /\ c.solved \in Nat /\ b.solved <= c.solved /\ c.spent = b.spent
    BY DEF TokenSound, Moves, Bot
  <1>2. \A r \in out : r.token \in Nat /\ r.token <= b.solved /\ r.token \notin c.spent
    BY <1>1, Zenon DEF OneOut, Carried
  <1>3. \A r \in out : r.token <= c.solved
    BY <1>1, <1>2
  <1>4. QED
    BY <1>2, <1>3, Zenon DEF OneOut, Carried

LEMMA NoneOut == \A b : OneOut({}, b)
  BY DEF OneOut

\* The request just sent carries the token at hand.
LEMMA JustSent ==
  ASSUME NEW b, NEW r, TokenSound(b), r.token = b.token
  PROVE  OneOut({r}, b)
  <1>1. b.token \in Nat
    BY DEF TokenSound, Bot
  <1>2. QED
    BY <1>1, Zenon DEF TokenSound, OneOut, Carried

LEMMA NoToken == \A on \in BOOLEAN : TokenSound(Widget!BotInit(on))
  <1> SUFFICES ASSUME NEW on \in BOOLEAN PROVE TokenSound(Widget!BotInit(on))
    OBVIOUS
  <1>1. Widget!BotInit(on) \in Bot
    BY 0 \in Nat, Zenon DEF Widget!BotInit, Bot
  <1>2. QED
    BY <1>1 DEF Widget!BotInit, TokenSound

------------------------------------------------------------------------------
(* The job-description analyzer.                                           *)

JdState == [mounted : BOOLEAN, bot : Bot, text : BOOLEAN, result : Nat,
            phase : {"idle", "pending", "error"},
            error : {"", "solve the bot check", "refused", "faltered"}, asked : Nat,
            out : SUBSET [q : Nat, token : Nat], clipboard : Nat, copied : BOOLEAN,
            timers : Int]

JdInv ==
  /\ ui \in JdState
  /\ TokenSound(ui.bot)
  /\ ui.phase # "pending" => ui.out = {}
  /\ OneOut(ui.out, ui.bot)

LEMMA JdBotted == Botted(JdState)
  BY Zenon DEF Botted, JdState

LEMMA JdInit == Jd!Init => JdInv
  <1> SUFFICES ASSUME NEW on \in BOOLEAN, NEW b, b = Jd!BotInit(on),
         ui = [mounted |-> TRUE, bot |-> b, text |-> FALSE, result |-> 0,
               phase |-> "idle", error |-> "", asked |-> 0, out |-> {}, clipboard |-> 0,
               copied |-> FALSE, timers |-> 0]
               PROVE JdInv
    BY Zenon DEF Jd!Init
  <1>1. TokenSound(b)
    BY NoToken, Zenon DEF Jd!BotInit, Widget!BotInit
  <1>2. ui \in JdState
    BY <1>1, Zero, Zenon DEF TokenSound, JdState
  <1>3. QED
    BY <1>1, <1>2, NoneOut, Zenon DEF JdInv

LEMMA JdStep == JdInv /\ Jd!Next => JdInv'
  <1> SUFFICES ASSUME JdInv, Jd!Next PROVE JdInv'
    OBVIOUS
  <1>0. /\ ui \in JdState /\ TokenSound(ui.bot) /\ OneOut(ui.out, ui.bot)
        /\ ui.phase # "pending" => ui.out = {}
        /\ 0 \in Nat /\ ui.asked + 1 \in Nat /\ ui.timers + 1 \in Int /\ ui.timers - 1 \in Int
    <2>1. ui.asked \in Nat /\ ui.timers \in Int
      BY Zenon DEF JdInv, JdState
    <2>2. QED
      BY <2>1 DEF JdInv
  <1>1. ASSUME ui' \in JdState, ui'.bot = ui.bot, ui'.out = ui.out, ui'.phase = ui.phase
        PROVE  JdInv'
    BY <1>0, <1>1, Zenon DEF JdInv
  <1>2. CASE Jd!Type
    BY <1>0, <1>1, <1>2, Zenon DEF Jd!Type, JdState
  <1>3. CASE Jd!Submit
    <2>1. CASE UNCHANGED ui
      BY <1>0, <2>1, Zenon DEF JdInv
    <2>2. CASE /\ ui.phase # "pending"
               /\ ui' = [ui EXCEPT !.phase = "error", !.error = "solve the bot check"]
      <3>1. ui' \in JdState /\ ui'.bot = ui.bot /\ ui'.out = ui.out
        BY <1>0, <2>2, Zenon DEF JdState
      <3>2. QED
        BY <1>0, <2>2, <3>1, Zenon DEF JdInv
    <2>3. CASE ui' = [ui EXCEPT !.phase = "pending", !.error = "", !.result = 0,
                                !.asked = @ + 1,
                                !.out = {[q |-> ui.asked + 1, token |-> ui.bot.token]}]
      <3> DEFINE r == [q |-> ui.asked + 1, token |-> ui.bot.token]
      <3>1. r \in [q : Nat, token : Nat] /\ r.token = ui.bot.token
        BY <1>0, Zenon DEF TokenSound, Bot
      <3>2. ui' \in JdState /\ ui'.bot = ui.bot /\ ui'.out = {r} /\ ui'.phase = "pending"
        BY <1>0, <2>3, <3>1, Zenon DEF JdState
      <3>3. OneOut({r}, ui.bot)
        BY <1>0, <3>1, JustSent, Zenon
      <3>4. QED
        BY <1>0, <3>2, <3>3, Zenon DEF JdInv
    <2>4. QED
      BY <1>3, <2>1, <2>2, <2>3, Zenon DEF Jd!Submit, Jd!submit
  <1>4. ASSUME NEW r \in ui.out, NEW u, u = Jd!AfterResponse(ui, r.token)
        PROVE  /\ r.q \in Nat /\ u \in JdState /\ TokenSound(u.bot)
               /\ u = [ui EXCEPT !.bot = Used(ui.bot, r.token)]
    <2>1. r.q \in Nat /\ r.token \in Nat
      BY <1>0, Zenon DEF JdState
    <2>2. u = [ui EXCEPT !.bot = Used(ui.bot, r.token)]
      BY <1>0, <1>4, <2>1, JdBotted, AfterResponseIsUsed, Zenon
         DEF Jd!AfterResponse, Widget!AfterResponse
    <2>3. TokenSound(Used(ui.bot, r.token))
      BY <1>0, UsedSound, Zenon DEF OneOut, Carried
    <2>4. QED
      BY <1>0, <2>1, <2>2, <2>3, JdBotted, Zenon DEF Botted, TokenSound
  <1>5. CASE Jd!OnResult
    <2>1. PICK r \in ui.out :
            ui' = [Jd!AfterResponse(ui, r.token) EXCEPT
                     !.out = {}, !.result = r.q, !.phase = "idle"]
      BY <1>5, Zenon DEF Jd!OnResult
    <2>2. PICK u : u = Jd!AfterResponse(ui, r.token)
      OBVIOUS
    <2>3. ui' = [u EXCEPT !.out = {}, !.result = r.q, !.phase = "idle"]
      BY <2>1, <2>2, Zenon
    <2>4. r.q \in Nat /\ u \in JdState /\ TokenSound(u.bot)
      BY <1>4, <2>2
    <2>5. ui' \in JdState /\ ui'.out = {} /\ ui'.bot = u.bot
      BY <2>1, <2>3, <2>4, Zenon DEF JdState
    <2>6. QED
      BY <2>4, <2>5, NoneOut, Zenon DEF JdInv
  <1>6. CASE Jd!OnRefused
    <2>1. PICK r \in ui.out :
            ui' = [Jd!AfterResponse(ui, r.token) EXCEPT
                     !.out = {}, !.phase = "error", !.error = "refused"]
      BY <1>6, Zenon DEF Jd!OnRefused
    <2>2. PICK u : u = Jd!AfterResponse(ui, r.token)
      OBVIOUS
    <2>3. ui' = [u EXCEPT !.out = {}, !.phase = "error", !.error = "refused"]
      BY <2>1, <2>2, Zenon
    <2>4. r.q \in Nat /\ u \in JdState /\ TokenSound(u.bot)
      BY <1>4, <2>2
    <2>5. ui' \in JdState /\ ui'.out = {} /\ ui'.bot = u.bot
      BY <2>1, <2>3, <2>4, Zenon DEF JdState
    <2>6. QED
      BY <2>4, <2>5, NoneOut, Zenon DEF JdInv
  <1>7. CASE Jd!OnThrow
    <2>1. ui' \in JdState /\ ui'.out = {} /\ ui'.bot = ui.bot
      BY <1>0, <1>7, Zenon DEF Jd!OnThrow, JdState
    <2>2. QED
      BY <1>0, <2>1, NoneOut, Zenon DEF JdInv
  <1>8. CASE Jd!copyAll
    <2>1. /\ Jd!View.answer = ui.result /\ ui.result \in Nat
      BY <1>0, Zenon DEF Jd!View, JdState
    <2>2. ui' = [ui EXCEPT !.copied = TRUE, !.timers = @ + 1, !.clipboard = ui.result]
      BY <1>8, <2>1, Zenon DEF Jd!copyAll
    <2>3. QED
      BY <1>0, <1>1, <2>1, <2>2, Zenon DEF JdState
  <1>9. CASE Jd!CopyTimer
    BY <1>0, <1>1, <1>9, Zenon DEF Jd!CopyTimer, JdState
  <1>10. CASE Jd!Unmount
    BY <1>0, <1>1, <1>10, Zenon DEF Jd!Unmount, JdState
  <1>11. CASE Jd!BotStep
    <2>1. Widget!BotStep
      BY <1>11 DEF Jd!BotStep, Jd!Engage, Jd!ScriptSettles, Jd!Solved, Jd!Expired,
                   Jd!WidgetError, Jd!WidgetUp, Jd!BotView, Widget!BotStep, Widget!Engage,
                   Widget!ScriptSettles, Widget!Solved, Widget!Expired, Widget!WidgetError,
                   Widget!WidgetUp, Widget!BotView
    <2>2. PICK c \in Bot : Moves(ui.bot, c) /\ ui' = [ui EXCEPT !.bot = c]
      BY <1>0, <2>1, JdBotted, WidgetStep, Zenon
    <2>3. /\ ui' \in JdState /\ ui'.bot = c
          /\ ui'.out = ui.out /\ ui'.phase = ui.phase
      BY <1>0, <2>2, Zenon DEF JdState
    <2>4. TokenSound(c) /\ OneOut(ui.out, c)
      BY <1>0, <2>2, OutKept, Zenon DEF Moves
    <2>5. QED
      BY <1>0, <2>3, <2>4, Zenon DEF JdInv
  <1>12. QED
    BY <1>2, <1>3, <1>5, <1>6, <1>7, <1>8, <1>9, <1>10, <1>11 DEF Jd!Next, Jd!Answered
------------------------------------------------------------------------------
(* The theme studio.  A reset while a request is out lets a second one go  *)
(* out with the same token: then only the numbering is kept.               *)

StudioState == [mounted : BOOLEAN, bot : Bot, mood : BOOLEAN,
                phase : {"idle", "pending", "applied", "error"},
                error : {"", "solve the bot check", "refused", "faltered"}, asked : Nat,
                out : SUBSET [q : Nat, token : Nat], theme : Nat, interrupted : BOOLEAN]

StudioInv ==
  /\ ui \in StudioState
  /\ TokenSound(ui.bot)
  /\ \A r \in ui.out : r.token <= ui.bot.solved
  /\ ~ui.interrupted => /\ ui.phase # "pending" => ui.out = {}
                        /\ OneOut(ui.out, ui.bot)

LEMMA StudioBotted == Botted(StudioState)
  BY Zenon DEF Botted, StudioState

LEMMA StudioInit == Studio!Init => StudioInv
  <1> SUFFICES ASSUME NEW on \in BOOLEAN, NEW b, b = Studio!BotInit(on),
         ui = [mounted |-> TRUE, bot |-> b, mood |-> FALSE, phase |-> "idle", error |-> "",
               asked |-> 0, out |-> {}, theme |-> 0, interrupted |-> FALSE]
               PROVE StudioInv
    BY Zenon DEF Studio!Init
  <1>1. TokenSound(b)
    BY NoToken, Zenon DEF Studio!BotInit, Widget!BotInit
  <1>2. ui \in StudioState
    BY <1>1, Zero, Zenon DEF TokenSound, StudioState
  <1>3. QED
    BY <1>1, <1>2, NoneOut, Zenon DEF StudioInv

LEMMA StudioStep == StudioInv /\ Studio!Next => StudioInv'
  <1> SUFFICES ASSUME StudioInv, Studio!Next PROVE StudioInv'
    OBVIOUS
  <1>0. /\ ui \in StudioState /\ TokenSound(ui.bot)
        /\ \A r \in ui.out : r.token <= ui.bot.solved
        /\ ~ui.interrupted => (ui.phase # "pending" => ui.out = {}) /\ OneOut(ui.out, ui.bot)
        /\ 0 \in Nat /\ ui.asked + 1 \in Nat
    <2>1. ui.asked \in Nat
      BY Zenon DEF StudioInv, StudioState
    <2>2. QED
      BY <2>1 DEF StudioInv
  <1>1. ASSUME ui' \in StudioState, ui'.bot = ui.bot, ui'.out = ui.out, ui'.phase = ui.phase,
               ui'.interrupted = ui.interrupted
        PROVE  StudioInv'
    BY <1>0, <1>1, Zenon DEF StudioInv
  <1>2. CASE Studio!Type
    BY <1>0, <1>1, <1>2, Zenon DEF Studio!Type, StudioState
  <1>3. CASE Studio!Submit
    <2>1. CASE UNCHANGED ui
      BY <1>0, <2>1, Zenon DEF StudioInv
    <2>2. CASE /\ ui.phase # "pending"
               /\ ui' = [ui EXCEPT !.phase = "error", !.error = "solve the bot check"]
      <3>1. /\ ui' \in StudioState /\ ui'.bot = ui.bot /\ ui'.out = ui.out
            /\ ui'.interrupted = ui.interrupted
        BY <1>0, <2>2, Zenon DEF StudioState
      <3>2. QED
        BY <1>0, <2>2, <3>1, Zenon DEF StudioInv
    <2>3. CASE /\ ui.phase # "pending"
               /\ ui' = [ui EXCEPT !.phase = "pending", !.error = "", !.asked = @ + 1,
                            !.out = @ \cup {[q |-> ui.asked + 1, token |-> ui.bot.token]}]
      <3> DEFINE r == [q |-> ui.asked + 1, token |-> ui.bot.token]
      <3>1. r \in [q : Nat, token : Nat] /\ r.token = ui.bot.token
        BY <1>0, Zenon DEF TokenSound, Bot
      <3>2. ui.out \cup {r} \in SUBSET [q : Nat, token : Nat]
        BY <1>0, <3>1, Zenon DEF StudioState
      <3>3. /\ ui' \in StudioState /\ ui'.bot = ui.bot /\ ui'.out = ui.out \cup {r}
            /\ ui'.phase = "pending" /\ ui'.interrupted = ui.interrupted
        BY <1>0, <2>3, <3>2, Zenon DEF StudioState
      <3>4. OneOut({r}, ui.bot)
        BY <1>0, <3>1, JustSent, Zenon
      <3>5. ~ui.interrupted => ui.out \cup {r} = {r}
        BY <1>0, <2>3, Zenon
      <3>6. \A x \in ui.out \cup {r} : x.token <= ui.bot.solved
        BY <1>0, <3>1, Zenon DEF TokenSound
      <3>7. QED
        BY <1>0, <3>3, <3>4, <3>5, <3>6, Zenon DEF StudioInv
    <2>4. QED
      BY <1>3, <2>1, <2>2, <2>3, Zenon DEF Studio!Submit, Studio!submit
  <1>4. ASSUME NEW r \in ui.out, NEW u, u = Studio!AfterResponse(ui, r.token)
        PROVE  /\ r.q \in Nat /\ u \in StudioState /\ TokenSound(u.bot)
               /\ u.bot.solved = ui.bot.solved
               /\ u.out = ui.out /\ u.interrupted = ui.interrupted
    <2>1. r.q \in Nat /\ r.token \in Nat
      BY <1>0, Zenon DEF StudioState
    <2>2. u = [ui EXCEPT !.bot = Used(ui.bot, r.token)]
      BY <1>0, <1>4, <2>1, StudioBotted, AfterResponseIsUsed, Zenon
         DEF Studio!AfterResponse, Widget!AfterResponse
    <2>3. TokenSound(Used(ui.bot, r.token))
      BY <1>0, <2>1, UsedSound, Zenon
    <2>4. Used(ui.bot, r.token).solved = ui.bot.solved
      BY <1>0, Zenon DEF Used, TokenSound, Bot
    <2>5. u.bot = Used(ui.bot, r.token) /\ u.out = ui.out /\ u.interrupted = ui.interrupted
      BY <1>0, <2>2, Zenon DEF StudioState
    <2>6. QED
      BY <1>0, <2>1, <2>2, <2>3, <2>4, <2>5, StudioBotted, Zenon DEF Botted, TokenSound
  <1>5. ASSUME NEW r \in ui.out, ui' \in StudioState, TokenSound(ui'.bot),
               ui'.bot.solved = ui.bot.solved, ui'.out = ui.out \ {r},
               ui'.interrupted = ui.interrupted
        PROVE  StudioInv'
    <2>1. ~ui.interrupted => ui'.out = {}
      BY <1>0, <1>5, Zenon DEF OneOut
    <2>2. QED
      BY <1>0, <1>5, <2>1, NoneOut, Zenon DEF StudioInv
  <1>6. CASE Studio!OnPalette
    <2>1. PICK r \in ui.out :
            ui' = [Studio!AfterResponse(ui, r.token) EXCEPT
                     !.out = @ \ {r}, !.theme = r.q, !.phase = "applied"]
      BY <1>6, Zenon DEF Studio!OnPalette
    <2>2. PICK u : u = Studio!AfterResponse(ui, r.token)
      OBVIOUS
    <2>3. ui' = [u EXCEPT !.out = @ \ {r}, !.theme = r.q, !.phase = "applied"]
      BY <2>1, <2>2, Zenon
    <2>4. /\ r.q \in Nat /\ u \in StudioState /\ TokenSound(u.bot)
          /\ u.bot.solved = ui.bot.solved /\ u.out = ui.out /\ u.interrupted = ui.interrupted
      BY <1>4, <2>2
    <2>5. /\ ui' \in StudioState /\ ui'.out = ui.out \ {r} /\ ui'.bot = u.bot
          /\ ui'.interrupted = u.interrupted
      BY <2>3, <2>4, Zenon DEF StudioState
    <2>6. QED
      BY <1>5, <2>4, <2>5, Zenon
  <1>7. CASE Studio!OnRefused
    <2>1. PICK r \in ui.out :
            ui' = [Studio!AfterResponse(ui, r.token) EXCEPT
                     !.out = @ \ {r}, !.phase = "error", !.error = "refused"]
      BY <1>7, Zenon DEF Studio!OnRefused
    <2>2. PICK u : u = Studio!AfterResponse(ui, r.token)
      OBVIOUS
    <2>3. ui' = [u EXCEPT !.out = @ \ {r}, !.phase = "error", !.error = "refused"]
      BY <2>1, <2>2, Zenon
    <2>4. /\ u \in StudioState /\ TokenSound(u.bot)
          /\ u.bot.solved = ui.bot.solved /\ u.out = ui.out /\ u.interrupted = ui.interrupted
      BY <1>4, <2>2
    <2>5. /\ ui' \in StudioState /\ ui'.out = ui.out \ {r} /\ ui'.bot = u.bot
          /\ ui'.interrupted = u.interrupted
      BY <2>3, <2>4, Zenon DEF StudioState
    <2>6. QED
      BY <1>5, <2>4, <2>5, Zenon
  <1>8. CASE Studio!OnThrow
    <2>1. PICK r \in ui.out :
            ui' = [ui EXCEPT !.out = @ \ {r}, !.phase = "error", !.error = "faltered"]
      BY <1>8, Zenon DEF Studio!OnThrow
    <2>2. /\ ui' \in StudioState /\ ui'.out = ui.out \ {r} /\ ui'.bot = ui.bot
          /\ ui'.interrupted = ui.interrupted
      BY <1>0, <2>1, Zenon DEF StudioState
    <2>3. QED
      BY <1>0, <1>5, <2>2, Zenon
  <1>9. CASE Studio!reset
    <2>1. (ui.interrupted \/ ui.out # {}) \in BOOLEAN
      BY Zenon
    <2>2. /\ ui' \in StudioState /\ ui'.out = ui.out /\ ui'.bot = ui.bot
          /\ ui'.interrupted = (ui.interrupted \/ ui.out # {})
      BY <1>0, <1>9, <2>1, Zenon DEF Studio!reset, StudioState
    <2>3. QED
      BY <1>0, <2>2, Zenon DEF StudioInv
  <1>10. CASE Studio!Unmount
    BY <1>0, <1>1, <1>10, Zenon DEF Studio!Unmount, StudioState
  <1>11. CASE Studio!BotStep
    <2>1. Widget!BotStep
      BY <1>11 DEF Studio!BotStep, Studio!Engage, Studio!ScriptSettles, Studio!Solved,
                   Studio!Expired, Studio!WidgetError, Studio!WidgetUp, Studio!BotView,
                   Widget!BotStep, Widget!Engage, Widget!ScriptSettles, Widget!Solved,
                   Widget!Expired, Widget!WidgetError, Widget!WidgetUp, Widget!BotView
    <2>2. PICK c \in Bot : Moves(ui.bot, c) /\ ui' = [ui EXCEPT !.bot = c]
      BY <1>0, <2>1, StudioBotted, WidgetStep, Zenon
    <2>3. /\ ui' \in StudioState /\ ui'.bot = c /\ ui'.out = ui.out
          /\ ui'.phase = ui.phase /\ ui'.interrupted = ui.interrupted
      BY <1>0, <2>2, Zenon DEF StudioState
    <2>4. TokenSound(c) /\ (OneOut(ui.out, ui.bot) => OneOut(ui.out, c))
      BY <1>0, <2>2, OutKept, Zenon DEF Moves
    <2>5. \A r \in ui.out : r.token <= c.solved
      <3>1. SUFFICES ASSUME NEW r \in ui.out PROVE r.token <= c.solved
        OBVIOUS
      <3>2. /\ r.token \in Nat /\ ui.bot.solved \in Nat /\ c.solved \in Nat
            /\ r.token <= ui.bot.solved /\ ui.bot.solved <= c.solved
        BY <1>0, <2>2, <2>3, Zenon DEF StudioState, Bot, Moves
      <3>3. QED
        BY <3>2
    <2>6. QED
      BY <1>0, <2>3, <2>4, <2>5, Zenon DEF StudioInv
  <1>12. QED
    BY <1>2, <1>3, <1>6, <1>7, <1>8, <1>9, <1>10, <1>11 DEF Studio!Next, Studio!Answered

------------------------------------------------------------------------------
(* The local-model demo.  A run goes on after its response, when its token *)
(* is spent: only a run that waits for the response carries one.           *)

Run == [q : Nat, token : Nat, reading : BOOLEAN]

InferState == [mounted : BOOLEAN, bot : Bot, prompt : BOOLEAN, output : Nat, model : BOOLEAN,
               stats : Nat, phase : {"idle", "streaming", "error"},
               error : {"", "solve the bot check", "refused", "local stream faltered",
                        "connection lost"},
               asked : Nat, stream : SUBSET Run]

InferInv ==
  /\ ui \in InferState
  /\ TokenSound(ui.bot)
  /\ \A s \in ui.stream : s.token <= ui.bot.solved
  /\ \A s \in ui.stream : ~s.reading => s.token \notin ui.bot.spent
  /\ \A s, t \in ui.stream : s = t
  /\ ui.phase # "streaming" => ui.stream = {}

LEMMA InferBotted == Botted(InferState)
  BY Zenon DEF Botted, InferState

LEMMA InferInit == Infer!Init => InferInv
  <1> SUFFICES ASSUME NEW on \in BOOLEAN, NEW b, b = Infer!BotInit(on),
         ui = [mounted |-> TRUE, bot |-> b, prompt |-> FALSE, output |-> 0, model |-> FALSE,
               stats |-> 0, phase |-> "idle", error |-> "", asked |-> 0, stream |-> {}]
               PROVE InferInv
    BY Zenon DEF Infer!Init
  <1>1. TokenSound(b)
    BY NoToken, Zenon DEF Infer!BotInit, Widget!BotInit
  <1>2. ui \in InferState
    BY <1>1, Zero, Zenon DEF TokenSound, InferState
  <1>3. QED
    BY <1>1, <1>2, Zenon DEF InferInv

LEMMA InferStep == InferInv /\ Infer!Next => InferInv'
  <1> SUFFICES ASSUME InferInv, Infer!Next PROVE InferInv'
    OBVIOUS
  <1>0. /\ ui \in InferState /\ TokenSound(ui.bot)
        /\ \A s \in ui.stream : s.token <= ui.bot.solved
        /\ \A s \in ui.stream : ~s.reading => s.token \notin ui.bot.spent
        /\ \A s, t \in ui.stream : s = t
        /\ ui.phase # "streaming" => ui.stream = {}
        /\ 0 \in Nat /\ ui.asked + 1 \in Nat
    <2>1. ui.asked \in Nat
      BY Zenon DEF InferInv, InferState
    <2>2. QED
      BY <2>1 DEF InferInv
  <1>1. ASSUME ui' \in InferState, ui'.bot = ui.bot, ui'.stream = ui.stream, ui'.phase = ui.phase
        PROVE  InferInv'
    BY <1>0, <1>1, Zenon DEF InferInv
  <1>2. ASSUME ui' \in InferState, TokenSound(ui'.bot), ui'.stream = {}
        PROVE  InferInv'
    BY <1>2, Zenon DEF InferInv
  <1>3. CASE Infer!Type
    BY <1>0, <1>1, <1>3, Zenon DEF Infer!Type, InferState
  <1>4. CASE Infer!Submit
    <2>1. CASE UNCHANGED ui
      BY <1>0, <2>1, Zenon DEF InferInv
    <2>2. CASE /\ ui.phase # "streaming"
               /\ ui' = [ui EXCEPT !.phase = "error", !.error = "solve the bot check"]
      <3>1. ui' \in InferState /\ ui'.bot = ui.bot /\ ui'.stream = ui.stream
        BY <1>0, <2>2, Zenon DEF InferState
      <3>2. QED
        BY <1>0, <1>2, <2>2, <3>1, Zenon
    <2>3. CASE ui' = [ui EXCEPT !.output = 0, !.stats = 0, !.phase = "streaming", !.error = "",
                        !.asked = @ + 1, !.stream = {[q |-> ui.asked + 1,
                                                      token |-> ui.bot.token, reading |-> FALSE]}]
      <3> DEFINE r == [q |-> ui.asked + 1, token |-> ui.bot.token, reading |-> FALSE]
      <3>1. r \in Run /\ r.token = ui.bot.token
        BY <1>0, Zenon DEF TokenSound, Bot, Run
      <3>2. ui' \in InferState /\ ui'.bot = ui.bot /\ ui'.stream = {r} /\ ui'.phase = "streaming"
        BY <1>0, <2>3, <3>1, Zenon DEF InferState
      <3>3. QED
        BY <1>0, <3>1, <3>2, Zenon DEF InferInv, TokenSound
    <2>4. QED
      BY <1>4, <2>1, <2>2, <2>3, Zenon DEF Infer!Submit, Infer!run
  <1>5. ASSUME NEW s \in ui.stream, NEW u, u = Infer!AfterResponse(ui, s.token)
        PROVE  /\ u \in InferState /\ TokenSound(u.bot) /\ u.bot.solved = ui.bot.solved
               /\ u.stream = ui.stream /\ u.phase = ui.phase
    <2>1. s.token \in Nat /\ s.token <= ui.bot.solved
      <3>1. s \in Run
        BY <1>0, Zenon DEF InferState
      <3>2. s.token <= ui.bot.solved
        BY <1>0, Zenon
      <3>3. QED
        BY <3>1, <3>2, Zenon DEF Run
    <2>2. u = [ui EXCEPT !.bot = Used(ui.bot, s.token)]
      BY <1>0, <1>5, <2>1, InferBotted, AfterResponseIsUsed, Zenon
         DEF Infer!AfterResponse, Widget!AfterResponse
    <2>3. TokenSound(Used(ui.bot, s.token))
      BY <1>0, <2>1, UsedSound, Zenon
    <2>4. Used(ui.bot, s.token).solved = ui.bot.solved
      BY <1>0, Zenon DEF Used, TokenSound, Bot
    <2>5. u.bot = Used(ui.bot, s.token) /\ u.stream = ui.stream /\ u.phase = ui.phase
      BY <1>0, <2>2, Zenon DEF InferState
    <2>6. QED
      BY <1>0, <2>2, <2>3, <2>4, <2>5, InferBotted, Zenon DEF Botted, TokenSound
  <1>6. ASSUME NEW u \in InferState, TokenSound(u.bot),
               NEW why \in {"refused", "local stream faltered", "connection lost"},
               ui' = Infer!Fail(u, why)
        PROVE  InferInv'
    <2>1. ui' \in InferState /\ ui'.bot = u.bot /\ ui'.stream = {}
      <3>1. CASE u.mounted
        BY <1>6, <3>1, Zenon DEF Infer!Fail, InferState
      <3>2. CASE ~u.mounted
        BY <1>6, <3>2, Zenon DEF Infer!Fail, InferState
      <3>3. QED
        BY <3>1, <3>2
    <2>2. QED
      BY <1>2, <1>6, <2>1, Zenon
  <1>7. CASE Infer!OnRefused
    <2>1. PICK s \in ui.stream : ui' = Infer!Fail(Infer!AfterResponse(ui, s.token), "refused")
      BY <1>7, Zenon DEF Infer!OnRefused
    <2>2. PICK u : u = Infer!AfterResponse(ui, s.token)
      OBVIOUS
    <2>3. ui' = Infer!Fail(u, "refused")
      BY <2>1, <2>2, Zenon
    <2>4. QED
      BY <1>5, <1>6, <2>2, <2>3, Zenon
  <1>8. CASE Infer!OnHeaders
    <2>1. PICK s \in ui.stream : ui' = [Infer!AfterResponse(ui, s.token) EXCEPT
                                          !.stream = {[s EXCEPT !.reading = TRUE]}]
      BY <1>8, Zenon DEF Infer!OnHeaders
    <2>2. PICK u : u = Infer!AfterResponse(ui, s.token)
      OBVIOUS
    <2>3. ui' = [u EXCEPT !.stream = {[s EXCEPT !.reading = TRUE]}]
      BY <2>1, <2>2, Zenon
    <2>4. /\ u \in InferState /\ TokenSound(u.bot) /\ u.bot.solved = ui.bot.solved
          /\ u.phase = ui.phase
      BY <1>5, <2>2
    <2> DEFINE r == [s EXCEPT !.reading = TRUE]
    <2>5. s \in Run
      BY <1>0, Zenon DEF InferState
    <2>6. r \in Run /\ r.token = s.token /\ r.reading = TRUE
      BY <2>5, Zenon DEF Run
    <2>7. ui' \in InferState /\ ui'.bot = u.bot /\ ui'.stream = {r} /\ ui'.phase = ui.phase
      BY <2>3, <2>4, <2>6, Zenon DEF InferState
    <2>8. ui.phase = "streaming"
      BY <1>0, Zenon
    <2>9. QED
      BY <1>0, <2>4, <2>6, <2>7, <2>8, Zenon DEF InferInv
  <1>9. CASE Infer!OnFrame
    <2>1. PICK s \in ui.stream : \/ ui' = [ui EXCEPT !.model = TRUE]
                                 \/ ui' = [ui EXCEPT !.output = s.q]
                                 \/ ui' = [ui EXCEPT !.stats = s.q]
      BY <1>9, Zenon DEF Infer!OnFrame
    <2>2. s.q \in Nat
      BY <1>0, Zenon DEF InferState, Run
    <2>3. QED
      BY <1>0, <1>1, <2>1, <2>2, Zenon DEF InferState
  <1>10. CASE Infer!OnErrorFrame
    BY <1>0, <1>6, <1>10, Zenon DEF Infer!OnErrorFrame
  <1>11. CASE Infer!OnEnd
    <2>1. (IF ui.mounted THEN "idle" ELSE ui.phase) \in {"idle", "streaming", "error"}
      BY <1>0, Zenon DEF InferState
    <2>2. ui' = [ui EXCEPT !.stream = {}, !.phase = IF ui.mounted THEN "idle" ELSE ui.phase]
      BY <1>11, Zenon DEF Infer!OnEnd
    <2>3. ui' \in InferState /\ ui'.bot = ui.bot /\ ui'.stream = {}
      BY <1>0, <2>1, <2>2, Zenon DEF InferState
    <2>4. QED
      BY <1>0, <1>2, <2>3, Zenon
  <1>12. CASE Infer!OnThrow
    BY <1>0, <1>6, <1>12, Zenon DEF Infer!OnThrow
  <1>13. CASE Infer!Unmount
    <2>1. ui' \in InferState /\ ui'.bot = ui.bot /\ ui'.stream = {}
      BY <1>0, <1>13, Zenon DEF Infer!Unmount, InferState
    <2>2. QED
      BY <1>0, <1>2, <2>1, Zenon
  <1>14. CASE Infer!BotStep
    <2>1. Widget!BotStep
      BY <1>14 DEF Infer!BotStep, Infer!Engage, Infer!ScriptSettles, Infer!Solved,
                   Infer!Expired, Infer!WidgetError, Infer!WidgetUp, Infer!BotView,
                   Widget!BotStep, Widget!Engage, Widget!ScriptSettles, Widget!Solved,
                   Widget!Expired, Widget!WidgetError, Widget!WidgetUp, Widget!BotView
    <2>2. PICK c \in Bot : Moves(ui.bot, c) /\ ui' = [ui EXCEPT !.bot = c]
      BY <1>0, <2>1, InferBotted, WidgetStep, Zenon
    <2>3. /\ ui' \in InferState /\ ui'.bot = c /\ ui'.stream = ui.stream
          /\ ui'.phase = ui.phase
      BY <1>0, <2>2, Zenon DEF InferState
    <2>4. \A s \in ui.stream : s.token <= c.solved
      <3>1. SUFFICES ASSUME NEW s \in ui.stream PROVE s.token <= c.solved
        OBVIOUS
      <3>2. s \in Run /\ ui.bot \in Bot
        BY <1>0, Zenon DEF InferState
      <3>3. s.token \in Nat /\ ui.bot.solved \in Nat /\ c.solved \in Nat
        BY <2>2, <3>2, Zenon DEF Run, Bot
      <3>4. s.token <= ui.bot.solved /\ ui.bot.solved <= c.solved
        BY <1>0, <2>2, Zenon DEF Moves
      <3>5. QED
        BY <3>3, <3>4
    <2>5. QED
      BY <1>0, <2>2, <2>3, <2>4, Zenon DEF InferInv, Moves
  <1>15. QED
    BY <1>3, <1>4, <1>7, <1>8, <1>9, <1>10, <1>11, <1>12, <1>13, <1>14
       DEF Infer!Next, Infer!Answered

------------------------------------------------------------------------------
(* The oracle chat.  A loop whose stream sent an error frame lives on, but *)
(* it has had its response; the form is open again, so one more loop can   *)
(* be alive, the only one that may still carry a token.  When the older    *)
(* one is cut, the form opens over the younger: then only the numbering    *)
(* is kept.                                                                *)

Loop == [q : Nat, token : Nat, reading : BOOLEAN, text : BOOLEAN, failed : BOOLEAN]
Line == [role : {"user", "assistant"}, q : Nat]

OracleState ==
  [mounted : BOOLEAN, bot : Bot, input : BOOLEAN, messages : Seq(Line), trace : Seq(Nat),
   phase : {"idle", "streaming", "error"},
   error : {"", "solve the bot check", "refused", "stream error", "faltered"},
   context : {{}} \cup {Oracle!parseCtx(raw) : raw \in Oracle!Raw},
   asked : Nat, streams : SUBSET Loop, cut : BOOLEAN]

OneLive ==
  /\ \A s \in ui.streams : ~s.failed => ui.phase = "streaming"
  /\ \A s, t \in ui.streams : ~s.failed /\ ~t.failed => s = t
  /\ \A s \in ui.streams : s.failed => s.reading
  /\ \A s \in ui.streams : ~s.reading => s.token \notin ui.bot.spent

OracleInv ==
  /\ ui \in OracleState
  /\ TokenSound(ui.bot)
  /\ \A s \in ui.streams : s.token <= ui.bot.solved
  /\ ~ui.cut => OneLive

LEMMA OracleBotted == Botted(OracleState)
  BY Zenon DEF Botted, OracleState

LEMMA Sequences == \A S : /\ <<>> \in Seq(S)
                           /\ \A q \in Seq(S), e \in S : Append(q, e) \in Seq(S)
  OBVIOUS

LEMMA OracleInit == Oracle!Init => OracleInv
  <1> SUFFICES ASSUME NEW on \in BOOLEAN, NEW raw \in Oracle!Raw, NEW b, b = Oracle!BotInit(on),
         ui = [mounted |-> TRUE, bot |-> b, input |-> FALSE, messages |-> <<>>,
               trace |-> <<>>, phase |-> "idle", error |-> "", context |-> Oracle!parseCtx(raw),
               asked |-> 0, streams |-> {}, cut |-> FALSE]
               PROVE OracleInv
    BY Zenon DEF Oracle!Init
  <1>1. TokenSound(b)
    BY NoToken, Zenon DEF Oracle!BotInit, Widget!BotInit
  <1>2. ui \in OracleState
    BY <1>1, Zero, Sequences, Zenon DEF TokenSound, OracleState
  <1>3. QED
    BY <1>1, <1>2, Zenon DEF OracleInv, OneLive

\* What happens to one loop leaves the others as they were.
LEMMA LoopEnds ==
  ASSUME OracleInv, NEW s \in ui.streams, ~ui.cut => ~s.failed,
         ui' \in OracleState, TokenSound(ui'.bot), ui'.bot.solved = ui.bot.solved,
         ui'.streams = ui.streams \ {s}, ui'.cut = ui.cut
  PROVE  OracleInv'
  <1>1. ~ui.cut => \A t \in ui'.streams : t.failed /\ t.reading
    BY Zenon DEF OracleInv, OneLive
  <1>2. \A t \in ui'.streams : t.token <= ui'.bot.solved
    BY Zenon DEF OracleInv
  <1>3. QED
    BY <1>1, <1>2, Zenon DEF OracleInv, OneLive

LEMMA LoopReads ==
  ASSUME OracleInv, NEW s \in ui.streams, ~ui.cut => ~s.failed,
         NEW t \in Loop, t.token = s.token, t.reading = TRUE,
         ui' \in OracleState, TokenSound(ui'.bot), ui'.bot.solved = ui.bot.solved,
         ui'.streams = (ui.streams \ {s}) \cup {t}, ui'.cut = ui.cut,
         t.failed \/ ui'.phase = ui.phase
  PROVE  OracleInv'
  <1>1. ~ui.cut => /\ \A x \in ui.streams \ {s} : x.failed /\ x.reading
                   /\ ui.phase = "streaming"
    BY Zenon DEF OracleInv, OneLive
  <1>2. \A x \in ui'.streams : x.token <= ui'.bot.solved
    BY Zenon DEF OracleInv
  <1>3. ~ui.cut => OneLive'
    <2> SUFFICES ASSUME ~ui.cut PROVE OneLive'
      OBVIOUS
    <2>1. \A x \in ui'.streams : x = t \/ (x.failed /\ x.reading)
      BY <1>1, Zenon
    <2>2. \A x \in ui'.streams : ~x.failed => ui'.phase = "streaming"
      BY <1>1, <2>1, Zenon
    <2>3. \A x, y \in ui'.streams : ~x.failed /\ ~y.failed => x = y
      BY <2>1, Zenon
    <2>4. \A x \in ui'.streams : x.reading
      BY <2>1, Zenon
    <2>5. QED
      BY <2>2, <2>3, <2>4, Zenon DEF OneLive
  <1>4. QED
    BY <1>2, <1>3, Zenon DEF OracleInv

LEMMA FewerLoops ==
  ASSUME OracleInv, ui' \in OracleState, ui'.bot = ui.bot, ui'.streams \subseteq ui.streams,
         ui'.phase = ui.phase, ui'.cut = ui.cut
  PROVE  OracleInv'
  BY Zenon DEF OracleInv, OneLive

\* The calls the handlers are made of.
LEMMA OracleFail ==
  ASSUME NEW u \in OracleState, NEW why \in {"refused", "stream error", "faltered"},
         NEW v, v = Oracle!Fail(u, why)
  PROVE  /\ v \in OracleState /\ v.bot = u.bot /\ v.streams = u.streams /\ v.cut = u.cut
  <1>1. CASE u.mounted
    BY <1>1, Zenon DEF Oracle!Fail, OracleState
  <1>2. CASE ~u.mounted
    BY <1>2, Zenon DEF Oracle!Fail
  <1>3. QED
    BY <1>1, <1>2

LEMMA OracleAfter ==
  \A u \in OracleState, n \in Nat : TokenSound(u.bot) /\ n <= u.bot.solved =>
    /\ Oracle!AfterResponse(u, n) \in OracleState
    /\ TokenSound(Oracle!AfterResponse(u, n).bot)
    /\ Oracle!AfterResponse(u, n).bot.solved = u.bot.solved
    /\ Oracle!AfterResponse(u, n).streams = u.streams
    /\ Oracle!AfterResponse(u, n).cut = u.cut
    /\ Oracle!AfterResponse(u, n).phase = u.phase
  <1> SUFFICES ASSUME NEW u \in OracleState, NEW n \in Nat, TokenSound(u.bot),
                      n <= u.bot.solved, NEW v, v = Oracle!AfterResponse(u, n)
               PROVE  /\ v \in OracleState /\ TokenSound(v.bot) /\ v.bot.solved = u.bot.solved
                      /\ v.streams = u.streams /\ v.cut = u.cut /\ v.phase = u.phase
    BY Zenon
  <1>1. v = [u EXCEPT !.bot = Used(u.bot, n)]
    BY OracleBotted, AfterResponseIsUsed, Zenon DEF Oracle!AfterResponse, Widget!AfterResponse
  <1>2. TokenSound(Used(u.bot, n))
    BY UsedSound, Zenon
  <1>3. Used(u.bot, n).solved = u.bot.solved
    BY Zenon DEF Used, TokenSound, Bot
  <1>4. v.bot = Used(u.bot, n) /\ v.streams = u.streams /\ v.cut = u.cut /\ v.phase = u.phase
    BY <1>1, Zenon DEF OracleState
  <1>5. QED
    BY <1>1, <1>2, <1>3, <1>4, OracleBotted, Zenon DEF Botted, TokenSound

LEMMA OracleSend == OracleInv /\ Oracle!Submit => OracleInv'
  <1> SUFFICES ASSUME OracleInv, Oracle!Submit PROVE OracleInv'
    OBVIOUS
  <1>0. /\ ui \in OracleState /\ TokenSound(ui.bot)
        /\ \A s \in ui.streams : s.token <= ui.bot.solved
        /\ ~ui.cut => OneLive
    BY Zenon DEF OracleInv
  <1>1. CASE UNCHANGED ui
    BY <1>0, <1>1, Zenon DEF OracleInv, OneLive
  <1>2. CASE /\ ui.phase # "streaming"
             /\ ui' = [ui EXCEPT !.phase = "error", !.error = "solve the bot check"]
    <2>1. /\ ui' \in OracleState /\ ui'.bot = ui.bot /\ ui'.streams = ui.streams
          /\ ui'.cut = ui.cut
      BY <1>0, <1>2, Zenon DEF OracleState
    <2>2. QED
      BY <1>0, <1>2, <2>1, Zenon DEF OracleInv, OneLive
  <1>3. ASSUME NEW q, q = ui.asked + 1, ui.phase # "streaming",
               ui' = [ui EXCEPT !.asked = q, !.messages = Append(@, Oracle!Message("user", q)),
                        !.input = FALSE, !.trace = <<>>, !.phase = "streaming", !.error = "",
                        !.streams = @ \cup {[q |-> q, token |-> ui.bot.token, reading |-> FALSE,
                                             text |-> FALSE, failed |-> FALSE]}]
        PROVE  OracleInv'
    <2> DEFINE r == [q |-> q, token |-> ui.bot.token, reading |-> FALSE, text |-> FALSE,
                     failed |-> FALSE]
               m == Append(ui.messages, Oracle!Message("user", q))
    <2>1. ui.asked \in Nat
      BY <1>0, Zenon DEF OracleState
    <2>2. q \in Nat
      BY <1>3, <2>1
    <2>3. r \in Loop /\ r.token = ui.bot.token /\ ~r.failed
      BY <1>0, <2>2, Zenon DEF TokenSound, Bot, Loop
    <2>4. Oracle!Message("user", q) \in Line
      BY <2>2, Zenon DEF Oracle!Message, Line
    <2>5. m \in Seq(Line) /\ <<>> \in Seq(Nat)
      BY <1>0, <2>4, Sequences, Zenon DEF OracleState
    <2>6. ui.streams \cup {r} \in SUBSET Loop
      BY <1>0, <2>3, Zenon DEF OracleState
    <2>7. /\ ui' \in OracleState /\ ui'.bot = ui.bot /\ ui'.streams = ui.streams \cup {r}
          /\ ui'.phase = "streaming" /\ ui'.cut = ui.cut
      BY <1>0, <1>3, <2>2, <2>5, <2>6, Zenon DEF OracleState
    <2>8. \A s \in ui.streams \cup {r} : s.token <= ui.bot.solved
      BY <1>0, <2>3, Zenon DEF TokenSound
    <2>9. ~ui.cut => OneLive'
      <3> SUFFICES ASSUME ~ui.cut PROVE OneLive'
        OBVIOUS
      <3>1. \A s \in ui'.streams : s = r \/ (s \in ui.streams /\ s.failed /\ s.reading)
        BY <1>0, <1>3, <2>7, Zenon DEF OneLive
      <3>2. \A s, t \in ui'.streams : ~s.failed /\ ~t.failed => s = t
        BY <3>1, Zenon
      <3>3. \A s \in ui'.streams : s.failed => s.reading
        BY <2>3, <3>1, Zenon
      <3>4. \A s \in ui'.streams : ~s.reading => s.token \notin ui'.bot.spent
        BY <1>0, <2>3, <2>7, <3>1, Zenon DEF TokenSound
      <3>5. QED
        BY <2>7, <3>2, <3>3, <3>4, Zenon DEF OneLive
    <2>10. QED
      BY <1>0, <2>7, <2>8, <2>9, Zenon DEF OracleInv
  <1>4. QED
    BY <1>1, <1>2, <1>3, Zenon DEF Oracle!Submit, Oracle!send

LEMMA OracleStep == OracleInv /\ Oracle!Next => OracleInv'
  <1> SUFFICES ASSUME OracleInv, Oracle!Next PROVE OracleInv'
    OBVIOUS
  <1>0. /\ ui \in OracleState /\ TokenSound(ui.bot)
        /\ \A s \in ui.streams : s.token <= ui.bot.solved
        /\ ~ui.cut => OneLive
    BY Zenon DEF OracleInv
  <1>1. \A s \in ui.streams : s \in Loop /\ s.token \in Nat /\ s.q \in Nat
    BY <1>0, Zenon DEF OracleState, Loop
  <1>2. ASSUME ui' \in OracleState, ui'.bot = ui.bot, ui'.streams = ui.streams,
               ui'.phase = ui.phase, ui'.cut = ui.cut
        PROVE  OracleInv'
    BY <1>2, FewerLoops, Zenon
  <1>3. \A s \in ui.streams : ~s.reading => (~ui.cut => ~s.failed)
    BY <1>0, Zenon DEF OneLive
  <1>4. CASE Oracle!Type
    BY <1>0, <1>2, <1>4, Zenon DEF Oracle!Type, OracleState
  <1>5. CASE Oracle!ClearContext
    BY <1>0, <1>2, <1>5, Zenon DEF Oracle!ClearContext, OracleState
  <1>6. CASE Oracle!OnRefused
    <2>1. PICK s \in ui.streams :
            /\ ~s.reading
            /\ ui' = Oracle!Fail(Oracle!AfterResponse(Oracle!Without(ui, s), s.token), "refused")
      BY <1>6, Zenon DEF Oracle!OnRefused
    <2>2. PICK w : w = Oracle!Without(ui, s)
      OBVIOUS
    <2>3. PICK u : u = Oracle!AfterResponse(w, s.token)
      OBVIOUS
    <2>4. ui' = Oracle!Fail(u, "refused")
      BY <2>1, <2>2, <2>3, Zenon
    <2>5. w \in OracleState /\ w.bot = ui.bot /\ w.streams = ui.streams \ {s} /\ w.cut = ui.cut
      BY <1>0, <2>2, Zenon DEF Oracle!Without, OracleState
    <2>6. /\ u \in OracleState /\ TokenSound(u.bot) /\ u.bot.solved = ui.bot.solved
          /\ u.streams = ui.streams \ {s} /\ u.cut = ui.cut
      <3>1. s.token \in Nat /\ s.token <= w.bot.solved /\ TokenSound(w.bot)
        BY <1>0, <1>1, <2>5, Zenon
      <3>2. QED
        BY <2>3, <2>5, <3>1, OracleAfter, Zenon
    <2>7. /\ ui' \in OracleState /\ ui'.bot = u.bot /\ ui'.streams = u.streams
          /\ ui'.cut = u.cut
      BY <2>4, <2>6, OracleFail, Zenon
    <2>8. QED
      BY <1>3, <2>1, <2>6, <2>7, LoopEnds, Zenon
  <1>7. CASE Oracle!OnHeaders
    <2>1. PICK s \in ui.streams :
            /\ ~s.reading
            /\ ui' = Oracle!AfterResponse(Oracle!Becomes(s, [s EXCEPT !.reading = TRUE]), s.token)
      BY <1>7, Zenon DEF Oracle!OnHeaders
    <2>2. PICK t : t = [s EXCEPT !.reading = TRUE]
      OBVIOUS
    <2>3. t \in Loop /\ t.token = s.token /\ t.reading = TRUE
      BY <1>1, <2>2, Zenon DEF Loop
    <2>4. PICK w : w = Oracle!Becomes(s, t)
      OBVIOUS
    <2>5. ui' = Oracle!AfterResponse(w, s.token)
      BY <2>1, <2>2, <2>4, Zenon
    <2>6. /\ w \in OracleState /\ w.bot = ui.bot /\ w.streams = (ui.streams \ {s}) \cup {t}
          /\ w.cut = ui.cut /\ w.phase = ui.phase
      BY <1>0, <2>3, <2>4, Zenon DEF Oracle!Becomes, OracleState
    <2>7. /\ ui' \in OracleState /\ TokenSound(ui'.bot) /\ ui'.bot.solved = ui.bot.solved
          /\ ui'.streams = w.streams /\ ui'.cut = w.cut /\ ui'.phase = w.phase
      <3>1. s.token \in Nat /\ s.token <= w.bot.solved /\ TokenSound(w.bot)
        BY <1>0, <1>1, <2>6, Zenon
      <3>2. QED
        BY <2>5, <2>6, <3>1, OracleAfter, Zenon
    <2>8. QED
      BY <1>3, <2>1, <2>3, <2>6, <2>7, LoopReads, Zenon
  <1>8. CASE Oracle!OnFrame
    <2>1. PICK s \in ui.streams :
            /\ s.reading /\ ~s.failed
            /\ \/ ui' = Oracle!Becomes(s, [s EXCEPT !.text = TRUE])
               \/ ui' = IF ui.mounted THEN [ui EXCEPT !.trace = Append(@, s.q)] ELSE ui
               \/ ui' = Oracle!Fail(Oracle!Becomes(s, [s EXCEPT !.failed = TRUE]), "stream error")
      BY <1>8, Zenon DEF Oracle!OnFrame
    <2>2. CASE ui' = Oracle!Becomes(s, [s EXCEPT !.text = TRUE])
      <3>1. PICK t : t = [s EXCEPT !.text = TRUE]
        OBVIOUS
      <3>2. t \in Loop /\ t.token = s.token /\ t.reading = TRUE
        BY <1>1, <2>1, <3>1, Zenon DEF Loop
      <3>3. /\ ui' \in OracleState /\ ui'.bot = ui.bot
            /\ ui'.streams = (ui.streams \ {s}) \cup {t}
            /\ ui'.cut = ui.cut /\ ui'.phase = ui.phase
        BY <1>0, <2>2, <3>1, <3>2, Zenon DEF Oracle!Becomes, OracleState
      <3>4. QED
        BY <1>0, <2>1, <3>2, <3>3, LoopReads, Zenon
    <2>3. CASE ui' = IF ui.mounted THEN [ui EXCEPT !.trace = Append(@, s.q)] ELSE ui
      <3>1. Append(ui.trace, s.q) \in Seq(Nat)
        BY <1>0, <1>1, Sequences, Zenon DEF OracleState
      <3>2. CASE ui.mounted
        <4>1. ui' = [ui EXCEPT !.trace = Append(ui.trace, s.q)]
          BY <2>3, <3>2, Zenon
        <4>2. QED
          BY <1>0, <1>2, <3>1, <4>1, Zenon DEF OracleState
      <3>3. CASE ~ui.mounted
        BY <1>0, <1>2, <2>3, <3>3, Zenon
      <3>4. QED
        BY <3>2, <3>3
    <2>4. CASE ui' = Oracle!Fail(Oracle!Becomes(s, [s EXCEPT !.failed = TRUE]), "stream error")
      <3>1. PICK t : t = [s EXCEPT !.failed = TRUE]
        OBVIOUS
      <3>2. t \in Loop /\ t.token = s.token /\ t.reading = TRUE /\ t.failed
        BY <1>1, <2>1, <3>1, Zenon DEF Loop
      <3>3. PICK w : w = Oracle!Becomes(s, t)
        OBVIOUS
      <3>4. /\ w \in OracleState /\ w.bot = ui.bot /\ w.streams = (ui.streams \ {s}) \cup {t}
            /\ w.cut = ui.cut
        BY <1>0, <3>2, <3>3, Zenon DEF Oracle!Becomes, OracleState
      <3>5. ui' = Oracle!Fail(w, "stream error")
        BY <2>4, <3>1, <3>3, Zenon
      <3>6. /\ ui' \in OracleState /\ ui'.bot = w.bot /\ ui'.streams = w.streams
            /\ ui'.cut = w.cut
        BY <3>4, <3>5, OracleFail, Zenon
      <3>7. QED
        BY <1>0, <2>1, <3>2, <3>4, <3>6, LoopReads, Zenon
    <2>5. QED
      BY <2>1, <2>2, <2>3, <2>4
  <1>9. CASE Oracle!OnEnd
    <2>1. PICK s \in ui.streams :
            /\ s.reading
            /\ ui' = IF ~ui.mounted \/ s.failed THEN Oracle!Without(ui, s)
                     ELSE [Oracle!Without(ui, s) EXCEPT
                             !.messages = IF s.text
                                          THEN Append(@, Oracle!Message("assistant", s.q)) ELSE @,
                             !.phase = "idle"]
      BY <1>9, Zenon DEF Oracle!OnEnd
    <2>2. PICK w : w = Oracle!Without(ui, s)
      OBVIOUS
    <2>3. /\ w \in OracleState /\ w.bot = ui.bot /\ w.streams = ui.streams \ {s}
          /\ w.cut = ui.cut /\ w.phase = ui.phase
      BY <1>0, <2>2, Zenon DEF Oracle!Without, OracleState
    <2>4. CASE ~ui.mounted \/ s.failed
      <3>1. ui' = w
        BY <2>1, <2>2, <2>4, Zenon
      <3>2. QED
        BY <2>3, <3>1, FewerLoops, Zenon
    <2>5. CASE ui.mounted /\ ~s.failed
      <3>1. PICK m : m = IF s.text THEN Append(w.messages, Oracle!Message("assistant", s.q))
                         ELSE w.messages
        OBVIOUS
      <3>2. Oracle!Message("assistant", s.q) \in Line
        BY <1>1, Zenon DEF Oracle!Message, Line
      <3>3. w.messages \in Seq(Line)
        BY <2>3, Zenon DEF OracleState
      <3>4. m \in Seq(Line)
        BY <3>1, <3>2, <3>3, Sequences, Zenon
      <3>5. ui' = [w EXCEPT !.messages = m, !.phase = "idle"]
        BY <2>1, <2>2, <2>5, <3>1, Zenon
      <3>6. ui' \in OracleState /\ ui'.bot = w.bot /\ ui'.streams = w.streams /\ ui'.cut = w.cut
        BY <2>3, <3>4, <3>5, Zenon DEF OracleState
      <3>7. QED
        BY <1>0, <2>3, <2>5, <3>6, LoopEnds, Zenon
    <2>6. QED
      BY <2>4, <2>5
  <1>10. CASE Oracle!OnThrow
    <2>1. PICK s \in ui.streams :
            ui' = Oracle!Fail([Oracle!Without(ui, s) EXCEPT !.cut = @ \/ s.failed], "faltered")
      BY <1>10, Zenon DEF Oracle!OnThrow
    <2>2. PICK w : w = Oracle!Without(ui, s)
      OBVIOUS
    <2>3. /\ w \in OracleState /\ w.bot = ui.bot /\ w.streams = ui.streams \ {s}
          /\ w.cut = ui.cut
      BY <1>0, <2>2, Zenon DEF Oracle!Without, OracleState
    <2>4. PICK u : u = [w EXCEPT !.cut = w.cut \/ s.failed]
      OBVIOUS
    <2>5. (w.cut \/ s.failed) \in BOOLEAN
      OBVIOUS
    <2>6. /\ u \in OracleState /\ u.bot = ui.bot /\ u.streams = ui.streams \ {s}
          /\ u.cut = (ui.cut \/ s.failed)
      BY <2>3, <2>4, <2>5, Zenon DEF OracleState
    <2>7. ui' = Oracle!Fail(u, "faltered")
      BY <2>1, <2>2, <2>4, Zenon
    <2>8. /\ ui' \in OracleState /\ ui'.bot = u.bot /\ ui'.streams = u.streams
          /\ ui'.cut = u.cut
      BY <2>6, <2>7, OracleFail, Zenon
    <2>9. CASE ui.cut \/ s.failed
      BY <1>0, <2>6, <2>8, <2>9, Zenon DEF OracleInv
    <2>10. CASE ~ui.cut /\ ~s.failed
      <3>1. ui'.cut = ui.cut
        BY <1>0, <2>6, <2>8, <2>10, Zenon DEF OracleState
      <3>2. QED
        BY <1>0, <2>6, <2>8, <2>10, <3>1, LoopEnds, Zenon
    <2>11. QED
      BY <2>9, <2>10
  <1>11. CASE Oracle!Unmount
    <2>1. {s \in ui.streams : s.q # ui.asked} \in SUBSET Loop
      BY <1>1, Zenon
    <2>2. /\ ui' \in OracleState /\ ui'.bot = ui.bot /\ ui'.streams \subseteq ui.streams
          /\ ui'.phase = ui.phase /\ ui'.cut = ui.cut
      BY <1>0, <1>11, <2>1, Zenon DEF Oracle!Unmount, OracleState
    <2>3. QED
      BY <2>2, FewerLoops, Zenon
  <1>12. CASE Oracle!BotStep
    <2>1. Widget!BotStep
      BY <1>12 DEF Oracle!BotStep, Oracle!Engage, Oracle!ScriptSettles, Oracle!Solved,
                   Oracle!Expired, Oracle!WidgetError, Oracle!WidgetUp, Oracle!BotView,
                   Widget!BotStep, Widget!Engage, Widget!ScriptSettles, Widget!Solved,
                   Widget!Expired, Widget!WidgetError, Widget!WidgetUp, Widget!BotView
    <2>2. PICK c \in Bot : Moves(ui.bot, c) /\ ui' = [ui EXCEPT !.bot = c]
      BY <1>0, <2>1, OracleBotted, WidgetStep, Zenon
    <2>3. /\ ui' \in OracleState /\ ui'.bot = c /\ ui'.streams = ui.streams
          /\ ui'.phase = ui.phase /\ ui'.cut = ui.cut
      BY <1>0, <2>2, Zenon DEF OracleState
    <2>4. \A s \in ui.streams : s.token <= c.solved
      <3>1. SUFFICES ASSUME NEW s \in ui.streams PROVE s.token <= c.solved
        OBVIOUS
      <3>2. s.token \in Nat /\ ui.bot.solved \in Nat /\ c.solved \in Nat
        BY <1>0, <1>1, <2>2, Zenon DEF OracleState, Bot, TokenSound
      <3>3. s.token <= ui.bot.solved /\ ui.bot.solved <= c.solved
        BY <1>0, <2>2, Zenon DEF Moves
      <3>4. QED
        BY <3>2, <3>3
    <2>5. QED
      BY <1>0, <2>2, <2>3, <2>4, Zenon DEF OracleInv, OneLive, Moves
  <1>13. QED
    BY OracleSend, <1>4, <1>5, <1>6, <1>7, <1>8, <1>9, <1>10, <1>11, <1>12
       DEF Oracle!Next, Oracle!Answered

------------------------------------------------------------------------------
(* The tab.                                                                *)

FormInv ==
  /\ panel = "oracle" => OracleInv
  /\ panel = "jd" => JdInv
  /\ panel = "studio" => StudioInv
  /\ panel = "infer" => InferInv

LEMMA FormInit == Init => FormInv
  BY OracleInit, JdInit, StudioInit, InferInit DEF Init, FormInv

LEMMA FormStep == FormInv /\ [Next]_vars => FormInv'
  <1> SUFFICES ASSUME FormInv, [Next]_vars PROVE FormInv'
    OBVIOUS
  <1>1. CASE UNCHANGED vars
    BY <1>1, Zenon DEF vars, FormInv, OracleInv, OneLive, JdInv, StudioInv, InferInv
  <1>2. CASE Next
    <2>1. panel' = panel
      BY <1>2 DEF Next
    <2>2. CASE panel = "oracle"
      <3>1. Oracle!Next
        BY <1>2, <2>2 DEF Next
      <3>2. QED
        BY <2>1, <2>2, <3>1, OracleStep DEF FormInv
    <2>3. CASE panel = "jd"
      <3>1. Jd!Next
        BY <1>2, <2>3 DEF Next
      <3>2. QED
        BY <2>1, <2>3, <3>1, JdStep DEF FormInv
    <2>4. CASE panel = "studio"
      <3>1. Studio!Next
        BY <1>2, <2>4 DEF Next
      <3>2. QED
        BY <2>1, <2>4, <3>1, StudioStep DEF FormInv
    <2>5. CASE panel = "infer"
      <3>1. Infer!Next
        BY <1>2, <2>5 DEF Next
      <3>2. QED
        BY <2>1, <2>5, <3>1, InferStep DEF FormInv
    <2>6. QED
      BY <2>1, <2>2, <2>3, <2>4, <2>5 DEF FormInv
  <1>3. QED
    BY <1>1, <1>2

\* In every behaviour of a tab, for any number of checks solved and of requests made,
\* no model form has a request out with a token that an answered request has used
\* (resetRef after every response: OracleChat.tsx:139, JdAnalyzer.tsx:51).
THEOREM TokensAreFresh == Spec => []FreshToken
  <1>1. FormInv => FreshToken
    <2> SUFFICES ASSUME FormInv PROVE FreshToken
      OBVIOUS
    <2>1. panel = "oracle" => Oracle!FreshToken
      BY Zenon DEF FormInv, OracleInv, OneLive, Oracle!FreshToken
    <2>2. panel = "jd" => Jd!FreshToken
      BY Zenon DEF FormInv, JdInv, OneOut, Carried, Jd!FreshToken
    <2>3. panel = "studio" => Studio!FreshToken
      BY Zenon DEF FormInv, StudioInv, OneOut, Carried, Studio!FreshToken
    <2>4. panel = "infer" => Infer!FreshToken
      BY Zenon DEF FormInv, InferInv, Infer!FreshToken
    <2>5. QED
      BY <2>1, <2>2, <2>3, <2>4 DEF FreshToken
  <1>2. QED
    BY FormInit, FormStep, <1>1, PTL DEF Spec

------------------------------------------------------------------------------
(* The palette and what it shares with the pages.                          *)

Elements == {"body", "page", "palette", "console", "card", "main"}
Routes == {"home", "resume", "work"}

Site == [open : BOOLEAN, results : Int, sel : Int, restore : Elements,
         shouldRestore : BOOLEAN, intent : BOOLEAN, flag : BOOLEAN, shellInert : BOOLEAN,
         bodyLocked : BOOLEAN, focus : Elements, route : Routes, nav : Routes \cup {""}]

\* The palette traps the focus, and no wish of a command is left over.
Trapped(s) ==
  /\ s.open = s.shellInert /\ s.open = s.bodyLocked
  /\ s.open => s.focus \in {"palette", "body"}
  /\ s.focus = "palette" => s.open
Wishless(s) == ~s.shouldRestore /\ ~s.intent
Sound(s) == s \in Site /\ Trapped(s) /\ Wishless(s)

\* s and t show the same route, and the same navigation is under way.
SamePlace(s, t) == t.route = s.route /\ t.nav = s.nav

LEMMA FocusTraps ==
  ASSUME NEW s \in Site, Trapped(s), NEW el \in Elements
  PROVE  LET t == Construct!Focus(s, el)
         IN /\ t \in Site /\ Trapped(t) /\ SamePlace(s, t) /\ t.open = s.open
            /\ t.shouldRestore = s.shouldRestore /\ t.intent = s.intent
  <1> DEFINE t == Construct!Focus(s, el)
  <1>1. CASE s.shellInert \/ ~Construct!Exists(s, el)
    BY <1>1, Zenon DEF Construct!Focus, SamePlace
  <1>2. CASE ~s.shellInert /\ Construct!Exists(s, el)
    <2>1. t = [s EXCEPT !.focus = el]
      BY <1>2, Zenon DEF Construct!Focus
    <2>2. el # "palette"
      BY <1>2 DEF Construct!Exists
    <2>3. /\ t \in Site /\ t.focus = el /\ t.open = s.open /\ t.shellInert = s.shellInert
          /\ t.bodyLocked = s.bodyLocked /\ t.route = s.route /\ t.nav = s.nav
          /\ t.shouldRestore = s.shouldRestore /\ t.intent = s.intent
      BY <2>1, Zenon DEF Site
    <2>4. QED
      BY <1>2, <2>2, <2>3, Zenon DEF Trapped, SamePlace
  <1>3. QED
    BY <1>1, <1>2

\* Whatever wishes the open palette is closed with, none is left.
LEMMA ClosedSound ==
  ASSUME NEW s \in Site, Trapped(s), s.open, ~s.shouldRestore \/ ~s.intent
  PROVE  LET t == Construct!Closed(s)
         IN Sound(t) /\ SamePlace(s, t) /\ ~t.open
  <1> DEFINE el == IF s.focus = "palette" THEN "body" ELSE s.focus
             u  == [s EXCEPT !.open = FALSE, !.shellInert = FALSE, !.bodyLocked = FALSE,
                             !.focus = IF @ = "palette" THEN "body" ELSE @]
  <1>1. el \in Elements /\ el # "palette"
    BY Zenon DEF Site, Elements
  <1>2. /\ u \in Site /\ ~u.open /\ ~u.shellInert /\ ~u.bodyLocked /\ u.focus = el
        /\ u.shouldRestore = s.shouldRestore /\ u.intent = s.intent
        /\ u.route = s.route /\ u.nav = s.nav /\ u.restore = s.restore
    BY <1>1, Zenon DEF Site
  <1> HIDE DEF u, el
  <1>3. CASE s.shouldRestore
    <2> DEFINE v == [u EXCEPT !.shouldRestore = FALSE]
    <2>1. /\ v \in Site /\ ~v.open /\ ~v.shellInert /\ ~v.bodyLocked /\ v.focus = el
          /\ ~v.shouldRestore /\ v.intent = u.intent /\ v.route = u.route /\ v.nav = u.nav
      BY <1>2, Zenon DEF Site
    <2>2. Construct!Closed(s) = Construct!Focus(v, u.restore)
      BY <1>2, <1>3, Zenon DEF Construct!Closed, u
    <2> HIDE DEF v
    <2>3. Trapped(v) /\ ~v.intent /\ SamePlace(s, v) /\ u.restore \in Elements
      BY <1>1, <1>2, <1>3, <2>1, Zenon DEF Trapped, SamePlace, Site
    <2>4. QED
      BY <2>1, <2>2, <2>3, FocusTraps DEF Sound, Wishless, SamePlace
  <1>4. CASE ~s.shouldRestore /\ ~s.intent
    <2>1. Construct!Closed(s) = u
      BY <1>2, <1>4, Zenon DEF Construct!Closed, u
    <2>2. Sound(u) /\ SamePlace(s, u)
      BY <1>1, <1>2, <1>4, Zenon DEF Site, Sound, Trapped, Wishless, SamePlace
    <2>3. QED
      BY <1>2, <2>1, <2>2
  <1>5. CASE ~s.shouldRestore /\ s.intent /\ s.route = "home"
    <2> DEFINE v == [u EXCEPT !.intent = FALSE]
    <2>1. /\ v \in Site /\ ~v.open /\ ~v.shellInert /\ ~v.bodyLocked /\ v.focus = el
          /\ v.shouldRestore = u.shouldRestore /\ ~v.intent /\ v.route = u.route /\ v.nav = u.nav
      BY <1>2, Zenon DEF Site
    <2>2. Construct!Closed(s) = Construct!Focus(v, "console")
      BY <1>2, <1>5, Zenon DEF Construct!Closed, u
    <2> HIDE DEF v
    <2>3. Trapped(v) /\ ~v.shouldRestore /\ SamePlace(s, v)
      BY <1>1, <1>2, <1>5, <2>1, Zenon DEF Site, Trapped, SamePlace
    <2>4. "console" \in Elements
      BY DEF Elements
    <2>5. QED
      BY <2>4, <2>1, <2>2, <2>3, FocusTraps DEF Sound, Wishless, SamePlace
  <1>6. CASE ~s.shouldRestore /\ s.intent /\ s.route # "home"
    <2> DEFINE v == [u EXCEPT !.intent = FALSE, !.flag = TRUE]
    <2>1. /\ v \in Site /\ ~v.open /\ ~v.shellInert /\ ~v.bodyLocked /\ v.focus = el
          /\ v.shouldRestore = u.shouldRestore /\ ~v.intent /\ v.route = u.route /\ v.nav = u.nav
      BY <1>2, Zenon DEF Site
    <2>2. Construct!Closed(s) = v
      BY <1>2, <1>6, Zenon DEF Construct!Closed, u
    <2> HIDE DEF v
    <2>3. Sound(v) /\ SamePlace(s, v)
      BY <1>1, <1>2, <1>6, <2>1, Zenon DEF Site, Sound, Trapped, Wishless, SamePlace
    <2>4. QED
      BY <2>1, <2>2, <2>3
  <1>7. QED
    <2>1. s.shouldRestore \in BOOLEAN /\ s.intent \in BOOLEAN
      BY Zenon DEF Site
    <2>2. QED
      BY <1>3, <1>4, <1>5, <1>6, <2>1

LEMMA DismissedSound ==
  ASSUME NEW s, Sound(s), s.open
  PROVE  LET t == Construct!Dismissed(s)
         IN Sound(t) /\ SamePlace(s, t) /\ ~t.open
  <1>1. PICK u : u = [s EXCEPT !.shouldRestore = TRUE]
    OBVIOUS
  <1>2. /\ u \in Site /\ u.open /\ u.shellInert = s.shellInert /\ u.bodyLocked = s.bodyLocked
        /\ u.focus = s.focus /\ ~u.intent /\ SamePlace(s, u)
    BY <1>1, Zenon DEF Sound, Wishless, Site, SamePlace
  <1>3. Trapped(u)
    BY <1>2, Zenon DEF Sound, Trapped
  <1>4. QED
    BY <1>1, <1>2, <1>3, ClosedSound DEF Construct!Dismissed, SamePlace

LEMMA OpenedSound ==
  ASSUME NEW s, Sound(s)
  PROVE  LET t == Construct!Opened(s) IN Sound(t) /\ SamePlace(s, t)
  <1>1. PICK t : t = Construct!Opened(s)
    OBVIOUS
  <1>2. MaxResults \in Int /\ 0 \in Int
    BY TabAssumption
  <1>3. /\ t \in Site /\ t.open /\ t.shellInert /\ t.bodyLocked /\ t.focus = "palette"
        /\ t.shouldRestore = s.shouldRestore /\ t.intent = s.intent /\ SamePlace(s, t)
    BY <1>1, <1>2, Zenon DEF Construct!Opened, Sound, Site, SamePlace, Elements
  <1>4. Sound(t)
    BY <1>3, Zenon DEF Sound, Trapped, Wishless
  <1>5. QED
    BY <1>1, <1>3, <1>4

\* router.push only says where to go.
LEMMA PushSound ==
  ASSUME NEW s, Sound(s), NEW href \in Routes
  PROVE  LET t == Construct!Push(s, href) IN Sound(t) /\ t.route = s.route /\ t.open = s.open
  <1>1. PICK to : to = IF href = s.route THEN s.nav ELSE href
    OBVIOUS
  <1>2. to \in Routes \cup {""}
    BY <1>1, Zenon DEF Sound, Site
  <1>3. PICK t : t = [s EXCEPT !.nav = to]
    OBVIOUS
  <1>4. t = Construct!Push(s, href)
    BY <1>1, <1>3, Zenon DEF Construct!Push
  <1>5. /\ t \in Site /\ t.open = s.open /\ t.shellInert = s.shellInert
        /\ t.bodyLocked = s.bodyLocked /\ t.focus = s.focus /\ t.route = s.route
        /\ t.shouldRestore = s.shouldRestore /\ t.intent = s.intent
    BY <1>2, <1>3, Zenon DEF Sound, Site
  <1>6. Sound(t)
    BY <1>5, Zenon DEF Sound, Trapped, Wishless
  <1>7. QED
    BY <1>4, <1>5, <1>6

LEMMA GotoSound ==
  ASSUME NEW s, Sound(s), s.open, NEW href \in Routes
  PROVE  LET t == Construct!Goto(s, href) IN Sound(t) /\ t.route = s.route
  <1>1. PICK w : w = (s.shouldRestore \/ href = s.route)
    OBVIOUS
  <1>2. PICK u : u = [s EXCEPT !.shouldRestore = w]
    OBVIOUS
  <1>3. w \in BOOLEAN
    BY <1>1
  <1>4. /\ u \in Site /\ u.open = s.open /\ u.shellInert = s.shellInert
        /\ u.bodyLocked = s.bodyLocked /\ u.focus = s.focus /\ ~u.intent /\ u.route = s.route
    BY <1>2, <1>3, Zenon DEF Sound, Wishless, Site
  <1>5. Trapped(u)
    BY <1>4, Zenon DEF Sound, Trapped
  <1>6. Sound(Construct!Closed(u)) /\ SamePlace(u, Construct!Closed(u))
    BY <1>4, <1>5, ClosedSound
  <1>7. Construct!Goto(s, href) = Construct!Push(Construct!Closed(u), href)
    BY <1>1, <1>2, Zenon DEF Construct!Goto
  <1>8. QED
    BY <1>4, <1>6, <1>7, PushSound DEF SamePlace

LEMMA OpenConsoleSound ==
  ASSUME NEW s, Sound(s), s.open
  PROVE  LET t == Construct!OpenConsole(s) IN Sound(t) /\ t.route = s.route
  <1>1. PICK u : u = [s EXCEPT !.intent = TRUE]
    OBVIOUS
  <1>2. /\ u \in Site /\ u.open = s.open /\ u.shellInert = s.shellInert
        /\ u.bodyLocked = s.bodyLocked /\ u.focus = s.focus /\ ~u.shouldRestore
        /\ u.route = s.route
    BY <1>1, Zenon DEF Sound, Wishless, Site
  <1>3. Trapped(u)
    BY <1>2, Zenon DEF Sound, Trapped
  <1>4. Sound(Construct!Closed(u)) /\ SamePlace(u, Construct!Closed(u))
    BY <1>2, <1>3, ClosedSound
  <1>5. Construct!OpenConsole(s) = Construct!Push(Construct!Closed(u), "home")
    BY <1>1, Zenon DEF Construct!OpenConsole
  <1>6. "home" \in Routes
    BY DEF Routes
  <1>7. QED
    BY <1>2, <1>4, <1>5, <1>6, PushSound DEF SamePlace

\* A navigation commits to the place it names, and the palette is closed.
LEMMA CommitSound ==
  ASSUME NEW s, Sound(s), s.nav # ""
  PROVE  LET t == Construct!Commit(s) IN Sound(t) /\ t.route = s.nav /\ t.nav = ""
  <1>1. PICK u : u = [s EXCEPT !.route = s.nav, !.nav = "", !.flag = FALSE]
    OBVIOUS
  <1>2. /\ u \in Site /\ u.open = s.open /\ u.shellInert = s.shellInert
        /\ u.bodyLocked = s.bodyLocked /\ u.focus = s.focus /\ u.route = s.nav /\ u.nav = ""
        /\ u.shouldRestore = s.shouldRestore /\ u.intent = s.intent
    BY <1>1, Zenon DEF Sound, Site
  <1>3. Trapped(u) /\ ~u.shouldRestore /\ ~u.intent
    BY <1>2, Zenon DEF Sound, Trapped, Wishless
  <1>4. PICK el \in Elements : el = IF s.flag /\ u.route = "home" THEN "console" ELSE "main"
    BY DEF Elements
  <1>5. PICK v : v = Construct!Focus(u, el)
    OBVIOUS
  <1>6. /\ v \in Site /\ Trapped(v) /\ SamePlace(u, v) /\ v.open = u.open
        /\ v.shouldRestore = u.shouldRestore /\ v.intent = u.intent
    BY <1>2, <1>3, <1>5, FocusTraps
  <1>7. Construct!Commit(s) = Construct!Closed(v)
    BY <1>1, <1>4, <1>5, Zenon DEF Construct!Commit
  <1>8. CASE v.open
    BY <1>2, <1>3, <1>6, <1>7, <1>8, ClosedSound DEF SamePlace
  <1>9. CASE ~v.open
    <2>1. Construct!Closed(v) = v
      BY <1>9, Zenon DEF Construct!Closed
    <2>2. QED
      BY <1>2, <1>3, <1>6, <1>7, <2>1 DEF SamePlace, Sound, Wishless
  <1>10. QED
    BY <1>8, <1>9

------------------------------------------------------------------------------
(* The immersive resume.                                                   *)

Card == Cards \cup {"none"}

ConState ==
  [site : Site, reduce : BOOLEAN, mode : {"static", "immersive"}, veil : BOOLEAN,
   jack : SUBSET {"chunk", "mode", "veil"}, helix : BOOLEAN, bloomed : Card,
   slamming : Card, slamT : Card, cls : SUBSET Cards,
   anim : [Cards -> {"none", "bloom", "slam"}], once : SUBSET Cards, inert : SUBSET Cards,
   docLocked : BOOLEAN, focused : Card, blooms : Int, restless : BOOLEAN, stray : BOOLEAN,
   esc : BOOLEAN]

\* The page is locked, and the other cards are inert, while a card blooms.
Contained(u) ==
  /\ u.docLocked <=> u.bloomed # "none"
  /\ u.inert = IF u.bloomed = "none" THEN {} ELSE Cards \ {u.bloomed}
\* Nothing of the immersive document is left on another route, nor will be.
Left(u) == u.site.route # "resume" => u.mode = "static" /\ u.bloomed = "none" /\ u.jack = {}
\* A bloom cancels the slam before it.  Only the listener of a slam can take the
\* surface away from the blooming card, and it has one only if it was restless.
Surfaced(u) ==
  /\ u.bloomed # "none" => u.slamming = "none" /\ u.slamT = "none"
  /\ u.bloomed # "none" /\ ~u.restless => u.bloomed \in u.cls /\ u.bloomed \notin u.once
  /\ u.cls \subseteq {u.bloomed, u.slamming}
ConOk(u) == u \in ConState /\ Sound(u.site) /\ Contained(u) /\ Left(u) /\ Surfaced(u)

\* The palette and the navigation to come do not concern the cards.
LEMMA SiteOnly ==
  ASSUME NEW u, ConOk(u), NEW t, Sound(t), t.route = u.site.route
  PROVE  ConOk([u EXCEPT !.site = t]) /\ [u EXCEPT !.site = t].esc = u.esc
  <1>1. PICK v : v = [u EXCEPT !.site = t]
    OBVIOUS
  <1>2. /\ v \in ConState /\ v.site = t /\ v.docLocked = u.docLocked /\ v.bloomed = u.bloomed
        /\ v.inert = u.inert /\ v.mode = u.mode /\ v.jack = u.jack /\ v.slamming = u.slamming
        /\ v.slamT = u.slamT /\ v.restless = u.restless /\ v.cls = u.cls /\ v.once = u.once
        /\ v.esc = u.esc
    BY <1>1, Zenon DEF ConOk, Sound, ConState
  <1>3. ConOk(v)
    BY <1>2, Zenon DEF ConOk, Contained, Left, Surfaced
  <1>4. QED
    BY <1>1, <1>2, <1>3

LEMMA ConInit == Construct!Init => ConOk(ui)
  <1> SUFFICES ASSUME Construct!Init PROVE ConOk(ui)
    OBVIOUS
  <1>1. PICK helix, reduce \in BOOLEAN :
    ui = [site |-> Construct!SiteInit("resume"), reduce |-> reduce, mode |-> "static",
          veil |-> FALSE, jack |-> IF reduce THEN {} ELSE {"chunk"}, helix |-> helix,
          bloomed |-> "none", slamming |-> "none", slamT |-> "none", cls |-> {},
          anim |-> [c \in Cards |-> "none"], once |-> {}, inert |-> {}, docLocked |-> FALSE,
          focused |-> "none", blooms |-> 0, restless |-> FALSE, stray |-> FALSE, esc |-> FALSE]
    BY Zenon DEF Construct!Init, Construct!None
  <1>2. PICK s : s = Construct!SiteInit("resume")
    OBVIOUS
  <1>3. s \in Site /\ s.route = "resume" /\ Trapped(s) /\ Wishless(s)
    <2>1. MaxResults \in Int /\ 0 \in Int
      BY TabAssumption
    <2>2. /\ s \in Site /\ s.route = "resume" /\ ~s.open /\ ~s.shellInert /\ ~s.bodyLocked
          /\ s.focus = "page" /\ ~s.shouldRestore /\ ~s.intent
      BY <1>2, <2>1, Zenon DEF Construct!SiteInit, Site, Elements, Routes
    <2>3. "page" # "palette"
      OBVIOUS
    <2>4. QED
      BY <2>2, <2>3, Zenon DEF Trapped, Wishless, Site
  <1>4. PICK jack : jack = IF reduce THEN {} ELSE {"chunk"}
    OBVIOUS
  <1>5. jack \in SUBSET {"chunk", "mode", "veil"} /\ 0 \in Int
    BY <1>4
  <1>6. [c \in Cards |-> "none"] \in [Cards -> {"none", "bloom", "slam"}]
    OBVIOUS
  <1>7. ui \in ConState
    BY <1>1, <1>2, <1>3, <1>4, <1>5, <1>6, Zenon DEF ConState, Card
  <1>8. /\ ui.site = s /\ ui.bloomed = "none" /\ ~ui.docLocked /\ ui.inert = {} /\ ui.cls = {}
    BY <1>1, <1>2
  <1>9. QED
    BY <1>3, <1>7, <1>8 DEF ConOk, Sound, Contained, Left, Surfaced

LEMMA PaletteKeeps ==
  ASSUME ConOk(ui), Construct!PaletteStep
  PROVE  ConOk(ui') /\ ui'.esc = ui.esc
  <1>1. PICK s : s = ui.site
    OBVIOUS
  <1>2. Sound(s)
    BY <1>1 DEF ConOk
  <1>3. SUFFICES \E t : ui' = [ui EXCEPT !.site = t] /\ Sound(t) /\ t.route = s.route
    BY <1>1, SiteOnly
  <1>4. CASE Construct!CtrlK
    <2>1. CASE s.open
      BY <1>1, <1>2, <1>4, <2>1, DismissedSound DEF Construct!CtrlK, SamePlace
    <2>2. CASE ~s.open
      BY <1>1, <1>2, <1>4, <2>2, OpenedSound DEF Construct!CtrlK, SamePlace
    <2>3. QED
      BY <2>1, <2>2
  <1>5. CASE Construct!NavButton
    <2>1. PICK t : t = [s EXCEPT !.focus = "page"]
      OBVIOUS
    <2>2. ui' = [ui EXCEPT !.site = Construct!Opened(t)] /\ ~s.open
      BY <1>1, <1>5, <2>1, Zenon DEF Construct!NavButton
    <2>3. "page" \in Elements
      BY DEF Elements
    <2>4. /\ t \in Site /\ t.open = s.open /\ t.shellInert = s.shellInert
          /\ t.bodyLocked = s.bodyLocked /\ t.focus = "page" /\ t.route = s.route
          /\ t.shouldRestore = s.shouldRestore /\ t.intent = s.intent
      BY <1>2, <2>1, <2>3, Zenon DEF Sound, Site
    <2>5. Sound(t)
      BY <1>2, <2>2, <2>4 DEF Sound, Trapped, Wishless
    <2>6. QED
      BY <2>2, <2>4, <2>5, OpenedSound DEF SamePlace
  <1>6. CASE Construct!Backdrop
    BY <1>1, <1>2, <1>6, DismissedSound DEF Construct!Backdrop, SamePlace
  <1>7. CASE Construct!PressBox
    <2>1. PICK t : t = [s EXCEPT !.focus = "body"]
      OBVIOUS
    <2>2. ui' = [ui EXCEPT !.site = t] /\ s.open
      BY <1>1, <1>7, <2>1, Zenon DEF Construct!PressBox
    <2>3. "body" \in Elements
      BY DEF Elements
    <2>4. /\ t \in Site /\ t.open = s.open /\ t.shellInert = s.shellInert
          /\ t.bodyLocked = s.bodyLocked /\ t.focus = "body" /\ t.route = s.route
          /\ t.shouldRestore = s.shouldRestore /\ t.intent = s.intent
      BY <1>2, <2>1, <2>3, Zenon DEF Sound, Site
    <2>5. Sound(t)
      BY <1>2, <2>2, <2>4 DEF Sound, Trapped, Wishless
    <2>6. QED
      BY <2>2, <2>4, <2>5
  <1>8. ASSUME NEW n \in Int, NEW m \in Int, NEW t, t = [s EXCEPT !.results = n, !.sel = m]
        PROVE  Sound(t) /\ t.route = s.route
    <2>1. /\ t \in Site /\ t.open = s.open /\ t.shellInert = s.shellInert
          /\ t.bodyLocked = s.bodyLocked /\ t.focus = s.focus /\ t.route = s.route
          /\ t.shouldRestore = s.shouldRestore /\ t.intent = s.intent
      BY <1>2, <1>8, Zenon DEF Sound, Site
    <2>2. QED
      BY <1>2, <2>1, Zenon DEF Sound, Trapped, Wishless
  <1>9. CASE Construct!Query
    <2>1. PICK n \in 0..MaxResults : ui' = [ui EXCEPT !.site.results = n, !.site.sel = 0]
      BY <1>9, Zenon DEF Construct!Query
    <2>2. n \in Int /\ 0 \in Int
      BY <2>1, TabAssumption
    <2>3. PICK t : t = [s EXCEPT !.results = n, !.sel = 0]
      OBVIOUS
    <2>4. ui' = [ui EXCEPT !.site = t]
      BY <1>1, <1>2, <2>1, <2>3, Zenon DEF ConOk, ConState
    <2>5. Sound(t) /\ t.route = s.route
      BY <1>8, <2>2, <2>3, Zenon
    <2>6. QED
      BY <2>4, <2>5
  <1>10. CASE Construct!Select
    <2>1. PICK m : m \in Int /\ ui' = [ui EXCEPT !.site.sel = m]
      <3>1. s.sel \in Int /\ s.results \in Int
        BY <1>2 DEF Sound, Site
      <3>2. PICK m : /\ ui' = [ui EXCEPT !.site.sel = m]
                     /\ \/ m \in {s.sel + 1, s.results - 1, s.sel - 1, 0}
                        \/ m \in 0..(s.results - 1)
        BY <1>1, <1>10, Zenon DEF Construct!Select
      <3>3. QED
        BY <3>1, <3>2
    <2>2. PICK n \in Int : n = s.results
      BY <1>2 DEF Sound, Site
    <2>3. PICK t : t = [s EXCEPT !.results = n, !.sel = m]
      OBVIOUS
    <2>4. t = [s EXCEPT !.sel = m]
      BY <1>2, <2>1, <2>2, <2>3, Zenon DEF Sound, Site
    <2>5. ui' = [ui EXCEPT !.site = t]
      BY <1>1, <2>1, <2>4, Zenon
    <2>6. Sound(t) /\ t.route = s.route
      BY <1>8, <2>1, <2>3, Zenon
    <2>7. QED
      BY <2>5, <2>6
  <1>11. CASE Construct!Run
    <2>1. s.open
      BY <1>1, <1>11 DEF Construct!Run
    <2>2. CASE \E href \in Routes : ui' = [ui EXCEPT !.site = Construct!Goto(s, href)]
      BY <1>2, <2>1, <2>2, GotoSound
    <2>3. CASE ui' = [ui EXCEPT !.site = Construct!OpenConsole(s)]
      BY <1>2, <2>1, <2>3, OpenConsoleSound
    <2>4. CASE ui' = [ui EXCEPT !.site = Construct!Theme(s)]
      BY <1>2, <2>1, <2>4, DismissedSound DEF Construct!Theme, SamePlace
    <2>5. QED
      BY <1>1, <1>11, <2>2, <2>3, <2>4, Zenon DEF Construct!Run, Routes, Construct!Routes
  <1>12. CASE Construct!Leave
    <2>1. PICK href \in Routes : ui' = [ui EXCEPT !.site = Construct!Push(s, href)]
      BY <1>1, <1>12, Zenon DEF Construct!Leave, Routes, Construct!Routes
    <2>2. QED
      BY <1>2, <2>1, PushSound
  <1>13. CASE Construct!Back
    <2>1. PICK href \in Routes : ui' = [ui EXCEPT !.site.nav = href] /\ href # s.route
      BY <1>1, <1>13, Zenon DEF Construct!Back, Routes, Construct!Routes
    <2>2. Construct!Push(s, href) = [s EXCEPT !.nav = href]
      BY <2>1, Zenon DEF Construct!Push
    <2>3. ui' = [ui EXCEPT !.site = Construct!Push(s, href)]
      BY <1>1, <2>1, <2>2, Zenon
    <2>4. QED
      BY <1>2, <2>3, PushSound
  <1>14. QED
    BY <1>4, <1>5, <1>6, <1>7, <1>9, <1>10, <1>11, <1>12, <1>13 DEF Construct!PaletteStep

LEMMA OpenBloomOk ==
  ASSUME NEW u, ConOk(u), NEW el \in Cards, u.mode = "immersive"
  PROVE  LET v == Construct!openBloom(u, el) IN ConOk(v) /\ v.esc = u.esc
  <1>1. PICK s : s = Construct!Focus(u.site, "card")
    OBVIOUS
  <1>2. Sound(s) /\ s.route = u.site.route
    <2>1. "card" \in Elements
      BY DEF Elements
    <2>2. QED
      BY <1>1, <2>1, FocusTraps DEF ConOk, Sound, Wishless, SamePlace
  <1>3. PICK anim : anim = [c \in Cards |-> IF c = el THEN "bloom" ELSE "none"]
    OBVIOUS
  <1>4. PICK restless : restless = (u.restless \/ el \in u.once)
    OBVIOUS
  <1>5. PICK blooms : blooms = u.blooms + 1
    OBVIOUS
  <1>6. PICK v : v = [u EXCEPT !.slamT = "none", !.slamming = "none", !.bloomed = el,
                               !.cls = {el}, !.anim = anim, !.inert = Cards \ {el},
                               !.docLocked = TRUE, !.site = s, !.blooms = blooms,
                               !.restless = restless]
    OBVIOUS
  <1>7. v = Construct!openBloom(u, el)
    BY <1>1, <1>3, <1>4, <1>5, <1>6, Zenon DEF Construct!openBloom, Construct!None
  <1>8. anim \in [Cards -> {"none", "bloom", "slam"}]
    BY <1>3
  <1>9. restless \in BOOLEAN
    BY <1>4
  <1>10. blooms \in Int
    <2>1. u.blooms \in Int
      BY Zenon DEF ConOk, ConState
    <2>2. QED
      BY <1>5, <2>1
  <1>11. /\ v \in ConState /\ v.site = s /\ v.bloomed = el /\ v.slamming = "none"
         /\ v.slamT = "none" /\ v.cls = {el} /\ v.inert = Cards \ {el} /\ v.docLocked
         /\ v.restless = restless /\ v.once = u.once /\ v.mode = u.mode /\ v.esc = u.esc
    BY <1>2, <1>6, <1>8, <1>9, <1>10, Zenon DEF ConOk, Sound, ConState, Card
  <1>12. el # "none"
    BY TabAssumption
  <1>13. s.route = "resume"
    BY <1>2 DEF ConOk, Left
  <1>14. Contained(v) /\ Left(v) /\ Surfaced(v)
    BY <1>4, <1>11, <1>12, <1>13 DEF Contained, Left, Surfaced
  <1>15. QED
    BY <1>2, <1>7, <1>11, <1>14, Zenon DEF ConOk

LEMMA CloseBloomOk ==
  ASSUME NEW u, ConOk(u)
  PROVE  LET v == Construct!closeBloom(u)
         IN /\ ConOk(v) /\ v.bloomed = "none" /\ v.esc = u.esc /\ v.reduce = u.reduce
            /\ v.site.open = u.site.open /\ SamePlace(u.site, v.site)
  <1>1. CASE u.bloomed = "none"
    <2>1. Construct!closeBloom(u) = u
      BY <1>1, Zenon DEF Construct!closeBloom, Construct!None
    <2>2. QED
      BY <1>1, <2>1 DEF SamePlace
  <1>2. CASE u.bloomed # "none"
    <2>1. PICK s : s = Construct!Focus(u.site, "card")
      OBVIOUS
    <2>2. Sound(s) /\ SamePlace(u.site, s) /\ s.open = u.site.open
      <3>1. "card" \in Elements
        BY DEF Elements
      <3>2. QED
        BY <2>1, <3>1, FocusTraps DEF ConOk, Sound, Wishless
    <2>3. PICK el \in Cards : el = u.bloomed
      BY <1>2, Zenon DEF ConOk, ConState, Card
    <2>4. PICK anim : anim = [u.anim EXCEPT ![el] = "slam"]
      OBVIOUS
    <2>5. PICK v : v = [u EXCEPT !.bloomed = "none", !.slamming = el, !.slamT = el,
                                 !.anim = anim, !.once = @ \cup {el}, !.inert = {},
                                 !.docLocked = FALSE, !.site = s]
      OBVIOUS
    <2>6. v = Construct!closeBloom(u)
      BY <1>2, <2>1, <2>3, <2>4, <2>5, Zenon DEF Construct!closeBloom, Construct!None
    <2>7. anim \in [Cards -> {"none", "bloom", "slam"}]
      <3>1. u.anim \in [Cards -> {"none", "bloom", "slam"}]
        BY Zenon DEF ConOk, ConState
      <3>2. QED
        BY <2>3, <2>4, <3>1
    <2>8. u.once \cup {el} \in SUBSET Cards /\ {} \in SUBSET Cards
      BY <2>3, Zenon DEF ConOk, ConState
    <2>9. /\ v \in ConState /\ v.site = s /\ v.bloomed = "none" /\ v.slamming = el
          /\ v.cls = u.cls /\ v.inert = {} /\ ~v.docLocked /\ v.mode = u.mode
          /\ v.jack = u.jack /\ v.esc = u.esc /\ v.reduce = u.reduce
      BY <2>2, <2>3, <2>5, <2>7, <2>8, Zenon DEF ConOk, Sound, ConState, Card
    <2>10. u.cls \subseteq {el}
      <3>1. u.slamming = "none" /\ u.cls \subseteq {u.bloomed, u.slamming} /\ u.cls \subseteq Cards
        BY <1>2, Zenon DEF ConOk, Surfaced, ConState
      <3>2. QED
        BY <2>3, <3>1, TabAssumption
    <2>11. Contained(v) /\ Left(v) /\ Surfaced(v)
      BY <2>2, <2>9, <2>10 DEF ConOk, Contained, Left, Surfaced, SamePlace
    <2>12. ConOk(v)
      BY <2>2, <2>9, <2>11, Zenon DEF ConOk
    <2>13. QED
      BY <2>2, <2>6, <2>9, <2>12
  <1>3. QED
    BY <1>1, <1>2

LEMMA SettleSlamOk ==
  ASSUME NEW u, ConOk(u), NEW el \in Cards,
         u.bloomed # "none" /\ ~u.restless => el # u.bloomed
  PROVE  LET v == Construct!settleSlam(u, el)
         IN ConOk(v) /\ v.esc = u.esc /\ v.once = u.once
  <1>1. PICK slamming : slamming = IF u.slamming = el THEN "none" ELSE u.slamming
    OBVIOUS
  <1>2. PICK anim : anim = [u.anim EXCEPT ![el] = "none"]
    OBVIOUS
  <1>3. PICK v : v = [u EXCEPT !.slamT = "none", !.cls = @ \ {el}, !.anim = anim,
                               !.slamming = slamming]
    OBVIOUS
  <1>4. v = Construct!settleSlam(u, el)
    BY <1>1, <1>2, <1>3, Zenon DEF Construct!settleSlam, Construct!None
  <1>5. anim \in [Cards -> {"none", "bloom", "slam"}]
    <2>1. u.anim \in [Cards -> {"none", "bloom", "slam"}]
      BY Zenon DEF ConOk, ConState
    <2>2. QED
      BY <1>2, <2>1
  <1>6. slamming \in Card /\ u.cls \ {el} \in SUBSET Cards /\ "none" \in Card
    BY <1>1, Zenon DEF ConOk, ConState, Card
  <1>7. /\ v \in ConState /\ v.site = u.site /\ v.bloomed = u.bloomed /\ v.slamming = slamming
        /\ v.slamT = "none" /\ v.cls = u.cls \ {el} /\ v.inert = u.inert
        /\ v.docLocked = u.docLocked /\ v.mode = u.mode /\ v.jack = u.jack
        /\ v.restless = u.restless /\ v.once = u.once /\ v.esc = u.esc
    BY <1>3, <1>5, <1>6, Zenon DEF ConOk, ConState
  <1>8. Contained(v) /\ Left(v)
    BY <1>7, Zenon DEF ConOk, Contained, Left
  <1>9. Surfaced(v)
    <2>1. Surfaced(u)
      BY DEF ConOk
    <2>2. QED
      BY <1>1, <1>7, <2>1 DEF Surfaced
  <1>10. QED
    BY <1>4, <1>7, <1>8, <1>9, Zenon DEF ConOk

\* What only the veil, the mode, the loading, the focus and the histories see.
LEMMA RestOk ==
  ASSUME NEW u, ConOk(u), NEW v \in ConState,
         v.site = u.site, v.bloomed = u.bloomed, v.slamming = u.slamming, v.slamT = u.slamT,
         v.cls = u.cls, v.inert = u.inert, v.docLocked = u.docLocked,
         v.restless = u.restless, v.once \subseteq u.once,
         u.site.route # "resume" => v.mode = "static" /\ v.jack = {}
  PROVE  ConOk(v)
  <1>1. Contained(v) /\ Left(v)
    BY DEF ConOk, Contained, Left
  <1>2. Surfaced(v)
    BY DEF ConOk, Surfaced
  <1>3. QED
    BY <1>1, <1>2 DEF ConOk

LEMMA CardsKeep ==
  ASSUME ConOk(ui),
         \/ Construct!ChunkLoaded \/ Construct!ChunkFails \/ Construct!ModeTimer
         \/ Construct!VeilTimer \/ Construct!SlamTimer \/ Construct!AnimationEnd
         \/ Construct!Frame \/ Construct!Click \/ Construct!Enter \/ Construct!Wheel
         \/ Construct!StrayTimer
  PROVE  ConOk(ui') /\ ui'.esc = ui.esc
  <1>0. /\ ui \in ConState
        /\ ui.jack # {} => ui.site.route = "resume"
        /\ ui.mode = "immersive" => ui.site.route = "resume"
    BY DEF ConOk, Left
  <1>1. ASSUME NEW veil \in BOOLEAN, NEW mode \in {"static", "immersive"},
               NEW jack \in SUBSET {"chunk", "mode", "veil"}, NEW focused \in Card,
               ui' = [ui EXCEPT !.veil = veil, !.mode = mode, !.jack = jack,
                                !.focused = focused],
               ui.site.route # "resume" => mode = "static" /\ jack = {}
        PROVE  ConOk(ui') /\ ui'.esc = ui.esc
    <2>1. /\ ui' \in ConState /\ ui'.site = ui.site /\ ui'.bloomed = ui.bloomed
          /\ ui'.slamming = ui.slamming /\ ui'.slamT = ui.slamT /\ ui'.cls = ui.cls
          /\ ui'.inert = ui.inert /\ ui'.docLocked = ui.docLocked
          /\ ui'.restless = ui.restless /\ ui'.once = ui.once /\ ui'.esc = ui.esc
          /\ ui'.mode = mode /\ ui'.jack = jack
      BY <1>0, <1>1, Zenon DEF ConState
    <2>2. QED
      BY <1>1, <2>1, RestOk
  <1>2. PICK veil \in BOOLEAN, mode \in {"static", "immersive"},
             jack \in SUBSET {"chunk", "mode", "veil"}, focused \in Card :
          veil = ui.veil /\ mode = ui.mode /\ jack = ui.jack /\ focused = ui.focused
    BY <1>0, Zenon DEF ConState
  <1>3. ui.site.route # "resume" => mode = "static" /\ jack = {}
    BY <1>2, Zenon DEF ConOk, Left
  <1>4. CASE Construct!ChunkLoaded
    <2>1. /\ {"mode", "veil"} \in SUBSET {"chunk", "mode", "veil"}
          /\ ui.site.route = "resume"
      BY <1>0, <1>4 DEF Construct!ChunkLoaded
    <2>2. ui' = [ui EXCEPT !.veil = TRUE, !.mode = mode, !.jack = {"mode", "veil"},
                           !.focused = focused]
      BY <1>0, <1>2, <1>4, Zenon DEF Construct!ChunkLoaded, ConState
    <2>3. QED
      BY <1>1, <2>1, <2>2, Zenon
  <1>5. CASE Construct!ChunkFails
    <2>1. {} \in SUBSET {"chunk", "mode", "veil"} /\ ui.site.route = "resume"
      BY <1>0, <1>5 DEF Construct!ChunkFails
    <2>2. ui' = [ui EXCEPT !.veil = veil, !.mode = mode, !.jack = {}, !.focused = focused]
      BY <1>0, <1>2, <1>5, Zenon DEF Construct!ChunkFails, ConState
    <2>3. QED
      BY <1>1, <2>1, <2>2, Zenon
  <1>6. CASE Construct!ModeTimer
    <2>1. PICK rest \in SUBSET {"chunk", "mode", "veil"} : rest = ui.jack \ {"mode"}
      BY <1>2
    <2>2. ui.site.route = "resume"
      BY <1>0, <1>6 DEF Construct!ModeTimer
    <2>3. ui' = [ui EXCEPT !.veil = veil, !.mode = "immersive", !.jack = rest,
                           !.focused = focused]
      BY <1>0, <1>2, <1>6, <2>1, Zenon DEF Construct!ModeTimer, ConState
    <2>4. QED
      BY <1>1, <2>2, <2>3, Zenon
  <1>7. CASE Construct!VeilTimer
    <2>1. {} \in SUBSET {"chunk", "mode", "veil"} /\ ui.site.route = "resume"
      BY <1>0, <1>7 DEF Construct!VeilTimer
    <2>2. ui' = [ui EXCEPT !.veil = FALSE, !.mode = mode, !.jack = {}, !.focused = focused]
      BY <1>0, <1>2, <1>7, Zenon DEF Construct!VeilTimer, ConState
    <2>3. QED
      BY <1>1, <2>1, <2>2, Zenon
  <1>8. CASE Construct!Frame
    <2>1. PICK c \in Cards : ui' = [ui EXCEPT !.focused = c]
      BY <1>8, Zenon DEF Construct!Frame
    <2>2. ui' = [ui EXCEPT !.veil = veil, !.mode = mode, !.jack = jack, !.focused = c]
      BY <1>0, <1>2, <2>1, Zenon DEF ConState
    <2>3. c \in Card
      BY DEF Card
    <2>4. QED
      BY <1>1, <1>3, <2>2, <2>3, Zenon
  <1>9. CASE Construct!Click \/ Construct!Enter
    <2>1. /\ Construct!View.immersive /\ ui.focused # "none"
          /\ ui' = Construct!openBloom(ui, ui.focused)
      BY <1>9, Zenon DEF Construct!Click, Construct!Enter, Construct!CanBloom, Construct!None
    <2>2. ui.mode = "immersive"
      BY <2>1 DEF Construct!View
    <2>3. ui.focused \in Cards
      BY <1>0, <2>1, Zenon DEF ConState, Card
    <2>4. QED
      BY <2>1, <2>2, <2>3, OpenBloomOk
  <1>10. CASE Construct!Wheel
    BY <1>10, CloseBloomOk DEF Construct!Wheel
  <1>11. CASE Construct!SlamTimer
    <2>1. ui.slamT # "none" /\ ui' = Construct!settleSlam(ui, ui.slamT)
      BY <1>11, Zenon DEF Construct!SlamTimer, Construct!None
    <2>2. ui.slamT \in Cards
      BY <1>0, <2>1, Zenon DEF ConState, Card
    <2>3. ui.bloomed = "none"
      BY <2>1 DEF ConOk, Surfaced
    <2>4. QED
      BY <2>1, <2>2, <2>3, SettleSlamOk
  <1>12. CASE Construct!AnimationEnd
    <2>1. PICK c \in Cards :
            ui' = IF c \in ui.once
                  THEN [Construct!settleSlam(ui, c) EXCEPT !.once = @ \ {c}]
                  ELSE [ui EXCEPT !.anim[c] = "none"]
      BY <1>12, Zenon DEF Construct!AnimationEnd, Construct!None
    <2>2. CASE c \in ui.once
      <3>1. PICK u : u = Construct!settleSlam(ui, c)
        OBVIOUS
      <3>2. ui.bloomed # "none" /\ ~ui.restless => c # ui.bloomed
        BY <2>2 DEF ConOk, Surfaced
      <3>3. ConOk(u) /\ u.esc = ui.esc
        BY <3>1, <3>2, SettleSlamOk
      <3>4. PICK once : once = u.once \ {c}
        OBVIOUS
      <3>5. once \in SUBSET Cards /\ once \subseteq u.once
        BY <3>3, <3>4, Zenon DEF ConOk, ConState
      <3>6. ui' = [u EXCEPT !.once = once]
        BY <2>1, <2>2, <3>1, <3>4, Zenon
      <3>7. /\ ui' \in ConState /\ ui'.site = u.site /\ ui'.bloomed = u.bloomed
            /\ ui'.slamming = u.slamming /\ ui'.slamT = u.slamT /\ ui'.cls = u.cls
            /\ ui'.inert = u.inert /\ ui'.docLocked = u.docLocked
            /\ ui'.restless = u.restless /\ ui'.once = once /\ ui'.esc = u.esc
            /\ ui'.mode = u.mode /\ ui'.jack = u.jack
        BY <3>3, <3>5, <3>6, Zenon DEF ConOk, ConState
      <3>8. u.site.route # "resume" => u.mode = "static" /\ u.jack = {}
        BY <3>3, Zenon DEF ConOk, Left
      <3>9. QED
        BY <3>3, <3>5, <3>7, <3>8, RestOk
    <2>3. CASE c \notin ui.once
      <3>1. PICK anim : anim = [ui.anim EXCEPT ![c] = "none"]
        OBVIOUS
      <3>2. anim \in [Cards -> {"none", "bloom", "slam"}]
        <4>1. ui.anim \in [Cards -> {"none", "bloom", "slam"}]
          BY <1>0, Zenon DEF ConState
        <4>2. QED
          BY <3>1, <4>1
      <3>3. ui' = [ui EXCEPT !.anim = anim]
        BY <2>1, <2>3, <3>1, Zenon
      <3>4. /\ ui' \in ConState /\ ui'.site = ui.site /\ ui'.bloomed = ui.bloomed
            /\ ui'.slamming = ui.slamming /\ ui'.slamT = ui.slamT /\ ui'.cls = ui.cls
            /\ ui'.inert = ui.inert /\ ui'.docLocked = ui.docLocked
            /\ ui'.restless = ui.restless /\ ui'.once = ui.once /\ ui'.esc = ui.esc
            /\ ui'.mode = ui.mode /\ ui'.jack = ui.jack
        BY <1>0, <3>2, <3>3, Zenon DEF ConState
      <3>5. QED
        BY <1>2, <1>3, <3>4, RestOk
    <2>4. QED
      BY <2>2, <2>3
  <1>13. CASE Construct!StrayTimer
    <2>1. ui' = [ui EXCEPT !.stray = FALSE]
      BY <1>13, Zenon DEF Construct!StrayTimer
    <2>2. /\ ui' \in ConState /\ ui'.site = ui.site /\ ui'.bloomed = ui.bloomed
          /\ ui'.slamming = ui.slamming /\ ui'.slamT = ui.slamT /\ ui'.cls = ui.cls
          /\ ui'.inert = ui.inert /\ ui'.docLocked = ui.docLocked
          /\ ui'.restless = ui.restless /\ ui'.once = ui.once /\ ui'.esc = ui.esc
          /\ ui'.mode = ui.mode /\ ui'.jack = ui.jack
      BY <1>0, <2>1, Zenon DEF ConState
    <2>3. ui.site.route # "resume" => ui.mode = "static" /\ ui.jack = {}
      BY Zenon DEF ConOk, Left
    <2>4. QED
      BY <2>2, <2>3, RestOk
  <1>14. QED
    BY <1>4, <1>5, <1>6, <1>7, <1>8, <1>9, <1>10, <1>11, <1>12, <1>13

\* The bloom hears an Escape first and stops it; then the palette, which prevents
\* the default; the window's listener leaves the page if neither has taken it.
LEMMA EscapeKeeps ==
  ASSUME ConOk(ui), Construct!Escape
  PROVE  /\ ConOk(ui')
         /\ \/ ui'.site.open = ui.site.open /\ ui'.site.nav = ui.site.nav
            \/ ui'.bloomed = ui.bloomed /\ ui'.site.nav = ui.site.nav
            \/ ui'.bloomed = ui.bloomed /\ ui'.site.open = ui.site.open
  <1>1. PICK esc \in BOOLEAN : esc = ~ui.esc
    OBVIOUS
  <1>2. PICK u : u = [ui EXCEPT !.esc = esc]
    OBVIOUS
  <1>3. /\ u \in ConState /\ u.site = ui.site /\ u.bloomed = ui.bloomed
        /\ u.slamming = ui.slamming /\ u.slamT = ui.slamT /\ u.cls = ui.cls
        /\ u.inert = ui.inert /\ u.docLocked = ui.docLocked
        /\ u.restless = ui.restless /\ u.once = ui.once
        /\ u.mode = ui.mode /\ u.jack = ui.jack
    BY <1>2, Zenon DEF ConOk, ConState
  <1>4. ConOk(u)
    <2>1. ui.site.route # "resume" => ui.mode = "static" /\ ui.jack = {}
      BY Zenon DEF ConOk, Left
    <2>2. QED
      BY <1>3, <2>1, RestOk
  <1>5. PICK prevented : prevented = (ui.site.open /\ ui.site.focus = "palette")
    OBVIOUS
  <1>6. PICK s : s = IF prevented THEN Construct!Dismissed(ui.site) ELSE ui.site
    OBVIOUS
  <1>7. \/ ui' = Construct!closeBloom(u)
        \/ /\ ui' = [u EXCEPT !.site = Construct!Push(s, "home")]
           /\ ~Construct!constructKeyBlocked(prevented, s)
        \/ ui' = [u EXCEPT !.site = s]
    BY <1>1, <1>2, <1>3, <1>5, <1>6, Zenon DEF Construct!Escape
  <1>8. Sound(s) /\ SamePlace(ui.site, s) /\ (~prevented => s = ui.site)
    BY <1>5, <1>6, DismissedSound DEF ConOk, SamePlace
  <1>9. CASE ui' = Construct!closeBloom(u)
    BY <1>3, <1>4, <1>9, CloseBloomOk DEF SamePlace
  <1>10. ASSUME NEW t, Sound(t), t.route = ui.site.route, ui' = [u EXCEPT !.site = t]
         PROVE  ConOk(ui') /\ ui'.bloomed = ui.bloomed /\ ui'.site = t
    <2>1. ui'.bloomed = ui.bloomed /\ ui'.site = t
      BY <1>3, <1>10, Zenon DEF Sound, ConState
    <2>2. QED
      BY <1>3, <1>4, <1>10, <2>1, SiteOnly
  <1>11. CASE ui' = [u EXCEPT !.site = s]
    <2>1. ConOk(ui') /\ ui'.bloomed = ui.bloomed /\ ui'.site = s
      BY <1>8, <1>10, <1>11 DEF SamePlace
    <2>2. QED
      BY <1>8, <2>1 DEF SamePlace
  <1>12. CASE /\ ui' = [u EXCEPT !.site = Construct!Push(s, "home")]
              /\ ~Construct!constructKeyBlocked(prevented, s)
    <2>1. ~prevented /\ s = ui.site
      BY <1>8, <1>12 DEF Construct!constructKeyBlocked
    <2>2. "home" \in Routes
      BY DEF Routes
    <2>3. PICK t : t = Construct!Push(s, "home")
      OBVIOUS
    <2>4. Sound(t) /\ t.route = ui.site.route /\ t.open = ui.site.open
      BY <1>8, <2>1, <2>2, <2>3, PushSound
    <2>5. ConOk(ui') /\ ui'.bloomed = ui.bloomed /\ ui'.site = t
      BY <1>10, <1>12, <2>3, <2>4
    <2>6. QED
      BY <2>4, <2>5
  <1>13. QED
    BY <1>7, <1>9, <1>11, <1>12

\* Leaving the page closes what is open on it and stops what is to come.
LEMMA NavigateKeeps ==
  ASSUME ConOk(ui), Construct!Navigate
  PROVE  ConOk(ui') /\ ui'.esc = ui.esc
  <1>1. PICK t : t = Construct!Commit(ui.site)
    OBVIOUS
  <1>2. ui.site.nav # "" /\ Sound(ui.site)
    BY DEF Construct!Navigate, ConOk
  <1>3. Sound(t) /\ t.route = ui.site.nav
    BY <1>1, <1>2, CommitSound
  <1>4. PICK jack : jack = IF ui.site.nav = "resume" /\ ~ui.reduce THEN {"chunk"} ELSE {}
    OBVIOUS
  <1>5. /\ jack \in SUBSET {"chunk", "mode", "veil"}
        /\ t.route # "resume" => jack = {}
    BY <1>3, <1>4
  <1>6. ASSUME NEW u, ConOk(u), u.site = ui.site, u.esc = ui.esc,
               u.mode = "static", u.bloomed = "none",
               ui' = [u EXCEPT !.site = t, !.jack = jack]
        PROVE  ConOk(ui') /\ ui'.esc = ui.esc
    <2>1. /\ ui' \in ConState /\ ui'.site = t /\ ui'.bloomed = u.bloomed
          /\ ui'.slamming = u.slamming /\ ui'.slamT = u.slamT /\ ui'.cls = u.cls
          /\ ui'.inert = u.inert /\ ui'.docLocked = u.docLocked
          /\ ui'.restless = u.restless /\ ui'.once = u.once /\ ui'.mode = u.mode
          /\ ui'.jack = jack /\ ui'.esc = u.esc
      BY <1>3, <1>5, <1>6, Zenon DEF ConOk, Sound, ConState
    <2>2. Contained(ui') /\ Surfaced(ui')
      BY <1>6, <2>1, Zenon DEF ConOk, Contained, Surfaced
    <2>3. Left(ui')
      BY <1>5, <1>6, <2>1, Zenon DEF Left
    <2>4. QED
      BY <1>3, <1>6, <2>1, <2>2, <2>3, Zenon DEF ConOk
  <1>7. CASE ui.site.route = "resume"
    <2>1. PICK w : w = Construct!closeBloom(ui)
      OBVIOUS
    <2>2. ConOk(w) /\ w.esc = ui.esc
      BY <2>1, CloseBloomOk
    <2>3. PICK anim : anim = [c \in Cards |-> "none"]
      OBVIOUS
    <2>4. PICK b : b = [w EXCEPT !.bloomed = "none", !.slamming = "none", !.slamT = "none",
                                 !.cls = {}, !.anim = anim, !.once = {}, !.inert = {},
                                 !.docLocked = FALSE, !.focused = "none"]
      OBVIOUS
    <2>5. b = Construct!Blank(w)
      BY <2>3, <2>4, Zenon DEF Construct!Blank, Construct!None
    <2>6. PICK u : u = [b EXCEPT !.mode = "static", !.veil = FALSE, !.jack = {},
                                 !.site = ui.site, !.stray = @ \/ ui.bloomed # "none"]
      OBVIOUS
    <2>7. u = Construct!Unmounted(ui)
      BY <2>1, <2>5, <2>6, Zenon DEF Construct!Unmounted, Construct!None
    <2>8. ui' = [u EXCEPT !.site = Construct!Commit(@), !.jack = jack]
      BY <1>4, <1>7, <2>7, Zenon DEF Construct!Navigate
    <2>9. anim \in [Cards -> {"none", "bloom", "slam"}] /\ "none" \in Card
      BY <2>3 DEF Card
    <2>10. {} \in SUBSET Cards /\ {} \in SUBSET {"chunk", "mode", "veil"}
      OBVIOUS
    <2>11. b \in ConState /\ b.esc = ui.esc /\ b.cls = {} /\ b.bloomed = "none" /\ b.inert = {}
           /\ ~b.docLocked
      BY <2>2, <2>4, <2>9, <2>10, Zenon DEF ConOk, ConState
    <2>12. /\ u \in ConState /\ u.site = ui.site /\ u.esc = ui.esc /\ u.mode = "static"
           /\ u.bloomed = "none" /\ u.cls = {} /\ u.inert = {} /\ ~u.docLocked
      BY <1>2, <2>6, <2>10, <2>11, Zenon DEF Sound, ConState
    <2>13. Contained(u) /\ Left(u) /\ Surfaced(u)
      BY <1>7, <2>12 DEF Contained, Left, Surfaced
    <2>14. ConOk(u)
      BY <1>2, <2>12, <2>13 DEF ConOk
    <2>15. ui' = [u EXCEPT !.site = t, !.jack = jack]
      BY <1>1, <2>8, <2>12, Zenon
    <2>16. QED
      BY <1>6, <2>12, <2>14, <2>15
  <1>8. CASE ui.site.route # "resume"
    <2>1. ui.mode = "static" /\ ui.bloomed = "none"
      BY <1>8 DEF ConOk, Left
    <2>2. ui' = [ui EXCEPT !.site = t, !.jack = jack]
      BY <1>1, <1>4, <1>8, Zenon DEF Construct!Navigate
    <2>3. QED
      BY <1>6, <2>1, <2>2
  <1>9. QED
    BY <1>7, <1>8

\* The palette's module counts with an instance of its own.
LEMMA Counted == ASSUME NEW S PROVE Construct!Cardinality(S) = Cardinality(S)
  BY Zenon DEF Construct!Cardinality, Cardinality

LEMMA ConStep == ConOk(ui) /\ Construct!Next => ConOk(ui') /\ Construct!OneEscape
  <1> SUFFICES ASSUME ConOk(ui), Construct!Next PROVE ConOk(ui') /\ Construct!OneEscape
    OBVIOUS
  <1>1. CASE Construct!Escape
    <2> DEFINE Closes(x) ==
                 \/ x = "palette" /\ ui.site.open /\ ~ui'.site.open
                 \/ x = "bloom" /\ ui.bloomed # Construct!None /\ ui'.bloomed = Construct!None
                 \/ x = "page" /\ ui.site.nav # ui'.site.nav
               layers == {x \in {"palette", "bloom", "page"} : Closes(x)}
    <2>1. \E y : layers \subseteq {y}
      <3>1. CASE ui'.site.open = ui.site.open /\ ui'.site.nav = ui.site.nav
        <4>1. layers \subseteq {"bloom"}
          BY <3>1
        <4>2. QED
          BY <4>1
      <3>2. CASE ui'.bloomed = ui.bloomed /\ ui'.site.nav = ui.site.nav
        <4>1. layers \subseteq {"palette"}
          BY <3>2
        <4>2. QED
          BY <4>1
      <3>3. CASE ui'.bloomed = ui.bloomed /\ ui'.site.open = ui.site.open
        <4>1. layers \subseteq {"page"}
          BY <3>3
        <4>2. QED
          BY <4>1
      <3>4. QED
        BY <1>1, <3>1, <3>2, <3>3, EscapeKeeps
    <2>2. PICK y : layers \subseteq {y}
      BY <2>1
    <2>3. IsFiniteSet({y}) /\ Cardinality({y}) = 1
      BY FS_Singleton
    <2>4. Cardinality(layers) <= Cardinality({y})
      BY <2>2, <2>3, FS_Subset
    <2>5. Cardinality(layers) <= 1
      BY <2>3, <2>4
    <2>6. Construct!Cardinality(layers) <= 1
      BY <2>5, Counted, Zenon
    <2>7. Construct!OneEscape
      BY <2>6, Zenon DEF Construct!OneEscape
    <2>8. QED
      BY <1>1, <2>7, EscapeKeeps
  <1>2. CASE ~Construct!Escape
    <2>1. ConOk(ui') /\ ui'.esc = ui.esc
      BY <1>2, PaletteKeeps, CardsKeep, NavigateKeeps DEF Construct!Next, Construct!Answered
    <2>2. QED
      BY <2>1 DEF Construct!OneEscape
  <1>3. QED
    BY <1>1, <1>2

LEMMA ConModal == ConOk(ui) => Construct!ModalContained
  <1> SUFFICES ASSUME ConOk(ui) PROVE Construct!ModalContained
    OBVIOUS
  <1>1. Construct!PaletteTraps /\ Construct!NoStaleWish
    BY DEF ConOk, Sound, Trapped, Wishless, Construct!PaletteTraps, Construct!NoStaleWish
  <1>2. ui.docLocked \in BOOLEAN
    BY Zenon DEF ConOk, ConState
  <1>3. QED
    BY <1>1, <1>2 DEF ConOk, Contained, Left, Construct!ModalContained, Construct!None

TabConInv == panel = "construct" => ConOk(ui)

LEMMA TabConInductive ==
  /\ Init => TabConInv
  /\ TabConInv /\ [Next]_vars =>
       TabConInv' /\ [panel = "construct" => Construct!OneEscape]_vars
  <1>1. Init => TabConInv
    BY ConInit DEF Init, TabConInv
  <1>2. ASSUME TabConInv, Next
        PROVE  TabConInv' /\ (panel = "construct" => Construct!OneEscape)
    <2>1. panel' = panel /\ (panel = "construct" => Construct!Next)
      BY <1>2 DEF Next
    <2>2. QED
      BY <1>2, <2>1, ConStep DEF TabConInv
  <1>3. ASSUME TabConInv, UNCHANGED vars
        PROVE  TabConInv'
    BY <1>3 DEF TabConInv, vars, ConOk, Contained, Left, Surfaced
  <1>4. QED
    BY <1>1, <1>2, <1>3

\* In every behaviour of a tab, with any set of cards, however palette, blooms, slams,
\* timers and navigations interleave: the palette traps the focus while it is open,
\* a blooming card locks the page and makes the others inert, and nothing of either is
\* left behind (openBloom, closeBloom: Immersive.tsx:822; CommandPalette.tsx:132).
THEOREM LayersContainThePage == Spec => []Modal
  <1>1. TabConInv => Modal
    BY ConModal DEF TabConInv, Modal
  <1>2. QED
    BY TabConInductive, <1>1, PTL DEF Spec

\* In every behaviour of a tab one Escape undoes one layer: the palette, the bloom or
\* the page, never two of them (constructKeyBlocked: ConstructShell.tsx:20).
THEOREM EscapeUndoesOneLayer == Spec => OneEscape
  BY TabConInductive, PTL DEF Spec, OneEscape

------------------------------------------------------------------------------
(* The WAF panel: one poll is out at a time.                               *)

WafState == [mounted : BOOLEAN, polls : SUBSET Int, polled : Int, snap : Int,
             flags : BOOLEAN, busy : BOOLEAN, asked : Int, probe : Int,
             found : {"none", "flag", "block"},
             msg : {"", "no match", "flagged", "offline", "slow down", "faltered",
                    "core unreachable"}]

\* No poll out is older than the one shown.
WafPolls(u) ==
  /\ IsFiniteSet(u.polls)
  /\ \A r, s \in u.polls : r = s
  /\ \A r \in u.polls : u.snap <= r /\ r <= u.polled
  /\ u.snap <= u.polled
\* Probes are numbered from 1.
WafAsked(u) == u.asked >= 0 /\ (u.busy => u.asked # 0)
\* A verdict is told of the latest probe.
WafTold(u) ==
  u.msg \in {"no match", "flagged"} =>
    /\ u.probe = u.asked /\ u.probe # 0
    /\ u.found = "none" <=> u.msg = "no match"
WafOk(u) == u \in WafState /\ WafPolls(u) /\ WafAsked(u) /\ WafTold(u)

LEMMA WafInit == Waf!Init => WafOk(ui)
  <1> SUFFICES ASSUME Waf!Init PROVE WafOk(ui)
    OBVIOUS
  <1>1. {1} \in SUBSET Int /\ 0 \in Int /\ 1 \in Int
    OBVIOUS
  <1>2. /\ ui \in WafState /\ ui.polls = {1} /\ ui.snap = 0 /\ ui.polled = 1 /\ ui.asked = 0
        /\ ~ui.busy
    BY <1>1, Zenon DEF Waf!Init, WafState
  <1>3. IsFiniteSet({1})
    BY FS_Singleton
  <1>4. WafPolls(ui) /\ WafAsked(ui)
    BY <1>2, <1>3 DEF WafPolls, WafAsked
  <1>5. WafTold(ui)
    BY Zenon DEF Waf!Init, WafTold
  <1>6. QED
    BY <1>2, <1>4, <1>5, Zenon DEF WafOk

LEMMA WafOverlap ==
  ASSUME NEW S, IsFiniteSet(S), Waf!Cardinality(S) < Waf!Overlap
  PROVE  S = {}
  <1>1. Waf!Cardinality(S) = Cardinality(S)
    BY Zenon DEF Waf!Cardinality, Cardinality
  <1>2. Waf!Overlap = 1
    BY DEF Waf!Overlap
  <1>3. Cardinality(S) \in Nat
    BY FS_CardinalityType
  <1>4. QED
    BY <1>1, <1>2, <1>3, FS_EmptySet

LEMMA WafStep == WafOk(ui) /\ Waf!Next => WafOk(ui') /\ Waf!SnapshotsForward
  <1> SUFFICES ASSUME WafOk(ui), Waf!Next PROVE WafOk(ui') /\ ui'.snap >= ui.snap
    BY DEF Waf!SnapshotsForward
  <1>0. /\ ui \in WafState /\ ui.snap \in Int /\ ui.polled \in Int /\ ui.asked \in Int
        /\ WafPolls(ui) /\ WafAsked(ui) /\ WafTold(ui)
    BY Zenon DEF WafOk, WafState
  <1>1. CASE Waf!Poll
    <2>1. PICK n \in Int : n = ui.polled + 1
      BY <1>0
    <2>2. ui' = [ui EXCEPT !.polled = n, !.polls = @ \cup {n}] /\ ui.polls = {}
      BY <1>0, <1>1, <2>1, WafOverlap, Zenon DEF Waf!Poll, WafPolls
    <2>3. {n} \in SUBSET Int /\ IsFiniteSet({n}) /\ ui.polls \cup {n} = {n}
      BY <2>2, FS_Singleton
    <2>4. /\ ui' \in WafState /\ ui'.polls = {n} /\ ui'.polled = n /\ ui'.snap = ui.snap
          /\ ui'.asked = ui.asked /\ ui'.busy = ui.busy /\ ui'.msg = ui.msg
          /\ ui'.probe = ui.probe /\ ui'.found = ui.found
      BY <1>0, <2>2, <2>3, Zenon DEF WafState
    <2>5. WafPolls(ui') /\ ui'.snap >= ui.snap
      BY <1>0, <2>1, <2>3, <2>4 DEF WafPolls
    <2>6. WafAsked(ui') /\ WafTold(ui')
      BY <1>0, <2>4, Zenon DEF WafAsked, WafTold
    <2>7. QED
      BY <2>4, <2>5, <2>6, Zenon DEF WafOk
  <1>2. CASE Waf!OnPoll
    <2>1. PICK r \in ui.polls, ok \in BOOLEAN, flags \in BOOLEAN :
            ui' = [ui EXCEPT !.polls = @ \ {r},
                             !.snap = IF ok /\ ui.mounted THEN r ELSE @,
                             !.flags = IF ok /\ ui.mounted THEN flags ELSE @]
      BY <1>2, Zenon DEF Waf!OnPoll
    <2>2. PICK snap, fl : /\ snap = IF ok /\ ui.mounted THEN r ELSE ui.snap
                          /\ fl = IF ok /\ ui.mounted THEN flags ELSE ui.flags
      OBVIOUS
    <2>3. r \in Int /\ snap \in Int /\ fl \in BOOLEAN /\ ui.polls \ {r} \in SUBSET Int
      BY <1>0, <2>2, Zenon DEF WafState
    <2>4. ui.polls \ {r} = {} /\ IsFiniteSet({})
      BY <1>0, FS_EmptySet DEF WafPolls
    <2>5. /\ ui' \in WafState /\ ui'.polls = {} /\ ui'.polled = ui.polled /\ ui'.snap = snap
          /\ ui'.asked = ui.asked /\ ui'.busy = ui.busy /\ ui'.msg = ui.msg
          /\ ui'.probe = ui.probe /\ ui'.found = ui.found
      BY <1>0, <2>1, <2>2, <2>3, <2>4, Zenon DEF WafState
    <2>6. snap >= ui.snap /\ snap <= ui.polled
      BY <1>0, <2>2, <2>3 DEF WafPolls
    <2>7. WafPolls(ui') /\ ui'.snap >= ui.snap
      BY <1>0, <2>4, <2>5, <2>6 DEF WafPolls
    <2>8. WafAsked(ui') /\ WafTold(ui')
      BY <1>0, <2>5, Zenon DEF WafAsked, WafTold
    <2>9. QED
      BY <2>5, <2>7, <2>8, Zenon DEF WafOk
  <1>3. ASSUME ui' \in WafState, ui'.polls = ui.polls, ui'.polled = ui.polled,
               ui'.snap = ui.snap, WafAsked(ui'), WafTold(ui')
        PROVE  WafOk(ui') /\ ui'.snap >= ui.snap
    <2>1. WafPolls(ui') /\ ui'.snap >= ui.snap
      BY <1>0, <1>3 DEF WafPolls
    <2>2. QED
      BY <1>3, <2>1, Zenon DEF WafOk
  <1>4. CASE Waf!Click
    <2>1. CASE UNCHANGED ui
      BY <1>0, <1>3, <2>1
    <2>2. CASE ui' = [ui EXCEPT !.busy = TRUE, !.msg = "", !.asked = @ + 1]
      <3>1. PICK n \in Int : n = ui.asked + 1
        BY <1>0
      <3>2. /\ ui' \in WafState /\ ui'.polls = ui.polls /\ ui'.polled = ui.polled
            /\ ui'.snap = ui.snap /\ ui'.asked = n
        BY <1>0, <2>2, <3>1, Zenon DEF WafState
      <3>3. WafTold(ui')
        BY <1>0, <2>2, Zenon DEF WafTold, WafState
      <3>4. WafAsked(ui')
        BY <1>0, <3>1, <3>2 DEF WafAsked
      <3>5. QED
        BY <1>3, <3>2, <3>3, <3>4
    <2>3. QED
      BY <1>4, <2>1, <2>2, Zenon DEF Waf!Click, Waf!runProbe
  <1>5. CASE Waf!OnVerdict
    <2>1. PICK f \in {"none", "flag", "block"} :
            ui' = IF ~ui.mounted THEN [ui EXCEPT !.busy = FALSE]
                  ELSE [ui EXCEPT !.busy = FALSE, !.probe = ui.asked, !.found = f,
                                  !.msg = IF f = "none" THEN "no match" ELSE "flagged"]
      BY <1>5, Zenon DEF Waf!OnVerdict, Waf!Findings
    <2>2. ui.asked >= 0 /\ ui.asked # 0
      BY <1>0, <1>5 DEF Waf!OnVerdict, WafAsked
    <2>3. CASE ~ui.mounted
      <3>1. /\ ui' \in WafState /\ ui'.polls = ui.polls /\ ui'.polled = ui.polled
            /\ ui'.snap = ui.snap /\ ui'.asked = ui.asked
            /\ ui'.msg = ui.msg /\ ui'.probe = ui.probe /\ ui'.found = ui.found
        BY <1>0, <2>1, <2>3, Zenon DEF WafState
      <3>2. WafAsked(ui') /\ WafTold(ui')
        BY <1>0, <2>2, <3>1, Zenon DEF WafAsked, WafTold
      <3>3. QED
        BY <1>3, <3>1, <3>2
    <2>4. CASE ui.mounted
      <3>1. PICK m : m = IF f = "none" THEN "no match" ELSE "flagged"
        OBVIOUS
      <3>2. /\ ui' \in WafState /\ ui'.polls = ui.polls /\ ui'.polled = ui.polled
            /\ ui'.snap = ui.snap /\ ui'.asked = ui.asked
            /\ ui'.msg = m /\ ui'.probe = ui.asked /\ ui'.found = f
        BY <1>0, <2>1, <2>4, <3>1, Zenon DEF WafState
      <3>3. WafAsked(ui') /\ WafTold(ui')
        BY <2>2, <3>1, <3>2, Zenon DEF WafAsked, WafTold
      <3>4. QED
        BY <1>3, <3>2, <3>3
    <2>5. QED
      BY <2>3, <2>4
  <1>6. CASE Waf!OnRefused
    <2>1. PICK m \in {"offline", "slow down", "faltered", "core unreachable"} :
            ui' = [ui EXCEPT !.busy = FALSE, !.msg = IF ui.mounted THEN m ELSE @]
      BY <1>6, Zenon DEF Waf!OnRefused
    <2>2. PICK msg : msg = IF ui.mounted THEN m ELSE ui.msg
      OBVIOUS
    <2>3. msg = m \/ msg = ui.msg
      BY <2>2, Zenon
    <2>4. /\ ui' \in WafState /\ ui'.polls = ui.polls /\ ui'.polled = ui.polled
          /\ ui'.snap = ui.snap /\ ui'.asked = ui.asked /\ ~ui'.busy
          /\ ui'.msg = msg /\ ui'.probe = ui.probe /\ ui'.found = ui.found
      BY <1>0, <2>1, <2>2, <2>3, Zenon DEF WafState
    <2>5. WafTold(ui')
      BY <1>0, <2>3, <2>4, Zenon DEF WafTold
    <2>6. WafAsked(ui')
      BY <1>0, <2>4, Zenon DEF WafAsked
    <2>7. QED
      BY <1>3, <2>4, <2>5, <2>6
  <1>7. CASE Waf!Unmount
    <2>1. /\ ui' \in WafState /\ ui'.polls = ui.polls /\ ui'.polled = ui.polled
          /\ ui'.snap = ui.snap /\ ui'.asked = ui.asked /\ ui'.busy = ui.busy
          /\ ui'.msg = ui.msg /\ ui'.probe = ui.probe /\ ui'.found = ui.found
      BY <1>0, <1>7, Zenon DEF Waf!Unmount, WafState
    <2>2. WafAsked(ui') /\ WafTold(ui')
      BY <1>0, <2>1, Zenon DEF WafAsked, WafTold
    <2>3. QED
      BY <1>3, <2>1, <2>2
  <1>8. QED
    BY <1>1, <1>2, <1>4, <1>5, <1>6, <1>7 DEF Waf!Next, Waf!Answered

LEMMA WafShown == WafOk(ui) => Waf!ShownIsCurrent
  BY Zenon DEF WafOk, WafTold, Waf!ShownIsCurrent, Waf!View

------------------------------------------------------------------------------
(* The boards that poll: the pull out is the latest one.                   *)

BoardState(S) == [mounted : BOOLEAN, hidden : BOOLEAN, pull : Int, at : Int, pulled : Int,
                  shown : [1..S -> Int]]

BoardOk(u, S) ==
  /\ u \in BoardState(S)
  /\ u.pull \in {0, u.pulled}
  /\ \A i \in 1..S : u.shown[i] <= u.pulled
  /\ ~u.mounted => u.pull = 0

LEMMA BoardInit ==
  ASSUME NEW S \in Nat, NEW n \in {0, 1},
         ui = [mounted |-> TRUE, hidden |-> FALSE, pull |-> n, at |-> 1, pulled |-> n,
               shown |-> [i \in 1..S |-> 0]]
  PROVE  BoardOk(ui, S)
  <1>1. PICK shown : shown = [i \in 1..S |-> 0]
    OBVIOUS
  <1>2. shown \in [1..S -> Int] /\ n \in Int /\ 1 \in Int /\ \A i \in 1..S : shown[i] <= n
    BY <1>1
  <1>3. /\ ui \in BoardState(S) /\ ui.pull = n /\ ui.pulled = n /\ ui.shown = shown
        /\ ui.mounted
    BY <1>1, <1>2, Zenon DEF BoardState
  <1>4. QED
    BY <1>2, <1>3 DEF BoardOk

BoardMoves(S) ==
  \/ ui.mounted /\ ui' = [ui EXCEPT !.pulled = @ + 1, !.pull = ui.pulled + 1, !.at = 1]
  \/ ui' = [ui EXCEPT !.hidden = ~@]
  \/ /\ ui.pull # 0
     /\ \E ok \in BOOLEAN :
          ui' = [ui EXCEPT !.shown[ui.at] = IF ok THEN ui.pull ELSE @,
                           !.at = @ + 1,
                           !.pull = IF ui.at = S THEN 0 ELSE @]
  \/ ui' = [ui EXCEPT !.mounted = FALSE, !.pull = 0]

LEMMA BoardStep ==
  ASSUME NEW S \in Nat, BoardOk(ui, S), BoardMoves(S)
  PROVE  BoardOk(ui', S) /\ \A i \in 1..S : ui'.shown[i] >= ui.shown[i]
  <1>0. ui \in BoardState(S) /\ ui.pull \in Int /\ ui.pulled \in Int /\ ui.at \in Int
        /\ ui.shown \in [1..S -> Int]
    BY Zenon DEF BoardOk, BoardState
  <1>1. CASE ui.mounted /\ ui' = [ui EXCEPT !.pulled = @ + 1, !.pull = ui.pulled + 1, !.at = 1]
    <2>1. PICK n \in Int : n = ui.pulled + 1
      BY <1>0
    <2>2. /\ ui' \in BoardState(S) /\ ui'.pull = n /\ ui'.pulled = n /\ ui'.shown = ui.shown
          /\ ui'.mounted = ui.mounted
      BY <1>0, <1>1, <2>1, 1 \in Int, Zenon DEF BoardState
    <2>3. QED
      BY <1>0, <1>1, <2>1, <2>2 DEF BoardOk
  <1>2. CASE ui' = [ui EXCEPT !.hidden = ~@]
    <2>1. /\ ui' \in BoardState(S) /\ ui'.pull = ui.pull /\ ui'.pulled = ui.pulled
          /\ ui'.shown = ui.shown /\ ui'.mounted = ui.mounted
      BY <1>0, <1>2, Zenon DEF BoardState
    <2>2. QED
      BY <1>0, <2>1 DEF BoardOk
  <1>3. CASE /\ ui.pull # 0
             /\ \E ok \in BOOLEAN :
                  ui' = [ui EXCEPT !.shown[ui.at] = IF ok THEN ui.pull ELSE @,
                                   !.at = @ + 1,
                                   !.pull = IF ui.at = S THEN 0 ELSE @]
    <2>1. PICK ok \in BOOLEAN :
            ui' = [ui EXCEPT !.shown[ui.at] = IF ok THEN ui.pull ELSE @, !.at = @ + 1,
                             !.pull = IF ui.at = S THEN 0 ELSE @]
      BY <1>3
    <2>2. PICK shown : shown = [ui.shown EXCEPT ![ui.at] = IF ok THEN ui.pull ELSE @]
      OBVIOUS
    <2>3. PICK pull : pull = IF ui.at = S THEN 0 ELSE ui.pull
      OBVIOUS
    <2>4. PICK n \in Int : n = ui.at + 1
      BY <1>0
    <2>5. pull \in {0, ui.pulled} /\ pull \in Int /\ ui.pull = ui.pulled /\ ui.mounted
      BY <1>0, <1>3, <2>3 DEF BoardOk
    <2>6. shown \in [1..S -> Int]
      BY <1>0, <2>2
    <2>7. \A i \in 1..S : shown[i] <= ui.pulled /\ shown[i] >= ui.shown[i]
      BY <1>0, <2>2, <2>5 DEF BoardOk
    <2>8. ui' = [ui EXCEPT !.shown = shown, !.at = n, !.pull = pull]
      BY <1>0, <2>1, <2>2, <2>3, <2>4, Zenon DEF BoardState
    <2>9. /\ ui' \in BoardState(S) /\ ui'.pull = pull /\ ui'.pulled = ui.pulled
          /\ ui'.shown = shown /\ ui'.mounted = ui.mounted
      BY <1>0, <2>4, <2>5, <2>6, <2>8, Zenon DEF BoardState
    <2>10. QED
      BY <2>5, <2>7, <2>9 DEF BoardOk
  <1>4. CASE ui' = [ui EXCEPT !.mounted = FALSE, !.pull = 0]
    <2>1. /\ ui' \in BoardState(S) /\ ui'.pull = 0 /\ ui'.pulled = ui.pulled
          /\ ui'.shown = ui.shown /\ ~ui'.mounted
      BY <1>0, <1>4, 0 \in Int, Zenon DEF BoardState
    <2>2. QED
      BY <1>0, <2>1 DEF BoardOk
  <1>5. QED
    BY <1>1, <1>2, <1>3, <1>4 DEF BoardMoves

LEMMA StatusStep ==
  /\ Status!Init => BoardOk(ui, 1)
  /\ BoardOk(ui, 1) /\ Status!Next => BoardOk(ui', 1) /\ Status!SnapshotsForward
  /\ BoardOk(ui, 1) => Status!LoopsMatch
  <1>1. Len(<<"uptime">>) = 1
    OBVIOUS
  <1>2. Status!Init => BoardOk(ui, 1)
    BY <1>1, BoardInit DEF Status!Init
  <1>3. Status!Next => BoardMoves(1)
    BY <1>1, Zenon DEF Status!Next, Status!Answered, Status!pull, Status!Hide, Status!OnPulled,
              Status!Unmount, BoardMoves
  <1>4. QED
    BY <1>1, <1>2, <1>3, BoardStep DEF Status!SnapshotsForward, Status!LoopsMatch, BoardOk

LEMMA DeepStep ==
  /\ Deep!Init => BoardOk(ui, 2)
  /\ BoardOk(ui, 2) /\ Deep!Next => BoardOk(ui', 2) /\ Deep!SnapshotsForward
  /\ BoardOk(ui, 2) => Deep!LoopsMatch
  <1>1. Len(<<"deep", "volume">>) = 2
    OBVIOUS
  <1>2. Deep!Init => BoardOk(ui, 2)
    BY <1>1, BoardInit DEF Deep!Init
  <1>3. Deep!Next => BoardMoves(2)
    BY <1>1, Zenon DEF Deep!Next, Deep!Answered, Deep!pull, Deep!Hide, Deep!OnPulled,
              Deep!Unmount, BoardMoves
  <1>4. QED
    BY <1>1, <1>2, <1>3, BoardStep DEF Deep!SnapshotsForward, Deep!LoopsMatch, BoardOk

------------------------------------------------------------------------------
(* The live half of the dashboard.                                         *)

DashState ==
  [mounted : BOOLEAN, es : {"CONNECTING", "OPEN", "null"}, timers : Int, hadError : BOOLEAN,
   backoff : Int, status : {"", "severed", "restored"}, frame : Int, sent : Int,
   hidden : BOOLEAN, pull : Int, awaits : {"headers", "body"}, pulled : Int, topo : Int,
   topoFailed : BOOLEAN, failed : BOOLEAN]

\* One stream or one reopen timer, until the unmount.
DashLinks(u) ==
  /\ u.mounted /\ u.es # "null" => u.timers = 0
  /\ u.mounted /\ u.es = "null" => u.timers = 1
  /\ ~u.mounted => u.timers = 0 /\ u.es = "null" /\ u.pull = 0
\* What is shown is not ahead of what was sent, and the pull out is the latest.
DashReads(u) == u.frame <= u.sent /\ u.topo <= u.pulled /\ u.pull \in {0, u.pulled}
\* A stream that was severed knows so until it is restored.
DashSaid(u) ==
  /\ u.status = "severed" => u.hadError /\ u.es # "OPEN"
  /\ u.topoFailed => u.failed
DashOk(u) == u \in DashState /\ DashLinks(u) /\ DashReads(u) /\ DashSaid(u)

LEMMA DashInit == Dash!Init => DashOk(ui)
  <1> SUFFICES ASSUME Dash!Init PROVE DashOk(ui)
    OBVIOUS
  <1>1. 0 \in Int /\ 1 \in Int /\ 3 \in Int
    OBVIOUS
  <1>2. /\ ui \in DashState /\ ui.mounted /\ ui.es = "CONNECTING" /\ ui.timers = 0
        /\ ui.frame = 0 /\ ui.sent = 0 /\ ui.topo = 0 /\ ui.pulled = 1 /\ ui.pull = 1
        /\ ~ui.topoFailed
    BY <1>1, Zenon DEF Dash!Init, DashState
  <1>3. ui.status # "severed"
    BY Zenon DEF Dash!Init
  <1>4. DashLinks(ui) /\ DashReads(ui) /\ DashSaid(ui)
    BY <1>2, <1>3 DEF DashLinks, DashReads, DashSaid
  <1>5. QED
    BY <1>2, <1>4, Zenon DEF DashOk

\* A frame or an open link.
LEMMA DashRestored ==
  ASSUME NEW u \in DashState, DashSaid(u) \/ u.hadError, u.topoFailed => u.failed
  PROVE  LET v == Dash!restored(u)
         IN /\ v \in DashState /\ v.status # "severed" /\ DashSaid(v)
            /\ v.mounted = u.mounted /\ v.es = u.es /\ v.timers = u.timers
            /\ v.frame = u.frame /\ v.sent = u.sent /\ v.pull = u.pull
            /\ v.pulled = u.pulled /\ v.topo = u.topo
  <1>1. PICK status : status = IF u.hadError THEN "restored" ELSE u.status
    OBVIOUS
  <1>2. status \in {"", "severed", "restored"}
    BY <1>1, Zenon DEF DashState
  <1>3. status # "severed"
    <2>1. CASE u.hadError
      BY <1>1, <2>1
    <2>2. CASE ~u.hadError
      BY <1>1, <2>2 DEF DashSaid
    <2>3. QED
      BY <2>1, <2>2
  <1>4. PICK v : v = [u EXCEPT !.backoff = 3, !.hadError = FALSE, !.status = status]
    OBVIOUS
  <1>5. v = Dash!restored(u)
    BY <1>1, <1>4, Zenon DEF Dash!restored
  <1>6. /\ v \in DashState /\ v.status = status
        /\ v.mounted = u.mounted /\ v.es = u.es /\ v.timers = u.timers
        /\ v.frame = u.frame /\ v.sent = u.sent /\ v.pull = u.pull
        /\ v.pulled = u.pulled /\ v.topo = u.topo /\ v.topoFailed = u.topoFailed
        /\ v.failed = u.failed
    BY <1>2, <1>4, Three, Zenon DEF DashState
  <1>7. DashSaid(v)
    BY <1>3, <1>6, Zenon DEF DashSaid
  <1>8. QED
    BY <1>3, <1>5, <1>6, <1>7

LEMMA DashPulled ==
  ASSUME NEW u, DashOk(u), u.mounted
  PROVE  LET v == Dash!pullTopology(u)
         IN DashOk(v) /\ v.frame = u.frame /\ v.topo = u.topo
  <1>1. PICK n \in Int : n = u.pulled + 1
    <2>1. u.pulled \in Int
      BY Zenon DEF DashOk, DashState
    <2>2. QED
      BY <2>1
  <1>2. PICK tf, f : tf = (u.topoFailed \/ u.pull # 0) /\ f = (u.failed \/ u.pull # 0)
    OBVIOUS
  <1>3. tf \in BOOLEAN /\ f \in BOOLEAN
    BY <1>2
  <1>4. PICK v : v = [u EXCEPT !.topoFailed = tf, !.failed = f, !.pulled = n, !.pull = n,
                               !.awaits = "headers"]
    OBVIOUS
  <1>5. v = Dash!pullTopology(u)
    BY <1>1, <1>2, <1>4, Zenon DEF Dash!pullTopology
  <1>6. /\ v \in DashState /\ v.topoFailed = tf /\ v.failed = f /\ v.pulled = n /\ v.pull = n
        /\ v.mounted = u.mounted /\ v.es = u.es /\ v.timers = u.timers /\ v.frame = u.frame
        /\ v.sent = u.sent /\ v.topo = u.topo /\ v.status = u.status /\ v.hadError = u.hadError
    BY <1>1, <1>3, <1>4, Zenon DEF DashOk, DashState
  <1>7. DashLinks(v)
    BY <1>6, Zenon DEF DashOk, DashLinks
  <1>8. DashReads(v)
    <2>1. u.topo \in Int /\ u.pulled \in Int /\ u.frame <= u.sent /\ u.topo <= u.pulled
      BY Zenon DEF DashOk, DashReads, DashState
    <2>2. QED
      BY <1>1, <1>6, <2>1 DEF DashReads
  <1>9. DashSaid(v)
    BY <1>2, <1>6 DEF DashOk, DashSaid
  <1>10. QED
    BY <1>5, <1>6, <1>7, <1>8, <1>9 DEF DashOk

LEMMA DashStep == DashOk(ui) /\ Dash!Next => DashOk(ui') /\ Dash!SnapshotsForward
  <1> SUFFICES ASSUME DashOk(ui), Dash!Next
               PROVE  DashOk(ui') /\ ui'.frame >= ui.frame /\ ui'.topo >= ui.topo
    BY DEF Dash!SnapshotsForward
  <1>0. /\ ui \in DashState /\ DashLinks(ui) /\ DashReads(ui) /\ DashSaid(ui)
        /\ ui.frame \in Int /\ ui.sent \in Int /\ ui.topo \in Int /\ ui.pulled \in Int
        /\ ui.timers \in Int /\ ui.backoff \in Int /\ ui.pull \in Int
    BY Zenon DEF DashOk, DashState
  <1>1. ASSUME ui' \in DashState, DashLinks(ui'), DashSaid(ui'), ui'.frame = ui.frame,
               ui'.sent = ui.sent, ui'.topo = ui.topo, ui'.pulled = ui.pulled,
               ui'.pull \in {0, ui.pull}
        PROVE  DashOk(ui') /\ ui'.frame >= ui.frame /\ ui'.topo >= ui.topo
    <2>1. DashReads(ui') /\ ui'.frame >= ui.frame /\ ui'.topo >= ui.topo
      BY <1>0, <1>1 DEF DashReads
    <2>2. QED
      BY <1>1, <2>1, Zenon DEF DashOk
  <1>2. CASE Dash!openStream
    <2>1. PICK n \in Int : n = ui.timers - 1
      BY <1>0
    <2>2. ui' = [ui EXCEPT !.timers = n, !.es = "CONNECTING"] /\ ui.timers > 0
      BY <1>2, <2>1, Zenon DEF Dash!openStream
    <2>3. /\ ui' \in DashState /\ ui'.timers = n /\ ui'.es = "CONNECTING"
          /\ ui'.mounted = ui.mounted /\ ui'.pull = ui.pull /\ ui'.frame = ui.frame
          /\ ui'.sent = ui.sent /\ ui'.topo = ui.topo /\ ui'.pulled = ui.pulled
          /\ ui'.status = ui.status /\ ui'.hadError = ui.hadError
          /\ ui'.topoFailed = ui.topoFailed /\ ui'.failed = ui.failed
      BY <1>0, <2>1, <2>2, Zenon DEF DashState
    <2>4. DashLinks(ui') /\ DashSaid(ui')
      BY <1>0, <2>1, <2>2, <2>3 DEF DashLinks, DashSaid
    <2>5. QED
      BY <1>1, <2>3, <2>4
  <1>3. CASE Dash!OnOpen
    <2>1. PICK u : u = [ui EXCEPT !.es = "OPEN"]
      OBVIOUS
    <2>2. /\ u \in DashState /\ u.es = "OPEN" /\ u.mounted = ui.mounted
          /\ u.timers = ui.timers /\ u.pull = ui.pull /\ u.frame = ui.frame
          /\ u.sent = ui.sent /\ u.topo = ui.topo /\ u.pulled = ui.pulled
          /\ u.status = ui.status /\ u.hadError = ui.hadError
          /\ u.topoFailed = ui.topoFailed /\ u.failed = ui.failed
      BY <1>0, <2>1, Zenon DEF DashState
    <2>3. ui' = Dash!restored(u) /\ ui.es = "CONNECTING"
      BY <1>3, <2>1, Zenon DEF Dash!OnOpen
    <2>4. (u.topoFailed => u.failed) /\ (DashSaid(u) \/ u.hadError)
      BY <1>0, <2>2 DEF DashSaid
    <2>5. /\ ui' \in DashState /\ DashSaid(ui')
          /\ ui'.mounted = u.mounted /\ ui'.es = u.es /\ ui'.timers = u.timers
          /\ ui'.frame = u.frame /\ ui'.sent = u.sent /\ ui'.pull = u.pull
          /\ ui'.pulled = u.pulled /\ ui'.topo = u.topo
      BY <2>2, <2>3, <2>4, DashRestored
    <2>6. DashLinks(ui')
      BY <1>0, <2>2, <2>3, <2>5 DEF DashLinks
    <2>7. QED
      BY <1>1, <2>2, <2>5, <2>6
  <1>4. CASE Dash!OnMetrics
    <2>1. PICK n \in Int : n = ui.sent + 1
      BY <1>0
    <2>2. PICK w : w = [ui EXCEPT !.sent = n]
      OBVIOUS
    <2>3. /\ w \in DashState /\ w.sent = n /\ w.mounted = ui.mounted /\ w.es = ui.es
          /\ w.timers = ui.timers /\ w.pull = ui.pull /\ w.frame = ui.frame
          /\ w.topo = ui.topo /\ w.pulled = ui.pulled
          /\ w.status = ui.status /\ w.hadError = ui.hadError
          /\ w.topoFailed = ui.topoFailed /\ w.failed = ui.failed
      BY <1>0, <2>1, <2>2, Zenon DEF DashState
    <2>4. CASE ui' = w
      <3>1. DashReads(ui') /\ ui'.frame >= ui.frame /\ ui'.topo >= ui.topo
        BY <1>0, <2>1, <2>3, <2>4 DEF DashReads
      <3>2. DashLinks(ui') /\ DashSaid(ui')
        BY <1>0, <2>3, <2>4, Zenon DEF DashLinks, DashSaid
      <3>3. QED
        BY <2>3, <2>4, <3>1, <3>2, Zenon DEF DashOk
    <2>5. CASE ui' = Dash!restored([w EXCEPT !.frame = w.sent])
      <3>1. PICK u : u = [w EXCEPT !.frame = n]
        OBVIOUS
      <3>2. /\ u \in DashState /\ u.frame = n /\ u.sent = n /\ u.es = ui.es
            /\ u.mounted = ui.mounted /\ u.timers = ui.timers /\ u.pull = ui.pull
            /\ u.topo = ui.topo /\ u.pulled = ui.pulled
            /\ u.status = ui.status /\ u.hadError = ui.hadError
            /\ u.topoFailed = ui.topoFailed /\ u.failed = ui.failed
        BY <2>1, <2>3, <3>1, Zenon DEF DashState
      <3>3. ui' = Dash!restored(u)
        BY <2>3, <2>5, <3>1, Zenon
      <3>4. DashSaid(u) /\ (u.topoFailed => u.failed)
        BY <1>0, <3>2, Zenon DEF DashSaid
      <3>5. /\ ui' \in DashState /\ DashSaid(ui')
            /\ ui'.mounted = u.mounted /\ ui'.es = u.es /\ ui'.timers = u.timers
            /\ ui'.frame = u.frame /\ ui'.sent = u.sent /\ ui'.pull = u.pull
            /\ ui'.pulled = u.pulled /\ ui'.topo = u.topo
        BY <3>2, <3>3, <3>4, DashRestored
      <3>6. DashReads(ui') /\ ui'.frame >= ui.frame /\ ui'.topo >= ui.topo
        BY <1>0, <2>1, <3>2, <3>5 DEF DashReads
      <3>7. DashLinks(ui')
        BY <1>0, <3>2, <3>5, Zenon DEF DashLinks
      <3>8. QED
        BY <3>5, <3>6, <3>7, Zenon DEF DashOk
    <2>6. QED
      BY <1>4, <2>1, <2>2, <2>4, <2>5, Zenon DEF Dash!OnMetrics
  <1>5. CASE Dash!OnError
    <2>1. PICK w : w = [ui EXCEPT !.hadError = TRUE, !.status = "severed"]
      OBVIOUS
    <2>2. /\ w \in DashState /\ w.mounted = ui.mounted /\ w.es = ui.es
          /\ w.timers = ui.timers /\ w.pull = ui.pull /\ w.frame = ui.frame
          /\ w.sent = ui.sent /\ w.topo = ui.topo /\ w.pulled = ui.pulled
          /\ w.status = "severed" /\ w.hadError /\ w.backoff = ui.backoff
          /\ w.topoFailed = ui.topoFailed /\ w.failed = ui.failed
      BY <1>0, <2>1, Zenon DEF DashState
    <2>3. /\ ui.es # "null"
          /\ \/ ui' = [w EXCEPT !.es = "CONNECTING"]
             \/ ui' = [w EXCEPT !.es = "null", !.timers = @ + 1,
                                !.backoff = IF 2 * @ < 30 THEN 2 * @ ELSE 30]
      BY <1>5, <2>1, Zenon DEF Dash!OnError
    <2>4. CASE ui' = [w EXCEPT !.es = "CONNECTING"]
      <3>1. /\ ui' \in DashState /\ ui'.mounted = ui.mounted /\ ui'.es = "CONNECTING"
            /\ ui'.timers = ui.timers /\ ui'.pull = ui.pull /\ ui'.frame = ui.frame
            /\ ui'.sent = ui.sent /\ ui'.topo = ui.topo /\ ui'.pulled = ui.pulled
            /\ ui'.status = "severed" /\ ui'.hadError
            /\ ui'.topoFailed = ui.topoFailed /\ ui'.failed = ui.failed
        BY <2>2, <2>4, Zenon DEF DashState
      <3>2. DashLinks(ui') /\ DashSaid(ui')
        BY <1>0, <2>3, <3>1 DEF DashLinks, DashSaid
      <3>3. QED
        BY <1>1, <3>1, <3>2
    <2>5. CASE ui' = [w EXCEPT !.es = "null", !.timers = @ + 1,
                               !.backoff = IF 2 * @ < 30 THEN 2 * @ ELSE 30]
      <3>1. PICK n \in Int, b \in Int : /\ n = ui.timers + 1
                                       /\ b = IF 2 * ui.backoff < 30 THEN 2 * ui.backoff ELSE 30
        <4>1. /\ ui.timers + 1 \in Int
              /\ (IF 2 * ui.backoff < 30 THEN 2 * ui.backoff ELSE 30) \in Int
          BY <1>0
        <4>2. QED
          BY <4>1, Zenon
      <3>2. ui' = [w EXCEPT !.es = "null", !.timers = n, !.backoff = b]
        BY <2>2, <2>5, <3>1, Zenon
      <3>3. /\ ui' \in DashState /\ ui'.mounted = ui.mounted /\ ui'.es = "null"
            /\ ui'.timers = n /\ ui'.pull = ui.pull /\ ui'.frame = ui.frame
            /\ ui'.sent = ui.sent /\ ui'.topo = ui.topo /\ ui'.pulled = ui.pulled
            /\ ui'.status = "severed" /\ ui'.hadError
            /\ ui'.topoFailed = ui.topoFailed /\ ui'.failed = ui.failed
        BY <2>2, <3>1, <3>2, Zenon DEF DashState
      <3>4. DashLinks(ui') /\ DashSaid(ui')
        BY <1>0, <2>3, <3>1, <3>3 DEF DashLinks, DashSaid
      <3>5. QED
        BY <1>1, <3>3, <3>4
    <2>6. QED
      BY <2>3, <2>4, <2>5
  <1>6. CASE Dash!Interval
    <2>1. DashOk(ui') /\ ui'.frame = ui.frame /\ ui'.topo = ui.topo
      BY <1>6, DashPulled DEF Dash!Interval
    <2>2. QED
      BY <1>0, <2>1
  <1>7. CASE Dash!OnVisible
    <2>1. PICK w : w = [ui EXCEPT !.hidden = ~@]
      OBVIOUS
    <2>2. /\ w \in DashState /\ w.mounted = ui.mounted /\ w.es = ui.es
          /\ w.timers = ui.timers /\ w.pull = ui.pull /\ w.frame = ui.frame
          /\ w.sent = ui.sent /\ w.topo = ui.topo /\ w.pulled = ui.pulled
          /\ w.status = ui.status /\ w.hadError = ui.hadError
          /\ w.topoFailed = ui.topoFailed /\ w.failed = ui.failed
      BY <1>0, <2>1, Zenon DEF DashState
    <2>3. DashOk(w)
      BY <1>0, <2>2, Zenon DEF DashOk, DashLinks, DashReads, DashSaid
    <2>4. ui.mounted /\ (ui' = w \/ ui' = Dash!pullTopology(w))
      BY <1>7, <2>1, Zenon DEF Dash!OnVisible
    <2>5. DashOk(ui') /\ ui'.frame = ui.frame /\ ui'.topo = ui.topo
      BY <2>2, <2>3, <2>4, DashPulled
    <2>6. QED
      BY <1>0, <2>5
  <1>8. CASE Dash!OnHeaders
    <2>1. /\ ui' \in DashState /\ ui'.mounted = ui.mounted /\ ui'.es = ui.es
          /\ ui'.timers = ui.timers /\ ui'.pull = ui.pull /\ ui'.frame = ui.frame
          /\ ui'.sent = ui.sent /\ ui'.topo = ui.topo /\ ui'.pulled = ui.pulled
          /\ ui'.status = ui.status /\ ui'.hadError = ui.hadError
          /\ ~ui'.topoFailed /\ ui'.failed = ui.failed
      BY <1>0, <1>8, Zenon DEF Dash!OnHeaders, DashState
    <2>2. DashLinks(ui') /\ DashSaid(ui')
      BY <1>0, <2>1, Zenon DEF DashLinks, DashSaid
    <2>3. QED
      BY <1>1, <2>1, <2>2
  <1>9. CASE Dash!OnTopology
    <2>1. ui' = [ui EXCEPT !.topo = ui.pull, !.pull = 0] /\ ui.pull # 0
      BY <1>9 DEF Dash!OnTopology
    <2>2. /\ ui' \in DashState /\ ui'.mounted = ui.mounted /\ ui'.es = ui.es
          /\ ui'.timers = ui.timers /\ ui'.pull = 0 /\ ui'.frame = ui.frame
          /\ ui'.sent = ui.sent /\ ui'.topo = ui.pull /\ ui'.pulled = ui.pulled
          /\ ui'.status = ui.status /\ ui'.hadError = ui.hadError
          /\ ui'.topoFailed = ui.topoFailed /\ ui'.failed = ui.failed
      BY <1>0, <2>1, Zero, Zenon DEF DashState
    <2>3. DashLinks(ui') /\ DashSaid(ui')
      BY <1>0, <2>2, Zenon DEF DashLinks, DashSaid
    <2>4. DashReads(ui') /\ ui'.frame >= ui.frame /\ ui'.topo >= ui.topo
      BY <1>0, <2>1, <2>2 DEF DashReads
    <2>5. QED
      BY <2>2, <2>3, <2>4, Zenon DEF DashOk
  <1>10. CASE Dash!OnPullFailed
    <2>1. /\ ui' \in DashState /\ ui'.mounted = ui.mounted /\ ui'.es = ui.es
          /\ ui'.timers = ui.timers /\ ui'.pull = 0 /\ ui'.frame = ui.frame
          /\ ui'.sent = ui.sent /\ ui'.topo = ui.topo /\ ui'.pulled = ui.pulled
          /\ ui'.status = ui.status /\ ui'.hadError = ui.hadError /\ ui'.failed
      BY <1>0, <1>10, Zero, Zenon DEF Dash!OnPullFailed, DashState
    <2>2. DashLinks(ui') /\ DashSaid(ui')
      BY <1>0, <2>1, Zenon DEF DashLinks, DashSaid
    <2>3. QED
      BY <1>1, <2>1, <2>2
  <1>11. CASE Dash!Unmount
    <2>1. /\ ui' \in DashState /\ ~ui'.mounted /\ ui'.es = "null"
          /\ ui'.timers = 0 /\ ui'.pull = 0 /\ ui'.frame = ui.frame
          /\ ui'.sent = ui.sent /\ ui'.topo = ui.topo /\ ui'.pulled = ui.pulled
          /\ ui'.status = ui.status /\ ui'.hadError = ui.hadError
          /\ ui'.topoFailed = ui.topoFailed /\ ui'.failed = ui.failed
      BY <1>0, <1>11, Zero, Zenon DEF Dash!Unmount, DashState
    <2>2. DashLinks(ui')
      BY <2>1, Zenon DEF DashLinks
    <2>3. DashSaid(ui')
      BY <1>0, <2>1 DEF DashSaid
    <2>4. QED
      BY <1>1, <2>1, <2>2, <2>3
  <1>12. QED
    BY <1>2, <1>3, <1>4, <1>5, <1>6, <1>7, <1>8, <1>9, <1>10, <1>11
       DEF Dash!Next, Dash!Answered

LEMMA DashShown == DashOk(ui) => Dash!LoopsMatch /\ Dash!ShownIsCurrent
  <1> SUFFICES ASSUME DashOk(ui) PROVE Dash!LoopsMatch /\ Dash!ShownIsCurrent
    OBVIOUS
  <1>1. ui.timers \in Int /\ DashLinks(ui) /\ DashSaid(ui)
    BY Zenon DEF DashOk, DashState
  <1>2. Dash!LoopsMatch
    BY <1>1 DEF DashLinks, Dash!LoopsMatch
  <1>3. Dash!ShownIsCurrent
    BY <1>1 DEF DashSaid, Dash!ShownIsCurrent, Dash!View
  <1>4. QED
    BY <1>2, <1>3

------------------------------------------------------------------------------
(* The polls of the dashboard, and the trace.                              *)

Kinds == {"history", "logs"}
Pull == [what : {"history", "logs", "trace"}, n : Int]
PollsState ==
  [mounted : BOOLEAN, hidden : BOOLEAN, out : SUBSET Pull, acs : SUBSET Pull,
   pulled : [Kinds -> Int], shown : [Kinds -> Int], trace : BOOLEAN, traceFailed : BOOLEAN,
   overlapped : BOOLEAN]

\* Without an overlap the pull out is the latest of its kind.
PollsReads(u) ==
  /\ \A k \in Kinds : u.shown[k] <= u.pulled[k]
  /\ \A r \in u.out : r.what \in Kinds =>
       /\ r.n <= u.pulled[r.what]
       /\ ~u.overlapped => r.n = u.pulled[r.what]
\* There is one trace fetch, and it is out or answered.
PollsTrace(u) ==
  /\ \A r \in u.out : r.what = "trace" => r.n = 1
  /\ u.mounted => ((\E r \in u.out : r.what = "trace") <=> ~u.trace /\ ~u.traceFailed)
PollsOk(u) ==
  /\ u \in PollsState /\ PollsReads(u) /\ PollsTrace(u)
  /\ u.acs = u.out /\ (~u.mounted => u.out = {})

LEMMA PollsInit == Polls!Init => PollsOk(ui)
  <1> SUFFICES ASSUME Polls!Init PROVE PollsOk(ui)
    OBVIOUS
  <1>1. PICK first, ones, none :
          /\ first = {[what |-> w, n |-> 1] : w \in {"history", "logs"} \cup {"trace"}}
          /\ ones = [k \in Kinds |-> 1] /\ none = [k \in Kinds |-> 0]
    OBVIOUS
  <1>2. ui = [mounted |-> TRUE, hidden |-> FALSE, out |-> first, acs |-> first,
              pulled |-> ones, shown |-> none,
              trace |-> FALSE, traceFailed |-> FALSE, overlapped |-> FALSE]
    BY <1>1, Zenon DEF Polls!Init, Polls!Polled, Kinds
  <1>3. first \in SUBSET Pull /\ ones \in [Kinds -> Int] /\ none \in [Kinds -> Int]
    <2>1. first \in SUBSET Pull
      <3>1. SUFFICES ASSUME NEW w \in {"history", "logs"} \cup {"trace"}
                     PROVE  [what |-> w, n |-> 1] \in Pull
        BY <1>1
      <3>2. w \in {"history", "logs", "trace"} /\ 1 \in Int
        OBVIOUS
      <3>3. QED
        BY <3>2, Zenon DEF Pull
    <2>2. QED
      BY <1>1, <2>1
  <1>4. /\ ui \in PollsState /\ ui.out = first /\ ui.acs = first /\ ui.pulled = ones
        /\ ui.shown = none /\ ui.mounted /\ ~ui.trace /\ ~ui.traceFailed
    BY <1>2, <1>3, Zenon DEF PollsState
  <1>5. \A r \in first : r.n = 1
    BY <1>1
  <1>6. \E r \in first : r.what = "trace"
    <2>1. [what |-> "trace", n |-> 1] \in first
      BY <1>1
    <2>2. QED
      BY <2>1
  <1>7. PollsReads(ui)
    BY <1>1, <1>4, <1>5 DEF PollsReads
  <1>8. PollsTrace(ui)
    BY <1>4, <1>5, <1>6 DEF PollsTrace
  <1>9. QED
    BY <1>4, <1>7, <1>8 DEF PollsOk

LEMMA PollsStep == PollsOk(ui) /\ Polls!Next => PollsOk(ui') /\ Polls!SnapshotsForward
  <1> SUFFICES ASSUME PollsOk(ui), Polls!Next PROVE PollsOk(ui') /\ Polls!SnapshotsForward
    OBVIOUS
  <1>0. /\ ui \in PollsState /\ PollsReads(ui) /\ PollsTrace(ui) /\ ui.acs = ui.out
        /\ ~ui.mounted => ui.out = {}
        /\ ui.out \in SUBSET Pull /\ ui.pulled \in [Kinds -> Int]
        /\ ui.shown \in [Kinds -> Int] /\ ui.overlapped \in BOOLEAN
    BY Zenon DEF PollsOk, PollsState
  <1>1. CASE Polls!pull
    <2>1. PICK k \in Kinds :
            /\ ui.mounted
            /\ LET u == [ui EXCEPT !.pulled[k] = @ + 1,
                                   !.overlapped = @ \/ \E r \in ui.out : r.what = k]
               IN ui' = Polls!Sent(u, [what |-> k, n |-> u.pulled[k]])
      BY <1>1, Zenon DEF Polls!pull, Polls!Polled, Kinds
    <2>2. PICK pulled : pulled = [ui.pulled EXCEPT ![k] = @ + 1]
      OBVIOUS
    <2>3. PICK over : over = (ui.overlapped \/ \E r \in ui.out : r.what = k)
      OBVIOUS
    <2>4. /\ pulled \in [Kinds -> Int] /\ over \in BOOLEAN /\ pulled[k] = ui.pulled[k] + 1
          /\ \A j \in Kinds : j # k => pulled[j] = ui.pulled[j]
          /\ ui.pulled[k] \in Int
      BY <1>0, <2>2, <2>3
    <2>5. PICK u : u = [ui EXCEPT !.pulled = pulled, !.overlapped = over]
      OBVIOUS
    <2>6. PICK r : r = [what |-> k, n |-> pulled[k]]
      OBVIOUS
    <2>7. /\ u \in PollsState /\ u.pulled = pulled /\ u.overlapped = over
          /\ u.out = ui.out /\ u.acs = ui.out /\ u.shown = ui.shown /\ u.mounted = ui.mounted
          /\ u.trace = ui.trace /\ u.traceFailed = ui.traceFailed
      BY <1>0, <2>4, <2>5, Zenon DEF PollsState
    <2>8. ui' = Polls!Sent(u, r)
      <3>1. u = [ui EXCEPT !.pulled[k] = @ + 1,
                           !.overlapped = @ \/ \E q \in ui.out : q.what = k]
        BY <2>2, <2>3, <2>5, Zenon
      <3>2. QED
        BY <2>1, <2>6, <2>7, <3>1, Zenon
    <2>9. PICK out : out = ui.out \cup {r}
      OBVIOUS
    <2>10. r \in Pull /\ r.what = k /\ r.n = pulled[k] /\ out \in SUBSET Pull
      <3>1. k \in {"history", "logs", "trace"} /\ pulled[k] \in Int
        BY <2>4 DEF Kinds
      <3>2. r \in Pull /\ r.what = k /\ r.n = pulled[k]
        BY <2>6, <3>1, Zenon DEF Pull
      <3>3. QED
        BY <1>0, <2>9, <3>2
    <2>11. ui' = [u EXCEPT !.out = out, !.acs = out]
      BY <2>7, <2>8, <2>9, Zenon DEF Polls!Sent
    <2>12. /\ ui' \in PollsState /\ ui'.pulled = pulled /\ ui'.overlapped = over
           /\ ui'.out = out /\ ui'.acs = out /\ ui'.shown = ui.shown
           /\ ui'.mounted = ui.mounted /\ ui'.trace = ui.trace
           /\ ui'.traceFailed = ui.traceFailed
      BY <2>7, <2>10, <2>11, Zenon DEF PollsState
    <2>13. PollsReads(ui')
      <3>1. \A j \in Kinds : ui'.shown[j] <= ui'.pulled[j]
        BY <1>0, <2>4, <2>12 DEF PollsReads
      <3>2. ASSUME NEW q \in ui'.out, q.what \in Kinds
            PROVE  /\ q.n <= ui'.pulled[q.what]
                   /\ ~ui'.overlapped => q.n = ui'.pulled[q.what]
        <4>1. CASE q = r
          BY <2>4, <2>10, <2>12, <4>1
        <4>2. CASE q \in ui.out
          <5>1. q.n \in Int /\ ui.pulled[q.what] \in Int
            BY <1>0, <3>2, <4>2, Zenon DEF Pull
          <5>2. /\ q.n <= ui.pulled[q.what]
                /\ ~ui.overlapped => q.n = ui.pulled[q.what]
            BY <1>0, <3>2, <4>2 DEF PollsReads
          <5>3. q.what = k => over
            BY <2>3, <4>2
          <5>4. CASE q.what = k
            <6>1. pulled[q.what] = ui.pulled[q.what] + 1 /\ over
              BY <2>4, <5>3, <5>4
            <6>2. q.n <= pulled[q.what]
              BY <5>1, <5>2, <6>1
            <6>3. QED
              BY <2>12, <6>1, <6>2
          <5>5. CASE q.what # k
            <6>1. pulled[q.what] = ui.pulled[q.what]
              BY <2>4, <3>2, <5>5
            <6>2. ui.overlapped => over
              BY <2>3
            <6>3. QED
              BY <2>12, <5>2, <6>1, <6>2
          <5>6. QED
            BY <5>4, <5>5
        <4>3. QED
          BY <2>9, <2>12, <4>1, <4>2
      <3>3. QED
        BY <3>1, <3>2, Zenon DEF PollsReads
    <2>14. PollsTrace(ui')
      <3>1. k # "trace"
        BY DEF Kinds
      <3>2. QED
        BY <1>0, <2>9, <2>10, <2>12, <3>1 DEF PollsTrace
    <2>15. Polls!SnapshotsForward
      BY <1>0, <2>12 DEF Polls!SnapshotsForward, Polls!Polled, Kinds
    <2>16. QED
      BY <2>1, <2>12, <2>13, <2>14, <2>15 DEF PollsOk
  <1>2. CASE Polls!Hide
    <2>1. /\ ui' \in PollsState /\ ui'.pulled = ui.pulled /\ ui'.overlapped = ui.overlapped
          /\ ui'.out = ui.out /\ ui'.acs = ui.acs /\ ui'.shown = ui.shown
          /\ ui'.mounted = ui.mounted /\ ui'.trace = ui.trace
          /\ ui'.traceFailed = ui.traceFailed
      BY <1>0, <1>2, Zenon DEF Polls!Hide, PollsState
    <2>2. PollsReads(ui') /\ PollsTrace(ui')
      BY <1>0, <2>1, Zenon DEF PollsReads, PollsTrace
    <2>3. Polls!SnapshotsForward
      BY <1>0, <2>1 DEF Polls!SnapshotsForward, Polls!Polled, Kinds
    <2>4. QED
      BY <1>0, <2>1, <2>2, <2>3 DEF PollsOk
  \* The pull that is answered leaves, with its controller.
  <1>3. ASSUME NEW r \in ui.out, NEW u, u \in PollsState, u.out = ui.out, u.acs = ui.out,
               ui' = Polls!Done(u, r)
        PROVE  /\ ui' \in PollsState /\ ui'.out = ui.out \ {r} /\ ui'.acs = ui.out \ {r}
               /\ ui'.pulled = u.pulled /\ ui'.overlapped = u.overlapped
               /\ ui'.shown = u.shown /\ ui'.mounted = u.mounted /\ ui'.trace = u.trace
               /\ ui'.traceFailed = u.traceFailed
    <2>1. PICK out : out = ui.out \ {r}
      OBVIOUS
    <2>2. out \in SUBSET Pull
      BY <1>0, <2>1
    <2>3. ui' = [u EXCEPT !.out = out, !.acs = out]
      BY <1>3, <2>1, Zenon DEF Polls!Done
    <2>4. QED
      BY <1>3, <2>1, <2>2, <2>3, Zenon DEF PollsState
  <1>4. CASE Polls!OnPulled
    <2>1. PICK r \in ui.out, ok \in BOOLEAN :
            /\ r.what # "trace"
            /\ ui' = Polls!Done(IF ok THEN [ui EXCEPT !.shown[r.what] = r.n] ELSE ui, r)
      BY <1>4, Zenon DEF Polls!OnPulled
    <2>2. r.what \in Kinds /\ r.n \in Int
      <3>1. r.what \in {"history", "logs", "trace"} /\ r.n \in Int
        BY <1>0, Zenon DEF Pull
      <3>2. QED
        BY <2>1, <3>1 DEF Kinds
    <2>3. PICK shown : shown = IF ok THEN [ui.shown EXCEPT ![r.what] = r.n] ELSE ui.shown
      OBVIOUS
    <2>4. PICK u : u = IF ok THEN [ui EXCEPT !.shown[r.what] = r.n] ELSE ui
      OBVIOUS
    <2>5. shown \in [Kinds -> Int]
      BY <1>0, <2>2, <2>3
    <2>6. u = [ui EXCEPT !.shown = shown]
      <3>1. CASE ok
        BY <2>3, <2>4, <3>1, Zenon
      <3>2. CASE ~ok
        BY <1>0, <2>3, <2>4, <3>2, Zenon DEF PollsState
      <3>3. QED
        BY <3>1, <3>2
    <2>7. /\ u \in PollsState /\ u.out = ui.out /\ u.acs = ui.out /\ u.shown = shown
          /\ u.pulled = ui.pulled /\ u.overlapped = ui.overlapped /\ u.mounted = ui.mounted
          /\ u.trace = ui.trace /\ u.traceFailed = ui.traceFailed
      BY <1>0, <2>5, <2>6, Zenon DEF PollsState
    <2>8. /\ ui' \in PollsState /\ ui'.out = ui.out \ {r} /\ ui'.acs = ui.out \ {r}
          /\ ui'.pulled = ui.pulled /\ ui'.overlapped = ui.overlapped
          /\ ui'.shown = shown /\ ui'.mounted = ui.mounted /\ ui'.trace = ui.trace
          /\ ui'.traceFailed = ui.traceFailed
      <3>1. ui' = Polls!Done(u, r)
        BY <2>1, <2>4, Zenon
      <3>2. QED
        BY <1>3, <2>7, <3>1
    <2>9. /\ r.n <= ui.pulled[r.what]
          /\ ~ui.overlapped => r.n = ui.pulled[r.what]
          /\ \A k \in Kinds : ui.shown[k] <= ui.pulled[k]
      BY <1>0, <2>2 DEF PollsReads
    <2>10. PollsReads(ui')
      <3>1. \A k \in Kinds : shown[k] <= ui.pulled[k]
        BY <1>0, <2>2, <2>3, <2>9
      <3>2. QED
        BY <1>0, <2>8, <3>1 DEF PollsReads
    <2>11. PollsTrace(ui')
      BY <1>0, <2>1, <2>8 DEF PollsTrace
    <2>12. Polls!SnapshotsForward
      <3>1. ~ui.overlapped => \A k \in Kinds : shown[k] >= ui.shown[k]
        BY <1>0, <2>2, <2>3, <2>9
      <3>2. QED
        BY <2>8, <3>1 DEF Polls!SnapshotsForward, Polls!Polled, Kinds
    <2>13. ~ui'.mounted => ui'.out = {}
      BY <1>0, <2>8
    <2>14. QED
      BY <2>8, <2>10, <2>11, <2>12, <2>13 DEF PollsOk
  <1>5. CASE Polls!OnTrace
    <2>1. PICK r \in ui.out, ok \in BOOLEAN :
            /\ r.what = "trace"
            /\ ui' = Polls!Done([ui EXCEPT !.trace = ok, !.traceFailed = ~ok], r)
      BY <1>5, Zenon DEF Polls!OnTrace
    <2>2. PICK failed \in BOOLEAN : failed = ~ok
      OBVIOUS
    <2>3. PICK u : u = [ui EXCEPT !.trace = ok, !.traceFailed = failed]
      OBVIOUS
    <2>4. /\ u \in PollsState /\ u.out = ui.out /\ u.acs = ui.out /\ u.shown = ui.shown
          /\ u.pulled = ui.pulled /\ u.overlapped = ui.overlapped /\ u.mounted = ui.mounted
          /\ u.trace = ok /\ u.traceFailed = failed
      BY <1>0, <2>3, Zenon DEF PollsState
    <2>5. /\ ui' \in PollsState /\ ui'.out = ui.out \ {r} /\ ui'.acs = ui.out \ {r}
          /\ ui'.pulled = ui.pulled /\ ui'.overlapped = ui.overlapped
          /\ ui'.shown = ui.shown /\ ui'.mounted = ui.mounted /\ ui'.trace = ok
          /\ ui'.traceFailed = failed
      <3>1. ui' = Polls!Done(u, r)
        BY <2>1, <2>2, <2>3, Zenon
      <3>2. QED
        BY <1>3, <2>4, <3>1
    <2>6. \A q \in ui.out : q.what = "trace" => q = r
      <3>1. SUFFICES ASSUME NEW q \in ui.out, q.what = "trace" PROVE q = r
        OBVIOUS
      <3>2. q.n = 1 /\ r.n = 1
        BY <1>0, <2>1, <3>1 DEF PollsTrace
      <3>3. q \in Pull /\ r \in Pull
        BY <1>0
      <3>4. /\ q = [what |-> q.what, n |-> q.n]
            /\ r = [what |-> r.what, n |-> r.n]
        BY <3>3, Zenon DEF Pull
      <3>5. QED
        BY <2>1, <3>1, <3>2, <3>4
    <2>7. PollsReads(ui')
      BY <1>0, <2>5 DEF PollsReads
    <2>8. PollsTrace(ui')
      BY <1>0, <2>2, <2>5, <2>6 DEF PollsTrace
    <2>9. Polls!SnapshotsForward
      BY <1>0, <2>5 DEF Polls!SnapshotsForward, Polls!Polled, Kinds
    <2>10. ~ui'.mounted => ui'.out = {}
      BY <1>0, <2>5
    <2>11. QED
      BY <2>5, <2>7, <2>8, <2>9, <2>10 DEF PollsOk
  <1>6. CASE Polls!Unmount
    <2>1. ui' = [ui EXCEPT !.mounted = FALSE, !.out = {}, !.acs = {}]
      <3>1. ui.out \ ui.acs = {}
        BY <1>0
      <3>2. QED
        BY <1>6, <3>1, Zenon DEF Polls!Unmount
    <2>2. {} \in SUBSET Pull
      OBVIOUS
    <2>3. /\ ui' \in PollsState /\ ui'.out = {} /\ ui'.acs = {} /\ ui'.pulled = ui.pulled
          /\ ui'.overlapped = ui.overlapped /\ ui'.shown = ui.shown /\ ~ui'.mounted
      BY <1>0, <2>1, <2>2, Zenon DEF PollsState
    <2>4. PollsReads(ui') /\ PollsTrace(ui')
      BY <1>0, <2>3 DEF PollsReads, PollsTrace
    <2>5. Polls!SnapshotsForward
      BY <1>0, <2>3 DEF Polls!SnapshotsForward, Polls!Polled, Kinds
    <2>6. QED
      BY <2>3, <2>4, <2>5 DEF PollsOk
  <1>7. QED
    BY <1>1, <1>2, <1>4, <1>5, <1>6 DEF Polls!Next, Polls!Answered

LEMMA PollsShown == PollsOk(ui) => Polls!LoopsMatch /\ Polls!ShownIsCurrent
  <1> SUFFICES ASSUME PollsOk(ui) PROVE Polls!LoopsMatch /\ Polls!ShownIsCurrent
    OBVIOUS
  <1>1. Polls!LoopsMatch
    BY DEF PollsOk, Polls!LoopsMatch
  <1>2. Polls!View.trace = "scrying" <=> ~ui.trace /\ ~ui.traceFailed
    BY DEF Polls!View
  <1>3. Polls!ShownIsCurrent
    BY <1>2 DEF PollsOk, PollsTrace, Polls!ShownIsCurrent
  <1>4. QED
    BY <1>1, <1>3

-----------------------------------------------------------------------------
\* The boot of the console.  Its timer runs exactly while the overlay is up, the
\* counters of the closure are what is drawn, and inside the lines.
BootState ==
  [mounted : BOOLEAN, phase : {"booting", "done"}, timer : {"type", "finale", ""},
   done : Int, ch : Int, bootShown : Int, bootChars : Int, revealed : BOOLEAN,
   frame : BOOLEAN, justRevealed : BOOLEAN, glintTimer : BOOLEAN, sweeps : Int,
   booted : BOOLEAN, pull : Int, pulled : Int, metrics : Int]
BootTimer(u) == (u.timer # "") <=> (u.mounted /\ u.phase = "booting")
BootReads(u) == u.pull \in {0, u.pulled} /\ u.metrics <= u.pulled
BootLines(u) ==
  /\ u.sweeps <= 1
  /\ u.frame \/ u.revealed => u.phase = "done"
  /\ u.timer = "type" => u.done < 2
  /\ u.phase = "booting" =>
       /\ u.sweeps = 0 /\ ~u.booted
       /\ u.bootShown = u.done /\ u.bootChars = u.ch
       /\ 0 <= u.done /\ (u.done < 2 => u.ch <= <<2, 1>>[u.done + 1])
BootGone(u) == ~u.mounted => u.pull = 0 /\ ~u.glintTimer
BootOk(u) == u \in BootState /\ BootTimer(u) /\ BootReads(u) /\ BootLines(u) /\ BootGone(u)

LEMMA BootInit == Boot!Init => BootOk(ui)
  <1> SUFFICES ASSUME Boot!Init PROVE BootOk(ui)
    OBVIOUS
  <1>1. PICK plain \in BOOLEAN :
          ui = [mounted |-> TRUE, phase |-> IF plain THEN "done" ELSE "booting",
                timer |-> IF plain THEN "" ELSE "type", done |-> 0, ch |-> 0,
                bootShown |-> 0, bootChars |-> 0, revealed |-> plain, frame |-> FALSE,
                justRevealed |-> FALSE, glintTimer |-> FALSE, sweeps |-> 0, booted |-> plain,
                pull |-> 1, pulled |-> 1, metrics |-> 0]
    BY Zenon DEF Boot!Init
  <1>2. 1 \in Int
    OBVIOUS
  <1>3. /\ ui \in BootState /\ BootTimer(ui)
        /\ ui.mounted /\ ui.phase = (IF plain THEN "done" ELSE "booting")
        /\ ui.done = 0 /\ ui.ch = 0 /\ ui.bootShown = 0 /\ ui.bootChars = 0
        /\ ui.revealed = plain /\ ~ui.frame /\ ui.sweeps = 0 /\ ui.booted = plain
        /\ ui.pull = 1 /\ ui.pulled = 1 /\ ui.metrics = 0
    BY <1>1, <1>2, Zero, Zenon DEF BootState, BootTimer
  <1>4. BootReads(ui) /\ BootLines(ui) /\ BootGone(ui)
    BY <1>3 DEF BootReads, BootLines, BootGone
  <1>5. QED
    BY <1>3, <1>4, Zenon DEF BootOk

LEMMA BootStep == BootOk(ui) /\ Boot!Next => BootOk(ui') /\ Boot!SnapshotsForward
  <1> SUFFICES ASSUME BootOk(ui), Boot!Next PROVE BootOk(ui') /\ ui'.metrics >= ui.metrics
    BY DEF Boot!SnapshotsForward
  <1>0. /\ ui \in BootState /\ BootTimer(ui) /\ BootReads(ui) /\ BootLines(ui) /\ BootGone(ui)
        /\ ui.done \in Int /\ ui.ch \in Int /\ ui.bootShown \in Int /\ ui.bootChars \in Int
        /\ ui.sweeps \in Int /\ ui.pull \in Int /\ ui.pulled \in Int /\ ui.metrics \in Int
        /\ ui.phase \in {"booting", "done"} /\ ui.booted \in BOOLEAN
    BY Zenon DEF BootOk, BootState
  <1>1. ASSUME ui.timer # "" PROVE ui.mounted /\ ui.phase = "booting"
    BY <1>0, <1>1, Zenon DEF BootTimer
  \* What is not about the pulls.
  <1>2. ASSUME ui' \in BootState, BootTimer(ui'), BootLines(ui'), BootGone(ui'),
               ui'.pull \in {0, ui.pull}, ui'.pulled = ui.pulled, ui'.metrics = ui.metrics
        PROVE  BootOk(ui') /\ ui'.metrics >= ui.metrics
    <2>1. BootReads(ui') /\ ui'.metrics >= ui.metrics
      BY <1>0, <1>2 DEF BootReads
    <2>2. QED
      BY <1>2, <2>1, Zenon DEF BootOk
  <1>3. CASE Boot!type
    <2>1. /\ ui.timer = "type"
          /\ ui' = IF ui.ch < <<2, 1>>[ui.done + 1]
                   THEN [ui EXCEPT !.ch = @ + 1, !.bootChars = ui.ch + 1]
                   ELSE IF ui.done + 1 < Len(<<2, 1>>)
                   THEN [ui EXCEPT !.done = @ + 1, !.bootShown = ui.done + 1, !.ch = 0,
                                   !.bootChars = 0]
                   ELSE [ui EXCEPT !.done = @ + 1, !.bootShown = ui.done + 1,
                                   !.timer = "finale"]
      BY <1>3, Zenon DEF Boot!type
    <2>2. ui.mounted /\ ui.phase = "booting"
      <3>1. ui.timer # ""
        BY <2>1, Zenon
      <3>2. QED
        BY <1>1, <3>1
    <2>3. PICK c \in Int, d \in Int : c = ui.ch + 1 /\ d = ui.done + 1
      BY <1>0
    <2>4. Len(<<2, 1>>) = 2 /\ <<2, 1>>[1] = 2 /\ <<2, 1>>[2] = 1
      OBVIOUS
    <2>5. ui.done \in {0, 1}
      BY <1>0, <2>1, <2>2 DEF BootLines
    <2>6. CASE ui.ch < <<2, 1>>[ui.done + 1]
      <3>1. ui' = [ui EXCEPT !.ch = c, !.bootChars = c]
        BY <1>0, <2>1, <2>3, <2>6, Zenon DEF BootState
      <3>2. /\ ui' \in BootState /\ BootTimer(ui') /\ ui'.ch = c /\ ui'.bootChars = c
            /\ ui'.done = ui.done /\ ui'.bootShown = ui.bootShown /\ ui'.timer = "type"
            /\ ui'.phase = "booting" /\ ui'.mounted /\ ui'.sweeps = ui.sweeps
            /\ ui'.booted = ui.booted /\ ui'.frame = ui.frame /\ ui'.revealed = ui.revealed
            /\ ui'.pull = ui.pull /\ ui'.pulled = ui.pulled /\ ui'.metrics = ui.metrics
        BY <1>0, <2>1, <2>2, <2>3, <3>1, Zenon DEF BootState, BootTimer
      <3>3. BootLines(ui') /\ BootGone(ui')
        BY <1>0, <2>1, <2>2, <2>3, <2>4, <2>5, <2>6, <3>2 DEF BootLines, BootGone
      <3>4. QED
        BY <1>2, <3>2, <3>3
    <2>7. CASE ~(ui.ch < <<2, 1>>[ui.done + 1]) /\ ui.done = 0
      <3>1. ui' = [ui EXCEPT !.done = d, !.bootShown = d, !.ch = 0, !.bootChars = 0]
        <4>1. ui.done + 1 < Len(<<2, 1>>)
          BY <2>4, <2>7
        <4>2. QED
          BY <1>0, <2>1, <2>3, <2>7, <4>1, Zenon DEF BootState
      <3>2. /\ ui' \in BootState /\ BootTimer(ui') /\ ui'.ch = 0 /\ ui'.bootChars = 0
            /\ ui'.done = d /\ ui'.bootShown = d /\ ui'.timer = "type"
            /\ ui'.phase = "booting" /\ ui'.mounted /\ ui'.sweeps = ui.sweeps
            /\ ui'.booted = ui.booted /\ ui'.frame = ui.frame /\ ui'.revealed = ui.revealed
            /\ ui'.pull = ui.pull /\ ui'.pulled = ui.pulled /\ ui'.metrics = ui.metrics
        BY <1>0, <2>1, <2>2, <2>3, <3>1, Zero, Zenon DEF BootState, BootTimer
      <3>3. BootLines(ui') /\ BootGone(ui')
        BY <1>0, <2>1, <2>2, <2>3, <2>4, <2>7, <3>2 DEF BootLines, BootGone
      <3>4. QED
        BY <1>2, <3>2, <3>3
    <2>8. CASE ~(ui.ch < <<2, 1>>[ui.done + 1]) /\ ui.done = 1
      <3>1. ui' = [ui EXCEPT !.done = d, !.bootShown = d, !.timer = "finale"]
        <4>1. ~(ui.done + 1 < Len(<<2, 1>>))
          BY <2>4, <2>8
        <4>2. QED
          BY <1>0, <2>1, <2>3, <2>8, <4>1, Zenon DEF BootState
      <3>2. /\ ui' \in BootState /\ BootTimer(ui') /\ ui'.ch = ui.ch
            /\ ui'.bootChars = ui.bootChars
            /\ ui'.done = d /\ ui'.bootShown = d /\ ui'.timer = "finale"
            /\ ui'.phase = "booting" /\ ui'.mounted /\ ui'.sweeps = ui.sweeps
            /\ ui'.booted = ui.booted /\ ui'.frame = ui.frame /\ ui'.revealed = ui.revealed
            /\ ui'.pull = ui.pull /\ ui'.pulled = ui.pulled /\ ui'.metrics = ui.metrics
        BY <1>0, <2>1, <2>2, <2>3, <3>1, Zenon DEF BootState, BootTimer
      <3>3. BootLines(ui') /\ BootGone(ui')
        BY <1>0, <2>1, <2>2, <2>3, <2>8, <3>2 DEF BootLines, BootGone
      <3>4. QED
        BY <1>2, <3>2, <3>3
    <2>9. QED
      BY <2>5, <2>6, <2>7, <2>8
  \* The boot ends: once, by its timer or by the visitor.
  <1>4. ASSUME NEW rev \in BOOLEAN, NEW fr \in BOOLEAN,
               ui.mounted, ui.phase = "booting",
               ui' = Boot!JustRevealed([ui EXCEPT !.timer = "", !.booted = TRUE,
                                        !.phase = "done", !.frame = fr, !.revealed = rev])
        PROVE  BootOk(ui') /\ ui'.metrics >= ui.metrics
    <2>1. PICK s \in Int : s = ui.sweeps + 1
      BY <1>0
    <2>2. ui' = [ui EXCEPT !.timer = "", !.booted = TRUE, !.phase = "done", !.frame = fr,
                           !.revealed = rev, !.justRevealed = TRUE, !.glintTimer = TRUE,
                           !.sweeps = s]
      <3>1. PICK u : u = [ui EXCEPT !.timer = "", !.booted = TRUE,
                                    !.phase = "done", !.frame = fr, !.revealed = rev]
        OBVIOUS
      <3>2. u.sweeps = ui.sweeps
        BY <1>0, <3>1, Zenon DEF BootState
      <3>3. ui' = [u EXCEPT !.justRevealed = TRUE, !.glintTimer = TRUE, !.sweeps = s]
        BY <1>4, <2>1, <3>1, <3>2, Zenon DEF Boot!JustRevealed
      <3>4. QED
        BY <1>0, <3>1, <3>3, Zenon DEF BootState
    <2>3. /\ ui' \in BootState /\ ui'.sweeps = s /\ ui'.phase = "done" /\ ui'.timer = ""
          /\ ui'.mounted = ui.mounted
          /\ ui'.pull = ui.pull /\ ui'.pulled = ui.pulled /\ ui'.metrics = ui.metrics
      BY <1>0, <2>1, <2>2, Zenon DEF BootState
    <2>4. BootTimer(ui') /\ ui'.timer # "type" /\ ui'.mounted
      <3>1. "" # "type" /\ "done" # "booting"
        BY Zenon
      <3>2. QED
        BY <1>4, <2>3, <3>1, Zenon DEF BootTimer
    <2>5. BootLines(ui') /\ BootGone(ui')
      <3>1. /\ ui'.sweeps = s /\ ui'.phase = "done" /\ ui'.timer # "type" /\ ui'.mounted
        BY <2>3, <2>4, Zenon
      <3>2. QED
        BY <1>0, <1>4, <2>1, <3>1 DEF BootLines, BootGone
    <2>6. QED
      BY <1>2, <2>3, <2>5, <2>4, Zenon
  <1>5. CASE Boot!finale
    <2>1. ui.timer # ""
      BY <1>5, Zenon DEF Boot!finale
    <2>2. ui.mounted /\ ui.phase = "booting"
      BY <1>1, <2>1
    <2>3. ui.revealed = FALSE
      BY <1>0, <2>2 DEF BootLines
    <2>4. [ui EXCEPT !.timer = "", !.booted = TRUE, !.phase = "done", !.frame = TRUE]
            = [ui EXCEPT !.timer = "", !.booted = TRUE, !.phase = "done", !.frame = TRUE,
                         !.revealed = FALSE]
      BY <1>0, <2>3, Zenon DEF BootState
    <2>5. ui' = Boot!JustRevealed([ui EXCEPT !.timer = "", !.booted = TRUE, !.phase = "done",
                                             !.frame = TRUE, !.revealed = FALSE])
      BY <1>5, <2>4, Zenon DEF Boot!finale
    <2>6. QED
      BY <1>4, <2>2, <2>5, Zenon
  <1>6. CASE Boot!skipBoot
    <2>1. ui.mounted /\ ui.phase = "booting"
      BY <1>6, Zenon DEF Boot!skipBoot, Boot!View
    <2>2. ui.frame = FALSE
      BY <1>0, <2>1 DEF BootLines
    <2>3. [ui EXCEPT !.timer = "", !.booted = TRUE, !.phase = "done", !.revealed = TRUE]
            = [ui EXCEPT !.timer = "", !.booted = TRUE, !.phase = "done", !.frame = FALSE,
                         !.revealed = TRUE]
      BY <1>0, <2>2, Zenon DEF BootState
    <2>4. ui' = Boot!JustRevealed([ui EXCEPT !.timer = "", !.booted = TRUE, !.phase = "done",
                                             !.frame = FALSE, !.revealed = TRUE])
      BY <1>6, <2>3, Zenon DEF Boot!skipBoot
    <2>5. QED
      BY <1>4, <2>1, <2>4, Zenon
  \* The rest of the boot leaves its lines and its timer alone.
  <1>7. ASSUME ui' \in BootState, ui'.timer = ui.timer, ui'.mounted = ui.mounted,
               ui'.phase = ui.phase, ui'.done = ui.done, ui'.ch = ui.ch,
               ui'.bootShown = ui.bootShown, ui'.bootChars = ui.bootChars,
               ui'.sweeps = ui.sweeps, ui'.booted = ui.booted,
               ui'.frame => ui.frame, ui'.revealed => ui.revealed \/ ui.frame,
               ui'.glintTimer => ui.glintTimer
        PROVE  BootTimer(ui') /\ BootLines(ui')
    <2>1. BootTimer(ui')
      BY <1>0, <1>7, Zenon DEF BootTimer
    <2>2. BootLines(ui')
      BY <1>0, <1>7 DEF BootLines
    <2>3. QED
      BY <2>1, <2>2
  <1>8. CASE Boot!RevealFrame
    <2>1. /\ ui' \in BootState /\ ui'.timer = ui.timer /\ ui'.mounted = ui.mounted
          /\ ui'.phase = ui.phase /\ ui'.done = ui.done /\ ui'.ch = ui.ch
          /\ ui'.bootShown = ui.bootShown /\ ui'.bootChars = ui.bootChars
          /\ ui'.sweeps = ui.sweeps /\ ui'.booted = ui.booted
          /\ ~ui'.frame /\ ui.frame /\ ui'.glintTimer = ui.glintTimer
          /\ ui'.pull = ui.pull /\ ui'.pulled = ui.pulled /\ ui'.metrics = ui.metrics
      BY <1>0, <1>8, Zenon DEF Boot!RevealFrame, BootState
    <2>2. BootTimer(ui') /\ BootLines(ui')
      BY <1>7, <2>1
    <2>3. BootGone(ui')
      BY <1>0, <2>1, Zenon DEF BootGone
    <2>4. QED
      BY <1>2, <2>1, <2>2, <2>3
  <1>9. CASE Boot!SweepEnds
    <2>1. /\ ui' \in BootState /\ ui'.timer = ui.timer /\ ui'.mounted = ui.mounted
          /\ ui'.phase = ui.phase /\ ui'.done = ui.done /\ ui'.ch = ui.ch
          /\ ui'.bootShown = ui.bootShown /\ ui'.bootChars = ui.bootChars
          /\ ui'.sweeps = ui.sweeps /\ ui'.booted = ui.booted
          /\ ui'.frame = ui.frame /\ ui'.revealed = ui.revealed /\ ~ui'.glintTimer
          /\ ui'.pull = ui.pull /\ ui'.pulled = ui.pulled /\ ui'.metrics = ui.metrics
      BY <1>0, <1>9, Zenon DEF Boot!SweepEnds, BootState
    <2>2. BootTimer(ui') /\ BootLines(ui')
      BY <1>7, <2>1
    <2>3. BootGone(ui')
      BY <1>0, <2>1, Zenon DEF BootGone
    <2>4. QED
      BY <1>2, <2>1, <2>2, <2>3
  <1>10. CASE Boot!Pull
    <2>1. PICK n \in Int : n = ui.pulled + 1
      BY <1>0
    <2>2. ui.mounted /\ ui' = [ui EXCEPT !.pulled = n, !.pull = n]
      BY <1>0, <1>10, <2>1, Zenon DEF Boot!Pull, BootState
    <2>3. /\ ui' \in BootState /\ ui'.timer = ui.timer /\ ui'.mounted = ui.mounted
          /\ ui'.phase = ui.phase /\ ui'.done = ui.done /\ ui'.ch = ui.ch
          /\ ui'.bootShown = ui.bootShown /\ ui'.bootChars = ui.bootChars
          /\ ui'.sweeps = ui.sweeps /\ ui'.booted = ui.booted
          /\ ui'.frame = ui.frame /\ ui'.revealed = ui.revealed
          /\ ui'.glintTimer = ui.glintTimer
          /\ ui'.pull = n /\ ui'.pulled = n /\ ui'.metrics = ui.metrics
      BY <1>0, <2>1, <2>2, Zenon DEF BootState
    <2>4. BootTimer(ui') /\ BootLines(ui')
      BY <1>7, <2>3
    <2>5. BootGone(ui')
      BY <2>2, <2>3, Zenon DEF BootGone
    <2>6. BootReads(ui') /\ ui'.metrics >= ui.metrics
      BY <1>0, <2>1, <2>3 DEF BootReads
    <2>7. QED
      BY <2>3, <2>4, <2>5, <2>6, Zenon DEF BootOk
  <1>11. CASE Boot!OnStatus
    <2>1. PICK ok \in BOOLEAN :
            /\ ui.pull # 0
            /\ ui' = [ui EXCEPT !.pull = 0, !.metrics = IF ok THEN ui.pull ELSE @]
      BY <1>11, Zenon DEF Boot!OnStatus
    <2>2. PICK m \in Int : m = IF ok THEN ui.pull ELSE ui.metrics
      BY <1>0
    <2>3. ui' = [ui EXCEPT !.pull = 0, !.metrics = m]
      BY <1>0, <2>1, <2>2, Zenon DEF BootState
    <2>4. /\ ui' \in BootState /\ ui'.timer = ui.timer /\ ui'.mounted = ui.mounted
          /\ ui'.phase = ui.phase /\ ui'.done = ui.done /\ ui'.ch = ui.ch
          /\ ui'.bootShown = ui.bootShown /\ ui'.bootChars = ui.bootChars
          /\ ui'.sweeps = ui.sweeps /\ ui'.booted = ui.booted
          /\ ui'.frame = ui.frame /\ ui'.revealed = ui.revealed
          /\ ui'.glintTimer = ui.glintTimer
          /\ ui'.pull = 0 /\ ui'.pulled = ui.pulled /\ ui'.metrics = m
      BY <1>0, <2>2, <2>3, Zero, Zenon DEF BootState
    <2>5. BootTimer(ui') /\ BootLines(ui')
      BY <1>7, <2>4
    <2>6. BootGone(ui')
      BY <1>0, <2>4, Zenon DEF BootGone
    <2>7. BootReads(ui') /\ ui'.metrics >= ui.metrics
      BY <1>0, <2>1, <2>2, <2>4 DEF BootReads
    <2>8. QED
      BY <2>4, <2>5, <2>6, <2>7, Zenon DEF BootOk
  <1>12. CASE Boot!Unmount
    <2>1. /\ ui' \in BootState /\ BootTimer(ui') /\ ~ui'.mounted /\ ui'.pull = 0
          /\ ~ui'.glintTimer /\ ui'.timer # "type"
          /\ ui'.phase = ui.phase /\ ui'.done = ui.done /\ ui'.ch = ui.ch
          /\ ui'.bootShown = ui.bootShown /\ ui'.bootChars = ui.bootChars
          /\ ui'.sweeps = ui.sweeps /\ ui'.booted = ui.booted
          /\ ui'.frame = ui.frame /\ ui'.revealed = ui.revealed
          /\ ui'.pulled = ui.pulled /\ ui'.metrics = ui.metrics
      BY <1>0, <1>12, Zero, Zenon DEF Boot!Unmount, BootState, BootTimer
    <2>2. BootLines(ui') /\ BootGone(ui')
      BY <1>0, <2>1 DEF BootLines, BootGone
    <2>3. QED
      BY <1>2, <2>1, <2>2
  <1>13. QED
    BY <1>3, <1>5, <1>6, <1>8, <1>9, <1>10, <1>11, <1>12, Zenon DEF Boot!Next, Boot!Answered

LEMMA BootShown == BootOk(ui) => Boot!LoopsMatch /\ Boot!ShownIsCurrent
  <1> SUFFICES ASSUME BootOk(ui) PROVE Boot!LoopsMatch /\ Boot!ShownIsCurrent
    OBVIOUS
  <1>1. /\ Boot!View.overlay = (ui.mounted /\ ui.phase = "booting")
        /\ Boot!View.typing = (ui.bootShown < Len(<<2, 1>>))
        /\ Boot!View.lines = ui.bootShown /\ Boot!View.strip = ui.revealed
    BY Zenon DEF Boot!View
  <1>2. Boot!View.overlay => ~ui.booted
    BY <1>1 DEF BootOk, BootLines
  <1>3. Boot!LoopsMatch
    <2>1. ui.mounted \in BOOLEAN
      BY Zenon DEF BootOk, BootState
    <2>2. QED
      BY <1>1, <1>2, <2>1, Zenon DEF BootOk, BootTimer, BootGone, Boot!LoopsMatch
  <1>4. Boot!ShownIsCurrent
    <2>1. Len(<<2, 1>>) = 2
      OBVIOUS
    <2>2. QED
      BY <1>1, <2>1 DEF BootOk, BootLines, Boot!ShownIsCurrent
  <1>5. QED
    BY <1>3, <1>4

-----------------------------------------------------------------------------
\* The camera.  What its forward step needs is that lengths are numbers, and that
\* the state keeps its fields.
CamFields == {"mounted", "coarse", "vh", "inner", "lastH", "height", "px", "spacer", "observed",
              "debounce", "wide", "scroll", "cam", "focused", "jumped", "helix", "camIdx"}
CamOk(u) == /\ u = [f \in CamFields |-> u[f]]
            /\ u.vh \in {10, 12} /\ u.inner \in {10, 12}

LEMMA CamInit == Camera!Init => CamOk(ui)
  <1> SUFFICES ASSUME Camera!Init PROVE CamOk(ui)
    OBVIOUS
  <1>1. PICK coarse, helix \in BOOLEAN, vh \in {10, 12}, h \in [Camera!Stations -> {4, 6, 12}] :
          /\ helix => ~coarse /\ Camera!N >= 2
          /\ ui = [mounted |-> TRUE, coarse |-> coarse, helix |-> helix, vh |-> vh, inner |-> vh,
                   lastH |-> vh, height |-> h, px |-> Camera!stationPxPositions(h, coarse, vh),
                   spacer |-> Camera!stationPxPositions(h, coarse, vh)[Camera!N]
                                + Camera!Span(coarse, vh),
                   observed |-> TRUE, debounce |-> FALSE, wide |-> FALSE, scroll |-> 0, cam |-> 0,
                   camIdx |-> Camera!camIndexOf(Camera!stationPxPositions(h, coarse, vh), 0),
                   focused |-> 0, jumped |-> 0]
    BY Zenon DEF Camera!Init
  <1>2. PICK px, spacer, camIdx :
          ui = [mounted |-> TRUE, coarse |-> coarse, helix |-> helix, vh |-> vh, inner |-> vh,
                lastH |-> vh, height |-> h, px |-> px, spacer |-> spacer, observed |-> TRUE,
                debounce |-> FALSE, wide |-> FALSE, scroll |-> 0, cam |-> 0,
                camIdx |-> camIdx, focused |-> 0, jumped |-> 0]
    BY <1>1, Zenon
  <1>3. DOMAIN ui = CamFields /\ ui.vh = vh /\ ui.inner = vh
    BY <1>2 DEF CamFields
  <1>4. ui = [f \in CamFields |-> ui[f]]
    BY <1>2, <1>3 DEF CamFields
  <1>5. QED
    BY <1>3, <1>4 DEF CamOk

LEMMA CamStep == CamOk(ui) /\ Camera!Next => CamOk(ui') /\ Camera!SnapshotsForward
  <1> SUFFICES ASSUME CamOk(ui), Camera!Next PROVE CamOk(ui') /\ Camera!SnapshotsForward
    OBVIOUS
  <1>0. ui = [f \in CamFields |-> ui[f]] /\ ui.vh \in {10, 12} /\ ui.inner \in {10, 12}
    BY DEF CamOk
  <1>1. ASSUME ui' = [f \in CamFields |-> ui'[f]], ui'.vh = ui.vh, ui'.inner = ui.inner
        PROVE  CamOk(ui') /\ Camera!SnapshotsForward
    BY <1>0, <1>1 DEF CamOk, Camera!SnapshotsForward
  <1>2. CASE Camera!Scroll
    <2>1. PICK y : ui' = [ui EXCEPT !.scroll = y, !.jumped = 0]
      BY <1>2, Zenon DEF Camera!Scroll
    <2>2. QED
      BY <1>0, <1>1, <2>1 DEF CamFields
  <1>3. CASE Camera!onFocusIn
    <2>1. PICK y, i : ui' = [ui EXCEPT !.scroll = y, !.jumped = i]
      BY <1>3, Zenon DEF Camera!onFocusIn
    <2>2. QED
      BY <1>0, <1>1, <2>1 DEF CamFields
  <1>4. CASE Camera!DeepLink
    <2>1. PICK y, i : ui' = [ui EXCEPT !.scroll = y, !.jumped = i]
      BY <1>4, Zenon DEF Camera!DeepLink
    <2>2. QED
      BY <1>0, <1>1, <2>1 DEF CamFields
  <1>5. CASE Camera!Resize
    <2>1. PICK h \in {10, 12}, turned \in BOOLEAN :
            \E w : ui' = [ui EXCEPT !.inner = h, !.wide = w, !.debounce = TRUE, !.jumped = 0]
      BY <1>5, Zenon DEF Camera!Resize
    <2>2. ui' = [f \in CamFields |-> ui'[f]] /\ ui'.vh = ui.vh /\ ui'.inner = h
      BY <1>0, <2>1 DEF CamFields
    <2>3. CamOk(ui')
      BY <1>0, <2>1, <2>2, Zenon DEF CamOk
    <2>4. ui'.vh >= ui.vh
      <3>1. ui'.vh = ui.vh /\ ui.vh \in {10, 12}
        BY <1>0, <2>2, Zenon
      <3>2. QED
        BY <3>1
    <2>5. Camera!SnapshotsForward
      BY <1>0, <2>2, <2>4 DEF Camera!SnapshotsForward
    <2>6. QED
      BY <2>3, <2>5
  <1>6. CASE Camera!Rewrap
    <2>1. PICK h : ui' = [ui EXCEPT !.height = h, !.observed = FALSE]
      <3>1. PICK i, h : ui' = [ui EXCEPT !.height[i] = h, !.observed = FALSE]
        BY <1>6, Zenon DEF Camera!Rewrap
      <3>2. QED
        BY <3>1
    <2>2. QED
      BY <1>0, <1>1, <2>1 DEF CamFields
  <1>7. CASE Camera!layout
    <2>1. PICK px, spacer :
            ui' = IF ~ui.wide /\ ui.inner = ui.lastH THEN [ui EXCEPT !.debounce = FALSE]
                  ELSE IF ui.coarse /\ ~ui.wide /\ ui.inner <= ui.vh
                  THEN [ui EXCEPT !.debounce = FALSE, !.wide = FALSE, !.lastH = ui.inner]
                  ELSE [[ui EXCEPT !.debounce = FALSE, !.wide = FALSE, !.lastH = ui.inner]
                          EXCEPT !.vh = ui.inner, !.px = px, !.jumped = 0, !.spacer = spacer]
      BY <1>7, Zenon DEF Camera!layout
    <2>2. CASE ui' = [ui EXCEPT !.debounce = FALSE]
      BY <1>0, <1>1, <2>2 DEF CamFields
    <2>3. CASE ui' = [ui EXCEPT !.debounce = FALSE, !.wide = FALSE, !.lastH = ui.inner]
      BY <1>0, <1>1, <2>3 DEF CamFields
    <2>4. CASE /\ ~(ui.coarse /\ ~ui.wide /\ ui.inner <= ui.vh)
               /\ ui' = [[ui EXCEPT !.debounce = FALSE, !.wide = FALSE, !.lastH = ui.inner]
                           EXCEPT !.vh = ui.inner, !.px = px, !.jumped = 0, !.spacer = spacer]
      <3>1. ui' = [f \in CamFields |-> ui'[f]] /\ ui'.vh = ui.inner /\ ui'.inner = ui.inner
        BY <1>0, <2>4 DEF CamFields
      <3>2. CamOk(ui')
        BY <1>0, <3>1, Zenon DEF CamOk
      <3>3. ui.vh \in {10, 12} /\ ui.inner \in {10, 12} /\ ui'.vh = ui.inner
        BY <1>0, <3>1
      <3>4. QED
        BY <2>4, <3>2, <3>3 DEF Camera!SnapshotsForward
    <2>5. QED
      BY <2>1, <2>2, <2>3, <2>4, Zenon
  <1>8. CASE Camera!ObserverFires
    <2>1. \/ ui' = [ui EXCEPT !.observed = TRUE]
          \/ \E px, spacer : ui' = [[ui EXCEPT !.observed = TRUE] EXCEPT !.px = px, !.jumped = 0,
                                                                      !.spacer = spacer]
      BY <1>8, Zenon DEF Camera!ObserverFires
    <2>2. QED
      BY <1>0, <1>1, <2>1 DEF CamFields
  <1>9. CASE Camera!frame
    <2>1. PICK cam, camIdx, focused : ui' = [ui EXCEPT !.cam = cam, !.camIdx = camIdx,
                                                       !.focused = focused]
      BY <1>9, Zenon DEF Camera!frame
    <2>2. QED
      BY <1>0, <1>1, <2>1 DEF CamFields
  <1>10. CASE Camera!Unmount
    <2>1. ui' = [ui EXCEPT !.mounted = FALSE, !.debounce = FALSE]
      BY <1>10, Zenon DEF Camera!Unmount
    <2>2. QED
      BY <1>0, <1>1, <2>1 DEF CamFields
  <1>11. QED
    BY <1>2, <1>3, <1>4, <1>5, <1>6, <1>7, <1>8, <1>9, <1>10, Zenon
       DEF Camera!Next, Camera!Answered

-----------------------------------------------------------------------------
TabSnapInv ==
  /\ panel = "waf" => WafOk(ui)
  /\ panel = "dash" => DashOk(ui)
  /\ panel = "polls" => PollsOk(ui)
  /\ panel = "status" => BoardOk(ui, 1)
  /\ panel = "deep" => BoardOk(ui, 2)
  /\ panel = "boot" => BootOk(ui)
  /\ panel = "camera" => CamOk(ui)

LEMMA TabSnapInductive ==
  /\ Init => TabSnapInv
  /\ TabSnapInv /\ [Next]_vars =>
       /\ TabSnapInv'
       /\ [CASE panel = "waf" -> Waf!SnapshotsForward
             [] panel = "dash" -> Dash!SnapshotsForward
             [] panel = "polls" -> Polls!SnapshotsForward
             [] panel = "status" -> Status!SnapshotsForward
             [] panel = "deep" -> Deep!SnapshotsForward
             [] panel = "boot" -> Boot!SnapshotsForward
             [] panel = "camera" -> Camera!SnapshotsForward
             [] OTHER -> TRUE]_vars
  <1>1. Init => TabSnapInv
    BY WafInit, DashInit, PollsInit, StatusStep, DeepStep, BootInit, CamInit
       DEF Init, TabSnapInv
  <1>2. ASSUME TabSnapInv, Next
        PROVE  /\ TabSnapInv'
               /\ CASE panel = "waf" -> Waf!SnapshotsForward
                    [] panel = "dash" -> Dash!SnapshotsForward
                    [] panel = "polls" -> Polls!SnapshotsForward
                    [] panel = "status" -> Status!SnapshotsForward
                    [] panel = "deep" -> Deep!SnapshotsForward
                    [] panel = "boot" -> Boot!SnapshotsForward
                    [] panel = "camera" -> Camera!SnapshotsForward
                    [] OTHER -> TRUE
    <2>1. /\ panel' = panel
          /\ panel = "waf" => Waf!Next
          /\ panel = "dash" => Dash!Next
          /\ panel = "polls" => Polls!Next
          /\ panel = "status" => Status!Next
          /\ panel = "deep" => Deep!Next
          /\ panel = "boot" => Boot!Next
          /\ panel = "camera" => Camera!Next
      BY <1>2 DEF Next
    <2>2. /\ panel = "waf" => WafOk(ui') /\ Waf!SnapshotsForward
          /\ panel = "dash" => DashOk(ui') /\ Dash!SnapshotsForward
          /\ panel = "polls" => PollsOk(ui') /\ Polls!SnapshotsForward
          /\ panel = "status" => BoardOk(ui', 1) /\ Status!SnapshotsForward
          /\ panel = "deep" => BoardOk(ui', 2) /\ Deep!SnapshotsForward
          /\ panel = "boot" => BootOk(ui') /\ Boot!SnapshotsForward
          /\ panel = "camera" => CamOk(ui') /\ Camera!SnapshotsForward
      BY <1>2, <2>1, WafStep, DashStep, PollsStep, StatusStep, DeepStep, BootStep, CamStep
         DEF TabSnapInv
    <2>3. TabSnapInv'
      BY <2>1, <2>2 DEF TabSnapInv
    <2>4. QED
      BY <2>2, <2>3
  <1>3. ASSUME TabSnapInv, UNCHANGED vars
        PROVE  TabSnapInv'
    <2>1. panel' = panel /\ ui' = ui
      BY <1>3 DEF vars
    <2>2. QED
      BY <1>3, <2>1 DEF TabSnapInv
  <1>4. QED
    BY <1>1, <1>2, <1>3

\* In every behaviour of a tab readings never go back to older ones: however many
\* polls, refreshes, frames and answers there are and in whatever order they come, and
\* the viewport of the immersive page shrinks on touch with a turn of the device only
\* (an older pull is aborted or outlived: StatusBoard.tsx:45, SystemDash.tsx:169,
\* console.tsx:302, WafPanel.tsx:32; the frozen viewport: Immersive.tsx:546).
THEOREM ReadingsGoForward == Spec => SnapshotsForward
  BY TabSnapInductive, PTL DEF Spec, SnapshotsForward
=============================================================================
