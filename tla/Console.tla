------------------------------ MODULE Console ------------------------------
(***************************************************************************)
(* The console's command line (app/console.tsx): the commands with their   *)
(* effects, the history and its recall, and the live scry, whose readings  *)
(* are appended when its three requests have settled, unless a later scry  *)
(* or a clear has orphaned it.                                             *)
(*                                                                         *)
(* A command stands for all with the same effect; a typed text that is no  *)
(* command is "junk".  A line of the log is [kind, of]: the command that   *)
(* was submitted n-th, or an output of it.                                 *)
(***************************************************************************)
EXTENDS Integers, Sequences, FiniteSets

CONSTANTS
  Projects, Stations, Writeups, Pages,   \* the slugs of the four namespaces
  MaxCmds, MaxLog                        \* bounds: submissions, lines of the log

VARIABLE ui

Typed == {"", "help", "clear", "scry", "theme", "restore", "cat", "system", "oracle", "junk"}
Slugs == Projects \cup Stations \cup Writeups \cup Pages \cup {"junk"}
Readings == {"telemetry", "route", "deploy"}

\* The context `oracle <slug>` links to: the first namespace that has the slug.
kindOf(slug) == IF slug \in Projects THEN "project" ELSE IF slug \in Stations THEN "station"
                ELSE IF slug \in Writeups THEN "writeup" ELSE IF slug \in Pages THEN "page" ELSE ""
Ctx(slug) == IF kindOf(slug) = "" THEN {} ELSE {[kind |-> kindOf(slug), key |-> slug]}

\* runCommand: how many lines a command answers with, and its effects.
runCommand(cmd, history) ==
  [out     |-> IF cmd \in {"", "clear"} THEN 0 ELSE 1,
   clear   |-> cmd = "clear", live |-> cmd = "scry", restore |-> cmd = "restore",
   effect  |-> CASE cmd = "theme" -> "theme"                    \* the next theme
                 [] cmd = "cat" -> "ctf"                        \* the flag is found
                 [] cmd \in {"system", "oracle"} -> "nav"       \* a navigation begins
                 [] OTHER -> ""]

\* input: the text of the line; hIdx: the history index recalled last (0: none);
\* scries: the runs whose requests are out; gen: liveGenRef; ctx: the context of the
\* latest link to the oracle; effect: what the latest command did outside the console.
\* n: submissions.
Init == ui = [mounted |-> TRUE, input |-> "", log |-> <<>>, history |-> <<>>, hIdx |-> 0,
              gen |-> 0, scries |-> {}, panelClosed |-> FALSE,
              effect |-> "", ctx |-> {}, n |-> 0]

View == [pane |-> IF ui.panelClosed THEN "scold" ELSE "strip",
         log  |-> ui.log]

Line(kind, of) == [kind |-> kind, of |-> of]

\* Typing, the chips and the two action buttons put a text on the line.
SetInput == /\ ui.mounted
            /\ \E text \in Typed : text # ui.input /\ ui' = [ui EXCEPT !.input = text]
ClosePanel == /\ ui.mounted
              /\ ui' = [ui EXCEPT !.panelClosed = ~@]   \* and "bring it back"

submit ==
  LET n  == ui.n + 1
      h  == IF ui.input = "" THEN ui.history ELSE Append(ui.history, ui.input)
      r  == runCommand(ui.input, h)
      u  == [ui EXCEPT !.n = n, !.history = h, !.hIdx = 0, !.input = ""]
  IN IF r.clear THEN ui' = [u EXCEPT !.gen = @ + 1, !.log = <<>>]
     ELSE \E slug \in IF ui.input = "oracle" THEN Slugs ELSE {"junk"} :
       ui' = [u EXCEPT
                !.log = @ \o <<Line("cmd", n)>> \o (IF r.out = 0 THEN <<>> ELSE <<Line("out", n)>>),
                !.gen = IF r.live THEN @ + 1 ELSE @,
                !.scries = IF r.live THEN @ \cup {[gen |-> ui.gen + 1, of |-> n]} ELSE @,
                !.effect = r.effect, !.panelClosed = @ /\ ~r.restore,
                !.ctx = IF ui.input = "oracle" THEN Ctx(slug) ELSE @]
Submit == /\ ui.mounted /\ ui.n < MaxCmds /\ Len(ui.log) + 2 <= MaxLog
          /\ submit

\* Mutant: a reading is appended although a later scry or a clear orphaned it.
scryLiveStale == \E s \in ui.scries, hits \in SUBSET Readings :
  ui' = [ui EXCEPT !.scries = @ \ {s},
           !.log = @ \o [i \in 1..Cardinality(hits) |-> Line("live", s.of)]
                     \o <<Line(IF hits = {} THEN "dark" ELSE "proof", s.of)>>]
\* All three requests have settled, within their 4 s: what they read is appended
\* in one go, and a closing line says whether there was anything.
scryLive == \E s \in ui.scries, hits \in SUBSET Readings :
  LET lines == [i \in 1..Cardinality(hits) |-> Line("live", s.of)]
      last  == <<Line(IF hits = {} THEN "dark" ELSE "proof", s.of)>>
  IN ui' = [ui EXCEPT !.scries = @ \ {s},
              !.log = IF s.gen = ui.gen /\ ui.mounted THEN @ \o lines \o last ELSE @]
\* A body of an unexpected shape: what was read before it stays, then "dark".
ScryMalformed == \E s \in ui.scries, some \in BOOLEAN :
  ui' = [ui EXCEPT !.scries = @ \ {s},
           !.log = IF s.gen = ui.gen /\ ui.mounted
                   THEN @ \o (IF some THEN <<Line("live", s.of)>> ELSE <<>>)
                          \o <<Line("dark", s.of)>>
                   ELSE @]

\* onKeyDown.  "junk" may be the beginning of a word: one match completes it, several
\* are listed.
Tab == /\ ui.mounted /\ ui.input = "junk"
       /\ \/ /\ Len(ui.log) < MaxLog
             /\ ui' = [ui EXCEPT !.log = Append(@, Line("matches", ui.n))]
          \/ \E text \in Typed \ {"", "junk"} : ui' = [ui EXCEPT !.input = text]
ArrowUp == /\ ui.mounted
           /\ LET ni == IF ui.hIdx = 0 THEN Len(ui.history)
                        ELSE IF ui.hIdx > 1 THEN ui.hIdx - 1 ELSE 1
              IN ui' = [ui EXCEPT !.hIdx = ni,
                                  !.input = IF ni = 0 THEN @ ELSE ui.history[ni]]
ArrowDown == /\ ui.mounted /\ ui.hIdx # 0
             /\ ui' = IF ui.hIdx = Len(ui.history)
                      THEN [ui EXCEPT !.hIdx = 0, !.input = ""]
                      ELSE [ui EXCEPT !.hIdx = @ + 1, !.input = ui.history[ui.hIdx + 1]]

Unmount == ui.mounted /\ ui' = [ui EXCEPT !.mounted = FALSE]

Answered == scryLive \/ ScryMalformed
Next == SetInput \/ ClosePanel \/ Submit \/ Tab \/ ArrowUp \/ ArrowDown \/ Answered \/ Unmount

\* A reading stands below its own scry, above every later one, and above its own
\* closing line, of which there is one; "proof, not claims" has a reading.
ShownIsCurrent == \A i \in 1..Len(ui.log) : ui.log[i].kind \in {"live", "proof", "dark"} =>
  /\ \E j \in 1..(i - 1) : ui.log[j] = Line("cmd", ui.log[i].of)
  /\ \A j \in 1..Len(ui.log) :
       ui.log[j].kind \in {"proof", "dark"} /\ ui.log[j].of = ui.log[i].of => i <= j
  /\ ui.log[i].kind = "proof" => i > 1 /\ ui.log[i - 1] = Line("live", ui.log[i].of)
\* Recall stays inside the history.
RecallInRange == ui.hIdx \in 0..Len(ui.history)
Idle == ui.scries = {}
=============================================================================
