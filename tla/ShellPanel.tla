---------------------------- MODULE ShellPanel -----------------------------
(***************************************************************************)
(* The sandbox shell's terminal (components/ShellPanel.tsx): a prompt with *)
(* a history, one command out at a time, and the lines printed so far.     *)
(* A command is its number; the input holds nothing (0), a typed text      *)
(* (Typed), a blank text (Blank) or a recalled command.                    *)
(***************************************************************************)
EXTENDS Integers, Sequences

CONSTANTS
  Dirs,      \* the working directories the server may answer with
  MaxCmds,   \* bound: commands submitted in a behaviour
  MaxLines   \* bound: lines on screen when another key is handled

VARIABLE ui

Typed == -1
Blank == -2

\* A line is its kind and the command it echoes or answers (0: none).
Line(kind, n) == [kind |-> kind, cmd |-> n]
Init == ui = [lines |-> <<Line("sys", 0)>>, input |-> 0, cwd |-> CHOOSE d \in Dirs : TRUE,
              history |-> <<>>, hIdx |-> -1, pending |-> FALSE, submitted |-> 0]

\* Every echoed command is drawn with the prompt's current directory.
View == [prompt   |-> ui.cwd,
         log      |-> [i \in 1..Len(ui.lines) |->
                        [line |-> ui.lines[i],
                         prompt |-> IF ui.lines[i].kind = "cmd" THEN {ui.cwd} ELSE {}]],
         readOnly |-> ui.pending]

push(u, kind, n) == [u EXCEPT !.lines = Append(@, Line(kind, n))]

Type == /\ ~View.readOnly
        /\ \E text \in {0, Typed, Blank} : ui' = [ui EXCEPT !.input = text]

\* An empty command echoes a prompt and stops.
submit ==
  IF ui.pending THEN UNCHANGED ui
  ELSE LET n == ui.submitted + 1
           cleared == [ui EXCEPT !.input = 0, !.hIdx = -1]
       IN IF ui.input \in {0, Blank} THEN ui' = push(cleared, "cmd", 0)
          ELSE ui' = [push(cleared, "cmd", n) EXCEPT !.history = Append(@, n),
                        !.pending = TRUE, !.submitted = n]
Enter == ui.submitted < MaxCmds /\ Len(ui.lines) < MaxLines /\ submit

OnOutput ==
  /\ ui.pending
  /\ \E dir \in Dirs, a \in {"cleared", "output", "silent"} :
       LET u == [ui EXCEPT !.pending = FALSE, !.cwd = dir]
       IN ui' = CASE a = "cleared" -> [u EXCEPT !.lines = <<>>]
                  [] a = "output" -> push(u, "out", ui.submitted)
                  [] OTHER -> u
\* 503, 429, another status or a network error: one line each.
OnRefused == ui.pending /\ ui' = push([ui EXCEPT !.pending = FALSE], "sys", ui.submitted)

\* Tab on one token: completes a unique match or lists several.
Tab == /\ ui.input \notin {0, Blank} /\ Len(ui.lines) < MaxLines
       /\ \E matches \in 0..2 :
            ui' = IF matches = 2 THEN push(ui, "out", 0)
                  ELSE IF matches = 1 THEN [ui EXCEPT !.input = Typed] ELSE ui
ArrowUp ==
  /\ ui.history # <<>>
  /\ LET n == Len(ui.history)
         i == IF ui.hIdx < 0 THEN n - 1 ELSE IF ui.hIdx > 0 THEN ui.hIdx - 1 ELSE 0
     IN ui' = [ui EXCEPT !.hIdx = i, !.input = ui.history[i + 1]]
ArrowDown ==
  /\ ui.hIdx >= 0
  /\ LET i == ui.hIdx + 1
     IN ui' = IF i >= Len(ui.history) THEN [ui EXCEPT !.hIdx = -1, !.input = 0]
              ELSE [ui EXCEPT !.hIdx = i, !.input = ui.history[i + 1]]

Answered == OnOutput \/ OnRefused
Next == Type \/ Enter \/ Answered \/ Tab \/ ArrowUp \/ ArrowDown

\* An answer is printed under the command it answers: no other command is echoed
\* between the two, and a command has one answer at most.
ShownIsCurrent ==
  \A i \in 1..Len(ui.lines) :
    ui.lines[i].kind # "cmd" /\ ui.lines[i].cmd # 0 =>
      \A j \in 1..Len(ui.lines) :
        ui.lines[j].cmd # 0 /\ j # i =>
          IF j < i THEN ui.lines[j].cmd <= ui.lines[i].cmd
                        /\ (ui.lines[j].kind # "cmd" => ui.lines[j].cmd < ui.lines[i].cmd)
                   ELSE ui.lines[j].cmd > ui.lines[i].cmd
\* The recall index always points into the history.
RecallInRange == ui.hIdx < Len(ui.history)
Idle == ~ui.pending
=============================================================================
