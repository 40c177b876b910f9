-------------------------- MODULE DbExplorerPanel --------------------------
(***************************************************************************)
(* The DB explorer (components/DbExplorerPanel.tsx): a menu of allowlisted *)
(* queries, one run at a time, its rows and its plan tree.  A result is    *)
(* the query it was run for, with what the layout depends on.              *)
(***************************************************************************)
EXTENDS Integers, FiniteSets

CONSTANT Queries   \* the ids /api/lab/db/queries lists

VARIABLE ui

\* timedOut, rows (more than none), plan: what the answer to a run holds.
Results == [timedOut : BOOLEAN, rows : BOOLEAN, plan : BOOLEAN]
Blank == [timedOut |-> FALSE, rows |-> FALSE, plan |-> FALSE]

\* menu: "loading", "ready" or "failed"; menuOut: its request is out;
\* out: the query whose run is out ({}: none); ran: the query `res` is of.
Init == ui = [mounted |-> TRUE, menu |-> "loading", menuOut |-> TRUE, queries |-> {},
              sel |-> {}, kind |-> "idle", out |-> {}, ran |-> {}, res |-> Blank]

View ==
  LET listed == ui.menu = "ready"
      done == listed /\ ui.kind = "done"
  IN [menuLine |-> IF listed THEN "" ELSE ui.menu,
      picks    |-> IF listed /\ ui.kind # "running" THEN ui.queries ELSE {},
      sql      |-> IF listed THEN ui.sel \cap ui.queries ELSE {},
      line     |-> IF ~listed THEN ""
                   ELSE IF done THEN (IF ui.res.timedOut THEN "timed out" ELSE "rows in ms")
                   ELSE IF ui.kind = "idle" THEN "" ELSE ui.kind,
      plan     |-> done /\ ~ui.res.timedOut /\ ui.res.plan,
      table    |-> done /\ ~ui.res.timedOut /\ ui.res.rows]

OnMenu == /\ ui.menuOut
          /\ \E qs \in {{}, Queries} :
               ui' = IF ~ui.mounted THEN [ui EXCEPT !.menuOut = FALSE]
                     ELSE [ui EXCEPT !.menuOut = FALSE, !.menu = "ready", !.queries = qs,
                                     !.sel = IF qs = {} THEN @ ELSE {CHOOSE q \in qs : TRUE}]
OnMenuError == /\ ui.menuOut
               /\ ui' = [ui EXCEPT !.menuOut = FALSE,
                                   !.menu = IF ui.mounted THEN "failed" ELSE @]

runQuery(q) == IF ui.kind = "running" THEN UNCHANGED ui
               ELSE ui' = [ui EXCEPT !.sel = {q}, !.kind = "running", !.out = {q}]
Click == ui.mounted /\ \E q \in View.picks : runQuery(q)

OnRan == \E q \in ui.out, r \in Results :
           ui' = IF ~ui.mounted THEN [ui EXCEPT !.out = {}]
                 ELSE [ui EXCEPT !.out = {}, !.kind = "done", !.ran = {q}, !.res = r]
\* 429, the two kinds of 503, and any other status or a network error.
OnRefused == \E q \in ui.out, k \in {"cooling", "busy", "offline", "error"} :
               ui' = [ui EXCEPT !.out = {}, !.kind = IF ui.mounted THEN k ELSE @]

\* The menu's request is aborted, a run is not.
Unmount == ui.mounted /\ ui' = [ui EXCEPT !.mounted = FALSE, !.menuOut = FALSE]

Answered == OnMenu \/ OnMenuError \/ OnRan \/ OnRefused
Next == Answered \/ Click \/ Unmount

\* "The SQL shown is exactly what runs": the rows and the plan on screen are
\* those of the SQL above them, and the picker is locked while one is out.
ShownIsCurrent == /\ View.line \in {"rows in ms", "timed out"} => ui.ran = View.sql
                  /\ ui.mounted => (ui.out # {}) = (ui.kind = "running")
                  /\ ui.mounted /\ ui.out # {} => ui.out = View.sql /\ View.picks = {}
Idle == ~ui.menuOut /\ ui.out = {}
=============================================================================
