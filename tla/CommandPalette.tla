--------------------------- MODULE CommandPalette ---------------------------
(***************************************************************************)
(* The command palette of every page (components/CommandPalette.tsx) with  *)
(* what it shares with the pages: where the focus is, the inert shell, the *)
(* lock on the body's scrolling, the route, and the hand-over of the focus *)
(* to RouteFocus (components/RouteFocus.tsx) after a navigation.           *)
(*                                                                         *)
(* An event that closes the palette is discrete: React runs the cleanup of *)
(* the open effect before the event reaches the window's listeners.        *)
(***************************************************************************)
EXTENDS Integers

CONSTANT MaxResults   \* commands that match at most

VARIABLE ui

Routes == {"home", "resume", "work"}

\* route, nav: the route on screen and the navigation router.push has begun ("":
\* none); focus: the focused element, "page" for any in the shell that is neither
\* of the others; flag: sessionStorage's gipc-focus-console; results, sel: how many
\* commands match, and the selected one from 0.
SiteInit(route) ==
  [open |-> FALSE, results |-> MaxResults, sel |-> 0, restore |-> "body",
   shouldRestore |-> FALSE, intent |-> FALSE, flag |-> FALSE, shellInert |-> FALSE,
   bodyLocked |-> FALSE, focus |-> "page", route |-> route, nav |-> ""]

selIndex == IF ui.site.results = 0 THEN -1
            ELSE IF ui.site.sel < ui.site.results THEN ui.site.sel ELSE ui.site.results - 1

\* focus() on an element of the shell does nothing while the shell is inert, nor
\* does it on one that has left the page.
Exists(s, el) == el \in {"main", "page"} \/ (el = "console" /\ s.route = "home")
                 \/ (el = "card" /\ s.route = "resume")
Focus(s, el) == IF s.shellInert \/ ~Exists(s, el) THEN s ELSE [s EXCEPT !.focus = el]

\* openPalette and the effect of [open].
Opened(s) == [s EXCEPT !.open = TRUE, !.results = MaxResults, !.sel = 0, !.restore = s.focus,
                       !.shellInert = TRUE, !.bodyLocked = TRUE, !.focus = "palette"]
\* setOpen(false): the effect's cleanup.  The input is gone, and the focus with it.
Closed(s) ==
  IF ~s.open THEN s
  ELSE LET t == [s EXCEPT !.open = FALSE, !.shellInert = FALSE, !.bodyLocked = FALSE,
                          !.focus = IF @ = "palette" THEN "body" ELSE @]
       IN IF t.shouldRestore THEN Focus([t EXCEPT !.shouldRestore = FALSE], t.restore)
          ELSE IF ~t.intent THEN t
          ELSE IF t.route = "home" THEN Focus([t EXCEPT !.intent = FALSE], "console")
          ELSE [t EXCEPT !.intent = FALSE, !.flag = TRUE]
Dismissed(s) == Closed([s EXCEPT !.shouldRestore = TRUE])
Push(s, href) == [s EXCEPT !.nav = IF href = s.route THEN @ ELSE href]

\* The commands: goto, open console, theme.
Goto(s, href) == Push(Closed([s EXCEPT !.shouldRestore = @ \/ href = s.route]), href)
OpenConsole(s) == Push(Closed([s EXCEPT !.intent = TRUE]), "home")
Theme(s) == Dismissed(s)

CtrlK == ui' = [ui EXCEPT !.site = IF @.open THEN Dismissed(@) ELSE Opened(@)]
NavButton == ~ui.site.open /\ ui' = [ui EXCEPT !.site = Opened([@ EXCEPT !.focus = "page"])]
Backdrop == ui.site.open /\ ui' = [ui EXCEPT !.site = Dismissed(@)]
\* A press on the box, beside the input, takes the focus off the input.
PressBox == ui.site.open /\ ui' = [ui EXCEPT !.site.focus = "body"]
Query == /\ ui.site.open /\ ui.site.focus = "palette"
         /\ \E n \in 0..MaxResults : ui' = [ui EXCEPT !.site.results = n, !.site.sel = 0]
Select == /\ ui.site.open
          /\ \/ /\ ui.site.focus = "palette"
                /\ ui' = [ui EXCEPT !.site.sel = IF @ + 1 < ui.site.results THEN @ + 1
                                                 ELSE ui.site.results - 1]      \* ArrowDown
             \/ /\ ui.site.focus = "palette"
                /\ ui' = [ui EXCEPT !.site.sel = IF @ > 1 THEN @ - 1 ELSE 0]    \* ArrowUp
             \/ \E i \in 0..(ui.site.results - 1) : ui' = [ui EXCEPT !.site.sel = i]
Run == /\ ui.site.open /\ selIndex >= 0
       /\ \/ \E href \in Routes : ui' = [ui EXCEPT !.site = Goto(@, href)]
          \/ ui' = [ui EXCEPT !.site = OpenConsole(@)]
          \/ ui' = [ui EXCEPT !.site = Theme(@)]

\* A link of the page, or the browser's back button.
Leave == \E href \in Routes :
  ~ui.site.open /\ ui.site.nav = "" /\ ui' = [ui EXCEPT !.site = Push(@, href)]
Back == \E href \in Routes : href # ui.site.route /\ ui' = [ui EXCEPT !.site.nav = href]

\* The route commits.  RouteFocus runs in the same pass, the palette that a route
\* change closes lifts its inert after it.
Commit(s) == LET t == [s EXCEPT !.route = s.nav, !.nav = "", !.flag = FALSE]
             IN Closed(Focus(t, IF s.flag /\ t.route = "home" THEN "console" ELSE "main"))

PaletteStep == CtrlK \/ NavButton \/ Backdrop \/ PressBox \/ Query \/ Select \/ Run \/ Leave \/ Back

\* The palette is open exactly while the shell is inert and the body locked, and
\* then the focus is not behind it.
PaletteTraps == /\ ui.site.open = ui.site.shellInert /\ ui.site.open = ui.site.bodyLocked
                /\ ui.site.open => ui.site.focus \in {"palette", "body"}
                /\ ui.site.focus = "palette" => ui.site.open
\* No wish of a run command outlives the close it was meant for.
NoStaleWish == ~ui.site.open => ~ui.site.shouldRestore /\ ~ui.site.intent
=============================================================================
