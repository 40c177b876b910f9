----------------------------- MODULE Construct -----------------------------
(***************************************************************************)
(* The résumé page as a place (resume/ConstructShell.tsx and the reading   *)
(* surface of resume/Immersive.tsx): the switch from the static document   *)
(* to the immersive one, the bloom of the focused card with its closing    *)
(* slam, and the keys, which the shell, the bloom and the command palette  *)
(* all listen to.                                                          *)
(*                                                                         *)
(* The bloom and the slam are CSS animations of one element, so starting   *)
(* one cancels the other; a cancelled animation fires no animationend.     *)
(***************************************************************************)
EXTENDS CommandPalette, FiniteSets

CONSTANTS
  Cards,       \* the station cards
  MaxBlooms    \* bound: blooms in a behaviour

None == "none"   \* no card

\* mode, veil, jack: ConstructShell's state and what its load awaits ("chunk", then
\* the two timers); helix: the pose that allows blooms.  bloomed, slamming, slamT:
\* the cards of the closure's variables; cls: the cards with is-bloomed; anim: the
\* running animation of each card; once: the cards with an animationend listener;
\* blooms, restless: how many blooms, and whether one was opened on a card whose
\* slam was not over (history); stray: a slam timer of a page that was left is pending;
\* esc: flips with every Escape (history).
Blank(m) == [m EXCEPT !.bloomed = None, !.slamming = None, !.slamT = None, !.cls = {},
                      !.anim = [c \in Cards |-> None], !.once = {}, !.inert = {},
                      !.docLocked = FALSE, !.focused = None]
Init == \E helix, reduce \in BOOLEAN :
  ui = [site |-> SiteInit("resume"), reduce |-> reduce, mode |-> "static", veil |-> FALSE,
        jack |-> IF reduce THEN {} ELSE {"chunk"}, helix |-> helix, bloomed |-> None,
        slamming |-> None, slamT |-> None, cls |-> {}, anim |-> [c \in Cards |-> None],
        once |-> {}, inert |-> {}, docLocked |-> FALSE, focused |-> None, blooms |-> 0,
        restless |-> FALSE, stray |-> FALSE, esc |-> FALSE]

View == [immersive |-> ui.mode = "immersive",
         veil      |-> ui.veil,
         surface   |-> ui.cls]

\* The chunk has loaded: the veil covers the switch, which a timer makes and
\* another one uncovers.
ChunkLoaded == /\ "chunk" \in ui.jack
               /\ ui' = [ui EXCEPT !.veil = TRUE, !.jack = {"mode", "veil"}]
ChunkFails == "chunk" \in ui.jack /\ ui' = [ui EXCEPT !.jack = {}]
ModeTimer == /\ "mode" \in ui.jack
             /\ ui' = [ui EXCEPT !.mode = "immersive", !.jack = @ \ {"mode"}]
VeilTimer == /\ ui.jack = {"veil"}
             /\ ui' = [ui EXCEPT !.veil = FALSE, !.jack = {}]

\* frame(): the station at the camera gets the focus class.
Frame == /\ View.immersive
         /\ \E c \in Cards : c # ui.focused /\ ui' = [ui EXCEPT !.focused = c]

\* Mutant: the palette's preventDefault is not looked at.
constructKeyUnprevented(prevented, s) == s.shellInert
constructKeyBlocked(prevented, s) == prevented \/ s.shellInert

openBloom(u, el) ==
  [u EXCEPT !.slamT = None, !.slamming = None, !.bloomed = el, !.cls = {el},
            !.anim = [c \in Cards |-> IF c = el THEN "bloom" ELSE None],
            !.inert = Cards \ {el}, !.docLocked = TRUE, !.site = Focus(@, "card"),
            !.blooms = @ + 1, !.restless = @ \/ el \in u.once]
\* Mutant: the cards behind stay inert.
closeBloomKeepsInert(u) ==
  IF u.bloomed = None THEN u
  ELSE [u EXCEPT !.bloomed = None, !.slamming = u.bloomed, !.slamT = u.bloomed,
                 !.anim[u.bloomed] = "slam", !.once = @ \cup {u.bloomed},
                 !.docLocked = FALSE, !.site = Focus(@, "card")]
closeBloom(u) ==
  IF u.bloomed = None THEN u
  ELSE [u EXCEPT !.bloomed = None, !.slamming = u.bloomed, !.slamT = u.bloomed,
                 !.anim[u.bloomed] = "slam", !.once = @ \cup {u.bloomed}, !.inert = {},
                 !.docLocked = FALSE, !.site = Focus(@, "card")]
settleSlam(u, el) == [u EXCEPT !.slamT = None, !.cls = @ \ {el}, !.anim[el] = None,
                               !.slamming = IF @ = el THEN None ELSE @]

CanBloom == View.immersive /\ ui.helix /\ ui.bloomed = None /\ ui.focused # None
            /\ ui.blooms < MaxBlooms
\* A click on the focused card, or Enter unless a link or a button has the focus.
Click == CanBloom /\ ~ui.site.shellInert /\ ui' = openBloom(ui, ui.focused)
Enter == /\ CanBloom /\ ~constructKeyBlocked(FALSE, ui.site)
         /\ ui.site.focus # "page"
         /\ ui' = openBloom(ui, ui.focused)
Wheel == ui.bloomed # None /\ ui' = closeBloom(ui)
SlamTimer == ui.slamT # None /\ ui' = settleSlam(ui, ui.slamT)
AnimationEnd == \E c \in Cards :
  /\ ui.anim[c] # None
  /\ ui' = IF c \in ui.once THEN [settleSlam(ui, c) EXCEPT !.once = @ \ {c}]
           ELSE [ui EXCEPT !.anim[c] = None]

\* The bloom listens in the capture phase and stops the event; else the palette's
\* input has it, if it has the focus, and then the window's listener of the shell.
Escape ==
  LET u == [ui EXCEPT !.esc = ~@]
      captured == /\ View.immersive /\ ~constructKeyBlocked(FALSE, ui.site)
                  /\ ui.bloomed # None \/ ui.slamming # None
      prevented == ui.site.open /\ ui.site.focus = "palette"
      s == IF prevented THEN Dismissed(ui.site) ELSE ui.site
  IN ui' = IF captured THEN closeBloom(u)
           ELSE [u EXCEPT !.site = IF ui.site.route = "resume" /\ ~constructKeyBlocked(prevented, s)
                                   THEN Push(s, "home") ELSE s]

\* A navigation commits; leaving the page runs both components' cleanups.  That of the
\* cards clears the slam's timer before it closes the bloom, which starts another one:
\* it outlives the page, and settles a card that is gone.
Unmounted(u) == [Blank(closeBloom(u)) EXCEPT !.mode = "static", !.veil = FALSE, !.jack = {},
                                             !.site = u.site,
                                             !.stray = @ \/ u.bloomed # None]
StrayTimer == ui.stray /\ ui' = [ui EXCEPT !.stray = FALSE]
Navigate == /\ ui.site.nav # ""
            /\ LET u == IF ui.site.route = "resume" THEN Unmounted(ui) ELSE ui
               IN ui' = [u EXCEPT !.site = Commit(@),
                                  !.jack = IF ui.site.nav = "resume" /\ ~ui.reduce
                                           THEN {"chunk"} ELSE {}]

Answered == ChunkLoaded \/ ChunkFails \/ ModeTimer \/ VeilTimer \/ SlamTimer \/ AnimationEnd
            \/ Navigate \/ StrayTimer
Next == PaletteStep \/ Answered \/ Frame \/ Click \/ Enter \/ Wheel \/ Escape

\* The page is locked and the other cards are inert exactly while a card blooms, and
\* nothing stays locked behind on another route.
ModalContained ==
  /\ PaletteTraps /\ NoStaleWish
  /\ ui.docLocked = (ui.bloomed # None)
  /\ ui.inert = IF ui.bloomed = None THEN {} ELSE Cards \ {ui.bloomed}
  /\ ui.site.route # "resume" => ui.mode = "static" /\ ~ui.docLocked
\* The blooming card is drawn as the reading surface, unless it was opened again
\* before the listener of its slam was gone; only it and the slamming card are.
ShownIsCurrent ==
  /\ ui.bloomed # None /\ ~ui.restless => ui.bloomed \in View.surface
  /\ View.surface \subseteq {ui.bloomed, ui.slamming}
  /\ View.immersive => ui.site.route = "resume"
\* One Escape closes one layer: the palette, the bloom, or the page.
OneEscape ==
  ui'.esc # ui.esc =>
    Cardinality({x \in {"palette", "bloom", "page"} :
      \/ x = "palette" /\ ui.site.open /\ ~ui'.site.open
      \/ x = "bloom" /\ ui.bloomed # None /\ ui'.bloomed = None
      \/ x = "page" /\ ui.site.nav # ui'.site.nav}) <= 1
\* The veil lifts and a slam ends.
Waiting == ui.veil \/ ui.slamming # None
Idle == ui.jack = {} /\ ui.slamming = None
=============================================================================
