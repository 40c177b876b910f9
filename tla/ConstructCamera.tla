--------------------------- MODULE ConstructCamera --------------------------
(***************************************************************************)
(* The camera of the immersive résumé (resume/Immersive.tsx with           *)
(* data/construct-stations.ts): where the stations stand, how resizes and  *)
(* cards of changing height move them, the chase of the scroll position,   *)
(* that of the helix after it, and the station in focus.  Lengths are      *)
(* small integers, the place on the helix is counted in quarters of a      *)
(* station; a damped chase goes half of the way each frame, whatever the   *)
(* station's own pace.  The poses of the cards, which follow from the      *)
(* camera and change nothing, are left out.                                *)
(***************************************************************************)
EXTENDS Integers, Sequences

CONSTANTS
  Gaps,       \* gapBefore of each station as configured, 0 where it is not
  Heights,    \* heights a card may have
  Viewports,  \* heights of the window
  Scrolls,    \* scroll positions considered
  HelixFrom   \* stations a helix needs (4)

VARIABLE ui

N == Len(Gaps)
Stations == 1..N
Larger(a, b) == IF a > b THEN a ELSE b
Distance(a, b) == Larger(a - b, b - a)

\* stationOffsets: cumulative, a gap that is not positive counting as 1.
stationOffsets ==
  LET off[i \in Stations] == IF i = 1 THEN 0 ELSE off[i - 1] + (IF Gaps[i] > 0 THEN Gaps[i] ELSE 1)
  IN off
\* ELEVATOR_SPAN_COARSE is 0.7, the breathing room after a tall card 0.22 viewports,
\* rounded.
Span(coarse, vh) == IF coarse THEN (7 * vh) \div 10 ELSE vh
stationPxPositions(h, coarse, vh) ==
  LET px[i \in Stations] ==
        IF i = 1 THEN 0
        ELSE px[i - 1] + IF coarse THEN Larger(Span(coarse, vh), h[i - 1] + (22 * vh + 50) \div 100)
                         ELSE (stationOffsets[i] - stationOffsets[i - 1]) * vh
  IN px
\* nearestStation: the first of those at the least distance.
nearestStation(px, pos) ==
  CHOOSE i \in Stations : /\ \A j \in Stations : Distance(px[i], pos) <= Distance(px[j], pos)
                          /\ \A j \in 1..(i - 1) : Distance(px[j], pos) > Distance(px[i], pos)
\* The last station whose top is not below pos.
lastAbove(px, pos) == CHOOSE i \in Stations : /\ i = 1 \/ px[i] <= pos
                                              /\ i = N \/ pos < px[i + 1]
\* The card whose top the reading line, 0.4 viewports down, has crossed last.
underLine(px, cam, vh) == lastAbove(px, cam + (4 * vh) \div 10)
\* The place on the helix, in quarters of a station: as far between two stations as
\* pos is between their tops.
camIndexOf(px, pos) ==
  LET i == lastAbove(px, pos)
  IN 4 * i + IF i = N THEN 0 ELSE (4 * (pos - px[i])) \div (px[i + 1] - px[i])
\* One frame of a chase.
Chase(from, to) == from + IF to >= from THEN (to - from + 1) \div 2 ELSE -((from - to + 1) \div 2)

\* height: what the cards measure; inner: innerHeight; lastH: the size of the last
\* layout(); px, spacer: what the closure computed from them.  observed: the
\* ResizeObserver has nothing to deliver; debounce: a resize timer is pending;
\* wide: the width changed since the last layout().  helix: a fine pointer, a fast
\* machine and enough stations.  jumped: the station last jumped to, while nothing
\* has moved since (history).
Init == \E coarse, helix \in BOOLEAN, vh \in Viewports, h \in [Stations -> Heights] :
  LET px == stationPxPositions(h, coarse, vh)
  IN /\ helix => ~coarse /\ N >= HelixFrom
     /\ ui = [mounted |-> TRUE, coarse |-> coarse, helix |-> helix, vh |-> vh, inner |-> vh,
              lastH |-> vh, height |-> h, px |-> px, spacer |-> px[N] + Span(coarse, vh),
              observed |-> TRUE, debounce |-> FALSE, wide |-> FALSE, scroll |-> 0, cam |-> 0,
              camIdx |-> camIndexOf(px, 0), focused |-> 0, jumped |-> 0]

Scroll == ui.mounted /\ \E y \in Scrolls : ui' = [ui EXCEPT !.scroll = y, !.jumped = 0]
\* Tabbing to a card (fine pointers), and the ?station= link of ConstructShell, which
\* multiplies the offset by innerHeight whatever the span is.
onFocusIn == /\ ui.mounted /\ ~ui.coarse
             /\ \E i \in Stations : ui' = [ui EXCEPT !.scroll = ui.px[i], !.jumped = i]
DeepLink == /\ ui.mounted
            /\ \E i \in Stations : ui' = [ui EXCEPT !.scroll = stationOffsets[i] * ui.inner,
                                                    !.jumped = i]

\* The toolbars, a rotation, a card whose text rewraps.
Resize == /\ ui.mounted
          /\ \E h \in Viewports, turned \in BOOLEAN :
               ui' = [ui EXCEPT !.inner = h, !.wide = @ \/ turned, !.debounce = TRUE,
                                !.jumped = 0]
Rewrap == /\ ui.mounted
          /\ \E i \in Stations, h \in Heights :
               ui' = [ui EXCEPT !.height[i] = h, !.observed = FALSE]

\* Mutant: toolbars that come and go change vh on touch as well.
layoutAlways ==
  /\ ui.debounce
  /\ LET u  == [ui EXCEPT !.debounce = FALSE, !.wide = FALSE, !.lastH = ui.inner]
         px == stationPxPositions(ui.height, ui.coarse, ui.inner)
     IN ui' = IF ~ui.wide /\ ui.inner = ui.lastH THEN [ui EXCEPT !.debounce = FALSE]
              ELSE [u EXCEPT !.vh = ui.inner, !.px = px, !.jumped = 0,
                             !.spacer = px[N] + Span(ui.coarse, ui.inner)]
\* On touch a change of the height alone only ever raises vh.
layout ==
  /\ ui.debounce
  /\ LET u  == [ui EXCEPT !.debounce = FALSE, !.wide = FALSE, !.lastH = ui.inner]
         px == stationPxPositions(ui.height, ui.coarse, ui.inner)
     IN ui' = IF ~ui.wide /\ ui.inner = ui.lastH THEN [ui EXCEPT !.debounce = FALSE]
              ELSE IF ui.coarse /\ ~ui.wide /\ ui.inner <= ui.vh THEN u
              ELSE [u EXCEPT !.vh = ui.inner, !.px = px, !.jumped = 0,
                             !.spacer = px[N] + Span(ui.coarse, ui.inner)]
\* The stations move when one of them would by more than a pixel.
ObserverFires ==
  /\ ui.mounted /\ ~ui.observed
  /\ LET px == stationPxPositions(ui.height, ui.coarse, ui.vh)
         u  == [ui EXCEPT !.observed = TRUE]
     IN ui' = IF \A i \in Stations : Distance(px[i], ui.px[i]) <= 1 THEN u
              ELSE [u EXCEPT !.px = px, !.jumped = 0, !.spacer = px[N] + Span(ui.coarse, ui.vh)]

\* The card in focus with the camera there: on touch the one under the line, else the
\* nearest one if it is less than half a station away, in pixels or on the helix.
InFocus(cam, camIdx) ==
  LET near == nearestStation(ui.px, cam)
  IN IF ui.coarse THEN underLine(ui.px, cam, ui.vh)
     ELSE IF ui.helix /\ 2 * Distance(4 * near, camIdx) < 4 THEN near
     ELSE IF ~ui.helix /\ 2 * Distance(ui.px[near], cam) < ui.vh THEN near
     ELSE ui.focused
\* One animation frame: the camera, the helix after it, then the focus.
frame ==
  /\ ui.mounted
  /\ LET cam    == Chase(ui.cam, ui.scroll)
         camIdx == IF ui.helix THEN Chase(ui.camIdx, camIndexOf(ui.px, cam)) ELSE ui.camIdx
     IN ui' = [ui EXCEPT !.cam = cam, !.camIdx = camIdx, !.focused = InFocus(cam, camIdx)]
Unmount == ui.mounted /\ ui' = [ui EXCEPT !.mounted = FALSE, !.debounce = FALSE]

Answered == layout \/ ObserverFires \/ frame
Next == Scroll \/ onFocusIn \/ DeepLink \/ Resize \/ Rewrap \/ Answered \/ Unmount

Settled == ui.mounted /\ ui.observed /\ ~ui.debounce
\* The geometry in use is that of the cards as measured, to a pixel, and the page is
\* exactly as long as it takes to bring the last station to the top.
StationsCurrent ==
  /\ ui.observed => \A i \in Stations :
       Distance(stationPxPositions(ui.height, ui.coarse, ui.vh)[i], ui.px[i]) <= 1
  /\ ui.spacer = ui.px[N] + Span(ui.coarse, ui.vh)
\* On touch no card reaches into the next one once its height has been observed.
NoOverlap == ui.coarse /\ ui.observed =>
  \A i \in 1..(N - 1) : ui.px[i] + ui.height[i] < ui.px[i + 1]
\* With a fine pointer a jump to a station puts it at the top and, once the camera and
\* the helix have arrived, in focus.
Arrived == /\ ui.cam = ui.scroll
           /\ ui.helix => ui.camIdx = camIndexOf(ui.px, ui.cam)
JumpLands == ~ui.coarse /\ Settled /\ ui.jumped # 0 =>
  /\ ui.scroll = ui.px[ui.jumped]
  /\ Arrived => InFocus(ui.cam, ui.camIdx) = ui.jumped
ShownIsCurrent == StationsCurrent /\ NoOverlap /\ JumpLands
\* On touch the viewport in use shrinks only when the device is turned.
SnapshotsForward == ui.coarse /\ ui'.vh < ui.vh => ui.wide
Idle == ~ui.debounce
=============================================================================
