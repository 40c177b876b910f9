------------------------ MODULE ApiPlaygroundPanel -------------------------
(***************************************************************************)
(* The API playground (components/ApiPlaygroundPanel.tsx): one request at  *)
(* a time to an allowlisted endpoint, and a demo surface on which minting  *)
(* a token and paging through events by cursor share one busy flag.  The   *)
(* demo events are 1..Total, served PageSize at a time.                    *)
(***************************************************************************)
EXTENDS Integers, Sequences, FiniteSets

CONSTANTS
  Endpoints,       \* PLAYGROUND_ENDPOINTS: the paths
  Total,           \* the demo dataset's size
  PageSize         \* limit=10

VARIABLE ui

Refusals == {"401", "503", "429", "other"}
NoCursor == 0      \* null: a fresh fetch, and no further page

\* out: the endpoint asked ({}: none), demo: the demo request out, if any.
Init == ui = [mounted |-> TRUE, result |-> {}, active |-> {}, busy |-> FALSE, out |-> {},
              msg |-> "", token |-> FALSE, tokenMsg |-> "", events |-> <<>>,
              nextCursor |-> NoCursor, total |-> 0, demoBusy |-> FALSE, demo |-> {},
              demoMsg |-> ""]

View == [tabsEnabled |-> ~ui.busy,
         pressed     |-> ui.active,
         result      |-> ui.result,
         prompt      |-> ui.result = {},
         demoEnabled |-> ~ui.demoBusy,
         loadMore    |-> ui.nextCursor # NoCursor,
         token       |-> ui.token,
         list        |-> ui.events,
         endOfList   |-> ui.events # <<>> /\ ui.nextCursor = NoCursor]

run(ep) == IF ui.busy THEN UNCHANGED ui
           ELSE ui' = [ui EXCEPT !.busy = TRUE, !.active = {ep}, !.out = {ep}, !.msg = ""]
ClickTab == ui.mounted /\ View.tabsEnabled /\ \E ep \in Endpoints : run(ep)
\* Any status is a result: its body is formatted, cut and shown.
OnResult == \E ep \in ui.out :
  ui' = IF ~ui.mounted THEN [ui EXCEPT !.out = {}]
        ELSE [ui EXCEPT !.out = {}, !.busy = FALSE, !.result = {ep}, !.msg = "answered"]
OnFailure == \E ep \in ui.out :
  ui' = IF ~ui.mounted THEN [ui EXCEPT !.out = {}]
        ELSE [ui EXCEPT !.out = {}, !.busy = FALSE, !.result = {}, !.active = {},
                        !.msg = "core unreachable"]

mintToken == IF ui.demoBusy THEN UNCHANGED ui
             ELSE ui' = [ui EXCEPT !.demoBusy = TRUE, !.tokenMsg = "", !.demo = {[op |-> "mint"]}]
fetchEvents(cursor, append) ==
  IF ui.demoBusy THEN UNCHANGED ui
  ELSE ui' = [ui EXCEPT !.demoBusy = TRUE, !.demoMsg = "",
                        !.demo = {[op |-> "page", cursor |-> cursor, append |-> append]}]
ClickDemo == /\ ui.mounted /\ View.demoEnabled
             /\ \/ mintToken
                \/ fetchEvents(NoCursor, FALSE)
                \/ View.loadMore /\ fetchEvents(ui.nextCursor, TRUE)

OnMinted == \E q \in ui.demo :
  /\ q.op = "mint"
  /\ \E a \in {"minted"} \cup (Refusals \ {"401"}) \cup {"core unreachable"} :
       ui' = IF ~ui.mounted THEN [ui EXCEPT !.demo = {}]
             ELSE [ui EXCEPT !.demo = {}, !.demoBusy = FALSE, !.tokenMsg = a,
                             !.token = @ \/ a = "minted"]
\* The page after a cursor: the events that follow it, and the next cursor.
Page(cursor) ==
  LET last == IF cursor + PageSize < Total THEN cursor + PageSize ELSE Total
  IN [items |-> [i \in 1..(last - cursor) |-> cursor + i],
      nextCursor |-> IF last < Total THEN last ELSE NoCursor]
OnPage == \E q \in ui.demo :
  /\ q.op = "page" /\ ui.token
  /\ LET p == Page(q.cursor)
     IN ui' = IF ~ui.mounted THEN [ui EXCEPT !.demo = {}]
              ELSE [ui EXCEPT !.demo = {}, !.demoBusy = FALSE,
                              !.events = IF q.append THEN @ \o p.items ELSE p.items,
                              !.nextCursor = p.nextCursor, !.total = Total,
                              !.demoMsg = IF q.append THEN "loaded more" ELSE "showing"]
\* Without a token, or with an expired one, the answer is a 401.
OnPageRefused == \E q \in ui.demo :
  /\ q.op = "page"
  /\ \E a \in Refusals \cup {"core unreachable"} :
       ui' = IF ~ui.mounted THEN [ui EXCEPT !.demo = {}]
             ELSE [ui EXCEPT !.demo = {}, !.demoBusy = FALSE, !.demoMsg = a]

Unmount == ui.mounted /\ ui' = [ui EXCEPT !.mounted = FALSE]

Answered == OnResult \/ OnFailure \/ OnMinted \/ OnPage \/ OnPageRefused
Next == Answered \/ ClickTab \/ ClickDemo \/ Unmount

\* Once its answer is there, the result on screen is the pressed tab's.  The list
\* is the dataset from its start, without gap or repetition, and "load more" is
\* offered exactly while some of it is missing.
ShownIsCurrent ==
  /\ ui.mounted /\ ~ui.busy => View.result = View.pressed
  /\ \A i \in 1..Len(ui.events) : ui.events[i] = i
  /\ ui.events # <<>> => View.loadMore = (Len(ui.events) < ui.total)
Idle == ui.out = {} /\ ui.demo = {}
=============================================================================
