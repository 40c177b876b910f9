------------------------- MODULE WebTabShownProofs --------------------------
(***************************************************************************)
(* Proofs about a browser tab, continued: what is on screen is about what  *)
(* it claims to be about (ShownIsCurrent), and nothing runs twice or is    *)
(* left running (LoopsMatch).  Each component of WebTab has an invariant   *)
(* over the record u of its state, with three lemmas: the initial states   *)
(* have it, every action keeps it, and it implies what the component       *)
(* promises.  Those of the components with readings and of the layered     *)
(* ones are in WebTabProofs.  TabInv joins them by the case distinction    *)
(* that WebTab makes over its panels.                                      *)
(***************************************************************************)
EXTENDS WebTabProofs

-----------------------------------------------------------------------------
(* The load panel.  The one stream open is that of the run on screen.      *)

LoadState ==
  [mounted : BOOLEAN, c : Int, running : BOOLEAN, run : Int, es : SUBSET Int, hist : Int,
   msg : {"", "couldn't run"}, doneMsg : {"", "run stopped", "done"}, finished : BOOLEAN]
LoadStreams(u) == u.es = IF u.mounted /\ u.running THEN {u.run} ELSE {}
LoadSaid(u) == /\ u.doneMsg = "done" => u.hist = u.run /\ ~u.running
               /\ u.msg = "couldn't run" => ~u.running
LoadOk(u) == u \in LoadState /\ LoadStreams(u) /\ u.hist \in {0, u.run} /\ LoadSaid(u)

LEMMA LoadClamps == \A v \in Int : Load!clamp(v, 1, 3) \in Int
  BY DEF Load!clamp

LEMMA LoadInit == Load!Init => LoadOk(ui)
  <1> SUFFICES ASSUME Load!Init PROVE LoadOk(ui)
    OBVIOUS
  <1>1. {} \in SUBSET Int
    OBVIOUS
  <1>2. /\ ui \in LoadState /\ LoadSaid(ui)
        /\ ui.es = {} /\ ~ui.running /\ ui.hist = 0
    BY <1>1, Zero, Three, Zenon DEF Load!Init, LoadState, LoadSaid
  <1>3. QED
    BY <1>2, Zenon DEF LoadOk, LoadStreams

LEMMA LoadStep == LoadOk(ui) /\ Load!Next => LoadOk(ui')
  <1> SUFFICES ASSUME LoadOk(ui), Load!Next PROVE LoadOk(ui')
    OBVIOUS
  <1>0. /\ ui \in LoadState /\ LoadStreams(ui) /\ LoadSaid(ui) /\ ui.hist \in {0, ui.run}
        /\ ui.run \in Int /\ ui.es \in SUBSET Int /\ ui.hist \in Int /\ ui.c \in Int
        /\ ui.finished \in BOOLEAN /\ ui.mounted \in BOOLEAN /\ ui.running \in BOOLEAN
        /\ {} \in SUBSET Int
    BY Zenon DEF LoadOk, LoadState
  <1>1. ASSUME NEW r \in ui.es PROVE r = ui.run /\ ui.mounted /\ ui.running /\ ui.es = {r}
    BY <1>0, <1>1, Zenon DEF LoadStreams
  <1>2. CASE Load!SetC
    <2>1. PICK c \in Int : ui' = [ui EXCEPT !.c = c]
      <3>1. Load!Typed \subseteq Int
        BY DEF Load!Typed
      <3>2. QED
        BY <1>2, <3>1, LoadClamps, Zenon DEF Load!SetC
    <2>2. QED
      BY <1>0, <2>1, Zenon DEF LoadOk, LoadState, LoadStreams, LoadSaid
  <1>3. CASE ui.mounted /\ Load!stop
    <2>1. ui' \in LoadState /\ ui'.hist = ui.hist /\ ui'.run = ui.run /\ ~ui'.running
          /\ ui'.es = ui.es \ {ui.run} /\ ui'.msg = ui.msg
          /\ ui'.doneMsg = IF ui.finished THEN ui.doneMsg ELSE "run stopped"
      <3>1. ui.es \ {ui.run} \in SUBSET Int
        BY <1>0
      <3>2. PICK d \in {"", "run stopped", "done"} :
              d = IF ui.finished THEN ui.doneMsg ELSE "run stopped"
        BY <1>0, Zenon DEF LoadState
      <3>3. PICK es \in SUBSET Int : es = ui.es \ {ui.run}
        BY <3>1
      <3>4. ui' = [ui EXCEPT !.es = es, !.running = FALSE, !.doneMsg = d]
        BY <1>0, <1>3, <3>2, <3>3, Zenon DEF Load!stop, LoadState
      <3>5. QED
        BY <1>0, <3>2, <3>3, <3>4, Zenon DEF LoadState
    <2>2. ui'.es = {}
      BY <1>0, <2>1, Zenon DEF LoadStreams
    <2>3. LoadSaid(ui')
      <3>1. "run stopped" # "done"
        BY Zenon
      <3>2. ui'.doneMsg = "done" => ui.doneMsg = "done"
        BY <2>1, <3>1, Zenon
      <3>3. QED
        BY <1>0, <2>1, <3>2, Zenon DEF LoadSaid
    <2>4. QED
      BY <1>0, <2>1, <2>2, <2>3, Zenon DEF LoadOk, LoadStreams
  <1>4. CASE ui.mounted /\ Load!start
    <2>1. PICK n \in Int, c \in Int : n = ui.run + 1 /\ c = Load!clamp(ui.c, 1, 3)
      BY <1>0, LoadClamps
    <2>2. ui.es = {} /\ ~ui.running
      BY <1>0, <1>4, Zenon DEF LoadStreams, Load!start
    <2>3. {n} \in SUBSET Int
      BY <2>1
    <2>4. ui' = [ui EXCEPT !.run = n, !.es = {n}, !.running = TRUE, !.c = c, !.hist = 0,
                           !.msg = "", !.doneMsg = "", !.finished = FALSE]
      <3>1. {} \cup {n} = {n}
        OBVIOUS
      <3>2. QED
        BY <1>0, <1>4, <2>1, <2>2, <3>1, Zenon DEF Load!start, LoadState
    <2>5. /\ ui' \in LoadState /\ ui'.hist = 0 /\ ui'.run = n /\ ui'.running /\ ui'.es = {n}
          /\ ui'.mounted = ui.mounted /\ LoadSaid(ui')
      BY <1>0, <2>1, <2>3, <2>4, Zero, Zenon DEF LoadState, LoadSaid
    <2>6. QED
      BY <1>4, <2>5, Zenon DEF LoadOk, LoadStreams
  <1>5. CASE Load!Frame
    <2>1. PICK r \in ui.es, parses \in BOOLEAN :
            ui' = [ui EXCEPT !.hist = IF parses THEN r ELSE @]
      BY <1>5, Zenon DEF Load!Frame, Load!OnHistogram
    <2>2. r = ui.run /\ ui.running /\ ui.mounted
      BY <1>1
    <2>3. PICK h \in Int : h = IF parses THEN ui.run ELSE ui.hist
      BY <1>0
    <2>4. ui' = [ui EXCEPT !.hist = h]
      BY <1>0, <2>1, <2>2, <2>3, Zenon DEF LoadState
    <2>5. ui' \in LoadState /\ ui'.hist = h /\ ui'.run = ui.run /\ ui'.running = ui.running
          /\ ui'.es = ui.es /\ ui'.mounted = ui.mounted /\ ui'.msg = ui.msg
          /\ ui'.doneMsg = ui.doneMsg
      BY <1>0, <2>3, <2>4, Zenon DEF LoadState
    <2>6. LoadSaid(ui') /\ ui'.hist \in {0, ui'.run}
      BY <1>0, <2>2, <2>3, <2>5, Zenon DEF LoadSaid
    <2>7. QED
      BY <1>0, <2>5, <2>6, Zenon DEF LoadOk, LoadStreams
  <1>6. CASE Load!End
    <2>1. PICK r \in ui.es : Load!OnDone(r) \/ Load!OnError(r)
      BY <1>6, Zenon DEF Load!End
    <2>2. r = ui.run /\ ui.running /\ ui.mounted /\ ui.es \ {r} = {}
      BY <1>1
    <2>3. CASE Load!OnDone(r)
      <3>1. PICK parses \in BOOLEAN :
              ui' = [ui EXCEPT !.finished = TRUE, !.es = {}, !.running = FALSE,
                               !.hist = IF parses THEN r ELSE @,
                               !.doneMsg = IF parses THEN "done" ELSE @]
        BY <1>0, <2>2, <2>3, Zenon DEF Load!OnDone, LoadState
      <3>2. PICK h \in Int : h = IF parses THEN ui.run ELSE ui.hist
        BY <1>0
      <3>3. PICK d \in {"", "run stopped", "done"} : d = IF parses THEN "done" ELSE ui.doneMsg
        BY <1>0, Zenon DEF LoadState
      <3>4. ui' = [ui EXCEPT !.finished = TRUE, !.es = {}, !.running = FALSE, !.hist = h,
                             !.doneMsg = d]
        BY <1>0, <2>2, <3>1, <3>2, <3>3, Zenon DEF LoadState
      <3>5. ui' \in LoadState /\ ui'.hist = h /\ ui'.run = ui.run /\ ~ui'.running
            /\ ui'.es = {} /\ ui'.doneMsg = d
        BY <1>0, <3>2, <3>3, <3>4, Zenon DEF LoadState
      <3>6. LoadSaid(ui') /\ ui'.hist \in {0, ui'.run}
        <4>1. parses => ui'.hist = ui'.run
          BY <3>2, <3>5, Zenon
        <4>2. ~parses => ui'.doneMsg = ui.doneMsg
          BY <3>3, <3>5, Zenon
        <4>3. ~(ui.doneMsg = "done")
          BY <1>0, <2>2, Zenon DEF LoadSaid
        <4>4. QED
          BY <1>0, <3>2, <3>5, <4>1, <4>2, <4>3, Zenon DEF LoadSaid
      <3>7. QED
        BY <3>5, <3>6, Zenon DEF LoadOk, LoadStreams
    <2>4. CASE Load!OnError(r)
      <3>1. ui' = [ui EXCEPT !.msg = "couldn't run", !.es = {}, !.running = FALSE]
        BY <1>0, <2>2, <2>4, Zenon DEF Load!OnError, LoadState
      <3>2. ui' \in LoadState /\ ui'.hist = ui.hist /\ ui'.run = ui.run /\ ~ui'.running
            /\ ui'.es = {} /\ ui'.doneMsg = ui.doneMsg
        BY <1>0, <3>1, Zenon DEF LoadState
      <3>3. LoadSaid(ui')
        BY <1>0, <3>2, Zenon DEF LoadSaid
      <3>4. QED
        BY <1>0, <3>2, <3>3, Zenon DEF LoadOk, LoadStreams
    <2>5. QED
      BY <2>1, <2>3, <2>4
  <1>7. CASE Load!Unmount
    <2>1. ui.es \ {ui.run} = {}
      BY <1>0 DEF LoadStreams
    <2>2. ui' = [ui EXCEPT !.mounted = FALSE, !.es = {}]
      BY <1>0, <1>7, <2>1, Zenon DEF Load!Unmount, LoadState
    <2>3. ui' \in LoadState /\ ui'.hist = ui.hist /\ ui'.run = ui.run /\ ~ui'.mounted
          /\ ui'.es = {} /\ ui'.doneMsg = ui.doneMsg /\ ui'.running = ui.running
          /\ ui'.msg = ui.msg
      BY <1>0, <2>2, Zenon DEF LoadState
    <2>4. QED
      BY <1>0, <2>3, Zenon DEF LoadOk, LoadStreams, LoadSaid
  <1>8. QED
    BY <1>2, <1>3, <1>4, <1>5, <1>6, <1>7, Zenon DEF Load!Next, Load!Click

LEMMA LoadShown == LoadOk(ui) => Load!StreamsMatch /\ Load!ShownIsCurrent
  <1> SUFFICES ASSUME LoadOk(ui) PROVE Load!StreamsMatch /\ Load!ShownIsCurrent
    OBVIOUS
  <1>1. "done" # "couldn't run" /\ "done" # "" /\ "run stopped" # "done"
        /\ "run stopped" # "couldn't run" /\ "couldn't run" # ""
    BY Zenon
  <1>2. /\ Load!View.line = "done" => ui.doneMsg = "done"
        /\ Load!View.line = "couldn't run" => ui.msg = "couldn't run"
    <2>1. Load!View.line = IF ui.doneMsg # "" THEN ui.doneMsg ELSE ui.msg
      BY Zenon DEF Load!View
    <2>2. ui.doneMsg \in {"", "run stopped", "done"} /\ ui.msg \in {"", "couldn't run"}
      BY Zenon DEF LoadOk, LoadState
    <2>3. QED
      BY <1>1, <2>1, <2>2, Zenon
  <1>3. QED
    BY <1>2, Zenon DEF LoadOk, LoadStreams, LoadSaid, Load!StreamsMatch, Load!ShownIsCurrent

-----------------------------------------------------------------------------
(* The event log of the lab.  There is one live EventSource, or one timer  *)
(* that will open one.                                                     *)

EventsState ==
  [mounted : BOOLEAN, es : {"null", "CONNECTING", "OPEN"}, timers : Int, hadError : BOOLEAN,
   backoff : Int, status : {"", "severed", "restored"}, rows : Seq(Int), last : Int]
EventsLinks(u) ==
  /\ ~u.mounted => u.es = "null" /\ u.timers = 0
  /\ u.mounted => u.timers = IF u.es = "null" THEN 1 ELSE 0
EventsSaid(u) == u.status = "severed" => u.hadError /\ u.es # "OPEN"
EventsRows(u) == \A i \in 1..Len(u.rows) :
                   u.rows[i] <= u.last /\ (i > 1 => u.rows[i] < u.rows[i - 1])
EventsOk(u) == u \in EventsState /\ EventsLinks(u) /\ EventsSaid(u) /\ EventsRows(u)

LEMMA EmptySeq == ASSUME NEW S PROVE <<>> \in Seq(S) /\ Len(<<>>) = 0
  OBVIOUS

\* A row is put on top of the log, and the oldest may be dropped.
LEMMA RowOnTop ==
  ASSUME NEW s \in Seq(Int), NEW m \in Int, NEW k \in 1..(Len(s) + 1),
         NEW t, t = SubSeq(<<m>> \o s, 1, k)
  PROVE  /\ t \in Seq(Int) /\ Len(t) = k /\ t[1] = m
         /\ \A i \in 2..k : t[i] = s[i - 1]
  <1>1. PICK c : c = <<m>> \o s
    OBVIOUS
  <1>2. /\ c \in Seq(Int) /\ Len(c) = Len(s) + 1
        /\ \A i \in 1..Len(c) : c[i] = IF i = 1 THEN m ELSE s[i - 1]
    BY <1>1
  <1>3. t \in Seq(Int) /\ Len(t) = k /\ \A i \in 1..k : t[i] = c[i]
    BY <1>1, <1>2
  <1>4. QED
    BY <1>2, <1>3

LEMMA EventsInit == Events!Init => EventsOk(ui)
  <1> SUFFICES ASSUME Events!Init PROVE EventsOk(ui)
    OBVIOUS
  <1>1. /\ ui \in EventsState /\ EventsSaid(ui)
        /\ ui.mounted /\ ui.es = "CONNECTING" /\ ui.timers = 0 /\ ui.rows = <<>>
    BY EmptySeq, Zero, Three, Zenon DEF Events!Init, EventsState, EventsSaid
  <1>2. EventsLinks(ui) /\ EventsRows(ui)
    BY <1>1 DEF EventsLinks, EventsRows
  <1>3. QED
    BY <1>1, <1>2, Zenon DEF EventsOk

\* A proof that the link is up.
LEMMA EventsRestored ==
  ASSUME NEW u \in EventsState
  PROVE  LET v == Events!restored(u)
         IN /\ v \in EventsState /\ v.mounted = u.mounted /\ v.es = u.es
            /\ v.timers = u.timers /\ v.rows = u.rows /\ v.last = u.last
            /\ (u.status = "severed" => u.hadError) => v.status # "severed"
  <1>1. PICK st : st = IF u.hadError THEN "restored" ELSE u.status
    OBVIOUS
  <1>2. st \in {"", "severed", "restored"} /\ u.hadError \in BOOLEAN
    BY <1>1, Zenon DEF EventsState
  <1>3. PICK v : v = [u EXCEPT !.backoff = 3, !.hadError = FALSE, !.status = st]
    OBVIOUS
  <1>4. v = Events!restored(u)
    BY <1>1, <1>3, Zenon DEF Events!restored, EventsState
  <1>5. /\ v \in EventsState /\ v.mounted = u.mounted /\ v.es = u.es
        /\ v.timers = u.timers /\ v.rows = u.rows /\ v.last = u.last /\ v.status = st
    BY <1>2, <1>3, Three, Zenon DEF EventsState
  <1>6. (u.status = "severed" => u.hadError) => st # "severed"
    <2>1. "restored" # "severed"
      OBVIOUS
    <2>2. QED
      BY <1>1, <1>2, <2>1, Zenon
  <1>7. QED
    BY <1>4, <1>5, <1>6, Zenon

LEMMA EventsStep == EventsOk(ui) /\ Events!Next => EventsOk(ui')
  <1> SUFFICES ASSUME EventsOk(ui), Events!Next PROVE EventsOk(ui')
    OBVIOUS
  <1>0. /\ ui \in EventsState /\ EventsLinks(ui) /\ EventsSaid(ui) /\ EventsRows(ui)
        /\ ui.timers \in Int /\ ui.backoff \in Int /\ ui.last \in Int /\ ui.rows \in Seq(Int)
    BY Zenon DEF EventsOk, EventsState
  <1>1. CASE Events!open
    <2>1. PICK n \in Int : n = ui.timers - 1
      BY <1>0
    <2>2. ui.mounted /\ ui.es = "null" /\ n = 0
      BY <1>0, <1>1, <2>1 DEF EventsLinks, Events!open
    <2>3. ui' = [ui EXCEPT !.timers = n, !.es = "CONNECTING"]
      BY <1>0, <1>1, <2>1, <2>2, Zenon DEF Events!open, EventsState
    <2>4. /\ ui' \in EventsState /\ ui'.mounted /\ ui'.es = "CONNECTING" /\ ui'.timers = n
          /\ ui'.rows = ui.rows /\ ui'.last = ui.last /\ ui'.status = ui.status
          /\ ui'.hadError = ui.hadError
      BY <1>0, <2>1, <2>2, <2>3, Zenon DEF EventsState
    <2>5. EventsLinks(ui') /\ EventsSaid(ui') /\ EventsRows(ui')
      BY <1>0, <2>2, <2>4 DEF EventsLinks, EventsSaid, EventsRows
    <2>6. QED
      BY <2>4, <2>5, Zenon DEF EventsOk
  <1>2. CASE Events!OnOpen
    <2>1. PICK u : u = [ui EXCEPT !.es = "OPEN"]
      OBVIOUS
    <2>2. /\ u \in EventsState /\ u.mounted = ui.mounted /\ u.es = "OPEN"
          /\ u.timers = ui.timers /\ u.rows = ui.rows /\ u.last = ui.last
          /\ u.status = ui.status /\ u.hadError = ui.hadError
      BY <1>0, <2>1, Zenon DEF EventsState
    <2>3. ui' = Events!restored(u) /\ ui.es = "CONNECTING"
      BY <1>2, <2>1, Zenon DEF Events!OnOpen
    <2>4. u.status = "severed" => u.hadError
      BY <1>0, <2>2 DEF EventsSaid
    <2>5. /\ ui' \in EventsState /\ ui'.mounted = u.mounted /\ ui'.es = u.es
          /\ ui'.timers = u.timers /\ ui'.rows = u.rows /\ ui'.last = u.last
          /\ ui'.status # "severed"
      BY <2>2, <2>3, <2>4, EventsRestored
    <2>6. EventsLinks(ui') /\ EventsSaid(ui') /\ EventsRows(ui')
      BY <1>0, <2>2, <2>3, <2>5 DEF EventsLinks, EventsSaid, EventsRows
    <2>7. QED
      BY <2>5, <2>6, Zenon DEF EventsOk
  <1>3. CASE Events!Lab
    <2>1. PICK shown \in BOOLEAN : Events!OnLab(shown)
      BY <1>3, Zenon DEF Events!Lab
    <2>2. PICK u : u = Events!restored(ui)
      OBVIOUS
    <2>3. ui.es = "OPEN" /\ (ui.status = "severed" => ui.hadError)
      BY <1>0, <2>1 DEF EventsSaid, Events!OnLab
    <2>4. /\ u \in EventsState /\ u.mounted = ui.mounted /\ u.es = ui.es
          /\ u.timers = ui.timers /\ u.rows = ui.rows /\ u.last = ui.last
          /\ u.status # "severed"
      BY <1>0, <2>2, <2>3, EventsRestored
    <2>5. PICK k \in 1..(Len(ui.rows) + 1) :
            k = IF Len(ui.rows) < 2 THEN Len(ui.rows) + 1 ELSE 2
      BY <1>0
    <2>6. PICK m \in Int : m = ui.last + 1
      BY <1>0
    <2>7. PICK t : t = SubSeq(<<m>> \o ui.rows, 1, k)
      OBVIOUS
    <2>8. /\ t \in Seq(Int) /\ Len(t) = k /\ t[1] = m
          /\ \A i \in 2..k : t[i] = ui.rows[i - 1]
      BY <1>0, <2>5, <2>6, <2>7, RowOnTop
    <2>9. PICK rows, last : /\ rows = IF shown THEN t ELSE ui.rows
                            /\ last = IF shown THEN m ELSE ui.last
      OBVIOUS
    <2>10. rows \in Seq(Int) /\ last \in Int
      BY <1>0, <2>6, <2>8, <2>9
    <2>11. ui' = [u EXCEPT !.rows = rows, !.last = last]
      BY <2>1, <2>2, <2>4, <2>5, <2>6, <2>7, <2>9, Zenon DEF Events!OnLab, EventsState
    <2>12. /\ ui' \in EventsState /\ ui'.mounted = ui.mounted /\ ui'.es = ui.es
           /\ ui'.timers = ui.timers /\ ui'.rows = rows /\ ui'.last = last
           /\ ui'.status # "severed"
      BY <2>4, <2>10, <2>11, Zenon DEF EventsState
    <2>13. EventsRows(ui')
      <3>1. CASE shown
        <4>1. \A i \in 1..k : t[i] <= m /\ (i > 1 => t[i] < t[i - 1])
          <5>1. SUFFICES ASSUME NEW i \in 1..k PROVE t[i] <= m /\ (i > 1 => t[i] < t[i - 1])
            OBVIOUS
          <5>2. CASE i = 1
            BY <2>6, <2>8, <5>2
          <5>3. CASE i = 2
            <6>1. 2 \in 2..k /\ 1 \in 1..Len(ui.rows)
              BY <1>0, <2>5, <5>1, <5>3
            <6>2. t[2] = ui.rows[1]
              BY <2>8, <6>1
            <6>3. ui.rows[1] <= ui.last
              BY <1>0, <6>1, Zenon DEF EventsRows
            <6>4. ui.rows[1] \in Int
              BY <1>0, <6>1
            <6>5. QED
              BY <1>0, <2>6, <2>8, <5>3, <6>2, <6>3, <6>4
          <5>4. CASE i > 2
            <6>1. i \in 2..k /\ i - 1 \in 2..k
              BY <2>5, <5>1, <5>4
            <6>2. i - 1 \in 1..Len(ui.rows) /\ i - 1 > 1 /\ i - 2 \in 1..Len(ui.rows)
              BY <1>0, <2>5, <5>1, <5>4
            <6>3. t[i] = ui.rows[i - 1] /\ t[i - 1] = ui.rows[i - 2]
              BY <2>5, <2>8, <6>1
            <6>4. ui.rows[i - 1] <= ui.last /\ ui.rows[i - 1] < ui.rows[i - 2]
              BY <1>0, <6>2 DEF EventsRows
            <6>5. ui.rows[i - 1] \in Int /\ ui.rows[i - 2] \in Int
              BY <1>0, <6>2
            <6>6. QED
              BY <1>0, <2>6, <6>3, <6>4, <6>5
          <5>5. QED
            BY <2>5, <5>1, <5>2, <5>3, <5>4
        <4>2. QED
          BY <2>8, <2>9, <2>12, <3>1, <4>1 DEF EventsRows
      <3>2. CASE ~shown
        BY <1>0, <2>9, <2>12, <3>2 DEF EventsRows
      <3>3. QED
        BY <3>1, <3>2
    <2>14. EventsLinks(ui') /\ EventsSaid(ui')
      BY <1>0, <2>12 DEF EventsLinks, EventsSaid
    <2>15. QED
      BY <2>12, <2>13, <2>14, Zenon DEF EventsOk
  <1>4. CASE Events!Missed
    <2>1. PICK n \in Int : n = ui.last + 1
      BY <1>0
    <2>2. ui' = [ui EXCEPT !.last = n]
      BY <1>0, <1>4, <2>1, Zenon DEF Events!Missed, EventsState
    <2>3. /\ ui' \in EventsState /\ ui'.mounted = ui.mounted /\ ui'.es = ui.es
          /\ ui'.timers = ui.timers /\ ui'.rows = ui.rows /\ ui'.last = n
          /\ ui'.status = ui.status /\ ui'.hadError = ui.hadError
      BY <1>0, <2>1, <2>2, Zenon DEF EventsState
    <2>4. EventsRows(ui')
      <3>1. \A i \in 1..Len(ui.rows) : ui.rows[i] \in Int
        BY <1>0
      <3>2. QED
        BY <1>0, <2>1, <2>3, <3>1 DEF EventsRows
    <2>5. EventsLinks(ui') /\ EventsSaid(ui')
      BY <1>0, <2>3 DEF EventsLinks, EventsSaid
    <2>6. QED
      BY <2>3, <2>4, <2>5, Zenon DEF EventsOk
  <1>5. CASE Events!Severed
    <2>1. ui.es # "null" /\ (Events!OnError("CONNECTING") \/ Events!OnError("CLOSED"))
      BY <1>5 DEF Events!Severed
    <2>2. ui.mounted /\ ui.timers = 0
      BY <1>0, <2>1 DEF EventsLinks
    <2>3. CASE Events!OnError("CONNECTING")
      <3>1. ui' = [ui EXCEPT !.es = "CONNECTING", !.hadError = TRUE, !.status = "severed"]
        BY <2>3 DEF Events!OnError
      <3>2. /\ ui' \in EventsState /\ ui'.mounted /\ ui'.es = "CONNECTING"
            /\ ui'.timers = ui.timers /\ ui'.rows = ui.rows /\ ui'.last = ui.last
            /\ ui'.status = "severed" /\ ui'.hadError
        BY <1>0, <2>2, <3>1, Zenon DEF EventsState
      <3>3. EventsLinks(ui') /\ EventsSaid(ui') /\ EventsRows(ui')
        BY <1>0, <2>2, <3>2 DEF EventsLinks, EventsSaid, EventsRows
      <3>4. QED
        BY <3>2, <3>3, Zenon DEF EventsOk
    <2>4. CASE Events!OnError("CLOSED")
      <3>1. PICK n \in Int, b \in Int :
              /\ n = ui.timers + 1
              /\ b = IF 2 * ui.backoff < 30 THEN 2 * ui.backoff ELSE 30
        <4>1. ui.timers + 1 \in Int /\ 2 * ui.backoff \in Int /\ 30 \in Int
          BY <1>0
        <4>2. QED
          BY <4>1, Zenon
      <3>2. ui' = [ui EXCEPT !.es = "null", !.hadError = TRUE, !.status = "severed",
                             !.timers = n, !.backoff = b]
        BY <1>0, <2>4, <3>1, Zenon DEF Events!OnError, EventsState
      <3>3. /\ ui' \in EventsState /\ ui'.mounted /\ ui'.es = "null"
            /\ ui'.timers = n /\ ui'.rows = ui.rows /\ ui'.last = ui.last
            /\ ui'.status = "severed" /\ ui'.hadError
        BY <1>0, <2>2, <3>1, <3>2, Zenon DEF EventsState
      <3>4. EventsLinks(ui') /\ EventsSaid(ui') /\ EventsRows(ui')
        BY <1>0, <2>2, <3>1, <3>3 DEF EventsLinks, EventsSaid, EventsRows
      <3>5. QED
        BY <3>3, <3>4, Zenon DEF EventsOk
    <2>5. QED
      BY <2>1, <2>3, <2>4
  <1>6. CASE Events!Unmount
    <2>1. /\ ui' \in EventsState /\ ~ui'.mounted /\ ui'.es = "null" /\ ui'.timers = 0
          /\ ui'.rows = ui.rows /\ ui'.last = ui.last
          /\ ui'.status = ui.status /\ ui'.hadError = ui.hadError
      BY <1>0, <1>6, Zero, Zenon DEF Events!Unmount, EventsState
    <2>2. EventsLinks(ui') /\ EventsSaid(ui') /\ EventsRows(ui')
      BY <1>0, <2>1 DEF EventsLinks, EventsSaid, EventsRows
    <2>3. QED
      BY <2>1, <2>2, Zenon DEF EventsOk
  <1>7. QED
    BY <1>1, <1>2, <1>3, <1>4, <1>5, <1>6, Zenon DEF Events!Next

LEMMA EventsShown == EventsOk(ui) => Events!StreamsMatch /\ Events!ShownIsCurrent
  <1> SUFFICES ASSUME EventsOk(ui) PROVE Events!StreamsMatch /\ Events!ShownIsCurrent
    OBVIOUS
  <1>1. Events!View.severed = (ui.status = "severed")
    BY Zenon DEF Events!View
  <1>2. ui.timers \in Int /\ EventsLinks(ui) /\ EventsSaid(ui) /\ EventsRows(ui)
    BY Zenon DEF EventsOk, EventsState
  <1>3. Events!StreamsMatch
    BY <1>2 DEF EventsLinks, Events!StreamsMatch
  <1>4. QED
    BY <1>1, <1>2, <1>3, Zenon DEF EventsSaid, EventsRows, Events!ShownIsCurrent

LEMMA One == 1 \in Int
  OBVIOUS

-----------------------------------------------------------------------------
(* The chaos panel.  While a kill is out no timer of an earlier one runs,  *)
(* as the cooldown keeps the button off and outlasts the speed-up.         *)

ChaosState ==
  [mounted : BOOLEAN, status : SUBSET Chaos!Reported, shown : Int,
   msg : {""} \cup {Chaos!killMessage(a) : a \in Chaos!Answers}, killing : BOOLEAN,
   cooling : BOOLEAN, unreachable : BOOLEAN, fails : Int, poll : {"none", "flight", "timer"},
   polls : Int, interval : {"POLL_MS", "FAST_POLL_MS"}, fast : {0, 1}, cool : {0, 1}]
ChaosLoops(u) ==
  /\ u.mounted => u.poll # "none" /\ (u.cooling <=> u.cool = 1)
  /\ u.interval = "FAST_POLL_MS" <=> u.fast = 1
  /\ u.fast = 1 => u.cool = 1
  /\ u.killing => u.cool = 0
ChaosSaid(u) == /\ u.unreachable => u.fails = 3
                /\ \A s, t \in u.status : s = t
ChaosOk(u) == u \in ChaosState /\ ChaosLoops(u) /\ ChaosSaid(u)

LEMMA Small == {0, 1} \subseteq Int /\ 0 \in {0, 1} /\ 1 \in {0, 1} /\ 0 # 1
  OBVIOUS

LEMMA ChaosInit == Chaos!Init => ChaosOk(ui)
  <1> SUFFICES ASSUME Chaos!Init PROVE ChaosOk(ui)
    OBVIOUS
  <1>1. 1 \in Int /\ {} \in SUBSET Chaos!Reported /\ "POLL_MS" # "FAST_POLL_MS"
    OBVIOUS
  <1>2. /\ ui \in ChaosState /\ ui.mounted /\ ui.poll = "flight" /\ ~ui.cooling /\ ui.cool = 0
        /\ ui.interval = "POLL_MS" /\ ui.fast = 0 /\ ~ui.killing /\ ~ui.unreachable
        /\ ui.status = {}
    BY <1>1, Small, Zero, Zenon DEF Chaos!Init, ChaosState
  <1>3. QED
    BY <1>1, <1>2, Small, Zenon DEF ChaosOk, ChaosLoops, ChaosSaid

\* The next poll is armed.
LEMMA ChaosRearm ==
  ASSUME NEW u, ChaosOk(u)
  PROVE  ChaosOk(Chaos!rearm(u))
  <1>1. PICK p \in {"none", "timer"} : p = IF u.mounted THEN "timer" ELSE "none"
    BY Zenon
  <1>2. PICK v : v = [u EXCEPT !.poll = p]
    OBVIOUS
  <1>3. v = Chaos!rearm(u)
    BY <1>1, <1>2, Zenon DEF ChaosOk, ChaosState, Chaos!rearm
  <1>4. /\ v \in ChaosState /\ v.mounted = u.mounted /\ v.poll = p /\ v.cooling = u.cooling
        /\ v.cool = u.cool /\ v.interval = u.interval /\ v.fast = u.fast
        /\ v.killing = u.killing /\ v.unreachable = u.unreachable /\ v.fails = u.fails
        /\ v.status = u.status
    BY <1>1, <1>2, Zenon DEF ChaosOk, ChaosState
  <1>5. QED
    BY <1>1, <1>3, <1>4, Zenon DEF ChaosOk, ChaosLoops, ChaosSaid

LEMMA ChaosStep == ChaosOk(ui) /\ Chaos!Next => ChaosOk(ui')
  <1> SUFFICES ASSUME ChaosOk(ui), Chaos!Next PROVE ChaosOk(ui')
    OBVIOUS
  <1>0. /\ ui \in ChaosState /\ ChaosLoops(ui) /\ ChaosSaid(ui)
        /\ ui.mounted \in BOOLEAN /\ ui.fails \in Int /\ ui.polls \in Int
        /\ ui.cooling \in BOOLEAN /\ ui.unreachable \in BOOLEAN
        /\ ui.fast \in {0, 1} /\ ui.cool \in {0, 1}
        /\ ui.interval \in {"POLL_MS", "FAST_POLL_MS"}
        /\ "POLL_MS" # "FAST_POLL_MS"
    BY Zenon DEF ChaosOk, ChaosState
  <1>1. CASE Chaos!OnStatus
    <2>1. PICK st \in Chaos!Reported :
            ui' = Chaos!rearm(IF ui.mounted
                              THEN [ui EXCEPT !.status = {st}, !.shown = ui.polls, !.fails = 0,
                                              !.unreachable = FALSE]
                              ELSE ui)
      BY <1>1, Zenon DEF Chaos!OnStatus
    <2>2. PICK v : v = [ui EXCEPT !.status = {st}, !.shown = ui.polls, !.fails = 0,
                                  !.unreachable = FALSE]
      OBVIOUS
    <2>3. {st} \in SUBSET Chaos!Reported
      BY <2>1
    <2>4. /\ v \in ChaosState /\ v.mounted = ui.mounted /\ v.poll = ui.poll
          /\ v.cooling = ui.cooling /\ v.cool = ui.cool /\ v.interval = ui.interval
          /\ v.fast = ui.fast /\ v.killing = ui.killing /\ ~v.unreachable
          /\ v.status = {st}
      BY <1>0, <2>2, <2>3, Zero, Zenon DEF ChaosState
    <2>5. ChaosOk(v)
      <3>1. \A s, t \in {st} : s = t
        OBVIOUS
      <3>2. QED
       BY <1>0, <3>1, <2>4, Zenon DEF ChaosOk, ChaosLoops, ChaosSaid
    <2>6. CASE ui.mounted
      BY <2>1, <2>2, <2>5, <2>6, ChaosRearm
    <2>7. CASE ~ui.mounted
      BY <2>1, <2>7, ChaosRearm
    <2>8. QED
      BY <2>6, <2>7
  <1>2. CASE Chaos!OnPollError
    <2>1. PICK n \in Int : n = IF ui.fails < 3 THEN ui.fails + 1 ELSE 3
      BY <1>0
    <2>2. PICK gone \in BOOLEAN : gone = (ui.unreachable \/ (ui.mounted /\ n >= 3))
      BY <1>0, Zenon
    <2>3. PICK v : v = [ui EXCEPT !.fails = n, !.unreachable = gone]
      OBVIOUS
    <2>4. ui' = Chaos!rearm(v)
      BY <1>0, <1>2, <2>1, <2>2, <2>3, Zenon DEF Chaos!OnPollError, ChaosState
    <2>5. /\ v \in ChaosState /\ v.mounted = ui.mounted /\ v.poll = ui.poll
          /\ v.cooling = ui.cooling /\ v.cool = ui.cool /\ v.interval = ui.interval
          /\ v.fast = ui.fast /\ v.killing = ui.killing /\ v.unreachable = gone
          /\ v.fails = n /\ v.status = ui.status
      BY <1>0, <2>1, <2>2, <2>3, Zenon DEF ChaosState
    <2>6. (ui.unreachable => n = 3) /\ (n >= 3 => n = 3)
      BY <1>0, <2>1 DEF ChaosSaid
    <2>7. ChaosOk(v)
      BY <1>0, <2>2, <2>5, <2>6, Zenon DEF ChaosOk, ChaosLoops, ChaosSaid
    <2>8. QED
      BY <2>4, <2>7, ChaosRearm
  <1>3. CASE Chaos!OnKill
    <2>0. ui.killing /\ ui.cool = 0 /\ ui.fast = 0 /\ ui.interval = "POLL_MS"
      BY <1>0, <1>3, Small, Zenon DEF Chaos!OnKill, ChaosLoops
    <2>1. PICK a \in Chaos!Answers :
            ui' = IF ~ui.mounted THEN [ui EXCEPT !.killing = FALSE]
                  ELSE [ui EXCEPT !.msg = Chaos!killMessage(a), !.killing = FALSE,
                             !.cooling = @ \/ a \in {"ok", "429"},
                             !.cool = IF a \in {"ok", "429"} THEN @ + 1 ELSE @,
                             !.interval = IF a = "ok" THEN "FAST_POLL_MS" ELSE @,
                             !.fast = IF a = "ok" THEN @ + 1 ELSE @]
      BY <1>3, Zenon DEF Chaos!OnKill
    <2>2. CASE ~ui.mounted
      <3>1. /\ ui' \in ChaosState /\ ~ui'.mounted /\ ui'.poll = ui.poll
            /\ ui'.cool = ui.cool /\ ui'.interval = ui.interval
            /\ ui'.fast = ui.fast /\ ~ui'.killing /\ ui'.unreachable = ui.unreachable /\ ui'.status = ui.status
            /\ ui'.fails = ui.fails
        BY <1>0, <2>1, <2>2, Zenon DEF ChaosState
      <3>2. QED
        BY <1>0, <3>1, Zenon DEF ChaosOk, ChaosLoops, ChaosSaid
    <2>3. CASE ui.mounted
      <3>a. PICK cold \in BOOLEAN : cold <=> (a \in {"ok", "429"})
        BY Zenon
      <3>b. PICK cool \in {0, 1} : cool = IF a \in {"ok", "429"} THEN 1 ELSE 0
        BY Small, Zenon
      <3>c. PICK iv \in {"POLL_MS", "FAST_POLL_MS"} :
              iv = IF a = "ok" THEN "FAST_POLL_MS" ELSE "POLL_MS"
        BY Zenon
      <3>d. PICK fast \in {0, 1} : fast = IF a = "ok" THEN 1 ELSE 0
        BY Small, Zenon
      <3>1. a = "ok" => a \in {"ok", "429"}
        BY Zenon
      <3>2. ui.cool + 1 = 1 /\ ui.fast + 1 = 1 /\ ~ui.cooling
            /\ (ui.cooling \/ a \in {"ok", "429"}) = cold
        <4>1. ~ui.cooling
          BY <1>0, <2>0, <2>3, Small, Zenon DEF ChaosLoops
        <4>2. (ui.cooling \/ a \in {"ok", "429"}) = cold
          BY <1>0, <3>a, <4>1
        <4>3. QED
          BY <2>0, <4>1, <4>2
      <3>3. ui' = [ui EXCEPT !.msg = Chaos!killMessage(a), !.killing = FALSE,
                             !.cooling = cold, !.cool = cool, !.interval = iv, !.fast = fast]
        BY <1>0, <2>0, <2>1, <2>3, <3>a, <3>b, <3>c, <3>d, <3>2, Zenon DEF ChaosState
      <3>4. /\ ui' \in ChaosState /\ ui'.mounted /\ ui'.poll = ui.poll
            /\ ui'.cool = cool /\ ui'.interval = iv /\ ui'.cooling = cold
            /\ ui'.fast = fast /\ ~ui'.killing /\ ui'.unreachable = ui.unreachable /\ ui'.status = ui.status
            /\ ui'.fails = ui.fails
        <4>1. ui' \in ChaosState
          BY <1>0, <3>a, <3>b, <3>c, <3>d, <3>3, Zenon DEF ChaosState
        <4>2. /\ ui'.mounted = ui.mounted /\ ui'.poll = ui.poll
              /\ ui'.unreachable = ui.unreachable /\ ui'.status = ui.status
              /\ ui'.fails = ui.fails
          BY <1>0, <3>3, Zenon DEF ChaosState
        <4>3. /\ ui'.cool = cool /\ ui'.interval = iv /\ ui'.cooling = cold
              /\ ui'.fast = fast /\ ~ui'.killing
          BY <1>0, <3>3, Zenon DEF ChaosState
        <4>4. QED
          BY <2>3, <4>1, <4>2, <4>3, Zenon
      <3>5. ChaosLoops(ui') /\ ChaosSaid(ui')
        BY <1>0, <2>3, <3>a, <3>b, <3>c, <3>d, <3>1, <3>4, Small, Zenon DEF ChaosLoops, ChaosSaid
      <3>6. QED
        BY <3>4, <3>5, Zenon DEF ChaosOk
    <2>4. QED
      BY <1>0, <2>2, <2>3
  <1>4. CASE Chaos!SettleBack
    <2>1. ui.fast > 0 /\ ui' = [ui EXCEPT !.fast = @ - 1, !.interval = "POLL_MS"]
      BY <1>4, Zenon DEF Chaos!SettleBack
    <2>2. ui.fast = 1 /\ ui.fast - 1 = 0
      BY <1>0, <2>1
    <2>3. ui' = [ui EXCEPT !.fast = 0, !.interval = "POLL_MS"]
      BY <1>0, <2>1, <2>2, Zenon DEF ChaosState
    <2>4. /\ ui' \in ChaosState /\ ui'.mounted = ui.mounted /\ ui'.poll = ui.poll
          /\ ui'.cooling = ui.cooling /\ ui'.cool = ui.cool /\ ui'.interval = "POLL_MS"
          /\ ui'.fast = 0 /\ ui'.killing = ui.killing /\ ui'.unreachable = ui.unreachable /\ ui'.status = ui.status
          /\ ui'.fails = ui.fails
      BY <1>0, <2>3, Small, Zenon DEF ChaosState
    <2>5. QED
      BY <1>0, <2>4, Small, Zenon DEF ChaosOk, ChaosLoops, ChaosSaid
  <1>5. CASE Chaos!CoolDown
    <2>1. /\ ui.cool > 0 /\ ui.fast = 0
          /\ ui' = [ui EXCEPT !.cool = @ - 1, !.cooling = @ /\ ~ui.mounted]
      BY <1>5, Zenon DEF Chaos!CoolDown
    <2>2. ui.cool = 1 /\ ui.cool - 1 = 0
      BY <1>0, <2>1
    <2>3. PICK cold \in BOOLEAN : cold = (ui.cooling /\ ~ui.mounted)
      BY Zenon
    <2>4. ui' = [ui EXCEPT !.cool = 0, !.cooling = cold]
      BY <1>0, <2>1, <2>2, <2>3, Zenon DEF ChaosState
    <2>5. /\ ui' \in ChaosState /\ ui'.mounted = ui.mounted /\ ui'.poll = ui.poll
          /\ ui'.cooling = cold /\ ui'.cool = 0 /\ ui'.interval = ui.interval
          /\ ui'.fast = 0 /\ ui'.killing = ui.killing /\ ui'.unreachable = ui.unreachable /\ ui'.status = ui.status
          /\ ui'.fails = ui.fails
      BY <1>0, <2>1, <2>3, <2>4, Small, Zenon DEF ChaosState
    <2>6. QED
      BY <1>0, <2>1, <2>3, <2>5, Small, Zenon DEF ChaosOk, ChaosLoops, ChaosSaid
  <1>6. CASE Chaos!Poll
    <2>1. PICK n \in Int : n = ui.polls + 1
      BY <1>0
    <2>2. ui' = [ui EXCEPT !.poll = "flight", !.polls = n]
      BY <1>0, <1>6, <2>1, Zenon DEF Chaos!Poll, ChaosState
    <2>3. /\ ui' \in ChaosState /\ ui'.mounted = ui.mounted /\ ui'.poll = "flight"
          /\ ui'.cooling = ui.cooling /\ ui'.cool = ui.cool /\ ui'.interval = ui.interval
          /\ ui'.fast = ui.fast /\ ui'.killing = ui.killing
          /\ ui'.unreachable = ui.unreachable /\ ui'.status = ui.status /\ ui'.fails = ui.fails
      BY <1>0, <2>1, <2>2, Zenon DEF ChaosState
    <2>4. QED
      BY <1>0, <2>3, Zenon DEF ChaosOk, ChaosLoops, ChaosSaid
  <1>7. CASE Chaos!Click
    <2>1. ui.mounted /\ ~ui.killing /\ ~ui.cooling /\ ui' = [ui EXCEPT !.killing = TRUE]
      BY <1>7, Zenon DEF Chaos!Click, Chaos!View, Chaos!kill
    <2>2. /\ ui' \in ChaosState /\ ui'.mounted = ui.mounted /\ ui'.poll = ui.poll
          /\ ui'.cooling = ui.cooling /\ ui'.cool = ui.cool /\ ui'.interval = ui.interval
          /\ ui'.fast = ui.fast /\ ui'.unreachable = ui.unreachable /\ ui'.status = ui.status /\ ui'.fails = ui.fails
      BY <1>0, <2>1, Zenon DEF ChaosState
    <2>3. ui.cool = 0
      BY <1>0, <2>1, Zenon DEF ChaosLoops
    <2>4. QED
      BY <1>0, <2>2, <2>3, Zenon DEF ChaosOk, ChaosLoops, ChaosSaid
  <1>8. CASE Chaos!Unmount
    <2>1. PICK p \in {"none", "flight", "timer"} : p = IF ui.poll = "timer" THEN "none" ELSE ui.poll
      BY <1>0, Zenon DEF ChaosState
    <2>2. ui' = [ui EXCEPT !.mounted = FALSE, !.poll = p]
      BY <1>0, <1>8, <2>1, Zenon DEF Chaos!Unmount, ChaosState
    <2>3. /\ ui' \in ChaosState /\ ~ui'.mounted
          /\ ui'.cool = ui.cool /\ ui'.interval = ui.interval
          /\ ui'.fast = ui.fast /\ ui'.killing = ui.killing
          /\ ui'.unreachable = ui.unreachable /\ ui'.status = ui.status /\ ui'.fails = ui.fails
      BY <1>0, <2>1, <2>2, Zenon DEF ChaosState
    <2>4. QED
      BY <1>0, <2>3, Zenon DEF ChaosOk, ChaosLoops, ChaosSaid
  <1>9. QED
    BY <1>1, <1>2, <1>3, <1>4, <1>5, <1>6, <1>7, <1>8, Zenon DEF Chaos!Next, Chaos!Answered

LEMMA ChaosShown == ChaosOk(ui) => Chaos!LoopsMatch /\ Chaos!ShownIsCurrent
  <1> SUFFICES ASSUME ChaosOk(ui) PROVE Chaos!LoopsMatch /\ Chaos!ShownIsCurrent
    OBVIOUS
  <1>1. /\ ChaosLoops(ui) /\ ChaosSaid(ui) /\ ui.fast \in {0, 1} /\ ui.cool \in {0, 1}
        /\ ui.cooling \in BOOLEAN /\ ui.status \in SUBSET Chaos!Reported
    BY Zenon DEF ChaosOk, ChaosState
  <1>2. Chaos!LoopsMatch
    <2>1. ui.fast <= 1 /\ ui.cool <= 1
      BY <1>1
    <2>2. QED
      BY <1>1, <2>1, Zenon DEF ChaosLoops, Chaos!LoopsMatch
  <1>3. ASSUME NEW st \in ui.status, ~(Chaos!View.slots > 0) PROVE st.up = 0
    <2> DEFINE Needs(s) == IF s.desired = -1 THEN s.up + s.down ELSE s.desired
               Fits(n) == \E s \in ui.status :
                            n >= Needs(s) /\ n >= s.up + s.down /\ n \in {Needs(s), s.up + s.down}
    <2>1. ASSUME NEW s \in ui.status
          PROVE  s.up \in 0..1 /\ s.down \in 0..1 /\ Needs(s) \in 0..1 /\ s.up + s.down \in 0..1
      <3>1. s \in Chaos!Statuses /\ s.up + s.down <= 1
        BY <1>1 DEF Chaos!Reported
      <3>2. s.up \in 0..1 /\ s.down \in 0..1 /\ s.desired \in -1..1
        BY <3>1 DEF Chaos!Statuses
      <3>3. QED
        BY <3>1, <3>2
    <2>2. \E n \in 0..1 : Fits(n)
      <3>1. Fits(IF Needs(st) >= st.up + st.down THEN Needs(st) ELSE st.up + st.down)
        BY <2>1
      <3>2. QED
        BY <2>1, <3>1
    <2>3. Chaos!View.slots = CHOOSE n \in 0..1 : Fits(n)
      <3>1. ui.status # {}
        OBVIOUS
      <3>2. QED
        BY <3>1, Zenon DEF Chaos!View
    <2>4. Chaos!View.slots \in 0..1 /\ Fits(Chaos!View.slots)
      <3> HIDE DEF Fits
      <3>1. QED
        BY <2>2, <2>3, Zenon
    <2>5. Chaos!View.slots = 0
      BY <1>3, <2>4
    <2>6. PICK s \in ui.status : 0 >= s.up + s.down
      BY <2>4, <2>5, Zenon
    <2>7. s = st
      BY <1>1, <2>6 DEF ChaosSaid
    <2>8. QED
      BY <2>1, <2>6, <2>7
  <1>4. Chaos!View.instead = "unreachable" => ui.unreachable /\ ~(Chaos!View.slots > 0)
    BY Zenon DEF Chaos!View
  <1>5. QED
    BY <1>1, <1>2, <1>3, <1>4, Zenon DEF ChaosSaid, Chaos!ShownIsCurrent

-----------------------------------------------------------------------------
(* The rate limit panel.  The line under the cells is about their burst.   *)

RateState ==
  [mounted : BOOLEAN, reads : Int, polls : SUBSET Int, rereads : SUBSET Int, snap : Int,
   repoll : Int, hammering : BOOLEAN, cells : SUBSET {"ok", "limited", "failed"},
   msg : {"", "done", "done, some failed"}]
RateSaid(u) ==
  /\ u.msg = "done, some failed" <=> "failed" \in u.cells
  /\ u.mounted /\ u.hammering => u.cells = {} /\ u.msg = ""
  /\ ~u.mounted => u.repoll = 0
RateOk(u) == u \in RateState /\ RateSaid(u)

LEMMA RateInit == RateLimit!Init => RateOk(ui)
  <1> SUFFICES ASSUME RateLimit!Init PROVE RateOk(ui)
    OBVIOUS
  <1>1. /\ 1 \in Int /\ {1} \in SUBSET Int /\ {} \in SUBSET Int
        /\ {} \in SUBSET {"ok", "limited", "failed"}
    OBVIOUS
  <1>2. "" # "done, some failed"
    BY Zenon
  <1>3. ui \in RateState /\ ui.mounted /\ ~ui.hammering /\ ui.cells = {} /\ ui.msg = ""
    BY <1>1, Zero, Zenon DEF RateLimit!Init, RateState
  <1>4. QED
    BY <1>2, <1>3, Zenon DEF RateOk, RateSaid

\* An answer changes what is out and the snapshot only.
LEMMA RateArrives ==
  ASSUME RateOk(ui), NEW r \in Int, NEW ok \in BOOLEAN, NEW v \in RateState, RateSaid(v)
  PROVE  RateOk(RateLimit!arrive(v, r, ok))
  <1>1. PICK n \in Int : n = IF ok /\ v.mounted THEN r ELSE v.snap
    BY Zenon DEF RateState
  <1>2. PICK w : w = [v EXCEPT !.snap = n]
    OBVIOUS
  <1>3. w = RateLimit!arrive(v, r, ok)
    BY <1>1, <1>2, Zenon DEF RateLimit!arrive, RateState
  <1>4. /\ w \in RateState /\ w.mounted = v.mounted /\ w.hammering = v.hammering
        /\ w.cells = v.cells /\ w.msg = v.msg /\ w.repoll = v.repoll
    BY <1>1, <1>2, Zenon DEF RateState
  <1>5. QED
    BY <1>3, <1>4, Zenon DEF RateOk, RateSaid

LEMMA RateStep == RateOk(ui) /\ RateLimit!Next => RateOk(ui')
  <1> SUFFICES ASSUME RateOk(ui), RateLimit!Next PROVE RateOk(ui')
    OBVIOUS
  <1>0. /\ ui \in RateState /\ RateSaid(ui) /\ ui.mounted \in BOOLEAN
        /\ ui.reads \in Int /\ ui.polls \in SUBSET Int /\ ui.rereads \in SUBSET Int
    BY Zenon DEF RateOk, RateState
  <1>1. PICK n \in Int : n = ui.reads + 1
    BY <1>0
  <1>2. CASE RateLimit!Poll
    <2>1. PICK out \in SUBSET Int : out = ui.polls \cup {n}
      BY <1>0
    <2>2. ui' = [ui EXCEPT !.reads = n, !.polls = out]
      BY <1>0, <1>1, <1>2, <2>1, Zenon DEF RateLimit!Poll, RateState
    <2>3. /\ ui' \in RateState /\ ui'.mounted = ui.mounted /\ ui'.hammering = ui.hammering
          /\ ui'.cells = ui.cells /\ ui'.msg = ui.msg /\ ui'.repoll = ui.repoll
      BY <1>0, <1>1, <2>1, <2>2, Zenon DEF RateState
    <2>4. QED
      BY <1>0, <2>3, Zenon DEF RateOk, RateSaid
  <1>3. CASE RateLimit!OnPoll
    <2>1. PICK r \in ui.polls, ok \in BOOLEAN :
            ui' = RateLimit!arrive([ui EXCEPT !.polls = @ \ {r}], r, ok)
      BY <1>3, Zenon DEF RateLimit!OnPoll
    <2>2. PICK out \in SUBSET Int : out = ui.polls \ {r}
      BY <1>0
    <2>3. PICK v : v = [ui EXCEPT !.polls = out]
      OBVIOUS
    <2>4. ui' = RateLimit!arrive(v, r, ok)
      BY <1>0, <2>1, <2>2, <2>3, Zenon DEF RateState
    <2>5. /\ v \in RateState /\ v.mounted = ui.mounted /\ v.hammering = ui.hammering
          /\ v.cells = ui.cells /\ v.msg = ui.msg /\ v.repoll = ui.repoll
      BY <1>0, <2>2, <2>3, Zenon DEF RateState
    <2>6. RateSaid(v)
      BY <1>0, <2>5, Zenon DEF RateSaid
    <2>7. r \in Int
      BY <1>0, <2>1
    <2>8. QED
      BY <2>1, <2>4, <2>5, <2>6, <2>7, RateArrives
  <1>4. CASE RateLimit!OnReread
    <2>1. PICK r \in ui.rereads, ok \in BOOLEAN :
            ui' = RateLimit!arrive([ui EXCEPT !.rereads = @ \ {r}], r, ok)
      BY <1>4, Zenon DEF RateLimit!OnReread
    <2>2. PICK out \in SUBSET Int : out = ui.rereads \ {r}
      BY <1>0
    <2>3. PICK v : v = [ui EXCEPT !.rereads = out]
      OBVIOUS
    <2>4. ui' = RateLimit!arrive(v, r, ok)
      BY <1>0, <2>1, <2>2, <2>3, Zenon DEF RateState
    <2>5. /\ v \in RateState /\ v.mounted = ui.mounted /\ v.hammering = ui.hammering
          /\ v.cells = ui.cells /\ v.msg = ui.msg /\ v.repoll = ui.repoll
      BY <1>0, <2>2, <2>3, Zenon DEF RateState
    <2>6. RateSaid(v)
      BY <1>0, <2>5, Zenon DEF RateSaid
    <2>7. r \in Int
      BY <1>0, <2>1
    <2>8. QED
      BY <2>1, <2>4, <2>5, <2>6, <2>7, RateArrives
  <1>5. CASE RateLimit!OnHammered
    <2>1. PICK met \in SUBSET {"ok", "limited", "failed"} :
            ui' = IF ~ui.mounted THEN [ui EXCEPT !.hammering = FALSE]
                  ELSE [ui EXCEPT !.hammering = FALSE, !.cells = met, !.repoll = 1,
                                  !.msg = IF "failed" \in met THEN "done, some failed"
                                          ELSE "done"]
      <3>1. ASSUME NEW met \in SUBSET RateLimit!Classes \ {{}}
            PROVE  met \in SUBSET {"ok", "limited", "failed"}
        BY <3>1, Zenon DEF RateLimit!Classes
      <3>2. QED
        BY <1>5, <3>1, Zenon DEF RateLimit!OnHammered
    <2>2. CASE ~ui.mounted
      <3>1. /\ ui' \in RateState /\ ~ui'.mounted /\ ui'.repoll = ui.repoll
            /\ ui'.cells = ui.cells /\ ui'.msg = ui.msg
        BY <1>0, <2>1, <2>2, Zenon DEF RateState
      <3>2. QED
        BY <1>0, <2>2, <3>1, Zenon DEF RateOk, RateSaid
    <2>3. CASE ui.mounted
      <3>1. PICK line \in {"", "done", "done, some failed"} :
              line = IF "failed" \in met THEN "done, some failed" ELSE "done"
        BY Zenon
      <3>2. "done" # "done, some failed" /\ 1 \in Int
        BY One, Zenon
      <3>3. ui' = [ui EXCEPT !.hammering = FALSE, !.cells = met, !.repoll = 1, !.msg = line]
        BY <1>0, <2>1, <2>3, <3>1, Zenon DEF RateState
      <3>4. /\ ui' \in RateState /\ ui'.mounted /\ ~ui'.hammering
            /\ ui'.cells = met /\ ui'.msg = line
        BY <1>0, <2>1, <2>3, <3>1, <3>2, <3>3, Zenon DEF RateState
      <3>5. QED
        BY <3>1, <3>2, <3>4, Zenon DEF RateOk, RateSaid
    <2>4. QED
      BY <2>2, <2>3
  <1>6. CASE RateLimit!Reread
    <2>1. PICK out \in SUBSET Int : out = ui.rereads \cup {n}
      BY <1>0
    <2>2. ui' = [ui EXCEPT !.repoll = 0, !.reads = n, !.rereads = out]
      BY <1>0, <1>1, <1>6, <2>1, Zenon DEF RateLimit!Reread, RateState
    <2>3. /\ ui' \in RateState /\ ui'.mounted = ui.mounted /\ ui'.hammering = ui.hammering
          /\ ui'.cells = ui.cells /\ ui'.msg = ui.msg /\ ui'.repoll = 0
      BY <1>0, <1>1, <2>1, <2>2, Zero, Zenon DEF RateState
    <2>4. QED
      BY <1>0, <2>3, Zenon DEF RateOk, RateSaid
  <1>7. CASE RateLimit!Click
    <2>1. ui.mounted /\ ui' = [ui EXCEPT !.hammering = TRUE, !.cells = {}, !.msg = ""]
      BY <1>7, Zenon DEF RateLimit!Click, RateLimit!View, RateLimit!hammer
    <2>2. {} \in SUBSET {"ok", "limited", "failed"}
      OBVIOUS
    <2>3. ui' \in RateState /\ ui'.mounted /\ ui'.cells = {} /\ ui'.msg = ""
      BY <1>0, <2>1, <2>2, Zenon DEF RateState
    <2>4. "" # "done, some failed"
      BY Zenon
    <2>5. QED
      BY <2>3, <2>4, Zenon DEF RateOk, RateSaid
  <1>8. CASE RateLimit!Unmount
    <2>1. /\ ui' \in RateState /\ ~ui'.mounted /\ ui'.repoll = 0
          /\ ui'.cells = ui.cells /\ ui'.msg = ui.msg
      BY <1>0, <1>8, Zero, Zenon DEF RateLimit!Unmount, RateState
    <2>2. QED
      BY <1>0, <2>1, Zenon DEF RateOk, RateSaid
  <1>9. QED
    BY <1>2, <1>3, <1>4, <1>5, <1>6, <1>7, <1>8, Zenon DEF RateLimit!Next, RateLimit!Answered

LEMMA RateShown == RateOk(ui) => RateLimit!LoopsMatch /\ RateLimit!ShownIsCurrent
  <1> SUFFICES ASSUME RateOk(ui) PROVE RateLimit!LoopsMatch /\ RateLimit!ShownIsCurrent
    OBVIOUS
  <1>1. RateLimit!View.line = ui.msg
    BY Zenon DEF RateLimit!View
  <1>2. RateSaid(ui)
    BY Zenon DEF RateOk
  <1>3. PICK bad : bad = "done, some failed"
    OBVIOUS
  <1>4. (ui.msg = bad) <=> ("failed" \in ui.cells)
    BY <1>2, <1>3, Zenon DEF RateSaid
  <1>5. (ui.msg = bad) = ("failed" \in ui.cells)
    BY <1>4
  <1>6. QED
    BY <1>1, <1>2, <1>3, <1>5, Zenon DEF RateSaid, RateLimit!LoopsMatch, RateLimit!ShownIsCurrent

-----------------------------------------------------------------------------
(* The shell.  A command is echoed before the next can be sent, so its     *)
(* answer is the only one after it.                                        *)

ShellLine == [kind : {"sys", "cmd", "out"}, cmd : Int]
ShellState ==
  [lines : Seq(ShellLine), input : Int, cwd : Dirs \cup {CHOOSE d \in Dirs : TRUE},
   history : Seq(Int), hIdx : Int, pending : BOOLEAN, submitted : Int]
ShellRecall(u) == /\ u.hIdx >= -1 /\ u.hIdx < Len(u.history)
                  /\ u.submitted >= 0
\* Line i is an answer to a command.
ShellAnswer(u, i) == u.lines[i].kind # "cmd" /\ u.lines[i].cmd # 0
\* How the line j stands to the answer i.
ShellOrder(u, i, j) ==
  IF j < i THEN u.lines[j].cmd <= u.lines[i].cmd
                /\ (u.lines[j].kind # "cmd" => u.lines[j].cmd < u.lines[i].cmd)
           ELSE u.lines[j].cmd > u.lines[i].cmd
ShellLines(u) ==
  /\ \A i \in 1..Len(u.lines) : u.lines[i].cmd <= u.submitted
  /\ \A i \in 1..Len(u.lines) : ShellAnswer(u, i) =>
       /\ u.pending => u.lines[i].cmd < u.submitted
       /\ \A j \in 1..Len(u.lines) : u.lines[j].cmd # 0 /\ j # i => ShellOrder(u, i, j)
ShellOk(u) == u \in ShellState /\ ShellRecall(u) /\ ShellLines(u)

LEMMA ShellInit == Shell!Init => ShellOk(ui)
  <1> SUFFICES ASSUME Shell!Init PROVE ShellOk(ui)
    OBVIOUS
  <1>1. -1 \in Int /\ <<>> \in Seq(Int) /\ Len(<<>>) = 0
    OBVIOUS
  <1>2. PICK first : first = Shell!Line("sys", 0)
    OBVIOUS
  <1>3. first \in ShellLine /\ first.cmd = 0 /\ first.kind = "sys"
    BY <1>2, Zero, Zenon DEF ShellLine, Shell!Line
  <1>4. PICK s : s = <<first>>
    OBVIOUS
  <1>5. s \in Seq(ShellLine) /\ Len(s) = 1 /\ s[1] = first
    BY <1>3, <1>4
  <1>6. /\ ui \in ShellState /\ ui.lines = s /\ ui.hIdx = -1 /\ ui.history = <<>>
        /\ ui.submitted = 0
    BY <1>1, <1>2, <1>4, <1>5, Zero, Zenon DEF Shell!Init, ShellState
  <1>7. ShellRecall(ui)
    BY <1>1, <1>6 DEF ShellRecall
  <1>8. ShellLines(ui)
    <2>1. ASSUME NEW i \in 1..Len(ui.lines) PROVE ui.lines[i].cmd = 0
      <3>1. i \in 1..Len(s) /\ i = 1
        <4>1. i \in 1..Len(s)
          BY <1>6, <2>1, Zenon
        <4>2. QED
          BY <1>5, <4>1
      <3>2. QED
        BY <1>3, <1>5, <1>6, <3>1, Zenon
    <2>2. 0 <= ui.submitted
      BY <1>6
    <2>3. QED
      BY <2>1, <2>2, Zenon DEF ShellLines, ShellAnswer
  <1>9. QED
    BY <1>6, <1>7, <1>8, Zenon DEF ShellOk

\* A line is added that answers nothing, or the command just sent, or the one that is
\* pending.
LEMMA ShellPush ==
  ASSUME NEW u, NEW v, NEW line \in ShellLine,
         u \in ShellState, ShellLines(u), u.submitted \in Int, u.submitted >= 0,
         v.lines = Append(u.lines, line), v.submitted \in Int, v.pending \in BOOLEAN,
         \/ /\ line.cmd = 0 /\ v.submitted = u.submitted /\ v.pending = u.pending
         \/ /\ line.kind = "cmd" /\ line.cmd = v.submitted /\ v.submitted = u.submitted + 1
            /\ v.pending
         \/ /\ u.pending /\ ~v.pending /\ line.cmd = u.submitted /\ v.submitted = u.submitted
  PROVE  ShellLines(v)
  <1>1. u.lines \in Seq(ShellLine) /\ u.pending \in BOOLEAN
    BY Zenon DEF ShellState
  <1>2. PICK s : s = u.lines
    OBVIOUS
  <1>3. PICK t : t = Append(s, line)
    OBVIOUS
  <1>4. /\ Len(s) \in Nat /\ Len(t) = Len(s) + 1 /\ t[Len(s) + 1] = line
        /\ \A i \in 1..Len(s) : t[i] = s[i] /\ s[i] \in ShellLine
    BY <1>1, <1>2, <1>3
  <1>5. \A l \in ShellLine : l.cmd \in Int
    BY DEF ShellLine
  <1>6. \A i \in 1..Len(t) : i \in 1..Len(s) \/ i = Len(s) + 1
    BY <1>4
  <1>7. \A i \in 1..Len(s) : s[i].cmd <= u.submitted /\ s[i].cmd \in Int
    BY <1>2, <1>4, <1>5 DEF ShellLines
  <1>8. ASSUME NEW i \in 1..Len(t) PROVE t[i].cmd <= v.submitted
    BY <1>4, <1>5, <1>6, <1>7
  <1>9. ASSUME NEW i \in 1..Len(t), t[i].kind # "cmd", t[i].cmd # 0
        PROVE  v.pending => t[i].cmd < v.submitted
    <2>1. CASE i \in 1..Len(s)
      <3>1. u.pending => s[i].cmd < u.submitted
        BY <1>2, <1>4, <1>9, <2>1 DEF ShellLines, ShellAnswer
      <3>2. QED
        <4>1. t[i] = s[i] /\ s[i].cmd <= u.submitted /\ s[i].cmd \in Int
          BY <1>4, <1>7, <2>1
        <4>2. v.pending => \/ v.submitted = u.submitted + 1
                           \/ v.submitted = u.submitted /\ u.pending
          BY <1>1
        <4>3. QED
          BY <3>1, <4>1, <4>2
    <2>2. CASE i = Len(s) + 1
      BY <1>4, <1>9, <2>2
    <2>3. QED
      BY <1>6, <2>1, <2>2
  <1>10. ASSUME NEW i \in 1..Len(t), t[i].kind # "cmd", t[i].cmd # 0,
                NEW j \in 1..Len(t), t[j].cmd # 0, j # i
         PROVE  IF j < i THEN t[j].cmd <= t[i].cmd /\ (t[j].kind # "cmd" => t[j].cmd < t[i].cmd)
                         ELSE t[j].cmd > t[i].cmd
    <2>1. CASE i \in 1..Len(s) /\ j \in 1..Len(s)
      <3>1. IF j < i THEN s[j].cmd <= s[i].cmd /\ (s[j].kind # "cmd" => s[j].cmd < s[i].cmd)
                     ELSE s[j].cmd > s[i].cmd
        BY <1>2, <1>4, <1>10, <2>1 DEF ShellLines, ShellAnswer, ShellOrder
      <3>2. QED
        BY <1>4, <2>1, <3>1
    <2>2. CASE i \in 1..Len(s) /\ j = Len(s) + 1
      <3>1. u.pending => s[i].cmd < u.submitted
        BY <1>2, <1>4, <1>10, <2>2 DEF ShellLines, ShellAnswer
      <3>2. line.cmd # 0 /\ t[j] = line /\ t[i] = s[i] /\ ~(j < i)
        BY <1>4, <1>10, <2>2
      <3>3. QED
        BY <1>5, <1>7, <2>2, <3>1, <3>2
    <2>3. CASE i = Len(s) + 1 /\ j \in 1..Len(s)
      <3>1. line.cmd # 0 /\ line.kind # "cmd" /\ t[i] = line /\ t[j] = s[j] /\ j < i
        BY <1>4, <1>10, <2>3
      <3>2. u.pending /\ line.cmd = u.submitted
        BY <3>1
      <3>3. s[j].kind # "cmd" => s[j].cmd < u.submitted
        BY <1>2, <1>4, <1>10, <2>3, <3>1, <3>2 DEF ShellLines, ShellAnswer
      <3>4. QED
        BY <1>7, <2>3, <3>1, <3>2, <3>3
    <2>4. QED
      BY <1>6, <1>10, <2>1, <2>2, <2>3
  <1>11. v.lines = t
    BY <1>2, <1>3
  <1>12. QED
    BY <1>8, <1>9, <1>10, <1>11, Zenon DEF ShellLines, ShellAnswer, ShellOrder

LEMMA ShellPushed ==
  ASSUME NEW u \in ShellState, NEW kind, NEW n \in Int, NEW v,
         v = Shell!push(u, kind, n), kind \in {"sys", "cmd", "out"}
  PROVE  \E line \in ShellLine :
           /\ line.kind = kind /\ line.cmd = n
           /\ v \in ShellState /\ v.lines = Append(u.lines, line)
           /\ v.hIdx = u.hIdx /\ v.history = u.history /\ v.pending = u.pending
           /\ v.submitted = u.submitted
  <1>1. PICK line : line = Shell!Line(kind, n)
    OBVIOUS
  <1>2. line \in ShellLine /\ line.kind = kind /\ line.cmd = n
    BY <1>1, Zenon DEF Shell!Line, ShellLine
  <1>3. PICK t : t = Append(u.lines, line)
    OBVIOUS
  <1>4. t \in Seq(ShellLine)
    <2>1. u.lines \in Seq(ShellLine)
      BY Zenon DEF ShellState
    <2>2. QED
      BY <1>2, <1>3, <2>1
  <1>5. Shell!push(u, kind, n) = [u EXCEPT !.lines = t]
    BY <1>1, <1>3, Zenon DEF Shell!push, ShellState
  <1>6. QED
    BY <1>2, <1>3, <1>4, <1>5, Zenon DEF ShellState

LEMMA ShellStep == ShellOk(ui) /\ Shell!Next => ShellOk(ui')
  <1> SUFFICES ASSUME ShellOk(ui), Shell!Next PROVE ShellOk(ui')
    OBVIOUS
  <1>0. /\ ui \in ShellState /\ ShellRecall(ui) /\ ShellLines(ui)
        /\ ui.hIdx \in Int /\ ui.input \in Int /\ ui.submitted \in Int
        /\ ui.history \in Seq(Int) /\ ui.pending \in BOOLEAN /\ ui.submitted >= 0
    BY Zenon DEF ShellOk, ShellState, ShellRecall
  <1>a. -1 \in Int /\ -2 \in Int /\ 0 \in Int
    OBVIOUS
  <1>k. /\ "sys" \in {"sys", "cmd", "out"} /\ "cmd" \in {"sys", "cmd", "out"}
        /\ "out" \in {"sys", "cmd", "out"}
    OBVIOUS
  <1>b. Len(ui.history) \in Nat
    BY <1>0
  <1>1. ASSUME NEW i \in Int, ui' = [ui EXCEPT !.input = i]
        PROVE  ShellOk(ui')
    <2>1. /\ ui' \in ShellState /\ ui'.lines = ui.lines /\ ui'.hIdx = ui.hIdx
          /\ ui'.history = ui.history /\ ui'.pending = ui.pending
          /\ ui'.submitted = ui.submitted
      BY <1>0, <1>1, Zenon DEF ShellState
    <2>2. QED
      BY <1>0, <2>1, Zenon DEF ShellOk, ShellRecall, ShellLines, ShellAnswer, ShellOrder
  <1>2. CASE Shell!Type
    <2>1. PICK text \in {0, Shell!Typed, Shell!Blank} : ui' = [ui EXCEPT !.input = text]
      BY <1>2, Zenon DEF Shell!Type
    <2>2. text \in Int
      BY <1>a, Zenon DEF Shell!Typed, Shell!Blank
    <2>3. QED
      BY <1>1, <2>1, <2>2
  <1>3. CASE Shell!Enter
    <2>1. CASE ui.pending
      <3>1. ui' = ui
        BY <1>3, <2>1, Zenon DEF Shell!Enter, Shell!submit
      <3>2. QED
        BY <3>1
    <2>2. CASE ~ui.pending
      <3>1. PICK n \in Int : n = ui.submitted + 1
        BY <1>0
      <3>2. PICK u : u = [ui EXCEPT !.input = 0, !.hIdx = -1]
        OBVIOUS
      <3>3. /\ u \in ShellState /\ u.lines = ui.lines /\ u.hIdx = -1 /\ u.history = ui.history
            /\ u.pending = ui.pending /\ u.submitted = ui.submitted
        BY <1>0, <1>a, <3>2, Zenon DEF ShellState
      <3>4. ShellLines(u)
        BY <1>0, <3>3, Zenon DEF ShellLines, ShellAnswer, ShellOrder
      <3>5. CASE ui.input \in {0, Shell!Blank}
        <4>1. ui' = Shell!push(u, "cmd", 0)
          BY <1>3, <2>2, <3>2, <3>5, Zenon DEF Shell!Enter, Shell!submit
        <4>2. PICK line \in ShellLine :
                /\ line.cmd = 0
                /\ ui' \in ShellState /\ ui'.lines = Append(u.lines, line)
                /\ ui'.hIdx = u.hIdx /\ ui'.history = u.history /\ ui'.pending = u.pending
                /\ ui'.submitted = u.submitted
          BY <1>a, <3>3, <4>1, <1>k, ShellPushed
        <4>3. ShellLines(ui')
          BY <1>0, <3>3, <3>4, <4>2, ShellPush
        <4>4. ShellRecall(ui')
          <5>1. Len(ui.history) \in Nat
            BY <1>0
          <5>2. QED
            BY <1>0, <3>3, <4>2, <5>1 DEF ShellRecall
        <4>5. QED
          BY <4>2, <4>3, <4>4, Zenon DEF ShellOk
      <3>6. CASE ui.input \notin {0, Shell!Blank}
        <4>1. PICK h : h = Append(u.history, n)
          OBVIOUS
        <4>2. h \in Seq(Int) /\ Len(h) \in Nat
          BY <1>0, <3>1, <3>3, <4>1
        <4>3. PICK v : v = Shell!push(u, "cmd", n)
          OBVIOUS
        <4>4. PICK line \in ShellLine :
                /\ line.kind = "cmd" /\ line.cmd = n
                /\ v \in ShellState /\ v.lines = Append(u.lines, line)
                /\ v.hIdx = u.hIdx /\ v.history = u.history
          BY <3>1, <3>3, <4>3, <1>k, ShellPushed
        <4>5. ui' = [v EXCEPT !.history = Append(@, n), !.pending = TRUE, !.submitted = n]
          BY <1>3, <2>2, <3>1, <3>2, <3>6, <4>3, Zenon DEF Shell!Enter, Shell!submit
        <4>6. ui' = [v EXCEPT !.history = h, !.pending = TRUE, !.submitted = n]
          BY <4>1, <4>4, <4>5, Zenon DEF ShellState
        <4>7. /\ ui' \in ShellState /\ ui'.lines = Append(u.lines, line) /\ ui'.hIdx = -1
              /\ ui'.history = h /\ ui'.pending /\ ui'.submitted = n /\ ui'.pending \in BOOLEAN
          BY <3>1, <3>3, <4>2, <4>4, <4>6, Zenon DEF ShellState
        <4>8. ShellLines(ui')
          BY <1>0, <3>1, <3>3, <3>4, <4>4, <4>7, ShellPush
        <4>9. ShellRecall(ui')
          BY <1>0, <3>1, <4>2, <4>7 DEF ShellRecall
        <4>10. QED
          BY <4>7, <4>8, <4>9, Zenon DEF ShellOk
      <3>7. QED
        BY <3>5, <3>6
    <2>3. QED
      BY <1>0, <2>1, <2>2
  <1>4. ASSUME NEW u \in ShellState, NEW line \in ShellLine,
               ui.pending, line.cmd = ui.submitted,
               u.lines = ui.lines, u.hIdx = ui.hIdx, u.history = ui.history,
               ~u.pending, u.submitted = ui.submitted,
               ui' \in ShellState, ui'.lines = Append(u.lines, line),
               ui'.hIdx = u.hIdx, ui'.history = u.history, ui'.pending = u.pending,
               ui'.submitted = u.submitted
        PROVE  ShellOk(ui')
    <2>1. /\ ui'.lines = Append(ui.lines, line) /\ ~ui'.pending /\ ui'.pending \in BOOLEAN
          /\ ui'.submitted \in Int /\ ui'.submitted = ui.submitted
      BY <1>0, <1>4, Zenon DEF ShellState
    <2>2. ShellLines(ui')
      BY <1>0, <1>4, <2>1, ShellPush
    <2>3. QED
      BY <1>0, <1>4, <2>2, Zenon DEF ShellOk, ShellRecall
  <1>5. CASE Shell!OnOutput
    <2>1. PICK dir \in Dirs, a \in {"cleared", "output", "silent"} :
            ui' = CASE a = "cleared" ->
                         [[ui EXCEPT !.pending = FALSE, !.cwd = dir] EXCEPT !.lines = <<>>]
                    [] a = "output" -> Shell!push([ui EXCEPT !.pending = FALSE, !.cwd = dir],
                                                  "out", ui.submitted)
                    [] OTHER -> [ui EXCEPT !.pending = FALSE, !.cwd = dir]
      BY <1>5, Zenon DEF Shell!OnOutput
    <2>2. PICK u : u = [ui EXCEPT !.pending = FALSE, !.cwd = dir]
      OBVIOUS
    <2>3. /\ u \in ShellState /\ u.lines = ui.lines /\ u.hIdx = ui.hIdx
          /\ u.history = ui.history /\ ~u.pending /\ u.submitted = ui.submitted
      BY <1>0, <2>2, Zenon DEF ShellState
    <2>4. ui.pending
      BY <1>5, Zenon DEF Shell!OnOutput
    <2>5. CASE a = "cleared"
      <3>1. ui' = [u EXCEPT !.lines = <<>>]
        BY <2>1, <2>2, <2>5
      <3>2. <<>> \in Seq(ShellLine) /\ Len(<<>>) = 0
        OBVIOUS
      <3>3. /\ ui' \in ShellState /\ ui'.lines = <<>> /\ ui'.hIdx = ui.hIdx
            /\ ui'.history = ui.history /\ ~ui'.pending /\ ui'.submitted = ui.submitted
        BY <2>3, <3>1, <3>2, Zenon DEF ShellState
      <3>4. \A i \in 1..0 : FALSE
        OBVIOUS
      <3>5. ShellLines(ui')
        BY <3>2, <3>3, <3>4, Zenon DEF ShellLines
      <3>6. QED
        BY <1>0, <3>3, <3>5, Zenon DEF ShellOk, ShellRecall
    <2>6. CASE a = "output"
      <3>1. ui' = Shell!push(u, "out", ui.submitted)
        BY <2>1, <2>2, <2>6
      <3>2. PICK line \in ShellLine :
              /\ line.cmd = ui.submitted
              /\ ui' \in ShellState /\ ui'.lines = Append(u.lines, line)
              /\ ui'.hIdx = u.hIdx /\ ui'.history = u.history /\ ui'.pending = u.pending
              /\ ui'.submitted = u.submitted
        BY <1>0, <2>3, <3>1, <1>k, ShellPushed
      <3>3. QED
        BY <1>4, <2>3, <2>4, <3>2
    <2>7. CASE a = "silent"
      <3>1. ui' = u
        BY <2>1, <2>2, <2>7
      <3>2. ShellLines(ui')
        BY <1>0, <2>3, <3>1, Zenon DEF ShellLines, ShellAnswer, ShellOrder
      <3>3. QED
        BY <1>0, <2>3, <3>1, <3>2, Zenon DEF ShellOk, ShellRecall
    <2>8. QED
      BY <2>5, <2>6, <2>7
  <1>6. CASE Shell!OnRefused
    <2>1. ui.pending /\ ui' = Shell!push([ui EXCEPT !.pending = FALSE], "sys", ui.submitted)
      BY <1>6, Zenon DEF Shell!OnRefused
    <2>2. PICK u : u = [ui EXCEPT !.pending = FALSE]
      OBVIOUS
    <2>3. /\ u \in ShellState /\ u.lines = ui.lines /\ u.hIdx = ui.hIdx
          /\ u.history = ui.history /\ ~u.pending /\ u.submitted = ui.submitted
      BY <1>0, <2>2, Zenon DEF ShellState
    <2>4. PICK line \in ShellLine :
            /\ line.cmd = ui.submitted
            /\ ui' \in ShellState /\ ui'.lines = Append(u.lines, line)
            /\ ui'.hIdx = u.hIdx /\ ui'.history = u.history /\ ui'.pending = u.pending
            /\ ui'.submitted = u.submitted
      <3>1. ui' = Shell!push(u, "sys", ui.submitted)
        BY <2>1, <2>2, Zenon
      <3>2. QED
        BY <1>0, <2>3, <3>1, <1>k, ShellPushed
    <2>5. QED
      BY <1>4, <2>1, <2>3, <2>4
  <1>7. CASE Shell!Tab
    <2>1. PICK matches \in 0..2 :
            ui' = IF matches = 2 THEN Shell!push(ui, "out", 0)
                  ELSE IF matches = 1 THEN [ui EXCEPT !.input = Shell!Typed] ELSE ui
      BY <1>7, Zenon DEF Shell!Tab
    <2>2. CASE matches = 2
      <3>1. ui' = Shell!push(ui, "out", 0)
        BY <2>1, <2>2, Zenon
      <3>2. PICK line \in ShellLine :
              /\ line.cmd = 0
              /\ ui' \in ShellState /\ ui'.lines = Append(ui.lines, line)
              /\ ui'.hIdx = ui.hIdx /\ ui'.history = ui.history /\ ui'.pending = ui.pending
              /\ ui'.submitted = ui.submitted
        BY <1>0, <1>a, <3>1, <1>k, ShellPushed
      <3>3. ShellLines(ui')
        BY <1>0, <3>2, ShellPush
      <3>4. QED
        BY <1>0, <3>2, <3>3, Zenon DEF ShellOk, ShellRecall
    <2>3. CASE matches = 1
      <3>1. ui' = [ui EXCEPT !.input = Shell!Typed]
        BY <2>1, <2>3
      <3>2. Shell!Typed \in Int
        BY <1>a, Zenon DEF Shell!Typed
      <3>3. QED
        BY <1>1, <3>1, <3>2
    <2>4. CASE matches = 0
      <3>1. ui' = ui
        BY <2>1, <2>4
      <3>2. QED
        BY <3>1
    <2>5. QED
      BY <2>2, <2>3, <2>4
  <1>8. ASSUME NEW i \in Int, NEW k \in Int, i >= -1, i < Len(ui.history),
               ui' = [ui EXCEPT !.hIdx = i, !.input = k]
        PROVE  ShellOk(ui')
    <2>1. /\ ui' \in ShellState /\ ui'.lines = ui.lines /\ ui'.hIdx = i
          /\ ui'.history = ui.history /\ ui'.pending = ui.pending
          /\ ui'.submitted = ui.submitted
      BY <1>0, <1>8, Zenon DEF ShellState
    <2>2. ShellLines(ui')
      BY <1>0, <2>1, Zenon DEF ShellLines, ShellAnswer, ShellOrder
    <2>3. QED
      BY <1>0, <1>8, <2>1, <2>2, Zenon DEF ShellOk, ShellRecall
  <1>9. CASE Shell!ArrowUp
    <2>1. PICK i \in Int : i = IF ui.hIdx < 0 THEN Len(ui.history) - 1
                               ELSE IF ui.hIdx > 0 THEN ui.hIdx - 1 ELSE 0
      <3>1. Len(ui.history) - 1 \in Int /\ ui.hIdx - 1 \in Int
        BY <1>0, <1>b
      <3>2. QED
        BY <1>a, <3>1, Zenon
    <2>2. ui.history # <<>>
      BY <1>9, Zenon DEF Shell!ArrowUp
    <2>3. Len(ui.history) > 0 /\ Len(ui.history) \in Nat
      BY <1>0, <2>2
    <2>4. i >= 0 /\ i < Len(ui.history) /\ i >= -1
      BY <1>0, <2>1, <2>3 DEF ShellRecall
    <2>5. i + 1 \in 1..Len(ui.history)
      BY <2>3, <2>4
    <2>6. PICK k \in Int : k = ui.history[i + 1]
      BY <1>0, <2>5
    <2>7. ui' = [ui EXCEPT !.hIdx = i, !.input = k]
      BY <1>9, <2>1, <2>6, Zenon DEF Shell!ArrowUp
    <2>8. QED
      BY <1>8, <2>4, <2>6, <2>7, Zenon
  <1>10. CASE Shell!ArrowDown
    <2>1. PICK i \in Int : i = ui.hIdx + 1
      BY <1>0
    <2>2. ui.hIdx >= 0 /\ Len(ui.history) \in Nat
      BY <1>0, <1>10 DEF Shell!ArrowDown
    <2>3. CASE i >= Len(ui.history)
      <3>1. ui' = [ui EXCEPT !.hIdx = -1, !.input = 0]
        BY <1>10, <2>1, <2>3, Zenon DEF Shell!ArrowDown
      <3>2. -1 >= -1 /\ -1 < Len(ui.history)
        BY <1>b
      <3>3. QED
        BY <1>8, <1>a, <3>1, <3>2, Zenon
    <2>4. CASE ~(i >= Len(ui.history))
      <3>1. i + 1 \in 1..Len(ui.history)
        BY <1>0, <2>1, <2>2, <2>4
      <3>2. PICK k \in Int : k = ui.history[i + 1]
        BY <1>0, <3>1
      <3>3. ui' = [ui EXCEPT !.hIdx = i, !.input = k]
        BY <1>10, <2>1, <2>4, <3>2, Zenon DEF Shell!ArrowDown
      <3>4. i >= -1 /\ i < Len(ui.history)
        BY <1>0, <1>b, <2>1, <2>2, <2>4
      <3>5. QED
        BY <1>8, <3>3, <3>4, Zenon
    <2>5. QED
      BY <2>3, <2>4
  <1>11. QED
    BY <1>2, <1>3, <1>5, <1>6, <1>7, <1>9, <1>10, Zenon DEF Shell!Next, Shell!Answered

LEMMA ShellShown == ShellOk(ui) => Shell!RecallInRange /\ Shell!ShownIsCurrent
  BY Zenon DEF ShellOk, ShellRecall, ShellLines, ShellAnswer, ShellOrder, Shell!RecallInRange,
               Shell!ShownIsCurrent

-----------------------------------------------------------------------------
(* The GPU panel.  A frame is asked for while the panel is mounted, runs   *)
(* and is visible; it runs on a live context only, and a restored context  *)
(* does not run before the effect has.                                     *)

GpuState ==
  [mounted : BOOLEAN, mode : {"loading", "ok", "nowebgl", "shaderfail"}, running : BOOLEAN,
   runningRef : BOOLEAN, rm : BOOLEAN, prefersReduced : BOOLEAN, hidden : BOOLEAN,
   ctx : {"none", "live", "lost", "released"}, lost : BOOLEAN, lossEvent : BOOLEAN,
   frames : {0, 1}, raf : BOOLEAN, listening : BOOLEAN, loop : BOOLEAN, reinit : BOOLEAN]
GpuFrames(u) ==
  /\ u.raf <=> u.frames = 1
  /\ u.frames = 1 <=> (u.mounted /\ u.running /\ ~u.hidden)
GpuRuns(u) ==
  /\ u.mounted => (u.running <=> u.runningRef)
  /\ u.mounted /\ u.running => u.mode = "ok" /\ ~u.prefersReduced
  /\ u.mounted /\ u.mode = "ok" => u.ctx = "live" /\ u.loop /\ ~u.lost /\ ~u.reinit
GpuHolds(u) ==
  /\ u.mounted /\ ~u.listening => u.ctx = "none"
  /\ ~u.mounted => ~u.listening /\ u.ctx \in {"none", "released"} /\ ~u.reinit
GpuOk(u) == u \in GpuState /\ GpuFrames(u) /\ GpuRuns(u) /\ GpuHolds(u)

\* The effect's body, on a panel that draws nothing.
LEMMA GpuEffect ==
  ASSUME NEW u \in GpuState, NEW can \in Gpu!Outcomes,
         u.mounted, ~u.running, ~u.runningRef, ~u.raf, u.frames = 0, ~u.reinit,
         can = "nowebgl" => ~u.listening /\ u.ctx = "none"
  PROVE  GpuOk(Gpu!Effect(u, can))
  <1>1. PICK v : v = Gpu!Effect(u, can)
    OBVIOUS
  <1>2. can \in {"ok", "nowebgl", "shaderfail"}
    BY Zenon DEF Gpu!Outcomes
  <1>3. CASE can = "nowebgl"
    <2>1. v = [u EXCEPT !.mode = "nowebgl"]
      BY <1>1, <1>3, Zenon DEF Gpu!Effect
    <2>2. /\ v \in GpuState /\ v.mounted /\ ~v.running /\ ~v.runningRef /\ ~v.raf
          /\ v.frames = 0 /\ ~v.reinit /\ v.mode = "nowebgl" /\ ~v.listening
          /\ v.ctx = "none"
      BY <1>3, <2>1, Zenon DEF GpuState
    <2>3. QED
      BY <1>1, <2>2, Small, Zenon DEF GpuOk, GpuFrames, GpuRuns, GpuHolds
  <1>4. CASE can # "nowebgl" /\ u.ctx \in {"lost", "released"}
    <2>1. v = [u EXCEPT !.listening = TRUE, !.mode = "nowebgl"]
      BY <1>1, <1>4, Zenon DEF Gpu!Effect
    <2>2. /\ v \in GpuState /\ v.mounted /\ ~v.running /\ ~v.runningRef /\ ~v.raf
          /\ v.frames = 0 /\ ~v.reinit /\ v.mode = "nowebgl" /\ v.listening
      BY <2>1, Zenon DEF GpuState
    <2>3. QED
      BY <1>1, <2>2, Small, Zenon DEF GpuOk, GpuFrames, GpuRuns, GpuHolds
  <1>5. CASE can = "shaderfail" /\ u.ctx \notin {"lost", "released"}
    <2>1. v = [u EXCEPT !.ctx = "live", !.listening = TRUE, !.lost = FALSE,
                        !.mode = "shaderfail"]
      BY <1>1, <1>5, Zenon DEF Gpu!Effect
    <2>2. /\ v \in GpuState /\ v.mounted /\ ~v.running /\ ~v.runningRef /\ ~v.raf
          /\ v.frames = 0 /\ ~v.reinit /\ v.mode = "shaderfail" /\ v.listening
      BY <2>1, Zenon DEF GpuState
    <2>3. QED
      BY <1>1, <2>2, Small, Zenon DEF GpuOk, GpuFrames, GpuRuns, GpuHolds
  <1>6. CASE can = "ok" /\ u.ctx \notin {"lost", "released"}
    <2>1. v = [u EXCEPT !.ctx = "live", !.listening = TRUE, !.lost = FALSE, !.loop = TRUE,
                        !.mode = "ok", !.rm = u.prefersReduced]
      BY <1>1, <1>6, Zenon DEF Gpu!Effect
    <2>2. u.prefersReduced \in BOOLEAN
      BY Zenon DEF GpuState
    <2>3. /\ v \in GpuState /\ v.mounted /\ ~v.running /\ ~v.runningRef /\ ~v.raf
          /\ v.frames = 0 /\ ~v.reinit /\ v.mode = "ok" /\ v.listening
          /\ v.ctx = "live" /\ v.loop /\ ~v.lost
      BY <2>1, <2>2, Zenon DEF GpuState
    <2>4. QED
      BY <1>1, <2>3, Small, Zenon DEF GpuOk, GpuFrames, GpuRuns, GpuHolds
  <1>7. QED
    BY <1>2, <1>3, <1>4, <1>5, <1>6, Zenon

LEMMA GpuInit == Gpu!Init => GpuOk(ui)
  <1> SUFFICES ASSUME Gpu!Init PROVE GpuOk(ui)
    OBVIOUS
  <1>1. PICK can \in Gpu!Outcomes, reduced \in BOOLEAN :
          ui = Gpu!Effect([Gpu!Blank EXCEPT !.prefersReduced = reduced], can)
    BY Zenon DEF Gpu!Init
  <1>2. PICK u : u = [Gpu!Blank EXCEPT !.prefersReduced = reduced]
    OBVIOUS
  <1>3. /\ u \in GpuState /\ u.mounted /\ ~u.running /\ ~u.runningRef /\ ~u.raf
        /\ u.frames = 0 /\ ~u.reinit /\ ~u.listening /\ u.ctx = "none"
    BY <1>2, Small, Zenon DEF Gpu!Blank, GpuState
  <1>4. QED
    BY <1>1, <1>2, <1>3, GpuEffect

LEMMA GpuCancelled ==
  ASSUME NEW u \in GpuState, u.raf <=> u.frames = 1
  PROVE  Gpu!cancelFrame(u) = [u EXCEPT !.frames = 0, !.raf = FALSE]
  <1>1. u.frames \in {0, 1}
    BY Zenon DEF GpuState
  <1>2. (IF u.raf THEN u.frames - 1 ELSE u.frames) = 0
    BY <1>1
  <1>3. QED
    BY <1>2, Zenon DEF Gpu!cancelFrame, GpuState

\* stop(): no frame is asked for, and the panel does not run.
LEMMA GpuStopped ==
  ASSUME NEW u \in GpuState, u.raf <=> u.frames = 1, GpuHolds(u),
         u.mounted /\ u.mode = "ok" => u.ctx = "live" /\ u.loop /\ ~u.lost /\ ~u.reinit
  PROVE  GpuOk(Gpu!stop(u))
  <1>1. PICK v : v = [u EXCEPT !.runningRef = FALSE, !.running = FALSE]
    OBVIOUS
  <1>2. v \in GpuState /\ (v.raf <=> v.frames = 1)
    BY <1>1, Zenon DEF GpuState
  <1>3. PICK w : w = [v EXCEPT !.frames = 0, !.raf = FALSE]
    OBVIOUS
  <1>4. w = Gpu!stop(u)
    BY <1>1, <1>2, <1>3, GpuCancelled, Zenon DEF Gpu!stop
  <1>5. /\ w \in GpuState /\ w.mounted = u.mounted /\ w.mode = u.mode /\ ~w.running
        /\ ~w.runningRef /\ w.ctx = u.ctx /\ w.lost = u.lost /\ w.frames = 0 /\ ~w.raf
        /\ w.listening = u.listening /\ w.loop = u.loop /\ w.reinit = u.reinit
    <2>1. w = [u EXCEPT !.runningRef = FALSE, !.running = FALSE, !.frames = 0, !.raf = FALSE]
      BY <1>1, <1>3, Zenon DEF GpuState
    <2>2. QED
      BY <2>1, Small, Zenon DEF GpuState
  <1>6. QED
    BY <1>4, <1>5, Small, Zenon DEF GpuOk, GpuFrames, GpuRuns, GpuHolds

\* The loss of the context: the panel stops and says so.
LEMMA GpuOnLost ==
  ASSUME NEW u \in GpuState, u.raf <=> u.frames = 1, GpuHolds(u)
  PROVE  GpuOk(Gpu!onLost(u))
  <1>1. PICK v : v = [u EXCEPT !.lost = TRUE, !.runningRef = FALSE, !.running = FALSE,
                               !.mode = "nowebgl"]
    OBVIOUS
  <1>2. v \in GpuState /\ (v.raf <=> v.frames = 1)
    BY <1>1, Zenon DEF GpuState
  <1>3. PICK w : w = [v EXCEPT !.frames = 0, !.raf = FALSE]
    OBVIOUS
  <1>4. w = Gpu!onLost(u)
    BY <1>1, <1>2, <1>3, GpuCancelled, Zenon DEF Gpu!onLost
  <1>5. /\ w \in GpuState /\ w.mounted = u.mounted /\ w.mode = "nowebgl" /\ ~w.running
        /\ ~w.runningRef /\ w.ctx = u.ctx /\ w.frames = 0 /\ ~w.raf
        /\ w.listening = u.listening /\ w.reinit = u.reinit
    <2>1. w = [u EXCEPT !.lost = TRUE, !.runningRef = FALSE, !.running = FALSE,
                        !.mode = "nowebgl", !.frames = 0, !.raf = FALSE]
      BY <1>1, <1>3, Zenon DEF GpuState
    <2>2. QED
      BY <2>1, Small, Zenon DEF GpuState
  <1>6. QED
    BY <1>4, <1>5, Small, Zenon DEF GpuOk, GpuFrames, GpuRuns, GpuHolds

\* cleanup() leaves no frame, no listener and no live context.
LEMMA GpuTeardown ==
  ASSUME NEW u, GpuOk(u), u.mounted
  PROVE  LET w == Gpu!Teardown(u)
         IN /\ w \in GpuState /\ w.mounted /\ w.frames = 0 /\ ~w.raf /\ ~w.listening
            /\ w.ctx \in {"none", "released"}
            /\ ~u.running => ~w.running /\ ~w.runningRef
  <1>0. /\ u \in GpuState /\ GpuFrames(u) /\ GpuRuns(u) /\ GpuHolds(u)
        /\ u.listening \in BOOLEAN /\ u.lossEvent \in BOOLEAN
    BY Zenon DEF GpuOk, GpuState
  <1>1. PICK c \in {"none", "live", "lost", "released"} :
          c = IF u.listening THEN "released" ELSE u.ctx
    BY <1>0, Zenon DEF GpuState
  <1>2. PICK e \in BOOLEAN : e = (u.lossEvent \/ (u.listening /\ u.ctx = "live"))
    BY <1>0
  <1>3. PICK v : v = [u EXCEPT !.listening = FALSE, !.ctx = c, !.lossEvent = e]
    OBVIOUS
  <1>4. /\ v \in GpuState /\ v.mounted /\ (v.raf <=> v.frames = 1) /\ ~v.listening
        /\ v.ctx = c /\ v.running = u.running /\ v.runningRef = u.runningRef
        /\ v.loop = u.loop /\ v.raf = u.raf /\ v.frames = u.frames
    <2>0. u \in GpuState /\ c \in {"none", "live", "lost", "released"} /\ e \in BOOLEAN
      BY <1>0, <1>1, <1>2, Zenon
    <2>1. v \in GpuState
      BY <1>3, <2>0, Zenon DEF GpuState
    <2>2. /\ v.mounted = u.mounted /\ ~v.listening
          /\ v.ctx = c /\ v.running = u.running /\ v.runningRef = u.runningRef
          /\ v.loop = u.loop /\ v.raf = u.raf /\ v.frames = u.frames
      BY <1>0, <1>3, Zenon DEF GpuState
    <2>3. QED
      BY <1>0, <2>1, <2>2, Zenon DEF GpuFrames
  <1>5. c \in {"none", "released"}
    BY <1>0, <1>1, Zenon DEF GpuHolds
  <1>6. PICK w : w = Gpu!Teardown(u)
    OBVIOUS
  <1>7. w = IF u.loop THEN [Gpu!cancelFrame(v) EXCEPT !.runningRef = FALSE] ELSE v
    BY <1>0, <1>1, <1>2, <1>3, <1>4, <1>6, Zenon DEF Gpu!Teardown, GpuState
  <1>8. CASE u.loop
    <2>1. w = [[v EXCEPT !.frames = 0, !.raf = FALSE] EXCEPT !.runningRef = FALSE]
      BY <1>4, <1>7, <1>8, GpuCancelled, Zenon
    <2>2. w = [v EXCEPT !.frames = 0, !.raf = FALSE, !.runningRef = FALSE]
      BY <1>4, <2>1, Zenon DEF GpuState
    <2>3. /\ w \in GpuState /\ w.mounted /\ w.frames = 0 /\ ~w.raf /\ ~w.listening
          /\ w.ctx = c /\ w.running = u.running /\ ~w.runningRef
      BY <1>4, <2>2, Small, Zenon DEF GpuState
    <2>4. QED
      BY <1>5, <1>6, <2>3, Zenon
  <1>9. CASE ~u.loop
    <2>1. ~u.running
      BY <1>0, <1>9, Zenon DEF GpuRuns
    <2>2. u.frames = 0 /\ ~u.raf /\ ~u.runningRef
      <3>1. u.frames \in {0, 1}
        BY <1>0, Zenon DEF GpuState
      <3>2. QED
        BY <1>0, <2>1, <3>1, Zenon DEF GpuFrames, GpuRuns
    <2>3. QED
      BY <1>4, <1>5, <1>6, <1>7, <1>9, <2>1, <2>2, Zenon
  <1>10. QED
    BY <1>8, <1>9

LEMMA GpuStep == GpuOk(ui) /\ Gpu!Next => GpuOk(ui')
  <1> SUFFICES ASSUME GpuOk(ui), Gpu!Next PROVE GpuOk(ui')
    OBVIOUS
  <1>0. /\ ui \in GpuState /\ GpuFrames(ui) /\ GpuRuns(ui) /\ GpuHolds(ui)
        /\ (ui.raf <=> ui.frames = 1) /\ ui.frames \in {0, 1}
        /\ ui.prefersReduced \in BOOLEAN /\ ui.hidden \in BOOLEAN /\ ui.raf \in BOOLEAN
        /\ ui.running \in BOOLEAN /\ ui.mounted \in BOOLEAN /\ ui.loop \in BOOLEAN
    BY Zenon DEF GpuOk, GpuState, GpuFrames
  <1>1. CASE Gpu!Toggle
    <2>1. /\ ui.mounted /\ ui.mode = "ok" /\ ~ui.hidden
          /\ ui' = IF ui.running THEN Gpu!stop(ui) ELSE Gpu!start(ui)
      BY <1>1, Zenon DEF Gpu!Toggle, Gpu!View
    <2>2. CASE ui.running
      <3>1. ui' = Gpu!stop(ui)
        BY <2>1, <2>2
      <3>2. QED
        BY <1>0, <3>1, GpuStopped, Zenon DEF GpuRuns
    <2>3. CASE ~ui.running /\ (ui.prefersReduced \/ ui.lost)
      BY <2>1, <2>3, Zenon DEF Gpu!start
    <2>4. CASE ~ui.running /\ ~(ui.prefersReduced \/ ui.lost)
      <3>1. ui.frames = 0 /\ ~ui.raf
        BY <1>0, <2>4, Zenon DEF GpuFrames
      <3>2. (IF ui.raf THEN ui.frames ELSE ui.frames + 1) = 1
        BY <3>1
      <3>3. ui' = [ui EXCEPT !.runningRef = TRUE, !.running = TRUE, !.raf = TRUE, !.frames = 1]
        BY <1>0, <2>1, <2>4, <3>2, Zenon DEF Gpu!start, GpuState
      <3>4. /\ ui' \in GpuState /\ ui'.mounted /\ ui'.mode = "ok" /\ ui'.running
            /\ ui'.runningRef /\ ~ui'.prefersReduced /\ ~ui'.hidden
            /\ ui'.ctx = ui.ctx /\ ui'.lost = ui.lost /\ ui'.frames = 1 /\ ui'.raf
            /\ ui'.listening = ui.listening /\ ui'.loop = ui.loop /\ ui'.reinit = ui.reinit
        BY <1>0, <2>1, <2>4, <3>3, Small, Zenon DEF GpuState
      <3>5. QED
        BY <1>0, <2>1, <3>4, Zenon DEF GpuOk, GpuFrames, GpuRuns, GpuHolds
    <2>5. QED
      BY <2>2, <2>3, <2>4
  <1>2. CASE Gpu!Loop
    <2>1. ui.frames > 0 /\ ~ui.hidden
      BY <1>2, Zenon DEF Gpu!Loop
    <2>2. ui.frames = 1
      BY <1>0, <2>1
    <2>3. ui.mounted /\ ui.running /\ ui.raf /\ ui.mode = "ok"
      BY <1>0, <2>2, Zenon DEF GpuFrames, GpuRuns
    <2>4. ui.runningRef /\ ~ui.lost /\ ~ui.prefersReduced
      BY <1>0, <2>3, Zenon DEF GpuRuns
    <2>5. (ui.runningRef /\ ~ui.lost /\ ~ui.prefersReduced) = TRUE
      BY <2>4
    <2>6. ui' = [ui EXCEPT !.raf = TRUE, !.frames = 1]
      BY <1>0, <1>2, <2>2, <2>5, Zenon DEF Gpu!Loop, GpuState
    <2>7. /\ ui' \in GpuState /\ ui'.mounted /\ ui'.mode = "ok" /\ ui'.running = ui.running
          /\ ui'.runningRef = ui.runningRef /\ ~ui'.prefersReduced /\ ~ui'.hidden
          /\ ui'.ctx = ui.ctx /\ ui'.lost = ui.lost /\ ui'.frames = 1 /\ ui'.raf
          /\ ui'.listening = ui.listening /\ ui'.loop = ui.loop /\ ui'.reinit = ui.reinit
      BY <1>0, <2>1, <2>3, <2>4, <2>6, Small, Zenon DEF GpuState
    <2>8. QED
      BY <1>0, <2>3, <2>4, <2>7, Zenon DEF GpuOk, GpuFrames, GpuRuns, GpuHolds
  <1>3. CASE Gpu!OnRmChange
    <2>1. PICK r \in BOOLEAN : r = ~ui.prefersReduced
      BY <1>0
    <2>2. PICK u : u = [ui EXCEPT !.prefersReduced = r, !.rm = r]
      OBVIOUS
    <2>3. ui.mounted /\ ui' = IF u.prefersReduced /\ ui.loop THEN Gpu!stop(u) ELSE u
      BY <1>0, <1>3, <2>1, <2>2, Zenon DEF Gpu!OnRmChange, GpuState
    <2>4. /\ u \in GpuState /\ u.mounted = ui.mounted /\ u.mode = ui.mode
          /\ u.running = ui.running /\ u.runningRef = ui.runningRef /\ u.prefersReduced = r
          /\ u.hidden = ui.hidden /\ u.ctx = ui.ctx /\ u.lost = ui.lost
          /\ u.frames = ui.frames /\ u.raf = ui.raf /\ u.listening = ui.listening
          /\ u.loop = ui.loop /\ u.reinit = ui.reinit
      <3>1. ui \in GpuState /\ r \in BOOLEAN
        BY <1>0, <2>1, Zenon
      <3>2. u \in GpuState
        BY <2>2, <3>1, Zenon DEF GpuState
      <3>3. u.prefersReduced = r
        BY <2>2, <3>1, Zenon DEF GpuState
      <3>4. /\ u.mounted = ui.mounted /\ u.mode = ui.mode
            /\ u.running = ui.running /\ u.runningRef = ui.runningRef
            /\ u.hidden = ui.hidden /\ u.ctx = ui.ctx /\ u.lost = ui.lost
            /\ u.frames = ui.frames /\ u.raf = ui.raf /\ u.listening = ui.listening
            /\ u.loop = ui.loop /\ u.reinit = ui.reinit
        BY <2>2, <3>1, Zenon DEF GpuState
      <3>5. QED
        BY <3>2, <3>3, <3>4
    <2>5. GpuHolds(u) /\ GpuFrames(u) /\ (u.raf <=> u.frames = 1)
      BY <1>0, <2>4, Zenon DEF GpuHolds, GpuFrames
    <2>6. u.mounted /\ u.mode = "ok" => u.ctx = "live" /\ u.loop /\ ~u.lost /\ ~u.reinit
      BY <1>0, <2>4, Zenon DEF GpuRuns
    <2>7. CASE r /\ ui.loop
      <3>1. ui' = Gpu!stop(u)
        BY <2>3, <2>4, <2>7, Zenon
      <3>2. QED
        BY <2>4, <2>5, <2>6, <3>1, GpuStopped
    <2>8. CASE ~(r /\ ui.loop)
      <3>1. ui' = u
        BY <2>3, <2>4, <2>8, Zenon
      <3>2. u.mounted /\ u.running => ~u.prefersReduced /\ u.mode = "ok"
        BY <1>0, <2>4, <2>8, Zenon DEF GpuRuns
      <3>3. QED
        BY <1>0, <2>4, <2>5, <2>6, <3>1, <3>2, Zenon DEF GpuOk, GpuRuns
    <2>9. QED
      BY <2>7, <2>8
  <1>4. CASE Gpu!OnVisibility
    <2>1. PICK h \in BOOLEAN : h = ~ui.hidden
      BY <1>0
    <2>2. PICK u : u = [ui EXCEPT !.hidden = h]
      OBVIOUS
    <2>3. /\ ui.mounted
          /\ ui' = IF ~ui.loop THEN u
                   ELSE IF u.hidden THEN Gpu!cancelFrame(u)
                   ELSE IF u.runningRef /\ ~u.lost /\ ~u.prefersReduced
                   THEN [u EXCEPT !.raf = TRUE, !.frames = IF u.raf THEN @ ELSE @ + 1]
                   ELSE u
      BY <1>0, <1>4, <2>1, <2>2, Zenon DEF Gpu!OnVisibility, GpuState
    <2>4. /\ u \in GpuState /\ u.mounted = ui.mounted /\ u.mode = ui.mode
          /\ u.running = ui.running /\ u.runningRef = ui.runningRef
          /\ u.prefersReduced = ui.prefersReduced
          /\ u.hidden = h /\ u.ctx = ui.ctx /\ u.lost = ui.lost
          /\ u.frames = ui.frames /\ u.raf = ui.raf /\ u.listening = ui.listening
          /\ u.loop = ui.loop /\ u.reinit = ui.reinit
      BY <1>0, <2>1, <2>2, Zenon DEF GpuState
    <2>5. GpuHolds(u) /\ GpuRuns(u)
      BY <1>0, <2>4, Zenon DEF GpuHolds, GpuRuns
    <2>6. CASE ~ui.running
      <3>1. ui.frames = 0 /\ ~ui.raf /\ ~ui.runningRef
        BY <1>0, <2>3, <2>6, Zenon DEF GpuFrames, GpuRuns
      <3>2. CASE ui.loop /\ h
        <4>1. ui' = [u EXCEPT !.frames = 0, !.raf = FALSE]
          BY <1>0, <2>3, <2>4, <3>2, GpuCancelled, Zenon
        <4>2. u = [u EXCEPT !.frames = 0, !.raf = FALSE]
          <5>1. u.raf = FALSE
            BY <2>4, <3>1, Zenon DEF GpuState
          <5>2. QED
            BY <2>4, <3>1, <5>1, Zenon DEF GpuState
        <4>3. QED
          BY <2>4, <2>5, <2>6, <3>1, <4>1, <4>2, Small, Zenon DEF GpuOk, GpuFrames
      <3>3. CASE ~(ui.loop /\ h)
        <4>1. ui' = u
          BY <2>3, <2>4, <3>1, <3>3, Zenon
        <4>2. QED
          BY <2>4, <2>5, <2>6, <3>1, <4>1, Small, Zenon DEF GpuOk, GpuFrames
      <3>4. QED
        BY <3>2, <3>3
    <2>7. CASE ui.running /\ h
      <3>1. ui.loop
        BY <1>0, <2>3, <2>7, Zenon DEF GpuRuns
      <3>2. ui' = [u EXCEPT !.frames = 0, !.raf = FALSE]
        BY <1>0, <2>3, <2>4, <2>7, <3>1, GpuCancelled, Zenon
      <3>3. /\ ui' \in GpuState /\ ui'.mounted = u.mounted /\ ui'.mode = u.mode
            /\ ui'.running = u.running /\ ui'.runningRef = u.runningRef
            /\ ui'.prefersReduced = u.prefersReduced
            /\ ui'.hidden /\ ui'.ctx = u.ctx /\ ui'.lost = u.lost
            /\ ui'.frames = 0 /\ ~ui'.raf /\ ui'.listening = u.listening
            /\ ui'.loop = u.loop /\ ui'.reinit = u.reinit
        BY <2>4, <2>7, <3>2, Small, Zenon DEF GpuState
      <3>4. GpuHolds(ui') /\ GpuRuns(ui') /\ GpuFrames(ui')
        BY <2>5, <3>3, Small, Zenon DEF GpuHolds, GpuRuns, GpuFrames
      <3>5. QED
        BY <3>3, <3>4, Zenon DEF GpuOk
    <2>8. CASE ui.running /\ ~h
      <3>1. ui.frames = 0 /\ ~ui.raf
        BY <1>0, <2>1, <2>8, Zenon DEF GpuFrames
      <3>2. (IF u.raf THEN u.frames ELSE u.frames + 1) = 1
        BY <2>4, <3>1
      <3>3. ui.loop /\ ui.runningRef /\ ~ui.lost /\ ~ui.prefersReduced
        BY <1>0, <2>3, <2>8, Zenon DEF GpuRuns
      <3>4. ui' = [u EXCEPT !.raf = TRUE, !.frames = 1]
        BY <2>3, <2>4, <2>8, <3>2, <3>3, Zenon DEF GpuState
      <3>5. /\ ui' \in GpuState /\ ui'.mounted = u.mounted /\ ui'.mode = u.mode
            /\ ui'.running = u.running /\ ui'.runningRef = u.runningRef
            /\ ui'.prefersReduced = u.prefersReduced
            /\ ~ui'.hidden /\ ui'.ctx = u.ctx /\ ui'.lost = u.lost
            /\ ui'.frames = 1 /\ ui'.raf /\ ui'.listening = u.listening
            /\ ui'.loop = u.loop /\ ui'.reinit = u.reinit
        BY <2>4, <2>8, <3>4, Small, Zenon DEF GpuState
      <3>6. GpuHolds(ui') /\ GpuRuns(ui') /\ GpuFrames(ui')
        BY <2>3, <2>4, <2>5, <2>8, <3>5, Zenon DEF GpuHolds, GpuRuns, GpuFrames
      <3>7. QED
        BY <3>5, <3>6, Zenon DEF GpuOk
    <2>9. QED
      BY <2>6, <2>7, <2>8
  <1>5. CASE Gpu!Lose
    <2>1. PICK u : u = [ui EXCEPT !.ctx = "lost"]
      OBVIOUS
    <2>2. ui.mounted /\ ui.ctx = "live" /\ ui' = Gpu!onLost(u)
      BY <1>5, <2>1, Zenon DEF Gpu!Lose
    <2>3. /\ u \in GpuState /\ u.mounted /\ u.listening = ui.listening /\ u.raf = ui.raf
          /\ u.frames = ui.frames
      BY <1>0, <2>1, <2>2, Zenon DEF GpuState
    <2>4. GpuHolds(u)
      <3>1. "live" # "none"
        BY Zenon
      <3>2. QED
        BY <1>0, <2>2, <2>3, <3>1, Zenon DEF GpuHolds
    <2>5. QED
      BY <1>0, <2>2, <2>3, <2>4, GpuOnLost, Zenon
  <1>6. CASE Gpu!LossDelivered
    <2>1. PICK u : u = [ui EXCEPT !.lossEvent = FALSE]
      OBVIOUS
    <2>2. ui' = IF u.listening THEN Gpu!onLost(u) ELSE u
      BY <1>6, <2>1, Zenon DEF Gpu!LossDelivered
    <2>3. /\ u \in GpuState /\ u.mounted = ui.mounted /\ u.mode = ui.mode
          /\ u.running = ui.running /\ u.runningRef = ui.runningRef
          /\ u.prefersReduced = ui.prefersReduced
          /\ u.hidden = ui.hidden /\ u.ctx = ui.ctx /\ u.lost = ui.lost
          /\ u.frames = ui.frames /\ u.raf = ui.raf /\ u.listening = ui.listening
          /\ u.loop = ui.loop /\ u.reinit = ui.reinit
      BY <1>0, <2>1, Zenon DEF GpuState
    <2>4. GpuHolds(u) /\ GpuRuns(u) /\ GpuFrames(u)
      BY <1>0, <2>3, Zenon DEF GpuHolds, GpuRuns, GpuFrames
    <2>5. CASE u.listening
      <3>1. ui' = Gpu!onLost(u)
        BY <2>2, <2>5
      <3>2. QED
        BY <1>0, <2>3, <2>4, <3>1, GpuOnLost, Zenon
    <2>6. CASE ~u.listening
      <3>1. ui' = u
        BY <2>2, <2>6
      <3>2. QED
        BY <2>3, <2>4, <3>1, Zenon DEF GpuOk
    <2>7. QED
      BY <2>5, <2>6
  <1>7. CASE Gpu!OnRestored
    <2>1. ui.mounted /\ ui.listening /\ ui.ctx = "lost"
      BY <1>7, Zenon DEF Gpu!OnRestored
    <2>2. "lost" # "live"
      BY Zenon
    <2>3. ui.mode # "ok" /\ ~ui.running
      BY <1>0, <2>1, <2>2, Zenon DEF GpuRuns
    <2>4. /\ ui' \in GpuState /\ ui'.mounted /\ ui'.mode = ui.mode
          /\ ui'.running = ui.running /\ ui'.runningRef = ui.runningRef
          /\ ui'.hidden = ui.hidden
          /\ ui'.frames = ui.frames /\ ui'.raf = ui.raf /\ ui'.listening
      BY <1>0, <1>7, <2>1, Zenon DEF Gpu!OnRestored, GpuState
    <2>5. GpuHolds(ui') /\ GpuRuns(ui') /\ GpuFrames(ui')
      BY <1>0, <2>1, <2>3, <2>4, Zenon DEF GpuHolds, GpuRuns, GpuFrames
    <2>6. QED
      BY <2>4, <2>5, Zenon DEF GpuOk
  <1>8. CASE Gpu!Reinit
    <2>1. ui.reinit /\ ui.mounted
      BY <1>0, <1>8, Zenon DEF Gpu!Reinit, GpuHolds
    <2>2. ~ui.running
      BY <1>0, <2>1, Zenon DEF GpuRuns
    <2>3. PICK w : w = Gpu!Teardown(ui)
      OBVIOUS
    <2>4. /\ w \in GpuState /\ w.mounted /\ w.frames = 0 /\ ~w.raf
          /\ ~w.running /\ ~w.runningRef
      BY <2>1, <2>2, <2>3, GpuTeardown
    <2>5. PICK v : v = [w EXCEPT !.reinit = FALSE, !.loop = FALSE]
      OBVIOUS
    <2>6. /\ v \in GpuState /\ v.mounted /\ v.frames = 0 /\ ~v.raf
          /\ ~v.running /\ ~v.runningRef /\ ~v.reinit
      BY <2>4, <2>5, Zenon DEF GpuState
    <2>7. ui' = Gpu!Effect(v, "ok")
      BY <1>8, <2>3, <2>5, Zenon DEF Gpu!Reinit
    <2>8. "ok" \in Gpu!Outcomes /\ "ok" # "nowebgl"
      BY Zenon DEF Gpu!Outcomes
    <2>9. QED
      BY <2>6, <2>7, <2>8, GpuEffect
  <1>9. CASE Gpu!Unmount
    <2>1. ui.mounted
      BY <1>9, Zenon DEF Gpu!Unmount
    <2>2. PICK w : w = Gpu!Teardown(ui)
      OBVIOUS
    <2>3. /\ w \in GpuState /\ w.frames = 0 /\ ~w.raf /\ ~w.listening
          /\ w.ctx \in {"none", "released"}
      BY <2>1, <2>2, GpuTeardown
    <2>4. ui' = [w EXCEPT !.mounted = FALSE, !.loop = FALSE, !.reinit = FALSE]
      BY <1>9, <2>2, Zenon DEF Gpu!Unmount
    <2>5. /\ ui' \in GpuState /\ ~ui'.mounted /\ ui'.frames = 0 /\ ~ui'.raf
          /\ ~ui'.listening /\ ui'.ctx \in {"none", "released"} /\ ~ui'.reinit
      BY <2>3, <2>4, Zenon DEF GpuState
    <2>6. QED
      BY <2>5, Small, Zenon DEF GpuOk, GpuFrames, GpuRuns, GpuHolds
  <1>10. QED
    BY <1>1, <1>2, <1>3, <1>4, <1>5, <1>6, <1>7, <1>8, <1>9, Zenon DEF Gpu!Next, Gpu!Answered

LEMMA GpuShown == GpuOk(ui) => Gpu!LoopsMatch /\ Gpu!Released
  <1> SUFFICES ASSUME GpuOk(ui) PROVE Gpu!LoopsMatch /\ Gpu!Released
    OBVIOUS
  <1>1. /\ GpuFrames(ui) /\ GpuRuns(ui) /\ GpuHolds(ui) /\ ui.frames \in {0, 1}
        /\ ui.raf \in BOOLEAN
    BY Zenon DEF GpuOk, GpuState
  <1>2. Gpu!LoopsMatch
    <2>1. ui.raf = (ui.frames = 1)
      BY <1>1 DEF GpuFrames
    <2>2. QED
      BY <1>1, <2>1 DEF GpuFrames, GpuRuns, Gpu!LoopsMatch
  <1>3. Gpu!Released
    BY <1>1, Zenon DEF GpuHolds, Gpu!Released
  <1>4. QED
    BY <1>2, <1>3

-----------------------------------------------------------------------------
(* The sound of the immersive page.  A listener that is still armed while  *)
(* the switch is off means that the switch was pressed without a gesture.  *)

AudioState ==
  [mounted : BOOLEAN, able : BOOLEAN, audioOn : BOOLEAN, stored : BOOLEAN,
   ctx : {"none", "open", "closed"}, loud : BOOLEAN, tick : BOOLEAN,
   silent : {"none", "playing", "paused"}, armed : BOOLEAN, bare : BOOLEAN, green : BOOLEAN,
   storedGreen : BOOLEAN, attr : BOOLEAN, rain : BOOLEAN, deja : BOOLEAN]
AudioSwitch(u) ==
  /\ u.armed \/ u.loud => u.audioOn \/ u.bare
  /\ u.mounted /\ u.audioOn /\ u.able /\ ~u.armed => u.loud
  /\ u.stored = u.audioOn /\ u.storedGreen = u.green
AudioLoops(u) ==
  /\ u.mounted => (u.tick <=> u.loud) /\ (u.loud <=> u.silent = "playing")
  /\ ~u.mounted => u.silent = "none" /\ u.ctx # "open"
AudioOk(u) == u \in AudioState /\ AudioSwitch(u) /\ AudioLoops(u)

LEMMA AudioInit == Audio!Init => AudioOk(ui)
  <1> SUFFICES ASSUME Audio!Init PROVE AudioOk(ui)
    OBVIOUS
  <1>1. PICK on, green, able \in BOOLEAN :
    ui = [mounted |-> TRUE, able |-> able, audioOn |-> on, stored |-> on, ctx |-> "none",
          loud |-> FALSE, tick |-> FALSE, silent |-> "none", armed |-> on, bare |-> FALSE,
          green |-> green, storedGreen |-> green, attr |-> green, rain |-> green,
          deja |-> FALSE]
    BY Zenon DEF Audio!Init
  <1>2. "none" # "playing"
    OBVIOUS
  <1>3. ui \in AudioState
    BY <1>1, Zenon DEF AudioState
  <1>4. /\ ui.mounted /\ ui.audioOn = on /\ ui.stored = on /\ ~ui.loud /\ ~ui.tick
        /\ ui.silent = "none" /\ ui.armed = on /\ ui.green = green /\ ui.storedGreen = green
    BY <1>1, Zenon
  <1>5. QED
    BY <1>2, <1>3, <1>4, Zenon DEF AudioOk, AudioSwitch, AudioLoops


LEMMA AudioStep == AudioOk(ui) /\ Audio!Next => AudioOk(ui')
  <1> SUFFICES ASSUME AudioOk(ui), Audio!Next PROVE AudioOk(ui')
    OBVIOUS
  <1>0. /\ ui \in AudioState /\ AudioSwitch(ui) /\ AudioLoops(ui)
        /\ ui.mounted \in BOOLEAN /\ ui.audioOn \in BOOLEAN /\ ui.armed \in BOOLEAN
        /\ ui.bare \in BOOLEAN /\ ui.green \in BOOLEAN /\ ui.able \in BOOLEAN
        /\ "none" # "playing" /\ "playing" # "paused" /\ "closed" # "open" /\ "none" # "open"
    BY Zenon DEF AudioOk, AudioState
  <1>1. CASE Audio!unlock
    <2>0. PICK v : v = [ui EXCEPT !.armed = FALSE]
      OBVIOUS
    <2>1. ui.mounted /\ ui.armed /\ ui' = Audio!enableAudio(v)
      BY <1>1, <2>0, Zenon DEF Audio!unlock
    <2>2. /\ v \in AudioState /\ v.mounted /\ ~v.armed /\ v.able = ui.able
          /\ v.audioOn = ui.audioOn /\ v.loud = ui.loud /\ v.tick = ui.tick
          /\ v.silent = ui.silent /\ v.bare = ui.bare /\ v.stored = ui.stored
          /\ v.green = ui.green /\ v.storedGreen = ui.storedGreen
      BY <1>0, <2>0, <2>1, Zenon DEF AudioState
    <2>3. CASE ~ui.able
      BY <1>0, <2>1, <2>2, <2>3, Zenon DEF AudioOk, AudioSwitch, AudioLoops, Audio!enableAudio
    <2>4. CASE ui.able
      <3>1. ui' = [v EXCEPT !.ctx = "open", !.loud = TRUE, !.tick = TRUE, !.silent = "playing"]
        BY <2>1, <2>2, <2>4, Zenon DEF Audio!enableAudio
      <3>2. /\ ui' \in AudioState /\ ui'.mounted /\ ~ui'.armed /\ ui'.able
            /\ ui'.audioOn = ui.audioOn /\ ui'.loud /\ ui'.tick
            /\ ui'.silent = "playing" /\ ui'.bare = ui.bare /\ ui'.stored = ui.stored
            /\ ui'.green = ui.green /\ ui'.storedGreen = ui.storedGreen
        BY <2>2, <2>4, <3>1, Zenon DEF AudioState
      <3>3. QED
        BY <1>0, <2>1, <3>2, Zenon DEF AudioOk, AudioSwitch, AudioLoops
    <2>5. QED
      BY <1>0, <2>3, <2>4
  <1>2. CASE Audio!toggleAudio
    <2>0. PICK on \in BOOLEAN : on = ~ui.audioOn
      BY <1>0
    <2>a. on <=> ~ui.audioOn
      BY <2>0
    <2>b. PICK b \in BOOLEAN : b = (ui.bare \/ ui.armed)
      BY <1>0
    <2>c. b <=> (ui.bare \/ ui.armed)
      BY <2>b
    <2>d. PICK v : v = [ui EXCEPT !.audioOn = on, !.stored = on, !.bare = b]
      OBVIOUS
    <2>1. ui.mounted /\ ui' = IF v.audioOn THEN Audio!enableAudio(v) ELSE Audio!disableAudio(v)
      BY <1>0, <1>2, <2>0, <2>b, <2>d, Zenon DEF Audio!toggleAudio, AudioState
    <2>2. /\ v \in AudioState /\ v.mounted /\ v.armed = ui.armed /\ v.able = ui.able
          /\ v.audioOn = on /\ v.loud = ui.loud /\ v.tick = ui.tick
          /\ v.silent = ui.silent /\ v.bare = b /\ v.stored = on
          /\ v.green = ui.green /\ v.storedGreen = ui.storedGreen
      BY <1>0, <2>1, <2>d, Zenon DEF AudioState
    <2>3. CASE on /\ ~ui.able
      BY <1>0, <2>1, <2>2, <2>3, Zenon DEF AudioOk, AudioSwitch, AudioLoops, Audio!enableAudio
    <2>4. CASE on /\ ui.able
      <3>1. ui' = [v EXCEPT !.ctx = "open", !.loud = TRUE, !.tick = TRUE, !.silent = "playing"]
        BY <2>1, <2>2, <2>4, Zenon DEF Audio!enableAudio
      <3>2. /\ ui' \in AudioState /\ ui'.mounted /\ ui'.able
            /\ ui'.audioOn = on /\ ui'.loud /\ ui'.tick
            /\ ui'.silent = "playing" /\ ui'.bare = b /\ ui'.stored = on
            /\ ui'.green = ui.green /\ ui'.storedGreen = ui.storedGreen
        BY <2>2, <2>4, <3>1, Zenon DEF AudioState
      <3>3. QED
        BY <1>0, <2>4, <3>2, Zenon DEF AudioOk, AudioSwitch, AudioLoops
    <2>5. CASE ~on
      <3>0. PICK s \in {"none", "paused"} : s = IF v.silent = "none" THEN v.silent ELSE "paused"
        BY Zenon
      <3>1. ui' = [v EXCEPT !.loud = FALSE, !.tick = FALSE, !.silent = s]
        BY <2>1, <2>2, <2>5, <3>0, Zenon DEF Audio!disableAudio, AudioState
      <3>2. /\ ui' \in AudioState /\ ui'.mounted /\ ui'.armed = ui.armed
            /\ ui'.audioOn = on /\ ~ui'.loud /\ ~ui'.tick
            /\ ui'.silent = s /\ ui'.bare = b /\ ui'.stored = on
            /\ ui'.green = ui.green /\ ui'.storedGreen = ui.storedGreen
        BY <2>2, <3>0, <3>1, Zenon DEF AudioState
      <3>3. s # "playing"
        BY <1>0, <3>0, Zenon
      <3>4. QED
        BY <1>0, <2>5, <2>c, <3>2, <3>3, Zenon DEF AudioOk, AudioSwitch, AudioLoops
    <2>6. QED
      BY <1>0, <2>3, <2>4, <2>5
  <1>3. CASE Audio!toggleTint
    <2>0. PICK g \in BOOLEAN : g = ~ui.green
      BY <1>0
    <2>1. ui' = [ui EXCEPT !.green = g, !.storedGreen = g, !.attr = g, !.rain = g, !.deja = TRUE]
      BY <1>3, <2>0, Zenon DEF Audio!toggleTint
    <2>2. ui' \in AudioState
      BY <1>0, <2>1, Zenon DEF AudioState
    <2>3. /\ ui'.mounted = ui.mounted /\ ui'.armed = ui.armed /\ ui'.able = ui.able
          /\ ui'.audioOn = ui.audioOn /\ ui'.loud = ui.loud /\ ui'.tick = ui.tick
          /\ ui'.silent = ui.silent /\ ui'.bare = ui.bare /\ ui'.stored = ui.stored
          /\ ui'.ctx = ui.ctx /\ ui'.green = g /\ ui'.storedGreen = g
      BY <1>0, <2>1, Zenon DEF AudioState
    <2>4. QED
      BY <1>0, <2>2, <2>3, Zenon DEF AudioOk, AudioSwitch, AudioLoops
  <1>4. CASE Audio!DejaOver
    <2>1. ui' = [ui EXCEPT !.deja = FALSE]
      BY <1>4, Zenon DEF Audio!DejaOver
    <2>2. ui' \in AudioState
      BY <1>0, <2>1, Zenon DEF AudioState
    <2>3. /\ ui'.mounted = ui.mounted /\ ui'.armed = ui.armed /\ ui'.able = ui.able
          /\ ui'.audioOn = ui.audioOn /\ ui'.loud = ui.loud /\ ui'.tick = ui.tick
          /\ ui'.silent = ui.silent /\ ui'.bare = ui.bare /\ ui'.stored = ui.stored
          /\ ui'.ctx = ui.ctx /\ ui'.green = ui.green /\ ui'.storedGreen = ui.storedGreen
      BY <1>0, <2>1, Zenon DEF AudioState
    <2>4. QED
      BY <1>0, <2>2, <2>3, Zenon DEF AudioOk, AudioSwitch, AudioLoops
  <1>5. CASE Audio!Unmount
    <2>0. PICK c \in {"none", "closed"} : c = IF ui.ctx = "none" THEN ui.ctx ELSE "closed"
      BY Zenon
    <2>1. ui' = [ui EXCEPT !.mounted = FALSE, !.armed = FALSE, !.deja = FALSE, !.ctx = c,
                           !.loud = FALSE, !.silent = "none"]
      BY <1>0, <1>5, <2>0, Zenon DEF Audio!Unmount, AudioState
    <2>2. ui' \in AudioState
      BY <1>0, <2>0, <2>1, Zenon DEF AudioState
    <2>3. /\ ~ui'.mounted /\ ~ui'.armed /\ ui'.audioOn = ui.audioOn /\ ~ui'.loud
          /\ ui'.silent = "none" /\ ui'.stored = ui.stored /\ ui'.ctx = c
          /\ ui'.green = ui.green /\ ui'.storedGreen = ui.storedGreen
      BY <1>0, <2>1, Zenon DEF AudioState
    <2>4. c # "open"
      BY <1>0, <2>0, Zenon
    <2>5. QED
      BY <1>0, <2>2, <2>3, <2>4, Zenon DEF AudioOk, AudioSwitch, AudioLoops
  <1>6. QED
    BY <1>1, <1>2, <1>3, <1>4, <1>5, Zenon DEF Audio!Next

LEMMA AudioShown == AudioOk(ui) => Audio!LoopsMatch /\ Audio!ShownIsCurrent
  <1> SUFFICES ASSUME AudioOk(ui) PROVE Audio!LoopsMatch /\ Audio!ShownIsCurrent
    OBVIOUS
  <1>0. ui.tick \in BOOLEAN /\ ui.loud \in BOOLEAN /\ (ui.silent = "playing") \in BOOLEAN
    BY Zenon DEF AudioOk, AudioState
  <1>1. (ui.tick <=> ui.loud) => ui.tick = ui.loud
    BY <1>0
  <1>2. (ui.loud <=> ui.silent = "playing") => ui.loud = (ui.silent = "playing")
    BY <1>0
  <1>3. QED
    BY <1>1, <1>2, Zenon DEF AudioOk, AudioSwitch, AudioLoops, Audio!LoopsMatch, Audio!ShownIsCurrent

-----------------------------------------------------------------------------
(* The two animated texts: a frame and a timer are for the text shown.     *)

RevealState ==
  [mounted : BOOLEAN, text : Int, active : BOOLEAN, wasActive : BOOLEAN, shown : Int,
   frame : Int, timer : Int, reduced : BOOLEAN, hidden : BOOLEAN]
RevealTimes(u) ==
  /\ u.text > 0 /\ u.frame \in {0, u.text} /\ u.timer \in {0, u.text}
  /\ u.mounted /\ u.frame = 0 => u.shown = u.text
  /\ ~u.mounted => u.frame = 0 /\ u.timer = 0
RevealOk(u) == u \in RevealState /\ RevealTimes(u)

LEMMA RevealInit == Matrix!Init \/ CountUp!Init => RevealOk(ui)
  <1> SUFFICES ASSUME Matrix!Init \/ CountUp!Init PROVE RevealOk(ui)
    OBVIOUS
  <1>1. PICK active, reduced \in BOOLEAN, frame \in {0, 1}, timer \in {0, 1} :
          ui = [mounted |-> TRUE, text |-> 1, active |-> active, wasActive |-> active,
                shown |-> 1, frame |-> frame, timer |-> timer, reduced |-> reduced,
                hidden |-> FALSE]
    BY Zenon DEF Matrix!Init, CountUp!Init
  <1>2. 1 \in Int /\ frame \in Int /\ timer \in Int /\ 1 > 0
    OBVIOUS
  <1>3. /\ ui \in RevealState /\ ui.mounted /\ ui.text = 1 /\ ui.shown = 1
        /\ ui.frame = frame /\ ui.timer = timer
    BY <1>1, <1>2, Zenon DEF RevealState
  <1>4. QED
    BY <1>2, <1>3, Zenon DEF RevealOk, RevealTimes

\* The effect of a new text, or of a number that becomes active.
LEMMA RevealEffect ==
  ASSUME NEW u, u \in RevealState, u.mounted, u.text > 0
  PROVE  RevealOk(Matrix!Effect(u)) /\ RevealOk(CountUp!Effect(u))
  <1>0. 0 \in Int /\ u.text \in Int /\ u.text # 0 /\ u.active \in BOOLEAN
    <2>1. u.text \in Int /\ u.active \in BOOLEAN
      BY Zenon DEF RevealState
    <2>2. QED
      BY <2>1
  <1>1. \A f, t \in {0, u.text}, s \in Int :
          (f = 0 => s = u.text) =>
            RevealOk([u EXCEPT !.wasActive = u.active, !.frame = f, !.timer = t, !.shown = s])
    <2> SUFFICES ASSUME NEW f \in {0, u.text}, NEW t \in {0, u.text}, NEW s \in Int,
                        f = 0 => s = u.text
                 PROVE  RevealOk([u EXCEPT !.wasActive = u.active, !.frame = f, !.timer = t,
                                           !.shown = s])
      OBVIOUS
    <2>1. PICK v : v = [u EXCEPT !.wasActive = u.active, !.frame = f, !.timer = t, !.shown = s]
      OBVIOUS
    <2>2. f \in Int /\ t \in Int
      BY <1>0
    <2>3. /\ v \in RevealState /\ v.mounted /\ v.text = u.text /\ v.shown = s /\ v.frame = f
          /\ v.timer = t
      BY <1>0, <2>1, <2>2, Zenon DEF RevealState
    <2>4. QED
      BY <2>1, <2>3, Zenon DEF RevealOk, RevealTimes
  <1>2. RevealOk(Matrix!Effect(u))
    <2>1. CASE u.reduced
      <3>1. Matrix!Effect(u) = [u EXCEPT !.wasActive = u.active, !.frame = 0, !.timer = 0,
                                         !.shown = u.text]
        BY <2>1, Zenon DEF Matrix!Effect, RevealState
      <3>2. QED
        BY <1>0, <1>1, <3>1, Zenon
    <2>2. CASE ~u.reduced
      <3>1. Matrix!Effect(u) = [u EXCEPT !.wasActive = u.active, !.frame = u.text,
                                         !.timer = u.text, !.shown = u.text]
        BY <2>2, Zenon DEF Matrix!Effect, RevealState
      <3>2. QED
        BY <1>0, <1>1, <3>1, Zenon
    <2>3. QED
      BY <2>1, <2>2
  <1>3. RevealOk(CountUp!Effect(u))
    <2>1. CASE ~u.reduced /\ u.active /\ ~u.wasActive
      <3>1. CountUp!Effect(u) = [u EXCEPT !.wasActive = u.active, !.frame = u.text, !.timer = 0,
                                          !.shown = u.shown]
        BY <2>1, Zenon DEF CountUp!Effect, RevealState
      <3>2. u.shown \in Int
        BY Zenon DEF RevealState
      <3>3. QED
        BY <1>0, <1>1, <3>1, <3>2, Zenon
    <2>2. CASE ~(~u.reduced /\ u.active /\ ~u.wasActive)
      <3>1. CountUp!Effect(u) = [u EXCEPT !.wasActive = u.active, !.frame = 0, !.timer = 0,
                                          !.shown = u.text]
        BY <2>2, Zenon DEF CountUp!Effect, RevealState
      <3>2. QED
        BY <1>0, <1>1, <3>1, Zenon
    <2>3. QED
      BY <2>1, <2>2
  <1>4. QED
    BY <1>2, <1>3

LEMMA RevealStep == RevealOk(ui) /\ (Matrix!Next \/ CountUp!Next) => RevealOk(ui')
  <1> SUFFICES ASSUME RevealOk(ui), Matrix!Next \/ CountUp!Next PROVE RevealOk(ui')
    OBVIOUS
  <1>0. /\ ui \in RevealState /\ RevealTimes(ui) /\ ui.text \in Int /\ ui.frame \in Int
        /\ ui.timer \in Int /\ ui.mounted \in BOOLEAN /\ ui.text > 0
        /\ ui.active \in BOOLEAN /\ ui.reduced \in BOOLEAN /\ ui.hidden \in BOOLEAN
    BY Zenon DEF RevealOk, RevealState, RevealTimes
  <1>a. ui.text # 0
    BY <1>0
  <1>1. CASE Matrix!NewText \/ CountUp!NewText
    <2>0. PICK n \in Int : n = ui.text + 1 /\ n > 0
      BY <1>0
    <2>1. PICK v : v = [ui EXCEPT !.text = n]
      OBVIOUS
    <2>2. ui.mounted /\ (ui' = Matrix!Effect(v) \/ ui' = CountUp!Effect(v))
      BY <1>0, <1>1, <2>0, <2>1, Zenon DEF Matrix!NewText, CountUp!NewText, RevealState
    <2>3. v \in RevealState /\ v.mounted /\ v.text = n
      BY <1>0, <2>1, <2>2, Zenon DEF RevealState
    <2>4. QED
      BY <2>0, <2>2, <2>3, RevealEffect
  <1>2. CASE CountUp!Activate
    <2>0. PICK b \in BOOLEAN : b = ~ui.active
      BY <1>0
    <2>1. PICK v : v = [ui EXCEPT !.active = b]
      OBVIOUS
    <2>2. ui.mounted /\ ui' = CountUp!Effect(v)
      BY <1>0, <1>2, <2>0, <2>1, Zenon DEF CountUp!Activate, RevealState
    <2>3. v \in RevealState /\ v.mounted /\ v.text = ui.text
      BY <1>0, <2>1, <2>2, Zenon DEF RevealState
    <2>4. QED
      BY <1>0, <2>2, <2>3, RevealEffect
  <1>3. CASE Matrix!FlipMotion \/ CountUp!FlipMotion \/ Matrix!Hide \/ CountUp!Hide
    <2>0. PICK r, h \in BOOLEAN : r = ~ui.reduced /\ h = ~ui.hidden
      BY <1>0
    <2>1. ui' = [ui EXCEPT !.reduced = r] \/ ui' = [ui EXCEPT !.hidden = h]
      BY <1>0, <1>3, <2>0, Zenon
         DEF Matrix!FlipMotion, CountUp!FlipMotion, Matrix!Hide, CountUp!Hide, RevealState
    <2>2. /\ ui' \in RevealState /\ ui'.mounted = ui.mounted /\ ui'.text = ui.text
          /\ ui'.shown = ui.shown /\ ui'.frame = ui.frame /\ ui'.timer = ui.timer
      BY <1>0, <2>1, Zenon DEF RevealState
    <2>3. QED
      BY <1>0, <2>2, Zenon DEF RevealOk, RevealTimes
  <1>4. CASE Matrix!tick \/ CountUp!tick
    <2>1. /\ ui.frame # 0
          /\ \/ ui' = [ui EXCEPT !.shown = 0]
             \/ ui' = [ui EXCEPT !.shown = ui.frame, !.frame = 0]
      BY <1>4, Zenon DEF Matrix!tick, CountUp!tick
    <2>2. /\ ui' \in RevealState /\ ui'.mounted = ui.mounted /\ ui'.text = ui.text
          /\ ui'.timer = ui.timer
          /\ (ui'.frame = ui.frame) \/ (ui'.frame = 0 /\ ui'.shown = ui.frame)
      BY <1>0, <2>1, Zero, Zenon DEF RevealState
    <2>3. ui.mounted /\ ui.frame = ui.text
      BY <1>0, <2>1, Zenon DEF RevealTimes
    <2>4. QED
      BY <1>0, <1>a, <2>1, <2>2, <2>3, Zenon DEF RevealOk, RevealTimes
  <1>5. CASE Matrix!settle \/ CountUp!settle
    <2>1. /\ ui.timer # 0
          /\ ui' = [ui EXCEPT !.shown = ui.timer, !.timer = 0, !.frame = 0]
      BY <1>5, Zenon DEF Matrix!settle, CountUp!settle
    <2>2. /\ ui' \in RevealState /\ ui'.mounted = ui.mounted /\ ui'.text = ui.text
          /\ ui'.timer = 0 /\ ui'.frame = 0 /\ ui'.shown = ui.timer
      BY <1>0, <2>1, Zero, Zenon DEF RevealState
    <2>3. ui.timer = ui.text
      BY <1>0, <2>1, Zenon DEF RevealTimes
    <2>4. QED
      BY <1>0, <2>2, <2>3, Zenon DEF RevealOk, RevealTimes
  <1>6. CASE Matrix!Unmount \/ CountUp!Unmount
    <2>1. ui' = [ui EXCEPT !.mounted = FALSE, !.frame = 0, !.timer = 0]
      BY <1>6, Zenon DEF Matrix!Unmount, CountUp!Unmount
    <2>2. /\ ui' \in RevealState /\ ~ui'.mounted /\ ui'.text = ui.text
          /\ ui'.timer = 0 /\ ui'.frame = 0
      BY <1>0, <2>1, Zero, Zenon DEF RevealState
    <2>3. QED
      BY <1>0, <2>2, Zenon DEF RevealOk, RevealTimes
  <1>7. QED
    BY <1>1, <1>2, <1>3, <1>4, <1>5, <1>6, Zenon
       DEF Matrix!Next, CountUp!Next, Matrix!Activate

LEMMA RevealShown ==
  RevealOk(ui) => /\ Matrix!LoopsMatch /\ Matrix!ShownIsCurrent
                  /\ CountUp!LoopsMatch /\ CountUp!ShownIsCurrent
  BY Zenon DEF RevealOk, RevealTimes, Matrix!LoopsMatch, Matrix!ShownIsCurrent, CountUp!LoopsMatch,
               CountUp!ShownIsCurrent

-----------------------------------------------------------------------------
(* The immersive page's frames.  A decode in flight always took the résumé's *)
(* own text for the final one.                                             *)

RainTexts == {"t1", "t2"}
RainState ==
  [mounted : BOOLEAN, tier : 0..3, density : Int, loop : BOOLEAN, fallback : BOOLEAN,
   revealed : BOOLEAN, text : [RainTexts -> {"final", "scramble"}],
   raf : [RainTexts -> {"", "final"}], hidden : BOOLEAN, foci : Int]
RainDecodes(u) == \A t \in RainTexts : u.raf[t] = "" => u.text[t] = "final"
RainBudget(u) == u.density >= 30 /\ u.density <= Rain!Budget(u.tier)
RainGone(u) == ~u.mounted => ~u.fallback /\ ~u.loop /\ \A t \in RainTexts : u.raf[t] = ""
RainOk(u) == u \in RainState /\ RainDecodes(u) /\ RainBudget(u) /\ RainGone(u)

LEMMA RainTier ==
  /\ \A d \in Rain!Signals : Rain!detectTier(d) \in 0..3
  /\ \A n \in 0..3 : /\ Rain!Budget(n) \in Int /\ Rain!Budget(n) >= 30
                     /\ Rain!Budget(n) <= Rain!Budget(n)
  <1>0. 0 \in 0..3 /\ 1 \in 0..3 /\ 2 \in 0..3 /\ 3 \in 0..3
    OBVIOUS
  <1>1. ASSUME NEW d \in Rain!Signals PROVE Rain!detectTier(d) \in 0..3
    BY <1>0, Zenon DEF Rain!detectTier
  <1>2. ASSUME NEW n \in 0..3
        PROVE  /\ Rain!Budget(n) \in Int /\ Rain!Budget(n) >= 30
               /\ Rain!Budget(n) <= Rain!Budget(n)
    BY DEF Rain!Budget, Rain!TierDensity
  <1>3. QED
    BY <1>1, <1>2

LEMMA RainInit == Rain!Init => RainOk(ui)
  <1> SUFFICES ASSUME Rain!Init PROVE RainOk(ui)
    OBVIOUS
  <1>1. PICK n \in 0..3, canvas \in BOOLEAN :
     ui = [mounted |-> TRUE, tier |-> n, density |-> Rain!Budget(n), loop |-> canvas,
        fallback |-> canvas, revealed |-> ~canvas, text |-> [t \in RainTexts |-> "final"],
        raf |-> [t \in RainTexts |-> ""], hidden |-> FALSE, foci |-> 0]
    BY RainTier, Zenon DEF Rain!Init, RainTexts
  <1>2. /\ Rain!Budget(n) \in Int /\ Rain!Budget(n) >= 30
        /\ Rain!Budget(n) <= Rain!Budget(n)
    BY RainTier, Zenon
  <1>3. /\ ui \in RainState /\ ui.mounted /\ ui.density = Rain!Budget(n) /\ ui.tier = n
        /\ ui.text = [t \in RainTexts |-> "final"] /\ ui.raf = [t \in RainTexts |-> ""]
    BY <1>1, <1>2, Zero, Zenon DEF RainState
  <1>4. QED
    BY <1>2, <1>3, Zenon DEF RainOk, RainDecodes, RainBudget, RainGone

\* A settled decode leaves the résumé's text; one that begins takes it for the final one.
LEMMA RainSettles ==
  ASSUME NEW u, RainOk(u), NEW ts, ts \subseteq RainTexts
  PROVE  /\ RainOk(Rain!settle(u, ts))
         /\ u.mounted => RainOk(Rain!startDecode(u, ts)) /\ Rain!startDecode(u, ts).mounted
         /\ ts = RainTexts => \A t \in RainTexts : Rain!settle(u, ts).raf[t] = ""
  <1>0. /\ u \in RainState /\ RainDecodes(u) /\ RainBudget(u) /\ RainGone(u)
        /\ u.text \in [RainTexts -> {"final", "scramble"}] /\ u.raf \in [RainTexts -> {"", "final"}]
    BY Zenon DEF RainOk, RainState
  <1>1. PICK f : f = [t \in RainTexts |-> IF t \in ts /\ u.raf[t] # "" THEN u.raf[t] ELSE u.text[t]]
    OBVIOUS
  <1>2. PICK g : g = [t \in RainTexts |-> IF t \in ts THEN "" ELSE u.raf[t]]
    OBVIOUS
  <1>3. /\ f \in [RainTexts -> {"final", "scramble"}] /\ g \in [RainTexts -> {"", "final"}]
        /\ \A t \in RainTexts : /\ g[t] = "" => f[t] = "final"
                                /\ u.raf[t] = "" => g[t] = ""
                                /\ t \in ts => f[t] = "final" /\ g[t] = ""
    <2>1. ASSUME NEW t \in RainTexts
          PROVE  /\ f[t] \in {"final", "scramble"} /\ g[t] \in {"", "final"}
                 /\ g[t] = "" => f[t] = "final"
                 /\ u.raf[t] = "" => g[t] = ""
                 /\ t \in ts => f[t] = "final" /\ g[t] = ""
      <3>1. /\ u.text[t] \in {"final", "scramble"} /\ u.raf[t] \in {"", "final"}
            /\ u.raf[t] = "" => u.text[t] = "final"
        BY <1>0, Zenon DEF RainDecodes
      <3>2. /\ f[t] = IF t \in ts /\ u.raf[t] # "" THEN u.raf[t] ELSE u.text[t]
            /\ g[t] = IF t \in ts THEN "" ELSE u.raf[t]
        BY <1>1, <1>2, Zenon
      <3>3. QED
        BY <3>1, <3>2, Zenon
    <2>2. QED
      BY <1>1, <1>2, <2>1, Zenon
  <1>4. PICK v : v = [u EXCEPT !.text = f, !.raf = g]
    OBVIOUS
  <1>5. v = Rain!settle(u, ts)
    <2>1. u.text = u.text /\ u.raf = u.raf
      OBVIOUS
    <2>2. QED
      BY <1>0, <1>1, <1>2, <1>4, Zenon DEF Rain!settle, RainState, RainTexts
  <1>6. v \in RainState
    BY <1>0, <1>3, <1>4, Zenon DEF RainState
  <1>7. /\ v.mounted = u.mounted /\ v.text = f /\ v.raf = g /\ v.density = u.density
        /\ v.tier = u.tier /\ v.fallback = u.fallback /\ v.loop = u.loop
    BY <1>0, <1>4, Zenon DEF RainState
  <1>8. RainOk(v)
    <2>1. RainGone(v)
      BY <1>0, <1>3, <1>7, Zenon DEF RainGone
    <2>2. QED
      BY <1>0, <1>3, <1>6, <1>7, <2>1, Zenon DEF RainOk, RainDecodes, RainBudget
  <1>9. PICK h : h = [t \in RainTexts |-> IF t \in ts THEN f[t] ELSE g[t]]
    OBVIOUS
  <1>10. PICK w : w = [v EXCEPT !.raf = h]
    OBVIOUS
  <1>11. w = Rain!startDecode(u, ts)
    <2>1. w = [Rain!settle(u, ts) EXCEPT !.raf = [t \in RainTexts |-> IF t \in ts THEN Rain!settle(u, ts).text[t] ELSE @[t]]]
      BY <1>5, <1>6, <1>7, <1>9, <1>10, Zenon DEF RainState
    <2>2. QED
      BY <2>1, Zenon DEF Rain!startDecode, RainTexts
  <1>12. /\ h \in [RainTexts -> {"", "final"}]
         /\ \A t \in RainTexts : h[t] = "" => f[t] = "final"
    <2>1. ASSUME NEW t \in RainTexts
          PROVE  h[t] \in {"", "final"} /\ (h[t] = "" => f[t] = "final")
      <3>1. h[t] = IF t \in ts THEN f[t] ELSE g[t]
        BY <1>9, Zenon
      <3>2. g[t] \in {"", "final"}
        BY <1>3, Zenon
      <3>3. QED
        BY <1>3, <3>1, <3>2, Zenon
    <2>2. QED
      BY <1>9, <2>1, Zenon
  <1>13. w \in RainState
    BY <1>6, <1>10, <1>12, Zenon DEF RainState
  <1>14. /\ w.mounted = u.mounted /\ w.text = f /\ w.raf = h /\ w.density = u.density
         /\ w.tier = u.tier
    BY <1>6, <1>7, <1>10, Zenon DEF RainState
  <1>15. u.mounted => RainOk(w) /\ w.mounted
    BY <1>0, <1>12, <1>13, <1>14, Zenon DEF RainOk, RainDecodes, RainBudget, RainGone
  <1>16. ts = RainTexts => \A t \in RainTexts : v.raf[t] = ""
    BY <1>3, <1>7, Zenon
  <1>17. QED
    BY <1>5, <1>8, <1>11, <1>15, <1>16, Zenon

LEMMA RainStep == RainOk(ui) /\ Rain!Next => RainOk(ui')
  <1> SUFFICES ASSUME RainOk(ui), Rain!Next PROVE RainOk(ui')
    OBVIOUS
  <1>0. /\ ui \in RainState /\ RainDecodes(ui) /\ RainBudget(ui) /\ RainGone(ui)
        /\ ui.density \in Int /\ ui.foci \in Int /\ ui.hidden \in BOOLEAN
        /\ ui.text \in [RainTexts -> {"final", "scramble"}]
        /\ ui.raf \in [RainTexts -> {"", "final"}] /\ RainTexts = {"t1", "t2"}
    BY Zenon DEF RainOk, RainState, RainTexts
  <1>1. CASE Rain!frame
    <2>1. PICK slow \in BOOLEAN, ts \in SUBSET RainTexts :
            /\ ui.loop
            /\ ui' = [(IF ts = {} THEN ui ELSE [Rain!startDecode(ui, ts) EXCEPT !.foci = @ + 1])
                      EXCEPT !.revealed = TRUE,
                             !.density = IF slow /\ @ > 30 THEN (IF @ - 20 > 30 THEN @ - 20 ELSE 30)
                                         ELSE @]
      <3>1. {} \subseteq RainTexts
        OBVIOUS
      <3>2. QED
        BY <1>0, <1>1, <3>1, Zenon DEF Rain!frame
    <2>2. ui.mounted
      BY <1>0, <2>1, Zenon DEF RainGone
    <2>3. PICK u : u = IF ts = {} THEN ui ELSE [Rain!startDecode(ui, ts) EXCEPT !.foci = @ + 1]
      OBVIOUS
    <2>4. RainOk(u) /\ u.mounted
      <3>1. CASE ts = {}
        BY <2>2, <2>3, <3>1
      <3>2. CASE ts # {}
        <4>1. PICK w : w = Rain!startDecode(ui, ts)
          OBVIOUS
        <4>2. RainOk(w) /\ w.mounted
          <5>1. ts \subseteq RainTexts
            BY <2>1
          <5>2. QED
            BY <2>2, <4>1, <5>1, RainSettles
        <4>3. w \in RainState /\ w.foci \in Int
          BY <4>2, Zenon DEF RainOk, RainState
        <4>4. PICK n \in Int : n = w.foci + 1
          BY <4>3
        <4>5. u = [w EXCEPT !.foci = n]
          BY <2>3, <3>2, <4>1, <4>3, <4>4, Zenon DEF RainState
        <4>6. u \in RainState
          BY <4>3, <4>5, Zenon DEF RainState
        <4>7. /\ u.mounted = w.mounted /\ u.text = w.text /\ u.raf = w.raf
              /\ u.density = w.density /\ u.tier = w.tier /\ u.fallback = w.fallback
              /\ u.loop = w.loop
          BY <4>3, <4>5, Zenon DEF RainState
        <4>8. QED
          BY <4>2, <4>6, <4>7, Zenon DEF RainOk, RainDecodes, RainBudget, RainGone
      <3>3. QED
        BY <3>1, <3>2
    <2>5. u \in RainState /\ u.density \in Int /\ u.tier \in 0..3
      BY <2>4, Zenon DEF RainOk, RainState
    <2>6. Rain!Budget(u.tier) \in Int /\ u.density >= 30 /\ u.density <= Rain!Budget(u.tier)
      BY <2>4, <2>5, RainTier, Zenon DEF RainOk, RainBudget
    <2>7. PICK d \in Int :
            d = IF slow /\ u.density > 30 THEN (IF u.density - 20 > 30 THEN u.density - 20 ELSE 30)
                ELSE u.density
      BY <2>5
    <2>8. d >= 30 /\ d <= Rain!Budget(u.tier)
      BY <2>5, <2>6, <2>7
    <2>9. ui' = [u EXCEPT !.revealed = TRUE, !.density = d]
      BY <2>1, <2>3, <2>5, <2>7, Zenon DEF RainState
    <2>10. ui' \in RainState
      BY <2>5, <2>9, Zenon DEF RainState
    <2>11. /\ ui'.mounted = u.mounted /\ ui'.text = u.text /\ ui'.raf = u.raf
           /\ ui'.density = d /\ ui'.tier = u.tier
      BY <2>5, <2>9, Zenon DEF RainState
    <2>12. QED
      BY <2>4, <2>8, <2>10, <2>11, Zenon DEF RainOk, RainDecodes, RainBudget, RainGone
  <1>2. CASE Rain!tick
    <2>1. PICK t \in RainTexts : /\ ui.raf[t] # ""
                                 /\ \/ ui' = [ui EXCEPT !.text[t] = "scramble"]
                                    \/ ui' = Rain!settle(ui, {t})
      BY <1>0, <1>2, Zenon DEF Rain!tick
    <2>2. CASE ui' = Rain!settle(ui, {t})
      <3>1. {t} \subseteq RainTexts
        BY <2>1
      <3>2. QED
        BY <2>2, <3>1, RainSettles
    <2>3. CASE ui' = [ui EXCEPT !.text[t] = "scramble"]
      <3>1. PICK f : f = [ui.text EXCEPT ![t] = "scramble"]
        OBVIOUS
      <3>2. ui' = [ui EXCEPT !.text = f]
        BY <1>0, <2>3, <3>1, Zenon DEF RainState
      <3>3. f \in [RainTexts -> {"final", "scramble"}]
        BY <1>0, <3>1, Zenon
      <3>4. \A x \in RainTexts : ui.raf[x] = "" => f[x] = "final"
        <4>1. ASSUME NEW x \in RainTexts, ui.raf[x] = "" PROVE f[x] = "final"
          <5>1. x # t /\ ui.text[x] = "final"
            BY <1>0, <2>1, <4>1, Zenon DEF RainDecodes
          <5>2. QED
            BY <1>0, <3>1, <4>1, <5>1, Zenon
        <4>2. QED
          BY <4>1, Zenon
      <3>5. ui' \in RainState
        BY <1>0, <3>2, <3>3, Zenon DEF RainState
      <3>6. /\ ui'.mounted = ui.mounted /\ ui'.text = f /\ ui'.raf = ui.raf
            /\ ui'.density = ui.density /\ ui'.tier = ui.tier /\ ui'.fallback = ui.fallback
            /\ ui'.loop = ui.loop
        BY <1>0, <3>2, Zenon DEF RainState
      <3>7. QED
        BY <1>0, <3>4, <3>5, <3>6, Zenon DEF RainOk, RainDecodes, RainBudget, RainGone
    <2>4. QED
      BY <2>1, <2>2, <2>3
  <1>3. CASE Rain!revealFallback \/ Rain!Hide
    <2>0. PICK b \in BOOLEAN : b = ~ui.hidden
      BY <1>0
    <2>1. \/ ui' = [ui EXCEPT !.fallback = FALSE, !.revealed = TRUE]
          \/ ui' = [ui EXCEPT !.hidden = b]
      BY <1>0, <1>3, <2>0, Zenon DEF Rain!revealFallback, Rain!Hide, RainState
    <2>2. ui' \in RainState
      BY <1>0, <2>1, Zenon DEF RainState
    <2>3. /\ ui'.mounted = ui.mounted /\ ui'.text = ui.text /\ ui'.raf = ui.raf
          /\ ui'.density = ui.density /\ ui'.tier = ui.tier /\ (ui'.fallback => ui.fallback)
          /\ ui'.loop = ui.loop
      BY <1>0, <2>1, Zenon DEF RainState
    <2>4. QED
      BY <1>0, <2>2, <2>3, Zenon DEF RainOk, RainDecodes, RainBudget, RainGone
  <1>4. CASE Rain!Unmount
    <2>1. PICK u : u = Rain!settle(ui, RainTexts)
      OBVIOUS
    <2>2. ui' = [u EXCEPT !.mounted = FALSE, !.loop = FALSE, !.fallback = FALSE, !.revealed = TRUE]
      BY <1>0, <1>4, <2>1, Zenon DEF Rain!Unmount
    <2>3. RainOk(u) /\ \A t \in RainTexts : u.raf[t] = ""
      <3>1. RainTexts \subseteq RainTexts
        OBVIOUS
      <3>2. QED
        BY <2>1, <3>1, RainSettles
    <2>4. u \in RainState
      BY <2>3, Zenon DEF RainOk
    <2>5. ui' \in RainState
      BY <2>2, <2>4, Zenon DEF RainState
    <2>6. /\ ui'.text = u.text /\ ui'.raf = u.raf /\ ui'.density = u.density
          /\ ui'.tier = u.tier /\ ~ui'.fallback /\ ~ui'.loop
      BY <2>2, <2>4, Zenon DEF RainState
    <2>7. QED
      BY <2>3, <2>5, <2>6, Zenon DEF RainOk, RainDecodes, RainBudget, RainGone
  <1>5. QED
    BY <1>1, <1>2, <1>3, <1>4, Zenon DEF Rain!Next

LEMMA RainShown == RainOk(ui) => Rain!LoopsMatch /\ Rain!ShownIsCurrent
  BY Zenon DEF RainOk, RainDecodes, RainBudget, RainGone, RainTexts, Rain!LoopsMatch,
               Rain!ShownIsCurrent

-----------------------------------------------------------------------------
(* What the local-model demo shows is the run it waits for.                *)

InferBusy(u) ==
  /\ u.mounted => (u.phase = "streaming" <=> u.stream # {})
  /\ ~u.mounted => u.stream = {}
  /\ \A s \in u.stream : s.q = u.asked
  /\ u.output \in {0, u.asked} /\ u.stats \in {0, u.asked}

LEMMA InferFresh == Infer!Init => InferBusy(ui)
  <1> SUFFICES ASSUME Infer!Init PROVE InferBusy(ui)
    OBVIOUS
  <1>1. PICK b : ui = [mounted |-> TRUE, bot |-> b, prompt |-> FALSE, output |-> 0,
                       model |-> FALSE, stats |-> 0, phase |-> "idle", error |-> "",
                       asked |-> 0, stream |-> {}]
    BY Zenon DEF Infer!Init
  <1>2. /\ ui.mounted /\ ui.phase = "idle" /\ ui.stream = {} /\ ui.output = 0 /\ ui.stats = 0
        /\ "idle" # "streaming"
    BY <1>1, Zenon
  <1>3. QED
    BY <1>2, Zenon DEF InferBusy

LEMMA InferKeeps == InferInv /\ InferBusy(ui) /\ Infer!Next => InferBusy(ui')
  <1> SUFFICES ASSUME InferInv, InferBusy(ui), Infer!Next PROVE InferBusy(ui')
    OBVIOUS
  <1>0. /\ ui \in InferState /\ ui.asked \in Nat /\ ui.mounted \in BOOLEAN
        /\ ui.stream \in SUBSET Run
        /\ "idle" # "streaming" /\ "error" # "streaming"
    BY Zenon DEF InferInv, InferState
  <1>1. ASSUME ui'.mounted = ui.mounted, ui'.phase = ui.phase, ui'.stream = ui.stream,
               ui'.asked = ui.asked, ui'.output \in {0, ui.asked}, ui'.stats \in {0, ui.asked}
        PROVE  InferBusy(ui')
    BY <1>1, Zenon DEF InferBusy
  <1>2. ASSUME ui'.mounted => ui'.phase # "streaming", ui'.stream = {},
               ui'.asked = ui.asked, ui'.output = ui.output, ui'.stats = ui.stats
        PROVE  InferBusy(ui')
    BY <1>2, Zenon DEF InferBusy
  <1>3. CASE Infer!Type
    <2>1. PICK some \in BOOLEAN : ui' = [ui EXCEPT !.prompt = some]
      BY <1>3, Zenon DEF Infer!Type
    <2>2. /\ ui'.mounted = ui.mounted /\ ui'.phase = ui.phase /\ ui'.stream = ui.stream
          /\ ui'.asked = ui.asked /\ ui'.output = ui.output /\ ui'.stats = ui.stats
      BY <1>0, <2>1, Zenon DEF InferState
    <2>3. QED
      BY <1>1, <2>2, Zenon DEF InferBusy
  <1>4. CASE Infer!Submit
    <2>1. CASE UNCHANGED ui
      BY <2>1, Zenon DEF InferBusy
    <2>2. CASE /\ ui.mounted /\ ui.phase # "streaming"
               /\ ui' = [ui EXCEPT !.phase = "error", !.error = "solve the bot check"]
      <3>1. /\ ui'.phase = "error" /\ ui'.stream = ui.stream /\ ui'.asked = ui.asked
            /\ ui'.output = ui.output /\ ui'.stats = ui.stats
        BY <1>0, <2>2, Zenon DEF InferState
      <3>2. ui.stream = {}
        BY <2>2, Zenon DEF InferBusy
      <3>3. QED
        BY <1>0, <1>2, <3>1, <3>2, Zenon
    <2>3. CASE /\ ui.mounted
               /\ ui' = [ui EXCEPT !.output = 0, !.stats = 0, !.phase = "streaming", !.error = "",
                        !.asked = @ + 1, !.stream = {[q |-> ui.asked + 1,
                                                      token |-> ui.bot.token, reading |-> FALSE]}]
      <3>1. PICK n : n = ui.asked + 1
        OBVIOUS
      <3>2. PICK r : r = [q |-> n, token |-> ui.bot.token, reading |-> FALSE]
        OBVIOUS
      <3>3. /\ ui'.mounted /\ ui'.phase = "streaming" /\ ui'.stream = {r} /\ ui'.asked = n
            /\ ui'.output = 0 /\ ui'.stats = 0
        BY <1>0, <2>3, <3>1, <3>2, Zenon DEF InferState
      <3>4. r.q = n /\ {r} # {}
        BY <3>2, Zenon
      <3>5. QED
        BY <3>3, <3>4, Zenon DEF InferBusy
    <2>4. QED
      BY <1>4, <2>1, <2>2, <2>3, Zenon DEF Infer!Submit, Infer!run
  <1>5. ASSUME NEW s \in ui.stream, NEW u, u = Infer!AfterResponse(ui, s.token)
        PROVE  /\ u \in InferState /\ u.mounted = ui.mounted
               /\ u.stream = ui.stream /\ u.phase = ui.phase /\ u.asked = ui.asked
               /\ u.output = ui.output /\ u.stats = ui.stats
    <2>1. s.token \in Nat
      BY <1>0, Zenon DEF Run
    <2>2. u = [ui EXCEPT !.bot = Used(ui.bot, s.token)]
      BY <1>0, <1>5, <2>1, InferBotted, AfterResponseIsUsed, Zenon
         DEF Infer!AfterResponse, Widget!AfterResponse
    <2>3. Used(ui.bot, s.token) \in Bot
      <3>1. s.token <= ui.bot.solved /\ TokenSound(ui.bot)
        BY Zenon DEF InferInv
      <3>2. QED
        BY <2>1, <3>1, UsedSound, Zenon DEF TokenSound
    <2>4. QED
      BY <1>0, <2>2, <2>3, Zenon DEF InferState
  <1>6. ASSUME NEW u \in InferState, u.asked = ui.asked, u.output = ui.output,
               u.stats = ui.stats, NEW why, ui' = Infer!Fail(u, why)
        PROVE  InferBusy(ui')
    <2>1. CASE u.mounted
      <3>1. /\ ui'.phase = "error" /\ ui'.stream = {} /\ ui'.asked = ui.asked
            /\ ui'.output = ui.output /\ ui'.stats = ui.stats
        BY <1>6, <2>1, Zenon DEF Infer!Fail, InferState
      <3>2. QED
        BY <1>0, <1>2, <3>1, Zenon
    <2>2. CASE ~u.mounted
      <3>1. /\ ~ui'.mounted /\ ui'.stream = {} /\ ui'.asked = ui.asked
            /\ ui'.output = ui.output /\ ui'.stats = ui.stats
        BY <1>6, <2>2, Zenon DEF Infer!Fail, InferState
      <3>2. QED
        BY <1>2, <3>1, Zenon
    <2>3. QED
      BY <2>1, <2>2
  <1>7. CASE Infer!OnRefused
    <2>1. PICK s \in ui.stream : ui' = Infer!Fail(Infer!AfterResponse(ui, s.token), "refused")
      BY <1>7, Zenon DEF Infer!OnRefused
    <2>2. PICK u : u = Infer!AfterResponse(ui, s.token)
      OBVIOUS
    <2>3. ui' = Infer!Fail(u, "refused")
      BY <2>1, <2>2, Zenon
    <2>4. QED
      BY <1>5, <1>6, <2>2, <2>3, Zenon
  <1>8. CASE Infer!OnHeaders
    <2>1. PICK s \in ui.stream : ui' = [Infer!AfterResponse(ui, s.token) EXCEPT
                                          !.stream = {[s EXCEPT !.reading = TRUE]}]
      BY <1>8, Zenon DEF Infer!OnHeaders
    <2>2. PICK u : u = Infer!AfterResponse(ui, s.token)
      OBVIOUS
    <2>3. PICK r : r = [s EXCEPT !.reading = TRUE]
      OBVIOUS
    <2>4. ui' = [u EXCEPT !.stream = {r}]
      BY <2>1, <2>2, <2>3, Zenon
    <2>5. /\ u \in InferState /\ u.mounted = ui.mounted /\ u.phase = ui.phase
          /\ u.asked = ui.asked /\ u.output = ui.output /\ u.stats = ui.stats
      BY <1>5, <2>2
    <2>6. /\ ui'.mounted = ui.mounted /\ ui'.phase = ui.phase /\ ui'.stream = {r}
          /\ ui'.asked = ui.asked /\ ui'.output = ui.output /\ ui'.stats = ui.stats
      BY <2>4, <2>5, Zenon DEF InferState
    <2>7. s \in Run /\ s.q = ui.asked /\ ui.stream # {}
      BY <1>0, Zenon DEF InferBusy
    <2>8. r.q = ui.asked /\ {r} # {}
      BY <2>3, <2>7, Zenon DEF Run
    <2>9. QED
      BY <2>6, <2>7, <2>8, Zenon DEF InferBusy
  <1>9. CASE Infer!OnFrame
    <2>1. PICK s \in ui.stream : \/ ui' = [ui EXCEPT !.model = TRUE]
                                 \/ ui' = [ui EXCEPT !.output = s.q]
                                 \/ ui' = [ui EXCEPT !.stats = s.q]
      BY <1>9, Zenon DEF Infer!OnFrame
    <2>2. /\ ui'.mounted = ui.mounted /\ ui'.phase = ui.phase /\ ui'.stream = ui.stream
          /\ ui'.asked = ui.asked /\ ui'.output \in {ui.output, s.q} /\ ui'.stats \in {ui.stats, s.q}
      BY <1>0, <2>1, Zenon DEF InferState
    <2>3. s.q = ui.asked
      BY Zenon DEF InferBusy
    <2>4. QED
      BY <1>1, <2>2, <2>3, Zenon DEF InferBusy
  <1>10. CASE Infer!OnErrorFrame
    BY <1>0, <1>6, <1>10, Zenon DEF Infer!OnErrorFrame
  <1>11. CASE Infer!OnEnd
    <2>1. PICK p : p = IF ui.mounted THEN "idle" ELSE ui.phase
      OBVIOUS
    <2>2. ui' = [ui EXCEPT !.stream = {}, !.phase = p]
      BY <1>0, <1>11, <2>1, Zenon DEF Infer!OnEnd, InferState
    <2>3. /\ ui'.mounted = ui.mounted /\ ui'.phase = p /\ ui'.stream = {}
          /\ ui'.asked = ui.asked /\ ui'.output = ui.output /\ ui'.stats = ui.stats
      BY <1>0, <2>2, Zenon DEF InferState
    <2>4. QED
      BY <1>0, <1>2, <2>1, <2>3, Zenon
  <1>12. CASE Infer!OnThrow
    BY <1>0, <1>6, <1>12, Zenon DEF Infer!OnThrow
  <1>13. CASE Infer!Unmount
    <2>1. ui' = [ui EXCEPT !.mounted = FALSE, !.stream = {}]
      BY <1>13, Zenon DEF Infer!Unmount
    <2>2. /\ ~ui'.mounted /\ ui'.stream = {}
          /\ ui'.asked = ui.asked /\ ui'.output = ui.output /\ ui'.stats = ui.stats
      BY <1>0, <2>1, Zenon DEF InferState
    <2>3. QED
      BY <1>2, <2>2, Zenon
  <1>14. CASE Infer!BotStep
    <2>1. Widget!BotStep
      BY <1>14 DEF Infer!BotStep, Infer!Engage, Infer!ScriptSettles, Infer!Solved,
                   Infer!Expired, Infer!WidgetError, Infer!WidgetUp, Infer!BotView,
                   Widget!BotStep, Widget!Engage, Widget!ScriptSettles, Widget!Solved,
                   Widget!Expired, Widget!WidgetError, Widget!WidgetUp, Widget!BotView
    <2>2. TokenSound(ui.bot)
      BY Zenon DEF InferInv
    <2>3. PICK c \in Bot : ui' = [ui EXCEPT !.bot = c]
      BY <1>0, <2>1, <2>2, InferBotted, WidgetStep, Zenon
    <2>4. /\ ui'.mounted = ui.mounted /\ ui'.phase = ui.phase /\ ui'.stream = ui.stream
          /\ ui'.asked = ui.asked /\ ui'.output = ui.output /\ ui'.stats = ui.stats
      BY <1>0, <2>3, Zenon DEF InferState
    <2>5. QED
      BY <1>1, <2>4, Zenon DEF InferBusy
  <1>15. QED
    BY <1>3, <1>4, <1>7, <1>8, <1>9, <1>10, <1>11, <1>12, <1>13, <1>14
       DEF Infer!Next, Infer!Answered

LEMMA InferShown == InferBusy(ui) => Infer!BusyMatches /\ Infer!ShownIsCurrent
  <1> SUFFICES ASSUME InferBusy(ui) PROVE Infer!BusyMatches /\ Infer!ShownIsCurrent
    OBVIOUS
  <1>1. PICK p, q \in BOOLEAN : p = (ui.phase = "streaming") /\ q = (ui.stream # {})
    BY Zenon
  <1>2. (p <=> q) => p = q
    BY <1>1
  <1>3. ui.mounted => (ui.phase = "streaming") = (ui.stream # {})
    BY <1>1, <1>2, Zenon DEF InferBusy
  <1>4. Infer!BusyMatches
    BY <1>3, Zenon DEF InferBusy, Infer!BusyMatches
  <1>5. Infer!View.text \subseteq {ui.asked} /\ Infer!View.stats \in {0, ui.asked}
    BY Zenon DEF InferBusy, Infer!View
  <1>6. QED
    BY <1>4, <1>5, Zenon DEF Infer!ShownIsCurrent

-----------------------------------------------------------------------------
(* The oracle's conversation.  The form waits exactly while a loop that    *)
(* has not failed reads, and while it waits the last message is the        *)
(* question that is being answered.                                        *)

OracleAsks(u) ==
  /\ \A s \in u.streams : ~s.failed => s.q = u.asked /\ u.mounted /\ u.phase = "streaming"
  /\ u.mounted /\ u.phase = "streaming" => \E s \in u.streams : ~s.failed
OraclePairs(m) ==
  \A i \in 1..Len(m) : m[i].role = "assistant" =>
    i > 1 /\ m[i - 1] = Oracle!Message("user", m[i].q)
OracleLast(m, q) == Len(m) > 0 /\ m[Len(m)] = Oracle!Message("user", q)
OracleTraced(t, q) == \A i \in 1..Len(t) : t[i] = q
OracleLog(u) ==
  /\ OraclePairs(u.messages) /\ OracleTraced(u.trace, u.asked)
  /\ u.mounted /\ u.phase = "streaming" => OracleLast(u.messages, u.asked)
OracleBusy(u) == ~u.cut => OracleAsks(u) /\ OracleLog(u)

LEMMA EmptyLog == OraclePairs(<<>>) /\ \A q : OracleTraced(<<>>, q)
  BY DEF OraclePairs, OracleTraced

LEMMA LogGrows ==
  ASSUME NEW S, NEW m \in Seq(S), NEW l \in S, OraclePairs(m),
         l.role = "assistant" => OracleLast(m, l.q)
  PROVE  OraclePairs(Append(m, l))
  <1> DEFINE n == Append(m, l)
  <1>1. /\ Len(m) \in Nat /\ Len(n) = Len(m) + 1 /\ n[Len(m) + 1] = l
        /\ \A i \in 1..Len(m) : n[i] = m[i]
    OBVIOUS
  <1> HIDE DEF n
  <1>2. ASSUME NEW i \in 1..Len(n), n[i].role = "assistant"
        PROVE  i > 1 /\ n[i - 1] = Oracle!Message("user", n[i].q)
    <2>1. CASE i = Len(m) + 1
      <3>1. Len(m) > 0 /\ m[Len(m)] = Oracle!Message("user", l.q) /\ n[i] = l
        BY <1>1, <1>2, <2>1, Zenon DEF OracleLast
      <3>2. i > 1 /\ i - 1 = Len(m) /\ Len(m) \in 1..Len(m)
        BY <1>1, <2>1, <3>1
      <3>3. QED
        BY <1>1, <3>1, <3>2, Zenon
    <2>2. CASE i # Len(m) + 1
      <3>1. i \in 1..Len(m)
        BY <1>1, <1>2, <2>2
      <3>2. m[i].role = "assistant"
        BY <1>1, <1>2, <3>1, Zenon
      <3>3. i > 1 /\ m[i - 1] = Oracle!Message("user", m[i].q)
        BY <3>1, <3>2, Zenon DEF OraclePairs
      <3>4. i - 1 \in 1..Len(m)
        BY <1>1, <3>1, <3>3
      <3>5. QED
        BY <1>1, <3>1, <3>3, <3>4, Zenon
    <2>3. QED
      BY <2>1, <2>2
  <1>3. OraclePairs(n)
    BY <1>2, Zenon DEF OraclePairs
  <1>4. QED
    BY <1>3 DEF n

LEMMA LastAsked ==
  ASSUME NEW S, NEW m \in Seq(S), NEW l \in S, NEW q, l = Oracle!Message("user", q)
  PROVE  OracleLast(Append(m, l), q)
  <1>1. Len(Append(m, l)) > 0 /\ Append(m, l)[Len(Append(m, l))] = l
    OBVIOUS
  <1>2. QED
    BY <1>1, Zenon DEF OracleLast

LEMMA TraceGrows ==
  ASSUME NEW t \in Seq(Nat), NEW q \in Nat, OracleTraced(t, q)
  PROVE  OracleTraced(Append(t, q), q)
  BY DEF OracleTraced

LEMMA OracleFresh == Oracle!Init => OracleBusy(ui)
  <1> SUFFICES ASSUME NEW raw, NEW b,
         ui = [mounted |-> TRUE, bot |-> b, input |-> FALSE, messages |-> <<>>,
               trace |-> <<>>, phase |-> "idle", error |-> "", context |-> Oracle!parseCtx(raw),
               asked |-> 0, streams |-> {}, cut |-> FALSE]
               PROVE OracleBusy(ui)
    BY Zenon DEF Oracle!Init
  <1>1. /\ ui.messages = <<>> /\ ui.trace = <<>> /\ ui.streams = {} /\ ui.phase = "idle"
        /\ "idle" # "streaming"
    BY Zenon
  <1>2. QED
    BY <1>1, EmptyLog, Zenon DEF OracleBusy, OracleAsks, OracleLog

\* What a form does beside the conversation.
SameTalk(u, v) ==
  /\ v.mounted = u.mounted /\ v.messages = u.messages /\ v.trace = u.trace
  /\ v.phase = u.phase /\ v.asked = u.asked /\ v.cut = u.cut
LEMMA SameBusy ==
  ASSUME NEW u, NEW v, OracleBusy(u), SameTalk(u, v), v.streams = u.streams
  PROVE  OracleBusy(v)
  BY Zenon DEF OracleBusy, OracleAsks, OracleLog, SameTalk

LEMMA OracleSpends ==
  ASSUME NEW u \in OracleState, NEW n \in Nat, TokenSound(u.bot), n <= u.bot.solved,
         NEW v, v = Oracle!AfterResponse(u, n)
  PROVE  v \in OracleState /\ SameTalk(u, v) /\ v.streams = u.streams
  <1>1. v = [u EXCEPT !.bot = Used(u.bot, n)]
    BY OracleBotted, AfterResponseIsUsed, Zenon DEF Oracle!AfterResponse, Widget!AfterResponse
  <1>2. Used(u.bot, n) \in Bot
    BY UsedSound, Zenon DEF TokenSound
  <1>3. QED
    BY <1>1, <1>2, Zenon DEF SameTalk, OracleState

\* The loop s, which had not failed, ends with an error.
LEMMA OracleFalters ==
  ASSUME OracleInv, OracleBusy(ui), ~ui.cut, NEW s \in ui.streams, ~s.failed,
         NEW u \in OracleState, SameTalk(ui, u),
         \A t \in u.streams : ~t.failed => t \in ui.streams \ {s},
         NEW why, NEW v, v = Oracle!Fail(u, why)
  PROVE  OracleBusy(v)
  <1>1. ui.mounted /\ u.mounted /\ "error" # "streaming"
    BY Zenon DEF OracleBusy, OracleAsks, SameTalk
  <1>2. v = [u EXCEPT !.phase = "error", !.error = why]
    BY <1>1, Zenon DEF Oracle!Fail
  <1>3. /\ v.phase = "error" /\ v.messages = ui.messages /\ v.trace = ui.trace
        /\ v.asked = ui.asked /\ v.streams = u.streams
    BY <1>2, Zenon DEF OracleState, SameTalk
  <1>4. \A t \in u.streams : t.failed
    BY Zenon DEF OracleInv, OneLive
  <1>5. QED
    BY <1>1, <1>3, <1>4, Zenon DEF OracleBusy, OracleAsks, OracleLog

\* The loop s, which had not failed, goes on.
LEMMA OracleReads ==
  ASSUME OracleBusy(ui), ~ui.cut, NEW s \in ui.streams, ~s.failed, NEW t, ~t.failed, t.q = s.q,
         NEW v, SameTalk(ui, v), v.streams = (ui.streams \ {s}) \cup {t}
  PROVE  OracleBusy(v)
  BY Zenon DEF OracleBusy, OracleAsks, OracleLog, SameTalk

LEMMA OracleSends == OracleInv /\ OracleBusy(ui) /\ Oracle!Submit => OracleBusy(ui')
  <1> SUFFICES ASSUME OracleInv, OracleBusy(ui), Oracle!Submit PROVE OracleBusy(ui')
    OBVIOUS
  <1>0. /\ ui \in OracleState /\ ui.asked \in Nat /\ ui.mounted /\ ui.messages \in Seq(Line)
        /\ "error" # "streaming" /\ "user" # "assistant"
    BY Zenon DEF OracleInv, OracleState, Oracle!Submit
  <1>1. CASE UNCHANGED ui
    BY <1>1, Zenon
  <1>2. CASE /\ ui.phase # "streaming"
             /\ ui' = [ui EXCEPT !.phase = "error", !.error = "solve the bot check"]
    <2>1. /\ ui'.phase = "error" /\ ui'.streams = ui.streams /\ ui'.messages = ui.messages
          /\ ui'.trace = ui.trace /\ ui'.cut = ui.cut /\ ui'.asked = ui.asked
          /\ ui'.mounted = ui.mounted
      BY <1>0, <1>2, Zenon DEF OracleState
    <2>2. QED
      BY <1>0, <1>2, <2>1, Zenon DEF OracleBusy, OracleAsks, OracleLog
  <1>3. ASSUME NEW q, q = ui.asked + 1, ui.phase # "streaming",
               ui' = [ui EXCEPT !.asked = q, !.messages = Append(@, Oracle!Message("user", q)),
                        !.input = FALSE, !.trace = <<>>, !.phase = "streaming", !.error = "",
                        !.streams = @ \cup {[q |-> q, token |-> ui.bot.token, reading |-> FALSE,
                                             text |-> FALSE, failed |-> FALSE]}]
        PROVE  OracleBusy(ui')
    <2>1. q \in Nat
      BY <1>0, <1>3
    <2>2. PICK l : l = Oracle!Message("user", q)
      OBVIOUS
    <2>3. PICK r : r = [q |-> q, token |-> ui.bot.token, reading |-> FALSE, text |-> FALSE,
                        failed |-> FALSE]
      OBVIOUS
    <2>4. l \in Line /\ l.role = "user" /\ r.q = q /\ ~r.failed
      BY <2>1, <2>2, <2>3, Zenon DEF Oracle!Message, Line
    <2>5. /\ ui'.phase = "streaming" /\ ui'.streams = ui.streams \cup {r}
          /\ ui'.messages = Append(ui.messages, l)
          /\ ui'.trace = <<>> /\ ui'.cut = ui.cut /\ ui'.asked = q /\ ui'.mounted
      BY <1>0, <1>3, <2>2, <2>3, Zenon DEF OracleState
    <2>6. OracleLast(Append(ui.messages, l), q)
      BY <1>0, <2>2, <2>4, LastAsked
    <2>7. ~ui.cut => OraclePairs(Append(ui.messages, l))
      <3>1. ~ui.cut => OraclePairs(ui.messages)
        BY Zenon DEF OracleBusy, OracleLog
      <3>2. l.role # "assistant"
        BY <1>0, <2>4, Zenon
      <3>3. QED
        BY <1>0, <2>4, <3>1, <3>2, LogGrows
    <2>8. ~ui.cut => \A s \in ui.streams : s.failed
      BY <1>3, Zenon DEF OracleBusy, OracleAsks
    <2>9. QED
      BY <2>4, <2>5, <2>6, <2>7, <2>8, EmptyLog, Zenon DEF OracleBusy, OracleAsks, OracleLog
  <1>4. QED
    BY <1>1, <1>2, <1>3, Zenon DEF Oracle!Submit, Oracle!send

LEMMA OracleKeeps == OracleInv /\ OracleBusy(ui) /\ Oracle!Next => OracleBusy(ui')
  <1> SUFFICES ASSUME OracleInv, OracleBusy(ui), Oracle!Next PROVE OracleBusy(ui')
    OBVIOUS
  <1>0. /\ ui \in OracleState /\ TokenSound(ui.bot) /\ ui.asked \in Nat
        /\ ui.messages \in Seq(Line) /\ ui.trace \in Seq(Nat) /\ ui.cut \in BOOLEAN
        /\ "idle" # "streaming"
    BY Zenon DEF OracleInv, OracleState
  <1>1. \A s \in ui.streams : s \in Loop /\ s.token \in Nat /\ s.q \in Nat
                              /\ s.token <= ui.bot.solved
    BY <1>0, Zenon DEF OracleState, Loop, OracleInv
  <1>2. \A s \in ui.streams : ~s.reading => (~ui.cut => ~s.failed)
    BY Zenon DEF OracleInv, OneLive
  <1>3. ASSUME ui'.cut = ui.cut \/ ui'.cut, ui.cut PROVE OracleBusy(ui')
    BY <1>0, <1>3, Zenon DEF OracleBusy
  <1>4. CASE Oracle!Type \/ Oracle!ClearContext
    <2>1. ui' = [ui EXCEPT !.input = TRUE] \/ ui' = [ui EXCEPT !.context = {}]
      BY <1>4, Zenon DEF Oracle!Type, Oracle!ClearContext
    <2>2. SameTalk(ui, ui') /\ ui'.streams = ui.streams
      BY <1>0, <2>1, Zenon DEF OracleState, SameTalk
    <2>3. QED
      BY <2>2, SameBusy, Zenon
  <1>5. CASE Oracle!OnRefused
    <2>1. PICK s \in ui.streams :
            /\ ~s.reading
            /\ ui' = Oracle!Fail(Oracle!AfterResponse(Oracle!Without(ui, s), s.token), "refused")
      BY <1>5, Zenon DEF Oracle!OnRefused
    <2>2. PICK w : w = Oracle!Without(ui, s)
      OBVIOUS
    <2>3. PICK u : u = Oracle!AfterResponse(w, s.token)
      OBVIOUS
    <2>4. ui' = Oracle!Fail(u, "refused")
      BY <2>1, <2>2, <2>3, Zenon
    <2>5. w \in OracleState /\ w.bot = ui.bot /\ w.streams = ui.streams \ {s} /\ SameTalk(ui, w)
      BY <1>0, <2>2, Zenon DEF Oracle!Without, OracleState, SameTalk
    <2>6. u \in OracleState /\ SameTalk(w, u) /\ u.streams = w.streams
      BY <1>0, <1>1, <2>3, <2>5, OracleSpends, Zenon
    <2>7. SameTalk(ui, u) /\ u.streams = ui.streams \ {s}
      BY <2>5, <2>6, Zenon DEF SameTalk
    <2>8. CASE ~ui.cut
      BY <1>2, <2>1, <2>4, <2>6, <2>7, <2>8, OracleFalters, Zenon
    <2>9. CASE ui.cut
      <3>1. ui'.cut = u.cut
        BY <2>4, <2>6, OracleFail, Zenon
      <3>2. QED
        BY <1>3, <2>7, <2>9, <3>1, Zenon DEF SameTalk
    <2>10. QED
      BY <2>8, <2>9
  <1>6. CASE Oracle!OnHeaders
    <2>1. PICK s \in ui.streams :
            /\ ~s.reading
            /\ ui' = Oracle!AfterResponse(Oracle!Becomes(s, [s EXCEPT !.reading = TRUE]), s.token)
      BY <1>6, Zenon DEF Oracle!OnHeaders
    <2>2. PICK t : t = [s EXCEPT !.reading = TRUE]
      OBVIOUS
    <2>3. t \in Loop /\ t.q = s.q /\ t.failed = s.failed
      BY <1>1, <2>2, Zenon DEF Loop
    <2>4. PICK w : w = Oracle!Becomes(s, t)
      OBVIOUS
    <2>5. ui' = Oracle!AfterResponse(w, s.token)
      BY <2>1, <2>2, <2>4, Zenon
    <2>6. /\ w \in OracleState /\ w.bot = ui.bot /\ w.streams = (ui.streams \ {s}) \cup {t}
          /\ SameTalk(ui, w)
      BY <1>0, <2>3, <2>4, Zenon DEF Oracle!Becomes, OracleState, SameTalk
    <2>7. SameTalk(w, ui') /\ ui'.streams = w.streams
      BY <1>0, <1>1, <2>5, <2>6, OracleSpends, Zenon
    <2>8. SameTalk(ui, ui') /\ ui'.streams = (ui.streams \ {s}) \cup {t}
      BY <2>6, <2>7, Zenon DEF SameTalk
    <2>9. CASE ~ui.cut
      BY <1>2, <2>1, <2>3, <2>8, <2>9, OracleReads, Zenon
    <2>10. CASE ui.cut
      BY <1>3, <2>8, <2>10, Zenon DEF SameTalk
    <2>11. QED
      BY <2>9, <2>10
  <1>7. CASE Oracle!OnFrame
    <2>1. PICK s \in ui.streams :
            /\ s.reading /\ ~s.failed
            /\ \/ ui' = Oracle!Becomes(s, [s EXCEPT !.text = TRUE])
               \/ ui' = IF ui.mounted THEN [ui EXCEPT !.trace = Append(@, s.q)] ELSE ui
               \/ ui' = Oracle!Fail(Oracle!Becomes(s, [s EXCEPT !.failed = TRUE]), "stream error")
      BY <1>7, Zenon DEF Oracle!OnFrame
    <2>2. CASE ui' = Oracle!Becomes(s, [s EXCEPT !.text = TRUE])
      <3>1. PICK t : t = [s EXCEPT !.text = TRUE]
        OBVIOUS
      <3>2. t \in Loop /\ t.q = s.q /\ ~t.failed
        BY <1>1, <2>1, <3>1, Zenon DEF Loop
      <3>3. SameTalk(ui, ui') /\ ui'.streams = (ui.streams \ {s}) \cup {t}
        BY <1>0, <2>2, <3>1, <3>2, Zenon DEF Oracle!Becomes, OracleState, SameTalk
      <3>4. CASE ~ui.cut
        BY <2>1, <3>2, <3>3, <3>4, OracleReads, Zenon
      <3>5. CASE ui.cut
        BY <1>3, <3>3, <3>5, Zenon DEF SameTalk
      <3>6. QED
        BY <3>4, <3>5
    <2>3. CASE ui' = IF ui.mounted THEN [ui EXCEPT !.trace = Append(@, s.q)] ELSE ui
      <3>1. CASE ui.mounted
        <4>1. PICK t : t = Append(ui.trace, s.q)
          OBVIOUS
        <4>2. ui' = [ui EXCEPT !.trace = t]
          BY <2>3, <3>1, <4>1, Zenon
        <4>3. /\ ui'.mounted = ui.mounted /\ ui'.messages = ui.messages /\ ui'.trace = t
              /\ ui'.phase = ui.phase /\ ui'.asked = ui.asked /\ ui'.cut = ui.cut
              /\ ui'.streams = ui.streams
          BY <1>0, <4>2, Zenon DEF OracleState
        <4>4. ~ui.cut => OracleTraced(t, ui.asked)
          <5>1. ~ui.cut => s.q = ui.asked /\ OracleTraced(ui.trace, ui.asked)
            BY <2>1, Zenon DEF OracleBusy, OracleAsks, OracleLog
          <5>2. QED
            BY <1>0, <4>1, <5>1, TraceGrows, Zenon
        <4>5. QED
          BY <4>3, <4>4, Zenon DEF OracleBusy, OracleAsks, OracleLog
      <3>2. CASE ~ui.mounted
        BY <2>3, <3>2, Zenon
      <3>3. QED
        BY <3>1, <3>2
    <2>4. CASE ui' = Oracle!Fail(Oracle!Becomes(s, [s EXCEPT !.failed = TRUE]), "stream error")
      <3>1. PICK t : t = [s EXCEPT !.failed = TRUE]
        OBVIOUS
      <3>2. t \in Loop /\ t.failed
        BY <1>1, <2>1, <3>1, Zenon DEF Loop
      <3>3. PICK w : w = Oracle!Becomes(s, t)
        OBVIOUS
      <3>4. /\ w \in OracleState /\ w.streams = (ui.streams \ {s}) \cup {t} /\ SameTalk(ui, w)
        BY <1>0, <3>2, <3>3, Zenon DEF Oracle!Becomes, OracleState, SameTalk
      <3>5. ui' = Oracle!Fail(w, "stream error")
        BY <2>4, <3>1, <3>3, Zenon
      <3>6. CASE ~ui.cut
        <4>1. \A x \in w.streams : ~x.failed => x \in ui.streams \ {s}
          BY <3>2, <3>4, Zenon
        <4>2. QED
          BY <2>1, <3>4, <3>5, <3>6, <4>1, OracleFalters, Zenon
      <3>7. CASE ui.cut
        <4>1. ui'.cut = w.cut
          BY <3>4, <3>5, OracleFail, Zenon
        <4>2. QED
          BY <1>3, <3>4, <3>7, <4>1, Zenon DEF SameTalk
      <3>8. QED
        BY <3>6, <3>7
    <2>5. QED
      BY <2>1, <2>2, <2>3, <2>4
  <1>8. CASE Oracle!OnEnd
    <2>1. PICK s \in ui.streams :
            ui' = IF ~ui.mounted \/ s.failed THEN Oracle!Without(ui, s)
                  ELSE [Oracle!Without(ui, s) EXCEPT
                             !.messages = IF s.text
                                          THEN Append(@, Oracle!Message("assistant", s.q)) ELSE @,
                             !.phase = "idle"]
      BY <1>8, Zenon DEF Oracle!OnEnd
    <2>2. PICK w : w = Oracle!Without(ui, s)
      OBVIOUS
    <2>3. w \in OracleState /\ w.streams = ui.streams \ {s} /\ SameTalk(ui, w)
      BY <1>0, <2>2, Zenon DEF Oracle!Without, OracleState, SameTalk
    <2>4. CASE ~ui.mounted \/ s.failed
      <3>1. ui' = w
        BY <2>1, <2>2, <2>4, Zenon
      <3>2. ~ui.cut => s.failed
        BY <2>4, Zenon DEF OracleBusy, OracleAsks
      <3>3. QED
        BY <2>3, <3>1, <3>2, Zenon DEF OracleBusy, OracleAsks, OracleLog, SameTalk
    <2>5. CASE ui.mounted /\ ~s.failed
      <3>1. PICK l : l = Oracle!Message("assistant", s.q)
        OBVIOUS
      <3>2. l \in Line /\ l.q = s.q
        BY <1>1, <3>1, Zenon DEF Oracle!Message, Line
      <3>3. PICK m : m = IF s.text THEN Append(ui.messages, l) ELSE ui.messages
        OBVIOUS
      <3>4. ui' = [w EXCEPT !.messages = m, !.phase = "idle"]
        BY <2>1, <2>2, <2>3, <2>5, <3>1, <3>3, Zenon DEF SameTalk
      <3>5. /\ ui'.mounted = w.mounted /\ ui'.messages = m /\ ui'.trace = w.trace
            /\ ui'.phase = "idle" /\ ui'.asked = w.asked /\ ui'.cut = w.cut
            /\ ui'.streams = w.streams
        BY <2>3, <3>4, Zenon DEF OracleState
      <3>6. CASE ~ui.cut
        <4>1. /\ s.q = ui.asked /\ OraclePairs(ui.messages) /\ OracleLast(ui.messages, ui.asked)
              /\ OracleTraced(ui.trace, ui.asked)
          BY <2>5, <3>6, Zenon DEF OracleBusy, OracleAsks, OracleLog
        <4>2. OraclePairs(Append(ui.messages, l))
          BY <1>0, <3>2, <4>1, LogGrows
        <4>3. OraclePairs(m)
          BY <3>3, <4>1, <4>2, Zenon
        <4>4. \A x \in ui'.streams : x.failed
          BY <2>3, <2>5, <3>5, <3>6, Zenon DEF OracleInv, OneLive
        <4>5. QED
          BY <1>0, <2>3, <3>5, <4>1, <4>3, <4>4, Zenon
             DEF OracleBusy, OracleAsks, OracleLog, SameTalk
      <3>7. CASE ui.cut
        BY <1>3, <2>3, <3>5, <3>7, Zenon DEF SameTalk
      <3>8. QED
        BY <3>6, <3>7
    <2>6. QED
      BY <2>4, <2>5
  <1>9. CASE Oracle!OnThrow
    <2>1. PICK s \in ui.streams :
            ui' = Oracle!Fail([Oracle!Without(ui, s) EXCEPT !.cut = @ \/ s.failed], "faltered")
      BY <1>9, Zenon DEF Oracle!OnThrow
    <2>2. PICK w : w = Oracle!Without(ui, s)
      OBVIOUS
    <2>3. w \in OracleState /\ w.streams = ui.streams \ {s} /\ SameTalk(ui, w)
      BY <1>0, <2>2, Zenon DEF Oracle!Without, OracleState, SameTalk
    <2>4. PICK c \in BOOLEAN : c = (w.cut \/ s.failed)
      OBVIOUS
    <2>5. PICK u : u = [w EXCEPT !.cut = c]
      OBVIOUS
    <2>6. /\ u \in OracleState /\ u.streams = ui.streams \ {s} /\ u.cut = c
          /\ u.mounted = ui.mounted /\ u.messages = ui.messages /\ u.trace = ui.trace
          /\ u.phase = ui.phase /\ u.asked = ui.asked
      BY <2>3, <2>5, Zenon DEF OracleState, SameTalk
    <2>7. ui' = Oracle!Fail(u, "faltered")
      BY <2>1, <2>2, <2>4, <2>5, Zenon
    <2>8. CASE ui.cut \/ s.failed
      <3>1. c
        BY <2>3, <2>4, <2>8 DEF SameTalk
      <3>2. ui'.cut = u.cut
        BY <2>6, <2>7, OracleFail, Zenon
      <3>3. QED
        BY <2>6, <3>1, <3>2, Zenon DEF OracleBusy
    <2>9. CASE ~ui.cut /\ ~s.failed
      <3>1. c = ui.cut
        BY <1>0, <2>3, <2>4, <2>9 DEF SameTalk
      <3>2. SameTalk(ui, u)
        BY <2>6, <3>1, Zenon DEF SameTalk
      <3>3. QED
        BY <2>6, <2>7, <2>9, <3>2, OracleFalters, Zenon
    <2>10. QED
      BY <2>8, <2>9
  <1>10. CASE Oracle!Unmount
    <2>1. PICK ss : ss = {s \in ui.streams : s.q # ui.asked}
      OBVIOUS
    <2>2. ui' = [ui EXCEPT !.mounted = FALSE, !.streams = ss]
      BY <1>0, <1>10, <2>1, Zenon DEF Oracle!Unmount, OracleState
    <2>3. /\ ~ui'.mounted /\ ui'.messages = ui.messages /\ ui'.trace = ui.trace
          /\ ui'.phase = ui.phase /\ ui'.asked = ui.asked /\ ui'.cut = ui.cut
          /\ ui'.streams = ss
      BY <1>0, <2>2, Zenon DEF OracleState
    <2>4. ~ui.cut => \A s \in ss : s.failed
      BY <2>1, Zenon DEF OracleBusy, OracleAsks
    <2>5. QED
      BY <2>3, <2>4, Zenon DEF OracleBusy, OracleAsks, OracleLog
  <1>11. CASE Oracle!BotStep
    <2>1. Widget!BotStep
      BY <1>11 DEF Oracle!BotStep, Oracle!Engage, Oracle!ScriptSettles, Oracle!Solved,
                   Oracle!Expired, Oracle!WidgetError, Oracle!WidgetUp, Oracle!BotView,
                   Widget!BotStep, Widget!Engage, Widget!ScriptSettles, Widget!Solved,
                   Widget!Expired, Widget!WidgetError, Widget!WidgetUp, Widget!BotView
    <2>2. PICK c \in Bot : ui' = [ui EXCEPT !.bot = c]
      BY <1>0, <2>1, OracleBotted, WidgetStep, Zenon
    <2>3. SameTalk(ui, ui') /\ ui'.streams = ui.streams
      BY <1>0, <2>2, Zenon DEF OracleState, SameTalk
    <2>4. QED
      BY <2>3, SameBusy, Zenon
  <1>12. QED
    BY OracleSends, <1>4, <1>5, <1>6, <1>7, <1>8, <1>9, <1>10, <1>11
       DEF Oracle!Next, Oracle!Answered

\* A set whose elements are all equal has one of them, or none.
LEMMA OneOrNone ==
  ASSUME NEW S, \A s, t \in S : s = t
  PROVE  Cardinality(S) = IF S # {} THEN 1 ELSE 0
  <1>1. CASE S = {}
    BY <1>1, FS_EmptySet
  <1>2. CASE S # {}
    <2>1. PICK x : x \in S
      BY <1>2
    <2>2. S = {x}
      BY <2>1
    <2>3. QED
      BY <1>2, <2>2, FS_Singleton
  <1>3. QED
    BY <1>1, <1>2

LEMMA OracleShown == OracleInv /\ OracleBusy(ui) => Oracle!BusyMatches /\ Oracle!ShownIsCurrent
  <1> SUFFICES ASSUME OracleInv, OracleBusy(ui) PROVE Oracle!BusyMatches /\ Oracle!ShownIsCurrent
    OBVIOUS
  <1>1. Oracle!ShownIsCurrent
    BY Zenon DEF OracleBusy, OracleLog, OraclePairs, OracleTraced, Oracle!ShownIsCurrent
  <1>2. PICK L : L = {s \in ui.streams : ~s.failed}
    OBVIOUS
  <1>3. L = Oracle!Live /\ \A S : Oracle!Cardinality(S) = Cardinality(S)
    BY <1>2, Zenon DEF Oracle!Live, Cardinality, Oracle!Cardinality
  <1>4. ~ui.cut => \A s, t \in L : s = t
    BY <1>2, Zenon DEF OracleInv, OneLive
  <1>5. ~ui.cut => Cardinality(L) = IF L # {} THEN 1 ELSE 0
    BY <1>4, OneOrNone
  <1>6. ui.mounted /\ ~ui.cut => (L # {} <=> ui.phase = "streaming")
    BY <1>2, Zenon DEF OracleBusy, OracleAsks
  <1>7. ui.mounted /\ ~ui.cut => Cardinality(L) = IF ui.phase = "streaming" THEN 1 ELSE 0
    BY <1>5, <1>6, Zenon
  <1>8. ~ui.cut => \A s \in L : s.q = ui.asked
    BY <1>2, Zenon DEF OracleBusy, OracleAsks
  <1>9. Oracle!View.thinking = (ui.phase = "streaming")
    BY Zenon DEF Oracle!View
  <1>10. Oracle!BusyMatches
    BY <1>3, <1>7, <1>8, <1>9, Zenon DEF Oracle!BusyMatches
  <1>11. QED
    BY <1>1, <1>10

LEMMA SomeAsset == Assets # {}
  BY TabAssumption, Zenon

-----------------------------------------------------------------------------
(* The build verifier.  While a run is out, an asset whose bytes differed   *)
(* is exactly one whose check went past the cache.                         *)

AuthStates == {"idle", "hashing", "plain", "busted", "pass", "stale", "mismatch", "fetchfail",
               "recheckfail"}
AuthState ==
  [mounted : BOOLEAN, supported : BOOLEAN, running : BOOLEAN, runs : Int,
   pc : [Assets -> AuthStates], states : [Assets -> AuthStates],
   overall : {"", "pass", "inconclusive", "stale", "mismatch"},
   core : {"out", "build", "none"}, sig : {"checking", "signed", "unsigned"},
   good : SUBSET Assets, bad : SUBSET Assets]
AuthBusy(u) == u.mounted => \A a \in Assets : u.running <=> u.states[a] = "hashing"
AuthChecks(u) ==
  \A a \in Assets :
    /\ a \in u.bad <=> u.pc[a] \in {"busted", "stale", "mismatch", "recheckfail"}
    /\ u.pc[a] = "stale" => a \in u.good
    /\ u.pc[a] # "hashing"
AuthSaid(u) ==
  /\ u.overall = "pass" => u.bad = {}
  /\ u.overall = "stale" => u.bad # {} /\ u.bad \subseteq u.good
  /\ u.overall = "mismatch" => u.bad # {}
  /\ u.running => u.overall = ""
AuthOk(u) == u \in AuthState /\ AuthBusy(u) /\ AuthChecks(u) /\ AuthSaid(u)

LEMMA AuthInit == Auth!Init => AuthOk(ui)
  <1> SUFFICES ASSUME Auth!Init PROVE AuthOk(ui)
    OBVIOUS
  <1>1. PICK can \in BOOLEAN :
    ui = [mounted |-> TRUE, supported |-> can, running |-> FALSE, runs |-> 0,
        pc |-> [a \in Assets |-> "idle"], states |-> [a \in Assets |-> "idle"],
        overall |-> "", core |-> "out", sig |-> "checking", good |-> {}, bad |-> {}]
    BY Zenon DEF Auth!Init
  <1>2. [a \in Assets |-> "idle"] \in [Assets -> AuthStates] /\ {} \in SUBSET Assets
    BY Zenon DEF AuthStates
  <1>3. ui \in AuthState
    BY <1>1, <1>2, Zero, Zenon DEF AuthState
  <1>4. /\ ~ui.running /\ ui.pc = [a \in Assets |-> "idle"]
        /\ ui.states = [a \in Assets |-> "idle"] /\ ui.overall = "" /\ ui.bad = {}
    BY <1>1, Zenon
  <1>5. AuthBusy(ui) /\ AuthChecks(ui)
    BY <1>4, Zenon DEF AuthBusy, AuthChecks
  <1>6. QED
    BY <1>3, <1>4, <1>5, Zenon DEF AuthOk, AuthSaid

LEMMA AuthStep == AuthOk(ui) /\ Auth!Next => AuthOk(ui')
  <1> SUFFICES ASSUME AuthOk(ui), Auth!Next PROVE AuthOk(ui')
    OBVIOUS
  <1>0. /\ ui \in AuthState /\ AuthBusy(ui) /\ AuthChecks(ui) /\ AuthSaid(ui)
        /\ ui.mounted \in BOOLEAN /\ ui.running \in BOOLEAN /\ ui.runs \in Int
        /\ ui.pc \in [Assets -> AuthStates] /\ ui.states \in [Assets -> AuthStates]
        /\ ui.good \in SUBSET Assets /\ ui.bad \in SUBSET Assets
    BY Zenon DEF AuthOk, AuthState
  <1>1. CASE Auth!OnCore \/ Auth!OnSig
    <2>1. PICK c \in {"out", "build", "none"}, g \in {"checking", "signed", "unsigned"} :
            ui' = [ui EXCEPT !.core = c] \/ ui' = [ui EXCEPT !.sig = g]
      BY <1>1, Zenon DEF Auth!OnCore, Auth!OnSig
    <2>2. /\ ui' \in AuthState /\ ui'.mounted = ui.mounted /\ ui'.running = ui.running
          /\ ui'.pc = ui.pc /\ ui'.states = ui.states /\ ui'.overall = ui.overall
          /\ ui'.good = ui.good /\ ui'.bad = ui.bad
      BY <1>0, <2>1, Zenon DEF AuthState
    <2>3. QED
      BY <1>0, <2>2, Zenon DEF AuthOk, AuthBusy, AuthChecks, AuthSaid
  <1>2. CASE Auth!Click
    <2>0. PICK n \in Int : n = ui.runs + 1
      BY <1>0
    <2>1. CASE UNCHANGED ui
      BY <1>0, <2>1, Zenon DEF AuthOk
    <2>2. CASE ui' = [ui EXCEPT !.running = TRUE, !.overall = "", !.runs = @ + 1,
                        !.states = [a \in Assets |-> "hashing"],
                        !.pc = [a \in Assets |-> "plain"], !.good = {}, !.bad = {}]
      <3>1. PICK f, g : f = [a \in Assets |-> "hashing"] /\ g = [a \in Assets |-> "plain"]
        OBVIOUS
      <3>2. /\ f \in [Assets -> AuthStates] /\ g \in [Assets -> AuthStates]
            /\ \A a \in Assets : f[a] = "hashing" /\ g[a] = "plain"
        BY <3>1, Zenon DEF AuthStates
      <3>3. ui' = [ui EXCEPT !.running = TRUE, !.overall = "", !.runs = n,
                        !.states = f, !.pc = g, !.good = {}, !.bad = {}]
        BY <1>0, <2>0, <2>2, <3>1, Zenon DEF AuthState
      <3>4. ui' \in AuthState
        <4>1. {} \in SUBSET Assets
          OBVIOUS
        <4>2. QED
          BY <1>0, <3>2, <3>3, <4>1, Zenon DEF AuthState
      <3>5. /\ ui'.running /\ ui'.pc = g /\ ui'.states = f /\ ui'.overall = ""
            /\ ui'.good = {} /\ ui'.bad = {}
        BY <1>0, <3>3, Zenon DEF AuthState
      <3>6. AuthBusy(ui') /\ AuthChecks(ui')
        BY <3>2, <3>5, Zenon DEF AuthBusy, AuthChecks
      <3>7. QED
        BY <3>4, <3>5, <3>6, Zenon DEF AuthOk, AuthSaid
    <2>3. QED
      BY <1>2, <2>1, <2>2, Zenon DEF Auth!Click, Auth!verify
  \* One asset's check moves on while a run is out.
  <1>3. ASSUME NEW a \in Assets, NEW p \in AuthStates, NEW bad \in SUBSET Assets,
               NEW good \in SUBSET Assets, ui.running,
               ui' = [ui EXCEPT !.pc = [ui.pc EXCEPT ![a] = p], !.bad = bad, !.good = good],
               a \in bad <=> p \in {"busted", "stale", "mismatch", "recheckfail"},
               p = "stale" => a \in good, p # "hashing",
               bad \in {ui.bad, ui.bad \cup {a}}, good \in {ui.good, ui.good \cup {a}}
        PROVE  AuthOk(ui')
    <2>1. PICK f : f = [ui.pc EXCEPT ![a] = p]
      OBVIOUS
    <2>2. f \in [Assets -> AuthStates] /\ f[a] = p /\ \A b \in Assets : b # a => f[b] = ui.pc[b]
      BY <1>0, <1>3, <2>1, Zenon
    <2>3. ui' = [ui EXCEPT !.pc = f, !.bad = bad, !.good = good]
      BY <1>3, <2>1, Zenon
    <2>4. ui' \in AuthState
      BY <1>0, <1>3, <2>2, <2>3, Zenon DEF AuthState
    <2>5. /\ ui'.mounted = ui.mounted /\ ui'.running = ui.running /\ ui'.states = ui.states
          /\ ui'.overall = ui.overall /\ ui'.pc = f /\ ui'.bad = bad /\ ui'.good = good
      BY <1>0, <2>3, Zenon DEF AuthState
    <2>6. AuthChecks(ui')
      <3>1. ASSUME NEW b \in Assets
            PROVE  /\ b \in bad <=> f[b] \in {"busted", "stale", "mismatch", "recheckfail"}
                   /\ f[b] = "stale" => b \in good
                   /\ f[b] # "hashing"
        <4>1. CASE b = a
          BY <1>3, <2>2, <4>1, Zenon
        <4>2. CASE b # a
          <5>1. f[b] = ui.pc[b] /\ (b \in bad <=> b \in ui.bad) /\ (b \in ui.good => b \in good)
            BY <1>3, <2>2, <4>2, Zenon
          <5>2. QED
            BY <1>0, <5>1, Zenon DEF AuthChecks
        <4>3. QED
          BY <4>1, <4>2
      <3>2. QED
        BY <2>5, <3>1, Zenon DEF AuthChecks
    <2>7. ui.overall = "" /\ "" # "pass" /\ "" # "stale" /\ "" # "mismatch"
      BY <1>0, <1>3, Zenon DEF AuthSaid
    <2>8. QED
      BY <1>0, <2>4, <2>5, <2>6, <2>7, Zenon DEF AuthOk, AuthBusy, AuthSaid
  <1>4. CASE Auth!OnPlain
    <2>1. PICK a \in Assets, got \in {"match", "other", "failed"} :
            /\ ui.running /\ ui.pc[a] = "plain"
            /\ ui' = [ui EXCEPT !.pc[a] = CASE got = "match" -> "pass" [] got = "other" -> "busted"
                                           [] OTHER -> "fetchfail",
                                !.bad = IF got = "other" THEN @ \cup {a} ELSE @]
      BY <1>4, Zenon DEF Auth!OnPlain
    <2>2. PICK p : p = CASE got = "match" -> "pass" [] got = "other" -> "busted"
                         [] OTHER -> "fetchfail"
      OBVIOUS
    <2>3. PICK bad : bad = IF got = "other" THEN ui.bad \cup {a} ELSE ui.bad
      OBVIOUS
    <2>4. /\ got = "match" => p = "pass"
          /\ got = "other" => p = "busted"
          /\ got = "failed" => p = "fetchfail"
      BY <2>2, Zenon
    <2>5. a \notin ui.bad
      BY <1>0, <2>1, Zenon DEF AuthChecks
    <2>6. bad \in SUBSET Assets /\ bad \in {ui.bad, ui.bad \cup {a}}
      BY <1>0, <2>3, Zenon
    <2>7. /\ p \in AuthStates /\ p # "stale" /\ p # "hashing"
          /\ a \in bad <=> p \in {"busted", "stale", "mismatch", "recheckfail"}
      BY <2>1, <2>3, <2>4, <2>5, Zenon DEF AuthStates
    <2>8. ui' = [ui EXCEPT !.pc = [ui.pc EXCEPT ![a] = p], !.bad = bad, !.good = ui.good]
      BY <1>0, <2>1, <2>2, <2>3, Zenon DEF AuthState
    <2>9. ui.bad \in SUBSET Assets /\ ui.good \in SUBSET Assets /\ ui.running
      BY <1>0, <2>1, Zenon
    <2>10. QED
      BY <1>3, <2>6, <2>7, <2>8, <2>9
  <1>5. CASE Auth!OnBusted
    <2>1. PICK a \in Assets, got \in {"match", "other", "failed"} :
            /\ ui.running /\ ui.pc[a] = "busted"
            /\ ui' = [ui EXCEPT !.pc[a] = CASE got = "match" -> "stale" [] got = "other" -> "mismatch"
                                            [] OTHER -> "recheckfail",
                                !.good = IF got = "match" THEN @ \cup {a} ELSE @]
      BY <1>5, Zenon DEF Auth!OnBusted
    <2>2. PICK p : p = CASE got = "match" -> "stale" [] got = "other" -> "mismatch"
                         [] OTHER -> "recheckfail"
      OBVIOUS
    <2>3. PICK good : good = IF got = "match" THEN ui.good \cup {a} ELSE ui.good
      OBVIOUS
    <2>4. /\ got = "match" => p = "stale"
          /\ got = "other" => p = "mismatch"
          /\ got = "failed" => p = "recheckfail"
      BY <2>2, Zenon
    <2>5. a \in ui.bad
      BY <1>0, <2>1, Zenon DEF AuthChecks
    <2>6. good \in SUBSET Assets /\ good \in {ui.good, ui.good \cup {a}}
      BY <1>0, <2>3, Zenon
    <2>7. /\ p \in AuthStates /\ (p = "stale" => a \in good) /\ p # "hashing"
          /\ a \in ui.bad <=> p \in {"busted", "stale", "mismatch", "recheckfail"}
      BY <2>1, <2>3, <2>4, <2>5, Zenon DEF AuthStates
    <2>8. ui' = [ui EXCEPT !.pc = [ui.pc EXCEPT ![a] = p], !.bad = ui.bad, !.good = good]
      BY <1>0, <2>1, <2>2, <2>3, Zenon DEF AuthState
    <2>9. ui.bad \in SUBSET Assets /\ ui.good \in SUBSET Assets /\ ui.running
      BY <1>0, <2>1, Zenon
    <2>10. QED
      BY <1>3, <2>6, <2>7, <2>8, <2>9
  <1>6. CASE Auth!OnAll
    <2>1. /\ ui.running /\ \A a \in Assets : ui.pc[a] \in Auth!AssetStates
          /\ ui' = IF ~ui.mounted THEN [ui EXCEPT !.running = FALSE]
                   ELSE [ui EXCEPT !.running = FALSE, !.states = ui.pc, !.overall = Auth!Verdict]
      BY <1>6, Zenon DEF Auth!OnAll
    <2>2. ui.overall = "" /\ "" # "pass" /\ "" # "stale" /\ "" # "mismatch"
      BY <1>0, <2>1, Zenon DEF AuthSaid
    <2>3. CASE ~ui.mounted
      <3>1. /\ ui' \in AuthState /\ ~ui'.mounted /\ ~ui'.running
            /\ ui'.overall = ui.overall /\ ui'.pc = ui.pc /\ ui'.bad = ui.bad /\ ui'.good = ui.good
        BY <1>0, <2>1, <2>3, Zenon DEF AuthState
      <3>2. QED
        BY <1>0, <2>2, <3>1, Zenon DEF AuthOk, AuthBusy, AuthChecks, AuthSaid
    <2>4. CASE ui.mounted
      <3>1. PICK o : o = Auth!Verdict
        OBVIOUS
      <3>2. /\ o \in {"pass", "inconclusive", "stale", "mismatch"}
            /\ o = "mismatch" => \E a \in Assets : ui.pc[a] = "mismatch"
            /\ o = "stale" => /\ \E a \in Assets : ui.pc[a] = "stale"
                              /\ \A a \in Assets : ui.pc[a] \notin {"mismatch", "recheckfail"}
            /\ o = "pass" => \A a \in Assets :
                 ui.pc[a] \notin {"mismatch", "recheckfail", "fetchfail", "stale"}
        BY <3>1, Zenon DEF Auth!Verdict, Auth!Met
      <3>3. ui' = [ui EXCEPT !.running = FALSE, !.states = ui.pc, !.overall = o]
        BY <2>1, <2>4, <3>1, Zenon
      <3>4. ui' \in AuthState
        BY <1>0, <3>2, <3>3, Zenon DEF AuthState
      <3>5. /\ ~ui'.running /\ ui'.states = ui.pc /\ ui'.overall = o /\ ui'.pc = ui.pc
            /\ ui'.bad = ui.bad /\ ui'.good = ui.good
        BY <1>0, <3>3, Zenon DEF AuthState
      <3>6. AuthBusy(ui') /\ AuthChecks(ui')
        BY <1>0, <3>5, Zenon DEF AuthBusy, AuthChecks
      <3>7. \A a \in Assets : ui.pc[a] # "busted"
        BY <2>1, Zenon DEF Auth!AssetStates
      <3>8. o = "pass" => ui.bad = {}
        <4>1. ASSUME o = "pass", NEW a \in ui.bad PROVE FALSE
          <5>1. a \in Assets
            BY <1>0
          <5>2. QED
            BY <1>0, <3>2, <3>7, <4>1, <5>1, Zenon DEF AuthChecks
        <4>2. QED
          BY <4>1
      <3>9. o = "stale" => ui.bad # {} /\ ui.bad \subseteq ui.good
        <4>1. ASSUME o = "stale", NEW a \in ui.bad PROVE a \in ui.good
          <5>1. a \in Assets
            BY <1>0
          <5>2. QED
            BY <1>0, <3>2, <3>7, <4>1, <5>1, Zenon DEF AuthChecks
        <4>2. o = "stale" => ui.bad # {}
          BY <1>0, <3>2, Zenon DEF AuthChecks
        <4>3. QED
          BY <4>1, <4>2
      <3>10. o = "mismatch" => ui.bad # {}
        BY <1>0, <3>2, Zenon DEF AuthChecks
      <3>11. QED
        BY <3>4, <3>5, <3>6, <3>8, <3>9, <3>10, Zenon DEF AuthOk, AuthSaid
    <2>5. QED
      BY <1>0, <2>3, <2>4
  <1>7. CASE Auth!Unmount
    <2>1. PICK c \in {"out", "build", "none"} : c = IF ui.core = "out" THEN "none" ELSE ui.core
      BY <1>0, Zenon DEF AuthState
    <2>2. PICK f : f = [a \in Assets |-> CASE ui.pc[a] = "plain" -> "fetchfail"
                                           [] ui.pc[a] = "busted" -> "recheckfail"
                                           [] OTHER -> ui.pc[a]]
      OBVIOUS
    <2>3. ui' = [ui EXCEPT !.mounted = FALSE, !.core = c, !.pc = f]
      BY <1>0, <1>7, <2>1, <2>2, Zenon DEF Auth!Unmount, AuthState
    <2>4. \A a \in Assets :
            /\ ui.pc[a] = "plain" => f[a] = "fetchfail"
            /\ ui.pc[a] = "busted" => f[a] = "recheckfail"
            /\ ui.pc[a] \notin {"plain", "busted"} => f[a] = ui.pc[a]
      BY <2>2, Zenon
    <2>5. f \in [Assets -> AuthStates]
      <3>1. \A a \in Assets : f[a] \in AuthStates
        <4>1. ASSUME NEW a \in Assets PROVE f[a] \in AuthStates
          <5>1. ui.pc[a] \in AuthStates
            BY <1>0
          <5>2. QED
            BY <2>4, <5>1, Zenon DEF AuthStates
        <4>2. QED
          BY <4>1
      <3>2. QED
        BY <2>2, <3>1, Zenon
    <2>6. ui' \in AuthState
      BY <1>0, <2>1, <2>3, <2>5, Zenon DEF AuthState
    <2>7. /\ ~ui'.mounted /\ ui'.running = ui.running /\ ui'.overall = ui.overall /\ ui'.pc = f
          /\ ui'.bad = ui.bad /\ ui'.good = ui.good
      BY <1>0, <2>3, Zenon DEF AuthState
    <2>8. AuthChecks(ui')
      <3>1. ASSUME NEW a \in Assets
            PROVE  /\ f[a] \in {"busted", "stale", "mismatch", "recheckfail"} <=>
                      ui.pc[a] \in {"busted", "stale", "mismatch", "recheckfail"}
                   /\ f[a] = "stale" => ui.pc[a] = "stale"
                   /\ ui.pc[a] # "hashing" => f[a] # "hashing"
        <4>1. CASE ui.pc[a] = "plain"
          BY <2>4, <4>1, Zenon
        <4>2. CASE ui.pc[a] = "busted"
          BY <2>4, <4>2, Zenon
        <4>3. CASE ui.pc[a] \notin {"plain", "busted"}
          <5>1. f[a] = ui.pc[a]
            BY <2>4, <4>3, Zenon
          <5>2. QED
            BY <5>1, Zenon
        <4>4. QED
          BY <4>1, <4>2, <4>3, Zenon
      <3>2. QED
        BY <1>0, <2>7, <3>1, Zenon DEF AuthChecks
    <2>9. QED
      BY <1>0, <2>6, <2>7, <2>8, Zenon DEF AuthOk, AuthBusy, AuthSaid
  <1>8. QED
    BY <1>1, <1>2, <1>4, <1>5, <1>6, <1>7, Zenon DEF Auth!Next, Auth!Answered

LEMMA AuthShown == AuthOk(ui) => Auth!BusyMatches /\ Auth!ShownIsCurrent
  <1> SUFFICES ASSUME AuthOk(ui) PROVE Auth!BusyMatches /\ Auth!ShownIsCurrent
    OBVIOUS
  <1>1. PICK p, q \in BOOLEAN :
          p = ui.running /\ q = (\E a \in Assets : ui.states[a] = "hashing")
    BY Zenon DEF AuthOk, AuthState
  <1>2. (p <=> q) => p = q
    BY <1>1
  <1>3. ui.mounted => (ui.running <=> \E a \in Assets : ui.states[a] = "hashing")
    BY SomeAsset, Zenon DEF AuthOk, AuthBusy
  <1>4. Auth!BusyMatches
    BY <1>1, <1>2, <1>3, Zenon DEF Auth!BusyMatches
  <1>5. QED
    BY <1>4, Zenon DEF AuthOk, AuthSaid, Auth!ShownIsCurrent

-----------------------------------------------------------------------------
(* The console.  The scry of the current generation is unique, its command *)
(* is in the log and nothing has closed it; every other is orphaned.       *)

CliLine == [kind : {"cmd", "out", "live", "proof", "dark", "matches"}, of : Int]
Scry == [gen : Int, of : Int]
CliState ==
  [mounted : BOOLEAN, input : Cli!Typed, log : Seq(CliLine), history : Seq(Cli!Typed),
   hIdx : Int, gen : Int, scries : SUBSET Scry, panelClosed : BOOLEAN,
   effect : {"", "theme", "ctf", "nav"},
   ctx : {{}} \cup {Cli!Ctx(slug) : slug \in Cli!Slugs}, n : Int]

Reading(l) == l.kind \in {"live", "proof", "dark"}
Closing(l) == l.kind \in {"proof", "dark"}
\* The scry k was typed, and nothing has closed it.
Scrying(m, k) == /\ \E j \in 1..Len(m) : m[j] = Cli!Line("cmd", k)
                 /\ \A j \in 1..Len(m) : Closing(m[j]) => m[j].of # k
CliReads(m) ==
  \A i \in 1..Len(m) : Reading(m[i]) =>
    /\ \E j \in 1..(i - 1) : m[j] = Cli!Line("cmd", m[i].of)
    /\ \A j \in 1..Len(m) : Closing(m[j]) /\ m[j].of = m[i].of => i <= j
    /\ m[i].kind = "proof" => i > 1 /\ m[i - 1] = Cli!Line("live", m[i].of)
CliNumbers(u) == /\ \A i \in 1..Len(u.log) : u.log[i].of <= u.n
                 /\ \A s \in u.scries : s.gen <= u.gen
                 /\ \A s, t \in u.scries : s.gen = t.gen => s = t
CliScries(u) == \A s \in u.scries : s.gen = u.gen => Scrying(u.log, s.of)
CliRecall(u) == u.hIdx >= 0 /\ u.hIdx <= Len(u.history)
CliOk(u) == u \in CliState /\ CliReads(u.log) /\ CliNumbers(u) /\ CliScries(u) /\ CliRecall(u)

\* A log that grows: its new readings are of one scry that was open, and end with
\* the line that closes it.
LEMMA CliGrows ==
  ASSUME NEW S, NEW m \in Seq(S), NEW t \in Seq(S), NEW k, CliReads(m),
         Len(t) >= Len(m), \A i \in 1..Len(m) : t[i] = m[i],
         \A i \in (Len(m) + 1)..Len(t) :
           /\ Reading(t[i]) => t[i].of = k /\ Scrying(m, k)
           /\ Closing(t[i]) => i = Len(t)
           /\ t[i].kind = "proof" => i > Len(m) + 1 /\ t[i - 1] = Cli!Line("live", k)
  PROVE  CliReads(t)
  <1>0. Len(m) \in Nat /\ Len(t) \in Nat
    OBVIOUS
  <1>1. \A i \in 1..Len(t) : i \in 1..Len(m) \/ i \in (Len(m) + 1)..Len(t)
    BY <1>0
  <1>2. \A i \in 1..Len(m) : i \in 1..Len(t)
    BY <1>0
  <1>3. ASSUME NEW i \in 1..Len(t), Reading(t[i])
        PROVE  /\ \E j \in 1..(i - 1) : t[j] = Cli!Line("cmd", t[i].of)
               /\ \A j \in 1..Len(t) : Closing(t[j]) /\ t[j].of = t[i].of => i <= j
               /\ t[i].kind = "proof" => i > 1 /\ t[i - 1] = Cli!Line("live", t[i].of)
    <2>1. CASE i \in 1..Len(m)
      <3>1. t[i] = m[i]
        BY <2>1
      <3>2. /\ \E j \in 1..(i - 1) : m[j] = Cli!Line("cmd", t[i].of)
            /\ \A j \in 1..Len(m) : Closing(m[j]) /\ m[j].of = t[i].of => i <= j
            /\ t[i].kind = "proof" => i > 1 /\ m[i - 1] = Cli!Line("live", t[i].of)
        BY <1>3, <2>1, <3>1, Zenon DEF CliReads
      <3>3. \A j \in 1..(i - 1) : t[j] = m[j]
        BY <1>0, <2>1
      <3>4. i > 1 => t[i - 1] = m[i - 1]
        BY <1>0, <2>1
      <3>5. \A j \in (Len(m) + 1)..Len(t) : i <= j
        BY <1>0, <2>1
      <3>6. QED
        BY <1>1, <3>2, <3>3, <3>4, <3>5, Zenon
    <2>2. CASE i \in (Len(m) + 1)..Len(t)
      <3>1. t[i].of = k /\ Scrying(m, k)
        BY <1>3, <2>2, Zenon
      <3>2. \E j \in 1..(i - 1) : t[j] = Cli!Line("cmd", k)
        <4>1. PICK j \in 1..Len(m) : m[j] = Cli!Line("cmd", k)
          BY <3>1, Zenon DEF Scrying
        <4>2. j \in 1..(i - 1) /\ t[j] = m[j]
          BY <1>0, <2>2
        <4>3. QED
          BY <4>1, <4>2, Zenon
      <3>3. ASSUME NEW j \in 1..Len(t), Closing(t[j]), t[j].of = k PROVE i <= j
        <4>1. j \notin 1..Len(m)
          BY <3>1, <3>3, Zenon DEF Scrying
        <4>2. j = Len(t)
          BY <1>1, <3>3, <4>1, Zenon
        <4>3. QED
          BY <1>0, <4>2
      <3>4. t[i].kind = "proof" => i > 1 /\ t[i - 1] = Cli!Line("live", k)
        <4>1. i > 1 \/ i = Len(m) + 1
          BY <1>0, <2>2
        <4>2. i > Len(m) + 1 => i > 1
          BY <1>0, <2>2
        <4>3. QED
          BY <2>2, <4>2, Zenon
      <3>5. QED
        BY <3>1, <3>2, <3>3, <3>4, Zenon
    <2>3. QED
      BY <1>1, <2>1, <2>2
  <1>4. QED
    BY <1>3, Zenon DEF CliReads

\* Lines that are no readings change nothing of what is scried.
LEMMA CliAppends ==
  ASSUME NEW m \in Seq(CliLine), NEW l \in CliLine, ~Reading(l), CliReads(m)
  PROVE  /\ Append(m, l) \in Seq(CliLine) /\ CliReads(Append(m, l))
         /\ \A k : Scrying(m, k) => Scrying(Append(m, l), k)
         /\ \A n \in Int : l.of <= n /\ (\A i \in 1..Len(m) : m[i].of <= n)
              => \A i \in 1..Len(Append(m, l)) : Append(m, l)[i].of <= n
  <1> DEFINE t == Append(m, l)
  <1>1. /\ t \in Seq(CliLine) /\ Len(m) \in Nat /\ Len(t) = Len(m) + 1 /\ t[Len(m) + 1] = l
        /\ \A i \in 1..Len(m) : t[i] = m[i]
    OBVIOUS
  <1> HIDE DEF t
  <1>2. /\ Len(t) >= Len(m) /\ \A i \in (Len(m) + 1)..Len(t) : i = Len(m) + 1
        /\ \A i \in 1..Len(t) : i \in 1..Len(m) \/ i = Len(m) + 1
        /\ \A i \in 1..Len(m) : i \in 1..Len(t)
    BY <1>1
  <1>3. l.kind # "proof" /\ ~Closing(l)
    BY Zenon DEF Reading, Closing
  <1>4. CliReads(t)
    <2>1. \A i \in (Len(m) + 1)..Len(t) : t[i] = l
      BY <1>1, <1>2, Zenon
    <2>2. \A i \in (Len(m) + 1)..Len(t) :
           /\ Reading(t[i]) => t[i].of = 0 /\ Scrying(m, 0)
           /\ Closing(t[i]) => i = Len(t)
           /\ t[i].kind = "proof" => i > Len(m) + 1 /\ t[i - 1] = Cli!Line("live", 0)
      BY <1>3, <2>1, Zenon
    <2>3. QED
      BY <1>1, <1>2, <2>2, CliGrows
  <1>5. \A k : Scrying(m, k) => Scrying(t, k)
    BY <1>1, <1>2, <1>3, Zenon DEF Scrying
  <1>6. ASSUME NEW n \in Int, l.of <= n, \A i \in 1..Len(m) : m[i].of <= n
        PROVE  \A i \in 1..Len(t) : t[i].of <= n
    BY <1>1, <1>2, <1>6, Zenon
  <1>7. QED
    BY <1>1, <1>4, <1>5, <1>6 DEF t

\* The readings of the scry k are appended, and the line that closes it.
CliTold(m, k, c, last) == (m \o [i \in 1..c |-> Cli!Line("live", k)]) \o <<Cli!Line(last, k)>>
CliEnds(last, c) == last \in {"proof", "dark"} /\ (last = "proof" => c > 0)
LEMMA CliTells ==
  ASSUME NEW m \in Seq(CliLine), NEW k \in Int, NEW c \in Nat, CliReads(m), Scrying(m, k),
         NEW last, CliEnds(last, c), NEW t, t = CliTold(m, k, c, last)
  PROVE  /\ t \in Seq(CliLine) /\ CliReads(t)
         /\ \A n \in Int : k <= n /\ (\A i \in 1..Len(m) : m[i].of <= n)
              => \A i \in 1..Len(t) : t[i].of <= n
  <1>1. PICK a : a = [i \in 1..c |-> Cli!Line("live", k)]
    OBVIOUS
  <1>2. /\ Cli!Line("live", k) \in CliLine /\ Cli!Line(last, k) \in CliLine
        /\ Cli!Line("live", k).of = k /\ Cli!Line(last, k).of = k
        /\ Cli!Line("live", k).kind = "live" /\ Cli!Line(last, k).kind = last
    BY Zenon DEF Cli!Line, CliLine, CliEnds
  <1>3. PICK live, end : live = Cli!Line("live", k) /\ end = Cli!Line(last, k)
    OBVIOUS
  <1>4. a \in Seq(CliLine) /\ Len(a) = c /\ \A i \in 1..c : a[i] = live
    BY <1>1, <1>2, <1>3
  <1>5. t = (m \o a) \o <<end>>
    BY <1>1, <1>3, Zenon DEF CliTold
  <1>6. /\ t \in Seq(CliLine) /\ Len(m) \in Nat /\ Len(t) = Len(m) + c + 1 /\ t[Len(m) + c + 1] = end
        /\ \A i \in 1..Len(m) : t[i] = m[i]
        /\ \A i \in (Len(m) + 1)..(Len(m) + c) : t[i] = live
    BY <1>2, <1>3, <1>4, <1>5
  <1>7. /\ Len(t) >= Len(m)
        /\ \A i \in (Len(m) + 1)..Len(t) : i \in (Len(m) + 1)..(Len(m) + c) \/ i = Len(m) + c + 1
        /\ \A i \in 1..Len(t) : i \in 1..Len(m) \/ i \in (Len(m) + 1)..Len(t)
    <2>1. PICK n, p : n = Len(m) /\ p = Len(t)
      OBVIOUS
    <2>2. n \in Nat /\ p = n + c + 1
      BY <1>6, <2>1
    <2>3. /\ p >= n
          /\ \A i \in (n + 1)..p : i \in (n + 1)..(n + c) \/ i = n + c + 1
          /\ \A i \in 1..p : i \in 1..n \/ i \in (n + 1)..p
      BY <2>2
    <2>4. QED
      BY <2>1, <2>3, Zenon
  <1>c. last \in {"proof", "dark"} /\ (last = "proof" => c > 0)
    BY DEF CliEnds
  <1>8. ~Closing(live) /\ live.kind # "proof"
    BY <1>2, <1>3, Zenon DEF Closing
  <1>9. \A i \in (Len(m) + 1)..Len(t) :
           /\ t[i].of = k
           /\ Closing(t[i]) => i = Len(t)
           /\ t[i].kind = "proof" => i > Len(m) + 1 /\ t[i - 1] = Cli!Line("live", k)
    <2>1. ASSUME NEW i \in (Len(m) + 1)..Len(t)
          PROVE  /\ t[i].of = k
                 /\ Closing(t[i]) => i = Len(t)
                 /\ t[i].kind = "proof" => i > Len(m) + 1 /\ t[i - 1] = Cli!Line("live", k)
      <3>1. CASE i \in (Len(m) + 1)..(Len(m) + c)
        BY <1>2, <1>3, <1>6, <1>8, <3>1, Zenon
      <3>2. CASE i = Len(m) + c + 1
        <4>1. t[i] = end /\ i = Len(t) /\ end.of = k /\ end.kind = last
          BY <1>2, <1>3, <1>6, <3>2, Zenon
        <4>2. last = "proof" => i > Len(m) + 1 /\ t[i - 1] = live
          <5>1. c > 0 => i > Len(m) + 1 /\ i - 1 \in (Len(m) + 1)..(Len(m) + c)
            <6>1. Len(m) \in Nat
              BY <1>6
            <6>2. QED
              BY <3>2, <6>1
          <5>2. QED
            BY <1>6, <1>c, <5>1, Zenon
        <4>3. QED
          BY <1>3, <4>1, <4>2, Zenon
      <3>3. QED
        BY <1>7, <3>1, <3>2, Zenon
    <2>2. QED
      BY <2>1, Zenon
  <1>10. CliReads(t)
    BY <1>6, <1>7, <1>9, CliGrows, Zenon
  <1>11. ASSUME NEW n \in Int, k <= n, \A i \in 1..Len(m) : m[i].of <= n
         PROVE  \A i \in 1..Len(t) : t[i].of <= n
    BY <1>6, <1>7, <1>9, <1>11, Zenon
  <1>12. QED
    BY <1>6, <1>10, <1>11

\* A scry begins with its command.
LEMMA CliStarts ==
  ASSUME NEW m \in Seq(CliLine), NEW n \in Int, NEW k \in Int, k = n + 1,
         \A i \in 1..Len(m) : m[i].of <= n,
         NEW l, l = Cli!Line("cmd", k)
  PROVE  l \in CliLine /\ ~Reading(l) /\ l.of = k /\ Scrying(Append(m, l), k)
  <1> DEFINE t == Append(m, l)
  <1>1. l \in CliLine /\ l.kind = "cmd" /\ l.of = k
    BY Zenon DEF Cli!Line, CliLine
  <1>2. ~Reading(l) /\ ~Closing(l)
    BY <1>1, Zenon DEF Reading, Closing
  <1>3. /\ Len(m) \in Nat /\ Len(t) = Len(m) + 1 /\ t[Len(m) + 1] = l
        /\ \A i \in 1..Len(m) : t[i] = m[i] /\ m[i] \in CliLine
    BY <1>1
  <1> HIDE DEF t
  <1>4. /\ Len(m) + 1 \in 1..Len(t)
        /\ \A i \in 1..Len(t) : i \in 1..Len(m) \/ i = Len(m) + 1
    BY <1>3
  <1>5. \A i \in 1..Len(m) : m[i].of # k
    <2>1. \A i \in 1..Len(m) : m[i].of \in Int
      BY <1>3, Zenon DEF CliLine
    <2>2. QED
      BY <2>1
  <1>6. Scrying(t, k)
    BY <1>2, <1>3, <1>4, <1>5, Zenon DEF Scrying
  <1>7. QED
    BY <1>1, <1>2, <1>6 DEF t

LEMMA EmptyReads == CliReads(<<>>) /\ \A n : \A i \in 1..Len(<<>>) : <<>>[i].of <= n
  BY DEF CliReads

LEMMA CliInit == Cli!Init => CliOk(ui)
  <1> SUFFICES ASSUME Cli!Init PROVE CliOk(ui)
    OBVIOUS
  <1>1. ui = [mounted |-> TRUE, input |-> "", log |-> <<>>, history |-> <<>>, hIdx |-> 0,
              gen |-> 0, scries |-> {}, panelClosed |-> FALSE,
              effect |-> "", ctx |-> {}, n |-> 0]
    BY Zenon DEF Cli!Init
  <1>2. /\ <<>> \in Seq(CliLine) /\ <<>> \in Seq(Cli!Typed) /\ {} \in SUBSET Scry
        /\ 0 >= 0 /\ 0 <= Len(<<>>)
    <2>1. 0 >= 0 /\ 0 <= Len(<<>>) /\ {} \in SUBSET Scry
      OBVIOUS
    <2>2. QED
      BY <2>1, Sequences, Zenon
  <1>3. "" \in Cli!Typed /\ {} \in {{}} \cup {Cli!Ctx(slug) : slug \in Cli!Slugs}
    BY Zenon DEF Cli!Typed
  <1>4. ui \in CliState
    BY <1>1, <1>2, <1>3, Zero, Zenon DEF CliState
  <1>5. ui.log = <<>> /\ ui.history = <<>> /\ ui.hIdx = 0 /\ ui.scries = {}
    BY <1>1, Zenon
  <1>6. QED
    BY <1>2, <1>4, <1>5, EmptyReads, Zenon DEF CliOk, CliNumbers, CliScries, CliRecall

\* What leaves the log and the scries alone.
CliSame(u, v) == /\ v.log = u.log /\ v.gen = u.gen /\ v.scries = u.scries /\ v.n = u.n
LEMMA CliSameOk ==
  ASSUME NEW u, NEW v, CliOk(u), v \in CliState, CliSame(u, v), CliRecall(v)
  PROVE  CliOk(v)
  BY Zenon DEF CliOk, CliSame, CliNumbers, CliScries

LEMMA CliSubmit == CliOk(ui) /\ Cli!Submit => CliOk(ui')
  <1> SUFFICES ASSUME CliOk(ui), Cli!Submit PROVE CliOk(ui')
    OBVIOUS
  <1>0. /\ ui \in CliState /\ CliReads(ui.log) /\ CliNumbers(ui) /\ CliScries(ui) /\ CliRecall(ui)
        /\ ui.n \in Int /\ ui.gen \in Int /\ ui.log \in Seq(CliLine) /\ ui.input \in Cli!Typed
        /\ ui.history \in Seq(Cli!Typed) /\ ui.scries \in SUBSET Scry
        /\ ui.panelClosed \in BOOLEAN /\ ui.mounted \in BOOLEAN
    BY Zenon DEF CliOk, CliState
  <1> DEFINE n == ui.n + 1
             h == IF ui.input = "" THEN ui.history ELSE Append(ui.history, ui.input)
             u == [ui EXCEPT !.n = n, !.history = h, !.hIdx = 0, !.input = ""]
             r == Cli!runCommand(ui.input, h)
             lc == Cli!Line("cmd", n)
             lo == Cli!Line("out", n)
  <1>11. IF r.clear THEN ui' = [u EXCEPT !.gen = @ + 1, !.log = <<>>]
         ELSE \E slug \in IF ui.input = "oracle" THEN Cli!Slugs ELSE {"junk"} :
           ui' = [u EXCEPT
                !.log = @ \o <<lc>> \o (IF r.out = 0 THEN <<>> ELSE <<lo>>),
                !.gen = IF r.live THEN @ + 1 ELSE @,
                !.scries = IF r.live THEN @ \cup {[gen |-> ui.gen + 1, of |-> n]} ELSE @,
                !.effect = r.effect, !.panelClosed = @ /\ ~r.restore,
                !.ctx = IF ui.input = "oracle" THEN Cli!Ctx(slug) ELSE @]
    BY Zenon DEF Cli!Submit, Cli!submit
  <1>9. /\ r.clear <=> ui.input = "clear"
        /\ r.effect \in {"", "theme", "ctf", "nav"} /\ r.restore \in BOOLEAN
        /\ r.live \in BOOLEAN
    BY Zenon DEF Cli!runCommand
  <1>10. lc = Cli!Line("cmd", n) /\ lo = Cli!Line("out", n)
    OBVIOUS
  <1>5. u = [ui EXCEPT !.n = n, !.history = h, !.hIdx = 0, !.input = ""]
    OBVIOUS
  <1> HIDE DEF u, r, lc, lo
  <1>2. h \in Seq(Cli!Typed)
    BY <1>0, Sequences, Zenon
  <1> HIDE DEF h
  <1>1. PICK g \in Int : n \in Int /\ n = ui.n + 1 /\ g = ui.gen + 1
    BY <1>0
  <1> HIDE DEF n
  <1>3. "" \in Cli!Typed
    BY Zenon DEF Cli!Typed
  <1>4. 0 <= Len(h) /\ 0 >= 0
    <2>1. Len(h) \in Nat
      BY <1>2
    <2>2. QED
      BY <2>1
  <1>6. u \in CliState
    BY <1>0, <1>1, <1>2, <1>3, <1>5, Zero, Zenon DEF CliState
  <1>7. /\ u.n = n /\ u.history = h /\ u.hIdx = 0 /\ u.log = ui.log /\ u.gen = ui.gen
        /\ u.scries = ui.scries /\ u.panelClosed = ui.panelClosed /\ u.ctx = ui.ctx
    BY <1>0, <1>5, Zenon DEF CliState
  <1>12. CASE r.clear
    <2>1. ui' = [u EXCEPT !.gen = g, !.log = <<>>]
      BY <1>1, <1>6, <1>7, <1>11, <1>12, Zenon DEF CliState
    <2>2. ui' \in CliState
      BY <1>1, <1>6, <2>1, Sequences, Zenon DEF CliState
    <2>3. /\ ui'.n = n /\ ui'.log = <<>> /\ ui'.gen = g /\ ui'.scries = ui.scries
          /\ ui'.hIdx = 0 /\ ui'.history = h
      BY <1>6, <1>7, <2>1, Zenon DEF CliState
    <2>4. \A s \in ui.scries : s.gen <= g /\ s.gen # g
      <3>1. \A s \in ui.scries : s.gen <= ui.gen /\ s.gen \in Int
        BY <1>0, Zenon DEF CliNumbers, Scry
      <3>2. QED
        BY <1>0, <1>1, <3>1
    <2>5. CliNumbers(ui')
      BY <1>0, <2>3, <2>4, EmptyReads, Zenon DEF CliNumbers
    <2>6. CliScries(ui')
      BY <2>3, <2>4, Zenon DEF CliScries
    <2>7. QED
      BY <1>4, <2>2, <2>3, <2>5, <2>6, EmptyReads, Zenon DEF CliOk, CliRecall
  <1>13. CASE ~r.clear
    <2>1. PICK slug \in IF ui.input = "oracle" THEN Cli!Slugs ELSE {"junk"} :
           ui' = [u EXCEPT
                !.log = @ \o <<lc>> \o (IF r.out = 0 THEN <<>> ELSE <<lo>>),
                !.gen = IF r.live THEN @ + 1 ELSE @,
                !.scries = IF r.live THEN @ \cup {[gen |-> ui.gen + 1, of |-> n]} ELSE @,
                !.effect = r.effect, !.panelClosed = @ /\ ~r.restore,
                !.ctx = IF ui.input = "oracle" THEN Cli!Ctx(slug) ELSE @]
      BY <1>11, <1>13
    <2>2. PICK b \in BOOLEAN : b = (ui.panelClosed /\ ~r.restore)
      OBVIOUS
    <2>3. PICK x : x = IF ui.input = "oracle" THEN Cli!Ctx(slug) ELSE ui.ctx
      OBVIOUS
    <2>4. x \in {{}} \cup {Cli!Ctx(s) : s \in Cli!Slugs}
      <3>1. ui.input = "oracle" => slug \in Cli!Slugs
        BY <2>1, Zenon
      <3>2. ui.ctx \in {{}} \cup {Cli!Ctx(s) : s \in Cli!Slugs}
        BY <1>0, Zenon DEF CliState
      <3>3. QED
        BY <2>3, <3>1, <3>2, Zenon
    <2>5. PICK gg \in Int : gg = IF r.live THEN g ELSE ui.gen
      BY <1>0
    <2>6. PICK sc : sc = [gen |-> g, of |-> n]
      OBVIOUS
    <2>7. PICK ss : ss = IF r.live THEN ui.scries \cup {sc} ELSE ui.scries
      OBVIOUS
    <2>8. sc \in Scry /\ sc.gen = g /\ sc.of = n
      BY <1>1, <2>6, Zenon DEF Scry
    <2>9. ss \in SUBSET Scry
      BY <1>0, <2>7, <2>8, Zenon
    <2>10. PICK m1 : m1 = Append(ui.log, lc)
      OBVIOUS
    <2>11. PICK m2 : m2 \in {m1, Append(m1, lo)}
                     /\ m2 = ui.log \o <<lc>> \o (IF r.out = 0 THEN <<>> ELSE <<lo>>)
      <3>1. lc \in CliLine /\ lo \in CliLine
        BY <1>1, <1>10, Zenon DEF Cli!Line, CliLine
      <3>2. ui.log \o <<lc>> \o <<>> = m1 /\ ui.log \o <<lc>> \o <<lo>> = Append(m1, lo)
        BY <1>0, <2>10, <3>1
      <3>3. QED
        BY <3>2, Zenon
    <2>12. ui' = [u EXCEPT !.log = m2, !.gen = gg, !.scries = ss, !.effect = r.effect,
                           !.panelClosed = b, !.ctx = x]
      <3>1. /\ ui' = [u EXCEPT
                !.log = u.log \o <<lc>> \o (IF r.out = 0 THEN <<>> ELSE <<lo>>),
                !.gen = IF r.live THEN u.gen + 1 ELSE u.gen,
                !.scries = IF r.live THEN u.scries \cup {[gen |-> ui.gen + 1, of |-> n]}
                                     ELSE u.scries,
                !.effect = r.effect, !.panelClosed = u.panelClosed /\ ~r.restore,
                !.ctx = IF ui.input = "oracle" THEN Cli!Ctx(slug) ELSE u.ctx]
        BY <1>6, <2>1, Zenon DEF CliState
      <3>2. QED
        BY <1>1, <1>7, <2>2, <2>3, <2>5, <2>6, <2>7, <2>11, <3>1, Zenon
    <2>13. /\ \A s \in ui.scries : s.gen <= g /\ s.gen # g /\ s.gen <= ui.gen
           /\ ui.gen <= g /\ g <= g /\ ui.n <= n /\ n <= n
      <3>1. \A s \in ui.scries : s.gen <= ui.gen /\ s.gen \in Int
        BY <1>0, Zenon DEF CliNumbers, Scry
      <3>2. QED
        BY <1>0, <1>1, <3>1
    <2>14. \A i \in 1..Len(ui.log) : ui.log[i].of <= n /\ ui.log[i].of <= ui.n
      <3>1. \A i \in 1..Len(ui.log) : ui.log[i] \in CliLine
        BY <1>0
      <3>2. \A i \in 1..Len(ui.log) : ui.log[i].of <= ui.n /\ ui.log[i].of \in Int
        BY <1>0, <3>1, Zenon DEF CliNumbers, CliLine
      <3>3. QED
        BY <1>0, <1>1, <3>2
    <2>15. /\ lc \in CliLine /\ ~Reading(lc) /\ lc.of = n /\ Scrying(m1, n)
           /\ lo \in CliLine /\ ~Reading(lo) /\ lo.of = n
      <3>1. lo \in CliLine /\ lo.kind = "out" /\ lo.of = n
        BY <1>1, <1>10, Zenon DEF Cli!Line, CliLine
      <3>2. lc \in CliLine /\ ~Reading(lc) /\ lc.of = n /\ Scrying(m1, n)
        <4>1. /\ ui.log \in Seq(CliLine) /\ ui.n \in Int /\ n \in Int /\ n = ui.n + 1
              /\ \A i \in 1..Len(ui.log) : ui.log[i].of <= ui.n
          BY <1>0, <1>1, <2>14, Zenon
        <4>2. /\ lc \in CliLine /\ ~Reading(lc) /\ lc.of = n /\ Scrying(Append(ui.log, lc), n)
          BY <1>10, <4>1, CliStarts
        <4>3. QED
          BY <2>10, <4>2, Zenon
      <3>3. QED
        BY <3>1, <3>2, Zenon DEF Reading
    <2>16. /\ m1 \in Seq(CliLine) /\ CliReads(m1)
           /\ \A k : Scrying(ui.log, k) => Scrying(m1, k)
           /\ \A i \in 1..Len(m1) : m1[i].of <= n
      BY <1>0, <1>1, <2>10, <2>13, <2>14, <2>15, CliAppends, Zenon
    <2>17. /\ m2 \in Seq(CliLine) /\ CliReads(m2)
           /\ \A k : Scrying(m1, k) => Scrying(m2, k)
           /\ \A i \in 1..Len(m2) : m2[i].of <= n
      <3>1. CASE m2 = m1
        BY <2>16, <3>1, Zenon
      <3>2. CASE m2 = Append(m1, lo)
        BY <1>1, <2>13, <2>15, <2>16, <3>2, CliAppends, Zenon
      <3>3. QED
        BY <2>11, <3>1, <3>2
    <2>18. ui' \in CliState
      BY <1>6, <1>9, <2>4, <2>9, <2>12, <2>17, Zenon DEF CliState
    <2>19. /\ ui'.n = n /\ ui'.log = m2 /\ ui'.gen = gg /\ ui'.scries = ss
           /\ ui'.hIdx = 0 /\ ui'.history = h
      BY <1>6, <1>7, <2>12, Zenon DEF CliState
    <2>20. CliNumbers(ui') /\ CliScries(ui')
      <3>1. CASE r.live
        <4>1. gg = g /\ ss = ui.scries \cup {sc}
          BY <2>5, <2>7, <3>1
        <4>2. \A s, t \in ss : s.gen = t.gen => s = t
          BY <1>0, <2>8, <2>13, <4>1, Zenon DEF CliNumbers
        <4>3. \A s \in ss : s.gen <= g /\ (s.gen = g => s.of = n)
          BY <2>8, <2>13, <4>1, Zenon
        <4>4. QED
          BY <2>15, <2>17, <2>19, <4>1, <4>2, <4>3, Zenon DEF CliNumbers, CliScries
      <3>2. CASE ~r.live
        <4>1. gg = ui.gen /\ ss = ui.scries
          BY <2>5, <2>7, <3>2
        <4>2. QED
          BY <1>0, <2>16, <2>17, <2>19, <4>1, Zenon DEF CliNumbers, CliScries
      <3>3. QED
        BY <3>1, <3>2
    <2>21. QED
      BY <1>4, <2>17, <2>18, <2>19, <2>20, Zenon DEF CliOk, CliRecall
  <1>14. QED
    BY <1>12, <1>13

LEMMA ReadingsCounted ==
  ASSUME NEW hits \in SUBSET Cli!Readings
  PROVE  /\ Cli!Cardinality(hits) \in Nat
         /\ hits # {} => Cli!Cardinality(hits) > 0
  <1>1. Cli!Cardinality(hits) = Cardinality(hits)
    BY Zenon DEF Cardinality, Cli!Cardinality
  <1>2. IsFiniteSet(Cli!Readings)
    <2>1. IsFiniteSet({"telemetry"})
      BY FS_Singleton, Zenon
    <2>2. IsFiniteSet({"telemetry"} \cup {"route"})
      BY <2>1, FS_AddElement, Zenon
    <2>3. IsFiniteSet(({"telemetry"} \cup {"route"}) \cup {"deploy"})
      BY <2>2, FS_AddElement, Zenon
    <2>4. Cli!Readings = ({"telemetry"} \cup {"route"}) \cup {"deploy"}
      BY Zenon DEF Cli!Readings
    <2>5. QED
      BY <2>3, <2>4, Zenon
  <1>3. IsFiniteSet(hits)
    <2>1. hits \subseteq Cli!Readings
      OBVIOUS
    <2>2. QED
      BY <1>2, <2>1, FS_Subset, Zenon
  <1>4. Cardinality(hits) \in Nat /\ (Cardinality(hits) = 0 <=> hits = {})
    BY <1>3, FS_CardinalityType, FS_EmptySet, Zenon
  <1>5. QED
    BY <1>1, <1>4

\* The scry s has settled: its readings stand in the log if it is the current one.
LEMMA CliSettles ==
  ASSUME CliOk(ui), NEW s \in ui.scries, NEW c \in Nat, NEW last \in {"proof", "dark"},
         last = "proof" => c > 0,
         NEW m, m \in {ui.log, (ui.log \o [i \in 1..c |-> Cli!Line("live", s.of)])
                                  \o <<Cli!Line(last, s.of)>>},
         s.gen # ui.gen => m = ui.log,
         ui' = [ui EXCEPT !.scries = ui.scries \ {s}, !.log = m]
  PROVE  CliOk(ui')
  <1>0. /\ ui \in CliState /\ CliReads(ui.log) /\ CliNumbers(ui) /\ CliScries(ui) /\ CliRecall(ui)
        /\ ui.n \in Int /\ ui.log \in Seq(CliLine) /\ ui.scries \in SUBSET Scry
    BY Zenon DEF CliOk, CliState
  <1>1. s.of \in Int
    BY <1>0, Zenon DEF Scry
  <1>2. s.gen = ui.gen => Scrying(ui.log, s.of) /\ s.of <= ui.n
    <2>1. s.gen = ui.gen => Scrying(ui.log, s.of)
      BY <1>0, Zenon DEF CliScries
    <2>2. ASSUME s.gen = ui.gen PROVE s.of <= ui.n
      <3>1. PICK j \in 1..Len(ui.log) : ui.log[j] = Cli!Line("cmd", s.of)
        BY <2>1, <2>2, Zenon DEF Scrying
      <3>a. PICK l : l = Cli!Line("cmd", s.of)
        OBVIOUS
      <3>b. l.of = s.of
        BY <3>a, Zenon DEF Cli!Line
      <3>2. ui.log[j].of = s.of
        BY <3>1, <3>a, <3>b, Zenon
      <3>3. QED
        BY <1>0, <3>2, Zenon DEF CliNumbers
    <2>3. QED
      BY <2>1, <2>2
  <1>3. /\ m \in Seq(CliLine) /\ CliReads(m)
        /\ \A i \in 1..Len(m) : m[i].of <= ui.n
    <2>1. CASE m = ui.log
      BY <1>0, <2>1, Zenon DEF CliNumbers
    <2>2. CASE m # ui.log
      <3>1. s.gen = ui.gen
        BY <2>2
      <3>2. \A i \in 1..Len(ui.log) : ui.log[i].of <= ui.n
        BY <1>0, Zenon DEF CliNumbers
      <3>3. m = (ui.log \o [i \in 1..c |-> Cli!Line("live", s.of)]) \o <<Cli!Line(last, s.of)>>
        BY <2>2
      <3>4. PICK k, l, nn : k = s.of /\ l = ui.log /\ nn = ui.n
        OBVIOUS
      <3>5. /\ l \in Seq(CliLine) /\ k \in Int /\ CliReads(l) /\ Scrying(l, k) /\ nn \in Int
            /\ k <= nn /\ \A i \in 1..Len(l) : l[i].of <= nn
        BY <1>0, <1>1, <1>2, <3>1, <3>2, <3>4, Zenon
      <3>6. m = CliTold(l, k, c, last)
        BY <3>3, <3>4, Zenon DEF CliTold
      <3>7. c \in Nat /\ CliEnds(last, c)
        BY DEF CliEnds
      <3>8. /\ m \in Seq(CliLine) /\ CliReads(m)
            /\ \A i \in 1..Len(m) : m[i].of <= nn
        <4>1. /\ m \in Seq(CliLine) /\ CliReads(m)
              /\ \A n \in Int : k <= n /\ (\A i \in 1..Len(l) : l[i].of <= n)
                   => \A i \in 1..Len(m) : m[i].of <= n
          BY <3>5, <3>6, <3>7, CliTells, Zenon
        <4>2. QED
          BY <3>5, <4>1, Zenon
      <3>9. QED
        BY <3>4, <3>8, Zenon
    <2>3. QED
      BY <2>1, <2>2
  <1>4. PICK ss : ss = ui.scries \ {s}
    OBVIOUS
  <1>5. ss \in SUBSET Scry /\ \A t \in ss : t \in ui.scries /\ t # s
    BY <1>0, <1>4, Zenon
  <1>6. ui' = [ui EXCEPT !.scries = ss, !.log = m]
    BY <1>4, Zenon
  <1>7. ui' \in CliState
    BY <1>0, <1>3, <1>5, <1>6, Zenon DEF CliState
  <1>8. /\ ui'.log = m /\ ui'.scries = ss /\ ui'.gen = ui.gen /\ ui'.n = ui.n
        /\ ui'.hIdx = ui.hIdx /\ ui'.history = ui.history
    BY <1>0, <1>6, Zenon DEF CliState
  <1>9. CliScries(ui')
    <2>1. CASE m = ui.log
      BY <1>0, <1>5, <1>8, <2>1, Zenon DEF CliScries
    <2>2. CASE m # ui.log
      BY <1>0, <1>5, <1>8, <2>2, Zenon DEF CliScries, CliNumbers
    <2>3. QED
      BY <2>1, <2>2
  <1>10. CliNumbers(ui')
    BY <1>0, <1>3, <1>5, <1>8, Zenon DEF CliNumbers
  <1>11. QED
    BY <1>0, <1>3, <1>7, <1>8, <1>9, <1>10, Zenon DEF CliOk, CliRecall

LEMMA CliStep == CliOk(ui) /\ Cli!Next => CliOk(ui')
  <1> SUFFICES ASSUME CliOk(ui), Cli!Next PROVE CliOk(ui')
    OBVIOUS
  <1>0. /\ ui \in CliState /\ CliReads(ui.log) /\ CliNumbers(ui) /\ CliScries(ui) /\ CliRecall(ui)
        /\ ui.n \in Int /\ ui.gen \in Int /\ ui.log \in Seq(CliLine) /\ ui.hIdx \in Int
        /\ ui.history \in Seq(Cli!Typed) /\ ui.scries \in SUBSET Scry
        /\ ui.panelClosed \in BOOLEAN /\ ui.mounted \in BOOLEAN
    BY Zenon DEF CliOk, CliState
  <1>a. \A i \in 1..Len(ui.history) : ui.history[i] \in Cli!Typed
    <2>1. PICK S : S = Cli!Typed
      OBVIOUS
    <2>2. ui.history \in Seq(S)
      BY <1>0, <2>1
    <2>3. \A i \in 1..Len(ui.history) : ui.history[i] \in S
      BY <2>2
    <2>4. QED
      BY <2>1, <2>3
  <1>b. Len(ui.history) \in Nat /\ ui.hIdx >= 0 /\ ui.hIdx <= Len(ui.history)
    <2>1. Len(ui.history) \in Nat
      BY <1>0
    <2>2. QED
      BY <1>0, <2>1, Zenon DEF CliRecall
  \* The line and the recall change, the log does not.
  <1>1. ASSUME NEW text \in Cli!Typed, NEW i \in Int, i >= 0, i <= Len(ui.history),
               ui' = [ui EXCEPT !.hIdx = i, !.input = text]
        PROVE  CliOk(ui')
    <2>1. /\ ui' \in CliState /\ CliSame(ui, ui') /\ ui'.hIdx = i /\ ui'.history = ui.history
      BY <1>0, <1>1, Zenon DEF CliState, CliSame
    <2>2. CliRecall(ui')
      BY <1>1, <2>1, Zenon DEF CliRecall
    <2>3. QED
      BY <2>1, <2>2, CliSameOk, Zenon
  <1>2. CASE Cli!SetInput
    <2>1. PICK text \in Cli!Typed : ui' = [ui EXCEPT !.input = text]
      BY <1>2, Zenon DEF Cli!SetInput
    <2>2. ui' = [ui EXCEPT !.hIdx = ui.hIdx, !.input = text]
      BY <1>0, <2>1, Zenon DEF CliState
    <2>3. QED
      BY <1>0, <1>1, <1>b, <2>2
  <1>3. CASE Cli!ClosePanel \/ Cli!Unmount
    <2>1. PICK b \in BOOLEAN : b = ~ui.panelClosed
      OBVIOUS
    <2>2. ui' = [ui EXCEPT !.panelClosed = b] \/ ui' = [ui EXCEPT !.mounted = FALSE]
      BY <1>0, <1>3, <2>1, Zenon DEF Cli!ClosePanel, Cli!Unmount, CliState
    <2>3. /\ ui' \in CliState /\ CliSame(ui, ui') /\ ui'.hIdx = ui.hIdx
          /\ ui'.history = ui.history
      BY <1>0, <2>2, Zenon DEF CliState, CliSame
    <2>4. QED
      BY <1>0, <2>3, CliSameOk, Zenon DEF CliRecall
  <1>4. CASE Cli!Tab
    <2>1. \/ ui' = [ui EXCEPT !.log = Append(@, Cli!Line("matches", ui.n))]
          \/ \E text \in Cli!Typed \ {"", "junk"} : ui' = [ui EXCEPT !.input = text]
      BY <1>4, Zenon DEF Cli!Tab
    <2>2. CASE \E text \in Cli!Typed \ {"", "junk"} : ui' = [ui EXCEPT !.input = text]
      <3>1. PICK text \in Cli!Typed : ui' = [ui EXCEPT !.input = text]
        BY <2>2, Zenon
      <3>2. ui' = [ui EXCEPT !.hIdx = ui.hIdx, !.input = text]
        BY <1>0, <3>1, Zenon DEF CliState
      <3>3. QED
        BY <1>0, <1>1, <1>b, <3>2
    <2>3. CASE ui' = [ui EXCEPT !.log = Append(@, Cli!Line("matches", ui.n))]
      <3>1. PICK l : l = Cli!Line("matches", ui.n)
        OBVIOUS
      <3>2. l \in CliLine /\ l.kind = "matches" /\ l.of = ui.n
        BY <1>0, <3>1, Zenon DEF Cli!Line, CliLine
      <3>3. ~Reading(l)
        BY <3>2, Zenon DEF Reading
      <3>4. PICK m : m = Append(ui.log, l)
        OBVIOUS
      <3>5. ui.n <= ui.n
        BY <1>0
      <3>6. /\ m \in Seq(CliLine) /\ CliReads(m)
            /\ \A k : Scrying(ui.log, k) => Scrying(m, k)
            /\ \A i \in 1..Len(m) : m[i].of <= ui.n
        BY <1>0, <3>2, <3>3, <3>4, <3>5, CliAppends, Zenon DEF CliNumbers
      <3>7. ui' = [ui EXCEPT !.log = m]
        BY <1>0, <2>3, <3>1, <3>4, Zenon DEF CliState
      <3>8. ui' \in CliState
        BY <1>0, <3>6, <3>7, Zenon DEF CliState
      <3>9. /\ ui'.log = m /\ ui'.scries = ui.scries /\ ui'.gen = ui.gen /\ ui'.n = ui.n
            /\ ui'.hIdx = ui.hIdx /\ ui'.history = ui.history
        BY <1>0, <3>7, Zenon DEF CliState
      <3>10. QED
        BY <1>0, <3>6, <3>8, <3>9, Zenon DEF CliOk, CliNumbers, CliScries, CliRecall
    <2>4. QED
      BY <2>1, <2>2, <2>3
  <1>5. CASE Cli!ArrowUp
    <2>1. PICK ni \in Int : /\ ni = IF ui.hIdx = 0 THEN Len(ui.history)
                                   ELSE IF ui.hIdx > 1 THEN ui.hIdx - 1 ELSE 1
                            /\ ni >= 0 /\ ni <= Len(ui.history)
                            /\ ni = 0 \/ ni \in 1..Len(ui.history)
      BY <1>0, <1>b
    <2>2. PICK text : text = IF ni = 0 THEN ui.input ELSE ui.history[ni]
      OBVIOUS
    <2>3. text \in Cli!Typed
      <3>1. ui.input \in Cli!Typed
        BY <1>0, Zenon DEF CliState
      <3>2. QED
        BY <1>a, <2>1, <2>2, <3>1, Zenon
    <2>4. ui' = [ui EXCEPT !.hIdx = ni, !.input = text]
      BY <1>0, <1>5, <2>1, <2>2, Zenon DEF Cli!ArrowUp, CliState
    <2>5. QED
      BY <1>1, <2>1, <2>3, <2>4
  <1>6. CASE Cli!ArrowDown
    <2>1. /\ ui.hIdx # 0
          /\ ui' = IF ui.hIdx = Len(ui.history) THEN [ui EXCEPT !.hIdx = 0, !.input = ""]
                   ELSE [ui EXCEPT !.hIdx = @ + 1, !.input = ui.history[ui.hIdx + 1]]
      BY <1>6, Zenon DEF Cli!ArrowDown
    <2>2. CASE ui.hIdx = Len(ui.history)
      <3>1. ui' = [ui EXCEPT !.hIdx = 0, !.input = ""]
        BY <2>1, <2>2, Zenon
      <3>2. "" \in Cli!Typed
        BY Zenon DEF Cli!Typed
      <3>3. 0 >= 0 /\ 0 <= Len(ui.history)
        BY <1>b
      <3>4. /\ ui' \in CliState /\ CliSame(ui, ui') /\ ui'.hIdx = 0 /\ ui'.history = ui.history
        BY <1>0, <3>1, <3>2, Zero, Zenon DEF CliState, CliSame
      <3>5. QED
        BY <1>0, <3>3, <3>4, CliSameOk, Zenon DEF CliRecall
    <2>3. CASE ui.hIdx # Len(ui.history)
      <3>1. PICK i \in Int : i = ui.hIdx + 1 /\ i >= 0 /\ i <= Len(ui.history)
                             /\ i \in 1..Len(ui.history)
        BY <1>0, <1>b, <2>3
      <3>2. PICK text : text = ui.history[i]
        OBVIOUS
      <3>3. text \in Cli!Typed
        BY <1>a, <3>1, <3>2, Zenon
      <3>4. ui' = [ui EXCEPT !.hIdx = i, !.input = text]
        BY <1>0, <2>1, <2>3, <3>1, <3>2, Zenon DEF CliState
      <3>5. QED
        BY <1>1, <3>1, <3>3, <3>4
    <2>4. QED
      BY <2>2, <2>3
  <1>7. CASE Cli!scryLive
    <2>1. PICK s \in ui.scries, hits \in SUBSET Cli!Readings :
            ui' = [ui EXCEPT !.scries = @ \ {s},
              !.log = IF s.gen = ui.gen /\ ui.mounted
                      THEN @ \o [i \in 1..Cli!Cardinality(hits) |-> Cli!Line("live", s.of)]
                             \o <<Cli!Line(IF hits = {} THEN "dark" ELSE "proof", s.of)>>
                      ELSE @]
      BY <1>7, Zenon DEF Cli!scryLive
    <2>2. PICK c : c = Cli!Cardinality(hits)
      OBVIOUS
    <2>3. PICK last : last = IF hits = {} THEN "dark" ELSE "proof"
      OBVIOUS
    <2>4. c \in Nat /\ last \in {"proof", "dark"} /\ (last = "proof" => c > 0)
      BY <2>2, <2>3, ReadingsCounted, Zenon
    <2>5. PICK m : m = IF s.gen = ui.gen /\ ui.mounted
                       THEN (ui.log \o [i \in 1..c |-> Cli!Line("live", s.of)])
                              \o <<Cli!Line(last, s.of)>>
                       ELSE ui.log
      OBVIOUS
    <2>6. ui' = [ui EXCEPT !.scries = ui.scries \ {s}, !.log = m]
      BY <1>0, <2>1, <2>2, <2>3, <2>5, Zenon DEF CliState
    <2>7. /\ m \in {ui.log, (ui.log \o [i \in 1..c |-> Cli!Line("live", s.of)])
                                  \o <<Cli!Line(last, s.of)>>}
          /\ s.gen # ui.gen => m = ui.log
      BY <2>5, Zenon
    <2>8. QED
      BY <2>4, <2>6, <2>7, CliSettles
  <1>8. CASE Cli!ScryMalformed
    <2>1. PICK s \in ui.scries, some \in BOOLEAN :
            ui' = [ui EXCEPT !.scries = @ \ {s},
              !.log = IF s.gen = ui.gen /\ ui.mounted
                      THEN @ \o (IF some THEN <<Cli!Line("live", s.of)>> ELSE <<>>)
                             \o <<Cli!Line("dark", s.of)>>
                      ELSE @]
      BY <1>8, Zenon DEF Cli!ScryMalformed
    <2>2. PICK c \in Nat :
            (IF some THEN <<Cli!Line("live", s.of)>> ELSE <<>>)
              = [i \in 1..c |-> Cli!Line("live", s.of)]
      <3>1. PICK x : x = Cli!Line("live", s.of)
        OBVIOUS
      <3>2. <<x>> = [i \in 1..1 |-> x] /\ <<>> = [i \in 1..0 |-> x]
        OBVIOUS
      <3>3. 1 \in Nat /\ 0 \in Nat
        OBVIOUS
      <3>4. QED
        BY <3>1, <3>2, <3>3, Zenon
    <2>3. PICK m : m = IF s.gen = ui.gen /\ ui.mounted
                       THEN (ui.log \o [i \in 1..c |-> Cli!Line("live", s.of)])
                              \o <<Cli!Line("dark", s.of)>>
                       ELSE ui.log
      OBVIOUS
    <2>4. ui' = [ui EXCEPT !.scries = ui.scries \ {s}, !.log = m]
      BY <1>0, <2>1, <2>2, <2>3, Zenon DEF CliState
    <2>5. /\ m \in {ui.log, (ui.log \o [i \in 1..c |-> Cli!Line("live", s.of)])
                                  \o <<Cli!Line("dark", s.of)>>}
          /\ s.gen # ui.gen => m = ui.log
      BY <2>3, Zenon
    <2>6. "dark" \in {"proof", "dark"} /\ "dark" # "proof"
      OBVIOUS
    <2>7. QED
      BY <2>4, <2>5, <2>6, CliSettles
  <1>9. QED
    BY CliSubmit, <1>2, <1>3, <1>4, <1>5, <1>6, <1>7, <1>8, Zenon DEF Cli!Next, Cli!Answered

\* The oracle page resolves the context the console links to as the console did.
LEMMA SameContext ==
  ASSUME NEW slug, NEW c \in Cli!Ctx(slug)
  PROVE  Oracle!parseCtx(c) = {c}
  <1>1. PICK k : k = Cli!kindOf(slug)
    OBVIOUS
  <1>2. k # "" /\ c = [kind |-> k, key |-> slug]
    BY <1>1, Zenon DEF Cli!Ctx
  <1>3. c.kind = k /\ c.key = slug
    BY <1>2, Zenon
  <1>4. PICK n \in 1..4 : Oracle!Kinds[n] = k /\ slug \in Oracle!Namespace(k)
    <2>1. /\ Oracle!Kinds[1] = "project" /\ Oracle!Kinds[2] = "station"
          /\ Oracle!Kinds[3] = "page" /\ Oracle!Kinds[4] = "writeup"
      BY DEF Oracle!Kinds
    <2>2. 1 \in 1..4 /\ 2 \in 1..4 /\ 3 \in 1..4 /\ 4 \in 1..4
      OBVIOUS
    <2>3. \/ k = "project" /\ slug \in {"p"}
          \/ k = "station" /\ slug \in {"p", "s"}
          \/ k = "writeup" /\ slug \in {"w"}
          \/ k = "page" /\ slug \in {"g"}
      BY <1>1, <1>2, Zenon DEF Cli!kindOf
    <2>4. /\ k = "project" => Oracle!Namespace(k) = {"p"}
          /\ k = "station" => Oracle!Namespace(k) = {"p", "s"}
          /\ k = "writeup" => Oracle!Namespace(k) = {"w"}
          /\ k = "page" => Oracle!Namespace(k) = {"g"}
      BY DEF Oracle!Namespace
    <2>5. QED
      BY <2>1, <2>2, <2>3, <2>4, Zenon
  <1>5. \A i, j \in 1..4 : Oracle!Kinds[i] = Oracle!Kinds[j] => i = j
    BY DEF Oracle!Kinds
  <1>6. PICK found : found = {i \in 1..4 : c.key \in Oracle!Namespace(Oracle!Kinds[i])
                                          /\ c.kind \in {"", Oracle!Kinds[i]}}
    OBVIOUS
  <1>7. found = {n}
    BY <1>2, <1>3, <1>4, <1>5, <1>6, Zenon
  <1>8. (CHOOSE i \in found : \A j \in found : i <= j) = n
    <2>1. n \in found /\ \A j \in found : j = n /\ n <= j
      BY <1>7
    <2>2. QED
      BY <2>1
  <1>9. Oracle!parseCtx(c)
          = IF found = {} THEN {}
            ELSE {[kind |-> Oracle!Kinds[CHOOSE i \in found : \A j \in found : i <= j],
                   key |-> c.key]}
    BY <1>6, Zenon DEF Oracle!parseCtx
  <1>10. found # {}
    BY <1>7, Zenon
  <1>11. Oracle!parseCtx(c) = {[kind |-> k, key |-> slug]}
    BY <1>3, <1>4, <1>8, <1>9, <1>10, Zenon
  <1>12. QED
    BY <1>2, <1>11, Zenon

LEMMA CliShown ==
  CliOk(ui) => /\ Cli!RecallInRange /\ Cli!ShownIsCurrent
               /\ \A c \in ui.ctx : Oracle!parseCtx(c) = {c}
  <1> SUFFICES ASSUME CliOk(ui)
               PROVE  /\ Cli!RecallInRange /\ Cli!ShownIsCurrent
                      /\ \A c \in ui.ctx : Oracle!parseCtx(c) = {c}
    OBVIOUS
  <1>1. Cli!RecallInRange
    <2>1. ui.hIdx \in Int /\ ui.history \in Seq(Cli!Typed)
      BY Zenon DEF CliOk, CliState
    <2>2. Len(ui.history) \in Nat
      BY <2>1
    <2>3. ui.hIdx >= 0 /\ ui.hIdx <= Len(ui.history)
      BY Zenon DEF CliOk, CliRecall
    <2>4. ui.hIdx \in 0..Len(ui.history)
      BY <2>1, <2>2, <2>3
    <2>5. QED
      BY <2>4, Zenon DEF Cli!RecallInRange
  <1>2. Cli!ShownIsCurrent
    BY Zenon DEF CliOk, CliReads, Reading, Closing, Cli!ShownIsCurrent
  <1>3. ASSUME NEW c \in ui.ctx PROVE Oracle!parseCtx(c) = {c}
    <2>1. ui.ctx \in {{}} \cup {Cli!Ctx(slug) : slug \in Cli!Slugs}
      BY Zenon DEF CliOk, CliState
    <2>2. PICK slug : c \in Cli!Ctx(slug)
      BY <1>3, <2>1, Zenon
    <2>3. QED
      BY <2>2, SameContext
  <1>4. QED
    BY <1>1, <1>2, <1>3

-----------------------------------------------------------------------------
(* The DB explorer.  The run that is out is that of the query selected, and *)
(* nothing runs before the menu is there.                                  *)

DbState ==
  [mounted : BOOLEAN, menu : {"loading", "ready", "failed"}, menuOut : BOOLEAN,
   queries : SUBSET Queries, sel : SUBSET Queries,
   kind : {"idle", "running", "done", "cooling", "busy", "offline", "error"},
   out : SUBSET Queries, ran : SUBSET Queries, res : Db!Results]
DbMenu(u) == /\ u.menuOut => u.menu = "loading" /\ u.kind = "idle" /\ u.out = {}
             /\ u.kind # "idle" => u.sel \subseteq u.queries /\ u.menu = "ready"
DbRuns(u) == /\ u.mounted => (u.out # {} <=> u.kind = "running")
             /\ u.mounted => \A q \in u.out : u.sel = {q}
             /\ u.kind = "done" => u.ran = u.sel
DbOk(u) == u \in DbState /\ DbMenu(u) /\ DbRuns(u)

LEMMA DbInit == Db!Init => DbOk(ui)
  <1> SUFFICES ASSUME Db!Init PROVE DbOk(ui)
    OBVIOUS
  <1>1. PICK r \in Db!Results :
          ui = [mounted |-> TRUE, menu |-> "loading", menuOut |-> TRUE, queries |-> {},
                sel |-> {}, kind |-> "idle", out |-> {}, ran |-> {}, res |-> r]
    <2>1. Db!Blank \in Db!Results
      BY Zenon DEF Db!Blank, Db!Results
    <2>2. QED
      BY <2>1, Zenon DEF Db!Init
  <1>2. ui \in DbState /\ ui.menu = "loading" /\ ui.kind = "idle" /\ ui.out = {} /\ "idle" # "running" /\ "idle" # "done"
    BY <1>1, Zenon DEF DbState
  <1>3. QED
    BY <1>2, Zenon DEF DbOk, DbMenu, DbRuns

LEMMA DbStep == DbOk(ui) /\ Db!Next => DbOk(ui')
  <1> SUFFICES ASSUME DbOk(ui), Db!Next PROVE DbOk(ui')
    OBVIOUS
  <1>0. ui \in DbState /\ DbMenu(ui) /\ DbRuns(ui) /\ ui.mounted \in BOOLEAN
    BY Zenon DEF DbOk, DbState
  <1>1. CASE Db!OnMenu
    <2>1. ui.menuOut /\ ui.kind = "idle" /\ ui.out = {}
      BY <1>0, <1>1, Zenon DEF Db!OnMenu, DbMenu
    <2>2. PICK m \in {"loading", "ready", "failed"}, qs \in SUBSET Queries, s \in SUBSET Queries :
            ui' = [ui EXCEPT !.menuOut = FALSE, !.menu = m, !.queries = qs, !.sel = s]
      <3>1. PICK qs \in {{}, Queries} :
              ui' = IF ~ui.mounted THEN [ui EXCEPT !.menuOut = FALSE]
                    ELSE [ui EXCEPT !.menuOut = FALSE, !.menu = "ready", !.queries = qs,
                                    !.sel = IF qs = {} THEN ui.sel ELSE {CHOOSE q \in qs : TRUE}]
        BY <1>0, <1>1, Zenon DEF Db!OnMenu, DbState
      <3>2. PICK s : s = IF qs = {} THEN ui.sel ELSE {CHOOSE q \in qs : TRUE}
        OBVIOUS
      <3>3. ui.sel \in SUBSET Queries /\ qs \in SUBSET Queries
        BY <1>0, Zenon DEF DbState
      <3>4. s \in SUBSET Queries
        <4>1. CASE qs = {}
          BY <3>2, <3>3, <4>1, Zenon
        <4>2. CASE qs # {}
          <5>1. (CHOOSE q \in qs : TRUE) \in qs
            BY <4>2, Zenon
          <5>2. QED
            BY <3>2, <3>3, <4>2, <5>1, Zenon
        <4>3. QED
          BY <4>1, <4>2
      <3>5. CASE ui.mounted
        <4>1. ui' = [ui EXCEPT !.menuOut = FALSE, !.menu = "ready", !.queries = qs, !.sel = s]
          BY <3>1, <3>2, <3>5, Zenon
        <4>2. QED
          BY <3>3, <3>4, <4>1, Zenon
      <3>6. CASE ~ui.mounted
        <4>1. ui' = [ui EXCEPT !.menuOut = FALSE, !.menu = ui.menu, !.queries = ui.queries,
                               !.sel = ui.sel]
          BY <1>0, <3>1, <3>6, Zenon DEF DbState
        <4>2. QED
          BY <1>0, <4>1, Zenon DEF DbState
      <3>7. QED
        BY <1>0, <3>5, <3>6, Zenon
    <2>3. ui' \in DbState
      BY <1>0, <2>2, Zenon DEF DbState
    <2>4. ~ui'.menuOut /\ ui'.kind = "idle" /\ ui'.out = {} /\ "idle" # "running" /\ "idle" # "done"
      BY <1>0, <2>1, <2>2, Zenon DEF DbState
    <2>5. QED
      BY <2>3, <2>4, Zenon DEF DbOk, DbMenu, DbRuns
  <1>2. CASE Db!OnMenuError
    <2>1. ui.menuOut /\ ui.kind = "idle" /\ ui.out = {}
      BY <1>0, <1>2, Zenon DEF Db!OnMenuError, DbMenu
    <2>2. PICK m : m = IF ui.mounted THEN "failed" ELSE ui.menu
      OBVIOUS
    <2>3. ui' = [ui EXCEPT !.menuOut = FALSE, !.menu = m]
      BY <1>0, <1>2, <2>2, Zenon DEF Db!OnMenuError, DbState
    <2>4. m \in {"loading", "ready", "failed"}
      BY <1>0, <2>2, Zenon DEF DbState
    <2>5. ui' \in DbState
      BY <1>0, <2>3, <2>4, Zenon DEF DbState
    <2>6. ~ui'.menuOut /\ ui'.kind = "idle" /\ ui'.out = {} /\ "idle" # "running" /\ "idle" # "done"
      BY <1>0, <2>1, <2>3, Zenon DEF DbState
    <2>7. QED
      BY <2>5, <2>6, Zenon DEF DbOk, DbMenu, DbRuns
  <1>3. CASE Db!Click
    <2>1. PICK q : q \in Db!View.picks /\ Db!runQuery(q)
      BY <1>3, Zenon DEF Db!Click
    <2>2. ui.menu = "ready" /\ ui.kind # "running" /\ q \in ui.queries
      BY <2>1, Zenon DEF Db!View
    <2>3. ~ui.menuOut
      BY <1>0, <2>2, Zenon DEF DbMenu
    <2>4. ui' = [ui EXCEPT !.sel = {q}, !.kind = "running", !.out = {q}]
      BY <2>1, <2>2, Zenon DEF Db!runQuery
    <2>5. {q} \in SUBSET Queries
      BY <1>0, <2>2, Zenon DEF DbState
    <2>6. ui' \in DbState
      BY <1>0, <2>4, <2>5, Zenon DEF DbState
    <2>7. /\ ui'.kind = "running" /\ ui'.out = {q} /\ ui'.sel = {q} /\ ui'.menu = ui.menu
          /\ ui'.queries = ui.queries /\ ui'.menuOut = ui.menuOut /\ "running" # "done"
      BY <1>0, <2>4, Zenon DEF DbState
    <2>8. QED
      BY <2>2, <2>3, <2>6, <2>7, Zenon DEF DbOk, DbMenu, DbRuns
  <1>4. CASE Db!OnRan
    <2>1. PICK q \in ui.out, r \in Db!Results :
            ui' = IF ~ui.mounted THEN [ui EXCEPT !.out = {}]
                  ELSE [ui EXCEPT !.out = {}, !.kind = "done", !.ran = {q}, !.res = r]
      BY <1>4, Zenon DEF Db!OnRan
    <2>2. {q} \in SUBSET Queries
      BY <1>0, <2>1, Zenon DEF DbState
    <2>3. ~ui.menuOut
      BY <1>0, <2>1, Zenon DEF DbMenu
    <2>4. CASE ui.mounted
      <3>1. ui' = [ui EXCEPT !.out = {}, !.kind = "done", !.ran = {q}, !.res = r]
        BY <2>1, <2>4, Zenon
      <3>2. ui' \in DbState
        BY <1>0, <2>2, <3>1, Zenon DEF DbState
      <3>3. /\ ui'.out = {} /\ ui'.kind = "done" /\ ui'.ran = {q} /\ ui'.sel = ui.sel
            /\ ui'.queries = ui.queries /\ ui'.menu = ui.menu /\ ui'.menuOut = ui.menuOut
            /\ "done" # "running"
        BY <1>0, <3>1, Zenon DEF DbState
      <3>4. ui.kind = "running" /\ ui.sel = {q} /\ "running" # "idle"
        BY <1>0, <2>1, <2>4, Zenon DEF DbRuns
      <3>5. DbMenu(ui')
        BY <1>0, <2>3, <3>3, <3>4, Zenon DEF DbMenu
      <3>6. DbRuns(ui')
        BY <3>3, <3>4, Zenon DEF DbRuns
      <3>7. QED
        BY <3>2, <3>5, <3>6, Zenon DEF DbOk
    <2>5. CASE ~ui.mounted
      <3>1. ui' = [ui EXCEPT !.out = {}]
        BY <2>1, <2>5, Zenon
      <3>2. ui' \in DbState
        BY <1>0, <3>1, Zenon DEF DbState
      <3>3. /\ ui'.out = {} /\ ui'.kind = ui.kind /\ ui'.ran = ui.ran /\ ui'.sel = ui.sel
            /\ ui'.queries = ui.queries /\ ui'.menu = ui.menu /\ ui'.menuOut = ui.menuOut
            /\ ui'.mounted = ui.mounted
        BY <1>0, <3>1, Zenon DEF DbState
      <3>4. QED
        BY <1>0, <2>5, <3>2, <3>3, Zenon DEF DbOk, DbMenu, DbRuns
    <2>6. QED
      BY <2>4, <2>5
  <1>5. CASE Db!OnRefused
    <2>1. PICK q \in ui.out, w \in {"cooling", "busy", "offline", "error"} :
            ui' = [ui EXCEPT !.out = {}, !.kind = IF ui.mounted THEN w ELSE ui.kind]
      BY <1>0, <1>5, Zenon DEF Db!OnRefused, DbState
    <2>2. PICK k : k = IF ui.mounted THEN w ELSE ui.kind
      OBVIOUS
    <2>3. k \in {"idle", "running", "done", "cooling", "busy", "offline", "error"}
      BY <1>0, <2>2, Zenon DEF DbState
    <2>4. ui' = [ui EXCEPT !.out = {}, !.kind = k]
      BY <2>1, <2>2, Zenon
    <2>5. ui' \in DbState
      BY <1>0, <2>3, <2>4, Zenon DEF DbState
    <2>6. /\ ui'.out = {} /\ ui'.kind = k /\ ui'.ran = ui.ran /\ ui'.sel = ui.sel
          /\ ui'.queries = ui.queries /\ ui'.menu = ui.menu /\ ui'.menuOut = ui.menuOut
          /\ ui'.mounted = ui.mounted
      BY <1>0, <2>4, Zenon DEF DbState
    <2>7. ~ui.menuOut
      BY <1>0, <2>1, Zenon DEF DbMenu
    <2>8. /\ ui.mounted => k \in {"cooling", "busy", "offline", "error"} /\ ui.kind = "running"
          /\ ~ui.mounted => k = ui.kind
      BY <1>0, <2>1, <2>2, Zenon DEF DbRuns
    <2>9. /\ k \in {"cooling", "busy", "offline", "error"} => k # "running" /\ k # "done"
          /\ "running" # "idle"
      OBVIOUS
    <2>10. QED
      BY <1>0, <2>5, <2>6, <2>7, <2>8, <2>9, Zenon DEF DbOk, DbMenu, DbRuns
  <1>6. CASE Db!Unmount
    <2>1. ui' = [ui EXCEPT !.mounted = FALSE, !.menuOut = FALSE]
      BY <1>6, Zenon DEF Db!Unmount
    <2>2. ui' \in DbState
      BY <1>0, <2>1, Zenon DEF DbState
    <2>3. /\ ui'.kind = ui.kind /\ ui'.ran = ui.ran /\ ui'.sel = ui.sel
          /\ ui'.queries = ui.queries /\ ui'.menu = ui.menu /\ ~ui'.menuOut /\ ~ui'.mounted
      BY <1>0, <2>1, Zenon DEF DbState
    <2>4. QED
      BY <1>0, <2>2, <2>3, Zenon DEF DbOk, DbMenu, DbRuns
  <1>7. QED
    BY <1>1, <1>2, <1>3, <1>4, <1>5, <1>6, Zenon DEF Db!Next, Db!Answered

LEMMA DbShown == DbOk(ui) => Db!ShownIsCurrent
  <1> SUFFICES ASSUME DbOk(ui) PROVE Db!ShownIsCurrent
    OBVIOUS
  <1>0. ui \in DbState /\ DbMenu(ui) /\ DbRuns(ui)
    BY Zenon DEF DbOk
  <1>1. ASSUME Db!View.line \in {"rows in ms", "timed out"}
        PROVE  ui.ran = Db!View.sql
    <2>1. Db!View.sql = IF ui.menu = "ready" THEN ui.sel \cap ui.queries ELSE {}
      BY Zenon DEF Db!View
    <2>2. ui.menu = "ready" /\ ui.kind = "done"
      <3>1. Db!View.line = IF ui.menu # "ready" THEN ""
                           ELSE IF ui.menu = "ready" /\ ui.kind = "done"
                                THEN (IF ui.res.timedOut THEN "timed out" ELSE "rows in ms")
                                ELSE IF ui.kind = "idle" THEN "" ELSE ui.kind
        BY Zenon DEF Db!View
      <3>2. ui.kind \in {"idle", "running", "done", "cooling", "busy", "offline", "error"}
        BY <1>0, Zenon DEF DbState
      <3>3. QED
        BY <1>1, <3>1, <3>2, Zenon
    <2>3. ui.ran = ui.sel /\ ui.sel \subseteq ui.queries
      BY <1>0, <2>2, Zenon DEF DbMenu, DbRuns
    <2>4. ui.sel \cap ui.queries = ui.sel
      BY <2>3, Zenon
    <2>5. QED
      BY <2>1, <2>2, <2>3, <2>4, Zenon
  <1>2. ASSUME ui.mounted PROVE (ui.out # {}) = (ui.kind = "running")
    <2>1. ui.out # {} <=> ui.kind = "running"
      BY <1>0, <1>2, Zenon DEF DbRuns
    <2>2. QED
      BY <2>1
  <1>3. ASSUME ui.mounted, ui.out # {} PROVE ui.out = Db!View.sql /\ Db!View.picks = {}
    <2>1. ui.kind = "running" /\ "running" # "idle" /\ \A q \in ui.out : ui.sel = {q}
      BY <1>0, <1>3, Zenon DEF DbRuns
    <2>2. ui.menu = "ready" /\ ui.sel \subseteq ui.queries
      BY <1>0, <2>1, Zenon DEF DbMenu
    <2>3. ui.out = ui.sel /\ ui.sel \cap ui.queries = ui.sel
      BY <1>3, <2>1, <2>2, Zenon
    <2>4. /\ Db!View.sql = IF ui.menu = "ready" THEN ui.sel \cap ui.queries ELSE {}
          /\ Db!View.picks = IF ui.menu = "ready" /\ ui.kind # "running" THEN ui.queries ELSE {}
      BY Zenon DEF Db!View
    <2>5. QED
      BY <2>1, <2>2, <2>3, <2>4, Zenon
  <1>4. QED
    BY <1>1, <1>2, <1>3, Zenon DEF Db!ShownIsCurrent

-----------------------------------------------------------------------------
(* The API playground.  What is out is the pressed tab, and a page that    *)
(* will be appended is the one after the events at hand.                   *)

Demos == {[op |-> "mint"]} \cup [op : {"page"}, cursor : Int, append : BOOLEAN]
ApiState ==
  [mounted : BOOLEAN, result : SUBSET Endpoints, active : SUBSET Endpoints, busy : BOOLEAN,
   out : SUBSET Endpoints, msg : {"", "answered", "core unreachable"}, token : BOOLEAN,
   tokenMsg : {"", "minted", "core unreachable"} \cup Api!Refusals, events : Seq(Int),
   nextCursor : Int, total : Int, demoBusy : BOOLEAN, demo : SUBSET Demos,
   demoMsg : {"", "showing", "loaded more", "core unreachable"} \cup Api!Refusals]
ApiRuns(u) == u.mounted => /\ \A ep \in u.out : u.active = {ep}
                           /\ ~u.busy => u.out = {} /\ u.result = u.active
\* The first n events are listed, and the cursor stands behind them.
Listed(list, cursor, total, n) ==
  /\ n \in 0..5 /\ Len(list) = n /\ \A i \in 1..n : list[i] = i
  /\ cursor = IF n \in 1..4 THEN n ELSE 0
  /\ n > 0 => total = 5
ApiLists(u) == \E n \in Int : Listed(u.events, u.nextCursor, u.total, n)
ApiAsks(u) == \A q \in u.demo : q.op = "page" =>
                IF q.append THEN q.cursor = u.nextCursor /\ q.cursor # 0 ELSE q.cursor = 0
ApiOk(u) == u \in ApiState /\ ApiRuns(u) /\ ApiLists(u) /\ ApiAsks(u)

\* A step that leaves the list alone, and one that leaves the tabs alone.
SameList(u, v) == v.events = u.events /\ v.nextCursor = u.nextCursor /\ v.total = u.total
SameTabs(u, v) == /\ v.mounted = u.mounted /\ v.out = u.out /\ v.active = u.active
                  /\ v.busy = u.busy /\ v.result = u.result

LEMMA Concatenated ==
  ASSUME NEW a \in Seq(Int), NEW b \in Seq(Int)
  PROVE  /\ a \o b \in Seq(Int) /\ Len(a) \in Nat /\ Len(b) \in Nat
         /\ Len(a \o b) = Len(a) + Len(b)
         /\ \A i \in 1..Len(a) : (a \o b)[i] = a[i]
         /\ \A i \in 1..Len(b) : (a \o b)[Len(a) + i] = b[i]
  OBVIOUS

LEMMA Pages ==
  ASSUME NEW list \in Seq(Int), NEW c \in Int, NEW n \in Int, NEW total, NEW append \in BOOLEAN,
         Listed(list, c, total, n), NEW k \in Int, k = IF append THEN c ELSE 0,
         append => c # 0, NEW p, p = Api!Page(k),
         NEW t, t = IF append THEN list \o p.items ELSE p.items
  PROVE  t \in Seq(Int) /\ p.nextCursor \in Int /\ \E m \in Int : Listed(t, p.nextCursor, 5, m)
  <1>1. PICK last : last = IF k + 2 < 5 THEN k + 2 ELSE 5
    OBVIOUS
  <1>2. PICK its : its = [i \in 1..(last - k) |-> k + i]
    OBVIOUS
  <1>3. PICK cur : cur = IF last < 5 THEN last ELSE 0
    OBVIOUS
  <1>4. p = [items |-> its, nextCursor |-> cur]
    BY <1>1, <1>2, <1>3, Zenon DEF Api!Page, Api!NoCursor
  <1>5. p.items = its /\ p.nextCursor = cur
    <2>1. PICK x : x = [items |-> its, nextCursor |-> cur]
      OBVIOUS
    <2>2. x.items = its /\ x.nextCursor = cur
      BY <2>1, Zenon
    <2>3. QED
      BY <1>4, <2>1, <2>2, Zenon
  <1>6. n \in 0..5 /\ Len(list) = n /\ (\A i \in 1..n : list[i] = i)
        /\ c = IF n \in 1..4 THEN n ELSE 0
    BY Zenon DEF Listed
  <1>7. k \in 0..4 /\ (append => k = n)
    BY <1>6
  <1>8. last \in 1..5 /\ last > k /\ last - k \in Nat
    BY <1>1, <1>7
  <1>9. its \in Seq(Int) /\ Len(its) = last - k /\ \A i \in 1..(last - k) : its[i] = k + i
    BY <1>2, <1>7, <1>8
  <1>10. t \in Seq(Int) /\ Len(t) = last /\ \A i \in 1..last : t[i] = i
    <2>1. CASE append
      <3>1. t = list \o its /\ k = n
        BY <1>5, <1>7, <2>1
      <3>2. /\ t \in Seq(Int) /\ Len(t) = n + (last - n)
            /\ \A i \in 1..n : t[i] = list[i]
            /\ \A i \in 1..(last - n) : t[n + i] = its[i]
        <4>1. PICK m \in Nat : m = last - n
          BY <1>8, <3>1
        <4>2. n \in Nat /\ its \in Seq(Int) /\ Len(its) = m
          BY <1>6, <1>9, <3>1, <4>1
        <4>3. /\ t \in Seq(Int) /\ Len(t) = n + m
              /\ \A i \in 1..n : t[i] = list[i]
              /\ \A i \in 1..m : t[n + i] = its[i]
          <5>1. /\ list \o its \in Seq(Int) /\ Len(list \o its) = Len(list) + Len(its)
                /\ \A i \in 1..Len(list) : (list \o its)[i] = list[i]
                /\ \A i \in 1..Len(its) : (list \o its)[Len(list) + i] = its[i]
            BY <4>2, Concatenated
          <5>2. t = list \o its /\ Len(list) = n /\ Len(its) = m
            BY <1>6, <3>1, <4>2, Zenon
          <5>3. QED
            BY <5>1, <5>2, Zenon
        <4>4. QED
          BY <4>1, <4>3, Zenon
      <3>3. \A i \in 1..last : i \in 1..n \/ (i - n \in 1..(last - n) /\ i = n + (i - n))
        BY <1>6, <1>8
      <3>4. Len(t) = last
        BY <1>6, <1>8, <3>2
      <3>5. ASSUME NEW i \in 1..last PROVE t[i] = i
        <4>1. CASE i \in 1..n
          BY <1>6, <3>2, <4>1
        <4>2. CASE i - n \in 1..(last - n) /\ i = n + (i - n)
          <5>1. t[i] = its[i - n]
            BY <3>2, <4>2
          <5>2. its[i - n] = n + (i - n)
            BY <1>9, <3>1, <4>2
          <5>3. QED
            BY <4>2, <5>1, <5>2
        <4>3. QED
          BY <3>3, <4>1, <4>2
      <3>6. QED
        BY <3>2, <3>4, <3>5
    <2>2. CASE ~append
      <3>1. t = its /\ k = 0
        BY <1>5, <2>2
      <3>2. QED
        BY <1>8, <1>9, <3>1
    <2>3. QED
      BY <2>1, <2>2
  <1>11. cur \in Int /\ cur = IF last \in 1..4 THEN last ELSE 0
    BY <1>3, <1>8
  <1>12. last \in Int /\ last \in 0..5
    BY <1>8
  <1>13. QED
    BY <1>5, <1>10, <1>11, <1>12, Zenon DEF Listed

LEMMA ApiInit == Api!Init => ApiOk(ui)
  <1> SUFFICES ASSUME Api!Init PROVE ApiOk(ui)
    OBVIOUS
  <1>1. ui = [mounted |-> TRUE, result |-> {}, active |-> {}, busy |-> FALSE, out |-> {},
              msg |-> "", token |-> FALSE, tokenMsg |-> "", events |-> <<>>,
              nextCursor |-> 0, total |-> 0, demoBusy |-> FALSE, demo |-> {},
              demoMsg |-> ""]
    BY Zenon DEF Api!Init, Api!NoCursor
  <1>2. <<>> \in Seq(Int) /\ \A t : Listed(<<>>, 0, t, 0)
    BY DEF Listed
  <1>3. ui \in ApiState
    BY <1>1, <1>2, Zero, Zenon DEF ApiState
  <1>4. /\ ui.events = <<>> /\ ui.nextCursor = 0 /\ ui.demo = {}
        /\ ui.out = {} /\ ui.active = {} /\ ui.result = {}
    BY <1>1, Zenon
  <1>5. ApiLists(ui)
    BY <1>2, <1>4, Zero, Zenon DEF ApiLists
  <1>6. QED
    BY <1>3, <1>4, <1>5, Zenon DEF ApiOk, ApiRuns, ApiAsks

LEMMA ApiStep == ApiOk(ui) /\ Api!Next => ApiOk(ui')
  <1> SUFFICES ASSUME ApiOk(ui), Api!Next PROVE ApiOk(ui')
    OBVIOUS
  <1>0. ui \in ApiState /\ ApiRuns(ui) /\ ApiLists(ui) /\ ApiAsks(ui) /\ ui.mounted \in BOOLEAN
    BY Zenon DEF ApiOk, ApiState
  \* The tabs.
  <1>1. ASSUME ui' \in ApiState, SameList(ui, ui'), ui'.demo = ui.demo, ApiRuns(ui')
        PROVE  ApiOk(ui')
    BY <1>0, <1>1, Zenon DEF ApiOk, ApiLists, ApiAsks, SameList
  <1>2. CASE Api!ClickTab
    <2>1. PICK ep \in Endpoints : ~ui.busy /\ Api!run(ep)
      BY <1>2, Zenon DEF Api!ClickTab, Api!View
    <2>2. ui' = [ui EXCEPT !.busy = TRUE, !.active = {ep}, !.out = {ep}, !.msg = ""]
      BY <2>1, Zenon DEF Api!run
    <2>3. ui' \in ApiState
      BY <1>0, <2>2, Zenon DEF ApiState
    <2>4. /\ SameList(ui, ui') /\ ui'.demo = ui.demo
          /\ ui'.busy /\ ui'.active = {ep} /\ ui'.out = {ep}
      BY <1>0, <2>2, Zenon DEF ApiState, SameList
    <2>5. QED
      BY <1>1, <2>3, <2>4, Zenon DEF ApiRuns
  <1>3. CASE Api!OnResult \/ Api!OnFailure
    <2>1. PICK ep \in ui.out, r \in SUBSET Endpoints, m \in {"answered", "core unreachable"} :
            /\ r \in {{}, {ep}}
            /\ ui' = IF ~ui.mounted THEN [ui EXCEPT !.out = {}]
                     ELSE [ui EXCEPT !.out = {}, !.busy = FALSE, !.result = r,
                                     !.active = IF r = {} THEN {} ELSE ui.active, !.msg = m]
      <3>0. \A e \in ui.out : {e} \in SUBSET Endpoints
        BY <1>0, Zenon DEF ApiState
      <3>1. CASE Api!OnResult
        <4>1. PICK ep \in ui.out :
                ui' = IF ~ui.mounted THEN [ui EXCEPT !.out = {}]
                      ELSE [ui EXCEPT !.out = {}, !.busy = FALSE, !.result = {ep},
                                      !.msg = "answered"]
          BY <3>1, Zenon DEF Api!OnResult
        <4>2. PICK a : a = IF {ep} = {} THEN {} ELSE ui.active
          OBVIOUS
        <4>3. a = ui.active
          BY <4>2, Zenon
        <4>4. ui' = IF ~ui.mounted THEN [ui EXCEPT !.out = {}]
                    ELSE [ui EXCEPT !.out = {}, !.busy = FALSE, !.result = {ep},
                                    !.active = a, !.msg = "answered"]
          BY <1>0, <4>1, <4>3, Zenon DEF ApiState
        <4>5. QED
          BY <3>0, <4>1, <4>2, <4>4, Zenon
      <3>2. CASE Api!OnFailure
        <4>1. PICK ep \in ui.out :
                ui' = IF ~ui.mounted THEN [ui EXCEPT !.out = {}]
                      ELSE [ui EXCEPT !.out = {}, !.busy = FALSE, !.result = {},
                                      !.active = {}, !.msg = "core unreachable"]
          BY <3>2, Zenon DEF Api!OnFailure
        <4>2. PICK a : a = IF {} = {} THEN {} ELSE ui.active
          OBVIOUS
        <4>3. a = {}
          BY <4>2, Zenon
        <4>4. QED
          BY <4>1, <4>2, <4>3, Zenon
      <3>3. QED
        BY <1>3, <3>1, <3>2
    <2>2. CASE ~ui.mounted
      <3>1. ui' = [ui EXCEPT !.out = {}]
        BY <2>1, <2>2, Zenon
      <3>2. ui' \in ApiState
        BY <1>0, <3>1, Zenon DEF ApiState
      <3>3. SameList(ui, ui') /\ ui'.demo = ui.demo /\ ~ui'.mounted
        BY <1>0, <2>2, <3>1, Zenon DEF ApiState, SameList
      <3>4. QED
        BY <1>1, <3>2, <3>3, Zenon DEF ApiRuns
    <2>3. CASE ui.mounted
      <3>1. PICK a : a = IF r = {} THEN {} ELSE ui.active
        OBVIOUS
      <3>2. ui' = [ui EXCEPT !.out = {}, !.busy = FALSE, !.result = r, !.active = a, !.msg = m]
        BY <2>1, <2>3, <3>1, Zenon
      <3>3. ui.active = {ep}
        BY <1>0, <2>1, <2>3, Zenon DEF ApiRuns
      <3>4. a = r
        BY <2>1, <3>1, <3>3, Zenon
      <3>5. r \in SUBSET Endpoints
        BY <1>0, <2>1, Zenon DEF ApiState
      <3>6. ui' \in ApiState
        BY <1>0, <2>1, <3>2, <3>4, <3>5, Zenon DEF ApiState
      <3>7. /\ SameList(ui, ui') /\ ui'.demo = ui.demo
            /\ ui'.out = {} /\ ui'.result = r /\ ui'.active = a
        BY <1>0, <3>2, Zenon DEF ApiState, SameList
      <3>8. QED
        BY <1>1, <3>4, <3>6, <3>7, Zenon DEF ApiRuns
    <2>4. QED
      BY <1>0, <2>2, <2>3, Zenon
  \* The demo: what is asked for, and what is not a page.
  <1>4. ASSUME ui' \in ApiState, SameTabs(ui, ui'), SameList(ui, ui'), ApiAsks(ui')
        PROVE  ApiOk(ui')
    BY <1>0, <1>4, Zenon DEF ApiOk, ApiLists, ApiRuns, SameList, SameTabs
  <1>5. CASE Api!ClickDemo
    <2>1. \/ Api!mintToken
          \/ Api!fetchEvents(0, FALSE)
          \/ ui.nextCursor # 0 /\ Api!fetchEvents(ui.nextCursor, TRUE)
      BY <1>5, Zenon DEF Api!ClickDemo, Api!View, Api!NoCursor
    <2>2. ~ui.demoBusy
      BY <1>5, Zenon DEF Api!ClickDemo, Api!View
    <2>3. CASE Api!mintToken
      <3>1. ui' = [ui EXCEPT !.demoBusy = TRUE, !.tokenMsg = "", !.demo = {[op |-> "mint"]}]
        BY <2>2, <2>3, Zenon DEF Api!mintToken
      <3>2. ui' \in ApiState
        BY <1>0, <3>1, Zenon DEF ApiState, Demos
      <3>3. SameTabs(ui, ui') /\ SameList(ui, ui') /\ ui'.demo = {[op |-> "mint"]}
        BY <1>0, <3>1, Zenon DEF ApiState, SameList, SameTabs
      <3>4. ApiAsks(ui')
        <4>1. [op |-> "mint"].op # "page"
          BY Zenon
        <4>2. QED
          BY <3>3, <4>1, Zenon DEF ApiAsks
      <3>5. QED
        BY <1>4, <3>2, <3>3, <3>4, Zenon
    <2>4. ASSUME NEW c \in Int, NEW a \in BOOLEAN, Api!fetchEvents(c, a),
                 IF a THEN c = ui.nextCursor /\ c # 0 ELSE c = 0
          PROVE  ApiOk(ui')
      <3>1. PICK q : q = [op |-> "page", cursor |-> c, append |-> a]
        OBVIOUS
      <3>2. q \in Demos /\ q.cursor = c /\ q.append = a
        BY <3>1, Zenon DEF Demos
      <3>3. ui' = [ui EXCEPT !.demoBusy = TRUE, !.demoMsg = "", !.demo = {q}]
        BY <2>2, <2>4, <3>1, Zenon DEF Api!fetchEvents
      <3>4. ui' \in ApiState
        BY <1>0, <3>2, <3>3, Zenon DEF ApiState
      <3>5. SameTabs(ui, ui') /\ SameList(ui, ui') /\ ui'.demo = {q}
        BY <1>0, <3>3, Zenon DEF ApiState, SameList, SameTabs
      <3>6. ApiAsks(ui')
        BY <2>4, <3>2, <3>5, Zenon DEF ApiAsks, SameList
      <3>7. QED
        BY <1>4, <3>4, <3>5, <3>6, Zenon
    <2>5. ui.nextCursor \in Int /\ 0 \in Int
      BY <1>0, Zero, Zenon DEF ApiState
    <2>6. QED
      BY <2>1, <2>3, <2>4, <2>5, Zenon
  <1>6. CASE Api!OnMinted \/ Api!OnPageRefused
    <2>1. \/ ui' = [ui EXCEPT !.demo = {}]
          \/ \E b \in BOOLEAN, w \in {"minted", "core unreachable"} \cup Api!Refusals :
               ui' = [ui EXCEPT !.demo = {}, !.demoBusy = FALSE, !.tokenMsg = w, !.token = b]
          \/ \E w \in {"core unreachable"} \cup Api!Refusals :
               ui' = [ui EXCEPT !.demo = {}, !.demoBusy = FALSE, !.demoMsg = w]
      <3>1. CASE Api!OnMinted
        <4>1. PICK w \in {"minted"} \cup (Api!Refusals \ {"401"}) \cup {"core unreachable"} :
                ui' = IF ~ui.mounted THEN [ui EXCEPT !.demo = {}]
                      ELSE [ui EXCEPT !.demo = {}, !.demoBusy = FALSE, !.tokenMsg = w,
                                      !.token = ui.token \/ w = "minted"]
          BY <1>0, <3>1, Zenon DEF Api!OnMinted, ApiState
        <4>2. PICK b \in BOOLEAN : b = (ui.token \/ w = "minted")
          OBVIOUS
        <4>3. w \in {"minted", "core unreachable"} \cup Api!Refusals
          BY <4>1, Zenon
        <4>4. QED
          BY <1>0, <4>1, <4>2, <4>3, Zenon
      <3>2. CASE Api!OnPageRefused
        <4>1. PICK w \in Api!Refusals \cup {"core unreachable"} :
                ui' = IF ~ui.mounted THEN [ui EXCEPT !.demo = {}]
                      ELSE [ui EXCEPT !.demo = {}, !.demoBusy = FALSE, !.demoMsg = w]
          BY <3>2, Zenon DEF Api!OnPageRefused
        <4>2. QED
          BY <1>0, <4>1, Zenon
      <3>3. QED
        BY <1>6, <3>1, <3>2
    <2>2. ui' \in ApiState
      BY <1>0, <2>1, Zenon DEF ApiState
    <2>3. SameTabs(ui, ui') /\ SameList(ui, ui') /\ ui'.demo = {}
      BY <1>0, <2>1, Zenon DEF ApiState, SameList, SameTabs
    <2>4. QED
      BY <1>4, <2>2, <2>3, Zenon DEF ApiAsks
  <1>7. CASE Api!OnPage
    <2>1. PICK q \in ui.demo : /\ q.op = "page"
            /\ ui' = IF ~ui.mounted THEN [ui EXCEPT !.demo = {}]
                     ELSE [ui EXCEPT !.demo = {}, !.demoBusy = FALSE,
                             !.events = IF q.append THEN ui.events \o Api!Page(q.cursor).items
                                        ELSE Api!Page(q.cursor).items,
                             !.nextCursor = Api!Page(q.cursor).nextCursor, !.total = 5,
                             !.demoMsg = IF q.append THEN "loaded more" ELSE "showing"]
      BY <1>0, <1>7, Zenon DEF Api!OnPage, ApiState
    <2>2. CASE ~ui.mounted
      <3>1. ui' = [ui EXCEPT !.demo = {}]
        BY <2>1, <2>2, Zenon
      <3>2. ui' \in ApiState
        BY <1>0, <3>1, Zenon DEF ApiState
      <3>3. SameTabs(ui, ui') /\ SameList(ui, ui') /\ ui'.demo = {}
        BY <1>0, <3>1, Zenon DEF ApiState, SameList, SameTabs
      <3>4. QED
        BY <1>4, <3>2, <3>3, Zenon DEF ApiAsks
    <2>3. CASE ui.mounted
      <3>1. PICK p : p = Api!Page(q.cursor)
        OBVIOUS
      <3>2. PICK t, w : /\ t = IF q.append THEN ui.events \o p.items ELSE p.items
                        /\ w = IF q.append THEN "loaded more" ELSE "showing"
        OBVIOUS
      <3>3. ui' = [ui EXCEPT !.demo = {}, !.demoBusy = FALSE, !.events = t,
                             !.nextCursor = p.nextCursor, !.total = 5, !.demoMsg = w]
        BY <2>1, <2>3, <3>1, <3>2, Zenon
      <3>4. q.cursor \in Int /\ q.append \in BOOLEAN
        <4>1. PICK mint : mint = [op |-> "mint"]
          OBVIOUS
        <4>2. mint.op # "page"
          BY <4>1, Zenon
        <4>3. q \in Demos /\ q # mint
          BY <1>0, <2>1, <4>2, Zenon DEF ApiState
        <4>4. QED
          BY <4>1, <4>3, Zenon DEF Demos
      <3>5. IF q.append THEN q.cursor = ui.nextCursor /\ q.cursor # 0 ELSE q.cursor = 0
        BY <1>0, <2>1, Zenon DEF ApiAsks
      <3>6. PICK n \in Int : Listed(ui.events, ui.nextCursor, ui.total, n)
        BY <1>0, Zenon DEF ApiLists
      <3>7. t \in Seq(Int) /\ p.nextCursor \in Int /\ \E m \in Int : Listed(t, p.nextCursor, 5, m)
        <4>1. PICK list, c, k, a, total : /\ list = ui.events /\ c = ui.nextCursor
                                          /\ k = q.cursor /\ a = q.append /\ total = ui.total
          OBVIOUS
        <4>2. /\ list \in Seq(Int) /\ c \in Int /\ k \in Int /\ a \in BOOLEAN
              /\ Listed(list, c, total, n)
          BY <1>0, <3>4, <3>6, <4>1, Zenon DEF ApiState
        <4>3. k = (IF a THEN c ELSE 0) /\ (a => c # 0)
          BY <3>5, <4>1, Zenon
        <4>4. p = Api!Page(k) /\ t = IF a THEN list \o p.items ELSE p.items
          BY <3>1, <3>2, <4>1, Zenon
        <4>5. QED
          BY <4>2, <4>3, <4>4, Pages
      <3>8. w \in {"showing", "loaded more"}
        BY <3>2, Zenon
      <3>9. 5 \in Int
        OBVIOUS
      <3>10. ui' \in ApiState
        BY <1>0, <3>3, <3>7, <3>8, <3>9, Zenon DEF ApiState
      <3>11. /\ SameTabs(ui, ui') /\ ui'.demo = {} /\ ui'.events = t
             /\ ui'.nextCursor = p.nextCursor /\ ui'.total = 5
        BY <1>0, <3>3, Zenon DEF ApiState, SameTabs
      <3>12. QED
        BY <1>0, <3>7, <3>10, <3>11, Zenon DEF ApiOk, ApiLists, ApiAsks, ApiRuns, SameTabs
    <2>4. QED
      BY <1>0, <2>2, <2>3, Zenon
  <1>8. CASE Api!Unmount
    <2>1. ui' = [ui EXCEPT !.mounted = FALSE]
      BY <1>8, Zenon DEF Api!Unmount
    <2>2. ui' \in ApiState
      BY <1>0, <2>1, Zenon DEF ApiState
    <2>3. SameList(ui, ui') /\ ui'.demo = ui.demo /\ ~ui'.mounted
      BY <1>0, <2>1, Zenon DEF ApiState, SameList
    <2>4. QED
      BY <1>1, <2>2, <2>3, Zenon DEF ApiRuns
  <1>9. QED
    BY <1>2, <1>3, <1>5, <1>6, <1>7, <1>8, Zenon DEF Api!Next, Api!Answered

LEMMA ApiShown == ApiOk(ui) => Api!ShownIsCurrent
  <1> SUFFICES ASSUME ApiOk(ui) PROVE Api!ShownIsCurrent
    OBVIOUS
  <1>1. ui.mounted /\ ~ui.busy => Api!View.result = Api!View.pressed
    BY Zenon DEF ApiOk, ApiRuns, Api!View
  <1>2. PICK n \in Int : Listed(ui.events, ui.nextCursor, ui.total, n)
    BY Zenon DEF ApiOk, ApiLists
  <1>3. PICK list, c, total : list = ui.events /\ c = ui.nextCursor /\ total = ui.total
    OBVIOUS
  <1>4. /\ n \in 0..5 /\ Len(list) = n /\ \A i \in 1..n : list[i] = i
        /\ c = IF n \in 1..4 THEN n ELSE 0
        /\ n > 0 => total = 5
    BY <1>2, <1>3, Zenon DEF Listed
  <1>5. list \in Seq(Int)
    BY <1>3, Zenon DEF ApiOk, ApiState
  <1>6. list # <<>> => (c # 0) = (Len(list) < total)
    BY <1>4, <1>5
  <1>7. Api!View.loadMore = (ui.nextCursor # 0)
    BY Zenon DEF Api!View, Api!NoCursor
  <1>8. ui.events # <<>> => Api!View.loadMore = (Len(ui.events) < ui.total)
    BY <1>3, <1>6, <1>7, Zenon
  <1>9. \A i \in 1..Len(ui.events) : ui.events[i] = i
    BY <1>3, <1>4, Zenon
  <1>10. QED
    BY <1>1, <1>8, <1>9, Zenon DEF Api!ShownIsCurrent

-----------------------------------------------------------------------------
(* The resume card.  Unless two verifications overlapped, the one that is  *)
(* under way is that of the file chosen last.                              *)

ResumeState ==
  [mounted : BOOLEAN, subtle : BOOLEAN, sigOut : BOOLEAN,
   status : {"checking", "signed", "unsigned"}, open : BOOLEAN, chosen : Int,
   checks : SUBSET Int, result : {""} \cup Resume!Verdicts, of : Int, overlapped : BOOLEAN]
ResumeSays(u) ==
  /\ ~u.subtle => u.checks = {}
  /\ ~u.overlapped => /\ \A n \in u.checks : n = u.chosen
                      /\ u.checks # {} => u.result = ""
                      /\ u.result # "" => u.of = u.chosen
ResumeOk(u) == u \in ResumeState /\ ResumeSays(u)

LEMMA ResumeInit == Resume!Init => ResumeOk(ui)
  <1> SUFFICES ASSUME Resume!Init PROVE ResumeOk(ui)
    OBVIOUS
  <1>1. PICK subtle \in BOOLEAN :
          ui = [mounted |-> TRUE, subtle |-> subtle, sigOut |-> TRUE, status |-> "checking",
                open |-> FALSE, chosen |-> 0, checks |-> {}, result |-> "", of |-> 0,
                overlapped |-> FALSE]
    BY Zenon DEF Resume!Init
  <1>2. ui \in ResumeState /\ ui.checks = {} /\ ui.result = ""
    BY <1>1, Zero, Zenon DEF ResumeState
  <1>3. QED
    BY <1>2, Zenon DEF ResumeOk, ResumeSays

LEMMA ResumeStep == ResumeOk(ui) /\ Resume!Next => ResumeOk(ui')
  <1> SUFFICES ASSUME ResumeOk(ui), Resume!Next PROVE ResumeOk(ui')
    OBVIOUS
  <1>0. ui \in ResumeState /\ ResumeSays(ui) /\ ui.mounted \in BOOLEAN /\ ui.chosen \in Int
    BY Zenon DEF ResumeOk, ResumeState
  <1>1. ASSUME ui' \in ResumeState, ui'.subtle = ui.subtle, ui'.checks = ui.checks,
               ui'.chosen = ui.chosen, ui'.result = ui.result, ui'.of = ui.of,
               ui'.overlapped = ui.overlapped
        PROVE  ResumeOk(ui')
    BY <1>0, <1>1, Zenon DEF ResumeOk, ResumeSays
  <1>2. CASE Resume!OnArtifacts
    <2>1. PICK both \in BOOLEAN :
            ui' = [ui EXCEPT !.sigOut = FALSE,
                     !.status = IF ~ui.mounted THEN ui.status
                                ELSE IF both THEN "signed" ELSE "unsigned"]
      BY <1>0, <1>2, Zenon DEF Resume!OnArtifacts, ResumeState
    <2>2. PICK s : s = IF ~ui.mounted THEN ui.status
                       ELSE IF both THEN "signed" ELSE "unsigned"
      OBVIOUS
    <2>3. s \in {"checking", "signed", "unsigned"}
      BY <1>0, <2>2, Zenon DEF ResumeState
    <2>4. ui' = [ui EXCEPT !.sigOut = FALSE, !.status = s]
      BY <2>1, <2>2, Zenon
    <2>5. QED
      BY <1>0, <1>1, <2>3, <2>4, Zenon DEF ResumeState
  <1>3. CASE Resume!TogglePreview \/ Resume!Unmount
    <2>1. PICK b \in BOOLEAN : ui' = [ui EXCEPT !.open = b] \/ ui' = [ui EXCEPT !.mounted = FALSE]
      <3>1. ui.open \in BOOLEAN
        BY <1>0, Zenon DEF ResumeState
      <3>2. PICK b \in BOOLEAN : b = ~ui.open
        OBVIOUS
      <3>3. QED
        BY <1>0, <1>3, <3>2, Zenon DEF Resume!TogglePreview, Resume!Unmount, ResumeState
    <2>2. QED
      BY <1>0, <1>1, <2>1, Zenon DEF ResumeState
  <1>4. CASE Resume!Drop
    <2>1. PICK n : n = ui.chosen + 1
      OBVIOUS
    <2>2. n \in Int /\ 0 \in Int
      BY <1>0, <2>1
    <2>3. ui' = IF ~ui.subtle
                THEN [ui EXCEPT !.chosen = n, !.result = "unsupported", !.of = n]
                ELSE [ui EXCEPT !.chosen = n, !.result = "", !.of = 0,
                        !.checks = ui.checks \cup {n},
                        !.overlapped = ui.overlapped \/ ui.checks # {}]
      BY <1>0, <1>4, <2>1, Zenon DEF Resume!Drop, Resume!verify, ResumeState
    <2>4. CASE ~ui.subtle
      <3>1. ui' = [ui EXCEPT !.chosen = n, !.result = "unsupported", !.of = n]
        BY <2>3, <2>4, Zenon
      <3>2. ui' \in ResumeState
        BY <1>0, <2>2, <3>1, Zenon DEF ResumeState, Resume!Verdicts
      <3>3. ui'.checks = ui.checks /\ ui'.of = n /\ ui'.chosen = n
        BY <1>0, <3>1, Zenon DEF ResumeState
      <3>4. ui.checks = {}
        BY <1>0, <2>4, Zenon DEF ResumeSays
      <3>5. QED
        BY <3>2, <3>3, <3>4, Zenon DEF ResumeOk, ResumeSays
    <2>5. CASE ui.subtle
      <3>1. PICK o \in BOOLEAN : o <=> ui.overlapped \/ ui.checks # {}
        OBVIOUS
      <3>2. PICK cs : cs = ui.checks \cup {n}
        OBVIOUS
      <3>3. PICK x \in BOOLEAN : x = (ui.overlapped \/ ui.checks # {})
        OBVIOUS
      <3>4. ui' = [ui EXCEPT !.chosen = n, !.result = "", !.of = 0, !.checks = cs,
                             !.overlapped = x]
        BY <2>3, <2>5, <3>2, <3>3, Zenon
      <3>5. cs \in SUBSET Int
        BY <1>0, <2>2, <3>2, Zenon DEF ResumeState
      <3>6. ui' \in ResumeState
        BY <1>0, <2>2, <3>3, <3>4, <3>5, Zenon DEF ResumeState
      <3>7. /\ ui'.checks = cs /\ ui'.result = "" /\ ui'.chosen = n /\ ui'.overlapped = x
            /\ ui'.subtle = ui.subtle
        BY <1>0, <3>4, Zenon DEF ResumeState
      <3>8. ~x => cs = {n}
        BY <3>2, <3>3, Zenon
      <3>9. QED
        BY <2>5, <3>6, <3>7, <3>8, Zenon DEF ResumeOk, ResumeSays
    <2>6. QED
      BY <2>4, <2>5
  <1>5. CASE Resume!OnVerified
    <2>1. PICK n \in ui.checks, v \in Resume!Verdicts :
            ui' = [ui EXCEPT !.checks = ui.checks \ {n}, !.result = v, !.of = n]
      BY <1>0, <1>5, Zenon DEF Resume!OnVerified, ResumeState
    <2>2. PICK cs : cs = ui.checks \ {n}
      OBVIOUS
    <2>3. cs \in SUBSET Int /\ n \in Int
      BY <1>0, <2>1, <2>2, Zenon DEF ResumeState
    <2>4. ui' = [ui EXCEPT !.checks = cs, !.result = v, !.of = n]
      BY <2>1, <2>2, Zenon
    <2>5. ui' \in ResumeState
      BY <1>0, <2>1, <2>3, <2>4, Zenon DEF ResumeState
    <2>6. /\ ui'.checks = cs /\ ui'.result = v /\ ui'.of = n /\ ui'.chosen = ui.chosen
          /\ ui'.overlapped = ui.overlapped /\ ui'.subtle = ui.subtle
      BY <1>0, <2>4, Zenon DEF ResumeState
    <2>7. ~ui.overlapped => cs = {} /\ n = ui.chosen
      BY <1>0, <2>1, <2>2, Zenon DEF ResumeSays
    <2>8. ui.subtle
      BY <1>0, <2>1, Zenon DEF ResumeSays
    <2>9. QED
      BY <2>5, <2>6, <2>7, <2>8, Zenon DEF ResumeOk, ResumeSays
  <1>6. QED
    BY <1>2, <1>3, <1>4, <1>5, Zenon DEF Resume!Next, Resume!Answered

LEMMA ResumeShown == ResumeOk(ui) => Resume!ShownIsCurrent
  <1> SUFFICES ASSUME ResumeOk(ui), ~ui.overlapped, Resume!View.verdict # ""
               PROVE  ui.of = ui.chosen /\ ui.checks = {}
    BY Zenon DEF Resume!ShownIsCurrent
  <1>1. Resume!View.verdict = IF ui.status = "signed" THEN ui.result ELSE ""
    BY Zenon DEF Resume!View
  <1>2. ui.result # ""
    BY <1>1, Zenon
  <1>3. QED
    BY <1>2, Zenon DEF ResumeOk, ResumeSays

-----------------------------------------------------------------------------
(* The forms that take a job description.  One that is pending has dropped *)
(* the last result, and what is out is the latest request.                 *)

JdSays(u) ==
  /\ u.phase = "pending" <=> u.out # {}
  /\ \A r \in u.out : r.q = u.asked
  /\ u.out # {} => u.result = 0
  /\ u.phase = "error" /\ u.error = "refused" => u.result = 0
  /\ u.result \in {0, u.asked} /\ u.clipboard <= u.asked

LEMMA JdFresh == Jd!Init => JdSays(ui)
  <1> SUFFICES ASSUME Jd!Init PROVE JdSays(ui)
    OBVIOUS
  <1>1. PICK b : ui = [mounted |-> TRUE, bot |-> b, text |-> FALSE, result |-> 0,
                       phase |-> "idle", error |-> "", asked |-> 0, out |-> {},
                       clipboard |-> 0, copied |-> FALSE, timers |-> 0]
    BY Zenon DEF Jd!Init
  <1>2. /\ ui.phase = "idle" /\ ui.out = {} /\ ui.result = 0 /\ ui.clipboard = 0
        /\ ui.asked = 0 /\ "idle" # "pending"
    BY <1>1, Zenon
  <1>3. 0 <= 0
    OBVIOUS
  <1>4. QED
    BY <1>2, <1>3, Zenon DEF JdSays

LEMMA JdKeeps == JdInv /\ JdSays(ui) /\ Jd!Next => JdSays(ui')
  <1> SUFFICES ASSUME JdInv, JdSays(ui), Jd!Next PROVE JdSays(ui')
    OBVIOUS
  <1>0. /\ ui \in JdState /\ TokenSound(ui.bot) /\ OneOut(ui.out, ui.bot)
        /\ ui.asked \in Nat /\ ui.clipboard \in Nat /\ ui.result \in Nat
        /\ "idle" # "pending" /\ "error" # "pending" /\ "idle" # "error"
    BY Zenon DEF JdInv, JdState
  <1>1. ASSUME ui'.phase = ui.phase, ui'.out = ui.out, ui'.asked = ui.asked,
               ui'.result = ui.result, ui'.error = ui.error, ui'.clipboard <= ui.asked
        PROVE  JdSays(ui')
    BY <1>1, Zenon DEF JdSays
  <1>2. ui.clipboard <= ui.asked
    BY Zenon DEF JdSays
  <1>3. CASE Jd!Type \/ Jd!CopyTimer \/ Jd!Unmount
    <2>1. /\ ui'.phase = ui.phase /\ ui'.out = ui.out /\ ui'.asked = ui.asked
          /\ ui'.result = ui.result /\ ui'.error = ui.error /\ ui'.clipboard = ui.clipboard
      BY <1>0, <1>3, Zenon DEF Jd!Type, Jd!CopyTimer, Jd!Unmount, JdState
    <2>2. QED
      BY <1>1, <1>2, <2>1
  <1>4. CASE Jd!copyAll
    <2>1. Jd!View.answer = ui.result
      BY Zenon DEF Jd!View
    <2>2. ui' = [ui EXCEPT !.copied = TRUE, !.timers = @ + 1, !.clipboard = ui.result]
      BY <1>4, <2>1, Zenon DEF Jd!copyAll
    <2>3. /\ ui'.phase = ui.phase /\ ui'.out = ui.out /\ ui'.asked = ui.asked
          /\ ui'.result = ui.result /\ ui'.error = ui.error /\ ui'.clipboard = ui.result
      BY <1>0, <2>2, Zenon DEF JdState
    <2>4. ui.result <= ui.asked
      <3>1. ui.result = 0 \/ ui.result = ui.asked
        BY Zenon DEF JdSays
      <3>2. QED
        BY <1>0, <3>1
    <2>5. QED
      BY <1>1, <2>3, <2>4, Zenon
  <1>5. CASE Jd!Submit
    <2>1. CASE UNCHANGED ui
      BY <2>1, Zenon DEF JdSays
    <2>2. CASE /\ ui.phase # "pending"
               /\ ui' = [ui EXCEPT !.phase = "error", !.error = "solve the bot check"]
      <3>1. /\ ui'.phase = "error" /\ ui'.error = "solve the bot check" /\ ui'.out = ui.out
            /\ ui'.asked = ui.asked /\ ui'.result = ui.result /\ ui'.clipboard = ui.clipboard
            /\ "solve the bot check" # "refused"
        BY <1>0, <2>2, Zenon DEF JdState
      <3>2. QED
        BY <1>0, <2>2, <3>1, Zenon DEF JdSays
    <2>3. CASE ui' = [ui EXCEPT !.phase = "pending", !.error = "", !.result = 0,
                                !.asked = @ + 1,
                                !.out = {[q |-> ui.asked + 1, token |-> ui.bot.token]}]
      <3>1. PICK n : n = ui.asked + 1
        OBVIOUS
      <3>2. PICK r : r = [q |-> n, token |-> ui.bot.token]
        OBVIOUS
      <3>3. /\ ui'.phase = "pending" /\ ui'.out = {r} /\ ui'.asked = n /\ ui'.result = 0
            /\ ui'.clipboard = ui.clipboard
        BY <1>0, <2>3, <3>1, <3>2, Zenon DEF JdState
      <3>4. r.q = n
        BY <3>2, Zenon
      <3>5. ui.clipboard <= n
        BY <1>0, <1>2, <3>1
      <3>6. QED
        BY <1>0, <3>3, <3>4, <3>5, Zenon DEF JdSays
    <2>4. QED
      BY <1>5, <2>1, <2>2, <2>3, Zenon DEF Jd!Submit, Jd!submit
  <1>6. ASSUME NEW r \in ui.out, NEW u, u = Jd!AfterResponse(ui, r.token)
        PROVE  /\ u \in JdState /\ u.asked = ui.asked /\ u.result = ui.result
               /\ u.clipboard = ui.clipboard
    <2>1. r.token \in Nat /\ r.token <= ui.bot.solved
      BY <1>0, Zenon DEF JdState, OneOut, Carried
    <2>2. u = [ui EXCEPT !.bot = Used(ui.bot, r.token)]
      BY <1>0, <1>6, <2>1, JdBotted, AfterResponseIsUsed, Zenon
         DEF Jd!AfterResponse, Widget!AfterResponse
    <2>3. Used(ui.bot, r.token) \in Bot
      BY <1>0, <2>1, UsedSound, Zenon DEF TokenSound
    <2>4. QED
      BY <1>0, <2>2, <2>3, Zenon DEF JdState
  <1>7. CASE Jd!OnResult
    <2>1. PICK r \in ui.out :
            ui' = [Jd!AfterResponse(ui, r.token) EXCEPT
                     !.out = {}, !.result = r.q, !.phase = "idle"]
      BY <1>7, Zenon DEF Jd!OnResult
    <2>2. PICK u : u = Jd!AfterResponse(ui, r.token)
      OBVIOUS
    <2>3. ui' = [u EXCEPT !.out = {}, !.result = r.q, !.phase = "idle"]
      BY <2>1, <2>2, Zenon
    <2>4. u \in JdState /\ u.asked = ui.asked /\ u.clipboard = ui.clipboard
      BY <1>6, <2>2
    <2>5. /\ ui'.phase = "idle" /\ ui'.out = {} /\ ui'.asked = ui.asked /\ ui'.result = r.q
          /\ ui'.clipboard = ui.clipboard
      BY <2>3, <2>4, Zenon DEF JdState
    <2>6. r.q = ui.asked
      BY Zenon DEF JdSays
    <2>7. QED
      BY <1>0, <1>2, <2>5, <2>6, Zenon DEF JdSays
  <1>8. CASE Jd!OnRefused
    <2>1. PICK r \in ui.out :
            ui' = [Jd!AfterResponse(ui, r.token) EXCEPT
                     !.out = {}, !.phase = "error", !.error = "refused"]
      BY <1>8, Zenon DEF Jd!OnRefused
    <2>2. PICK u : u = Jd!AfterResponse(ui, r.token)
      OBVIOUS
    <2>3. ui' = [u EXCEPT !.out = {}, !.phase = "error", !.error = "refused"]
      BY <2>1, <2>2, Zenon
    <2>4. /\ u \in JdState /\ u.asked = ui.asked /\ u.result = ui.result
          /\ u.clipboard = ui.clipboard
      BY <1>6, <2>2
    <2>5. /\ ui'.phase = "error" /\ ui'.out = {} /\ ui'.asked = ui.asked
          /\ ui'.result = ui.result /\ ui'.clipboard = ui.clipboard
      BY <2>3, <2>4, Zenon DEF JdState
    <2>6. ui.result = 0
      BY <2>1, Zenon DEF JdSays
    <2>7. QED
      BY <1>0, <1>2, <2>5, <2>6, Zenon DEF JdSays
  <1>9. CASE Jd!OnThrow
    <2>1. /\ ui'.phase = "error" /\ ui'.error = "faltered" /\ ui'.out = {}
          /\ ui'.asked = ui.asked /\ ui'.result = ui.result /\ ui'.clipboard = ui.clipboard
          /\ "faltered" # "refused"
      BY <1>0, <1>9, Zenon DEF Jd!OnThrow, JdState
    <2>2. QED
      BY <1>0, <2>1, Zenon DEF JdSays
  <1>10. CASE Jd!BotStep
    <2>1. Widget!BotStep
      BY <1>10 DEF Jd!BotStep, Jd!Engage, Jd!ScriptSettles, Jd!Solved, Jd!Expired,
                   Jd!WidgetError, Jd!WidgetUp, Jd!BotView, Widget!BotStep, Widget!Engage,
                   Widget!ScriptSettles, Widget!Solved, Widget!Expired, Widget!WidgetError,
                   Widget!WidgetUp, Widget!BotView
    <2>2. PICK c \in Bot : ui' = [ui EXCEPT !.bot = c]
      BY <1>0, <2>1, JdBotted, WidgetStep, Zenon
    <2>3. /\ ui'.phase = ui.phase /\ ui'.out = ui.out /\ ui'.asked = ui.asked
          /\ ui'.result = ui.result /\ ui'.error = ui.error /\ ui'.clipboard = ui.clipboard
      BY <1>0, <2>2, Zenon DEF JdState
    <2>4. QED
      BY <1>1, <1>2, <2>3
  <1>11. QED
    BY <1>3, <1>4, <1>5, <1>7, <1>8, <1>9, <1>10, Zenon DEF Jd!Next, Jd!Answered

LEMMA JdShown == JdSays(ui) => Jd!ShownIsCurrent
  <1> SUFFICES ASSUME JdSays(ui) PROVE Jd!ShownIsCurrent
    OBVIOUS
  <1>1. /\ Jd!View.answer = ui.result
        /\ Jd!View.status = IF ui.phase = "pending" THEN "asking"
                            ELSE IF ui.phase = "idle" /\ ui.result # 0 THEN "ready" ELSE ""
        /\ Jd!View.alert = IF ui.phase = "error" THEN ui.error ELSE ""
    BY Zenon DEF Jd!View
  <1>2. Jd!View.status = "asking" <=> ui.phase = "pending"
    BY <1>1, Zenon
  <1>3. (Jd!View.status = "asking") = (ui.out # {})
    <2>1. Jd!View.status = "asking" <=> ui.out # {}
      BY <1>2, Zenon DEF JdSays
    <2>2. QED
      BY <2>1
  <1>4. ASSUME ui.result # 0 PROVE Jd!View.alert # "refused" /\ ui.out = {}
    <2>1. ui.out = {} /\ (ui.phase = "error" => ui.error # "refused")
      BY <1>4, Zenon DEF JdSays
    <2>2. QED
      BY <1>1, <2>1, Zenon
  <1>5. QED
    BY <1>1, <1>3, <1>4, Zenon DEF Jd!ShownIsCurrent, JdSays

-----------------------------------------------------------------------------
LEMMA ConShown == ConOk(ui) => Construct!ShownIsCurrent
  <1> SUFFICES ASSUME ConOk(ui) PROVE Construct!ShownIsCurrent
    OBVIOUS
  <1>1. /\ Construct!View.surface = ui.cls
        /\ Construct!View.immersive = (ui.mode = "immersive")
    BY Zenon DEF Construct!View
  <1>2. Surfaced(ui) /\ Left(ui)
    BY Zenon DEF ConOk
  <1>3. "immersive" # "static"
    OBVIOUS
  <1>4. QED
    BY <1>1, <1>2, <1>3, Zenon DEF Surfaced, Left, Construct!ShownIsCurrent, Construct!None

-----------------------------------------------------------------------------
(* The theme studio.  Unless a request was reset over, the form waits for  *)
(* the latest one and the palette applied is that of the latest mood.      *)

StudioSays(u) == ~u.interrupted =>
  /\ u.phase = "pending" <=> u.out # {}
  /\ \A r \in u.out : r.q = u.asked
  /\ u.phase = "applied" => u.theme = u.asked

LEMMA StudioFresh == Studio!Init => StudioSays(ui)
  <1> SUFFICES ASSUME Studio!Init PROVE StudioSays(ui)
    OBVIOUS
  <1>1. PICK b : ui = [mounted |-> TRUE, bot |-> b, mood |-> FALSE, phase |-> "idle",
                       error |-> "", asked |-> 0, out |-> {}, theme |-> 0,
                       interrupted |-> FALSE]
    BY Zenon DEF Studio!Init
  <1>2. ui.phase = "idle" /\ ui.out = {} /\ "idle" # "pending" /\ "idle" # "applied"
    BY <1>1, Zenon
  <1>3. QED
    BY <1>2, Zenon DEF StudioSays

LEMMA StudioKeeps == StudioInv /\ StudioSays(ui) /\ Studio!Next => StudioSays(ui')
  <1> SUFFICES ASSUME StudioInv, StudioSays(ui), Studio!Next PROVE StudioSays(ui')
    OBVIOUS
  <1>0. /\ ui \in StudioState /\ TokenSound(ui.bot) /\ ui.interrupted \in BOOLEAN
        /\ \A r \in ui.out : r.token <= ui.bot.solved
        /\ "idle" # "pending" /\ "error" # "pending" /\ "applied" # "pending"
        /\ "idle" # "applied" /\ "error" # "applied"
    BY Zenon DEF StudioInv, StudioState
  <1>1. ASSUME ui'.phase = ui.phase, ui'.out = ui.out, ui'.asked = ui.asked,
               ui'.theme = ui.theme, ui'.interrupted = ui.interrupted
        PROVE  StudioSays(ui')
    BY <1>1, Zenon DEF StudioSays
  <1>2. CASE Studio!Type \/ Studio!Unmount
    <2>1. /\ ui'.phase = ui.phase /\ ui'.out = ui.out /\ ui'.asked = ui.asked
          /\ ui'.theme = ui.theme /\ ui'.interrupted = ui.interrupted
      BY <1>0, <1>2, Zenon DEF Studio!Type, Studio!Unmount, StudioState
    <2>2. QED
      BY <1>1, <2>1
  <1>3. CASE Studio!Submit
    <2>1. CASE UNCHANGED ui
      BY <2>1, Zenon DEF StudioSays
    <2>2. CASE /\ ui.phase # "pending"
               /\ ui' = [ui EXCEPT !.phase = "error", !.error = "solve the bot check"]
      <3>1. /\ ui'.phase = "error" /\ ui'.out = ui.out /\ ui'.interrupted = ui.interrupted
        BY <1>0, <2>2, Zenon DEF StudioState
      <3>2. QED
        BY <1>0, <2>2, <3>1, Zenon DEF StudioSays
    <2>3. CASE /\ ui.phase # "pending"
               /\ ui' = [ui EXCEPT !.phase = "pending", !.error = "", !.asked = @ + 1,
                            !.out = @ \cup {[q |-> ui.asked + 1, token |-> ui.bot.token]}]
      <3>1. PICK n : n = ui.asked + 1
        OBVIOUS
      <3>2. PICK r : r = [q |-> n, token |-> ui.bot.token]
        OBVIOUS
      <3>3. /\ ui'.phase = "pending" /\ ui'.out = ui.out \cup {r} /\ ui'.asked = n
            /\ ui'.interrupted = ui.interrupted
        BY <1>0, <2>3, <3>1, <3>2, Zenon DEF StudioState
      <3>4. r.q = n
        BY <3>2, Zenon
      <3>5. ~ui.interrupted => ui.out = {}
        BY <2>3, Zenon DEF StudioSays
      <3>6. QED
        BY <1>0, <3>3, <3>4, <3>5, Zenon DEF StudioSays
    <2>4. QED
      BY <1>3, <2>1, <2>2, <2>3, Zenon DEF Studio!Submit, Studio!submit
  <1>4. ASSUME NEW r \in ui.out, NEW u, u = Studio!AfterResponse(ui, r.token)
        PROVE  /\ u \in StudioState /\ u.asked = ui.asked /\ u.out = ui.out
               /\ u.interrupted = ui.interrupted
    <2>1. r.token \in Nat /\ r.token <= ui.bot.solved
      BY <1>0, Zenon DEF StudioState
    <2>2. u = [ui EXCEPT !.bot = Used(ui.bot, r.token)]
      BY <1>0, <1>4, <2>1, StudioBotted, AfterResponseIsUsed, Zenon
         DEF Studio!AfterResponse, Widget!AfterResponse
    <2>3. Used(ui.bot, r.token) \in Bot
      BY <1>0, <2>1, UsedSound, Zenon DEF TokenSound
    <2>4. QED
      BY <1>0, <2>2, <2>3, Zenon DEF StudioState
  <1>5. ASSUME NEW r \in ui.out
        PROVE  ~ui.interrupted => ui.out \ {r} = {} /\ r.q = ui.asked
    <2>1. ~ui.interrupted => \A s, t \in ui.out : s = t
      BY Zenon DEF StudioInv, OneOut
    <2>2. ~ui.interrupted => r.q = ui.asked
      BY Zenon DEF StudioSays
    <2>3. QED
      BY <1>5, <2>1, <2>2, Zenon
  <1>6. CASE Studio!OnPalette
    <2>1. PICK r \in ui.out :
            ui' = [Studio!AfterResponse(ui, r.token) EXCEPT
                     !.out = @ \ {r}, !.theme = r.q, !.phase = "applied"]
      BY <1>6, Zenon DEF Studio!OnPalette
    <2>2. PICK u : u = Studio!AfterResponse(ui, r.token)
      OBVIOUS
    <2>3. ui' = [u EXCEPT !.out = @ \ {r}, !.theme = r.q, !.phase = "applied"]
      BY <2>1, <2>2, Zenon
    <2>4. /\ u \in StudioState /\ u.asked = ui.asked /\ u.out = ui.out
          /\ u.interrupted = ui.interrupted
      BY <1>4, <2>2
    <2>5. /\ ui'.phase = "applied" /\ ui'.out = ui.out \ {r} /\ ui'.asked = ui.asked
          /\ ui'.theme = r.q /\ ui'.interrupted = ui.interrupted
      BY <2>3, <2>4, Zenon DEF StudioState
    <2>6. QED
      BY <1>0, <1>5, <2>5, Zenon DEF StudioSays
  <1>7. CASE Studio!OnRefused \/ Studio!OnThrow
    <2>1. PICK r \in ui.out, u \in StudioState, e \in {"refused", "faltered"} :
            /\ u.asked = ui.asked /\ u.out = ui.out /\ u.interrupted = ui.interrupted
            /\ ui' = [u EXCEPT !.out = @ \ {r}, !.phase = "error", !.error = e]
      <3>1. CASE Studio!OnRefused
        <4>1. PICK r \in ui.out :
                ui' = [Studio!AfterResponse(ui, r.token) EXCEPT
                         !.out = @ \ {r}, !.phase = "error", !.error = "refused"]
          BY <3>1, Zenon DEF Studio!OnRefused
        <4>2. PICK u : u = Studio!AfterResponse(ui, r.token)
          OBVIOUS
        <4>3. ui' = [u EXCEPT !.out = @ \ {r}, !.phase = "error", !.error = "refused"]
          BY <4>1, <4>2, Zenon
        <4>4. /\ u \in StudioState /\ u.asked = ui.asked /\ u.out = ui.out
              /\ u.interrupted = ui.interrupted
          BY <1>4, <4>2
        <4>5. QED
          BY <4>3, <4>4, Zenon
      <3>2. CASE Studio!OnThrow
        BY <1>0, <3>2, Zenon DEF Studio!OnThrow
      <3>3. QED
        BY <1>7, <3>1, <3>2
    <2>2. /\ ui'.phase = "error" /\ ui'.out = ui.out \ {r} /\ ui'.interrupted = ui.interrupted
      BY <2>1, Zenon DEF StudioState
    <2>3. QED
      BY <1>0, <1>5, <2>2, Zenon DEF StudioSays
  <1>8. CASE Studio!reset
    <2>1. PICK x \in BOOLEAN : x = (ui.interrupted \/ ui.out # {})
      OBVIOUS
    <2>2. ui' = [ui EXCEPT !.theme = 0, !.phase = "idle", !.mood = FALSE, !.interrupted = x]
      BY <1>0, <1>8, <2>1, Zenon DEF Studio!reset, StudioState
    <2>3. ui'.phase = "idle" /\ ui'.out = ui.out /\ ui'.interrupted = x
      BY <1>0, <2>2, Zenon DEF StudioState
    <2>4. ~x => ui.out = {}
      BY <2>1, Zenon
    <2>5. QED
      BY <1>0, <2>3, <2>4, Zenon DEF StudioSays
  <1>9. CASE Studio!BotStep
    <2>1. Widget!BotStep
      BY <1>9 DEF Studio!BotStep, Studio!Engage, Studio!ScriptSettles, Studio!Solved,
                  Studio!Expired, Studio!WidgetError, Studio!WidgetUp, Studio!BotView,
                  Widget!BotStep, Widget!Engage, Widget!ScriptSettles, Widget!Solved,
                  Widget!Expired, Widget!WidgetError, Widget!WidgetUp, Widget!BotView
    <2>2. PICK c \in Bot : ui' = [ui EXCEPT !.bot = c]
      BY <1>0, <2>1, StudioBotted, WidgetStep, Zenon
    <2>3. /\ ui'.phase = ui.phase /\ ui'.out = ui.out /\ ui'.asked = ui.asked
          /\ ui'.theme = ui.theme /\ ui'.interrupted = ui.interrupted
      BY <1>0, <2>2, Zenon DEF StudioState
    <2>4. QED
      BY <1>1, <2>3
  <1>10. QED
    BY <1>2, <1>3, <1>6, <1>7, <1>8, <1>9, Zenon DEF Studio!Next, Studio!Answered

LEMMA StudioShown == StudioInv /\ StudioSays(ui) => Studio!ShownIsCurrent
  <1> SUFFICES ASSUME StudioInv, StudioSays(ui), ~ui.interrupted
               PROVE  /\ Studio!View.status = "applied" => ui.theme = ui.asked
                      /\ (Studio!View.status = "regenerating") = (ui.out # {})
                      /\ Studio!Cardinality(ui.out) <= 1
    BY Zenon DEF Studio!ShownIsCurrent
  <1>1. Studio!View.status = IF ui.phase = "pending" THEN "regenerating"
                             ELSE IF ui.phase = "applied" THEN "applied" ELSE ""
    BY Zenon DEF Studio!View
  <1>2. Studio!View.status = "applied" => ui.theme = ui.asked
    <2>1. Studio!View.status = "applied" => ui.phase = "applied"
      BY <1>1, Zenon
    <2>2. QED
      BY <2>1, Zenon DEF StudioSays
  <1>3. (Studio!View.status = "regenerating") = (ui.out # {})
    <2>1. Studio!View.status = "regenerating" <=> ui.phase = "pending"
      BY <1>1, Zenon
    <2>2. Studio!View.status = "regenerating" <=> ui.out # {}
      BY <2>1, Zenon DEF StudioSays
    <2>3. QED
      BY <2>2
  <1>4. Studio!Cardinality(ui.out) <= 1
    <2>1. \A s, t \in ui.out : s = t
      BY Zenon DEF StudioInv, OneOut
    <2>2. Studio!Cardinality(ui.out) = Cardinality(ui.out)
      BY Zenon DEF Studio!Cardinality, Cardinality
    <2>3. Cardinality(ui.out) = IF ui.out # {} THEN 1 ELSE 0
      BY <2>1, OneOrNone, Zenon
    <2>4. PICK c : c = Cardinality(ui.out)
      OBVIOUS
    <2>5. c = 1 \/ c = 0
      BY <2>3, <2>4, Zenon
    <2>6. c <= 1
      BY <2>5
    <2>7. QED
      BY <2>2, <2>4, <2>6, Zenon
  <1>5. QED
    BY <1>2, <1>3, <1>4

-----------------------------------------------------------------------------
LEMMA CamTwo == Camera!N = 2 /\ Camera!Stations = {1, 2} /\ Camera!Stations = 1..2
  BY DEF Camera!N, Camera!Stations

LEMMA CamOffsets == Camera!stationOffsets = [i \in {1, 2} |-> IF i = 1 THEN 0 ELSE 2]
  <1> DEFINE Off(f) == [i \in Camera!Stations |->
                          IF i = 1 THEN 0
                          ELSE f[i - 1] + (IF <<0, 2>>[i] > 0 THEN <<0, 2>>[i] ELSE 1)]
             g == [i \in {1, 2} |-> IF i = 1 THEN 0 ELSE 2]
  <1>1. \A f : f = Off(f) <=> f = g
    BY CamTwo
  <1>2. Camera!stationOffsets = CHOOSE f : f = Off(f)
    BY DEF Camera!stationOffsets
  <1>3. QED
    BY <1>1, <1>2

CamPx(h, coarse, vh) ==
  [i \in {1, 2} |-> IF i = 1 THEN 0
                    ELSE IF coarse THEN Camera!Larger(Camera!Span(coarse, vh), h[1] + (22 * vh + 50) \div 100)
                    ELSE 2 * vh]

LEMMA CamPositions ==
  ASSUME NEW h \in [{1, 2} -> {4, 6, 12}], NEW coarse \in BOOLEAN, NEW vh \in {10, 12}
  PROVE  Camera!stationPxPositions(h, coarse, vh) = CamPx(h, coarse, vh)
  <1> DEFINE step(i) == IF coarse
                        THEN Camera!Larger(Camera!Span(coarse, vh), h[i - 1] + (22 * vh + 50) \div 100)
                        ELSE (Camera!stationOffsets[i] - Camera!stationOffsets[i - 1]) * vh
             P(f) == [i \in Camera!Stations |-> IF i = 1 THEN 0 ELSE f[i - 1] + step(i)]
             g == [i \in {1, 2} |-> IF i = 1 THEN 0 ELSE step(2)]
  <1>1. Camera!stationPxPositions(h, coarse, vh) = CHOOSE f : f = P(f)
    BY DEF Camera!stationPxPositions
  <1>2. step(2) = IF coarse
                  THEN Camera!Larger(Camera!Span(coarse, vh), h[1] + (22 * vh + 50) \div 100)
                  ELSE 2 * vh
    BY CamOffsets DEF step
  <1>3. step(2) \in Int
    BY <1>2 DEF Camera!Larger, Camera!Span
  <1>4. g = CamPx(h, coarse, vh)
    BY <1>2 DEF CamPx
  <1> HIDE DEF step
  <1>5. \A f : f = P(f) <=> f = g
    BY <1>3, CamTwo
  <1>6. QED
    BY <1>1, <1>4, <1>5

\* The stations stand where the heights last looked at put them, to a pixel those on
\* screen once the observer has delivered; the page is as long as the last of them needs.
CamPlace(u) ==
  /\ u.height \in [{1, 2} -> {4, 6, 12}] /\ u.coarse \in BOOLEAN
  /\ u.vh \in {10, 12} /\ u.inner \in {10, 12} /\ u.lastH \in {10, 12}
  /\ \E h \in [{1, 2} -> {4, 6, 12}] : u.px = CamPx(h, u.coarse, u.vh)
  /\ u.observed => Camera!Distance(CamPx(u.height, u.coarse, u.vh)[2], u.px[2]) <= 1
  /\ u.spacer = u.px[2] + Camera!Span(u.coarse, u.vh)
\* With a fine pointer the layout follows the window, and a jump keeps its target.
CamJump(u) ==
  /\ u.jumped \in {0, 1, 2}
  /\ ~u.coarse => u.vh = u.lastH
  /\ ~u.coarse /\ u.mounted /\ ~u.debounce => u.inner = u.lastH
  /\ ~u.coarse /\ u.jumped # 0 =>
       \/ u.scroll = u.px[u.jumped]
       \/ u.scroll = Camera!stationOffsets[u.jumped] * u.inner

LEMMA CamFresh == Camera!Init => CamPlace(ui) /\ CamJump(ui)
  <1> SUFFICES ASSUME Camera!Init PROVE CamPlace(ui) /\ CamJump(ui)
    OBVIOUS
  <1>1. PICK coarse, helix \in BOOLEAN, vh \in {10, 12}, h \in [Camera!Stations -> {4, 6, 12}] :
          /\ helix => ~coarse /\ Camera!N >= 2
          /\ ui = [mounted |-> TRUE, coarse |-> coarse, helix |-> helix, vh |-> vh, inner |-> vh,
                   lastH |-> vh, height |-> h, px |-> Camera!stationPxPositions(h, coarse, vh),
                   spacer |-> Camera!stationPxPositions(h, coarse, vh)[Camera!N]
                                + Camera!Span(coarse, vh),
                   observed |-> TRUE, debounce |-> FALSE, wide |-> FALSE, scroll |-> 0, cam |-> 0,
                   camIdx |-> Camera!camIndexOf(Camera!stationPxPositions(h, coarse, vh), 0),
                   focused |-> 0, jumped |-> 0]
    BY Zenon DEF Camera!Init
  <1>2. h \in [{1, 2} -> {4, 6, 12}]
    BY CamTwo
  <1>3. Camera!stationPxPositions(h, coarse, vh) = CamPx(h, coarse, vh)
    BY <1>2, CamPositions
  <1>4. PICK px, camIdx :
                  /\ px = CamPx(h, coarse, vh)
                  /\ ui = [mounted |-> TRUE, coarse |-> coarse, helix |-> helix, vh |-> vh,
                           inner |-> vh, lastH |-> vh, height |-> h, px |-> px,
                           spacer |-> px[2] + Camera!Span(coarse, vh), observed |-> TRUE,
                           debounce |-> FALSE, wide |-> FALSE, scroll |-> 0, cam |-> 0,
                           camIdx |-> camIdx, focused |-> 0, jumped |-> 0]
    BY <1>1, <1>3, CamTwo, Zenon
  <1>5. /\ ui.height = h /\ ui.coarse = coarse /\ ui.vh = vh /\ ui.inner = vh /\ ui.lastH = vh
        /\ ui.px = px /\ ui.spacer = px[2] + Camera!Span(coarse, vh) /\ ui.jumped = 0
    BY <1>4
  <1>6. CamPlace(ui)
    <2>1. CamPx(h, coarse, vh)[2] \in Int
      BY <1>2 DEF CamPx, Camera!Larger, Camera!Span
    <2>2. Camera!Distance(px[2], px[2]) <= 1
      BY <1>4, <2>1 DEF Camera!Distance, Camera!Larger
    <2>3. QED
      BY <1>2, <1>4, <1>5, <2>2 DEF CamPlace
  <1>7. CamJump(ui)
    BY <1>5 DEF CamJump
  <1>8. QED
    BY <1>6, <1>7

\* What a step does that leaves the geometry alone.
LEMMA CamAlone ==
  ASSUME NEW u, NEW w, CamPlace(u), w.height = u.height, w.coarse = u.coarse, w.vh = u.vh,
         w.inner \in {10, 12}, w.lastH = u.lastH, w.px = u.px, w.observed <=> u.observed,
         w.spacer = u.spacer
  PROVE  CamPlace(w)
  BY DEF CamPlace

LEMMA CamKeeps == CamOk(ui) /\ CamPlace(ui) /\ CamJump(ui) /\ Camera!Next => CamPlace(ui') /\ CamJump(ui')
  <1> SUFFICES ASSUME CamOk(ui), CamPlace(ui), CamJump(ui), Camera!Next
               PROVE  CamPlace(ui') /\ CamJump(ui')
    OBVIOUS
  <1>0. ui = [f \in CamFields |-> ui[f]]
    BY DEF CamOk
  <1>a. /\ ui.height \in [{1, 2} -> {4, 6, 12}] /\ ui.coarse \in BOOLEAN
        /\ ui.vh \in {10, 12} /\ ui.inner \in {10, 12} /\ ui.lastH \in {10, 12}
        /\ ui.spacer = ui.px[2] + Camera!Span(ui.coarse, ui.vh)
    BY DEF CamPlace
  <1>2. CASE Camera!Scroll
    <2>1. PICK y : ui' = [ui EXCEPT !.scroll = y, !.jumped = 0]
      BY <1>2, Zenon DEF Camera!Scroll
    <2>2. /\ ui'.height = ui.height /\ ui'.coarse = ui.coarse /\ ui'.vh = ui.vh
          /\ ui'.inner = ui.inner /\ ui'.lastH = ui.lastH /\ ui'.px = ui.px
          /\ ui'.observed = ui.observed /\ ui'.spacer = ui.spacer /\ ui'.mounted = ui.mounted
          /\ ui'.debounce = ui.debounce /\ ui'.jumped = 0
      BY <1>0, <2>1 DEF CamFields
    <2>3. CamPlace(ui')
      BY <1>a, <2>2, CamAlone
    <2>4. CamJump(ui')
      BY <1>a, <2>2 DEF CamJump
    <2>5. QED
      BY <2>3, <2>4
  <1>3. CASE Camera!onFocusIn
    <2>1. PICK i \in {1, 2} : ui' = [ui EXCEPT !.scroll = ui.px[i], !.jumped = i]
      BY <1>3, CamTwo, Zenon DEF Camera!onFocusIn
    <2>2. /\ ui'.height = ui.height /\ ui'.coarse = ui.coarse /\ ui'.vh = ui.vh
          /\ ui'.inner = ui.inner /\ ui'.lastH = ui.lastH /\ ui'.px = ui.px
          /\ ui'.observed = ui.observed /\ ui'.spacer = ui.spacer /\ ui'.mounted = ui.mounted
          /\ ui'.debounce = ui.debounce /\ ui'.jumped = i /\ ui'.scroll = ui.px[i]
      BY <1>0, <2>1 DEF CamFields
    <2>3. CamPlace(ui')
      BY <1>a, <2>2, CamAlone
    <2>4. CamJump(ui')
      BY <1>a, <2>2 DEF CamJump
    <2>5. QED
      BY <2>3, <2>4
  <1>4. CASE Camera!DeepLink
    <2>1. PICK i \in {1, 2} :
            ui' = [ui EXCEPT !.scroll = Camera!stationOffsets[i] * ui.inner, !.jumped = i]
      BY <1>4, CamTwo, Zenon DEF Camera!DeepLink
    <2>2. /\ ui'.height = ui.height /\ ui'.coarse = ui.coarse /\ ui'.vh = ui.vh
          /\ ui'.inner = ui.inner /\ ui'.lastH = ui.lastH /\ ui'.px = ui.px
          /\ ui'.observed = ui.observed /\ ui'.spacer = ui.spacer /\ ui'.mounted = ui.mounted
          /\ ui'.debounce = ui.debounce /\ ui'.jumped = i
          /\ ui'.scroll = Camera!stationOffsets[i] * ui.inner
      BY <1>0, <2>1 DEF CamFields
    <2>3. CamPlace(ui')
      BY <1>a, <2>2, CamAlone
    <2>4. CamJump(ui')
      BY <1>a, <2>2 DEF CamJump
    <2>5. QED
      BY <2>3, <2>4
  <1>5. CASE Camera!Resize
    <2>1. PICK h \in {10, 12}, turned \in BOOLEAN :
            ui' = [ui EXCEPT !.inner = h, !.wide = @ \/ turned, !.debounce = TRUE, !.jumped = 0]
      BY <1>5, Zenon DEF Camera!Resize
    <2>2. /\ ui'.height = ui.height /\ ui'.coarse = ui.coarse /\ ui'.vh = ui.vh
          /\ ui'.inner = h /\ ui'.lastH = ui.lastH /\ ui'.px = ui.px
          /\ ui'.observed = ui.observed /\ ui'.spacer = ui.spacer /\ ui'.mounted = ui.mounted
          /\ ui'.debounce = TRUE /\ ui'.jumped = 0
      BY <1>0, <2>1 DEF CamFields
    <2>3. CamPlace(ui')
      BY <1>a, <2>2, CamAlone
    <2>4. CamJump(ui')
      BY <1>a, <2>2 DEF CamJump
    <2>5. QED
      BY <2>3, <2>4
  <1>6. CASE Camera!Rewrap
    <2>1. PICK i \in {1, 2}, h \in {4, 6, 12} : ui' = [ui EXCEPT !.height[i] = h, !.observed = FALSE]
      BY <1>6, CamTwo, Zenon DEF Camera!Rewrap
    <2>2. /\ ui'.height = [ui.height EXCEPT ![i] = h] /\ ui'.coarse = ui.coarse /\ ui'.vh = ui.vh
          /\ ui'.inner = ui.inner /\ ui'.lastH = ui.lastH /\ ui'.px = ui.px
          /\ ui'.observed = FALSE /\ ui'.spacer = ui.spacer /\ ui'.mounted = ui.mounted
          /\ ui'.debounce = ui.debounce /\ ui'.jumped = ui.jumped /\ ui'.scroll = ui.scroll
      BY <1>0, <2>1 DEF CamFields
    <2>3. CamPlace(ui')
      BY <1>a, <2>2 DEF CamPlace
    <2>4. CamJump(ui')
      BY <1>a, <2>2 DEF CamJump
    <2>5. QED
      BY <2>3, <2>4
  <1>7. CASE Camera!layout
    <2>0. Camera!stationPxPositions(ui.height, ui.coarse, ui.inner) = CamPx(ui.height, ui.coarse, ui.inner)
      BY <1>a, CamPositions
    <2>1. \E px : /\ px = Camera!stationPxPositions(ui.height, ui.coarse, ui.inner)
                  /\ ui' = IF ~ui.wide /\ ui.inner = ui.lastH THEN [ui EXCEPT !.debounce = FALSE]
                           ELSE IF ui.coarse /\ ~ui.wide /\ ui.inner <= ui.vh
                           THEN [ui EXCEPT !.debounce = FALSE, !.wide = FALSE, !.lastH = ui.inner]
                           ELSE [[ui EXCEPT !.debounce = FALSE, !.wide = FALSE, !.lastH = ui.inner]
                                   EXCEPT !.vh = ui.inner, !.px = px, !.jumped = 0,
                                          !.spacer = px[Camera!N] + Camera!Span(ui.coarse, ui.inner)]
      BY <1>7, Zenon DEF Camera!layout
    <2>2. PICK px : /\ px = CamPx(ui.height, ui.coarse, ui.inner)
                    /\ ui' = IF ~ui.wide /\ ui.inner = ui.lastH THEN [ui EXCEPT !.debounce = FALSE]
                             ELSE IF ui.coarse /\ ~ui.wide /\ ui.inner <= ui.vh
                             THEN [ui EXCEPT !.debounce = FALSE, !.wide = FALSE, !.lastH = ui.inner]
                             ELSE [[ui EXCEPT !.debounce = FALSE, !.wide = FALSE, !.lastH = ui.inner]
                                     EXCEPT !.vh = ui.inner, !.px = px, !.jumped = 0,
                                            !.spacer = px[2] + Camera!Span(ui.coarse, ui.inner)]
      BY <2>0, <2>1, CamTwo, Zenon
    <2>3. CASE ui.inner = ui.lastH /\ ui' = [ui EXCEPT !.debounce = FALSE]
      <3>1. /\ ui'.height = ui.height /\ ui'.coarse = ui.coarse /\ ui'.vh = ui.vh
            /\ ui'.inner = ui.inner /\ ui'.lastH = ui.lastH /\ ui'.px = ui.px
            /\ ui'.observed = ui.observed /\ ui'.spacer = ui.spacer /\ ui'.mounted = ui.mounted
            /\ ui'.debounce = FALSE /\ ui'.jumped = ui.jumped /\ ui'.scroll = ui.scroll
        BY <1>0, <2>3 DEF CamFields
      <3>2. CamPlace(ui')
        BY <1>a, <3>1, CamAlone
      <3>3. CamJump(ui')
        BY <1>a, <2>3, <3>1 DEF CamJump
      <3>4. QED
        BY <3>2, <3>3
    <2>4. CASE ui.coarse /\ ui' = [ui EXCEPT !.debounce = FALSE, !.wide = FALSE, !.lastH = ui.inner]
      <3>1. /\ ui'.height = ui.height /\ ui'.coarse = ui.coarse /\ ui'.vh = ui.vh
            /\ ui'.inner = ui.inner /\ ui'.lastH = ui.inner /\ ui'.px = ui.px
            /\ ui'.observed = ui.observed /\ ui'.spacer = ui.spacer /\ ui'.mounted = ui.mounted
            /\ ui'.debounce = FALSE /\ ui'.jumped = ui.jumped /\ ui'.scroll = ui.scroll
        BY <1>0, <2>4 DEF CamFields
      <3>2. CamPlace(ui')
        BY <1>a, <3>1 DEF CamPlace
      <3>3. CamJump(ui')
        BY <1>a, <2>4, <3>1 DEF CamJump
      <3>4. QED
        BY <3>2, <3>3
    <2>5. CASE ui' = [[ui EXCEPT !.debounce = FALSE, !.wide = FALSE, !.lastH = ui.inner]
                        EXCEPT !.vh = ui.inner, !.px = px, !.jumped = 0,
                               !.spacer = px[2] + Camera!Span(ui.coarse, ui.inner)]
      <3>1. /\ ui'.height = ui.height /\ ui'.coarse = ui.coarse /\ ui'.vh = ui.inner
            /\ ui'.inner = ui.inner /\ ui'.lastH = ui.inner /\ ui'.px = px
            /\ ui'.observed = ui.observed
            /\ ui'.spacer = px[2] + Camera!Span(ui.coarse, ui.inner) /\ ui'.mounted = ui.mounted
            /\ ui'.debounce = FALSE /\ ui'.jumped = 0
        BY <1>0, <2>5 DEF CamFields
      <3>2. CamPlace(ui')
        <4>1. CamPx(ui.height, ui.coarse, ui.inner)[2] \in Int
          BY <1>a DEF CamPx, Camera!Larger, Camera!Span
        <4>2. Camera!Distance(px[2], px[2]) <= 1
          BY <2>2, <4>1 DEF Camera!Distance, Camera!Larger
        <4>3. QED
          BY <1>a, <2>2, <3>1, <4>2 DEF CamPlace
      <3>3. CamJump(ui')
        BY <1>a, <3>1 DEF CamJump
      <3>4. QED
        BY <3>2, <3>3
    <2>6. QED
      BY <2>2, <2>3, <2>4, <2>5, Zenon
  <1>8. CASE Camera!ObserverFires
    <2>0. Camera!stationPxPositions(ui.height, ui.coarse, ui.vh) = CamPx(ui.height, ui.coarse, ui.vh)
      BY <1>a, CamPositions
    <2>1. \E px : /\ px = Camera!stationPxPositions(ui.height, ui.coarse, ui.vh)
                  /\ ui' = IF \A i \in Camera!Stations : Camera!Distance(px[i], ui.px[i]) <= 1
                           THEN [ui EXCEPT !.observed = TRUE]
                           ELSE [[ui EXCEPT !.observed = TRUE]
                                   EXCEPT !.px = px, !.jumped = 0,
                                          !.spacer = px[Camera!N] + Camera!Span(ui.coarse, ui.vh)]
      BY <1>8, Zenon DEF Camera!ObserverFires
    <2>2. PICK px : /\ px = CamPx(ui.height, ui.coarse, ui.vh)
                    /\ ui' = IF \A i \in {1, 2} : Camera!Distance(px[i], ui.px[i]) <= 1
                             THEN [ui EXCEPT !.observed = TRUE]
                             ELSE [[ui EXCEPT !.observed = TRUE]
                                     EXCEPT !.px = px, !.jumped = 0,
                                            !.spacer = px[2] + Camera!Span(ui.coarse, ui.vh)]
      BY <2>0, <2>1, CamTwo, Zenon
    <2>3. CASE /\ Camera!Distance(px[2], ui.px[2]) <= 1
               /\ ui' = [ui EXCEPT !.observed = TRUE]
      <3>1. /\ ui'.height = ui.height /\ ui'.coarse = ui.coarse /\ ui'.vh = ui.vh
            /\ ui'.inner = ui.inner /\ ui'.lastH = ui.lastH /\ ui'.px = ui.px
            /\ ui'.observed = TRUE /\ ui'.mounted = ui.mounted /\ ui'.spacer = ui.spacer
            /\ ui'.debounce = ui.debounce /\ ui'.jumped = ui.jumped /\ ui'.scroll = ui.scroll
        BY <1>0, <2>3 DEF CamFields
      <3>2. CamPlace(ui')
        BY <2>2, <2>3, <3>1 DEF CamPlace
      <3>3. CamJump(ui')
        BY <1>a, <3>1 DEF CamJump
      <3>4. QED
        BY <3>2, <3>3
    <2>4. CASE ui' = [[ui EXCEPT !.observed = TRUE]
                        EXCEPT !.px = px, !.jumped = 0,
                               !.spacer = px[2] + Camera!Span(ui.coarse, ui.vh)]
      <3>1. /\ ui'.height = ui.height /\ ui'.coarse = ui.coarse /\ ui'.vh = ui.vh
            /\ ui'.inner = ui.inner /\ ui'.lastH = ui.lastH /\ ui'.px = px
            /\ ui'.observed = TRUE /\ ui'.mounted = ui.mounted
            /\ ui'.spacer = px[2] + Camera!Span(ui.coarse, ui.vh)
            /\ ui'.debounce = ui.debounce /\ ui'.jumped = 0
        BY <1>0, <2>4 DEF CamFields
      <3>2. CamPlace(ui')
        <4>1. CamPx(ui.height, ui.coarse, ui.vh)[2] \in Int
          BY <1>a DEF CamPx, Camera!Larger, Camera!Span
        <4>2. Camera!Distance(px[2], px[2]) <= 1
          BY <2>2, <4>1 DEF Camera!Distance, Camera!Larger
        <4>3. QED
          BY <1>a, <2>2, <3>1, <4>2 DEF CamPlace
      <3>3. CamJump(ui')
        BY <1>a, <3>1 DEF CamJump
      <3>4. QED
        BY <3>2, <3>3
    <2>5. QED
      BY <2>2, <2>3, <2>4
  <1>9. CASE Camera!frame
    <2>1. PICK cam, camIdx, focused : ui' = [ui EXCEPT !.cam = cam, !.camIdx = camIdx,
                                                       !.focused = focused]
      BY <1>9, Zenon DEF Camera!frame
    <2>2. /\ ui'.height = ui.height /\ ui'.coarse = ui.coarse /\ ui'.vh = ui.vh
          /\ ui'.inner = ui.inner /\ ui'.lastH = ui.lastH /\ ui'.px = ui.px
          /\ ui'.observed = ui.observed /\ ui'.spacer = ui.spacer /\ ui'.mounted = ui.mounted
          /\ ui'.debounce = ui.debounce /\ ui'.jumped = ui.jumped /\ ui'.scroll = ui.scroll
      BY <1>0, <2>1 DEF CamFields
    <2>3. CamPlace(ui')
      BY <1>a, <2>2, CamAlone
    <2>4. CamJump(ui')
      BY <1>a, <2>2 DEF CamJump
    <2>5. QED
      BY <2>3, <2>4
  <1>10. CASE Camera!Unmount
    <2>1. ui' = [ui EXCEPT !.mounted = FALSE, !.debounce = FALSE]
      BY <1>10, Zenon DEF Camera!Unmount
    <2>2. /\ ui'.height = ui.height /\ ui'.coarse = ui.coarse /\ ui'.vh = ui.vh
          /\ ui'.inner = ui.inner /\ ui'.lastH = ui.lastH /\ ui'.px = ui.px
          /\ ui'.observed = ui.observed /\ ui'.spacer = ui.spacer /\ ui'.mounted = FALSE
          /\ ui'.jumped = ui.jumped /\ ui'.scroll = ui.scroll
      BY <1>0, <2>1 DEF CamFields
    <2>3. CamPlace(ui')
      BY <1>a, <2>2, CamAlone
    <2>4. CamJump(ui')
      BY <1>a, <2>2 DEF CamJump
    <2>5. QED
      BY <2>3, <2>4
  <1>11. QED
    BY <1>2, <1>3, <1>4, <1>5, <1>6, <1>7, <1>8, <1>9, <1>10, Zenon
       DEF Camera!Next, Camera!Answered

LEMMA CamShown == CamPlace(ui) /\ CamJump(ui) => Camera!ShownIsCurrent
  <1> SUFFICES ASSUME CamPlace(ui), CamJump(ui) PROVE Camera!ShownIsCurrent
    OBVIOUS
  <1>a. /\ ui.height \in [{1, 2} -> {4, 6, 12}] /\ ui.coarse \in BOOLEAN
        /\ ui.vh \in {10, 12} /\ ui.inner \in {10, 12} /\ ui.lastH \in {10, 12}
        /\ ui.spacer = ui.px[2] + Camera!Span(ui.coarse, ui.vh)
    BY DEF CamPlace
  <1>b. PICK h \in [{1, 2} -> {4, 6, 12}] : ui.px = CamPx(h, ui.coarse, ui.vh)
    BY DEF CamPlace
  <1>c. ui.observed => Camera!Distance(CamPx(ui.height, ui.coarse, ui.vh)[2], ui.px[2]) <= 1
    BY DEF CamPlace
  <1>d. /\ ui.px[1] = 0 /\ CamPx(ui.height, ui.coarse, ui.vh)[1] = 0
        /\ ui.px[2] \in Int /\ CamPx(ui.height, ui.coarse, ui.vh)[2] \in Int
    BY <1>a, <1>b DEF CamPx, Camera!Larger, Camera!Span
  <1>1. Camera!stationPxPositions(ui.height, ui.coarse, ui.vh) = CamPx(ui.height, ui.coarse, ui.vh)
    BY <1>a, CamPositions
  <1>2. Camera!StationsCurrent
    <2>1. Camera!Distance(CamPx(ui.height, ui.coarse, ui.vh)[1], ui.px[1]) <= 1
      BY <1>d DEF Camera!Distance, Camera!Larger
    <2>2. ui.observed => \A i \in {1, 2} :
            Camera!Distance(CamPx(ui.height, ui.coarse, ui.vh)[i], ui.px[i]) <= 1
      BY <1>c, <2>1
    <2>3. QED
      BY <1>a, <1>1, <2>2, CamTwo, Zenon DEF Camera!StationsCurrent
  <1>3. Camera!NoOverlap
    <2> SUFFICES ASSUME ui.coarse, ui.observed PROVE ui.px[1] + ui.height[1] < ui.px[2]
      BY CamTwo DEF Camera!NoOverlap
    <2>1. PICK p \in Int : p = CamPx(ui.height, ui.coarse, ui.vh)[2]
      BY <1>d
    <2>2. p = Camera!Larger(Camera!Span(ui.coarse, ui.vh), ui.height[1] + (22 * ui.vh + 50) \div 100)
      BY <2>1 DEF CamPx
    <2>3. ui.height[1] \in {4, 6, 12}
      BY <1>a
    <2>4. p > ui.height[1] + 1
      <3>1. p \in Int /\ ui.vh \in {10, 12}
        BY <1>a, <2>1
      <3>2. p >= ui.height[1] + (22 * ui.vh + 50) \div 100
        BY <2>2, <2>3, <3>1 DEF Camera!Larger, Camera!Span
      <3>3. (22 * ui.vh + 50) \div 100 \in {2, 3}
        BY <3>1
      <3>4. QED
        BY <2>3, <3>1, <3>2, <3>3
    <2>5. ui.px[2] >= p - 1
      <3>1. Camera!Distance(p, ui.px[2]) <= 1
        BY <1>c, <2>1, Zenon
      <3>2. PICK x \in Int : x = ui.px[2]
        BY <1>d
      <3>3. Camera!Distance(p, x) <= 1
        BY <3>1, <3>2, Zenon
      <3>4. p - x <= 1
        BY <3>3 DEF Camera!Distance, Camera!Larger
      <3>5. QED
        BY <3>2, <3>4
    <2>6. QED
      BY <1>d, <2>3, <2>4, <2>5
  <1>4. Camera!JumpLands
    <2> SUFFICES ASSUME ~ui.coarse, Camera!Settled, ui.jumped # 0
                 PROVE  /\ ui.scroll = ui.px[ui.jumped]
                        /\ Camera!Arrived => Camera!InFocus(ui.cam, ui.camIdx) = ui.jumped
      BY DEF Camera!JumpLands
    <2>1. ui.px[1] = 0 /\ ui.px[2] = 2 * ui.vh
      BY <1>a, <1>b DEF CamPx
    <2>2. ui.jumped \in {1, 2} /\ ui.vh = ui.inner
      BY DEF Camera!Settled, CamJump
    <2>3. Camera!stationOffsets[ui.jumped] * ui.inner = ui.px[ui.jumped]
      BY <1>a, <2>1, <2>2, CamOffsets
    <2>4. ui.scroll = ui.px[ui.jumped]
      BY <2>3 DEF CamJump
    <2>5. ASSUME Camera!Arrived PROVE Camera!InFocus(ui.cam, ui.camIdx) = ui.jumped
      <3> DEFINE near(i) == /\ \A j \in {1, 2} : Camera!Distance(ui.px[i], ui.cam)
                                                   <= Camera!Distance(ui.px[j], ui.cam)
                            /\ \A j \in 1..(i - 1) : Camera!Distance(ui.px[j], ui.cam)
                                                       > Camera!Distance(ui.px[i], ui.cam)
                 above(i) == /\ i = 1 \/ ui.px[i] <= ui.cam
                             /\ i = 2 \/ ui.cam < ui.px[i + 1]
      <3>1. Camera!nearestStation(ui.px, ui.cam) = CHOOSE i \in {1, 2} : near(i)
        BY CamTwo DEF Camera!nearestStation
      <3>2. Camera!lastAbove(ui.px, ui.cam) = CHOOSE i \in {1, 2} : above(i)
        BY CamTwo DEF Camera!lastAbove
      <3>3. ui.cam = ui.px[ui.jumped] /\ ui.px[ui.jumped] \in Int
        BY <1>a, <2>1, <2>2, <2>4, <2>5 DEF Camera!Arrived
      <3>4. \A i \in {1, 2} : (near(i) <=> i = ui.jumped) /\ (above(i) <=> i = ui.jumped)
        <4>1. CASE ui.jumped = 1
          BY <1>a, <2>1, <3>3, <4>1 DEF Camera!Distance, Camera!Larger
        <4>2. CASE ui.jumped = 2
          BY <1>a, <2>1, <3>3, <4>2 DEF Camera!Distance, Camera!Larger
        <4>3. QED
          BY <2>2, <4>1, <4>2
      <3> HIDE DEF near, above
      <3>5. /\ Camera!nearestStation(ui.px, ui.cam) = ui.jumped
            /\ Camera!lastAbove(ui.px, ui.cam) = ui.jumped
        BY <2>2, <3>1, <3>2, <3>4
      <3>6. Camera!camIndexOf(ui.px, ui.cam) = 4 * ui.jumped
        <4>1. CASE ui.jumped = 1
          <5>1. Camera!camIndexOf(ui.px, ui.cam)
                  = 4 * 1 + (4 * (ui.cam - ui.px[1])) \div (ui.px[2] - ui.px[1])
            BY <3>5, <4>1, CamTwo DEF Camera!camIndexOf
          <5>2. ui.cam - ui.px[1] = 0 /\ ui.px[2] - ui.px[1] \in {20, 24}
            BY <1>a, <2>1, <3>3, <4>1
          <5>3. 0 \div (ui.px[2] - ui.px[1]) = 0
            BY <5>2
          <5>4. QED
            BY <4>1, <5>1, <5>2, <5>3
        <4>2. CASE ui.jumped = 2
          BY <3>5, <4>2, CamTwo DEF Camera!camIndexOf
        <4>3. QED
          BY <2>2, <4>1, <4>2
      <3>7. ui.helix => Camera!Distance(4 * ui.jumped, ui.camIdx) = 0
        BY <2>2, <2>5, <3>6 DEF Camera!Arrived, Camera!Distance, Camera!Larger
      <3>8. Camera!Distance(ui.px[ui.jumped], ui.cam) = 0
        BY <3>3 DEF Camera!Distance, Camera!Larger
      <3>9. QED
        BY <1>a, <3>5, <3>7, <3>8 DEF Camera!InFocus
    <2>6. QED
      BY <2>4, <2>5
  <1>5. QED
    BY <1>2, <1>3, <1>4 DEF Camera!ShownIsCurrent

-----------------------------------------------------------------------------
\* A tab.  The invariant of the component it shows.
TabInv ==
  /\ panel = "load" => LoadOk(ui)
  /\ panel = "events" => EventsOk(ui)
  /\ panel = "chaos" => ChaosOk(ui)
  /\ panel = "ratelimit" => RateOk(ui)
  /\ panel = "waf" => WafOk(ui)
  /\ panel = "db" => DbOk(ui)
  /\ panel = "api" => ApiOk(ui)
  /\ panel = "shell" => ShellOk(ui)
  /\ panel = "gpu" => GpuOk(ui)
  /\ panel = "oracle" => OracleInv /\ OracleBusy(ui)
  /\ panel = "jd" => JdInv /\ JdSays(ui)
  /\ panel = "studio" => StudioInv /\ StudioSays(ui)
  /\ panel = "infer" => InferInv /\ InferBusy(ui)
  /\ panel = "resume" => ResumeOk(ui)
  /\ panel = "auth" => AuthOk(ui)
  /\ panel = "dash" => DashOk(ui)
  /\ panel = "polls" => PollsOk(ui)
  /\ panel = "status" => BoardOk(ui, 1)
  /\ panel = "deep" => BoardOk(ui, 2)
  /\ panel = "boot" => BootOk(ui)
  /\ panel = "cli" => CliOk(ui)
  /\ panel = "construct" => ConOk(ui)
  /\ panel = "camera" => CamOk(ui) /\ CamPlace(ui) /\ CamJump(ui)
  /\ panel = "audio" => AudioOk(ui)
  /\ panel = "rain" => RainOk(ui)
  /\ panel = "matrix" => RevealOk(ui)
  /\ panel = "countup" => RevealOk(ui)

LEMMA TabInductive ==
  /\ Init => TabInv
  /\ TabInv /\ [Next]_vars => TabInv'
  <1>1. Init => TabInv
    BY LoadInit, EventsInit, ChaosInit, RateInit, WafInit, DbInit, ApiInit, ShellInit,
       GpuInit, OracleInit, OracleFresh, JdInit, JdFresh, StudioInit, StudioFresh,
       InferInit, InferFresh, ResumeInit, AuthInit, DashInit, PollsInit, StatusStep,
       DeepStep, BootInit, CliInit, ConInit, CamInit, CamFresh, AudioInit, RainInit,
       RevealInit
       DEF Init, TabInv
  <1>2. ASSUME TabInv, Next PROVE TabInv'
    <2>1. /\ panel' = panel
          /\ panel = "load" => Load!Next
          /\ panel = "events" => Events!Next
          /\ panel = "chaos" => Chaos!Next
          /\ panel = "ratelimit" => RateLimit!Next
          /\ panel = "waf" => Waf!Next
          /\ panel = "db" => Db!Next
          /\ panel = "api" => Api!Next
          /\ panel = "shell" => Shell!Next
          /\ panel = "gpu" => Gpu!Next
          /\ panel = "oracle" => Oracle!Next
          /\ panel = "jd" => Jd!Next
          /\ panel = "studio" => Studio!Next
          /\ panel = "infer" => Infer!Next
          /\ panel = "resume" => Resume!Next
          /\ panel = "auth" => Auth!Next
          /\ panel = "dash" => Dash!Next
          /\ panel = "polls" => Polls!Next
          /\ panel = "status" => Status!Next
          /\ panel = "deep" => Deep!Next
          /\ panel = "boot" => Boot!Next
          /\ panel = "cli" => Cli!Next
          /\ panel = "construct" => Construct!Next
          /\ panel = "camera" => Camera!Next
          /\ panel = "audio" => Audio!Next
          /\ panel = "rain" => Rain!Next
          /\ panel = "matrix" => Matrix!Next
          /\ panel = "countup" => CountUp!Next
      BY <1>2 DEF Next
    <2>2. panel = "load" => LoadOk(ui')
      BY <1>2, <2>1, LoadStep, Zenon DEF TabInv
    <2>3. panel = "events" => EventsOk(ui')
      BY <1>2, <2>1, EventsStep, Zenon DEF TabInv
    <2>4. panel = "chaos" => ChaosOk(ui')
      BY <1>2, <2>1, ChaosStep, Zenon DEF TabInv
    <2>5. panel = "ratelimit" => RateOk(ui')
      BY <1>2, <2>1, RateStep, Zenon DEF TabInv
    <2>6. panel = "waf" => WafOk(ui')
      BY <1>2, <2>1, WafStep, Zenon DEF TabInv
    <2>7. panel = "db" => DbOk(ui')
      BY <1>2, <2>1, DbStep, Zenon DEF TabInv
    <2>8. panel = "api" => ApiOk(ui')
      BY <1>2, <2>1, ApiStep, Zenon DEF TabInv
    <2>9. panel = "shell" => ShellOk(ui')
      BY <1>2, <2>1, ShellStep, Zenon DEF TabInv
    <2>10. panel = "gpu" => GpuOk(ui')
      BY <1>2, <2>1, GpuStep, Zenon DEF TabInv
    <2>11. panel = "oracle" => OracleInv' /\ OracleBusy(ui')
      BY <1>2, <2>1, OracleStep, OracleKeeps, Zenon DEF TabInv
    <2>12. panel = "jd" => JdInv' /\ JdSays(ui')
      BY <1>2, <2>1, JdStep, JdKeeps, Zenon DEF TabInv
    <2>13. panel = "studio" => StudioInv' /\ StudioSays(ui')
      BY <1>2, <2>1, StudioStep, StudioKeeps, Zenon DEF TabInv
    <2>14. panel = "infer" => InferInv' /\ InferBusy(ui')
      BY <1>2, <2>1, InferStep, InferKeeps, Zenon DEF TabInv
    <2>15. panel = "resume" => ResumeOk(ui')
      BY <1>2, <2>1, ResumeStep, Zenon DEF TabInv
    <2>16. panel = "auth" => AuthOk(ui')
      BY <1>2, <2>1, AuthStep, Zenon DEF TabInv
    <2>17. panel = "dash" => DashOk(ui')
      BY <1>2, <2>1, DashStep, Zenon DEF TabInv
    <2>18. panel = "polls" => PollsOk(ui')
      BY <1>2, <2>1, PollsStep, Zenon DEF TabInv
    <2>19. panel = "status" => BoardOk(ui', 1)
      BY <1>2, <2>1, StatusStep, Zenon DEF TabInv
    <2>20. panel = "deep" => BoardOk(ui', 2)
      BY <1>2, <2>1, DeepStep, Zenon DEF TabInv
    <2>21. panel = "boot" => BootOk(ui')
      BY <1>2, <2>1, BootStep, Zenon DEF TabInv
    <2>22. panel = "cli" => CliOk(ui')
      BY <1>2, <2>1, CliStep, Zenon DEF TabInv
    <2>23. panel = "construct" => ConOk(ui')
      BY <1>2, <2>1, ConStep, Zenon DEF TabInv
    <2>24. panel = "camera" => CamOk(ui') /\ CamPlace(ui') /\ CamJump(ui')
      BY <1>2, <2>1, CamStep, CamKeeps, Zenon DEF TabInv
    <2>25. panel = "audio" => AudioOk(ui')
      BY <1>2, <2>1, AudioStep, Zenon DEF TabInv
    <2>26. panel = "rain" => RainOk(ui')
      BY <1>2, <2>1, RainStep, Zenon DEF TabInv
    <2>27. panel = "matrix" => RevealOk(ui')
      BY <1>2, <2>1, RevealStep, Zenon DEF TabInv
    <2>28. panel = "countup" => RevealOk(ui')
      BY <1>2, <2>1, RevealStep, Zenon DEF TabInv
    <2>29. QED
      BY <2>1, <2>2, <2>3, <2>4, <2>5, <2>6, <2>7, <2>8, <2>9, <2>10, <2>11, <2>12, <2>13,
         <2>14, <2>15, <2>16, <2>17, <2>18, <2>19, <2>20, <2>21, <2>22, <2>23, <2>24,
         <2>25, <2>26, <2>27, <2>28 DEF TabInv
  <1>3. ASSUME TabInv, UNCHANGED vars PROVE TabInv'
    <2>1. panel' = panel /\ ui' = ui
      BY <1>3 DEF vars
    <2>2. (OracleInv => OracleInv') /\ (InferInv => InferInv')
      BY <2>1, Zenon DEF OracleInv, InferInv, OneLive
    <2>3. (JdInv => JdInv') /\ (StudioInv => StudioInv')
      BY <2>1, Zenon DEF JdInv, StudioInv, OneLive
    <2>4. QED
      BY <1>3, <2>1, <2>2, <2>3 DEF TabInv
  <1>4. QED
    BY <1>1, <1>2, <1>3

LEMMA TabLoops == TabInv => LoopsMatch
  <1> SUFFICES ASSUME TabInv PROVE LoopsMatch
    OBVIOUS
  <1>1. /\ panel = "load" => Load!StreamsMatch
        /\ panel = "events" => Events!StreamsMatch
        /\ panel = "chaos" => Chaos!LoopsMatch
        /\ panel = "ratelimit" => RateLimit!LoopsMatch
        /\ panel = "shell" => Shell!RecallInRange
        /\ panel = "gpu" => Gpu!LoopsMatch /\ Gpu!Released
        /\ panel = "oracle" => Oracle!BusyMatches
        /\ panel = "infer" => Infer!BusyMatches
        /\ panel = "auth" => Auth!BusyMatches
        /\ panel = "dash" => Dash!LoopsMatch
        /\ panel = "polls" => Polls!LoopsMatch
        /\ panel = "status" => Status!LoopsMatch
        /\ panel = "deep" => Deep!LoopsMatch
        /\ panel = "boot" => Boot!LoopsMatch
        /\ panel = "cli" => Cli!RecallInRange
        /\ panel = "audio" => Audio!LoopsMatch
        /\ panel = "rain" => Rain!LoopsMatch
        /\ panel = "matrix" => Matrix!LoopsMatch
        /\ panel = "countup" => CountUp!LoopsMatch
    BY LoadShown, EventsShown, ChaosShown, RateShown, ShellShown, GpuShown, OracleShown,
       InferShown, AuthShown, DashShown, PollsShown, StatusStep, DeepStep, BootShown,
       CliShown, AudioShown, RainShown, RevealShown
       DEF TabInv
  <1>2. QED
    BY <1>1 DEF LoopsMatch

LEMMA TabShows == TabInv => ShownIsCurrent
  <1> SUFFICES ASSUME TabInv PROVE ShownIsCurrent
    OBVIOUS
  <1>1. /\ panel = "load" => Load!ShownIsCurrent
        /\ panel = "events" => Events!ShownIsCurrent
        /\ panel = "chaos" => Chaos!ShownIsCurrent
        /\ panel = "ratelimit" => RateLimit!ShownIsCurrent
        /\ panel = "waf" => Waf!ShownIsCurrent
        /\ panel = "db" => Db!ShownIsCurrent
        /\ panel = "api" => Api!ShownIsCurrent
        /\ panel = "shell" => Shell!ShownIsCurrent
        /\ panel = "oracle" => Oracle!ShownIsCurrent
        /\ panel = "jd" => Jd!ShownIsCurrent
        /\ panel = "studio" => Studio!ShownIsCurrent
        /\ panel = "infer" => Infer!ShownIsCurrent
        /\ panel = "resume" => Resume!ShownIsCurrent
        /\ panel = "auth" => Auth!ShownIsCurrent
        /\ panel = "dash" => Dash!ShownIsCurrent
        /\ panel = "polls" => Polls!ShownIsCurrent
        /\ panel = "boot" => Boot!ShownIsCurrent
        /\ panel = "cli" => /\ Cli!ShownIsCurrent
                           /\ \A c \in ui.ctx : Oracle!parseCtx(c) = {c}
        /\ panel = "construct" => Construct!ShownIsCurrent
        /\ panel = "camera" => Camera!ShownIsCurrent
        /\ panel = "audio" => Audio!ShownIsCurrent
        /\ panel = "rain" => Rain!ShownIsCurrent
        /\ panel = "matrix" => Matrix!ShownIsCurrent
        /\ panel = "countup" => CountUp!ShownIsCurrent
    BY LoadShown, EventsShown, ChaosShown, RateShown, WafShown, DbShown, ApiShown,
       ShellShown, OracleShown, JdShown, StudioShown, InferShown, ResumeShown, AuthShown,
       DashShown, PollsShown, BootShown, CliShown, ConShown, CamShown, AudioShown,
       RainShown, RevealShown
       DEF TabInv
  <1>2. QED
    BY <1>1 DEF ShownIsCurrent

\* In every behaviour of a tab nothing runs twice and nothing is left running: streams,
\* poll loops, timers and frames are those that the state on screen implies, a form
\* waits exactly while its request is out, and the cleanup of an effect leaves none
\* (LoadPanel.tsx:43, GpuFieldPanel.tsx:107, SystemDash.tsx:240, OracleChat.tsx:155).
THEOREM NothingRunsTwice == Spec => []LoopsMatch
  BY TabInductive, TabLoops, PTL DEF Spec

\* In every behaviour of a tab what is on screen is about what it claims to be about:
\* each component's ShownIsCurrent, for any number of requests, pulls, frames and runs
\* and any order of their answers.
THEOREM ShownStaysCurrent == Spec => []ShownIsCurrent
  BY TabInductive, TabShows, PTL DEF Spec
=============================================================================
