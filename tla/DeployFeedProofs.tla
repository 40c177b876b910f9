--------------------------- MODULE DeployFeedProofs ---------------------------
(***************************************************************************)
(* Proofs about DeployFeed for any events, handlers, tabs and list length: *)
(* the store has one entry per stage within its bound, no stage goes back, *)
(* and, when the events of a stage have distinct timestamps, a replay      *)
(* changes nothing and a tab that missed nothing agrees with the store.    *)
(***************************************************************************)
EXTENDS DeployFeed, SequenceTheorems, TLAPS

Keyed(s) == \A i, j \in DOMAIN s : s[i].key = s[j].key => i = j

\* The condition on the events that the runs DeployFeed_replay and DeployFeed_stale
\* do without: a stage is not reported twice within a second.
DistinctTimes == \A d, e \in Events : d.key = e.key /\ d.ts = e.ts => d = e

------------------------------------------------------------------------------
(* deployStore.add.                                                         *)

\* The list after add: still a list of events within the bound, keyed, and the new
\* event's stage has the new event; every other entry was there before.
LEMMA StoredFacts ==
  ASSUME NEW s \in Seq(Events), NEW e \in Events, Len(s) <= MaxDeploys, Keyed(s)
  PROVE  /\ Stored(s, e) \in Seq(Events)
         /\ Len(Stored(s, e)) <= MaxDeploys
         /\ Keyed(Stored(s, e))
         /\ \A i \in DOMAIN Stored(s, e) :
              \/ Stored(s, e)[i] = e
              \/ Stored(s, e)[i].key # e.key /\ \E j \in DOMAIN s : Stored(s, e)[i] = s[j]
  <1> USE FeedAssumption
  <1>1. CASE IndexOf(s, e) # {}
    <2> DEFINE t == [i \in DOMAIN s |-> IF i \in IndexOf(s, e) THEN e ELSE s[i]]
    <2>1. Stored(s, e) = t
      BY <1>1 DEF Stored
    <2>2. DOMAIN s = 1..Len(s) /\ Len(s) \in Nat
      OBVIOUS
    <2>3. \A i \in DOMAIN s : t[i] \in Events
      BY DEF IndexOf
    <2>4. t \in [1..Len(s) -> Events]
      BY <2>2, <2>3
    <2>5. t \in Seq(Events) /\ Len(t) = Len(s)
      BY <2>2, <2>4
    <2>6. \A i \in DOMAIN t : t[i] = e \/ (t[i].key # e.key /\ t[i] = s[i])
      BY DEF IndexOf
    <2>7. \A i \in DOMAIN t : t[i].key = s[i].key
      BY DEF IndexOf
    <2>8. Keyed(t)
      BY <2>7 DEF Keyed
    <2>9. DOMAIN t = DOMAIN s
      OBVIOUS
    <2> HIDE DEF t
    <2>10. QED
      BY <2>1, <2>5, <2>6, <2>8, <2>9
  <1>2. CASE IndexOf(s, e) = {}
    <2> DEFINE a == Append(s, e)
    <2>1. a \in Seq(Events) /\ Len(a) = Len(s) + 1 /\ Len(s) \in Nat
      OBVIOUS
    <2>2. \A i \in 1..Len(s) : a[i] = s[i] /\ s[i].key # e.key
      BY <1>2 DEF IndexOf
    <2>3. a[Len(s) + 1] = e
      OBVIOUS
    <2>4. DOMAIN a = 1..(Len(s) + 1) /\ DOMAIN s = 1..Len(s)
      BY <2>1
    <2> HIDE DEF a
    <2>5. \A i \in DOMAIN a : a[i] = e \/ (a[i].key # e.key /\ \E j \in DOMAIN s : a[i] = s[j])
      BY <2>1, <2>2, <2>3, <2>4
    <2>6. Keyed(a)
      BY <2>1, <2>2, <2>3, <2>4 DEF Keyed
    <2>7. Stored(s, e) = TrimTail(a)
      BY <1>2 DEF Stored, a
    <2>8. CASE Len(a) <= MaxDeploys
      <3>1. Stored(s, e) = a
        BY <2>1, <2>7, <2>8 DEF TrimTail
      <3>2. QED
        BY <2>1, <2>5, <2>6, <2>8, <3>1
    <2>9. CASE ~(Len(a) <= MaxDeploys)
      <3> DEFINE t == SubSeq(a, 2, Len(a))
      <3>1. Len(a) = MaxDeploys + 1
        BY <2>1, <2>9
      <3>2. Stored(s, e) = t
        BY <2>7, <3>1 DEF TrimTail
      <3>3. /\ t \in Seq(Events) /\ Len(t) = MaxDeploys
            /\ \A i \in 1..MaxDeploys : t[i] = a[i + 1]
        BY <2>1, <3>1
      <3> HIDE DEF t
      <3>4. DOMAIN t = 1..MaxDeploys /\ MaxDeploys \in Nat
        BY <3>3
      <3>5. \A i \in DOMAIN t : i \in Int /\ i + 1 \in DOMAIN a /\ t[i] = a[i + 1]
        <4>1. DOMAIN a = 1..(MaxDeploys + 1)
          BY <2>1, <2>4, <3>1
        <4>2. ASSUME NEW i \in 1..MaxDeploys
              PROVE  i \in Int /\ i + 1 \in DOMAIN a
          BY <3>4, <4>1
        <4>3. QED
          BY <3>3, <3>4, <4>2
      <3>6. Keyed(t)
        <4>1. SUFFICES ASSUME NEW i \in DOMAIN t, NEW j \in DOMAIN t, t[i].key = t[j].key
                       PROVE  i = j
          BY DEF Keyed
        <4>2. i + 1 = j + 1
          BY <2>6, <3>5, <4>1 DEF Keyed
        <4>3. QED
          BY <3>5, <4>2
      <3>7. ASSUME NEW i \in DOMAIN t
            PROVE  t[i] = e \/ (t[i].key # e.key /\ \E j \in DOMAIN s : t[i] = s[j])
        <4>1. i + 1 \in DOMAIN a /\ t[i] = a[i + 1]
          BY <3>5
        <4>2. QED
          BY <2>5, <4>1
      <3>8. QED
        BY <3>2, <3>3, <3>6, <3>7
    <2>10. QED
      BY <2>8, <2>9
  <1>3. QED
    BY <1>1, <1>2

------------------------------------------------------------------------------
(* The store.                                                               *)

\* At the start the list is empty.
LEMMA StoreInit == Init => StoreIsKeyed
  BY FeedAssumption DEF Init, StoreIsKeyed, TypeOK

\* One call, broadcast, restart or step of a tab keeps the list keyed and bounded.
LEMMA StoreStep ==
  ASSUME StoreIsKeyed, [Next]_vars
  PROVE  StoreIsKeyed'
  <1> USE DEF TypeOK
  <1>0. TypeOK /\ Len(store) <= MaxDeploys /\ Keyed(store)
    BY DEF StoreIsKeyed, Keyed
  <1>1. ASSUME TypeOK', store' = store
        PROVE  StoreIsKeyed'
    BY <1>1 DEF StoreIsKeyed
  <1>2. CASE UNCHANGED vars
    BY <1>0, <1>1, <1>2 DEF vars
  <1>3. ASSUME NEW h \in Hooks, NEW e \in Events, HookAdd(h, e)
        PROVE  StoreIsKeyed'
    <2>1. /\ delivered' \in SUBSET Events /\ calls' \in Nat
          /\ UNCHANGED <<vstate, view, queue, missed, restarts>>
      BY <1>0, <1>3 DEF HookAdd, Listed
    <2>2. CASE Accepts(store, e)
      <3>1. store' = Stored(store, e)
        BY <1>3, <2>2 DEF HookAdd
      <3>2. store' \in Seq(Events) /\ Len(store') <= MaxDeploys /\ Keyed(store')
        BY <1>0, <3>1, StoredFacts
      <3>3. pending' \in [Hooks -> SUBSET Events] /\ applied' \in SUBSET Events
        BY <1>0, <1>3, <2>2 DEF HookAdd, Listed
      <3>4. TypeOK'
        BY <1>0, <2>1, <3>2, <3>3
      <3>5. QED
        BY <3>2, <3>4 DEF StoreIsKeyed, Keyed
    <2>3. CASE ~Accepts(store, e)
      <3>1. UNCHANGED <<store, pending, applied>>
        BY <1>3, <2>3 DEF HookAdd
      <3>2. TypeOK'
        BY <1>0, <2>1, <3>1
      <3>3. QED
        BY <1>1, <3>1, <3>2
    <2>4. QED
      BY <2>2, <2>3
  <1>4. ASSUME NEW h \in Hooks, HookPublish(h)
        PROVE  StoreIsKeyed'
    <2>1. PICK e \in pending[h] :
            /\ pending' = [pending EXCEPT ![h] = {}]
            /\ queue' = [v \in Viewers |->
                           IF v \in Reached THEN Append(queue[v], e) ELSE queue[v]]
            /\ missed' = missed \cup {v \in Viewers \ Reached :
                                        vstate[v] # "off" /\ Merge(view[v], e) # view[v]}
            /\ UNCHANGED <<store, vstate, view, applied, delivered, calls, restarts>>
      BY <1>4 DEF HookPublish
    <2>2. e \in Events
      BY <1>0, <2>1
    <2>3. \A v \in Viewers : queue'[v] \in Seq(Events) /\ Len(queue'[v]) <= ChanCap
      BY <1>0, <2>1, <2>2, FeedAssumption DEF Reached
    <2>4. queue' \in [Viewers -> Seq(Events)]
      BY <2>1, <2>3
    <2>5. QED
      BY <1>0, <1>1, <2>1, <2>3, <2>4
  <1>5. CASE Restart
    <2>1. store' = <<>> /\ TypeOK'
      BY <1>0, <1>5, FeedAssumption DEF Restart
    <2>2. QED
      BY <2>1, FeedAssumption DEF StoreIsKeyed
  <1>6. ASSUME NEW v \in Viewers, Load(v)
        PROVE  StoreIsKeyed'
    <2>1. {Recent(store)[i] : i \in DOMAIN store} \in SUBSET Events
      <3>1. DOMAIN store = 1..Len(store) /\ Len(store) \in Nat
        BY <1>0
      <3>2. \A i \in DOMAIN store : Len(store) + 1 - i \in DOMAIN store
        BY <3>1
      <3>3. \A i \in DOMAIN store : Recent(store)[i] \in Events
        BY <1>0, <3>1, <3>2 DEF Recent
      <3>4. QED
        BY <3>3
    <2>2. view' \in [Viewers -> SUBSET Events]
      BY <1>0, <1>6, <2>1 DEF Load
    <2>3. QED
      BY <1>0, <1>1, <1>6, <2>2 DEF Load
  <1>7. ASSUME NEW v \in Viewers, Receive(v)
        PROVE  StoreIsKeyed'
    <2>1. Head(queue[v]) \in Events /\ Tail(queue[v]) \in Seq(Events)
      BY <1>0, <1>7 DEF Receive
    <2>2. Len(Tail(queue[v])) <= ChanCap
      <3>1. queue[v] \in Seq(Events) /\ queue[v] # <<>> /\ Len(queue[v]) <= ChanCap
        BY <1>0, <1>7 DEF Receive
      <3>2. QED
        BY <3>1, FeedAssumption
    <2>3. Merge(view[v], Head(queue[v])) \in SUBSET Events
      BY <1>0, <2>1 DEF Merge
    <2>4. TypeOK'
      BY <1>0, <1>7, <2>1, <2>2, <2>3 DEF Receive
    <2>5. QED
      BY <1>1, <1>7, <2>4 DEF Receive
  <1>8. ASSUME NEW v \in Viewers, Open(v) \/ Cut(v) \/ Close(v)
        PROVE  StoreIsKeyed'
    <2>1. <<>> \in Seq(Events) /\ Len(<<>>) <= ChanCap
      BY FeedAssumption
    <2>2. CASE Open(v)
      BY <1>0, <1>1, <2>2 DEF Open
    <2>3. CASE Cut(v)
      BY <1>0, <1>1, <2>1, <2>3 DEF Cut
    <2>4. CASE Close(v)
      BY <1>0, <1>1, <2>1, <2>4 DEF Close
    <2>5. QED
      BY <1>8, <2>2, <2>3, <2>4
  <1>9. QED
    BY <1>2, <1>3, <1>4, <1>5, <1>6, <1>7, <1>8 DEF Next

\* In every behaviour the variables are well typed and the store has one entry per
\* (sha, stage) within its bound (deploys.go:26, 56-58).
THEOREM StoreIsSound == Spec => []StoreIsKeyed
  <1>1. Init => StoreIsKeyed
    BY StoreInit
  <1>2. StoreIsKeyed /\ [Next]_vars => StoreIsKeyed'
    BY StoreStep
  <1>3. QED
    BY <1>1, <1>2, PTL DEF Spec

------------------------------------------------------------------------------
(* What one accepted call does.                                             *)

\* The stage of an accepted event shows that event; every other entry was there.
LEMMA AddFacts ==
  ASSUME StoreIsKeyed, NEW h \in Hooks, NEW e \in Events, HookAdd(h, e), Accepts(store, e)
  PROVE  /\ pending' = [pending EXCEPT ![h] = {e}]
         /\ applied' = Listed(store', applied \cup {e})
         /\ UNCHANGED <<vstate, view, queue, missed>>
         /\ \A i \in DOMAIN store' :
              \/ store'[i] = e
              \/ store'[i].key # e.key /\ \E j \in DOMAIN store : store'[i] = store[j]
  <1>1. store \in Seq(Events) /\ Len(store) <= MaxDeploys /\ Keyed(store)
    BY DEF StoreIsKeyed, TypeOK, Keyed
  <1>2. store' = Stored(store, e)
    BY DEF HookAdd
  <1>3. \A i \in DOMAIN store' :
          \/ store'[i] = e
          \/ store'[i].key # e.key /\ \E j \in DOMAIN store : store'[i] = store[j]
    BY <1>1, <1>2, StoredFacts
  <1>4. QED
    BY <1>3 DEF HookAdd

\* Only an accepted call or a restart changes the store.
LEMMA StoreChanges ==
  ASSUME [Next]_vars, store' # store
  PROVE  \/ \E h \in Hooks, e \in Events : HookAdd(h, e) /\ Accepts(store, e)
         \/ Restart
  BY DEF Next, vars, HookAdd, HookPublish, Load, Open, Receive, Cut, Close

\* In every behaviour the timestamp of a stage that stays listed does not go back
\* (deploys.go:41-43).
THEOREM StagesMoveForward == Spec => StageNeverRegresses
  <1> DEFINE Forward == \A k \in Keys :
                          \A t \in StageTs(store, k), u \in StageTs(store', k) : u >= t
  <1>1. ASSUME StoreIsKeyed, [Next]_vars
        PROVE  [Forward]_store
    <2>1. SUFFICES ASSUME store' # store PROVE Forward
      OBVIOUS
    <2>2. CASE Restart
      BY <2>2 DEF Restart, StageTs
    <2>3. ASSUME NEW h \in Hooks, NEW e \in Events, HookAdd(h, e), Accepts(store, e)
          PROVE  Forward
      <3>1. SUFFICES ASSUME NEW i \in DOMAIN store, NEW j \in DOMAIN store',
                            store[i].key = store'[j].key
                     PROVE  store'[j].ts >= store[i].ts
        BY DEF StageTs
      <3>2. store[i] \in Events /\ store[i].ts \in Nat
        BY <1>1, FeedAssumption DEF StoreIsKeyed, TypeOK
      <3>3. CASE store'[j] = e
        BY <2>3, <3>1, <3>3 DEF Accepts, IndexOf
      <3>4. CASE \E m \in DOMAIN store : store'[j] = store[m]
        BY <1>1, <3>1, <3>2, <3>4 DEF StoreIsKeyed
      <3>5. QED
        BY <1>1, <2>3, <3>3, <3>4, AddFacts
    <2>4. QED
      BY <1>1, <2>1, <2>2, <2>3, StoreChanges
  <1>2. QED
    BY <1>1, StoreIsSound, PTL DEF Spec, StageNeverRegresses

------------------------------------------------------------------------------
(* Replays.                                                                 *)

\* A stage that took an event shows it, or a later one.
AppliedIsShown ==
  \A d \in applied : \E i \in DOMAIN store : store[i].key = d.key /\ store[i].ts >= d.ts

\* One step keeps it: a call whose event is accepted replaces only an older one.
LEMMA AppliedStep ==
  ASSUME StoreIsKeyed, AppliedIsShown, [Next]_vars
  PROVE  AppliedIsShown'
  <1>1. ASSUME store' = store, applied' = applied
        PROVE  AppliedIsShown'
    BY <1>1 DEF AppliedIsShown
  <1>2. ASSUME NEW h \in Hooks, NEW e \in Events, HookAdd(h, e)
        PROVE  AppliedIsShown'
    <2>1. CASE Accepts(store, e)
      <3>1. SUFFICES ASSUME NEW d \in applied'
                     PROVE  \E i \in DOMAIN store' :
                              store'[i].key = d.key /\ store'[i].ts >= d.ts
        BY DEF AppliedIsShown
      <3>2. d \in applied \cup {e}
        BY <1>2, <2>1, <3>1, AddFacts DEF Listed
      <3>3. PICK i \in DOMAIN store' : store'[i].key = d.key
        BY <1>2, <2>1, <3>1, AddFacts DEF Listed
      <3>4. d \in Events /\ d.ts \in Nat /\ e.ts \in Nat
        BY <3>2, FeedAssumption DEF StoreIsKeyed, TypeOK
      <3>5. \A m \in DOMAIN store : store[m].ts \in Nat
        BY FeedAssumption DEF StoreIsKeyed, TypeOK
      <3>6. CASE d = e
        <4>1. store'[i] = e
          BY <1>2, <2>1, <3>3, <3>6, AddFacts
        <4>2. QED
          BY <3>4, <3>6, <4>1
      <3>7. CASE d \in applied
        <4>1. PICK m \in DOMAIN store : store[m].key = d.key /\ store[m].ts >= d.ts
          BY <3>7 DEF AppliedIsShown
        <4>2. CASE store'[i] = e
          <5>1. e.ts >= store[m].ts
            BY <2>1, <3>3, <4>1, <4>2 DEF Accepts, IndexOf
          <5>2. QED
            BY <3>3, <3>4, <3>5, <4>1, <4>2, <5>1
        <4>3. CASE \E j \in DOMAIN store : store'[i] = store[j]
          BY <3>3, <4>1, <4>3 DEF StoreIsKeyed
        <4>4. QED
          BY <1>2, <2>1, <4>2, <4>3, AddFacts
      <3>8. QED
        BY <3>2, <3>6, <3>7
    <2>2. CASE ~Accepts(store, e)
      BY <1>1, <1>2, <2>2 DEF HookAdd
    <2>3. QED
      BY <2>1, <2>2
  <1>3. CASE Restart
    BY <1>3 DEF Restart, AppliedIsShown
  <1>4. QED
    BY <1>1, <1>2, <1>3 DEF Next, vars, HookPublish, Load, Open, Receive, Cut, Close

\* When the events of a stage have distinct timestamps, posting an accepted event
\* again changes and broadcasts nothing (deploys.go:26).  The run DeployFeed_replay
\* shows that the condition is needed.
THEOREM ReplaysAreSafe == ASSUME DistinctTimes PROVE Spec => ReplaySafe
  <1> DEFINE Safe == \A h \in Hooks, e \in applied :
                       calls' = calls + 1 /\ HookAdd(h, e) => UNCHANGED <<store, pending>>
  <1>1. Init => AppliedIsShown
    BY DEF Init, AppliedIsShown
  <1>2. StoreIsKeyed /\ AppliedIsShown /\ [Next]_vars => AppliedIsShown'
    BY AppliedStep
  <1>3. ASSUME StoreIsKeyed, AppliedIsShown
        PROVE  Safe
    <2>1. SUFFICES ASSUME NEW h \in Hooks, NEW e \in applied, HookAdd(h, e)
                   PROVE  UNCHANGED <<store, pending>>
      OBVIOUS
    <2>2. PICK i \in DOMAIN store : store[i].key = e.key /\ store[i].ts >= e.ts
      BY <1>3 DEF AppliedIsShown
    <2>3. e \in Events /\ store[i] \in Events /\ e.ts \in Nat /\ store[i].ts \in Nat
      BY <1>3, FeedAssumption DEF StoreIsKeyed, TypeOK
    <2>4. ~Accepts(store, e)
      <3>1. SUFFICES ASSUME e.ts >= store[i].ts, store[i].status # e.status PROVE FALSE
        BY <2>2 DEF Accepts, IndexOf
      <3>2. store[i] = e
        BY <2>2, <2>3, <3>1 DEF DistinctTimes
      <3>3. QED
        BY <3>1, <3>2
    <2>5. QED
      BY <2>1, <2>4 DEF HookAdd
  <1>4. StoreIsKeyed /\ AppliedIsShown => [Safe]_vars
    BY <1>3
  <1>5. QED
    BY <1>1, <1>2, <1>4, StoreIsSound, PTL DEF Spec, ReplaySafe

------------------------------------------------------------------------------
(* The tab.                                                                 *)

\* What a tab knows of the store or is about to be told: its list, the frames on
\* their way to it, and what the handlers have still to broadcast.
InSight(v) ==
  view[v] \cup {queue[v][i] : i \in DOMAIN queue[v]} \cup UNION {pending[h] : h \in Hooks}

\* x tells a tab the state of the entry e, or a newer one.
Tells(x, e) == x.key = e.key /\ (x = e \/ x.ts > e.ts)

\* Every entry of the store is in the sight of a tab that missed nothing.
AllInSight ==
  \A v \in Viewers : vstate[v] # "off" /\ v \notin missed =>
    \A i \in DOMAIN store : \E x \in InSight(v) : Tells(x, store[i])

\* A merge takes the newcomer, or has something that tells as much; and it drops
\* nothing without having something that tells as much.
LEMMA MergeTells ==
  ASSUME DistinctTimes, NEW list \in SUBSET Events, NEW e \in Events
  PROVE  \A x \in list \cup {e} : \E y \in Merge(list, e) : Tells(y, x)
  <1> SUFFICES ASSUME NEW x \in list \cup {e}
               PROVE  \E y \in Merge(list, e) : Tells(y, x)
    OBVIOUS
  <1>1. x \in Events /\ x.ts \in Nat /\ e.ts \in Nat
    BY FeedAssumption
  <1>2. CASE \E z \in list : z.key = e.key /\ (e.ts < z.ts \/ z = e)
    <2>1. Merge(list, e) = list
      BY <1>2 DEF Merge
    <2>2. QED
      BY <1>2, <2>1 DEF Tells
  <1>3. CASE ~ \E z \in list : z.key = e.key /\ (e.ts < z.ts \/ z = e)
    <2>1. Merge(list, e) = {z \in list : z.key # e.key} \cup {e}
      BY <1>3 DEF Merge
    <2>2. CASE x.key # e.key \/ x = e
      BY <2>1, <2>2 DEF Tells
    <2>3. CASE x.key = e.key /\ x # e
      <3>1. ~(e.ts < x.ts) /\ x.ts # e.ts
        BY <1>1, <1>3, <2>3 DEF DistinctTimes
      <3>2. Tells(e, x)
        BY <1>1, <2>3, <3>1 DEF Tells
      <3>3. QED
        BY <2>1, <3>2
    <2>4. QED
      BY <2>2, <2>3
  <1>4. QED
    BY <1>2, <1>3

\* Telling is transitive.
LEMMA TellsOn ==
  ASSUME NEW x \in Events, NEW y \in Events, NEW z \in Events, Tells(x, y), Tells(y, z)
  PROVE  Tells(x, z)
  BY FeedAssumption DEF Tells

\* A handler has at most one event to broadcast.
OneNews == \A h \in Hooks : \A d, e \in pending[h] : d = e

\* One step keeps that: a handler takes a call when it has nothing to broadcast.
LEMMA NewsStep ==
  ASSUME StoreIsKeyed, OneNews, [Next]_vars
  PROVE  OneNews'
  <1>1. pending \in [Hooks -> SUBSET Events]
    BY DEF StoreIsKeyed, TypeOK
  <1>2. ASSUME pending' = pending
        PROVE  OneNews'
    BY <1>2 DEF OneNews
  <1>3. ASSUME NEW h \in Hooks, NEW e \in Events, HookAdd(h, e)
        PROVE  OneNews'
    <2>1. pending' = pending \/ pending' = [pending EXCEPT ![h] = {e}]
      BY <1>3 DEF HookAdd
    <2>2. QED
      BY <1>1, <2>1 DEF OneNews
  <1>4. ASSUME NEW h \in Hooks, HookPublish(h)
        PROVE  OneNews'
    <2>1. pending' = [pending EXCEPT ![h] = {}]
      BY <1>4 DEF HookPublish
    <2>2. QED
      BY <1>1, <2>1 DEF OneNews
  <1>5. CASE Restart
    BY <1>5 DEF Restart, OneNews
  <1>6. QED
    BY <1>2, <1>3, <1>4, <1>5 DEF Next, vars, Load, Open, Receive, Cut, Close

\* One step keeps every entry in sight: a broadcast moves the news from the handler to
\* the tab's queue, unless it tells the tab nothing or the tab misses it; a tab that
\* takes a frame merges it; a cut tab has missed what was on its way.
LEMMA SightStep ==
  ASSUME DistinctTimes, StoreIsKeyed, OneNews, AllInSight, [Next]_vars
  PROVE  AllInSight'
  <1>0. TypeOK
    BY DEF StoreIsKeyed
  <1>1. ASSUME NEW v \in Viewers, vstate[v] # "off", v \notin missed,
               store' = store, InSight(v) \subseteq InSight(v)'
        PROVE  \A i \in DOMAIN store' : \E x \in InSight(v)' : Tells(x, store'[i])
    BY <1>1 DEF AllInSight
  <1>2. CASE UNCHANGED vars
    BY <1>2 DEF vars, AllInSight, InSight
  <1>3. ASSUME NEW h \in Hooks, NEW e \in Events, HookAdd(h, e)
        PROVE  AllInSight'
    <2>1. pending[h] = {} /\ UNCHANGED <<vstate, view, queue, missed>>
      BY <1>3 DEF HookAdd
    <2>2. CASE ~Accepts(store, e)
      BY <1>3, <2>1, <2>2 DEF HookAdd, AllInSight, InSight
    <2>3. CASE Accepts(store, e)
      <3>1. pending' = [pending EXCEPT ![h] = {e}]
        BY <1>3, <2>3, AddFacts
      <3>2. UNION {pending'[g] : g \in Hooks} = {e} \cup UNION {pending[g] : g \in Hooks}
        BY <1>0, <2>1, <3>1 DEF TypeOK
      <3>3. \A v \in Viewers : InSight(v)' = InSight(v) \cup {e}
        BY <2>1, <3>2 DEF InSight
      <3>4. SUFFICES ASSUME NEW v \in Viewers, vstate[v] # "off", v \notin missed,
                            NEW i \in DOMAIN store'
                     PROVE  \E x \in InSight(v)' : Tells(x, store'[i])
        BY <2>1 DEF AllInSight
      <3>5. CASE store'[i] = e
        BY <3>3, <3>5 DEF Tells
      <3>6. CASE \E j \in DOMAIN store : store'[i] = store[j]
        BY <3>3, <3>4, <3>6 DEF AllInSight
      <3>7. QED
        BY <1>3, <2>3, <3>5, <3>6, AddFacts
    <2>4. QED
      BY <2>2, <2>3
  <1>4. ASSUME NEW h \in Hooks, HookPublish(h)
        PROVE  AllInSight'
    <2>1. PICK e \in pending[h] :
            /\ pending' = [pending EXCEPT ![h] = {}]
            /\ queue' = [v \in Viewers |->
                           IF v \in Reached THEN Append(queue[v], e) ELSE queue[v]]
            /\ missed' = missed \cup {v \in Viewers \ Reached :
                                        vstate[v] # "off" /\ Merge(view[v], e) # view[v]}
            /\ UNCHANGED <<store, vstate, view, applied, delivered, calls, restarts>>
      BY <1>4 DEF HookPublish
    <2>2. SUFFICES ASSUME NEW v \in Viewers, vstate[v] # "off", v \notin missed',
                          NEW i \in DOMAIN store
                   PROVE  \E x \in InSight(v)' : Tells(x, store[i])
      BY <2>1 DEF AllInSight
    <2>3. PICK x \in InSight(v) : Tells(x, store[i])
      BY <2>1, <2>2 DEF AllInSight
    <2>4. /\ e \in Events /\ x \in Events /\ store[i] \in Events
          /\ queue[v] \in Seq(Events) /\ view[v] \in SUBSET Events
      BY <1>0, <2>1 DEF TypeOK, InSight
    <2>5. CASE x \in view[v]
      BY <2>1, <2>3, <2>5 DEF InSight
    <2>6. CASE x \in {queue[v][j] : j \in DOMAIN queue[v]}
      <3>1. PICK j \in DOMAIN queue[v] : x = queue[v][j]
        BY <2>6
      <3>2. j \in DOMAIN queue'[v] /\ queue'[v][j] = x
        BY <2>1, <2>4, <3>1
      <3>3. QED
        BY <2>3, <3>2 DEF InSight
    <2>7. CASE \E g \in Hooks : g # h /\ x \in pending[g]
      BY <1>0, <2>1, <2>3, <2>7 DEF InSight, TypeOK
    <2>8. CASE x \in pending[h]
      <3>1. CASE x = e /\ v \in Reached
        <4>1. queue'[v] = Append(queue[v], e)
          BY <2>1, <3>1
        <4>2. Len(queue[v]) + 1 \in DOMAIN queue'[v] /\ queue'[v][Len(queue[v]) + 1] = e
          BY <2>4, <4>1
        <4>3. QED
          BY <2>3, <3>1, <4>2 DEF InSight
      <3>2. CASE x = e /\ v \notin Reached
        <4>1. Merge(view[v], e) = view[v]
          BY <2>1, <2>2, <3>2
        <4>2. PICK y \in view[v] : Tells(y, e)
          BY <2>4, <4>1, MergeTells
        <4>3. Tells(y, store[i])
          BY <2>3, <2>4, <3>2, <4>2, TellsOn
        <4>4. QED
          BY <2>1, <4>2, <4>3 DEF InSight
      <3>3. QED
        BY <2>1, <2>8, <3>1, <3>2 DEF OneNews
    <2>9. QED
      BY <2>3, <2>5, <2>6, <2>7, <2>8 DEF InSight
  <1>5. CASE Restart
    BY <1>5 DEF Restart, AllInSight
  <1>6. ASSUME NEW v \in Viewers, UNCHANGED <<store, pending>>,
               \A w \in Viewers \ {v} : /\ vstate'[w] = vstate[w] /\ view'[w] = view[w]
                                       /\ queue'[w] = queue[w]
                                       /\ (w \in missed <=> w \in missed'),
               vstate'[v] # "off" /\ v \notin missed' =>
                 \A i \in DOMAIN store : \E x \in InSight(v)' : Tells(x, store[i])
        PROVE  AllInSight'
    <2>1. SUFFICES ASSUME NEW w \in Viewers, vstate'[w] # "off", w \notin missed'
                   PROVE  \A i \in DOMAIN store : \E x \in InSight(w)' : Tells(x, store[i])
      BY <1>6 DEF AllInSight
    <2>2. CASE w = v
      BY <1>6, <2>1, <2>2
    <2>3. CASE w # v
      <3> w \in Viewers \ {v}
        BY <2>3
      <3>1. /\ vstate'[w] = vstate[w] /\ view'[w] = view[w] /\ queue'[w] = queue[w]
            /\ w \notin missed /\ pending' = pending /\ store' = store
        BY <1>6, <2>1
      <3>2. InSight(w)' = InSight(w)
        BY <3>1 DEF InSight
      <3>3. QED
        BY <2>1, <3>1, <3>2 DEF AllInSight
    <2>4. QED
      BY <2>2, <2>3
  <1>7. ASSUME NEW v \in Viewers, Load(v)
        PROVE  AllInSight'
    <2>1. DOMAIN store = 1..Len(store) /\ Len(store) \in Nat
      BY <1>0 DEF TypeOK
    <2>2. \A i \in DOMAIN store : store[i] \in {Recent(store)[j] : j \in DOMAIN store}
      <3>1. SUFFICES ASSUME NEW i \in DOMAIN store
                     PROVE  \E j \in DOMAIN store : Recent(store)[j] = store[i]
        OBVIOUS
      <3>2. Len(store) + 1 - i \in DOMAIN store /\ Len(store) + 1 - (Len(store) + 1 - i) = i
        BY <2>1
      <3>3. QED
        BY <3>2 DEF Recent
    <2>3. v \notin missed' => view'[v] = {Recent(store)[j] : j \in DOMAIN store}
      BY <1>0, <1>7 DEF Load, TypeOK
    <2>4. v \notin missed' => \A i \in DOMAIN store : \E x \in InSight(v)' : Tells(x, store[i])
      BY <2>2, <2>3 DEF InSight, Tells
    <2>5. QED
      BY <1>0, <1>6, <1>7, <2>4 DEF Load, TypeOK
  <1>8. ASSUME NEW v \in Viewers, Receive(v)
        PROVE  AllInSight'
    <2> DEFINE e == Head(queue[v])
    <2>1. /\ queue[v] \in Seq(Events) /\ queue[v] # <<>> /\ view[v] \in SUBSET Events
          /\ queue'[v] = Tail(queue[v]) /\ view'[v] = Merge(view[v], e)
          /\ pending' = pending
      BY <1>0, <1>8 DEF Receive, TypeOK
    <2>2. e \in Events
      BY <2>1
    <2>3. ASSUME vstate[v] # "off", v \notin missed, NEW i \in DOMAIN store
          PROVE  \E x \in InSight(v)' : Tells(x, store[i])
      <3>1. PICK x \in InSight(v) : Tells(x, store[i])
        BY <2>3 DEF AllInSight
      <3>2. x \in Events /\ store[i] \in Events
        BY <1>0, <2>3, <3>1 DEF InSight, TypeOK
      <3>3. CASE x \in view[v] \cup {e}
        <4>1. PICK y \in Merge(view[v], e) : Tells(y, x)
          BY <2>1, <2>2, <3>3, MergeTells
        <4>2. y \in Events
          BY <2>1, <2>2, <4>1 DEF Merge
        <4>3. Tells(y, store[i])
          BY <3>1, <3>2, <4>1, <4>2, TellsOn
        <4>4. QED
          BY <2>1, <4>1, <4>3 DEF InSight
      <3>4. CASE x \in {queue[v][j] : j \in DOMAIN queue[v]} /\ x # e
        <4>1. PICK j \in DOMAIN queue[v] : x = queue[v][j]
          BY <3>4
        <4>2. j # 1 /\ j \in 1..Len(queue[v]) /\ Len(queue[v]) \in Nat
          BY <2>1, <3>4, <4>1
        <4>3. j - 1 \in DOMAIN Tail(queue[v]) /\ Tail(queue[v])[j - 1] = x
          BY <2>1, <4>1, <4>2
        <4>4. QED
          BY <2>1, <3>1, <4>3 DEF InSight
      <3>5. CASE x \in UNION {pending[h] : h \in Hooks}
        BY <2>1, <3>1, <3>5 DEF InSight
      <3>6. QED
        BY <3>1, <3>3, <3>4, <3>5 DEF InSight
    <2>4. QED
      BY <1>0, <1>6, <1>8, <2>3 DEF Receive, TypeOK
  <1>9. ASSUME NEW v \in Viewers, Cut(v)
        PROVE  AllInSight'
    <2>1. v \notin missed' => queue[v] = <<>> /\ v \notin missed /\ queue'[v] = queue[v]
      BY <1>0, <1>9 DEF Cut, TypeOK
    <2>2. v \notin missed' => InSight(v)' = InSight(v)
      BY <1>9, <2>1 DEF Cut, InSight
    <2>3. v \notin missed' => \A i \in DOMAIN store : \E x \in InSight(v)' : Tells(x, store[i])
      BY <1>9, <2>1, <2>2 DEF Cut, AllInSight
    <2>4. QED
      BY <1>0, <1>6, <1>9, <2>3 DEF Cut, TypeOK
  <1>10. ASSUME NEW v \in Viewers, Open(v)
         PROVE  AllInSight'
    <2>1. InSight(v)' = InSight(v)
      BY <1>10 DEF Open, InSight
    <2>2. v \notin missed => \A i \in DOMAIN store : \E x \in InSight(v)' : Tells(x, store[i])
      BY <1>10, <2>1 DEF Open, AllInSight
    <2>3. QED
      BY <1>0, <1>6, <1>10, <2>2 DEF Open, TypeOK
  <1>11. ASSUME NEW v \in Viewers, Close(v)
         PROVE  AllInSight'
    <2>1. vstate'[v] = "off"
      BY <1>0, <1>11 DEF Close, TypeOK
    <2>2. QED
      BY <1>0, <1>6, <1>11, <2>1 DEF Close, TypeOK
  <1>12. QED
    BY <1>2, <1>3, <1>4, <1>5, <1>7, <1>8, <1>9, <1>10, <1>11 DEF Next

\* When the events of a stage have distinct timestamps, a tab that was sent all that
\* would have changed it agrees with the store once nothing is in flight, in whatever
\* order handlers broadcast (SystemDash.tsx:57-64, deploys.go:102-106).
THEOREM TabsAreCurrent == ASSUME DistinctTimes PROVE Spec => []TabsAgree
  <1>1. Init => OneNews /\ AllInSight
    BY DEF Init, OneNews, AllInSight
  <1>2. StoreIsKeyed /\ OneNews /\ AllInSight /\ [Next]_vars => (OneNews /\ AllInSight)'
    BY NewsStep, SightStep
  <1>3. AllInSight => TabsAgree
    <2>1. SUFFICES ASSUME AllInSight, NEW v \in Viewers, Settled(v), NEW i \in DOMAIN store
                   PROVE  \E x \in view[v] :
                            x.key = store[i].key /\ (x = store[i] \/ x.ts > store[i].ts)
      BY DEF TabsAgree
    <2>2. InSight(v) = view[v]
      BY <2>1 DEF Settled, InSight
    <2>3. QED
      BY <2>1, <2>2 DEF Settled, AllInSight, Tells
  <1>4. QED
    BY <1>1, <1>2, <1>3, StoreIsSound, PTL DEF Spec
===============================================================================
