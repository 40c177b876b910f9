------------------------------ MODULE DeployFeed ------------------------------
(***************************************************************************)
(* The deploy feed: the signed webhook and its in-memory store in          *)
(* services/core (server/deploys.go), the SSE broadcast, and the browser's *)
(* merge of what it is sent into the list it was rendered with             *)
(* (apps/web SystemDash.tsx).                                              *)
(*                                                                         *)
(* Each CI pipeline posts events with curl; events may be repeated, late   *)
(* or out of order, and several webhook handlers may run at once.  A       *)
(* handler changes the store under its mutex (HookAdd) and broadcasts      *)
(* after releasing it (HookPublish), so broadcasts may leave in another    *)
(* order than the store changed.  The hub is the one EventStream proves    *)
(* to implement Broadcast: here a publish is one step.                     *)
(*                                                                         *)
(* An event is [key, status, ts]: key stands for (sha, stage).  Requests   *)
(* refused with 503, 401 or 400 change nothing and are left out, as is the *)
(* subject text, and the time a handler gives an event that has none: the  *)
(* pipelines always send theirs (.github/workflows).                       *)
(***************************************************************************)
EXTENDS Naturals, Sequences, FiniteSets

CONSTANTS
  Events,       \* the events CI may post
  Hooks,        \* concurrent webhook handlers
  Viewers,      \* browser tabs on the dashboard
  MaxDeploys,   \* maxDeploys (24)
  ChanCap,      \* a subscriber's channel buffer (8)
  MaxHooks,     \* bound: webhook calls in a behaviour
  MaxRestarts   \* bound: core restarts in a behaviour

ASSUME FeedAssumption ==
  /\ \A e \in Events : DOMAIN e = {"key", "status", "ts"} /\ e.ts \in Nat
  /\ MaxDeploys \in Nat \ {0} /\ ChanCap \in Nat \ {0}
  /\ MaxHooks \in Nat /\ MaxRestarts \in Nat

VARIABLES
  store,     \* deployStore.events, oldest first
  pending,   \* pending[h]: the changed event h has still to publish (a set)
  vstate,    \* vstate[v]: "off", "loaded" (rendered), "live", "cut"
  view,      \* view[v]: the tab's deployEvents, as a set
  queue,     \* queue[v]: the deploy frames on their way to v
  missed,    \* tabs that were not sent an event that would have changed them
  applied,   \* history: events accepted for keys that are still listed
  delivered, \* history: events posted for keys that are still listed
  calls,     \* webhook calls so far
  restarts   \* restarts of core so far

vars == <<store, pending, vstate, view, queue, missed, applied, delivered, calls, restarts>>

Keys == {e.key : e \in Events}

Init ==
  /\ store = <<>>
  /\ pending = [h \in Hooks |-> {}]
  /\ vstate = [v \in Viewers |-> "off"]
  /\ view = [v \in Viewers |-> {}]
  /\ queue = [v \in Viewers |-> <<>>]
  /\ missed = {}
  /\ applied = {}
  /\ delivered = {}
  /\ calls = 0
  /\ restarts = 0

------------------------------------------------------------------------------
(* deployStore.add, as the new list and whether it changed.                *)

\* Mutant: a status change is stored as an entry of its own.
IndexOfStatus(s, e) == {i \in DOMAIN s : s[i].key = e.key /\ s[i].status = e.status}

\* The index of the entry for e's (sha, stage); add scans for the first.
IndexOf(s, e) == {i \in DOMAIN s : s[i].key = e.key}

\* Keep the newest MaxDeploys entries.
TrimTail(s) ==
  IF Len(s) > MaxDeploys THEN SubSeq(s, Len(s) - MaxDeploys + 1, Len(s)) ELSE s

\* Mutant: the strictly-older guard is missing.
AcceptsAnyTime(s, e) ==
  \A i \in IndexOf(s, e) : s[i].status # e.status

\* Mutant: a repeated event counts as a change.
AcceptsRepeats(s, e) ==
  \A i \in IndexOf(s, e) : e.ts >= s[i].ts

\* Strictly older, or no change of status: not accepted.
Accepts(s, e) ==
  \A i \in IndexOf(s, e) : e.ts >= s[i].ts /\ s[i].status # e.status

\* An entry is updated in place; a new one goes to the end.
Stored(s, e) ==
  IF IndexOf(s, e) # {}
  THEN [i \in DOMAIN s |-> IF i \in IndexOf(s, e) THEN e ELSE s[i]]
  ELSE TrimTail(Append(s, e))

\* recent: the entries, last appended first.
Recent(s) == [i \in DOMAIN s |-> s[Len(s) + 1 - i]]

------------------------------------------------------------------------------
(* mergeDeploy: the tab's list after one more event.                       *)

\* Mutant: the newcomer always replaces the entry.
MergeAlways(list, e) == {x \in list : x.key # e.key} \cup {e}

Merge(list, e) ==
  IF \E x \in list : x.key = e.key /\ (e.ts < x.ts \/ x = e)
  THEN list
  ELSE {x \in list : x.key # e.key} \cup {e}

------------------------------------------------------------------------------
(* The webhook.                                                            *)

Listed(s, es) == {e \in es : \E i \in DOMAIN s : s[i].key = e.key}

\* An authenticated, well-formed event: store.add, one critical section.
HookAdd(h, e) ==
  /\ calls < MaxHooks
  /\ calls' = calls + 1
  /\ pending[h] = {}
  /\ \/ /\ Accepts(store, e)
        /\ store' = Stored(store, e)
        /\ pending' = [pending EXCEPT ![h] = {e}]
        /\ applied' = Listed(store', applied \cup {e})
     \/ /\ ~Accepts(store, e)
        /\ UNCHANGED <<store, pending, applied>>
  /\ delivered' = Listed(store', delivered \cup {e})
  /\ UNCHANGED <<vstate, view, queue, missed, restarts>>

\* Tabs that are rendered but not subscribed do not get the frame, and a
\* full channel drops it.
Reached == {v \in Viewers : vstate[v] = "live" /\ Len(queue[v]) < ChanCap}

HookPublish(h) ==
  \E e \in pending[h] :
    /\ pending' = [pending EXCEPT ![h] = {}]
    /\ queue' = [v \in Viewers |->
                   IF v \in Reached THEN Append(queue[v], e) ELSE queue[v]]
    /\ missed' = missed \cup {v \in Viewers \ Reached :
                                vstate[v] # "off" /\ Merge(view[v], e) # view[v]}
    /\ UNCHANGED <<store, vstate, view, applied, delivered, calls, restarts>>

\* The process restarts (a core deploy): the store and the handlers go, the
\* streams break.
Restart ==
  /\ restarts < MaxRestarts
  /\ restarts' = restarts + 1
  /\ store' = <<>>
  /\ applied' = {}
  /\ delivered' = {}
  /\ pending' = [h \in Hooks |-> {}]
  /\ vstate' = [v \in Viewers |-> IF vstate[v] = "live" THEN "cut" ELSE vstate[v]]
  /\ missed' = missed \cup {v \in Viewers : queue[v] # <<>>}
  /\ queue' = [v \in Viewers |-> <<>>]
  /\ UNCHANGED <<view, calls>>

------------------------------------------------------------------------------
(* The tab.                                                                *)

\* The page is rendered with the list of GET /api/deploys, or with none if
\* core does not answer within 1.5 s.
Load(v) ==
  /\ vstate[v] = "off"
  /\ vstate' = [vstate EXCEPT ![v] = "loaded"]
  /\ \/ /\ view' = [view EXCEPT ![v] = {Recent(store)[i] : i \in DOMAIN store}]
        /\ UNCHANGED missed
     \/ /\ missed' = missed \cup {v}
        /\ UNCHANGED view
  /\ UNCHANGED <<store, pending, queue, applied, delivered, calls, restarts>>

\* openStream, the first time or after the link was cut: nothing is refetched.
Open(v) ==
  /\ vstate[v] \in {"loaded", "cut"}
  /\ vstate' = [vstate EXCEPT ![v] = "live"]
  /\ UNCHANGED <<store, pending, view, queue, missed, applied, delivered, calls, restarts>>

Receive(v) ==
  /\ vstate[v] = "live"
  /\ queue[v] # <<>>
  /\ view' = [view EXCEPT ![v] = Merge(@, Head(queue[v]))]
  /\ queue' = [queue EXCEPT ![v] = Tail(@)]
  /\ UNCHANGED <<store, pending, vstate, missed, applied, delivered, calls, restarts>>

\* The link breaks: what was buffered for the tab is gone.
Cut(v) ==
  /\ vstate[v] = "live"
  /\ vstate' = [vstate EXCEPT ![v] = "cut"]
  /\ missed' = IF queue[v] = <<>> THEN missed ELSE missed \cup {v}
  /\ queue' = [queue EXCEPT ![v] = <<>>]
  /\ UNCHANGED <<store, pending, view, applied, delivered, calls, restarts>>

\* The tab is closed (the effect's cleanup closes the stream).
Close(v) ==
  /\ vstate[v] # "off"
  /\ vstate' = [vstate EXCEPT ![v] = "off"]
  /\ view' = [view EXCEPT ![v] = {}]
  /\ queue' = [queue EXCEPT ![v] = <<>>]
  /\ missed' = missed \ {v}
  /\ UNCHANGED <<store, pending, applied, delivered, calls, restarts>>

------------------------------------------------------------------------------
Next ==
  \/ \E h \in Hooks : HookPublish(h) \/ \E e \in Events : HookAdd(h, e)
  \/ \E v \in Viewers : Load(v) \/ Open(v) \/ Receive(v) \/ Cut(v) \/ Close(v)
  \/ Restart

Spec == Init /\ [][Next]_vars

------------------------------------------------------------------------------
(* Properties.                                                             *)

TypeOK ==
  /\ store \in Seq(Events)
  /\ pending \in [Hooks -> SUBSET Events]
  /\ vstate \in [Viewers -> {"off", "loaded", "live", "cut"}]
  /\ view \in [Viewers -> SUBSET Events]
  /\ queue \in [Viewers -> Seq(Events)]
  /\ \A v \in Viewers : Len(queue[v]) <= ChanCap
  /\ missed \in SUBSET Viewers
  /\ applied \in SUBSET Events
  /\ delivered \in SUBSET Events
  /\ calls \in Nat
  /\ restarts \in Nat

\* One entry per (sha, stage), in a list that never outgrows its bound
\* (deploys.go:26, 56-58).
StoreIsKeyed ==
  /\ TypeOK
  /\ Len(store) <= MaxDeploys
  /\ \A i, j \in DOMAIN store : store[i].key = store[j].key => i = j

\* While a stage stays listed, its timestamp never goes back, whatever the
\* order, repetition or concurrency of the webhook calls (deploys.go:41-43).
\* (A restart empties the list.)
StageTs(s, k) == {s[i].ts : i \in {j \in DOMAIN s : s[j].key = k}}

StageNeverRegresses ==
  [][\A k \in Keys : \A t \in StageTs(store, k), u \in StageTs(store', k) : u >= t]_store

\* An event that was accepted and is posted again, while its stage is still
\* listed, changes nothing and broadcasts nothing (deploys.go:26).
ReplaySafe ==
  [][\A h \in Hooks, e \in applied :
       calls' = calls + 1 /\ HookAdd(h, e) => UNCHANGED <<store, pending>>]_vars

\* A tab that was sent every event that would have changed it agrees with the
\* store once nothing is in flight, although broadcasts leave in another order
\* than the store changed; it may know a newer state of a stage that core
\* dropped and was told of again (SystemDash.tsx:57-64, deploys.go:102-106).
Settled(v) ==
  /\ vstate[v] = "live" /\ v \notin missed /\ queue[v] = <<>>
  /\ \A h \in Hooks : pending[h] = {}

TabsAgree ==
  \A v \in Viewers : Settled(v) =>
    \A i \in DOMAIN store :
      \E x \in view[v] : x.key = store[i].key /\ (x = store[i] \/ x.ts > store[i].ts)

\* "strictly-older replay - must not regress the stage" (deploys.go:42): an
\* event older than one already posted for its stage does not change it.
StaleChangesNothing ==
  [][\A h \in Hooks, e \in Events :
       /\ pending[h] = {} /\ pending'[h] = {e}
       => \A d \in delivered : d.key = e.key => e.ts >= d.ts]_vars
==============================================================================
