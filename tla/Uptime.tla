------------------------------- MODULE Uptime -------------------------------
(***************************************************************************)
(* The uptime monitor of services/core (server/uptime.go): a background    *)
(* loop that probes its targets in rounds, keeps a bounded ring of samples *)
(* per target and a bounded log of incidents, and serves a snapshot.       *)
(*                                                                         *)
(* A round starts one goroutine per target; each writes its own slot, and  *)
(* once all of them are done the round is folded into the shared state     *)
(* under m.mu, one target after the other.  snapshot() takes the same      *)
(* mutex, so what it reports is a function of one state (Status,           *)
(* incidents) in which no fold is under way.  The process's SIGTERM        *)
(* context is the parent of every probe's: a probe it cuts off writes      *)
(* "down", and the round is folded all the same.                           *)
(*                                                                         *)
(* The world is `alive`: whether a probe sent now would get a 2xx or 3xx   *)
(* within its three seconds.  Latencies are left out.  The state is in     *)
(* memory only: a restart begins at Init.                                  *)
(***************************************************************************)
EXTENDS Integers, Sequences, FiniteSets

CONSTANTS
  Probes,        \* m.probes: the targets' names, in order
  Self,          \* those of kind "self"
  RingCap,       \* uptimeRingCap
  MinSamples,    \* uptimeMinSamples
  MaxIncidents,  \* maxIncidents
  WallClock,     \* WallClock[i]: the wall clock when round i is folded, in seconds
  MaxRounds      \* bound: rounds in a behaviour

Targets == {Probes[i] : i \in 1..Len(Probes)}

ASSUME UptimeAssumption ==
  /\ Probes \in Seq(Targets) /\ Probes # <<>>
  /\ \A i, j \in 1..Len(Probes) : Probes[i] = Probes[j] => i = j
  /\ Self \subseteq Targets
  /\ RingCap \in Nat /\ MinSamples \in 1..RingCap
  /\ MaxIncidents \in Nat \ {0}
  /\ WallClock \in [1..MaxRounds -> Int]

VARIABLES
  alive,     \* the targets that would answer a probe now
  ctxDone,   \* SIGTERM was received
  pc,        \* the loop: "probing", "folding", "select" or "returned"
  due,       \* a tick waits in the ticker's channel (capacity 1)
  left,      \* probe goroutines of this round that have not finished
  results,   \* results[t]: the up flag in t's slot
  next,      \* the fold's loop index: the next probe to apply, from 1
  samples,   \* samples[t]: t's ring
  last,      \* last[t]: the last observed up flag
  seen,      \* the targets observed at least once
  incidents, \* the incident log
  rounds,    \* history: every round that was complete, its time and its results
  wasUp,     \* history: the targets alive at some moment of this round
  wasDown    \* history: those that were not

world == <<alive, wasUp, wasDown>>
book == <<samples, last, seen, incidents>>  \* what m.mu protects
vars == <<world, ctxDone, pc, due, left, results, next, book, rounds>>

\* Incident.End and DurationS are pointers: {} is nil, {v} points to v.  Both
\* are nil while an incident is ongoing.
Ongoing(in) == in.end = {}

Init ==
  /\ alive \in {A \in SUBSET Targets : Self \subseteq A}
  /\ wasUp = alive /\ wasDown = Targets \ alive
  /\ ctxDone = FALSE
  /\ pc = "probing"  \* Run ticks at once
  /\ due = FALSE
  /\ left = Targets
  /\ results = [t \in Targets |-> FALSE]
  /\ next = 1
  /\ samples = [t \in Targets |-> <<>>]
  /\ last = [t \in Targets |-> FALSE]
  /\ seen = {}
  /\ incidents = <<>>
  /\ rounds = <<>>

------------------------------------------------------------------------------
(* The fold.                                                               *)

\* s[len(s)-n:], when s is longer than n.
LastN(s, n) == SubSeq(s, IF Len(s) > n THEN Len(s) - n + 1 ELSE 1, Len(s))

\* Mutant: the log is not trimmed.
OpenIncidentUncapped(t, time) ==
  Append(incidents, [target |-> t, start |-> time, end |-> {}, durationS |-> {}])

OpenIncident(t, time) ==
  LastN(Append(incidents, [target |-> t, start |-> time, end |-> {}, durationS |-> {}]),
        MaxIncidents)

IsOpen(j, t) == incidents[j].target = t /\ Ongoing(incidents[j])

\* Mutant: the newest ongoing incident is closed, whosever it is.
LastOpenOfAny(t) ==
  {j \in 1..Len(incidents) :
     /\ Ongoing(incidents[j])
     /\ \A i \in 1..Len(incidents) : i > j => ~Ongoing(incidents[i])}

\* The newest ongoing incident of t, if there is one: it may be gone, evicted
\* by others.
LastOpen(t) ==
  {j \in 1..Len(incidents) :
     IsOpen(j, t) /\ \A i \in 1..Len(incidents) : i > j => ~IsOpen(i, t)}

Duration(start, end) == IF end < start THEN 0 ELSE end - start

CloseIncident(t, time) ==
  [j \in 1..Len(incidents) |->
     IF j \notin LastOpen(t) THEN incidents[j]
     ELSE [target |-> t, start |-> incidents[j].start,
           end |-> {time}, durationS |-> {Duration(incidents[j].start, time)}]]

\* Mutant: an incident is opened for every "down", not for a transition.
LogAfterEachDown(t, up, time) ==
  IF ~up THEN OpenIncident(t, time)
  ELSE IF t \in seen /\ ~last[t] THEN CloseIncident(t, time)
  ELSE incidents

\* The transitions: a first observation that is "down", up to down, and down
\* to up.
LogAfter(t, up, time) ==
  IF ~up /\ (t \notin seen \/ last[t]) THEN OpenIncident(t, time)
  ELSE IF up /\ t \in seen /\ ~last[t] THEN CloseIncident(t, time)
  ELSE incidents

ApplyResult(t, up, time) ==
  /\ samples' = [samples EXCEPT ![t] = LastN(Append(@, [ts |-> time, up |-> up]), RingCap)]
  /\ last' = [last EXCEPT ![t] = up]
  /\ seen' = seen \cup {t}
  /\ incidents' = LogAfter(t, up, time)

------------------------------------------------------------------------------
(* The loop.                                                               *)

\* Mutant: a probe waits for its answer for ever.
ProbeOneNoTimeout(t) ==
  /\ pc = "probing" /\ t \in left
  /\ t \in alive
  /\ results' = [results EXCEPT ![t] = TRUE]
  /\ left' = left \ {t}
  /\ UNCHANGED <<world, ctxDone, pc, due, next, book, rounds>>

\* A probe goroutine finishes: "self" is up, the request is answered, it fails
\* or times out, or the context ends before the answer is there.
ProbeOne(t) ==
  /\ pc = "probing" /\ t \in left
  /\ \E up \in BOOLEAN :
       /\ up => t \in alive
       /\ ~up => t \notin Self /\ (t \notin alive \/ ctxDone)
       /\ results' = [results EXCEPT ![t] = up]
  /\ left' = left \ {t}
  /\ UNCHANGED <<world, ctxDone, pc, due, next, book, rounds>>

\* Mutant: the round is folded without wg.Wait().
LockEarly ==
  /\ pc = "probing"
  /\ rounds' = Append(rounds, [time |-> WallClock[Len(rounds) + 1], up |-> results])
  /\ next' = 1
  /\ pc' = "folding"
  /\ UNCHANGED <<world, ctxDone, due, left, results, book>>

\* wg.Wait() returns, the clock is read and m.mu is locked.
Lock ==
  /\ pc = "probing" /\ left = {}
  /\ rounds' = Append(rounds, [time |-> WallClock[Len(rounds) + 1], up |-> results])
  /\ next' = 1
  /\ pc' = "folding"
  /\ UNCHANGED <<world, ctxDone, due, left, results, book>>

\* One result is applied, in the order of the probes; after the last one m.mu
\* is unlocked and the loop goes to its select.
FoldNext ==
  /\ pc = "folding"
  /\ ApplyResult(Probes[next], results[Probes[next]], rounds[Len(rounds)].time)
  /\ next' = next + 1
  /\ pc' = IF next = Len(Probes) THEN "select" ELSE "folding"
  /\ UNCHANGED <<world, ctxDone, due, left, results, rounds>>

\* The ticker exists once the first round is over; it drops a tick that finds
\* its channel full.
TickerFires ==
  /\ pc # "returned" /\ ~due
  /\ Len(rounds) > 1 \/ pc = "select"
  /\ due' = TRUE
  /\ UNCHANGED <<world, ctxDone, pc, left, results, next, book, rounds>>

\* case <-t.C: the next round, with slots of its own.  select may take it
\* although the context has ended.
StartRound ==
  /\ pc = "select" /\ due
  /\ Len(rounds) < MaxRounds
  /\ due' = FALSE
  /\ pc' = "probing"
  /\ left' = Targets
  /\ results' = [t \in Targets |-> FALSE]
  /\ wasUp' = alive /\ wasDown' = Targets \ alive
  /\ UNCHANGED <<alive, ctxDone, next, book, rounds>>

\* case <-ctx.Done().
Return ==
  /\ pc = "select" /\ ctxDone
  /\ pc' = "returned"
  /\ UNCHANGED <<world, ctxDone, due, left, results, next, book, rounds>>

\* SIGTERM: main's context ends.
Shutdown ==
  /\ ~ctxDone
  /\ ctxDone' = TRUE
  /\ UNCHANGED <<world, pc, due, left, results, next, book, rounds>>

\* A target goes away or comes back: between two rounds, or before its probe
\* is over.
Flip(t) ==
  /\ t \notin Self
  /\ pc = "select" \/ (pc = "probing" /\ t \in left)
  /\ alive' = IF t \in alive THEN alive \ {t} ELSE alive \cup {t}
  /\ wasUp' = IF pc = "probing" THEN wasUp \cup alive' ELSE wasUp
  /\ wasDown' = IF pc = "probing" THEN wasDown \cup (Targets \ alive') ELSE wasDown
  /\ UNCHANGED <<ctxDone, pc, due, left, results, next, book, rounds>>

Loop == (\E t \in Targets : ProbeOne(t)) \/ Lock \/ FoldNext \/ StartRound \/ Return

Next == Loop \/ TickerFires \/ Shutdown \/ \E t \in Targets : Flip(t)

Spec == Init /\ [][Next]_vars

(***************************************************************************)
(* Fairness.  Goroutines that can run do, every probe has a timeout, and   *)
(* select does not pass over a ready ctx.Done() for ever.  Nothing is      *)
(* assumed of the ticker, the targets or SIGTERM.                          *)
(***************************************************************************)
FairSpec ==
  /\ Spec
  /\ \A t \in Targets : WF_vars(ProbeOne(t))
  /\ WF_vars(Lock) /\ WF_vars(FoldNext)
  /\ SF_vars(Return)

------------------------------------------------------------------------------
(* Properties.                                                             *)

\* Types, and the bounds of the rings and of the incident log.
TypeOK ==
  /\ alive \in SUBSET Targets /\ wasUp \in SUBSET Targets /\ wasDown \in SUBSET Targets
  /\ ctxDone \in BOOLEAN /\ due \in BOOLEAN
  /\ pc \in {"probing", "folding", "select", "returned"}
  /\ left \in SUBSET Targets
  /\ results \in [Targets -> BOOLEAN]
  /\ next \in 1..(Len(Probes) + 1)
  /\ last \in [Targets -> BOOLEAN]
  /\ seen \in SUBSET Targets
  /\ \A t \in Targets : Len(samples[t]) <= RingCap
  /\ Len(incidents) <= MaxIncidents

(* What the rounds say, with no reference to the fold.                     *)

Up(i, k) == rounds[i].up[Probes[k]]

\* The rounds in which target Probes[k] has been applied: all of them, except
\* that a fold under way may not have reached it.
Heard(k) == IF pc = "folding" /\ k >= next THEN Len(rounds) - 1 ELSE Len(rounds)

\* It goes down in round i: it is the first round, or the target was up in the
\* one before.
GoesDown(i, k) == i <= Heard(k) /\ ~Up(i, k) /\ (i > 1 => Up(i - 1, k))

\* All such moments <<i, k>>, and those after s: rounds in order, and the
\* targets of one round in the order of the probes.
Downs == {s \in (1..Len(rounds)) \X (1..Len(Probes)) : GoesDown(s[1], s[2])}
After(s) == {u \in Downs : s[1] < u[1] \/ (s[1] = u[1] /\ s[2] < u[2])}

\* The first round after i that finds the target up, if there is one.
Recovery(i, k) ==
  {j \in (i + 1)..Heard(k) : Up(j, k) /\ \A m \in (i + 1)..(j - 1) : ~Up(m, k)}

\* The outage that begins at s lasts until that round.
Outage(s) ==
  LET start == rounds[s[1]].time
      ends  == {rounds[j].time : j \in Recovery(s[1], s[2])}
  IN  [target |-> Probes[s[2]], start |-> start, end |-> ends,
       durationS |-> {Duration(start, e) : e \in ends}]

\* The incident log is the outages of all rounds, the latest MaxIncidents of
\* them: none is invented, missed, doubled, put under another target or closed
\* by another's recovery, also when an ongoing one is evicted before its
\* target comes back (uptime.go:130-172).
LogMatches ==
  /\ Len(incidents) = IF Cardinality(Downs) > MaxIncidents THEN MaxIncidents
                      ELSE Cardinality(Downs)
  /\ \A s \in Downs : LET n == Cardinality(After(s))
                     IN  n < MaxIncidents => incidents[Len(incidents) - n] = Outage(s)

\* Each ring holds the latest samples of its target.
RingsMatch ==
  \A k \in 1..Len(Probes) :
    LET ring == samples[Probes[k]]
    IN  /\ Len(ring) = IF Heard(k) > RingCap THEN RingCap ELSE Heard(k)
        /\ \A n \in 0..(Len(ring) - 1) :
             ring[Len(ring) - n] = [ts |-> rounds[Heard(k) - n].time, up |-> Up(Heard(k) - n, k)]

\* The log and the rings say what the rounds say, no more and no less, at every
\* step of a fold (uptime.go:119-172).
LogIsOutages == LogMatches /\ RingsMatch

\* A sample tells of its own round: "up" only if the target could have
\* answered while it ran, "down" only if it could not or the probe was cut off
\* by SIGTERM (uptime.go:103-114).
SamplesAreCurrent ==
  pc \in {"folding", "select"} =>
    \A t \in Targets :
      LET up == rounds[Len(rounds)].up[t]
      IN  /\ up => t \in wasUp
          /\ ~up => t \in wasDown \/ (ctxDone /\ t \notin Self)

\* snapshot(): the status of a target.
Status(t) ==
  LET n == Len(samples[t])
  IN  CASE n < MinSamples -> "collecting"
        [] n >= MinSamples /\ samples[t][n].up -> "up"
        [] OTHER -> "down"

\* One snapshot does not contradict itself: a target shown as "up" has no
\* ongoing incident, one shown as "down" has exactly one, or none if the log is
\* full and has evicted it (uptime.go:211-272).
PanelCoherent ==
  pc # "folding" =>
    \A t \in Targets :
      LET open == {j \in 1..Len(incidents) : IsOpen(j, t)}
      IN  /\ Status(t) = "up" => open = {}
          /\ Status(t) = "down" => \/ Cardinality(open) = 1
                                   \/ open = {} /\ Len(incidents) = MaxIncidents

\* After SIGTERM the loop returns, whatever the targets do (uptime.go:77-94).
MonitorReturns == ctxDone ~> (pc = "returned")
=============================================================================
