------------------------------- MODULE LabLoad -------------------------------
(***************************************************************************)
(* GET /api/lab/loadtest of services/core (server/lab_load.go): a visitor  *)
(* starts a bounded load run and is streamed its histogram.                *)
(*                                                                         *)
(* The handler takes a global run slot (Add, then compare), a per-address  *)
(* single-flight key, derives a context that ends after s seconds, with    *)
(* the request, or with the server, starts `concurrency` workers and       *)
(* streams snapshots until the context ends or a write fails.  Its         *)
(* deferred calls then publish "done", cancel the context, delete the key  *)
(* and give the slot back, in that order.  Only the path through           *)
(* ctx.Done() waits for the workers.                                       *)
(*                                                                         *)
(* Each element of Requests is one request, from one address, with its     *)
(* number of workers already clamped.                                      *)
(***************************************************************************)
EXTENDS Naturals, FiniteSets

CONSTANTS
  Requests,
  AddrOf,     \* AddrOf[r]: middleware.ClientIP(r)
  WorkersOf,  \* WorkersOf[r]: c, clamped to [1, LoadMaxConcurrency]
  MaxRuns,    \* cfg.LoadMaxRuns
  MaxTotal    \* bound: requests one run records

ASSUME LoadAssumption ==
  /\ IsFiniteSet(Requests)
  /\ WorkersOf \in [Requests -> Nat \ {0}]
  /\ DOMAIN AddrOf = Requests
  /\ MaxRuns \in Nat /\ MaxTotal \in Nat

VARIABLES
  pc,          \* pc[r]: where r's handler is
  activeRuns,  \* the atomic counter
  inflight,    \* the per-address single-flight keys (sync.Map)
  cancelled,   \* requests whose run context has ended
  workers,     \* workers[r]: worker goroutines of r's run still running
  committed,   \* committed[r]: those past their ctx check, about to record
  total,       \* total[r]: h.total
  doneTotal,   \* doneTotal[r]: the total of the final "done" frame, as a set
  started,     \* requests whose "start" lab event was published
  finished     \* requests whose "done" lab event was published

vars == <<pc, activeRuns, inflight, cancelled, workers, committed, total,
          doneTotal, started, finished>>
runVars == <<workers, committed, total>>
logVars == <<doneTotal, started, finished>>

Counted  == {r \in Requests : pc[r] \notin {"idle", "enter", "gone"}}
Admitted == Counted \ {r \in Requests : pc[r] = "over"}
Running  == {r \in Requests : pc[r] \in {"start", "loop", "wait", "done", "cancel", "unlock"}}

Init ==
  /\ pc = [r \in Requests |-> "idle"]
  /\ activeRuns = 0
  /\ inflight = {}
  /\ cancelled = {}
  /\ workers = [r \in Requests |-> 0]
  /\ committed = [r \in Requests |-> 0]
  /\ total = [r \in Requests |-> 0]
  /\ doneTotal = [r \in Requests |-> {}]
  /\ started = {}
  /\ finished = {}

Goto(r, from, to) ==
  /\ pc[r] = from
  /\ pc' = [pc EXCEPT ![r] = to]

------------------------------------------------------------------------------
(* Admission.                                                              *)

Arrive(r) ==
  /\ Goto(r, "idle", "enter")
  /\ UNCHANGED <<activeRuns, inflight, cancelled, runVars, logVars>>

CapAdd(r) ==
  /\ activeRuns' = activeRuns + 1
  /\ Goto(r, "enter", IF activeRuns + 1 > MaxRuns THEN "over" ELSE "counted")
  /\ UNCHANGED <<inflight, cancelled, runVars, logVars>>

\* Mutant: the 503 path keeps the slot.
CapBackKeeps(r) ==
  /\ Goto(r, "over", "gone")
  /\ UNCHANGED <<activeRuns, inflight, cancelled, runVars, logVars>>

\* 503: the slot is given back.
CapBack(r) ==
  /\ Goto(r, "over", "gone")
  /\ activeRuns' = activeRuns - 1
  /\ UNCHANGED <<inflight, cancelled, runVars, logVars>>

\* Mutant: the deferred delete is registered before the check, so that the
\* refused request deletes the running request's key.
TakeKeyDeletes(r) ==
  /\ \/ /\ AddrOf[r] \notin inflight
        /\ Goto(r, "counted", "start")
        /\ inflight' = inflight \cup {AddrOf[r]}
     \/ /\ AddrOf[r] \in inflight
        /\ Goto(r, "counted", "leave")
        /\ inflight' = inflight \ {AddrOf[r]}
  /\ UNCHANGED <<activeRuns, cancelled, runVars, logVars>>

\* LoadOrStore: 409 if the address has a run, whose key is left alone.
TakeKey(r) ==
  /\ \/ /\ AddrOf[r] \notin inflight
        /\ Goto(r, "counted", "start")
        /\ inflight' = inflight \cup {AddrOf[r]}
     \/ /\ AddrOf[r] \in inflight
        /\ Goto(r, "counted", "leave")
        /\ UNCHANGED inflight
  /\ UNCHANGED <<activeRuns, cancelled, runVars, logVars>>

------------------------------------------------------------------------------
(* The run.                                                                *)

Start(r) ==
  /\ Goto(r, "start", "loop")
  /\ started' = started \cup {r}
  /\ workers' = [workers EXCEPT ![r] = WorkersOf[r]]
  /\ UNCHANGED <<activeRuns, inflight, cancelled, committed, total, doneTotal, finished>>

\* The duration has passed, the client disconnected, or the server is
\* shutting down (context.AfterFunc on srvCtx).
CtxEnds(r) ==
  /\ r \in Running
  /\ r \notin cancelled
  /\ cancelled' = cancelled \cup {r}
  /\ UNCHANGED <<pc, activeRuns, inflight, runVars, logVars>>

\* A worker's request returned and the worker saw ctx.Err() = nil: it will
\* record it, even if the context ends meanwhile.
WorkerCommit(r) ==
  /\ r \notin cancelled
  /\ committed[r] < workers[r]
  /\ total[r] + committed[r] < MaxTotal
  /\ committed' = [committed EXCEPT ![r] = @ + 1]
  /\ UNCHANGED <<pc, activeRuns, inflight, cancelled, workers, total, logVars>>

WorkerRecord(r) ==
  /\ committed[r] > 0
  /\ committed' = [committed EXCEPT ![r] = @ - 1]
  /\ total' = [total EXCEPT ![r] = @ + 1]
  /\ UNCHANGED <<pc, activeRuns, inflight, cancelled, workers, logVars>>

\* Mutant: a worker's request does not carry the context, so the worker goes on.
WorkerExitNever(r) ==
  /\ r \in cancelled
  /\ committed[r] < workers[r]
  /\ UNCHANGED vars

WorkerExit(r) ==
  /\ r \in cancelled
  /\ committed[r] < workers[r]
  /\ workers' = [workers EXCEPT ![r] = @ - 1]
  /\ UNCHANGED <<pc, activeRuns, inflight, cancelled, committed, total, logVars>>

------------------------------------------------------------------------------
(* The handler's select loop.                                              *)

\* Mutant: "done" is published by the ctx.Done() case only.
WriteFailsQuietly(r) ==
  /\ Goto(r, "loop", "cancel")
  /\ UNCHANGED <<activeRuns, inflight, cancelled, runVars, logVars>>

\* A snapshot frame that cannot be written ends the handler at once.
WriteFails(r) ==
  /\ Goto(r, "loop", "done")
  /\ UNCHANGED <<activeRuns, inflight, cancelled, runVars, logVars>>

CtxDone(r) ==
  /\ r \in cancelled
  /\ Goto(r, "loop", "wait")
  /\ UNCHANGED <<activeRuns, inflight, cancelled, runVars, logVars>>

\* Mutant: the done frame is sent without runWG.Wait().
JoinNoWait(r) ==
  /\ Goto(r, "wait", "done")
  /\ doneTotal' = [doneTotal EXCEPT ![r] = {total[r]}]
  /\ UNCHANGED <<activeRuns, inflight, cancelled, runVars, started, finished>>

\* runWG.Wait() returns; the final frame carries the total.
Join(r) ==
  /\ workers[r] = 0
  /\ Goto(r, "wait", "done")
  /\ doneTotal' = [doneTotal EXCEPT ![r] = {total[r]}]
  /\ UNCHANGED <<activeRuns, inflight, cancelled, runVars, started, finished>>

------------------------------------------------------------------------------
(* The deferred calls.                                                     *)

PublishDone(r) ==
  /\ Goto(r, "done", "cancel")
  /\ finished' = finished \cup {r}
  /\ UNCHANGED <<activeRuns, inflight, cancelled, runVars, doneTotal, started>>

Cancel(r) ==
  /\ Goto(r, "cancel", "unlock")
  /\ cancelled' = cancelled \cup {r}
  /\ UNCHANGED <<activeRuns, inflight, runVars, logVars>>

DropKey(r) ==
  /\ Goto(r, "unlock", "leave")
  /\ inflight' = inflight \ {AddrOf[r]}
  /\ UNCHANGED <<activeRuns, cancelled, runVars, logVars>>

Leave(r) ==
  /\ Goto(r, "leave", "gone")
  /\ activeRuns' = activeRuns - 1
  /\ UNCHANGED <<inflight, cancelled, runVars, logVars>>

------------------------------------------------------------------------------
Handler(r) ==
  \/ CapAdd(r) \/ CapBack(r) \/ TakeKey(r) \/ Start(r)
  \/ WriteFails(r) \/ CtxDone(r) \/ Join(r)
  \/ PublishDone(r) \/ Cancel(r) \/ DropKey(r) \/ Leave(r)

Worker(r) == WorkerCommit(r) \/ WorkerRecord(r) \/ WorkerExit(r)

Next == \E r \in Requests : Arrive(r) \/ CtxEnds(r) \/ Handler(r) \/ Worker(r)

Spec == Init /\ [][Next]_vars

(***************************************************************************)
(* Fairness.  The run context ends (its timeout fires), a goroutine that   *)
(* can run does, a worker whose context has ended leaves (its request      *)
(* carries the context), and select does not pass over a ready ctx.Done(). *)
(***************************************************************************)
FairSpec ==
  /\ Spec
  /\ \A r \in Requests :
       /\ WF_vars(CapAdd(r)) /\ WF_vars(CapBack(r)) /\ WF_vars(TakeKey(r))
       /\ WF_vars(Start(r)) /\ WF_vars(CtxEnds(r)) /\ WF_vars(CtxDone(r))
       /\ WF_vars(WorkerRecord(r)) /\ WF_vars(WorkerExit(r)) /\ WF_vars(Join(r))
       /\ WF_vars(PublishDone(r)) /\ WF_vars(Cancel(r))
       /\ WF_vars(DropKey(r)) /\ WF_vars(Leave(r))

------------------------------------------------------------------------------
(* Properties.                                                             *)

TypeOK ==
  /\ pc \in [Requests -> {"idle", "enter", "over", "counted", "start", "loop",
                          "wait", "done", "cancel", "unlock", "leave", "gone"}]
  /\ activeRuns \in Nat
  /\ inflight \in SUBSET {AddrOf[r] : r \in Requests}
  /\ cancelled \in SUBSET Requests
  /\ workers \in [Requests -> Nat]
  /\ committed \in [Requests -> Nat]
  /\ total \in [Requests -> Nat]
  /\ doneTotal \in [Requests -> SUBSET Nat]
  /\ started \in SUBSET Requests
  /\ finished \in SUBSET Requests

\* The counter is the number of handlers between Add(1) and Add(-1), also for
\* the 503 and the 409, and no more than LoadMaxRuns are past the cap
\* (lab_load.go:170-175).
RunAccounting ==
  /\ TypeOK
  /\ activeRuns = Cardinality(Counted)
  /\ Cardinality(Admitted) <= MaxRuns

\* An address has at most one handler past the single-flight check, and its
\* key is there exactly while that handler is (lab_load.go:177-182).
OnePerAddress ==
  /\ \A r, q \in Running : AddrOf[r] = AddrOf[q] => r = q
  /\ inflight = {AddrOf[r] : r \in Running}

\* The total of the "done" frame is final: no worker records after it
\* (lab_load.go:220-223).
DoneFrameIsFinal == \A r \in Requests : \A t \in doneTotal[r] : t = total[r]

\* A run's "done" lab event comes once, after its "start", on every path
\* (lab_load.go:205-211).
DoneFollowsStart ==
  /\ finished \subseteq started
  /\ \A r \in started : r \in finished <=> pc[r] \in {"cancel", "unlock", "leave", "gone"}

\* Every request ends, its run's workers too, and what it started is
\* announced as done (lab_load.go:110-112, 155-156).
RunsEnd ==
  \A r \in Requests :
    (pc[r] # "idle") ~> (pc[r] = "gone" /\ workers[r] = 0 /\ (r \in started => r \in finished))

\* "absolute ceiling 4 (global concurrent runs)" (config.go:36): no more than
\* LoadMaxRuns runs have workers hitting the target at once.
RunsUnderCeiling == Cardinality({r \in Requests : workers[r] > 0}) <= MaxRuns
==============================================================================
