---------------------------- MODULE LabLoadProofs ----------------------------
(***************************************************************************)
(* Proofs about LabLoad for any number of requests, addresses, workers and *)
(* run slots: typing, the run counter and its cap, the single-flight keys, *)
(* the final frame and the order of the two lab events of a run.           *)
(***************************************************************************)
EXTENDS LabLoad, FiniteSetTheorems, TLAPS

------------------------------------------------------------------------------
(* Runs: what a handler's place says about its run.                         *)

\* No run has been started yet.
Before == {"idle", "enter", "over", "counted", "start"}

\* The run was started, and its handler has not been through its deferred calls.
During == {"loop", "wait", "done", "cancel", "unlock"}

\* A worker that is about to record still runs; a request has workers and is
\* announced only once it is past Start; a handler sends its final frame after
\* its last worker has left, and is then on its way out.
Places ==
  /\ \A r \in Requests : committed[r] <= workers[r]
  /\ \A r \in Requests : pc[r] \in Before => workers[r] = 0 /\ r \notin started
  /\ \A r \in Requests : pc[r] \in During => r \in started
  /\ \A r \in Requests :
       doneTotal[r] # {} => workers[r] = 0 /\ pc[r] \notin Before \cup {"loop", "wait"}

RunInv == TypeOK /\ Places /\ DoneFrameIsFinal /\ DoneFollowsStart

\* At the start there is no run.
LEMMA RunInit == Init => RunInv
  BY DEF Init, RunInv, TypeOK, Places, Before, During, DoneFrameIsFinal, DoneFollowsStart

\* One step of a handler, a worker or a context keeps the types (the counter's is
\* CountStep's), the places, the final frame and the order of the events.
LEMMA RunStep ==
  ASSUME RunInv, activeRuns' \in Nat, [Next]_vars
  PROVE  RunInv'
  <1> USE DEF RunInv, TypeOK, Places, Before, During, DoneFrameIsFinal, DoneFollowsStart
  <1>1. CASE UNCHANGED vars
    BY <1>1 DEF vars
  <1>2. ASSUME NEW r \in Requests,
               Arrive(r) \/ CapAdd(r) \/ CapBack(r) \/ WriteFails(r) \/ CtxDone(r) \/ Leave(r)
        PROVE  RunInv'
    BY <1>2 DEF Arrive, CapAdd, CapBack, WriteFails, CtxDone, Leave, Goto, runVars, logVars
  <1>3. ASSUME NEW r \in Requests, TakeKey(r) \/ DropKey(r)
        PROVE  RunInv'
    <2>1. inflight' \in SUBSET {AddrOf[q] : q \in Requests}
      BY <1>3 DEF TakeKey, DropKey
    <2>2. QED
      BY <1>3, <2>1 DEF TakeKey, DropKey, Goto, runVars, logVars
  <1>4. ASSUME NEW r \in Requests, Start(r)
        PROVE  RunInv'
    <2>1. workers[r] = 0 /\ r \notin started /\ doneTotal[r] = {}
      BY <1>4 DEF Start, Goto
    <2>2. WorkersOf[r] \in Nat
      BY LoadAssumption
    <2>3. committed[r] <= WorkersOf[r]
      BY <2>1, <2>2
    <2>4. TypeOK'
      BY <1>4, <2>2 DEF Start, Goto
    <2>5. Places'
      BY <1>4, <2>1, <2>2, <2>3 DEF Start, Goto
    <2>6. DoneFrameIsFinal' /\ DoneFollowsStart'
      BY <1>4, <2>1 DEF Start, Goto
    <2>7. QED
      BY <2>4, <2>5, <2>6
  <1>5. ASSUME NEW r \in Requests, CtxEnds(r) \/ Cancel(r)
        PROVE  RunInv'
    BY <1>5 DEF CtxEnds, Cancel, Goto, runVars, logVars
  <1>6. ASSUME NEW r \in Requests, WorkerCommit(r)
        PROVE  RunInv'
    BY <1>6 DEF WorkerCommit, logVars
  <1>7. ASSUME NEW r \in Requests, WorkerRecord(r)
        PROVE  RunInv'
    <2>1. workers[r] # 0 /\ doneTotal[r] = {}
      BY <1>7 DEF WorkerRecord
    <2>2. QED
      BY <1>7, <2>1 DEF WorkerRecord, logVars
  <1>8. ASSUME NEW r \in Requests, WorkerExit(r)
        PROVE  RunInv'
    BY <1>8 DEF WorkerExit, logVars
  <1>9. ASSUME NEW r \in Requests, Join(r)
        PROVE  RunInv'
    BY <1>9 DEF Join, Goto, runVars
  <1>10. ASSUME NEW r \in Requests, PublishDone(r)
         PROVE  RunInv'
    BY <1>10 DEF PublishDone, Goto, runVars
  <1>11. QED
    BY <1>1, <1>2, <1>3, <1>4, <1>5, <1>6, <1>7, <1>8, <1>9, <1>10
    DEF Next, Handler, Worker

------------------------------------------------------------------------------
(* Slots.                                                                   *)

\* The sets that are counted are finite, and an admitted request is counted.
LEMMA CountedFinite ==
  /\ IsFiniteSet(Counted) /\ Cardinality(Counted) \in Nat
  /\ IsFiniteSet(Admitted) /\ Cardinality(Admitted) \in Nat
  /\ Admitted \subseteq Counted
  <1>1. Counted \subseteq Requests /\ Admitted \subseteq Counted
    BY DEF Counted, Admitted
  <1>2. IsFiniteSet(Counted)
    BY <1>1, FS_Subset, LoadAssumption
  <1>3. IsFiniteSet(Admitted)
    BY <1>1, <1>2, FS_Subset
  <1>4. QED
    BY <1>1, <1>2, <1>3, FS_CardinalityType

\* One step keeps the counter at the number of handlers between Add(1) and
\* Add(-1), and the admitted ones within the cap.
LEMMA CountStep ==
  ASSUME RunAccounting, [Next]_vars
  PROVE  /\ activeRuns' \in Nat
         /\ activeRuns' = Cardinality(Counted')
         /\ Cardinality(Admitted') <= MaxRuns
  <1> DEFINE Exact == /\ activeRuns' \in Nat
                      /\ activeRuns' = Cardinality(Counted')
                      /\ Cardinality(Admitted') <= MaxRuns
  <1> USE DEF RunAccounting, TypeOK
  <1>0. /\ IsFiniteSet(Counted) /\ Cardinality(Counted) \in Nat
        /\ IsFiniteSet(Admitted) /\ Cardinality(Admitted) \in Nat
        /\ Admitted \subseteq Counted
    BY CountedFinite
  <1>1. ASSUME activeRuns' = activeRuns, Counted' = Counted, Admitted' = Admitted
        PROVE  Exact
    BY <1>1
  <1>2. CASE UNCHANGED <<pc, activeRuns>>
    BY <1>1, <1>2 DEF Counted, Admitted
  <1>3. ASSUME NEW r \in Requests, NEW from, NEW to, Goto(r, from, to),
               from \notin {"idle", "enter", "over"}, to \notin {"idle", "enter", "over", "gone"},
               from # "gone", activeRuns' = activeRuns
        PROVE  Exact
    <2>1. Counted' = Counted /\ Admitted' = Admitted
      BY <1>3 DEF Goto, Counted, Admitted
    <2>2. QED
      BY <1>1, <1>3, <2>1
  <1>4. ASSUME NEW r \in Requests, Arrive(r)
        PROVE  Exact
    <2>1. Counted' = Counted /\ Admitted' = Admitted
      BY <1>4 DEF Arrive, Goto, Counted, Admitted
    <2>2. QED
      BY <1>1, <1>4, <2>1 DEF Arrive
  <1>5. ASSUME NEW r \in Requests, CapAdd(r)
        PROVE  Exact
    <2>1. r \notin Counted /\ Counted' = Counted \cup {r}
      BY <1>5 DEF CapAdd, Goto, Counted
    <2>2. Cardinality(Counted') = Cardinality(Counted) + 1
      BY <1>0, <2>1, FS_AddElement
    <2>3. activeRuns' = activeRuns + 1
      BY <1>5 DEF CapAdd
    <2>4. activeRuns' \in Nat /\ activeRuns' = Cardinality(Counted')
      BY <1>0, <2>2, <2>3
    <2>5. CASE activeRuns + 1 > MaxRuns
      <3>1. Admitted' = Admitted
        BY <1>5, <2>5 DEF CapAdd, Goto, Counted, Admitted
      <3>2. QED
        BY <2>4, <3>1
    <2>6. CASE ~(activeRuns + 1 > MaxRuns)
      <3>1. Admitted' = Admitted \cup {r} /\ r \notin Admitted
        BY <1>5, <2>6 DEF CapAdd, Goto, Counted, Admitted
      <3>2. Cardinality(Admitted') = Cardinality(Admitted) + 1
        BY <1>0, <3>1, FS_AddElement
      <3>3. Cardinality(Admitted) <= Cardinality(Counted)
        BY <1>0, FS_Subset
      <3>4. QED
        BY <1>0, <2>4, <2>6, <3>2, <3>3, LoadAssumption
    <2>7. QED
      BY <2>5, <2>6
  <1>6. ASSUME NEW r \in Requests, CapBack(r)
        PROVE  Exact
    <2>1. r \in Counted /\ Counted' = Counted \ {r} /\ Admitted' = Admitted
      BY <1>6 DEF CapBack, Goto, Counted, Admitted
    <2>2. Cardinality(Counted') = Cardinality(Counted) - 1 /\ Cardinality(Counted') \in Nat
      BY <1>0, <2>1, FS_RemoveElement, FS_CardinalityType
    <2>3. activeRuns' = activeRuns - 1
      BY <1>6 DEF CapBack
    <2>4. QED
      BY <1>0, <2>1, <2>2, <2>3
  <1>7. ASSUME NEW r \in Requests, Leave(r)
        PROVE  Exact
    <2>1. /\ r \in Counted /\ Counted' = Counted \ {r}
          /\ r \in Admitted /\ Admitted' = Admitted \ {r}
      BY <1>7 DEF Leave, Goto, Counted, Admitted
    <2>2. /\ Cardinality(Counted') = Cardinality(Counted) - 1
          /\ Cardinality(Counted') \in Nat
          /\ Cardinality(Admitted') = Cardinality(Admitted) - 1
      BY <1>0, <2>1, FS_RemoveElement, FS_CardinalityType
    <2>3. activeRuns' = activeRuns - 1
      BY <1>7 DEF Leave
    <2>4. QED
      BY <1>0, <2>2, <2>3, LoadAssumption
  <1>8. ASSUME NEW r \in Requests,
               \/ TakeKey(r) \/ Start(r) \/ WriteFails(r) \/ CtxDone(r) \/ Join(r)
               \/ PublishDone(r) \/ Cancel(r) \/ DropKey(r)
        PROVE  Exact
    BY <1>3, <1>8 DEF TakeKey, Start, WriteFails, CtxDone, Join, PublishDone, Cancel, DropKey
  <1>9. ASSUME NEW r \in Requests, CtxEnds(r) \/ Worker(r)
        PROVE  UNCHANGED <<pc, activeRuns>>
    BY <1>9 DEF CtxEnds, Worker, WorkerCommit, WorkerRecord, WorkerExit
  <1>10. QED
    BY <1>2, <1>4, <1>5, <1>6, <1>7, <1>8, <1>9 DEF Next, Handler, vars

\* At the start no request is counted.
LEMMA CountInit == Init => RunAccounting
  <1> SUFFICES ASSUME Init PROVE RunAccounting
    OBVIOUS
  <1>1. Counted = {} /\ Admitted = {}
    BY DEF Init, Counted, Admitted
  <1>2. Cardinality(Counted) = 0 /\ Cardinality(Admitted) = 0
    BY <1>1, FS_EmptySet
  <1>3. QED
    BY <1>2, LoadAssumption DEF Init, RunAccounting, TypeOK

------------------------------------------------------------------------------
(* Keys.                                                                    *)

\* One step keeps one running handler per address, and its key with it.
LEMMA KeyStep ==
  ASSUME TypeOK, OnePerAddress, [Next]_vars
  PROVE  OnePerAddress'
  <1> USE DEF TypeOK, OnePerAddress
  <1>1. ASSUME Running' = Running, inflight' = inflight
        PROVE  OnePerAddress'
    BY <1>1
  <1>2. CASE UNCHANGED <<pc, inflight>>
    BY <1>1, <1>2 DEF Running
  <1>3. ASSUME NEW r \in Requests,
               \/ Arrive(r) \/ CapAdd(r) \/ CapBack(r) \/ Start(r) \/ WriteFails(r)
               \/ CtxDone(r) \/ Join(r) \/ PublishDone(r) \/ Cancel(r) \/ Leave(r)
        PROVE  OnePerAddress'
    <2>1. Running' = Running
      BY <1>3 DEF Arrive, CapAdd, CapBack, Start, WriteFails, CtxDone, Join, PublishDone,
                  Cancel, Leave, Goto, Running
    <2>2. inflight' = inflight
      BY <1>3 DEF Arrive, CapAdd, CapBack, Start, WriteFails, CtxDone, Join, PublishDone,
                  Cancel, Leave
    <2>3. QED
      BY <1>1, <2>1, <2>2
  <1>4. ASSUME NEW r \in Requests, TakeKey(r)
        PROVE  OnePerAddress'
    <2>1. CASE AddrOf[r] \notin inflight
      <3>1. Running' = Running \cup {r} /\ inflight' = inflight \cup {AddrOf[r]}
        BY <1>4, <2>1 DEF TakeKey, Goto, Running
      <3>2. \A q \in Running : AddrOf[q] # AddrOf[r]
        BY <2>1
      <3>3. QED
        BY <3>1, <3>2
    <2>2. CASE AddrOf[r] \in inflight
      <3>1. Running' = Running /\ inflight' = inflight
        BY <1>4, <2>2 DEF TakeKey, Goto, Running
      <3>2. QED
        BY <1>1, <3>1
    <2>3. QED
      BY <2>1, <2>2
  <1>5. ASSUME NEW r \in Requests, DropKey(r)
        PROVE  OnePerAddress'
    <2>1. /\ r \in Running /\ Running' = Running \ {r}
          /\ inflight' = inflight \ {AddrOf[r]}
      BY <1>5 DEF DropKey, Goto, Running
    <2>2. QED
      BY <2>1
  <1>6. ASSUME NEW r \in Requests, CtxEnds(r) \/ Worker(r)
        PROVE  UNCHANGED <<pc, inflight>>
    BY <1>6 DEF CtxEnds, Worker, WorkerCommit, WorkerRecord, WorkerExit
  <1>7. QED
    BY <1>2, <1>3, <1>4, <1>5, <1>6 DEF Next, Handler, vars

------------------------------------------------------------------------------
(* Theorems.                                                                *)

\* In every behaviour the variables are well typed, the counter is the number of
\* handlers between Add(1) and Add(-1), on every way out, and at most MaxRuns are
\* past the cap (lab_load.go:170-175).
THEOREM RunsAreCounted == Spec => []RunAccounting
  <1>1. Init => RunAccounting /\ RunInv
    BY CountInit, RunInit
  <1>2. RunAccounting /\ RunInv /\ [Next]_vars => (RunAccounting /\ RunInv)'
    BY CountStep, RunStep DEF RunAccounting, RunInv
  <1>3. QED
    BY <1>1, <1>2, PTL DEF Spec

LEMMA RunInvariance == Spec => []RunInv
  <1>1. Init => RunAccounting /\ RunInv
    BY CountInit, RunInit
  <1>2. RunAccounting /\ RunInv /\ [Next]_vars => (RunAccounting /\ RunInv)'
    BY CountStep, RunStep DEF RunAccounting, RunInv
  <1>3. QED
    BY <1>1, <1>2, PTL DEF Spec

\* In every behaviour the final frame of a run holds the total that the run keeps:
\* no worker records after it (lab_load.go:220-223).
THEOREM FinalFrameIsFinal == Spec => []DoneFrameIsFinal
  BY RunInvariance, PTL DEF RunInv

\* In every behaviour "done" follows "start" once, on every path out of a run
\* (lab_load.go:205-211).
THEOREM RunsAreReported == Spec => []DoneFollowsStart
  BY RunInvariance, PTL DEF RunInv

\* In every behaviour an address has at most one handler past the single-flight
\* check, and its key exactly while that handler is there (lab_load.go:177-182).
THEOREM KeysAreExact == Spec => []OnePerAddress
  <1>1. Init => OnePerAddress
    BY DEF Init, OnePerAddress, Running
  <1>2. TypeOK /\ OnePerAddress /\ [Next]_vars => OnePerAddress'
    BY KeyStep
  <1>3. Spec => []TypeOK
    BY RunsAreCounted, PTL DEF RunAccounting
  <1>4. QED
    BY <1>1, <1>2, <1>3, PTL DEF Spec
==============================================================================
