-------------------------- MODULE EventStreamProofs --------------------------
(***************************************************************************)
(* Proofs about EventStream for any number of clients and publishers, any  *)
(* cap and any channel buffer: typing, the slot counter and the cap, the   *)
(* hub's mutual exclusion, no send on a closed channel, no silent loss,    *)
(* and the implementation of Broadcast.                                    *)
(***************************************************************************)
EXTENDS EventStream, FiniteSetTheorems, TLAPS

\* Counting requests: what one handler's step does to the sets.
SlotInv == TypeOK /\ SlotAccounting /\ CapHolds

\* The sets that are counted are finite, and an admitted request is counted.
LEMMA CountedFinite ==
  /\ IsFiniteSet(Counted) /\ Cardinality(Counted) \in Nat
  /\ IsFiniteSet(Admitted) /\ Cardinality(Admitted) \in Nat
  /\ Admitted \subseteq Counted
  <1>1. Counted \subseteq Clients /\ Admitted \subseteq Counted
    BY DEF Counted, Admitted
  <1>2. IsFiniteSet(Counted)
    BY <1>1, FS_Subset, StreamAssumption
  <1>3. IsFiniteSet(Admitted)
    BY <1>1, <1>2, FS_Subset
  <1>4. QED
    BY <1>1, <1>2, <1>3, FS_CardinalityType

\* A step that moves one handler between counted program points, or moves
\* none, leaves both sets as they were.
LEMMA SameCounts ==
  ASSUME TypeOK, NEW c \in Clients, NEW from, NEW to,
         Goto(c, from, to),
         from \notin {"idle", "enter", "over"},
         to \notin {"idle", "enter", "over"}
  PROVE  Counted' = Counted /\ Admitted' = Admitted
  BY DEF TypeOK, Goto, Counted, Admitted

\* The counter is the number of counted handlers, and the cap holds (with
\* the typing the count depends on): one step of any actor keeps all three.
LEMMA SlotStep ==
  ASSUME SlotInv, [Next]_vars
  PROVE  SlotAccounting' /\ CapHolds' /\ active' \in Nat
  <1> USE DEF SlotInv
  <1>0. /\ IsFiniteSet(Counted) /\ Cardinality(Counted) \in Nat
        /\ IsFiniteSet(Admitted) /\ Cardinality(Admitted) \in Nat
        /\ Admitted \subseteq Counted
    BY CountedFinite
  <1>1. CASE UNCHANGED <<pc, active>>
    <2>1. Counted' = Counted /\ Admitted' = Admitted
      BY <1>1 DEF Counted, Admitted
    <2>2. QED
      BY <1>1, <2>1 DEF SlotAccounting, CapHolds, TypeOK
  <1>2. ASSUME NEW c \in Clients, NEW from, NEW to, Goto(c, from, to),
               from \notin {"idle", "enter", "over"},
               to \notin {"idle", "enter", "over"}, active' = active
        PROVE  SlotAccounting' /\ CapHolds' /\ active' \in Nat
    <2>1. Counted' = Counted /\ Admitted' = Admitted
      BY <1>2, SameCounts
    <2>2. QED
      BY <1>2, <2>1 DEF SlotAccounting, CapHolds, TypeOK
  <1>3. ASSUME NEW c \in Clients, Arrive(c)
        PROVE  SlotAccounting' /\ CapHolds' /\ active' \in Nat
    <2>1. Counted' = Counted /\ Admitted' = Admitted
      BY <1>3 DEF Arrive, Goto, Counted, Admitted, TypeOK
    <2>2. QED
      BY <1>3, <2>1 DEF Arrive, SlotAccounting, CapHolds, TypeOK
  <1>4. ASSUME NEW c \in Clients, CapAdd(c)
        PROVE  SlotAccounting' /\ CapHolds' /\ active' \in Nat
    <2>1. c \notin Counted /\ Counted' = Counted \cup {c}
      BY <1>4 DEF CapAdd, Goto, Counted, TypeOK
    <2>2. Cardinality(Counted') = Cardinality(Counted) + 1
      BY <1>0, <2>1, FS_AddElement
    <2>3. active' = active + 1
      BY <1>4 DEF CapAdd
    <2>4. SlotAccounting' /\ active' \in Nat
      BY <1>0, <2>2, <2>3 DEF SlotAccounting, TypeOK
    <2>5. CASE active + 1 > MaxStreams
      <3>1. Admitted' = Admitted
        BY <1>4, <2>5 DEF CapAdd, Goto, Admitted, TypeOK
      <3>2. QED
        BY <2>4, <3>1 DEF CapHolds
    <2>6. CASE ~(active + 1 > MaxStreams)
      <3>1. Admitted' = Admitted \cup {c} /\ c \notin Admitted
        BY <1>4, <2>6 DEF CapAdd, Goto, Admitted, TypeOK
      <3>2. Cardinality(Admitted') = Cardinality(Admitted) + 1
        BY <1>0, <3>1, FS_AddElement
      <3>3. Cardinality(Admitted) <= Cardinality(Counted)
        BY <1>0, FS_Subset
      <3>4. QED
        BY <1>0, <2>4, <2>6, <3>2, <3>3, StreamAssumption
        DEF SlotAccounting, CapHolds, TypeOK
    <2>7. QED
      BY <2>5, <2>6
  <1>5. ASSUME NEW c \in Clients, CapBack(c)
        PROVE  SlotAccounting' /\ CapHolds' /\ active' \in Nat
    <2>1. c \in Counted /\ Counted' = Counted \ {c}
      BY <1>5 DEF CapBack, Goto, Counted, TypeOK
    <2>2. Admitted' = Admitted
      BY <1>5 DEF CapBack, Goto, Admitted, TypeOK
    <2>3. Cardinality(Counted') = Cardinality(Counted) - 1 /\ Cardinality(Counted') \in Nat
      BY <1>0, <2>1, FS_RemoveElement, FS_CardinalityType
    <2>4. active' = active - 1
      BY <1>5 DEF CapBack
    <2>5. QED
      BY <1>0, <2>2, <2>3, <2>4 DEF SlotAccounting, CapHolds
  <1>6. ASSUME NEW c \in Clients, Leave(c)
        PROVE  SlotAccounting' /\ CapHolds' /\ active' \in Nat
    <2>1. /\ c \in Counted /\ Counted' = Counted \ {c}
          /\ c \in Admitted /\ Admitted' = Admitted \ {c}
      BY <1>6 DEF Leave, Goto, Counted, Admitted, TypeOK
    <2>2. /\ Cardinality(Counted') = Cardinality(Counted) - 1
          /\ Cardinality(Counted') \in Nat
          /\ Cardinality(Admitted') = Cardinality(Admitted) - 1
      BY <1>0, <2>1, FS_RemoveElement, FS_CardinalityType
    <2>3. active' = active - 1
      BY <1>6 DEF Leave
    <2>4. QED
      BY <1>0, <2>2, <2>3, StreamAssumption DEF SlotAccounting, CapHolds
  <1>7. ASSUME NEW c \in Clients, Handler(c)
        PROVE  SlotAccounting' /\ CapHolds' /\ active' \in Nat
    <2>1. CASE Subscribe(c)
      BY <2>1, <1>2 DEF Subscribe
    <2>2. CASE WriteOk(c)
      BY <2>2, <1>2 DEF WriteOk
    <2>3. CASE WriteFail(c)
      BY <2>3, <1>2 DEF WriteFail
    <2>4. CASE Tick(c)
      BY <2>4, <1>2 DEF Tick
    <2>5. CASE Recv(c)
      BY <2>5, <1>2 DEF Recv
    <2>6. CASE CtxDone(c)
      BY <2>6, <1>2 DEF CtxDone
    <2>7. CASE SrvDone(c)
      BY <2>7, <1>2 DEF SrvDone
    <2>8. CASE Unsubscribe(c)
      BY <2>8, <1>2 DEF Unsubscribe
    <2>9. QED
      BY <1>4, <1>5, <1>6, <1>7, <2>1, <2>2, <2>3, <2>4, <2>5, <2>6, <2>7, <2>8
      DEF Handler
  <1>8. ASSUME NEW p \in Publishers, Publisher(p)
        PROVE  UNCHANGED <<pc, active>>
    BY <1>8 DEF Publisher, PubCall, PubLock, PubSend, PubUnlock, handlerVars
  <1>9. CASE Environment
    <2>1. CASE SigTerm \/ CloseListener
      BY <1>1, <2>1 DEF SigTerm, CloseListener, handlerVars
    <2>2. ASSUME NEW c \in Clients, Disconnect(c) PROVE UNCHANGED <<pc, active>>
      BY <2>2 DEF Disconnect
    <2>3. QED
      BY <1>1, <1>3, <1>9, <2>1, <2>2 DEF Environment
  <1>10. QED
    BY <1>1, <1>7, <1>8, <1>9 DEF Next, vars, handlerVars

------------------------------------------------------------------------------
(* Typing.                                                                  *)

\* One step of any actor keeps the types; the counter's is SlotStep's.
LEMMA TypeStep ==
  ASSUME TypeOK, active' \in Nat, [Next]_vars
  PROVE  TypeOK'
  <1> USE DEF TypeOK
  <1>1. ASSUME NEW c \in Clients, Handler(c)
        PROVE  TypeOK'
    <2> USE DEF Goto, feedVars, pubVars
    <2>1. CASE CapAdd(c)
      BY <2>1 DEF CapAdd
    <2>2. CASE CapBack(c)
      BY <2>2 DEF CapBack
    <2>3. CASE Subscribe(c)
      BY <2>3 DEF Subscribe
    <2>4. CASE WriteOk(c)
      BY <2>4 DEF WriteOk
    <2>5. CASE WriteFail(c)
      BY <2>5 DEF WriteFail
    <2>6. CASE Tick(c)
      BY <2>6 DEF Tick
    <2>7. CASE Recv(c)
      BY <2>7 DEF Recv
    <2>8. CASE CtxDone(c)
      BY <2>8 DEF CtxDone
    <2>9. CASE SrvDone(c)
      BY <2>9 DEF SrvDone
    <2>10. CASE Unsubscribe(c)
      BY <2>10 DEF Unsubscribe
    <2>11. CASE Leave(c)
      BY <2>11 DEF Leave
    <2>12. QED
      BY <1>1, <2>1, <2>2, <2>3, <2>4, <2>5, <2>6, <2>7, <2>8, <2>9, <2>10, <2>11
      DEF Handler
  <1>2. ASSUME NEW p \in Publishers, Publisher(p)
        PROVE  TypeOK'
    <2> USE DEF handlerVars, feedVars
    <2>1. CASE PubCall(p)
      BY <2>1 DEF PubCall
    <2>2. CASE PubLock(p)
      BY <2>2 DEF PubLock
    <2>3. ASSUME NEW c \in Clients, PubSend(p, c) PROVE TypeOK'
      <3>1. chan' \in [Clients -> Seq(Nat)] /\ lost' \in [Clients -> Nat]
        <4>1. CASE Len(chan[c]) < ChanCap /\ chan' = [chan EXCEPT ![c] = Append(@, cur[p])]
                   /\ UNCHANGED lost
          <5>1. Append(chan[c], cur[p]) \in Seq(Nat)
            OBVIOUS
          <5>2. QED
            BY <4>1, <5>1
        <4>2. CASE lost' = [lost EXCEPT ![c] = @ + 1] /\ UNCHANGED chan
          BY <4>2
        <4>3. QED
          BY <2>3, <4>1, <4>2 DEF PubSend
      <3>2. QED
        BY <2>3, <3>1 DEF PubSend
    <2>4. CASE PubUnlock(p)
      BY <2>4 DEF PubUnlock
    <2>5. QED
      BY <1>2, <2>1, <2>2, <2>3, <2>4 DEF Publisher
  <1>3. CASE Environment
    <2> USE DEF feedVars, pubVars, handlerVars
    <2>1. CASE SigTerm \/ CloseListener
      BY <2>1 DEF SigTerm, CloseListener
    <2>2. ASSUME NEW c \in Clients, Arrive(c) PROVE TypeOK'
      BY <2>2 DEF Arrive, Goto
    <2>3. ASSUME NEW c \in Clients, Disconnect(c) PROVE TypeOK'
      BY <2>3 DEF Disconnect
    <2>4. QED
      BY <1>3, <2>1, <2>2, <2>3 DEF Environment
  <1>4. CASE UNCHANGED vars
    BY <1>4 DEF vars, handlerVars, feedVars, pubVars
  <1>5. QED
    BY <1>1, <1>2, <1>3, <1>4 DEF Next

\* At the start no request is counted.
LEMMA SlotInit == Init => SlotInv
  <1> SUFFICES ASSUME Init PROVE SlotInv
    OBVIOUS
  <1>1. Counted = {} /\ Admitted = {}
    BY DEF Init, Counted, Admitted
  <1>2. Cardinality(Counted) = 0 /\ Cardinality(Admitted) = 0
    BY <1>1, FS_EmptySet
  <1>3. TypeOK
    BY DEF Init, TypeOK
  <1>4. QED
    BY <1>2, <1>3, StreamAssumption DEF Init, SlotInv, SlotAccounting, CapHolds

LEMMA SlotInvariance == Spec => []SlotInv
  <1>1. Init => SlotInv
    BY SlotInit
  <1>2. SlotInv /\ [Next]_vars => SlotInv'
    BY SlotStep, TypeStep DEF SlotInv
  <1>3. QED
    BY <1>1, <1>2, PTL DEF Spec

\* In every behaviour the variables are well typed: a publisher's message is one it
\* has drawn, a channel holds no more than its buffer.
THEOREM StreamsAreTyped == Spec => []TypeOK
  BY SlotInvariance, PTL DEF SlotInv

\* In every behaviour the atomic counter is the number of requests between their
\* Add(1) and Add(-1), on every return path (stream.go:29-34).
THEOREM SlotsAreSound == Spec => []SlotAccounting
  BY SlotInvariance, PTL DEF SlotInv

\* In every behaviour at most MaxStreams requests are streaming, although the
\* comparison follows the increment (stream.go:29-33).
THEOREM CapIsKept == Spec => []CapHolds
  BY SlotInvariance, PTL DEF SlotInv

------------------------------------------------------------------------------
(* The hub: mutual exclusion, and what the channels hold.                   *)

\* Only the holder of hub.mu has subscribers left to range over.
MuExclusive ==
  \A p, q \in Publishers : ppc[p] = "send" /\ ppc[q] = "send" => p = q

RangeUnderMu == \A p \in Publishers : ppc[p] # "send" => todo[p] = {}

\* A channel that is not registered is empty and has no history.
ClosedIsEmpty ==
  \A c \in Clients : c \notin subs =>
    chan[c] = <<>> /\ taken[c] = <<>> /\ since[c] = 0 /\ lost[c] = 0

HubInv ==
  /\ TypeOK
  /\ NoLeakedSubscriber
  /\ MuExclusive
  /\ RangeUnderMu
  /\ NoSendOnClosed
  /\ ClosedIsEmpty

LEMMA HubInit == Init => HubInv
  BY DEF Init, HubInv, TypeOK, NoLeakedSubscriber, Subscribed, MuExclusive,
         RangeUnderMu, NoSendOnClosed, ClosedIsEmpty

\* Every step keeps the hub's invariant: the channels change hands only under
\* hub.mu, so a publisher never ranges over one that is being closed.
LEMMA HubStep ==
  ASSUME HubInv, TypeOK', [Next]_vars
  PROVE  HubInv'
  <1> USE DEF HubInv, TypeOK, NoLeakedSubscriber, Subscribed, MuExclusive,
              RangeUnderMu, NoSendOnClosed, ClosedIsEmpty
  <1>1. ASSUME NEW c \in Clients, Handler(c)
        PROVE  HubInv'
    <2> USE DEF Goto, feedVars, pubVars
    <2>1. CASE CapAdd(c)
      BY <2>1 DEF CapAdd
    <2>2. CASE CapBack(c)
      BY <2>2 DEF CapBack
    <2>3. CASE Subscribe(c)
      BY <2>3 DEF Subscribe, MuFree
    <2>4. CASE WriteOk(c)
      BY <2>4 DEF WriteOk
    <2>5. CASE WriteFail(c)
      BY <2>5 DEF WriteFail
    <2>6. CASE Tick(c)
      BY <2>6 DEF Tick
    <2>7. CASE Recv(c)
      BY <2>7 DEF Recv
    <2>8. CASE CtxDone(c)
      BY <2>8 DEF CtxDone
    <2>9. CASE SrvDone(c)
      BY <2>9 DEF SrvDone
    <2>10. CASE Unsubscribe(c)
      BY <2>10 DEF Unsubscribe, MuFree
    <2>11. CASE Leave(c)
      BY <2>11 DEF Leave
    <2>12. QED
      BY <1>1, <2>1, <2>2, <2>3, <2>4, <2>5, <2>6, <2>7, <2>8, <2>9, <2>10, <2>11
      DEF Handler
  <1>2. ASSUME NEW p \in Publishers, Publisher(p)
        PROVE  HubInv'
    <2> USE DEF handlerVars, feedVars
    <2>1. CASE PubCall(p)
      BY <2>1 DEF PubCall
    <2>2. CASE PubLock(p)
      BY <2>2 DEF PubLock, MuFree
    <2>3. ASSUME NEW c \in Clients, PubSend(p, c) PROVE HubInv'
      BY <2>3 DEF PubSend
    <2>4. CASE PubUnlock(p)
      BY <2>4 DEF PubUnlock
    <2>5. QED
      BY <1>2, <2>1, <2>2, <2>3, <2>4 DEF Publisher
  <1>3. CASE Environment
    <2> USE DEF feedVars, pubVars, handlerVars
    <2>1. CASE SigTerm \/ CloseListener
      BY <2>1 DEF SigTerm, CloseListener
    <2>2. ASSUME NEW c \in Clients, Arrive(c) PROVE HubInv'
      BY <2>2 DEF Arrive, Goto
    <2>3. ASSUME NEW c \in Clients, Disconnect(c) PROVE HubInv'
      BY <2>3 DEF Disconnect
    <2>4. QED
      BY <1>3, <2>1, <2>2, <2>3 DEF Environment
  <1>4. CASE UNCHANGED vars
    BY <1>4 DEF vars, handlerVars, feedVars, pubVars
  <1>5. QED
    BY <1>1, <1>2, <1>3, <1>4 DEF Next

LEMMA HubInvariance == Spec => [](SlotInv /\ HubInv)
  <1> DEFINE Inv == SlotInv /\ HubInv
  <1>1. Init => Inv
    BY SlotInit, HubInit
  <1>2. Inv /\ [Next]_vars => Inv'
    BY SlotStep, TypeStep, HubStep DEF SlotInv
  <1>3. QED
    BY <1>1, <1>2, PTL DEF Spec

\* The hub never sends on a closed channel: the deletion and the close are one
\* critical section, and so is a publisher's range (hub.go:30-52).
THEOREM HubIsSound == Spec => []NoSendOnClosed
  BY HubInvariance, PTL DEF HubInv

\* The hub holds exactly the channels of the running streams, whichever way a
\* handler returned (hub.go:30-36, stream.go:36-38).
THEOREM SubscribersAreExact == Spec => []NoLeakedSubscriber
  BY HubInvariance, PTL DEF HubInv

------------------------------------------------------------------------------
(* No silent loss.                                                          *)

\* hub.mu lets at most one publisher owe a message to a subscriber.
LEMMA OneOrNone ==
  ASSUME NEW S, \A p, q \in S : p = q
  PROVE  Cardinality(S) = IF S = {} THEN 0 ELSE 1
  <1>1. CASE S = {}
    BY <1>1, FS_EmptySet
  <1>2. CASE S # {}
    <2>1. PICK p : p \in S
      BY <1>2
    <2>2. S = {p}
      BY <2>1
    <2>3. QED
      BY <1>2, <2>2, FS_Singleton
  <1>3. QED
    BY <1>1, <1>2

\* What one subscriber is owed, as a number the solver can add.
Owed(c) == IF \E p \in Publishers : c \in todo[p] THEN 1 ELSE 0

LEMMA OwedIsPending ==
  ASSUME HubInv, NEW c
  PROVE  Cardinality(Pending(c)) = Owed(c)
  <1>1. \A p, q \in Pending(c) : p = q
    BY DEF Pending, HubInv, RangeUnderMu, MuExclusive
  <1>2. Cardinality(Pending(c)) = IF Pending(c) = {} THEN 0 ELSE 1
    BY <1>1, OneOrNone
  <1>3. QED
    BY <1>2 DEF Pending, Owed

Balance(c) == since[c] + Len(taken[c]) + Len(chan[c]) + lost[c] + Owed(c) = published

LossInv == \A c \in subs : Balance(c)

LEMMA LossIsBalance == HubInv => (LossInv <=> NoSilentLoss)
  BY OwedIsPending DEF LossInv, Balance, NoSilentLoss

\* One step moves a message along its way, or records the drop, and never
\* does anything else to a subscriber's account.
LEMMA LossStep ==
  ASSUME HubInv, HubInv', LossInv, [Next]_vars
  PROVE  LossInv'
  <1> SUFFICES ASSUME NEW d \in subs' PROVE Balance(d)'
    BY DEF LossInv
  <1> USE DEF HubInv, TypeOK
  <1>0. d \in Clients
    OBVIOUS
  <1>1. CASE UNCHANGED <<feedVars, todo, published>>
    BY <1>1 DEF LossInv, Balance, Owed, feedVars
  <1>2. ASSUME NEW c \in Clients, Subscribe(c)
        PROVE  Balance(d)'
    <2>1. CASE d = c
      <3>1. c \notin subs
        BY <1>2 DEF Subscribe, Goto, NoLeakedSubscriber, Subscribed
      <3>2. chan[c] = <<>> /\ taken[c] = <<>> /\ lost[c] = 0 /\ Owed(c) = 0
        BY <3>1 DEF ClosedIsEmpty, NoSendOnClosed, Owed
      <3>3. QED
        BY <1>2, <2>1, <3>2 DEF Subscribe, pubVars, Balance, Owed
    <2>2. CASE d # c
      BY <1>2, <2>2 DEF Subscribe, pubVars, LossInv, Balance, Owed
    <2>3. QED
      BY <2>1, <2>2
  <1>3. ASSUME NEW c \in Clients, Recv(c)
        PROVE  Balance(d)'
    <2>1. CASE d = c
      <3>1. Len(Tail(chan[c])) = Len(chan[c]) - 1 /\ Len(chan[c]) \in Nat
        BY <1>3 DEF Recv
      <3>2. Len(Append(taken[c], Head(chan[c]))) = Len(taken[c]) + 1
        BY <1>3 DEF Recv
      <3>3. /\ Len(chan'[c]) = Len(chan[c]) - 1
            /\ Len(taken'[c]) = Len(taken[c]) + 1
        BY <1>3, <3>1, <3>2 DEF Recv
      <3>4. Balance(c)
        BY <1>3, <2>1 DEF Recv, LossInv
      <3>5. UNCHANGED <<since, lost, todo, published>>
        BY <1>3 DEF Recv, pubVars
      <3>6. QED
        BY <2>1, <3>1, <3>3, <3>4, <3>5 DEF Balance, Owed
    <2>2. CASE d # c
      BY <1>3, <2>2 DEF Recv, pubVars, LossInv, Balance, Owed
    <2>3. QED
      BY <2>1, <2>2
  <1>4. ASSUME NEW c \in Clients, Unsubscribe(c)
        PROVE  Balance(d)'
    BY <1>4 DEF Unsubscribe, pubVars, LossInv, Balance, Owed
  <1>5. ASSUME NEW c \in Clients, Handler(c)
        PROVE  Balance(d)'
    <2>1. CASE Subscribe(c) \/ Recv(c) \/ Unsubscribe(c)
      BY <1>2, <1>3, <1>4, <2>1
    <2>2. CASE ~(Subscribe(c) \/ Recv(c) \/ Unsubscribe(c))
      BY <1>1, <1>5, <2>2
      DEF Handler, CapAdd, CapBack, WriteOk, WriteFail, Tick, CtxDone, SrvDone,
          Leave, pubVars
    <2>3. QED
      BY <2>1, <2>2
  <1>6. ASSUME NEW p \in Publishers, PubLock(p)
        PROVE  Balance(d)'
    <2>1. Owed(d) = 0
      BY <1>6 DEF PubLock, MuFree, RangeUnderMu, Owed
    <2>2. Owed(d)' = 1
      BY <1>6 DEF PubLock, feedVars, Owed
    <2>3. Balance(d) /\ published' = published + 1 /\ UNCHANGED feedVars
      BY <1>6 DEF PubLock, LossInv, feedVars
    <2>4. QED
      BY <2>1, <2>2, <2>3 DEF Balance, feedVars
  <1>7. ASSUME NEW p \in Publishers, NEW c \in Clients, PubSend(p, c)
        PROVE  Balance(d)'
    <2>1. CASE d = c
      <3>1. Owed(c) = 1
        BY <1>7 DEF PubSend, Owed
      <3>2. Owed(c)' = 0
        BY <1>7 DEF PubSend, Owed, RangeUnderMu, MuExclusive
      <3>3. Len(Append(chan[c], cur[p])) = Len(chan[c]) + 1 /\ Len(chan[c]) \in Nat
        OBVIOUS
      <3>4. Balance(c) /\ UNCHANGED <<since, taken, published, subs>>
        BY <1>7, <2>1 DEF PubSend, LossInv
      <3>5. \/ Len(chan'[c]) = Len(chan[c]) + 1 /\ UNCHANGED lost
            \/ lost'[c] = lost[c] + 1 /\ UNCHANGED chan
        BY <1>7, <3>3 DEF PubSend
      <3>6. Len(taken[c]) \in Nat /\ since[c] \in Nat /\ lost[c] \in Nat
        OBVIOUS
      <3>7. CASE Len(chan'[c]) = Len(chan[c]) + 1 /\ UNCHANGED lost
        BY <2>1, <3>1, <3>2, <3>3, <3>4, <3>6, <3>7 DEF Balance
      <3>8. CASE lost'[c] = lost[c] + 1 /\ UNCHANGED chan
        BY <2>1, <3>1, <3>2, <3>3, <3>4, <3>6, <3>8 DEF Balance
      <3>9. QED
        BY <3>5, <3>7, <3>8
    <2>2. CASE d # c
      BY <1>7, <2>2 DEF PubSend, LossInv, Balance, Owed
    <2>3. QED
      BY <2>1, <2>2
  <1>8. ASSUME NEW p \in Publishers, Publisher(p)
        PROVE  Balance(d)'
    BY <1>1, <1>6, <1>7, <1>8 DEF Publisher, PubCall, PubUnlock
  <1>9. CASE Environment
    BY <1>1, <1>9
    DEF Environment, SigTerm, CloseListener, Arrive, Disconnect, feedVars, pubVars
  <1>10. CASE UNCHANGED vars
    BY <1>1, <1>10 DEF vars, pubVars
  <1>11. QED
    BY <1>5, <1>8, <1>9, <1>10 DEF Next

\* For every subscriber the messages published since it joined are all
\* accounted for: taken, buffered, owed, or dropped by a full channel
\* (hub.go:22-28, 43-52).
THEOREM NothingIsLostSilently == Spec => []NoSilentLoss
  <1> DEFINE Inv == SlotInv /\ HubInv /\ LossInv
  <1>1. Init => Inv
    <2>1. Init => LossInv
      BY DEF Init, LossInv
    <2>2. QED
      BY <2>1, SlotInit, HubInit
  <1>2. Inv /\ [Next]_vars => Inv'
    BY SlotStep, TypeStep, HubStep, LossStep DEF SlotInv
  <1>3. Inv => NoSilentLoss
    BY LossIsBalance
  <1>4. QED
    BY <1>1, <1>2, <1>3, PTL DEF Spec

------------------------------------------------------------------------------
(* The hub implements Broadcast.                                            *)

\* What waits for c is newer than what c was given, older than what is being
\* sent to it, and in the order of publication.
Queued(c) ==
  /\ Given(c) <= published
  /\ \A i \in 1..Len(chan[c]) : Given(c) < chan[c][i] /\ chan[c][i] <= published
  /\ \A i, j \in 1..Len(chan[c]) : i < j => chan[c][i] < chan[c][j]
  /\ \A p \in Publishers : c \in todo[p] =>
       /\ cur[p] = published
       /\ Given(c) < cur[p]
       /\ \A i \in 1..Len(chan[c]) : chan[c][i] < cur[p]

OrderInv == \A c \in subs : Queued(c)

LEMMA OrderStep ==
  ASSUME HubInv, HubInv', OrderInv, [Next]_vars
  PROVE  OrderInv'
  <1> SUFFICES ASSUME NEW d \in subs' PROVE Queued(d)'
    BY DEF OrderInv
  <1> USE DEF HubInv, TypeOK
  <1>0. d \in Clients
    OBVIOUS
  <1>1. CASE UNCHANGED <<feedVars, todo, cur, published>>
    BY <1>1 DEF OrderInv, Queued, Given, feedVars
  <1>2. ASSUME NEW c \in Clients, Subscribe(c)
        PROVE  Queued(d)'
    <2>1. CASE d = c
      <3>1. c \notin subs
        BY <1>2 DEF Subscribe, Goto, NoLeakedSubscriber, Subscribed
      <3>2. chan[c] = <<>> /\ taken[c] = <<>> /\ \A p \in Publishers : c \notin todo[p]
        BY <3>1 DEF ClosedIsEmpty, NoSendOnClosed
      <3>3. QED
        BY <1>2, <2>1, <3>2 DEF Subscribe, pubVars, Queued, Given
    <2>2. CASE d # c
      BY <1>2, <2>2 DEF Subscribe, pubVars, OrderInv, Queued, Given
    <2>3. QED
      BY <2>1, <2>2
  <1>3. ASSUME NEW c \in Clients, Recv(c)
        PROVE  Queued(d)'
    <2>1. CASE d = c
      <3>1. /\ Len(chan[c]) \in Nat /\ Len(chan[c]) >= 1
            /\ Len(Tail(chan[c])) = Len(chan[c]) - 1
            /\ \A i \in 1..(Len(chan[c]) - 1) : Tail(chan[c])[i] = chan[c][i + 1]
            /\ Head(chan[c]) = chan[c][1] /\ chan[c][1] \in Nat
        BY <1>3 DEF Recv
      <3>2. Given(c)' = chan[c][1]
        <4>1. taken'[c] = Append(taken[c], chan[c][1])
          BY <1>3, <3>1 DEF Recv
        <4>2. chan[c][1] \in Nat
          BY <3>1
        <4>3. Len(taken'[c]) = Len(taken[c]) + 1 /\ taken'[c][Len(taken[c]) + 1] = chan[c][1]
          BY <4>1, <4>2
        <4>4. taken'[c] # <<>>
          BY <4>3
        <4>5. QED
          BY <4>3, <4>4 DEF Given
      <3>3. Queued(c) /\ UNCHANGED <<todo, cur, published>> /\ chan'[c] = Tail(chan[c])
        BY <1>3, <2>1 DEF Recv, pubVars, OrderInv
      <3>4. \A i \in 1..Len(chan'[c]) : i + 1 \in 1..Len(chan[c]) /\ chan'[c][i] = chan[c][i + 1]
        BY <3>1, <3>3
      <3>5. 1 \in 1..Len(chan[c])
        BY <3>1
      <3>6. ASSUME NEW i \in 1..Len(chan'[c])
            PROVE  chan[c][1] < chan'[c][i] /\ chan'[c][i] <= published
        <4>1. i + 1 \in 1..Len(chan[c]) /\ 1 < i + 1 /\ chan'[c][i] = chan[c][i + 1]
          BY <3>1, <3>3, <3>4
        <4>2. QED
          BY <3>3, <3>5, <4>1 DEF Queued
      <3>7. \A i, j \in 1..Len(chan'[c]) : i < j => chan'[c][i] < chan'[c][j]
        BY <3>3, <3>4 DEF Queued
      <3>8. \A p \in Publishers : c \in todo[p] =>
              /\ cur[p] = published /\ chan[c][1] < cur[p]
              /\ \A i \in 1..Len(chan'[c]) : chan'[c][i] < cur[p]
        BY <3>3, <3>4, <3>5 DEF Queued
      <3>9. chan[c][1] <= published
        BY <3>3, <3>5 DEF Queued
      <3>10. QED
        BY <2>1, <3>2, <3>3, <3>6, <3>7, <3>8, <3>9 DEF Queued
    <2>2. CASE d # c
      BY <1>3, <2>2 DEF Recv, pubVars, OrderInv, Queued, Given
    <2>3. QED
      BY <2>1, <2>2
  <1>4. ASSUME NEW c \in Clients, Unsubscribe(c)
        PROVE  Queued(d)'
    <2>1. d # c /\ d \in subs
      BY <1>4 DEF Unsubscribe
    <2>2. QED
      BY <1>4, <2>1 DEF Unsubscribe, pubVars, OrderInv, Queued, Given
  <1>5. ASSUME NEW c \in Clients, Handler(c)
        PROVE  Queued(d)'
    <2>1. CASE Subscribe(c) \/ Recv(c) \/ Unsubscribe(c)
      BY <1>2, <1>3, <1>4, <2>1
    <2>2. CASE ~(Subscribe(c) \/ Recv(c) \/ Unsubscribe(c))
      BY <1>1, <1>5, <2>2
      DEF Handler, CapAdd, CapBack, WriteOk, WriteFail, Tick, CtxDone, SrvDone,
          Leave, pubVars
    <2>3. QED
      BY <2>1, <2>2
  <1>6. ASSUME NEW p \in Publishers, PubLock(p)
        PROVE  Queued(d)'
    <2>1. \A q \in Publishers : d \in todo'[q] => q = p
      BY <1>6 DEF PubLock, MuFree, RangeUnderMu
    <2>2. /\ Queued(d) /\ published' = published + 1 /\ cur'[p] = published + 1
          /\ UNCHANGED <<chan, taken, since>>
      BY <1>6 DEF PubLock, OrderInv, feedVars
    <2>3. Given(d) \in Nat /\ Given(d)' = Given(d)
      BY <1>0, <2>2 DEF Given
    <2>4. QED
      BY <1>0, <2>1, <2>2, <2>3 DEF Queued
  <1>7. ASSUME NEW p \in Publishers, NEW c \in Clients, PubSend(p, c)
        PROVE  Queued(d)'
    <2>1. /\ Queued(d)
          /\ UNCHANGED <<taken, since, cur, published, subs>>
          /\ \A q \in Publishers : todo'[q] \subseteq todo[q]
          /\ ppc[p] = "send" /\ c \in todo[p] /\ c \notin todo'[p]
      BY <1>7 DEF PubSend, OrderInv
    <2>2. Given(d)' = Given(d)
      BY <2>1 DEF Given
    <2>3. CASE d # c \/ UNCHANGED chan
      <3>1. chan'[d] = chan[d]
        BY <1>0, <1>7, <2>3 DEF PubSend
      <3>2. QED
        BY <2>1, <2>2, <3>1 DEF Queued
    <2>4. CASE d = c /\ chan' = [chan EXCEPT ![c] = Append(@, cur[p])]
      <3>1. /\ Len(chan[c]) \in Nat /\ cur[p] \in Nat
            /\ Len(chan'[c]) = Len(chan[c]) + 1
            /\ \A i \in 1..Len(chan[c]) : chan'[c][i] = chan[c][i]
            /\ chan'[c][Len(chan[c]) + 1] = cur[p]
        BY <2>4
      <3>2. cur[p] = published /\ Given(c) < cur[p]
            /\ \A i \in 1..Len(chan[c]) : chan[c][i] < cur[p]
        BY <2>1, <2>4 DEF Queued
      <3>3. \A i \in 1..Len(chan'[c]) : i \in 1..Len(chan[c]) \/ i = Len(chan[c]) + 1
        BY <3>1
      <3>4. \A i \in 1..Len(chan'[c]) : Given(c) < chan'[c][i] /\ chan'[c][i] <= published
        BY <2>1, <2>4, <3>1, <3>2, <3>3 DEF Queued
      <3>5. \A i, j \in 1..Len(chan'[c]) : i < j => chan'[c][i] < chan'[c][j]
        BY <2>1, <2>4, <3>1, <3>2, <3>3 DEF Queued
      <3>6. \A q \in Publishers : c \notin todo'[q]
        BY <2>1 DEF RangeUnderMu, MuExclusive
      <3>7. QED
        BY <2>1, <2>2, <2>4, <3>4, <3>5, <3>6 DEF Queued
    <2>5. QED
      BY <1>7, <2>3, <2>4 DEF PubSend
  <1>8. ASSUME NEW p \in Publishers, PubUnlock(p)
        PROVE  Queued(d)'
    <2>1. /\ Queued(d) /\ UNCHANGED <<chan, taken, since, todo, published>>
          /\ d \notin todo[p] /\ cur' = [cur EXCEPT ![p] = 0]
      BY <1>8 DEF PubUnlock, OrderInv, feedVars
    <2>2. Given(d)' = Given(d)
      BY <2>1 DEF Given
    <2>3. QED
      BY <2>1, <2>2 DEF Queued
  <1>9. CASE Environment
    BY <1>1, <1>9
    DEF Environment, SigTerm, CloseListener, Arrive, Disconnect, feedVars, pubVars
  <1>10. CASE UNCHANGED vars
    BY <1>1, <1>10 DEF vars, pubVars
  <1>11. QED
    <2>1. ASSUME NEW p \in Publishers, Publisher(p) PROVE Queued(d)'
      BY <1>1, <1>6, <1>7, <1>8, <2>1 DEF Publisher, PubCall
    <2>2. QED
      BY <1>5, <1>9, <1>10, <2>1 DEF Next

\* Each step of the hub is a step of Broadcast or leaves what it shows alone.
LEMMA FeedStep ==
  ASSUME HubInv, HubInv', OrderInv, [Next]_vars
  PROVE  [Feed!Next]_(Feed!bvars)
  <1> USE DEF HubInv, TypeOK, Feed!bvars
  <1>1. CASE UNCHANGED <<feedVars, published>>
    BY <1>1 DEF feedVars, Given
  <1>2. ASSUME NEW c \in Clients, Subscribe(c)
        PROVE  Feed!Join(c)
    <2>1. c \notin subs
      BY <1>2 DEF Subscribe, Goto, NoLeakedSubscriber, Subscribed
    <2>2. taken[c] = <<>> /\ UNCHANGED <<taken, published>>
          /\ since' = [since EXCEPT ![c] = published] /\ subs' = subs \cup {c}
      BY <1>2, <2>1 DEF Subscribe, ClosedIsEmpty, pubVars
    <2>3. QED
      BY <2>1, <2>2 DEF Feed!Join, Given
  <1>3. ASSUME NEW c \in Clients, Recv(c)
        PROVE  Feed!Give(c)
    <2>1. c \in subs
      BY <1>3 DEF Recv, Goto, NoLeakedSubscriber, Subscribed
    <2>2. /\ Len(chan[c]) \in Nat /\ Len(chan[c]) >= 1
          /\ Head(chan[c]) = chan[c][1] /\ chan[c][1] \in Nat
      BY <1>3 DEF Recv
    <2>3. Given(c) < chan[c][1] /\ chan[c][1] <= published /\ Given(c) \in Nat
      BY <2>1, <2>2 DEF OrderInv, Queued, Given
    <2>4. /\ taken' = [taken EXCEPT ![c] = Append(@, chan[c][1])]
          /\ UNCHANGED <<subs, since, published>>
      BY <1>3, <2>2 DEF Recv, pubVars
    <2>5. \A d \in Clients : Given(d)' = IF d = c THEN chan[c][1] ELSE Given(d)
      <3>1. SUFFICES ASSUME NEW d \in Clients
                     PROVE  Given(d)' = IF d = c THEN chan[c][1] ELSE Given(d)
        OBVIOUS
      <3>2. CASE d = c
        <4>1. /\ Len(taken'[c]) = Len(taken[c]) + 1
              /\ taken'[c][Len(taken[c]) + 1] = chan[c][1]
          BY <2>2, <2>4
        <4>2. taken'[c] # <<>>
          BY <4>1
        <4>3. QED
          BY <3>2, <4>1, <4>2 DEF Given
      <3>3. CASE d # c
        BY <2>4, <3>3 DEF Given
      <3>4. QED
        BY <3>2, <3>3
    <2>6. [d \in Clients |-> Given(d)]' = [[d \in Clients |-> Given(d)] EXCEPT ![c] = chan[c][1]]
      BY <2>5
    <2>7. chan[c][1] \in (Given(c) + 1)..published
      BY <2>2, <2>3
    <2>8. QED
      BY <2>1, <2>4, <2>6, <2>7 DEF Feed!Give
  <1>4. ASSUME NEW c \in Clients, Unsubscribe(c)
        PROVE  Feed!Leave(c)
    <2>1. c \in subs
      BY <1>4 DEF Unsubscribe, Goto, NoLeakedSubscriber, Subscribed
    <2>2. QED
      BY <1>4, <2>1 DEF Unsubscribe, pubVars, Feed!Leave, Given
  <1>5. ASSUME NEW p \in Publishers, PubLock(p)
        PROVE  Feed!Publish
    BY <1>5 DEF PubLock, feedVars, Feed!Publish, Given
  <1>6. ASSUME NEW p \in Publishers, NEW c \in Clients, PubSend(p, c)
        PROVE  UNCHANGED Feed!bvars
    BY <1>6 DEF PubSend, Given
  <1>7. ASSUME NEW c \in Clients, Handler(c)
        PROVE  [Feed!Next]_(Feed!bvars)
    <2>1. CASE Subscribe(c) \/ Recv(c) \/ Unsubscribe(c)
      BY <1>2, <1>3, <1>4, <2>1 DEF Feed!Next
    <2>2. CASE ~(Subscribe(c) \/ Recv(c) \/ Unsubscribe(c))
      BY <1>1, <1>7, <2>2
      DEF Handler, CapAdd, CapBack, WriteOk, WriteFail, Tick, CtxDone, SrvDone,
          Leave, pubVars
    <2>3. QED
      BY <2>1, <2>2
  <1>8. ASSUME NEW p \in Publishers, Publisher(p)
        PROVE  [Feed!Next]_(Feed!bvars)
    BY <1>1, <1>5, <1>6, <1>8 DEF Publisher, PubCall, PubUnlock, Feed!Next
  <1>9. CASE Environment
    BY <1>1, <1>9
    DEF Environment, SigTerm, CloseListener, Arrive, Disconnect, feedVars, pubVars
  <1>10. CASE UNCHANGED vars
    BY <1>1, <1>10 DEF vars, pubVars
  <1>11. QED
    BY <1>7, <1>8, <1>9, <1>10 DEF Next

\* Every viewer's stream is an ordered selection of the messages published
\* after it joined, and all viewers agree on the order (hub.go:41-52).
THEOREM HubImplementsBroadcast == Spec => FeedSpec
  <1> DEFINE Inv == SlotInv /\ HubInv /\ OrderInv
  <1>1. Init => Inv
    <2>1. Init => OrderInv
      BY DEF Init, OrderInv
    <2>2. QED
      BY <2>1, SlotInit, HubInit
  <1>2. Inv /\ [Next]_vars => Inv'
    BY SlotStep, TypeStep, HubStep, OrderStep DEF SlotInv
  <1>3. Init => Feed!Init
    BY DEF Init, Feed!Init, Given
  <1>4. Inv /\ Inv' /\ [Next]_vars => [Feed!Next]_(Feed!bvars)
    BY FeedStep
  <1>5. QED
    BY <1>1, <1>2, <1>3, <1>4, PTL DEF Spec, FeedSpec, Feed!Spec
==============================================================================
