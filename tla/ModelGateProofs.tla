--------------------------- MODULE ModelGateProofs ---------------------------
(***************************************************************************)
(* Proofs about ModelGate for any number of requests, any limits and any   *)
(* budget: typing and the bound on model calls, the two semaphores, and    *)
(* the daily breaker.                                                      *)
(***************************************************************************)
EXTENDS ModelGate, FiniteSetTheorems, TLAPS

\* Only an oracle question holds a slot, only an inference request holds the
\* other one, and only what is billed calls a model.
Kinds ==
  \A r \in Requests :
    /\ pc[r] \in {"ready", "answer", "audit"} => r \in Oracles
    /\ pc[r] \in {"gate", "call", "tools", "meter"} => r \in Billed
    /\ pc[r] \in {"prime", "primed", "infer"} => r \in Infers

\* While another call is possible, one is left.
Rounds ==
  \A r \in Requests :
    /\ calls[r] <= MaxRounds(r) + 1
    /\ pc[r] \in {"idle", "guard", "gate", "ready"} => calls[r] = 0
    /\ pc[r] \in {"call", "tools"} => calls[r] <= MaxRounds(r)

\* A shielded meter is on its own: its request has ended.
Ended == \A r \in metering : pc[r] = "end"

Shape == TypeOK /\ Kinds /\ Rounds /\ Ended

LEMMA CostBounds ==
  /\ MaxCost \in Nat /\ MaxCost > 0
  /\ \A r \in Requests : MaxRounds(r) \in Nat /\ MaxRounds(r) + 1 <= MaxCost
  BY GateAssumption DEF MaxCost, AtLeast, MaxRounds

LEMMA KindsApart ==
  /\ Oracles \subseteq Requests /\ Forms \subseteq Requests /\ Infers \subseteq Requests
  /\ Oracles \cap Infers = {} /\ Forms \cap Infers = {} /\ Oracles \cap Forms = {}
  BY GateAssumption DEF Requests, Billed

LEMMA ShapeInit == Init => Shape
  BY GateAssumption, CostBounds DEF Init, Shape, TypeOK, Kinds, Rounds, Ended, Requests

\* Typing, kinds, rounds and ends: each action of a request moves that request
\* only, and restart and midnight move none on.
LEMMA ShapeStep ==
  ASSUME Shape, [Next]_vars, peak' \in Nat
  PROVE  Shape'
  <1> USE KindsApart, CostBounds DEF Shape, TypeOK, Kinds, Rounds, Ended, Goto, gateVars, moneyVars
  <1>1. ASSUME NEW r \in Requests, Arrive(r) PROVE Shape'
    BY <1>1 DEF Arrive
  <1>2. ASSUME NEW r \in Requests, Refuse(r) \/ ReadBudget(r) \/ Gate(r) \/ FormStart(r)
        PROVE  Shape'
    <2>1. CASE Refuse(r)
      BY <2>1 DEF Refuse
    <2>2. CASE ReadBudget(r)
      BY <2>2 DEF ReadBudget
    <2>3. CASE Gate(r)
      BY <2>3 DEF Gate, Billed
    <2>4. CASE FormStart(r)
      BY <2>4 DEF FormStart, Billed
    <2>5. QED
      BY <1>2, <2>1, <2>2, <2>3, <2>4
  <1>3. ASSUME NEW r \in Requests, Start(r) \/ ResponseFails(r) \/ ToolsDone(r) \/ Answered(r)
        PROVE  Shape'
    <2>1. CASE Start(r)
      BY <2>1 DEF Start, Billed
    <2>2. CASE ResponseFails(r)
      BY <2>2 DEF ResponseFails
    <2>3. CASE ToolsDone(r)
      BY <2>3 DEF ToolsDone
    <2>4. CASE Answered(r)
      BY <2>4 DEF Answered, Billed
    <2>5. QED
      BY <1>3, <2>1, <2>2, <2>3, <2>4
  <1>4. ASSUME NEW r \in Requests, CallMore(r) \/ CallLast(r) \/ CallFails(r)
        PROVE  Shape'
    <2>1. CASE CallMore(r)
      BY <2>1 DEF CallMore
    <2>2. CASE CallLast(r)
      BY <2>2 DEF CallLast, AfterCalls, Billed
    <2>3. CASE CallFails(r)
      BY <2>3 DEF CallFails, AfterCalls, Billed
    <2>4. QED
      BY <1>4, <2>1, <2>2, <2>3
  <1>5. ASSUME NEW r \in Requests, Abandon(r) \/ Meter(r) \/ MeterAlone(r) \/ WriteAudit(r)
        PROVE  Shape'
    <2>1. CASE Abandon(r)
      BY <2>1 DEF Abandon
    <2>2. CASE Meter(r)
      BY <2>2 DEF Meter, AddSpend
    <2>3. CASE MeterAlone(r)
      BY <2>3 DEF MeterAlone, AddSpend
    <2>4. CASE WriteAudit(r)
      BY <2>4 DEF WriteAudit
    <2>5. QED
      BY <1>5, <2>1, <2>2, <2>3, <2>4
  <1>6. ASSUME NEW r \in Requests,
               InferGate(r) \/ Prime(r) \/ Unavailable(r) \/ InferStart(r) \/ InferEnd(r) \/ InferAbandon(r)
        PROVE  Shape'
    <2>1. CASE InferGate(r)
      BY <2>1 DEF InferGate
    <2>2. CASE Prime(r)
      BY <2>2 DEF Prime
    <2>3. CASE Unavailable(r)
      BY <2>3 DEF Unavailable
    <2>4. CASE InferStart(r)
      BY <2>4 DEF InferStart
    <2>5. CASE InferEnd(r)
      BY <2>5 DEF InferEnd
    <2>6. CASE InferAbandon(r)
      BY <2>6 DEF InferAbandon
    <2>7. QED
      BY <1>6, <2>1, <2>2, <2>3, <2>4, <2>5, <2>6
  <1>7. CASE Midnight
    BY <1>7 DEF Midnight
  <1>8. CASE Restart
    BY <1>8, GateAssumption DEF Restart, InFlight, Billed
  <1>9. CASE UNCHANGED vars
    BY <1>9 DEF vars
  <1>10. QED
    BY <1>1, <1>2, <1>3, <1>4, <1>5, <1>6, <1>7, <1>8, <1>9 DEF Next, Progress

------------------------------------------------------------------------------
(* What one request's step does to the sets that are counted.              *)

HoldingAt == {"ready", "call", "tools", "answer", "meter", "audit"}
InferHoldingAt == {"prime", "primed", "infer"}
InFlightAt == {"gate", "ready", "call", "tools", "answer", "meter"}

\* The counted sets are finite.
LEMMA Finite ==
  ASSUME TypeOK
  PROVE  /\ IsFiniteSet(Holding) /\ IsFiniteSet(InferHolding)
         /\ IsFiniteSet(InFlight)
         /\ Cardinality(Holding) \in Nat /\ Cardinality(InferHolding) \in Nat
         /\ Cardinality(InFlight) \in Nat
  <1>1. /\ Holding \subseteq Requests /\ InferHolding \subseteq Requests
        /\ InFlight \subseteq Requests
    BY KindsApart DEF Holding, InferHolding, InFlight, TypeOK, Billed
  <1>2. QED
    BY <1>1, FS_Subset, FS_CardinalityType, GateAssumption

\* A request that moves joins or leaves each set by where it moves to.
LEMMA Moves ==
  ASSUME TypeOK, NEW r \in Requests, NEW to, pc' = [pc EXCEPT ![r] = to]
  PROVE  /\ Holding' = IF r \in Oracles /\ to \in HoldingAt THEN Holding \cup {r} ELSE Holding \ {r}
         /\ InferHolding' = IF r \in Infers /\ to \in InferHoldingAt
                           THEN InferHolding \cup {r} ELSE InferHolding \ {r}
         /\ r \notin metering \cup metering' /\ metering' = metering
            => InFlight' = IF r \in Billed /\ to \in InFlightAt THEN InFlight \cup {r} ELSE InFlight \ {r}
  BY KindsApart DEF TypeOK, Holding, InferHolding, InFlight, HoldingAt, InferHoldingAt, InFlightAt, Billed

\* Where a request is tells whether it is counted.
LEMMA Places ==
  ASSUME Shape, NEW r \in Requests
  PROVE  /\ r \in Holding <=> r \in Oracles /\ pc[r] \in HoldingAt
         /\ r \in InferHolding <=> r \in Infers /\ pc[r] \in InferHoldingAt
         /\ r \in InFlight <=> r \in metering \/ (r \in Billed /\ pc[r] \in InFlightAt)
         /\ r \in metering => pc[r] = "end"
  BY KindsApart DEF Shape, TypeOK, Ended, Holding, InferHolding, InFlight,
     HoldingAt, InferHoldingAt, InFlightAt, Billed

\* A step that leaves requests and slots where they were.
LEMMA SlotsStutter ==
  ASSUME UNCHANGED <<pc, slots, inferSlots>>, SlotsAccounted, InferSlotExact
  PROVE  SlotsAccounted' /\ InferSlotExact'
  BY DEF SlotsAccounted, InferSlotExact, Holding, InferHolding

\* What a move adds to the two counts and takes from them.
LEMMA Counts ==
  ASSUME Shape, NEW r \in Requests, NEW from, NEW to, Goto(r, from, to)
  PROVE  /\ Cardinality(Holding)' = Cardinality(Holding)
              + (IF r \in Oracles /\ to \in HoldingAt THEN 1 ELSE 0)
              - (IF r \in Oracles /\ from \in HoldingAt THEN 1 ELSE 0)
         /\ Cardinality(InferHolding)' = Cardinality(InferHolding)
              + (IF r \in Infers /\ to \in InferHoldingAt THEN 1 ELSE 0)
              - (IF r \in Infers /\ from \in InferHoldingAt THEN 1 ELSE 0)
  <1>1. TypeOK /\ pc[r] = from /\ pc' = [pc EXCEPT ![r] = to]
    BY DEF Goto, Shape
  <1>2. /\ IsFiniteSet(Holding) /\ IsFiniteSet(InferHolding)
        /\ Cardinality(Holding) \in Nat /\ Cardinality(InferHolding) \in Nat
    BY <1>1, Finite
  <1>3. /\ r \in Holding <=> r \in Oracles /\ from \in HoldingAt
        /\ r \in InferHolding <=> r \in Infers /\ from \in InferHoldingAt
    BY <1>1, Places
  <1>4. /\ Holding' = IF r \in Oracles /\ to \in HoldingAt THEN Holding \cup {r} ELSE Holding \ {r}
        /\ InferHolding' = IF r \in Infers /\ to \in InferHoldingAt
                          THEN InferHolding \cup {r} ELSE InferHolding \ {r}
    BY <1>1, Moves
  <1>5. Cardinality(Holding)' = Cardinality(Holding)
              + (IF r \in Oracles /\ to \in HoldingAt THEN 1 ELSE 0)
              - (IF r \in Oracles /\ from \in HoldingAt THEN 1 ELSE 0)
    <2>1. Cardinality(Holding \cup {r}) =
            IF r \in Holding THEN Cardinality(Holding) ELSE Cardinality(Holding) + 1
      BY <1>2, FS_AddElement
    <2>2. Cardinality(Holding \ {r}) =
            IF r \in Holding THEN Cardinality(Holding) - 1 ELSE Cardinality(Holding)
      BY <1>2, FS_RemoveElement
    <2>3. QED
      BY <1>2, <1>3, <1>4, <2>1, <2>2
  <1>6. Cardinality(InferHolding)' = Cardinality(InferHolding)
              + (IF r \in Infers /\ to \in InferHoldingAt THEN 1 ELSE 0)
              - (IF r \in Infers /\ from \in InferHoldingAt THEN 1 ELSE 0)
    <2>1. Cardinality(InferHolding \cup {r}) =
            IF r \in InferHolding THEN Cardinality(InferHolding) ELSE Cardinality(InferHolding) + 1
      BY <1>2, FS_AddElement
    <2>2. Cardinality(InferHolding \ {r}) =
            IF r \in InferHolding THEN Cardinality(InferHolding) - 1 ELSE Cardinality(InferHolding)
      BY <1>2, FS_RemoveElement
    <2>3. QED
      BY <1>2, <1>3, <1>4, <2>1, <2>2
  <1>7. QED
    BY <1>5, <1>6

\* A request that stays where it is counted, or not counted, moves no counter.
LEMMA MoveKeeps ==
  ASSUME Shape, SlotsAccounted, InferSlotExact,
         NEW r \in Requests, NEW from, NEW to, Goto(r, from, to),
         UNCHANGED <<slots, inferSlots>>,
         r \in Oracles => (from \in HoldingAt <=> to \in HoldingAt),
         r \in Infers => (from \in InferHoldingAt <=> to \in InferHoldingAt)
  PROVE  SlotsAccounted' /\ InferSlotExact'
  <1>1. /\ Cardinality(Holding) \in Nat /\ Cardinality(InferHolding) \in Nat
        /\ slots \in Nat /\ inferSlots \in Nat
    BY Finite DEF Shape, TypeOK
  <1>2. QED
    BY <1>1, Counts, KindsApart DEF SlotsAccounted, InferSlotExact

\* An oracle question takes its slot or gives it back.
LEMMA MoveOracle ==
  ASSUME Shape, SlotsAccounted, InferSlotExact,
         NEW r \in Requests, NEW from, NEW to, Goto(r, from, to),
         r \in Oracles, UNCHANGED inferSlots,
         \/ /\ from \notin HoldingAt /\ to \in HoldingAt
            /\ slots > 0 /\ slots' = slots - 1
         \/ /\ from \in HoldingAt /\ to \notin HoldingAt
            /\ slots' = slots + 1
  PROVE  SlotsAccounted' /\ InferSlotExact'
  <1>1. /\ Cardinality(Holding) \in Nat /\ Cardinality(InferHolding) \in Nat
        /\ slots \in Nat /\ inferSlots \in Nat
    BY Finite DEF Shape, TypeOK
  <1>2. /\ Cardinality(Holding)' = Cardinality(Holding)
             + (IF to \in HoldingAt THEN 1 ELSE 0) - (IF from \in HoldingAt THEN 1 ELSE 0)
        /\ Cardinality(InferHolding)' = Cardinality(InferHolding)
    BY <1>1, Counts, KindsApart
  <1>3. InferSlotExact'
    BY <1>1, <1>2 DEF InferSlotExact
  <1>4. QED
    BY <1>1, <1>2, <1>3 DEF SlotsAccounted

\* An inference request takes the slot or gives it back.
LEMMA MoveInfer ==
  ASSUME Shape, SlotsAccounted, InferSlotExact,
         NEW r \in Requests, NEW from, NEW to, Goto(r, from, to),
         r \in Infers, UNCHANGED slots,
         \/ /\ from \notin InferHoldingAt /\ to \in InferHoldingAt
            /\ inferSlots > 0 /\ inferSlots' = inferSlots - 1
         \/ /\ from \in InferHoldingAt /\ to \notin InferHoldingAt
            /\ inferSlots' = inferSlots + 1
  PROVE  SlotsAccounted' /\ InferSlotExact'
  <1>1. /\ Cardinality(Holding) \in Nat /\ Cardinality(InferHolding) \in Nat
        /\ slots \in Nat /\ inferSlots \in Nat
    BY Finite DEF Shape, TypeOK
  <1>2. QED
    BY <1>1, Counts, KindsApart DEF SlotsAccounted, InferSlotExact

\* Both semaphores stay exact.
LEMMA SlotsStep ==
  ASSUME Shape, SlotsAccounted, InferSlotExact, [Next]_vars
  PROVE  SlotsAccounted' /\ InferSlotExact'
  <1>1. ASSUME NEW r \in Requests, Arrive(r) \/ Progress(r), ~MeterAlone(r)
        PROVE  SlotsAccounted' /\ InferSlotExact'
    <2> USE KindsApart DEF gateVars, HoldingAt, InferHoldingAt
    <2>0. /\ pc[r] \in {"ready", "answer", "audit"} => r \in Oracles
          /\ pc[r] \in {"gate", "call", "tools", "meter"} => r \in Billed
          /\ pc[r] \in {"prime", "primed", "infer"} => r \in Infers
      BY DEF Shape, Kinds
    <2>1. CASE Arrive(r)
      BY <2>0, <2>1, MoveKeeps DEF Arrive, Billed
    <2>2. CASE Refuse(r)
      BY <2>0, <2>2, MoveKeeps DEF Refuse, Billed
    <2>3. CASE ReadBudget(r)
      BY <2>0, <2>3, MoveKeeps DEF ReadBudget, Billed
    <2>4. CASE Gate(r)
      BY <2>0, <2>4, MoveKeeps, MoveOracle DEF Gate, Billed
    <2>5. CASE FormStart(r)
      BY <2>0, <2>5, MoveKeeps DEF FormStart, Billed
    <2>6. CASE Start(r)
      BY <2>0, <2>6, MoveKeeps DEF Start, Billed
    <2>7. CASE ResponseFails(r)
      <3>1. r \in Oracles
        BY <2>0, <2>7 DEF ResponseFails, Goto
      <3>2. QED
        BY <2>7, <3>1, MoveOracle DEF ResponseFails
    <2>8. CASE CallMore(r)
      BY <2>0, <2>8, MoveKeeps DEF CallMore, Billed
    <2>9. CASE CallLast(r)
      BY <2>0, <2>9, MoveKeeps DEF CallLast, AfterCalls, Billed
    <2>10. CASE CallFails(r)
      BY <2>0, <2>10, MoveKeeps DEF CallFails, AfterCalls, Billed
    <2>11. CASE ToolsDone(r)
      BY <2>0, <2>11, MoveKeeps DEF ToolsDone, Billed
    <2>12. CASE Answered(r)
      BY <2>0, <2>12, MoveKeeps DEF Answered, Billed
    <2>13. CASE Abandon(r)
      <3>1. r \in Oracles /\ Goto(r, pc[r], "end")
        BY <2>0, <2>13 DEF Abandon, Goto
      <3>2. QED
        BY <2>13, <3>1, MoveOracle DEF Abandon
    <2>14. CASE Meter(r)
      BY <2>0, <2>14, MoveKeeps DEF Meter, Billed
    <2>15. CASE WriteAudit(r)
      <3>1. r \in Oracles
        BY <2>0, <2>15 DEF WriteAudit, Goto
      <3>2. QED
        BY <2>15, <3>1, MoveOracle DEF WriteAudit
    <2>16. CASE InferGate(r)
      BY <2>0, <2>16, MoveKeeps, MoveInfer DEF InferGate, Billed
    <2>17. CASE Prime(r)
      BY <2>0, <2>17, MoveKeeps DEF Prime, Billed
    <2>18. CASE Unavailable(r)
      <3>1. r \in Infers
        BY <2>0, <2>18 DEF Unavailable, Goto
      <3>2. QED
        BY <2>18, <3>1, MoveInfer DEF Unavailable
    <2>19. CASE InferStart(r)
      BY <2>0, <2>19, MoveKeeps DEF InferStart, Billed
    <2>20. CASE InferEnd(r)
      <3>1. r \in Infers
        BY <2>0, <2>20 DEF InferEnd, Goto
      <3>2. QED
        BY <2>20, <3>1, MoveInfer DEF InferEnd
    <2>21. CASE InferAbandon(r)
      <3>1. r \in Infers /\ Goto(r, pc[r], "end")
        BY <2>0, <2>21 DEF InferAbandon, Goto
      <3>2. QED
        BY <2>21, <3>1, MoveInfer DEF InferAbandon
    <2>22. QED
      BY <1>1, <2>1, <2>2, <2>3, <2>4, <2>5, <2>6, <2>7, <2>8, <2>9, <2>10, <2>11, <2>12,
         <2>13, <2>14, <2>15, <2>16, <2>17, <2>18, <2>19, <2>20, <2>21 DEF Progress
  <1>2. CASE (\E r \in Requests : MeterAlone(r)) \/ Midnight \/ UNCHANGED vars
    BY <1>2, SlotsStutter DEF MeterAlone, Midnight, vars, gateVars
  <1>3. CASE Restart
    <2>1. Holding' = {} /\ InferHolding' = {}
      BY <1>3, KindsApart DEF Restart, Holding, InferHolding
    <2>2. QED
      BY <1>3, <2>1, FS_EmptySet, GateAssumption DEF Restart, SlotsAccounted, InferSlotExact
  <1>4. QED
    BY <1>1, <1>2, <1>3 DEF Next

------------------------------------------------------------------------------
(* The breaker.                                                            *)

\* No more requests are in flight than ever were, and once the budget is spent,
\* what the requests in flight may still cost stays within the bound: each of
\* them got past the check while there was money left.
Money ==
  /\ Cardinality(InFlight) <= peak
  /\ spent >= Budget => spent + MaxCost * Cardinality(InFlight) <= Budget - 1 + MaxCost * peak

LEMMA CostMonotone ==
  ASSUME NEW a \in Nat, NEW b \in Nat, a <= b
  PROVE  /\ MaxCost * a \in Nat /\ MaxCost * b \in Nat
         /\ MaxCost * a <= MaxCost * b
  BY CostBounds

LEMMA CostOfOneMore ==
  ASSUME NEW a \in Nat
  PROVE  MaxCost * (a + 1) = MaxCost * a + MaxCost
  BY CostBounds

\* Requests that leave the flight uncharged only lower what is still due.
LEMMA FlightShrinks ==
  ASSUME Shape, Money, InFlight' \subseteq InFlight, UNCHANGED <<spent, peak>>
  PROVE  Money'
  <1>1. /\ IsFiniteSet(InFlight) /\ Cardinality(InFlight) \in Nat
        /\ spent \in Nat /\ peak \in Nat /\ Budget \in Nat
    BY Finite, GateAssumption DEF Shape, TypeOK
  <1>2. /\ Cardinality(InFlight)' <= Cardinality(InFlight)
        /\ Cardinality(InFlight)' \in Nat
    BY <1>1, FS_Subset, FS_CardinalityType
  <1>3. /\ MaxCost * Cardinality(InFlight) \in Nat /\ MaxCost * Cardinality(InFlight)' \in Nat
        /\ MaxCost * Cardinality(InFlight)' <= MaxCost * Cardinality(InFlight)
        /\ MaxCost * peak \in Nat
    BY <1>1, <1>2, CostMonotone
  <1>4. QED
    BY <1>1, <1>2, <1>3 DEF Money

\* Charging one request takes it out of the flight: the bound pays for it.
LEMMA FlightPays ==
  ASSUME Shape, Money, NEW r \in Requests, r \in InFlight, InFlight' = InFlight \ {r},
         AddSpend(r), UNCHANGED peak
  PROVE  Money'
  <1>1. /\ IsFiniteSet(InFlight) /\ Cardinality(InFlight) \in Nat
        /\ spent \in Nat /\ peak \in Nat /\ Budget \in Nat
    BY Finite, GateAssumption DEF Shape, TypeOK
  <1>2. /\ Cardinality(InFlight)' \in Nat
        /\ Cardinality(InFlight) = Cardinality(InFlight)' + 1
    <2>1. Cardinality(InFlight)' = Cardinality(InFlight) - 1
      BY <1>1, FS_RemoveElement
    <2>2. Cardinality(InFlight)' \in Nat
      BY <1>1, FS_RemoveElement, FS_CardinalityType
    <2>3. QED
      BY <1>1, <2>1, <2>2
  <1>3. calls[r] \in Nat /\ calls[r] <= MaxCost /\ MaxCost \in Nat
    BY CostBounds DEF Shape, TypeOK
  <1>4. spent' = spent \/ spent' = spent + calls[r]
    BY DEF AddSpend
  <1>5. /\ MaxCost * Cardinality(InFlight) = MaxCost * Cardinality(InFlight)' + MaxCost
        /\ MaxCost * Cardinality(InFlight)' \in Nat
        /\ MaxCost * Cardinality(InFlight) <= MaxCost * peak
        /\ MaxCost * peak \in Nat
    <2>1. MaxCost * (Cardinality(InFlight)' + 1) = MaxCost * Cardinality(InFlight)' + MaxCost
      BY <1>2, CostOfOneMore
    <2>2. QED
      BY <1>1, <1>2, <2>1, CostMonotone DEF Money
  <1>6. QED
    BY <1>1, <1>2, <1>3, <1>4, <1>5 DEF Money

\* Only a request that read the budget joins the flight, and only a meter spends.
LEMMA MoneyStep ==
  ASSUME Shape, Money, [Next]_vars
  PROVE  Money' /\ peak' \in Nat
  <1>0. TypeOK /\ peak \in Nat /\ spent \in Nat /\ Budget \in Nat \ {0}
    BY GateAssumption DEF Shape, TypeOK
  <1>1. ASSUME NEW r \in Requests, ReadBudget(r)
        PROVE  Money' /\ peak' \in Nat
    <2>1. IsFiniteSet(InFlight') /\ Cardinality(InFlight') \in Nat
      <3>1. InFlight' \subseteq Requests
        BY <1>0, <1>1, KindsApart DEF ReadBudget, InFlight, TypeOK, Billed
      <3>2. QED
        BY <3>1, FS_Subset, FS_CardinalityType, GateAssumption
    <2>2. /\ peak' \in Nat /\ peak <= peak' /\ Cardinality(InFlight') <= peak'
      BY <1>0, <1>1, <2>1 DEF ReadBudget, AtLeast
    <2>3. spent' = spent
      BY <1>1 DEF ReadBudget, moneyVars
    <2>4. CASE spent < Budget
      BY <1>0, <2>2, <2>3, <2>4 DEF Money
    <2>5. CASE spent >= Budget
      <3>1. InFlight' = InFlight
        BY <1>0, <1>1, <2>5, KindsApart DEF ReadBudget, Goto, InFlight, TypeOK, Billed
      <3>2. /\ MaxCost * peak \in Nat /\ MaxCost * peak' \in Nat /\ MaxCost * peak <= MaxCost * peak'
            /\ MaxCost * Cardinality(InFlight) \in Nat
        BY <1>0, <2>1, <2>2, <3>1, CostMonotone
      <3>3. QED
        BY <1>0, <2>2, <2>3, <3>1, <3>2 DEF Money
    <2>6. QED
      BY <1>0, <2>2, <2>4, <2>5
  <1>2. ASSUME NEW r \in Requests, Meter(r) \/ MeterAlone(r)
        PROVE  Money' /\ peak' \in Nat
    <2>1. /\ r \in InFlight /\ InFlight' = InFlight \ {r}
          /\ AddSpend(r) /\ UNCHANGED peak
      <3>1. CASE Meter(r)
        BY <3>1, KindsApart DEF Meter, Goto, InFlight, Shape, TypeOK, Kinds, Ended, Billed
      <3>2. CASE MeterAlone(r)
        BY <3>2, KindsApart DEF MeterAlone, InFlight, Shape, TypeOK, Ended, Billed
      <3>3. QED
        BY <1>2, <3>1, <3>2
    <2>2. QED
      BY <1>0, <2>1, FlightPays
  <1>3. ASSUME NEW r \in Requests, Arrive(r) \/ Progress(r),
               ~ReadBudget(r), ~Meter(r), ~MeterAlone(r)
        PROVE  InFlight' \subseteq InFlight /\ UNCHANGED <<spent, peak>>
    <2> USE <1>0, KindsApart DEF InFlight, Goto, TypeOK, moneyVars, Billed
    <2>0. pc[r] \in {"ready", "answer", "audit"} => r \in Oracles
      BY DEF Shape, Kinds
    <2>1. CASE Arrive(r) \/ Refuse(r) \/ Gate(r) \/ FormStart(r)
      BY <2>1 DEF Arrive, Refuse, Gate, FormStart
    <2>2. CASE Start(r) \/ ResponseFails(r) \/ ToolsDone(r) \/ Answered(r)
      BY <2>2 DEF Start, ResponseFails, ToolsDone, Answered
    <2>3. CASE CallMore(r) \/ CallLast(r) \/ CallFails(r)
      BY <2>3 DEF CallMore, CallLast, CallFails, AfterCalls
    <2>4. CASE Abandon(r) \/ WriteAudit(r)
      BY <2>4 DEF Abandon, WriteAudit
    <2>5. CASE InferGate(r) \/ Prime(r) \/ Unavailable(r) \/ InferStart(r) \/ InferEnd(r) \/ InferAbandon(r)
      BY <2>5 DEF InferGate, Prime, Unavailable, InferStart, InferEnd, InferAbandon
    <2>6. QED
      BY <1>3, <2>1, <2>2, <2>3, <2>4, <2>5 DEF Progress
  <1>4. CASE Midnight
    <2>1. InFlight' = InFlight /\ peak' = peak /\ spent' = 0
      BY <1>4 DEF Midnight, InFlight
    <2>2. QED
      BY <1>0, <2>1 DEF Money
  <1>5. CASE Restart
    BY <1>0, <1>5, FlightShrinks DEF Restart, InFlight, TypeOK, Billed, Requests
  <1>6. CASE UNCHANGED vars
    BY <1>0, <1>6, FlightShrinks DEF vars, InFlight, moneyVars
  <1>7. QED
    BY <1>0, <1>1, <1>2, <1>3, <1>4, <1>5, <1>6, FlightShrinks DEF Next, Progress

------------------------------------------------------------------------------
(* The charges.                                                            *)

\* Where a request has not been charged yet.
Uncharged(r) ==
  \/ r \in metering
  \/ pc[r] \in {"idle", "guard", "gate", "ready", "call", "tools", "answer", "meter"}

\* A request is charged all its calls or none, none before its meter ran, and all
\* after it unless the charge was lost; an inference request calls no model that
\* costs.
Settled ==
  \A r \in Requests :
    /\ charged[r] \in {0, calls[r]}
    /\ Uncharged(r) => charged[r] = 0
    /\ r \in Infers => calls[r] = 0
    /\ pc[r] \in {"audit", "end"} /\ r \notin metering \cup lost => charged[r] = calls[r]

Accounts == Settled /\ Cardinality(Charges) = spent + past

LEMMA ChargesFinite ==
  ASSUME Shape
  PROVE  IsFiniteSet(Charges) /\ Cardinality(Charges) \in Nat
  <1>1. IsFiniteSet(1..MaxCost) /\ IsFiniteSet(Requests)
    BY CostBounds, GateAssumption, FS_Interval
  <1>2. IsFiniteSet(Requests \X (1..MaxCost))
    BY <1>1, FS_Product
  <1>3. QED
    BY <1>2, FS_Subset, FS_CardinalityType DEF Charges

\* The first charge of a request adds its calls to what is charged.
LEMMA ChargeAdds ==
  ASSUME Shape, Settled, NEW r \in Requests, charged[r] = 0,
         charged' = [charged EXCEPT ![r] = @ + calls[r]]
  PROVE  Cardinality(Charges') = Cardinality(Charges) + calls[r]
  <1>1. PICK c \in 0..MaxCost : c = calls[r]
    BY DEF Shape, TypeOK
  <1>2. charged \in [Requests -> Nat] /\ MaxCost \in Nat
    BY CostBounds DEF Shape, TypeOK
  <1> DEFINE units == {r} \X (1..c)
  <1>3. Charges' = Charges \cup units
    <2>1. charged'[r] = c /\ \A q \in Requests : q # r => charged'[q] = charged[q]
      BY <1>1, <1>2
    <2>2. \A u \in Requests \X (1..MaxCost) :
            u[2] <= charged'[u[1]] <=> u[2] <= charged[u[1]] \/ u \in units
      BY <1>1, <1>2, <2>1
    <2>3. units \subseteq Requests \X (1..MaxCost)
      BY <1>1, <1>2
    <2>4. QED
      BY <2>2, <2>3 DEF Charges
  <1>4. Charges \cap units = {}
    BY <1>1, <1>2 DEF Charges
  <1>5. IsFiniteSet(units) /\ Cardinality(units) = c
    <2>1. IsFiniteSet(1..c) /\ Cardinality(1..c) = c
      <3>1. c \in Int /\ 1 \in Int
        BY <1>2
      <3>2. IsFiniteSet(1..c) /\ Cardinality(1..c) = IF 1 > c THEN 0 ELSE c - 1 + 1
        BY <3>1, FS_Interval
      <3>3. QED
        BY <1>2, <3>2
    <2>2. IsFiniteSet({r}) /\ Cardinality({r}) = 1
      BY FS_Singleton
    <2>3. IsFiniteSet(units) /\ Cardinality(units) = 1 * c
      BY <2>1, <2>2, FS_Product
    <2>4. QED
      BY <1>1, <2>3
  <1> HIDE DEF units
  <1>6. Cardinality(Charges \cup units) = Cardinality(Charges) + Cardinality(units)
    <2>1. /\ Cardinality(Charges \cup units)
               = Cardinality(Charges) + Cardinality(units) - Cardinality(Charges \cap units)
      BY <1>5, ChargesFinite, FS_Union
    <2>2. Cardinality(Charges \cap units) = 0
      BY <1>4, FS_EmptySet
    <2>3. QED
      BY <1>1, <1>5, <2>1, <2>2, ChargesFinite
  <1>7. QED
    BY <1>1, <1>3, <1>5, <1>6

\* A step that charges nothing leaves the sum.
LEMMA AccountsKeep ==
  ASSUME Accounts, Settled', UNCHANGED <<charged, spent, past>>
  PROVE  Accounts'
  BY DEF Accounts, Charges

\* A meter that runs settles its request, or loses the charge.
LEMMA MeterSettles ==
  ASSUME Shape, Accounts, NEW r \in Requests, Uncharged(r), AddSpend(r)
  PROVE  /\ Cardinality(Charges') = spent' + past'
         /\ \A q \in Requests : q # r => charged'[q] = charged[q] /\ (q \in lost' <=> q \in lost)
         /\ charged'[r] = calls[r] \/ (charged'[r] = 0 /\ r \in lost')
  <1>1. /\ charged \in [Requests -> Nat] /\ charged[r] = 0 /\ calls[r] \in Nat
        /\ spent \in Nat /\ past \in Nat /\ Cardinality(Charges) = spent + past
    BY CostBounds DEF Shape, TypeOK, Accounts, Settled
  <1>2. CASE /\ spent' = spent + calls[r]
             /\ charged' = [charged EXCEPT ![r] = @ + calls[r]]
             /\ UNCHANGED <<past, lost>>
    <2>1. Cardinality(Charges') = Cardinality(Charges) + calls[r]
      BY <1>1, <1>2, ChargeAdds DEF Accounts
    <2>2. QED
      BY <1>1, <1>2, <2>1
  <1>3. CASE lost' = lost \cup {r} /\ UNCHANGED <<spent, past, charged>>
    <2>1. Charges' = Charges
      BY <1>3 DEF Charges
    <2>2. QED
      BY <1>1, <1>3, <2>1
  <1>4. QED
    BY <1>2, <1>3 DEF AddSpend

LEMMA AccountsStep ==
  ASSUME Shape, Accounts, [Next]_vars
  PROVE  Accounts'
  <1> USE DEF Shape, TypeOK, Kinds, Rounds, Ended, Settled, Uncharged
  <1>1. ASSUME NEW r \in Requests, Meter(r) PROVE Accounts'
    <2>1. AddSpend(r) /\ Uncharged(r) /\ r \notin metering /\ UNCHANGED <<calls, metering>>
      BY <1>1 DEF Meter, Goto
    <2>2. Settled'
      BY <1>1, <2>1, MeterSettles DEF Meter, Goto, Accounts
    <2>3. QED
      BY <2>1, <2>2, MeterSettles DEF Accounts
  <1>2. ASSUME NEW r \in Requests, MeterAlone(r) PROVE Accounts'
    <2>1. AddSpend(r) /\ Uncharged(r) /\ metering' = metering \ {r} /\ pc[r] = "end"
          /\ UNCHANGED <<pc, calls>>
      BY <1>2 DEF MeterAlone
    <2>2. Settled'
      BY <2>1, MeterSettles DEF Accounts
    <2>3. QED
      BY <2>1, <2>2, MeterSettles DEF Accounts
  <1>3. ASSUME NEW r \in Requests, Arrive(r) \/ Progress(r), ~Meter(r), ~MeterAlone(r)
        PROVE  Settled' /\ UNCHANGED <<charged, spent, past>>
    <2> USE KindsApart DEF Accounts, Goto, moneyVars, Billed
    <2>1. CASE Arrive(r) \/ Refuse(r) \/ ReadBudget(r) \/ FormStart(r)
      BY <2>1 DEF Arrive, Refuse, ReadBudget, FormStart
    <2>2. CASE Gate(r)
      BY <2>2 DEF Gate
    <2>3. CASE Start(r) \/ ResponseFails(r) \/ ToolsDone(r) \/ Answered(r)
      BY <2>3 DEF Start, ResponseFails, ToolsDone, Answered
    <2>4. CASE CallMore(r)
      BY <2>4 DEF CallMore
    <2>5. CASE CallLast(r) \/ CallFails(r)
      BY <2>5 DEF CallLast, CallFails, AfterCalls
    <2>6. CASE Abandon(r) \/ WriteAudit(r)
      BY <2>6 DEF Abandon, WriteAudit
    <2>7. CASE InferGate(r) \/ Prime(r) \/ Unavailable(r) \/ InferStart(r) \/ InferEnd(r) \/ InferAbandon(r)
      BY <2>7 DEF InferGate, Prime, Unavailable, InferStart, InferEnd, InferAbandon
    <2>8. QED
      BY <1>3, <2>1, <2>2, <2>3, <2>4, <2>5, <2>6, <2>7 DEF Progress
  <1>4. CASE Midnight
    <2>1. Settled' /\ Charges' = Charges /\ spent' + past' = spent + past
      BY <1>4 DEF Midnight, Charges, Accounts
    <2>2. QED
      BY <2>1 DEF Accounts
  <1>5. CASE Restart
    <2>1. Settled' /\ UNCHANGED <<charged, spent, past>>
      BY <1>5, KindsApart DEF Restart, InFlight, Accounts, Billed
    <2>2. QED
      BY <2>1, AccountsKeep
  <1>6. CASE UNCHANGED vars
    BY <1>6, AccountsKeep DEF vars, moneyVars, Accounts
  <1>7. QED
    BY <1>1, <1>2, <1>3, <1>4, <1>5, <1>6, AccountsKeep DEF Next

------------------------------------------------------------------------------
(* The theorems.                                                           *)

Inv == Shape /\ SlotsAccounted /\ InferSlotExact /\ Money /\ Accounts

LEMMA InvInit == Init => Inv
  <1> SUFFICES ASSUME Init PROVE Inv
    OBVIOUS
  <1>1. Shape
    BY ShapeInit
  <1>2. Holding = {} /\ InferHolding = {} /\ InFlight = {}
    BY KindsApart DEF Init, Holding, InferHolding, InFlight, Billed
  <1>3. SlotsAccounted /\ InferSlotExact
    BY <1>2, FS_EmptySet, GateAssumption DEF Init, SlotsAccounted, InferSlotExact
  <1>4. Money
    <2>1. Cardinality(InFlight) = 0 /\ peak = 0 /\ ~(spent >= Budget)
      BY <1>2, FS_EmptySet, GateAssumption DEF Init
    <2>2. QED
      BY <2>1 DEF Money
  <1>5. Accounts
    <2>1. Charges = {}
      BY CostBounds DEF Init, Charges
    <2>2. QED
      BY <2>1, FS_EmptySet DEF Init, Accounts, Settled
  <1>6. QED
    BY <1>1, <1>3, <1>4, <1>5 DEF Inv

LEMMA Invariance == Spec => []Inv
  <1>1. Inv /\ [Next]_vars => Inv'
    BY ShapeStep, SlotsStep, MoneyStep, AccountsStep DEF Inv
  <1>2. QED
    BY InvInit, <1>1, PTL DEF Spec

\* Types, and the number of model calls one request can make.
THEOREM CallsAreBounded == Spec => []TypeOK
  <1>1. Inv => TypeOK
    BY DEF Inv, Shape
  <1>2. QED
    BY Invariance, <1>1, PTL

\* Every oracle slot is free or held by a stream that will give it back, for any
\* number of requests and slots (routes/oracle.py:5-6, 67-87).
THEOREM SlotsAreExact == Spec => []SlotsAccounted
  BY Invariance, PTL DEF Inv

\* The inference slot is free, or held by the one request that will give it back,
\* whatever that request fails with (routes/infer.py:45-74).
THEOREM InferSlotIsExact == Spec => []InferSlotExact
  BY Invariance, PTL DEF Inv

\* A day's spending exceeds the budget by no more than what the requests in
\* flight cost, for every budget and any number of requests (budget.py:25-39).
THEOREM BreakerHolds == Spec => []BreakerBound
  <1>1. Inv => BreakerBound
    <2> SUFFICES ASSUME Inv PROVE BreakerBound
      OBVIOUS
    <2>1. /\ Cardinality(InFlight) \in Nat /\ spent \in Nat /\ peak \in Nat /\ Budget \in Nat
      BY Finite, GateAssumption DEF Inv, Shape, TypeOK
    <2>2. MaxCost * Cardinality(InFlight) \in Nat /\ MaxCost * peak \in Nat
      BY <2>1, CostMonotone
    <2>3. QED
      BY <2>1, <2>2 DEF Inv, Money, BreakerBound
  <1>2. QED
    BY Invariance, <1>1, PTL

\* Whatever is abandoned, lost or restarted: a request is charged all its calls or
\* none, all of them unless the charge was lost, and the rows of all days hold what
\* was charged, to the unit (oracle.py:182-186, routes/jd.py:59-62).
THEOREM ChargesAreExact == Spec => []ChargedOnce
  <1>1. Inv => ChargedOnce
    BY DEF Inv, Accounts, Settled, ChargedOnce
  <1>2. QED
    BY Invariance, <1>1, PTL
=============================================================================
