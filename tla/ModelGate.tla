------------------------------ MODULE ModelGate ------------------------------
(***************************************************************************)
(* The routes of services/ai that cost something: the oracle (a streamed   *)
(* agent), the forms (jd and theme: one model call and one repair) and the *)
(* local inference demo.  They share one event loop: a step of the model   *)
(* is what a coroutine does between two awaits.                            *)
(*                                                                         *)
(* Oracle and forms share a daily budget, a row in Postgres that is read   *)
(* before any model call and charged after the last one.  The oracle also  *)
(* holds one of MaxStreams slots, given back by the generator that streams *)
(* the answer; the inference demo holds the only slot of its own.          *)
(*                                                                         *)
(* What the server does with a response whose client has gone (uvicorn,    *)
(* Starlette, anyio) is external.  A plain handler is left to finish.  A   *)
(* streaming response is cancelled in an await inside the generator, or    *)
(* left at a yield, after which the abandoned generator is closed by the   *)
(* loop's finalizer.  Its generator is always entered: a task that has not *)
(* taken its first step is not cancelled, and sending to a client that is  *)
(* gone returns at once, so of a client that leaves during the guards the  *)
(* model shows Start and then Abandon.  Each completed model call costs    *)
(* one unit.                                                               *)
(***************************************************************************)
EXTENDS Naturals, FiniteSets

CONSTANTS
  Oracles, Forms, Infers, \* the requests
  MaxStreams,   \* oracle slots (cfg.max_streams)
  ToolRounds,   \* cfg.tool_rounds_max
  Budget        \* cfg.daily_budget_usd

Billed == Oracles \cup Forms
Requests == Billed \cup Infers

ASSUME GateAssumption ==
  /\ IsFiniteSet(Requests)
  /\ Oracles \cap Forms = {} /\ Billed \cap Infers = {}
  /\ MaxStreams \in Nat /\ ToolRounds \in Nat /\ Budget \in Nat \ {0}

VARIABLES
  pc,         \* pc[r]: where the coroutine serving r is
  slots,      \* the value of oracle_sem
  inferSlots, \* the value of infer_sem
  calls,      \* calls[r]: the model calls of r that have completed
  metering,   \* requests whose shielded _meter outlives their generator
  spent,      \* today's row of oracle_spend
  past,       \* history: what was spent on earlier days
  charged,    \* history: charged[r], what was charged for r
  lost,       \* history: requests whose charge was lost (database, restart)
  peak        \* history: the most requests ever past the budget check at once

gateVars == <<slots, inferSlots>>
moneyVars == <<spent, past, charged, lost>>
vars == <<pc, gateVars, calls, metering, moneyVars, peak>>

Init ==
  /\ pc = [r \in Requests |-> "idle"]
  /\ slots = MaxStreams
  /\ inferSlots = 1
  /\ calls = [r \in Requests |-> 0]
  /\ metering = {}
  /\ spent = 0
  /\ past = 0
  /\ charged = [r \in Requests |-> 0]
  /\ lost = {}
  /\ peak = 0

\* Requests that saw money left and are not yet charged.
InFlight ==
  metering \cup
  {r \in Billed : pc[r] \in {"gate", "ready", "call", "tools", "answer", "meter"}}

\* Oracle requests whose generator will give the slot back.
Holding == {r \in Oracles : pc[r] \in {"ready", "call", "tools", "answer", "meter", "audit"}}

InferHolding == {r \in Infers : pc[r] \in {"prime", "primed", "infer"}}

AtLeast(a, b) == IF a >= b THEN a ELSE b

Goto(r, from, to) ==
  /\ pc[r] = from
  /\ pc' = [pc EXCEPT ![r] = to]

------------------------------------------------------------------------------
(* The guards, in the order of the handlers.                               *)

Arrive(r) ==
  /\ Goto(r, "idle", "guard")
  /\ UNCHANGED <<gateVars, calls, metering, moneyVars, peak>>

\* No model configured, over the address's rate, or Turnstile said no.
Refuse(r) ==
  /\ Goto(r, "guard", "end")
  /\ UNCHANGED <<gateVars, calls, metering, moneyVars, peak>>

\* Mutant: an unknown or spent budget lets the request through.
ReadBudgetOpen(r) ==
  /\ r \in Billed
  /\ Goto(r, "guard", "gate")
  /\ UNCHANGED <<gateVars, calls, metering, moneyVars>>
  /\ peak' = AtLeast(peak, Cardinality(InFlight'))

\* budget_remaining: 503 if nothing is left or the database fails, which it may
\* at any time.  The coroutine goes on later, with what it read.
ReadBudget(r) ==
  /\ r \in Billed
  /\ \/ spent < Budget /\ Goto(r, "guard", "gate")
     \/ Goto(r, "guard", "end")
  /\ UNCHANGED <<gateVars, calls, metering, moneyVars>>
  /\ peak' = AtLeast(peak, Cardinality(InFlight'))

\* sem.locked() and sem.acquire() with no await between them.
Gate(r) ==
  /\ r \in Oracles
  /\ \/ slots > 0 /\ slots' = slots - 1 /\ Goto(r, "gate", "ready")
     \/ slots = 0 /\ slots' = slots /\ Goto(r, "gate", "end")
  /\ UNCHANGED <<inferSlots, calls, metering, moneyVars, peak>>

\* A form takes no slot: analyze_jd and generate_palette start at once.
FormStart(r) ==
  /\ r \in Forms
  /\ Goto(r, "gate", "call")
  /\ UNCHANGED <<gateVars, calls, metering, moneyVars, peak>>

------------------------------------------------------------------------------
(* The oracle's generator, and the calls of a form.                        *)

\* The server iterates the response: _gen and run_oracle start.
Start(r) ==
  /\ Goto(r, "ready", "call")
  /\ UNCHANGED <<gateVars, calls, metering, moneyVars, peak>>

\* The response cannot be constructed: _gen will not run, the route releases.
ResponseFails(r) ==
  /\ Goto(r, "ready", "end")
  /\ slots' = slots + 1
  /\ UNCHANGED <<inferSlots, calls, metering, moneyVars, peak>>

MaxRounds(r) == IF r \in Oracles THEN ToolRounds ELSE 1

\* Mutant: the last round may ask for tools, too.
CallMoreAlways(r) ==
  /\ Goto(r, "call", "tools")
  /\ calls' = [calls EXCEPT ![r] = @ + 1]
  /\ UNCHANGED <<gateVars, metering, moneyVars, peak>>

\* A call completes and asks for tools (oracle) or for a repair (form).
CallMore(r) ==
  /\ calls[r] < MaxRounds(r)
  /\ Goto(r, "call", "tools")
  /\ calls' = [calls EXCEPT ![r] = @ + 1]
  /\ UNCHANGED <<gateVars, metering, moneyVars, peak>>

\* What remains: an oracle still has frames to yield.
AfterCalls(r) == IF r \in Oracles THEN "answer" ELSE "meter"

CallLast(r) ==
  /\ Goto(r, "call", AfterCalls(r))
  /\ calls' = [calls EXCEPT ![r] = @ + 1]
  /\ UNCHANGED <<gateVars, metering, moneyVars, peak>>

\* The call raises; what completed before it is still charged.
CallFails(r) ==
  /\ Goto(r, "call", AfterCalls(r))
  /\ UNCHANGED <<gateVars, calls, metering, moneyVars, peak>>

ToolsDone(r) ==
  /\ Goto(r, "tools", "call")
  /\ UNCHANGED <<gateVars, calls, metering, moneyVars, peak>>

Answered(r) ==
  /\ Goto(r, "answer", "meter")
  /\ UNCHANGED <<gateVars, calls, metering, moneyVars, peak>>

\* Mutant: the meter is awaited without a shield and is cancelled as well.
AbandonUnshielded(r) ==
  /\ r \in Oracles
  /\ pc[r] \in {"call", "tools", "answer", "meter", "audit"}
  /\ pc' = [pc EXCEPT ![r] = "end"]
  /\ slots' = slots + 1
  /\ UNCHANGED <<inferSlots, calls, metering, moneyVars, peak>>

\* The started generator is cancelled or closed: run_oracle's finally shields
\* the meter, which goes on by itself, and _gen's finally gives the slot back.
Abandon(r) ==
  /\ r \in Oracles
  /\ pc[r] \in {"call", "tools", "answer", "meter", "audit"}
  /\ metering' = IF pc[r] = "audit" THEN metering ELSE metering \cup {r}
  /\ pc' = [pc EXCEPT ![r] = "end"]
  /\ slots' = slots + 1
  /\ UNCHANGED <<inferSlots, calls, moneyVars, peak>>

------------------------------------------------------------------------------
(* _meter.                                                                 *)

\* add_spend: one upsert; a failure is logged and forgotten.
AddSpend(r) ==
  \/ /\ spent' = spent + calls[r]
     /\ charged' = [charged EXCEPT ![r] = @ + calls[r]]
     /\ UNCHANGED <<past, lost>>
  \/ /\ lost' = lost \cup {r}
     /\ UNCHANGED <<spent, past, charged>>

Meter(r) ==
  /\ Goto(r, "meter", IF r \in Oracles THEN "audit" ELSE "end")
  /\ AddSpend(r)
  /\ UNCHANGED <<gateVars, calls, metering, peak>>

MeterAlone(r) ==
  /\ r \in metering
  /\ metering' = metering \ {r}
  /\ AddSpend(r)
  /\ UNCHANGED <<pc, gateVars, calls, peak>>

\* Mutant: the generator's finally does not release.
WriteAuditKeeps(r) ==
  /\ Goto(r, "audit", "end")
  /\ UNCHANGED <<gateVars, calls, metering, moneyVars, peak>>

\* write_audit returns, whatever became of it, and _gen's finally releases.
WriteAudit(r) ==
  /\ Goto(r, "audit", "end")
  /\ slots' = slots + 1
  /\ UNCHANGED <<inferSlots, calls, metering, moneyVars, peak>>

------------------------------------------------------------------------------
(* Local inference: the route primes the generator before it answers.      *)

InferGate(r) ==
  /\ r \in Infers
  /\ \/ inferSlots > 0 /\ inferSlots' = inferSlots - 1 /\ Goto(r, "guard", "prime")
     \/ inferSlots = 0 /\ inferSlots' = inferSlots /\ Goto(r, "guard", "end")
  /\ UNCHANGED <<slots, calls, metering, moneyVars, peak>>

\* The first frame is in hand.
Prime(r) ==
  /\ Goto(r, "prime", "primed")
  /\ UNCHANGED <<gateVars, calls, metering, moneyVars, peak>>

\* Ollama is away or failed before the first frame: the generator's finally
\* has released when the 503 is sent.
Unavailable(r) ==
  /\ Goto(r, "prime", "end")
  /\ inferSlots' = inferSlots + 1
  /\ UNCHANGED <<slots, calls, metering, moneyVars, peak>>

InferStart(r) ==
  /\ Goto(r, "primed", "infer")
  /\ UNCHANGED <<gateVars, calls, metering, moneyVars, peak>>

InferEnd(r) ==
  /\ Goto(r, "infer", "end")
  /\ inferSlots' = inferSlots + 1
  /\ UNCHANGED <<slots, calls, metering, moneyVars, peak>>

\* Mutant: a response that fails before it is iterated leaves the generator open.
InferAbandonUnprimed(r) ==
  /\ pc[r] \in {"primed", "infer"}
  /\ pc' = [pc EXCEPT ![r] = "end"]
  /\ inferSlots' = IF pc[r] = "primed" THEN inferSlots ELSE inferSlots + 1
  /\ UNCHANGED <<slots, calls, metering, moneyVars, peak>>

\* The generator, at a yield since it was primed, is cancelled or closed, also if
\* the response fails before it is iterated (aclose).
InferAbandon(r) ==
  /\ pc[r] \in {"primed", "infer"}
  /\ pc' = [pc EXCEPT ![r] = "end"]
  /\ inferSlots' = inferSlots + 1
  /\ UNCHANGED <<slots, calls, metering, moneyVars, peak>>

------------------------------------------------------------------------------
(* The world.                                                              *)

\* CURRENT_DATE changes: there is no row yet for the new day.
Midnight ==
  /\ past' = past + spent
  /\ spent' = 0
  /\ UNCHANGED <<pc, gateVars, calls, metering, charged, lost, peak>>

\* The process is replaced: requests and meters die, the row stays.
Restart ==
  /\ lost' = lost \cup (InFlight \ {r \in Billed : calls[r] = 0})
  /\ pc' = [r \in Requests |-> IF pc[r] = "idle" THEN "idle" ELSE "end"]
  /\ slots' = MaxStreams
  /\ inferSlots' = 1
  /\ metering' = {}
  /\ UNCHANGED <<calls, spent, past, charged, peak>>

Progress(r) ==
  \/ Refuse(r) \/ ReadBudget(r) \/ Gate(r) \/ FormStart(r)
  \/ Start(r) \/ ResponseFails(r) \/ CallMore(r) \/ CallLast(r) \/ CallFails(r)
  \/ ToolsDone(r) \/ Answered(r) \/ Abandon(r)
  \/ Meter(r) \/ MeterAlone(r) \/ WriteAudit(r)
  \/ InferGate(r) \/ Prime(r) \/ Unavailable(r) \/ InferStart(r) \/ InferEnd(r)
  \/ InferAbandon(r)

Next ==
  \/ \E r \in Requests : Arrive(r) \/ Progress(r)
  \/ Midnight \/ Restart

Spec == Init /\ [][Next]_vars

------------------------------------------------------------------------------
(* Properties.                                                             *)

MaxCost == AtLeast(ToolRounds, 1) + 1

\* The oracle makes at most ToolRounds + 1 model calls, a form at most two.
TypeOK ==
  /\ pc \in [Requests -> {"idle", "guard", "gate", "ready", "call", "tools",
                          "answer", "meter", "audit", "prime", "primed", "infer", "end"}]
  /\ slots \in Nat /\ inferSlots \in Nat
  /\ calls \in [Requests -> 0..MaxCost]
  /\ metering \in SUBSET Oracles
  /\ spent \in Nat /\ past \in Nat
  /\ charged \in [Requests -> Nat]
  /\ lost \in SUBSET Requests
  /\ peak \in Nat

\* "The slot is released exactly once in the generator's finally - freed even
\* on client disconnect" (routes/oracle.py:5-6, 67-87): whatever ends a stream -
\* its answer, an error, a response that fails, a disconnect at any await or
\* yield - gives its slot back once, and a slot that is taken belongs to a
\* stream that is still served.
SlotsAccounted == slots + Cardinality(Holding) = MaxStreams

\* The inference slot is never lost nor given back twice, also when the client
\* leaves between the priming and the response (routes/infer.py:45-74).
InferSlotExact == inferSlots + Cardinality(InferHolding) = 1

\* The breaker is checked before and charged after: a day's spending exceeds
\* the budget by no more than what the requests then in flight still cost,
\* however reads, calls, charges, midnights and restarts interleave
\* (budget.py:25-39, routes/oracle.py:60-65).
BreakerBound == spent < Budget + MaxCost * peak

\* Every unit charged, by request: no request's calls cost more than MaxCost.
Charges == {u \in Requests \X (1..MaxCost) : u[2] <= charged[u[1]]}

\* What a request's completed calls cost is charged once, unless the database
\* or the process failed at that moment: not twice, and not never
\* (oracle.py:182-186, routes/jd.py:59-62).
ChargedOnce ==
  /\ Cardinality(Charges) = spent + past
  /\ \A r \in Requests :
       /\ charged[r] \in {0, calls[r]}
       /\ pc[r] = "end" /\ calls[r] > 0 /\ r \notin metering \cup lost => charged[r] = calls[r]
==============================================================================
