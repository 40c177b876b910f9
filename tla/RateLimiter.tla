----------------------------- MODULE RateLimiter -----------------------------
(***************************************************************************)
(* The per-client token bucket of services/core                            *)
(* (middleware/ratelimit.go), which every API route and, with stricter     *)
(* settings, every lab route sits behind.                                  *)
(*                                                                         *)
(* A request reads the clock, then waits for the limiter's mutex: several  *)
(* requests may reach a bucket out of the order of their timestamps.  A    *)
(* sweeper deletes buckets that have been idle for longer than the TTL.    *)
(*                                                                         *)
(* Credit and time share a unit: a bucket earns one credit per clock tick  *)
(* and a request costs Cost credits, so Cost is 1/rps in ticks and Cap is  *)
(* burst tokens.                                                           *)
(***************************************************************************)
EXTENDS Integers

CONSTANTS
  Keys,       \* client addresses
  Callers,    \* request goroutines
  Cost,       \* credits per token: 1/rps in ticks
  Burst,      \* tokens in a full bucket
  TTL,        \* idle time after which a bucket may be swept (10 min)
  Skew,       \* how long a request may wait between its clock read and mu
  Sec,        \* ticks per second: Retry-After is in whole seconds
  MaxClock    \* bound: clock ticks in a behaviour

Cap == Burst * Cost

ASSUME LimiterAssumption ==
  /\ Cost \in Nat \ {0} /\ Burst \in Nat
  /\ TTL \in Nat /\ Skew \in Nat /\ MaxClock \in Nat
  /\ Sec \in Nat \ {0}

\* Mutant: rounded down.
RetryFloor == (Cost \div Sec) * Sec

\* The Retry-After of a refusal, int(1/rps) + 1 seconds, in ticks.
RetryAfter == (Cost \div Sec + 1) * Sec

\* A bucket that is swept has been idle long enough to be full again.  The
\* code fixes the TTL at ten minutes and leaves rps and burst to the
\* environment, so this is an assumption on the configuration.
ASSUME SweepAssumption == Cap + 2 * Skew <= TTL + 1

VARIABLES
  clock,
  call,     \* call[q]: q's request, {} or {[key, now]}
  known,    \* the keys of l.buckets
  tokens,   \* tokens[k], in credits
  last,     \* last[k]: time of the last refill
  seen,     \* seen[k]: timestamp of the last request
  tick,     \* the sweeper's pending tick: {} or {its time}
  win,      \* history: the start of an observation window, {} or {time}
  admits,   \* history: admits[k], requests let through in the window
  due       \* history: due[k], when a refused client was told to return (0: -)

vars == <<clock, call, known, tokens, last, seen, tick, win, admits, due>>
bucketVars == <<known, tokens, last, seen>>
historyVars == <<win, admits, due>>

Init ==
  /\ clock = 1
  /\ call = [q \in Callers |-> {}]
  /\ known = {}
  /\ tokens = [k \in Keys |-> 0]
  /\ last = [k \in Keys |-> 0]
  /\ seen = [k \in Keys |-> 0]
  /\ tick = {}
  /\ win = {}
  /\ admits = [k \in Keys |-> 0]
  /\ due = [k \in Keys |-> 0]

------------------------------------------------------------------------------
\* Time passes; no request is held up at the mutex for longer than Skew.
Tick ==
  /\ clock < MaxClock
  /\ \A q \in Callers : \A c \in call[q] : clock + 1 <= c.now + Skew
  /\ clock' = clock + 1
  /\ UNCHANGED <<call, bucketVars, tick, historyVars>>

\* Middleware: time.Now() is read before allow takes the mutex.
Enter(q, k) ==
  /\ call[q] = {}
  /\ call' = [call EXCEPT ![q] = {[key |-> k, now |-> clock]}]
  /\ UNCHANGED <<clock, bucketVars, tick, historyVars>>

AtMost(a, b) == IF a <= b THEN a ELSE b

\* Mutant: a full bucket keeps on filling.
CreditUncapped(k, now) ==
  IF k \notin known THEN Cap
  ELSE IF now > last[k] THEN tokens[k] + (now - last[k])
  ELSE tokens[k]

\* The bucket's credit for a request stamped now: a new bucket is full, an
\* old one is refilled by the time elapsed, if any.
Credit(k, now) ==
  IF k \notin known THEN Cap
  ELSE IF now > last[k] THEN AtMost(Cap, tokens[k] + (now - last[k]))
  ELSE tokens[k]

\* Mutant: b.last = now outside of the elapsed > 0 guard.
RefilledAtAlways(k, now) == now

RefilledAt(k, now) == IF k \in known /\ now <= last[k] THEN last[k] ELSE now

Touch(k, now, credit) ==
  /\ known' = known \cup {k}
  /\ tokens' = [tokens EXCEPT ![k] = credit]
  /\ last' = [last EXCEPT ![k] = RefilledAt(k, now)]
  /\ seen' = [seen EXCEPT ![k] = now]

\* allow returns true.
Admit(q) ==
  \E c \in call[q] :
    /\ Credit(c.key, c.now) >= Cost
    /\ Touch(c.key, c.now, Credit(c.key, c.now) - Cost)
    /\ admits' = [admits EXCEPT ![c.key] = IF win = {} THEN 0 ELSE @ + 1]
    /\ due' = [due EXCEPT ![c.key] = 0]
    /\ call' = [call EXCEPT ![q] = {}]
    /\ UNCHANGED <<clock, tick, win>>

\* allow returns false: 429 with Retry-After.
Deny(q) ==
  \E c \in call[q] :
    /\ Credit(c.key, c.now) < Cost
    /\ Touch(c.key, c.now, Credit(c.key, c.now))
    /\ due' = [due EXCEPT ![c.key] = clock + RetryAfter]
    /\ call' = [call EXCEPT ![q] = {}]
    /\ UNCHANGED <<clock, tick, win, admits>>

\* The sweeper's ticker fires; the sweep itself waits for the mutex.
SweepTick ==
  /\ tick = {}
  /\ tick' = {clock}
  /\ UNCHANGED <<clock, call, bucketVars, historyVars>>

\* Mutant: the sweep deletes every bucket.
ExpiredAll(t) == known

Expired(t) == {k \in known : t - seen[k] > TTL}

Sweep ==
  \E t \in tick :
    /\ tick' = {}
    /\ known' = known \ Expired(t)
    /\ tokens' = [k \in Keys |-> IF k \in Expired(t) THEN 0 ELSE tokens[k]]
    /\ last' = [k \in Keys |-> IF k \in Expired(t) THEN 0 ELSE last[k]]
    /\ seen' = [k \in Keys |-> IF k \in Expired(t) THEN 0 ELSE seen[k]]
    /\ UNCHANGED <<clock, call, historyVars>>

\* History: an observer starts counting, once.
Observe ==
  /\ win = {}
  /\ win' = {clock}
  /\ UNCHANGED <<clock, call, bucketVars, tick, admits, due>>

Next ==
  \/ Tick \/ SweepTick \/ Sweep \/ Observe
  \/ \E q \in Callers : Admit(q) \/ Deny(q) \/ \E k \in Keys : Enter(q, k)

Spec == Init /\ [][Next]_vars

------------------------------------------------------------------------------
(* Properties.                                                             *)

Call == [key : Keys, now : Nat]

TypeOK ==
  /\ clock \in Nat
  /\ call \in [Callers -> SUBSET Call]
  /\ known \in SUBSET Keys
  /\ tokens \in [Keys -> 0..Cap]
  /\ last \in [Keys -> Nat]
  /\ seen \in [Keys -> Nat]
  /\ tick \in SUBSET Nat
  /\ win \in SUBSET Nat
  /\ admits \in [Keys -> Nat]
  /\ due \in [Keys -> Nat]

\* Whenever one starts counting, a client gets through at most a full burst
\* plus what accrues meanwhile, however requests overtake each other on the
\* way to the mutex and whenever the sweeper runs; time spent waiting for the
\* mutex counts as accrual (ratelimit.go:64-100).
WindowBound ==
  \A k \in Keys : \A w \in win : Cost * admits[k] <= Cap + Skew + (clock - w)

\* Sweeping forgives nothing: a bucket is dropped only when it would be full
\* (ratelimit.go:88-100).
SweepForgivesNothing ==
  [][\A k \in Keys : k \in known /\ k \notin known' => tokens[k] + (clock - last[k]) >= Cap]_vars

\* A client that was refused and comes back when Retry-After says so is let
\* through, unless another request of its key was let through in between
\* (ratelimit.go:103-114).
RetryIsHonoured ==
  [][\A q \in Callers : \A c \in call[q] :
       Deny(q) /\ Burst > 0 => due[c.key] = 0 \/ c.now < due[c.key]]_vars
==============================================================================
