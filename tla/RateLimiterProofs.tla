-------------------------- MODULE RateLimiterProofs --------------------------
(***************************************************************************)
(* Proofs about RateLimiter, for every number of clients and requests and  *)
(* every setting of the limiter.                                           *)
(*                                                                         *)
(* WindowBound is not inductive: it says nothing of what a bucket may      *)
(* still give.  Budget adds that: what was let through and what the bucket *)
(* could let through now stay within a full burst plus the accrual, unless *)
(* the bucket would overflow, and then what was let through is itself      *)
(* covered by the accrual.  The skew of the timestamps (Stamps) is what    *)
(* makes a refill out of order, and a sweep, harmless.                     *)
(***************************************************************************)
EXTENDS RateLimiter, TLAPS

\* Requests and sweeps are stamped in the recent past, and so are the buckets.
Stamps ==
  /\ \A q \in Callers : \A c \in call[q] : c.now <= clock /\ clock <= c.now + Skew
  /\ \A t \in tick : t <= clock
  /\ \A k \in known : last[k] <= clock /\ last[k] <= seen[k] + Skew

Budget ==
  /\ win = {} => \A k \in Keys : admits[k] = 0
  /\ \A w \in win : w <= clock
  /\ \A k \in Keys : \A w \in win :
       \/ Cost * admits[k] <= clock - w
       \/ /\ k \in known
          /\ Cost * admits[k] + tokens[k] + (clock - last[k]) <= Cap + Skew + (clock - w)

\* A request goroutine serves one request at a time.
OneRequest == \A q \in Callers : \A c, d \in call[q] : c = d

\* A refused client is told to return after the bucket has earned a token.
Promise == \A k \in known : due[k] # 0 => last[k] + Cost <= due[k]

Inv == TypeOK /\ Stamps /\ Budget /\ OneRequest /\ Promise

\* A token costs a natural number of credits.
LEMMA CapNat == Cap \in Nat /\ (Burst > 0 => Cost <= Cap)
  BY LimiterAssumption DEF Cap

\* One more token.
LEMMA OneMore == ASSUME NEW a \in Nat PROVE Cost * (a + 1) = Cost * a + Cost
  BY LimiterAssumption

\* Retry-After is at least the time a token takes.
LEMMA RetryCovers == RetryAfter \in Nat /\ Cost <= RetryAfter
<1> DEFINE d == Cost \div Sec
<1>1. d \in Nat /\ Cost < d * Sec + Sec
  BY LimiterAssumption, SMT
<1>2. (d + 1) * Sec = d * Sec + Sec
  BY <1>1, LimiterAssumption
<1> QED BY <1>1, <1>2, LimiterAssumption DEF RetryAfter

\* A request's credit lies in the bucket, and is no more than what the bucket
\* held and has earned since.
LEMMA CreditBounds ==
  ASSUME TypeOK, NEW k \in Keys, NEW now \in Nat
  PROVE  /\ Credit(k, now) \in 0..Cap
         /\ RefilledAt(k, now) \in Nat
         /\ k \in known => /\ RefilledAt(k, now) >= last[k]
                           /\ RefilledAt(k, now) >= now
                           /\ Credit(k, now) <= tokens[k] + (RefilledAt(k, now) - last[k])
  BY CapNat DEF TypeOK, Credit, RefilledAt, AtMost

------------------------------------------------------------------------------
LEMMA TypeStep ==
  ASSUME TypeOK, [Next]_vars
  PROVE  TypeOK'
<1> USE DEF TypeOK, Call, bucketVars, historyVars
<1>1. CASE Tick
  BY <1>1 DEF Tick
<1>2. CASE SweepTick
  BY <1>2 DEF SweepTick
<1>3. CASE Sweep
  BY <1>3, CapNat DEF Sweep, Expired
<1>4. CASE Observe
  BY <1>4 DEF Observe
<1>5. ASSUME NEW q \in Callers, Admit(q)
      PROVE  TypeOK'
  <2>1. PICK c \in call[q] :
          /\ Credit(c.key, c.now) >= Cost
          /\ Touch(c.key, c.now, Credit(c.key, c.now) - Cost)
          /\ admits' = [admits EXCEPT ![c.key] = IF win = {} THEN 0 ELSE @ + 1]
          /\ due' = [due EXCEPT ![c.key] = 0]
          /\ call' = [call EXCEPT ![q] = {}]
          /\ UNCHANGED <<clock, tick, win>>
    BY <1>5 DEF Admit
  <2>2. c.key \in Keys /\ c.now \in Nat
    OBVIOUS
  <2>3. /\ Credit(c.key, c.now) - Cost \in 0..Cap
        /\ RefilledAt(c.key, c.now) \in Nat
    BY <2>1, <2>2, CreditBounds, CapNat, LimiterAssumption
  <2>4. tokens' \in [Keys -> 0..Cap] /\ last' \in [Keys -> Nat]
    BY <2>1, <2>2, <2>3 DEF Touch
  <2> QED BY <2>1, <2>2, <2>4 DEF Touch
<1>6. ASSUME NEW q \in Callers, Deny(q)
      PROVE  TypeOK'
  <2>1. PICK c \in call[q] :
          /\ Touch(c.key, c.now, Credit(c.key, c.now))
          /\ due' = [due EXCEPT ![c.key] = clock + RetryAfter]
          /\ call' = [call EXCEPT ![q] = {}]
          /\ UNCHANGED <<clock, tick, win, admits>>
    BY <1>6 DEF Deny
  <2>2. c.key \in Keys /\ c.now \in Nat
    OBVIOUS
  <2>3. /\ Credit(c.key, c.now) \in 0..Cap
        /\ RefilledAt(c.key, c.now) \in Nat
    BY <2>2, CreditBounds
  <2>4. tokens' \in [Keys -> 0..Cap] /\ last' \in [Keys -> Nat]
    BY <2>1, <2>2, <2>3 DEF Touch
  <2> QED BY <2>1, <2>2, <2>4, RetryCovers DEF Touch
<1>7. ASSUME NEW q \in Callers, NEW k \in Keys, Enter(q, k)
      PROVE  TypeOK'
  BY <1>7 DEF Enter
<1>8. CASE UNCHANGED vars
  BY <1>8 DEF vars
<1> QED BY <1>1, <1>2, <1>3, <1>4, <1>5, <1>6, <1>7, <1>8 DEF Next

\* A bucket that a sweep drops would be more than full.
LEMMA SweptIsFull ==
  ASSUME TypeOK, Stamps, NEW t \in tick, NEW k \in Expired(t)
  PROVE  /\ k \in known /\ k \in Keys
         /\ tokens[k] + (clock - last[k]) >= Cap + Skew
  BY LimiterAssumption, SweepAssumption, CapNat DEF TypeOK, Stamps, Expired

LEMMA StampsStep ==
  ASSUME TypeOK, Stamps, [Next]_vars
  PROVE  Stamps'
<1> USE DEF TypeOK, Call, Stamps, bucketVars
<1>1. CASE Tick
  BY <1>1, LimiterAssumption DEF Tick
<1>2. CASE SweepTick
  BY <1>2 DEF SweepTick
<1>3. CASE Sweep
  BY <1>3 DEF Sweep, Expired
<1>4. CASE Observe
  BY <1>4 DEF Observe
<1>5. ASSUME NEW q \in Callers, Admit(q) \/ Deny(q)
      PROVE  Stamps'
  <2>1. PICK c \in call[q], credit \in Int :
          /\ Touch(c.key, c.now, credit)
          /\ call' = [call EXCEPT ![q] = {}]
          /\ UNCHANGED <<clock, tick>>
    <3>1. \A c \in call[q] : Credit(c.key, c.now) \in Int /\ Credit(c.key, c.now) - Cost \in Int
      BY CreditBounds, CapNat, LimiterAssumption
    <3> QED BY <1>5, <3>1 DEF Admit, Deny
  <2>2. c.key \in Keys /\ c.now \in Nat /\ c.now <= clock /\ clock <= c.now + Skew
    OBVIOUS
  <2>3. ASSUME NEW k \in known'
        PROVE  last'[k] <= clock /\ last'[k] <= seen'[k] + Skew
    <3>1. CASE k # c.key
      BY <2>1, <2>2, <3>1 DEF Touch
    <3>2. CASE k = c.key
      BY <2>1, <2>2, <3>2, LimiterAssumption DEF Touch, RefilledAt
    <3> QED BY <3>1, <3>2
  <2> QED BY <2>1, <2>3
<1>6. ASSUME NEW q \in Callers, NEW k \in Keys, Enter(q, k)
      PROVE  Stamps'
  BY <1>6, LimiterAssumption DEF Enter
<1>7. CASE UNCHANGED vars
  BY <1>7 DEF vars
<1> QED BY <1>1, <1>2, <1>3, <1>4, <1>5, <1>6, <1>7 DEF Next

\* The request of key c.key is let through or refused; in the window budget
\* its cost moves from the bucket to the count.
LEMMA BudgetServe ==
  ASSUME TypeOK, Stamps, Budget,
         NEW q \in Callers, NEW c \in call[q],
         NEW spent \in {0, Cost},
         spent <= Credit(c.key, c.now),
         Touch(c.key, c.now, Credit(c.key, c.now) - spent),
         UNCHANGED <<clock, win>>,
         admits' = IF spent = 0 THEN admits
                   ELSE [admits EXCEPT ![c.key] = IF win = {} THEN 0 ELSE @ + 1]
  PROVE  Budget'
<1> USE DEF TypeOK, Call
<1>1. /\ c.key \in Keys /\ c.now \in Nat
      /\ c.now <= clock /\ clock <= c.now + Skew
  BY DEF Stamps
<1>2. spent \in Nat /\ Cap \in Nat /\ Skew \in Nat /\ Cost \in Nat \ {0}
  BY CapNat, LimiterAssumption
<1> DEFINE k == c.key
           credit == Credit(k, c.now)
           fill == RefilledAt(k, c.now)
<1>3. /\ credit \in 0..Cap /\ fill \in Nat
      /\ k \in known => credit <= tokens[k] + (fill - last[k])
  BY <1>1, CreditBounds
<1>4. clock - fill <= Skew
  BY <1>1, <1>2 DEF RefilledAt
<1>5. /\ k \in known' /\ tokens'[k] = credit - spent /\ last'[k] = fill
      /\ \A j \in Keys \ {k} : /\ j \in known <=> j \in known'
                              /\ tokens'[j] = tokens[j] /\ last'[j] = last[j]
  BY <1>1 DEF Touch
<1>6. \A j \in Keys \ {k} : admits'[j] = admits[j]
  BY <1>1
<1>7. win = {} => \A j \in Keys : admits'[j] = 0
  BY <1>1 DEF Budget
<1>8. ASSUME NEW w \in win
      PROVE  Cost * admits'[k] + tokens'[k] + (clock' - last'[k]) <= Cap + Skew + (clock' - w)
  <2> DEFINE paid == Cost * admits[k]
  <2>1. paid \in Nat /\ w \in Nat /\ admits[k] \in Nat
    BY <1>1, <1>2
  <2>2. Cost * admits'[k] = paid + spent
    BY <1>1, <1>2, OneMore, <1>8
  <2>3. paid + credit + (clock - fill) <= Cap + Skew + (clock - w)
    <3> HIDE DEF paid, credit, fill
    <3>1. CASE paid <= clock - w
      BY <1>1, <1>2, <1>3, <1>4, <2>1, <3>1
    <3>2. CASE /\ k \in known
               /\ paid + tokens[k] + (clock - last[k]) <= Cap + Skew + (clock - w)
      BY <1>1, <1>2, <1>3, <1>4, <2>1, <3>2
    <3> QED BY <1>1, <1>8, <3>1, <3>2 DEF Budget, paid
  <2> HIDE DEF paid, credit, fill
  <2> QED BY <1>2, <1>3, <1>5, <2>1, <2>2, <2>3
<1>9. \A j \in Keys \ {k} : \A w \in win :
        \/ Cost * admits'[j] <= clock' - w
        \/ /\ j \in known'
           /\ Cost * admits'[j] + tokens'[j] + (clock' - last'[j]) <= Cap + Skew + (clock' - w)
  <2> HIDE DEF k
  <2> QED BY <1>5, <1>6 DEF Budget
<1>10. \A w \in win' : w <= clock'
  BY DEF Budget
<1> QED BY <1>1, <1>5, <1>7, <1>8, <1>9, <1>10 DEF Budget

LEMMA BudgetStep ==
  ASSUME TypeOK, Stamps, Budget, [Next]_vars
  PROVE  Budget'
<1> USE DEF TypeOK, Call
<1>1. CASE Tick
  <2>1. ASSUME NEW k \in Keys, NEW w \in win
        PROVE  \/ Cost * admits[k] <= clock + 1 - w
               \/ /\ k \in known
                  /\ Cost * admits[k] + tokens[k] + (clock + 1 - last[k])
                       <= Cap + Skew + (clock + 1 - w)
    <3> DEFINE paid == Cost * admits[k]
    <3>1. paid \in Nat /\ w \in Nat
      BY LimiterAssumption
    <3>2. \/ paid <= clock - w
          \/ /\ k \in known
             /\ paid + tokens[k] + (clock - last[k]) <= Cap + Skew + (clock - w)
      BY DEF Budget
    <3> HIDE DEF paid
    <3>3. \/ paid <= clock + 1 - w
          \/ /\ k \in known
             /\ paid + tokens[k] + (clock + 1 - last[k]) <= Cap + Skew + (clock + 1 - w)
      BY <3>1, <3>2, CapNat, LimiterAssumption
    <3> QED BY <3>3 DEF paid
  <2> QED BY <1>1, <2>1 DEF Tick, Budget, bucketVars, historyVars
<1>2. CASE SweepTick
  BY <1>2 DEF SweepTick, Budget, bucketVars, historyVars
<1>3. CASE Sweep
  <2>1. PICK t \in tick :
          /\ known' = known \ Expired(t)
          /\ tokens' = [k \in Keys |-> IF k \in Expired(t) THEN 0 ELSE tokens[k]]
          /\ last' = [k \in Keys |-> IF k \in Expired(t) THEN 0 ELSE last[k]]
          /\ UNCHANGED <<clock, win, admits>>
    BY <1>3 DEF Sweep, historyVars
  <2>2. ASSUME NEW k \in Keys, NEW w \in win
        PROVE  \/ Cost * admits[k] <= clock - w
               \/ /\ k \in known'
                  /\ Cost * admits[k] + tokens'[k] + (clock - last'[k]) <= Cap + Skew + (clock - w)
    <3>1. CASE k \notin Expired(t)
      BY <2>1, <3>1 DEF Budget
    <3>2. CASE k \in Expired(t)
      <4> DEFINE paid == Cost * admits[k]
      <4>1. paid \in Nat /\ w \in Nat
        BY LimiterAssumption
      <4>2. tokens[k] + (clock - last[k]) >= Cap + Skew
        BY <3>2, SweptIsFull
      <4>3. \/ paid <= clock - w
            \/ paid + tokens[k] + (clock - last[k]) <= Cap + Skew + (clock - w)
        BY DEF Budget
      <4> HIDE DEF paid
      <4>4. paid <= clock - w
        BY <4>1, <4>2, <4>3, CapNat, LimiterAssumption
      <4> QED BY <4>4 DEF paid
    <3> QED BY <3>1, <3>2
  <2> QED BY <2>1, <2>2 DEF Budget
<1>4. CASE Observe
  <2>1. \A k \in Keys : Cost * admits[k] = 0
    BY <1>4, LimiterAssumption DEF Observe, Budget
  <2> QED BY <1>4, <2>1 DEF Observe, Budget, bucketVars
<1>5. ASSUME NEW q \in Callers, Admit(q)
      PROVE  Budget'
  <2>1. PICK c \in call[q] :
          /\ Credit(c.key, c.now) >= Cost
          /\ Touch(c.key, c.now, Credit(c.key, c.now) - Cost)
          /\ admits' = [admits EXCEPT ![c.key] = IF win = {} THEN 0 ELSE @ + 1]
          /\ UNCHANGED <<clock, win>>
    BY <1>5 DEF Admit
  <2>2. Cost <= Credit(c.key, c.now) /\ Cost # 0
    BY <2>1, CreditBounds, CapNat, LimiterAssumption
  <2> QED BY <2>1, <2>2, BudgetServe
<1>6. ASSUME NEW q \in Callers, Deny(q)
      PROVE  Budget'
  <2>1. PICK c \in call[q] :
          /\ Touch(c.key, c.now, Credit(c.key, c.now))
          /\ UNCHANGED <<clock, win, admits>>
    BY <1>6 DEF Deny
  <2>2. 0 <= Credit(c.key, c.now) /\ Credit(c.key, c.now) - 0 = Credit(c.key, c.now)
    BY CreditBounds, CapNat
  <2> QED BY <2>1, <2>2, BudgetServe
<1>7. ASSUME NEW q \in Callers, NEW k \in Keys, Enter(q, k)
      PROVE  Budget'
  BY <1>7 DEF Enter, Budget, bucketVars, historyVars
<1>8. CASE UNCHANGED vars
  BY <1>8 DEF vars, Budget
<1> QED BY <1>1, <1>2, <1>3, <1>4, <1>5, <1>6, <1>7, <1>8 DEF Next

LEMMA OneRequestStep ==
  ASSUME TypeOK, OneRequest, [Next]_vars
  PROVE  OneRequest'
  BY DEF TypeOK, OneRequest, Next, vars, Tick, SweepTick, Sweep, Observe, Admit,
         Deny, Enter

LEMMA PromiseStep ==
  ASSUME TypeOK, Stamps, Promise, [Next]_vars
  PROVE  Promise'
<1> USE DEF TypeOK, Call
<1>1. ASSUME NEW q \in Callers, Admit(q)
      PROVE  Promise'
  <2>1. PICK c \in call[q] :
          /\ known' = known \cup {c.key}
          /\ last' = [last EXCEPT ![c.key] = RefilledAt(c.key, c.now)]
          /\ due' = [due EXCEPT ![c.key] = 0]
    BY <1>1 DEF Admit, Touch
  <2> QED BY <2>1 DEF Promise
<1>2. ASSUME NEW q \in Callers, Deny(q)
      PROVE  Promise'
  <2>1. PICK c \in call[q] :
          /\ known' = known \cup {c.key}
          /\ last' = [last EXCEPT ![c.key] = RefilledAt(c.key, c.now)]
          /\ due' = [due EXCEPT ![c.key] = clock + RetryAfter]
    BY <1>2 DEF Deny, Touch
  <2>2. /\ c.key \in Keys /\ RefilledAt(c.key, c.now) \in Nat
        /\ RefilledAt(c.key, c.now) <= clock
    BY DEF Stamps, RefilledAt
  <2>3. RefilledAt(c.key, c.now) + Cost <= clock + RetryAfter
    BY <2>2, RetryCovers, LimiterAssumption
  <2> QED BY <2>1, <2>2, <2>3 DEF Promise
<1>3. CASE Sweep
  BY <1>3 DEF Sweep, Promise, Expired, historyVars
<1>4. CASE Tick \/ SweepTick \/ Observe \/ UNCHANGED vars
  BY <1>4 DEF Tick, SweepTick, Observe, vars, Promise, bucketVars, historyVars
<1>5. ASSUME NEW q \in Callers, NEW k \in Keys, Enter(q, k)
      PROVE  Promise'
  BY <1>5 DEF Enter, Promise, bucketVars, historyVars
<1> QED BY <1>1, <1>2, <1>3, <1>4, <1>5 DEF Next

LEMMA InvInit == Init => Inv
  BY CapNat DEF Init, Inv, TypeOK, Stamps, Budget, OneRequest, Promise

LEMMA Invariance == Spec => []Inv
<1>1. Inv /\ [Next]_vars => Inv'
  BY TypeStep, StampsStep, BudgetStep, OneRequestStep, PromiseStep DEF Inv
<1> QED BY InvInit, <1>1, PTL DEF Spec

------------------------------------------------------------------------------
\* The model's variables keep their types; in particular no bucket holds a
\* negative credit or more than a full burst (ratelimit.go:64-86).
THEOREM BucketsAreSound == Spec => []TypeOK
  BY Invariance, PTL DEF Inv

\* For every number of clients and requests and every setting: in any window
\* a client gets through at most a burst and the accrual (ratelimit.go:64-100).
THEOREM WindowIsBounded == Spec => []WindowBound
<1>1. Inv => WindowBound
  <2> SUFFICES ASSUME Inv, NEW k \in Keys, NEW w \in win
               PROVE  Cost * admits[k] <= Cap + Skew + (clock - w)
    BY DEF WindowBound
  <2> DEFINE paid == Cost * admits[k]
  <2>1. paid \in Nat /\ w \in Nat /\ w <= clock /\ clock \in Nat
    BY LimiterAssumption DEF Inv, TypeOK, Budget
  <2>2. \/ paid <= clock - w
        \/ /\ k \in known
           /\ paid + tokens[k] + (clock - last[k]) <= Cap + Skew + (clock - w)
    BY DEF Inv, Budget
  <2>3. k \in known => tokens[k] \in Nat /\ last[k] \in Nat /\ last[k] <= clock
    BY CapNat DEF Inv, TypeOK, Stamps
  <2> HIDE DEF paid
  <2>4. paid <= Cap + Skew + (clock - w)
    BY <2>1, <2>2, <2>3, CapNat, LimiterAssumption
  <2> QED BY <2>4 DEF paid
<1> QED BY Invariance, <1>1, PTL

\* The sweeper drops no bucket that a request would still find short
\* (ratelimit.go:88-100).
THEOREM SweepIsHarmless == Spec => SweepForgivesNothing
<1>1. ASSUME Inv, [Next]_vars, NEW k \in Keys, k \in known, k \notin known'
      PROVE  tokens[k] + (clock - last[k]) >= Cap
  <2>1. Sweep
    BY <1>1 DEF Next, vars, Tick, SweepTick, Observe, Admit, Deny, Enter, Touch,
                bucketVars
  <2>2. PICK t \in tick : k \in Expired(t)
    BY <1>1, <2>1 DEF Sweep
  <2> QED BY <1>1, <2>2, SweptIsFull, CapNat, LimiterAssumption DEF Inv, TypeOK
<1>2. Inv /\ [Next]_vars =>
        [\A k \in Keys : k \in known /\ k \notin known' =>
            tokens[k] + (clock - last[k]) >= Cap]_vars
  BY <1>1
<1> QED BY Invariance, <1>2, PTL DEF Spec, SweepForgivesNothing

\* Retry-After is long enough, for every rate, to the second
\* (ratelimit.go:103-114).
THEOREM RetryAfterSuffices == Spec => RetryIsHonoured
<1>1. ASSUME Inv, NEW q \in Callers, NEW c \in call[q], Deny(q), Burst > 0,
             due[c.key] # 0
      PROVE  c.now < due[c.key]
  <2>1. Credit(c.key, c.now) < Cost
    BY <1>1 DEF Deny, Inv, OneRequest
  <2>2. /\ c.key \in Keys /\ c.now \in Nat
        /\ last[c.key] \in Nat /\ due[c.key] \in Nat /\ tokens[c.key] \in 0..Cap
    BY <1>1 DEF Inv, TypeOK, Call
  <2>3. c.key \in known
    BY <1>1, <2>1, CapNat, LimiterAssumption DEF Credit
  <2>4. last[c.key] + Cost <= due[c.key]
    BY <1>1, <2>3 DEF Inv, Promise
  <2>5. SUFFICES ASSUME c.now >= due[c.key] PROVE FALSE
    BY <2>2
  <2>6. Credit(c.key, c.now) = AtMost(Cap, tokens[c.key] + (c.now - last[c.key]))
    BY <2>2, <2>3, <2>4, <2>5, LimiterAssumption DEF Credit
  <2> QED BY <1>1, <2>1, <2>2, <2>4, <2>5, <2>6, CapNat, LimiterAssumption DEF AtMost
<1>2. Inv /\ [Next]_vars =>
        [\A q \in Callers : \A c \in call[q] :
            Deny(q) /\ Burst > 0 => due[c.key] = 0 \/ c.now < due[c.key]]_vars
  BY <1>1
<1> QED BY Invariance, <1>2, PTL DEF Spec, RetryIsHonoured
==============================================================================
