---------------------------- MODULE UptimeProofs ----------------------------
(***************************************************************************)
(* Proofs about Uptime for any targets, any clock and any number of        *)
(* rounds.                                                                 *)
(***************************************************************************)
EXTENDS Uptime, FiniteSetTheorems, SequenceTheorems, TLAPS

Clock == {WallClock[i] : i \in Nat}
Round == [time : Clock, up : [Targets -> BOOLEAN]]
Sample == [ts : Clock, up : BOOLEAN]
Durations == {Duration(c, d) : c, d \in Clock}
Incident == [target : Targets, start : Clock, end : SUBSET Clock, durationS : SUBSET Durations]

(* Typing, with what a fold under way needs to know.                       *)
Typed ==
  /\ alive \in SUBSET Targets /\ Self \subseteq alive
  /\ wasUp \in SUBSET Targets /\ wasDown \in SUBSET Targets
  /\ ctxDone \in BOOLEAN /\ due \in BOOLEAN
  /\ pc \in {"probing", "folding", "select", "returned"}
  /\ left \in SUBSET Targets
  /\ results \in [Targets -> BOOLEAN]
  /\ next \in 1..(Len(Probes) + 1)
  /\ samples \in [Targets -> Seq(Sample)]
  /\ last \in [Targets -> BOOLEAN]
  /\ seen \in SUBSET Targets
  /\ incidents \in Seq(Incident)
  /\ rounds \in Seq(Round)
  /\ pc = "folding" => /\ next <= Len(Probes) /\ Len(rounds) > 0
                       /\ rounds[Len(rounds)].up = results

LEMMA ProbeNames ==
  /\ Len(Probes) \in Nat /\ Len(Probes) > 0
  /\ \A k \in 1..Len(Probes) : Probes[k] \in Targets
  /\ \A t \in Targets : \E k \in 1..Len(Probes) : t = Probes[k]
  /\ \A j, k \in 1..Len(Probes) : Probes[j] = Probes[k] => j = k
  BY UptimeAssumption DEF Targets

\* The last n of a sequence, and what Append does to them.
LEMMA LastNFacts ==
  ASSUME NEW S, NEW s \in Seq(S), NEW n \in Nat
  PROVE  /\ LastN(s, n) \in Seq(S)
         /\ Len(LastN(s, n)) = IF Len(s) > n THEN n ELSE Len(s)
         /\ \A c \in 0..(Len(LastN(s, n)) - 1) :
              LastN(s, n)[Len(LastN(s, n)) - c] = s[Len(s) - c]
  <1>1. PICK l \in Nat : l = Len(s)
    BY LenProperties
  <1>2. PICK m \in Int : m = IF l > n THEN l - n + 1 ELSE 1
    <2>1. (IF l > n THEN l - n + 1 ELSE 1) \in Int
      OBVIOUS
    <2>2. QED
      BY <2>1, Zenon
  <1>3. m > 0 /\ m <= l + 1 /\ l - m + 1 = IF l > n THEN n ELSE l
    BY <1>2
  <1>4. PICK t : t = SubSeq(s, m, l)
    OBVIOUS
  <1>5. \A i \in m..l : s[i] \in S
    BY <1>1, <1>3, ElementOfSeq
  <1>6. /\ t \in Seq(S)
        /\ Len(t) = IF m <= l THEN l - m + 1 ELSE 0
        /\ \A i \in 1..(l - m + 1) : t[i] = s[m + i - 1]
    BY <1>4, <1>5, SubSeqProperties
  <1>7. Len(t) = l - m + 1
    BY <1>3, <1>6
  <1>8. \A c \in 0..(l - m) : t[l - m + 1 - c] = s[l - c]
    <2> SUFFICES ASSUME NEW c \in 0..(l - m) PROVE t[l - m + 1 - c] = s[l - c]
      OBVIOUS
    <2>1. PICK i \in 1..(l - m + 1) : i = l - m + 1 - c
      OBVIOUS
    <2>2. m + i - 1 = l - c
      BY <2>1
    <2>3. QED
      BY <1>6, <2>1, <2>2
  <1>9. LastN(s, n) = t
    BY <1>1, <1>2, <1>4 DEF LastN
  <1>10. \A c \in 0..(Len(t) - 1) : t[Len(t) - c] = s[l - c]
    BY <1>7, <1>8, l - m + 1 - 1 = l - m
  <1>11. Len(t) = IF l > n THEN n ELSE l
    BY <1>3, <1>7
  <1>12. QED
    BY <1>1, <1>6, <1>9, <1>10, <1>11, Zenon

LEMMA LastNAppend ==
  ASSUME NEW S, NEW s \in Seq(S), NEW x \in S, NEW n \in Nat \ {0}, Len(s) <= n
  PROVE  LET l == LastN(Append(s, x), n)
         IN  /\ l \in Seq(S)
             /\ Len(l) = IF Len(s) = n THEN n ELSE Len(s) + 1
             /\ l[Len(l)] = x
             /\ \A c \in 1..(Len(l) - 1) : l[Len(l) - c] = s[Len(s) - (c - 1)]
  <1>1. PICK m \in Nat : m = Len(s)
    BY LenProperties
  <1>2. PICK a \in Seq(S) : a = Append(s, x)
    BY AppendProperties, Zenon
  <1>3. Len(a) = m + 1 /\ a[m + 1] = x /\ \A i \in 1..m : a[i] = s[i]
    BY <1>1, <1>2
  <1>4. PICK l \in Seq(S) : l = LastN(a, n)
    BY LastNFacts
  <1>5. /\ Len(l) = IF m + 1 > n THEN n ELSE m + 1
        /\ \A c \in 0..(Len(l) - 1) : l[Len(l) - c] = a[m + 1 - c]
    BY <1>3, <1>4, LastNFacts
  <1>6. PICK k \in Nat : k = Len(l) /\ k > 0 /\ k <= m + 1 /\ k = IF m = n THEN n ELSE m + 1
    BY <1>1, <1>5
  <1>7. l[k] = x
    BY <1>3, <1>5, <1>6, 0 \in 0..(k - 1), k - 0 = k, m + 1 - 0 = m + 1
  <1>8. \A c \in 1..(k - 1) : l[k - c] = s[m - (c - 1)]
    <2> SUFFICES ASSUME NEW c \in 1..(k - 1) PROVE l[k - c] = s[m - (c - 1)]
      OBVIOUS
    <2>1. PICK i \in 1..m : i = m + 1 - c /\ i = m - (c - 1)
      BY <1>6
    <2>2. l[k - c] = a[i]
      BY <1>5, <1>6, <2>1, c \in 0..(k - 1)
    <2>3. QED
      BY <1>3, <2>1, <2>2
  <1>9. QED
    BY <1>1, <1>2, <1>4, <1>6, <1>7, <1>8

------------------------------------------------------------------------------
(* Typing.                                                                 *)

LEMMA TypedInit == Init => Typed
  <1> SUFFICES ASSUME Init PROVE Typed
    OBVIOUS
  <1> USE DEF Init
  <1>1. rounds \in Seq(Round) /\ incidents \in Seq(Incident)
    OBVIOUS
  <1>2. samples \in [Targets -> Seq(Sample)]
    <2>1. <<>> \in Seq(Sample)
      OBVIOUS
    <2>2. QED
      BY <2>1
  <1>3. next \in 1..(Len(Probes) + 1)
    BY ProbeNames
  <1>4. QED
    BY <1>1, <1>2, <1>3 DEF Typed

LEMMA IncidentTyped ==
  \A t \in Targets, c \in Clock, ends \in SUBSET Clock, ds \in SUBSET Durations :
    [target |-> t, start |-> c, end |-> ends, durationS |-> ds] \in Incident
  BY Zenon DEF Incident

LEMMA DurationTyped == \A c, d \in Clock : Duration(c, d) \in Durations
  BY DEF Durations

LEMMA OpenTyped ==
  ASSUME NEW t \in Targets, NEW time \in Clock, incidents \in Seq(Incident)
  PROVE  OpenIncident(t, time) \in Seq(Incident)
  <1>1. PICK in \in Incident : in = [target |-> t, start |-> time, end |-> {}, durationS |-> {}]
    <2>1. PICK e \in SUBSET Clock, d \in SUBSET Durations : e = {} /\ d = {}
      OBVIOUS
    <2>2. QED
      BY <2>1, IncidentTyped, Zenon
  <1>2. PICK log \in Seq(Incident) : log = Append(incidents, in)
    BY AppendProperties, Zenon
  <1>3. MaxIncidents \in Nat
    BY UptimeAssumption
  <1>4. QED
    BY <1>1, <1>2, <1>3, LastNFacts DEF OpenIncident

LEMMA CloseTyped ==
  ASSUME NEW t \in Targets, NEW time \in Clock, incidents \in Seq(Incident)
  PROVE  /\ CloseIncident(t, time) \in Seq(Incident)
         /\ Len(CloseIncident(t, time)) = Len(incidents)
  <1>1. PICK n \in Nat : n = Len(incidents)
    BY LenProperties
  <1>2. PICK log : log = CloseIncident(t, time)
    OBVIOUS
  <1>3. log = [j \in 1..n |->
                 IF j \notin LastOpen(t) THEN incidents[j]
                 ELSE [target |-> t, start |-> incidents[j].start,
                       end |-> {time}, durationS |-> {Duration(incidents[j].start, time)}]]
    BY <1>1, <1>2, Zenon DEF CloseIncident
  <1>4. ASSUME NEW j \in 1..n PROVE log[j] \in Incident
    <2>1. incidents[j] \in Incident
      BY <1>1, ElementOfSeq
    <2>2. CASE j \notin LastOpen(t)
      BY <1>3, <2>1, <2>2, Zenon
    <2>3. CASE j \in LastOpen(t)
      <3>1. incidents[j].start \in Clock
        BY <2>1 DEF Incident
      <3>2. log[j] = [target |-> t, start |-> incidents[j].start,
                      end |-> {time}, durationS |-> {Duration(incidents[j].start, time)}]
        BY <1>3, <2>3, Zenon
      <3>3. PICK e \in SUBSET Clock, d \in SUBSET Durations :
              e = {time} /\ d = {Duration(incidents[j].start, time)}
        <4>1. Duration(incidents[j].start, time) \in Durations
          BY <3>1, DurationTyped, Zenon
        <4>2. QED
          BY <4>1, Zenon
      <3>4. QED
        BY <3>1, <3>2, <3>3, IncidentTyped, Zenon
    <2>4. QED
      BY <2>2, <2>3
  <1>5. log \in [1..n -> Incident]
    BY <1>3, <1>4, Zenon
  <1>6. log \in Seq(Incident) /\ Len(log) = n
    BY <1>5
  <1>7. QED
    BY <1>1, <1>2, <1>6

LEMMA FoldTyped ==
  ASSUME Typed, FoldNext
  PROVE  Typed'
  <1>1. PICK k \in 1..Len(Probes) : k = next
    BY DEF FoldNext, Typed
  <1>2. PICK t \in Targets : t = Probes[k]
    BY ProbeNames
  <1>3. PICK time \in Clock : time = rounds[Len(rounds)].time
    <2>1. Len(rounds) \in 1..Len(rounds)
      BY DEF FoldNext, Typed
    <2>2. rounds[Len(rounds)] \in Round
      BY <2>1, ElementOfSeq DEF Typed
    <2>3. QED
      BY <2>2 DEF Round
  <1>4. PICK up \in BOOLEAN : up = results[t]
    BY DEF Typed
  <1>5. /\ samples' = [samples EXCEPT ![t] = LastN(Append(@, [ts |-> time, up |-> up]), RingCap)]
        /\ last' = [last EXCEPT ![t] = up]
        /\ seen' = seen \cup {t}
        /\ incidents' = LogAfter(t, up, time)
    BY <1>1, <1>2, <1>3, <1>4, Zenon DEF FoldNext, ApplyResult
  <1>6. samples' \in [Targets -> Seq(Sample)]
    <2>1. PICK x \in Sample : x = [ts |-> time, up |-> up]
      BY Zenon DEF Sample
    <2>2. PICK ring \in Seq(Sample) : ring = Append(samples[t], x)
      <3>1. samples[t] \in Seq(Sample)
        BY DEF Typed
      <3>2. QED
        BY <3>1, AppendProperties, Zenon
    <2>3. LastN(ring, RingCap) \in Seq(Sample)
      BY LastNFacts, UptimeAssumption
    <2>4. QED
      BY <1>5, <2>1, <2>2, <2>3 DEF Typed
  <1>7. incidents' \in Seq(Incident)
    BY <1>5, OpenTyped, CloseTyped DEF LogAfter, Typed
  <1>8. last' \in [Targets -> BOOLEAN] /\ seen' \in SUBSET Targets
    BY <1>5 DEF Typed
  <1>9. /\ next' \in 1..(Len(Probes) + 1) /\ pc' \in {"folding", "select"}
        /\ pc' = "folding" => next' <= Len(Probes)
    BY <1>1, ProbeNames DEF FoldNext
  <1>10. pc = "folding" /\ UNCHANGED <<alive, wasUp, wasDown, ctxDone, due, left, results, rounds>>
    BY DEF FoldNext, world
  <1>11. QED
    BY <1>6, <1>7, <1>8, <1>9, <1>10 DEF Typed

LEMMA LockTyped ==
  ASSUME Typed, Lock
  PROVE  /\ Typed' /\ Len(rounds') = Len(rounds) + 1
         /\ \A i \in 1..Len(rounds) : rounds'[i] = rounds[i]
  <1>1. PICK r \in Round : r = [time |-> WallClock[Len(rounds) + 1], up |-> results]
    <2>1. Len(rounds) + 1 \in Nat
      BY DEF Typed
    <2>2. WallClock[Len(rounds) + 1] \in Clock
      BY <2>1 DEF Clock
    <2>3. QED
      BY <2>2, Zenon DEF Round, Typed
  <1>2. rounds' = Append(rounds, r) /\ rounds \in Seq(Round)
    BY <1>1 DEF Lock, Typed
  <1>3. /\ rounds' \in Seq(Round) /\ Len(rounds') = Len(rounds) + 1
        /\ \A i \in 1..Len(rounds) : rounds'[i] = rounds[i]
        /\ rounds'[Len(rounds) + 1] = r
        /\ Len(rounds) \in Nat
    BY <1>2, AppendProperties, LenProperties
  <1>4. Len(rounds') > 0 /\ rounds'[Len(rounds')].up = results
    BY <1>1, <1>3
  <1>5. 1 \in 1..(Len(Probes) + 1) /\ 1 <= Len(Probes)
    BY ProbeNames
  <1>6. QED
    BY <1>3, <1>4, <1>5 DEF Lock, Typed, world, book

LEMMA TypedStep == Typed /\ [Next]_vars => Typed'
  <1> SUFFICES ASSUME Typed, [Next]_vars
               PROVE  Typed'
    OBVIOUS
  <1> USE DEF Typed, world, book
  <1>1. ASSUME NEW t \in Targets, ProbeOne(t) PROVE Typed'
    BY <1>1 DEF ProbeOne
  <1>2. CASE StartRound
    BY <1>2 DEF StartRound
  <1>3. CASE Return
    BY <1>3 DEF Return
  <1>4. CASE TickerFires
    BY <1>4 DEF TickerFires
  <1>5. CASE Shutdown
    BY <1>5 DEF Shutdown
  <1>6. ASSUME NEW t \in Targets, Flip(t) PROVE Typed'
    BY <1>6 DEF Flip
  <1>7. CASE UNCHANGED vars
    BY <1>7 DEF vars
  <1> HIDE DEF Typed
  <1>8. QED
    BY <1>1, <1>2, <1>3, <1>4, <1>5, <1>6, <1>7, LockTyped, FoldTyped DEF Next, Loop

------------------------------------------------------------------------------
(* What a sample tells of.                                                 *)

\* While a round runs, what is alive now was alive in it, and what is not was
\* not: Flip keeps the histories.
WorldSeen ==
  pc = "probing" => alive \subseteq wasUp /\ Targets \ alive \subseteq wasDown

\* A slot that was written holds what could be observed since the round began.
SlotsAreCurrent ==
  pc = "probing" =>
    \A t \in Targets \ left :
      /\ results[t] => t \in wasUp
      /\ ~results[t] => t \in wasDown \/ (ctxDone /\ t \notin Self)

SampleInv == Typed /\ WorldSeen /\ SlotsAreCurrent /\ SamplesAreCurrent

LEMMA SampleInit == Init => SampleInv
  BY TypedInit DEF Init, SampleInv, WorldSeen, SlotsAreCurrent, SamplesAreCurrent

LEMMA ProbeStep ==
  ASSUME SampleInv, NEW t \in Targets, ProbeOne(t)
  PROVE  WorldSeen' /\ SlotsAreCurrent' /\ SamplesAreCurrent'
  <1> USE DEF ProbeOne, world, SampleInv
  <1>1. PICK up \in BOOLEAN :
          /\ up => t \in alive
          /\ ~up => t \notin Self /\ (t \notin alive \/ ctxDone)
          /\ results' = [results EXCEPT ![t] = up]
    OBVIOUS
  <1>2. WorldSeen' /\ SamplesAreCurrent'
    BY DEF WorldSeen, SamplesAreCurrent
  <1>3. SlotsAreCurrent'
    <2>1. SUFFICES ASSUME NEW s \in Targets, s \notin left'
                   PROVE  /\ results'[s] => s \in wasUp
                          /\ ~results'[s] => s \in wasDown \/ (ctxDone /\ s \notin Self)
      BY DEF SlotsAreCurrent
    <2>2. CASE s = t
      BY <1>1, <2>2 DEF Typed, WorldSeen
    <2>3. CASE s # t
      BY <1>1, <2>1, <2>3 DEF Typed, SlotsAreCurrent
    <2>4. QED
      BY <2>2, <2>3
  <1>4. QED
    BY <1>2, <1>3

\* wg.Wait() is what makes a round current: all slots were written in it.
LEMMA LockStep ==
  ASSUME SampleInv, Lock
  PROVE  WorldSeen' /\ SlotsAreCurrent' /\ SamplesAreCurrent'
  <1> USE DEF SampleInv
  <1>1. /\ pc = "probing" /\ left = {} /\ pc' = "folding"
        /\ UNCHANGED <<alive, wasUp, wasDown, ctxDone, left, results>>
    BY DEF Lock, world
  <1>2. rounds'[Len(rounds')].up = results
    BY <1>1, LockTyped DEF Typed
  <1>3. WorldSeen' /\ SlotsAreCurrent'
    BY <1>1 DEF WorldSeen, SlotsAreCurrent
  <1>4. SamplesAreCurrent'
    BY <1>1, <1>2 DEF SlotsAreCurrent, SamplesAreCurrent
  <1>5. QED
    BY <1>3, <1>4

LEMMA FlipStep ==
  ASSUME SampleInv, NEW t \in Targets, Flip(t)
  PROVE  WorldSeen' /\ SlotsAreCurrent' /\ SamplesAreCurrent'
  <1> USE DEF Flip, SampleInv, Typed
  <1>1. WorldSeen'
    BY DEF WorldSeen
  <1>2. SlotsAreCurrent'
    BY DEF SlotsAreCurrent
  <1>3. SamplesAreCurrent'
    BY DEF SamplesAreCurrent
  <1>4. QED
    BY <1>1, <1>2, <1>3

LEMMA SampleStep == SampleInv /\ [Next]_vars => SampleInv'
  <1> SUFFICES ASSUME SampleInv, [Next]_vars
               PROVE  WorldSeen' /\ SlotsAreCurrent' /\ SamplesAreCurrent'
    BY TypedStep DEF SampleInv
  <1> USE DEF SampleInv, WorldSeen, SlotsAreCurrent, SamplesAreCurrent, world
  <1>1. CASE StartRound
    BY <1>1 DEF StartRound
  <1>2. CASE Return
    BY <1>2 DEF Return
  <1>3. CASE TickerFires
    BY <1>3 DEF TickerFires
  <1>4. CASE Shutdown
    BY <1>4 DEF Shutdown
  <1>5. CASE FoldNext
    BY <1>5 DEF FoldNext
  <1>6. CASE UNCHANGED vars
    BY <1>6 DEF vars
  <1> HIDE DEF SampleInv
  <1>7. QED
    BY <1>1, <1>2, <1>3, <1>4, <1>5, <1>6, ProbeStep, LockStep, FlipStep DEF Next, Loop

\* In every behaviour a sample tells of its own round: no slot is read before it
\* was written in that round, and a "down" not observed comes only from SIGTERM
\* (uptime.go:103-114).
THEOREM SamplesTellOfTheirRound == Spec => []SamplesAreCurrent
  <1>1. SampleInv => SamplesAreCurrent
    BY DEF SampleInv
  <1>2. QED
    BY SampleInit, SampleStep, <1>1, PTL DEF Spec

------------------------------------------------------------------------------
(* The book of samples and incidents.                                      *)

\* What the transition detection reads: t was seen, and its last reading.
LastMatches ==
  \A k \in 1..Len(Probes) :
    /\ (Probes[k] \in seen) <=> Heard(k) > 0
    /\ Heard(k) > 0 => last[Probes[k]] = Up(Heard(k), k)

\* No entry of the log is without its outage.
LogSound ==
  \A j \in 1..Len(incidents) : \E s \in Downs : Cardinality(After(s)) = Len(incidents) - j

\* An outage that is over has a first round in which it was.
Recovers ==
  \A s \in Downs : \A j \in (s[1] + 1)..Heard(s[2]) : Up(j, s[2]) => Recovery(s[1], s[2]) # {}

\* A target that is down went down at some time and has been down since.
WentDown ==
  \A k \in 1..Len(Probes) :
    Heard(k) > 0 /\ ~Up(Heard(k), k) =>
      \E i \in 1..Heard(k) : GoesDown(i, k) /\ \A j \in i..Heard(k) : ~Up(j, k)

BookInv == LastMatches /\ RingsMatch /\ LogMatches /\ LogSound /\ Recovers /\ WentDown
Book == Typed /\ BookInv

LEMMA UpTyped ==
  ASSUME Typed
  PROVE  /\ Len(rounds) \in Nat
         /\ \A i \in 1..Len(rounds), k \in 1..Len(Probes) : Up(i, k) \in BOOLEAN
         /\ \A k \in 1..Len(Probes) : Heard(k) \in 0..Len(rounds)
  <1>1. PICK n \in Nat : n = Len(rounds)
    BY LenProperties DEF Typed
  <1>2. ASSUME NEW i \in 1..n, NEW k \in 1..Len(Probes) PROVE Up(i, k) \in BOOLEAN
    <2>1. rounds[i] \in Round
      BY <1>1, ElementOfSeq DEF Typed
    <2>2. rounds[i].up \in [Targets -> BOOLEAN]
      BY <2>1, Zenon DEF Round
    <2>3. QED
      BY <2>2, ProbeNames DEF Up
  <1>3. \A k \in 1..Len(Probes) : Heard(k) \in 0..n
    BY <1>1 DEF Heard, Typed
  <1>4. QED
    BY <1>1, <1>2, <1>3

\* A moment at which a target goes down.
LEMMA DownFacts ==
  ASSUME Typed
  PROVE  /\ \A s \in Downs :
              /\ s[1] \in 1..Heard(s[2]) /\ s[2] \in 1..Len(Probes) /\ s = <<s[1], s[2]>>
              /\ s[1] <= Len(rounds) /\ ~Up(s[1], s[2]) /\ (s[1] > 1 => Up(s[1] - 1, s[2]))
         /\ \A i \in 1..Len(rounds), k \in 1..Len(Probes) :
              GoesDown(i, k) <=> <<i, k>> \in Downs
  BY UpTyped DEF Downs, GoesDown

LEMMA DownsFinite ==
  ASSUME Typed
  PROVE  /\ IsFiniteSet(Downs) /\ Cardinality(Downs) \in Nat
         /\ \A s \in Downs : /\ IsFiniteSet(After(s)) /\ Cardinality(After(s)) \in Nat
                             /\ Cardinality(After(s)) < Cardinality(Downs)
  <1>1. IsFiniteSet((1..Len(rounds)) \X (1..Len(Probes)))
    <2>1. /\ IsFiniteSet(1..Len(rounds))
          /\ IsFiniteSet(1..Len(Probes))
      BY UpTyped, ProbeNames, FS_Interval
    <2>2. QED
      BY <2>1, FS_Product
  <1>2. IsFiniteSet(Downs)
    BY <1>1, FS_Subset DEF Downs
  <1>3. ASSUME NEW s \in Downs
        PROVE  /\ IsFiniteSet(After(s)) /\ Cardinality(After(s)) \in Nat
               /\ Cardinality(After(s)) < Cardinality(Downs)
    <2>1. After(s) \in SUBSET Downs /\ s \notin After(s)
      BY DownFacts DEF After
    <2>2. /\ IsFiniteSet(After(s)) /\ Cardinality(After(s)) <= Cardinality(Downs)
          /\ Cardinality(After(s)) # Cardinality(Downs)
      BY <1>2, <2>1, FS_Subset
    <2>3. QED
      BY <1>2, <2>2, FS_CardinalityType
  <1>4. QED
    BY <1>2, <1>3, FS_CardinalityType

\* How many are later tells two moments apart.
LEMMA RanksDiffer ==
  ASSUME Typed, NEW s \in Downs, NEW u \in Downs, Cardinality(After(s)) = Cardinality(After(u))
  PROVE  s = u
  <1>1. \A x, y \in Downs : y \in After(x) => After(y) \in SUBSET After(x) /\ y \notin After(y)
    BY DownFacts DEF After
  <1>2. \A x, y \in Downs : y \in After(x) => Cardinality(After(y)) # Cardinality(After(x))
    BY <1>1, DownsFinite, FS_Subset
  <1>3. s = u \/ u \in After(s) \/ s \in After(u)
    BY DownFacts DEF After
  <1>4. QED
    BY <1>2, <1>3

\* Of one target, only the latest outage can be without a recovery.
LEMMA EarlierRecovered ==
  ASSUME Typed, Recovers, NEW s \in Downs, NEW u \in Downs,
         s[2] = u[2], Recovery(s[1], s[2]) = {}, Recovery(u[1], u[2]) = {}
  PROVE  s = u
  <1>1. \A x, y \in Downs : x[2] = y[2] /\ x[1] < y[1] => Recovery(x[1], x[2]) # {}
    <2> SUFFICES ASSUME NEW x \in Downs, NEW y \in Downs, x[2] = y[2], x[1] < y[1]
                 PROVE  Recovery(x[1], x[2]) # {}
      OBVIOUS
    <2>1. PICK i \in Nat, j \in Nat, k \in 1..Len(Probes), h \in Nat :
            i = x[1] /\ j = y[1] /\ k = x[2] /\ h = Heard(k)
      BY DownFacts, UpTyped
    <2>2. i > 0 /\ i < j /\ j <= h /\ ~Up(i, k) /\ Up(j - 1, k)
      BY <2>1, DownFacts
    <2>3. j - 1 # i /\ j - 1 \in (i + 1)..h
      BY <2>2
    <2>4. QED
      BY <2>1, <2>2, <2>3 DEF Recovers
  <1>2. s[1] = u[1]
    BY <1>1, DownFacts
  <1>3. QED
    BY <1>2, DownFacts

\* What a step keeps: the readings of the rounds there were.
Kept ==
  /\ Len(rounds) <= Len(rounds')
  /\ \A i \in 1..Len(rounds) : rounds'[i] = rounds[i]

LEMMA UpKept ==
  ASSUME Typed, Typed', Kept
  PROVE  /\ \A i \in 1..Len(rounds) : rounds'[i].time = rounds[i].time
         /\ \A i \in 1..Len(rounds), k \in 1..Len(Probes) : Up(i, k)' = Up(i, k)
  BY DEF Up, Kept

\* A target that hears of nothing keeps its moments and their recoveries.
LEMMA HeardKept ==
  ASSUME Typed, Typed', Kept, NEW k \in 1..Len(Probes), Heard(k)' = Heard(k)
  PROVE  /\ \A i \in 1..Len(rounds') : GoesDown(i, k)' <=> GoesDown(i, k)
         /\ \A i \in 1..Len(rounds) : Recovery(i, k)' = Recovery(i, k)
  <1>1. PICK n \in Nat, h \in Nat :
          n = Len(rounds) /\ h <= n /\ h = Heard(k) /\ h = Heard(k)'
    BY UpTyped
  <1>2. \A i \in 1..n : Up(i, k)' = Up(i, k)
    BY <1>1, UpKept
  <1>3. \A i \in 1..Len(rounds') : GoesDown(i, k)' <=> GoesDown(i, k)
    <2> SUFFICES ASSUME NEW i \in 1..Len(rounds') PROVE GoesDown(i, k)' <=> GoesDown(i, k)
      OBVIOUS
    <2>1. CASE i <= h
      BY <1>1, <1>2, <2>1 DEF GoesDown
    <2>2. CASE ~(i <= h)
      BY <1>1, <2>2 DEF GoesDown
    <2>3. QED
      BY <2>1, <2>2
  <1>4. \A i \in 1..n : Recovery(i, k)' = Recovery(i, k)
    BY <1>1, <1>2 DEF Recovery
  <1>5. QED
    BY <1>1, <1>3, <1>4

LEMMA OutageKept ==
  ASSUME Typed, Typed', Kept, NEW s \in Downs, Recovery(s[1], s[2])' = Recovery(s[1], s[2])
  PROVE  Outage(s)' = Outage(s)
  <1>1. /\ s[1] \in 1..Len(rounds)
        /\ \A j \in Recovery(s[1], s[2]) : j \in 1..Len(rounds)
    BY DownFacts, UpTyped DEF Recovery
  <1>2. /\ rounds'[s[1]].time = rounds[s[1]].time
        /\ \A j \in Recovery(s[1], s[2]) : rounds'[j].time = rounds[j].time
    BY <1>1, UpKept
  <1>3. {rounds'[j].time : j \in Recovery(s[1], s[2])}
          = {rounds[j].time : j \in Recovery(s[1], s[2])}
    BY <1>2, Zenon
  <1>4. QED
    BY <1>2, <1>3 DEF Outage

\* A step in which no target hears of a round leaves the book as it is.
LEMMA QuietStep ==
  ASSUME Book, Typed', Kept, UNCHANGED book,
         \A k \in 1..Len(Probes) : Heard(k)' = Heard(k)
  PROVE  BookInv'
  <1> USE DEF Book, BookInv, book
  <1>1. /\ \A i \in 1..Len(rounds), k \in 1..Len(Probes) : Up(i, k)' = Up(i, k)
        /\ \A i \in 1..Len(rounds') , k \in 1..Len(Probes) : GoesDown(i, k)' <=> GoesDown(i, k)
        /\ \A i \in 1..Len(rounds), k \in 1..Len(Probes) : Recovery(i, k)' = Recovery(i, k)
    BY UpKept, HeardKept
  <1>2. Len(rounds) \in Nat /\ Len(rounds') \in Nat /\ Len(rounds) <= Len(rounds')
    BY LenProperties DEF Typed, Kept
  <1>3. Downs' = Downs
    BY <1>1, <1>2, UpTyped DEF Downs, GoesDown
  <1>4. \A s \in Downs : After(s)' = After(s)
    BY <1>3 DEF After
  <1>5. \A s \in Downs : Outage(s)' = Outage(s)
    BY <1>1, DownFacts, OutageKept
  <1>6. LogMatches'
    BY <1>3, <1>4, <1>5 DEF LogMatches
  <1>7. LogSound'
    BY <1>3, <1>4 DEF LogSound
  <1>8. LastMatches'
    BY <1>1, UpTyped DEF LastMatches
  <1>9. Recovers'
    BY <1>1, <1>3, DownFacts, UpTyped DEF Recovers
  <1>10. WentDown'
    <2> SUFFICES ASSUME NEW k \in 1..Len(Probes), NEW h \in Nat, h = Heard(k),
                        h > 0, ~Up(h, k)'
                 PROVE  \E i \in 1..h : GoesDown(i, k)' /\ \A j \in i..h : ~Up(j, k)'
      BY UpTyped DEF WentDown
    <2>1. h <= Len(rounds) /\ ~Up(h, k)
      BY <1>1, <1>2, UpTyped
    <2>2. PICK i \in 1..h : GoesDown(i, k) /\ \A j \in i..h : ~Up(j, k)
      BY <2>1 DEF WentDown
    <2>3. GoesDown(i, k)' /\ \A j \in i..h : ~Up(j, k)'
      BY <1>1, <1>2, <2>1, <2>2
    <2>4. QED
      BY <2>3
  <1>11. RingsMatch'
    <2> SUFFICES ASSUME NEW k \in 1..Len(Probes), NEW ring, ring = samples[Probes[k]]
                 PROVE  /\ Len(ring) = IF Heard(k) > RingCap THEN RingCap ELSE Heard(k)
                        /\ \A m \in 0..(Len(ring) - 1) :
                             ring[Len(ring) - m]
                               = [ts |-> rounds'[Heard(k) - m].time, up |-> Up(Heard(k) - m, k)']
      BY DEF RingsMatch
    <2>1. /\ Len(ring) = IF Heard(k) > RingCap THEN RingCap ELSE Heard(k)
          /\ \A m \in 0..(Len(ring) - 1) :
               ring[Len(ring) - m]
                 = [ts |-> rounds[Heard(k) - m].time, up |-> Up(Heard(k) - m, k)]
      BY DEF RingsMatch
    <2>2. PICK h \in Nat : h = Heard(k) /\ h <= Len(rounds)
      BY UpTyped
    <2>3. ASSUME NEW m \in 0..(Len(ring) - 1)
          PROVE  ring[Len(ring) - m]
                   = [ts |-> rounds'[Heard(k) - m].time, up |-> Up(Heard(k) - m, k)']
      <3>1. h - m \in 1..Len(rounds)
        BY <1>2, <2>1, <2>2, UptimeAssumption
      <3>2. rounds'[h - m].time = rounds[h - m].time /\ Up(h - m, k)' = Up(h - m, k)
        BY <1>1, <3>1, UpKept
      <3>3. QED
        BY <2>1, <2>2, <3>2
    <2>4. QED
      BY <2>1, <2>3
  <1>12. QED
    BY <1>6, <1>7, <1>8, <1>9, <1>10, <1>11

\* A fold step: the target at hand, and only it, hears of the round.
LEMMA FoldFacts ==
  ASSUME Typed, FoldNext, NEW k \in 1..Len(Probes), k = next, NEW n \in Nat, n = Len(rounds)
  PROVE  /\ Typed' /\ Kept /\ n > 0 /\ n = Len(rounds')
         /\ Heard(k) = n - 1 /\ Heard(k)' = n
         /\ \A j \in 1..Len(Probes) : /\ j # k => Heard(j)' = Heard(j)
                                      /\ Heard(j) = n => j < k
         /\ \A i \in 1..n, j \in 1..Len(Probes) : Up(i, j)' = Up(i, j)
         /\ Up(n, k) = results[Probes[k]]
         /\ ApplyResult(Probes[k], Up(n, k), rounds[n].time)
  <1>1. /\ pc = "folding" /\ n > 0 /\ n = Len(rounds') /\ next' = k + 1
        /\ pc' = IF k = Len(Probes) THEN "select" ELSE "folding"
        /\ rounds' = rounds /\ rounds[n].up = results
        /\ ApplyResult(Probes[k], results[Probes[k]], rounds[n].time)
    BY DEF FoldNext, Typed
  <1>2. Typed' /\ Kept
    BY <1>1, FoldTyped DEF Kept
  <1>3. Heard(k) = n - 1 /\ Heard(k)' = n
    BY <1>1, ProbeNames DEF Heard
  <1>4. \A j \in 1..Len(Probes) : /\ j # k => Heard(j)' = Heard(j)
                                  /\ Heard(j) = n => j < k
    BY <1>1, ProbeNames DEF Heard
  <1>5. \A i \in 1..n, j \in 1..Len(Probes) : Up(i, j)' = Up(i, j)
    BY <1>1 DEF Up
  <1>6. Up(n, k) = results[Probes[k]]
    BY <1>1 DEF Up
  <1>7. QED
    BY <1>1, <1>2, <1>3, <1>4, <1>5, <1>6

\* The one moment that may be new.
NewDown(n, k) == ~Up(n, k) /\ (n > 1 => Up(n - 1, k))

LEMMA FoldMoments ==
  ASSUME Typed, FoldNext, NEW k \in 1..Len(Probes), k = next, NEW n \in Nat, n = Len(rounds)
  PROVE  /\ <<n, k>> \notin Downs
         /\ NewDown(n, k) =>
              /\ Downs' = Downs \cup {<<n, k>>}
              /\ \A s \in Downs : After(s)' = After(s) \cup {<<n, k>>} /\ <<n, k>> \notin After(s)
              /\ After(<<n, k>>)' = {}
         /\ ~NewDown(n, k) => /\ Downs' = Downs
                              /\ \A s \in Downs : After(s)' = After(s)
  <1> USE FoldFacts
  <1>1. <<n, k>> \notin Downs
    BY DownFacts
  <1>2. \A i \in 1..n, j \in 1..Len(Probes) :
          GoesDown(i, j)' <=> GoesDown(i, j) \/ (i = n /\ j = k /\ NewDown(n, k))
    <2> SUFFICES ASSUME NEW i \in 1..n, NEW j \in 1..Len(Probes)
                 PROVE  GoesDown(i, j)' <=> GoesDown(i, j) \/ (i = n /\ j = k /\ NewDown(n, k))
      OBVIOUS
    <2>1. CASE j # k
      BY <2>1, HeardKept
    <2>2. CASE j = k /\ i = n
      BY <2>2 DEF GoesDown, NewDown
    <2>3. CASE j = k /\ i # n
      BY <2>3 DEF GoesDown
    <2>4. QED
      BY <2>1, <2>2, <2>3
  <1>3. CASE NewDown(n, k)
    <2>1. Downs' = Downs \cup {<<n, k>>}
      BY <1>2, <1>3 DEF Downs
    <2>2. \A s \in Downs : s[1] < n \/ (s[1] = n /\ s[2] < k)
      BY DownFacts, UpTyped
    <2>3. \A s \in Downs : After(s)' = After(s) \cup {<<n, k>>} /\ <<n, k>> \notin After(s)
      BY <1>1, <2>1, <2>2 DEF After
    <2>4. After(<<n, k>>)' = {}
      BY <2>1, <2>2, DownFacts, UpTyped DEF After
    <2>5. QED
      BY <1>1, <1>3, <2>1, <2>3, <2>4
  <1>4. CASE ~NewDown(n, k)
    <2>1. Downs' = Downs
      BY <1>2, <1>4 DEF Downs
    <2>2. \A s \in Downs : After(s)' = After(s)
      BY <2>1 DEF After
    <2>3. QED
      BY <1>1, <1>4, <2>1, <2>2
  <1>5. QED
    BY <1>3, <1>4

LEMMA FoldRecovery ==
  ASSUME Typed, FoldNext, NEW k \in 1..Len(Probes), k = next, NEW n \in Nat, n = Len(rounds)
  PROVE  /\ \A i \in 1..n, j \in 1..Len(Probes) : j # k => Recovery(i, j)' = Recovery(i, j)
         /\ \A i \in 1..(n - 1) :
              Recovery(i, k)' = IF Up(n, k) /\ \A m \in (i + 1)..(n - 1) : ~Up(m, k)
                                THEN Recovery(i, k) \cup {n} ELSE Recovery(i, k)
         /\ Recovery(n, k)' = {}
  <1> USE FoldFacts
  <1>1. \A i \in 1..n, j \in 1..Len(Probes) : j # k => Recovery(i, j)' = Recovery(i, j)
    BY HeardKept
  <1>2. ASSUME NEW i \in 1..(n - 1)
        PROVE  Recovery(i, k)' = IF Up(n, k) /\ \A m \in (i + 1)..(n - 1) : ~Up(m, k)
                                 THEN Recovery(i, k) \cup {n} ELSE Recovery(i, k)
    <2> DEFINE First(j) == Up(j, k) /\ \A m \in (i + 1)..(j - 1) : ~Up(m, k)
    <2>1. Recovery(i, k) = {j \in (i + 1)..(n - 1) : First(j)}
      BY DEF Recovery
    <2>2. Recovery(i, k)' = {j \in (i + 1)..n : First(j)}
      <3>1. \A j \in (i + 1)..n : Up(j, k)' = Up(j, k)
        OBVIOUS
      <3>2. \A j \in (i + 1)..n : \A m \in (i + 1)..(j - 1) : Up(m, k)' = Up(m, k)
        OBVIOUS
      <3>3. QED
        BY <3>1, <3>2 DEF Recovery
    <2>3. (i + 1)..n = ((i + 1)..(n - 1)) \cup {n}
      OBVIOUS
    <2>4. Up(n, k) /\ (\A m \in (i + 1)..(n - 1) : ~Up(m, k)) <=> First(n)
      OBVIOUS
    <2> HIDE DEF First
    <2>5. Recovery(i, k)' = IF First(n) THEN Recovery(i, k) \cup {n} ELSE Recovery(i, k)
      BY <2>1, <2>2, <2>3
    <2>6. QED
      BY <2>4, <2>5
  <1>3. Recovery(n, k)' = {}
    BY DEF Recovery
  <1>4. QED
    BY <1>1, <1>2, <1>3

LEMMA FoldLast ==
  ASSUME Book, FoldNext
  PROVE  LastMatches'
  <1>1. PICK k \in 1..Len(Probes), n \in Nat : k = next /\ n = Len(rounds)
    BY UpTyped DEF FoldNext, Typed, Book
  <1>2. /\ last' = [last EXCEPT ![Probes[k]] = Up(n, k)] /\ seen' = seen \cup {Probes[k]}
        /\ n > 0 /\ Heard(k)' = n /\ Up(n, k)' = Up(n, k)
    <2>1. /\ n > 0 /\ Heard(k)' = n /\ ApplyResult(Probes[k], Up(n, k), rounds[n].time)
          /\ \A i \in 1..n, j \in 1..Len(Probes) : Up(i, j)' = Up(i, j)
      BY <1>1, FoldFacts DEF Book
    <2>2. last' = [last EXCEPT ![Probes[k]] = Up(n, k)] /\ seen' = seen \cup {Probes[k]}
      BY <2>1, Zenon DEF ApplyResult
    <2>3. QED
      BY <2>1, <2>2, n \in 1..n
  <1>3. SUFFICES ASSUME NEW j \in 1..Len(Probes)
                 PROVE  /\ (Probes[j] \in seen') <=> (Heard(j)' > 0)
                        /\ Heard(j)' > 0 => last'[Probes[j]] = Up(Heard(j), j)'
    BY DEF LastMatches
  <1>4. CASE j = k
    BY <1>1, <1>2, <1>4, ProbeNames DEF Book, Typed
  <1>5. CASE j # k
    <2>1. Probes[j] # Probes[k] /\ Probes[j] \in Targets
      BY <1>5, ProbeNames
    <2>2. PICK h \in Nat : h = Heard(j) /\ h = Heard(j)' /\ h <= n
      BY <1>1, <1>5, UpTyped, FoldFacts DEF Book
    <2>3. h > 0 => Up(h, j)' = Up(h, j)
      BY <1>1, <2>2, FoldFacts DEF Book
    <2>4. /\ (Probes[j] \in seen) <=> h > 0
          /\ h > 0 => last[Probes[j]] = Up(h, j)
      BY <2>2 DEF Book, BookInv, LastMatches
    <2>5. (Probes[j] \in seen' <=> Probes[j] \in seen) /\ last'[Probes[j]] = last[Probes[j]]
      BY <1>2, <2>1 DEF Book, Typed
    <2>6. QED
      BY <2>2, <2>3, <2>4, <2>5
  <1>6. QED
    BY <1>4, <1>5

LEMMA FoldRings ==
  ASSUME Book, FoldNext
  PROVE  RingsMatch'
  <1>1. PICK k \in 1..Len(Probes), n \in Nat : k = next /\ n = Len(rounds)
    BY UpTyped DEF FoldNext, Typed, Book
  <1>2. PICK x \in Sample : x = [ts |-> rounds[n].time, up |-> Up(n, k)]
    <2>1. rounds[n] \in Round /\ Up(n, k) \in BOOLEAN
      BY <1>1, FoldFacts, UpTyped, ElementOfSeq DEF Book, Typed
    <2>2. rounds[n].time \in Clock
      BY <2>1 DEF Round
    <2>3. QED
      BY <2>1, <2>2, Zenon DEF Sample
  <1>3. samples' = [samples EXCEPT ![Probes[k]] = LastN(Append(samples[Probes[k]], x), RingCap)]
    BY <1>1, <1>2, FoldFacts, Zenon DEF ApplyResult, Book
  <1>4. SUFFICES ASSUME NEW j \in 1..Len(Probes), NEW ring, ring = samples'[Probes[j]]
                 PROVE  /\ Len(ring) = IF Heard(j)' > RingCap THEN RingCap ELSE Heard(j)'
                        /\ \A m \in 0..(Len(ring) - 1) :
                             ring[Len(ring) - m]
                               = [ts |-> rounds'[Heard(j)' - m].time, up |-> Up(Heard(j) - m, j)']
    BY DEF RingsMatch
  <1>5. PICK old \in Seq(Sample), h \in Nat : old = samples[Probes[j]] /\ h = Heard(j) /\ h <= n
    <2>1. samples[Probes[j]] \in Seq(Sample)
      BY ProbeNames DEF Book, Typed
    <2>2. Heard(j) \in Nat /\ Heard(j) <= n
      BY <1>1, UpTyped DEF Book
    <2>3. QED
      BY <2>1, <2>2, Zenon
  <1>6. /\ Len(old) = IF h > RingCap THEN RingCap ELSE h
        /\ \A m \in 0..(Len(old) - 1) :
             old[Len(old) - m] = [ts |-> rounds[h - m].time, up |-> Up(h - m, j)]
    BY <1>5 DEF Book, BookInv, RingsMatch
  <1>7. \A i \in 1..n : rounds'[i].time = rounds[i].time /\ Up(i, j)' = Up(i, j)
    BY <1>1, FoldFacts, UpKept DEF Book
  <1>8. RingCap \in Nat \ {0}
    BY UptimeAssumption
  <1>9. CASE j # k
    <2>1. ring = old /\ Heard(j)' = h
      BY <1>1, <1>3, <1>4, <1>5, <1>9, ProbeNames, FoldFacts DEF Book, Typed
    <2>2. \A m \in 0..(Len(old) - 1) :
            old[Len(old) - m] = [ts |-> rounds'[h - m].time, up |-> Up(h - m, j)']
      <3> SUFFICES ASSUME NEW m \in 0..(Len(old) - 1)
                   PROVE  old[Len(old) - m] = [ts |-> rounds'[h - m].time, up |-> Up(h - m, j)']
        OBVIOUS
      <3>1. h - m \in 1..n
        BY <1>5, <1>6, <1>8
      <3>2. QED
        BY <1>6, <1>7, <3>1
    <2>3. QED
      BY <1>6, <2>1, <2>2
  <1>10. CASE j = k
    <2>1. ring = LastN(Append(old, x), RingCap) /\ h = n - 1 /\ Heard(j)' = n /\ n > 0
      BY <1>1, <1>3, <1>4, <1>5, <1>10, ProbeNames, FoldFacts DEF Book, Typed
    <2>2. PICK l \in Nat, c \in Nat : l = Len(old) /\ c = Len(ring) /\ l <= RingCap /\ l <= h
      <3>1. Len(old) \in Nat /\ Len(old) <= RingCap /\ Len(old) <= h
        BY <1>6, <1>8, LenProperties
      <3>2. Len(ring) \in Nat
        BY <1>8, <2>1, <3>1, LastNAppend, LenProperties
      <3>3. QED
        BY <3>1, <3>2
    <2>3. /\ c = IF l = RingCap THEN RingCap ELSE l + 1
          /\ ring[c] = x
          /\ \A m \in 1..(c - 1) : ring[c - m] = old[l - (m - 1)]
      <3>1. Len(old) <= RingCap
        BY <2>2
      <3>2. LET r == LastN(Append(old, x), RingCap)
            IN  /\ Len(r) = IF Len(old) = RingCap THEN RingCap ELSE Len(old) + 1
                /\ r[Len(r)] = x
                /\ \A m \in 1..(Len(r) - 1) : r[Len(r) - m] = old[Len(old) - (m - 1)]
        BY <1>8, <3>1, LastNAppend
      <3>3. QED
        BY <2>1, <2>2, <3>2, Zenon
    <2>4. c = IF n > RingCap THEN RingCap ELSE n
      BY <1>6, <1>8, <2>1, <2>2, <2>3
    <2>5. ASSUME NEW m \in 0..(c - 1)
          PROVE  ring[c - m] = [ts |-> rounds'[n - m].time, up |-> Up(n - m, j)']
      <3>1. CASE m = 0
        BY <1>2, <1>7, <1>10, <2>1, <2>3, <3>1, c - 0 = c, n - 0 = n
      <3>2. CASE m # 0
        <4>1. PICK i \in 1..n : i = n - m /\ i = h - (m - 1)
          BY <2>1, <2>4, <3>2, <1>8
        <4>2. m - 1 \in 0..(l - 1) /\ m \in 1..(c - 1)
          BY <2>2, <2>3, <3>2
        <4>3. ring[c - m] = old[l - (m - 1)]
          BY <2>3, <4>2
        <4>4. old[l - (m - 1)] = [ts |-> rounds[i].time, up |-> Up(i, j)]
          BY <1>6, <2>2, <4>1, <4>2
        <4>5. QED
          BY <1>7, <4>1, <4>3, <4>4
      <3>3. QED
        BY <3>1, <3>2
    <2>6. QED
      BY <2>1, <2>2, <2>4, <2>5
  <1>11. QED
    BY <1>9, <1>10

LEMMA FoldRecovers ==
  ASSUME Book, FoldNext
  PROVE  Recovers'
  <1>1. PICK k \in 1..Len(Probes), n \in Nat : k = next /\ n = Len(rounds)
    BY UpTyped DEF FoldNext, Typed, Book
  <1>2. SUFFICES ASSUME NEW s \in Downs', NEW j \in (s[1] + 1)..(Heard(s[2])'), Up(j, s[2])'
                 PROVE  Recovery(s[1], s[2])' # {}
    BY DEF Recovers
  <1>3. s \in Downs \/ s = <<n, k>>
    <2>1. Downs' = Downs \cup {<<n, k>>} \/ Downs' = Downs
      BY <1>1, FoldMoments DEF Book
    <2>2. QED
      BY <1>2, <2>1
  <1>4. s # <<n, k>>
    BY <1>1, <1>2, FoldFacts DEF Book
  <1>5. PICK i \in 1..n, p \in 1..Len(Probes) : i = s[1] /\ p = s[2] /\ i <= Heard(p) /\ s \in Downs
    BY <1>1, <1>3, <1>4, DownFacts, UpTyped DEF Book
  <1>6. CASE p # k
    <2>1. Heard(p)' = Heard(p) /\ Heard(p) <= n
      BY <1>1, <1>6, FoldFacts, UpTyped DEF Book
    <2>2. j \in (i + 1)..Heard(p) /\ Up(j, p)
      <3>1. j \in (i + 1)..Heard(p) /\ Up(j, p)'
        BY <1>2, <1>5, <2>1
      <3>2. j \in 1..n
        BY <1>1, <2>1, <3>1, UpTyped DEF Book
      <3>3. QED
        BY <1>1, <3>1, <3>2, FoldFacts DEF Book
    <2>3. Recovery(i, p) # {}
      BY <1>5, <2>2 DEF Book, BookInv, Recovers
    <2>4. QED
      BY <1>1, <1>5, <1>6, <2>3, FoldRecovery DEF Book
  <1>7. CASE p = k
    <2>1. Heard(k) = n - 1 /\ Heard(k)' = n /\ i \in 1..(n - 1)
      BY <1>1, <1>5, <1>7, FoldFacts DEF Book
    <2>2. j \in (i + 1)..n /\ Up(j, k)
      BY <1>1, <1>2, <1>5, <1>7, <2>1, FoldFacts DEF Book
    <2>3. \A m \in (i + 1)..(n - 1) : Up(m, k) => Recovery(i, k) # {}
      BY <1>5, <1>7, <2>1 DEF Book, BookInv, Recovers
    <2>4. CASE \E m \in (i + 1)..(n - 1) : Up(m, k)
      BY <1>1, <1>5, <1>7, <2>1, <2>3, <2>4, FoldRecovery DEF Book
    <2>5. CASE \A m \in (i + 1)..(n - 1) : ~Up(m, k)
      <3>1. Up(n, k)
        BY <2>2, <2>5
      <3>2. n \in Recovery(i, k)'
        BY <1>1, <2>1, <2>5, <3>1, FoldRecovery DEF Book
      <3>3. QED
        BY <1>5, <1>7, <3>2
    <2>6. QED
      BY <2>4, <2>5
  <1>8. QED
    BY <1>6, <1>7

LEMMA FoldWentDown ==
  ASSUME Book, FoldNext
  PROVE  WentDown'
  <1>1. PICK k \in 1..Len(Probes), n \in Nat : k = next /\ n = Len(rounds)
    BY UpTyped DEF FoldNext, Typed, Book
  <1>2. SUFFICES ASSUME NEW j \in 1..Len(Probes), NEW h \in 1..n, h = Heard(j)', ~Up(h, j)'
                 PROVE  \E i \in 1..h : GoesDown(i, j)' /\ \A m \in i..h : ~Up(m, j)'
    <2>1. \A j \in 1..Len(Probes) : Heard(j)' \in 0..n
      BY <1>1, UpTyped, FoldFacts DEF Book
    <2>2. QED
      BY <2>1 DEF WentDown
  <1>3. \A i \in 1..n : Up(i, j)' = Up(i, j)
    BY <1>1, FoldFacts DEF Book
  <1>4. CASE j # k
    <2>1. h = Heard(j) /\ ~Up(h, j)
      BY <1>1, <1>2, <1>3, <1>4, FoldFacts DEF Book
    <2>2. PICK i \in 1..h : GoesDown(i, j) /\ \A m \in i..h : ~Up(m, j)
      BY <2>1 DEF Book, BookInv, WentDown
    <2>3. GoesDown(i, j)' /\ \A m \in i..h : ~Up(m, j)'
      BY <1>2, <1>3, <2>1, <2>2 DEF GoesDown
    <2>4. QED
      BY <2>3
  <1>5. CASE j = k
    <2>1. h = n /\ Heard(j) = n - 1 /\ Heard(j)' = n /\ ~Up(n, j)
      BY <1>1, <1>2, <1>3, <1>5, FoldFacts DEF Book
    <2>2. CASE n > 1 => Up(n - 1, j)
      BY <1>3, <2>1, <2>2, n \in 1..h DEF GoesDown
    <2>3. CASE n > 1 /\ ~Up(n - 1, j)
      <3>1. PICK i \in 1..(n - 1) : GoesDown(i, j) /\ \A m \in i..(n - 1) : ~Up(m, j)
        BY <2>1, <2>3 DEF Book, BookInv, WentDown
      <3>2. GoesDown(i, j)' /\ \A m \in i..n : ~Up(m, j)'
        BY <1>3, <2>1, <3>1 DEF GoesDown
      <3>3. QED
        BY <2>1, <3>2
    <2>4. QED
      BY <2>2, <2>3
  <1>6. QED
    BY <1>4, <1>5

\* A new moment: the log gains its outage at the end.
LEMMA FoldOpens ==
  ASSUME Book, FoldNext, NEW k \in 1..Len(Probes), k = next, NEW n \in Nat, n = Len(rounds),
         NewDown(n, k)
  PROVE  LogMatches' /\ LogSound'
  <1>1. /\ n > 0 /\ Heard(k) = n - 1 /\ Typed' /\ Kept /\ n = Len(rounds')
        /\ ApplyResult(Probes[k], Up(n, k), rounds[n].time)
    BY FoldFacts DEF Book
  <1>2. incidents' = OpenIncident(Probes[k], rounds[n].time)
    <2>1. Probes[k] \in seen => last[Probes[k]] = Up(n - 1, k) /\ n > 1
      BY <1>1 DEF Book, BookInv, LastMatches
    <2>2. ~Up(n, k) /\ (Probes[k] \notin seen \/ last[Probes[k]])
      BY <2>1 DEF NewDown
    <2>3. QED
      BY <1>1, <2>2 DEF ApplyResult, LogAfter
  <1>3. PICK in \in Incident :
          in = [target |-> Probes[k], start |-> rounds[n].time, end |-> {}, durationS |-> {}]
    <2>1. rounds[n].time \in Clock /\ Probes[k] \in Targets
      <3>1. rounds[n] \in Round
        BY <1>1, n \in 1..n, ElementOfSeq DEF Book, Typed
      <3>2. QED
        BY <3>1, ProbeNames DEF Round
    <2>2. PICK e \in SUBSET Clock, d \in SUBSET Durations : e = {} /\ d = {}
      OBVIOUS
    <2>3. QED
      BY <2>1, <2>2, IncidentTyped, Zenon
  <1>4. PICK c \in Nat, d \in Nat : c = Len(incidents) /\ d = Cardinality(Downs)
    BY LenProperties, DownsFinite DEF Book, Typed
  <1>5. c = IF d > MaxIncidents THEN MaxIncidents ELSE d
    BY <1>4 DEF Book, BookInv, LogMatches
  <1>6. MaxIncidents \in Nat \ {0}
    BY UptimeAssumption
  <1>7. PICK l \in Nat : /\ l = Len(incidents')
                         /\ l = IF c = MaxIncidents THEN MaxIncidents ELSE c + 1
                         /\ incidents'[l] = in
                         /\ \A m \in 1..(l - 1) : incidents'[l - m] = incidents[c - (m - 1)]
    <2>1. incidents' = LastN(Append(incidents, in), MaxIncidents)
      BY <1>2, <1>3 DEF OpenIncident
    <2>2. PICK log \in Seq(Incident) : log = incidents /\ Len(log) <= MaxIncidents
      <3>1. incidents \in Seq(Incident)
        BY DEF Book, Typed
      <3>2. Len(incidents) <= MaxIncidents
        BY <1>4, <1>5, <1>6
      <3>3. QED
        BY <3>1, <3>2, Zenon
    <2>3. LET r == LastN(Append(log, in), MaxIncidents)
          IN  /\ Len(r) = IF Len(log) = MaxIncidents THEN MaxIncidents ELSE Len(log) + 1
              /\ r[Len(r)] = in
              /\ \A m \in 1..(Len(r) - 1) : r[Len(r) - m] = log[Len(log) - (m - 1)]
      <3>1. Len(log) <= MaxIncidents
        BY <2>2
      <3>2. QED
        BY <1>6, <3>1, LastNAppend, SMTT(60)
    <2>4. Len(incidents') \in Nat
      BY <1>1, LenProperties DEF Typed
    <2>5. QED
      BY <1>4, <2>1, <2>2, <2>3, <2>4, Zenon
  <1> DEFINE new == <<n, k>>
  <1>8. /\ new \notin Downs /\ Downs' = Downs \cup {new} /\ After(new)' = {}
        /\ \A s \in Downs : After(s)' = After(s) \cup {new} /\ new \notin After(s)
    BY FoldMoments DEF Book
  <1> HIDE DEF new
  <1>9. /\ Cardinality(Downs)' = d + 1
        /\ Cardinality(After(new)') = 0
        /\ \A s \in Downs : /\ Cardinality(After(s)) \in 0..(d - 1)
                            /\ Cardinality(After(s)') = Cardinality(After(s)) + 1
    <2>1. /\ IsFiniteSet(Downs)
          /\ \A s \in Downs : /\ IsFiniteSet(After(s)) /\ Cardinality(After(s)) \in Nat
                              /\ Cardinality(After(s)) < Cardinality(Downs)
      BY DownsFinite DEF Book
    <2>2. Cardinality(Downs \cup {new}) = d + 1
      BY <1>4, <1>8, <2>1, FS_AddElement
    <2>3. \A s \in Downs : Cardinality(After(s) \cup {new}) = Cardinality(After(s)) + 1
      BY <1>8, <2>1, FS_AddElement
    <2>4. QED
      BY <1>4, <1>8, <2>1, <2>2, <2>3, FS_EmptySet
  <1>10. \A s \in Downs : Outage(s)' = Outage(s)
    <2> SUFFICES ASSUME NEW s \in Downs PROVE Recovery(s[1], s[2])' = Recovery(s[1], s[2])
      BY <1>1, OutageKept DEF Book
    <2>1. PICK i \in 1..n, j \in 1..Len(Probes) : i = s[1] /\ j = s[2] /\ i <= Heard(j)
      BY DownFacts, UpTyped DEF Book
    <2>2. Recovery(i, j)' = Recovery(i, j)
      BY <1>1, <2>1, FoldRecovery DEF Book, NewDown
    <2>3. QED
      BY <2>1, <2>2
  <1>11. Outage(new)' = in
    <2>1. Recovery(n, k)' = {}
      BY FoldRecovery DEF Book
    <2>2. rounds'[n].time = rounds[n].time
      BY <1>1, UpKept DEF Book
    <2>3. new[1] = n /\ new[2] = k
      BY DEF new
    <2>4. Recovery(new[1], new[2])' = {}
      BY <2>1, <2>3
    <2>5. QED
      BY <1>3, <2>2, <2>3, <2>4 DEF Outage
  <1>12. LogMatches'
    <2>1. l = IF d + 1 > MaxIncidents THEN MaxIncidents ELSE d + 1
      BY <1>5, <1>6, <1>7
    <2>2. incidents'[l - 0] = Outage(new)'
      BY <1>7, <1>11
    <2>3. ASSUME NEW s \in Downs, NEW m \in Nat, m = Cardinality(After(s)) + 1, m < MaxIncidents
          PROVE  incidents'[l - m] = Outage(s)'
      <3>1. PICK q \in 0..(d - 1) : q = Cardinality(After(s)) /\ q = m - 1 /\ q < MaxIncidents
        BY <1>9, <1>6, <2>3
      <3>2. incidents[c - q] = Outage(s)
        BY <1>4, <3>1 DEF Book, BookInv, LogMatches
      <3>3. m \in 1..(l - 1)
        BY <2>1, <2>3, <3>1, <1>6
      <3>4. incidents'[l - m] = incidents[c - q]
        BY <1>7, <3>1, <3>3
      <3>5. QED
        BY <1>10, <3>2, <3>4
    <2>4. \A s \in Downs' : Cardinality(After(s)') < MaxIncidents =>
            incidents'[l - Cardinality(After(s)')] = Outage(s)'
      <3> SUFFICES ASSUME NEW s \in Downs', Cardinality(After(s)') < MaxIncidents
                   PROVE  incidents'[l - Cardinality(After(s)')] = Outage(s)'
        OBVIOUS
      <3>1. CASE s = new
        BY <1>9, <2>2, <3>1
      <3>2. CASE s \in Downs
        BY <1>9, <2>3, <3>2
      <3>3. QED
        BY <1>8, <3>1, <3>2
    <2>5. QED
      BY <1>7, <1>9, <2>1, <2>4 DEF LogMatches
  <1>13. LogSound'
    <2> SUFFICES ASSUME NEW j \in 1..l
                 PROVE  \E s \in Downs' : Cardinality(After(s)') = l - j
      BY <1>7 DEF LogSound
    <2>1. CASE j = l
      BY <1>8, <1>9, <2>1, l - l = 0
    <2>2. CASE j < l
      <3>1. PICK i \in 1..c : i = c - (l - j - 1)
        <4>1. c <= MaxIncidents
          BY <1>5, <1>6
        <4>2. c - (l - j - 1) \in 1..c
          BY <1>6, <1>7, <2>2, <4>1
        <4>3. QED
          BY <4>2
      <3>2. PICK s \in Downs : Cardinality(After(s)) = c - i
        BY <1>4 DEF Book, BookInv, LogSound
      <3>3. Cardinality(After(s)') = l - j
        BY <1>9, <3>1, <3>2
      <3>4. QED
        BY <1>8, <3>3
    <2>3. QED
      BY <2>1, <2>2
  <1>14. QED
    BY <1>12, <1>13

\* No moment, no recovery: the log stays, and so does every outage.
LEMMA FoldKeeps ==
  ASSUME Book, FoldNext, NEW k \in 1..Len(Probes), k = next, NEW n \in Nat, n = Len(rounds),
         ~NewDown(n, k), Up(n, k) /\ n > 1 => Up(n - 1, k)
  PROVE  LogMatches' /\ LogSound'
  <1>1. /\ n > 0 /\ Heard(k) = n - 1 /\ Typed' /\ Kept /\ n = Len(rounds')
        /\ ApplyResult(Probes[k], Up(n, k), rounds[n].time)
    BY FoldFacts DEF Book
  <1>2. incidents' = incidents
    <2>1. (Probes[k] \in seen <=> n > 1) /\ (n > 1 => last[Probes[k]] = Up(n - 1, k))
      BY <1>1 DEF Book, BookInv, LastMatches
    <2>2. /\ ~(~Up(n, k) /\ (Probes[k] \notin seen \/ last[Probes[k]]))
          /\ ~(Up(n, k) /\ Probes[k] \in seen /\ ~last[Probes[k]])
      BY <2>1 DEF NewDown
    <2>3. QED
      BY <1>1, <2>2 DEF ApplyResult, LogAfter
  <1>3. Downs' = Downs /\ \A s \in Downs : After(s)' = After(s)
    BY FoldMoments DEF Book
  <1>4. \A s \in Downs : Outage(s)' = Outage(s)
    <2> SUFFICES ASSUME NEW s \in Downs PROVE Recovery(s[1], s[2])' = Recovery(s[1], s[2])
      BY <1>1, OutageKept DEF Book
    <2>1. PICK i \in 1..n, j \in 1..Len(Probes) :
            i = s[1] /\ j = s[2] /\ i <= Heard(j) /\ ~Up(i, j)
      BY DownFacts, UpTyped DEF Book
    <2>2. CASE j # k
      BY <2>1, <2>2, FoldRecovery DEF Book
    <2>3. CASE j = k
      <3>1. i \in 1..(n - 1) /\ n > 1
        BY <1>1, <2>1, <2>3
      <3>2. Up(n, k) => n - 1 \in (i + 1)..(n - 1) /\ Up(n - 1, k)
        BY <2>1, <2>3, <3>1
      <3>3. Recovery(i, k)' = Recovery(i, k)
        BY <3>1, <3>2, FoldRecovery DEF Book
      <3>4. QED
        BY <2>1, <2>3, <3>3
    <2>4. QED
      BY <2>2, <2>3
  <1>5. LogMatches'
    BY <1>2, <1>3, <1>4 DEF Book, BookInv, LogMatches
  <1>6. LogSound'
    BY <1>2, <1>3 DEF Book, BookInv, LogSound
  <1>7. QED
    BY <1>5, <1>6

\* Every entry of the log has an outage of its own, which tells whether it is open.
LEMMA LogEntries ==
  ASSUME Book
  PROVE  /\ Len(incidents) \in Nat /\ Len(incidents) <= MaxIncidents
         /\ \A j \in 1..Len(incidents) : \E s \in Downs :
              /\ Cardinality(After(s)) = Len(incidents) - j
              /\ \A k \in 1..Len(Probes) :
                   IsOpen(j, Probes[k]) <=> s[2] = k /\ Recovery(s[1], s[2]) = {}
  <1>1. PICK c \in Nat : c = Len(incidents) /\ c <= MaxIncidents
    <2>1. Len(incidents) \in Nat
      BY LenProperties DEF Book, Typed
    <2>2. Len(incidents) <= MaxIncidents
      BY <2>1, UptimeAssumption, DownsFinite DEF Book, BookInv, LogMatches
    <2>3. QED
      BY <2>1, <2>2
  <1>2. ASSUME NEW j \in 1..c
        PROVE  \E s \in Downs : Cardinality(After(s)) = c - j /\ incidents[j] = Outage(s)
    <2>1. PICK s \in Downs : Cardinality(After(s)) = c - j
      BY <1>1 DEF Book, BookInv, LogSound
    <2>2. c - j < MaxIncidents /\ c - (c - j) = j
      BY <1>1, UptimeAssumption
    <2>3. incidents[c - (c - j)] = Outage(s)
      BY <1>1, <2>1, <2>2 DEF Book, BookInv, LogMatches
    <2>4. QED
      BY <2>1, <2>2, <2>3
  <1>3. ASSUME NEW s \in Downs, NEW k \in 1..Len(Probes), NEW j, incidents[j] = Outage(s)
        PROVE  IsOpen(j, Probes[k]) <=> s[2] = k /\ Recovery(s[1], s[2]) = {}
    <2>1. /\ Outage(s).target = Probes[s[2]]
          /\ Outage(s).end = {rounds[a].time : a \in Recovery(s[1], s[2])}
      BY Zenon DEF Outage
    <2>2. {rounds[a].time : a \in Recovery(s[1], s[2])} = {} <=> Recovery(s[1], s[2]) = {}
      BY Zenon
    <2>3. /\ incidents[j].target = Probes[s[2]]
          /\ Ongoing(incidents[j]) <=> Recovery(s[1], s[2]) = {}
      BY <1>3, <2>1, <2>2, Zenon DEF Ongoing
    <2>4. Probes[s[2]] = Probes[k] <=> s[2] = k
      BY ProbeNames, DownFacts DEF Book
    <2>5. QED
      BY <2>3, <2>4 DEF IsOpen
  <1>4. ASSUME NEW j \in 1..c
        PROVE  \E s \in Downs :
                 /\ Cardinality(After(s)) = c - j
                 /\ \A k \in 1..Len(Probes) :
                      IsOpen(j, Probes[k]) <=> s[2] = k /\ Recovery(s[1], s[2]) = {}
    <2>1. PICK s \in Downs : Cardinality(After(s)) = c - j /\ incidents[j] = Outage(s)
      BY <1>2
    <2>2. \A k \in 1..Len(Probes) :
            IsOpen(j, Probes[k]) <=> s[2] = k /\ Recovery(s[1], s[2]) = {}
      BY <1>3, <2>1
    <2>3. QED
      BY <2>1, <2>2, Zenon
  <1>5. QED
    BY <1>1, <1>4, Zenon

\* A recovery: the target's latest outage ends, in the log if it is still there.
LEMMA FoldCloses ==
  ASSUME Book, FoldNext, NEW k \in 1..Len(Probes), k = next, NEW n \in Nat, n = Len(rounds),
         Up(n, k), n > 1, ~Up(n - 1, k)
  PROVE  LogMatches' /\ LogSound'
  <1>1. /\ Heard(k) = n - 1 /\ Typed' /\ Kept /\ n = Len(rounds')
        /\ ApplyResult(Probes[k], Up(n, k), rounds[n].time)
    BY FoldFacts DEF Book
  <1>2. incidents' = CloseIncident(Probes[k], rounds[n].time)
    <2>1. Probes[k] \in seen /\ last[Probes[k]] = Up(n - 1, k)
      BY <1>1 DEF Book, BookInv, LastMatches
    <2>2. QED
      BY <1>1, <2>1 DEF ApplyResult, LogAfter
  <1>3. ~NewDown(n, k)
    BY DEF NewDown
  <1>4. Downs' = Downs /\ \A s \in Downs : After(s)' = After(s)
    BY <1>3, FoldMoments DEF Book
  <1>5. PICK i \in 1..(n - 1) : GoesDown(i, k) /\ \A j \in i..(n - 1) : ~Up(j, k)
    BY <1>1 DEF Book, BookInv, WentDown
  <1>6. PICK u \in Downs : u = <<i, k>> /\ u[1] = i /\ u[2] = k
    <2>1. i \in 1..n
      OBVIOUS
    <2>2. <<i, k>> \in Downs
      BY <1>5, <2>1, DownFacts DEF Book
    <2>3. QED
      BY <2>2
  <1>7. Recovery(i, k) = {} /\ Recovery(i, k)' = {n}
    <2>1. Recovery(i, k) = {}
      BY <1>1, <1>5 DEF Recovery
    <2>2. Recovery(i, k)' = Recovery(i, k) \cup {n}
      BY <1>5, FoldRecovery DEF Book
    <2>3. QED
      BY <2>1, <2>2
  <1>8. \A s \in Downs : s # u => Recovery(s[1], s[2])' = Recovery(s[1], s[2])
    <2> SUFFICES ASSUME NEW s \in Downs, s # u
                 PROVE  Recovery(s[1], s[2])' = Recovery(s[1], s[2])
      OBVIOUS
    <2>1. PICK a \in 1..n, j \in 1..Len(Probes) :
            a = s[1] /\ j = s[2] /\ a <= Heard(j)
      BY DownFacts, UpTyped DEF Book
    <2>2. CASE j # k
      BY <2>1, <2>2, FoldRecovery DEF Book
    <2>3. CASE j = k
      <3>1. a \in 1..(n - 1)
        BY <1>1, <2>1, <2>3
      <3>2. Recovery(a, k) # {}
        BY <1>6, <1>7, <2>1, <2>3, EarlierRecovered DEF Book, BookInv
      <3>3. PICK m \in (a + 1)..(n - 1) : Up(m, k)
        BY <1>1, <3>2 DEF Recovery
      <3>4. Recovery(a, k)' = Recovery(a, k)
        BY <3>1, <3>3, FoldRecovery DEF Book
      <3>5. QED
        BY <2>1, <2>3, <3>4
    <2>4. QED
      BY <2>2, <2>3
  <1>9. \A s \in Downs : s # u => Outage(s)' = Outage(s)
    BY <1>1, <1>8, OutageKept DEF Book
  <1>10. PICK c \in Nat, r \in Nat : /\ c = Len(incidents) /\ r = Cardinality(After(u))
                                     /\ c <= MaxIncidents
    BY LogEntries, DownsFinite DEF Book
  \* The entry of the outage that ends is the only one of its target still open.
  <1>11. \A j \in 1..c : IsOpen(j, Probes[k]) <=> j = c - r
    <2> SUFFICES ASSUME NEW j \in 1..c PROVE IsOpen(j, Probes[k]) <=> j = c - r
      OBVIOUS
    <2>1. PICK s \in Downs :
            /\ Cardinality(After(s)) = c - j
            /\ IsOpen(j, Probes[k]) <=> s[2] = k /\ Recovery(s[1], s[2]) = {}
      BY <1>10, LogEntries
    <2>2. IsOpen(j, Probes[k]) <=> s = u
      BY <1>6, <1>7, <2>1, EarlierRecovered DEF Book, BookInv
    <2>3. s = u <=> j = c - r
      <3>1. s = u => j = c - r
        BY <1>10, <2>1
      <3>2. j = c - r => Cardinality(After(s)) = Cardinality(After(u))
        BY <1>10, <2>1
      <3>3. QED
        BY <3>1, <3>2, RanksDiffer DEF Book
    <2>4. QED
      BY <2>2, <2>3
  <1>12. LastOpen(Probes[k]) = {j \in 1..c : j = c - r}
    BY <1>10, <1>11 DEF LastOpen
  <1>13. /\ Len(incidents') = c
         /\ \A j \in 1..c : incidents'[j] =
              IF j # c - r THEN incidents[j]
              ELSE [target |-> Probes[k], start |-> incidents[j].start, end |-> {rounds[n].time},
                    durationS |-> {Duration(incidents[j].start, rounds[n].time)}]
    <2>1. Len(incidents') = c
      <3>1. rounds[n].time \in Clock /\ Probes[k] \in Targets
        <4>1. rounds[n] \in Round
          BY n \in 1..n, ElementOfSeq DEF Book, Typed
        <4>2. QED
          BY <4>1, ProbeNames DEF Round
      <3>2. QED
        BY <1>2, <1>10, <3>1, CloseTyped DEF Book, Typed
    <2>2. ASSUME NEW j \in 1..c
          PROVE  incidents'[j] =
              IF j # c - r THEN incidents[j]
              ELSE [target |-> Probes[k], start |-> incidents[j].start, end |-> {rounds[n].time},
                    durationS |-> {Duration(incidents[j].start, rounds[n].time)}]
      BY <1>2, <1>10, <1>12, Zenon DEF CloseIncident
    <2>3. QED
      BY <2>1, <2>2
  <1>14. \A s \in Downs : Cardinality(After(s)) < MaxIncidents =>
           incidents'[c - Cardinality(After(s))] = Outage(s)'
    <2> SUFFICES ASSUME NEW s \in Downs, Cardinality(After(s)) < MaxIncidents
                 PROVE  incidents'[c - Cardinality(After(s))] = Outage(s)'
      OBVIOUS
    <2>1. PICK q \in Nat : q = Cardinality(After(s)) /\ c - q \in 1..c
      BY <1>10, UptimeAssumption, DownsFinite DEF Book, BookInv, LogMatches
    <2>2. incidents[c - q] = Outage(s)
      BY <1>10, <2>1 DEF Book, BookInv, LogMatches
    <2>3. CASE s # u
      <3>1. c - q # c - r
        BY <1>10, <2>1, <2>3, RanksDiffer DEF Book
      <3>2. QED
        BY <1>9, <1>13, <2>1, <2>2, <2>3, <3>1
    <2>4. CASE s = u
      <3>1. incidents[c - q].start = rounds[i].time
        BY <1>6, <2>2, <2>4 DEF Outage
      <3>2. incidents'[c - q] =
              [target |-> Probes[k], start |-> rounds[i].time, end |-> {rounds[n].time},
               durationS |-> {Duration(rounds[i].time, rounds[n].time)}]
        BY <1>10, <1>13, <2>1, <2>4, <3>1
      <3>3. rounds'[i].time = rounds[i].time /\ rounds'[n].time = rounds[n].time
        BY <1>1, UpKept DEF Book
      <3>4. Outage(u)' = [target |-> Probes[k], start |-> rounds[i].time, end |-> {rounds[n].time},
                          durationS |-> {Duration(rounds[i].time, rounds[n].time)}]
        <4>1. {rounds'[j].time : j \in {n}} = {rounds[n].time}
          BY <3>3, Zenon
        <4>2. u[1] = i /\ u[2] = k /\ Recovery(u[1], u[2])' = {n}
          BY <1>6, <1>7
        <4>3. PICK ends, start : /\ ends = {rounds'[j].time : j \in Recovery(u[1], u[2])'}
                                 /\ start = rounds'[u[1]].time
          OBVIOUS
        <4>4. ends = {rounds[n].time} /\ start = rounds[i].time
          BY <3>3, <4>1, <4>2, <4>3
        <4>5. {Duration(start, e) : e \in ends} = {Duration(start, rounds[n].time)}
          BY <4>4, Zenon
        <4>6. Outage(u)' = [target |-> Probes[u[2]], start |-> start, end |-> ends,
                            durationS |-> {Duration(start, e) : e \in ends}]
          BY <4>3, Zenon DEF Outage
        <4>7. QED
          BY <4>2, <4>4, <4>5, <4>6
      <3>5. QED
        BY <2>1, <2>4, <3>2, <3>4
    <2>5. QED
      BY <2>3, <2>4
  <1>15. LogMatches'
    BY <1>4, <1>10, <1>13, <1>14 DEF Book, BookInv, LogMatches
  <1>16. LogSound'
    BY <1>4, <1>10, <1>13 DEF Book, BookInv, LogSound
  <1>17. QED
    BY <1>15, <1>16

LEMMA FoldStep ==
  ASSUME Book, FoldNext
  PROVE  Book'
  <1>1. PICK k \in 1..Len(Probes), n \in Nat : k = next /\ n = Len(rounds) /\ n > 0
    BY UpTyped DEF FoldNext, Typed, Book
  <1>2. LogMatches' /\ LogSound'
    <2>1. CASE NewDown(n, k)
      BY <1>1, <2>1, FoldOpens
    <2>2. CASE ~NewDown(n, k) /\ (Up(n, k) /\ n > 1 => Up(n - 1, k))
      BY <1>1, <2>2, FoldKeeps
    <2>3. CASE Up(n, k) /\ n > 1 /\ ~Up(n - 1, k)
      BY <1>1, <2>3, FoldCloses
    <2>4. QED
      BY <2>1, <2>2, <2>3
  <1>3. QED
    BY <1>2, FoldTyped, FoldLast, FoldRings, FoldRecovers, FoldWentDown DEF Book, BookInv

LEMMA BookInit == Init => Book
  <1> SUFFICES ASSUME Init PROVE BookInv
    BY TypedInit DEF Book
  <1>1. /\ rounds = <<>> /\ incidents = <<>> /\ seen = {} /\ pc = "probing"
        /\ \A k \in 1..Len(Probes) : samples[Probes[k]] = <<>>
    BY ProbeNames DEF Init
  <1>2. Len(rounds) = 0 /\ Len(incidents) = 0 /\ \A k \in 1..Len(Probes) : Len(samples[Probes[k]]) = 0
    BY <1>1
  <1>3. \A k \in 1..Len(Probes) : Heard(k) = 0
    BY <1>1, <1>2 DEF Heard
  <1>4. Downs = {} /\ Cardinality(Downs) = 0
    <2>1. Downs = {}
      BY <1>2 DEF Downs
    <2>2. QED
      BY <2>1, FS_EmptySet
  <1>5. LastMatches
    BY <1>1, <1>3 DEF LastMatches
  <1>6. RingsMatch
    <2>1. \A m \in 0..(0 - 1) : FALSE
      OBVIOUS
    <2>2. QED
      BY <1>2, <1>3, <2>1, UptimeAssumption DEF RingsMatch
  <1>7. LogMatches
    BY <1>2, <1>4, UptimeAssumption DEF LogMatches
  <1>8. LogSound
    BY <1>2 DEF LogSound
  <1>9. Recovers
    BY <1>4 DEF Recovers
  <1>10. WentDown
    BY <1>3 DEF WentDown
  <1>11. QED
    BY <1>5, <1>6, <1>7, <1>8, <1>9, <1>10 DEF BookInv

LEMMA BookStep == Book /\ [Next]_vars => Book'
  <1> SUFFICES ASSUME Book, [Next]_vars
               PROVE  Book'
    OBVIOUS
  <1>1. Typed /\ Typed'
    BY TypedStep DEF Book
  <1>2. CASE Lock
    <2>1. Kept /\ Len(rounds) \in Nat /\ Len(rounds') = Len(rounds) + 1
      BY <1>1, <1>2, LockTyped, LenProperties DEF Kept, Typed
    <2>2. UNCHANGED book /\ pc = "probing" /\ pc' = "folding" /\ next' = 1
      BY <1>2 DEF Lock
    <2>3. ASSUME NEW k \in 1..Len(Probes) PROVE Heard(k)' = Heard(k)
      BY <2>1, <2>2 DEF Heard
    <2>4. QED
      BY <1>1, <2>1, <2>2, <2>3, QuietStep DEF Book
  <1>3. CASE UNCHANGED <<next, book, rounds>> /\ (pc' = "folding" <=> pc = "folding")
    <2>1. Kept
      BY <1>1, <1>3, UpTyped DEF Kept
    <2>2. ASSUME NEW k \in 1..Len(Probes) PROVE Heard(k)' = Heard(k)
      BY <1>3 DEF Heard
    <2>3. QED
      BY <1>1, <1>3, <2>1, <2>2, QuietStep DEF Book
  <1>4. Lock \/ FoldNext \/ (UNCHANGED <<next, book, rounds>> /\ (pc' = "folding" <=> pc = "folding"))
    BY DEF Next, Loop, ProbeOne, StartRound, Return, TickerFires, Shutdown, Flip, vars
  <1>5. QED
    BY <1>2, <1>3, <1>4, FoldStep

LEMMA BookAlways == Spec => []Book
  BY BookInit, BookStep, PTL DEF Spec

\* In every behaviour, at every step of a fold, the incident log is the outages
\* of all complete rounds, the latest MaxIncidents of them, and every ring the
\* latest RingCap samples of its target (uptime.go:119-172).
THEOREM LogTellsTheOutages == Spec => []LogIsOutages
  <1>1. Book => LogIsOutages
    BY DEF Book, BookInv, LogIsOutages
  <1>2. QED
    BY BookAlways, <1>1, PTL

\* In every behaviour no ring outgrows uptimeRingCap and the log does not
\* outgrow maxIncidents (uptime.go:54-59, 131-135, 152-157).
THEOREM RingsAndLogAreBounded == Spec => []TypeOK
  <1>1. ASSUME Book PROVE TypeOK
    <2>1. \A t \in Targets : Len(samples[t]) <= RingCap
      <3> SUFFICES ASSUME NEW t \in Targets PROVE Len(samples[t]) <= RingCap
        OBVIOUS
      <3>1. PICK k \in 1..Len(Probes) : t = Probes[k]
        BY ProbeNames
      <3>2. QED
        BY <1>1, <3>1, UpTyped, UptimeAssumption DEF Book, BookInv, RingsMatch
    <2>2. Len(incidents) <= MaxIncidents
      BY <1>1, LogEntries
    <2>3. QED
      BY <1>1, <2>1, <2>2 DEF TypeOK, Book, Typed
  <1>2. QED
    BY BookAlways, <1>1, PTL

LEMMA BookIsCoherent ==
  ASSUME Book, pc # "folding", NEW k \in 1..Len(Probes)
  PROVE  LET open == {j \in 1..Len(incidents) : IsOpen(j, Probes[k])}
         IN  /\ Status(Probes[k]) = "up" => open = {}
             /\ Status(Probes[k]) = "down" => \/ Cardinality(open) = 1
                                              \/ open = {} /\ Len(incidents) = MaxIncidents
  <1>1. PICK h \in Nat, c \in Nat : h = Heard(k) /\ c = Len(incidents) /\ c <= MaxIncidents
    BY UpTyped, LogEntries DEF Book
  <1>2. MaxIncidents \in Nat \ {0} /\ RingCap \in Nat /\ MinSamples \in 1..RingCap
    BY UptimeAssumption
  \* The status is the latest reading.
  <1>3. /\ Status(Probes[k]) = "up" => h > 0 /\ Up(h, k)
        /\ Status(Probes[k]) = "down" => h > 0 /\ ~Up(h, k)
    <2>1. PICK ring, n : ring = samples[Probes[k]] /\ n = Len(ring)
      OBVIOUS
    <2>2. /\ n = IF h > RingCap THEN RingCap ELSE h
          /\ \A m \in 0..(n - 1) : ring[n - m].up = Up(h - m, k)
      <3>1. /\ n = IF h > RingCap THEN RingCap ELSE h
            /\ \A m \in 0..(n - 1) :
                 ring[n - m] = [ts |-> rounds[h - m].time, up |-> Up(h - m, k)]
        BY <1>1, <2>1 DEF Book, BookInv, RingsMatch
      <3>2. ASSUME NEW m \in 0..(n - 1) PROVE ring[n - m].up = Up(h - m, k)
        <4>1. PICK time, up : ring[n - m] = [ts |-> time, up |-> up] /\ up = Up(h - m, k)
          BY <3>1, Zenon
        <4>2. QED
          BY <4>1
      <3>3. QED
        BY <3>1, <3>2
    <2>3. n >= MinSamples => h > 0 /\ ring[n].up = Up(h, k)
      <3>1. n \in Nat /\ (n >= MinSamples => n > 0 /\ h > 0)
        BY <1>2, <2>2
      <3>2. n > 0 => ring[n - 0].up = Up(h - 0, k)
        BY <2>2, <3>1
      <3>3. QED
        BY <3>1, <3>2, n - 0 = n, h - 0 = h
    <2>4. /\ Status(Probes[k]) = "up" => n >= MinSamples /\ ring[n].up
          /\ Status(Probes[k]) = "down" => n >= MinSamples /\ ~ring[n].up
      BY <1>2, <2>1, <2>2 DEF Status
    <2>5. QED
      BY <2>3, <2>4
  <1>4. PICK open : open = {j \in 1..c : IsOpen(j, Probes[k])}
    OBVIOUS
  \* An open entry's outage is the target's, and not over.
  <1>5. ASSUME NEW j \in open
        PROVE  j \in 1..c /\ \E s \in Downs : /\ Cardinality(After(s)) = c - j
                                              /\ s[2] = k /\ Recovery(s[1], k) = {}
    BY <1>1, <1>4, LogEntries
  <1>6. ASSUME h > 0, Up(h, k) PROVE open = {}
    <2> SUFFICES ASSUME NEW j \in open PROVE FALSE
      OBVIOUS
    <2>1. PICK s \in Downs : s[2] = k /\ Recovery(s[1], k) = {}
      BY <1>5
    <2>2. s[1] \in 1..h /\ ~Up(s[1], k)
      BY <1>1, <2>1, DownFacts DEF Book
    <2>3. h \in (s[1] + 1)..h
      BY <1>6, <2>2
    <2>4. QED
      BY <1>1, <1>6, <2>1, <2>3 DEF Book, BookInv, Recovers
  <1>7. ASSUME h > 0, ~Up(h, k)
        PROVE  Cardinality(open) = 1 \/ (open = {} /\ c = MaxIncidents)
    <2>1. PICK i \in 1..h : GoesDown(i, k) /\ \A j \in i..h : ~Up(j, k)
      BY <1>1, <1>7 DEF Book, BookInv, WentDown
    <2>2. PICK u \in Downs : u[2] = k /\ Recovery(u[1], k) = {}
      <3>1. i \in 1..Len(rounds)
        BY <1>1, UpTyped DEF Book
      <3>2. <<i, k>> \in Downs
        BY <2>1, <3>1, DownFacts DEF Book
      <3>3. Recovery(i, k) = {}
        BY <1>1, <2>1 DEF Recovery
      <3>4. QED
        BY <3>2, <3>3
    <2>3. PICK r \in Nat, d \in Nat :
            r = Cardinality(After(u)) /\ d = Cardinality(Downs) /\ r < d
      BY DownsFinite DEF Book
    <2>4. c = IF d > MaxIncidents THEN MaxIncidents ELSE d
      BY <1>1, <2>3 DEF Book, BookInv, LogMatches
    <2>5. \A j \in open : j \in 1..c /\ j = c - r
      <3> SUFFICES ASSUME NEW j \in open PROVE j \in 1..c /\ j = c - r
        OBVIOUS
      <3>1. PICK s \in Downs : /\ Cardinality(After(s)) = c - j
                               /\ s[2] = k /\ Recovery(s[1], k) = {}
        BY <1>5
      <3>2. s = u
        BY <2>2, <3>1, EarlierRecovered DEF Book, BookInv
      <3>3. j \in 1..c /\ c - j = r
        BY <1>5, <2>3, <3>1, <3>2
      <3>4. QED
        BY <3>3
    <2>6. CASE r < MaxIncidents
      <3>1. PICK j \in 1..c : j = c - r
        BY <1>2, <2>3, <2>4, <2>6
      <3>2. PICK s \in Downs :
              /\ Cardinality(After(s)) = c - j
              /\ IsOpen(j, Probes[k]) <=> s[2] = k /\ Recovery(s[1], s[2]) = {}
        BY <1>1, LogEntries
      <3>3. s = u
        BY <2>3, <3>1, <3>2, RanksDiffer DEF Book
      <3>4. j \in open
        BY <1>4, <2>2, <3>2, <3>3
      <3>5. open = {j}
        BY <2>5, <3>1, <3>4
      <3>6. QED
        BY <3>5, FS_Singleton
    <2>7. CASE r >= MaxIncidents
      BY <1>2, <2>3, <2>4, <2>5, <2>7
    <2>8. QED
      BY <1>2, <2>6, <2>7
  <1>8. QED
    BY <1>1, <1>3, <1>4, <1>6, <1>7

\* In every behaviour, between two folds, no snapshot contradicts itself: no open
\* incident for a target shown "up", and exactly one for a target shown "down",
\* unless a full log has evicted it (uptime.go:211-272).
THEOREM SnapshotsAreCoherent == Spec => []PanelCoherent
  <1>1. ASSUME Book PROVE PanelCoherent
    <2> SUFFICES ASSUME pc # "folding", NEW t \in Targets
                 PROVE  LET open == {j \in 1..Len(incidents) : IsOpen(j, t)}
                        IN  /\ Status(t) = "up" => open = {}
                            /\ Status(t) = "down" => \/ Cardinality(open) = 1
                                                     \/ open = {} /\ Len(incidents) = MaxIncidents
      BY DEF PanelCoherent
    <2>1. PICK k \in 1..Len(Probes) : t = Probes[k]
      BY ProbeNames
    <2>2. QED
      BY <1>1, <2>1, BookIsCoherent
  <1>2. QED
    BY BookAlways, <1>1, PTL
=============================================================================
