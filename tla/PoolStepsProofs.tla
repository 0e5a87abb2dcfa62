-------------------------- MODULE PoolStepsProofs --------------------------
(***************************************************************************)
(* The critical sections of PoolSteps are atomic, for any number of        *)
(* goroutines, proxies and sessions, any headers and an unbounded clock.   *)
(*                                                                         *)
(* The inductive invariant says at every place of a section what the       *)
(* goroutine that holds poolMu has still to store: how the fields of the   *)
(* pool differ from those of the copy on which the one-step operation has  *)
(* been run already.  For a selection, which is fixed when the clock is    *)
(* read but found probe by probe, it says which probes have failed.        *)
(*                                                                         *)
(* From it follow that the sections are atomic, that the copy goes through *)
(* the steps of ProxyPool, and that the promises of ProxyPool hold of the  *)
(* program's loads and stores between the sections.                        *)
(***************************************************************************)
EXTENDS PoolSteps, ProxyPoolProofs

-----------------------------------------------------------------------------
(* The inductive invariant                                                 *)

\* The places of a section at which nothing is half done, and those of a
\* selection after the clock was read.
AtRest == {"clock", "current", "report", "add", "credit", "rotate", "renew", "unlock"}
Probing == {"health", "cooldown"}
Selected == {"cached", "recheck", "build"}
Reporting == {"parse", "deadline", "cool", "demote", "drop"}
Crediting == {"clear", "forgive", "promote"}
StepPlaces == {"idle"} \cup AtRest \cup Probing \cup Selected \cup Reporting \cup Crediting

LocalVariables ==
    [session : Sessions \cup {"none"},
     outcome : {"none", "network error", "error status", "success"},
     status : Nat, header : Headers \cup {AbsentHeader}, url : URLs \cup {"none"},
     probe : Nat, index : Indices, failures : Nat, time : Int]

StepsTypeOK ==
    /\ PoolTypeOK
    /\ pc \in [Goroutines -> StepPlaces]
    /\ local \in [Goroutines -> LocalVariables]

\* A goroutine is in a section exactly while it holds poolMu.
HolderIsInSection ==
    /\ poolMu \in Goroutines \cup {Nobody}
    /\ \A g \in Goroutines : pc[g] # "idle" <=> poolMu = g

\* What Select returns when the clock is read at t and the records are h and c.
AvailableAt(h, c, i, t) == h[i] /\ c[i] <= t

SelectAt(h, c, session, t) ==
    LET p == Preferred(session)
        hits == {k \in Indices : AvailableAt(h, c, Probe(p, k), t)}
    IN  IF hits = {} THEN p
        ELSE Probe(p, CHOOSE k \in hits : \A m \in hits : k <= m)

Chosen(g) == SelectAt(healthy, cooldownUntil, local[g].session, local[g].time)

\* The probes before the one g is at found nothing.
ScanInv(g) ==
    LET p == Preferred(local[g].session)
        k == local[g].probe
    IN  /\ k <= N
        /\ local[g].index = IF k = 0 THEN p ELSE Probe(p, k - 1)
        /\ \A m \in Indices : m < k - 1 => ~AvailableAt(healthy, cooldownUntil, Probe(p, m), local[g].time)

\* The copy differs from the pool in what g has still to store.
SameHealth == healthy = theHealthy /\ failureCounts = theFailureCounts /\ cooldownUntil = theCooldownUntil
Same == current = theCurrent /\ SameHealth /\ clientCache = theClientCache

ServeInv(g) ==
    /\ pc[g] \in Probing \cup Selected =>
          /\ current = theCurrent /\ SameHealth
          /\ theClientCache = [clientCache EXCEPT ![Chosen(g)] = @ \/ Buildable(Chosen(g))]
    /\ pc[g] \in Probing => ScanInv(g)
    /\ pc[g] = "cooldown" => healthy[local[g].index]
    /\ pc[g] \in Selected => local[g].index = Chosen(g)
    /\ pc[g] = "build" => Buildable(local[g].index)

ReportInv(g) ==
    LET i == local[g].index
        f == local[g].failures
    IN  /\ pc[g] \in {"report", "add", "parse", "deadline", "credit"} => i = IndexOf(URL[current])
        /\ pc[g] \in {"add", "parse", "deadline"} => FailureCounts(g)
        /\ pc[g] \in Reporting => current = theCurrent
        /\ pc[g] = "deadline" => local[g].time \in 0 .. now
        /\ pc[g] \in {"parse", "deadline"} =>
              /\ failureCounts = [theFailureCounts EXCEPT ![i] = f]
              /\ f = theFailureCounts[i] + 1 /\ f # 0
              /\ healthy = theHealthy /\ cooldownUntil = theCooldownUntil /\ clientCache = theClientCache
        /\ pc[g] \in {"cool", "demote", "drop"} =>
              /\ failureCounts = theFailureCounts
              /\ theClientCache = [clientCache EXCEPT ![i] = FALSE]
        /\ pc[g] = "cool" =>
              /\ local[g].time \in Int64
              /\ theCooldownUntil = [cooldownUntil EXCEPT ![i] = local[g].time]
              /\ theHealthy = [healthy EXCEPT ![i] = @ /\ f < UnhealthyAfter]
        /\ pc[g] = "demote" =>
              /\ cooldownUntil = theCooldownUntil
              /\ theHealthy = [healthy EXCEPT ![i] = FALSE]
        /\ pc[g] = "drop" => cooldownUntil = theCooldownUntil /\ healthy = theHealthy

CreditInv(g) ==
    LET i == local[g].index
    IN  /\ pc[g] \in Crediting =>
              /\ current = theCurrent
              /\ theHealthy = [healthy EXCEPT ![i] = TRUE]
              /\ theClientCache = [clientCache EXCEPT ![i] = FALSE]
        /\ pc[g] = "clear" =>
              /\ theFailureCounts = [failureCounts EXCEPT ![i] = 0]
              /\ theCooldownUntil = [cooldownUntil EXCEPT ![i] = 0]
        /\ pc[g] = "forgive" =>
              /\ failureCounts = theFailureCounts
              /\ theCooldownUntil = [cooldownUntil EXCEPT ![i] = 0]
        /\ pc[g] = "promote" => failureCounts = theFailureCounts /\ cooldownUntil = theCooldownUntil

CallInv(g) ==
    /\ pc[g] \in {"clock"} \cup Probing \cup Selected => local[g].session \in Sessions
    /\ pc[g] = "clock" => local[g].probe = 0
    /\ pc[g] \in {"current", "report", "add", "parse", "deadline"} /\ local[g].outcome = "error status"
          => local[g].status \in {s \in Statuses : s >= 400} /\ local[g].header \in Headers
    /\ pc[g] \in {"current", "report", "add", "parse", "deadline"} /\ local[g].outcome = "network error"
          => local[g].status = 0 /\ local[g].header = AbsentHeader
    /\ pc[g] \in {"report", "add", "parse", "deadline"} => local[g].outcome \in {"error status", "network error"}
    /\ pc[g] = "current" => local[g].outcome # "none"

SectionInv(g) ==
    /\ pc[g] \in AtRest => Same
    /\ CallInv(g) /\ ServeInv(g) /\ ReportInv(g) /\ CreditInv(g)

StepsInv ==
    /\ StepsTypeOK
    /\ HolderIsInSection
    /\ SectionsAreAtomic
    /\ \A g \in Goroutines : SectionInv(g)

-----------------------------------------------------------------------------
(* The operators of the copy, and the scan                                 *)

\* What does not depend on the state of the copy is what it is in ProxyPool.
LEMMA CopyOperators ==
    /\ \A url : Atomic!IndexOf(url) = IndexOf(url)
    /\ \A f, header, seen : Atomic!Backoff(f, header, seen) = Backoff(f, header, seen)
    /\ \A i : Atomic!Buildable(i) = Buildable(i)
    /\ \A status, e : Atomic!CountsAsFailure(status, e) = CountsAsFailure(status, e)
    /\ \A x : Atomic!WrapInt64(x) = WrapInt64(x)
    /\ Atomic!UnhealthyAfter = UnhealthyAfter
    /\ \A s : Atomic!Select(s) = SelectAt(theHealthy, theCooldownUntil, s, now)
BY DEF Atomic!IndexOf, IndexOf, Atomic!Backoff, Backoff, Atomic!Indices, Indices,
       Atomic!ParseRetryAfter, ParseRetryAfter, Atomic!ReadsAsSeconds, ReadsAsSeconds,
       Atomic!ReadsAsFutureDate, ReadsAsFutureDate, Atomic!WrapInt64, WrapInt64,
       Atomic!ExponentialBackoff, ExponentialBackoff, Atomic!Exponent, Exponent,
       Atomic!PowerOfTwo, PowerOfTwo, Atomic!MaxExponent, MaxExponent,
       Atomic!Buildable, Buildable, Atomic!CountsAsFailure, CountsAsFailure,
       Atomic!UnhealthyAfter, UnhealthyAfter, Atomic!Select, SelectAt, Atomic!Available,
       AvailableAt, Atomic!Preferred, Preferred, Atomic!Probe, Probe

\* The scan that finds its first available proxy at probe k selects it.
LEMMA SelectAtFirst ==
    ASSUME NEW h, NEW c, NEW s \in Sessions, NEW t, NEW k \in Indices,
           AvailableAt(h, c, Probe(Preferred(s), k), t),
           \A m \in Indices : m < k => ~AvailableAt(h, c, Probe(Preferred(s), m), t)
    PROVE  SelectAt(h, c, s, t) = Probe(Preferred(s), k)
<1> DEFINE p == Preferred(s)
           hits == {j \in Indices : AvailableAt(h, c, Probe(p, j), t)}
           first == CHOOSE j \in hits : \A m \in hits : j <= m
<1>1. k \in hits
    OBVIOUS
<1>2. first \in hits /\ first <= k
    BY <1>1, FirstHit
<1>3. SelectAt(h, c, s, t) = Probe(p, first)
    BY <1>1 DEF SelectAt
<1>4. first \in Indices /\ AvailableAt(h, c, Probe(p, first), t)
    BY <1>2
<1> HIDE DEF first, hits
<1>5. ~ (first < k)
    BY <1>4
<1>6. first = k
    BY <1>2, <1>4, <1>5 DEF Indices
<1>7. QED
    BY <1>3, <1>6

\* In particular it selects the preferred proxy when that is available.
LEMMA SelectAtPreferred ==
    ASSUME NEW h, NEW c, NEW s \in Sessions, NEW t, AvailableAt(h, c, Preferred(s), t)
    PROVE  SelectAt(h, c, s, t) = Preferred(s)
<1>1. 0 \in Indices /\ Probe(Preferred(s), 0) = Preferred(s)
    BY PreferredType, ProbeType, RingPositions
<1>2. \A m \in Indices : ~ (m < 0)
    BY DEF Indices
<1>3. QED
    BY <1>1, <1>2, SelectAtFirst

\* A scan that finds nothing selects the preferred proxy.
LEMMA SelectAtNone ==
    ASSUME NEW h, NEW c, NEW s \in Sessions, NEW t,
           \A m \in Indices : ~AvailableAt(h, c, Probe(Preferred(s), m), t)
    PROVE  SelectAt(h, c, s, t) = Preferred(s)
BY DEF SelectAt

LEMMA SelectAtType ==
    ASSUME NEW h, NEW c, NEW s \in Sessions, NEW t
    PROVE  SelectAt(h, c, s, t) \in Indices
<1> DEFINE p == Preferred(s)
           hits == {j \in Indices : AvailableAt(h, c, Probe(p, j), t)}
           first == CHOOSE j \in hits : \A m \in hits : j <= m
<1>1. p \in Indices
    BY PreferredType
<1>2. SelectAt(h, c, s, t) = IF hits = {} THEN p ELSE Probe(p, first)
    BY DEF SelectAt
<1>3. CASE hits = {}
    BY <1>1, <1>2, <1>3
<1>4. CASE hits # {}
    <2>1. first \in hits
        BY <1>4, FirstHit
    <2>2. first \in Indices
        BY <2>1
    <2> HIDE DEF first, hits
    <2>3. QED
        BY <1>1, <1>2, <1>4, <2>2, ProbeType
<1>5. QED
    BY <1>3, <1>4

-----------------------------------------------------------------------------
(* Steps of the goroutine that holds poolMu                                *)

\* A step of g within its section: the others are idle and stay so.
InSection(g) ==
    /\ pc' = [pc EXCEPT ![g] = pc'[g]]
    /\ local' = [local EXCEPT ![g] = local'[g]]
    /\ pc[g] # "idle" /\ pc'[g] # "idle"
    /\ UNCHANGED poolMu

\* Nothing is said of a goroutine outside its section.
LEMMA IdleCloses ==
    ASSUME NEW q \in Goroutines, pc'[q] = "idle"
    PROVE  SectionInv(q)'
<1>1. (pc[q] \in AtRest => Same)'
    BY DEF AtRest
<1>2. CallInv(q)'
    BY DEF CallInv, Probing, Selected
<1>3. ServeInv(q)'
    BY DEF ServeInv, Probing, Selected
<1>4. ReportInv(q)'
    BY DEF ReportInv, Reporting
<1>5. CreditInv(q)'
    BY DEF CreditInv, Crediting
<1>6. QED
    BY <1>1, <1>2, <1>3, <1>4, <1>5 DEF SectionInv

LEMMA SectionCloses ==
    ASSUME StepsInv, NEW g \in Goroutines, InSection(g), PoolTypeOK',
           pc'[g] \in StepPlaces, local'[g] \in LocalVariables, SectionInv(g)'
    PROVE  StepsInv'
<1>1. poolMu = g /\ g # Nobody
    BY GoroutineAssumption DEF StepsInv, HolderIsInSection, InSection
<1>2. ASSUME NEW q \in Goroutines, q # g
      PROVE  pc[q] = "idle" /\ pc'[q] = "idle"
    BY <1>1, <1>2 DEF StepsInv, HolderIsInSection, InSection, StepsTypeOK
<1>3. StepsTypeOK'
    BY DEF StepsInv, StepsTypeOK, InSection
<1>4. HolderIsInSection'
    BY <1>1, <1>2 DEF StepsInv, HolderIsInSection, InSection
<1>5. SectionsAreAtomic'
    BY <1>1 DEF SectionsAreAtomic, InSection
<1>6. \A q \in Goroutines : SectionInv(q)'
    BY <1>2, IdleCloses
<1>7. QED
    BY <1>3, <1>4, <1>5, <1>6 DEF StepsInv

\* At a place where nothing is half done it is enough that the two copies
\* agree, besides what is known of the arguments.
LEMMA RestCloses ==
    ASSUME NEW g \in Goroutines, pc'[g] \in AtRest, Same', CallInv(g)',
           pc'[g] \in {"report", "add", "credit"} => (local[g].index = IndexOf(URL[current]))',
           pc'[g] = "add" => FailureCounts(g)'
    PROVE  SectionInv(g)'
<1>1. ServeInv(g)'
    BY DEF ServeInv, AtRest, Probing, Selected
<1>2. ReportInv(g)'
    BY DEF ReportInv, AtRest, Reporting
<1>3. CreditInv(g)'
    BY DEF CreditInv, AtRest, Crediting
<1>4. QED
    BY <1>1, <1>2, <1>3 DEF SectionInv

\* The local variables of a goroutine after an assignment to some of them.
WithClock(l, t, i) == [l EXCEPT !.time = t, !.index = i]
WithProbe(l, k, i) == [l EXCEPT !.probe = k, !.index = i]
WithUrl(l, u, i) == [l EXCEPT !.url = u, !.index = i]
WithFailures(l, f) == [l EXCEPT !.failures = f]
WithTime(l, t) == [l EXCEPT !.time = t]

\* The assigned ones have the value given, the others keep theirs.
LEMMA WithClockFields ==
    ASSUME NEW l \in LocalVariables, NEW t \in Int, NEW i \in Indices
    PROVE  LET r == WithClock(l, t, i)
           IN  /\ r \in LocalVariables
               /\ r.session = l.session /\ r.outcome = l.outcome /\ r.status = l.status /\ r.header = l.header
               /\ r.url = l.url /\ r.probe = l.probe /\ r.index = i /\ r.failures = l.failures /\ r.time = t
BY Zenon DEF LocalVariables, WithClock

LEMMA WithProbeFields ==
    ASSUME NEW l \in LocalVariables, NEW k \in Nat, NEW i \in Indices
    PROVE  LET r == WithProbe(l, k, i)
           IN  /\ r \in LocalVariables
               /\ r.session = l.session /\ r.outcome = l.outcome /\ r.status = l.status /\ r.header = l.header
               /\ r.url = l.url /\ r.probe = k /\ r.index = i /\ r.failures = l.failures /\ r.time = l.time
BY Zenon DEF LocalVariables, WithProbe

LEMMA WithUrlFields ==
    ASSUME NEW l \in LocalVariables, NEW u \in URLs, NEW i \in Indices
    PROVE  LET r == WithUrl(l, u, i)
           IN  /\ r \in LocalVariables
               /\ r.session = l.session /\ r.outcome = l.outcome /\ r.status = l.status /\ r.header = l.header
               /\ r.url = u /\ r.probe = l.probe /\ r.index = i /\ r.failures = l.failures /\ r.time = l.time
BY Zenon DEF LocalVariables, WithUrl

LEMMA WithFailuresFields ==
    ASSUME NEW l \in LocalVariables, NEW f \in Nat
    PROVE  LET r == WithFailures(l, f)
           IN  /\ r \in LocalVariables
               /\ r.session = l.session /\ r.outcome = l.outcome /\ r.status = l.status /\ r.header = l.header
               /\ r.url = l.url /\ r.probe = l.probe /\ r.index = l.index /\ r.failures = f /\ r.time = l.time
BY Zenon DEF LocalVariables, WithFailures

LEMMA WithTimeFields ==
    ASSUME NEW l \in LocalVariables, NEW t \in Int
    PROVE  LET r == WithTime(l, t)
           IN  /\ r \in LocalVariables
               /\ r.session = l.session /\ r.outcome = l.outcome /\ r.status = l.status /\ r.header = l.header
               /\ r.url = l.url /\ r.probe = l.probe /\ r.index = l.index /\ r.failures = l.failures /\ r.time = t
BY Zenon DEF LocalVariables, WithTime

\* What the invariant says of a goroutine that takes a step of its section.
LEMMA Holds ==
    ASSUME StepsInv, NEW g \in Goroutines
    PROVE  /\ PoolTypeOK
           /\ pc[g] \in StepPlaces /\ local[g] \in LocalVariables
           /\ pc \in [Goroutines -> StepPlaces] /\ local \in [Goroutines -> LocalVariables]
           /\ pc[g] \in AtRest => Same
           /\ CallInv(g) /\ ServeInv(g) /\ ReportInv(g) /\ CreditInv(g)
BY DEF StepsInv, StepsTypeOK, SectionInv

\* A step that leaves the local variables alone.
LEMMA LocalKept ==
    ASSUME StepsInv, NEW g \in Goroutines, UNCHANGED local
    PROVE  local' = [local EXCEPT ![g] = local'[g]] /\ local'[g] = local[g] /\ local'[g] \in LocalVariables
BY Holds

-----------------------------------------------------------------------------
(* ClientForSession                                                        *)

\* The clock is read: the copy is served, and no probe has failed yet.
LEMMA ReadClockKeepsInv ==
    ASSUME StepsInv, NEW g \in Goroutines, ReadClock(g)
    PROVE  StepsInv'
<1> DEFINE s == local[g].session
           p == Preferred(s)
<1>1. /\ pc[g] = "clock" /\ pc'[g] = "health"
      /\ pc' = [pc EXCEPT ![g] = pc'[g]]
    BY Holds DEF ReadClock, Goto
<1>2. s \in Sessions /\ Same /\ p \in Indices /\ local[g].probe = 0 /\ PoolTypeOK /\ local[g] \in LocalVariables
    BY <1>1, Holds, PreferredType DEF CallInv, AtRest
<1>3. /\ local'[g] = WithClock(local[g], now, p)
      /\ local' = [local EXCEPT ![g] = local'[g]]
    BY Holds DEF ReadClock, WithClock
<1>4. /\ local'[g].time = now /\ local'[g].index = p
      /\ local'[g].session = s /\ local'[g].probe = 0
      /\ local'[g] \in LocalVariables
    BY <1>2, <1>3, WithClockFields DEF PoolTypeOK
<1>5. /\ UNCHANGED <<current, healthy, failureCounts, cooldownUntil, clientCache, now, poolMu, mu>>
      /\ UNCHANGED <<theCurrent, theHealthy, theFailureCounts, theCooldownUntil>>
      /\ theClientCache' = [theClientCache EXCEPT ![Atomic!Select(s)] = @ \/ Atomic!Buildable(Atomic!Select(s))]
    BY DEF ReadClock, fields, healthVars, Atomic!ClientForSession, Atomic!healthVars
<1>6. Atomic!Select(s) = SelectAt(healthy, cooldownUntil, s, now)
    BY <1>2, CopyOperators DEF Same, SameHealth
<1>7. Chosen(g)' = Atomic!Select(s)
    BY <1>4, <1>5, <1>6 DEF Chosen
<1>8. PoolTypeOK'
    BY <1>2, <1>5 DEF PoolTypeOK
<1>9. ServeInv(g)'
    <2>1. (current = theCurrent /\ SameHealth)'
        BY <1>2, <1>5 DEF Same, SameHealth
    <2>2. theClientCache' = [clientCache' EXCEPT ![Chosen(g)'] = @ \/ Buildable(Chosen(g)')]
        BY <1>2, <1>5, <1>7, CopyOperators DEF Same
    <2>3. ScanInv(g)'
        BY <1>4, PoolAssumption DEF ScanInv, Indices
    <2>4. QED
        BY <1>1, <2>1, <2>2, <2>3 DEF ServeInv, Selected
<1>10. CallInv(g)'
    BY <1>1, <1>2, <1>4 DEF CallInv
<1>11. ReportInv(g)' /\ CreditInv(g)' /\ (pc[g] \in AtRest => Same)'
    BY <1>1 DEF ReportInv, CreditInv, Reporting, Crediting, AtRest
<1>12. SectionInv(g)'
    BY <1>9, <1>10, <1>11 DEF SectionInv
<1>13. InSection(g) /\ pc'[g] \in StepPlaces
    BY <1>1, <1>3, <1>5 DEF InSection, StepPlaces, Probing
<1>14. QED
    BY <1>4, <1>8, <1>12, <1>13, SectionCloses

\* A probe has failed: the scan goes on, or returns the preferred proxy.
LEMMA NextProbeKeepsInv ==
    ASSUME StepsInv, NEW g \in Goroutines, pc[g] \in Probing, NextProbe(g),
           ~AvailableAt(healthy, cooldownUntil, local[g].index, local[g].time),
           UNCHANGED <<poolVars, theFields, poolMu, mu>>
    PROVE  StepsInv'
<1> DEFINE s == local[g].session
           p == Preferred(s)
           t == local[g].time
           k == local[g].probe
<1>1. /\ PoolTypeOK /\ local[g] \in LocalVariables /\ k \in Nat
      /\ CallInv(g) /\ ServeInv(g) /\ ScanInv(g) /\ s \in Sessions /\ p \in Indices
    <2>1. PoolTypeOK /\ local[g] \in LocalVariables /\ CallInv(g) /\ ServeInv(g)
        BY Holds
    <2>2. ScanInv(g)
        BY <2>1 DEF ServeInv
    <2>3. s \in Sessions
        BY <2>1 DEF CallInv
    <2>4. k \in Nat
        BY <2>1 DEF LocalVariables
    <2>5. QED
        BY <2>1, <2>2, <2>3, <2>4, PreferredType
<1>2. /\ pc'[g] = IF k + 1 <= N THEN "health" ELSE "cached"
      /\ pc' = [pc EXCEPT ![g] = pc'[g]]
    BY Holds DEF NextProbe
<1>3. /\ local'[g] = WithProbe(local[g], k + 1, IF k + 1 <= N THEN Probe(p, (k + 1) - 1) ELSE p)
      /\ local' = [local EXCEPT ![g] = local'[g]]
    <2>1. local' = [local EXCEPT ![g].probe = k + 1, ![g].index = IF k + 1 <= N THEN Probe(p, (k + 1) - 1) ELSE p]
        BY DEF NextProbe
    <2>2. QED
        BY <2>1, Holds DEF WithProbe
<1>4. /\ k + 1 \in Nat /\ (k + 1) - 1 = k
      /\ k + 1 <= N => Probe(p, k) \in Indices
    <2>1. k \in Nat /\ p \in Indices
        BY <1>1
    <2> HIDE DEF k, p
    <2>2. k + 1 <= N => k \in Indices
        BY <2>1, PoolAssumption DEF Indices
    <2>3. QED
        BY <2>1, <2>2, ProbeType
<1>5. /\ local'[g].time = t /\ local'[g].session = s /\ local'[g].probe = k + 1
      /\ local'[g].index = IF k + 1 <= N THEN Probe(p, k) ELSE p
      /\ local'[g] \in LocalVariables
    <2> DEFINE i == IF k + 1 <= N THEN Probe(p, k) ELSE p
    <2>1. i \in Indices /\ k + 1 \in Nat /\ local[g] \in LocalVariables
        BY <1>1, <1>4
    <2>2. local'[g] = WithProbe(local[g], k + 1, i)
        BY <1>3, <1>4
    <2> HIDE DEF i
    <2>3. QED
        BY <2>1, <2>2, WithProbeFields DEF i
<1>6. /\ UNCHANGED <<current, healthy, failureCounts, cooldownUntil, clientCache, now, poolMu>>
      /\ UNCHANGED <<theCurrent, theHealthy, theFailureCounts, theCooldownUntil, theClientCache>>
    BY DEF poolVars, theFields, healthVars
<1>7. \A m \in Indices : m < k => ~AvailableAt(healthy, cooldownUntil, Probe(p, m), t)
    <2> SUFFICES ASSUME NEW m \in Indices, m < k
                 PROVE  ~AvailableAt(healthy, cooldownUntil, Probe(p, m), t)
        OBVIOUS
    <2>1. k # 0 /\ (m < k - 1 \/ m = k - 1)
        BY <1>1, PoolAssumption DEF Indices
    <2>2. CASE m < k - 1
        BY <1>1, <2>2 DEF ScanInv
    <2>3. CASE m = k - 1
        BY <1>1, <2>1, <2>3 DEF ScanInv
    <2>4. QED
        BY <2>1, <2>2, <2>3
<1>8. Chosen(g)' = Chosen(g)
    BY <1>5, <1>6 DEF Chosen
<1>9. k <= N
    BY <1>1 DEF ScanInv
<1>10. (current = theCurrent /\ SameHealth)' /\ theClientCache' = [clientCache' EXCEPT ![Chosen(g)'] = @ \/ Buildable(Chosen(g)')]
    BY <1>1, <1>6, <1>8 DEF ServeInv, SameHealth
<1>11. ASSUME k + 1 <= N PROVE SectionInv(g)'
    <2>1. ScanInv(g)'
        BY <1>1, <1>3, <1>5, <1>6, <1>7, <1>11 DEF ScanInv
    <2>2. pc'[g] = "health"
        BY <1>2, <1>11
    <2>3. ServeInv(g)'
        BY <1>10, <2>1, <2>2 DEF ServeInv, Selected
    <2>4. CallInv(g)'
        BY <1>1, <1>5, <2>2 DEF CallInv
    <2>5. ReportInv(g)' /\ CreditInv(g)' /\ (pc[g] \in AtRest => Same)'
        BY <2>2 DEF ReportInv, CreditInv, Reporting, Crediting, AtRest
    <2>6. QED
        BY <2>2, <2>3, <2>4, <2>5 DEF SectionInv
<1>12. ASSUME ~ (k + 1 <= N) PROVE SectionInv(g)'
    <2>1. k = N
        BY <1>1, <1>9, <1>12, PoolAssumption
    <2>2. \A m \in Indices : ~AvailableAt(healthy, cooldownUntil, Probe(p, m), t)
        <3>1. \A m \in Indices : m < k
            BY <2>1, PoolAssumption DEF Indices
        <3>2. QED
            BY <1>7, <3>1
    <2>3. SelectAt(healthy, cooldownUntil, s, t) = p
        BY <1>1, <2>2, SelectAtNone
    <2>4. local'[g].index = Chosen(g)' /\ pc'[g] = "cached"
        BY <1>2, <1>5, <1>8, <1>12, <2>3 DEF Chosen
    <2>5. ServeInv(g)'
        BY <1>10, <2>4 DEF ServeInv, Probing
    <2>6. CallInv(g)'
        BY <1>1, <1>5, <2>4 DEF CallInv
    <2>7. ReportInv(g)' /\ CreditInv(g)' /\ (pc[g] \in AtRest => Same)'
        BY <2>4 DEF ReportInv, CreditInv, Reporting, Crediting, AtRest
    <2>8. QED
        BY <2>4, <2>5, <2>6, <2>7 DEF SectionInv
<1>13. SectionInv(g)'
    BY <1>11, <1>12
<1>14. InSection(g) /\ pc'[g] \in StepPlaces
    BY <1>2, <1>3, <1>6 DEF InSection, StepPlaces, Probing, Selected
<1>15. PoolTypeOK'
    BY <1>1, <1>6 DEF PoolTypeOK
<1>16. QED
    BY <1>5, <1>13, <1>14, <1>15, SectionCloses

LEMMA LoadHealthKeepsInv ==
    ASSUME StepsInv, NEW g \in Goroutines, LoadHealth(g)
    PROVE  StepsInv'
<1> DEFINE i == local[g].index
<1>1. pc[g] = "health" /\ UNCHANGED <<poolVars, theFields, poolMu, mu>>
    BY DEF LoadHealth
<1>2. /\ PoolTypeOK /\ CallInv(g) /\ ServeInv(g) /\ pc \in [Goroutines -> StepPlaces]
    BY Holds
<1>3. CASE healthy[i]
    <2>1. pc' = [pc EXCEPT ![g] = "cooldown"] /\ UNCHANGED local
        BY <1>3 DEF LoadHealth
    <2>2. pc'[g] = "cooldown" /\ pc' = [pc EXCEPT ![g] = pc'[g]]
        BY <1>2, <2>1
    <2>3. /\ local' = [local EXCEPT ![g] = local'[g]]
          /\ local'[g] = local[g] /\ local'[g] \in LocalVariables
        BY <2>1, LocalKept
    <2>4. /\ UNCHANGED <<current, healthy, failureCounts, cooldownUntil, clientCache, now, poolMu>>
          /\ UNCHANGED <<theCurrent, theHealthy, theFailureCounts, theCooldownUntil, theClientCache>>
        BY <1>1 DEF poolVars, theFields, healthVars
    <2>5. Chosen(g)' = Chosen(g) /\ (ScanInv(g) => ScanInv(g)')
        BY <2>3, <2>4 DEF Chosen, ScanInv
    <2>6. ServeInv(g)'
        BY <1>1, <1>2, <1>3, <2>2, <2>3, <2>4, <2>5 DEF ServeInv, SameHealth, Probing, Selected
    <2>7. CallInv(g)'
        BY <1>1, <1>2, <2>2, <2>3 DEF CallInv, Probing
    <2>8. ReportInv(g)' /\ CreditInv(g)' /\ (pc[g] \in AtRest => Same)'
        BY <2>2 DEF ReportInv, CreditInv, Reporting, Crediting, AtRest
    <2>9. SectionInv(g)'
        BY <2>6, <2>7, <2>8 DEF SectionInv
    <2>10. InSection(g) /\ pc'[g] \in StepPlaces /\ PoolTypeOK'
        BY <1>1, <1>2, <2>2, <2>3, <2>4 DEF InSection, StepPlaces, Probing, PoolTypeOK
    <2>11. QED
        BY <2>3, <2>9, <2>10, SectionCloses
<1>4. CASE ~healthy[i]
    <2>1. NextProbe(g)
        BY <1>4 DEF LoadHealth
    <2>2. ~AvailableAt(healthy, cooldownUntil, i, local[g].time)
        BY <1>4 DEF AvailableAt
    <2>3. QED
        BY <1>1, <2>1, <2>2, NextProbeKeepsInv DEF Probing
<1>5. QED
    BY <1>3, <1>4

\* The proxy found available is the one the copy was served with.
LEMMA LoadCooldownKeepsInv ==
    ASSUME StepsInv, NEW g \in Goroutines, LoadCooldown(g)
    PROVE  StepsInv'
<1> DEFINE s == local[g].session
           p == Preferred(s)
           t == local[g].time
           i == local[g].index
           k == local[g].probe
<1>1. pc[g] = "cooldown" /\ UNCHANGED <<poolVars, theFields, poolMu, mu>>
    BY DEF LoadCooldown
<1>2. PoolTypeOK /\ CallInv(g) /\ ServeInv(g) /\ local[g] \in LocalVariables /\ pc \in [Goroutines -> StepPlaces]
    BY Holds
<1>3. ScanInv(g) /\ healthy[i] /\ s \in Sessions /\ k \in Nat
    BY <1>1, <1>2 DEF ServeInv, CallInv, Probing, LocalVariables
<1>4. CASE cooldownUntil[i] <= t
    <2>1. AvailableAt(healthy, cooldownUntil, i, t)
        BY <1>3, <1>4 DEF AvailableAt
    <2>2. i = Chosen(g)
        <3>1. CASE k = 0
            <4>1. i = p
                BY <1>3, <3>1 DEF ScanInv
            <4>2. QED
                BY <1>3, <2>1, <4>1, SelectAtPreferred DEF Chosen
        <3>2. CASE k # 0
            <4>1. i = Probe(p, k - 1) /\ k <= N
                  /\ \A m \in Indices : m < k - 1 => ~AvailableAt(healthy, cooldownUntil, Probe(p, m), t)
                BY <1>3, <3>2 DEF ScanInv
            <4>2. k - 1 \in Indices
                BY <1>3, <3>2, <4>1, PoolAssumption DEF Indices
            <4>3. AvailableAt(healthy, cooldownUntil, Probe(p, k - 1), t)
                BY <2>1, <4>1
            <4> DEFINE j == k - 1
            <4> HIDE DEF j
            <4>4. SelectAt(healthy, cooldownUntil, s, t) = Probe(p, j)
                BY <1>3, <4>1, <4>2, <4>3, SelectAtFirst DEF j
            <4>5. QED
                BY <4>1, <4>4 DEF Chosen, j
        <3>3. QED
            BY <3>1, <3>2
    <2>3. pc' = [pc EXCEPT ![g] = "cached"] /\ UNCHANGED local
        BY <1>4 DEF LoadCooldown
    <2>4. pc'[g] = "cached" /\ pc' = [pc EXCEPT ![g] = pc'[g]]
        BY <1>2, <2>3
    <2>5. /\ local' = [local EXCEPT ![g] = local'[g]]
          /\ local'[g] = local[g] /\ local'[g] \in LocalVariables
        BY <2>3, LocalKept
    <2>6. /\ UNCHANGED <<current, healthy, failureCounts, cooldownUntil, clientCache, now, poolMu>>
          /\ UNCHANGED <<theCurrent, theHealthy, theFailureCounts, theCooldownUntil, theClientCache>>
        BY <1>1 DEF poolVars, theFields, healthVars
    <2>7. Chosen(g)' = Chosen(g)
        BY <2>5, <2>6 DEF Chosen
    <2>8. ServeInv(g)'
        BY <1>1, <1>2, <2>2, <2>4, <2>5, <2>6, <2>7 DEF ServeInv, SameHealth, Probing, Selected
    <2>9. CallInv(g)'
        BY <1>1, <1>2, <2>4, <2>5 DEF CallInv, Probing, Selected
    <2>10. ReportInv(g)' /\ CreditInv(g)' /\ (pc[g] \in AtRest => Same)'
        BY <2>4 DEF ReportInv, CreditInv, Reporting, Crediting, AtRest
    <2>11. SectionInv(g)'
        BY <2>8, <2>9, <2>10 DEF SectionInv
    <2>12. InSection(g) /\ pc'[g] \in StepPlaces /\ PoolTypeOK'
        BY <1>1, <1>2, <2>4, <2>5, <2>6 DEF InSection, StepPlaces, Selected, PoolTypeOK
    <2>13. QED
        BY <2>5, <2>11, <2>12, SectionCloses
<1>5. CASE ~ (cooldownUntil[i] <= t)
    <2>1. NextProbe(g)
        BY <1>5 DEF LoadCooldown
    <2>2. ~AvailableAt(healthy, cooldownUntil, i, t)
        BY <1>5 DEF AvailableAt
    <2>3. QED
        BY <1>1, <2>1, <2>2, NextProbeKeepsInv DEF Probing
<1>6. QED
    BY <1>4, <1>5

\* While g builds a client the selection stays what it is.
LEMMA SelectedKeepsInv ==
    ASSUME StepsInv, NEW g \in Goroutines, pc[g] \in Selected, NEW to \in Selected,
           pc' = [pc EXCEPT ![g] = to], to = "build" => Buildable(local[g].index),
           UNCHANGED <<poolVars, theFields, poolMu, local>>
    PROVE  StepsInv'
<1>1. PoolTypeOK /\ CallInv(g) /\ ServeInv(g) /\ pc \in [Goroutines -> StepPlaces]
    BY Holds
<1>2. pc'[g] = to /\ pc' = [pc EXCEPT ![g] = pc'[g]]
    BY <1>1
<1>3. /\ local' = [local EXCEPT ![g] = local'[g]]
      /\ local'[g] = local[g] /\ local'[g] \in LocalVariables
    BY LocalKept
<1>4. /\ UNCHANGED <<current, healthy, failureCounts, cooldownUntil, clientCache, now, poolMu>>
      /\ UNCHANGED <<theCurrent, theHealthy, theFailureCounts, theCooldownUntil, theClientCache>>
    BY DEF poolVars, theFields, healthVars
<1>5. Chosen(g)' = Chosen(g) /\ (Buildable(local[g].index) => Buildable(local[g].index)')
    BY <1>3, <1>4 DEF Chosen, Buildable
<1>6. ServeInv(g)'
    BY <1>1, <1>2, <1>3, <1>4, <1>5 DEF ServeInv, SameHealth, Probing, Selected
<1>7. CallInv(g)'
    BY <1>1, <1>2, <1>3 DEF CallInv, Selected
<1>8. ReportInv(g)' /\ CreditInv(g)' /\ (pc[g] \in AtRest => Same)'
    BY <1>2 DEF ReportInv, CreditInv, Reporting, Crediting, AtRest, Selected
<1>9. SectionInv(g)'
    BY <1>6, <1>7, <1>8 DEF SectionInv
<1>10. InSection(g) /\ pc'[g] \in StepPlaces /\ PoolTypeOK'
    BY <1>1, <1>2, <1>3, <1>4 DEF InSection, StepPlaces, Selected, PoolTypeOK
<1>11. QED
    BY <1>3, <1>9, <1>10, SectionCloses

LEMMA LockToBuildKeepsInv ==
    ASSUME StepsInv, NEW g \in Goroutines, LockToBuild(g) PROVE StepsInv'
<1>1. /\ pc[g] = "cached" /\ pc' = [pc EXCEPT ![g] = "recheck"]
      /\ UNCHANGED <<poolVars, theFields, poolMu, local>>
    BY DEF LockToBuild, Goto
<1>2. pc[g] \in Selected /\ "recheck" \in Selected
    BY <1>1 DEF Selected
<1>3. QED
    BY <1>1, <1>2, SelectedKeepsInv

LEMMA BuildKeepsInv ==
    ASSUME StepsInv, NEW g \in Goroutines, Build(g) PROVE StepsInv'
<1>1. /\ pc[g] = "recheck" /\ pc' = [pc EXCEPT ![g] = "build"] /\ Buildable(local[g].index)
      /\ UNCHANGED <<poolVars, theFields, poolMu, local>>
    BY DEF Build, Goto
<1>2. pc[g] \in Selected /\ "build" \in Selected
    BY <1>1 DEF Selected
<1>3. QED
    BY <1>1, <1>2, SelectedKeepsInv

\* A section reaches its end when the fields agree with those of the copy.
LEMMA EndKeepsInv ==
    ASSUME StepsInv, NEW g \in Goroutines, pc[g] \in StepPlaces \ {"idle"},
           NEW to \in {"add", "credit", "report", "renew", "unlock"},
           pc' = [pc EXCEPT ![g] = to], UNCHANGED <<poolMu, local>>,
           PoolTypeOK', Same', CallInv(g)',
           to \in {"report", "add", "credit"} => (local[g].index = IndexOf(URL[current]))',
           to = "add" => FailureCounts(g)'
    PROVE  StepsInv'
<1>1. pc \in [Goroutines -> StepPlaces]
    BY Holds
<1>2. pc'[g] = to /\ pc' = [pc EXCEPT ![g] = pc'[g]]
    BY <1>1
<1>3. /\ local' = [local EXCEPT ![g] = local'[g]] /\ local'[g] \in LocalVariables
    BY LocalKept
<1>4. SectionInv(g)'
    BY <1>2, RestCloses DEF AtRest
<1>5. InSection(g) /\ pc'[g] \in StepPlaces
    BY <1>2, <1>3 DEF InSection, StepPlaces, AtRest
<1>6. QED
    BY <1>3, <1>4, <1>5, SectionCloses

LEMMA UnlockKeepsInv ==
    ASSUME StepsInv, NEW g \in Goroutines, pc[g] \in StepPlaces \ {"idle"},
           pc' = [pc EXCEPT ![g] = "unlock"], UNCHANGED <<poolMu, local>>, PoolTypeOK', Same'
    PROVE  StepsInv'
<1>1. pc'[g] = "unlock"
    BY Holds
<1>2. CallInv(g)'
    BY <1>1 DEF CallInv, Probing, Selected
<1>3. QED
    BY <1>2, EndKeepsInv

\* The selection is done: either nothing is left to store, or the client is.
LEMMA SelectionEnds ==
    ASSUME StepsInv, NEW g \in Goroutines, pc[g] \in Selected,
           clientCache' = theClientCache, UNCHANGED <<current, healthVars, now, theFields>>
    PROVE  PoolTypeOK' /\ Same'
<1>1. PoolTypeOK /\ CallInv(g) /\ ServeInv(g)
    BY Holds
<1>2. Chosen(g) \in Indices
    BY <1>1, SelectAtType DEF CallInv, Chosen
<1>3. theClientCache = [clientCache EXCEPT ![Chosen(g)] = @ \/ Buildable(Chosen(g))]
      /\ current = theCurrent /\ SameHealth
    BY <1>1 DEF ServeInv
<1>4. clientCache' \in [Indices -> BOOLEAN]
    BY <1>1, <1>3 DEF PoolTypeOK
<1>5. QED
    BY <1>1, <1>3, <1>4 DEF PoolTypeOK, Same, SameHealth, healthVars, theFields

LEMMA NothingIsStored ==
    ASSUME StepsInv, NEW g \in Goroutines, pc[g] \in Selected,
           clientCache[local[g].index] \/ ~Buildable(local[g].index)
    PROVE  clientCache = theClientCache
<1> DEFINE i == local[g].index
<1>1. PoolTypeOK /\ ServeInv(g) /\ local[g] \in LocalVariables
    BY Holds
<1>2. i = Chosen(g) /\ theClientCache = [clientCache EXCEPT ![Chosen(g)] = clientCache[Chosen(g)] \/ Buildable(Chosen(g))]
    BY <1>1 DEF ServeInv
<1>3. i \in Indices /\ clientCache \in [Indices -> BOOLEAN]
    BY <1>1 DEF LocalVariables, PoolTypeOK
<1>4. (clientCache[i] \/ Buildable(i)) = clientCache[i]
    <2>1. clientCache[i] \in BOOLEAN
        BY <1>3
    <2>2. QED
        BY <2>1
<1>5. theClientCache = [clientCache EXCEPT ![i] = clientCache[i]]
    BY <1>2, <1>4
<1>6. QED
    BY <1>3, <1>5

LEMMA LoadClientKeepsInv ==
    ASSUME StepsInv, NEW g \in Goroutines, LoadClient(g) PROVE StepsInv'
<1>1. /\ pc[g] = "cached" /\ pc' = [pc EXCEPT ![g] = "unlock"] /\ clientCache[local[g].index]
      /\ UNCHANGED <<poolVars, theFields, poolMu, local>>
    BY DEF LoadClient, Goto
<1>2. pc[g] \in Selected /\ pc[g] \in StepPlaces \ {"idle"}
    BY <1>1 DEF Selected, StepPlaces
<1>3. clientCache' = theClientCache
    BY <1>1, <1>2, NothingIsStored DEF poolVars
<1>4. PoolTypeOK' /\ Same'
    BY <1>1, <1>2, <1>3, SelectionEnds DEF poolVars
<1>5. QED
    BY <1>1, <1>2, <1>4, UnlockKeepsInv

LEMMA NothingToStoreKeepsInv ==
    ASSUME StepsInv, NEW g \in Goroutines, NothingToStore(g) PROVE StepsInv'
<1>1. /\ pc[g] = "recheck" /\ pc' = [pc EXCEPT ![g] = "unlock"]
      /\ clientCache[local[g].index] \/ ~Buildable(local[g].index)
      /\ UNCHANGED <<poolVars, theFields, poolMu, local>>
    BY DEF NothingToStore, Goto
<1>2. pc[g] \in Selected /\ pc[g] \in StepPlaces \ {"idle"}
    BY <1>1 DEF Selected, StepPlaces
<1>3. clientCache' = theClientCache
    BY <1>1, <1>2, NothingIsStored DEF poolVars
<1>4. PoolTypeOK' /\ Same'
    BY <1>1, <1>2, <1>3, SelectionEnds DEF poolVars
<1>5. QED
    BY <1>1, <1>2, <1>4, UnlockKeepsInv

LEMMA StoreClientKeepsInv ==
    ASSUME StepsInv, NEW g \in Goroutines, StoreClient(g) PROVE StepsInv'
<1> DEFINE i == local[g].index
<1>1. /\ pc[g] = "build" /\ pc' = [pc EXCEPT ![g] = "unlock"]
      /\ clientCache' = [clientCache EXCEPT ![i] = TRUE]
      /\ UNCHANGED <<current, healthVars, now, theFields, poolMu, local>>
    BY DEF StoreClient, Goto
<1>2. pc[g] \in Selected /\ pc[g] \in StepPlaces \ {"idle"}
    BY <1>1 DEF Selected, StepPlaces
<1>3. clientCache' = theClientCache
    <2>1. ServeInv(g)
        BY Holds
    <2>2. i = Chosen(g) /\ Buildable(i) /\ theClientCache = [clientCache EXCEPT ![Chosen(g)] = clientCache[Chosen(g)] \/ Buildable(Chosen(g))]
        BY <1>1, <1>2, <2>1 DEF ServeInv
    <2>3. (clientCache[i] \/ Buildable(i)) = TRUE
        BY <2>2
    <2>4. QED
        BY <1>1, <2>2, <2>3
<1>4. PoolTypeOK' /\ Same'
    BY <1>1, <1>2, <1>3, SelectionEnds
<1>5. QED
    BY <1>1, <1>2, <1>4, UnlockKeepsInv

-----------------------------------------------------------------------------
(* Current, then MarkFailure                                               *)

\* The URL that Current returns is one of the list's.
LEMMA CurrentURL ==
    ASSUME PoolTypeOK
    PROVE  URL[current] \in URLs /\ IndexOf(URL[current]) \in Indices
<1>1. URL[current] \in URLs
    BY DEF PoolTypeOK, URLs
<1>2. QED
    BY <1>1, IndexOfType

LEMMA ReadCurrentKeepsInv ==
    ASSUME StepsInv, NEW g \in Goroutines, ReadCurrent(g) PROVE StepsInv'
<1> DEFINE u == URL[current]
           to == IF local[g].outcome = "success" THEN "credit" ELSE "report"
<1>1. /\ pc[g] = "current" /\ pc' = [pc EXCEPT ![g] = to]
      /\ local' = [local EXCEPT ![g].url = u, ![g].index = IndexOf(u)]
      /\ UNCHANGED <<poolVars, theFields, poolMu>>
    BY DEF ReadCurrent, Goto
<1>2. PoolTypeOK /\ CallInv(g) /\ Same /\ local[g] \in LocalVariables
    BY <1>1, Holds DEF AtRest
<1>3. pc'[g] = to /\ pc' = [pc EXCEPT ![g] = pc'[g]] /\ to \in {"report", "credit"}
    BY <1>1, Holds
<1>4. local'[g] = WithUrl(local[g], u, IndexOf(u)) /\ local' = [local EXCEPT ![g] = local'[g]]
    BY <1>1, Holds DEF WithUrl
<1>5. u \in URLs /\ IndexOf(u) \in Indices
    BY <1>2, CurrentURL
<1>6. /\ local'[g] \in LocalVariables /\ local'[g].index = IndexOf(u)
      /\ local'[g].outcome = local[g].outcome /\ local'[g].status = local[g].status
      /\ local'[g].header = local[g].header
    <2> HIDE DEF u
    <2>1. QED
        BY <1>2, <1>4, <1>5, WithUrlFields
<1>7. /\ UNCHANGED <<current, healthy, failureCounts, cooldownUntil, clientCache, now, poolMu>>
      /\ UNCHANGED <<theCurrent, theHealthy, theFailureCounts, theCooldownUntil, theClientCache>>
    BY <1>1 DEF poolVars, theFields, healthVars
<1>8. CallInv(g)'
    <2>1. local[g].outcome \in {"none", "network error", "error status", "success"}
        BY <1>2 DEF LocalVariables
    <2>2. QED
        BY <1>1, <1>2, <1>3, <1>6, <2>1 DEF CallInv, Probing, Selected
<1>9. SectionInv(g)'
    <2>1. Same' /\ PoolTypeOK'
        BY <1>2, <1>7 DEF Same, SameHealth, PoolTypeOK
    <2>2. (local[g].index = IndexOf(URL[current]))'
        BY <1>6, <1>7 DEF IndexOf
    <2>3. pc'[g] \in AtRest /\ pc'[g] # "add"
        BY <1>3 DEF AtRest
    <2>4. QED
        BY <1>8, <2>1, <2>2, <2>3, RestCloses
<1>10. InSection(g) /\ pc'[g] \in StepPlaces /\ PoolTypeOK'
    BY <1>1, <1>2, <1>3, <1>4, <1>7 DEF InSection, StepPlaces, AtRest, PoolTypeOK
<1>11. QED
    BY <1>6, <1>9, <1>10, SectionCloses

\* An error status below 500 records nothing, in the copy either.
LEMMA ReturnEarlyKeepsInv ==
    ASSUME StepsInv, NEW g \in Goroutines, ReturnEarly(g) PROVE StepsInv'
<1>1. /\ pc[g] = "report" /\ pc' = [pc EXCEPT ![g] = "unlock"]
      /\ ~FailureCounts(g) /\ Atomic!MarkFailure(URL[theCurrent], local[g].status, FALSE, local[g].header, now)
      /\ UNCHANGED <<fields, poolMu, local>>
    BY DEF ReturnEarly, Goto
<1>2. PoolTypeOK /\ Same
    BY <1>1, Holds DEF AtRest
<1>3. ~Atomic!CountsAsFailure(local[g].status, FALSE)
    BY <1>1 DEF FailureCounts, IsNetworkError, CountsAsFailure, Atomic!CountsAsFailure
<1>4. UNCHANGED <<theCurrent, theHealthy, theFailureCounts, theCooldownUntil, theClientCache, now>>
    BY <1>1, <1>3 DEF Atomic!MarkFailure, Atomic!healthVars
<1>5. PoolTypeOK' /\ Same'
    BY <1>1, <1>2, <1>4 DEF PoolTypeOK, Same, SameHealth, fields, healthVars
<1>6. pc[g] \in StepPlaces \ {"idle"}
    BY <1>1 DEF StepPlaces, AtRest
<1>7. QED
    BY <1>1, <1>5, <1>6, UnlockKeepsInv

LEMMA LockToReportKeepsInv ==
    ASSUME StepsInv, NEW g \in Goroutines, LockToReport(g) PROVE StepsInv'
<1>1. /\ pc[g] = "report" /\ pc' = [pc EXCEPT ![g] = "add"] /\ FailureCounts(g)
      /\ UNCHANGED <<poolVars, theFields, poolMu, local>>
    BY DEF LockToReport, Goto
<1>2. PoolTypeOK /\ Same /\ CallInv(g) /\ ReportInv(g)
    BY <1>1, Holds DEF AtRest
<1>3. /\ UNCHANGED <<current, healthy, failureCounts, cooldownUntil, clientCache, now>>
      /\ UNCHANGED <<theCurrent, theHealthy, theFailureCounts, theCooldownUntil, theClientCache>>
    BY <1>1 DEF poolVars, theFields, healthVars
<1>4. PoolTypeOK' /\ Same'
    BY <1>2, <1>3 DEF PoolTypeOK, Same, SameHealth
<1>5. pc'[g] = "add"
    BY <1>1, Holds
<1>6. CallInv(g)'
    BY <1>1, <1>2, <1>5 DEF CallInv, Probing, Selected
<1>7. local[g].index = IndexOf(URL[current])
    BY <1>1, <1>2 DEF ReportInv
<1>8. (local[g].index = IndexOf(URL[current]))'
    BY <1>1, <1>3, <1>7 DEF IndexOf
<1>9. FailureCounts(g)'
    BY <1>1 DEF FailureCounts, IsNetworkError, CountsAsFailure
<1>10. pc[g] \in StepPlaces \ {"idle"}
    BY <1>1 DEF StepPlaces, AtRest
<1>11. QED
    BY <1>1, <1>4, <1>6, <1>8, <1>9, <1>10, EndKeepsInv

\* The count is stored, in the copy not yet.
LEMMA AddFailureKeepsInv ==
    ASSUME StepsInv, NEW g \in Goroutines, AddFailure(g) PROVE StepsInv'
<1> DEFINE i == local[g].index
           f == failureCounts[i] + 1
<1>1. /\ pc[g] = "add" /\ pc' = [pc EXCEPT ![g] = "parse"]
      /\ failureCounts' = [failureCounts EXCEPT ![i] = f]
      /\ local' = [local EXCEPT ![g].failures = f]
      /\ UNCHANGED <<current, healthy, cooldownUntil, clientCache, now, theFields, poolMu>>
    BY DEF AddFailure, Goto
<1>2. PoolTypeOK /\ Same /\ CallInv(g) /\ ReportInv(g) /\ local[g] \in LocalVariables
    BY <1>1, Holds DEF AtRest
<1>3. i \in Indices /\ f \in Nat
    <2>1. i \in Indices
        BY <1>2 DEF LocalVariables
    <2>2. failureCounts[i] \in Nat
        BY <1>2, <2>1 DEF PoolTypeOK
    <2>3. QED
        BY <2>1, <2>2
<1>4. pc'[g] = "parse" /\ pc' = [pc EXCEPT ![g] = pc'[g]]
    BY <1>1, Holds
<1>5. local'[g] = WithFailures(local[g], f) /\ local' = [local EXCEPT ![g] = local'[g]]
    BY <1>1, Holds DEF WithFailures
<1>6. /\ local'[g] \in LocalVariables /\ local'[g].index = i /\ local'[g].failures = f
      /\ local'[g].outcome = local[g].outcome /\ local'[g].status = local[g].status
      /\ local'[g].header = local[g].header
    <2> HIDE DEF f
    <2>1. QED
        BY <1>2, <1>3, <1>5, WithFailuresFields
<1>7. UNCHANGED <<theCurrent, theHealthy, theFailureCounts, theCooldownUntil, theClientCache>>
    BY <1>1 DEF theFields
<1>8. PoolTypeOK'
    BY <1>1, <1>2, <1>3 DEF PoolTypeOK
<1>9. ReportInv(g)'
    <2>1. i = IndexOf(URL[current]) /\ FailureCounts(g)
        BY <1>1, <1>2 DEF ReportInv
    <2>2. (local[g].index = IndexOf(URL[current]))'
        BY <1>1, <1>6, <2>1 DEF IndexOf
    <2>3. FailureCounts(g)'
        BY <1>6, <2>1 DEF FailureCounts, IsNetworkError, CountsAsFailure
    <2>4. /\ failureCounts' = [theFailureCounts' EXCEPT ![local'[g].index] = local'[g].failures]
          /\ local'[g].failures = theFailureCounts'[local'[g].index] + 1
          /\ local'[g].failures # 0
        <3>1. failureCounts[i] \in Nat
            BY <1>2, <1>3 DEF PoolTypeOK
        <3>2. f # 0
            BY <3>1
        <3>3. /\ failureCounts' = [theFailureCounts' EXCEPT ![local'[g].index] = local'[g].failures]
              /\ local'[g].failures = theFailureCounts'[local'[g].index] + 1
            BY <1>1, <1>2, <1>6, <1>7 DEF Same, SameHealth
        <3>4. QED
            BY <1>6, <3>2, <3>3
    <2>5. /\ healthy' = theHealthy' /\ cooldownUntil' = theCooldownUntil' /\ clientCache' = theClientCache'
          /\ current' = theCurrent'
        BY <1>1, <1>2, <1>7 DEF Same, SameHealth
    <2>6. QED
        BY <1>4, <2>2, <2>3, <2>4, <2>5 DEF ReportInv
<1>10. CallInv(g)'
    BY <1>1, <1>2, <1>4, <1>6 DEF CallInv, Probing, Selected
<1>11. ServeInv(g)' /\ CreditInv(g)' /\ (pc[g] \in AtRest => Same)'
    BY <1>4 DEF ServeInv, CreditInv, Probing, Selected, Crediting, AtRest
<1>12. SectionInv(g)'
    BY <1>9, <1>10, <1>11 DEF SectionInv
<1>13. InSection(g) /\ pc'[g] \in StepPlaces
    BY <1>1, <1>4, <1>5 DEF InSection, StepPlaces, Reporting
<1>14. QED
    BY <1>6, <1>8, <1>12, <1>13, SectionCloses

\* A step that leaves the local variables alone, within the body of a report or
\* of a success.
LEMMA StoringCloses ==
    ASSUME StepsInv, NEW g \in Goroutines, pc[g] \in StepPlaces \ {"idle"},
           NEW to \in {"demote", "drop", "clear", "forgive", "promote"}, pc' = [pc EXCEPT ![g] = to],
           UNCHANGED <<poolMu, local>>, PoolTypeOK', ReportInv(g)', CreditInv(g)'
    PROVE  StepsInv'
<1>1. pc'[g] = to /\ pc' = [pc EXCEPT ![g] = pc'[g]]
    BY Holds
<1>2. /\ local' = [local EXCEPT ![g] = local'[g]] /\ local'[g] \in LocalVariables
    BY LocalKept
<1>3. CallInv(g)' /\ ServeInv(g)' /\ (pc[g] \in AtRest => Same)'
    BY <1>1 DEF CallInv, ServeInv, Probing, Selected, AtRest
<1>4. SectionInv(g)'
    BY <1>3 DEF SectionInv
<1>5. InSection(g) /\ pc'[g] \in StepPlaces
    BY <1>1, <1>2 DEF InSection, StepPlaces, Reporting, Crediting
<1>6. QED
    BY <1>2, <1>4, <1>5, SectionCloses

\* The first clock of a report: the one the header is compared with.
LEMMA ReadHeaderKeepsInv ==
    ASSUME StepsInv, NEW g \in Goroutines, ReadHeader(g) PROVE StepsInv'
<1>1. /\ pc[g] = "parse" /\ pc' = [pc EXCEPT ![g] = "deadline"]
      /\ local' = [local EXCEPT ![g].time = now]
      /\ UNCHANGED <<poolVars, theFields, poolMu>>
    BY DEF ReadHeader, Goto
<1>2. PoolTypeOK /\ CallInv(g) /\ ReportInv(g) /\ local[g] \in LocalVariables
    BY Holds
<1>3. pc'[g] = "deadline" /\ pc' = [pc EXCEPT ![g] = pc'[g]]
    BY <1>1, Holds
<1>4. local'[g] = WithTime(local[g], now) /\ local' = [local EXCEPT ![g] = local'[g]]
    BY <1>1, Holds DEF WithTime
<1>5. /\ local'[g] \in LocalVariables /\ local'[g].index = local[g].index /\ local'[g].time = now
      /\ local'[g].failures = local[g].failures /\ local'[g].outcome = local[g].outcome
      /\ local'[g].status = local[g].status /\ local'[g].header = local[g].header
    <2>1. now \in Int
        BY <1>2 DEF PoolTypeOK
    <2>2. QED
        BY <1>2, <1>4, <2>1, WithTimeFields
<1>6. /\ UNCHANGED <<current, healthy, failureCounts, cooldownUntil, clientCache, now>>
      /\ UNCHANGED <<theCurrent, theHealthy, theFailureCounts, theCooldownUntil, theClientCache>>
    BY <1>1 DEF poolVars, theFields, healthVars
<1>7. PoolTypeOK'
    BY <1>2, <1>6 DEF PoolTypeOK
<1>8. ReportInv(g)'
    <2>1. /\ IndexOf(URL[current])' = IndexOf(URL[current])
          /\ FailureCounts(g)' = FailureCounts(g)
        BY <1>5, <1>6 DEF IndexOf, FailureCounts, IsNetworkError, CountsAsFailure
    <2>2. now' \in 0 .. now'
        BY <1>2, <1>6 DEF PoolTypeOK
    <2>3. QED
        BY <1>1, <1>2, <1>3, <1>5, <1>6, <2>1, <2>2 DEF ReportInv, Reporting
<1>9. CallInv(g)'
    BY <1>1, <1>2, <1>3, <1>5 DEF CallInv, Probing, Selected
<1>10. ServeInv(g)' /\ CreditInv(g)' /\ (pc[g] \in AtRest => Same)'
    BY <1>3 DEF ServeInv, CreditInv, Probing, Selected, Crediting, AtRest
<1>11. SectionInv(g)'
    BY <1>8, <1>9, <1>10 DEF SectionInv
<1>12. InSection(g) /\ pc'[g] \in StepPlaces
    BY <1>1, <1>3, <1>4 DEF InSection, StepPlaces, Reporting
<1>13. QED
    BY <1>5, <1>7, <1>11, <1>12, SectionCloses

\* The second clock of a report fixes the deadline: the copy records the failure.
LEMMA ReadDeadlineKeepsInv ==
    ASSUME StepsInv, NEW g \in Goroutines, ReadDeadline(g) PROVE StepsInv'
<1> DEFINE i == local[g].index
           f == local[g].failures
           header == local[g].header
           seen == local[g].time
           t == WrapInt64(now + Backoff(f, header, seen))
<1>1. /\ pc[g] = "deadline" /\ pc' = [pc EXCEPT ![g] = "cool"]
      /\ local' = [local EXCEPT ![g].time = t]
      /\ Atomic!MarkFailure(URL[theCurrent], local[g].status, IsNetworkError(g), header, seen)
      /\ UNCHANGED <<fields, poolMu>>
    BY DEF ReadDeadline, Goto
<1>2. PoolTypeOK /\ CallInv(g) /\ ReportInv(g) /\ local[g] \in LocalVariables
    BY Holds
<1>3. i \in Indices /\ f \in Nat
    BY <1>2 DEF LocalVariables
<1>4. /\ i = IndexOf(URL[current]) /\ FailureCounts(g) /\ current = theCurrent
      /\ failureCounts = [theFailureCounts EXCEPT ![i] = f] /\ f = theFailureCounts[i] + 1 /\ f # 0
      /\ healthy = theHealthy /\ cooldownUntil = theCooldownUntil /\ clientCache = theClientCache
    BY <1>1, <1>2 DEF ReportInv, Reporting
<1>5. t \in Int64
    <2>1. header.value \in Int
        <3>1. local[g].outcome \in {"error status", "network error"}
            BY <1>1, <1>2 DEF CallInv
        <3>2. header \in Headers \/ header = AbsentHeader
            BY <1>1, <1>2, <3>1 DEF CallInv
        <3>3. AbsentHeader.value \in Int
            BY DEF AbsentHeader
        <3>4. QED
            BY <3>2, <3>3, ResponseAssumption
    <2>2. f \in Nat \ {0}
        BY <1>3, <1>4
    <2>3. now \in Nat
        BY <1>2 DEF PoolTypeOK
    <2>4. Backoff(f, header, seen) \in Int
        <3>1. seen \in Nat
            BY <1>1, <1>2 DEF ReportInv
        <3>2. QED
            BY <2>1, <2>2, <3>1, BackoffType
    <2>5. QED
        BY <2>3, <2>4, WrapInt64Type
<1>6. pc'[g] = "cool" /\ pc' = [pc EXCEPT ![g] = pc'[g]]
    BY <1>1, Holds
<1>7. local'[g] = WithTime(local[g], t) /\ local' = [local EXCEPT ![g] = local'[g]]
    BY <1>1, Holds DEF WithTime
<1>8. /\ local'[g] \in LocalVariables /\ local'[g].index = i /\ local'[g].failures = f /\ local'[g].time = t
    <2>1. t \in Int
        BY <1>5, WidthAssumption DEF Int64
    <2> HIDE DEF t
    <2>2. QED
        BY <1>2, <1>7, <2>1, WithTimeFields
<1>9. /\ UNCHANGED <<current, healthy, failureCounts, cooldownUntil, clientCache>>
    BY <1>1 DEF fields, healthVars
<1>10. /\ theFailureCounts' = failureCounts
       /\ theCooldownUntil' = [cooldownUntil EXCEPT ![i] = t]
       /\ theHealthy' = [healthy EXCEPT ![i] = healthy[i] /\ f < UnhealthyAfter]
       /\ theClientCache' = [clientCache EXCEPT ![i] = FALSE]
       /\ UNCHANGED <<theCurrent, now>>
    <2>1. Atomic!CountsAsFailure(local[g].status, IsNetworkError(g))
        BY <1>4, CopyOperators DEF FailureCounts
    <2>2. Atomic!RecordFailure(i, header, seen) /\ UNCHANGED <<theCurrent, now>>
        <3>1. Atomic!IndexOf(URL[theCurrent]) = i
            BY <1>4, CopyOperators
        <3>2. QED
            BY <1>1, <2>1, <3>1 DEF Atomic!MarkFailure
    <2>3. /\ theFailureCounts' = [theFailureCounts EXCEPT ![i] = f]
          /\ theCooldownUntil' = [theCooldownUntil EXCEPT ![i] = Atomic!WrapInt64(now + Atomic!Backoff(f, header, seen))]
          /\ theHealthy' = [theHealthy EXCEPT ![i] = theHealthy[i] /\ f < Atomic!UnhealthyAfter]
          /\ theClientCache' = [theClientCache EXCEPT ![i] = FALSE]
        BY <1>4, <2>2 DEF Atomic!RecordFailure
    <2>4. QED
        BY <1>4, <2>2, <2>3, CopyOperators
<1>11. PoolTypeOK'
    BY <1>2, <1>9, <1>10 DEF PoolTypeOK
<1>12. ReportInv(g)'
    <2>1. UnhealthyAfter' = UnhealthyAfter /\ Int64' = Int64
        BY DEF UnhealthyAfter, Int64
    <2>2. /\ current' = theCurrent' /\ failureCounts' = theFailureCounts'
          /\ theClientCache' = [clientCache' EXCEPT ![local'[g].index] = FALSE]
          /\ theCooldownUntil' = [cooldownUntil' EXCEPT ![local'[g].index] = local'[g].time]
          /\ theHealthy' = [healthy' EXCEPT ![local'[g].index] = healthy'[local'[g].index] /\ local'[g].failures < UnhealthyAfter]
        BY <1>4, <1>8, <1>9, <1>10
    <2>3. local'[g].time \in Int64
        BY <1>5, <1>8
    <2>4. QED
        BY <1>6, <2>2, <2>3 DEF ReportInv, Reporting
<1>13. CallInv(g)' /\ ServeInv(g)' /\ CreditInv(g)' /\ (pc[g] \in AtRest => Same)'
    BY <1>6 DEF CallInv, ServeInv, CreditInv, Probing, Selected, Crediting, AtRest
<1>14. SectionInv(g)'
    BY <1>12, <1>13 DEF SectionInv
<1>15. InSection(g) /\ pc'[g] \in StepPlaces
    BY <1>1, <1>6, <1>7 DEF InSection, StepPlaces, Reporting
<1>16. QED
    BY <1>8, <1>11, <1>14, <1>15, SectionCloses

LEMMA StoreCooldownKeepsInv ==
    ASSUME StepsInv, NEW g \in Goroutines, StoreCooldown(g) PROVE StepsInv'
<1> DEFINE i == local[g].index
           f == local[g].failures
           t == local[g].time
           to == IF f >= UnhealthyAfter THEN "demote" ELSE "drop"
<1>1. /\ pc[g] = "cool" /\ pc' = [pc EXCEPT ![g] = to]
      /\ cooldownUntil' = [cooldownUntil EXCEPT ![i] = t]
      /\ UNCHANGED <<current, healthy, failureCounts, clientCache, now, theFields, poolMu, local>>
    BY DEF StoreCooldown, Goto
<1>2. PoolTypeOK /\ ReportInv(g) /\ local[g] \in LocalVariables
    BY Holds
<1>3. i \in Indices /\ f \in Nat
    BY <1>2 DEF LocalVariables
<1>4. /\ t \in Int64 /\ current = theCurrent /\ failureCounts = theFailureCounts
      /\ theClientCache = [clientCache EXCEPT ![i] = FALSE]
      /\ theCooldownUntil = [cooldownUntil EXCEPT ![i] = t]
      /\ theHealthy = [healthy EXCEPT ![i] = healthy[i] /\ f < UnhealthyAfter]
    BY <1>1, <1>2 DEF ReportInv, Reporting
<1>5. pc'[g] = to /\ to \in {"demote", "drop"}
    BY <1>1, Holds
<1>6. UNCHANGED <<theCurrent, theHealthy, theFailureCounts, theCooldownUntil, theClientCache>>
    BY <1>1 DEF theFields
<1>7. PoolTypeOK'
    BY <1>1, <1>2, <1>3, <1>4 DEF PoolTypeOK
<1>8. theHealthy = IF f >= UnhealthyAfter THEN [healthy EXCEPT ![i] = FALSE] ELSE healthy
    <2>1. healthy \in [Indices -> BOOLEAN] /\ healthy[i] \in BOOLEAN
        BY <1>2, <1>3 DEF PoolTypeOK
    <2>2. CASE f >= UnhealthyAfter
        <3>1. (healthy[i] /\ f < UnhealthyAfter) = FALSE
            BY <1>3, <2>2 DEF UnhealthyAfter
        <3>2. QED
            BY <1>4, <2>2, <3>1
    <2>3. CASE ~ (f >= UnhealthyAfter)
        <3>1. (healthy[i] /\ f < UnhealthyAfter) = healthy[i]
            BY <1>3, <2>1, <2>3 DEF UnhealthyAfter
        <3>2. [healthy EXCEPT ![i] = healthy[i]] = healthy
            BY <2>1, <1>3
        <3>3. QED
            BY <1>4, <2>3, <3>1, <3>2
    <2>4. QED
        BY <2>2, <2>3
<1>9. ReportInv(g)'
    <2>1. pc'[g] = "demote" => f >= UnhealthyAfter
        BY <1>5
    <2>2. pc'[g] = "drop" => ~ (f >= UnhealthyAfter)
        BY <1>5
    <2>3. /\ current' = theCurrent' /\ failureCounts' = theFailureCounts'
          /\ theClientCache' = [clientCache' EXCEPT ![local'[g].index] = FALSE]
          /\ cooldownUntil' = theCooldownUntil'
          /\ pc'[g] = "demote" => theHealthy' = [healthy' EXCEPT ![local'[g].index] = FALSE]
          /\ pc'[g] = "drop" => healthy' = theHealthy'
        BY <1>1, <1>4, <1>6, <1>8, <2>1, <2>2
    <2>4. QED
        BY <1>5, <2>3 DEF ReportInv, Reporting
<1>10. CreditInv(g)'
    BY <1>5 DEF CreditInv, Crediting
<1>11. pc[g] \in StepPlaces \ {"idle"}
    BY <1>1 DEF StepPlaces, Reporting
<1>12. to \in {"demote", "drop", "clear", "forgive", "promote"}
    BY <1>5
<1> HIDE DEF to
<1>13. QED
    BY <1>1, <1>7, <1>9, <1>10, <1>11, <1>12, StoringCloses

LEMMA SwapUnhealthyKeepsInv ==
    ASSUME StepsInv, NEW g \in Goroutines, SwapUnhealthy(g) PROVE StepsInv'
<1> DEFINE i == local[g].index
<1>1. /\ pc[g] = "demote" /\ pc' = [pc EXCEPT ![g] = "drop"]
      /\ healthy' = [healthy EXCEPT ![i] = FALSE]
      /\ UNCHANGED <<current, failureCounts, cooldownUntil, clientCache, now, theFields, poolMu, local>>
    BY DEF SwapUnhealthy, Goto
<1>2. PoolTypeOK /\ ReportInv(g)
    BY Holds
<1>3. /\ current = theCurrent /\ failureCounts = theFailureCounts /\ cooldownUntil = theCooldownUntil
      /\ theClientCache = [clientCache EXCEPT ![i] = FALSE]
      /\ theHealthy = [healthy EXCEPT ![i] = FALSE]
    BY <1>1, <1>2 DEF ReportInv, Reporting
<1>4. pc'[g] = "drop"
    BY <1>1, Holds
<1>5. UNCHANGED <<theCurrent, theHealthy, theFailureCounts, theCooldownUntil, theClientCache>>
    BY <1>1 DEF theFields
<1>6. PoolTypeOK'
    BY <1>1, <1>2 DEF PoolTypeOK
<1>7. ReportInv(g)'
    <2>1. /\ current' = theCurrent' /\ failureCounts' = theFailureCounts'
          /\ theClientCache' = [clientCache' EXCEPT ![local'[g].index] = FALSE]
          /\ cooldownUntil' = theCooldownUntil' /\ healthy' = theHealthy'
        BY <1>1, <1>3, <1>5
    <2>2. QED
        BY <1>4, <2>1 DEF ReportInv, Reporting
<1>8. CreditInv(g)'
    BY <1>4 DEF CreditInv, Crediting
<1>9. pc[g] \in StepPlaces \ {"idle"}
    BY <1>1 DEF StepPlaces, Reporting
<1>10. QED
    BY <1>1, <1>6, <1>7, <1>8, <1>9, StoringCloses

\* The last store of a report.
LEMMA DropClientKeepsInv ==
    ASSUME StepsInv, NEW g \in Goroutines, DropClient(g) PROVE StepsInv'
<1> DEFINE i == local[g].index
<1>1. /\ pc[g] = "drop" /\ pc' = [pc EXCEPT ![g] = "unlock"]
      /\ clientCache' = [clientCache EXCEPT ![i] = FALSE]
      /\ UNCHANGED <<current, healthVars, now, theFields, poolMu, local>>
    BY DEF DropClient, Goto
<1>2. PoolTypeOK /\ ReportInv(g)
    BY Holds
<1>3. /\ current = theCurrent /\ healthy = theHealthy /\ failureCounts = theFailureCounts
      /\ cooldownUntil = theCooldownUntil /\ theClientCache = [clientCache EXCEPT ![i] = FALSE]
    BY <1>1, <1>2 DEF ReportInv, Reporting
<1>4. PoolTypeOK' /\ Same'
    BY <1>1, <1>2, <1>3 DEF PoolTypeOK, Same, SameHealth, healthVars, theFields
<1>5. pc[g] \in StepPlaces \ {"idle"}
    BY <1>1 DEF StepPlaces, Reporting
<1>6. QED
    BY <1>1, <1>4, <1>5, UnlockKeepsInv

-----------------------------------------------------------------------------
(* Current, then MarkSuccess                                               *)

\* The copy is credited where ProxyPool.mu is taken.
LEMMA LockToCreditKeepsInv ==
    ASSUME StepsInv, NEW g \in Goroutines, LockToCredit(g) PROVE StepsInv'
<1> DEFINE i == local[g].index
<1>1. /\ pc[g] = "credit" /\ pc' = [pc EXCEPT ![g] = "clear"]
      /\ Atomic!MarkSuccess(URL[theCurrent])
      /\ UNCHANGED <<fields, poolMu, local>>
    BY DEF LockToCredit, Goto
<1>2. PoolTypeOK /\ Same /\ ReportInv(g)
    BY <1>1, Holds DEF AtRest
<1>3. i = IndexOf(URL[current]) /\ current = theCurrent
    BY <1>1, <1>2 DEF ReportInv, Same
<1>4. pc'[g] = "clear"
    BY <1>1, Holds
<1>5. UNCHANGED <<current, healthy, failureCounts, cooldownUntil, clientCache>>
    BY <1>1 DEF fields, healthVars
<1>6. /\ theFailureCounts' = [failureCounts EXCEPT ![i] = 0]
      /\ theCooldownUntil' = [cooldownUntil EXCEPT ![i] = 0]
      /\ theHealthy' = [healthy EXCEPT ![i] = TRUE]
      /\ theClientCache' = [clientCache EXCEPT ![i] = FALSE]
      /\ UNCHANGED <<theCurrent, now>>
    <2>1. Atomic!IndexOf(URL[theCurrent]) = i
        BY <1>3, CopyOperators
    <2>2. QED
        BY <1>1, <1>2, <2>1 DEF Atomic!MarkSuccess, Same, SameHealth
<1>7. PoolTypeOK'
    BY <1>2, <1>5, <1>6 DEF PoolTypeOK
<1>8. ReportInv(g)'
    BY <1>4 DEF ReportInv, Reporting
<1>9. CreditInv(g)'
    BY <1>1, <1>3, <1>4, <1>5, <1>6 DEF CreditInv, Crediting
<1>10. pc[g] \in StepPlaces \ {"idle"}
    BY <1>1 DEF StepPlaces, AtRest
<1>11. QED
    BY <1>1, <1>7, <1>8, <1>9, <1>10, StoringCloses

LEMMA ClearFailuresKeepsInv ==
    ASSUME StepsInv, NEW g \in Goroutines, ClearFailures(g) PROVE StepsInv'
<1> DEFINE i == local[g].index
<1>1. /\ pc[g] = "clear" /\ pc' = [pc EXCEPT ![g] = "forgive"]
      /\ failureCounts' = [failureCounts EXCEPT ![i] = 0]
      /\ UNCHANGED <<current, healthy, cooldownUntil, clientCache, now, theFields, poolMu, local>>
    BY DEF ClearFailures, Goto
<1>2. PoolTypeOK /\ CreditInv(g)
    BY Holds
<1>3. /\ current = theCurrent /\ theHealthy = [healthy EXCEPT ![i] = TRUE]
      /\ theClientCache = [clientCache EXCEPT ![i] = FALSE]
      /\ theFailureCounts = [failureCounts EXCEPT ![i] = 0]
      /\ theCooldownUntil = [cooldownUntil EXCEPT ![i] = 0]
    BY <1>1, <1>2 DEF CreditInv, Crediting
<1>4. pc'[g] = "forgive"
    BY <1>1, Holds
<1>5. UNCHANGED <<theCurrent, theHealthy, theFailureCounts, theCooldownUntil, theClientCache>>
    BY <1>1 DEF theFields
<1>6. PoolTypeOK'
    BY <1>1, <1>2 DEF PoolTypeOK
<1>7. CreditInv(g)' /\ ReportInv(g)'
    BY <1>1, <1>3, <1>4, <1>5 DEF CreditInv, Crediting, ReportInv, Reporting
<1>8. pc[g] \in StepPlaces \ {"idle"}
    BY <1>1 DEF StepPlaces, Crediting
<1>9. QED
    BY <1>1, <1>6, <1>7, <1>8, StoringCloses

LEMMA ClearCooldownKeepsInv ==
    ASSUME StepsInv, NEW g \in Goroutines, ClearCooldown(g) PROVE StepsInv'
<1> DEFINE i == local[g].index
<1>1. /\ pc[g] = "forgive" /\ pc' = [pc EXCEPT ![g] = "promote"]
      /\ cooldownUntil' = [cooldownUntil EXCEPT ![i] = 0]
      /\ UNCHANGED <<current, healthy, failureCounts, clientCache, now, theFields, poolMu, local>>
    BY DEF ClearCooldown, Goto
<1>2. PoolTypeOK /\ CreditInv(g)
    BY Holds
<1>3. /\ current = theCurrent /\ theHealthy = [healthy EXCEPT ![i] = TRUE]
      /\ theClientCache = [clientCache EXCEPT ![i] = FALSE]
      /\ failureCounts = theFailureCounts
      /\ theCooldownUntil = [cooldownUntil EXCEPT ![i] = 0]
    BY <1>1, <1>2 DEF CreditInv, Crediting
<1>4. pc'[g] = "promote"
    BY <1>1, Holds
<1>5. UNCHANGED <<theCurrent, theHealthy, theFailureCounts, theCooldownUntil, theClientCache>>
    BY <1>1 DEF theFields
<1>6. PoolTypeOK'
    <2>1. 0 \in Int64
        BY WidthAssumption DEF Int64
    <2>2. QED
        BY <1>1, <1>2, <2>1 DEF PoolTypeOK
<1>7. CreditInv(g)' /\ ReportInv(g)'
    BY <1>1, <1>3, <1>4, <1>5 DEF CreditInv, Crediting, ReportInv, Reporting
<1>8. pc[g] \in StepPlaces \ {"idle"}
    BY <1>1 DEF StepPlaces, Crediting
<1>9. QED
    BY <1>1, <1>6, <1>7, <1>8, StoringCloses

LEMMA SwapHealthyKeepsInv ==
    ASSUME StepsInv, NEW g \in Goroutines, SwapHealthy(g) PROVE StepsInv'
<1> DEFINE i == local[g].index
<1>1. /\ pc[g] = "promote" /\ pc' = [pc EXCEPT ![g] = "drop"]
      /\ healthy' = [healthy EXCEPT ![i] = TRUE]
      /\ UNCHANGED <<current, failureCounts, cooldownUntil, clientCache, now, theFields, poolMu, local>>
    BY DEF SwapHealthy, Goto
<1>2. PoolTypeOK /\ CreditInv(g)
    BY Holds
<1>3. /\ current = theCurrent /\ theHealthy = [healthy EXCEPT ![i] = TRUE]
      /\ theClientCache = [clientCache EXCEPT ![i] = FALSE]
      /\ failureCounts = theFailureCounts /\ cooldownUntil = theCooldownUntil
    BY <1>1, <1>2 DEF CreditInv, Crediting
<1>4. pc'[g] = "drop"
    BY <1>1, Holds
<1>5. UNCHANGED <<theCurrent, theHealthy, theFailureCounts, theCooldownUntil, theClientCache>>
    BY <1>1 DEF theFields
<1>6. PoolTypeOK'
    BY <1>1, <1>2 DEF PoolTypeOK
<1>7. CreditInv(g)' /\ ReportInv(g)'
    BY <1>1, <1>3, <1>4, <1>5 DEF CreditInv, Crediting, ReportInv, Reporting
<1>8. pc[g] \in StepPlaces \ {"idle"}
    BY <1>1 DEF StepPlaces, Crediting
<1>9. QED
    BY <1>1, <1>6, <1>7, <1>8, StoringCloses

-----------------------------------------------------------------------------
(* rotateProxy                                                             *)

LEMMA AdvanceKeepsInv ==
    ASSUME StepsInv, NEW g \in Goroutines, Advance(g) PROVE StepsInv'
<1>1. /\ pc[g] = "rotate" /\ pc' = [pc EXCEPT ![g] = "renew"]
      /\ current' = (current + 1) % N /\ Atomic!Rotate
      /\ UNCHANGED <<healthVars, clientCache, poolMu, local>>
    BY DEF Advance, Goto
<1>2. PoolTypeOK /\ Same
    BY <1>1, Holds DEF AtRest
<1>3. /\ theCurrent' = (theCurrent + 1) % N
      /\ UNCHANGED <<theHealthy, theFailureCounts, theCooldownUntil, theClientCache, now>>
    BY <1>1 DEF Atomic!Rotate, Atomic!healthVars
<1>4. current' \in Indices
    <2>1. current + 1 \in Nat
        BY <1>2 DEF PoolTypeOK, Indices
    <2>2. QED
        BY <1>1, <2>1, RingPositions
<1>5. PoolTypeOK' /\ Same'
    BY <1>1, <1>2, <1>3, <1>4 DEF PoolTypeOK, Same, SameHealth, healthVars
<1>6. pc'[g] = "renew"
    BY <1>1, Holds
<1>7. CallInv(g)'
    BY <1>6 DEF CallInv, Probing, Selected
<1>8. pc[g] \in StepPlaces \ {"idle"}
    BY <1>1 DEF StepPlaces, AtRest
<1>9. QED
    BY <1>1, <1>5, <1>7, <1>8, EndKeepsInv

LEMMA RenewKeepsInv ==
    ASSUME StepsInv, NEW g \in Goroutines, Renew(g) PROVE StepsInv'
<1>1. /\ pc[g] = "renew" /\ pc' = [pc EXCEPT ![g] = "unlock"]
      /\ UNCHANGED <<poolVars, theFields, poolMu, local>>
    BY DEF Renew, Goto
<1>2. PoolTypeOK /\ Same
    BY <1>1, Holds DEF AtRest
<1>3. PoolTypeOK' /\ Same'
    BY <1>1, <1>2 DEF PoolTypeOK, Same, SameHealth, poolVars, healthVars, theFields
<1>4. pc[g] \in StepPlaces \ {"idle"}
    BY <1>1 DEF StepPlaces, AtRest
<1>5. QED
    BY <1>1, <1>3, <1>4, UnlockKeepsInv

-----------------------------------------------------------------------------
(* Entering and leaving a section, and the clock                           *)

LEMMA IdleType == Idle \in LocalVariables
<1>1. 0 \in Indices /\ 0 \in Nat /\ 0 \in Int
    BY RingPositions
<1>2. QED
    BY <1>1 DEF Idle, LocalVariables

\* While poolMu is free every goroutine is idle and the two copies agree.
LEMMA FreeMeansSame ==
    ASSUME StepsInv, poolMu = Nobody
    PROVE  Same /\ \A q \in Goroutines : pc[q] = "idle"
BY GoroutineAssumption DEF StepsInv, SectionsAreAtomic, Same, SameHealth, HolderIsInSection

LEMMA EnterKeepsInv ==
    ASSUME StepsInv, NEW g \in Goroutines, NEW to \in {"clock", "current", "rotate"},
           NEW args \in LocalVariables, Enter(g, to, args),
           to = "clock" => args.session \in Sessions /\ args.probe = 0,
           to = "current" =>
              /\ args.outcome = "error status" => args.status \in {s \in Statuses : s >= 400} /\ args.header \in Headers
              /\ args.outcome = "network error" => args.status = 0 /\ args.header = AbsentHeader
              /\ args.outcome # "none"
    PROVE  StepsInv'
<1>1. /\ pc[g] = "idle" /\ pc' = [pc EXCEPT ![g] = to] /\ poolMu = Nobody /\ poolMu' = g
      /\ local' = [local EXCEPT ![g] = args] /\ UNCHANGED <<poolVars, theFields>>
    BY DEF Enter, Goto
<1>2. PoolTypeOK /\ pc \in [Goroutines -> StepPlaces] /\ local \in [Goroutines -> LocalVariables]
    BY Holds
<1>3. Same /\ \A q \in Goroutines : pc[q] = "idle"
    BY <1>1, FreeMeansSame
<1>4. pc'[g] = to /\ local'[g] = args /\ to \in StepPlaces
    BY <1>1, <1>2 DEF StepPlaces, AtRest
<1>5. PoolTypeOK' /\ Same'
    BY <1>1, <1>2, <1>3 DEF PoolTypeOK, Same, SameHealth, poolVars, healthVars, theFields
<1>6. SectionInv(g)'
    <2>1. CallInv(g)'
        BY <1>4 DEF CallInv, Probing, Selected
    <2>2. pc'[g] \in AtRest /\ pc'[g] \notin {"report", "add", "credit"}
        BY <1>4 DEF AtRest
    <2>3. QED
        BY <1>5, <2>1, <2>2, RestCloses
<1>7. \A q \in Goroutines : SectionInv(q)'
    <2>1. \A q \in Goroutines : q # g => pc'[q] = "idle"
        BY <1>1, <1>2, <1>3
    <2>2. QED
        BY <1>6, <2>1, IdleCloses
<1>8. StepsTypeOK'
    BY <1>1, <1>2, <1>4, <1>5 DEF StepsTypeOK
<1>9. HolderIsInSection'
    <2>1. to # "idle"
        OBVIOUS
    <2>2. QED
        BY <1>1, <1>2, <1>3, <2>1 DEF HolderIsInSection
<1>10. SectionsAreAtomic'
    BY <1>1, GoroutineAssumption DEF SectionsAreAtomic
<1>11. QED
    BY <1>7, <1>8, <1>9, <1>10 DEF StepsInv

LEMMA EnterSectionKeepsInv ==
    ASSUME StepsInv, NEW g \in Goroutines, EnterSection(g) PROVE StepsInv'
<1>1. CASE EnterServe(g)
    <2>1. PICK s \in Sessions : Enter(g, "clock", [Idle EXCEPT !.session = s])
        BY <1>1 DEF EnterServe
    <2> DEFINE args == [Idle EXCEPT !.session = s]
    <2>2. args \in LocalVariables /\ args.session = s /\ args.probe = 0
        <3>1. Idle.probe = 0
            BY DEF Idle
        <3>2. QED
            BY <3>1, IdleType DEF LocalVariables
    <2> HIDE DEF args
    <2>3. Enter(g, "clock", args)
        BY <2>1 DEF args
    <2>4. QED
        BY <2>2, <2>3, EnterKeepsInv
<1>2. CASE EnterReport(g)
    <2>1. CASE Enter(g, "current", [Idle EXCEPT !.outcome = "network error"])
        <3> DEFINE args == [Idle EXCEPT !.outcome = "network error"]
        <3>1. args \in LocalVariables /\ args.outcome = "network error" /\ args.status = 0 /\ args.header = AbsentHeader
            <4>1. Idle.status = 0 /\ Idle.header = AbsentHeader
                BY DEF Idle
            <4>2. QED
                BY <4>1, IdleType DEF LocalVariables
        <3>2. Enter(g, "current", args)
            BY <2>1
        <3> HIDE DEF args
        <3>3. QED
            BY <3>1, <3>2, EnterKeepsInv
    <2>2. ASSUME NEW status \in {s \in Statuses : s >= 400}, NEW header \in Headers,
                 Enter(g, "current", [Idle EXCEPT !.outcome = "error status", !.status = status, !.header = header])
          PROVE  StepsInv'
        <3> DEFINE args == [Idle EXCEPT !.outcome = "error status", !.status = status, !.header = header]
        <3>1. args \in LocalVariables /\ args.outcome = "error status" /\ args.status = status /\ args.header = header
            <4>1. status \in Nat
                BY ResponseAssumption
            <4>2. QED
                BY <4>1, IdleType DEF LocalVariables
        <3>2. Enter(g, "current", args)
            BY <2>2
        <3> HIDE DEF args
        <3>3. QED
            BY <3>1, <3>2, EnterKeepsInv
    <2>3. QED
        BY <1>2, <2>1, <2>2 DEF EnterReport
<1>3. CASE EnterSuccess(g)
    <2> DEFINE args == [Idle EXCEPT !.outcome = "success"]
    <2>1. args \in LocalVariables /\ args.outcome = "success"
        BY IdleType DEF LocalVariables
    <2>2. Enter(g, "current", args)
        BY <1>3 DEF EnterSuccess
    <2> HIDE DEF args
    <2>3. QED
        BY <2>1, <2>2, EnterKeepsInv
<1>4. CASE EnterRotate(g)
    BY <1>4, IdleType, EnterKeepsInv DEF EnterRotate
<1>5. QED
    BY <1>1, <1>2, <1>3, <1>4 DEF EnterSection

LEMMA LeaveKeepsInv ==
    ASSUME StepsInv, NEW g \in Goroutines, Leave(g) PROVE StepsInv'
<1>1. /\ pc[g] = "unlock" /\ pc' = [pc EXCEPT ![g] = "idle"] /\ poolMu' = Nobody
      /\ local' = [local EXCEPT ![g] = Idle] /\ UNCHANGED <<poolVars, theFields>>
    BY DEF Leave, Goto
<1>2. PoolTypeOK /\ Same /\ pc \in [Goroutines -> StepPlaces] /\ local \in [Goroutines -> LocalVariables]
    BY <1>1, Holds DEF AtRest
<1>3. poolMu = g
    BY <1>1 DEF StepsInv, HolderIsInSection
<1>4. \A q \in Goroutines : pc'[q] = "idle"
    BY <1>1, <1>2, <1>3 DEF StepsInv, HolderIsInSection
<1>5. PoolTypeOK' /\ Same'
    BY <1>1, <1>2 DEF PoolTypeOK, Same, SameHealth, poolVars, healthVars, theFields
<1>6. StepsTypeOK'
    BY <1>1, <1>2, <1>5, IdleType DEF StepsTypeOK, StepPlaces
<1>7. HolderIsInSection'
    BY <1>1, <1>4, GoroutineAssumption DEF HolderIsInSection
<1>8. SectionsAreAtomic'
    BY <1>5 DEF SectionsAreAtomic, Same, SameHealth
<1>9. QED
    BY <1>4, <1>6, <1>7, <1>8, IdleCloses DEF StepsInv

\* The clock, and steps of other components.
LEMMA ClockKeepsInv ==
    ASSUME StepsInv, now' \in Nat, now' >= now,
           UNCHANGED <<current, healthVars, clientCache, theFields, poolMu, mu, pc, local>>
    PROVE  StepsInv'
<1>1. /\ UNCHANGED <<current, healthy, failureCounts, cooldownUntil, clientCache, poolMu, pc, local>>
      /\ UNCHANGED <<theCurrent, theHealthy, theFailureCounts, theCooldownUntil, theClientCache>>
    BY DEF theFields, healthVars
<1>2. StepsTypeOK' /\ HolderIsInSection' /\ SectionsAreAtomic'
    BY <1>1 DEF StepsInv, StepsTypeOK, PoolTypeOK, HolderIsInSection, SectionsAreAtomic
<1>3. ASSUME NEW q \in Goroutines
      PROVE  SectionInv(q)'
    <2>1. (pc[q] \in AtRest => Same) /\ CallInv(q) /\ ServeInv(q) /\ ReportInv(q) /\ CreditInv(q)
        BY Holds
    <2>2. (pc[q] \in AtRest => Same)' /\ CallInv(q)'
        BY <1>1, <2>1 DEF Same, SameHealth, CallInv
    <2>3. ServeInv(q)'
        <3>1. Chosen(q)' = Chosen(q) /\ (ScanInv(q) => ScanInv(q)')
            BY <1>1 DEF Chosen, ScanInv
        <3>2. Buildable(local[q].index)' = Buildable(local[q].index)
            BY <1>1 DEF Buildable
        <3>3. QED
            BY <1>1, <2>1, <3>1, <3>2 DEF ServeInv, SameHealth
    <2>4. ReportInv(q)'
        <3>1. /\ IndexOf(URL[current])' = IndexOf(URL[current])
              /\ FailureCounts(q)' = FailureCounts(q)
            BY <1>1 DEF IndexOf, FailureCounts, IsNetworkError, CountsAsFailure
        <3>2. local[q].time \in 0 .. now => local'[q].time \in 0 .. now'
            <4>1. now \in Nat
                BY DEF StepsInv, StepsTypeOK, PoolTypeOK
            <4>2. QED
                BY <1>1, <4>1
        <3>3. QED
            BY <1>1, <2>1, <3>1, <3>2 DEF ReportInv
    <2>5. CreditInv(q)'
        BY <1>1, <2>1 DEF CreditInv
    <2>6. QED
        BY <2>2, <2>3, <2>4, <2>5 DEF SectionInv
<1>4. QED
    BY <1>2, <1>3 DEF StepsInv

-----------------------------------------------------------------------------
(* The theorems                                                            *)

LEMMA SectionStepKeepsInv ==
    ASSUME StepsInv, NEW g \in Goroutines, SectionStep(g) PROVE StepsInv'
BY ReadClockKeepsInv, LoadHealthKeepsInv, LoadCooldownKeepsInv, LoadClientKeepsInv,
   LockToBuildKeepsInv, NothingToStoreKeepsInv, BuildKeepsInv, StoreClientKeepsInv,
   ReadCurrentKeepsInv, ReturnEarlyKeepsInv, LockToReportKeepsInv, AddFailureKeepsInv,
   ReadHeaderKeepsInv, ReadDeadlineKeepsInv, StoreCooldownKeepsInv, SwapUnhealthyKeepsInv, DropClientKeepsInv,
   LockToCreditKeepsInv, ClearFailuresKeepsInv, ClearCooldownKeepsInv, SwapHealthyKeepsInv,
   AdvanceKeepsInv, RenewKeepsInv, LeaveKeepsInv DEF SectionStep

LEMMA StepsInvInductive ==
    /\ Init => StepsInv
    /\ StepsInv /\ [Next]_vars => StepsInv'
<1>1. ASSUME Init PROVE StepsInv
    <2>1. /\ PoolInit /\ Atomic!PoolInit /\ poolMu = Nobody
          /\ pc = [g \in Goroutines |-> "idle"] /\ local = [g \in Goroutines |-> Idle]
        BY <1>1 DEF Init
    <2>2. PoolTypeOK
        <3>1. 0 \in Indices /\ 0 \in Int64 /\ 0 \in Nat
            BY RingPositions, WidthAssumption DEF Int64
        <3>2. QED
            BY <2>1, <3>1 DEF PoolInit, PoolTypeOK
    <2>3. StepsTypeOK
        BY <2>1, <2>2, IdleType DEF StepsTypeOK, StepPlaces
    <2>4. HolderIsInSection
        BY <2>1, GoroutineAssumption DEF HolderIsInSection
    <2>5. SectionsAreAtomic
        BY <2>1 DEF SectionsAreAtomic, PoolInit, Atomic!PoolInit, Indices, Atomic!Indices
    <2>6. ASSUME NEW g \in Goroutines PROVE SectionInv(g)
        <3>1. pc[g] = "idle"
            BY <2>1
        <3>2. CallInv(g) /\ ServeInv(g)
            BY <3>1 DEF CallInv, ServeInv, Probing, Selected
        <3>3. ReportInv(g) /\ CreditInv(g)
            BY <3>1 DEF ReportInv, CreditInv, Reporting, Crediting
        <3>4. pc[g] \notin AtRest
            BY <3>1 DEF AtRest
        <3>5. QED
            BY <3>2, <3>3, <3>4 DEF SectionInv
    <2>7. QED
        BY <2>3, <2>4, <2>5, <2>6 DEF StepsInv
<1>2. ASSUME StepsInv, [Next]_vars PROVE StepsInv'
    <2>1. CASE \E g \in Goroutines : EnterSection(g)
        BY <1>2, <2>1, EnterSectionKeepsInv
    <2>2. CASE \E g \in Goroutines : SectionStep(g)
        BY <1>2, <2>2, SectionStepKeepsInv
    <2>3. CASE TimePasses \/ UNCHANGED vars
        <3>1. now \in Nat
            BY <1>2 DEF StepsInv, StepsTypeOK, PoolTypeOK
        <3>2. /\ now' \in Nat /\ now' >= now
              /\ UNCHANGED <<current, healthVars, clientCache, theFields, poolMu, pc, local>>
              /\ UNCHANGED mu
            BY <2>3, <3>1 DEF TimePasses, Tick, vars, poolVars, healthVars, theFields
        <3>3. QED
            BY <1>2, <3>2, ClockKeepsInv
    <2>4. QED
        BY <1>2, <2>1, <2>2, <2>3 DEF Next
<1>3. QED
    BY <1>1, <1>2

\* The critical sections of poolMu are atomic: in every reachable state in which
\* poolMu is free, the pool of handler.go's goroutines is as the one-step
\* operations of ProxyPool leave it, whatever the interleaving of their loads
\* and stores with each other and with the clock, which one of them reads twice.
THEOREM SectionsAtomic == Spec => []SectionsAreAtomic
<1>1. StepsInv => SectionsAreAtomic
    BY DEF StepsInv
<1>2. QED
    BY <1>1, StepsInvInductive, PTL DEF Spec

-----------------------------------------------------------------------------
(* Refinement                                                              *)

\* A step that leaves the copy and the clock alone.
Hidden(g) ==
    \/ LoadHealth(g) \/ LoadCooldown(g) \/ LoadClient(g) \/ LockToBuild(g) \/ NothingToStore(g)
    \/ Build(g) \/ StoreClient(g) \/ ReadCurrent(g) \/ LockToReport(g) \/ AddFailure(g)
    \/ ReadHeader(g) \/ StoreCooldown(g) \/ SwapUnhealthy(g) \/ DropClient(g) \/ ClearFailures(g)
    \/ ClearCooldown(g) \/ SwapHealthy(g) \/ Renew(g) \/ Leave(g) \/ EnterSection(g)

LEMMA HiddenStutters ==
    ASSUME NEW g \in Goroutines, Hidden(g)
    PROVE  UNCHANGED Atomic!poolVars
<1>1. UNCHANGED <<theFields, now>>
    <2>1. CASE EnterSection(g)
        BY <2>1 DEF EnterSection, EnterServe, EnterReport, EnterSuccess, EnterRotate, Enter, poolVars
    <2>2. CASE LoadHealth(g) \/ LoadCooldown(g) \/ LoadClient(g) \/ LockToBuild(g) \/ NothingToStore(g) \/ Build(g)
        BY <2>2 DEF LoadHealth, LoadCooldown, LoadClient, LockToBuild, NothingToStore, Build, poolVars
    <2>3. CASE StoreClient(g) \/ ReadCurrent(g) \/ LockToReport(g) \/ AddFailure(g) \/ ReadHeader(g) \/ StoreCooldown(g)
        BY <2>3 DEF StoreClient, ReadCurrent, LockToReport, AddFailure, ReadHeader, StoreCooldown, poolVars
    <2>4. CASE SwapUnhealthy(g) \/ DropClient(g) \/ ClearFailures(g) \/ ClearCooldown(g) \/ SwapHealthy(g)
        BY <2>4 DEF SwapUnhealthy, DropClient, ClearFailures, ClearCooldown, SwapHealthy
    <2>5. CASE Renew(g) \/ Leave(g)
        BY <2>5 DEF Renew, Leave, poolVars
    <2>6. QED
        BY <2>1, <2>2, <2>3, <2>4, <2>5 DEF Hidden
<1>2. QED
    BY <1>1 DEF theFields, Atomic!poolVars, Atomic!healthVars

\* The URL that the copy's Current names is one of the list's.
LEMMA CopyURL ==
    ASSUME StepsInv, NEW g \in Goroutines, pc[g] \in {"report", "deadline", "credit"}
    PROVE  URL[theCurrent] \in Atomic!URLs
<1>1. PoolTypeOK /\ current = theCurrent
    BY Holds DEF AtRest, Reporting, ReportInv, Same
<1>2. QED
    BY <1>1, CurrentURL DEF URLs, Atomic!URLs, Indices, Atomic!Indices

\* Without a header the first clock does not matter.
LEMMA NoHeaderNoClock ==
    ASSUME NEW url, NEW seen, Atomic!MarkFailure(url, 0, TRUE, AbsentHeader, seen)
    PROVE  Atomic!MarkFailure(url, 0, TRUE, Atomic!AbsentHeader, now)
<1>1. ParseRetryAfter(AbsentHeader, seen) = ParseRetryAfter(AbsentHeader, now)
    BY DEF ParseRetryAfter, AbsentHeader, ReadsAsSeconds, ReadsAsFutureDate
<1>2. \A f : Atomic!Backoff(f, AbsentHeader, seen) = Atomic!Backoff(f, AbsentHeader, now)
    <2>1. \A f : Backoff(f, AbsentHeader, seen) = Backoff(f, AbsentHeader, now)
        BY <1>1 DEF Backoff
    <2>2. QED
        BY <2>1, CopyOperators
<1>3. AbsentHeader = Atomic!AbsentHeader
    BY DEF AbsentHeader, Atomic!AbsentHeader
<1>4. QED
    BY <1>2, <1>3 DEF Atomic!MarkFailure, Atomic!RecordFailure

LEMMA SectionStepIsPoolStep ==
    ASSUME StepsInv, NEW g \in Goroutines, SectionStep(g)
    PROVE  Atomic!PoolNext \/ UNCHANGED Atomic!poolVars
<1>1. CallInv(g)
    BY Holds
<1>2. CASE ReadClock(g)
    <2>1. pc[g] = "clock" /\ Atomic!ClientForSession(local[g].session)
        BY <1>2 DEF ReadClock, Goto
    <2>2. QED
        BY <1>1, <2>1 DEF CallInv, Atomic!Serve, Atomic!PoolNext
<1>3. CASE ReturnEarly(g) \/ ReadDeadline(g)
    <2> DEFINE seen == IF pc[g] = "report" THEN now ELSE local[g].time
    <2>1. /\ pc[g] \in {"report", "deadline"}
          /\ Atomic!MarkFailure(URL[theCurrent], local[g].status, IsNetworkError(g), local[g].header, seen)
        <3>1. CASE ReturnEarly(g)
            <4>1. ~IsNetworkError(g)
                BY <3>1 DEF ReturnEarly, FailureCounts, CountsAsFailure
            <4>2. IsNetworkError(g) = FALSE
                BY <4>1 DEF IsNetworkError
            <4>3. QED
                BY <3>1, <4>2 DEF ReturnEarly, Goto
        <3>2. CASE ReadDeadline(g)
            BY <3>2 DEF ReadDeadline, Goto
        <3>3. QED
            BY <1>3, <3>1, <3>2
    <2>2. URL[theCurrent] \in Atomic!URLs /\ seen \in 0 .. now
        <3>1. now \in Nat /\ (pc[g] = "deadline" => local[g].time \in 0 .. now)
            BY Holds DEF PoolTypeOK, ReportInv
        <3>2. QED
            BY <2>1, <3>1, CopyURL
    <2>3. CASE local[g].outcome = "network error"
        <3>1. local[g].status = 0 /\ local[g].header = AbsentHeader /\ IsNetworkError(g) = TRUE
            BY <1>1, <2>1, <2>3 DEF CallInv, IsNetworkError
        <3>2. Atomic!ReportNetworkError(URL[theCurrent])
            BY <2>1, <3>1, NoHeaderNoClock DEF Atomic!ReportNetworkError
        <3>3. QED
            BY <2>2, <3>2 DEF Atomic!Report, Atomic!PoolNext
    <2>4. CASE local[g].outcome = "error status"
        <3>1. /\ local[g].status \in {s \in Statuses : s >= 400} /\ local[g].header \in Headers
              /\ IsNetworkError(g) = FALSE
            BY <1>1, <2>1, <2>4 DEF CallInv, IsNetworkError
        <3>2. Atomic!ReportErrorStatus(URL[theCurrent], local[g].status, local[g].header)
            BY <2>1, <2>2, <3>1 DEF Atomic!ReportErrorStatus
        <3>3. QED
            BY <2>2, <3>1, <3>2 DEF Atomic!Report, Atomic!PoolNext
    <2>5. QED
        BY <1>1, <2>1, <2>3, <2>4 DEF CallInv
<1>4. CASE LockToCredit(g)
    <2>1. pc[g] = "credit" /\ Atomic!MarkSuccess(URL[theCurrent])
        BY <1>4 DEF LockToCredit, Goto
    <2>2. QED
        BY <2>1, CopyURL DEF Atomic!Recover, Atomic!PoolNext
<1>5. CASE Advance(g)
    BY <1>5 DEF Advance, Atomic!PoolNext
<1>6. CASE Hidden(g)
    BY <1>6, HiddenStutters
<1>7. QED
    BY <1>2, <1>3, <1>4, <1>5, <1>6 DEF SectionStep, Hidden

\* PoolSteps implements ProxyPool: the second copy of the pool, with which the
\* loads and stores agree whenever poolMu is free, goes through the steps of
\* ProxyPool, each of them between the lock and the unlock of one section.
THEOREM StepsImplementPool == Spec => Atomic!PoolSpec
<1>1. Init => Atomic!PoolInit
    BY DEF Init
<1>2. StepsInv /\ [Next]_vars => [Atomic!PoolNext]_(Atomic!poolVars)
    <2> SUFFICES ASSUME StepsInv, [Next]_vars
                 PROVE  Atomic!PoolNext \/ UNCHANGED Atomic!poolVars
        OBVIOUS
    <2>1. CASE \E g \in Goroutines : EnterSection(g)
        BY <2>1, HiddenStutters DEF Hidden
    <2>2. CASE \E g \in Goroutines : SectionStep(g)
        BY <2>2, SectionStepIsPoolStep
    <2>3. CASE TimePasses
        BY <2>3 DEF TimePasses, Tick, theFields, Atomic!PoolNext, Atomic!Tick, Atomic!healthVars
    <2>4. CASE UNCHANGED vars
        BY <2>4 DEF vars, poolVars, theFields, Atomic!poolVars, Atomic!healthVars
    <2>5. QED
        BY <2>1, <2>2, <2>3, <2>4 DEF Next
<1>3. QED
    BY <1>1, <1>2, StepsInvInductive, PTL DEF Spec, Atomic!PoolSpec

-----------------------------------------------------------------------------
(* The promises of the pool, between the sections                          *)

\* The records of the copy agree at every step, those of the pool only while
\* poolMu is free: a section stores the parts of a record one after the other.
CopyRecordsAgree ==
    /\ theHealthy \in [Indices -> BOOLEAN]
    /\ theFailureCounts \in [Indices -> Nat]
    /\ DOMAIN theCooldownUntil = Indices
    /\ \A i \in Indices :
          /\ theHealthy[i] <=> theFailureCounts[i] < UnhealthyAfter
          /\ theFailureCounts[i] = 0 => theCooldownUntil[i] = 0

LEMMA CopyRecordsInductive ==
    /\ Init => CopyRecordsAgree
    /\ StepsInv /\ CopyRecordsAgree /\ [Next]_vars => CopyRecordsAgree'
<1>1. ASSUME Init PROVE CopyRecordsAgree
    <2>1. /\ theHealthy = [i \in Indices |-> TRUE] /\ theFailureCounts = [i \in Indices |-> 0]
          /\ theCooldownUntil = [i \in Indices |-> 0]
        BY <1>1 DEF Init, Atomic!PoolInit, Indices, Atomic!Indices
    <2>2. QED
        BY <2>1 DEF CopyRecordsAgree, UnhealthyAfter
<1>2. ASSUME StepsInv, CopyRecordsAgree, [Next]_vars PROVE CopyRecordsAgree'
    <2>1. ASSUME UNCHANGED <<theHealthy, theFailureCounts, theCooldownUntil>> PROVE CopyRecordsAgree'
        BY <1>2, <2>1 DEF CopyRecordsAgree
    <2>2. ASSUME UNCHANGED Atomic!poolVars PROVE CopyRecordsAgree'
        BY <2>1, <2>2 DEF Atomic!poolVars, Atomic!healthVars
    <2>3. ASSUME NEW g \in Goroutines, ReadDeadline(g) PROVE CopyRecordsAgree'
        <3> DEFINE i == local[g].index
                   f == local[g].failures
                   t == local'[g].time
        <3>1. pc[g] = "deadline" /\ pc'[g] = "cool" /\ UNCHANGED fields
            BY <1>2, <2>3, Holds DEF ReadDeadline, Goto
        <3>2. ReportInv(g) /\ PoolTypeOK /\ local[g] \in LocalVariables
            BY <1>2, <2>3, Holds
        <3>3. ReportInv(g)' /\ PoolTypeOK'
            BY <1>2, <2>3, ReadDeadlineKeepsInv DEF StepsInv, StepsTypeOK, SectionInv
        <3>4. i \in Indices /\ f \in Nat /\ f # 0
            BY <3>1, <3>2 DEF ReportInv, LocalVariables
        <3>5. /\ failureCounts = [theFailureCounts EXCEPT ![i] = f]
              /\ healthy = theHealthy /\ cooldownUntil = theCooldownUntil
            BY <3>1, <3>2 DEF ReportInv
        <3>6. UNCHANGED <<healthy, failureCounts, cooldownUntil>>
            BY <3>1 DEF fields, healthVars
        <3>7. local'[g].index = i /\ local'[g].failures = f
            <4>1. /\ local' = [local EXCEPT ![g].time = WrapInt64(now + Backoff(local[g].failures, local[g].header, local[g].time))]
                BY <2>3 DEF ReadDeadline
            <4>2. local'[g] = WithTime(local[g], WrapInt64(now + Backoff(local[g].failures, local[g].header, local[g].time)))
                BY <1>2, <4>1, Holds DEF WithTime
            <4>3. QED
                BY <3>2, <4>2 DEF WithTime, LocalVariables
        <3>8. /\ theFailureCounts' = failureCounts
              /\ theCooldownUntil' = [cooldownUntil EXCEPT ![i] = t]
              /\ theHealthy' = [healthy EXCEPT ![i] = healthy[i] /\ f < UnhealthyAfter]
            BY <3>1, <3>3, <3>6, <3>7 DEF ReportInv
        <3>9. \A j \in Indices : j # i =>
                 /\ theHealthy'[j] = theHealthy[j] /\ theFailureCounts'[j] = theFailureCounts[j]
                 /\ theCooldownUntil'[j] = theCooldownUntil[j]
            BY <1>2, <3>2, <3>5, <3>8 DEF PoolTypeOK, CopyRecordsAgree
        <3>10. /\ theFailureCounts'[i] = f
               /\ theHealthy'[i] <=> theHealthy[i] /\ f < UnhealthyAfter
            BY <1>2, <3>2, <3>4, <3>5, <3>8 DEF PoolTypeOK, CopyRecordsAgree
        <3>11. f = theFailureCounts[i] + 1
            BY <3>1, <3>2 DEF ReportInv
        <3>12. theHealthy'[i] <=> theFailureCounts'[i] < UnhealthyAfter
            <4>1. theHealthy[i] <=> theFailureCounts[i] < UnhealthyAfter
                BY <1>2, <3>4 DEF CopyRecordsAgree
            <4>2. theFailureCounts[i] \in Nat
                BY <1>2, <3>4 DEF CopyRecordsAgree
            <4>3. f < UnhealthyAfter => theFailureCounts[i] < UnhealthyAfter
                BY <3>11, <4>2 DEF UnhealthyAfter
            <4>4. QED
                BY <3>10, <4>1, <4>3
        <3>13. /\ theHealthy' \in [Indices -> BOOLEAN] /\ theFailureCounts' \in [Indices -> Nat]
               /\ DOMAIN theCooldownUntil' = Indices
            BY <3>2, <3>8 DEF PoolTypeOK
        <3>14. \A j \in Indices :
                  /\ theHealthy'[j] <=> theFailureCounts'[j] < UnhealthyAfter
                  /\ theFailureCounts'[j] = 0 => theCooldownUntil'[j] = 0
            BY <1>2, <3>4, <3>9, <3>10, <3>12 DEF CopyRecordsAgree
        <3>15. QED
            BY <3>13, <3>14 DEF CopyRecordsAgree, UnhealthyAfter
    <2>4. ASSUME NEW g \in Goroutines, LockToCredit(g) PROVE CopyRecordsAgree'
        <3> DEFINE i == IndexOf(URL[theCurrent])
        <3>1. Atomic!MarkSuccess(URL[theCurrent])
            BY <2>4 DEF LockToCredit
        <3>2. Atomic!IndexOf(URL[theCurrent]) = i
            BY CopyOperators
        <3> HIDE DEF i
        <3>3. /\ theFailureCounts' = [theFailureCounts EXCEPT ![i] = 0]
              /\ theCooldownUntil' = [theCooldownUntil EXCEPT ![i] = 0]
              /\ theHealthy' = [theHealthy EXCEPT ![i] = TRUE]
            BY <3>1, <3>2 DEF Atomic!MarkSuccess
        <3>4. /\ theHealthy' \in [Indices -> BOOLEAN] /\ theFailureCounts' \in [Indices -> Nat]
              /\ DOMAIN theCooldownUntil' = Indices
            BY <1>2, <3>3 DEF CopyRecordsAgree
        <3>5. ASSUME NEW j \in Indices
              PROVE  /\ theHealthy'[j] <=> theFailureCounts'[j] < UnhealthyAfter
                     /\ theFailureCounts'[j] = 0 => theCooldownUntil'[j] = 0
            <4>1. CASE j = i
                <5>1. theHealthy'[j] = TRUE /\ theFailureCounts'[j] = 0 /\ theCooldownUntil'[j] = 0
                    BY <1>2, <3>3, <4>1 DEF CopyRecordsAgree
                <5>2. QED
                    BY <5>1 DEF UnhealthyAfter
            <4>2. CASE j # i
                <5>1. /\ theHealthy'[j] = theHealthy[j] /\ theFailureCounts'[j] = theFailureCounts[j]
                      /\ theCooldownUntil'[j] = theCooldownUntil[j]
                    BY <1>2, <3>3, <4>2 DEF CopyRecordsAgree
                <5>2. QED
                    BY <1>2, <5>1 DEF CopyRecordsAgree
            <4>3. QED
                BY <4>1, <4>2
        <3>6. QED
            BY <3>4, <3>5 DEF CopyRecordsAgree, UnhealthyAfter
    <2>5. ASSUME NEW g \in Goroutines, ReadClock(g) \/ ReturnEarly(g) \/ Advance(g) PROVE CopyRecordsAgree'
        <3>1. CASE ReadClock(g)
            BY <2>1, <3>1 DEF ReadClock, Atomic!ClientForSession, Atomic!healthVars
        <3>2. CASE ReturnEarly(g)
            <4>1. ~Atomic!CountsAsFailure(local[g].status, FALSE)
                BY <3>2 DEF ReturnEarly, FailureCounts, IsNetworkError, CountsAsFailure, Atomic!CountsAsFailure
            <4>2. QED
                BY <2>1, <3>2, <4>1 DEF ReturnEarly, Atomic!MarkFailure, Atomic!healthVars
        <3>3. CASE Advance(g)
            BY <2>1, <3>3 DEF Advance, Atomic!Rotate, Atomic!healthVars
        <3>4. QED
            BY <2>5, <3>1, <3>2, <3>3
    <2>6. ASSUME NEW g \in Goroutines, EnterSection(g) \/ SectionStep(g) PROVE CopyRecordsAgree'
        <3>1. CASE Hidden(g)
            BY <2>2, <3>1, HiddenStutters
        <3>2. QED
            BY <2>3, <2>4, <2>5, <2>6, <3>1 DEF SectionStep, Hidden
    <2>7. CASE TimePasses \/ UNCHANGED vars
        BY <2>1, <2>7 DEF TimePasses, vars, theFields
    <2>8. QED
        BY <1>2, <2>6, <2>7 DEF Next
<1>3. QED
    BY <1>1, <1>2

\* What ProxyPool promises of the whole methods holds of the program's loads and
\* stores whenever poolMu is free: the parts of a health record agree, a session
\* without failures is served by its preferred proxy, and none is sent to an
\* unavailable proxy while another one is available.
THEOREM PromisesHoldBetweenSections ==
    Spec => [](poolMu = Nobody => RecordsAgree /\ AffinityUntilFailure /\ IsolationHolds)
<1>1. StepsInv /\ CopyRecordsAgree => (poolMu = Nobody => RecordsAgree /\ AffinityUntilFailure /\ IsolationHolds)
    <2> SUFFICES ASSUME StepsInv, CopyRecordsAgree, poolMu = Nobody
                 PROVE  RecordsAgree /\ AffinityUntilFailure /\ IsolationHolds
        OBVIOUS
    <2>1. Same /\ PoolTypeOK
        BY FreeMeansSame DEF StepsInv, StepsTypeOK
    <2>2. RecordsAgree
        BY <2>1 DEF Same, SameHealth, CopyRecordsAgree, RecordsAgree
    <2>3. ASSUME NEW s \in Sessions, failureCounts[Preferred(s)] = 0
          PROVE  Select(s) = Preferred(s)
        <3>1. Preferred(s) \in Indices
            BY PreferredType
        <3>2. healthy[Preferred(s)] /\ cooldownUntil[Preferred(s)] = 0
            BY <2>2, <2>3, <3>1 DEF RecordsAgree, UnhealthyAfter
        <3>3. Available(Preferred(s))
            BY <2>1, <3>2 DEF Available, PoolTypeOK
        <3>4. QED
            BY <3>3, SelectPrefers
    <2>4. QED
        BY <2>2, <2>3, SelectIsolates DEF AffinityUntilFailure
<1>2. QED
    BY <1>1, StepsInvInductive, CopyRecordsInductive, PTL DEF Spec

-----------------------------------------------------------------------------
(* Retry-After dates                                                       *)

\* A date of a header is an instant that time.Time.UnixNano can express.
DatesFit == \A header \in Headers : header.form = "date" => header.value <= MaxInt64

\* g reports an error status that came with a date.
Dated(g) == local[g].outcome = "error status" /\ local[g].header.form = "date"

\* From the second clock on, what g will store or has stored is past the date.
\* The other sections report nothing.
DateInv(g) ==
    /\ pc[g] = "cool" /\ Dated(g) => local[g].time >= local[g].header.value
    /\ pc[g] \in {"demote", "drop"} /\ Dated(g) => cooldownUntil[local[g].index] >= local[g].header.value
    /\ pc[g] = "unlock" /\ Dated(g) /\ FailureCounts(g)
          => cooldownUntil[local[g].index] >= local[g].header.value
    /\ pc[g] \in {"clock", "credit", "rotate", "renew"} \cup Probing \cup Selected \cup Crediting
          => local[g].outcome # "error status"

\* While g is in its section every step is its own, or the clock's; outside of
\* it nothing is said.
LEMMA OthersWait ==
    ASSUME StepsInv, NEW g \in Goroutines, NEW q \in Goroutines, q # g,
           EnterSection(q) \/ SectionStep(q), DateInv(g)
    PROVE  DateInv(g)'
<1>1. poolMu \in {q, Nobody} /\ pc' = [pc EXCEPT ![q] = pc'[q]]
    <2>1. CASE EnterSection(q)
        BY <2>1, Holds DEF EnterSection, EnterServe, EnterReport, EnterSuccess, EnterRotate, Enter, Goto
    <2>2. CASE SectionStep(q)
        <3>1. pc[q] # "idle"
            BY <2>2 DEF SectionStep, Goto, ReadClock, LoadHealth, LoadCooldown, LoadClient, LockToBuild,
                        NothingToStore, Build, StoreClient, ReadCurrent, ReturnEarly, LockToReport,
                        AddFailure, ReadHeader, ReadDeadline, StoreCooldown, SwapUnhealthy, DropClient,
                        LockToCredit, ClearFailures, ClearCooldown, SwapHealthy, Advance, Renew, Leave
        <3>2. poolMu = q
            BY <3>1 DEF StepsInv, HolderIsInSection
        <3>3. pc' = [pc EXCEPT ![q] = pc'[q]]
            BY <2>2, Holds
               DEF SectionStep, Goto, NextProbe, ReadClock, LoadHealth, LoadCooldown, LoadClient, LockToBuild,
                   NothingToStore, Build, StoreClient, ReadCurrent, ReturnEarly, LockToReport,
                   AddFailure, ReadHeader, ReadDeadline, StoreCooldown, SwapUnhealthy, DropClient,
                   LockToCredit, ClearFailures, ClearCooldown, SwapHealthy, Advance, Renew, Leave
        <3>4. QED
            BY <3>2, <3>3
    <2>3. QED
        BY <2>1, <2>2
<1>2. pc[g] = "idle" /\ pc'[g] = "idle"
    BY <1>1, GoroutineAssumption DEF StepsInv, HolderIsInSection, StepsTypeOK
<1>3. QED
    BY <1>2 DEF DateInv, Probing, Selected, Crediting

\* The arguments of a section are what its caller has chosen.
LEMMA EnterSectionKeepsDates ==
    ASSUME StepsInv, NEW g \in Goroutines, EnterSection(g)
    PROVE  DateInv(g)'
<1>1. ASSUME NEW to, NEW args, Enter(g, to, args), to = "clock" \/ to = "rotate" => args.outcome = "none",
             to \in {"clock", "current", "rotate"}
      PROVE  DateInv(g)'
    <2>1. pc'[g] = to /\ local'[g] = args
        BY <1>1, Holds DEF Enter, Goto
    <2>2. QED
        BY <1>1, <2>1 DEF DateInv, Probing, Selected, Crediting
<1>2. CASE EnterServe(g)
    <2>1. PICK s \in Sessions : Enter(g, "clock", [Idle EXCEPT !.session = s])
        BY <1>2 DEF EnterServe
    <2>2. [Idle EXCEPT !.session = s].outcome = "none"
        BY DEF Idle
    <2>3. QED
        BY <1>1, <2>1, <2>2
<1>3. CASE EnterReport(g) \/ EnterSuccess(g)
    BY <1>1, <1>3 DEF EnterReport, EnterSuccess
<1>4. CASE EnterRotate(g)
    <2>1. Idle.outcome = "none"
        BY DEF Idle
    <2>2. QED
        BY <1>1, <1>4, <2>1 DEF EnterRotate
<1>5. QED
    BY <1>2, <1>3, <1>4 DEF EnterSection

\* The steps that do not touch the outcome, and go on to a place where nothing
\* more is said.
LEMMA OtherStepsKeepDates ==
    ASSUME StepsInv, NEW g \in Goroutines, DateInv(g), SectionStep(g),
           ~ReadDeadline(g), ~StoreCooldown(g), ~SwapUnhealthy(g), ~DropClient(g)
    PROVE  DateInv(g)'
<1>1. pc[g] \in StepPlaces /\ local[g] \in LocalVariables /\ pc \in [Goroutines -> StepPlaces]
      /\ local \in [Goroutines -> LocalVariables]
    BY Holds
<1>2. CASE ReadClock(g)
    <2>1. pc[g] = "clock" /\ pc'[g] = "health" /\ local'[g].outcome = local[g].outcome
        BY <1>1, <1>2 DEF ReadClock, Goto, LocalVariables
    <2>2. QED
        BY <2>1 DEF DateInv, Probing, Selected, Crediting
<1>3. CASE LoadHealth(g) \/ LoadCooldown(g)
    <2>1. ASSUME NextProbe(g) PROVE pc'[g] \in {"health", "cached"} /\ local'[g].outcome = local[g].outcome
        <3>1. PICK k, i : local' = [local EXCEPT ![g].probe = k, ![g].index = i]
            BY <2>1 DEF NextProbe
        <3>2. local'[g] = [local[g] EXCEPT !.probe = k, !.index = i]
            BY <1>1, <3>1
        <3>3. local'[g].outcome = local[g].outcome
            BY <1>1, <3>2 DEF LocalVariables
        <3>4. pc'[g] \in {"health", "cached"}
            BY <1>1, <2>1 DEF NextProbe
        <3>5. QED
            BY <3>3, <3>4
    <2>2. /\ pc[g] \in Probing /\ pc'[g] \in {"health", "cooldown", "cached"}
          /\ local'[g].outcome = local[g].outcome
        BY <1>1, <1>3, <2>1 DEF LoadHealth, LoadCooldown, Probing
    <2>3. QED
        BY <2>2 DEF DateInv, Probing, Selected, Crediting
<1>4. CASE LoadClient(g) \/ LockToBuild(g) \/ NothingToStore(g) \/ Build(g) \/ StoreClient(g)
    <2>1. pc[g] \in Selected /\ pc'[g] \in Selected \cup {"unlock"} /\ local'[g] = local[g]
        BY <1>1, <1>4 DEF LoadClient, LockToBuild, NothingToStore, Build, StoreClient, Goto, Selected
    <2>2. QED
        BY <2>1 DEF DateInv, Dated, Probing, Selected, Crediting
<1>5. CASE ReadCurrent(g)
    <2>1. /\ pc'[g] = IF local[g].outcome = "success" THEN "credit" ELSE "report"
          /\ local'[g].outcome = local[g].outcome
        BY <1>1, <1>5 DEF ReadCurrent, Goto, LocalVariables
    <2>2. QED
        BY <2>1 DEF DateInv, Probing, Selected, Crediting
<1>6. CASE ReturnEarly(g)
    <2>1. pc'[g] = "unlock" /\ local' = local /\ ~FailureCounts(g)
        BY <1>1, <1>6 DEF ReturnEarly, Goto
    <2>2. ~FailureCounts(g)'
        BY <2>1 DEF FailureCounts, IsNetworkError, CountsAsFailure
    <2>3. QED
        BY <2>1, <2>2 DEF DateInv, Probing, Selected, Crediting
<1>7. CASE LockToReport(g) \/ AddFailure(g) \/ ReadHeader(g)
    <2>1. pc'[g] \in {"add", "parse", "deadline"}
        BY <1>1, <1>7 DEF LockToReport, AddFailure, ReadHeader, Goto
    <2>2. QED
        BY <2>1 DEF DateInv, Probing, Selected, Crediting
<1>8. CASE LockToCredit(g) \/ ClearFailures(g) \/ ClearCooldown(g) \/ SwapHealthy(g)
    <2>1. /\ pc[g] \in {"credit"} \cup Crediting /\ pc'[g] \in Crediting \cup {"drop"}
          /\ local'[g] = local[g]
        BY <1>1, <1>8 DEF LockToCredit, ClearFailures, ClearCooldown, SwapHealthy, Goto, Crediting
    <2>2. QED
        BY <2>1 DEF DateInv, Dated, Probing, Selected, Crediting
<1>9. CASE Advance(g) \/ Renew(g)
    <2>1. pc[g] \in {"rotate", "renew"} /\ pc'[g] \in {"renew", "unlock"} /\ local'[g] = local[g]
        BY <1>1, <1>9 DEF Advance, Renew, Goto
    <2>2. QED
        BY <2>1 DEF DateInv, Dated, Probing, Selected, Crediting
<1>10. CASE Leave(g)
    <2>1. pc'[g] = "idle"
        BY <1>1, <1>10 DEF Leave, Goto
    <2>2. QED
        BY <2>1 DEF DateInv, Probing, Selected, Crediting
<1>11. QED
    BY <1>2, <1>3, <1>4, <1>5, <1>6, <1>7, <1>8, <1>9, <1>10 DEF SectionStep

\* The delay of a date, counted from a later clock than the one it was read by,
\* ends at the date or after it.
LEMMA DeadlineIsPastDate ==
    ASSUME PoolTypeOK, DelaysFit, DatesFit, NEW f \in Nat \ {0}, NEW header \in Headers, header.form = "date",
           NEW seen \in 0 .. now
    PROVE  WrapInt64(now + Backoff(f, header, seen)) >= header.value
<1> DEFINE backoff == ExponentialBackoff(f, BaseDelay, MaxDelay)
           retryAfter == ParseRetryAfter(header, seen)
<1>1. header.value \in Int /\ header.value <= MaxInt64 /\ now \in Nat /\ seen \in Nat
    BY ResponseAssumption DEF DatesFit, PoolTypeOK
<1>2. backoff \in BaseDelay .. MaxDelay
    BY DelayAssumption, BackoffBounds
<1>3. retryAfter = IF header.value > seen THEN header.value - seen ELSE 0
    BY <1>1, WidthAssumption DEF ParseRetryAfter, ReadsAsSeconds, ReadsAsFutureDate
<1>4. now + retryAfter <= MaxInt64 /\ now + MaxDelay <= MaxInt64
    BY DEF DelaysFit
<1>5. Backoff(f, header, seen) = IF retryAfter > backoff THEN retryAfter ELSE backoff
    BY DEF Backoff
<1> HIDE DEF backoff, retryAfter
<1>6. now + Backoff(f, header, seen) \in Int64 /\ now + Backoff(f, header, seen) >= header.value
    BY <1>1, <1>2, <1>3, <1>4, <1>5, DelayAssumption, WidthAssumption DEF Int64
<1>7. QED
    BY <1>6, WrapInt64Identity

LEMMA ReportStepsKeepDates ==
    ASSUME StepsInv, DelaysFit, DatesFit, NEW g \in Goroutines, DateInv(g),
           ReadDeadline(g) \/ StoreCooldown(g) \/ SwapUnhealthy(g) \/ DropClient(g)
    PROVE  DateInv(g)'
<1>1. /\ PoolTypeOK /\ pc[g] \in StepPlaces /\ local[g] \in LocalVariables /\ pc \in [Goroutines -> StepPlaces]
      /\ local \in [Goroutines -> LocalVariables] /\ CallInv(g) /\ ReportInv(g)
    BY Holds
<1>2. CASE ReadDeadline(g)
    <2> DEFINE t == WrapInt64(now + Backoff(local[g].failures, local[g].header, local[g].time))
    <2>1. pc[g] = "deadline" /\ pc'[g] = "cool" /\ local' = [local EXCEPT ![g].time = t]
        BY <1>1, <1>2 DEF ReadDeadline, Goto
    <2>2. local'[g] = [local[g] EXCEPT !.time = t]
        BY <1>1, <2>1
    <2>3. local'[g].header = local[g].header /\ local'[g].outcome = local[g].outcome /\ local'[g].time = t
        BY <1>1, <2>2 DEF LocalVariables
    <2>4. ASSUME Dated(g) PROVE t >= local[g].header.value
        <3>1. local[g].header \in Headers /\ local[g].failures \in Nat \ {0} /\ local[g].time \in 0 .. now
            BY <1>1, <2>1, <2>4 DEF Dated, CallInv, ReportInv, LocalVariables
        <3>2. QED
            BY <1>1, <2>4, <3>1, DeadlineIsPastDate DEF Dated
    <2> HIDE DEF t
    <2>5. QED
        BY <2>1, <2>3, <2>4 DEF DateInv, Dated, Probing, Selected, Crediting
<1>3. CASE StoreCooldown(g)
    <2>1. /\ pc[g] = "cool" /\ pc'[g] \in {"demote", "drop"} /\ local' = local
          /\ cooldownUntil' = [cooldownUntil EXCEPT ![local[g].index] = local[g].time]
        BY <1>1, <1>3 DEF StoreCooldown, Goto
    <2>2. cooldownUntil'[local[g].index] = local[g].time
        BY <1>1, <2>1 DEF PoolTypeOK, LocalVariables
    <2>3. QED
        BY <2>1, <2>2 DEF DateInv, Dated, Probing, Selected, Crediting
<1>4. CASE SwapUnhealthy(g)
    <2>1. pc[g] = "demote" /\ pc'[g] = "drop" /\ UNCHANGED <<local, cooldownUntil>>
        BY <1>1, <1>4 DEF SwapUnhealthy, Goto
    <2>2. QED
        BY <2>1 DEF DateInv, Dated, Probing, Selected, Crediting
<1>5. CASE DropClient(g)
    <2>1. pc[g] = "drop" /\ pc'[g] = "unlock" /\ UNCHANGED <<local, cooldownUntil>>
        BY <1>1, <1>5 DEF DropClient, Goto, healthVars
    <2>2. QED
        BY <2>1 DEF DateInv, Dated, Probing, Selected, Crediting
<1>6. QED
    BY <1>2, <1>3, <1>4, <1>5

DatesInv == \A g \in Goroutines : DateInv(g)

LEMMA DatesInductive ==
    /\ Init => DatesInv
    /\ StepsInv /\ DelaysFit /\ DatesFit /\ DatesInv /\ [Next]_vars => DatesInv'
<1>1. ASSUME Init, NEW g \in Goroutines PROVE DateInv(g)
    <2>1. pc[g] = "idle"
        BY <1>1 DEF Init
    <2>2. QED
        BY <2>1 DEF DateInv, Probing, Selected, Crediting
<1>2. ASSUME StepsInv, DelaysFit, DatesFit, DatesInv, [Next]_vars, NEW g \in Goroutines
      PROVE  DateInv(g)'
    <2>1. ASSUME NEW q \in Goroutines, EnterSection(q) \/ SectionStep(q) PROVE DateInv(g)'
        <3>1. CASE q # g
            BY <1>2, <2>1, <3>1, OthersWait DEF DatesInv
        <3>2. CASE q = g /\ EnterSection(g)
            BY <1>2, <3>2, EnterSectionKeepsDates
        <3>3. CASE q = g /\ SectionStep(g)
            BY <1>2, <3>3, OtherStepsKeepDates, ReportStepsKeepDates DEF DatesInv
        <3>4. QED
            BY <2>1, <3>1, <3>2, <3>3
    <2>2. CASE TimePasses \/ UNCHANGED vars
        <3>1. UNCHANGED <<pc, local, cooldownUntil>>
            BY <2>2 DEF TimePasses, Tick, vars, poolVars, healthVars
        <3>2. FailureCounts(g)' = FailureCounts(g)
            BY <3>1 DEF FailureCounts, IsNetworkError, CountsAsFailure
        <3>3. QED
            BY <1>2, <3>1, <3>2 DEF DatesInv, DateInv, Dated
    <2>3. QED
        BY <1>2, <2>1, <2>2 DEF Next
<1>3. QED
    BY <1>1, <1>2 DEF DatesInv

\* A proxy whose upstream asked to be left alone until a date is not released
\* before it, whenever and however long the clock moves between the two reads of
\* MarkFailure, as long as the delays and the dates fit into 64 bits.
THEOREM DatesWaitedOut == Spec /\ []DelaysFit /\ []DatesFit => []DatesAreWaitedOut
<1>1. DatesInv => DatesAreWaitedOut
    BY DEF DatesInv, DateInv, Dated, DatesAreWaitedOut
<1>2. QED
    BY <1>1, StepsInvInductive, DatesInductive, PTL DEF Spec
=============================================================================
