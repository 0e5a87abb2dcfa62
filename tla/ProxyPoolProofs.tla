-------------------------- MODULE ProxyPoolProofs --------------------------
(***************************************************************************)
(* First the delays of module Retry and a caller that keeps failing: what  *)
(* module MCRetry checks for a width of 8 bits, for every width, any       *)
(* delays, any number of failures, any header and any clock.  The          *)
(* reference, Doubled, is a recursive function: that it exists and doubles *)
(* is shown by tables of its values up to n.                               *)
(*                                                                         *)
(* Then the safety properties of ProxyPool, for every list of proxies,     *)
(* every set of sessions and every hash function, and without a bound on   *)
(* time or on the number of failures.  The inductive invariant is          *)
(* PoolTypeOK /\ RecordsAgree: the second part is inductive once the      *)
(* arrays have the right domains, because each method writes the three     *)
(* parts of one record in the same step.  What is said of Select then      *)
(* holds in every state of the right type.                                 *)
(***************************************************************************)
EXTENDS ProxyPool, MCRetry, WellFoundedInduction, TLAPS

-----------------------------------------------------------------------------
(* ExponentialBackoff                                                      *)

\* The shift grows with the number of failures and lies between 1 and 16.
LEMMA PowerBounds ==
    ASSUME NEW f \in Nat \ {0}
    PROVE  /\ Exponent(f) \in 0 .. MaxExponent
           /\ PowerOfTwo[Exponent(f) + 1] \in 1 .. 16
<1>1. Exponent(f) \in 0 .. MaxExponent
    BY DEF Exponent, MaxExponent
<1>2. Exponent(f) + 1 \in {1, 2, 3, 4, 5}
    BY <1>1 DEF MaxExponent
<1>3. QED
    BY <1>1, <1>2 DEF PowerOfTwo

\* After at least one failure the delay lies between the base delay and the
\* maximum, however many failures there were.
THEOREM BackoffBounds ==
    ASSUME NEW base \in Nat, NEW max \in Nat, base <= max, NEW f \in Nat \ {0}
    PROVE  ExponentialBackoff(f, base, max) \in base .. max
<1> DEFINE power == PowerOfTwo[Exponent(f) + 1]
<1>1. power \in 1 .. 16
    BY PowerBounds
<1> HIDE DEF power
<1>2. base * power \in Nat /\ base * power >= base
    BY <1>1
<1>3. ExponentialBackoff(f, base, max) = IF base * power > max THEN max ELSE base * power
    BY DEF ExponentialBackoff, power
<1>4. QED
    BY <1>2, <1>3

\* The delay never shrinks from one failure to the next: what the run of module
\* MCRetry shows for small delays, for all of them.
THEOREM BackoffMonotone ==
    ASSUME NEW base \in Nat, NEW max \in Nat, base <= max, NEW f \in Nat
    PROVE  ExponentialBackoff(f, base, max) <= ExponentialBackoff(f + 1, base, max)
<1>1. CASE f = 0
    <2>1. ExponentialBackoff(f, base, max) = 0
        BY <1>1 DEF ExponentialBackoff
    <2>2. ExponentialBackoff(f + 1, base, max) \in base .. max
        BY BackoffBounds
    <2>3. QED
        BY <2>1, <2>2
<1>2. CASE f # 0
    <2> DEFINE p == PowerOfTwo[Exponent(f) + 1]
               q == PowerOfTwo[Exponent(f + 1) + 1]
    <2>1. p \in 1 .. 16 /\ q \in 1 .. 16
        BY <1>2, PowerBounds
    <2>2. p <= q
        <3>1. CASE f > MaxExponent
            <4>1. Exponent(f) = MaxExponent /\ Exponent(f + 1) = MaxExponent
                BY <3>1 DEF Exponent, MaxExponent
            <4>2. p = q
                BY <4>1
            <4>3. QED
                BY <2>1, <4>2
        <3>2. CASE f <= MaxExponent
            <4>1. f \in {1, 2, 3, 4}
                BY <1>2, <3>2 DEF MaxExponent
            <4>2. QED
                BY <4>1 DEF Exponent, MaxExponent, PowerOfTwo
        <3>3. QED
            BY <3>1, <3>2 DEF MaxExponent
    <2>3. /\ ExponentialBackoff(f, base, max) = IF base * p > max THEN max ELSE base * p
          /\ ExponentialBackoff(f + 1, base, max) = IF base * q > max THEN max ELSE base * q
        BY <1>2 DEF ExponentialBackoff
    <2> HIDE DEF p, q
    <2>4. base * p \in Nat /\ base * q \in Nat /\ base * p <= base * q
        BY <2>1, <2>2
    <2>5. QED
        BY <2>3, <2>4
<1>3. QED
    BY <1>1, <1>2

-----------------------------------------------------------------------------
(* ParseRetryAfter                                                         *)

\* A result within the width is kept as it is.
LEMMA WrapInt64Identity ==
    ASSUME NEW x \in Int64
    PROVE  WrapInt64(x) = x
<1> DEFINE width == 2 * MaxInt64 + 2
<1>1. width \in Nat \ {0} /\ x \in Int /\ x + MaxInt64 + 1 \in 0 .. width - 1
    BY WidthAssumption DEF Int64
<1>2. (x + MaxInt64 + 1) % width = x + MaxInt64 + 1
    BY <1>1
<1>3. QED
    BY <1>1, <1>2, WidthAssumption DEF WrapInt64

\* A number of seconds that fits in a duration is taken as it stands.
LEMMA RetryAfterSeconds ==
    ASSUME NEW n \in Nat \ {0}, n * Second <= MaxInt64, NEW t \in Nat
    PROVE  ParseRetryAfter(SecondsHeader(n), t) = n * Second
<1>1. n * Second \in Nat /\ n <= n * Second
    BY SecondAssumption
<1>2. ReadsAsSeconds(SecondsHeader(n))
    BY <1>1, WidthAssumption DEF ReadsAsSeconds, SecondsHeader
<1>3. n * Second \in Int64
    BY <1>1, WidthAssumption DEF Int64
<1>4. QED
    BY <1>2, <1>3, WrapInt64Identity DEF ParseRetryAfter, SecondsHeader

-----------------------------------------------------------------------------
(* Induction                                                               *)

\* Every non-empty set of natural numbers has a least element.
LEMMA LeastNatural ==
    ASSUME NEW S, S \subseteq Nat, S # {}
    PROVE  \E k \in S : \A m \in S : k <= m
<1> DEFINE R == OpToRel(<, Nat)
<1>1. IsWellFoundedOn(R, Nat)
    BY NatLessThanWellFounded
<1>2. \A a, b \in Nat : a < b => <<a, b>> \in R
    BY DEF OpToRel
<1> HIDE DEF R
<1>3. PICK k \in S : \A m \in S : ~ (<<m, k>> \in R)
    BY <1>1, WFMin
<1>4. ASSUME NEW m \in S PROVE k <= m
    <2>1. m \in Nat /\ k \in Nat /\ ~ (<<m, k>> \in R)
        BY <1>3
    <2>2. ~ (m < k)
        BY <1>2, <2>1
    <2>3. QED
        BY <2>1, <2>2
<1>5. QED
    BY <1>4

-----------------------------------------------------------------------------
(* Doubling                                                                *)

\* g is a table of the doublings up to n.
IsTable(g, n) ==
    /\ g \in [0 .. n -> Nat]
    /\ g[0] = 1
    /\ \A i \in 1 .. n : g[i] = 2 * g[i - 1]

Table(n) == CHOOSE g : IsTable(g, n)

\* There is one for every n.
LEMMA TablesExist ==
    ASSUME NEW n \in Nat
    PROVE  IsTable(Table(n), n)
<1> DEFINE Missing == {k \in Nat : ~ \E g : IsTable(g, k)}
<1>1. Missing = {}
    <2> SUFFICES ASSUME Missing # {} PROVE FALSE
        OBVIOUS
    <2>1. PICK k \in Missing : \A m \in Missing : k <= m
        BY LeastNatural
    <2>2. CASE k = 0
        <3>1. IsTable([i \in 0 .. 0 |-> 1], 0)
            BY DEF IsTable
        <3>2. QED
            BY <2>1, <2>2, <3>1
    <2>3. CASE k # 0
        <3>1. k - 1 \in Nat /\ ~ (k <= k - 1)
            BY <2>1, <2>3
        <3>2. PICK g : IsTable(g, k - 1)
            BY <2>1, <3>1
        <3> DEFINE h == [i \in 0 .. k |-> IF i = k THEN 2 * g[k - 1] ELSE g[i]]
        <3>3. /\ g \in [0 .. k - 1 -> Nat] /\ g[0] = 1
              /\ \A i \in 1 .. k - 1 : g[i] = 2 * g[i - 1]
            BY <3>2 DEF IsTable
        <3>4. \A i \in 0 .. k : i # k => i \in 0 .. k - 1
            BY <2>1
        <3>5. h \in [0 .. k -> Nat]
            BY <3>1, <3>3, <3>4
        <3>6. h[0] = 1
            BY <2>1, <2>3, <3>3
        <3>7. \A i \in 1 .. k : h[i] = 2 * h[i - 1]
            <4> SUFFICES ASSUME NEW i \in 1 .. k PROVE h[i] = 2 * h[i - 1]
                OBVIOUS
            <4>1. i - 1 \in 0 .. k /\ i - 1 # k /\ i \in 0 .. k
                BY <2>1
            <4>2. h[i - 1] = g[i - 1]
                BY <4>1
            <4>3. CASE i = k
                BY <4>1, <4>2, <4>3
            <4>4. CASE i # k
                BY <3>3, <4>1, <4>2, <4>4
            <4>5. QED
                BY <4>3, <4>4
        <3>8. IsTable(h, k)
            BY <3>5, <3>6, <3>7 DEF IsTable
        <3>9. QED
            BY <2>1, <3>8
    <2>4. QED
        BY <2>2, <2>3
<1>2. \E g : IsTable(g, n)
    BY <1>1
<1>3. QED
    BY <1>2 DEF Table

\* Tables agree where both have a value.
LEMMA TablesAgree ==
    ASSUME NEW m \in Nat, NEW n \in Nat, m <= n, NEW i \in 0 .. m
    PROVE  Table(m)[i] = Table(n)[i]
<1> DEFINE f == Table(m)
           g == Table(n)
           Differing == {k \in 0 .. m : f[k] # g[k]}
<1>1. /\ f[0] = 1 /\ \A k \in 1 .. m : f[k] = 2 * f[k - 1]
      /\ g[0] = 1 /\ \A k \in 1 .. n : g[k] = 2 * g[k - 1]
    BY TablesExist DEF IsTable
<1> HIDE DEF f, g
<1>2. Differing = {}
    <2> SUFFICES ASSUME Differing # {} PROVE FALSE
        OBVIOUS
    <2>1. PICK k \in Differing : \A j \in Differing : k <= j
        <3>1. Differing \subseteq Nat
            OBVIOUS
        <3> HIDE DEF Differing
        <3>2. QED
            BY <3>1, LeastNatural
    <2>2. k # 0
        BY <1>1, <2>1
    <2>3. k \in 1 .. m /\ k \in 1 .. n /\ k - 1 \in 0 .. m /\ ~ (k <= k - 1)
        BY <2>1, <2>2
    <2>4. f[k - 1] = g[k - 1]
        BY <2>1, <2>3
    <2>5. QED
        BY <1>1, <2>1, <2>3, <2>4
<1>3. QED
    BY <1>2 DEF f, g

\* Doubled does what its definition says.
LEMMA DoubledDoubles ==
    /\ Doubled[0] = 1
    /\ \A n \in Nat : Doubled[n] \in Nat /\ Doubled[n + 1] = 2 * Doubled[n]
<1> DEFINE g == [n \in Nat |-> Table(n)[n]]
<1>1. \A n \in Nat : Table(n)[n] \in Nat
    BY TablesExist DEF IsTable
<1>2. ASSUME NEW n \in Nat PROVE g[n] = IF n = 0 THEN 1 ELSE 2 * g[n - 1]
    <2>1. CASE n = 0
        <3>1. Table(0)[0] = 1
            BY TablesExist DEF IsTable
        <3>2. QED
            BY <2>1, <3>1
    <2>2. CASE n # 0
        <3>1. n - 1 \in Nat /\ n - 1 <= n /\ n - 1 \in 0 .. n - 1 /\ n \in 1 .. n
            BY <2>2
        <3>2. Table(n)[n] = 2 * Table(n)[n - 1]
            BY <3>1, TablesExist DEF IsTable
        <3>3. Table(n)[n - 1] = Table(n - 1)[n - 1]
            BY <3>1, TablesAgree
        <3>4. QED
            BY <2>2, <3>1, <3>2, <3>3
    <2>3. QED
        BY <2>1, <2>2
<1>3. g = [n \in Nat |-> IF n = 0 THEN 1 ELSE 2 * g[n - 1]]
    BY <1>2
<1> HIDE DEF g
<1>4. Doubled = [n \in Nat |-> IF n = 0 THEN 1 ELSE 2 * Doubled[n - 1]]
    BY <1>3 DEF Doubled
<1>5. Doubled[0] = 1 /\ \A n \in Nat : Doubled[n + 1] = 2 * Doubled[n]
    <2>1. Doubled[0] = 1
        BY <1>4
    <2>2. ASSUME NEW n \in Nat PROVE Doubled[n + 1] = 2 * Doubled[n]
        <3>1. n + 1 \in Nat /\ n + 1 # 0 /\ (n + 1) - 1 = n
            OBVIOUS
        <3>2. QED
            BY <1>4, <3>1
    <2>3. QED
        BY <2>1, <2>2
<1>6. \A n \in Nat : Doubled[n] \in Nat
    <2> DEFINE Missing == {k \in Nat : Doubled[k] \notin Nat}
    <2> SUFFICES ASSUME Missing # {} PROVE FALSE
        OBVIOUS
    <2>1. PICK k \in Missing : \A m \in Missing : k <= m
        BY LeastNatural
    <2>2. k # 0
        BY <1>5, <2>1
    <2>3. k - 1 \in Nat /\ ~ (k <= k - 1) /\ (k - 1) + 1 = k
        BY <2>1, <2>2
    <2>4. Doubled[k - 1] \in Nat /\ Doubled[k] = 2 * Doubled[k - 1]
        BY <1>5, <2>1, <2>3
    <2>5. QED
        BY <2>1, <2>4
<1>7. QED
    BY <1>5, <1>6

\* The powers the code has in its list, and a bound on those it never reaches.
LEMMA DoubledValues ==
    /\ \A n \in 0 .. 4 : Doubled[n] = PowerOfTwo[n + 1]
    /\ \A n \in Nat : n >= 4 => Doubled[n] >= 16
<1>1. /\ Doubled[0] = 1 /\ Doubled[1] = 2 /\ Doubled[2] = 4 /\ Doubled[3] = 8 /\ Doubled[4] = 16
    <2>1. /\ Doubled[0] = 1 /\ Doubled[0 + 1] = 2 * Doubled[0] /\ Doubled[1 + 1] = 2 * Doubled[1]
          /\ Doubled[2 + 1] = 2 * Doubled[2] /\ Doubled[3 + 1] = 2 * Doubled[3]
        BY DoubledDoubles
    <2>2. QED
        BY <2>1
<1>2. \A n \in 0 .. 4 : Doubled[n] = PowerOfTwo[n + 1]
    BY <1>1 DEF PowerOfTwo
<1>3. \A n \in Nat : n >= 4 => Doubled[n] >= 16
    <2> DEFINE Small == {n \in Nat : n >= 4 /\ ~ (Doubled[n] >= 16)}
    <2> SUFFICES ASSUME Small # {} PROVE FALSE
        OBVIOUS
    <2>1. PICK n \in Small : \A m \in Small : n <= m
        BY LeastNatural
    <2>2. n # 4
        BY <1>1, <2>1
    <2>3. n - 1 \in Nat /\ n - 1 >= 4 /\ ~ (n <= n - 1) /\ (n - 1) + 1 = n
        BY <2>1, <2>2
    <2>4. Doubled[n - 1] >= 16
        BY <2>1, <2>3
    <2>5. Doubled[n - 1] \in Nat /\ Doubled[n] = 2 * Doubled[n - 1]
        BY <2>3, DoubledDoubles
    <2>6. QED
        BY <2>1, <2>4, <2>5
<1>4. QED
    BY <1>2, <1>3

-----------------------------------------------------------------------------
(* The delays                                                              *)

\* Up to the fifth failure the exponent is not limited; from then on both
\* delays are at the maximum.
LEMMA LimitLosesNothing ==
    ASSUME NEW f \in Nat \ {0}, NEW base \in Nat, NEW max \in Nat, max <= 16 * base
    PROVE  ExponentialBackoff(f, base, max)
               = IF base * Doubled[f - 1] > max THEN max ELSE base * Doubled[f - 1]
<1> DEFINE p == PowerOfTwo[Exponent(f) + 1]
           d == Doubled[f - 1]
<1> SUFFICES ExponentialBackoff(f, base, max) = IF base * d > max THEN max ELSE base * d
    OBVIOUS
<1>1. ExponentialBackoff(f, base, max) = IF base * p > max THEN max ELSE base * p
    BY DEF ExponentialBackoff
<1>2. f - 1 \in Nat /\ d \in Nat
    BY DoubledDoubles
<1>3. CASE f - 1 <= 4
    <2>1. f - 1 \in 0 .. 4 /\ Exponent(f) = f - 1
        BY <1>2, <1>3 DEF Exponent, MaxExponent
    <2>2. p = d
        BY <2>1, DoubledValues
    <2>3. QED
        BY <1>1, <2>2
<1>4. CASE f - 1 > 4
    <2>1. p = 16 /\ d >= 16
        <3>1. Exponent(f) = 4
            BY <1>4 DEF Exponent, MaxExponent
        <3>2. QED
            BY <1>2, <1>4, <3>1, DoubledValues DEF PowerOfTwo
    <2> HIDE DEF p, d
    <2>2. base * p = 16 * base
        BY <2>1
    <2>3. base * d \in Nat /\ base * d >= 16 * base
        <3>1. PICK k \in Nat : d = 16 + k
            <4>1. d - 16 \in Nat /\ d = 16 + (d - 16)
                BY <1>2, <2>1
            <4>2. QED
                BY <4>1
        <3>2. base * (16 + k) = 16 * base + base * k /\ base * k \in Nat
            OBVIOUS
        <3>3. QED
            BY <3>1, <3>2
    <2>4. QED
        BY <1>1, <2>2, <2>3
<1>5. QED
    BY <1>2, <1>3, <1>4

\* A header and a clock.
LEMMA HeaderIsObeyed ==
    ASSUME callerHeader \in CallerHeaders, callerClock \in Nat
    PROVE  RetryAfterIsObeyed
<1>1. CASE callerHeader = AbsentHeader \/ callerHeader = UnreadableHeader
    <2>1. callerHeader.form \notin {"seconds", "date"}
        BY <1>1 DEF AbsentHeader, UnreadableHeader
    <2>2. ParseRetryAfter(callerHeader, callerClock) = 0
        BY <2>1 DEF ParseRetryAfter, ReadsAsSeconds, ReadsAsFutureDate
    <2>3. QED
        BY <2>1, <2>2 DEF RetryAfterIsObeyed
<1>2. ASSUME NEW n \in Int, callerHeader = SecondsHeader(n) PROVE RetryAfterIsObeyed
    <2>1. callerHeader.form = "seconds" /\ callerHeader.value = n
        BY <1>2 DEF SecondsHeader
    <2>2. CASE n > 0
        <3>1. n * Second <= MaxInt64 => ParseRetryAfter(callerHeader, callerClock) = n * Second
            BY <1>2, <2>2, RetryAfterSeconds
        <3>2. QED
            BY <2>1, <2>2, <3>1 DEF RetryAfterIsObeyed
    <2>3. CASE ~ (n > 0)
        <3>1. ParseRetryAfter(callerHeader, callerClock) = 0
            BY <2>1, <2>3 DEF ParseRetryAfter, ReadsAsSeconds, ReadsAsFutureDate
        <3>2. QED
            BY <2>1, <2>3, <3>1 DEF RetryAfterIsObeyed
    <2>4. QED
        BY <2>2, <2>3
<1>3. ASSUME NEW t \in Int, callerHeader = DateHeader(t) PROVE RetryAfterIsObeyed
    <2>1. callerHeader.form = "date" /\ callerHeader.value = t
        BY <1>3 DEF DateHeader
    <2>2. ParseRetryAfter(callerHeader, callerClock)
              = IF t > callerClock THEN IF t - callerClock <= MaxInt64 THEN t - callerClock ELSE MaxInt64 ELSE 0
        BY <2>1 DEF ParseRetryAfter, ReadsAsSeconds, ReadsAsFutureDate
    <2>3. callerClock \in Int /\ MaxInt64 \in Int
        BY WidthAssumption
    <2>4. QED
        BY <2>1, <2>2, <2>3 DEF RetryAfterIsObeyed
<1>4. QED
    <2>1. \/ callerHeader = AbsentHeader \/ callerHeader = UnreadableHeader
          \/ \E n \in Int : callerHeader = SecondsHeader(n)
          \/ \E t \in Int : callerHeader = DateHeader(t)
        BY CallerAssumption DEF CallerHeaders
    <2>2. QED
        BY <1>1, <1>2, <1>3, <2>1

-----------------------------------------------------------------------------
(* The caller                                                              *)

CallerInv ==
    /\ callerFailures \in Nat /\ callerBase \in Nat /\ callerMax \in Nat /\ callerBase <= callerMax
    /\ callerHeader \in CallerHeaders /\ callerClock \in Nat

\* The delays of a caller stay in order.
LEMMA CallerInvInductive ==
    /\ CallerInit => CallerInv
    /\ CallerInv /\ [CallerNext]_callerVars => CallerInv'
<1>1. CallerInit => CallerInv
    BY CallerAssumption DEF CallerInit, CallerInv, CallerHeaders
<1>2. CallerInv /\ [CallerNext]_callerVars => CallerInv'
    <2> SUFFICES ASSUME CallerInv, [CallerNext]_callerVars PROVE CallerInv'
        OBVIOUS
    <2>1. CASE CallerFails
        BY <2>1 DEF CallerFails, CallerInv, CallerHeaders
    <2>2. CASE CallerIsAnswered
        BY <2>2 DEF CallerIsAnswered, CallerInv, CallerHeaders
    <2>3. CASE CallerWaits
        BY <2>3 DEF CallerWaits, CallerInv, CallerHeaders
    <2>4. CASE UNCHANGED callerVars
        BY <2>4 DEF callerVars, CallerInv, CallerHeaders
    <2>5. QED
        BY <2>1, <2>2, <2>3, <2>4 DEF CallerNext
<1>3. QED
    BY <1>1, <1>2

\* The limit on the exponent loses nothing where the maximum is within sixteen
\* base delays, for any number of failures: the stated delay is returned.
THEOREM CallerBackoffAsStated == CallerSpec => []BackoffAsStated
<1>1. CallerInv => BackoffAsStated
    <2> SUFFICES ASSUME CallerInv, callerMax <= 16 * callerBase
                 PROVE  ExponentialBackoff(callerFailures, callerBase, callerMax) = StatedBackoff
        BY DEF BackoffAsStated
    <2>1. CASE callerFailures = 0
        BY <2>1 DEF ExponentialBackoff, StatedBackoff
    <2>2. CASE callerFailures # 0
        BY <2>2, LimitLosesNothing DEF CallerInv, StatedBackoff
    <2>3. QED
        BY <2>1, <2>2
<1>2. QED
    BY <1>1, CallerInvInductive, PTL DEF CallerSpec

\* Every header of every caller is obeyed, at every time of its clock.
THEOREM CallerRetryAfterIsObeyed == CallerSpec => []RetryAfterIsObeyed
<1>1. CallerInv => RetryAfterIsObeyed
    BY HeaderIsObeyed DEF CallerInv
<1>2. QED
    BY <1>1, CallerInvInductive, PTL DEF CallerSpec

\* No step of any caller shortens the delay by a failure.
THEOREM CallerBackoffNeverShrinks == CallerSpec => BackoffNeverShrinks
<1> DEFINE Longer == callerFailures' > callerFailures
                         => ExponentialBackoff(callerFailures', callerBase, callerMax)
                                >= ExponentialBackoff(callerFailures, callerBase, callerMax)
<1>1. ASSUME CallerInv, CallerInv', CallerNext PROVE Longer
    <2>1. CASE callerFailures' = callerFailures + 1
        <3>1. ExponentialBackoff(callerFailures, callerBase, callerMax)
                  <= ExponentialBackoff(callerFailures + 1, callerBase, callerMax)
            BY <1>1, BackoffMonotone DEF CallerInv
        <3>2. QED
            BY <2>1, <3>1
    <2>2. CASE callerFailures' = callerFailures
        BY <1>1, <2>2 DEF CallerInv
    <2>3. QED
        BY <1>1, <2>1, <2>2 DEF CallerNext, CallerFails, CallerIsAnswered, CallerWaits
<1>2. CallerInv /\ CallerInv' /\ [CallerNext]_callerVars => [Longer]_callerVars
    BY <1>1
<1>3. QED
    BY <1>2, CallerInvInductive, PTL DEF CallerSpec, BackoffNeverShrinks

-----------------------------------------------------------------------------
(* Delays of the pool                                                      *)

\* Whatever the exact result, a register holds a value of its width.
LEMMA WrapInt64Type ==
    ASSUME NEW x \in Int
    PROVE  WrapInt64(x) \in Int64
<1> DEFINE width == 2 * MaxInt64 + 2
<1>1. width \in Nat \ {0}
    BY WidthAssumption
<1>2. (x + MaxInt64 + 1) % width \in 0 .. width - 1
    BY <1>1, WidthAssumption
<1>3. QED
    BY <1>2, WidthAssumption DEF WrapInt64, Int64

\* The delay read from a header is a duration of the width, whatever the number
\* or the date in the header.
LEMMA RetryAfterType ==
    ASSUME NEW header, header.value \in Int, NEW t \in Nat
    PROVE  ParseRetryAfter(header, t) \in Int64
<1>1. CASE ReadsAsSeconds(header)
    <2>1. header.value * Second \in Int
        BY SecondAssumption
    <2>2. QED
        BY <1>1, <2>1, WrapInt64Type DEF ParseRetryAfter
<1>2. CASE ~ReadsAsSeconds(header)
    BY <1>2, WidthAssumption DEF ParseRetryAfter, ReadsAsFutureDate, Int64
<1>3. QED
    BY <1>1, <1>2

-----------------------------------------------------------------------------
(* Lemmas about the operators                                              *)

\* The ring arithmetic stays within the list.
LEMMA RingPositions ==
    /\ 0 \in Indices
    /\ \A x \in Nat : x % N \in Indices
    /\ \A i \in Indices : i % N = i
BY PoolAssumption DEF Indices

LEMMA PreferredType ==
    ASSUME NEW s \in Sessions
    PROVE  Preferred(s) \in Indices
<1>1. Hash[s] \in Nat
    BY PoolAssumption
<1>2. QED
    BY <1>1, RingPositions DEF Preferred

LEMMA ProbeType ==
    ASSUME NEW i \in Indices, NEW k \in Indices
    PROVE  Probe(i, k) \in Indices /\ Probe(i, 0) = i
<1>1. i + k \in Nat /\ i + 0 = i
    BY DEF Indices
<1>2. QED
    BY <1>1, RingPositions DEF Probe

\* IndexOf finds a position that holds the URL.
LEMMA IndexOfType ==
    ASSUME NEW url \in URLs
    PROVE  IndexOf(url) \in Indices /\ URL[IndexOf(url)] = url
<1> DEFINE hits == {i \in Indices : URL[i] = url}
<1>1. hits \subseteq Nat /\ hits # {}
    BY DEF URLs, Indices
<1>2. PICK i \in hits : \A m \in hits : i <= m
    BY <1>1, LeastNatural
<1>3. i \in Indices /\ URL[i] = url /\ \A j \in Indices : URL[j] = url => i <= j
    BY <1>2
<1>4. QED
    BY <1>3 DEF IndexOf

\* The number of the probe at which the ring scan stops.
LEMMA FirstHit ==
    ASSUME NEW hits \in SUBSET Indices, hits # {}
    PROVE  LET k == CHOOSE j \in hits : \A m \in hits : j <= m
           IN  k \in hits /\ \A m \in hits : k <= m
<1>1. hits \subseteq Nat
    BY DEF Indices
<1>2. \E j \in hits : \A m \in hits : j <= m
    BY <1>1, LeastNatural
<1>3. QED
    BY <1>2

\* Select returns a proxy of the list, an available one if there is one.
LEMMA SelectIsAvailable ==
    ASSUME NEW s \in Sessions
    PROVE  /\ Select(s) \in Indices
           /\ (\E k \in Indices : Available(Probe(Preferred(s), k))) => Available(Select(s))
<1> DEFINE p == Preferred(s)
           hits == {k \in Indices : Available(Probe(p, k))}
           first == CHOOSE k \in hits : \A m \in hits : k <= m
<1>1. p \in Indices
    BY PreferredType
<1>2. Select(s) = IF hits = {} THEN p ELSE Probe(p, first)
    BY DEF Select
<1>3. CASE hits = {}
    BY <1>1, <1>2, <1>3
<1>4. CASE hits # {}
    <2>1. first \in hits
        BY <1>4, FirstHit
    <2>2. first \in Indices /\ Available(Probe(p, first))
        BY <2>1
    <2> HIDE DEF first, hits
    <2>3. Probe(p, first) \in Indices
        BY <1>1, <2>2, ProbeType
    <2>4. QED
        BY <1>2, <1>4, <2>2, <2>3
<1>5. QED
    BY <1>3, <1>4

\* The scan reaches every position of the ring: i is met at the probe whose
\* number is the distance of i from the start.
LEMMA ScanReaches ==
    ASSUME NEW p \in Indices, NEW i \in Indices
    PROVE  \E k \in Indices : Probe(p, k) = i
<1>1. CASE p <= i
    <2>1. i - p \in Indices /\ p + (i - p) = i
        BY <1>1, PoolAssumption DEF Indices
    <2>2. Probe(p, i - p) = i
        BY <2>1, RingPositions DEF Probe
    <2>3. QED
        BY <2>1, <2>2
<1>2. CASE i < p
    <2>1. i + N - p \in Indices /\ p + (i + N - p) = i + N
        BY <1>2, PoolAssumption DEF Indices
    <2>2. (i + N) % N = i
        BY PoolAssumption DEF Indices
    <2>3. Probe(p, i + N - p) = i
        BY <2>1, <2>2 DEF Probe
    <2>4. QED
        BY <2>1, <2>3
<1>3. QED
    BY <1>1, <1>2 DEF Indices

-----------------------------------------------------------------------------
(* What holds of Select in every state                                     *)

\* Isolation holds in every state: Select never sends a session to an
\* unavailable proxy while another one is available.
LEMMA SelectIsolates == IsolationHolds
<1> SUFFICES ASSUME NEW s \in Sessions, NEW i \in Indices, Available(i)
             PROVE  Available(Select(s))
    BY DEF IsolationHolds
<1>1. PICK k \in Indices : Probe(Preferred(s), k) = i
    BY PreferredType, ScanReaches
<1>2. QED
    BY <1>1, SelectIsAvailable

\* A session is served by its preferred proxy whenever that is available.
LEMMA SelectPrefers ==
    ASSUME NEW s \in Sessions, Available(Preferred(s))
    PROVE  Select(s) = Preferred(s)
<1> DEFINE p == Preferred(s)
           hits == {k \in Indices : Available(Probe(p, k))}
           first == CHOOSE k \in hits : \A m \in hits : k <= m
<1>1. p \in Indices /\ Probe(p, 0) = p /\ 0 \in Indices
    BY PreferredType, ProbeType, RingPositions
<1>2. 0 \in hits
    BY <1>1
<1>3. first \in hits /\ first <= 0
    BY <1>2, FirstHit
<1>4. first = 0
    <2>1. first \in Indices
        BY <1>3
    <2> HIDE DEF first
    <2>2. QED
        BY <1>3, <2>1 DEF Indices
<1>5. Select(s) = Probe(p, first)
    BY <1>2 DEF Select
<1>6. QED
    BY <1>1, <1>4, <1>5

\* The k-th probe of the scan is k positions away from its start.
LEMMA ProbeDistance ==
    ASSUME NEW s \in Sessions, NEW k \in Indices
    PROVE  Distance(s, Probe(Preferred(s), k)) = k
<1> DEFINE p == Preferred(s)
<1>1. p \in Indices
    BY PreferredType
<1> HIDE DEF p
<1>2. CASE p + k < N
    <2>1. (p + k) % N = p + k
        BY <1>1, <1>2, PoolAssumption DEF Indices
    <2>2. (p + k + N - p) % N = k
        BY <1>1, PoolAssumption DEF Indices
    <2>3. QED
        BY <2>1, <2>2 DEF Distance, Probe, p
<1>3. CASE p + k >= N
    <2>1. (p + k) % N = p + k - N
        BY <1>1, <1>3, PoolAssumption DEF Indices
    <2>2. ((p + k - N) + N - p) % N = k
        BY <1>1, PoolAssumption DEF Indices
    <2>3. QED
        BY <2>1, <2>2 DEF Distance, Probe, p
<1>4. QED
    BY <1>1, <1>2, <1>3, PoolAssumption DEF Indices

\* Of the available proxies Select returns the one the scan meets first.
LEMMA SelectIsNearest ==
    ASSUME NEW s \in Sessions, NEW i \in Indices, Available(i), i # Select(s)
    PROVE  Distance(s, Select(s)) < Distance(s, i)
<1> DEFINE p == Preferred(s)
           hits == {k \in Indices : Available(Probe(p, k))}
           first == CHOOSE k \in hits : \A m \in hits : k <= m
<1>1. PICK d \in Indices : Probe(p, d) = i
    BY PreferredType, ScanReaches
<1>2. d \in hits
    BY <1>1
<1>3. first \in hits /\ first <= d
    BY <1>2, FirstHit
<1>4. Select(s) = Probe(p, first)
    BY <1>2 DEF Select
<1>5. first \in Indices
    BY <1>3
<1> HIDE DEF first, hits, p
<1>6. first # d
    BY <1>1, <1>4
<1>7. first < d
    BY <1>3, <1>5, <1>6 DEF Indices
<1>8. QED
    BY <1>1, <1>4, <1>5, <1>7, ProbeDistance DEF p

-----------------------------------------------------------------------------
(* The inductive invariant                                                 *)

PoolInv == PoolTypeOK /\ RecordsAgree

\* The delay a failure is given fits in a duration.
LEMMA BackoffType ==
    ASSUME NEW f \in Nat \ {0}, NEW header, header.value \in Int, NEW seen \in Nat
    PROVE  Backoff(f, header, seen) \in Int
<1>1. ExponentialBackoff(f, BaseDelay, MaxDelay) \in BaseDelay .. MaxDelay
    BY DelayAssumption, BackoffBounds
<1>2. ParseRetryAfter(header, seen) \in Int64
    BY RetryAfterType
<1>3. QED
    BY <1>1, <1>2, DelayAssumption, WidthAssumption DEF Backoff, Int64

\* A recorded failure keeps the invariant: the count, the deadline and the
\* health flag of one record change together.
LEMMA RecordFailureKeepsInv ==
    ASSUME PoolInv, NEW i \in Indices, NEW header, header.value \in Int, NEW seen \in Nat,
           RecordFailure(i, header, seen), UNCHANGED <<current, now>>
    PROVE  PoolInv'
<1> DEFINE f == failureCounts[i] + 1
           deadline == WrapInt64(now + Backoff(f, header, seen))
<1>1. f \in Nat \ {0}
    BY DEF PoolInv, PoolTypeOK
<1>2. now \in Nat /\ Backoff(f, header, seen) \in Int
    BY <1>1, BackoffType DEF PoolInv, PoolTypeOK
<1>3. deadline \in Int64
    BY <1>2, WrapInt64Type
<1>4. /\ failureCounts' = [failureCounts EXCEPT ![i] = f]
      /\ cooldownUntil' = [cooldownUntil EXCEPT ![i] = deadline]
      /\ healthy' = [healthy EXCEPT ![i] = healthy[i] /\ f < UnhealthyAfter]
      /\ clientCache' = [clientCache EXCEPT ![i] = FALSE]
    BY DEF RecordFailure
<1> HIDE DEF deadline
<1>5. PoolTypeOK'
    BY <1>1, <1>3, <1>4 DEF PoolInv, PoolTypeOK
<1>6. RecordsAgree'
    <2> SUFFICES ASSUME NEW j \in Indices
                 PROVE  /\ healthy'[j] <=> failureCounts'[j] < UnhealthyAfter
                        /\ failureCounts'[j] = 0 => cooldownUntil'[j] = 0
        BY DEF RecordsAgree
    <2>1. CASE j = i
        <3>1. failureCounts'[i] = f /\ (healthy'[i] <=> healthy[i] /\ f < UnhealthyAfter)
            BY <1>4 DEF PoolInv, PoolTypeOK
        <3>2. f < UnhealthyAfter => failureCounts[i] < UnhealthyAfter
            BY DEF PoolInv, PoolTypeOK, UnhealthyAfter
        <3>3. failureCounts[i] < UnhealthyAfter => healthy[i]
            BY DEF PoolInv, RecordsAgree
        <3>4. f # 0
            BY <1>1
        <3>5. QED
            BY <2>1, <3>1, <3>2, <3>3, <3>4
    <2>2. CASE j # i
        BY <1>4, <2>2 DEF PoolInv, PoolTypeOK, RecordsAgree
    <2>3. QED
        BY <2>1, <2>2
<1>7. QED
    BY <1>5, <1>6 DEF PoolInv

LEMMA MarkFailureKeepsInv ==
    ASSUME PoolInv, NEW url \in URLs, NEW status, NEW isNetworkError, NEW header,
           header.value \in Int, NEW seen \in Nat,
           MarkFailure(url, status, isNetworkError, header, seen)
    PROVE  PoolInv'
<1>1. IndexOf(url) \in Indices
    BY IndexOfType
<1>2. CASE CountsAsFailure(status, isNetworkError)
    BY <1>1, <1>2, RecordFailureKeepsInv DEF MarkFailure
<1>3. CASE ~CountsAsFailure(status, isNetworkError)
    BY <1>3 DEF MarkFailure, PoolInv, PoolTypeOK, RecordsAgree, healthVars
<1>4. QED
    BY <1>2, <1>3

LEMMA MarkSuccessKeepsInv ==
    ASSUME PoolInv, NEW url \in URLs, MarkSuccess(url)
    PROVE  PoolInv'
<1>1. IndexOf(url) \in Indices
    BY IndexOfType
<1>2. PoolTypeOK'
    BY <1>1, WidthAssumption DEF MarkSuccess, PoolInv, PoolTypeOK, Int64
<1>3. RecordsAgree'
    <2> SUFFICES ASSUME NEW j \in Indices
                 PROVE  /\ healthy'[j] <=> failureCounts'[j] < UnhealthyAfter
                        /\ failureCounts'[j] = 0 => cooldownUntil'[j] = 0
        BY DEF RecordsAgree
    <2>1. CASE j = IndexOf(url)
        BY <1>1, <2>1 DEF MarkSuccess, PoolInv, PoolTypeOK, UnhealthyAfter
    <2>2. CASE j # IndexOf(url)
        BY <1>1, <2>2 DEF MarkSuccess, PoolInv, PoolTypeOK, RecordsAgree
    <2>3. QED
        BY <2>1, <2>2
<1>4. QED
    BY <1>2, <1>3 DEF PoolInv

\* The invariant holds initially and every step keeps it.
LEMMA PoolInvInductive ==
    /\ PoolInit => PoolInv
    /\ PoolInv /\ [PoolNext]_poolVars => PoolInv'
<1>1. PoolInit => PoolInv
    BY PoolAssumption, WidthAssumption
       DEF PoolInit, PoolInv, PoolTypeOK, RecordsAgree, UnhealthyAfter, Indices, Int64
<1>2. ASSUME PoolInv, [PoolNext]_poolVars PROVE PoolInv'
    <2>1. CASE Serve
        <3>1. PICK s \in Sessions : ClientForSession(s)
            BY <2>1 DEF Serve
        <3>2. Select(s) \in Indices
            BY SelectIsAvailable
        <3>3. Buildable(Select(s)) \in BOOLEAN
            BY DEF Buildable
        <3>4. clientCache' \in [Indices -> BOOLEAN]
            BY <1>2, <3>1, <3>2, <3>3 DEF ClientForSession, PoolInv, PoolTypeOK
        <3>5. QED
            BY <1>2, <3>1, <3>4
               DEF ClientForSession, PoolInv, PoolTypeOK, RecordsAgree, healthVars
    <2>2. CASE Report
        <3>1. CASE \E url \in URLs : ReportNetworkError(url)
            <4>1. AbsentHeader.value \in Int /\ now \in Nat
                BY <1>2 DEF AbsentHeader, PoolInv, PoolTypeOK
            <4>2. QED
                BY <1>2, <3>1, <4>1, MarkFailureKeepsInv DEF ReportNetworkError
        <3>2. CASE \E url \in URLs, status \in {s \in Statuses : s >= 400}, header \in Headers :
                      ReportErrorStatus(url, status, header)
            <4>1. PICK url \in URLs, status \in {s \in Statuses : s >= 400}, header \in Headers,
                       seen \in 0 .. now : MarkFailure(url, status, FALSE, header, seen)
                BY <3>2 DEF ReportErrorStatus
            <4>2. header.value \in Int /\ seen \in Nat
                BY ResponseAssumption
            <4>3. QED
                BY <1>2, <4>1, <4>2, MarkFailureKeepsInv
        <3>3. QED
            BY <2>2, <3>1, <3>2 DEF Report
    <2>3. CASE Recover
        BY <1>2, <2>3, MarkSuccessKeepsInv DEF Recover
    <2>4. CASE Rotate
        <3>1. (current + 1) % N \in Indices
            BY <1>2, RingPositions DEF PoolInv, PoolTypeOK, Indices
        <3>2. QED
            BY <1>2, <2>4, <3>1 DEF Rotate, PoolInv, PoolTypeOK, RecordsAgree, healthVars
    <2>5. CASE Tick
        BY <1>2, <2>5 DEF Tick, PoolInv, PoolTypeOK, RecordsAgree, healthVars
    <2>6. CASE UNCHANGED poolVars
        BY <1>2, <2>6 DEF poolVars, healthVars, PoolInv, PoolTypeOK, RecordsAgree
    <2>7. QED
        BY <1>2, <2>1, <2>2, <2>3, <2>4, <2>5, <2>6 DEF PoolNext
<1>3. QED
    BY <1>1, <1>2

-----------------------------------------------------------------------------
(* The theorems                                                            *)

\* Every variable of the pool keeps its type; in particular the deadlines are
\* 64-bit numbers whatever the upstream puts in a Retry-After header.
THEOREM PoolTypeCorrect == PoolSpec => []PoolTypeOK
<1>1. PoolInv => PoolTypeOK
    BY DEF PoolInv
<1>2. QED
    BY <1>1, PoolInvInductive, PTL DEF PoolSpec

\* A proxy is marked unhealthy exactly from its third consecutive failure on.
THEOREM PoolRecordsAgree == PoolSpec => []RecordsAgree
<1>1. PoolInv => RecordsAgree
    BY DEF PoolInv
<1>2. QED
    BY <1>1, PoolInvInductive, PTL DEF PoolSpec

\* A session stays on the proxy it hashes to while that has no failure on
\* record: a clean record implies a healthy proxy without a cool-down.
THEOREM PoolAffinity == PoolSpec => []AffinityUntilFailure
<1>1. PoolInv => AffinityUntilFailure
    <2> SUFFICES ASSUME PoolInv, NEW s \in Sessions, failureCounts[Preferred(s)] = 0
                 PROVE  Select(s) = Preferred(s)
        BY DEF AffinityUntilFailure
    <2>1. Preferred(s) \in Indices
        BY PreferredType
    <2>2. healthy[Preferred(s)] /\ cooldownUntil[Preferred(s)] = 0
        BY <2>1 DEF PoolInv, RecordsAgree, UnhealthyAfter
    <2>3. Available(Preferred(s))
        BY <2>2 DEF Available, PoolInv, PoolTypeOK
    <2>4. QED
        BY <2>3, SelectPrefers
<1>2. QED
    BY <1>1, PoolInvInductive, PTL DEF PoolSpec

\* No session is sent to an unavailable proxy while another one is available.
THEOREM PoolIsolation == PoolSpec => []IsolationHolds
<1>1. IsolationHolds
    BY SelectIsolates
<1>2. QED
    BY <1>1, PTL

\* No step, whatever it does to the records, sends a session from a proxy that
\* stays available to one further along the ring: the new choice is the first
\* hit of a scan that would have met the old one.
THEOREM PoolSessionsDoNotWander == PoolSpec => SessionsDoNotWander
<1> DEFINE Nearest == \A s \in Sessions, i \in Indices :
                Available(i) /\ i # Select(s) => Distance(s, Select(s)) < Distance(s, i)
<1>1. Nearest
    BY SelectIsNearest
<1>2. Nearest'
    BY <1>1, PTL
<1>3. \A s \in Sessions, i \in Indices :
          i = Select(s) /\ i # Select(s)' /\ Available(i)'
              => Distance(s, Select(s)') < Distance(s, i)
    BY <1>2 DEF Distance, Preferred
<1>4. QED
    BY <1>3, PTL DEF SessionsDoNotWander

\* Every delay the pool might start now ends within the width of the clock
\* (until the year 2262 for the backoff; a Retry-After header may ask for more),
\* whenever before now the header was compared with the clock.
DelaysFit ==
    /\ now + MaxDelay <= MaxInt64
    /\ \A header \in Headers \cup {AbsentHeader}, seen \in 0 .. now :
          now + ParseRetryAfter(header, seen) <= MaxInt64

\* The deadline of a failure is not wrapped then, and covers the backoff.
LEMMA RecordedDeadline ==
    ASSUME PoolInv, DelaysFit, NEW i \in Indices, NEW header \in Headers \cup {AbsentHeader},
           NEW seen \in 0 .. now, RecordFailure(i, header, seen)
    PROVE  /\ \A j \in Indices : failureCounts'[j] > failureCounts[j] => j = i
           /\ cooldownUntil'[i] >= now + ExponentialBackoff(failureCounts'[i], BaseDelay, MaxDelay)
<1> DEFINE f == failureCounts[i] + 1
           backoff == ExponentialBackoff(f, BaseDelay, MaxDelay)
           retryAfter == ParseRetryAfter(header, seen)
<1>1. f \in Nat \ {0} /\ now \in Nat /\ seen \in Nat
    BY DEF PoolInv, PoolTypeOK
<1>2. header.value \in Int
    BY ResponseAssumption DEF AbsentHeader
<1>3. backoff \in BaseDelay .. MaxDelay
    BY <1>1, DelayAssumption, BackoffBounds
<1>4. retryAfter \in Int
    BY <1>1, <1>2, RetryAfterType, WidthAssumption DEF Int64
<1>5. now + retryAfter <= MaxInt64 /\ now + MaxDelay <= MaxInt64
    BY DEF DelaysFit
<1>6. Backoff(f, header, seen) = IF retryAfter > backoff THEN retryAfter ELSE backoff
    BY DEF Backoff
<1>7. /\ failureCounts' = [failureCounts EXCEPT ![i] = f]
      /\ cooldownUntil' = [cooldownUntil EXCEPT ![i] = WrapInt64(now + Backoff(f, header, seen))]
    BY DEF RecordFailure
<1> HIDE DEF f, backoff, retryAfter
<1>8. now + Backoff(f, header, seen) \in Int64 /\ Backoff(f, header, seen) >= backoff
    BY <1>1, <1>3, <1>4, <1>5, <1>6, DelayAssumption, WidthAssumption DEF Int64
<1>9. WrapInt64(now + Backoff(f, header, seen)) = now + Backoff(f, header, seen)
    BY <1>8, WrapInt64Identity
<1>10. now + Backoff(f, header, seen) >= now + backoff
    BY <1>1, <1>3, <1>4, <1>6, DelayAssumption
<1>11. failureCounts'[i] = f /\ cooldownUntil'[i] = now + Backoff(f, header, seen)
    BY <1>7, <1>9 DEF PoolInv, PoolTypeOK
<1>12. ASSUME NEW j \in Indices, j # i PROVE failureCounts'[j] = failureCounts[j] /\ failureCounts[j] \in Nat
    BY <1>7, <1>12 DEF PoolInv, PoolTypeOK
<1>13. QED
    BY <1>10, <1>11, <1>12 DEF backoff

\* As long as no delay overflows the clock, a recorded failure keeps the proxy
\* out for the exponential backoff of its count at least, whatever Retry-After
\* says.
THEOREM PoolCooldown == PoolSpec /\ []DelaysFit => CooldownCoversBackoff
<1> DEFINE Covers ==
        \A i \in Indices :
            failureCounts'[i] > failureCounts[i]
                => cooldownUntil'[i] >= now + ExponentialBackoff(failureCounts'[i], BaseDelay, MaxDelay)
<1>1. ASSUME PoolInv, DelaysFit, [PoolNext]_poolVars PROVE Covers
    <2>1. ASSUME NEW url \in URLs, NEW status, NEW isNetworkError,
                 NEW header \in Headers \cup {AbsentHeader}, NEW seen \in 0 .. now,
                 MarkFailure(url, status, isNetworkError, header, seen)
          PROVE  Covers
        <3>1. CASE CountsAsFailure(status, isNetworkError)
            <4>1. RecordFailure(IndexOf(url), header, seen) /\ IndexOf(url) \in Indices
                BY <2>1, <3>1, IndexOfType DEF MarkFailure
            <4>2. QED
                BY <1>1, <4>1, RecordedDeadline
        <3>2. CASE ~CountsAsFailure(status, isNetworkError)
            BY <1>1, <2>1, <3>2 DEF MarkFailure, healthVars, PoolInv, PoolTypeOK
        <3>3. QED
            BY <3>1, <3>2
    <2>2. CASE Report
        <3>1. now \in 0 .. now
            BY <1>1 DEF PoolInv, PoolTypeOK
        <3>2. QED
            BY <2>1, <2>2, <3>1 DEF Report, ReportNetworkError, ReportErrorStatus
    <2>3. CASE Recover
        <3>1. PICK url \in URLs : MarkSuccess(url)
            BY <2>3 DEF Recover
        <3>2. failureCounts' = [failureCounts EXCEPT ![IndexOf(url)] = 0]
            BY <3>1 DEF MarkSuccess
        <3>3. \A i \in Indices : failureCounts[i] \in Nat /\ ~ (failureCounts'[i] > failureCounts[i])
            BY <1>1, <3>2 DEF PoolInv, PoolTypeOK
        <3>4. QED
            BY <3>3
    <2>4. CASE Serve \/ Rotate \/ Tick \/ UNCHANGED poolVars
        BY <1>1, <2>4
           DEF Serve, ClientForSession, Rotate, Tick, poolVars, healthVars, PoolInv, PoolTypeOK
    <2>5. QED
        BY <1>1, <2>2, <2>3, <2>4 DEF PoolNext
<1>2. PoolInv /\ DelaysFit /\ [PoolNext]_poolVars => [Covers]_poolVars
    BY <1>1
<1>3. QED
    BY <1>2, PoolInvInductive, PTL DEF PoolSpec, CooldownCoversBackoff
=============================================================================
