--------------------------- MODULE GatewayProofs ---------------------------
(***************************************************************************)
(* Theorems about Gateway for any number of requests, attempts, proxies    *)
(* and sessions, and any threshold.                                        *)
(*                                                                         *)
(* Two results carry the rest.  The handler uses the pool only through the *)
(* methods of ProxyPool, so a behaviour of the gateway is a behaviour of   *)
(* the pool (GatewayImplementsPool), and every theorem about the pool is   *)
(* one about the gateway.  And the counter of consecutive 429s never       *)
(* stands at or above the threshold without a request that is about to act *)
(* on it (GatewayCrossingsArePending), although the counter is read, reset *)
(* and compared outside every lock.                                        *)
(***************************************************************************)
EXTENDS Gateway, ProxyPoolProofs, FiniteSetTheorems

-----------------------------------------------------------------------------
(* Types                                                                   *)

\* What the handler knows of the response it works on.
ResponseKnown ==
    \A r \in Requests :
        /\ pc[r] \in {"reading", "error", "ok", "credit", "count", "acting", "write"}
                     \cup RateLimitSection
              => response[r].status \in Statuses /\ response[r].header \in Headers
        /\ pc[r] = "error" => response[r].status >= 400
        /\ pc[r] \in {"ok", "credit"} => response[r].status < 400
        /\ pc[r] \in {"new", "select", "sent", "failed", "pause"} => response[r].status = 0

\* The number of attempts counted at each place of the retry loop.
AttemptsInBounds ==
    \A r \in Requests :
        /\ pc[r] \in {"new", "select", "pause"} => attempt[r] < MaxAttempts
        /\ attempt[r] <= MaxAttempts

RequestTypeOK ==
    /\ pc \in [Requests -> Places]
    /\ attempt \in [Requests -> Nat]
    /\ response \in [Requests -> [status : Statuses \cup {0}, header : Headers \cup {AbsentHeader}]]
    /\ count \in [Requests -> Nat]
    /\ gone \in [Requests -> BOOLEAN]
    /\ answer \in [Requests -> Statuses \cup {NoAnswer, InternalServerError, BadGateway}]
    /\ rateLimitCount \in Nat

RequestInv == RequestTypeOK /\ AttemptsInBounds /\ ResponseKnown

\* The bookkeeping of the handler is kept by every step.
LEMMA RequestInvInductive ==
    /\ Init => RequestInv
    /\ RequestInv /\ [Next]_vars => RequestInv'
<1> USE GatewayAssumption DEF Places, RateLimitSection
<1>1. Init => RequestInv
    BY DEF Init, RequestInv, RequestTypeOK, AttemptsInBounds, ResponseKnown, NoResponse
<1>2. ASSUME RequestInv, [Next]_vars PROVE RequestInv'
    <2> USE <1>2 DEF RequestInv, RequestTypeOK, AttemptsInBounds, ResponseKnown, Goto, Return
    <2>1. ASSUME NEW r \in Requests, Admit(r) PROVE RequestInv'
        BY <2>1 DEF Admit
    <2>2. ASSUME NEW r \in Requests, Attempt(r) PROVE RequestInv'
        BY <2>2 DEF Attempt
    <2>3. ASSUME NEW r \in Requests, AttemptUnbuildable(r) PROVE RequestInv'
        BY <2>3 DEF AttemptUnbuildable
    <2>4. ASSUME NEW r \in Requests, Respond(r) PROVE RequestInv'
        BY <2>4 DEF Respond
    <2>5. ASSUME NEW r \in Requests, SendFails(r) PROVE RequestInv'
        BY <2>5 DEF SendFails
    <2>6. ASSUME NEW r \in Requests, ChargeError(r) PROVE RequestInv'
        BY <2>6 DEF ChargeError
    <2>7. ASSUME NEW r \in Requests, GiveUp(r) PROVE RequestInv'
        BY <2>7 DEF GiveUp
    <2>8. ASSUME NEW r \in Requests, Resume(r) PROVE RequestInv'
        BY <2>8 DEF Resume
    <2>9. ASSUME NEW r \in Requests, Abandon(r) PROVE RequestInv'
        BY <2>9 DEF Abandon
    <2>10. ASSUME NEW r \in Requests, ReadBody(r) PROVE RequestInv'
        <3>1. response[r].status \in Nat /\ response[r].status \in Statuses
            BY <2>10, ResponseAssumption DEF ReadBody
        <3>2. /\ pc'[r] = IF response[r].status >= 400 THEN "error" ELSE "ok"
              /\ pc' \in [Requests -> Places]
              /\ \A q \in Requests \ {r} : pc'[q] = pc[q]
              /\ UNCHANGED <<attempt, response, count, gone, answer, rateLimitCount>>
            BY <2>10 DEF ReadBody
        <3>3. RequestTypeOK' /\ AttemptsInBounds'
            BY <3>2
        <3>4. ASSUME NEW q \in Requests, q # r
              PROVE  /\ pc'[q] = pc[q] /\ response'[q] = response[q]
            BY <3>2, <3>4
        <3>5. pc[r] = "reading" /\ response'[r] = response[r]
            BY <2>10 DEF ReadBody
        <3>6. pc'[r] = "error" => response'[r].status >= 400
            BY <3>2, <3>5
        <3>7. pc'[r] = "ok" => response'[r].status < 400
            BY <3>1, <3>2, <3>5
        <3>8. ResponseKnown'
            BY <3>2, <3>4, <3>5, <3>6, <3>7
        <3>9. QED
            BY <3>3, <3>8
    <2>11. ASSUME NEW r \in Requests, ReadBodyFails(r) PROVE RequestInv'
        BY <2>11 DEF ReadBodyFails
    <2>12. ASSUME NEW r \in Requests, ChargeStatus(r) PROVE RequestInv'
        BY <2>12 DEF ChargeStatus
    <2>13. ASSUME NEW r \in Requests, ResetCount(r) PROVE RequestInv'
        BY <2>13 DEF ResetCount
    <2>14. ASSUME NEW r \in Requests, Credit(r) PROVE RequestInv'
        BY <2>14 DEF Credit
    <2>15. ASSUME NEW r \in Requests, Write(r) PROVE RequestInv'
        BY <2>15 DEF Write
    <2>16. ASSUME NEW r \in Requests, CountRateLimit(r) PROVE RequestInv'
        BY <2>16 DEF CountRateLimit
    <2>17. ASSUME NEW r \in Requests, RotateProxy(r) PROVE RequestInv'
        BY <2>17 DEF RotateProxy
    <2>18. ASSUME NEW r \in Requests, ProbeEnds(r) PROVE RequestInv'
        BY <2>18 DEF ProbeEnds
    <2>19. ASSUME NEW r \in Requests, BelowThreshold(r) PROVE RequestInv'
        BY <2>19 DEF BelowThreshold
    <2>20. ASSUME NEW r \in Requests, StartAction(r) PROVE RequestInv'
        BY <2>20 DEF StartAction
    <2>21. ASSUME NEW r \in Requests, ActionEnds(r) PROVE RequestInv'
        BY <2>21 DEF ActionEnds
    <2>22. ASSUME NEW r \in Requests, Disconnect(r) PROVE RequestInv'
        BY <2>22 DEF Disconnect
    <2>23. CASE UNCHANGED <<requestVars, rateLimitCount>>
        BY <2>23 DEF requestVars
    <2>24. QED
        BY <1>2, <2>1, <2>2, <2>3, <2>4, <2>5, <2>6, <2>7, <2>8, <2>9, <2>10, <2>11,
           <2>12, <2>13, <2>14, <2>15, <2>16, <2>17, <2>18, <2>19, <2>20, <2>21, <2>22, <2>23
           DEF Next, RequestStep, HandlerStep, NetworkStep, ClockTick, AllDone, vars
<1>3. QED
    BY <1>1, <1>2

-----------------------------------------------------------------------------
(* The counter of consecutive 429s                                         *)

\* The request whose Add(1) returned v has yet to compare it.
Pending(r, v) == pc[r] \in RateLimitSection /\ count[r] = v

\* A step of a request that has nothing to do with the counter.
CounterUntouched(r) ==
    /\ pc[r] \notin RateLimitSection
    /\ pc' = [pc EXCEPT ![r] = pc'[r]]
    /\ UNCHANGED <<count, rateLimitCount>>

\* The conversion of the threshold yields a number of the counter's width.
LEMMA WrapInt32Type == WrapInt32(Threshold) \in (-MaxInt32 - 1) .. MaxInt32
<1> DEFINE width == 2 * MaxInt32 + 2
<1>1. width \in Nat \ {0} /\ MaxInt32 \in Nat /\ Threshold \in Int
    BY GatewayAssumption
<1>2. (Threshold + MaxInt32 + 1) % width \in 0 .. width - 1
    BY <1>1
<1>3. QED
    BY <1>1, <1>2 DEF WrapInt32

\* The invariant is inductive by itself once the types are known.  A request
\* that counts a 429 becomes the holder of the new value; the only request that
\* can leave the section below the threshold holds none of the values at stake;
\* one that leaves at or above it resets the counter.
LEMMA CrossingsInductive ==
    /\ Init => CrossingsArePending
    /\ RequestInv /\ CrossingsArePending /\ [Next]_vars => CrossingsArePending'
<1>1. Init => CrossingsArePending
    <2>1. ASSUME Init PROVE 1 .. rateLimitCount = {}
        BY <2>1 DEF Init
    <2>2. QED
        BY <2>1 DEF CrossingsArePending
<1>2. ASSUME RequestInv, CrossingsArePending, [Next]_vars PROVE CrossingsArePending'
    <2> DEFINE limit == WrapInt32(Threshold)
    <2>0. limit' = limit
        BY DEF WrapInt32
    <2> SUFFICES ASSUME RateLimitAction, Threshold > 0, NEW v \in 1 .. rateLimitCount', v >= limit
                 PROVE  \E q \in Requests : Pending(q, v)'
        BY <2>0 DEF CrossingsArePending, Pending
    <2> USE GatewayAssumption
    <2>1. /\ pc \in [Requests -> Places]
          /\ count \in [Requests -> Nat]
          /\ rateLimitCount \in Nat
          /\ v \in Nat \ {0} /\ limit \in Int
        BY <1>2, WrapInt32Type DEF RequestInv, RequestTypeOK
    <2>2. v \in 1 .. rateLimitCount => \E q \in Requests : Pending(q, v)
        BY <1>2 DEF CrossingsArePending, Pending
    <2>3. ASSUME NEW r \in Requests, CounterUntouched(r)
          PROVE  \E q \in Requests : Pending(q, v)'
        <3>1. PICK q \in Requests : Pending(q, v)
            BY <2>2, <2>3 DEF CounterUntouched
        <3>2. q # r
            BY <2>3, <3>1 DEF CounterUntouched, Pending
        <3>3. pc'[q] = pc[q] /\ count'[q] = count[q]
            BY <2>1, <2>3, <3>2 DEF CounterUntouched
        <3>4. QED
            BY <3>1, <3>3 DEF Pending
    <2>4. ASSUME NEW r \in Requests,
                 \/ Admit(r) \/ Attempt(r) \/ AttemptUnbuildable(r) \/ Respond(r)
                 \/ SendFails(r) \/ ChargeError(r) \/ GiveUp(r) \/ Resume(r)
                 \/ Abandon(r) \/ ReadBody(r) \/ ReadBodyFails(r) \/ ChargeStatus(r)
                 \/ Credit(r) \/ Write(r) \/ ActionEnds(r)
          PROVE  CounterUntouched(r)
        BY <2>1, <2>4
           DEF CounterUntouched, RateLimitSection, Goto, Return, Admit, Attempt,
               AttemptUnbuildable, Respond, SendFails, ChargeError, GiveUp, Resume,
               Abandon, ReadBody, ReadBodyFails, ChargeStatus, Credit, Write, ActionEnds
    <2>5. ASSUME NEW r \in Requests, ResetCount(r) \/ StartAction(r)
          PROVE  FALSE
        <3>1. rateLimitCount' = 0
            BY <2>5 DEF ResetCount, StartAction
        <3>2. QED
            BY <2>1, <3>1
    <2>6. ASSUME NEW r \in Requests, CountRateLimit(r)
          PROVE  \E q \in Requests : Pending(q, v)'
        <3>1. /\ pc[r] = "count" /\ pc'[r] \in RateLimitSection
              /\ rateLimitCount' = rateLimitCount + 1
              /\ count'[r] = rateLimitCount + 1
              /\ \A q \in Requests \ {r} : pc'[q] = pc[q] /\ count'[q] = count[q]
            BY <2>1, <2>6 DEF CountRateLimit, Goto, RateLimitSection
        <3>2. CASE v = rateLimitCount + 1
            BY <3>1, <3>2 DEF Pending
        <3>3. CASE v # rateLimitCount + 1
            <4>1. v \in 1 .. rateLimitCount
                BY <2>1, <3>1, <3>3
            <4>2. PICK q \in Requests : Pending(q, v)
                BY <2>2, <4>1
            <4>3. q # r
                BY <3>1, <4>2 DEF Pending, RateLimitSection
            <4>4. QED
                BY <3>1, <4>2, <4>3 DEF Pending
        <3>4. QED
            BY <3>2, <3>3
    <2>7. ASSUME NEW r \in Requests, RotateProxy(r) \/ ProbeEnds(r)
          PROVE  \E q \in Requests : Pending(q, v)'
        <3>1. /\ pc'[r] \in RateLimitSection
              /\ \A q \in Requests \ {r} : pc'[q] = pc[q]
              /\ UNCHANGED <<count, rateLimitCount>>
            BY <2>1, <2>7 DEF RotateProxy, ProbeEnds, Goto, RateLimitSection
        <3>2. PICK q \in Requests : Pending(q, v)
            BY <2>2, <3>1
        <3>3. QED
            BY <3>1, <3>2 DEF Pending
    <2>8. ASSUME NEW r \in Requests, BelowThreshold(r)
          PROVE  \E q \in Requests : Pending(q, v)'
        <3>1. /\ ~ (count[r] >= limit)
              /\ \A q \in Requests \ {r} : pc'[q] = pc[q]
              /\ UNCHANGED <<count, rateLimitCount>>
            BY <2>1, <2>8 DEF BelowThreshold, ReachesThreshold, Goto
        <3>2. PICK q \in Requests : Pending(q, v)
            BY <2>2, <3>1
        <3>3. q # r
            BY <2>1, <3>1, <3>2 DEF Pending
        <3>4. QED
            BY <3>1, <3>2, <3>3 DEF Pending
    <2>9. CASE \/ UNCHANGED <<pc, count, rateLimitCount>>
               \/ \E r \in Requests : Disconnect(r)
        <3>1. UNCHANGED <<pc, count, rateLimitCount>>
            BY <2>9 DEF Disconnect
        <3>2. QED
            BY <2>2, <3>1 DEF Pending
    <2>10. QED
        BY <1>2, <2>3, <2>4, <2>5, <2>6, <2>7, <2>8, <2>9
           DEF Next, RequestStep, HandlerStep, NetworkStep, ClockTick, AllDone, vars, requestVars
<1>3. QED
    BY <1>1, <1>2

-----------------------------------------------------------------------------
(* The answers                                                             *)

\* A handler that returns has answered, or its client has gone.
LEMMA AnswersInductive ==
    /\ Init => NoSilentReturn
    /\ RequestInv /\ NoSilentReturn /\ [Next]_vars => NoSilentReturn'
<1>1. Init => NoSilentReturn
    BY DEF Init, NoSilentReturn
<1>2. ASSUME RequestInv, NoSilentReturn, [Next]_vars PROVE NoSilentReturn'
    <2>1. /\ pc \in [Requests -> Places]
          /\ gone \in [Requests -> BOOLEAN]
          /\ answer \in [Requests -> Statuses \cup {NoAnswer, InternalServerError, BadGateway}]
        BY <1>2 DEF RequestInv, RequestTypeOK
    <2>2. ASSUME NEW r \in Requests,
                 \/ Admit(r) \/ Attempt(r) \/ Respond(r)
                 \/ SendFails(r) \/ ChargeError(r) \/ Resume(r)
                 \/ ReadBody(r) \/ ChargeStatus(r)
                 \/ ResetCount(r) \/ Credit(r) \/ CountRateLimit(r) \/ RotateProxy(r)
                 \/ ProbeEnds(r) \/ BelowThreshold(r) \/ StartAction(r) \/ ActionEnds(r)
          PROVE  NoSilentReturn'
        <3>1. /\ pc'[r] # "done"
              /\ \A q \in Requests \ {r} : pc'[q] = pc[q]
              /\ UNCHANGED <<answer, gone>>
            BY <2>1, <2>2
               DEF Goto, Admit, Attempt, Respond, SendFails, ChargeError, Resume, ReadBody,
                   ChargeStatus, ResetCount, Credit, CountRateLimit, RotateProxy, ProbeEnds,
                   BelowThreshold, StartAction, ActionEnds
        <3>2. QED
            BY <1>2, <3>1 DEF NoSilentReturn
    <2>3. ASSUME NEW r \in Requests,
                 AttemptUnbuildable(r) \/ GiveUp(r) \/ ReadBodyFails(r) \/ Write(r)
          PROVE  NoSilentReturn'
        <3>1. /\ answer'[r] # NoAnswer
              /\ \A q \in Requests \ {r} : pc'[q] = pc[q] /\ answer'[q] = answer[q]
              /\ UNCHANGED gone
            BY <1>2, <2>1, <2>3, ResponseAssumption
               DEF Goto, Return, AttemptUnbuildable, GiveUp, ReadBodyFails, Write, NoAnswer,
                   InternalServerError, BadGateway, RequestInv, ResponseKnown
        <3>2. QED
            BY <1>2, <3>1 DEF NoSilentReturn
    <2>4. ASSUME NEW r \in Requests, Abandon(r) PROVE NoSilentReturn'
        <3>1. /\ gone'[r]
              /\ \A q \in Requests \ {r} : pc'[q] = pc[q]
              /\ UNCHANGED <<answer, gone>>
            BY <2>1, <2>4 DEF Abandon, Goto
        <3>2. QED
            BY <1>2, <3>1 DEF NoSilentReturn
    <2>5. ASSUME NEW r \in Requests, Disconnect(r) PROVE NoSilentReturn'
        BY <1>2, <2>1, <2>5 DEF Disconnect, NoSilentReturn
    <2>6. CASE UNCHANGED <<pc, answer, gone>>
        BY <1>2, <2>6 DEF NoSilentReturn
    <2>7. QED
        BY <1>2, <2>2, <2>3, <2>4, <2>5, <2>6
           DEF Next, RequestStep, HandlerStep, NetworkStep, ClockTick, AllDone, vars, requestVars
<1>3. QED
    BY <1>1, <1>2

-----------------------------------------------------------------------------
(* The gateway uses the pool as the pool is meant to be used               *)

\* The URL a report names is one of the list.
LEMMA CurrentURLType ==
    ASSUME PoolTypeOK
    PROVE  CurrentURL \in URLs
BY DEF PoolTypeOK, CurrentURL, URLs

\* What a handler does to the pool is nothing, or one call of a method.
LEMMA StepImplementsPool ==
    RequestInv /\ PoolInv /\ [Next]_vars => [PoolNext]_poolVars
<1> SUFFICES ASSUME RequestInv, PoolInv, [Next]_vars
             PROVE  [PoolNext]_poolVars
    OBVIOUS
<1>1. CurrentURL \in URLs
    BY CurrentURLType DEF PoolInv
<1>2. ASSUME NEW r \in Requests, Attempt(r) \/ AttemptUnbuildable(r)
      PROVE  [PoolNext]_poolVars
    <2>1. SessionOf[r] \in Sessions
        BY GatewayAssumption
    <2>2. UnderPoolMu(ClientForSession(SessionOf[r]))
        BY <1>2 DEF Attempt, AttemptUnbuildable
    <2>3. QED
        BY <2>1, <2>2 DEF UnderPoolMu, PoolNext, Serve
<1>3. ASSUME NEW r \in Requests, ChargeError(r) \/ GiveUp(r)
      PROVE  [PoolNext]_poolVars
    <2>1. UnderPoolMu(ReportNetworkError(CurrentURL))
        BY <1>3 DEF ChargeError, GiveUp
    <2>2. QED
        BY <1>1, <2>1 DEF UnderPoolMu, PoolNext, Report
<1>4. ASSUME NEW r \in Requests, ChargeStatus(r)
      PROVE  [PoolNext]_poolVars
    <2>1. UnderPoolMu(ReportErrorStatus(CurrentURL, response[r].status, response[r].header))
        BY <1>4 DEF ChargeStatus
    <2>2. response[r].status \in {s \in Statuses : s >= 400} /\ response[r].header \in Headers
        BY <1>4 DEF ChargeStatus, Goto, RequestInv, ResponseKnown
    <2>3. QED
        BY <1>1, <2>1, <2>2 DEF UnderPoolMu, PoolNext, Report
<1>5. ASSUME NEW r \in Requests, Credit(r)
      PROVE  [PoolNext]_poolVars
    BY <1>1, <1>5 DEF Credit, UnderPoolMu, PoolNext, Recover
<1>6. ASSUME NEW r \in Requests, RotateProxy(r)
      PROVE  [PoolNext]_poolVars
    BY <1>6 DEF RotateProxy, PoolNext
<1>7. CASE ClockTick
    BY <1>7 DEF ClockTick, PoolNext
<1>8. ASSUME NEW r \in Requests,
             \/ Admit(r) \/ Respond(r) \/ SendFails(r) \/ Resume(r) \/ Abandon(r)
             \/ ReadBody(r) \/ ReadBodyFails(r) \/ ResetCount(r) \/ Write(r)
             \/ CountRateLimit(r) \/ ProbeEnds(r) \/ BelowThreshold(r) \/ StartAction(r)
             \/ ActionEnds(r) \/ Disconnect(r)
      PROVE  UNCHANGED poolVars
    BY <1>8
       DEF Admit, Respond, SendFails, Resume, Abandon, ReadBody, ReadBodyFails, ResetCount,
           Write, CountRateLimit, ProbeEnds, BelowThreshold, StartAction, ActionEnds, Disconnect
<1>9. CASE UNCHANGED vars
    BY <1>9 DEF vars
<1>10. QED
    BY <1>2, <1>3, <1>4, <1>5, <1>6, <1>7, <1>8, <1>9
       DEF Next, RequestStep, HandlerStep, NetworkStep, AllDone

-----------------------------------------------------------------------------
(* Sums over finite sets.  SumFunction is a recursion over the subsets of  *)
(* the domain; what is said of it here is shown by a counterexample of     *)
(* least cardinality.                                                      *)

\* The element the recursion takes from a set.
Taken(s) == CHOOSE y \in s : TRUE

\* g[s] is the sum of f over s, for the sets s of T.
SumsUp(f, g, T) ==
    \A s \in T : g[s] = IF s = {} THEN 0 ELSE f[Taken(s)] + g[s \ {Taken(s)}]

\* Taking an element makes a set smaller.
LEMMA TakenMakesSmaller ==
    ASSUME NEW S, IsFiniteSet(S), NEW s \in SUBSET S, s # {}
    PROVE  /\ Taken(s) \in s /\ Taken(s) \in S
           /\ s \ {Taken(s)} \in SUBSET S
           /\ Cardinality(s) \in Nat /\ Cardinality(s \ {Taken(s)}) \in Nat
           /\ Cardinality(s \ {Taken(s)}) < Cardinality(s)
<1>1. Taken(s) \in s
    BY DEF Taken
<1>2. IsFiniteSet(s)
    BY FS_Subset
<1>3. IsFiniteSet(s \ {Taken(s)}) /\ Cardinality(s \ {Taken(s)}) = Cardinality(s) - 1
    BY <1>1, <1>2, FS_RemoveElement
<1>4. Cardinality(s) \in Nat /\ Cardinality(s \ {Taken(s)}) \in Nat
    BY <1>2, <1>3, FS_CardinalityType
<1>5. Cardinality(s \ {Taken(s)}) < Cardinality(s)
    BY <1>3, <1>4
<1>6. s \ {Taken(s)} \in SUBSET S
    OBVIOUS
<1>7. QED
    BY <1>1, <1>4, <1>5, <1>6

\* Of the sets in which there is a difference, one has the least cardinality.
LEMMA LeastSet ==
    ASSUME NEW S, IsFiniteSet(S), NEW T \in SUBSET (SUBSET S), T # {}
    PROVE  \E s \in T : \A t \in T : Cardinality(s) <= Cardinality(t)
<1> DEFINE Sizes == {Cardinality(t) : t \in T}
<1>1. \A t \in T : Cardinality(t) \in Nat
    BY FS_Subset, FS_CardinalityType
<1>2. Sizes \subseteq Nat /\ Sizes # {}
    BY <1>1
<1> HIDE DEF Sizes
<1>3. PICK n \in Sizes : \A m \in Sizes : n <= m
    BY <1>2, LeastNatural
<1>4. QED
    BY <1>3 DEF Sizes

\* There are sums over all subsets.
LEMMA SumsExist ==
    ASSUME NEW S, IsFiniteSet(S), NEW f \in [S -> Int]
    PROVE  \E g \in [SUBSET S -> Int] : SumsUp(f, g, SUBSET S)
<1> DEFINE Upto(n) == {s \in SUBSET S : Cardinality(s) <= n}
           Summed(n) == \E g \in [Upto(n) -> Int] : SumsUp(f, g, Upto(n))
           Missing == {n \in Nat : ~Summed(n)}
<1>1. ASSUME NEW n \in Nat, \A m \in Nat : m < n => Summed(m) PROVE Summed(n)
    <2>1. CASE n = 0
        <3> DEFINE g == [s \in Upto(0) |-> 0]
        <3>1. \A s \in Upto(0) : s = {}
            <4> SUFFICES ASSUME NEW s \in Upto(0), s # {} PROVE FALSE
                OBVIOUS
            <4>1. Cardinality(s \ {Taken(s)}) < Cardinality(s) /\ Cardinality(s \ {Taken(s)}) \in Nat
                BY TakenMakesSmaller
            <4>2. Cardinality(s) <= 0 /\ Cardinality(s) \in Nat
                BY TakenMakesSmaller
            <4>3. QED
                BY <4>1, <4>2
        <3>2. g \in [Upto(0) -> Int] /\ SumsUp(f, g, Upto(0))
            BY <3>1 DEF SumsUp
        <3>3. QED
            BY <2>1, <3>2
    <2>2. CASE n # 0
        <3>1. n - 1 \in Nat /\ n - 1 < n
            BY <2>2
        <3>2. Summed(n - 1)
            BY <1>1, <3>1
        <3>3. PICK g \in [Upto(n - 1) -> Int] : SumsUp(f, g, Upto(n - 1))
            BY <3>2
        <3> DEFINE h == [s \in Upto(n) |-> IF s = {} THEN 0 ELSE f[Taken(s)] + g[s \ {Taken(s)}]]
        <3>4. \A s \in Upto(n) : s # {} => s \ {Taken(s)} \in Upto(n - 1) /\ f[Taken(s)] \in Int
            <4> SUFFICES ASSUME NEW s \in Upto(n), s # {}
                         PROVE  s \ {Taken(s)} \in Upto(n - 1) /\ f[Taken(s)] \in Int
                OBVIOUS
            <4>1. /\ Taken(s) \in S /\ s \ {Taken(s)} \in SUBSET S
                  /\ Cardinality(s) \in Nat /\ Cardinality(s \ {Taken(s)}) \in Nat
                  /\ Cardinality(s \ {Taken(s)}) < Cardinality(s)
                BY TakenMakesSmaller
            <4>2. Cardinality(s \ {Taken(s)}) <= n - 1
                BY <4>1
            <4>3. QED
                BY <4>1, <4>2
        <3>5. h \in [Upto(n) -> Int]
            BY <3>4
        <3>6. \A s \in Upto(n - 1) : s \in Upto(n) /\ h[s] = g[s]
            <4> SUFFICES ASSUME NEW s \in Upto(n - 1) PROVE s \in Upto(n) /\ h[s] = g[s]
                OBVIOUS
            <4>1. Cardinality(s) \in Nat
                BY FS_Subset, FS_CardinalityType
            <4>2. s \in Upto(n)
                BY <4>1, <3>1
            <4>3. QED
                BY <3>3, <4>2 DEF SumsUp
        <3>7. SumsUp(f, h, Upto(n))
            <4> SUFFICES ASSUME NEW s \in Upto(n)
                         PROVE  h[s] = IF s = {} THEN 0 ELSE f[Taken(s)] + h[s \ {Taken(s)}]
                BY DEF SumsUp
            <4>1. h[s] = IF s = {} THEN 0 ELSE f[Taken(s)] + g[s \ {Taken(s)}]
                OBVIOUS
            <4>2. s # {} => h[s \ {Taken(s)}] = g[s \ {Taken(s)}]
                BY <3>4, <3>6
            <4> HIDE DEF h
            <4>3. QED
                BY <4>1, <4>2
        <3> HIDE DEF h
        <3>8. QED
            BY <3>5, <3>7
    <2>3. QED
        BY <2>1, <2>2
<1> HIDE DEF Summed
<1>2. \A n \in Nat : Summed(n)
    <2> SUFFICES ASSUME Missing # {} PROVE FALSE
        OBVIOUS
    <2>1. PICK n \in Missing : \A m \in Missing : n <= m
        BY LeastNatural
    <2>2. \A m \in Nat : m < n => Summed(m)
        BY <2>1
    <2>3. QED
        BY <1>1, <2>1, <2>2
<1>3. Cardinality(S) \in Nat /\ Upto(Cardinality(S)) = SUBSET S
    BY FS_CardinalityType, FS_Subset
<1>4. QED
    BY <1>2, <1>3 DEF Summed

\* They are the only ones, and SumFunction is the last of them.
LEMMA SumFunctionSums ==
    ASSUME NEW S, IsFiniteSet(S), NEW f \in [S -> Int]
    PROVE  \E g \in [SUBSET S -> Int] : SumsUp(f, g, SUBSET S) /\ SumFunction(f) = g[S]
<1>1. PICK g \in [SUBSET S -> Int] : SumsUp(f, g, SUBSET S)
    BY SumsExist
<1>2. g = [s \in SUBSET S |-> IF s = {} THEN 0 ELSE f[Taken(s)] + g[s \ {Taken(s)}]]
    BY <1>1 DEF SumsUp
<1>3. ASSUME NEW h, h = [s \in SUBSET S |-> IF s = {} THEN 0 ELSE f[Taken(s)] + h[s \ {Taken(s)}]]
      PROVE  h = g
    <2> DEFINE Differing == {s \in SUBSET S : h[s] # g[s]}
    <2>1. \A s \in SUBSET S : h[s] = IF s = {} THEN 0 ELSE f[Taken(s)] + h[s \ {Taken(s)}]
        BY <1>3
    <2>2. Differing = {}
        <3> SUFFICES ASSUME Differing # {} PROVE FALSE
            OBVIOUS
        <3>0. Differing \in SUBSET (SUBSET S)
            OBVIOUS
        <3>1. PICK s \in Differing : \A t \in Differing : Cardinality(s) <= Cardinality(t)
            <4> HIDE DEF Differing
            <4>1. QED
                BY <3>0, LeastSet
        <3>2. s # {}
            BY <1>1, <2>1, <3>1 DEF SumsUp
        <3>3. s \ {Taken(s)} \in SUBSET S /\ s \ {Taken(s)} \notin Differing
            BY <3>1, <3>2, TakenMakesSmaller
        <3>4. QED
            BY <1>1, <2>1, <3>1, <3>2, <3>3 DEF SumsUp
    <2>3. QED
        BY <1>3, <2>2, Zenon
<1>4. DOMAIN f = S
    OBVIOUS
<1>5. SumFunction(f) = g[S]
    BY <1>2, <1>3, <1>4 DEF SumFunction, SumFunctionOnSet, FoldFunctionOnSet, MapThenFoldSet, Taken
<1>6. QED
    BY <1>1, <1>5

LEMMA SumType ==
    ASSUME NEW S, IsFiniteSet(S), NEW f \in [S -> Int]
    PROVE  SumFunction(f) \in Int
<1>1. PICK g \in [SUBSET S -> Int] : SumsUp(f, g, SUBSET S) /\ SumFunction(f) = g[S]
    BY SumFunctionSums
<1>2. QED
    BY <1>1

\* Changing one value changes the sum by the difference.
LEMMA SumChange ==
    ASSUME NEW S, IsFiniteSet(S), NEW f \in [S -> Int], NEW h \in [S -> Int], NEW x \in S,
           \A y \in S \ {x} : h[y] = f[y]
    PROVE  /\ SumFunction(f) \in Int /\ SumFunction(h) \in Int
           /\ SumFunction(h) = SumFunction(f) + h[x] - f[x]
<1>1. PICK F \in [SUBSET S -> Int] : SumsUp(f, F, SUBSET S) /\ SumFunction(f) = F[S]
    BY SumFunctionSums
<1>2. PICK H \in [SUBSET S -> Int] : SumsUp(h, H, SUBSET S) /\ SumFunction(h) = H[S]
    BY SumFunctionSums
<1> DEFINE Differing == {s \in SUBSET S : H[s] # F[s] + (IF x \in s THEN h[x] - f[x] ELSE 0)}
<1>3. Differing = {}
    <2> SUFFICES ASSUME Differing # {} PROVE FALSE
        OBVIOUS
    <2>0. Differing \in SUBSET (SUBSET S)
        OBVIOUS
    <2>1. PICK s \in Differing : \A t \in Differing : Cardinality(s) <= Cardinality(t)
        <3> HIDE DEF Differing
        <3>1. QED
            BY <2>0, LeastSet
    <2>2. s # {}
        <3>1. F[{}] = 0 /\ H[{}] = 0
            BY <1>1, <1>2 DEF SumsUp
        <3>2. {} \notin Differing
            BY <3>1
        <3>3. QED
            BY <2>1, <3>2
    <2>3. /\ Taken(s) \in s /\ Taken(s) \in S /\ s \ {Taken(s)} \in SUBSET S
          /\ s \ {Taken(s)} \notin Differing
        BY <2>1, <2>2, TakenMakesSmaller
    <2>4. /\ H[s] = h[Taken(s)] + H[s \ {Taken(s)}]
          /\ F[s] = f[Taken(s)] + F[s \ {Taken(s)}]
        BY <1>1, <1>2, <2>2 DEF SumsUp
    <2>5. H[s \ {Taken(s)}] = F[s \ {Taken(s)}]
                              + (IF x \in s \ {Taken(s)} THEN h[x] - f[x] ELSE 0)
        BY <2>3
    <2>6. H[s] # F[s] + (IF x \in s THEN h[x] - f[x] ELSE 0)
        BY <2>1
    <2>7. CASE Taken(s) = x
        BY <2>3, <2>4, <2>5, <2>6, <2>7
    <2>8. CASE Taken(s) # x
        <3>1. h[Taken(s)] = f[Taken(s)]
            BY <2>3, <2>8
        <3>2. x \in s \ {Taken(s)} <=> x \in s
            BY <2>8
        <3>3. QED
            BY <2>3, <2>4, <2>5, <2>6, <3>1, <3>2
    <2>9. QED
        BY <2>7, <2>8
<1>4. S \notin Differing
    BY <1>3
<1>5. H[S] = F[S] + (h[x] - f[x])
    BY <1>4
<1>6. QED
    BY <1>1, <1>2, <1>5

LEMMA SumUpdate ==
    ASSUME NEW S, IsFiniteSet(S), NEW f \in [S -> Int], NEW x \in S, NEW n \in Int
    PROVE  /\ SumFunction(f) \in Int /\ SumFunction([f EXCEPT ![x] = n]) \in Int
           /\ SumFunction([f EXCEPT ![x] = n]) = SumFunction(f) + n - f[x]
<1> DEFINE h == [f EXCEPT ![x] = n]
<1>1. h \in [S -> Int] /\ h[x] = n /\ \A y \in S \ {x} : h[y] = f[y]
    OBVIOUS
<1> HIDE DEF h
<1>2. /\ SumFunction(f) \in Int /\ SumFunction(h) \in Int
      /\ SumFunction(h) = SumFunction(f) + h[x] - f[x]
    BY <1>1, SumChange
<1>3. QED
    BY <1>1, <1>2 DEF h

\* A sum of zeros.
LEMMA SumOfZeros ==
    ASSUME NEW S, IsFiniteSet(S), NEW f \in [S -> Int], \A x \in S : f[x] = 0
    PROVE  SumFunction(f) = 0
<1>1. PICK F \in [SUBSET S -> Int] : SumsUp(f, F, SUBSET S) /\ SumFunction(f) = F[S]
    BY SumFunctionSums
<1> DEFINE Differing == {s \in SUBSET S : F[s] # 0}
<1>2. Differing = {}
    <2> SUFFICES ASSUME Differing # {} PROVE FALSE
        OBVIOUS
    <2>0. Differing \in SUBSET (SUBSET S)
        OBVIOUS
    <2>1. PICK s \in Differing : \A t \in Differing : Cardinality(s) <= Cardinality(t)
        <3> HIDE DEF Differing
        <3>1. QED
            BY <2>0, LeastSet
    <2>2. s # {}
        BY <1>1, <2>1 DEF SumsUp
    <2>3. Taken(s) \in S /\ s \ {Taken(s)} \in SUBSET S /\ s \ {Taken(s)} \notin Differing
        BY <2>1, <2>2, TakenMakesSmaller
    <2>4. F[s] = f[Taken(s)] + F[s \ {Taken(s)}]
        BY <1>1, <2>2 DEF SumsUp
    <2>5. QED
        BY <2>1, <2>3, <2>4
<1>3. QED
    BY <1>1, <1>2

-----------------------------------------------------------------------------
(* Attempts and failures                                                   *)

\* What the calls of the pool add to the failures on record.
LEMMA FailuresChange ==
    ASSUME PoolTypeOK, failureCounts' \in [Indices -> Nat],
           NEW i \in Indices, NEW n \in Nat, failureCounts' = [failureCounts EXCEPT ![i] = n]
    PROVE  /\ FailuresOnRecord \in Int /\ FailuresOnRecord' \in Int
           /\ FailuresOnRecord' = FailuresOnRecord + n - failureCounts[i]
<1>1. IsFiniteSet(Indices)
    BY PoolAssumption, FS_Interval DEF Indices
<1>2. failureCounts \in [Indices -> Int] /\ n \in Int
    BY DEF PoolTypeOK
<1>3. QED
    <2>1. \A S, f : IsFiniteSet(S) /\ f \in [S -> Int] => \A x \in S, m \in Int :
             /\ SumFunction(f) \in Int /\ SumFunction([f EXCEPT ![x] = m]) \in Int
             /\ SumFunction([f EXCEPT ![x] = m]) = SumFunction(f) + m - f[x]
        BY SumUpdate
    <2>2. /\ SumFunction(failureCounts) \in Int /\ SumFunction([failureCounts EXCEPT ![i] = n]) \in Int
          /\ SumFunction([failureCounts EXCEPT ![i] = n]) = SumFunction(failureCounts) + n - failureCounts[i]
        BY <1>1, <1>2, <2>1
    <2>3. QED
        BY <2>2 DEF FailuresOnRecord

\* A step of a request changes what is decided of its own attempts only.
LEMMA DecidedChange ==
    ASSUME IsFiniteSet(Requests), RequestTypeOK, RequestTypeOK', NEW r \in Requests,
           \A q \in Requests \ {r} : pc'[q] = pc[q] /\ attempt'[q] = attempt[q]
    PROVE  /\ AttemptsDecided \in Int /\ AttemptsDecided' \in Int
           /\ Decided(r) \in Int /\ Decided(r)' \in Int
           /\ AttemptsDecided' = AttemptsDecided + Decided(r)' - Decided(r)
<1> DEFINE D == [q \in Requests |-> Decided(q)]
           E == [q \in Requests |-> Decided(q)']
<1>1. D \in [Requests -> Int] /\ E \in [Requests -> Int]
    BY DEF RequestTypeOK, Decided
<1>2. \A q \in Requests \ {r} : E[q] = D[q]
    BY DEF Decided, Undecided
<1>3. D[r] = Decided(r) /\ E[r] = Decided(r)'
    OBVIOUS
<1>4. AttemptsDecided = SumFunction(D) /\ AttemptsDecided' = SumFunction(E)
    BY DEF AttemptsDecided
<1> HIDE DEF D, E
<1>5. SumFunction(D) \in Int /\ SumFunction(E) = SumFunction(D) + E[r] - D[r]
    BY <1>1, <1>2, SumChange
<1>6. D[r] \in Int /\ E[r] \in Int
    BY <1>1
<1>7. QED
    BY <1>3, <1>4, <1>5, <1>6

\* A failure is put on record in the step that decides an attempt, and no step
\* takes a decision back.
LEMMA ChargesInductive ==
    ASSUME IsFiniteSet(Requests)
    PROVE  /\ Init => ChargedAtMostOnce
           /\ RequestInv /\ RequestInv' /\ PoolInv /\ PoolInv' /\ ChargedAtMostOnce /\ [Next]_vars
                  => ChargedAtMostOnce'
<1>1. Init => ChargedAtMostOnce
    <2> SUFFICES ASSUME Init PROVE ChargedAtMostOnce
        OBVIOUS
    <2>1. IsFiniteSet(Indices)
        BY PoolAssumption, FS_Interval DEF Indices
    <2>2. failureCounts \in [Indices -> Int] /\ \A i \in Indices : failureCounts[i] = 0
        BY DEF Init, PoolInit
    <2>3. FailuresOnRecord = 0
        BY <2>1, <2>2, SumOfZeros DEF FailuresOnRecord
    <2> DEFINE D == [r \in Requests |-> Decided(r)]
    <2>4. D \in [Requests -> Int] /\ \A r \in Requests : D[r] = 0
        BY DEF Init, Decided, Undecided
    <2> HIDE DEF D
    <2>5. SumFunction(D) = 0
        BY <2>4, SumOfZeros
    <2>6. AttemptsDecided = 0
        BY <2>5 DEF AttemptsDecided, D
    <2>7. QED
        BY <2>3, <2>6 DEF ChargedAtMostOnce
<1>2. ASSUME RequestInv, RequestInv', PoolInv, PoolInv', ChargedAtMostOnce, [Next]_vars
      PROVE  ChargedAtMostOnce'
    <2>1. /\ RequestTypeOK /\ RequestTypeOK' /\ PoolTypeOK
          /\ failureCounts \in [Indices -> Nat] /\ failureCounts' \in [Indices -> Nat]
        BY <1>2 DEF RequestInv, PoolInv, PoolTypeOK
    <2>2. FailuresOnRecord \in Int /\ AttemptsDecided \in Int /\ FailuresOnRecord <= AttemptsDecided
        <3>1. FailuresOnRecord \in Int
            <4>1. IsFiniteSet(Indices) /\ failureCounts \in [Indices -> Int]
                BY <2>1, PoolAssumption, FS_Interval DEF Indices
            <4>2. QED
                BY <4>1, SumType DEF FailuresOnRecord
        <3>2. AttemptsDecided \in Int
            <4> DEFINE D == [r \in Requests |-> Decided(r)]
            <4>1. D \in [Requests -> Int]
                BY <2>1 DEF RequestTypeOK, Decided
            <4> HIDE DEF D
            <4>2. SumFunction(D) \in Int
                BY <4>1, SumType
            <4>3. QED
                BY <4>2 DEF AttemptsDecided, D
        <3>3. QED
            BY <1>2, <3>1, <3>2 DEF ChargedAtMostOnce
    <2>3. ASSUME NEW url \in URLs, NEW status, NEW isNetworkError, NEW header, NEW seen,
                 MarkFailure(url, status, isNetworkError, header, seen)
          PROVE  FailuresOnRecord' \in Int /\ FailuresOnRecord' <= FailuresOnRecord + 1
        <3>1. CASE CountsAsFailure(status, isNetworkError)
            <4> DEFINE i == IndexOf(url)
                       n == failureCounts[i] + 1
            <4>1. i \in Indices /\ failureCounts[i] \in Nat /\ n \in Nat
                BY <2>1, IndexOfType
            <4>2. failureCounts' = [failureCounts EXCEPT ![i] = n]
                BY <2>3, <3>1 DEF MarkFailure, RecordFailure
            <4> HIDE DEF i, n
            <4>3. /\ FailuresOnRecord' \in Int
                  /\ FailuresOnRecord' = FailuresOnRecord + n - failureCounts[i]
                BY <2>1, <4>1, <4>2, FailuresChange
            <4>4. QED
                BY <2>2, <4>1, <4>3 DEF n
        <3>2. CASE ~CountsAsFailure(status, isNetworkError)
            BY <2>2, <2>3, <3>2 DEF MarkFailure, healthVars, FailuresOnRecord
        <3>3. QED
            BY <3>1, <3>2
    <2>4. ASSUME NEW url \in URLs, MarkSuccess(url)
          PROVE  FailuresOnRecord' \in Int /\ FailuresOnRecord' <= FailuresOnRecord
        <3> DEFINE i == IndexOf(url)
        <3>1. i \in Indices /\ failureCounts[i] \in Nat
            BY <2>1, IndexOfType
        <3>2. failureCounts' = [failureCounts EXCEPT ![i] = 0]
            BY <2>4 DEF MarkSuccess
        <3> HIDE DEF i
        <3>3. /\ FailuresOnRecord' \in Int
              /\ FailuresOnRecord' = FailuresOnRecord + 0 - failureCounts[i]
            BY <2>1, <3>1, <3>2, FailuresChange
        <3>4. QED
            BY <2>2, <3>1, <3>3
    <2>5. UNCHANGED failureCounts => FailuresOnRecord' = FailuresOnRecord
        BY DEF FailuresOnRecord
    <2>6. CurrentURL \in URLs
        BY <2>1, CurrentURLType
    <2>7. ASSUME NEW r \in Requests,
                 \A q \in Requests \ {r} : pc'[q] = pc[q] /\ attempt'[q] = attempt[q],
                 \/ Decided(r)' >= Decided(r) /\ FailuresOnRecord' \in Int /\ FailuresOnRecord' <= FailuresOnRecord
                 \/ Decided(r)' = Decided(r) + 1 /\ FailuresOnRecord' \in Int /\ FailuresOnRecord' <= FailuresOnRecord + 1
          PROVE  ChargedAtMostOnce'
        <3>1. /\ AttemptsDecided' \in Int /\ Decided(r) \in Int /\ Decided(r)' \in Int
              /\ AttemptsDecided' = AttemptsDecided + Decided(r)' - Decided(r)
            BY <2>1, <2>7, DecidedChange
        <3>2. QED
            BY <2>2, <2>7, <3>1 DEF ChargedAtMostOnce
    <2>8. ASSUME NEW r \in Requests, ChargeError(r) \/ GiveUp(r) \/ ChargeStatus(r)
          PROVE  ChargedAtMostOnce'
        <3>1. FailuresOnRecord' \in Int /\ FailuresOnRecord' <= FailuresOnRecord + 1
            <4>1. CASE HasPool
                <5>1. \/ ReportNetworkError(CurrentURL)
                      \/ ReportErrorStatus(CurrentURL, response[r].status, response[r].header)
                    BY <2>8, <4>1 DEF ChargeError, GiveUp, ChargeStatus, UnderPoolMu
                <5>2. QED
                    BY <2>3, <2>6, <5>1 DEF ReportNetworkError, ReportErrorStatus
            <4>2. CASE ~HasPool
                <5>1. UNCHANGED poolVars
                    BY <2>8, <4>2 DEF ChargeError, GiveUp, ChargeStatus, UnderPoolMu
                <5>2. QED
                    BY <2>2, <2>5, <5>1 DEF poolVars, healthVars
            <4>3. QED
                BY <4>1, <4>2
        <3>2. /\ pc[r] \in {"failed", "error"} /\ pc'[r] \in {"pause", "done", "count", "write"}
              /\ \A q \in Requests \ {r} : pc'[q] = pc[q]
              /\ UNCHANGED attempt
            BY <2>1, <2>8 DEF ChargeError, GiveUp, ChargeStatus, Goto, Return, RequestTypeOK
        <3>3. Decided(r)' = Decided(r) + 1
            BY <2>1, <3>2 DEF Decided, Undecided, RequestTypeOK
        <3>4. QED
            BY <2>7, <3>1, <3>2, <3>3
    <2>9. ASSUME NEW r \in Requests, Credit(r) PROVE ChargedAtMostOnce'
        <3>1. FailuresOnRecord' \in Int /\ FailuresOnRecord' <= FailuresOnRecord
            BY <2>2, <2>4, <2>5, <2>6, <2>9 DEF Credit, UnderPoolMu, poolVars, healthVars
        <3>2. /\ pc[r] = "credit" /\ pc'[r] = "write"
              /\ \A q \in Requests \ {r} : pc'[q] = pc[q]
              /\ UNCHANGED attempt
            BY <2>1, <2>9 DEF Credit, Goto, RequestTypeOK
        <3>3. Decided(r)' >= Decided(r)
            BY <2>1, <3>2 DEF Decided, Undecided, RequestTypeOK
        <3>4. QED
            BY <2>7, <3>1, <3>2, <3>3
    <2>10. ASSUME NEW r \in Requests, Attempt(r) \/ AttemptUnbuildable(r)
           PROVE  ChargedAtMostOnce'
        <3>1. UNCHANGED failureCounts
            BY <2>10 DEF Attempt, AttemptUnbuildable, UnderPoolMu, ClientForSession, poolVars, healthVars
        <3>2. /\ pc[r] = "select" /\ pc'[r] \in {"sent", "done"}
              /\ attempt'[r] = attempt[r] + 1
              /\ \A q \in Requests \ {r} : pc'[q] = pc[q] /\ attempt'[q] = attempt[q]
            BY <2>1, <2>10 DEF Attempt, AttemptUnbuildable, Goto, Return, RequestTypeOK
        <3>3. Decided(r)' >= Decided(r)
            BY <2>1, <3>2 DEF Decided, Undecided, RequestTypeOK
        <3>4. QED
            BY <2>2, <2>5, <2>7, <3>1, <3>2, <3>3
    <2>11. ASSUME NEW r \in Requests,
                  \/ Admit(r) \/ Respond(r) \/ SendFails(r) \/ Resume(r) \/ Abandon(r)
                  \/ ReadBody(r) \/ ReadBodyFails(r) \/ ResetCount(r) \/ Write(r)
                  \/ CountRateLimit(r) \/ RotateProxy(r) \/ ProbeEnds(r) \/ BelowThreshold(r)
                  \/ StartAction(r) \/ ActionEnds(r) \/ Disconnect(r)
           PROVE  ChargedAtMostOnce'
        <3>1. UNCHANGED <<failureCounts, attempt>>
            BY <2>11
               DEF Admit, Respond, SendFails, Resume, Abandon, ReadBody, ReadBodyFails, ResetCount,
                   Write, CountRateLimit, RotateProxy, Rotate, ProbeEnds, BelowThreshold,
                   StartAction, ActionEnds, Disconnect, poolVars, healthVars
        <3>2. /\ pc'[r] \in {"sent", "failed", "reading", "error"}
                     => pc[r] \in {"sent", "failed", "reading", "error"}
              /\ \A q \in Requests \ {r} : pc'[q] = pc[q]
            BY <2>1, <2>11
               DEF Admit, Respond, SendFails, Resume, Abandon, ReadBody, ReadBodyFails, ResetCount,
                   Write, CountRateLimit, RotateProxy, ProbeEnds, BelowThreshold,
                   StartAction, ActionEnds, Disconnect, Goto, Return, RequestTypeOK
        <3>3. Decided(r)' >= Decided(r)
            BY <2>1, <3>1, <3>2 DEF Decided, Undecided, RequestTypeOK
        <3>4. QED
            BY <2>2, <2>5, <2>7, <3>1, <3>2, <3>3
    <2>12. CASE UNCHANGED <<failureCounts, pc, attempt>>
        <3>1. AttemptsDecided' = AttemptsDecided
            BY <2>12 DEF AttemptsDecided, Decided, Undecided
        <3>2. QED
            BY <2>2, <2>5, <2>12, <3>1 DEF ChargedAtMostOnce
    <2>13. QED
        BY <1>2, <2>8, <2>9, <2>10, <2>11, <2>12
           DEF Next, RequestStep, HandlerStep, NetworkStep, ClockTick, AllDone, Tick, vars,
               requestVars, poolVars, healthVars
<1>3. QED
    BY <1>1, <1>2

-----------------------------------------------------------------------------
(* The theorems                                                            *)

GatewayInv == RequestInv /\ PoolInv

LEMMA GatewayInvariant == Spec => []GatewayInv
<1>1. Init => GatewayInv
    BY RequestInvInductive, PoolInvInductive DEF Init, GatewayInv
<1>2. GatewayInv /\ [Next]_vars => GatewayInv'
    BY RequestInvInductive, PoolInvInductive, StepImplementsPool DEF GatewayInv
<1>3. QED
    BY <1>1, <1>2, PTL DEF Spec

\* Every behaviour of the gateway is one of the pool: each step of a handler is
\* one call of a pool method, or leaves the pool alone.
THEOREM GatewayImplementsPool == Spec => PoolSpec
<1>1. Init => PoolInit
    BY DEF Init
<1>2. GatewayInv /\ [Next]_vars => [PoolNext]_poolVars
    BY StepImplementsPool DEF GatewayInv
<1>3. QED
    BY <1>1, <1>2, GatewayInvariant, PTL DEF Spec, PoolSpec

\* What holds of the pool holds in every run of the gateway: health records agree
\* with each other, a session keeps its proxy until a failure of that proxy is on
\* record and never wanders along the ring, and a cool-down covers the backoff.
THEOREM GatewayPoolSafety ==
    Spec => /\ [](RecordsAgree /\ AffinityUntilFailure)
            /\ SessionsDoNotWander
            /\ []DelaysFit => CooldownCoversBackoff
<1>1. QED
    BY GatewayImplementsPool, PoolRecordsAgree, PoolAffinity, PoolSessionsDoNotWander,
       PoolCooldown, PTL

\* Every value of the 429 counter from the threshold upwards is held by a
\* request that is about to reset the counter and run the action.
THEOREM GatewayCrossingsArePending == Spec => []CrossingsArePending
<1>1. GatewayInv => RequestInv
    BY DEF GatewayInv
<1>2. QED
    BY <1>1, CrossingsInductive, GatewayInvariant, PTL DEF Spec

\* No handler returns without an answer unless its client has gone.
THEOREM GatewayNoSilentReturn == Spec => []NoSilentReturn
<1>1. GatewayInv => RequestInv
    BY DEF GatewayInv
<1>2. QED
    BY <1>1, AnswersInductive, GatewayInvariant, PTL DEF Spec

\* The types of the variables, the proxy of the last attempt included.
THEOREM GatewayTypeCorrect == Spec => []GatewayTypeOK
<1> DEFINE RestOK == /\ via \in [Requests -> Indices \cup {NoProxy}]
                     /\ poolMu \in Requests \cup {Nobody}
<1>1. Init => RestOK
    BY DEF Init
<1>2. ASSUME RestOK, [Next]_vars PROVE RestOK'
    <2>1. ASSUME NEW r \in Requests, Attempt(r) PROVE RestOK'
        <3>1. Select(SessionOf[r]) \in Indices
            BY GatewayAssumption, SelectIsAvailable
        <3>2. QED
            BY <1>2, <2>1, <3>1 DEF Attempt
    <2>2. ASSUME NEW r \in Requests, RotateProxy(r) \/ ProbeEnds(r) PROVE RestOK'
        BY <1>2, <2>2 DEF RotateProxy, ProbeEnds
    <2>3. ASSUME NEW r \in Requests,
                 \/ Admit(r) \/ AttemptUnbuildable(r) \/ Respond(r) \/ SendFails(r)
                 \/ ChargeError(r) \/ GiveUp(r) \/ Resume(r) \/ Abandon(r)
                 \/ ReadBody(r) \/ ReadBodyFails(r) \/ ChargeStatus(r) \/ ResetCount(r)
                 \/ Credit(r) \/ Write(r) \/ CountRateLimit(r) \/ BelowThreshold(r)
                 \/ StartAction(r) \/ ActionEnds(r) \/ Disconnect(r)
          PROVE  UNCHANGED <<via, poolMu>>
        BY <2>3
           DEF Admit, AttemptUnbuildable, Respond, SendFails, ChargeError, GiveUp, Resume,
               Abandon, ReadBody, ReadBodyFails, ChargeStatus, ResetCount, Credit, Write,
               CountRateLimit, BelowThreshold, StartAction, ActionEnds, Disconnect
    <2>4. CASE UNCHANGED <<requestVars, poolMu>>
        BY <1>2, <2>4 DEF requestVars
    <2>5. QED
        BY <1>2, <2>1, <2>2, <2>3, <2>4
           DEF Next, RequestStep, HandlerStep, NetworkStep, ClockTick, AllDone, vars
<1>3. GatewayInv /\ RestOK => GatewayTypeOK
    <2> SUFFICES ASSUME GatewayInv, RestOK PROVE GatewayTypeOK
        OBVIOUS
    <2>1. attempt \in [Requests -> 0 .. MaxAttempts]
        BY GatewayAssumption DEF GatewayInv, RequestInv, RequestTypeOK, AttemptsInBounds
    <2>2. QED
        BY <2>1 DEF GatewayInv, RequestInv, RequestTypeOK, PoolInv, GatewayTypeOK
<1> HIDE DEF RestOK
<1>4. QED
    BY <1>1, <1>2, <1>3, GatewayInvariant, PTL DEF Spec

\* While a request handles a 4xx answer, no step of its changes a health record
\* or a cached client.
THEOREM GatewayClientErrors == Spec => ClientErrorsSpareHealth
<1>1. ASSUME RequestInv, [Next]_vars,
             NEW q \in Requests, response[q].status \in 400 .. 499, pc[q] # pc'[q]
      PROVE  UNCHANGED <<healthVars, clientCache>>
    <2>1. /\ pc \in [Requests -> Places]
          /\ pc[q] \notin {"new", "select", "sent", "failed", "pause", "ok", "credit"}
        BY <1>1 DEF RequestInv, RequestTypeOK, ResponseKnown
    <2>2. ASSUME NEW r \in Requests, NEW from, NEW to, Goto(r, from, to)
          PROVE  r = q /\ pc[q] = from
        BY <1>1, <2>1, <2>2 DEF Goto
    <2>3. ASSUME NEW r \in Requests, ChargeStatus(r)
          PROVE  UNCHANGED <<healthVars, clientCache>>
        <3>1. r = q
            BY <2>2, <2>3 DEF ChargeStatus
        <3>2. UnderPoolMu(ReportErrorStatus(CurrentURL, response[q].status, response[q].header))
            BY <2>3, <3>1 DEF ChargeStatus
        <3>3. ~CountsAsFailure(response[q].status, FALSE)
            BY <1>1 DEF CountsAsFailure
        <3>4. QED
            BY <3>2, <3>3 DEF UnderPoolMu, ReportErrorStatus, MarkFailure, poolVars
    <2>4. ASSUME NEW r \in Requests,
                 \/ Admit(r) \/ Attempt(r) \/ AttemptUnbuildable(r) \/ Respond(r)
                 \/ SendFails(r) \/ ChargeError(r) \/ GiveUp(r) \/ Resume(r)
                 \/ Abandon(r) \/ ResetCount(r) \/ Credit(r)
          PROVE  FALSE
        BY <2>1, <2>2, <2>4
           DEF Return, Admit, Attempt, AttemptUnbuildable, Respond, SendFails, ChargeError,
               GiveUp, Resume, Abandon, ResetCount, Credit
    <2>5. ASSUME NEW r \in Requests,
                 \/ ReadBody(r) \/ ReadBodyFails(r) \/ Write(r) \/ CountRateLimit(r)
                 \/ RotateProxy(r) \/ ProbeEnds(r) \/ BelowThreshold(r) \/ StartAction(r)
                 \/ ActionEnds(r) \/ Disconnect(r)
          PROVE  UNCHANGED <<healthVars, clientCache>>
        BY <2>5
           DEF ReadBody, ReadBodyFails, Write, CountRateLimit, RotateProxy, Rotate, ProbeEnds,
               BelowThreshold, StartAction, ActionEnds, Disconnect, poolVars
    <2>6. CASE UNCHANGED pc
        BY <1>1, <2>6
    <2>7. QED
        BY <1>1, <2>3, <2>4, <2>5, <2>6
           DEF Next, RequestStep, HandlerStep, NetworkStep, ClockTick, AllDone, vars, requestVars
<1>2. RequestInv /\ [Next]_vars
          => [\A r \in Requests :
                 response[r].status \in 400 .. 499 /\ pc[r] # pc'[r]
                     => UNCHANGED <<healthVars, clientCache>>]_vars
    BY <1>1
<1>3. GatewayInv => RequestInv
    BY DEF GatewayInv
<1>4. QED
    BY <1>2, <1>3, GatewayInvariant, PTL DEF Spec, ClientErrorsSpareHealth

\* An attempt goes to an available proxy whenever there is one: the proxy is
\* selected in the step that starts the attempt, not carried over from the one
\* before, and selection isolates.
THEOREM GatewayAttemptsAvoidIsolated == Spec => AttemptsAvoidIsolated
<1>1. ASSUME RequestTypeOK, via \in [Requests -> Indices \cup {NoProxy}], [Next]_vars,
             NEW q \in Requests, HasPool, pc[q] = "select", pc'[q] = "sent",
             \E i \in Indices : Available(i)
      PROVE  Available(via'[q])
    <2>1. pc \in [Requests -> Places]
        BY <1>1 DEF RequestTypeOK
    <2>2. ASSUME NEW r \in Requests, NEW from, NEW to, Goto(r, from, to)
          PROVE  r = q /\ from = "select" /\ to = "sent"
        BY <1>1, <2>1, <2>2 DEF Goto
    <2>3. ASSUME NEW r \in Requests, Attempt(r)
          PROVE  Available(via'[q])
        <3>1. r = q /\ via' = [via EXCEPT ![r] = Select(SessionOf[r])]
            BY <1>1, <2>2, <2>3 DEF Attempt
        <3>2. via'[q] = Select(SessionOf[q])
            BY <1>1, <3>1
        <3>3. SessionOf[q] \in Sessions
            BY GatewayAssumption
        <3>4. Available(Select(SessionOf[q]))
            BY <1>1, <3>3, SelectIsolates DEF IsolationHolds
        <3>5. QED
            BY <3>2, <3>4
    <2>4. ASSUME NEW r \in Requests,
                 \/ Admit(r) \/ AttemptUnbuildable(r) \/ Respond(r) \/ SendFails(r)
                 \/ ChargeError(r) \/ GiveUp(r) \/ Resume(r) \/ Abandon(r)
                 \/ ReadBody(r) \/ ReadBodyFails(r) \/ ChargeStatus(r) \/ ResetCount(r)
                 \/ Credit(r) \/ Write(r) \/ CountRateLimit(r) \/ RotateProxy(r)
                 \/ ProbeEnds(r) \/ BelowThreshold(r) \/ StartAction(r) \/ ActionEnds(r)
          PROVE  FALSE
        BY <2>2, <2>4
           DEF Return, Admit, AttemptUnbuildable, Respond, SendFails, ChargeError, GiveUp,
               Resume, Abandon, ReadBody, ReadBodyFails, ChargeStatus, ResetCount, Credit,
               Write, CountRateLimit, RotateProxy, ProbeEnds, BelowThreshold, StartAction,
               ActionEnds
    <2>5. CASE UNCHANGED pc
        BY <1>1, <2>5
    <2>6. QED
        BY <1>1, <2>3, <2>4, <2>5
           DEF Next, RequestStep, HandlerStep, NetworkStep, Disconnect, ClockTick, AllDone,
               vars, requestVars
<1>2. GatewayTypeOK => RequestTypeOK /\ via \in [Requests -> Indices \cup {NoProxy}]
    BY GatewayAssumption DEF GatewayTypeOK, RequestTypeOK
<1>3. GatewayTypeOK /\ [Next]_vars
          => [\A r \in Requests :
                 HasPool /\ pc[r] = "select" /\ pc'[r] = "sent" /\ (\E i \in Indices : Available(i))
                     => Available(via'[r])]_vars
    BY <1>1, <1>2
<1>4. QED
    BY <1>3, GatewayTypeCorrect, PTL DEF Spec, AttemptsAvoidIsolated

\* However many requests report, retry and rotate at once, the failures on record
\* never exceed the attempts that have come to a result: none is charged twice.
THEOREM GatewayChargedAtMostOnce ==
    ASSUME IsFiniteSet(Requests)
    PROVE  Spec => []ChargedAtMostOnce
<1>1. GatewayInv <=> RequestInv /\ PoolInv
    BY DEF GatewayInv
<1>2. GatewayInv' <=> RequestInv' /\ PoolInv'
    BY DEF GatewayInv
<1>3. Init => ChargedAtMostOnce
    BY ChargesInductive
<1>4. GatewayInv /\ GatewayInv' /\ ChargedAtMostOnce /\ [Next]_vars => ChargedAtMostOnce'
    BY <1>1, <1>2, ChargesInductive
<1>5. QED
    BY <1>3, <1>4, GatewayInvariant, PTL DEF Spec
=============================================================================
