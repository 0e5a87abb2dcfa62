------------------------------ MODULE Gateway ------------------------------
(***************************************************************************)
(* internal/proxy/handler.go: what concurrent requests do to the shared    *)
(* state of the handler, from the moment a request is admitted to the      *)
(* moment its answer is written: the retry loop of ServeHTTP, postUpstream,*)
(* onRateLimited and rotateProxy, over the pool of module ProxyPool.       *)
(*                                                                         *)
(* A request is a goroutine; pc says which part of the handler it is in.   *)
(* The shared state is the pool, guarded by poolMu, and the atomic counter *)
(* rateLimitCount.  A critical section of poolMu is one action, except     *)
(* rotateProxy, which keeps the lock while it waits for the network when   *)
(* the egress diagnostics are on: then poolMu says who holds it.           *)
(***************************************************************************)
EXTENDS ProxyPool, Functions

CONSTANTS
    Requests,           \* admitted requests
    SessionOf,          \* SessionOf[r]: the session of request r
    HasPool,            \* h.proxyPool # nil
    RateLimitAction,    \* a rate-limit action is configured
    Threshold,          \* RateLimitActionThreshold
    MaxInt32,           \* the largest value of the counter (2^31 - 1 in the program)
    DiagEgress,         \* the egress diagnostics are on
    MaxAttempts,        \* attempts of one request (3 in the program)
    ClientsLeave,       \* clients may disconnect before their answer
    NetworkFaults,      \* connections fail, time out or break off by themselves
    Nobody              \* poolMu is free

ASSUME GatewayAssumption ==
    /\ SessionOf \in [Requests -> Sessions]
    /\ {HasPool, RateLimitAction, DiagEgress, ClientsLeave, NetworkFaults} \subseteq BOOLEAN
    /\ Threshold \in Int
    /\ MaxInt32 \in Nat \ {0}
    /\ MaxAttempts \in Nat \ {0}
    /\ Nobody \notin Requests

VARIABLES
    pc,             \* where the goroutine of a request is
    attempt,        \* attempts made
    via,            \* proxy of the client the last attempt used
    response,       \* status and Retry-After of the upstream's answer
    count,          \* the value this request's Add(1) returned
    gone,           \* the client has disconnected
    answer,         \* status written to the client, NoAnswer before
    rateLimitCount, \* consecutive 429 answers
    poolMu          \* the request that holds poolMu across a wait

requestVars == <<pc, attempt, via, response, count, gone, answer>>
vars == <<poolVars, requestVars, rateLimitCount, poolMu>>

NoAnswer == 0
NoResponse == [status |-> 0, header |-> AbsentHeader]
NoProxy == -1

InternalServerError == 500
BadGateway == 502
TooManyRequests == 429

\* The parts of onRateLimited between the increment of the counter and the
\* comparison of the value it returned.
RateLimitSection == {"rotate", "probe", "check"}

Places == {"new", "select", "sent", "failed", "pause", "reading", "error",
           "ok", "credit", "count", "acting", "write", "done"} \cup RateLimitSection

-----------------------------------------------------------------------------

\* The step of request r that leads from one place to another.
Goto(r, from, to) ==
    /\ pc[r] = from
    /\ pc' = [pc EXCEPT ![r] = to]

\* The handler returns after writing a status.
Return(r, from, status) ==
    /\ Goto(r, from, "done")
    /\ answer' = [answer EXCEPT ![r] = status]

\* A critical section of poolMu runs only while no other request holds it.
\* Without a pool the section is skipped.
UnderPoolMu(PoolStep) ==
    IF HasPool THEN poolMu = Nobody /\ PoolStep ELSE UNCHANGED poolVars

CurrentURL == URL[current]

-----------------------------------------------------------------------------
(* The retry loop                                                          *)

\* A request enters the retry loop.  The checks and the rewriting of its body
\* before that are in module Conversation.
Admit(r) ==
    /\ Goto(r, "new", "select")
    /\ UNCHANGED <<poolVars, attempt, via, response, count, gone, answer, rateLimitCount, poolMu>>

\* Variant: a retry stays with the client of the first attempt.
AttemptSameClient(r) ==
    /\ Goto(r, "select", "sent")
    /\ HasPool => Buildable(Select(SessionOf[r]))
    /\ UnderPoolMu(ClientForSession(SessionOf[r]))
    /\ attempt' = [attempt EXCEPT ![r] = @ + 1]
    /\ via' = [via EXCEPT ![r] = IF HasPool /\ @ = NoProxy THEN Select(SessionOf[r]) ELSE @]
    /\ UNCHANGED <<response, count, gone, answer, rateLimitCount, poolMu>>

\* One more attempt gets the client of its session and sends the request.  That
\* newReq fails, for a base URL of the configuration that does not parse, is
\* left out.
Attempt(r) ==
    /\ Goto(r, "select", "sent")
    /\ HasPool => Buildable(Select(SessionOf[r]))
    /\ UnderPoolMu(ClientForSession(SessionOf[r]))
    /\ attempt' = [attempt EXCEPT ![r] = @ + 1]
    /\ via' = [via EXCEPT ![r] = IF HasPool THEN Select(SessionOf[r]) ELSE NoProxy]
    /\ UNCHANGED <<response, count, gone, answer, rateLimitCount, poolMu>>

\* The client of the selected proxy cannot be built: 500, without a retry.
AttemptUnbuildable(r) ==
    /\ HasPool /\ ~Buildable(Select(SessionOf[r]))
    /\ Return(r, "select", InternalServerError)
    /\ UnderPoolMu(ClientForSession(SessionOf[r]))
    /\ attempt' = [attempt EXCEPT ![r] = @ + 1]
    /\ UNCHANGED <<via, response, count, gone, rateLimitCount, poolMu>>

\* client.Do returns a response: its status and headers are in.
Respond(r) ==
    \E status \in Statuses, header \in Headers :
        /\ Goto(r, "sent", "reading")
        /\ response' = [response EXCEPT ![r] = [status |-> status, header |-> header]]
        /\ UNCHANGED <<poolVars, attempt, via, count, gone, answer, rateLimitCount, poolMu>>

\* client.Do returns an error: the dial or the exchange failed, the timeout of
\* the client expired, or the context of a client that has gone is cancelled.
SendFails(r) ==
    /\ NetworkFaults \/ gone[r]
    /\ Goto(r, "sent", "failed")
    /\ UNCHANGED <<poolVars, attempt, via, response, count, gone, answer, rateLimitCount, poolMu>>

\* Variant: off by one in the comparison with maxAttempts.
ChargeErrorOnceMore(r) ==
    /\ attempt[r] <= MaxAttempts
    /\ Goto(r, "failed", "pause")
    /\ UnderPoolMu(ReportNetworkError(CurrentURL))
    /\ UNCHANGED <<attempt, via, response, count, gone, answer, rateLimitCount, poolMu>>

\* The error is charged to the current proxy; then the handler pauses before
\* the next attempt.
ChargeError(r) ==
    /\ attempt[r] < MaxAttempts
    /\ Goto(r, "failed", "pause")
    /\ UnderPoolMu(ReportNetworkError(CurrentURL))
    /\ UNCHANGED <<attempt, via, response, count, gone, answer, rateLimitCount, poolMu>>

\* The same on the last attempt: 502.
GiveUp(r) ==
    /\ attempt[r] >= MaxAttempts
    /\ Return(r, "failed", BadGateway)
    /\ UnderPoolMu(ReportNetworkError(CurrentURL))
    /\ UNCHANGED <<attempt, via, response, count, gone, rateLimitCount, poolMu>>

\* Variant: the failure is reported again when the next attempt starts.
ResumeCharging(r) ==
    /\ Goto(r, "pause", "select")
    /\ UnderPoolMu(ReportNetworkError(CurrentURL))
    /\ UNCHANGED <<attempt, via, response, count, gone, answer, rateLimitCount, poolMu>>

\* The pause (200 ms, 400 ms) is over.
Resume(r) ==
    /\ Goto(r, "pause", "select")
    /\ UNCHANGED <<poolVars, attempt, via, response, count, gone, answer, rateLimitCount, poolMu>>

\* The client goes away during the pause: the handler returns in silence.
Abandon(r) ==
    /\ gone[r]
    /\ Goto(r, "pause", "done")
    /\ UNCHANGED <<poolVars, attempt, via, response, count, gone, answer, rateLimitCount, poolMu>>

-----------------------------------------------------------------------------
(* The response                                                            *)

\* The body of the response is in memory.
ReadBody(r) ==
    /\ Goto(r, "reading", IF response[r].status >= 400 THEN "error" ELSE "ok")
    /\ UNCHANGED <<poolVars, attempt, via, response, count, gone, answer, rateLimitCount, poolMu>>

\* Variant: the error is logged and no answer written.
ReadBodyFailsSilently(r) ==
    /\ NetworkFaults \/ gone[r]
    /\ Goto(r, "reading", "done")
    /\ UNCHANGED <<poolVars, attempt, via, response, count, gone, answer, rateLimitCount, poolMu>>

\* The body breaks off or is too large: 502, and nothing is recorded.
ReadBodyFails(r) ==
    /\ NetworkFaults \/ gone[r]
    /\ Return(r, "reading", BadGateway)
    /\ UNCHANGED <<poolVars, attempt, via, response, count, gone, rateLimitCount, poolMu>>

\* postUpstream, an error status: report it against the current proxy.
ChargeStatus(r) ==
    /\ Goto(r, "error", IF response[r].status = TooManyRequests THEN "count" ELSE "write")
    /\ UnderPoolMu(ReportErrorStatus(CurrentURL, response[r].status, response[r].header))
    /\ UNCHANGED <<attempt, via, response, count, gone, answer, rateLimitCount, poolMu>>

\* postUpstream, success: the consecutive-429 counter is reset ...
ResetCount(r) ==
    /\ Goto(r, "ok", "credit")
    /\ rateLimitCount' = 0
    /\ UNCHANGED <<poolVars, attempt, via, response, count, gone, answer, poolMu>>

\* ... and the success credited to the current proxy.
Credit(r) ==
    /\ Goto(r, "credit", "write")
    /\ UnderPoolMu(MarkSuccess(CurrentURL))
    /\ UNCHANGED <<attempt, via, response, count, gone, answer, rateLimitCount, poolMu>>

\* The upstream's status and body go to the client.  w.Write waits for a client
\* that does not read: the server sets no WriteTimeout.
Write(r) ==
    /\ Return(r, "write", response[r].status)
    /\ UNCHANGED <<poolVars, attempt, via, response, count, gone, rateLimitCount, poolMu>>

-----------------------------------------------------------------------------
(* onRateLimited                                                           *)

\* rateLimitCount.Add(1).  Without a pool and without an action there is
\* nothing more to do.
CountRateLimit(r) ==
    /\ Goto(r, "count", IF HasPool THEN "rotate" ELSE IF RateLimitAction THEN "check" ELSE "write")
    /\ rateLimitCount' = rateLimitCount + 1
    /\ count' = [count EXCEPT ![r] = rateLimitCount + 1]
    /\ UNCHANGED <<poolVars, attempt, via, response, gone, answer, poolMu>>

\* Variant: the rotation also charges the proxy that was limited.
RotateProxyCharging(r) ==
    /\ poolMu = Nobody
    /\ Goto(r, "rotate", "check")
    /\ RecordFailure(current, AbsentHeader, now)
    /\ current' = (current + 1) % N
    /\ UNCHANGED <<now, attempt, via, response, count, gone, answer, rateLimitCount, poolMu>>

\* rotateProxy: the lock is kept for the probe if the egress diagnostics are on
\* and the client of the new proxy could be built.
RotateProxy(r) ==
    LET probes == DiagEgress /\ Buildable((current + 1) % N)
    IN  /\ poolMu = Nobody
        /\ Goto(r, "rotate", IF probes THEN "probe" ELSE "check")
        /\ poolMu' = IF probes THEN r ELSE Nobody
        /\ Rotate
        /\ UNCHANGED <<attempt, via, response, count, gone, answer, rateLimitCount>>

\* Variant: the unlock is forgotten.
ProbeEndsLocked(r) ==
    /\ Goto(r, "probe", "check")
    /\ UNCHANGED <<poolVars, attempt, via, response, count, gone, answer, rateLimitCount, poolMu>>

\* The egress probe is answered or fails; rotateProxy unlocks.
ProbeEnds(r) ==
    /\ Goto(r, "probe", "check")
    /\ poolMu' = Nobody
    /\ UNCHANGED <<poolVars, attempt, via, response, count, gone, answer, rateLimitCount>>

\* int32(threshold): the configured number is wider than the counter.
WrapInt32(x) == ((x + MaxInt32 + 1) % (2 * MaxInt32 + 2)) - MaxInt32 - 1

\* The value this request counted, not the counter, is compared.
ReachesThreshold(r) == RateLimitAction /\ Threshold > 0 /\ count[r] >= WrapInt32(Threshold)

BelowThreshold(r) ==
    /\ ~ReachesThreshold(r)
    /\ Goto(r, "check", "write")
    /\ UNCHANGED <<poolVars, attempt, via, response, count, gone, answer, rateLimitCount, poolMu>>

\* Variants: the counter is not reset; the command runs with poolMu held.
StartActionNoReset(r) ==
    /\ ReachesThreshold(r)
    /\ Goto(r, "check", "acting")
    /\ UNCHANGED <<poolVars, attempt, via, response, count, gone, answer, rateLimitCount, poolMu>>

StartActionLocked(r) ==
    /\ ReachesThreshold(r)
    /\ poolMu = Nobody
    /\ Goto(r, "check", "acting")
    /\ rateLimitCount' = 0
    /\ poolMu' = r
    /\ UNCHANGED <<poolVars, attempt, via, response, count, gone, answer>>

\* The counter is reset and the external command started.
StartAction(r) ==
    /\ ReachesThreshold(r)
    /\ Goto(r, "check", "acting")
    /\ rateLimitCount' = 0
    /\ UNCHANGED <<poolVars, attempt, via, response, count, gone, answer, poolMu>>

\* The external command exits, with or without an error.
ActionEnds(r) ==
    /\ Goto(r, "acting", "write")
    /\ UNCHANGED <<poolVars, attempt, via, response, count, gone, answer, rateLimitCount, poolMu>>

-----------------------------------------------------------------------------
(* The environment                                                         *)

\* The client of a request in progress disconnects.
Disconnect(r) ==
    /\ ClientsLeave
    /\ pc[r] \notin {"new", "done"}
    /\ ~gone[r]
    /\ gone' = [gone EXCEPT ![r] = TRUE]
    /\ UNCHANGED <<poolVars, pc, attempt, via, response, count, answer, rateLimitCount, poolMu>>

ClockTick ==
    /\ Tick
    /\ UNCHANGED <<requestVars, rateLimitCount, poolMu>>

\* Nothing is left to do.
AllDone ==
    /\ \A r \in Requests : pc[r] = "done"
    /\ UNCHANGED vars

-----------------------------------------------------------------------------

Init ==
    /\ PoolInit
    /\ pc = [r \in Requests |-> "new"]
    /\ attempt = [r \in Requests |-> 0]
    /\ via = [r \in Requests |-> NoProxy]
    /\ response = [r \in Requests |-> NoResponse]
    /\ count = [r \in Requests |-> 0]
    /\ gone = [r \in Requests |-> FALSE]
    /\ answer = [r \in Requests |-> NoAnswer]
    /\ rateLimitCount = 0
    /\ poolMu = Nobody

\* The steps of the goroutine of a request that do not wait for the network,
\* the external command or its own client.  The statuses that Return writes in
\* them come with a line of text, which the buffers take without a reader.
HandlerStep(r) ==
    \/ Attempt(r) \/ AttemptUnbuildable(r)
    \/ ChargeError(r) \/ GiveUp(r) \/ Resume(r) \/ Abandon(r)
    \/ ChargeStatus(r) \/ ResetCount(r) \/ Credit(r)
    \/ CountRateLimit(r) \/ RotateProxy(r) \/ BelowThreshold(r) \/ StartAction(r)

\* What the network does; http.Client.Timeout ends each of these waits.
NetworkStep(r) ==
    \/ Respond(r) \/ SendFails(r)
    \/ ReadBody(r) \/ ReadBodyFails(r)
    \/ ProbeEnds(r)

RequestStep ==
    \E r \in Requests :
        \/ Admit(r) \/ HandlerStep(r) \/ NetworkStep(r)
        \/ ActionEnds(r) \/ Write(r) \/ Disconnect(r)

Next == RequestStep \/ ClockTick \/ AllDone

Spec == Init /\ [][Next]_vars

\* The Go scheduler runs every goroutine that can run, a mutex that is free is
\* eventually got, and every wait for the network ends by http.Client.Timeout.
\* Nothing bounds the external command, nor the write to a client that does not
\* read: no fairness for ActionEnds and Write.
Fairness == \A r \in Requests : WF_vars(HandlerStep(r)) /\ WF_vars(NetworkStep(r))

FairSpec == Spec /\ Fairness

-----------------------------------------------------------------------------
(* Properties                                                              *)

\* The types of the variables.
GatewayTypeOK ==
    /\ PoolTypeOK
    /\ pc \in [Requests -> Places]
    /\ attempt \in [Requests -> 0 .. MaxAttempts]
    /\ via \in [Requests -> Indices \cup {NoProxy}]
    /\ response \in [Requests -> [status : Statuses \cup {0}, header : Headers \cup {AbsentHeader}]]
    /\ count \in [Requests -> Nat]
    /\ gone \in [Requests -> BOOLEAN]
    /\ answer \in [Requests -> Statuses \cup {NoAnswer, InternalServerError, BadGateway}]
    /\ rateLimitCount \in Nat
    /\ poolMu \in Requests \cup {Nobody}

\* No threshold crossing is lost.  Every value the counter has taken from the
\* threshold upwards was returned to a request that has yet to compare it, and
\* so will reset the counter and run the action: however concurrent 429s
\* interleave, the counter never sits at or above the threshold with nobody
\* about to act on it.
CrossingsArePending ==
    RateLimitAction /\ Threshold > 0
        => \A v \in 1 .. rateLimitCount :
              v >= WrapInt32(Threshold)
                  => \E r \in Requests : pc[r] \in RateLimitSection /\ count[r] = v

\* A handler that has returned has written an answer, unless its client had
\* gone: no path of the retry loop falls through without one.
NoSilentReturn ==
    \A r \in Requests : pc[r] = "done" /\ answer[r] = NoAnswer => gone[r]

\* The outcome of the last attempt of r is not recorded yet.
Undecided(r) == pc[r] \in {"sent", "failed", "reading", "error"}

Decided(r) == attempt[r] - (IF Undecided(r) THEN 1 ELSE 0)

AttemptsDecided == SumFunction([r \in Requests |-> Decided(r)])
FailuresOnRecord == SumFunction(failureCounts)

\* An attempt is charged at most once: the failures on record, over all
\* proxies, never exceed the attempts whose outcome is known.
ChargedAtMostOnce == FailuresOnRecord <= AttemptsDecided

\* A 4xx answer, the 429 included, leaves every health record and every cached
\* client alone while its request is handled (AGENT.md:32).
ClientErrorsSpareHealth ==
    [][\A r \in Requests :
          response[r].status \in 400 .. 499 /\ pc[r] # pc'[r]
              => UNCHANGED <<healthVars, clientCache>>]_vars

\* An attempt goes to an available proxy whenever there is one, also when
\* failures recorded by other requests arrive between the attempts
\* (handler.go:267-270).
AttemptsAvoidIsolated ==
    [][\A r \in Requests :
          HasPool /\ pc[r] = "select" /\ pc'[r] = "sent" /\ (\E i \in Indices : Available(i))
              => Available(via'[r])]_vars

\* Every admitted request gets as far as the two waits that nothing bounds, for
\* its external command and for its own client to read the answer, or ends
\* before: neither wait of one request ever keeps another one from getting there.
EveryRequestEnds ==
    \A r \in Requests : pc[r] = "select" ~> pc[r] \in {"acting", "write", "done"}

\* The lock is not kept for ever, though it is kept across an egress probe.
LockIsReleased == poolMu # Nobody ~> poolMu = Nobody

-----------------------------------------------------------------------------
(* What the documentation states and the code does not do                  *)

\* "Now tracks which proxy caused the error" (AGENT.md:49): a network error is
\* charged to the proxy the failed attempt went through.  The code charges
\* proxyPool.Current(), which session affinity never consults.
BlameFollowsRequest ==
    [][\A r \in Requests :
          HasPool /\ pc[r] = "failed" /\ pc'[r] # "failed"
              => failureCounts'[via[r]] > failureCounts[via[r]]]_vars

\* "Only count real proxy failures" (proxy_pool.go:262): nothing is recorded
\* against any proxy while the network works and the upstream answers below
\* 500.  A client that leaves makes client.Do fail, which the handler takes for
\* an error of the proxy.
OnlyRealFailuresCount ==
    ~NetworkFaults /\ (\A s \in Statuses : s < 500)
        => \A i \in Indices : failureCounts[i] = 0
=============================================================================
