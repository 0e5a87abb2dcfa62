----------------------------- MODULE ProxyPool -----------------------------
(***************************************************************************)
(* config/proxy_pool.go: a ring of upstream proxies with a health record   *)
(* per proxy and a preferred proxy per session.                            *)
(*                                                                         *)
(* Every method is one action here.  That is the granularity at which the  *)
(* program uses the pool: internal/proxy/handler.go calls each of them     *)
(* with poolMu held.  Module PoolSteps opens the methods up into           *)
(* their single loads and stores and shows that the lock makes them atomic.*)
(*                                                                         *)
(* A proxy is its position in the list.  Two positions may hold the same   *)
(* URL, because the loader does not remove duplicates; MarkSuccess and     *)
(* MarkFailure are given a URL and act on the first position that has it.  *)
(***************************************************************************)
EXTENDS Retry

CONSTANTS
    N,          \* number of proxies in the list
    URL,        \* URL[i] is the text of the i-th proxy
    Broken,     \* positions whose URL cannot be turned into an HTTP client
    Sessions,   \* session identifiers
    Hash,       \* Hash[s]: FNV-1a of the session identifier
    BaseDelay,  \* 15 s
    MaxDelay,   \* 2 min
    Statuses,   \* status codes an upstream answers with
    Headers     \* Retry-After headers an upstream answers with

Indices == 0 .. N - 1
URLs == {URL[i] : i \in Indices}

\* Position 0 is never broken: proxy.New builds the client of the first proxy
\* and refuses to start when that fails (handler.go:84-87).
ASSUME PoolAssumption ==
    /\ N \in Nat \ {0}
    /\ DOMAIN URL = Indices
    /\ Broken \subseteq Indices \ {0}
    /\ Hash \in [Sessions -> Nat]

\* The shifted base delay does not overflow: 16 * 15 s is far below 2^63 ns.
ASSUME DelayAssumption ==
    /\ BaseDelay \in Nat \ {0}
    /\ MaxDelay \in Nat
    /\ BaseDelay <= MaxDelay
    /\ 16 * BaseDelay <= MaxInt64
    /\ MaxDelay <= MaxInt64

ASSUME ResponseAssumption ==
    /\ Statuses \subseteq Nat \ {0}
    /\ \A h \in Headers : h.form \in {"absent", "other", "seconds", "date"} /\ h.value \in Int

VARIABLES
    current,        \* position the round robin stands at
    healthy,        \* healthy[i]: not marked unhealthy
    failureCounts,  \* consecutive failures recorded
    cooldownUntil,  \* instant at which the cool-down ends, as int64 nanoseconds
    clientCache,    \* clientCache[i]: an http.Client is cached
    now             \* the clock

healthVars == <<healthy, failureCounts, cooldownUntil>>
poolVars == <<current, healthVars, clientCache, now>>

UnhealthyAfter == 3

-----------------------------------------------------------------------------
(* Choosing a proxy                                                        *)

Preferred(session) == Hash[session] % N

Available(i) == healthy[i] /\ cooldownUntil[i] <= now

\* Position of the k-th probe of the ring scan that starts at i.
Probe(i, k) == (i + k) % N

\* Variants of Select: the scan starts at the round-robin position; it looks at
\* the health flag only; it keeps the last hit instead of the first.
SelectFromCurrent(session) ==
    LET hits == {k \in Indices : Available(Probe(current, k))}
    IN  IF hits = {} THEN current
        ELSE Probe(current, CHOOSE k \in hits : \A m \in hits : k <= m)

SelectHealthy(session) ==
    LET p == Preferred(session)
        hits == {k \in Indices : healthy[Probe(p, k)]}
    IN  IF hits = {} THEN p
        ELSE Probe(p, CHOOSE k \in hits : \A m \in hits : k <= m)

SelectLastHit(session) ==
    LET p == Preferred(session)
        hits == {k \in Indices : Available(Probe(p, k))}
    IN  IF hits = {} THEN p
        ELSE Probe(p, CHOOSE k \in hits : \A m \in hits : k >= m)

\* The preferred proxy when it is available, else the first available one
\* after it in ring order, else the preferred one regardless.
Select(session) ==
    LET p == Preferred(session)
        hits == {k \in Indices : Available(Probe(p, k))}
    IN  IF hits = {} THEN p
        ELSE Probe(p, CHOOSE k \in hits : \A m \in hits : k <= m)

\* newHTTPClient(timeout, proxies[i], forceIPv6) succeeds.
Buildable(i) == i \notin Broken

\* The cached client of the selected proxy, built and cached on first use.  A
\* build that fails leaves the cache empty and the caller gets the error.
ClientForSession(session) ==
    /\ clientCache' = [clientCache EXCEPT ![Select(session)] = @ \/ Buildable(Select(session))]
    /\ UNCHANGED <<current, healthVars, now>>

-----------------------------------------------------------------------------
(* Recording outcomes                                                      *)

\* The position the loop over p.proxies stops at.
IndexOf(url) == CHOOSE i \in Indices : URL[i] = url /\ \A j \in Indices : URL[j] = url => i <= j

\* Variant: every error status counts.
CountsFrom400(status, isNetworkError) ==
    isNetworkError \/ ~(status > 0 /\ status < 400)

\* A status of zero ("none") passes the test for a business error.
CountsAsFailure(status, isNetworkError) ==
    isNetworkError \/ ~(status > 0 /\ status < 500)

\* Variant: a Retry-After delay replaces the backoff also when it is shorter.
BackoffReplaced(failures, header, seen) ==
    LET retryAfter == ParseRetryAfter(header, seen)
    IN  IF retryAfter > 0 THEN retryAfter ELSE ExponentialBackoff(failures, BaseDelay, MaxDelay)

\* The exponential backoff, or the Retry-After delay when that is longer.  A
\* date is compared with the clock as time.Until has seen it.
Backoff(failures, header, seen) ==
    LET backoff    == ExponentialBackoff(failures, BaseDelay, MaxDelay)
        retryAfter == ParseRetryAfter(header, seen)
    IN  IF retryAfter > backoff THEN retryAfter ELSE backoff

\* The clock is read again, by time.Now(), for the deadline.
RecordFailure(i, header, seen) ==
    LET failures == failureCounts[i] + 1
    IN  /\ failureCounts' = [failureCounts EXCEPT ![i] = failures]
        /\ cooldownUntil' = [cooldownUntil EXCEPT ![i] = WrapInt64(now + Backoff(failures, header, seen))]
        /\ healthy' = [healthy EXCEPT ![i] = @ /\ failures < UnhealthyAfter]
        /\ clientCache' = [clientCache EXCEPT ![i] = FALSE]

MarkFailure(url, status, isNetworkError, header, seen) ==
    /\ IF CountsAsFailure(status, isNetworkError)
       THEN RecordFailure(IndexOf(url), header, seen)
       ELSE UNCHANGED <<healthVars, clientCache>>
    /\ UNCHANGED <<current, now>>

\* Variant: the cool-down is not reset.
MarkSuccessStillCooling(url) ==
    LET i == IndexOf(url)
    IN  /\ failureCounts' = [failureCounts EXCEPT ![i] = 0]
        /\ healthy' = [healthy EXCEPT ![i] = TRUE]
        /\ clientCache' = [clientCache EXCEPT ![i] = FALSE]
        /\ UNCHANGED <<current, cooldownUntil, now>>

MarkSuccess(url) ==
    LET i == IndexOf(url)
    IN  /\ failureCounts' = [failureCounts EXCEPT ![i] = 0]
        /\ cooldownUntil' = [cooldownUntil EXCEPT ![i] = 0]
        /\ healthy' = [healthy EXCEPT ![i] = TRUE]
        /\ clientCache' = [clientCache EXCEPT ![i] = FALSE]
        /\ UNCHANGED <<current, now>>

\* Variant: no wrap-around at the end of the list.
RotatePastEnd ==
    /\ current' = current + 1
    /\ UNCHANGED <<healthVars, clientCache, now>>

\* The next position, whatever its health.
Rotate ==
    /\ current' = (current + 1) % N
    /\ UNCHANGED <<healthVars, clientCache, now>>

\* Time passes.
Tick ==
    /\ now' = now + 1
    /\ UNCHANGED <<current, healthVars, clientCache>>

-----------------------------------------------------------------------------

PoolInit ==
    /\ current = 0
    /\ healthy = [i \in Indices |-> TRUE]
    /\ failureCounts = [i \in Indices |-> 0]
    /\ cooldownUntil = [i \in Indices |-> 0]
    /\ clientCache = [i \in Indices |-> FALSE]
    /\ now = 0

\* A caller reports a request that got no answer, or an error answer.  The
\* first of the two reads of the clock is any time before the second one.
ReportNetworkError(url) == MarkFailure(url, 0, TRUE, AbsentHeader, now)
ReportErrorStatus(url, status, header) ==
    \E seen \in 0 .. now : MarkFailure(url, status, FALSE, header, seen)

Serve == \E s \in Sessions : ClientForSession(s)

Report ==
    \/ \E url \in URLs : ReportNetworkError(url)
    \/ \E url \in URLs, status \in {s \in Statuses : s >= 400}, header \in Headers :
          ReportErrorStatus(url, status, header)

Recover == \E url \in URLs : MarkSuccess(url)

PoolNext == Serve \/ Report \/ Recover \/ Rotate \/ Tick

PoolSpec == PoolInit /\ [][PoolNext]_poolVars

-----------------------------------------------------------------------------
(* Properties                                                              *)

\* The types of the variables.
PoolTypeOK ==
    /\ current \in Indices
    /\ healthy \in [Indices -> BOOLEAN]
    /\ failureCounts \in [Indices -> Nat]
    /\ cooldownUntil \in [Indices -> Int64]
    /\ clientCache \in [Indices -> BOOLEAN]
    /\ now \in Nat

\* The three parts of a health record are stored separately and must agree:
\* a proxy is marked unhealthy exactly from its third consecutive failure on,
\* and a clean proxy has no cool-down left over from earlier failures.
RecordsAgree ==
    \A i \in Indices :
        /\ healthy[i] <=> failureCounts[i] < UnhealthyAfter
        /\ failureCounts[i] = 0 => cooldownUntil[i] = 0

\* Session affinity: a session is served by the proxy its identifier hashes to
\* as long as no failure of that proxy is on record, whatever happens to the
\* other proxies and wherever the round robin stands.
AffinityUntilFailure ==
    \A s \in Sessions :
        failureCounts[Preferred(s)] = 0 => Select(s) = Preferred(s)

\* Isolation: no session is sent to a proxy that is unhealthy or cooling down
\* while some other proxy is available.
IsolationHolds ==
    \A s \in Sessions :
        (\E i \in Indices : Available(i)) => Available(Select(s))

Distance(session, i) == (i + N - Preferred(session)) % N

\* A session leaves a proxy that is still available only to come back towards
\* its preferred one: no step makes it wander to a proxy further along.
SessionsDoNotWander ==
    [][\A s \in Sessions, i \in Indices :
          i = Select(s) /\ i # Select(s)' /\ Available(i)'
              => Distance(s, Select(s)') < Distance(s, i)]_poolVars

\* A recorded failure keeps the proxy out for the exponential backoff its
\* failure count calls for, counted from the failure, at least: a Retry-After
\* header only ever lengthens it.
CooldownCoversBackoff ==
    [][\A i \in Indices :
          failureCounts'[i] > failureCounts[i]
              => cooldownUntil'[i] >= now + ExponentialBackoff(failureCounts'[i], BaseDelay, MaxDelay)]_poolVars
=============================================================================
