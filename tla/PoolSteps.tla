----------------------------- MODULE PoolSteps -----------------------------
(***************************************************************************)
(* The methods of config.ProxyPool opened up into their single loads and   *)
(* stores, called by concurrent goroutines as internal/proxy/handler.go    *)
(* calls them: inside a critical section of Handler.poolMu, each method    *)
(* taking ProxyPool.mu for itself.  The fields of the pool are atomics and *)
(* ClientForSession reads them without ProxyPool.mu, so that only poolMu   *)
(* keeps a selection from seeing a record that is half written, and only   *)
(* poolMu ties the URL that Current returns to the call that uses it.      *)
(*                                                                         *)
(* A section also runs the one-step operation of module ProxyPool that it  *)
(* stands for, on a second copy of the pool, at the step that fixes its    *)
(* outcome: where it last reads the clock, or takes ProxyPool.mu when it   *)
(* does not.  Whenever poolMu is free the two copies agree: the sections   *)
(* are atomic, as modules ProxyPool and Gateway have them.                 *)
(*                                                                         *)
(* The clock moves between any two steps.  MarkFailure reads it twice: in  *)
(* time.Until, for a Retry-After date, and in time.Now(), for the deadline.*)
(***************************************************************************)
EXTENDS ProxyPool

CONSTANTS
    Goroutines,     \* handler goroutines
    Nobody          \* a mutex is free

ASSUME GoroutineAssumption == Nobody \notin Goroutines

VARIABLES
    poolMu,         \* the goroutine that holds Handler.poolMu
    mu,             \* the goroutine that holds ProxyPool.mu
    pc,             \* the next step of each goroutine
    local,          \* its arguments and local variables
    theCurrent, theHealthy, theFailureCounts, theCooldownUntil, theClientCache

theFields == <<theCurrent, theHealthy, theFailureCounts, theCooldownUntil, theClientCache>>
fields == <<current, healthVars, clientCache>>
vars == <<poolVars, theFields, poolMu, mu, pc, local>>

\* The one-step operations on the second copy.
Atomic == INSTANCE ProxyPool WITH
    current <- theCurrent, healthy <- theHealthy, failureCounts <- theFailureCounts,
    cooldownUntil <- theCooldownUntil, clientCache <- theClientCache

Idle == [session |-> "none", outcome |-> "none", status |-> 0, header |-> AbsentHeader,
         url |-> "none", probe |-> 0, index |-> 0, failures |-> 0, time |-> 0]

-----------------------------------------------------------------------------

Goto(g, from, to) == pc[g] = from /\ pc' = [pc EXCEPT ![g] = to]

\* Variant: poolMu is not taken.
EnterUnlocked(g, to, args) ==
    /\ Goto(g, "idle", to)
    /\ poolMu' = g
    /\ local' = [local EXCEPT ![g] = args]
    /\ UNCHANGED <<poolVars, theFields, mu>>

\* A section starts with poolMu, and ends by releasing it.
Enter(g, to, args) ==
    /\ Goto(g, "idle", to)
    /\ poolMu = Nobody
    /\ poolMu' = g
    /\ local' = [local EXCEPT ![g] = args]
    /\ UNCHANGED <<poolVars, theFields, mu>>

Leave(g) ==
    /\ Goto(g, "unlock", "idle")
    /\ poolMu' = Nobody
    /\ local' = [local EXCEPT ![g] = Idle]
    /\ UNCHANGED <<poolVars, theFields, mu>>

\* ProxyPool.mu is taken, and released.
Lock(g)   == mu = Nobody /\ mu' = g
Unlock(g) == mu' = Nobody

-----------------------------------------------------------------------------
(* ClientForSession                                                        *)

EnterServe(g) == \E s \in Sessions : Enter(g, "clock", [Idle EXCEPT !.session = s])

\* The clock is read once, before any record.
ReadClock(g) ==
    /\ Goto(g, "clock", "health")
    /\ local' = [local EXCEPT ![g].time = now, ![g].index = Preferred(local[g].session)]
    /\ Atomic!ClientForSession(local[g].session)
    /\ UNCHANGED <<fields, poolMu, mu>>

\* The next proxy to look at: the preferred one first, then the ring from the
\* preferred one on, which looks at it again, then the preferred one unseen.
NextProbe(g) ==
    LET p == Preferred(local[g].session)
        k == local[g].probe + 1
    IN  /\ local' = [local EXCEPT ![g].probe = k, ![g].index = IF k <= N THEN Probe(p, k - 1) ELSE p]
        /\ pc' = [pc EXCEPT ![g] = IF k <= N THEN "health" ELSE "cached"]

LoadHealth(g) ==
    /\ pc[g] = "health"
    /\ IF healthy[local[g].index]
       THEN pc' = [pc EXCEPT ![g] = "cooldown"] /\ UNCHANGED local
       ELSE NextProbe(g)
    /\ UNCHANGED <<poolVars, theFields, poolMu, mu>>

LoadCooldown(g) ==
    /\ pc[g] = "cooldown"
    /\ IF cooldownUntil[local[g].index] <= local[g].time
       THEN pc' = [pc EXCEPT ![g] = "cached"] /\ UNCHANGED local
       ELSE NextProbe(g)
    /\ UNCHANGED <<poolVars, theFields, poolMu, mu>>

\* The cached client, without ProxyPool.mu.
LoadClient(g) ==
    /\ clientCache[local[g].index]
    /\ Goto(g, "cached", "unlock")
    /\ UNCHANGED <<poolVars, theFields, poolMu, mu, local>>

LockToBuild(g) ==
    /\ ~clientCache[local[g].index]
    /\ Goto(g, "cached", "recheck")
    /\ Lock(g)
    /\ UNCHANGED <<poolVars, theFields, poolMu, local>>

\* Variant: the early return keeps ProxyPool.mu.
NothingToStoreLocked(g) ==
    /\ clientCache[local[g].index] \/ ~Buildable(local[g].index)
    /\ Goto(g, "recheck", "unlock")
    /\ UNCHANGED <<poolVars, theFields, poolMu, mu, local>>

\* Another goroutine has built it, or it cannot be built.
NothingToStore(g) ==
    /\ clientCache[local[g].index] \/ ~Buildable(local[g].index)
    /\ Goto(g, "recheck", "unlock")
    /\ Unlock(g)
    /\ UNCHANGED <<poolVars, theFields, poolMu, local>>

Build(g) ==
    /\ ~clientCache[local[g].index] /\ Buildable(local[g].index)
    /\ Goto(g, "recheck", "build")
    /\ UNCHANGED <<poolVars, theFields, poolMu, mu, local>>

StoreClient(g) ==
    /\ Goto(g, "build", "unlock")
    /\ clientCache' = [clientCache EXCEPT ![local[g].index] = TRUE]
    /\ Unlock(g)
    /\ UNCHANGED <<current, healthVars, now, theFields, poolMu, local>>

-----------------------------------------------------------------------------
(* Current, then MarkFailure or MarkSuccess                                *)

EnterReport(g) ==
    \/ Enter(g, "current", [Idle EXCEPT !.outcome = "network error"])
    \/ \E status \in {s \in Statuses : s >= 400}, header \in Headers :
          Enter(g, "current", [Idle EXCEPT !.outcome = "error status", !.status = status, !.header = header])

IsNetworkError(g) == local[g].outcome = "network error"
FailureCounts(g) == CountsAsFailure(local[g].status, IsNetworkError(g))

ReadCurrent(g) ==
    /\ Goto(g, "current", IF local[g].outcome = "success" THEN "credit" ELSE "report")
    /\ mu = Nobody
    /\ local' = [local EXCEPT ![g].url = URL[current], ![g].index = IndexOf(URL[current])]
    /\ UNCHANGED <<poolVars, theFields, poolMu, mu>>

ReturnEarly(g) ==
    /\ ~FailureCounts(g)
    /\ Goto(g, "report", "unlock")
    /\ Atomic!MarkFailure(URL[theCurrent], local[g].status, FALSE, local[g].header, now)
    /\ UNCHANGED <<fields, poolMu, mu, local>>

LockToReport(g) ==
    /\ FailureCounts(g)
    /\ Goto(g, "report", "add")
    /\ Lock(g)
    /\ UNCHANGED <<poolVars, theFields, poolMu, local>>

AddFailure(g) ==
    LET i == local[g].index
    IN  /\ Goto(g, "add", "parse")
        /\ failureCounts' = [failureCounts EXCEPT ![i] = @ + 1]
        /\ local' = [local EXCEPT ![g].failures = failureCounts[i] + 1]
        /\ UNCHANGED <<current, healthy, cooldownUntil, clientCache, now, theFields, poolMu, mu>>

\* time.Until of the header's date: the first of the two clocks.
ReadHeader(g) ==
    /\ Goto(g, "parse", "deadline")
    /\ local' = [local EXCEPT ![g].time = now]
    /\ UNCHANGED <<poolVars, theFields, poolMu, mu>>

\* Variant: the two clocks are read in the other order.
ReadDeadlineFirst(g) ==
    /\ Goto(g, "deadline", "cool")
    /\ local' = [local EXCEPT ![g].time = WrapInt64(@ + Backoff(local[g].failures, local[g].header, now))]
    /\ Atomic!MarkFailure(URL[theCurrent], local[g].status, IsNetworkError(g), local[g].header, local[g].time)
    /\ UNCHANGED <<fields, poolMu, mu>>

\* time.Now() of the deadline: the second one, to which the delay that the
\* first one gave is added.
ReadDeadline(g) ==
    /\ Goto(g, "deadline", "cool")
    /\ local' = [local EXCEPT ![g].time = WrapInt64(now + Backoff(local[g].failures, local[g].header, @))]
    /\ Atomic!MarkFailure(URL[theCurrent], local[g].status, IsNetworkError(g), local[g].header, local[g].time)
    /\ UNCHANGED <<fields, poolMu, mu>>

StoreCooldown(g) ==
    /\ Goto(g, "cool", IF local[g].failures >= UnhealthyAfter THEN "demote" ELSE "drop")
    /\ cooldownUntil' = [cooldownUntil EXCEPT ![local[g].index] = local[g].time]
    /\ UNCHANGED <<current, healthy, failureCounts, clientCache, now, theFields, poolMu, mu, local>>

SwapUnhealthy(g) ==
    /\ Goto(g, "demote", "drop")
    /\ healthy' = [healthy EXCEPT ![local[g].index] = FALSE]
    /\ UNCHANGED <<current, failureCounts, cooldownUntil, clientCache, now, theFields, poolMu, mu, local>>

\* invalidateCache; ProxyPool.mu is released on return.
DropClient(g) ==
    /\ Goto(g, "drop", "unlock")
    /\ clientCache' = [clientCache EXCEPT ![local[g].index] = FALSE]
    /\ Unlock(g)
    /\ UNCHANGED <<current, healthVars, now, theFields, poolMu, local>>

EnterSuccess(g) == Enter(g, "current", [Idle EXCEPT !.outcome = "success"])

LockToCredit(g) ==
    /\ Goto(g, "credit", "clear")
    /\ Lock(g)
    /\ Atomic!MarkSuccess(URL[theCurrent])
    /\ UNCHANGED <<fields, poolMu, local>>

ClearFailures(g) ==
    /\ Goto(g, "clear", "forgive")
    /\ failureCounts' = [failureCounts EXCEPT ![local[g].index] = 0]
    /\ UNCHANGED <<current, healthy, cooldownUntil, clientCache, now, theFields, poolMu, mu, local>>

ClearCooldown(g) ==
    /\ Goto(g, "forgive", "promote")
    /\ cooldownUntil' = [cooldownUntil EXCEPT ![local[g].index] = 0]
    /\ UNCHANGED <<current, healthy, failureCounts, clientCache, now, theFields, poolMu, mu, local>>

SwapHealthy(g) ==
    /\ Goto(g, "promote", "drop")
    /\ healthy' = [healthy EXCEPT ![local[g].index] = TRUE]
    /\ UNCHANGED <<current, failureCounts, cooldownUntil, clientCache, now, theFields, poolMu, mu, local>>

-----------------------------------------------------------------------------
(* rotateProxy                                                             *)

EnterRotate(g) == Enter(g, "rotate", Idle)

Advance(g) ==
    /\ Goto(g, "rotate", "renew")
    /\ mu = Nobody
    /\ current' = (current + 1) % N
    /\ Atomic!Rotate
    /\ UNCHANGED <<healthVars, clientCache, poolMu, mu, local>>

\* NewClient calls Current, which takes ProxyPool.mu again.
Renew(g) ==
    /\ Goto(g, "renew", "unlock")
    /\ mu = Nobody
    /\ UNCHANGED <<poolVars, theFields, poolMu, mu, local>>

-----------------------------------------------------------------------------

TimePasses ==
    /\ Tick
    /\ UNCHANGED <<theFields, poolMu, mu, pc, local>>

Init ==
    /\ PoolInit
    /\ Atomic!PoolInit
    /\ poolMu = Nobody /\ mu = Nobody
    /\ pc = [g \in Goroutines |-> "idle"]
    /\ local = [g \in Goroutines |-> Idle]

EnterSection(g) == EnterServe(g) \/ EnterReport(g) \/ EnterSuccess(g) \/ EnterRotate(g)

SectionStep(g) ==
    \/ ReadClock(g) \/ LoadHealth(g) \/ LoadCooldown(g)
    \/ LoadClient(g) \/ LockToBuild(g) \/ NothingToStore(g) \/ Build(g) \/ StoreClient(g)
    \/ ReadCurrent(g) \/ ReturnEarly(g) \/ LockToReport(g) \/ AddFailure(g)
    \/ ReadHeader(g) \/ ReadDeadline(g) \/ StoreCooldown(g) \/ SwapUnhealthy(g) \/ DropClient(g)
    \/ LockToCredit(g) \/ ClearFailures(g) \/ ClearCooldown(g) \/ SwapHealthy(g)
    \/ Advance(g) \/ Renew(g) \/ Leave(g)

Next == (\E g \in Goroutines : EnterSection(g) \/ SectionStep(g)) \/ TimePasses

Spec == Init /\ [][Next]_vars

\* The Go scheduler runs a goroutine that is not blocked.
Fairness == \A g \in Goroutines : WF_vars(SectionStep(g))

FairSpec == Spec /\ Fairness

-----------------------------------------------------------------------------
(* Properties                                                              *)

\* Whenever no critical section of poolMu is in progress, the pool is as the
\* one-step operations of module ProxyPool would have left it: each section
\* had the effect of one of them, on the proxy that Current names and with the
\* clock as the section read it, whatever the other goroutines did meanwhile
\* and however far the clock moved between the steps.
SectionsAreAtomic ==
    poolMu = Nobody =>
        /\ current = theCurrent
        /\ healthy = theHealthy
        /\ failureCounts = theFailureCounts
        /\ cooldownUntil = theCooldownUntil
        /\ clientCache = theClientCache

\* A proxy whose upstream asked, with a 5xx, to be left alone until a date is
\* not released before that date: the date becomes a delay by one clock and a
\* deadline by a later one, so that a pause between the two only lengthens it.
DatesAreWaitedOut ==
    \A g \in Goroutines :
        pc[g] = "unlock" /\ local[g].outcome = "error status" /\ FailureCounts(g)
            /\ local[g].header.form = "date"
        => cooldownUntil[local[g].index] >= local[g].header.value

\* The two mutexes are taken in one order, neither is taken twice by its
\* holder, and both are released on every path: a section that has started
\* ends.
SectionsEnd == \A g \in Goroutines : pc[g] # "idle" ~> pc[g] = "idle"
=============================================================================
