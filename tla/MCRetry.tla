------------------------------ MODULE MCRetry ------------------------------
(***************************************************************************)
(* The functions of Retry against reference definitions.  A state is one   *)
(* set of arguments; a behaviour is a caller that keeps failing with the   *)
(* same delays while headers arrive and its clock runs.  The width is 8    *)
(* bits and a second is 3 units, so that products and sums leave the range.*)
(***************************************************************************)
EXTENDS Retry

CONSTANTS
    MaxFailures,    \* bound: consecutive failures of the caller
    Delays,         \* base and maximum delays tried
    MaxTime,        \* bound: the caller's clock
    MaxHeader       \* bound: numbers and instants in a header

ASSUME CallerAssumption ==
    Delays \subseteq Nat /\ MaxFailures \in Nat /\ MaxTime \in Nat /\ MaxHeader \in Nat

VARIABLES
    callerFailures,     \* consecutive failures so far
    callerBase,         \* the caller's delays
    callerMax,
    callerHeader,       \* the last Retry-After header
    callerClock         \* the caller's clock

callerVars == <<callerFailures, callerBase, callerMax, callerHeader, callerClock>>

CallerHeaders ==
    {AbsentHeader, UnreadableHeader}
        \cup {SecondsHeader(n) : n \in -2 .. MaxHeader}
        \cup {DateHeader(t) : t \in 0 .. MaxHeader}

CallerInit ==
    /\ callerFailures = 0
    /\ callerBase \in {d \in Delays : 16 * d <= MaxInt64}
    /\ callerMax \in {d \in Delays : d >= callerBase}
    /\ callerHeader = AbsentHeader
    /\ callerClock = 0

CallerFails ==
    /\ callerFailures < MaxFailures
    /\ callerFailures' = callerFailures + 1
    /\ UNCHANGED <<callerBase, callerMax, callerHeader, callerClock>>

CallerIsAnswered ==
    /\ callerHeader' \in CallerHeaders
    /\ UNCHANGED <<callerFailures, callerBase, callerMax, callerClock>>

CallerWaits ==
    /\ callerClock < MaxTime
    /\ callerClock' = callerClock + 1
    /\ UNCHANGED <<callerFailures, callerBase, callerMax, callerHeader>>

CallerNext == CallerFails \/ CallerIsAnswered \/ CallerWaits

CallerSpec == CallerInit /\ [][CallerNext]_callerVars

-----------------------------------------------------------------------------

\* base * 2^(failures - 1), by doubling: what the comment of
\* ExponentialBackoff (retry.go:41) states, for any maximum.
Doubled[n \in Nat] == IF n = 0 THEN 1 ELSE 2 * Doubled[n - 1]
StatedBackoff ==
    IF callerFailures = 0 THEN 0
    ELSE LET delay == callerBase * Doubled[callerFailures - 1]
         IN  IF delay > callerMax THEN callerMax ELSE delay

\* ExponentialBackoff returns the stated delay for every failure count when the
\* maximum is within sixteen base delays; both call sites are (15 s with 2 min,
\* 200 ms with 800 ms), and the limit on the exponent then loses nothing.
BackoffAsStated ==
    callerMax <= 16 * callerBase
        => ExponentialBackoff(callerFailures, callerBase, callerMax) = StatedBackoff

\* One more failure never shortens the delay.
BackoffNeverShrinks ==
    [][callerFailures' > callerFailures
          => ExponentialBackoff(callerFailures', callerBase, callerMax)
                 >= ExponentialBackoff(callerFailures, callerBase, callerMax)]_callerVars

\* Whoever waits for the delay ParseRetryAfter returns resumes when the header
\* asks for it, or after the longest duration if that is too far ahead for one,
\* and at once when the header asks for nothing readable or for an instant that
\* has passed.  A number of seconds that does not fit in a time.Duration is left
\* out: its product wraps.
RetryAfterIsObeyed ==
    LET delay == ParseRetryAfter(callerHeader, callerClock)
        far == callerHeader.value - callerClock > MaxInt64
    IN  /\ callerHeader.form = "seconds" /\ callerHeader.value * Second <= MaxInt64
               => delay = IF callerHeader.value > 0 THEN callerHeader.value * Second ELSE 0
        /\ callerHeader.form = "date" /\ callerHeader.value > callerClock
               => IF far THEN delay = MaxInt64 ELSE callerClock + delay = callerHeader.value
        /\ callerHeader.form = "date" /\ callerHeader.value <= callerClock => delay = 0
        /\ callerHeader.form \notin {"seconds", "date"} => delay = 0
=============================================================================
