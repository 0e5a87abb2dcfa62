------------------------------- MODULE Retry -------------------------------
(***************************************************************************)
(* internal/retry/retry.go: the two pure functions that turn a failure     *)
(* into a delay.  ExponentialBackoff is used for the cool-down of a proxy  *)
(* (config/proxy_pool.go) and for the pause between the attempts of one    *)
(* request (internal/proxy/handler.go); ParseRetryAfter reads the header   *)
(* of an upstream error.                                                   *)
(*                                                                         *)
(* A time.Duration is a signed 64-bit number of nanoseconds.  The width is *)
(* kept, as the parameter MaxInt64, because a Retry-After header is chosen *)
(* by the other side and reaches the arithmetic unchecked.                 *)
(***************************************************************************)
EXTENDS Integers

CONSTANTS
    Second,     \* time units in a second (10^9 in the program)
    MaxInt64    \* the largest time.Duration (2^63 - 1 in the program)

ASSUME SecondAssumption == Second \in Nat \ {0}
ASSUME WidthAssumption  == MaxInt64 \in Nat \ {0} /\ Second <= MaxInt64

-----------------------------------------------------------------------------

Int64 == (-MaxInt64 - 1) .. MaxInt64

\* The value a signed 64-bit register holds after an operation whose exact
\* result is x.
WrapInt64(x) == ((x + MaxInt64 + 1) % (2 * MaxInt64 + 2)) - MaxInt64 - 1

\* A Retry-After header: absent (the empty string), a decimal number, an HTTP
\* date (an instant on the scale of the clock), or text that is neither.
AbsentHeader     == [form |-> "absent",  value |-> 0]
UnreadableHeader == [form |-> "other",   value |-> 0]
SecondsHeader(n) == [form |-> "seconds", value |-> n]
DateHeader(t)    == [form |-> "date",    value |-> t]

\* Variant: the date is compared with the epoch instead of the clock.
ReadsAsAnyDate(header, now) ==
    header.form = "date" /\ header.value > 0

\* strconv.ParseInt(header, 10, 64) succeeds and the number is positive.
ReadsAsSeconds(header) ==
    header.form = "seconds" /\ header.value > 0 /\ header.value <= MaxInt64

\* time.Until(t) is positive.
ReadsAsFutureDate(header, now) ==
    header.form = "date" /\ header.value > now

\* time.Duration(seconds) * time.Second wraps; time.Until saturates.
ParseRetryAfter(header, now) ==
    IF ReadsAsSeconds(header) THEN WrapInt64(header.value * Second)
    ELSE IF ReadsAsFutureDate(header, now)
         THEN IF header.value - now <= MaxInt64 THEN header.value - now ELSE MaxInt64
         ELSE 0

\* Variants: the exponent wraps around instead of being limited; the failure
\* count is taken as 0-indexed.
ExponentWrapping(failures) == (failures - 1) % 4
ExponentFromZero(failures) == IF failures > 4 THEN 4 ELSE failures

\* baseDelay << exponent, the exponent limited to 4 "to prevent overflow".
MaxExponent == 4
PowerOfTwo == <<1, 2, 4, 8, 16>>
Exponent(failures) == IF failures - 1 > MaxExponent THEN MaxExponent ELSE failures - 1

ExponentialBackoff(failures, baseDelay, maxDelay) ==
    IF failures = 0 THEN 0
    ELSE LET delay == baseDelay * PowerOfTwo[Exponent(failures) + 1]
         IN  IF delay > maxDelay THEN maxDelay ELSE delay
=============================================================================
