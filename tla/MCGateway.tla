----------------------------- MODULE MCGateway -----------------------------
(***************************************************************************)
(* Model values and bounds for Gateway.  One unit of time is the base      *)
(* delay of 15 s.                                                          *)
(***************************************************************************)
EXTENDS Gateway, TLC

CONSTANTS
    MaxTime,        \* bound: no ClockTick beyond this instant
    r1, r2,         \* requests
    s0, s1          \* sessions

TwoURLs == 0 :> "a" @@ 1 :> "b"
ThreeURLs == 0 :> "a" @@ 1 :> "b" @@ 2 :> "c"

TwoSessions == {s0, s1}
\* The two sessions prefer different proxies, of two and of three.
TwoHash == s0 :> 4 @@ s1 :> 7
NextHash == s0 :> 3 @@ s1 :> 7

\* One request of each session.
TwoSessionOf == r1 :> s0 @@ r2 :> s1

NoHeaders == {AbsentHeader}

BoundedNext == RequestStep \/ (now < MaxTime /\ ClockTick) \/ AllDone

BoundedSpec == Init /\ [][BoundedNext]_vars
BoundedFairSpec == BoundedSpec /\ Fairness
=============================================================================
