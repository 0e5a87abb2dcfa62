---------------------------- MODULE MCPoolSteps ----------------------------
(***************************************************************************)
(* Model values and bounds for PoolSteps.  One unit of time is the base    *)
(* delay of 15 s.                                                          *)
(***************************************************************************)
EXTENDS PoolSteps, TLC

CONSTANTS
    MaxTime,        \* bound: no TimePasses beyond this instant
    MaxFailures,    \* bound: no report while a proxy has more failures
    s0, s1          \* sessions

TwoURLs == 0 :> "a" @@ 1 :> "b"
TwoSessions == {s0, s1}
TwoHash == s0 :> 4 @@ s1 :> 7

WaitHeaders == {AbsentHeader, SecondsHeader(3), DateHeader(4)}

BoundedNext ==
    \/ \E g \in Goroutines :
          \/ EnterServe(g) \/ EnterSuccess(g) \/ EnterRotate(g)
          \/ EnterReport(g) /\ \A i \in Indices : failureCounts[i] < MaxFailures
          \/ SectionStep(g)
    \/ now < MaxTime /\ TimePasses

BoundedSpec == Init /\ [][BoundedNext]_vars
BoundedFairSpec == BoundedSpec /\ Fairness
=============================================================================
