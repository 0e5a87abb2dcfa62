---------------------------- MODULE MCProxyPool ----------------------------
(***************************************************************************)
(* Model values and bounds for ProxyPool.  One unit of time is the base    *)
(* delay of 15 s, so that BaseDelay = 1 and MaxDelay = 8.                  *)
(***************************************************************************)
EXTENDS ProxyPool, TLC

CONSTANTS
    MaxTime,        \* bound: no Tick beyond this instant
    MaxFailures,    \* bound: no proxy collects more consecutive failures
    s0, s1, s2      \* sessions

\* Two of the three sessions prefer proxies next to each other, the third one
\* the proxy that cannot be built.
ThreeURLs == 0 :> "a" @@ 1 :> "b" @@ 2 :> "c"
ThreeSessions == {s0, s1, s2}
ThreeHash == s0 :> 3 @@ s1 :> 4 @@ s2 :> 8

SomeHeaders == {AbsentHeader, SecondsHeader(3), DateHeader(3)}

BoundedNext ==
    \/ Serve
    \/ Report /\ \A i \in Indices : failureCounts'[i] <= MaxFailures
    \/ Recover
    \/ Rotate
    \/ now < MaxTime /\ Tick

BoundedSpec == PoolInit /\ [][BoundedNext]_poolVars
=============================================================================
