---------------------------- MODULE DialerProofs ----------------------------
(***************************************************************************)
(* The resolving dialer, for hosts with any number of addresses in any     *)
(* order, and with the deadline and the cancellation at any step.          *)
(*                                                                         *)
(* The inductive invariant says of the loop what it has behind it: every   *)
(* address before the position was refused, unless the context has ended,  *)
(* and the error kept is that of the first.                                *)
(***************************************************************************)
EXTENDS Dialer, FiniteSetTheorems, TLAPS

DialTypeOK ==
    /\ forceIPv6 \in BOOLEAN /\ isLiteral \in BOOLEAN /\ expired \in BOOLEAN
    /\ pc \in {"start", "loop", "dialling", "done"}
    /\ records \in Seq(Address) /\ candidates \in Seq(Address)
    /\ position \in Nat \ {0} /\ firstErr \in Nat

\* Before the loop.
StartInv ==
    pc = "start" =>
        /\ position = 1 /\ firstErr = 0
        /\ isLiteral => Len(records) = 1

\* In the loop, or in the only dial of a literal.
LoopInv ==
    pc \in {"loop", "dialling"} =>
        /\ 0 < Len(candidates)
        /\ position <= Len(candidates) + 1
        /\ pc = "dialling" => position <= Len(candidates)
        /\ forceIPv6 => \A i \in 1 .. Len(candidates) : IsForced(candidates[i])
        /\ ~expired => \A i \in 1 .. Len(candidates) : i < position => candidates[i].reach = "refused"
        /\ firstErr = IF position = 1 THEN 0 ELSE 1
        /\ isLiteral => pc = "dialling" /\ position = 1

DialInv ==
    /\ DialTypeOK /\ StartInv /\ LoopInv
    /\ pc # "done" => result = Pending
    /\ FailureIsExhaustive

-----------------------------------------------------------------------------

\* The addresses a host may have.
LEMMA AddressListType ==
    ASSUME NEW s \in AddressLists
    PROVE  s \in Seq(Address)
<1>1. PICK n \in 0 .. MaxAddresses : s \in [1 .. n -> Address]
    BY DEF AddressLists
<1>2. n \in Nat
    BY <1>1, DialerAssumption
<1>3. QED
    BY <1>1, <1>2

\* The lookup keeps the family that was asked for.
LEMMA LookupFinds ==
    ASSUME DialTypeOK, Lookup
    PROVE  /\ candidates' \in Seq(Address) /\ 0 < Len(candidates')
           /\ forceIPv6 => \A i \in 1 .. Len(candidates') : IsForced(candidates'[i])
<1> DEFINE found == {i \in DOMAIN records : forceIPv6 => IsForced(records[i])}
           k == Cardinality(found)
<1>1. PICK order \in Bijection(1 .. k, found) : candidates' = [n \in DOMAIN order |-> records[order[n]]]
    BY DEF Lookup
<1>2. found # {}
    BY DEF Lookup
<1>3. records \in Seq(Address) /\ Len(records) \in Nat /\ DOMAIN records = 1 .. Len(records)
    BY DEF DialTypeOK
<1>4. IsFiniteSet(found)
    <2>1. IsFiniteSet(1 .. Len(records))
        BY <1>3, FS_Interval
    <2>2. found \subseteq 1 .. Len(records)
        BY <1>3
    <2> HIDE DEF found
    <2>3. QED
        BY <2>1, <2>2, FS_Subset
<1>5. k \in Nat /\ k # 0
    <2> HIDE DEF found
    <2>1. QED
        BY <1>2, <1>4, FS_CardinalityType, FS_EmptySet
<1>6. order \in [1 .. k -> found]
    BY <1>1 DEF Bijection, Injection
<1>7. \A i \in found : records[i] \in Address /\ (forceIPv6 => IsForced(records[i]))
    BY <1>3
<1> HIDE DEF found, k
<1>8. DOMAIN order = 1 .. k /\ \A n \in 1 .. k : order[n] \in found
    BY <1>6
<1>9. candidates' \in [1 .. k -> Address] /\ \A n \in 1 .. k : candidates'[n] = records[order[n]]
    BY <1>1, <1>7, <1>8
<1>10. candidates' \in Seq(Address) /\ Len(candidates') = k
    BY <1>5, <1>9
<1>11. QED
    BY <1>5, <1>7, <1>8, <1>9, <1>10

\* Only AllFailed says that all addresses failed.
LEMMA Outcomes ==
    /\ Pending.outcome # "all failed"
    /\ \A i : Connection(i).outcome # "all failed"
    /\ \A what, i : Failure(what, i).outcome = what /\ Failure(what, i).at = i
BY DEF Pending, Connection, Failure

\* Every step of a dial keeps the invariant.
LEMMA DialInvInductive ==
    /\ Init => DialInv
    /\ DialInv /\ [Next]_vars => DialInv'
<1>1. ASSUME Init PROVE DialInv
    <2>1. records \in Seq(Address)
        BY <1>1, AddressListType DEF Init
    <2>2. candidates \in Seq(Address) /\ pc = "start"
        BY <1>1 DEF Init
    <2>3. DialTypeOK
        <3>1. forceIPv6 \in BOOLEAN /\ isLiteral \in BOOLEAN /\ expired \in BOOLEAN
            <4>1. forceIPv6 \in BOOLEAN /\ isLiteral \in BOOLEAN
                BY <1>1, Zenon DEF Init
            <4>2. expired = FALSE
                BY <1>1, Zenon DEF Init
            <4>3. QED
                BY <4>1, <4>2, Zenon
        <3>2. position \in Nat \ {0} /\ firstErr \in Nat
            <4>1. position = 1 /\ firstErr = 0
                BY <1>1 DEF Init
            <4>2. QED
                BY <4>1
        <3>3. pc \in {"start", "loop", "dialling", "done"}
            BY <2>2
        <3>4. QED
            BY <2>1, <2>2, <3>1, <3>2, <3>3, Zenon DEF DialTypeOK
    <2>4. StartInv /\ LoopInv
        BY <1>1, <2>2 DEF Init, StartInv, LoopInv
    <2>5. result = Pending
        BY <1>1 DEF Init
    <2>6. QED
        BY <2>3, <2>4, <2>5, Outcomes DEF DialInv, FailureIsExhaustive
<1>2. ASSUME DialInv, [Next]_vars PROVE DialInv'
    <2>1. DialTypeOK /\ StartInv /\ LoopInv /\ FailureIsExhaustive
        BY <1>2 DEF DialInv
    <2>2. pc # "done" => result.outcome # "all failed"
        BY <1>2, Outcomes DEF DialInv
    <2>3. CASE Literal
        <3>1. DialTypeOK' /\ StartInv'
            BY <2>1, <2>3 DEF Literal, DialTypeOK, StartInv
        <3>2. LoopInv'
            <4>1. /\ candidates' = records /\ pc' = "dialling" /\ isLiteral' /\ position' = 1 /\ firstErr' = 0
                  /\ Len(records) = 1 /\ forceIPv6' = forceIPv6 /\ (forceIPv6 => IsForced(records[1]))
                BY <2>1, <2>3 DEF Literal, StartInv
            <4>2. \A i \in 1 .. 1 : i = 1 /\ ~ (i < 1)
                OBVIOUS
            <4>3. QED
                BY <4>1, <4>2 DEF LoopInv
        <3>3. UNCHANGED <<result, expired>> /\ pc = "start" /\ pc' = "dialling"
            BY <2>3 DEF Literal
        <3>4. QED
            BY <1>2, <2>2, <3>1, <3>2, <3>3 DEF DialInv, FailureIsExhaustive
    <2>4. CASE LiteralRejected \/ LookupFails \/ ContextEnded \/ Answered
        <3>1. /\ pc' = "done" /\ result'.outcome # "all failed"
              /\ UNCHANGED <<forceIPv6, isLiteral, records, candidates, position, firstErr, expired>>
            <4>1. CASE LiteralRejected
                BY <4>1, Outcomes DEF LiteralRejected, Return
            <4>2. CASE LookupFails
                BY <4>2, Outcomes DEF LookupFails, Return
            <4>3. CASE ContextEnded
                BY <4>3, Outcomes DEF ContextEnded, Return
            <4>4. CASE Answered
                BY <4>4, Outcomes DEF Answered, Return
            <4>5. QED
                BY <2>4, <4>1, <4>2, <4>3, <4>4
        <3>2. QED
            BY <2>1, <3>1 DEF DialInv, DialTypeOK, StartInv, LoopInv, FailureIsExhaustive
    <2>5. CASE Lookup
        <3>1. /\ pc = "start" /\ pc' = "loop" /\ ~isLiteral
              /\ UNCHANGED <<forceIPv6, isLiteral, records, position, firstErr, expired, result>>
            BY <2>5 DEF Lookup
        <3>2. /\ candidates' \in Seq(Address) /\ 0 < Len(candidates')
              /\ forceIPv6 => \A i \in 1 .. Len(candidates') : IsForced(candidates'[i])
            BY <2>1, <2>5, LookupFinds
        <3>3. DialTypeOK' /\ StartInv'
            BY <2>1, <3>1, <3>2 DEF DialTypeOK, StartInv
        <3>4. LoopInv'
            BY <2>1, <3>1, <3>2 DEF StartInv, LoopInv, DialTypeOK
        <3>5. QED
            BY <1>2, <2>2, <3>1, <3>3, <3>4 DEF DialInv, FailureIsExhaustive
    <2>6. CASE NextAddress
        <3>1. /\ pc = "loop" /\ pc' = "dialling" /\ position <= Len(candidates)
              /\ UNCHANGED <<forceIPv6, isLiteral, records, candidates, position, firstErr, expired, result>>
            BY <2>6 DEF NextAddress
        <3>2. QED
            BY <1>2, <2>1, <3>1 DEF DialInv, DialTypeOK, StartInv, LoopInv, FailureIsExhaustive
    <2>7. CASE AllFailed
        <3>1. /\ pc = "loop" /\ pc' = "done" /\ position > Len(candidates)
              /\ result' = Failure("all failed", firstErr)
              /\ UNCHANGED <<forceIPv6, isLiteral, records, candidates, position, firstErr, expired>>
            BY <2>7 DEF AllFailed, Return
        <3>2. result'.outcome = "all failed" /\ result'.at = firstErr
            BY <3>1, Outcomes
        <3>3. /\ position \in Nat \ {0} /\ Len(candidates) \in Nat /\ 0 < Len(candidates)
              /\ DOMAIN candidates = 1 .. Len(candidates)
              /\ firstErr = IF position = 1 THEN 0 ELSE 1
            <4>1. position \in Nat \ {0} /\ candidates \in Seq(Address)
                BY <2>1 DEF DialTypeOK
            <4>2. 0 < Len(candidates) /\ firstErr = IF position = 1 THEN 0 ELSE 1
                BY <2>1, <3>1 DEF LoopInv
            <4>3. QED
                BY <4>1, <4>2
        <3>4. firstErr = 1 /\ \A i \in 1 .. Len(candidates) : i < position
            <4>1. position > Len(candidates)
                BY <3>1
            <4>2. QED
                BY <3>3, <4>1
        <3>5. ~expired => \A i \in DOMAIN candidates : candidates[i].reach = "refused"
            BY <2>1, <3>1, <3>3, <3>4 DEF LoopInv
        <3>6. FailureIsExhaustive'
            BY <3>1, <3>2, <3>4, <3>5 DEF FailureIsExhaustive
        <3>7. QED
            BY <2>1, <3>1, <3>6 DEF DialInv, DialTypeOK, StartInv, LoopInv
    <2>8. CASE Failed
        <3>1. /\ pc = "dialling" /\ (candidates[position].reach = "refused" \/ expired)
              /\ UNCHANGED <<forceIPv6, isLiteral, records, candidates, expired>>
            BY <2>8 DEF Failed
        <3>2. CASE isLiteral
            <4>1. pc' = "done" /\ result'.outcome # "all failed" /\ UNCHANGED <<position, firstErr>>
                <5>1. pc' = "done" /\ result' = Failure("dial", position) /\ UNCHANGED <<position, firstErr>>
                    BY <2>8, <3>2 DEF Failed, Return
                <5>2. QED
                    BY <5>1, Outcomes
            <4>2. QED
                BY <2>1, <3>1, <4>1 DEF DialInv, DialTypeOK, StartInv, LoopInv, FailureIsExhaustive
        <3>3. CASE ~isLiteral
            <4>1. /\ pc' = "loop" /\ position' = position + 1
                  /\ firstErr' = IF firstErr = 0 THEN position ELSE firstErr
                  /\ UNCHANGED result
                BY <2>8, <3>3 DEF Failed
            <4>2. firstErr' = 1
                BY <2>1, <3>1, <4>1 DEF LoopInv, DialTypeOK
            <4>3. DialTypeOK' /\ StartInv'
                BY <2>1, <3>1, <4>1, <4>2 DEF DialTypeOK, StartInv
            <4>4. ~expired => \A i \in 1 .. Len(candidates) : i < position + 1 => candidates[i].reach = "refused"
                <5> SUFFICES ASSUME ~expired, NEW i \in 1 .. Len(candidates), i < position + 1
                             PROVE  candidates[i].reach = "refused"
                    OBVIOUS
                <5>1. CASE i = position
                    BY <3>1, <5>1
                <5>2. CASE i # position
                    <6>1. i < position
                        BY <2>1, <5>2 DEF DialTypeOK
                    <6>2. QED
                        BY <2>1, <3>1, <6>1 DEF LoopInv
                <5>3. QED
                    BY <5>1, <5>2
            <4>5. LoopInv'
                <5>1. position <= Len(candidates) /\ 0 < Len(candidates) /\ position \in Nat \ {0} /\ Len(candidates) \in Nat
                    BY <2>1, <3>1 DEF LoopInv, DialTypeOK
                <5>2. /\ 0 < Len(candidates') /\ position' <= Len(candidates') + 1 /\ position' # 1
                    BY <3>1, <4>1, <5>1
                <5>3. forceIPv6' => \A i \in 1 .. Len(candidates') : IsForced(candidates'[i])
                    BY <2>1, <3>1 DEF LoopInv
                <5>4. QED
                    BY <3>1, <3>3, <4>1, <4>2, <4>4, <5>2, <5>3 DEF LoopInv
            <4>6. QED
                BY <1>2, <2>2, <3>1, <4>1, <4>3, <4>5 DEF DialInv, FailureIsExhaustive
        <3>4. QED
            BY <3>2, <3>3
    <2>9. CASE Deadline \/ Cancel
        <3>1. /\ expired' = TRUE
              /\ UNCHANGED <<forceIPv6, pc, isLiteral, records, candidates, position, firstErr, result>>
            BY <2>9 DEF Deadline, Cancel
        <3>2. QED
            BY <1>2, <3>1 DEF DialInv, DialTypeOK, StartInv, LoopInv, FailureIsExhaustive
    <2>10. CASE UNCHANGED vars
        BY <1>2, <2>10 DEF vars, DialInv, DialTypeOK, StartInv, LoopInv, FailureIsExhaustive
    <2>11. QED
        BY <1>2, <2>3, <2>4, <2>5, <2>6, <2>7, <2>8, <2>9, <2>10 DEF Next, Step
<1>3. QED
    BY <1>1, <1>2

-----------------------------------------------------------------------------
(* The theorems                                                            *)

\* With OPCODE_FORCE_IPV6 no IPv4 address is dialled, whatever the resolver
\* returns and in whatever order, and no IPv4 literal either.
THEOREM DialerForcedFamily == Spec => []ForcedFamilyOnly
<1>1. DialInv => ForcedFamilyOnly
    <2> SUFFICES ASSUME DialInv, forceIPv6, pc = "dialling"
                 PROVE  candidates[position].family = "ipv6"
        BY DEF ForcedFamilyOnly
    <2>1. position \in 1 .. Len(candidates)
        BY DEF DialInv, LoopInv, DialTypeOK
    <2>2. IsForced(candidates[position])
        BY <2>1 DEF DialInv, LoopInv
    <2>3. QED
        BY <2>2 DEF IsForced
<1>2. QED
    BY <1>1, DialInvInductive, PTL DEF Spec

\* "all addresses failed" is said only when each was tried and refused, and it
\* wraps the error of the first.
THEOREM DialerFailureIsExhaustive == Spec => []FailureIsExhaustive
<1>1. DialInv => FailureIsExhaustive
    BY DEF DialInv
<1>2. QED
    BY <1>1, DialInvInductive, PTL DEF Spec
=============================================================================
