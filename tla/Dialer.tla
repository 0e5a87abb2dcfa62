------------------------------- MODULE Dialer -------------------------------
(***************************************************************************)
(* localResolveDialer of config/config.go: a host name is resolved here    *)
(* and its addresses are dialled through a SOCKS5 proxy, one after the     *)
(* other, until one answers or the context of the dial ends.               *)
(*                                                                         *)
(* An address is its family and what comes of dialling it: it answers, it  *)
(* is refused, or nothing is heard of it.  The SOCKS5 dialer sets no limit *)
(* of its own: only the context, with http.Client.Timeout as its deadline, *)
(* ends the wait for an address that is silent.                            *)
(***************************************************************************)
EXTENDS Naturals, Sequences, FiniteSets, Functions

CONSTANTS
    MaxAddresses    \* bound: addresses of a host

ASSUME DialerAssumption == MaxAddresses \in Nat \ {0}

Families == {"ipv4", "ipv6"}
Address == [family : Families, reach : {"answers", "refused", "silent"}]
AddressLists == UNION {[1 .. n -> Address] : n \in 0 .. MaxAddresses}

VARIABLES
    forceIPv6,      \* OPCODE_FORCE_IPV6, a field of the dialer
    pc,             \* "start", "loop", "dialling" or "done"
    isLiteral,      \* the host is an IP address already
    records,        \* its addresses, as the resolver knows them
    candidates,     \* the addresses to dial
    position,       \* the next one
    firstErr,       \* position of the first dial that failed, 0 before
    expired,        \* the context has ended
    result          \* what DialContext returns

vars == <<forceIPv6, pc, isLiteral, records, candidates, position, firstErr, expired, result>>

Pending == [outcome |-> "pending", at |-> 0]
Connection(i) == [outcome |-> "connection", at |-> i]
Failure(what, i) == [outcome |-> what, at |-> i]

IsForced(address) == address.family = "ipv6"

Return(value) ==
    /\ pc' = "done"
    /\ result' = value

-----------------------------------------------------------------------------

\* Variant: OPCODE_FORCE_IPV6 is not looked at for a literal.
LiteralOfAnyFamily ==
    /\ pc = "start" /\ isLiteral
    /\ pc' = "dialling"
    /\ candidates' = records
    /\ UNCHANGED <<forceIPv6, isLiteral, records, position, firstErr, expired, result>>

\* A literal needs no lookup.
Literal ==
    /\ pc = "start" /\ isLiteral
    /\ forceIPv6 => IsForced(records[1])
    /\ pc' = "dialling"
    /\ candidates' = records
    /\ UNCHANGED <<forceIPv6, isLiteral, records, position, firstErr, expired, result>>

LiteralRejected ==
    /\ pc = "start" /\ isLiteral
    /\ forceIPv6 /\ ~IsForced(records[1])
    /\ Return(Failure("rejected", 0))
    /\ UNCHANGED <<forceIPv6, isLiteral, records, candidates, position, firstErr, expired>>

\* LookupIP, of "ip6" when IPv6 is forced: all addresses of that family, in an
\* order of the resolver's own.
Lookup ==
    LET found == {i \in DOMAIN records : forceIPv6 => IsForced(records[i])}
    IN  /\ pc = "start" /\ ~isLiteral
        /\ found # {}
        /\ \E order \in Bijection(1 .. Cardinality(found), found) :
              candidates' = [n \in DOMAIN order |-> records[order[n]]]
        /\ pc' = "loop"
        /\ UNCHANGED <<forceIPv6, isLiteral, records, position, firstErr, expired, result>>

\* The lookup fails, or finds no address.
LookupFails ==
    /\ pc = "start" /\ ~isLiteral
    /\ Return(Failure("no address", 0))
    /\ UNCHANGED <<forceIPv6, isLiteral, records, candidates, position, firstErr, expired>>

\* The head of the loop.
NextAddress ==
    /\ pc = "loop" /\ position <= Len(candidates) /\ ~expired
    /\ pc' = "dialling"
    /\ UNCHANGED <<forceIPv6, isLiteral, records, candidates, position, firstErr, expired, result>>

ContextEnded ==
    /\ pc = "loop" /\ position <= Len(candidates) /\ expired
    /\ Return(Failure("context", 0))
    /\ UNCHANGED <<forceIPv6, isLiteral, records, candidates, position, firstErr, expired>>

AllFailed ==
    /\ pc = "loop" /\ position > Len(candidates)
    /\ Return(Failure("all failed", firstErr))
    /\ UNCHANGED <<forceIPv6, isLiteral, records, candidates, position, firstErr, expired>>

\* dialOne returns a connection.
Answered ==
    /\ pc = "dialling" /\ candidates[position].reach = "answers"
    /\ Return(Connection(position))
    /\ UNCHANGED <<forceIPv6, isLiteral, records, candidates, position, firstErr, expired>>

\* Variant: the error of the last address is kept.
FailedKeepingLast ==
    /\ pc = "dialling"
    /\ candidates[position].reach = "refused" \/ expired
    /\ IF isLiteral
       THEN Return(Failure("dial", position)) /\ UNCHANGED <<position, firstErr>>
       ELSE /\ pc' = "loop"
            /\ position' = position + 1
            /\ firstErr' = position
            /\ UNCHANGED result
    /\ UNCHANGED <<forceIPv6, isLiteral, records, candidates, expired>>

\* Variant: the dial is not given the context.
FailedDeaf ==
    /\ pc = "dialling"
    /\ candidates[position].reach = "refused"
    /\ IF isLiteral
       THEN Return(Failure("dial", position)) /\ UNCHANGED <<position, firstErr>>
       ELSE /\ pc' = "loop"
            /\ position' = position + 1
            /\ firstErr' = IF firstErr = 0 THEN position ELSE firstErr
            /\ UNCHANGED result
    /\ UNCHANGED <<forceIPv6, isLiteral, records, candidates, expired>>

\* dialOne returns an error: the address is refused, or the context has ended.
Failed ==
    /\ pc = "dialling"
    /\ candidates[position].reach = "refused" \/ expired
    /\ IF isLiteral
       THEN Return(Failure("dial", position)) /\ UNCHANGED <<position, firstErr>>
       ELSE /\ pc' = "loop"
            /\ position' = position + 1
            /\ firstErr' = IF firstErr = 0 THEN position ELSE firstErr
            /\ UNCHANGED result
    /\ UNCHANGED <<forceIPv6, isLiteral, records, candidates, expired>>

\* The deadline passes while a dial hears nothing.
Deadline ==
    /\ pc = "dialling" /\ candidates[position].reach = "silent" /\ ~expired
    /\ expired' = TRUE
    /\ UNCHANGED <<forceIPv6, pc, isLiteral, records, candidates, position, firstErr, result>>

\* The request is cancelled, or its deadline passes elsewhere.
Cancel ==
    /\ pc # "done" /\ ~expired
    /\ expired' = TRUE
    /\ UNCHANGED <<forceIPv6, pc, isLiteral, records, candidates, position, firstErr, result>>

-----------------------------------------------------------------------------

Init ==
    /\ pc = "start"
    /\ forceIPv6 \in BOOLEAN
    /\ isLiteral \in BOOLEAN
    /\ records \in AddressLists
    /\ isLiteral => Len(records) = 1
    /\ candidates = <<>>
    /\ position = 1
    /\ firstErr = 0
    /\ expired = FALSE
    /\ result = Pending

Step ==
    \/ Literal \/ LiteralRejected \/ Lookup \/ LookupFails
    \/ NextAddress \/ ContextEnded \/ AllFailed
    \/ Answered \/ Failed

Next == Step \/ Deadline \/ Cancel

Spec == Init /\ [][Next]_vars

\* The goroutine runs, and http.Client.Timeout is not zero.
FairSpec == Spec /\ WF_vars(Step) /\ WF_vars(Deadline)

-----------------------------------------------------------------------------
(* Properties                                                              *)

\* With IPv6 forced, no IPv4 address is ever dialled, not as a fallback and
\* not as a literal (config.go:346).
ForcedFamilyOnly ==
    forceIPv6 /\ pc = "dialling" => candidates[position].family = "ipv6"

\* Unless its context ended, a dial reports that all addresses failed only when
\* it has tried each of them and each was refused, and the error it then wraps
\* is that of the first, not of whichever came last.
FailureIsExhaustive ==
    result.outcome = "all failed" /\ ~expired =>
        /\ \A i \in DOMAIN candidates : candidates[i].reach = "refused"
        /\ result.at = 1

\* Every dial ends, though addresses may be silent.
DialEnds == pc = "start" ~> pc = "done"
=============================================================================
