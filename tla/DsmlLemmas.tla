----------------------------- MODULE DsmlLemmas -----------------------------
(***************************************************************************)
(* The functions of module Dsml, for texts and answers of any length.      *)
(*                                                                         *)
(* FlattenSeq is defined by a recursive function.  The first part shows    *)
(* what the provers need of it: its elements, its length when the parts    *)
(* have one element, three or none, and how it grows with one part.  The   *)
(* second gives the functions their types.  The others are about what they *)
(* promise: texts with nothing left to strip, because what is joined keeps *)
(* its order (WithoutOrder) and an opening tag with a closing one behind   *)
(* it is in a match (OpenIsMatched); the same blocks from a message as     *)
(* from a stream (ToldAgain, OneText); what a removal leaves at which      *)
(* place (LeftTwice) and what the matches take (MatchesAreApart); and no   *)
(* id twice (KeptIdsDiffer).                                               *)
(***************************************************************************)
EXTENDS Dsml, FiniteSets, SequenceTheorems, WellFoundedInduction, TLAPS


\* Every non-empty set of natural numbers has a least element.
LEMMA LeastNatural ==
    ASSUME NEW S, S \subseteq Nat, S # {}
    PROVE  \E k \in S : \A m \in S : k <= m
<1> DEFINE R == OpToRel(<, Nat)
<1>1. IsWellFoundedOn(R, Nat)
    BY NatLessThanWellFounded
<1>2. \A a, b \in Nat : a < b => <<a, b>> \in R
    BY DEF OpToRel
<1> HIDE DEF R
<1>3. PICK k \in S : \A m \in S : ~ (<<m, k>> \in R)
    BY <1>1, WFMin
<1>4. ASSUME NEW m \in S PROVE k <= m
    <2>1. m \in Nat /\ k \in Nat /\ ~ (<<m, k>> \in R)
        BY <1>3
    <2>2. ~ (m < k)
        BY <1>2, <2>1
    <2>3. QED
        BY <2>1, <2>2
<1>5. QED
    BY <1>4

\* What holds of 0 and of each number after one that it holds of, it holds of
\* all up to n.
LEMMA UpTo ==
    ASSUME NEW n \in Nat, NEW P, 0 \in P, \A k \in 1 .. n : k - 1 \in P => k \in P
    PROVE  0 .. n \subseteq P
<1> DEFINE Others == {k \in 0 .. n : k \notin P}
<1>1. ASSUME Others # {} PROVE FALSE
    <2>1. PICK k \in Others : \A m \in Others : k <= m
        <3>1. Others \subseteq Nat
            OBVIOUS
        <3> HIDE DEF Others
        <3>2. QED
            BY <1>1, <3>1, LeastNatural
    <2>2. k \in 1 .. n /\ k - 1 \in 0 .. n /\ ~ (k <= k - 1)
        BY <2>1
    <2>3. QED
        BY <2>1, <2>2
<1>2. QED
    BY <1>1

\* A function with the elements of one sequence and then those of another is the
\* two joined.
LEMMA IsConcat ==
    ASSUME NEW S, NEW s \in Seq(S), NEW t \in Seq(S), NEW f, f = [i \in DOMAIN f |-> f[i]],
           DOMAIN f = 1 .. Len(s) + Len(t), \A i \in 1 .. Len(s) : f[i] = s[i],
           \A i \in 1 .. Len(t) : f[Len(s) + i] = t[i]
    PROVE  f = s \o t
<1> DEFINE n == Len(s) + Len(t)
           e(i) == f[i]
<1>1. Len(s) \in Nat /\ Len(t) \in Nat /\ n \in Nat
    OBVIOUS
<1>2. /\ s \o t \in Seq(S) /\ Len(s \o t) = n
      /\ \A i \in 1 .. Len(s) : (s \o t)[i] = s[i]
      /\ \A i \in 1 .. Len(t) : (s \o t)[Len(s) + i] = t[i]
    OBVIOUS
<1>3. ASSUME NEW i \in 1 .. n PROVE f[i] = (s \o t)[i] /\ (s \o t)[i] \in S
    <2>1. (s \o t)[i] \in S
        BY <1>2, ElementOfSeq
    <2>2. CASE i <= Len(s)
        <3>1. i \in 1 .. Len(s)
            BY <1>1, <2>2
        <3> QED
            BY <1>2, <2>1, <3>1
    <2>3. CASE ~ (i <= Len(s))
        <3>1. i - Len(s) \in 1 .. Len(t) /\ Len(s) + (i - Len(s)) = i
            BY <1>1, <2>3
        <3>2. f[Len(s) + (i - Len(s))] = t[i - Len(s)] /\ (s \o t)[Len(s) + (i - Len(s))] = t[i - Len(s)]
            BY <1>2, <3>1
        <3> QED
            BY <2>1, <3>1, <3>2
    <2> QED
        BY <2>2, <2>3
<1>4. f = [i \in 1 .. n |-> e(i)] /\ DOMAIN f = 1 .. n
    OBVIOUS
<1> HIDE DEF n
<1>5. \A i \in 1 .. n : e(i) \in S
    BY <1>3
<1>6. f \in Seq(S)
    <2> HIDE DEF e
    <2> QED
        BY <1>1, <1>4, <1>5, IsASeq
<1>7. Len(f) = n
    BY <1>1, <1>4, <1>6
<1> QED
    BY <1>2, <1>3, <1>6, <1>7, SeqEqual

-----------------------------------------------------------------------------
(* FlattenSeq                                                              *)

\* g is the table of the first n sequences joined.
IsJoined(g, ss, n) == g = [i \in 1 .. n |-> IF i = 1 THEN ss[i] ELSE g[i - 1] \o ss[i]]

\* There is one for every n.
LEMMA JoinedExists ==
    ASSUME NEW ss, NEW n \in Nat
    PROVE  \E g : IsJoined(g, ss, n)
<1> DEFINE Missing == {k \in Nat : ~ \E g : IsJoined(g, ss, k)}
<1>1. Missing = {}
    <2> SUFFICES ASSUME Missing # {} PROVE FALSE
        OBVIOUS
    <2>1. PICK k \in Missing : \A m \in Missing : k <= m
        BY LeastNatural
    <2>2. CASE k = 0
        <3>1. IsJoined([i \in 1 .. 0 |-> 1], ss, 0)
            BY DEF IsJoined
        <3>2. QED
            BY <2>1, <2>2, <3>1
    <2>3. CASE k # 0
        <3>1. k - 1 \in Nat /\ ~ (k <= k - 1)
            BY <2>1, <2>3
        <3>2. PICK g : IsJoined(g, ss, k - 1)
            BY <2>1, <3>1
        <3> DEFINE h == [i \in 1 .. k |-> IF i # k THEN g[i]
                                          ELSE IF i = 1 THEN ss[i] ELSE g[i - 1] \o ss[i]]
        <3>3. ASSUME NEW i \in 1 .. k PROVE h[i] = IF i = 1 THEN ss[i] ELSE h[i - 1] \o ss[i]
            <4>1. CASE i = k
                <5>1. i # 1 => i - 1 \in 1 .. k /\ i - 1 # k
                    BY <2>1, <4>1
                <5>2. QED
                    BY <4>1, <5>1
            <4>2. CASE i # k
                <5>1. i \in 1 .. k - 1 /\ (i # 1 => i - 1 \in 1 .. k /\ i - 1 # k)
                    BY <2>1, <4>2
                <5>2. g[i] = IF i = 1 THEN ss[i] ELSE g[i - 1] \o ss[i]
                    BY <3>2, <5>1 DEF IsJoined
                <5>3. QED
                    BY <4>2, <5>1, <5>2
            <4>3. QED
                BY <4>1, <4>2
        <3>4. IsJoined(h, ss, k)
            <4>1. h = [i \in 1 .. k |-> h[i]]
                OBVIOUS
            <4> HIDE DEF h
            <4>2. QED
                BY <3>3, <4>1 DEF IsJoined
        <3>5. QED
            BY <2>1, <3>4
    <2>4. QED
        BY <2>2, <2>3
<1>2. QED
    BY <1>1

\* Tables agree where both have a value, when the sequences do.
LEMMA JoinedAgree ==
    ASSUME NEW g, NEW h, NEW ss, NEW tt, NEW m \in Nat, NEW n \in Nat, m <= n,
           IsJoined(g, ss, m), IsJoined(h, tt, n), \A i \in 1 .. m : ss[i] = tt[i]
    PROVE  \A i \in 1 .. m : g[i] = h[i]
<1> DEFINE Differing == {k \in 1 .. m : g[k] # h[k]}
<1>1. Differing = {}
    <2> SUFFICES ASSUME Differing # {} PROVE FALSE
        OBVIOUS
    <2>1. PICK k \in Differing : \A j \in Differing : k <= j
        <3>1. Differing \subseteq Nat
            OBVIOUS
        <3> HIDE DEF Differing
        <3>2. QED
            BY <3>1, LeastNatural
    <2>2. k \in 1 .. m /\ k \in 1 .. n
        BY <2>1
    <2>3. /\ g[k] = IF k = 1 THEN ss[k] ELSE g[k - 1] \o ss[k]
          /\ h[k] = IF k = 1 THEN tt[k] ELSE h[k - 1] \o tt[k]
        BY <2>2 DEF IsJoined
    <2>4. k # 1 => k - 1 \in 1 .. m /\ ~ (k <= k - 1)
        BY <2>2
    <2>5. k # 1 => g[k - 1] = h[k - 1]
        BY <2>1, <2>4
    <2>6. QED
        BY <2>1, <2>2, <2>3, <2>5
<1>2. QED
    BY <1>1

\* FlattenSeq is the last value of its table.
LEMMA FlattenIsJoined ==
    ASSUME NEW ss, Len(ss) \in Nat \ {0}, NEW g, IsJoined(g, ss, Len(ss))
    PROVE  FlattenSeq(ss) = g[Len(ss)]
<1> DEFINE f == CHOOSE h : h = [i \in 1 .. Len(ss) |-> IF i = 1 THEN ss[i] ELSE h[i - 1] \o ss[i]]
<1>1. IsJoined(f, ss, Len(ss))
    BY DEF IsJoined
<1>2. FlattenSeq(ss) = f[Len(ss)]
    BY DEF FlattenSeq
<1> HIDE DEF f
<1>3. QED
    BY <1>1, <1>2, JoinedAgree

\* What FlattenSeq makes of the first n sequences.
Joined(ss, n) == FlattenSeq(SubSeq(ss, 1, n))

\* One more part stands at the end.
LEMMA JoinedStep ==
    ASSUME NEW S, NEW ss \in Seq(Seq(S))
    PROVE  /\ Joined(ss, 0) = <<>>
           /\ \A n \in 1 .. Len(ss) : Joined(ss, n) = Joined(ss, n - 1) \o ss[n]
           /\ \A n \in 0 .. Len(ss) : Joined(ss, n) \in Seq(S)
           /\ FlattenSeq(ss) = Joined(ss, Len(ss))
<1>1. Joined(ss, 0) = <<>>
    BY DEF Joined, FlattenSeq
<1>2. PICK g : IsJoined(g, ss, Len(ss))
    <2>1. Len(ss) \in Nat
        OBVIOUS
    <2>2. QED
        BY <2>1, JoinedExists
<1>3. ASSUME NEW n \in 1 .. Len(ss) PROVE Joined(ss, n) = g[n]
    <2> DEFINE tt == SubSeq(ss, 1, n)
    <2>1. Len(tt) = n /\ n \in Nat \ {0} /\ \A i \in 1 .. n : tt[i] = ss[i]
        OBVIOUS
    <2> HIDE DEF tt
    <2>2. PICK h : IsJoined(h, tt, n)
        BY <2>1, JoinedExists
    <2>3. FlattenSeq(tt) = h[n]
        BY <2>1, <2>2, FlattenIsJoined
    <2>4. h[n] = g[n]
        BY <1>2, <2>1, <2>2, JoinedAgree, SMTT(30)
    <2>5. QED
        BY <2>3, <2>4 DEF Joined, tt
<1>4. ASSUME NEW n \in 1 .. Len(ss) PROVE Joined(ss, n) = Joined(ss, n - 1) \o ss[n]
    <2>1. g[n] = IF n = 1 THEN ss[n] ELSE g[n - 1] \o ss[n]
        BY <1>2 DEF IsJoined
    <2>2. CASE n = 1
        <3>1. <<>> \o ss[n] = ss[n]
            BY ConcatEmptySeq
        <3>2. QED
            BY <1>1, <1>3, <2>1, <2>2, <3>1, SMTT(30)
    <2>3. CASE n # 1
        <3>1. n - 1 \in 1 .. Len(ss)
            BY <2>3
        <3>2. QED
            BY <1>3, <2>1, <2>3, <3>1
    <2>4. QED
        BY <2>2, <2>3
<1>5. ASSUME NEW n \in 0 .. Len(ss) PROVE Joined(ss, n) \in Seq(S)
    <2> DEFINE Others == {k \in 0 .. Len(ss) : Joined(ss, k) \notin Seq(S)}
    <2>1. Others = {}
        <3> SUFFICES ASSUME Others # {} PROVE FALSE
            OBVIOUS
        <3>1. PICK k \in Others : \A m \in Others : k <= m
            <4>1. Others \subseteq Nat
                OBVIOUS
            <4> HIDE DEF Others
            <4>2. QED
                BY <4>1, LeastNatural
        <3>2. k # 0
            BY <1>1, <3>1, EmptySeq
        <3>3. k \in 1 .. Len(ss) /\ k - 1 \in 0 .. Len(ss) /\ ~ (k <= k - 1)
            BY <3>1, <3>2
        <3>4. Joined(ss, k - 1) \in Seq(S)
            BY <3>1, <3>3
        <3>5. Joined(ss, k) \in Seq(S)
            <4>1. ss[k] \in Seq(S)
                BY <3>3
            <4>2. QED
                BY <1>4, <3>3, <3>4, <4>1, ConcatProperties
        <3>6. QED
            BY <3>1, <3>5
    <2>2. QED
        BY <2>1
<1>6. FlattenSeq(ss) = Joined(ss, Len(ss))
    BY SubSeqFull DEF Joined
<1>7. QED
    BY <1>1, <1>4, <1>5, <1>6

\* What is joined of the first b sequences is what is joined of the first a, and
\* then of those between.
LEMMA JoinedBetween ==
    ASSUME NEW S, NEW ss \in Seq(Seq(S)), NEW a \in 0 .. Len(ss), NEW b \in a .. Len(ss)
    PROVE  Joined(ss, b) = Joined(ss, a) \o FlattenSeq(SubSeq(ss, a + 1, b))
<1> DEFINE tt == SubSeq(ss, a + 1, b)
           P == {k \in 0 .. b - a : Joined(ss, a + k) = Joined(ss, a) \o Joined(tt, k)}
<1>1. /\ Len(ss) \in Nat /\ a \in Nat /\ b \in Nat /\ b - a \in Nat /\ b <= Len(ss)
    OBVIOUS
<1>2. tt \in Seq(Seq(S)) /\ Len(tt) = b - a /\ \A k \in 1 .. b - a : tt[k] = ss[a + k]
    BY <1>1
<1> HIDE DEF tt
<1>3. /\ Joined(tt, 0) = <<>> /\ FlattenSeq(tt) = Joined(tt, b - a)
      /\ \A k \in 1 .. b - a : Joined(tt, k) = Joined(tt, k - 1) \o tt[k]
      /\ \A k \in 0 .. b - a : Joined(tt, k) \in Seq(S)
    BY <1>2, JoinedStep
<1>4. /\ \A n \in 1 .. Len(ss) : Joined(ss, n) = Joined(ss, n - 1) \o ss[n]
      /\ \A n \in 0 .. Len(ss) : Joined(ss, n) \in Seq(S)
    BY JoinedStep
<1>5. 0 \in P
    BY <1>1, <1>3, <1>4, ConcatEmptySeq
<1>6. ASSUME NEW k \in 1 .. b - a, k - 1 \in P PROVE k \in P
    <2>1. a + k \in 1 .. Len(ss) /\ (a + k) - 1 = a + (k - 1) /\ k \in 0 .. b - a /\ k - 1 \in 0 .. b - a
        BY <1>1
    <2>2. Joined(ss, a + k) = (Joined(ss, a) \o Joined(tt, k - 1)) \o tt[k]
        BY <1>2, <1>4, <1>6, <2>1
    <2>3. Joined(ss, a) \in Seq(S)
        BY <1>4
    <2>4. Joined(tt, k - 1) \in Seq(S)
        BY <1>3, <2>1
    <2>5. tt[k] \in Seq(S)
        BY <1>2, <2>1, ElementOfSeq
    <2>6. \A x, y, z \in Seq(S) : (x \o y) \o z = x \o (y \o z)
        BY ConcatAssociative
    <2>7. Joined(ss, a + k) = Joined(ss, a) \o (Joined(tt, k - 1) \o tt[k])
        BY <2>2, <2>3, <2>4, <2>5, <2>6, Zenon
    <2> QED
        BY <1>3, <2>1, <2>7
<1> HIDE DEF P
<1>7. 0 .. b - a \subseteq P
    BY <1>1, <1>5, <1>6, UpTo
<1>8. b - a \in P
    BY <1>1, <1>7
<1> QED
    BY <1>1, <1>3, <1>8 DEF P, tt

\* What is joined of two rows of sequences is what is joined of one, and then of
\* the other.
LEMMA FlattenConcat ==
    ASSUME NEW S, NEW ss \in Seq(Seq(S)), NEW tt \in Seq(Seq(S))
    PROVE  FlattenSeq(ss \o tt) = FlattenSeq(ss) \o FlattenSeq(tt)
<1> DEFINE all == ss \o tt
           a == Len(ss)
           b == Len(ss) + Len(tt)
<1>1. all \in Seq(Seq(S)) /\ Len(all) = b /\ a \in 0 .. Len(all) /\ Len(all) \in a .. Len(all)
    OBVIOUS
<1>2. SubSeq(all, 1, a) = ss /\ SubSeq(all, a + 1, b) = tt
    OBVIOUS
<1> HIDE DEF all
<1>3. Joined(all, Len(all)) = Joined(all, a) \o FlattenSeq(SubSeq(all, a + 1, Len(all)))
    BY <1>1, JoinedBetween
<1>4. FlattenSeq(all) = Joined(all, Len(all))
    BY <1>1, JoinedStep
<1>5. Joined(all, a) = FlattenSeq(ss)
    BY <1>2 DEF Joined
<1> QED
    BY <1>1, <1>2, <1>3, <1>4, <1>5 DEF all

\* What is joined is a sequence over the same set, and nothing is joined of
\* nothing.
LEMMA FlattenType ==
    ASSUME NEW S, NEW ss \in Seq(Seq(S))
    PROVE  FlattenSeq(ss) \in Seq(S)
<1>1. Len(ss) \in 0 .. Len(ss)
    OBVIOUS
<1>2. QED
    BY <1>1, JoinedStep

\* The elements of what is joined of the first n sequences are theirs.
ElementsUpTo(ss, n) ==
    /\ \A i \in DOMAIN Joined(ss, n) : \E k \in 1 .. n : \E l \in DOMAIN ss[k] :
            Joined(ss, n)[i] = ss[k][l]
    /\ \A k \in 1 .. n : \A l \in DOMAIN ss[k] : \E i \in DOMAIN Joined(ss, n) :
            Joined(ss, n)[i] = ss[k][l]

\* With one more part its elements are added.
LEMMA ElementsStep ==
    ASSUME NEW S, NEW ss \in Seq(Seq(S)), NEW n \in 1 .. Len(ss), ElementsUpTo(ss, n - 1)
    PROVE  ElementsUpTo(ss, n)
<1>0. /\ \A m \in 1 .. Len(ss) : Joined(ss, m) = Joined(ss, m - 1) \o ss[m]
      /\ \A m \in 0 .. Len(ss) : Joined(ss, m) \in Seq(S)
    BY JoinedStep
<1> DEFINE before == Joined(ss, n - 1)
           after == Joined(ss, n)
<1>1. after = before \o ss[n]
    BY <1>0
<1>2. before \in Seq(S) /\ ss[n] \in Seq(S)
    <2>1. n - 1 \in 0 .. Len(ss) /\ n \in DOMAIN ss
        OBVIOUS
    <2>2. QED
        BY <1>0, <2>1
<1>3. /\ \A i \in DOMAIN before : \E k \in 1 .. n - 1 : \E l \in DOMAIN ss[k] : before[i] = ss[k][l]
      /\ \A k \in 1 .. n - 1 : \A l \in DOMAIN ss[k] : \E i \in DOMAIN before : before[i] = ss[k][l]
    BY DEF ElementsUpTo
<1> HIDE DEF before, after
<1>4. /\ after \in Seq(S) /\ Len(after) = Len(before) + Len(ss[n])
      /\ DOMAIN before = 1 .. Len(before) /\ DOMAIN ss[n] = 1 .. Len(ss[n])
      /\ DOMAIN after = 1 .. Len(after) /\ Len(before) \in Nat /\ Len(ss[n]) \in Nat
    BY <1>1, <1>2
<1>5. \A i \in DOMAIN after :
        after[i] = IF i <= Len(before) THEN before[i] ELSE ss[n][i - Len(before)]
    BY <1>1, <1>2, <1>4
<1>6. ASSUME NEW i \in DOMAIN after
      PROVE  \E k \in 1 .. n : \E l \in DOMAIN ss[k] : after[i] = ss[k][l]
    <2>1. CASE i <= Len(before)
        <3>1. i \in DOMAIN before /\ after[i] = before[i]
            BY <1>4, <1>5, <2>1
        <3>2. PICK k \in 1 .. n - 1 : \E l \in DOMAIN ss[k] : before[i] = ss[k][l]
            BY <1>3, <3>1
        <3>3. k \in 1 .. n
            OBVIOUS
        <3>4. QED
            BY <3>1, <3>2, <3>3
    <2>2. CASE ~ (i <= Len(before))
        <3>1. i - Len(before) \in DOMAIN ss[n] /\ after[i] = ss[n][i - Len(before)]
            BY <1>4, <1>5, <2>2
        <3>2. n \in 1 .. n
            OBVIOUS
        <3>3. QED
            BY <3>1, <3>2
    <2>3. QED
        BY <2>1, <2>2
<1>7. ASSUME NEW k \in 1 .. n, NEW l \in DOMAIN ss[k]
      PROVE  \E i \in DOMAIN after : after[i] = ss[k][l]
    <2>1. CASE k = n
        <3>1. l \in 1 .. Len(ss[n])
            BY <1>4, <2>1
        <3>2. Len(before) + l \in DOMAIN after /\ ~ (Len(before) + l <= Len(before))
            BY <1>4, <3>1, SMTT(30)
        <3>3. (Len(before) + l) - Len(before) = l
            BY <1>4, <3>1
        <3>4. QED
            BY <1>5, <2>1, <3>2, <3>3
    <2>2. CASE k # n
        <3>1. k \in 1 .. n - 1
            BY <2>2
        <3>2. PICK i \in DOMAIN before : before[i] = ss[k][l]
            BY <1>3, <3>1
        <3>3. i \in DOMAIN after /\ after[i] = before[i]
            BY <1>4, <1>5, <3>2
        <3>4. QED
            BY <3>2, <3>3
    <2>3. QED
        BY <2>1, <2>2
<1>8. QED
    BY <1>6, <1>7 DEF ElementsUpTo, after

\* What is joined holds exactly the elements of the parts.
LEMMA FlattenElements ==
    ASSUME NEW S, NEW ss \in Seq(Seq(S))
    PROVE  /\ \A i \in DOMAIN FlattenSeq(ss) : \E k \in DOMAIN ss : \E l \in DOMAIN ss[k] :
                    FlattenSeq(ss)[i] = ss[k][l]
           /\ \A k \in DOMAIN ss : \A l \in DOMAIN ss[k] : \E i \in DOMAIN FlattenSeq(ss) :
                    FlattenSeq(ss)[i] = ss[k][l]
<1>0. FlattenSeq(ss) = Joined(ss, Len(ss)) /\ Joined(ss, 0) = <<>>
    BY JoinedStep
<1> DEFINE P == {n \in 0 .. Len(ss) : ElementsUpTo(ss, n)}
<1>1. 0 \in P
    BY <1>0 DEF ElementsUpTo
<1>2. \A n \in 1 .. Len(ss) : n - 1 \in P => n \in P
    BY ElementsStep
<1>3. Len(ss) \in Nat
    OBVIOUS
<1>4. 0 .. Len(ss) \subseteq P
    <2> HIDE DEF P
    <2>1. QED
        BY <1>1, <1>2, <1>3, UpTo
<1>5. ElementsUpTo(ss, Len(ss))
    BY <1>3, <1>4
<1>6. DOMAIN ss = 1 .. Len(ss)
    OBVIOUS
<1> HIDE DEF P
<1>7. /\ \A i \in DOMAIN Joined(ss, Len(ss)) : \E k \in DOMAIN ss : \E l \in DOMAIN ss[k] :
            Joined(ss, Len(ss))[i] = ss[k][l]
      /\ \A k \in DOMAIN ss : \A l \in DOMAIN ss[k] : \E i \in DOMAIN Joined(ss, Len(ss)) :
            Joined(ss, Len(ss))[i] = ss[k][l]
    BY <1>5, <1>6, Zenon DEF ElementsUpTo
<1>8. Joined(ss, Len(ss)) = FlattenSeq(ss)
    BY <1>0
<1>9. QED
    <2> DEFINE all == Joined(ss, Len(ss))
    <2>1. /\ \A i \in DOMAIN all : \E k \in DOMAIN ss : \E l \in DOMAIN ss[k] : all[i] = ss[k][l]
          /\ \A k \in DOMAIN ss : \A l \in DOMAIN ss[k] : \E i \in DOMAIN all : all[i] = ss[k][l]
        BY <1>7
    <2>2. all = FlattenSeq(ss)
        BY <1>8
    <2> HIDE DEF all
    <2>3. QED
        BY <2>1, <2>2

\* Joining sequences of one element each gives back the elements, and joining
\* empty sequences nothing.
SinglesUpTo(ss, n) ==
    /\ Len(Joined(ss, n)) = n
    /\ \A k \in 1 .. n : Joined(ss, n)[k] = ss[k][1]

\* With one more part of one element there is one more.
LEMMA SinglesStep ==
    ASSUME NEW S, NEW ss \in Seq(Seq(S)), NEW n \in 1 .. Len(ss), Len(ss[n]) = 1,
           SinglesUpTo(ss, n - 1)
    PROVE  SinglesUpTo(ss, n)
<1>0. /\ \A m \in 1 .. Len(ss) : Joined(ss, m) = Joined(ss, m - 1) \o ss[m]
      /\ \A m \in 0 .. Len(ss) : Joined(ss, m) \in Seq(S)
    BY JoinedStep
<1> DEFINE before == Joined(ss, n - 1)
           after == Joined(ss, n)
<1>1. after = before \o ss[n]
    BY <1>0
<1>2. before \in Seq(S) /\ ss[n] \in Seq(S)
    <2>1. n - 1 \in 0 .. Len(ss) /\ n \in DOMAIN ss
        OBVIOUS
    <2>2. QED
        BY <1>0, <2>1
<1>3. Len(before) = n - 1 /\ \A k \in 1 .. n - 1 : before[k] = ss[k][1]
    BY DEF SinglesUpTo
<1> HIDE DEF before, after
<1>4. /\ Len(after) = Len(before) + Len(ss[n])
      /\ \A k \in 1 .. Len(before) + Len(ss[n]) :
            after[k] = IF k <= Len(before) THEN before[k] ELSE ss[n][k - Len(before)]
    BY <1>1, <1>2, ConcatProperties
<1>5. Len(before) + Len(ss[n]) = n /\ n - (n - 1) = 1
    BY <1>3
<1>6. ASSUME NEW k \in 1 .. n PROVE after[k] = ss[k][1]
    <2>1. CASE k = n
        <3>1. ~ (n <= Len(before)) /\ n - Len(before) = 1
            BY <1>3
        <3>2. after[n] = ss[n][1]
            BY <1>4, <1>5, <3>1
        <3>3. QED
            BY <2>1, <3>2
    <2>2. CASE k # n
        <3>1. k \in 1 .. n - 1 /\ k <= Len(before)
            BY <1>3, <2>2
        <3>2. after[k] = before[k]
            BY <1>4, <1>5, <3>1
        <3>3. QED
            BY <1>3, <3>1, <3>2
    <2>3. QED
        BY <2>1, <2>2
<1>7. QED
    BY <1>4, <1>5, <1>6 DEF SinglesUpTo, after

\* Parts of one element each: the elements in their order.
LEMMA FlattenSingles ==
    ASSUME NEW S, NEW s \in Seq(S), NEW ss \in Seq(Seq(S)), Len(ss) = Len(s),
           \A k \in DOMAIN s : ss[k] = <<s[k]>>
    PROVE  FlattenSeq(ss) = s
<1>0. /\ FlattenSeq(ss) = Joined(ss, Len(ss)) /\ Joined(ss, 0) = <<>>
      /\ \A m \in 0 .. Len(ss) : Joined(ss, m) \in Seq(S)
    BY JoinedStep
<1> DEFINE P == {n \in 0 .. Len(ss) : SinglesUpTo(ss, n)}
<1>1. 0 \in P
    BY <1>0 DEF SinglesUpTo
<1>2. \A n \in 1 .. Len(ss) : Len(ss[n]) = 1 /\ ss[n][1] = s[n]
    <2> SUFFICES ASSUME NEW n \in 1 .. Len(ss) PROVE Len(ss[n]) = 1 /\ ss[n][1] = s[n]
        OBVIOUS
    <2>1. n \in DOMAIN s
        OBVIOUS
    <2>2. ss[n] = <<s[n]>>
        BY <2>1
    <2>3. QED
        BY <2>2
<1>3. \A n \in 1 .. Len(ss) : n - 1 \in P => n \in P
    BY <1>2, SinglesStep
<1>4. Len(ss) \in Nat
    OBVIOUS
<1>5. 0 .. Len(ss) \subseteq P
    <2> HIDE DEF P
    <2>1. QED
        BY <1>1, <1>3, <1>4, UpTo
<1>6. SinglesUpTo(ss, Len(ss))
    BY <1>4, <1>5
<1>7. /\ Len(FlattenSeq(ss)) = Len(s) /\ FlattenSeq(ss) \in Seq(S)
      /\ \A k \in 1 .. Len(s) : FlattenSeq(ss)[k] = s[k]
    BY <1>0, <1>2, <1>4, <1>6 DEF SinglesUpTo
<1>8. QED
    BY <1>7, SeqEqual

\* Empty parts: nothing.
LEMMA FlattenEmpties ==
    ASSUME NEW S, NEW ss \in Seq(Seq(S)), \A k \in DOMAIN ss : ss[k] = <<>>
    PROVE  FlattenSeq(ss) = <<>>
<1>1. FlattenSeq(ss) \in Seq(S)
    BY FlattenType
<1>2. DOMAIN FlattenSeq(ss) = {}
    <2>1. \A i \in DOMAIN FlattenSeq(ss) : \E k \in DOMAIN ss : \E l \in DOMAIN ss[k] : TRUE
        BY FlattenElements
    <2>2. \A k \in DOMAIN ss : DOMAIN ss[k] = {}
        OBVIOUS
    <2>3. QED
        BY <2>1, <2>2
<1>3. QED
    BY <1>1, <1>2, EmptySeq

\* Sequences of three elements each stand three by three in what is joined.
TriplesUpTo(ss, n) ==
    /\ Len(Joined(ss, n)) = 3 * n
    /\ \A k \in 1 .. n :
        /\ Joined(ss, n)[3 * k - 2] = ss[k][1]
        /\ Joined(ss, n)[3 * k - 1] = ss[k][2]
        /\ Joined(ss, n)[3 * k] = ss[k][3]

\* With one more part of three elements there are three more.
LEMMA TriplesStep ==
    ASSUME NEW S, NEW ss \in Seq(Seq(S)), NEW n \in 1 .. Len(ss), Len(ss[n]) = 3,
           TriplesUpTo(ss, n - 1)
    PROVE  TriplesUpTo(ss, n)
<1>0. /\ \A m \in 1 .. Len(ss) : Joined(ss, m) = Joined(ss, m - 1) \o ss[m]
      /\ \A m \in 0 .. Len(ss) : Joined(ss, m) \in Seq(S)
    BY JoinedStep
<1> DEFINE before == Joined(ss, n - 1)
           after == Joined(ss, n)
<1>1. after = before \o ss[n]
    BY <1>0
<1>2. before \in Seq(S) /\ ss[n] \in Seq(S)
    <2>1. n - 1 \in 0 .. Len(ss) /\ n \in DOMAIN ss
        OBVIOUS
    <2>2. QED
        BY <1>0, <2>1
<1>3. /\ Len(before) = 3 * (n - 1)
      /\ \A k \in 1 .. n - 1 : /\ before[3 * k - 2] = ss[k][1]
                               /\ before[3 * k - 1] = ss[k][2]
                               /\ before[3 * k] = ss[k][3]
    BY DEF TriplesUpTo
<1> HIDE DEF before, after
<1>4. Len(after) = 3 * n
    <2>1. Len(after) = Len(before) + Len(ss[n])
        BY <1>1, <1>2, ConcatProperties
    <2>2. QED
        BY <1>3, <2>1
<1>5. \A i \in 1 .. 3 * n :
        after[i] = IF i <= 3 * (n - 1) THEN before[i] ELSE ss[n][i - 3 * (n - 1)]
    <2>1. \A i \in 1 .. Len(before) + Len(ss[n]) :
            after[i] = IF i <= Len(before) THEN before[i] ELSE ss[n][i - Len(before)]
        BY <1>1, <1>2, ConcatProperties
    <2>2. Len(before) + Len(ss[n]) = 3 * n
        BY <1>3
    <2>3. QED
        BY <1>3, <2>1, <2>2
<1>6. ASSUME NEW k \in 1 .. n
      PROVE  after[3 * k - 2] = ss[k][1] /\ after[3 * k - 1] = ss[k][2] /\ after[3 * k] = ss[k][3]
    <2>1. 3 * k - 2 \in 1 .. 3 * n /\ 3 * k - 1 \in 1 .. 3 * n /\ 3 * k \in 1 .. 3 * n
        OBVIOUS
    <2>2. CASE k = n
        <3>1. /\ ~ (3 * k - 2 <= 3 * (n - 1)) /\ (3 * k - 2) - 3 * (n - 1) = 1
              /\ ~ (3 * k - 1 <= 3 * (n - 1)) /\ (3 * k - 1) - 3 * (n - 1) = 2
              /\ ~ (3 * k <= 3 * (n - 1)) /\ (3 * k) - 3 * (n - 1) = 3
            BY <2>2
        <3>2. QED
            BY <1>5, <2>1, <2>2, <3>1
    <2>3. CASE k # n
        <3>1. k \in 1 .. n - 1 /\ 3 * k <= 3 * (n - 1) /\ 3 * k - 1 <= 3 * (n - 1)
              /\ 3 * k - 2 <= 3 * (n - 1)
            BY <2>3
        <3>2. QED
            BY <1>3, <1>5, <2>1, <3>1
    <2>4. QED
        BY <2>2, <2>3
<1>7. QED
    BY <1>4, <1>6 DEF TriplesUpTo, after

\* Parts of three elements each: element d of part i is at 3 * (i - 1) + d.
LEMMA FlattenTriples ==
    ASSUME NEW S, NEW ss \in Seq(Seq(S)), \A k \in DOMAIN ss : Len(ss[k]) = 3
    PROVE  /\ Len(FlattenSeq(ss)) = 3 * Len(ss)
           /\ \A k \in 1 .. Len(ss) :
                /\ FlattenSeq(ss)[3 * k - 2] = ss[k][1]
                /\ FlattenSeq(ss)[3 * k - 1] = ss[k][2]
                /\ FlattenSeq(ss)[3 * k] = ss[k][3]
<1>0. FlattenSeq(ss) = Joined(ss, Len(ss)) /\ Joined(ss, 0) = <<>>
    BY JoinedStep
<1> DEFINE P == {n \in 0 .. Len(ss) : TriplesUpTo(ss, n)}
<1>1. 0 \in P
    BY <1>0 DEF TriplesUpTo
<1>2. \A n \in 1 .. Len(ss) : n - 1 \in P => n \in P
    BY TriplesStep
<1>3. Len(ss) \in Nat
    OBVIOUS
<1>4. 0 .. Len(ss) \subseteq P
    <2> HIDE DEF P
    <2>1. QED
        BY <1>1, <1>2, <1>3, UpTo
<1>5. TriplesUpTo(ss, Len(ss))
    BY <1>3, <1>4
<1>6. QED
    BY <1>0, <1>5 DEF TriplesUpTo

-----------------------------------------------------------------------------
(* Texts, calls and blocks                                                 *)

\* Names, with those that the definitions give.
AnyName == STRING \cup {"Bash", "Read", "Write", "Edit", "command", "file_path", "w", ""}

AnyToken ==
    [tag : {"regionOpen", "regionClose", "invokeOpen", "invokeClose", "param", "word", "mention"},
     name : AnyName]

AnyText == Seq(AnyToken)

AnyCall == [name : AnyName, input : SUBSET AnyName]

AnyId == {NoId} \cup {DsmlId(n) : n \in Nat} \cup {Id("toolu", n) : n \in Nat}

\* The blocks of which the gateway makes events, and all blocks.
Tellable == {TextBlock(text) : text \in AnyText}
                \cup {ToolUse(id, name, input) : id \in AnyId, name \in AnyName, input \in SUBSET AnyName}

AnyBlock == Tellable \cup {Thinking}

\* A match lies within the text.
LEMMA MatchesWithin ==
    ASSUME NEW text, NEW open, NEW close
    PROVE  \A m \in Matches(text, open, close) :
                /\ m[1] \in DOMAIN text /\ m[2] \in DOMAIN text /\ m[1] < m[2]
    BY DEF Matches

\* The end of the match that begins at i.
Ends(text, open, close, i) == {m[2] : m \in {n \in Matches(text, open, close) : n[1] = i}}

End(text, open, close, i) == CHOOSE j \in Ends(text, open, close, i) : TRUE

\* The end of a match lies behind its beginning, within the text.
LEMMA EndWithin ==
    ASSUME NEW text, NEW open, NEW close, NEW i, Ends(text, open, close, i) # {}
    PROVE  /\ i \in DOMAIN text /\ End(text, open, close, i) \in DOMAIN text
           /\ i < End(text, open, close, i)
           /\ <<i, End(text, open, close, i)>> \in Matches(text, open, close)
<1>1. End(text, open, close, i) \in Ends(text, open, close, i)
    BY DEF End
<1>2. PICK m \in Matches(text, open, close) : m[1] = i /\ m[2] = End(text, open, close, i)
    BY <1>1 DEF Ends
<1>3. m = <<m[1], m[2]>>
    BY DEF Matches
<1>4. QED
    BY <1>2, <1>3, MatchesWithin

\* What names are mapped to is a name (mapToolName, mapParamName).
LEMMA MappedNames ==
    ASSUME NEW tool \in AnyName, NEW name \in AnyName
    PROVE  mapToolName(name) \in AnyName /\ mapParamName(tool, name) \in AnyName
<1>1. mapToolName(name) \in {"Bash", "Read", "Write", "Edit", name}
    BY DEF mapToolName, AnyName
<1>2. mapParamName(tool, name) \in {"command", "file_path", name}
    BY DEF mapParamName, AnyName
<1>3. mapToolName(name) \in AnyName
    BY <1>1 DEF AnyName
<1>4. mapParamName(tool, name) \in AnyName
    BY <1>2 DEF AnyName
<1>5. QED
    BY <1>3, <1>4

\* parseInvokes returns calls.
LEMMA InvokesType ==
    ASSUME NEW text \in AnyText
    PROVE  parseInvokes(text) \in Seq(AnyCall)
<1> DEFINE ends(i) == Ends(text, "invokeOpen", "invokeClose", i)
           j(i) == End(text, "invokeOpen", "invokeClose", i)
           name(i) == mapToolName(text[i].name)
           params(i) == {text[k].name : k \in {l \in i .. j(i) : text[l].tag = "param"}}
           call(i) == [name |-> name(i), input |-> {mapParamName(name(i), p) : p \in params(i)}]
           one(i) == IF ends(i) = {} THEN <<>> ELSE IF name(i) = "" THEN <<>> ELSE <<call(i)>>
<1>1. parseInvokes(text) = FlattenSeq([i \in DOMAIN text |-> one(i)])
    BY DEF parseInvokes, JoinMatches, Ends, End
<1>2. ASSUME NEW i \in DOMAIN text, ends(i) # {} PROVE call(i) \in AnyCall
    <2>1. j(i) \in DOMAIN text /\ i \in DOMAIN text
        BY <1>2, EndWithin
    <2>2. \A k \in DOMAIN text : text[k].name \in AnyName
        <3>1. \A k \in DOMAIN text : text[k] \in AnyToken
            BY ElementOfSeq DEF AnyText
        <3>2. \A t \in AnyToken : t.name \in AnyName
            BY DEF AnyToken
        <3>3. QED
            BY <3>1, <3>2
    <2>3. name(i) \in AnyName
        BY <2>1, <2>2, MappedNames
    <2>4. i .. j(i) \subseteq DOMAIN text
        <3>1. DOMAIN text = 1 .. Len(text) /\ Len(text) \in Nat
            BY DEF AnyText
        <3> HIDE DEF j
        <3>2. QED
            BY <2>1, <3>1
    <2>5. params(i) \subseteq AnyName
        BY <2>2, <2>4
    <2> HIDE DEF name, params
    <2>6. {mapParamName(name(i), p) : p \in params(i)} \subseteq AnyName
        BY <2>3, <2>5, MappedNames
    <2>7. QED
        BY <2>3, <2>6 DEF AnyCall
<1> HIDE DEF ends, j, call, name
<1>3. ASSUME NEW i \in DOMAIN text PROVE one(i) \in Seq(AnyCall)
    <2>1. CASE ends(i) = {} \/ name(i) = ""
        <3>1. one(i) = <<>>
            BY <2>1
        <3>2. QED
            BY <3>1, EmptySeq
    <2>2. CASE ~ (ends(i) = {} \/ name(i) = "")
        <3>1. one(i) = <<call(i)>> /\ call(i) \in AnyCall
            BY <1>2, <2>2
        <3> HIDE DEF one
        <3>2. QED
            BY <3>1
    <2>3. QED
        BY <2>1, <2>2
<1> HIDE DEF one
<1>4. [i \in DOMAIN text |-> one(i)] \in Seq(Seq(AnyCall))
    <2>1. DOMAIN text = 1 .. Len(text) /\ Len(text) \in Nat
        BY DEF AnyText
    <2>2. QED
        BY <1>3, <2>1, IsASeq
<1>5. QED
    BY <1>1, <1>4, FlattenType

\* parseDSMLRegions returns calls.
LEMMA RegionsType ==
    ASSUME NEW text \in AnyText
    PROVE  parseDSMLRegions(text) \in Seq(AnyCall)
<1> DEFINE ends(i) == Ends(text, "regionOpen", "regionClose", i)
           j(i) == End(text, "regionOpen", "regionClose", i)
           one(i) == IF ends(i) = {} THEN <<>> ELSE parseInvokes(SubSeq(text, i + 1, j(i) - 1))
<1>1. parseDSMLRegions(text) = FlattenSeq([i \in DOMAIN text |-> one(i)])
    BY DEF parseDSMLRegions, JoinMatches, Ends, End
<1>2. ASSUME NEW i \in DOMAIN text, ends(i) # {}
      PROVE  SubSeq(text, i + 1, j(i) - 1) \in AnyText
    <2>1. j(i) \in DOMAIN text /\ i \in DOMAIN text
        BY <1>2, EndWithin
    <2> HIDE DEF j
    <2>2. QED
        BY <2>1 DEF AnyText
<1> HIDE DEF ends, j
<1>3. \A i \in DOMAIN text : one(i) \in Seq(AnyCall)
    BY <1>2, InvokesType
<1> HIDE DEF one
<1>4. [i \in DOMAIN text |-> one(i)] \in Seq(Seq(AnyCall))
    <2>1. DOMAIN text = 1 .. Len(text) /\ Len(text) \in Nat
        BY DEF AnyText
    <2>2. QED
        BY <1>3, <2>1, IsASeq
<1>5. QED
    BY <1>1, <1>4, FlattenType

\* A text without its markup is a text.
LEMMA WithoutType ==
    ASSUME NEW text \in AnyText, NEW open, NEW close
    PROVE  Without(text, open, close) \in AnyText
<1> DEFINE matched == UNION {m[1] .. m[2] : m \in Matches(text, open, close)}
           one(i) == IF i \in matched THEN <<>> ELSE <<text[i]>>
<1>1. Without(text, open, close) = FlattenSeq([i \in DOMAIN text |-> one(i)])
    BY DEF Without
<1> HIDE DEF matched
<1>2. \A i \in DOMAIN text : one(i) \in Seq(AnyToken)
    BY DEF AnyText
<1> HIDE DEF one
<1>3. [i \in DOMAIN text |-> one(i)] \in Seq(Seq(AnyToken))
    <2>1. DOMAIN text = 1 .. Len(text) /\ Len(text) \in Nat
        BY DEF AnyText
    <2>2. QED
        BY <1>2, <2>1, IsASeq
<1>4. QED
    BY <1>1, <1>3, FlattenType DEF AnyText

\* What StripAndParseDSML returns: calls exactly when it found some.
LEMMA StripType ==
    ASSUME NEW text \in AnyText
    PROVE  LET parsed == StripAndParseDSML(text)
           IN  /\ parsed.ok \in BOOLEAN /\ parsed.calls \in Seq(AnyCall) /\ parsed.clean \in AnyText
               /\ parsed.ok <=> parsed.calls # <<>>
               /\ ~parsed.ok => parsed.clean = text
<1>1. /\ parseDSMLRegions(text) \in Seq(AnyCall) /\ parseInvokes(text) \in Seq(AnyCall)
      /\ Without(Without(text, "regionOpen", "regionClose"), "invokeOpen", "invokeClose") \in AnyText
    BY RegionsType, InvokesType, WithoutType
<1>2. QED
    BY <1>1 DEF StripAndParseDSML

\* Every block has a text, which is empty in a call.
LEMMA BlockText ==
    ASSUME NEW b \in AnyBlock
    PROVE  b.text \in AnyText /\ (b.type # "text" => b.text = <<>>)
<1>1. <<>> \in AnyText
    BY EmptySeq DEF AnyText
<1>2. CASE b \in {TextBlock(text) : text \in AnyText}
    <2>1. PICK text \in AnyText : b = TextBlock(text)
        BY <1>2
    <2>2. b.text = text /\ b.type = "text"
        BY <2>1 DEF TextBlock
    <2>3. QED
        BY <2>1, <2>2
<1>3. CASE b \in {ToolUse(id, name, input) : id \in AnyId, name \in AnyName, input \in SUBSET AnyName}
    <2>1. b.text = <<>>
        BY <1>3 DEF ToolUse
    <2>2. QED
        BY <1>1, <2>1
<1>4. CASE b = Thinking
    BY <1>1, <1>4 DEF Thinking
<1>5. QED
    BY <1>2, <1>3, <1>4 DEF AnyBlock, Tellable

\* Calls become blocks, as many as they are.
LEMMA ToolUsesType ==
    ASSUME NEW calls \in Seq(AnyCall)
    PROVE  /\ ToolUses(calls) \in Seq(Tellable) /\ Len(ToolUses(calls)) = Len(calls)
           /\ \A i \in 1 .. Len(calls) :
                ToolUses(calls)[i] = ToolUse(DsmlId(i), calls[i].name, calls[i].input)
<1>1. DOMAIN calls = 1 .. Len(calls) /\ Len(calls) \in Nat
    OBVIOUS
<1>2. ASSUME NEW i \in 1 .. Len(calls)
      PROVE  ToolUse(DsmlId(i), calls[i].name, calls[i].input) \in Tellable
    <2>1. calls[i].name \in AnyName /\ calls[i].input \in SUBSET AnyName
        <3>1. calls[i] \in AnyCall
            BY <1>1, ElementOfSeq
        <3>2. QED
            BY <3>1 DEF AnyCall
    <2>2. DsmlId(i) \in AnyId
        <3>1. i \in Nat
            BY <1>1
        <3>2. QED
            BY <3>1 DEF AnyId
    <2>3. QED
        BY <2>1, <2>2 DEF Tellable
<1>3. QED
    BY <1>1, <1>2, IsASeq DEF ToolUses

-----------------------------------------------------------------------------
(* RewriteClaudeMessageDSML                                                *)

\* What stays of a block, and the calls it had.
Kept(b) ==
    IF ~StripAndParseDSML(b.text).ok THEN <<b>>
    ELSE IF StripAndParseDSML(b.text).clean = <<>> THEN <<>>
    ELSE <<TextBlock(StripAndParseDSML(b.text).clean)>>

AllKept(blocks) == FlattenSeq([i \in DOMAIN blocks |-> Kept(blocks[i])])

AllCalls(blocks) == FlattenSeq([i \in DOMAIN blocks |-> StripAndParseDSML(blocks[i].text).calls])

\* RewriteClaudeMessageDSML tells what was kept and then the calls.
LEMMA RewriteParts ==
    ASSUME NEW blocks
    PROVE  RewriteClaudeMessageDSML(blocks) = AllKept(blocks) \o ToolUses(AllCalls(blocks))
    BY DEF RewriteClaudeMessageDSML, AllKept, AllCalls, Kept

\* Both parts are joined of one sequence for each block.
LEMMA PartsType ==
    ASSUME NEW blocks \in Seq(AnyBlock)
    PROVE  /\ DOMAIN blocks = 1 .. Len(blocks) /\ Len(blocks) \in Nat
           /\ [i \in DOMAIN blocks |-> Kept(blocks[i])] \in Seq(Seq(AnyBlock))
           /\ [i \in DOMAIN blocks |-> StripAndParseDSML(blocks[i].text).calls] \in Seq(Seq(AnyCall))
<1>1. DOMAIN blocks = 1 .. Len(blocks) /\ Len(blocks) \in Nat
    OBVIOUS
<1>2. ASSUME NEW i \in DOMAIN blocks
      PROVE  Kept(blocks[i]) \in Seq(AnyBlock) /\ StripAndParseDSML(blocks[i].text).calls \in Seq(AnyCall)
    <2>1. blocks[i] \in AnyBlock
        BY <1>1, ElementOfSeq
    <2>2. blocks[i].text \in AnyText
        BY <2>1, BlockText
    <2> DEFINE parsed == StripAndParseDSML(blocks[i].text)
    <2>3. parsed.clean \in AnyText /\ parsed.calls \in Seq(AnyCall)
        BY <2>2, StripType
    <2> HIDE DEF parsed
    <2>4. TextBlock(parsed.clean) \in AnyBlock
        BY <2>3 DEF AnyBlock, Tellable
    <2>5. <<blocks[i]>> \in Seq(AnyBlock) /\ <<TextBlock(parsed.clean)>> \in Seq(AnyBlock)
            /\ <<>> \in Seq(AnyBlock)
        BY <2>1, <2>4, EmptySeq
    <2>6. QED
        BY <2>3, <2>5 DEF parsed, Kept
<1>3. QED
    BY <1>1, <1>2, IsASeq

\* RewriteClaudeMessageDSML returns blocks.
LEMMA RewriteType ==
    ASSUME NEW blocks \in Seq(AnyBlock)
    PROVE  /\ AllKept(blocks) \in Seq(AnyBlock) /\ AllCalls(blocks) \in Seq(AnyCall)
           /\ ToolUses(AllCalls(blocks)) \in Seq(AnyBlock)
           /\ RewriteClaudeMessageDSML(blocks) \in Seq(AnyBlock)
<1>1. AllKept(blocks) \in Seq(AnyBlock) /\ AllCalls(blocks) \in Seq(AnyCall)
    BY PartsType, FlattenType DEF AllKept, AllCalls
<1>2. Tellable \subseteq AnyBlock
    BY DEF AnyBlock
<1>3. ToolUses(AllCalls(blocks)) \in Seq(AnyBlock)
    BY <1>1, <1>2, ToolUsesType, SeqMonotonic
<1>4. QED
    BY <1>1, <1>3, RewriteParts, ConcatProperties

\* A message without calls in its texts stays as it is.
LEMMA RewriteNothing ==
    ASSUME NEW blocks \in Seq(AnyBlock), \A i \in DOMAIN blocks : ~StripAndParseDSML(blocks[i].text).ok
    PROVE  RewriteClaudeMessageDSML(blocks) = blocks
<1>1. AllKept(blocks) = blocks
    <2> DEFINE ss == [i \in DOMAIN blocks |-> Kept(blocks[i])]
    <2>1. ss \in Seq(Seq(AnyBlock)) /\ Len(ss) = Len(blocks)
        <3>1. ss \in Seq(Seq(AnyBlock)) /\ DOMAIN blocks = 1 .. Len(blocks) /\ Len(blocks) \in Nat
            BY PartsType
        <3>2. DOMAIN ss = 1 .. Len(blocks)
            BY <3>1
        <3>3. QED
            BY <3>1, <3>2, LenProperties
    <2>2. \A k \in DOMAIN blocks : ss[k] = <<blocks[k]>>
        BY DEF Kept
    <2> HIDE DEF ss
    <2>3. FlattenSeq(ss) = blocks
        BY <2>1, <2>2, FlattenSingles
    <2>4. QED
        BY <2>3 DEF AllKept, ss
<1>2. AllCalls(blocks) = <<>>
    <2> DEFINE ss == [i \in DOMAIN blocks |-> StripAndParseDSML(blocks[i].text).calls]
    <2>1. ss \in Seq(Seq(AnyCall))
        BY PartsType
    <2>2. ASSUME NEW k \in DOMAIN blocks PROVE StripAndParseDSML(blocks[k].text).calls = <<>>
        <3>1. blocks[k].text \in AnyText
            BY BlockText, ElementOfSeq
        <3>2. QED
            BY <3>1, StripType
    <2>3. \A k \in DOMAIN ss : ss[k] = <<>>
        BY <2>2
    <2> HIDE DEF ss
    <2>4. FlattenSeq(ss) = <<>>
        BY <2>1, <2>3, FlattenEmpties
    <2>5. QED
        BY <2>4 DEF AllCalls, ss
<1>3. ToolUses(<<>>) = <<>>
    BY DEF ToolUses
<1>4. QED
    BY <1>1, <1>2, <1>3, RewriteParts, ConcatEmptySeq

\* A message with a call in one of its texts gets it as a block.
LEMMA RewriteSomething ==
    ASSUME NEW blocks \in Seq(AnyBlock), NEW k \in DOMAIN blocks, StripAndParseDSML(blocks[k].text).ok
    PROVE  \E i \in DOMAIN RewriteClaudeMessageDSML(blocks) :
                RewriteClaudeMessageDSML(blocks)[i].type = "tool_use"
<1> DEFINE ss == [i \in DOMAIN blocks |-> StripAndParseDSML(blocks[i].text).calls]
           kept == AllKept(blocks)
           uses == ToolUses(AllCalls(blocks))
<1>1. ss \in Seq(Seq(AnyCall))
    BY PartsType
<1>2. blocks[k].text \in AnyText
    BY BlockText, ElementOfSeq
<1>3. StripAndParseDSML(blocks[k].text).calls \in Seq(AnyCall) \ {<<>>}
    BY <1>2, StripType
<1>4. k \in DOMAIN ss /\ 1 \in DOMAIN ss[k]
    BY <1>3
<1> HIDE DEF ss
<1>5. \E i \in DOMAIN FlattenSeq(ss) : FlattenSeq(ss)[i] = ss[k][1]
    BY <1>1, <1>4, FlattenElements
<1>6. AllCalls(blocks) # <<>> /\ AllCalls(blocks) \in Seq(AnyCall)
    BY <1>5, RewriteType DEF AllCalls, ss
<1>7. 1 \in 1 .. Len(AllCalls(blocks))
    BY <1>6
<1>8. Len(uses) = Len(AllCalls(blocks)) /\ uses[1].type = "tool_use"
    <2> DEFINE calls == AllCalls(blocks)
    <2>1. /\ Len(ToolUses(calls)) = Len(calls)
          /\ ToolUses(calls)[1] = ToolUse(DsmlId(1), calls[1].name, calls[1].input)
        <3>1. calls \in Seq(AnyCall) /\ 1 \in 1 .. Len(calls)
            BY <1>6, <1>7
        <3> HIDE DEF calls
        <3>2. QED
            BY <3>1, ToolUsesType
    <2>2. QED
        BY <2>1 DEF ToolUse
<1>9. kept \in Seq(AnyBlock) /\ uses \in Seq(AnyBlock)
    BY RewriteType
<1> HIDE DEF kept, uses
<1>10. /\ Len(kept) + 1 \in DOMAIN (kept \o uses)
       /\ (kept \o uses)[Len(kept) + 1] = uses[1]
    <2>1. Len(uses) \in Nat /\ 1 <= Len(uses) /\ Len(kept) \in Nat
        BY <1>7, <1>8, <1>9
    <2>2. Len(kept) + 1 \in 1 .. Len(kept) + Len(uses) /\ ~ (Len(kept) + 1 <= Len(kept))
            /\ (Len(kept) + 1) - Len(kept) = 1
        BY <2>1
    <2>3. kept \o uses \in Seq(AnyBlock) /\ Len(kept \o uses) = Len(kept) + Len(uses)
        BY <1>9, ConcatProperties
    <2>4. (kept \o uses)[Len(kept) + 1] = uses[1]
        BY <1>9, <2>2, ConcatProperties
    <2>5. QED
        BY <2>2, <2>3, <2>4
<1>11. RewriteClaudeMessageDSML(blocks) = kept \o uses
    BY RewriteParts DEF kept, uses
<1>12. QED
    BY <1>8, <1>10, <1>11

-----------------------------------------------------------------------------
(* synthesizeToolUseSSE                                                    *)

\* The blocks of which events are made, and their events.
Told(clean, calls) == (IF clean = <<>> THEN <<>> ELSE <<TextBlock(clean)>>) \o ToolUses(calls)

EventsOf(blocks) == FlattenSeq([i \in DOMAIN blocks |-> BlockEvents(i - 1, blocks[i])])

StreamOf(blocks) ==
    <<Event("message_start", 0, NoBlock)>> \o EventsOf(blocks)
        \o <<Event("message_delta", 0, NoBlock), Event("message_stop", 0, NoBlock)>>

\* synthesizeToolUseSSE writes the stream of the text and the calls.
LEMMA SynthesizedStream ==
    ASSUME NEW clean, NEW calls
    PROVE  synthesizeToolUseSSE(clean, calls) = StreamOf(Told(clean, calls))
    BY DEF synthesizeToolUseSSE, StreamOf, EventsOf, Told

\* A text and calls are told in blocks that events can be made of.
LEMMA ToldType ==
    ASSUME NEW clean \in AnyText, NEW calls \in Seq(AnyCall)
    PROVE  Told(clean, calls) \in Seq(Tellable)
<1>1. TextBlock(clean) \in Tellable
    BY DEF Tellable
<1>2. (IF clean = <<>> THEN <<>> ELSE <<TextBlock(clean)>>) \in Seq(Tellable)
    BY <1>1, EmptySeq
<1>3. QED
    BY <1>2, ToolUsesType, ConcatProperties DEF Told

AnyEvent ==
    {Event(type, index, block) :
        type \in {"message_start", "content_block_start", "content_block_delta", "content_block_stop",
                  "message_delta", "message_stop"},
        index \in Nat, block \in AnyBlock}

\* The events of a stream.
LEMMA EventType ==
    ASSUME NEW type \in {"message_start", "content_block_start", "content_block_delta",
                         "content_block_stop", "message_delta", "message_stop"},
           NEW index \in Nat, NEW block \in AnyBlock
    PROVE  Event(type, index, block) \in AnyEvent
    BY DEF AnyEvent

\* A text makes a block.
LEMMA TextBlockType ==
    ASSUME NEW text \in AnyText
    PROVE  TextBlock(text) \in Tellable /\ TextBlock(text) \in AnyBlock
<1>1. TextBlock(text) \in {TextBlock(t) : t \in AnyText}
    OBVIOUS
<1>2. QED
    BY <1>1 DEF Tellable, AnyBlock

\* An id, a name and parameters make a block.
LEMMA ToolUseType ==
    ASSUME NEW id \in AnyId, NEW name \in AnyName, NEW input \in SUBSET AnyName
    PROVE  ToolUse(id, name, input) \in Tellable /\ ToolUse(id, name, input) \in AnyBlock
<1>1. ToolUse(id, name, input) \in
        {ToolUse(i, n, p) : i \in AnyId, n \in AnyName, p \in SUBSET AnyName}
    OBVIOUS
<1>2. QED
    BY <1>1 DEF Tellable, AnyBlock

\* The block in events that carry none is a block.
LEMMA NoBlockType == NoBlock \in AnyBlock
<1>1. <<>> \in AnyText
    BY EmptySeq DEF AnyText
<1>2. QED
    BY <1>1, TextBlockType DEF NoBlock

\* Three members make a sequence.
LEMMA ThreeType ==
    ASSUME NEW S, NEW a \in S, NEW b \in S, NEW c \in S
    PROVE  <<a, b, c>> \in Seq(S) /\ Len(<<a, b, c>>) = 3
    OBVIOUS

\* A block makes three events.
LEMMA BlockEventsType ==
    ASSUME NEW index \in Nat, NEW block \in Tellable
    PROVE  BlockEvents(index, block) \in Seq(AnyEvent) /\ Len(BlockEvents(index, block)) = 3
<1>1. NoBlock \in AnyBlock /\ block \in AnyBlock /\ TextBlock(<<>>) \in AnyBlock
    BY NoBlockType DEF NoBlock, AnyBlock
<1>2. CASE block.type = "text"
    <2>1. BlockEvents(index, block) =
            << Event("content_block_start", index, TextBlock(<<>>)),
               Event("content_block_delta", index, block),
               Event("content_block_stop", index, NoBlock) >>
        BY <1>2 DEF BlockEvents
    <2>2. /\ Event("content_block_start", index, TextBlock(<<>>)) \in AnyEvent
          /\ Event("content_block_delta", index, block) \in AnyEvent
          /\ Event("content_block_stop", index, NoBlock) \in AnyEvent
        BY <1>1, EventType
    <2>3. QED
        BY <2>1, <2>2, ThreeType
<1>3. CASE block.type # "text"
    <2>1. PICK id \in AnyId, name \in AnyName, input \in SUBSET AnyName : block = ToolUse(id, name, input)
        <3>1. \A text : TextBlock(text).type = "text"
            BY DEF TextBlock
        <3>2. block \notin {TextBlock(text) : text \in AnyText}
            BY <1>3, <3>1
        <3>3. QED
            BY <3>2 DEF Tellable
    <2>2. block.id = id /\ block.name = name /\ block.input = input
        BY <2>1 DEF ToolUse
    <2>3. ToolUse(id, name, {}) \in AnyBlock /\ ToolUse(NoId, "", input) \in AnyBlock
        <3>1. NoId \in AnyId /\ "" \in AnyName /\ {} \in SUBSET AnyName
            BY DEF AnyId, AnyName
        <3>2. QED
            BY <3>1, ToolUseType
    <2>4. BlockEvents(index, block) =
            << Event("content_block_start", index, ToolUse(id, name, {})),
               Event("content_block_delta", index, ToolUse(NoId, "", input)),
               Event("content_block_stop", index, NoBlock) >>
        BY <1>3, <2>2 DEF BlockEvents
    <2>5. /\ Event("content_block_start", index, ToolUse(id, name, {})) \in AnyEvent
          /\ Event("content_block_delta", index, ToolUse(NoId, "", input)) \in AnyEvent
          /\ Event("content_block_stop", index, NoBlock) \in AnyEvent
        BY <1>1, <2>3, EventType
    <2>6. QED
        BY <2>4, <2>5, ThreeType
<1>4. QED
    BY <1>2, <1>3

\* Which event stands at which place of a stream.
LEMMA StreamEvents ==
    ASSUME NEW blocks \in Seq(Tellable)
    PROVE  LET n == Len(blocks)
               stream == StreamOf(blocks)
           IN  /\ stream \in Seq(AnyEvent) /\ Len(stream) = 3 * n + 3
               /\ stream[1] = Event("message_start", 0, NoBlock)
               /\ \A k \in 1 .. n : /\ stream[3 * k - 1] = BlockEvents(k - 1, blocks[k])[1]
                                    /\ stream[3 * k] = BlockEvents(k - 1, blocks[k])[2]
                                    /\ stream[3 * k + 1] = BlockEvents(k - 1, blocks[k])[3]
               /\ stream[3 * n + 2] = Event("message_delta", 0, NoBlock)
               /\ stream[3 * n + 3] = Event("message_stop", 0, NoBlock)
<1> DEFINE n == Len(blocks)
           ss == [i \in DOMAIN blocks |-> BlockEvents(i - 1, blocks[i])]
           middle == EventsOf(blocks)
           first == <<Event("message_start", 0, NoBlock)>>
           last == <<Event("message_delta", 0, NoBlock), Event("message_stop", 0, NoBlock)>>
<1>1. DOMAIN blocks = 1 .. n /\ n \in Nat
    OBVIOUS
<1>2. \A i \in 1 .. n : BlockEvents(i - 1, blocks[i]) \in Seq(AnyEvent) /\ Len(BlockEvents(i - 1, blocks[i])) = 3
    <2> SUFFICES ASSUME NEW i \in 1 .. n
                 PROVE  BlockEvents(i - 1, blocks[i]) \in Seq(AnyEvent) /\ Len(BlockEvents(i - 1, blocks[i])) = 3
        OBVIOUS
    <2>1. i - 1 \in Nat /\ blocks[i] \in Tellable
        BY <1>1, ElementOfSeq
    <2>2. QED
        BY <2>1, BlockEventsType
<1>3. /\ ss \in Seq(Seq(AnyEvent)) /\ DOMAIN ss = 1 .. n
      /\ \A k \in 1 .. n : ss[k] = BlockEvents(k - 1, blocks[k])
    BY <1>1, <1>2, IsASeq
<1>4. Len(ss) = n
    BY <1>1, <1>3, LenProperties
<1>5. middle = FlattenSeq(ss)
    BY DEF EventsOf
<1> HIDE DEF ss, middle
<1>6. \A k \in DOMAIN ss : Len(ss[k]) = 3
    BY <1>2, <1>3
<1>7. /\ middle \in Seq(AnyEvent) /\ Len(middle) = 3 * n
      /\ \A k \in 1 .. n : /\ middle[3 * k - 2] = BlockEvents(k - 1, blocks[k])[1]
                           /\ middle[3 * k - 1] = BlockEvents(k - 1, blocks[k])[2]
                           /\ middle[3 * k] = BlockEvents(k - 1, blocks[k])[3]
    <2>1. FlattenSeq(ss) \in Seq(AnyEvent)
        BY <1>3, FlattenType
    <2>2. /\ Len(FlattenSeq(ss)) = 3 * Len(ss)
          /\ \A k \in 1 .. Len(ss) : /\ FlattenSeq(ss)[3 * k - 2] = ss[k][1]
                                     /\ FlattenSeq(ss)[3 * k - 1] = ss[k][2]
                                     /\ FlattenSeq(ss)[3 * k] = ss[k][3]
        BY <1>3, <1>6, FlattenTriples
    <2>3. QED
        BY <1>3, <1>4, <1>5, <2>1, <2>2
<1>8. /\ first \in Seq(AnyEvent) /\ Len(first) = 1 /\ first[1] = Event("message_start", 0, NoBlock)
      /\ last \in Seq(AnyEvent) /\ Len(last) = 2 /\ last[1] = Event("message_delta", 0, NoBlock)
      /\ last[2] = Event("message_stop", 0, NoBlock)
    <2>1. /\ Event("message_start", 0, NoBlock) \in AnyEvent
          /\ Event("message_delta", 0, NoBlock) \in AnyEvent
          /\ Event("message_stop", 0, NoBlock) \in AnyEvent
        BY NoBlockType, EventType
    <2> HIDE DEF n
    <2>2. QED
        BY <2>1
<1> DEFINE opened == first \o middle
<1>9. StreamOf(blocks) = opened \o last
    BY DEF StreamOf, middle
<1> HIDE DEF first, last
<1>10. /\ opened \in Seq(AnyEvent) /\ Len(opened) = 3 * n + 1
       /\ \A i \in 1 .. 3 * n + 1 : opened[i] = IF i <= 1 THEN first[i] ELSE middle[i - 1]
    <2>1. /\ opened \in Seq(AnyEvent) /\ Len(opened) = 1 + 3 * n
          /\ \A i \in 1 .. 1 + 3 * n : opened[i] = IF i <= 1 THEN first[i] ELSE middle[i - 1]
        <3>1. /\ opened \in Seq(AnyEvent) /\ Len(opened) = Len(first) + Len(middle)
              /\ \A i \in 1 .. Len(first) + Len(middle) :
                    opened[i] = IF i <= Len(first) THEN first[i] ELSE middle[i - Len(first)]
            BY <1>7, <1>8, ConcatProperties
        <3>2. Len(first) = 1 /\ Len(middle) = 3 * n
            BY <1>7, <1>8
        <3> HIDE DEF n, opened
        <3>3. QED
            BY <3>1, <3>2
    <2>2. 1 + 3 * n = 3 * n + 1
        BY <1>1
    <2> HIDE DEF opened, n
    <2>3. QED
        BY <2>1, <2>2
<1> HIDE DEF opened
<1> DEFINE stream == StreamOf(blocks)
<1>11. /\ stream \in Seq(AnyEvent) /\ Len(stream) = 3 * n + 3
       /\ \A i \in 1 .. 3 * n + 3 :
            stream[i] = IF i <= 3 * n + 1 THEN opened[i] ELSE last[i - (3 * n + 1)]
    <2>1. /\ stream \in Seq(AnyEvent) /\ Len(stream) = (3 * n + 1) + 2
          /\ \A i \in 1 .. (3 * n + 1) + 2 :
                stream[i] = IF i <= 3 * n + 1 THEN opened[i] ELSE last[i - (3 * n + 1)]
        <3>1. /\ opened \o last \in Seq(AnyEvent) /\ Len(opened \o last) = Len(opened) + Len(last)
              /\ \A i \in 1 .. Len(opened) + Len(last) :
                    (opened \o last)[i] = IF i <= Len(opened) THEN opened[i] ELSE last[i - Len(opened)]
            BY <1>8, <1>10, ConcatProperties
        <3>2. Len(opened) = 3 * n + 1 /\ Len(last) = 2 /\ stream = opened \o last
            BY <1>8, <1>9, <1>10
        <3> HIDE DEF n, stream
        <3>3. QED
            BY <3>1, <3>2
    <2>2. (3 * n + 1) + 2 = 3 * n + 3
        BY <1>1
    <2> HIDE DEF stream, n
    <2>3. QED
        BY <2>1, <2>2
<1> HIDE DEF stream
<1>12. stream[1] = Event("message_start", 0, NoBlock)
    <2>1. 1 \in 1 .. 3 * n + 3 /\ 1 <= 3 * n + 1 /\ 1 \in 1 .. 3 * n + 1
        BY <1>1
    <2>2. QED
        BY <1>8, <1>10, <1>11, <2>1
<1>13. ASSUME NEW k \in 1 .. n
       PROVE  /\ stream[3 * k - 1] = BlockEvents(k - 1, blocks[k])[1]
              /\ stream[3 * k] = BlockEvents(k - 1, blocks[k])[2]
              /\ stream[3 * k + 1] = BlockEvents(k - 1, blocks[k])[3]
    <2>1. \A i \in 2 .. 3 * n + 1 : stream[i] = middle[i - 1]
        <3>1. \A i \in 2 .. 3 * n + 1 : i \in 1 .. 3 * n + 3 /\ i \in 1 .. 3 * n + 1 /\ i <= 3 * n + 1 /\ ~ (i <= 1)
            BY <1>1
        <3>2. QED
            BY <1>10, <1>11, <3>1
    <2>2. /\ 3 * k - 1 \in 2 .. 3 * n + 1 /\ (3 * k - 1) - 1 = 3 * k - 2
          /\ 3 * k \in 2 .. 3 * n + 1
          /\ 3 * k + 1 \in 2 .. 3 * n + 1 /\ (3 * k + 1) - 1 = 3 * k
        BY <1>1
    <2>3. QED
        BY <1>7, <2>1, <2>2
<1>14. /\ stream[3 * n + 2] = Event("message_delta", 0, NoBlock)
       /\ stream[3 * n + 3] = Event("message_stop", 0, NoBlock)
    <2>1. /\ 3 * n + 2 \in 1 .. 3 * n + 3 /\ ~ (3 * n + 2 <= 3 * n + 1) /\ (3 * n + 2) - (3 * n + 1) = 1
          /\ 3 * n + 3 \in 1 .. 3 * n + 3 /\ ~ (3 * n + 3 <= 3 * n + 1) /\ (3 * n + 3) - (3 * n + 1) = 2
        BY <1>1
    <2> HIDE DEF n
    <2>2. QED
        BY <1>8, <1>11, <2>1
<1>15. QED
    BY <1>11, <1>12, <1>13, <1>14 DEF stream

-----------------------------------------------------------------------------
(* RewriteClaudeStreamDSML                                                 *)

\* The calls messageJSONToSSE finds in a message, under no id.
UsesOf(blocks) ==
    FlattenSeq([i \in DOMAIN blocks |-> IF blocks[i].type = "tool_use" THEN <<blocks[i]>> ELSE <<>>])

Unnumbered(uses) == [n \in DOMAIN uses |-> [name |-> uses[n].name, input |-> uses[n].input]]

\* The blocks of which RewriteClaudeStreamDSML makes events.
StreamBlocks(blocks, f) ==
    LET text == accumulateStreamMeta(blocks, f)
        message == IF f = "pretty" THEN RewriteClaudeMessageDSML(blocks) ELSE blocks
        parsed == StripAndParseDSML(IF f = "bare" THEN Texts(blocks) ELSE text)
    IN  IF message # blocks THEN Told(Texts(message), Unnumbered(UsesOf(message)))
        ELSE Told(parsed.clean, parsed.calls)

\* The texts of a message, joined, are a text.
LEMMA TextsType ==
    ASSUME NEW blocks \in Seq(AnyBlock)
    PROVE  Texts(blocks) \in AnyText
<1>1. DOMAIN blocks = 1 .. Len(blocks) /\ Len(blocks) \in Nat
    OBVIOUS
<1>2. \A i \in 1 .. Len(blocks) : blocks[i].text \in Seq(AnyToken)
    BY BlockText, ElementOfSeq DEF AnyText
<1>3. [i \in DOMAIN blocks |-> blocks[i].text] \in Seq(Seq(AnyToken))
    BY <1>1, <1>2, IsASeq
<1>4. QED
    BY <1>3, FlattenType DEF Texts, AnyText

\* The calls of a message, in their order, can be told again.
LEMMA UsesType ==
    ASSUME NEW blocks \in Seq(AnyBlock)
    PROVE  /\ [i \in DOMAIN blocks |-> IF blocks[i].type = "tool_use" THEN <<blocks[i]>> ELSE <<>>]
                \in Seq(Seq(Tellable))
           /\ UsesOf(blocks) \in Seq(Tellable)
           /\ \A n \in DOMAIN UsesOf(blocks) : UsesOf(blocks)[n].type = "tool_use"
           /\ Unnumbered(UsesOf(blocks)) \in Seq(AnyCall)
           /\ Len(Unnumbered(UsesOf(blocks))) = Len(UsesOf(blocks))
<1> DEFINE ss == [i \in DOMAIN blocks |-> IF blocks[i].type = "tool_use" THEN <<blocks[i]>> ELSE <<>>]
           uses == UsesOf(blocks)
<1>1. DOMAIN blocks = 1 .. Len(blocks) /\ Len(blocks) \in Nat
    OBVIOUS
<1>2. ASSUME NEW i \in DOMAIN blocks, blocks[i].type = "tool_use"
      PROVE  blocks[i] \in Tellable
    <2>1. blocks[i] \in AnyBlock
        BY <1>1, ElementOfSeq
    <2>2. Thinking.type # "tool_use"
        BY DEF Thinking
    <2>3. QED
        BY <1>2, <2>1, <2>2 DEF AnyBlock
<1>3. ASSUME NEW i \in 1 .. Len(blocks)
      PROVE  (IF blocks[i].type = "tool_use" THEN <<blocks[i]>> ELSE <<>>) \in Seq(Tellable)
    BY <1>1, <1>2, EmptySeq
<1>4. ss \in Seq(Seq(Tellable))
    BY <1>1, <1>3, IsASeq
<1>5. uses = FlattenSeq(ss)
    BY DEF UsesOf
<1>6. uses \in Seq(Tellable)
    BY <1>4, <1>5, FlattenType
<1>7. ASSUME NEW n \in DOMAIN uses PROVE uses[n].type = "tool_use"
    <2>1. \A k \in DOMAIN ss : \A l \in DOMAIN ss[k] : ss[k][l].type = "tool_use"
        <3> SUFFICES ASSUME NEW k \in DOMAIN ss, NEW l \in DOMAIN ss[k] PROVE ss[k][l].type = "tool_use"
            OBVIOUS
        <3>1. CASE blocks[k].type = "tool_use"
            <4>1. ss[k] = <<blocks[k]>>
                BY <3>1
            <4> HIDE DEF ss
            <4>2. l = 1
                BY <4>1
            <4>3. QED
                BY <3>1, <4>1, <4>2
        <3>2. CASE blocks[k].type # "tool_use"
            <4>1. ss[k] = <<>>
                BY <3>2
            <4> HIDE DEF ss
            <4>2. QED
                BY <4>1
        <3>3. QED
            BY <3>1, <3>2
    <2> HIDE DEF ss, uses
    <2>2. \E k \in DOMAIN ss : \E l \in DOMAIN ss[k] : uses[n] = ss[k][l]
        BY <1>4, <1>5, FlattenElements
    <2>3. QED
        BY <2>1, <2>2
<1> HIDE DEF uses
<1>8. ASSUME NEW n \in 1 .. Len(uses) PROVE [name |-> uses[n].name, input |-> uses[n].input] \in AnyCall
    <2>1. uses[n] \in Tellable /\ uses[n].type = "tool_use"
        BY <1>6, <1>7, ElementOfSeq
    <2>2. \A text : TextBlock(text).type # "tool_use"
        BY DEF TextBlock
    <2>3. PICK id \in AnyId, name \in AnyName, input \in SUBSET AnyName : uses[n] = ToolUse(id, name, input)
        BY <2>1, <2>2 DEF Tellable
    <2>4. uses[n].name = name /\ uses[n].input = input
        BY <2>3 DEF ToolUse
    <2>5. QED
        BY <2>4 DEF AnyCall
<1>9. DOMAIN uses = 1 .. Len(uses) /\ Len(uses) \in Nat
    BY <1>6, LenProperties
<1>10. Unnumbered(uses) \in Seq(AnyCall) /\ DOMAIN Unnumbered(uses) = 1 .. Len(uses)
    BY <1>8, <1>9, IsASeq DEF Unnumbered
<1>11. Len(Unnumbered(uses)) = Len(uses)
    BY <1>9, <1>10, LenProperties
<1>12. QED
    BY <1>4, <1>6, <1>7, <1>10, <1>11 DEF uses

\* A call that is told becomes a block.
LEMMA ToldCalls ==
    ASSUME NEW clean \in AnyText, NEW calls \in Seq(AnyCall), calls # <<>>
    PROVE  \E i \in DOMAIN Told(clean, calls) : Told(clean, calls)[i].type = "tool_use"
<1> DEFINE prose == IF clean = <<>> THEN <<>> ELSE <<TextBlock(clean)>>
           uses == ToolUses(calls)
<1>1. prose \in Seq(Tellable)
    BY TextBlockType, EmptySeq
<1>2. 1 \in 1 .. Len(calls)
    BY EmptySeq
<1>3. uses \in Seq(Tellable) /\ Len(uses) = Len(calls)
    BY ToolUsesType
<1>4. uses[1].type = "tool_use"
    <2>1. uses[1] = ToolUse(DsmlId(1), calls[1].name, calls[1].input)
        BY <1>2, ToolUsesType
    <2>2. QED
        BY <2>1 DEF ToolUse
<1> HIDE DEF prose, uses
<1>5. Len(prose) + 1 \in DOMAIN (prose \o uses) /\ (prose \o uses)[Len(prose) + 1] = uses[1]
    <2>1. Len(prose) \in Nat /\ Len(uses) \in Nat /\ 1 <= Len(uses)
        BY <1>1, <1>2, <1>3
    <2>2. Len(prose) + 1 \in 1 .. Len(prose) + Len(uses) /\ ~ (Len(prose) + 1 <= Len(prose))
            /\ (Len(prose) + 1) - Len(prose) = 1
        BY <2>1
    <2>3. /\ prose \o uses \in Seq(Tellable) /\ Len(prose \o uses) = Len(prose) + Len(uses)
          /\ (prose \o uses)[Len(prose) + 1] = uses[1]
        <3>1. /\ prose \o uses \in Seq(Tellable) /\ Len(prose \o uses) = Len(prose) + Len(uses)
              /\ \A i \in 1 .. Len(prose) + Len(uses) :
                    (prose \o uses)[i] = IF i <= Len(prose) THEN prose[i] ELSE uses[i - Len(prose)]
            BY <1>1, <1>3, ConcatProperties
        <3>2. QED
            BY <2>2, <3>1
    <2>4. QED
        BY <2>2, <2>3
<1>6. Told(clean, calls) = prose \o uses
    BY DEF Told, prose, uses
<1>7. QED
    BY <1>4, <1>5, <1>6

\* A message that RewriteClaudeMessageDSML changes has a call in a text.
LEMMA RewrittenHasCalls ==
    ASSUME NEW blocks \in Seq(AnyBlock), RewriteClaudeMessageDSML(blocks) # blocks
    PROVE  \E i \in DOMAIN RewriteClaudeMessageDSML(blocks) :
                RewriteClaudeMessageDSML(blocks)[i].type = "tool_use"
<1>1. PICK k \in DOMAIN blocks : StripAndParseDSML(blocks[k].text).ok
    BY RewriteNothing
<1>2. QED
    BY <1>1, RewriteSomething

\* What is sent instead of the upstream's stream is the stream of some blocks,
\* of which one at least is a call.
LEMMA RewrittenStream ==
    ASSUME NEW blocks \in Seq(AnyBlock), NEW f, NEW c,
           RewriteClaudeStreamDSML(blocks, f, c).kind = "events"
    PROVE  /\ RewriteClaudeStreamDSML(blocks, f, c).events = StreamOf(StreamBlocks(blocks, f))
           /\ StreamBlocks(blocks, f) \in Seq(Tellable)
           /\ \E i \in DOMAIN StreamBlocks(blocks, f) : StreamBlocks(blocks, f)[i].type = "tool_use"
<1> DEFINE text == accumulateStreamMeta(blocks, f)
           message == IF f = "pretty" THEN RewriteClaudeMessageDSML(blocks) ELSE blocks
           source == IF f = "bare" THEN Texts(blocks) ELSE text
           parsed == StripAndParseDSML(source)
           stream == RewriteClaudeStreamDSML(blocks, f, c)
<1>1. /\ WireContainsDSML(blocks, f, c) /\ (message # blocks \/ parsed.ok)
      /\ stream = IF message # blocks THEN Rewritten(messageJSONToSSE(message))
                  ELSE Rewritten(synthesizeToolUseSSE(parsed.clean, parsed.calls))
    <2>1. Raw.kind # "events"
        BY DEF Raw
    <2>2. stream = IF ~WireContainsDSML(blocks, f, c) THEN Raw
                   ELSE IF message # blocks THEN Rewritten(messageJSONToSSE(message))
                   ELSE IF parsed.ok THEN Rewritten(synthesizeToolUseSSE(parsed.clean, parsed.calls))
                   ELSE Raw
        BY DEF RewriteClaudeStreamDSML
    <2>3. stream.kind = "events"
        OBVIOUS
    <2> HIDE DEF stream, message, parsed
    <2>4. QED
        BY <2>1, <2>2, <2>3
<1>2. \A events : Rewritten(events).events = events
    BY DEF Rewritten
<1>3. source \in AnyText
    BY TextsType, EmptySeq DEF accumulateStreamMeta, AnyText
<1>4. CASE message # blocks
    <2>1. f = "pretty" /\ message = RewriteClaudeMessageDSML(blocks)
        BY <1>4
    <2>2. message \in Seq(AnyBlock)
        BY <2>1, RewriteType
    <2>3. PICK k \in DOMAIN message : message[k].type = "tool_use"
        BY <1>4, <2>1, RewrittenHasCalls
    <2> DEFINE calls == Unnumbered(UsesOf(message))
    <2>4. StreamBlocks(blocks, f) = Told(Texts(message), calls)
        BY <1>4 DEF StreamBlocks
    <2>5. stream.events = StreamOf(Told(Texts(message), calls))
        <3>1. messageJSONToSSE(message) = synthesizeToolUseSSE(Texts(message), calls)
            BY DEF messageJSONToSSE, UsesOf, Unnumbered
        <3>2. stream = Rewritten(messageJSONToSSE(message))
            BY <1>1, <1>4
        <3>3. QED
            BY <1>2, <3>1, <3>2, SynthesizedStream
    <2> HIDE DEF message
    <2>6. Texts(message) \in AnyText /\ calls \in Seq(AnyCall) /\ Len(calls) = Len(UsesOf(message))
        BY <2>2, TextsType, UsesType
    <2>7. calls # <<>>
        <3> DEFINE ss == [i \in DOMAIN message |-> IF message[i].type = "tool_use" THEN <<message[i]>> ELSE <<>>]
        <3>1. ss \in Seq(Seq(Tellable)) /\ UsesOf(message) \in Seq(Tellable)
            BY <2>2, UsesType
        <3>2. k \in DOMAIN ss /\ ss[k] = <<message[k]>>
            BY <2>3
        <3>3. 1 \in DOMAIN ss[k]
            BY <3>2
        <3> HIDE DEF ss
        <3>4. DOMAIN FlattenSeq(ss) # {}
            BY <3>1, <3>2, <3>3, FlattenElements
        <3>5. UsesOf(message) = FlattenSeq(ss)
            BY DEF UsesOf, ss
        <3>6. UsesOf(message) # <<>>
            BY <3>4, <3>5
        <3> HIDE DEF calls
        <3>7. Len(UsesOf(message)) # 0
            BY <3>1, <3>6
        <3>8. QED
            BY <2>6, <3>7
    <2> HIDE DEF calls
    <2>8. QED
        BY <2>4, <2>5, <2>6, <2>7, ToldType, ToldCalls
<1>5. CASE message = blocks
    <2>1. parsed.ok /\ parsed.clean \in AnyText /\ parsed.calls \in Seq(AnyCall) /\ parsed.calls # <<>>
        BY <1>1, <1>3, <1>5, StripType
    <2>2. StreamBlocks(blocks, f) = Told(parsed.clean, parsed.calls)
        BY <1>5 DEF StreamBlocks
    <2>3. stream.events = StreamOf(Told(parsed.clean, parsed.calls))
        BY <1>1, <1>2, <1>5, SynthesizedStream
    <2>4. QED
        BY <2>1, <2>2, <2>3, ToldType, ToldCalls
<1>6. QED
    BY <1>4, <1>5

-----------------------------------------------------------------------------
(* What the client of a stream makes of its events                         *)

\* How a block is announced.
Announced(block) == IF block.type = "text" THEN TextBlock(<<>>) ELSE ToolUse(block.id, block.name, {})

Reading(phase, blocks) == [phase |-> phase, blocks |-> blocks, stop |-> ""]

-----------------------------------------------------------------------------
(* Nothing left to rewrite                                                 *)

\* What is joined of parts of at most one element keeps their order.
OrderedUpTo(ss, n) ==
    /\ \A a \in DOMAIN Joined(ss, n) : \E k \in 1 .. n : ss[k] # <<>> /\ Joined(ss, n)[a] = ss[k][1]
    /\ \A a, b \in DOMAIN Joined(ss, n) : a < b =>
            \E k, l \in 1 .. n : /\ k < l /\ ss[k] # <<>> /\ ss[l] # <<>>
                                 /\ Joined(ss, n)[a] = ss[k][1] /\ Joined(ss, n)[b] = ss[l][1]

\* One more part comes after the ones before.
LEMMA OrderedStep ==
    ASSUME NEW S, NEW ss \in Seq(Seq(S)), NEW n \in 1 .. Len(ss), Len(ss[n]) <= 1, OrderedUpTo(ss, n - 1)
    PROVE  OrderedUpTo(ss, n)
<1>0. /\ \A m \in 1 .. Len(ss) : Joined(ss, m) = Joined(ss, m - 1) \o ss[m]
      /\ \A m \in 0 .. Len(ss) : Joined(ss, m) \in Seq(S)
    BY JoinedStep
<1> DEFINE before == Joined(ss, n - 1)
           after == Joined(ss, n)
<1>1. after = before \o ss[n]
    BY <1>0
<1>2. before \in Seq(S) /\ ss[n] \in Seq(S)
    <2>1. n - 1 \in 0 .. Len(ss) /\ n \in DOMAIN ss
        OBVIOUS
    <2>2. QED
        BY <1>0, <2>1
<1>3. /\ \A a \in DOMAIN before : \E k \in 1 .. n - 1 : ss[k] # <<>> /\ before[a] = ss[k][1]
      /\ \A a, b \in DOMAIN before : a < b =>
            \E k, l \in 1 .. n - 1 : /\ k < l /\ ss[k] # <<>> /\ ss[l] # <<>>
                                     /\ before[a] = ss[k][1] /\ before[b] = ss[l][1]
    BY DEF OrderedUpTo
<1>4. n \in Nat /\ n \in 1 .. n /\ \A k \in 1 .. n - 1 : k \in 1 .. n /\ k < n
    OBVIOUS
<1> HIDE DEF before, after
<1>5. CASE ss[n] = <<>>
    <2>1. after = before
        BY <1>1, <1>2, <1>5, ConcatEmptySeq
    <2>2. /\ \A a \in DOMAIN after : \E k \in 1 .. n : ss[k] # <<>> /\ after[a] = ss[k][1]
          /\ \A a, b \in DOMAIN after : a < b =>
                \E k, l \in 1 .. n : /\ k < l /\ ss[k] # <<>> /\ ss[l] # <<>>
                                     /\ after[a] = ss[k][1] /\ after[b] = ss[l][1]
        BY <1>3, <1>4, <2>1
    <2>3. QED
        BY <2>2 DEF OrderedUpTo, after
<1>6. CASE ss[n] # <<>>
    <2>1. Len(ss[n]) = 1
        <3> DEFINE part == ss[n]
        <3>1. part \in Seq(S) /\ part # <<>> /\ Len(part) <= 1
            BY <1>2, <1>6
        <3> HIDE DEF part
        <3>2. Len(part) \in Nat \ {0} /\ \A x \in Nat \ {0} : x <= 1 => x = 1
            BY <3>1, EmptySeq
        <3>3. Len(part) = 1
            BY <3>1, <3>2, Zenon
        <3>4. QED
            BY <3>3 DEF part
    <2>2. /\ Len(after) = Len(before) + 1 /\ Len(before) \in Nat
          /\ DOMAIN after = 1 .. Len(before) + 1 /\ DOMAIN before = 1 .. Len(before)
          /\ \A a \in DOMAIN before : after[a] = before[a]
          /\ after[Len(before) + 1] = ss[n][1]
        <3>1. /\ before \o ss[n] \in Seq(S) /\ Len(before \o ss[n]) = Len(before) + 1
              /\ \A a \in 1 .. Len(before) + 1 :
                    (before \o ss[n])[a] = IF a <= Len(before) THEN before[a] ELSE ss[n][a - Len(before)]
            <4>1. /\ before \o ss[n] \in Seq(S) /\ Len(before \o ss[n]) = Len(before) + Len(ss[n])
                  /\ \A a \in 1 .. Len(before) + Len(ss[n]) :
                        (before \o ss[n])[a] = IF a <= Len(before) THEN before[a] ELSE ss[n][a - Len(before)]
                BY <1>2, ConcatProperties
            <4>2. QED
                BY <2>1, <4>1
        <3>2. Len(before) \in Nat /\ DOMAIN before = 1 .. Len(before)
            BY <1>2
        <3>3. QED
            BY <1>1, <3>1, <3>2
    <2>3. \A a \in DOMAIN after : a \in DOMAIN before \/ a = Len(before) + 1
        BY <2>2
    <2>4. ASSUME NEW a \in DOMAIN after PROVE \E k \in 1 .. n : ss[k] # <<>> /\ after[a] = ss[k][1]
        <3>1. CASE a \in DOMAIN before
            <4>1. PICK k \in 1 .. n - 1 : ss[k] # <<>> /\ before[a] = ss[k][1]
                BY <1>3, <3>1
            <4>2. k \in 1 .. n /\ after[a] = before[a]
                BY <1>4, <2>2, <3>1
            <4>3. QED
                BY <4>1, <4>2
        <3>2. CASE a = Len(before) + 1
            BY <1>4, <1>6, <2>2, <3>2
        <3>3. QED
            BY <2>3, <3>1, <3>2
    <2>5. ASSUME NEW a \in DOMAIN after, NEW b \in DOMAIN after, a < b
          PROVE  \E k, l \in 1 .. n : /\ k < l /\ ss[k] # <<>> /\ ss[l] # <<>>
                                      /\ after[a] = ss[k][1] /\ after[b] = ss[l][1]
        <3>1. a \in DOMAIN before
            BY <2>2, <2>5
        <3>2. CASE b \in DOMAIN before
            <4>1. PICK k \in 1 .. n - 1, l \in 1 .. n - 1 :
                        /\ k < l /\ ss[k] # <<>> /\ ss[l] # <<>>
                        /\ before[a] = ss[k][1] /\ before[b] = ss[l][1]
                BY <1>3, <2>5, <3>1, <3>2
            <4>2. k \in 1 .. n /\ l \in 1 .. n /\ after[a] = before[a] /\ after[b] = before[b]
                BY <1>4, <2>2, <3>1, <3>2
            <4>3. QED
                BY <4>1, <4>2
        <3>3. CASE b = Len(before) + 1
            <4>1. PICK k \in 1 .. n - 1 : ss[k] # <<>> /\ before[a] = ss[k][1]
                BY <1>3, <3>1
            <4>2. QED
                BY <1>4, <1>6, <2>2, <3>1, <3>3, <4>1
        <3>4. QED
            BY <2>3, <3>2, <3>3
    <2>6. QED
        BY <2>4, <2>5 DEF OrderedUpTo, after
<1>7. QED
    BY <1>5, <1>6

\* The order of the elements is that of their parts.
LEMMA FlattenOrdered ==
    ASSUME NEW S, NEW ss \in Seq(Seq(S)), \A k \in DOMAIN ss : Len(ss[k]) <= 1
    PROVE  \A a, b \in DOMAIN FlattenSeq(ss) : a < b =>
                \E k, l \in DOMAIN ss : /\ k < l /\ ss[k] # <<>> /\ ss[l] # <<>>
                                        /\ FlattenSeq(ss)[a] = ss[k][1] /\ FlattenSeq(ss)[b] = ss[l][1]
<1> DEFINE P == {n \in 0 .. Len(ss) : OrderedUpTo(ss, n)}
<1>1. 0 \in P
    <2>1. Joined(ss, 0) = <<>>
        BY JoinedStep
    <2>2. OrderedUpTo(ss, 0)
        BY <2>1 DEF OrderedUpTo
    <2>3. QED
        BY <2>2
<1>2. Len(ss) \in Nat /\ DOMAIN ss = 1 .. Len(ss)
    OBVIOUS
<1>3. \A n \in 1 .. Len(ss) : n - 1 \in P => n \in P
    <2> SUFFICES ASSUME NEW n \in 1 .. Len(ss), n - 1 \in P PROVE n \in P
        OBVIOUS
    <2>1. Len(ss[n]) <= 1 /\ OrderedUpTo(ss, n - 1)
        BY <1>2
    <2>2. OrderedUpTo(ss, n)
        BY <2>1, OrderedStep
    <2>3. QED
        BY <1>2, <2>2
<1>4. 0 .. Len(ss) \subseteq P
    <2> HIDE DEF P
    <2>1. QED
        BY <1>1, <1>2, <1>3, UpTo
<1> DEFINE joined == Joined(ss, Len(ss))
<1>5. FlattenSeq(ss) = joined
    BY JoinedStep
<1>6. OrderedUpTo(ss, Len(ss))
    BY <1>2, <1>4
<1>7. \A a, b \in DOMAIN joined : a < b =>
            \E k, l \in 1 .. Len(ss) : /\ k < l /\ ss[k] # <<>> /\ ss[l] # <<>>
                                        /\ joined[a] = ss[k][1] /\ joined[b] = ss[l][1]
    BY <1>6 DEF OrderedUpTo
<1> HIDE DEF joined
<1>8. ASSUME NEW a \in DOMAIN joined, NEW b \in DOMAIN joined, a < b
      PROVE  \E k, l \in DOMAIN ss : /\ k < l /\ ss[k] # <<>> /\ ss[l] # <<>>
                                      /\ joined[a] = ss[k][1] /\ joined[b] = ss[l][1]
    <2>1. PICK k \in 1 .. Len(ss), l \in 1 .. Len(ss) :
                /\ k < l /\ ss[k] # <<>> /\ ss[l] # <<>>
                /\ joined[a] = ss[k][1] /\ joined[b] = ss[l][1]
        BY <1>7, <1>8
    <2>2. k \in DOMAIN ss /\ l \in DOMAIN ss
        BY <1>2
    <2>3. QED
        BY <2>1, <2>2
<1>9. QED
    BY <1>5, <1>8

\* No opening tag has a closing tag behind it.
NoPair(text, open, close) ==
    \A i, j \in DOMAIN text : i < j /\ text[i].tag = open => text[j].tag # close

\* An opening tag that has a closing tag behind it is in a match: in the one of
\* the first opening tag from which no closing tag comes before it.
LEMMA OpenIsMatched ==
    ASSUME NEW text \in AnyText, NEW open, NEW close, open # close,
           NEW i \in DOMAIN text, NEW j \in DOMAIN text, i < j, text[i].tag = open, text[j].tag = close
    PROVE  \E m \in Matches(text, open, close) : i \in m[1] .. m[2]
<1>1. DOMAIN text = 1 .. Len(text) /\ Len(text) \in Nat
    BY DEF AnyText
<1> DEFINE From == {k \in 1 .. i : text[k].tag = open /\ \A l \in k .. i : text[l].tag # close}
           To == {l \in DOMAIN text : i < l /\ text[l].tag = close}
<1>2. i \in From
    <2>1. i \in 1 .. i /\ \A l \in i .. i : l = i
        BY <1>1
    <2>2. QED
        BY <2>1
<1>3. PICK first \in From : \A k \in From : first <= k
    <2>1. From \subseteq Nat
        BY <1>1
    <2> HIDE DEF From
    <2>2. QED
        BY <1>2, <2>1, LeastNatural
<1>4. PICK last \in To : \A l \in To : last <= l
    <2>1. To \subseteq Nat /\ j \in To
        BY <1>1
    <2> HIDE DEF To
    <2>2. QED
        BY <2>1, LeastNatural
<1>5. /\ first \in 1 .. i /\ first \in DOMAIN text /\ last \in DOMAIN text /\ first < last /\ i < last
      /\ text[first].tag = open /\ text[last].tag = close
    BY <1>1
<1>6. ASSUME NEW k \in first .. last - 1 PROVE text[k].tag # close
    <2>1. CASE k <= i
        <3>1. k \in first .. i
            BY <1>1, <1>5, <2>1
        <3>2. QED
            BY <3>1
    <2>2. CASE ~ (k <= i)
        <3>1. k \in DOMAIN text /\ i < k /\ ~ (last <= k)
            BY <1>1, <1>5, <2>2
        <3>2. QED
            BY <1>4, <3>1
    <2>3. QED
        BY <2>1, <2>2
<1>7. ASSUME NEW k \in 1 .. first - 1, text[k].tag = open PROVE \E l \in k .. first : text[l].tag = close
    <2> SUFFICES ASSUME \A l \in k .. first : text[l].tag # close PROVE FALSE
        OBVIOUS
    <2>1. ASSUME NEW l \in k .. i PROVE text[l].tag # close
        <3>1. l \in k .. first \/ l \in first .. i
            BY <1>1, <1>5
        <3>2. QED
            BY <3>1
    <2>2. k \in 1 .. i /\ ~ (first <= k)
        BY <1>1, <1>5
    <2>3. k \in From
        BY <1>7, <2>1, <2>2
    <2>4. QED
        BY <1>3, <2>2, <2>3
<1>8. <<first, last>> \in Matches(text, open, close)
    <2>1. <<first, last>> \in (DOMAIN text) \X (DOMAIN text)
        BY <1>5
    <2>2. <<first, last>>[1] = first /\ <<first, last>>[2] = last
        OBVIOUS
    <2>3. QED
        BY <1>5, <1>6, <1>7, <2>1, <2>2 DEF Matches
<1>9. i \in first .. last
    BY <1>1, <1>5
<1>10. QED
    BY <1>8, <1>9

\* What stays of a text is in the order of the text, and was in no match.
LEMMA WithoutOrder ==
    ASSUME NEW text \in AnyText, NEW open, NEW close
    PROVE  \A a, b \in DOMAIN Without(text, open, close) : a < b =>
                \E i, j \in DOMAIN text :
                    /\ i < j
                    /\ Without(text, open, close)[a] = text[i] /\ Without(text, open, close)[b] = text[j]
                    /\ \A m \in Matches(text, open, close) : i \notin m[1] .. m[2]
<1> DEFINE matched == UNION {m[1] .. m[2] : m \in Matches(text, open, close)}
           one(i) == IF i \in matched THEN <<>> ELSE <<text[i]>>
           ss == [i \in DOMAIN text |-> one(i)]
<1>1. Without(text, open, close) = FlattenSeq(ss)
    BY DEF Without
<1>2. \A i : (\E m \in Matches(text, open, close) : i \in m[1] .. m[2]) => i \in matched
    OBVIOUS
<1> HIDE DEF matched
<1>3. \A i \in DOMAIN text : /\ one(i) \in Seq(AnyToken) /\ Len(one(i)) <= 1
                             /\ one(i) # <<>> => one(i) = <<text[i]>> /\ i \notin matched
    BY DEF AnyText
<1>4. DOMAIN ss = DOMAIN text /\ \A i \in DOMAIN text : ss[i] = one(i)
    OBVIOUS
<1> HIDE DEF one
<1>5. ss \in Seq(Seq(AnyToken))
    <2>1. DOMAIN text = 1 .. Len(text) /\ Len(text) \in Nat
        BY DEF AnyText
    <2>2. QED
        BY <1>3, <2>1, IsASeq
<1> HIDE DEF ss
<1>6. \A a, b \in DOMAIN FlattenSeq(ss) : a < b =>
            \E k, l \in DOMAIN ss : /\ k < l /\ ss[k] # <<>> /\ ss[l] # <<>>
                                    /\ FlattenSeq(ss)[a] = ss[k][1] /\ FlattenSeq(ss)[b] = ss[l][1]
    BY <1>3, <1>4, <1>5, FlattenOrdered
<1>7. \A i \in DOMAIN text : ss[i] # <<>> => ss[i][1] = text[i] /\ i \notin matched
    BY <1>3, <1>4
<1>8. QED
    BY <1>1, <1>2, <1>4, <1>6, <1>7

\* Removing the matches of a kind leaves none of the kind: what could begin a
\* match is in one already.
LEMMA WithoutLeavesNoPair ==
    ASSUME NEW text \in AnyText, NEW open, NEW close, open # close
    PROVE  NoPair(Without(text, open, close), open, close)
<1> DEFINE rest == Without(text, open, close)
<1> SUFFICES ASSUME NEW a \in DOMAIN rest, NEW b \in DOMAIN rest, a < b, rest[a].tag = open,
                    rest[b].tag = close
             PROVE  FALSE
    BY DEF NoPair
<1>1. PICK i \in DOMAIN text, j \in DOMAIN text :
        /\ i < j /\ rest[a] = text[i] /\ rest[b] = text[j]
        /\ \A m \in Matches(text, open, close) : i \notin m[1] .. m[2]
    BY WithoutOrder
<1> HIDE DEF rest
<1>2. \E m \in Matches(text, open, close) : i \in m[1] .. m[2]
    BY <1>1, OpenIsMatched
<1>3. QED
    BY <1>1, <1>2

\* Nor does removing anything compose a match.
LEMMA WithoutKeepsNoPair ==
    ASSUME NEW text \in AnyText, NEW open, NEW close, NoPair(text, open, close),
           NEW from, NEW to
    PROVE  NoPair(Without(text, from, to), open, close)
<1> DEFINE rest == Without(text, from, to)
<1> SUFFICES ASSUME NEW a \in DOMAIN rest, NEW b \in DOMAIN rest, a < b, rest[a].tag = open,
                    rest[b].tag = close
             PROVE  FALSE
    BY DEF NoPair
<1>1. PICK i \in DOMAIN text, j \in DOMAIN text :
        i < j /\ rest[a] = text[i] /\ rest[b] = text[j]
    BY WithoutOrder
<1> HIDE DEF rest
<1>2. QED
    BY <1>1 DEF NoPair

\* Without a pair of tags there is no match, and nothing to parse.
LEMMA NothingParsed ==
    ASSUME NEW text \in AnyText
    PROVE  /\ NoPair(text, "invokeOpen", "invokeClose") => parseInvokes(text) = <<>>
           /\ NoPair(text, "regionOpen", "regionClose") => parseDSMLRegions(text) = <<>>
<1>1. ASSUME NEW open, NEW close, NoPair(text, open, close), NEW i
      PROVE  {m[2] : m \in {n \in Matches(text, open, close) : n[1] = i}} = {}
    BY <1>1 DEF NoPair, Matches
<1> DEFINE ss == [i \in DOMAIN text |-> <<>>]
<1>2. FlattenSeq(ss) = <<>>
    <2>1. DOMAIN text = 1 .. Len(text) /\ Len(text) \in Nat
        BY DEF AnyText
    <2>2. \A i \in 1 .. Len(text) : <<>> \in Seq(AnyCall)
        BY EmptySeq
    <2>3. ss \in Seq(Seq(AnyCall))
        BY <2>1, <2>2, IsASeq
    <2>4. \A k \in DOMAIN ss : ss[k] = <<>>
        OBVIOUS
    <2> HIDE DEF ss
    <2>5. QED
        BY <2>3, <2>4, FlattenEmpties
<1>3. ASSUME NoPair(text, "invokeOpen", "invokeClose") PROVE parseInvokes(text) = <<>>
    <2>1. \A i : {m[2] : m \in {n \in Matches(text, "invokeOpen", "invokeClose") : n[1] = i}} = {}
        BY <1>1, <1>3, ZenonT(60)
    <2>2. parseInvokes(text) = FlattenSeq(ss)
        BY <2>1 DEF parseInvokes, JoinMatches
    <2>3. QED
        BY <1>2, <2>2
<1>4. ASSUME NoPair(text, "regionOpen", "regionClose") PROVE parseDSMLRegions(text) = <<>>
    <2>1. \A i : {m[2] : m \in {n \in Matches(text, "regionOpen", "regionClose") : n[1] = i}} = {}
        BY <1>1, <1>4, ZenonT(60)
    <2>2. parseDSMLRegions(text) = FlattenSeq(ss)
        BY <2>1 DEF parseDSMLRegions, JoinMatches
    <2>3. QED
        BY <1>2, <2>2
<1>5. QED
    BY <1>3, <1>4

\* A text that was stripped has nothing left to strip, however its tags were
\* nested, doubled or left open (StripAndParseDSML).
THEOREM StripsCompletely ==
    ASSUME NEW text \in AnyText
    PROVE  ~StripAndParseDSML(StripAndParseDSML(text).clean).ok
<1> DEFINE parsed == StripAndParseDSML(text)
<1>1. CASE ~parsed.ok
    <2>1. parsed.clean = text
        BY <1>1, StripType
    <2>2. QED
        BY <1>1, <2>1
<1>2. CASE parsed.ok
    <2> DEFINE outside == Without(text, "regionOpen", "regionClose")
               rest == Without(outside, "invokeOpen", "invokeClose")
    <2>1. parsed.clean = rest
        BY <1>2 DEF StripAndParseDSML
    <2>2. outside \in AnyText /\ rest \in AnyText
        BY WithoutType
    <2>3. NoPair(outside, "regionOpen", "regionClose")
        BY WithoutLeavesNoPair
    <2> HIDE DEF outside
    <2>4. NoPair(rest, "regionOpen", "regionClose")
        BY <2>2, <2>3, WithoutKeepsNoPair
    <2>5. NoPair(rest, "invokeOpen", "invokeClose")
        BY <2>2, WithoutLeavesNoPair
    <2> HIDE DEF rest
    <2>6. parseDSMLRegions(rest) = <<>> /\ parseInvokes(rest) = <<>>
        BY <2>2, <2>4, <2>5, NothingParsed
    <2>7. ~StripAndParseDSML(rest).ok
        BY <2>6 DEF StripAndParseDSML
    <2> HIDE DEF parsed
    <2>8. QED
        BY <2>1, <2>7 DEF parsed
<1>3. QED
    BY <1>1, <1>2

\* An empty text has nothing to strip.
LEMMA EmptyIsClean == ~StripAndParseDSML(<<>>).ok
<1>1. <<>> \in AnyText
    BY EmptySeq DEF AnyText
<1>2. DOMAIN <<>> = {}
    OBVIOUS
<1>3. NoPair(<<>>, "regionOpen", "regionClose") /\ NoPair(<<>>, "invokeOpen", "invokeClose")
    BY <1>2 DEF NoPair
<1>4. parseDSMLRegions(<<>>) = <<>> /\ parseInvokes(<<>>) = <<>>
    BY <1>1, <1>3, NothingParsed
<1>5. QED
    BY <1>4 DEF StripAndParseDSML

\* No block of what is told has anything to strip, when its text had not.
LEMMA ToldIsClean ==
    ASSUME NEW clean \in AnyText, NEW calls \in Seq(AnyCall), ~StripAndParseDSML(clean).ok
    PROVE  \A i \in DOMAIN Told(clean, calls) : ~StripAndParseDSML(Told(clean, calls)[i].text).ok
<1> DEFINE prose == IF clean = <<>> THEN <<>> ELSE <<TextBlock(clean)>>
           uses == ToolUses(calls)
<1>1. prose \in Seq(Tellable) /\ \A i \in 1 .. Len(prose) : prose[i].text = clean
    <2>1. TextBlock(clean) \in Tellable /\ TextBlock(clean).text = clean
        BY TextBlockType DEF TextBlock
    <2>2. CASE clean = <<>>
        BY <2>2, EmptySeq
    <2>3. CASE clean # <<>>
        <3>1. prose = <<TextBlock(clean)>>
            BY <2>3
        <3> HIDE DEF prose
        <3>2. QED
            BY <2>1, <3>1
    <2>4. QED
        BY <2>2, <2>3
<1>2. uses \in Seq(Tellable) /\ \A i \in 1 .. Len(uses) : uses[i].text = <<>>
    <2>1. \A id, name, input : ToolUse(id, name, input).text = <<>>
        BY DEF ToolUse
    <2>2. /\ uses \in Seq(Tellable) /\ Len(uses) = Len(calls)
          /\ \A i \in 1 .. Len(calls) : uses[i] = ToolUse(DsmlId(i), calls[i].name, calls[i].input)
        BY ToolUsesType
    <2> HIDE DEF uses
    <2>3. QED
        BY <2>1, <2>2
<1>3. Told(clean, calls) = prose \o uses
    BY DEF Told
<1> HIDE DEF prose, uses
<1> SUFFICES ASSUME NEW i \in DOMAIN (prose \o uses)
             PROVE  ~StripAndParseDSML((prose \o uses)[i].text).ok
    BY <1>3
<1>4. /\ DOMAIN (prose \o uses) = 1 .. Len(prose) + Len(uses)
      /\ (prose \o uses)[i] = IF i <= Len(prose) THEN prose[i] ELSE uses[i - Len(prose)]
      /\ Len(prose) \in Nat /\ Len(uses) \in Nat
    BY <1>1, <1>2, ConcatProperties, LenProperties
<1>5. CASE i <= Len(prose)
    <2>1. i \in 1 .. Len(prose)
        BY <1>4, <1>5
    <2>2. (prose \o uses)[i].text = clean
        BY <1>1, <1>4, <1>5, <2>1
    <2>3. QED
        BY <2>2
<1>6. CASE ~ (i <= Len(prose))
    <2>1. i - Len(prose) \in 1 .. Len(uses)
        BY <1>4, <1>6
    <2>2. (prose \o uses)[i].text = <<>>
        BY <1>2, <1>4, <1>6, <2>1
    <2>3. QED
        BY <2>2, EmptyIsClean
<1>7. QED
    BY <1>5, <1>6

-----------------------------------------------------------------------------
(* A message and a stream                                                  *)

\* Joining one part gives that part, and so when the parts after it are empty.
LEMMA FlattenFirst ==
    ASSUME NEW S, NEW ss \in Seq(Seq(S)), ss # <<>>, \A k \in 2 .. Len(ss) : ss[k] = <<>>
    PROVE  FlattenSeq(ss) = ss[1]
<1> DEFINE P == {n \in 0 .. Len(ss) : n # 0 => Joined(ss, n) = ss[1]}
<1>1. Len(ss) \in Nat \ {0} /\ DOMAIN ss = 1 .. Len(ss)
    BY EmptySeq
<1>2. /\ FlattenSeq(ss) = Joined(ss, Len(ss)) /\ Joined(ss, 0) = <<>>
      /\ \A n \in 1 .. Len(ss) : Joined(ss, n) = Joined(ss, n - 1) \o ss[n]
    BY JoinedStep
<1>3. ss[1] \in Seq(S)
    BY <1>1
<1>4. 0 \in P
    BY <1>1
<1>5. ASSUME NEW n \in 1 .. Len(ss), n - 1 \in P PROVE n \in P
    <2>1. Joined(ss, n) = Joined(ss, n - 1) \o ss[n]
        BY <1>2
    <2>2. CASE n = 1
        <3>1. Joined(ss, 1) = <<>> \o ss[1]
            <4>1. n - 1 = 0
                BY <2>2
            <4>2. QED
                BY <1>2, <2>1, <2>2, <4>1
        <3>2. Joined(ss, 1) = ss[1]
            BY <1>3, <3>1, ConcatEmptySeq
        <3>3. QED
            BY <2>2, <3>2
    <2>3. CASE n # 1
        <3>1. n \in 2 .. Len(ss) /\ n - 1 # 0
            BY <2>3
        <3>2. Joined(ss, n - 1) = ss[1] /\ ss[n] = <<>>
            BY <1>5, <3>1
        <3>3. Joined(ss, n) = ss[1]
            BY <1>3, <2>1, <3>2, ConcatEmptySeq
        <3>4. QED
            BY <3>3
    <2>4. QED
        BY <2>2, <2>3
<1>6. 0 .. Len(ss) \subseteq P
    <2> HIDE DEF P
    <2>1. QED
        BY <1>1, <1>4, <1>5, UpTo
<1>7. Len(ss) \in P /\ Len(ss) # 0
    BY <1>1, <1>6
<1>8. QED
    BY <1>2, <1>7

\* An empty part at the front may be left out.
LEMMA FlattenRest ==
    ASSUME NEW S, NEW ss \in Seq(Seq(S)), ss # <<>>, ss[1] = <<>>
    PROVE  FlattenSeq(ss) = FlattenSeq(Tail(ss))
<1> DEFINE tt == Tail(ss)
           P == {n \in 0 .. Len(tt) : Joined(ss, n + 1) = Joined(tt, n)}
<1>1. /\ tt \in Seq(Seq(S)) /\ Len(tt) = Len(ss) - 1 /\ Len(tt) \in Nat /\ Len(ss) \in Nat \ {0}
      /\ \A n \in 1 .. Len(tt) : tt[n] = ss[n + 1]
    BY EmptySeq
<1> HIDE DEF tt
<1>2. /\ FlattenSeq(ss) = Joined(ss, Len(ss)) /\ Joined(ss, 0) = <<>>
      /\ \A n \in 1 .. Len(ss) : Joined(ss, n) = Joined(ss, n - 1) \o ss[n]
    BY JoinedStep
<1>3. /\ FlattenSeq(tt) = Joined(tt, Len(tt)) /\ Joined(tt, 0) = <<>>
      /\ \A n \in 1 .. Len(tt) : Joined(tt, n) = Joined(tt, n - 1) \o tt[n]
    BY <1>1, JoinedStep
<1>4. 0 \in P
    <2>1. 1 \in 1 .. Len(ss) /\ 1 - 1 = 0 /\ 0 + 1 = 1
        BY <1>1
    <2>2. Joined(ss, 0 + 1) = <<>> \o <<>>
        <3>1. Joined(ss, 1) = Joined(ss, 1 - 1) \o ss[1]
            BY <1>2, <2>1
        <3>2. QED
            BY <1>2, <2>1, <3>1
    <2>3. <<>> \o <<>> = <<>>
        BY EmptySeq, ConcatEmptySeq
    <2>4. QED
        BY <1>1, <1>3, <2>2, <2>3
<1>5. ASSUME NEW n \in 1 .. Len(tt), n - 1 \in P PROVE n \in P
    <2>1. Joined(ss, n) = Joined(tt, n - 1) /\ n + 1 \in 1 .. Len(ss) /\ (n - 1) + 1 = n /\ (n + 1) - 1 = n
        BY <1>1, <1>5
    <2>2. Joined(ss, n + 1) = Joined(ss, n) \o ss[n + 1]
        BY <1>2, <2>1
    <2>3. Joined(ss, n + 1) = Joined(tt, n)
        BY <1>1, <1>3, <2>1, <2>2
    <2>4. QED
        BY <1>1, <2>3
<1>6. 0 .. Len(tt) \subseteq P
    <2> HIDE DEF P
    <2>1. QED
        BY <1>1, <1>4, <1>5, UpTo
<1>7. Joined(ss, Len(tt) + 1) = Joined(tt, Len(tt)) /\ Len(tt) + 1 = Len(ss)
    <2>1. Len(tt) \in 0 .. Len(tt) /\ Len(tt) + 1 = Len(ss)
        BY <1>1
    <2>2. Len(tt) \in P
        BY <1>6, <2>1
    <2>3. QED
        BY <2>1, <2>2
<1>8. FlattenSeq(ss) = FlattenSeq(tt)
    BY <1>2, <1>3, <1>7
<1>9. QED
    BY <1>8 DEF tt

\* The calls of the blocks made of calls are those calls.
LEMMA UsesOfToolUses ==
    ASSUME NEW calls \in Seq(AnyCall)
    PROVE  /\ UsesOf(ToolUses(calls)) = ToolUses(calls)
           /\ Texts(ToolUses(calls)) = <<>>
           /\ Unnumbered(ToolUses(calls)) = calls
<1> DEFINE uses == ToolUses(calls)
           ss == [i \in DOMAIN uses |-> IF uses[i].type = "tool_use" THEN <<uses[i]>> ELSE <<>>]
           tt == [i \in DOMAIN uses |-> uses[i].text]
<1>1. /\ uses \in Seq(Tellable) /\ Len(uses) = Len(calls) /\ Len(calls) \in Nat
      /\ DOMAIN uses = 1 .. Len(calls) /\ DOMAIN calls = 1 .. Len(calls)
      /\ \A i \in 1 .. Len(calls) : uses[i] = ToolUse(DsmlId(i), calls[i].name, calls[i].input)
    BY ToolUsesType, LenProperties
<1> HIDE DEF uses
<1>2. \A i \in 1 .. Len(calls) : /\ uses[i].type = "tool_use" /\ uses[i].text = <<>>
                                 /\ uses[i].name = calls[i].name /\ uses[i].input = calls[i].input
    <2>1. \A id, name, input : /\ ToolUse(id, name, input).type = "tool_use"
                               /\ ToolUse(id, name, input).text = <<>>
                               /\ ToolUse(id, name, input).name = name
                               /\ ToolUse(id, name, input).input = input
        BY DEF ToolUse
    <2>2. QED
        BY <1>1, <2>1
<1>3. UsesOf(uses) = uses
    <2>1. \A i \in 1 .. Len(calls) : ss[i] = <<uses[i]>>
        BY <1>1, <1>2
    <2>2. \A i \in 1 .. Len(calls) : uses[i] \in Tellable
        BY <1>1, ElementOfSeq
    <2>3. ss = [i \in 1 .. Len(calls) |-> <<uses[i]>>]
        BY <1>1, <1>2
    <2> HIDE DEF ss
    <2>4. \A i \in 1 .. Len(calls) : <<uses[i]>> \in Seq(Tellable)
        BY <2>2
    <2>5. ss \in Seq(Seq(Tellable))
        BY <1>1, <2>3, <2>4, IsASeq
    <2>6. Len(ss) = Len(uses)
        BY <1>1, <2>3, <2>5
    <2>7. FlattenSeq(ss) = uses
        BY <1>1, <2>1, <2>5, <2>6, FlattenSingles
    <2>8. QED
        BY <2>7 DEF UsesOf, ss
<1>4. Texts(uses) = <<>>
    <2>1. tt = [i \in 1 .. Len(calls) |-> <<>>]
        BY <1>1, <1>2
    <2> HIDE DEF tt
    <2>2. \A i \in 1 .. Len(calls) : <<>> \in Seq(AnyToken)
        BY EmptySeq
    <2>3. tt \in Seq(Seq(AnyToken))
        BY <1>1, <2>1, <2>2, IsASeq
    <2>4. \A k \in DOMAIN tt : tt[k] = <<>>
        BY <2>1
    <2>5. FlattenSeq(tt) = <<>>
        BY <2>3, <2>4, FlattenEmpties
    <2>6. QED
        BY <2>5 DEF Texts, tt
<1>5. Unnumbered(uses) = calls
    <2>1. \A i \in 1 .. Len(calls) : [name |-> uses[i].name, input |-> uses[i].input] = calls[i]
        <3>1. \A i \in 1 .. Len(calls) : calls[i] \in AnyCall
            BY ElementOfSeq
        <3>2. \A call \in AnyCall : call = [name |-> call.name, input |-> call.input]
            BY DEF AnyCall
        <3>3. QED
            BY <1>2, <3>1, <3>2
    <2>2. Unnumbered(uses) = [i \in 1 .. Len(calls) |-> calls[i]]
        BY <1>1, <2>1 DEF Unnumbered
    <2>3. calls = [i \in 1 .. Len(calls) |-> calls[i]]
        BY <1>1
    <2>4. QED
        BY <2>2, <2>3
<1>6. QED
    BY <1>3, <1>4, <1>5 DEF uses

\* A message that is told, and told again from its text and calls, is the same:
\* what messageJSONToSSE makes of what RewriteClaudeMessageDSML made.
LEMMA ToldAgain ==
    ASSUME NEW clean \in AnyText, NEW calls \in Seq(AnyCall)
    PROVE  LET message == Told(clean, calls)
           IN  Told(Texts(message), Unnumbered(UsesOf(message))) = message
<1> DEFINE uses == ToolUses(calls)
           message == Told(clean, calls)
<1>1. uses \in Seq(Tellable)
    BY ToolUsesType
<1>2. UsesOf(uses) = uses /\ Texts(uses) = <<>> /\ Unnumbered(uses) = calls
    BY UsesOfToolUses
<1>3. CASE clean = <<>>
    <2>1. message = <<>> \o uses
        BY <1>3 DEF Told
    <2> HIDE DEF uses, message
    <2>2. message = uses
        BY <1>1, <2>1, ConcatEmptySeq
    <2>3. Told(Texts(message), Unnumbered(UsesOf(message))) = Told(<<>>, calls)
        BY <1>2, <2>2
    <2>4. QED
        BY <1>3, <2>3 DEF message
<1>4. CASE clean # <<>>
    <2> DEFINE prose == TextBlock(clean)
    <2>1. prose \in Tellable /\ prose.text = clean /\ prose.type # "tool_use"
        <3>1. prose \in Tellable
            BY DEF Tellable
        <3>2. prose.text = clean /\ prose.type # "tool_use"
            BY DEF TextBlock
        <3>3. QED
            BY <3>1, <3>2
    <2>2. message = <<prose>> \o uses
        BY <1>4 DEF Told
    <2> HIDE DEF uses, message, prose
    <2>3. /\ message \in Seq(Tellable) /\ message # <<>> /\ message[1] = prose /\ Tail(message) = uses
          /\ DOMAIN message = 1 .. Len(uses) + 1 /\ DOMAIN uses = 1 .. Len(uses) /\ Len(uses) \in Nat
          /\ \A i \in 1 .. Len(uses) : message[i + 1] = uses[i]
          /\ Len(message) = Len(uses) + 1
        <3>1. <<prose>> \in Seq(Tellable) /\ Len(<<prose>>) = 1 /\ <<prose>>[1] = prose
            BY <2>1
        <3>2. /\ message \in Seq(Tellable) /\ Len(message) = 1 + Len(uses) /\ Len(uses) \in Nat
              /\ \A i \in 1 .. 1 + Len(uses) : message[i] = IF i <= 1 THEN prose ELSE uses[i - 1]
            <4>1. /\ <<prose>> \o uses \in Seq(Tellable)
                  /\ Len(<<prose>> \o uses) = Len(<<prose>>) + Len(uses)
                  /\ \A i \in 1 .. Len(<<prose>>) + Len(uses) :
                        (<<prose>> \o uses)[i] = IF i <= Len(<<prose>>) THEN <<prose>>[i]
                                                 ELSE uses[i - Len(<<prose>>)]
                BY <1>1, <3>1, ConcatProperties
            <4>2. \A i \in 1 .. 1 + Len(uses) : i <= 1 => i = 1
                OBVIOUS
            <4>3. Len(uses) \in Nat
                BY <1>1
            <4>4. QED
                BY <2>2, <3>1, <4>1, <4>2, <4>3
        <3>3. message[1] = prose /\ message # <<>>
            BY <3>2, EmptySeq
        <3>4. \A i \in 1 .. Len(uses) : message[i + 1] = uses[i]
            <4> SUFFICES ASSUME NEW i \in 1 .. Len(uses) PROVE message[i + 1] = uses[i]
                OBVIOUS
            <4>1. i + 1 \in 1 .. 1 + Len(uses) /\ ~ (i + 1 <= 1) /\ (i + 1) - 1 = i
                BY <3>2
            <4>2. QED
                BY <3>2, <4>1
        <3>5. Tail(message) = uses
            <4>1. /\ Tail(message) \in Seq(Tellable) /\ Len(Tail(message)) = Len(uses)
                  /\ \A i \in 1 .. Len(uses) : Tail(message)[i] = message[i + 1]
                BY <3>2, <3>3
            <4>2. QED
                BY <1>1, <3>4, <4>1, SeqEqual
        <3>6. DOMAIN message = 1 .. Len(uses) + 1 /\ DOMAIN uses = 1 .. Len(uses)
            BY <1>1, <3>2, LenProperties
        <3>7. QED
            BY <3>2, <3>3, <3>4, <3>5, <3>6
    <2>4. Texts(message) = clean
        <3> DEFINE ss == [i \in DOMAIN message |-> message[i].text]
        <3>1. \A i \in 1 .. Len(uses) + 1 : message[i].text \in Seq(AnyToken)
            <4>1. \A i \in 1 .. Len(uses) + 1 : message[i] \in AnyBlock
                BY <2>3, ElementOfSeq DEF AnyBlock
            <4>2. QED
                BY <4>1, BlockText DEF AnyText
        <3>2. ss \in Seq(Seq(AnyToken)) /\ Len(ss) = Len(uses) + 1
            <4>1. ss = [i \in 1 .. Len(uses) + 1 |-> message[i].text] /\ Len(uses) + 1 \in Nat
                BY <2>3
            <4>2. ss \in Seq(Seq(AnyToken))
                BY <3>1, <4>1, IsASeq
            <4>3. DOMAIN ss = 1 .. Len(uses) + 1
                BY <4>1
            <4>4. QED
                BY <4>1, <4>2, <4>3, LenProperties
        <3>3. ASSUME NEW k \in 2 .. Len(uses) + 1 PROVE ss[k] = <<>>
            <4>1. k \in DOMAIN message /\ k - 1 \in 1 .. Len(uses) /\ (k - 1) + 1 = k
                BY <2>3
            <4>2. message[k] = uses[k - 1]
                BY <2>3, <4>1
            <4>3. uses[k - 1].text = <<>>
                <5>1. /\ Len(uses) = Len(calls)
                      /\ \A i \in 1 .. Len(calls) : uses[i] = ToolUse(DsmlId(i), calls[i].name, calls[i].input)
                    BY ToolUsesType DEF uses
                <5>2. \A id, name, input : ToolUse(id, name, input).text = <<>>
                    BY DEF ToolUse
                <5>3. QED
                    BY <4>1, <5>1, <5>2
            <4>4. QED
                BY <4>1, <4>2, <4>3
        <3>4. ss[1] = clean
            BY <2>1, <2>3
        <3> HIDE DEF ss
        <3>5. ss # <<>>
            BY <2>3, <3>2
        <3>6. FlattenSeq(ss) = clean
            BY <3>2, <3>3, <3>4, <3>5, FlattenFirst
        <3>7. QED
            BY <3>6 DEF Texts, ss
    <2>5. UsesOf(message) = uses
        <3> DEFINE ss == [i \in DOMAIN message |-> IF message[i].type = "tool_use" THEN <<message[i]>> ELSE <<>>]
                   tt == [i \in DOMAIN uses |-> IF uses[i].type = "tool_use" THEN <<uses[i]>> ELSE <<>>]
        <3>1. Tellable \subseteq AnyBlock
            BY DEF AnyBlock
        <3>2. message \in Seq(AnyBlock) /\ uses \in Seq(AnyBlock)
            BY <1>1, <2>3, <3>1, SeqMonotonic
        <3>3. ss \in Seq(Seq(Tellable)) /\ tt \in Seq(Seq(Tellable))
            BY <3>2, UsesType
        <3>4. ss[1] = <<>>
            BY <2>1, <2>3
        <3>5. DOMAIN ss = 1 .. Len(uses) + 1 /\ DOMAIN tt = 1 .. Len(uses)
            BY <2>3
        <3>6. \A i \in 1 .. Len(uses) : ss[i + 1] = tt[i]
            <4> SUFFICES ASSUME NEW i \in 1 .. Len(uses) PROVE ss[i + 1] = tt[i]
                OBVIOUS
            <4>1. i + 1 \in 1 .. Len(uses) + 1 /\ message[i + 1] = uses[i]
                BY <2>3
            <4>2. QED
                BY <2>3, <4>1
        <3> HIDE DEF ss, tt
        <3>7. Len(ss) = Len(uses) + 1 /\ Len(tt) = Len(uses) /\ ss # <<>>
            BY <2>3, <3>3, <3>5, LenProperties
        <3>8. Tail(ss) = tt
            <4>1. /\ Tail(ss) \in Seq(Seq(Tellable)) /\ Len(Tail(ss)) = Len(uses)
                  /\ \A i \in 1 .. Len(uses) : Tail(ss)[i] = ss[i + 1]
                BY <2>3, <3>3, <3>7
            <4>2. QED
                BY <3>3, <3>6, <3>7, <4>1, SeqEqual
        <3>9. FlattenSeq(ss) = FlattenSeq(tt)
            BY <3>3, <3>4, <3>7, <3>8, FlattenRest
        <3>10. UsesOf(message) = FlattenSeq(ss) /\ UsesOf(uses) = FlattenSeq(tt)
            BY DEF UsesOf, ss, tt
        <3>11. QED
            BY <1>2, <3>9, <3>10
    <2>6. Told(Texts(message), Unnumbered(UsesOf(message))) = Told(clean, calls)
        BY <1>2, <2>4, <2>5
    <2>7. QED
        BY <2>6 DEF message
<1>5. QED
    BY <1>3, <1>4

\* A sequence with one place has one element.
LEMMA OnePlace ==
    ASSUME NEW S, NEW s \in Seq(S), DOMAIN s = 1 .. 1
    PROVE  Len(s) = 1 /\ s # <<>>
<1>1. Len(s) \in Nat /\ 1 .. Len(s) = 1 .. 1
    BY LenProperties
<1>2. 1 \in 1 .. Len(s) /\ 2 \notin 1 .. Len(s)
    BY <1>1
<1>3. Len(s) = 1
    BY <1>1, <1>2
<1>4. QED
    BY <1>3

\* A message of one text: its calls come behind what stays of the text.
LEMMA OneText ==
    ASSUME NEW blocks \in Seq(AnyBlock), Len(blocks) = 1, blocks[1].type = "text"
    PROVE  LET parsed == StripAndParseDSML(blocks[1].text)
           IN  /\ blocks[1].text \in AnyText /\ Texts(blocks) = blocks[1].text
               /\ parsed.ok => /\ RewriteClaudeMessageDSML(blocks) = Told(parsed.clean, parsed.calls)
                               /\ RewriteClaudeMessageDSML(blocks) # blocks
               /\ ~parsed.ok => RewriteClaudeMessageDSML(blocks) = blocks
<1> DEFINE text == blocks[1].text
           parsed == StripAndParseDSML(text)
           kept == [i \in DOMAIN blocks |-> Kept(blocks[i])]
           calls == [i \in DOMAIN blocks |-> StripAndParseDSML(blocks[i].text).calls]
           texts == [i \in DOMAIN blocks |-> blocks[i].text]
<1>1. DOMAIN blocks = 1 .. 1 /\ 1 \in DOMAIN blocks /\ \A i \in DOMAIN blocks : i = 1
    OBVIOUS
<1>2. text \in AnyText
    BY <1>1, ElementOfSeq, BlockText
<1>3. Texts(blocks) = text
    <2>1. \A i \in 1 .. 1 : blocks[i].text \in Seq(AnyToken)
        BY <1>1, <1>2 DEF AnyText
    <2>2. texts \in Seq(Seq(AnyToken))
        BY <1>1, <2>1, IsASeq
    <2>3. texts[1] = text /\ DOMAIN texts = 1 .. 1
        BY <1>1
    <2> HIDE DEF texts
    <2>4. Len(texts) = 1 /\ texts # <<>>
        BY <2>2, <2>3, OnePlace
    <2>5. FlattenSeq(texts) = texts[1]
        BY <2>2, <2>4, FlattenFirst
    <2>6. QED
        BY <2>3, <2>5 DEF Texts, texts
<1>4. AllKept(blocks) = Kept(blocks[1])
    <2>1. kept \in Seq(Seq(AnyBlock))
        BY PartsType
    <2>2. kept[1] = Kept(blocks[1]) /\ DOMAIN kept = 1 .. 1
        BY <1>1
    <2> HIDE DEF kept
    <2>3. Len(kept) = 1 /\ kept # <<>>
        BY <2>1, <2>2, OnePlace
    <2>4. FlattenSeq(kept) = kept[1]
        BY <2>1, <2>3, FlattenFirst
    <2>5. QED
        BY <2>2, <2>4 DEF AllKept, kept
<1>5. AllCalls(blocks) = parsed.calls
    <2>1. calls \in Seq(Seq(AnyCall))
        BY PartsType
    <2>2. calls[1] = parsed.calls /\ DOMAIN calls = 1 .. 1
        BY <1>1
    <2> HIDE DEF calls, parsed
    <2>3. Len(calls) = 1 /\ calls # <<>>
        BY <2>1, <2>2, OnePlace
    <2>4. FlattenSeq(calls) = calls[1]
        BY <2>1, <2>3, FlattenFirst
    <2>5. QED
        BY <2>2, <2>4 DEF AllCalls, calls
<1>6. ASSUME parsed.ok
      PROVE  /\ RewriteClaudeMessageDSML(blocks) = Told(parsed.clean, parsed.calls)
             /\ RewriteClaudeMessageDSML(blocks) # blocks
    <2>1. Kept(blocks[1]) = IF parsed.clean = <<>> THEN <<>> ELSE <<TextBlock(parsed.clean)>>
        BY <1>6 DEF Kept
    <2>2. RewriteClaudeMessageDSML(blocks) = Told(parsed.clean, parsed.calls)
        BY <1>4, <1>5, <2>1, RewriteParts DEF Told
    <2>3. \E i \in DOMAIN RewriteClaudeMessageDSML(blocks) :
                RewriteClaudeMessageDSML(blocks)[i].type = "tool_use"
        BY <1>1, <1>6, RewriteSomething
    <2>4. \A i \in DOMAIN blocks : blocks[i].type # "tool_use"
        BY <1>1
    <2> HIDE DEF parsed
    <2>5. RewriteClaudeMessageDSML(blocks) # blocks
        BY <2>3, <2>4
    <2>6. QED
        BY <2>2, <2>5
<1>7. ASSUME ~parsed.ok PROVE RewriteClaudeMessageDSML(blocks) = blocks
    <2>1. \A i \in DOMAIN blocks : ~StripAndParseDSML(blocks[i].text).ok
        BY <1>1, <1>7
    <2>2. QED
        BY <2>1, RewriteNothing
<1>8. QED
    BY <1>2, <1>3, <1>6, <1>7

\* When RewriteClaudeStreamDSML makes events of an answer.
LEMMA StreamKind ==
    ASSUME NEW blocks, NEW f, NEW c
    PROVE  LET text == accumulateStreamMeta(blocks, f)
               message == IF f = "pretty" THEN RewriteClaudeMessageDSML(blocks) ELSE blocks
               parsed == StripAndParseDSML(IF f = "bare" THEN Texts(blocks) ELSE text)
           IN  RewriteClaudeStreamDSML(blocks, f, c).kind = "events"
                    <=> WireContainsDSML(blocks, f, c) /\ (message # blocks \/ parsed.ok)
<1> DEFINE text == accumulateStreamMeta(blocks, f)
           message == IF f = "pretty" THEN RewriteClaudeMessageDSML(blocks) ELSE blocks
           parsed == StripAndParseDSML(IF f = "bare" THEN Texts(blocks) ELSE text)
<1>1. Raw.kind # "events" /\ \A events : Rewritten(events).kind = "events"
    BY DEF Raw, Rewritten
<1>2. RewriteClaudeStreamDSML(blocks, f, c) =
        IF ~WireContainsDSML(blocks, f, c) THEN Raw
        ELSE IF message # blocks THEN Rewritten(messageJSONToSSE(message))
        ELSE IF parsed.ok THEN Rewritten(synthesizeToolUseSSE(parsed.clean, parsed.calls))
        ELSE Raw
    BY DEF RewriteClaudeStreamDSML
<1> HIDE DEF message, parsed
<1>3. RewriteClaudeStreamDSML(blocks, f, c).kind = "events"
            <=> WireContainsDSML(blocks, f, c) /\ (message # blocks \/ parsed.ok)
    BY <1>1, <1>2
<1>4. QED
    BY <1>3 DEF message, parsed

\* A stream is made of one text in every form, if none of the words is cut and
\* the text has a call; and of the blocks that the message would have.
LEMMA OneTextStream ==
    ASSUME NEW blocks \in Seq(AnyBlock), Len(blocks) = 1, blocks[1].type = "text", NEW f \in Forms
    PROVE  /\ RewriteClaudeStreamDSML(blocks, f, {}).kind = "events"
                <=> RewriteClaudeMessageDSML(blocks) # blocks
           /\ RewriteClaudeMessageDSML(blocks) # blocks
                => StreamBlocks(blocks, f) = RewriteClaudeMessageDSML(blocks)
<1> DEFINE text == blocks[1].text
           parsed == StripAndParseDSML(text)
           message == RewriteClaudeMessageDSML(blocks)
<1>1. /\ text \in AnyText /\ Texts(blocks) = text
      /\ parsed.ok => message = Told(parsed.clean, parsed.calls) /\ message # blocks
      /\ ~parsed.ok => message = blocks
    BY OneText
<1>2. parsed.ok => WireContainsDSML(blocks, f, {})
    <2>1. parsed.ok => ContainsDSML(text)
        BY DEF StripAndParseDSML
    <2>2. ContainsDSML(text) => WireContainsDSML(blocks, f, {})
        <3> HIDE DEF text
        <3>1. QED
            BY <1>1 DEF ContainsDSML, WireContainsDSML
    <2>3. QED
        BY <2>1, <2>2
<1>3. parsed.clean \in AnyText /\ parsed.calls \in Seq(AnyCall)
    BY <1>1, StripType
<1>4. CASE f = "pretty"
    <2>1. accumulateStreamMeta(blocks, f) = <<>>
        BY <1>4 DEF accumulateStreamMeta
    <2>2. ~StripAndParseDSML(<<>>).ok
        BY EmptyIsClean
    <2>3. RewriteClaudeStreamDSML(blocks, f, {}).kind = "events"
                <=> WireContainsDSML(blocks, f, {}) /\ message # blocks
        BY <1>4, <2>1, <2>2, StreamKind
    <2>4. message # blocks => StreamBlocks(blocks, f) = Told(Texts(message), Unnumbered(UsesOf(message)))
        BY <1>4 DEF StreamBlocks
    <2> HIDE DEF parsed, message
    <2>5. message # blocks => message = Told(parsed.clean, parsed.calls)
        BY <1>1
    <2>6. message # blocks => StreamBlocks(blocks, f) = message
        BY <1>3, <2>4, <2>5, ToldAgain
    <2>7. QED
        BY <1>1, <1>2, <2>3, <2>6 DEF message
<1>5. CASE f # "pretty"
    <2>1. (IF f = "bare" THEN Texts(blocks) ELSE accumulateStreamMeta(blocks, f)) = text
        BY <1>1, <1>5 DEF Forms, accumulateStreamMeta
    <2>2. RewriteClaudeStreamDSML(blocks, f, {}).kind = "events"
                <=> WireContainsDSML(blocks, f, {}) /\ parsed.ok
        BY <1>5, <2>1, StreamKind
    <2>3. StreamBlocks(blocks, f) = Told(parsed.clean, parsed.calls)
        BY <1>5, <2>1 DEF StreamBlocks
    <2> HIDE DEF parsed, message
    <2>4. QED
        BY <1>1, <1>2, <2>2, <2>3 DEF message
<1>6. QED
    BY <1>4, <1>5

\* No text of a message that was rewritten has anything left to strip.
LEMMA RewrittenIsClean ==
    ASSUME NEW blocks \in Seq(AnyBlock)
    PROVE  \A i \in DOMAIN RewriteClaudeMessageDSML(blocks) :
                ~StripAndParseDSML(RewriteClaudeMessageDSML(blocks)[i].text).ok
<1> DEFINE kept == AllKept(blocks)
           uses == ToolUses(AllCalls(blocks))
           ss == [i \in DOMAIN blocks |-> Kept(blocks[i])]
<1>1. kept \in Seq(AnyBlock) /\ uses \in Seq(AnyBlock) /\ RewriteClaudeMessageDSML(blocks) = kept \o uses
    BY RewriteType, RewriteParts
<1>2. ASSUME NEW k \in DOMAIN ss, NEW l \in DOMAIN ss[k] PROVE ~StripAndParseDSML(ss[k][l].text).ok
    <2> DEFINE parsed == StripAndParseDSML(blocks[k].text)
    <2>1. k \in DOMAIN blocks /\ ss[k] = Kept(blocks[k])
        OBVIOUS
    <2>2. blocks[k].text \in AnyText
        BY <2>1, ElementOfSeq, BlockText
    <2>3. CASE ~parsed.ok
        <3>1. ss[k] = <<blocks[k]>>
            BY <2>1, <2>3 DEF Kept
        <3> HIDE DEF ss
        <3>2. ss[k][l] = blocks[k]
            BY <3>1
        <3>3. QED
            BY <2>3, <3>2
    <2>4. CASE parsed.ok
        <3>1. ss[k] = IF parsed.clean = <<>> THEN <<>> ELSE <<TextBlock(parsed.clean)>>
            BY <2>1, <2>4 DEF Kept
        <3>2. \A text : TextBlock(text).text = text
            BY DEF TextBlock
        <3>3. ~StripAndParseDSML(parsed.clean).ok
            BY <2>2, StripsCompletely
        <3> HIDE DEF ss, parsed
        <3>4. ss[k][l] = TextBlock(parsed.clean)
            BY <3>1
        <3>5. QED
            BY <3>2, <3>3, <3>4
    <2>5. QED
        BY <2>3, <2>4
<1>3. \A i \in 1 .. Len(kept) : ~StripAndParseDSML(kept[i].text).ok
    <2>1. ss \in Seq(Seq(AnyBlock))
        BY PartsType
    <2>2. kept = FlattenSeq(ss)
        BY DEF AllKept
    <2> HIDE DEF ss, kept
    <2>3. \A i \in DOMAIN kept : \E k \in DOMAIN ss : \E l \in DOMAIN ss[k] : kept[i] = ss[k][l]
        BY <2>1, <2>2, FlattenElements
    <2>4. DOMAIN kept = 1 .. Len(kept)
        BY <1>1, LenProperties
    <2>5. QED
        BY <1>2, <2>3, <2>4
<1>4. \A i \in 1 .. Len(uses) : uses[i].text = <<>>
    <2>1. \A id, name, input : ToolUse(id, name, input).text = <<>>
        BY DEF ToolUse
    <2> DEFINE calls == AllCalls(blocks)
    <2>2. calls \in Seq(AnyCall)
        BY RewriteType
    <2> HIDE DEF calls
    <2>3. /\ Len(ToolUses(calls)) = Len(calls)
          /\ \A i \in 1 .. Len(calls) : ToolUses(calls)[i] = ToolUse(DsmlId(i), calls[i].name, calls[i].input)
        BY <2>2, ToolUsesType
    <2>4. \A i \in 1 .. Len(ToolUses(calls)) : ToolUses(calls)[i].text = <<>>
        BY <2>1, <2>3
    <2>5. QED
        BY <2>4 DEF calls
<1> HIDE DEF kept, uses, ss
<1> SUFFICES ASSUME NEW i \in DOMAIN (kept \o uses)
             PROVE  ~StripAndParseDSML((kept \o uses)[i].text).ok
    BY <1>1
<1>5. /\ DOMAIN (kept \o uses) = 1 .. Len(kept) + Len(uses)
      /\ (kept \o uses)[i] = IF i <= Len(kept) THEN kept[i] ELSE uses[i - Len(kept)]
      /\ Len(kept) \in Nat /\ Len(uses) \in Nat
    BY <1>1, ConcatProperties, LenProperties
<1>6. CASE i <= Len(kept)
    <2>1. i \in 1 .. Len(kept)
        BY <1>5, <1>6
    <2>2. QED
        BY <1>3, <1>5, <1>6, <2>1
<1>7. CASE ~ (i <= Len(kept))
    <2>1. i - Len(kept) \in 1 .. Len(uses)
        BY <1>5, <1>7
    <2>2. (kept \o uses)[i].text = <<>>
        BY <1>4, <1>5, <1>7, <2>1
    <2>3. QED
        BY <2>2, EmptyIsClean
<1>8. QED
    BY <1>6, <1>7

-----------------------------------------------------------------------------
(* The places of what stays                                                *)

\* What stays of a text without the tokens at some places, token by token, and
\* the place that token n, if it stays, has then.
Left(text, A) == [n \in DOMAIN text |-> IF n \in A THEN <<>> ELSE <<text[n]>>]
PlaceOf(text, A, n) == Len(Joined(Left(text, A), n))

\* One part for each token, and joined they are a text.
LEMMA LeftType ==
    ASSUME NEW text \in AnyText, NEW A
    PROVE  /\ Left(text, A) \in Seq(Seq(AnyToken)) /\ Len(Left(text, A)) = Len(text)
           /\ DOMAIN Left(text, A) = 1 .. Len(text) /\ DOMAIN text = 1 .. Len(text) /\ Len(text) \in Nat
           /\ FlattenSeq(Left(text, A)) \in AnyText
           /\ \A n \in DOMAIN text : Left(text, A)[n] = IF n \in A THEN <<>> ELSE <<text[n]>>
<1> DEFINE one(n) == IF n \in A THEN <<>> ELSE <<text[n]>>
<1>1. DOMAIN text = 1 .. Len(text) /\ Len(text) \in Nat
    BY DEF AnyText
<1>2. \A n \in DOMAIN text : one(n) \in Seq(AnyToken)
    BY DEF AnyText
<1>3. Left(text, A) = [n \in 1 .. Len(text) |-> one(n)]
    BY <1>1 DEF Left
<1> HIDE DEF one
<1>4. Left(text, A) \in Seq(Seq(AnyToken)) /\ Len(Left(text, A)) = Len(text)
    BY <1>1, <1>2, <1>3, IsASeq
<1> QED
    BY <1>1, <1>3, <1>4, FlattenType DEF AnyText, one

\* A token that stays comes one place after those before it that stay.
LEMMA PlaceSteps ==
    ASSUME NEW text \in AnyText, NEW A
    PROVE  LET left == FlattenSeq(Left(text, A))
               Place(n) == PlaceOf(text, A, n)
           IN  /\ Place(0) = 0 /\ Place(Len(text)) = Len(left)
               /\ \A n \in 0 .. Len(text) : Place(n) \in Nat
               /\ \A a, b \in 0 .. Len(text) : a <= b => Place(a) <= Place(b)
               /\ \A n \in DOMAIN text \cap A : Place(n) = Place(n - 1)
               /\ \A n \in DOMAIN text \ A : /\ Place(n) = Place(n - 1) + 1
                                             /\ Place(n) \in DOMAIN left /\ left[Place(n)] = text[n]
<1> DEFINE ss == Left(text, A)
           left == FlattenSeq(ss)
           Place(n) == PlaceOf(text, A, n)
<1>1. /\ ss \in Seq(Seq(AnyToken)) /\ Len(ss) = Len(text) /\ Len(text) \in Nat
      /\ DOMAIN text = 1 .. Len(text) /\ left \in Seq(AnyToken)
    BY LeftType DEF AnyText
<1>2. \A n \in DOMAIN text : ss[n] = IF n \in A THEN <<>> ELSE <<text[n]>>
    BY LeftType
<1>3. \A n : Place(n) = Len(Joined(ss, n))
    BY DEF PlaceOf
<1> HIDE DEF ss, Place
<1>4. /\ Joined(ss, 0) = <<>> /\ left = Joined(ss, Len(ss))
      /\ \A n \in 1 .. Len(ss) : Joined(ss, n) = Joined(ss, n - 1) \o ss[n]
      /\ \A n \in 0 .. Len(ss) : Joined(ss, n) \in Seq(AnyToken)
    BY <1>1, JoinedStep
<1>5. \A n \in 0 .. Len(text) : Joined(ss, n) \in Seq(AnyToken) /\ Place(n) \in Nat
    BY <1>1, <1>3, <1>4
<1>6. ASSUME NEW a \in 0 .. Len(text), NEW b \in 0 .. Len(text), a <= b
      PROVE  /\ Place(a) <= Place(b)
             /\ \A k \in 1 .. Place(a) : Joined(ss, b)[k] = Joined(ss, a)[k]
    <2> DEFINE rest == FlattenSeq(SubSeq(ss, a + 1, b))
    <2>1. b \in a .. Len(ss) /\ a \in 0 .. Len(ss)
        BY <1>1, <1>6
    <2>2. Joined(ss, b) = Joined(ss, a) \o rest
        BY <1>1, <2>1, JoinedBetween
    <2>3. rest \in Seq(AnyToken)
        <3>1. SubSeq(ss, a + 1, b) \in Seq(Seq(AnyToken))
            BY <1>1, <2>1
        <3> QED
            BY <3>1, FlattenType
    <2> HIDE DEF rest
    <2> QED
        BY <1>3, <1>5, <2>2, <2>3
<1>7. Place(0) = 0 /\ Place(Len(text)) = Len(left)
    BY <1>1, <1>3, <1>4
<1>8. ASSUME NEW n \in DOMAIN text
      PROVE  /\ n \in A => Place(n) = Place(n - 1)
             /\ n \notin A => /\ Place(n) = Place(n - 1) + 1
                              /\ Place(n) \in DOMAIN left /\ left[Place(n)] = text[n]
    <2>1. n \in 1 .. Len(ss) /\ n \in 0 .. Len(text) /\ n - 1 \in 0 .. Len(text) /\ n <= Len(text)
          /\ Len(text) \in 0 .. Len(text)
        BY <1>1
    <2>2. Joined(ss, n) = Joined(ss, n - 1) \o ss[n] /\ Joined(ss, n - 1) \in Seq(AnyToken)
        BY <1>4, <1>5, <2>1
    <2>3. CASE n \in A
        <3>1. Joined(ss, n) = Joined(ss, n - 1)
            BY <1>2, <2>2, <2>3, ConcatEmptySeq
        <3> QED
            BY <1>3, <2>3, <3>1
    <2>4. CASE n \notin A
        <3>1. Joined(ss, n) = Joined(ss, n - 1) \o <<text[n]>>
            BY <1>2, <2>2, <2>4
        <3> DEFINE before == Joined(ss, n - 1)
                   after == Joined(ss, n)
                   x == text[n]
        <3>6. x \in AnyToken /\ before \in Seq(AnyToken) /\ after = before \o <<x>>
            <4>1. x \in AnyToken
                BY DEF AnyText
            <4> QED
                BY <2>2, <3>1, <4>1
        <3> HIDE DEF before, after, x
        <3>7. Len(after) = Len(before) + 1 /\ after[Len(before) + 1] = x /\ Len(before) \in Nat
            BY <3>6
        <3>8. Place(n) = Len(after) /\ Place(n - 1) = Len(before)
            BY <1>3 DEF before, after
        <3>2. Place(n) = Place(n - 1) + 1 /\ Joined(ss, n)[Place(n)] = text[n]
            BY <3>7, <3>8 DEF after, x
        <3>3. Place(n) \in 1 .. Place(n) /\ Place(n) <= Len(left) /\ Place(n) \in Nat
            BY <1>5, <1>6, <1>7, <2>1, <3>2, <3>7, <3>8
        <3>9. Joined(ss, Len(text))[Place(n)] = Joined(ss, n)[Place(n)]
            BY <1>6, <2>1, <3>3
        <3>4. left[Place(n)] = text[n]
            BY <1>1, <1>4, <3>2, <3>9
        <3>5. Place(n) \in DOMAIN left
            BY <1>1, <3>3
        <3> QED
            BY <2>4, <3>2, <3>4, <3>5
    <2> QED
        BY <2>3, <2>4
<1> QED
    BY <1>5, <1>6, <1>7, <1>8 DEF Place, ss

\* Every place of what stays is that of a token.
LEMMA PlacesAreTaken ==
    ASSUME NEW text \in AnyText, NEW A, NEW k \in DOMAIN FlattenSeq(Left(text, A))
    PROVE  \E n \in DOMAIN text \ A : PlaceOf(text, A, n) = k
<1> DEFINE Place(n) == PlaceOf(text, A, n)
           P == {n \in 0 .. Len(text) : k <= Place(n)}
<1>1. /\ Len(text) \in Nat /\ DOMAIN text = 1 .. Len(text) /\ FlattenSeq(Left(text, A)) \in AnyText
    BY LeftType
<1>2. /\ Place(0) = 0 /\ Place(Len(text)) = Len(FlattenSeq(Left(text, A)))
      /\ \A n \in 0 .. Len(text) : Place(n) \in Nat
      /\ \A n \in DOMAIN text \cap A : Place(n) = Place(n - 1)
      /\ \A n \in DOMAIN text \ A : Place(n) = Place(n - 1) + 1
    BY PlaceSteps
<1> HIDE DEF Place
<1>3. k \in Nat \ {0} /\ k <= Place(Len(text))
    BY <1>1, <1>2 DEF AnyText
<1>4. PICK n \in P : \A m \in P : n <= m
    <2>1. P \subseteq Nat /\ Len(text) \in P
        BY <1>1, <1>3
    <2> HIDE DEF P
    <2> QED
        BY <2>1, LeastNatural
<1>5. n \in DOMAIN text /\ n - 1 \in 0 .. Len(text) /\ ~(n <= n - 1)
    BY <1>1, <1>2, <1>3
<1>6. ~(k <= Place(n - 1)) /\ k <= Place(n)
    BY <1>4, <1>5
<1>7. n \notin A /\ Place(n) = Place(n - 1) + 1
    BY <1>2, <1>5, <1>6
<1>8. Place(n) = k
    <2>1. Place(n - 1) \in Nat
        BY <1>2, <1>5
    <2> QED
        BY <1>3, <1>6, <1>7, <2>1
<1> QED
    BY <1>5, <1>7, <1>8 DEF Place

\* Leaving out the tokens of one set of places and then those of another gives
\* the same as leaving out both at once.
LEMMA LeftTwice ==
    ASSUME NEW text \in AnyText, NEW A, NEW B, NEW C,
           \A n \in DOMAIN text \ A : PlaceOf(text, A, n) \in C <=> n \in B
    PROVE  FlattenSeq(Left(FlattenSeq(Left(text, A)), C)) = FlattenSeq(Left(text, A \cup B))
<1> DEFINE left == FlattenSeq(Left(text, A))
           ss == Left(left, C)
           tt == Left(text, A \cup B)
           Place(n) == PlaceOf(text, A, n)
           P == {n \in 0 .. Len(text) : Joined(ss, Place(n)) = Joined(tt, n)}
<1>1. left \in AnyText /\ Len(text) \in Nat /\ DOMAIN text = 1 .. Len(text)
    BY LeftType
<1>2. /\ tt \in Seq(Seq(AnyToken)) /\ Len(tt) = Len(text)
      /\ \A n \in DOMAIN text : tt[n] = IF n \in A \cup B THEN <<>> ELSE <<text[n]>>
    BY LeftType
<1>3. /\ Place(0) = 0 /\ Place(Len(text)) = Len(left)
      /\ \A n \in 0 .. Len(text) : Place(n) \in Nat
      /\ \A n \in DOMAIN text \cap A : Place(n) = Place(n - 1)
      /\ \A n \in DOMAIN text \ A : /\ Place(n) = Place(n - 1) + 1
                                    /\ Place(n) \in DOMAIN left /\ left[Place(n)] = text[n]
    BY PlaceSteps
<1>4. \A n \in DOMAIN text \ A : Place(n) \in C <=> n \in B
    OBVIOUS
<1> HIDE DEF left, Place, tt
<1>5. /\ ss \in Seq(Seq(AnyToken)) /\ Len(ss) = Len(left) /\ DOMAIN left = 1 .. Len(left)
      /\ \A k \in DOMAIN left : ss[k] = IF k \in C THEN <<>> ELSE <<left[k]>>
    BY <1>1, LeftType
<1> HIDE DEF ss
<1>6. /\ Joined(ss, 0) = <<>> /\ FlattenSeq(ss) = Joined(ss, Len(ss))
      /\ \A k \in 1 .. Len(ss) : Joined(ss, k) = Joined(ss, k - 1) \o ss[k]
    BY <1>5, JoinedStep
<1>7. /\ Joined(tt, 0) = <<>> /\ FlattenSeq(tt) = Joined(tt, Len(tt))
      /\ \A n \in 1 .. Len(tt) : Joined(tt, n) = Joined(tt, n - 1) \o tt[n]
      /\ \A n \in 0 .. Len(tt) : Joined(tt, n) \in Seq(AnyToken)
    BY <1>2, JoinedStep
<1>8. 0 \in P
    BY <1>1, <1>3, <1>6, <1>7
<1>9. ASSUME NEW n \in 1 .. Len(text), n - 1 \in P PROVE n \in P
    <2>1. n \in DOMAIN text /\ n \in 1 .. Len(tt) /\ n - 1 \in 0 .. Len(tt) /\ n \in 0 .. Len(text)
        BY <1>1, <1>2
    <2>2. Joined(tt, n) = Joined(tt, n - 1) \o tt[n] /\ Joined(ss, Place(n - 1)) = Joined(tt, n - 1)
        BY <1>7, <1>9, <2>1
    <2>3. CASE n \in A
        <3>1. Place(n) = Place(n - 1) /\ tt[n] = <<>>
            BY <1>2, <1>3, <2>1, <2>3
        <3>2. Joined(tt, n) = Joined(tt, n - 1)
            BY <1>7, <2>1, <2>2, <3>1, ConcatEmptySeq
        <3> QED
            BY <2>1, <2>2, <3>1, <3>2
    <2>4. CASE n \notin A
        <3>1. /\ Place(n) = Place(n - 1) + 1 /\ Place(n - 1) \in Nat
              /\ Place(n) \in 1 .. Len(ss) /\ Place(n) \in DOMAIN left /\ left[Place(n)] = text[n]
            BY <1>3, <1>5, <2>1, <2>4
        <3>2. Place(n) - 1 = Place(n - 1)
            BY <3>1
        <3>3. ss[Place(n)] = tt[n]
            BY <1>2, <1>4, <1>5, <2>1, <2>4, <3>1
        <3>4. Joined(ss, Place(n)) = Joined(ss, Place(n) - 1) \o ss[Place(n)]
            BY <1>6, <3>1
        <3> QED
            BY <2>1, <2>2, <3>2, <3>3, <3>4
    <2> QED
        BY <2>3, <2>4
<1> HIDE DEF P
<1>10. Len(text) \in P
    <2>1. 0 .. Len(text) \subseteq P
        BY <1>1, <1>8, <1>9, UpTo
    <2> QED
        BY <1>1, <2>1
<1>11. Joined(ss, Len(left)) = Joined(tt, Len(text))
    BY <1>3, <1>10 DEF P
<1>12. FlattenSeq(ss) = FlattenSeq(tt)
    BY <1>2, <1>5, <1>6, <1>7, <1>11
<1> QED
    BY <1>12 DEF ss, tt, left

-----------------------------------------------------------------------------
(* The places of the matches                                               *)

MatchedAt(text, open, close) == UNION {m[1] .. m[2] : m \in Matches(text, open, close)}

\* Removing the matches is leaving out their places.
LEMMA WithoutIsLeft ==
    ASSUME NEW text, NEW open, NEW close
    PROVE  Without(text, open, close) = FlattenSeq(Left(text, MatchedAt(text, open, close)))
BY DEF Without, Left, MatchedAt

\* What goes from an opening tag to the first closing tag behind it is in a match.
LEMMA MatchedPlaces ==
    ASSUME NEW text \in AnyText, NEW open, NEW close, open # close, NEW n \in DOMAIN text
    PROVE  n \in MatchedAt(text, open, close) <=>
                \E i, j \in DOMAIN text :
                    /\ i <= n /\ n <= j /\ i < j /\ text[i].tag = open /\ text[j].tag = close
                    /\ \A k \in i .. j - 1 : text[k].tag # close
<1>1. DOMAIN text = 1 .. Len(text) /\ Len(text) \in Nat
    BY DEF AnyText
<1>2. ASSUME n \in MatchedAt(text, open, close)
      PROVE  \E i, j \in DOMAIN text :
                    /\ i <= n /\ n <= j /\ i < j /\ text[i].tag = open /\ text[j].tag = close
                    /\ \A k \in i .. j - 1 : text[k].tag # close
    <2>1. PICK m \in Matches(text, open, close) : n \in m[1] .. m[2]
        BY <1>2 DEF MatchedAt
    <2>2. /\ m[1] \in DOMAIN text /\ m[2] \in DOMAIN text /\ m[1] < m[2]
          /\ text[m[1]].tag = open /\ text[m[2]].tag = close
          /\ \A k \in m[1] .. m[2] - 1 : text[k].tag # close
        BY DEF Matches
    <2>3. m[1] <= n /\ n <= m[2]
        BY <1>1, <2>1, <2>2
    <2> QED
        BY <2>2, <2>3
<1>3. ASSUME NEW i \in DOMAIN text, NEW j \in DOMAIN text, i <= n, n <= j, i < j,
             text[i].tag = open, text[j].tag = close, \A k \in i .. j - 1 : text[k].tag # close
      PROVE  n \in MatchedAt(text, open, close)
    <2>1. PICK m \in Matches(text, open, close) : i \in m[1] .. m[2]
        BY <1>3, OpenIsMatched
    <2>2. m[1] \in DOMAIN text /\ m[2] \in DOMAIN text /\ text[m[2]].tag = close
        BY DEF Matches
    <2>3. m[1] <= i /\ i <= m[2] /\ m[2] \notin i .. j - 1
        BY <1>1, <1>3, <2>1, <2>2
    <2>4. n \in m[1] .. m[2]
        BY <1>1, <1>3, <2>2, <2>3
    <2> QED
        BY <2>4 DEF MatchedAt
<1> QED
    BY <1>2, <1>3

\* No two matches share a place.
LEMMA MatchesAreApart ==
    ASSUME NEW text \in AnyText, NEW open, NEW close, open # close,
           NEW m \in Matches(text, open, close), NEW l \in Matches(text, open, close),
           NEW n \in DOMAIN text, n \in m[1] .. m[2], n \in l[1] .. l[2]
    PROVE  m = l
<1>1. DOMAIN text = 1 .. Len(text) /\ Len(text) \in Nat
    BY DEF AnyText
<1> DEFINE Match(x) == /\ x = <<x[1], x[2]>> /\ x[1] \in DOMAIN text /\ x[2] \in DOMAIN text /\ x[1] < x[2]
                       /\ text[x[1]].tag = open /\ text[x[2]].tag = close
                       /\ \A k \in x[1] .. x[2] - 1 : text[k].tag # close
                       /\ \A k \in 1 .. x[1] - 1 : text[k].tag = open
                            => \E p \in k .. x[1] : text[p].tag = close
<1>2. \A x \in Matches(text, open, close) : Match(x)
    BY DEF Matches
<1>3. ASSUME NEW x \in Matches(text, open, close), NEW y \in Matches(text, open, close),
             n \in x[1] .. x[2], n \in y[1] .. y[2]
      PROVE  ~ (x[1] < y[1])
    <2> SUFFICES ASSUME x[1] < y[1] PROVE FALSE
        OBVIOUS
    <2>1. Match(x) /\ Match(y)
        BY <1>2
    <2>2. x[1] \in 1 .. y[1] - 1
        BY <1>1, <2>1
    <2>3. PICK p \in x[1] .. y[1] : text[p].tag = close
        BY <2>1, <2>2
    <2>4. p # y[1] /\ p \notin x[1] .. x[2] - 1
        BY <2>1, <2>3
    <2> QED
        BY <1>1, <1>3, <2>1, <2>3, <2>4
<1>4. Match(m) /\ Match(l)
    BY <1>2
<1>5. m[1] = l[1]
    <2>1. ~ (m[1] < l[1]) /\ ~ (l[1] < m[1])
        BY <1>3
    <2> QED
        BY <1>1, <1>4, <2>1
<1>6. m[2] \notin l[1] .. l[2] - 1 /\ l[2] \notin m[1] .. m[2] - 1
    BY <1>4
<1>7. m[2] = l[2]
    BY <1>1, <1>4, <1>5, <1>6
<1> QED
    BY <1>4, <1>5, <1>7

\* Parts stand at the beginnings of the matches; each has what belongs inside its
\* match, and nothing belongs elsewhere.
InMatches(text, open, close, parts, at) ==
    /\ \A n \in DOMAIN text : (\A m \in Matches(text, open, close) : m[1] # n) => parts[n] = <<>>
    /\ \A m \in Matches(text, open, close) : parts[m[1]] = FlattenSeq(SubSeq(at, m[1] + 1, m[2] - 1))
    /\ \A n \in DOMAIN text :
            (\A m \in Matches(text, open, close) : ~ (m[1] < n /\ n < m[2])) => at[n] = <<>>

\* What is joined of such parts is what is joined of it all.
LEMMA PartsOfMatches ==
    ASSUME NEW text \in AnyText, NEW open, NEW close, open # close, NEW S,
           NEW parts \in Seq(Seq(S)), NEW at \in Seq(Seq(S)),
           Len(parts) = Len(text), Len(at) = Len(text), InMatches(text, open, close, parts, at)
    PROVE  FlattenSeq(parts) = FlattenSeq(at)
<1> DEFINE M == Matches(text, open, close)
           In(m, n) == m[1] <= n /\ n < m[2]
           P == {n \in 0 .. Len(text) :
                    /\ \A m \in M : In(m, n) => Joined(parts, n) = Joined(at, m[2] - 1)
                    /\ (\A m \in M : ~In(m, n)) => Joined(parts, n) = Joined(at, n)}
<1>1. DOMAIN text = 1 .. Len(text) /\ Len(text) \in Nat
    BY DEF AnyText
<1>2. \A m \in M : m[1] \in 1 .. Len(text) /\ m[2] \in 1 .. Len(text) /\ m[1] < m[2]
    BY <1>1, MatchesWithin
<1>3. \A m, l \in M : \A n \in DOMAIN text : n \in m[1] .. m[2] /\ n \in l[1] .. l[2] => m = l
    BY MatchesAreApart
<1>4. /\ Joined(parts, 0) = <<>> /\ FlattenSeq(parts) = Joined(parts, Len(text))
      /\ \A n \in 1 .. Len(text) : Joined(parts, n) = Joined(parts, n - 1) \o parts[n]
      /\ \A n \in 0 .. Len(text) : Joined(parts, n) \in Seq(S)
    BY JoinedStep
<1>5. /\ Joined(at, 0) = <<>> /\ FlattenSeq(at) = Joined(at, Len(text))
      /\ \A n \in 1 .. Len(text) : Joined(at, n) = Joined(at, n - 1) \o at[n]
      /\ \A n \in 0 .. Len(text) : Joined(at, n) \in Seq(S)
    BY JoinedStep
<1>6. /\ \A n \in DOMAIN text : (\A m \in M : m[1] # n) => parts[n] = <<>>
      /\ \A m \in M : parts[m[1]] = FlattenSeq(SubSeq(at, m[1] + 1, m[2] - 1))
      /\ \A n \in DOMAIN text : (\A m \in M : ~ (m[1] < n /\ n < m[2])) => at[n] = <<>>
    BY DEF InMatches
<1> HIDE DEF M
<1>7. 0 \in P
    <2>1. \A m \in M : ~In(m, 0)
        BY <1>2
    <2>2. Joined(parts, 0) = Joined(at, 0) /\ 0 \in 0 .. Len(text)
        BY <1>1, <1>4, <1>5
    <2> HIDE DEF In
    <2> QED
        BY <2>1, <2>2
<1>8. ASSUME NEW n \in 1 .. Len(text), n - 1 \in P PROVE n \in P
    <2>1. n \in DOMAIN text /\ n \in 0 .. Len(text) /\ n - 1 \in 0 .. Len(text) /\ n \in Nat \ {0}
        BY <1>1
    <2>2. at[n] = <<>> => Joined(at, n) = Joined(at, n - 1)
        BY <1>5, <2>1, ConcatEmptySeq
    <2>3. CASE \E m \in M : m[1] = n
        <3>1. PICK m \in M : m[1] = n
            BY <2>3
        <3>2. m[2] \in 1 .. Len(text) /\ n < m[2] /\ n \in m[1] .. m[2]
            BY <1>2, <2>1, <3>1
        <3>3. ASSUME NEW l \in M, n \in l[1] .. l[2] PROVE l = m
            BY <1>3, <2>1, <3>2, <3>3
        <3>4. \A l \in M : ~In(l, n - 1)
            <4> SUFFICES ASSUME NEW l \in M, In(l, n - 1) PROVE FALSE
                OBVIOUS
            <4>1. l[1] \in Int /\ l[2] \in Int /\ l[1] <= n - 1 /\ n - 1 < l[2]
                BY <1>1, <1>2, SMTT(30)
            <4>2. n \in l[1] .. l[2] /\ l[1] # n
                BY <1>1, <4>1, SMTT(30)
            <4> QED
                BY <3>1, <3>3, <4>2
        <3>5. Joined(parts, n - 1) = Joined(at, n - 1)
            BY <1>8, <3>4
        <3>6. \A l \in M : ~ (l[1] < n /\ n < l[2])
            <4> SUFFICES ASSUME NEW l \in M, l[1] < n, n < l[2] PROVE FALSE
                OBVIOUS
            <4>1. l[1] \in Int /\ l[2] \in Int
                BY <1>1, <1>2, SMTT(30)
            <4>2. n \in l[1] .. l[2] /\ l[1] # n
                BY <1>1, <4>1
            <4> QED
                BY <3>1, <3>3, <4>2
        <3>7. Joined(at, n) = Joined(at, n - 1)
            BY <1>6, <2>1, <2>2, <3>6
        <3>8. n \in 0 .. Len(at) /\ m[2] - 1 \in n .. Len(at)
            BY <2>1, <3>2, SMTT(30)
        <3>9. Joined(at, m[2] - 1) = Joined(at, n) \o FlattenSeq(SubSeq(at, n + 1, m[2] - 1))
            BY <3>8, JoinedBetween
        <3>10. parts[n] = FlattenSeq(SubSeq(at, n + 1, m[2] - 1))
            BY <1>6, <3>1
        <3>11. Joined(parts, n) = Joined(at, m[2] - 1)
            BY <1>4, <3>5, <3>7, <3>9, <3>10
        <3>12. In(m, n)
            BY <2>1, <3>1, <3>2
        <3>13. ASSUME NEW l \in M, In(l, n) PROVE l = m
            <4>1. l[1] \in 1 .. Len(text) /\ l[2] \in 1 .. Len(text) /\ l[1] <= n /\ n < l[2]
                BY <1>2, <3>13
            <4>2. n \in l[1] .. l[2]
                BY <2>1, <4>1
            <4> QED
                BY <3>3, <4>2
        <3> HIDE DEF In
        <3> QED
            BY <2>1, <3>11, <3>12, <3>13
    <2>4. CASE \A m \in M : m[1] # n
        <3>1. Joined(parts, n) = Joined(parts, n - 1)
            BY <1>4, <1>6, <2>1, <2>4, ConcatEmptySeq
        <3>2. ASSUME NEW m \in M, In(m, n) PROVE In(m, n - 1)
            <4>1. m[1] \in Int /\ m[2] \in Int /\ m[1] # n
                BY <1>1, <1>2, <2>4
            <4> QED
                BY <1>1, <3>2, <4>1
        <3>3. ASSUME \A m \in M : ~In(m, n)
              PROVE  Joined(parts, n) = Joined(at, n)
            <4>1. at[n] = <<>>
                <5>1. \A m \in M : ~ (m[1] < n /\ n < m[2])
                    BY <1>2, <2>1, <3>3, SMTT(30)
                <5> QED
                    BY <1>6, <2>1, <5>1
            <4>2. ASSUME NEW m \in M, In(m, n - 1) PROVE m[2] - 1 = n - 1
                <5>1. m[1] \in Int /\ m[2] \in Int
                    BY <1>1, <1>2
                <5>2. ~In(m, n)
                    BY <3>3
                <5> QED
                    BY <1>1, <4>2, <5>1, <5>2
            <4> HIDE DEF In
            <4>3. Joined(parts, n - 1) = Joined(at, n - 1)
                BY <1>8, <4>2
            <4> QED
                BY <2>2, <3>1, <4>1, <4>3
        <3> HIDE DEF In
        <3> QED
            BY <1>8, <2>1, <3>1, <3>2, <3>3
    <2> QED
        BY <2>3, <2>4
<1>9. Len(text) \in P
    <2> HIDE DEF P
    <2>1. 0 .. Len(text) \subseteq P
        BY <1>1, <1>7, <1>8, UpTo
    <2> QED
        BY <1>1, <2>1
<1>10. \A m \in M : ~In(m, Len(text))
    BY <1>1, <1>2
<1> HIDE DEF In
<1> QED
    BY <1>4, <1>5, <1>9, <1>10

-----------------------------------------------------------------------------
(* Ids                                                                     *)

\* No id but the empty one occurs twice.
IdsDiffer(blocks) ==
    \A i, j \in DOMAIN blocks : blocks[i].id # NoId /\ blocks[i].id = blocks[j].id => i = j

\* The upstream gives the block at place i no id, or one that has i in it.
IdsTellPlaces(blocks) ==
    \A i \in DOMAIN blocks : blocks[i].id = NoId \/ blocks[i].id = Id("toolu", i)

\* The ids the upstream gives differ, and are made by its own hand.
UpstreamIds(blocks) ==
    /\ IdsDiffer(blocks)
    /\ \A i \in DOMAIN blocks : blocks[i].id = NoId \/ blocks[i].id.maker = "toolu"

\* Ids made by different hands, or with different numbers, differ.
LEMMA IdParts ==
    /\ \A maker, n : Id(maker, n).maker = maker /\ Id(maker, n).n = n
    /\ NoId.maker = "nobody"
    BY DEF Id, NoId

\* Calls that are named by their places have different ids.
LEMMA PlacesDiffer ==
    ASSUME NEW blocks, IdsTellPlaces(blocks)
    PROVE  UpstreamIds(blocks)
<1>0. \A i \in DOMAIN blocks : blocks[i].id = NoId \/ blocks[i].id.maker = "toolu"
    BY IdParts DEF IdsTellPlaces
<1> SUFFICES ASSUME NEW i \in DOMAIN blocks, NEW j \in DOMAIN blocks,
                    blocks[i].id # NoId, blocks[i].id = blocks[j].id
             PROVE  i = j
    BY <1>0 DEF IdsDiffer, UpstreamIds
<1>1. blocks[i].id = Id("toolu", i) /\ blocks[j].id = Id("toolu", j)
    BY DEF IdsTellPlaces
<1>2. Id("toolu", i).n = i /\ Id("toolu", j).n = j
    BY IdParts
<1>3. Id("toolu", i) = Id("toolu", j)
    BY <1>1
<1> QED
    BY <1>2, <1>3

\* Joined, two sequences of blocks that share no id have none twice.
LEMMA JoinedIdsDiffer ==
    ASSUME NEW S, NEW a \in Seq(S), NEW b \in Seq(S), IdsDiffer(a), IdsDiffer(b),
           \A i \in 1 .. Len(a), j \in 1 .. Len(b) : a[i].id # NoId => a[i].id # b[j].id
    PROVE  IdsDiffer(a \o b)
<1> DEFINE all == a \o b
<1>1. /\ Len(a) \in Nat /\ Len(b) \in Nat
      /\ DOMAIN a = 1 .. Len(a) /\ DOMAIN b = 1 .. Len(b)
      /\ DOMAIN all = 1 .. Len(a) + Len(b)
      /\ \A i \in 1 .. Len(a) + Len(b) : all[i] = IF i <= Len(a) THEN a[i] ELSE b[i - Len(a)]
    BY ConcatProperties, LenProperties
<1> HIDE DEF all
<1> SUFFICES ASSUME NEW i \in DOMAIN all, NEW j \in DOMAIN all,
                    all[i].id # NoId, all[i].id = all[j].id
             PROVE  i = j
    BY DEF IdsDiffer, all
<1>2. CASE i <= Len(a) /\ j <= Len(a)
    <2>1. i \in DOMAIN a /\ j \in DOMAIN a /\ all[i] = a[i] /\ all[j] = a[j]
        BY <1>1, <1>2
    <2> QED
        BY <2>1 DEF IdsDiffer
<1>3. CASE i <= Len(a) /\ ~ (j <= Len(a))
    <2>1. i \in 1 .. Len(a) /\ j - Len(a) \in 1 .. Len(b) /\ all[i] = a[i] /\ all[j] = b[j - Len(a)]
        BY <1>1, <1>3
    <2> QED
        BY <2>1
<1>4. CASE ~ (i <= Len(a)) /\ j <= Len(a)
    <2>1. j \in 1 .. Len(a) /\ i - Len(a) \in 1 .. Len(b) /\ all[j] = a[j] /\ all[i] = b[i - Len(a)]
        BY <1>1, <1>4
    <2> QED
        BY <2>1
<1>5. CASE ~ (i <= Len(a)) /\ ~ (j <= Len(a))
    <2>1. /\ i - Len(a) \in DOMAIN b /\ j - Len(a) \in DOMAIN b
          /\ all[i] = b[i - Len(a)] /\ all[j] = b[j - Len(a)]
        BY <1>1, <1>5
    <2>2. i - Len(a) = j - Len(a)
        BY <2>1 DEF IdsDiffer
    <2> QED
        BY <1>1, <2>2
<1> QED
    BY <1>2, <1>3, <1>4, <1>5

\* The calls are numbered one after the other (RewriteClaudeMessageDSML,
\* synthesizeToolUseSSE).
LEMMA UsesAreNumbered ==
    ASSUME NEW calls \in Seq(AnyCall)
    PROVE  /\ IdsDiffer(ToolUses(calls))
           /\ \A i \in 1 .. Len(ToolUses(calls)) : ToolUses(calls)[i].id.maker = "toolu_dsml"
<1> DEFINE uses == ToolUses(calls)
<1>1. /\ Len(uses) = Len(calls) /\ DOMAIN uses = 1 .. Len(uses)
      /\ \A i \in 1 .. Len(calls) : uses[i] = ToolUse(DsmlId(i), calls[i].name, calls[i].input)
    BY ToolUsesType, LenProperties
<1>2. \A id, name, input : ToolUse(id, name, input).id = id
    BY DEF ToolUse
<1> HIDE DEF uses
<1>3. \A i \in DOMAIN uses : uses[i].id = DsmlId(i)
    BY <1>1, <1>2
<1>4. \A i \in DOMAIN uses : uses[i].id.maker = "toolu_dsml" /\ uses[i].id.n = i
    BY <1>3, IdParts DEF DsmlId
<1>5. IdsDiffer(uses)
    BY <1>4 DEF IdsDiffer
<1> QED
    BY <1>1, <1>4, <1>5 DEF uses

\* What is told of a text and calls has no id twice (synthesizeToolUseSSE).
LEMMA ToldIdsDiffer ==
    ASSUME NEW clean \in AnyText, NEW calls \in Seq(AnyCall)
    PROVE  IdsDiffer(Told(clean, calls))
<1> DEFINE prose == IF clean = <<>> THEN <<>> ELSE <<TextBlock(clean)>>
           uses == ToolUses(calls)
<1>1. uses \in Seq(Tellable) /\ IdsDiffer(uses)
    BY ToolUsesType, UsesAreNumbered
<1>2. prose \in Seq(Tellable) /\ \A i \in 1 .. Len(prose) : prose[i].id = NoId
    <2>1. TextBlock(clean) \in Tellable /\ TextBlock(clean).id = NoId
        BY TextBlockType DEF TextBlock
    <2>2. CASE clean = <<>>
        BY <2>2, EmptySeq
    <2>3. CASE clean # <<>>
        <3>1. prose = <<TextBlock(clean)>>
            BY <2>3
        <3> HIDE DEF prose
        <3>2. QED
            BY <2>1, <3>1
    <2> QED
        BY <2>2, <2>3
<1>3. Told(clean, calls) = prose \o uses
    BY DEF Told
<1> HIDE DEF prose, uses
<1>4. IdsDiffer(prose)
    BY <1>2, LenProperties DEF IdsDiffer
<1> QED
    BY <1>1, <1>2, <1>3, <1>4, JoinedIdsDiffer

\* Of a block at most one is kept.
LEMMA KeptIsShort ==
    ASSUME NEW b
    PROVE  Len(Kept(b)) <= 1
<1>1. \A c : Len(<<c>>) <= 1 /\ Len(<<>>) <= 1
    OBVIOUS
<1> QED
    BY <1>1 DEF Kept

\* What is kept of a block has the block's id or none.
LEMMA KeptId ==
    ASSUME NEW b, NEW l \in DOMAIN Kept(b)
    PROVE  Kept(b)[l].id \in {NoId, b.id}
<1>1. \A text : TextBlock(text).id = NoId
    BY DEF TextBlock
<1>2. CASE ~StripAndParseDSML(b.text).ok
    <2>1. Kept(b) = <<b>>
        BY <1>2 DEF Kept
    <2> QED
        BY <2>1
<1>3. CASE StripAndParseDSML(b.text).ok /\ StripAndParseDSML(b.text).clean # <<>>
    <2>1. Kept(b) = <<TextBlock(StripAndParseDSML(b.text).clean)>>
        BY <1>3 DEF Kept
    <2> QED
        BY <1>1, <2>1
<1>4. CASE StripAndParseDSML(b.text).ok /\ StripAndParseDSML(b.text).clean = <<>>
    <2>1. Kept(b) = <<>>
        BY <1>4 DEF Kept
    <2> QED
        BY <2>1
<1> QED
    BY <1>2, <1>3, <1>4

\* The blocks that are kept stay in order, so that their ids still differ.
LEMMA KeptIdsDiffer ==
    ASSUME NEW blocks \in Seq(AnyBlock), UpstreamIds(blocks)
    PROVE  /\ IdsDiffer(AllKept(blocks))
           /\ \A i \in 1 .. Len(AllKept(blocks)) :
                AllKept(blocks)[i].id = NoId \/ AllKept(blocks)[i].id.maker = "toolu"
<1> DEFINE ss == [i \in DOMAIN blocks |-> Kept(blocks[i])]
           kept == AllKept(blocks)
<1>1. ss \in Seq(Seq(AnyBlock)) /\ kept = FlattenSeq(ss) /\ kept \in Seq(AnyBlock)
    BY PartsType, RewriteType DEF AllKept
<1>2. \A k \in DOMAIN ss : Len(ss[k]) <= 1
    BY KeptIsShort
<1>3. ASSUME NEW k \in DOMAIN ss, NEW l \in DOMAIN ss[k]
      PROVE  k \in DOMAIN blocks /\ ss[k][l].id \in {NoId, blocks[k].id}
    <2>1. k \in DOMAIN blocks /\ ss[k] = Kept(blocks[k])
        OBVIOUS
    <2> QED
        BY <2>1, KeptId
<1> HIDE DEF ss, kept
<1>4. \A i \in 1 .. Len(kept) : kept[i].id = NoId \/ kept[i].id.maker = "toolu"
    <2>1. \A i \in DOMAIN kept : \E k \in DOMAIN ss : \E l \in DOMAIN ss[k] : kept[i] = ss[k][l]
        BY <1>1, FlattenElements
    <2>2. DOMAIN kept = 1 .. Len(kept)
        BY <1>1, LenProperties
    <2> QED
        BY <1>3, <2>1, <2>2 DEF UpstreamIds
<1>5. ASSUME NEW i \in DOMAIN kept, NEW j \in DOMAIN kept, i < j, kept[i].id # NoId
      PROVE  kept[i].id # kept[j].id
    <2>1. PICK k \in DOMAIN ss, l \in DOMAIN ss :
            k < l /\ ss[k] # <<>> /\ ss[l] # <<>> /\ kept[i] = ss[k][1] /\ kept[j] = ss[l][1]
        BY <1>1, <1>2, <1>5, FlattenOrdered, SMTT(30)
    <2>2. 1 \in DOMAIN ss[k] /\ 1 \in DOMAIN ss[l]
        BY <1>1, <2>1
    <2>3. /\ k \in DOMAIN blocks /\ l \in DOMAIN blocks
          /\ kept[i].id = blocks[k].id /\ (kept[j].id = NoId \/ kept[j].id = blocks[l].id)
        BY <1>3, <1>5, <2>1, <2>2
    <2>4. k # l
        <3>1. k \in Nat /\ l \in Nat
            BY <1>1
        <3> QED
            BY <2>1, <3>1
    <2> QED
        BY <1>5, <2>3, <2>4 DEF UpstreamIds, IdsDiffer
<1>6. IdsDiffer(kept)
    <2> SUFFICES ASSUME NEW i \in DOMAIN kept, NEW j \in DOMAIN kept,
                        kept[i].id # NoId, kept[i].id = kept[j].id
                 PROVE  i = j
        BY DEF IdsDiffer
    <2>1. i \in Nat /\ j \in Nat
        BY <1>1
    <2>2. ~ (i < j) /\ ~ (j < i)
        BY <1>5
    <2> QED
        BY <2>1, <2>2
<1> QED
    BY <1>4, <1>6 DEF kept

\* No id occurs twice in a message that was rewritten: the ids of the upstream's
\* own calls and the new ones are made by different hands.
LEMMA RewrittenIdsDiffer ==
    ASSUME NEW blocks \in Seq(AnyBlock), UpstreamIds(blocks)
    PROVE  IdsDiffer(RewriteClaudeMessageDSML(blocks))
<1> DEFINE kept == AllKept(blocks)
           uses == ToolUses(AllCalls(blocks))
<1>1. kept \in Seq(AnyBlock) /\ uses \in Seq(AnyBlock) /\ RewriteClaudeMessageDSML(blocks) = kept \o uses
    BY RewriteType, RewriteParts
<1>2. IdsDiffer(kept) /\ \A i \in 1 .. Len(kept) : kept[i].id = NoId \/ kept[i].id.maker = "toolu"
    BY KeptIdsDiffer
<1>3. IdsDiffer(uses) /\ \A i \in 1 .. Len(uses) : uses[i].id.maker = "toolu_dsml"
    BY RewriteType, UsesAreNumbered
<1> HIDE DEF kept, uses
<1>4. \A i \in 1 .. Len(kept), j \in 1 .. Len(uses) : kept[i].id # NoId => kept[i].id # uses[j].id
    BY <1>2, <1>3
<1> QED
    BY <1>1, <1>2, <1>3, <1>4, JoinedIdsDiffer

\* Every call of a message that was rewritten has an id if the upstream's own
\* calls have.
LEMMA RewrittenCallsHaveIds ==
    ASSUME NEW blocks \in Seq(AnyBlock),
           \A i \in DOMAIN blocks : blocks[i].type = "tool_use" => blocks[i].id # NoId
    PROVE  \A i \in DOMAIN RewriteClaudeMessageDSML(blocks) :
                RewriteClaudeMessageDSML(blocks)[i].type = "tool_use"
                    => RewriteClaudeMessageDSML(blocks)[i].id # NoId
<1> DEFINE kept == AllKept(blocks)
           uses == ToolUses(AllCalls(blocks))
           ss == [i \in DOMAIN blocks |-> Kept(blocks[i])]
<1>1. kept \in Seq(AnyBlock) /\ uses \in Seq(AnyBlock) /\ RewriteClaudeMessageDSML(blocks) = kept \o uses
    BY RewriteType, RewriteParts
<1>2. \A i \in 1 .. Len(uses) : uses[i].id # NoId
    BY RewriteType, UsesAreNumbered, IdParts
<1>3. \A i \in DOMAIN kept : \E k \in DOMAIN ss : \E l \in DOMAIN ss[k] : kept[i] = ss[k][l]
    <2>1. ss \in Seq(Seq(AnyBlock)) /\ kept = FlattenSeq(ss)
        BY PartsType DEF AllKept
    <2> HIDE DEF ss, kept
    <2> QED
        BY <2>1, FlattenElements
<1>4. ASSUME NEW k \in DOMAIN blocks, NEW l \in DOMAIN Kept(blocks[k]), Kept(blocks[k])[l].type = "tool_use"
      PROVE  Kept(blocks[k])[l].id # NoId
    <2> DEFINE b == blocks[k]
               parsed == StripAndParseDSML(b.text)
    <2>1. \A text : TextBlock(text).type = "text"
        BY DEF TextBlock
    <2>2. CASE ~parsed.ok
        <3>1. Kept(b) = <<b>>
            BY <2>2 DEF Kept
        <3> QED
            BY <1>4, <3>1
    <2>3. CASE parsed.ok /\ parsed.clean # <<>>
        <3>1. Kept(b) = <<TextBlock(parsed.clean)>>
            BY <2>3 DEF Kept
        <3> QED
            BY <1>4, <2>1, <3>1
    <2>4. CASE parsed.ok /\ parsed.clean = <<>>
        <3>1. Kept(b) = <<>>
            BY <2>4 DEF Kept
        <3> QED
            BY <3>1
    <2> QED
        BY <2>2, <2>3, <2>4
<1>5. \A i \in 1 .. Len(kept) : kept[i].type = "tool_use" => kept[i].id # NoId
    BY <1>1, <1>3, <1>4
<1> HIDE DEF kept, uses
<1>6. \A i \in DOMAIN (kept \o uses) :
        (i \in 1 .. Len(kept) /\ (kept \o uses)[i] = kept[i])
            \/ \E j \in 1 .. Len(uses) : (kept \o uses)[i] = uses[j]
    <2>1. /\ DOMAIN (kept \o uses) = 1 .. Len(kept) + Len(uses) /\ Len(kept) \in Nat /\ Len(uses) \in Nat
          /\ \A i \in 1 .. Len(kept) + Len(uses) :
                (kept \o uses)[i] = IF i <= Len(kept) THEN kept[i] ELSE uses[i - Len(kept)]
        BY <1>1, ConcatProperties, LenProperties
    <2> SUFFICES ASSUME NEW i \in DOMAIN (kept \o uses), i \notin 1 .. Len(kept)
                 PROVE  \E j \in 1 .. Len(uses) : (kept \o uses)[i] = uses[j]
        BY <2>1
    <2>2. i - Len(kept) \in 1 .. Len(uses) /\ (kept \o uses)[i] = uses[i - Len(kept)]
        BY <2>1
    <2> QED
        BY <2>2
<1> QED
    BY <1>1, <1>2, <1>5, <1>6
=============================================================================
