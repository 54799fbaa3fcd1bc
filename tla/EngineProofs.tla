---------------------------- MODULE EngineProofs ----------------------------
(***************************************************************************)
(* What is proved of module Engine, for any profiles, files and streams.   *)
(*                                                                         *)
(*   Typed     the values of the variables, all but the sign of a count    *)
(*   Orderly   what may be in progress under a call, and who has announced *)
(*             its termination                                             *)
(*   Known     only profiles that are configured are listed, subscribed,   *)
(*             or called                                                   *)
(*   InTurn    a profile has begun only if those it waits for have ended,  *)
(*             or it is about to be reset                                  *)
(*   Settled   what is outstanding, and which streams are at their end     *)
(*                                                                         *)
(* Each is shown to be kept by every step, given those before it.  The     *)
(* calls in progress are a stack: Makes(C) says that a step ends the       *)
(* innermost call and leaves the calls of C to be made in its place.       *)
(***************************************************************************)
EXTENDS Engine, SequenceTheorems, FiniteSetTheorems, WellFoundedInduction,
        TLAPS

(***************************************************************************)
(* Least numbers, and functions that are defined by recursion: over 0..N   *)
(* one is what its equation says (Recursion), for the least number at      *)
(* which it would not be (LeastOf) has one before it.                      *)
(***************************************************************************)

LEMMA LeastOf ==
    ASSUME NEW T \in SUBSET Nat, T # {}
    PROVE  \E x \in T : \A y \in T : x <= y
<1>1. PICK x \in T : \A y \in T : ~(<<y, x>> \in OpToRel(<, Nat))
    BY NatLessThanWellFounded, WFMin
<1>2. \A y \in T : ~(y < x)
    BY <1>1 DEF OpToRel
<1>3. \A y \in T : x <= y
    BY <1>2
<1> QED
    BY <1>3

LEMMA MinOf ==
    ASSUME NEW T \in SUBSET Nat, T # {}
    PROVE  Min(T) \in T /\ \A y \in T : Min(T) <= y
<1>1. \E x \in T : \A y \in T : x <= y
    BY LeastOf
<1> QED
    BY <1>1 DEF Min

\* A set of numbers that holds 0, and with each but the last the next one.
LEMMA Upward ==
    ASSUME NEW N \in Nat, NEW G, 0 \in G, \A n \in 1..N : n - 1 \in G => n \in G
    PROVE  0..N \subseteq G
<1> DEFINE T == {n \in 0..N : n \notin G}
<1>1. SUFFICES ASSUME T # {} PROVE FALSE
    OBVIOUS
<1>2. PICK n \in T : \A m \in T : n <= m
    <2>1. T \in SUBSET Nat
        OBVIOUS
    <2> HIDE DEF T
    <2> QED
        BY <1>1, <2>1, LeastOf
<1>3. n \in 1..N /\ n - 1 \in 0..N
    BY <1>2
<1>4. n - 1 \notin T
    BY <1>2, <1>3
<1> QED
    BY <1>2, <1>3, <1>4

Steps(f, N, base, g) == f = [n \in 0..N |-> IF n = 0 THEN base ELSE g[n][f[n - 1]]]

LEMMA Recursion ==
    ASSUME NEW N \in Nat, NEW S, NEW base \in S, NEW g \in [1..N -> [S -> S]]
    PROVE  \E f \in [0..N -> S] : Steps(f, N, base, g)
<1> DEFINE G == {n \in 0..N : \E f \in [0..n -> S] : Steps(f, n, base, g)}
<1>1. 0 \in G
    <2> DEFINE f == [m \in 0..0 |-> base]
    <2>1. f = [m \in 0..0 |-> IF m = 0 THEN base ELSE g[m][f[m - 1]]]
        OBVIOUS
    <2>2. Steps(f, 0, base, g) /\ f \in [0..0 -> S]
        BY <2>1 DEF Steps
    <2> QED
        BY <2>2
<1>2. ASSUME NEW n \in 1..N, n - 1 \in G PROVE n \in G
    <2>1. PICK f \in [0..n - 1 -> S] : Steps(f, n - 1, base, g)
        BY <1>2
    <2> DEFINE e == g[n][f[n - 1]]
               h == [m \in 0..n |-> IF m = n THEN e ELSE f[m]]
    <2>2. n \in Nat /\ n # 0 /\ n - 1 \in 0..n - 1 /\ f[n - 1] \in S /\ g[n] \in [S -> S] /\ e \in S
        OBVIOUS
    <2> HIDE DEF e
    <2>3. h \in [0..n -> S]
        <3>1. \A m \in 0..n : m # n => m \in 0..n - 1
            OBVIOUS
        <3> QED
            BY <2>2, <3>1
    <2>4. \A m \in 0..n : h[m] = IF m = 0 THEN base ELSE g[m][h[m - 1]]
        <3>1. TAKE m \in 0..n
        <3>2. CASE m = n
            <4>1. n \in 0..n /\ n - 1 \in 0..n /\ n - 1 # n
                BY <2>2
            <4>2. h[n] = e /\ h[n - 1] = f[n - 1]
                BY <4>1
            <4> HIDE DEF h
            <4> QED
                BY <2>2, <3>2, <4>2 DEF e
        <3>3. CASE m # n
            <4>1. m \in 0..n - 1 /\ (m # 0 => m - 1 \in 0..n /\ m - 1 # n)
                BY <3>3
            <4>2. h[m] = f[m] /\ (m # 0 => h[m - 1] = f[m - 1])
                BY <3>3, <4>1
            <4>3. f[m] = IF m = 0 THEN base ELSE g[m][f[m - 1]]
                BY <2>1, <4>1 DEF Steps
            <4> HIDE DEF h
            <4> QED
                BY <4>1, <4>2, <4>3
        <3> QED
            BY <3>2, <3>3
    <2>5. h = [m \in 0..n |-> IF m = 0 THEN base ELSE g[m][h[m - 1]]]
        BY <2>4
    <2> HIDE DEF h
    <2>6. Steps(h, n, base, g)
        BY <2>5 DEF Steps
    <2> QED
        BY <2>3, <2>6
<1> HIDE DEF G
<1>3. 0..N \subseteq G
    BY <1>1, <1>2, Upward
<1>4. N \in G
    BY <1>3
<1> QED
    BY <1>4 DEF G

(***************************************************************************)
(* Sequences of which every element goes with the ones behind it, as a     *)
(* relation R says.                                                        *)
(***************************************************************************)

Follows(q, R) == \A i, j \in DOMAIN q : i < j => q[j] \in R[q[i]]

LEMMA ToSetOf ==
    ASSUME NEW S, NEW q \in Seq(S)
    PROVE  /\ ToSet(q) \subseteq S /\ DOMAIN q = 1..Len(q) /\ Len(q) \in Nat
           /\ ToSet(q) = {q[i] : i \in 1..Len(q)}
           /\ q = <<>> <=> ToSet(q) = {}
<1>1. DOMAIN q = 1..Len(q) /\ Len(q) \in Nat /\ q \in [1..Len(q) -> S]
    BY LenProperties
<1>2. ToSet(q) = {q[i] : i \in 1..Len(q)}
    BY <1>1 DEF ToSet
<1>3. q = <<>> <=> Len(q) = 0
    BY EmptySeq
<1>4. Len(q) # 0 => 1 \in 1..Len(q)
    BY <1>1
<1> QED
    BY <1>1, <1>2, <1>3, <1>4

LEMMA NoneOf ==
    ASSUME NEW S, NEW R
    PROVE  <<>> \in Seq(S) /\ ToSet(<<>>) = {} /\ Follows(<<>>, R)
    BY EmptySeq DEF ToSet, Follows

LEMMA OneOf ==
    ASSUME NEW S, NEW x \in S, NEW R
    PROVE  <<x>> \in Seq(S) /\ ToSet(<<x>>) = {x} /\ Follows(<<x>>, R)
<1>1. <<x>> \in Seq(S) /\ DOMAIN <<x>> = {1} /\ <<x>>[1] = x
    OBVIOUS
<1> QED
    BY <1>1 DEF ToSet, Follows

\* What holds of two sequences in a row.
RunOn(S, s, t) ==
    /\ s \o t \in Seq(S) /\ ToSet(s \o t) = ToSet(s) \cup ToSet(t)
    /\ Len(s \o t) = Len(s) + Len(t)
    /\ \A R : Follows(s, R) /\ Follows(t, R)
             /\ (\A x \in ToSet(s) : \A y \in ToSet(t) : y \in R[x])
             => Follows(s \o t, R)

LEMMA ConcatRunsOn ==
    ASSUME NEW S, NEW s \in Seq(S), NEW t \in Seq(S)
    PROVE  RunOn(S, s, t)
<1> DEFINE q == s \o t
           m == Len(s)
           n == Len(t)
<1>1. /\ m \in Nat /\ DOMAIN s = 1..m /\ n \in Nat /\ DOMAIN t = 1..n
      /\ q \in Seq(S) /\ Len(q) = m + n /\ DOMAIN q = 1..m + n
      /\ \A i \in 1..m + n : q[i] = IF i <= m THEN s[i] ELSE t[i - m]
    BY ConcatProperties, LenProperties
<1> HIDE DEF q
<1>2. /\ \A i \in 1..m : i \in 1..m + n /\ q[i] = s[i]
      /\ \A i \in 1..n : i + m \in 1..m + n /\ q[i + m] = t[i]
      /\ \A i \in 1..m + n : i <= m => i \in 1..m /\ q[i] = s[i]
      /\ \A i \in 1..m + n : ~(i <= m) => i - m \in 1..n /\ q[i] = t[i - m]
    <2>1. \A i \in 1..n : i + m \in 1..m + n /\ ~(i + m <= m) /\ (i + m) - m = i
        BY <1>1
    <2>2. \A i \in 1..m : i \in 1..m + n /\ i <= m
        BY <1>1
    <2>3. \A i \in 1..m + n : (i <= m => i \in 1..m) /\ (~(i <= m) => i - m \in 1..n)
        BY <1>1
    <2> QED
        BY <1>1, <2>1, <2>2, <2>3
<1>3. ToSet(q) = ToSet(s) \cup ToSet(t)
    <2>1. ToSet(q) = {q[i] : i \in 1..m + n}
        BY <1>1 DEF ToSet
    <2>2. ToSet(s) = {s[i] : i \in 1..m} /\ ToSet(t) = {t[i] : i \in 1..n}
        BY <1>1 DEF ToSet
    <2>3. ASSUME NEW x \in ToSet(q) PROVE x \in ToSet(s) \cup ToSet(t)
        BY <1>2, <2>1, <2>2
    <2>4. ASSUME NEW x \in ToSet(s) PROVE x \in ToSet(q)
        BY <1>2, <2>1, <2>2
    <2>5. ASSUME NEW x \in ToSet(t) PROVE x \in ToSet(q)
        BY <1>2, <2>1, <2>2
    <2> QED
        BY <2>3, <2>4, <2>5
<1>4. ASSUME NEW R, Follows(s, R), Follows(t, R), \A x \in ToSet(s) : \A y \in ToSet(t) : y \in R[x],
             NEW i \in 1..m + n, NEW j \in 1..m + n, i < j
      PROVE  q[j] \in R[q[i]]
    <2>1. CASE j <= m
        <3>1. i \in 1..m /\ j \in 1..m /\ q[i] = s[i] /\ q[j] = s[j]
            BY <1>1, <1>2, <1>4, <2>1
        <3> QED
            BY <1>1, <1>4, <3>1 DEF Follows
    <2>2. CASE ~(i <= m)
        <3>1. /\ i - m \in 1..n /\ j - m \in 1..n /\ i - m < j - m
              /\ q[i] = t[i - m] /\ q[j] = t[j - m]
            BY <1>1, <1>2, <1>4, <2>2
        <3> QED
            BY <1>1, <1>4, <3>1 DEF Follows
    <2>3. CASE i <= m /\ ~(j <= m)
        <3>1. q[i] \in ToSet(s) /\ q[j] \in ToSet(t)
            BY <1>1, <1>2, <2>3 DEF ToSet
        <3> QED
            BY <1>4, <3>1
    <2> QED
        BY <1>1, <1>4, <2>1, <2>2, <2>3
<1> QED
    <2>1. ASSUME NEW R, Follows(s, R), Follows(t, R),
                 \A x \in ToSet(s) : \A y \in ToSet(t) : y \in R[x]
          PROVE  Follows(q, R)
        BY <1>1, <1>4, <2>1 DEF Follows
    <2> QED
        BY <1>1, <1>3, <2>1 DEF q, RunOn

LEMMA ConcatOf ==
    ASSUME NEW S, NEW s \in Seq(S), NEW t \in Seq(S)
    PROVE  /\ s \o t \in Seq(S) /\ ToSet(s \o t) = ToSet(s) \cup ToSet(t)
           /\ Len(s \o t) = Len(s) + Len(t)
           /\ \A R : Follows(s, R) /\ Follows(t, R)
                    /\ (\A x \in ToSet(s) : \A y \in ToSet(t) : y \in R[x])
                    => Follows(s \o t, R)
<1>1. RunOn(S, s, t)
    BY ConcatRunsOn
<1> QED
    BY <1>1 DEF RunOn

LEMMA UnionWith ==
    ASSUME NEW T, NEW x
    PROVE  UNION (T \cup {x}) = (UNION T) \cup x
    OBVIOUS

LEMMA AppendOf ==
    ASSUME NEW S, NEW q \in Seq(S), NEW x \in S
    PROVE  /\ Append(q, x) \in Seq(S) /\ ToSet(Append(q, x)) = ToSet(q) \cup {x}
<1>1. Append(q, x) = q \o <<x>> /\ <<x>> \in Seq(S) /\ ToSet(<<x>>) = {x}
    BY AppendIsConcat, OneOf
<1> QED
    <2>1. ToSet(q \o <<x>>) = ToSet(q) \cup ToSet(<<x>>) /\ q \o <<x>> \in Seq(S)
        <3>1. RunOn(S, q, <<x>>)
            BY <1>1, ConcatRunsOn
        <3> QED
            BY <3>1 DEF RunOn
    <2> QED
        BY <1>1, <2>1

LEMMA TailOf ==
    ASSUME NEW S, NEW q \in Seq(S), q # <<>>, NEW R
    PROVE  /\ Head(q) \in S /\ Tail(q) \in Seq(S) /\ ToSet(q) = {Head(q)} \cup ToSet(Tail(q))
           /\ Follows(q, R) => Follows(Tail(q), R) /\ \A y \in ToSet(Tail(q)) : y \in R[Head(q)]
<1> DEFINE t == Tail(q)
           n == Len(q) - 1
<1>1. /\ Head(q) \in S /\ t \in Seq(S) /\ Len(t) = n /\ \A i \in 1..n : t[i] = q[i + 1]
      /\ Len(q) \in Nat /\ Len(q) > 0 /\ DOMAIN q = 1..Len(q) /\ Head(q) = q[1]
    BY HeadTailProperties, LenProperties, EmptySeq
<1>2. DOMAIN t = 1..n /\ n \in Nat
    BY <1>1, LenProperties
<1> HIDE DEF t
<1>3. /\ \A i \in 1..n : i + 1 \in DOMAIN q /\ t[i] = q[i + 1]
      /\ \A i \in DOMAIN q : i # 1 => i - 1 \in 1..n /\ t[i - 1] = q[i]
      /\ 1 \in DOMAIN q
    <2>1. /\ \A i \in 1..n : i + 1 \in DOMAIN q
          /\ \A i \in DOMAIN q : i # 1 => i - 1 \in 1..n /\ (i - 1) + 1 = i
          /\ 1 \in DOMAIN q
        BY <1>1
    <2> QED
        BY <1>1, <2>1
<1>4. ToSet(q) = {Head(q)} \cup ToSet(t)
    <2>1. ToSet(q) = {q[i] : i \in DOMAIN q} /\ ToSet(t) = {t[i] : i \in 1..n}
        BY <1>2 DEF ToSet
    <2>2. ASSUME NEW x \in ToSet(q) PROVE x \in {Head(q)} \cup ToSet(t)
        BY <1>1, <1>3, <2>1, <2>2
    <2>3. ASSUME NEW x \in ToSet(t) PROVE x \in ToSet(q)
        BY <1>3, <2>1
    <2>4. Head(q) \in ToSet(q)
        BY <1>1, <1>3, <2>1
    <2> QED
        BY <2>2, <2>3, <2>4
<1>5. ASSUME Follows(q, R) PROVE Follows(t, R)
    <2>1. \A i, j \in 1..n : i < j => i + 1 < j + 1
        BY <1>2
    <2> QED
        BY <1>2, <1>3, <1>5, <2>1 DEF Follows
<1>6. ASSUME Follows(q, R), NEW y \in ToSet(t) PROVE y \in R[Head(q)]
    <2>1. PICK i \in 1..n : y = t[i]
        BY <1>2 DEF ToSet
    <2>2. 1 < i + 1
        BY <1>2
    <2> QED
        BY <1>1, <1>3, <1>6, <2>1, <2>2 DEF Follows
<1> QED
    BY <1>1, <1>4, <1>5, <1>6 DEF t

LEMMA AppendTo ==
    ASSUME NEW N \in Nat, NEW q, q = [n \in 1..N |-> q[n]], NEW e
    PROVE  /\ Len(q) = N
           /\ Append(q, e) = [n \in 1..N + 1 |-> IF n = N + 1 THEN e ELSE q[n]]
<1> DEFINE S == {q[n] : n \in 1..N} \cup {e}
<1>1. \A n \in 1..N : q[n] \in S
    OBVIOUS
<1>2. e \in S
    OBVIOUS
<1> HIDE DEF S
<1>3. q \in [1..N -> S]
    BY <1>1
<1>4. q \in Seq(S) /\ Len(q) = N
    BY <1>3, SeqDef, LenProperties
<1>5. /\ Append(q, e) \in Seq(S) /\ Len(Append(q, e)) = N + 1
      /\ \A n \in 1..N : Append(q, e)[n] = q[n]
      /\ Append(q, e)[N + 1] = e
    BY <1>2, <1>4, AppendProperties
<1>6. Append(q, e) = [n \in 1..N + 1 |-> Append(q, e)[n]]
    BY <1>5, LenProperties
<1> QED
    BY <1>4, <1>5, <1>6

InLine(q, R) ==
    /\ \A i \in DOMAIN q : Follows(q[i], R)
    /\ \A i, j \in DOMAIN q : i < j =>
          \A x \in ToSet(q[i]) : \A y \in ToSet(q[j]) : y \in R[x]

\* The sequence of sequences is put in line by a recursive function.
LEMMA FlattenOf ==
    ASSUME NEW S, NEW q \in Seq(Seq(S))
    PROVE  /\ FlattenSeq(q) \in Seq(S)
           /\ ToSet(FlattenSeq(q)) = UNION {ToSet(q[i]) : i \in DOMAIN q}
           /\ \A R : InLine(q, R) => Follows(FlattenSeq(q), R)
<1> DEFINE N == Len(q)
<1>1. N \in Nat /\ DOMAIN q = 1..N /\ \A i \in 1..N : q[i] \in Seq(S)
    BY LenProperties
<1>2. CASE N = 0
    <2>1. q = <<>> /\ DOMAIN q = {}
        BY <1>1, <1>2, EmptySeq
    <2>2. FlattenSeq(q) = <<>>
        BY <1>2, <2>1 DEF FlattenSeq
    <2>3. \A R : <<>> \in Seq(S) /\ ToSet(<<>>) = {} /\ Follows(<<>>, R)
        BY NoneOf
    <2> QED
        BY <2>1, <2>2, <2>3
<1>3. CASE N # 0
    <2> DEFINE Flattens(f) == f = [i \in 1..N |-> IF i = 1 THEN q[i] ELSE f[i - 1] \o q[i]]
               g == [n \in 1..N - 1 |-> [x \in Seq(S) |-> x \o q[n + 1]]]
    <2>1. \E f : Flattens(f)
        <3>1. 1 \in 1..N /\ N - 1 \in Nat /\ \A n \in 1..N - 1 : n + 1 \in 1..N
            BY <1>1, <1>3
        <3>2. \A n \in 1..N - 1 : [x \in Seq(S) |-> x \o q[n + 1]] \in [Seq(S) -> Seq(S)]
            BY <1>1, <3>1, ConcatProperties
        <3>3. g \in [1..N - 1 -> [Seq(S) -> Seq(S)]]
            BY <3>2
        <3>4. q[1] \in Seq(S)
            BY <1>1, <3>1
        <3> HIDE DEF g
        <3>5. PICK h \in [0..N - 1 -> Seq(S)] : Steps(h, N - 1, q[1], g)
            BY <3>1, <3>3, <3>4, Recursion
        <3> DEFINE f == [i \in 1..N |-> h[i - 1]]
        <3>6. \A i \in 1..N : f[i] = IF i = 1 THEN q[i] ELSE f[i - 1] \o q[i]
            <4>1. TAKE i \in 1..N
            <4>2. i - 1 \in 0..N - 1 /\ (i - 1 = 0 <=> i = 1) /\ (i # 1 => i - 1 \in 1..N - 1)
                BY <1>1
            <4>3. h[i - 1] = IF i - 1 = 0 THEN q[1] ELSE g[i - 1][h[(i - 1) - 1]]
                BY <3>5, <4>2 DEF Steps
            <4>4. CASE i = 1
                BY <4>2, <4>3, <4>4
            <4>5. CASE i # 1
                <5>1. /\ i - 1 \in 1..N /\ (i - 1) + 1 = i /\ (i - 1) - 1 \in 0..N - 1
                    BY <1>1, <4>5
                <5>2. g[i - 1] = [x \in Seq(S) |-> x \o q[i]]
                    BY <4>2, <4>5, <5>1 DEF g
                <5>3. f[i - 1] = h[(i - 1) - 1] /\ h[(i - 1) - 1] \in Seq(S)
                    BY <5>1
                <5> QED
                    BY <4>2, <4>3, <4>5, <5>2, <5>3
            <4> QED
                BY <4>4, <4>5
        <3>7. f = [i \in 1..N |-> IF i = 1 THEN q[i] ELSE f[i - 1] \o q[i]]
            BY <3>6
        <3> HIDE DEF f
        <3> QED
            BY <3>7
    <2> DEFINE flatten == CHOOSE f : Flattens(f)
    <2>2. Flattens(flatten)
        BY <2>1
    <2>3. FlattenSeq(q) = flatten[N]
        BY <1>3 DEF FlattenSeq
    <2> HIDE DEF flatten
    <2>4. \A i \in 1..N : flatten[i] = IF i = 1 THEN q[i] ELSE flatten[i - 1] \o q[i]
        BY <2>2
    <2> DEFINE Part(i) == {ToSet(q[j]) : j \in 1..i}
               Good(i, R) == (/\ \A k \in 1..N : Follows(q[k], R)
                              /\ \A k, j \in 1..N : k < j =>
                                   \A x \in ToSet(q[k]) : \A y \in ToSet(q[j]) : y \in R[x])
                             => Follows(flatten[i], R)
               G == {n \in 0..N - 1 : /\ flatten[n + 1] \in Seq(S)
                                     /\ ToSet(flatten[n + 1]) = UNION Part(n + 1)
                                     /\ \A R : Good(n + 1, R)}
    <2>5. 0 \in G
        <3>1. 1 \in 1..N /\ 0 \in 0..N - 1 /\ 0 + 1 = 1 /\ 1..1 = {1}
            BY <1>1, <1>3
        <3>2. flatten[1] = q[1]
            BY <2>4, <3>1
        <3>3. Part(1) = {ToSet(q[1])}
            BY <3>1
        <3> QED
            BY <1>1, <3>1, <3>2, <3>3
    <2>6. ASSUME NEW n \in 1..N - 1, n - 1 \in G PROVE n \in G
        <3>1. /\ n \in 0..N - 1 /\ n + 1 \in 1..N /\ n + 1 # 1 /\ (n + 1) - 1 = n
              /\ (n - 1) + 1 = n /\ \A j \in 1..n : j \in 1..N /\ j < n + 1
              /\ 1..n + 1 = 1..n \cup {n + 1}
            BY <1>1
        <3> DEFINE s == flatten[n]
                   t == q[n + 1]
        <3>2. s \in Seq(S) /\ ToSet(s) = UNION Part(n) /\ \A R : Good(n, R)
            BY <2>6, <3>1
        <3>3. flatten[n + 1] = s \o t /\ t \in Seq(S)
            BY <1>1, <2>4, <3>1
        <3> HIDE DEF s, t
        <3>4. /\ s \o t \in Seq(S) /\ ToSet(s \o t) = ToSet(s) \cup ToSet(t)
              /\ \A R : Follows(s, R) /\ Follows(t, R)
                       /\ (\A x \in ToSet(s) : \A y \in ToSet(t) : y \in R[x])
                       => Follows(s \o t, R)
            <4>1. s \in Seq(S) /\ t \in Seq(S)
                BY <3>2, <3>3
            <4> QED
                <5>1. RunOn(S, s, t)
                    BY <4>1, ConcatRunsOn
                <5> QED
                    BY <5>1 DEF RunOn
        <3>5. UNION Part(n + 1) = (UNION Part(n)) \cup ToSet(t)
            <4>1. Part(n + 1) = Part(n) \cup {ToSet(t)}
                BY <3>1 DEF t
            <4> HIDE DEF Part
            <4>2. UNION (Part(n) \cup {ToSet(t)}) = (UNION Part(n)) \cup ToSet(t)
                BY UnionWith
            <4> QED
                BY <4>1, <4>2
        <3>6. ASSUME NEW R PROVE Good(n + 1, R)
            <4>1. SUFFICES ASSUME \A k \in 1..N : Follows(q[k], R),
                                  \A k, j \in 1..N : k < j =>
                                   \A x \in ToSet(q[k]) : \A y \in ToSet(q[j]) : y \in R[x]
                           PROVE  Follows(s \o t, R)
                BY <3>3
            <4>2. Follows(s, R)
                BY <3>2, <4>1 DEF s
            <4>3. Follows(t, R)
                BY <3>1, <4>1 DEF t
            <4>4. ASSUME NEW x \in ToSet(s), NEW y \in ToSet(t) PROVE y \in R[x]
                <5>1. PICK j \in 1..n : x \in ToSet(q[j])
                    BY <3>2
                <5> QED
                    BY <3>1, <4>1, <5>1 DEF t
            <4> QED
                BY <3>4, <4>2, <4>3, <4>4
        <3> HIDE DEF Good, Part
        <3>7. flatten[n + 1] \in Seq(S) /\ ToSet(flatten[n + 1]) = UNION Part(n + 1)
            <4>1. flatten[n + 1] = s \o t /\ s \o t \in Seq(S)
                BY <3>3, <3>4
            <4>2. ToSet(s \o t) = ToSet(s) \cup ToSet(t) /\ ToSet(s) = UNION Part(n)
                BY <3>2, <3>4
            <4> QED
                BY <3>5, <4>1, <4>2
        <3> QED
            BY <3>1, <3>6, <3>7
    <2> HIDE DEF G
    <2>7. 0..N - 1 \subseteq G
        <3>1. N - 1 \in Nat
            BY <1>1, <1>3
        <3> QED
            BY <2>5, <2>6, <3>1, Upward
    <2>8. N - 1 \in 0..N - 1 /\ (N - 1) + 1 = N
        BY <1>1, <1>3
    <2>9. flatten[N] \in Seq(S) /\ ToSet(flatten[N]) = UNION Part(N) /\ \A R : Good(N, R)
        BY <2>7, <2>8 DEF G
    <2>10. UNION {ToSet(q[i]) : i \in DOMAIN q} = UNION Part(N)
        BY <1>1
    <2>11. ASSUME NEW R, \A i \in DOMAIN q : Follows(q[i], R),
                  \A i, j \in DOMAIN q : i < j =>
                      \A x \in ToSet(q[i]) : \A y \in ToSet(q[j]) : y \in R[x]
           PROVE  Follows(flatten[N], R)
        BY <1>1, <2>9, <2>11
    <2>12. FlattenSeq(q) \in Seq(S) /\ ToSet(FlattenSeq(q)) = UNION {ToSet(q[i]) : i \in DOMAIN q}
        BY <2>3, <2>9, <2>10
    <2>13. \A R : InLine(q, R) => Follows(FlattenSeq(q), R)
        BY <2>3, <2>11 DEF InLine
    <2> QED
        BY <2>12, <2>13
<1> QED
    BY <1>2, <1>3

\* The elements of a finite set of numbers, in ascending order.
Ascending(q, S) ==
    /\ q \in [1..Cardinality(S) -> S]
    /\ \A i, j \in DOMAIN q : i < j => q[i] < q[j]

LEMMA AscendingExists ==
    ASSUME NEW S \in SUBSET Nat, IsFiniteSet(S)
    PROVE  \E q : Ascending(q, S)
<1> DEFINE Enumerable(U) == \E q : Ascending(q, U)
           T == {n \in Nat : \E U \in SUBSET Nat : IsFiniteSet(U) /\ Cardinality(U) = n /\ ~Enumerable(U)}
<1>1. SUFFICES ASSUME T # {} PROVE FALSE
    <2>1. Cardinality(S) \in Nat
        BY FS_CardinalityType
    <2> QED
        BY <1>1, <2>1
<1>2. PICK n \in T : \A m \in T : n <= m
    <2>1. T \in SUBSET Nat
        OBVIOUS
    <2> HIDE DEF T
    <2> QED
        BY <1>1, <2>1, LeastOf
<1>3. PICK U \in SUBSET Nat : IsFiniteSet(U) /\ Cardinality(U) = n /\ ~Enumerable(U)
    BY <1>2
<1>4. U # {}
    <2>1. SUFFICES ASSUME U = {} PROVE FALSE
        OBVIOUS
    <2>2. Cardinality(U) = 0
        BY <2>1, FS_EmptySet
    <2>3. Ascending(<<>>, U)
        BY <2>1, <2>2 DEF Ascending
    <2> QED
        BY <1>3, <2>3
<1>5. PICK x \in U : \A y \in U : x <= y
    BY <1>4, LeastOf
<1> DEFINE V == U \ {x}
<1>6. IsFiniteSet(V) /\ Cardinality(V) = n - 1 /\ n - 1 \in Nat /\ V \in SUBSET Nat
    <2>1. IsFiniteSet(V) /\ Cardinality(V) = n - 1
        BY <1>3, <1>5, FS_RemoveElement
    <2> QED
        BY <2>1, FS_CardinalityType
<1>7. n - 1 \notin T
    BY <1>2, <1>6
<1>8. PICK q : Ascending(q, V)
    BY <1>6, <1>7
<1> DEFINE r == [i \in 1..n |-> IF i = 1 THEN x ELSE q[i - 1]]
<1>9. q \in [1..n - 1 -> V] /\ \A i, j \in 1..n - 1 : i < j => q[i] < q[j]
    BY <1>6, <1>8 DEF Ascending
<1>10. n \in Nat /\ \A i \in 1..n : i # 1 => i - 1 \in 1..n - 1
    BY <1>2
<1>11. \A i \in 1..n : i # 1 => q[i - 1] \in V /\ x < q[i - 1]
    <2>1. TAKE i \in 1..n
    <2>2. SUFFICES ASSUME i # 1 PROVE q[i - 1] \in V /\ x < q[i - 1]
        OBVIOUS
    <2>3. q[i - 1] \in V
        BY <1>9, <1>10, <2>2
    <2>4. q[i - 1] # x /\ x <= q[i - 1] /\ q[i - 1] \in Nat /\ x \in Nat
        BY <1>5, <2>3
    <2> QED
        BY <2>3, <2>4
<1>12. r \in [1..n -> U]
    BY <1>11
<1>13. ASSUME NEW i \in 1..n, NEW j \in 1..n, i < j PROVE r[i] < r[j]
    <2>1. j # 1 /\ r[j] = q[j - 1]
        BY <1>13
    <2>2. CASE i = 1
        BY <1>11, <2>1, <2>2
    <2>3. CASE i # 1
        <3>1. r[i] = q[i - 1] /\ i - 1 < j - 1 /\ i - 1 \in 1..n - 1 /\ j - 1 \in 1..n - 1
            BY <1>10, <1>13, <2>1, <2>3
        <3> QED
            BY <1>9, <2>1, <3>1
    <2> QED
        BY <2>2, <2>3
<1>14. Ascending(r, U)
    BY <1>3, <1>12, <1>13 DEF Ascending
<1> QED
    BY <1>3, <1>14

LEMMA AscendingOf ==
    ASSUME NEW S \in SUBSET Nat, IsFiniteSet(S), NEW q, Ascending(q, S)
    PROVE  /\ q \in Seq(S) /\ Len(q) = Cardinality(S) /\ ToSet(q) = S
           /\ \A i, j \in DOMAIN q : q[i] = q[j] => i = j
<1> DEFINE n == Cardinality(S)
<1>1. n \in Nat
    BY FS_CardinalityType
<1>2. q \in [1..n -> S] /\ DOMAIN q = 1..n /\ \A i, j \in 1..n : i < j => q[i] < q[j]
    BY DEF Ascending
<1>3. q \in Seq(S) /\ Len(q) = n
    BY <1>1, <1>2, SeqDef, LenProperties
<1>4. ASSUME NEW i \in 1..n, NEW j \in 1..n, q[i] = q[j] PROVE i = j
    <2>1. q[i] \in Nat /\ q[j] \in Nat
        BY <1>2
    <2>2. ~(i < j) /\ ~(j < i)
        BY <1>2, <1>4, <2>1
    <2> QED
        BY <2>2
<1>5. q \in Injection(1..n, S)
    BY <1>2, <1>4 DEF Injection, IsInjective
<1>6. q \in Surjection(1..n, S)
    <2>1. Cardinality(1..n) = n
        BY <1>1, FS_Interval
    <2> QED
        BY <1>5, <2>1, FS_Injection
<1>7. \A x \in S : \E i \in 1..n : q[i] = x
    BY <1>6 DEF Surjection
<1>8. ToSet(q) = S
    BY <1>2, <1>7 DEF ToSet
<1> QED
    BY <1>2, <1>3, <1>4, <1>8

-----------------------------------------------------------------------------
(* Values *)

\* TypeOK, but for the counts of masters, which the last part shows to be natural.
Typed ==
    /\ conf \in Configs /\ owner \in [Ids -> Masters]
    /\ time \in Nat /\ due \in Nat \cup {Never} /\ plays \in Nat
    /\ nextTimes \subseteq Nat /\ locked \in BOOLEAN
    /\ waited \in [Ids -> SUBSET Events]
    /\ waitEventMap \subseteq Subscriptions
    /\ activeList \in Seq(Ids) /\ todo \in Seq(Calls)
    /\ emitted \in [Ids -> [Categories -> [type : Types \cup {"NONE"}, time : Nat]]]
    /\ nonTerminated \in [Masters -> Int]
    /\ started \in [Ids -> BOOLEAN]
    /\ terminated \in [Ids -> BOOLEAN]
    /\ halted \in [Ids -> BOOLEAN]
    /\ startTime \in [Ids -> Nat]
    /\ sent \in [Ids -> Nat]
    /\ waitedResponse \in [Ids -> Nat]
    /\ discards \in [Ids -> Nat]
    /\ ot \in [Ids -> Int]
    /\ streamCache \in [Ids -> [nodes : Seq(Ids), leaves : SUBSET Ids]]
    /\ activeStreams \subseteq Ids

-----------------------------------------------------------------------------
(* Configurations *)

LEMMA ConfOf ==
    ASSUME conf \in Configs, NEW p \in Ids
    PROVE  /\ conf.files \in Seq(Seq(Ids)) /\ conf.roots \subseteq Ids /\ conf.autoReset \in BOOLEAN
           /\ Of(p).role \in Roles /\ Of(p).owner \in Masters
           /\ Of(p).waits \subseteq Events /\ Of(p).watches \subseteq Ids
           /\ Of(p).toSend \in Nat /\ Of(p).toStop \in Nat /\ Of(p).maxOt \in Nat
           /\ Of(p).posted \in BOOLEAN /\ Of(p).delay \in Nat
<1>1. conf \in Configuration
    BY ConfigsAssumption
<1>2. conf.profile \in [Ids -> Profile]
    BY <1>1 DEF Configuration
<1>3. conf.profile[p] \in Profile
    BY <1>2
<1> QED
    BY <1>1, <1>3 DEF Configuration, Profile, Of

-----------------------------------------------------------------------------
(* The calls in progress *)

\* The calls under the one that runs.
Rest == ToSet(Tail(todo))

LEMMA CallsOf ==
    /\ \A t \in Types, p \in Ids : Emit(t, p) \in Calls
    /\ \A e \in Events, U \in SUBSET Ids : Notify(e, U) \in Calls
    /\ \A o \in {"configure", "reset", "answered"}, p \in Ids : On(o, p) \in Calls
    /\ \A k \in {"send", "receive"}, U \in SUBSET Ids : Check(k, U) \in Calls
    /\ \A n \in Nat \ {0} : Walk(n) \in Calls
    /\ \A U \in SUBSET Ids : Ask(U) \in Calls
    /\ Cache \in Calls
<1>1. \A t \in Types, p \in Ids : Emit(t, p) \in Calls
    BY DEF Calls, Emit
<1>2. \A e \in Events, U \in SUBSET Ids : Notify(e, U) \in Calls
    BY DEF Calls, Notify
<1>3. \A o \in {"configure", "reset", "answered"}, p \in Ids : On(o, p) \in Calls
    BY DEF Calls, On
<1>4. \A k \in {"send", "receive"}, U \in SUBSET Ids : Check(k, U) \in Calls
    BY DEF Calls, Check
<1>5. \A n \in Nat \ {0} : Walk(n) \in Calls
    BY DEF Calls, Walk
<1>6. \A U \in SUBSET Ids : Ask(U) \in Calls
    BY DEF Calls, Ask
<1>7. Cache \in Calls
    BY DEF Calls
<1> QED
    BY <1>1, <1>2, <1>3, <1>4, <1>5, <1>6, <1>7

LEMMA CallsAre ==
    ASSUME NEW c \in Calls
    PROVE  /\ c.op \in {"emit", "notify", "configure", "reset", "answered", "check", "walk",
                        "streams", "cache"}
           /\ c.op = "emit" => c.type \in Types /\ c.profile \in Ids /\ c = Emit(c.type, c.profile)
           /\ c.op = "notify" => c.event \in Events /\ c.to \subseteq Ids /\ c = Notify(c.event, c.to)
           /\ c.op \in {"configure", "reset", "answered"} => c.profile \in Ids /\ c = On(c.op, c.profile)
           /\ c.op = "check" => c.kind \in {"send", "receive"} /\ c.to \subseteq Ids
           /\ c.op = "walk" => c.at \in Nat \ {0}
           /\ c.op = "streams" => c.left \subseteq Ids
<1>1. CASE c \in [op : {"emit"}, type : Types, profile : Ids]
    BY <1>1 DEF Emit
<1>2. CASE c \in [op : {"notify"}, event : Events, to : SUBSET Ids]
    BY <1>2 DEF Notify
<1>3. CASE c \in [op : {"configure", "reset", "answered"}, profile : Ids]
    BY <1>3 DEF On
<1>4. CASE c \in [op : {"check"}, kind : {"send", "receive"}, to : SUBSET Ids]
    BY <1>4
<1>5. CASE c \in [op : {"walk"}, at : Nat \ {0}]
    BY <1>5
<1>6. CASE c \in [op : {"streams"}, left : SUBSET Ids]
    BY <1>6
<1>7. CASE c = Cache
    BY <1>7 DEF Cache
<1> QED
    BY <1>1, <1>2, <1>3, <1>4, <1>5, <1>6, <1>7 DEF Calls

LEMMA RunningOf ==
    ASSUME todo \in Seq(Calls), NEW op, Running(op)
    PROVE  /\ todo # <<>> /\ Head(todo) \in Calls /\ Head(todo).op = op
           /\ Tail(todo) \in Seq(Calls) /\ Rest \subseteq Calls
           /\ InProgress = {Head(todo)} \cup Rest
<1>1. todo # <<>> /\ Head(todo).op = op
    BY DEF Running
<1>2. /\ Head(todo) \in Calls /\ Tail(todo) \in Seq(Calls)
      /\ ToSet(todo) = {Head(todo)} \cup ToSet(Tail(todo))
    BY <1>1, TailOf
<1>3. ToSet(Tail(todo)) \subseteq Calls
    BY <1>2, ToSetOf
<1>4. InProgress = ToSet(todo)
    BY DEF InProgress, ToSet
<1> QED
    BY <1>1, <1>2, <1>3, <1>4 DEF Rest

LEMMA ThenOf ==
    ASSUME todo \in Seq(Calls), todo # <<>>, NEW calls \in Seq(Calls), Then(calls)
    PROVE  todo' \in Seq(Calls) /\ InProgress' = ToSet(calls) \cup Rest
<1>1. Tail(todo) \in Seq(Calls)
    BY TailOf
<1>2. ToSet(calls \o Tail(todo)) = ToSet(calls) \cup ToSet(Tail(todo)) /\ calls \o Tail(todo) \in Seq(Calls)
    <2>1. RunOn(Calls, calls, Tail(todo))
        BY <1>1, ConcatRunsOn
    <2> QED
        BY <2>1 DEF RunOn
<1>3. InProgress' = ToSet(todo')
    BY DEF InProgress, ToSet
<1> QED
    BY <1>2, <1>3 DEF Then, Rest

-----------------------------------------------------------------------------
(* What may be in progress under what: a under call b, for one that runs a. *)

Load(c) == c.op \in {"configure", "cache"}
Resets(c) == c.op \in {"reset", "streams"}
Activates(c) ==
    \/ c.op = "emit" /\ c.type = "ACTIVATION"
    \/ c.op = "notify" /\ c.event.type = "ACTIVATION"

Speaks(c) ==
    \/ c.op = "emit" /\ c.type # "ACTIVATION"
    \/ c.op = "notify" /\ c.event.type # "ACTIVATION"

\* A master or a delay that waits for no profile.
Free(p) == Of(p).role # "checker" /\ ~Waiting(Of(p).waits, "PROFILE")
FreeStart(c) == \E p \in Ids : Free(p) /\ c = Emit("ACTIVATION", p)

FitsOver(a, b) ==
    /\ a.op \notin {"walk", "streams", "answered"} /\ b.op # "answered"
    /\ Load(a) => Load(b)
    /\ Load(b) => Load(a) \/ Activates(a)
    /\ Resets(a) => Resets(b) \/ FreeStart(b)
    /\ Resets(b) => Resets(a) \/ Activates(a)
    /\ a.op = "configure" => b # a
    /\ a.op = "configure" /\ b.op = "configure" => Precedes(conf, a.profile, b.profile)
    /\ Speaks(a) => b.op \in {"check", "walk"}
    /\ a.op = "check" => b.op = "walk"
    /\ conf.autoReset /\ Len(conf.files) <= 1 => a.op # "cache"

Under == [a \in Calls |-> {b \in Calls : FitsOver(a, b)}]

\* The calls made next are those of C, and fit each other.
Makes(C) ==
    /\ todo # <<>>
    /\ \E calls \in Seq(Calls) : Then(calls) /\ ToSet(calls) = C /\ Follows(calls, Under)

LEMMA UnderOf ==
    ASSUME NEW b \in Calls
    PROVE  /\ \A p \in Ids : b.op # "answered" => b \in Under[Emit("ACTIVATION", p)]
           /\ \A t \in Types \ {"ACTIVATION"}, p \in Ids :
                 b.op \in {"check", "walk"} => b \in Under[Emit(t, p)]
           /\ \A U \in SUBSET Ids, k \in {"send", "receive"} :
                 b.op = "walk" => b \in Under[Check(k, U)]
           /\ \A p \in Ids :
                 b.op \in {"reset", "streams"} \/ FreeStart(b) => b \in Under[On("reset", p)]
<1>1. ASSUME NEW p \in Ids, b.op # "answered" PROVE b \in Under[Emit("ACTIVATION", p)]
    <2>1. Emit("ACTIVATION", p) \in Calls
        BY CallsOf DEF Types
    <2>2. FitsOver(Emit("ACTIVATION", p), b)
        BY <1>1 DEF FitsOver, Emit, Load, Resets, Activates, Speaks
    <2> QED
        BY <2>1, <2>2 DEF Under
<1>2. ASSUME NEW t \in Types \ {"ACTIVATION"}, NEW p \in Ids, b.op \in {"check", "walk"}
      PROVE  b \in Under[Emit(t, p)]
    <2>1. Emit(t, p) \in Calls
        BY CallsOf
    <2>2. FitsOver(Emit(t, p), b)
        BY <1>2 DEF FitsOver, Emit, Load, Resets, Activates, Speaks
    <2> QED
        BY <2>1, <2>2 DEF Under
<1>3. ASSUME NEW U \in SUBSET Ids, NEW k \in {"send", "receive"}, b.op = "walk"
      PROVE  b \in Under[Check(k, U)]
    <2>1. Check(k, U) \in Calls
        BY CallsOf
    <2>2. FitsOver(Check(k, U), b)
        BY <1>3 DEF FitsOver, Check, Load, Resets, Activates, Speaks
    <2> QED
        BY <2>1, <2>2 DEF Under
<1>4. ASSUME NEW p \in Ids, b.op \in {"reset", "streams"} \/ FreeStart(b)
      PROVE  b \in Under[On("reset", p)]
    <2>1. On("reset", p) \in Calls
        BY CallsOf
    <2>2. b.op \in {"reset", "streams", "emit"}
        BY <1>4 DEF FreeStart, Emit
    <2>3. FitsOver(On("reset", p), b)
        BY <1>4, <2>2 DEF FitsOver, On, Load, Resets, Activates, Speaks
    <2> QED
        BY <2>1, <2>3 DEF Under
<1> QED
    BY <1>1, <1>2, <1>3, <1>4

LEMMA MaybeOf ==
    ASSUME NEW x \in Calls, NEW b \in BOOLEAN
    PROVE  /\ (IF b THEN <<x>> ELSE <<>>) \in Seq(Calls)
           /\ ToSet(IF b THEN <<x>> ELSE <<>>) = IF b THEN {x} ELSE {}
           /\ Follows(IF b THEN <<x>> ELSE <<>>, Under)
    BY OneOf, NoneOf

LEMMA EachOf ==
    ASSUME NEW op \in {"configure", "reset"}, NEW nodes \in Seq(Ids)
    PROVE  /\ Each(op, nodes) \in Seq(Calls)
           /\ ToSet(Each(op, nodes)) = {On(op, p) : p \in ToSet(nodes)}
           /\ DOMAIN Each(op, nodes) = DOMAIN nodes
           /\ op = "reset" => Follows(Each(op, nodes), Under)
<1> DEFINE s == Each(op, nodes)
<1>1. DOMAIN nodes = 1..Len(nodes) /\ Len(nodes) \in Nat /\ \A i \in DOMAIN nodes : nodes[i] \in Ids
    BY LenProperties
<1>2. s = [i \in 1..Len(nodes) |-> On(op, nodes[i])]
    BY <1>1 DEF Each
<1>3. \A i \in 1..Len(nodes) : On(op, nodes[i]) \in Calls
    BY <1>1, CallsOf
<1>4. s \in [1..Len(nodes) -> Calls]
    BY <1>2, <1>3
<1>5. s \in Seq(Calls)
    BY <1>1, <1>4, SeqDef
<1>6. ToSet(s) = {On(op, p) : p \in ToSet(nodes)}
    BY <1>1, <1>2 DEF ToSet
<1>7. ASSUME op = "reset" PROVE Follows(s, Under)
    <2>1. \A i, j \in 1..Len(nodes) : On(op, nodes[j]) \in Under[On(op, nodes[i])]
        <3>1. \A j \in 1..Len(nodes) : On(op, nodes[j]).op = "reset"
            BY <1>7 DEF On
        <3> QED
            BY <1>1, <1>3, <1>7, <3>1, UnderOf
    <2> QED
        BY <1>2, <2>1 DEF Follows
<1> HIDE DEF s
<1> QED
    BY <1>1, <1>2, <1>5, <1>6, <1>7 DEF s

LEMMA ChecksOf ==
    ASSUME conf \in Configs, NEW p \in Ids, NEW kind \in {"send", "receive"}
    PROVE  /\ Checks(kind, p) \in Seq(Calls)
           /\ ToSet(Checks(kind, p)) = IF CheckersOf(p) = {} THEN {} ELSE {Check(kind, CheckersOf(p))}
           /\ Follows(Checks(kind, p), Under)
<1>1. CheckersOf(p) \in SUBSET Ids
    BY DEF CheckersOf
<1>2. Check(kind, CheckersOf(p)) \in Calls
    BY <1>1, CallsOf
<1> DEFINE b == CheckersOf(p) # {}
<1>3. Checks(kind, p) = IF b THEN <<Check(kind, CheckersOf(p))>> ELSE <<>>
    BY DEF Checks
<1> QED
    BY <1>2, <1>3, MaybeOf

LEMMA OrderedOf ==
    ASSUME NEW S \in SUBSET Ids
    PROVE  /\ Ordered(S) \in Seq(Ids) /\ ToSet(Ordered(S)) = S
           /\ \A i, j \in DOMAIN Ordered(S) : Ordered(S)[i] = Ordered(S)[j] => i = j
<1>1. S \in SUBSET Nat /\ IsFiniteSet(S)
    BY IdsAssumption, FS_Subset
<1> DEFINE q == Ordered(S)
<1>2. Ascending(q, S)
    <2>1. \E r \in [1..Cardinality(S) -> S] : \A i, j \in DOMAIN r : i < j => r[i] < r[j]
        BY <1>1, AscendingExists DEF Ascending
    <2> QED
        BY <2>1 DEF Ordered, Ascending
<1>3. /\ q \in Seq(S) /\ ToSet(q) = S
      /\ \A i, j \in DOMAIN q : q[i] = q[j] => i = j
    BY <1>1, <1>2, AscendingOf
<1>4. q \in Seq(Ids)
    BY <1>3, SeqMonotonic
<1> QED
    BY <1>3, <1>4

-----------------------------------------------------------------------------
(* The calls each action makes. *)

LEMMA NoCalls ==
    ASSUME Typed, todo # <<>>, Then(<<>>)
    PROVE  Makes({})
<1>1. <<>> \in Seq(Calls) /\ ToSet(<<>>) = {} /\ Follows(<<>>, Under)
    BY NoneOf
<1> QED
    BY <1>1 DEF Makes

LEMMA OneCall ==
    ASSUME Typed, todo # <<>>, NEW c \in Calls, Then(<<c>>)
    PROVE  Makes({c})
<1>1. <<c>> \in Seq(Calls) /\ ToSet(<<c>>) = {c} /\ Follows(<<c>>, Under)
    BY OneOf
<1> QED
    BY <1>1 DEF Makes

LEMMA Joins ==
    ASSUME todo # <<>>, NEW s \in Seq(Calls), NEW t \in Seq(Calls), Then(s \o t),
           Follows(s, Under), Follows(t, Under),
           \A x \in ToSet(s) : \A y \in ToSet(t) : y \in Under[x]
    PROVE  Makes(ToSet(s) \cup ToSet(t))
<1>1. /\ s \o t \in Seq(Calls) /\ ToSet(s \o t) = ToSet(s) \cup ToSet(t)
      /\ Follows(s \o t, Under)
    BY ConcatOf
<1> QED
    BY <1>1 DEF Makes

LEMMA ConfigureMakes ==
    ASSUME Typed, Configure
    PROVE  LET p == Head(todo).profile IN
           /\ p \in Ids /\ Head(todo) = On("configure", p)
           /\ Makes(IF Free(p) THEN {Emit("ACTIVATION", p)} ELSE {})
<1> DEFINE p == Head(todo).profile
<1>1. todo # <<>> /\ p \in Ids /\ Head(todo) = On("configure", p)
    <2>1. Running("configure") /\ todo \in Seq(Calls)
        BY DEF Configure, Typed
    <2> QED
        BY <2>1, RunningOf, CallsAre
<1>2. Then(IF Free(p) THEN <<Emit("ACTIVATION", p)>> ELSE <<>>)
    BY DEF Configure, Free
<1>3. Emit("ACTIVATION", p) \in Calls
    BY <1>1, CallsOf DEF Types
<1> QED
    BY <1>1, <1>2, <1>3, NoCalls, OneCall

LEMMA HearsMakes ==
    ASSUME Typed, NEW p \in Ids, Hears(p), NEW b \in BOOLEAN,
           Then((IF b THEN <<Emit("ACTIVATION", p)>> ELSE <<>>) \o <<StillToHear(p)>>)
    PROVE  LET ev == Head(todo).event
               to == Head(todo).to IN
           /\ ev \in Events /\ to \subseteq Ids /\ p \in to /\ Head(todo) = Notify(ev, to)
           /\ Makes((IF b THEN {Emit("ACTIVATION", p)} ELSE {}) \cup {Notify(ev, to \ {p})})
<1> DEFINE ev == Head(todo).event
           to == Head(todo).to
           s == IF b THEN <<Emit("ACTIVATION", p)>> ELSE <<>>
           c == Notify(ev, to \ {p})
<1>1. todo # <<>> /\ p \in to /\ ev \in Events /\ to \subseteq Ids /\ Head(todo) = Notify(ev, to)
    <2>1. Running("notify") /\ todo \in Seq(Calls) /\ p \in to
        BY DEF Hears, Typed
    <2> QED
        BY <2>1, RunningOf, CallsAre
<1>2. Emit("ACTIVATION", p) \in Calls /\ c \in Calls /\ c.op # "answered"
    BY <1>1, CallsOf DEF Types, Notify
<1>3. /\ s \in Seq(Calls) /\ ToSet(s) = (IF b THEN {Emit("ACTIVATION", p)} ELSE {})
      /\ Follows(s, Under)
    BY <1>2, MaybeOf
<1>4. <<c>> \in Seq(Calls) /\ ToSet(<<c>>) = {c} /\ Follows(<<c>>, Under)
    BY <1>2, OneOf
<1>5. c \in Under[Emit("ACTIVATION", p)]
    BY <1>2, UnderOf
<1>6. Then(s \o <<c>>)
    BY DEF StillToHear
<1> HIDE DEF s, c
<1>7. Makes(ToSet(s) \cup ToSet(<<c>>))
    <2>1. \A x \in ToSet(s) : \A y \in ToSet(<<c>>) : y \in Under[x]
        BY <1>3, <1>4, <1>5
    <2> QED
        BY <1>1, <1>3, <1>4, <1>6, <2>1, Joins
<1>8. ToSet(s) = (IF b THEN {Emit("ACTIVATION", p)} ELSE {}) /\ ToSet(<<c>>) = {c}
    BY <1>3, <1>4
<1> QED
    BY <1>1, <1>7, <1>8 DEF c

LEMMA JoinOf ==
    ASSUME NEW s \in Seq(Calls), NEW t \in Seq(Calls), Follows(s, Under), Follows(t, Under),
           \A x \in ToSet(s) : \A y \in ToSet(t) : y \in Under[x]
    PROVE  /\ s \o t \in Seq(Calls) /\ ToSet(s \o t) = ToSet(s) \cup ToSet(t)
           /\ Follows(s \o t, Under)
    BY ConcatOf

LEMMA PairOf ==
    ASSUME NEW x \in Calls, NEW y \in Calls, y \in Under[x]
    PROVE  <<x, y>> \in Seq(Calls) /\ ToSet(<<x, y>>) = {x, y} /\ Follows(<<x, y>>, Under)
<1>1. /\ <<x, y>> \in Seq(Calls) /\ DOMAIN <<x, y>> = 1..2
      /\ <<x, y>>[1] = x /\ <<x, y>>[2] = y
    OBVIOUS
<1>2. ToSet(<<x, y>>) = {x, y}
    BY <1>1 DEF ToSet
<1>3. \A i, j \in 1..2 : i < j => i = 1 /\ j = 2
    OBVIOUS
<1> QED
    BY <1>1, <1>2, <1>3 DEF Follows

LEMMA AnnouncesOf ==
    ASSUME NEW p \in Ids, NEW b \in BOOLEAN, NEW d \in BOOLEAN, NEW t \in Types \ {"ACTIVATION"}
    PROVE  LET s == (IF b THEN <<Emit("ACTIVATION", p)>> ELSE <<>>)
                    \o (IF d THEN <<Emit(t, p)>> ELSE <<>>)
           IN /\ s \in Seq(Calls) /\ Follows(s, Under)
              /\ ToSet(s) = (IF b THEN {Emit("ACTIVATION", p)} ELSE {})
                            \cup (IF d THEN {Emit(t, p)} ELSE {})
<1> DEFINE u == IF b THEN <<Emit("ACTIVATION", p)>> ELSE <<>>
           v == IF d THEN <<Emit(t, p)>> ELSE <<>>
<1>1. Emit("ACTIVATION", p) \in Calls /\ Emit(t, p) \in Calls /\ Emit(t, p).op = "emit"
    BY CallsOf DEF Types, Emit
<1>2. /\ u \in Seq(Calls) /\ Follows(u, Under)
      /\ ToSet(u) = IF b THEN {Emit("ACTIVATION", p)} ELSE {}
    BY <1>1, MaybeOf
<1>3. /\ v \in Seq(Calls) /\ Follows(v, Under)
      /\ ToSet(v) = IF d THEN {Emit(t, p)} ELSE {}
    BY <1>1, MaybeOf
<1>4. Emit(t, p) \in Under[Emit("ACTIVATION", p)]
    BY <1>1, UnderOf
<1> HIDE DEF u, v
<1>5. \A x \in ToSet(u) : \A y \in ToSet(v) : y \in Under[x]
    BY <1>2, <1>3, <1>4
<1>6. u \o v \in Seq(Calls) /\ ToSet(u \o v) = ToSet(u) \cup ToSet(v) /\ Follows(u \o v, Under)
    BY <1>2, <1>3, <1>5, JoinOf
<1>7. ToSet(u \o v) = (IF b THEN {Emit("ACTIVATION", p)} ELSE {})
                      \cup (IF d THEN {Emit(t, p)} ELSE {})
    BY <1>2, <1>3, <1>6
<1> QED
    BY <1>6, <1>7 DEF u, v

\* The walk goes on after the events and the checks of the profile it polled.
LEMMA WalkOf ==
    ASSUME todo # <<>>, NEW s \in Seq(Calls), Follows(s, Under), NEW n \in Nat \ {0},
           \A x \in ToSet(s) : \/ \E t \in Types, p \in Ids : x = Emit(t, p)
                               \/ \E U \in SUBSET Ids : x = Check("send", U),
           Then(s \o <<Walk(n)>>)
    PROVE  Makes(ToSet(s) \cup {Walk(n)})
<1>1. Walk(n) \in Calls /\ Walk(n).op = "walk"
    BY CallsOf DEF Walk
<1>2. \A x \in ToSet(s) : Walk(n) \in Under[x]
    <2>1. \A t \in Types, p \in Ids : Walk(n) \in Under[Emit(t, p)]
        <3>1. \A p \in Ids : Walk(n) \in Under[Emit("ACTIVATION", p)]
            BY <1>1, UnderOf
        <3>2. \A t \in Types \ {"ACTIVATION"}, p \in Ids :
                  Walk(n) \in Under[Emit(t, p)]
            BY <1>1, UnderOf
        <3> QED
            BY <3>1, <3>2
    <2>2. \A U \in SUBSET Ids : Walk(n) \in Under[Check("send", U)]
        BY <1>1, UnderOf
    <2> QED
        BY <2>1, <2>2
<1>3. <<Walk(n)>> \in Seq(Calls) /\ ToSet(<<Walk(n)>>) = {Walk(n)} /\ Follows(<<Walk(n)>>, Under)
    BY <1>1, OneOf
<1>4. Makes(ToSet(s) \cup ToSet(<<Walk(n)>>))
    BY <1>2, <1>3, Joins
<1> QED
    BY <1>3, <1>4

LEMMA PollsOf ==
    ASSUME Typed, NEW role, Polls(role)
    PROVE  /\ todo # <<>> /\ Polled \in Ids /\ Of(Polled).role = role
           /\ Head(todo).at \in Nat \ {0} /\ Head(todo) = Walk(Head(todo).at)
           /\ Head(todo).at + 1 \in Nat \ {0} /\ Onward = Walk(Head(todo).at + 1)
           /\ Polled \in ToSet(activeList)
<1> DEFINE at == Head(todo).at
<1>1. todo # <<>> /\ Head(todo) \in Calls /\ Head(todo).op = "walk"
    <2>1. Running("walk") /\ todo \in Seq(Calls)
        BY DEF Polls, Typed
    <2> QED
        BY <2>1, RunningOf
<1>2. at \in Nat \ {0} /\ Head(todo) = Walk(at)
    BY <1>1 DEF Calls, Walk, Cache
<1>3. at \in 1..Len(activeList) /\ activeList \in Seq(Ids)
    BY <1>2 DEF Polls, Typed
<1>4. activeList[at] \in Ids /\ activeList[at] \in ToSet(activeList)
    BY <1>3, ToSetOf
<1> QED
    BY <1>1, <1>2, <1>4 DEF Polls, Polled, Onward

LEMMA MasterSendsMakes ==
    ASSUME Typed, MasterSends
    PROVE  LET p == Polled IN
           /\ p \in Ids /\ Of(p).role = "master" /\ Head(todo).op = "walk"
           /\ Makes((IF ~started[p] THEN {Emit("ACTIVATION", p)} ELSE {})
                    \cup {Emit("PROFILE_UNLOCKED", p)}
                    \cup (IF CheckersOf(p) = {} THEN {} ELSE {Check("send", CheckersOf(p))})
                    \cup {Head(todo)})
<1> DEFINE p == Polled
           n == Head(todo).at
           s == FirstActivation(p) \o <<Emit("PROFILE_UNLOCKED", p)>>
           k == Checks("send", p)
<1>1. /\ todo # <<>> /\ p \in Ids /\ Of(p).role = "master" /\ n \in Nat \ {0}
      /\ Head(todo) = Walk(n) /\ Head(todo).op = "walk"
    <2>1. Polls("master")
        BY DEF MasterSends
    <2> QED
        BY <2>1, PollsOf DEF Walk
<1>2. /\ s \in Seq(Calls) /\ Follows(s, Under)
      /\ ToSet(s) = (IF ~started[p] THEN {Emit("ACTIVATION", p)} ELSE {}) \cup {Emit("PROFILE_UNLOCKED", p)}
    <2>1. (~started[p]) \in BOOLEAN /\ TRUE \in BOOLEAN /\ "PROFILE_UNLOCKED" \in Types \ {"ACTIVATION"}
        BY DEF Types
    <2>2. s = (IF ~started[p] THEN <<Emit("ACTIVATION", p)>> ELSE <<>>)
              \o (IF TRUE THEN <<Emit("PROFILE_UNLOCKED", p)>> ELSE <<>>)
        BY DEF FirstActivation
    <2>3. /\ s \in Seq(Calls) /\ Follows(s, Under)
          /\ ToSet(s) = (IF ~started[p] THEN {Emit("ACTIVATION", p)} ELSE {})
                        \cup (IF TRUE THEN {Emit("PROFILE_UNLOCKED", p)} ELSE {})
        <3> DEFINE b == ~started[p]
        <3>1. b \in BOOLEAN /\ TRUE \in BOOLEAN
            OBVIOUS
        <3> HIDE DEF b
        <3>2. LET sb == (IF b THEN <<Emit("ACTIVATION", p)>> ELSE <<>>)
                        \o (IF TRUE THEN <<Emit("PROFILE_UNLOCKED", p)>> ELSE <<>>)
              IN /\ sb \in Seq(Calls) /\ Follows(sb, Under)
                 /\ ToSet(sb) = (IF b THEN {Emit("ACTIVATION", p)} ELSE {})
                                 \cup (IF TRUE THEN {Emit("PROFILE_UNLOCKED", p)} ELSE {})
            BY <1>1, <2>1, <3>1, AnnouncesOf
        <3> QED
            BY <2>2, <3>2 DEF b
    <2> QED
        BY <2>3
<1>3. /\ k \in Seq(Calls) /\ Follows(k, Under)
      /\ ToSet(k) = IF CheckersOf(p) = {} THEN {} ELSE {Check("send", CheckersOf(p))}
    BY <1>1, ChecksOf DEF Typed
<1>4. Then((s \o k) \o <<Walk(n)>>)
    BY <1>1 DEF MasterSends
<1>5. CheckersOf(p) \in SUBSET Ids /\ Check("send", CheckersOf(p)).op = "check"
    BY DEF CheckersOf, Check
<1>6. Check("send", CheckersOf(p)) \in Calls
    BY <1>5, CallsOf
<1>7. \A x \in {Emit("ACTIVATION", p), Emit("PROFILE_UNLOCKED", p)} :
          Check("send", CheckersOf(p)) \in Under[x]
    <2>1. "PROFILE_UNLOCKED" \in Types \ {"ACTIVATION"} /\ "PROFILE_UNLOCKED" # "TERMINATION"
        BY DEF Types
    <2> QED
        BY <1>1, <1>5, <1>6, <2>1, UnderOf
<1> HIDE DEF s, k
<1>8. /\ s \o k \in Seq(Calls) /\ ToSet(s \o k) = ToSet(s) \cup ToSet(k)
      /\ Follows(s \o k, Under)
    <2>1. \A x \in ToSet(s) : \A y \in ToSet(k) : y \in Under[x]
        BY <1>2, <1>3, <1>7
    <2> QED
        BY <1>2, <1>3, <2>1, JoinOf
<1>9. \A x \in ToSet(s \o k) : \/ \E t \in Types, q \in Ids : x = Emit(t, q)
                               \/ \E U \in SUBSET Ids : x = Check("send", U)
    <2>1. "PROFILE_UNLOCKED" \in Types /\ "ACTIVATION" \in Types
        BY DEF Types
    <2> QED
        BY <1>1, <1>2, <1>3, <1>5, <1>8, <2>1
<1>10. Makes(ToSet(s \o k) \cup {Walk(n)})
    BY <1>1, <1>4, <1>8, <1>9, WalkOf
<1> QED
    BY <1>1, <1>2, <1>3, <1>8, <1>10

LEMMA MasterRefusedMakes ==
    ASSUME Typed, MasterRefused
    PROVE  LET p == Polled IN
           /\ p \in Ids /\ Of(p).role = "master" /\ Head(todo).op = "walk"
           /\ \E n \in Nat \ {0} : n = Head(todo).at + 1 /\
                 Makes((IF ~started[p] THEN {Emit("ACTIVATION", p)} ELSE {})
                       \cup {Emit("PROFILE_LOCKED", p)} \cup {Walk(n)})
<1> DEFINE p == Polled
           n == Head(todo).at + 1
           x == Emit("ACTIVATION", p)
           y == Emit("PROFILE_LOCKED", p)
           s == IF ~started[p] THEN <<x>> ELSE <<>>
           t == <<y, Walk(n)>>
<1>1. /\ todo # <<>> /\ p \in Ids /\ Of(p).role = "master" /\ n \in Nat \ {0}
      /\ Onward = Walk(n) /\ Head(todo).op = "walk"
    <2>1. Polls("master")
        BY DEF MasterRefused
    <2> QED
        BY <2>1, PollsOf DEF Walk
<1>2. Then(s \o t)
    BY <1>1 DEF MasterRefused, FirstActivation
<1>3. "PROFILE_LOCKED" \in Types \ {"ACTIVATION"} /\ "ACTIVATION" \in Types
    BY DEF Types
<1>4. /\ x \in Calls /\ y \in Calls /\ y.op = "emit"
      /\ Walk(n) \in Calls /\ Walk(n).op = "walk" /\ Walk(n) # y
    <2>1. x \in Calls /\ y \in Calls /\ Walk(n) \in Calls
        BY <1>1, <1>3, CallsOf
    <2> QED
        BY <2>1 DEF Emit, Walk
<1>5. Walk(n) \in Under[y] /\ y \in Under[x] /\ Walk(n) \in Under[x]
    BY <1>1, <1>3, <1>4, UnderOf
<1>6. /\ s \in Seq(Calls) /\ Follows(s, Under)
      /\ ToSet(s) = IF ~started[p] THEN {x} ELSE {}
    <2>1. (~started[p]) \in BOOLEAN
        OBVIOUS
    <2> HIDE DEF x
    <2> QED
        BY <1>4, <2>1, MaybeOf
<1>7. t \in Seq(Calls) /\ ToSet(t) = {y, Walk(n)} /\ Follows(t, Under)
    BY <1>4, <1>5, PairOf
<1> HIDE DEF s, t, x, y
<1>8. Makes(ToSet(s) \cup ToSet(t))
    <2>1. \A u \in ToSet(s) : \A v \in ToSet(t) : v \in Under[u]
        BY <1>5, <1>6, <1>7
    <2> QED
        BY <1>1, <1>2, <1>6, <1>7, <2>1, Joins
<1>9. ToSet(s) \cup ToSet(t) = (IF ~started[p] THEN {x} ELSE {}) \cup {y} \cup {Walk(n)}
    BY <1>6, <1>7
<1> QED
    BY <1>1, <1>8, <1>9 DEF x, y

LEMMA MasterIdleMakes ==
    ASSUME Typed, MasterIdle
    PROVE  LET p == Polled
               ends == Terminates(p, ot[p]) IN
           /\ p \in Ids /\ Of(p).role = "master" /\ Head(todo).op = "walk"
           /\ \E n \in Nat \ {0} : n = Head(todo).at + 1 /\
                 Makes((IF ends THEN {Emit("TERMINATION", p)}
                        ELSE IF terminated[p] THEN {} ELSE {Emit("PROFILE_LOCKED", p)})
                       \cup {Walk(n)})
<1> DEFINE p == Polled
           ends == Terminates(p, ot[p])
           n == Head(todo).at + 1
           s == IF ends THEN <<Emit("TERMINATION", p)>>
                ELSE IF terminated[p] THEN <<>> ELSE <<Emit("PROFILE_LOCKED", p)>>
<1>1. /\ todo # <<>> /\ p \in Ids /\ Of(p).role = "master" /\ n \in Nat \ {0}
      /\ Onward = Walk(n) /\ Head(todo).op = "walk"
    <2>1. Polls("master")
        BY DEF MasterIdle
    <2> QED
        BY <2>1, PollsOf DEF Walk
<1>2. Then(s \o <<Walk(n)>>)
    BY <1>1 DEF MasterIdle
<1>3. {"TERMINATION", "PROFILE_LOCKED"} \subseteq Types
    BY DEF Types
<1>4. /\ s \in Seq(Calls) /\ Follows(s, Under)
      /\ ToSet(s) = IF ends THEN {Emit("TERMINATION", p)}
                    ELSE IF terminated[p] THEN {} ELSE {Emit("PROFILE_LOCKED", p)}
    <2>1. Emit("TERMINATION", p) \in Calls /\ Emit("PROFILE_LOCKED", p) \in Calls
        BY <1>1, <1>3, CallsOf
    <2> QED
        BY <2>1, OneOf, NoneOf
<1>5. \A x \in ToSet(s) : \/ \E t \in Types, q \in Ids : x = Emit(t, q)
                          \/ \E U \in SUBSET Ids : x = Check("send", U)
    BY <1>1, <1>3, <1>4
<1> HIDE DEF s
<1>6. Makes(ToSet(s) \cup {Walk(n)})
    BY <1>1, <1>2, <1>4, <1>5, WalkOf
<1> QED
    BY <1>1, <1>4, <1>6

\* What DelaySend decides.
DelayBegun(p) == started[p] \/ ~Waiting(waited[p], "PROFILE")
DelayFrom(p) == IF started[p] THEN startTime[p] ELSE time
DelayEnds(p) == DelayBegun(p) /\ time >= DelayFrom(p) + Of(p).delay /\ ~terminated[p]

LEMMA DelaySendMakes ==
    ASSUME Typed, DelaySend
    PROVE  LET p == Polled IN
           /\ p \in Ids /\ Of(p).role = "delay" /\ Head(todo).op = "walk"
           /\ \E n \in Nat \ {0} : n = Head(todo).at + 1 /\
                 Makes((IF DelayBegun(p) /\ ~started[p] THEN {Emit("ACTIVATION", p)} ELSE {})
                       \cup (IF DelayEnds(p) THEN {Emit("TERMINATION", p)} ELSE {})
                       \cup {Walk(n)})
<1> DEFINE p == Polled
           n == Head(todo).at + 1
           b == DelayBegun(p) /\ ~started[p]
           d == DelayEnds(p)
           s == (IF b THEN <<Emit("ACTIVATION", p)>> ELSE <<>>)
                \o (IF d THEN <<Emit("TERMINATION", p)>> ELSE <<>>)
<1>1. /\ todo # <<>> /\ p \in Ids /\ Of(p).role = "delay" /\ n \in Nat \ {0}
      /\ Onward = Walk(n) /\ Head(todo).op = "walk"
    <2>1. Polls("delay")
        BY DEF DelaySend
    <2> QED
        BY <2>1, PollsOf DEF Walk
<1>2. Then(s \o <<Walk(n)>>)
    BY <1>1 DEF DelaySend, DelayBegun, DelayFrom, DelayEnds
<1>3. "TERMINATION" \in Types \ {"ACTIVATION"} /\ "ACTIVATION" \in Types
    BY DEF Types
<1>4. /\ s \in Seq(Calls) /\ Follows(s, Under)
      /\ ToSet(s) = (IF b THEN {Emit("ACTIVATION", p)} ELSE {})
                    \cup (IF d THEN {Emit("TERMINATION", p)} ELSE {})
    <2>1. b \in BOOLEAN /\ d \in BOOLEAN
        BY DEF DelayEnds
    <2> HIDE DEF b, d
    <2> QED
        BY <1>1, <1>3, <2>1, AnnouncesOf
<1>5. \A x \in ToSet(s) : \/ \E t \in Types, q \in Ids : x = Emit(t, q)
                          \/ \E U \in SUBSET Ids : x = Check("send", U)
    BY <1>1, <1>3, <1>4
<1> HIDE DEF s
<1>6. Makes(ToSet(s) \cup {Walk(n)})
    BY <1>1, <1>2, <1>4, <1>5, WalkOf
<1> QED
    BY <1>1, <1>4, <1>6

LEMMA CheckerSkippedMakes ==
    ASSUME Typed, CheckerSkipped
    PROVE  /\ Head(todo).op = "walk"
           /\ \E n \in Nat \ {0} : n = Head(todo).at + 1 /\ Makes({Walk(n)})
<1>1. Polls("checker")
    BY DEF CheckerSkipped
<1>2. /\ todo # <<>> /\ Head(todo) = Walk(Head(todo).at) /\ Head(todo).at + 1 \in Nat \ {0}
      /\ Onward = Walk(Head(todo).at + 1)
    BY <1>1, PollsOf
<1>3. Walk(Head(todo).at + 1) \in Calls
    BY <1>2, CallsOf
<1>4. Then(<<Walk(Head(todo).at + 1)>>)
    BY <1>2 DEF CheckerSkipped
<1>5. Makes({Walk(Head(todo).at + 1)})
    BY <1>2, <1>3, <1>4, OneCall
<1> QED
    BY <1>1, <1>2, <1>5 DEF Polls, Running

LEMMA CheckerRecordsMakes ==
    ASSUME Typed, NEW c \in Ids, CheckerRecords(c)
    PROVE  LET k == Head(todo).kind
               to == Head(todo).to IN
           /\ k \in {"send", "receive"} /\ to \subseteq Ids /\ c \in to
           /\ Head(todo).op = "check"
           /\ Makes((IF waited[c] = {} /\ ~terminated[c] THEN {Emit("TERMINATION", c)} ELSE {})
                    \cup (IF to \ {c} = {} THEN {} ELSE {Check(k, to \ {c})}))
<1> DEFINE k == Head(todo).kind
           to == Head(todo).to
           b == waited[c] = {} /\ ~terminated[c]
           d == to \ {c} # {}
           x == Emit("TERMINATION", c)
           y == Check(k, to \ {c})
           s == IF b THEN <<x>> ELSE <<>>
           t == IF d THEN <<y>> ELSE <<>>
<1>1. todo # <<>> /\ Head(todo).op = "check" /\ k \in {"send", "receive"} /\ to \subseteq Ids /\ c \in to
    <2>1. Running("check") /\ todo \in Seq(Calls) /\ c \in to
        BY DEF CheckerRecords, Typed
    <2> QED
        BY <2>1, RunningOf, CallsAre
<1>2. x \in Calls /\ y \in Calls /\ y.op = "check" /\ y # x /\ "TERMINATION" \in Types \ {"ACTIVATION"}
    <2>1. x \in Calls /\ y \in Calls
        BY <1>1, CallsOf DEF Types
    <2> QED
        BY <2>1 DEF Types, Check, Emit
<1>3. y \in Under[x]
    BY <1>2, UnderOf
<1>4. Then(s \o t)
    BY DEF CheckerRecords
<1>5. /\ s \in Seq(Calls) /\ Follows(s, Under)
      /\ ToSet(s) = IF b THEN {x} ELSE {}
    BY <1>2, MaybeOf
<1>6. /\ t \in Seq(Calls) /\ Follows(t, Under)
      /\ ToSet(t) = IF d THEN {y} ELSE {}
    BY <1>2, MaybeOf
<1> HIDE DEF s, t, x, y
<1>7. Makes(ToSet(s) \cup ToSet(t))
    <2>1. \A u \in ToSet(s) : \A v \in ToSet(t) : v \in Under[u]
        BY <1>3, <1>5, <1>6
    <2> QED
        BY <1>1, <1>4, <1>5, <1>6, <2>1, Joins
<1>8. ToSet(t) = IF to \ {c} = {} THEN {} ELSE {y}
    BY <1>6
<1> QED
    BY <1>1, <1>5, <1>7, <1>8 DEF x, y

LEMMA EndWalkMakes ==
    ASSUME Typed, EndWalk
    PROVE  Head(todo).op = "walk" /\ Makes({Ask(activeStreams)})
<1>1. Running("walk") /\ Then(<<Ask(activeStreams)>>) /\ activeStreams \in SUBSET Ids
    BY DEF EndWalk, Typed
<1>2. todo # <<>> /\ Ask(activeStreams) \in Calls
    BY <1>1, CallsOf DEF Running
<1> QED
    BY <1>1, <1>2, OneCall DEF Running

\* The profiles that an update of the adapter resets.
ResetNow(r) ==
    IF StreamTerminated(r) /\ conf.autoReset THEN ToSet(streamCache[r].nodes) ELSE {}

LEMMA AskStreamMakes ==
    ASSUME Typed, NEW r \in Ids, AskStream(r)
    PROVE  LET left == Head(todo).left IN
           /\ left \subseteq Ids /\ Head(todo).op = "streams"
           /\ Makes({On("reset", p) : p \in ResetNow(r)} \cup {Ask(left \ {r})})
<1> DEFINE left == Head(todo).left
           nodes == IF StreamTerminated(r) /\ conf.autoReset THEN streamCache[r].nodes ELSE <<>>
           s == Each("reset", nodes)
           c == Ask(left \ {r})
<1>1. todo # <<>> /\ Head(todo).op = "streams" /\ left \subseteq Ids
    <2>1. Running("streams") /\ todo \in Seq(Calls)
        BY DEF AskStream, Typed
    <2> QED
        BY <2>1, RunningOf, CallsAre
<1>2. nodes \in Seq(Ids) /\ ToSet(nodes) = ResetNow(r)
    <2>1. streamCache[r].nodes \in Seq(Ids)
        BY DEF Typed
    <2>2. <<>> \in Seq(Ids) /\ ToSet(<<>>) = {}
        BY NoneOf
    <2> QED
        BY <2>1, <2>2 DEF ResetNow
<1>3. Then(s \o <<c>>)
    <2>1. Each("reset", <<>>) = <<>>
        BY DEF Each
    <2> QED
        BY <2>1 DEF AskStream
<1> HIDE DEF nodes
<1>4. /\ s \in Seq(Calls) /\ Follows(s, Under)
      /\ ToSet(s) = {On("reset", p) : p \in ResetNow(r)}
    BY <1>2, EachOf
<1>5. c \in Calls /\ c.op = "streams"
    BY <1>1, CallsOf DEF Ask
<1>6. <<c>> \in Seq(Calls) /\ ToSet(<<c>>) = {c} /\ Follows(<<c>>, Under)
    BY <1>5, OneOf
<1>7. \A p \in ResetNow(r) : p \in Ids
    BY <1>2, ToSetOf
<1>8. \A x \in ToSet(s) : \A y \in ToSet(<<c>>) : y \in Under[x]
    <2>1. \A p \in Ids : c \in Under[On("reset", p)]
        BY <1>5, UnderOf
    <2> QED
        BY <1>4, <1>6, <1>7, <2>1
<1> HIDE DEF s, c
<1>9. Makes(ToSet(s) \cup ToSet(<<c>>))
    BY <1>1, <1>3, <1>4, <1>6, <1>8, Joins
<1> QED
    BY <1>1, <1>4, <1>6, <1>9 DEF c

LEMMA ResetMakes ==
    ASSUME Typed, Reset
    PROVE  LET p == Head(todo).profile IN
           /\ p \in Ids /\ Head(todo) = On("reset", p) /\ Head(todo).op = "reset"
           /\ Makes({On("reset", c) : c \in CheckersOf(p)}
                    \cup (IF Free(p) THEN {Emit("ACTIVATION", p)} ELSE {}))
<1> DEFINE p == Head(todo).profile
           s == Each("reset", Ordered(CheckersOf(p)))
           t == IF Free(p) THEN <<Emit("ACTIVATION", p)>> ELSE <<>>
<1>1. todo # <<>> /\ p \in Ids /\ Head(todo) = On("reset", p) /\ Head(todo).op = "reset"
    <2>1. Running("reset") /\ todo \in Seq(Calls)
        BY DEF Reset, Typed
    <2> QED
        BY <2>1, RunningOf, CallsAre
<1>2. Then(s \o t)
    BY DEF Reset, RetainedWaits, Free
<1>3. Ordered(CheckersOf(p)) \in Seq(Ids) /\ ToSet(Ordered(CheckersOf(p))) = CheckersOf(p)
    <2>1. CheckersOf(p) \in SUBSET Ids
        BY DEF CheckersOf
    <2> QED
        BY <2>1, OrderedOf
<1>4. /\ s \in Seq(Calls) /\ Follows(s, Under)
      /\ ToSet(s) = {On("reset", c) : c \in CheckersOf(p)}
    BY <1>3, EachOf
<1>5. /\ t \in Seq(Calls) /\ Follows(t, Under)
      /\ ToSet(t) = IF Free(p) THEN {Emit("ACTIVATION", p)} ELSE {}
    <2>1. Emit("ACTIVATION", p) \in Calls /\ Free(p) \in BOOLEAN
        BY <1>1, CallsOf DEF Types, Free
    <2> QED
        BY <2>1, MaybeOf
<1>6. \A x \in ToSet(s) : \A y \in ToSet(t) : y \in Under[x]
    <2>1. ASSUME Free(p) PROVE FreeStart(Emit("ACTIVATION", p))
        BY <1>1, <2>1 DEF FreeStart
    <2>2. ASSUME Free(p), NEW c \in Ids PROVE Emit("ACTIVATION", p) \in Under[On("reset", c)]
        <3>1. Emit("ACTIVATION", p) \in Calls
            BY <1>1, CallsOf DEF Types
        <3> QED
            BY <2>1, <2>2, <3>1, UnderOf
    <2> QED
        BY <1>4, <1>5, <2>2 DEF CheckersOf
<1> HIDE DEF s, t
<1>7. Makes(ToSet(s) \cup ToSet(t))
    BY <1>1, <1>2, <1>4, <1>5, <1>6, Joins
<1> QED
    BY <1>1, <1>4, <1>5, <1>7

LEMMA AnsweredMakes ==
    ASSUME Typed, Answered
    PROVE  LET p == Head(todo).profile IN
           /\ p \in Ids /\ Head(todo) = On("answered", p) /\ Head(todo).op = "answered"
           /\ Makes((IF Terminates(p, ot[p]) THEN {Emit("TERMINATION", p)} ELSE {})
                    \cup (IF CheckersOf(p) = {} THEN {} ELSE {Check("receive", CheckersOf(p))}))
<1> DEFINE p == Head(todo).profile
           b == Terminates(p, ot[p])
           x == Emit("TERMINATION", p)
           y == Check("receive", CheckersOf(p))
           s == IF b THEN <<x>> ELSE <<>>
           t == Checks("receive", p)
<1>1. todo # <<>> /\ p \in Ids /\ Head(todo) = On("answered", p) /\ Head(todo).op = "answered"
    <2>1. Running("answered") /\ todo \in Seq(Calls)
        BY DEF Answered, Typed
    <2> QED
        BY <2>1, RunningOf, CallsAre
<1>2. Then(s \o t)
    BY DEF Answered
<1>3. x \in Calls /\ y \in Calls /\ y.op = "check" /\ y # x /\ "TERMINATION" \in Types \ {"ACTIVATION"}
    <2>1. CheckersOf(p) \in SUBSET Ids
        BY DEF CheckersOf
    <2>2. x \in Calls /\ y \in Calls
        BY <1>1, <2>1, CallsOf DEF Types
    <2> QED
        BY <2>2 DEF Types, Check, Emit
<1>4. y \in Under[x]
    BY <1>1, <1>3, UnderOf
<1>5. /\ s \in Seq(Calls) /\ Follows(s, Under)
      /\ ToSet(s) = IF b THEN {x} ELSE {}
    <2>1. b \in BOOLEAN
        BY DEF Terminates
    <2> QED
        BY <1>3, <2>1, MaybeOf
<1>6. /\ t \in Seq(Calls) /\ Follows(t, Under)
      /\ ToSet(t) = IF CheckersOf(p) = {} THEN {} ELSE {y}
    BY <1>1, ChecksOf DEF Typed
<1> HIDE DEF s, t, x, y
<1>7. Makes(ToSet(s) \cup ToSet(t))
    <2>1. \A u \in ToSet(s) : \A v \in ToSet(t) : v \in Under[u]
        BY <1>4, <1>5, <1>6
    <2> QED
        BY <1>1, <1>2, <1>5, <1>6, <2>1, Joins
<1> QED
    BY <1>1, <1>5, <1>6, <1>7 DEF x, y

LEMMA EmitMakes ==
    ASSUME Typed, EmitEvent
    PROVE  LET p == Head(todo).profile
               type == Head(todo).type
               ev == Event(type, p) IN
           /\ p \in Ids /\ type \in Types /\ ev \in Events
           /\ Head(todo) = Emit(type, p) /\ Head(todo).op = "emit"
           /\ Listeners(ev) \subseteq Ids
           /\ Makes(IF MayEmit(type, p) THEN {Notify(ev, Listeners(ev))} ELSE {})
<1> DEFINE p == Head(todo).profile
           type == Head(todo).type
           ev == Event(type, p)
<1>1. todo # <<>> /\ p \in Ids /\ type \in Types /\ Head(todo) = Emit(type, p) /\ Head(todo).op = "emit"
    <2>1. Running("emit") /\ todo \in Seq(Calls)
        BY DEF EmitEvent, Typed
    <2> QED
        BY <2>1, RunningOf, CallsAre
<1>2. ev \in Events /\ ev.type = type
    BY <1>1 DEF Event, Events
<1>3. Listeners(ev) \in SUBSET Ids
    <2>1. waitEventMap \subseteq Subscriptions
        BY DEF Typed
    <2>2. \A x \in Subscriptions : x.profile \in Ids
        BY DEF Subscriptions
    <2>3. \A i \in Listeners(ev) : \E x \in waitEventMap : i = x.profile
        BY DEF Listeners
    <2> QED
        BY <2>1, <2>2, <2>3
<1>4. Notify(ev, Listeners(ev)) \in Calls
    BY <1>2, <1>3, CallsOf
<1>5. Then(IF MayEmit(type, p) THEN <<Notify(ev, Listeners(ev))>> ELSE <<>>)
    BY <1>2 DEF EmitEvent
<1>6. CASE MayEmit(type, p)
    BY <1>1, <1>2, <1>3, <1>4, <1>5, <1>6, OneCall
<1>7. CASE ~MayEmit(type, p)
    BY <1>1, <1>2, <1>3, <1>5, <1>7, NoCalls
<1> QED
    BY <1>6, <1>7

LEMMA EndsMake ==
    ASSUME Typed, StreamCacheUpdate \/ AllHeard \/ AllAsked
    PROVE  Makes({})
<1>1. todo # <<>> /\ Then(<<>>)
    BY DEF StreamCacheUpdate, AllHeard, AllAsked, Running
<1> QED
    BY <1>1, NoCalls

-----------------------------------------------------------------------------
(* The stream of a root: breadth first, it reaches all there is to reach.   *)

Distinct(q) == \A i, j \in DOMAIN q : q[i] = q[j] => i = j

\* What the walk of the stream has after its k-th node.
Reach(k, q) ==
    IF k > Len(q) THEN q ELSE q \o Ordered(Followers(q[k]) \ ToSet(q))

LEMMA ReachOf ==
    ASSUME NEW k \in Nat \ {0}, NEW q \in Seq(Ids), waitEventMap \subseteq Subscriptions
    PROVE  LET r == Reach(k, q) IN
           /\ r \in Seq(Ids) /\ ToSet(q) \subseteq ToSet(r)
           /\ Distinct(q) => Distinct(r)
           /\ \A i \in 1..Len(q) : i \in 1..Len(r) /\ r[i] = q[i]
           /\ k <= Len(q) => Followers(q[k]) \subseteq ToSet(r)
           /\ k <= Len(q) => ToSet(r) \subseteq ToSet(q) \cup Followers(q[k])
           /\ k > Len(q) => r = q
<1> DEFINE S == Followers(q[k]) \ ToSet(q)
           o == Ordered(S)
           r == q \o o
           m == Len(q)
           n == Len(o)
<1>1. CASE k > Len(q)
    BY <1>1 DEF Reach
<1>2. CASE ~(k > Len(q))
    <2>1. S \in SUBSET Ids
        BY DEF Followers, Subscriptions
    <2>2. o \in Seq(Ids) /\ ToSet(o) = S /\ Distinct(o)
        BY <2>1, OrderedOf DEF Distinct
    <2> HIDE DEF o
    <2>3. /\ r \in Seq(Ids) /\ Len(r) = m + n /\ m \in Nat /\ n \in Nat
          /\ DOMAIN q = 1..m /\ DOMAIN o = 1..n /\ DOMAIN r = 1..m + n
          /\ \A i \in 1..m + n : r[i] = IF i <= m THEN q[i] ELSE o[i - m]
        BY <2>2, ConcatProperties, LenProperties
    <2>4. ToSet(r) = ToSet(q) \cup S
        BY <2>2, ConcatOf
    <2>5. Reach(k, q) = r
        BY <1>2 DEF Reach, o
    <2> HIDE DEF r
    <2>6. \A i \in 1..m : i \in 1..m + n /\ r[i] = q[i]
        BY <2>3
    <2>7. ASSUME Distinct(q), NEW i \in 1..m + n, NEW j \in 1..m + n, r[i] = r[j] PROVE i = j
        <3>1. \A l \in 1..m : q[l] \in ToSet(q)
            BY <2>3 DEF ToSet
        <3>2. \A l \in 1..m + n : ~(l <= m) => l - m \in 1..n /\ o[l - m] \in S
            <4>1. \A l \in 1..m + n : ~(l <= m) => l - m \in 1..n
                BY <2>3
            <4>2. \A l \in 1..n : o[l] \in S
                BY <2>2, <2>3 DEF ToSet
            <4> QED
                BY <4>1, <4>2
        <3>3. (i <= m) <=> (j <= m)
            <4>1. \A l \in 1..m + n : (l <= m) <=> (r[l] \in ToSet(q))
                <5>1. TAKE l \in 1..m + n
                <5>2. CASE l <= m
                    <6>1. l \in 1..m
                        BY <2>3, <5>2
                    <6> QED
                        BY <2>6, <3>1, <5>2, <6>1
                <5>3. CASE ~(l <= m)
                    BY <2>3, <3>2, <5>3
                <5> QED
                    BY <5>2, <5>3
            <4> QED
                BY <2>7, <4>1
        <3>4. CASE i <= m
            <4>1. i \in 1..m /\ j \in 1..m
                BY <2>3, <3>3, <3>4
            <4> QED
                BY <2>3, <2>6, <2>7, <4>1 DEF Distinct
        <3>5. CASE ~(i <= m)
            <4>1. /\ i - m \in 1..n /\ j - m \in 1..n
                  /\ r[i] = o[i - m] /\ r[j] = o[j - m]
                BY <2>3, <3>2, <3>3, <3>5
            <4>2. i - m = j - m
                BY <2>2, <2>3, <2>7, <4>1 DEF Distinct
            <4> QED
                BY <2>3, <4>2
        <3> QED
            BY <3>4, <3>5
    <2>8. Distinct(q) => Distinct(r)
        BY <2>3, <2>7 DEF Distinct
    <2>9. /\ Followers(q[k]) \subseteq ToSet(r) /\ ToSet(q) \subseteq ToSet(r)
          /\ ToSet(r) \subseteq ToSet(q) \cup Followers(q[k])
        BY <2>4
    <2> QED
        BY <1>2, <2>3, <2>5, <2>6, <2>8, <2>9
<1> QED
    BY <1>1, <1>2

LEMMA StreamOf ==
    ASSUME waitEventMap \subseteq Subscriptions, NEW root \in Ids
    PROVE  LET s == Stream(root) IN
           /\ s.nodes \in Seq(Ids) /\ root \in ToSet(s.nodes)
           /\ s.leaves = {n \in ToSet(s.nodes) : Followers(n) = {}}
           /\ \A n \in ToSet(s.nodes) : Followers(n) \subseteq ToSet(s.nodes)
           /\ \A n \in ToSet(s.nodes) : n = root \/ \E m \in Ids : n \in Followers(m)
<1> DEFINE N == Cardinality(Ids)
           Reaches(f) == f = [k \in 0..N |-> IF k = 0 THEN <<root>>
                                             ELSE Reach(k, f[k - 1])]
           reached == CHOOSE f : Reaches(f)
<1>1. N \in Nat /\ IsFiniteSet(Ids)
    BY IdsAssumption, FS_CardinalityType
<1>2. <<root>> \in Seq(Ids) /\ Len(<<root>>) = 1 /\ <<root>>[1] = root /\ DOMAIN <<root>> = {1}
    OBVIOUS
<1>3. \E f : Reaches(f)
    <2> DEFINE g == [k \in 1..N |-> [q \in Seq(Ids) |-> Reach(k, q)]]
    <2>1. g \in [1..N -> [Seq(Ids) -> Seq(Ids)]]
        <3>1. \A k \in 1..N : \A q \in Seq(Ids) : Reach(k, q) \in Seq(Ids)
            BY <1>1, ReachOf
        <3> QED
            BY <3>1
    <2>2. \A k \in 1..N : \A q \in Seq(Ids) : g[k][q] = Reach(k, q)
        OBVIOUS
    <2> HIDE DEF g
    <2>3. PICK f \in [0..N -> Seq(Ids)] : Steps(f, N, <<root>>, g)
        BY <1>1, <1>2, <2>1, Recursion
    <2>4. f = [k \in 0..N |-> IF k = 0 THEN <<root>> ELSE g[k][f[k - 1]]]
        BY <2>3 DEF Steps
    <2>5. \A k \in 0..N : f[k] = IF k = 0 THEN <<root>> ELSE Reach(k, f[k - 1])
        <3>1. TAKE k \in 0..N
        <3>2. k # 0 => k \in 1..N /\ k - 1 \in 0..N
            BY <1>1
        <3>3. k # 0 => f[k - 1] \in Seq(Ids)
            BY <2>3, <3>2
        <3>4. f[k] = IF k = 0 THEN <<root>> ELSE g[k][f[k - 1]]
            BY <2>4
        <3> QED
            BY <2>2, <3>2, <3>3, <3>4
    <2>6. f = [k \in 0..N |-> IF k = 0 THEN <<root>> ELSE Reach(k, f[k - 1])]
        BY <2>3, <2>5
    <2> QED
        BY <2>6
<1>4. Reaches(reached)
    BY <1>3
<1>5. Stream(root) = [nodes |-> reached[N], leaves |-> {n \in ToSet(reached[N]) : Followers(n) = {}}]
    BY DEF Stream, Reach
<1> HIDE DEF reached
<1>6. \A k \in 0..N : reached[k] = IF k = 0 THEN <<root>> ELSE Reach(k, reached[k - 1])
    BY <1>4
<1> DEFINE Good(k) ==
               LET q == reached[k] IN
               /\ q \in Seq(Ids) /\ Distinct(q) /\ root \in ToSet(q)
               /\ \A n \in ToSet(q) : n = root \/ \E m \in Ids : n \in Followers(m)
               /\ \A i \in 1..Len(q) : i <= k => Followers(q[i]) \subseteq ToSet(q)
           G == {k \in 0..N : Good(k)}
<1>7. 0 \in G
    <2>1. reached[0] = <<root>> /\ 0 \in 0..N
        BY <1>1, <1>6
    <2>2. Distinct(<<root>>) /\ root \in ToSet(<<root>>) /\ \A n \in ToSet(<<root>>) : n = root
        BY <1>2 DEF Distinct, ToSet
    <2>3. \A i \in 1..1 : ~(i <= 0)
        OBVIOUS
    <2> QED
        BY <1>2, <2>1, <2>2, <2>3
<1>8. ASSUME NEW k \in 1..N, k - 1 \in G PROVE k \in G
    <2> DEFINE q == reached[k - 1]
               r == reached[k]
    <2>1. k \in Nat \ {0} /\ k \in 0..N /\ k - 1 \in 0..N
        BY <1>1
    <2>2. r = Reach(k, q)
        BY <1>6, <2>1
    <2>3. /\ q \in Seq(Ids) /\ Distinct(q) /\ root \in ToSet(q) /\ Len(q) \in Nat
          /\ \A i \in 1..Len(q) : i <= k - 1 => Followers(q[i]) \subseteq ToSet(q)
          /\ \A n \in ToSet(q) : n = root \/ \E m \in Ids : n \in Followers(m)
        BY <1>8, LenProperties
    <2> HIDE DEF q, r
    <2>4. /\ r \in Seq(Ids) /\ ToSet(q) \subseteq ToSet(r) /\ Distinct(r)
          /\ \A i \in 1..Len(q) : i \in 1..Len(r) /\ r[i] = q[i]
          /\ k <= Len(q) => Followers(q[k]) \subseteq ToSet(r)
          /\ k <= Len(q) => ToSet(r) \subseteq ToSet(q) \cup Followers(q[k])
          /\ k > Len(q) => r = q
        BY <2>1, <2>2, <2>3, ReachOf
    <2>5. ASSUME NEW i \in 1..Len(r), i <= k PROVE Followers(r[i]) \subseteq ToSet(r)
        <3>1. CASE k > Len(q)
            <4>1. r = q /\ i <= k - 1
                BY <2>1, <2>3, <2>4, <3>1
            <4> QED
                BY <2>3, <4>1
        <3>2. CASE k <= Len(q)
            <4>1. i \in 1..Len(q) /\ (i = k \/ i <= k - 1)
                BY <2>1, <2>3, <2>5, <3>2
            <4>2. r[i] = q[i]
                BY <2>4, <4>1
            <4> QED
                BY <2>3, <2>4, <3>2, <4>1, <4>2
        <3> QED
            BY <2>1, <2>3, <3>1, <3>2
    <2>6. ASSUME NEW n \in ToSet(r) PROVE n = root \/ \E m \in Ids : n \in Followers(m)
        <3>1. CASE k > Len(q)
            BY <2>3, <2>4, <2>6, <3>1
        <3>2. CASE k <= Len(q)
            <4>1. k \in 1..Len(q)
                BY <2>1, <2>3, <3>2
            <4>2. q[k] \in Ids
                BY <2>3, <4>1
            <4> QED
                BY <2>3, <2>4, <2>6, <3>2, <4>2
        <3> QED
            BY <2>1, <2>3, <3>1, <3>2
    <2>7. Good(k)
        BY <2>3, <2>4, <2>5, <2>6 DEF r
    <2> QED
        BY <2>1, <2>7
<1> HIDE DEF G
<1>9. 0..N \subseteq G
    BY <1>1, <1>7, <1>8, Upward
<1>10. Good(N)
    <2>1. N \in G
        BY <1>1, <1>9
    <2> HIDE DEF Good
    <2> QED
        BY <2>1 DEF G
<1> DEFINE q == reached[N]
<1>11. Len(q) <= N
    <2>1. q \in [1..Len(q) -> Ids] /\ Len(q) \in Nat /\ DOMAIN q = 1..Len(q)
        BY <1>10, LenProperties
    <2>2. q \in Injection(1..Len(q), Ids)
        BY <1>10, <2>1 DEF Injection, IsInjective, Distinct
    <2>3. Cardinality(1..Len(q)) = Len(q)
        BY <2>1, FS_Interval
    <2> HIDE DEF q
    <2> QED
        BY <1>1, <2>2, <2>3, FS_Injection
<1>12. ASSUME NEW n \in ToSet(q) PROVE Followers(n) \subseteq ToSet(q)
    <2>1. q \in Seq(Ids) /\ Len(q) \in Nat
        BY <1>10, LenProperties
    <2>2. PICK i \in 1..Len(q) : n = q[i]
        BY <2>1, ToSetOf
    <2>3. i <= N
        BY <1>1, <1>11, <2>1
    <2> QED
        BY <1>10, <2>2, <2>3
<1> QED
    BY <1>5, <1>10, <1>12

-----------------------------------------------------------------------------
(* Types *)

LEMMA MakesOf ==
    ASSUME Typed, NEW C, Makes(C)
    PROVE  /\ todo' \in Seq(Calls) /\ C \subseteq Calls
           /\ InProgress' = C \cup Rest /\ InProgress = {Head(todo)} \cup Rest
           /\ Head(todo) \in Calls /\ Rest \subseteq Calls
<1>1. PICK calls \in Seq(Calls) : Then(calls) /\ ToSet(calls) = C
    BY DEF Makes
<1>2. todo # <<>> /\ todo \in Seq(Calls)
    BY DEF Makes, Typed
<1>3. todo' \in Seq(Calls) /\ InProgress' = C \cup Rest
    BY <1>1, <1>2, ThenOf
<1>4. C \subseteq Calls
    BY <1>1, ToSetOf
<1>5. Running(Head(todo).op)
    BY <1>2 DEF Running
<1> QED
    BY <1>2, <1>3, <1>4, <1>5, RunningOf

LEMMA InstantsOf ==
    ASSUME Typed, NEW t \in Instants
    PROVE  t \in Nat /\ time <= t /\ (due # Never => t <= due)
<1>1. time \in Nat /\ MaxTime \in Nat /\ due \in Nat \cup {Never}
    BY TimeAssumption DEF Typed
<1>2. Max({time, MaxTime}) \in Nat
    <2>1. \E x \in {time, MaxTime} : \A y \in {time, MaxTime} : x >= y
        BY <1>1
    <2>2. Max({time, MaxTime}) \in {time, MaxTime}
        BY <2>1 DEF Max
    <2> QED
        BY <1>1, <2>2
<1>3. (IF due = Never THEN Max({time, MaxTime}) ELSE due) \in Nat
    BY <1>1, <1>2
<1> QED
    BY <1>1, <1>3 DEF Instants

LEMMA LoadingOf ==
    ASSUME NEW files \in Seq(Seq(Ids))
    PROVE  /\ Loading(files) \in Seq(Calls)
           /\ ToSet(Loading(files)) = UNION {{On("configure", p) : p \in ToSet(files[f])} \cup {Cache} :
                                             f \in DOMAIN files}
<1> DEFINE part == [f \in DOMAIN files |-> Append(Each("configure", files[f]), Cache)]
<1>1. DOMAIN files = 1..Len(files) /\ Len(files) \in Nat /\ \A f \in DOMAIN files : files[f] \in Seq(Ids)
    BY LenProperties
<1>2. \A f \in DOMAIN files :
          /\ Append(Each("configure", files[f]), Cache) \in Seq(Calls)
          /\ ToSet(Append(Each("configure", files[f]), Cache))
             = {On("configure", p) : p \in ToSet(files[f])} \cup {Cache}
    <2>1. TAKE f \in DOMAIN files
    <2>2. /\ Each("configure", files[f]) \in Seq(Calls) /\ Cache \in Calls
          /\ ToSet(Each("configure", files[f])) = {On("configure", p) : p \in ToSet(files[f])}
        BY <1>1, EachOf, CallsOf
    <2>3. /\ Append(Each("configure", files[f]), Cache) \in Seq(Calls)
          /\ ToSet(Append(Each("configure", files[f]), Cache))
             = ToSet(Each("configure", files[f])) \cup {Cache}
        BY <2>2, AppendOf
    <2> QED
        BY <2>2, <2>3
<1>3. part \in Seq(Seq(Calls)) /\ DOMAIN part = DOMAIN files
    <2>1. part \in [1..Len(files) -> Seq(Calls)]
        BY <1>1, <1>2
    <2> QED
        BY <1>1, <2>1, SeqDef
<1>4. /\ FlattenSeq(part) \in Seq(Calls)
      /\ ToSet(FlattenSeq(part)) = UNION {ToSet(part[f]) : f \in DOMAIN part}
    BY <1>3, FlattenOf
<1>5. {ToSet(part[f]) : f \in DOMAIN part}
      = {{On("configure", p) : p \in ToSet(files[f])} \cup {Cache} : f \in DOMAIN files}
    BY <1>2, <1>3
<1> QED
    BY <1>4, <1>5 DEF Loading

LEMMA TypedInit == Init => Typed
<1> SUFFICES ASSUME Init PROVE Typed
    OBVIOUS
<1>1. conf \in Configs
    BY DEF Init
<1>2. \A p \in Ids : Of(p).owner \in Masters
    BY <1>1, ConfOf
<1>3. owner \in [Ids -> Masters]
    BY <1>2 DEF Init, Of
<1>4. todo \in Seq(Calls)
    <2>1. conf.files \in Seq(Seq(Ids))
        BY <1>1, ConfigsAssumption DEF Configuration
    <2> QED
        BY <2>1, LoadingOf DEF Init
<1>5. NoneSent \in [type : Types \cup {"NONE"}, time : Nat]
    BY DEF NoneSent
<1>6. emitted \in [Ids -> [Categories -> [type : Types \cup {"NONE"}, time : Nat]]]
    BY <1>5 DEF Init
<1>7. activeList \in Seq(Ids) /\ streamCache \in [Ids -> [nodes : Seq(Ids), leaves : SUBSET Ids]]
    <2>1. <<>> \in Seq(Ids)
        BY NoneOf
    <2> QED
        BY <2>1 DEF Init
<1>8. /\ time \in Nat /\ due \in Nat \cup {Never} /\ plays \in Nat
      /\ nextTimes \subseteq Nat /\ locked \in BOOLEAN
    BY DEF Init
<1>9. /\ waited \in [Ids -> SUBSET Events] /\ waitEventMap \subseteq Subscriptions
      /\ nonTerminated \in [Masters -> Int] /\ activeStreams \subseteq Ids
    BY DEF Init
<1>10. /\ started \in [Ids -> BOOLEAN] /\ terminated \in [Ids -> BOOLEAN]
      /\ halted \in [Ids -> BOOLEAN] /\ startTime \in [Ids -> Nat] /\ sent \in [Ids -> Nat]
      /\ waitedResponse \in [Ids -> Nat] /\ discards \in [Ids -> Nat] /\ ot \in [Ids -> Int]
    BY DEF Init
<1> QED
    BY <1>1, <1>3, <1>4, <1>6, <1>7, <1>8, <1>9, <1>10 DEF Typed

LEMMA SubscribedOf ==
    ASSUME waitEventMap \subseteq Subscriptions, NEW waits \in SUBSET Events, NEW p \in Ids
    PROVE  Subscribed(waits, p) \subseteq Subscriptions
    BY DEF Subscribed, Subscription, Subscriptions, Events

LEMMA ListedOf ==
    ASSUME IsFiniteSet(Ids), activeList \in Seq(Ids), NEW waits \in SUBSET Events, NEW p \in Ids
    PROVE  /\ activeList \o Listed(waits, p) \in Seq(Ids)
           /\ ToSet(activeList \o Listed(waits, p)) \subseteq ToSet(activeList) \cup {p}
           /\ ToSet(activeList) \subseteq ToSet(activeList \o Listed(waits, p))
           /\ (\E w \in waits : w.type = "ACTIVATION") => p \in ToSet(activeList \o Listed(waits, p))
<1> DEFINE S == {w \in waits : w.type = "ACTIVATION"}
           n == Cardinality(S)
<1>1. IsFiniteSet(S)
    <2>1. IsFiniteSet(Types)
        <3>1. Types = ({} \cup {"ACTIVATION"}) \cup {"TERMINATION"} \cup {"PROFILE_LOCKED"} \cup {"PROFILE_UNLOCKED"}
            BY DEF Types
        <3> QED
            BY <3>1, FS_EmptySet, FS_AddElement
    <2>2. IsFiniteSet(Types \X Ids)
        BY <2>1, FS_Product
    <2> DEFINE h == [x \in Types \X Ids |-> [type |-> x[1], id |-> x[2]]]
    <2>3. h \in Surjection(Types \X Ids, Events)
        <3>1. \A e \in Events : <<e.type, e.id>> \in Types \X Ids /\ h[<<e.type, e.id>>] = e
            BY DEF Events
        <3>2. h \in [Types \X Ids -> Events]
            BY DEF Events
        <3> QED
            BY <3>1, <3>2 DEF Surjection
    <2>4. IsFiniteSet(Events)
        BY <2>2, <2>3, FS_Surjection
    <2> QED
        BY <2>4, FS_Subset
<1>2. n \in Nat
    BY <1>1, FS_CardinalityType
<1>3. Listed(waits, p) \in [1..n -> Ids]
    BY DEF Listed
<1>4. Listed(waits, p) \in Seq(Ids)
    <2> HIDE DEF n
    <2> QED
        BY <1>2, <1>3, SeqDef
<1>5. ToSet(Listed(waits, p)) \subseteq {p}
    BY DEF ToSet, Listed
<1>6. ASSUME \E w \in waits : w.type = "ACTIVATION" PROVE p \in ToSet(Listed(waits, p))
    <2>1. n # 0
        BY <1>1, <1>6, FS_EmptySet
    <2> HIDE DEF n
    <2>2. 1 \in 1..n
        BY <1>2, <2>1
    <2>3. \A i \in 1..n : Listed(waits, p)[i] = p
        BY DEF Listed, n
    <2>4. DOMAIN Listed(waits, p) = 1..n
        BY <1>3
    <2> QED
        BY <2>2, <2>3, <2>4 DEF ToSet
<1> QED
    BY <1>4, <1>5, <1>6, ConcatOf

LEMMA RecordsOf ==
    ASSUME NEW c \in Ids, CheckerRecords(c)
    PROVE  ot' = [ot EXCEPT ![c] =
               IF Head(todo).kind = "receive" THEN @ - 1 ELSE IF waited[c] # {} THEN @ + 1 ELSE @]
    BY DEF CheckerRecords

LEMMA CountedUp ==
    ASSUME NEW p \in Ids
    PROVE  /\ \A f \in [Ids -> Nat] : [f EXCEPT ![p] = @ + 1] \in [Ids -> Nat]
           /\ \A f \in [Ids -> Int] : [f EXCEPT ![p] = @ + 1] \in [Ids -> Int]
    OBVIOUS

LEMMA EmittedOf ==
    ASSUME NEW E, NEW f \in [Ids -> [Categories -> E]], NEW p \in Ids, NEW c \in Categories,
           NEW e \in E
    PROVE  [f EXCEPT ![p][c] = e] \in [Ids -> [Categories -> E]]
    OBVIOUS

LEMMA TypedConfigure ==
    ASSUME Typed, Configure
    PROVE  Typed'
<1> DEFINE p == Head(todo).profile
<1>1. p \in Ids /\ todo' \in Seq(Calls)
    BY ConfigureMakes, MakesOf
<1>2. Of(p).waits \in SUBSET Events /\ Of(p).owner \in Masters
    BY <1>1, ConfOf DEF Typed
<1>3. waited' \in [Ids -> SUBSET Events] /\ waitEventMap' \subseteq Subscriptions
    BY <1>1, <1>2, SubscribedOf DEF Configure, Typed
<1>4. activeList' \in Seq(Ids)
    BY <1>1, <1>2, ListedOf, IdsAssumption DEF Configure, Typed
<1>5. nonTerminated' \in [Masters -> Int]
    <2>1. nonTerminated' = [nonTerminated EXCEPT ![Of(p).owner] = @ + 1]
        BY DEF Configure
    <2>2. nonTerminated \in [Masters -> Int]
        BY DEF Typed
    <2> QED
        BY <1>2, <2>1, <2>2
<1>6. started' \in [Ids -> BOOLEAN]
    BY <1>1 DEF Configure, Typed
<1> QED
    BY <1>1, <1>3, <1>4, <1>5, <1>6 DEF Configure, Typed, memory, streams, poll

LEMMA TypedCache ==
    ASSUME Typed, StreamCacheUpdate
    PROVE  Typed'
<1>1. todo' \in Seq(Calls)
    BY EndsMake, MakesOf
<1>2. \A r \in Ids : Stream(r) \in [nodes : Seq(Ids), leaves : SUBSET Ids]
    <2>1. TAKE r \in Ids
    <2>2. /\ Stream(r).nodes \in Seq(Ids)
          /\ Stream(r).leaves = {n \in ToSet(Stream(r).nodes) : Followers(n) = {}}
        BY StreamOf DEF Typed
    <2>3. Stream(r).leaves \subseteq Ids
        BY <2>2, ToSetOf
    <2>4. Stream(r) = [nodes |-> Stream(r).nodes, leaves |-> Stream(r).leaves]
        BY DEF Stream
    <2> QED
        BY <2>2, <2>3, <2>4
<1>3. streamCache' \in [Ids -> [nodes : Seq(Ids), leaves : SUBSET Ids]]
    BY <1>2 DEF StreamCacheUpdate, Typed
<1> QED
    BY <1>1, <1>3 DEF StreamCacheUpdate, Typed, busVars, profileVars, memory, poll

LEMMA TypedEmission ==
    ASSUME Typed, Emission
    PROVE  Typed'
<1> DEFINE p == Head(todo).profile
           type == Head(todo).type
           ev == Event(type, p)
<1>1. p \in Ids /\ type \in Types /\ ev.type = type /\ todo' \in Seq(Calls) /\ EmitEvent
    BY EmitMakes, MakesOf DEF Emission, Event
<1>2. owner[p] \in Masters
    BY <1>1 DEF Typed
<1>3. Category(type) \in Categories
    BY DEF Category, Categories
<1>4. emitted' \in [Ids -> [Categories -> [type : Types \cup {"NONE"}, time : Nat]]]
    <2> DEFINE e == [type |-> type, time |-> IF Category(type) = "PROFILE" THEN 0 ELSE time]
    <2>1. e \in [type : Types \cup {"NONE"}, time : Nat]
        BY <1>1 DEF Typed
    <2>2. emitted' = [emitted EXCEPT ![p][Category(type)] = e] \/ emitted' = emitted
        BY <1>1 DEF EmitEvent
    <2> HIDE DEF e
    <2> QED
        <3>1. emitted \in [Ids -> [Categories -> [type : Types \cup {"NONE"}, time : Nat]]]
            BY DEF Typed
        <3>2. [emitted EXCEPT ![p][Category(type)] = e]
              \in [Ids -> [Categories -> [type : Types \cup {"NONE"}, time : Nat]]]
            BY <1>1, <1>3, <2>1, <3>1, EmittedOf
        <3> QED
            BY <2>2, <3>1, <3>2
<1>5. activeList' \in Seq(Ids)
    <2>1. activeList' = Append(activeList, p) \/ activeList' = activeList
        BY <1>1 DEF EmitEvent
    <2>2. activeList \in Seq(Ids) /\ Append(activeList, p) \in Seq(Ids)
        BY <1>1, AppendOf DEF Typed
    <2> QED
        BY <2>1, <2>2
<1>6. nonTerminated' \in [Masters -> Int]
    <2>1. nonTerminated' = [nonTerminated EXCEPT ![owner[p]] = @ - 1] \/ nonTerminated' = nonTerminated
        BY <1>1 DEF EmitEvent, Terminate
    <2> QED
        BY <1>2, <2>1 DEF Typed
<1>7. waitEventMap' \subseteq Subscriptions
    BY <1>1 DEF EmitEvent, KeptSubscriptions, Typed
<1> QED
    BY <1>1, <1>4, <1>5, <1>6, <1>7
    DEF Emission, EmitEvent, Typed, profileVars, memory, streams, poll

LEMMA TypedDelivered ==
    ASSUME Typed, Delivered
    PROVE  Typed'
<1>1. todo' \in Seq(Calls)
    BY EndsMake, MakesOf DEF Delivered
<1> QED
    BY <1>1 DEF Delivered, AllHeard, Typed, profileVars, memory, streams, poll

\* What a profile awaits after an event is of its events.
LEMMA AwaitedOf ==
    ASSUME Typed, NEW p \in Ids, NEW ev \in Events
    PROVE  StillWaited(p, ev) \in SUBSET Events /\ AwaitedBy(p, ev) \in SUBSET Events
<1>1. StillWaited(p, ev) \in SUBSET Events
    BY DEF StillWaited, Typed
<1>2. Opposite(ev) \in Events
    BY DEF Opposite, Events, Types
<1> QED
    BY <1>1, <1>2 DEF AwaitedBy

LEMMA MasterHearsMakes ==
    ASSUME Typed, NEW p \in Ids, MasterHears(p)
    PROVE  LET ev == Head(todo).event
               to == Head(todo).to IN
           /\ ev \in Events /\ to \subseteq Ids /\ p \in to /\ Head(todo) = Notify(ev, to)
           /\ Makes((IF Starts(p, AwaitedBy(p, ev)) THEN {Emit("ACTIVATION", p)} ELSE {})
                    \cup {Notify(ev, to \ {p})})
<1>1. Starts(p, AwaitedBy(p, Head(todo).event)) \in BOOLEAN
    BY DEF Starts
<1>2. /\ Hears(p)
      /\ Then((IF Starts(p, AwaitedBy(p, Head(todo).event)) THEN <<Emit("ACTIVATION", p)>> ELSE <<>>)
              \o <<StillToHear(p)>>)
    BY DEF MasterHears
<1> QED
    BY <1>1, <1>2, HearsMakes

LEMMA OtherHearsMakes ==
    ASSUME Typed, NEW p \in Ids, OtherHears(p)
    PROVE  LET ev == Head(todo).event
               to == Head(todo).to IN
           /\ ev \in Events /\ to \subseteq Ids /\ p \in to /\ Head(todo) = Notify(ev, to)
           /\ Makes((IF Of(p).role = "delay" /\ ~Waiting(StillWaited(p, ev), "PROFILE")
                     THEN {Emit("ACTIVATION", p)} ELSE {})
                    \cup {Notify(ev, to \ {p})})
<1> DEFINE b == Of(p).role = "delay" /\ ~Waiting(StillWaited(p, Head(todo).event), "PROFILE")
<1>1. b \in BOOLEAN
    OBVIOUS
<1>2. /\ Hears(p)
      /\ Then((IF b THEN <<Emit("ACTIVATION", p)>> ELSE <<>>) \o <<StillToHear(p)>>)
    BY DEF OtherHears
<1> HIDE DEF b
<1>3. LET ev == Head(todo).event
          to == Head(todo).to IN
      /\ ev \in Events /\ to \subseteq Ids /\ p \in to /\ Head(todo) = Notify(ev, to)
      /\ Makes((IF b THEN {Emit("ACTIVATION", p)} ELSE {}) \cup {Notify(ev, to \ {p})})
    BY <1>1, <1>2, HearsMakes
<1> QED
    BY <1>3 DEF b

LEMMA TypedMasterHears ==
    ASSUME Typed, NEW p \in Ids, MasterHears(p)
    PROVE  Typed'
<1> DEFINE ev == Head(todo).event
           waits == AwaitedBy(p, ev)
<1>1. ev \in Events /\ todo' \in Seq(Calls)
    BY MasterHearsMakes, MakesOf
<1>2. waits \in SUBSET Events /\ waits \ waited[p] \in SUBSET Events
    BY <1>1, AwaitedOf
<1>3. waited' \in [Ids -> SUBSET Events] /\ waitEventMap' \subseteq Subscriptions
    BY <1>2, SubscribedOf DEF MasterHears, Typed
<1>4. halted' \in [Ids -> BOOLEAN]
    <2>1. HaltedBy(p, ev) \in BOOLEAN
        BY DEF HaltedBy
    <2> QED
        BY <2>1 DEF MasterHears, Typed
<1>5. started' \in [Ids -> BOOLEAN] /\ startTime' \in [Ids -> Nat]
    BY DEF MasterHears, Typed
<1> QED
    BY <1>1, <1>3, <1>4, <1>5 DEF MasterHears, Typed, memory, streams, poll

LEMMA TypedOtherHears ==
    ASSUME Typed, NEW p \in Ids, OtherHears(p)
    PROVE  Typed'
<1>1. Head(todo).event \in Events /\ todo' \in Seq(Calls)
    BY OtherHearsMakes, MakesOf
<1>2. waited' \in [Ids -> SUBSET Events]
    BY <1>1, AwaitedOf DEF OtherHears, Typed
<1> QED
    BY <1>1, <1>2 DEF OtherHears, Typed, profileVars, memory, streams, poll

LEMMA TypedMasterSends ==
    ASSUME Typed, MasterSends
    PROVE  Typed'
<1>1. Polled \in Ids /\ todo' \in Seq(Calls)
    BY MasterSendsMakes, MakesOf
<1>2. started' \in [Ids -> BOOLEAN] /\ startTime' \in [Ids -> Nat] /\ sent' \in [Ids -> Nat]
    <2>1. /\ started' = [started EXCEPT ![Polled] = TRUE]
          /\ startTime' = [startTime EXCEPT ![Polled] = IF started[Polled] THEN @ ELSE time]
          /\ sent' = [sent EXCEPT ![Polled] = @ + 1]
        BY DEF MasterSends, Activated
    <2>2. /\ started \in [Ids -> BOOLEAN] /\ startTime \in [Ids -> Nat] /\ sent \in [Ids -> Nat]
          /\ time \in Nat
        BY DEF Typed
    <2>3. sent[Polled] + 1 \in Nat /\ startTime[Polled] \in Nat
        BY <1>1, <2>2
    <2>4. started' \in [Ids -> BOOLEAN] /\ startTime' \in [Ids -> Nat]
        BY <2>1, <2>2, <2>3
    <2>5. sent' \in [Ids -> Nat]
        BY <2>1, <2>2, <2>3
    <2> QED
        BY <2>4, <2>5
<1>3. discards' \in [Ids -> Nat] /\ ot' \in [Ids -> Int] /\ waitedResponse' \in [Ids -> Nat]
    <2>1. discards' = [discards EXCEPT ![Polled] = @ + 1] \/ discards' = discards
        BY DEF MasterSends
    <2>2. \/ ot' = [ot EXCEPT ![Polled] = @ + 1]
             /\ waitedResponse' = [waitedResponse EXCEPT ![Polled] = @ + 1]
          \/ ot' = ot /\ waitedResponse' = waitedResponse
        BY DEF MasterSends
    <2>3. ot \in [Ids -> Int] /\ waitedResponse \in [Ids -> Nat] /\ discards \in [Ids -> Nat]
        BY DEF Typed
    <2>4. ot' \in [Ids -> Int] /\ waitedResponse' \in [Ids -> Nat]
        <3>1. CASE ot' = ot /\ waitedResponse' = waitedResponse
            BY <2>3, <3>1
        <3>2. CASE ~(ot' = ot /\ waitedResponse' = waitedResponse)
            <4>1. /\ ot' = [ot EXCEPT ![Polled] = @ + 1]
                  /\ waitedResponse' = [waitedResponse EXCEPT ![Polled] = @ + 1]
                BY <2>2, <3>2
            <4> QED
                BY <1>1, <2>3, <4>1, CountedUp
        <3> QED
            BY <3>1, <3>2
    <2>5. discards' \in [Ids -> Nat]
        BY <1>1, <2>1, <2>3, CountedUp
    <2> QED
        BY <2>4, <2>5
<1> QED
    BY <1>1, <1>2, <1>3 DEF MasterSends, Typed, busVars, streams, poll

LEMMA TypedMasterRefused ==
    ASSUME Typed, MasterRefused
    PROVE  Typed'
<1>1. Polled \in Ids /\ todo' \in Seq(Calls)
    BY MasterRefusedMakes, MakesOf
<1>2. started' \in [Ids -> BOOLEAN] /\ startTime' \in [Ids -> Nat]
    BY <1>1 DEF MasterRefused, Activated, Typed
<1>3. nextTimes' \subseteq Nat
    <2>1. nextTimes' \subseteq nextTimes \cup {time + 1}
        BY DEF MasterRefused
    <2> QED
        BY <2>1 DEF Typed
<1> QED
    BY <1>1, <1>2, <1>3 DEF MasterRefused, Typed, busVars, memory, streams

LEMMA TypedMasterIdle ==
    ASSUME Typed, MasterIdle
    PROVE  Typed'
<1>1. Polled \in Ids /\ todo' \in Seq(Calls)
    BY MasterIdleMakes, MakesOf
<1>2. terminated' \in [Ids -> BOOLEAN] /\ halted' \in [Ids -> BOOLEAN]
    BY <1>1 DEF MasterIdle, Typed
<1>3. locked' \in BOOLEAN
    BY DEF MasterIdle
<1> QED
    BY <1>1, <1>2, <1>3 DEF MasterIdle, Typed, busVars, memory, streams

LEMMA TypedDelaySend ==
    ASSUME Typed, DelaySend
    PROVE  Typed'
<1> DEFINE p == Polled
<1>1. p \in Ids /\ todo' \in Seq(Calls)
    BY DelaySendMakes, MakesOf
<1>2. Of(p).delay \in Nat /\ DelayFrom(p) \in Nat
    BY <1>1, ConfOf DEF DelayFrom, Typed
<1>3. startTime' \in [Ids -> Nat]
    BY <1>1, <1>2 DEF DelaySend, DelayFrom, Typed
<1>4. started' \in [Ids -> BOOLEAN] /\ terminated' \in [Ids -> BOOLEAN] /\ locked' \in BOOLEAN
    BY <1>1 DEF DelaySend, Typed
<1>5. nextTimes' \subseteq Nat
    <2>1. nextTimes' \subseteq nextTimes \cup {DelayFrom(p) + Of(p).delay}
        BY DEF DelaySend, DelayFrom
    <2> QED
        BY <1>2, <2>1 DEF Typed
<1> QED
    BY <1>1, <1>3, <1>4, <1>5 DEF DelaySend, Typed, busVars, memory, streams

LEMMA TypedCheckers ==
    ASSUME Typed, CheckerSkipped \/ \E c \in Ids : CheckerRecords(c)
    PROVE  Typed'
<1>1. CASE CheckerSkipped
    <2>1. todo' \in Seq(Calls)
        BY <1>1, CheckerSkippedMakes, MakesOf
    <2> QED
        BY <1>1, <2>1 DEF CheckerSkipped, Typed, busVars, profileVars, memory, streams, poll
<1>2. ASSUME NEW c \in Ids, CheckerRecords(c) PROVE Typed'
    <2>1. todo' \in Seq(Calls)
        BY <1>2, CheckerRecordsMakes, MakesOf
    <2>2. ot' \in [Ids -> Int] /\ terminated' \in [Ids -> BOOLEAN]
        <3>1. \/ ot' = [ot EXCEPT ![c] = @ - 1]
              \/ ot' = [ot EXCEPT ![c] = @ + 1]
              \/ ot' = [ot EXCEPT ![c] = @]
            BY <1>2, RecordsOf
        <3>2. terminated' = [terminated EXCEPT ![c] = @ \/ (waited[c] = {} /\ ~terminated[c])]
            BY <1>2 DEF CheckerRecords
        <3>3. ot \in [Ids -> Int] /\ terminated \in [Ids -> BOOLEAN]
            BY DEF Typed
        <3>4. ot[c] - 1 \in Int /\ ot[c] + 1 \in Int /\ ot[c] \in Int
            BY <3>3
        <3>5. ot' \in [Ids -> Int]
            BY <3>1, <3>3, <3>4
        <3>6. terminated' \in [Ids -> BOOLEAN]
            BY <3>2, <3>3
        <3> QED
            BY <3>5, <3>6
    <2> QED
        BY <1>2, <2>1, <2>2 DEF CheckerRecords, Typed, busVars, memory, streams, poll
<1> QED
    BY <1>1, <1>2

LEMMA TypedEndWalk ==
    ASSUME Typed, EndWalk
    PROVE  Typed'
<1>1. todo' \in Seq(Calls)
    BY EndWalkMakes, MakesOf
<1>2. due' \in Nat \cup {Never}
    <2>1. CASE nextTimes = {}
        BY <2>1 DEF EndWalk
    <2>2. CASE nextTimes # {}
        <3>1. Min(nextTimes) \in nextTimes
            BY <2>2, MinOf DEF Typed
        <3> QED
            BY <2>2, <3>1 DEF EndWalk, Typed
    <2> QED
        BY <2>1, <2>2
<1> QED
    BY <1>1, <1>2 DEF EndWalk, Typed, busVars, profileVars, memory, streams

LEMMA TypedStreams ==
    ASSUME Typed, AllAsked \/ \E r \in Ids : AskStream(r)
    PROVE  Typed'
<1>1. CASE AllAsked
    <2>1. todo' \in Seq(Calls)
        BY <1>1, EndsMake, MakesOf
    <2> QED
        BY <1>1, <2>1 DEF AllAsked, Typed, busVars, profileVars, memory, streams, poll
<1>2. ASSUME NEW r \in Ids, AskStream(r) PROVE Typed'
    <2>1. todo' \in Seq(Calls)
        BY <1>2, AskStreamMakes, MakesOf
    <2>2. activeStreams' \subseteq Ids
        BY <1>2 DEF AskStream, Typed
    <2> QED
        BY <1>2, <2>1, <2>2 DEF AskStream, Typed, busVars, profileVars, memory, poll
<1> QED
    BY <1>1, <1>2

LEMMA TypedReset ==
    ASSUME Typed, Reset
    PROVE  Typed'
<1> DEFINE p == Head(todo).profile
<1>1. p \in Ids /\ todo' \in Seq(Calls)
    BY ResetMakes, MakesOf
<1>2. Of(p).waits \in SUBSET Events /\ owner[p] \in Masters
    BY <1>1, ConfOf DEF Typed
<1>3. waited' \in [Ids -> SUBSET Events] /\ waitEventMap' \subseteq Subscriptions
    BY <1>1, <1>2, SubscribedOf DEF Reset, RetainedWaits, Typed
<1>4. activeList' \in Seq(Ids)
    BY <1>1, <1>2, ListedOf, IdsAssumption DEF Reset, RetainedWaits, Typed
<1>5. nonTerminated' \in [Masters -> Int]
    <2>1. \/ nonTerminated' = [nonTerminated EXCEPT ![owner[p]] = @ + 1]
          \/ nonTerminated' = nonTerminated
        BY DEF Reset
    <2> QED
        BY <1>2, <2>1 DEF Typed
<1>6. emitted' \in [Ids -> [Categories -> [type : Types \cup {"NONE"}, time : Nat]]]
    <2>1. [c \in Categories |-> NoneSent] \in [Categories -> [type : Types \cup {"NONE"}, time : Nat]]
        BY DEF NoneSent
    <2> QED
        BY <1>1, <2>1 DEF Reset, Typed
<1>7. /\ started' \in [Ids -> BOOLEAN] /\ terminated' \in [Ids -> BOOLEAN]
      /\ halted' \in [Ids -> BOOLEAN]
    BY <1>1 DEF Reset, Typed
<1>8. ot' \in [Ids -> Int] /\ sent' \in [Ids -> Nat] /\ startTime' \in [Ids -> Nat]
    <2>1. /\ ot' = [ot EXCEPT ![p] = 0] /\ sent' = [sent EXCEPT ![p] = 0]
          /\ startTime' = [startTime EXCEPT ![p] = IF Of(p).role = "delay" THEN 0 ELSE @]
        BY DEF Reset
    <2>2. ot \in [Ids -> Int] /\ sent \in [Ids -> Nat] /\ startTime \in [Ids -> Nat]
        BY DEF Typed
    <2>0. 0 \in Int
        OBVIOUS
    <2>3. ot' \in [Ids -> Int]
        BY <2>0, <2>1, <2>2, Zenon
    <2>4. sent' \in [Ids -> Nat]
        BY <2>1, <2>2
    <2>5. startTime' \in [Ids -> Nat]
        BY <2>1, <2>2
    <2> QED
        BY <2>3, <2>4, <2>5
<1> QED
    BY <1>1, <1>3, <1>4, <1>5, <1>6, <1>7, <1>8 DEF Reset, Typed, memory, streams, poll

LEMMA TypedAnswered ==
    ASSUME Typed, Answered
    PROVE  Typed'
<1>1. Head(todo).profile \in Ids /\ todo' \in Seq(Calls)
    BY AnsweredMakes, MakesOf
<1>2. terminated' \in [Ids -> BOOLEAN] /\ halted' \in [Ids -> BOOLEAN]
    BY <1>1 DEF Answered, Typed
<1> QED
    BY <1>1, <1>2 DEF Answered, Typed, busVars, memory, streams, poll

LEMMA TypedPoll ==
    ASSUME Typed, Poll
    PROVE  Typed'
<1>1. todo' \in Seq(Calls)
    <2>1. Walk(1) \in Calls
        BY CallsOf
    <2> QED
        BY <2>1, OneOf DEF Poll
<1>2. time' \in Nat /\ due' \in Nat \cup {Never} /\ nextTimes' \subseteq Nat /\ locked' \in BOOLEAN
    BY DEF Poll, Typed
<1> QED
    BY <1>1, <1>2 DEF Poll, Typed, busVars, profileVars, memory, streams

LEMMA TypedAdapter ==
    ASSUME Typed, NEW p \in Ids, Answer(p) \/ Discard(p) \/ ActivateStream(p)
    PROVE  Typed'
<1>1. CASE Answer(p)
    <2>1. todo' \in Seq(Calls)
        <3>1. On("answered", p) \in Calls
            BY CallsOf
        <3> QED
            BY <1>1, <3>1, OneOf DEF Answer
    <2>2. time' \in Nat /\ due' \in Nat \cup {Never}
        BY <1>1, InstantsOf DEF Answer
    <2>3. waitedResponse' \in [Ids -> Nat] /\ ot' \in [Ids -> Int]
        BY <1>1 DEF Answer, Typed
    <2> QED
        BY <1>1, <2>1, <2>2, <2>3 DEF Answer, Typed, busVars, streams
<1>2. CASE Discard(p)
    <2>1. time' \in Nat
        BY <1>2, InstantsOf DEF Discard
    <2> QED
        BY <1>2, <2>1 DEF Discard, Typed, busVars, profileVars, memory, streams, poll
<1>3. CASE ActivateStream(p)
    <2>1. todo' \in Seq(Calls)
        <3>1. Emit("ACTIVATION", p) \in Calls
            BY CallsOf DEF Types
        <3> QED
            BY <1>3, <3>1, OneOf DEF ActivateStream
    <2>2. due' \in Nat \cup {Never}
        BY <1>3, InstantsOf DEF ActivateStream
    <2>3. plays' \in Nat /\ activeStreams' \subseteq Ids
        BY <1>3 DEF ActivateStream, Typed
    <2>4. started' \in [Ids -> BOOLEAN] /\ startTime' \in [Ids -> Nat]
        BY <1>3 DEF ActivateStream, Typed
    <2> QED
        BY <1>3, <2>1, <2>2, <2>3, <2>4 DEF ActivateStream, Typed, busVars, memory
<1> QED
    BY <1>1, <1>2, <1>3

LEMMA TypedNext ==
    ASSUME Typed, [Next]_vars
    PROVE  Typed'
<1>1. CASE Next
    BY <1>1, TypedConfigure, TypedCache, TypedEmission, TypedDelivered, TypedMasterHears,
       TypedOtherHears, TypedMasterSends, TypedMasterRefused, TypedMasterIdle, TypedDelaySend,
       TypedCheckers, TypedEndWalk, TypedStreams, TypedReset, TypedAnswered, TypedPoll,
       TypedAdapter
    DEF Next, Step
<1>2. CASE UNCHANGED vars
    BY <1>2 DEF vars, profileVars, memory, streams, poll, Typed
<1> QED
    BY <1>1, <1>2

-----------------------------------------------------------------------------
(* No awaited event is lost. *)

\* A delivery that will reach p with the event w, or with the termination of
\* the profile that w is about.
Carries(c, w, p) ==
    /\ c.op = "notify" /\ p \in c.to
    /\ c.event = w \/ c.event = Event("TERMINATION", w.id)

LEMMA OnItsWayIs ==
    ASSUME NEW w, NEW p
    PROVE  OnItsWay(w, p) <=> \/ Subscription(w, p) \in waitEventMap
                              \/ \E c \in InProgress : Carries(c, w, p)
    BY DEF OnItsWay, Carries

\* What is delivered remains so when another call runs.
LEMMA CarriedOn ==
    ASSUME Typed, NEW C, Makes(C), NEW w, NEW p, OnItsWay(w, p), ~Carries(Head(todo), w, p),
           Subscription(w, p) \in waitEventMap => Subscription(w, p) \in waitEventMap'
    PROVE  OnItsWay(w, p)'
<1>1. InProgress' = C \cup Rest /\ InProgress = {Head(todo)} \cup Rest
    BY MakesOf
<1>2. CASE Subscription(w, p) \in waitEventMap
    BY <1>2 DEF OnItsWay
<1>3. CASE \E c \in InProgress : Carries(c, w, p)
    <2>1. PICK c \in Rest : Carries(c, w, p)
        BY <1>1, <1>3
    <2>2. c \in InProgress'
        BY <1>1, <2>1
    <2> QED
        BY <2>1, <2>2 DEF OnItsWay, Carries
<1> QED
    BY <1>2, <1>3, OnItsWayIs

\* The steps that neither await nor release anything.
LEMMA LeavesWaits ==
    ASSUME Typed, NoLostWait, NEW C, Makes(C), waited' = waited, waitEventMap' = waitEventMap,
           Head(todo).op = "notify" => Head(todo).to = {}
    PROVE  NoLostWait'
<1>1. ASSUME NEW p \in Ids, NEW w \in waited[p] PROVE OnItsWay(w, p)'
    <2>1. OnItsWay(w, p) /\ ~Carries(Head(todo), w, p)
        BY DEF NoLostWait, Carries
    <2> QED
        BY <2>1, CarriedOn
<1> QED
    BY <1>1 DEF NoLostWait

\* Configure and Reset: a profile awaits its configured events, and subscribes.
LEMMA AwaitsAgain ==
    ASSUME Typed, NoLostWait, NEW C, Makes(C), NEW p \in Ids, NEW waits,
           waited' = [waited EXCEPT ![p] = waits], waitEventMap' = Subscribed(waits, p),
           Head(todo).op # "notify"
    PROVE  NoLostWait'
<1>1. ASSUME NEW q \in Ids, NEW w \in waited'[q] PROVE OnItsWay(w, q)'
    <2>1. CASE q = p /\ w \in waits
        <3>1. Subscription(w, p) \in waitEventMap'
            BY <2>1 DEF Subscribed
        <3> QED
            BY <2>1, <3>1 DEF OnItsWay
    <2>2. CASE q # p
        <3>1. OnItsWay(w, q) /\ ~Carries(Head(todo), w, q)
            BY <1>1, <2>2 DEF NoLostWait, Carries, Typed
        <3>2. waitEventMap \subseteq waitEventMap'
            BY DEF Subscribed
        <3> QED
            BY <3>1, <3>2, CarriedOn
    <2> QED
        BY <1>1, <2>1, <2>2 DEF Typed
<1> QED
    BY <1>1 DEF NoLostWait

LEMMA NoLostWaitEmission ==
    ASSUME Typed, NoLostWait, Emission
    PROVE  NoLostWait'
<1> DEFINE p == Head(todo).profile
           type == Head(todo).type
           ev == Event(type, p)
<1>1. /\ p \in Ids /\ type \in Types /\ ev \in Events /\ Head(todo).op = "emit"
      /\ Makes(IF MayEmit(type, p) THEN {Notify(ev, Listeners(ev))} ELSE {})
      /\ ev.type = type /\ ev.id = p /\ waited' = waited
    BY EmitMakes DEF Emission, EmitEvent, Event
<1>2. ASSUME NEW q \in Ids, NEW w \in waited[q] PROVE OnItsWay(w, q)'
    <2>1. OnItsWay(w, q) /\ ~Carries(Head(todo), w, q)
        BY <1>1 DEF NoLostWait, Carries
    <2>2. CASE Subscription(w, q) \in waitEventMap => Subscription(w, q) \in waitEventMap'
        BY <1>1, <2>1, <2>2, CarriedOn
    <2>3. CASE Subscription(w, q) \in waitEventMap /\ Subscription(w, q) \notin waitEventMap'
        <3>1. MayEmit(type, p) /\ waitEventMap' = KeptSubscriptions(ev)
            BY <1>1, <2>3 DEF Emission, EmitEvent
        <3>2. Concerns(Subscription(w, q), ev)
            BY <2>3, <3>1 DEF KeptSubscriptions
        <3>3. q \in Listeners(ev)
            BY <2>3, <3>2 DEF Listeners, Subscription
        <3>4. w \in Events
            BY DEF Typed
        <3>5. ev = w \/ ev = Event("TERMINATION", w.id)
            <4>1. w.id = p /\ (type = "TERMINATION" \/ w.type = type)
                BY <1>1, <3>2 DEF Concerns, Subscription
            <4>2. w = [type |-> w.type, id |-> w.id]
                BY <3>4 DEF Events
            <4> QED
                BY <4>1, <4>2 DEF Event
        <3>6. Carries(Notify(ev, Listeners(ev)), w, q)
            BY <3>3, <3>5 DEF Carries, Notify
        <3>7. Notify(ev, Listeners(ev)) \in InProgress'
            BY <1>1, <3>1, MakesOf
        <3> QED
            BY <3>6, <3>7 DEF OnItsWay, Carries
    <2> QED
        BY <2>2, <2>3
<1> QED
    BY <1>1, <1>2 DEF NoLostWait

\* After a delivery a profile awaits what it awaited, less what it heard, and
\* what it subscribes to anew.
LEMMA NoLostWaitHears ==
    ASSUME Typed, NoLostWait, NEW p \in Ids, NEW C,
           Head(todo) = Notify(Head(todo).event, Head(todo).to), Head(todo).event \in Events,
           Makes(C \cup {Notify(Head(todo).event, Head(todo).to \ {p})}),
           NEW new \in SUBSET Events,
           new \cap waited[p] \subseteq StillWaited(p, Head(todo).event),
           waited' = [waited EXCEPT ![p] = StillWaited(p, Head(todo).event) \cup new],
           waitEventMap' = waitEventMap \cup {Subscription(w, p) : w \in new \ waited[p]}
    PROVE  NoLostWait'
<1> DEFINE ev == Head(todo).event
           to == Head(todo).to
           after == Notify(ev, to \ {p})
<1>1. InProgress' = (C \cup {after}) \cup Rest /\ InProgress = {Head(todo)} \cup Rest
    BY MakesOf
<1>2. waitEventMap \subseteq waitEventMap'
    OBVIOUS
<1>3. ASSUME NEW q \in Ids, q # p, NEW w \in waited'[q] PROVE OnItsWay(w, q)'
    <2>1. OnItsWay(w, q)
        BY <1>3 DEF NoLostWait, Typed
    <2>2. CASE Carries(Head(todo), w, q)
        <3>1. Carries(after, w, q)
            BY <1>3, <2>2 DEF Carries, Notify
        <3>2. after \in InProgress'
            BY <1>1
        <3> QED
            BY <3>1, <3>2 DEF OnItsWay, Carries
    <2>3. CASE ~Carries(Head(todo), w, q)
        BY <1>2, <2>1, <2>3, CarriedOn
    <2> QED
        BY <2>2, <2>3
<1>4. ASSUME NEW w \in waited'[p] PROVE OnItsWay(w, p)'
    <2>1. w \in StillWaited(p, ev) \/ w \in new
        BY <1>4 DEF Typed
    <2>2. CASE w \in StillWaited(p, ev)
        <3>1. w \in waited[p] /\ w \in Events
            BY <2>2 DEF StillWaited, Typed
        <3>2. OnItsWay(w, p)
            BY <3>1 DEF NoLostWait
        <3>3. ~Carries(Head(todo), w, p)
            <4>1. CASE ev.type = "TERMINATION"
                <5>1. w.id # ev.id
                    BY <2>2, <4>1 DEF StillWaited
                <5> QED
                    BY <5>1 DEF Carries, Event
            <4>2. CASE ev.type # "TERMINATION"
                <5>1. w # ev
                    BY <2>2, <4>2 DEF StillWaited
                <5> QED
                    BY <4>2, <5>1 DEF Carries, Event
            <4> QED
                BY <4>1, <4>2
        <3> QED
            BY <1>2, <3>2, <3>3, CarriedOn
    <2>3. CASE w \in new /\ w \notin waited[p]
        <3>1. Subscription(w, p) \in waitEventMap'
            BY <2>3
        <3> QED
            BY <3>1 DEF OnItsWay
    <2> QED
        BY <2>1, <2>2, <2>3
<1> QED
    BY <1>3, <1>4 DEF NoLostWait

LEMMA NoLostWaitMasterHears ==
    ASSUME Typed, NoLostWait, NEW p \in Ids, MasterHears(p)
    PROVE  NoLostWait'
<1> DEFINE ev == Head(todo).event
           to == Head(todo).to
           new == IF Flips(p, ev) THEN {Opposite(ev)} ELSE {}
           C == IF Starts(p, AwaitedBy(p, ev)) THEN {Emit("ACTIVATION", p)} ELSE {}
<1>1. ev \in Events /\ Head(todo) = Notify(ev, to) /\ Makes(C \cup {Notify(ev, to \ {p})})
    BY MasterHearsMakes
<1>2. Opposite(ev) \in Events /\ Opposite(ev) # ev
    BY <1>1 DEF Opposite, Events, Types
<1>3. new \cap waited[p] \subseteq StillWaited(p, ev)
    <2>1. ASSUME Flips(p, ev), Opposite(ev) \in waited[p] PROVE Opposite(ev) \in StillWaited(p, ev)
        <3>1. ev.type # "TERMINATION"
            BY <2>1 DEF Flips, Category
        <3> QED
            BY <1>2, <2>1, <3>1 DEF StillWaited
    <2> QED
        BY <2>1
<1>4. /\ waited' = [waited EXCEPT ![p] = StillWaited(p, ev) \cup new]
      /\ waitEventMap' = Subscribed((StillWaited(p, ev) \cup new) \ waited[p], p)
    BY DEF MasterHears, AwaitedBy
<1>5. (StillWaited(p, ev) \cup new) \ waited[p] = new \ waited[p]
    BY DEF StillWaited
<1>6. waitEventMap' = waitEventMap \cup {Subscription(w, p) : w \in new \ waited[p]}
    BY <1>4, <1>5 DEF Subscribed
<1>7. new \in SUBSET Events
    BY <1>2
<1> HIDE DEF C, new
<1> QED
    BY <1>1, <1>3, <1>4, <1>6, <1>7, NoLostWaitHears

LEMMA NoLostWaitOtherHears ==
    ASSUME Typed, NoLostWait, NEW p \in Ids, OtherHears(p)
    PROVE  NoLostWait'
<1> DEFINE ev == Head(todo).event
           to == Head(todo).to
           C == IF Of(p).role = "delay" /\ ~Waiting(StillWaited(p, ev), "PROFILE")
                THEN {Emit("ACTIVATION", p)} ELSE {}
<1>1. ev \in Events /\ Head(todo) = Notify(ev, to) /\ Makes(C \cup {Notify(ev, to \ {p})})
    BY OtherHearsMakes
<1>2. waited' = [waited EXCEPT ![p] = StillWaited(p, ev) \cup {}] /\ waitEventMap' = waitEventMap
    BY DEF OtherHears
<1> DEFINE new == {}
<1>3. waitEventMap' = waitEventMap \cup {Subscription(w, p) : w \in new \ waited[p]}
    BY <1>2
<1>4. new \in SUBSET Events /\ new \cap waited[p] \subseteq StillWaited(p, ev)
    OBVIOUS
<1>5. waited' = [waited EXCEPT ![p] = StillWaited(p, ev) \cup new]
    BY <1>2
<1> HIDE DEF C, new
<1> QED
    BY <1>1, <1>3, <1>4, <1>5, NoLostWaitHears

\* When no call is in progress, or none runs, only the subscriptions count.
LEMMA NoLostWaitIdle ==
    ASSUME NoLostWait, Quiet, waited' = waited, waitEventMap' = waitEventMap
    PROVE  NoLostWait'
<1>1. InProgress = {}
    BY DEF Quiet, InProgress
<1> QED
    BY <1>1 DEF NoLostWait, OnItsWay

\* The actions that run no event, configure or reset nothing.
LEMMA OthersMake ==
    ASSUME Typed, \/ StreamCacheUpdate \/ Delivered \/ MasterSends \/ MasterRefused \/ MasterIdle
                  \/ DelaySend \/ CheckerSkipped \/ EndWalk \/ AllAsked \/ Answered
                  \/ \E p \in Ids : CheckerRecords(p) \/ AskStream(p)
    PROVE  /\ \E C : Makes(C)
           /\ waited' = waited /\ waitEventMap' = waitEventMap
           /\ Head(todo).op = "notify" => Head(todo).to = {}
<1>1. CASE StreamCacheUpdate \/ Delivered \/ AllAsked
    <2>1. Makes({})
        BY <1>1, EndsMake DEF Delivered
    <2> QED
        BY <1>1, <2>1 DEF StreamCacheUpdate, Delivered, AllHeard, AllAsked, Running, busVars
<1>2. CASE MasterSends
    BY <1>2, MasterSendsMakes DEF MasterSends, busVars
<1>3. CASE MasterRefused
    BY <1>3, MasterRefusedMakes DEF MasterRefused, busVars
<1>4. CASE MasterIdle
    BY <1>4, MasterIdleMakes DEF MasterIdle, busVars
<1>5. CASE DelaySend
    BY <1>5, DelaySendMakes DEF DelaySend, busVars
<1>6. CASE CheckerSkipped
    BY <1>6, CheckerSkippedMakes DEF CheckerSkipped, busVars
<1>7. CASE EndWalk
    BY <1>7, EndWalkMakes DEF EndWalk, busVars
<1>8. CASE Answered
    BY <1>8, AnsweredMakes DEF Answered, busVars
<1>9. ASSUME NEW p \in Ids, CheckerRecords(p)
      PROVE  /\ \E C : Makes(C)
             /\ waited' = waited /\ waitEventMap' = waitEventMap /\ Head(todo).op # "notify"
    BY <1>9, CheckerRecordsMakes DEF CheckerRecords, busVars
<1>10. ASSUME NEW p \in Ids, AskStream(p)
       PROVE  /\ \E C : Makes(C)
              /\ waited' = waited /\ waitEventMap' = waitEventMap /\ Head(todo).op # "notify"
    BY <1>10, AskStreamMakes DEF AskStream, busVars
<1> QED
    BY <1>1, <1>2, <1>3, <1>4, <1>5, <1>6, <1>7, <1>8, <1>9, <1>10

LEMMA NoLostWaitNext ==
    ASSUME Typed, NoLostWait, [Next]_vars
    PROVE  NoLostWait'
<1>1. CASE Configure
    <2>1. /\ Head(todo).profile \in Ids /\ Head(todo).op # "notify" /\ \E C : Makes(C)
        BY <1>1, ConfigureMakes DEF On
    <2> QED
        BY <1>1, <2>1, AwaitsAgain DEF Configure
<1>2. CASE Reset
    <2>1. /\ Head(todo).profile \in Ids /\ Head(todo).op # "notify" /\ \E C : Makes(C)
        BY <1>2, ResetMakes
    <2> QED
        BY <1>2, <2>1, AwaitsAgain DEF Reset
<1>3. CASE Emission
    BY <1>3, NoLostWaitEmission
<1>4. ASSUME NEW p \in Ids, MasterHears(p) \/ OtherHears(p) PROVE NoLostWait'
    BY <1>4, NoLostWaitMasterHears, NoLostWaitOtherHears
<1>5. CASE \/ StreamCacheUpdate \/ Delivered \/ MasterSends \/ MasterRefused \/ MasterIdle
           \/ DelaySend \/ CheckerSkipped \/ EndWalk \/ AllAsked \/ Answered
           \/ \E p \in Ids : CheckerRecords(p) \/ AskStream(p)
    BY <1>5, OthersMake, LeavesWaits
<1>6. CASE Poll \/ \E p \in Ids : Answer(p) \/ ActivateStream(p)
    BY <1>6, NoLostWaitIdle DEF Poll, Answer, ActivateStream, busVars
<1>7. ASSUME NEW p \in Ids, Discard(p) PROVE NoLostWait'
    BY <1>7 DEF Discard, busVars, NoLostWait, OnItsWay, InProgress
<1>8. CASE UNCHANGED vars
    BY <1>8 DEF vars, NoLostWait, OnItsWay, InProgress
<1> QED
    BY <1>1, <1>2, <1>3, <1>4, <1>5, <1>6, <1>7, <1>8 DEF Next, Step

(* An event that a profile awaits is always subscribed to or on its way      *)
(* (EventManager::waitEvent, TrafficProfileManager::subscribe and event): in *)
(* any configuration, whatever the listeners emit in the middle of the       *)
(* deliveries, and however often streams are reset.                          *)
THEOREM NoWaitIsLost == Spec => []NoLostWait
<1>1. Init => NoLostWait
    BY DEF Init, NoLostWait
<1>2. Typed /\ NoLostWait /\ [Next]_vars => Typed' /\ NoLostWait'
    BY TypedNext, NoLostWaitNext
<1> QED
    BY <1>1, <1>2, TypedInit, PTL DEF Spec

-----------------------------------------------------------------------------
(* The calls in progress and the profiles they concern. *)

Stacked == Follows(todo, Under)

\* x fits over whatever the running call does.
Replaces(x) == \A y \in Calls : FitsOver(Head(todo), y) => FitsOver(x, y)

LEMMA ReplacesOf ==
    ASSUME NEW h \in Calls, h = Head(todo), NEW x \in Calls
    PROVE  /\ h.op \in {"walk", "streams", "answered"} => Replaces(x)
           /\ x.op = "emit" /\ x.type = "ACTIVATION" => Replaces(x)
           /\ h.op = "notify" /\ x.op = "notify" /\ x.event = h.event => Replaces(x)
           /\ h.op = "emit" /\ x.op = "notify" /\ x.event.type = h.type => Replaces(x)
           /\ h.op = "check" /\ x.op = "check" => Replaces(x)
           /\ h.op = "reset" /\ x.op = "reset" => Replaces(x)
           /\ \A p \in Ids : h.op = "check" /\ x = Emit("TERMINATION", p) => Replaces(x)
<1>1. CASE h.op \in {"walk", "streams", "answered"}
    BY <1>1 DEF Replaces, FitsOver
<1>2. CASE x.op = "emit" /\ x.type = "ACTIVATION"
    BY <1>2 DEF Replaces, FitsOver, Load, Resets, Activates, Speaks
<1>3. CASE h.op = "notify" /\ x.op = "notify" /\ x.event = h.event
    BY <1>3 DEF Replaces, FitsOver, Load, Resets, Activates, Speaks
<1>4. CASE h.op = "emit" /\ x.op = "notify" /\ x.event.type = h.type
    BY <1>4 DEF Replaces, FitsOver, Load, Resets, Activates, Speaks
<1>5. CASE h.op = "check" /\ x.op = "check"
    BY <1>5 DEF Replaces, FitsOver, Load, Resets, Activates, Speaks
<1>6. CASE h.op = "reset" /\ x.op = "reset"
    BY <1>6 DEF Replaces, FitsOver, Load, Resets, Activates, Speaks
<1>7. ASSUME NEW p \in Ids, h.op = "check", x = Emit("TERMINATION", p)
      PROVE  Replaces(x)
    BY <1>7 DEF Replaces, FitsOver, Load, Resets, Activates, Speaks, Emit
<1> QED
    BY <1>1, <1>2, <1>3, <1>4, <1>5, <1>6, <1>7

LEMMA StackedThen ==
    ASSUME Typed, Stacked, conf' = conf, NEW C, Makes(C),
           \A x \in C : \A y \in Rest : FitsOver(Head(todo), y) => FitsOver(x, y)
    PROVE  Stacked'
<1>1. PICK calls \in Seq(Calls) : Then(calls) /\ ToSet(calls) = C /\ Follows(calls, Under)
    BY DEF Makes
<1>2. todo # <<>> /\ todo \in Seq(Calls)
    BY DEF Makes, Typed
<1>3. /\ Tail(todo) \in Seq(Calls) /\ Follows(Tail(todo), Under)
      /\ \A y \in Rest : y \in Under[Head(todo)]
    BY <1>2, TailOf DEF Stacked, Rest
<1>4. Head(todo) \in Calls /\ Rest \subseteq Calls /\ C \subseteq Calls
    BY MakesOf
<1>5. \A x \in C : \A y \in Rest : y \in Under[x]
    BY <1>3, <1>4 DEF Under
<1>6. Follows(calls \o Tail(todo), Under)
    BY <1>1, <1>3, <1>5, ConcatOf DEF Rest
<1>7. Under' = Under
    BY DEF Under, FitsOver, FreeStart, Free, Of
<1> QED
    BY <1>1, <1>6, <1>7 DEF Stacked, Then

LEMMA StackedOf ==
    ASSUME Typed, Stacked, todo # <<>>
    PROVE  /\ \A y \in Rest : FitsOver(Head(todo), y)
           /\ Head(todo).op \in {"walk", "streams", "answered"} => Rest = {}
<1>1. Head(todo) \in Calls /\ \A y \in ToSet(Tail(todo)) : y \in Under[Head(todo)]
    BY TailOf DEF Stacked, Typed
<1>2. \A y \in Rest : FitsOver(Head(todo), y)
    BY <1>1 DEF Under, Rest
<1> QED
    BY <1>2 DEF FitsOver

\* The calls of C say nothing of terminations and configure nothing.
Mild(C) ==
    \A c \in C : /\ c.op \notin {"configure", "cache"}
                 /\ c.op = "emit" => c.type # "TERMINATION"
                 /\ c.op = "notify" => Head(todo).op = "notify" /\ c.event = Head(todo).event
                 /\ Replaces(c)

Silent(C) ==
    /\ Makes(C) /\ Mild(C)
    /\ Head(todo).op \notin {"configure", "emit"}
    /\ UNCHANGED <<terminated, emitted, nonTerminated>>

\* A profile terminates, and its TERMINATION is emitted next.
Ending(p, C) ==
    /\ Makes(C \cup {Emit("TERMINATION", p)}) /\ Mild(C)
    /\ Head(todo).op \in {"walk", "answered", "check"}
    /\ ~terminated[p]
    /\ terminated' = [terminated EXCEPT ![p] = TRUE]
    /\ UNCHANGED <<emitted, nonTerminated>>

\* A call that the adapter, or the memory, makes.
Begins(c) ==
    /\ Quiet /\ todo' = <<c>>
    /\ \/ \E n \in Nat : c = Walk(n)
       \/ \E p \in Ids : c = On("answered", p) \/ c = Emit("ACTIVATION", p)
    /\ UNCHANGED <<terminated, emitted, nonTerminated>>

Stays == UNCHANGED <<todo, terminated, emitted, nonTerminated>>

LEMMA MildWalk ==
    ASSUME Typed, Head(todo).op \in {"walk", "answered"}, NEW C, C \subseteq Calls,
           Head(todo) \in Calls,
           \A x \in C : \/ \E t \in Types \ {"TERMINATION"}, p \in Ids : x = Emit(t, p)
                        \/ \E k \in {"send", "receive"}, U \in SUBSET Ids : x = Check(k, U)
                        \/ \E n \in Nat : x = Walk(n)
                        \/ \E U \in SUBSET Ids : x = Ask(U)
    PROVE  Mild(C)
<1>1. ASSUME NEW x \in C
      PROVE  /\ x.op \in {"emit", "check", "walk", "streams"}
             /\ x.op = "emit" => x.type # "TERMINATION"
    BY DEF Emit, Check, Walk, Ask
<1>2. \A x \in C : Replaces(x)
    BY DEF Replaces, FitsOver
<1> QED
    BY <1>1, <1>2 DEF Mild

LEMMA WalkSteps ==
    ASSUME Typed, \/ MasterSends \/ MasterRefused \/ MasterIdle \/ DelaySend \/ CheckerSkipped
                  \/ EndWalk
    PROVE  \/ \E C : Silent(C)
           \/ \E p \in Ids : \E C : Ending(p, C)
<1> USE DEF Types
<1>1. CASE MasterSends
    <2> DEFINE p == Polled
               C == (IF ~started[p] THEN {Emit("ACTIVATION", p)} ELSE {})
                    \cup {Emit("PROFILE_UNLOCKED", p)}
                    \cup (IF CheckersOf(p) = {} THEN {} ELSE {Check("send", CheckersOf(p))})
                    \cup {Head(todo)}
    <2>1. p \in Ids /\ Head(todo).op = "walk" /\ Makes(C) /\ Polls("master")
        BY <1>1, MasterSendsMakes DEF MasterSends
    <2>2. C \subseteq Calls /\ Head(todo) \in Calls
        BY <2>1, MakesOf
    <2>3. CheckersOf(p) \in SUBSET Ids /\ Head(todo) = Walk(Head(todo).at) /\ Head(todo).at \in Nat
        BY <2>1, PollsOf DEF CheckersOf
    <2>4. Mild(C)
        BY <2>1, <2>2, <2>3, MildWalk
    <2>5. UNCHANGED <<terminated, emitted, nonTerminated>>
        BY <1>1 DEF MasterSends, busVars
    <2> HIDE DEF C
    <2> QED
        BY <2>1, <2>4, <2>5 DEF Silent
<1>2. CASE MasterRefused
    <2> DEFINE p == Polled
    <2>1. p \in Ids /\ Head(todo).op = "walk"
        BY <1>2, MasterRefusedMakes
    <2>2. PICK n \in Nat \ {0} :
              Makes((IF ~started[p] THEN {Emit("ACTIVATION", p)} ELSE {})
                    \cup {Emit("PROFILE_LOCKED", p)} \cup {Walk(n)})
        BY <1>2, MasterRefusedMakes
    <2> DEFINE C == (IF ~started[p] THEN {Emit("ACTIVATION", p)} ELSE {})
                    \cup {Emit("PROFILE_LOCKED", p)} \cup {Walk(n)}
    <2>3. C \subseteq Calls /\ Head(todo) \in Calls
        BY <2>2, MakesOf
    <2>4. Mild(C)
        BY <2>1, <2>3, MildWalk
    <2>5. UNCHANGED <<terminated, emitted, nonTerminated>>
        BY <1>2 DEF MasterRefused, busVars
    <2> HIDE DEF C
    <2> QED
        BY <2>1, <2>2, <2>4, <2>5 DEF Silent, C
<1>3. CASE MasterIdle
    <2> DEFINE p == Polled
               ends == Terminates(p, ot[p])
    <2>1. p \in Ids /\ Head(todo).op = "walk"
        BY <1>3, MasterIdleMakes
    <2>2. PICK n \in Nat \ {0} :
              Makes((IF ends THEN {Emit("TERMINATION", p)}
                     ELSE IF terminated[p] THEN {} ELSE {Emit("PROFILE_LOCKED", p)})
                    \cup {Walk(n)})
        BY <1>3, MasterIdleMakes
    <2>3. /\ terminated' = [terminated EXCEPT ![p] = @ \/ ends]
          /\ UNCHANGED <<emitted, nonTerminated>>
        BY <1>3 DEF MasterIdle, busVars
    <2>4. CASE ends
        <3>1. Makes({Walk(n)} \cup {Emit("TERMINATION", p)})
            <4>1. {Emit("TERMINATION", p)} \cup {Walk(n)} = {Walk(n)} \cup {Emit("TERMINATION", p)}
                OBVIOUS
            <4> QED
                BY <2>2, <2>4, <4>1
        <3>2. {Walk(n)} \subseteq Calls /\ Head(todo) \in Calls
            BY <3>1, MakesOf
        <3>3. Mild({Walk(n)})
            BY <2>1, <3>2, MildWalk
        <3>4. ~terminated[p] /\ terminated' = [terminated EXCEPT ![p] = TRUE]
            BY <2>1, <2>3, <2>4 DEF Terminates, Typed
        <3> QED
            BY <2>1, <2>3, <3>1, <3>3, <3>4 DEF Ending
    <2>5. CASE ~ends
        <3> DEFINE C == (IF terminated[p] THEN {} ELSE {Emit("PROFILE_LOCKED", p)}) \cup {Walk(n)}
        <3>1. Makes(C)
            BY <2>2, <2>5
        <3>2. C \subseteq Calls /\ Head(todo) \in Calls
            BY <3>1, MakesOf
        <3>3. Mild(C)
            BY <2>1, <3>2, MildWalk
        <3>4. terminated' = terminated
            BY <2>1, <2>3, <2>5 DEF Typed
        <3> HIDE DEF C
        <3> QED
            BY <2>1, <2>3, <3>1, <3>3, <3>4 DEF Silent
    <2> QED
        BY <2>4, <2>5
<1>4. CASE DelaySend
    <2> DEFINE p == Polled
               begins == DelayBegun(p) /\ ~started[p]
               C1 == IF begins THEN {Emit("ACTIVATION", p)} ELSE {}
    <2>1. p \in Ids /\ Head(todo).op = "walk"
        BY <1>4, DelaySendMakes
    <2>2. PICK n \in Nat \ {0} :
              Makes(C1 \cup (IF DelayEnds(p) THEN {Emit("TERMINATION", p)} ELSE {}) \cup {Walk(n)})
        BY <1>4, DelaySendMakes
    <2>3. /\ terminated' = [terminated EXCEPT ![p] = @ \/ DelayEnds(p)]
          /\ UNCHANGED <<emitted, nonTerminated>>
        BY <1>4 DEF DelaySend, busVars, DelayEnds, DelayBegun, DelayFrom
    <2> DEFINE C == C1 \cup {Walk(n)}
    <2>4. C \subseteq Calls /\ Head(todo) \in Calls
        BY <2>2, MakesOf
    <2>5. Mild(C)
        BY <2>1, <2>4, MildWalk
    <2>6. CASE DelayEnds(p)
        <3>1. Makes(C \cup {Emit("TERMINATION", p)})
            <4>1. C1 \cup {Emit("TERMINATION", p)} \cup {Walk(n)} = C \cup {Emit("TERMINATION", p)}
                OBVIOUS
            <4> QED
                BY <2>2, <2>6, <4>1
        <3>2. ~terminated[p] /\ terminated' = [terminated EXCEPT ![p] = TRUE]
            BY <2>1, <2>3, <2>6 DEF DelayEnds, Typed
        <3> HIDE DEF C
        <3> QED
            BY <2>1, <2>3, <2>5, <3>1, <3>2 DEF Ending
    <2>7. CASE ~DelayEnds(p)
        <3>1. Makes(C)
            <4>1. C1 \cup {} \cup {Walk(n)} = C
                OBVIOUS
            <4> QED
                BY <2>2, <2>7, <4>1
        <3>2. terminated' = terminated
            BY <2>1, <2>3, <2>7 DEF Typed
        <3> HIDE DEF C
        <3> QED
            BY <2>1, <2>3, <2>5, <3>1, <3>2 DEF Silent
    <2> QED
        BY <2>6, <2>7
<1>5. CASE CheckerSkipped
    <2>1. PICK n \in Nat \ {0} : Makes({Walk(n)})
        BY <1>5, CheckerSkippedMakes
    <2>2. {Walk(n)} \subseteq Calls /\ Head(todo) \in Calls /\ Head(todo).op = "walk"
        BY <1>5, <2>1, MakesOf, CheckerSkippedMakes
    <2>3. Mild({Walk(n)})
        BY <2>2, MildWalk
    <2> QED
        BY <1>5, <2>1, <2>2, <2>3 DEF Silent, CheckerSkipped, busVars, profileVars
<1>6. CASE EndWalk
    <2>1. Makes({Ask(activeStreams)}) /\ Head(todo).op = "walk"
        BY <1>6, EndWalkMakes
    <2>2. {Ask(activeStreams)} \subseteq Calls /\ Head(todo) \in Calls /\ activeStreams \in SUBSET Ids
        BY <2>1, MakesOf DEF Typed
    <2>3. Mild({Ask(activeStreams)})
        BY <2>1, <2>2, MildWalk
    <2> QED
        BY <1>6, <2>1, <2>3 DEF Silent, EndWalk, busVars, profileVars
<1> QED
    BY <1>1, <1>2, <1>3, <1>4, <1>5, <1>6

LEMMA OtherSteps ==
    ASSUME Typed, \/ StreamCacheUpdate \/ Delivered \/ AllAsked \/ Answered
                  \/ \E p \in Ids : MasterHears(p) \/ OtherHears(p) \/ CheckerRecords(p) \/ AskStream(p)
    PROVE  \/ \E C : Silent(C)
           \/ \E p \in Ids : \E C : Ending(p, C)
<1>1. CASE StreamCacheUpdate \/ Delivered \/ AllAsked
    <2>1. Makes({})
        BY <1>1, EndsMake DEF Delivered
    <2>2. Mild({})
        BY DEF Mild
    <2>3. UNCHANGED <<terminated, emitted, nonTerminated>>
        BY <1>1 DEF StreamCacheUpdate, Delivered, AllHeard, AllAsked, busVars, profileVars
    <2>4. Head(todo).op \in {"cache", "notify", "streams"}
        BY <1>1 DEF StreamCacheUpdate, Delivered, AllHeard, AllAsked, Running
    <2> QED
        BY <2>1, <2>2, <2>3, <2>4 DEF Silent
<1>2. CASE Answered
    <2> DEFINE p == Head(todo).profile
               b == Terminates(p, ot[p])
               C == IF CheckersOf(p) = {} THEN {} ELSE {Check("receive", CheckersOf(p))}
    <2>1. /\ p \in Ids /\ Head(todo).op = "answered"
          /\ Makes((IF b THEN {Emit("TERMINATION", p)} ELSE {}) \cup C)
        BY <1>2, AnsweredMakes
    <2>2. C \subseteq Calls /\ Head(todo) \in Calls
        <3> HIDE DEF C, b
        <3>1. (IF b THEN {Emit("TERMINATION", p)} ELSE {}) \cup C \subseteq Calls /\ Head(todo) \in Calls
            BY <2>1, MakesOf
        <3> QED
            BY <3>1
    <2>3. Mild(C)
        BY <2>1, <2>2, MildWalk DEF CheckersOf
    <2>4. terminated' = [terminated EXCEPT ![p] = @ \/ b] /\ UNCHANGED <<emitted, nonTerminated>>
        BY <1>2 DEF Answered, busVars
    <2>5. CASE b
        <3>1. Makes(C \cup {Emit("TERMINATION", p)})
            <4>1. {Emit("TERMINATION", p)} \cup C = C \cup {Emit("TERMINATION", p)}
                OBVIOUS
            <4> QED
                BY <2>1, <2>5, <4>1
        <3>2. ~terminated[p] /\ terminated' = [terminated EXCEPT ![p] = TRUE]
            BY <2>1, <2>4, <2>5 DEF Terminates, Typed
        <3> HIDE DEF C
        <3> QED
            BY <2>1, <2>3, <2>4, <3>1, <3>2 DEF Ending
    <2>6. CASE ~b
        <3>1. Makes(C)
            <4>1. {} \cup C = C
                OBVIOUS
            <4> QED
                BY <2>1, <2>6, <4>1
        <3>2. terminated' = terminated
            BY <2>1, <2>4, <2>6 DEF Typed
        <3> HIDE DEF C
        <3> QED
            BY <2>1, <2>3, <2>4, <3>1, <3>2 DEF Silent
    <2> QED
        BY <2>5, <2>6
<1>3. ASSUME NEW p \in Ids, MasterHears(p) \/ OtherHears(p) PROVE \E C : Silent(C)
    <2> DEFINE ev == Head(todo).event
               d == Notify(ev, Head(todo).to \ {p})
    <2>1. PICK b \in BOOLEAN : /\ Head(todo) = Notify(ev, Head(todo).to)
                               /\ Makes((IF b THEN {Emit("ACTIVATION", p)} ELSE {}) \cup {d})
        <3>1. CASE MasterHears(p)
            <4>1. Starts(p, AwaitedBy(p, ev)) \in BOOLEAN
                BY DEF Starts
            <4> QED
                BY <3>1, <4>1, MasterHearsMakes
        <3>2. CASE OtherHears(p)
            <4> DEFINE c == Of(p).role = "delay" /\ ~Waiting(StillWaited(p, ev), "PROFILE")
            <4>1. c \in BOOLEAN
                OBVIOUS
            <4>2. /\ Head(todo) = Notify(ev, Head(todo).to)
                  /\ Makes((IF c THEN {Emit("ACTIVATION", p)} ELSE {}) \cup {d})
                BY <3>2, OtherHearsMakes
            <4> HIDE DEF c
            <4> QED
                BY <4>1, <4>2
        <3> QED
            BY <1>3, <3>1, <3>2
    <2> DEFINE C == (IF b THEN {Emit("ACTIVATION", p)} ELSE {}) \cup {d}
    <2>2. Head(todo) \in Calls /\ C \subseteq Calls /\ Head(todo).op = "notify"
        BY <2>1, MakesOf DEF Notify
    <2>3. Mild(C)
        <3>1. d.op = "notify" /\ d.event = ev /\ Replaces(d)
            <4>1. d.op = "notify" /\ d.event = ev /\ d \in Calls
                BY <2>2 DEF Notify
            <4> QED
                BY <2>2, <4>1, ReplacesOf
        <3>2. ASSUME b
              PROVE  /\ Emit("ACTIVATION", p).op = "emit" /\ Emit("ACTIVATION", p).type = "ACTIVATION"
                     /\ Replaces(Emit("ACTIVATION", p))
            <4>1. /\ Emit("ACTIVATION", p).op = "emit" /\ Emit("ACTIVATION", p).type = "ACTIVATION"
                  /\ Emit("ACTIVATION", p) \in Calls
                BY <2>2, <3>2 DEF Emit
            <4> QED
                BY <2>2, <4>1, ReplacesOf
        <3> HIDE DEF d
        <3> QED
            BY <2>2, <3>1, <3>2 DEF Mild
    <2>4. UNCHANGED <<terminated, emitted, nonTerminated>>
        BY <1>3 DEF MasterHears, OtherHears, profileVars
    <2> HIDE DEF C
    <2> QED
        BY <2>1, <2>2, <2>3, <2>4 DEF Silent, C
<1>4. ASSUME NEW c \in Ids, CheckerRecords(c)
      PROVE  (\E C : Silent(C)) \/ \E C : Ending(c, C)
    <2> DEFINE to == Head(todo).to \ {c}
               k == Head(todo).kind
               ends == waited[c] = {} /\ ~terminated[c]
               C == IF to = {} THEN {} ELSE {Check(k, to)}
    <2>1. /\ Head(todo).op = "check"
          /\ Makes((IF ends THEN {Emit("TERMINATION", c)} ELSE {}) \cup C)
        BY <1>4, CheckerRecordsMakes
    <2>2. C \subseteq Calls /\ Head(todo) \in Calls
        <3> HIDE DEF C, ends
        <3>1. (IF ends THEN {Emit("TERMINATION", c)} ELSE {}) \cup C \subseteq Calls /\ Head(todo) \in Calls
            BY <2>1, MakesOf
        <3> QED
            BY <3>1
    <2>3. Mild(C)
        <3>1. ASSUME to # {} PROVE Check(k, to).op = "check" /\ Replaces(Check(k, to))
            <4>1. Check(k, to).op = "check" /\ Check(k, to) \in Calls
                BY <2>2, <3>1 DEF Check
            <4> QED
                BY <2>1, <2>2, <4>1, ReplacesOf
        <3> QED
            BY <3>1 DEF Mild
    <2>4. terminated' = [terminated EXCEPT ![c] = @ \/ ends] /\ UNCHANGED <<emitted, nonTerminated>>
        BY <1>4 DEF CheckerRecords, busVars
    <2>5. CASE ends
        <3>1. Makes(C \cup {Emit("TERMINATION", c)})
            <4>1. {Emit("TERMINATION", c)} \cup C = C \cup {Emit("TERMINATION", c)}
                OBVIOUS
            <4> QED
                BY <2>1, <2>5, <4>1
        <3>2. ~terminated[c] /\ terminated' = [terminated EXCEPT ![c] = TRUE]
            BY <2>4, <2>5 DEF Typed
        <3> HIDE DEF C
        <3> QED
            BY <2>1, <2>3, <2>4, <3>1, <3>2 DEF Ending
    <2>6. CASE ~ends
        <3>1. Makes(C)
            <4>1. {} \cup C = C
                OBVIOUS
            <4> QED
                BY <2>1, <2>6, <4>1
        <3>2. terminated' = terminated
            BY <2>4, <2>6 DEF Typed
        <3> HIDE DEF C
        <3> QED
            BY <2>1, <2>3, <2>4, <3>1, <3>2 DEF Silent
    <2> QED
        BY <2>5, <2>6
<1>5. ASSUME NEW r \in Ids, AskStream(r) PROVE \E C : Silent(C)
    <2> DEFINE C == {On("reset", p) : p \in ResetNow(r)} \cup {Ask(Head(todo).left \ {r})}
    <2>1. Head(todo).op = "streams" /\ Makes(C)
        BY <1>5, AskStreamMakes
    <2>2. C \subseteq Calls /\ Head(todo) \in Calls
        BY <2>1, MakesOf
    <2>3. \A x \in C : x.op \in {"reset", "streams"} /\ Replaces(x)
        <3>1. \A x \in C : x.op \in {"reset", "streams"}
            BY DEF On, Ask
        <3> HIDE DEF C
        <3> QED
            BY <2>1, <2>2, <3>1, ReplacesOf
    <2> HIDE DEF C
    <2>4. Mild(C)
        BY <2>3 DEF Mild
    <2> QED
        BY <1>5, <2>1, <2>4 DEF Silent, AskStream, busVars, profileVars
<1> QED
    BY <1>1, <1>2, <1>3, <1>4, <1>5

LEMMA AdapterSteps ==
    ASSUME Poll \/ \E p \in Ids : Answer(p) \/ ActivateStream(p)
    PROVE  \E c : Begins(c)
<1>1. CASE Poll
    BY <1>1 DEF Poll, Begins, busVars, profileVars
<1>2. ASSUME NEW p \in Ids, Answer(p) PROVE Begins(On("answered", p))
    BY <1>2 DEF Answer, Begins, busVars
<1>3. ASSUME NEW p \in Ids, ActivateStream(p) PROVE Begins(Emit("ACTIVATION", p))
    BY <1>3 DEF ActivateStream, Begins, busVars
<1> QED
    BY <1>1, <1>2, <1>3

LEMMA StepsAre ==
    ASSUME Typed, [Next]_vars
    PROVE  /\ conf' = conf /\ owner' = owner
           /\ \/ Configure \/ Reset \/ Emission
              \/ \E C : Silent(C)
              \/ \E p \in Ids : \E C : Ending(p, C)
              \/ \E c : Begins(c)
              \/ Stays
<1>1. conf' = conf /\ owner' = owner
    BY DEF Next, Step, Configure, StreamCacheUpdate, Emission, EmitEvent, Delivered, AllHeard,
           MasterHears, OtherHears, MasterSends, MasterRefused, MasterIdle, DelaySend,
           CheckerSkipped, CheckerRecords, EndWalk, AskStream, AllAsked, Reset, Answered,
           Poll, Answer, Discard, ActivateStream, vars
<1>2. CASE \E p \in Ids : Discard(p)
    BY <1>2 DEF Discard, Stays, busVars, profileVars
<1>3. CASE UNCHANGED vars
    BY <1>3 DEF vars, Stays, profileVars
<1> QED
    BY <1>1, <1>2, <1>3, WalkSteps, OtherSteps, AdapterSteps DEF Next, Step

-----------------------------------------------------------------------------
(* Terminations are announced once. *)

Tells(c, p) == c.op = "notify" /\ c.event = Event("TERMINATION", p)

\* What is about to be announced, or is being announced, has happened.
Announced ==
    \A p \in Ids : \A c \in InProgress :
        c = Emit("TERMINATION", p) \/ Tells(c, p) => terminated[p]

\* No profile runs before all files are loaded.
LoadingFirst == (\E c \in InProgress : Load(c)) => \A p \in Ids : ~terminated[p]

\* What has not happened, or is about to be announced, was not yet announced.
Unsaid ==
    \A p \in Ids : ~terminated[p] \/ Emit("TERMINATION", p) \in InProgress
                   => emitted[p]["PROFILE"].type # "TERMINATION"

Owned == owner = [p \in Ids |-> Of(p).owner]

Orderly == Stacked /\ Announced /\ LoadingFirst /\ Unsaid /\ Owned

LEMMA LoadingFits ==
    ASSUME conf \in Configs
    PROVE  Follows(Loading(conf.files), Under)
<1> DEFINE files == conf.files
           part == [f \in DOMAIN files |-> Append(Each("configure", files[f]), Cache)]
           N == Len(files)
<1>1. /\ files \in Seq(Seq(Ids)) /\ DOMAIN files = 1..N /\ N \in Nat
      /\ \A f \in DOMAIN files : files[f] \in Seq(Ids)
    <2>1. files \in Seq(Seq(Ids))
        BY ConfigsAssumption DEF Configuration
    <2> QED
        BY <2>1, LenProperties
<1>2. \A f, g \in DOMAIN files : \A i \in DOMAIN files[f], j \in DOMAIN files[g] :
          files[f][i] = files[g][j] => f = g /\ i = j
    BY ConfigsAssumption
<1>3. \A p, q \in Ids : p # q /\ Precedes(conf, p, q)
                           => On("configure", q) \in Under[On("configure", p)]
    <2>1. TAKE p, q \in Ids
    <2>2. On("configure", p) \in Calls /\ On("configure", q) \in Calls
        BY CallsOf
    <2>3. p # q /\ Precedes(conf, p, q) => FitsOver(On("configure", p), On("configure", q))
        BY DEF FitsOver, On, Load, Resets, Speaks
    <2> QED
        BY <2>2, <2>3 DEF Under
<1>4. \A p \in Ids : Cache \in Under[On("configure", p)]
    <2>1. TAKE p \in Ids
    <2>2. On("configure", p) \in Calls /\ Cache \in Calls
        BY CallsOf
    <2>3. FitsOver(On("configure", p), Cache)
        BY DEF FitsOver, On, Cache, Load, Resets, Speaks
    <2> QED
        BY <2>2, <2>3 DEF Under
<1>5. N > 1 => /\ Cache \in Under[Cache]
               /\ \A p \in Ids : On("configure", p) \in Under[Cache]
    <2> SUFFICES ASSUME N > 1
                 PROVE  /\ Cache \in Under[Cache]
                        /\ \A p \in Ids : On("configure", p) \in Under[Cache]
        OBVIOUS
    <2>1. Cache \in Calls /\ \A p \in Ids : On("configure", p) \in Calls
        BY CallsOf
    <2>2. ~(Len(conf.files) <= 1)
        BY <1>1
    <2>3. FitsOver(Cache, Cache)
        BY <2>2 DEF FitsOver, Cache, Load, Resets, Speaks
    <2>4. \A p \in Ids : FitsOver(Cache, On("configure", p))
        BY <2>2 DEF FitsOver, Cache, On, Load, Resets, Speaks
    <2> QED
        BY <2>1, <2>3, <2>4 DEF Under
<1>6. ASSUME NEW f \in DOMAIN files
      PROVE  /\ part[f] \in Seq(Calls) /\ Follows(part[f], Under)
             /\ ToSet(part[f]) = {On("configure", p) : p \in ToSet(files[f])} \cup {Cache}
    <2> DEFINE s == Each("configure", files[f])
    <2>1. /\ s \in Seq(Calls) /\ ToSet(s) = {On("configure", p) : p \in ToSet(files[f])}
          /\ DOMAIN s = DOMAIN files[f]
        BY <1>1, EachOf
    <2>2. <<Cache>> \in Seq(Calls) /\ ToSet(<<Cache>>) = {Cache} /\ Follows(<<Cache>>, Under)
        BY CallsOf, OneOf
    <2>3. DOMAIN files[f] = 1..Len(files[f]) /\ Len(files[f]) \in Nat /\ ToSet(files[f]) \subseteq Ids
        BY <1>1, LenProperties, ToSetOf
    <2>4. Follows(s, Under)
        <3>1. ASSUME NEW i \in DOMAIN s, NEW j \in DOMAIN s, i < j PROVE s[j] \in Under[s[i]]
            <4>1. i \in DOMAIN files[f] /\ j \in DOMAIN files[f]
                BY <2>1
            <4>2. files[f][i] \in Ids /\ files[f][j] \in Ids
                BY <4>1, <2>3 DEF ToSet
            <4>3. i # j
                BY <2>3, <3>1, <4>1
            <4>4. files[f][i] # files[f][j]
                BY <1>2, <4>1, <4>3
            <4>5. s[i] = On("configure", files[f][i]) /\ s[j] = On("configure", files[f][j])
                BY <4>1 DEF Each
            <4>6. Precedes(conf, files[f][i], files[f][j])
                BY <3>1, <4>1 DEF Precedes
            <4> QED
                BY <1>3, <4>2, <4>4, <4>5, <4>6
        <3> HIDE DEF s
        <3> QED
            BY <3>1 DEF Follows
    <2>5. \A x \in ToSet(s) : \A y \in ToSet(<<Cache>>) : y \in Under[x]
        BY <1>4, <2>1, <2>2, <2>3
    <2> HIDE DEF s
    <2>6. part[f] = s \o <<Cache>>
        BY <2>1, CallsOf, AppendIsConcat DEF s
    <2>7. /\ s \o <<Cache>> \in Seq(Calls) /\ ToSet(s \o <<Cache>>) = ToSet(s) \cup ToSet(<<Cache>>)
          /\ Follows(s \o <<Cache>>, Under)
        BY <2>1, <2>2, <2>4, <2>5, JoinOf
    <2> HIDE DEF part
    <2> QED
        BY <2>1, <2>2, <2>6, <2>7
<1>7. DOMAIN part = DOMAIN files
    OBVIOUS
<1> HIDE DEF part
<1>8. part \in Seq(Seq(Calls))
    <2>1. part \in [1..N -> Seq(Calls)]
        <3>1. part = [f \in 1..N |-> part[f]]
            BY <1>1 DEF part
        <3> QED
            BY <1>1, <1>6, <3>1
    <2> QED
        BY <1>1, <2>1, SeqDef
<1>9. InLine(part, Under)
    <2>1. ASSUME NEW f \in DOMAIN part, NEW g \in DOMAIN part, f < g,
                 NEW x \in ToSet(part[f]), NEW y \in ToSet(part[g])
          PROVE  y \in Under[x]
        <3>1. N > 1 /\ f # g
            BY <1>1, <1>7, <2>1
        <3>2. ASSUME NEW p \in ToSet(files[f]), NEW q \in ToSet(files[g])
              PROVE  p \in Ids /\ q \in Ids /\ p # q /\ Precedes(conf, p, q)
            <4>1. PICK i \in DOMAIN files[f] : p = files[f][i]
                BY DEF ToSet
            <4>2. PICK j \in DOMAIN files[g] : q = files[g][j]
                BY DEF ToSet
            <4>3. p \in Ids /\ q \in Ids
                BY <1>1, <1>7, ToSetOf
            <4>4. Precedes(conf, p, q)
                BY <1>7, <2>1, <4>1, <4>2 DEF Precedes
            <4> QED
                BY <1>2, <1>7, <3>1, <4>1, <4>2, <4>3, <4>4
        <3>3. ToSet(files[f]) \subseteq Ids /\ ToSet(files[g]) \subseteq Ids
            BY <1>1, <1>7, ToSetOf
        <3>4. /\ x \in {On("configure", p) : p \in ToSet(files[f])} \cup {Cache}
              /\ y \in {On("configure", p) : p \in ToSet(files[g])} \cup {Cache}
            BY <1>6, <1>7, <2>1
        <3>5. CASE x = Cache
            BY <1>5, <3>1, <3>3, <3>4, <3>5
        <3>6. CASE \E p \in ToSet(files[f]) : x = On("configure", p)
            BY <1>3, <1>4, <3>2, <3>3, <3>4, <3>6
        <3> QED
            BY <3>4, <3>5, <3>6
    <2> QED
        BY <1>6, <1>7, <2>1 DEF InLine
<1>10. Follows(FlattenSeq(part), Under)
    BY <1>8, <1>9, FlattenOf
<1> QED
    BY <1>10 DEF part, Loading

LEMMA OrderlyInit == Init => Orderly
<1> SUFFICES ASSUME Init PROVE Orderly
    OBVIOUS
<1>1. conf \in Configs /\ Typed
    BY TypedInit DEF Init
<1>2. Stacked
    BY <1>1, LoadingFits DEF Init, Stacked
<1>3. Announced /\ LoadingFirst
    <2>1. \A c \in InProgress : c.op \in {"configure", "cache"}
        <3>1. conf.files \in Seq(Seq(Ids))
            BY <1>1, ConfigsAssumption DEF Configuration
        <3>2. \A c \in ToSet(Loading(conf.files)) : c.op \in {"configure", "cache"}
            BY <3>1, LoadingOf DEF On, Cache
        <3>3. InProgress = ToSet(todo)
            BY DEF InProgress, ToSet
        <3> QED
            BY <3>2, <3>3 DEF Init
    <2>2. \A p \in Ids : ~terminated[p]
        BY DEF Init
    <2>3. \A c \in InProgress, p \in Ids : c # Emit("TERMINATION", p) /\ ~Tells(c, p)
        BY <2>1 DEF Tells, Emit
    <2> QED
        BY <2>2, <2>3 DEF Announced, LoadingFirst
<1>4. Unsaid
    BY DEF Init, Unsaid, NoneSent, Categories
<1>5. Owned
    BY DEF Init, Owned, Of
<1> QED
    BY <1>2, <1>3, <1>4, <1>5 DEF Orderly

-----------------------------------------------------------------------------

LEMMA ResetRest ==
    ASSUME Typed, Stacked, todo # <<>>, Head(todo).op \in {"reset", "streams"}
    PROVE  \A y \in Rest : \/ y.op \in {"reset", "streams"}
                           \/ y.op = "emit" /\ y.type = "ACTIVATION"
<1>1. \A y \in Rest : Resets(y) \/ FreeStart(y)
    BY StackedOf DEF FitsOver, Resets
<1> QED
    BY <1>1 DEF Resets, FreeStart, Emit

LEMMA StackedNext ==
    ASSUME Typed, Orderly, [Next]_vars
    PROVE  Stacked'
<1>1. conf' = conf /\ Stacked /\ Announced
    BY StepsAre DEF Orderly
<1>2. CASE Configure
    <2> DEFINE p == Head(todo).profile
               C == IF Free(p) THEN {Emit("ACTIVATION", p)} ELSE {}
    <2>1. Makes(C)
        BY <1>2, ConfigureMakes
    <2>2. C \subseteq Calls /\ Head(todo) \in Calls /\ Rest \subseteq Calls
        BY <2>1, MakesOf
    <2>3. \A x \in C : Replaces(x)
        BY <2>2, ReplacesOf DEF Emit
    <2> HIDE DEF C
    <2>4. \A x \in C : \A y \in Rest : FitsOver(Head(todo), y) => FitsOver(x, y)
        BY <2>2, <2>3 DEF Replaces
    <2> QED
        BY <1>1, <2>1, <2>4, StackedThen
<1>3. CASE Reset
    <2> DEFINE p == Head(todo).profile
               C == {On("reset", c) : c \in CheckersOf(p)}
                    \cup (IF Free(p) THEN {Emit("ACTIVATION", p)} ELSE {})
    <2>1. Makes(C) /\ Head(todo).op = "reset"
        BY <1>3, ResetMakes
    <2>2. C \subseteq Calls /\ Head(todo) \in Calls /\ Rest \subseteq Calls
        BY <2>1, MakesOf
    <2>3. \A x \in C : x.op = "reset" \/ (x.op = "emit" /\ x.type = "ACTIVATION")
        BY DEF Emit, On
    <2> HIDE DEF C
    <2>4. \A x \in C : Replaces(x)
        BY <2>1, <2>2, <2>3, ReplacesOf
    <2>5. \A x \in C : \A y \in Rest : FitsOver(Head(todo), y) => FitsOver(x, y)
        BY <2>2, <2>4 DEF Replaces
    <2> QED
        BY <1>1, <2>1, <2>5, StackedThen
<1>4. CASE Emission
    <2> DEFINE type == Head(todo).type
               ev == Event(type, Head(todo).profile)
               C == IF MayEmit(type, Head(todo).profile) THEN {Notify(ev, Listeners(ev))} ELSE {}
    <2>1. Makes(C) /\ Head(todo).op = "emit"
        BY <1>4, EmitMakes DEF Emission
    <2>2. C \subseteq Calls /\ Head(todo) \in Calls /\ Rest \subseteq Calls
        BY <2>1, MakesOf
    <2>3. \A x \in C : x.op = "notify" /\ x.event.type = Head(todo).type
        BY DEF Notify, Event
    <2> HIDE DEF C
    <2>4. \A x \in C : Replaces(x)
        BY <2>1, <2>2, <2>3, ReplacesOf
    <2>5. \A x \in C : \A y \in Rest : FitsOver(Head(todo), y) => FitsOver(x, y)
        BY <2>2, <2>4 DEF Replaces
    <2> QED
        BY <1>1, <2>1, <2>5, StackedThen
<1>5. ASSUME NEW C, Silent(C) PROVE Stacked'
    <2>1. Makes(C) /\ \A x \in C : Replaces(x)
        BY <1>5 DEF Silent, Mild
    <2>2. Rest \subseteq Calls
        BY <2>1, MakesOf
    <2>3. \A x \in C : \A y \in Rest : FitsOver(Head(todo), y) => FitsOver(x, y)
        BY <2>1, <2>2 DEF Replaces
    <2> QED
        BY <1>1, <2>1, <2>3, StackedThen
<1>6. ASSUME NEW p \in Ids, NEW C, Ending(p, C) PROVE Stacked'
    <2> DEFINE e == Emit("TERMINATION", p)
               D == C \cup {e}
    <2>1. Makes(D) /\ Head(todo).op \in {"walk", "answered", "check"} /\ \A x \in C : Replaces(x)
        BY <1>6 DEF Ending, Mild
    <2>2. D \subseteq Calls /\ Head(todo) \in Calls /\ Rest \subseteq Calls /\ Rest \subseteq InProgress
        <3> HIDE DEF D
        <3> QED
            BY <2>1, MakesOf
    <2>3. e \in Calls
        BY <2>2
    <2>4. Replaces(e)
        BY <2>1, <2>2, <2>3, ReplacesOf
    <2> HIDE DEF e
    <2>5. \A y \in Rest : FitsOver(Head(todo), y) => FitsOver(e, y)
        BY <2>2, <2>4 DEF Replaces
    <2>6. \A x \in D : \A y \in Rest : FitsOver(Head(todo), y) => FitsOver(x, y)
        BY <2>1, <2>2, <2>5 DEF Replaces
    <2> HIDE DEF D
    <2> QED
        BY <1>1, <2>1, <2>6, StackedThen
<1>7. ASSUME NEW c, Begins(c) PROVE Stacked'
    <2>1. todo' = <<c>>
        BY <1>7 DEF Begins
    <2>2. \A i, j \in DOMAIN <<c>> : ~(i < j)
        OBVIOUS
    <2> QED
        BY <2>1, <2>2 DEF Stacked, Follows
<1>8. CASE Stays
    <2>1. Under' = Under
        BY <1>1 DEF Under, FitsOver, FreeStart, Free, Of
    <2> QED
        BY <1>1, <1>8, <2>1 DEF Stays, Stacked
<1> QED
    BY <1>2, <1>3, <1>4, <1>5, <1>6, <1>7, <1>8, StepsAre

\* What a step adds to the announcements in progress.
LEMMA MildTells ==
    ASSUME Typed, NEW C, NEW D, Makes(D), C \subseteq D, Mild(C)
    PROVE  /\ \A c \in C : ~Load(c)
           /\ \A c \in C, p \in Ids : c # Emit("TERMINATION", p)
           /\ \A c \in C, p \in Ids : Tells(c, p) => Tells(Head(todo), p)
<1> QED
    BY DEF Mild, Load, Tells, Emit

LEMMA OrderlySilent ==
    ASSUME Typed, Orderly, NEW C, Silent(C)
    PROVE  Announced' /\ LoadingFirst' /\ Unsaid'
<1>1. Makes(C) /\ Mild(C) /\ UNCHANGED <<terminated, emitted, nonTerminated>>
    BY DEF Silent
<1>2. InProgress' = C \cup Rest /\ InProgress = {Head(todo)} \cup Rest
    BY <1>1, MakesOf
<1>3. /\ \A c \in C : ~Load(c)
      /\ \A c \in C, p \in Ids : c # Emit("TERMINATION", p)
      /\ \A c \in C, p \in Ids : Tells(c, p) => Tells(Head(todo), p)
    BY <1>1, MildTells
<1>4. Announced'
    BY <1>1, <1>2, <1>3 DEF Orderly, Announced, Tells
<1>5. LoadingFirst'
    BY <1>1, <1>2, <1>3 DEF Orderly, LoadingFirst, Load
<1>6. Unsaid'
    BY <1>1, <1>2, <1>3 DEF Orderly, Unsaid
<1> QED
    BY <1>4, <1>5, <1>6

LEMMA OrderlyEnding ==
    ASSUME Typed, Orderly, NEW p \in Ids, NEW C, Ending(p, C)
    PROVE  Announced' /\ LoadingFirst' /\ Unsaid'
<1> DEFINE D == C \cup {Emit("TERMINATION", p)}
<1>1. /\ Makes(D) /\ Mild(C) /\ Head(todo).op \in {"walk", "answered", "check"}
      /\ ~terminated[p] /\ terminated' = [terminated EXCEPT ![p] = TRUE]
      /\ UNCHANGED <<emitted, nonTerminated>>
    BY DEF Ending
<1>2. InProgress' = D \cup Rest /\ InProgress = {Head(todo)} \cup Rest
    <2> HIDE DEF D
    <2> QED
        BY <1>1, MakesOf
<1>3. /\ \A c \in C : ~Load(c)
      /\ \A c \in C, q \in Ids : c # Emit("TERMINATION", q)
      /\ \A c \in C, q \in Ids : Tells(c, q) => Tells(Head(todo), q)
    BY <1>1, MildTells
<1>4. /\ \A q \in Ids : terminated'[q] = (terminated[q] \/ q = p)
      /\ \A q \in Ids : Emit("TERMINATION", q) = Emit("TERMINATION", p) => q = p
      /\ \A q \in Ids : ~Tells(Emit("TERMINATION", p), q)
      /\ ~Load(Emit("TERMINATION", p))
    BY <1>1 DEF Emit, Typed, Tells, Load
<1>5. Announced'
    BY <1>1, <1>2, <1>3, <1>4 DEF Orderly, Announced, Tells
<1>6. LoadingFirst'
    <2>1. todo # <<>>
        BY <1>1 DEF Makes
    <2>2. \A y \in Rest : ~Load(y)
        BY <1>1, <2>1, StackedOf DEF Orderly, FitsOver, Load, Activates
    <2> QED
        BY <1>2, <1>3, <1>4, <2>2 DEF LoadingFirst, Load
<1>7. Unsaid'
    BY <1>1, <1>2, <1>3, <1>4 DEF Orderly, Unsaid
<1> QED
    BY <1>5, <1>6, <1>7

LEMMA OrderlyConfigure ==
    ASSUME Typed, Orderly, Configure
    PROVE  Announced' /\ LoadingFirst' /\ Unsaid'
<1> DEFINE p == Head(todo).profile
           C == IF Free(p) THEN {Emit("ACTIVATION", p)} ELSE {}
<1>1. Makes(C) /\ UNCHANGED <<terminated, emitted>>
    BY ConfigureMakes DEF Configure
<1>2. /\ \A c \in C : ~Load(c)
      /\ \A c \in C, q \in Ids : c # Emit("TERMINATION", q) /\ ~Tells(c, q)
    BY DEF Emit, Load, Tells
<1> HIDE DEF C
<1>3. InProgress' = C \cup Rest /\ InProgress = {Head(todo)} \cup Rest
    BY <1>1, MakesOf
<1>4. Announced'
    BY <1>1, <1>2, <1>3 DEF Orderly, Announced, Tells
<1>5. LoadingFirst'
    BY <1>1, <1>2, <1>3 DEF Orderly, LoadingFirst, Load
<1>6. Unsaid'
    BY <1>1, <1>2, <1>3 DEF Orderly, Unsaid
<1> QED
    BY <1>4, <1>5, <1>6

\* Nothing is announced while profiles are reset.
LEMMA ResetAlone ==
    ASSUME Typed, Orderly, Reset
    PROVE  \A c \in InProgress' : /\ ~Load(c)
                                  /\ \A q \in Ids : c # Emit("TERMINATION", q) /\ ~Tells(c, q)
<1> DEFINE p == Head(todo).profile
           C == {On("reset", c) : c \in CheckersOf(p)}
                \cup (IF Free(p) THEN {Emit("ACTIVATION", p)} ELSE {})
<1>1. Makes(C) /\ Head(todo).op = "reset" /\ todo # <<>>
    BY ResetMakes DEF Makes
<1>2. \A c \in C : c.op = "reset" \/ (c.op = "emit" /\ c.type = "ACTIVATION")
    BY DEF Emit, On
<1> HIDE DEF C
<1>3. InProgress' = C \cup Rest
    BY <1>1, MakesOf
<1>4. \A c \in Rest : c.op \in {"reset", "streams"} \/ (c.op = "emit" /\ c.type = "ACTIVATION")
    BY <1>1, ResetRest DEF Orderly
<1> QED
    BY <1>2, <1>3, <1>4 DEF Load, Tells, Emit

LEMMA OrderlyReset ==
    ASSUME Typed, Orderly, Reset
    PROVE  Announced' /\ LoadingFirst' /\ Unsaid'
<1>1. \A c \in InProgress' : /\ ~Load(c)
                             /\ \A q \in Ids : c # Emit("TERMINATION", q) /\ ~Tells(c, q)
    BY ResetAlone
<1>2. Announced'
    BY <1>1 DEF Announced, Tells
<1>3. LoadingFirst'
    BY <1>1 DEF LoadingFirst, Load
<1>4. Unsaid'
    <2> DEFINE p == Head(todo).profile
    <2>1. /\ terminated' = [terminated EXCEPT ![p] = FALSE]
          /\ emitted' = [emitted EXCEPT ![p] = [c \in Categories |-> NoneSent]]
        BY DEF Reset
    <2>2. ASSUME NEW q \in Ids, ~terminated'[q] PROVE emitted'[q]["PROFILE"].type # "TERMINATION"
        <3>1. CASE q = p
            BY <2>1, <3>1 DEF Typed, NoneSent, Categories
        <3>2. CASE q # p
            BY <2>1, <2>2, <3>2 DEF Typed, Orderly, Unsaid
        <3> QED
            BY <3>1, <3>2
    <2> QED
        BY <1>1, <2>2 DEF Unsaid
<1> QED
    BY <1>2, <1>3, <1>4

LEMMA EmissionOf ==
    ASSUME Typed, Orderly, Emission
    PROVE  LET p == Head(todo).profile
               type == Head(todo).type IN
           /\ p \in Ids /\ Head(todo) = Emit(type, p)
           /\ \A q \in Ids : Emit("TERMINATION", q) \in InProgress' <=>
                                Emit("TERMINATION", q) \in InProgress /\ (type = "TERMINATION" => q # p)
           /\ \A q \in Ids, c \in InProgress' : Tells(c, q) => c \in InProgress \/ (type = "TERMINATION" /\ q = p)
           /\ \A c \in InProgress' : Load(c) => c \in InProgress
           /\ type = "TERMINATION" => MayEmit(type, p) /\ Emit(type, p) \in InProgress
           /\ InProgress \subseteq InProgress' \cup {Head(todo)}
<1> DEFINE p == Head(todo).profile
           type == Head(todo).type
           ev == Event(type, p)
           C == IF MayEmit(type, p) THEN {Notify(ev, Listeners(ev))} ELSE {}
<1>1. p \in Ids /\ type \in Types /\ Makes(C) /\ Head(todo) = Emit(type, p) /\ todo # <<>>
    BY EmitMakes DEF Emission, Makes
<1>2. /\ \A c \in C : ~Load(c)
      /\ \A c \in C, q \in Ids : c # Emit("TERMINATION", q)
      /\ \A c \in C, q \in Ids : Tells(c, q) => (type = "TERMINATION" /\ q = p)
    BY DEF Emit, Notify, Load, Tells, Event
<1> HIDE DEF C
<1>3. InProgress' = C \cup Rest /\ InProgress = {Head(todo)} \cup Rest
    BY <1>1, MakesOf
<1>4. type = "TERMINATION" => Emit("TERMINATION", p) \notin Rest
    BY <1>1, StackedOf DEF Orderly, FitsOver, Speaks, Emit
<1>5. \A q \in Ids : Emit("TERMINATION", q) = Emit(type, p) => type = "TERMINATION" /\ q = p
    BY DEF Emit
<1>6. type = "TERMINATION" => MayEmit(type, p)
    <2>1. ASSUME type = "TERMINATION" PROVE emitted[p]["PROFILE"].type # "TERMINATION"
        BY <1>1, <1>3, <2>1 DEF Orderly, Unsaid
    <2> QED
        BY <2>1 DEF MayEmit, Category
<1>7. \A q \in Ids : Emit("TERMINATION", q) \in InProgress' <=>
                        Emit("TERMINATION", q) \in InProgress /\ (type = "TERMINATION" => q # p)
    <2> TAKE q \in Ids
    <2>1. Emit("TERMINATION", q) \in InProgress' <=> Emit("TERMINATION", q) \in Rest
        BY <1>2, <1>3
    <2>2. Emit("TERMINATION", q) \in InProgress <=>
             Emit("TERMINATION", q) \in Rest \/ (type = "TERMINATION" /\ q = p)
        BY <1>1, <1>3, <1>5
    <2> QED
        BY <1>4, <2>1, <2>2
<1>8. \A q \in Ids, c \in InProgress' : Tells(c, q) => c \in InProgress \/ (type = "TERMINATION" /\ q = p)
    BY <1>2, <1>3
<1>9. \A c \in InProgress' : Load(c) => c \in InProgress
    BY <1>2, <1>3
<1>10. InProgress \subseteq InProgress' \cup {Head(todo)} /\ Emit(type, p) \in InProgress
    BY <1>1, <1>3
<1> QED
    BY <1>1, <1>6, <1>7, <1>8, <1>9, <1>10

LEMMA OrderlyEmission ==
    ASSUME Typed, Orderly, Emission
    PROVE  Announced' /\ LoadingFirst' /\ Unsaid'
<1> DEFINE p == Head(todo).profile
           type == Head(todo).type
<1>1. /\ p \in Ids /\ terminated' = terminated
      /\ \A q \in Ids : Emit("TERMINATION", q) \in InProgress' <=>
                           Emit("TERMINATION", q) \in InProgress /\ (type = "TERMINATION" => q # p)
      /\ \A q \in Ids, c \in InProgress' : Tells(c, q) => c \in InProgress \/ (type = "TERMINATION" /\ q = p)
      /\ \A c \in InProgress' : Load(c) => c \in InProgress
      /\ type = "TERMINATION" => Emit(type, p) \in InProgress
    BY EmissionOf DEF Emission, profileVars
<1>2. Announced'
    <2>1. ASSUME NEW q \in Ids, NEW c \in InProgress', c = Emit("TERMINATION", q) \/ Tells(c, q)
          PROVE  terminated[q]
        BY <1>1, <2>1 DEF Orderly, Announced
    <2> QED
        BY <1>1, <2>1 DEF Announced, Tells
<1>3. LoadingFirst'
    BY <1>1 DEF Orderly, LoadingFirst, Load
<1>4. Unsaid'
    <2>1. ASSUME NEW q \in Ids, ~terminated[q] \/ Emit("TERMINATION", q) \in InProgress'
          PROVE  emitted'[q]["PROFILE"].type # "TERMINATION"
        <3>1. emitted[q]["PROFILE"].type # "TERMINATION" /\ (type = "TERMINATION" => q # p)
            BY <1>1, <2>1 DEF Orderly, Unsaid, Announced
        <3>2. \/ emitted' = emitted
              \/ \E e : emitted' = [emitted EXCEPT ![p][Category(type)] = [type |-> type, time |-> e]]
            BY DEF Emission, EmitEvent, Event
        <3>3. CASE emitted' = emitted
            BY <3>1, <3>3
        <3>4. ASSUME NEW e, emitted' = [emitted EXCEPT ![p][Category(type)] = [type |-> type, time |-> e]]
              PROVE  emitted'[q]["PROFILE"].type # "TERMINATION"
            <4>1. CASE q # p
                BY <3>1, <3>4, <4>1 DEF Typed
            <4>2. CASE q = p
                <5>1. emitted'[q] = [emitted[q] EXCEPT ![Category(type)] = [type |-> type, time |-> e]]
                    BY <1>1, <3>4, <4>2 DEF Typed
                <5>2. emitted'[q]["PROFILE"] = IF Category(type) = "PROFILE" THEN [type |-> type, time |-> e]
                                                                       ELSE emitted[q]["PROFILE"]
                    BY <5>1 DEF Typed, Categories
                <5> QED
                    BY <3>1, <4>2, <5>2
            <4> QED
                BY <4>1, <4>2
        <3> QED
            BY <3>2, <3>3, <3>4
    <2> QED
        BY <1>1, <2>1 DEF Unsaid
<1> QED
    BY <1>2, <1>3, <1>4

LEMMA OrderlyBegins ==
    ASSUME Typed, Orderly, NEW c, Begins(c)
    PROVE  Announced' /\ LoadingFirst' /\ Unsaid'
<1>1. InProgress' = {c}
    <2>1. todo' = <<c>> /\ DOMAIN <<c>> = {1} /\ <<c>>[1] = c
        BY DEF Begins
    <2> QED
        BY <2>1 DEF InProgress
<1>2. ~Load(c) /\ \A q \in Ids : c # Emit("TERMINATION", q) /\ ~Tells(c, q)
    BY DEF Begins, Walk, On, Emit, Load, Tells
<1>3. UNCHANGED <<terminated, emitted>>
    BY DEF Begins
<1>4. Announced' /\ LoadingFirst'
    BY <1>1, <1>2 DEF Announced, LoadingFirst, Tells, Load
<1>5. Unsaid'
    BY <1>1, <1>2, <1>3 DEF Orderly, Unsaid
<1> QED
    BY <1>4, <1>5

LEMMA OrderlyNext ==
    ASSUME Typed, Orderly, [Next]_vars
    PROVE  Orderly'
<1>1. Stacked'
    BY StackedNext
<1>2. Owned'
    BY StepsAre DEF Orderly, Owned, Of
<1>3. CASE Stays
    <2>1. InProgress' = InProgress /\ UNCHANGED <<terminated, emitted>>
        BY <1>3 DEF Stays, InProgress
    <2> QED
        BY <1>1, <1>2, <2>1 DEF Orderly, Announced, LoadingFirst, Unsaid, Tells, Load
<1> QED
    BY <1>1, <1>2, <1>3, StepsAre, OrderlySilent, OrderlyEnding, OrderlyConfigure, OrderlyReset,
       OrderlyEmission, OrderlyBegins DEF Orderly

-----------------------------------------------------------------------------
(* Only profiles that are configured are subscribed, listed, and concerned. *)

Described(p) == \E f \in DOMAIN conf.files : p \in ToSet(conf.files[f])
Present == {p \in Ids : Configured(p)}

Concerned(c) ==
    IF c.op \in {"emit", "reset", "answered"} THEN {c.profile}
    ELSE IF c.op \in {"notify", "check"} THEN c.to ELSE {}

Known ==
    /\ \A c \in InProgress : /\ Concerned(c) \subseteq Present
                             /\ c.op = "configure" => Described(c.profile)
    /\ \A s \in waitEventMap : s.profile \in Present
    /\ ToSet(activeList) \subseteq Present
    /\ \A r \in Ids : ToSet(streamCache[r].nodes) \subseteq Present
    /\ \A p \in Ids \ Present : waited[p] = {} /\ waitedResponse[p] = 0

LEMMA ConcernedOf ==
    /\ \A t, p : Concerned(Emit(t, p)) = {p} /\ Emit(t, p).op # "configure"
    /\ \A e, U : Concerned(Notify(e, U)) = U /\ Notify(e, U).op # "configure"
    /\ \A p : Concerned(On("reset", p)) = {p} /\ On("reset", p).op # "configure"
    /\ \A p : Concerned(On("answered", p)) = {p} /\ On("answered", p).op # "configure"
    /\ \A k, U : Concerned(Check(k, U)) = U /\ Check(k, U).op # "configure"
    /\ \A n : Concerned(Walk(n)) = {} /\ Walk(n).op # "configure"
    /\ \A U : Concerned(Ask(U)) = {} /\ Ask(U).op # "configure"
    BY DEF Concerned, Emit, Notify, On, Check, Walk, Ask

LEMMA DescribedOf ==
    ASSUME conf \in Configs, NEW p \in Ids, Of(p).waits # {}
    PROVE  Described(p)
    BY ConfigsAssumption DEF Described, Of

LEMMA CheckersWait ==
    ASSUME conf \in Configs, NEW p \in Ids, NEW c \in CheckersOf(p)
    PROVE  c \in Ids /\ Event("TERMINATION", p) \in Of(c).waits
    BY ConfigsAssumption DEF CheckersOf, Of

\* When nothing is being loaded, the checkers of a profile are there.
LEMMA CheckersPresent ==
    ASSUME conf \in Configs, \A c \in InProgress : c.op # "configure", NEW p \in Ids
    PROVE  CheckersOf(p) \subseteq Present
<1>1. \A c \in CheckersOf(p) : c \in Ids /\ Described(c)
    BY CheckersWait, DescribedOf
<1>2. \A c \in Ids : On("configure", c) \notin InProgress
    BY DEF On
<1> QED
    BY <1>1, <1>2 DEF Present, Configured, Described

LEMMA PresentStays ==
    ASSUME Typed, conf' = conf, NEW D, Makes(D), \A x \in D : x.op # "configure"
    PROVE  Present \subseteq Present'
<1>1. InProgress' = D \cup Rest /\ InProgress = {Head(todo)} \cup Rest
    BY MakesOf
<1>2. \A p \in Ids : On("configure", p) \in InProgress' => On("configure", p) \in InProgress
    BY <1>1 DEF On
<1> QED
    BY <1>2 DEF Present, Configured

LEMMA KnownThen ==
    ASSUME Typed, Known, conf' = conf, NEW D, Makes(D), NEW Q, Q \subseteq Present',
           \A x \in D : x.op # "configure" /\ Concerned(x) \subseteq Q,
           \A s \in waitEventMap' : s \in waitEventMap \/ s.profile \in Q,
           ToSet(activeList') \subseteq ToSet(activeList) \cup Q,
           \A r \in Ids : ToSet(streamCache'[r].nodes) \subseteq ToSet(streamCache[r].nodes) \cup Q,
           \A p \in Ids \ Q : waited'[p] = waited[p] /\ waitedResponse'[p] = waitedResponse[p]
    PROVE  Known'
<1>1. InProgress' = D \cup Rest /\ InProgress = {Head(todo)} \cup Rest
    BY MakesOf
<1>2. Present \subseteq Present'
    BY PresentStays
<1>3. \A c \in InProgress' : Concerned(c) \subseteq Present' /\ (c.op = "configure" => Described(c.profile)')
    <2>1. \A c \in D : Concerned(c) \subseteq Present' /\ c.op # "configure"
        OBVIOUS
    <2>2. \A c \in Rest : Concerned(c) \subseteq Present /\ (c.op = "configure" => Described(c.profile))
        BY <1>1 DEF Known
    <2>3. \A p : Described(p)' <=> Described(p)
        BY DEF Described
    <2> QED
        BY <1>1, <1>2, <2>1, <2>2, <2>3
<1>4. \A s \in waitEventMap' : s.profile \in Present'
    BY <1>2 DEF Known
<1>5. ToSet(activeList') \subseteq Present'
    BY <1>2 DEF Known
<1>6. \A r \in Ids : ToSet(streamCache'[r].nodes) \subseteq Present'
    BY <1>2 DEF Known
<1>7. \A p \in Ids \ Present' : waited'[p] = {} /\ waitedResponse'[p] = 0
    BY <1>2 DEF Known
<1> QED
    BY <1>3, <1>4, <1>5, <1>6, <1>7 DEF Known, Concerned

\* The calls made concern profiles that were there before.
LEMMA KnownKeeps ==
    ASSUME Typed, Known, conf' = conf, NEW D, Makes(D),
           \A x \in D : x.op # "configure" /\ Concerned(x) \subseteq Present,
           \A s \in waitEventMap' : s \in waitEventMap \/ s.profile \in Present,
           ToSet(activeList') \subseteq ToSet(activeList) \cup Present,
           \A r \in Ids : ToSet(streamCache'[r].nodes) \subseteq ToSet(streamCache[r].nodes) \cup Present,
           \A p \in Ids \ Present : waited'[p] = waited[p] /\ waitedResponse'[p] = waitedResponse[p]
    PROVE  Known'
<1>1. Present \subseteq Present'
    BY PresentStays
<1> QED
    BY <1>1, KnownThen

\* The same, of an action that only makes calls.
LEMMA KnownCalls ==
    ASSUME Typed, Known, conf' = conf, NEW D, Makes(D),
           \A x \in D : x.op # "configure" /\ Concerned(x) \subseteq Present,
           UNCHANGED <<waitEventMap, activeList, streamCache, waited, waitedResponse>>
    PROVE  Known'
    BY KnownKeeps

LEMMA KnownInit == Init => Known
<1> SUFFICES ASSUME Init PROVE Known
    OBVIOUS
<1>1. conf.files \in Seq(Seq(Ids))
    BY ConfigsAssumption DEF Init, Configuration
<1>2. \A c \in InProgress : Concerned(c) = {} /\ (c.op = "configure" => Described(c.profile))
    <2>1. InProgress = ToSet(Loading(conf.files))
        BY DEF InProgress, ToSet, Init
    <2>2. ToSet(Loading(conf.files)) = UNION {{On("configure", p) : p \in ToSet(conf.files[f])} \cup {Cache} :
                                             f \in DOMAIN conf.files}
        BY <1>1, LoadingOf
    <2> QED
        BY <2>1, <2>2 DEF Concerned, Described, On, Cache
<1>3. \A r \in Ids : ToSet(streamCache[r].nodes) = {} /\ ToSet(activeList) = {}
    BY NoneOf DEF Init
<1>4. ToSet(activeList) = {} /\ waitEventMap = {}
    BY NoneOf DEF Init
<1>5. \A p \in Ids : waited[p] = {} /\ waitedResponse[p] = 0
    BY DEF Init
<1> QED
    BY <1>2, <1>3, <1>4, <1>5 DEF Known

LEMMA KnownConfigure ==
    ASSUME Typed, Orderly, Known, Configure
    PROVE  Known' /\ Head(todo).profile \in Present'
<1> DEFINE p == Head(todo).profile
           C == IF Free(p) THEN {Emit("ACTIVATION", p)} ELSE {}
<1>1. p \in Ids /\ Head(todo) = On("configure", p) /\ Makes(C) /\ todo # <<>> /\ conf' = conf
    BY ConfigureMakes DEF Makes, Configure
<1>2. \A x \in C : x.op # "configure" /\ Concerned(x) \subseteq {p}
    BY ConcernedOf
<1>3. /\ waited' = [waited EXCEPT ![p] = Of(p).waits] /\ waitEventMap' = Subscribed(Of(p).waits, p)
      /\ activeList' = activeList \o Listed(Of(p).waits, p)
      /\ UNCHANGED <<streamCache, waitedResponse>>
    BY DEF Configure, memory, streams
<1>4. Of(p).waits \subseteq Events
    BY <1>1, ConfOf DEF Typed
<1> HIDE DEF C
<1>5. InProgress' = C \cup Rest /\ InProgress = {Head(todo)} \cup Rest
    BY <1>1, MakesOf
<1>6. p \in Present'
    <2>1. On("configure", p) \notin Rest
        BY <1>1, StackedOf DEF Orderly, FitsOver, On
    <2>2. On("configure", p) \notin C
        BY <1>2 DEF On
    <2>3. Described(p)
        BY <1>1, <1>5 DEF Known, On
    <2> QED
        BY <1>1, <1>5, <2>1, <2>2, <2>3 DEF Present, Configured, Described
<1>7. \A s \in waitEventMap' : s \in waitEventMap \/ s.profile = p
    BY <1>3 DEF Subscribed, Subscription
<1>8. ToSet(activeList') \subseteq ToSet(activeList) \cup {p}
    BY <1>1, <1>3, <1>4, ListedOf, IdsAssumption DEF Typed
<1>9. \A q \in Ids \ {p} : waited'[q] = waited[q] /\ waitedResponse'[q] = waitedResponse[q]
    BY <1>3 DEF Typed
<1> DEFINE Q == {p}
<1>10. /\ Q \subseteq Present' /\ \A x \in C : x.op # "configure" /\ Concerned(x) \subseteq Q
       /\ \A s \in waitEventMap' : s \in waitEventMap \/ s.profile \in Q
       /\ ToSet(activeList') \subseteq ToSet(activeList) \cup Q
       /\ \A r \in Ids : ToSet(streamCache'[r].nodes) \subseteq ToSet(streamCache[r].nodes) \cup Q
       /\ \A q \in Ids \ Q : waited'[q] = waited[q] /\ waitedResponse'[q] = waitedResponse[q]
    BY <1>2, <1>3, <1>6, <1>7, <1>8, <1>9
<1> HIDE DEF Q
<1>11. Known'
    BY <1>1, <1>10, KnownThen
<1> QED
    BY <1>6, <1>11

LEMMA KnownCache ==
    ASSUME Typed, Known, StreamCacheUpdate
    PROVE  Known'
<1>1. Makes({}) /\ conf' = conf
    BY EndsMake DEF StreamCacheUpdate
<1>2. \A r \in Ids : r \in ToSet(activeList) => ToSet(Stream(r).nodes) \subseteq Present
    <2>1. TAKE r \in Ids
    <2>2. \A n \in ToSet(Stream(r).nodes) : n = r \/ \E m \in Ids : n \in Followers(m)
        BY StreamOf DEF Typed
    <2>3. \A m, n : n \in Followers(m) => n \in Present
        BY DEF Followers, Known
    <2> QED
        BY <2>2, <2>3 DEF Known
<1>3. \A r \in Ids : ToSet(streamCache'[r].nodes) \subseteq ToSet(streamCache[r].nodes) \cup Present
    <2>1. \A r \in Ids : streamCache'[r] = streamCache[r] \/ (r \in ToSet(activeList) /\ streamCache'[r] = Stream(r))
        BY DEF StreamCacheUpdate
    <2> QED
        BY <1>2, <2>1
<1>4. UNCHANGED <<waitEventMap, activeList, waited, waitedResponse>>
    BY DEF StreamCacheUpdate, busVars, memory
<1> QED
    BY <1>1, <1>3, <1>4, KnownKeeps

LEMMA KnownEmission ==
    ASSUME Typed, Known, Emission
    PROVE  Known'
<1> DEFINE p == Head(todo).profile
           type == Head(todo).type
           ev == Event(type, p)
           C == IF MayEmit(type, p) THEN {Notify(ev, Listeners(ev))} ELSE {}
<1>1. p \in Ids /\ Makes(C) /\ Head(todo) = Emit(type, p) /\ conf' = conf
    BY EmitMakes DEF Emission
<1>2. \A x \in C : x.op # "configure" /\ Concerned(x) \subseteq Listeners(ev)
    BY ConcernedOf
<1> HIDE DEF C
<1>3. Head(todo) \in InProgress
    BY <1>1, MakesOf
<1>4. p \in Present
    BY <1>1, <1>3, ConcernedOf DEF Known
<1>5. Listeners(ev) \subseteq Present
    BY DEF Listeners, Known
<1>6. /\ waitEventMap' \subseteq waitEventMap
      /\ activeList' = activeList \/ activeList' = Append(activeList, p)
      /\ UNCHANGED <<waited, streamCache, waitedResponse>>
    BY DEF Emission, EmitEvent, KeptSubscriptions, memory, streams
<1>7. ToSet(activeList') \subseteq ToSet(activeList) \cup Present
    <2>1. activeList \in Seq(Ids)
        BY DEF Typed
    <2>2. ToSet(Append(activeList, p)) = ToSet(activeList) \cup {p}
        BY <1>1, <2>1, AppendOf
    <2> QED
        BY <1>4, <1>6, <2>2
<1> QED
    BY <1>1, <1>2, <1>5, <1>6, <1>7, KnownKeeps

LEMMA KnownHears ==
    ASSUME Typed, Known, NEW p \in Ids, MasterHears(p) \/ OtherHears(p)
    PROVE  Known'
<1> DEFINE ev == Head(todo).event
           to == Head(todo).to
<1>1. /\ p \in to /\ Head(todo) = Notify(ev, to)
      /\ \E b \in BOOLEAN : Makes((IF b THEN {Emit("ACTIVATION", p)} ELSE {}) \cup {Notify(ev, to \ {p})})
    <2>1. CASE MasterHears(p)
        <3>1. Starts(p, AwaitedBy(p, ev)) \in BOOLEAN
            BY DEF Starts
        <3> QED
            BY <2>1, <3>1, MasterHearsMakes
    <2>2. CASE OtherHears(p)
        <3> DEFINE c == Of(p).role = "delay" /\ ~Waiting(StillWaited(p, ev), "PROFILE")
        <3>1. c \in BOOLEAN
            OBVIOUS
        <3>2. /\ p \in to /\ Head(todo) = Notify(ev, to)
              /\ Makes((IF c THEN {Emit("ACTIVATION", p)} ELSE {}) \cup {Notify(ev, to \ {p})})
            BY <2>2, OtherHearsMakes
        <3> HIDE DEF c
        <3> QED
            BY <3>1, <3>2
    <2> QED
        BY <2>1, <2>2
<1>2. PICK b \in BOOLEAN : Makes((IF b THEN {Emit("ACTIVATION", p)} ELSE {}) \cup {Notify(ev, to \ {p})})
    BY <1>1
<1> DEFINE C == (IF b THEN {Emit("ACTIVATION", p)} ELSE {}) \cup {Notify(ev, to \ {p})}
<1>3. \A x \in C : x.op # "configure" /\ Concerned(x) \subseteq to
    BY <1>1, ConcernedOf
<1>4. Makes(C)
    BY <1>2
<1> HIDE DEF C
<1>5. Head(todo) \in InProgress
    BY <1>4, MakesOf
<1>6. to \subseteq Present
    BY <1>1, <1>5, ConcernedOf DEF Known
<1>7. /\ \A s \in waitEventMap' : s \in waitEventMap \/ s.profile = p
      /\ \A q \in Ids \ {p} : waited'[q] = waited[q]
      /\ UNCHANGED <<conf, activeList, streamCache, waitedResponse>>
    <2>1. CASE MasterHears(p)
        BY <2>1 DEF MasterHears, Subscribed, Subscription, Typed, memory, streams
    <2>2. CASE OtherHears(p)
        BY <2>2 DEF OtherHears, Typed, memory, streams
    <2> QED
        BY <2>1, <2>2
<1> QED
    BY <1>1, <1>3, <1>4, <1>6, <1>7, KnownKeeps

\* Under a walk, or the answer of a request, nothing is in progress.
LEMMA NothingLoads ==
    ASSUME Typed, Orderly, todo # <<>>, Head(todo).op \in {"walk", "answered", "reset"}
    PROVE  \A c \in InProgress : c.op # "configure"
<1>1. \A c \in Rest : c.op # "configure"
    BY StackedOf, ResetRest DEF Orderly
<1>2. InProgress = {Head(todo)} \cup Rest
    <2>1. Running(Head(todo).op) /\ todo \in Seq(Calls)
        BY DEF Running, Typed
    <2> QED
        BY <2>1, RunningOf
<1> QED
    BY <1>1, <1>2

LEMMA KnownSends ==
    ASSUME Typed, Orderly, Known, MasterSends
    PROVE  Known'
<1> DEFINE p == Polled
           C == (IF ~started[p] THEN {Emit("ACTIVATION", p)} ELSE {})
                \cup {Emit("PROFILE_UNLOCKED", p)}
                \cup (IF CheckersOf(p) = {} THEN {} ELSE {Check("send", CheckersOf(p))})
                \cup {Head(todo)}
<1>1. Polls("master") /\ conf' = conf
    BY DEF MasterSends
<1>2. p \in Ids /\ Head(todo).op = "walk" /\ Makes(C) /\ todo # <<>>
    BY MasterSendsMakes DEF Makes
<1>3. p \in Present /\ Concerned(Head(todo)) = {}
    BY <1>1, PollsOf, <1>2 DEF Known, Concerned
<1>4. CheckersOf(p) \subseteq Present
    BY <1>2, NothingLoads, CheckersPresent DEF Typed
<1>5. \A x \in C : x.op # "configure" /\ Concerned(x) \subseteq Present
    BY <1>2, <1>3, <1>4, ConcernedOf
<1>6. UNCHANGED <<waitEventMap, activeList, streamCache, waited>>
    BY DEF MasterSends, busVars, streams
<1>7. \A q \in Ids \ {p} : waitedResponse'[q] = waitedResponse[q]
    BY DEF MasterSends, Typed
<1> HIDE DEF C
<1> QED
    BY <1>1, <1>2, <1>3, <1>5, <1>6, <1>7, KnownKeeps

LEMMA KnownWalk ==
    ASSUME Typed, Orderly, Known, MasterRefused \/ MasterIdle \/ DelaySend \/ CheckerSkipped \/ EndWalk
    PROVE  Known'
<1>1. /\ conf' = conf
      /\ UNCHANGED <<waitEventMap, activeList, streamCache, waited, waitedResponse>>
    BY DEF MasterRefused, MasterIdle, DelaySend, CheckerSkipped, EndWalk, busVars, memory, streams
<1>2. ASSUME NEW role, Polls(role) PROVE Polled \in Present
    BY <1>2, PollsOf DEF Known
<1> DEFINE p == Polled
<1>3. CASE MasterRefused
    <2>1. PICK n \in Nat \ {0} :
              Makes((IF ~started[p] THEN {Emit("ACTIVATION", p)} ELSE {})
                    \cup {Emit("PROFILE_LOCKED", p)} \cup {Walk(n)})
        BY <1>3, MasterRefusedMakes
    <2> DEFINE C == (IF ~started[p] THEN {Emit("ACTIVATION", p)} ELSE {})
                    \cup {Emit("PROFILE_LOCKED", p)} \cup {Walk(n)}
    <2>2. p \in Present
        BY <1>2, <1>3 DEF MasterRefused
    <2>3. \A x \in C : x.op # "configure" /\ Concerned(x) \subseteq Present
        BY <2>2, ConcernedOf
    <2> HIDE DEF C
    <2> QED
        BY <1>1, <2>1, <2>3, KnownCalls DEF C
<1>4. CASE MasterIdle
    <2> DEFINE ends == Terminates(p, ot[p])
    <2>1. PICK n \in Nat \ {0} :
              Makes((IF ends THEN {Emit("TERMINATION", p)}
                     ELSE IF terminated[p] THEN {} ELSE {Emit("PROFILE_LOCKED", p)})
                    \cup {Walk(n)})
        BY <1>4, MasterIdleMakes
    <2> DEFINE C == (IF ends THEN {Emit("TERMINATION", p)}
                     ELSE IF terminated[p] THEN {} ELSE {Emit("PROFILE_LOCKED", p)})
                    \cup {Walk(n)}
    <2>2. p \in Present
        BY <1>2, <1>4 DEF MasterIdle
    <2> HIDE DEF ends
    <2>3. \A x \in C : x.op # "configure" /\ Concerned(x) \subseteq Present
        BY <2>2, ConcernedOf
    <2> HIDE DEF C
    <2> QED
        BY <1>1, <2>1, <2>3, KnownCalls DEF C
<1>5. CASE DelaySend
    <2> DEFINE b == DelayBegun(p) /\ ~started[p]
               e == DelayEnds(p)
    <2>1. PICK n \in Nat \ {0} :
              Makes((IF b THEN {Emit("ACTIVATION", p)} ELSE {})
                    \cup (IF e THEN {Emit("TERMINATION", p)} ELSE {}) \cup {Walk(n)})
        BY <1>5, DelaySendMakes
    <2> DEFINE C == (IF b THEN {Emit("ACTIVATION", p)} ELSE {})
                    \cup (IF e THEN {Emit("TERMINATION", p)} ELSE {}) \cup {Walk(n)}
    <2>2. p \in Present
        BY <1>2, <1>5 DEF DelaySend
    <2> HIDE DEF b, e
    <2>3. \A x \in C : x.op # "configure" /\ Concerned(x) \subseteq Present
        BY <2>2, ConcernedOf
    <2> HIDE DEF C
    <2> QED
        BY <1>1, <2>1, <2>3, KnownCalls DEF C
<1>6. CASE CheckerSkipped
    <2>1. PICK n \in Nat \ {0} : Makes({Walk(n)})
        BY <1>6, CheckerSkippedMakes
    <2>2. \A x \in {Walk(n)} : x.op # "configure" /\ Concerned(x) \subseteq Present
        BY ConcernedOf
    <2> QED
        BY <1>1, <2>1, <2>2, KnownCalls
<1>7. CASE EndWalk
    <2>1. Makes({Ask(activeStreams)})
        BY <1>7, EndWalkMakes
    <2>2. \A x \in {Ask(activeStreams)} : x.op # "configure" /\ Concerned(x) \subseteq Present
        BY ConcernedOf
    <2> QED
        BY <1>1, <2>1, <2>2, KnownCalls
<1> QED
    BY <1>3, <1>4, <1>5, <1>6, <1>7

LEMMA KnownOthers ==
    ASSUME Typed, Orderly, Known, \/ Delivered \/ AllAsked \/ Answered
                                  \/ \E p \in Ids : CheckerRecords(p) \/ AskStream(p)
    PROVE  Known'
<1>1. /\ conf' = conf
      /\ UNCHANGED <<waitEventMap, activeList, streamCache, waited, waitedResponse>>
    BY DEF Delivered, AllHeard, AllAsked, Answered, CheckerRecords, AskStream, busVars, memory, streams
<1>2. CASE Delivered \/ AllAsked
    <2>1. Makes({})
        BY <1>2, EndsMake DEF Delivered
    <2> QED
        BY <1>1, <2>1, KnownCalls
<1>3. CASE Answered
    <2> DEFINE p == Head(todo).profile
               b == Terminates(p, ot[p])
               C == (IF b THEN {Emit("TERMINATION", p)} ELSE {})
                    \cup (IF CheckersOf(p) = {} THEN {} ELSE {Check("receive", CheckersOf(p))})
    <2>1. p \in Ids /\ Head(todo) = On("answered", p) /\ Head(todo).op = "answered" /\ Makes(C) /\ todo # <<>>
        BY <1>3, AnsweredMakes DEF Makes
    <2> HIDE DEF b
    <2>2. CheckersOf(p) \subseteq Present
        BY <2>1, NothingLoads, CheckersPresent DEF Typed
    <2>3. p \in Present
        <3> HIDE DEF C
        <3>1. Head(todo) \in InProgress
            BY <2>1, MakesOf
        <3> QED
            BY <2>1, <3>1, ConcernedOf DEF Known
    <2>4. \A x \in C : x.op # "configure" /\ Concerned(x) \subseteq Present
        BY <2>2, <2>3, ConcernedOf
    <2> HIDE DEF C
    <2> QED
        BY <1>1, <2>1, <2>4, KnownCalls
<1>4. ASSUME NEW c \in Ids, CheckerRecords(c) PROVE Known'
    <2> DEFINE k == Head(todo).kind
               to == Head(todo).to
               b == waited[c] = {} /\ ~terminated[c]
               C == (IF b THEN {Emit("TERMINATION", c)} ELSE {})
                    \cup (IF to \ {c} = {} THEN {} ELSE {Check(k, to \ {c})})
    <2>1. c \in to /\ Head(todo).op = "check" /\ Makes(C)
        BY <1>4, CheckerRecordsMakes
    <2> HIDE DEF b
    <2>2. to \subseteq Present
        <3> HIDE DEF C
        <3>1. Head(todo) \in InProgress
            BY <2>1, MakesOf
        <3>2. Concerned(Head(todo)) = to
            BY <2>1 DEF Concerned
        <3> QED
            BY <3>1, <3>2 DEF Known
    <2>3. \A x \in C : x.op # "configure" /\ Concerned(x) \subseteq to
        BY <2>1, ConcernedOf
    <2> HIDE DEF C
    <2> QED
        BY <1>1, <2>1, <2>2, <2>3, KnownCalls
<1>5. ASSUME NEW r \in Ids, AskStream(r) PROVE Known'
    <2> DEFINE U == Head(todo).left \ {r}
               C == {On("reset", p) : p \in ResetNow(r)} \cup {Ask(U)}
    <2>1. Makes(C)
        BY <1>5, AskStreamMakes
    <2>2. ResetNow(r) \subseteq Present
        BY DEF ResetNow, Known
    <2>3. \A x \in C : x.op # "configure" /\ Concerned(x) \subseteq Present
        BY <2>2, ConcernedOf
    <2> HIDE DEF C
    <2> QED
        BY <1>1, <2>1, <2>3, KnownCalls
<1> QED
    BY <1>2, <1>3, <1>4, <1>5

LEMMA KnownReset ==
    ASSUME Typed, Orderly, Known, Reset
    PROVE  Known' /\ Head(todo).profile \in Present
<1> DEFINE p == Head(todo).profile
           C == {On("reset", c) : c \in CheckersOf(p)}
                \cup (IF Free(p) THEN {Emit("ACTIVATION", p)} ELSE {})
<1>1. /\ p \in Ids /\ Head(todo) = On("reset", p) /\ Makes(C) /\ Head(todo).op = "reset"
      /\ todo # <<>> /\ conf' = conf
    BY ResetMakes DEF Makes, Reset
<1>2. CheckersOf(p) \subseteq Present
    BY <1>1, NothingLoads, CheckersPresent DEF Typed
<1>3. p \in Present
    <2> HIDE DEF C
    <2>1. Head(todo) \in InProgress
        BY <1>1, MakesOf
    <2> QED
        BY <1>1, <2>1, ConcernedOf DEF Known
<1>4. \A x \in C : x.op # "configure" /\ Concerned(x) \subseteq Present
    BY <1>2, <1>3, ConcernedOf
<1> HIDE DEF C
<1>5. /\ waited' = [waited EXCEPT ![p] = Of(p).waits] /\ waitEventMap' = Subscribed(Of(p).waits, p)
      /\ activeList' = activeList \o Listed(Of(p).waits, p)
      /\ UNCHANGED <<streamCache, waitedResponse>>
    BY DEF Reset, RetainedWaits, memory, streams
<1>6. Of(p).waits \subseteq Events
    BY <1>1, ConfOf DEF Typed
<1>7. \A s \in waitEventMap' : s \in waitEventMap \/ s.profile = p
    BY <1>5 DEF Subscribed, Subscription
<1>8. ToSet(activeList') \subseteq ToSet(activeList) \cup {p}
    BY <1>1, <1>5, <1>6, ListedOf, IdsAssumption DEF Typed
<1>9. \A q \in Ids \ {p} : waited'[q] = waited[q] /\ waitedResponse'[q] = waitedResponse[q]
    BY <1>5 DEF Typed
<1> QED
    BY <1>1, <1>3, <1>4, <1>5, <1>7, <1>8, <1>9, KnownKeeps

LEMMA KnownAdapter ==
    ASSUME Typed, Known, Poll \/ \E p \in Ids : Answer(p) \/ Discard(p) \/ ActivateStream(p)
    PROVE  Known'
<1>1. /\ Quiet /\ InProgress = {} /\ UNCHANGED <<conf, waitEventMap, activeList, streamCache, waited>>
    BY DEF Poll, Answer, Discard, ActivateStream, Quiet, InProgress, busVars, streams
<1>2. ASSUME NEW p \in Ids, Answer(p) \/ ActivateStream(p) PROVE p \in Present
    <2>1. CASE Answer(p)
        BY <2>1 DEF Known, Answer, Typed
    <2>2. CASE ActivateStream(p)
        <3>1. p \in conf.roots
            BY <2>2 DEF ActivateStream
        <3>2. Of(p).waits # {}
            BY <3>1, ConfigsAssumption DEF Typed, Of
        <3>3. Described(p)
            BY <3>2, DescribedOf DEF Typed
        <3> QED
            BY <1>1, <3>3 DEF Present, Configured, Described
    <2> QED
        BY <1>2, <2>1, <2>2
<1>3. \A c \in InProgress' : c.op # "configure" /\ Concerned(c) \subseteq Present
    <2>1. ASSUME NEW c, todo' = <<c>> PROVE InProgress' = {c}
        <3>1. DOMAIN <<c>> = {1} /\ <<c>>[1] = c
            OBVIOUS
        <3> QED
            BY <2>1, <3>1 DEF InProgress
    <2>2. CASE Poll
        BY <2>1, <2>2, ConcernedOf DEF Poll
    <2>3. ASSUME NEW p \in Ids, Answer(p) PROVE \A c \in InProgress' : c.op # "configure" /\ Concerned(c) \subseteq Present
        <3>1. InProgress' = {On("answered", p)}
            BY <2>1, <2>3 DEF Answer
        <3>2. Concerned(On("answered", p)) = {p} /\ On("answered", p).op # "configure"
            BY ConcernedOf
        <3> QED
            BY <1>2, <2>3, <3>1, <3>2
    <2>4. ASSUME NEW p \in Ids, ActivateStream(p) PROVE \A c \in InProgress' : c.op # "configure" /\ Concerned(c) \subseteq Present
        <3>1. InProgress' = {Emit("ACTIVATION", p)}
            BY <2>1, <2>4 DEF ActivateStream
        <3>2. Concerned(Emit("ACTIVATION", p)) = {p} /\ Emit("ACTIVATION", p).op # "configure"
            BY ConcernedOf
        <3> QED
            BY <1>2, <2>4, <3>1, <3>2
    <2>5. ASSUME NEW p \in Ids, Discard(p) PROVE InProgress' = {}
        BY <1>1, <2>5 DEF Discard, Quiet, InProgress
    <2> QED
        BY <2>2, <2>3, <2>4, <2>5
<1>4. Present \subseteq Present'
    BY <1>1, <1>3 DEF Present, Configured, On
<1>5. \A p \in Ids \ Present : waitedResponse'[p] = 0
    <2>1. waitedResponse' = waitedResponse \/ \E p \in Ids : waitedResponse' = [waitedResponse EXCEPT ![p] = @ - 1] /\ Answer(p)
        BY DEF Poll, Answer, Discard, ActivateStream, memory
    <2>2. \A p \in Ids \ Present : waitedResponse[p] = 0
        BY DEF Known
    <2>3. CASE waitedResponse' = waitedResponse
        BY <2>2, <2>3
    <2>4. ASSUME NEW q \in Ids, waitedResponse' = [waitedResponse EXCEPT ![q] = @ - 1], q \in Present
          PROVE  \A p \in Ids \ Present : waitedResponse'[p] = 0
        BY <2>2, <2>4 DEF Typed
    <2> QED
        BY <1>2, <2>1, <2>3, <2>4
<1>6. \A c \in InProgress' : Concerned(c) \subseteq Present' /\ (c.op = "configure" => Described(c.profile)')
    BY <1>3, <1>4
<1>7. \A p \in Ids \ Present' : waited'[p] = {} /\ waitedResponse'[p] = 0
    BY <1>1, <1>4, <1>5 DEF Known
<1>8. /\ \A s \in waitEventMap' : s.profile \in Present'
      /\ ToSet(activeList') \subseteq Present'
      /\ \A r \in Ids : ToSet(streamCache'[r].nodes) \subseteq Present'
    BY <1>1, <1>4 DEF Known
<1> QED
    BY <1>6, <1>7, <1>8 DEF Known, Concerned

LEMMA KnownNext ==
    ASSUME Typed, Orderly, Known, [Next]_vars
    PROVE  Known'
<1>1. CASE UNCHANGED vars
    <2>1. InProgress' = InProgress /\ Present' = Present
        BY <1>1 DEF vars, InProgress, Present, Configured
    <2>2. UNCHANGED <<conf, waitEventMap, activeList, streamCache, waited, waitedResponse>>
        BY <1>1 DEF vars, memory, streams
    <2> QED
        BY <2>1, <2>2 DEF Known, Concerned, Described
<1> QED
    BY <1>1, KnownConfigure, KnownCache, KnownEmission, KnownHears, KnownSends, KnownWalk,
       KnownOthers, KnownReset, KnownAdapter
    DEF Next, Step

-----------------------------------------------------------------------------
(* The count of a master's profiles that are not terminated. *)

Unsettled(p) == ~terminated[p] \/ Emit("TERMINATION", p) \in InProgress
Counted(m) == {p \in Ids : Configured(p) /\ Of(p).owner = m /\ Unsettled(p)}

LEMMA CountIs == TerminationCount <=> \A m \in Masters : nonTerminated[m] = Cardinality(Counted(m))
    BY DEF TerminationCount, Counted, Unsettled

LEMMA CountSame ==
    ASSUME TerminationCount, nonTerminated' = nonTerminated,
           \A m \in Masters : Counted(m)' = Counted(m)
    PROVE  TerminationCount'
<1>1. \A m \in Masters : nonTerminated'[m] = Cardinality(Counted(m)')
    BY CountIs
<1> QED
    BY <1>1 DEF TerminationCount, Counted, Unsettled

LEMMA CountUp ==
    ASSUME Typed, TerminationCount, NEW p \in Ids, NEW o \in Masters,
           nonTerminated' = [nonTerminated EXCEPT ![o] = @ + 1], p \notin Counted(o),
           \A m \in Masters : Counted(m)' = IF m = o THEN Counted(m) \cup {p} ELSE Counted(m)
    PROVE  TerminationCount'
<1>1. ASSUME NEW m \in Masters PROVE nonTerminated'[m] = Cardinality(Counted(m)')
    <2>1. nonTerminated[m] = Cardinality(Counted(m))
        BY CountIs
    <2>2. Counted(m) \subseteq Ids /\ IsFiniteSet(Ids)
        BY IdsAssumption DEF Counted
    <2>3. IsFiniteSet(Counted(m))
        BY <2>2, FS_Subset
    <2>4. CASE m = o
        <3>1. Cardinality(Counted(m) \cup {p}) = Cardinality(Counted(m)) + 1
            BY <2>3, <2>4, FS_AddElement
        <3>2. Counted(m)' = Counted(m) \cup {p}
            BY <2>4
        <3> QED
            BY <2>1, <2>4, <3>1, <3>2 DEF Typed
    <2>5. CASE m # o
        BY <2>1, <2>5 DEF Typed
    <2> QED
        BY <2>4, <2>5
<1> QED
    BY <1>1 DEF TerminationCount, Counted, Unsettled

LEMMA CountDown ==
    ASSUME Typed, TerminationCount, NEW p \in Ids, NEW o \in Masters,
           nonTerminated' = [nonTerminated EXCEPT ![o] = @ - 1], p \in Counted(o),
           \A m \in Masters : Counted(m)' = IF m = o THEN Counted(m) \ {p} ELSE Counted(m)
    PROVE  TerminationCount'
<1>1. ASSUME NEW m \in Masters PROVE nonTerminated'[m] = Cardinality(Counted(m)')
    <2>1. nonTerminated[m] = Cardinality(Counted(m))
        BY CountIs
    <2>2. Counted(m) \subseteq Ids /\ IsFiniteSet(Ids)
        BY IdsAssumption DEF Counted
    <2>3. IsFiniteSet(Counted(m))
        BY <2>2, FS_Subset
    <2>4. CASE m = o
        <3>1. Cardinality(Counted(m) \ {p}) = Cardinality(Counted(m)) - 1
            BY <2>3, <2>4, FS_RemoveElement
        <3>2. Counted(m)' = Counted(m) \ {p}
            BY <2>4
        <3> QED
            BY <2>1, <2>4, <3>1, <3>2 DEF Typed
    <2>5. CASE m # o
        BY <2>1, <2>5 DEF Typed
    <2> QED
        BY <2>4, <2>5
<1> QED
    BY <1>1 DEF TerminationCount, Counted, Unsettled

LEMMA ConfiguredSame ==
    ASSUME Typed, conf' = conf, NEW D, Makes(D), \A x \in D : x.op # "configure",
           Head(todo).op # "configure"
    PROVE  \A p \in Ids : Configured(p)' <=> Configured(p)
<1>1. InProgress' = D \cup Rest /\ InProgress = {Head(todo)} \cup Rest
    BY MakesOf
<1>2. \A p \in Ids : On("configure", p) \in InProgress' <=> On("configure", p) \in InProgress
    BY <1>1 DEF On
<1> QED
    BY <1>2 DEF Configured

LEMMA CountSilent ==
    ASSUME Typed, TerminationCount, conf' = conf, NEW C, Silent(C)
    PROVE  TerminationCount'
<1>1. /\ Makes(C) /\ Mild(C) /\ Head(todo).op \notin {"configure", "emit"}
      /\ UNCHANGED <<terminated, nonTerminated>>
    BY DEF Silent
<1>2. \A p \in Ids : Configured(p)' <=> Configured(p)
    BY <1>1, ConfiguredSame DEF Mild
<1>3. InProgress' = C \cup Rest /\ InProgress = {Head(todo)} \cup Rest
    BY <1>1, MakesOf
<1>4. \A p \in Ids : Emit("TERMINATION", p) \in InProgress' <=> Emit("TERMINATION", p) \in InProgress
    BY <1>1, <1>3, MildTells DEF Emit
<1>5. \A m \in Masters : Counted(m)' = Counted(m)
    BY <1>1, <1>2, <1>4 DEF Counted, Unsettled, Of
<1> QED
    BY <1>1, <1>5, CountSame

LEMMA CountEnding ==
    ASSUME Typed, TerminationCount, conf' = conf, NEW p \in Ids, NEW C, Ending(p, C)
    PROVE  TerminationCount'
<1> DEFINE D == C \cup {Emit("TERMINATION", p)}
<1>1. /\ Makes(D) /\ Mild(C) /\ Head(todo).op \in {"walk", "answered", "check"}
      /\ ~terminated[p] /\ terminated' = [terminated EXCEPT ![p] = TRUE]
      /\ nonTerminated' = nonTerminated
    BY DEF Ending
<1>2. \A x \in D : x.op # "configure"
    BY <1>1 DEF Mild, Emit
<1>3. \A c \in C, q \in Ids : c # Emit("TERMINATION", q)
    BY <1>1, MildTells
<1>4. Emit("TERMINATION", p) \in D /\ \A q \in Ids : Emit("TERMINATION", q) \in D => q = p
    BY <1>3 DEF Emit
<1> HIDE DEF D
<1>5. \A q \in Ids : Configured(q)' <=> Configured(q)
    BY <1>1, <1>2, ConfiguredSame
<1>6. InProgress' = D \cup Rest /\ InProgress = {Head(todo)} \cup Rest
    BY <1>1, MakesOf
<1>7. \A q \in Ids : Emit("TERMINATION", q) \in InProgress' <=> Emit("TERMINATION", q) \in InProgress \/ q = p
    <2>1. \A q \in Ids : Emit("TERMINATION", q) # Head(todo)
        BY <1>1 DEF Emit
    <2> QED
        BY <1>4, <1>6, <2>1
<1>8. \A q \in Ids : Unsettled(q)' <=> Unsettled(q)
    BY <1>1, <1>7 DEF Unsettled, Typed
<1>9. \A m \in Masters : Counted(m)' = Counted(m)
    BY <1>5, <1>8 DEF Counted, Of
<1> QED
    BY <1>1, <1>9, CountSame

LEMMA CountConfigure ==
    ASSUME Typed, Orderly, Known, TerminationCount, Configure
    PROVE  TerminationCount'
<1> DEFINE p == Head(todo).profile
           C == IF Free(p) THEN {Emit("ACTIVATION", p)} ELSE {}
<1>1. /\ p \in Ids /\ Head(todo) = On("configure", p) /\ Makes(C) /\ todo # <<>>
      /\ conf' = conf /\ terminated' = terminated
      /\ nonTerminated' = [nonTerminated EXCEPT ![Of(p).owner] = @ + 1]
    BY ConfigureMakes DEF Makes, Configure
<1>2. /\ \A x \in C : x.op # "configure"
      /\ \A q \in Ids : Emit("TERMINATION", q) \notin C
    BY DEF Emit
<1> HIDE DEF C
<1>3. InProgress' = C \cup Rest /\ InProgress = {Head(todo)} \cup Rest
    BY <1>1, MakesOf
<1>4. p \in Present'
    BY KnownConfigure
<1>5. On("configure", p) \in InProgress /\ \A q \in Ids : On("configure", q) = On("configure", p) => q = p
    BY <1>1, <1>3 DEF On
<1>6. \A q \in Ids : Configured(q)' <=> Configured(q) \/ q = p
    <2>1. \A q \in Ids \ {p} : On("configure", q) \in InProgress' <=> On("configure", q) \in InProgress
        BY <1>1, <1>2, <1>3, <1>5 DEF On
    <2>2. \A q \in Ids \ {p} : Configured(q)' <=> Configured(q)
        BY <1>1, <2>1 DEF Configured
    <2> QED
        BY <1>4, <2>2 DEF Present
<1>7. ~Configured(p) /\ ~terminated[p]
    <2>1. Load(On("configure", p))
        BY DEF Load, On
    <2> QED
        BY <1>1, <1>5, <2>1 DEF Configured, Orderly, LoadingFirst
<1>8. \A q \in Ids : Unsettled(q)' <=> Unsettled(q)
    <2>1. \A q \in Ids : Emit("TERMINATION", q) # Head(todo)
        BY <1>1 DEF Emit, On
    <2> QED
        BY <1>1, <1>2, <1>3, <2>1 DEF Unsettled
<1>9. Of(p).owner \in Masters
    BY <1>1, ConfOf DEF Typed
<1>10. \A m \in Masters : Counted(m)' = IF m = Of(p).owner THEN Counted(m) \cup {p} ELSE Counted(m)
    <2>1. Unsettled(p)
        BY <1>7 DEF Unsettled
    <2> QED
        BY <1>1, <1>6, <1>8, <2>1 DEF Counted, Of
<1>11. p \notin Counted(Of(p).owner)
    BY <1>7 DEF Counted
<1> QED
    BY <1>1, <1>9, <1>10, <1>11, CountUp

LEMMA CountReset ==
    ASSUME Typed, Orderly, Known, TerminationCount, Reset
    PROVE  TerminationCount'
<1> DEFINE p == Head(todo).profile
           C == {On("reset", c) : c \in CheckersOf(p)}
                \cup (IF Free(p) THEN {Emit("ACTIVATION", p)} ELSE {})
<1>1. /\ p \in Ids /\ Head(todo) = On("reset", p) /\ Makes(C) /\ todo # <<>>
      /\ conf' = conf /\ terminated' = [terminated EXCEPT ![p] = FALSE]
      /\ nonTerminated' = IF terminated[p] THEN [nonTerminated EXCEPT ![owner[p]] = @ + 1]
                                           ELSE nonTerminated
    BY ResetMakes DEF Makes, Reset
<1>2. \A x \in C : x.op # "configure"
    BY ConcernedOf
<1>3. \A q \in Ids : Emit("TERMINATION", q) \notin InProgress'
    BY ResetAlone
<1> HIDE DEF C
<1>4. InProgress' = C \cup Rest /\ InProgress = {Head(todo)} \cup Rest
    BY <1>1, MakesOf
<1>5. \A q \in Ids : Emit("TERMINATION", q) \notin InProgress
    <2>1. \A q \in Ids : Emit("TERMINATION", q) # Head(todo)
        BY <1>1 DEF Emit, On
    <2> QED
        BY <1>3, <1>4, <2>1
<1>6. \A q \in Ids : Configured(q)' <=> Configured(q)
    BY <1>1, <1>2, ConfiguredSame DEF On
<1>7. \A q \in Ids : Unsettled(q)' <=> Unsettled(q) \/ q = p
    BY <1>1, <1>3, <1>5 DEF Unsettled, Typed
<1>8. Configured(p) /\ owner[p] = Of(p).owner /\ owner[p] \in Masters
    BY <1>1, KnownReset DEF Present, Orderly, Owned, Typed
<1>9. \A m \in Masters : Counted(m)' = IF m = owner[p] THEN Counted(m) \cup {p} ELSE Counted(m)
    BY <1>1, <1>6, <1>7, <1>8 DEF Counted, Of
<1>10. CASE terminated[p]
    <2>1. p \notin Counted(owner[p])
        BY <1>1, <1>5, <1>10 DEF Counted, Unsettled
    <2> QED
        BY <1>1, <1>8, <1>9, <1>10, <2>1, CountUp
<1>11. CASE ~terminated[p]
    <2>1. p \in Counted(owner[p])
        BY <1>1, <1>8, <1>11 DEF Counted, Unsettled
    <2>2. \A m \in Masters : Counted(m)' = Counted(m)
        BY <1>9, <2>1
    <2> QED
        BY <1>1, <1>11, <2>2, CountSame
<1> QED
    BY <1>10, <1>11

LEMMA CountEmission ==
    ASSUME Typed, Orderly, Known, TerminationCount, Emission
    PROVE  TerminationCount'
<1> DEFINE p == Head(todo).profile
           type == Head(todo).type
           ev == Event(type, p)
           C == IF MayEmit(type, p) THEN {Notify(ev, Listeners(ev))} ELSE {}
<1>1. /\ p \in Ids /\ conf' = conf /\ terminated' = terminated
      /\ \A q \in Ids : Emit("TERMINATION", q) \in InProgress' <=>
                           Emit("TERMINATION", q) \in InProgress /\ (type = "TERMINATION" => q # p)
      /\ type = "TERMINATION" => MayEmit(type, p) /\ Emit(type, p) \in InProgress
    BY EmissionOf DEF Emission, profileVars
<1>2. \A q \in Ids : Configured(q)' <=> Configured(q)
    <2>1. Makes(C) /\ Head(todo).op = "emit"
        BY EmitMakes DEF Emission
    <2>2. \A x \in C : x.op # "configure"
        BY ConcernedOf
    <2> HIDE DEF C
    <2> QED
        BY <1>1, <2>1, <2>2, ConfiguredSame
<1>3. nonTerminated' = IF type = "TERMINATION" THEN [nonTerminated EXCEPT ![owner[p]] = @ - 1]
                                               ELSE nonTerminated
    BY <1>1 DEF Emission, EmitEvent, Event, Terminate
<1>4. CASE type = "TERMINATION"
    <2>1. terminated[p] /\ Configured(p) /\ owner[p] = Of(p).owner /\ owner[p] \in Masters
        BY <1>1, <1>4, ConcernedOf DEF Orderly, Announced, Known, Present, Owned, Typed
    <2>2. Unsettled(p) /\ \A q \in Ids : Unsettled(q)' <=> Unsettled(q) /\ q # p
        <3>1. Emit("TERMINATION", p) \in InProgress
            BY <1>1, <1>4
        <3>2. Emit("TERMINATION", p) \notin InProgress'
            BY <1>1, <1>4
        <3>3. \A q \in Ids : q # p => (Emit("TERMINATION", q) \in InProgress' <=> Emit("TERMINATION", q) \in InProgress)
            BY <1>1
        <3> QED
            BY <1>1, <2>1, <3>1, <3>2, <3>3 DEF Unsettled
    <2>3. \A m \in Masters : Counted(m)' = IF m = owner[p] THEN Counted(m) \ {p} ELSE Counted(m)
        <3>1. \A q \in Ids : Of(q)' = Of(q) /\ (Configured(q)' <=> Configured(q))
            BY <1>1, <1>2 DEF Of
        <3>2. TAKE m \in Masters
        <3>3. \A q \in Ids : q \in Counted(m)' <=> q \in Counted(m) /\ q # p
            BY <2>2, <3>1 DEF Counted
        <3>4. Counted(m) \subseteq Ids /\ Counted(m)' \subseteq Ids
            BY DEF Counted
        <3>5. p \in Counted(m) <=> m = owner[p]
            BY <1>1, <2>1, <2>2 DEF Counted
        <3> QED
            BY <3>3, <3>4, <3>5
    <2>4. p \in Counted(owner[p])
        BY <1>1, <2>1, <2>2 DEF Counted
    <2> QED
        BY <1>1, <1>3, <1>4, <2>1, <2>3, <2>4, CountDown
<1>5. CASE type # "TERMINATION"
    <2>1. \A q \in Ids : Unsettled(q)' <=> Unsettled(q)
        BY <1>1, <1>5 DEF Unsettled
    <2>2. \A m \in Masters : Counted(m)' = Counted(m)
        BY <1>1, <1>2, <2>1 DEF Counted, Of
    <2> QED
        BY <1>3, <1>5, <2>2, CountSame
<1> QED
    BY <1>4, <1>5

LEMMA CountBegins ==
    ASSUME Typed, TerminationCount, conf' = conf, NEW c, Begins(c)
    PROVE  TerminationCount'
<1>1. InProgress' = {c}
    <2>1. todo' = <<c>> /\ DOMAIN <<c>> = {1} /\ <<c>>[1] = c
        BY DEF Begins
    <2> QED
        BY <2>1 DEF InProgress
<1>2. InProgress = {} /\ UNCHANGED <<terminated, nonTerminated>>
    BY DEF Begins, Quiet, InProgress
<1>3. \A q \in Ids : c # Emit("TERMINATION", q) /\ c # On("configure", q)
    BY DEF Begins, Walk, On, Emit
<1>4. \A m \in Masters : Counted(m)' = Counted(m)
    BY <1>1, <1>2, <1>3 DEF Counted, Unsettled, Configured, Of
<1> QED
    BY <1>2, <1>4, CountSame

LEMMA CountNext ==
    ASSUME Typed, Orderly, Known, TerminationCount, [Next]_vars
    PROVE  TerminationCount'
<1>1. conf' = conf
    BY StepsAre
<1>2. CASE Stays
    BY <1>1, <1>2 DEF Stays, TerminationCount, Configured, InProgress, Of
<1> QED
    BY <1>1, <1>2, StepsAre, CountSilent, CountEnding, CountConfigure, CountReset, CountEmission,
       CountBegins

LEMMA CountInit == Init => TerminationCount
<1> SUFFICES ASSUME Init PROVE TerminationCount
    OBVIOUS
<1>1. conf.files \in Seq(Seq(Ids))
    BY ConfigsAssumption DEF Init, Configuration
<1>2. InProgress = ToSet(Loading(conf.files))
    BY DEF InProgress, ToSet, Init
<1>3. \A p \in Ids : ~Configured(p)
    BY <1>1, <1>2, LoadingOf DEF Configured
<1>4. \A m \in Masters : Counted(m) = {}
    BY <1>3 DEF Counted
<1>5. \A m \in Masters : nonTerminated[m] = 0
    BY DEF Init
<1> QED
    BY <1>4, <1>5, CountIs, FS_EmptySet

-----------------------------------------------------------------------------

Sound == Typed /\ Orderly /\ Known

LEMMA SoundInit == Init => Sound
    BY TypedInit, OrderlyInit, KnownInit DEF Sound

LEMMA SoundNext == Sound /\ [Next]_vars => Sound'
    BY TypedNext, OrderlyNext, KnownNext DEF Sound

\* A master's count of the profiles that are not terminated (isTerminated) is
\* never off, whatever was announced, filtered or reset in between.
THEOREM CountIsExact == Spec => []TerminationCount
<1>1. Init => Sound /\ TerminationCount
    BY SoundInit, CountInit
<1>2. Sound /\ TerminationCount /\ [Next]_vars => Sound' /\ TerminationCount'
    BY SoundNext, CountNext DEF Sound
<1> QED
    BY <1>1, <1>2, PTL DEF Spec

-----------------------------------------------------------------------------
(* No profile begins or ends before those it waits for have. *)

Partners(p) == {q \in Ids : Event("TERMINATION", q) \in Of(p).waits}
Resetting == {p \in Ids : On("reset", p) \in InProgress}
AwaitsAll(p) == \A q \in Partners(p) : Event("TERMINATION", q) \in waited[p]
Ready(p) == \A q \in Partners(p) : terminated[q]
HasBegun(p) == started[p] \/ sent[p] > 0 \/ terminated[p]
Fresh(p) == AwaitsAll(p) /\ (Partners(p) # {} => ~HasBegun(p))
ClosedUnder(N) == \A p \in Ids : \A q \in Partners(p) : q \in N => p \in N

\* A termination is awaited until it happens.
Kept ==
    \A p \in Present \ Resetting : \A q \in Partners(p) :
        Event("TERMINATION", q) \in waited[p] \/ terminated[q]

\* A stream is reset with all that waits for any of its profiles.
Closing ==
    \E N \in SUBSET Ids : /\ Resetting \subseteq N /\ ClosedUnder(N)
                          /\ \A p \in N : p \in Resetting \/ Fresh(p)

Begun == \A p \in Ids : HasBegun(p) => p \in Resetting \/ Ready(p)

CacheClosed == conf.autoReset => \A r \in Ids : ClosedUnder(ToSet(streamCache[r].nodes))

\* As long as files are loaded, all terminations are subscribed to.
Subscribing ==
    (\E c \in InProgress : Load(c)) =>
        \A p \in Present : \A q \in Partners(p) :
            Subscription(Event("TERMINATION", q), p) \in waitEventMap

InTurn == Kept /\ Closing /\ Begun /\ CacheClosed /\ Subscribing

LEMMA ClosingNone ==
    ASSUME Resetting = {}
    PROVE  Closing
<1>1. {} \in SUBSET Ids /\ Resetting \subseteq {} /\ ClosedUnder({})
    BY DEF ClosedUnder
<1> QED
    BY <1>1 DEF Closing

LEMMA AwaitedTermination ==
    ASSUME NEW W, NEW q, Event("TERMINATION", q) \in W
    PROVE  Waiting(W, "PROFILE")
    BY DEF Waiting, Event, Category

\* Calls that reset and configure nothing, in place of one that does not either.
Plain(D) ==
    /\ Makes(D)
    /\ \A x \in D : x.op \notin {"configure", "cache", "reset"}
    /\ Head(todo).op \notin {"configure", "reset"}

LEMMA PlainOf ==
    ASSUME Typed, conf' = conf, NEW D, Plain(D)
    PROVE  /\ Resetting' = Resetting /\ Present' = Present
           /\ \A c \in InProgress' : Load(c) => c \in InProgress
<1>1. InProgress' = D \cup Rest /\ InProgress = {Head(todo)} \cup Rest
    BY MakesOf DEF Plain
<1>2. \A p \in Ids : On("reset", p) \in InProgress' <=> On("reset", p) \in InProgress
    BY <1>1 DEF Plain, On
<1>3. \A p \in Ids : Configured(p)' <=> Configured(p)
    BY ConfiguredSame DEF Plain
<1>4. \A c \in InProgress' : Load(c) => c \in InProgress
    BY <1>1 DEF Plain, Load
<1> QED
    BY <1>2, <1>3, <1>4 DEF Resetting, Present

LEMMA OpsOf ==
    /\ \A t, p : Emit(t, p).op = "emit"
    /\ \A e, U : Notify(e, U).op = "notify"
    /\ \A o, p : On(o, p).op = o
    /\ \A k, U : Check(k, U).op = "check"
    /\ \A n : Walk(n).op = "walk"
    /\ \A U : Ask(U).op = "streams"
    BY DEF Emit, Notify, On, Check, Walk, Ask

\* Profiles that neither send nor end, and none that stops waiting.
Rests ==
    UNCHANGED <<conf, waited, started, sent, terminated>>

LEMMA InTurnRests ==
    ASSUME Typed, Orderly, InTurn, Rests, NEW D, Plain(D), CacheClosed', Subscribing'
    PROVE  InTurn'
<1>1. Resetting' = Resetting /\ Present' = Present /\ conf' = conf
    BY PlainOf DEF Rests
<1>2. Kept' /\ Begun'
    BY <1>1 DEF InTurn, Kept, Begun, Rests, HasBegun, Ready, Partners, Of
<1>3. Closing'
    <2>1. PICK N \in SUBSET Ids : /\ Resetting \subseteq N /\ ClosedUnder(N)
                                  /\ \A p \in N : p \in Resetting \/ Fresh(p)
        BY DEF InTurn, Closing
    <2>2. ClosedUnder(N)' /\ \A p \in N : p \in Resetting \/ Fresh(p)'
        BY <1>1, <2>1 DEF ClosedUnder, Fresh, AwaitsAll, Rests, HasBegun, Partners, Of
    <2> QED
        BY <1>1, <2>1, <2>2 DEF Closing
<1> QED
    BY <1>2, <1>3 DEF InTurn

LEMMA CacheClosedSame ==
    ASSUME InTurn, UNCHANGED <<conf, streamCache>>
    PROVE  CacheClosed'
    BY DEF InTurn, CacheClosed, ClosedUnder, Partners, Of

LEMMA SubscribingKept ==
    ASSUME InTurn, conf' = conf, Present' = Present,
           \A c \in InProgress' : Load(c) => c \in InProgress, waitEventMap \subseteq waitEventMap'
    PROVE  Subscribing'
<1>1. ASSUME NEW c \in InProgress', Load(c)
      PROVE  \A p \in Present' : \A q \in Partners(p)' :
                 Subscription(Event("TERMINATION", q), p) \in waitEventMap'
    BY <1>1 DEF InTurn, Subscribing, Partners, Of, Load
<1> QED
    BY <1>1 DEF Subscribing, Load

\* One profile begins, sends or ends, if it does, when it may.
Advances(p) ==
    /\ UNCHANGED <<conf, waited, waitEventMap, streamCache>>
    /\ \A q \in Ids \ {p} : started'[q] = started[q] /\ sent'[q] = sent[q] /\ terminated'[q] = terminated[q]
    /\ terminated[p] => terminated'[p]
    /\ sent'[p] >= sent[p]
    /\ \/ Ready(p)
       \/ started'[p] = started[p] /\ sent'[p] = sent[p] /\ terminated'[p] = terminated[p]

LEMMA InTurnAdvances ==
    ASSUME Typed, Orderly, InTurn, NEW p \in Ids, Advances(p), NEW D, Plain(D),
           Head(todo).op \in {"walk", "answered", "check"}
    PROVE  InTurn'
<1>1. /\ Resetting' = Resetting /\ Present' = Present /\ conf' = conf
      /\ \A c \in InProgress' : Load(c) => c \in InProgress
    BY PlainOf DEF Advances
<1>2. Resetting = {}
    <2>1. InProgress = {Head(todo)} \cup Rest /\ todo # <<>>
        BY MakesOf DEF Plain, Makes
    <2>2. \A y \in Rest : y.op # "reset"
        BY <2>1, StackedOf DEF Orderly, FitsOver, Resets, Activates
    <2> QED
        BY <2>1, <2>2, OpsOf DEF Resetting
<1>3. \A q \in Ids : terminated[q] => terminated'[q]
    BY DEF Advances
<1>4. \A r \in Ids : Partners(r)' = Partners(r) /\ (Ready(r) => Ready(r)')
    BY <1>1, <1>3 DEF Partners, Ready, Of
<1>5. Kept'
    <2>1. ASSUME NEW r \in Present \ Resetting, NEW q \in Partners(r)
          PROVE  Event("TERMINATION", q) \in waited'[r] \/ terminated'[q]
        <3>1. q \in Ids /\ waited' = waited
            BY DEF Partners, Advances
        <3> QED
            BY <1>3, <3>1 DEF InTurn, Kept
    <2>2. Present' \ Resetting' \subseteq Ids /\ Present' \ Resetting' = Present \ Resetting
        BY <1>1 DEF Present
    <2> QED
        BY <1>4, <2>1, <2>2 DEF Kept
<1>6. Closing'
    <2>1. {} \in SUBSET Ids /\ Resetting' \subseteq {} /\ ClosedUnder({})'
        BY <1>1, <1>2 DEF ClosedUnder
    <2> QED
        BY <2>1 DEF Closing
<1>7. Begun'
    <2>1. ASSUME NEW r \in Ids, HasBegun(r)' PROVE Ready(r)'
        <3>1. CASE r = p /\ Ready(p)
            BY <1>4, <3>1
        <3>2. CASE ~(r = p /\ Ready(p))
            <4>1. HasBegun(r)
                BY <2>1, <3>2 DEF HasBegun, Advances
            <4> QED
                BY <1>2, <1>4, <4>1 DEF InTurn, Begun
        <3> QED
            BY <3>1, <3>2
    <2> QED
        BY <2>1 DEF Begun
<1>8. CacheClosed'
    BY CacheClosedSame DEF Advances
<1>9. Subscribing'
    BY <1>1, SubscribingKept DEF Advances
<1> QED
    BY <1>5, <1>6, <1>7, <1>8, <1>9 DEF InTurn

\* A profile that is configured, and not being reset, and that awaits no
\* PROFILE event: all it waits for has terminated.
LEMMA ReadyWhen ==
    ASSUME InTurn, NEW p \in Present, p \notin Resetting, NEW W, ~Waiting(W, "PROFILE"),
           \A q \in Ids : Event("TERMINATION", q) \in waited[p] \ W => terminated[q]
    PROVE  Ready(p)
<1>1. ASSUME NEW q \in Partners(p) PROVE terminated[q]
    <2>1. Event("TERMINATION", q) \notin W
        BY AwaitedTermination
    <2>2. q \in Ids
        BY DEF Partners
    <2> QED
        BY <2>1, <2>2 DEF InTurn, Kept
<1> QED
    BY <1>1 DEF Ready

\* Under a walk, an answer or a check, no profile is being reset.
LEMMA NoneResetting ==
    ASSUME Typed, Orderly, todo # <<>>, Head(todo).op \in {"walk", "answered", "check"}
    PROVE  Resetting = {}
<1>1. InProgress = {Head(todo)} \cup Rest
    <2>1. Running(Head(todo).op) /\ todo \in Seq(Calls)
        BY DEF Running, Typed
    <2> QED
        BY <2>1, RunningOf
<1>2. \A y \in Rest : y.op # "reset"
    BY StackedOf DEF Orderly, FitsOver, Resets, Activates
<1> QED
    BY <1>1, <1>2, OpsOf DEF Resetting

LEMMA BegunReady ==
    ASSUME InTurn, NEW p \in Ids, p \notin Resetting, HasBegun(p)
    PROVE  Ready(p)
    BY DEF InTurn, Begun

LEMMA EndedHasBegun ==
    ASSUME Typed, NEW p \in Ids, Ended(p)
    PROVE  HasBegun(p)
<1>1. Of(p).toSend \in Nat /\ sent[p] \in Nat
    BY ConfOf DEF Typed
<1> QED
    BY <1>1 DEF Ended, EndOfData, EndOfTime, HasBegun

LEMMA ActiveReady ==
    ASSUME Typed, Orderly, Known, InTurn, Polls("master"), Active(Polled)
    PROVE  Ready(Polled)
<1> DEFINE p == Polled
<1>1. p \in Ids /\ p \in Present /\ p \notin Resetting
    BY PollsOf, NoneResetting, OpsOf DEF Known
<1>2. CASE terminated[p]
    BY <1>1, <1>2, BegunReady DEF HasBegun
<1>3. CASE ~terminated[p]
    <2>1. ~Waiting(waited[p], "PROFILE")
        BY <1>3 DEF Active, Locked, Terminates
    <2> QED
        BY <1>1, <2>1, ReadyWhen
<1> QED
    BY <1>2, <1>3

LEMMA SendsAdvances ==
    ASSUME Typed, Orderly, Known, InTurn, MasterSends \/ MasterRefused
    PROVE  /\ Polled \in Ids /\ Advances(Polled) /\ Head(todo).op = "walk" /\ \E D : Plain(D)
<1> DEFINE p == Polled
<1>1. Polls("master") /\ Active(p)
    BY DEF MasterSends, MasterRefused
<1>2. p \in Ids /\ Head(todo).op = "walk" /\ Ready(p)
    BY <1>1, PollsOf, ActiveReady, OpsOf
<1>3. Advances(p)
    <2>1. CASE MasterSends
        <3>1. /\ UNCHANGED <<conf, waited, waitEventMap, streamCache, terminated>>
              /\ started' = [started EXCEPT ![p] = TRUE] /\ sent' = [sent EXCEPT ![p] = @ + 1]
            BY <2>1 DEF MasterSends, Activated, busVars, streams
        <3>2. sent[p] \in Nat /\ sent \in [Ids -> Nat] /\ started \in [Ids -> BOOLEAN]
            BY <1>2 DEF Typed
        <3>3. sent'[p] >= sent[p] /\ \A q \in Ids \ {p} : started'[q] = started[q] /\ sent'[q] = sent[q]
            BY <1>2, <3>1, <3>2
        <3> QED
            BY <1>2, <3>1, <3>3 DEF Advances
    <2>2. CASE MasterRefused
        <3>1. /\ UNCHANGED <<conf, waited, waitEventMap, streamCache, terminated, sent>>
              /\ started' = [started EXCEPT ![p] = TRUE]
            BY <2>2 DEF MasterRefused, Activated, busVars, streams
        <3>2. sent[p] \in Nat /\ started \in [Ids -> BOOLEAN]
            BY <1>2 DEF Typed
        <3> QED
            BY <1>2, <3>1, <3>2 DEF Advances
    <2> QED
        BY <2>1, <2>2
<1>4. \E D : Plain(D)
    <2>1. CASE MasterSends
        <3> DEFINE D == (IF ~started[p] THEN {Emit("ACTIVATION", p)} ELSE {})
                        \cup {Emit("PROFILE_UNLOCKED", p)}
                        \cup (IF CheckersOf(p) = {} THEN {} ELSE {Check("send", CheckersOf(p))})
                        \cup {Head(todo)}
        <3>1. Makes(D)
            BY <2>1, MasterSendsMakes
        <3>2. \A x \in D : x.op \notin {"configure", "cache", "reset"}
            BY <1>2, OpsOf
        <3> HIDE DEF D
        <3> QED
            BY <1>2, <3>1, <3>2 DEF Plain
    <2>2. CASE MasterRefused
        <3>1. PICK n \in Nat \ {0} :
                  Makes((IF ~started[p] THEN {Emit("ACTIVATION", p)} ELSE {})
                        \cup {Emit("PROFILE_LOCKED", p)} \cup {Walk(n)})
            BY <2>2, MasterRefusedMakes
        <3> DEFINE D == (IF ~started[p] THEN {Emit("ACTIVATION", p)} ELSE {})
                        \cup {Emit("PROFILE_LOCKED", p)} \cup {Walk(n)}
        <3>2. \A x \in D : x.op \notin {"configure", "cache", "reset"}
            BY OpsOf
        <3> HIDE DEF D
        <3> QED
            BY <1>2, <3>1, <3>2 DEF Plain, D
    <2> QED
        BY <2>1, <2>2
<1> QED
    BY <1>2, <1>3, <1>4

LEMMA IdleAdvances ==
    ASSUME Typed, Orderly, Known, InTurn, MasterIdle
    PROVE  /\ Polled \in Ids /\ Advances(Polled) /\ Head(todo).op = "walk" /\ \E D : Plain(D)
<1> DEFINE p == Polled
           ends == Terminates(p, ot[p])
<1>1. p \in Ids /\ Head(todo).op = "walk" /\ todo # <<>>
    BY MasterIdleMakes DEF MasterIdle, Polls, Running
<1>2. PICK n \in Nat \ {0} :
          Makes((IF ends THEN {Emit("TERMINATION", p)}
                 ELSE IF terminated[p] THEN {} ELSE {Emit("PROFILE_LOCKED", p)})
                \cup {Walk(n)})
    BY MasterIdleMakes
<1> DEFINE D == (IF ends THEN {Emit("TERMINATION", p)}
                 ELSE IF terminated[p] THEN {} ELSE {Emit("PROFILE_LOCKED", p)})
                \cup {Walk(n)}
<1>3. \A x \in D : x.op \notin {"configure", "cache", "reset"}
    <2> HIDE DEF ends
    <2> QED
        BY OpsOf
<1>4. ends => Ready(p)
    <2> SUFFICES ASSUME ends PROVE Ready(p)
        OBVIOUS
    <2>1. HasBegun(p)
        BY <1>1, EndedHasBegun DEF Terminates
    <2>2. p \notin Resetting
        BY <1>1, NoneResetting
    <2> QED
        BY <1>1, <2>1, <2>2, BegunReady
<1>5. /\ UNCHANGED <<conf, waited, waitEventMap, streamCache, started, sent>>
      /\ terminated' = [terminated EXCEPT ![p] = @ \/ ends]
    BY DEF MasterIdle, busVars, streams
<1>6. sent[p] \in Nat /\ terminated \in [Ids -> BOOLEAN]
    BY <1>1 DEF Typed
<1> HIDE DEF ends
<1>7. Advances(p)
    BY <1>1, <1>4, <1>5, <1>6 DEF Advances
<1>8. Plain(D)
    <2>1. Makes(D)
        BY <1>2
    <2> HIDE DEF D
    <2> QED
        BY <1>1, <1>3, <2>1 DEF Plain
<1> QED
    BY <1>1, <1>7, <1>8

LEMMA DelayAdvances ==
    ASSUME Typed, Orderly, Known, InTurn, DelaySend
    PROVE  /\ Polled \in Ids /\ Advances(Polled) /\ Head(todo).op = "walk" /\ \E D : Plain(D)
<1> DEFINE p == Polled
           b == DelayBegun(p) /\ ~started[p]
           e == DelayEnds(p)
<1>1. p \in Ids /\ Head(todo).op = "walk" /\ todo # <<>> /\ p \in Present /\ p \notin Resetting
    <2>1. Polls("delay")
        BY DEF DelaySend
    <2> QED
        BY <2>1, PollsOf, OpsOf, NoneResetting DEF Known
<1>2. PICK n \in Nat \ {0} :
          Makes((IF b THEN {Emit("ACTIVATION", p)} ELSE {})
                \cup (IF e THEN {Emit("TERMINATION", p)} ELSE {}) \cup {Walk(n)})
    BY DelaySendMakes
<1> DEFINE D == (IF b THEN {Emit("ACTIVATION", p)} ELSE {})
                \cup (IF e THEN {Emit("TERMINATION", p)} ELSE {}) \cup {Walk(n)}
<1>3. DelayBegun(p) => Ready(p)
    <2>1. CASE started[p]
        BY <1>1, <2>1, BegunReady DEF HasBegun
    <2>2. CASE ~started[p] /\ DelayBegun(p)
        BY <1>1, <2>2, ReadyWhen DEF DelayBegun
    <2> QED
        BY <2>1, <2>2
<1>4. /\ UNCHANGED <<conf, waited, waitEventMap, streamCache, sent>>
      /\ started' = [started EXCEPT ![p] = DelayBegun(p)]
      /\ terminated' = [terminated EXCEPT ![p] = @ \/ e]
    BY DEF DelaySend, busVars, streams, DelayBegun, DelayEnds, DelayFrom
<1>5. sent[p] \in Nat /\ terminated \in [Ids -> BOOLEAN] /\ started \in [Ids -> BOOLEAN]
    BY <1>1 DEF Typed
<1>6. Advances(p)
    <2>1. CASE DelayBegun(p)
        BY <1>1, <1>3, <1>4, <1>5, <2>1 DEF Advances
    <2>2. CASE ~DelayBegun(p)
        <3>1. ~e /\ ~started[p]
            BY <2>2 DEF DelayEnds, DelayBegun
        <3> HIDE DEF e
        <3>2. terminated'[p] = terminated[p]
            BY <1>1, <1>4, <1>5, <3>1
        <3>3. DelayBegun(p) \in BOOLEAN
            BY DEF DelayBegun
        <3>4. started'[p] = started[p]
            BY <1>1, <1>4, <1>5, <2>2, <3>1, <3>3
        <3> QED
            BY <1>1, <1>4, <1>5, <3>2, <3>4 DEF Advances
    <2> QED
        BY <2>1, <2>2
<1> HIDE DEF b, e
<1>7. \A x \in D : x.op \notin {"configure", "cache", "reset"}
    BY OpsOf
<1>8. Plain(D)
    <2>1. Makes(D)
        BY <1>2
    <2> HIDE DEF D
    <2> QED
        BY <1>1, <1>7, <2>1 DEF Plain
<1> QED
    BY <1>1, <1>6, <1>8

LEMMA AnsweredAdvances ==
    ASSUME Typed, Orderly, Known, InTurn, Answered
    PROVE  \E p \in Ids : Advances(p) /\ Head(todo).op = "answered" /\ \E D : Plain(D)
<1> DEFINE p == Head(todo).profile
           b == Terminates(p, ot[p])
           D == (IF b THEN {Emit("TERMINATION", p)} ELSE {})
                \cup (IF CheckersOf(p) = {} THEN {} ELSE {Check("receive", CheckersOf(p))})
<1>1. p \in Ids /\ Head(todo).op = "answered" /\ Makes(D) /\ todo # <<>>
    BY AnsweredMakes DEF Makes
<1>2. b => Ready(p)
    <2> SUFFICES ASSUME b PROVE Ready(p)
        OBVIOUS
    <2>1. HasBegun(p)
        BY <1>1, EndedHasBegun DEF Terminates
    <2>2. p \notin Resetting
        BY <1>1, NoneResetting
    <2> QED
        BY <1>1, <2>1, <2>2, BegunReady
<1>3. /\ UNCHANGED <<conf, waited, waitEventMap, streamCache, started, sent>>
      /\ terminated' = [terminated EXCEPT ![p] = @ \/ b]
    BY DEF Answered, busVars, streams
<1>4. sent[p] \in Nat /\ terminated \in [Ids -> BOOLEAN]
    BY <1>1 DEF Typed
<1> HIDE DEF b
<1>5. Advances(p)
    BY <1>1, <1>2, <1>3, <1>4 DEF Advances
<1>6. \A x \in D : x.op \notin {"configure", "cache", "reset"}
    BY OpsOf
<1> HIDE DEF D
<1>7. Plain(D)
    BY <1>1, <1>6 DEF Plain
<1> HIDE DEF p
<1> QED
    BY <1>1, <1>5, <1>7

LEMMA RecordsAdvances ==
    ASSUME Typed, Orderly, Known, InTurn, NEW c \in Ids, CheckerRecords(c)
    PROVE  Advances(c) /\ Head(todo).op = "check" /\ \E D : Plain(D)
<1> DEFINE k == Head(todo).kind
           to == Head(todo).to
           b == waited[c] = {} /\ ~terminated[c]
           D == (IF b THEN {Emit("TERMINATION", c)} ELSE {})
                \cup (IF to \ {c} = {} THEN {} ELSE {Check(k, to \ {c})})
<1>1. c \in to /\ Head(todo).op = "check" /\ Makes(D) /\ todo # <<>>
    BY CheckerRecordsMakes DEF Makes
<1>2. c \in Present /\ c \notin Resetting
    <2> HIDE DEF D
    <2>1. Head(todo) \in InProgress
        BY <1>1, MakesOf
    <2>2. Concerned(Head(todo)) = to
        BY <1>1 DEF Concerned
    <2> QED
        BY <1>1, <2>1, <2>2, NoneResetting DEF Known
<1>3. b => Ready(c)
    <2>1. waited[c] = {} => ~Waiting(waited[c], "PROFILE")
        BY DEF Waiting
    <2> QED
        BY <1>2, <2>1, ReadyWhen
<1>4. /\ UNCHANGED <<conf, waited, waitEventMap, streamCache, started, sent>>
      /\ terminated' = [terminated EXCEPT ![c] = @ \/ b]
    BY DEF CheckerRecords, busVars, streams
<1>5. sent[c] \in Nat /\ terminated \in [Ids -> BOOLEAN]
    BY DEF Typed
<1> HIDE DEF b
<1>6. Advances(c)
    BY <1>3, <1>4, <1>5 DEF Advances
<1>7. \A x \in D : x.op \notin {"configure", "cache", "reset"}
    BY OpsOf
<1> HIDE DEF D
<1>8. Plain(D)
    BY <1>1, <1>7 DEF Plain
<1> QED
    BY <1>1, <1>6, <1>8

LEMMA InTurnEmission ==
    ASSUME Typed, Orderly, InTurn, Emission
    PROVE  InTurn'
<1> DEFINE p == Head(todo).profile
           type == Head(todo).type
           ev == Event(type, p)
           D == IF MayEmit(type, p) THEN {Notify(ev, Listeners(ev))} ELSE {}
<1>1. Makes(D) /\ Head(todo).op = "emit" /\ todo # <<>>
    BY EmitMakes DEF Emission, Makes
<1>2. \A x \in D : x.op \notin {"configure", "cache", "reset"}
    BY OpsOf
<1> HIDE DEF D
<1>3. Plain(D)
    BY <1>1, <1>2 DEF Plain
<1>4. Rests /\ streamCache' = streamCache
    BY DEF Rests, Emission, EmitEvent, profileVars, streams
<1>5. /\ Present' = Present
      /\ \A c \in InProgress' : Load(c) => c \in InProgress
    BY <1>3, <1>4, PlainOf DEF Rests
<1>6. Subscribing'
    <2> SUFFICES ASSUME NEW c \in InProgress', Load(c)
                 PROVE  \A r \in Present' : \A q \in Partners(r)' :
                            Subscription(Event("TERMINATION", q), r) \in waitEventMap'
        BY DEF Subscribing, Load
    <2>1. c \in InProgress /\ c # Head(todo)
        BY <1>1, <1>5 DEF Load
    <2>2. c \in Rest
        BY <1>1, <2>1, MakesOf
    <2>3. Activates(Head(todo))
        BY <1>1, <2>2, StackedOf DEF Orderly, FitsOver, Load
    <2>4. type = "ACTIVATION"
        BY <1>1, <2>3 DEF Activates
    <2>5. waitEventMap' = waitEventMap \/ waitEventMap' = KeptSubscriptions(ev)
        BY DEF Emission, EmitEvent
    <2>6. \A r \in Present : \A q \in Partners(r) :
              Subscription(Event("TERMINATION", q), r) \in waitEventMap
        BY <2>1 DEF InTurn, Subscribing, Load
    <2>7. \A q, r : ~Concerns(Subscription(Event("TERMINATION", q), r), ev)
        BY <2>4 DEF Concerns, Subscription, Event
    <2>8. \A r \in Present : Partners(r)' = Partners(r)
        BY <1>4 DEF Rests, Partners, Of
    <2> QED
        BY <1>5, <2>5, <2>6, <2>7, <2>8 DEF KeptSubscriptions
<1>7. CacheClosed'
    BY <1>4, CacheClosedSame DEF Rests
<1> QED
    BY <1>3, <1>4, <1>6, <1>7, InTurnRests

LEMMA InTurnRuns ==
    ASSUME Typed, Orderly, InTurn, Delivered \/ EndWalk \/ AllAsked \/ CheckerSkipped
    PROVE  InTurn'
<1>1. Rests /\ UNCHANGED <<streamCache, waitEventMap>>
    BY DEF Rests, Delivered, AllHeard, EndWalk, AllAsked, CheckerSkipped, busVars, profileVars, streams
<1>2. \E D : Plain(D)
    <2>1. CASE Delivered \/ AllAsked
        <3>1. Makes({}) /\ Head(todo).op \in {"notify", "streams"}
            BY <2>1, EndsMake DEF Delivered, AllHeard, AllAsked, Running
        <3> QED
            BY <3>1 DEF Plain
    <2>2. CASE EndWalk
        <3>1. Makes({Ask(activeStreams)}) /\ Head(todo).op = "walk"
            BY <2>2, EndWalkMakes
        <3> QED
            BY <3>1, OpsOf DEF Plain
    <2>3. CASE CheckerSkipped
        <3>1. PICK n \in Nat \ {0} : Makes({Walk(n)})
            BY <2>3, CheckerSkippedMakes
        <3>2. Head(todo).op = "walk"
            BY <2>3, CheckerSkippedMakes
        <3> QED
            BY <3>1, <3>2, OpsOf DEF Plain
    <2> QED
        BY <2>1, <2>2, <2>3
<1>3. PICK D : Plain(D)
    BY <1>2
<1>4. CacheClosed' /\ Subscribing'
    BY <1>1, <1>3, PlainOf, CacheClosedSame, SubscribingKept DEF Rests
<1> QED
    BY <1>1, <1>3, <1>4, InTurnRests

LEMMA InTurnCache ==
    ASSUME OneFile, Typed, Orderly, InTurn, StreamCacheUpdate
    PROVE  InTurn'
<1>1. Makes({}) /\ Head(todo).op = "cache" /\ todo # <<>>
    BY EndsMake DEF StreamCacheUpdate, Running
<1>2. Plain({})
    BY <1>1 DEF Plain
<1>3. Rests /\ waitEventMap' = waitEventMap
    BY DEF Rests, StreamCacheUpdate, busVars, profileVars
<1>4. Subscribing'
    BY <1>2, <1>3, PlainOf, SubscribingKept DEF Rests
<1>5. ASSUME conf.autoReset, NEW r \in Ids PROVE ClosedUnder(ToSet(Stream(r).nodes))
    <2>1. Rest = {}
        <3>1. conf \in Configs
            BY DEF Typed
        <3>2. Len(conf.files) <= 1
            BY <1>5, <3>1 DEF OneFile
        <3> QED
            BY <1>1, <1>5, <3>2, StackedOf DEF Orderly, FitsOver
    <2>2. InProgress = {Head(todo)}
        BY <1>1, <2>1, MakesOf
    <2>3. ASSUME NEW p \in Ids, NEW q \in Partners(p) PROVE p \in Followers(q)
        <3>1. Described(p)
            BY DescribedOf DEF Typed, Partners
        <3>2. p \in Present
            BY <1>1, <2>2, <3>1, OpsOf DEF Present, Configured, Described
        <3>3. Subscription(Event("TERMINATION", q), p) \in waitEventMap
            BY <1>1, <2>2, <3>2 DEF InTurn, Subscribing, Load
        <3>4. /\ Subscription(Event("TERMINATION", q), p).id = q
              /\ Subscription(Event("TERMINATION", q), p).type = "TERMINATION"
              /\ Subscription(Event("TERMINATION", q), p).profile = p
            BY DEF Subscription, Event
        <3> QED
            BY <3>3, <3>4 DEF Followers
    <2>4. \A n \in ToSet(Stream(r).nodes) : Followers(n) \subseteq ToSet(Stream(r).nodes)
        BY StreamOf DEF Typed
    <2> QED
        BY <2>3, <2>4 DEF ClosedUnder
<1>6. CacheClosed'
    <2>1. \A r \in Ids : streamCache'[r] = streamCache[r] \/ streamCache'[r] = Stream(r)
        BY DEF StreamCacheUpdate
    <2>2. conf.autoReset => \A r \in Ids : ClosedUnder(ToSet(streamCache'[r].nodes))
        BY <1>5, <2>1 DEF InTurn, CacheClosed
    <2> QED
        BY <1>3, <2>2 DEF CacheClosed, ClosedUnder, Rests, Partners, Of
<1> QED
    BY <1>2, <1>3, <1>4, <1>6, InTurnRests

LEMMA InTurnHears ==
    ASSUME Typed, Orderly, Known, InTurn, NEW p \in Ids, MasterHears(p) \/ OtherHears(p)
    PROVE  InTurn'
<1> DEFINE ev == Head(todo).event
           to == Head(todo).to
<1>1. /\ p \in to /\ Head(todo) = Notify(ev, to) /\ ev \in Events
      /\ \E b \in BOOLEAN : Makes((IF b THEN {Emit("ACTIVATION", p)} ELSE {}) \cup {Notify(ev, to \ {p})})
    <2>1. CASE MasterHears(p)
        <3>1. Starts(p, AwaitedBy(p, ev)) \in BOOLEAN
            BY DEF Starts
        <3> QED
            BY <2>1, <3>1, MasterHearsMakes
    <2>2. CASE OtherHears(p)
        <3> DEFINE c == Of(p).role = "delay" /\ ~Waiting(StillWaited(p, ev), "PROFILE")
        <3>1. c \in BOOLEAN
            OBVIOUS
        <3>2. /\ p \in to /\ Head(todo) = Notify(ev, to) /\ ev \in Events
              /\ Makes((IF c THEN {Emit("ACTIVATION", p)} ELSE {}) \cup {Notify(ev, to \ {p})})
            BY <2>2, OtherHearsMakes
        <3> HIDE DEF c
        <3> QED
            BY <3>1, <3>2
    <2> QED
        BY <2>1, <2>2
<1>2. PICK b \in BOOLEAN : Makes((IF b THEN {Emit("ACTIVATION", p)} ELSE {}) \cup {Notify(ev, to \ {p})})
    BY <1>1
<1> DEFINE D == (IF b THEN {Emit("ACTIVATION", p)} ELSE {}) \cup {Notify(ev, to \ {p})}
<1>3. \A x \in D : x.op \notin {"configure", "cache", "reset"}
    BY OpsOf
<1>4. Makes(D) /\ Head(todo).op = "notify" /\ todo # <<>>
    BY <1>1, <1>2, OpsOf DEF Makes
<1> HIDE DEF D
<1>5. Plain(D) /\ Head(todo) \in InProgress /\ InProgress = {Head(todo)} \cup Rest
    BY <1>3, <1>4, MakesOf DEF Plain
<1>6. conf' = conf /\ streamCache' = streamCache /\ waitEventMap \subseteq waitEventMap'
      /\ UNCHANGED <<sent, terminated>>
    <2>1. CASE MasterHears(p)
        BY <2>1 DEF MasterHears, Subscribed, streams
    <2>2. CASE OtherHears(p)
        BY <2>2 DEF OtherHears, profileVars, streams
    <2> QED
        BY <2>1, <2>2
<1>7. /\ Resetting' = Resetting /\ Present' = Present
      /\ \A c \in InProgress' : Load(c) => c \in InProgress
    BY <1>5, <1>6, PlainOf
<1>8. PICK W : /\ waited' = [waited EXCEPT ![p] = W] /\ StillWaited(p, ev) \subseteq W
               /\ started' = started \/ (started' = [started EXCEPT ![p] = TRUE] /\ ~Waiting(W, "PROFILE"))
    <2>1. CASE MasterHears(p)
        <3>1. /\ waited' = [waited EXCEPT ![p] = AwaitedBy(p, ev)]
              /\ started' = [started EXCEPT ![p] = @ \/ Starts(p, AwaitedBy(p, ev))]
            BY <2>1 DEF MasterHears
        <3>2. StillWaited(p, ev) \subseteq AwaitedBy(p, ev)
            BY DEF AwaitedBy
        <3>3. started \in [Ids -> BOOLEAN]
            BY DEF Typed
        <3>4. \/ started' = started
              \/ started' = [started EXCEPT ![p] = TRUE] /\ ~Waiting(AwaitedBy(p, ev), "PROFILE")
            BY <3>1, <3>3 DEF Starts
        <3> QED
            BY <3>1, <3>2, <3>4
    <2>2. CASE OtherHears(p)
        BY <2>2 DEF OtherHears, profileVars
    <2> QED
        BY <2>1, <2>2
<1>9. p \in Present
    BY <1>1, <1>5, ConcernedOf DEF Known
<1>10. \A q \in Ids : Event("TERMINATION", q) \in waited[p] \ StillWaited(p, ev) => terminated[q]
    <2>1. ASSUME NEW q \in Ids, Event("TERMINATION", q) \in waited[p] \ StillWaited(p, ev)
          PROVE  ev = Event("TERMINATION", q)
        BY <1>1, <2>1 DEF StillWaited, Event, Events
    <2>2. \A q \in Ids : ev = Event("TERMINATION", q) => Tells(Head(todo), q)
        BY <1>4 DEF Tells
    <2> QED
        BY <1>5, <2>1, <2>2 DEF Orderly, Announced
<1>11. \A r \in Ids : Partners(r)' = Partners(r) /\ (Ready(r)' <=> Ready(r))
    BY <1>6 DEF Partners, Ready, Of
<1>12. Kept'
    <2>1. ASSUME NEW r \in Present \ Resetting, NEW q \in Partners(r)
          PROVE  Event("TERMINATION", q) \in waited'[r] \/ terminated[q]
        <3>1. Event("TERMINATION", q) \in waited[r] \/ terminated[q]
            BY DEF InTurn, Kept
        <3>2. q \in Ids /\ r \in Ids
            BY DEF Partners, Present
        <3>3. CASE r = p
            BY <1>8, <1>10, <3>1, <3>2, <3>3 DEF Typed
        <3>4. CASE r # p
            BY <1>8, <3>1, <3>2, <3>4 DEF Typed
        <3> QED
            BY <3>3, <3>4
    <2>2. Present \subseteq Ids
        BY DEF Present
    <2> QED
        BY <1>6, <1>7, <1>11, <2>1, <2>2 DEF Kept
<1>13. Begun'
    <2>1. ASSUME NEW r \in Ids, HasBegun(r)' PROVE r \in Resetting \/ Ready(r)
        <3>1. CASE HasBegun(r)
            BY <3>1 DEF InTurn, Begun
        <3>2. CASE ~HasBegun(r)
            <4>1. r = p /\ ~Waiting(W, "PROFILE")
                BY <1>6, <1>8, <2>1, <3>2 DEF HasBegun, Typed
            <4>2. p \notin Resetting => Ready(p)
                BY <1>8, <1>9, <1>10, <4>1, ReadyWhen
            <4> QED
                BY <4>1, <4>2
        <3> QED
            BY <3>1, <3>2
    <2> QED
        BY <1>7, <1>11, <2>1 DEF Begun
<1>14. Closing'
    <2>1. CASE Resetting = {}
        <3>1. {} \in SUBSET Ids /\ Resetting' \subseteq {} /\ ClosedUnder({})'
            BY <1>7, <2>1 DEF ClosedUnder
        <3> QED
            BY <3>1 DEF Closing
    <2>2. CASE Resetting # {}
        <3>1. PICK x \in Ids : On("reset", x) \in Rest
            BY <1>4, <1>5, <2>2, OpsOf DEF Resetting
        <3>2. ev.type = "ACTIVATION"
            <4>1. On("reset", x) \in Rest /\ On("reset", x).op = "reset"
                BY <3>1, OpsOf
            <4>2. FitsOver(Head(todo), On("reset", x))
                BY <1>4, <4>1, StackedOf DEF Orderly
            <4> QED
                BY <1>4, <4>1, <4>2 DEF FitsOver, Resets, Activates
        <3>3. \A q : Event("TERMINATION", q) \in waited[p] => Event("TERMINATION", q) \in W
            BY <1>8, <3>2 DEF StillWaited, Event
        <3>4. PICK N \in SUBSET Ids : /\ Resetting \subseteq N /\ ClosedUnder(N)
                                      /\ \A r \in N : r \in Resetting \/ Fresh(r)
            BY DEF InTurn, Closing
        <3>5. ASSUME NEW r \in N, Fresh(r) PROVE Fresh(r)'
            <4>1. AwaitsAll(r)'
                BY <1>8, <1>11, <3>3, <3>5 DEF AwaitsAll, Fresh, Typed
            <4>2. ASSUME Partners(r) # {} PROVE ~HasBegun(r)'
                <5>1. ~HasBegun(r)
                    BY <3>5, <4>2 DEF Fresh
                <5>2. r = p => Waiting(W, "PROFILE")
                    <6> SUFFICES ASSUME r = p PROVE Waiting(W, "PROFILE")
                        OBVIOUS
                    <6>1. PICK q \in Partners(p) : Event("TERMINATION", q) \in waited[p]
                        BY <3>5, <4>2 DEF Fresh, AwaitsAll
                    <6> QED
                        BY <3>3, <6>1, AwaitedTermination
                <5> QED
                    BY <1>6, <1>8, <5>1, <5>2 DEF HasBegun, Typed
            <4> QED
                BY <1>11, <4>1, <4>2 DEF Fresh
        <3>6. ClosedUnder(N)'
            BY <1>11, <3>4 DEF ClosedUnder
        <3> QED
            BY <1>7, <3>4, <3>5, <3>6 DEF Closing
    <2> QED
        BY <2>1, <2>2
<1>15. CacheClosed' /\ Subscribing'
    BY <1>6, <1>7, CacheClosedSame, SubscribingKept
<1> QED
    BY <1>12, <1>13, <1>14, <1>15 DEF InTurn

LEMMA FreeAlone ==
    ASSUME NEW p \in Ids, Free(p)
    PROVE  Partners(p) = {}
    BY AwaitedTermination DEF Free, Partners

LEMMA InTurnConfigure ==
    ASSUME Typed, Orderly, Known, InTurn, Configure
    PROVE  InTurn'
<1> DEFINE p == Head(todo).profile
           D == IF Free(p) THEN {Emit("ACTIVATION", p)} ELSE {}
<1>1. /\ p \in Ids /\ Head(todo) = On("configure", p) /\ Makes(D) /\ todo # <<>>
      /\ UNCHANGED <<conf, sent, terminated, streamCache>>
      /\ waited' = [waited EXCEPT ![p] = Of(p).waits]
      /\ started' = [started EXCEPT ![p] = Free(p) /\ Of(p).role = "master"]
      /\ waitEventMap' = Subscribed(Of(p).waits, p)
    BY ConfigureMakes DEF Makes, Configure, Free, streams
<1>2. \A x \in D : x.op \notin {"configure", "cache", "reset"}
    BY OpsOf
<1> HIDE DEF D
<1>3. InProgress' = D \cup Rest /\ InProgress = {Head(todo)} \cup Rest
    BY <1>1, MakesOf
<1>4. Resetting = {} /\ Resetting' = {}
    <2>1. \A y \in Rest : y.op # "reset"
        BY <1>1, OpsOf, StackedOf DEF Orderly, FitsOver, Resets, Activates
    <2> QED
        BY <1>1, <1>2, <1>3, <2>1, OpsOf DEF Resetting
<1>5. \A r \in Ids : r \in Present' => r \in Present \/ r = p
    <2>1. ASSUME NEW r \in Ids, r # p, On("configure", r) \in InProgress PROVE On("configure", r) \in InProgress'
        BY <1>1, <1>3, <2>1 DEF On
    <2> QED
        BY <1>1, <2>1 DEF Present, Configured
<1>6. Present' \subseteq Ids
    BY DEF Present
<1>7. \A r \in Ids : Partners(r)' = Partners(r) /\ (Ready(r)' <=> Ready(r)) /\ Partners(r) \subseteq Ids
    BY <1>1 DEF Partners, Ready, Of
<1>8. Kept'
    <2>1. ASSUME NEW r \in Ids, r \in Present', NEW q \in Partners(r)
          PROVE  Event("TERMINATION", q) \in waited'[r] \/ terminated[q]
        <3>1. CASE r = p
            BY <1>1, <3>1 DEF Partners, Typed
        <3>2. CASE r # p
            BY <1>1, <1>4, <1>5, <2>1, <3>2 DEF InTurn, Kept, Typed
        <3> QED
            BY <3>1, <3>2
    <2> QED
        BY <1>1, <1>6, <1>7, <2>1 DEF Kept
<1>9. Closing'
    <2>1. {} \in SUBSET Ids /\ Resetting' \subseteq {} /\ ClosedUnder({})'
        BY <1>4 DEF ClosedUnder
    <2> QED
        BY <2>1 DEF Closing
<1>10. Begun'
    <2>1. ASSUME NEW r \in Ids, HasBegun(r)' PROVE Ready(r)
        <3>1. CASE r = p /\ Free(p)
            BY <3>1, FreeAlone DEF Ready
        <3>2. CASE ~(r = p /\ Free(p))
            <4>1. HasBegun(r)
                BY <1>1, <2>1, <3>2 DEF HasBegun, Typed
            <4> QED
                BY <1>4, <4>1 DEF InTurn, Begun
        <3> QED
            BY <3>1, <3>2
    <2> QED
        BY <1>7, <2>1 DEF Begun
<1>11. Subscribing'
    <2>1. Load(Head(todo)) /\ Head(todo) \in InProgress
        BY <1>1, <1>3, OpsOf DEF Load
    <2>2. ASSUME NEW r \in Ids, r \in Present', NEW q \in Partners(r)
          PROVE  Subscription(Event("TERMINATION", q), r) \in waitEventMap'
        <3>1. CASE r = p
            BY <1>1, <3>1 DEF Partners, Subscribed
        <3>2. CASE r # p
            BY <1>1, <1>5, <2>1, <2>2, <3>2 DEF InTurn, Subscribing, Subscribed
        <3> QED
            BY <3>1, <3>2
    <2> QED
        BY <1>6, <1>7, <2>2 DEF Subscribing
<1>12. CacheClosed'
    BY <1>1, CacheClosedSame
<1> QED
    BY <1>8, <1>9, <1>10, <1>11, <1>12 DEF InTurn

LEMMA InTurnReset ==
    ASSUME Typed, Orderly, Known, InTurn, Reset
    PROVE  InTurn'
<1> DEFINE p == Head(todo).profile
           D == {On("reset", c) : c \in CheckersOf(p)}
                \cup (IF Free(p) THEN {Emit("ACTIVATION", p)} ELSE {})
<1>1. /\ p \in Ids /\ Head(todo) = On("reset", p) /\ Makes(D) /\ todo # <<>>
      /\ UNCHANGED <<conf, streamCache>>
      /\ waited' = [waited EXCEPT ![p] = Of(p).waits]
      /\ started' = [started EXCEPT ![p] = Of(p).role = "master" /\ Free(p)]
      /\ sent' = [sent EXCEPT ![p] = 0] /\ terminated' = [terminated EXCEPT ![p] = FALSE]
    BY ResetMakes DEF Makes, Reset, RetainedWaits, Free, streams
<1>2. /\ \A x \in D : x.op \notin {"configure", "cache"}
      /\ \A r \in Ids : On("reset", r) \in D <=> r \in CheckersOf(p)
    <2>1. CheckersOf(p) \subseteq Ids
        BY DEF CheckersOf
    <2>2. \A x \in D : x.op \notin {"configure", "cache"}
        BY OpsOf
    <2>3. \A r, s : On("reset", r) = On("reset", s) <=> r = s
        BY DEF On
    <2>4. \A r : On("reset", r) # Emit("ACTIVATION", p)
        BY DEF On, Emit
    <2> QED
        BY <2>1, <2>2, <2>3, <2>4
<1> HIDE DEF D
<1>3. InProgress' = D \cup Rest /\ InProgress = {Head(todo)} \cup Rest
    BY <1>1, MakesOf
<1>4. Present' = Present
    BY <1>1, <1>2, ConfiguredSame, OpsOf DEF Present
<1>5. /\ p \in Resetting
      /\ \A r \in Ids : r \in Resetting /\ r # p => r \in Resetting'
      /\ \A r \in Ids : r \in Resetting' => r \in Resetting \/ r \in CheckersOf(p)
    <2>1. \A r \in Ids : On("reset", r) = On("reset", p) <=> r = p
        BY DEF On
    <2> QED
        BY <1>1, <1>2, <1>3, <2>1 DEF Resetting
<1>6. PICK N \in SUBSET Ids : /\ Resetting \subseteq N /\ ClosedUnder(N)
                              /\ \A r \in N : r \in Resetting \/ Fresh(r)
    BY DEF InTurn, Closing
<1>7. \A r \in Ids : Partners(r)' = Partners(r) /\ Partners(r) \subseteq Ids
    BY <1>1 DEF Partners, Of
<1>8. \A r \in Ids : p \in Partners(r) => r \in Resetting \/ Fresh(r)
    BY <1>5, <1>6 DEF ClosedUnder
<1>9. Kept'
    <2>1. ASSUME NEW r \in Present, r \notin Resetting', NEW q \in Partners(r)
          PROVE  Event("TERMINATION", q) \in waited'[r] \/ terminated'[q]
        <3>1. r \in Ids /\ q \in Ids
            BY <1>7 DEF Present
        <3>2. CASE r = p
            BY <1>1, <3>2 DEF Partners, Typed
        <3>3. CASE r # p
            <4>1. r \notin Resetting /\ waited'[r] = waited[r]
                BY <1>1, <1>5, <2>1, <3>1, <3>3 DEF Typed
            <4>2. CASE q = p
                BY <1>8, <3>1, <4>1, <4>2 DEF Fresh, AwaitsAll
            <4>3. CASE q # p
                BY <1>1, <3>1, <4>1, <4>3 DEF InTurn, Kept, Typed
            <4> QED
                BY <4>2, <4>3
        <3> QED
            BY <3>2, <3>3
    <2>2. Present \subseteq Ids
        BY DEF Present
    <2> QED
        BY <1>4, <1>7, <2>1, <2>2 DEF Kept
<1>11. ASSUME NEW r \in Ids, r = p PROVE Fresh(r)' /\ (HasBegun(r)' => Ready(r)')
    <2>1. AwaitsAll(r)'
        BY <1>1, <1>7, <1>11 DEF AwaitsAll, Partners, Typed
    <2>2. HasBegun(r)' => Free(r)
        <3>1. sent'[r] = 0 /\ terminated'[r] = FALSE
            BY <1>1, <1>11 DEF Typed
        <3>2. started'[r] => Free(p)
            BY <1>1, <1>11 DEF Typed
        <3>3. HasBegun(r)' => started'[r]
            BY <3>1 DEF HasBegun
        <3> QED
            BY <1>11, <3>2, <3>3
    <2>3. Free(r) => Partners(r) = {}
        BY FreeAlone
    <2> QED
        BY <1>7, <2>1, <2>2, <2>3 DEF Fresh, Ready
<1>12. ASSUME NEW r \in Ids, r # p
       PROVE  (Fresh(r) => Fresh(r)') /\ (HasBegun(r)' => HasBegun(r))
    BY <1>1, <1>7, <1>12 DEF Fresh, AwaitsAll, HasBegun, Typed
<1>13. Closing'
    <2>1. CheckersOf(p) \subseteq N
        <3>1. \A c \in CheckersOf(p) : c \in Ids /\ p \in Partners(c)
            BY <1>1, CheckersWait DEF Partners, Typed
        <3> QED
            BY <1>5, <1>6, <3>1 DEF ClosedUnder
    <2>2. Resetting' \subseteq N
        <3>1. Resetting' \subseteq Ids
            BY DEF Resetting
        <3> QED
            BY <1>5, <1>6, <2>1, <3>1
    <2>3. \A r \in N : r \in Resetting' \/ Fresh(r)'
        BY <1>5, <1>6, <1>11, <1>12
    <2>4. ClosedUnder(N)'
        BY <1>6, <1>7 DEF ClosedUnder
    <2> QED
        BY <2>2, <2>3, <2>4 DEF Closing
<1>14. Begun'
    <2>1. ASSUME NEW r \in Ids, HasBegun(r)', r # p PROVE r \in Resetting' \/ Ready(r)'
        <3>1. HasBegun(r) /\ (r \in Resetting => r \in Resetting')
            BY <1>5, <1>12, <2>1
        <3>2. r \in Resetting \/ Ready(r)
            BY <3>1 DEF InTurn, Begun
        <3>3. ASSUME r \notin Resetting PROVE Ready(r)'
            <4>1. p \notin Partners(r)
                BY <1>8, <3>1, <3>3 DEF Fresh
            <4>2. \A q \in Partners(r) : terminated'[q] = terminated[q]
                BY <1>1, <1>7, <4>1 DEF Typed
            <4> QED
                BY <1>7, <3>2, <3>3, <4>2 DEF Ready
        <3> QED
            BY <3>1, <3>3
    <2> QED
        BY <1>11, <2>1 DEF Begun
<1>15. CacheClosed'
    BY <1>1, CacheClosedSame
<1>16. Subscribing'
    BY ResetAlone DEF Subscribing, Load
<1> QED
    BY <1>9, <1>13, <1>14, <1>15, <1>16 DEF InTurn

LEMMA InTurnAsk ==
    ASSUME Typed, Orderly, InTurn, NEW r \in Ids, AskStream(r)
    PROVE  InTurn'
<1> DEFINE D == {On("reset", p) : p \in ResetNow(r)} \cup {Ask(Head(todo).left \ {r})}
<1>1. Makes(D) /\ Head(todo).op = "streams" /\ todo # <<>>
    BY AskStreamMakes DEF Makes
<1>2. ResetNow(r) \subseteq Ids
    <2>1. streamCache[r].nodes \in Seq(Ids)
        BY DEF Typed
    <2> QED
        BY <2>1, ToSetOf DEF ResetNow
<1>3. /\ \A x \in D : x.op \notin {"configure", "cache"}
      /\ \A p \in Ids : On("reset", p) \in D <=> p \in ResetNow(r)
    <2>1. \A x \in D : x.op \notin {"configure", "cache"}
        BY OpsOf
    <2>2. \A p, q : On("reset", p) = On("reset", q) <=> p = q
        BY DEF On
    <2>3. \A p, U : On("reset", p) # Ask(U)
        BY DEF On, Ask
    <2> QED
        BY <1>2, <2>1, <2>2, <2>3
<1> HIDE DEF D
<1>4. InProgress' = D /\ InProgress = {Head(todo)}
    <2>1. Rest = {}
        BY <1>1, StackedOf DEF Orderly
    <2> QED
        BY <1>1, <2>1, MakesOf
<1>5. Resetting = {} /\ Resetting' = ResetNow(r)
    BY <1>1, <1>2, <1>3, <1>4, OpsOf DEF Resetting
<1>6. UNCHANGED <<conf, waited, started, sent, terminated, streamCache>>
    BY DEF AskStream, busVars, profileVars
<1>7. Present' = Present
    BY <1>1, <1>3, <1>6, ConfiguredSame DEF Present
<1>8. /\ \A p \in Ids : Partners(p)' = Partners(p) /\ (Ready(p)' <=> Ready(p)) /\ (HasBegun(p)' <=> HasBegun(p))
      /\ Present \subseteq Ids
    BY <1>6 DEF Partners, Ready, HasBegun, Of, Present
<1>9. Kept' /\ Begun'
    BY <1>5, <1>6, <1>7, <1>8 DEF InTurn, Kept, Begun
<1>10. Closing'
    <2>1. ClosedUnder(ResetNow(r))
        BY DEF ResetNow, InTurn, CacheClosed, ClosedUnder, ToSet
    <2>2. PICK N \in SUBSET Ids : N = ResetNow(r)
        BY <1>2
    <2>3. ClosedUnder(N)' /\ Resetting' \subseteq N /\ \A p \in N : p \in Resetting'
        BY <1>5, <1>8, <2>1, <2>2 DEF ClosedUnder
    <2> QED
        BY <2>3 DEF Closing
<1>11. CacheClosed'
    BY <1>6, CacheClosedSame
<1>12. Subscribing'
    BY <1>3, <1>4 DEF Subscribing, Load
<1> QED
    BY <1>9, <1>10, <1>11, <1>12 DEF InTurn

LEMMA InTurnAdapter ==
    ASSUME Rooted, Typed, Orderly, Known, InTurn,
           Poll \/ \E p \in Ids : Answer(p) \/ Discard(p) \/ ActivateStream(p)
    PROVE  InTurn'
<1>1. /\ InProgress = {} /\ UNCHANGED <<conf, waited, streamCache, sent, terminated>>
      /\ \A c \in InProgress' : c.op \in {"walk", "answered", "emit"}
    <2>1. InProgress = {}
        BY DEF Poll, Answer, Discard, ActivateStream, Quiet, InProgress
    <2>2. ASSUME NEW c, todo' = <<c>> PROVE InProgress' = {c}
        <3>1. DOMAIN <<c>> = {1} /\ <<c>>[1] = c
            OBVIOUS
        <3> QED
            BY <2>2, <3>1 DEF InProgress
    <2>3. CASE Poll
        <3>1. InProgress' = {Walk(1)}
            BY <2>2, <2>3 DEF Poll
        <3> QED
            BY <2>1, <2>3, <3>1, OpsOf DEF Poll, busVars, profileVars, streams
    <2>4. ASSUME NEW p \in Ids, Answer(p)
          PROVE  /\ UNCHANGED <<conf, waited, streamCache, sent, terminated>>
                 /\ \A c \in InProgress' : c.op \in {"walk", "answered", "emit"}
        <3>1. InProgress' = {On("answered", p)}
            BY <2>2, <2>4 DEF Answer
        <3> QED
            BY <2>4, <3>1, OpsOf DEF Answer, busVars, streams
    <2>5. ASSUME NEW p \in Ids, Discard(p)
          PROVE  /\ UNCHANGED <<conf, waited, streamCache, sent, terminated>>
                 /\ InProgress' = {}
        BY <2>1, <2>5 DEF Discard, busVars, profileVars, streams, InProgress
    <2>6. ASSUME NEW p \in Ids, ActivateStream(p)
          PROVE  /\ UNCHANGED <<conf, waited, streamCache, sent, terminated>>
                 /\ \A c \in InProgress' : c.op \in {"walk", "answered", "emit"}
        <3>1. InProgress' = {Emit("ACTIVATION", p)}
            BY <2>2, <2>6 DEF ActivateStream
        <3> QED
            BY <2>6, <3>1, OpsOf DEF ActivateStream, busVars
    <2> QED
        BY <2>1, <2>3, <2>4, <2>5, <2>6
<1>2. Resetting = {} /\ Resetting' = {} /\ Present' = Present /\ Present \subseteq Ids
    BY <1>1, OpsOf DEF Resetting, Present, Configured
<1>3. \A p \in Ids : Partners(p)' = Partners(p) /\ (Ready(p)' <=> Ready(p))
    BY <1>1 DEF Partners, Ready, Of
<1>4. Kept'
    BY <1>1, <1>2, <1>3 DEF InTurn, Kept
<1>5. Closing'
    <2>1. {} \in SUBSET Ids /\ Resetting' \subseteq {} /\ ClosedUnder({})'
        BY <1>2 DEF ClosedUnder
    <2> QED
        BY <2>1 DEF Closing
<1>6. Begun'
    <2>1. ASSUME NEW r \in Ids, HasBegun(r)' PROVE Ready(r)
        <3>1. CASE HasBegun(r)
            BY <1>2, <3>1 DEF InTurn, Begun
        <3>2. CASE ~HasBegun(r)
            <4>1. ~(started' = started)
                BY <1>1, <2>1, <3>2 DEF HasBegun
            <4>2. PICK s \in Ids : ActivateStream(s)
                BY <4>1 DEF Poll, Answer, Discard, profileVars
            <4>3. s \in conf.roots /\ started' = [started EXCEPT ![s] = TRUE]
                BY <4>2 DEF ActivateStream
            <4>4. r = s
                BY <1>1, <2>1, <3>2, <4>3 DEF HasBegun, Typed
            <4>5. Partners(r) = {}
                BY <4>3, <4>4 DEF Rooted, Partners, Of, Typed
            <4> QED
                BY <4>5 DEF Ready
        <3> QED
            BY <3>1, <3>2
    <2> QED
        BY <1>3, <2>1 DEF Begun
<1>7. CacheClosed'
    BY <1>1, CacheClosedSame
<1>8. Subscribing'
    BY <1>1 DEF Subscribing, Load
<1> QED
    BY <1>4, <1>5, <1>6, <1>7, <1>8 DEF InTurn

LEMMA InTurnInit == Init => InTurn
<1> SUFFICES ASSUME Init PROVE InTurn
    OBVIOUS
<1>1. conf.files \in Seq(Seq(Ids))
    BY ConfigsAssumption DEF Init, Configuration
<1>2. InProgress = ToSet(Loading(conf.files))
    BY DEF InProgress, ToSet, Init
<1>3. \A p \in Ids : ~Configured(p) /\ On("reset", p) \notin InProgress
    <2>1. \A p \in Ids : ~Configured(p)
        BY <1>1, <1>2, LoadingOf DEF Configured
    <2>2. \A c \in InProgress : c.op \in {"configure", "cache"}
        BY <1>1, <1>2, LoadingOf DEF On, Cache
    <2> QED
        BY <2>1, <2>2, OpsOf
<1>4. Present = {} /\ Resetting = {}
    BY <1>3 DEF Present, Resetting
<1>5. Kept /\ Subscribing /\ Closing
    BY <1>4, ClosingNone DEF Kept, Subscribing
<1>6. Begun
    BY DEF Init, Begun, HasBegun
<1>7. CacheClosed
    BY NoneOf DEF Init, CacheClosed, ClosedUnder
<1> QED
    BY <1>5, <1>6, <1>7 DEF InTurn

LEMMA InTurnNext ==
    ASSUME OneFile, Rooted, Typed, Orderly, Known, InTurn, Next
    PROVE  InTurn'
<1>1. CASE Configure \/ StreamCacheUpdate \/ Emission \/ Delivered \/ EndWalk \/ AllAsked
                \/ CheckerSkipped \/ Reset
    BY <1>1, InTurnConfigure, InTurnCache, InTurnEmission, InTurnRuns, InTurnReset
<1>2. CASE MasterSends \/ MasterRefused \/ MasterIdle \/ DelaySend
    BY <1>2, SendsAdvances, IdleAdvances, DelayAdvances, InTurnAdvances
<1>3. CASE Answered
    BY <1>3, AnsweredAdvances, InTurnAdvances
<1>4. ASSUME NEW p \in Ids, CheckerRecords(p) PROVE InTurn'
    BY <1>4, RecordsAdvances, InTurnAdvances
<1>5. ASSUME NEW p \in Ids, MasterHears(p) \/ OtherHears(p) PROVE InTurn'
    BY <1>5, InTurnHears
<1>6. ASSUME NEW p \in Ids, AskStream(p) PROVE InTurn'
    BY <1>6, InTurnAsk
<1>7. CASE Poll \/ \E p \in Ids : Answer(p) \/ Discard(p) \/ ActivateStream(p)
    BY <1>7, InTurnAdapter
<1> QED
    BY <1>1, <1>2, <1>3, <1>4, <1>5, <1>6, <1>7 DEF Next, Step

LEMMA InTurnSame ==
    ASSUME InTurn, UNCHANGED vars
    PROVE  InTurn'
<1>1. UNCHANGED <<conf, waited, started, sent, terminated, waitEventMap, streamCache, todo>>
    BY DEF vars, profileVars, streams
<1>2. InProgress' = InProgress /\ Present' = Present /\ Resetting' = Resetting
    BY <1>1 DEF InProgress, Present, Resetting, Configured
<1>3. \A r \in Ids : Partners(r)' = Partners(r) /\ Ready(r)' = Ready(r) /\ HasBegun(r)' = HasBegun(r)
                     /\ Fresh(r)' = Fresh(r)
    BY <1>1 DEF Partners, Of, Ready, HasBegun, Fresh, AwaitsAll
<1>4. Kept' /\ Begun'
    <2>1. Present \subseteq Ids
        BY DEF Present
    <2> QED
        BY <1>1, <1>2, <1>3, <2>1 DEF InTurn, Kept, Begun
<1>5. Closing'
    BY <1>2, <1>3 DEF InTurn, Closing, ClosedUnder
<1>6. CacheClosed'
    BY <1>1, CacheClosedSame
<1>7. Subscribing'
    BY <1>1, <1>2, SubscribingKept
<1> QED
    BY <1>4, <1>5, <1>6, <1>7 DEF InTurn

LEMMA AdvancesRefines ==
    ASSUME Typed, Typed', NEW p \in Ids, Advances(p)
    PROVE  P!Next \/ UNCHANGED P!vars
<1> DEFINE After == [q \in Ids |-> {r \in Ids : Event("TERMINATION", r) \in Of(q).waits}]
           Working == {q \in Ids : Of(q).role # "checker" /\ sent[q] > 0 /\ ~terminated[q]}
           Done == {q \in Ids : terminated[q]}
<1>1. After' = After /\ \A q \in Ids : Of(q)' = Of(q)
    BY DEF Advances, Of
<1>2. \A q \in Ids \ {p} : (q \in Working' <=> q \in Working) /\ (q \in Done' <=> q \in Done)
    BY <1>1 DEF Advances
<1>3. CASE sent'[p] = sent[p] /\ terminated'[p] = terminated[p]
    <2>1. Working' = Working /\ Done' = Done
        BY <1>1, <1>2, <1>3
    <2> QED
        BY <1>1, <2>1 DEF P!vars
<1>4. CASE Ready(p)
    <2>1. After[p] \subseteq Done
        BY <1>4 DEF Ready, Partners
    <2>2. CASE ~terminated[p] /\ terminated'[p]
        <3>1. Done' = Done \cup {p} /\ Working' = Working \ {p} /\ p \notin Done
            BY <1>2, <2>2
        <3>2. P!Finish(p)
            BY <1>1, <2>1, <3>1 DEF P!Finish, P!Ready
        <3> QED
            BY <3>2 DEF P!Next
    <2>3. CASE terminated[p]
        <3>1. terminated'[p]
            BY <2>3 DEF Advances
        <3>2. Working' = Working /\ Done' = Done
            BY <1>2, <2>3, <3>1
        <3> QED
            BY <1>1, <3>2 DEF P!vars
    <2>4. CASE ~terminated[p] /\ ~terminated'[p] /\ (p \in Working' <=> p \in Working)
        <3>1. Working' = Working /\ Done' = Done
            BY <1>2, <2>4
        <3> QED
            BY <1>1, <3>1 DEF P!vars
    <2>5. CASE ~terminated[p] /\ ~terminated'[p] /\ ~(p \in Working' <=> p \in Working)
        <3>1. sent[p] \in Nat /\ sent'[p] \in Nat /\ sent'[p] >= sent[p]
            BY DEF Typed, Advances
        <3>2. p \notin Working /\ p \in Working'
            BY <1>1, <2>5, <3>1
        <3>3. Done' = Done /\ p \notin Done /\ Working' = Working \cup {p}
            BY <1>2, <2>5, <3>2
        <3>4. P!Begin(p)
            BY <1>1, <2>1, <3>2, <3>3 DEF P!Begin, P!Ready
        <3> QED
            BY <3>4 DEF P!Next
    <2> QED
        BY <2>2, <2>3, <2>4, <2>5
<1> QED
    BY <1>3, <1>4 DEF Advances

LEMMA RestsRefines ==
    ASSUME UNCHANGED <<conf, sent, terminated>>
    PROVE  UNCHANGED P!vars
    BY DEF P!vars, Of

LEMMA ResetRefines ==
    ASSUME Typed, Orderly, Reset
    PROVE  P!Next
<1> DEFINE p == Head(todo).profile
           After == [q \in Ids |-> {r \in Ids : Event("TERMINATION", r) \in Of(q).waits}]
           Working == {q \in Ids : Of(q).role # "checker" /\ sent[q] > 0 /\ ~terminated[q]}
           Done == {q \in Ids : terminated[q]}
<1>1. /\ p \in Ids /\ conf' = conf
      /\ sent' = [sent EXCEPT ![p] = 0] /\ terminated' = [terminated EXCEPT ![p] = FALSE]
    BY ResetMakes DEF Makes, Reset, Free, streams
<1>2. After' = After /\ \A q \in Ids : Of(q)' = Of(q)
    BY <1>1 DEF Of
<1>3. ASSUME NEW r \in Ids, r = p
      PROVE  P!Restart(r)
    <2>1. \A q \in Ids \ {r} : sent'[q] = sent[q] /\ terminated'[q] = terminated[q]
        BY <1>1, <1>3 DEF Typed
    <2>2. ~terminated'[r] /\ ~(sent'[r] > 0)
        BY <1>1, <1>3 DEF Typed
    <2>3. Done' = Done \ {r}
        BY <2>1, <2>2
    <2>4. Working' = Working \ {r}
        BY <1>2, <2>1, <2>2
    <2> QED
        BY <1>2, <2>3, <2>4 DEF P!Restart
<1> QED
    BY <1>1, <1>3 DEF P!Next

LEMMA StepRefines ==
    ASSUME Typed, Typed', Orderly, Known, InTurn, [Next]_vars
    PROVE  P!Next \/ UNCHANGED P!vars
<1>1. CASE \/ Configure \/ StreamCacheUpdate \/ Emission \/ Delivered \/ EndWalk \/ AllAsked
           \/ CheckerSkipped \/ Poll \/ UNCHANGED vars
    <2>1. UNCHANGED <<conf, sent, terminated>>
        BY <1>1 DEF Configure, StreamCacheUpdate, Emission, EmitEvent, Delivered, AllHeard, EndWalk,
            AllAsked, CheckerSkipped, Poll, busVars, profileVars, streams, vars
    <2> QED
        BY <2>1, RestsRefines
<1>2. CASE MasterSends \/ MasterRefused \/ MasterIdle \/ DelaySend
    BY <1>2, SendsAdvances, IdleAdvances, DelayAdvances, AdvancesRefines
<1>3. CASE Answered
    BY <1>3, AnsweredAdvances, AdvancesRefines
<1>4. ASSUME NEW p \in Ids, CheckerRecords(p) PROVE P!Next \/ UNCHANGED P!vars
    BY <1>4, RecordsAdvances, AdvancesRefines
<1>5. ASSUME NEW p \in Ids,
             \/ MasterHears(p) \/ OtherHears(p) \/ AskStream(p)
             \/ Answer(p) \/ Discard(p) \/ ActivateStream(p)
      PROVE  UNCHANGED P!vars
    <2>1. UNCHANGED <<conf, sent, terminated>>
        BY <1>5 DEF MasterHears, OtherHears, AskStream, Answer, Discard, ActivateStream,
            busVars, profileVars, streams
    <2> QED
        BY <2>1, RestsRefines
<1>6. CASE Reset
    BY <1>6, ResetRefines
<1> QED
    BY <1>1, <1>2, <1>3, <1>4, <1>5, <1>6 DEF Next, Step

LEMMA InitRefines == Init => P!Init
<1> SUFFICES ASSUME Init PROVE P!Init
    OBVIOUS
<1>1. \A p \in Ids : ~terminated[p] /\ ~(sent[p] > 0)
    BY DEF Init
<1> QED
    BY <1>1 DEF P!Init

\* The chain of subscriptions, deliveries, polls and resets implements waiting
\* for termination: no profile sends, or terminates, before every profile whose
\* TERMINATION is in its wait list (waitedEvents) has terminated.
THEOREM PrecedenceHolds ==
    ASSUME OneFile, Rooted
    PROVE  Spec => ImplementsPrecedence
<1> DEFINE Inv == Typed /\ Orderly /\ Known /\ InTurn
<1>1. Init => Inv /\ P!Init
    BY TypedInit, OrderlyInit, KnownInit, InTurnInit, InitRefines
<1>2. Inv /\ [Next]_vars => Inv' /\ [P!Next]_(P!vars)
    <2> SUFFICES ASSUME Inv, [Next]_vars
                 PROVE  Inv' /\ [P!Next]_(P!vars)
        OBVIOUS
    <2>1. Typed' /\ Orderly' /\ Known'
        BY TypedNext, OrderlyNext, KnownNext
    <2>2. InTurn'
        BY InTurnNext, InTurnSame
    <2>3. [P!Next]_(P!vars)
        BY <2>1, StepRefines
    <2> QED
        BY <2>1, <2>2, <2>3
<1> QED
    BY <1>1, <1>2, PTL DEF Spec, ImplementsPrecedence, P!Spec

-----------------------------------------------------------------------------
(* What is outstanding is counted alike by the profiles, the memory, and the *)
(* checkers; a stream of which the leaves have terminated is at its end.     *)

Master(p) == Of(p).role = "master"

\* Updates are scheduled ahead of time.
Clock ==
    /\ due = Never \/ time <= due
    /\ (\E c \in InProgress : c.op = "walk") => \A t \in nextTimes : time <= t

\* A master has outstanding what the memory owes it, which owes no others.
Owed == \A p \in Ids : waitedResponse[p] = IF Master(p) THEN ot[p] ELSE 0

\* Only checkers are asked to check.
Checkers == \A x \in InProgress : x.op = "check" => \A c \in x.to : Of(c).role = "checker"

\* A master that terminated is at its end, with nothing outstanding.
AtEnd == \A p \in Ids : Master(p) /\ terminated[p] => ot[p] = 0 /\ Ended(p)

\* What is reset has nothing outstanding, and neither has the one it watches.
Watches(c, m) == c \in Ids /\ m \in Ids /\ Of(c).watches = {m}
Idle ==
    \A p \in Resetting : /\ Master(p) => ot[p] = 0
                         /\ \A m \in Ids : Watches(p, m) /\ Master(m) => ot[m] = 0

\* The root of a stream does nothing until it is activated.
Wakes(c, r) == c = Emit("ACTIVATION", r) \/ (c.op = "notify" /\ c.event = Event("ACTIVATION", r))
Dormant(r) ==
    /\ ~HasBegun(r)
    /\ r \in Present => Event("ACTIVATION", r) \in waited[r]
    /\ \A c \in InProgress : ~Wakes(c, r)
HasPlayed(r) == IF conf.autoReset THEN r \in activeStreams ELSE plays > 0
Sleeping == \A r \in conf.roots : HasPlayed(r) \/ r \in Resetting \/ Dormant(r)

\* Once the files are loaded, the stream of each root is cached, and the root in it.
RootsCached ==
    conf.autoReset =>
        /\ (\E c \in InProgress : c.op = "configure") => Cache \in InProgress
        /\ conf.roots \cap Present \subseteq ToSet(activeList)
        /\ Cache \notin InProgress => \A r \in conf.roots : r \in ToSet(streamCache[r].nodes)

\* A stream has its root; a profile of it is a leaf, or another waits for it.
LeavesLast ==
    \A r \in Ids :
        /\ streamCache[r].nodes = <<>> \/ r \in ToSet(streamCache[r].nodes)
        /\ \A n \in ToSet(streamCache[r].nodes) :
              \/ n \in streamCache[r].leaves
              \/ \E f \in ToSet(streamCache[r].nodes) : f \in Ids /\ n \in Partners(f)

\* Who is subscribed to a termination waits for it.
Subscribers ==
    \A s \in waitEventMap : s.type = "TERMINATION" => s.id \in Partners(s.profile)

\* A checker's count differs only while it has not recorded the packet.
Checking(kind, c) == \E x \in InProgress : x.op = "check" /\ x.kind = kind /\ c \in x.to
Hearing(c, m) == Checking("receive", c) \/ On("answered", m) \in InProgress
Followed(c, m) == Watches(c, m) /\ Of(c).role = "checker" /\ Master(m) /\ ~Of(m).posted
Recorded ==
    \A c, m \in Ids : Followed(c, m) =>
        /\ Checking("send", c) => ot[c] + 1 = ot[m] /\ ~terminated[m]
        /\ Hearing(c, m) => ot[c] = ot[m] + 1
        /\ ~Checking("send", c) /\ ~Hearing(c, m) => ot[c] = ot[m]

Settled ==
    /\ Clock /\ Owed /\ Checkers /\ AtEnd /\ Idle /\ Sleeping
    /\ RootsCached /\ LeavesLast /\ Subscribers /\ Recorded

-----------------------------------------------------------------------------
\* A call by which others hear of a profile, its activation aside.
SpeaksFor(x, q) ==
    \/ x.op = "emit" /\ x.profile = q /\ x.type # "ACTIVATION"
    \/ x.op = "notify" /\ x.event.id = q /\ x.event.type # "ACTIVATION"

\* Who is asked, and may announce a status or its end.
Speaker(p) ==
    \/ Head(todo).op = "answered"
    \/ Head(todo).op = "walk" /\ p = Polled
    \/ Head(todo).op = "check" /\ p \in Head(todo).to
Prompts(q) == SpeaksFor(Head(todo), q) \/ Speaker(q)

\* What makes a call: the one that runs, or what its step does to the profile.
Caused(x) ==
    /\ x.op \notin {"configure", "cache", "answered"}
    /\ x.op = "walk" => Head(todo).op = "walk"
    /\ x.op = "streams" => \/ Head(todo).op = "walk" /\ x.left = activeStreams
                           \/ Head(todo).op = "streams" /\ x.left \subseteq Head(todo).left
    /\ \A q \in Ids : SpeaksFor(x, q) => Prompts(q)
    /\ x.op \in {"emit", "notify", "check"} =>
          Head(todo).op # "streams" /\ (Head(todo).op = "reset" => Free(Head(todo).profile))
    /\ x.op = "check" => \/ Head(todo).op \in {"walk", "answered"} /\ \E p \in Ids : x.to = CheckersOf(p)
                         \/ Head(todo).op = "check" /\ x.kind = Head(todo).kind /\ x.to \subseteq Head(todo).to
    /\ x.op = "reset" => Head(todo).op \in {"reset", "streams"}
    /\ \A r \in Ids : Wakes(x, r) =>
          \/ Wakes(Head(todo), r)
          \/ x.op = "emit" /\ (Free(r) \/ started'[r] \/ ~Waiting(waited'[r], "PROFILE"))

LEMMA WakesOf ==
    /\ \A t, p, r : Wakes(Emit(t, p), r) <=> t = "ACTIVATION" /\ p = r
    /\ \A e, U, r : Wakes(Notify(e, U), r) <=> e = Event("ACTIVATION", r)
    /\ \A x, r : Wakes(x, r) => x.op \in {"emit", "notify"}
    BY DEF Wakes, Emit, Notify

LEMMA CausedOf ==
    /\ \A t, p : t # "ACTIVATION" /\ Speaker(p) => Caused(Emit(t, p))
    /\ \A p : (/\ Free(p) \/ started'[p] \/ ~Waiting(waited'[p], "PROFILE")
              /\ Head(todo).op # "streams" /\ (Head(todo).op = "reset" => Free(Head(todo).profile)))
             => Caused(Emit("ACTIVATION", p))
    /\ \A e, U : Head(todo).op = "notify" /\ Head(todo).event = e => Caused(Notify(e, U))
    /\ \A p, U : Head(todo) = Emit(Head(todo).type, p) => Caused(Notify(Event(Head(todo).type, p), U))
    /\ \A p : Head(todo).op \in {"reset", "streams"} => Caused(On("reset", p))
    /\ \A k : \A p \in Ids : Head(todo).op \in {"walk", "answered"} => Caused(Check(k, CheckersOf(p)))
    /\ \A U : Head(todo).op = "check" /\ U \subseteq Head(todo).to => Caused(Check(Head(todo).kind, U))
    /\ \A n : Head(todo).op = "walk" => Caused(Walk(n))
    /\ Head(todo).op = "walk" => Caused(Ask(activeStreams))
    /\ \A U : Head(todo).op = "streams" /\ U \subseteq Head(todo).left => Caused(Ask(U))
<1>1. \A x : x.op \notin {"emit", "notify"} => \A r : ~Wakes(x, r)
    BY WakesOf
<1>11. /\ \A x : x.op \notin {"emit", "notify"} => \A q : ~SpeaksFor(x, q)
       /\ \A p, q : ~SpeaksFor(Emit("ACTIVATION", p), q)
       /\ \A t, p, q : SpeaksFor(Emit(t, p), q) => p = q
    BY DEF SpeaksFor, Emit
<1>2. \A t, p : t # "ACTIVATION" /\ Speaker(p) => Caused(Emit(t, p))
    <2> SUFFICES ASSUME NEW t, NEW p, t # "ACTIVATION", Speaker(p) PROVE Caused(Emit(t, p))
        OBVIOUS
    <2>1. \A q : SpeaksFor(Emit(t, p), q) => Prompts(q)
        BY <1>11 DEF Prompts
    <2>2. Head(todo).op \notin {"streams", "reset"}
        BY DEF Speaker
    <2> QED
        BY <2>1, <2>2, WakesOf, OpsOf DEF Caused
<1>3. \A p : (/\ Free(p) \/ started'[p] \/ ~Waiting(waited'[p], "PROFILE")
              /\ Head(todo).op # "streams" /\ (Head(todo).op = "reset" => Free(Head(todo).profile)))
             => Caused(Emit("ACTIVATION", p))
    BY <1>11, WakesOf, OpsOf DEF Caused
<1>4. \A e, U : Head(todo).op = "notify" /\ Head(todo).event = e => Caused(Notify(e, U))
    <2>1. \A e, U : Notify(e, U).event = e
        BY DEF Notify
    <2>2. \A e, U, q : Head(todo).op = "notify" /\ Head(todo).event = e /\ SpeaksFor(Notify(e, U), q)
                       => Prompts(q)
        BY <2>1, OpsOf DEF SpeaksFor, Prompts
    <2> QED
        BY <2>1, <2>2, OpsOf, WakesOf DEF Caused, Wakes
<1>5. \A p, U : Head(todo) = Emit(Head(todo).type, p) => Caused(Notify(Event(Head(todo).type, p), U))
    <2>1. \A e, U : Notify(e, U).event = e
        BY DEF Notify
    <2>2. ASSUME NEW p, NEW U, NEW q, Head(todo) = Emit(Head(todo).type, p),
                 SpeaksFor(Notify(Event(Head(todo).type, p), U), q)
          PROVE  Prompts(q)
        <3>1. q = p /\ Head(todo).type # "ACTIVATION"
            BY <2>1, <2>2, OpsOf DEF SpeaksFor, Event
        <3>2. Head(todo).op = "emit" /\ Head(todo).profile = p
            BY <2>2 DEF Emit
        <3> QED
            BY <3>1, <3>2 DEF Prompts, SpeaksFor
    <2> QED
        BY <2>2, OpsOf, WakesOf DEF Caused, Event
<1>6. \A p : Head(todo).op \in {"reset", "streams"} => Caused(On("reset", p))
    BY <1>1, <1>11, OpsOf DEF Caused
<1>0. \A k, U : Check(k, U).kind = k /\ Check(k, U).to = U
    BY DEF Check
<1>7. \A k : \A p \in Ids : Head(todo).op \in {"walk", "answered"} => Caused(Check(k, CheckersOf(p)))
    BY <1>0, <1>1, <1>11, OpsOf DEF Caused
<1>10. \A U : Head(todo).op = "check" /\ U \subseteq Head(todo).to => Caused(Check(Head(todo).kind, U))
    BY <1>0, <1>1, <1>11, OpsOf DEF Caused
<1>8. \A n : Head(todo).op = "walk" => Caused(Walk(n))
    BY <1>1, <1>11, OpsOf DEF Caused
<1>9. /\ Head(todo).op = "walk" => Caused(Ask(activeStreams))
      /\ \A U : Head(todo).op = "streams" /\ U \subseteq Head(todo).left => Caused(Ask(U))
    <2>1. \A U : Ask(U).left = U
        BY DEF Ask
    <2> QED
        BY <2>1, <1>1, <1>11, OpsOf DEF Caused
<1> QED
    BY <1>2, <1>3, <1>4, <1>5, <1>6, <1>7, <1>8, <1>9, <1>10

LEMMA Made ==
    ASSUME Typed, Step
    PROVE  \E D : Makes(D) /\ \A x \in D : Caused(x)
<1>1. CASE Configure
    BY <1>1, ConfigureMakes, CausedOf, OpsOf
<1>2. CASE StreamCacheUpdate \/ Delivered \/ AllAsked
    BY <1>2, EndsMake DEF Delivered
<1>3. CASE Emission
    <2>1. EmitEvent
        BY <1>3 DEF Emission
    <2> QED
        BY <2>1, EmitMakes, CausedOf
<1>4. ASSUME NEW p \in Ids, MasterHears(p) PROVE \E D : Makes(D) /\ \A x \in D : Caused(x)
    <2> DEFINE ev == Head(todo).event
               to == Head(todo).to
               b == Starts(p, AwaitedBy(p, ev))
               D == (IF b THEN {Emit("ACTIVATION", p)} ELSE {}) \cup {Notify(ev, to \ {p})}
    <2>1. Makes(D) /\ Head(todo) = Notify(ev, to)
        BY <1>4, MasterHearsMakes
    <2>2. waited'[p] = AwaitedBy(p, ev)
        BY <1>4 DEF MasterHears, Typed
    <2>3. b => ~Waiting(waited'[p], "PROFILE")
        BY <2>2 DEF Starts
    <2>4. Head(todo).op = "notify"
        BY <2>1, OpsOf
    <2> HIDE DEF b
    <2>5. \A x \in D : Caused(x)
        BY <2>3, <2>4, CausedOf
    <2> HIDE DEF D
    <2> QED
        BY <2>1, <2>5
<1>5. ASSUME NEW p \in Ids, OtherHears(p) PROVE \E D : Makes(D) /\ \A x \in D : Caused(x)
    <2> DEFINE ev == Head(todo).event
               to == Head(todo).to
               b == Of(p).role = "delay" /\ ~Waiting(StillWaited(p, ev), "PROFILE")
               D == (IF b THEN {Emit("ACTIVATION", p)} ELSE {}) \cup {Notify(ev, to \ {p})}
    <2>1. Makes(D) /\ Head(todo) = Notify(ev, to)
        BY <1>5, OtherHearsMakes
    <2>2. waited'[p] = StillWaited(p, ev)
        BY <1>5 DEF OtherHears, Typed
    <2>3. b => ~Waiting(waited'[p], "PROFILE")
        BY <2>2
    <2>4. Head(todo).op = "notify"
        BY <2>1, OpsOf
    <2> HIDE DEF b
    <2>5. \A x \in D : Caused(x)
        BY <2>3, <2>4, CausedOf
    <2> HIDE DEF D
    <2> QED
        BY <2>1, <2>5
<1>6. CASE MasterSends
    <2> DEFINE p == Polled
               D == (IF ~started[p] THEN {Emit("ACTIVATION", p)} ELSE {})
                        \cup {Emit("PROFILE_UNLOCKED", p)}
                        \cup (IF CheckersOf(p) = {} THEN {} ELSE {Check("send", CheckersOf(p))})
                        \cup {Head(todo)}
    <2>1. Makes(D) /\ Head(todo).op = "walk" /\ p \in Ids
        BY <1>6, MasterSendsMakes
    <2>2. \A r \in Ids : r = p => started'[r]
        BY <1>6, <2>1 DEF MasterSends, Activated, Typed
    <2>3. Caused(Head(todo)) /\ Speaker(p)
        BY <2>1, WakesOf DEF Caused, SpeaksFor, Speaker
    <2>4. \A x \in D : Caused(x)
        BY <2>1, <2>2, <2>3, CausedOf
    <2> HIDE DEF D
    <2> QED
        BY <2>1, <2>4
<1>7. CASE MasterRefused
    <2> DEFINE p == Polled
    <2>1. Head(todo).op = "walk" /\ p \in Ids
        BY <1>7, MasterRefusedMakes
    <2>2. PICK n \in Nat \ {0} :
                  Makes((IF ~started[p] THEN {Emit("ACTIVATION", p)} ELSE {})
                        \cup {Emit("PROFILE_LOCKED", p)} \cup {Walk(n)})
        BY <1>7, MasterRefusedMakes
    <2>3. \A r \in Ids : r = p => started'[r]
        BY <1>7, <2>1 DEF MasterRefused, Activated, Typed
    <2> DEFINE D == (IF ~started[p] THEN {Emit("ACTIVATION", p)} ELSE {})
                        \cup {Emit("PROFILE_LOCKED", p)} \cup {Walk(n)}
    <2>4. \A x \in D : Caused(x)
        BY <2>1, <2>3, CausedOf DEF Speaker
    <2>5. Makes(D)
        BY <2>2
    <2> HIDE DEF D
    <2> QED
        BY <2>4, <2>5
<1>8. CASE MasterIdle
    <2> DEFINE p == Polled
               b == Terminates(p, ot[p])
    <2>1. Head(todo).op = "walk" /\ p \in Ids
        BY <1>8, MasterIdleMakes
    <2>2. PICK n \in Nat \ {0} :
              Makes((IF b THEN {Emit("TERMINATION", p)}
                 ELSE IF terminated[p] THEN {} ELSE {Emit("PROFILE_LOCKED", p)})
                \cup {Walk(n)})
        BY <1>8, MasterIdleMakes
    <2> DEFINE D == (IF b THEN {Emit("TERMINATION", p)}
                 ELSE IF terminated[p] THEN {} ELSE {Emit("PROFILE_LOCKED", p)})
                \cup {Walk(n)}
    <2> HIDE DEF b
    <2>4. \A x \in D : Caused(x)
        BY <2>1, CausedOf DEF Speaker
    <2>5. Makes(D)
        BY <2>2
    <2> HIDE DEF D
    <2> QED
        BY <2>4, <2>5
<1>9. CASE DelaySend
    <2> DEFINE p == Polled
               b == DelayBegun(p) /\ ~started[p]
               e == DelayEnds(p)
    <2>1. Head(todo).op = "walk" /\ p \in Ids
        BY <1>9, DelaySendMakes
    <2>2. PICK n \in Nat \ {0} :
              Makes((IF b THEN {Emit("ACTIVATION", p)} ELSE {})
                \cup (IF e THEN {Emit("TERMINATION", p)} ELSE {}) \cup {Walk(n)})
        BY <1>9, DelaySendMakes
    <2>3. started' = [started EXCEPT ![p] = DelayBegun(p)]
        BY <1>9 DEF DelaySend, DelayBegun, DelayEnds, DelayFrom
    <2>4. b => \A r \in Ids : r = p => started'[r]
        BY <2>1, <2>3 DEF Typed
    <2> DEFINE D == (IF b THEN {Emit("ACTIVATION", p)} ELSE {})
                \cup (IF e THEN {Emit("TERMINATION", p)} ELSE {}) \cup {Walk(n)}
    <2> HIDE DEF b, e
    <2>5. \A x \in D : Caused(x)
        BY <2>1, <2>4, CausedOf DEF Speaker
    <2>6. Makes(D)
        BY <2>2
    <2> HIDE DEF D
    <2> QED
        BY <2>5, <2>6
<1>10. CASE CheckerSkipped \/ EndWalk
    <2>1. CASE CheckerSkipped
        <3>1. PICK n \in Nat \ {0} : Makes({Walk(n)})
            BY <2>1, CheckerSkippedMakes
        <3> QED
            BY <2>1, <3>1, CheckerSkippedMakes, CausedOf
    <2>2. CASE EndWalk
        BY <2>2, EndWalkMakes, CausedOf
    <2> QED
        BY <1>10, <2>1, <2>2
<1>11. ASSUME NEW c \in Ids, CheckerRecords(c) PROVE \E D : Makes(D) /\ \A x \in D : Caused(x)
    <2> DEFINE k == Head(todo).kind
               to == Head(todo).to
               b == waited[c] = {} /\ ~terminated[c]
               D == (IF b THEN {Emit("TERMINATION", c)} ELSE {})
                    \cup (IF to \ {c} = {} THEN {} ELSE {Check(k, to \ {c})})
    <2>1. Head(todo).op = "check" /\ Makes(D) /\ c \in to
        BY <1>11, CheckerRecordsMakes
    <2> HIDE DEF b
    <2>2. \A x \in D : Caused(x)
        BY <2>1, CausedOf DEF Speaker
    <2> HIDE DEF D
    <2> QED
        BY <2>1, <2>2
<1>12. ASSUME NEW r \in Ids, AskStream(r) PROVE \E D : Makes(D) /\ \A x \in D : Caused(x)
    <2> DEFINE D == {On("reset", p) : p \in ResetNow(r)} \cup {Ask(Head(todo).left \ {r})}
    <2>1. Makes(D) /\ Head(todo).op = "streams"
        BY <1>12, AskStreamMakes
    <2>2. \A x \in D : Caused(x)
        BY <2>1, CausedOf
    <2> HIDE DEF D
    <2> QED
        BY <2>1, <2>2
<1>13. CASE Reset
    <2> DEFINE p == Head(todo).profile
    <2>1. /\ p \in Ids /\ Head(todo).op = "reset"
          /\ Makes({On("reset", c) : c \in CheckersOf(p)}
                    \cup (IF Free(p) THEN {Emit("ACTIVATION", p)} ELSE {}))
        BY <1>13, ResetMakes
    <2> QED
        BY <2>1, CausedOf
<1>14. CASE Answered
    <2> DEFINE p == Head(todo).profile
               b == Terminates(p, ot[p])
               D == (IF b THEN {Emit("TERMINATION", p)} ELSE {})
                    \cup (IF CheckersOf(p) = {} THEN {} ELSE {Check("receive", CheckersOf(p))})
    <2>1. Head(todo).op = "answered" /\ Makes(D) /\ p \in Ids
        BY <1>14, AnsweredMakes
    <2> HIDE DEF b
    <2>2. \A x \in D : Caused(x)
        BY <2>1, CausedOf DEF Speaker
    <2> HIDE DEF D
    <2> QED
        BY <2>1, <2>2
<1> QED
    BY <1>1, <1>2, <1>3, <1>4, <1>5, <1>6, <1>7, <1>8, <1>9, <1>10, <1>11, <1>12, <1>13, <1>14
    DEF Step

\* A call made by a step, or one that was there.
LEMMA CallsNext ==
    ASSUME Typed, Step
    PROVE  /\ \A c \in InProgress' : c \in InProgress \/ Caused(c)
           /\ Head(todo) \in InProgress /\ InProgress \subseteq InProgress' \cup {Head(todo)}
           /\ \A c \in InProgress' : c \in Rest \/ Caused(c)
           /\ Rest \subseteq InProgress /\ todo # <<>>
<1>1. PICK D : Makes(D) /\ \A x \in D : Caused(x)
    BY Made
<1>2. InProgress' = D \cup Rest /\ InProgress = {Head(todo)} \cup Rest /\ todo # <<>>
    BY <1>1, MakesOf DEF Makes
<1> QED
    BY <1>1, <1>2

\* The steps of the engine that leave the clock alone.
LEMMA ClockNext ==
    ASSUME Typed, Orderly, Clock, [Next]_vars
    PROVE  Clock' /\ time <= time'
<1>0. time \in Nat /\ due \in Nat \cup {Never} /\ nextTimes \subseteq Nat /\ conf \in Configs
    BY DEF Typed
<1>1. CASE Step
    <2>1. time' = time
        BY <1>1 DEF Step, Configure, StreamCacheUpdate, Emission, EmitEvent, Delivered, AllHeard,
            MasterHears, OtherHears, MasterSends, MasterRefused, MasterIdle, DelaySend,
            CheckerSkipped, CheckerRecords, EndWalk, AskStream, AllAsked, Reset, Answered
    <2>2. CASE EndWalk
        <3>1. Head(todo).op = "walk" /\ Makes({Ask(activeStreams)})
            BY <2>2, EndWalkMakes
        <3>2. Rest = {}
            BY <3>1, StackedOf DEF Orderly, Makes
        <3>3. InProgress' = {Ask(activeStreams)} /\ Head(todo) \in InProgress
            BY <3>1, <3>2, MakesOf
        <3>4. \A t \in nextTimes : time <= t
            BY <3>1, <3>3 DEF Clock
        <3>5. due' = IF nextTimes = {} THEN Never ELSE Min(nextTimes)
            BY <2>2 DEF EndWalk
        <3>6. due' = Never \/ time <= due'
            BY <1>0, <3>4, <3>5, MinOf
        <3> QED
            BY <1>0, <2>1, <3>3, <3>6, OpsOf DEF Clock
    <2>3. CASE ~EndWalk
        <3>1. due' = due
            BY <1>1, <2>3 DEF Step, Configure, StreamCacheUpdate, Emission, EmitEvent, Delivered, AllHeard,
                MasterHears, OtherHears, MasterSends, MasterRefused, MasterIdle, DelaySend,
                CheckerSkipped, CheckerRecords, AskStream, AllAsked, Reset, Answered, poll
        <3>2. (\E c \in InProgress' : c.op = "walk") => \E c \in InProgress : c.op = "walk"
            BY <1>1, CallsNext DEF Caused
        <3>3. nextTimes' = nextTimes \/ \A t \in nextTimes' \ nextTimes : time <= t
            <4>1. CASE MasterRefused
                BY <1>0, <4>1 DEF MasterRefused
            <4>2. CASE DelaySend
                <5>1. Of(Polled).delay \in Nat /\ startTime[Polled] \in Nat
                    BY <1>0, <4>2, PollsOf, ConfOf DEF DelaySend, Typed
                <5>2. nextTimes' = nextTimes \/ (nextTimes' = nextTimes \cup {DelayFrom(Polled) + Of(Polled).delay}
                              /\ ~(DelayBegun(Polled) /\ time >= DelayFrom(Polled) + Of(Polled).delay)
                              /\ ~Waiting(waited[Polled], "PROFILE"))
                    BY <4>2 DEF DelaySend, DelayFrom, DelayBegun
                <5>3. ~Waiting(waited[Polled], "PROFILE") => DelayBegun(Polled)
                    BY DEF DelayBegun
                <5>4. DelayFrom(Polled) + Of(Polled).delay \in Nat
                    BY <1>0, <5>1 DEF DelayFrom
                <5> HIDE DEF DelayFrom
                <5> QED
                    BY <1>0, <5>2, <5>3, <5>4
            <4>3. CASE ~MasterRefused /\ ~DelaySend
                BY <1>1, <2>3, <4>3 DEF Step, Configure, StreamCacheUpdate, Emission, Delivered,
                    MasterHears, OtherHears, MasterSends, MasterIdle,
                    CheckerSkipped, CheckerRecords, AskStream, AllAsked, Reset, Answered, poll
            <4> QED
                BY <4>1, <4>2, <4>3
        <3>4. (\E c \in InProgress' : c.op = "walk") => \A t \in nextTimes' : time' <= t
            BY <1>0, <2>1, <3>2, <3>3 DEF Clock
        <3> QED
            BY <1>0, <2>1, <3>1, <3>4 DEF Clock
    <2> QED
        BY <2>2, <2>3
<1>2. CASE Poll
    <2>1. time' = due /\ due' = Never /\ nextTimes' = {} /\ due # Never
        BY <1>2 DEF Poll
    <2> QED
        BY <1>0, <2>1 DEF Clock
<1>3. ASSUME NEW p \in Ids, Answer(p) \/ Discard(p) \/ ActivateStream(p) PROVE Clock' /\ time <= time'
    <2>1. InProgress' \subseteq {On("answered", p), Emit("ACTIVATION", p)}
        <3>1. ASSUME NEW c, todo' = <<c>> PROVE InProgress' = {c}
            <4>1. DOMAIN <<c>> = {1} /\ <<c>>[1] = c
                OBVIOUS
            <4> QED
                BY <3>1, <4>1 DEF InProgress
        <3>2. Discard(p) => InProgress' = {}
            BY DEF Discard, Quiet, InProgress
        <3> QED
            BY <1>3, <3>1, <3>2 DEF Answer, ActivateStream
    <2>2. ~\E c \in InProgress' : c.op = "walk"
        BY <2>1, OpsOf
    <2>3. time' = time \/ time' \in Instants
        BY <1>3 DEF Answer, Discard, ActivateStream
    <2>4. due' = time' \/ due' = due \/ (due' \in Instants /\ time' = time)
        BY <1>3 DEF Answer, Discard, ActivateStream, poll
    <2>5. \A t \in Instants : time <= t /\ (due # Never => t <= due)
        BY InstantsOf
    <2>6. due = Never => due' = Never \/ time' <= due'
        <3>1. \A t \in Instants : t \in Nat
            BY InstantsOf
        <3> QED
            BY <1>0, <2>3, <2>4, <2>5, <3>1
    <2>7. ASSUME due # Never PROVE time' <= due'
        <3>1. \A t \in Instants : t \in Nat
            BY InstantsOf
        <3>2. due \in Nat /\ (time' \in Nat) /\ time <= due
            BY <1>0, <2>3, <2>7, <3>1 DEF Clock
        <3> QED
            BY <1>0, <2>3, <2>4, <2>5, <2>7, <3>1, <3>2
    <2>8. time <= time'
        BY <1>0, <2>3, <2>5
    <2> QED
        BY <2>2, <2>6, <2>7, <2>8 DEF Clock
<1>4. CASE UNCHANGED vars
    <2>1. UNCHANGED <<time, due, nextTimes, todo>>
        BY <1>4 DEF vars, poll
    <2>2. InProgress' = InProgress
        BY <2>1 DEF InProgress
    <2> QED
        BY <1>0, <2>1, <2>2 DEF Clock
<1> QED
    BY <1>1, <1>2, <1>3, <1>4 DEF Next

\* Which steps touch what is outstanding, who has ended, and since when.
LEMMA CheckersNext ==
    ASSUME Typed, Checkers, [Next]_vars
    PROVE  Checkers'
<1>0. conf' = conf /\ conf \in Configs
    BY StepsAre DEF Typed
<1>1. CASE Step
    <2>1. ASSUME NEW x \in InProgress', x.op = "check", NEW c \in x.to PROVE Of(c)'.role = "checker"
        <3>1. CASE x \in InProgress
            BY <1>0, <2>1, <3>1 DEF Checkers, Of
        <3>2. CASE Caused(x) /\ Head(todo).op = "check"
            <4>1. Head(todo) \in InProgress /\ c \in Head(todo).to
                BY <1>1, <2>1, <3>2, CallsNext DEF Caused
            <4> QED
                BY <1>0, <3>2, <4>1 DEF Checkers, Of
        <3>3. CASE Caused(x) /\ Head(todo).op # "check"
            <4>1. PICK p \in Ids : c \in CheckersOf(p)
                BY <2>1, <3>3 DEF Caused
            <4>2. c \in Ids /\ Of(c).watches # {}
                BY <4>1 DEF CheckersOf
            <4> QED
                BY <1>0, <4>2, ConfigsAssumption DEF Of
        <3> QED
            BY <1>1, <2>1, <3>1, <3>2, <3>3, CallsNext
    <2> QED
        BY <2>1 DEF Checkers, Of
<1>2. CASE Poll \/ \E p \in Ids : Answer(p) \/ ActivateStream(p)
    <2>1. PICK c \in Calls : todo' = <<c>> /\ c.op # "check"
        <3>1. CASE Poll
            BY <3>1, CallsOf, OpsOf DEF Poll
        <3>2. ASSUME NEW p \in Ids, Answer(p) \/ ActivateStream(p)
              PROVE  \E c \in Calls : todo' = <<c>> /\ c.op # "check"
            <4>1. On("answered", p) \in Calls /\ Emit("ACTIVATION", p) \in Calls
                BY CallsOf DEF Types
            <4> QED
                BY <3>2, <4>1, OpsOf DEF Answer, ActivateStream
        <3> QED
            BY <1>2, <3>1, <3>2
    <2>2. DOMAIN <<c>> = {1} /\ <<c>>[1] = c
        OBVIOUS
    <2> QED
        BY <2>1, <2>2 DEF Checkers, InProgress
<1>3. CASE UNCHANGED vars \/ \E p \in Ids : Discard(p)
    <2>1. todo' = todo
        BY <1>3 DEF vars, Discard
    <2> QED
        BY <1>0, <2>1 DEF Checkers, InProgress, Of
<1> QED
    BY <1>1, <1>2, <1>3 DEF Next

LEMMA OwedNext ==
    ASSUME Typed, Orderly, Owed, Checkers, Idle, [Next]_vars
    PROVE  Owed'
<1>0. conf' = conf /\ \A p \in Ids : Master(p)' <=> Master(p)
    BY StepsAre DEF Master, Of
<1>1. /\ ot \in [Ids -> Int] /\ waitedResponse \in [Ids -> Nat]
      /\ \A p \in Ids : waitedResponse[p] = IF Master(p) THEN ot[p] ELSE 0
    BY DEF Typed, Owed
<1>2. CASE MasterSends
    <2> DEFINE p == Polled
    <2>1. p \in Ids /\ Master(p)
        BY <1>2, MasterSendsMakes DEF Master
    <2>2. \/ UNCHANGED <<ot, waitedResponse>>
          \/ ot' = [ot EXCEPT ![p] = @ + 1] /\ waitedResponse' = [waitedResponse EXCEPT ![p] = @ + 1]
        BY <1>2 DEF MasterSends
    <2> QED
        BY <1>0, <1>1, <2>1, <2>2 DEF Owed
<1>3. ASSUME NEW c \in Ids, CheckerRecords(c) PROVE Owed'
    <2>1. Head(todo) \in InProgress /\ c \in Head(todo).to /\ Head(todo).op = "check"
        <3>1. Step
            BY <1>3 DEF Step
        <3> QED
            BY <1>3, <3>1, CallsNext, CheckerRecordsMakes
    <2>2. ~Master(c)
        BY <2>1 DEF Checkers, Master
    <2>3. waitedResponse' = waitedResponse /\ \A p \in Ids \ {c} : ot'[p] = ot[p]
        BY <1>1, <1>3 DEF CheckerRecords, memory
    <2> QED
        BY <1>0, <1>1, <2>2, <2>3 DEF Owed
<1>4. CASE Reset
    <2> DEFINE p == Head(todo).profile
    <2>1. p \in Ids /\ On("reset", p) \in InProgress
        <3>1. Step
            BY <1>4 DEF Step
        <3> QED
            BY <1>4, <3>1, ResetMakes, CallsNext
    <2>2. Master(p) => ot[p] = 0
        BY <2>1 DEF Idle, Resetting
    <2>3. ot' = [ot EXCEPT ![p] = 0] /\ waitedResponse' = waitedResponse
        BY <1>4 DEF Reset, memory
    <2> QED
        BY <1>0, <1>1, <2>1, <2>2, <2>3 DEF Owed
<1>5. ASSUME NEW p \in Ids, Answer(p) PROVE Owed'
    <2>1. /\ ot' = [ot EXCEPT ![p] = @ - 1] /\ waitedResponse' = [waitedResponse EXCEPT ![p] = @ - 1]
          /\ waitedResponse[p] > 0
        BY <1>5 DEF Answer
    <2>2. Master(p)
        BY <1>1, <2>1
    <2> QED
        BY <1>0, <1>1, <2>1, <2>2 DEF Owed
<1>6. CASE \/ Configure \/ StreamCacheUpdate \/ Emission \/ Delivered \/ MasterRefused \/ MasterIdle
           \/ DelaySend \/ CheckerSkipped \/ EndWalk \/ AllAsked \/ Answered \/ Poll \/ UNCHANGED vars
    <2>1. UNCHANGED <<ot, waitedResponse>>
        BY <1>6 DEF Configure, StreamCacheUpdate, Emission, Delivered, MasterRefused, MasterIdle,
            DelaySend, CheckerSkipped, EndWalk, AllAsked, Answered, Poll, profileVars, memory, vars
    <2> QED
        BY <1>0, <1>1, <2>1 DEF Owed
<1>7. ASSUME NEW p \in Ids, MasterHears(p) \/ OtherHears(p) \/ AskStream(p) \/ Discard(p) \/ ActivateStream(p)
      PROVE  Owed'
    <2>1. UNCHANGED <<ot, waitedResponse>>
        BY <1>7 DEF MasterHears, OtherHears, AskStream, Discard, ActivateStream, profileVars, memory
    <2> QED
        BY <1>0, <1>1, <2>1 DEF Owed
<1> QED
    BY <1>2, <1>3, <1>4, <1>5, <1>6, <1>7 DEF Next, Step

\* A profile that is at its end stays there.
LEMMA EndedStays ==
    ASSUME Typed, Typed', NEW p \in Ids, Ended(p), conf' = conf, sent'[p] = sent[p], time <= time',
           started[p] => started'[p] /\ startTime'[p] = startTime[p]
    PROVE  Ended(p)'
<1>1. /\ Of(p).toSend \in Nat /\ Of(p).toStop \in Nat /\ Of(p)' = Of(p)
      /\ time \in Nat /\ time' \in Nat /\ startTime[p] \in Nat
    BY ConfOf DEF Typed, Of
<1>2. EndOfData(p) => EndOfData(p)'
    BY <1>1 DEF EndOfData
<1>3. EndOfTime(p) => EndOfTime(p)'
    <2> SUFFICES ASSUME EndOfTime(p) PROVE EndOfTime(p)'
        OBVIOUS
    <2>1. started'[p] /\ startTime'[p] = startTime[p] /\ time >= startTime[p] + Of(p).toStop /\ Of(p).toStop > 0
        BY DEF EndOfTime
    <2>2. time' >= startTime[p] + Of(p).toStop
        BY <1>1, <2>1
    <2> QED
        BY <1>1, <2>1, <2>2 DEF EndOfTime
<1> QED
    BY <1>2, <1>3 DEF Ended

\* A root that may be activated has not terminated.
LEMMA RootRests ==
    ASSUME Typed, Sleeping, NEW r \in Ids, ActivateStream(r)
    PROVE  Dormant(r)
<1>1. InProgress = {} /\ r \in conf.roots
    BY DEF ActivateStream, Quiet, InProgress
<1>2. r \notin Resetting
    BY <1>1 DEF Resetting
<1>3. ~HasPlayed(r)
    BY DEF ActivateStream, HasPlayed, Typed
<1> QED
    BY <1>1, <1>2, <1>3 DEF Sleeping

LEMMA AtEndNext ==
    ASSUME Typed, Typed', Orderly, Clock, Owed, Checkers, AtEnd, Sleeping, [Next]_vars
    PROVE  AtEnd'
<1>0. /\ conf' = conf /\ (\A p \in Ids : Master(p)' <=> Master(p)) /\ time <= time'
    BY StepsAre, ClockNext DEF Master, Of
<1>1. ASSUME NEW q \in Ids, Master(q), terminated[q], ot'[q] = ot[q], sent'[q] = sent[q],
             started[q] => started'[q] /\ startTime'[q] = startTime[q]
      PROVE  ot'[q] = 0 /\ Ended(q)'
    BY <1>0, <1>1, EndedStays DEF AtEnd
<1>2. ASSUME NEW p \in Ids,
             \A q \in Ids \ {p} : /\ terminated'[q] = terminated[q] /\ ot'[q] = ot[q] /\ sent'[q] = sent[q]
                                  /\ started'[q] = started[q] /\ startTime'[q] = startTime[q],
             Master(p) /\ terminated'[p] => ot'[p] = 0 /\ Ended(p)'
      PROVE  AtEnd'
    <2>1. ASSUME NEW q \in Ids, q # p, Master(q), terminated'[q] PROVE ot'[q] = 0 /\ Ended(q)'
        BY <1>1, <1>2, <2>1
    <2> QED
        BY <1>0, <1>2, <2>1 DEF AtEnd
<1>3. /\ ot \in [Ids -> Int] /\ sent \in [Ids -> Nat] /\ started \in [Ids -> BOOLEAN]
      /\ startTime \in [Ids -> Nat] /\ terminated \in [Ids -> BOOLEAN]
    BY DEF Typed
<1>4. CASE MasterSends \/ MasterRefused
    <2> DEFINE p == Polled
    <2>1. p \in Ids /\ Master(p) /\ Active(p)
        BY <1>4, MasterSendsMakes, MasterRefusedMakes DEF Master, MasterSends, MasterRefused
    <2>2. terminated' = terminated /\ ~terminated[p]
        BY <1>4, <2>1 DEF MasterSends, MasterRefused, AtEnd, Active
    <2>3. \A q \in Ids \ {p} : /\ ot'[q] = ot[q] /\ sent'[q] = sent[q]
                               /\ started'[q] = started[q] /\ startTime'[q] = startTime[q]
        BY <1>3, <1>4, <2>1 DEF MasterSends, MasterRefused, Activated
    <2> QED
        BY <1>2, <2>1, <2>2, <2>3
<1>5. ASSUME NEW p \in Ids, MasterIdle, p = Polled PROVE AtEnd'
    <2> DEFINE b == Terminates(p, ot[p])
    <2>1. terminated' = [terminated EXCEPT ![p] = @ \/ b] /\ UNCHANGED <<ot, sent, started, startTime>>
        BY <1>5 DEF MasterIdle
    <2>2. b => ot[p] = 0 /\ Ended(p)'
        BY <1>0, <2>1, EndedStays DEF Terminates
    <2> HIDE DEF b
    <2>3. terminated'[p] => terminated[p] \/ b
        BY <1>3, <2>1
    <2>4. \A q \in Ids \ {p} : terminated'[q] = terminated[q]
        BY <1>3, <2>1
    <2>5. Master(p) /\ terminated'[p] => ot'[p] = 0 /\ Ended(p)'
        BY <1>1, <2>1, <2>2, <2>3
    <2> QED
        BY <1>2, <2>1, <2>4, <2>5
<1>6. CASE DelaySend
    <2> DEFINE p == Polled
    <2>1. p \in Ids /\ ~Master(p)
        BY <1>6, DelaySendMakes DEF Master
    <2>2. \A q \in Ids \ {p} : /\ ot'[q] = ot[q] /\ sent'[q] = sent[q] /\ terminated'[q] = terminated[q]
                               /\ started'[q] = started[q] /\ startTime'[q] = startTime[q]
        BY <1>3, <1>6 DEF DelaySend
    <2> QED
        BY <1>2, <2>1, <2>2
<1>7. ASSUME NEW c \in Ids, CheckerRecords(c) PROVE AtEnd'
    <2>1. Head(todo) \in InProgress /\ c \in Head(todo).to /\ Head(todo).op = "check"
        <3>1. Step
            BY <1>7 DEF Step
        <3> QED
            BY <1>7, <3>1, CallsNext, CheckerRecordsMakes
    <2>2. ~Master(c)
        BY <2>1 DEF Checkers, Master
    <2>3. \A q \in Ids \ {c} : /\ ot'[q] = ot[q] /\ sent'[q] = sent[q] /\ terminated'[q] = terminated[q]
                               /\ started'[q] = started[q] /\ startTime'[q] = startTime[q]
        BY <1>3, <1>7 DEF CheckerRecords
    <2> QED
        BY <1>2, <2>2, <2>3
<1>8. CASE Reset
    <2> DEFINE p == Head(todo).profile
    <2>1. p \in Ids
        BY <1>8, ResetMakes
    <2>2. /\ ot' = [ot EXCEPT ![p] = 0] /\ terminated' = [terminated EXCEPT ![p] = FALSE]
          /\ sent' = [sent EXCEPT ![p] = 0]
          /\ \A q \in Ids \ {p} : started'[q] = started[q] /\ startTime'[q] = startTime[q]
        BY <1>3, <1>8 DEF Reset
    <2> QED
        BY <1>2, <1>3, <2>1, <2>2
<1>9. CASE Configure
    <2>1. \A q \in Ids : ~terminated[q]
        <3>1. Head(todo) \in InProgress /\ Head(todo).op = "configure"
            BY <1>9, CallsNext DEF Step, Configure, Running
        <3> QED
            BY <3>1 DEF Orderly, LoadingFirst, Load
    <2>2. terminated' = terminated
        BY <1>9 DEF Configure
    <2> QED
        BY <2>1, <2>2 DEF AtEnd
<1>10. ASSUME NEW p \in Ids, Answered, p = Head(todo).profile PROVE AtEnd'
    <2> DEFINE b == Terminates(p, ot[p])
    <2>1. terminated' = [terminated EXCEPT ![p] = @ \/ b] /\ UNCHANGED <<ot, sent, started, startTime>>
        BY <1>10 DEF Answered
    <2>2. b => ot[p] = 0 /\ Ended(p)'
        BY <1>0, <2>1, EndedStays DEF Terminates
    <2> HIDE DEF b
    <2>3. terminated'[p] => terminated[p] \/ b
        BY <1>3, <2>1
    <2>4. \A q \in Ids \ {p} : terminated'[q] = terminated[q]
        BY <1>3, <2>1
    <2>5. Master(p) /\ terminated'[p] => ot'[p] = 0 /\ Ended(p)'
        BY <1>1, <2>1, <2>2, <2>3
    <2> QED
        BY <1>2, <2>1, <2>4, <2>5
<1>11. ASSUME NEW p \in Ids, Answer(p) PROVE AtEnd'
    <2>1. ot' = [ot EXCEPT ![p] = @ - 1] /\ waitedResponse[p] > 0 /\ UNCHANGED <<sent, started, startTime, terminated>>
        BY <1>11 DEF Answer
    <2>2. Master(p) => ~terminated[p]
        BY <2>1 DEF Owed, AtEnd
    <2> QED
        BY <1>2, <1>3, <2>1, <2>2
<1>12. ASSUME NEW p \in Ids, MasterHears(p) \/ OtherHears(p) PROVE AtEnd'
    <2>1. /\ UNCHANGED <<ot, sent, terminated>>
          /\ \A q \in Ids \ {p} : started'[q] = started[q] /\ startTime'[q] = startTime[q]
          /\ started[p] => started'[p] /\ startTime'[p] = startTime[p]
        BY <1>3, <1>12 DEF MasterHears, OtherHears, profileVars, Starts
    <2> QED
        BY <1>1, <1>2, <2>1
<1>13. ASSUME NEW r \in Ids, ActivateStream(r) PROVE AtEnd'
    <2>1. ~terminated[r]
        BY <1>13, RootRests DEF Dormant, HasBegun
    <2>2. /\ UNCHANGED <<ot, sent, terminated>>
          /\ \A q \in Ids \ {r} : started'[q] = started[q] /\ startTime'[q] = startTime[q]
        BY <1>3, <1>13 DEF ActivateStream
    <2> QED
        BY <1>2, <2>1, <2>2
<1>14. CASE \/ StreamCacheUpdate \/ Emission \/ Delivered \/ CheckerSkipped \/ EndWalk \/ AllAsked
            \/ Poll \/ UNCHANGED vars \/ \E p \in Ids : AskStream(p) \/ Discard(p)
    <2>1. UNCHANGED <<ot, sent, terminated, started, startTime>>
        BY <1>14 DEF StreamCacheUpdate, Emission, Delivered, CheckerSkipped, EndWalk, AllAsked, Poll,
            AskStream, Discard, profileVars, vars
    <2> QED
        BY <1>0, <1>1, <2>1 DEF AtEnd
<1>15. /\ MasterIdle => Polled \in Ids
       /\ Answered => Head(todo).profile \in Ids
    BY MasterIdleMakes, AnsweredMakes
<1> QED
    BY <1>4, <1>5, <1>6, <1>7, <1>8, <1>9, <1>10, <1>11, <1>12, <1>13, <1>14, <1>15 DEF Next, Step

LEMMA SubscribersNext ==
    ASSUME Typed, Subscribers, [Next]_vars
    PROVE  Subscribers'
<1>0. conf' = conf /\ \A p \in Ids : Partners(p)' = Partners(p)
    BY StepsAre DEF Partners, Of
<1>1. waitEventMap \subseteq Subscriptions
    BY DEF Typed
<1>2. ASSUME \A s \in waitEventMap' : s \in waitEventMap \/ s.type # "TERMINATION"
      PROVE  Subscribers'
    BY <1>0, <1>1, <1>2 DEF Subscribers, Subscriptions
<1>3. ASSUME NEW p \in Ids, waitEventMap' = Subscribed(Of(p).waits, p) PROVE Subscribers'
    <2>1. Of(p).waits \subseteq Events
        BY ConfOf DEF Typed
    <2>2. ASSUME NEW w \in Of(p).waits, w.type = "TERMINATION"
          PROVE  Subscription(w, p).id \in Partners(Subscription(w, p).profile)
        <3>1. w = Event("TERMINATION", w.id) /\ w.id \in Ids
            BY <2>1, <2>2 DEF Events, Event
        <3> QED
            BY <3>1 DEF Partners, Subscription
    <2>3. ASSUME NEW s \in waitEventMap', s \notin waitEventMap, s.type = "TERMINATION"
          PROVE  s.id \in Partners(s.profile) /\ s.profile \in Ids
        <3>1. PICK w \in Of(p).waits : s = Subscription(w, p)
            BY <1>3, <2>3 DEF Subscribed
        <3>2. w.type = "TERMINATION"
            BY <2>3, <3>1 DEF Subscription
        <3> QED
            BY <2>2, <3>1, <3>2 DEF Subscription
    <2> QED
        BY <1>0, <1>1, <2>3 DEF Subscribers, Subscriptions
<1>4. CASE Configure \/ Reset
    <2> DEFINE p == Head(todo).profile
    <2>1. p \in Ids
        BY <1>4, ConfigureMakes, ResetMakes
    <2>2. waitEventMap' = Subscribed(Of(p).waits, p)
        BY <1>4 DEF Configure, Reset, RetainedWaits
    <2> QED
        BY <1>3, <2>1, <2>2
<1>5. CASE Emission
    BY <1>2, <1>5 DEF Emission, EmitEvent, KeptSubscriptions
<1>6. ASSUME NEW p \in Ids, MasterHears(p) PROVE Subscribers'
    <2> DEFINE ev == Head(todo).event
    <2>1. AwaitedBy(p, ev) \ waited[p] \subseteq {Opposite(ev)}
        BY DEF AwaitedBy, StillWaited
    <2>2. Opposite(ev).type # "TERMINATION"
        <3>1. ev \in Events
            BY <1>6, MasterHearsMakes
        <3> QED
            BY <3>1 DEF Opposite, Events
    <2>3. waitEventMap' = Subscribed(AwaitedBy(p, ev) \ waited[p], p)
        BY <1>6 DEF MasterHears
    <2> QED
        BY <1>2, <2>1, <2>2, <2>3 DEF Subscribed, Subscription
<1>7. ASSUME NEW p \in Ids, \/ OtherHears(p) \/ CheckerRecords(p) \/ AskStream(p) \/ Answer(p)
                            \/ Discard(p) \/ ActivateStream(p)
      PROVE  Subscribers'
    BY <1>2, <1>7 DEF OtherHears, CheckerRecords, AskStream, Answer, Discard, ActivateStream, busVars
<1>8. CASE \/ StreamCacheUpdate \/ Delivered \/ MasterSends \/ MasterRefused \/ MasterIdle
           \/ DelaySend \/ CheckerSkipped \/ EndWalk \/ AllAsked \/ Answered \/ Poll \/ UNCHANGED vars
    <2>1. waitEventMap' = waitEventMap
        BY <1>8 DEF StreamCacheUpdate, Delivered, AllHeard, MasterSends, MasterRefused, MasterIdle,
            DelaySend, CheckerSkipped, EndWalk, AllAsked, Answered, Poll, busVars, vars
    <2> QED
        BY <1>2, <2>1
<1> QED
    BY <1>4, <1>5, <1>6, <1>7, <1>8 DEF Next, Step

\* Streams change only when the files are loaded.
LEMMA CacheStays ==
    ASSUME [Next]_vars, ~StreamCacheUpdate
    PROVE  streamCache' = streamCache
    BY DEF Next, Step, Configure, Emission, Delivered, MasterHears, OtherHears, MasterSends,
        MasterRefused, MasterIdle, DelaySend, CheckerSkipped, CheckerRecords, EndWalk, AskStream,
        AllAsked, Reset, Answered, Poll, Answer, Discard, ActivateStream, streams, vars

LEMMA LeavesLastNext ==
    ASSUME Typed, Subscribers, LeavesLast, [Next]_vars
    PROVE  LeavesLast'
<1>0. conf' = conf /\ \A p \in Ids : Partners(p)' = Partners(p)
    BY StepsAre DEF Partners, Of
<1>1. CASE StreamCacheUpdate
    <2>1. waitEventMap \subseteq Subscriptions /\ streamCache \in [Ids -> [nodes : Seq(Ids), leaves : SUBSET Ids]]
        BY DEF Typed
    <2>2. ASSUME NEW r \in Ids, streamCache'[r] = Stream(r)
          PROVE  /\ r \in ToSet(streamCache'[r].nodes)
                 /\ \A n \in ToSet(streamCache'[r].nodes) :
                       \/ n \in streamCache'[r].leaves
                       \/ \E f \in ToSet(streamCache'[r].nodes) : f \in Ids /\ n \in Partners(f)
        <3> DEFINE s == Stream(r)
        <3>1. /\ r \in ToSet(s.nodes) /\ s.leaves = {n \in ToSet(s.nodes) : Followers(n) = {}}
              /\ \A n \in ToSet(s.nodes) : Followers(n) \subseteq ToSet(s.nodes)
            BY <2>1, StreamOf
        <3>2. ASSUME NEW n, NEW f \in Followers(n) PROVE f \in Ids /\ n \in Partners(f)
            <4>1. PICK x \in waitEventMap : x.id = n /\ x.type = "TERMINATION" /\ f = x.profile
                BY DEF Followers
            <4> QED
                BY <2>1, <4>1 DEF Subscribers, Subscriptions
        <3> HIDE DEF s
        <3>3. \A n \in ToSet(s.nodes) : n \in s.leaves \/ \E f \in ToSet(s.nodes) : f \in Ids /\ n \in Partners(f)
            BY <3>1, <3>2
        <3> QED
            BY <2>2, <3>1, <3>3 DEF s
    <2>3. \A r \in Ids : streamCache'[r] = Stream(r) \/ streamCache'[r] = streamCache[r]
        BY <1>1 DEF StreamCacheUpdate
    <2> QED
        BY <1>0, <2>2, <2>3 DEF LeavesLast
<1>2. CASE ~StreamCacheUpdate
    <2>1. streamCache' = streamCache
        BY <1>2, CacheStays
    <2> QED
        BY <1>0, <2>1 DEF LeavesLast
<1> QED
    BY <1>1, <1>2

\* The list of those polled only grows.
LEMMA ListGrows ==
    ASSUME Typed, [Next]_vars
    PROVE  ToSet(activeList) \subseteq ToSet(activeList')
<1>0. activeList \in Seq(Ids) /\ IsFiniteSet(Ids)
    BY IdsAssumption DEF Typed
<1>1. CASE Configure \/ Reset
    <2> DEFINE p == Head(todo).profile
    <2>1. p \in Ids /\ Of(p).waits \subseteq Events
        BY <1>1, ConfigureMakes, ResetMakes, ConfOf DEF Typed
    <2>2. activeList' = activeList \o Listed(Of(p).waits, p)
        BY <1>1 DEF Configure, Reset, RetainedWaits
    <2> QED
        BY <1>0, <2>1, <2>2, ListedOf
<1>2. CASE Emission
    <2> DEFINE p == Head(todo).profile
    <2>1. EmitEvent
        BY <1>2 DEF Emission
    <2>2. p \in Ids
        BY <2>1, EmitMakes
    <2>3. activeList' = activeList \/ activeList' = Append(activeList, p)
        BY <2>1 DEF EmitEvent
    <2> HIDE DEF p
    <2>4. ToSet(Append(activeList, p)) = ToSet(activeList) \cup {p}
        BY <1>0, <2>2, AppendOf
    <2>5. ToSet(activeList') = ToSet(activeList) \/ ToSet(activeList') = ToSet(activeList) \cup {p}
        BY <2>3, <2>4
    <2> QED
        BY <2>5
<1>3. ASSUME ~Configure, ~Reset, ~Emission PROVE activeList' = activeList
    BY <1>3 DEF Next, Step, StreamCacheUpdate, Delivered, AllHeard, MasterHears, OtherHears, MasterSends,
        MasterRefused, MasterIdle, DelaySend, CheckerSkipped, CheckerRecords, EndWalk, AskStream,
        AllAsked, Answered, Poll, Answer, Discard, ActivateStream, busVars, vars
<1> QED
    BY <1>1, <1>2, <1>3

\* The calls of files that are being loaded are left alone by all others.
LEMMA LoadsNext ==
    ASSUME Typed, Step, NEW c, Load(c), Head(todo).op \notin {"configure", "cache"}
    PROVE  c \in InProgress' <=> c \in InProgress
<1>1. c \in InProgress' => c \in InProgress
    BY CallsNext DEF Caused, Load
<1>2. c \in InProgress => c \in InProgress'
    BY CallsNext DEF Load
<1> QED
    BY <1>1, <1>2

\* A root is described, since it awaits its activation.
LEMMA RootOf ==
    ASSUME conf \in Configs, NEW r \in conf.roots
    PROVE  /\ r \in Ids /\ Event("ACTIVATION", r) \in Of(r).waits /\ Described(r)
           /\ Waiting(Of(r).waits, "PROFILE") /\ ~Free(r)
<1>1. r \in Ids /\ Event("ACTIVATION", r) \in Of(r).waits
    BY ConfigsAssumption DEF Of
<1>2. Described(r)
    BY <1>1, DescribedOf
<1>3. Waiting(Of(r).waits, "PROFILE")
    BY <1>1 DEF Waiting, Event, Category
<1> QED
    BY <1>1, <1>2, <1>3 DEF Free

LEMMA RootsCachedNext ==
    ASSUME OneFile, Typed, Orderly, LeavesLast, RootsCached, [Next]_vars
    PROVE  RootsCached'
<1>0. conf' = conf /\ conf \in Configs /\ ToSet(activeList) \subseteq ToSet(activeList')
    BY StepsAre, ListGrows DEF Typed
<1>1. SUFFICES ASSUME conf.autoReset
               PROVE  /\ (\E c \in InProgress' : c.op = "configure") => Cache \in InProgress'
                      /\ conf.roots \cap Present' \subseteq ToSet(activeList')
                      /\ Cache \notin InProgress' => \A r \in conf.roots : r \in ToSet(streamCache'[r].nodes)
    BY <1>0 DEF RootsCached
<1>2. CASE Configure
    <2> DEFINE p == Head(todo).profile
    <2>1. p \in Ids /\ Head(todo) = On("configure", p) /\ Head(todo).op = "configure" /\ Step
        BY <1>2, ConfigureMakes, OpsOf DEF Step
    <2>2. Head(todo) \in InProgress /\ InProgress \subseteq InProgress' \cup {Head(todo)}
        BY <2>1, CallsNext
    <2>3. Cache \in InProgress'
        BY <1>1, <2>1, <2>2 DEF RootsCached, Cache
    <2>4. ASSUME NEW r \in conf.roots, r \in Present' PROVE r \in ToSet(activeList')
        <3>1. CASE r = p
            <4>1. activeList' = activeList \o Listed(Of(p).waits, p)
                BY <1>2 DEF Configure
            <4>2. Of(p).waits \subseteq Events /\ \E w \in Of(p).waits : w.type = "ACTIVATION"
                BY <1>0, <2>1, <3>1, RootOf, ConfOf DEF Event
            <4>3. IsFiniteSet(Ids) /\ activeList \in Seq(Ids) /\ Of(p).waits \in SUBSET Events
                BY <4>2, IdsAssumption DEF Typed
            <4>4. p \in ToSet(activeList \o Listed(Of(p).waits, p))
                BY <2>1, <4>2, <4>3, ListedOf
            <4> QED
                BY <3>1, <4>1, <4>4
        <3>2. CASE r # p
            <4>1. On("configure", r) # On("configure", p)
                BY <3>2 DEF On
            <4>2. r \in Present
                BY <1>0, <2>1, <2>2, <2>4, <4>1 DEF Present, Configured
            <4> QED
                BY <1>0, <1>1, <4>2 DEF RootsCached
        <3> QED
            BY <3>1, <3>2
    <2> QED
        BY <2>3, <2>4
<1>3. CASE StreamCacheUpdate
    <2>1. Makes({}) /\ Head(todo).op = "cache" /\ todo # <<>>
        BY <1>3, EndsMake DEF StreamCacheUpdate, Running
    <2>2. Rest = {}
        <3>1. Len(conf.files) <= 1
            BY <1>0, <1>1 DEF OneFile
        <3> QED
            BY <1>1, <2>1, <3>1, StackedOf DEF Orderly, FitsOver
    <2>3. InProgress' = {} /\ InProgress = {Head(todo)}
        BY <2>1, <2>2, MakesOf
    <2>4. \A r \in conf.roots : r \in ToSet(activeList)
        <3>1. \A r \in conf.roots : r \in Present
            BY <1>0, <2>1, <2>3, RootOf DEF Present, Configured, Described, On
        <3> QED
            BY <1>1, <3>1 DEF RootsCached
    <2>5. \A r \in conf.roots : r \in ToSet(streamCache'[r].nodes)
        <3>1. ASSUME NEW r \in conf.roots PROVE r \in ToSet(streamCache'[r].nodes)
            <4>1. r \in Ids /\ waitEventMap \subseteq Subscriptions
                BY <1>0, RootOf DEF Typed
            <4>2. streamCache'[r] = IF streamCache[r].nodes = <<>> THEN Stream(r) ELSE streamCache[r]
                BY <1>3, <2>4, <4>1 DEF StreamCacheUpdate
            <4>3. r \in ToSet(Stream(r).nodes)
                BY <4>1, StreamOf
            <4> QED
                BY <4>1, <4>2, <4>3 DEF LeavesLast
        <3> QED
            BY <3>1
    <2> QED
        BY <1>0, <2>3, <2>4, <2>5
<1>4. CASE Step /\ ~Configure /\ ~StreamCacheUpdate
    <2>1. Head(todo).op \notin {"configure", "cache"}
        BY <1>4 DEF Step, Emission, EmitEvent, Delivered, AllHeard, MasterHears, OtherHears, Hears,
            MasterSends, MasterRefused, MasterIdle, DelaySend, CheckerSkipped, Polls, CheckerRecords,
            EndWalk, AskStream, AllAsked, Reset, Answered, Running
    <2>2. \A c : Load(c) => (c \in InProgress' <=> c \in InProgress)
        BY <1>4, <2>1, LoadsNext
    <2>3. Load(Cache) /\ \A p : Load(On("configure", p))
        BY OpsOf DEF Load, Cache
    <2>4. Present' = Present
        BY <1>0, <2>2, <2>3 DEF Present, Configured
    <2>5. streamCache' = streamCache
        BY <1>4, CacheStays DEF Next
    <2> QED
        BY <1>0, <1>1, <2>2, <2>3, <2>4, <2>5 DEF RootsCached, Load
<1>5. CASE Poll \/ \E p \in Ids : Answer(p) \/ Discard(p) \/ ActivateStream(p)
    <2>1. InProgress = {} /\ \A c \in InProgress' : c.op \in {"walk", "answered", "emit"}
        <3>1. ASSUME NEW c, todo' = <<c>> PROVE InProgress' = {c}
            <4>1. DOMAIN <<c>> = {1} /\ <<c>>[1] = c
                OBVIOUS
            <4> QED
                BY <3>1, <4>1 DEF InProgress
        <3>2. CASE Poll
            BY <3>1, <3>2, OpsOf DEF Poll, Quiet, InProgress
        <3>3. ASSUME NEW p \in Ids, Answer(p) \/ Discard(p) \/ ActivateStream(p)
              PROVE  InProgress = {} /\ \A c \in InProgress' : c.op \in {"walk", "answered", "emit"}
            <4>1. InProgress = {}
                BY <3>3 DEF Answer, Discard, ActivateStream, Quiet, InProgress
            <4>2. Discard(p) => InProgress' = InProgress
                BY DEF Discard, InProgress
            <4> QED
                BY <3>1, <3>3, <4>1, <4>2, OpsOf DEF Answer, ActivateStream
        <3> QED
            BY <1>5, <3>2, <3>3
    <2>2. Present' = Present /\ Cache \notin InProgress /\ Cache \notin InProgress'
        BY <1>0, <2>1, OpsOf DEF Present, Configured, Cache
    <2>3. streamCache' = streamCache
        BY <1>5 DEF Poll, Answer, Discard, ActivateStream, streams
    <2> QED
        BY <1>0, <1>1, <2>1, <2>2, <2>3 DEF RootsCached
<1>6. CASE UNCHANGED vars
    <2>1. InProgress' = InProgress /\ activeList' = activeList /\ streamCache' = streamCache
        BY <1>6 DEF vars, InProgress, streams
    <2>2. Present' = Present
        BY <1>0, <2>1 DEF Present, Configured
    <2> QED
        BY <1>0, <1>1, <2>1, <2>2 DEF RootsCached
<1> QED
    BY <1>2, <1>3, <1>4, <1>5, <1>6 DEF Next

\* What a root has yet to be activated for: it awaits its activation, and has done nothing.
Calm(r) == ~HasBegun(r) /\ (r \in Present => Event("ACTIVATION", r) \in waited[r])

LEMMA DormantKeeps ==
    ASSUME Typed, Known', Step, conf' = conf, NEW r \in conf.roots, Dormant(r), Calm(r)'
    PROVE  Dormant(r)'
<1>1. r \in Ids /\ ~Free(r)
    BY RootOf DEF Typed
<1>2. ASSUME NEW c \in InProgress', Wakes(c, r) PROVE FALSE
    <2>1. c \notin InProgress /\ Caused(c) /\ ~Wakes(Head(todo), r)
        BY <1>2, CallsNext DEF Dormant
    <2>2. c.op = "emit" /\ (started'[r] \/ ~Waiting(waited'[r], "PROFILE"))
        BY <1>1, <1>2, <2>1 DEF Caused
    <2>3. c = Emit("ACTIVATION", r)
        BY <1>2, <2>2 DEF Wakes
    <2>4. r \in Present'
        BY <2>3, <1>2, ConcernedOf DEF Known
    <2>5. Waiting(waited'[r], "PROFILE")
        BY <2>4 DEF Calm, Waiting, Event, Category
    <2> QED
        BY <2>2, <2>5 DEF Calm, HasBegun
<1>3. \A c : Wakes(c, r)' <=> Wakes(c, r)
    BY DEF Wakes
<1> QED
    BY <1>2, <1>3 DEF Dormant, Calm

\* A profile that a step leaves alone stays calm.
LEMMA CalmKeeps ==
    ASSUME Typed, Step, conf' = conf, NEW r \in Ids, Calm(r), Head(todo) # On("configure", r),
           waited'[r] = waited[r], started'[r] = started[r], sent'[r] = sent[r],
           terminated'[r] = terminated[r]
    PROVE  Calm(r)'
<1>1. r \in Present' => r \in Present
    BY CallsNext DEF Present, Configured
<1> QED
    BY <1>1 DEF Calm, HasBegun

\* A root sleeps on unless it is being reset.
LEMMA SleepsOn ==
    ASSUME Typed, Known', Step, Sleeping, conf' = conf, NEW r \in conf.roots,
           Head(todo) # On("reset", r), HasPlayed(r) => HasPlayed(r)',
           Dormant(r) => Calm(r)'
    PROVE  HasPlayed(r)' \/ r \in Resetting' \/ Dormant(r)'
<1>1. r \in Resetting => r \in Resetting'
    BY CallsNext DEF Resetting
<1> QED
    BY <1>1, DormantKeeps DEF Sleeping

\* The activation it awaits keeps a root from its work.
LEMMA DormantWaits ==
    ASSUME Typed, NEW r \in Ids, Dormant(r), r \in Present
    PROVE  /\ Waiting(waited[r], "PROFILE") /\ waited[r] # {}
           /\ ~Active(r) /\ ~Ended(r) /\ ~DelayBegun(r)
<1>1. Event("ACTIVATION", r) \in waited[r] /\ ~HasBegun(r)
    BY DEF Dormant
<1>2. Waiting(waited[r], "PROFILE")
    BY <1>1 DEF Waiting, Event, Category
<1>3. ~Ended(r)
    BY <1>1, EndedHasBegun
<1>4. Locked(r)
    BY <1>1, <1>2, <1>3 DEF Locked, Terminates, HasBegun
<1> QED
    BY <1>1, <1>2, <1>3, <1>4 DEF Active, DelayBegun, HasBegun

\* Nor does it hear of its activation.
LEMMA DormantHears ==
    ASSUME Typed, Orderly, Known, NEW r \in Ids, Dormant(r), Hears(r)
    PROVE  /\ r \in Present
           /\ Event("ACTIVATION", r) \in StillWaited(r, Head(todo).event)
           /\ Event("ACTIVATION", r) \in AwaitedBy(r, Head(todo).event)
           /\ Waiting(StillWaited(r, Head(todo).event), "PROFILE")
           /\ ~Starts(r, AwaitedBy(r, Head(todo).event))
<1> DEFINE ev == Head(todo).event
<1>1. /\ Head(todo) \in InProgress /\ Head(todo) \in Calls /\ Head(todo).op = "notify"
      /\ r \in Head(todo).to
    BY RunningOf DEF Hears, Typed
<1>2. r \in Present /\ ~terminated[r]
    BY <1>1 DEF Known, Concerned, Dormant, HasBegun
<1>3. Event("ACTIVATION", r) \in waited[r] /\ ev # Event("ACTIVATION", r)
    BY <1>1, <1>2 DEF Dormant, Wakes
<1>4. ev.type = "TERMINATION" => ev.id # r
    <2>1. ev \in Events
        BY <1>1, CallsAre
    <2>2. ev # Event("TERMINATION", r)
        BY <1>1, <1>2 DEF Orderly, Announced, Tells
    <2>3. ev.type = "TERMINATION" /\ ev.id = r => ev = Event("TERMINATION", r)
        BY <2>1 DEF Events, Event
    <2> QED
        BY <2>2, <2>3
<1>5. Event("ACTIVATION", r) \in StillWaited(r, ev)
    BY <1>3, <1>4 DEF StillWaited, Event
<1>6. Event("ACTIVATION", r) \in AwaitedBy(r, ev)
    BY <1>5 DEF AwaitedBy
<1>7. \A W : Event("ACTIVATION", r) \in W => Waiting(W, "PROFILE")
    BY DEF Waiting, Event, Category
<1> QED
    BY <1>2, <1>5, <1>6, <1>7 DEF Starts

LEMMA SleepingNext ==
    ASSUME Typed, Orderly, Known, Known', RootsCached, Sleeping, [Next]_vars
    PROVE  Sleeping'
<1>0. conf' = conf /\ conf \in Configs
    BY StepsAre DEF Typed
<1>1. SUFFICES ASSUME NEW r \in conf.roots
               PROVE  HasPlayed(r)' \/ r \in Resetting' \/ Dormant(r)'
    BY <1>0 DEF Sleeping
<1>2. r \in Ids /\ ~Free(r) /\ Event("ACTIVATION", r) \in Of(r).waits
    BY <1>0, RootOf
<1>3. /\ waited \in [Ids -> SUBSET Events] /\ sent \in [Ids -> Nat] /\ started \in [Ids -> BOOLEAN]
      /\ terminated \in [Ids -> BOOLEAN]
    BY DEF Typed
<1>4. Dormant(r) => Calm(r) /\ ~started[r] /\ ~terminated[r] /\ ~(sent[r] > 0)
    BY DEF Dormant, Calm, HasBegun
<1>5. ASSUME UNCHANGED <<activeStreams, plays>> PROVE HasPlayed(r) => HasPlayed(r)'
    BY <1>0, <1>5 DEF HasPlayed
<1>6. Step => Head(todo) \in InProgress
    BY CallsNext
<1>7. \A o \in {"emit", "notify", "walk", "streams", "check", "answered", "configure", "cache"} :
          Head(todo).op = o => Head(todo) # On("reset", r)
    BY OpsOf
<1>8. \A o \in {"emit", "notify", "walk", "streams", "check", "answered", "reset", "cache"} :
          Head(todo).op = o => Head(todo) # On("configure", r)
    BY OpsOf
<1>10. CASE Configure
    <2> DEFINE p == Head(todo).profile
    <2>1. p \in Ids /\ Head(todo) = On("configure", p) /\ Head(todo).op = "configure" /\ Step
        BY <1>10, ConfigureMakes, OpsOf DEF Step
    <2>2. UNCHANGED <<activeStreams, plays, sent, terminated>>
        BY <1>10 DEF Configure, streams
    <2>3. /\ waited' = [waited EXCEPT ![p] = Of(p).waits]
          /\ started' = [started EXCEPT ![p] = Free(p) /\ Of(p).role = "master"]
        BY <1>10 DEF Configure, Free
    <2>4. Dormant(r) => Calm(r)'
        <3>1. CASE r = p
            BY <1>2, <1>3, <1>4, <2>1, <2>2, <2>3, <3>1 DEF Calm, HasBegun
        <3>2. CASE r # p
            <4>1. Head(todo) # On("configure", r)
                BY <2>1, <3>2 DEF On
            <4> QED
                BY <1>0, <1>2, <1>3, <1>4, <2>1, <2>2, <2>3, <3>2, <4>1, CalmKeeps
        <3> QED
            BY <3>1, <3>2
    <2> QED
        BY <1>0, <1>5, <1>7, <2>1, <2>2, <2>4, SleepsOn
<1>11. CASE \/ StreamCacheUpdate \/ Emission \/ Delivered \/ CheckerSkipped \/ EndWalk \/ AllAsked
    <2>1. UNCHANGED <<activeStreams, plays, waited, sent, terminated, started>> /\ Step
        BY <1>11 DEF StreamCacheUpdate, Emission, EmitEvent, Delivered, AllHeard, CheckerSkipped, EndWalk,
            AllAsked, busVars, profileVars, streams, Step
    <2>2. Head(todo) # On("reset", r) /\ Head(todo) # On("configure", r)
        BY <1>7, <1>8, <1>11 DEF StreamCacheUpdate, Emission, EmitEvent, Delivered, AllHeard,
            CheckerSkipped, EndWalk, AllAsked, Polls, Running
    <2>3. Dormant(r) => Calm(r)'
        BY <1>0, <1>2, <1>4, <2>1, <2>2, CalmKeeps
    <2> QED
        BY <1>0, <1>5, <2>1, <2>2, <2>3, SleepsOn
<1>12. ASSUME NEW p \in Ids, MasterHears(p) \/ OtherHears(p)
       PROVE  HasPlayed(r)' \/ r \in Resetting' \/ Dormant(r)'
    <2>1. UNCHANGED <<activeStreams, plays, sent, terminated>> /\ Step /\ Hears(p)
        BY <1>12 DEF MasterHears, OtherHears, profileVars, streams, Step
    <2>2. Head(todo) # On("reset", r) /\ Head(todo) # On("configure", r)
        BY <1>7, <1>8, <2>1 DEF Hears, Running
    <2>3. \A q \in Ids \ {p} : waited'[q] = waited[q] /\ started'[q] = started[q]
        BY <1>3, <1>12 DEF MasterHears, OtherHears, profileVars
    <2>4. ASSUME r = p, Dormant(r) PROVE Calm(r)'
        <3>1. /\ Event("ACTIVATION", r) \in StillWaited(r, Head(todo).event)
              /\ Event("ACTIVATION", r) \in AwaitedBy(r, Head(todo).event)
              /\ ~Starts(r, AwaitedBy(r, Head(todo).event))
            BY <1>2, <2>1, <2>4, DormantHears
        <3>2. started'[r] = started[r] /\ Event("ACTIVATION", r) \in waited'[r]
            BY <1>2, <1>3, <1>12, <2>4, <3>1 DEF MasterHears, OtherHears, profileVars
        <3> QED
            BY <1>4, <2>1, <2>4, <3>2 DEF Calm, HasBegun
    <2>5. Dormant(r) => Calm(r)'
        BY <1>0, <1>2, <1>4, <2>1, <2>2, <2>3, <2>4, CalmKeeps
    <2> QED
        BY <1>0, <1>5, <2>1, <2>2, <2>5, SleepsOn
<1>13. ASSUME NEW p \in Ids, p = Polled, MasterSends \/ MasterRefused \/ MasterIdle \/ DelaySend
       PROVE  HasPlayed(r)' \/ r \in Resetting' \/ Dormant(r)'
    <2>1. UNCHANGED <<activeStreams, plays, waited>> /\ Step
        BY <1>13 DEF MasterSends, MasterRefused, MasterIdle, DelaySend, streams, busVars, Step
    <2>2. Head(todo) # On("reset", r) /\ Head(todo) # On("configure", r)
        BY <1>7, <1>8, <1>13 DEF MasterSends, MasterRefused, MasterIdle, DelaySend, Polls, Running
    <2>3. \A q \in Ids \ {p} : started'[q] = started[q] /\ terminated'[q] = terminated[q] /\ sent'[q] = sent[q]
        BY <1>3, <1>13 DEF MasterSends, MasterRefused, MasterIdle, DelaySend, Activated
    <2>4. p \in Present
        BY <1>13, PollsOf DEF MasterSends, MasterRefused, MasterIdle, DelaySend, Known
    <2>5. ASSUME r = p, Dormant(r)
          PROVE  started'[r] = started[r] /\ terminated'[r] = terminated[r] /\ sent'[r] = sent[r]
        <3>1. /\ Waiting(waited[r], "PROFILE") /\ ~Active(r) /\ ~Ended(r) /\ ~DelayBegun(r) /\ ~started[r]
            BY <1>2, <1>4, <2>4, <2>5, DormantWaits
        <3>2. ~MasterSends /\ ~MasterRefused
            BY <1>13, <2>5, <3>1 DEF MasterSends, MasterRefused
        <3>3. CASE MasterIdle
            <4>1. ~Terminates(r, ot[r])
                BY <3>1 DEF Terminates
            <4> QED
                BY <1>2, <1>3, <1>13, <2>5, <3>3, <4>1 DEF MasterIdle
        <3>4. CASE DelaySend
            <4>1. /\ started' = [started EXCEPT ![r] = FALSE]
                  /\ terminated' = [terminated EXCEPT ![r] = terminated[r] \/ FALSE]
                  /\ sent' = sent
                BY <1>13, <2>5, <3>1, <3>4 DEF DelaySend
            <4> QED
                BY <1>2, <1>3, <3>1, <4>1
        <3> QED
            BY <1>13, <3>2, <3>3, <3>4
    <2>6. Dormant(r) => Calm(r)'
        BY <1>0, <1>2, <1>4, <2>1, <2>2, <2>3, <2>5, CalmKeeps
    <2> QED
        BY <1>0, <1>5, <2>1, <2>2, <2>6, SleepsOn
<1>14. ASSUME NEW c \in Ids, CheckerRecords(c)
       PROVE  HasPlayed(r)' \/ r \in Resetting' \/ Dormant(r)'
    <2>1. UNCHANGED <<activeStreams, plays, waited, started, sent>> /\ Step
        BY <1>14 DEF CheckerRecords, streams, busVars, Step
    <2>2. Head(todo) # On("reset", r) /\ Head(todo) # On("configure", r) /\ c \in Present
        <3>1. Head(todo).op = "check" /\ c \in Head(todo).to
            BY <1>14 DEF CheckerRecords, Running
        <3> QED
            BY <1>6, <1>7, <1>8, <2>1, <3>1 DEF Known, Concerned
    <2>3. Dormant(r) => terminated'[r] = terminated[r]
        <3>1. r = c /\ Dormant(r) => waited[r] # {}
            BY <1>2, <2>2, DormantWaits
        <3> QED
            BY <1>2, <1>3, <1>14, <3>1 DEF CheckerRecords
    <2>4. Dormant(r) => Calm(r)'
        BY <1>0, <1>2, <1>4, <2>1, <2>2, <2>3, CalmKeeps
    <2> QED
        BY <1>0, <1>5, <2>1, <2>2, <2>4, SleepsOn
<1>15. ASSUME NEW s \in Ids, AskStream(s)
       PROVE  HasPlayed(r)' \/ r \in Resetting' \/ Dormant(r)'
    <2>1. /\ UNCHANGED <<plays, waited, started, sent, terminated>> /\ Step
          /\ activeStreams' = IF StreamTerminated(s) THEN activeStreams \ {s} ELSE activeStreams
        BY <1>15 DEF AskStream, profileVars, busVars, Step
    <2>2. Head(todo).op = "streams"
        BY <1>15 DEF AskStream, Running
    <2>3. Dormant(r) => Calm(r)'
        BY <1>0, <1>2, <1>4, <1>8, <2>1, <2>2, CalmKeeps
    <2>4. CASE HasPlayed(r) => HasPlayed(r)'
        BY <1>0, <1>7, <2>1, <2>2, <2>3, <2>4, SleepsOn
    <2>5. CASE HasPlayed(r) /\ ~HasPlayed(r)'
        <3>1. conf.autoReset /\ r = s /\ StreamTerminated(s)
            BY <1>0, <2>1, <2>5 DEF HasPlayed
        <3>2. InProgress = {Head(todo)}
            <4>1. todo # <<>> /\ Rest = {}
                BY <2>2, <1>15, StackedOf DEF Orderly, AskStream, Running
            <4> QED
                BY <2>1, <4>1, <1>15, RunningOf DEF AskStream, Typed
        <3>3. Cache \notin InProgress
            BY <2>2, <3>2 DEF Cache
        <3>4. r \in ToSet(streamCache[r].nodes)
            BY <3>1, <3>3 DEF RootsCached
        <3>5. On("reset", r) \in InProgress'
            <4> DEFINE D == {On("reset", q) : q \in ResetNow(s)} \cup {Ask(Head(todo).left \ {s})}
            <4>1. Makes(D)
                BY <1>15, AskStreamMakes
            <4>2. On("reset", r) \in D
                BY <3>1, <3>4 DEF ResetNow
            <4> HIDE DEF D
            <4> QED
                BY <4>1, <4>2, MakesOf
        <3> QED
            BY <1>2, <3>5 DEF Resetting
    <2> QED
        BY <2>4, <2>5
<1>16. CASE Reset
    <2> DEFINE p == Head(todo).profile
    <2>1. p \in Ids /\ Head(todo) = On("reset", p) /\ Head(todo).op = "reset" /\ Step /\ todo # <<>>
        BY <1>16, ResetMakes DEF Step, Reset, Running
    <2>2. UNCHANGED <<activeStreams, plays>>
        BY <1>16 DEF Reset, streams
    <2>3. /\ waited' = [waited EXCEPT ![p] = Of(p).waits]
          /\ started' = [started EXCEPT ![p] = Of(p).role = "master" /\ Free(p)]
          /\ sent' = [sent EXCEPT ![p] = 0]
          /\ terminated' = [terminated EXCEPT ![p] = FALSE]
        BY <1>16 DEF Reset, RetainedWaits, Free
    <2>4. CASE r # p
        <3>1. Head(todo) # On("reset", r)
            BY <2>1, <2>4 DEF On
        <3>2. Dormant(r) => Calm(r)'
            BY <1>0, <1>2, <1>3, <1>4, <1>8, <2>1, <2>3, <2>4, CalmKeeps
        <3> QED
            BY <1>0, <1>5, <2>1, <2>2, <3>1, <3>2, SleepsOn
    <2>5. CASE r = p
        <3>0. waited'[r] = Of(r).waits /\ sent'[r] = 0 /\ terminated'[r] = FALSE /\ ~started'[r]
            BY <1>2, <1>3, <2>3, <2>5
        <3>1. Calm(r)'
            BY <1>2, <3>0 DEF Calm, HasBegun
        <3>2. ASSUME NEW c \in InProgress', Wakes(c, r) PROVE FALSE
            <4>1. c.op \in {"emit", "notify"} /\ ~Wakes(Head(todo), r)
                BY <2>1, <3>2, WakesOf
            <4>2. CASE c \in Rest
                <5>1. Head(todo) \in Calls /\ Rest \subseteq Calls
                    BY <1>16, RunningOf DEF Reset, Typed
                <5>2. FitsOver(Head(todo), c)
                    BY <2>1, <4>2, StackedOf DEF Orderly
                <5>3. FreeStart(c)
                    BY <2>1, <4>1, <5>2 DEF FitsOver, Resets
                <5> QED
                    BY <1>2, <3>2, <5>3, WakesOf DEF FreeStart
            <4>3. CASE Caused(c)
                <5>1. ~Free(r) /\ ~started'[r] /\ Waiting(waited'[r], "PROFILE")
                    BY <1>2, <1>3, <2>3, <2>5 DEF Waiting, Event, Category
                <5> QED
                    BY <1>2, <3>2, <4>1, <4>3, <5>1 DEF Caused
            <4> QED
                BY <2>1, <4>2, <4>3, CallsNext
        <3>3. \A c : Wakes(c, r)' <=> Wakes(c, r)
            BY DEF Wakes
        <3> QED
            BY <3>1, <3>2, <3>3 DEF Calm, Dormant
    <2> QED
        BY <2>4, <2>5
<1>17. CASE Answered
    <2> DEFINE p == Head(todo).profile
    <2>1. /\ p \in Ids /\ Head(todo) = On("answered", p) /\ Head(todo).op = "answered" /\ Step
          /\ UNCHANGED <<activeStreams, plays, waited, started, sent>>
        BY <1>17, AnsweredMakes DEF Step, Answered, streams, busVars
    <2>2. Dormant(r) => terminated'[r] = terminated[r]
        <3>1. ASSUME r = p, Dormant(r) PROVE ~Terminates(r, ot[r])
            <4>1. r \in Present
                BY <1>6, <2>1, <3>1, ConcernedOf DEF Known
            <4> QED
                BY <1>2, <3>1, <4>1, DormantWaits DEF Terminates
        <3> QED
            BY <1>2, <1>3, <1>17, <3>1 DEF Answered
    <2>3. Dormant(r) => Calm(r)'
        BY <1>0, <1>2, <1>4, <1>8, <2>1, <2>2, CalmKeeps
    <2> QED
        BY <1>0, <1>5, <1>7, <2>1, <2>3, SleepsOn
<1>18. ASSUME Poll \/ \E p \in Ids : Answer(p) \/ Discard(p) \/ ActivateStream(p)
       PROVE  HasPlayed(r)' \/ r \in Resetting' \/ Dormant(r)'
    <2>1. InProgress = {}
        BY <1>18 DEF Poll, Answer, Discard, ActivateStream, Quiet, InProgress
    <2>2. r \notin Resetting
        BY <2>1 DEF Resetting
    <2>3. HasPlayed(r) => HasPlayed(r)'
        BY <1>0, <1>18 DEF HasPlayed, Poll, Answer, Discard, ActivateStream, streams, Typed
    <2>4. ASSUME Dormant(r), ~HasPlayed(r)' PROVE Dormant(r)'
        <3>1. ASSUME NEW c, todo' = <<c>> PROVE InProgress' = {c}
            <4>1. DOMAIN <<c>> = {1} /\ <<c>>[1] = c
                OBVIOUS
            <4> QED
                BY <3>1, <4>1 DEF InProgress
        <3>2. /\ UNCHANGED <<waited, terminated, sent>> /\ started'[r] = started[r]
              /\ \A c \in InProgress' : ~Wakes(c, r) /\ c.op # "configure"
            <4>1. CASE Poll
                BY <3>1, <4>1, WakesOf, OpsOf DEF Poll, busVars, profileVars
            <4>2. ASSUME NEW p \in Ids, Answer(p)
                  PROVE  /\ UNCHANGED <<waited, terminated, sent>> /\ started'[r] = started[r]
                         /\ \A c \in InProgress' : ~Wakes(c, r) /\ c.op # "configure"
                BY <3>1, <4>2, WakesOf, OpsOf DEF Answer, busVars
            <4>3. ASSUME NEW p \in Ids, Discard(p)
                  PROVE  /\ UNCHANGED <<waited, terminated, sent>> /\ started'[r] = started[r]
                         /\ \A c \in InProgress' : ~Wakes(c, r) /\ c.op # "configure"
                <5>1. InProgress' = InProgress
                    BY <4>3 DEF Discard, InProgress
                <5> QED
                    BY <2>1, <4>3, <5>1 DEF Discard, busVars, profileVars
            <4>4. ASSUME NEW p \in Ids, ActivateStream(p)
                  PROVE  /\ UNCHANGED <<waited, terminated, sent>> /\ started'[r] = started[r]
                         /\ \A c \in InProgress' : ~Wakes(c, r) /\ c.op # "configure"
                <5>1. p # r
                    BY <1>0, <2>4, <4>4 DEF ActivateStream, HasPlayed, Typed
                <5>2. /\ UNCHANGED <<waited, terminated, sent>> /\ todo' = <<Emit("ACTIVATION", p)>>
                      /\ started' = [started EXCEPT ![p] = TRUE]
                    BY <4>4 DEF ActivateStream, busVars
                <5>3. InProgress' = {Emit("ACTIVATION", p)}
                    BY <3>1, <5>2
                <5>4. ~Wakes(Emit("ACTIVATION", p), r) /\ Emit("ACTIVATION", p).op # "configure"
                    BY <5>1, WakesOf, OpsOf
                <5>5. started'[r] = started[r]
                    BY <1>2, <1>3, <5>1, <5>2
                <5> QED
                    BY <5>2, <5>3, <5>4, <5>5
            <4> QED
                BY <1>18, <4>1, <4>2, <4>3, <4>4
        <3>3. r \in Present' => r \in Present
            BY <1>0, <2>1 DEF Present, Configured
        <3>4. \A c : Wakes(c, r)' <=> Wakes(c, r)
            BY DEF Wakes
        <3> QED
            BY <2>4, <3>2, <3>3, <3>4 DEF Dormant, HasBegun
    <2> QED
        BY <2>2, <2>3, <2>4 DEF Sleeping
<1>19. CASE UNCHANGED vars
    <2>1. /\ InProgress' = InProgress
          /\ UNCHANGED <<conf, waited, started, sent, terminated, activeStreams, plays>>
        BY <1>19 DEF vars, InProgress, busVars, profileVars, streams
    <2>2. Resetting' = Resetting /\ Present' = Present
        BY <2>1 DEF Resetting, Present, Configured
    <2>3. \A c : Wakes(c, r)' <=> Wakes(c, r)
        BY DEF Wakes
    <2> QED
        BY <2>1, <2>2, <2>3 DEF Sleeping, HasPlayed, Dormant, HasBegun
<1>20. MasterSends \/ MasterRefused \/ MasterIdle \/ DelaySend => Polled \in Ids
    BY PollsOf DEF MasterSends, MasterRefused, MasterIdle, DelaySend
<1> QED
    BY <1>10, <1>11, <1>12, <1>13, <1>14, <1>15, <1>16, <1>17, <1>18, <1>19, <1>20 DEF Next, Step

\* Once its leaves have terminated, so have all profiles of a stream, and those
\* they wait for.
LEMMA StreamDone ==
    ASSUME Acyclic, Typed, InTurn, LeavesLast, Resetting = {}, NEW r \in Ids, StreamTerminated(r)
    PROVE  \A n \in ToSet(streamCache[r].nodes) : n \in Ids /\ terminated[n] /\ Ready(n)
<1> DEFINE N == ToSet(streamCache[r].nodes)
<1>1. streamCache[r].nodes \in Seq(Ids)
    BY DEF Typed
<1>2. N \subseteq Ids
    BY <1>1, ToSetOf
<1>3. PICK behind \in [Ids -> 0..Cardinality(Ids)] : \A p, q \in Ids :
          Event("TERMINATION", q) \in Of(p).waits => behind[p] < behind[q]
    BY DEF Acyclic, Typed, Of
<1>6. \A p \in Ids : behind[p] \in Nat
    BY <1>3, FS_CardinalityType, IdsAssumption
<1>4. \A f \in Ids : terminated[f] => Ready(f)
    BY BegunReady DEF HasBegun
<1>5. ASSUME NEW n \in N, ~terminated[n] PROVE FALSE
    <2> DEFINE T == {n2 \in N : ~terminated[n2]}
               R == {behind[x] : x \in T}
    <2>1. R \in SUBSET Nat /\ R # {}
        BY <1>2, <1>6, <1>5
    <2>2. PICK k \in R : \A y \in R : k <= y
        BY <2>1, LeastOf
    <2>3. PICK x \in T : k = behind[x]
        BY <2>2
    <2>4. x \in N /\ ~terminated[x] /\ x \in Ids
        BY <1>2, <2>3
    <2>5. x \notin streamCache[r].leaves
        BY <2>4 DEF StreamTerminated
    <2>6. PICK f \in N : f \in Ids /\ x \in Partners(f)
        BY <2>4, <2>5 DEF LeavesLast
    <2>7. behind[f] < behind[x]
        BY <1>3, <2>4, <2>6 DEF Partners
    <2>8. terminated[f]
        <3>1. f \notin T
            <4>1. f \in T => behind[x] <= behind[f]
                BY <2>2, <2>3
            <4>2. behind[x] \in Nat /\ behind[f] \in Nat
                BY <1>6, <2>4, <2>6
            <4> QED
                BY <2>7, <4>1, <4>2
        <3> QED
            BY <2>6, <3>1
    <2> QED
        BY <1>4, <2>4, <2>6, <2>8 DEF Ready
<1> QED
    BY <1>2, <1>4, <1>5

LEMMA WatchedPartner ==
    ASSUME conf \in Configs, NEW c, NEW m, Watches(c, m)
    PROVE  m \in Partners(c) /\ Of(c).role = "checker"
<1>1. /\ Of(c).role # "checker" => Of(c).watches = {}
      /\ \A q \in Of(c).watches : Event("TERMINATION", q) \in Of(c).waits
    BY ConfigsAssumption DEF Watches, Of
<1> QED
    BY <1>1 DEF Watches, Partners

LEMMA IdleNext ==
    ASSUME Acyclic, Typed, Orderly, InTurn, AtEnd, LeavesLast, Idle, [Next]_vars
    PROVE  Idle'
<1>0. conf' = conf /\ conf \in Configs
    BY StepsAre DEF Typed
<1>1. /\ \A p : Master(p)' <=> Master(p)
      /\ \A p, m : Watches(p, m)' <=> Watches(p, m)
    BY <1>0 DEF Master, Watches, Of
<1>2. ASSUME Resetting' \subseteq Resetting, Resetting = {} \/ ot' = ot PROVE Idle'
    BY <1>1, <1>2 DEF Idle
<1>3. ASSUME Step, Head(todo).op \notin {"reset", "streams"} PROVE Resetting' \subseteq Resetting
    BY <1>3, CallsNext, OpsOf DEF Resetting, Caused
<1>4. CASE MasterSends \/ \E c \in Ids : CheckerRecords(c)
    <2>1. Step /\ Head(todo).op \in {"walk", "check"} /\ todo # <<>>
        BY <1>4 DEF MasterSends, CheckerRecords, Polls, Running, Step
    <2> QED
        BY <1>2, <1>3, <2>1, NoneResetting
<1>5. CASE \/ Configure \/ StreamCacheUpdate \/ Emission \/ Delivered \/ MasterRefused \/ MasterIdle
           \/ DelaySend \/ CheckerSkipped \/ EndWalk \/ Answered
           \/ \E p \in Ids : MasterHears(p) \/ OtherHears(p)
    <2>1. ot' = ot /\ Step
        BY <1>5 DEF Step, Configure, StreamCacheUpdate, Emission, Delivered, MasterRefused, MasterIdle,
            DelaySend, CheckerSkipped, EndWalk, Answered, MasterHears, OtherHears, profileVars
    <2>2. Head(todo).op \notin {"reset", "streams"}
        BY <1>5 DEF Configure, StreamCacheUpdate, Emission, EmitEvent, Delivered, AllHeard, MasterRefused,
            MasterIdle, DelaySend, CheckerSkipped, EndWalk, Answered, MasterHears, OtherHears, Hears,
            Polls, Running
    <2> QED
        BY <1>2, <1>3, <2>1, <2>2
<1>6. CASE AllAsked
    <2>1. Makes({}) /\ ot' = ot
        BY <1>6, EndsMake DEF AllAsked, profileVars
    <2>2. Resetting' \subseteq Resetting
        BY <2>1, MakesOf DEF Resetting
    <2> QED
        BY <1>2, <2>1, <2>2
<1>7. ASSUME NEW r \in Ids, AskStream(r) PROVE Idle'
    <2> DEFINE D == {On("reset", q) : q \in ResetNow(r)} \cup {Ask(Head(todo).left \ {r})}
    <2>1. Makes(D) /\ Head(todo).op = "streams" /\ todo # <<>> /\ ot' = ot
        BY <1>7, AskStreamMakes DEF AskStream, Running, profileVars
    <2>2. Rest = {}
        BY <2>1, StackedOf DEF Orderly
    <2>3. \A p : On("reset", p) \in D => p \in ResetNow(r)
        <3>1. \A p, q : On("reset", p) = On("reset", q) => p = q
            BY DEF On
        <3>2. \A p : On("reset", p) # Ask(Head(todo).left \ {r})
            BY OpsOf
        <3> QED
            BY <3>1, <3>2
    <2> HIDE DEF D
    <2>4. InProgress' = D /\ InProgress = {Head(todo)}
        BY <2>1, <2>2, MakesOf
    <2>5. Resetting = {}
        BY <2>1, <2>4, OpsOf DEF Resetting
    <2>6. Resetting' \subseteq ResetNow(r)
        BY <2>3, <2>4 DEF Resetting
    <2>7. ASSUME NEW p \in ResetNow(r) PROVE p \in Ids /\ terminated[p] /\ Ready(p)
        BY <1>7, <2>5, <2>7, StreamDone DEF ResetNow
    <2>8. ASSUME NEW p \in ResetNow(r), NEW m \in Ids, Watches(p, m), Master(m) PROVE ot[m] = 0
        <3>1. terminated[m]
            BY <1>0, <2>7, <2>8, WatchedPartner DEF Ready
        <3> QED
            BY <2>8, <3>1 DEF AtEnd
    <2>9. ASSUME NEW p \in ResetNow(r), Master(p) PROVE ot[p] = 0
        BY <2>7, <2>9 DEF AtEnd
    <2> QED
        BY <1>1, <2>1, <2>6, <2>8, <2>9 DEF Idle
<1>8. CASE Reset
    <2> DEFINE p == Head(todo).profile
               D == {On("reset", c) : c \in CheckersOf(p)}
                    \cup (IF Free(p) THEN {Emit("ACTIVATION", p)} ELSE {})
    <2>1. p \in Ids /\ Makes(D) /\ Head(todo) = On("reset", p)
        BY <1>8, ResetMakes
    <2>2. ot' = [ot EXCEPT ![p] = 0] /\ ot \in [Ids -> Int]
        BY <1>8 DEF Reset, Typed
    <2>3. \A q : On("reset", q) \in D => q \in CheckersOf(p)
        <3>1. \A q, c : On("reset", q) = On("reset", c) => q = c
            BY DEF On
        <3>2. \A q : On("reset", q) # Emit("ACTIVATION", p)
            BY OpsOf
        <3> QED
            BY <3>1, <3>2
    <2> HIDE DEF D, p
    <2>4. Resetting' \subseteq Resetting \cup CheckersOf(p)
        BY <2>1, <2>3, MakesOf DEF Resetting
    <2>5. \A q \in Ids : ot[q] = 0 => ot'[q] = 0
        BY <2>1, <2>2
    <2>6. ot'[p] = 0
        BY <2>1, <2>2
    <2>7. ASSUME NEW c \in CheckersOf(p) PROVE c \in Ids /\ ~Master(c) /\ \A m : Watches(c, m) => m = p
        <3>1. c \in Ids /\ p \in Of(c).watches
            BY <2>7 DEF CheckersOf
        <3>2. Of(c).role = "checker"
            BY <1>0, <3>1, ConfigsAssumption DEF Of
        <3> QED
            BY <3>1, <3>2 DEF Master, Watches
    <2>8. ASSUME NEW q \in Resetting'
          PROVE  /\ Master(q) => ot'[q] = 0
                 /\ \A m \in Ids : Watches(q, m) /\ Master(m) => ot'[m] = 0
        <3>1. CASE q \in Resetting
            BY <2>5, <3>1 DEF Idle, Resetting
        <3>2. CASE q \in CheckersOf(p)
            BY <2>6, <2>7, <3>2
        <3> QED
            BY <2>4, <2>8, <3>1, <3>2
    <2> QED
        BY <1>1, <2>8 DEF Idle
<1>9. CASE Poll \/ \E p \in Ids : Answer(p) \/ Discard(p) \/ ActivateStream(p)
    <2>1. Resetting' = {}
        <3>1. ASSUME NEW c, todo' = <<c>>, c.op # "reset" PROVE Resetting' = {}
            <4>1. DOMAIN <<c>> = {1} /\ <<c>>[1] = c
                OBVIOUS
            <4>2. InProgress' = {c}
                BY <3>1, <4>1 DEF InProgress
            <4> QED
                BY <3>1, <4>2, OpsOf DEF Resetting
        <3>2. CASE Poll
            BY <3>1, <3>2, OpsOf DEF Poll
        <3>3. ASSUME NEW p \in Ids, Answer(p) \/ ActivateStream(p) PROVE Resetting' = {}
            BY <3>1, <3>3, OpsOf DEF Answer, ActivateStream
        <3>4. ASSUME NEW p \in Ids, Discard(p) PROVE Resetting' = {}
            BY <3>4 DEF Discard, Quiet, Resetting, InProgress
        <3> QED
            BY <1>9, <3>2, <3>3, <3>4
    <2> QED
        BY <2>1 DEF Idle
<1>10. CASE UNCHANGED vars
    <2>1. Resetting' = Resetting /\ ot' = ot
        BY <1>10 DEF vars, profileVars, Resetting, InProgress
    <2> QED
        BY <1>2, <2>1
<1> QED
    BY <1>4, <1>5, <1>6, <1>7, <1>8, <1>9, <1>10 DEF Next, Step

\* What is said of the counts of a checker and the master it watches.
Counting(c, m) ==
    /\ Checking("send", c) => ot[c] + 1 = ot[m] /\ ~terminated[m]
    /\ Hearing(c, m) => ot[c] = ot[m] + 1
    /\ ~Checking("send", c) /\ ~Hearing(c, m) => ot[c] = ot[m]

Counts(x) == x.op \in {"check", "answered"}

LEMMA RecordedSame ==
    ASSUME Recorded, UNCHANGED <<conf, ot, terminated>>,
           \A x : Counts(x) => (x \in InProgress' <=> x \in InProgress)
    PROVE  Recorded'
<1>1. \A c, m : Followed(c, m)' <=> Followed(c, m)
    BY DEF Followed, Watches, Master, Of
<1>2. \A k, c : Checking(k, c)' <=> Checking(k, c)
    BY DEF Checking, Counts
<1>3. \A m : On("answered", m) \in InProgress' <=> On("answered", m) \in InProgress
    BY OpsOf DEF Counts
<1> QED
    BY <1>1, <1>2, <1>3 DEF Recorded, Hearing

\* While no packet is on its way to a checker, the counts are the same.
LEMMA NoneCounted ==
    ASSUME \A x \in InProgress : ~Counts(x)
    PROVE  \A c, m : Counting(c, m) <=> ot[c] = ot[m]
<1>1. \A k, c : ~Checking(k, c)
    BY DEF Checking, Counts
<1>2. \A m : On("answered", m) \notin InProgress
    BY OpsOf DEF Counts
<1> QED
    BY <1>1, <1>2 DEF Counting, Hearing

LEMMA RecordedIs == Recorded <=> \A c, m \in Ids : Followed(c, m) => Counting(c, m)
    BY DEF Recorded, Counting

LEMMA RecordedNone ==
    ASSUME Recorded, UNCHANGED <<conf, ot>>, \A x \in InProgress : ~Counts(x),
           \A x \in InProgress' : ~Counts(x)
    PROVE  Recorded'
<1>1. \A c, m : Followed(c, m)' <=> Followed(c, m)
    BY DEF Followed, Watches, Master, Of
<1>2. \A k, c : ~Checking(k, c) /\ ~Checking(k, c)'
    BY DEF Checking, Counts
<1>3. \A m : On("answered", m) \notin InProgress /\ On("answered", m) \notin InProgress'
    BY OpsOf DEF Counts
<1> QED
    BY <1>1, <1>2, <1>3 DEF Recorded, Hearing

\* The call of a walk runs alone.
LEMMA WalksAlone ==
    ASSUME Typed, Orderly, todo # <<>>, Head(todo).op \in {"walk", "answered", "streams"}
    PROVE  InProgress = {Head(todo)} /\ \A D : Makes(D) => InProgress' = D
<1>1. Rest = {}
    BY StackedOf DEF Orderly
<1>2. InProgress = {Head(todo)} \cup Rest
    BY RunningOf DEF Running, Typed
<1> QED
    BY <1>1, <1>2, MakesOf

LEMMA FollowedOf ==
    ASSUME conf \in Configs, NEW c \in Ids, NEW m \in Ids, Followed(c, m)
    PROVE  /\ c # m /\ Master(m) /\ ~Master(c) /\ m \in Partners(c) /\ Watches(c, m)
           /\ \A p \in Ids : c \in CheckersOf(p) <=> p = m
<1>1. m \in Partners(c)
    BY WatchedPartner DEF Followed
<1> QED
    BY <1>1 DEF Followed, Watches, Master, CheckersOf

LEMMA RecordedSends ==
    ASSUME Typed, Orderly, AtEnd, Recorded, MasterSends
    PROVE  Recorded'
<1> DEFINE p == Polled
           D == (IF ~started[p] THEN {Emit("ACTIVATION", p)} ELSE {})
                \cup {Emit("PROFILE_UNLOCKED", p)}
                \cup (IF CheckersOf(p) = {} THEN {} ELSE {Check("send", CheckersOf(p))})
                \cup {Head(todo)}
<1>1. p \in Ids /\ Of(p).role = "master" /\ Head(todo).op = "walk" /\ Makes(D) /\ todo # <<>>
    BY MasterSendsMakes DEF MasterSends, Polls, Running
<1>2. InProgress = {Head(todo)} /\ InProgress' = D
    BY <1>1, WalksAlone
<1>3. conf' = conf /\ conf \in Configs /\ terminated' = terminated /\ ot \in [Ids -> Int]
    BY DEF MasterSends, Typed
<1>4. ot' = IF Of(p).posted THEN ot ELSE [ot EXCEPT ![p] = @ + 1]
    BY DEF MasterSends
<1>5. ~terminated[p]
    BY <1>1 DEF MasterSends, Active, AtEnd, Master
<1>6. /\ \A k, U : Check(k, U).kind = k /\ Check(k, U).to = U /\ Check(k, U).op = "check"
      /\ \A t, q : Emit(t, q).op = "emit"
    BY OpsOf DEF Check
<1>7. \A k, c : Checking(k, c)' <=> k = "send" /\ c \in CheckersOf(p)
    BY <1>1, <1>2, <1>6 DEF Checking
<1>8. \A m : On("answered", m) \notin InProgress'
    BY <1>1, <1>2, <1>6, OpsOf
<1>9. \A x \in InProgress : ~Counts(x)
    BY <1>1, <1>2 DEF Counts
<1> HIDE DEF p, D
<1>10. ASSUME NEW c \in Ids, NEW m \in Ids, Followed(c, m) PROVE Counting(c, m)'
    <2>1. /\ c # m /\ ~Master(c) /\ (c \in CheckersOf(p) <=> p = m) /\ ~Of(m).posted
        BY <1>1, <1>3, <1>10, FollowedOf DEF Followed
    <2>2. ot[c] = ot[m]
        BY <1>9, <1>10, RecordedIs, NoneCounted
    <2>3. c # p /\ ot'[c] = ot[c] /\ ot'[m] = IF m = p THEN ot[m] + 1 ELSE ot[m]
        BY <1>1, <1>3, <1>4, <2>1 DEF Master
    <2>4. CASE m = p
        BY <1>3, <1>5, <1>7, <1>8, <2>1, <2>2, <2>3, <2>4 DEF Counting, Hearing
    <2>5. CASE m # p
        BY <1>7, <1>8, <2>1, <2>2, <2>3, <2>5 DEF Counting, Hearing
    <2> QED
        BY <2>4, <2>5
<1>11. \A c, m : Followed(c, m)' <=> Followed(c, m)
    BY <1>3 DEF Followed, Watches, Master, Of
<1> QED
    BY <1>10, <1>11 DEF Recorded, Counting

LEMMA RecordedRecords ==
    ASSUME Typed, Orderly, Known, InTurn, Checkers, Recorded, NEW d \in Ids, CheckerRecords(d)
    PROVE  Recorded'
<1> DEFINE k == Head(todo).kind
           to == Head(todo).to
           D == (IF waited[d] = {} /\ ~terminated[d] THEN {Emit("TERMINATION", d)} ELSE {})
                \cup (IF to \ {d} = {} THEN {} ELSE {Check(k, to \ {d})})
<1>1. k \in {"send", "receive"} /\ to \subseteq Ids /\ d \in to /\ Head(todo).op = "check" /\ Makes(D)
    BY CheckerRecordsMakes
<1>2. InProgress' = D \cup Rest /\ InProgress = {Head(todo)} \cup Rest
    BY <1>1, MakesOf
<1>3. /\ conf' = conf /\ conf \in Configs /\ ot \in [Ids -> Int] /\ terminated \in [Ids -> BOOLEAN]
      /\ \A q \in Ids \ {d} : ot'[q] = ot[q] /\ terminated'[q] = terminated[q]
    BY DEF CheckerRecords, Typed
<1>4. \A x \in Rest : ~Counts(x)
    <2>1. todo # <<>>
        BY DEF CheckerRecords, Running
    <2>2. \A x \in Rest : FitsOver(Head(todo), x)
        BY <2>1, StackedOf DEF Orderly
    <2> QED
        BY <1>1, <2>2 DEF FitsOver, Counts
<1>5. /\ \A kind, U : Check(kind, U).kind = kind /\ Check(kind, U).to = U /\ Check(kind, U).op = "check"
      /\ \A t, q : Emit(t, q).op = "emit"
    BY OpsOf DEF Check
<1>6. \A kind, c : Checking(kind, c) <=> kind = k /\ c \in to
    BY <1>1, <1>2, <1>4 DEF Checking, Counts
<1>7. \A kind, c : Checking(kind, c)' <=> kind = k /\ c \in to \ {d}
    BY <1>2, <1>4, <1>5 DEF Checking, Counts
<1>8. \A m : On("answered", m) \notin InProgress /\ On("answered", m) \notin InProgress'
    BY <1>1, <1>2, <1>4, <1>5, OpsOf DEF Counts
<1>9. ot'[d] = IF k = "receive" THEN ot[d] - 1 ELSE IF waited[d] # {} THEN ot[d] + 1 ELSE ot[d]
    BY <1>3, RecordsOf
<1>10. ~Master(d) /\ d \in Present /\ d \notin Resetting
    <2>1. Head(todo) \in InProgress
        BY <1>2
    <2>2. Of(d).role = "checker"
        BY <1>1, <2>1 DEF Checkers
    <2>3. Resetting = {}
        BY <1>1, NoneResetting DEF CheckerRecords, Running
    <2> QED
        BY <1>1, <2>1, <2>2, <2>3 DEF Master, Known, Concerned
<1> HIDE DEF k, to, D
<1>11. ASSUME NEW c \in Ids, NEW m \in Ids, Followed(c, m) PROVE Counting(c, m)'
    <2>1. c # m /\ Master(m) /\ m \in Partners(c)
        BY <1>3, <1>11, FollowedOf
    <2>2. m # d /\ ot'[m] = ot[m] /\ terminated'[m] = terminated[m]
        BY <1>3, <1>10, <2>1
    <2>3. Counting(c, m)
        BY <1>11, RecordedIs
    <2>4. CASE c # d
        <3>1. ot'[c] = ot[c]
            BY <1>3, <2>4
        <3> QED
            BY <1>6, <1>7, <1>8, <2>2, <2>3, <2>4, <3>1 DEF Counting, Hearing
    <2>5. CASE c = d
        <3>1. k = "receive" => ot[d] = ot[m] + 1
            BY <1>1, <1>6, <2>3, <2>5 DEF Counting, Hearing
        <3>2. k = "send" => ot[d] + 1 = ot[m] /\ ~terminated[m]
            BY <1>1, <1>6, <2>3, <2>5 DEF Counting
        <3>3. k = "send" => waited[d] # {}
            BY <1>10, <2>1, <2>5, <3>2 DEF InTurn, Kept
        <3>4. ot[d] \in Int /\ ot[m] \in Int
            BY <1>3
        <3>5. ot'[d] = ot[m]
            BY <1>1, <1>9, <3>1, <3>2, <3>3, <3>4
        <3> QED
            BY <1>7, <1>8, <2>2, <2>5, <3>5 DEF Counting, Hearing
    <2> QED
        BY <2>4, <2>5
<1>12. \A c, m : Followed(c, m)' <=> Followed(c, m)
    BY <1>3 DEF Followed, Watches, Master, Of
<1> QED
    BY <1>11, <1>12 DEF Recorded, Counting

LEMMA RecordedAnswer ==
    ASSUME Typed, Owed, Recorded, NEW p \in Ids, Answer(p)
    PROVE  Recorded'
<1>1. InProgress = {} /\ InProgress' = {On("answered", p)}
    <2>1. DOMAIN <<On("answered", p)>> = {1} /\ <<On("answered", p)>>[1] = On("answered", p)
        OBVIOUS
    <2> QED
        BY <2>1 DEF Answer, Quiet, InProgress
<1>2. /\ conf' = conf /\ conf \in Configs /\ ot \in [Ids -> Int]
      /\ ot' = [ot EXCEPT ![p] = @ - 1] /\ Master(p)
    BY DEF Answer, Typed, Owed
<1>3. \A k, c : ~Checking(k, c)'
    BY <1>1, OpsOf DEF Checking
<1>4. \A m : On("answered", m) \in InProgress' <=> m = p
    BY <1>1 DEF On
<1>5. ASSUME NEW c \in Ids, NEW m \in Ids, Followed(c, m) PROVE Counting(c, m)'
    <2>1. c # m /\ ~Master(c)
        BY <1>2, <1>5, FollowedOf
    <2>2. ot[c] = ot[m]
        BY <1>1, <1>5, RecordedIs, NoneCounted
    <2>3. ot'[c] = ot[c] /\ ot'[m] = IF m = p THEN ot[m] - 1 ELSE ot[m]
        BY <1>2, <2>1
    <2>4. ot[m] \in Int
        BY <1>2
    <2> QED
        BY <1>3, <1>4, <2>2, <2>3, <2>4 DEF Counting, Hearing
<1>6. \A c, m : Followed(c, m)' <=> Followed(c, m)
    BY <1>2 DEF Followed, Watches, Master, Of
<1> QED
    BY <1>5, <1>6 DEF Recorded, Counting

LEMMA RecordedAnswered ==
    ASSUME Typed, Orderly, Recorded, Answered
    PROVE  Recorded'
<1> DEFINE p == Head(todo).profile
           D == (IF Terminates(p, ot[p]) THEN {Emit("TERMINATION", p)} ELSE {})
                \cup (IF CheckersOf(p) = {} THEN {} ELSE {Check("receive", CheckersOf(p))})
<1>1. p \in Ids /\ Head(todo) = On("answered", p) /\ Head(todo).op = "answered" /\ Makes(D) /\ todo # <<>>
    BY AnsweredMakes DEF Answered, Running
<1>2. InProgress = {On("answered", p)} /\ InProgress' = D
    BY <1>1, WalksAlone
<1>3. conf' = conf /\ conf \in Configs /\ ot' = ot
    BY DEF Answered, Typed
<1>4. /\ \A k, U : Check(k, U).kind = k /\ Check(k, U).to = U /\ Check(k, U).op = "check"
      /\ \A t, q : Emit(t, q).op = "emit"
    BY OpsOf DEF Check
<1>5. \A k, c : ~Checking(k, c) /\ (Checking(k, c)' <=> k = "receive" /\ c \in CheckersOf(p))
    BY <1>2, <1>4, OpsOf DEF Checking
<1>6. \A m : (On("answered", m) \in InProgress <=> m = p) /\ On("answered", m) \notin InProgress'
    BY <1>2, <1>4, OpsOf DEF On
<1> HIDE DEF p, D
<1>7. ASSUME NEW c \in Ids, NEW m \in Ids, Followed(c, m) PROVE Counting(c, m)'
    <2>1. c \in CheckersOf(p) <=> p = m
        BY <1>1, <1>3, <1>7, FollowedOf
    <2>2. Counting(c, m)
        BY <1>7, RecordedIs
    <2> QED
        BY <1>3, <1>5, <1>6, <2>1, <2>2 DEF Counting, Hearing
<1>8. \A c, m : Followed(c, m)' <=> Followed(c, m)
    BY <1>3 DEF Followed, Watches, Master, Of
<1> QED
    BY <1>7, <1>8 DEF Recorded, Counting

LEMMA RecordedReset ==
    ASSUME Typed, Orderly, Idle, Recorded, Reset
    PROVE  Recorded'
<1> DEFINE p == Head(todo).profile
<1>1. /\ p \in Ids /\ Head(todo) = On("reset", p) /\ Head(todo).op = "reset" /\ todo # <<>>
      /\ Head(todo) \in InProgress /\ Step
    BY ResetMakes, CallsNext DEF Reset, Running, Step
<1>2. conf' = conf /\ conf \in Configs /\ ot' = [ot EXCEPT ![p] = 0] /\ ot \in [Ids -> Int]
    BY DEF Reset, Typed
<1>3. p \in Resetting
    BY <1>1 DEF Resetting
<1>4. \A x \in Rest : ~Counts(x)
    <2>1. \A x \in Rest : x.op \in {"reset", "streams", "emit"}
        BY <1>1, ResetRest DEF Orderly
    <2> QED
        BY <2>1 DEF Counts
<1>5. (\A x \in InProgress : ~Counts(x)) /\ \A x \in InProgress' : ~Counts(x)
    <2>1. InProgress = {Head(todo)} \cup Rest
        BY <1>1, RunningOf DEF Reset, Typed
    <2>2. \A x \in InProgress' : x \in Rest \/ Caused(x)
        BY <1>1, CallsNext
    <2>3. ~Counts(Head(todo)) /\ \A x : Caused(x) => ~Counts(x)
        BY <1>1 DEF Counts, Caused
    <2> QED
        BY <1>4, <2>1, <2>2, <2>3
<1> HIDE DEF p
<1>6. ASSUME NEW c \in Ids, NEW m \in Ids, Followed(c, m) PROVE ot'[c] = ot'[m]
    <2>1. c # m /\ Master(m) /\ Watches(c, m)
        BY <1>2, <1>6, FollowedOf
    <2>2. ot[c] = ot[m]
        BY <1>5, <1>6, RecordedIs, NoneCounted
    <2>3. CASE p = c
        BY <1>2, <1>3, <2>1, <2>2, <2>3 DEF Idle
    <2>4. CASE p = m
        BY <1>2, <1>3, <2>1, <2>2, <2>4 DEF Idle
    <2>5. CASE p # c /\ p # m
        BY <1>2, <2>2, <2>5
    <2> QED
        BY <2>3, <2>4, <2>5
<1>7. \A k, c : ~Checking(k, c)'
    BY <1>5 DEF Checking, Counts
<1>8. \A m : On("answered", m) \notin InProgress'
    BY <1>5, OpsOf DEF Counts
<1>9. \A c, m : Followed(c, m)' <=> Followed(c, m)
    BY <1>2 DEF Followed, Watches, Master, Of
<1> QED
    BY <1>6, <1>7, <1>8, <1>9 DEF Recorded, Hearing

LEMMA RecordedWalks ==
    ASSUME Typed, Orderly, Recorded,
           MasterRefused \/ MasterIdle \/ DelaySend \/ CheckerSkipped \/ EndWalk
    PROVE  Recorded'
<1>1. conf' = conf /\ ot' = ot
    BY DEF MasterRefused, MasterIdle, DelaySend, CheckerSkipped, EndWalk, profileVars
<1>2. Head(todo).op = "walk" /\ todo # <<>>
    BY DEF MasterRefused, MasterIdle, DelaySend, CheckerSkipped, EndWalk, Polls, Running
<1>3. \E D : Makes(D) /\ \A x \in D : ~Counts(x)
    <2>0. /\ \A t, p : ~Counts(Emit(t, p))
          /\ \A n : ~Counts(Walk(n))
          /\ \A U : ~Counts(Ask(U))
        BY OpsOf DEF Counts
    <2> DEFINE p == Polled
    <2>1. CASE MasterRefused
        <3> DEFINE C == (IF ~started[p] THEN {Emit("ACTIVATION", p)} ELSE {}) \cup {Emit("PROFILE_LOCKED", p)}
        <3>1. PICK n \in Nat \ {0} : Makes(C \cup {Walk(n)})
            BY <2>1, MasterRefusedMakes
        <3>2. \A x \in C : ~Counts(x)
            BY <2>0
        <3> HIDE DEF C
        <3> QED
            BY <2>0, <3>1, <3>2
    <2>2. CASE MasterIdle
        <3> DEFINE C == IF Terminates(p, ot[p]) THEN {Emit("TERMINATION", p)}
                        ELSE IF terminated[p] THEN {} ELSE {Emit("PROFILE_LOCKED", p)}
        <3>1. PICK n \in Nat \ {0} : Makes(C \cup {Walk(n)})
            BY <2>2, MasterIdleMakes
        <3>2. \A x \in C : ~Counts(x)
            BY <2>0
        <3> HIDE DEF C
        <3> QED
            BY <2>0, <3>1, <3>2
    <2>3. CASE DelaySend
        <3> DEFINE C == (IF DelayBegun(p) /\ ~started[p] THEN {Emit("ACTIVATION", p)} ELSE {})
                        \cup (IF DelayEnds(p) THEN {Emit("TERMINATION", p)} ELSE {})
        <3>1. PICK n \in Nat \ {0} : Makes(C \cup {Walk(n)})
            BY <2>3, DelaySendMakes
        <3>2. \A x \in C : ~Counts(x)
            BY <2>0
        <3> HIDE DEF C
        <3> QED
            BY <2>0, <3>1, <3>2
    <2>4. CASE CheckerSkipped
        <3>1. PICK n \in Nat \ {0} : Makes({Walk(n)})
            BY <2>4, CheckerSkippedMakes
        <3> QED
            BY <2>0, <3>1
    <2>5. CASE EndWalk
        BY <2>0, <2>5, EndWalkMakes
    <2> QED
        BY <2>1, <2>2, <2>3, <2>4, <2>5
<1>4. (\A x \in InProgress : ~Counts(x)) /\ \A x \in InProgress' : ~Counts(x)
    BY <1>2, <1>3, WalksAlone DEF Counts
<1> QED
    BY <1>1, <1>4, RecordedNone

LEMMA RecordedNext ==
    ASSUME Typed, Orderly, Known, InTurn, Checkers, Owed, AtEnd, Idle, Recorded, [Next]_vars
    PROVE  Recorded'
<1>0. conf' = conf
    BY StepsAre
<1>1. CASE \/ Configure \/ StreamCacheUpdate \/ Emission \/ Delivered \/ AllAsked
           \/ \E p \in Ids : MasterHears(p) \/ OtherHears(p) \/ AskStream(p)
    <2>1. UNCHANGED <<ot, terminated>> /\ Step
        BY <1>1 DEF Step, Configure, StreamCacheUpdate, Emission, Delivered, AllAsked, MasterHears,
            OtherHears, AskStream, profileVars
    <2>2. Head(todo).op \notin {"walk", "check", "answered"}
        BY <1>1 DEF Configure, StreamCacheUpdate, Emission, EmitEvent, Delivered, AllHeard, AllAsked,
            MasterHears, OtherHears, Hears, AskStream, Running
    <2>3. \A x : Counts(x) => ~Caused(x) /\ x # Head(todo)
        BY <2>2 DEF Counts, Caused
    <2>4. \A x : Counts(x) => (x \in InProgress' <=> x \in InProgress)
        BY <2>1, <2>3, CallsNext
    <2> QED
        BY <1>0, <2>1, <2>4, RecordedSame
<1>2. CASE Poll
    <2>1. DOMAIN <<Walk(1)>> = {1} /\ <<Walk(1)>>[1] = Walk(1)
        OBVIOUS
    <2>2. InProgress = {} /\ InProgress' = {Walk(1)} /\ ot' = ot
        BY <1>2, <2>1 DEF Poll, Quiet, InProgress, profileVars
    <2> QED
        BY <1>0, <2>2, RecordedNone, OpsOf DEF Counts
<1>3. ASSUME NEW p \in Ids, ActivateStream(p) PROVE Recorded'
    <2>1. DOMAIN <<Emit("ACTIVATION", p)>> = {1} /\ <<Emit("ACTIVATION", p)>>[1] = Emit("ACTIVATION", p)
        OBVIOUS
    <2>2. InProgress = {} /\ InProgress' = {Emit("ACTIVATION", p)} /\ ot' = ot
        BY <1>3, <2>1 DEF ActivateStream, Quiet, InProgress
    <2> QED
        BY <1>0, <2>2, RecordedNone, OpsOf DEF Counts
<1>4. CASE UNCHANGED vars \/ \E p \in Ids : Discard(p)
    <2>1. UNCHANGED <<ot, terminated>> /\ InProgress' = InProgress
        BY <1>4 DEF Discard, vars, profileVars, InProgress
    <2> QED
        BY <1>0, <2>1, RecordedSame
<1> QED
    BY <1>1, <1>2, <1>3, <1>4, RecordedSends, RecordedRecords, RecordedAnswer, RecordedAnswered,
       RecordedReset, RecordedWalks DEF Next, Step

LEMMA SettledInit == Init => Settled
<1> SUFFICES ASSUME Init PROVE Settled
    OBVIOUS
<1>1. conf \in Configs /\ conf.files \in Seq(Seq(Ids))
    BY ConfigsAssumption DEF Init, Configuration
<1>2. InProgress = ToSet(Loading(conf.files))
    BY DEF InProgress, ToSet, Init
<1>3. \A c \in InProgress : c.op \in {"configure", "cache"}
    BY <1>1, <1>2, LoadingOf DEF On, Cache
<1>4. \A f \in DOMAIN conf.files : Cache \in InProgress
                                   /\ \A p \in ToSet(conf.files[f]) : On("configure", p) \in InProgress
    BY <1>1, <1>2, LoadingOf
<1>5. /\ \A p \in Ids : ~Configured(p) /\ ~HasBegun(p) /\ ot[p] = 0 /\ waitedResponse[p] = 0
      /\ \A p : On("reset", p) \notin InProgress /\ On("answered", p) \notin InProgress
    BY <1>3, <1>4, OpsOf DEF Init, Configured, HasBegun
<1>6. Present = {} /\ Resetting = {}
    BY <1>5 DEF Present, Resetting
<1>7. \A c \in InProgress : \A r : ~Wakes(c, r)
    BY <1>3, WakesOf
<1>8. \A r \in conf.roots : r \in Ids /\ Described(r)
    BY <1>1, RootOf
<1>9. Clock
    BY <1>3 DEF Init, Clock
<1>10. Owed /\ AtEnd /\ Idle /\ Checkers /\ Subscribers
    <2>1. \A p \in Ids : ~terminated[p]
        BY <1>5 DEF HasBegun
    <2> QED
        BY <1>3, <1>5, <1>6, <2>1 DEF Owed, AtEnd, Idle, Checkers, Subscribers, Init
<1>11. Sleeping
    BY <1>5, <1>6, <1>7, <1>8 DEF Sleeping, Dormant
<1>12. RootsCached
    <2>1. ASSUME NEW c \in InProgress PROVE Cache \in InProgress
        BY <1>1, <1>2, <1>4, <2>1, LoadingOf
    <2>2. ASSUME NEW r \in conf.roots PROVE Cache \in InProgress
        BY <1>4, <1>8, <2>2 DEF Described
    <2> QED
        BY <1>6, <2>1, <2>2 DEF RootsCached
<1>13. LeavesLast
    BY NoneOf DEF Init, LeavesLast
<1>14. Recorded
    <2>1. \A k, c : ~Checking(k, c)
        BY <1>3 DEF Checking
    <2> QED
        BY <1>5, <2>1 DEF Recorded, Hearing
<1> QED
    BY <1>9, <1>10, <1>11, <1>12, <1>13, <1>14 DEF Settled

LEMMA SettledNext ==
    ASSUME OneFile, Acyclic, Sound, Sound', InTurn, Settled, [Next]_vars
    PROVE  Settled'
<1>1. Typed /\ Typed' /\ Orderly /\ Known /\ Known'
    BY DEF Sound
<1>2. Clock' /\ Owed' /\ Checkers' /\ AtEnd' /\ Subscribers'
    BY <1>1, ClockNext, OwedNext, CheckersNext, AtEndNext, SubscribersNext DEF Settled
<1>3. Idle' /\ Recorded'
    BY <1>1, IdleNext, RecordedNext DEF Settled
<1>4. Sleeping' /\ RootsCached' /\ LeavesLast'
    BY <1>1, SleepingNext, RootsCachedNext, LeavesLastNext DEF Settled
<1> QED
    BY <1>2, <1>3, <1>4 DEF Settled

LEMMA SettledAgrees ==
    ASSUME Acyclic, Typed, InTurn, Settled, TerminationCount
    PROVE  CountsAgree
<1>1. conf \in Configs
    BY DEF Typed
<1>2. Quiet => InProgress = {} /\ Resetting = {}
    BY DEF Quiet, InProgress, Resetting
<1>3. ASSUME NEW p \in Ids, Of(p).role = "master" PROVE ot[p] = waitedResponse[p]
    BY <1>3 DEF Settled, Owed, Master
<1>4. ASSUME NEW p \in Ids, Quiet, Of(p).role = "checker", Cardinality(Of(p).watches) = 1,
             NEW m, m = CHOOSE q \in Of(p).watches : TRUE, Of(m).role = "master", ~Of(m).posted
      PROVE  ot[p] = ot[m]
    <2>1. Of(p).watches \subseteq Ids /\ IsFiniteSet(Of(p).watches)
        BY <1>1, ConfOf, FS_Subset, IdsAssumption
    <2>2. PICK x : Of(p).watches = {x}
        BY <1>4, <2>1, FS_Singleton
    <2>3. m \in Of(p).watches
        BY <1>4, <2>2
    <2>4. Of(p).watches = {m} /\ m \in Ids
        BY <2>1, <2>2, <2>3
    <2>5. Followed(p, m)
        BY <1>4, <2>4 DEF Followed, Watches, Master
    <2>6. \A c \in InProgress : ~Counts(c)
        BY <1>2, <1>4
    <2> QED
        BY <2>4, <2>5, <2>6, RecordedIs, NoneCounted DEF Settled
<1>5. ASSUME NEW r \in Ids, Quiet, StreamTerminated(r), NEW p \in ToSet(streamCache[r].nodes)
      PROVE  terminated[p] /\ (Of(p).role = "master" => ot[p] = 0)
    <2>1. p \in Ids /\ terminated[p]
        BY <1>2, <1>5, StreamDone DEF Settled
    <2> QED
        BY <2>1 DEF Settled, AtEnd, Master
<1>6. OutstandingOwed
    BY <1>3, <1>4 DEF OutstandingOwed
<1>7. StreamComplete
    BY <1>5 DEF StreamComplete
<1> QED
    BY <1>6, <1>7 DEF CountsAgree

Steady == Sound /\ InTurn /\ Settled /\ TerminationCount

LEMMA SteadyAlways ==
    ASSUME OneFile, Rooted, Acyclic
    PROVE  Spec => []Steady
<1>1. Init => Steady
    BY SoundInit, InTurnInit, SettledInit, CountInit DEF Steady
<1>2. Steady /\ [Next]_vars => Steady'
    <2> SUFFICES ASSUME Steady, [Next]_vars PROVE Steady'
        OBVIOUS
    <2>1. Sound /\ Sound' /\ Typed /\ Orderly /\ Known
        BY SoundNext DEF Steady, Sound
    <2>2. InTurn'
        BY <2>1, InTurnNext, InTurnSame DEF Steady
    <2>3. TerminationCount'
        BY <2>1, CountNext DEF Steady
    <2>4. Settled'
        BY <2>1, SettledNext DEF Steady
    <2> QED
        BY <2>1, <2>2, <2>3, <2>4 DEF Steady
<1> QED
    BY <1>1, <1>2, PTL DEF Spec

\* What is outstanding is never negative, for masters: no answer arrives that the
\* memory did not owe.
THEOREM TypeCorrect ==
    ASSUME OneFile, Rooted, Acyclic
    PROVE  Spec => []TypeOK
<1>1. Steady => TypeOK
    <2> SUFFICES ASSUME Steady PROVE TypeOK
        OBVIOUS
    <2>1. Typed /\ Owed
        BY DEF Steady, Sound, Settled
    <2>2. \A p \in Ids : Of(p).role = "master" => ot[p] \in Nat
        BY <2>1 DEF Typed, Owed, Master
    <2> QED
        BY <2>1, <2>2 DEF Typed, TypeOK
<1>2. Spec => []Steady
    BY SteadyAlways
<1> QED
    BY <1>1, <1>2, PTL

\* What ends and what is outstanding is counted alike by all who count it: the
\* manager (isTerminated), the profiles and their checkers (updateCheckers), the
\* memory (waitedResponseUidMap) and the streams (streamTerminated), over any
\* order of answers, terminations and resets.
THEOREM CountsAlwaysAgree ==
    ASSUME OneFile, Rooted, Acyclic
    PROVE  Spec => []CountsAgree
<1>1. Steady => CountsAgree
    BY SettledAgrees DEF Steady, Sound
<1>2. Spec => []Steady
    BY SteadyAlways
<1> QED
    BY <1>1, <1>2, PTL
=============================================================================
